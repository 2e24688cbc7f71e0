---------------------------- MODULE SharedLists ----------------------------
(***************************************************************************)
(* Counted objects (jbl/jbl_gc.c) and the lists that use them              *)
(* (jbl/jbl_ll.c): a list may be held by several variables and be a        *)
(* payload of other lists, is copied when a holder changes it while        *)
(* others hold it, and is reached through reference objects after          *)
(* jbl_refer.  The nodes of one list are in module LinkedList; here a list *)
(* is the sequence of its payloads.  Three calls are beyond what counting  *)
(* can keep right; they are recorded, and nothing is said of what follows. *)
(***************************************************************************)
EXTENDS Integers, SequencesExt

CONSTANTS Obj,     \* memory for objects: 1 .. n
          Atom,    \* numbers, booleans and null of jbl_var_data.c
          Holder,  \* variables of the program
          MaxLen   \* bound: the longest list built

NULL == 0
ASSUME SharedAssumption ==
  /\ IsFiniteSet(Obj) /\ Obj = 1 .. Cardinality(Obj) /\ IsFiniteSet(Holder)
  /\ Atom \cap Obj = {} /\ NULL \notin Atom \cup Holder /\ Holder \cap Obj = {}
  /\ MaxLen \in Nat

VARIABLES heap,   \* [Obj -> object]: what it is, its count, its contents
          hold,   \* [Holder -> Obj \cup {NULL}]
          todo,   \* payloads jbl_var_free is still to be called for
          fault   \* the first of three breaches, or "none"

vars == <<heap, hold, todo, fault>>

Unused == [kind |-> "unused", cnt |-> 0, ptr |-> NULL, elems |-> <<>>]
ListOf(s) == [kind |-> "list", cnt |-> 1, ptr |-> NULL, elems |-> s]

Init ==
  /\ heap = [o \in Obj |-> Unused]
  /\ hold = [h \in Holder |-> NULL]
  /\ todo = <<>>
  /\ fault = "none"

Unbroken == fault = "none" /\ UNCHANGED fault
Noted(kind, breach) == fault = "none" /\ fault' = IF breach THEN kind ELSE "none"

Alive(hp) == {o \in Obj : hp[o].kind # "unused"}
IsRef(o) == heap[o].kind = "ref"
(* jbl_malloc: which memory does not matter, the first is taken.              *)
Fresh(hp) == Min(Obj \ Alive(hp))
Room(n) == Cardinality(Obj \ Alive(heap)) >= n
-----------------------------------------------------------------------------
(* jbl_refer_pull and jbl_refer_pull_keep_father.                             *)
Pull[o \in Obj] == IF IsRef(o) THEN Pull[heap[o].ptr] ELSE o
Father[o \in Obj] ==
  IF ~IsRef(o) THEN NULL
  ELSE IF IsRef(heap[o].ptr) THEN Father[heap[o].ptr] ELSE o

(* jbl_gc_plus, when p is counted.  A number has no count: jbl_Vuint_copy and *)
(* its like answer a new number with the same value.                          *)
Plus(hp, p) == IF p \in Obj THEN [hp EXCEPT ![p].cnt = @ + 1] ELSE hp
Count(s, o) == Cardinality({i \in DOMAIN s : s[i] = o})
PlusAll(hp, s) == [o \in Obj |-> [hp[o] EXCEPT !.cnt = @ + Count(s, o)]]

(* Variants of jbl_ll_extend: the payloads of the copy are not counted; a     *)
(* list that two hold is not copied.                                          *)
ExtendUncounted(hp, hd, h) ==
  LET this == hd[h]
      tmp == Fresh(hp)
  IN  IF this = NULL \/ hp[Pull[this]].cnt <= 1
      THEN [heap |-> IF this = NULL THEN [hp EXCEPT ![tmp] = ListOf(<<>>)] ELSE hp,
            hold |-> IF this = NULL THEN [hd EXCEPT ![h] = tmp] ELSE hd,
            thi |-> IF this = NULL THEN tmp ELSE Pull[this]]
      ELSE [heap |-> [hp EXCEPT ![tmp] = ListOf(hp[Pull[this]].elems),
                                ![Pull[this]].cnt = @ - 1],
            hold |-> [hd EXCEPT ![h] = tmp], thi |-> tmp]
ExtendNever(hp, hd, h) ==
  LET this == hd[h]
      tmp == Fresh(hp)
  IN  IF this = NULL
      THEN [heap |-> [hp EXCEPT ![tmp] = ListOf(<<>>)],
            hold |-> [hd EXCEPT ![h] = tmp], thi |-> tmp]
      ELSE [heap |-> hp, hold |-> hd, thi |-> Pull[this]]

(* jbl_ll_extend for the variable h: the list to change, its own from now on. *)
(* The copy is counted once, its payloads once more; the last reference on    *)
(* the way, or else the variable, is sent to it.  Others still hold the old   *)
(* list, so jbl_ll_free of it only counts.                                    *)
Extend(hp, hd, h) ==
  LET this == hd[h]
      ref == IF this = NULL THEN NULL ELSE Father[this]
      thi == IF this = NULL THEN NULL ELSE Pull[this]
      tmp == Fresh(hp)
  IN  CASE this = NULL ->
             [heap |-> [hp EXCEPT ![tmp] = ListOf(<<>>)],
              hold |-> [hd EXCEPT ![h] = tmp], thi |-> tmp]
        [] this # NULL /\ hp[thi].cnt <= 1 -> [heap |-> hp, hold |-> hd, thi |-> thi]
        [] OTHER ->
             LET copied == [PlusAll(hp, hp[thi].elems) EXCEPT
                              ![tmp] = ListOf(hp[thi].elems), ![thi].cnt = @ - 1]
             IN  IF ref # NULL
                 THEN [heap |-> [copied EXCEPT ![ref].ptr = tmp], hold |-> hd, thi |-> tmp]
                 ELSE [heap |-> copied, hold |-> [hd EXCEPT ![h] = tmp], thi |-> tmp]

(* What h reads: the payloads of its list.                                    *)
Elems(h) == IF hold[h] = NULL THEN <<>> ELSE heap[Pull[hold[h]]].elems
Length(h) == Len(Elems(h))

(* The objects a payload leads to.                                            *)
Below[p \in Obj] == {p} \cup IF IsRef(p) THEN Below[heap[p].ptr]
                             ELSE UNION {Below[q] : q \in Obj \cap Range(heap[p].elems)}
-----------------------------------------------------------------------------
New(h) ==
  /\ Unbroken
  /\ hold[h] = NULL /\ Room(1)
  /\ heap' = [heap EXCEPT ![Fresh(heap)] = ListOf(<<>>)]
  /\ hold' = [hold EXCEPT ![h] = Fresh(heap)]
  /\ UNCHANGED todo

(* g = jbl_ll_copy(h)                                                         *)
Copy(h, g) ==
  /\ Unbroken
  /\ hold[h] # NULL /\ hold[g] = NULL
  /\ heap' = Plus(heap, hold[h])
  /\ hold' = [hold EXCEPT ![g] = hold[h]]
  /\ UNCHANGED todo

(* g = jbl_refer(&h): the new reference owns what h held, and h and g own it. *)
Refer(h, g) ==
  /\ Unbroken
  /\ hold[h] # NULL /\ hold[g] = NULL /\ Room(1)
  /\ LET this == Fresh(heap)
     IN  /\ heap' = [heap EXCEPT ![this] =
                       [kind |-> "ref", cnt |-> 2, ptr |-> hold[h], elems |-> <<>>]]
         /\ hold' = [hold EXCEPT ![h] = this, ![g] = this]
  /\ UNCHANGED todo

(* h = jbl_derefer(h).  It frees the references on the way up to and with the *)
(* first that others hold, too: these others are left with freed memory.      *)
Freed[o \in Obj] ==
  IF ~IsRef(o) THEN {}
  ELSE {o} \cup (IF heap[o].cnt = 1 THEN Freed[heap[o].ptr] ELSE {})
Derefer(h) ==
  /\ hold[h] # NULL /\ IsRef(hold[h])
  /\ Noted("derefer", \E o \in Freed[hold[h]] : heap[o].cnt > 1)
  /\ heap' = [o \in Obj |-> IF o \in Freed[hold[h]] THEN Unused ELSE heap[o]]
  /\ hold' = [hold EXCEPT ![h] = Pull[hold[h]]]
  /\ UNCHANGED todo

(* h = jbl_ll_insert(h, p, the k-th node): behind the k-th payload, first     *)
(* when k = 0.  The payload is copied after the list is extended.             *)
InsertPayload(h, p, k) ==
  LET x == Extend(heap, hold, h)
  IN  /\ heap' = [Plus(x.heap, p) EXCEPT ![x.thi].elems = InsertAt(@, k + 1, p)]
      /\ hold' = x.hold
      /\ UNCHANGED todo

InsertAtom(h, a, k) ==
  /\ Unbroken
  /\ Room(1) /\ k <= Length(h) /\ Length(h) < MaxLen
  /\ InsertPayload(h, a, k)

(* As a payload of h's list p leads back to that list: it leads to the list   *)
(* itself, or, when the list is copied first, to the reference sent to the    *)
(* copy.  Counts never free such a ring.                                      *)
Closes(h, p) ==
  /\ hold[h] # NULL /\ p \in Obj
  /\ IF heap[Pull[hold[h]]].cnt <= 1 THEN Pull[hold[h]] \in Below[p]
                                     ELSE Father[hold[h]] \in Below[p]

(* What g holds becomes a payload of h.                                       *)
InsertHeld(h, g, k) ==
  /\ Room(1) /\ k <= Length(h) /\ Length(h) < MaxLen
  /\ hold[g] # NULL
  /\ Noted("cycle", Closes(h, hold[g]))
  /\ InsertPayload(h, hold[g], k)

(* yy->v = jbl_ll_add(yy->v, a) as jbl_json_decode does: a list that is a     *)
(* payload of h's list is changed in place.  h's own list is held by h alone. *)
AddInside(h, k, a) ==
  /\ Unbroken
  /\ Room(1) /\ k \in DOMAIN Elems(h)
  /\ ~IsRef(hold[h]) /\ heap[hold[h]].cnt = 1
  /\ Elems(h)[k] \in Obj /\ ~IsRef(Elems(h)[k])
  /\ LET at == [x \in {h} |-> Elems(h)[k]]
         x == Extend(heap, at, h)
     IN  /\ Len(heap[at[h]].elems) < MaxLen
         /\ heap' = [x.heap EXCEPT ![x.thi].elems = Append(@, a),
                                   ![hold[h]].elems[k] = x.hold[h]]
  /\ UNCHANGED <<hold, todo>>

(* h = jbl_ll_merge(h, g): what g stands for is found before h's list is      *)
(* extended, then its payloads are inserted one by one.  A list that is not   *)
(* copied grows while it is walked when it is merged into itself.             *)
Endless(h, g) ==
  /\ hold[h] # NULL /\ Elems(g) # <<>>
  /\ Pull[hold[h]] = Pull[hold[g]] /\ heap[Pull[hold[h]]].cnt <= 1
Merge(h, g) ==
  /\ hold[g] # NULL /\ Room(1)
  /\ Length(h) + Length(g) <= MaxLen
  /\ IF Endless(h, g) THEN Noted("endless", TRUE)
                      ELSE Noted("cycle", \E p \in Range(Elems(g)) : Closes(h, p))
  /\ LET x == Extend(heap, hold, h)
     IN  /\ heap' = [PlusAll(x.heap, Elems(g)) EXCEPT ![x.thi].elems = @ \o Elems(g)]
         /\ hold' = x.hold
  /\ UNCHANGED todo

(* A variant: the node goes, its payload is not freed.                        *)
DeleteNodeOnly(h, k) ==
  /\ Unbroken
  /\ Room(1) /\ k \in DOMAIN Elems(h)
  /\ LET x == Extend(heap, hold, h)
     IN  /\ heap' = [x.heap EXCEPT ![x.thi].elems = RemoveAt(@, k)]
         /\ hold' = x.hold
  /\ UNCHANGED todo

(* h = jbl_ll_delete(h, the k-th node)                                        *)
Delete(h, k) ==
  /\ Unbroken
  /\ Room(1) /\ k \in DOMAIN Elems(h)
  /\ LET x == Extend(heap, hold, h)
     IN  /\ heap' = [x.heap EXCEPT ![x.thi].elems = RemoveAt(@, k)]
         /\ hold' = x.hold
  /\ todo' = <<Elems(h)[k]>>

(* h = jbl_ll_swap_node(h, the j-th node, the k-th node)                      *)
Swap(h, j, k) ==
  /\ Unbroken
  /\ Room(1) /\ {j, k} \subseteq DOMAIN Elems(h) /\ j < k
  /\ LET x == Extend(heap, hold, h)
     IN  /\ heap' = [x.heap EXCEPT ![x.thi].elems[j] = Elems(h)[k],
                                   ![x.thi].elems[k] = Elems(h)[j]]
         /\ hold' = x.hold
  /\ UNCHANGED todo

(* h = jbl_ll_free(h)                                                         *)
Free(h) ==
  /\ Unbroken
  /\ hold[h] # NULL
  /\ hold' = [hold EXCEPT ![h] = NULL]
  /\ todo' = <<hold[h]>>
  /\ UNCHANGED heap

(* A variant: a reference frees itself again and not what it leads to.        *)
FreeStepSelf ==
  /\ Unbroken
  /\ todo # <<>>
  /\ LET this == Head(todo)
     IN  CASE this \in Obj /\ heap[this].cnt > 1 ->
                heap' = [heap EXCEPT ![this].cnt = @ - 1] /\ todo' = Tail(todo)
           [] this \in Obj /\ heap[this].cnt <= 1 /\ IsRef(this) -> UNCHANGED <<heap, todo>>
           [] this \in Obj /\ heap[this].cnt <= 1 /\ ~IsRef(this) ->
                /\ heap' = [heap EXCEPT ![this] = Unused]
                /\ todo' = heap[this].elems \o Tail(todo)
           [] OTHER -> todo' = Tail(todo) /\ UNCHANGED heap
  /\ UNCHANGED hold

(* One call of jbl_var_free.  At a count of zero what the object owns follows *)
(* (jbl_ll_free); a number is nobody else's.                                  *)
FreeStep ==
  /\ Unbroken
  /\ todo # <<>>
  /\ LET this == Head(todo)
     IN  \/ /\ this \in Obj /\ heap[this].cnt > 1
            /\ heap' = [heap EXCEPT ![this].cnt = @ - 1]
            /\ todo' = Tail(todo)
         \/ /\ this \in Obj /\ heap[this].cnt <= 1
            /\ heap' = [heap EXCEPT ![this] = Unused]
            /\ todo' = (IF IsRef(this) THEN <<heap[this].ptr>> ELSE heap[this].elems)
                       \o Tail(todo)
         \/ /\ this \notin Obj
            /\ todo' = Tail(todo) /\ UNCHANGED heap
  /\ UNCHANGED hold

Call ==
  \/ \E h \in Holder : New(h) \/ Free(h) \/ Derefer(h)
  \/ \E h, g \in Holder : Copy(h, g) \/ Refer(h, g) \/ Merge(h, g)
  \/ \E h \in Holder, k \in 0 .. MaxLen :
       \/ \E a \in Atom : InsertAtom(h, a, k) \/ (k > 0 /\ AddInside(h, k, a))
       \/ \E g \in Holder : InsertHeld(h, g, k)
       \/ Delete(h, k)
       \/ \E j \in 1 .. MaxLen : Swap(h, j, k)

Next == (todo = <<>> /\ Call) \/ FreeStep
Spec == Init /\ [][Next]_vars
FairSpec == Spec /\ WF_vars(FreeStep)
-----------------------------------------------------------------------------
(* Every way an object is owned: by variables, by payloads, by references and *)
(* by the calls of free under way.                                            *)
Owners(o) ==
  Cardinality({h \in Holder : hold[h] = o}) + Count(todo, o)
  + Cardinality({q \in Obj : heap[q].ptr = o})
  + Cardinality(UNION {{q} \X {i \in DOMAIN heap[q].elems : heap[q].elems[i] = o} : q \in Obj})

(* jbl_gc_plus and jbl_gc_minus balance: the count of an object in use is the *)
(* number of its owners, and memory that is not in use has none.  So nothing  *)
(* is freed while somebody holds it and what nobody holds is freed, until     *)
(* jbl_derefer passes a reference that others hold (jbl_gc.c:46) or a list is *)
(* merged or put into itself.                                                 *)
CountsExact == fault = "none" =>
  \A o \in Obj : /\ heap[o].cnt = Owners(o)
                 /\ o \in Alive(heap) <=> heap[o].cnt > 0

(* What is read through refer_pull is a list, and no list contains itself, so *)
(* what is in use can be reached from a variable and will be freed: every     *)
(* call that leaves it otherwise is one of the three breaches.                *)
Reached == UNION {Below[o] : o \in Obj \cap (Range(hold) \cup Range(todo))}
NothingLost == fault = "none" => Alive(heap) = Reached

(* jbl_gc.h:26: jbl_derefer ends the reference of one variable.  The others   *)
(* that hold the reference still hold memory in use.                          *)
HeldInUse == \A h \in Holder : hold[h] # NULL => hold[h] \in Alive(heap)

(* jbl_ll.h:67: jbl_ll_merge appends one list to another, and comes back.     *)
MergeEnds == fault # "endless"

(* The payloads of a list as its holder sees them: a reference among them     *)
(* reads as the cell it leads to.                                             *)
View[o \in Obj] ==
  [k \in DOMAIN heap[o].elems |->
     LET p == heap[o].elems[k]
     IN  CASE p \notin Obj -> p
           [] p \in Obj /\ IsRef(p) -> <<"ref", Father[p]>>
           [] OTHER -> <<"list", View[p]>>]
CellOf(h) == IF hold[h] = NULL THEN NULL
             ELSE IF IsRef(hold[h]) THEN Father[hold[h]] ELSE h
Standing == [h \in Holder |-> CellOf(h)]
Seen == [c \in {CellOf(h) : h \in Holder} \ {NULL} |->
           View[Pull[IF c \in Obj THEN c ELSE hold[c]]]]
Cells == INSTANCE Holders WITH Cell <- Holder \cup Obj, None <- NULL,
                               cell <- Standing, val <- Seen

(* Copying on write is invisible: a change through one variable reaches the   *)
(* variables that refer to the same cell and nobody else's list, in every     *)
(* step that is not one of the three breaches.                                *)
ImplementsHolders ==
  Cells!Init /\ [][fault' = "none" => Cells!Next \/ UNCHANGED <<Standing, Seen>>]_vars

(* A call of free ends.                                                       *)
FreeEnds == (todo # <<>>) ~> (todo = <<>>)
=============================================================================
