----------------------------- MODULE HashTable -----------------------------
(***************************************************************************)
(* One hash table of jbl/jbl_ht.c as one variable of the program sees it:  *)
(* slots filled from the front, a chain of slots for each hash class,      *)
(* deletion that leaves holes, closing the holes in place, growth, and     *)
(* separation from another holder of the same table before a change.       *)
(* Positions are numbers; the code keeps the heads of the chains in front  *)
(* of the slots and reaches them by negative indexes.                      *)
(***************************************************************************)
EXTENDS Integers, SequencesExt, Powers

CONSTANTS Key,      \* [k |-> string, or NULL for a number, h |-> hash, or the number]
          Val,      \* payloads
          MinSize,  \* JBL_HT_MIN_SIZE
          MaxSize,  \* bound: the largest table
          MaxMerge, \* bound: entries of a table that is merged in
          MaxSysSize   \* bound: the largest table marked by jbl_ht_set_sys

NULL == "NULL"
ASSUME HashTableAssumption ==
  /\ MinSize \in Nat \ {0, 1}
  /\ MaxSize \in Nat /\ MaxSysSize \in Nat /\ MaxMerge \in Nat
  /\ \A k \in Key : k.h \in Nat
  /\ NULL \notin Val

VARIABLES size, len, nxt,   \* fields of the jbl_ht
          slot,             \* [0 .. size - 1 -> key, payload and next slot of the chain]
          head,             \* [0 .. size - 1 -> first slot of the chain]
          sys,              \* the payloads are no counted values (jbl_ht_set_sys)
          own,              \* no other variable holds this table
          frozen,           \* if another one does: what it must go on seeing
          fault             \* history: what a call has broken in a sys table

table == <<size, len, nxt, slot, head>>
vars == <<table, sys, own, frozen, fault>>

END == MaxSize     \* (jbl_ht_size_type)-1: not below nxt, whatever nxt is
Blank == [key |-> [k |-> NULL, h |-> 0], v |-> NULL, nxt |-> END]

(* A table as a value, so that a call can be put together from the functions  *)
(* it makes.                                                                  *)
Table(s) == [own |-> TRUE, size |-> s, len |-> 0, nxt |-> 0,
             slot |-> [i \in 0 .. (s - 1) |-> Blank],
             head |-> [i \in 0 .. (s - 1) |-> END]]
This == [own |-> own, size |-> size, len |-> len, nxt |-> nxt, slot |-> slot, head |-> head]
Becomes(t) == /\ size' = t.size /\ len' = t.len /\ nxt' = t.nxt
              /\ slot' = t.slot /\ head' = t.head
              /\ own' = t.own /\ frozen' = IF t.own THEN <<>> ELSE frozen
              /\ UNCHANGED sys

Init == /\ size = 0 /\ len = 0 /\ nxt = 0
        /\ slot = Table(0).slot /\ head = Table(0).head
        /\ sys \in BOOLEAN
        /\ own = TRUE /\ frozen = <<>>
        /\ fault = "none"
-----------------------------------------------------------------------------
(* gh2: the low bits of the hash choose the chain.                            *)
Class(t, k) == k.h % t.size

(* The slot with key k in its chain, or END.                                  *)
Find(t, k) ==
  LET from[i \in 0 .. END] ==
        IF i >= t.nxt THEN END
        ELSE IF t.slot[i].key = k THEN i ELSE from[t.slot[i].nxt]
  IN  IF t.size = 0 THEN END ELSE from[t.head[Class(t, k)]]

(* A variant: the new head forgets the rest of its chain.                     *)
LinkAlone(t, e) ==
  [t EXCEPT !.slot[t.nxt] = [key |-> e.key, v |-> e.v, nxt |-> END],
            !.head[Class(t, e.key)] = t.nxt, !.len = @ + 1, !.nxt = @ + 1]

(* The next free slot is filled and becomes the head of its chain.            *)
Link(t, e) ==
  LET c == Class(t, e.key)
  IN  [t EXCEPT !.slot[t.nxt] = [key |-> e.key, v |-> e.v, nxt |-> t.head[c]],
                !.head[c] = t.nxt, !.len = @ + 1, !.nxt = @ + 1]

(* The loop of jbl_ht_extend_to: the slots in use, put into a new table.      *)
Copied(t, want) ==
  LET upTo[i \in 0 .. t.nxt] ==
        IF i = 0 THEN Table(want)
        ELSE IF t.slot[i - 1].v = NULL THEN upTo[i - 1] ELSE Link(upTo[i - 1], t.slot[i - 1])
  IN  upTo[t.nxt]

(* The body of the loop of jbl_ht_rehash: slot i moves to the hole at a.j.    *)
(* Unset leaves no hole in a sys table, so nothing ever moves there.          *)
Move(a, i) ==
  LET t == a.t
      c == Class(t, t.slot[i].key)
  IN  [t |-> [t EXCEPT !.slot[a.j] = [t.slot[i] EXCEPT !.nxt =
                                        IF t.head[c] >= i THEN t.slot[i].nxt ELSE t.head[c]],
                       !.head[c] = a.j, !.slot[i] = Blank],
       j |-> a.j + 1]

(* jbl_ht_rehash, behind its call of jbl_ht_extend_to: j is the first hole.   *)
Holes(t) == {i \in 0 .. (t.nxt - 1) : t.slot[i].v = NULL}
Rehashed(t) ==
  LET first == Min(Holes(t))
      upTo[i \in first .. (t.nxt - 1)] ==
        IF i = first THEN [t |-> t, j |-> first]
        ELSE IF t.slot[i].v = NULL THEN upTo[i - 1]
        ELSE Move(upTo[i - 1], i)
      end == upTo[t.nxt - 1]
  IN  IF Holes(t) = {} THEN t ELSE [end.t EXCEPT !.nxt = end.j]

(* A variant: a shared table is changed where it is.                          *)
ExtendToInPlace(t, n) ==
  LET want == PowerUp(IF n + t.nxt > MinSize THEN n + t.nxt ELSE MinSize)
  IN  CASE want <= t.size -> t
        [] want > t.size /\ 2 * (n + t.len) < t.size -> Rehashed(t)
        [] OTHER -> Copied(t, want)

(* jbl_ht_extend_to: room for n more entries, in a table of this variable     *)
(* alone.  Room at the end is enough; or the holes are closed when half the   *)
(* table would do; or else all entries go to a new table.                     *)
ExtendTo(t, n) ==
  LET want == PowerUp(IF n + t.nxt > MinSize THEN n + t.nxt ELSE MinSize)
  IN  CASE t.own /\ want <= t.size -> t
        [] t.own /\ want > t.size /\ 2 * (n + t.len) < t.size -> Rehashed(t)
        [] OTHER -> Copied(t, want)

(* The body of __jbl_ht_insert behind jbl_ht_extend_to.  The new value of a   *)
(* key that a sys table has is written behind the fill mark.                  *)
Put(t, e) ==
  LET i == Find(t, e.key)
  IN  IF i # END THEN [t EXCEPT !.slot[IF sys THEN t.nxt ELSE i].v = e.v] ELSE Link(t, e)

(* A variant: a slot in the middle of its chain stays the end of it.          *)
TakenHeadOnly(t, k) ==
  LET i == Find(t, k)
      c == Class(t, k)
  IN  IF i = END THEN t
      ELSE [t EXCEPT !.slot[i] = Blank, !.len = @ - 1,
                     !.head[c] = IF @ = i THEN t.slot[i].nxt ELSE @]

(* __jbl_ht_data_free, and __jbl_ht_data_free2 of a sys table: the payload    *)
(* stays, and with it the mark that the slot is in use.                       *)
Gone(e) == IF sys THEN [Blank EXCEPT !.v = e.v] ELSE Blank

(* The body of __jbl_ht_unset: the slot goes out of its chain and is a hole.  *)
Taken(t, k) ==
  LET i == Find(t, k)
      c == Class(t, k)
  IN  IF i = END THEN t
      ELSE [t EXCEPT !.slot = [j \in DOMAIN t.slot |->
                                 CASE j = i -> Gone(t.slot[i])
                                   [] j # i /\ t.slot[j].nxt = i
                                        -> [t.slot[j] EXCEPT !.nxt = t.slot[i].nxt]
                                   [] OTHER -> t.slot[j]],
                     !.len = @ - 1,
                     !.head[c] = IF @ = i THEN t.slot[i].nxt ELSE @]

(* The loops of jbl_ht_merge and jbl_ht_merge_ll                              *)
Puts(t, s) ==
  LET upTo[n \in 0 .. Len(s)] == IF n = 0 THEN t ELSE Put(upTo[n - 1], s[n])
  IN  upTo[Len(s)]

ContentsOf(t) == [k \in {q \in Key : Find(t, q) # END} |-> t.slot[Find(t, k)].v]
Has(k) == Find(This, k) # END
Contents == ContentsOf(This)
-----------------------------------------------------------------------------
(* Breaches, recorded: a value is "lost", an "unset" slot stays in use.  A    *)
(* write behind the last slot, "overrun" after one of these and "room" before *)
(* them, ends what the model follows.                                         *)
Noted(kind, breach) == fault' = IF breach /\ fault # "unset" THEN kind ELSE fault
Overrun == /\ fault' = IF fault = "none" THEN "room" ELSE "overrun"
           /\ UNCHANGED <<table, sys, own, frozen>>

(* The bound on a table's growth                                              *)
Fits(t) == t.size <= MaxSize /\ (sys => t.size <= MaxSysSize)

(* jbl_ht_insert, jbl_ht_insert_chars, jbl_ht_insert_int                      *)
Insert(k, v) ==
  LET t == ExtendTo(This, 1)
  IN  /\ Fits(t)
      /\ IF t.nxt < t.size
         THEN /\ Becomes(Put(t, [key |-> k, v |-> v]))
              /\ Noted("lost", sys /\ Find(t, k) # END)
         ELSE Overrun

(* jbl_ht_insert_force: without a look for the key.  Its callers, the string  *)
(* cache and the maker of the region file, have looked themselves.            *)
InsertForce(k, v) ==
  LET t == ExtendTo(This, 1)
  IN  /\ ~Has(k)
      /\ Fits(t)
      /\ IF t.nxt < t.size
         THEN Becomes(Link(t, [key |-> k, v |-> v])) /\ UNCHANGED fault
         ELSE Overrun

(* jbl_ht_unset, jbl_ht_unset_chars, jbl_ht_unset_int                         *)
Unset(k) ==
  LET t == ExtendTo(This, 0)
  IN  /\ Fits(t)
      /\ Becomes(Taken(t, k))
      /\ Noted("unset", sys /\ Find(t, k) # END)

(* jbl_ht_rehash called by the program                                        *)
Rehash ==
  LET t == ExtendTo(This, 0)
  IN  Fits(t) /\ Becomes(Rehashed(t)) /\ UNCHANGED fault

(* jbl_ht_merge of another table with the entries s; jbl_ht_merge_ll, which   *)
(* refuses a sys table                                                        *)
Merge(s) ==
  LET t == ExtendTo(This, Len(s))
  IN  /\ Fits(t)
      /\ IF t.nxt + Len(s) <= t.size
         THEN /\ Becomes(Puts(t, s))
              /\ Noted("lost", sys /\ \E i \in DOMAIN s : Find(t, s[i].key) # END)
         ELSE Overrun

(* Another variable gets this table by jbl_ht_copy, and leaves it: it is      *)
(* freed, or changed and thereby copied.                                      *)
Share == /\ own
         /\ own' = FALSE /\ frozen' = Contents
         /\ UNCHANGED <<table, sys, fault>>
Leave == /\ ~own
         /\ own' = TRUE /\ frozen' = <<>>
         /\ UNCHANGED <<table, sys, fault>>
(* jbl_ht_free, and a new table                                               *)
FreeNew == Becomes(Table(0)) /\ fault' = "none"

Others == {s \in UNION {[1 .. n -> [key : Key, v : Val]] : n \in 1 .. MaxMerge} :
             IsInjective([i \in DOMAIN s |-> s[i].key])}

Calls == \/ \E k \in Key, v \in Val : Insert(k, v) \/ InsertForce(k, v)
         \/ \E k \in Key : Unset(k)
         \/ \E s \in Others : Merge(s)
         \/ Rehash \/ Share \/ Leave
Next == (fault \notin {"room", "overrun"} /\ Calls) \/ FreeNew

Spec == Init /\ [][Next]_vars
-----------------------------------------------------------------------------
(* The chain of a class: from its head along nxt, while below the fill mark.  *)
Chain(c) ==
  LET from[i \in 0 .. END] == IF i >= nxt THEN <<>> ELSE <<i>> \o from[slot[i].nxt]
  IN  from[head[c]]
InUse(c) == {i \in 0 .. (nxt - 1) : slot[i].v # NULL /\ Class(This, slot[i].key) = c}

(* As long as no key that a sys table has was unset or given a new value,     *)
(* insertion, deletion, growth and closing holes in place keep each chain     *)
(* what it is for: it meets every entry of its class and nothing else, from   *)
(* the newest to the oldest; len counts the entries, the fill mark is inside  *)
(* the table and nothing is behind it; and no entry is written behind the     *)
(* last slot, though jbl_ht_extend_to counts the slots in one of its tests    *)
(* and the entries in another.                                                *)
ChainsExact ==
  /\ fault # "room"
  /\ fault = "none" =>
       /\ nxt <= size
       /\ \A i \in nxt .. (size - 1) : slot[i] = Blank
       /\ \A c \in 0 .. (size - 1) :
            /\ Range(Chain(c)) = InUse(c)
            /\ \A m \in DOMAIN Chain(c) : m > 1 => Chain(c)[m] < Chain(c)[m - 1]
       /\ len = Cardinality({i \in 0 .. (nxt - 1) : slot[i].v # NULL})

(* Whatever this variable does to its table, another one that got the same   *)
(* table goes on seeing what it saw: whoever changes a table gets its own     *)
(* first, and a rehash closes holes only in a table of one holder.            *)
FrozenKept == ~own => Contents = frozen

(* Looked up through the chains, the table is a map, as long as no key that a *)
(* sys table has was unset or given a new value.                              *)
Looked == INSTANCE Map WITH map <- Contents
ImplementsMap == Looked!Init /\ [][fault' = "none" => Looked!Next]_Contents

(* "keys that repeat: that one's replace this one's" (jbl_ht.h:105).  Not in  *)
(* a sys table, where the new value is written to no slot in use.             *)
MergeOverrides ==
  [][\A s \in Others : Merge(s) =>
       \A i \in DOMAIN s : s[i].key \in DOMAIN Contents' /\ Contents'[s[i].key] = s[i].v]_vars

(* "delete a var" (jbl_ht.h:77): what jbl_ht_foreach meets (jbl_ht.h:65) is   *)
(* what can be looked up.  Not in a sys table, where an unset slot stays.     *)
ForeachMeetsMap ==
  {<<slot[i].key, slot[i].v>> : i \in {j \in 0 .. (nxt - 1) : slot[j].v # NULL}}
    = {<<k, Contents[k]>> : k \in DOMAIN Contents}

(* "if the size is not enough, extend" (jbl_ht.c:109): a write is never       *)
(* behind the last slot.  In a sys table it comes to be, for unset slots are  *)
(* not counted as entries when the half of the table is found to do, and are  *)
(* no holes to be closed.                                                     *)
RoomMade == fault \notin {"room", "overrun"}
=============================================================================
