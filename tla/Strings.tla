------------------------------ MODULE Strings ------------------------------
(***************************************************************************)
(* Strings of jbl/jbl_string.c: counted objects that variables share until *)
(* one of them changes its text, texts that are literals of the program    *)
(* and move to memory of their own on the first change, the hash kept in   *)
(* the object, and the cache that gives equal texts one object.            *)
(* References (jbl_refer) are left to module SharedLists; the table of the *)
(* cache is module HashTable, here the set of its entries.                 *)
(***************************************************************************)
EXTENDS Integers, FiniteSets, SequencesExt, Powers

CONSTANTS Obj,          \* bound: addresses of string objects
          Var,          \* variables of the program that hold strings
          Literal,      \* char arrays of the program, as sequences of numbers;
                        \* an empty one would not be known as one (size < len)
          MinLength,    \* JBL_STRING_MIN_LENGTH
          Page,         \* 4096: above it sizes are multiples of it
          CacheMax,     \* JBL_STRING_CACHE_MAX_LENGTH
          HashRange,    \* 2^64, the range of jbl_string_hash_type
          MaxLen        \* bound: the longest text

ASSUME StringsAssumption ==
  /\ Obj \subseteq Nat \ {0} /\ IsFiniteSet(Obj) /\ IsFiniteSet(Var)
  /\ \A t \in Literal : t \in Seq(Nat \ {0}) /\ t # <<>>
  /\ MinLength \in Nat \ {0} /\ Page \in Nat \ {0} /\ CacheMax \in Nat
  /\ HashRange \in Nat \ {0} /\ MaxLen \in Nat

NULL == 0

VARIABLES obj,     \* [Obj -> [gc, s, size, lit, h], gc = 0 when not allocated]
          var,     \* [Var -> object or NULL]
          cache,   \* entries [h, k] of __jbl_string_cache
          fault    \* history: what the last call has broken, with which the model ends

vars == <<obj, var, cache, fault>>

Unused == [gc |-> 0, s |-> <<>>, size |-> 0, lit |-> FALSE, h |-> 0]
(* jbl_string_new                                                             *)
Fresh == [Unused EXCEPT !.gc = 1]

Init == /\ obj = [o \in Obj |-> Unused]
        /\ var = [v \in Var |-> NULL]
        /\ cache = {} /\ fault = "none"

Next1 == CHOOSE n \in Obj : obj[n].gc = 0 /\ \A m \in Obj : obj[m].gc = 0 => n <= m
Room == \E n \in Obj : obj[n].gc = 0
-----------------------------------------------------------------------------
(* jbl_strhash, and the loop of jbl_string_hash                               *)
HashOf(t) == FoldLeft(LAMBDA h, c : (33 * h + c) % HashRange, 0, t)
(* jbl_string_to_upper_case of the odd numbers                                *)
Upper(t) == [i \in DOMAIN t |-> IF t[i] % 2 = 1 THEN t[i] + 1 ELSE t[i]]

SizeShort(n) == n - 1     \* a variant of the next
(* The size that jbl_string_extend_to asks for.                               *)
SizeFor(n) == CASE n <= MinLength -> MinLength
                [] n > MinLength /\ n < Page -> PowerUp(n)
                [] OTHER -> Page * ((n + Page - 1) \div Page)

Const(o) == o.size < Len(o.s)

Grown(o, n) == [o EXCEPT !.size = IF Const(o) \/ SizeFor(n) > @ THEN SizeFor(n) ELSE @,
                          !.lit = FALSE]
NewFor(n) == [Fresh EXCEPT !.size = SizeFor(n)]

(* A variant of the next: a shared object is extended where it is.            *)
ExtendToHere(os, v, n) ==
  IF var[v] = NULL THEN [at |-> Next1, objs |-> [os EXCEPT ![Next1] = NewFor(n)]]
                   ELSE [at |-> var[v], objs |-> [os EXCEPT ![var[v]] = Grown(@, n)]]

(* jbl_string_extend_to: an object of v alone with room for n bytes, and the  *)
(* objects then; the hash goes with the text.                                 *)
ExtendTo(os, v, n) ==
  LET o == var[v]
  IN  CASE o = NULL -> [at |-> Next1, objs |-> [os EXCEPT ![Next1] = NewFor(n)]]
        [] o # NULL /\ os[o].gc = 1 -> [at |-> o, objs |-> [os EXCEPT ![o] = Grown(@, n)]]
        [] OTHER -> [at |-> Next1,
                     objs |-> [os EXCEPT ![o].gc = @ - 1,
                                         ![Next1] = [NewFor(n) EXCEPT !.s = os[o].s, !.h = os[o].h]]]
(* An object is at hand when extending needs one.                             *)
CanExtend(v) == (var[v] # NULL /\ obj[var[v]].gc = 1) \/ Room

Text(v) == IF var[v] = NULL THEN <<>> ELSE obj[var[v]].s

(* jbl_string_hash_clear and the new text, in an object extended for n bytes. *)
WriteKeepHash(v, n, t) ==      \* a variant: the kept hash is not cleared
  LET e == ExtendTo(obj, v, n)
  IN  obj' = [e.objs EXCEPT ![e.at].s = t] /\ var' = [var EXCEPT ![v] = e.at]
Write(v, n, t) ==
  LET e == ExtendTo(obj, v, n)
  IN  /\ obj' = [e.objs EXCEPT ![e.at].s = t, ![e.at].h = 0]
      /\ var' = [var EXCEPT ![v] = e.at]

(* Extending copies the whole text that was shared or a literal, whatever     *)
(* room was asked for.                                                        *)
Overruns(v, n) == /\ var[v] # NULL /\ (obj[var[v]].gc > 1 \/ Const(obj[var[v]]))
                  /\ SizeFor(n) < Len(Text(v))
Noted(kind, breach) == fault = "none" /\ fault' = IF breach THEN kind ELSE "none"
Unbroken == fault = "none" /\ UNCHANGED fault

Drop(os, o) == IF os[o].gc = 1 THEN [os EXCEPT ![o] = Unused] ELSE [os EXCEPT ![o].gc = @ - 1]
-----------------------------------------------------------------------------
New(v) == /\ var[v] = NULL /\ Room
          /\ obj' = [obj EXCEPT ![Next1] = Fresh] /\ var' = [var EXCEPT ![v] = Next1]
          /\ Unbroken /\ UNCHANGED cache

Free(v) == /\ var[v] # NULL
           /\ obj' = Drop(obj, var[v]) /\ var' = [var EXCEPT ![v] = NULL]
           /\ Unbroken /\ UNCHANGED cache

Copy(v, w) == /\ var[v] # NULL /\ var[w] = NULL
              /\ obj' = [obj EXCEPT ![var[v]].gc = @ + 1]
              /\ var' = [var EXCEPT ![w] = var[v]]
              /\ Unbroken /\ UNCHANGED cache

(* jbl_string_add_chars_length, and with it jbl_string_add_char, _add_hex,    *)
(* _add_uint_length and the others that put characters behind the text.       *)
AddChars(v, t) ==
  /\ CanExtend(v) /\ Len(Text(v) \o t) <= MaxLen
  /\ Write(v, Len(Text(v)) + Len(t), Text(v) \o t)
  /\ Noted("room", Overruns(v, Len(Text(v)) + Len(t)))
  /\ UNCHANGED cache

(* jbl_string_add_const_length: a string without text points at the literal.  *)
(* It is not asked whether others hold the string, which then has that text   *)
(* for them, too.                                                             *)
HasText(v) == var[v] # NULL /\ (obj[var[v]].size > 0 \/ obj[var[v]].lit)
AddConst(v, t) ==
  IF HasText(v) THEN AddChars(v, t)
  ELSE LET o == IF var[v] = NULL THEN Next1 ELSE var[v]
           old == IF var[v] = NULL THEN Fresh ELSE obj[o]
       IN  /\ var[v] = NULL => Room
           /\ obj' = [obj EXCEPT ![o] = [old EXCEPT !.s = t, !.lit = TRUE]]
           /\ var' = [var EXCEPT ![v] = o]
           /\ Noted("const", old.gc > 1)
           /\ UNCHANGED cache

(* jbl_string_add_string: nothing is copied when v holds no string yet.       *)
AddString(v, w) ==
  /\ var[w] # NULL
  /\ IF var[v] = NULL THEN Copy(w, v) ELSE AddChars(v, Text(w))

(* jbl_string_clear: room for nothing is asked for.                           *)
Clear(v) ==
  /\ var[v] # NULL /\ CanExtend(v)
  /\ Write(v, 0, <<>>)
  /\ Noted("clear", Overruns(v, 0))
  /\ UNCHANGED cache

(* jbl_string_to_upper_case, jbl_string_to_lower_case                         *)
ToUpperCase(v) == /\ CanExtend(v)
                  /\ Write(v, Len(Text(v)), Upper(Text(v)))
                  /\ Noted("room", Overruns(v, Len(Text(v))))
                  /\ UNCHANGED cache

(* jbl_string_delete from a up to b: what is behind the text is clipped from  *)
(* the end, not from the start.  The bytes that then belong to the text are   *)
(* any; here they are 1.                                                      *)
Cut(t, a, b) == SubSeq(t, 1, a) \o SubSeq(t, b + 1, Len(t))
Stretched(t, n) == t \o [i \in 1 .. n - Len(t) |-> 1]
Delete(v, a, b) ==
  /\ a < b /\ CanExtend(v)
  /\ Write(v, Len(Text(v)), IF a <= Len(Text(v)) THEN Cut(Text(v), a, b) ELSE Stretched(Text(v), a))
  /\ IF a > Len(Text(v)) THEN Noted("start", TRUE) ELSE Noted("room", Overruns(v, Len(Text(v))))
  /\ UNCHANGED cache

Hashed(o) == [o EXCEPT !.h = IF @ = 0 THEN HashOf(o.s) ELSE @]
(* jbl_string_hash                                                            *)
Hash(v) == /\ var[v] # NULL /\ obj' = [obj EXCEPT ![var[v]] = Hashed(@)]
           /\ Unbroken /\ UNCHANGED <<var, cache>>
-----------------------------------------------------------------------------
(* jbl_string_if_equal: a kept hash is compared even with one not yet kept.   *)
IfEqual(a, b) == (a.h # 0 => a.h = b.h) /\ a.s = b.s

(* jbl_ht_get_ht_data_chars and jbl_ht_get_ht_data of the cache               *)
CachedAs(t) == {e \in cache : e.h = HashOf(t) /\ obj[e.k].s = t}
CachedLike(o) == {e \in cache : e.h = Hashed(o).h /\ IfEqual(obj[e.k], Hashed(o))}

(* jbl_string_cache_get                                                       *)
CacheGet(v, t) ==
  /\ var[v] = NULL /\ Unbroken
  /\ IF CachedAs(t) # {}
     THEN \E e \in CachedAs(t) :
            /\ obj' = [obj EXCEPT ![e.k].gc = @ + 1]
            /\ var' = [var EXCEPT ![v] = e.k]
            /\ UNCHANGED cache
     ELSE /\ Room
          /\ var' = [var EXCEPT ![v] = Next1]
          /\ IF Len(t) <= CacheMax
             THEN /\ obj' = [obj EXCEPT ![Next1] = [gc |-> 2, s |-> t, size |-> 0, lit |-> TRUE,
                                                    h |-> HashOf(t)]]
                  /\ cache' = cache \cup {[h |-> HashOf(t), k |-> Next1]}
             ELSE /\ obj' = [obj EXCEPT ![Next1] = [Fresh EXCEPT !.s = t, !.lit = TRUE]]
                  /\ UNCHANGED cache

(* jbl_string_cache_replace: the caller's object is given up for the cached   *)
(* one, or goes into the cache.                                               *)
CacheReplaceUncounted(v) ==    \* a variant: the cache does not count its key
  /\ var[v] # NULL /\ Len(Text(v)) <= CacheMax /\ CachedLike(obj[var[v]]) = {} /\ Unbroken
  /\ obj' = [obj EXCEPT ![var[v]] = Hashed(@)]
  /\ cache' = cache \cup {[h |-> HashOf(Text(v)), k |-> var[v]]}
  /\ UNCHANGED var
CacheReplace(v) ==
  /\ var[v] # NULL /\ Len(Text(v)) <= CacheMax /\ Unbroken
  /\ LET o == obj[var[v]]
     IN  IF CachedLike(o) # {}
         THEN \E e \in CachedLike(o) :
                /\ var' = [var EXCEPT ![v] = e.k]
                /\ obj' = [Drop([obj EXCEPT ![var[v]] = Hashed(o)], var[v])
                             EXCEPT ![e.k].gc = @ + 1]
                /\ UNCHANGED cache
         ELSE /\ obj' = [obj EXCEPT ![var[v]] = [Hashed(o) EXCEPT !.gc = @ + 1]]
              /\ cache' = cache \cup {[h |-> Hashed(o).h, k |-> var[v]]}
              /\ UNCHANGED var

(* jbl_string_stop, and a new start                                           *)
StopCache ==
  /\ cache # {}
  /\ obj' = [o \in Obj |-> IF \E e \in cache : e.k = o THEN Drop(obj, o)[o] ELSE obj[o]]
  /\ cache' = {} /\ Unbroken /\ UNCHANGED var

Next == \/ \E v \in Var : \/ New(v) \/ Free(v) \/ Clear(v) \/ ToUpperCase(v) \/ Hash(v)
                          \/ CacheReplace(v)
                          \/ \E t \in Literal : AddChars(v, t) \/ AddConst(v, t) \/ CacheGet(v, t)
                          \/ \E w \in Var : Copy(v, w) \/ AddString(v, w)
                          \/ \E a, b \in 0 .. MaxLen : Delete(v, a, b)
        \/ StopCache

Spec == Init /\ [][Next]_vars
-----------------------------------------------------------------------------
(* The count of an object is the number of variables and cache entries that   *)
(* hold it, through copies, separations, replacements and the stop.           *)
OwnersCounted ==
  \A o \in Obj : obj[o].gc = Cardinality({v \in Var : var[v] = o})
                             + Cardinality({e \in cache : e.k = o})

(* A hash kept in a string is the hash of the text it has now.                *)
HashHonest == \A o \in Obj : obj[o].h \in {0, HashOf(obj[o].s)}

(* Nothing is copied or written behind the memory of a text by a call that    *)
(* adds, changes letters or deletes: each text is a literal nobody writes, or *)
(* within the memory allocated for it.  Only clearing a text that is shared   *)
(* or a literal, and deleting from behind the end, go beyond.                 *)
RoomEnough ==
  /\ fault # "room"
  /\ fault \notin {"clear", "start"} => \A o \in Obj : obj[o].lit \/ Len(obj[o].s) <= obj[o].size

(* The cache has one entry for a text, filed under the hash of that text:     *)
(* nobody changes a string the cache holds, except who adds a literal to an   *)
(* empty one.                                                                 *)
CacheExact ==
  fault = "none" =>
    /\ \A e \in cache : e.h = HashOf(obj[e.k].s)
    /\ \A e, f \in cache : obj[e.k].s = obj[f.k].s => e = f

(* What one variable does is not seen by another, by any call that is not one *)
(* of the three breaches.                                                     *)
TextOfVar == [v \in Var |-> IF var[v] = NULL THEN <<0>> ELSE obj[var[v]].s]
Promised == INSTANCE Texts WITH text <- TextOfVar, Change <- Upper
ImplementsTexts == Promised!Init /\ [][fault' = "none" => Promised!Next]_TextOfVar

(* A string is extended to the size asked for (jbl_string.h:62), and its size *)
(* is the memory it has (jbl_string.h:41): what is copied into it fits.  Not  *)
(* when it is cleared.                                                        *)
CopiesFit == fault # "clear"

(* jbl_string_copy copies a string (jbl_string.h:60): no call changes two     *)
(* variables' texts.  Adding a literal to one of two copies without text does.*)
CopiesApart == [][\A v, w \in Var : TextOfVar'[v] # TextOfVar[v] /\ TextOfVar'[w] # TextOfVar[w]
                                      => v = w]_TextOfVar

(* "Functions that cut strings" (jbl_string.h:185): none makes one longer.    *)
(* Deleting from behind the end does.                                         *)
DeleteShortens ==
  [][\A v \in Var, a, b \in 0 .. MaxLen :
       Delete(v, a, b) => Len(Text(v)') <= Len(Text(v))]_TextOfVar
=============================================================================
