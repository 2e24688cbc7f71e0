---------------------------- MODULE StringsProofs ----------------------------
(***************************************************************************)
(* Proofs about the strings (module Strings) for any number of variables,  *)
(* objects and texts: the counts and the kept hashes are right in every    *)
(* state; the room for what is written, the cache and the texts of other   *)
(* variables (module Texts) are, until one of the three calls that break   *)
(* them: clearing a long text that is shared or a literal, adding a        *)
(* literal to an empty text that is shared, deleting from behind the end.  *)
(*                                                                         *)
(* The invariants need each other: who writes in place is known to be the  *)
(* only owner by the counts, so a text of the cache is not changed, so the *)
(* hash an entry is filed under stays right.                               *)
(***************************************************************************)
EXTENDS Strings, CommonProofs, FiniteSetTheorems, SequenceTheorems, WellFoundedInduction, TLAPS

Char == Nat \ {0}
Hashes == {0} \cup {HashOf(t) : t \in Seq(Char)}
Object == [gc : Nat, s : Seq(Char), size : Nat, lit : BOOLEAN, h : Hashes]

(* os, vs, c: the objects, what the variables hold, the cache.                *)
Typed(os, vs, c) == /\ os \in [Obj -> Object] /\ vs \in [Var -> Obj \cup {NULL}]
                    /\ c \subseteq [h : Hashes, k : Obj] /\ IsFiniteSet(c)

Held(vs, o) == {v \in Var : vs[v] = o}
Filed(c, o) == {e \in c : e.k = o}
Owned(os, vs, c) == \A o \in Obj :
  os[o].gc = Cardinality(Held(vs, o)) + Cardinality(Filed(c, o))

Honest(r) == r.h \in {0, HashOf(r.s)}
Roomy(r) == r.lit \/ Len(r.s) <= r.size

Exact(os, c) == /\ \A e \in c : e.h = HashOf(os[e.k].s)
                /\ \A e, f \in c : os[e.k].s = os[f.k].s => e = f

Sound(os, vs, c) == /\ Typed(os, vs, c) /\ Owned(os, vs, c) /\ Exact(os, c)
                    /\ \A o \in Obj : Honest(os[o]) /\ Roomy(os[o])

StringsSound == Sound(obj, var, cache)

(* Until a call breaks something, all of it; then still the counts and the    *)
(* hashes, and the room unless the call is one that leaves it.                *)
StringsInv == /\ fault = "none" => StringsSound
              /\ OwnersCounted /\ HashHonest /\ RoomEnough
-----------------------------------------------------------------------------
(* Sizes.                                                                     *)

(* jbl_string_extend_to asks for room for what it is asked for.               *)
LEMMA SizeEnough ==
  ASSUME NEW n \in Nat
  PROVE  SizeFor(n) \in Nat /\ SizeFor(n) >= n
<1>1. CASE n <= MinLength
  BY <1>1, StringsAssumption DEF SizeFor
<1>2. CASE n > MinLength /\ n < Page
  <2>1. n \in Nat \ {0} /\ SizeFor(n) = PowerUp(n)
    BY <1>2, StringsAssumption DEF SizeFor
  <2> QED BY <2>1, PowerUpIs
<1>3. CASE n > MinLength /\ n >= Page
  <2> PICK q, r, P : q = (n + Page - 1) \div Page /\ r = (n + Page - 1) % Page /\ P = Page
    OBVIOUS
  <2>1. P \in Nat \ {0} /\ n + P - 1 \in Nat
    BY StringsAssumption
  <2>2. q \in Nat /\ r \in 0 .. P - 1 /\ n + P - 1 = P * q + r
    BY <2>1
  <2>3. P * q >= n /\ P * q \in Nat
    BY <2>1, <2>2
  <2>4. SizeFor(n) = P * q
    BY <1>3, StringsAssumption DEF SizeFor
  <2> QED BY <2>3, <2>4
<1> QED BY <1>1, <1>2, <1>3, StringsAssumption
-----------------------------------------------------------------------------
(* Who holds an object.                                                       *)

(* Finitely many variables hold an object. *)
LEMMA HeldFinite ==
  ASSUME NEW vs, NEW o
  PROVE  IsFiniteSet(Held(vs, o)) /\ Cardinality(Held(vs, o)) \in Nat
<1>1. Held(vs, o) \subseteq Var
  BY DEF Held
<1> QED BY <1>1, FS_Subset, FS_CardinalityType, StringsAssumption

(* Finitely many entries of the cache file an object. *)
LEMMA FiledFinite ==
  ASSUME NEW c, IsFiniteSet(c), NEW o
  PROVE  IsFiniteSet(Filed(c, o)) /\ Cardinality(Filed(c, o)) \in Nat
<1>1. Filed(c, o) \subseteq c
  BY DEF Filed
<1> QED BY <1>1, FS_Subset, FS_CardinalityType

(* A variable that holds something else from now on.                          *)
Is(a, b) == IF a = b THEN 1 ELSE 0
Moved(vs, us, v, b) == \A o \in Obj :
  Cardinality(Held(us, o)) = Cardinality(Held(vs, o)) + Is(b, o) - Is(vs[v], o)

(* A variable that moves from one object to another takes its one reference   *)
(* along.                                                                     *)
LEMMA HeldMoves ==
  ASSUME NEW vs, vs \in [Var -> Obj \cup {NULL}], NEW v \in Var, NEW b \in Obj \cup {NULL},
         NEW us, us = [vs EXCEPT ![v] = b]
  PROVE  Moved(vs, us, v, b)
<1> SUFFICES ASSUME NEW o \in Obj
             PROVE  Cardinality(Held(us, o)) = Cardinality(Held(vs, o)) + Is(b, o) - Is(vs[v], o)
  BY DEF Moved
<1> PICK A, B : A = Held(vs, o) /\ B = Held(us, o)
  OBVIOUS
<1>1. IsFiniteSet(A) /\ Cardinality(A) \in Nat /\ IsFiniteSet(B) /\ Cardinality(B) \in Nat
  BY HeldFinite
<1>2. CASE (b = o) <=> (vs[v] = o)
  <2>1. A = B
    BY <1>2 DEF Held
  <2> QED BY <1>1, <1>2, <2>1 DEF Is
<1>3. CASE b = o /\ vs[v] # o
  <2>1. B = A \cup {v} /\ v \notin A
    BY <1>3 DEF Held
  <2>2. Cardinality(B) = Cardinality(A) + 1
    BY <1>1, <2>1, FS_AddElement
  <2> QED BY <1>1, <1>3, <2>2 DEF Is
<1>4. CASE b # o /\ vs[v] = o
  <2>1. A = B \cup {v} /\ v \notin B
    BY <1>4 DEF Held
  <2>2. Cardinality(A) = Cardinality(B) + 1
    BY <1>1, <2>1, FS_AddElement
  <2> QED BY <1>1, <1>4, <2>2 DEF Is
<1> QED BY <1>2, <1>3, <1>4

(* An entry more in the cache.                                                *)
LEMMA FiledGrows ==
  ASSUME NEW c, IsFiniteSet(c), NEW e, e \notin c, NEW o
  PROVE  Cardinality(Filed(c \cup {e}, o)) = Cardinality(Filed(c, o)) + Is(e.k, o)
<1> PICK A, B : A = Filed(c, o) /\ B = Filed(c \cup {e}, o)
  OBVIOUS
<1>1. IsFiniteSet(A) /\ Cardinality(A) \in Nat
  BY FiledFinite
<1>2. CASE e.k = o
  <2>1. B = A \cup {e} /\ e \notin A
    BY <1>2 DEF Filed
  <2>2. Cardinality(B) = Cardinality(A) + 1
    BY <1>1, <2>1, FS_AddElement
  <2> QED BY <1>1, <1>2, <2>2 DEF Is
<1>3. CASE e.k # o
  <2>1. B = A
    BY <1>3 DEF Filed
  <2> QED BY <1>1, <1>3, <2>1 DEF Is
<1> QED BY <1>2, <1>3

(* A count of 0 is an object that nobody holds, one of 1 what the holder has  *)
(* alone.                                                                     *)
Alone(vs, c, v, o) == /\ \A w \in Var : vs[w] = o => w = v
                      /\ \A e \in c : e.k # o

(* An object with no count is held by no variable and filed nowhere. *)
LEMMA NobodyHolds ==
  ASSUME NEW os, NEW vs, NEW c, Sound(os, vs, c), NEW o \in Obj, os[o].gc = 0
  PROVE  (\A w \in Var : vs[w] # o) /\ \A e \in c : e.k # o
<1>1. IsFiniteSet(Held(vs, o)) /\ Cardinality(Held(vs, o)) \in Nat
  BY HeldFinite
<1>2. IsFiniteSet(Filed(c, o)) /\ Cardinality(Filed(c, o)) \in Nat
  BY FiledFinite DEF Sound, Typed
<1>3. Cardinality(Held(vs, o)) = 0 /\ Cardinality(Filed(c, o)) = 0
  BY <1>1, <1>2 DEF Sound, Owned
<1>4. Held(vs, o) = {} /\ Filed(c, o) = {}
  BY <1>1, <1>2, <1>3, FS_EmptySet
<1> QED BY <1>4 DEF Held, Filed

(* The one holder of an object with one count is its only owner, so it may    *)
(* write in place.                                                            *)
LEMMA HolderAlone ==
  ASSUME NEW os, NEW vs, NEW c, Sound(os, vs, c), NEW v \in Var, NEW o \in Obj,
         vs[v] = o, os[o].gc = 1
  PROVE  Alone(vs, c, v, o)
<1>1. IsFiniteSet(Held(vs, o)) /\ Cardinality(Held(vs, o)) \in Nat
  BY HeldFinite
<1>2. IsFiniteSet(Filed(c, o)) /\ Cardinality(Filed(c, o)) \in Nat
  BY FiledFinite DEF Sound, Typed
<1>3. v \in Held(vs, o)
  BY DEF Held
<1> PICK A : A = Held(vs, o) \ {v}
  OBVIOUS
<1>4. Cardinality(A) = Cardinality(Held(vs, o)) - 1 /\ IsFiniteSet(A)
  BY <1>1, <1>3, FS_RemoveElement
<1>5. Cardinality(A) \in Nat
  BY <1>4, FS_CardinalityType
<1>6. Cardinality(A) = 0 /\ Cardinality(Filed(c, o)) = 0
  BY <1>1, <1>2, <1>4, <1>5 DEF Sound, Owned
<1>7. A = {} /\ Filed(c, o) = {}
  BY <1>2, <1>4, <1>6, FS_EmptySet
<1> QED BY <1>7 DEF Held, Filed, Alone

(* What is held is counted.                                                   *)
LEMMA HeldCounted ==
  ASSUME NEW os, NEW vs, NEW c, Sound(os, vs, c), NEW o \in Obj
  PROVE  /\ os[o].gc \in Nat
         /\ \A v \in Var : vs[v] = o => os[o].gc >= 1
         /\ \A e \in c : e.k = o => os[o].gc >= 1
         /\ \A v \in Var, e \in c : vs[v] = o /\ e.k = o => os[o].gc >= 2
<1>1. IsFiniteSet(Held(vs, o)) /\ Cardinality(Held(vs, o)) \in Nat
  BY HeldFinite
<1>2. IsFiniteSet(Filed(c, o)) /\ Cardinality(Filed(c, o)) \in Nat
  BY FiledFinite DEF Sound, Typed
<1>3. os[o].gc = Cardinality(Held(vs, o)) + Cardinality(Filed(c, o))
  BY DEF Sound, Owned
<1>4. \A v \in Var : vs[v] = o => Cardinality(Held(vs, o)) >= 1
  <2>1. \A v \in Var : vs[v] = o => Held(vs, o) # {}
    BY DEF Held
  <2>2. Held(vs, o) # {} => Cardinality(Held(vs, o)) # 0
    BY <1>1, FS_EmptySet
  <2> QED BY <1>1, <2>1, <2>2
<1>5. \A e \in c : e.k = o => Cardinality(Filed(c, o)) >= 1
  <2>1. \A e \in c : e.k = o => Filed(c, o) # {}
    BY DEF Filed
  <2>2. Filed(c, o) # {} => Cardinality(Filed(c, o)) # 0
    BY <1>2, FS_EmptySet
  <2> QED BY <1>2, <2>1, <2>2
<1> QED BY <1>1, <1>2, <1>3, <1>4, <1>5
-----------------------------------------------------------------------------
(* What the operations are made of.                                           *)

TextOf(os, vs, v) == IF vs[v] = NULL THEN <<0>> ELSE os[vs[v]].s
(* Variable v has the text t, the others what they had.                       *)
Gets(os, vs, us2, vs2, v, t) ==
  \A w \in Var : TextOf(us2, vs2, w) = IF w = v THEN t ELSE TextOf(os, vs, w)
Unseen(os, vs, os2, vs2) == \A w \in Var : TextOf(os2, vs2, w) = TextOf(os, vs, w)

SameBody(r, q) == r.s = q.s /\ r.h = q.h /\ r.size = q.size /\ r.lit = q.lit

(* Variable v gets r in object n, which was free or its own; what it held     *)
(* before is counted one less.                                                *)
Places(os, vs, v, n, r, os2) ==
  /\ n \in Obj /\ r.gc = 1 /\ Honest(r) /\ Roomy(r)
  /\ os[n].gc = 0 \/ (vs[v] = n /\ os[n].gc = 1)
  /\ os2 \in [Obj -> Object] /\ os2[n] = r
  /\ \A o \in Obj : o # n => /\ os2[o].gc = os[o].gc - Is(vs[v], o)
                             /\ SameBody(os2[o], os[o])

(* A body written for its only owner changes no other variable's text. *)
LEMMA PlacesKeep ==
  ASSUME NEW os, NEW vs, NEW c, Sound(os, vs, c), NEW v \in Var, NEW n, NEW r, NEW os2,
         Places(os, vs, v, n, r, os2), NEW vs2, vs2 = [vs EXCEPT ![v] = n]
  PROVE  Sound(os2, vs2, c) /\ Gets(os, vs, os2, vs2, v, r.s)
<1>1. /\ n \in Obj /\ r.gc = 1 /\ Honest(r) /\ Roomy(r)
      /\ os2 \in [Obj -> Object] /\ os2[n] = r
      /\ \A o \in Obj : o # n => /\ os2[o].gc = os[o].gc - Is(vs[v], o)
                                 /\ SameBody(os2[o], os[o])
  BY DEF Places
<1>2. vs \in [Var -> Obj \cup {NULL}] /\ c \subseteq [h : Hashes, k : Obj] /\ IsFiniteSet(c)
  BY DEF Sound, Typed
<1>3. /\ \A w \in Var : vs[w] = n => w = v
      /\ \A e \in c : e.k # n /\ e.k \in Obj
      /\ os[n].gc = Is(vs[v], n)
  <2>1. CASE os[n].gc = 0
    <3>1. (\A w \in Var : vs[w] # n) /\ \A e \in c : e.k # n
      BY <1>1, <2>1, NobodyHolds
    <3> QED BY <1>2, <2>1, <3>1 DEF Is
  <2>2. CASE vs[v] = n /\ os[n].gc = 1
    <3>1. Alone(vs, c, v, n)
      BY <1>1, <2>2, HolderAlone
    <3> QED BY <1>2, <2>2, <3>1 DEF Is, Alone
  <2> QED BY <2>1, <2>2 DEF Places
<1>4. vs2 \in [Var -> Obj \cup {NULL}] /\ vs2[v] = n /\ \A w \in Var : w # v => vs2[w] = vs[w]
  BY <1>1, <1>2
<1>5. Typed(os2, vs2, c)
  BY <1>1, <1>2, <1>4 DEF Typed
<1>6. Owned(os2, vs2, c)
  <2> SUFFICES ASSUME NEW o \in Obj
               PROVE  os2[o].gc = Cardinality(Held(vs2, o)) + Cardinality(Filed(c, o))
    BY DEF Owned
  <2>1. Cardinality(Held(vs2, o)) = Cardinality(Held(vs, o)) + Is(n, o) - Is(vs[v], o)
    <3>1. Moved(vs, vs2, v, n)
      BY <1>1, <1>2, HeldMoves
    <3> QED BY <3>1 DEF Moved
  <2>2. os[o].gc = Cardinality(Held(vs, o)) + Cardinality(Filed(c, o))
    BY DEF Sound, Owned
  <2>3. Cardinality(Held(vs, o)) \in Nat /\ Cardinality(Filed(c, o)) \in Nat
    BY <1>2, HeldFinite, FiledFinite
  <2>4. CASE o = n
    BY <1>1, <1>3, <2>1, <2>2, <2>3, <2>4 DEF Is
  <2>5. CASE o # n
    <3>1. os2[o].gc = os[o].gc - Is(vs[v], o)
      BY <1>1, <2>5
    <3> QED BY <2>1, <2>2, <2>3, <2>5, <3>1 DEF Is
  <2> QED BY <2>4, <2>5
<1>7. \A o \in Obj : o # n => os2[o].s = os[o].s
  BY <1>1 DEF SameBody
<1>8. Exact(os2, c)
  <2>1. \A e \in c : os2[e.k].s = os[e.k].s
    BY <1>3, <1>7
  <2> QED BY <2>1 DEF Sound, Exact
<1>9. \A o \in Obj : Honest(os2[o]) /\ Roomy(os2[o])
  BY <1>1 DEF Sound, SameBody, Honest, Roomy
<1>10. Gets(os, vs, os2, vs2, v, r.s)
  <2>1. n # NULL
    BY <1>1, StringsAssumption DEF NULL
  <2> QED BY <1>1, <1>2, <1>3, <1>4, <1>7, <2>1 DEF Gets, TextOf
<1> QED BY <1>5, <1>6, <1>8, <1>9, <1>10 DEF Sound

(* Variable w, which holds nothing, shares object o.                          *)
Shared(os, vs, c, w, o, os2, vs2) ==
  Sound(os2, vs2, c) /\ Gets(os, vs, os2, vs2, w, os[o].s)

(* A copy counts the object once more and shares its text. *)
LEMMA SharesKeep ==
  ASSUME NEW os, NEW vs, NEW c, Sound(os, vs, c), NEW w \in Var, vs[w] = NULL, NEW o \in Obj,
         NEW os2, os2 = [os EXCEPT ![o].gc = @ + 1], NEW vs2, vs2 = [vs EXCEPT ![w] = o]
  PROVE  Shared(os, vs, c, w, o, os2, vs2)
<1>1. os \in [Obj -> Object] /\ vs \in [Var -> Obj \cup {NULL}] /\ IsFiniteSet(c)
      /\ c \subseteq [h : Hashes, k : Obj]
  BY DEF Sound, Typed
<1> PICK r : r = [os[o] EXCEPT !.gc = os[o].gc + 1]
  OBVIOUS
<1>2. r \in Object /\ r.gc = os[o].gc + 1 /\ SameBody(r, os[o])
  <2>1. os[o] \in Object
    BY <1>1
  <2> QED BY <2>1 DEF Object, SameBody
<1>3. os2 = [os EXCEPT ![o] = r]
  BY <1>1
<1>4. /\ os2 \in [Obj -> Object] /\ os2[o] = r
      /\ \A q \in Obj : q # o => os2[q] = os[q]
  BY <1>1, <1>2, <1>3
<1>5. \A q \in Obj : SameBody(os2[q], os[q]) /\ os2[q].gc = os[q].gc + Is(o, q)
  <2> SUFFICES ASSUME NEW q \in Obj
               PROVE  SameBody(os2[q], os[q]) /\ os2[q].gc = os[q].gc + Is(o, q)
    OBVIOUS
  <2>1. os[q].gc \in Nat
    BY <1>1 DEF Object
  <2> QED BY <1>2, <1>4, <2>1 DEF SameBody, Is
<1>6. Typed(os2, vs2, c)
  BY <1>1, <1>4 DEF Typed
<1>7. Owned(os2, vs2, c)
  <2> SUFFICES ASSUME NEW q \in Obj
               PROVE  os2[q].gc = Cardinality(Held(vs2, q)) + Cardinality(Filed(c, q))
    BY DEF Owned
  <2>1. Cardinality(Held(vs2, q)) = Cardinality(Held(vs, q)) + Is(o, q) - Is(vs[w], q)
    <3>1. Moved(vs, vs2, w, o)
      BY <1>1, HeldMoves
    <3> QED BY <3>1 DEF Moved
  <2>2. os[q].gc = Cardinality(Held(vs, q)) + Cardinality(Filed(c, q))
    BY DEF Sound, Owned
  <2>3. Cardinality(Held(vs, q)) \in Nat /\ Cardinality(Filed(c, q)) \in Nat
    BY <1>1, HeldFinite, FiledFinite
  <2>4. vs[w] # q
    BY StringsAssumption DEF NULL
  <2>5. os2[q].gc = os[q].gc + Is(o, q)
    BY <1>5
  <2> QED BY <2>1, <2>2, <2>3, <2>4, <2>5 DEF Is
<1>8. Exact(os2, c)
  <2>1. \A e \in c : os2[e.k].s = os[e.k].s
    BY <1>1, <1>5 DEF SameBody
  <2> QED BY <2>1 DEF Sound, Exact
<1>9. \A q \in Obj : Honest(os2[q]) /\ Roomy(os2[q])
  BY <1>5 DEF Sound, SameBody, Honest, Roomy
<1>10. Gets(os, vs, os2, vs2, w, os[o].s)
  <2>1. vs2[w] = o /\ \A v \in Var : v # w => vs2[v] = vs[v]
    BY <1>1
  <2>2. o # NULL
    BY StringsAssumption DEF NULL
  <2> QED BY <1>1, <1>5, <2>1, <2>2 DEF Gets, TextOf, SameBody
<1> QED BY <1>6, <1>7, <1>8, <1>9, <1>10 DEF Sound, Shared

(* Variable v gives its object up.                                            *)
Dropped(os, vs, c, v, os2, vs2) ==
  /\ Sound(os2, vs2, c) /\ Gets(os, vs, os2, vs2, v, <<0>>)
  /\ \A e \in c : os2[e.k].s = os[e.k].s

(* jbl_string_free: one count less, and no other variable's text changes. *)
LEMMA DropKeeps ==
  ASSUME NEW os, NEW vs, NEW c, Sound(os, vs, c), NEW v \in Var, vs[v] # NULL,
         NEW os2, os2 = Drop(os, vs[v]), NEW vs2, vs2 = [vs EXCEPT ![v] = NULL]
  PROVE  Dropped(os, vs, c, v, os2, vs2)
<1>1. os \in [Obj -> Object] /\ vs \in [Var -> Obj \cup {NULL}] /\ IsFiniteSet(c)
      /\ c \subseteq [h : Hashes, k : Obj]
  BY DEF Sound, Typed
<1> PICK o : o = vs[v]
  OBVIOUS
<1>2. o \in Obj /\ os[o] \in Object /\ os[o].gc >= 1
  <2>1. o \in Obj
    BY <1>1
  <2> QED BY <1>1, <2>1, HeldCounted
<1> PICK r : r = IF os[o].gc = 1 THEN Unused ELSE [os[o] EXCEPT !.gc = os[o].gc - 1]
  OBVIOUS
<1>3. /\ r \in Object /\ r.gc = os[o].gc - 1 /\ Honest(r) /\ Roomy(r)
      /\ os[o].gc # 1 => SameBody(r, os[o])
  <2>1. CASE os[o].gc = 1
    BY <2>1 DEF Unused, Object, Hashes, Char, Honest, Roomy
  <2>2. CASE os[o].gc # 1
    <3>1. r \in Object /\ r.gc = os[o].gc - 1 /\ SameBody(r, os[o])
      BY <1>2, <2>2 DEF Object, SameBody
    <3> QED BY <1>2, <2>2, <3>1 DEF SameBody, Honest, Roomy, Sound
  <2> QED BY <2>1, <2>2
<1>4. os2 = [os EXCEPT ![o] = r]
  BY <1>1 DEF Drop
<1>5. /\ os2 \in [Obj -> Object] /\ os2[o] = r
      /\ \A q \in Obj : q # o => os2[q] = os[q]
  BY <1>1, <1>2, <1>3, <1>4
<1>6. /\ \A w \in Var : w # v /\ vs[w] # NULL => vs[w] \in Obj /\ os2[vs[w]].s = os[vs[w]].s
      /\ \A e \in c : e.k \in Obj /\ os2[e.k].s = os[e.k].s
  <2>1. CASE os[o].gc = 1
    <3>1. Alone(vs, c, v, o)
      BY <1>2, <2>1, HolderAlone
    <3> QED BY <1>1, <1>5, <3>1 DEF Alone
  <2>2. CASE os[o].gc # 1
    BY <1>1, <1>3, <1>5, <2>2 DEF SameBody
  <2> QED BY <2>1, <2>2
<1>7. Typed(os2, vs2, c)
  BY <1>1, <1>5 DEF Typed
<1>8. Owned(os2, vs2, c)
  <2> SUFFICES ASSUME NEW q \in Obj
               PROVE  os2[q].gc = Cardinality(Held(vs2, q)) + Cardinality(Filed(c, q))
    BY DEF Owned
  <2>1. Cardinality(Held(vs2, q)) = Cardinality(Held(vs, q)) + Is(NULL, q) - Is(vs[v], q)
    <3>1. Moved(vs, vs2, v, NULL)
      BY <1>1, HeldMoves
    <3> QED BY <3>1 DEF Moved
  <2>2. os[q].gc = Cardinality(Held(vs, q)) + Cardinality(Filed(c, q))
    BY DEF Sound, Owned
  <2>3. Cardinality(Held(vs, q)) \in Nat /\ Cardinality(Filed(c, q)) \in Nat
    BY <1>1, HeldFinite, FiledFinite
  <2>4. q # NULL
    BY StringsAssumption DEF NULL
  <2>5. os2[q].gc = os[q].gc - Is(vs[v], q)
    <3>1. os[q].gc \in Nat
      BY <1>1 DEF Object
    <3>2. CASE q = o
      BY <1>3, <1>5, <3>2 DEF Is
    <3>3. CASE q # o
      BY <1>5, <3>1, <3>3 DEF Is
    <3> QED BY <3>2, <3>3
  <2> QED BY <2>1, <2>2, <2>3, <2>4, <2>5 DEF Is
<1>9. Exact(os2, c)
  BY <1>6 DEF Sound, Exact
<1>10. \A q \in Obj : Honest(os2[q]) /\ Roomy(os2[q])
  BY <1>3, <1>5 DEF Sound
<1>11. Gets(os, vs, os2, vs2, v, <<0>>)
  <2>1. vs2[v] = NULL /\ \A w \in Var : w # v => vs2[w] = vs[w]
    BY <1>1
  <2> QED BY <1>6, <2>1 DEF Gets, TextOf
<1> QED BY <1>6, <1>7, <1>8, <1>9, <1>10, <1>11 DEF Sound, Dropped

(* The hash is computed when it is asked for, and kept.                       *)
LEMMA HashedFacts ==
  ASSUME NEW r \in Object, Honest(r), NEW q, q = Hashed(r)
  PROVE  /\ q \in Object /\ q.gc = r.gc /\ q.s = r.s /\ q.size = r.size /\ q.lit = r.lit
         /\ q.h = HashOf(r.s)
<1>1. HashOf(r.s) \in Hashes
  BY DEF Object, Hashes
<1> PICK x : x = HashOf(r.s)
  OBVIOUS
<1> QED BY <1>1 DEF Hashed, Object, Honest

Rehashed(os, vs, c, o, os2) ==
  /\ Sound(os2, vs, c) /\ Unseen(os, vs, os2, vs)
  /\ os2[o].h = HashOf(os[o].s) /\ \A p \in Obj : os2[p].s = os[p].s

(* A hash computed for an object is the hash of its text. *)
LEMMA HashesKeep ==
  ASSUME NEW os, NEW vs, NEW c, Sound(os, vs, c), NEW o \in Obj,
         NEW os2, os2 = [os EXCEPT ![o] = Hashed(os[o])]
  PROVE  Rehashed(os, vs, c, o, os2)
<1>1. os \in [Obj -> Object] /\ vs \in [Var -> Obj \cup {NULL}] /\ IsFiniteSet(c)
      /\ c \subseteq [h : Hashes, k : Obj]
  BY DEF Sound, Typed
<1> PICK r : r = Hashed(os[o])
  OBVIOUS
<1>2. os[o] \in Object /\ Honest(os[o]) /\ Roomy(os[o])
  BY <1>1 DEF Sound
<1>3. /\ r \in Object /\ r.gc = os[o].gc /\ r.s = os[o].s /\ r.size = os[o].size
      /\ r.lit = os[o].lit /\ r.h = HashOf(os[o].s)
  BY <1>2, HashedFacts
<1>4. os2 \in [Obj -> Object] /\ os2[o] = r /\ \A q \in Obj : q # o => os2[q] = os[q]
  BY <1>1, <1>3
<1>5. \A q \in Obj : /\ os2[q].gc = os[q].gc /\ os2[q].s = os[q].s
                     /\ Honest(os2[q]) /\ Roomy(os2[q])
  <2> SUFFICES ASSUME NEW q \in Obj
               PROVE  /\ os2[q].gc = os[q].gc /\ os2[q].s = os[q].s
                      /\ Honest(os2[q]) /\ Roomy(os2[q])
    OBVIOUS
  <2>1. CASE q = o
    BY <1>2, <1>3, <1>4, <2>1 DEF Honest, Roomy
  <2>2. CASE q # o
    BY <1>4, <2>2 DEF Sound
  <2> QED BY <2>1, <2>2
<1>6. Typed(os2, vs, c)
  BY <1>1, <1>4 DEF Typed
<1>7. Owned(os2, vs, c)
  BY <1>5 DEF Sound, Owned
<1>8. Exact(os2, c)
  <2>1. \A e \in c : os2[e.k].s = os[e.k].s
    BY <1>1, <1>5
  <2> QED BY <2>1 DEF Sound, Exact
<1>9. Unseen(os, vs, os2, vs)
  BY <1>1, <1>5 DEF Unseen, TextOf
<1> QED BY <1>3, <1>4, <1>5, <1>6, <1>7, <1>8, <1>9 DEF Sound, Rehashed

(* A text the cache does not have goes into it, under its hash.               *)
NoneLike(os, c, s) == \A f \in c : os[f.k].s # s
Filing(os, o) == [h |-> HashOf(os[o].s), k |-> o]
Counts(os, o) == [os EXCEPT ![o].gc = @ + 1]

(* An object filed in the cache is counted for it, under the hash of its      *)
(* text.                                                                      *)
LEMMA FilesKeep ==
  ASSUME NEW os, NEW vs, NEW c, Sound(os, vs, c), NEW o \in Obj, NoneLike(os, c, os[o].s)
  PROVE  /\ Sound(Counts(os, o), vs, c \cup {Filing(os, o)})
         /\ Unseen(os, vs, Counts(os, o), vs)
<1> PICK os2, e : os2 = Counts(os, o) /\ e = Filing(os, o)
  OBVIOUS
<1>1. os \in [Obj -> Object] /\ vs \in [Var -> Obj \cup {NULL}] /\ IsFiniteSet(c)
      /\ c \subseteq [h : Hashes, k : Obj]
  BY DEF Sound, Typed
<1> PICK r, d : r = [os[o] EXCEPT !.gc = os[o].gc + 1] /\ d = c \cup {e}
  OBVIOUS
<1>2. os[o] \in Object
  BY <1>1
<1>3. r \in Object /\ r.gc = os[o].gc + 1 /\ SameBody(r, os[o])
  BY <1>2 DEF Object, SameBody
<1>4. os2 = [os EXCEPT ![o] = r]
  BY <1>1 DEF Counts
<1>5. os2 \in [Obj -> Object] /\ os2[o] = r /\ \A q \in Obj : q # o => os2[q] = os[q]
  BY <1>1, <1>3, <1>4
<1>6. \A q \in Obj : SameBody(os2[q], os[q]) /\ os2[q].gc = os[q].gc + Is(o, q)
  <2> SUFFICES ASSUME NEW q \in Obj
               PROVE  SameBody(os2[q], os[q]) /\ os2[q].gc = os[q].gc + Is(o, q)
    OBVIOUS
  <2>1. os[q].gc \in Nat
    BY <1>1 DEF Object
  <2>2. CASE q = o
    BY <1>3, <1>5, <2>1, <2>2 DEF SameBody, Is
  <2>3. CASE q # o
    BY <1>5, <2>1, <2>3 DEF SameBody, Is
  <2> QED BY <2>2, <2>3
<1>7. e.k = o /\ e.h = HashOf(os[o].s) /\ e \notin c
  BY <1>1 DEF Filing, NoneLike
<1>8. e \in [h : Hashes, k : Obj]
  <2>1. HashOf(os[o].s) \in Hashes
    BY <1>2 DEF Object, Hashes
  <2> QED BY <2>1 DEF Filing
<1>9. Typed(os2, vs, d)
  <2>1. IsFiniteSet(d)
    BY <1>1, FS_AddElement
  <2> QED BY <1>1, <1>5, <1>8, <2>1 DEF Typed
<1>10. Owned(os2, vs, d)
  <2> SUFFICES ASSUME NEW q \in Obj
               PROVE  os2[q].gc = Cardinality(Held(vs, q)) + Cardinality(Filed(d, q))
    BY DEF Owned
  <2>1. Cardinality(Filed(d, q)) = Cardinality(Filed(c, q)) + Is(o, q)
    BY <1>1, <1>7, FiledGrows
  <2>2. os[q].gc = Cardinality(Held(vs, q)) + Cardinality(Filed(c, q))
    BY DEF Sound, Owned
  <2>3. Cardinality(Held(vs, q)) \in Nat /\ Cardinality(Filed(c, q)) \in Nat
    BY <1>1, HeldFinite, FiledFinite
  <2>4. os2[q].gc = os[q].gc + Is(o, q)
    BY <1>6
  <2> QED BY <2>1, <2>2, <2>3, <2>4 DEF Is
<1>11. \A q \in Obj : os2[q].s = os[q].s
  BY <1>6 DEF SameBody
<1>12. Exact(os2, d)
  <2>1. \A f \in d : f.k \in Obj /\ os2[f.k].s = os[f.k].s
    BY <1>1, <1>7, <1>11
  <2>2. e.h = HashOf(os[e.k].s)
    BY <1>7
  <2>3. \A f \in d : f = e \/ f \in c
    OBVIOUS
  <2> QED BY <1>7, <2>1, <2>2, <2>3 DEF Sound, Exact, NoneLike
<1>13. \A q \in Obj : Honest(os2[q]) /\ Roomy(os2[q])
  BY <1>6 DEF Sound, SameBody, Honest, Roomy
<1>14. Unseen(os, vs, os2, vs)
  BY <1>1, <1>11 DEF Unseen, TextOf
<1> QED BY <1>9, <1>10, <1>12, <1>13, <1>14 DEF Sound

(* The cache is emptied: each of its strings is counted one less.             *)
LEMMA StopsKeep ==
  ASSUME NEW os, NEW vs, NEW c, Sound(os, vs, c), NEW os2,
         os2 = [o \in Obj |-> IF \E e \in c : e.k = o THEN Drop(os, o)[o] ELSE os[o]]
  PROVE  Sound(os2, vs, {}) /\ Unseen(os, vs, os2, vs)
<1>1. os \in [Obj -> Object] /\ vs \in [Var -> Obj \cup {NULL}] /\ IsFiniteSet(c)
      /\ c \subseteq [h : Hashes, k : Obj]
  BY DEF Sound, Typed
<1>2. ASSUME NEW o \in Obj
      PROVE  /\ os2[o] \in Object /\ Honest(os2[o]) /\ Roomy(os2[o])
             /\ os2[o].gc = Cardinality(Held(vs, o))
             /\ \A v \in Var : vs[v] = o => os2[o].s = os[o].s
  <2>1. os[o] \in Object /\ Honest(os[o]) /\ Roomy(os[o])
    BY <1>1 DEF Sound
  <2>2. os[o].gc = Cardinality(Held(vs, o)) + Cardinality(Filed(c, o))
    BY DEF Sound, Owned
  <2>3. Cardinality(Held(vs, o)) \in Nat /\ Cardinality(Filed(c, o)) \in Nat
    BY <1>1, HeldFinite, FiledFinite
  <2>4. CASE ~ \E e \in c : e.k = o
    <3>1. Filed(c, o) = {}
      BY <2>4 DEF Filed
    <3>2. Cardinality(Filed(c, o)) = 0
      BY <3>1, FS_EmptySet
    <3>3. os2[o] = os[o]
      BY <2>4
    <3> QED BY <2>1, <2>2, <2>3, <3>2, <3>3
  <2>5. CASE \E e \in c : e.k = o
    <3>1. PICK e \in c : e.k = o
      BY <2>5
    <3>2. Filed(c, o) = {e}
      BY <3>1 DEF Filed, Sound, Exact
    <3>3. Cardinality(Filed(c, o)) = 1
      BY <3>2, FS_Singleton
    <3>4. os2[o] = Drop(os, o)[o]
      BY <2>5
    <3>5. CASE os[o].gc = 1
      <4>1. os2[o] = Unused
        BY <1>1, <3>4, <3>5 DEF Drop
      <4>2. Cardinality(Held(vs, o)) = 0
        BY <2>2, <2>3, <3>3, <3>5
      <4>3. Held(vs, o) = {}
        BY <4>2, HeldFinite, FS_EmptySet
      <4>4. \A v \in Var : vs[v] # o
        BY <4>3 DEF Held
      <4>5. Unused \in Object /\ Honest(Unused) /\ Roomy(Unused) /\ Unused.gc = 0
        BY DEF Unused, Object, Hashes, Honest, Roomy
      <4> QED BY <4>1, <4>2, <4>4, <4>5
    <3>6. CASE os[o].gc # 1
      <4>1. os2[o] = [os[o] EXCEPT !.gc = os[o].gc - 1]
        BY <1>1, <3>4, <3>6 DEF Drop
      <4>2. os[o].gc - 1 \in Nat /\ os[o].gc - 1 = Cardinality(Held(vs, o))
        BY <2>2, <2>3, <3>3
      <4>3. os2[o] \in Object /\ os2[o].gc = os[o].gc - 1 /\ SameBody(os2[o], os[o])
        BY <2>1, <4>1, <4>2 DEF Object, SameBody
      <4> QED BY <2>1, <4>2, <4>3 DEF SameBody, Honest, Roomy
    <3> QED BY <3>5, <3>6
  <2> QED BY <2>4, <2>5
<1>3. Typed(os2, vs, {})
  <2>1. os2 \in [Obj -> Object]
    BY <1>2
  <2> QED BY <1>1, <2>1, FS_EmptySet DEF Typed
<1>4. Owned(os2, vs, {})
  <2>1. \A o \in Obj : Cardinality(Filed({}, o)) = 0
    <3>1. \A o \in Obj : Filed({}, o) = {}
      BY DEF Filed
    <3> QED BY <3>1, FS_EmptySet
  <2>2. \A o \in Obj : Cardinality(Held(vs, o)) \in Nat
    BY HeldFinite
  <2> QED BY <1>2, <2>1, <2>2 DEF Owned
<1>5. Unseen(os, vs, os2, vs)
  BY <1>1, <1>2 DEF Unseen, TextOf
<1> QED BY <1>2, <1>3, <1>4, <1>5 DEF Sound, Exact
-----------------------------------------------------------------------------
(* jbl_string_extend_to and what is written then.                             *)

(* The address that a new object gets is free.                                *)
LEMMA NextFree ==
  ASSUME Room
  PROVE  Next1 \in Obj /\ obj[Next1].gc = 0
<1> PICK T : T = {n \in Obj : obj[n].gc = 0}
  OBVIOUS
<1>1. T \subseteq Nat /\ T # {}
  BY StringsAssumption DEF Room
<1>2. PICK x \in T : \A y \in T : x <= y
  BY <1>1, LeastNumber
<1>3. x \in Obj /\ obj[x].gc = 0 /\ \A m \in Obj : obj[m].gc = 0 => x <= m
  BY <1>2
<1> QED BY <1>3 DEF Next1

(* The object is the variable's own from now on, with room for n bytes.       *)
Extends(os, vs, v, n, a, E) ==
  /\ a \in Obj /\ E \in [Obj -> Object] /\ E[a].gc = 1 /\ E[a].size >= n
  /\ os[a].gc = 0 \/ (vs[v] = a /\ os[a].gc = 1)
  /\ \A o \in Obj : o # a => E[o].gc = os[o].gc - Is(vs[v], o) /\ SameBody(E[o], os[o])

(* jbl_string_extend_to leaves v with an object of its own, with room, and    *)
(* everyone else's text alone.                                                *)
LEMMA ExtendFacts ==
  ASSUME StringsSound, NEW v \in Var, CanExtend(v), NEW n \in Nat,
         NEW e, e = ExtendTo(obj, v, n)
  PROVE  Extends(obj, var, v, n, e.at, e.objs)
<1> PICK os, vs, c, f, o : os = obj /\ vs = var /\ c = cache /\ f = Next1 /\ o = var[v]
  OBVIOUS
<1>1. Sound(os, vs, c) /\ os \in [Obj -> Object] /\ vs \in [Var -> Obj \cup {NULL}]
  BY DEF StringsSound, Sound, Typed
<1>2. SizeFor(n) \in Nat /\ SizeFor(n) >= n
  BY SizeEnough
<1> PICK z : z = SizeFor(n)
  OBVIOUS
<1>3. o = NULL \/ o \in Obj
  BY <1>1
<1>4. ~ (o # NULL /\ os[o].gc = 1) => f \in Obj /\ os[f].gc = 0
  BY NextFree DEF CanExtend
<1>5. o \in Obj => os[o] \in Object /\ os[o].gc \in Nat /\ os[o].gc >= 1
  BY <1>1, HeldCounted
<1> PICK new : new = NewFor(n)
  OBVIOUS
<1>6. new \in Object /\ new.gc = 1 /\ new.size = z
  <2> PICK x : x = Unused
    OBVIOUS
  <2>1. x \in Object
    BY DEF Unused, Object, Hashes
  <2> PICK y : y = [x EXCEPT !.gc = 1]
    OBVIOUS
  <2>2. y \in Object /\ y.gc = 1
    BY <2>1 DEF Object
  <2>3. new = [y EXCEPT !.size = z]
    BY DEF NewFor, Fresh
  <2> QED BY <1>2, <2>2, <2>3 DEF Object
<1>7. CASE o = NULL
  <2>1. e.at = f /\ e.objs = [os EXCEPT ![f] = new]
    BY <1>7 DEF ExtendTo
  <2>2. f \in Obj /\ os[f].gc = 0
    BY <1>4, <1>7
  <2>3. /\ e.objs \in [Obj -> Object] /\ e.objs[f] = new
        /\ \A q \in Obj : q # f => e.objs[q] = os[q]
    BY <1>1, <1>6, <2>1, <2>2
  <2>4. \A q \in Obj : vs[v] # q /\ os[q].gc \in Nat
    BY <1>1, <1>7, StringsAssumption DEF NULL, Object
  <2>5. \A q \in Obj : q # f => /\ e.objs[q].gc = os[q].gc - Is(vs[v], q)
                                /\ SameBody(e.objs[q], os[q])
    BY <2>3, <2>4 DEF SameBody, Is
  <2> QED BY <1>2, <1>6, <2>1, <2>2, <2>3, <2>5 DEF Extends
<1>8. CASE o \in Obj /\ os[o].gc = 1
  <2> PICK g : g = Grown(os[o], n)
    OBVIOUS
  <2>1. o # NULL
    BY <1>8, StringsAssumption DEF NULL
  <2>2. e.at = o /\ e.objs = [os EXCEPT ![o] = g]
    BY <1>8, <2>1 DEF ExtendTo
  <2>3. g \in Object /\ g.gc = 1 /\ g.size >= n
    <3> PICK k : k = IF Const(os[o]) \/ z > os[o].size THEN z ELSE os[o].size
      OBVIOUS
    <3>1. g = [os[o] EXCEPT !.size = k, !.lit = FALSE]
      BY DEF Grown
    <3>2. os[o].size \in Nat /\ k \in Nat /\ k >= n
      BY <1>2, <1>5, <1>8 DEF Object
    <3> QED BY <1>5, <1>8, <3>1, <3>2 DEF Object
  <2>4. /\ e.objs \in [Obj -> Object] /\ e.objs[o] = g
        /\ \A q \in Obj : q # o => e.objs[q] = os[q]
    BY <1>1, <1>8, <2>2, <2>3
  <2>5. \A q \in Obj : os[q].gc \in Nat
    BY <1>1 DEF Object
  <2>6. \A q \in Obj : q # o => /\ e.objs[q].gc = os[q].gc - Is(vs[v], q)
                                /\ SameBody(e.objs[q], os[q])
    BY <2>4, <2>5 DEF SameBody, Is
  <2> QED BY <1>8, <2>2, <2>3, <2>4, <2>6 DEF Extends
<1>9. CASE o \in Obj /\ os[o].gc # 1
  <2>1. o # NULL
    BY <1>9, StringsAssumption DEF NULL
  <2>2. f \in Obj /\ os[f].gc = 0 /\ f # o
    BY <1>4, <1>5, <1>9
  <2> PICK d, r : /\ d = [os[o] EXCEPT !.gc = os[o].gc - 1]
                  /\ r = [new EXCEPT !.s = os[o].s, !.h = os[o].h]
    OBVIOUS
  <2>3. d \in Object /\ d.gc = os[o].gc - 1 /\ SameBody(d, os[o])
    BY <1>5, <1>9 DEF Object, SameBody
  <2>4. r \in Object /\ r.gc = 1 /\ r.size = z
    BY <1>2, <1>5, <1>6, <1>9 DEF Object
  <2>5. e.at = f /\ e.objs = [os EXCEPT ![o] = d, ![f] = r]
    BY <1>1, <1>9, <2>1 DEF ExtendTo
  <2>6. /\ e.objs \in [Obj -> Object] /\ e.objs[f] = r /\ e.objs[o] = d
        /\ \A q \in Obj : q # f /\ q # o => e.objs[q] = os[q]
    BY <1>1, <1>9, <2>2, <2>3, <2>4, <2>5
  <2>7. \A q \in Obj : os[q].gc \in Nat
    BY <1>1 DEF Object
  <2>8. \A q \in Obj : q # f => /\ e.objs[q].gc = os[q].gc - Is(vs[v], q)
                                /\ SameBody(e.objs[q], os[q])
    <3> SUFFICES ASSUME NEW q \in Obj, q # f
                 PROVE  /\ e.objs[q].gc = os[q].gc - Is(vs[v], q)
                        /\ SameBody(e.objs[q], os[q])
      OBVIOUS
    <3>1. CASE q = o
      BY <2>3, <2>6, <3>1 DEF SameBody, Is
    <3>2. CASE q # o
      BY <2>6, <2>7, <3>2 DEF SameBody, Is
    <3> QED BY <3>1, <3>2
  <2> QED BY <1>2, <2>2, <2>4, <2>5, <2>6, <2>8 DEF Extends
<1> QED BY <1>3, <1>7, <1>8, <1>9

(* A text that fits into what was asked for is written.                       *)
LEMMA WritesKeep ==
  ASSUME StringsSound, NEW v \in Var, CanExtend(v), NEW n \in Nat,
         NEW t \in Seq(Char), Len(t) <= n, Write(v, n, t)
  PROVE  Sound(obj', var', cache) /\ Gets(obj, var, obj', var', v, t)
<1> PICK os, vs, c, os2, vs2 : os = obj /\ vs = var /\ c = cache /\ os2 = obj' /\ vs2 = var'
  OBVIOUS
<1> PICK e : e = ExtendTo(obj, v, n)
  OBVIOUS
<1> PICK a, E : a = e.at /\ E = e.objs
  OBVIOUS
<1>1. Extends(os, vs, v, n, a, E)
  BY ExtendFacts
<1>2. /\ a \in Obj /\ E \in [Obj -> Object] /\ E[a].gc = 1 /\ E[a].size >= n
      /\ E[a] \in Object
  BY <1>1 DEF Extends
<1>3. os2 = [E EXCEPT ![a].s = t, ![a].h = 0] /\ vs2 = [vs EXCEPT ![v] = a]
  BY DEF Write
<1> PICK r : r = [E[a] EXCEPT !.s = t, !.h = 0]
  OBVIOUS
<1>4. /\ r \in Object /\ r.gc = 1 /\ r.s = t /\ r.h = 0 /\ r.size = E[a].size
  BY <1>2 DEF Object, Hashes
<1>5. os2 = [E EXCEPT ![a] = r]
  BY <1>2, <1>3
<1>6. os2 \in [Obj -> Object] /\ os2[a] = r /\ \A q \in Obj : q # a => os2[q] = E[q]
  BY <1>2, <1>4, <1>5
<1>7. Honest(r) /\ Roomy(r)
  <2>1. Len(t) \in Nat /\ E[a].size \in Nat
    BY <1>2 DEF Object
  <2> QED BY <1>2, <1>4, <2>1 DEF Honest, Roomy
<1>8. Places(os, vs, v, a, r, os2)
  BY <1>1, <1>4, <1>6, <1>7 DEF Extends, Places
<1>9. Sound(os, vs, c)
  BY DEF StringsSound
<1>10. Sound(os2, vs2, c) /\ Gets(os, vs, os2, vs2, v, r.s)
  <2> PICK us : us = [vs EXCEPT ![v] = a]
    OBVIOUS
  <2>1. Sound(os2, us, c) /\ Gets(os, vs, os2, us, v, r.s)
    BY <1>8, <1>9, PlacesKeep
  <2> QED BY <1>3, <2>1
<1> QED BY <1>4, <1>10
-----------------------------------------------------------------------------
(* The steps: the invariant, and whose text changes.                          *)

(* What a variable holds.                                                     *)
LEMMA TextFacts ==
  ASSUME StringsSound, NEW v \in Var
  PROVE  /\ Text(v) \in Seq(Char) /\ Text(v) # <<0>>
         /\ var[v] # NULL => /\ var[v] \in Obj /\ obj[var[v]] \in Object
                             /\ obj[var[v]].s = Text(v) /\ TextOf(obj, var, v) = Text(v)
         /\ var[v] = NULL => Text(v) = <<>> /\ TextOf(obj, var, v) = <<0>>
<1>1. obj \in [Obj -> Object] /\ var \in [Var -> Obj \cup {NULL}]
  BY DEF StringsSound, Sound, Typed
<1>2. Text(v) \in Seq(Char)
  BY <1>1 DEF Text, Object
<1>3. \A s \in Seq(Char) : s # <<0>>
  <2> SUFFICES ASSUME NEW s \in Seq(Char), s = << 0 >> PROVE FALSE
    OBVIOUS
  <2>1. Len(s) = 1 /\ s[1] = 0
    OBVIOUS
  <2>2. s[1] \in Char
    BY <2>1
  <2> QED BY <2>1, <2>2 DEF Char
<1> QED BY <1>1, <1>2, <1>3 DEF Text, TextOf

(* A literal is a text. *)
LEMMA LiteralTyped ==
  ASSUME NEW t \in Literal
  PROVE  t \in Seq(Char)
BY StringsAssumption DEF Char

(* Steps that give variable v the text t.                                     *)
Stepped(v, t) == Sound(obj', var', cache') /\ Gets(obj, var, obj', var', v, t)

(* A write after the string was extended. *)
LEMMA WriteStep ==
  ASSUME StringsSound, NEW v \in Var, CanExtend(v), NEW n \in Nat,
         NEW t \in Seq(Char), Len(t) <= n, Write(v, n, t), UNCHANGED cache
  PROVE  Stepped(v, t)
<1>1. Sound(obj', var', cache) /\ Gets(obj, var, obj', var', v, t)
  BY WritesKeep
<1> QED BY <1>1 DEF Stepped

(* A record in an object that is free or the variable's own, the others as    *)
(* they are.                                                                  *)
LEMMA PlaceStep ==
  ASSUME StringsSound, NEW v \in Var, NEW n \in Obj, NEW r \in Object,
         r.gc = 1, Honest(r), Roomy(r),
         \/ var[v] = NULL /\ obj[n].gc = 0
         \/ var[v] = n /\ obj[n].gc = 1,
         NEW os2, os2 = [obj EXCEPT ![n] = r], NEW vs2, vs2 = [var EXCEPT ![v] = n]
  PROVE  Sound(os2, vs2, cache) /\ Gets(obj, var, os2, vs2, v, r.s)
<1> PICK os, vs, c : os = obj /\ vs = var /\ c = cache
  OBVIOUS
<1>1. Sound(os, vs, c) /\ os \in [Obj -> Object]
  BY DEF StringsSound, Sound, Typed
<1>2. os2 \in [Obj -> Object] /\ os2[n] = r /\ \A q \in Obj : q # n => os2[q] = os[q]
  BY <1>1
<1>3. \A q \in Obj : q # n => os2[q].gc = os[q].gc - Is(vs[v], q) /\ SameBody(os2[q], os[q])
  <2> SUFFICES ASSUME NEW q \in Obj, q # n
               PROVE  os2[q].gc = os[q].gc - Is(vs[v], q) /\ SameBody(os2[q], os[q])
    OBVIOUS
  <2>1. vs[v] # q
    BY StringsAssumption DEF NULL
  <2>2. os[q].gc \in Nat
    BY <1>1 DEF Object
  <2> QED BY <1>2, <2>1, <2>2 DEF SameBody, Is
<1>4. Places(os, vs, v, n, r, os2)
  BY <1>2, <1>3 DEF Places
<1> PICK us : us = [vs EXCEPT ![v] = n]
  OBVIOUS
<1>5. Sound(os2, us, c) /\ Gets(os, vs, os2, us, v, r.s)
  BY <1>1, <1>4, PlacesKeep
<1> QED BY <1>5

(* A new object's record.                                                     *)
LEMMA FreshTyped == Fresh \in Object /\ Fresh.gc = 1 /\ Fresh.s = <<>> /\ Fresh.h = 0
<1> PICK x : x = Unused
  OBVIOUS
<1>1. x \in Object /\ x.s = <<>> /\ x.h = 0
  BY DEF Unused, Object, Hashes
<1>2. Fresh = [x EXCEPT !.gc = 1]
  BY DEF Fresh
<1> QED BY <1>1, <1>2 DEF Object

(* A record that points at a literal.                                         *)
Pointed(x, t, r) == /\ r \in Object /\ r.gc = x.gc /\ r.s = t /\ r.h = x.h /\ Roomy(r)

(* An object that points at a literal has room for it. *)
LEMMA LiteralRecord ==
  ASSUME NEW x, x \in Object, NEW t, t \in Seq(Char)
  PROVE  Pointed(x, t, [x EXCEPT !.s = t, !.lit = TRUE])
<1> PICK r : r = [x EXCEPT !.s = t, !.lit = TRUE]
  OBVIOUS
<1>1. r \in Object /\ r.gc = x.gc /\ r.s = t /\ r.h = x.h /\ r.lit
  BY DEF Object
<1> QED BY <1>1 DEF Pointed, Roomy

(* jbl_string_new. *)
LEMMA NewStep ==
  ASSUME StringsSound, NEW v \in Var, New(v)
  PROVE  Stepped(v, <<>>)
<1> PICK n, r : n = Next1 /\ r = Fresh
  OBVIOUS
<1>1. n \in Obj /\ obj[n].gc = 0 /\ var[v] = NULL
  BY NextFree DEF New
<1>2. r \in Object /\ r.gc = 1 /\ r.s = <<>> /\ r.h = 0
  BY FreshTyped
<1>3. Honest(r) /\ Roomy(r)
  BY <1>2 DEF Honest, Roomy, Object
<1> PICK os2, vs2 : os2 = [obj EXCEPT ![n] = r] /\ vs2 = [var EXCEPT ![v] = n]
  OBVIOUS
<1>4. Sound(os2, vs2, cache) /\ Gets(obj, var, os2, vs2, v, r.s)
  BY <1>1, <1>2, <1>3, PlaceStep
<1>5. obj' = os2 /\ var' = vs2 /\ cache' = cache
  BY DEF New
<1> QED BY <1>2, <1>4, <1>5 DEF Stepped

(* jbl_string_free. *)
LEMMA FreeStep ==
  ASSUME StringsSound, NEW v \in Var, Free(v)
  PROVE  Stepped(v, <<0>>)
<1> PICK os, vs, c, os2, vs2 : /\ os = obj /\ vs = var /\ c = cache
                               /\ os2 = Drop(os, vs[v]) /\ vs2 = [vs EXCEPT ![v] = NULL]
  OBVIOUS
<1>1. Sound(os, vs, c) /\ vs[v] # NULL
  BY DEF StringsSound, Free
<1>2. Sound(os2, vs2, c) /\ Gets(os, vs, os2, vs2, v, <<0>>)
  <2>1. Dropped(os, vs, c, v, os2, vs2)
    BY <1>1, DropKeeps
  <2> QED BY <2>1 DEF Dropped
<1>3. obj' = os2 /\ var' = vs2 /\ cache' = c
  BY DEF Free
<1> QED BY <1>2, <1>3 DEF Stepped

(* jbl_string_copy. *)
LEMMA CopyStep ==
  ASSUME StringsSound, NEW v \in Var, NEW w \in Var, Copy(v, w)
  PROVE  Stepped(w, TextOf(obj, var, v)) /\ var[v] # NULL /\ var[w] = NULL
<1> PICK os, vs, c, o : os = obj /\ vs = var /\ c = cache /\ o = var[v]
  OBVIOUS
<1> PICK os2, vs2 : os2 = [os EXCEPT ![o].gc = @ + 1] /\ vs2 = [vs EXCEPT ![w] = o]
  OBVIOUS
<1>1. Sound(os, vs, c) /\ o \in Obj /\ vs[v] # NULL /\ vs[w] = NULL
  BY DEF StringsSound, Copy, Sound, Typed
<1>2. Sound(os2, vs2, c) /\ Gets(os, vs, os2, vs2, w, os[o].s)
  BY <1>1, SharesKeep DEF Shared
<1>3. obj' = os2 /\ var' = vs2 /\ cache' = c
  BY DEF Copy
<1>4. TextOf(os, vs, v) = os[o].s
  BY <1>1 DEF TextOf
<1> QED BY <1>1, <1>2, <1>3, <1>4 DEF Stepped

(* jbl_string_add_chars. *)
LEMMA AddCharsStep ==
  ASSUME StringsSound, NEW v \in Var, NEW t \in Seq(Char), AddChars(v, t)
  PROVE  Stepped(v, Text(v) \o t)
<1> PICK x : x = Text(v)
  OBVIOUS
<1>1. x \in Seq(Char)
  BY TextFacts
<1>2. x \o t \in Seq(Char) /\ Len(x \o t) <= Len(x) + Len(t) /\ Len(x) + Len(t) \in Nat
  BY <1>1
<1> PICK y, n : y = x \o t /\ n = Len(x) + Len(t)
  OBVIOUS
<1>3. CanExtend(v) /\ Write(v, n, y) /\ UNCHANGED cache
  BY DEF AddChars
<1> QED BY <1>2, <1>3, WriteStep

(* The hash of no text.                                                       *)
LEMMA HashOfNothing == HashOf(<<>>) = 0
<1> DEFINE S == DOMAIN <<>>
<1>1. S = {}
  OBVIOUS
<1> QED BY <1>1 DEF HashOf, FoldLeft, MapThenFoldSet

(* jbl_string_add_const: it keeps the literal's memory or copies it, and has  *)
(* a text of its own, unless others hold the empty one.                       *)
LEMMA AddConstStep ==
  ASSUME StringsSound, NEW v \in Var, NEW t \in Literal, AddConst(v, t), fault' = "none"
  PROVE  Stepped(v, Text(v) \o t)
<1>1. t \in Seq(Char)
  BY LiteralTyped
<1>2. CASE HasText(v)
  BY <1>1, <1>2, AddCharsStep DEF AddConst
<1>3. CASE ~ HasText(v)
  <2> PICK o, old : /\ o = IF var[v] = NULL THEN Next1 ELSE var[v]
                    /\ old = IF var[v] = NULL THEN Fresh ELSE obj[o]
    OBVIOUS
  <2> PICK r : r = [old EXCEPT !.s = t, !.lit = TRUE]
    OBVIOUS
  <2> PICK os2, vs2 : os2 = [obj EXCEPT ![o] = r] /\ vs2 = [var EXCEPT ![v] = o]
    OBVIOUS
  <2>1. obj' = os2 /\ var' = vs2 /\ cache' = cache
    BY <1>3 DEF AddConst
  <2>2. /\ o \in Obj /\ old \in Object /\ old.gc = 1 /\ old.h = 0
        /\ \/ var[v] = NULL /\ obj[o].gc = 0
           \/ var[v] = o /\ obj[o].gc = 1
        /\ Text(v) = <<>>
    <3>1. CASE var[v] = NULL
      <4>1. o \in Obj /\ obj[o].gc = 0
        BY <1>3, <3>1, NextFree DEF AddConst
      <4>2. Text(v) = <<>>
        BY <3>1 DEF Text
      <4> QED BY <3>1, <4>1, <4>2, FreshTyped
    <3>2. CASE var[v] # NULL
      <4>1. o \in Obj /\ old = obj[o] /\ o = var[v]
        BY <3>2, TextFacts
      <4>2. old \in Object /\ old.s = Text(v) /\ Honest(old) /\ Roomy(old)
        BY <3>2, <4>1, TextFacts DEF StringsSound, Sound
      <4>3. ~ old.lit /\ ~ (old.size > 0) /\ old.gc = 1
        <5>1. ~ old.lit /\ ~ (old.size > 0) /\ ~ (old.gc > 1)
          BY <1>3, <3>2, <4>1 DEF HasText, AddConst, Noted
        <5>2. old.gc >= 1 /\ old.gc \in Nat
          BY <3>2, <4>1, HeldCounted DEF StringsSound
        <5> QED BY <5>1, <5>2
      <4>4. old.s = <<>>
        <5>1. Len(old.s) <= old.size /\ old.size \in Nat /\ old.s \in Seq(Char)
          BY <4>2, <4>3 DEF Roomy, Object
        <5>2. Len(old.s) = 0
          BY <4>3, <5>1
        <5> QED BY <5>1, <5>2
      <4>5. old.h = 0
        BY <4>2, <4>4, HashOfNothing DEF Honest
      <4> QED BY <4>1, <4>2, <4>3, <4>4, <4>5
    <3> QED BY <3>1, <3>2
  <2>3. r \in Object /\ r.gc = 1 /\ r.s = t /\ r.h = 0 /\ Roomy(r)
    <3>1. Pointed(old, t, r)
      BY <1>1, <2>2, LiteralRecord
    <3> QED BY <2>2, <3>1 DEF Pointed
  <2>4. Honest(r)
    BY <2>3 DEF Honest
  <2>5. Sound(os2, vs2, cache) /\ Gets(obj, var, os2, vs2, v, r.s)
    BY <2>2, <2>3, <2>4, PlaceStep
  <2>6. Text(v) \o t = t
    BY <1>1, <2>2
  <2> QED BY <2>1, <2>3, <2>5, <2>6 DEF Stepped
<1> QED BY <1>2, <1>3

(* Steps that break the texts or the room: the counts and hashes stay right.  *)
Counted(os, vs, c) == Owned(os, vs, c) /\ \A o \in Obj : Honest(os[o])
Broke == /\ Counted(obj', var', cache')
         /\ \/ fault' = "const" /\ \A o \in Obj : Roomy(obj'[o])
            \/ fault' = "start"

(* Adding a literal to an empty string changes the text of all who hold it.   *)
LEMMA AddConstBreaks ==
  ASSUME StringsSound, NEW v \in Var, NEW t \in Literal, AddConst(v, t), fault' # "none",
         ~ HasText(v)
  PROVE  Broke
<1> PICK os, vs, c, o : os = obj /\ vs = var /\ c = cache /\ o = var[v]
  OBVIOUS
<1>1. var[v] # NULL
  <2>1. CASE var[v] = NULL
    <3>1. Fresh.gc = 1
      BY FreshTyped
    <3>2. Noted("const", Fresh.gc > 1)
      BY <2>1 DEF AddConst
    <3> QED BY <3>1, <3>2 DEF Noted
  <2> QED BY <2>1
<1>2. Sound(os, vs, c) /\ os \in [Obj -> Object] /\ o \in Obj /\ os[o] \in Object
  BY <1>1, TextFacts DEF StringsSound, Sound, Typed
<1>3. ~ os[o].lit /\ ~ (os[o].size > 0) /\ Honest(os[o]) /\ Roomy(os[o])
  BY <1>1, <1>2 DEF HasText, Sound
<1>4. os[o].s = <<>>
  <2>1. Len(os[o].s) <= os[o].size /\ os[o].size \in Nat /\ os[o].s \in Seq(Char)
    BY <1>2, <1>3 DEF Roomy, Object
  <2>2. Len(os[o].s) = 0
    BY <1>3, <2>1
  <2> QED BY <2>1, <2>2
<1>5. os[o].h = 0
  BY <1>3, <1>4, HashOfNothing DEF Honest
<1> PICK r : r = [os[o] EXCEPT !.s = t, !.lit = TRUE]
  OBVIOUS
<1>6. r \in Object /\ r.gc = os[o].gc /\ r.h = 0 /\ Roomy(r)
  <2>1. Pointed(os[o], t, r)
    BY <1>2, LiteralTyped, LiteralRecord
  <2> QED BY <1>5, <2>1 DEF Pointed
<1>7. obj' = [os EXCEPT ![o] = r] /\ var' = [vs EXCEPT ![v] = o] /\ cache' = c
      /\ Noted("const", os[o].gc > 1)
  BY <1>1 DEF AddConst
<1>8. var' = vs
  BY <1>2, <1>7 DEF Sound, Typed
<1> PICK os2 : os2 = obj'
  OBVIOUS
<1>9. \A q \in Obj : os2[q].gc = os[q].gc /\ Honest(os2[q]) /\ Roomy(os2[q])
  <2> SUFFICES ASSUME NEW q \in Obj
               PROVE  os2[q].gc = os[q].gc /\ Honest(os2[q]) /\ Roomy(os2[q])
    OBVIOUS
  <2>1. CASE q = o
    BY <1>2, <1>6, <1>7, <2>1 DEF Honest
  <2>2. CASE q # o
    BY <1>2, <1>7, <2>2 DEF Sound
  <2> QED BY <2>1, <2>2
<1>10. Owned(os2, vs, c)
  BY <1>2, <1>9 DEF Sound, Owned
<1>11. fault' = "const"
  BY <1>7 DEF Noted
<1> QED BY <1>7, <1>8, <1>9, <1>10, <1>11 DEF Broke, Counted

(* jbl_string_clear. *)
LEMMA ClearStep ==
  ASSUME StringsSound, NEW v \in Var, Clear(v)
  PROVE  Stepped(v, <<>>)
<1>1. CanExtend(v) /\ Write(v, 0, <<>>) /\ UNCHANGED cache
  BY DEF Clear
<1>2. <<>> \in Seq(Char) /\ Len(<<>>) <= 0
  OBVIOUS
<1> QED BY <1>1, <1>2, WriteStep

(* A text in upper case is as long.                                           *)
LEMMA UpperTyped ==
  ASSUME NEW t \in Seq(Char)
  PROVE  Upper(t) \in Seq(Char) /\ Len(Upper(t)) = Len(t)
<1>1. \A i \in 1 .. Len(t) : (IF t[i] % 2 = 1 THEN t[i] + 1 ELSE t[i]) \in Char
  BY DEF Char
<1>2. Len(t) \in Nat /\ DOMAIN t = 1 .. Len(t)
  OBVIOUS
<1>3. Upper(t) \in [1 .. Len(t) -> Char]
  BY <1>1, <1>2 DEF Upper
<1> QED BY <1>2, <1>3

(* jbl_string_to_upper_case. *)
LEMMA UpperStep ==
  ASSUME StringsSound, NEW v \in Var, ToUpperCase(v)
  PROVE  Stepped(v, Upper(Text(v)))
<1> PICK x, y : x = Text(v) /\ y = Upper(x)
  OBVIOUS
<1>1. x \in Seq(Char)
  BY TextFacts
<1>2. y \in Seq(Char) /\ Len(y) = Len(x)
  BY <1>1, UpperTyped
<1> PICK n : n = Len(x)
  OBVIOUS
<1>3. CanExtend(v) /\ Write(v, n, y) /\ UNCHANGED cache
  BY DEF ToUpperCase
<1>4. n \in Nat /\ Len(y) <= n
  BY <1>1, <1>2
<1> QED BY <1>2, <1>3, <1>4, WriteStep

(* A text without the characters from a up to b, or up to its end.            *)
LEMMA CutTyped ==
  ASSUME NEW x \in Seq(Char), NEW a \in Nat, NEW b \in Nat, a < b, a <= Len(x)
  PROVE  Cut(x, a, b) \in Seq(Char) /\ Len(Cut(x, a, b)) <= Len(x)
<1> PICK n : n = Len(x)
  OBVIOUS
<1>1. n \in Nat
  OBVIOUS
<1> PICK p, q : p = SubSeq(x, 1, a) /\ q = SubSeq(x, b + 1, n)
  OBVIOUS
<1>2. p \in Seq(Char) /\ Len(p) = a
  BY <1>1
<1>3. q \in Seq(Char) /\ Len(q) \in Nat /\ Len(q) <= n - a
  <2>1. CASE b <= n
    <3>1. q \in Seq(Char) /\ Len(q) = n - b
      BY <1>1, <2>1
    <3> QED BY <1>1, <2>1, <3>1
  <2>2. CASE b > n
    <3>1. q = <<>>
      BY <1>1, <2>2
    <3> QED BY <1>1, <3>1
  <2> QED BY <1>1, <2>1, <2>2
<1> PICK y : y = p \o q
  OBVIOUS
<1>4. y \in Seq(Char) /\ Len(y) = Len(p) + Len(q)
  BY <1>2, <1>3
<1>5. Len(y) <= n
  <2> PICK k : k = Len(q)
    OBVIOUS
  <2>1. k \in Nat /\ k <= n - a
    BY <1>3
  <2>2. a + k <= n
    BY <1>1, <2>1
  <2> QED BY <1>2, <1>4, <2>2
<1> QED BY <1>4, <1>5 DEF Cut

(* jbl_string_delete of what begins within the text.                          *)
LEMMA DeleteStep ==
  ASSUME StringsSound, NEW v \in Var, NEW a \in 0 .. MaxLen, NEW b \in 0 .. MaxLen,
         Delete(v, a, b), a <= Len(Text(v))
  PROVE  Stepped(v, Cut(Text(v), a, b))
<1> PICK x, n : x = Text(v) /\ n = Len(x)
  OBVIOUS
<1>1. x \in Seq(Char) /\ n \in Nat
  BY TextFacts
<1>2. a \in Nat /\ b \in Nat /\ a < b
  BY StringsAssumption DEF Delete
<1> PICK y : y = Cut(x, a, b)
  OBVIOUS
<1>3. y \in Seq(Char) /\ Len(y) <= n
  BY <1>1, <1>2, CutTyped
<1>4. CanExtend(v) /\ Write(v, n, y) /\ UNCHANGED cache
  BY DEF Delete
<1>5. Stepped(v, y)
  BY <1>1, <1>3, <1>4, WriteStep
<1> QED BY <1>5

(* jbl_string_delete of what begins behind the end: an own object with no     *)
(* hash, and a text that is longer.                                           *)
LEMMA DeleteBreaks ==
  ASSUME StringsSound, NEW v \in Var, NEW a \in 0 .. MaxLen, NEW b \in 0 .. MaxLen,
         Delete(v, a, b), a > Len(Text(v))
  PROVE  Broke
<1> PICK os, vs, c, n, t : /\ os = obj /\ vs = var /\ c = cache /\ n = Len(Text(v))
                           /\ t = Stretched(Text(v), a)
  OBVIOUS
<1> PICK e : e = ExtendTo(obj, v, n)
  OBVIOUS
<1> PICK at, E : at = e.at /\ E = e.objs
  OBVIOUS
<1>1. n \in Nat
  BY TextFacts
<1>2. CanExtend(v) /\ Write(v, n, t) /\ cache' = c /\ Noted("start", TRUE)
  <2>1. ~ (a <= n) /\ a > n
    BY <1>1, StringsAssumption
  <2> QED BY <2>1 DEF Delete
<1>3. Extends(os, vs, v, n, at, E)
  BY <1>1, <1>2, ExtendFacts
<1>4. at \in Obj /\ E \in [Obj -> Object] /\ E[at].gc = 1 /\ E[at] \in Object
  BY <1>3 DEF Extends
<1> PICK r : r = [E[at] EXCEPT !.s = t, !.h = 0]
  OBVIOUS
<1>5. obj' = [E EXCEPT ![at] = r] /\ var' = [vs EXCEPT ![v] = at]
  BY <1>2, <1>4 DEF Write
<1>6. r.gc = 1 /\ r.h = 0
  BY <1>4 DEF Object
<1> PICK os2, vs2 : os2 = obj' /\ vs2 = var'
  OBVIOUS
<1>7. os2[at] = r /\ \A q \in Obj : q # at => os2[q] = E[q]
  BY <1>4, <1>5
<1>8. Sound(os, vs, c) /\ vs \in [Var -> Obj \cup {NULL}] /\ IsFiniteSet(c)
  BY DEF StringsSound, Sound, Typed
<1>9. os[at].gc = Is(vs[v], at)
  <2>1. CASE os[at].gc = 0
    <3>1. vs[v] # at
      BY <1>4, <1>8, <2>1, NobodyHolds
    <3> QED BY <2>1, <3>1 DEF Is
  <2>2. CASE vs[v] = at /\ os[at].gc = 1
    BY <2>2 DEF Is
  <2> QED BY <1>3, <2>1, <2>2 DEF Extends
<1>10. Moved(vs, vs2, v, at)
  BY <1>4, <1>5, <1>8, HeldMoves
<1>11. Owned(os2, vs2, c)
  <2> SUFFICES ASSUME NEW o \in Obj
               PROVE  os2[o].gc = Cardinality(Held(vs2, o)) + Cardinality(Filed(c, o))
    BY DEF Owned
  <2>1. Cardinality(Held(vs2, o)) = Cardinality(Held(vs, o)) + Is(at, o) - Is(vs[v], o)
    BY <1>10 DEF Moved
  <2>2. os[o].gc = Cardinality(Held(vs, o)) + Cardinality(Filed(c, o))
    BY <1>8 DEF Sound, Owned
  <2>3. Cardinality(Held(vs, o)) \in Nat /\ Cardinality(Filed(c, o)) \in Nat
    BY <1>8, HeldFinite, FiledFinite
  <2>4. CASE o = at
    <3>1. os2[o].gc = 1 /\ os[o].gc = Is(vs[v], o) /\ Is(at, o) = 1 /\ Is(vs[v], o) \in {0, 1}
      BY <1>6, <1>7, <1>9, <2>4 DEF Is
    <3> QED BY <2>1, <2>2, <2>3, <3>1
  <2>5. CASE o # at
    <3>1. os2[o].gc = os[o].gc - Is(vs[v], o)
      BY <1>3, <1>7, <2>5 DEF Extends
    <3> QED BY <2>1, <2>2, <2>3, <2>5, <3>1 DEF Is
  <2> QED BY <2>4, <2>5
<1>12. \A o \in Obj : Honest(os2[o])
  <2> SUFFICES ASSUME NEW o \in Obj PROVE Honest(os2[o])
    OBVIOUS
  <2>1. CASE o = at
    BY <1>6, <1>7, <2>1 DEF Honest
  <2>2. CASE o # at
    BY <1>3, <1>7, <1>8, <2>2 DEF Extends, SameBody, Sound, Honest
  <2> QED BY <2>1, <2>2
<1>13. fault' = "start"
  BY <1>2 DEF Noted
<1> QED BY <1>2, <1>11, <1>12, <1>13 DEF Broke, Counted

(* Nothing is copied into less than it takes when the size is that of the     *)
(* text or more.                                                              *)
LEMMA Fits ==
  ASSUME StringsSound, NEW v \in Var, NEW k \in Nat
  PROVE  ~ Overruns(v, Len(Text(v)) + k)
<1> PICK n : n = Len(Text(v))
  OBVIOUS
<1>1. n \in Nat
  BY TextFacts
<1>2. SizeFor(n + k) \in Nat /\ SizeFor(n + k) >= n + k
  BY <1>1, SizeEnough
<1> PICK z : z = SizeFor(n + k)
  OBVIOUS
<1>3. ~ (z < n)
  BY <1>1, <1>2
<1> QED BY <1>3 DEF Overruns

(* Steps that change no text.                                                 *)
StillSound == Sound(obj', var', cache') /\ Unseen(obj, var, obj', var')

(* jbl_string_hash. *)
LEMMA HashStep ==
  ASSUME StringsSound, NEW v \in Var, Hash(v)
  PROVE  StillSound
<1> PICK os, vs, c, o : os = obj /\ vs = var /\ c = cache /\ o = var[v]
  OBVIOUS
<1> PICK os2 : os2 = [os EXCEPT ![o] = Hashed(os[o])]
  OBVIOUS
<1>1. Sound(os, vs, c) /\ o \in Obj
  BY DEF StringsSound, Hash, Sound, Typed
<1>2. Sound(os2, vs, c) /\ Unseen(os, vs, os2, vs)
  <2>1. Rehashed(os, vs, c, o, os2)
    BY <1>1, HashesKeep
  <2> QED BY <2>1 DEF Rehashed
<1>3. obj' = os2 /\ var' = vs /\ cache' = c
  <2>1. obj \in [Obj -> Object]
    BY DEF StringsSound, Sound, Typed
  <2> QED BY <2>1 DEF Hash
<1> QED BY <1>2, <1>3 DEF StillSound

(* A step after another.                                                      *)
LEMMA GetsThen ==
  ASSUME NEW o1, NEW v1, NEW o2, NEW v2, NEW o3, NEW v3, NEW v \in Var, NEW t,
         Gets(o1, v1, o2, v2, v, t), Unseen(o2, v2, o3, v3)
  PROVE  Gets(o1, v1, o3, v3, v, t)
BY DEF Gets, Unseen

(* A text that changes and changes back. *)
LEMMA GetsBack ==
  ASSUME NEW o1, NEW v1, NEW o2, NEW v2, NEW o3, NEW v3, NEW o4, NEW v4, NEW v \in Var,
         NEW t, NEW u, Unseen(o1, v1, o2, v2), Gets(o2, v2, o3, v3, v, t),
         Gets(o3, v3, o4, v4, v, u), TextOf(o1, v1, v) = u
  PROVE  Unseen(o1, v1, o4, v4)
BY DEF Gets, Unseen

(* A record counted once more.                                                *)
More(x, r) == r \in Object /\ r.gc = x.gc + 1 /\ SameBody(r, x)

(* A count more is the only change. *)
LEMMA MoreFacts ==
  ASSUME NEW x, x \in Object
  PROVE  More(x, [x EXCEPT !.gc = x.gc + 1])
<1> PICK r : r = [x EXCEPT !.gc = x.gc + 1]
  OBVIOUS
<1>1. More(x, r)
  BY DEF More, Object, SameBody
<1> QED BY <1>1

(* Two records are the same when their fields   *)
(* are.                                                                       *)
LEMMA SameRecord ==
  ASSUME NEW a \in Object, NEW b \in Object, a.gc = b.gc, SameBody(a, b)
  PROVE  a = b
BY DEF Object, SameBody

(* The text of a literal, from the cache or with a new entry in it.           *)
LEMMA CacheGetStep ==
  ASSUME StringsSound, NEW v \in Var, NEW t \in Literal, CacheGet(v, t)
  PROVE  Stepped(v, t) /\ var[v] = NULL
<1> PICK os, vs, c, f : os = obj /\ vs = var /\ c = cache /\ f = Next1
  OBVIOUS
<1>1. Sound(os, vs, c) /\ os \in [Obj -> Object] /\ c \subseteq [h : Hashes, k : Obj] /\ vs[v] = NULL
  BY DEF StringsSound, Sound, Typed, CacheGet
<1>2. t \in Seq(Char)
  BY LiteralTyped
<1>3. CASE CachedAs(t) # {}
  <2>1. PICK e \in CachedAs(t) : /\ obj' = [os EXCEPT ![e.k].gc = @ + 1]
                                 /\ var' = [vs EXCEPT ![v] = e.k] /\ cache' = c
    BY <1>3 DEF CacheGet
  <2> PICK o : o = e.k
    OBVIOUS
  <2>2. o \in Obj /\ os[o].s = t
    BY <1>1 DEF CachedAs
  <2> PICK os2, vs2 : os2 = [os EXCEPT ![o].gc = @ + 1] /\ vs2 = [vs EXCEPT ![v] = o]
    OBVIOUS
  <2>3. Sound(os2, vs2, c) /\ Gets(os, vs, os2, vs2, v, os[o].s)
    BY <1>1, <2>2, SharesKeep DEF Shared
  <2>4. obj' = os2 /\ var' = vs2 /\ cache' = c
    BY <2>1
  <2> QED BY <1>1, <2>2, <2>3, <2>4 DEF Stepped
<1>4. CASE CachedAs(t) = {} /\ Len(t) > CacheMax
  <2>1. f \in Obj /\ obj[f].gc = 0
    BY <1>4, NextFree DEF CacheGet
  <2> PICK x, r : x = Fresh /\ r = [x EXCEPT !.s = t, !.lit = TRUE]
    OBVIOUS
  <2>2. x \in Object /\ x.gc = 1 /\ x.h = 0
    BY FreshTyped
  <2>3. Pointed(x, t, r)
    BY <1>2, <2>2, LiteralRecord
  <2>4. r \in Object /\ r.gc = 1 /\ r.s = t /\ Roomy(r) /\ Honest(r)
    BY <2>2, <2>3 DEF Pointed, Honest
  <2> PICK os2, vs2 : os2 = [obj EXCEPT ![f] = r] /\ vs2 = [var EXCEPT ![v] = f]
    OBVIOUS
  <2>5. Sound(os2, vs2, cache) /\ Gets(obj, var, os2, vs2, v, r.s)
    BY <1>1, <2>1, <2>4, PlaceStep
  <2>6. obj' = os2 /\ var' = vs2 /\ cache' = cache
    <3>1. ~ (Len(t) <= CacheMax)
      <4>1. Len(t) \in Nat /\ CacheMax \in Nat
        BY <1>2, StringsAssumption
      <4> QED BY <1>4, <4>1
    <3> QED BY <1>4, <3>1 DEF CacheGet
  <2> QED BY <1>1, <2>4, <2>5, <2>6 DEF Stepped
<1>5. CASE CachedAs(t) = {} /\ Len(t) <= CacheMax
  <2>1. f \in Obj /\ obj[f].gc = 0
    BY <1>5, NextFree DEF CacheGet
  <2> PICK r, r2 : /\ r = [gc |-> 1, s |-> t, size |-> 0, lit |-> TRUE, h |-> HashOf(t)]
                   /\ r2 = [gc |-> 2, s |-> t, size |-> 0, lit |-> TRUE, h |-> HashOf(t)]
    OBVIOUS
  <2>2. HashOf(t) \in Hashes
    BY <1>2 DEF Hashes
  <2>3. r \in Object /\ r.gc = 1 /\ r.s = t /\ Roomy(r) /\ Honest(r)
    BY <1>2, <2>2 DEF Object, Roomy, Honest
  <2>11. r2 \in Object /\ r2.gc = 2 /\ SameBody(r2, r)
    BY <1>2, <2>2 DEF Object, SameBody
  <2> PICK os1, vs1 : os1 = [obj EXCEPT ![f] = r] /\ vs1 = [var EXCEPT ![v] = f]
    OBVIOUS
  <2>4. Sound(os1, vs1, cache) /\ Gets(obj, var, os1, vs1, v, r.s)
    BY <1>1, <2>1, <2>3, PlaceStep
  <2>5. /\ os1[f] = r /\ \A q \in Obj : q # f => os1[q] = os[q]
        /\ os1 \in [Obj -> Object]
    BY <1>1, <2>1, <2>3
  <2>6. NoneLike(os1, c, os1[f].s)
    <3> SUFFICES ASSUME NEW e \in c, os1[e.k].s = t PROVE FALSE
      BY <2>3, <2>5 DEF NoneLike
    <3>1. e.k # f /\ e.k \in Obj
      <4>1. \A d \in c : d.k # f
        BY <1>1, <2>1, NobodyHolds
      <4> QED BY <1>1, <4>1
    <3>2. os[e.k].s = t
      BY <2>5, <3>1
    <3>3. e.h = HashOf(t)
      BY <1>1, <3>2 DEF Sound, Exact
    <3> QED BY <1>5, <3>2, <3>3 DEF CachedAs
  <2> PICK os2, e : os2 = Counts(os1, f) /\ e = Filing(os1, f)
    OBVIOUS
  <2>7. Sound(os2, vs1, c \cup {e}) /\ Unseen(os1, vs1, os2, vs1)
    BY <2>1, <2>4, <2>6, FilesKeep
  <2>8. os2 = [os EXCEPT ![f] = r2]
    <3> PICK r3 : r3 = [r EXCEPT !.gc = r.gc + 1]
      OBVIOUS
    <3>1. r3 \in Object /\ r3.gc = 2 /\ SameBody(r3, r)
      <4>1. More(r, r3)
        BY <2>3, MoreFacts
      <4> QED BY <2>3, <4>1 DEF More
    <3>2. SameBody(r2, r3)
      BY <2>11, <3>1 DEF SameBody
    <3>3. r2 = r3
      BY <2>11, <3>1, <3>2, SameRecord
    <3>4. os2 = [os1 EXCEPT ![f] = r3]
      BY <2>1, <2>5 DEF Counts
    <3> QED BY <1>1, <2>1, <2>5, <3>3, <3>4
  <2>9. obj' = os2 /\ var' = vs1 /\ cache' = c \cup {e}
    <3>1. e = [h |-> HashOf(t), k |-> f]
      BY <2>3, <2>5 DEF Filing
    <3>2. /\ obj' = [os EXCEPT ![f] = r2] /\ var' = vs1
          /\ cache' = c \cup {[h |-> HashOf(t), k |-> f]}
      BY <1>5 DEF CacheGet
    <3> QED BY <2>8, <3>1, <3>2
  <2>10. Gets(obj, var, os2, vs1, v, t)
    <3>1. Gets(obj, var, os1, vs1, v, t)
      BY <2>3, <2>4
    <3> QED BY <2>7, <3>1, GetsThen
  <2> QED BY <1>1, <2>7, <2>9, <2>10 DEF Stepped
<1>6. Len(t) \in Nat /\ CacheMax \in Nat
  BY <1>2, StringsAssumption
<1> QED BY <1>3, <1>4, <1>5, <1>6

(* A variable's string is replaced by the one of the cache, or goes into it.  *)
LEMMA CacheReplaceStep ==
  ASSUME StringsSound, NEW v \in Var, CacheReplace(v)
  PROVE  StillSound
<1> PICK os, vs, c, o : os = obj /\ vs = var /\ c = cache /\ o = var[v]
  OBVIOUS
<1>1. /\ Sound(os, vs, c) /\ os \in [Obj -> Object] /\ vs \in [Var -> Obj \cup {NULL}]
      /\ c \subseteq [h : Hashes, k : Obj] /\ o \in Obj /\ vs[v] = o /\ o # NULL
  BY DEF StringsSound, Sound, Typed, CacheReplace
<1> PICK os1 : os1 = [os EXCEPT ![o] = Hashed(os[o])]
  OBVIOUS
<1> PICK x : x = Hashed(os[o])
  OBVIOUS
<1>2. /\ Sound(os1, vs, c) /\ Unseen(os, vs, os1, vs)
      /\ os1[o].h = HashOf(os[o].s) /\ \A p \in Obj : os1[p].s = os[p].s
  <2>1. Rehashed(os, vs, c, o, os1)
    BY <1>1, HashesKeep
  <2> QED BY <2>1 DEF Rehashed
<1>3. os1 \in [Obj -> Object] /\ os1[o] = x /\ x \in Object
  BY <1>1, <1>2 DEF Sound, Typed
<1>4. x.h = HashOf(os[o].s) /\ x.s = os[o].s
  BY <1>1, <1>2, <1>3
<1>5. CASE CachedLike(obj[var[v]]) # {}
  <2>1. PICK e \in CachedLike(obj[var[v]]) :
          /\ var' = [vs EXCEPT ![v] = e.k]
          /\ obj' = [Drop([obj EXCEPT ![var[v]] = Hashed(obj[var[v]])], var[v])
                       EXCEPT ![e.k].gc = @ + 1]
          /\ cache' = c
    BY <1>5 DEF CacheReplace
  <2> PICK k : k = e.k
    OBVIOUS
  <2>2. e \in c /\ k \in Obj /\ os[k].s = os[o].s
    BY <1>1, <1>4 DEF CachedLike, IfEqual
  <2> PICK os2 : os2 = Drop(os1, vs[v])
    OBVIOUS
  <2> PICK vs2 : vs2 = [vs EXCEPT ![v] = NULL]
    OBVIOUS
  <2>3. /\ Sound(os2, vs2, c) /\ Gets(os1, vs, os2, vs2, v, <<0>>)
        /\ \A d \in c : os2[d.k].s = os1[d.k].s
    <3>1. vs[v] # NULL /\ Sound(os1, vs, c)
      BY <1>1, <1>2
    <3>2. Dropped(os1, vs, c, v, os2, vs2)
      BY <3>1, DropKeeps
    <3> QED BY <3>2 DEF Dropped
  <2>4. vs2[v] = NULL /\ vs2 \in [Var -> Obj \cup {NULL}]
    BY <1>1
  <2> PICK os3 : os3 = [os2 EXCEPT ![k].gc = @ + 1]
    OBVIOUS
  <2> PICK vs3 : vs3 = [vs2 EXCEPT ![v] = k]
    OBVIOUS
  <2>5. Sound(os3, vs3, c) /\ Gets(os2, vs2, os3, vs3, v, os2[k].s)
    <3>1. Shared(os2, vs2, c, v, k, os3, vs3)
      BY <2>2, <2>3, <2>4, SharesKeep
    <3> QED BY <3>1 DEF Shared
  <2>6. os2[k].s = os[o].s
    BY <1>2, <2>2, <2>3
  <2>7. vs3 = [vs EXCEPT ![v] = k]
    BY <1>1, <2>4
  <2>8. obj' = os3 /\ var' = vs3 /\ cache' = c
    BY <1>1, <2>1, <2>7
  <2>9. Unseen(os, vs, os3, vs3)
    <3>1. TextOf(os, vs, v) = os[o].s
      BY <1>1 DEF TextOf
    <3> PICK u : u = os[o].s
      OBVIOUS
    <3>2. u = TextOf(os, vs, v) /\ u = os2[k].s
      BY <2>6, <3>1
    <3>3. Unseen(os, vs, os1, vs)
      BY <1>2
    <3>4. Gets(os1, vs, os2, vs2, v, <<0>>)
      BY <2>3
    <3>5. Gets(os2, vs2, os3, vs3, v, u)
      BY <2>5, <3>2
    <3>6. ASSUME NEW w \in Var, w = v PROVE TextOf(os3, vs3, w) = TextOf(os, vs, w)
      BY ONLY <3>2, <3>5, <3>6 DEF Gets
    <3>7. ASSUME NEW w \in Var, w # v PROVE TextOf(os3, vs3, w) = TextOf(os, vs, w)
      BY ONLY <3>3, <3>4, <3>5, <3>7 DEF Gets, Unseen
    <3> QED BY <3>6, <3>7 DEF Unseen
  <2> QED BY <2>5, <2>8, <2>9 DEF StillSound
<1>6. CASE CachedLike(obj[var[v]]) = {}
  <2>1. NoneLike(os1, c, os1[o].s)
    <3> SUFFICES ASSUME NEW e \in c, os1[e.k].s = os1[o].s PROVE FALSE
      BY DEF NoneLike
    <3>1. e.k \in Obj /\ os[e.k].s = os[o].s
      BY <1>1, <1>2
    <3>2. e.h = HashOf(os[o].s) /\ Honest(os[e.k])
      BY <1>1, <3>1 DEF Sound, Exact
    <3>3. IfEqual(os[e.k], x)
      BY <1>4, <3>1, <3>2 DEF IfEqual, Honest
    <3>4. e \in CachedLike(obj[var[v]])
      BY <1>1, <1>4, <3>2, <3>3 DEF CachedLike
    <3> QED BY <1>6, <3>4
  <2> PICK os2, e : os2 = Counts(os1, o) /\ e = Filing(os1, o)
    OBVIOUS
  <2>2. Sound(os2, vs, c \cup {e}) /\ Unseen(os1, vs, os2, vs)
    BY <1>1, <1>2, <2>1, FilesKeep
  <2>3. e = [h |-> x.h, k |-> o]
    BY <1>3, <1>4 DEF Filing
  <2>4. os2 = [os EXCEPT ![o] = [x EXCEPT !.gc = @ + 1]]
    BY <1>1, <1>3 DEF Counts
  <2>5. obj' = os2 /\ var' = vs /\ cache' = c \cup {e}
    BY <1>6, <2>3, <2>4 DEF CacheReplace
  <2>6. Unseen(os, vs, os2, vs)
    BY <1>2, <2>2 DEF Unseen
  <2> QED BY <2>2, <2>5, <2>6 DEF StillSound
<1> QED BY <1>5, <1>6

(* The cache gives up its entries: each of them drops its count. *)
LEMMA StopStep ==
  ASSUME StringsSound, StopCache
  PROVE  StillSound
<1> PICK os, vs, c, os2 : os = obj /\ vs = var /\ c = cache /\ os2 = obj'
  OBVIOUS
<1>1. /\ os2 = [o \in Obj |-> IF \E e \in c : e.k = o THEN Drop(os, o)[o] ELSE os[o]]
      /\ Sound(os, vs, c) /\ var' = vs /\ cache' = {}
  BY DEF StringsSound, StopCache
<1>2. Sound(os2, vs, {}) /\ Unseen(os, vs, os2, vs)
  BY <1>1, StopsKeep
<1> QED BY <1>1, <1>2 DEF StillSound

(* AddString shares or adds behind.                                           *)
LEMMA AddStringStep ==
  ASSUME StringsSound, NEW v \in Var, NEW w \in Var, AddString(v, w)
  PROVE  Stepped(v, Text(v) \o Text(w)) /\ var[w] # NULL
<1>1. Text(v) \in Seq(Char) /\ Text(w) \in Seq(Char)
  BY TextFacts
<1>2. CASE var[v] = NULL
  <2>1. Stepped(v, TextOf(obj, var, w)) /\ var[w] # NULL
    BY <1>2, CopyStep DEF AddString
  <2>2. TextOf(obj, var, w) = Text(w) /\ Text(v) = <<>>
    BY <1>2, <2>1 DEF Text, TextOf
  <2>3. <<>> \o Text(w) = Text(w)
    BY <1>1
  <2> QED BY <2>1, <2>2, <2>3
<1>3. CASE var[v] # NULL
  <2>1. AddChars(v, Text(w)) /\ var[w] # NULL
    BY <1>3 DEF AddString
  <2> QED BY <1>1, <2>1, AddCharsStep
<1> QED BY <1>2, <1>3
-----------------------------------------------------------------------------
(* The invariant.                                                             *)

(* What is sound is counted, hashed and has room.                             *)
LEMMA SoundHolds ==
  ASSUME StringsSound, fault # "room"
  PROVE  OwnersCounted /\ HashHonest /\ RoomEnough
BY DEF StringsSound, Sound, Owned, Held, Filed, Honest, Roomy,
       OwnersCounted, HashHonest, RoomEnough

(* It holds before the first string.                                          *)
LEMMA StringsInvInit ==
  ASSUME Init
  PROVE  StringsInv
<1> PICK os, vs, c : os = obj /\ vs = var /\ c = cache
  OBVIOUS
<1>1. os = [o \in Obj |-> Unused] /\ vs = [v \in Var |-> NULL] /\ c = {}
  BY DEF Init
<1>2. Unused \in Object /\ Unused.gc = 0 /\ Unused.h = 0 /\ Unused.s = <<>> /\ Unused.size = 0
  BY DEF Unused, Object, Hashes
<1> PICK x : x = Unused
  OBVIOUS
<1>3. \A o \in Obj : os[o] = x
  BY <1>1
<1>4. x \in Object /\ x.gc = 0 /\ Honest(x) /\ Roomy(x)
  BY <1>2 DEF Honest, Roomy
<1>5. Typed(os, vs, c)
  BY <1>1, <1>4, FS_EmptySet DEF Typed
<1>6. Owned(os, vs, c)
  <2> SUFFICES ASSUME NEW o \in Obj
               PROVE  os[o].gc = Cardinality(Held(vs, o)) + Cardinality(Filed(c, o))
    BY DEF Owned
  <2>1. Held(vs, o) = {} /\ Filed(c, o) = {}
    BY <1>1, StringsAssumption DEF Held, Filed, NULL
  <2>2. Cardinality({}) = 0
    BY FS_EmptySet
  <2> QED BY <1>3, <1>4, <2>1, <2>2
<1>7. Exact(os, c)
  BY <1>1 DEF Exact
<1>8. StringsSound
  BY <1>3, <1>4, <1>5, <1>6, <1>7 DEF StringsSound, Sound
<1>9. fault = "none"
  BY DEF Init
<1> QED BY <1>8, <1>9, SoundHolds DEF StringsInv

(* Every operation, by what it does to the texts.                             *)
LEMMA NextSteps ==
  ASSUME StringsSound, Next
  PROVE  \/ fault' # "none" /\ Broke
         \/ StillSound
         \/ \E v \in Var : Stepped(v, <<>>) /\ (var[v] # NULL \/ New(v))
         \/ \E v \in Var : Stepped(v, <<0>>)
         \/ \E v \in Var : Stepped(v, Upper(Text(v)))
         \/ \E v \in Var, t \in Literal : Stepped(v, Text(v) \o t)
         \/ \E v \in Var, t \in Literal : Stepped(v, t) /\ var[v] = NULL
         \/ \E v, w \in Var : Stepped(v, TextOf(obj, var, w)) /\ var[w] # NULL /\ var[v] = NULL
         \/ \E v, w \in Var : Stepped(v, Text(v) \o Text(w)) /\ var[w] # NULL
         \/ \E v \in Var, a, b \in 0 .. MaxLen :
              a < b /\ a <= Len(Text(v)) /\ Stepped(v, Cut(Text(v), a, b))
<1>1. ASSUME StopCache PROVE StillSound
  BY <1>1, StopStep
<1>2. ASSUME NEW v \in Var, New(v) PROVE Stepped(v, <<>>)
  BY <1>2, NewStep
<1>3. ASSUME NEW v \in Var, Free(v) PROVE Stepped(v, <<0>>)
  BY <1>3, FreeStep
<1>4. ASSUME NEW v \in Var, Clear(v) PROVE Stepped(v, <<>>) /\ var[v] # NULL
  BY <1>4, ClearStep DEF Clear
<1>5. ASSUME NEW v \in Var, ToUpperCase(v) PROVE Stepped(v, Upper(Text(v)))
  BY <1>5, UpperStep
<1>6. ASSUME NEW v \in Var, Hash(v) PROVE StillSound
  BY <1>6, HashStep
<1>7. ASSUME NEW v \in Var, CacheReplace(v) PROVE StillSound
  BY <1>7, CacheReplaceStep
<1>8. ASSUME NEW v \in Var, NEW t \in Literal, AddChars(v, t) PROVE Stepped(v, Text(v) \o t)
  BY <1>8, LiteralTyped, AddCharsStep
<1>9. ASSUME NEW v \in Var, NEW t \in Literal, AddConst(v, t)
      PROVE  Stepped(v, Text(v) \o t) \/ (fault' # "none" /\ Broke)
  <2>1. CASE fault' = "none"
    BY <1>9, <2>1, AddConstStep
  <2>2. CASE fault' # "none" /\ ~ HasText(v)
    BY <1>9, <2>2, AddConstBreaks
  <2>3. CASE HasText(v)
    <3>1. AddChars(v, t)
      BY <1>9, <2>3 DEF AddConst
    <3> QED BY <3>1, LiteralTyped, AddCharsStep
  <2> QED BY <2>1, <2>2, <2>3
<1>10. ASSUME NEW v \in Var, NEW t \in Literal, CacheGet(v, t)
       PROVE  Stepped(v, t) /\ var[v] = NULL
  <2>1. Stepped(v, t)
    BY <1>10, CacheGetStep
  <2> QED BY <1>10, <2>1 DEF CacheGet
<1>11. ASSUME NEW v \in Var, NEW w \in Var, Copy(v, w)
       PROVE  Stepped(w, TextOf(obj, var, v)) /\ var[v] # NULL /\ var[w] = NULL
  BY <1>11, CopyStep
<1>12. ASSUME NEW v \in Var, NEW w \in Var, AddString(v, w)
       PROVE  Stepped(v, Text(v) \o Text(w)) /\ var[w] # NULL
  BY <1>12, AddStringStep
<1>13. ASSUME NEW v \in Var, NEW a \in 0 .. MaxLen, NEW b \in 0 .. MaxLen, Delete(v, a, b)
       PROVE  \/ a < b /\ a <= Len(Text(v)) /\ Stepped(v, Cut(Text(v), a, b))
              \/ fault' # "none" /\ Broke
  <2>1. CASE a <= Len(Text(v))
    BY <1>13, <2>1, DeleteStep DEF Delete
  <2>2. CASE a > Len(Text(v))
    BY <1>13, <2>2, DeleteBreaks DEF Broke
  <2>3. Len(Text(v)) \in Nat /\ a \in Int
    BY TextFacts, StringsAssumption
  <2> QED BY <2>1, <2>2, <2>3
<1> QED BY <1>1, <1>2, <1>3, <1>4, <1>5, <1>6, <1>7, <1>8, <1>9, <1>10, <1>11, <1>12, <1>13
     DEF Next

(* The model goes on only while nothing is broken, and no step copies behind  *)
(* the memory it asked for but those that say so.                             *)
LEMMA NoteNext ==
  ASSUME StringsSound, Next
  PROVE  fault = "none" /\ fault' # "room"
<1>1. ASSUME NEW v \in Var, NEW k \in Nat, Noted("room", Overruns(v, Len(Text(v)) + k))
      PROVE  fault = "none" /\ fault' = "none"
  BY <1>1, Fits DEF Noted
<1>2. ASSUME NEW v \in Var, Noted("room", Overruns(v, Len(Text(v))))
      PROVE  fault = "none" /\ fault' = "none"
  <2>1. Len(Text(v)) + 0 = Len(Text(v))
    BY TextFacts
  <2>2. ~ Overruns(v, Len(Text(v)))
    BY <2>1, Fits
  <2> QED BY <1>2, <2>2 DEF Noted
<1>3. ASSUME NEW v \in Var, NEW t \in Seq(Char), AddChars(v, t)
      PROVE  fault = "none" /\ fault' = "none"
  <2>1. Len(t) \in Nat
    OBVIOUS
  <2> QED BY <1>1, <1>3, <2>1 DEF AddChars
<1>4. ASSUME Unbroken PROVE fault = "none" /\ fault' = "none"
  BY <1>4 DEF Unbroken
<1>5. ASSUME StopCache PROVE Unbroken
  BY <1>5 DEF StopCache
<1>6. ASSUME NEW v \in Var, New(v) \/ Free(v) \/ Hash(v) \/ CacheReplace(v) PROVE Unbroken
  BY <1>6 DEF New, Free, Hash, CacheReplace
<1>7. ASSUME NEW v \in Var, Clear(v) PROVE fault = "none" /\ fault' # "room"
  BY <1>7 DEF Clear, Noted
<1>8. ASSUME NEW v \in Var, ToUpperCase(v) PROVE fault = "none" /\ fault' = "none"
  BY <1>2, <1>8 DEF ToUpperCase
<1>9. ASSUME NEW v \in Var, NEW t \in Literal, AddConst(v, t)
      PROVE  fault = "none" /\ fault' # "room"
  <2>1. CASE HasText(v)
    <3>1. AddChars(v, t)
      BY <1>9, <2>1 DEF AddConst
    <3> QED BY <1>3, <3>1, LiteralTyped
  <2>2. CASE ~ HasText(v)
    BY <1>9, <2>2 DEF AddConst, Noted
  <2> QED BY <2>1, <2>2
<1>10. ASSUME NEW v \in Var, NEW t \in Literal, CacheGet(v, t) PROVE Unbroken
  BY <1>10 DEF CacheGet
<1>11. ASSUME NEW v \in Var, NEW w \in Var, Copy(v, w) PROVE Unbroken
  BY <1>11 DEF Copy
<1>12. ASSUME NEW v \in Var, NEW w \in Var, AddString(v, w)
       PROVE  fault = "none" /\ fault' = "none"
  <2>1. CASE var[v] = NULL
    BY <1>4, <1>11, <1>12, <2>1 DEF AddString
  <2>2. CASE var[v] # NULL
    <3>1. Text(w) \in Seq(Char) /\ AddChars(v, Text(w))
      BY <1>12, <2>2, TextFacts DEF AddString
    <3> QED BY <1>3, <3>1
  <2> QED BY <2>1, <2>2
<1>13. ASSUME NEW v \in Var, NEW a \in 0 .. MaxLen, NEW b \in 0 .. MaxLen, Delete(v, a, b)
       PROVE  fault = "none" /\ fault' # "room"
  <2>1. CASE a > Len(Text(v))
    BY <1>13, <2>1 DEF Delete, Noted
  <2>2. CASE ~ (a > Len(Text(v)))
    BY <1>2, <1>13, <2>2 DEF Delete
  <2> QED BY <2>1, <2>2
<1>14. ASSUME NEW v \in Var, NEW t \in Literal, AddChars(v, t)
       PROVE  fault = "none" /\ fault' = "none"
  BY <1>3, <1>14, LiteralTyped
<1> QED BY <1>4, <1>5, <1>6, <1>7, <1>8, <1>9, <1>10, <1>11, <1>12, <1>13, <1>14 DEF Next

(* What a breach leaves.                                                      *)
LEMMA BrokeHolds ==
  ASSUME Broke
  PROVE  OwnersCounted' /\ HashHonest' /\ RoomEnough'
<1>1. OwnersCounted' /\ HashHonest'
  BY DEF Broke, Counted, Owned, Held, Filed, Honest, OwnersCounted, HashHonest
<1>2. RoomEnough'
  BY DEF Broke, Roomy, RoomEnough
<1> QED BY <1>1, <1>2

(* It is kept by every step.                                                  *)
LEMMA StringsInvNext ==
  ASSUME StringsInv, [Next]_vars
  PROVE  StringsInv'
<1>1. CASE Next
  <2>1. StringsSound /\ fault' # "room"
    <3>1. fault = "none"
      BY <1>1 DEF Next, New, Free, Copy, AddChars, AddConst, AddString, Clear, ToUpperCase, Delete,
                  Hash, CacheGet, CacheReplace, StopCache, Noted, Unbroken
    <3> QED BY <1>1, <3>1, NoteNext DEF StringsInv
  <2>2. StringsSound' \/ (fault' # "none" /\ Broke)
    BY <1>1, <2>1, NextSteps DEF Stepped, StillSound, StringsSound
  <2>3. CASE StringsSound'
    <3>1. OwnersCounted' /\ HashHonest' /\ RoomEnough'
      BY <2>1, <2>3 DEF StringsSound, Sound, Owned, Held, Filed, Honest, Roomy,
                        OwnersCounted, HashHonest, RoomEnough
    <3> QED BY <2>3, <3>1 DEF StringsInv
  <2>4. CASE fault' # "none" /\ Broke
    BY <2>4, BrokeHolds DEF StringsInv
  <2> QED BY <2>2, <2>3, <2>4
<1>2. CASE UNCHANGED vars
  BY <1>2 DEF vars, StringsInv, StringsSound, OwnersCounted, HashHonest, RoomEnough
<1> QED BY <1>1, <1>2

(* In every state of jbl_string.c the counts and the kept hashes are right,   *)
(* whatever is called; until a call clears a long text that is shared or a    *)
(* literal, adds a literal to an empty text that is shared, or deletes from   *)
(* behind the end, the texts have room and the cache is exact, too.           *)
THEOREM StringsStaySound == Spec => []StringsInv
<1>1. Init => StringsInv
  BY StringsInvInit
<1>2. StringsInv /\ [Next]_vars => StringsInv'
  BY StringsInvNext
<1> QED BY <1>1, <1>2, PTL DEF Spec

(* The count of a string is the number of variables and cache entries that    *)
(* hold it: none is freed under an owner, and none is left behind             *)
(* (jbl_string_copy, _free, _extend_to, _cache_replace, _stop).               *)
THEOREM CountsAreOwners == Spec => []OwnersCounted
<1>1. StringsInv => OwnersCounted
  BY DEF StringsInv
<1> QED BY <1>1, StringsStaySound, PTL

(* A hash kept in a string is that of its text: whoever writes clears it      *)
(* (jbl_string_hash, jbl_string_hash_clear).                                  *)
THEOREM HashesStayRight == Spec => []HashHonest
<1>1. StringsInv => HashHonest
  BY DEF StringsInv
<1> QED BY <1>1, StringsStaySound, PTL

(* What is added, changed to upper case or deleted is copied and written      *)
(* within the memory jbl_string_extend_to asked for; whatever leaves it is    *)
(* jbl_string_clear of a text that is shared or a literal, or                 *)
(* jbl_string_delete from behind the end.                                     *)
THEOREM TextsHaveRoom == Spec => []RoomEnough
<1>1. StringsInv => RoomEnough
  BY DEF StringsInv
<1> QED BY <1>1, StringsStaySound, PTL

(* The cache has one entry for a text, under its hash: nobody changes a text  *)
(* the cache holds (jbl_string_cache_get, jbl_string_cache_replace), until    *)
(* one of the three breaches; the one that can is jbl_string_add_const of a   *)
(* literal to the empty text.                                                 *)
THEOREM CacheStaysExact == Spec => []CacheExact
<1>1. StringsInv => CacheExact
  BY DEF StringsInv, StringsSound, Sound, Exact, CacheExact
<1> QED BY <1>1, StringsStaySound, PTL
-----------------------------------------------------------------------------
(* What one variable does is not seen by another.                             *)

Texts1 == [v \in Var |-> TextOf(obj, var, v)]

(* The texts that module Texts sees, before and after a step.                 *)
LEMMA TextsSeen ==
  ASSUME NEW v \in Var, NEW t, Gets(obj, var, obj', var', v, t)
  PROVE  Texts1' = [Texts1 EXCEPT ![v] = t]
<1>1. Texts1' = [w \in Var |-> TextOf(obj', var', w)]
  BY DEF Texts1, TextOf
<1> PICK f, g : f = Texts1 /\ g = Texts1'
  OBVIOUS
<1>2. \A w \in Var : f[w] = TextOf(obj, var, w) /\ g[w] = TextOf(obj', var', w)
  BY <1>1 DEF Texts1
<1>3. g = [w \in Var |-> g[w]] /\ f = [w \in Var |-> f[w]]
  BY <1>1, <1>2 DEF Texts1
<1>4. \A w \in Var : g[w] = IF w = v THEN t ELSE f[w]
  BY <1>2 DEF Gets
<1> QED BY <1>3, <1>4

(* A text and the empty one of a variable without a string.                   *)
LEMMA TextOrEmpty ==
  ASSUME StringsSound, NEW v \in Var
  PROVE  /\ Texts1[v] = TextOf(obj, var, v)
         /\ Promised!OrEmpty(TextOf(obj, var, v)) = Text(v)
         /\ TextOf(obj, var, v) = <<0>> <=> var[v] = NULL
         /\ Text(v) \in Seq(Char)
<1>1. Texts1[v] = TextOf(obj, var, v)
  BY DEF Texts1
<1>2. Text(v) \in Seq(Char)
  BY TextFacts
<1>3. Text(v) # <<0>>
  <2>1. ASSUME Text(v) = << 0 >> PROVE FALSE
    <3>1. <<0>>[1] \in Char
      BY <1>2, <2>1
    <3> QED BY <3>1 DEF Char
  <2> QED BY <2>1
<1> QED BY <1>1, <1>2, <1>3 DEF Text, TextOf, Promised!OrEmpty, Promised!NONE

(* A step that gives v a text, as module Texts says it.                       *)
LEMMA SteppedBecomes ==
  ASSUME NEW v \in Var, NEW t, Stepped(v, t)
  PROVE  Promised!Becomes(v, t)
<1>1. Texts1' = [Texts1 EXCEPT ![v] = t]
  BY TextsSeen DEF Stepped
<1>2. Texts1 = TextOfVar
  BY DEF Texts1, TextOf, TextOfVar
<1>3. Texts1' = TextOfVar'
  BY DEF Texts1, TextOf, TextOfVar
<1> QED BY <1>1, <1>2, <1>3 DEF Promised!Becomes, TextOfVar

(* A step that changes no text is none of module Texts.                       *)
LEMMA StillStutters ==
  ASSUME StillSound
  PROVE  Texts1' = Texts1
<1>1. Texts1' = [w \in Var |-> TextOf(obj', var', w)]
  BY DEF Texts1, TextOf
<1> QED BY <1>1 DEF StillSound, Unseen, Texts1

(* The text of v as module Texts has it.                                      *)
LEMMA PromisedText ==
  ASSUME NEW v \in Var
  PROVE  TextOfVar[v] = TextOf(obj, var, v)
BY DEF TextOf, TextOfVar

(* Every step that breaks nothing is one of module Texts, or none.            *)
LEMMA TextsNext ==
  ASSUME StringsSound, Next, fault' = "none"
  PROVE  Promised!Next \/ Texts1' = Texts1
<1>1. ASSUME NEW v \in Var, Stepped(v, <<>>), var[v] # NULL \/ New(v) PROVE Promised!Next
  <2>1. Promised!Becomes(v, <<>>)
    BY <1>1, SteppedBecomes
  <2>2. CASE var[v] # NULL
    <3>1. TextOf(obj, var, v) # Promised!NONE
      BY <2>2, TextOrEmpty DEF Promised!NONE
    <3> QED BY <2>1, <3>1, PromisedText DEF Promised!Next, TextOfVar
  <2>3. CASE New(v)
    <3>1. TextOf(obj, var, v) = Promised!NONE
      BY <2>3, TextOrEmpty DEF Promised!NONE, New
    <3>2. Promised!New(v)
      BY <2>1, <3>1, PromisedText DEF Promised!New, TextOfVar
    <3> QED BY <3>2 DEF Promised!Next
  <2> QED BY <1>1, <2>2, <2>3
<1>2. ASSUME NEW v \in Var, Stepped(v, << 0 >>) PROVE Promised!Next
  BY <1>2, SteppedBecomes DEF Promised!Next, Promised!NONE
<1>3. ASSUME NEW v \in Var, Stepped(v, Upper(Text(v))) PROVE Promised!Next
  <2> PICK y : y = Upper(Text(v))
    OBVIOUS
  <2>1. Promised!Becomes(v, y)
    <3>1. Stepped(v, y)
      BY <1>3
    <3> QED BY <3>1, SteppedBecomes
  <2>2. y = Upper(Promised!OrEmpty(TextOfVar[v]))
    BY TextOrEmpty, PromisedText
  <2>3. Promised!Changed(v)
    BY <2>1, <2>2 DEF Promised!Changed, Promised!Becomes, TextOfVar
  <2> QED BY <2>3 DEF Promised!Next
<1>4. ASSUME NEW v \in Var, NEW t, t # << 0 >>, Stepped(v, Text(v) \o t) PROVE Promised!Add(v, t)
  <2> PICK y : y = Text(v) \o t
    OBVIOUS
  <2>1. Promised!Becomes(v, y)
    <3>1. Stepped(v, y)
      BY <1>4
    <3> QED BY <3>1, SteppedBecomes
  <2>2. y = Promised!OrEmpty(TextOfVar[v]) \o t
    BY TextOrEmpty, PromisedText
  <2> QED BY <1>4, <2>1, <2>2 DEF Promised!Add, Promised!Becomes, Promised!NONE, TextOfVar
<1>5. ASSUME NEW v \in Var, NEW t \in Literal, Stepped(v, Text(v) \o t) PROVE Promised!Next
  <2>1. t # <<0>>
    BY StringsAssumption
  <2>2. Promised!Add(v, t)
    BY <1>4, <1>5, <2>1
  <2> QED BY <2>2 DEF Promised!Next
<1>6. ASSUME NEW v \in Var, NEW t, Stepped(v, t), var[v] = NULL PROVE Promised!Take(v, t)
  <2>1. TextOf(obj, var, v) = Promised!NONE
    BY <1>6, TextOrEmpty DEF Promised!NONE
  <2>2. Promised!Becomes(v, t)
    BY <1>6, SteppedBecomes
  <2> QED BY <2>1, <2>2, PromisedText DEF Promised!Take, TextOfVar
<1>7. ASSUME NEW v \in Var, NEW t \in Literal, Stepped(v, t), var[v] = NULL PROVE Promised!Next
  <2>1. Promised!Take(v, t)
    BY <1>6, <1>7
  <2> QED BY <2>1 DEF Promised!Next
<1>8. ASSUME NEW v \in Var, NEW w \in Var, Stepped(v, TextOf(obj, var, w)), var[v] = NULL
      PROVE  Promised!Next
  <2>1. Promised!Take(v, TextOf(obj, var, w))
    BY <1>6, <1>8
  <2> QED BY <2>1, PromisedText DEF Promised!Next, TextOfVar
<1>9. ASSUME NEW v \in Var, NEW w \in Var, Stepped(v, Text(v) \o Text(w)), var[w] # NULL
      PROVE  Promised!Next
  <2>1. TextOf(obj, var, w) # <<0>> /\ TextOf(obj, var, w) = Text(w)
    BY <1>9, TextOrEmpty DEF TextOf, Text
  <2>2. Promised!Add(v, TextOf(obj, var, w))
    BY <1>4, <1>9, <2>1
  <2> QED BY <2>2, PromisedText DEF Promised!Next, TextOfVar
<1>10. ASSUME NEW v \in Var, NEW a \in 0 .. MaxLen, NEW b \in 0 .. MaxLen,
              a < b, a <= Len(Text(v)), Stepped(v, Cut(Text(v), a, b))
       PROVE  Promised!Next
  <2> PICK n : n = Len(Text(v))
    OBVIOUS
  <2>1. Text(v) \in Seq(Char) /\ n \in Nat /\ a \in Nat /\ b \in Nat
    BY TextOrEmpty, StringsAssumption
  <2> PICK d : d = IF b <= n THEN b ELSE n + 1
    OBVIOUS
  <2>2. a \in 0 .. n /\ d \in 0 .. n + 1 /\ a < d
    BY <1>10, <2>1
  <2> PICK y : y = Cut(Text(v), a, b)
    OBVIOUS
  <2>3. y = Cut(Text(v), a, d)
    <3>1. CASE b <= n
      BY <3>1
    <3>2. CASE b > n
      <4> PICK x : x = Text(v)
        OBVIOUS
      <4>1. d = n + 1 /\ x \in Seq(Char)
        BY <2>1, <3>2
      <4>2. SubSeq(x, b + 1, n) = <<>> /\ SubSeq(x, n + 1 + 1, n) = <<>>
        BY <2>1, <3>2, <4>1
      <4> QED BY <4>1, <4>2 DEF Cut
    <3> QED BY <2>1, <3>1, <3>2
  <2>4. Promised!Becomes(v, y)
    <3>1. Stepped(v, y)
      BY <1>10
    <3> QED BY <3>1, SteppedBecomes
  <2>5. Promised!OrEmpty(TextOfVar[v]) = Text(v)
    BY TextOrEmpty, PromisedText
  <2>6. y = Promised!Sub(Promised!OrEmpty(TextOfVar[v]), a, d)
    BY <2>3, <2>5 DEF Promised!Sub, Cut
  <2>7. Promised!Delete(v, a, d)
    BY <2>4, <2>6 DEF Promised!Delete, Promised!Becomes
  <2>8. n = Len(Promised!OrEmpty(TextOfVar[v]))
    BY <2>5
  <2> QED BY <2>2, <2>7, <2>8 DEF Promised!Next
<1>11. ASSUME StillSound PROVE Texts1' = Texts1
  BY <1>11, StillStutters
<1> QED BY NextSteps, <1>1, <1>2, <1>3, <1>5, <1>7, <1>8, <1>9, <1>10, <1>11

(* Strings that share objects, literals and cached strings underneath give    *)
(* every variable a text of its own (module Texts): every call does what is   *)
(* promised for one variable and leaves the others alone, but for the three   *)
(* that break it.                                                             *)
THEOREM TextsAreOwn == Spec => ImplementsTexts
<1>1. Init => Promised!Init
  BY DEF Init, Promised!Init, Promised!NONE, TextOfVar
<1>2. ASSUME StringsInv, [Next]_vars, fault' = "none"
      PROVE  Promised!Next \/ Texts1' = Texts1
  <2>1. CASE UNCHANGED vars
    BY <2>1 DEF vars, Texts1, TextOf
  <2>2. CASE Next
    <3>1. fault = "none"
      BY <2>2 DEF Next, New, Free, Copy, AddChars, AddConst, AddString, Clear, ToUpperCase, Delete,
                  Hash, CacheGet, CacheReplace, StopCache, Noted, Unbroken
    <3> QED BY <1>2, <2>2, <3>1, TextsNext DEF StringsInv
  <2> QED BY <1>2, <2>1, <2>2
<1>3. Texts1 = TextOfVar
  BY DEF Texts1, TextOf, TextOfVar
<1>4. Texts1' = TextOfVar'
  BY DEF Texts1, TextOf, TextOfVar
<1>5. ASSUME StringsInv, [Next]_vars PROVE [fault' = "none" => Promised!Next]_TextOfVar
  BY <1>2, <1>3, <1>4, <1>5
<1>6. ImplementsTexts <=> Promised!Init /\ [][fault' = "none" => Promised!Next]_TextOfVar
  BY DEF ImplementsTexts
<1>7. Spec => Promised!Init /\ [][fault' = "none" => Promised!Next]_TextOfVar
  BY <1>1, <1>5, StringsStaySound, PTL DEF Spec
<1> QED BY <1>6, <1>7
=============================================================================
