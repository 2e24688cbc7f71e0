-------------------------- MODULE HashTableProofs --------------------------
(* One hash table is kept as a table, for any keys, hashes and sizes: each    *)
(* chain meets all the entries of its class and nothing else, who shares the  *)
(* table goes on seeing what it saw, and the table implements the abstract    *)
(* map - until a key that a sys table has is unset or given a new value.      *)
EXTENDS HashTable, CommonProofs, FiniteSetTheorems, SequenceTheorems

(* The slots in use, and those of a class.                                    *)
Used(t) == {i \in 0 .. (t.nxt - 1) : t.slot[i].v # NULL}
Members(t, c) == {i \in Used(t) : Class(t, t.slot[i].key) = c}

(* x is the highest of S below i, or END if there is none.                    *)
Prior(S, i, x) ==
  \/ x = END /\ \A j \in S : ~ (j < i)
  \/ x \in S /\ x < i /\ \A j \in S : j < i => j <= x

Shape(t) == t = [own |-> t.own, size |-> t.size, len |-> t.len, nxt |-> t.nxt,
                 slot |-> t.slot, head |-> t.head]
Typed(t) ==
  /\ Shape(t)
  /\ t.own \in BOOLEAN /\ t.size \in 0 .. MaxSize /\ t.nxt \in 0 .. t.size
  /\ t.slot \in [0 .. (t.size - 1) -> [key : Key, v : Val, nxt : Nat] \cup {Blank}]
  /\ t.head \in [0 .. (t.size - 1) -> Nat]
Behind(t) == \A i \in t.nxt .. (t.size - 1) : t.slot[i] = Blank
HeadsRight(t) == \A c \in 0 .. (t.size - 1) : Prior(Members(t, c), t.nxt, t.head[c])
LinksRight(t) ==
  \A i \in Used(t) : Prior(Members(t, Class(t, t.slot[i].key)), i, t.slot[i].nxt)
OneEach(t) == \A i, j \in Used(t) : t.slot[i].key = t.slot[j].key => i = j
Counted(t) == t.len = Cardinality(Used(t))

(* What a table is between two calls.                                         *)
Good(t) == /\ Typed(t) /\ Behind(t) /\ HeadsRight(t) /\ LinksRight(t)
           /\ OneEach(t) /\ Counted(t)
Holds(t, k, v) == \E i \in Used(t) : t.slot[i].key = k /\ t.slot[i].v = v
SameEntries(t, u) == \A k \in Key, v \in Val : Holds(t, k, v) <=> Holds(u, k, v)

HtInv == Good(This) /\ (~own => Contents = frozen)

(* The class of a key is a chain of the table.                                *)
LEMMA ClassIs ==
  ASSUME NEW t, t.size \in Nat \ {0}, NEW k \in Key
  PROVE  Class(t, k) \in 0 .. (t.size - 1)
<1>1. k.h \in Nat
  BY HashTableAssumption
<1> QED BY <1>1 DEF Class

(* Tables of one size have the same classes.                                  *)
LEMMA ClassSame ==
  ASSUME NEW t, NEW u, t.size = u.size, NEW k
  PROVE  Class(t, k) = Class(u, k)
BY DEF Class

(* A slot in use has a key of the program, and is below the fill mark.        *)
LEMMA UsedIs ==
  ASSUME NEW t, Typed(t)
  PROVE  /\ Used(t) \subseteq 0 .. (t.nxt - 1)
         /\ t.nxt \in Nat /\ t.size \in Nat /\ t.nxt <= t.size /\ t.size <= MaxSize
         /\ \A i \in Used(t) :
              /\ i \in Nat /\ i < t.nxt /\ i < t.size /\ i < END
              /\ t.slot[i] \in [key : Key, v : Val, nxt : Nat]
              /\ t.slot[i].key \in Key /\ t.slot[i].v \in Val
              /\ Class(t, t.slot[i].key) \in 0 .. (t.size - 1)
<1>1. MaxSize \in Nat
  BY HashTableAssumption
<1>2. /\ Used(t) \subseteq 0 .. (t.nxt - 1)
      /\ t.nxt \in Nat /\ t.size \in Nat /\ t.nxt <= t.size /\ t.size <= MaxSize
  BY <1>1 DEF Used, Typed
<1>3. ASSUME NEW i \in Used(t)
      PROVE  /\ i \in Nat /\ i < t.nxt /\ i < t.size /\ i < END
             /\ t.slot[i] \in [key : Key, v : Val, nxt : Nat]
             /\ t.slot[i].key \in Key /\ t.slot[i].v \in Val
             /\ Class(t, t.slot[i].key) \in 0 .. (t.size - 1)
  <2>1. i \in Nat /\ i < t.nxt /\ i < t.size /\ i < END
    BY <1>1, <1>2 DEF END
  <2>2. t.slot[i] \in [key : Key, v : Val, nxt : Nat] \cup {Blank} /\ t.slot[i].v # NULL
    BY <1>2, <2>1 DEF Typed, Used
  <2>3. t.slot[i] # Blank
    BY <2>2 DEF Blank
  <2>4. t.slot[i].key \in Key /\ t.slot[i].v \in Val
    BY <2>2, <2>3
  <2>5. t.size \in Nat \ {0}
    BY <1>2, <2>1
  <2> QED BY <2>1, <2>2, <2>3, <2>4, <2>5, ClassIs
<1> QED BY <1>2, <1>3

(* The slots in use are finite in number.                                     *)
LEMMA UsedFinite ==
  ASSUME NEW t, t.nxt \in Nat
  PROVE  /\ IsFiniteSet(Used(t)) /\ Cardinality(Used(t)) \in Nat
         /\ Cardinality(Used(t)) <= t.nxt
<1>1. IsFiniteSet(0 .. (t.nxt - 1)) /\ Cardinality(0 .. (t.nxt - 1)) = t.nxt
  BY FS_Interval
<1>2. Used(t) \in SUBSET (0 .. (t.nxt - 1))
  BY DEF Used
<1>3. IsFiniteSet(Used(t)) /\ Cardinality(Used(t)) <= Cardinality(0 .. (t.nxt - 1))
  BY <1>1, <1>2, FS_Subset
<1> QED BY <1>1, <1>3, FS_CardinalityType

(* What is the highest below a slot depends on what is below it.              *)
LEMMA PriorSame ==
  ASSUME NEW S, NEW T, NEW i, NEW x,
         \A j \in S : j < i => j \in T, \A j \in T : j < i => j \in S,
         Prior(S, i, x)
  PROVE  Prior(T, i, x)
BY DEF Prior

(* With no slot in between, it is the highest below a later one too.          *)
LEMMA PriorUp ==
  ASSUME NEW S \in SUBSET Nat, NEW i \in Nat, NEW k \in Nat, NEW x, i <= k,
         \A j \in S : j < k => j < i,
         Prior(S, i, x)
  PROVE  Prior(S, k, x)
<1>1. \A j \in S : j < i => j < k
  OBVIOUS
<1> QED BY <1>1 DEF Prior

(* A table without slots.                                                     *)
LEMMA TableGood ==
  ASSUME NEW n \in 0 .. MaxSize
  PROVE  /\ Good(Table(n)) /\ Used(Table(n)) = {}
         /\ Table(n).own = TRUE /\ Table(n).nxt = 0 /\ Table(n).size = n
<1> DEFINE t == Table(n)
<1>0. MaxSize \in Nat
  BY HashTableAssumption
<1>1. /\ t.own = TRUE /\ t.size = n /\ t.len = 0 /\ t.nxt = 0
      /\ t.slot = [i \in 0 .. (n - 1) |-> Blank]
      /\ t.head = [i \in 0 .. (n - 1) |-> END]
      /\ Shape(t)
  BY DEF Table, Shape
<1>2. END \in Nat
  BY <1>0 DEF END
<1> HIDE DEF t
<1>3. Used(t) = {}
  BY <1>1 DEF Used
<1>4. Typed(t) /\ Behind(t)
  <2>1. t.slot \in [0 .. (t.size - 1) -> [key : Key, v : Val, nxt : Nat] \cup {Blank}]
    BY <1>1
  <2>2. t.head \in [0 .. (t.size - 1) -> Nat]
    BY <1>1, <1>2
  <2>3. \A i \in t.nxt .. (t.size - 1) : t.slot[i] = Blank
    BY <1>1
  <2>4. n \in Nat /\ 0 \in 0 .. n
    BY <1>0
  <2>5. t.own \in BOOLEAN /\ t.size \in 0 .. MaxSize /\ t.nxt \in 0 .. t.size
    BY <1>1, <2>4
  <2> QED BY <1>1, <2>5, <2>1, <2>2, <2>3 DEF Typed, Behind
<1>5. HeadsRight(t)
  BY <1>1, <1>3 DEF HeadsRight, Members, Prior
<1>6. LinksRight(t) /\ OneEach(t)
  BY <1>3 DEF LinksRight, OneEach
<1>7. Counted(t)
  BY <1>1, <1>3, FS_EmptySet DEF Counted
<1> QED BY <1>1, <1>3, <1>4, <1>5, <1>6, <1>7 DEF Good, t
-----------------------------------------------------------------------------
(* Filling the next slot, field by field.                                     *)
LEMMA LinkIs ==
  ASSUME NEW t, Shape(t), NEW e
  PROVE  /\ Shape(Link(t, e))
         /\ Link(t, e).own = t.own /\ Link(t, e).size = t.size
         /\ Link(t, e).len = t.len + 1 /\ Link(t, e).nxt = t.nxt + 1
         /\ Link(t, e).slot = [t.slot EXCEPT ![t.nxt] =
               [key |-> e.key, v |-> e.v, nxt |-> t.head[Class(t, e.key)]]]
         /\ Link(t, e).head = [t.head EXCEPT ![Class(t, e.key)] = t.nxt]
<1> PICK c, x : c = Class(t, e.key) /\ x = [key |-> e.key, v |-> e.v, nxt |-> t.head[c]]
  OBVIOUS
<1> DEFINE u == [t EXCEPT !.slot[t.nxt] = x, !.head[c] = t.nxt, !.len = @ + 1, !.nxt = @ + 1]
<1>1. Link(t, e) = u
  BY DEF Link
<1>2. u.slot = [t.slot EXCEPT ![t.nxt] = x]
  BY DEF Shape
<1>3. u.head = [t.head EXCEPT ![c] = t.nxt]
  BY DEF Shape
<1>4. u.own = t.own /\ u.size = t.size
  BY DEF Shape
<1>5. u.len = t.len + 1 /\ u.nxt = t.nxt + 1
  BY DEF Shape
<1>6. Shape(u)
  <2> PICK w : w = u
    OBVIOUS
  <2>1. w = [own |-> w.own, size |-> w.size, len |-> w.len, nxt |-> w.nxt,
             slot |-> w.slot, head |-> w.head]
    BY DEF Shape
  <2> HIDE DEF u
  <2> QED BY <2>1 DEF Shape
<1> QED BY <1>1, <1>2, <1>3, <1>4, <1>5, <1>6

(* Those of its fields that hold one value.                                   *)
LEMMA LinkFields ==
  ASSUME NEW t, Shape(t), NEW e
  PROVE  /\ Shape(Link(t, e)) /\ Link(t, e).own = t.own
         /\ Link(t, e).size = t.size /\ Link(t, e).nxt = t.nxt + 1
BY LinkIs

(* A new entry in a table with room: the table stays good, and has one entry  *)
(* more.                                                                      *)
LEMMA LinkGood ==
  ASSUME NEW t, Good(t), t.nxt < t.size,
         NEW e, e.key \in Key, e.v \in Val,
         \A i \in Used(t) : t.slot[i].key # e.key
  PROVE  /\ Good(Link(t, e))
         /\ \A k \in Key, v \in Val :
              Holds(Link(t, e), k, v) <=> (k = e.key /\ v = e.v) \/ Holds(t, k, v)
<1> PICK u : u = Link(t, e)
  OBVIOUS
<1> PICK n : n = t.nxt
  OBVIOUS
<1> PICK c : c = Class(t, e.key)
  OBVIOUS
<1>1. /\ Shape(u) /\ u.own = t.own /\ u.size = t.size
      /\ u.len = t.len + 1 /\ u.nxt = n + 1
      /\ u.slot = [t.slot EXCEPT ![n] = [key |-> e.key, v |-> e.v, nxt |-> t.head[c]]]
      /\ u.head = [t.head EXCEPT ![c] = n]
  BY LinkIs DEF Good, Typed
<1>2. /\ n \in Nat /\ t.size \in Nat /\ n < t.size /\ t.size <= MaxSize /\ MaxSize \in Nat
      /\ t.own \in BOOLEAN
      /\ t.slot \in [0 .. (t.size - 1) -> [key : Key, v : Val, nxt : Nat] \cup {Blank}]
      /\ t.head \in [0 .. (t.size - 1) -> Nat]
  BY UsedIs, HashTableAssumption DEF Good, Typed
<1>3. c \in 0 .. (t.size - 1) /\ n \in 0 .. (t.size - 1)
  BY <1>2, ClassIs
<1>4. \A i \in Used(t) : /\ i \in Nat /\ i < n /\ i < t.size /\ t.slot[i].key \in Key
                         /\ t.slot[i].v \in Val
                         /\ Class(t, t.slot[i].key) \in 0 .. (t.size - 1)
  BY UsedIs DEF Good
<1>5. /\ u.slot[n] = [key |-> e.key, v |-> e.v, nxt |-> t.head[c]]
      /\ \A i \in 0 .. (t.size - 1) : i # n => u.slot[i] = t.slot[i]
      /\ u.head[c] = n
      /\ \A d \in 0 .. (t.size - 1) : d # c => u.head[d] = t.head[d]
  BY <1>1, <1>2, <1>3
<1>6. Used(u) = Used(t) \cup {n}
  <2>1. e.v # NULL
    BY HashTableAssumption
  <2>2. u.slot[n].v # NULL
    BY <1>5, <2>1
  <2>3. ASSUME NEW i \in 0 .. (n - 1) PROVE u.slot[i] = t.slot[i]
    BY <1>2, <1>5
  <2> QED BY <1>1, <1>2, <2>2, <2>3 DEF Used
<1>7. \A k : Class(u, k) = Class(t, k)
  BY <1>1, ClassSame
<1>8. \A d : Members(u, d) = IF d = c THEN Members(t, d) \cup {n} ELSE Members(t, d)
  <2>1. \A i \in Used(t) : u.slot[i] = t.slot[i]
    BY <1>2, <1>4, <1>5
  <2>2. u.slot[n].key = e.key
    BY <1>5
  <2> QED BY <1>6, <1>7, <2>1, <2>2 DEF Members
<1>9. \A d : Members(t, d) \subseteq Used(t)
  BY DEF Members
<1>10. Typed(u)
  <2>1. [key |-> e.key, v |-> e.v, nxt |-> t.head[c]] \in [key : Key, v : Val, nxt : Nat]
    BY <1>2, <1>3
  <2>2. u.slot \in [0 .. (u.size - 1) -> [key : Key, v : Val, nxt : Nat] \cup {Blank}]
    BY <1>1, <1>2, <2>1
  <2>3. u.head \in [0 .. (u.size - 1) -> Nat]
    BY <1>1, <1>2
  <2>4. u.own \in BOOLEAN /\ u.size \in 0 .. MaxSize /\ u.nxt \in 0 .. u.size
    BY <1>1, <1>2
  <2> QED BY <1>1, <2>2, <2>3, <2>4 DEF Typed
<1>11. Behind(u)
  <2>1. \A i \in n .. (t.size - 1) : t.slot[i] = Blank
    BY DEF Good, Behind
  <2> QED BY <1>1, <1>2, <1>5, <2>1 DEF Behind
<1>12. HeadsRight(u)
  <2> SUFFICES ASSUME NEW d \in 0 .. (t.size - 1)
               PROVE  Prior(Members(u, d), n + 1, u.head[d])
    BY <1>1 DEF HeadsRight
  <2>1. \A j \in Members(t, d) : j \in Nat /\ j < n
    BY <1>4, <1>9
  <2>2. CASE d = c
    <3>1. Members(u, d) = Members(t, d) \cup {n} /\ u.head[d] = n
      BY <1>5, <1>8, <2>2
    <3> QED BY <1>2, <2>1, <3>1 DEF Prior
  <2>3. CASE d # c
    <3>1. Members(u, d) = Members(t, d) /\ u.head[d] = t.head[d]
      BY <1>5, <1>8, <2>3
    <3>2. Prior(Members(t, d), n, t.head[d])
      BY DEF Good, HeadsRight
    <3>3. Members(t, d) \in SUBSET Nat
      BY <2>1
    <3> QED BY <1>2, <2>1, <3>1, <3>2, <3>3, PriorUp
  <2> QED BY <2>2, <2>3
<1>13. LinksRight(u)
  <2> SUFFICES ASSUME NEW i \in Used(u)
               PROVE  Prior(Members(u, Class(t, u.slot[i].key)), i, u.slot[i].nxt)
    BY <1>7 DEF LinksRight
  <2>1. CASE i = n
    <3>1. u.slot[i].nxt = t.head[c] /\ Class(t, u.slot[i].key) = c
      BY <1>5, <2>1
    <3>2. Prior(Members(t, c), n, t.head[c])
      BY <1>3 DEF Good, HeadsRight
    <3>3. \A j \in Members(u, c) : j < n => j \in Members(t, c)
      BY <1>2, <1>8
    <3>4. \A j \in Members(t, c) : j < n => j \in Members(u, c)
      BY <1>8
    <3> QED BY <2>1, <3>1, <3>2, <3>3, <3>4, PriorSame
  <2>2. CASE i \in Used(t)
    <3> PICK d : d = Class(t, t.slot[i].key)
      OBVIOUS
    <3>1. u.slot[i] = t.slot[i] /\ i < n /\ i \in Nat
      BY <1>2, <1>4, <1>5, <2>2
    <3>2. Prior(Members(t, d), i, t.slot[i].nxt)
      BY <2>2 DEF Good, LinksRight
    <3>3. \A j \in Members(u, d) : j < i => j \in Members(t, d)
      BY <1>2, <1>8, <3>1
    <3>4. \A j \in Members(t, d) : j < i => j \in Members(u, d)
      BY <1>8
    <3> QED BY <3>1, <3>2, <3>3, <3>4, PriorSame
  <2> QED BY <1>6, <2>1, <2>2
<1>14. \A i \in Used(t) : u.slot[i] = t.slot[i]
  BY <1>2, <1>4, <1>5
<1>15. OneEach(u)
  <2>1. \A i, j \in Used(t) : t.slot[i].key = t.slot[j].key => i = j
    BY DEF Good, OneEach
  <2> QED BY <1>5, <1>6, <1>14, <2>1 DEF OneEach
<1>16. Counted(u)
  <2>1. n \notin Used(t)
    BY <1>2, <1>4
  <2>2. IsFiniteSet(Used(t)) /\ t.len = Cardinality(Used(t))
    BY <1>2, UsedFinite DEF Good, Counted
  <2> QED BY <1>1, <1>6, <2>1, <2>2, FS_AddElement DEF Counted
<1>17. \A k \in Key, v \in Val : Holds(u, k, v) <=> (k = e.key /\ v = e.v) \/ Holds(t, k, v)
  BY <1>5, <1>6, <1>14 DEF Holds
<1> QED BY <1>10, <1>11, <1>12, <1>13, <1>15, <1>16, <1>17 DEF Good
-----------------------------------------------------------------------------
(* Looking a key up finds its slot, if there is one, and END otherwise.       *)
LEMMA FindIs ==
  ASSUME NEW t, Good(t), NEW k \in Key
  PROVE  \/ /\ Find(t, k) \in Used(t)
            /\ t.slot[Find(t, k)].key = k
            /\ Find(t, k) # END
         \/ /\ Find(t, k) = END
            /\ \A i \in Used(t) : t.slot[i].key # k
<1>0. END \in Nat /\ t.nxt \in Nat /\ t.size \in Nat /\ t.nxt <= t.size /\ t.size <= END
  BY UsedIs, HashTableAssumption DEF Good, END
<1>1. \A i \in Used(t) : /\ i \in Nat /\ i < t.nxt /\ i < END
                         /\ Class(t, t.slot[i].key) \in 0 .. (t.size - 1)
  BY UsedIs DEF Good
<1>2. CASE t.size = 0
  <2>1. Find(t, k) = END
    BY <1>2 DEF Find
  <2>2. \A i \in Used(t) : FALSE
    BY <1>0, <1>1, <1>2
  <2> QED BY <2>1, <2>2
<1>3. CASE t.size # 0
  <2> DEFINE Body(f, i) == IF i >= t.nxt THEN END
                           ELSE IF t.slot[i].key = k THEN i ELSE f[t.slot[i].nxt]
             Here(i) == {x \in Used(t) : /\ x <= i /\ t.slot[x].key = k
                                         /\ Class(t, k) = Class(t, t.slot[i].key)}
             w == [i \in 0 .. END |->
                     IF i >= t.nxt THEN END
                     ELSE IF t.slot[i].key = k THEN i
                     ELSE IF t.slot[i].v = NULL \/ Here(i) = {} THEN END
                     ELSE CHOOSE x \in Here(i) : TRUE]
             f == CHOOSE g : g = [i \in 0 .. END |-> Body(g, i)]
  <2>1. Find(t, k) = f[t.head[Class(t, k)]]
    BY <1>3 DEF Find
  <2>2. \A x, y \in Used(t) : t.slot[x].key = k /\ t.slot[y].key = k => x = y
    BY DEF Good, OneEach
  <2>3. \A i \in 0 .. END : w[i] = IF i >= t.nxt THEN END
                     ELSE IF t.slot[i].key = k THEN i
                     ELSE IF t.slot[i].v = NULL \/ Here(i) = {} THEN END
                     ELSE CHOOSE x \in Here(i) : TRUE
    OBVIOUS
  <2>4. DOMAIN w = 0 .. END /\ w = [i \in 0 .. END |-> w[i]]
    OBVIOUS
  <2>5. ASSUME NEW i \in Used(t), Prior(Members(t, Class(t, t.slot[i].key)), i, t.slot[i].nxt)
        PROVE  \/ /\ t.slot[i].nxt = END
                  /\ t.slot[i].key # k => Here(i) = {}
               \/ /\ t.slot[i].nxt \in Used(t) /\ t.slot[i].nxt < i
                  /\ t.slot[i].key # k => Here(i) = Here(t.slot[i].nxt)
    <3> PICK y, S : y = t.slot[i].nxt /\ S = Members(t, Class(t, t.slot[i].key))
      OBVIOUS
    <3>1. Here(i) \subseteq S /\ S \subseteq Used(t)
      BY DEF Members
    <3>2. t.slot[i].key # k => \A x \in Here(i) : x < i
      BY <1>1
    <3>3. CASE y = END /\ \A j \in S : ~ (j < i)
      <4>1. t.slot[i].key # k => Here(i) = {}
        BY <3>1, <3>2, <3>3
      <4> QED BY <3>3, <4>1
    <3>4. CASE y \in S /\ y < i /\ \A j \in S : j < i => j <= y
      <4>1. Class(t, t.slot[y].key) = Class(t, t.slot[i].key) /\ y \in Used(t)
        BY <3>4 DEF Members
      <4>2. t.slot[i].key # k => \A x \in Used(t) : x \in Here(i) <=> x \in Here(y)
        BY <1>1, <3>1, <3>2, <3>4, <4>1
      <4>3. t.slot[i].key # k => Here(i) = Here(y)
        BY <4>2
      <4> QED BY <3>4, <4>1, <4>3
    <3> QED BY <2>5, <3>3, <3>4 DEF Prior
  <2>6. \A i \in Used(t) : Prior(Members(t, Class(t, t.slot[i].key)), i, t.slot[i].nxt)
    BY DEF Good, LinksRight
  <2>7. \A i \in 0 .. (t.nxt - 1) :
          \/ i \in Used(t)
          \/ t.slot[i].v = NULL /\ t.slot[i].nxt = END
    <3> TAKE i \in 0 .. (t.nxt - 1)
    <3>1. t.slot[i] \in [key : Key, v : Val, nxt : Nat] \cup {Blank}
      BY <1>0 DEF Good, Typed
    <3>2. t.slot[i].v = NULL => t.slot[i] = Blank
      BY <3>1, HashTableAssumption
    <3> QED BY <3>2 DEF Used, Blank
  <2>8. \A i \in 0 .. END : w[i] = Body(w, i)
    <3> TAKE i \in 0 .. END
    <3>1. CASE i >= t.nxt
      BY <2>3, <3>1
    <3>2. CASE i < t.nxt /\ t.slot[i].key = k
      BY <1>0, <2>3, <3>2
    <3>3. CASE i < t.nxt /\ t.slot[i].key # k /\ i \notin Used(t)
      <4>1. w[i] = END /\ t.slot[i].nxt = END
        BY <1>0, <2>3, <2>7, <3>3
      <4>2. w[END] = END
        BY <1>0, <2>3
      <4> QED BY <1>0, <3>3, <4>1, <4>2
    <3>4. CASE i < t.nxt /\ t.slot[i].key # k /\ i \in Used(t)
      <4> PICK y : y = t.slot[i].nxt
        OBVIOUS
      <4>1. t.slot[i].v # NULL
        BY <3>4 DEF Used
      <4>2. w[i] = IF Here(i) = {} THEN END ELSE CHOOSE x \in Here(i) : TRUE
        BY <1>0, <2>3, <3>4, <4>1
      <4>3. CASE y = END /\ Here(i) = {}
        <5>1. w[END] = END
          BY <1>0, <2>3
        <5> QED BY <1>0, <3>4, <4>2, <4>3, <5>1
      <4>4. CASE y \in Used(t) /\ y < i /\ Here(i) = Here(y)
        <5>1. y \in 0 .. END /\ ~ (y >= t.nxt) /\ t.slot[y].v # NULL
          BY <1>0, <1>1, <4>4 DEF Used
        <5>2. CASE t.slot[y].key # k
          <6>1. w[y] = IF Here(y) = {} THEN END ELSE CHOOSE x \in Here(y) : TRUE
            BY <2>3, <5>1, <5>2
          <6> QED BY <1>0, <3>4, <4>2, <4>4, <6>1
        <5>3. CASE t.slot[y].key = k
          <6>1. w[y] = y
            BY <2>3, <5>1, <5>3
          <6>2. y \in Here(y)
            BY <1>1, <4>4, <5>3
          <6>3. \A x \in Here(i) : x = y
            BY <2>2, <4>4, <5>3
          <6>4. w[i] = y
            BY <4>2, <4>4, <6>2, <6>3
          <6> QED BY <1>0, <3>4, <6>1, <6>4
        <5> QED BY <5>2, <5>3
      <4> QED BY <2>5, <2>6, <3>4, <4>3, <4>4
    <3> QED BY <1>0, <3>1, <3>2, <3>3, <3>4
  <2> HIDE DEF w, Body
  <2>9. w = [i \in 0 .. END |-> Body(w, i)]
    BY <2>4, <2>8
  <2> USE DEF Body
  <2>10. f = [i \in 0 .. END |-> Body(f, i)]
    BY <2>9
  <2> HIDE DEF f
  <2>11. \A i \in 0 .. END : f[i] = Body(f, i)
    BY <2>10
  <2> DEFINE D == {i \in 0 .. END : f[i] # w[i]}
  <2>12. D = {}
    <3> SUFFICES ASSUME D # {} PROVE FALSE
      OBVIOUS
    <3>1. D \subseteq Nat
      BY <1>0
    <3>2. PICK i \in D : \A j \in D : i <= j
      BY <3>1, LeastNumber
    <3>3. i \in 0 .. END /\ i \in Nat /\ f[i] # w[i]
      BY <1>0
    <3> PICK y : y = t.slot[i].nxt
      OBVIOUS
    <3>4. ~ (i >= t.nxt) /\ t.slot[i].key # k /\ f[i] = f[y] /\ w[i] = w[y]
      BY <2>8, <2>11, <3>3
    <3>5. i \in Used(t) \/ y = END
      BY <1>0, <2>7, <3>3, <3>4
    <3>6. y = END \/ (y \in Used(t) /\ y < i)
      BY <2>5, <2>6, <3>5
    <3>7. f[END] = END /\ w[END] = END
      BY <1>0, <2>8, <2>11
    <3>8. y \in Used(t) /\ y < i
      BY <3>3, <3>4, <3>6, <3>7
    <3>9. y \in 0 .. END /\ y \notin D
      BY <1>0, <1>1, <3>1, <3>2, <3>3, <3>8
    <3> QED BY <3>3, <3>4, <3>9
  <2> PICK c, x : c = Class(t, k) /\ x = t.head[c]
    OBVIOUS
  <2>13. c \in 0 .. (t.size - 1)
    BY <1>0, <1>3, ClassIs
  <2>14. Prior(Members(t, c), t.nxt, x)
    BY <2>13 DEF Good, HeadsRight
  <2>15. \A i \in Used(t) : t.slot[i].key = k => i \in Members(t, c)
    BY DEF Members
  <2>16. CASE x = END /\ \A j \in Members(t, c) : ~ (j < t.nxt)
    <3>1. Find(t, k) = END
      BY <1>0, <2>1, <2>11, <2>16
    <3> QED BY <1>1, <2>15, <2>16, <3>1
  <2>17. CASE x \in Members(t, c) /\ x < t.nxt /\ \A j \in Members(t, c) : j < t.nxt => j <= x
    <3>1. x \in Used(t) /\ Class(t, t.slot[x].key) = c
      BY <2>17 DEF Members
    <3>2. x \in 0 .. END /\ ~ (x >= t.nxt) /\ t.slot[x].v # NULL
      BY <1>0, <1>1, <3>1 DEF Used
    <3>3. Find(t, k) = w[x]
      BY <2>1, <2>12, <3>2
    <3>4. CASE t.slot[x].key = k
      <4>1. Find(t, k) = x
        BY <2>8, <3>2, <3>3, <3>4
      <4> QED BY <1>1, <3>1, <3>4, <4>1
    <3>5. CASE t.slot[x].key # k
      <4>1. w[x] = IF Here(x) = {} THEN END ELSE CHOOSE z \in Here(x) : TRUE
        BY <2>3, <3>2, <3>5 DEF w
      <4>2. CASE Here(x) = {}
        <5>1. \A i \in Used(t) : t.slot[i].key = k => i \in Here(x)
          BY <1>1, <2>15, <2>17, <3>1
        <5> QED BY <3>3, <4>1, <4>2, <5>1
      <4>3. CASE Here(x) # {}
        <5>1. w[x] \in Here(x)
          BY <4>1, <4>3
        <5> QED BY <1>1, <3>3, <5>1
      <4> QED BY <4>2, <4>3
    <3> QED BY <3>4, <3>5
  <2> QED BY <2>14, <2>16, <2>17 DEF Prior
<1> QED BY <1>2, <1>3
-----------------------------------------------------------------------------
(* A table with the same chains, keys and entry places is good too.           *)
LEMMA SameChains ==
  ASSUME NEW t, NEW u, Good(t), Shape(u),
         u.own \in BOOLEAN, u.size = t.size, u.len = t.len, u.nxt = t.nxt, u.head = t.head,
         u.slot \in [0 .. (t.size - 1) -> [key : Key, v : Val, nxt : Nat] \cup {Blank}],
         \A i \in 0 .. (t.size - 1) : /\ u.slot[i].key = t.slot[i].key
                                      /\ u.slot[i].nxt = t.slot[i].nxt
                                      /\ u.slot[i].v = NULL <=> t.slot[i].v = NULL
                                      /\ t.slot[i] = Blank => u.slot[i] = Blank
  PROVE  Good(u) /\ Used(u) = Used(t)
<1>0. t.nxt \in Nat /\ t.size \in Nat /\ t.nxt <= t.size
  BY UsedIs DEF Good
<1>1. Used(u) = Used(t)
  BY <1>0 DEF Used
<1>2. \A i \in Used(t) : /\ i \in 0 .. (t.size - 1)
                         /\ u.slot[i].key = t.slot[i].key /\ u.slot[i].nxt = t.slot[i].nxt
  BY <1>0 DEF Used
<1>3. \A k : Class(u, k) = Class(t, k)
  BY ClassSame
<1>4. \A c : Members(u, c) = Members(t, c)
  BY <1>1, <1>2, <1>3 DEF Members
<1>5. Typed(u)
  BY DEF Good, Typed
<1>6. Behind(u)
  BY <1>0 DEF Good, Behind
<1>7. HeadsRight(u)
  BY <1>4 DEF Good, HeadsRight
<1>8. LinksRight(u)
  BY <1>1, <1>2, <1>3, <1>4 DEF Good, LinksRight
<1>9. OneEach(u) /\ Counted(u)
  BY <1>1, <1>2 DEF Good, OneEach, Counted
<1> QED BY <1>1, <1>5, <1>6, <1>7, <1>8, <1>9 DEF Good

(* An entry is put in: it replaces one of the same key, or is a new one.      *)
LEMMA PutGood ==
  ASSUME NEW t, Good(t), t.nxt < t.size, NEW e, e.key \in Key, e.v \in Val,
         sys => Find(t, e.key) = END
  PROVE  /\ Good(Put(t, e))
         /\ Put(t, e).own = t.own /\ Put(t, e).size = t.size
         /\ Put(t, e).nxt \in t.nxt .. (t.nxt + 1)
         /\ \A k \in Key, v \in Val :
              Holds(Put(t, e), k, v) <=> IF k = e.key THEN v = e.v ELSE Holds(t, k, v)
<1> PICK i : i = Find(t, e.key)
  OBVIOUS
<1>0. t.nxt \in Nat /\ t.size \in Nat /\ t.nxt <= t.size
  BY UsedIs DEF Good
<1>1. CASE i = END
  <2>1. \A j \in Used(t) : t.slot[j].key # e.key
    BY <1>1, FindIs
  <2>2. Put(t, e) = Link(t, e)
    BY <1>1 DEF Put
  <2>3. Shape(t)
    BY DEF Good, Typed
  <2>4. /\ Good(Link(t, e))
        /\ \A k \in Key, v \in Val :
              Holds(Link(t, e), k, v) <=> (k = e.key /\ v = e.v) \/ Holds(t, k, v)
    BY <2>1, LinkGood
  <2>5. \A v \in Val : ~ Holds(t, e.key, v)
    BY <2>1 DEF Holds
  <2>6. /\ Link(t, e).own = t.own /\ Link(t, e).size = t.size
        /\ Link(t, e).nxt \in t.nxt .. (t.nxt + 1)
    <3>1. /\ Link(t, e).own = t.own /\ Link(t, e).size = t.size
          /\ Link(t, e).nxt = t.nxt + 1
      BY ONLY <2>3, LinkFields
    <3> QED BY ONLY <1>0, <3>1
  <2>7. \A k \in Key, v \in Val :
          Holds(Link(t, e), k, v) <=> IF k = e.key THEN v = e.v ELSE Holds(t, k, v)
    BY <2>4, <2>5
  <2> QED BY <2>2, <2>4, <2>6, <2>7
<1>2. CASE i # END
  <2>1. i \in Used(t) /\ t.slot[i].key = e.key
    BY <1>2, FindIs
  <2>2. i \in 0 .. (t.size - 1) /\ t.slot[i] \in [key : Key, v : Val, nxt : Nat]
        /\ t.slot[i] # Blank /\ t.slot[i].v \in Val
    <3>1. i \in Nat /\ i < t.size /\ t.slot[i].v # NULL
      BY <2>1, UsedIs DEF Good, Used
    <3> QED BY <1>0, <2>1, <3>1, UsedIs DEF Good, Blank
  <2>3. Shape(t) /\ t.slot \in [0 .. (t.size - 1) -> [key : Key, v : Val, nxt : Nat] \cup {Blank}]
    BY DEF Good, Typed
  <2> PICK u : u = [t EXCEPT !.slot[i].v = e.v]
    OBVIOUS
  <2>4. Put(t, e) = u
    <3>1. ~ sys
      BY <1>2
    <3> QED BY <1>2, <3>1 DEF Put
  <2>5. /\ u.own = t.own /\ u.size = t.size /\ u.len = t.len /\ u.nxt = t.nxt
        /\ u.head = t.head
    BY <2>3 DEF Shape
  <2>6. u.slot = [t.slot EXCEPT ![i] = [@ EXCEPT !.v = e.v]]
    BY <2>3 DEF Shape
  <2>7. Shape(u)
    <3>1. u = [own |-> u.own, size |-> u.size, len |-> u.len, nxt |-> u.nxt,
               slot |-> u.slot, head |-> u.head]
      BY <2>3 DEF Shape
    <3> QED BY ONLY <3>1 DEF Shape
  <2> PICK x : x = [t.slot[i] EXCEPT !.v = e.v]
    OBVIOUS
  <2>8. x \in [key : Key, v : Val, nxt : Nat] /\ x.v = e.v
        /\ x.key = e.key /\ x.nxt = t.slot[i].nxt
    BY <2>1, <2>2
  <2>9. u.slot[i] = x /\ \A j \in 0 .. (t.size - 1) : j # i => u.slot[j] = t.slot[j]
    BY <2>2, <2>3, <2>6
  <2>10. u.slot \in [0 .. (t.size - 1) -> [key : Key, v : Val, nxt : Nat] \cup {Blank}]
    <3>1. u.slot = [t.slot EXCEPT ![i] = x]
      BY <2>2, <2>3, <2>6
    <3> QED BY ONLY <2>2, <2>3, <2>8, <3>1
  <2>11. e.v # NULL /\ t.slot[i].v # NULL
    BY <2>1, HashTableAssumption DEF Used
  <2>12. \A j \in 0 .. (t.size - 1) : /\ u.slot[j].key = t.slot[j].key
                                      /\ u.slot[j].nxt = t.slot[j].nxt
                                      /\ u.slot[j].v = NULL <=> t.slot[j].v = NULL
                                      /\ t.slot[j] = Blank => u.slot[j] = Blank
    <3> TAKE j \in 0 .. (t.size - 1)
    <3> QED BY <2>1, <2>2, <2>8, <2>9, <2>11
  <2>13. Good(u) /\ Used(u) = Used(t)
    <3>1. u.own \in BOOLEAN
      BY <2>5 DEF Good, Typed
    <3> QED BY ONLY Good(t), <2>5, <2>7, <2>10, <2>12, <3>1, SameChains
  <2>14. \A j \in Used(t) : j \in 0 .. (t.size - 1)
    BY <1>0 DEF Used
  <2>15. \A j \in Used(t) : t.slot[j].key = e.key => j = i
    BY <2>1 DEF Good, OneEach
  <2>16. \A k \in Key, v \in Val :
           Holds(u, k, v) <=> IF k = e.key THEN v = e.v ELSE Holds(t, k, v)
    <3> TAKE k \in Key, v \in Val
    <3>1. CASE k = e.key
      <4>1. \A j \in Used(t) : u.slot[j].key = k => j = i
        BY <2>9, <2>14, <2>15, <3>1
      <4> QED BY <2>1, <2>8, <2>9, <2>13, <3>1, <4>1 DEF Holds
    <3>2. CASE k # e.key
      <4>1. \A j \in Used(t) : u.slot[j].key = k => u.slot[j] = t.slot[j]
        BY <2>8, <2>9, <2>14, <3>2
      <4>2. \A j \in Used(t) : t.slot[j].key = k => u.slot[j] = t.slot[j]
        BY <2>1, <2>9, <2>14, <3>2
      <4> QED BY <2>13, <3>2, <4>1, <4>2 DEF Holds
    <3> QED BY <3>1, <3>2
  <2> QED BY <1>0, <2>4, <2>5, <2>13, <2>16
<1> QED BY <1>1, <1>2

(* An entry is taken out: the slots of its chain are joined across it, and    *)
(* the other entries are still met.                                           *)
LEMMA TakenGood ==
  ASSUME NEW t, Good(t), NEW k \in Key, sys => Find(t, k) = END
  PROVE  /\ Good(Taken(t, k)) /\ Taken(t, k).own = t.own
         /\ \A q \in Key, v \in Val : Holds(Taken(t, k), q, v) <=> q # k /\ Holds(t, q, v)
<1> PICK i : i = Find(t, k)
  OBVIOUS
<1>0. /\ t.nxt \in Nat /\ t.size \in Nat /\ t.nxt <= t.size /\ t.size <= END /\ END \in Nat
      /\ Shape(t) /\ t.own \in BOOLEAN
      /\ t.slot \in [0 .. (t.size - 1) -> [key : Key, v : Val, nxt : Nat] \cup {Blank}]
      /\ t.head \in [0 .. (t.size - 1) -> Nat]
  BY UsedIs, HashTableAssumption DEF Good, Typed, END
<1>1. CASE i = END
  <2>1. \A j \in Used(t) : t.slot[j].key # k
    BY <1>1, FindIs
  <2>2. Taken(t, k) = t
    BY <1>1 DEF Taken
  <2> QED BY <2>1, <2>2 DEF Holds
<1>2. CASE i # END
  <2>1. i \in Used(t) /\ t.slot[i].key = k
    BY <1>2, FindIs
  <2>2. i \in Nat /\ i < t.nxt /\ i \in 0 .. (t.size - 1) /\ i # END
    BY <1>0, <2>1, UsedIs DEF Good
  <2> PICK c, y : c = Class(t, k) /\ y = t.slot[i].nxt
    OBVIOUS
  <2>3. c \in 0 .. (t.size - 1)
    BY <1>0, <2>2, ClassIs
  <2>4. \A j \in Used(t) : /\ j \in Nat /\ j < t.nxt /\ j \in 0 .. (t.size - 1)
                           /\ t.slot[j] \in [key : Key, v : Val, nxt : Nat]
                           /\ t.slot[j].v # NULL
    BY <1>0, UsedIs DEF Good, Used
  <2>5. y \in Nat /\ Prior(Members(t, c), i, y)
    BY <2>1, <2>4 DEF Good, LinksRight
  <2>x. PICK x : x = [j \in DOMAIN t.slot |->
                      CASE j = i -> Blank
                        [] j # i /\ t.slot[j].nxt = i -> [t.slot[j] EXCEPT !.nxt = y]
                        [] OTHER -> t.slot[j]]
    OBVIOUS
  <2>u. PICK u : u = [t EXCEPT !.slot = x, !.len = @ - 1, !.head[c] = IF @ = i THEN y ELSE @]
    OBVIOUS
  <2>6. Taken(t, k) = u
    <3>1. Taken(t, k) = [t EXCEPT !.slot = [j \in DOMAIN t.slot |->
                      CASE j = i -> Blank
                        [] j # i /\ t.slot[j].nxt = i -> [t.slot[j] EXCEPT !.nxt = y]
                        [] OTHER -> t.slot[j]],
                                  !.len = @ - 1, !.head[c] = IF @ = i THEN y ELSE @]
      <4>1. Gone(t.slot[i]) = Blank
        BY <1>2 DEF Gone
      <4> QED BY <1>2, <4>1 DEF Taken
    <3> QED BY <2>x, <2>u, <3>1
  <2>7. u.own = t.own /\ u.size = t.size /\ u.len = t.len - 1 /\ u.nxt = t.nxt /\ u.slot = x
    BY <1>0, <2>u DEF Shape
  <2>8. u.head = [t.head EXCEPT ![c] = IF @ = i THEN y ELSE @]
    BY <1>0, <2>u DEF Shape
  <2>9. Shape(u)
    <3>1. u = [own |-> u.own, size |-> u.size, len |-> u.len, nxt |-> u.nxt,
               slot |-> u.slot, head |-> u.head]
      BY <1>0, <2>u DEF Shape
    <3> QED BY ONLY <3>1 DEF Shape
  <2>10. /\ DOMAIN x = 0 .. (t.size - 1) /\ x = [j \in 0 .. (t.size - 1) |-> x[j]]
         /\ x[i] = Blank
         /\ \A j \in 0 .. (t.size - 1) :
              j # i => x[j] = IF t.slot[j].nxt = i THEN [t.slot[j] EXCEPT !.nxt = y]
                              ELSE t.slot[j]
    BY <1>0, <2>2, <2>x
  <2>11. \A j \in 0 .. (t.size - 1) :
           \/ t.slot[j] = Blank /\ t.slot[j].v = NULL /\ t.slot[j].nxt = END
           \/ t.slot[j] \in [key : Key, v : Val, nxt : Nat] /\ t.slot[j].v # NULL
    BY <1>0, HashTableAssumption DEF Blank
  <2>12. \A j \in 0 .. (t.size - 1) :
           j # i => /\ x[j].key = t.slot[j].key /\ x[j].v = t.slot[j].v
                    /\ x[j].nxt = IF t.slot[j].nxt = i THEN y ELSE t.slot[j].nxt
                    /\ x[j] \in [key : Key, v : Val, nxt : Nat] \cup {Blank}
                    /\ t.slot[j].v = NULL => x[j] = Blank
    <3> TAKE j \in 0 .. (t.size - 1)
    <3> HAVE j # i
    <3>1. CASE t.slot[j] = Blank /\ t.slot[j].v = NULL /\ t.slot[j].nxt = END
      BY <2>2, <2>10, <3>1
    <3>2. CASE t.slot[j] \in [key : Key, v : Val, nxt : Nat] /\ t.slot[j].v # NULL
      <4> PICK z : z = [t.slot[j] EXCEPT !.nxt = y]
        OBVIOUS
      <4>1. z \in [key : Key, v : Val, nxt : Nat] /\ z.key = t.slot[j].key
            /\ z.v = t.slot[j].v /\ z.nxt = y
        BY <2>5, <3>2
      <4> QED BY <2>10, <3>2, <4>1
    <3> QED BY <2>11, <3>1, <3>2
  <2>13. Blank.v = NULL
    BY DEF Blank
  <2>14. Used(u) = Used(t) \ {i}
    <3>1. \A j \in 0 .. (t.nxt - 1) : j # i => u.slot[j].v = t.slot[j].v
      BY <1>0, <2>7, <2>12
    <3>2. u.slot[i].v = NULL
      BY <2>7, <2>10, <2>13
    <3> QED BY <2>7, <3>1, <3>2 DEF Used
  <2>15. \A q : Class(u, q) = Class(t, q)
    BY <2>7, ClassSame
  <2>16. \A d : Members(u, d) = Members(t, d) \ {i}
    <3>1. \A j \in Used(t) \ {i} : u.slot[j].key = t.slot[j].key
      BY <2>4, <2>7, <2>12
    <3> QED BY <2>14, <2>15, <3>1 DEF Members
  <2>17. Typed(u)
    <3>1. \A j \in 0 .. (t.size - 1) : x[j] \in [key : Key, v : Val, nxt : Nat] \cup {Blank}
      BY <2>10, <2>12
    <3>2. x \in [0 .. (t.size - 1) -> [key : Key, v : Val, nxt : Nat] \cup {Blank}]
      BY <2>10, <3>1
    <3>3. u.head \in [0 .. (t.size - 1) -> Nat]
      BY <1>0, <2>3, <2>5, <2>8
    <3> QED BY <2>7, <2>9, <3>2, <3>3 DEF Typed, Good
  <2>18. Behind(u)
    <3>1. \A j \in t.nxt .. (t.size - 1) : t.slot[j] = Blank
      BY DEF Good, Behind
    <3> QED BY <1>0, <2>2, <2>7, <2>12, <2>13, <3>1 DEF Behind
  <2>19. \A S, p, z : S \subseteq Nat /\ p \in Nat /\ z # i /\ Prior(S, p, z) => Prior(S \ {i}, p, z)
    BY DEF Prior
  <2>20. i \in Members(t, c)
    BY <2>1 DEF Members
  <2>21. \A d : d # c => i \notin Members(t, d)
    BY <2>1 DEF Members
  <2>22. \A d : Members(t, d) \subseteq Nat
    BY <2>4 DEF Members
  <2>23. ASSUME NEW p \in Nat, Prior(Members(t, c), p, i)
         PROVE  Prior(Members(t, c) \ {i}, p, y)
    BY <2>2, <2>5, <2>20, <2>22, <2>23 DEF Prior
  <2>24. HeadsRight(u)
    <3> SUFFICES ASSUME NEW d \in 0 .. (t.size - 1)
                 PROVE  Prior(Members(t, d) \ {i}, t.nxt, u.head[d])
      BY <2>7, <2>16 DEF HeadsRight
    <3>1. Prior(Members(t, d), t.nxt, t.head[d])
      BY DEF Good, HeadsRight
    <3>2. CASE d = c /\ t.head[d] = i
      <4>1. u.head[d] = y
        BY <1>0, <2>8, <3>2
      <4> QED BY <1>0, <2>23, <3>1, <3>2, <4>1
    <3>3. CASE ~ (d = c /\ t.head[d] = i)
      <4>1. u.head[d] = t.head[d]
        BY <1>0, <2>8, <3>3
      <4>2. t.head[d] # i
        BY <2>2, <2>21, <3>1, <3>3 DEF Prior
      <4> QED BY <1>0, <2>19, <2>22, <3>1, <4>1, <4>2
    <3> QED BY <3>2, <3>3
  <2>25. LinksRight(u)
    <3> SUFFICES ASSUME NEW j \in Used(t), j # i
                 PROVE  Prior(Members(u, Class(u, u.slot[j].key)), j, u.slot[j].nxt)
      BY <2>14 DEF LinksRight
    <3> PICK d, z : d = Class(t, t.slot[j].key) /\ z = t.slot[j].nxt
      OBVIOUS
    <3>1. Prior(Members(t, d), j, z)
      BY DEF Good, LinksRight
    <3>2. /\ Members(u, Class(u, u.slot[j].key)) = Members(t, d) \ {i}
          /\ u.slot[j].nxt = IF z = i THEN y ELSE z
          /\ j \in Nat
      BY <2>4, <2>7, <2>12, <2>15, <2>16
    <3>3. CASE z = i
      <4>1. d = c
        BY <2>2, <2>21, <3>1, <3>3 DEF Prior
      <4> QED BY <2>23, <3>1, <3>2, <3>3, <4>1
    <3>4. CASE z # i
      BY <2>19, <2>22, <3>1, <3>2, <3>4
    <3> QED BY <3>3, <3>4
  <2>26. \A j \in Used(u) : u.slot[j].key = t.slot[j].key /\ u.slot[j].v = t.slot[j].v
    BY <2>4, <2>7, <2>12, <2>14
  <2>27. \A j, m \in Used(t) : t.slot[j].key = t.slot[m].key => j = m
    BY DEF Good, OneEach
  <2>28. OneEach(u)
    BY <2>14, <2>26, <2>27 DEF OneEach
  <2>29. Counted(u)
    <3>1. IsFiniteSet(Used(t)) /\ t.len = Cardinality(Used(t))
      BY <1>0, UsedFinite DEF Good, Counted
    <3> QED BY <2>1, <2>7, <2>14, <3>1, FS_RemoveElement DEF Counted
  <2>30. \A q \in Key, v \in Val : Holds(u, q, v) <=> q # k /\ Holds(t, q, v)
    BY <2>1, <2>14, <2>26, <2>27 DEF Holds
  <2> QED BY <2>6, <2>7, <2>17, <2>18, <2>24, <2>25, <2>28, <2>29, <2>30 DEF Good
<1> QED BY <1>1, <1>2
-----------------------------------------------------------------------------
(* The loop of jbl_ht_extend_to, slot by slot.                                *)
LEMMA CopiedLoop ==
  ASSUME NEW t, t.nxt \in Nat, NEW want
  PROVE  \E f : /\ f[0] = Table(want) /\ f[t.nxt] = Copied(t, want)
                /\ \A i \in 1 .. t.nxt :
                     f[i] = IF t.slot[i - 1].v = NULL THEN f[i - 1]
                            ELSE Link(f[i - 1], t.slot[i - 1])
<1> DEFINE Step(a, i) == IF t.slot[i - 1].v = NULL THEN a ELSE Link(a, t.slot[i - 1])
           Body(f, i) == IF i = 0 THEN Table(want)
                         ELSE IF t.slot[i - 1].v = NULL THEN f[i - 1]
                         ELSE Link(f[i - 1], t.slot[i - 1])
           f == CHOOSE g : g = [i \in 0 .. t.nxt |-> Body(g, i)]
           T == {m \in Nat : m <= t.nxt /\ ~ \E g : /\ g[0] = Table(want)
                                                    /\ \A i \in 1 .. m : g[i] = Step(g[i - 1], i)}
<1>1. Copied(t, want) = f[t.nxt]
  BY DEF Copied
<1> HIDE DEF Step
<1>2. T = {}
  <2> SUFFICES ASSUME T # {} PROVE FALSE
    OBVIOUS
  <2>1. PICK m \in T : \A y \in T : m <= y
    BY LeastNumber
  <2>2. m # 0
    <3> DEFINE g == [i \in 0 .. 0 |-> Table(want)]
    <3>1. g[0] = Table(want) /\ \A i \in 1 .. 0 : g[i] = Step(g[i - 1], i)
      OBVIOUS
    <3> HIDE DEF g
    <3> QED BY <3>1
  <2>3. m - 1 \in Nat /\ m - 1 \notin T /\ m \in Nat
    <3>1. m \in Nat
      OBVIOUS
    <3>2. m - 1 \in Nat /\ ~ (m <= m - 1)
      BY <2>2, <3>1
    <3>3. m - 1 \notin T
      BY ONLY <2>1, <3>2
    <3> QED BY <3>1, <3>2, <3>3
  <2>4. PICK g : g[0] = Table(want) /\ \A i \in 1 .. (m - 1) : g[i] = Step(g[i - 1], i)
    BY <2>3
  <2> DEFINE h == [i \in 0 .. m |-> IF i = m THEN Step(g[m - 1], m) ELSE g[i]]
  <2>5. h[0] = Table(want) /\ h[m] = Step(h[m - 1], m)
    BY <2>2, <2>3, <2>4
  <2>6. ASSUME NEW i \in 1 .. (m - 1) PROVE h[i] = Step(h[i - 1], i)
    <3>1. h[i] = g[i] /\ h[i - 1] = g[i - 1]
      BY <2>3
    <3> QED BY <2>4, <3>1
  <2> HIDE DEF h
  <2>7. \A i \in 1 .. m : i = m \/ i \in 1 .. (m - 1)
    BY <2>3
  <2>8. h[0] = Table(want) /\ \A i \in 1 .. m : h[i] = Step(h[i - 1], i)
    BY <2>5, <2>6, <2>7
  <2> QED BY <2>1, <2>8
<1>3. t.nxt \notin T
  BY <1>2
<1>4. PICK g : g[0] = Table(want) /\ \A i \in 1 .. t.nxt : g[i] = Step(g[i - 1], i)
  BY <1>3
<1> DEFINE h == [i \in 0 .. t.nxt |-> g[i]]
<1>5. ASSUME NEW i \in 0 .. t.nxt PROVE h[i] = Body(h, i)
  <2>1. CASE i = 0
    BY <1>4, <2>1
  <2>2. CASE i # 0
    <3>1. i \in 1 .. t.nxt /\ h[i] = g[i] /\ h[i - 1] = g[i - 1]
      BY <2>2
    <3> QED BY <1>4, <2>2, <3>1 DEF Step
  <2> QED BY <2>1, <2>2
<1>6. h = [i \in 0 .. t.nxt |-> h[i]]
  OBVIOUS
<1> HIDE DEF h, Body
<1>7. h = [i \in 0 .. t.nxt |-> Body(h, i)]
  BY <1>5, <1>6
<1>8. f = [i \in 0 .. t.nxt |-> Body(f, i)]
  BY <1>7
<1> HIDE DEF f
<1>9. \A i \in 0 .. t.nxt : f[i] = Body(f, i)
  BY <1>8
<1>10. f[0] = Table(want)
  BY <1>9 DEF Body
<1>11. \A i \in 1 .. t.nxt : f[i] = IF t.slot[i - 1].v = NULL THEN f[i - 1]
                                    ELSE Link(f[i - 1], t.slot[i - 1])
  BY <1>9 DEF Body
<1> QED BY <1>1, <1>10, <1>11

(* A copy has the entries of the table, in a table of this variable alone     *)
(* without holes.                                                             *)
LEMMA CopiedGood ==
  ASSUME NEW t, Good(t), NEW want \in Nat, t.nxt <= want
  PROVE  /\ Copied(t, want).size = want
         /\ want <= MaxSize =>
              /\ Good(Copied(t, want)) /\ Copied(t, want).own = TRUE
              /\ Copied(t, want).nxt <= t.nxt
              /\ SameEntries(t, Copied(t, want))
<1>0. t.nxt \in Nat /\ MaxSize \in Nat
  BY UsedIs, HashTableAssumption DEF Good
<1>1. PICK f : /\ f[0] = Table(want) /\ f[t.nxt] = Copied(t, want)
               /\ \A i \in 1 .. t.nxt :
                     f[i] = IF t.slot[i - 1].v = NULL THEN f[i - 1]
                            ELSE Link(f[i - 1], t.slot[i - 1])
  BY <1>0, CopiedLoop
<1> DEFINE Upto(m, k, v) == \E j \in Used(t) : j < m /\ t.slot[j].key = k /\ t.slot[j].v = v
           P(m) == /\ Shape(f[m]) /\ f[m].size = want
                   /\ want <= MaxSize =>
                        /\ Good(f[m]) /\ f[m].own = TRUE /\ f[m].nxt <= m
                        /\ \A k \in Key, v \in Val : Holds(f[m], k, v) <=> Upto(m, k, v)
           T == {m \in Nat : m <= t.nxt /\ ~ P(m)}
<1>2. \A j \in Used(t) : /\ j \in Nat /\ j < t.nxt /\ t.slot[j].v # NULL
                         /\ t.slot[j].key \in Key /\ t.slot[j].v \in Val
  BY UsedIs DEF Good, Used
<1>3. P(0)
  <2>1. Shape(f[0]) /\ f[0].size = want
    BY <1>1 DEF Table, Shape
  <2>2. ASSUME want <= MaxSize
        PROVE  /\ Good(f[0]) /\ f[0].own = TRUE /\ f[0].nxt <= 0
               /\ \A k \in Key, v \in Val : Holds(f[0], k, v) <=> Upto(0, k, v)
    <3>1. want \in 0 .. MaxSize
      BY <1>0, <2>2
    <3>2. Good(f[0]) /\ Used(f[0]) = {} /\ f[0].own = TRUE /\ f[0].nxt = 0
      BY <1>1, <3>1, TableGood
    <3> QED BY <1>2, <3>2 DEF Holds
  <2> QED BY <2>1, <2>2
<1>4. ASSUME NEW m \in 1 .. t.nxt, P(m - 1)
      PROVE  P(m)
  <2> PICK i, a : i = m - 1 /\ a = f[i]
    OBVIOUS
  <2>1. i \in Nat /\ i < t.nxt /\ m = i + 1 /\ m \in Nat
    BY <1>0
  <2>2. Shape(a) /\ a.size = want
    BY <1>4
  <2>3. want <= MaxSize => /\ Good(a) /\ a.own = TRUE /\ a.nxt <= i
                           /\ \A k \in Key, v \in Val : Holds(a, k, v) <=> Upto(i, k, v)
    BY <1>4
  <2>4. f[m] = IF t.slot[i].v = NULL THEN a ELSE Link(a, t.slot[i])
    BY <1>1, <2>1
  <2>5. CASE t.slot[i].v = NULL
    <3>1. \A k, v : Upto(m, k, v) <=> Upto(i, k, v)
      BY <1>2, <2>1, <2>5
    <3>2. want <= MaxSize => a.nxt <= m
      <4>1. want <= MaxSize => a.nxt \in Nat
        BY <2>3, UsedIs DEF Good
      <4> QED BY <2>1, <2>3, <4>1
    <3> HIDE DEF Upto
    <3> QED BY <2>2, <2>3, <2>4, <2>5, <3>1, <3>2
  <2>6. CASE t.slot[i].v # NULL
    <3>1. i \in Used(t)
      BY <1>0, <2>1, <2>6 DEF Used
    <3> PICK e : e = t.slot[i]
      OBVIOUS
    <3>2. f[m] = Link(a, e) /\ e.key \in Key /\ e.v \in Val
      BY <1>2, <2>4, <2>6, <3>1
    <3>3. Shape(f[m]) /\ f[m].size = want
      BY ONLY <2>2, <3>2, LinkFields
    <3>4. ASSUME want <= MaxSize
          PROVE  /\ Good(f[m]) /\ f[m].own = TRUE /\ f[m].nxt <= m
                 /\ \A k \in Key, v \in Val : Holds(f[m], k, v) <=> Upto(m, k, v)
      <4>1. /\ Good(a) /\ a.own = TRUE /\ a.nxt <= i
            /\ \A k \in Key, v \in Val : Holds(a, k, v) <=> Upto(i, k, v)
        BY <2>3, <3>4
      <4>2. a.nxt \in Nat /\ a.nxt < a.size
        BY <2>1, <2>2, <4>1, UsedIs DEF Good
      <4>3. \A j \in Used(a) : a.slot[j].key # e.key
        <5> SUFFICES ASSUME NEW j \in Used(a), a.slot[j].key = e.key PROVE FALSE
          OBVIOUS
        <5>1. a.slot[j].v \in Val
          BY <4>1, UsedIs DEF Good
        <5>2. Holds(a, e.key, a.slot[j].v)
          BY DEF Holds
        <5>3. PICK l \in Used(t) : l < i /\ t.slot[l].key = e.key
          BY <3>2, <4>1, <5>1, <5>2
        <5>4. l = i
          BY <3>1, <5>3 DEF Good, OneEach
        <5> QED BY <2>1, <5>3, <5>4
      <4>4. /\ Good(f[m])
            /\ \A k \in Key, v \in Val :
                 Holds(f[m], k, v) <=> (k = e.key /\ v = e.v) \/ Holds(a, k, v)
        BY <3>2, <4>1, <4>2, <4>3, LinkGood
      <4>5. f[m].own = TRUE /\ f[m].nxt <= m
        <5>1. f[m].own = a.own /\ f[m].nxt = a.nxt + 1
          BY ONLY <2>2, <3>2, LinkFields
        <5> QED BY <2>1, <4>1, <4>2, <5>1
      <4>6. \A k \in Key, v \in Val :
              Upto(m, k, v) <=> (k = e.key /\ v = e.v) \/ Upto(i, k, v)
        BY <1>2, <2>1, <3>1
      <4> HIDE DEF Upto
      <4> QED BY <4>1, <4>4, <4>5, <4>6
    <3> HIDE DEF Upto
    <3> QED BY <3>3, <3>4
  <2> QED BY <2>5, <2>6
<1> HIDE DEF P
<1>5. T = {}
  <2> SUFFICES ASSUME T # {} PROVE FALSE
    OBVIOUS
  <2>1. PICK m \in T : \A y \in T : m <= y
    BY LeastNumber
  <2>2. m # 0 /\ m \in Nat /\ m <= t.nxt
    BY <1>3, <2>1
  <2>3. m - 1 \in Nat /\ m - 1 \notin T /\ m \in 1 .. t.nxt /\ m - 1 <= t.nxt
    BY <1>0, <2>1, <2>2
  <2>4. P(m - 1)
    BY <2>3
  <2> QED BY <1>4, <2>1, <2>3, <2>4
<1>6. P(t.nxt)
  BY <1>0, <1>5
<1>7. \A k, v : Upto(t.nxt, k, v) <=> Holds(t, k, v)
  BY <1>2 DEF Holds
<1> HIDE DEF Upto
<1> QED BY <1>1, <1>6, <1>7 DEF P, SameEntries
-----------------------------------------------------------------------------
(* A table while its holes are closed: the slots below m have been looked at, *)
(* those in use among them are below j now, the others are as in t.  The head *)
(* of a class is below m, and the highest of its class there; or it is not,   *)
(* and then the lowest of its class from m on links to the highest below m.   *)
SameTable(t, u) ==
  /\ Shape(u)
  /\ u.own = t.own /\ u.size = t.size /\ u.len = t.len /\ u.nxt = t.nxt
  /\ u.slot \in [0 .. (t.size - 1) -> [key : Key, v : Val, nxt : Nat] \cup {Blank}]
  /\ u.head \in [0 .. (t.size - 1) -> Nat]
ClosePlaces(t, u, m, j) ==
  /\ j \in Nat /\ m \in Nat /\ j < m /\ m <= t.nxt
  /\ \A x \in 0 .. (j - 1) : u.slot[x].v # NULL
  /\ \A x \in j .. (m - 1) : u.slot[x] = Blank
  /\ \A x \in m .. (t.size - 1) : u.slot[x] = t.slot[x]
CloseLinks(u, j) ==
  \A x \in 0 .. (j - 1) : Prior(Members(u, Class(u, u.slot[x].key)), x, u.slot[x].nxt)
HeadDone(S, m, h) == /\ h < m \/ h = END
                     /\ Prior(S, m, h)
                     /\ h = END => S = {}
HeadAhead(S, m, h, slots) ==
  /\ h \in S /\ h >= m
  /\ \A q \in S : q >= m /\ (\A r \in S : r >= m => q <= r) => Prior(S, m, slots[q].nxt)
CloseHeads(u, m) ==
  \A c \in 0 .. (u.size - 1) : \/ HeadDone(Members(u, c), m, u.head[c])
                               \/ HeadAhead(Members(u, c), m, u.head[c], u.slot)
CloseEntries(t, u) == /\ OneEach(u) /\ SameEntries(t, u)
                      /\ Cardinality(Used(u)) = Cardinality(Used(t))
Closing(t, u, m, j) == /\ SameTable(t, u) /\ ClosePlaces(t, u, m, j) /\ CloseLinks(u, j)
                       /\ CloseHeads(u, m) /\ CloseEntries(t, u)

(* What stands where, while holes are closed.                                 *)
LEMMA ClosingPlaces ==
  ASSUME NEW t, Good(t), NEW u, NEW m, NEW j, Closing(t, u, m, j)
  PROVE  /\ t.nxt \in Nat /\ t.size \in Nat /\ t.nxt <= t.size /\ t.size <= END /\ END \in Nat
         /\ Used(u) = {x \in 0 .. (t.nxt - 1) : x < j \/ (x >= m /\ x \in Used(t))}
         /\ \A x \in Used(u) : /\ x \in Nat /\ x < t.nxt /\ x < t.size
                               /\ u.slot[x].v # NULL
                               /\ u.slot[x] \in [key : Key, v : Val, nxt : Nat]
                               /\ Class(u, u.slot[x].key) \in 0 .. (u.size - 1)
         /\ \A c : Members(u, c) \subseteq Used(u)
<1>0. t.nxt \in Nat /\ t.size \in Nat /\ t.nxt <= t.size /\ t.size <= END /\ END \in Nat
  BY UsedIs, HashTableAssumption DEF Good, END
<1>1. Blank.v = NULL
  BY DEF Blank
<1>2. ClosePlaces(t, u, m, j) /\ SameTable(t, u)
  BY DEF Closing
<1>3. /\ u.nxt = t.nxt /\ u.size = t.size
      /\ u.slot \in [0 .. (t.size - 1) -> [key : Key, v : Val, nxt : Nat] \cup {Blank}]
  BY <1>2 DEF SameTable
<1>4. \A x \in 0 .. (t.nxt - 1) :
        u.slot[x].v # NULL <=> x < j \/ (x >= m /\ t.slot[x].v # NULL)
  <2> TAKE x \in 0 .. (t.nxt - 1)
  <2>1. x < j => u.slot[x].v # NULL
    BY <1>2 DEF ClosePlaces
  <2>2. j <= x /\ x < m => u.slot[x].v = NULL
    BY <1>1, <1>2 DEF ClosePlaces
  <2>3. m <= x => u.slot[x] = t.slot[x]
    BY <1>0, <1>2 DEF ClosePlaces
  <2> QED BY <1>0, <1>2, <2>1, <2>2, <2>3 DEF ClosePlaces
<1>5. Used(u) = {x \in 0 .. (t.nxt - 1) : x < j \/ (x >= m /\ x \in Used(t))}
  BY <1>3, <1>4 DEF Used
<1>6. ASSUME NEW x \in Used(u)
      PROVE  /\ x \in Nat /\ x < t.nxt /\ x < t.size /\ u.slot[x].v # NULL
             /\ u.slot[x] \in [key : Key, v : Val, nxt : Nat]
             /\ Class(u, u.slot[x].key) \in 0 .. (u.size - 1)
  <2>1. x \in Nat /\ x < t.nxt /\ x < t.size /\ x \in 0 .. (t.size - 1) /\ u.slot[x].v # NULL
    BY <1>0, <1>3 DEF Used
  <2>2. u.slot[x] \in [key : Key, v : Val, nxt : Nat]
    BY <1>1, <1>3, <2>1
  <2>3. u.slot[x].key \in Key /\ u.size \in Nat \ {0}
    BY <1>0, <1>3, <2>1, <2>2
  <2> QED BY <2>1, <2>2, <2>3, ClassIs
<1>7. \A c : Members(u, c) \subseteq Used(u)
  BY DEF Members
<1> QED BY <1>0, <1>5, <1>6, <1>7

(* At the first hole: nothing has moved.                                      *)
LEMMA ClosingStart ==
  ASSUME NEW t, Good(t), NEW j \in Holes(t), \A x \in Holes(t) : j <= x
  PROVE  Closing(t, t, j + 1, j)
<1>0. t.nxt \in Nat /\ t.size \in Nat /\ t.nxt <= t.size /\ t.size <= END /\ END \in Nat
  BY UsedIs, HashTableAssumption DEF Good, END
<1>1. j \in Nat /\ j < t.nxt /\ t.slot[j].v = NULL
  BY <1>0 DEF Holes
<1>2. SameTable(t, t)
  BY DEF Good, Typed, SameTable
<1>3. ClosePlaces(t, t, j + 1, j)
  <2>1. ASSUME NEW x \in 0 .. (j - 1) PROVE t.slot[x].v # NULL
    BY <1>0, <1>1 DEF Holes
  <2>2. t.slot[j] = Blank
    <3>1. j \in 0 .. (t.size - 1)
      BY <1>0, <1>1
    <3>2. t.slot[j] \in [key : Key, v : Val, nxt : Nat] \cup {Blank}
      BY <3>1 DEF Good, Typed
    <3> QED BY <1>1, <3>2, HashTableAssumption
  <2>3. \A x \in j .. (j + 1 - 1) : x = j
    BY <1>1
  <2> QED BY <1>0, <1>1, <2>1, <2>2, <2>3 DEF ClosePlaces
<1>4. CloseLinks(t, j)
  <2>1. \A x \in 0 .. (j - 1) : x \in Used(t)
    BY <1>0, <1>1, <1>3 DEF Used, ClosePlaces
  <2> QED BY <2>1 DEF CloseLinks, Good, LinksRight
<1>5. CloseHeads(t, j + 1)
  <2> SUFFICES ASSUME NEW c \in 0 .. (t.size - 1)
               PROVE  \/ HeadDone(Members(t, c), j + 1, t.head[c])
                      \/ HeadAhead(Members(t, c), j + 1, t.head[c], t.slot)
    BY DEF CloseHeads
  <2> PICK S, h : S = Members(t, c) /\ h = t.head[c]
    OBVIOUS
  <2>1. Prior(S, t.nxt, h)
    BY DEF Good, HeadsRight
  <2>2. \A x \in S : x \in Used(t) /\ x \in Nat /\ x < t.nxt /\ Class(t, t.slot[x].key) = c
    BY UsedIs DEF Good, Members
  <2>3. CASE h = END /\ \A x \in S : ~ (x < t.nxt)
    <3>1. S = {}
      BY <2>2, <2>3
    <3> QED BY <2>3, <3>1 DEF HeadDone, Prior
  <2>4. CASE h \in S /\ h < j + 1 /\ \A x \in S : x < t.nxt => x <= h
    <3>1. h # END
      BY <1>0, <2>2, <2>4
    <3>2. Prior(S, j + 1, h)
      BY <2>2, <2>4 DEF Prior
    <3> QED BY <2>4, <3>1, <3>2 DEF HeadDone
  <2>5. CASE h \in S /\ ~ (h < j + 1)
    <3>1. h >= j + 1
      BY <1>1, <2>2, <2>5
    <3>2. ASSUME NEW q \in S, q >= j + 1, \A r \in S : r >= j + 1 => q <= r
          PROVE  Prior(S, j + 1, t.slot[q].nxt)
      <4>1. Prior(S, q, t.slot[q].nxt)
        BY <2>2 DEF Good, LinksRight
      <4>2. \A r \in S : r < q <=> r < j + 1
        BY <1>1, <2>2, <3>2
      <4> QED BY <4>1, <4>2 DEF Prior
    <3> QED BY <2>5, <3>1, <3>2 DEF HeadAhead
  <2> QED BY <2>1, <2>3, <2>4, <2>5 DEF Prior
<1>6. CloseEntries(t, t)
  BY DEF CloseEntries, SameEntries, Good
<1> QED BY <1>2, <1>3, <1>4, <1>5, <1>6 DEF Closing

(* A chain without a slot at m is right after it, if it was before.           *)
LEMMA HeadStays ==
  ASSUME NEW S \in SUBSET Nat, NEW m \in Nat, m \notin S, NEW h \in Nat, NEW slots,
         HeadDone(S, m, h) \/ HeadAhead(S, m, h, slots)
  PROVE  HeadDone(S, m + 1, h) \/ HeadAhead(S, m + 1, h, slots)
<1>1. \A x \in S : /\ x < m <=> x < m + 1
                   /\ x >= m <=> x >= m + 1
  OBVIOUS
<1>2. \A x : Prior(S, m, x) => Prior(S, m + 1, x)
  BY <1>1 DEF Prior
<1>3. CASE HeadDone(S, m, h)
  BY <1>2, <1>3 DEF HeadDone
<1>4. CASE HeadAhead(S, m, h, slots)
  <2>1. h \in S /\ h >= m + 1
    BY <1>1, <1>4 DEF HeadAhead
  <2>2. ASSUME NEW q \in S, q >= m + 1, \A r \in S : r >= m + 1 => q <= r
        PROVE  Prior(S, m + 1, slots[q].nxt)
    <3>1. q >= m /\ \A r \in S : r >= m => q <= r
      BY <1>1, <2>2
    <3>2. Prior(S, m, slots[q].nxt)
      BY <1>4, <3>1 DEF HeadAhead
    <3> QED BY <1>2, <3>2
  <2> QED BY <2>1, <2>2 DEF HeadAhead
<1> QED BY <1>3, <1>4

(* A hole is passed over.                                                     *)
LEMMA ClosingSkip ==
  ASSUME NEW t, Good(t), NEW u, NEW m, NEW j, Closing(t, u, m, j),
         m < t.nxt, t.slot[m].v = NULL
  PROVE  Closing(t, u, m + 1, j)
<1>0. /\ t.nxt \in Nat /\ t.size \in Nat /\ t.nxt <= t.size /\ j \in Nat /\ m \in Nat /\ j < m
      /\ SameTable(t, u)
  BY ClosingPlaces DEF Closing, ClosePlaces
<1>1. m \in 0 .. (t.size - 1) /\ t.slot[m] = Blank
  <2>1. m \in 0 .. (t.size - 1)
    BY <1>0
  <2>2. t.slot[m] \in [key : Key, v : Val, nxt : Nat] \cup {Blank}
    BY <2>1 DEF Good, Typed
  <2> QED BY <2>1, <2>2, HashTableAssumption
<1>2. m \notin Used(u)
  BY <1>0, ClosingPlaces DEF Used
<1>3. ClosePlaces(t, u, m + 1, j)
  <2>1. u.slot[m] = Blank
    BY <1>0, <1>1 DEF Closing, ClosePlaces
  <2>2. \A x \in j .. (m + 1 - 1) : u.slot[x] = Blank
    BY <1>0, <2>1 DEF Closing, ClosePlaces
  <2>3. \A x \in (m + 1) .. (t.size - 1) : u.slot[x] = t.slot[x]
    BY <1>0 DEF Closing, ClosePlaces
  <2>4. \A x \in 0 .. (j - 1) : u.slot[x].v # NULL
    BY DEF Closing, ClosePlaces
  <2> QED BY <1>0, <2>2, <2>3, <2>4 DEF ClosePlaces
<1>4. CloseHeads(u, m + 1)
  <2> SUFFICES ASSUME NEW c \in 0 .. (u.size - 1)
               PROVE  \/ HeadDone(Members(u, c), m + 1, u.head[c])
                      \/ HeadAhead(Members(u, c), m + 1, u.head[c], u.slot)
    BY DEF CloseHeads
  <2>1. Members(u, c) \in SUBSET Nat /\ m \notin Members(u, c)
    BY <1>2, ClosingPlaces
  <2>2. u.head[c] \in Nat
    BY <1>0 DEF SameTable
  <2>3. \/ HeadDone(Members(u, c), m, u.head[c])
        \/ HeadAhead(Members(u, c), m, u.head[c], u.slot)
    BY DEF Closing, CloseHeads
  <2> QED BY ONLY <1>0, <2>1, <2>2, <2>3, HeadStays
<1> QED BY <1>3, <1>4 DEF Closing

(* Moving a slot to a hole, field by field.                                   *)
LEMMA MoveIs ==
  ASSUME NEW a, NEW t, NEW j, t = a.t, j = a.j, Shape(t),
         NEW i, NEW c, c = Class(t, t.slot[i].key),
         NEW y, y = IF t.head[c] >= i THEN t.slot[i].nxt ELSE t.head[c],
         NEW x, x = [t.slot[i] EXCEPT !.nxt = y],
         NEW w, w = Move(a, i), NEW u, u = w.t
  PROVE  /\ w.j = j + 1 /\ Shape(u)
         /\ u.own = t.own /\ u.size = t.size /\ u.len = t.len /\ u.nxt = t.nxt
         /\ u.slot = [[t.slot EXCEPT ![j] = x] EXCEPT ![i] = Blank]
         /\ u.head = [t.head EXCEPT ![c] = j]
<1> PICK z : z = [t EXCEPT !.slot[j] = x, !.head[c] = j, !.slot[i] = Blank]
  OBVIOUS
<1>1. u = z /\ w.j = j + 1
  BY DEF Move
<1>2. z.slot = [[t.slot EXCEPT ![j] = x] EXCEPT ![i] = Blank]
  BY DEF Shape
<1>3. z.head = [t.head EXCEPT ![c] = j]
  BY DEF Shape
<1>4. z.own = t.own /\ z.size = t.size /\ z.len = t.len /\ z.nxt = t.nxt
  BY DEF Shape
<1>5. Shape(z)
  <2>1. z = [own |-> z.own, size |-> z.size, len |-> z.len, nxt |-> z.nxt,
             slot |-> z.slot, head |-> z.head]
    BY DEF Shape
  <2> QED BY ONLY <2>1 DEF Shape
<1> QED BY <1>1, <1>2, <1>3, <1>4, <1>5

(* A slot is moved to the first hole, and its chain goes on through it.       *)
LEMMA ClosingMove ==
  ASSUME NEW t, Good(t), NEW a, NEW m, Closing(t, a.t, m, a.j),
         m < t.nxt, t.slot[m].v # NULL
  PROVE  Closing(t, Move(a, m).t, m + 1, Move(a, m).j)
<1>u. PICK u, j : u = a.t /\ j = a.j
  OBVIOUS
<1>0. /\ t.nxt \in Nat /\ t.size \in Nat /\ t.nxt <= t.size /\ j \in Nat /\ m \in Nat /\ j < m
      /\ t.size <= END /\ END \in Nat
      /\ SameTable(t, u) /\ Closing(t, u, m, j)
  BY <1>u, ClosingPlaces DEF Closing, ClosePlaces
<1>1. /\ Shape(u) /\ u.own = t.own /\ u.size = t.size /\ u.len = t.len /\ u.nxt = t.nxt
      /\ u.slot \in [0 .. (t.size - 1) -> [key : Key, v : Val, nxt : Nat] \cup {Blank}]
      /\ u.head \in [0 .. (t.size - 1) -> Nat]
  BY <1>0 DEF SameTable
<1>2. /\ Used(u) = {x \in 0 .. (t.nxt - 1) : x < j \/ (x >= m /\ x \in Used(t))}
      /\ \A x \in Used(u) : /\ x \in Nat /\ x < t.nxt /\ x < t.size
                            /\ u.slot[x].v # NULL
                            /\ u.slot[x] \in [key : Key, v : Val, nxt : Nat]
                            /\ Class(u, u.slot[x].key) \in 0 .. (u.size - 1)
      /\ \A c : Members(u, c) \subseteq Used(u)
  BY <1>0, ClosingPlaces
<1>3. m \in Used(u) /\ j \notin Used(u) /\ m \in 0 .. (t.size - 1) /\ j \in 0 .. (t.size - 1)
  <2>1. m \in Used(t)
    BY <1>0 DEF Used
  <2> QED BY <1>0, <1>2, <2>1
<1>c. PICK c, e : c = Class(u, u.slot[m].key) /\ e = u.slot[m]
  OBVIOUS
<1>h. PICK h : h = u.head[c]
  OBVIOUS
<1>y. PICK y : y = IF h >= m THEN e.nxt ELSE h
  OBVIOUS
<1>4. /\ c \in 0 .. (t.size - 1) /\ h \in Nat /\ e \in [key : Key, v : Val, nxt : Nat]
      /\ e.v # NULL /\ y \in Nat
  BY <1>1, <1>2, <1>3, <1>c, <1>h, <1>y
<1>x. PICK x : x = [e EXCEPT !.nxt = y]
  OBVIOUS
<1>5. x \in [key : Key, v : Val, nxt : Nat] /\ x.key = e.key /\ x.v = e.v /\ x.nxt = y
  BY <1>4, <1>x
<1>w. PICK w : w = Move(a, m)
  OBVIOUS
<1>z. PICK z : z = w.t
  OBVIOUS
<1>6. /\ w.j = j + 1 /\ Shape(z)
      /\ z.own = t.own /\ z.size = t.size /\ z.len = t.len /\ z.nxt = t.nxt
      /\ z.slot = [[u.slot EXCEPT ![j] = x] EXCEPT ![m] = Blank]
      /\ z.head = [u.head EXCEPT ![c] = j]
  <2>1. /\ w.j = j + 1 /\ Shape(z)
        /\ z.own = u.own /\ z.size = u.size /\ z.len = u.len /\ z.nxt = u.nxt
        /\ z.slot = [[u.slot EXCEPT ![j] = x] EXCEPT ![m] = Blank]
        /\ z.head = [u.head EXCEPT ![c] = j]
    <3>1. x = [u.slot[m] EXCEPT !.nxt = y]
      BY <1>x, <1>c
    <3>2. y = IF u.head[c] >= m THEN u.slot[m].nxt ELSE u.head[c]
      BY <1>c, <1>h, <1>y
    <3> QED BY ONLY <1>u, <1>c, <1>1, <1>w, <1>z, <3>1, <3>2, MoveIs
  <2> QED BY <1>1, <2>1
<1>7. /\ z.slot[j] = x /\ z.slot[m] = Blank
      /\ \A i \in 0 .. (t.size - 1) : i # j /\ i # m => z.slot[i] = u.slot[i]
      /\ z.head[c] = j
      /\ \A d \in 0 .. (t.size - 1) : d # c => z.head[d] = u.head[d]
  BY <1>0, <1>1, <1>3, <1>4, <1>6
<1>8. SameTable(t, z)
  <2>1. z.slot \in [0 .. (t.size - 1) -> [key : Key, v : Val, nxt : Nat] \cup {Blank}]
    <3> PICK f, R : f = [u.slot EXCEPT ![j] = x] /\ R = [key : Key, v : Val, nxt : Nat] \cup {Blank}
      OBVIOUS
    <3>1. f \in [0 .. (t.size - 1) -> R]
      BY <1>1, <1>5
    <3>2. z.slot = [f EXCEPT ![m] = Blank] /\ Blank \in R
      BY <1>6
    <3>3. z.slot \in [0 .. (t.size - 1) -> R]
      BY ONLY <3>1, <3>2
    <3> QED BY <3>3
  <2>2. z.head \in [0 .. (t.size - 1) -> Nat]
    BY <1>0, <1>1, <1>6
  <2> QED BY <1>6, <2>1, <2>2 DEF SameTable
<1>9. ClosePlaces(t, z, m + 1, j + 1)
  <2>0. ClosePlaces(t, u, m, j)
    BY <1>0 DEF Closing
  <2>1. \A i \in 0 .. (j + 1 - 1) : z.slot[i].v # NULL
    <3> TAKE i \in 0 .. (j + 1 - 1)
    <3>1. CASE i = j
      BY <1>4, <1>5, <1>7, <3>1
    <3>2. CASE i # j
      <4>1. i \in 0 .. (j - 1) /\ i \in 0 .. (t.size - 1) /\ i # m
        BY <1>0, <3>2
      <4> QED BY <1>7, <2>0, <3>2, <4>1 DEF ClosePlaces
    <3> QED BY <3>1, <3>2
  <2>2. \A i \in (j + 1) .. (m + 1 - 1) : z.slot[i] = Blank
    <3> TAKE i \in (j + 1) .. (m + 1 - 1)
    <3>1. CASE i = m
      BY <1>7, <3>1
    <3>2. CASE i # m
      <4>1. i \in j .. (m - 1) /\ i \in 0 .. (t.size - 1) /\ i # j
        BY <1>0, <3>2
      <4> QED BY <1>7, <2>0, <3>2, <4>1 DEF ClosePlaces
    <3> QED BY <3>1, <3>2
  <2>3. \A i \in (m + 1) .. (t.size - 1) : z.slot[i] = t.slot[i]
    <3> TAKE i \in (m + 1) .. (t.size - 1)
    <3>1. i \in m .. (t.size - 1) /\ i \in 0 .. (t.size - 1) /\ i # j /\ i # m
      BY <1>0
    <3> QED BY <1>7, <2>0, <3>1 DEF ClosePlaces
  <2> QED BY <1>0, <2>1, <2>2, <2>3 DEF ClosePlaces
<1>10. Used(z) = (Used(u) \ {m}) \cup {j}
  <2>1. \A i \in 0 .. (t.nxt - 1) : i # j /\ i # m => z.slot[i] = u.slot[i]
    BY <1>0, <1>7
  <2>2. z.slot[j].v # NULL /\ z.slot[m].v = NULL
    BY <1>4, <1>5, <1>7 DEF Blank
  <2> QED BY <1>0, <1>1, <1>6, <2>1, <2>2 DEF Used
<1>11. \A k : Class(z, k) = Class(u, k)
  BY <1>1, <1>6, ClassSame
<1>12. \A i \in Used(u) \ {m} : z.slot[i] = u.slot[i]
  <2>1. \A i \in Used(u) : i \in 0 .. (t.size - 1) /\ i # j
    BY <1>0, <1>2, <1>3
  <2> QED BY <1>7, <2>1
<1>13. \A d, i : i \in Members(z, d) <=> (i \in Members(u, d) /\ i # m) \/ (d = c /\ i = j)
  <2>1. Class(z, z.slot[j].key) = c
    BY <1>5, <1>7, <1>11, <1>c
  <2>2. \A i \in Used(u) \ {m} : Class(z, z.slot[i].key) = Class(u, u.slot[i].key)
    BY <1>11, <1>12
  <2> QED BY ONLY <1>3, <1>10, <2>1, <2>2 DEF Members
<1>m. \A d : m \in Members(u, d) <=> d = c
  BY <1>3, <1>c DEF Members
<1>S. PICK S : S = Members(u, c)
  OBVIOUS
<1>14. m \in S /\ S \in SUBSET Nat /\ \A i \in S : i < m => i < j
  BY <1>0, <1>2, <1>m, <1>S
<1>15. HeadDone(S, m, h) \/ HeadAhead(S, m, h, u.slot)
  BY <1>0, <1>1, <1>4, <1>h, <1>S DEF Closing, CloseHeads
<1>16. Prior(S, m, y)
  <2>1. CASE HeadDone(S, m, h)
    <3>1. h < m /\ y = h
      BY <1>0, <1>4, <1>14, <1>y, <2>1 DEF HeadDone
    <3> QED BY <2>1, <3>1 DEF HeadDone
  <2>2. CASE HeadAhead(S, m, h, u.slot)
    <3>1. y = u.slot[m].nxt
      BY <1>c, <1>y, <2>2 DEF HeadAhead
    <3>2. m >= m /\ \A r \in S : r >= m => m <= r
      BY <1>0, <1>14
    <3> QED BY <1>14, <2>2, <3>1, <3>2 DEF HeadAhead
  <2> QED BY <1>15, <2>1, <2>2
<1>17. Prior(S, j, y)
  <2>1. \A r \in S : r < m <=> r < j
    BY ONLY <1>0, <1>14
  <2> QED BY ONLY <1>16, <2>1 DEF Prior
<1>18. \A d : \A i \in Members(u, d) : i < j => i \in Members(z, d)
  BY <1>0, <1>13
<1>19. \A d : \A i \in Members(z, d) : i < j => i \in Members(u, d)
  BY <1>0, <1>13
<1>20. CloseLinks(z, j + 1)
  <2> SUFFICES ASSUME NEW i \in 0 .. j
               PROVE  Prior(Members(z, Class(u, z.slot[i].key)), i, z.slot[i].nxt)
    BY <1>0, <1>11 DEF CloseLinks
  <2>1. CASE i = j
    <3>1. z.slot[i].nxt = y /\ Class(u, z.slot[i].key) = c
      BY <1>5, <1>7, <1>c, <2>1
    <3> QED BY <1>17, <1>S, <1>18, <1>19, <2>1, <3>1, PriorSame
  <2>2. CASE i # j
    <3>1. i \in 0 .. (j - 1) /\ i # m /\ i \in 0 .. (t.size - 1)
      BY <1>0, <2>2
    <3>2. z.slot[i] = u.slot[i]
      BY <1>7, <2>2, <3>1
    <3> PICK d : d = Class(u, u.slot[i].key)
      OBVIOUS
    <3>3. Prior(Members(u, d), i, u.slot[i].nxt)
      BY <1>0, <3>1 DEF Closing, CloseLinks
    <3>4. \A r \in Members(u, d) : r < i => r \in Members(z, d)
      BY <1>0, <1>2, <1>18, <3>1
    <3>5. \A r \in Members(z, d) : r < i => r \in Members(u, d)
      <4> TAKE r \in Members(z, d)
      <4>1. r \in Members(u, d) \/ r = j
        BY <1>13
      <4> QED BY <1>0, <3>1, <4>1
    <3> QED BY <3>2, <3>3, <3>4, <3>5, PriorSame
  <2> QED BY <2>1, <2>2
<1>21. CloseHeads(z, m + 1)
  <2> SUFFICES ASSUME NEW d \in 0 .. (t.size - 1)
               PROVE  \/ HeadDone(Members(z, d), m + 1, z.head[d])
                      \/ HeadAhead(Members(z, d), m + 1, z.head[d], z.slot)
    BY <1>6 DEF CloseHeads
  <2>1. CASE d = c
    <3>1. Members(z, d) = (S \ {m}) \cup {j} /\ z.head[d] = j
      BY <1>7, <1>13, <1>S, <2>1
    <3>2. Prior((S \ {m}) \cup {j}, m + 1, j)
      <4>1. \A i \in S \ {m} : i < m + 1 => i < j
        BY <1>0, <1>14
      <4>2. \A i \in (S \ {m}) \cup {j} : i < m + 1 => i <= j
        BY <1>0, <1>14, <4>1
      <4> QED BY <1>0, <4>2 DEF Prior
    <3>3. j # END /\ j < m + 1
      BY <1>0
    <3> QED BY <3>1, <3>2, <3>3 DEF HeadDone
  <2>2. CASE d # c
    <3>1. Members(z, d) = Members(u, d) /\ z.head[d] = u.head[d]
      BY <1>7, <1>13, <1>m, <2>2
    <3>2. m \notin Members(u, d) /\ Members(u, d) \in SUBSET Nat /\ u.head[d] \in Nat
      <4>1. \A i \in Members(u, d) : i \in Nat
        BY <1>2
      <4>2. u.head[d] \in Nat
        BY <1>1
      <4> QED BY <1>m, <2>2, <4>1, <4>2
    <3>3. \/ HeadDone(Members(u, d), m, u.head[d])
          \/ HeadAhead(Members(u, d), m, u.head[d], u.slot)
      BY <1>0, <1>1 DEF Closing, CloseHeads
    <3>4. \/ HeadDone(Members(u, d), m + 1, u.head[d])
          \/ HeadAhead(Members(u, d), m + 1, u.head[d], u.slot)
      BY ONLY <1>0, <3>2, <3>3, HeadStays
    <3>5. \A q \in Members(u, d) : z.slot[q] = u.slot[q]
      BY <1>2, <1>12, <3>2
    <3> QED BY <3>1, <3>4, <3>5 DEF HeadDone, HeadAhead
  <2> QED BY <2>1, <2>2
<1>22. CloseEntries(t, z)
  <2>0. OneEach(u) /\ SameEntries(t, u) /\ Cardinality(Used(u)) = Cardinality(Used(t))
    BY <1>0 DEF Closing, CloseEntries
  <2>1. z.slot[j].key = u.slot[m].key /\ z.slot[j].v = u.slot[m].v
    BY <1>5, <1>7, <1>c
  <2>2. OneEach(z)
    BY <1>3, <1>10, <1>12, <2>0, <2>1 DEF OneEach
  <2>3. \A k, v : Holds(z, k, v) <=> Holds(u, k, v)
    <3> TAKE k, v
    <3>1. ASSUME NEW i \in Used(u), u.slot[i].key = k, u.slot[i].v = v PROVE Holds(z, k, v)
      <4>1. CASE i = m
        BY <1>10, <2>1, <3>1, <4>1 DEF Holds
      <4>2. CASE i # m
        BY <1>10, <1>12, <3>1, <4>2 DEF Holds
      <4> QED BY <4>1, <4>2
    <3>2. ASSUME NEW i \in Used(z), z.slot[i].key = k, z.slot[i].v = v PROVE Holds(u, k, v)
      <4>1. CASE i = j
        BY <1>3, <2>1, <3>2, <4>1 DEF Holds
      <4>2. CASE i # j
        <5>1. i \in Used(u) \ {m}
          BY <1>10, <4>2
        <5> QED BY <1>12, <3>2, <5>1 DEF Holds
      <4> QED BY <4>1, <4>2
    <3> QED BY <3>1, <3>2 DEF Holds
  <2>4. SameEntries(t, z)
    BY <2>0, <2>3 DEF SameEntries
  <2>5. Cardinality(Used(z)) = Cardinality(Used(u))
    <3>1. IsFiniteSet(Used(u)) /\ Cardinality(Used(u)) \in Nat
      BY <1>0, <1>1, UsedFinite
    <3>2. /\ IsFiniteSet(Used(u) \ {m})
          /\ Cardinality(Used(u) \ {m}) = Cardinality(Used(u)) - 1
      BY <1>3, <3>1, FS_RemoveElement
    <3>3. j \notin Used(u) \ {m}
      BY <1>3
    <3>4. Cardinality((Used(u) \ {m}) \cup {j}) = Cardinality(Used(u) \ {m}) + 1
      BY <3>2, <3>3, FS_AddElement
    <3> QED BY <1>10, <3>1, <3>2, <3>4
  <2> QED BY <2>0, <2>2, <2>4, <2>5 DEF CloseEntries
<1>23. Closing(t, z, m + 1, j + 1)
  BY <1>8, <1>9, <1>20, <1>21, <1>22 DEF Closing
<1> QED BY <1>6, <1>23, <1>w, <1>z

(* The fill mark goes to the first hole.                                      *)
Ended(u, j) == [u EXCEPT !.nxt = j]

(* After the last slot, the table is good again, and full to its fill mark.   *)
LEMMA ClosingEnd ==
  ASSUME NEW t, Good(t), NEW u, NEW j, Closing(t, u, t.nxt, j),
         NEW w, w = Ended(u, j)
  PROVE  /\ Good(w) /\ w.own = t.own /\ w.size = t.size /\ w.nxt = t.len
         /\ SameEntries(t, w)
<1>0. /\ t.nxt \in Nat /\ t.size \in Nat /\ t.nxt <= t.size /\ j \in Nat /\ j < t.nxt
      /\ t.size <= END /\ END \in Nat /\ t.size \in 0 .. MaxSize /\ t.own \in BOOLEAN
      /\ SameTable(t, u) /\ ClosePlaces(t, u, t.nxt, j) /\ CloseLinks(u, j)
      /\ CloseHeads(u, t.nxt) /\ CloseEntries(t, u)
  BY ClosingPlaces DEF Closing, ClosePlaces, Good, Typed
<1>1. /\ Shape(u) /\ u.own = t.own /\ u.size = t.size /\ u.len = t.len /\ u.nxt = t.nxt
      /\ u.slot \in [0 .. (t.size - 1) -> [key : Key, v : Val, nxt : Nat] \cup {Blank}]
      /\ u.head \in [0 .. (t.size - 1) -> Nat]
  BY <1>0 DEF SameTable
<1>2. /\ w.own = t.own /\ w.size = t.size /\ w.len = t.len /\ w.nxt = j
      /\ w.slot = u.slot /\ w.head = u.head /\ Shape(w)
  <2>1. /\ w.own = u.own /\ w.size = u.size /\ w.len = u.len /\ w.nxt = j
        /\ w.slot = u.slot /\ w.head = u.head
    BY <1>1 DEF Shape, Ended
  <2>2. w = [own |-> w.own, size |-> w.size, len |-> w.len, nxt |-> w.nxt,
             slot |-> w.slot, head |-> w.head]
    BY <1>1 DEF Shape, Ended
  <2>3. Shape(w)
    BY ONLY <2>2 DEF Shape
  <2> QED BY <1>1, <2>1, <2>3
<1>3. Used(u) = 0 .. (j - 1)
  <2>1. /\ Used(u) = {x \in 0 .. (t.nxt - 1) : x < j \/ (x >= t.nxt /\ x \in Used(t))}
        /\ Used(u) \subseteq Nat
    BY ClosingPlaces
  <2> QED BY <1>0, <2>1
<1>4. Used(w) = 0 .. (j - 1)
  <2>1. \A x \in 0 .. (j - 1) : u.slot[x].v # NULL
    BY <1>0 DEF ClosePlaces
  <2> QED BY <1>2, <2>1 DEF Used
<1>5. \A k : Class(w, k) = Class(u, k)
  BY <1>1, <1>2, ClassSame
<1>6. \A c : Members(w, c) = Members(u, c)
  BY <1>2, <1>3, <1>4, <1>5 DEF Members
<1>7. \A c : Members(u, c) \subseteq 0 .. (j - 1)
  BY <1>3 DEF Members
<1>8. Typed(w)
  <2>1. j \in 0 .. t.size
    BY <1>0
  <2> QED BY <1>0, <1>1, <1>2, <2>1 DEF Typed
<1>9. Behind(w)
  <2> SUFFICES ASSUME NEW x \in j .. (t.size - 1) PROVE u.slot[x] = Blank
    BY <1>2 DEF Behind
  <2>1. CASE x < t.nxt
    BY <1>0, <2>1 DEF ClosePlaces
  <2>2. CASE x >= t.nxt
    <3>1. x \in t.nxt .. (t.size - 1)
      BY <1>0, <2>2
    <3> QED BY <1>0, <3>1 DEF ClosePlaces, Good, Behind
  <2> QED BY <1>0, <2>1, <2>2
<1>10. HeadsRight(w)
  <2> SUFFICES ASSUME NEW c \in 0 .. (t.size - 1)
               PROVE  Prior(Members(u, c), j, u.head[c])
    BY <1>2, <1>6 DEF HeadsRight
  <2> PICK S, h : S = Members(u, c) /\ h = u.head[c]
    OBVIOUS
  <2>1. \A x \in S : x \in Nat /\ x < j /\ x < t.nxt
    BY <1>0, <1>7
  <2>2. HeadDone(S, t.nxt, h) \/ HeadAhead(S, t.nxt, h, u.slot)
    BY <1>0, <1>1 DEF CloseHeads
  <2>3. ~ HeadAhead(S, t.nxt, h, u.slot)
    BY <1>0, <2>1 DEF HeadAhead
  <2>4. Prior(S, t.nxt, h)
    BY <2>2, <2>3 DEF HeadDone
  <2>5. Prior(S, j, h)
    BY ONLY <2>1, <2>4 DEF Prior
  <2> QED BY <2>5
<1>11. LinksRight(w)
  BY <1>0, <1>2, <1>4, <1>5, <1>6 DEF LinksRight, CloseLinks
<1>12. OneEach(w) /\ SameEntries(t, w)
  BY <1>0, <1>2, <1>3, <1>4 DEF CloseEntries, OneEach, SameEntries, Holds
<1>13. Counted(w) /\ w.nxt = t.len
  <2>1. Cardinality(0 .. (j - 1)) = j
    BY <1>0, FS_Interval
  <2>2. t.len = Cardinality(Used(t)) /\ Cardinality(Used(u)) = Cardinality(Used(t))
    BY <1>0 DEF CloseEntries, Good, Counted
  <2> QED BY <1>2, <1>3, <1>4, <2>1, <2>2 DEF Counted
<1> QED BY <1>2, <1>8, <1>9, <1>10, <1>11, <1>12, <1>13 DEF Good

(* The loop of jbl_ht_rehash, slot by slot.                                   *)
LEMMA RehashedLoop ==
  ASSUME NEW t, t.nxt \in Nat, Holes(t) # {}
  PROVE  \E a, f :
           /\ a \in Holes(t)
           /\ \A x \in Holes(t) : a <= x
           /\ f[a] = [t |-> t, j |-> a]
           /\ \A i \in (a + 1) .. (t.nxt - 1) :
                f[i] = IF t.slot[i].v = NULL THEN f[i - 1] ELSE Move(f[i - 1], i)
           /\ Rehashed(t) = [f[t.nxt - 1].t EXCEPT !.nxt = f[t.nxt - 1].j]
<1> DEFINE a == Min(Holes(t))
           b == t.nxt - 1
           Start == [t |-> t, j |-> a]
           Step(x, i) == IF t.slot[i].v = NULL THEN x ELSE Move(x, i)
           Body(f, i) == IF i = a THEN [t |-> t, j |-> a]
                         ELSE IF t.slot[i].v = NULL THEN f[i - 1] ELSE Move(f[i - 1], i)
           f == CHOOSE g : g = [i \in a .. b |-> Body(g, i)]
           T == {m \in Nat : a <= m /\ m <= b
                   /\ ~ \E g : g[a] = Start /\ \A i \in (a + 1) .. m : g[i] = Step(g[i - 1], i)}
<1>1. Rehashed(t) = [f[b].t EXCEPT !.nxt = f[b].j]
  BY DEF Rehashed
<1>a. a \in Holes(t) /\ \A x \in Holes(t) : a <= x
  <2>1. Holes(t) \subseteq Nat
    BY DEF Holes
  <2>2. PICK x \in Holes(t) : \A y \in Holes(t) : x <= y
    BY <2>1, LeastNumber
  <2> QED BY <2>2 DEF Min
<1> HIDE DEF a
<1>b. a \in Nat /\ b \in Nat /\ a <= b
  BY <1>a DEF Holes
<1> HIDE DEF b
<1> HIDE DEF Step, Start
<1>2. T = {}
  <2> SUFFICES ASSUME T # {} PROVE FALSE
    OBVIOUS
  <2>1. PICK m \in T : \A y \in T : m <= y
    BY <1>b, LeastNumber
  <2>2. m # a
    <3> DEFINE g == [i \in a .. a |-> Start]
    <3>1. g[a] = Start /\ \A i \in (a + 1) .. a : g[i] = Step(g[i - 1], i)
      BY <1>b
    <3> HIDE DEF g
    <3> QED BY <3>1
  <2>3. m - 1 \in Nat /\ m - 1 \notin T /\ m \in Nat /\ a <= m - 1 /\ m <= b
    <3>1. m \in Nat /\ a <= m /\ m <= b
      OBVIOUS
    <3>2. m - 1 \in Nat /\ a <= m - 1 /\ ~ (m <= m - 1)
      BY <1>b, <2>2, <3>1
    <3>3. m - 1 \notin T
      BY <2>1, <3>2
    <3> QED BY <3>1, <3>2, <3>3
  <2>4. PICK g : g[a] = Start /\ \A i \in (a + 1) .. (m - 1) : g[i] = Step(g[i - 1], i)
    BY <1>b, <2>3
  <2> DEFINE h == [i \in a .. m |-> IF i = m THEN Step(g[m - 1], m) ELSE g[i]]
  <2>5. h[a] = Start /\ h[m] = Step(h[m - 1], m)
    BY <1>b, <2>2, <2>3, <2>4
  <2>6. ASSUME NEW i \in (a + 1) .. (m - 1) PROVE h[i] = Step(h[i - 1], i)
    <3>1. h[i] = g[i] /\ h[i - 1] = g[i - 1]
      BY <1>b, <2>3
    <3> QED BY <2>4, <3>1
  <2> HIDE DEF h
  <2>7. \A i \in (a + 1) .. m : i = m \/ i \in (a + 1) .. (m - 1)
    BY <1>b, <2>3
  <2>8. h[a] = Start /\ \A i \in (a + 1) .. m : h[i] = Step(h[i - 1], i)
    BY <2>5, <2>6, <2>7
  <2> QED BY <2>1, <2>8
<1>3. b \notin T
  BY <1>2
<1>4. PICK g : g[a] = Start /\ \A i \in (a + 1) .. b : g[i] = Step(g[i - 1], i)
  BY <1>3, <1>b
<1> DEFINE h == [i \in a .. b |-> g[i]]
<1>5. ASSUME NEW i \in a .. b PROVE h[i] = Body(h, i)
  <2>1. CASE i = a
    BY <1>4, <2>1 DEF Start
  <2>2. CASE i # a
    <3>1. i \in (a + 1) .. b /\ h[i] = g[i] /\ h[i - 1] = g[i - 1]
      BY <1>b, <2>2
    <3> QED BY <1>4, <2>2, <3>1 DEF Step
  <2> QED BY <2>1, <2>2
<1>6. h = [i \in a .. b |-> h[i]]
  OBVIOUS
<1> HIDE DEF h, Body
<1>7. h = [i \in a .. b |-> Body(h, i)]
  BY <1>5, <1>6
<1>8. f = [i \in a .. b |-> Body(f, i)]
  BY <1>7
<1>9. PICK k : k = f
  OBVIOUS
<1>10. \A i \in a .. b : k[i] = Body(k, i)
  BY <1>8, <1>9
<1>11. k[a] = [t |-> t, j |-> a]
  BY <1>10, <1>b DEF Body
<1>12. \A i \in (a + 1) .. b : k[i] = IF t.slot[i].v = NULL THEN k[i - 1] ELSE Move(k[i - 1], i)
  <2> TAKE i \in (a + 1) .. b
  <2>1. i \in a .. b /\ i # a
    BY <1>b
  <2> QED BY <1>10, <2>1 DEF Body
<1>13. Rehashed(t) = [k[b].t EXCEPT !.nxt = k[b].j]
  BY <1>1, <1>9
<1> HIDE DEF f
<1>14. b = t.nxt - 1
  BY DEF b
<1> QED BY <1>11, <1>12, <1>13, <1>14, <1>a

(* Closing the holes keeps the table and its entries, and leaves no hole.     *)
LEMMA RehashedGood ==
  ASSUME NEW t, Good(t)
  PROVE  /\ Good(Rehashed(t)) /\ Rehashed(t).own = t.own /\ Rehashed(t).size = t.size
         /\ Rehashed(t).nxt = t.len /\ SameEntries(t, Rehashed(t))
<1>0. t.nxt \in Nat
  BY UsedIs DEF Good
<1>1. CASE Holes(t) = {}
  <2>1. Rehashed(t) = t
    BY <1>1 DEF Rehashed
  <2>2. Used(t) = 0 .. (t.nxt - 1)
    BY <1>1 DEF Holes, Used
  <2>3. t.nxt = t.len
    BY <1>0, <2>2, FS_Interval DEF Good, Counted
  <2> QED BY <2>1, <2>3 DEF SameEntries
<1>2. CASE Holes(t) # {}
  <2> PICK b : b = t.nxt - 1
    OBVIOUS
  <2>1. PICK a, f :
           /\ a \in Holes(t)
           /\ \A x \in Holes(t) : a <= x
           /\ f[a] = [t |-> t, j |-> a]
           /\ \A i \in (a + 1) .. b :
                f[i] = IF t.slot[i].v = NULL THEN f[i - 1] ELSE Move(f[i - 1], i)
           /\ Rehashed(t) = [f[b].t EXCEPT !.nxt = f[b].j]
    BY <1>0, <1>2, RehashedLoop
  <2>a. a \in Holes(t)
    BY <2>1
  <2> USE <2>a
  <2>3. \A x \in Holes(t) : a <= x
    BY <2>1
  <2>4. a \in Nat /\ b \in Nat /\ a <= b
    BY <1>0 DEF Holes
  <2>6. PICK w : w = [f[b].t EXCEPT !.nxt = f[b].j] /\ Rehashed(t) = w
    BY <2>1
  <2>7. f[a] = [t |-> t, j |-> a]
        /\ \A i \in (a + 1) .. b : f[i] = IF t.slot[i].v = NULL THEN f[i - 1]
                                          ELSE Move(f[i - 1], i)
    BY <2>1
  <2> DEFINE P(i) == Closing(t, f[i].t, i + 1, f[i].j)
             T == {i \in Nat : a <= i /\ i <= b /\ ~ P(i)}
  <2>8. P(a)
    BY <2>3, <2>7, ClosingStart
  <2>9. ASSUME NEW i \in (a + 1) .. b, P(i - 1)
        PROVE  P(i)
    <3> PICK c : c = f[i - 1]
      OBVIOUS
    <3>1. Closing(t, c.t, i, c.j) /\ i < t.nxt
      <4>1. i - 1 + 1 = i
        BY <2>4
      <4> QED BY <1>0, <2>4, <2>9, <4>1
    <3>2. f[i] = IF t.slot[i].v = NULL THEN c ELSE Move(c, i)
      BY <2>7
    <3>3. CASE t.slot[i].v = NULL
      BY <3>1, <3>2, <3>3, ClosingSkip
    <3>4. CASE t.slot[i].v # NULL
      BY <3>1, <3>2, <3>4, ClosingMove
    <3> QED BY <3>3, <3>4
  <2> HIDE DEF P
  <2>10. T = {}
    <3> SUFFICES ASSUME T # {} PROVE FALSE
      OBVIOUS
    <3>1. PICK m \in T : \A y \in T : m <= y
      BY LeastNumber
    <3>2. m # a /\ m \in Nat /\ a <= m /\ m <= b
      BY <2>8, <3>1
    <3>3. m - 1 \in Nat /\ m - 1 \notin T /\ m \in (a + 1) .. b /\ a <= m - 1 /\ m - 1 <= b
      BY <2>4, <3>1, <3>2
    <3>4. P(m - 1)
      BY <3>3
    <3> QED BY <2>9, <3>1, <3>3, <3>4
  <2>11. P(b)
    BY <2>4, <2>10
  <2>12. Closing(t, f[b].t, t.nxt, f[b].j)
    <3>1. b + 1 = t.nxt
      BY <1>0
    <3> QED BY <2>11, <3>1 DEF P
  <2> PICK u, j : u = f[b].t /\ j = f[b].j
    OBVIOUS
  <2>13. w = Ended(u, j) /\ Closing(t, u, t.nxt, j)
    BY <2>6, <2>12 DEF Ended
  <2>14. /\ Good(w) /\ w.own = t.own /\ w.size = t.size /\ w.nxt = t.len
         /\ SameEntries(t, w)
    BY ONLY <2>13, Good(t), ClosingEnd
  <2> QED BY <2>6, <2>14
<1> QED BY <1>1, <1>2
-----------------------------------------------------------------------------
(* jbl_ht_extend_to gives a table of this variable alone with the same        *)
(* entries and with room for what is asked for, in each of its three ways.    *)
LEMMA ExtendGood ==
  ASSUME NEW t, Good(t), NEW n \in Nat, NEW u, u = ExtendTo(t, n), u.size <= MaxSize
  PROVE  /\ Good(u) /\ u.own = TRUE /\ u.nxt + n <= u.size /\ SameEntries(t, u)
<1>0. t.nxt \in Nat /\ t.size \in Nat /\ t.len \in Nat /\ t.own \in BOOLEAN
      /\ MinSize \in Nat \ {0} /\ MaxSize \in Nat
  BY UsedIs, UsedFinite, HashTableAssumption DEF Good, Typed, Counted
<1> DEFINE need == IF n + t.nxt > MinSize THEN n + t.nxt ELSE MinSize
<1>1. need \in Nat \ {0} /\ n + t.nxt <= need
  BY <1>0
<1>p. PICK want : want = PowerUp(need)
  OBVIOUS
<1>2. want \in Nat /\ n + t.nxt <= want
  <2>1. PICK m : m = need
    OBVIOUS
  <2> HIDE DEF need
  <2>2. want \in m .. 2 * m
    BY <1>1, <1>p, <2>1, PowerUpIs
  <2> QED BY <1>0, <1>1, <2>1, <2>2
<1>3. u = CASE t.own /\ want <= t.size -> t
            [] t.own /\ want > t.size /\ 2 * (n + t.len) < t.size -> Rehashed(t)
            [] OTHER -> Copied(t, want)
  BY <1>p DEF ExtendTo
<1> HIDE DEF need
<1>4. CASE t.own /\ want <= t.size
  <2>1. u = t
    BY <1>0, <1>2, <1>3, <1>4
  <2> QED BY <1>0, <1>2, <1>4, <2>1 DEF SameEntries
<1>5. CASE t.own /\ want > t.size /\ 2 * (n + t.len) < t.size
  <2>1. u = Rehashed(t)
    BY <1>0, <1>2, <1>3, <1>5
  <2>2. Good(u) /\ u.own = t.own /\ u.size = t.size /\ u.nxt = t.len /\ SameEntries(t, u)
    BY <2>1, RehashedGood
  <2> QED BY <1>0, <1>5, <2>2
<1>6. CASE ~ (t.own /\ want <= t.size)
           /\ ~ (t.own /\ want > t.size /\ 2 * (n + t.len) < t.size)
  <2>1. u = Copied(t, want)
    BY <1>3, <1>6
  <2>2. t.nxt <= want
    BY <1>0, <1>2
  <2>3. u.size = want /\ want <= MaxSize
    BY <1>2, <2>1, <2>2, CopiedGood
  <2>4. Good(u) /\ u.own = TRUE /\ u.nxt <= t.nxt /\ SameEntries(t, u)
    BY <1>2, <2>1, <2>2, <2>3, CopiedGood
  <2>5. u.nxt \in Nat
    BY <2>4, UsedIs DEF Good
  <2> QED BY <1>0, <1>2, <2>3, <2>4, <2>5
<1> QED BY <1>4, <1>5, <1>6
-----------------------------------------------------------------------------
(* What looking up through the chains sees is the function that has the       *)
(* entries of the table.                                                      *)
LEMMA ContentsAre ==
  ASSUME NEW t, Good(t), NEW D \in SUBSET Key, NEW f \in [D -> Val],
         \A k \in Key, v \in Val : Holds(t, k, v) <=> k \in D /\ f[k] = v
  PROVE  ContentsOf(t) = f
<1>1. \A i \in Used(t) : t.slot[i].key \in Key /\ t.slot[i].v \in Val
  BY UsedIs DEF Good
<1>2. ASSUME NEW k \in Key
      PROVE  /\ Find(t, k) # END <=> k \in D
             /\ k \in D => t.slot[Find(t, k)].v = f[k]
  <2> PICK i : i = Find(t, k)
    OBVIOUS
  <2>1. CASE i \in Used(t) /\ t.slot[i].key = k /\ i # END
    <3>1. Holds(t, k, t.slot[i].v) /\ t.slot[i].v \in Val
      BY <1>1, <2>1 DEF Holds
    <3> QED BY <2>1, <3>1
  <2>2. CASE i = END /\ \A j \in Used(t) : t.slot[j].key # k
    <3>1. \A v \in Val : ~ Holds(t, k, v)
      BY <2>2 DEF Holds
    <3> QED BY <2>2, <3>1
  <2> QED BY <2>1, <2>2, FindIs
<1>3. {q \in Key : Find(t, q) # END} = D
  BY <1>2
<1>4. ContentsOf(t) = [k \in D |-> t.slot[Find(t, k)].v]
  BY <1>3 DEF ContentsOf
<1>5. \A k \in D : t.slot[Find(t, k)].v = f[k]
  BY <1>2
<1> HIDE DEF ContentsOf
<1> QED BY <1>4, <1>5

(* It is a function from keys to values, and has the entries of the table.    *)
LEMMA ContentsHold ==
  ASSUME NEW t, Good(t)
  PROVE  \E D \in SUBSET Key : /\ ContentsOf(t) \in [D -> Val]
                               /\ DOMAIN ContentsOf(t) = D
                               /\ \A k \in Key, v \in Val :
                                    Holds(t, k, v) <=> k \in D /\ ContentsOf(t)[k] = v
<1> DEFINE D == {k \in Key : \E v \in Val : Holds(t, k, v)}
           f == [k \in D |-> CHOOSE v \in Val : Holds(t, k, v)]
<1>1. \A k, x, y : Holds(t, k, x) /\ Holds(t, k, y) => x = y
  BY DEF Holds, Good, OneEach
<1>2. \A k \in D : f[k] \in Val /\ Holds(t, k, f[k])
  OBVIOUS
<1>3. f \in [D -> Val]
  BY <1>2
<1>4. \A k \in Key, v \in Val : Holds(t, k, v) <=> k \in D /\ f[k] = v
  BY <1>1, <1>2
<1>5. D \in SUBSET Key /\ DOMAIN f = D
  OBVIOUS
<1> HIDE DEF D, f
<1>6. ContentsOf(t) = f
  BY <1>3, <1>4, <1>5, ContentsAre
<1> QED BY <1>3, <1>4, <1>5, <1>6

(* Tables with the same entries look the same.                                *)
LEMMA ContentsSame ==
  ASSUME NEW t, Good(t), NEW u, Good(u), SameEntries(t, u)
  PROVE  ContentsOf(t) = ContentsOf(u)
<1>1. PICK D \in SUBSET Key :
        /\ ContentsOf(t) \in [D -> Val]
        /\ \A k \in Key, v \in Val : Holds(t, k, v) <=> k \in D /\ ContentsOf(t)[k] = v
  BY ContentsHold
<1>2. \A k \in Key, v \in Val : Holds(u, k, v) <=> k \in D /\ ContentsOf(t)[k] = v
  BY <1>1 DEF SameEntries
<1> QED BY <1>1, <1>2, ContentsAre

(* The loop of jbl_ht_merge, entry by entry.                                  *)
LEMMA PutsLoop ==
  ASSUME NEW t, NEW s, Len(s) \in Nat
  PROVE  \E f : /\ f[0] = t /\ f[Len(s)] = Puts(t, s)
                /\ \A i \in 1 .. Len(s) : f[i] = Put(f[i - 1], s[i])
<1> DEFINE n == Len(s)
           Step(a, i) == Put(a, s[i])
           Body(f, i) == IF i = 0 THEN t ELSE Put(f[i - 1], s[i])
           f == CHOOSE g : g = [i \in 0 .. n |-> Body(g, i)]
           T == {m \in Nat : m <= n /\ ~ \E g : /\ g[0] = t
                                                /\ \A i \in 1 .. m : g[i] = Step(g[i - 1], i)}
<1>1. Puts(t, s) = f[n]
  BY DEF Puts
<1> HIDE DEF Step
<1>2. n \in Nat
  OBVIOUS
<1> HIDE DEF n
<1>3. T = {}
  <2> SUFFICES ASSUME T # {} PROVE FALSE
    OBVIOUS
  <2>1. PICK m \in T : \A y \in T : m <= y
    BY LeastNumber
  <2>2. m # 0
    <3> DEFINE g == [i \in 0 .. 0 |-> t]
    <3>1. g[0] = t /\ \A i \in 1 .. 0 : g[i] = Step(g[i - 1], i)
      OBVIOUS
    <3> HIDE DEF g
    <3> QED BY <3>1
  <2>3. m - 1 \in Nat /\ m - 1 \notin T /\ m \in Nat /\ m <= n
    <3>1. m \in Nat /\ m <= n
      OBVIOUS
    <3>2. m - 1 \in Nat /\ ~ (m <= m - 1)
      BY <2>2, <3>1
    <3>3. m - 1 \notin T
      BY ONLY <2>1, <3>2
    <3> QED BY <3>1, <3>2, <3>3
  <2>4. PICK g : g[0] = t /\ \A i \in 1 .. (m - 1) : g[i] = Step(g[i - 1], i)
    BY <1>2, <2>3
  <2> DEFINE h == [i \in 0 .. m |-> IF i = m THEN Step(g[m - 1], m) ELSE g[i]]
  <2>5. h[0] = t /\ h[m] = Step(h[m - 1], m)
    BY <2>2, <2>3, <2>4
  <2>6. ASSUME NEW i \in 1 .. (m - 1) PROVE h[i] = Step(h[i - 1], i)
    <3>1. h[i] = g[i] /\ h[i - 1] = g[i - 1]
      BY <2>3
    <3> QED BY <2>4, <3>1
  <2> HIDE DEF h
  <2>7. \A i \in 1 .. m : i = m \/ i \in 1 .. (m - 1)
    BY <2>3
  <2>8. h[0] = t /\ \A i \in 1 .. m : h[i] = Step(h[i - 1], i)
    BY <2>5, <2>6, <2>7
  <2> QED BY <2>1, <2>8
<1>4. n \notin T
  BY <1>3
<1>5. PICK g : g[0] = t /\ \A i \in 1 .. n : g[i] = Step(g[i - 1], i)
  BY <1>2, <1>4
<1> DEFINE h == [i \in 0 .. n |-> g[i]]
<1>6. ASSUME NEW i \in 0 .. n PROVE h[i] = Body(h, i)
  <2>1. CASE i = 0
    BY <1>2, <1>5, <2>1
  <2>2. CASE i # 0
    <3>1. i \in 1 .. n /\ h[i] = g[i] /\ h[i - 1] = g[i - 1]
      BY <1>2, <2>2
    <3> QED BY <1>5, <2>2, <3>1 DEF Step
  <2> QED BY <2>1, <2>2
<1>7. h = [i \in 0 .. n |-> h[i]]
  OBVIOUS
<1> HIDE DEF h, Body
<1>8. h = [i \in 0 .. n |-> Body(h, i)]
  BY <1>6, <1>7
<1>9. f = [i \in 0 .. n |-> Body(f, i)]
  BY <1>8
<1>10. PICK k : k = f
  OBVIOUS
<1>11. \A i \in 0 .. n : k[i] = Body(k, i)
  BY <1>9, <1>10
<1>12. k[0] = t
  BY <1>2, <1>11 DEF Body
<1>13. \A i \in 1 .. n : k[i] = Put(k[i - 1], s[i])
  <2> TAKE i \in 1 .. n
  <2>1. i \in 0 .. n /\ i # 0
    BY <1>2
  <2> QED BY <1>11, <2>1 DEF Body
<1>14. k[n] = Puts(t, s)
  BY <1>1, <1>10
<1> HIDE DEF f
<1> QED BY <1>12, <1>13, <1>14 DEF n

(* What the other tables are: each of their keys once.                        *)
LEMMA OthersAre ==
  ASSUME NEW s \in Others
  PROVE  /\ Len(s) \in Nat
         /\ \A i \in 1 .. Len(s) : s[i].key \in Key /\ s[i].v \in Val
         /\ \A i, j \in 1 .. Len(s) : s[i].key = s[j].key => i = j
<1>1. PICK n \in 1 .. MaxMerge : s \in [1 .. n -> [key : Key, v : Val]]
  BY DEF Others
<1>2. n \in Nat
  BY HashTableAssumption
<1>3. Len(s) = n
  BY <1>1, <1>2
<1>4. IsInjective([i \in DOMAIN s |-> s[i].key]) /\ DOMAIN s = 1 .. n
  BY <1>1 DEF Others
<1>5. \A i, j \in 1 .. n : s[i].key = s[j].key => i = j
  BY <1>4 DEF IsInjective
<1> QED BY <1>1, <1>2, <1>3, <1>5

(* The entries of another table are put in: they replace those of the same    *)
(* keys.                                                                      *)
LEMMA PutsGood ==
  ASSUME NEW t, Good(t), NEW s \in Others, t.nxt + Len(s) <= t.size,
         sys => \A i \in 1 .. Len(s) : Find(t, s[i].key) = END
  PROVE  /\ Good(Puts(t, s)) /\ Puts(t, s).own = t.own
         /\ \A k \in Key, v \in Val :
              Holds(Puts(t, s), k, v) <=>
                \/ \E i \in 1 .. Len(s) : s[i].key = k /\ s[i].v = v
                \/ (\A i \in 1 .. Len(s) : s[i].key # k) /\ Holds(t, k, v)
<1> PICK n : n = Len(s)
  OBVIOUS
<1>1. /\ n \in Nat /\ t.nxt \in Nat /\ t.size \in Nat /\ t.nxt + n <= t.size
      /\ \A i \in 1 .. n : s[i].key \in Key /\ s[i].v \in Val
      /\ \A i, j \in 1 .. n : s[i].key = s[j].key => i = j
  BY OthersAre, UsedIs DEF Good
<1>2. PICK f : /\ f[0] = t /\ f[n] = Puts(t, s)
               /\ \A i \in 1 .. n : f[i] = Put(f[i - 1], s[i])
  <2>1. Len(s) \in Nat
    BY <1>1
  <2>2. PICK f : /\ f[0] = t /\ f[Len(s)] = Puts(t, s)
                 /\ \A i \in 1 .. Len(s) : f[i] = Put(f[i - 1], s[i])
    BY ONLY <2>1, PutsLoop
  <2> QED BY <2>2
<1> DEFINE New(m, k, v) == \E i \in 1 .. m : s[i].key = k /\ s[i].v = v
           Old(m, k, v) == (\A i \in 1 .. m : s[i].key # k) /\ Holds(t, k, v)
           P(m) == /\ Good(f[m]) /\ f[m].own = t.own /\ f[m].size = t.size
                   /\ f[m].nxt <= t.nxt + m
                   /\ \A k \in Key, v \in Val :
                        Holds(f[m], k, v) <=> New(m, k, v) \/ Old(m, k, v)
           T == {m \in Nat : m <= n /\ ~ P(m)}
<1>3. P(0)
  BY <1>1, <1>2
<1>4. ASSUME NEW m \in 1 .. n, P(m - 1)
      PROVE  P(m)
  <2> PICK a, e, l : a = f[m - 1] /\ e = s[m] /\ l = m - 1
    OBVIOUS
  <2>1. /\ Good(a) /\ a.own = t.own /\ a.size = t.size /\ a.nxt <= t.nxt + l
        /\ \A k \in Key, v \in Val : Holds(a, k, v) <=> New(l, k, v) \/ Old(l, k, v)
    BY <1>4
  <2>2. l \in Nat /\ m = l + 1 /\ m <= n /\ e.key \in Key /\ e.v \in Val
    BY <1>1
  <2>3. a.nxt \in Nat /\ a.nxt < a.size
    BY <1>1, <2>1, <2>2, UsedIs DEF Good
  <2>4. f[m] = Put(a, e)
    BY <1>2
  <2>n. sys => Find(a, e.key) = END
    <3> SUFFICES ASSUME sys, Find(a, e.key) # END PROVE FALSE
      OBVIOUS
    <3>1. Find(a, e.key) \in Used(a) /\ a.slot[Find(a, e.key)].key = e.key
      BY <2>1, <2>2, FindIs
    <3>2. PICK x \in Val : Holds(a, e.key, x)
      BY <2>1, <3>1, UsedIs DEF Holds, Good
    <3>3. New(l, e.key, x) \/ Old(l, e.key, x)
      BY <2>1, <2>2, <3>2
    <3>4. ~ New(l, e.key, x)
      <4>1. \A i \in 1 .. l : i \in 1 .. n /\ i # m
        BY <1>1, <2>2
      <4> QED BY <1>1, <4>1
    <3>5. PICK j \in Used(t) : t.slot[j].key = e.key
      BY <3>3, <3>4 DEF Holds
    <3>6. Find(t, e.key) = END
      OBVIOUS
    <3>7. Find(t, e.key) # END
      BY <2>2, <3>5, FindIs
    <3> QED BY <3>6, <3>7
  <2>5. /\ Good(f[m]) /\ f[m].own = a.own /\ f[m].size = a.size
        /\ f[m].nxt \in a.nxt .. (a.nxt + 1)
        /\ \A k \in Key, v \in Val :
              Holds(f[m], k, v) <=> IF k = e.key THEN v = e.v ELSE Holds(a, k, v)
    BY ONLY <2>1, <2>2, <2>3, <2>4, <2>n, PutGood
  <2>6. f[m].nxt <= t.nxt + m
    BY <1>1, <2>1, <2>2, <2>3, <2>5
  <2>7. ASSUME NEW k \in Key, NEW v \in Val
        PROVE  Holds(f[m], k, v) <=> New(m, k, v) \/ Old(m, k, v)
    <3>1. m \in 1 .. m /\ \A i \in 1 .. m : i = m \/ i \in 1 .. l
      BY <2>2
    <3>2. \A i \in 1 .. l : i \in 1 .. m /\ i # m /\ i \in 1 .. n
      BY <1>1, <2>2
    <3>3. CASE k = e.key
      <4>1. \A i \in 1 .. m : s[i].key = k => i = m
        BY <1>1, <3>1, <3>2, <3>3
      <4> QED BY <2>5, <3>1, <3>3, <4>1
    <3>4. CASE k # e.key
      <4>1. New(m, k, v) <=> New(l, k, v)
        BY <3>1, <3>2, <3>4
      <4>2. Old(m, k, v) <=> Old(l, k, v)
        BY <3>1, <3>2, <3>4
      <4> QED BY <2>1, <2>5, <3>4, <4>1, <4>2
    <3> QED BY <3>3, <3>4
  <2> HIDE DEF New, Old
  <2> QED BY <2>1, <2>5, <2>6, <2>7
<1> HIDE DEF P
<1>5. T = {}
  <2> SUFFICES ASSUME T # {} PROVE FALSE
    OBVIOUS
  <2>1. PICK m \in T : \A y \in T : m <= y
    BY LeastNumber
  <2>2. m # 0 /\ m \in Nat /\ m <= n
    BY <1>3, <2>1
  <2>3. m - 1 \in Nat /\ m - 1 \notin T /\ m \in 1 .. n /\ m - 1 <= n
    BY <1>1, <2>1, <2>2
  <2>4. P(m - 1)
    BY <2>3
  <2> QED BY <1>4, <2>1, <2>3, <2>4
<1>6. P(n)
  BY <1>1, <1>5
<1> QED BY <1>2, <1>6 DEF P
-----------------------------------------------------------------------------
(* The variables take the values of a good table of this variable alone.      *)
LEMMA BecomesGood ==
  ASSUME NEW u, Good(u), u.own = TRUE, Becomes(u)
  PROVE  HtInv' /\ Contents' = ContentsOf(u)
<1>1. u = [own |-> u.own, size |-> u.size, len |-> u.len, nxt |-> u.nxt,
           slot |-> u.slot, head |-> u.head]
  BY DEF Good, Typed, Shape
<1>2. This' = u /\ own' = TRUE
  BY <1>1 DEF Becomes, This
<1>3. Contents' = ContentsOf(u)
  BY <1>2 DEF Contents
<1>4. Good(This)'
  BY <1>2
<1> QED BY <1>2, <1>3, <1>4 DEF HtInv

(* Only who holds the table changes.                                          *)
LEMMA HolderGood ==
  ASSUME HtInv, UNCHANGED table, own' \in BOOLEAN, ~ own' => frozen' = Contents
  PROVE  HtInv' /\ Contents' = Contents
<1>1. PICK t, u : t = This /\ u = This'
  OBVIOUS
<1>2. Good(t)
  BY <1>1 DEF HtInv
<1>3. /\ u.own \in BOOLEAN /\ u.size = t.size /\ u.len = t.len /\ u.nxt = t.nxt
      /\ u.slot = t.slot /\ u.head = t.head /\ Shape(u)
  <2>1. This' = [own |-> own', size |-> size, len |-> len, nxt |-> nxt, slot |-> slot,
                 head |-> head]
    BY DEF This, table
  <2>2. This = [own |-> own, size |-> size, len |-> len, nxt |-> nxt, slot |-> slot,
                head |-> head]
    BY DEF This
  <2> QED BY <1>1, <2>1, <2>2 DEF Shape
<1>4. Good(u) /\ Used(u) = Used(t)
  <2>1. u.slot \in [0 .. (t.size - 1) -> [key : Key, v : Val, nxt : Nat] \cup {Blank}]
    BY <1>2, <1>3 DEF Good, Typed
  <2> QED BY ONLY <1>2, <1>3, <2>1, SameChains
<1>5. SameEntries(t, u)
  BY <1>3, <1>4 DEF SameEntries, Holds
<1>6. ContentsOf(u) = ContentsOf(t)
  BY <1>2, <1>4, <1>5, ContentsSame
<1>7. Contents = ContentsOf(t) /\ Contents' = ContentsOf(u)
  BY <1>1 DEF Contents
<1>8. Good(This)'
  BY <1>1, <1>4
<1> QED BY <1>6, <1>7, <1>8 DEF HtInv

(* A new table is good, whatever the one before was.                          *)
LEMMA FreeNewGood ==
  ASSUME FreeNew
  PROVE  HtInv' /\ Looked!Clear
  <1>1. PICK w : w = Table(0)
    OBVIOUS
  <1>2. Good(w) /\ Used(w) = {} /\ w.own = TRUE
    <2>1. 0 \in 0 .. MaxSize
      BY HashTableAssumption
    <2> QED BY <1>1, <2>1, TableGood
  <1>3. ContentsOf(w) = <<>>
    <2>1. \A q \in Key, x \in Val : ~ Holds(w, q, x)
      BY <1>2 DEF Holds
    <2> DEFINE f == [q \in {} |-> q]
    <2>2. f \in [{} -> Val]
      OBVIOUS
    <2>3. f = <<>>
      OBVIOUS
    <2> HIDE DEF f
    <2>4. ContentsOf(w) = f
      BY <1>2, <2>1, <2>2, ContentsAre
    <2> QED BY <2>3, <2>4
  <1>4. HtInv' /\ Contents' = <<>>
    BY <1>1, <1>2, <1>3, BecomesGood DEF FreeNew
  <1> QED BY <1>4 DEF Looked!Clear

(* What each call that breaks nothing makes of a good table: the variable has *)
(* a good table again, and what it sees there is what the call says.          *)
LEMMA CallsDo ==
  ASSUME HtInv, fault = "none", fault' = "none"
  PROVE  /\ \A k \in Key, v \in Val :
              Insert(k, v) \/ InsertForce(k, v) => HtInv' /\ Looked!Insert(k, v)
         /\ \A k \in Key : Unset(k) => HtInv' /\ Looked!Unset(k)
         /\ \A s \in Others :
              Merge(s) => HtInv' /\ \E D \in SUBSET Key : \E new \in [D -> Val] : Looked!Merge(new)
         /\ Rehash => HtInv' /\ Contents' = Contents
<1>1. PICK t : t = This
  OBVIOUS
<1>2. Good(t) /\ Contents = ContentsOf(t)
  BY <1>1 DEF HtInv, Contents
<1>3. PICK D \in SUBSET Key :
        /\ Contents \in [D -> Val] /\ DOMAIN Contents = D
        /\ \A k \in Key, v \in Val : Holds(t, k, v) <=> k \in D /\ Contents[k] = v
  BY <1>2, ContentsHold
<1> PICK c : c = Contents
  OBVIOUS
<1>4. /\ c \in [D -> Val] /\ DOMAIN c = D
      /\ \A k \in Key, v \in Val : Holds(t, k, v) <=> k \in D /\ c[k] = v
  BY <1>3
<1>5. ASSUME NEW n \in Nat, NEW u, u = ExtendTo(t, n), u.size <= MaxSize
      PROVE  /\ Good(u) /\ u.own = TRUE /\ u.nxt + n <= u.size
             /\ u.nxt \in Nat /\ u.size \in Nat
             /\ \A k \in Key, v \in Val : Holds(u, k, v) <=> k \in D /\ c[k] = v
  <2>1. Good(u) /\ u.own = TRUE /\ u.nxt + n <= u.size /\ SameEntries(t, u)
    BY <1>2, <1>5, ExtendGood
  <2>2. u.nxt \in Nat /\ u.size \in Nat
    BY <2>1, UsedIs DEF Good
  <2> QED BY <1>4, <2>1, <2>2 DEF SameEntries
<1>6. ASSUME NEW k \in Key, NEW v \in Val, NEW u, Good(u), u.own = TRUE, Becomes(u),
             \A q \in Key, x \in Val :
               Holds(u, q, x) <=> IF q = k THEN x = v ELSE q \in D /\ c[q] = x
      PROVE  HtInv' /\ Looked!Insert(k, v)
  <2> DEFINE f == [q \in D \cup {k} |-> IF q = k THEN v ELSE c[q]]
  <2>1. f \in [D \cup {k} -> Val] /\ D \cup {k} \in SUBSET Key
    BY <1>4
  <2>2. \A q \in Key, x \in Val : Holds(u, q, x) <=> q \in D \cup {k} /\ f[q] = x
    BY <1>6
  <2>3. ContentsOf(u) = f
    <3> HIDE DEF f
    <3> QED BY ONLY <1>6, <2>1, <2>2, ContentsAre
  <2>4. HtInv' /\ Contents' = f
    BY <1>6, <2>3, BecomesGood
  <2> QED BY <1>4, <2>4 DEF Looked!Insert, Looked!Put
<1>7. ASSUME NEW k \in Key, NEW v \in Val, Insert(k, v)
      PROVE  HtInv' /\ Looked!Insert(k, v)
  <2> PICK e : e = [key |-> k, v |-> v]
    OBVIOUS
  <2>1. PICK u : u = ExtendTo(t, 1) /\ u.size <= MaxSize /\ Becomes(Put(u, e))
                 /\ (sys => Find(u, k) = END)
    BY <1>1, <1>7 DEF Insert, Fits, Overrun, Noted
  <2>2. /\ Good(u) /\ u.own = TRUE /\ u.nxt < u.size
        /\ \A q \in Key, x \in Val : Holds(u, q, x) <=> q \in D /\ c[q] = x
    <3>1. 1 \in Nat
      OBVIOUS
    <3>2. /\ Good(u) /\ u.own = TRUE /\ u.nxt + 1 <= u.size
          /\ u.nxt \in Nat /\ u.size \in Nat
          /\ \A q \in Key, x \in Val : Holds(u, q, x) <=> q \in D /\ c[q] = x
      BY ONLY <1>5, <2>1, <3>1
    <3> QED BY <3>2
  <2>3. e.key = k /\ e.v = v
    OBVIOUS
  <2>4. PICK w : w = Put(u, e)
    OBVIOUS
  <2>5. /\ Good(w) /\ w.own = u.own
        /\ \A q \in Key, x \in Val :
             Holds(w, q, x) <=> IF q = k THEN x = v ELSE Holds(u, q, x)
    BY ONLY <2>1, <2>2, <2>3, <2>4, k \in Key, v \in Val, PutGood
  <2>6. \A q \in Key, x \in Val :
          Holds(w, q, x) <=> IF q = k THEN x = v ELSE q \in D /\ c[q] = x
    BY <2>2, <2>5
  <2> QED BY <1>6, <2>1, <2>2, <2>4, <2>5, <2>6
<1>8. ASSUME NEW k \in Key, NEW v \in Val, InsertForce(k, v)
      PROVE  HtInv' /\ Looked!Insert(k, v)
  <2> PICK e : e = [key |-> k, v |-> v]
    OBVIOUS
  <2>1. PICK u : u = ExtendTo(t, 1) /\ u.size <= MaxSize /\ Becomes(Link(u, e))
    BY <1>1, <1>8 DEF InsertForce, Fits, Overrun
  <2>2. /\ Good(u) /\ u.own = TRUE /\ u.nxt < u.size
        /\ \A q \in Key, x \in Val : Holds(u, q, x) <=> q \in D /\ c[q] = x
    <3>1. 1 \in Nat
      OBVIOUS
    <3>2. /\ Good(u) /\ u.own = TRUE /\ u.nxt + 1 <= u.size
          /\ u.nxt \in Nat /\ u.size \in Nat
          /\ \A q \in Key, x \in Val : Holds(u, q, x) <=> q \in D /\ c[q] = x
      BY ONLY <1>5, <2>1, <3>1
    <3> QED BY <3>2
  <2>3. e.key = k /\ e.v = v
    OBVIOUS
  <2>4. k \notin D
    <3>1. Find(t, k) = END
      BY <1>1, <1>8 DEF InsertForce, Has
    <3>2. \A i \in Used(t) : t.slot[i].key # k
      <4>1. MaxSize \in Nat
        BY HashTableAssumption
      <4> QED BY <1>2, <3>1, FindIs
    <3>3. \A x \in Val : ~ Holds(t, k, x)
      BY <3>2 DEF Holds
    <3> QED BY <1>4, <3>3
  <2>5. \A i \in Used(u) : u.slot[i].key # e.key
    <3> SUFFICES ASSUME NEW i \in Used(u), u.slot[i].key = k PROVE FALSE
      BY <2>3
    <3>1. u.slot[i].v \in Val /\ Holds(u, k, u.slot[i].v)
      BY <2>2, UsedIs DEF Good, Holds
    <3> QED BY <2>2, <2>4, <3>1
  <2>6. PICK w : w = Link(u, e)
    OBVIOUS
  <2>7. /\ Good(w)
        /\ \A q \in Key, x \in Val :
             Holds(w, q, x) <=> (q = k /\ x = v) \/ Holds(u, q, x)
    BY ONLY <2>2, <2>3, <2>5, <2>6, k \in Key, v \in Val, LinkGood
  <2>8. w.own = TRUE
    <3>1. Shape(u)
      BY <2>2 DEF Good, Typed
    <3> QED BY ONLY <2>2, <2>6, <3>1, LinkFields
  <2>9. \A q \in Key, x \in Val :
          Holds(w, q, x) <=> IF q = k THEN x = v ELSE q \in D /\ c[q] = x
    BY <2>2, <2>4, <2>7
  <2> QED BY <1>6, <2>1, <2>6, <2>7, <2>8, <2>9
<1>9. ASSUME NEW k \in Key, Unset(k)
      PROVE  HtInv' /\ Looked!Unset(k)
  <2>1. PICK u : u = ExtendTo(t, 0) /\ u.size <= MaxSize /\ Becomes(Taken(u, k))
                 /\ (sys => Find(u, k) = END)
    BY <1>1, <1>9 DEF Unset, Fits, Noted
  <2>2. /\ Good(u) /\ u.own = TRUE
        /\ \A q \in Key, x \in Val : Holds(u, q, x) <=> q \in D /\ c[q] = x
    BY <1>5, <2>1
  <2>3. PICK w : w = Taken(u, k)
    OBVIOUS
  <2>4. /\ Good(w) /\ w.own = u.own
        /\ \A q \in Key, x \in Val : Holds(w, q, x) <=> q # k /\ Holds(u, q, x)
    BY ONLY <2>1, <2>2, <2>3, k \in Key, TakenGood
  <2> DEFINE E == D \ {k}
             f == [q \in E |-> c[q]]
  <2>5. f \in [E -> Val] /\ E \in SUBSET Key
    BY <1>4
  <2>6. \A q \in Key, x \in Val : Holds(w, q, x) <=> q \in E /\ f[q] = x
    BY <2>2, <2>4
  <2>7. ContentsOf(w) = f
    <3> HIDE DEF f, E
    <3> QED BY ONLY <2>4, <2>5, <2>6, ContentsAre
  <2>8. HtInv' /\ Contents' = f
    BY <2>1, <2>2, <2>3, <2>4, <2>7, BecomesGood
  <2> QED BY <1>4, <2>8 DEF Looked!Unset, Looked!Restrict
<1>10. ASSUME NEW s \in Others, Merge(s)
       PROVE  HtInv' /\ \E E \in SUBSET Key : \E new \in [E -> Val] : Looked!Merge(new)
  <2> PICK n : n = Len(s)
    OBVIOUS
  <2>0. /\ n \in Nat
        /\ \A i \in 1 .. n : s[i].key \in Key /\ s[i].v \in Val
        /\ \A i, j \in 1 .. n : s[i].key = s[j].key => i = j
    BY OthersAre
  <2>1. PICK u : u = ExtendTo(t, n) /\ u.size <= MaxSize /\ Becomes(Puts(u, s))
                 /\ (sys => \A i \in DOMAIN s : Find(u, s[i].key) = END)
    BY <1>1, <1>10 DEF Merge, Fits, Overrun, Noted
  <2>d. DOMAIN s = 1 .. n
    <3>1. PICK m \in 1 .. MaxMerge : s \in [1 .. m -> [key : Key, v : Val]]
      BY DEF Others
    <3>2. m \in Nat
      BY HashTableAssumption
    <3> QED BY <3>1, <3>2
  <2>2. /\ Good(u) /\ u.own = TRUE /\ u.nxt + n <= u.size
        /\ \A q \in Key, x \in Val : Holds(u, q, x) <=> q \in D /\ c[q] = x
    BY <1>5, <2>0, <2>1
  <2>3. PICK w : w = Puts(u, s)
    OBVIOUS
  <2>4. /\ Good(w) /\ w.own = u.own
        /\ \A q \in Key, x \in Val :
             Holds(w, q, x) <=> \/ \E i \in 1 .. n : s[i].key = q /\ s[i].v = x
                                \/ (\A i \in 1 .. n : s[i].key # q) /\ Holds(u, q, x)
    BY <2>1, <2>2, <2>3, <2>d, PutsGood
  <2> DEFINE E == {s[i].key : i \in 1 .. n}
             new == [q \in E |-> s[CHOOSE i \in 1 .. n : s[i].key = q].v]
             f == [q \in D \cup E |-> IF q \in E THEN new[q] ELSE c[q]]
  <2>5. E \in SUBSET Key /\ DOMAIN new = E /\ \A i \in 1 .. n : s[i].key \in E
    BY <2>0
  <2>6. \A i \in 1 .. n : new[s[i].key] = s[i].v
    BY <2>0
  <2>7. new \in [E -> Val]
    BY <2>0
  <2>8. \A q \in E : \E i \in 1 .. n : s[i].key = q
    OBVIOUS
  <2> HIDE DEF E, new
  <2>9. f \in [D \cup E -> Val] /\ D \cup E \in SUBSET Key
    BY <1>4, <2>5, <2>7
  <2>10. \A q \in Key, x \in Val : Holds(w, q, x) <=> q \in D \cup E /\ f[q] = x
    <3> TAKE q \in Key, x \in Val
    <3>1. CASE q \in E
      BY <2>0, <2>4, <2>6, <2>8, <3>1
    <3>2. CASE q \notin E
      BY <2>2, <2>4, <2>5, <3>2
    <3> QED BY <3>1, <3>2
  <2>11. ContentsOf(w) = f
    <3> HIDE DEF f
    <3> QED BY ONLY <2>4, <2>9, <2>10, ContentsAre
  <2>12. HtInv' /\ Contents' = f
    BY <2>1, <2>2, <2>3, <2>4, <2>11, BecomesGood
  <2>13. Looked!Merge(new)
    BY <1>4, <2>5, <2>12 DEF Looked!Merge
  <2> QED BY <2>5, <2>7, <2>12, <2>13
<1>11. ASSUME Rehash
       PROVE  HtInv' /\ Contents' = Contents
  <2>1. PICK u : u = ExtendTo(t, 0) /\ u.size <= MaxSize /\ Becomes(Rehashed(u))
    BY <1>1, <1>11 DEF Rehash, Fits
  <2>2. /\ Good(u) /\ u.own = TRUE
        /\ \A q \in Key, x \in Val : Holds(u, q, x) <=> q \in D /\ c[q] = x
    BY <1>5, <2>1
  <2>3. PICK w : w = Rehashed(u)
    OBVIOUS
  <2>4. Good(w) /\ w.own = u.own /\ SameEntries(u, w)
    BY ONLY <2>2, <2>3, RehashedGood
  <2>5. \A q \in Key, x \in Val : Holds(w, q, x) <=> q \in D /\ c[q] = x
    BY <2>2, <2>4 DEF SameEntries
  <2>6. ContentsOf(w) = c
    BY ONLY <1>4, <2>4, <2>5, ContentsAre
  <2> QED BY <2>1, <2>2, <2>3, <2>4, <2>6, BecomesGood
<1> QED BY <1>7, <1>8, <1>9, <1>10, <1>11
-----------------------------------------------------------------------------
(* A fault stays with the table: only a new table is without one again.       *)
LEMMA FaultStays ==
  ASSUME Calls, fault' = "none"
  PROVE  fault = "none"
BY DEF Calls, Insert, InsertForce, Unset, Merge, Rehash, Share, Leave, Noted, Overrun

(* In every state, for any keys, hashes and sizes, until a key of a sys table *)
(* is unset or given a new value: the table is one, and who shares it sees    *)
(* what it saw.                                                               *)
THEOREM TableStaysGood == Spec => [](fault = "none" => HtInv)
<1>1. Init => (fault = "none" => HtInv)
  <2> SUFFICES ASSUME Init PROVE HtInv
    OBVIOUS
  <2>1. This = Table(0) /\ own = TRUE
    BY DEF Init, This, Table
  <2>2. 0 \in 0 .. MaxSize
    BY HashTableAssumption
  <2>3. Good(Table(0))
    BY <2>2, TableGood
  <2> QED BY <2>1, <2>3 DEF HtInv
<1>2. (fault = "none" => HtInv) /\ [Next]_vars => (fault = "none" => HtInv)'
  <2> SUFFICES ASSUME fault = "none" => HtInv, [Next]_vars, fault' = "none" PROVE HtInv'
    OBVIOUS
  <2>1. CASE FreeNew
    BY <2>1, FreeNewGood
  <2>2. CASE UNCHANGED vars
    <3>1. HtInv
      BY <2>2 DEF vars
    <3>2. own \in BOOLEAN
      BY <3>1 DEF HtInv, Good, Typed, This
    <3> QED BY <2>2, <3>1, <3>2, HolderGood DEF vars, table, HtInv
  <2>3. CASE Calls
    <3>1. fault = "none" /\ HtInv
      BY <2>3, FaultStays
    <3>2. CASE Share
      BY <3>1, <3>2, HolderGood DEF Share
    <3>3. CASE Leave
      BY <3>1, <3>3, HolderGood DEF Leave
    <3> QED BY <2>3, <3>1, <3>2, <3>3, CallsDo DEF Calls
  <2> QED BY <2>1, <2>2, <2>3 DEF Next
<1> QED BY <1>1, <1>2, PTL DEF Spec

(* No entry is written behind the last slot, in tables of any size, kind and  *)
(* history, until a key of a sys table is unset or given a new value.         *)
THEOREM RoomStaysMade == Spec => [](fault # "room")
<1>1. Init => fault # "room"
  BY DEF Init
<1>2. (fault = "none" => HtInv) /\ fault # "room" /\ [Next]_vars => (fault # "room")'
  <2> SUFFICES ASSUME fault = "none" => HtInv, fault # "room", [Next]_vars, fault' = "room"
               PROVE  FALSE
    OBVIOUS
  <2>1. Calls /\ fault = "none"
    BY DEF Next, FreeNew, Calls, Insert, InsertForce, Unset, Merge, Rehash, Share,
                Leave, Noted, Overrun, vars
  <2>2. Good(This)
    BY <2>1 DEF HtInv
  <2>3. PICK n \in Nat : ExtendTo(This, n).size <= MaxSize
                         /\ ~ (ExtendTo(This, n).nxt + n <= ExtendTo(This, n).size)
    <3>1. CASE \E k \in Key, v \in Val : Insert(k, v) \/ InsertForce(k, v)
      <4>1. 1 \in Nat /\ ExtendTo(This, 1).size <= MaxSize
            /\ ~ (ExtendTo(This, 1).nxt < ExtendTo(This, 1).size)
        BY <2>1, <3>1 DEF Insert, InsertForce, Fits, Noted
      <4>2. Good(ExtendTo(This, 1)) /\ ExtendTo(This, 1).nxt + 1 <= ExtendTo(This, 1).size
        BY <2>2, <4>1, ExtendGood
      <4>3. ExtendTo(This, 1).nxt \in Nat /\ ExtendTo(This, 1).size \in Nat
        BY <4>2, UsedIs DEF Good
      <4> QED BY <4>1, <4>2, <4>3
    <3>2. CASE \E s \in Others : Merge(s)
      <4>1. PICK s \in Others : Merge(s)
        BY <3>2
      <4>2. Len(s) \in Nat
        BY OthersAre
      <4> QED BY <2>1, <4>1, <4>2 DEF Merge, Fits, Noted
    <3>3. CASE (\E k \in Key : Unset(k)) \/ Rehash \/ Share \/ Leave
      BY <2>1, <3>3 DEF Unset, Noted, Rehash, Share, Leave
    <3> QED BY <2>1, <3>1, <3>2, <3>3 DEF Calls
  <2>4. ExtendTo(This, n).nxt + n <= ExtendTo(This, n).size
    BY <2>2, <2>3, ExtendGood
  <2> QED BY <2>3, <2>4
<1> QED BY <1>1, <1>2, TableStaysGood, PTL DEF Spec

(* Another variable that got the same table goes on seeing what it saw, for   *)
(* any keys, hashes and sizes, until a key of a sys table is unset or given a *)
(* new value.                                                                 *)
THEOREM SharedTableKept == Spec => [](fault = "none" => FrozenKept)
<1>1. (fault = "none" => HtInv) => (fault = "none" => FrozenKept)
  BY DEF HtInv, FrozenKept
<1> QED BY <1>1, TableStaysGood, PTL

(* Looked up through its chains, the table is a map (module Map), for any     *)
(* keys, hashes and sizes, until a key of a sys table is unset or given a new *)
(* value.                                                                     *)
THEOREM TableImplemented == Spec => ImplementsMap
<1>1. Init => Looked!Init
  <2> SUFFICES ASSUME Init PROVE Contents = <<>>
    BY DEF Looked!Init
  <2>1. size = 0
    BY DEF Init
  <2>2. \A k : Find(This, k) = END
    BY <2>1 DEF Find, This
  <2>3. {q \in Key : Find(This, q) # END} = {}
    BY <2>2
  <2>4. Contents = [k \in {} |-> This.slot[Find(This, k)].v]
    BY <2>3 DEF Contents, ContentsOf
  <2> QED BY <2>4
<1>2. (fault = "none" => HtInv) /\ [Next]_vars => [fault' = "none" => Looked!Next]_Contents
  <2> SUFFICES ASSUME fault = "none" => HtInv, [Next]_vars, fault' = "none"
               PROVE  [Looked!Next]_Contents
    OBVIOUS
  <2>1. CASE FreeNew
    BY <2>1, FreeNewGood DEF Looked!Next
  <2>2. CASE UNCHANGED vars
    <3>1. HtInv
      BY <2>2 DEF vars
    <3>2. own \in BOOLEAN
      BY <3>1 DEF HtInv, Good, Typed, This
    <3> QED BY <2>2, <3>1, <3>2, HolderGood DEF vars, table, HtInv
  <2>3. CASE Calls
    <3>0. fault = "none" /\ HtInv
      BY <2>3, FaultStays
    <3>1. CASE \E k \in Key, v \in Val : Insert(k, v) \/ InsertForce(k, v)
      BY <3>0, <3>1, CallsDo DEF Looked!Next
    <3>2. CASE \E k \in Key : Unset(k)
      BY <3>0, <3>2, CallsDo DEF Looked!Next
    <3>3. CASE \E s \in Others : Merge(s)
      BY <3>0, <3>3, CallsDo DEF Looked!Next
    <3>4. CASE Rehash
      BY <3>0, <3>4, CallsDo
    <3>5. CASE Share
      BY <3>0, <3>5, HolderGood DEF Share
    <3>6. CASE Leave
      BY <3>0, <3>6, HolderGood DEF Leave
    <3> QED BY <2>3, <3>1, <3>2, <3>3, <3>4, <3>5, <3>6 DEF Calls
  <2> QED BY <2>1, <2>2, <2>3 DEF Next
<1>3. ImplementsMap <=> Looked!Init /\ [][fault' = "none" => Looked!Next]_Contents
  BY DEF ImplementsMap
<1>4. Spec => Looked!Init /\ [][fault' = "none" => Looked!Next]_Contents
  BY <1>1, <1>2, TableStaysGood, PTL DEF Spec
<1> QED BY <1>3, <1>4
-----------------------------------------------------------------------------
Fronted(i, s) == << i >> \o s
InFrontOf(r, i, s) ==
  /\ r \in Seq(Nat) /\ Len(r) = Len(s) + 1 /\ Len(s) \in Nat
  /\ r[1] = i /\ \A m \in 1 .. Len(s) : r[m + 1] = s[m]
  /\ Range(r) = {i} \cup Range(s)

(* A number in front of a sequence of numbers.                                *)
LEMMA InFront ==
  ASSUME NEW i \in Nat, NEW s \in Seq(Nat), NEW r, r = Fronted(i, s)
  PROVE  InFrontOf(r, i, s)
<1> PICK a : a = << i >>
  OBVIOUS
<1>1. a \in Seq(Nat) /\ Len(a) = 1 /\ a[1] = i
  OBVIOUS
<1>2. /\ r \in Seq(Nat) /\ Len(r) = 1 + Len(s)
      /\ \A m \in 1 .. 1 + Len(s) : r[m] = IF m <= 1 THEN a[m] ELSE s[m - 1]
  BY <1>1, ConcatProperties DEF Fronted
<1>3. Len(s) \in Nat /\ DOMAIN s = 1 .. Len(s) /\ DOMAIN r = 1 .. Len(r)
  BY <1>2, LenProperties
<1>4. r[1] = i
  BY <1>1, <1>2, <1>3
<1>5. ASSUME NEW m \in 1 .. Len(s) PROVE r[m + 1] = s[m]
  <2>1. m + 1 \in 1 .. 1 + Len(s) /\ ~ (m + 1 <= 1) /\ m + 1 - 1 = m
    BY <1>3
  <2> QED BY <1>2, <2>1
<1>6. \A m \in 1 .. Len(r) : m = 1 \/ \E l \in 1 .. Len(s) : m = l + 1
  <2> TAKE m \in 1 .. Len(r)
  <2>1. CASE m # 1
    <3>1. m - 1 \in 1 .. Len(s) /\ m = m - 1 + 1
      BY <1>2, <1>3, <2>1
    <3> QED BY <3>1
  <2> QED BY <2>1
<1>7. \A l \in 1 .. Len(s) : l + 1 \in 1 .. Len(r)
  BY <1>2, <1>3
<1>8. 1 \in 1 .. Len(r)
  BY <1>2, <1>3
<1>9. Range(r) = {i} \cup Range(s)
  <2>1. ASSUME NEW x \in Range(r) PROVE x = i \/ x \in Range(s)
    <3>1. PICK m \in 1 .. Len(r) : x = r[m]
      BY <1>3 DEF Range
    <3>2. CASE m = 1
      BY <1>4, <3>1, <3>2
    <3>3. CASE m # 1
      <4>1. PICK l \in 1 .. Len(s) : m = l + 1
        BY <1>6, <3>3
      <4>2. x = s[l]
        BY <1>5, <3>1, <4>1
      <4> QED BY <1>3, <4>2 DEF Range
    <3> QED BY <3>2, <3>3
  <2>2. i \in Range(r) /\ \A x \in Range(s) : x \in Range(r)
    BY <1>3, <1>4, <1>5, <1>7, <1>8 DEF Range
  <2> QED BY <2>1, <2>2
<1> QED BY <1>2, <1>3, <1>4, <1>5, <1>9 DEF InFrontOf

(* The walk along a chain: from a slot in use it meets the members of its     *)
(* class up to there, from the newest to the oldest.                          *)
Walked(t, i, s) ==
  /\ s \in Seq(Nat) /\ Len(s) \in Nat \ {0} /\ s[1] = i
  /\ Range(s) = {x \in Members(t, Class(t, t.slot[i].key)) : x <= i}
  /\ \A m \in 1 .. Len(s) : m > 1 => s[m] < s[m - 1]

(* The walks exist: a link goes down, or out.                                 *)
LEMMA WalksExist ==
  ASSUME NEW n \in Nat, n <= END, NEW down,
         \A i \in 0 .. (n - 1) : down[i] = END \/ (down[i] \in Nat /\ down[i] < i)
  PROVE  \E f : f = [i \in 0 .. END |-> IF i >= n THEN <<>> ELSE << i >> \o f[down[i]]]
<1>0. END \in Nat
  BY HashTableAssumption DEF END
<1> DEFINE Body(f, i) == IF i >= n THEN <<>> ELSE << i >> \o f[down[i]]
           T == {m \in Nat : m <= n
                   /\ ~ \E g : \A i \in 0 .. END : i < m \/ i >= n => g[i] = Body(g, i)}
<1>1. T = {}
  <2> SUFFICES ASSUME T # {} PROVE FALSE
    OBVIOUS
  <2>1. PICK m \in T : \A y \in T : m <= y
    BY LeastNumber
  <2>2. m # 0
    <3> DEFINE g == [i \in 0 .. END |-> <<>>]
    <3>1. \A i \in 0 .. END : i < 0 \/ i >= n => g[i] = Body(g, i)
      BY <1>0
    <3> HIDE DEF g, Body
    <3> QED BY <3>1
  <2>3. PICK l : l = m - 1
    OBVIOUS
  <2>4. l \in Nat /\ l \notin T /\ m = l + 1 /\ l < n /\ l <= END /\ l \in 0 .. END
    <3>1. m \in Nat /\ m <= n
      OBVIOUS
    <3>2. l \in Nat /\ m = l + 1 /\ l < n /\ l <= END /\ l \in 0 .. END
      BY ONLY <1>0, <2>2, <2>3, <3>1, n \in Nat, n <= END
    <3> HIDE DEF T
    <3>3. l \notin T
      <4>1. ~ (m <= l)
        BY ONLY <3>2
      <4> QED BY ONLY <2>1, <4>1
    <3> QED BY <3>2, <3>3
  <2>5. PICK g : \A i \in 0 .. END : i < l \/ i >= n => g[i] = Body(g, i)
    <3>1. l \in Nat /\ l <= n /\ l \notin T
      BY <2>4
    <3> HIDE DEF Body
    <3> QED BY ONLY <3>1 DEF T
  <2> DEFINE h == [i \in 0 .. END |-> IF i = l THEN Body(g, l) ELSE g[i]]
  <2>6. ASSUME NEW i \in 0 .. END, i < m \/ i >= n PROVE h[i] = Body(h, i)
    <3>1. CASE i >= n
      <4>1. i # l
        BY <2>4, <3>1
      <4> QED BY <2>5, <3>1, <4>1
    <3>2. CASE i < n
      <4>1. i <= l /\ i \in Nat
        BY <1>0, <2>4, <2>6, <3>2
      <4>2. down[i] \in 0 .. END /\ down[i] # l
        <5>1. i \in 0 .. (n - 1)
          BY <3>2, <4>1
        <5>2. down[i] = END \/ (down[i] \in Nat /\ down[i] < i)
          BY <5>1
        <5>3. l < END
          <6>1. n <= END
            OBVIOUS
          <6> QED BY ONLY <1>0, <2>4, <6>1, n \in Nat
        <5> QED BY ONLY <1>0, <2>4, <4>1, <5>2, <5>3
      <4>3. h[down[i]] = g[down[i]]
        BY <4>2
      <4>4. Body(h, i) = Body(g, i)
        BY <4>3
      <4>5. h[i] = Body(g, i)
        <5>1. CASE i = l
          BY <5>1
        <5>2. CASE i # l
          <6>1. i < l
            BY <2>4, <4>1, <5>2
          <6> QED BY <2>5, <5>2, <6>1
        <5> QED BY <5>1, <5>2
      <4> QED BY <4>4, <4>5
    <3> QED BY <1>0, <3>1, <3>2
  <2> HIDE DEF h, Body
  <2>7. \A i \in 0 .. END : i < m \/ i >= n => h[i] = Body(h, i)
    BY <2>6
  <2> QED BY <2>1, <2>7
<1>2. n \notin T
  BY <1>1
<1>3. PICK g : \A i \in 0 .. END : i < n \/ i >= n => g[i] = Body(g, i)
  BY <1>2
<1> DEFINE h == [i \in 0 .. END |-> g[i]]
<1>4. ASSUME NEW i \in 0 .. END PROVE h[i] = Body(h, i)
  <2>1. CASE i >= n
    BY <1>3, <2>1
  <2>2. CASE i < n
    <3>1. down[i] \in 0 .. END
      BY <1>0, <2>2
    <3>2. h[down[i]] = g[down[i]]
      BY <3>1
    <3> QED BY <1>3, <2>2, <3>2
  <2> QED BY <1>0, <2>1, <2>2
<1>5. h = [i \in 0 .. END |-> h[i]]
  OBVIOUS
<1> HIDE DEF h, Body
<1>6. h = [i \in 0 .. END |-> Body(h, i)]
  BY <1>4, <1>5
<1> QED BY <1>6 DEF Body

(* In a good table each chain meets the entries of its class, and no other.   *)
LEMMA ChainIs ==
  ASSUME Good(This), NEW c \in 0 .. (size - 1)
  PROVE  /\ Range(Chain(c)) = InUse(c)
         /\ \A m \in DOMAIN Chain(c) : m > 1 => Chain(c)[m] < Chain(c)[m - 1]
<1>t. PICK t : t = This
  OBVIOUS
<1>1. /\ Good(t) /\ t.nxt = nxt /\ t.size = size /\ t.slot = slot /\ t.head = head
  BY <1>t DEF This
<1>2. /\ nxt \in Nat /\ size \in Nat /\ nxt <= size /\ size <= END /\ END \in Nat
      /\ t.slot \in [0 .. (size - 1) -> [key : Key, v : Val, nxt : Nat] \cup {Blank}]
  BY <1>1, UsedIs, HashTableAssumption DEF Good, Typed, END
<1>3. \A i \in Used(t) : /\ i \in Nat /\ i < nxt /\ i < END
                         /\ Prior(Members(t, Class(t, slot[i].key)), i, slot[i].nxt)
  BY <1>1, UsedIs DEF Good, LinksRight
<1>4. \A d : Members(t, d) \subseteq Used(t)
  BY DEF Members
<1>5. \A i \in 0 .. (nxt - 1) :
        \/ slot[i].nxt = END
        \/ slot[i].nxt \in Nat /\ slot[i].nxt < i
  <2> TAKE i \in 0 .. (nxt - 1)
  <2>1. CASE i \in Used(t)
    BY <1>3, <1>4, <2>1 DEF Prior
  <2>2. CASE i \notin Used(t)
    <3>1. slot[i].v = NULL
      BY <1>1, <2>2 DEF Used
    <3>2. slot[i] \in [key : Key, v : Val, nxt : Nat] \cup {Blank}
      BY <1>1, <1>2
    <3>3. slot[i] = Blank
      BY <3>1, <3>2, HashTableAssumption
    <3> QED BY <3>3 DEF Blank
  <2> QED BY <2>1, <2>2
<1> DEFINE Body(f, i) == IF i >= nxt THEN <<>> ELSE << i >> \o f[slot[i].nxt]
           f == CHOOSE g : g = [i \in 0 .. END |-> Body(g, i)]
<1>6. Chain(c) = f[head[c]]
  BY DEF Chain
<1>7. \E g : g = [i \in 0 .. END |-> Body(g, i)]
  <2> DEFINE down == [i \in 0 .. (nxt - 1) |-> slot[i].nxt]
  <2>1. \A i \in 0 .. (nxt - 1) : down[i] = END \/ (down[i] \in Nat /\ down[i] < i)
    BY <1>5
  <2>2. \A i \in 0 .. (nxt - 1) : down[i] = slot[i].nxt
    OBVIOUS
  <2> HIDE DEF down
  <2>3. nxt <= END
    BY <1>2
  <2>4. PICK g : g = [i \in 0 .. END |-> IF i >= nxt THEN <<>> ELSE << i >> \o g[down[i]]]
    BY <1>2, <2>1, <2>3, WalksExist
  <2>5. ASSUME NEW i \in 0 .. END PROVE g[i] = Body(g, i)
    <3>1. g[i] = IF i >= nxt THEN <<>> ELSE << i >> \o g[down[i]]
      BY <2>4
    <3>2. i < nxt => down[i] = slot[i].nxt
      BY <1>2, <2>2
    <3> QED BY <1>2, <3>1, <3>2
  <2>6. g = [i \in 0 .. END |-> g[i]]
    BY <2>4
  <2> HIDE DEF Body
  <2>7. g = [i \in 0 .. END |-> Body(g, i)]
    BY <2>5, <2>6
  <2> QED BY <2>7
<1>8. f = [i \in 0 .. END |-> Body(f, i)]
  <2> HIDE DEF Body
  <2> QED BY <1>7
<1>f. PICK k : k = f
  OBVIOUS
<1>9. \A i \in 0 .. END : k[i] = Body(k, i)
  BY <1>8, <1>f
<1> HIDE DEF f
<1>10. k[END] = <<>>
  <2>1. END \in 0 .. END /\ END >= nxt
    BY ONLY <1>2
  <2>2. k[END] = Body(k, END)
    BY <1>9, <2>1
  <2> QED BY ONLY <2>1, <2>2 DEF Body
<1> DEFINE T == {i \in Used(t) : ~ Walked(t, i, k[i])}
<1>11. T = {}
  <2> SUFFICES ASSUME T # {} PROVE FALSE
    OBVIOUS
  <2>1. T \subseteq Nat
    BY <1>3
  <2>2. PICK i \in T : \A y \in T : i <= y
    BY <2>1, LeastNumber
  <2>p. PICK y, S, s, r : /\ y = slot[i].nxt /\ S = Members(t, Class(t, slot[i].key))
                          /\ s = k[y] /\ r = k[i]
    OBVIOUS
  <2>3. i \in Used(t) /\ i \in Nat /\ i < nxt /\ Prior(S, i, y)
    BY <1>3, <2>p
  <2>4. r = Fronted(i, s)
    <3>1. i \in 0 .. END /\ ~ (i >= nxt)
      BY <1>2, <1>3, <2>3
    <3> QED BY <1>9, <2>p, <3>1 DEF Fronted
  <2>5. i \in S /\ S \subseteq Nat
    BY <1>1, <1>3, <1>4, <2>3, <2>p DEF Members
  <2>6. CASE y = END /\ \A j \in S : ~ (j < i)
    <3>0. s = <<>>
      BY <1>10, <2>p, <2>6
    <3>1. s \in Seq(Nat) /\ Len(s) = 0 /\ Range(s) = {}
      <4>1. s \in Seq(Nat) /\ Len(s) = 0
        BY ONLY <3>0
      <4>2. DOMAIN s = {}
        BY ONLY <4>1, LenProperties
      <4> QED BY ONLY <4>1, <4>2 DEF Range
    <3>2. /\ r \in Seq(Nat) /\ Len(r) = Len(s) + 1 /\ r[1] = i
          /\ Range(r) = {i} \cup Range(s)
      <4>1. i \in Nat /\ s \in Seq(Nat)
        BY <2>3, <3>1
      <4>2. InFrontOf(r, i, s)
        BY ONLY <2>4, <4>1, InFront
      <4> QED BY ONLY <4>2 DEF InFrontOf
    <3>3. Range(r) = {x \in S : x <= i}
      <4>1. \A x \in S : x <= i => x = i
        BY ONLY <2>3, <2>5, <2>6
      <4>2. Range(r) = {i} /\ i <= i
        BY ONLY <2>3, <3>1, <3>2
      <4> QED BY ONLY <2>5, <4>1, <4>2
    <3>4. Walked(t, i, r)
      BY <1>1, <2>p, <3>1, <3>2, <3>3 DEF Walked
    <3> QED BY <2>2, <2>p, <3>4
  <2>7. CASE y \in S /\ y < i /\ \A j \in S : j < i => j <= y
    <3>1. y \in Used(t) /\ y \in Nat /\ Class(t, t.slot[y].key) = Class(t, slot[i].key)
      BY <1>1, <1>3, <1>4, <2>p, <2>7 DEF Members
    <3>2. Walked(t, y, s)
      <4>1. y \notin T
        BY <2>2, <2>3, <2>7, <3>1
      <4> QED BY <2>p, <3>1, <4>1
    <3>3. /\ s \in Seq(Nat) /\ Len(s) \in Nat \ {0} /\ s[1] = y
          /\ Range(s) = {x \in S : x <= y}
          /\ \A m \in 1 .. Len(s) : m > 1 => s[m] < s[m - 1]
      BY <1>1, <2>p, <3>1, <3>2 DEF Walked
    <3>4. /\ r \in Seq(Nat) /\ Len(r) = Len(s) + 1 /\ r[1] = i
          /\ \A m \in 1 .. Len(s) : r[m + 1] = s[m]
          /\ Range(r) = {i} \cup Range(s)
      <4>1. i \in Nat /\ s \in Seq(Nat)
        BY <2>3, <3>3
      <4>2. InFrontOf(r, i, s)
        BY ONLY <2>4, <4>1, InFront
      <4> QED BY ONLY <4>2 DEF InFrontOf
    <3>5. Range(r) = {x \in S : x <= i}
      <4>1. \A x \in S : x <= i <=> x = i \/ x <= y
        BY ONLY <2>3, <2>5, <2>7
      <4>2. Range(r) = {i} \cup {x \in S : x <= y}
        BY <3>3, <3>4
      <4> QED BY ONLY <2>5, <4>1, <4>2
    <3>6. ASSUME NEW m \in 1 .. Len(r), m > 1 PROVE r[m] < r[m - 1]
      <4>1. m - 1 \in 1 .. Len(s) /\ m - 1 + 1 = m
        BY <3>3, <3>4, <3>6
      <4>2. r[m] = s[m - 1]
        BY <3>4, <4>1
      <4>3. CASE m = 2
        BY <2>7, <3>3, <3>4, <4>2, <4>3
      <4>4. CASE m # 2
        <5>1. m - 2 \in 1 .. Len(s) /\ m - 2 + 1 = m - 1 /\ m - 1 > 1 /\ m - 1 - 1 = m - 2
          BY <3>6, <4>1, <4>4
        <5>2. r[m - 1] = s[m - 2]
          BY <3>4, <5>1
        <5>3. s[m - 1] < s[m - 2]
          BY <3>3, <4>1, <5>1
        <5> QED BY <4>2, <5>2, <5>3
      <4> QED BY <4>3, <4>4
    <3>7. Walked(t, i, r)
      BY <1>1, <2>p, <3>3, <3>4, <3>5, <3>6 DEF Walked
    <3> QED BY <2>2, <2>p, <3>7
  <2> QED BY <2>3, <2>6, <2>7 DEF Prior
<1>12. InUse(c) = Members(t, c)
  <2>1. \A q : Class(This, q) = Class(t, q)
    BY <1>t
  <2> QED BY <1>1, <2>1 DEF InUse, Members, Used
<1> PICK h, S : h = head[c] /\ S = Members(t, c)
  OBVIOUS
<1>13. Prior(S, nxt, h)
  BY <1>1 DEF Good, HeadsRight
<1>14. Chain(c) = k[h]
  BY <1>6, <1>f
<1>15. CASE h = END /\ \A j \in S : ~ (j < nxt)
  <2>1. S = {}
    BY <1>3, <1>4, <1>15
  <2> QED BY <1>10, <1>12, <1>14, <1>15, <2>1 DEF Range
<1>16. CASE h \in S /\ h < nxt /\ \A j \in S : j < nxt => j <= h
  <2>1. h \in Used(t) /\ Class(t, t.slot[h].key) = c
    BY <1>16 DEF Members
  <2>2. Walked(t, h, k[h])
    BY <1>11, <2>1
  <2> PICK s : s = k[h]
    OBVIOUS
  <2>3. /\ s \in Seq(Nat) /\ Range(s) = {x \in S : x <= h}
        /\ \A m \in 1 .. Len(s) : m > 1 => s[m] < s[m - 1]
    BY <2>1, <2>2 DEF Walked
  <2>4. {x \in S : x <= h} = S
    BY <1>3, <1>4, <1>16
  <2>5. DOMAIN s = 1 .. Len(s)
    BY <2>3, LenProperties
  <2> QED BY <1>12, <1>14, <2>3, <2>4, <2>5
<1> QED BY <1>13, <1>15, <1>16 DEF Prior

(* Insertion, deletion, growth and closing holes in place keep each chain     *)
(* what it is for, whatever the hashes and the size of the table, until a key *)
(* of a sys table is unset or given a new value.                              *)
THEOREM ChainsStayExact == Spec => []ChainsExact
<1>1. (fault = "none" => HtInv) /\ fault # "room" => ChainsExact
  <2> SUFFICES ASSUME Good(This), fault = "none" PROVE ChainsExact
    BY DEF HtInv, ChainsExact
  <2>t. PICK t : t = This
    OBVIOUS
  <2>1. /\ Good(t) /\ t.nxt = nxt /\ t.size = size /\ t.slot = slot /\ t.len = len
    BY <2>t DEF This
  <2>2. nxt <= size
    BY <2>1, UsedIs DEF Good
  <2>3. \A i \in nxt .. (size - 1) : slot[i] = Blank
    BY <2>1 DEF Good, Behind
  <2>4. len = Cardinality({i \in 0 .. (nxt - 1) : slot[i].v # NULL})
    BY <2>1 DEF Good, Counted, Used
  <2>5. \A c \in 0 .. (size - 1) :
          /\ Range(Chain(c)) = InUse(c)
          /\ \A m \in DOMAIN Chain(c) : m > 1 => Chain(c)[m] < Chain(c)[m - 1]
    BY ChainIs
  <2> QED BY <2>2, <2>3, <2>4, <2>5 DEF ChainsExact
<1> QED BY <1>1, TableStaysGood, RoomStaysMade, PTL
=============================================================================
