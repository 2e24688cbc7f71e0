------------------------- MODULE SharedListsProofs -------------------------
(* Counts of shared lists are exact and nothing is lost: the invariant of     *)
(* SharedLists, kept by every call and by every step of a free, for any       *)
(* objects, variables and payloads; and SharedLists implements Holders.       *)
EXTENDS SharedLists, CommonProofs, FiniteSetTheorems, SequenceTheorems

Is(a, b) == IF a = b THEN 1 ELSE 0
Where(s, o) == {i \in DOMAIN s : s[i] = o}
Hits(D, f, o) == Cardinality({x \in D : f[x] = o})
Joined(s, t) == s \o t
Put(s, k, p) == [s EXCEPT ![k] = p]
Payload == Atom \cup Obj

(* Two functions that hit a value at the same places but one.                 *)
LEMMA OneChange ==
  ASSUME NEW D, IsFiniteSet(D), NEW f, NEW g, NEW c \in D, NEW o,
         \A x \in D : x # c => (f[x] = o <=> g[x] = o)
  PROVE  /\ Hits(D, f, o) \in Nat /\ Hits(D, g, o) \in Nat
         /\ Hits(D, g, o) + Is(f[c], o) = Hits(D, f, o) + Is(g[c], o)
<1> PICK A, B, E : /\ A = {x \in D : f[x] = o} /\ B = {x \in D : g[x] = o}
                   /\ E = {x \in D \ {c} : f[x] = o}
  OBVIOUS
<1>1. IsFiniteSet(E) /\ Cardinality(E) \in Nat
  <2>1. E \in SUBSET D
    OBVIOUS
  <2> QED BY <2>1, FS_Subset, FS_CardinalityType
<1>2. c \notin E
  OBVIOUS
<1>3. IsFiniteSet(E \cup {c}) /\ Cardinality(E \cup {c}) = Cardinality(E) + 1
  BY <1>1, <1>2, FS_AddElement
<1>4. Cardinality(A) = Cardinality(E) + Is(f[c], o)
  <2>1. CASE f[c] = o
    <3>1. A = E \cup {c}
      BY <2>1
    <3>2. Is(f[c], o) = 1
      BY <2>1 DEF Is
    <3> QED BY ONLY <1>3, <3>1, <3>2
  <2>2. CASE f[c] # o
    <3>1. A = E
      BY <2>2
    <3>2. Is(f[c], o) = 0
      BY <2>2 DEF Is
    <3> QED BY ONLY <1>1, <3>1, <3>2
  <2> QED BY <2>1, <2>2
<1>5. Cardinality(B) = Cardinality(E) + Is(g[c], o)
  <2>1. CASE g[c] = o
    <3>1. B = E \cup {c}
      BY <2>1
    <3>2. Is(g[c], o) = 1
      BY <2>1 DEF Is
    <3> QED BY ONLY <1>3, <3>1, <3>2
  <2>2. CASE g[c] # o
    <3>1. B = E
      BY <2>2
    <3>2. Is(g[c], o) = 0
      BY <2>2 DEF Is
    <3> QED BY ONLY <1>1, <3>1, <3>2
  <2> QED BY <2>1, <2>2
<1>6. Is(f[c], o) \in Nat /\ Is(g[c], o) \in Nat
  BY DEF Is
<1> HIDE DEF Is
<1>7. Cardinality(A) \in Nat /\ Cardinality(B) \in Nat
  BY <1>1, <1>4, <1>5, <1>6
<1>8. Cardinality(B) + Is(f[c], o) = Cardinality(A) + Is(g[c], o)
  BY ONLY <1>1, <1>4, <1>5, <1>6
<1> QED BY <1>7, <1>8 DEF Hits

(* How often a sequence has a value is a number.                              *)
LEMMA CountIs ==
  ASSUME NEW S, NEW s \in Seq(S), NEW o
  PROVE  /\ IsFiniteSet(Where(s, o)) /\ Count(s, o) = Cardinality(Where(s, o))
         /\ Count(s, o) \in Nat
         /\ Where(s, o) \subseteq 1 .. Len(s)
         /\ Count(s, o) = 0 <=> \A i \in 1 .. Len(s) : s[i] # o
<1> USE DEF Count, Where
<1>1. DOMAIN s = 1 .. Len(s) /\ Len(s) \in Nat
  BY LenProperties
<1>2. IsFiniteSet(1 .. Len(s))
  BY <1>1, FS_Interval
<1>3. Where(s, o) \in SUBSET (1 .. Len(s))
  BY <1>1
<1>4. IsFiniteSet(Where(s, o)) /\ Cardinality(Where(s, o)) \in Nat
  BY <1>2, <1>3, FS_Subset, FS_CardinalityType
<1>5. Cardinality(Where(s, o)) = 0 <=> Where(s, o) = {}
  BY <1>4, FS_EmptySet
<1>6. Where(s, o) = {} <=> \A i \in 1 .. Len(s) : s[i] # o
  BY <1>1
<1> QED BY <1>3, <1>4, <1>5, <1>6

(* Both parts of a sequence are counted.                                      *)
LEMMA CountConcat ==
  ASSUME NEW S, NEW s \in Seq(S), NEW t \in Seq(S), NEW u, u = Joined(s, t), NEW o
  PROVE  u \in Seq(S) /\ Count(u, o) = Count(s, o) + Count(t, o)
<1>1. /\ u \in Seq(S) /\ Len(u) = Len(s) + Len(t)
      /\ \A i \in 1 .. Len(s) + Len(t) : u[i] = IF i <= Len(s) THEN s[i] ELSE t[i - Len(s)]
  BY ConcatProperties DEF Joined
<1> PICK n, m : n = Len(s) /\ m = Len(t)
  OBVIOUS
<1>2. /\ n \in Nat /\ m \in Nat /\ DOMAIN s = 1 .. n /\ DOMAIN t = 1 .. m
      /\ DOMAIN u = 1 .. (n + m)
  BY <1>1, LenProperties
<1> PICK A, B, U : A = Where(s, o) /\ B = Where(t, o) /\ U = Where(u, o)
  OBVIOUS
<1>3. /\ IsFiniteSet(A) /\ IsFiniteSet(B) /\ Cardinality(A) \in Nat /\ Cardinality(B) \in Nat
      /\ Count(s, o) = Cardinality(A) /\ Count(t, o) = Cardinality(B)
      /\ Count(u, o) = Cardinality(U)
  <2>1. /\ IsFiniteSet(Where(s, o)) /\ Count(s, o) = Cardinality(Where(s, o))
        /\ Count(s, o) \in Nat
    BY CountIs
  <2>2. /\ IsFiniteSet(Where(t, o)) /\ Count(t, o) = Cardinality(Where(t, o))
        /\ Count(t, o) \in Nat
    BY CountIs
  <2>3. Count(u, o) = Cardinality(Where(u, o))
    BY DEF Count, Where
  <2> QED BY <2>1, <2>2, <2>3
<1> DEFINE C == {i \in (n + 1) .. (n + m) : t[i - n] = o}
<1>4. A = {i \in 1 .. n : s[i] = o} /\ B = {i \in 1 .. m : t[i] = o}
  BY <1>2 DEF Where
<1>5. U = A \cup C
  <2>1. \A i \in 1 .. (n + m) : u[i] = IF i <= n THEN s[i] ELSE t[i - n]
    BY <1>1
  <2>2. \A i \in 1 .. n : i \in 1 .. (n + m) /\ i <= n
    BY <1>2
  <2>3. \A i \in (n + 1) .. (n + m) : i \in 1 .. (n + m) /\ ~ (i <= n)
    BY <1>2
  <2>4. \A i \in 1 .. (n + m) : i \in 1 .. n \/ i \in (n + 1) .. (n + m)
    BY <1>2
  <2>5. \A i : i \in U <=> i \in 1 .. (n + m) /\ u[i] = o
    BY <1>2 DEF Where
  <2>6. ASSUME NEW i \in 1 .. (n + m) PROVE u[i] = o <=> i \in A \/ i \in C
    <3>1. CASE i \in 1 .. n
      <4>1. i \notin C
        BY <1>2, <3>1
      <4> QED BY <1>4, <2>1, <2>2, <3>1, <4>1
    <3>2. CASE i \in (n + 1) .. (n + m)
      <4>1. i \notin A
        BY <1>2, <1>4, <3>2
      <4> QED BY <2>1, <2>3, <3>2, <4>1
    <3> QED BY <2>4, <3>1, <3>2
  <2>7. \A i \in A \cup C : i \in 1 .. (n + m)
    BY <1>4, <2>2, <2>3
  <2> HIDE DEF C
  <2> QED BY <2>5, <2>6, <2>7
<1>6. IsFiniteSet(C) /\ Cardinality(C) = Cardinality(B)
  <2> DEFINE f == [i \in B |-> i + n]
  <2>1. f \in [B -> C]
    BY <1>2, <1>4
  <2>2. \A i, j \in B : f[i] = f[j] => i = j
    BY <1>2, <1>4
  <2>3. \A x \in C : \E i \in B : f[i] = x
    <3> TAKE x \in C
    <3>1. x - n \in B /\ x - n + n = x
      BY <1>2, <1>4
    <3> QED BY <3>1
  <2> HIDE DEF f
  <2>4. f \in Bijection(B, C)
    BY <2>1, <2>2, <2>3 DEF Bijection, Injection, Surjection, IsInjective
  <2> QED BY <1>3, <2>4, FS_Bijection DEF ExistsBijection
<1>7. A \cap C = {}
  BY <1>2, <1>4
<1> HIDE DEF C
<1>8. Cardinality(U) = Cardinality(A) + Cardinality(C) - Cardinality(A \cap C)
  BY <1>3, <1>5, <1>6, FS_Union
<1>9. Cardinality(A \cap C) = 0
  BY <1>7, FS_EmptySet
<1>10. Count(u, o) = Count(s, o) + Count(t, o)
  BY <1>3, <1>6, <1>8, <1>9
<1> QED BY <1>1, <1>10

(* The empty sequence and that of one value.                                  *)
LEMMA CountShort ==
  ASSUME NEW S, NEW p \in S, NEW o
  PROVE  /\ <<>> \in Seq(S) /\ Count(<<>>, o) = 0
         /\ << p >> \in Seq(S) /\ Count(<< p >>, o) = Is(p, o)
<1>1. <<>> \in Seq(S) /\ Count(<<>>, o) = 0
  <2> PICK s : s = <<>>
    OBVIOUS
  <2>1. s \in Seq(S) /\ Len(s) = 0
    OBVIOUS
  <2>2. \A i \in 1 .. Len(s) : s[i] # o
    BY <2>1
  <2>3. Count(s, o) = 0
    BY <2>1, <2>2, CountIs
  <2> QED BY <2>1, <2>3
<1>2. << p >> \in Seq(S) /\ Count(<< p >>, o) = Is(p, o)
  <2> PICK s : s = << p >>
    OBVIOUS
  <2>1. s \in Seq(S) /\ Len(s) = 1 /\ s[1] = p /\ DOMAIN s = 1 .. 1
    OBVIOUS
  <2>2. Count(s, o) = Cardinality(Where(s, o))
    BY <2>1, CountIs
  <2>3. CASE p = o
    <3>1. Where(s, o) = {1}
      BY <2>1, <2>3 DEF Where
    <3>2. Cardinality({1}) = 1
      BY FS_Singleton
    <3> QED BY <2>1, <2>2, <2>3, <3>1, <3>2 DEF Is
  <2>4. CASE p # o
    <3>1. \A i \in 1 .. Len(s) : s[i] # o
      BY <2>1, <2>4
    <3>2. Count(s, o) = 0
      BY <2>1, <3>1, CountIs
    <3> QED BY <2>1, <2>4, <3>2 DEF Is
  <2> QED BY <2>3, <2>4
<1> QED BY <1>1, <1>2

(* A value put behind the k-th.                                               *)
LEMMA CountInsert ==
  ASSUME NEW S, NEW s \in Seq(S), NEW p \in S, NEW k \in Nat, k <= Len(s),
         NEW u, u = InsertAt(s, k + 1, p), NEW o
  PROVE  u \in Seq(S) /\ Count(u, o) = Count(s, o) + Is(p, o)
<1>p. PICK a, b, e : a = SubSeq(s, 1, k) /\ b = SubSeq(s, k + 1, Len(s)) /\ e = << p >>
  OBVIOUS
<1>0. Len(s) \in Nat
  BY LenProperties
<1>1. a \in Seq(S) /\ b \in Seq(S)
  <2>1. \A i \in 1 .. k : s[i] \in S
    BY <1>0, ElementOfSeq
  <2>2. \A i \in (k + 1) .. Len(s) : s[i] \in S
    BY <1>0, ElementOfSeq
  <2> QED BY <1>0, <1>p, <2>1, <2>2, SubSeqProperties
<1>2. s = Joined(a, b)
  <2>1. 1 \in 1 .. (Len(s) + 1) /\ k \in (1 - 1) .. Len(s) /\ Len(s) \in k .. Len(s)
    BY <1>0
  <2>2. SubSeq(s, 1, k) \o SubSeq(s, k + 1, Len(s)) = SubSeq(s, 1, Len(s))
    BY <2>1, ConcatAdjacentSubSeq
  <2> QED BY <1>p, <2>2, SubSeqFull DEF Joined
<1>3. e \in Seq(S) /\ Count(e, o) = Is(p, o)
  BY <1>p, CountShort
<1>4. PICK x : x = Joined(a, e)
  OBVIOUS
<1>5. x \in Seq(S) /\ Count(x, o) = Count(a, o) + Count(e, o)
  BY ONLY <1>1, <1>3, <1>4, CountConcat
<1>6. u = Joined(x, b)
  <2>n. PICK n : n = k + 1
    OBVIOUS
  <2>1. u = InsertAt(s, n, p)
    BY <2>n
  <2>2. u = (SubSeq(s, 1, n - 1) \o << p >>) \o SubSeq(s, n, Len(s))
    BY ONLY <2>1 DEF InsertAt
  <2>3. n - 1 = k
    BY <2>n
  <2>4. SubSeq(s, 1, n - 1) = a /\ SubSeq(s, n, Len(s)) = b
    BY ONLY <1>p, <2>n, <2>3
  <2> QED BY ONLY <1>p, <1>4, <2>2, <2>4 DEF Joined
<1>7. u \in Seq(S) /\ Count(u, o) = Count(x, o) + Count(b, o)
  BY ONLY <1>1, <1>5, <1>6, CountConcat
<1>8. Count(s, o) = Count(a, o) + Count(b, o)
  BY ONLY <1>1, <1>2, CountConcat
<1>9. Count(a, o) \in Nat /\ Count(b, o) \in Nat /\ Is(p, o) \in Nat
  BY <1>1, CountIs DEF Is
<1> QED BY ONLY <1>3, <1>5, <1>7, <1>8, <1>9

(* The k-th value taken out.                                                  *)
LEMMA CountRemove ==
  ASSUME NEW S, NEW s \in Seq(S), NEW k \in 1 .. Len(s), NEW u, u = RemoveAt(s, k), NEW o
  PROVE  u \in Seq(S) /\ Count(u, o) + Is(s[k], o) = Count(s, o)
<1>p. PICK a, b, c, e : /\ a = SubSeq(s, 1, k - 1) /\ b = SubSeq(s, k, Len(s))
                        /\ c = SubSeq(s, k + 1, Len(s)) /\ e = << s[k] >>
  OBVIOUS
<1>0. Len(s) \in Nat /\ k \in Nat /\ 1 <= k /\ k <= Len(s) /\ s[k] \in S
  BY LenProperties, ElementOfSeq
<1>1. a \in Seq(S) /\ b \in Seq(S) /\ c \in Seq(S)
  <2>1. \A i \in 1 .. (k - 1) : s[i] \in S
    BY <1>0, ElementOfSeq
  <2>2. \A i \in (k + 1) .. Len(s) : s[i] \in S
    BY <1>0, ElementOfSeq
  <2>3. \A i \in k .. Len(s) : s[i] \in S
    BY <1>0, ElementOfSeq
  <2> QED BY <1>0, <1>p, <2>1, <2>2, <2>3, SubSeqProperties
<1>2. s = Joined(a, b)
  <2>1. /\ 1 \in 1 .. (Len(s) + 1) /\ k - 1 \in (1 - 1) .. Len(s)
        /\ Len(s) \in (k - 1) .. Len(s) /\ k - 1 + 1 = k
    BY <1>0
  <2>2. SubSeq(s, 1, k - 1) \o SubSeq(s, k - 1 + 1, Len(s)) = SubSeq(s, 1, Len(s))
    BY <2>1, ConcatAdjacentSubSeq
  <2> QED BY <1>p, <2>1, <2>2, SubSeqFull DEF Joined
<1>3. b = Joined(e, c)
  <2>1. Len(s) \in k .. Len(s)
    BY <1>0
  <2> QED BY <1>p, <2>1, SubSeqRecursiveFirst DEF Joined
<1>4. e \in Seq(S) /\ Count(e, o) = Is(s[k], o)
  BY <1>0, <1>p, CountShort
<1>5. u = Joined(a, c)
  BY <1>p DEF RemoveAt, Joined
<1>6. u \in Seq(S) /\ Count(u, o) = Count(a, o) + Count(c, o)
  BY ONLY <1>1, <1>5, CountConcat
<1>7. Count(b, o) = Count(e, o) + Count(c, o)
  BY ONLY <1>1, <1>3, <1>4, CountConcat
<1>8. Count(s, o) = Count(a, o) + Count(b, o)
  BY ONLY <1>1, <1>2, CountConcat
<1>9. Count(a, o) \in Nat /\ Count(c, o) \in Nat /\ Is(s[k], o) \in Nat
  BY <1>1, CountIs DEF Is
<1> QED BY ONLY <1>4, <1>6, <1>7, <1>8, <1>9

(* The k-th value replaced.                                                   *)
LEMMA CountReplace ==
  ASSUME NEW S, NEW s \in Seq(S), NEW k \in 1 .. Len(s), NEW p \in S,
         NEW u, u = Put(s, k, p), NEW o
  PROVE  /\ u \in Seq(S) /\ Len(u) = Len(s)
         /\ Count(u, o) + Is(s[k], o) = Count(s, o) + Is(p, o)
<1>1. /\ u \in Seq(S) /\ Len(u) = Len(s)
      /\ \A j \in 1 .. Len(s) : u[j] = IF j = k THEN p ELSE s[j]
  <2>1. u = [s EXCEPT ![k] = p]
    BY DEF Put
  <2> QED BY <2>1, ExceptSeq
<1>2. DOMAIN s = 1 .. Len(s) /\ DOMAIN u = 1 .. Len(s) /\ Len(s) \in Nat
  BY <1>1, LenProperties
<1>d. PICK D : D = 1 .. Len(s)
  OBVIOUS
<1>3. IsFiniteSet(D) /\ k \in D /\ \A x \in D : x # k => s[x] = u[x]
  <2>1. IsFiniteSet(D)
    BY <1>2, <1>d, FS_Interval
  <2> QED BY <1>1, <1>d, <2>1
<1>6. u[k] = p
  BY <1>1
<1>4. Hits(D, u, o) + Is(s[k], o) = Hits(D, s, o) + Is(u[k], o)
  <2>n. PICK f, g, c : f = s /\ g = u /\ c = k
    OBVIOUS
  <2>1. IsFiniteSet(D) /\ c \in D /\ \A x \in D : x # c => (f[x] = o <=> g[x] = o)
    BY <1>3, <2>n
  <2>2. Hits(D, g, o) + Is(f[c], o) = Hits(D, f, o) + Is(g[c], o)
    BY ONLY <2>1, OneChange
  <2> QED BY <2>n, <2>2
<1>5. Count(u, o) = Hits(D, u, o) /\ Count(s, o) = Hits(D, s, o)
  BY <1>2, <1>d DEF Count, Hits
<1> QED BY <1>1, <1>4, <1>5, <1>6

(* The first value taken off.                                                 *)
LEMMA CountTail ==
  ASSUME NEW S, NEW s \in Seq(S), s # <<>>, NEW o
  PROVE  /\ Head(s) \in S /\ Tail(s) \in Seq(S)
         /\ Count(s, o) = Is(Head(s), o) + Count(Tail(s), o)
<1>p. PICK h, t, e : h = Head(s) /\ t = Tail(s) /\ e = << h >>
  OBVIOUS
<1>1. /\ h \in S /\ t \in Seq(S) /\ Len(t) = Len(s) - 1
      /\ \A i \in 1 .. Len(t) : t[i] = s[i + 1]
  BY <1>p, HeadTailProperties
<1>2. Len(s) \in Nat \ {0} /\ Len(t) \in Nat
  BY <1>1, EmptySeq, LenProperties
<1>3. e \in Seq(S) /\ Len(e) = 1 /\ e[1] = h /\ Count(e, o) = Is(h, o)
  BY <1>1, <1>p, CountShort
<1>4. PICK u : u = Joined(e, t)
  OBVIOUS
<1>5. u \in Seq(S) /\ Count(u, o) = Count(e, o) + Count(t, o)
  BY ONLY <1>1, <1>3, <1>4, CountConcat
<1>6. s = u
  <2>1. /\ Len(u) = 1 + Len(t)
        /\ \A i \in 1 .. (1 + Len(t)) : u[i] = IF i <= 1 THEN e[i] ELSE t[i - 1]
    <3>1. /\ Len(u) = Len(e) + Len(t)
          /\ \A i \in 1 .. Len(e) + Len(t) : u[i] = IF i <= Len(e) THEN e[i] ELSE t[i - Len(e)]
      BY <1>1, <1>3, <1>4, ConcatProperties DEF Joined
    <3> QED BY <1>3, <3>1
  <2>2. h = s[1]
    BY <1>p DEF Head
  <2>3. ASSUME NEW i \in 1 .. Len(s) PROVE s[i] = u[i]
    <3>1. CASE i = 1
      BY <1>2, <1>3, <2>1, <2>2, <3>1
    <3>2. CASE i # 1
      <4>1. /\ i \in 1 .. (1 + Len(t)) /\ ~ (i <= 1) /\ i - 1 \in 1 .. Len(t)
            /\ i - 1 + 1 = i
        BY <1>1, <1>2, <3>2
      <4> QED BY <1>1, <2>1, <4>1
    <3> QED BY <3>1, <3>2
  <2>4. Len(s) = Len(u)
    BY <1>1, <1>2, <2>1
  <2> QED BY <1>5, <2>3, <2>4, SeqEqual
<1> QED BY <1>1, <1>3, <1>5, <1>6, <1>p
-----------------------------------------------------------------------------
(* The owners of an object, by what owns it.                                  *)
Object == [kind : {"unused", "list", "ref"}, cnt : Nat, ptr : Obj \cup {NULL},
           elems : Seq(Payload)]
Heaps == [Obj -> Object]
Ptrs(hp) == [q \in Obj |-> hp[q].ptr]
Within(hp, q, o) == {q} \X Where(hp[q].elems, o)
Places(hp, o) == UNION {Within(hp, q, o) : q \in Obj}
Holding(hd, o) == Hits(Holder, hd, o)
Referring(hp, o) == Hits(Obj, Ptrs(hp), o)
Listing(hp, o) == Cardinality(Places(hp, o))
Owning(hp, hd, td, o) == Holding(hd, o) + Count(td, o) + Referring(hp, o) + Listing(hp, o)
Unowned(hp, hd, td, o) ==
  /\ \A h \in Holder : hd[h] # o
  /\ Count(td, o) = 0
  /\ \A q \in Obj : hp[q].ptr # o /\ Count(hp[q].elems, o) = 0

(* How often a function has a value.                                          *)
LEMMA HitsIs ==
  ASSUME NEW D, IsFiniteSet(D), NEW f, NEW o
  PROVE  Hits(D, f, o) \in Nat /\ (Hits(D, f, o) = 0 <=> \A x \in D : f[x] # o)
<1> PICK A : A = {x \in D : f[x] = o}
  OBVIOUS
<1>1. A \in SUBSET D
  OBVIOUS
<1>2. IsFiniteSet(A) /\ Cardinality(A) \in Nat
  BY <1>1, FS_Subset, FS_CardinalityType
<1>3. Cardinality(A) = 0 <=> A = {}
  BY <1>2, FS_EmptySet
<1>4. A = {} <=> \A x \in D : f[x] # o
  OBVIOUS
<1> QED BY <1>2, <1>3, <1>4 DEF Hits

(* The places of one list.                                                    *)
LEMMA WithinIs ==
  ASSUME NEW hp \in Heaps, NEW q \in Obj, NEW o
  PROVE  /\ hp[q].elems \in Seq(Payload) /\ Count(hp[q].elems, o) \in Nat
         /\ IsFiniteSet(Within(hp, q, o))
         /\ Cardinality(Within(hp, q, o)) = Count(hp[q].elems, o)
<1>1. hp[q].elems \in Seq(Payload)
  BY DEF Heaps, Object
<1> PICK W : W = Where(hp[q].elems, o)
  OBVIOUS
<1>2. /\ IsFiniteSet(W) /\ Count(hp[q].elems, o) = Cardinality(W)
      /\ Count(hp[q].elems, o) \in Nat
  BY <1>1, CountIs
<1>3. IsFiniteSet({q}) /\ Cardinality({q}) = 1
  BY FS_Singleton
<1>4. IsFiniteSet({q} \X W) /\ Cardinality({q} \X W) = 1 * Cardinality(W)
  BY <1>2, <1>3, FS_Product
<1> QED BY <1>1, <1>2, <1>4 DEF Within

(* The places in all lists but one, and with it.                              *)
LEMMA PlacesSplit ==
  ASSUME NEW hp \in Heaps, NEW c \in Obj, NEW o,
         NEW E, E = UNION {Within(hp, q, o) : q \in Obj \ {c}}
  PROVE  /\ IsFiniteSet(E) /\ Cardinality(E) \in Nat
         /\ Listing(hp, o) = Cardinality(E) + Count(hp[c].elems, o)
<1> PICK W : W = Within(hp, c, o)
  OBVIOUS
<1>1. /\ IsFiniteSet(W) /\ Cardinality(W) = Count(hp[c].elems, o)
      /\ Count(hp[c].elems, o) \in Nat
  BY WithinIs
<1>2. IsFiniteSet(E)
  <2> DEFINE D == Obj \ {c}
             R == {Within(hp, q, o) : q \in D}
             f == [q \in D |-> Within(hp, q, o)]
  <2>1. f \in Surjection(D, R)
    BY DEF Surjection
  <2>2. D \in SUBSET Obj
    OBVIOUS
  <2>3. IsFiniteSet(D)
    BY <2>2, FS_Subset, SharedAssumption
  <2>4. \A T \in R : IsFiniteSet(T)
    BY WithinIs
  <2>5. E = UNION R
    OBVIOUS
  <2> HIDE DEF D, R, f
  <2>6. IsFiniteSet(R)
    BY <2>1, <2>3, FS_Surjection
  <2> QED BY <2>4, <2>5, <2>6, FS_UNION
<1>3. Cardinality(E) \in Nat
  BY <1>2, FS_CardinalityType
<1>4. Places(hp, o) = E \cup W
  BY DEF Places
<1>5. E \cap W = {}
  <2> SUFFICES ASSUME NEW x \in E, x \in W PROVE FALSE
    OBVIOUS
  <2>1. PICK q \in Obj \ {c} : x \in Within(hp, q, o)
    OBVIOUS
  <2>2. x[1] = q
    BY <2>1 DEF Within
  <2>3. x[1] = c
    BY DEF Within
  <2> QED BY <2>2, <2>3
<1>6. Cardinality(E \cup W) = Cardinality(E) + Cardinality(W) - Cardinality(E \cap W)
  BY <1>1, <1>2, FS_Union
<1>7. Cardinality(E \cap W) = 0
  BY <1>5, FS_EmptySet
<1> QED BY <1>1, <1>2, <1>3, <1>4, <1>6, <1>7 DEF Listing

(* The places in all lists are a number, none if each list has none.          *)
LEMMA ListingIs ==
  ASSUME NEW hp \in Heaps, NEW o
  PROVE  /\ Listing(hp, o) \in Nat
         /\ \A c \in Obj : Count(hp[c].elems, o) <= Listing(hp, o)
         /\ (\A c \in Obj : Count(hp[c].elems, o) = 0) => Listing(hp, o) = 0
<1>1. CASE Obj = {}
  <2>1. Places(hp, o) = {}
    BY <1>1 DEF Places
  <2> QED BY <1>1, <2>1, FS_EmptySet DEF Listing
<1>2. CASE Obj # {}
  <2>1. ASSUME NEW c \in Obj
        PROVE  Listing(hp, o) \in Nat /\ Count(hp[c].elems, o) <= Listing(hp, o)
    <3>1. PICK E : E = UNION {Within(hp, q, o) : q \in Obj \ {c}}
      OBVIOUS
    <3>2. Cardinality(E) \in Nat /\ Listing(hp, o) = Cardinality(E) + Count(hp[c].elems, o)
      BY <3>1, PlacesSplit
    <3>3. Count(hp[c].elems, o) \in Nat
      BY WithinIs
    <3> QED BY <3>2, <3>3
  <2>2. ASSUME \A c \in Obj : Count(hp[c].elems, o) = 0 PROVE Listing(hp, o) = 0
    <3>1. \A q \in Obj : Within(hp, q, o) = {}
      BY <2>2, WithinIs, FS_EmptySet
    <3>2. Places(hp, o) = {}
      BY <3>1 DEF Places
    <3> QED BY <3>2, FS_EmptySet DEF Listing
  <2> QED BY <1>2, <2>1, <2>2
<1> QED BY <1>1, <1>2

(* One list changes.                                                          *)
LEMMA ListingChange ==
  ASSUME NEW hp \in Heaps, NEW hp2 \in Heaps, NEW c \in Obj, NEW o,
         \A q \in Obj : q # c => hp2[q].elems = hp[q].elems
  PROVE  Listing(hp2, o) + Count(hp[c].elems, o) = Listing(hp, o) + Count(hp2[c].elems, o)
<1>1. PICK E : E = UNION {Within(hp, q, o) : q \in Obj \ {c}}
  OBVIOUS
<1>2. \A q \in Obj \ {c} : Within(hp2, q, o) = Within(hp, q, o)
  BY DEF Within
<1>3. E = UNION {Within(hp2, q, o) : q \in Obj \ {c}}
  BY <1>1, <1>2
<1>4. Cardinality(E) \in Nat /\ Listing(hp, o) = Cardinality(E) + Count(hp[c].elems, o)
  BY <1>1, PlacesSplit
<1>5. Listing(hp2, o) = Cardinality(E) + Count(hp2[c].elems, o)
  BY <1>3, PlacesSplit
<1>6. Count(hp[c].elems, o) \in Nat /\ Count(hp2[c].elems, o) \in Nat
  BY WithinIs
<1> QED BY ONLY <1>4, <1>5, <1>6

(* One reference changes.                                                     *)
LEMMA ReferringChange ==
  ASSUME NEW hp \in Heaps, NEW hp2 \in Heaps, NEW c \in Obj, NEW o,
         \A q \in Obj : q # c => hp2[q].ptr = hp[q].ptr
  PROVE  Referring(hp2, o) + Is(hp[c].ptr, o) = Referring(hp, o) + Is(hp2[c].ptr, o)
<1>p. PICK f, g : f = Ptrs(hp) /\ g = Ptrs(hp2)
  OBVIOUS
<1>1. f[c] = hp[c].ptr /\ g[c] = hp2[c].ptr /\ \A q \in Obj : q # c => (f[q] = o <=> g[q] = o)
  BY <1>p DEF Ptrs
<1>2. IsFiniteSet(Obj) /\ c \in Obj
  BY SharedAssumption
<1>3. Hits(Obj, g, o) + Is(f[c], o) = Hits(Obj, f, o) + Is(g[c], o)
  BY ONLY <1>1, <1>2, OneChange
<1> QED BY <1>1, <1>3, <1>p DEF Referring

(* One variable changes.                                                      *)
LEMMA HoldingChange ==
  ASSUME NEW hd, NEW hd2, NEW h \in Holder, NEW o,
         \A g \in Holder : g # h => hd2[g] = hd[g]
  PROVE  Holding(hd2, o) + Is(hd[h], o) = Holding(hd, o) + Is(hd2[h], o)
<1>1. IsFiniteSet(Holder) /\ \A g \in Holder : g # h => (hd[g] = o <=> hd2[g] = o)
  BY SharedAssumption
<1>2. Hits(Holder, hd2, o) + Is(hd[h], o) = Hits(Holder, hd, o) + Is(hd2[h], o)
  BY ONLY <1>1, OneChange
<1> QED BY <1>2 DEF Holding

(* The owners are numbers, and none only if nothing owns.                     *)
LEMMA OwningIs ==
  ASSUME NEW hp \in Heaps, NEW hd, NEW td \in Seq(Payload), NEW o
  PROVE  /\ Holding(hd, o) \in Nat /\ Count(td, o) \in Nat
         /\ Referring(hp, o) \in Nat /\ Listing(hp, o) \in Nat
         /\ Owning(hp, hd, td, o) \in Nat
         /\ Owning(hp, hd, td, o) = 0 => Unowned(hp, hd, td, o)
<1>1. /\ Holding(hd, o) \in Nat /\ (Holding(hd, o) = 0 <=> \A h \in Holder : hd[h] # o)
  BY HitsIs, SharedAssumption DEF Holding
<1>2. Referring(hp, o) \in Nat /\ (Referring(hp, o) = 0 <=> \A q \in Obj : hp[q].ptr # o)
  <2>1. \A q \in Obj : Ptrs(hp)[q] = hp[q].ptr
    BY DEF Ptrs
  <2>2. /\ Hits(Obj, Ptrs(hp), o) \in Nat
        /\ Hits(Obj, Ptrs(hp), o) = 0 <=> \A q \in Obj : Ptrs(hp)[q] # o
    BY HitsIs, SharedAssumption
  <2> QED BY <2>1, <2>2 DEF Referring
<1>3. Count(td, o) \in Nat
  BY CountIs
<1>4. Listing(hp, o) \in Nat /\ \A c \in Obj : Count(hp[c].elems, o) <= Listing(hp, o)
  BY ListingIs
<1>5. \A c \in Obj : Count(hp[c].elems, o) \in Nat
  BY WithinIs
<1> HIDE DEF Holding, Referring, Listing, Count
<1>6. Owning(hp, hd, td, o) = Holding(hd, o) + Count(td, o) + Referring(hp, o) + Listing(hp, o)
  BY DEF Owning
<1>7. Owning(hp, hd, td, o) \in Nat
  BY ONLY <1>1, <1>2, <1>3, <1>4, <1>6
<1>8. ASSUME Owning(hp, hd, td, o) = 0
      PROVE  Holding(hd, o) = 0 /\ Count(td, o) = 0 /\ Referring(hp, o) = 0 /\ Listing(hp, o) = 0
  BY ONLY <1>1, <1>2, <1>3, <1>4, <1>6, <1>8
<1>9. Listing(hp, o) = 0 => \A c \in Obj : Count(hp[c].elems, o) = 0
  BY <1>4, <1>5
<1> QED BY <1>1, <1>2, <1>3, <1>4, <1>7, <1>8, <1>9 DEF Unowned
-----------------------------------------------------------------------------
(* The invariant.  The owners of every object are counted, what is counted is *)
(* in use, and ranks fall along every way, so no object leads to itself.      *)
Typed(hp, hd, td) == hp \in Heaps /\ hd \in [Holder -> Obj \cup {NULL}] /\ td \in Seq(Payload)
Shaped(hp) == \A o \in Obj :
  /\ hp[o].kind = "ref" => hp[o].ptr \in Obj /\ hp[o].elems = <<>>
  /\ hp[o].kind # "ref" => hp[o].ptr = NULL
  /\ hp[o].kind = "unused" => hp[o].elems = <<>>
Exact(hp, hd, td) == \A o \in Obj : hp[o].cnt = Owning(hp, hd, td, o)
Living(hp) == \A o \in Obj : hp[o].kind # "unused" <=> hp[o].cnt > 0
Leads(hp, q, o) == hp[q].ptr = o \/ Count(hp[q].elems, o) # 0
Ranks(hp, r, b) ==
  /\ r \in [Obj -> Nat] /\ b \in Nat /\ \A q \in Obj : r[q] <= b
  /\ \A q, o \in Obj : Leads(hp, q, o) => r[o] < r[q]
Ranked(hp) == \E r, b : Ranks(hp, r, b)
SlGood(hp, hd, td) ==
  Typed(hp, hd, td) /\ Shaped(hp) /\ Exact(hp, hd, td) /\ Living(hp) /\ Ranked(hp)
SlNow == SlGood(heap, hold, todo)
SlInv == fault = "none" => SlNow

(* The owners of o before and after a step that changes one object, or one    *)
(* variable, and the calls under way.                                         *)
OnlyAt(hp, hp2, c) ==
  \A q \in Obj : q # c => hp2[q].ptr = hp[q].ptr /\ hp2[q].elems = hp[q].elems
HeapBalance(hp, hp2, hd, td, td2, c, o) ==
  /\ Owning(hp, hd, td, o) \in Nat /\ Owning(hp2, hd, td2, o) \in Nat
  /\ Count(td, o) \in Nat /\ Count(td2, o) \in Nat
  /\ Count(hp[c].elems, o) \in Nat /\ Count(hp2[c].elems, o) \in Nat
  /\ Owning(hp2, hd, td2, o) + Is(hp[c].ptr, o) + Count(hp[c].elems, o) + Count(td, o)
     = Owning(hp, hd, td, o) + Is(hp2[c].ptr, o) + Count(hp2[c].elems, o) + Count(td2, o)
HoldBalance(hp, hd, hd2, td, td2, h, o) ==
  /\ Owning(hp, hd, td, o) \in Nat /\ Owning(hp, hd2, td2, o) \in Nat
  /\ Count(td, o) \in Nat /\ Count(td2, o) \in Nat
  /\ Owning(hp, hd2, td2, o) + Is(hd[h], o) + Count(td, o)
     = Owning(hp, hd, td, o) + Is(hd2[h], o) + Count(td2, o)

(* The owners when one object's contents and the calls under way change.      *)
LEMMA OwningHeap ==
  ASSUME NEW hp \in Heaps, NEW hp2 \in Heaps, NEW c \in Obj, NEW o, NEW hd,
         NEW td \in Seq(Payload), NEW td2 \in Seq(Payload), OnlyAt(hp, hp2, c)
  PROVE  HeapBalance(hp, hp2, hd, td, td2, c, o)
<1>1. Referring(hp2, o) + Is(hp[c].ptr, o) = Referring(hp, o) + Is(hp2[c].ptr, o)
  BY ReferringChange DEF OnlyAt
<1>2. Listing(hp2, o) + Count(hp[c].elems, o) = Listing(hp, o) + Count(hp2[c].elems, o)
  BY ListingChange DEF OnlyAt
<1>3. /\ Holding(hd, o) \in Nat /\ Count(td, o) \in Nat /\ Referring(hp, o) \in Nat
      /\ Listing(hp, o) \in Nat /\ Owning(hp, hd, td, o) \in Nat
  BY OwningIs
<1>4. /\ Count(td2, o) \in Nat /\ Referring(hp2, o) \in Nat
      /\ Listing(hp2, o) \in Nat /\ Owning(hp2, hd, td2, o) \in Nat
  BY OwningIs
<1>5. Count(hp[c].elems, o) \in Nat /\ Count(hp2[c].elems, o) \in Nat
  BY WithinIs
<1>6. Is(hp[c].ptr, o) \in Nat /\ Is(hp2[c].ptr, o) \in Nat
  BY DEF Is
<1>7. /\ Owning(hp, hd, td, o)
         = Holding(hd, o) + Count(td, o) + Referring(hp, o) + Listing(hp, o)
      /\ Owning(hp2, hd, td2, o)
         = Holding(hd, o) + Count(td2, o) + Referring(hp2, o) + Listing(hp2, o)
  BY DEF Owning
<1>8. Owning(hp2, hd, td2, o) + Is(hp[c].ptr, o) + Count(hp[c].elems, o) + Count(td, o)
      = Owning(hp, hd, td, o) + Is(hp2[c].ptr, o) + Count(hp2[c].elems, o) + Count(td2, o)
  <2> PICK a, b, c1, d, e, a2, b2, d2, e2, i, j, k, l :
             /\ a = Holding(hd, o) /\ b = Count(td, o) /\ b2 = Count(td2, o)
             /\ d = Referring(hp, o) /\ d2 = Referring(hp2, o)
             /\ e = Listing(hp, o) /\ e2 = Listing(hp2, o)
             /\ c1 = Owning(hp, hd, td, o) /\ a2 = Owning(hp2, hd, td2, o)
             /\ i = Is(hp[c].ptr, o) /\ j = Is(hp2[c].ptr, o)
             /\ k = Count(hp[c].elems, o) /\ l = Count(hp2[c].elems, o)
    OBVIOUS
  <2>1. /\ d2 + i = d + j /\ e2 + k = e + l /\ c1 = a + b + d + e /\ a2 = a + b2 + d2 + e2
        /\ a \in Nat /\ b \in Nat /\ b2 \in Nat /\ d \in Nat /\ d2 \in Nat /\ e \in Nat
        /\ e2 \in Nat /\ i \in Nat /\ j \in Nat /\ k \in Nat /\ l \in Nat
    BY <1>1, <1>2, <1>3, <1>4, <1>5, <1>6, <1>7
  <2>2. a2 + i + k + b = c1 + j + l + b2
    BY ONLY <2>1
  <2> QED BY <2>2
<1> QED BY <1>3, <1>4, <1>5, <1>8 DEF HeapBalance

(* The owners when one variable and the calls under way change.               *)
LEMMA OwningHold ==
  ASSUME NEW hp \in Heaps, NEW hd, NEW hd2, NEW h \in Holder, NEW o,
         NEW td \in Seq(Payload), NEW td2 \in Seq(Payload),
         \A g \in Holder : g # h => hd2[g] = hd[g]
  PROVE  HoldBalance(hp, hd, hd2, td, td2, h, o)
<1>1. Holding(hd2, o) + Is(hd[h], o) = Holding(hd, o) + Is(hd2[h], o)
  BY HoldingChange
<1>3. /\ Holding(hd, o) \in Nat /\ Count(td, o) \in Nat /\ Referring(hp, o) \in Nat
      /\ Listing(hp, o) \in Nat /\ Owning(hp, hd, td, o) \in Nat
  BY OwningIs
<1>4. /\ Count(td2, o) \in Nat /\ Holding(hd2, o) \in Nat /\ Owning(hp, hd2, td2, o) \in Nat
  BY OwningIs
<1>6. Is(hd[h], o) \in Nat /\ Is(hd2[h], o) \in Nat
  BY DEF Is
<1>7. /\ Owning(hp, hd, td, o)
         = Holding(hd, o) + Count(td, o) + Referring(hp, o) + Listing(hp, o)
      /\ Owning(hp, hd2, td2, o)
         = Holding(hd2, o) + Count(td2, o) + Referring(hp, o) + Listing(hp, o)
  BY DEF Owning
<1>8. Owning(hp, hd2, td2, o) + Is(hd[h], o) + Count(td, o)
      = Owning(hp, hd, td, o) + Is(hd2[h], o) + Count(td2, o)
  <2> PICK a, b, c, d, e, a2, b2, c2, i, j :
             /\ a = Holding(hd, o) /\ a2 = Holding(hd2, o)
             /\ b = Count(td, o) /\ b2 = Count(td2, o)
             /\ d = Referring(hp, o) /\ e = Listing(hp, o)
             /\ c = Owning(hp, hd, td, o) /\ c2 = Owning(hp, hd2, td2, o)
             /\ i = Is(hd[h], o) /\ j = Is(hd2[h], o)
    OBVIOUS
  <2>1. /\ a2 + i = a + j /\ c = a + b + d + e /\ c2 = a2 + b2 + d + e
        /\ a \in Nat /\ a2 \in Nat /\ b \in Nat /\ b2 \in Nat /\ d \in Nat /\ e \in Nat
        /\ i \in Nat /\ j \in Nat
    BY <1>1, <1>3, <1>4, <1>6, <1>7
  <2>2. c2 + i + b = c + j + b2
    BY ONLY <2>1
  <2> QED BY <2>2
<1> QED BY <1>3, <1>4, <1>8 DEF HoldBalance

(* What is owned is in use; what is not has no owner.                         *)
LEMMA OwnedLives ==
  ASSUME NEW hp, NEW hd, NEW td, SlGood(hp, hd, td), NEW o \in Obj
  PROVE  /\ \A h \in Holder : hd[h] = o => hp[o].kind # "unused"
         /\ \A q \in Obj : Leads(hp, q, o) => hp[o].kind # "unused"
         /\ Count(td, o) # 0 => hp[o].kind # "unused"
<1>1. hp \in Heaps /\ td \in Seq(Payload) /\ hp[o].cnt = Owning(hp, hd, td, o)
  BY DEF SlGood, Typed, Exact
<1>2. /\ Owning(hp, hd, td, o) \in Nat
      /\ Owning(hp, hd, td, o) = 0
           => /\ \A h \in Holder : hd[h] # o
              /\ Count(td, o) = 0
              /\ \A q \in Obj : hp[q].ptr # o /\ Count(hp[q].elems, o) = 0
  <2>1. Owning(hp, hd, td, o) \in Nat
    BY ONLY <1>1, OwningIs
  <2>2. ASSUME Owning(hp, hd, td, o) = 0
        PROVE  Unowned(hp, hd, td, o)
    BY ONLY <1>1, <2>2, OwningIs
  <2> QED BY <2>1, <2>2 DEF Unowned
<1>3. hp[o].kind # "unused" <=> hp[o].cnt > 0
  BY DEF SlGood, Living
<1>4. hp[o].kind = "unused" => Owning(hp, hd, td, o) = 0
  BY <1>1, <1>2, <1>3
<1> QED BY <1>2, <1>4 DEF Leads

(* Memory for a new object is not in use.                                     *)
LEMMA FreshIs ==
  ASSUME NEW hp \in Heaps, Cardinality(Obj \ Alive(hp)) >= 1
  PROVE  Fresh(hp) \in Obj /\ hp[Fresh(hp)].kind = "unused"
<1> PICK F : F = Obj \ Alive(hp)
  OBVIOUS
<1>1. IsFiniteSet(F)
  <2>1. F \in SUBSET Obj
    OBVIOUS
  <2> QED BY <2>1, FS_Subset, SharedAssumption
<1>2. F # {}
  <2>1. Cardinality({}) = 0
    BY FS_EmptySet
  <2> QED BY <2>1
<1>3. F \subseteq Nat
  <2>1. Cardinality(Obj) \in Nat
    BY FS_CardinalityType, SharedAssumption
  <2> QED BY <2>1, SharedAssumption
<1>4. \E x \in F : \A y \in F : x <= y
  BY ONLY <1>2, <1>3, LeastNumber
<1>5. Fresh(hp) \in F
  BY <1>4 DEF Fresh, Min
<1> QED BY <1>5 DEF Alive

(* Some element of a set is of least rank.                                    *)
LEMMA LeastRank ==
  ASSUME NEW D, NEW r \in [D -> Nat], NEW S \in SUBSET D, S # {}
  PROVE  \E x \in S : \A y \in S : r[x] <= r[y]
<1> DEFINE T == {r[x] : x \in S}
<1>1. T \subseteq Nat /\ T # {}
  OBVIOUS
<1> HIDE DEF T
<1>2. PICK m \in T : \A n \in T : m <= n
  BY <1>1, LeastNumber
<1> QED BY <1>2 DEF T
-----------------------------------------------------------------------------
(* References lead to objects of lower rank, so following them ends.          *)
LEMMA RefLeads ==
  ASSUME Shaped(heap), NEW r, NEW b, Ranks(heap, r, b), NEW x \in Obj, IsRef(x)
  PROVE  heap[x].ptr \in Obj /\ heap[x].elems = <<>> /\ r[heap[x].ptr] < r[x]
<1>1. heap[x].ptr \in Obj /\ heap[x].elems = <<>>
  BY DEF Shaped, IsRef
<1> QED BY <1>1 DEF Ranks, Leads

(* jbl_refer_pull, one reference at a time.                                   *)
LEMMA PullStep ==
  ASSUME Shaped(heap), Ranked(heap), NEW x \in Obj
  PROVE  /\ Pull[x] \in Obj
         /\ IsRef(x) => Pull[x] = Pull[heap[x].ptr]
         /\ ~ IsRef(x) => Pull[x] = x
<1>1. PICK r, b : Ranks(heap, r, b)
  BY DEF Ranked
<1> DEFINE Body(f, o) == IF IsRef(o) THEN f[heap[o].ptr] ELSE o
           B == [o \in Obj |-> [f \in [Obj -> Obj] |-> Body(f, o)]]
<1>2. \A o \in Obj : IsRef(o) => heap[o].ptr \in Obj /\ r[heap[o].ptr] < r[o]
  BY <1>1, RefLeads
<1>3. B \in [Obj -> [[Obj -> Obj] -> Obj]]
  BY <1>2
<1>4. \A o \in Obj : \A f \in [Obj -> Obj] : B[o][f] = Body(f, o)
  OBVIOUS
<1>5. \A o \in Obj : \A f, g \in [Obj -> Obj] :
        (\A y \in Obj : r[y] < r[o] => f[y] = g[y]) => B[o][f] = B[o][g]
  <2> HIDE DEF B
  <2> QED BY <1>2, <1>4
<1>6. r \in [Obj -> Nat] /\ b \in Nat /\ \A o \in Obj : r[o] <= b
  BY <1>1 DEF Ranks
<1> HIDE DEF B
<1>7. \E f : Solves(Obj, Obj, B, f)
  <2>1. Falling(Obj, Obj, r, b, B)
    BY ONLY <1>3, <1>5, <1>6 DEF Falling
  <2> QED BY <2>1, RecursionByRank
<1>8. \E f : f \in [Obj -> Obj] /\ f = [o \in Obj |-> Body(f, o)]
  <2>1. PICK f \in [Obj -> Obj] : \A o \in Obj : f[o] = B[o][f]
    BY <1>7 DEF Solves
  <2>2. f = [o \in Obj |-> Body(f, o)]
    BY <1>4, <2>1
  <2> QED BY <2>2
<1>9. Pull = CHOOSE f : f = [o \in Obj |-> Body(f, o)]
  BY DEF Pull
<1>10. Pull = [o \in Obj |-> Body(Pull, o)]
  <2> DEFINE Sol(f) == f = [o \in Obj |-> Body(f, o)]
  <2>1. \E f : Sol(f)
    BY <1>8
  <2>2. Pull = CHOOSE f : Sol(f)
    BY <1>9
  <2> HIDE DEF Sol
  <2>3. Sol(Pull)
    BY <2>1, <2>2
  <2> QED BY <2>3 DEF Sol
<1>11. \A o \in Obj : Pull[o] = Body(Pull, o)
  BY <1>10
<1>12. \A o \in Obj : Pull[o] \in Obj
  <2> DEFINE Bad == {o \in Obj : Pull[o] \notin Obj}
  <2> SUFFICES ASSUME Bad # {} PROVE FALSE
    OBVIOUS
  <2>1. Bad \in SUBSET Obj
    OBVIOUS
  <2>2. PICK o \in Bad : \A y \in Bad : r[o] <= r[y]
    BY ONLY <1>6, <2>1, Bad # {}, LeastRank
  <2>3. IsRef(o) /\ Pull[o] = Pull[heap[o].ptr]
    BY <1>11, <2>2
  <2>4. heap[o].ptr \in Obj /\ r[heap[o].ptr] < r[o] /\ heap[o].ptr \in Bad
    BY <1>2, <2>2, <2>3
  <2> QED BY <1>6, <2>2, <2>4
<1> QED BY <1>11, <1>12

(* jbl_refer_pull_keep_father, one reference at a time.                        *)
LEMMA FatherStep ==
  ASSUME Shaped(heap), Ranked(heap), NEW x \in Obj
  PROVE  /\ ~ IsRef(x) => Father[x] = NULL
         /\ IsRef(x) /\ IsRef(heap[x].ptr) => Father[x] = Father[heap[x].ptr]
         /\ IsRef(x) /\ ~ IsRef(heap[x].ptr) => Father[x] = x
<1>1. PICK r, b : Ranks(heap, r, b)
  BY DEF Ranked
<1> DEFINE Body(f, o) == IF ~ IsRef(o) THEN NULL
                         ELSE IF IsRef(heap[o].ptr) THEN f[heap[o].ptr] ELSE o
           B == [o \in Obj |-> [f \in [Obj -> (Obj \cup {NULL})] |-> Body(f, o)]]
<1>2. \A o \in Obj : IsRef(o) => heap[o].ptr \in Obj /\ r[heap[o].ptr] < r[o]
  BY <1>1, RefLeads
<1>3. B \in [Obj -> [[Obj -> (Obj \cup {NULL})] -> (Obj \cup {NULL})]]
  BY <1>2
<1>4. \A o \in Obj : \A f \in [Obj -> (Obj \cup {NULL})] : B[o][f] = Body(f, o)
  OBVIOUS
<1>5. \A o \in Obj : \A f, g \in [Obj -> (Obj \cup {NULL})] :
        (\A y \in Obj : r[y] < r[o] => f[y] = g[y]) => B[o][f] = B[o][g]
  <2> HIDE DEF B
  <2> QED BY <1>2, <1>4
<1>6. r \in [Obj -> Nat] /\ b \in Nat /\ \A o \in Obj : r[o] <= b
  BY <1>1 DEF Ranks
<1> HIDE DEF B
<1>7. \E f : Solves(Obj, (Obj \cup {NULL}), B, f)
  <2>1. Falling(Obj, (Obj \cup {NULL}), r, b, B)
    BY ONLY <1>3, <1>5, <1>6 DEF Falling
  <2>2. NULL \in (Obj \cup {NULL})
    OBVIOUS
  <2> QED BY <2>1, <2>2, RecursionByRank
<1>8. \E f : f \in [Obj -> (Obj \cup {NULL})] /\ f = [o \in Obj |-> Body(f, o)]
  <2>1. PICK f \in [Obj -> (Obj \cup {NULL})] : \A o \in Obj : f[o] = B[o][f]
    BY <1>7 DEF Solves
  <2>2. f = [o \in Obj |-> Body(f, o)]
    <3>1. \A o \in Obj : f[o] = Body(f, o)
      BY <1>4, <2>1
    <3> HIDE DEF Body
    <3> QED BY <3>1
  <2> QED BY <2>2
<1>9. Father = CHOOSE f : f = [o \in Obj |-> Body(f, o)]
  BY DEF Father
<1>10. Father = [o \in Obj |-> Body(Father, o)]
  <2> DEFINE Sol(f) == f = [o \in Obj |-> Body(f, o)]
  <2>1. \E f : Sol(f)
    BY <1>8
  <2>2. Father = CHOOSE f : Sol(f)
    BY <1>9
  <2> HIDE DEF Sol
  <2>3. Sol(Father)
    BY <2>1, <2>2
  <2> QED BY <2>3 DEF Sol
<1>11. \A o \in Obj : Father[o] = Body(Father, o)
  <2> HIDE DEF Body
  <2> QED BY <1>10
<1> QED BY <1>11

(* The references that jbl_derefer frees, one at a time.                       *)
LEMMA FreedStep ==
  ASSUME Shaped(heap), Ranked(heap), NEW x \in Obj
  PROVE  /\ IsRef(x) => Freed[x] = {x} \cup (IF heap[x].cnt = 1 THEN Freed[heap[x].ptr] ELSE {})
         /\ ~ IsRef(x) => Freed[x] = {}
<1>1. PICK r, b : Ranks(heap, r, b)
  BY DEF Ranked
<1> DEFINE Body(f, o) == IF ~ IsRef(o) THEN {}
                         ELSE {o} \cup (IF heap[o].cnt = 1 THEN f[heap[o].ptr] ELSE {})
           B == [o \in Obj |-> [f \in [Obj -> (SUBSET Obj)] |-> Body(f, o)]]
<1>2. \A o \in Obj : IsRef(o) => heap[o].ptr \in Obj /\ r[heap[o].ptr] < r[o]
  BY <1>1, RefLeads
<1>3. B \in [Obj -> [[Obj -> (SUBSET Obj)] -> (SUBSET Obj)]]
  BY <1>2
<1>4. \A o \in Obj : \A f \in [Obj -> (SUBSET Obj)] : B[o][f] = Body(f, o)
  OBVIOUS
<1>5. \A o \in Obj : \A f, g \in [Obj -> (SUBSET Obj)] :
        (\A y \in Obj : r[y] < r[o] => f[y] = g[y]) => B[o][f] = B[o][g]
  <2> HIDE DEF B
  <2>1. ASSUME NEW o \in Obj, NEW f \in [Obj -> (SUBSET Obj)], NEW g \in [Obj -> (SUBSET Obj)],
               \A y \in Obj : r[y] < r[o] => f[y] = g[y]
        PROVE  Body(f, o) = Body(g, o)
    <3>1. CASE IsRef(o)
      <4>1. f[heap[o].ptr] = g[heap[o].ptr]
        BY <1>2, <2>1, <3>1
      <4> QED BY <3>1, <4>1
    <3>2. CASE ~ IsRef(o)
      BY <3>2
    <3> QED BY <3>1, <3>2
  <2> HIDE DEF Body
  <2> QED BY <1>4, <2>1
<1>6. r \in [Obj -> Nat] /\ b \in Nat /\ \A o \in Obj : r[o] <= b
  BY <1>1 DEF Ranks
<1> HIDE DEF B
<1>7. \E f : Solves(Obj, (SUBSET Obj), B, f)
  <2>1. Falling(Obj, (SUBSET Obj), r, b, B)
    BY ONLY <1>3, <1>5, <1>6 DEF Falling
  <2>2. {} \in (SUBSET Obj)
    OBVIOUS
  <2> QED BY <2>1, <2>2, RecursionByRank
<1>8. \E f : f \in [Obj -> (SUBSET Obj)] /\ f = [o \in Obj |-> Body(f, o)]
  <2>1. PICK f \in [Obj -> (SUBSET Obj)] : \A o \in Obj : f[o] = B[o][f]
    BY <1>7 DEF Solves
  <2>2. f = [o \in Obj |-> Body(f, o)]
    <3>1. \A o \in Obj : f[o] = Body(f, o)
      BY <1>4, <2>1
    <3> HIDE DEF Body
    <3> QED BY <3>1
  <2> QED BY <2>2
<1>9. Freed = CHOOSE f : f = [o \in Obj |-> Body(f, o)]
  BY DEF Freed
<1>10. Freed = [o \in Obj |-> Body(Freed, o)]
  <2> DEFINE Sol(f) == f = [o \in Obj |-> Body(f, o)]
  <2>1. \E f : Sol(f)
    BY <1>8
  <2>2. Freed = CHOOSE f : Sol(f)
    BY <1>9
  <2> HIDE DEF Sol
  <2>3. Sol(Freed)
    BY <2>1, <2>2
  <2> QED BY <2>3 DEF Sol
<1>11. \A o \in Obj : Freed[o] = Body(Freed, o)
  <2> HIDE DEF Body
  <2> QED BY <1>10
<1> QED BY <1>11

(* An object is among the values of a list exactly if it is counted there.    *)
LEMMA InRange ==
  ASSUME NEW hp \in Heaps, NEW q \in Obj, NEW o
  PROVE  o \in Range(hp[q].elems) <=> Count(hp[q].elems, o) # 0
<1>1. PICK s \in Seq(Payload) : s = hp[q].elems
  BY DEF Heaps, Object
<1>2. Count(s, o) = 0 <=> \A i \in 1 .. Len(s) : s[i] # o
  BY CountIs
<1>3. DOMAIN s = 1 .. Len(s)
  BY LenProperties
<1> QED BY <1>1, <1>2, <1>3 DEF Range

(* What an object leads to, one step at a time.                                *)
LEMMA BelowStep ==
  ASSUME heap \in Heaps, Shaped(heap), Ranked(heap), NEW x \in Obj
  PROVE  Below[x] = {x} \cup IF IsRef(x) THEN Below[heap[x].ptr]
                                 ELSE UNION {Below[q] : q \in Obj \cap Range(heap[x].elems)}
<1>1. PICK r, b : Ranks(heap, r, b)
  BY DEF Ranked
<1> DEFINE Body(f, o) == {o} \cup IF IsRef(o) THEN f[heap[o].ptr]
                                 ELSE UNION {f[q] : q \in Obj \cap Range(heap[o].elems)}
           B == [o \in Obj |-> [f \in [Obj -> (SUBSET Obj)] |-> Body(f, o)]]
<1>2. \A o \in Obj : IsRef(o) => heap[o].ptr \in Obj /\ r[heap[o].ptr] < r[o]
  BY <1>1, RefLeads
<1>a. \A o \in Obj : \A q \in Obj \cap Range(heap[o].elems) : r[q] < r[o]
  <2> TAKE o \in Obj
  <2> TAKE q \in Obj \cap Range(heap[o].elems)
  <2>1. Leads(heap, o, q)
    BY InRange DEF Leads
  <2> QED BY <1>1, <2>1 DEF Ranks
<1>3. B \in [Obj -> [[Obj -> (SUBSET Obj)] -> (SUBSET Obj)]]
  <2>1. ASSUME NEW o \in Obj, NEW f \in [Obj -> (SUBSET Obj)] PROVE Body(f, o) \in SUBSET Obj
    BY <1>2
  <2> HIDE DEF Body
  <2> QED BY <2>1
<1>4. \A o \in Obj : \A f \in [Obj -> (SUBSET Obj)] : B[o][f] = Body(f, o)
  OBVIOUS
<1>5. \A o \in Obj : \A f, g \in [Obj -> (SUBSET Obj)] :
        (\A y \in Obj : r[y] < r[o] => f[y] = g[y]) => B[o][f] = B[o][g]
  <2> HIDE DEF B
  <2>1. ASSUME NEW o \in Obj, NEW f \in [Obj -> (SUBSET Obj)], NEW g \in [Obj -> (SUBSET Obj)],
               \A y \in Obj : r[y] < r[o] => f[y] = g[y]
        PROVE  Body(f, o) = Body(g, o)
    <3>1. CASE IsRef(o)
      BY <1>2, <2>1, <3>1
    <3>2. CASE ~ IsRef(o)
      <4>1. \A q \in Obj \cap Range(heap[o].elems) : f[q] = g[q]
        BY <1>a, <2>1
      <4>2. {f[q] : q \in Obj \cap Range(heap[o].elems)}
            = {g[q] : q \in Obj \cap Range(heap[o].elems)}
        BY <4>1
      <4> QED BY <3>2, <4>2
    <3> QED BY <3>1, <3>2
  <2> HIDE DEF Body
  <2> QED BY <1>4, <2>1
<1>6. r \in [Obj -> Nat] /\ b \in Nat /\ \A o \in Obj : r[o] <= b
  BY <1>1 DEF Ranks
<1> HIDE DEF B
<1>7. \E f : Solves(Obj, (SUBSET Obj), B, f)
  <2>1. Falling(Obj, (SUBSET Obj), r, b, B)
    BY ONLY <1>3, <1>5, <1>6 DEF Falling
  <2>2. {} \in (SUBSET Obj)
    OBVIOUS
  <2> QED BY <2>1, <2>2, RecursionByRank
<1>8. \E f : f \in [Obj -> (SUBSET Obj)] /\ f = [o \in Obj |-> Body(f, o)]
  <2>1. PICK f \in [Obj -> (SUBSET Obj)] : \A o \in Obj : f[o] = B[o][f]
    BY <1>7 DEF Solves
  <2>2. f = [o \in Obj |-> Body(f, o)]
    <3>1. \A o \in Obj : f[o] = Body(f, o)
      BY <1>4, <2>1
    <3> HIDE DEF Body
    <3> QED BY <3>1
  <2> QED BY <2>2
<1>9. Below = CHOOSE f : f = [o \in Obj |-> Body(f, o)]
  BY DEF Below
<1>10. Below = [o \in Obj |-> Body(Below, o)]
  <2> DEFINE Sol(f) == f = [o \in Obj |-> Body(f, o)]
  <2>1. \E f : Sol(f)
    BY <1>8
  <2>2. Below = CHOOSE f : Sol(f)
    BY <1>9
  <2> HIDE DEF Sol
  <2>3. Sol(Below)
    BY <2>1, <2>2
  <2> QED BY <2>3 DEF Sol
<1>11. \A o \in Obj : Below[o] = Body(Below, o)
  <2> HIDE DEF Body
  <2> QED BY <1>10
<1> QED BY <1>11

(* NULL is no object.                                                         *)
LEMMA NullIs == NULL \notin Obj
<1>1. Cardinality(Obj) \in Nat
  BY FS_CardinalityType, SharedAssumption
<1> QED BY <1>1, SharedAssumption DEF NULL

(* Nothing is in the empty sequence and NULL names no object.                 *)
LEMMA EmptyIs ==
  ASSUME NEW o \in Obj
  PROVE  Count(<<>>, o) = 0 /\ Is(NULL, o) = 0 /\ <<>> \in Seq(Payload)
<1>1. o \in Payload
  BY DEF Payload
<1>2. Count(<<>>, o) = 0 /\ <<>> \in Seq(Payload)
  BY <1>1, CountShort
<1> QED BY <1>2, NullIs DEF Is

(* The ways from an object that is in use.                                    *)
LEMMA LeadsIs ==
  ASSUME heap \in Heaps, Shaped(heap), NEW q \in Obj, NEW o \in Obj
  PROVE  /\ IsRef(q) => (Leads(heap, q, o) <=> o = heap[q].ptr)
         /\ ~ IsRef(q) => (Leads(heap, q, o) <=> o \in Range(heap[q].elems))
<1>1. o \in Range(heap[q].elems) <=> Count(heap[q].elems, o) # 0
  BY InRange
<1>2. CASE IsRef(q)
  <2>1. heap[q].elems = <<>>
    BY <1>2 DEF Shaped, IsRef
  <2>2. \A y : y \notin Range(<<>>)
    BY DEF Range
  <2> QED BY <1>1, <1>2, <2>1, <2>2 DEF Leads
<1>3. CASE ~ IsRef(q)
  <2>1. heap[q].ptr = NULL
    BY <1>3 DEF Shaped, IsRef
  <2>2. o # NULL
    BY NullIs
  <2> QED BY <1>1, <1>3, <2>1, <2>2 DEF Leads
<1> QED BY <1>2, <1>3

(* What an object that is in use stands for is a list.                        *)
LEMMA PullIs ==
  ASSUME SlNow, NEW x \in Obj, heap[x].kind # "unused"
  PROVE  /\ Pull[x] \in Obj /\ heap[Pull[x]].kind = "list"
         /\ ~ IsRef(x) => Pull[x] = x /\ Father[x] = NULL
         /\ IsRef(x) => Father[x] \in Obj /\ IsRef(Father[x]) /\ heap[Father[x]].ptr = Pull[x]
<1> DEFINE Fine(y) == /\ Pull[y] \in Obj /\ heap[Pull[y]].kind = "list"
                      /\ ~ IsRef(y) => Pull[y] = y /\ Father[y] = NULL
                      /\ IsRef(y) => /\ Father[y] \in Obj /\ IsRef(Father[y])
                                     /\ heap[Father[y]].ptr = Pull[y]
           Bad == {y \in Obj : heap[y].kind # "unused" /\ ~ Fine(y)}
<1>0. /\ heap \in Heaps /\ Shaped(heap) /\ Ranked(heap)
      /\ \A y \in Obj : heap[y].kind \in {"unused", "list", "ref"}
  BY DEF SlNow, SlGood, Typed, Heaps, Object
<1>1. PICK r, b : Ranks(heap, r, b)
  BY <1>0 DEF Ranked
<1>2. r \in [Obj -> Nat]
  BY <1>1 DEF Ranks
<1>3. Bad = {}
  <2> SUFFICES ASSUME Bad # {} PROVE FALSE
    OBVIOUS
  <2>1. Bad \in SUBSET Obj
    OBVIOUS
  <2>2. PICK y \in Bad : \A z \in Bad : r[y] <= r[z]
    BY ONLY <1>2, <2>1, Bad # {}, LeastRank
  <2>3. y \in Obj /\ heap[y].kind # "unused" /\ ~ Fine(y)
    BY <2>2
  <2>4. CASE ~ IsRef(y)
    <3>1. heap[y].kind = "list"
      BY <1>0, <2>3, <2>4 DEF IsRef
    <3> QED BY <1>0, <2>3, <2>4, <3>1, PullStep, FatherStep
  <2>5. CASE IsRef(y)
    <3>1. PICK z : z = heap[y].ptr
      OBVIOUS
    <3>2. z \in Obj /\ r[z] < r[y]
      BY <1>0, <1>1, <2>3, <2>5, <3>1, RefLeads
    <3>3. heap[z].kind # "unused"
      <4>1. Leads(heap, y, z)
        BY <3>1 DEF Leads
      <4> QED BY <2>3, <3>2, <4>1, OwnedLives DEF SlNow
    <3>4. z \notin Bad
      BY <1>2, <2>2, <2>3, <3>2
    <3>5. Fine(z)
      BY <3>2, <3>3, <3>4
    <3>6. Pull[y] = Pull[z]
      BY <1>0, <2>3, <2>5, <3>1, PullStep
    <3>7. CASE IsRef(z)
      <4>1. Father[y] = Father[z]
        BY <1>0, <2>3, <2>5, <3>1, <3>7, FatherStep
      <4> QED BY <2>3, <2>5, <3>5, <3>6, <3>7, <4>1
    <3>8. CASE ~ IsRef(z)
      <4>1. Father[y] = y
        BY <1>0, <2>3, <2>5, <3>1, <3>8, FatherStep
      <4> QED BY <2>3, <2>5, <3>1, <3>5, <3>6, <3>8, <4>1
    <3> QED BY <3>7, <3>8
  <2> QED BY <2>4, <2>5
<1> QED BY <1>3

(* What jbl_derefer frees are references.                                     *)
LEMMA FreedRefs ==
  ASSUME SlNow, NEW x \in Obj
  PROVE  \A q \in Freed[x] : q \in Obj /\ IsRef(q)
<1> DEFINE Fine(y) == \A q \in Freed[y] : q \in Obj /\ IsRef(q)
           Bad == {y \in Obj : ~ Fine(y)}
<1>0. Shaped(heap) /\ Ranked(heap)
  BY DEF SlNow, SlGood
<1>1. PICK r, b : Ranks(heap, r, b)
  BY <1>0 DEF Ranked
<1>2. r \in [Obj -> Nat]
  BY <1>1 DEF Ranks
<1>3. Bad = {}
  <2> SUFFICES ASSUME Bad # {} PROVE FALSE
    OBVIOUS
  <2>1. Bad \in SUBSET Obj
    OBVIOUS
  <2>2. PICK y \in Bad : \A z \in Bad : r[y] <= r[z]
    BY ONLY <1>2, <2>1, Bad # {}, LeastRank
  <2>3. y \in Obj /\ ~ Fine(y)
    BY <2>2
  <2>4. CASE ~ IsRef(y)
    <3>1. Freed[y] = {}
      BY <1>0, <2>3, <2>4, FreedStep
    <3> QED BY <2>3, <3>1
  <2>5. CASE IsRef(y)
    <3>1. PICK z : z = heap[y].ptr
      OBVIOUS
    <3>2. z \in Obj /\ r[z] < r[y]
      BY <1>0, <1>1, <2>3, <2>5, <3>1, RefLeads
    <3>3. z \notin Bad
      BY <1>2, <2>2, <2>3, <3>2
    <3>4. Fine(z)
      BY <3>2, <3>3
    <3>5. Freed[y] \subseteq {y} \cup Freed[z]
      BY <1>0, <2>3, <2>5, <3>1, FreedStep
    <3> QED BY <2>3, <2>5, <3>4, <3>5
  <2> QED BY <2>4, <2>5
<1> QED BY <1>3

(* When nobody else holds one of them these are the references up to the      *)
(* list: a chain.                                                             *)
AllOne(x) == \A q \in Freed[x] : heap[q].cnt = 1
LEMMA FreedIs ==
  ASSUME SlNow, NEW x \in Obj, IsRef(x), AllOne(x)
  PROVE  /\ x \in Freed[x] /\ Father[x] \in Freed[x]
         /\ \A q \in Freed[x] :
              /\ q \in Obj /\ IsRef(q)
              /\ q # Father[x] => heap[q].ptr \in Freed[x]
              /\ q # x => \E c \in Freed[x] : heap[c].ptr = q
<1> DEFINE Fine(y) == /\ y \in Freed[y] /\ Father[y] \in Freed[y]
                      /\ \A q \in Freed[y] :
                           /\ q \in Obj /\ IsRef(q)
                           /\ q # Father[y] => heap[q].ptr \in Freed[y]
                           /\ q # y => \E c \in Freed[y] : heap[c].ptr = q
           Bad == {y \in Obj : IsRef(y) /\ AllOne(y) /\ ~ Fine(y)}
<1>0. heap \in Heaps /\ Shaped(heap) /\ Ranked(heap)
  BY DEF SlNow, SlGood, Typed
<1>1. PICK r, b : Ranks(heap, r, b)
  BY <1>0 DEF Ranked
<1>2. r \in [Obj -> Nat]
  BY <1>1 DEF Ranks
<1>3. Bad = {}
  <2> SUFFICES ASSUME Bad # {} PROVE FALSE
    OBVIOUS
  <2>1. Bad \in SUBSET Obj
    OBVIOUS
  <2>2. PICK y \in Bad : \A z \in Bad : r[y] <= r[z]
    BY ONLY <1>2, <2>1, Bad # {}, LeastRank
  <2>3. y \in Obj /\ IsRef(y) /\ AllOne(y) /\ ~ Fine(y)
    BY <2>2
  <2>4. PICK z : z = heap[y].ptr
    OBVIOUS
  <2>5. z \in Obj /\ r[z] < r[y]
    BY <1>0, <1>1, <2>3, <2>4, RefLeads
  <2>6. Freed[y] = {y} \cup Freed[z] /\ AllOne(z)
    <3>1. Freed[y] = {y} \cup (IF heap[y].cnt = 1 THEN Freed[z] ELSE {})
      BY <1>0, <2>3, <2>4, FreedStep
    <3>2. heap[y].cnt = 1
      BY <2>3, <3>1 DEF AllOne
    <3>3. Freed[y] = {y} \cup Freed[z]
      BY <3>1, <3>2
    <3> QED BY <2>3, <3>3 DEF AllOne
  <2>7. CASE IsRef(z)
    <3>1. Father[y] = Father[z]
      BY <1>0, <2>3, <2>4, <2>7, FatherStep
    <3>2. z \notin Bad
      BY <1>2, <2>2, <2>3, <2>5
    <3>3. Fine(z)
      BY <2>5, <2>6, <2>7, <3>2
    <3>4. ASSUME NEW q \in Freed[y]
          PROVE  /\ q \in Obj /\ IsRef(q)
                 /\ q # Father[y] => heap[q].ptr \in Freed[y]
                 /\ q # y => \E c \in Freed[y] : heap[c].ptr = q
      <4>1. CASE q = y
        BY <2>3, <2>4, <2>6, <3>3, <4>1
      <4>2. CASE q # y
        <5>1. q \in Freed[z]
          BY <2>6, <4>2
        <5>2. CASE q = z
          BY <2>4, <2>6, <3>1, <3>3, <5>1, <5>2
        <5>3. CASE q # z
          BY <2>6, <3>1, <3>3, <5>1, <5>3
        <5> QED BY <5>2, <5>3
      <4> QED BY <4>1, <4>2
    <3> QED BY <2>3, <2>6, <3>1, <3>3, <3>4
  <2>8. CASE ~ IsRef(z)
    <3>1. Father[y] = y
      BY <1>0, <2>3, <2>4, <2>8, FatherStep
    <3>2. Freed[z] = {}
      BY <1>0, <2>5, <2>8, FreedStep
    <3> QED BY <2>3, <2>6, <3>1, <3>2
  <2> QED BY <2>7, <2>8
<1> QED BY <1>3

(* Ranks that are raised on a set to which nothing outside leads.             *)
LEMMA RaiseBy ==
  ASSUME NEW hp, NEW r, NEW b, Ranks(hp, r, b), NEW U \in SUBSET Obj, NEW t \in U,
         \A q, o \in Obj : Leads(hp, q, o) /\ o \in U => q \in U
  PROVE  \E s, c : Ranks(hp, s, c) /\ \A p \in Obj \ U : s[p] < s[t]
<1>2. r \in [Obj -> Nat] /\ b \in Nat /\ \A q \in Obj : r[q] <= b
  BY DEF Ranks
<1> DEFINE s == [o \in Obj |-> IF o \in U THEN r[o] + b + 1 ELSE r[o]]
<1>4. s \in [Obj -> Nat] /\ \A q \in Obj : s[q] <= b + b + 1
  BY <1>2
<1>6. ASSUME NEW q \in Obj, NEW o \in Obj, Leads(hp, q, o) PROVE s[o] < s[q]
  <2>1. r[o] < r[q]
    BY <1>6 DEF Ranks
  <2>2. o \in U => q \in U
    BY <1>6
  <2>3. r[o] \in Nat /\ r[q] \in Nat
    BY <1>2
  <2> QED BY <1>2, <2>1, <2>2, <2>3
<1>7. \A p \in Obj \ U : s[p] < s[t]
  BY <1>2
<1>8. b + b + 1 \in Nat
  BY <1>2
<1> HIDE DEF s
<1>9. Ranks(hp, s, b + b + 1)
  BY <1>4, <1>6, <1>8 DEF Ranks
<1> QED BY <1>7, <1>9

(* What leads to an object leads to all that is below it.                     *)
LEMMA BelowUp ==
  ASSUME heap \in Heaps, Shaped(heap), Ranked(heap), NEW t,
         NEW q \in Obj, NEW o \in Obj, Leads(heap, q, o), t \in Below[o]
  PROVE  t \in Below[q]
<1>1. CASE IsRef(q)
  <2>1. o = heap[q].ptr
    BY <1>1, LeadsIs
  <2>2. Below[q] = {q} \cup Below[o]
    BY <1>1, <2>1, BelowStep
  <2> QED BY <2>2
<1>2. CASE ~ IsRef(q)
  <2>1. o \in Obj \cap Range(heap[q].elems)
    BY <1>2, LeadsIs
  <2>2. Below[q] = {q} \cup UNION {Below[y] : y \in Obj \cap Range(heap[q].elems)}
    BY <1>2, BelowStep
  <2> QED BY <2>1, <2>2
<1> QED BY <1>1, <1>2

(* Ranks with everything that does not lead to t below t.                     *)
LEMMA Raise ==
  ASSUME SlNow, NEW t \in Obj
  PROVE  \E r, b : Ranks(heap, r, b) /\ \A p \in Obj : t \notin Below[p] => r[p] < r[t]
<1>0. heap \in Heaps /\ Shaped(heap) /\ Ranked(heap)
  BY DEF SlNow, SlGood, Typed
<1>1. PICK r, b : Ranks(heap, r, b)
  BY <1>0 DEF Ranked
<1>2. PICK U : U = {p \in Obj : t \in Below[p]}
  OBVIOUS
<1>3. U \in SUBSET Obj /\ t \in U
  BY <1>0, <1>2, BelowStep
<1>4. \A q, o \in Obj : Leads(heap, q, o) /\ o \in U => q \in U
  BY <1>0, <1>2, BelowUp
<1>5. \E s, c : Ranks(heap, s, c) /\ \A p \in Obj \ U : s[p] < s[t]
  BY <1>1, <1>3, <1>4, RaiseBy
<1> QED BY <1>2, <1>5
-----------------------------------------------------------------------------
(* Counting the payloads of a sequence changes counts only.                   *)
LEMMA PlusAllIs ==
  ASSUME NEW hp \in Heaps, NEW w \in Seq(Payload)
  PROVE  /\ PlusAll(hp, w) \in Heaps
         /\ \A o \in Obj : /\ PlusAll(hp, w)[o].kind = hp[o].kind
                           /\ PlusAll(hp, w)[o].ptr = hp[o].ptr
                           /\ PlusAll(hp, w)[o].elems = hp[o].elems
                           /\ PlusAll(hp, w)[o].cnt = hp[o].cnt + Count(w, o)
<1>1. \A o \in Obj : hp[o] \in Object /\ Count(w, o) \in Nat
  BY CountIs DEF Heaps
<1> HIDE DEF Count
<1>2. ASSUME NEW o \in Obj
      PROVE  /\ PlusAll(hp, w)[o] \in Object
             /\ PlusAll(hp, w)[o].kind = hp[o].kind
             /\ PlusAll(hp, w)[o].ptr = hp[o].ptr
             /\ PlusAll(hp, w)[o].elems = hp[o].elems
             /\ PlusAll(hp, w)[o].cnt = hp[o].cnt + Count(w, o)
  <2>1. PlusAll(hp, w)[o] = [hp[o] EXCEPT !.cnt = @ + Count(w, o)]
    BY DEF PlusAll
  <2> QED BY <1>1, <2>1 DEF Object
<1>3. PlusAll(hp, w) = [o \in Obj |-> PlusAll(hp, w)[o]]
  BY DEF PlusAll
<1> QED BY <1>2, <1>3 DEF Heaps

(* jbl_gc_plus counts one payload; none is counted where none is named.       *)
LEMMA PlusIs ==
  ASSUME NEW hp \in Heaps, NEW p \in Payload
  PROVE  Plus(hp, p) = PlusAll(hp, << p >>) /\ hp = PlusAll(hp, <<>>)
<1>1. \A o \in Obj : hp[o] \in Object
  BY DEF Heaps
<1>2. hp = [o \in Obj |-> hp[o]]
  BY DEF Heaps
<1>3. \A o \in Obj : Count(<< p >>, o) = Is(p, o) /\ Count(<<>>, o) = 0
  BY CountShort
<1> DEFINE A == PlusAll(hp, << p >>)
           B == PlusAll(hp, <<>>)
<1>4. \A o \in Obj : /\ A[o] = [hp[o] EXCEPT !.cnt = @ + Is(p, o)]
                     /\ B[o] = [hp[o] EXCEPT !.cnt = @ + 0]
  BY <1>3 DEF PlusAll
<1>5. A = [o \in Obj |-> A[o]] /\ B = [o \in Obj |-> B[o]]
  BY DEF PlusAll
<1> HIDE DEF A, B
<1>6. \A o \in Obj : [hp[o] EXCEPT !.cnt = @ + 0] = hp[o]
  BY <1>1 DEF Object
<1>7. B = hp
  BY <1>2, <1>4, <1>5, <1>6
<1>8. CASE p \in Obj
  <2>1. Plus(hp, p) = [hp EXCEPT ![p].cnt = @ + 1]
    BY <1>8 DEF Plus
  <2>2. \A o \in Obj : Plus(hp, p)[o] = A[o]
    <3> TAKE o \in Obj
    <3>1. CASE o = p
      BY <1>2, <1>4, <1>8, <2>1, <3>1 DEF Is
    <3>2. CASE o # p
      <4>1. A[o] = hp[o]
        BY <1>4, <1>6, <3>2 DEF Is
      <4> QED BY <1>2, <1>8, <2>1, <3>2, <4>1
    <3> QED BY <3>1, <3>2
  <2>3. Plus(hp, p) = [o \in Obj |-> Plus(hp, p)[o]]
    BY <1>2, <2>1
  <2> QED BY <1>5, <1>7, <2>2, <2>3 DEF A, B
<1>9. CASE p \notin Obj
  <2>1. Plus(hp, p) = hp
    BY <1>9 DEF Plus
  <2>2. \A o \in Obj : A[o] = hp[o]
    BY <1>4, <1>6, <1>9 DEF Is
  <2> QED BY <1>2, <1>5, <1>7, <2>1, <2>2 DEF A, B
<1> QED BY <1>8, <1>9

(* The payloads s of the list at t, w of them counted, td of them to be freed *)
(* next.                                                                      *)
EditAt(hp, w, t, s) == [PlusAll(hp, w) EXCEPT ![t].elems = s]
Settles(e, w, s, td) ==
  \A o \in Obj : Count(s, o) + Count(td, o) = Count(e, o) + Count(w, o)
Lower(hp, w, t, r) ==
  \A o \in Obj : Count(w, o) # 0 => r[o] < r[t] /\ hp[o].kind # "unused"

(* A list gets other payloads: those that come in are counted and rank below  *)
(* it, those that go out are freed next.                                      *)
LEMMA EditIs ==
  ASSUME NEW hp, NEW hd, SlGood(hp, hd, <<>>), NEW t \in Obj, hp[t].kind = "list",
         NEW w \in Seq(Payload), NEW s \in Seq(Payload), NEW td \in Seq(Payload),
         NEW hp2, hp2 = EditAt(hp, w, t, s), Settles(hp[t].elems, w, s, td),
         NEW r, NEW b, Ranks(hp, r, b), Lower(hp, w, t, r)
  PROVE  SlGood(hp2, hd, td)
<1>0. /\ hp \in Heaps /\ Shaped(hp) /\ Living(hp)
      /\ hd \in [Holder -> Obj \cup {NULL}] /\ <<>> \in Seq(Payload)
      /\ \A o \in Obj : hp[o].cnt = Owning(hp, hd, <<>>, o)
  BY DEF SlGood, Typed, Exact
<1> PICK m : m = PlusAll(hp, w)
  OBVIOUS
<1>1. /\ m \in Heaps
      /\ \A o \in Obj : /\ m[o].kind = hp[o].kind /\ m[o].ptr = hp[o].ptr
                        /\ m[o].elems = hp[o].elems /\ m[o].cnt = hp[o].cnt + Count(w, o)
  BY <1>0, PlusAllIs
<1>2. hp2 = [m EXCEPT ![t] = [m[t] EXCEPT !.elems = s]]
  BY DEF EditAt
<1>3. [m[t] EXCEPT !.elems = s] \in Object
  BY <1>1 DEF Heaps, Object
<1>4. /\ hp2 \in Heaps
      /\ \A o \in Obj : /\ hp2[o].kind = hp[o].kind /\ hp2[o].ptr = hp[o].ptr
                        /\ hp2[o].elems = (IF o = t THEN s ELSE hp[o].elems)
                        /\ hp2[o].cnt = hp[o].cnt + Count(w, o)
  <2>1. hp2 \in Heaps
    BY <1>1, <1>2, <1>3 DEF Heaps
  <2>2. ASSUME NEW o \in Obj
        PROVE  /\ hp2[o].kind = hp[o].kind /\ hp2[o].ptr = hp[o].ptr
               /\ hp2[o].elems = (IF o = t THEN s ELSE hp[o].elems)
               /\ hp2[o].cnt = hp[o].cnt + Count(w, o)
    <3>1. CASE o = t
      <4>1. hp2[o] = [m[t] EXCEPT !.elems = s]
        BY <1>1, <1>2, <3>1 DEF Heaps
      <4>2. m[t] \in Object
        BY <1>1 DEF Heaps
      <4> QED BY <1>1, <3>1, <4>1, <4>2 DEF Object
    <3>2. CASE o # t
      <4>1. hp2[o] = m[o]
        BY <1>1, <1>2, <3>2 DEF Heaps
      <4> QED BY <1>1, <3>2, <4>1
    <3> QED BY <3>1, <3>2
  <2> QED BY <2>1, <2>2
<1>5. Shaped(hp2)
  BY <1>0, <1>4 DEF Shaped
<1>6. \A o \in Obj : /\ Count(w, o) \in Nat /\ Count(s, o) \in Nat /\ Count(td, o) \in Nat
                     /\ Count(hp[t].elems, o) \in Nat /\ Count(<<>>, o) = 0
                     /\ hp[o].cnt \in Nat
  <2>1. \A o \in Obj : Count(<<>>, o) = 0
    BY EmptyIs
  <2>2. hp[t].elems \in Seq(Payload) /\ \A o \in Obj : hp[o].cnt \in Nat
    BY <1>0 DEF Heaps, Object
  <2> QED BY <2>1, <2>2, CountIs
<1>7. Exact(hp2, hd, td)
  <2> SUFFICES ASSUME NEW o \in Obj PROVE hp2[o].cnt = Owning(hp2, hd, td, o)
    BY DEF Exact
  <2>1. /\ Owning(hp, hd, <<>>, o) \in Nat /\ Owning(hp2, hd, td, o) \in Nat
        /\ Owning(hp2, hd, td, o) + Is(hp[t].ptr, o) + Count(hp[t].elems, o) + Count(<<>>, o)
           = Owning(hp, hd, <<>>, o) + Is(hp2[t].ptr, o) + Count(hp2[t].elems, o) + Count(td, o)
    <3>1. OnlyAt(hp, hp2, t)
      BY <1>4 DEF OnlyAt
    <3>2. HeapBalance(hp, hp2, hd, <<>>, td, t, o)
      BY <1>0, <1>4, <3>1, OwningHeap
    <3> QED BY <3>2 DEF HeapBalance
  <2>2. hp2[t].ptr = hp[t].ptr /\ hp2[t].elems = s
    BY <1>4
  <2>3. Is(hp[t].ptr, o) \in Nat
    BY DEF Is
  <2>4. hp2[o].cnt = hp[o].cnt + Count(w, o) /\ hp[o].cnt = Owning(hp, hd, <<>>, o)
    BY <1>0, <1>4
  <2>5. Count(s, o) + Count(td, o) = Count(hp[t].elems, o) + Count(w, o)
    BY DEF Settles
  <2> PICK a, a2, i, k, cs, ct, cw :
         /\ a = Owning(hp, hd, <<>>, o) /\ a2 = Owning(hp2, hd, td, o) /\ i = Is(hp[t].ptr, o)
         /\ k = Count(hp[t].elems, o) /\ cs = Count(s, o) /\ ct = Count(td, o)
         /\ cw = Count(w, o)
    OBVIOUS
  <2>6. /\ a \in Nat /\ a2 \in Nat /\ i \in Nat /\ k \in Nat /\ cs \in Nat /\ ct \in Nat
        /\ cw \in Nat
        /\ a2 + i + k + 0 = a + i + cs + ct /\ cs + ct = k + cw
    BY <1>6, <2>1, <2>2, <2>3, <2>5
  <2>7. a2 = a + cw
    BY ONLY <2>6
  <2> QED BY <2>4, <2>7
<1>8. Living(hp2)
  <2> SUFFICES ASSUME NEW o \in Obj PROVE hp2[o].kind # "unused" <=> hp2[o].cnt > 0
    BY DEF Living
  <2>1. hp[o].kind # "unused" <=> hp[o].cnt > 0
    BY <1>0 DEF Living
  <2>2. PICK c, k : c = Count(w, o) /\ k = hp[o].cnt
    OBVIOUS
  <2>3. c \in Nat /\ k \in Nat /\ hp2[o].cnt = k + c /\ hp2[o].kind = hp[o].kind
    BY <1>4, <1>6, <2>2
  <2>4. c # 0 => hp[o].kind # "unused"
    BY <2>2 DEF Lower
  <2> QED BY <2>1, <2>2, <2>3, <2>4
<1>9. Ranks(hp2, r, b)
  <2>1. ASSUME NEW q \in Obj, NEW o \in Obj, Leads(hp2, q, o) PROVE r[o] < r[q]
    <3>1. CASE q # t \/ hp2[q].ptr = o
      <4>1. Leads(hp, q, o)
        BY <1>4, <2>1, <3>1 DEF Leads
      <4> QED BY <4>1 DEF Ranks
    <3>2. CASE q = t /\ Count(hp2[q].elems, o) # 0
      <4>1. Count(s, o) # 0
        BY <1>4, <3>2
      <4>2. Count(hp[t].elems, o) # 0 \/ Count(w, o) # 0
        <5>1. Count(s, o) + Count(td, o) = Count(hp[t].elems, o) + Count(w, o)
          BY DEF Settles
        <5> QED BY <1>6, <4>1, <5>1
      <4>3. Count(hp[t].elems, o) # 0 => Leads(hp, t, o)
        BY DEF Leads
      <4> QED BY <3>2, <4>2, <4>3 DEF Ranks, Lower
    <3> QED BY <2>1, <3>1, <3>2 DEF Leads
  <2> QED BY <2>1 DEF Ranks
<1> QED BY <1>0, <1>4, <1>5, <1>7, <1>8, <1>9 DEF SlGood, Typed, Ranked

(* Memory that is not in use: no contents, no owner.                          *)
LEMMA UnusedIs ==
  ASSUME NEW hp, NEW hd, NEW td, SlGood(hp, hd, td), NEW t \in Obj, hp[t].kind = "unused"
  PROVE  /\ hp[t].ptr = NULL /\ hp[t].elems = <<>> /\ hp[t].cnt = 0
         /\ Owning(hp, hd, td, t) = 0 /\ \A q \in Obj : ~ Leads(hp, q, t)
         /\ \A h \in Holder : hd[h] # t
<1>1. hp[t].ptr = NULL /\ hp[t].elems = <<>>
  BY DEF SlGood, Shaped
<1>2. hp[t].cnt = 0
  BY DEF SlGood, Living, Typed, Heaps, Object
<1>3. Owning(hp, hd, td, t) = 0
  BY <1>2 DEF SlGood, Exact
<1>4. \A q \in Obj : ~ Leads(hp, q, t)
  BY OwnedLives
<1>5. \A h \in Holder : hd[h] # t
  BY OwnedLives
<1> QED BY <1>1, <1>2, <1>3, <1>4, <1>5

(* What jbl_ll_new, the copy of jbl_ll_extend and the sending of a variable   *)
(* leave.                                                                     *)
NewAt(hp, t) == [hp EXCEPT ![t] = ListOf(<<>>)]
CopyAt(hp, l, t) == [PlusAll(hp, hp[l].elems) EXCEPT ![t] = ListOf(hp[l].elems),
                                                     ![l].cnt = @ - 1]
SentTo(hd, h, t) == [hd EXCEPT ![h] = t]
Highest(hp, t) == \E s, c : Ranks(hp, s, c) /\ \A p \in Obj \ {t} : s[p] < s[t]
Owed(hp, hd, t, l) ==
  \A o \in Obj : Owning(hp, hd, <<>>, o) + Is(t, o) = hp[o].cnt + Is(l, o)
Copied(hp, hd, hp2, l, t, r, b) ==
  /\ hp2 \in Heaps /\ Shaped(hp2) /\ Living(hp2)
  /\ hp2[t] = ListOf(hp[l].elems)
  /\ \A o \in Obj : o # t => /\ hp2[o].kind = hp[o].kind /\ hp2[o].ptr = hp[o].ptr
                             /\ hp2[o].elems = hp[o].elems
  /\ Owed(hp2, hd, t, l)
  /\ \E s : Ranks(hp2, s, b) /\ s[t] = r[l] /\ \A o \in Obj : o # t => s[o] = r[o]
Handed(hp, hp2, hd, hd2, l, t) ==
  \/ /\ hp2 = hp
     /\ \E h \in Holder : /\ hd[h] = l /\ hd2[h] = t
                          /\ \A g \in Holder : g # h => hd2[g] = hd[g]
  \/ /\ hd2 = hd
     /\ \E c \in Obj :
          /\ OnlyAt(hp, hp2, c)
          /\ \A o \in Obj : Is(hp2[c].ptr, o) + Count(hp2[c].elems, o) + Is(l, o)
                           = Is(hp[c].ptr, o) + Count(hp[c].elems, o) + Is(t, o)

(* A variable without a list gets an empty one.                               *)
LEMMA MadeIs ==
  ASSUME NEW hp, NEW hd, SlGood(hp, hd, <<>>), NEW t \in Obj, hp[t].kind = "unused",
         NEW h \in Holder, hd[h] = NULL,
         NEW hp2, hp2 = NewAt(hp, t), NEW hd2, hd2 = SentTo(hd, h, t),
         NEW r, NEW b, Ranks(hp, r, b)
  PROVE  SlGood(hp2, hd2, <<>>) /\ Highest(hp2, t)
<1>0. /\ hp \in Heaps /\ Shaped(hp) /\ Living(hp)
      /\ hd \in [Holder -> Obj \cup {NULL}] /\ <<>> \in Seq(Payload)
      /\ \A o \in Obj : hp[o].cnt = Owning(hp, hd, <<>>, o)
  BY DEF SlGood, Typed, Exact
<1>1. /\ hp[t].ptr = NULL /\ hp[t].elems = <<>> /\ hp[t].cnt = 0
      /\ Owning(hp, hd, <<>>, t) = 0 /\ \A q \in Obj : ~ Leads(hp, q, t)
  BY UnusedIs
<1>2. ListOf(<<>>) \in Object
  BY <1>0 DEF ListOf, Object
<1>3. /\ hp2 \in Heaps /\ hp2[t] = ListOf(<<>>) /\ \A o \in Obj : o # t => hp2[o] = hp[o]
  BY <1>0, <1>2 DEF Heaps, NewAt
<1>4. /\ hp2[t].kind = "list" /\ hp2[t].cnt = 1 /\ hp2[t].ptr = NULL /\ hp2[t].elems = <<>>
  BY <1>3 DEF ListOf
<1>5. /\ hd2 \in [Holder -> Obj \cup {NULL}] /\ hd2[h] = t
      /\ \A g \in Holder : g # h => hd2[g] = hd[g]
  BY <1>0 DEF SentTo
<1>6. Shaped(hp2)
  BY <1>0, <1>3, <1>4 DEF Shaped
<1>7. Living(hp2)
  BY <1>0, <1>3, <1>4 DEF Living
<1>8. ASSUME NEW o \in Obj
      PROVE  /\ Owning(hp2, hd2, <<>>, o) = Owning(hp, hd, <<>>, o) + Is(t, o)
             /\ Owning(hp, hd, <<>>, o) \in Nat
  <2>1. OnlyAt(hp, hp2, t)
    BY <1>3 DEF OnlyAt
  <2>2. HeapBalance(hp, hp2, hd, <<>>, <<>>, t, o)
    BY <1>0, <1>3, <2>1, OwningHeap
  <2>3. HoldBalance(hp2, hd, hd2, <<>>, <<>>, h, o)
    BY <1>0, <1>3, <1>5, OwningHold
  <2>4. Is(NULL, o) = 0
    BY NullIs DEF Is
  <2> PICK a, a2, a3, i, k : /\ a = Owning(hp, hd, <<>>, o) /\ a2 = Owning(hp2, hd, <<>>, o)
                             /\ a3 = Owning(hp2, hd2, <<>>, o) /\ i = Is(t, o)
                             /\ k = Count(<<>>, o)
    OBVIOUS
  <2>5. /\ a \in Nat /\ a2 \in Nat /\ a3 \in Nat /\ k \in Nat /\ a2 + 0 + k + k = a + 0 + k + k
    BY <1>1, <1>4, <2>2, <2>3, <2>4 DEF HeapBalance, HoldBalance
  <2>6. a3 + 0 + k = a2 + i + k /\ i \in Nat
    <3>1. i \in Nat
      BY DEF Is
    <3>2. a3 + Is(hd[h], o) + k = a2 + Is(hd2[h], o) + k
      BY <2>3 DEF HoldBalance
    <3> QED BY <1>5, <2>4, <3>1, <3>2
  <2>7. a3 = a + i
    BY ONLY <2>5, <2>6
  <2> QED BY <2>5, <2>7
<1>9. Exact(hp2, hd2, <<>>)
  <2> SUFFICES ASSUME NEW o \in Obj PROVE hp2[o].cnt = Owning(hp2, hd2, <<>>, o)
    BY DEF Exact
  <2> PICK a, a2 : a = Owning(hp, hd, <<>>, o) /\ a2 = Owning(hp2, hd2, <<>>, o)
    OBVIOUS
  <2>0. a2 = a + Is(t, o) /\ a \in Nat
    BY <1>8
  <2>1. CASE o = t
    <3>1. Is(t, o) = 1
      BY <2>1 DEF Is
    <3>2. a = 0 /\ hp2[o].cnt = 1
      BY <1>1, <1>4, <2>1
    <3>3. hp2[o].cnt = a2
      BY ONLY <2>0, <3>1, <3>2
    <3> QED BY <3>3
  <2>2. CASE o # t
    <3>1. Is(t, o) = 0
      BY <2>2 DEF Is
    <3>2. a2 = a
      BY ONLY <2>0, <3>1
    <3> QED BY <1>0, <1>3, <2>2, <3>2
  <2> QED BY <2>1, <2>2
<1>10. PICK s : s = [r EXCEPT ![t] = b + 1]
  OBVIOUS
<1>11. /\ r \in [Obj -> Nat] /\ b \in Nat /\ \A q \in Obj : r[q] <= b
       /\ \A q, o \in Obj : Leads(hp, q, o) => r[o] < r[q]
  BY DEF Ranks
<1>12. /\ s \in [Obj -> Nat] /\ s[t] = b + 1 /\ \A o \in Obj : o # t => s[o] = r[o]
  BY <1>10, <1>11
<1>13. \A q, o \in Obj : Leads(hp2, q, o) => q # t /\ o # t /\ Leads(hp, q, o)
  <2> SUFFICES ASSUME NEW q \in Obj, NEW o \in Obj, Leads(hp2, q, o)
               PROVE  q # t /\ o # t /\ Leads(hp, q, o)
    OBVIOUS
  <2>1. q # t
    <3>1. o # NULL
      BY NullIs
    <3>2. Count(<<>>, o) = 0
      BY EmptyIs
    <3> QED BY <1>4, <3>1, <3>2 DEF Leads
  <2>2. Leads(hp, q, o)
    BY <1>3, <2>1 DEF Leads
  <2> QED BY <1>1, <2>1, <2>2
<1>14. Ranks(hp2, s, b + 1)
  <2>1. \A q \in Obj : s[q] <= b + 1
    BY ONLY <1>11, <1>12
  <2>2. \A q, o \in Obj : Leads(hp2, q, o) => s[o] < s[q]
    BY ONLY <1>11, <1>12, <1>13
  <2>3. b + 1 \in Nat
    BY <1>11
  <2> QED BY ONLY <1>12, <2>1, <2>2, <2>3 DEF Ranks
<1>15. \A p \in Obj \ {t} : s[p] < s[t]
  BY <1>11, <1>12
<1> QED BY <1>0, <1>3, <1>5, <1>6, <1>7, <1>9, <1>14, <1>15
      DEF SlGood, Typed, Ranked, Highest

(* A copy of a list, not yet anybody's: its payloads are counted once more.   *)
LEMMA CopiedIs ==
  ASSUME NEW hp, NEW hd, SlGood(hp, hd, <<>>), NEW t \in Obj, hp[t].kind = "unused",
         NEW l \in Obj, hp[l].kind = "list", hp[l].cnt > 1,
         NEW hp2, hp2 = CopyAt(hp, l, t), NEW r, NEW b, Ranks(hp, r, b)
  PROVE  Copied(hp, hd, hp2, l, t, r, b)
<1>0. /\ hp \in Heaps /\ Shaped(hp) /\ Living(hp) /\ <<>> \in Seq(Payload)
      /\ \A o \in Obj : hp[o].cnt = Owning(hp, hd, <<>>, o)
  BY DEF SlGood, Typed, Exact
<1>1. /\ hp[t].ptr = NULL /\ hp[t].elems = <<>> /\ hp[t].cnt = 0
      /\ Owning(hp, hd, <<>>, t) = 0 /\ \A q \in Obj : ~ Leads(hp, q, t)
  BY UnusedIs
<1>e. PICK e : e = hp[l].elems
  OBVIOUS
<1>m. PICK m : m = PlusAll(hp, e)
  OBVIOUS
<1>2. e \in Seq(Payload) /\ hp[l].cnt \in Nat /\ l # t
  BY <1>0, <1>e DEF Heaps, Object
<1>3. /\ m \in Heaps
      /\ \A o \in Obj : /\ m[o].kind = hp[o].kind /\ m[o].ptr = hp[o].ptr
                        /\ m[o].elems = hp[o].elems /\ m[o].cnt = hp[o].cnt + Count(e, o)
  BY <1>0, <1>2, <1>m, PlusAllIs
<1>4. \A o \in Obj : Count(e, o) \in Nat /\ (Count(e, o) # 0 => Leads(hp, l, o))
  BY <1>2, <1>e, CountIs DEF Leads
<1>11. /\ r \in [Obj -> Nat] /\ b \in Nat /\ \A q \in Obj : r[q] <= b
       /\ \A q, o \in Obj : Leads(hp, q, o) => r[o] < r[q]
  BY DEF Ranks
<1>5. Count(e, l) = 0 /\ Count(e, t) = 0
  <2>1. ~ Leads(hp, l, l)
    BY <1>11
  <2> QED BY <1>1, <1>4, <2>1
<1>6. m[l].cnt = hp[l].cnt
  BY <1>2, <1>3, <1>5
<1>7. hp2 = [[m EXCEPT ![t] = ListOf(e)] EXCEPT ![l] = [m[l] EXCEPT !.cnt = @ - 1]]
  <2>1. hp2 = [[m EXCEPT ![t] = ListOf(e)] EXCEPT ![l].cnt = @ - 1]
    BY <1>e, <1>m DEF CopyAt
  <2>2. [m EXCEPT ![t] = ListOf(e)][l] = m[l]
    BY <1>2, <1>3 DEF Heaps
  <2> QED BY <2>1, <2>2
<1>8. ListOf(e) \in Object /\ [m[l] EXCEPT !.cnt = @ - 1] \in Object
  <2>1. ListOf(e) \in Object
    BY <1>2 DEF ListOf, Object
  <2>2. m[l] \in Object /\ m[l].cnt - 1 \in Nat
    BY <1>2, <1>3, <1>6 DEF Heaps
  <2> QED BY <2>1, <2>2 DEF Object
<1>9. /\ hp2 \in Heaps /\ hp2[t] = ListOf(e) /\ hp2[l] = [m[l] EXCEPT !.cnt = @ - 1]
      /\ \A o \in Obj : o # t /\ o # l => hp2[o] = m[o]
  BY <1>2, <1>3, <1>7, <1>8 DEF Heaps
<1>10. /\ hp2[t].kind = "list" /\ hp2[t].cnt = 1 /\ hp2[t].ptr = NULL /\ hp2[t].elems = e
       /\ \A o \in Obj : o # t => /\ hp2[o].kind = hp[o].kind /\ hp2[o].ptr = hp[o].ptr
                                  /\ hp2[o].elems = hp[o].elems
       /\ hp2[l].cnt = hp[l].cnt - 1
       /\ \A o \in Obj : o # t /\ o # l => hp2[o].cnt = hp[o].cnt + Count(e, o)
  <2>1. /\ hp2[t].kind = "list" /\ hp2[t].cnt = 1 /\ hp2[t].ptr = NULL /\ hp2[t].elems = e
    BY <1>9 DEF ListOf
  <2>2. /\ hp2[l].kind = hp[l].kind /\ hp2[l].ptr = hp[l].ptr /\ hp2[l].elems = hp[l].elems
        /\ hp2[l].cnt = hp[l].cnt - 1
    <3>1. m[l] \in Object
      BY <1>3 DEF Heaps
    <3> QED BY <1>3, <1>6, <1>9, <3>1 DEF Object
  <2>3. \A o \in Obj : o # t /\ o # l
          => /\ hp2[o].kind = hp[o].kind /\ hp2[o].ptr = hp[o].ptr
             /\ hp2[o].elems = hp[o].elems /\ hp2[o].cnt = hp[o].cnt + Count(e, o)
    BY <1>3, <1>9
  <2> QED BY <2>1, <2>2, <2>3
<1>12. Shaped(hp2)
  BY <1>0, <1>10 DEF Shaped
<1>13. Living(hp2)
  <2> SUFFICES ASSUME NEW o \in Obj PROVE hp2[o].kind # "unused" <=> hp2[o].cnt > 0
    BY DEF Living
  <2>1. CASE o = t
    BY <1>10, <2>1
  <2>2. CASE o = l
    BY <1>2, <1>10, <2>2
  <2>3. CASE o # t /\ o # l
    <3>1. hp2[o].cnt = hp[o].cnt + Count(e, o) /\ hp2[o].kind = hp[o].kind
      BY <1>10, <2>3
    <3>2. Count(e, o) # 0 => hp[o].kind # "unused"
      BY <1>4, OwnedLives
    <3>3. hp[o].cnt \in Nat /\ (hp[o].kind # "unused" <=> hp[o].cnt > 0)
      BY <1>0 DEF Living, Heaps, Object
    <3> PICK c, k : c = Count(e, o) /\ k = hp[o].cnt
      OBVIOUS
    <3> QED BY <1>4, <3>1, <3>2, <3>3
  <2> QED BY <2>1, <2>2, <2>3
<1>14. ASSUME NEW o \in Obj
       PROVE  /\ Owning(hp2, hd, <<>>, o) = Owning(hp, hd, <<>>, o) + Count(e, o)
              /\ Owning(hp, hd, <<>>, o) \in Nat
  <2>1. OnlyAt(hp, hp2, t)
    BY <1>10 DEF OnlyAt
  <2>2. HeapBalance(hp, hp2, hd, <<>>, <<>>, t, o)
    BY <1>0, <1>9, <2>1, OwningHeap
  <2>3. Is(NULL, o) = 0 /\ Count(<<>>, o) = 0
    BY EmptyIs
  <2> PICK a, a2, k : /\ a = Owning(hp, hd, <<>>, o) /\ a2 = Owning(hp2, hd, <<>>, o)
                      /\ k = Count(e, o)
    OBVIOUS
  <2>4. a \in Nat /\ a2 \in Nat /\ k \in Nat /\ a2 + 0 + 0 + 0 = a + 0 + k + 0
    BY <1>1, <1>4, <1>10, <2>2, <2>3 DEF HeapBalance
  <2>5. a2 = a + k
    BY ONLY <2>4
  <2> QED BY <2>4, <2>5
<1>15. ASSUME NEW o \in Obj
       PROVE  Owning(hp2, hd, <<>>, o) + Is(t, o) = hp2[o].cnt + Is(l, o)
  <2>p. PICK a2 : a2 = Owning(hp2, hd, <<>>, o)
    OBVIOUS
  <2>0. a2 = Owning(hp, hd, <<>>, o) + Count(e, o) /\ Owning(hp, hd, <<>>, o) \in Nat
    BY <1>14, <2>p
  <2>1. CASE o = t
    <3>1. Is(t, o) = 1 /\ Is(l, o) = 0
      BY <1>2, <2>1 DEF Is
    <3>2. a2 = 0
      BY ONLY <1>1, <1>5, <2>0, <2>1
    <3>3. hp2[o].cnt = 1
      BY <1>10, <2>1
    <3> QED BY ONLY <2>p, <3>1, <3>2, <3>3
  <2>2. CASE o = l
    <3>1. Is(t, o) = 0 /\ Is(l, o) = 1
      BY <1>2, <2>2 DEF Is
    <3>2. a2 = hp[l].cnt
      BY ONLY <1>0, <1>2, <1>5, <2>0, <2>2
    <3>3. hp2[o].cnt = hp[l].cnt - 1
      BY <1>10, <2>2
    <3> QED BY ONLY <1>2, <2>p, <3>1, <3>2, <3>3
  <2>3. CASE o # t /\ o # l
    <3>1. Is(t, o) = 0 /\ Is(l, o) = 0
      BY <2>3 DEF Is
    <3>2. a2 = hp2[o].cnt
      BY <1>0, <1>10, <2>0, <2>3
    <3> QED BY ONLY <1>9, <2>p, <3>1, <3>2 DEF Heaps, Object
  <2> QED BY <2>1, <2>2, <2>3
<1>16. PICK s : s = [r EXCEPT ![t] = r[l]]
  OBVIOUS
<1>17. /\ s \in [Obj -> Nat] /\ s[t] = r[l] /\ \A o \in Obj : o # t => s[o] = r[o]
  BY <1>11, <1>16
<1>18. Ranks(hp2, s, b)
  <2>1. ASSUME NEW q \in Obj, NEW o \in Obj, Leads(hp2, q, o) PROVE s[o] < s[q]
    <3>1. CASE q = t
      <4>1. o # NULL
        BY NullIs
      <4>2. Count(e, o) # 0
        BY <1>10, <2>1, <3>1, <4>1 DEF Leads
      <4>3. Leads(hp, l, o)
        BY <1>4, <4>2
      <4>4. o # t
        BY <1>1, <4>3
      <4> QED BY <1>11, <1>17, <3>1, <4>3, <4>4
    <3>2. CASE q # t
      <4>1. Leads(hp, q, o)
        BY <1>10, <2>1, <3>2 DEF Leads
      <4>2. o # t
        BY <1>1, <4>1
      <4> QED BY <1>11, <1>17, <3>2, <4>1, <4>2
    <3> QED BY <3>1, <3>2
  <2>2. \A q \in Obj : s[q] <= b
    BY <1>11, <1>17
  <2> QED BY <1>11, <1>17, <2>1, <2>2 DEF Ranks
<1> QED BY <1>9, <1>10, <1>12, <1>13, <1>15, <1>17, <1>18, <1>e DEF Copied, Owed

(* The copy is handed to the variable that held the list, or to the last      *)
(* reference on the way to it: every count is exact again.                    *)
LEMMA SentIs ==
  ASSUME NEW hp \in Heaps, NEW hp2 \in Heaps, NEW hd, NEW hd2, Shaped(hp), Shaped(hp2),
         NEW t \in Obj, NEW l \in Obj,
         Owed(hp, hd, t, l), \A o \in Obj : hp2[o].cnt = hp[o].cnt,
         Handed(hp, hp2, hd, hd2, l, t)
  PROVE  Exact(hp2, hd2, <<>>)
<1> SUFFICES ASSUME NEW o \in Obj PROVE hp2[o].cnt = Owning(hp2, hd2, <<>>, o)
  BY DEF Exact
<1>1. Count(<<>>, o) = 0 /\ <<>> \in Seq(Payload)
  BY EmptyIs
<1>2. Is(t, o) \in Nat /\ Is(l, o) \in Nat /\ hp[o].cnt \in Nat
  BY DEF Is, Heaps, Object
<1>3. Owning(hp, hd, <<>>, o) \in Nat /\ Owning(hp2, hd2, <<>>, o) \in Nat
  BY <1>1, OwningIs
<1>4. Owning(hp2, hd2, <<>>, o) + Is(l, o) = Owning(hp, hd, <<>>, o) + Is(t, o)
  <2>1. CASE /\ hp2 = hp
             /\ \E h \in Holder : /\ hd[h] = l /\ hd2[h] = t
                                  /\ \A g \in Holder : g # h => hd2[g] = hd[g]
    <3>1. PICK h \in Holder : /\ hd[h] = l /\ hd2[h] = t
                              /\ \A g \in Holder : g # h => hd2[g] = hd[g]
      BY <2>1
    <3>2. HoldBalance(hp, hd, hd2, <<>>, <<>>, h, o)
      BY <1>1, <3>1, OwningHold
    <3>3. Owning(hp, hd2, <<>>, o) + Is(l, o) + 0 = Owning(hp, hd, <<>>, o) + Is(t, o) + 0
      BY <1>1, <3>1, <3>2 DEF HoldBalance
    <3> PICK a, a2, i, j : /\ a = Owning(hp, hd, <<>>, o) /\ a2 = Owning(hp2, hd2, <<>>, o)
                           /\ i = Is(t, o) /\ j = Is(l, o)
      OBVIOUS
    <3>4. a2 + j + 0 = a + i + 0 /\ a \in Nat /\ a2 \in Nat /\ i \in Nat /\ j \in Nat
      BY <1>2, <1>3, <2>1, <3>3
    <3>5. a2 + j = a + i
      BY ONLY <3>4
    <3> QED BY <3>5
  <2>2. CASE /\ hd2 = hd
             /\ \E c \in Obj :
                  /\ OnlyAt(hp, hp2, c)
                  /\ \A q \in Obj : Is(hp2[c].ptr, q) + Count(hp2[c].elems, q) + Is(l, q)
                                   = Is(hp[c].ptr, q) + Count(hp[c].elems, q) + Is(t, q)
    <3>1. PICK c \in Obj :
             /\ OnlyAt(hp, hp2, c)
             /\ \A q \in Obj : Is(hp2[c].ptr, q) + Count(hp2[c].elems, q) + Is(l, q)
                              = Is(hp[c].ptr, q) + Count(hp[c].elems, q) + Is(t, q)
      BY <2>2
    <3>2. HeapBalance(hp, hp2, hd, <<>>, <<>>, c, o)
      BY <1>1, <3>1, OwningHeap
    <3> PICK a, a2, i, j, k, m, u, v : /\ a = Owning(hp, hd, <<>>, o)
                                       /\ a2 = Owning(hp2, hd2, <<>>, o)
                                       /\ i = Is(t, o) /\ j = Is(l, o)
                                       /\ k = Count(hp[c].elems, o) /\ m = Is(hp[c].ptr, o)
                                       /\ u = Count(hp2[c].elems, o) /\ v = Is(hp2[c].ptr, o)
      OBVIOUS
    <3>3. /\ a2 + m + k + 0 = a + v + u + 0 /\ v + u + j = m + k + i
          /\ a \in Nat /\ a2 \in Nat /\ i \in Nat /\ j \in Nat /\ k \in Nat
          /\ m \in Nat /\ u \in Nat /\ v \in Nat
      <4>1. m \in Nat /\ v \in Nat
        BY DEF Is
      <4>2. v + u + j = m + k + i
        BY <3>1
      <4> QED BY <1>1, <1>2, <2>2, <3>2, <4>1, <4>2 DEF HeapBalance
    <3>5. a2 + j = a + i
      BY ONLY <3>3
    <3> QED BY <3>5
  <2> QED BY <2>1, <2>2 DEF Handed
<1> PICK a, a2, i, j, k : /\ a = Owning(hp, hd, <<>>, o) /\ a2 = Owning(hp2, hd2, <<>>, o)
                          /\ i = Is(t, o) /\ j = Is(l, o) /\ k = hp[o].cnt
  OBVIOUS
<1>5. /\ a + i = k + j /\ a2 + j = a + i /\ a \in Nat /\ a2 \in Nat /\ i \in Nat
      /\ j \in Nat /\ k \in Nat /\ hp2[o].cnt = k
  BY <1>2, <1>3, <1>4 DEF Owed
<1>6. k = a2
  BY ONLY <1>5
<1> QED BY <1>5, <1>6

(* What jbl_ll_extend leaves: the counts are exact, the list to change is the *)
(* variable's own and reads as before, and what closes no ring may be put     *)
(* into it: ranks exist that allow it.                                        *)
Extended(x, h) ==
  /\ SlGood(x.heap, x.hold, <<>>)
  /\ x.thi \in Obj /\ x.heap[x.thi].kind = "list" /\ x.heap[x.thi].elems = Elems(h)
  /\ \A p \in Obj : heap[p].kind # "unused" => x.heap[p].kind # "unused"
Ready(x, h, s) ==
  \A p \in Obj : heap[p].kind # "unused" /\ ~ Closes(h, p) => s[p] < s[x.thi]

(* jbl_ll_extend.                                                             *)
LEMMA ReadyIs ==
  ASSUME SlNow, todo = <<>>, Room(1), NEW h \in Holder, NEW x, x = Extend(heap, hold, h)
  PROVE  Extended(x, h) /\ \E s, c : Ranks(x.heap, s, c) /\ Ready(x, h, s)
<1>g. SlGood(heap, hold, <<>>)
  BY DEF SlNow
<1>0. /\ heap \in Heaps /\ Shaped(heap) /\ Living(heap) /\ Ranked(heap)
      /\ hold \in [Holder -> Obj \cup {NULL}] /\ <<>> \in Seq(Payload)
  BY <1>g DEF SlGood, Typed
<1>r. PICK r, b : Ranks(heap, r, b)
  BY <1>0 DEF Ranked
<1>t. PICK t : t = Fresh(heap)
  OBVIOUS
<1>1. t \in Obj /\ heap[t].kind = "unused"
  BY <1>0, <1>t, FreshIs DEF Room
<1>u. /\ heap[t].elems = <<>> /\ \A q \in Obj : ~ Leads(heap, q, t)
  BY <1>g, <1>1, UnusedIs
<1>2. CASE hold[h] = NULL
  <2>1. x = [heap |-> [heap EXCEPT ![t] = ListOf(<<>>)],
             hold |-> [hold EXCEPT ![h] = t], thi |-> t]
    BY <1>2, <1>t DEF Extend
  <2>p. PICK hp2, hd2 : hp2 = NewAt(heap, t) /\ hd2 = SentTo(hold, h, t)
    OBVIOUS
  <2>2. x.heap = hp2 /\ x.hold = hd2 /\ x.thi = t
    BY <2>1, <2>p DEF NewAt, SentTo
  <2>3. SlGood(hp2, hd2, <<>>) /\ Highest(hp2, t)
    BY <1>g, <1>1, <1>2, <1>r, <2>p, MadeIs
  <2>4. hp2[t] = ListOf(<<>>) /\ \A o \in Obj : o # t => hp2[o] = heap[o]
    BY <1>0, <1>1, <2>p DEF Heaps, NewAt
  <2>5. Elems(h) = <<>>
    BY <1>2 DEF Elems
  <2>6. hp2[t].kind = "list" /\ hp2[t].elems = <<>>
    BY <2>4 DEF ListOf
  <2>7. Extended(x, h)
    BY <1>1, <2>2, <2>3, <2>4, <2>5, <2>6 DEF Extended
  <2>8. \E s, c : Ranks(x.heap, s, c) /\ Ready(x, h, s)
    BY <1>1, <2>2, <2>3 DEF Ready, Highest
  <2> QED BY <2>7, <2>8
<1>3. CASE hold[h] # NULL
  <2>p. PICK y, l : y = hold[h] /\ l = Pull[y]
    OBVIOUS
  <2>1. y \in Obj /\ heap[y].kind # "unused"
    <3>1. y \in Obj
      BY <1>0, <1>3, <2>p
    <3> QED BY <1>g, <2>p, <3>1, OwnedLives
  <2>2. /\ l \in Obj /\ heap[l].kind = "list"
        /\ ~ IsRef(y) => l = y /\ Father[y] = NULL
        /\ IsRef(y) => Father[y] \in Obj /\ IsRef(Father[y]) /\ heap[Father[y]].ptr = l
    BY <2>1, <2>p, PullIs
  <2>3. Elems(h) = heap[l].elems
    BY <1>3, <2>p DEF Elems
  <2>4. CASE heap[l].cnt <= 1
    <3>1. x = [heap |-> heap, hold |-> hold, thi |-> l]
      BY <1>3, <2>4, <2>p DEF Extend
    <3>2. x.heap = heap /\ x.hold = hold /\ x.thi = l
      BY <3>1
    <3>3. PICK s, c : Ranks(heap, s, c) /\ \A p \in Obj : l \notin Below[p] => s[p] < s[l]
      BY <2>2, Raise
    <3>4. \A p \in Obj : ~ Closes(h, p) => l \notin Below[p]
      BY <1>3, <2>4, <2>p DEF Closes
    <3>5. Ready(x, h, s)
      BY <3>2, <3>3, <3>4 DEF Ready
    <3>6. Extended(x, h)
      BY <1>g, <2>2, <2>3, <3>2 DEF Extended
    <3> QED BY <3>2, <3>3, <3>5, <3>6
  <2>5. CASE ~ (heap[l].cnt <= 1)
    <3>p. PICK m : m = CopyAt(heap, l, t)
      OBVIOUS
    <3>1. heap[l].cnt > 1
      BY <1>0, <2>2, <2>5 DEF Heaps, Object
    <3>2. /\ m \in Heaps /\ Shaped(m) /\ Living(m)
          /\ m[t] = ListOf(heap[l].elems)
          /\ \A o \in Obj : o # t => /\ m[o].kind = heap[o].kind /\ m[o].ptr = heap[o].ptr
                                     /\ m[o].elems = heap[o].elems
          /\ Owed(m, hold, t, l)
          /\ \E s : Ranks(m, s, b) /\ s[t] = r[l] /\ \A o \in Obj : o # t => s[o] = r[o]
      <4>1. Copied(heap, hold, m, l, t, r, b)
        BY <1>g, <1>1, <1>r, <2>2, <3>1, <3>p, CopiedIs
      <4> QED BY <4>1 DEF Copied
    <3>3. m[t].kind = "list" /\ m[t].ptr = NULL /\ m[t].elems = heap[l].elems
      BY <3>2 DEF ListOf
    <3>4. PICK s : Ranks(m, s, b) /\ s[t] = r[l] /\ \A o \in Obj : o # t => s[o] = r[o]
      BY <3>2
    <3>5. y # t /\ l # t
      BY <1>1, <2>1, <2>2
    <3>8. \A q \in Obj : ~ Leads(m, q, t)
      <4> TAKE q \in Obj
      <4>1. CASE q = t
        <5>1. ~ Leads(heap, l, t)
          BY <1>u, <2>2
        <5> QED BY <1>1, <3>3, <4>1, <5>1, NullIs DEF Leads
      <4>2. CASE q # t
        <5>1. ~ Leads(heap, q, t)
          BY <1>u
        <5> QED BY <3>2, <4>2, <5>1 DEF Leads
      <4> QED BY <4>1, <4>2
    <3>6. CASE ~ IsRef(y)
      <4>1. x = [heap |-> m, hold |-> [hold EXCEPT ![h] = t], thi |-> t]
        BY <1>3, <1>t, <2>2, <2>5, <2>p, <3>6, <3>p DEF Extend, CopyAt
      <4>2. PICK hd2 : hd2 = [hold EXCEPT ![h] = t]
        OBVIOUS
      <4>3. x.heap = m /\ x.hold = hd2 /\ x.thi = t
        BY <4>1, <4>2
      <4>4. /\ hd2 \in [Holder -> Obj \cup {NULL}] /\ hd2[h] = t
            /\ \A g \in Holder : g # h => hd2[g] = hold[g]
        BY <1>0, <1>1, <4>2
      <4>5. Exact(m, hd2, <<>>)
        <5>1. hold[h] = l
          BY <2>2, <2>p, <3>6
        <5>2. Handed(m, m, hold, hd2, l, t)
          BY <4>4, <5>1 DEF Handed
        <5> QED BY <1>1, <2>2, <3>2, <5>2, SentIs
      <4>6. SlGood(m, hd2, <<>>)
        BY <1>0, <3>2, <3>4, <4>4, <4>5 DEF SlGood, Typed, Ranked
      <4>7. Extended(x, h)
        BY <1>1, <2>3, <3>2, <3>3, <4>3, <4>6 DEF Extended
      <4>8. \E s2, c : Ranks(x.heap, s2, c) /\ Ready(x, h, s2)
        <5>1. PICK U : U = {t}
          OBVIOUS
        <5>2. U \in SUBSET Obj /\ t \in U
          BY <1>1, <5>1
        <5>3. \A q, o \in Obj : Leads(m, q, o) /\ o \in U => q \in U
          BY <3>8, <5>1
        <5>4. PICK s2, c : Ranks(m, s2, c) /\ \A p \in Obj \ U : s2[p] < s2[t]
          BY <3>4, <5>2, <5>3, RaiseBy
        <5>5. Ready(x, h, s2)
          BY <1>1, <4>3, <5>1, <5>4 DEF Ready
        <5> QED BY <4>3, <5>4, <5>5
      <4> QED BY <4>7, <4>8
    <3>7. CASE IsRef(y)
      <4>p. PICK f : f = Father[y]
        OBVIOUS
      <4>1. f \in Obj /\ f # NULL /\ IsRef(f) /\ heap[f].ptr = l /\ f # t
        BY <1>1, <2>2, <3>7, <4>p, NullIs DEF IsRef
      <4>2. x = [heap |-> [m EXCEPT ![f].ptr = t], hold |-> hold, thi |-> t]
        BY <1>3, <1>t, <2>5, <2>p, <3>p, <4>1, <4>p DEF Extend, CopyAt
      <4>3. PICK hp2 : hp2 = [m EXCEPT ![f].ptr = t]
        OBVIOUS
      <4>4. x.heap = hp2 /\ x.hold = hold /\ x.thi = t
        BY <4>2, <4>3
      <4>5. /\ hp2 \in Heaps
            /\ hp2[f].ptr = t /\ hp2[f].kind = m[f].kind /\ hp2[f].elems = m[f].elems
            /\ hp2[f].cnt = m[f].cnt
            /\ \A o \in Obj : o # f => hp2[o] = m[o]
        <5>1. hp2 = [m EXCEPT ![f] = [m[f] EXCEPT !.ptr = t]]
          BY <4>3
        <5>2. m[f] \in Object
          BY <3>2, <4>1 DEF Heaps
        <5>3. [m[f] EXCEPT !.ptr = t] \in Object
          BY <1>1, <5>2 DEF Object
        <5>4. hp2 \in Heaps /\ hp2[f] = [m[f] EXCEPT !.ptr = t]
              /\ \A o \in Obj : o # f => hp2[o] = m[o]
          BY <3>2, <4>1, <5>1, <5>3 DEF Heaps
        <5> QED BY <5>2, <5>4 DEF Object
      <4>6. m[f].kind = "ref" /\ m[f].ptr = l /\ m[f].elems = <<>>
        <5>1. m[f].kind = "ref" /\ m[f].ptr = l
          BY <3>2, <4>1 DEF IsRef
        <5> QED BY <3>2, <4>1, <5>1 DEF Shaped
      <4>7. Shaped(hp2)
        <5> SUFFICES ASSUME NEW o \in Obj
                     PROVE  /\ hp2[o].kind = "ref" => hp2[o].ptr \in Obj /\ hp2[o].elems = <<>>
                            /\ hp2[o].kind # "ref" => hp2[o].ptr = NULL
                            /\ hp2[o].kind = "unused" => hp2[o].elems = <<>>
          BY DEF Shaped
        <5>1. CASE o = f
          BY <1>1, <4>5, <4>6, <5>1
        <5>2. CASE o # f
          <6>1. hp2[o] = m[o]
            BY <4>5, <5>2
          <6> QED BY <3>2, <6>1 DEF Shaped
        <5> QED BY <5>1, <5>2
      <4>8. Living(hp2)
        <5>1. \A o \in Obj : hp2[o].kind = m[o].kind /\ hp2[o].cnt = m[o].cnt
          BY <4>5
        <5> QED BY <3>2, <5>1 DEF Living
      <4>9. Exact(hp2, hold, <<>>)
        <5>1. OnlyAt(m, hp2, f) /\ \A o \in Obj : hp2[o].cnt = m[o].cnt
          BY <4>5 DEF OnlyAt
        <5>2. ASSUME NEW o \in Obj
              PROVE  Is(hp2[f].ptr, o) + Count(hp2[f].elems, o) + Is(l, o)
                     = Is(m[f].ptr, o) + Count(m[f].elems, o) + Is(t, o)
          <6>1. /\ Count(m[f].elems, o) = 0 /\ Count(hp2[f].elems, o) = 0
                /\ hp2[f].ptr = t /\ m[f].ptr = l
            BY <4>5, <4>6, EmptyIs
          <6> PICK i, j : i = Is(t, o) /\ j = Is(l, o)
            OBVIOUS
          <6>2. i \in Nat /\ j \in Nat
            BY DEF Is
          <6>3. i + 0 + j = j + 0 + i
            BY ONLY <6>2
          <6> QED BY <6>1, <6>3
        <5>3. Handed(m, hp2, hold, hold, l, t)
          BY <4>1, <5>1, <5>2 DEF Handed
        <5> QED BY <1>1, <2>2, <3>2, <4>5, <4>7, <5>1, <5>3, SentIs
      <4>10. Ranks(hp2, s, b)
        <5>1. s[t] < s[f]
          <6>1. Leads(heap, f, l)
            BY <4>1 DEF Leads
          <6> QED BY <1>r, <2>2, <3>4, <4>1, <6>1 DEF Ranks
        <5>2. ASSUME NEW q \in Obj, NEW o \in Obj, Leads(hp2, q, o) PROVE s[o] < s[q]
          <6>1. CASE q = f
            <7>1. Count(hp2[q].elems, o) = 0
              BY <4>5, <4>6, <6>1, EmptyIs
            <7> QED BY <4>5, <5>1, <5>2, <6>1, <7>1 DEF Leads
          <6>2. CASE q # f
            <7>1. Leads(m, q, o)
              BY <4>5, <5>2, <6>2 DEF Leads
            <7> QED BY <3>4, <7>1 DEF Ranks
          <6> QED BY <6>1, <6>2
        <5> QED BY <3>4, <5>2 DEF Ranks
      <4>11. SlGood(hp2, hold, <<>>)
        BY <1>0, <4>5, <4>7, <4>8, <4>9, <4>10 DEF SlGood, Typed, Ranked
      <4>12. hp2[t] = m[t] /\ \A o \in Obj : hp2[o].kind = m[o].kind
        BY <1>1, <4>1, <4>5
      <4>13. Extended(x, h)
        BY <1>1, <2>3, <3>2, <3>3, <4>4, <4>11, <4>12 DEF Extended
      <4>14. \E s2, c : Ranks(x.heap, s2, c) /\ Ready(x, h, s2)
        <5>1. PICK U : U = {t} \cup {p \in Obj : f \in Below[p]}
          OBVIOUS
        <5>2. U \in SUBSET Obj /\ t \in U /\ f \in U
          BY <1>0, <1>1, <4>1, <5>1, BelowStep
        <5>3. ASSUME NEW q \in Obj, NEW o \in Obj, Leads(hp2, q, o), o \in U
              PROVE  q \in U
          <6>1. CASE q = f \/ q = t
            BY <5>2, <6>1
          <6>2. CASE q # f /\ q # t
            <7>1. Leads(m, q, o)
              BY <4>5, <5>3, <6>2 DEF Leads
            <7>2. o # t
              BY <3>8, <7>1
            <7>3. Leads(heap, q, o)
              BY <3>2, <6>2, <7>1 DEF Leads
            <7>4. f \in Below[o]
              BY <5>1, <5>3, <7>2
            <7>5. f \in Below[q]
              BY <1>0, <7>3, <7>4, BelowUp
            <7> QED BY <5>1, <7>5
          <6> QED BY <6>1, <6>2
        <5>4. PICK s2, c : Ranks(hp2, s2, c) /\ \A p \in Obj \ U : s2[p] < s2[t]
          <6> HIDE DEF Leads
          <6> QED BY <4>10, <5>2, <5>3, RaiseBy
        <5>5. \A p \in Obj : ~ Closes(h, p) => f \notin Below[p]
          BY <1>3, <2>5, <2>p, <4>p DEF Closes
        <5>6. Ready(x, h, s2)
          BY <1>1, <4>4, <5>1, <5>4, <5>5 DEF Ready
        <5> QED BY <4>4, <5>4, <5>6
      <4> QED BY <4>13, <4>14
    <3> QED BY <3>6, <3>7
  <2> QED BY <2>4, <2>5
<1> QED BY <1>2, <1>3
-----------------------------------------------------------------------------
(* A call that extends h's list, then replaces its payloads by u: w of them   *)
(* come in, td go out.                                                        *)
Comes(h, w) ==
  \A o \in Obj : Count(w, o) # 0 => heap[o].kind # "unused" /\ ~ Closes(h, o)

(* Such a change keeps the invariant when payloads are counted as they come   *)
(* and go (the nodes written by jbl_ll_insert, jbl_ll_delete, jbl_ll_merge).  *)
LEMMA ChangeIs ==
  ASSUME SlNow, todo = <<>>, Room(1), NEW h \in Holder, NEW x, x = Extend(heap, hold, h),
         NEW w \in Seq(Payload), NEW u \in Seq(Payload), NEW td \in Seq(Payload),
         Settles(Elems(h), w, u, td), Comes(h, w),
         heap' = EditAt(x.heap, w, x.thi, u), hold' = x.hold, todo' = td
  PROVE  SlNow'
<1>1. Extended(x, h)
  BY ReadyIs
<1>2. PICK s, c : Ranks(x.heap, s, c) /\ Ready(x, h, s)
  BY ReadyIs
<1>3. PICK hp, hd, t, e : hp = x.heap /\ hd = x.hold /\ t = x.thi /\ e = Elems(h)
  OBVIOUS
<1>4. /\ SlGood(hp, hd, <<>>) /\ t \in Obj /\ hp[t].kind = "list" /\ hp[t].elems = e
      /\ \A o \in Obj : heap[o].kind # "unused" => hp[o].kind # "unused"
  BY <1>1, <1>3 DEF Extended
<1>5. Settles(hp[t].elems, w, u, td)
  BY <1>3, <1>4
<1>6. Lower(hp, w, t, s)
  BY <1>2, <1>3, <1>4 DEF Ready, Lower, Comes
<1>7. PICK hp2 : hp2 = EditAt(hp, w, t, u)
  OBVIOUS
<1>8. SlGood(hp2, hd, td)
  BY <1>2, <1>3, <1>4, <1>5, <1>6, <1>7, EditIs
<1> QED BY <1>3, <1>7, <1>8 DEF SlNow

(* The list that jbl_ll_extend leaves.                                        *)
LEMMA ElemsIs ==
  ASSUME SlNow, todo = <<>>, Room(1), NEW h \in Holder, NEW x, x = Extend(heap, hold, h)
  PROVE  /\ x.heap \in Heaps /\ x.thi \in Obj /\ x.heap[x.thi].elems = Elems(h)
         /\ Elems(h) \in Seq(Payload)
<1>1. Extended(x, h)
  BY ReadyIs
<1>2. x.heap \in Heaps /\ x.thi \in Obj /\ x.heap[x.thi].elems = Elems(h)
  BY <1>1 DEF Extended, SlGood, Typed
<1> QED BY <1>2 DEF Heaps, Object

(* What the calls write: the list that jbl_ll_extend answers gets the         *)
(* payloads u, of which w come in, and td is freed next.                      *)
Writes(h, w, u, td) ==
  LET x == Extend(heap, hold, h)
  IN  heap' = EditAt(x.heap, w, x.thi, u) /\ hold' = x.hold /\ todo' = td

(* jbl_ll_insert: one payload more.                                           *)
LEMMA InsertWrites ==
  ASSUME SlNow, todo = <<>>, Room(1), NEW h \in Holder, NEW k \in Nat, NEW p \in Payload,
         InsertPayload(h, p, k), NEW w, w = << p >>, NEW u, u = InsertAt(Elems(h), k + 1, p)
  PROVE  Writes(h, w, u, <<>>)
<1>p. PICK x, e : x = Extend(heap, hold, h) /\ e = Elems(h)
  OBVIOUS
<1>1. x.heap \in Heaps /\ x.thi \in Obj /\ x.heap[x.thi].elems = e /\ w \in Seq(Payload)
  BY <1>p, ElemsIs
<1>2. heap' = EditAt(x.heap, w, x.thi, u) /\ hold' = x.hold /\ todo' = <<>>
  <2> PICK hp, t : hp = x.heap /\ t = x.thi
    OBVIOUS
  <2>1. /\ heap' = [Plus(hp, p) EXCEPT ![t].elems = InsertAt(@, k + 1, p)]
        /\ hold' = x.hold /\ todo' = todo
    BY <1>p DEF InsertPayload
  <2>2. Plus(hp, p) = PlusAll(hp, w)
    BY <1>1, <1>p, PlusIs
  <2>3. PlusAll(hp, w)[t].elems = e
    BY <1>1, PlusAllIs
  <2>4. heap' = [PlusAll(hp, w) EXCEPT ![t].elems = InsertAt(PlusAll(hp, w)[t].elems, k + 1, p)]
    BY <2>1, <2>2
  <2> QED BY <1>p, <2>1, <2>3, <2>4 DEF EditAt
<1> QED BY <1>2, <1>p DEF Writes

(* jbl_ll_delete: one less, freed next.                                       *)
LEMMA DeleteWrites ==
  ASSUME SlNow, todo = <<>>, NEW h \in Holder, NEW k \in Nat, Delete(h, k),
         NEW td, td = << Elems(h)[k] >>, NEW u, u = RemoveAt(Elems(h), k)
  PROVE  Writes(h, <<>>, u, td)
<1>p. PICK x, e : x = Extend(heap, hold, h) /\ e = Elems(h)
  OBVIOUS
<1>0. Room(1) /\ k \in DOMAIN e
  BY <1>p DEF Delete
<1>1. /\ x.heap \in Heaps /\ x.thi \in Obj /\ x.heap[x.thi].elems = e /\ e \in Seq(Payload)
      /\ e[k] \in Payload
  BY <1>0, <1>p, ElemsIs
<1>2. heap' = EditAt(x.heap, <<>>, x.thi, u) /\ hold' = x.hold /\ todo' = td
  <2> PICK hp, t : hp = x.heap /\ t = x.thi
    OBVIOUS
  <2>1. heap' = [hp EXCEPT ![t].elems = RemoveAt(@, k)] /\ hold' = x.hold /\ todo' = td
    BY <1>p DEF Delete
  <2>2. hp = PlusAll(hp, <<>>)
    BY <1>1, PlusIs
  <2>3. heap' = [PlusAll(hp, <<>>) EXCEPT ![t].elems = u]
    BY <1>1, <1>p, <2>1, <2>2
  <2> QED BY <2>1, <2>3 DEF EditAt
<1> QED BY <1>2, <1>p DEF Writes

(* jbl_ll_swap_node: two exchanged.                                           *)
LEMMA SwapWrites ==
  ASSUME SlNow, todo = <<>>, NEW h \in Holder, NEW j \in Nat, NEW k \in Nat, Swap(h, j, k),
         NEW v, v = [Elems(h) EXCEPT ![j] = Elems(h)[k]],
         NEW u, u = [v EXCEPT ![k] = Elems(h)[j]]
  PROVE  Writes(h, <<>>, u, <<>>)
<1>p. PICK x, e : x = Extend(heap, hold, h) /\ e = Elems(h)
  OBVIOUS
<1>0. Room(1) /\ j \in DOMAIN e
  BY <1>p DEF Swap
<1>1. /\ x.heap \in Heaps /\ x.thi \in Obj /\ x.heap[x.thi].elems = e /\ e \in Seq(Payload)
      /\ e[j] \in Payload
  BY <1>0, <1>p, ElemsIs
<1>2. heap' = EditAt(x.heap, <<>>, x.thi, u) /\ hold' = x.hold /\ todo' = <<>>
  <2> PICK hp, t : hp = x.heap /\ t = x.thi
    OBVIOUS
  <2>1. /\ heap' = [hp EXCEPT ![t].elems[j] = e[k], ![t].elems[k] = e[j]]
        /\ hold' = x.hold /\ todo' = todo
    BY <1>p DEF Swap
  <2>2. heap' = [hp EXCEPT ![t].elems = u]
    <3>1. hp[t] \in Object /\ hp[t].elems = e
      BY <1>1 DEF Heaps
    <3>2. PICK q : q = [hp EXCEPT ![t].elems[j] = e[k]]
      OBVIOUS
    <3>3. q = [hp EXCEPT ![t] = [hp[t] EXCEPT !.elems = v]]
      BY <1>p, <3>1, <3>2
    <3>4. q[t] = [hp[t] EXCEPT !.elems = v]
      BY <1>1, <3>3 DEF Heaps
    <3>5. q[t].elems = v
      BY <3>1, <3>4 DEF Object
    <3>6. heap' = [q EXCEPT ![t] = [q[t] EXCEPT !.elems = u]]
      BY <1>p, <2>1, <3>2, <3>5
    <3>7. [q[t] EXCEPT !.elems = u] = [hp[t] EXCEPT !.elems = u]
      BY <3>1, <3>4 DEF Object
    <3> QED BY <1>1, <3>3, <3>6, <3>7 DEF Heaps
  <2>3. hp = PlusAll(hp, <<>>)
    BY <1>1, PlusIs
  <2>4. heap' = [PlusAll(hp, <<>>) EXCEPT ![t].elems = u]
    BY <2>2, <2>3
  <2> QED BY <2>1, <2>4 DEF EditAt
<1> QED BY <1>2, <1>p DEF Writes

(* jbl_ll_merge: those of another list behind.                                *)
LEMMA MergeWrites ==
  ASSUME SlNow, todo = <<>>, NEW h \in Holder, NEW g \in Holder, Merge(h, g),
         NEW w, w = Elems(g), w \in Seq(Payload), NEW u, u = Joined(Elems(h), w)
  PROVE  Writes(h, w, u, <<>>)
<1>p. PICK x, e : x = Extend(heap, hold, h) /\ e = Elems(h)
  OBVIOUS
<1>1. /\ x.heap \in Heaps /\ x.thi \in Obj /\ x.heap[x.thi].elems = e /\ e \in Seq(Payload)
  BY <1>p, ElemsIs DEF Merge
<1>2. heap' = EditAt(x.heap, w, x.thi, u) /\ hold' = x.hold /\ todo' = <<>>
  <2> PICK hp, t : hp = x.heap /\ t = x.thi
    OBVIOUS
  <2>1. /\ heap' = [PlusAll(hp, w) EXCEPT ![t].elems = @ \o w]
        /\ hold' = x.hold /\ todo' = todo
    BY <1>p DEF Merge
  <2>2. PlusAll(hp, w)[t].elems = e
    BY <1>1, PlusAllIs
  <2> QED BY <1>p, <2>1, <2>2 DEF EditAt, Joined
<1> QED BY <1>2, <1>p DEF Writes

(* jbl_ll_insert.                                                             *)
LEMMA InsertIs ==
  ASSUME SlNow, todo = <<>>, Room(1), NEW h \in Holder, NEW k \in Nat, k <= Length(h),
         NEW p \in Payload, InsertPayload(h, p, k),
         p \in Obj => heap[p].kind # "unused" /\ ~ Closes(h, p)
  PROVE  SlNow'
<1>p. PICK x, e, w : x = Extend(heap, hold, h) /\ e = Elems(h) /\ w = << p >>
  OBVIOUS
<1>1. /\ x.heap \in Heaps /\ x.thi \in Obj /\ x.heap[x.thi].elems = e
      /\ e \in Seq(Payload) /\ k <= Len(e) /\ w \in Seq(Payload)
  BY <1>p, ElemsIs DEF Length
<1>2. PICK u : u = InsertAt(e, k + 1, p)
  OBVIOUS
<1>3. u \in Seq(Payload)
  BY <1>1, <1>2, CountInsert
<1>4. Settles(e, w, u, <<>>) /\ <<>> \in Seq(Payload)
  <2>1. ASSUME NEW o \in Obj
        PROVE  Count(u, o) + Count(<<>>, o) = Count(e, o) + Count(w, o)
    <3>1. Count(u, o) = Count(e, o) + Is(p, o)
      BY <1>1, <1>2, CountInsert
    <3>2. Count(w, o) = Is(p, o)
      BY <1>p, CountShort
    <3>3. Count(u, o) \in Nat
      BY <1>3, CountIs
    <3>4. Count(<<>>, o) = 0
      BY EmptyIs
    <3> PICK a, d, i : a = Count(u, o) /\ d = Count(e, o) /\ i = Is(p, o)
      OBVIOUS
    <3>5. a + 0 = a /\ a = d + i
      BY <3>1, <3>3
    <3> QED BY <3>2, <3>4, <3>5
  <2> QED BY <2>1 DEF Settles
<1>5. Comes(h, w)
  <2>1. \A o \in Obj : Count(w, o) = Is(p, o)
    BY <1>p, CountShort
  <2> QED BY <2>1 DEF Comes, Is
<1>6. Writes(h, w, u, <<>>)
  BY <1>2, <1>p, InsertWrites
<1> QED BY <1>1, <1>3, <1>4, <1>5, <1>6, <1>p, ChangeIs DEF Writes

(* jbl_ll_insert of a number, and of what another variable holds.             *)
LEMMA InsertAtomIs ==
  ASSUME SlNow, todo = <<>>, NEW h \in Holder, NEW a \in Atom, NEW k \in Nat, InsertAtom(h, a, k)
  PROVE  SlNow'
<1>1. a \in Payload /\ a \notin Obj
  BY SharedAssumption DEF Payload
<1> QED BY <1>1, InsertIs DEF InsertAtom

(* jbl_ll_insert of the list another variable holds, copied by jbl_var_copy.  *)
LEMMA InsertHeldIs ==
  ASSUME SlNow, todo = <<>>, NEW h \in Holder, NEW g \in Holder, NEW k \in Nat,
         InsertHeld(h, g, k), fault' = "none"
  PROVE  SlNow'
<1>1. PICK p : p = hold[g]
  OBVIOUS
<1>2. p \in Obj
  BY <1>1 DEF SlNow, SlGood, Typed, InsertHeld
<1>3. heap[p].kind # "unused" /\ p \in Payload
  BY <1>1, <1>2, OwnedLives DEF SlNow, Payload
<1>4. InsertPayload(h, p, k) /\ Room(1) /\ k <= Length(h)
  BY <1>1 DEF InsertHeld
<1>5. ~ Closes(h, p)
  BY <1>1 DEF InsertHeld, Noted
<1> QED BY <1>3, <1>4, <1>5, InsertIs

(* jbl_ll_delete: the payload taken out is freed next.                        *)
LEMMA DeleteIs ==
  ASSUME SlNow, todo = <<>>, NEW h \in Holder, NEW k \in Nat, Delete(h, k)
  PROVE  SlNow'
<1>p. PICK x, e, td : x = Extend(heap, hold, h) /\ e = Elems(h) /\ td = << Elems(h)[k] >>
  OBVIOUS
<1>0. Room(1) /\ k \in DOMAIN e
  BY <1>p DEF Delete
<1>1. /\ x.heap \in Heaps /\ x.thi \in Obj /\ x.heap[x.thi].elems = e /\ e \in Seq(Payload)
  BY <1>0, <1>p, ElemsIs
<1>2. k \in 1 .. Len(e) /\ e[k] \in Payload
  BY <1>0, <1>1
<1>3. PICK u : u = RemoveAt(e, k)
  OBVIOUS
<1>4. u \in Seq(Payload) /\ td \in Seq(Payload) /\ <<>> \in Seq(Payload)
  BY <1>1, <1>2, <1>3, <1>p, CountRemove
<1>5. Settles(e, <<>>, u, td)
  <2>1. ASSUME NEW o \in Obj
        PROVE  Count(u, o) + Count(td, o) = Count(e, o) + Count(<<>>, o)
    <3>1. Count(u, o) + Is(e[k], o) = Count(e, o)
      BY <1>1, <1>2, <1>3, CountRemove
    <3>2. Count(td, o) = Is(e[k], o)
      BY <1>2, <1>p, CountShort
    <3>3. Count(e, o) \in Nat
      BY <1>1, CountIs
    <3>4. Count(<<>>, o) = 0
      BY EmptyIs
    <3> PICK a, d, i : a = Count(u, o) /\ d = Count(e, o) /\ i = Is(e[k], o)
      OBVIOUS
    <3>5. d + 0 = d /\ a + i = d
      BY <3>1, <3>3
    <3> QED BY <3>2, <3>4, <3>5
  <2> QED BY <2>1 DEF Settles
<1>6. Comes(h, <<>>)
  BY EmptyIs DEF Comes
<1>7. Writes(h, <<>>, u, td)
  BY <1>3, <1>p, DeleteWrites
<1> QED BY <1>0, <1>4, <1>5, <1>6, <1>7, <1>p, ChangeIs DEF Writes

(* jbl_ll_swap_node.                                                          *)
LEMMA SwapIs ==
  ASSUME SlNow, todo = <<>>, NEW h \in Holder, NEW j \in Nat, NEW k \in Nat, Swap(h, j, k)
  PROVE  SlNow'
<1>p. PICK x, e : x = Extend(heap, hold, h) /\ e = Elems(h)
  OBVIOUS
<1>0. Room(1) /\ j \in DOMAIN e /\ k \in DOMAIN e /\ j < k
  BY <1>p DEF Swap
<1>1. /\ x.heap \in Heaps /\ x.thi \in Obj /\ x.heap[x.thi].elems = e /\ e \in Seq(Payload)
  BY <1>0, <1>p, ElemsIs
<1>2. /\ j \in 1 .. Len(e) /\ k \in 1 .. Len(e) /\ j # k
      /\ e[j] \in Payload /\ e[k] \in Payload
  BY <1>0, <1>1
<1>3. PICK v, u : v = [e EXCEPT ![j] = e[k]] /\ u = [v EXCEPT ![k] = e[j]]
  OBVIOUS
<1>4. v \in Seq(Payload) /\ Len(v) = Len(e) /\ v[k] = e[k]
  <2>1. v \in Seq(Payload) /\ Len(v) = Len(e)
    BY <1>1, <1>2, <1>3, CountReplace DEF Put
  <2>2. v[k] = e[k]
    BY <1>0, <1>1, <1>2, <1>3
  <2> QED BY <2>1, <2>2
<1>5. u \in Seq(Payload) /\ <<>> \in Seq(Payload)
  BY <1>2, <1>3, <1>4, CountReplace DEF Put
<1>6. Settles(e, <<>>, u, <<>>)
  <2>1. ASSUME NEW o \in Obj
        PROVE  Count(u, o) + Count(<<>>, o) = Count(e, o) + Count(<<>>, o)
    <3>p. PICK y, z : y = e[j] /\ z = e[k]
      OBVIOUS
    <3>q. /\ e \in Seq(Payload) /\ v \in Seq(Payload) /\ j \in 1 .. Len(e)
          /\ k \in 1 .. Len(v) /\ y \in Payload /\ z \in Payload
          /\ v = Put(e, j, z) /\ u = Put(v, k, y)
      BY <1>1, <1>2, <1>3, <1>4, <3>p DEF Put
    <3>1. Count(v, o) + Is(e[j], o) = Count(e, o) + Is(e[k], o)
      <4>1. Count(v, o) + Is(e[j], o) = Count(e, o) + Is(z, o)
        BY ONLY <3>q, CountReplace
      <4> QED BY <3>p, <4>1
    <3>2. Count(u, o) + Is(v[k], o) = Count(v, o) + Is(e[j], o)
      <4>0. v \in Seq(Payload) /\ k \in 1 .. Len(v) /\ y \in Payload /\ u = Put(v, k, y)
        BY <3>q
      <4>1. Count(u, o) + Is(v[k], o) = Count(v, o) + Is(y, o)
        BY ONLY <4>0, CountReplace
      <4> QED BY <3>p, <4>1
    <3>3. /\ Count(e, o) \in Nat /\ Count(v, o) \in Nat /\ Count(u, o) \in Nat
          /\ Is(e[j], o) \in Nat /\ Is(e[k], o) \in Nat
      BY <1>1, <1>4, <1>5, CountIs DEF Is
    <3> PICK a, b, d, i, l : /\ a = Count(u, o) /\ b = Count(v, o) /\ d = Count(e, o)
                             /\ i = Is(e[j], o) /\ l = Is(e[k], o)
      OBVIOUS
    <3>4. /\ b + i = d + l /\ a + l = b + i /\ a \in Nat /\ b \in Nat /\ d \in Nat
          /\ i \in Nat /\ l \in Nat
      BY <1>4, <3>1, <3>2, <3>3
    <3>5. a = d
      BY ONLY <3>4
    <3> QED BY <3>5
  <2> QED BY <2>1 DEF Settles
<1>7. Comes(h, <<>>)
  BY EmptyIs DEF Comes
<1>8. Writes(h, <<>>, u, <<>>)
  BY <1>3, <1>p, SwapWrites
<1> QED BY <1>0, <1>5, <1>6, <1>7, <1>8, <1>p, ChangeIs DEF Writes

(* jbl_ll_merge: every payload of the other list is owned once more.          *)
LEMMA MergeIs ==
  ASSUME SlNow, todo = <<>>, NEW h \in Holder, NEW g \in Holder, Merge(h, g),
         fault' = "none"
  PROVE  SlNow'
<1>p. PICK x, e, w : x = Extend(heap, hold, h) /\ e = Elems(h) /\ w = Elems(g)
  OBVIOUS
<1>0. Room(1) /\ hold[g] # NULL
  BY DEF Merge
<1>1. /\ x.heap \in Heaps /\ x.thi \in Obj /\ x.heap[x.thi].elems = e /\ e \in Seq(Payload)
  BY <1>0, <1>p, ElemsIs
<1>2. PICK y : y \in Obj /\ w = heap[y].elems /\ heap \in Heaps
  <2>1. hold[g] \in Obj /\ heap \in Heaps
    BY <1>0 DEF SlNow, SlGood, Typed
  <2>2. heap[hold[g]].kind # "unused"
    BY <2>1, OwnedLives DEF SlNow
  <2>3. Pull[hold[g]] \in Obj
    BY <2>1, <2>2, PullIs
  <2> QED BY <1>0, <1>p, <2>1, <2>3 DEF Elems
<1>3. w \in Seq(Payload)
  BY <1>2 DEF Heaps, Object
<1>4. PICK u : u = Joined(e, w)
  OBVIOUS
<1>5. u \in Seq(Payload) /\ <<>> \in Seq(Payload)
  BY <1>1, <1>3, <1>4, CountConcat
<1>6. Settles(e, w, u, <<>>)
  <2>1. ASSUME NEW o \in Obj
        PROVE  Count(u, o) + Count(<<>>, o) = Count(e, o) + Count(w, o)
    <3>1. Count(u, o) = Count(e, o) + Count(w, o) /\ Count(u, o) \in Nat
      BY <1>1, <1>3, <1>4, <1>5, CountConcat, CountIs
    <3>2. Count(<<>>, o) = 0
      BY EmptyIs
    <3> PICK a, b, d : a = Count(u, o) /\ b = Count(e, o) /\ d = Count(w, o)
      OBVIOUS
    <3>3. a + 0 = a /\ a = b + d
      BY <3>1
    <3> QED BY <3>2, <3>3
  <2> QED BY <2>1 DEF Settles
<1>7. Comes(h, w)
  <2> SUFFICES ASSUME NEW o \in Obj, Count(w, o) # 0
               PROVE  heap[o].kind # "unused" /\ ~ Closes(h, o)
    BY DEF Comes
  <2>1. o \in Range(w) /\ Leads(heap, y, o)
    BY <1>2, InRange DEF Leads
  <2>2. heap[o].kind # "unused"
    BY <1>2, <2>1, OwnedLives DEF SlNow
  <2>3. ~ Closes(h, o)
    BY <1>p, <2>1 DEF Merge, Noted
  <2> QED BY <2>2, <2>3
<1>8. Writes(h, w, u, <<>>)
  BY <1>3, <1>4, <1>p, MergeWrites
<1> QED BY <1>0, <1>3, <1>5, <1>6, <1>7, <1>8, <1>p, ChangeIs DEF Writes
-----------------------------------------------------------------------------
(* Only the counts differ.                                                    *)
Alike(hp, hp2) ==
  \A q \in Obj : /\ hp2[q].kind = hp[q].kind /\ hp2[q].ptr = hp[q].ptr
                 /\ hp2[q].elems = hp[q].elems

(* Where only counts differ, the ranks and the owners are the same.           *)
LEMMA SameShape ==
  ASSUME NEW hp \in Heaps, NEW hp2 \in Heaps, Shaped(hp), Ranked(hp), Alike(hp, hp2)
  PROVE  Shaped(hp2) /\ Ranked(hp2)
<1>1. Shaped(hp2)
  BY DEF Shaped, Alike
<1>2. PICK r, b : Ranks(hp, r, b)
  BY DEF Ranked
<1>3. \A q, o \in Obj : Leads(hp2, q, o) <=> Leads(hp, q, o)
  BY DEF Leads, Alike
<1>4. Ranks(hp2, r, b)
  BY <1>2, <1>3 DEF Ranks
<1> QED BY <1>1, <1>4 DEF Ranked

(* Heaps that differ in counts only have the same owners of every object.     *)
LEMMA SameOwners ==
  ASSUME NEW hp \in Heaps, NEW hp2 \in Heaps, Alike(hp, hp2), NEW hd, NEW td, NEW o \in Obj
  PROVE  Owning(hp2, hd, td, o) = Owning(hp, hd, td, o)
<1>1. Ptrs(hp2) = Ptrs(hp)
  BY DEF Ptrs, Alike
<1>2. \A q \in Obj : Within(hp2, q, o) = Within(hp, q, o)
  BY DEF Within, Alike
<1>3. Places(hp2, o) = Places(hp, o)
  BY <1>2 DEF Places
<1> QED BY <1>1, <1>3 DEF Owning, Referring, Listing

(* jbl_ll_new.                                                                *)
LEMMA NewIs ==
  ASSUME SlNow, todo = <<>>, NEW h \in Holder, New(h)
  PROVE  SlNow'
<1>p. PICK t, hp2, hd2 : t = Fresh(heap) /\ hp2 = NewAt(heap, t) /\ hd2 = SentTo(hold, h, t)
  OBVIOUS
<1>1. SlGood(heap, hold, <<>>) /\ heap \in Heaps
  BY DEF SlNow, SlGood, Typed
<1>2. t \in Obj /\ heap[t].kind = "unused"
  BY <1>1, <1>p, FreshIs DEF New, Room
<1>3. PICK r, b : Ranks(heap, r, b)
  BY <1>1 DEF SlGood, Ranked
<1>4. hold[h] = NULL
  BY DEF New
<1>5. SlGood(hp2, hd2, <<>>)
  BY <1>1, <1>2, <1>3, <1>4, <1>p, MadeIs
<1>6. heap' = hp2 /\ hold' = hd2 /\ todo' = <<>>
  BY <1>p DEF New, NewAt, SentTo
<1> QED BY <1>5, <1>6 DEF SlNow

(* jbl_ll_copy.                                                               *)
LEMMA CopyIs ==
  ASSUME SlNow, todo = <<>>, NEW h \in Holder, NEW g \in Holder, Copy(h, g)
  PROVE  SlNow'
<1>p. PICK y, w, hp2, hd2 : /\ y = hold[h] /\ w = << y >>
                            /\ hp2 = Plus(heap, y) /\ hd2 = SentTo(hold, g, y)
  OBVIOUS
<1>0. /\ heap \in Heaps /\ Shaped(heap) /\ Living(heap) /\ Ranked(heap)
      /\ hold \in [Holder -> Obj \cup {NULL}] /\ <<>> \in Seq(Payload)
      /\ \A o \in Obj : heap[o].cnt = Owning(heap, hold, <<>>, o)
  BY DEF SlNow, SlGood, Typed, Exact
<1>1. y \in Obj /\ y # NULL /\ hold[g] = NULL
  BY <1>0, <1>p DEF Copy
<1>2. heap[y].kind # "unused" /\ y \in Payload /\ w \in Seq(Payload)
  BY <1>1, <1>p, OwnedLives DEF SlNow, Payload
<1>3. /\ hp2 \in Heaps
      /\ \A o \in Obj : /\ hp2[o].kind = heap[o].kind /\ hp2[o].ptr = heap[o].ptr
                        /\ hp2[o].elems = heap[o].elems
                        /\ hp2[o].cnt = heap[o].cnt + Is(y, o)
  <2>1. hp2 = PlusAll(heap, w)
    BY <1>0, <1>2, <1>p, PlusIs
  <2>2. \A o \in Obj : Count(w, o) = Is(y, o)
    BY <1>2, <1>p, CountShort
  <2> QED BY <1>0, <1>2, <2>1, <2>2, PlusAllIs
<1>4. /\ hd2 \in [Holder -> Obj \cup {NULL}] /\ hd2[g] = y
      /\ \A i \in Holder : i # g => hd2[i] = hold[i]
  BY <1>0, <1>1, <1>p DEF SentTo
<1>5. /\ Shaped(hp2) /\ Ranked(hp2)
      /\ \A o \in Obj : Owning(hp2, hold, <<>>, o) = Owning(heap, hold, <<>>, o)
  <2>1. Alike(heap, hp2)
    BY <1>3 DEF Alike
  <2>2. Shaped(hp2) /\ Ranked(hp2)
    BY <1>0, <1>3, <2>1, SameShape
  <2>3. \A o \in Obj : Owning(hp2, hold, <<>>, o) = Owning(heap, hold, <<>>, o)
    BY <1>0, <1>3, <2>1, SameOwners
  <2> QED BY <2>2, <2>3
<1>6. Exact(hp2, hd2, <<>>)
  <2> SUFFICES ASSUME NEW o \in Obj PROVE hp2[o].cnt = Owning(hp2, hd2, <<>>, o)
    BY DEF Exact
  <2>1. HoldBalance(hp2, hold, hd2, <<>>, <<>>, g, o)
    BY <1>0, <1>3, <1>4, OwningHold
  <2>2. Is(NULL, o) = 0 /\ Count(<<>>, o) = 0 /\ Is(y, o) \in Nat
    BY EmptyIs DEF Is
  <2>p. PICK a, c, i : /\ a = Owning(hp2, hd2, <<>>, o) /\ c = heap[o].cnt /\ i = Is(y, o)
    OBVIOUS
  <2>3. a + 0 + 0 = c + i + 0 /\ a \in Nat /\ c \in Nat /\ i \in Nat
    BY <1>0, <1>1, <1>4, <1>5, <2>1, <2>2, <2>p DEF HoldBalance
  <2>4. c + i = a
    BY ONLY <2>3
  <2> QED BY <1>3, <2>4, <2>p
<1>7. Living(hp2)
  <2> SUFFICES ASSUME NEW o \in Obj PROVE hp2[o].kind # "unused" <=> hp2[o].cnt > 0
    BY DEF Living
  <2>1. heap[o].kind # "unused" <=> heap[o].cnt > 0
    BY <1>0 DEF Living
  <2>2. heap[o].cnt \in Nat
    BY <1>0 DEF Heaps, Object
  <2>3. hp2[o].kind = heap[o].kind /\ hp2[o].cnt = heap[o].cnt + Is(y, o)
    BY <1>3
  <2>4. CASE o = y
    BY <1>2, <2>1, <2>2, <2>3, <2>4 DEF Is
  <2>5. CASE o # y
    BY <2>1, <2>2, <2>3, <2>5 DEF Is
  <2> QED BY <2>4, <2>5
<1>8. SlGood(hp2, hd2, <<>>)
  BY <1>0, <1>3, <1>4, <1>5, <1>6, <1>7 DEF SlGood, Typed
<1>9. heap' = hp2 /\ hold' = hd2 /\ todo' = <<>>
  BY <1>p DEF Copy, SentTo
<1> QED BY <1>8, <1>9 DEF SlNow

(* jbl_ll_free of a variable: what it held is freed next.                     *)
LEMMA FreeIs ==
  ASSUME SlNow, todo = <<>>, NEW h \in Holder, Free(h)
  PROVE  SlNow'
<1>p. PICK y, td, hd2 : y = hold[h] /\ td = << y >> /\ hd2 = SentTo(hold, h, NULL)
  OBVIOUS
<1>0. /\ heap \in Heaps /\ Shaped(heap) /\ Living(heap) /\ Ranked(heap)
      /\ hold \in [Holder -> Obj \cup {NULL}] /\ <<>> \in Seq(Payload)
      /\ \A o \in Obj : heap[o].cnt = Owning(heap, hold, <<>>, o)
  BY DEF SlNow, SlGood, Typed, Exact
<1>1. y \in Obj /\ y \in Payload /\ td \in Seq(Payload)
  BY <1>0, <1>p DEF Free, Payload
<1>4. /\ hd2 \in [Holder -> Obj \cup {NULL}] /\ hd2[h] = NULL
      /\ \A i \in Holder : i # h => hd2[i] = hold[i]
  BY <1>0, <1>p DEF SentTo
<1>6. Exact(heap, hd2, td)
  <2> SUFFICES ASSUME NEW o \in Obj PROVE heap[o].cnt = Owning(heap, hd2, td, o)
    BY DEF Exact
  <2>1. HoldBalance(heap, hold, hd2, <<>>, td, h, o)
    BY <1>0, <1>1, <1>4, OwningHold
  <2>2. Is(NULL, o) = 0 /\ Count(<<>>, o) = 0 /\ Is(y, o) \in Nat
    BY EmptyIs DEF Is
  <2>3. Count(td, o) = Is(y, o)
    BY <1>1, <1>p, CountShort
  <2>p. PICK a, c, i : /\ a = Owning(heap, hd2, td, o) /\ c = heap[o].cnt /\ i = Is(y, o)
    OBVIOUS
  <2>4. a + i + 0 = c + 0 + i /\ a \in Nat /\ c \in Nat /\ i \in Nat
    BY <1>0, <1>4, <1>p, <2>1, <2>2, <2>3, <2>p DEF HoldBalance
  <2>5. c = a
    BY ONLY <2>4
  <2> QED BY <2>5, <2>p
<1>8. SlGood(heap, hd2, td)
  BY <1>0, <1>1, <1>4, <1>6 DEF SlGood, Typed
<1>9. heap' = heap /\ hold' = hd2 /\ todo' = td
  BY <1>p DEF Free, SentTo
<1> QED BY <1>8, <1>9 DEF SlNow

(* jbl_refer: the reference owns what the variable held, two variables own    *)
(* it.                                                                        *)
LEMMA ReferIs ==
  ASSUME SlNow, todo = <<>>, NEW h \in Holder, NEW g \in Holder, Refer(h, g)
  PROVE  SlNow'
<1>p. PICK y, t, n : /\ y = hold[h] /\ t = Fresh(heap)
                     /\ n = [kind |-> "ref", cnt |-> 2, ptr |-> y, elems |-> <<>>]
  OBVIOUS
<1>q. PICK hp2, hd2, hd3 : /\ hp2 = [heap EXCEPT ![t] = n]
                           /\ hd2 = SentTo(hold, h, t) /\ hd3 = SentTo(hd2, g, t)
  OBVIOUS
<1>0. /\ heap \in Heaps /\ Shaped(heap) /\ Living(heap) /\ Ranked(heap)
      /\ hold \in [Holder -> Obj \cup {NULL}] /\ <<>> \in Seq(Payload)
      /\ \A o \in Obj : heap[o].cnt = Owning(heap, hold, <<>>, o)
      /\ SlGood(heap, hold, <<>>)
  BY DEF SlNow, SlGood, Typed, Exact
<1>1. y \in Obj /\ y # NULL /\ hold[g] = NULL /\ h # g
  BY <1>0, <1>p DEF Refer
<1>2. t \in Obj /\ heap[t].kind = "unused"
  BY <1>0, <1>p, FreshIs DEF Refer, Room
<1>3. /\ heap[t].ptr = NULL /\ heap[t].elems = <<>> /\ heap[t].cnt = 0
      /\ Owning(heap, hold, <<>>, t) = 0 /\ \A q \in Obj : ~ Leads(heap, q, t)
      /\ y # t
  BY <1>0, <1>2, <1>p, UnusedIs
<1>4. n \in Object /\ n.kind = "ref" /\ n.cnt = 2 /\ n.ptr = y /\ n.elems = <<>>
  BY <1>0, <1>1, <1>p DEF Object
<1>5. hp2 \in Heaps /\ hp2[t] = n /\ \A o \in Obj : o # t => hp2[o] = heap[o]
  BY <1>0, <1>2, <1>4, <1>q DEF Heaps
<1>6. /\ hd2 \in [Holder -> Obj \cup {NULL}] /\ hd2[h] = t /\ hd2[g] = NULL
      /\ \A i \in Holder : i # h => hd2[i] = hold[i]
  BY <1>0, <1>1, <1>2, <1>q DEF SentTo
<1>7. /\ hd3 \in [Holder -> Obj \cup {NULL}] /\ hd3[g] = t
      /\ \A i \in Holder : i # g => hd3[i] = hd2[i]
  BY <1>2, <1>6, <1>q DEF SentTo
<1>8. Shaped(hp2)
  BY <1>0, <1>1, <1>4, <1>5 DEF Shaped
<1>9. Living(hp2)
  BY <1>0, <1>4, <1>5 DEF Living
<1>10. Exact(hp2, hd3, <<>>)
  <2> SUFFICES ASSUME NEW o \in Obj PROVE hp2[o].cnt = Owning(hp2, hd3, <<>>, o)
    BY DEF Exact
  <2>0. OnlyAt(heap, hp2, t)
    BY <1>5 DEF OnlyAt
  <2>1. HeapBalance(heap, hp2, hold, <<>>, <<>>, t, o)
    BY <1>0, <1>2, <1>5, <2>0, OwningHeap
  <2>2. HoldBalance(hp2, hold, hd2, <<>>, <<>>, h, o)
    BY <1>0, <1>5, <1>6, OwningHold
  <2>3. HoldBalance(hp2, hd2, hd3, <<>>, <<>>, g, o)
    BY <1>0, <1>5, <1>7, OwningHold
  <2>4. Is(NULL, o) = 0 /\ Count(<<>>, o) = 0 /\ Is(y, o) \in Nat /\ Is(t, o) \in Nat
    BY EmptyIs DEF Is
  <2>p. PICK a, a2, a3, c, i, j : /\ a = Owning(hp2, hold, <<>>, o)
                                  /\ a2 = Owning(hp2, hd2, <<>>, o)
                                  /\ a3 = Owning(hp2, hd3, <<>>, o)
                                  /\ c = Owning(heap, hold, <<>>, o)
                                  /\ i = Is(y, o) /\ j = Is(t, o)
    OBVIOUS
  <2>5. /\ a + 0 + 0 + 0 = c + i + 0 + 0
        /\ a \in Nat /\ c \in Nat /\ i \in Nat /\ j \in Nat
    BY <1>3, <1>4, <1>5, <2>1, <2>4, <2>p DEF HeapBalance
  <2>6. a2 + i + 0 = a + j + 0 /\ a2 \in Nat
    BY <1>6, <1>p, <2>2, <2>4, <2>p DEF HoldBalance
  <2>7. a3 + 0 + 0 = a2 + j + 0 /\ a3 \in Nat
    BY <1>6, <1>7, <2>3, <2>4, <2>p DEF HoldBalance
  <2>8. a3 = c + j + j
    BY ONLY <2>5, <2>6, <2>7
  <2>9. CASE o = t
    <3>1. j = 1
      BY <2>9, <2>p DEF Is
    <3>2. c = 0 /\ hp2[o].cnt = 2
      BY <1>3, <1>4, <1>5, <2>9, <2>p
    <3>3. hp2[o].cnt = a3
      BY ONLY <2>8, <3>1, <3>2
    <3> QED BY <2>p, <3>3
  <2>10. CASE o # t
    <3>1. j = 0
      BY <2>10, <2>p DEF Is
    <3>2. c = a3
      BY ONLY <2>5, <2>8, <3>1
    <3> QED BY <1>0, <1>5, <2>10, <2>p, <3>2
  <2> QED BY <2>9, <2>10
<1>11. Ranked(hp2)
  <2>1. PICK r, b : Ranks(heap, r, b)
    BY <1>0 DEF Ranked
  <2>2. PICK s : s = [r EXCEPT ![t] = b + 1]
    OBVIOUS
  <2>3. /\ r \in [Obj -> Nat] /\ b \in Nat /\ \A q \in Obj : r[q] <= b
        /\ \A q, o \in Obj : Leads(heap, q, o) => r[o] < r[q]
    BY <2>1 DEF Ranks
  <2>4. s \in [Obj -> Nat] /\ s[t] = b + 1 /\ \A o \in Obj : o # t => s[o] = r[o]
    BY <1>2, <2>2, <2>3
  <2>5. ASSUME NEW q \in Obj, NEW o \in Obj, Leads(hp2, q, o) PROVE s[o] < s[q]
    <3>1. CASE q = t
      <4>1. o = y
        BY <1>4, <1>5, <2>5, <3>1, EmptyIs DEF Leads
      <4> QED BY <1>1, <1>3, <2>3, <2>4, <3>1, <4>1
    <3>2. CASE q # t
      <4>1. Leads(heap, q, o)
        BY <1>5, <2>5, <3>2 DEF Leads
      <4>2. o # t
        BY <1>3, <4>1
      <4> QED BY <2>3, <2>4, <3>2, <4>1, <4>2
    <3> QED BY <3>1, <3>2
  <2>6. \A q \in Obj : s[q] <= b + 1
    BY ONLY <2>3, <2>4
  <2>7. b + 1 \in Nat
    BY <2>3
  <2>8. Ranks(hp2, s, b + 1)
    BY ONLY <2>4, <2>5, <2>6, <2>7 DEF Ranks
  <2> QED BY <2>8 DEF Ranked
<1>12. SlGood(hp2, hd3, <<>>)
  BY <1>0, <1>5, <1>7, <1>8, <1>9, <1>10, <1>11 DEF SlGood, Typed
<1>13. heap' = hp2 /\ hold' = hd3 /\ todo' = <<>>
  <2>1. /\ heap' = [heap EXCEPT ![t] = n] /\ hold' = [hold EXCEPT ![h] = t, ![g] = t]
        /\ todo' = todo
    BY <1>p DEF Refer
  <2> QED BY <1>q, <2>1 DEF SentTo
<1> QED BY <1>12, <1>13 DEF SlNow

(* One call of jbl_var_free: one owner less, or the object is gone and what   *)
(* it owned is freed next; a number is nobody else's.                         *)
LEMMA FreeStepIs ==
  ASSUME SlNow, FreeStep
  PROVE  SlNow'
<1>p. PICK t, r : t = Head(todo) /\ r = Tail(todo)
  OBVIOUS
<1>0. /\ heap \in Heaps /\ Shaped(heap) /\ Living(heap) /\ Ranked(heap)
      /\ hold \in [Holder -> Obj \cup {NULL}] /\ todo \in Seq(Payload) /\ todo # <<>>
      /\ \A o \in Obj : heap[o].cnt = Owning(heap, hold, todo, o)
  BY DEF SlNow, SlGood, Typed, Exact, FreeStep
<1>1. /\ t \in Payload /\ r \in Seq(Payload)
      /\ \A o \in Obj : /\ Count(todo, o) = Is(t, o) + Count(r, o)
                        /\ Count(r, o) \in Nat /\ Is(t, o) \in Nat
  <2>1. t \in Payload /\ r \in Seq(Payload)
    BY <1>0, <1>p, CountTail
  <2>2. \A o \in Obj : Count(todo, o) = Is(t, o) + Count(r, o)
    BY <1>0, <1>p, CountTail
  <2>3. \A o \in Obj : Count(r, o) \in Nat /\ Is(t, o) \in Nat
    BY <2>1, CountIs DEF Is
  <2> QED BY <2>1, <2>2, <2>3
<1>2. hold' = hold
  BY DEF FreeStep
<1>3. CASE t \in Obj /\ heap[t].cnt > 1 /\ heap' = [heap EXCEPT ![t].cnt = @ - 1] /\ todo' = r
  <2>p. PICK hp2 : hp2 = [heap EXCEPT ![t].cnt = @ - 1]
    OBVIOUS
  <2>1. heap[t] \in Object /\ heap[t].cnt \in Nat
    BY <1>0, <1>3 DEF Heaps, Object
  <2>2. [heap[t] EXCEPT !.cnt = @ - 1] \in Object
    BY <1>3, <2>1 DEF Object
  <2>3. /\ hp2 \in Heaps /\ hp2[t] = [heap[t] EXCEPT !.cnt = @ - 1]
        /\ \A o \in Obj : o # t => hp2[o] = heap[o]
    BY <1>0, <1>3, <2>2, <2>p DEF Heaps
  <2>4. /\ hp2[t].kind = heap[t].kind /\ hp2[t].ptr = heap[t].ptr
        /\ hp2[t].elems = heap[t].elems /\ hp2[t].cnt = heap[t].cnt - 1
    BY <2>1, <2>3 DEF Object
  <2>5. Alike(heap, hp2)
    BY <2>3, <2>4 DEF Alike
  <2>6. Shaped(hp2) /\ Ranked(hp2)
    BY <1>0, <2>3, <2>5, SameShape
  <2>7. Living(hp2)
    <3> SUFFICES ASSUME NEW o \in Obj PROVE hp2[o].kind # "unused" <=> hp2[o].cnt > 0
      BY DEF Living
    <3>1. heap[o].kind # "unused" <=> heap[o].cnt > 0
      BY <1>0 DEF Living
    <3>2. CASE o = t
      <4>1. hp2[o].kind = heap[t].kind /\ hp2[o].cnt > 0 /\ heap[t].cnt > 0
        BY ONLY <1>3, <2>1, <2>4, <3>2
      <4> QED BY <3>1, <3>2, <4>1
    <3>3. CASE o # t
      BY <2>3, <3>1, <3>3
    <3> QED BY <3>2, <3>3
  <2>8. Exact(hp2, hold, r)
    <3> SUFFICES ASSUME NEW o \in Obj PROVE hp2[o].cnt = Owning(hp2, hold, r, o)
      BY DEF Exact
    <3>1. OnlyAt(heap, hp2, o)
      BY <2>5 DEF OnlyAt, Alike
    <3>2. HeapBalance(heap, hp2, hold, todo, r, o, o)
      BY <1>0, <1>1, <2>3, <3>1, OwningHeap
    <3>3. hp2[o].ptr = heap[o].ptr /\ hp2[o].elems = heap[o].elems
      BY <2>5 DEF Alike
    <3>p. PICK a, c, i, n, k, l : /\ a = Owning(hp2, hold, r, o) /\ c = heap[o].cnt
                                  /\ i = Is(heap[o].ptr, o) /\ n = Count(r, o)
                                  /\ k = Is(t, o) /\ l = Count(heap[o].elems, o)
      OBVIOUS
    <3>4. /\ a + i + l + (k + n) = c + i + l + n
          /\ a \in Nat /\ c \in Nat /\ i \in Nat /\ n \in Nat /\ k \in Nat /\ l \in Nat
      BY <1>0, <1>1, <3>2, <3>3, <3>p DEF HeapBalance, Is
    <3>5. a + k = c
      BY ONLY <3>4
    <3>6. CASE o = t
      <4>1. k = 1 /\ hp2[o].cnt = c - 1
        BY <2>4, <3>6, <3>p DEF Is
      <4>2. hp2[o].cnt = a
        BY ONLY <3>4, <3>5, <4>1
      <4> QED BY <3>p, <4>2
    <3>7. CASE o # t
      <4>1. k = 0 /\ hp2[o].cnt = c
        BY <2>3, <3>7, <3>p DEF Is
      <4>2. hp2[o].cnt = a
        BY ONLY <3>4, <3>5, <4>1
      <4> QED BY <3>p, <4>2
    <3> QED BY <3>6, <3>7
  <2>9. SlGood(hp2, hold, r)
    BY <1>0, <1>1, <2>3, <2>6, <2>7, <2>8 DEF SlGood, Typed
  <2> QED BY <1>2, <1>3, <2>9, <2>p DEF SlNow
<1>4. CASE /\ t \in Obj /\ heap[t].cnt <= 1 /\ heap' = [heap EXCEPT ![t] = Unused]
           /\ todo' = (IF IsRef(t) THEN << heap[t].ptr >> ELSE heap[t].elems) \o r
  <2>p. PICK hp2, e, td : /\ hp2 = [heap EXCEPT ![t] = Unused]
                          /\ e = (IF IsRef(t) THEN << heap[t].ptr >> ELSE heap[t].elems)
                          /\ td = Joined(e, r)
    OBVIOUS
  <2>1. heap[t].kind # "unused" /\ heap[t].cnt = 1
    <3>1. Is(t, t) = 1
      BY DEF Is
    <3>2. Count(todo, t) # 0
      <4>p. PICK n : n = Count(r, t)
        OBVIOUS
      <4>1. Count(todo, t) = 1 + n /\ n \in Nat
        BY <1>1, <1>4, <3>1, <4>p
      <4> QED BY <4>1
    <3>3. heap[t].kind # "unused"
      BY <1>4, <3>2, OwnedLives DEF SlNow
    <3>4. heap[t].cnt > 0 /\ heap[t].cnt \in Nat
      BY <1>0, <1>4, <3>3 DEF Living, Heaps, Object
    <3> QED BY <1>4, <3>3, <3>4
  <2>2. /\ e \in Seq(Payload)
        /\ \A o \in Obj : Count(e, o) = Is(heap[t].ptr, o) + Count(heap[t].elems, o)
    <3>0. heap[t].elems \in Seq(Payload) /\ \A o \in Obj : Count(heap[t].elems, o) \in Nat
      BY <1>0, <1>4, WithinIs
    <3>1. CASE IsRef(t)
      <4>1. heap[t].ptr \in Payload /\ heap[t].elems = <<>> /\ e = << heap[t].ptr >>
        BY <1>0, <1>4, <2>p, <3>1 DEF Shaped, IsRef, Payload
      <4>2. \A o \in Obj : Count(e, o) = Is(heap[t].ptr, o) /\ Count(heap[t].elems, o) = 0
        BY <4>1, CountShort, EmptyIs
      <4>3. \A o \in Obj : Is(heap[t].ptr, o) \in Nat
        BY DEF Is
      <4> QED BY <4>1, <4>2, <4>3
    <3>2. CASE ~ IsRef(t)
      <4>1. heap[t].ptr = NULL /\ e = heap[t].elems
        BY <1>0, <1>4, <2>p, <3>2 DEF Shaped, IsRef
      <4>2. \A o \in Obj : Is(heap[t].ptr, o) = 0
        BY <4>1, EmptyIs
      <4> QED BY <3>0, <4>1, <4>2
    <3> QED BY <3>1, <3>2
  <2>3. /\ td \in Seq(Payload)
        /\ \A o \in Obj : Count(td, o) = Count(e, o) + Count(r, o)
    <3>1. r \in Seq(Payload) /\ e \in Seq(Payload) /\ td = Joined(e, r)
      BY <1>1, <2>2, <2>p
    <3>2. \A o \in Obj : td \in Seq(Payload) /\ Count(td, o) = Count(e, o) + Count(r, o)
      BY ONLY <3>1, CountConcat
    <3> QED BY <1>4, <3>2
  <2>4. Unused \in Object
    BY EmptyIs DEF Unused, Object
  <2>5. hp2 \in Heaps /\ hp2[t] = Unused /\ \A o \in Obj : o # t => hp2[o] = heap[o]
    BY <1>0, <1>4, <2>4, <2>p DEF Heaps
  <2>6. /\ hp2[t].kind = "unused" /\ hp2[t].ptr = NULL /\ hp2[t].elems = <<>>
        /\ hp2[t].cnt = 0
    BY <2>5 DEF Unused
  <2>7. Shaped(hp2) /\ Living(hp2)
    BY <1>0, <2>5, <2>6 DEF Shaped, Living
  <2>8. Exact(hp2, hold, td)
    <3> SUFFICES ASSUME NEW o \in Obj PROVE hp2[o].cnt = Owning(hp2, hold, td, o)
      BY DEF Exact
    <3>1. OnlyAt(heap, hp2, t)
      BY <2>5 DEF OnlyAt
    <3>2. HeapBalance(heap, hp2, hold, todo, td, t, o)
      BY <1>0, <1>4, <2>3, <2>5, <3>1, OwningHeap
    <3>3. Is(NULL, o) = 0 /\ Count(<<>>, o) = 0
      BY EmptyIs
    <3>p. PICK a, c, i, n, k, l : /\ a = Owning(hp2, hold, td, o) /\ c = heap[o].cnt
                                  /\ i = Is(heap[t].ptr, o) /\ n = Count(r, o)
                                  /\ k = Is(t, o) /\ l = Count(heap[t].elems, o)
      OBVIOUS
    <3>4. /\ a + i + l + (k + n) = c + 0 + 0 + (i + l + n)
          /\ a \in Nat /\ c \in Nat /\ i \in Nat /\ n \in Nat /\ k \in Nat /\ l \in Nat
      <4>1. Count(td, o) = i + l + n /\ Count(todo, o) = k + n
        BY <1>1, <2>2, <2>3, <3>p
      <4>2. a + i + l + Count(todo, o) = c + 0 + 0 + Count(td, o)
        BY <1>0, <2>6, <3>2, <3>3, <3>p DEF HeapBalance
      <4>3. a \in Nat /\ c \in Nat /\ l \in Nat
        BY <1>0, <3>2, <3>p DEF HeapBalance
      <4>4. i \in Nat /\ n \in Nat /\ k \in Nat
        BY <1>1, <3>p DEF Is
      <4> QED BY <4>1, <4>2, <4>3, <4>4
    <3>5. a + k = c
      BY ONLY <3>4
    <3>6. CASE o = t
      <4>1. k = 1 /\ c = 1 /\ hp2[o].cnt = 0
        BY <2>1, <2>6, <3>6, <3>p DEF Is
      <4>2. hp2[o].cnt = a
        BY ONLY <3>4, <3>5, <4>1
      <4> QED BY <3>p, <4>2
    <3>7. CASE o # t
      <4>1. k = 0 /\ hp2[o].cnt = c
        BY <2>5, <3>7, <3>p DEF Is
      <4>2. hp2[o].cnt = a
        BY ONLY <3>4, <3>5, <4>1
      <4> QED BY <3>p, <4>2
    <3> QED BY <3>6, <3>7
  <2>9. Ranked(hp2)
    <3>1. PICK s, b : Ranks(heap, s, b)
      BY <1>0 DEF Ranked
    <3>2. ASSUME NEW q \in Obj, NEW o \in Obj, Leads(hp2, q, o) PROVE Leads(heap, q, o)
      <4>1. q # t
        <5>1. Count(<<>>, o) = 0 /\ o # NULL
          BY EmptyIs, NullIs
        <5> QED BY <2>6, <3>2, <5>1 DEF Leads
      <4> QED BY <2>5, <3>2, <4>1 DEF Leads
    <3>3. Ranks(hp2, s, b)
      BY <3>1, <3>2 DEF Ranks
    <3> QED BY <3>3 DEF Ranked
  <2>10. SlGood(hp2, hold, td)
    BY <1>0, <2>3, <2>5, <2>7, <2>8, <2>9 DEF SlGood, Typed
  <2> QED BY <1>2, <1>4, <2>10, <2>p DEF SlNow, Joined
<1>5. CASE t \notin Obj /\ todo' = r /\ heap' = heap
  <2>1. Exact(heap, hold, r)
    <3> SUFFICES ASSUME NEW o \in Obj PROVE heap[o].cnt = Owning(heap, hold, r, o)
      BY DEF Exact
    <3>1. HeapBalance(heap, heap, hold, todo, r, o, o)
      <4>1. OnlyAt(heap, heap, o)
        BY DEF OnlyAt
      <4> QED BY <1>0, <1>1, <4>1, OwningHeap
    <3>p. PICK a, c, i, n, l : /\ a = Owning(heap, hold, r, o) /\ c = heap[o].cnt
                               /\ i = Is(heap[o].ptr, o) /\ n = Count(r, o)
                               /\ l = Count(heap[o].elems, o)
      OBVIOUS
    <3>2. Is(t, o) = 0
      BY <1>5 DEF Is
    <3>3. Count(todo, o) = 0 + n /\ n \in Nat
      BY <1>1, <3>2, <3>p
    <3>4. /\ a + i + l + n = c + i + l + n
          /\ a \in Nat /\ c \in Nat /\ i \in Nat /\ n \in Nat /\ l \in Nat
      BY <1>0, <3>1, <3>3, <3>p DEF HeapBalance, Is
    <3>5. c = a
      BY ONLY <3>4
    <3> QED BY <3>5, <3>p
  <2>2. SlGood(heap, hold, r)
    BY <1>0, <1>1, <2>1 DEF SlGood, Typed
  <2> QED BY <1>2, <1>5, <2>2 DEF SlNow
<1> QED BY <1>3, <1>4, <1>5, <1>p DEF FreeStep
-----------------------------------------------------------------------------
(* jbl_ll_add of a number, behind the last payload of a list.                 *)
LEMMA AppendIs ==
  ASSUME NEW e \in Seq(Payload), NEW a \in Atom, NEW u, u = Append(e, a)
  PROVE  u \in Seq(Payload) /\ Settles(e, <<>>, u, <<>>)
<1>p. PICK w : w = << a >>
  OBVIOUS
<1>1. a \in Payload /\ a \notin Obj
  BY SharedAssumption DEF Payload
<1>2. w \in Seq(Payload)
  BY <1>1, <1>p
<1>3. u = Joined(e, w)
  BY <1>1, <1>p, AppendIsConcat DEF Joined
<1>4. u \in Seq(Payload)
  BY ONLY <1>2, <1>3, e \in Seq(Payload), CountConcat
<1>5. ASSUME NEW o \in Obj
      PROVE  Count(u, o) + Count(<<>>, o) = Count(e, o) + Count(<<>>, o)
  <2>1. Count(u, o) = Count(e, o) + Count(w, o)
    BY ONLY <1>2, <1>3, e \in Seq(Payload), CountConcat
  <2>2. Count(w, o) = Is(a, o)
    BY <1>1, <1>p, CountShort
  <2>3. Is(a, o) = 0
    BY <1>1 DEF Is
  <2>4. Count(<<>>, o) = 0 /\ Count(e, o) \in Nat
    BY EmptyIs, CountIs
  <2> PICK x, y : x = Count(u, o) /\ y = Count(e, o)
    OBVIOUS
  <2>5. x = y + 0 /\ y \in Nat
    BY <2>1, <2>2, <2>3, <2>4
  <2>6. x + 0 = y + 0
    BY ONLY <2>5
  <2> QED BY <2>4, <2>6
<1> QED BY <1>4, <1>5 DEF Settles

(* A call of jbl_derefer that is no breach frees what only the variable holds. *)
LEMMA DereferOnes ==
  ASSUME SlNow, NEW h \in Holder, Derefer(h), fault' = "none", hold[h] \in Obj
  PROVE  AllOne(hold[h])
<1> SUFFICES ASSUME NEW o \in Freed[hold[h]] PROVE heap[o].cnt = 1
  BY DEF AllOne
<1>1. o \in Obj /\ IsRef(o)
  BY FreedRefs
<1>2. heap[o].cnt > 0 /\ heap[o].cnt \in Nat
  BY <1>1 DEF SlNow, SlGood, Typed, Heaps, Object, Living, IsRef
<1>3. ~ (heap[o].cnt > 1)
  BY DEF Derefer, Noted
<1> QED BY <1>2, <1>3

(* jbl_ll_add to a list that is a payload of the variable's own list: it is   *)
(* changed in place, or its copy is put in its place first.                   *)
LEMMA AddInsideIs ==
  ASSUME SlNow, todo = <<>>, NEW h \in Holder, NEW k \in Nat, NEW a \in Atom,
         AddInside(h, k, a)
  PROVE  SlNow'
<1>p. PICK t, e, p, at, x : /\ t = hold[h] /\ e = heap[t].elems /\ p = e[k]
                            /\ at = [y \in {h} |-> p] /\ x = Extend(heap, at, h)
  OBVIOUS
<1>g. SlGood(heap, hold, <<>>)
  BY DEF SlNow
<1>0. /\ heap \in Heaps /\ Shaped(heap) /\ Living(heap) /\ Ranked(heap)
      /\ hold \in [Holder -> Obj \cup {NULL}] /\ <<>> \in Seq(Payload)
  BY <1>g DEF SlGood, Typed
<1>1. t # NULL
  <2>1. CASE t = NULL
    <3>1. Elems(h) = <<>>
      BY <1>p, <2>1 DEF Elems
    <3>2. k \in DOMAIN Elems(h)
      BY DEF AddInside
    <3> QED BY <3>1, <3>2
  <2> QED BY <2>1
<1>2. t \in Obj /\ heap[t].kind # "unused" /\ ~ IsRef(t)
  <2>1. t \in Obj /\ ~ IsRef(t)
    BY <1>0, <1>1, <1>p DEF AddInside
  <2> QED BY <1>g, <1>p, <2>1, OwnedLives
<1>3. Elems(h) = e
  BY <1>1, <1>2, <1>p, PullIs DEF Elems
<1>4. /\ Room(1) /\ k \in DOMAIN e /\ p \in Obj /\ ~ IsRef(p)
  BY <1>3, <1>p DEF AddInside
<1>5. e \in Seq(Payload) /\ k \in 1 .. Len(e)
  BY <1>0, <1>2, <1>4, <1>p DEF Heaps, Object
<1>6. Leads(heap, t, p) /\ heap[p].kind = "list" /\ heap[t].kind = "list"
  <2>1. p \in Range(e)
    BY <1>4, <1>p DEF Range
  <2>2. Leads(heap, t, p)
    BY <1>0, <1>2, <1>p, <2>1, InRange DEF Leads
  <2>3. heap[p].kind # "unused"
    BY <1>g, <1>2, <1>4, <2>2, OwnedLives
  <2>4. heap[p].kind \in {"unused", "list", "ref"} /\ heap[t].kind \in {"unused", "list", "ref"}
    BY <1>0, <1>2, <1>4 DEF Heaps, Object
  <2> QED BY <1>2, <1>4, <2>2, <2>3, <2>4 DEF IsRef
<1>7. PICK r, b : Ranks(heap, r, b)
  BY <1>0 DEF Ranked
<1>8. r[p] < r[t] /\ r \in [Obj -> Nat] /\ p # t
  BY <1>2, <1>4, <1>6, <1>7 DEF Ranks
<1>9. /\ heap' = [x.heap EXCEPT ![x.thi].elems = Append(@, a), ![t].elems[k] = x.hold[h]]
      /\ hold' = hold /\ todo' = <<>>
  BY <1>3, <1>p DEF AddInside
<1>10. at[h] = p /\ Pull[p] = p /\ Father[p] = NULL /\ p # NULL
  BY <1>0, <1>4, <1>p, PullStep, FatherStep, NullIs
<1>11. CASE heap[p].cnt <= 1
  <2>1. x = [heap |-> heap, hold |-> at, thi |-> p]
    BY <1>10, <1>11, <1>p DEF Extend
  <2>2. PICK f, u : f = heap[p].elems /\ u = Append(f, a)
    OBVIOUS
  <2>3. f \in Seq(Payload) /\ u \in Seq(Payload) /\ Settles(f, <<>>, u, <<>>)
    <3>1. f \in Seq(Payload)
      BY <1>0, <1>4, <2>2 DEF Heaps, Object
    <3> QED BY <2>2, <3>1, AppendIs
  <2>4. PICK hp2 : hp2 = EditAt(heap, <<>>, p, u)
    OBVIOUS
  <2>5. SlGood(hp2, hold, <<>>)
    <3>1. Lower(heap, <<>>, p, r)
      BY EmptyIs DEF Lower
    <3>2. Settles(heap[p].elems, <<>>, u, <<>>)
      BY <2>2, <2>3
    <3> QED BY <1>g, <1>0, <1>4, <1>6, <1>7, <2>3, <2>4, <3>1, <3>2, EditIs
  <2>6. heap' = hp2
    <3>1. heap = PlusAll(heap, <<>>)
      BY <1>0, <1>4, PlusIs DEF Payload
    <3>2. hp2 = [heap EXCEPT ![p].elems = u]
      BY <2>4, <3>1 DEF EditAt
    <3>3. heap' = [[heap EXCEPT ![p].elems = u] EXCEPT ![t].elems[k] = p]
      BY <1>9, <1>10, <2>1, <2>2
    <3>4. hp2[t] = heap[t] /\ hp2 = [o \in Obj |-> hp2[o]]
      BY <1>0, <1>2, <1>8, <3>2 DEF Heaps
    <3>5. heap' = [hp2 EXCEPT ![t] = [hp2[t] EXCEPT !.elems = [hp2[t].elems EXCEPT ![k] = p]]]
      BY <3>2, <3>3
    <3>6. [e EXCEPT ![k] = p] = e
      BY <1>4, <1>5, <1>p
    <3>7. [heap[t] EXCEPT !.elems = e] = heap[t]
      BY <1>0, <1>2, <1>p DEF Heaps, Object
    <3>8. [hp2[t].elems EXCEPT ![k] = p] = e
      BY <1>p, <3>4, <3>6
    <3>q. PICK c : c = [hp2[t] EXCEPT !.elems = [hp2[t].elems EXCEPT ![k] = p]]
      OBVIOUS
    <3>9. c = [heap[t] EXCEPT !.elems = e]
      BY <3>4, <3>8, <3>q
    <3>10. heap' = [hp2 EXCEPT ![t] = c] /\ c = hp2[t]
      BY <3>4, <3>5, <3>7, <3>9, <3>q
    <3> QED BY <3>4, <3>10
  <2> QED BY <1>9, <2>5, <2>6 DEF SlNow
<1>12. CASE ~ (heap[p].cnt <= 1)
  <2>p. PICK z, m : z = Fresh(heap) /\ m = CopyAt(heap, p, z)
    OBVIOUS
  <2>1. z \in Obj /\ heap[z].kind = "unused" /\ z # p /\ z # t
    <3>1. z \in Obj /\ heap[z].kind = "unused"
      BY <1>0, <1>4, <2>p, FreshIs DEF Room
    <3> QED BY <1>6, <3>1
  <2>2. x = [heap |-> m, hold |-> [at EXCEPT ![h] = z], thi |-> z]
    BY <1>10, <1>12, <1>p, <2>p DEF Extend, CopyAt
  <2>3. /\ m \in Heaps /\ Shaped(m) /\ Living(m)
        /\ m[z] = ListOf(heap[p].elems)
        /\ \A o \in Obj : o # z => /\ m[o].kind = heap[o].kind /\ m[o].ptr = heap[o].ptr
                                   /\ m[o].elems = heap[o].elems
        /\ Owed(m, hold, z, p)
        /\ \E s : Ranks(m, s, b) /\ s[z] = r[p] /\ \A o \in Obj : o # z => s[o] = r[o]
    <3>1. heap[p].cnt > 1
      BY <1>0, <1>4, <1>12 DEF Heaps, Object
    <3>2. Copied(heap, hold, m, p, z, r, b)
      BY <1>g, <1>4, <1>6, <1>7, <2>1, <2>p, <3>1, CopiedIs
    <3> QED BY <3>2 DEF Copied
  <2>4. PICK s : Ranks(m, s, b) /\ s[z] = r[p] /\ \A o \in Obj : o # z => s[o] = r[o]
    BY <2>3
  <2>5. /\ m[z].kind = "list" /\ m[z].ptr = NULL /\ m[z].elems = heap[p].elems
        /\ m[t].kind = "list" /\ m[t].elems = e /\ m[t].ptr = NULL
    <3>1. m[t].kind = "list" /\ m[t].elems = e
      BY <1>2, <1>6, <1>p, <2>1, <2>3
    <3>2. m[t].ptr = NULL
      BY <1>2, <2>3, <3>1 DEF Shaped
    <3> QED BY <2>3, <3>1, <3>2 DEF ListOf
  <2>6. PICK v, n : v = Put(e, k, z) /\ n = [m EXCEPT ![t] = [m[t] EXCEPT !.elems = v]]
    OBVIOUS
  <2>7. z \in Payload /\ v \in Seq(Payload)
    <3>1. z \in Payload
      BY <2>1 DEF Payload
    <3> QED BY <1>5, <2>6, <3>1, CountReplace
  <2>8. /\ n \in Heaps
        /\ n[t].kind = "list" /\ n[t].elems = v /\ n[t].ptr = NULL /\ n[t].cnt = m[t].cnt
        /\ \A o \in Obj : o # t => n[o] = m[o]
    <3>1. m[t] \in Object /\ [m[t] EXCEPT !.elems = v] \in Object
      BY <1>2, <2>3, <2>7 DEF Heaps, Object
    <3>2. /\ n \in Heaps /\ n[t] = [m[t] EXCEPT !.elems = v]
          /\ \A o \in Obj : o # t => n[o] = m[o]
      BY <1>2, <2>3, <2>6, <3>1 DEF Heaps
    <3> QED BY <2>5, <3>1, <3>2 DEF Object
  <2>9. Shaped(n)
    <3> SUFFICES ASSUME NEW o \in Obj
                 PROVE  /\ n[o].kind = "ref" => n[o].ptr \in Obj /\ n[o].elems = <<>>
                        /\ n[o].kind # "ref" => n[o].ptr = NULL
                        /\ n[o].kind = "unused" => n[o].elems = <<>>
      BY DEF Shaped
    <3>1. CASE o = t
      BY <2>8, <3>1
    <3>2. CASE o # t
      <4>1. n[o] = m[o]
        BY <2>8, <3>2
      <4> QED BY <2>3, <4>1 DEF Shaped
    <3> QED BY <3>1, <3>2
  <2>10. /\ \A o \in Obj : n[o].cnt = m[o].cnt /\ n[o].kind = m[o].kind
         /\ Living(n)
    <3>1. \A o \in Obj : n[o].cnt = m[o].cnt /\ n[o].kind = m[o].kind
      BY <2>5, <2>8
    <3> QED BY <2>3, <3>1 DEF Living
  <2>11. ASSUME NEW o \in Obj PROVE Count(v, o) + Is(p, o) = Count(e, o) + Is(z, o)
    <3>0. e \in Seq(Payload) /\ k \in 1 .. Len(e) /\ z \in Payload /\ v = Put(e, k, z)
      BY <1>5, <2>6, <2>7
    <3>1. Count(v, o) + Is(e[k], o) = Count(e, o) + Is(z, o)
      BY ONLY <3>0, CountReplace
    <3> QED BY <1>p, <3>1
  <2>12. Exact(n, hold, <<>>)
    <3>1. OnlyAt(m, n, t)
      BY <2>8 DEF OnlyAt
    <3>2. ASSUME NEW o \in Obj
          PROVE  Is(n[t].ptr, o) + Count(n[t].elems, o) + Is(p, o)
                 = Is(m[t].ptr, o) + Count(m[t].elems, o) + Is(z, o)
      <4>p. PICK i, j, c, d : /\ i = Is(z, o) /\ j = Is(p, o)
                              /\ c = Count(v, o) /\ d = Count(e, o)
        OBVIOUS
      <4>1. /\ i \in Nat /\ j \in Nat /\ c \in Nat /\ d \in Nat /\ c + j = d + i
        BY <1>5, <2>7, <2>11, <4>p, CountIs DEF Is
      <4>2. 0 + c + j = 0 + d + i
        BY ONLY <4>1
      <4>3. Is(n[t].ptr, o) = 0 /\ Is(m[t].ptr, o) = 0
        BY <2>5, <2>8, EmptyIs
      <4>4. Count(n[t].elems, o) = c /\ Count(m[t].elems, o) = d
        BY <2>5, <2>8, <4>p
      <4> QED BY <4>2, <4>3, <4>4, <4>p
    <3>3. Handed(m, n, hold, hold, p, z)
      BY <1>2, <3>1, <3>2 DEF Handed
    <3> QED BY <1>4, <2>1, <2>3, <2>8, <2>9, <2>10, <3>3, SentIs
  <2>13. Ranks(n, s, b)
    <3>1. s[z] < s[t]
      BY <1>2, <1>8, <2>1, <2>4
    <3>2. ASSUME NEW q \in Obj, NEW o \in Obj, Leads(n, q, o) PROVE s[o] < s[q]
      <4>1. CASE q = t /\ o = z
        BY <3>1, <4>1
      <4>2. CASE q = t /\ o # z
        <5>0. n[q].ptr # o
          BY <2>8, <4>2, NullIs
        <5>1. Count(v, o) # 0
          BY <2>8, <3>2, <4>2, <5>0 DEF Leads
        <5>2. Is(z, o) = 0
          BY <4>2 DEF Is
        <5>p. PICK c, d, j : c = Count(v, o) /\ d = Count(e, o) /\ j = Is(p, o)
          OBVIOUS
        <5>3. c + j = d + 0 /\ c \in Nat /\ d \in Nat /\ j \in Nat /\ c # 0
          BY <1>5, <2>7, <2>11, <5>1, <5>2, <5>p, CountIs DEF Is
        <5>4. d # 0
          BY ONLY <5>3
        <5>5. Leads(m, q, o)
          BY <2>5, <4>2, <5>4, <5>p DEF Leads
        <5> QED BY <2>4, <5>5 DEF Ranks
      <4>3. CASE q # t
        <5>1. Leads(m, q, o)
          BY <2>8, <3>2, <4>3 DEF Leads
        <5> QED BY <2>4, <5>1 DEF Ranks
      <4> QED BY <4>1, <4>2, <4>3
    <3> QED BY <2>4, <3>2 DEF Ranks
  <2>14. SlGood(n, hold, <<>>)
    BY <1>0, <2>8, <2>9, <2>10, <2>12, <2>13 DEF SlGood, Typed, Ranked
  <2>15. PICK f, u, hp2 : f = n[z].elems /\ u = Append(f, a) /\ hp2 = EditAt(n, <<>>, z, u)
    OBVIOUS
  <2>16. n[z] = m[z] /\ n[z].kind = "list"
    BY <2>1, <2>5, <2>8
  <2>17. f \in Seq(Payload) /\ u \in Seq(Payload) /\ Settles(f, <<>>, u, <<>>)
    <3>1. f \in Seq(Payload)
      BY <2>1, <2>8, <2>15 DEF Heaps, Object
    <3> QED BY <2>15, <3>1, AppendIs
  <2>18. SlGood(hp2, hold, <<>>)
    <3>1. Lower(n, <<>>, z, s)
      BY EmptyIs DEF Lower
    <3>2. Settles(n[z].elems, <<>>, u, <<>>)
      BY <2>15, <2>17
    <3> QED BY <1>0, <2>1, <2>13, <2>14, <2>15, <2>16, <2>17, <3>1, <3>2, EditIs
  <2>19. heap' = hp2
    <3>1. n = PlusAll(n, <<>>)
      BY <2>7, <2>8, PlusIs
    <3>2. hp2 = [n EXCEPT ![z] = [n[z] EXCEPT !.elems = u]]
      BY <2>15, <3>1 DEF EditAt
    <3>3. x.heap = m /\ x.thi = z /\ x.hold[h] = z
      BY <1>p, <2>2
    <3>q. PICK y : y = [m EXCEPT ![z] = [m[z] EXCEPT !.elems = u]]
      OBVIOUS
    <3>4. y[t] = m[t] /\ y = [o \in Obj |-> y[o]]
      BY <1>2, <2>1, <2>3, <3>q DEF Heaps
    <3>5. heap' = [y EXCEPT ![t] = [y[t] EXCEPT !.elems = [y[t].elems EXCEPT ![k] = z]]]
      BY <1>9, <2>15, <2>16, <3>3, <3>q
    <3>6. heap' = [y EXCEPT ![t] = [m[t] EXCEPT !.elems = v]]
      BY <2>5, <2>6, <3>4, <3>5 DEF Put
    <3> QED BY <1>2, <2>1, <2>3, <2>6, <2>16, <3>2, <3>6, <3>q DEF Heaps
  <2> QED BY <1>9, <2>18, <2>19 DEF SlNow
<1> QED BY <1>11, <1>12
-----------------------------------------------------------------------------
(* jbl_derefer: the references between a variable and its list are nobody     *)
(* else's, so they go and the variable owns the list in their place.          *)
LEMMA DereferIs ==
  ASSUME SlNow, todo = <<>>, NEW h \in Holder, Derefer(h), fault' = "none"
  PROVE  SlNow'
<1>p. PICK x, C, f, l : x = hold[h] /\ C = Freed[x] /\ f = Father[x] /\ l = Pull[x]
  OBVIOUS
<1>q. PICK hp2, hd2 : /\ hp2 = [o \in Obj |-> IF o \in C THEN Unused ELSE heap[o]]
                      /\ hd2 = SentTo(hold, h, l)
  OBVIOUS
<1>g. SlGood(heap, hold, <<>>)
  BY DEF SlNow
<1>0. /\ heap \in Heaps /\ Shaped(heap) /\ Living(heap) /\ Ranked(heap)
      /\ hold \in [Holder -> Obj \cup {NULL}] /\ <<>> \in Seq(Payload)
      /\ \A o \in Obj : heap[o].cnt = Owning(heap, hold, <<>>, o)
  BY <1>g DEF SlGood, Typed, Exact
<1>1. /\ x \in Obj /\ IsRef(x) /\ heap[x].kind # "unused"
      /\ \A o \in C : heap[o].cnt = 1
  <2>1. x \in Obj /\ IsRef(x)
    BY <1>0, <1>p DEF Derefer
  <2>2. AllOne(x)
    BY <1>p, <2>1, DereferOnes
  <2> QED BY <1>p, <2>1, <2>2 DEF AllOne, IsRef
<1>2. /\ l \in Obj /\ heap[l].kind = "list" /\ f \in Obj /\ IsRef(f) /\ heap[f].ptr = l
  BY <1>1, <1>p, PullIs
<1>3. /\ x \in C /\ f \in C
      /\ \A q \in C : /\ q \in Obj /\ IsRef(q)
                      /\ q # f => heap[q].ptr \in C
                      /\ q # x => \E c \in C : heap[c].ptr = q
  BY <1>1, <1>p, FreedIs DEF AllOne
<1>4. l \notin C
  BY <1>2, <1>3 DEF IsRef
<1>5. \A q \in C : heap[q].kind = "ref" /\ heap[q].elems = <<>>
  BY <1>0, <1>3 DEF IsRef, Shaped
<1>6. Unused \in Object
  BY <1>1, EmptyIs DEF Unused, Object
<1>7. /\ hp2 \in Heaps
      /\ \A q \in Obj : q \notin C => hp2[q] = heap[q]
      /\ \A q \in Obj : q \in C => /\ hp2[q].kind = "unused" /\ hp2[q].ptr = NULL
                                   /\ hp2[q].elems = <<>> /\ hp2[q].cnt = 0
      /\ \A q \in Obj : hp2[q].elems = heap[q].elems
  <2>1. \A q \in Obj : heap[q] \in Object
    BY <1>0 DEF Heaps
  <2>2. hp2 \in Heaps
    BY <1>6, <1>q, <2>1 DEF Heaps
  <2>3. \A q \in Obj : q \notin C => hp2[q] = heap[q]
    BY <1>q
  <2>4. \A q \in Obj : q \in C => hp2[q] = Unused
    BY <1>q
  <2>5. \A q \in Obj : q \in C => /\ hp2[q].kind = "unused" /\ hp2[q].ptr = NULL
                                  /\ hp2[q].elems = <<>> /\ hp2[q].cnt = 0
    BY <2>4 DEF Unused
  <2>6. \A q \in Obj : hp2[q].elems = heap[q].elems
    BY <1>5, <2>3, <2>5
  <2> QED BY <2>2, <2>3, <2>5, <2>6
<1>8. /\ hd2 \in [Holder -> Obj \cup {NULL}] /\ hd2[h] = l
      /\ \A g \in Holder : g # h => hd2[g] = hold[g]
  BY <1>0, <1>2, <1>q DEF SentTo
<1>9. Shaped(hp2) /\ Living(hp2)
  <2>1. ASSUME NEW o \in Obj
        PROVE  /\ hp2[o].kind = "ref" => hp2[o].ptr \in Obj /\ hp2[o].elems = <<>>
               /\ hp2[o].kind # "ref" => hp2[o].ptr = NULL
               /\ hp2[o].kind = "unused" => hp2[o].elems = <<>>
               /\ hp2[o].kind # "unused" <=> hp2[o].cnt > 0
    <3>1. CASE o \in C
      BY <1>7, <3>1
    <3>2. CASE o \notin C
      <4>1. hp2[o] = heap[o]
        BY <1>7, <3>2
      <4> QED BY <1>0, <4>1 DEF Shaped, Living
    <3> QED BY <3>1, <3>2
  <2> QED BY <2>1 DEF Shaped, Living
<1>10. Ranked(hp2)
  <2>1. PICK r, b : Ranks(heap, r, b)
    BY <1>0 DEF Ranked
  <2>2. ASSUME NEW q \in Obj, NEW o \in Obj, Leads(hp2, q, o) PROVE Leads(heap, q, o)
    <3>1. hp2[q].ptr = o => heap[q].ptr = o
      BY <1>7, NullIs
    <3> QED BY <1>7, <2>2, <3>1 DEF Leads
  <2>3. Ranks(hp2, r, b)
    BY <2>1, <2>2 DEF Ranks
  <2> QED BY <2>3 DEF Ranked
<1>11. Exact(hp2, hd2, <<>>)
  <2> SUFFICES ASSUME NEW o \in Obj PROVE hp2[o].cnt = Owning(hp2, hd2, <<>>, o)
    BY DEF Exact
  <2>p. PICK a, a2, d, d2, e, i, j :
           /\ a = Holding(hold, o) /\ a2 = Holding(hd2, o)
           /\ d = Referring(heap, o) /\ d2 = Referring(hp2, o) /\ e = Listing(heap, o)
           /\ i = Is(x, o) /\ j = Is(l, o)
    OBVIOUS
  <2>1. a \in Nat /\ d \in Nat /\ e \in Nat
    BY <1>0, <2>p, OwningIs
  <2>2. a2 \in Nat /\ d2 \in Nat /\ i \in Nat /\ j \in Nat
    BY <1>0, <1>7, <2>p, OwningIs DEF Is
  <2>3. Listing(hp2, o) = e
    <3>1. \A q \in Obj : Within(hp2, q, o) = Within(heap, q, o)
      BY <1>7 DEF Within
    <3> QED BY <2>p, <3>1 DEF Listing, Places
  <2>4. a2 + i = a + j
    <3>0. \A g \in Holder : g # h => hd2[g] = hold[g]
      BY <1>8
    <3>1. Holding(hd2, o) + Is(hold[h], o) = Holding(hold, o) + Is(hd2[h], o)
      BY ONLY <3>0, h \in Holder, HoldingChange
    <3> QED BY <1>8, <1>p, <2>p, <3>1
  <2>5. heap[o].cnt = a + 0 + d + e
    BY <1>0, <2>p, EmptyIs DEF Owning
  <2>6. Owning(hp2, hd2, <<>>, o) = a2 + 0 + d2 + e
    BY <2>3, <2>p, EmptyIs DEF Owning
  <2>7. CASE o \notin C
    <3>1. i = 0
      BY <1>3, <2>7, <2>p DEF Is
    <3>2. d2 + j = d
      <4>p. PICK D, u, v, c : D = Obj /\ u = Ptrs(heap) /\ v = Ptrs(hp2) /\ c = f
        OBVIOUS
      <4>1. u[f] = l /\ v[f] = NULL
        BY <1>2, <1>3, <1>7, <4>p DEF Ptrs
      <4>2. ASSUME NEW q \in Obj, q # f PROVE u[q] = o <=> v[q] = o
        <5>1. u[q] = heap[q].ptr /\ v[q] = hp2[q].ptr
          BY <4>p DEF Ptrs
        <5>2. CASE q \in C
          BY <1>3, <1>7, <2>7, <4>2, <5>1, <5>2, NullIs
        <5>3. CASE q \notin C
          BY <1>7, <5>1, <5>3
        <5> QED BY <5>2, <5>3
      <4>q. PICK w : w = [u EXCEPT ![c] = NULL]
        OBVIOUS
      <4>3. /\ IsFiniteSet(D) /\ c \in D /\ w[c] = NULL
            /\ \A q \in D : q # c => w[q] = u[q]
        BY <1>2, <4>p, <4>q, SharedAssumption DEF Ptrs
      <4>6. \A q \in D : q # c => (u[q] = o <=> w[q] = o)
        BY <4>3
      <4>7. Hits(D, w, o) + Is(u[c], o) = Hits(D, u, o) + Is(w[c], o)
        BY ONLY <4>3, <4>6, OneChange
      <4>8. Hits(D, w, o) = Hits(D, v, o)
        <5>1. \A q \in D : w[q] = o <=> v[q] = o
          BY <4>1, <4>2, <4>3, <4>p
        <5> QED BY <5>1 DEF Hits
      <4>4. Hits(D, v, o) + Is(u[c], o) = Hits(D, u, o) + Is(v[c], o)
        BY <4>1, <4>3, <4>7, <4>8, <4>p
      <4>5. d2 + Is(l, o) = d + Is(NULL, o)
        BY <2>p, <4>1, <4>4, <4>p DEF Referring
      <4>9. d2 + j = d + 0
        BY <2>p, <4>5, EmptyIs
      <4> QED BY ONLY <2>1, <4>9
    <3>3. a + 0 + d + e = a2 + 0 + d2 + e
      BY ONLY <2>1, <2>2, <2>4, <3>1, <3>2
    <3>4. hp2[o].cnt = heap[o].cnt
      BY <1>7, <2>7
    <3> QED BY <2>5, <2>6, <3>3, <3>4
  <2>8. CASE o \in C
    <3>0. j = 0
      BY <1>4, <2>8, <2>p DEF Is
    <3>1. a + 0 + d + e = 1
      BY <1>1, <2>5, <2>8
    <3>2. CASE o = x
      <4>1. i = 1
        BY <2>p, <3>2 DEF Is
      <4>2. a2 = 0 /\ d = 0 /\ e = 0
        BY ONLY <2>1, <2>2, <2>4, <3>0, <3>1, <4>1
      <4>3. \A q \in Obj : Ptrs(heap)[q] # o
        BY <2>p, <4>2, HitsIs, SharedAssumption DEF Referring
      <4>4. \A q \in Obj : Ptrs(hp2)[q] # o
        BY <1>7, <4>3, NullIs DEF Ptrs
      <4>5. d2 = 0
        BY <2>p, <4>4, HitsIs, SharedAssumption DEF Referring
      <4>6. a2 + 0 + d2 + e = 0
        BY ONLY <4>2, <4>5
      <4> QED BY <1>7, <2>6, <2>8, <4>6
    <3>3. CASE o # x
      <4>1. PICK c \in C : heap[c].ptr = o
        BY <1>3, <2>8, <3>3
      <4>2. i = 0 /\ c \in Obj
        BY <1>3, <2>p, <3>3, <4>1 DEF Is
      <4>p. PICK D, u, v, k : /\ D = Obj /\ u = Ptrs(heap) /\ v = [u EXCEPT ![c] = NULL]
                              /\ k = Hits(D, v, o)
        OBVIOUS
      <4>3. /\ u[c] = o /\ v[c] = NULL /\ \A q \in Obj : q # c => v[q] = u[q]
            /\ \A q \in Obj : u[q] = heap[q].ptr
        BY <4>1, <4>2, <4>p DEF Ptrs
      <4>4. IsFiniteSet(D) /\ c \in D /\ \A q \in D : q # c => (u[q] = o <=> v[q] = o)
        BY <4>2, <4>3, <4>p, SharedAssumption
      <4>5. Hits(D, v, o) + Is(u[c], o) = Hits(D, u, o) + Is(v[c], o)
        BY ONLY <4>4, OneChange
      <4>6. k + 1 = d + 0 /\ k \in Nat
        <5>1. Is(u[c], o) = 1 /\ Is(v[c], o) = 0
          BY <4>3, EmptyIs DEF Is
        <5>2. k \in Nat
          BY <4>4, <4>p, HitsIs
        <5> QED BY <2>p, <4>5, <4>p, <5>1, <5>2 DEF Referring
      <4>7. k = 0 /\ a2 = 0 /\ e = 0
        BY ONLY <2>1, <2>2, <2>4, <3>0, <3>1, <4>2, <4>6
      <4>8. \A q \in D : v[q] # o
        <5>1. Hits(D, v, o) = 0 /\ IsFiniteSet(D)
          BY <4>4, <4>7, <4>p
        <5> QED BY ONLY <5>1, HitsIs
      <4>9. \A q \in Obj : Ptrs(hp2)[q] # o
        BY <1>7, <4>3, <4>8, <4>p, NullIs DEF Ptrs
      <4>10. d2 = 0
        BY <2>p, <4>9, HitsIs, SharedAssumption DEF Referring
      <4>11. a2 + 0 + d2 + e = 0
        BY ONLY <4>7, <4>10
      <4> QED BY <1>7, <2>6, <2>8, <4>11
    <3> QED BY <3>2, <3>3
  <2> QED BY <2>7, <2>8
<1>12. SlGood(hp2, hd2, <<>>)
  BY <1>0, <1>7, <1>8, <1>9, <1>10, <1>11 DEF SlGood, Typed
<1>13. heap' = hp2 /\ hold' = hd2 /\ todo' = <<>>
  BY <1>p, <1>q DEF Derefer, SentTo
<1> QED BY <1>12, <1>13 DEF SlNow
-----------------------------------------------------------------------------
(* What nothing owns has no owners to count.                                  *)
LEMMA UnownedIs ==
  ASSUME NEW hp \in Heaps, NEW hd, NEW td \in Seq(Payload), NEW o, Unowned(hp, hd, td, o)
  PROVE  Owning(hp, hd, td, o) = 0
<1>1. Holding(hd, o) = 0
  BY HitsIs, SharedAssumption DEF Holding, Unowned
<1>2. Referring(hp, o) = 0
  <2>1. \A q \in Obj : Ptrs(hp)[q] # o
    BY DEF Ptrs, Unowned
  <2> QED BY <2>1, HitsIs, SharedAssumption DEF Referring
<1>3. Listing(hp, o) = 0
  BY ListingIs DEF Unowned
<1>4. Count(td, o) = 0
  BY DEF Unowned
<1>5. 0 + 0 + 0 + 0 = 0
  OBVIOUS
<1> QED BY ONLY <1>1, <1>2, <1>3, <1>4, <1>5 DEF Owning

(* In the beginning no memory is in use.                                      *)
LEMMA SlInit == Init => SlNow
<1> SUFFICES ASSUME Init PROVE SlNow
  OBVIOUS
<1>0. heap = [o \in Obj |-> Unused] /\ hold = [h \in Holder |-> NULL] /\ todo = <<>>
  BY DEF Init
<1>1. <<>> \in Seq(Payload)
  OBVIOUS
<1>2. Unused \in Object
  BY <1>1 DEF Unused, Object
<1>3. Typed(heap, hold, todo)
  BY <1>0, <1>1, <1>2 DEF Typed, Heaps
<1>4. \A o \in Obj : /\ heap[o].kind = "unused" /\ heap[o].cnt = 0 /\ heap[o].ptr = NULL
                     /\ heap[o].elems = <<>>
  BY <1>0 DEF Unused
<1>5. Shaped(heap) /\ Living(heap)
  BY <1>4 DEF Shaped, Living
<1>6. Exact(heap, hold, todo)
  <2> SUFFICES ASSUME NEW o \in Obj PROVE heap[o].cnt = Owning(heap, hold, todo, o)
    BY DEF Exact
  <2>1. Unowned(heap, hold, todo, o)
    BY <1>0, <1>4, EmptyIs, NullIs DEF Unowned
  <2> QED BY <1>3, <1>4, <2>1, UnownedIs DEF Typed
<1>7. Ranked(heap)
  <2>p. PICK r : r = [o \in Obj |-> 0]
    OBVIOUS
  <2>1. \A q, o \in Obj : ~ Leads(heap, q, o)
    BY <1>4, EmptyIs, NullIs DEF Leads
  <2>2. r \in [Obj -> Nat] /\ \A q \in Obj : r[q] <= 0
    BY <2>p
  <2>3. Ranks(heap, r, 0)
    BY <2>1, <2>2 DEF Ranks
  <2> QED BY <2>3 DEF Ranked
<1> QED BY <1>3, <1>5, <1>6, <1>7 DEF SlNow, SlGood

(* Every call and every step of a free keeps the invariant, or is a breach.   *)
LEMMA SlNext == SlNow /\ [Next]_vars /\ fault' = "none" => SlNow'
<1> SUFFICES ASSUME SlNow, [Next]_vars, fault' = "none" PROVE SlNow'
  OBVIOUS
<1>1. CASE todo = <<>> /\ Call
  <2>0. MaxLen \in Nat /\ todo = <<>>
    BY <1>1, SharedAssumption
  <2>1. ASSUME NEW h \in Holder, New(h) \/ Free(h) \/ Derefer(h) PROVE SlNow'
    BY <2>0, <2>1, NewIs, FreeIs, DereferIs
  <2>2. ASSUME NEW h \in Holder, NEW g \in Holder, Copy(h, g) \/ Refer(h, g) \/ Merge(h, g)
        PROVE  SlNow'
    BY <2>0, <2>2, CopyIs, ReferIs, MergeIs
  <2>3. ASSUME NEW h \in Holder, NEW k \in 0 .. MaxLen,
               \/ \E a \in Atom : InsertAtom(h, a, k) \/ (k > 0 /\ AddInside(h, k, a))
               \/ \E g \in Holder : InsertHeld(h, g, k)
               \/ Delete(h, k)
               \/ \E j \in 1 .. MaxLen : Swap(h, j, k)
        PROVE  SlNow'
    <3>0. k \in Nat /\ \A j \in 1 .. MaxLen : j \in Nat
      BY <2>0
    <3>1. ASSUME NEW a \in Atom, InsertAtom(h, a, k) PROVE SlNow'
      BY <2>0, <3>0, <3>1, InsertAtomIs
    <3>2. ASSUME NEW a \in Atom, AddInside(h, k, a) PROVE SlNow'
      BY <2>0, <3>0, <3>2, AddInsideIs
    <3>3. ASSUME NEW g \in Holder, InsertHeld(h, g, k) PROVE SlNow'
      BY <2>0, <3>0, <3>3, InsertHeldIs
    <3>4. ASSUME Delete(h, k) PROVE SlNow'
      BY <2>0, <3>0, <3>4, DeleteIs
    <3>5. ASSUME NEW j \in 1 .. MaxLen, Swap(h, j, k) PROVE SlNow'
      BY <2>0, <3>0, <3>5, SwapIs
    <3> QED BY <2>3, <3>1, <3>2, <3>3, <3>4, <3>5
  <2> QED BY <1>1, <2>1, <2>2, <2>3 DEF Call
<1>2. CASE FreeStep
  BY <1>2, FreeStepIs
<1>3. CASE UNCHANGED vars
  BY <1>3 DEF vars, SlNow
<1> QED BY <1>1, <1>2, <1>3 DEF Next

(* After a breach the model ends.                                             *)
LEMMA NextUnbroken == Next => fault = "none"
<1> SUFFICES ASSUME Next PROVE fault = "none"
  OBVIOUS
<1>1. ASSUME NEW h \in Holder, New(h) \/ Free(h) \/ Derefer(h) PROVE fault = "none"
  BY <1>1 DEF New, Free, Derefer, Unbroken, Noted
<1>2. ASSUME NEW h \in Holder, NEW g \in Holder, Copy(h, g) \/ Refer(h, g)
      PROVE  fault = "none"
  BY <1>2 DEF Copy, Refer, Unbroken
<1>3. ASSUME NEW h \in Holder, NEW g \in Holder, Merge(h, g) PROVE fault = "none"
  BY <1>3 DEF Merge, Noted
<1>4. ASSUME NEW h \in Holder, NEW k \in 0 .. MaxLen,
             \/ \E a \in Atom : InsertAtom(h, a, k) \/ (k > 0 /\ AddInside(h, k, a))
             \/ \E g \in Holder : InsertHeld(h, g, k)
             \/ Delete(h, k)
             \/ \E j \in 1 .. MaxLen : Swap(h, j, k)
      PROVE  fault = "none"
  <2>1. ASSUME NEW a \in Atom, InsertAtom(h, a, k) PROVE fault = "none"
    BY <2>1 DEF InsertAtom, Unbroken
  <2>2. ASSUME NEW a \in Atom, AddInside(h, k, a) PROVE fault = "none"
    BY <2>2 DEF AddInside, Unbroken
  <2>3. ASSUME NEW g \in Holder, InsertHeld(h, g, k) PROVE fault = "none"
    BY <2>3 DEF InsertHeld, Noted
  <2>4. ASSUME Delete(h, k) PROVE fault = "none"
    BY <2>4 DEF Delete, Unbroken
  <2>5. ASSUME NEW j \in 1 .. MaxLen, Swap(h, j, k) PROVE fault = "none"
    BY <2>5 DEF Swap, Unbroken
  <2> QED BY <1>4, <2>1, <2>2, <2>3, <2>4, <2>5
<1>5. CASE FreeStep
  BY <1>5 DEF FreeStep, Unbroken
<1> QED BY <1>1, <1>2, <1>3, <1>4, <1>5 DEF Next, Call

(* The invariant before a step, unless the step begins behind a breach.       *)
LEMMA BeforeStep == SlInv /\ [Next]_vars /\ fault' = "none" => SlNow
<1> SUFFICES ASSUME SlInv, [Next]_vars, fault' = "none" PROVE SlNow
  OBVIOUS
<1>1. fault = "none"
  BY NextUnbroken DEF vars
<1> QED BY <1>1 DEF SlInv

(* Of shared lists the owners of every object are counted, and nothing leads  *)
(* to itself, whatever the program calls (jbl_gc.c, jbl_ll.c), until          *)
(* jbl_derefer passes a reference that others hold, or a list is put into     *)
(* itself or merged into itself.                                              *)
THEOREM SharedListsStayGood == Spec => []SlInv
<1>1. Init => SlInv
  BY SlInit DEF SlInv
<1>2. SlInv /\ [Next]_vars => SlInv'
  BY BeforeStep, SlNext DEF SlInv
<1> QED BY <1>1, <1>2, PTL DEF Spec

(* What is counted is what the model's owners are.                            *)
LEMMA CountsAre == SlInv => CountsExact
<1> SUFFICES ASSUME SlNow, NEW o \in Obj
             PROVE  heap[o].cnt = Owners(o) /\ (o \in Alive(heap) <=> heap[o].cnt > 0)
  BY DEF CountsExact, SlInv
<1>1. heap[o].cnt = Owning(heap, hold, todo, o)
  BY DEF SlNow, SlGood, Exact
<1>2. o \in Alive(heap) <=> heap[o].cnt > 0
  BY DEF SlNow, SlGood, Living, Alive
<1>3. Holding(hold, o) = Cardinality({h \in Holder : hold[h] = o})
  BY DEF Holding, Hits
<1>4. Referring(heap, o) = Cardinality({q \in Obj : heap[q].ptr = o})
  <2>1. {q \in Obj : Ptrs(heap)[q] = o} = {q \in Obj : heap[q].ptr = o}
    BY DEF Ptrs
  <2> QED BY <2>1 DEF Referring, Hits
<1>5. Listing(heap, o)
      = Cardinality(UNION {{q} \X {i \in DOMAIN heap[q].elems : heap[q].elems[i] = o} : q \in Obj})
  BY DEF Listing, Places, Within, Where
<1> QED BY <1>1, <1>2, <1>3, <1>4, <1>5 DEF Owners, Owning

(* jbl_gc_plus and jbl_gc_minus balance: the count of an object in use is the *)
(* number of its owners, until one of the three breaches.                     *)
THEOREM CountsStayExact == Spec => []CountsExact
<1>1. SlInv => CountsExact
  BY CountsAre
<1> QED BY <1>1, SharedListsStayGood, PTL
-----------------------------------------------------------------------------
(* An object leads to itself, to what it leads to in one step, and on.        *)
LEMMA BelowIs ==
  ASSUME heap \in Heaps, Shaped(heap), Ranked(heap), NEW x \in Obj
  PROVE  /\ x \in Below[x]
         /\ \A p \in Obj : Leads(heap, x, p) => Below[p] \subseteq Below[x]
         /\ \A q \in Below[x] : q = x \/ \E p \in Obj : Leads(heap, x, p) /\ q \in Below[p]
<1>1. CASE IsRef(x)
  <2>1. Below[x] = {x} \cup Below[heap[x].ptr]
    BY <1>1, BelowStep
  <2>2. heap[x].ptr \in Obj /\ \A p \in Obj : Leads(heap, x, p) <=> p = heap[x].ptr
    BY <1>1, LeadsIs DEF Shaped, IsRef
  <2> QED BY <2>1, <2>2
<1>2. CASE ~ IsRef(x)
  <2>1. Below[x] = {x} \cup UNION {Below[q] : q \in Obj \cap Range(heap[x].elems)}
    BY <1>2, BelowStep
  <2>2. \A p \in Obj : Leads(heap, x, p) <=> p \in Range(heap[x].elems)
    BY <1>2, LeadsIs
  <2> QED BY <2>1, <2>2
<1> QED BY <1>1, <1>2

(* What an object in use leads to is in use, and leads on.                    *)
LEMMA BelowKept ==
  ASSUME SlNow, NEW x \in Obj, heap[x].kind # "unused"
  PROVE  /\ Below[x] \subseteq Alive(heap)
         /\ \A q \in Below[x] : \A p \in Obj : Leads(heap, q, p) => p \in Below[x]
<1>0. heap \in Heaps /\ Shaped(heap) /\ Ranked(heap)
  BY DEF SlNow, SlGood, Typed
<1>1. PICK r, b : Ranks(heap, r, b)
  BY <1>0 DEF Ranked
<1>2. r \in [Obj -> Nat]
  BY <1>1 DEF Ranks
<1> DEFINE Fine(y) == /\ Below[y] \subseteq Alive(heap)
                      /\ \A q \in Below[y] : \A p \in Obj : Leads(heap, q, p) => p \in Below[y]
           Bad == {y \in Obj : heap[y].kind # "unused" /\ ~ Fine(y)}
<1>3. Bad = {}
  <2> SUFFICES ASSUME Bad # {} PROVE FALSE
    OBVIOUS
  <2>1. Bad \in SUBSET Obj
    OBVIOUS
  <2>2. PICK y \in Bad : \A z \in Bad : r[y] <= r[z]
    BY ONLY <1>2, <2>1, Bad # {}, LeastRank
  <2>3. y \in Obj /\ heap[y].kind # "unused" /\ ~ Fine(y)
    BY <2>2
  <2>4. ASSUME NEW p \in Obj, Leads(heap, y, p) PROVE Fine(p)
    <3>1. r[p] < r[y]
      BY <1>1, <2>3, <2>4 DEF Ranks
    <3>2. heap[p].kind # "unused"
      BY <2>3, <2>4, OwnedLives DEF SlNow
    <3>3. p \notin Bad
      BY <1>2, <2>2, <2>3, <3>1
    <3> QED BY <3>2, <3>3
  <2>5. /\ y \in Below[y]
        /\ \A p \in Obj : Leads(heap, y, p) => Below[p] \subseteq Below[y]
        /\ \A q \in Below[y] : q = y \/ \E p \in Obj : Leads(heap, y, p) /\ q \in Below[p]
    BY <1>0, <2>3, BelowIs
  <2>6. \A p \in Obj : p \in Below[p]
    BY <1>0, BelowIs
  <2>7. Below[y] \subseteq Alive(heap)
    BY <2>3, <2>4, <2>5 DEF Alive
  <2>8. \A q \in Below[y] : \A p \in Obj : Leads(heap, q, p) => p \in Below[y]
    BY <2>4, <2>5, <2>6
  <2> QED BY <2>3, <2>7, <2>8
<1> QED BY <1>3

(* What is in use is owned, by a variable, by a free under way or by what is  *)
(* in use and of higher rank.                                                 *)
LEMMA OwnerIs ==
  ASSUME SlNow, NEW x \in Obj, heap[x].kind # "unused"
  PROVE  \/ x \in Range(hold) \cup Range(todo)
         \/ \E q \in Obj : Leads(heap, q, x) /\ heap[q].kind # "unused"
<1>0. /\ heap \in Heaps /\ Shaped(heap) /\ Living(heap) /\ todo \in Seq(Payload)
      /\ hold \in [Holder -> Obj \cup {NULL}]
      /\ heap[x].cnt = Owning(heap, hold, todo, x)
  BY DEF SlNow, SlGood, Typed, Exact
<1>1. heap[x].cnt > 0
  BY <1>0 DEF Living
<1>2. ~ Unowned(heap, hold, todo, x)
  <2>1. Owning(heap, hold, todo, x) # 0
    BY <1>0, <1>1
  <2> QED BY <1>0, <2>1, UnownedIs
<1>3. CASE \E h \in Holder : hold[h] = x
  BY <1>0, <1>3 DEF Range
<1>4. CASE Count(todo, x) # 0
  <2>1. \E i \in 1 .. Len(todo) : todo[i] = x
    BY <1>0, <1>4, CountIs
  <2> QED BY <1>0, <2>1 DEF Range
<1>5. CASE \E q \in Obj : heap[q].ptr = x \/ Count(heap[q].elems, x) # 0
  <2>1. PICK q \in Obj : Leads(heap, q, x)
    BY <1>5 DEF Leads
  <2>2. heap[q].kind # "unused"
    <3> SUFFICES ASSUME heap[q].kind = "unused" PROVE FALSE
      OBVIOUS
    <3>1. heap[q].ptr = NULL /\ heap[q].elems = <<>>
      BY <1>0 DEF Shaped
    <3> QED BY <2>1, <3>1, EmptyIs, NullIs DEF Leads
  <2> QED BY <2>1, <2>2
<1> QED BY <1>2, <1>3, <1>4, <1>5 DEF Unowned

(* What is in use can be reached: the one of highest rank that could not      *)
(* would have an owner that can.                                              *)
LEMMA ReachedIs == SlInv => NothingLost
<1> SUFFICES ASSUME SlNow PROVE Alive(heap) = Reached
  BY DEF NothingLost, SlInv
<1> DEFINE Roots == Obj \cap (Range(hold) \cup Range(todo))
<1>0. /\ heap \in Heaps /\ Shaped(heap) /\ Ranked(heap) /\ todo \in Seq(Payload)
      /\ hold \in [Holder -> Obj \cup {NULL}]
  BY DEF SlNow, SlGood, Typed
<1>1. Reached = UNION {Below[o] : o \in Roots}
  BY DEF Reached
<1>2. \A o \in Roots : o \in Obj /\ heap[o].kind # "unused"
  <2> SUFFICES ASSUME NEW o \in Roots PROVE heap[o].kind # "unused"
    OBVIOUS
  <2>1. CASE o \in Range(hold)
    <3>1. \E h \in Holder : hold[h] = o
      BY <1>0, <2>1 DEF Range
    <3> QED BY <3>1, OwnedLives DEF SlNow
  <2>2. CASE o \in Range(todo)
    <3>1. \E i \in 1 .. Len(todo) : todo[i] = o
      BY <1>0, <2>2, LenProperties DEF Range
    <3>2. Count(todo, o) # 0
      BY <1>0, <3>1, CountIs
    <3> QED BY <3>2, OwnedLives DEF SlNow
  <2> QED BY <2>1, <2>2
<1> HIDE DEF Roots
<1>3. Reached \subseteq Alive(heap)
  BY <1>1, <1>2, BelowKept
<1>4. PICK r, b : Ranks(heap, r, b)
  BY <1>0 DEF Ranked
<1>5. /\ r \in [Obj -> Nat] /\ b \in Nat /\ \A q \in Obj : r[q] <= b
      /\ \A q, o \in Obj : Leads(heap, q, o) => r[o] < r[q]
  BY <1>4 DEF Ranks
<1> DEFINE s == [o \in Obj |-> b - r[o]]
           Lost == Alive(heap) \ Reached
<1>6. s \in [Obj -> Nat] /\ \A o \in Obj : s[o] = b - r[o]
  <2>1. \A o \in Obj : b - r[o] \in Nat
    BY <1>5
  <2> QED BY <2>1
<1> HIDE DEF s
<1>7. Lost = {}
  <2> SUFFICES ASSUME Lost # {} PROVE FALSE
    OBVIOUS
  <2>1. Lost \in SUBSET Obj
    BY DEF Alive
  <2>2. PICK y \in Lost : \A z \in Lost : s[y] <= s[z]
    BY ONLY <1>6, <2>1, Lost # {}, LeastRank
  <2>3. y \in Obj /\ heap[y].kind # "unused" /\ y \notin Reached
    BY <2>2 DEF Alive
  <2>4. CASE y \in Roots
    <3>1. y \in Below[y]
      BY <1>0, <2>3, BelowIs
    <3> QED BY <1>1, <2>3, <2>4, <3>1
  <2>5. CASE y \notin Roots
    <3>1. PICK q \in Obj : Leads(heap, q, y) /\ heap[q].kind # "unused"
      BY <2>3, <2>5, OwnerIs DEF Roots
    <3>2. r[y] < r[q]
      BY <1>5, <2>3, <3>1
    <3>3. ~ (s[y] <= s[q])
      <4>p. PICK u, v : u = r[y] /\ v = r[q]
        OBVIOUS
      <4>1. u \in Nat /\ v \in Nat /\ u < v /\ s[y] = b - u /\ s[q] = b - v /\ b \in Nat
        BY <1>5, <1>6, <2>3, <3>1, <3>2, <4>p
      <4> QED BY ONLY <4>1
    <3>4. q \in Reached
      BY <2>2, <3>1, <3>3 DEF Alive
    <3>5. PICK o \in Roots : q \in Below[o]
      BY <1>1, <3>4
    <3>6. y \in Below[o]
      BY <1>2, <2>3, <3>1, <3>5, BelowKept
    <3> QED BY <1>1, <2>3, <3>5, <3>6
  <2> QED BY <2>4, <2>5
<1> QED BY <1>3, <1>7

(* No ring keeps its members alive: what is in use can be reached from a      *)
(* variable or is about to be freed, until one of the three breaches.         *)
THEOREM NothingStaysLost == Spec => []NothingLost
<1>1. SlInv => NothingLost
  BY ReachedIs
<1> QED BY <1>1, SharedListsStayGood, PTL
-----------------------------------------------------------------------------
(* What is read through references, as functions of a heap: pu, fa and v are  *)
(* what jbl_refer_pull and jbl_refer_pull_keep_father answer and the view.    *)
Look(hp, fa, v, p) == IF p \notin Obj THEN p
                      ELSE IF hp[p].kind = "ref" THEN <<"ref", fa[p]>> ELSE <<"list", v[p]>>
Looks(hp, fa, v, s) == [k \in DOMAIN s |-> Look(hp, fa, v, s[k])]
Stands(hp, pu, fa, x) ==
  /\ pu[x] \in Obj /\ hp[pu[x]].kind = "list"
  /\ hp[x].kind = "list" => pu[x] = x /\ fa[x] = NULL
  /\ hp[x].kind = "ref" =>
       /\ fa[x] \in Obj /\ hp[fa[x]].kind = "ref" /\ hp[fa[x]].ptr = pu[x]
       /\ hp[x].ptr \in Obj /\ hp[hp[x].ptr].kind # "unused"
       /\ fa[x] = IF hp[hp[x].ptr].kind = "ref" THEN fa[hp[x].ptr] ELSE x
Reads(hp, pu, fa, v) ==
  /\ \A x \in Obj : hp[x].kind # "unused" => Stands(hp, pu, fa, x)
  /\ \A x \in Obj : v[x] = Looks(hp, fa, v, hp[x].elems)
ReadsWell == Reads(heap, Pull, Father, View)
Solved(f, m, r) == /\ f = [x \in Obj |-> f[x]]
                   /\ \A x \in Obj : r[x] < m => f[x] = Looks(heap, Father, f, heap[x].elems)

(* The view of a list is made of the views of the lists inside: one exists,   *)
(* as it does for the objects of rank below m, for every m.                   *)
LEMMA ViewExists ==
  ASSUME heap \in Heaps, NEW r, NEW b, Ranks(heap, r, b)
  PROVE  \E f : f = [x \in Obj |-> Looks(heap, Father, f, heap[x].elems)]
<1> DEFINE P(m) == \E f : Solved(f, m, r)
           T == {m \in Nat : ~ P(m)}
<1>0. r \in [Obj -> Nat] /\ b \in Nat /\ \A x \in Obj : r[x] <= b
  BY DEF Ranks
<1>1. P(0)
  <2>p. PICK f : f = [x \in Obj |-> 0]
    OBVIOUS
  <2>1. f = [x \in Obj |-> f[x]] /\ \A x \in Obj : ~ (r[x] < 0)
    BY <1>0, <2>p
  <2> QED BY <2>1 DEF Solved
<1>2. ASSUME NEW l \in Nat, P(l) PROVE P(l + 1)
  <2>1. PICK f : Solved(f, l, r)
    BY <1>2
  <2>2. PICK g : g = [x \in Obj |-> Looks(heap, Father, f, heap[x].elems)]
    OBVIOUS
  <2>3. g = [x \in Obj |-> g[x]]
    BY <2>2
  <2>4. ASSUME NEW x \in Obj, r[x] < l + 1
        PROVE  g[x] = Looks(heap, Father, g, heap[x].elems)
    <3>p. PICK s : s = heap[x].elems
      OBVIOUS
    <3>1. ASSUME NEW k \in DOMAIN s PROVE Look(heap, Father, f, s[k]) = Look(heap, Father, g, s[k])
      <4>1. CASE s[k] \in Obj
        <5>1. s[k] \in Range(s)
          BY DEF Range
        <5>2. Leads(heap, x, s[k])
          BY <3>p, <4>1, <5>1, InRange DEF Leads
        <5>3. r[s[k]] < r[x]
          BY <4>1, <5>2 DEF Ranks
        <5>4. r[s[k]] < l
          BY <1>0, <2>4, <4>1, <5>3
        <5>5. f[s[k]] = g[s[k]]
          BY <2>1, <2>2, <4>1, <5>4 DEF Solved
        <5> QED BY <5>5 DEF Look
      <4>2. CASE s[k] \notin Obj
        BY <4>2 DEF Look
      <4> QED BY <4>1, <4>2
    <3>2. Looks(heap, Father, f, s) = Looks(heap, Father, g, s)
      BY <3>1 DEF Looks
    <3> QED BY <2>2, <2>4, <3>p, <3>2
  <2>5. Solved(g, l + 1, r)
    BY <2>3, <2>4 DEF Solved
  <2> QED BY <2>5
<1> HIDE DEF P
<1>3. T = {}
  <2> SUFFICES ASSUME T # {} PROVE FALSE
    OBVIOUS
  <2>1. PICK m \in T : \A n \in T : m <= n
    <3>1. T \subseteq Nat
      OBVIOUS
    <3> HIDE DEF T
    <3> QED BY ONLY <3>1, T # {}, LeastNumber
  <2>2. m # 0
    BY <1>1, <2>1
  <2>3. m - 1 \in Nat /\ ~ (m <= m - 1)
    BY <2>1, <2>2
  <2>4. P(m - 1)
    BY <2>1, <2>3
  <2>5. P((m - 1) + 1)
    BY <1>2, <2>3, <2>4
  <2>6. (m - 1) + 1 = m
    BY <2>1
  <2> QED BY <2>1, <2>5, <2>6
<1>4. PICK f : Solved(f, b + 1, r)
  BY <1>0, <1>3 DEF P
<1>5. \A x \in Obj : f[x] = Looks(heap, Father, f, heap[x].elems)
  <2>1. \A x \in Obj : r[x] < b + 1
    BY <1>0
  <2> QED BY <1>4, <2>1 DEF Solved
<1>6. f = [x \in Obj |-> Looks(heap, Father, f, heap[x].elems)]
  BY <1>4, <1>5 DEF Solved
<1> QED BY <1>6

(* The view of the model is one.                                              *)
LEMMA ViewStep ==
  ASSUME SlNow, NEW x \in Obj
  PROVE  View[x] = Looks(heap, Father, View, heap[x].elems)
<1>1. heap \in Heaps /\ \E r, b : Ranks(heap, r, b)
  BY DEF SlNow, SlGood, Typed, Ranked
<1> DEFINE Sol(f) == f = [o \in Obj |-> Looks(heap, Father, f, heap[o].elems)]
<1>2. \A f : [o \in Obj |-> Looks(heap, Father, f, heap[o].elems)]
             = [o \in Obj |-> [k \in DOMAIN heap[o].elems |->
                  LET p == heap[o].elems[k]
                  IN  CASE p \notin Obj -> p
                        [] p \in Obj /\ IsRef(p) -> <<"ref", Father[p]>>
                        [] OTHER -> <<"list", f[p]>>]]
  <2> TAKE f
  <2>1. \A p : Look(heap, Father, f, p)
               = CASE p \notin Obj -> p
                   [] p \in Obj /\ IsRef(p) -> <<"ref", Father[p]>>
                   [] OTHER -> <<"list", f[p]>>
    BY DEF Look, IsRef
  <2> QED BY <2>1 DEF Looks
<1>3. View = CHOOSE f : Sol(f)
  BY <1>2 DEF View
<1>4. \E f : Sol(f)
  BY <1>1, ViewExists
<1> HIDE DEF Sol
<1>5. Sol(View)
  BY <1>3, <1>4
<1> QED BY <1>5 DEF Sol

(* What is in use is read as it is made.                                      *)
LEMMA ReadsAre == SlNow => ReadsWell
<1> SUFFICES ASSUME SlNow PROVE ReadsWell
  OBVIOUS
<1>0. heap \in Heaps /\ Shaped(heap) /\ Ranked(heap)
  BY DEF SlNow, SlGood, Typed
<1>1. ASSUME NEW x \in Obj, heap[x].kind # "unused" PROVE Stands(heap, Pull, Father, x)
  <2>1. /\ Pull[x] \in Obj /\ heap[Pull[x]].kind = "list"
        /\ ~ IsRef(x) => Pull[x] = x /\ Father[x] = NULL
        /\ IsRef(x) => Father[x] \in Obj /\ IsRef(Father[x]) /\ heap[Father[x]].ptr = Pull[x]
    BY <1>1, PullIs
  <2>2. CASE ~ IsRef(x)
    BY <2>1, <2>2 DEF Stands, IsRef
  <2>3. CASE IsRef(x)
    <3>1. heap[x].ptr \in Obj
      BY <1>0, <2>3 DEF Shaped, IsRef
    <3>2. heap[heap[x].ptr].kind # "unused"
      <4>1. Leads(heap, x, heap[x].ptr)
        BY DEF Leads
      <4> QED BY <3>1, <4>1, OwnedLives DEF SlNow
    <3>3. Father[x] = IF IsRef(heap[x].ptr) THEN Father[heap[x].ptr] ELSE x
      BY <1>0, <2>3, FatherStep
    <3> QED BY <2>1, <2>3, <3>1, <3>2, <3>3 DEF Stands, IsRef
  <2> QED BY <2>2, <2>3
<1>2. \A x \in Obj : View[x] = Looks(heap, Father, View, heap[x].elems)
  BY ViewStep
<1> QED BY <1>1, <1>2 DEF ReadsWell, Reads
-----------------------------------------------------------------------------
(* Where a variable stands and what it sees.                                  *)
CellAt(hp, hd, fa, h) == IF hd[h] = NULL THEN NULL
                         ELSE IF hp[hd[h]].kind = "ref" THEN fa[hd[h]] ELSE h
ValAt(hd, pu, v, h) == v[pu[hd[h]]]
World(hp, hd, td, pu, fa, v) == SlGood(hp, hd, td) /\ Reads(hp, pu, fa, v)
Shown(c, s, hp, hd, pu, fa, v) ==
  /\ c = [h \in Holder |-> CellAt(hp, hd, fa, h)]
  /\ s = [d \in {c[h] : h \in Holder} \ {NULL} |-> s[d]]
  /\ \A h \in Holder : hd[h] # NULL => s[c[h]] = ValAt(hd, pu, v, h)
Shows == /\ World(heap, hold, todo, Pull, Father, View)
         /\ Shown(Standing, Seen, heap, hold, Pull, Father, View)

(* What stands for a variable's list: itself, or the last reference.          *)
LEMMA CellFacts ==
  ASSUME NEW hp, NEW hd, NEW td, NEW pu, NEW fa, NEW v, World(hp, hd, td, pu, fa, v),
         NEW h \in Holder
  PROVE  /\ hd[h] = NULL => CellAt(hp, hd, fa, h) = NULL
         /\ hd[h] # NULL =>
              /\ hd[h] \in Obj /\ hp[hd[h]].kind \in {"list", "ref"}
              /\ Stands(hp, pu, fa, hd[h])
              /\ CellAt(hp, hd, fa, h) \in Holder \cup Obj /\ CellAt(hp, hd, fa, h) # NULL
              /\ hp[hd[h]].kind = "list" =>
                   CellAt(hp, hd, fa, h) = h /\ h \notin Obj /\ pu[hd[h]] = hd[h]
              /\ hp[hd[h]].kind = "ref" =>
                   LET f == CellAt(hp, hd, fa, h)
                   IN  /\ f \in Obj /\ f = fa[hd[h]] /\ hp[f].kind = "ref" /\ fa[f] = f
                       /\ pu[f] = pu[hd[h]] /\ hp[f].ptr = pu[hd[h]]
<1> SUFFICES ASSUME hd[h] # NULL
             PROVE  /\ hd[h] \in Obj /\ hp[hd[h]].kind \in {"list", "ref"}
                    /\ Stands(hp, pu, fa, hd[h])
                    /\ CellAt(hp, hd, fa, h) \in Holder \cup Obj
                    /\ CellAt(hp, hd, fa, h) # NULL
                    /\ hp[hd[h]].kind = "list" =>
                         CellAt(hp, hd, fa, h) = h /\ h \notin Obj /\ pu[hd[h]] = hd[h]
                    /\ hp[hd[h]].kind = "ref" =>
                         LET f == CellAt(hp, hd, fa, h)
                         IN  /\ f \in Obj /\ f = fa[hd[h]] /\ hp[f].kind = "ref" /\ fa[f] = f
                             /\ pu[f] = pu[hd[h]] /\ hp[f].ptr = pu[hd[h]]
  BY DEF CellAt
<1>p. PICK x : x = hd[h]
  OBVIOUS
<1>1. x \in Obj /\ hp \in Heaps
  BY <1>p DEF World, SlGood, Typed
<1>2. hp[x].kind # "unused"
  BY <1>1, <1>p, OwnedLives DEF World
<1>3. hp[x].kind \in {"list", "ref"}
  BY <1>1, <1>2 DEF Heaps, Object
<1>4. Stands(hp, pu, fa, x)
  BY <1>1, <1>2 DEF World, Reads
<1>5. CASE hp[x].kind = "list"
  <2>1. CellAt(hp, hd, fa, h) = h
    BY <1>5, <1>p DEF CellAt
  <2>2. h \notin Obj /\ h # NULL
    BY SharedAssumption
  <2> QED BY <1>1, <1>3, <1>4, <1>5, <1>p, <2>1, <2>2 DEF Stands
<1>6. CASE hp[x].kind = "ref"
  <2>p. PICK f : f = fa[x]
    OBVIOUS
  <2>1. CellAt(hp, hd, fa, h) = f
    BY <1>6, <1>p, <2>p DEF CellAt
  <2>2. f \in Obj /\ hp[f].kind = "ref" /\ hp[f].ptr = pu[x] /\ hp[pu[x]].kind = "list"
    BY <1>4, <1>6, <2>p DEF Stands
  <2>3. Stands(hp, pu, fa, f)
    BY <2>2 DEF World, Reads
  <2>4. fa[f] = f
    BY <2>2, <2>3 DEF Stands
  <2>5. pu[f] = pu[x]
    BY <2>2, <2>3, <2>4 DEF Stands
  <2> QED BY <1>1, <1>3, <1>4, <1>6, <1>p, <2>1, <2>2, <2>4, <2>5, <2>p, NullIs
<1> QED BY <1>3, <1>5, <1>6

(* The model's cells show this.                                               *)
LEMMA ShowsAre == SlNow => Shows
<1> SUFFICES ASSUME SlNow PROVE Shows
  OBVIOUS
<1>1. World(heap, hold, todo, Pull, Father, View)
  BY ReadsAre DEF World, SlNow, ReadsWell
<1>2. \A h \in Holder : CellOf(h) = CellAt(heap, hold, Father, h)
  BY DEF CellOf, CellAt, IsRef
<1>3. Standing = [h \in Holder |-> CellAt(heap, hold, Father, h)]
  BY DEF Standing, CellOf, CellAt, IsRef
<1>4. \A h \in Holder : Standing[h] = CellOf(h)
  BY <1>2, <1>3
<1>5. Seen = [d \in {Standing[h] : h \in Holder} \ {NULL} |->
                View[Pull[IF d \in Obj THEN d ELSE hold[d]]]]
  BY <1>4 DEF Seen, CellOf, IsRef
<1>6. Seen = [d \in {Standing[h] : h \in Holder} \ {NULL} |-> Seen[d]]
  BY <1>5
<1>7. ASSUME NEW h \in Holder, hold[h] # NULL
      PROVE  Seen[Standing[h]] = ValAt(hold, Pull, View, h)
  <2>p. PICK d : d = CellAt(heap, hold, Father, h)
    OBVIOUS
  <2>1. /\ heap[hold[h]].kind \in {"list", "ref"} /\ d # NULL
        /\ heap[hold[h]].kind = "list" => d = h /\ h \notin Obj
        /\ heap[hold[h]].kind = "ref" => d \in Obj /\ Pull[d] = Pull[hold[h]]
    BY <1>1, <1>7, <2>p, CellFacts
  <2>2. Standing[h] = d
    BY <1>3, <2>p
  <2>3. Seen[d] = View[Pull[IF d \in Obj THEN d ELSE hold[d]]]
    <3>1. d \in {Standing[g] : g \in Holder} \ {NULL}
      BY <2>1, <2>2
    <3> QED BY <1>5, <3>1
  <2> QED BY <2>1, <2>2, <2>3 DEF ValAt
<1> QED BY <1>1, <1>3, <1>6, <1>7 DEF Shows, Shown
-----------------------------------------------------------------------------
(* Steps between two heaps.  What is in use in both is of one kind, its       *)
(* references lead to the same, or to lists, and the lists that are not in C  *)
(* have the same payloads, none of them in C.                                 *)
Steady(hp, hp2, C) ==
  \A x \in Obj : hp[x].kind # "unused" /\ hp2[x].kind # "unused" =>
    /\ hp2[x].kind = hp[x].kind
    /\ hp[x].kind = "ref" => \/ hp2[x].ptr = hp[x].ptr
                             \/ /\ hp[hp[x].ptr].kind = "list"
                                /\ hp2[hp2[x].ptr].kind = "list"
    /\ x \notin C => /\ hp2[x].elems = hp[x].elems
                     /\ \A p \in Obj : Count(hp[x].elems, p) # 0 => p \notin C

(* Where little changes, as much is read as before.                           *)
LEMMA SteadyIs ==
  ASSUME NEW hp, NEW hd, NEW td, NEW pu, NEW fa, NEW v, World(hp, hd, td, pu, fa, v),
         NEW hp2, NEW hd2, NEW td2, NEW pu2, NEW fa2, NEW v2,
         World(hp2, hd2, td2, pu2, fa2, v2), NEW C, Steady(hp, hp2, C),
         NEW y \in Obj, hp[y].kind # "unused", hp2[y].kind # "unused"
  PROVE  fa2[y] = fa[y] /\ (y \notin C => v2[y] = v[y])
<1> DEFINE Both == {x \in Obj : hp[x].kind # "unused" /\ hp2[x].kind # "unused"}
           Bad == {x \in Both : fa2[x] # fa[x]}
           Off == {x \in Both : x \notin C /\ v2[x] # v[x]}
<1>0. /\ hp \in Heaps /\ Reads(hp, pu, fa, v) /\ Reads(hp2, pu2, fa2, v2) /\ hp2 \in Heaps
      /\ SlGood(hp, hd, td) /\ SlGood(hp2, hd2, td2)
  BY DEF World, SlGood, Typed
<1>1. PICK r, b : Ranks(hp, r, b)
  BY DEF World, SlGood, Ranked
<1>2. r \in [Obj -> Nat] /\ \A q, o \in Obj : Leads(hp, q, o) => r[o] < r[q]
  BY <1>1 DEF Ranks
<1>3. \A x \in Both : /\ x \in Obj /\ Stands(hp, pu, fa, x) /\ Stands(hp2, pu2, fa2, x)
                      /\ hp2[x].kind = hp[x].kind /\ hp[x].kind \in {"list", "ref"}
  BY <1>0 DEF Reads, Steady, Heaps, Object
<1>4. Bad = {}
  <2> SUFFICES ASSUME Bad # {} PROVE FALSE
    OBVIOUS
  <2>1. Bad \in SUBSET Obj
    OBVIOUS
  <2>2. PICK x \in Bad : \A z \in Bad : r[x] <= r[z]
    BY ONLY <1>2, <2>1, Bad # {}, LeastRank
  <2>3. x \in Both /\ fa2[x] # fa[x]
    BY <2>2
  <2>4. CASE hp[x].kind = "list"
    BY <1>3, <2>3, <2>4 DEF Stands
  <2>5. CASE hp[x].kind = "ref"
    <3>p. PICK p, q : p = hp[x].ptr /\ q = hp2[x].ptr
      OBVIOUS
    <3>1. /\ p \in Obj /\ hp[p].kind # "unused" /\ q \in Obj /\ hp2[q].kind # "unused"
          /\ fa[x] = IF hp[p].kind = "ref" THEN fa[p] ELSE x
          /\ fa2[x] = IF hp2[q].kind = "ref" THEN fa2[q] ELSE x
      BY <1>3, <2>3, <2>5, <3>p DEF Stands
    <3>2. CASE q = p
      <4>1. p \in Both
        BY <3>1, <3>2
      <4>2. r[p] < r[x]
        <5>1. Leads(hp, x, p)
          BY <3>p DEF Leads
        <5> QED BY <1>2, <2>3, <3>1, <5>1
      <4>3. p \notin Bad
        BY <1>2, <2>2, <2>3, <3>1, <4>2
      <4> QED BY <1>3, <2>3, <3>1, <3>2, <4>1, <4>3
    <3>3. CASE q # p
      BY <2>3, <2>5, <3>1, <3>3, <3>p DEF Steady
    <3> QED BY <3>2, <3>3
  <2> QED BY <1>3, <2>3, <2>4, <2>5
<1>5. \A x \in Both : fa2[x] = fa[x]
  BY <1>4
<1>6. Off = {}
  <2> SUFFICES ASSUME Off # {} PROVE FALSE
    OBVIOUS
  <2>1. Off \in SUBSET Obj
    OBVIOUS
  <2>2. PICK x \in Off : \A z \in Off : r[x] <= r[z]
    BY ONLY <1>2, <2>1, Off # {}, LeastRank
  <2>3. x \in Both /\ x \notin C /\ v2[x] # v[x] /\ x \in Obj
    BY <2>2
  <2>p. PICK s : s = hp[x].elems
    OBVIOUS
  <2>4. hp2[x].elems = s /\ \A p \in Obj : Count(s, p) # 0 => p \notin C
    BY <2>3, <2>p DEF Steady
  <2>5. v[x] = Looks(hp, fa, v, s) /\ v2[x] = Looks(hp2, fa2, v2, s)
    BY <1>0, <2>3, <2>4, <2>p DEF Reads
  <2>6. ASSUME NEW k \in DOMAIN s PROVE Look(hp2, fa2, v2, s[k]) = Look(hp, fa, v, s[k])
    <3>p. PICK p : p = s[k]
      OBVIOUS
    <3>1. CASE p \in Obj
      <4>1. p \in Range(s)
        BY <3>p DEF Range
      <4>2. Leads(hp, x, p) /\ Leads(hp2, x, p) /\ Count(s, p) # 0
        BY <1>0, <2>3, <2>4, <2>p, <4>1, InRange DEF Leads
      <4>3. p \in Both
        BY <1>0, <2>3, <3>1, <4>2, OwnedLives
      <4>4. p \notin C /\ r[p] < r[x]
        BY <1>2, <2>3, <2>4, <3>1, <4>2
      <4>5. p \notin Off
        BY <1>2, <2>2, <2>3, <3>1, <4>4
      <4>6. v2[p] = v[p] /\ fa2[p] = fa[p] /\ hp2[p].kind = hp[p].kind
        BY <1>3, <1>5, <4>3, <4>4, <4>5
      <4> QED BY <3>p, <4>6 DEF Look
    <3>2. CASE p \notin Obj
      BY <3>2, <3>p DEF Look
    <3> QED BY <3>1, <3>2
  <2>7. Looks(hp, fa, v, s) = Looks(hp2, fa2, v2, s)
    BY <2>6 DEF Looks
  <2> QED BY <2>3, <2>5, <2>7
<1>7. y \in Both
  OBVIOUS
<1> QED BY <1>5, <1>6, <1>7

(* Steps that change no contents of what stays in use.                        *)
Quiet(hp, hp2) ==
  \A x \in Obj : hp[x].kind # "unused" /\ hp2[x].kind # "unused" =>
    hp2[x].kind = hp[x].kind /\ hp2[x].ptr = hp[x].ptr /\ hp2[x].elems = hp[x].elems

(* After such a step what stays is read as before.                            *)
LEMMA QuietIs ==
  ASSUME NEW hp, NEW hd, NEW td, NEW pu, NEW fa, NEW v, World(hp, hd, td, pu, fa, v),
         NEW hp2, NEW hd2, NEW td2, NEW pu2, NEW fa2, NEW v2,
         World(hp2, hd2, td2, pu2, fa2, v2), Quiet(hp, hp2),
         NEW y \in Obj, hp[y].kind # "unused", hp2[y].kind # "unused"
  PROVE  fa2[y] = fa[y] /\ pu2[y] = pu[y] /\ v2[y] = v[y] /\ v2[pu2[y]] = v[pu[y]]
<1>0. Steady(hp, hp2, {})
  BY DEF Steady, Quiet
<1>1. \A x \in Obj : hp[x].kind # "unused" /\ hp2[x].kind # "unused" =>
         fa2[x] = fa[x] /\ v2[x] = v[x]
  BY <1>0, SteadyIs
<1>2. Stands(hp, pu, fa, y) /\ Stands(hp2, pu2, fa2, y)
  BY DEF World, Reads
<1>3. hp[y].kind \in {"list", "ref"} /\ hp2[y].kind = hp[y].kind
  BY DEF World, SlGood, Typed, Heaps, Object, Quiet
<1>4. pu2[y] = pu[y]
  <2>1. CASE hp[y].kind = "list"
    BY <1>2, <1>3, <2>1 DEF Stands
  <2>2. CASE hp[y].kind = "ref"
    <3>1. /\ fa[y] \in Obj /\ hp[fa[y]].kind = "ref" /\ hp[fa[y]].ptr = pu[y]
          /\ hp2[fa[y]].kind = "ref" /\ hp2[fa[y]].ptr = pu2[y]
      BY <1>1, <1>2, <1>3, <2>2 DEF Stands
    <3> QED BY <3>1 DEF Quiet
  <2> QED BY <1>3, <2>1, <2>2
<1>5. pu[y] \in Obj /\ hp[pu[y]].kind = "list" /\ hp2[pu[y]].kind = "list"
  BY <1>2, <1>4 DEF Stands
<1> QED BY <1>1, <1>4, <1>5

(* A variable that holds the same stands where it stood and sees the same.    *)
LEMMA QuietAt ==
  ASSUME NEW hp, NEW hd, NEW td, NEW pu, NEW fa, NEW v, World(hp, hd, td, pu, fa, v),
         NEW hp2, NEW hd2, NEW td2, NEW pu2, NEW fa2, NEW v2,
         World(hp2, hd2, td2, pu2, fa2, v2), Quiet(hp, hp2),
         NEW g \in Holder, hd2[g] = hd[g]
  PROVE  /\ CellAt(hp2, hd2, fa2, g) = CellAt(hp, hd, fa, g)
         /\ hd[g] # NULL => ValAt(hd2, pu2, v2, g) = ValAt(hd, pu, v, g)
<1>1. CASE hd[g] = NULL
  BY <1>1 DEF CellAt
<1>2. CASE hd[g] # NULL
  <2>p. PICK y : y = hd[g]
    OBVIOUS
  <2>1. y \in Obj /\ hp[y].kind # "unused" /\ hp2[y].kind # "unused"
    <3>1. y \in Obj /\ hp[y].kind \in {"list", "ref"}
      BY <1>2, <2>p, CellFacts
    <3>2. hp2[y].kind \in {"list", "ref"}
      BY <1>2, <2>p, CellFacts
    <3> QED BY <3>1, <3>2
  <2>2. fa2[y] = fa[y] /\ v2[pu2[y]] = v[pu[y]]
    BY <2>1, QuietIs
  <2>3. hp2[y].kind = hp[y].kind
    BY <2>1 DEF Quiet
  <2> QED BY <2>2, <2>3, <2>p DEF CellAt, ValAt
<1> QED BY <1>1, <1>2
-----------------------------------------------------------------------------
(* The abstract steps, from what each variable shows before and after.        *)
Stays(g) == /\ Standing'[g] = Standing[g]
            /\ Standing[g] # NULL => Seen'[Standing[g]] = Seen[Standing[g]]

AllCells == /\ Standing = [h \in Holder |-> Standing[h]]
            /\ Seen = [d \in Cells!InUse |-> Seen[d]]
            /\ Cells!InUse = {Standing[h] : h \in Holder} \ {NULL}
Told ==
  /\ World(heap, hold, todo, Pull, Father, View)
  /\ AllCells
  /\ \A h \in Holder : /\ Standing[h] = CellAt(heap, hold, Father, h)
                       /\ Standing[h] = NULL <=> hold[h] = NULL
                       /\ Standing[h] \in Holder => Standing[h] = h
                       /\ h # NULL
                       /\ hold[h] # NULL => /\ Standing[h] \in Holder \cup Obj
                                            /\ Seen[Standing[h]] = ValAt(hold, Pull, View, h)
  /\ \A t \in Obj : heap[t].kind = "unused" => t \notin Cells!InUse

(* Which cells there are.                                                     *)
LEMMA CellsAre == SlNow => Told
<1> SUFFICES ASSUME SlNow PROVE Told
  OBVIOUS
<1>1. /\ Standing = [h \in Holder |-> CellAt(heap, hold, Father, h)]
      /\ Seen = [d \in {Standing[h] : h \in Holder} \ {NULL} |-> Seen[d]]
      /\ \A h \in Holder : hold[h] # NULL => Seen[Standing[h]] = ValAt(hold, Pull, View, h)
      /\ World(heap, hold, todo, Pull, Father, View)
  BY ShowsAre DEF Shows, Shown
<1>2. Cells!InUse = {Standing[h] : h \in Holder} \ {NULL}
  BY DEF Cells!InUse
<1>3. ASSUME NEW h \in Holder
      PROVE  /\ Standing[h] = CellAt(heap, hold, Father, h)
             /\ Standing[h] = NULL <=> hold[h] = NULL
             /\ Standing[h] \in Holder => Standing[h] = h
             /\ h # NULL
             /\ hold[h] # NULL => Standing[h] \in Holder \cup Obj
             /\ Standing[h] \in Obj => heap[Standing[h]].kind = "ref"
  <2>1. Standing[h] = CellAt(heap, hold, Father, h)
    BY <1>1
  <2>2. CASE hold[h] = NULL
    <3>1. Standing[h] = NULL
      BY <1>1, <2>1, <2>2, CellFacts
    <3> QED BY <2>1, <2>2, <3>1, NullIs, SharedAssumption
  <2>3. CASE hold[h] # NULL
    <3>p. PICK d : d = CellAt(heap, hold, Father, h)
      OBVIOUS
    <3>1. /\ heap[hold[h]].kind \in {"list", "ref"} /\ d \in Holder \cup Obj /\ d # NULL
          /\ heap[hold[h]].kind = "list" => d = h /\ h \notin Obj
          /\ heap[hold[h]].kind = "ref" => d \in Obj /\ heap[d].kind = "ref"
      BY <1>1, <2>3, <3>p, CellFacts
    <3>2. Holder \cap Obj = {} /\ NULL \notin Holder
      BY SharedAssumption
    <3> QED BY <2>1, <2>3, <3>1, <3>2, <3>p
  <2> QED BY <2>2, <2>3
<1>4. ASSUME NEW t \in Obj, heap[t].kind = "unused" PROVE t \notin Cells!InUse
  BY <1>2, <1>3, <1>4
<1>5. Seen = [d \in Cells!InUse |-> Seen[d]]
  BY <1>1, <1>2
<1>6. Standing = [h \in Holder |-> Standing[h]]
  BY <1>1
<1> QED BY <1>1, <1>2, <1>3, <1>4, <1>5, <1>6 DEF Told, AllCells

(* h comes to the cell c, where w is seen, and nobody else moves.             *)
Moves(h, c, w) ==
  /\ c # NULL /\ Standing'[h] = c /\ Seen'[c] = w
  /\ \A g \in Holder \ {h} : Stays(g) \/ (Standing'[g] = Standing[g] /\ Standing[g] = c)

(* One variable moves to a cell, or comes to another value there.             *)
LEMMA PlaceIs ==
  ASSUME Told, Told', NEW h \in Holder, NEW c, NEW w, Moves(h, c, w)
  PROVE  Cells!Place(h, c, w)
<1>1. Standing' = [Standing EXCEPT ![h] = c]
  BY DEF Told, AllCells, Moves, Stays
<1>2. ASSUME NEW d \in (Cells!InUse)' PROVE Seen'[d] = IF d = c THEN w ELSE Seen[d]
  <2>1. PICK g \in Holder : Standing'[g] = d /\ d # NULL
    BY <1>2 DEF Told, AllCells
  <2> QED BY <2>1 DEF Moves, Stays
<1>3. Seen' = [d \in (Cells!InUse)' |-> IF d = c THEN w ELSE Seen[d]]
  BY <1>2 DEF Told, AllCells
<1> QED BY <1>1, <1>3 DEF Cells!Place

(* Nobody stands at a variable that stands elsewhere, or nowhere.             *)
LEMMA FreeCell ==
  ASSUME Told, NEW h \in Holder, Standing[h] # h
  PROVE  h \in (Holder \cup Obj) \ Cells!InUse
BY DEF Told, AllCells

(* Where no variable moves the same cells are in use.                         *)
LEMMA CellsKept ==
  ASSUME Told, Told', \A g \in Holder : Standing'[g] = Standing[g]
  PROVE  /\ Standing' = Standing /\ (Cells!InUse)' = Cells!InUse
         /\ Seen' = [d \in Cells!InUse |-> Seen'[d]]
<1>1. /\ Standing = [g \in Holder |-> Standing[g]] /\ Standing' = [g \in Holder |-> Standing'[g]]
      /\ Seen' = [d \in (Cells!InUse)' |-> Seen'[d]]
      /\ Cells!InUse = {Standing[g] : g \in Holder} \ {NULL}
      /\ (Cells!InUse)' = {Standing'[g] : g \in Holder} \ {NULL}
  BY DEF Told, AllCells
<1>2. Standing' = Standing
  BY ONLY <1>1, \A g \in Holder : Standing'[g] = Standing[g]
<1>3. (Cells!InUse)' = Cells!InUse
  BY ONLY <1>1, <1>2
<1> QED BY ONLY <1>1, <1>2, <1>3

(* Where nothing changed a variable that holds the same shows the same.       *)
LEMMA StaysIs ==
  ASSUME Told, Told', Quiet(heap, heap'), NEW g \in Holder, hold'[g] = hold[g]
  PROVE  Stays(g)
<1>1. /\ CellAt(heap', hold', Father', g) = CellAt(heap, hold, Father, g)
      /\ hold[g] # NULL => ValAt(hold', Pull', View', g) = ValAt(hold, Pull, View, g)
  BY QuietAt DEF Told
<1> QED BY <1>1 DEF Told, Stays

(* jbl_ll_free: the variable leaves.                                          *)
LEMMA FreeSeen ==
  ASSUME Told, Told', NEW h \in Holder, Free(h)
  PROVE  Cells!Leave(h)
<1>1. /\ hold' = [hold EXCEPT ![h] = NULL] /\ heap' = heap
      /\ hold \in [Holder -> Obj \cup {NULL}]
  BY DEF Free, Told, World, SlGood, Typed
<1>2. Quiet(heap, heap')
  BY <1>1 DEF Quiet
<1>3. \A g \in Holder \ {h} : Stays(g)
  BY <1>1, <1>2, StaysIs
<1>4. Standing'[h] = NULL
  BY <1>1 DEF Told
<1>5. Standing' = [Standing EXCEPT ![h] = NULL]
  BY <1>3, <1>4 DEF Told, AllCells, Stays
<1>6. ASSUME NEW d \in (Cells!InUse)' PROVE Seen'[d] = Seen[d]
  <2>1. PICK g \in Holder : Standing'[g] = d /\ d # NULL
    BY <1>6 DEF Told, AllCells
  <2> QED BY <1>3, <1>4, <2>1 DEF Stays
<1>7. Seen' = [d \in (Cells!InUse)' |-> Seen[d]]
  BY <1>6 DEF Told, AllCells
<1> QED BY <1>5, <1>7 DEF Cells!Leave

(* jbl_ll_new: an empty list at a cell of its own.                            *)
LEMMA NewSeen ==
  ASSUME SlNow, Told, Told', NEW h \in Holder, New(h)
  PROVE  Cells!New(h)
<1>p. PICK t : t = Fresh(heap)
  OBVIOUS
<1>1. /\ hold' = [hold EXCEPT ![h] = t] /\ heap' = [heap EXCEPT ![t] = ListOf(<<>>)]
      /\ hold \in [Holder -> Obj \cup {NULL}] /\ heap \in Heaps /\ hold[h] = NULL
  BY <1>p DEF New, Told, World, SlGood, Typed
<1>2. t \in Obj /\ heap[t].kind = "unused"
  BY <1>1, <1>p, FreshIs DEF New, Room
<1>3. /\ heap'[t].kind = "list" /\ heap'[t].elems = <<>>
      /\ \A o \in Obj : o # t => heap'[o] = heap[o]
  BY <1>1, <1>2 DEF Heaps, ListOf
<1>4. Quiet(heap, heap')
  BY <1>2, <1>3 DEF Quiet
<1>5. \A g \in Holder \ {h} : Stays(g)
  BY <1>1, <1>4, StaysIs
<1>6. hold'[h] = t /\ t # NULL
  BY <1>1, <1>2, NullIs
<1>7. Standing'[h] = h /\ Seen'[h] = View'[t]
  <2>1. CellAt(heap', hold', Father', h) = h
    BY <1>3, <1>6 DEF CellAt
  <2>2. Pull'[t] = t
    BY <1>2, <1>3 DEF Told, World, Reads, Stands
  <2> QED BY <1>6, <2>1, <2>2 DEF Told, ValAt
<1>8. View'[t] = <<>>
  <2>1. View'[t] = Looks(heap', Father', View', <<>>)
    BY <1>2, <1>3 DEF Told, World, Reads
  <2> QED BY <2>1 DEF Looks
<1>9. Cells!Place(h, h, Seen'[h])
  <2>1. Moves(h, h, Seen'[h])
    BY <1>5, <1>7 DEF Told, Moves
  <2> QED BY <2>1, PlaceIs
<1>10. h \in (Holder \cup Obj) \ Cells!InUse
  BY <1>1, FreeCell DEF Told
<1> QED BY <1>7, <1>8, <1>9, <1>10 DEF Cells!New

(* jbl_ll_copy: another variable at the same reference, or one that sees the  *)
(* same list from a cell of its own.                                          *)
LEMMA CopySeen ==
  ASSUME SlNow, Told, Told', NEW h \in Holder, NEW g \in Holder, Copy(h, g)
  PROVE  Cells!Share(h, g) \/ Cells!Snapshot(h, g)
<1>p. PICK y : y = hold[h]
  OBVIOUS
<1>1. /\ hold' = [hold EXCEPT ![g] = y] /\ heap' = Plus(heap, y)
      /\ hold \in [Holder -> Obj \cup {NULL}] /\ heap \in Heaps
      /\ y # NULL /\ hold[g] = NULL /\ g # h
  BY <1>p DEF Copy, Told, World, SlGood, Typed
<1>2. /\ y \in Obj /\ heap[y].kind \in {"list", "ref"}
      /\ heap[y].kind = "list" => Pull[y] = y
  BY <1>1, <1>p, CellFacts DEF Told
<1>3. Quiet(heap, heap') /\ heap'[y].kind = heap[y].kind
  <2>1. heap' = [heap EXCEPT ![y] = [heap[y] EXCEPT !.cnt = @ + 1]]
    BY <1>1, <1>2 DEF Plus
  <2>2. heap[y] \in Object
    BY <1>1, <1>2 DEF Heaps
  <2>3. \A x \in Obj : heap'[x] = IF x = y THEN [heap[y] EXCEPT !.cnt = @ + 1] ELSE heap[x]
    BY <1>1, <2>1 DEF Heaps
  <2>4. \A x \in Obj : /\ heap'[x].kind = heap[x].kind /\ heap'[x].ptr = heap[x].ptr
                       /\ heap'[x].elems = heap[x].elems
    BY <2>2, <2>3 DEF Object
  <2> QED BY <1>2, <2>4 DEF Quiet
<1>4. \A k \in Holder \ {g} : Stays(k)
  BY <1>1, <1>3, StaysIs
<1>5. hold'[g] = y
  BY <1>1
<1>6. Father'[y] = Father[y] /\ View'[Pull'[y]] = View[Pull[y]]
  <2>1. heap[y].kind # "unused" /\ heap'[y].kind # "unused"
    BY <1>2, <1>3
  <2> QED BY <1>2, <1>3, <2>1, QuietIs DEF Told
<1>7. /\ Seen'[Standing'[g]] = Seen[Standing[h]] /\ Standing'[g] # NULL /\ Standing[h] # NULL
  BY <1>1, <1>5, <1>6, <1>p DEF Told, ValAt
<1>8. CASE heap[y].kind = "ref"
  <2>1. Standing'[g] = Standing[h]
    <3>1. CellAt(heap', hold', Father', g) = Father'[y]
      BY <1>1, <1>3, <1>5, <1>8 DEF CellAt
    <3>2. CellAt(heap, hold, Father, h) = Father[y]
      BY <1>1, <1>8, <1>p DEF CellAt
    <3> QED BY <1>6, <3>1, <3>2 DEF Told
  <2>2. Cells!Place(g, Standing[h], Seen[Standing[h]])
    <3>1. Moves(g, Standing[h], Seen[Standing[h]])
      BY <1>4, <1>7, <2>1 DEF Told, Moves
    <3> QED BY <3>1, PlaceIs
  <2> QED BY <2>2 DEF Cells!Share
<1>9. CASE heap[y].kind = "list"
  <2>1. Standing'[g] = g
    <3>1. CellAt(heap', hold', Father', g) = g
      BY <1>1, <1>3, <1>5, <1>9 DEF CellAt
    <3> QED BY <3>1 DEF Told
  <2>2. Cells!Place(g, g, Seen[Standing[h]])
    <3>1. Moves(g, g, Seen[Standing[h]])
      BY <1>4, <1>7, <2>1 DEF Told, Moves
    <3> QED BY <3>1, PlaceIs
  <2>3. g \in (Holder \cup Obj) \ Cells!InUse
    BY <1>1, FreeCell DEF Told
  <2> QED BY <2>2, <2>3 DEF Cells!Snapshot
<1> QED BY <1>2, <1>8, <1>9

(* jbl_refer: both variables stand at the new reference, which is the cell    *)
(* from now on, or at the reference there was.                                *)
LEMMA ReferSeen ==
  ASSUME SlNow, Told, Told', NEW h \in Holder, NEW g \in Holder, Refer(h, g)
  PROVE  Cells!Share(h, g) \/ Cells!Refer(h, g)
<1>p. PICK t, y : t = Fresh(heap) /\ y = hold[h]
  OBVIOUS
<1>q. PICK n : n = [kind |-> "ref", cnt |-> 2, ptr |-> y, elems |-> <<>>]
  OBVIOUS
<1>1. /\ heap' = [heap EXCEPT ![t] = n] /\ hold' = [hold EXCEPT ![h] = t, ![g] = t]
      /\ hold \in [Holder -> Obj \cup {NULL}] /\ heap \in Heaps
      /\ y # NULL /\ hold[g] = NULL /\ g # h
  BY <1>p, <1>q DEF Refer, Told, World, SlGood, Typed
<1>2. t \in Obj /\ heap[t].kind = "unused" /\ t # NULL
  BY <1>1, <1>p, FreshIs, NullIs DEF Refer, Room
<1>3. /\ y \in Obj /\ heap[y].kind \in {"list", "ref"} /\ y # t
      /\ heap[y].kind = "list" => Pull[y] = y
  BY <1>1, <1>2, <1>p, CellFacts DEF Told
<1>4. /\ heap'[t].kind = "ref" /\ heap'[t].ptr = y
      /\ \A o \in Obj : o # t => heap'[o] = heap[o]
  BY <1>1, <1>2, <1>q DEF Heaps
<1>5. Quiet(heap, heap')
  BY <1>2, <1>4 DEF Quiet
<1>6. hold'[h] = t /\ hold'[g] = t /\ \A k \in Holder \ {g, h} : hold'[k] = hold[k]
  BY <1>1
<1>7. \A k \in Holder \ {g, h} : Stays(k)
  BY <1>5, <1>6, StaysIs
<1>8. heap'[y].kind = heap[y].kind /\ heap'[y].kind # "unused" /\ heap[y].kind # "unused"
  BY <1>3, <1>4
<1>9. Father'[y] = Father[y] /\ View'[Pull'[y]] = View[Pull[y]] /\ Pull'[y] = Pull[y]
  BY <1>3, <1>5, <1>8, QuietIs DEF Told
<1>10. /\ Stands(heap', Pull', Father', t)
       /\ Father'[t] = IF heap[y].kind = "ref" THEN Father[y] ELSE t
  <2>1. Stands(heap', Pull', Father', t)
    BY <1>2, <1>4 DEF Told, World, Reads
  <2> QED BY <1>4, <1>8, <1>9, <2>1 DEF Stands
<1>11. Standing'[h] = Father'[t] /\ Standing'[g] = Father'[t]
  <2>1. \A k \in {g, h} : CellAt(heap', hold', Father', k) = Father'[t]
    BY <1>2, <1>4, <1>6 DEF CellAt
  <2> QED BY <2>1 DEF Told
<1>12. /\ Seen'[Standing'[h]] = View'[Pull'[t]] /\ Standing'[h] # NULL
  BY <1>2, <1>6 DEF Told, ValAt
<1>13. CASE heap[y].kind = "ref"
  <2>1. Standing[h] = Father[y]
    BY <1>1, <1>13, <1>p DEF Told, CellAt
  <2>2. Standing'[h] = Standing[h] /\ Standing'[g] = Standing[h]
    BY <1>10, <1>11, <1>13, <2>1
  <2>3. Pull'[t] = Pull[y]
    <3>1. CellAt(heap, hold, Father, h) = Father[y]
      BY <2>1 DEF Told
    <3>2. Father[y] \in Obj /\ heap[Father[y]].kind = "ref" /\ heap[Father[y]].ptr = Pull[y]
      BY <1>1, <1>13, <1>p, <3>1, CellFacts DEF Told
    <3>3. heap'[Father'[t]].ptr = Pull'[t] /\ heap'[Father'[t]].kind = "ref"
      BY <1>4, <1>10 DEF Stands
    <3>4. Father[y] # t
      BY <1>2, <3>2
    <3> QED BY <1>4, <1>10, <1>13, <3>2, <3>3, <3>4
  <2>4. View'[Pull'[t]] = View[Pull[y]]
    BY <1>9, <2>3
  <2>5. Seen[Standing[h]] = View[Pull[y]] /\ Standing[h] # NULL
    BY <1>1, <1>p DEF Told, ValAt
  <2>6. Cells!Place(g, Standing[h], Seen[Standing[h]])
    <3>1. Seen'[Standing[h]] = Seen[Standing[h]]
      BY <1>12, <2>2, <2>4, <2>5
    <3>2. Stays(h)
      BY <2>2, <3>1 DEF Stays
    <3>3. Moves(g, Standing[h], Seen[Standing[h]])
      BY <1>7, <2>2, <2>5, <3>1, <3>2 DEF Moves
    <3> QED BY <3>3, PlaceIs
  <2> QED BY <2>6 DEF Cells!Share
<1>14. CASE heap[y].kind = "list"
  <2>1. Father'[t] = t
    BY <1>10, <1>14
  <2>2. Pull'[t] = y
    BY <1>4, <1>10, <2>1 DEF Stands
  <2>3. Pull[y] = y
    BY <1>3, <1>14
  <2>4. View'[Pull'[t]] = View[Pull[y]]
    BY <1>9, <2>2, <2>3
  <2>5. Seen[Standing[h]] = View[Pull[y]] /\ Standing[h] # NULL
    BY <1>1, <1>p DEF Told, ValAt
  <2>6. t \in (Holder \cup Obj) \ Cells!InUse
    BY <1>2 DEF Told
  <2>7. Standing' = [k \in Holder |-> IF k = g \/ k = h THEN t ELSE Standing[k]]
    BY <1>7, <1>11, <2>1 DEF Told, AllCells, Stays
  <2>8. ASSUME NEW d \in (Cells!InUse)'
        PROVE  Seen'[d] = IF d = t THEN Seen[Standing[h]] ELSE Seen[d]
    <3>1. PICK k \in Holder : Standing'[k] = d /\ d # NULL
      BY <2>8 DEF Told, AllCells
    <3>2. Seen'[t] = Seen[Standing[h]]
      BY <1>11, <1>12, <2>1, <2>4, <2>5
    <3>3. CASE k = g \/ k = h
      BY <1>11, <2>1, <3>1, <3>2, <3>3
    <3>4. CASE ~ (k = g \/ k = h)
      <4>1. Stays(k)
        BY <1>7, <3>4
      <4> QED BY <3>1, <3>2, <4>1 DEF Stays
    <3> QED BY <3>3, <3>4
  <2>9. Seen' = [d \in (Cells!InUse)' |-> IF d = t THEN Seen[Standing[h]] ELSE Seen[d]]
    BY <2>8 DEF Told, AllCells
  <2> QED BY <2>6, <2>7, <2>9 DEF Cells!Refer
<1> QED BY <1>3, <1>13, <1>14

(* jbl_derefer: only this variable stood at the reference that goes; it sees  *)
(* the same list from a cell of its own.                                      *)
LEMMA DereferSeen ==
  ASSUME SlNow, Told, Told', NEW h \in Holder, Derefer(h), fault' = "none"
  PROVE  Cells!Derefer(h)
<1>p. PICK y, l, f : y = hold[h] /\ l = Pull[y] /\ f = Father[y]
  OBVIOUS
<1>1. /\ heap' = [o \in Obj |-> IF o \in Freed[y] THEN Unused ELSE heap[o]]
      /\ hold' = [hold EXCEPT ![h] = l]
      /\ hold \in [Holder -> Obj \cup {NULL}] /\ heap \in Heaps
      /\ y # NULL /\ heap[y].kind = "ref"
  BY <1>p DEF Derefer, IsRef, Told, World, SlGood, Typed
<1>2. /\ y \in Obj /\ Standing[h] = f /\ f \in Obj /\ Stands(heap, Pull, Father, y)
      /\ Seen[Standing[h]] = View[l] /\ l \in Obj /\ heap[l].kind = "list"
  <2>1. y \in Obj /\ Stands(heap, Pull, Father, y)
    BY <1>1, <1>p, CellFacts DEF Told
  <2>2. Standing[h] = f
    BY <1>1, <1>p DEF Told, CellAt
  <2>3. Seen[Standing[h]] = View[l]
    BY <1>1, <1>p DEF Told, ValAt
  <2> QED BY <1>1, <1>p, <2>1, <2>2, <2>3 DEF Stands
<1>3. f \in Freed[y] /\ \A q \in Freed[y] : q \in Obj /\ heap[q].kind = "ref"
  <2>1. AllOne(y)
    BY <1>2, <1>p, DereferOnes
  <2> QED BY <1>1, <1>2, <1>p, <2>1, FreedIs DEF IsRef
<1>4. Quiet(heap, heap') /\ heap'[f].kind = "unused" /\ heap'[l] = heap[l]
  <2>1. \A o \in Obj : o \in Freed[y] => heap'[o].kind = "unused"
    BY <1>1 DEF Unused
  <2>2. \A o \in Obj : o \notin Freed[y] => heap'[o] = heap[o]
    BY <1>1
  <2>3. l \notin Freed[y]
    BY <1>2, <1>3
  <2> QED BY <1>2, <1>3, <2>1, <2>2, <2>3 DEF Quiet
<1>5. hold'[h] = l /\ \A g \in Holder \ {h} : hold'[g] = hold[g]
  BY <1>1
<1>6. \A g \in Holder \ {h} : Stays(g)
  BY <1>4, <1>5, StaysIs
<1>7. Standing'[h] = h /\ Seen'[h] = View[l] /\ l # NULL
  <2>1. l # NULL
    BY <1>2, NullIs
  <2>2. CellAt(heap', hold', Father', h) = h
    BY <1>2, <1>4, <1>5, <2>1 DEF CellAt
  <2>3. Standing'[h] = h
    BY <2>2 DEF Told
  <2>4. Seen'[h] = View'[Pull'[l]]
    BY <1>5, <2>1, <2>3 DEF Told, ValAt
  <2>5. heap[l].kind # "unused" /\ heap'[l].kind # "unused"
    BY <1>2, <1>4
  <2>6. View'[Pull'[l]] = View[Pull[l]]
    BY <1>2, <1>4, <2>5, QuietIs DEF Told
  <2>7. Pull[l] = l
    <3>1. Stands(heap, Pull, Father, l)
      BY <1>2 DEF Told, World, Reads
    <3> QED BY <1>2, <3>1 DEF Stands
  <2> QED BY <2>1, <2>3, <2>4, <2>6, <2>7
<1>8. ASSUME NEW g \in Holder \ {h}, Standing[g] = f PROVE FALSE
  <2>1. Standing'[g] = f
    BY <1>6, <1>8 DEF Stays
  <2>2. f # NULL
    BY <1>2, NullIs
  <2>3. CellAt(heap', hold', Father', g) = f /\ hold'[g] # NULL
    BY <2>1, <2>2 DEF Told
  <2>4. heap'[f].kind = "ref"
    <3>1. heap'[hold'[g]].kind \in {"list", "ref"}
      BY <2>3, CellFacts DEF Told
    <3>2. heap'[hold'[g]].kind # "list"
      <4>1. g \notin Obj
        BY SharedAssumption
      <4>2. heap'[hold'[g]].kind = "list" => f = g
        BY <2>3, CellFacts DEF Told
      <4> QED BY <1>2, <4>1, <4>2
    <3> QED BY <2>3, <3>1, <3>2, CellFacts DEF Told
  <2> QED BY <1>4, <2>4
<1>9. Cells!Place(h, h, Seen[Standing[h]])
  <2>1. h # NULL
    BY DEF Told
  <2>2. Moves(h, h, Seen[Standing[h]])
    BY <1>2, <1>6, <1>7, <2>1 DEF Moves
  <2> QED BY <2>2, PlaceIs
<1>10. h \in (Holder \cup Obj) \ Cells!InUse
  <2>1. Standing[h] # h
    BY <1>2, SharedAssumption
  <2> QED BY <2>1, FreeCell
<1>11. Cells!Snapshot(h, h)
  BY <1>9, <1>10 DEF Cells!Snapshot
<1>12. \A g \in Holder \ {h} : Standing[g] # Standing[h]
  BY <1>2, <1>8
<1> QED BY <1>11, <1>12 DEF Cells!Derefer

(* A step that changes no variable and no contents is not seen.               *)
LEMMA QuietSeen ==
  ASSUME Told, Told', Quiet(heap, heap'), hold' = hold
  PROVE  Standing' = Standing /\ Seen' = Seen
<1>1. \A g \in Holder : Stays(g)
  BY StaysIs
<1>2. \A g \in Holder : Standing'[g] = Standing[g]
  BY <1>1 DEF Stays
<1>3. Cells!InUse = {Standing[g] : g \in Holder} \ {NULL} /\ Seen = [d \in Cells!InUse |-> Seen[d]]
  BY DEF Told, AllCells
<1>4. /\ Standing' = Standing /\ (Cells!InUse)' = Cells!InUse
      /\ Seen' = [d \in Cells!InUse |-> Seen'[d]]
  BY <1>2, CellsKept
<1>5. ASSUME NEW d \in Cells!InUse PROVE Seen'[d] = Seen[d]
  <2>1. PICK g \in Holder : Standing[g] = d /\ d # NULL
    BY <1>3, <1>5
  <2>2. Stays(g)
    BY <1>1
  <2> QED BY <2>1, <2>2 DEF Stays
<1>6. Seen' = Seen
  BY ONLY <1>3, <1>4, <1>5
<1> QED BY <1>4, <1>6

(* Freeing what nobody holds is seen by nobody.                               *)
LEMMA FreeStepSeen ==
  ASSUME SlNow, Told, Told', FreeStep
  PROVE  Standing' = Standing /\ Seen' = Seen
<1>p. PICK t : t = Head(todo)
  OBVIOUS
<1>0. hold' = hold /\ heap \in Heaps
  BY DEF FreeStep, Told, World, SlGood, Typed
<1>1. \/ t \in Obj /\ heap' = [heap EXCEPT ![t].cnt = @ - 1]
      \/ t \in Obj /\ heap' = [heap EXCEPT ![t] = Unused]
      \/ heap' = heap
  BY <1>p DEF FreeStep
<1>2. Quiet(heap, heap')
  <2>1. CASE t \in Obj /\ heap' = [heap EXCEPT ![t].cnt = @ - 1]
    <3>1. heap[t] \in Object
      BY <1>0, <2>1 DEF Heaps
    <3>2. \A x \in Obj : heap'[x] = IF x = t THEN [heap[t] EXCEPT !.cnt = @ - 1] ELSE heap[x]
      BY <1>0, <2>1 DEF Heaps
    <3>3. \A x \in Obj : /\ heap'[x].kind = heap[x].kind /\ heap'[x].ptr = heap[x].ptr
                         /\ heap'[x].elems = heap[x].elems
      BY <3>1, <3>2 DEF Object
    <3> QED BY <3>3 DEF Quiet
  <2>2. CASE t \in Obj /\ heap' = [heap EXCEPT ![t] = Unused]
    <3>1. \A x \in Obj : heap'[x] = IF x = t THEN Unused ELSE heap[x]
      BY <1>0, <2>2 DEF Heaps
    <3> QED BY <3>1 DEF Quiet, Unused
  <2>3. CASE heap' = heap
    BY <2>3 DEF Quiet
  <2> QED BY <1>1, <2>1, <2>2, <2>3
<1> QED BY <1>0, <1>2, QuietSeen
-----------------------------------------------------------------------------
(* What is counted once has one owner.                                        *)
OnlyOwner(hp, hd, o) ==
  /\ \A h \in Holder : hd[h] = o => /\ \A g \in Holder : hd[g] = o => g = h
                                    /\ \A q \in Obj : ~ Leads(hp, q, o)
  /\ \A q \in Obj : Leads(hp, q, o) => /\ \A g \in Holder : hd[g] # o
                                       /\ \A q2 \in Obj : Leads(hp, q2, o) => q2 = q
                                       /\ Count(hp[q].elems, o) \in 0 .. 1

(* Without that owner it has none.                                            *)
LEMMA OnlyOwnerIs ==
  ASSUME NEW hp, NEW hd, NEW td, SlGood(hp, hd, td), NEW o \in Obj, hp[o].cnt = 1
  PROVE  OnlyOwner(hp, hd, o)
<1>0. /\ hp \in Heaps /\ Shaped(hp) /\ hd \in [Holder -> Obj \cup {NULL}] /\ td \in Seq(Payload)
      /\ Owning(hp, hd, td, o) = 1
  BY DEF SlGood, Typed, Exact
<1>1. ASSUME NEW h \in Holder, hd[h] = o
      PROVE  /\ \A g \in Holder : hd[g] = o => g = h
             /\ \A q \in Obj : ~ Leads(hp, q, o)
  <2>p. PICK hd2 : hd2 = [hd EXCEPT ![h] = NULL]
    OBVIOUS
  <2>1. hd2[h] = NULL /\ \A g \in Holder : g # h => hd2[g] = hd[g]
    BY <1>0, <2>p
  <2>2. HoldBalance(hp, hd, hd2, td, td, h, o)
    BY <1>0, <2>1, OwningHold
  <2>3. Is(hd[h], o) = 1 /\ Is(hd2[h], o) = 0
    BY <1>1, <2>1, NullIs DEF Is
  <2>4. Owning(hp, hd2, td, o) = 0
    <3> PICK a, c : a = Owning(hp, hd2, td, o) /\ c = Count(td, o)
      OBVIOUS
    <3>1. a \in Nat /\ c \in Nat /\ a + 1 + c = 1 + 0 + c
      BY <1>0, <2>2, <2>3 DEF HoldBalance
    <3>2. a = 0
      BY ONLY <3>1
    <3> QED BY <3>2
  <2>5. Unowned(hp, hd2, td, o)
    BY <1>0, <2>4, OwningIs
  <2> QED BY <2>1, <2>5 DEF Unowned, Leads
<1>2. ASSUME NEW q \in Obj, Leads(hp, q, o)
      PROVE  /\ \A g \in Holder : hd[g] # o
             /\ \A q2 \in Obj : Leads(hp, q2, o) => q2 = q
             /\ Count(hp[q].elems, o) \in 0 .. 1
  <2>p. PICK hp2 : hp2 = [hp EXCEPT ![q] = Unused]
    OBVIOUS
  <2>0. Unused \in Object /\ Unused.ptr = NULL /\ Unused.elems = <<>>
    BY EmptyIs DEF Unused, Object
  <2>1. /\ hp2 \in Heaps /\ hp2[q].ptr = NULL /\ hp2[q].elems = <<>>
        /\ \A x \in Obj : x # q => hp2[x] = hp[x]
    BY <1>0, <2>0, <2>p DEF Heaps
  <2>2. HeapBalance(hp, hp2, hd, td, td, q, o)
    BY <1>0, <2>1, OwningHeap DEF OnlyAt
  <2>3. Is(hp2[q].ptr, o) = 0 /\ Count(hp2[q].elems, o) = 0
    BY <2>1, EmptyIs
  <2>4. Owning(hp2, hd, td, o) = 0 /\ Count(hp[q].elems, o) \in 0 .. 1
    <3> PICK a, c, d, i : /\ a = Owning(hp2, hd, td, o) /\ c = Count(td, o)
                          /\ d = Count(hp[q].elems, o) /\ i = Is(hp[q].ptr, o)
      OBVIOUS
    <3>1. a \in Nat /\ c \in Nat /\ d \in Nat /\ a + i + d + c = 1 + 0 + 0 + c
      BY <1>0, <2>2, <2>3 DEF HeapBalance
    <3>2. i \in {0, 1} /\ (i = 1 \/ d # 0)
      BY <1>2 DEF Is, Leads
    <3>3. a = 0 /\ d \in 0 .. 1
      BY ONLY <3>1, <3>2
    <3> QED BY <3>3
  <2>5. Unowned(hp2, hd, td, o)
    BY <1>0, <2>1, <2>4, OwningIs
  <2> QED BY <2>1, <2>4, <2>5 DEF Unowned, Leads
<1> QED BY <1>1, <1>2 DEF OnlyOwner

(* The list of h gets the payloads u: it is new, its own, or its own from now *)
(* on, and then the variable or the last reference leads to the copy.         *)
SameAt(hp, hp2, o) ==
  hp2[o].kind = hp[o].kind /\ hp2[o].ptr = hp[o].ptr /\ hp2[o].elems = hp[o].elems
Unshared(hp, hd, pu, fa, hp2, hd2, h, t) ==
  \/ /\ hd[h] = NULL \/ hp[hd[h]].kind = "list"
     /\ hp[t].kind = "unused" /\ hd2 = [hd EXCEPT ![h] = t]
     /\ \A o \in Obj \ {t} : SameAt(hp, hp2, o)
  \/ /\ hd[h] # NULL /\ t = pu[hd[h]] /\ hp[t].cnt <= 1 /\ hd2 = hd
     /\ \A o \in Obj \ {t} : SameAt(hp, hp2, o)
     /\ hp[t].kind = "list"
  \/ /\ hd[h] # NULL /\ hp[hd[h]].kind = "ref" /\ hp[t].kind = "unused" /\ hd2 = hd
     /\ \A o \in Obj \ {t, fa[hd[h]]} : SameAt(hp, hp2, o)
     /\ hp2[fa[hd[h]]].kind = hp[fa[hd[h]]].kind /\ hp2[fa[hd[h]]].ptr = t
     /\ hp2[fa[hd[h]]].elems = hp[fa[hd[h]]].elems

(* What jbl_ll_extend leaves, counts aside.                                   *)
LEMMA UnsharedIs ==
  ASSUME SlNow, todo = <<>>, Room(1), NEW h \in Holder, NEW x, x = Extend(heap, hold, h)
  PROVE  Unshared(heap, hold, Pull, Father, x.heap, x.hold, h, x.thi)
<1>0. /\ heap \in Heaps /\ hold \in [Holder -> Obj \cup {NULL}]
      /\ World(heap, hold, todo, Pull, Father, View)
  BY ShowsAre DEF SlNow, SlGood, Typed, Shows
<1>t. PICK t : t = Fresh(heap)
  OBVIOUS
<1>1. t \in Obj /\ heap[t].kind = "unused"
  BY <1>0, <1>t, FreshIs DEF Room
<1>2. CASE hold[h] = NULL
  <2>1. x = [heap |-> [heap EXCEPT ![t] = ListOf(<<>>)],
             hold |-> [hold EXCEPT ![h] = t], thi |-> t]
    BY <1>2, <1>t DEF Extend
  <2>2. /\ x.hold = [hold EXCEPT ![h] = t] /\ x.thi = t
        /\ \A o \in Obj \ {t} : x.heap[o] = heap[o]
    BY <1>0, <1>1, <2>1 DEF Heaps
  <2> QED BY <1>1, <1>2, <2>2 DEF Unshared, SameAt
<1>3. CASE hold[h] # NULL
  <2>p. PICK y, l : y = hold[h] /\ l = Pull[y]
    OBVIOUS
  <2>1. /\ y \in Obj /\ heap[y].kind \in {"list", "ref"} /\ l \in Obj /\ heap[l].kind = "list"
        /\ heap[y].kind = "list" => l = y /\ Father[y] = NULL
        /\ heap[y].kind = "ref" => /\ Father[y] \in Obj /\ heap[Father[y]].kind = "ref"
                                   /\ Father[y] # NULL
    BY <1>0, <1>3, <2>p, CellFacts, NullIs DEF Stands
  <2>2. CASE heap[l].cnt <= 1
    <3>1. x = [heap |-> heap, hold |-> hold, thi |-> l]
      BY <1>3, <2>2, <2>p DEF Extend
    <3>2. x.heap = heap /\ x.hold = hold /\ x.thi = l
      BY <3>1
    <3> QED BY <1>3, <2>1, <2>2, <2>p, <3>2 DEF Unshared, SameAt
  <2>3. CASE ~ (heap[l].cnt <= 1)
    <3>p. PICK e, m, n : /\ e = heap[l].elems /\ m = PlusAll(heap, e)
                         /\ n = [m EXCEPT ![t] = ListOf(e), ![l].cnt = @ - 1]
      OBVIOUS
    <3>1. e \in Seq(Payload)
      BY <1>0, <2>1, <3>p DEF Heaps, Object
    <3>2. m \in Heaps /\ \A o \in Obj : SameAt(heap, m, o)
      BY <1>0, <3>1, <3>p, PlusAllIs DEF SameAt
    <3>3. \A o \in Obj \ {t} : SameAt(heap, n, o)
      <4> SUFFICES ASSUME NEW o \in Obj \ {t} PROVE SameAt(heap, n, o)
        OBVIOUS
      <4>1. CASE o = l
        <5>1. n[o] = [m[o] EXCEPT !.cnt = @ - 1]
          BY <1>1, <2>1, <3>2, <3>p, <4>1 DEF Heaps
        <5> QED BY <3>2, <5>1 DEF SameAt, Heaps, Object
      <4>2. CASE o # l
        <5>1. n[o] = m[o]
          BY <1>1, <2>1, <3>2, <3>p, <4>2 DEF Heaps
        <5> QED BY <3>2, <5>1 DEF SameAt
      <4> QED BY <4>1, <4>2
    <3>4. CASE heap[y].kind = "list"
      <4>1. x = [heap |-> n, hold |-> [hold EXCEPT ![h] = t], thi |-> t]
        BY <1>3, <1>t, <2>1, <2>3, <2>p, <3>4, <3>p DEF Extend
      <4>2. x.heap = n /\ x.hold = [hold EXCEPT ![h] = t] /\ x.thi = t
        BY <4>1
      <4> QED BY <1>1, <2>p, <3>3, <3>4, <4>2 DEF Unshared
    <3>5. CASE heap[y].kind = "ref"
      <4>p. PICK f, n2 : f = Father[y] /\ n2 = [n EXCEPT ![f].ptr = t]
        OBVIOUS
      <4>1. x = [heap |-> n2, hold |-> hold, thi |-> t]
        BY <1>3, <1>t, <2>1, <2>3, <2>p, <3>5, <3>p, <4>p DEF Extend
      <4>2. x.heap = n2 /\ x.hold = hold /\ x.thi = t
        BY <4>1
      <4>3. f \in Obj /\ f # t /\ f # l
        BY <1>1, <2>1, <3>5, <4>p
      <4>4. \A o \in Obj \ {f} : n2[o] = n[o]
        BY <3>2, <3>p, <4>p DEF Heaps
      <4>5. n2[f].kind = heap[f].kind /\ n2[f].ptr = t /\ n2[f].elems = heap[f].elems
        <5>1. n[f] = m[f] /\ n = [o \in Obj |-> n[o]]
          BY <1>1, <2>1, <3>2, <3>p, <4>3 DEF Heaps
        <5>2. m[f] \in Object
          BY <3>2, <4>3 DEF Heaps
        <5>3. n2[f] = [m[f] EXCEPT !.ptr = t]
          BY <4>3, <4>p, <5>1
        <5> QED BY <3>2, <4>3, <5>2, <5>3 DEF SameAt, Object
      <4>6. \A o \in Obj \ {t, f} : SameAt(heap, n2, o)
        BY <3>3, <4>4 DEF SameAt
      <4> QED BY <1>1, <1>3, <2>p, <3>5, <4>2, <4>5, <4>6, <4>p DEF Unshared
    <3> QED BY <2>1, <3>4, <3>5
  <2> QED BY <2>2, <2>3
<1> QED BY <1>2, <1>3

(* A list that is written differs in its payloads only.                       *)
LEMMA EditKeeps ==
  ASSUME NEW hp \in Heaps, NEW w \in Seq(Payload), NEW u \in Seq(Payload), NEW t \in Obj,
         NEW hp2, hp2 = EditAt(hp, w, t, u)
  PROVE  /\ \A o \in Obj \ {t} : SameAt(hp, hp2, o)
         /\ hp2[t].kind = hp[t].kind /\ hp2[t].ptr = hp[t].ptr /\ hp2[t].elems = u
<1>p. PICK m : m = PlusAll(hp, w)
  OBVIOUS
<1>1. m \in Heaps /\ \A o \in Obj : SameAt(hp, m, o)
  BY <1>p, PlusAllIs DEF SameAt
<1>2. hp2 = [m EXCEPT ![t] = [m[t] EXCEPT !.elems = u]]
  BY <1>p DEF EditAt
<1>3. m[t] \in Object
  BY <1>1 DEF Heaps
<1>4. /\ hp2[t] = [m[t] EXCEPT !.elems = u]
      /\ \A o \in Obj \ {t} : hp2[o] = m[o]
  BY <1>1, <1>2 DEF Heaps
<1>5. hp2[t].kind = m[t].kind /\ hp2[t].ptr = m[t].ptr /\ hp2[t].elems = u
  BY <1>3, <1>4 DEF Object
<1> QED BY <1>1, <1>4, <1>5 DEF SameAt

(* A call that extends h's list and writes it.                                *)
LEMMA RewriteIs ==
  ASSUME SlNow, todo = <<>>, Room(1), NEW h \in Holder, NEW x, x = Extend(heap, hold, h),
         NEW w \in Seq(Payload), NEW u \in Seq(Payload),
         NEW hp2, hp2 = EditAt(x.heap, w, x.thi, u)
  PROVE  /\ Unshared(heap, hold, Pull, Father, hp2, x.hold, h, x.thi)
         /\ x.thi \in Obj /\ hp2[x.thi].kind = "list" /\ hp2[x.thi].elems = u
<1>p. PICK hp, hd, t : hp = x.heap /\ hd = x.hold /\ t = x.thi
  OBVIOUS
<1>1. /\ hp \in Heaps /\ t \in Obj /\ hp[t].kind = "list"
      /\ Unshared(heap, hold, Pull, Father, hp, hd, h, t)
  <2>1. Extended(x, h)
    BY ReadyIs
  <2>2. Unshared(heap, hold, Pull, Father, hp, hd, h, t)
    BY <1>p, UnsharedIs
  <2> QED BY <1>p, <2>1, <2>2 DEF Extended, SlGood, Typed
<1>2. /\ \A o \in Obj \ {t} : SameAt(hp, hp2, o)
      /\ hp2[t].kind = "list" /\ hp2[t].elems = u
  BY <1>1, <1>p, EditKeeps
<1>3. \A o \in Obj \ {t} : SameAt(heap, hp, o) => SameAt(heap, hp2, o)
  BY <1>2 DEF SameAt
<1>4. Unshared(heap, hold, Pull, Father, hp2, hd, h, t)
  <2>1. CASE /\ hold[h] = NULL \/ heap[hold[h]].kind = "list"
             /\ heap[t].kind = "unused" /\ hd = [hold EXCEPT ![h] = t]
             /\ \A o \in Obj \ {t} : SameAt(heap, hp, o)
    BY <1>3, <2>1 DEF Unshared
  <2>2. CASE /\ hold[h] # NULL /\ t = Pull[hold[h]] /\ heap[t].cnt <= 1 /\ hd = hold
             /\ \A o \in Obj \ {t} : SameAt(heap, hp, o)
             /\ heap[t].kind = "list"
    BY <1>3, <2>2 DEF Unshared
  <2>3. CASE /\ hold[h] # NULL /\ heap[hold[h]].kind = "ref" /\ heap[t].kind = "unused"
             /\ hd = hold
             /\ \A o \in Obj \ {t, Father[hold[h]]} : SameAt(heap, hp, o)
             /\ hp[Father[hold[h]]].kind = heap[Father[hold[h]]].kind
             /\ hp[Father[hold[h]]].ptr = t
             /\ hp[Father[hold[h]]].elems = heap[Father[hold[h]]].elems
    <3>p. PICK f : f = Father[hold[h]]
      OBVIOUS
    <3>1. f \in Obj /\ heap[f].kind = "ref" /\ f # t
      <4>1. World(heap, hold, todo, Pull, Father, View)
        BY ShowsAre DEF Shows
      <4> QED BY <2>3, <3>p, <4>1, CellFacts DEF Stands
    <3>2. SameAt(hp, hp2, f)
      BY <1>2, <3>1
    <3> QED BY <1>3, <2>3, <3>2, <3>p DEF Unshared, SameAt
  <2> QED BY <1>1, <2>1, <2>2, <2>3 DEF Unshared
<1> QED BY <1>1, <1>2, <1>4, <1>p

(* The list at t written, and who sees it: what the variables show before and *)
(* after.                                                                     *)
Written(hp, hd, pu, fa, v, hp2, hd2, pu2, fa2, v2, h, t) ==
  /\ v2[t] = Looks(hp, fa, v, hp2[t].elems)
  /\ hd2[h] # NULL /\ ValAt(hd2, pu2, v2, h) = v2[t]
  /\ CellAt(hp2, hd2, fa2, h) = IF hd[h] = NULL THEN h ELSE CellAt(hp, hd, fa, h)
  /\ \A g \in Holder \ {h} :
       /\ CellAt(hp2, hd2, fa2, g) = CellAt(hp, hd, fa, g)
       /\ hd[g] # NULL => \/ ValAt(hd2, pu2, v2, g) = ValAt(hd, pu, v, g)
                          \/ hd[h] # NULL /\ CellAt(hp, hd, fa, g) = CellAt(hp, hd, fa, h)

(* A list that is changed in place is led to by its variable's way only.      *)
LEMMA OwnList ==
  ASSUME NEW hp, NEW hd, NEW td, NEW pu, NEW fa, NEW v, World(hp, hd, td, pu, fa, v),
         NEW h \in Holder, hd[h] # NULL, NEW t, t = pu[hd[h]], hp[t].cnt <= 1
  PROVE  /\ t \in Obj /\ hp[t].kind = "list"
         /\ \A q \in Obj : Count(hp[q].elems, t) = 0
         /\ \A g \in Holder : hd[g] = t => g = h
         /\ \A q \in Obj : hp[q].ptr = t => hp[hd[h]].kind = "ref" /\ q = fa[hd[h]]
<1>p. PICK y : y = hd[h]
  OBVIOUS
<1>0. /\ SlGood(hp, hd, td) /\ hp \in Heaps /\ Shaped(hp) /\ Living(hp)
  BY DEF World, SlGood, Typed
<1>1. /\ y \in Obj /\ hp[y].kind \in {"list", "ref"} /\ Stands(hp, pu, fa, y)
  BY <1>p, CellFacts
<1>2. t \in Obj /\ hp[t].kind = "list"
  BY <1>1, <1>p DEF Stands
<1>3. hp[t].cnt = 1
  <2>1. hp[t].cnt > 0 /\ hp[t].cnt \in Nat
    BY <1>0, <1>2 DEF Living, Heaps, Object
  <2> QED BY <2>1
<1>4. OnlyOwner(hp, hd, t)
  BY <1>0, <1>2, <1>3, OnlyOwnerIs
<1>5. \A q \in Obj : Count(hp[q].elems, t) # 0 \/ hp[q].ptr = t => Leads(hp, q, t)
  BY DEF Leads
<1>6. CASE hp[y].kind = "list"
  <2>1. hd[h] = t
    BY <1>1, <1>6, <1>p DEF Stands
  <2>2. /\ \A g \in Holder : hd[g] = t => g = h
        /\ \A q \in Obj : ~ Leads(hp, q, t)
    BY <1>4, <2>1 DEF OnlyOwner
  <2> QED BY <1>2, <1>5, <2>2
<1>7. CASE hp[y].kind = "ref"
  <2>p. PICK f : f = fa[y]
    OBVIOUS
  <2>1. f \in Obj /\ hp[f].ptr = t /\ hp[f].kind = "ref"
    BY <1>1, <1>7, <1>p, <2>p DEF Stands
  <2>2. Leads(hp, f, t)
    BY <1>5, <2>1
  <2>3. /\ \A g \in Holder : hd[g] # t
        /\ \A q \in Obj : Leads(hp, q, t) => q = f
    BY <1>4, <2>1, <2>2 DEF OnlyOwner
  <2>4. Count(hp[f].elems, t) = 0
    <3>1. hp[f].elems = <<>>
      BY <1>0, <2>1 DEF Shaped
    <3> QED BY <1>2, <3>1, EmptyIs
  <2> QED BY <1>2, <1>5, <1>7, <1>p, <2>3, <2>4, <2>p
<1> QED BY <1>1, <1>6, <1>7

(* In two heaps what is in use is read alike but for the lists in C.          *)
Same(hp, fa, v, hp2, fa2, v2, C) ==
  \A y \in Obj : hp[y].kind # "unused" /\ hp2[y].kind # "unused" =>
    hp2[y].kind = hp[y].kind /\ fa2[y] = fa[y] /\ (y \notin C => v2[y] = v[y])

(* So does each payload that is not in C.                                     *)
LEMMA LookIs ==
  ASSUME NEW hp, NEW fa, NEW v, NEW hp2, NEW fa2, NEW v2, NEW C,
         Same(hp, fa, v, hp2, fa2, v2, C), NEW p,
         p \in Obj => hp[p].kind # "unused" /\ hp2[p].kind # "unused" /\ p \notin C
  PROVE  Look(hp2, fa2, v2, p) = Look(hp, fa, v, p)
BY DEF Same, Look

(* A list that is written changes what its variable sees, and what those see  *)
(* that refer to the same cell, and nothing else.                             *)
LEMMA WrittenIs ==
  ASSUME NEW hp, NEW hd, NEW td, NEW pu, NEW fa, NEW v, World(hp, hd, td, pu, fa, v),
         NEW hp2, NEW hd2, NEW td2, NEW pu2, NEW fa2, NEW v2,
         World(hp2, hd2, td2, pu2, fa2, v2), NEW h \in Holder, NEW t \in Obj,
         Unshared(hp, hd, pu, fa, hp2, hd2, h, t), hp2[t].kind = "list"
  PROVE  Written(hp, hd, pu, fa, v, hp2, hd2, pu2, fa2, v2, h, t)
<1>p. PICK y, f : y = hd[h] /\ f = fa[hd[h]]
  OBVIOUS
<1>0. /\ SlGood(hp, hd, td) /\ SlGood(hp2, hd2, td2) /\ hp \in Heaps /\ hp2 \in Heaps
      /\ Shaped(hp) /\ hd \in [Holder -> Obj \cup {NULL}] /\ t # NULL
      /\ Reads(hp2, pu2, fa2, v2)
  BY NullIs DEF World, SlGood, Typed
<1> DEFINE A == /\ hd[h] = NULL \/ hp[y].kind = "list"
                /\ hp[t].kind = "unused" /\ hd2 = [hd EXCEPT ![h] = t]
                /\ \A o \in Obj \ {t} : SameAt(hp, hp2, o)
           B == /\ hd[h] # NULL /\ t = pu[y] /\ hp[t].cnt <= 1 /\ hd2 = hd
                /\ \A o \in Obj \ {t} : SameAt(hp, hp2, o)
                /\ hp[t].kind = "list"
           D == /\ hd[h] # NULL /\ hp[y].kind = "ref" /\ hp[t].kind = "unused" /\ hd2 = hd
                /\ \A o \in Obj \ {t, f} : SameAt(hp, hp2, o)
                /\ hp2[f].kind = hp[f].kind /\ hp2[f].ptr = t /\ hp2[f].elems = hp[f].elems
<1>1. A \/ B \/ D
  BY <1>p DEF Unshared
<1>2. /\ hd[h] # NULL =>
           /\ y \in Obj /\ hp[y].kind \in {"list", "ref"} /\ Stands(hp, pu, fa, y)
           /\ pu[y] \in Obj /\ hp[pu[y]].kind = "list"
           /\ hp[y].kind = "list" => CellAt(hp, hd, fa, h) = h /\ pu[y] = y
           /\ hp[y].kind = "ref" => /\ CellAt(hp, hd, fa, h) = f /\ f \in Obj
                                    /\ hp[f].kind = "ref" /\ hp[f].ptr = pu[y]
  BY <1>p, CellFacts DEF Stands
<1>3. /\ hp[t].kind = "unused" => \A q \in Obj : Count(hp[q].elems, t) = 0
      /\ B => /\ \A q \in Obj : Count(hp[q].elems, t) = 0
              /\ \A g \in Holder : hd[g] = t => g = h
              /\ \A q \in Obj : hp[q].ptr = t => hp[y].kind = "ref" /\ q = f
  <2>1. ASSUME hp[t].kind = "unused", NEW q \in Obj PROVE Count(hp[q].elems, t) = 0
    <3>1. ~ Leads(hp, q, t)
      BY <1>0, <2>1, UnusedIs
    <3> QED BY <3>1 DEF Leads
  <2>2. B => /\ \A q \in Obj : Count(hp[q].elems, t) = 0
             /\ \A g \in Holder : hd[g] = t => g = h
             /\ \A q \in Obj : hp[q].ptr = t => hp[y].kind = "ref" /\ q = f
    BY <1>p, OwnList
  <2> QED BY <2>1, <2>2
<1>4. /\ \A o \in Obj \ {t} : hp2[o].kind = hp[o].kind /\ hp2[o].elems = hp[o].elems
      /\ \A q \in Obj : Count(hp[q].elems, t) = 0
      /\ hp[t].kind # "unused" => hp[t].kind = "list"
      /\ D => f \in Obj /\ f # t /\ hp[f].kind = "ref" /\ hp[hp[f].ptr].kind = "list"
      /\ \A o \in Obj \ {t} : hp2[o].ptr = hp[o].ptr \/ (D /\ o = f)
  <2>1. CASE A
    BY <1>3, <2>1 DEF SameAt
  <2>2. CASE B
    BY <1>3, <2>2 DEF SameAt
  <2>3. CASE D
    BY <1>2, <1>3, <2>3 DEF SameAt
  <2> QED BY <1>1, <2>1, <2>2, <2>3
<1> HIDE DEF A, B, D
<1>D. D => hp2[f].ptr = t /\ hp[t].kind = "unused" /\ hd2 = hd /\ hd[h] # NULL
           /\ hp[y].kind = "ref"
  BY DEF D
<1>5. Steady(hp, hp2, {t})
  <2> SUFFICES ASSUME NEW x \in Obj, hp[x].kind # "unused", hp2[x].kind # "unused"
               PROVE  /\ hp2[x].kind = hp[x].kind
                      /\ hp[x].kind = "ref" => \/ hp2[x].ptr = hp[x].ptr
                                               \/ /\ hp[hp[x].ptr].kind = "list"
                                                  /\ hp2[hp2[x].ptr].kind = "list"
                      /\ x \notin {t} =>
                           /\ hp2[x].elems = hp[x].elems
                           /\ \A p \in Obj : Count(hp[x].elems, p) # 0 => p \notin {t}
    BY DEF Steady
  <2>1. CASE x = t
    BY <1>4, <2>1
  <2>2. CASE x # t
    BY <1>4, <1>D, <2>2
  <2> QED BY <2>1, <2>2
<1>6. Same(hp, fa, v, hp2, fa2, v2, {t})
  <2>1. \A x \in Obj : hp[x].kind # "unused" /\ hp2[x].kind # "unused" =>
           fa2[x] = fa[x] /\ (x \notin {t} => v2[x] = v[x])
    BY <1>5, SteadyIs
  <2> QED BY <1>5, <2>1 DEF Same, Steady
<1>7. v2[t] = Looks(hp, fa, v, hp2[t].elems)
  <2>p. PICK u : u = hp2[t].elems
    OBVIOUS
  <2>1. v2[t] = Looks(hp2, fa2, v2, u)
    BY <1>0, <2>p DEF Reads
  <2>2. ASSUME NEW k \in DOMAIN u PROVE Look(hp2, fa2, v2, u[k]) = Look(hp, fa, v, u[k])
    <3>p. PICK p : p = u[k]
      OBVIOUS
    <3>1. ASSUME p \in Obj PROVE hp[p].kind # "unused" /\ hp2[p].kind # "unused" /\ p # t
      <4>1. p \in Range(u)
        BY <3>p DEF Range
      <4>2. Leads(hp2, t, p)
        BY <1>0, <2>p, <4>1, InRange DEF Leads
      <4>3. hp2[p].kind # "unused"
        BY <1>0, <3>1, <4>2, OwnedLives
      <4>4. p # t
        <5>1. PICK r, b : Ranks(hp2, r, b)
          BY <1>0 DEF SlGood, Ranked
        <5>2. r[p] < r[t] /\ r[t] \in Nat
          BY <3>1, <4>2, <5>1 DEF Ranks
        <5>3. ~ (r[t] < r[t])
          BY <5>2
        <5> QED BY <5>2, <5>3
      <4> QED BY <1>4, <3>1, <4>3, <4>4
    <3>2. Look(hp2, fa2, v2, p) = Look(hp, fa, v, p)
      BY <1>6, <3>1, LookIs
    <3> QED BY <3>2, <3>p
  <2>3. Looks(hp2, fa2, v2, u) = Looks(hp, fa, v, u)
    BY <2>2 DEF Looks
  <2> QED BY <2>1, <2>3, <2>p
<1>8. /\ hd2[h] # NULL /\ ValAt(hd2, pu2, v2, h) = v2[t]
      /\ CellAt(hp2, hd2, fa2, h) = IF hd[h] = NULL THEN h ELSE CellAt(hp, hd, fa, h)
  <2>1. CASE A
    <3>1. hd2[h] = t
      BY <1>0, <2>1 DEF A
    <3>2. CellAt(hp2, hd2, fa2, h) = h
      BY <1>0, <3>1 DEF CellAt
    <3>3. pu2[t] = t
      BY <1>0 DEF Reads, Stands
    <3>4. hd[h] # NULL => CellAt(hp, hd, fa, h) = h
      BY <1>2, <2>1 DEF A
    <3> QED BY <1>0, <3>1, <3>2, <3>3, <3>4 DEF ValAt
  <2>2. ASSUME hd[h] # NULL, hd2 = hd, hp[y].kind = "ref", y # t, f # t, hp2[f].ptr = t
        PROVE  /\ hd2[h] # NULL /\ ValAt(hd2, pu2, v2, h) = v2[t]
               /\ CellAt(hp2, hd2, fa2, h) = CellAt(hp, hd, fa, h)
    <3>1. /\ y \in Obj /\ hp2[y].kind = "ref" /\ fa2[y] = fa[y]
      BY <1>2, <1>4, <1>6, <2>2 DEF Same
    <3>2. hp2[fa2[y]].ptr = pu2[y]
      BY <1>0, <3>1 DEF Reads, Stands
    <3> QED BY <1>p, <2>2, <3>1, <3>2 DEF CellAt, ValAt
  <2>3. CASE B
    <3>1. /\ hd[h] # NULL /\ t = pu[y] /\ hd2 = hd /\ hp[t].kind = "list"
          /\ \A o \in Obj \ {t} : SameAt(hp, hp2, o)
      BY <2>3 DEF B
    <3>2. CASE hp[y].kind = "list"
      <4>1. y = t /\ CellAt(hp, hd, fa, h) = h
        BY <1>2, <3>1, <3>2
      <4>2. CellAt(hp2, hd2, fa2, h) = h
        BY <1>p, <3>1, <4>1 DEF CellAt
      <4>3. pu2[t] = t
        BY <1>0 DEF Reads, Stands
      <4> QED BY <1>p, <3>1, <4>1, <4>2, <4>3 DEF ValAt
    <3>3. CASE hp[y].kind = "ref"
      <4>1. f \in Obj /\ hp[f].kind = "ref" /\ hp[f].ptr = t
        BY <1>2, <3>1, <3>3
      <4>2. f # t /\ y # t
        BY <3>1, <3>3, <4>1
      <4>3. hp2[f].ptr = t
        BY <3>1, <4>1, <4>2 DEF SameAt
      <4> QED BY <2>2, <3>1, <3>3, <4>2, <4>3
    <3> QED BY <1>2, <3>1, <3>2, <3>3
  <2>4. CASE D
    <3>1. y # t
      BY <1>D, <2>4
    <3> QED BY <1>4, <1>D, <2>2, <2>4, <3>1
  <2> QED BY <1>1, <2>1, <2>3, <2>4
<1>9. ASSUME NEW g \in Holder \ {h}
      PROVE  /\ CellAt(hp2, hd2, fa2, g) = CellAt(hp, hd, fa, g)
             /\ hd[g] # NULL => \/ ValAt(hd2, pu2, v2, g) = ValAt(hd, pu, v, g)
                                \/ hd[h] # NULL /\ CellAt(hp, hd, fa, g) = CellAt(hp, hd, fa, h)
  <2>p. PICK z : z = hd[g]
    OBVIOUS
  <2>1. hd2[g] = z
    BY <1>0, <1>1, <2>p DEF A, B, D
  <2>2. CASE z = NULL
    BY <2>1, <2>2, <2>p DEF CellAt
  <2>3. CASE z # NULL
    <3>1. /\ z \in Obj /\ hp[z].kind \in {"list", "ref"} /\ Stands(hp, pu, fa, z)
          /\ hp[z].kind = "list" => pu[z] = z
          /\ hp[z].kind = "ref" => /\ fa[z] \in Obj /\ hp[fa[z]].kind = "ref"
                                   /\ hp[fa[z]].ptr = pu[z] /\ CellAt(hp, hd, fa, g) = fa[z]
      BY <2>3, <2>p, CellFacts
    <3>2. z # t
      <4>1. CASE B
        BY <1>3, <2>p, <4>1
      <4>2. CASE A
        BY <3>1, <4>2 DEF A
      <4>3. CASE D
        BY <3>1, <4>3 DEF D
      <4> QED BY <1>1, <4>1, <4>2, <4>3
    <3>3. hp2[z].kind = hp[z].kind /\ fa2[z] = fa[z] /\ v2[z] = v[z]
      BY <1>4, <1>6, <3>1, <3>2 DEF Same
    <3>4. CellAt(hp2, hd2, fa2, g) = CellAt(hp, hd, fa, g)
      BY <2>1, <2>p, <3>3 DEF CellAt
    <3>5. CASE hp[z].kind = "list"
      <4>1. pu2[z] = z
        BY <1>0, <3>1, <3>3, <3>5 DEF Reads, Stands
      <4> QED BY <2>1, <2>p, <3>1, <3>3, <3>4, <3>5, <4>1 DEF ValAt
    <3>6. CASE hp[z].kind = "ref"
      <4>p. PICK q, l : q = fa[z] /\ l = pu[z]
        OBVIOUS
      <4>1. /\ q \in Obj /\ hp[q].kind = "ref" /\ hp[q].ptr = l /\ hp2[q].ptr = pu2[z]
            /\ CellAt(hp, hd, fa, g) = q /\ l \in Obj /\ hp[l].kind = "list"
        BY <1>0, <3>1, <3>3, <3>6, <4>p DEF Reads, Stands
      <4>2. q # t
        BY <1>4, <4>1
      <4>3. CASE D /\ q = f
        BY <1>2, <1>D, <3>4, <4>1, <4>3
      <4>4. CASE ~ (D /\ q = f)
        <5>1. pu2[z] = l
          BY <1>4, <4>1, <4>2, <4>4
        <5>2. CASE l = t
          <6>1. B
            BY <1>1, <4>1, <5>2 DEF A, D
          <6>2. hp[y].kind = "ref" /\ q = f
            BY <1>3, <4>1, <5>2, <6>1
          <6>3. hd[h] # NULL
            BY <6>1 DEF B
          <6> QED BY <1>2, <3>4, <4>1, <6>2, <6>3
        <5>3. CASE l # t
          <6>1. v2[l] = v[l]
            BY <1>4, <1>6, <4>1, <5>3 DEF Same
          <6> QED BY <2>1, <2>p, <3>4, <4>p, <5>1, <6>1 DEF ValAt
        <5> QED BY <5>2, <5>3
      <4> QED BY <4>3, <4>4
    <3> QED BY <3>1, <3>5, <3>6
  <2> QED BY <2>2, <2>3, <2>p
<1> QED BY <1>7, <1>8, <1>9 DEF Written
-----------------------------------------------------------------------------
(* What a list looks like when its payloads are changed: what payloads look   *)
(* like.                                                                      *)
Sights(hp, fa, v) == {Look(hp, fa, v, p) : p \in Payload}

(* As many payloads, each looked at.                                          *)
LEMMA LooksIs ==
  ASSUME NEW hp, NEW fa, NEW v, NEW s \in Seq(Payload), NEW m, m = Looks(hp, fa, v, s)
  PROVE  /\ m \in Seq(Sights(hp, fa, v)) /\ Len(m) = Len(s) /\ Len(s) \in Nat
         /\ DOMAIN m = 1 .. Len(s) /\ DOMAIN s = 1 .. Len(s)
         /\ \A i \in 1 .. Len(s) : m[i] = Look(hp, fa, v, s[i])
<1>1. DOMAIN s = 1 .. Len(s) /\ Len(s) \in Nat
  BY LenProperties
<1>2. m = [i \in 1 .. Len(s) |-> Look(hp, fa, v, s[i])]
  BY <1>1 DEF Looks
<1>3. \A i \in 1 .. Len(s) : s[i] \in Payload
  OBVIOUS
<1>4. \A i \in 1 .. Len(s) : Look(hp, fa, v, s[i]) \in Sights(hp, fa, v)
  BY <1>3 DEF Sights
<1> HIDE DEF Look
<1>5. m \in [1 .. Len(s) -> Sights(hp, fa, v)]
  BY <1>2, <1>4
<1>6. m \in Seq(Sights(hp, fa, v))
  BY <1>1, <1>5
<1>7. Len(m) = Len(s)
  BY <1>1, <1>2, <1>6
<1> QED BY <1>1, <1>2, <1>6, <1>7

(* Lists joined look joined.                                                  *)
LEMMA LooksJoin ==
  ASSUME NEW hp, NEW fa, NEW v, NEW s \in Seq(Payload), NEW t \in Seq(Payload)
  PROVE  Looks(hp, fa, v, Joined(s, t)) = Joined(Looks(hp, fa, v, s), Looks(hp, fa, v, t))
<1>p. PICK u, a, b, c, V : /\ u = Joined(s, t) /\ a = Looks(hp, fa, v, s)
                           /\ b = Looks(hp, fa, v, t) /\ c = Looks(hp, fa, v, u)
                           /\ V = Sights(hp, fa, v)
  OBVIOUS
<1>1. /\ u \in Seq(Payload) /\ Len(u) = Len(s) + Len(t)
      /\ \A i \in 1 .. Len(u) : u[i] = IF i <= Len(s) THEN s[i] ELSE t[i - Len(s)]
  BY <1>p DEF Joined
<1>2. /\ a \in Seq(V) /\ b \in Seq(V) /\ c \in Seq(V)
      /\ Len(a) = Len(s) /\ Len(b) = Len(t) /\ Len(c) = Len(u)
      /\ Len(s) \in Nat /\ Len(t) \in Nat
      /\ \A i \in 1 .. Len(s) : a[i] = Look(hp, fa, v, s[i])
      /\ \A i \in 1 .. Len(t) : b[i] = Look(hp, fa, v, t[i])
      /\ \A i \in 1 .. Len(u) : c[i] = Look(hp, fa, v, u[i])
  BY <1>1, <1>p, LooksIs
<1>3. PICK d : d = Joined(a, b)
  OBVIOUS
<1>4. /\ d \in Seq(V) /\ Len(d) = Len(a) + Len(b)
      /\ \A i \in 1 .. Len(d) : d[i] = IF i <= Len(a) THEN a[i] ELSE b[i - Len(a)]
  <2>1. a \in Seq(V) /\ b \in Seq(V)
    BY <1>2
  <2> QED BY ONLY <1>3, <2>1 DEF Joined
<1>5. ASSUME NEW i \in 1 .. Len(c) PROVE c[i] = d[i]
  <2>1. CASE i <= Len(s)
    <3>1. i \in 1 .. Len(s) /\ i \in 1 .. Len(u) /\ i \in 1 .. Len(d)
      BY <1>1, <1>2, <1>4, <1>5, <2>1
    <3> QED BY <1>1, <1>2, <1>4, <2>1, <3>1
  <2>2. CASE ~ (i <= Len(s))
    <3>1. i - Len(s) \in 1 .. Len(t) /\ i \in 1 .. Len(u) /\ i \in 1 .. Len(d)
      BY <1>1, <1>2, <1>4, <1>5, <2>2
    <3> QED BY <1>1, <1>2, <1>4, <2>2, <3>1
  <2> QED BY <2>1, <2>2
<1>6. Len(c) = Len(d)
  BY <1>1, <1>2, <1>4
<1>7. c = d
  BY <1>2, <1>4, <1>5, <1>6, SeqEqual
<1> QED BY <1>3, <1>7, <1>p

Part(s, i, j) == SubSeq(s, i, j)

(* A part of a list looks as it does in the list.                             *)
LEMMA LooksPart ==
  ASSUME NEW hp, NEW fa, NEW v, NEW s \in Seq(Payload), NEW i \in 1 .. Len(s) + 1,
         NEW j \in 0 .. Len(s)
  PROVE  /\ Part(s, i, j) \in Seq(Payload)
         /\ Looks(hp, fa, v, Part(s, i, j)) = Part(Looks(hp, fa, v, s), i, j)
<1>p. PICK u, a, c, V : /\ u = Part(s, i, j) /\ a = Looks(hp, fa, v, s)
                        /\ c = Looks(hp, fa, v, u) /\ V = Sights(hp, fa, v)
  OBVIOUS
<1>1. /\ u \in Seq(Payload) /\ Len(u) = IF i <= j THEN j - i + 1 ELSE 0
      /\ \A k \in 1 .. Len(u) : u[k] = s[i + k - 1]
  BY <1>p DEF Part
<1>2. /\ a \in Seq(V) /\ c \in Seq(V) /\ Len(a) = Len(s) /\ Len(c) = Len(u)
      /\ Len(s) \in Nat /\ Len(u) \in Nat
      /\ \A k \in 1 .. Len(s) : a[k] = Look(hp, fa, v, s[k])
      /\ \A k \in 1 .. Len(u) : c[k] = Look(hp, fa, v, u[k])
  <2>1. /\ a \in Seq(V) /\ Len(a) = Len(s) /\ Len(s) \in Nat
        /\ \A k \in 1 .. Len(s) : a[k] = Look(hp, fa, v, s[k])
    BY <1>p, LooksIs
  <2>2. u \in Seq(Payload)
    BY <1>1
  <2>3. /\ c \in Seq(V) /\ Len(c) = Len(u) /\ Len(u) \in Nat
        /\ \A k \in 1 .. Len(u) : c[k] = Look(hp, fa, v, u[k])
    BY <1>p, <2>2, LooksIs
  <2> QED BY <2>1, <2>3
<1>3. PICK d : d = Part(a, i, j)
  OBVIOUS
<1>4. /\ d \in Seq(V) /\ Len(d) = IF i <= j THEN j - i + 1 ELSE 0
      /\ \A k \in 1 .. Len(d) : d[k] = a[i + k - 1]
  BY <1>2, <1>3 DEF Part
<1>5. ASSUME NEW k \in 1 .. Len(c) PROVE c[k] = d[k]
  <2>1. k \in 1 .. Len(u) /\ k \in 1 .. Len(d) /\ i + k - 1 \in 1 .. Len(s)
    BY <1>1, <1>2, <1>4, <1>5
  <2> QED BY <1>1, <1>2, <1>4, <2>1
<1>6. c = d
  BY <1>1, <1>2, <1>4, <1>5, SeqEqual
<1> QED BY <1>1, <1>3, <1>6, <1>p

Single(p) == << p >>

(* One payload.                                                               *)
LEMMA LooksOne ==
  ASSUME NEW hp, NEW fa, NEW v, NEW p \in Payload
  PROVE  Single(p) \in Seq(Payload) /\ Looks(hp, fa, v, Single(p)) = Single(Look(hp, fa, v, p))
<1>p. PICK s, m, n : s = Single(p) /\ m = Looks(hp, fa, v, s) /\ n = Single(Look(hp, fa, v, p))
  OBVIOUS
<1>1. s \in Seq(Payload) /\ Len(s) = 1 /\ s[1] = p
  BY <1>p DEF Single
<1>2. m \in Seq(Sights(hp, fa, v)) /\ Len(m) = 1 /\ m[1] = Look(hp, fa, v, p)
  BY <1>1, <1>p, LooksIs
<1>3. Look(hp, fa, v, p) \in Sights(hp, fa, v)
  BY DEF Sights
<1>4. n \in Seq(Sights(hp, fa, v)) /\ Len(n) = 1 /\ n[1] = Look(hp, fa, v, p)
  BY <1>3, <1>p DEF Single
<1>5. \A k \in 1 .. Len(m) : m[k] = n[k]
  BY <1>2, <1>4
<1>6. m = n
  BY <1>2, <1>4, <1>5, SeqEqual
<1> QED BY <1>1, <1>6, <1>p

Inserted(s, k, p) == InsertAt(s, k, p)
Removed(s, k) == RemoveAt(s, k)

(* A list with an item put in looks like the list's look with one put in.     *)
LEMMA LooksInsert ==
  ASSUME NEW hp, NEW fa, NEW v, NEW s \in Seq(Payload), NEW k \in 1 .. Len(s) + 1,
         NEW p \in Payload
  PROVE  /\ Inserted(s, k, p) \in Seq(Payload) /\ Len(Inserted(s, k, p)) = Len(s) + 1
         /\ Inserted(s, k, p)[k] = p
         /\ Looks(hp, fa, v, Inserted(s, k, p))
            = Inserted(Looks(hp, fa, v, s), k, Look(hp, fa, v, p))
<1>p. PICK a, b, c, m, n : /\ a = Part(s, 1, k - 1) /\ b = Part(s, k, Len(s)) /\ c = Single(p)
                           /\ m = Looks(hp, fa, v, s) /\ n = Look(hp, fa, v, p)
  OBVIOUS
<1>0. Len(s) \in Nat /\ Len(m) = Len(s) /\ k - 1 \in 0 .. Len(s) /\ 1 \in 1 .. Len(s) + 1
      /\ Len(s) \in 0 .. Len(s)
  BY <1>p, LooksIs
<1>1. /\ a \in Seq(Payload) /\ Looks(hp, fa, v, a) = Part(m, 1, k - 1)
      /\ b \in Seq(Payload) /\ Looks(hp, fa, v, b) = Part(m, k, Len(s))
  BY <1>0, <1>p, LooksPart
<1>2. c \in Seq(Payload) /\ Looks(hp, fa, v, c) = Single(n)
  BY <1>p, LooksOne
<1>3. PICK d : d = Joined(a, c)
  OBVIOUS
<1>4. d \in Seq(Payload) /\ Looks(hp, fa, v, d) = Joined(Part(m, 1, k - 1), Single(n))
  <2>1. d \in Seq(Payload)
    BY <1>1, <1>2, <1>3 DEF Joined
  <2> QED BY <1>1, <1>2, <1>3, <2>1, LooksJoin
<1>5. Inserted(s, k, p) = Joined(d, b)
  BY <1>3, <1>p DEF Inserted, InsertAt, Joined, Part, Single
<1>6. Inserted(m, k, n) = Joined(Joined(Part(m, 1, k - 1), Single(n)), Part(m, k, Len(s)))
  BY <1>0 DEF Inserted, InsertAt, Joined, Part, Single
<1>7. Looks(hp, fa, v, Joined(d, b)) = Joined(Looks(hp, fa, v, d), Looks(hp, fa, v, b))
  BY <1>1, <1>4, LooksJoin
<1>8. /\ Len(a) = k - 1 /\ Len(b) = Len(s) - k + 1
  BY <1>0, <1>p DEF Part
<1>9. /\ Joined(d, b) \in Seq(Payload) /\ Len(Joined(d, b)) = Len(s) + 1
      /\ Joined(d, b)[k] = p
  <2>1. d \in Seq(Payload) /\ Len(d) = k /\ d[k] = p
    BY <1>0, <1>1, <1>2, <1>3, <1>8, <1>p DEF Joined, Single
  <2>2. /\ Joined(d, b) \in Seq(Payload) /\ Len(Joined(d, b)) = k + (Len(s) - k + 1)
        /\ Joined(d, b)[k] = d[k]
    BY <1>1, <1>8, <2>1 DEF Joined
  <2> QED BY <1>0, <2>1, <2>2
<1> QED BY <1>1, <1>4, <1>5, <1>6, <1>7, <1>9, <1>p

(* The same of an item taken out.                                             *)
LEMMA LooksRemove ==
  ASSUME NEW hp, NEW fa, NEW v, NEW s \in Seq(Payload), NEW k \in 1 .. Len(s)
  PROVE  Looks(hp, fa, v, Removed(s, k)) = Removed(Looks(hp, fa, v, s), k)
<1>p. PICK a, b, m : /\ a = Part(s, 1, k - 1) /\ b = Part(s, k + 1, Len(s))
                     /\ m = Looks(hp, fa, v, s)
  OBVIOUS
<1>0. /\ Len(s) \in Nat /\ Len(m) = Len(s) /\ k - 1 \in 0 .. Len(s) /\ 1 \in 1 .. Len(s) + 1
      /\ Len(s) \in 0 .. Len(s) /\ k + 1 \in 1 .. Len(s) + 1
  BY <1>p, LooksIs
<1>1. /\ a \in Seq(Payload) /\ Looks(hp, fa, v, a) = Part(m, 1, k - 1)
      /\ b \in Seq(Payload) /\ Looks(hp, fa, v, b) = Part(m, k + 1, Len(s))
  BY <1>0, <1>p, LooksPart
<1>2. Removed(s, k) = Joined(a, b)
  BY <1>p DEF Removed, RemoveAt, Joined, Part
<1>3. Removed(m, k) = Joined(Part(m, 1, k - 1), Part(m, k + 1, Len(s)))
  BY <1>0 DEF Removed, RemoveAt, Joined, Part
<1> QED BY <1>1, <1>2, <1>3, <1>p, LooksJoin
-----------------------------------------------------------------------------
(* A change seen at one cell: nobody moves, and who stands elsewhere sees     *)
(* what was seen.                                                             *)
Alters(h) ==
  \A g \in Holder : /\ Standing'[g] = Standing[g]
                    /\ Standing[g] # NULL => \/ Standing[g] = Standing[h]
                                             \/ Seen'[Standing[g]] = Seen[Standing[g]]

(* Such a step changes the cell of its variable, if what it does there is one *)
(* of the ways to change a list.                                              *)
LEMMA ChangeCell ==
  ASSUME Told, Told', NEW h \in Holder, Alters(h),
         Cells!Edited(Seen[Standing[h]], Seen'[Standing[h]])
  PROVE  Cells!Change(h)
<1>0. \A g \in Holder : Standing'[g] = Standing[g]
  BY DEF Alters
<1>1. Standing' = Standing
  BY <1>0, CellsKept
<1>2. DOMAIN Seen' = Cells!InUse
  BY <1>0, CellsKept DEF Told, AllCells
<1>3. ASSUME NEW d \in Cells!InUse \ {Standing[h]} PROVE Seen'[d] = Seen[d]
  <2>1. PICK g \in Holder : Standing[g] = d /\ d # NULL
    BY <1>3 DEF Told, AllCells
  <2> QED BY <1>3, <2>1 DEF Alters
<1> QED BY <1>1, <1>2, <1>3 DEF Cells!Change

(* The list of h is written: it is at t and has the payloads u.               *)
Rewrites(h, t, u) ==
  /\ Unshared(heap, hold, Pull, Father, heap', hold', h, t)
  /\ t \in Obj /\ heap'[t].kind = "list" /\ heap'[t].elems = u
Saw(s) == Looks(heap, Father, View, s)
Makes(h) == IF Standing[h] = NULL THEN Cells!New(h) ELSE Cells!Change(h)

(* To write a list is to change the cell of its variable, or to make one.     *)
LEMMA ChangeSeen ==
  ASSUME Told, Told', NEW h \in Holder, NEW t, NEW u, Rewrites(h, t, u),
         Cells!Edited(Saw(Elems(h)), Saw(u))
  PROVE  Makes(h)
<1>1. Written(heap, hold, Pull, Father, View, heap', hold', Pull', Father', View', h, t)
  BY WrittenIs DEF Told, Rewrites
<1>2. View'[t] = Saw(u)
  BY <1>1 DEF Written, Rewrites, Saw
<1>3. /\ hold'[h] # NULL /\ ValAt(hold', Pull', View', h) = View'[t]
      /\ CellAt(heap', hold', Father', h)
         = IF hold[h] = NULL THEN h ELSE CellAt(heap, hold, Father, h)
      /\ \A g \in Holder \ {h} :
           /\ CellAt(heap', hold', Father', g) = CellAt(heap, hold, Father, g)
           /\ hold[g] # NULL =>
                \/ ValAt(hold', Pull', View', g) = ValAt(hold, Pull, View, g)
                \/ /\ hold[h] # NULL
                   /\ CellAt(heap, hold, Father, g) = CellAt(heap, hold, Father, h)
  BY <1>1 DEF Written
<1>4. /\ Standing'[h] = IF hold[h] = NULL THEN h ELSE Standing[h]
      /\ Seen'[Standing'[h]] = Saw(u)
      /\ \A g \in Holder \ {h} :
           /\ Standing'[g] = Standing[g]
           /\ Standing[g] # NULL => \/ Seen'[Standing[g]] = Seen[Standing[g]]
                                    \/ hold[h] # NULL /\ Standing[g] = Standing[h]
  BY <1>2, <1>3 DEF Told
<1>5. CASE Standing[h] = NULL
  <2>1. hold[h] = NULL /\ h # NULL
    BY <1>5 DEF Told
  <2>2. Saw(Elems(h)) = <<>>
    BY <2>1 DEF Elems, Saw, Looks
  <2>3. Cells!Place(h, h, Seen'[h])
    <3>1. Moves(h, h, Seen'[h])
      BY <1>4, <2>1 DEF Moves, Stays
    <3> QED BY <3>1, PlaceIs
  <2>4. h \in (Holder \cup Obj) \ Cells!InUse
    BY <1>5, <2>1, FreeCell
  <2>5. Cells!Edited(<<>>, Seen'[h])
    BY <1>4, <2>1, <2>2
  <2> QED BY <1>5, <2>3, <2>4, <2>5 DEF Cells!New, Makes
<1>6. CASE Standing[h] # NULL
  <2>1. hold[h] # NULL
    BY <1>6 DEF Told
  <2>2. Seen[Standing[h]] = Saw(Elems(h))
    <3>1. Seen[Standing[h]] = View[Pull[hold[h]]]
      BY <2>1 DEF Told, ValAt
    <3>2. Pull[hold[h]] \in Obj
      BY <2>1, CellFacts DEF Told, Stands
    <3>3. View[Pull[hold[h]]] = Looks(heap, Father, View, heap[Pull[hold[h]]].elems)
      BY <3>2 DEF Told, World, Reads
    <3> QED BY <2>1, <3>1, <3>3 DEF Elems, Saw
  <2>3. Alters(h)
    BY <1>4, <2>1 DEF Alters
  <2>4. Cells!Edited(Seen[Standing[h]], Seen'[Standing[h]])
    BY <1>4, <2>1, <2>2
  <2> QED BY <1>6, <2>3, <2>4, ChangeCell DEF Makes
<1> QED BY <1>5, <1>6
-----------------------------------------------------------------------------
(* The ways to write a list are the ways to change what is seen: an item put  *)
(* in (jbl_ll_insert),                                                        *)
LEMMA InsertEdits ==
  ASSUME NEW e \in Seq(Payload), NEW k \in 1 .. Len(e) + 1, NEW p \in Payload,
         NEW u, u = InsertAt(e, k, p)
  PROVE  Cells!Edited(Saw(e), Saw(u))
<1>p. PICK m, n, q : m = Saw(e) /\ n = Saw(u) /\ q = Look(heap, Father, View, p)
  OBVIOUS
<1>1. /\ u \in Seq(Payload) /\ Len(u) = Len(e) + 1 /\ u[k] = p
      /\ n = InsertAt(m, k, q)
  <2>1. u = Inserted(e, k, p)
    BY DEF Inserted
  <2>2. /\ Inserted(e, k, p) \in Seq(Payload) /\ Len(Inserted(e, k, p)) = Len(e) + 1
        /\ Inserted(e, k, p)[k] = p
        /\ Looks(heap, Father, View, Inserted(e, k, p))
           = Inserted(Looks(heap, Father, View, e), k, Look(heap, Father, View, p))
    BY LooksInsert
  <2>3. n = Inserted(m, k, q)
    BY <1>p, <2>1, <2>2 DEF Saw
  <2> QED BY <2>1, <2>2, <2>3 DEF Inserted
<1>2. Len(e) \in Nat /\ Len(m) = Len(e)
  BY <1>p, LooksIs DEF Saw
<1>3. DOMAIN n = 1 .. Len(u) /\ \A i \in 1 .. Len(u) : n[i] = Look(heap, Father, View, u[i])
  BY <1>1, <1>p, LooksIs DEF Saw
<1>4. k \in DOMAIN n /\ k <= Len(m) + 1 /\ n[k] = q
  BY <1>1, <1>2, <1>3, <1>p
<1>5. k \in DOMAIN n /\ k <= Len(m) + 1 /\ n = Cells!InsertAt(m, k, n[k])
  BY <1>1, <1>4 DEF InsertAt, Cells!InsertAt
<1>6. Cells!Edited(m, n)
  BY ONLY <1>5 DEF Cells!Edited
<1> QED BY <1>6, <1>p

(* one taken out (jbl_ll_delete),                                             *)
LEMMA RemoveEdits ==
  ASSUME NEW e \in Seq(Payload), NEW k \in 1 .. Len(e), NEW u, u = RemoveAt(e, k)
  PROVE  Cells!Edited(Saw(e), Saw(u))
<1>p. PICK m, n : m = Saw(e) /\ n = Saw(u)
  OBVIOUS
<1>1. Looks(heap, Father, View, Removed(e, k)) = Removed(Looks(heap, Father, View, e), k)
  BY LooksRemove
<1>2. n = Cells!RemoveAt(m, k)
  BY <1>1, <1>p DEF Saw, Removed, RemoveAt, Cells!RemoveAt
<1>3. k \in DOMAIN m
  BY <1>p, LooksIs DEF Saw
<1>4. Cells!Edited(m, n)
  BY ONLY <1>2, <1>3 DEF Cells!Edited
<1> QED BY <1>4, <1>p

(* one in the place of another,                                               *)
LEMMA LooksPut ==
  ASSUME NEW hp, NEW fa, NEW v, NEW s \in Seq(Payload), NEW k \in 1 .. Len(s),
         NEW p \in Payload
  PROVE  /\ Put(s, k, p) \in Seq(Payload) /\ Len(Put(s, k, p)) = Len(s)
         /\ Looks(hp, fa, v, Put(s, k, p)) = Put(Looks(hp, fa, v, s), k, Look(hp, fa, v, p))
<1>p. PICK u, m, n, q, d, V : /\ u = Put(s, k, p) /\ m = Looks(hp, fa, v, s)
                              /\ n = Looks(hp, fa, v, u) /\ q = Look(hp, fa, v, p)
                              /\ d = Put(m, k, q) /\ V = Sights(hp, fa, v)
  OBVIOUS
<1>1. /\ u \in Seq(Payload) /\ Len(u) = Len(s)
      /\ \A i \in 1 .. Len(s) : u[i] = IF i = k THEN p ELSE s[i]
  BY <1>p DEF Put
<1>2. /\ m \in Seq(V) /\ Len(m) = Len(s) /\ Len(s) \in Nat
      /\ \A i \in 1 .. Len(s) : m[i] = Look(hp, fa, v, s[i])
  BY <1>p, LooksIs
<1>3. /\ n \in Seq(V) /\ Len(n) = Len(s)
      /\ \A i \in 1 .. Len(s) : n[i] = Look(hp, fa, v, u[i])
  BY <1>1, <1>p, LooksIs
<1>4. q \in V
  BY <1>p DEF Sights
<1>5. /\ d \in Seq(V) /\ Len(d) = Len(s)
      /\ \A i \in 1 .. Len(s) : d[i] = IF i = k THEN q ELSE m[i]
  BY <1>2, <1>4, <1>p DEF Put
<1>6. \A i \in 1 .. Len(s) : n[i] = d[i]
  <2> SUFFICES ASSUME NEW i \in 1 .. Len(s) PROVE n[i] = d[i]
    OBVIOUS
  <2>1. CASE i = k
    BY <1>1, <1>3, <1>5, <1>p, <2>1
  <2>2. CASE i # k
    BY <1>1, <1>2, <1>3, <1>5, <2>2
  <2> QED BY <2>1, <2>2
<1>7. n = d
  BY <1>3, <1>5, <1>6, SeqEqual
<1> QED BY <1>1, <1>7, <1>p

(* two exchanged (jbl_ll_swap_node),                                          *)
LEMMA SwapEdits ==
  ASSUME NEW e \in Seq(Payload), NEW j \in 1 .. Len(e), NEW k \in 1 .. Len(e),
         NEW u, u = [e EXCEPT ![j] = e[k], ![k] = e[j]]
  PROVE  Cells!Edited(Saw(e), Saw(u))
<1>p. PICK m, n, d : m = Saw(e) /\ n = Saw(u) /\ d = Put(e, j, e[k])
  OBVIOUS
<1>1. e[j] \in Payload /\ e[k] \in Payload
  OBVIOUS
<1>2. /\ d \in Seq(Payload) /\ Len(d) = Len(e)
      /\ Saw(d) = Put(m, j, Look(heap, Father, View, e[k]))
  BY <1>1, <1>p, LooksPut DEF Saw
<1>3. u = Put(d, k, e[j])
  BY <1>p DEF Put
<1>4. n = Put(Saw(d), k, Look(heap, Father, View, e[j]))
  <2>1. d \in Seq(Payload) /\ k \in 1 .. Len(d) /\ e[j] \in Payload
    BY <1>1, <1>2
  <2>2. Looks(heap, Father, View, Put(d, k, e[j]))
        = Put(Looks(heap, Father, View, d), k, Look(heap, Father, View, e[j]))
    BY <2>1, LooksPut
  <2> QED BY <1>3, <1>p, <2>2 DEF Saw
<1>5. /\ j \in DOMAIN m /\ k \in DOMAIN m
      /\ m[j] = Look(heap, Father, View, e[j]) /\ m[k] = Look(heap, Father, View, e[k])
  BY <1>p, LooksIs DEF Saw
<1>6. n = [m EXCEPT ![j] = m[k], ![k] = m[j]]
  BY <1>2, <1>4, <1>5 DEF Put
<1>7. Cells!Edited(m, n)
  BY ONLY <1>5, <1>6 DEF Cells!Edited
<1> QED BY <1>7, <1>p

(* and another list's items put behind (jbl_ll_merge).                        *)
LEMMA MergeEdits ==
  ASSUME Told, NEW e \in Seq(Payload), NEW g \in Holder, hold[g] # NULL,
         NEW u, u = Joined(e, Elems(g))
  PROVE  Elems(g) \in Seq(Payload) /\ Cells!Edited(Saw(e), Saw(u))
<1>p. PICK m, n, w, z : m = Saw(e) /\ n = Saw(u) /\ w = Elems(g) /\ z = Seen[Standing[g]]
  OBVIOUS
<1>1. PICK y : y = Pull[hold[g]] /\ y \in Obj /\ z = View[y] /\ w = heap[y].elems
  <2>1. Pull[hold[g]] \in Obj
    BY CellFacts DEF Told, Stands
  <2> QED BY <1>p, <2>1 DEF Told, ValAt, Elems
<1>2. w \in Seq(Payload) /\ z = Saw(w)
  BY <1>1 DEF Told, World, SlGood, Typed, Heaps, Object, Reads, Saw
<1>3. n = Joined(m, z)
  BY <1>2, <1>p, LooksJoin DEF Saw
<1>4. n = m \o Seen[Standing[g]] /\ Standing[g] # NULL
  BY <1>3, <1>p DEF Joined, Told
<1>5. Cells!Edited(m, n)
  BY <1>4 DEF Cells!Edited
<1> QED BY <1>2, <1>5, <1>p
-----------------------------------------------------------------------------
(* A call that writes a list in one of these ways changes one cell.           *)
LEMMA WritesSeen ==
  ASSUME SlNow, Told, Told', todo = <<>>, Room(1), NEW h \in Holder,
         NEW w \in Seq(Payload), NEW u \in Seq(Payload), NEW td, Writes(h, w, u, td),
         Cells!Edited(Saw(Elems(h)), Saw(u))
  PROVE  Makes(h)
<1>p. PICK x, t : x = Extend(heap, hold, h) /\ t = x.thi
  OBVIOUS
<1>1. heap' = EditAt(x.heap, w, x.thi, u) /\ hold' = x.hold
  BY <1>p DEF Writes
<1>2. /\ Unshared(heap, hold, Pull, Father, heap', x.hold, h, x.thi)
      /\ x.thi \in Obj /\ heap'[x.thi].kind = "list" /\ heap'[x.thi].elems = u
  BY <1>1, <1>p, RewriteIs
<1>3. Rewrites(h, t, u)
  BY <1>1, <1>2, <1>p DEF Rewrites
<1> QED BY <1>3, ChangeSeen

(* jbl_ll_insert.                                                             *)
LEMMA InsertSeen ==
  ASSUME SlNow, Told, Told', todo = <<>>, Room(1), NEW h \in Holder, NEW k \in Nat,
         k <= Length(h), NEW p \in Payload, InsertPayload(h, p, k)
  PROVE  Makes(h)
<1>p. PICK e, w, u : e = Elems(h) /\ w = << p >> /\ u = InsertAt(e, k + 1, p)
  OBVIOUS
<1>1. e \in Seq(Payload) /\ k + 1 \in 1 .. Len(e) + 1 /\ w \in Seq(Payload)
  <2>1. e \in Seq(Payload) /\ k <= Len(e)
    BY <1>p, ElemsIs DEF Length
  <2> QED BY <1>p, <2>1
<1>2. u \in Seq(Payload)
  BY <1>1, <1>p, LooksInsert DEF Inserted
<1>3. Writes(h, w, u, <<>>)
  BY <1>p, InsertWrites
<1>4. Cells!Edited(Saw(e), Saw(u))
  BY <1>1, <1>p, InsertEdits
<1> QED BY <1>1, <1>2, <1>3, <1>4, <1>p, WritesSeen

(* jbl_ll_insert of a number, or of what another variable holds.              *)
LEMMA InsertsSeen ==
  ASSUME SlNow, Told, Told', todo = <<>>, NEW h \in Holder, NEW k \in Nat,
         (\E a \in Atom : InsertAtom(h, a, k)) \/ (\E g \in Holder : InsertHeld(h, g, k))
  PROVE  Makes(h)
<1>1. ASSUME NEW a \in Atom, InsertAtom(h, a, k) PROVE Makes(h)
  BY <1>1, InsertSeen DEF InsertAtom, Payload
<1>2. ASSUME NEW g \in Holder, InsertHeld(h, g, k) PROVE Makes(h)
  <2>p. PICK p : p = hold[g]
    OBVIOUS
  <2>1. p \in Payload /\ InsertPayload(h, p, k) /\ Room(1) /\ k <= Length(h)
    BY <1>2, <2>p DEF InsertHeld, Payload, SlNow, SlGood, Typed
  <2> QED BY <2>1, InsertSeen
<1> QED BY <1>1, <1>2

(* jbl_ll_delete.                                                             *)
LEMMA DeleteSeen ==
  ASSUME SlNow, Told, Told', todo = <<>>, NEW h \in Holder, NEW k \in Nat, Delete(h, k)
  PROVE  Makes(h)
<1>p. PICK e, td, u : e = Elems(h) /\ td = << e[k] >> /\ u = RemoveAt(e, k)
  OBVIOUS
<1>0. Room(1) /\ k \in DOMAIN e
  BY <1>p DEF Delete
<1>1. e \in Seq(Payload) /\ k \in 1 .. Len(e)
  BY <1>0, <1>p, ElemsIs
<1>2. u \in Seq(Payload) /\ <<>> \in Seq(Payload)
  BY <1>1, <1>p, CountRemove
<1>3. Writes(h, <<>>, u, td)
  BY <1>p, DeleteWrites
<1>4. Cells!Edited(Saw(e), Saw(u))
  BY <1>1, <1>p, RemoveEdits
<1> QED BY <1>0, <1>2, <1>3, <1>4, <1>p, WritesSeen

(* jbl_ll_swap_node.                                                          *)
LEMMA SwapSeen ==
  ASSUME SlNow, Told, Told', todo = <<>>, NEW h \in Holder, NEW j \in Nat, NEW k \in Nat,
         Swap(h, j, k)
  PROVE  Makes(h)
<1>p. PICK e, v, u : /\ e = Elems(h) /\ v = [e EXCEPT ![j] = e[k]]
                     /\ u = [v EXCEPT ![k] = e[j]]
  OBVIOUS
<1>0. Room(1) /\ j \in DOMAIN e /\ k \in DOMAIN e
  BY <1>p DEF Swap
<1>1. /\ e \in Seq(Payload) /\ j \in 1 .. Len(e) /\ k \in 1 .. Len(e)
  BY <1>0, <1>p, ElemsIs
<1>2. u \in Seq(Payload) /\ <<>> \in Seq(Payload)
  <2>1. e[j] \in Payload /\ e[k] \in Payload
    BY <1>1
  <2>2. v \in Seq(Payload) /\ Len(v) = Len(e)
    BY <1>1, <1>p, <2>1, LooksPut DEF Put
  <2> QED BY <1>1, <1>p, <2>1, <2>2, LooksPut DEF Put
<1>3. Writes(h, <<>>, u, <<>>)
  BY <1>p, SwapWrites
<1>4. Cells!Edited(Saw(e), Saw(u))
  <2>1. u = [e EXCEPT ![j] = e[k], ![k] = e[j]]
    BY <1>p
  <2> QED BY <1>1, <2>1, SwapEdits
<1> QED BY <1>0, <1>2, <1>3, <1>4, <1>p, WritesSeen

(* jbl_ll_merge.                                                              *)
LEMMA MergeSeen ==
  ASSUME SlNow, Told, Told', todo = <<>>, NEW h \in Holder, NEW g \in Holder, Merge(h, g)
  PROVE  Makes(h)
<1>p. PICK e, w, u : e = Elems(h) /\ w = Elems(g) /\ u = Joined(e, w)
  OBVIOUS
<1>0. Room(1) /\ hold[g] # NULL
  BY DEF Merge
<1>1. e \in Seq(Payload)
  BY <1>0, <1>p, ElemsIs
<1>2. w \in Seq(Payload) /\ Cells!Edited(Saw(e), Saw(u))
  BY <1>0, <1>1, <1>p, MergeEdits
<1>3. u \in Seq(Payload)
  BY <1>1, <1>2, <1>p, CountConcat
<1>4. Writes(h, w, u, <<>>)
  BY <1>2, <1>p, MergeWrites
<1> QED BY <1>0, <1>2, <1>3, <1>4, <1>p, WritesSeen
-----------------------------------------------------------------------------
(* jbl_ll_add to a list inside: the list p, the k-th payload of h's own list, *)
(* gets a behind, in place when it is counted once, and else a copy at t does *)
(* that takes its place.                                                      *)
Inside(hp, hd, hp2, h, k, a, p, t) ==
  /\ hd[h] \in Obj /\ hp[hd[h]].kind = "list" /\ hp[hd[h]].cnt = 1
  /\ k \in DOMAIN hp[hd[h]].elems /\ p = hp[hd[h]].elems[k]
  /\ p \in Obj /\ hp[p].kind = "list"
  /\ t \in Obj /\ ((t = p /\ hp[p].cnt <= 1) \/ hp[t].kind = "unused")
  /\ hp2[t].kind = "list" /\ hp2[t].elems = Append(hp[p].elems, a)
  /\ hp2[hd[h]].kind = "list" /\ hp2[hd[h]].elems = Put(hp[hd[h]].elems, k, t)
  /\ \A o \in Obj \ {hd[h], t} : SameAt(hp, hp2, o)
Nested(h, k, a, p, t) == Inside(heap, hold, heap', h, k, a, p, t) /\ hold' = hold

(* That is what the call leaves, counts aside.                                *)
LEMMA NestedIs ==
  ASSUME SlNow, todo = <<>>, NEW h \in Holder, NEW k \in Nat, NEW a \in Atom,
         AddInside(h, k, a)
  PROVE  \E p, t : Nested(h, k, a, p, t)
<1>p. PICK l, e, p, at, x : /\ l = hold[h] /\ e = heap[l].elems /\ p = e[k]
                            /\ at = [y \in {h} |-> p] /\ x = Extend(heap, at, h)
  OBVIOUS
<1>g. SlGood(heap, hold, <<>>)
  BY DEF SlNow
<1>0. /\ heap \in Heaps /\ Shaped(heap) /\ Ranked(heap) /\ hold \in [Holder -> Obj \cup {NULL}]
  BY <1>g DEF SlGood, Typed
<1>1. l # NULL
  <2>1. CASE l = NULL
    <3>1. Elems(h) = <<>>
      BY <1>p, <2>1 DEF Elems
    <3>2. k \in DOMAIN Elems(h)
      BY DEF AddInside
    <3> QED BY <3>1, <3>2
  <2> QED BY <2>1
<1>2. l \in Obj /\ heap[l].kind # "unused" /\ ~ IsRef(l)
  <2>1. l \in Obj /\ ~ IsRef(l)
    BY <1>0, <1>1, <1>p DEF AddInside
  <2> QED BY <1>g, <1>p, <2>1, OwnedLives
<1>3. Elems(h) = e
  BY <1>1, <1>2, <1>p, PullIs DEF Elems
<1>4. /\ Room(1) /\ k \in DOMAIN e /\ p \in Obj /\ ~ IsRef(p) /\ heap[l].cnt = 1
  BY <1>3, <1>p DEF AddInside
<1>5. e \in Seq(Payload) /\ k \in 1 .. Len(e) /\ heap[p].elems \in Seq(Payload)
  BY <1>0, <1>2, <1>4, <1>p DEF Heaps, Object
<1>6. Leads(heap, l, p) /\ heap[p].kind = "list" /\ heap[l].kind = "list" /\ p # l
  <2>1. p \in Range(e)
    BY <1>4, <1>p DEF Range
  <2>2. Leads(heap, l, p)
    BY <1>0, <1>2, <1>p, <2>1, InRange DEF Leads
  <2>3. heap[p].kind # "unused"
    BY <1>g, <1>2, <1>4, <2>2, OwnedLives
  <2>4. heap[p].kind \in {"unused", "list", "ref"} /\ heap[l].kind \in {"unused", "list", "ref"}
    BY <1>0, <1>2, <1>4 DEF Heaps, Object
  <2>5. p # l
    BY <1>0, <1>2, <1>4, <2>2 DEF Ranked, Ranks
  <2> QED BY <1>2, <1>4, <2>2, <2>3, <2>4, <2>5 DEF IsRef
<1>9. /\ heap' = [x.heap EXCEPT ![x.thi].elems = Append(@, a), ![l].elems[k] = x.hold[h]]
      /\ hold' = hold
  BY <1>3, <1>p DEF AddInside
<1>10. at[h] = p /\ Pull[p] = p /\ Father[p] = NULL /\ p # NULL
  BY <1>0, <1>4, <1>p, PullStep, FatherStep, NullIs
<1>11. PICK m, t : /\ x.heap = m /\ x.thi = t /\ x.hold[h] = t /\ m \in Heaps /\ t \in Obj
                   /\ t # l /\ m[t].kind = "list" /\ m[t].elems = heap[p].elems
                   /\ (t = p /\ heap[p].cnt <= 1) \/ heap[t].kind = "unused"
                   /\ \A o \in Obj \ {t} : SameAt(heap, m, o)
  <2>1. CASE heap[p].cnt <= 1
    <3>1. x = [heap |-> heap, hold |-> at, thi |-> p]
      BY <1>10, <1>p, <2>1 DEF Extend
    <3> QED BY <1>0, <1>4, <1>6, <1>10, <2>1, <3>1 DEF SameAt
  <2>2. CASE ~ (heap[p].cnt <= 1)
    <3>p. PICK z, m : z = Fresh(heap) /\ m = CopyAt(heap, p, z)
      OBVIOUS
    <3>1. z \in Obj /\ heap[z].kind = "unused" /\ z # l
      <4>1. z \in Obj /\ heap[z].kind = "unused"
        BY <1>0, <1>4, <3>p, FreshIs DEF Room
      <4> QED BY <1>6, <4>1
    <3>2. x = [heap |-> m, hold |-> [at EXCEPT ![h] = z], thi |-> z]
      BY <1>10, <1>p, <2>2, <3>p DEF Extend, CopyAt
    <3>3. x.heap = m /\ x.thi = z /\ x.hold[h] = z
      BY <1>p, <3>2
    <3>4. /\ m \in Heaps /\ m[z] = ListOf(heap[p].elems)
          /\ \A o \in Obj : o # z => /\ m[o].kind = heap[o].kind /\ m[o].ptr = heap[o].ptr
                                     /\ m[o].elems = heap[o].elems
      <4>1. heap[p].cnt > 1
        BY <1>0, <1>4, <2>2 DEF Heaps, Object
      <4>2. PICK r, b : Ranks(heap, r, b)
        BY <1>0 DEF Ranked
      <4>3. Copied(heap, hold, m, p, z, r, b)
        BY <1>g, <1>4, <1>6, <3>1, <3>p, <4>1, <4>2, CopiedIs
      <4> QED BY <4>3 DEF Copied
    <3>5. m[z].kind = "list" /\ m[z].elems = heap[p].elems
      BY <3>4 DEF ListOf
    <3> QED BY <3>1, <3>3, <3>4, <3>5 DEF SameAt
  <2> QED BY <2>1, <2>2
<1>12. PICK y, f, c, d : /\ y = [m EXCEPT ![t] = f] /\ f = [m[t] EXCEPT !.elems = c]
                         /\ c = Append(heap[p].elems, a)
                         /\ d = [m[l] EXCEPT !.elems = Put(e, k, t)]
  OBVIOUS
<1>13. heap' = [y EXCEPT ![l] = d]
  <2>1. heap' = [[m EXCEPT ![t].elems = Append(@, a)] EXCEPT ![l].elems[k] = t]
    BY <1>9, <1>11
  <2>2. y = [m EXCEPT ![t].elems = Append(@, a)]
    BY <1>11, <1>12
  <2>3. y[l] = m[l] /\ m[l].elems = e
    BY <1>2, <1>11, <1>12, <1>p DEF Heaps, SameAt
  <2>4. heap' = [y EXCEPT ![l] = [y[l] EXCEPT !.elems = [y[l].elems EXCEPT ![k] = t]]]
    BY <2>1, <2>2
  <2> QED BY <1>12, <2>3, <2>4 DEF Put
<1>14. m[t] \in Object /\ m[l] \in Object
  BY <1>2, <1>11 DEF Heaps
<1>15. /\ heap'[t] = f /\ heap'[l] = d /\ \A o \in Obj \ {l, t} : heap'[o] = m[o]
  BY <1>2, <1>11, <1>12, <1>13 DEF Heaps
<1>16. /\ f.kind = "list" /\ f.elems = c /\ d.kind = "list" /\ d.elems = Put(e, k, t)
  <2>1. m[l].kind = "list"
    BY <1>2, <1>6, <1>11 DEF SameAt
  <2> QED BY <1>11, <1>12, <1>14, <2>1 DEF Object
<1>17. \A o \in Obj \ {l, t} : SameAt(heap, heap', o)
  BY <1>11, <1>15 DEF SameAt
<1>18. Nested(h, k, a, p, t)
  <2>1. l = hold[h] /\ e = heap[l].elems /\ p = e[k]
    BY <1>p
  <2>2. /\ heap'[t].kind = "list" /\ heap'[t].elems = c
        /\ heap'[l].kind = "list" /\ heap'[l].elems = Put(e, k, t)
    BY <1>15, <1>16
  <2>3. t \in Obj /\ ((t = p /\ heap[p].cnt <= 1) \/ heap[t].kind = "unused")
    BY <1>11
  <2>4. c = Append(heap[p].elems, a)
    BY <1>12
  <2>5. hold' = hold
    BY <1>9
  <2> QED BY ONLY <1>2, <1>4, <1>6, <1>17, <2>1, <2>2, <2>3, <2>4, <2>5 DEF Nested, Inside
<1> QED BY <1>18

(* Nothing but its variable leads to the outer list, and nothing but that     *)
(* list, once, to the list inside that is written in place.                   *)
Apart(hp, hd, h, k, l, t) ==
  /\ l \in Obj /\ l # t /\ hp[l].elems \in Seq(Payload)
  /\ \A q \in Obj : ~ Leads(hp, q, l) /\ (q # l => ~ Leads(hp, q, t))
  /\ \A g \in Holder : hd[g] # t /\ (g # h => hd[g] # l)
  /\ \A i \in DOMAIN hp[l].elems : i # k => hp[l].elems[i] # t

(* So nothing else is seen to change.                                         *)
LEMMA ApartIs ==
  ASSUME NEW hp, NEW hd, NEW td, SlGood(hp, hd, td), NEW hp2, NEW h \in Holder, NEW k, NEW a,
         NEW p, NEW t, Inside(hp, hd, hp2, h, k, a, p, t), NEW l, l = hd[h]
  PROVE  Apart(hp, hd, h, k, l, t)
<1>e. PICK e : e = hp[l].elems
  OBVIOUS
<1>0. hp \in Heaps /\ Living(hp) /\ Ranked(hp)
  BY DEF SlGood, Typed
<1>1. /\ l \in Obj /\ hp[l].kind = "list" /\ hp[l].cnt = 1 /\ k \in DOMAIN e /\ p = e[k]
      /\ p \in Obj /\ hp[p].kind = "list" /\ t \in Obj
      /\ (t = p /\ hp[p].cnt <= 1) \/ hp[t].kind = "unused"
  BY <1>e DEF Inside
<1>2. e \in Seq(Payload) /\ k \in 1 .. Len(e) /\ DOMAIN e = 1 .. Len(e) /\ Len(e) \in Nat
  BY <1>0, <1>1, <1>e DEF Heaps, Object
<1>3. /\ \A g \in Holder : hd[g] = l => g = h
      /\ \A q \in Obj : ~ Leads(hp, q, l)
  <2>1. OnlyOwner(hp, hd, l)
    BY <1>1, OnlyOwnerIs
  <2> QED BY <2>1 DEF OnlyOwner
<1>4. \A i \in 1 .. Len(e) : e[i] \in Obj => Leads(hp, l, e[i])
  <2> SUFFICES ASSUME NEW i \in 1 .. Len(e), e[i] \in Obj PROVE Leads(hp, l, e[i])
    OBVIOUS
  <2>1. e[i] \in Range(e)
    BY <1>2 DEF Range
  <2> QED BY <1>0, <1>1, <1>e, <2>1, InRange DEF Leads
<1>5. Leads(hp, l, p) /\ p # l
  <2>1. Leads(hp, l, p)
    BY <1>1, <1>2, <1>4
  <2> QED BY <1>1, <1>3, <2>1
<1>6. CASE hp[t].kind = "unused"
  <2>1. (\A q \in Obj : ~ Leads(hp, q, t)) /\ (\A g \in Holder : hd[g] # t)
    BY <1>1, <1>6, UnusedIs
  <2>2. l # t
    BY <1>1, <1>6
  <2>3. \A i \in 1 .. Len(e) : e[i] # t
    BY <1>1, <1>4, <2>1
  <2> QED BY <1>1, <1>2, <1>3, <1>e, <2>1, <2>2, <2>3 DEF Apart
<1>7. CASE t = p /\ hp[p].cnt <= 1
  <2>1. hp[p].cnt = 1
    <3>1. hp[p].cnt > 0 /\ hp[p].cnt \in Nat
      BY <1>0, <1>1 DEF Living, Heaps, Object
    <3> QED BY <1>7, <3>1
  <2>2. OnlyOwner(hp, hd, p)
    BY <1>1, <2>1, OnlyOwnerIs
  <2>3. /\ \A g \in Holder : hd[g] # p
        /\ \A q \in Obj : Leads(hp, q, p) => q = l
        /\ Count(e, p) \in 0 .. 1
    BY <1>1, <1>5, <1>e, <2>2 DEF OnlyOwner
  <2>4. ASSUME NEW i \in 1 .. Len(e), i # k PROVE e[i] # p
    <3> SUFFICES ASSUME e[i] = p PROVE FALSE
      OBVIOUS
    <3>p. PICK W, c, d : /\ W = Where(e, p) /\ c = Cardinality({i, k}) /\ d = Count(e, p)
      OBVIOUS
    <3>1. IsFiniteSet(W) /\ d = Cardinality(W)
      BY <1>2, <3>p, CountIs
    <3>2. {i, k} \in SUBSET W
      BY <1>1, <1>2, <3>p DEF Where
    <3>3. c <= d
      BY <3>1, <3>2, <3>p, FS_Subset
    <3>4. c = 2
      <4>1. IsFiniteSet({k}) /\ Cardinality({k}) = 1
        BY FS_Singleton
      <4>2. PICK X, Y : X = {k} /\ Y = X \cup {i}
        OBVIOUS
      <4>3. Y = {i, k} /\ i \notin X
        BY <2>4, <4>2
      <4>4. Cardinality(Y) = Cardinality(X) + 1 /\ Cardinality(X) = 1
        BY <4>1, <4>2, <4>3, FS_AddElement
      <4>5. c = 1 + 1
        BY <3>p, <4>3, <4>4
      <4> QED BY ONLY <4>5
    <3> QED BY <2>3, <3>3, <3>4, <3>p
  <2> QED BY <1>1, <1>2, <1>3, <1>5, <1>7, <1>e, <2>3, <2>4 DEF Apart
<1> QED BY <1>1, <1>6, <1>7

(* What is seen before and after.                                             *)
Inward(hp, hd, pu, fa, v, hp2, pu2, fa2, v2, h, k, a, p, t) ==
  /\ ValAt(hd, pu2, v2, h) = Put(ValAt(hd, pu, v, h), k, <<"list", v2[t]>>)
  /\ v2[t] = Looks(hp, fa, v, Append(hp[p].elems, a))
  /\ \A g \in Holder :
       /\ CellAt(hp2, hd, fa2, g) = CellAt(hp, hd, fa, g)
       /\ g # h /\ hd[g] # NULL => ValAt(hd, pu2, v2, g) = ValAt(hd, pu, v, g)

(* The item inside looks longer, to the outer list's variable alone.          *)
LEMMA InwardIs ==
  ASSUME NEW hp, NEW hd, NEW td, NEW pu, NEW fa, NEW v, World(hp, hd, td, pu, fa, v),
         NEW hp2, NEW td2, NEW pu2, NEW fa2, NEW v2, World(hp2, hd, td2, pu2, fa2, v2),
         NEW h \in Holder, NEW k, NEW a \in Atom, NEW p, NEW t,
         Inside(hp, hd, hp2, h, k, a, p, t)
  PROVE  Inward(hp, hd, pu, fa, v, hp2, pu2, fa2, v2, h, k, a, p, t)
<1>l. PICK l, e, f, w, u : /\ l = hd[h] /\ e = hp[l].elems /\ f = hp[p].elems
                           /\ w = Put(e, k, t) /\ u = Append(f, a)
  OBVIOUS
<1>0. /\ SlGood(hp, hd, td) /\ hp \in Heaps /\ Shaped(hp) /\ SlGood(hp2, hd, td2) /\ hp2 \in Heaps
      /\ hd \in [Holder -> Obj \cup {NULL}]
  BY DEF World, SlGood, Typed
<1>1. /\ hp[l].kind = "list" /\ k \in DOMAIN e /\ p = e[k] /\ p \in Obj /\ hp[p].kind = "list"
      /\ t \in Obj /\ hp2[t].kind = "list" /\ hp2[t].elems = u
      /\ hp2[l].kind = "list" /\ hp2[l].elems = w
      /\ \A o \in Obj \ {l, t} : SameAt(hp, hp2, o)
      /\ (t = p \/ hp[t].kind = "unused")
  BY <1>l DEF Inside
<1>2. /\ l \in Obj /\ l # t /\ e \in Seq(Payload)
      /\ \A q \in Obj : ~ Leads(hp, q, l) /\ (q # l => ~ Leads(hp, q, t))
      /\ \A g \in Holder : hd[g] # t /\ (g # h => hd[g] # l)
      /\ \A i \in DOMAIN e : i # k => e[i] # t
  <2>1. Apart(hp, hd, h, k, l, t)
    BY <1>0, <1>l, ApartIs
  <2> QED BY <1>l, <2>1 DEF Apart
<1>3. Steady(hp, hp2, {l, t})
  <2> SUFFICES ASSUME NEW x \in Obj, hp[x].kind # "unused", hp2[x].kind # "unused"
               PROVE  /\ hp2[x].kind = hp[x].kind
                      /\ hp[x].kind = "ref" => hp2[x].ptr = hp[x].ptr
                      /\ x \notin {l, t} =>
                           /\ hp2[x].elems = hp[x].elems
                           /\ \A p1 \in Obj : Count(hp[x].elems, p1) # 0 => p1 \notin {l, t}
    BY DEF Steady
  <2>1. CASE x \in {l, t}
    BY <1>1, <2>1
  <2>2. CASE x \notin {l, t}
    BY <1>1, <1>2, <2>2 DEF SameAt, Leads
  <2> QED BY <2>1, <2>2
<1>4. Same(hp, fa, v, hp2, fa2, v2, {l, t})
  <2>1. \A y \in Obj : hp[y].kind # "unused" /\ hp2[y].kind # "unused" =>
          fa2[y] = fa[y] /\ (y \notin {l, t} => v2[y] = v[y])
    BY <1>3, SteadyIs
  <2> QED BY <1>3, <2>1 DEF Same, Steady
<1>5. ASSUME NEW q \in Obj, NEW q2 \in Obj, NEW o, q2 # l => q # l,
             o \in Obj => Leads(hp, q, o) /\ Leads(hp2, q2, o) /\ o # t
      PROVE  Look(hp2, fa2, v2, o) = Look(hp, fa, v, o)
  <2>1. o \in Obj => hp[o].kind # "unused" /\ hp2[o].kind # "unused" /\ o \notin {l, t}
    BY <1>0, <1>2, <1>5, OwnedLives
  <2> QED BY <1>4, <2>1, LookIs
<1>6. /\ f \in Seq(Payload) /\ u \in Seq(Payload) /\ w \in Seq(Payload) /\ a \in Payload
      /\ a \notin Obj /\ t \in Payload /\ k \in 1 .. Len(e) /\ DOMAIN e = 1 .. Len(e)
      /\ Len(e) \in Nat /\ Len(f) \in Nat
  <2>1. f \in Seq(Payload) /\ u \in Seq(Payload) /\ w \in Seq(Payload)
    <3>1. hp[p] \in Object /\ hp2[t] \in Object /\ hp2[l] \in Object
      BY <1>0, <1>1, <1>2 DEF Heaps
    <3> QED BY <1>1, <1>l, <3>1 DEF Object
  <2>2. a \in Payload /\ a \notin Obj /\ t \in Payload
    BY <1>1, SharedAssumption DEF Payload
  <2> QED BY <1>1, <1>2, <2>1, <2>2
<1>7. ASSUME NEW hq \in Heaps, NEW q \in Obj, NEW s \in Seq(Payload), s = hq[q].elems,
             NEW i \in 1 .. Len(s)
      PROVE  Leads(hq, q, s[i])
  <2>1. s[i] \in Range(s)
    BY DEF Range
  <2> QED BY <1>7, <2>1, InRange DEF Leads
<1>8. v2[t] = Looks(hp, fa, v, u)
  <2>1. v2[t] = Looks(hp2, fa2, v2, u)
    BY <1>1 DEF World, Reads
  <2>2. ASSUME NEW i \in 1 .. Len(u) PROVE Look(hp2, fa2, v2, u[i]) = Look(hp, fa, v, u[i])
    <3>1. CASE i <= Len(f)
      <4>1. i \in 1 .. Len(f) /\ u[i] = f[i]
        BY <1>6, <1>l, <3>1
      <4>2. Leads(hp, p, u[i])
        BY <1>0, <1>1, <1>6, <1>7, <1>l, <4>1
      <4>3. Leads(hp2, t, u[i])
        BY <1>0, <1>1, <1>6, <1>7
      <4>4. p # l
        <5>1. Leads(hp, l, p)
          BY <1>0, <1>1, <1>2, <1>6, <1>7, <1>l
        <5> QED BY <1>1, <1>2, <5>1
      <4>5. u[i] \in Obj => u[i] # t
        BY <1>1, <1>2, <4>2, <4>4
      <4> QED BY <1>1, <1>5, <4>2, <4>3, <4>4, <4>5
    <3>2. CASE ~ (i <= Len(f))
      <4>1. u[i] = a
        <5>1. Len(u) = Len(f) + 1 /\ u[Len(f) + 1] = a
          BY <1>6, <1>l
        <5>2. i = Len(f) + 1
          BY <1>6, <3>2, <5>1
        <5> QED BY <5>1, <5>2
      <4> QED BY <1>6, <4>1 DEF Look
    <3> QED BY <3>1, <3>2
  <2>3. DOMAIN u = 1 .. Len(u)
    BY <1>6
  <2> QED BY <2>1, <2>2, <2>3 DEF Looks
<1>9. v2[l] = Put(v[l], k, <<"list", v2[t]>>)
  <2>1. v2[l] = Looks(hp2, fa2, v2, w) /\ v[l] = Looks(hp, fa, v, e)
    BY <1>1, <1>2, <1>l DEF World, Reads
  <2>2. Look(hp2, fa2, v2, t) = <<"list", v2[t]>>
    BY <1>1 DEF Look
  <2>3. ASSUME NEW i \in 1 .. Len(e), i # k
        PROVE  w[i] = e[i] /\ Look(hp2, fa2, v2, w[i]) = Look(hp, fa, v, e[i])
    <3>1. w[i] = e[i] /\ i \in 1 .. Len(w)
      BY <1>6, <1>l, <2>3 DEF Put
    <3>2. Leads(hp, l, e[i]) /\ Leads(hp2, l, w[i])
      BY <1>0, <1>1, <1>2, <1>6, <1>7, <1>l, <3>1
    <3>3. e[i] # t
      BY <1>2, <1>6, <2>3
    <3> QED BY <1>2, <1>5, <3>1, <3>2, <3>3
  <2>4. DOMAIN w = 1 .. Len(e) /\ w[k] = t
    BY <1>6, <1>l DEF Put
  <2>5. v2[l] = [i \in 1 .. Len(e) |-> Look(hp2, fa2, v2, w[i])]
    BY <2>1, <2>4 DEF Looks
  <2>6. v[l] = [i \in 1 .. Len(e) |-> Look(hp, fa, v, e[i])]
    BY <1>6, <2>1 DEF Looks
  <2> HIDE DEF Look
  <2>7. Put(v[l], k, <<"list", v2[t]>>)
        = [i \in 1 .. Len(e) |-> IF i = k THEN <<"list", v2[t]>> ELSE Look(hp, fa, v, e[i])]
    BY <1>6, <2>6 DEF Put
  <2> QED BY <2>2, <2>3, <2>4, <2>5, <2>7
<1>10. ValAt(hd, pu2, v2, h) = v2[l] /\ ValAt(hd, pu, v, h) = v[l]
  <2>1. pu[l] = l /\ pu2[l] = l
    BY <1>1, <1>2 DEF World, Reads, Stands
  <2> QED BY <1>l, <2>1 DEF ValAt
<1>11. ASSUME NEW g \in Holder
       PROVE  /\ CellAt(hp2, hd, fa2, g) = CellAt(hp, hd, fa, g)
              /\ g # h /\ hd[g] # NULL => ValAt(hd, pu2, v2, g) = ValAt(hd, pu, v, g)
  <2>1. CASE hd[g] = NULL
    BY <2>1 DEF CellAt
  <2>2. CASE hd[g] # NULL
    <3>p. PICK y : y = hd[g]
      OBVIOUS
    <3>1. y \in Obj /\ hp[y].kind \in {"list", "ref"} /\ hp2[y].kind \in {"list", "ref"}
      BY <2>2, <3>p, CellFacts
    <3>2. hp2[y].kind = hp[y].kind /\ fa2[y] = fa[y]
      BY <1>4, <3>1 DEF Same
    <3>3. CellAt(hp2, hd, fa2, g) = CellAt(hp, hd, fa, g)
      BY <2>2, <3>2, <3>p DEF CellAt
    <3>4. ASSUME g # h PROVE v2[pu2[y]] = v[pu[y]]
      <4>1. y \notin {l, t}
        BY <1>2, <3>4, <3>p
      <4>2. Stands(hp, pu, fa, y) /\ Stands(hp2, pu2, fa2, y)
        BY <3>1 DEF World, Reads
      <4>3. CASE hp[y].kind = "list"
        <5>1. pu[y] = y /\ pu2[y] = y
          BY <3>2, <4>2, <4>3 DEF Stands
        <5> QED BY <1>4, <3>1, <4>1, <5>1 DEF Same
      <4>4. CASE hp[y].kind = "ref"
        <5>p. PICK z : z = fa[y]
          OBVIOUS
        <5>1. /\ z \in Obj /\ hp[z].kind = "ref" /\ hp[z].ptr = pu[y]
              /\ hp2[z].kind = "ref" /\ hp2[z].ptr = pu2[y] /\ pu[y] \in Obj
              /\ hp[pu[y]].kind = "list" /\ hp2[pu2[y]].kind = "list"
          BY <3>2, <4>2, <4>4, <5>p DEF Stands
        <5>2. pu2[y] = pu[y]
          BY <1>1, <5>1 DEF SameAt
        <5>3. pu[y] \notin {l, t}
          BY <1>1, <1>2, <5>1 DEF Leads
        <5> QED BY <1>4, <5>1, <5>2, <5>3 DEF Same
      <4> QED BY <3>1, <4>3, <4>4
    <3> QED BY <3>3, <3>4, <3>p DEF ValAt
  <2> QED BY <2>1, <2>2
<1> QED BY <1>8, <1>9, <1>10, <1>11, <1>l DEF Inward

(* A list with one item more at its end, without it.                          *)
LEMMA FrontIs ==
  ASSUME NEW hp, NEW fa, NEW v, NEW f \in Seq(Payload), NEW a \in Payload,
         NEW n, n = Looks(hp, fa, v, Append(f, a))
  PROVE  Cells!Front(n) = Looks(hp, fa, v, f)
<1>p. PICK c, m, z, V : /\ c = Single(a) /\ m = Looks(hp, fa, v, f) /\ z = Look(hp, fa, v, a)
                        /\ V = Sights(hp, fa, v)
  OBVIOUS
<1>1. c \in Seq(Payload) /\ Looks(hp, fa, v, c) = Single(z)
  BY <1>p, LooksOne
<1>2. Append(f, a) = Joined(f, c)
  BY <1>p, AppendIsConcat DEF Joined, Single
<1>3. n = Joined(m, Single(z))
  BY <1>1, <1>2, <1>p, LooksJoin
<1>4. m \in Seq(V) /\ z \in V
  BY <1>p, LooksIs DEF Sights
<1>5. n = Append(m, z)
  BY <1>3, <1>4, AppendIsConcat DEF Joined, Single
<1>6. Front(n) = m
  <2>1. Append(m, z) \in Seq(V) /\ Append(m, z) # <<>>
    BY <1>4, AppendProperties
  <2>2. SubSeq(Append(m, z), 1, Len(Append(m, z)) - 1) = m
    BY <1>4, <2>1
  <2> QED BY <1>5, <2>2 DEF Front
<1> QED BY <1>6, <1>p DEF Front, Cells!Front

(* jbl_ll_add to a list inside.                                               *)
LEMMA AddInsideSeen ==
  ASSUME SlNow, Told, Told', todo = <<>>, NEW h \in Holder, NEW k \in Nat, NEW a \in Atom,
         AddInside(h, k, a)
  PROVE  Standing[h] # NULL /\ Cells!Change(h)
<1>1. PICK p, t : Nested(h, k, a, p, t)
  BY NestedIs
<1>2. Inside(heap, hold, heap', h, k, a, p, t) /\ hold' = hold
  BY <1>1 DEF Nested
<1>3. World(heap, hold, todo, Pull, Father, View) /\ World(heap', hold, todo', Pull', Father', View')
  BY <1>2 DEF Told
<1>4. Inward(heap, hold, Pull, Father, View, heap', Pull', Father', View', h, k, a, p, t)
  BY <1>2, <1>3, InwardIs
<1>5. PICK l, e, f : /\ l = hold[h] /\ e = heap[l].elems /\ f = heap[p].elems /\ l \in Obj
                     /\ heap[l].kind = "list" /\ k \in DOMAIN e /\ p = e[k] /\ p \in Obj
                     /\ heap[p].kind = "list"
  BY <1>2 DEF Inside
<1>6. /\ ValAt(hold, Pull', View', h) = Put(ValAt(hold, Pull, View, h), k, <<"list", View'[t]>>)
      /\ View'[t] = Looks(heap, Father, View, Append(f, a))
      /\ \A g \in Holder :
           /\ CellAt(heap', hold, Father', g) = CellAt(heap, hold, Father, g)
           /\ g # h /\ hold[g] # NULL => ValAt(hold, Pull', View', g) = ValAt(hold, Pull, View, g)
  BY <1>4, <1>5 DEF Inward
<1>7. hold[h] # NULL /\ Standing[h] # NULL
  BY <1>5, NullIs DEF Told
<1>8. \A g \in Holder :
        /\ Standing'[g] = Standing[g]
        /\ g # h /\ hold[g] # NULL => Seen'[Standing[g]] = Seen[Standing[g]]
  BY <1>2, <1>6 DEF Told
<1>9. Alters(h)
  BY <1>8 DEF Alters, Told
<1>10. PICK m, n, q : m = Seen[Standing[h]] /\ n = Seen'[Standing[h]] /\ q = <<"list", View'[t]>>
  OBVIOUS
<1>11. n = Put(m, k, q)
  BY <1>2, <1>6, <1>7, <1>8, <1>10 DEF Told
<1>12. m = Looks(heap, Father, View, e)
  <2>1. m = View[Pull[l]]
    BY <1>5, <1>7, <1>10 DEF Told, ValAt
  <2>2. Pull[l] = l /\ View[l] = Looks(heap, Father, View, e)
    BY <1>3, <1>5 DEF World, Reads, Stands
  <2> QED BY <2>1, <2>2
<1>13. k \in DOMAIN m /\ m[k] = <<"list", View[p]>>
  BY <1>5, <1>12 DEF Looks, Look
<1>14. View[p] = Looks(heap, Father, View, f) /\ f \in Seq(Payload) /\ a \in Payload
  BY <1>3, <1>5 DEF World, Reads, SlGood, Typed, Heaps, Object, Payload
<1>15. Cells!Front(View'[t]) = View[p]
  BY <1>6, <1>14, FrontIs
<1>16. n[k] = q /\ q[1] = "list" /\ q[2] = View'[t]
  BY <1>10, <1>11, <1>13 DEF Put
<1>17. /\ n = [m EXCEPT ![k] = n[k]] /\ m[k][1] = "list" /\ n[k][1] = "list"
       /\ Cells!Front(n[k][2]) = m[k][2]
  BY <1>11, <1>13, <1>15, <1>16 DEF Put
<1>18. Cells!Edited(m, n)
  BY ONLY <1>13, <1>17 DEF Cells!Edited
<1> QED BY <1>7, <1>9, <1>10, <1>18, ChangeCell
-----------------------------------------------------------------------------
(* A call is one of the holders' steps,                                       *)
LEMMA CallSeen ==
  ASSUME SlNow, Told, Told', todo = <<>>, Call, fault' = "none" PROVE Cells!Next
<1>0. /\ MaxLen \in Nat /\ \A k \in 0 .. MaxLen : k \in Nat
      /\ \A h \in Holder : Standing[h] = NULL <=> hold[h] = NULL
  BY SharedAssumption DEF Told
<1>1. ASSUME NEW h \in Holder, Makes(h) PROVE Cells!Next
  BY <1>1 DEF Makes, Cells!Next
<1>2. ASSUME NEW h \in Holder, New(h) PROVE Cells!Next
  <2>1. Standing[h] = NULL
    BY <1>0, <1>2 DEF New
  <2> QED BY <1>2, <2>1, NewSeen DEF Cells!Next
<1>3. ASSUME NEW h \in Holder, Free(h) PROVE Cells!Next
  <2>1. Standing[h] # NULL
    BY <1>0, <1>3 DEF Free
  <2> QED BY <1>3, <2>1, FreeSeen DEF Cells!Next
<1>4. ASSUME NEW h \in Holder, Derefer(h) PROVE Cells!Next
  <2>1. Standing[h] # NULL
    BY <1>0, <1>4 DEF Derefer
  <2> QED BY <1>4, <2>1, DereferSeen DEF Cells!Next
<1>5. ASSUME NEW h \in Holder, NEW g \in Holder, Copy(h, g) PROVE Cells!Next
  <2>1. Standing[h] # NULL /\ Standing[g] = NULL
    BY <1>0, <1>5 DEF Copy
  <2>2. Cells!Share(h, g) \/ Cells!Snapshot(h, g)
    BY <1>5, CopySeen
  <2> QED BY <2>1, <2>2 DEF Cells!Next
<1>6. ASSUME NEW h \in Holder, NEW g \in Holder, Refer(h, g) PROVE Cells!Next
  <2>1. Standing[h] # NULL /\ Standing[g] = NULL
    BY <1>0, <1>6 DEF Refer
  <2>2. Cells!Share(h, g) \/ Cells!Refer(h, g)
    BY <1>6, ReferSeen
  <2> QED BY <2>1, <2>2 DEF Cells!Next
<1>7. ASSUME NEW h \in Holder, NEW g \in Holder, Merge(h, g) PROVE Cells!Next
  BY <1>1, <1>7, MergeSeen
<1>8. ASSUME NEW h \in Holder, NEW k \in 0 .. MaxLen,
             \/ \E a \in Atom : InsertAtom(h, a, k) \/ (k > 0 /\ AddInside(h, k, a))
             \/ \E g \in Holder : InsertHeld(h, g, k)
             \/ Delete(h, k)
             \/ \E j \in 1 .. MaxLen : Swap(h, j, k)
      PROVE  Cells!Next
  <2>0. k \in Nat /\ \A j \in 1 .. MaxLen : j \in Nat
    BY <1>0
  <2>1. ASSUME (\E a \in Atom : InsertAtom(h, a, k)) \/ (\E g \in Holder : InsertHeld(h, g, k))
        PROVE  Cells!Next
    BY <1>1, <2>0, <2>1, InsertsSeen
  <2>2. ASSUME NEW a \in Atom, AddInside(h, k, a) PROVE Cells!Next
    <3>1. Standing[h] # NULL /\ Cells!Change(h)
      BY <2>0, <2>2, AddInsideSeen
    <3> QED BY <3>1 DEF Cells!Next
  <2>3. ASSUME Delete(h, k) PROVE Cells!Next
    BY <1>1, <2>0, <2>3, DeleteSeen
  <2>4. ASSUME NEW j \in 1 .. MaxLen, Swap(h, j, k) PROVE Cells!Next
    BY <1>1, <2>0, <2>4, SwapSeen
  <2> QED BY <1>8, <2>1, <2>2, <2>3, <2>4
<1> QED BY <1>2, <1>3, <1>4, <1>5, <1>6, <1>7, <1>8 DEF Call

(* and every other step is not seen.                                          *)
LEMMA StepSeen ==
  SlNow /\ Told /\ Told' /\ Next /\ fault' = "none"
    => Cells!Next \/ UNCHANGED <<Standing, Seen>>
<1> SUFFICES ASSUME SlNow, Told, Told', Next, fault' = "none"
             PROVE  Cells!Next \/ UNCHANGED <<Standing, Seen>>
  OBVIOUS
<1>1. CASE todo = <<>> /\ Call
  BY <1>1, CallSeen
<1>2. CASE FreeStep
  BY <1>2, FreeStepSeen
<1> QED BY <1>1, <1>2 DEF Next

(* The cells after a step.                                                    *)
LEMMA CellsAfter == SlNow' => Told'
BY CellsAre, PTL

(* In the beginning no variable has a list.                                   *)
LEMMA InitSeen == Init => Cells!Init
<1> SUFFICES ASSUME Init PROVE Cells!Init
  OBVIOUS
<1>1. Told
  BY SlInit, CellsAre
<1>2. \A h \in Holder : Standing[h] = NULL
  BY <1>1 DEF Told, Init
<1>3. Cells!InUse = {} /\ Standing = [h \in Holder |-> NULL]
  BY <1>1, <1>2 DEF Told, AllCells
<1>4. Seen = [d \in {} |-> Seen[d]]
  BY <1>1, <1>3 DEF Told, AllCells
<1>5. Seen = <<>>
  BY ONLY <1>4
<1> QED BY <1>3, <1>5 DEF Cells!Init

(* Lists shared by count, copied when a holder changes them and referred to,  *)
(* are to the variables that hold them the cells of Holders: a change reaches *)
(* the cell it was made at, and nobody else's list (jbl_gc.c, jbl_ll.c), in   *)
(* every step that is not one of the three breaches.                          *)
THEOREM ListsImplementHolders == Spec => ImplementsHolders
<1> DEFINE Step == fault' = "none" => Cells!Next \/ UNCHANGED <<Standing, Seen>>
<1>1. Init => Cells!Init
  BY InitSeen
<1>2. SlInv /\ SlInv' /\ [Next]_vars => [Step]_vars
  <2> SUFFICES ASSUME SlInv, SlInv', Next, fault' = "none"
               PROVE  Cells!Next \/ UNCHANGED <<Standing, Seen>>
    OBVIOUS
  <2>1. SlNow
    BY BeforeStep
  <2>2. SlNow'
    BY DEF SlInv
  <2> QED BY <2>1, <2>2, CellsAre, CellsAfter, StepSeen
<1>3. Spec => []SlInv
  BY SharedListsStayGood
<1> HIDE DEF Step
<1>4. Spec => Cells!Init /\ [][Step]_vars
  BY <1>1, <1>2, <1>3, PTL DEF Spec
<1> QED BY <1>4 DEF ImplementsHolders, Step
=============================================================================
