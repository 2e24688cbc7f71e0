---------------------------- MODULE CommonProofs ----------------------------
(* What several proofs use: the least-number principle, functions defined by  *)
(* recursion, sums over finite sets, and rounding up to a power of two.       *)
EXTENDS Powers, FiniteSetTheorems, WellFoundedInduction, TLAPS

(* A set of numbers has a least one.                                          *)
LEMMA LeastNumber ==
  ASSUME NEW T, T \subseteq Nat, T # {}
  PROVE  \E x \in T : \A y \in T : x <= y
<1> DEFINE R == OpToRel(<, Nat)
<1>1. PICK x \in T : \A y \in T : ~ (<<y, x>> \in R)
  BY NatLessThanWellFounded, WFMin
<1>2. \A y \in T : y < x => <<y, x>> \in R
  BY DEF OpToRel
<1> HIDE DEF R
<1>3. ASSUME NEW y \in T PROVE x <= y
  <2>1. ~ (y < x) /\ y \in Nat /\ x \in Nat
    BY <1>1, <1>2
  <2> QED BY <2>1
<1> QED BY <1>3

(* A factor divides.                                                          *)
LEMMA FactorDivides ==
  ASSUME NEW d \in Nat \ {0}, NEW j \in Nat, NEW p \in Nat, d * j = p
  PROVE  p % d = 0
<1> PICK q, r : q = p \div d /\ r = p % d
  OBVIOUS
<1>1. q \in Nat /\ r \in 0 .. d - 1 /\ p = d * q + r
  OBVIOUS
<1>2. PICK k \in Int : k = j - q
  BY <1>1
<1>3. d * j = d * q + d * k
  BY <1>1, <1>2
<1>4. d * k = r /\ d * k \in Int
  BY <1>1, <1>3
<1>5. CASE k >= 1
  <2>1. d * k >= d
    BY <1>5
  <2> QED BY <1>1, <1>4, <2>1
<1>6. CASE k <= -1
  <2>1. d * k <= -d
    BY <1>6
  <2> QED BY <1>1, <1>4, <2>1
<1>7. CASE k = 0
  BY <1>4, <1>7
<1> QED BY <1>5, <1>6, <1>7

(* Twice a power of two is one.                                               *)
LEMMA PowerDoubles ==
  ASSUME NEW p \in Nat \ {0}, PowerOfTwo(p)
  PROVE  PowerOfTwo(2 * p)
<1> SUFFICES ASSUME NEW d \in 2 .. 2 * p, (2 * p) % d = 0, d % 2 # 0
             PROVE  FALSE
  BY DEF PowerOfTwo
<1>0. PICK e \in Nat : d * e = 2 * p
  <2>1. PICK m \in Nat : m = 2 * p
    OBVIOUS
  <2>2. PICK q, r : q = m \div d /\ r = m % d
    OBVIOUS
  <2>3. m = d * q + r /\ q \in Nat
    BY <2>2
  <2>4. r = 0
    BY <2>1, <2>2
  <2>5. d * q \in Nat
    BY <2>3
  <2> QED BY <2>1, <2>3, <2>4, <2>5
<1>1. PICK k \in Nat : d = 2 * k + 1
  <2>1. d = 2 * (d \div 2) + (d % 2) /\ d % 2 \in 0 .. 1 /\ d \div 2 \in Nat
    OBVIOUS
  <2> QED BY <2>1
<1>2. PICK j \in Nat : j = p - k * e
  <2>1. k * e \in Nat /\ d * e = 2 * (k * e) + e
    BY <1>1
  <2>2. 2 * (k * e) + e = 2 * p
    BY <1>0, <2>1
  <2>3. k * e <= p /\ p - k * e \in Nat
    BY <2>1, <2>2
  <2> QED BY <2>3
<1>3. e = 2 * j
  <2>1. k * e \in Nat /\ d * e = 2 * (k * e) + e
    BY <1>1
  <2> QED BY <1>0, <1>2, <2>1
<1>4. d * j = p
  <2>1. d * e = 2 * (d * j)
    BY <1>3
  <2>2. d * j \in Nat
    OBVIOUS
  <2> QED BY <1>0, <2>1, <2>2
<1>5. j # 0
  BY <1>4
<1>6. d <= p
  BY <1>4, <1>5
<1>7. p % d = 0
  <2>1. d \in Nat \ {0} /\ p \in Nat
    OBVIOUS
  <2> QED BY ONLY <1>4, <2>1, j \in Nat, FactorDivides
<1> QED BY <1>6, <1>7 DEF PowerOfTwo

(* There is one from a number to its double.                                  *)
LEMMA PowerAbove ==
  ASSUME NEW n \in Nat \ {0}
  PROVE  \E p \in n .. 2 * n : PowerOfTwo(p)
<1> DEFINE T == {m \in Nat \ {0} : \A p \in m .. (2 * m - 1) : ~ PowerOfTwo(p)}
<1>1. ASSUME T # {} PROVE FALSE
  <2>1. PICK m \in T : \A y \in T : m <= y
    BY <1>1, LeastNumber
  <2>2. m # 1
    <3>1. PowerOfTwo(1)
      BY DEF PowerOfTwo
    <3> QED BY <3>1
  <2>3. PICK k \in Nat \ {0} : k < m /\ m <= 2 * k /\ k <= m - 1 /\ 2 * k <= m + 1
    <3>1. m = 2 * (m \div 2) + (m % 2) /\ m % 2 \in 0 .. 1 /\ m \div 2 \in Nat
      OBVIOUS
    <3> WITNESS m - m \div 2 \in Nat \ {0}
    <3> QED BY <2>2, <3>1
  <2>4. k \notin T
    BY <2>1, <2>3
  <2>5. PICK p \in k .. (2 * k - 1) : PowerOfTwo(p)
    BY <2>3, <2>4
  <2>6. PowerOfTwo(2 * p)
    BY <2>3, <2>5, PowerDoubles
  <2>7. p = m \/ 2 * p \in m .. (2 * m - 1)
    <3>1. m \in Nat /\ k \in Nat /\ p \in Nat /\ k <= p /\ p <= 2 * k - 1
      OBVIOUS
    <3>2. m <= 2 * k /\ 2 * k <= m + 1 /\ p <= m
      BY <2>3, <3>1
    <3> QED BY <3>1, <3>2
  <2>8. m \in m .. (2 * m - 1)
    OBVIOUS
  <2> QED BY <2>5, <2>6, <2>7, <2>8
<1> QED BY <1>1

(* Rounding up gives what is asked for at least, and at most its double.      *)
LEMMA PowerUpIs ==
  ASSUME NEW n \in Nat \ {0}
  PROVE  PowerUp(n) \in n .. 2 * n
<1> PICK T : T = {p \in n .. 2 * n : PowerOfTwo(p)}
  OBVIOUS
<1>1. T \subseteq Nat /\ T # {}
  BY PowerAbove
<1>2. PICK x \in T : \A y \in T : x <= y
  BY <1>1, LeastNumber
<1>3. Min(T) \in T
  BY <1>2 DEF Min
<1>4. PowerUp(n) = Min(T)
  BY DEF PowerUp
<1> QED BY <1>3, <1>4
-----------------------------------------------------------------------------
(* A definition by recursion to lower ranks, and what it defines.             *)
Falling(D, V, r, b, B) ==
  /\ r \in [D -> Nat] /\ b \in Nat /\ \A x \in D : r[x] <= b
  /\ B \in [D -> [[D -> V] -> V]]
  /\ \A x \in D : \A f, g \in [D -> V] :
       (\A y \in D : r[y] < r[x] => f[y] = g[y]) => B[x][f] = B[x][g]
Solves(D, V, B, f) == f \in [D -> V] /\ \A x \in D : f[x] = B[x][f]

(* A function defined by recursion to lower ranks exists.                     *)
LEMMA RecursionByRank ==
  ASSUME NEW D, NEW V, NEW v \in V, NEW r, NEW b, NEW B, Falling(D, V, r, b, B)
  PROVE  \E f : Solves(D, V, B, f)
<1>0. /\ r \in [D -> Nat] /\ b \in Nat /\ \A x \in D : r[x] <= b
      /\ B \in [D -> [[D -> V] -> V]]
      /\ \A x \in D : \A f, g \in [D -> V] :
           (\A y \in D : r[y] < r[x] => f[y] = g[y]) => B[x][f] = B[x][g]
  BY DEF Falling
<1> DEFINE P(m) == \E f \in [D -> V] : \A x \in D : r[x] < m => f[x] = B[x][f]
           T == {m \in Nat : ~ P(m)}
<1>1. P(0)
  <2> DEFINE f == [x \in D |-> v]
  <2>1. f \in [D -> V] /\ \A x \in D : ~ (r[x] < 0)
    BY <1>0
  <2> HIDE DEF f
  <2> QED BY <2>1
<1>2. ASSUME NEW l \in Nat, P(l) PROVE P(l + 1)
  <2>1. PICK g \in [D -> V] : \A x \in D : r[x] < l => g[x] = B[x][g]
    BY <1>2
  <2> DEFINE h == [x \in D |-> B[x][g]]
  <2>2. h \in [D -> V]
    BY <1>0
  <2>3. \A x \in D : h[x] = B[x][g]
    OBVIOUS
  <2> HIDE DEF h, P
  <2>4. ASSUME NEW x \in D, r[x] < l + 1 PROVE h[x] = B[x][h]
    <3>1. ASSUME NEW y \in D, r[y] < r[x] PROVE h[y] = g[y]
      <4>1. r[y] < l
        BY <1>0, <2>4, <3>1
      <4> QED BY <2>1, <2>3, <4>1
    <3>2. B[x][h] = B[x][g]
      BY <1>0, <2>2, <3>1
    <3> QED BY <2>3, <3>2
  <2> QED BY <2>2, <2>4 DEF P
<1> HIDE DEF P
<1>3. T = {}
  <2> SUFFICES ASSUME T # {} PROVE FALSE
    OBVIOUS
  <2>1. PICK m \in T : \A y \in T : m <= y
    BY LeastNumber
  <2>2. m \in Nat /\ m # 0
    BY <1>1, <2>1
  <2>3. PICK l : l = m - 1
    OBVIOUS
  <2>4. l \in Nat /\ m = l + 1 /\ ~ (m <= l)
    BY <2>2, <2>3
  <2>5. P(l)
    BY <2>1, <2>4
  <2> QED BY <1>2, <2>1, <2>4, <2>5
<1>4. b + 1 \in Nat
  BY <1>0
<1>5. P(b + 1)
  BY <1>3, <1>4
<1>6. \A x \in D : r[x] < b + 1
  BY <1>0
<1> QED BY <1>5, <1>6 DEF P, Solves
-----------------------------------------------------------------------------
(* Sums over finite sets, as MapThenSumSet takes them: one element after the  *)
(* other.                                                                     *)
First(s) == CHOOSE x \in s : TRUE
Folds(S, f, g) ==
  \A s \in SUBSET S : g[s] = IF s = {} THEN 0 ELSE f[First(s)] + g[s \ {First(s)}]
Sums(S, f, g) == g \in [SUBSET S -> Nat] /\ Folds(S, f, g)
Total(S, f) == (CHOOSE g : Sums(S, f, g))[S]

(* What is in a part of a finite set, and what is left without one element.   *)
LEMMA OneLess ==
  ASSUME NEW S, IsFiniteSet(S), NEW s \in SUBSET S
  PROVE  /\ IsFiniteSet(s) /\ Cardinality(s) \in Nat /\ Cardinality(s) <= Cardinality(S)
         /\ Cardinality(S) \in Nat
         /\ s # {} => First(s) \in s
         /\ \A x \in s : s \ {x} \in SUBSET S /\ Cardinality(s \ {x}) < Cardinality(s)
<1>1. IsFiniteSet(s) /\ Cardinality(s) <= Cardinality(S)
  BY FS_Subset
<1>2. Cardinality(s) \in Nat /\ Cardinality(S) \in Nat
  BY <1>1, FS_CardinalityType
<1>3. ASSUME NEW x \in s PROVE s \ {x} \in SUBSET S /\ Cardinality(s \ {x}) < Cardinality(s)
  <2>1. Cardinality(s \ {x}) = Cardinality(s) - 1
    BY <1>1, FS_RemoveElement
  <2> QED BY <1>2, <2>1
<1>4. s # {} => First(s) \in s
  BY DEF First
<1> QED BY <1>1, <1>2, <1>3, <1>4

(* A sum exists.                                                              *)
LEMMA SumsExist ==
  ASSUME NEW S, IsFiniteSet(S), NEW f \in [S -> Nat]
  PROVE  \E g : Sums(S, f, g)
<1> DEFINE D == SUBSET S
           r == [s \in D |-> Cardinality(s)]
           one(s, g) == IF s = {} THEN 0 ELSE f[First(s)] + g[s \ {First(s)}]
           B == [s \in D |-> [g \in [D -> Nat] |-> one(s, g)]]
<1>1. ASSUME NEW s \in D, NEW g \in [D -> Nat] PROVE one(s, g) \in Nat
  <2>1. CASE s # {}
    <3>1. First(s) \in S /\ s \ {First(s)} \in D
      BY <2>1, OneLess
    <3>2. f[First(s)] \in Nat /\ g[s \ {First(s)}] \in Nat
      BY <3>1
    <3> QED BY <2>1, <3>2
  <2> QED BY <2>1
<1>2. ASSUME NEW s \in D, NEW g \in [D -> Nat], NEW h \in [D -> Nat],
             \A t \in D : r[t] < r[s] => g[t] = h[t]
      PROVE  one(s, g) = one(s, h)
  <2>1. CASE s # {}
    <3>1. s \ {First(s)} \in D /\ Cardinality(s \ {First(s)}) < Cardinality(s)
      BY <2>1, OneLess
    <3>2. g[s \ {First(s)}] = h[s \ {First(s)}]
      BY <1>2, <3>1
    <3> QED BY <2>1, <3>2
  <2> QED BY <2>1
<1>3. r \in [D -> Nat] /\ Cardinality(S) \in Nat /\ \A s \in D : r[s] <= Cardinality(S)
  BY OneLess
<1>4. \A s \in D : \A g \in [D -> Nat] : B[s][g] = one(s, g)
  OBVIOUS
<1>5. B \in [D -> [[D -> Nat] -> Nat]]
  BY <1>1
<1> HIDE DEF one, B, r, D
<1>6. \A s \in D : \A g, h \in [D -> Nat] :
        (\A t \in D : r[t] < r[s] => g[t] = h[t]) => B[s][g] = B[s][h]
  BY <1>2, <1>4
<1>7. Falling(D, Nat, r, Cardinality(S), B)
  BY <1>3, <1>5, <1>6 DEF Falling
<1>8. PICK g : Solves(D, Nat, B, g)
  BY <1>7, RecursionByRank
<1>9. g \in [D -> Nat] /\ \A s \in D : g[s] = one(s, g)
  BY <1>4, <1>8 DEF Solves
<1> QED BY <1>9 DEF Sums, Folds, D, one

(* Sums of what is the same are the same, whichever set they are parts of.    *)
LEMMA SumsAgree ==
  ASSUME NEW S, IsFiniteSet(S), NEW T \in SUBSET S, NEW f \in [S -> Nat], NEW e \in [T -> Nat],
         \A x \in T : e[x] = f[x], NEW g, Folds(S, f, g), NEW h, Folds(T, e, h)
  PROVE  \A s \in SUBSET T : g[s] = h[s]
<1> DEFINE M == {Cardinality(s) : s \in {t \in SUBSET T : g[t] # h[t]}}
<1> SUFFICES ASSUME M # {} PROVE FALSE
  OBVIOUS
<1>2. \A s \in SUBSET T : s \in SUBSET S /\ Cardinality(s) \in Nat
  BY OneLess
<1>3. M \subseteq Nat
  BY <1>2
<1>4. PICK m \in M : \A n \in M : m <= n
  BY <1>3, LeastNumber
<1>5. PICK s \in SUBSET T : g[s] # h[s] /\ m = Cardinality(s)
  BY <1>4
<1>6. \A t \in SUBSET T : g[t] # h[t] => ~ (Cardinality(t) < Cardinality(s))
  <2> SUFFICES ASSUME NEW t \in SUBSET T, g[t] # h[t], Cardinality(t) < Cardinality(s)
               PROVE  FALSE
    OBVIOUS
  <2>1. Cardinality(t) \in M
    OBVIOUS
  <2>2. Cardinality(t) \in Nat /\ Cardinality(s) \in Nat /\ Cardinality(s) <= Cardinality(t)
    BY <1>2, <1>4, <1>5, <2>1
  <2> QED BY <2>2
<1> HIDE DEF M
<1>7. s # {}
  <2>1. {} \in SUBSET S /\ {} \in SUBSET T
    OBVIOUS
  <2>2. g[{}] = 0 /\ h[{}] = 0
    BY <2>1 DEF Folds
  <2> QED BY <1>5, <2>2
<1>8. PICK x : x = First(s)
  OBVIOUS
<1>9. x \in s /\ s \ {x} \in SUBSET T /\ Cardinality(s \ {x}) < Cardinality(s)
  <2>1. s \in SUBSET S
    BY <1>2
  <2> QED BY <1>7, <1>8, <2>1, OneLess
<1>10. g[s \ {x}] = h[s \ {x}]
  BY <1>6, <1>9
<1>11. g[s] = f[x] + g[s \ {x}] /\ h[s] = e[x] + h[s \ {x}]
  BY <1>2, <1>7, <1>8 DEF Folds
<1> QED BY <1>5, <1>9, <1>10, <1>11

(* It does not matter which element is taken first.                           *)
LEMMA SumsTake ==
  ASSUME NEW S, IsFiniteSet(S), NEW f \in [S -> Nat], NEW g, Sums(S, f, g)
  PROVE  \A s \in SUBSET S : \A x \in s : g[s] = f[x] + g[s \ {x}]
<1> DEFINE P(s) == \A x \in s : g[s] = f[x] + g[s \ {x}]
           M == {Cardinality(s) : s \in {t \in SUBSET S : ~ P(t)}}
<1>1. g \in [SUBSET S -> Nat]
  BY DEF Sums
<1> SUFFICES ASSUME M # {} PROVE FALSE
  OBVIOUS
<1>2. \A s \in SUBSET S : Cardinality(s) \in Nat
  BY OneLess
<1>3. M \subseteq Nat
  BY <1>2
<1>4. PICK m \in M : \A n \in M : m <= n
  BY <1>3, LeastNumber
<1>5. PICK s \in SUBSET S : ~ P(s) /\ m = Cardinality(s)
  BY <1>4
<1>6. ASSUME NEW t \in SUBSET S, Cardinality(t) < Cardinality(s) PROVE P(t)
  <2> SUFFICES ASSUME ~ P(t) PROVE FALSE
    OBVIOUS
  <2>1. Cardinality(t) \in M
    OBVIOUS
  <2>2. Cardinality(t) \in Nat /\ Cardinality(s) \in Nat /\ Cardinality(s) <= Cardinality(t)
    BY <1>2, <1>4, <1>5, <2>1
  <2> QED BY <1>6, <2>2
<1>7. PICK x \in s : g[s] # f[x] + g[s \ {x}]
  BY <1>5
<1>8. PICK y : y = First(s)
  OBVIOUS
<1>9. y \in s /\ g[s] = f[y] + g[s \ {y}]
  BY <1>7, <1>8, OneLess DEF Sums, Folds
<1>10. x # y
  BY <1>7, <1>9
<1>11. /\ s \ {x} \in SUBSET S /\ Cardinality(s \ {x}) < Cardinality(s)
       /\ s \ {y} \in SUBSET S /\ Cardinality(s \ {y}) < Cardinality(s)
  BY <1>9, OneLess
<1>12. P(s \ {x}) /\ P(s \ {y})
  BY <1>6, <1>11
<1> DEFINE rest == (s \ {x}) \ {y}
<1>13. rest = (s \ {y}) \ {x} /\ rest \in SUBSET S
  OBVIOUS
<1>14. g[s \ {y}] = f[x] + g[rest] /\ g[s \ {x}] = f[y] + g[rest]
  BY <1>9, <1>10, <1>12, <1>13
<1>15. f[x] \in Nat /\ f[y] \in Nat /\ g[rest] \in Nat
  BY <1>1, <1>9, <1>13
<1> HIDE DEF rest
<1>16. g[s] = f[x] + g[s \ {x}]
  <2> PICK a, b, c, p, q, u : /\ a = f[x] /\ b = f[y] /\ c = g[rest]
                              /\ p = g[s] /\ q = g[s \ {y}] /\ u = g[s \ {x}]
    OBVIOUS
  <2>1. a \in Nat /\ b \in Nat /\ c \in Nat /\ p = b + q /\ q = a + c /\ u = b + c
    BY <1>9, <1>14, <1>15
  <2>2. p = a + u
    BY ONLY <2>1
  <2> QED BY <2>2
<1> QED BY <1>7, <1>16

(* The sum of a finite set.                                                   *)
LEMMA TotalIs ==
  ASSUME NEW S, IsFiniteSet(S), NEW f \in [S -> Nat]
  PROVE  /\ Total(S, f) \in Nat
         /\ S = {} => Total(S, f) = 0
         /\ \A g : Sums(S, f, g) => g[S] = Total(S, f)
<1> PICK t : t = CHOOSE g : Sums(S, f, g)
  OBVIOUS
<1>1. Sums(S, f, t)
  BY SumsExist
<1>2. Total(S, f) = t[S] /\ S \in SUBSET S
  BY DEF Total
<1>3. t[S] \in Nat /\ (S = {} => t[S] = 0)
  BY <1>1, <1>2 DEF Sums, Folds
<1>4. ASSUME NEW g, Sums(S, f, g) PROVE g[S] = t[S]
  BY <1>1, <1>2, <1>4, SumsAgree DEF Sums
<1> QED BY <1>2, <1>3, <1>4

(* An element more.                                                           *)
LEMMA TotalAdd ==
  ASSUME NEW S, IsFiniteSet(S), NEW f \in [S -> Nat], NEW a, a \notin S,
         NEW T, T = S \cup {a}, NEW e \in [T -> Nat], \A x \in S : e[x] = f[x]
  PROVE  IsFiniteSet(T) /\ Total(T, e) = Total(S, f) + e[a]
<1>1. IsFiniteSet(T)
  BY FS_AddElement
<1>2. PICK g : Sums(T, e, g)
  BY <1>1, SumsExist
<1>3. PICK h : Sums(S, f, h)
  BY SumsExist
<1>4. g[T] = Total(T, e) /\ h[S] = Total(S, f)
  BY <1>1, <1>2, <1>3, TotalIs
<1>5. S \in SUBSET T /\ S \in SUBSET S /\ T \in SUBSET T /\ a \in T /\ T \ {a} = S
  OBVIOUS
<1>6. g[T] = e[a] + g[S]
  BY <1>1, <1>2, <1>5, SumsTake
<1>7. g[S] = h[S]
  BY <1>1, <1>2, <1>3, <1>5, SumsAgree DEF Sums
<1>8. Total(S, f) \in Nat /\ e[a] \in Nat
  BY <1>5, TotalIs
<1> PICK p, q : p = Total(S, f) /\ q = e[a]
  OBVIOUS
<1>9. q + p = p + q
  BY <1>8
<1> QED BY <1>1, <1>4, <1>6, <1>7, <1>9

(* An element of another size.                                                *)
LEMMA TotalChange ==
  ASSUME NEW S, IsFiniteSet(S), NEW f \in [S -> Nat], NEW e \in [S -> Nat], NEW a \in S,
         \A x \in S : x # a => e[x] = f[x]
  PROVE  Total(S, e) + f[a] = Total(S, f) + e[a]
<1> PICK T : T = S \ {a}
  OBVIOUS
<1> PICK d : d = [x \in T |-> f[x]]
  OBVIOUS
<1>1. IsFiniteSet(T) /\ d \in [T -> Nat] /\ a \notin T /\ S = T \cup {a}
  BY FS_RemoveElement
<1>2. (\A x \in T : e[x] = d[x]) /\ (\A x \in T : f[x] = d[x])
  OBVIOUS
<1>3. Total(S, e) = Total(T, d) + e[a] /\ Total(S, f) = Total(T, d) + f[a]
  BY <1>1, <1>2, TotalAdd
<1>4. Total(T, d) \in Nat /\ e[a] \in Nat /\ f[a] \in Nat
  BY <1>1, TotalIs
<1> PICK p, q, u : p = Total(T, d) /\ q = e[a] /\ u = f[a]
  OBVIOUS
<1>5. (p + q) + u = (p + u) + q
  BY <1>4
<1> QED BY <1>3, <1>5

Folded(S, f, i) ==
  [s \in SUBSET S |-> IF s = {} THEN 0 ELSE f[First(s)] + i[s \ {First(s)}]]

(* What MapThenSumSet makes of the same sizes is this sum.                    *)
LEMMA FoldIs ==
  ASSUME NEW S, IsFiniteSet(S), NEW f \in [S -> Nat], NEW g, Sums(S, f, g), NEW i
  PROVE  i = Folded(S, f, i) <=> i = g
<1> USE DEF Folded
<1>1. g \in [SUBSET S -> Nat] /\ Folds(S, f, g)
  BY DEF Sums
<1> DEFINE body(j) == [s \in SUBSET S |-> IF s = {} THEN 0 ELSE f[First(s)] + j[s \ {First(s)}]]
<1>2. g = body(g)
  BY <1>1 DEF Folds
<1>3. ASSUME i = body(i) PROVE i = g
  <2>1. Folds(S, f, i)
    <3> SUFFICES ASSUME NEW s \in SUBSET S
                 PROVE  i[s] = IF s = {} THEN 0 ELSE f[First(s)] + i[s \ {First(s)}]
      BY DEF Folds
    <3>1. i[s] = body(i)[s]
      BY <1>3
    <3> QED BY <3>1
  <2>2. \A s \in SUBSET S : g[s] = i[s]
    BY <1>1, <2>1, SumsAgree
  <2>3. i = [s \in SUBSET S |-> i[s]]
    <3>1. body(i) = [s \in SUBSET S |-> body(i)[s]]
      OBVIOUS
    <3> QED BY <1>3, <3>1
  <2> QED BY <1>1, <2>2, <2>3
<1> QED BY <1>2, <1>3
=============================================================================
