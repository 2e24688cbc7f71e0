-------------------------- MODULE MallocFastProofs --------------------------
(***************************************************************************)
(* Proofs about the allocator above its page layer, for every geometry of  *)
(* chunks, pages and bins, and any number of blocks.                       *)
(***************************************************************************)
EXTENDS MallocFast, PageHeapProofs, CommonProofs, FiniteSetTheorems, SequenceTheorems,
        WellFoundedInduction
-----------------------------------------------------------------------------
(* The inductive invariant. *)

(* The blocks of run r as one of bin t, and whether r is one.                 *)
BlocksOf(r, t) == {SmallBlock(r, t, k) : k \in 0 .. (BinCount[t] - 1)}
SmallRun(r, t) == map[r.c][r.i].kind = "small" /\ map[r.c][r.i].val = t
LargeRun(r) == map[r.c][r.i].kind = "large"
StartOf(r) == [c |-> r.c, o |-> r.i * PageBytes]

InSmallRun(t, a) == \E r \in runs : SmallRun(r, t) /\ a \in BlocksOf(r, t)
StartsLargeRun(a) == \E r \in runs : LargeRun(r) /\ a = StartOf(r)

(* Every page of a run carries the run's mark and its place in the run.       *)
MarkSpread(r) ==
  /\ LargeRun(r) \/ \E t \in Bin : SmallRun(r, t)
  /\ \A p \in RunPages(r) : /\ map[r.c][p].kind = map[r.c][r.i].kind
                           /\ map[r.c][p].val = map[r.c][r.i].val
                           /\ map[r.c][p].off = p - r.i
MarksSpread == \A r \in runs : MarkSpread(r)

HeapTypeOK ==
  /\ slot \in [Bin -> Seq(Addr)]
  /\ huge_list \subseteq [ptr : Addr, size : Nat, this : Addr]
  /\ Live \subseteq Addr
  /\ \A a \in Live : asked[a] \in Sizes
  /\ \/ pc \in {Idle, Stopping, Stopped}
     \/ \E a \in Live : pc = Moving(a)
     \/ \E t \in Bin : \E k \in 0 .. Len(slot[t]) : pc = Reclaiming(t, k)

(* The blocks of bin t that the walk of __jbl_free_smalls has yet to count.   *)
Behind(t) == IF pc.op = "reclaim" /\ pc.t = t THEN pc.k ELSE 0
Ahead(t) == {slot[t][j] : j \in (Behind(t) + 1) .. Len(slot[t])}

ListedBacked == \A t \in Bin : \A a \in Listed(t) : InSmallRun(t, a)
ListedOnce == \A t, u \in Bin : \A j \in DOMAIN slot[t], k \in DOMAIN slot[u] :
                slot[t][j] = slot[u][k] => t = u /\ j = k

(* U is a set of small blocks and large runs in use.                          *)
UsedBacked(U) == \A a \in U : StartsLargeRun(a) \/ \E t \in Bin : InSmallRun(t, a)
UsedUnlisted(U) == \A t \in Bin : Listed(t) \cap U = {}

(* What is counted of a run, and its blocks that are in use or to be counted, *)
(* are never more than all its blocks: so a run whose last block is counted   *)
(* has none in use.                                                           *)
CountsBounded(U) ==
  \A r \in runs, t \in Bin :
    SmallRun(r, t) =>
      map[r.c][r.i].cnt + Cardinality(BlocksOf(r, t) \cap (U \cup Ahead(t))) <= BinCount[t]

(* Huge blocks have areas and headers of their own.                           *)
HugeApart ==
  /\ \A g, h \in huge_list : g.ptr = h.ptr \/ g.this = h.this => g = h
  /\ \A g \in huge_list : /\ g.ptr.o = 0 /\ g.ptr.c \notin main
                          /\ g.size > LargeMax
  /\ HugePtrs \subseteq Live
  /\ \A h \in Headers : InSmallRun(BinFor(HugeHeader), h)
  /\ Live \cap Headers = {}

Used == (Live \ HugePtrs) \cup Headers
Sound(U) == MarksSpread /\ ListedBacked /\ ListedOnce
              /\ UsedBacked(U) /\ UsedUnlisted(U) /\ CountsBounded(U)
HeapInv == /\ PageInv /\ HeapTypeOK
           /\ Up => Sound(Used) /\ HugeApart
-----------------------------------------------------------------------------
(* Arithmetic. *)

(* Products by a natural number keep the order. *)
LEMMA MulOrder ==
  ASSUME NEW b \in Nat, NEW x \in Int, NEW y \in Int, x <= y
  PROVE  b * x <= b * y /\ x * b <= y * b
<1> PICK n \in Nat : y = x + n
  <2>1. y - x \in Nat /\ y = x + (y - x)
    OBVIOUS
  <2> QED BY <2>1
<1>1. b * n \in Nat /\ b * (x + n) = b * x + b * n
  OBVIOUS
<1> QED BY <1>1

(* Quotient and remainder by a positive number. *)
LEMMA DivBounds ==
  ASSUME NEW b \in Nat \ {0}, NEW x \in Nat
  PROVE  /\ x \div b \in Nat
         /\ (x \div b) * b <= x /\ x < (x \div b) * b + b
         /\ x = (x \div b) * b + (x % b)
<1> DEFINE d == x \div b
<1>1. x = b * d + (x % b) /\ 0 <= x % b /\ x % b < b /\ d \in Int
  OBVIOUS
<1>2. d \in Nat
  <2> SUFFICES ASSUME d + 1 <= 0 PROVE FALSE
    BY <1>1
  <2> HIDE DEF d
  <2>1. b * (d + 1) <= b * 0
    BY <1>1, MulOrder
  <2> QED BY <1>1, <2>1
<1> QED BY <1>1, <1>2

(* The quotient lies where the multiples of the divisor say.                  *)
LEMMA DivRange ==
  ASSUME NEW b \in Nat \ {0}, NEW x \in Nat, NEW q \in Nat
  PROVE  /\ q * b <= x => q <= x \div b
         /\ x < q * b => x \div b < q
<1> DEFINE d == x \div b
<1>1. d \in Nat /\ d * b <= x /\ x < d * b + b
  BY DivBounds
<1> HIDE DEF d
<1>2. ASSUME q * b <= x, d + 1 <= q PROVE FALSE
  <2>1. (d + 1) * b <= q * b
    BY <1>1, <1>2, MulOrder
  <2>2. (d + 1) * b = d * b + b
    BY <1>1
  <2> QED BY <1>1, <1>2, <2>1, <2>2
<1>3. ASSUME x < q * b, q <= d PROVE FALSE
  <2>1. q * b <= d * b
    BY <1>1, <1>3, MulOrder
  <2> QED BY <1>1, <1>3, <2>1
<1> QED BY <1>1, <1>2, <1>3 DEF d

(* A nonempty set of numbers has a least member. *)
LEMMA LeastElement ==
  ASSUME NEW T, T \subseteq Nat, T # {}
  PROVE  \E x \in T : \A y \in T : x <= y
<1> DEFINE R == {ss \in Nat \X Nat : ss[1] < ss[2]}
<1>1. IsWellFoundedOn(R, Nat)
  BY NatLessThanWellFounded DEF OpToRel
<1> HIDE DEF R
<1>2. PICK x \in T : \A y \in T : ~ (<<y, x>> \in R)
  BY <1>1, WFMin
<1>3. ASSUME NEW y \in T, y < x PROVE FALSE
  <2>1. <<y, x>> \in R
    BY <1>3 DEF R
  <2> QED BY <1>2, <2>1
<1>4. \A y \in T : x <= y
  BY <1>3
<1> QED BY <1>4

(* The bin of a small request is the least that is large enough.              *)
LEMMA BinForRight ==
  ASSUME NEW sz \in Nat, sz <= SmallMax
  PROVE  BinFor(sz) \in Bin /\ sz <= BinBytes[BinFor(sz)]
<1> USE MallocFastAssumption, PageHeapAssumption
<1> DEFINE T == {t \in Bin : sz <= BinBytes[t]}
<1>1. T # {} /\ T \subseteq Nat
  OBVIOUS
<1>2. PICK t \in T : \A u \in T : t <= u
  BY <1>1, LeastElement
<1>3. \A u \in Bin : u < t => BinBytes[u] < sz
  <2> SUFFICES ASSUME NEW u \in Bin, u < t, ~ (BinBytes[u] < sz) PROVE FALSE
    OBVIOUS
  <2>1. u \in T
    <3>1. BinBytes[u] \in Int
      OBVIOUS
    <3> QED BY <3>1
  <2> QED BY <1>2, <2>1
<1> QED BY <1>2, <1>3 DEF BinFor

-----------------------------------------------------------------------------
(* Blocks and the pages of their runs. *)

(* Two runs of a chunk that share a page are one. *)
LEMMA SameRun ==
  ASSUME PageInv, NEW r \in runs, NEW s \in runs, r.c = s.c,
         NEW p \in RunPages(r), p \in RunPages(s)
  PROVE  r = s
BY DEF PageInv, RunsDisjoint

(* Multiples, in the form the next lemmas need them: b, n, P stand alone, so  *)
(* that no fact about the constants comes with them.                          *)
LEMMA SliceEnds ==
  ASSUME NEW b \in Nat, NEW n \in Nat, NEW k \in Nat, NEW room \in Nat,
         k + 1 <= n, n * b <= room
  PROVE  k * b \in Nat /\ k * b + b <= room
<1>1. (k + 1) * b <= n * b
  BY MulOrder
<1>2. (k + 1) * b = k * b + b /\ k * b \in Nat /\ n * b \in Nat
  OBVIOUS
<1> QED BY <1>1, <1>2

(* An offset inside n pages lies between the first page and the end of the    *)
(* last.                                                                      *)
LEMMA OffsetEnds ==
  ASSUME NEW P \in Nat, NEW i \in Nat, NEW n \in Nat, NEW x \in Nat, x < n * P
  PROVE  /\ i * P \in Nat /\ i * P + x \in Nat /\ (i + n) * P \in Nat
         /\ i * P <= i * P + x /\ i * P + x < (i + n) * P
<1>1. (i + n) * P = i * P + n * P /\ i * P \in Nat /\ n * P \in Nat
  OBVIOUS
<1> QED BY <1>1

(* A multiple of the page size is the offset of its page. *)
LEMMA WholeMultiple ==
  ASSUME NEW P \in Nat \ {0}, NEW i \in Nat
  PROVE  /\ i * P \in Nat /\ (i * P) \div P = i /\ (i * P) % P = 0
<1> DEFINE x == i * P
           d == x \div P
           m == x % P
<1>1. x \in Nat /\ i * P <= x /\ (i + 1) * P = x + P /\ i + 1 \in Nat
  OBVIOUS
<1>2. x < (i + 1) * P
  <2> HIDE DEF x
  <2> QED BY <1>1
<1>3. i <= d /\ d < i + 1
  <2>1. ASSUME NEW y \in Nat, i * P <= y, y < (i + 1) * P
        PROVE  i <= y \div P /\ y \div P < i + 1
    BY <1>1, <2>1, DivRange
  <2> QED BY <1>1, <1>2, <2>1
<1>4. d \in Nat /\ x = d * P + m
  BY <1>1, DivBounds
<1>5. m \in Int
  BY <1>1
<1> HIDE DEF d, m
<1>6. d = i
  BY <1>3, <1>4
<1>7. x = x + m /\ x \in Int
  BY <1>1, <1>4, <1>6
<1> HIDE DEF x
<1>8. m = 0
  BY <1>5, <1>7
<1> QED BY <1>1, <1>6, <1>8 DEF x, d, m

(* What the assumptions say of the constants, one fact at a time.             *)
LEMMA Geometry ==
  /\ PageBytes \in Nat /\ PageBytes > 0 /\ PageBytes \in Nat \ {0}
  /\ BitLimit \in Nat /\ PageCount = BitLimit /\ BitLimit > 1
  /\ SmallMax \in Nat /\ SmallMax < PageBytes
  /\ ChunkBytes = BitLimit * PageBytes /\ LargeMax = (BitLimit - 1) * PageBytes
  /\ \A t \in Bin : /\ t \in Nat
                    /\ BinBytes[t] \in Nat /\ BinBytes[t] > 0 /\ BinBytes[t] <= SmallMax
                    /\ BinCount[t] \in Nat /\ BinCount[t] > 0
                    /\ BinPages[t] \in Nat /\ BinPages[t] > 0 /\ BinPages[t] < BitLimit
                    /\ BinPages[t] \in 1 .. (PageCount - 1)
                    /\ BinCount[t] * BinBytes[t] <= BinPages[t] * PageBytes
<1> USE MallocFastAssumption, PageHeapAssumption, BitRangeAssumption
<1>1. SmallMax \in Nat
  <2>1. PICK t \in Bin : BinBytes[t] = SmallMax
    OBVIOUS
  <2> QED BY <2>1
<1>2. ASSUME NEW t \in Bin
      PROVE  /\ t \in Nat
             /\ BinBytes[t] \in Nat /\ BinBytes[t] > 0 /\ BinBytes[t] <= SmallMax
             /\ BinCount[t] \in Nat /\ BinCount[t] > 0
             /\ BinPages[t] \in Nat /\ BinPages[t] > 0 /\ BinPages[t] < BitLimit
             /\ BinPages[t] \in 1 .. (PageCount - 1)
             /\ BinCount[t] * BinBytes[t] <= BinPages[t] * PageBytes
  <2>1. BinBytes[t] \in 1 .. SmallMax /\ BinCount[t] \in Nat \ {0}
        /\ BinPages[t] \in 1 .. (PageCount - 1)
    OBVIOUS
  <2>2. BinCount[t] * BinBytes[t] <= BinPages[t] * PageBytes
    OBVIOUS
  <2>3. t \in Nat
    OBVIOUS
  <2> QED BY <1>1, <2>1, <2>2, <2>3 DEF PageCount
<1> QED BY <1>1, <1>2 DEF PageCount, ChunkBytes, LargeMax

(* An offset within the pages i .. i+n-1 of a chunk.                          *)
LEMMA OffsetPage ==
  ASSUME NEW i \in Nat, NEW n \in Nat, NEW o \in Nat, i + n <= BitLimit,
         i * PageBytes <= o, o < (i + n) * PageBytes
  PROVE  o \div PageBytes \in i .. (i + n - 1) /\ o \in 0 .. (ChunkBytes - 1)
<1> DEFINE last == i + n
<1>1. last \in Nat /\ last <= BitLimit /\ PageBytes \in Nat \ {0} /\ PageBytes \in Nat
      /\ BitLimit \in Nat /\ ChunkBytes = BitLimit * PageBytes
  BY Geometry
<1> HIDE DEF last
<1>2. o < last * PageBytes
  BY DEF last
<1>3. i <= o \div PageBytes /\ o \div PageBytes < last /\ o \div PageBytes \in Nat
  BY <1>1, <1>2, DivRange, DivBounds
<1>4. last * PageBytes <= BitLimit * PageBytes
  BY <1>1, MulOrder
<1>5. last * PageBytes \in Nat /\ BitLimit * PageBytes \in Nat
  BY <1>1
<1>6. o < ChunkBytes /\ ChunkBytes \in Nat
  BY <1>1, <1>2, <1>4, <1>5
<1> QED BY <1>3, <1>6 DEF last

(* The blocks cut from a run of the bin's size lie on the pages of the run.   *)
LEMMA BlockPages ==
  ASSUME NEW t \in Bin, NEW r, r.c \in Region, r.i \in Nat, r.n = BinPages[t],
         r.i + r.n <= BitLimit, NEW a \in BlocksOf(r, t)
  PROVE  a \in Addr /\ a.c = r.c /\ PageOf(a) \in RunPages(r) /\ PageOf(a) \in Nat
<1> DEFINE i == r.i
           n == BinPages[t]
<1>1. PICK k \in 0 .. (BinCount[t] - 1) : a = SmallBlock(r, t, k)
  BY DEF BlocksOf
<1> DEFINE x == k * BinBytes[t]
           o == i * PageBytes + x
<1>2. /\ BinBytes[t] \in Nat /\ BinCount[t] \in Nat /\ k \in Nat /\ k + 1 <= BinCount[t]
      /\ BinBytes[t] > 0 /\ n \in Nat /\ PageBytes \in Nat /\ n * PageBytes \in Nat
      /\ BinCount[t] * BinBytes[t] <= n * PageBytes /\ i \in Nat /\ i + n <= BitLimit
  BY Geometry
<1>3. x \in Nat /\ x + BinBytes[t] <= n * PageBytes
  BY <1>2, SliceEnds
<1>4. a.c = r.c /\ a.o = o /\ a = [c |-> r.c, o |-> o]
  BY <1>1 DEF SmallBlock
<1> HIDE DEF i, n, x
<1>5. x < n * PageBytes
  BY <1>2, <1>3
<1>6. o \in Nat /\ i * PageBytes <= o /\ o < (i + n) * PageBytes
  BY <1>2, <1>3, <1>5, OffsetEnds
<1> HIDE DEF o
<1>7. o \div PageBytes \in i .. (i + n - 1) /\ o \in 0 .. (ChunkBytes - 1)
  BY <1>2, <1>6, OffsetPage
<1>8. PageOf(a) \in RunPages(r) /\ PageOf(a) \in Nat
  BY <1>2, <1>4, <1>7 DEF PageOf, RunPages, i, n
<1> QED BY <1>4, <1>7, <1>8 DEF Addr

(* The first block of a run of whole pages.                                   *)
LEMMA StartPages ==
  ASSUME NEW r, r.c \in Region, r.i \in Nat, r.i > 0, r.n \in Nat, r.n > 0,
         r.i + r.n <= BitLimit
  PROVE  /\ StartOf(r) \in Addr /\ StartOf(r).c = r.c /\ PageOf(StartOf(r)) = r.i
         /\ r.i \in RunPages(r)
         /\ StartOf(r).o % PageBytes = 0 /\ StartOf(r).o # 0
<1> DEFINE i == r.i
           n == r.n
           o == i * PageBytes
<1>1. i \in Nat /\ n \in Nat /\ i > 0 /\ n > 0 /\ i + n <= BitLimit /\ PageBytes \in Nat
      /\ PageBytes \in Nat \ {0} /\ PageBytes > 0
  BY Geometry
<1> HIDE DEF i, n
<1>2. o \in Nat /\ o \div PageBytes = i /\ o % PageBytes = 0
  BY <1>1, WholeMultiple
<1>3. 1 * PageBytes <= o
  <2>1. 1 <= i
    BY <1>1
  <2> QED BY <1>1, <2>1, MulOrder
<1>4. o # 0
  BY <1>1, <1>2, <1>3
<1>5. 0 < n * PageBytes
  <2>1. 1 <= n
    BY <1>1
  <2>2. 1 * PageBytes <= n * PageBytes /\ n * PageBytes \in Nat
    BY <1>1, <2>1, MulOrder
  <2> QED BY <1>1, <2>2
<1>6. o + 0 < (i + n) * PageBytes /\ i * PageBytes <= o
  BY <1>1, <1>2, <1>5, OffsetEnds
<1>7. o < (i + n) * PageBytes
  BY <1>2, <1>6
<1>8. o \in 0 .. (ChunkBytes - 1)
  BY <1>1, <1>2, <1>6, <1>7, OffsetPage
<1>9. StartOf(r).c = r.c /\ StartOf(r).o = o
  BY DEF StartOf, i
<1> HIDE DEF o
<1> QED BY <1>1, <1>2, <1>4, <1>8, <1>9 DEF StartOf, Addr, PageOf, RunPages, i, n, o

(* A run and its kind: the pages of a run of bin t are the bin's.             *)
LEMMA RunKind ==
  ASSUME PageInv, NEW r \in runs
  PROVE  /\ \A t \in Bin : SmallRun(r, t) => r.n = BinPages[t]
         /\ LargeRun(r) => r.n = map[r.c][r.i].val
         /\ r.i > 0
BY RunShape DEF PageInv, RunsBacked, MarkPages, SmallRun, LargeRun

(* A block of a small run: on the pages of its run, which carry its mark.     *)
LEMMA SmallBlockShape ==
  ASSUME PageInv, MarksSpread, NEW t \in Bin, NEW r \in runs, SmallRun(r, t),
         NEW a \in BlocksOf(r, t)
  PROVE  /\ a \in Addr /\ a.c = r.c /\ PageOf(a) \in RunPages(r)
         /\ MarkOf(a).kind = "small" /\ MarkOf(a).val = t /\ Father(a) = r.i
<1>1. /\ r.c \in Region /\ r.i \in Nat /\ r.n \in Nat /\ r.i + r.n <= BitLimit
      /\ r.n = BinPages[t]
  BY RunShape, RunKind
<1>2. a \in Addr /\ a.c = r.c /\ PageOf(a) \in RunPages(r) /\ PageOf(a) \in Nat
  BY <1>1, BlockPages
<1>3. /\ MarkOf(a).kind = "small" /\ MarkOf(a).val = t /\ MarkOf(a).off = PageOf(a) - r.i
  BY <1>2 DEF MarksSpread, MarkSpread, MarkOf, SmallRun
<1>4. Father(a) = r.i
  BY <1>1, <1>2, <1>3 DEF Father
<1> QED BY <1>2, <1>3, <1>4

(* The start of a large run: a whole page, not the first, with a large mark.  *)
LEMMA LargeStartShape ==
  ASSUME PageInv, NEW r \in runs, LargeRun(r)
  PROVE  /\ StartOf(r) \in Addr /\ StartOf(r).c = r.c
         /\ PageOf(StartOf(r)) = r.i /\ PageOf(StartOf(r)) \in RunPages(r)
         /\ StartOf(r).o % PageBytes = 0 /\ StartOf(r).o # 0
         /\ MarkOf(StartOf(r)).kind = "large" /\ MarkOf(StartOf(r)).val = r.n
<1>1. /\ r.c \in Region /\ r.i \in Nat /\ r.n \in Nat /\ r.n > 0 /\ r.i + r.n <= BitLimit
      /\ r.i > 0 /\ r.n = map[r.c][r.i].val
  BY RunShape, RunKind
<1>2. /\ StartOf(r) \in Addr /\ StartOf(r).c = r.c /\ PageOf(StartOf(r)) = r.i
      /\ r.i \in RunPages(r) /\ StartOf(r).o % PageBytes = 0 /\ StartOf(r).o # 0
  BY <1>1, StartPages
<1> QED BY <1>1, <1>2 DEF MarkOf, LargeRun

(* A bin's run has no more blocks than the bin's count.                       *)
LEMMA BlocksFinite ==
  ASSUME NEW t \in Bin, NEW r
  PROVE  /\ IsFiniteSet(BlocksOf(r, t)) /\ Cardinality(BlocksOf(r, t)) \in Nat
         /\ Cardinality(BlocksOf(r, t)) <= BinCount[t]
<1> DEFINE K == 0 .. (BinCount[t] - 1)
           B == BlocksOf(r, t)
           f == [k \in K |-> SmallBlock(r, t, k)]
<1>1. BinCount[t] \in Nat /\ BinCount[t] > 0
  BY Geometry
<1>2. f \in Surjection(K, B)
  BY DEF BlocksOf, Surjection
<1>3. IsFiniteSet(K) /\ Cardinality(K) = BinCount[t]
  <2>1. BinCount[t] - 1 \in Int /\ ~ (0 > BinCount[t] - 1) /\ BinCount[t] - 1 - 0 + 1 = BinCount[t]
    BY <1>1
  <2> QED BY <2>1, FS_Interval
<1> HIDE DEF K, B, f
<1>4. IsFiniteSet(B) /\ Cardinality(B) <= Cardinality(K)
  BY <1>2, <1>3, FS_Surjection
<1> QED BY <1>3, <1>4, FS_CardinalityType DEF B

(* So is every part of them counted by a natural number, and a part of a part *)
(* is no larger.                                                              *)
LEMMA BlocksCount ==
  ASSUME NEW t \in Bin, NEW r, NEW X
  PROVE  /\ IsFiniteSet(BlocksOf(r, t) \cap X)
         /\ Cardinality(BlocksOf(r, t) \cap X) \in Nat
         /\ Cardinality(BlocksOf(r, t) \cap X) <= BinCount[t]
<1>1. BlocksOf(r, t) \cap X \in SUBSET BlocksOf(r, t)
  OBVIOUS
<1>2. BinCount[t] \in Nat
  BY Geometry
<1> QED BY <1>1, <1>2, BlocksFinite, FS_Subset, FS_CardinalityType

-----------------------------------------------------------------------------
(* Choosing elements of a sequence by their positions.                        *)

(* The positions up to j are counted by their ranks 1, 2, ... in J.           *)
LEMMA RanksDiffer ==
  ASSUME NEW J, J \subseteq Nat, IsFiniteSet(J)
  PROVE  /\ \A n \in 1 .. Cardinality(J) :
              \E j \in J : Cardinality({i \in J : i <= j}) = n
         /\ Cardinality(J) \in Nat
<1> DEFINE Upto(j) == {i \in J : i <= j}
           N == Cardinality(J)
           f == [j \in J |-> Cardinality(Upto(j))]
<1>1. N \in Nat
  BY FS_CardinalityType
<1>2. ASSUME NEW j \in J
      PROVE  IsFiniteSet(Upto(j)) /\ Cardinality(Upto(j)) \in 1 .. N
  <2>1. Upto(j) \in SUBSET J /\ j \in Upto(j)
    OBVIOUS
  <2>2. IsFiniteSet(Upto(j)) /\ Cardinality(Upto(j)) <= N /\ Cardinality(Upto(j)) \in Nat
    BY <2>1, FS_Subset, FS_CardinalityType
  <2>3. Cardinality(Upto(j)) # 0
    BY <2>1, <2>2, FS_EmptySet
  <2> QED BY <1>1, <2>2, <2>3
<1>3. ASSUME NEW i \in J, NEW j \in J, i < j
      PROVE  Cardinality(Upto(i)) # Cardinality(Upto(j))
  <2>1. Upto(i) \in SUBSET Upto(j)
    <3>1. \A x \in J : x \in Nat
      OBVIOUS
    <3> SUFFICES ASSUME NEW x \in J, x <= i PROVE x <= j
      OBVIOUS
    <3> QED BY <1>3, <3>1
  <2>2. j \in Upto(j) /\ j \notin Upto(i)
    BY <1>3
  <2> HIDE DEF Upto
  <2> QED BY <1>2, <2>1, <2>2, FS_Subset
<1>4. f \in Injection(J, 1 .. N)
  <2>1. f \in [J -> 1 .. N]
    BY <1>2
  <2>2. \A i, j \in J : i < j \/ j < i \/ i = j
    OBVIOUS
  <2>3. \A i, j \in J : f[i] = f[j] => i = j
    BY <1>3, <2>2
  <2> QED BY <2>1, <2>3 DEF Injection, IsInjective
<1>5. IsFiniteSet(1 .. N) /\ Cardinality(1 .. N) = N
  BY <1>1, FS_Interval
<1>6. f \in Surjection(J, 1 .. N)
  <2> HIDE DEF f, N
  <2>1. N = Cardinality(J)
    BY DEF N
  <2> QED BY <1>4, <1>5, <2>1, FS_Injection
<1>7. \A n \in 1 .. N : \E j \in J : f[j] = n
  BY <1>6 DEF Surjection
<1> QED BY <1>1, <1>7

(* new has the elements of list at distinct positions, taken from I.          *)
Draws(new, list, at, I) ==
  /\ at \in [DOMAIN new -> I]
  /\ \A m, n \in DOMAIN new : at[m] = at[n] => m = n
  /\ \A n \in DOMAIN new : new[n] = list[at[n]]

(* Picked keeps the chosen elements, each once.                               *)
LEMMA PickedShape ==
  ASSUME NEW S, NEW list \in Seq(S), NEW J, J \subseteq 1 .. Len(list)
  PROVE  Picked(list, J) \in Seq(S) /\ \E at : Draws(Picked(list, J), list, at, J)
<1> DEFINE N == Cardinality(J)
           Rank(j) == Cardinality({i \in J : i <= j})
           at == [n \in 1 .. N |-> CHOOSE j \in J : Rank(j) = n]
           p == [n \in 1 .. N |-> list[at[n]]]
<1>1. Len(list) \in Nat /\ J \subseteq Nat /\ IsFiniteSet(J)
  <2>1. Len(list) \in Nat
    OBVIOUS
  <2>2. IsFiniteSet(1 .. Len(list)) /\ J \in SUBSET (1 .. Len(list))
    BY <2>1, FS_Interval
  <2>3. IsFiniteSet(J)
    BY <2>2, FS_Subset
  <2>4. \A j \in 1 .. Len(list) : j \in Nat
    BY <2>1
  <2> QED BY <2>1, <2>3, <2>4
<1>2. N \in Nat /\ \A n \in 1 .. N : \E j \in J : Rank(j) = n
  BY <1>1, RanksDiffer
<1> HIDE DEF N, Rank
<1>3. at \in [1 .. N -> J] /\ \A n \in 1 .. N : Rank(at[n]) = n
  BY <1>2
<1> HIDE DEF at
<1>4. \A n \in 1 .. N : list[at[n]] \in S
  <2> SUFFICES ASSUME NEW n \in 1 .. N PROVE list[at[n]] \in S
    OBVIOUS
  <2>1. at[n] \in 1 .. Len(list)
    BY <1>3
  <2> QED BY <2>1, ElementOfSeq
<1>5. p \in [1 .. N -> S]
  BY <1>4
<1>6. p \in Seq(S) /\ DOMAIN p = 1 .. N
  BY <1>2, <1>5
<1>7. Draws(p, list, at, J)
  <2>1. \A m, n \in 1 .. N : at[m] = at[n] => m = n
    BY <1>3
  <2>2. \A n \in 1 .. N : p[n] = list[at[n]]
    OBVIOUS
  <2> HIDE DEF p
  <2> QED BY <1>3, <1>6, <2>1, <2>2 DEF Draws
<1>8. Picked(list, J) = p
  BY DEF Picked, at, N, Rank
<1> HIDE DEF p
<1> QED BY <1>6, <1>7, <1>8

-----------------------------------------------------------------------------
(* What the steps of the page layer do to runs and their marks.               *)

(* jbl_malloc_page adds one run, off the others, with its mark on each page;  *)
(* other marks stay.                                                          *)
LEMMA MallocPageFacts ==
  ASSUME PageInv, NEW nums \in 1 .. (PageCount - 1), NEW m \in PageMarks(nums),
         NEW r \in Places(nums), MallocPage(nums, m, r)
  PROVE  /\ r \in Run /\ r.c \in Region /\ r.i \in Nat /\ r.i > 0 /\ r.n = nums
         /\ r.i + r.n <= BitLimit
         /\ r \notin runs /\ runs' = runs \cup {r} /\ main' = main \cup {r.c}
         /\ \A s \in runs : s.c = r.c => RunPages(s) \cap RunPages(r) = {}
         /\ \A s \in runs : \A p \in RunPages(s) : map'[s.c][p] = map[s.c][p]
         /\ \A p \in RunPages(r) : map'[r.c][p] = [m EXCEPT !.off = p - r.i]
<1>1. /\ r \in Run /\ r.n = nums /\ 0 \notin RunPages(r) /\ r.i + r.n <= BitLimit
      /\ r.c \in main => RunPages(r) \cap fmap[r.c] = {}
  <2>1. CASE r.c \in main
    BY <2>1, PlaceInMain
  <2>2. CASE r.c \notin main
    <3>1. r \in Run /\ r.n = nums /\ r.i = 1 /\ RunPages(r) = 1 .. nums
      BY <2>2, PlaceInNewChunk
    <3>2. PageCount \in Nat /\ PageCount = BitLimit
      BY Geometry
    <3> QED BY <2>2, <3>1, <3>2
  <2> QED BY <2>1, <2>2
<1>2. r.c \in Region /\ r.i \in Nat /\ r.i \in RunPages(r) /\ RunPages(r) \subseteq Page
      /\ r.i > 0
  <2>1. r.c \in Region /\ r.i \in Page /\ r.n \in 1 .. (PageCount - 1)
        /\ PageCount \in Nat /\ PageCount = BitLimit
    BY <1>1, Geometry DEF Run
  <2> QED BY <1>1, <2>1 DEF RunPages, Page
<1>3. \A s \in runs : /\ s.c \in main /\ s.c \in Region /\ RunPages(s) \subseteq fmap[s.c]
                      /\ s.i \in RunPages(s) /\ RunPages(s) \subseteq Page
  BY RunShape DEF PageInv, PageTypeOK
<1>4. \A s \in runs : s.c = r.c => RunPages(s) \cap RunPages(r) = {}
  BY <1>1, <1>3
<1>5. r \notin runs
  BY <1>2, <1>4
<1>6. map \in [Region -> [Page -> Mark]]
  BY DEF PageInv, PageTypeOK
<1>7. PICK cm : /\ map' = [map EXCEPT ![r.c] = Marked(cm, r.i, nums, m)]
                /\ r.c \in main => cm = map[r.c]
  <2>1. CASE TakeFromMain(nums, m, r)
    BY <2>1 DEF TakeFromMain
  <2>2. CASE TakeFromNewChunk(nums, m, r)
    BY <2>2 DEF TakeFromNewChunk
  <2> QED BY <2>1, <2>2 DEF MallocPage
<1>8. \A p \in Page : map'[r.c][p] = IF p \in RunPages(r) THEN [m EXCEPT !.off = p - r.i]
                                     ELSE cm[p]
  BY <1>1, <1>2, <1>6, <1>7 DEF Marked, RunPages
<1>9. ASSUME NEW s \in runs, NEW p \in RunPages(s)
      PROVE  map'[s.c][p] = map[s.c][p]
  <2>1. CASE s.c = r.c
    BY <1>3, <1>4, <1>7, <1>8, <2>1
  <2>2. CASE s.c # r.c
    BY <1>2, <1>3, <1>6, <1>7, <2>2
  <2> QED BY <2>1, <2>2
<1>10. \A p \in RunPages(r) : map'[r.c][p] = [m EXCEPT !.off = p - r.i]
  BY <1>2, <1>8
<1>11. runs' = runs \cup {r} /\ main' = main \cup {r.c}
  BY DEF MallocPage, TakeFromMain, TakeFromNewChunk
<1> QED BY <1>1, <1>2, <1>4, <1>5, <1>9, <1>10, <1>11

(* __jbl_free_page takes one run away and leaves the marks of the others. *)
LEMMA FreePageFacts ==
  ASSUME PageInv, NEW r \in runs, FreePage(r.c, r.i)
  PROVE  /\ runs' = runs \ {r} /\ main' = main
         /\ \A s \in runs : s # r /\ s.c = r.c => RunPages(s) \cap RunPages(r) = {}
         /\ \A s \in runs : s # r => \A p \in RunPages(s) : map'[s.c][p] = map[s.c][p]
<1>1. runs' = {s \in runs : ~ (s.c = r.c /\ s.i = r.i)} /\ main' = main
  BY DEF FreePage
<1>2. runs' = runs \ {r}
  BY <1>1, RunStart
<1>3. \A s \in runs : s # r /\ s.c = r.c => RunPages(s) \cap RunPages(r) = {}
  BY DEF PageInv, RunsDisjoint
<1>4. \A s \in runs : s.c \in Region /\ RunPages(s) \subseteq Page /\ s.i \in Page
  BY RunShape DEF PageInv, PageTypeOK
<1>5. map \in [Region -> [Page -> Mark]] /\ MarkPages(map[r.c][r.i]) = r.n
  BY DEF PageInv, PageTypeOK, RunsBacked
<1>6. map' = [map EXCEPT ![r.c] =
                [p \in Page |-> IF p \in RunPages(r) THEN NoMark ELSE map[r.c][p]]]
  BY <1>5 DEF FreePage, RunPages
<1>7. ASSUME NEW s \in runs, s # r, NEW p \in RunPages(s)
      PROVE  map'[s.c][p] = map[s.c][p]
  <2>1. CASE s.c = r.c
    BY <1>3, <1>4, <1>5, <1>6, <1>7, <2>1
  <2>2. CASE s.c # r.c
    BY <1>4, <1>5, <1>6, <2>2
  <2> QED BY <2>1, <2>2
<1> QED BY <1>1, <1>2, <1>3, <1>7

(* jbl_realloc in place makes a large run longer, over pages of no other run. *)
LEMMA GrowPagesFacts ==
  ASSUME PageInv, NEW r \in runs, NEW nums \in 1 .. (PageCount - 1), LargeRun(r), r.n <= nums,
         GrowPages(r.c, r.i, nums), NEW q, q = [c |-> r.c, i |-> r.i, n |-> nums]
  PROVE  /\ runs' = (runs \ {r}) \cup {q} /\ main' = main /\ q.i + nums <= BitLimit
         /\ \A s \in runs : s # r /\ s.c = r.c => RunPages(s) \cap RunPages(q) = {}
         /\ \A s \in runs : s # r => \A p \in RunPages(s) : map'[s.c][p] = map[s.c][p]
         /\ \A p \in RunPages(q) : map'[q.c][p] = [LargeMark(nums) EXCEPT !.off = p - q.i]
<1>1. /\ runs' = {s \in runs : ~ (s.c = r.c /\ s.i = r.i)} \cup {q} /\ main' = main
      /\ map' = [map EXCEPT ![r.c] = Marked(map[r.c], r.i, nums, LargeMark(nums))]
      /\ ZeroesUpTo(fmap[r.c], r.i + r.n, r.i + nums)
  BY RunKind DEF GrowPages, CanGrow
<1>2. {s \in runs : ~ (s.c = r.c /\ s.i = r.i)} = runs \ {r}
  BY RunStart
<1>3. \A s \in runs : /\ s.c \in Region /\ RunPages(s) \subseteq Page /\ s.i \in Page
                      /\ RunPages(s) \subseteq fmap[s.c] /\ s.i \in Nat /\ s.n \in Nat
  BY RunShape DEF PageInv, PageTypeOK
<1>4. q.c = r.c /\ q.i = r.i /\ q.n = nums /\ PageCount \in Nat /\ PageCount = BitLimit
      /\ r.i \in Nat /\ r.n \in Nat /\ nums \in Nat
  BY <1>3, Geometry
<1>5. r.i + nums <= BitLimit /\ \A p \in (r.i + r.n) .. (r.i + nums - 1) : p \notin fmap[r.c]
  <2> DEFINE old == fmap[r.c]
             first == r.i + r.n
             past == r.i + nums
  <2>1. ZeroesUpTo(old, first, past) /\ first \in Int /\ past \in Int
    BY <1>1, <1>4
  <2> HIDE DEF old, first, past
  <2>2. past <= BitLimit /\ \A p \in first .. (past - 1) : p \notin old
    BY <2>1 DEF ZeroesUpTo
  <2> QED BY <1>4, <2>1, <2>2 DEF old, first, past
<1>6. \A p \in RunPages(q) : p \in RunPages(r) \/ p \in (r.i + r.n) .. (r.i + nums - 1)
  BY <1>4 DEF RunPages
<1>7. \A s \in runs : s # r /\ s.c = r.c => RunPages(s) \cap RunPages(r) = {}
  BY DEF PageInv, RunsDisjoint
<1>8. \A s \in runs : s # r /\ s.c = r.c => RunPages(s) \cap RunPages(q) = {}
  BY <1>3, <1>5, <1>6, <1>7
<1>9. map \in [Region -> [Page -> Mark]]
  BY DEF PageInv, PageTypeOK
<1>10. \A p \in Page : map'[r.c][p] =
         IF p \in RunPages(q) THEN [LargeMark(nums) EXCEPT !.off = p - r.i] ELSE map[r.c][p]
  BY <1>1, <1>3, <1>4, <1>9 DEF Marked, RunPages
<1>11. ASSUME NEW s \in runs, s # r, NEW p \in RunPages(s)
       PROVE  map'[s.c][p] = map[s.c][p]
  <2>1. CASE s.c = r.c
    BY <1>3, <1>8, <1>10, <1>11, <2>1
  <2>2. CASE s.c # r.c
    BY <1>1, <1>3, <1>9, <2>2
  <2> QED BY <2>1, <2>2
<1>12. RunPages(q) \subseteq Page
  <2> SUFFICES ASSUME NEW p \in r.i .. (r.i + nums - 1) PROVE p \in Page
    BY <1>4 DEF RunPages
  <2> QED BY <1>4, <1>5 DEF Page
<1> QED BY <1>1, <1>2, <1>4, <1>5, <1>8, <1>10, <1>11, <1>12

(* Counting freed blocks leaves every mark but its count.                     *)
LEMMA CountFreedFacts ==
  ASSUME PageInv, CountFreed
  PROVE  /\ runs' = runs /\ main' = main
         /\ \A s \in runs : \A p \in RunPages(s) :
              /\ map'[s.c][p].kind = map[s.c][p].kind
              /\ map'[s.c][p].val = map[s.c][p].val
              /\ map'[s.c][p].off = map[s.c][p].off
<1>1. ASSUME NEW c \in Region, NEW p \in Page
      PROVE  /\ map'[c][p].kind = map[c][p].kind
             /\ map'[c][p].val = map[c][p].val
             /\ map'[c][p].off = map[c][p].off
  <2>1. map[c][p] \in Mark /\ map'[c][p] \in Mark
    BY DEF PageInv, PageTypeOK, CountFreed
  <2>2. map'[c][p] = [map[c][p] EXCEPT !.cnt = map'[c][p].cnt]
    BY DEF CountFreed
  <2> QED BY <2>1, <2>2 DEF Mark
<1>2. \A s \in runs : s.c \in Region /\ RunPages(s) \subseteq Page
  BY RunShape DEF PageInv, PageTypeOK
<1> QED BY <1>1, <1>2 DEF CountFreed

-----------------------------------------------------------------------------
(* A block belongs to one run, as a block of one bin or as its start.         *)

(* A small block lies in one run and belongs to one bin. *)
LEMMA OneSmallRun ==
  ASSUME PageInv, MarksSpread, NEW t \in Bin, NEW u \in Bin,
         NEW r \in runs, NEW s \in runs, SmallRun(r, t), SmallRun(s, u),
         NEW a \in BlocksOf(r, t), a \in BlocksOf(s, u)
  PROVE  r = s /\ t = u
<1>1. a.c = r.c /\ PageOf(a) \in RunPages(r) /\ MarkOf(a).val = t
  BY SmallBlockShape
<1>2. a.c = s.c /\ PageOf(a) \in RunPages(s) /\ MarkOf(a).val = u
  BY SmallBlockShape
<1>3. r.c = s.c /\ t = u
  BY <1>1, <1>2
<1> QED BY <1>1, <1>2, <1>3, SameRun

(* Pages of small runs are marked small: a large run starts at no block of one. *)
LEMMA LargeNotSmall ==
  ASSUME PageInv, MarksSpread, NEW t \in Bin, NEW r \in runs, NEW s \in runs,
         LargeRun(r), SmallRun(s, t)
  PROVE  StartOf(r) \notin BlocksOf(s, t)
BY SmallBlockShape, LargeStartShape

(* Two large runs with one start are one. *)
LEMMA OneLargeRun ==
  ASSUME PageInv, NEW r \in runs, NEW s \in runs, LargeRun(r), LargeRun(s),
         StartOf(r) = StartOf(s)
  PROVE  r = s
BY LargeStartShape, RunStart

-----------------------------------------------------------------------------
(* Slot lists that lose or gain their first block.                            *)

(* A function on 1 .. n is a sequence. *)
LEMMA SeqOfFunction ==
  ASSUME NEW S, NEW n \in Nat, NEW f \in [1 .. n -> S]
  PROVE  f \in Seq(S) /\ Len(f) = n /\ DOMAIN f = 1 .. n
OBVIOUS

(* A slot list that loses its head, as when malloc_small answers a free       *)
(* block.                                                                     *)
LEMMA PopList ==
  ASSUME NEW S, NEW list \in Seq(S), list # <<>>
  PROVE  /\ Tail(list) \in Seq(S) /\ Head(list) = list[1] /\ 1 \in DOMAIN list
         /\ list[1] \in S
         /\ \A k \in DOMAIN Tail(list) : k + 1 \in DOMAIN list /\ Tail(list)[k] = list[k + 1]
         /\ \A k \in DOMAIN Tail(list) : k \in Nat /\ k > 0
         /\ \A k \in DOMAIN list : k # 1 =>
              k - 1 \in DOMAIN Tail(list) /\ Tail(list)[k - 1] = list[k]
<1>1. Len(list) \in Nat /\ Len(list) # 0 /\ DOMAIN list = 1 .. Len(list)
  OBVIOUS
<1>2. /\ Tail(list) \in Seq(S) /\ Len(Tail(list)) = Len(list) - 1
      /\ \A k \in 1 .. Len(Tail(list)) : Tail(list)[k] = list[k + 1]
  BY HeadTailProperties
<1>3. DOMAIN Tail(list) = 1 .. (Len(list) - 1)
  BY <1>2
<1>4. Head(list) = list[1] /\ list[1] \in S
  BY <1>1
<1> QED BY <1>1, <1>2, <1>3, <1>4

(* A slot list that gains a head, as when jbl_free lists a small block. *)
LEMMA PushList ==
  ASSUME NEW S, NEW list \in Seq(S), NEW a \in S, NEW new, new = <<a>> \o list
  PROVE  /\ new \in Seq(S) /\ 1 \in DOMAIN new /\ new[1] = a
         /\ \A k \in DOMAIN new : k # 1 => k - 1 \in DOMAIN list /\ new[k] = list[k - 1]
         /\ \A k \in DOMAIN list : k + 1 \in DOMAIN new /\ new[k + 1] = list[k]
         /\ \A k \in DOMAIN new : k \in Nat
<1>1. Len(list) \in Nat /\ DOMAIN list = 1 .. Len(list)
  OBVIOUS
<1>2. <<a>> \in Seq(S) /\ Len(<<a>>) = 1 /\ <<a>>[1] = a
  OBVIOUS
<1> DEFINE one == <<a>>
<1> HIDE DEF one
<1>3. one \in Seq(S) /\ Len(one) = 1 /\ one[1] = a /\ new = one \o list
  BY <1>2 DEF one
<1>4. /\ new \in Seq(S) /\ Len(new) = 1 + Len(list)
      /\ \A k \in 1 .. 1 + Len(list) : new[k] = IF k <= 1 THEN one[k] ELSE list[k - 1]
  BY <1>3, ConcatProperties
<1>5. DOMAIN new = 1 .. (1 + Len(list))
  BY <1>4
<1> QED BY <1>1, <1>3, <1>4, <1>5

(* Outside the walk of __jbl_free_smalls all listed blocks are ahead.         *)
LEMMA AheadAll ==
  ASSUME slot \in [Bin -> Seq(Addr)]
  PROVE  /\ pc.op # "reclaim" => \A t \in Bin : Ahead(t) = Listed(t)
         /\ \A t \in Bin : Listed(t) \subseteq Addr
<1>1. ASSUME NEW t \in Bin PROVE slot[t] \in Seq(Addr) /\ DOMAIN slot[t] = 1 .. Len(slot[t])
  OBVIOUS
<1> QED BY <1>1 DEF Ahead, Behind, Listed

(* Outside a walk of __jbl_free_smalls, all listed blocks are ahead of it. *)
LEMMA AheadAllNext ==
  ASSUME slot' \in [Bin -> Seq(Addr)], pc'.op # "reclaim"
  PROVE  \A t \in Bin : Ahead(t)' = Listed(t)'
<1>1. ASSUME NEW t \in Bin PROVE slot'[t] \in Seq(Addr) /\ DOMAIN slot'[t] = 1 .. Len(slot'[t])
  OBVIOUS
<1> QED BY <1>1 DEF Ahead, Behind, Listed

-----------------------------------------------------------------------------
(* Runs that a step leaves alone, and runs it makes.                          *)

Untouched(s) == s \in runs' /\ \A p \in RunPages(s) : map'[s.c][p] = map[s.c][p]

(* A run whose marks stay as they are keeps its kind and its blocks. *)
LEMMA UntouchedRun ==
  ASSUME PageInv, MarksSpread, NEW s \in runs, Untouched(s)
  PROVE  /\ \A t : SmallRun(s, t)' <=> SmallRun(s, t)
         /\ LargeRun(s)' <=> LargeRun(s)
         /\ MarkSpread(s)'
         /\ map'[s.c][s.i] = map[s.c][s.i]
         /\ \A t \in Bin : SmallRun(s, t) => \A a \in BlocksOf(s, t) : InSmallRun(t, a)'
         /\ LargeRun(s) => StartsLargeRun(StartOf(s))'
<1>1. map'[s.c][s.i] = map[s.c][s.i] /\ s \in runs'
  BY RunShape DEF Untouched
<1>2. \A t : SmallRun(s, t)' <=> SmallRun(s, t)
  BY <1>1 DEF SmallRun
<1>3. LargeRun(s)' <=> LargeRun(s)
  BY <1>1 DEF LargeRun
<1>4. MarkSpread(s)'
  <2>1. MarkSpread(s)
    BY DEF MarksSpread
  <2>2. (LargeRun(s) \/ \E t \in Bin : SmallRun(s, t))'
    BY <1>2, <1>3, <2>1 DEF MarkSpread
  <2>3. ASSUME NEW p \in RunPages(s)
        PROVE  /\ map'[s.c][p].kind = map'[s.c][s.i].kind
               /\ map'[s.c][p].val = map'[s.c][s.i].val
               /\ map'[s.c][p].off = p - s.i
    BY <1>1, <2>1 DEF MarkSpread, Untouched
  <2> QED BY <2>2, <2>3 DEF MarkSpread, RunPages
<1>5. \A t \in Bin : SmallRun(s, t) => \A a \in BlocksOf(s, t) : InSmallRun(t, a)'
  BY <1>1, <1>2 DEF InSmallRun, BlocksOf, SmallBlock
<1>6. LargeRun(s) => StartsLargeRun(StartOf(s))'
  BY <1>1, <1>3 DEF StartsLargeRun, StartOf
<1> QED BY <1>1, <1>2, <1>3, <1>4, <1>5, <1>6

(* A run just taken is marked on each of its pages as what it is. *)
LEMMA NewRunMarked ==
  ASSUME NEW nums, NEW m \in PageMarks(nums), NEW r, r.i \in Nat, r.i \in RunPages(r),
         \A p \in RunPages(r) : map'[r.c][p] = [m EXCEPT !.off = p - r.i]
  PROVE  /\ MarkSpread(r)'
         /\ map'[r.c][r.i].cnt = 0
         /\ LargeRun(r)' <=> m.kind = "large"
         /\ \A t \in Bin : SmallRun(r, t)' <=> m = SmallMark(t)
<1>1. m = LargeMark(nums) \/ \E t \in Bin : m = SmallMark(t)
  BY DEF PageMarks
<1>2. \A p \in RunPages(r) : /\ map'[r.c][p].kind = m.kind /\ map'[r.c][p].val = m.val
                             /\ map'[r.c][p].off = p - r.i /\ map'[r.c][p].cnt = 0
  <2> TAKE p \in RunPages(r)
  <2>1. map'[r.c][p] = [m EXCEPT !.off = p - r.i]
    OBVIOUS
  <2>2. PICK k, v : m = [kind |-> k, val |-> v, off |-> 0, cnt |-> 0]
    BY <1>1, Zenon DEF LargeMark, SmallMark
  <2>3. [m EXCEPT !.off = p - r.i] = [kind |-> k, val |-> v, off |-> p - r.i, cnt |-> 0]
    BY <2>2
  <2> QED BY <2>1, <2>2, <2>3
<1>3. LargeRun(r)' <=> m.kind = "large"
  BY <1>2 DEF LargeRun
<1>4. \A t \in Bin : SmallRun(r, t)' <=> m = SmallMark(t)
  BY <1>1, <1>2 DEF SmallRun, LargeMark, SmallMark
<1>5. (LargeRun(r) \/ \E t \in Bin : SmallRun(r, t))'
  BY <1>1, <1>3, <1>4 DEF LargeMark
<1>6. MarkSpread(r)'
  BY <1>2, <1>5 DEF MarkSpread, RunPages
<1> QED BY <1>2, <1>3, <1>4, <1>6

(* A run's blocks in use or to be counted, or fewer of them, do not exceed    *)
(* what is left to count.                                                     *)
LEMMA CountKept ==
  ASSUME PageInv, NEW U, CountsBounded(U), NEW r \in runs, NEW t \in Bin, SmallRun(r, t),
         NEW X, BlocksOf(r, t) \cap X \subseteq U \cup Ahead(t)
  PROVE  map[r.c][r.i].cnt + Cardinality(BlocksOf(r, t) \cap X) <= BinCount[t]
<1> DEFINE A == BlocksOf(r, t) \cap X
           B == BlocksOf(r, t) \cap (U \cup Ahead(t))
<1>1. A \in SUBSET B /\ IsFiniteSet(B) /\ Cardinality(B) \in Nat /\ Cardinality(A) \in Nat
  BY BlocksCount
<1>2. map[r.c][r.i].cnt + Cardinality(B) <= BinCount[t]
  BY DEF CountsBounded
<1>3. map[r.c][r.i].cnt \in Nat /\ BinCount[t] \in Nat
  <2>1. r.c \in Region /\ r.i \in Page
    BY RunShape
  <2>2. map[r.c][r.i] \in Mark
    BY <2>1 DEF PageInv, PageTypeOK
  <2> QED BY <2>2, Geometry DEF Mark
<1> HIDE DEF A, B
<1>4. Cardinality(A) <= Cardinality(B)
  BY <1>1, FS_Subset
<1>5. map[r.c][r.i].cnt + Cardinality(A) <= BinCount[t]
  BY <1>1, <1>2, <1>3, <1>4
<1> QED BY <1>5 DEF A

(* When every run keeps its marks, every block keeps its run. *)
LEMMA AllUntouched ==
  ASSUME PageInv, MarksSpread, \A s \in runs : Untouched(s)
  PROVE  /\ \A t \in Bin : \A a : InSmallRun(t, a) => InSmallRun(t, a)'
         /\ \A a : StartsLargeRun(a) => StartsLargeRun(a)'
BY UntouchedRun DEF InSmallRun, StartsLargeRun

(* The marks of blocks that stay in use keep what they say of their size.     *)
SameMark(x) == MarkOf(x)'.kind = MarkOf(x).kind /\ MarkOf(x)'.val = MarkOf(x).val

(* When every run keeps its marks, every block in use keeps what its mark     *)
(* says.                                                                      *)
LEMMA MarksUntouched ==
  ASSUME PageInv, MarksSpread, NEW U, UsedBacked(U), \A s \in runs : Untouched(s)
  PROVE  \A x \in U : SameMark(x)
<1> SUFFICES ASSUME NEW x \in U PROVE SameMark(x)
  OBVIOUS
<1>1. PICK s \in runs : x.c = s.c /\ PageOf(x) \in RunPages(s)
  BY SmallBlockShape, LargeStartShape DEF UsedBacked, InSmallRun, StartsLargeRun
<1>2. map'[x.c][PageOf(x)] = map[x.c][PageOf(x)]
  BY <1>1 DEF Untouched
<1> QED BY <1>2 DEF SameMark, MarkOf, PageOf

(* ... all but those of run r.                                                *)
LEMMA MarksElsewhere ==
  ASSUME PageInv, MarksSpread, NEW U, UsedBacked(U), NEW r \in runs,
         \A s \in runs : s # r => Untouched(s),
         NEW x \in U, LargeRun(r) => x # StartOf(r), \A t \in Bin : SmallRun(r, t) => x \notin BlocksOf(r, t)
  PROVE  SameMark(x)
<1>1. PICK s \in runs : s # r /\ x.c = s.c /\ PageOf(x) \in RunPages(s)
  BY SmallBlockShape, LargeStartShape DEF UsedBacked, InSmallRun, StartsLargeRun
<1>2. map'[x.c][PageOf(x)] = map[x.c][PageOf(x)]
  BY <1>1 DEF Untouched
<1> QED BY <1>2 DEF SameMark, MarkOf, PageOf

(* Counting freed blocks changes no size.                                     *)
LEMMA MarksCounted ==
  ASSUME PageInv, MarksSpread, NEW U, UsedBacked(U), CountFreed
  PROVE  \A x \in U : SameMark(x)
<1> SUFFICES ASSUME NEW x \in U PROVE SameMark(x)
  OBVIOUS
<1>1. PICK s \in runs : x.c = s.c /\ PageOf(x) \in RunPages(s)
  BY SmallBlockShape, LargeStartShape DEF UsedBacked, InSmallRun, StartsLargeRun
<1>2. /\ map'[x.c][PageOf(x)].kind = map[x.c][PageOf(x)].kind
      /\ map'[x.c][PageOf(x)].val = map[x.c][PageOf(x)].val
  BY <1>1, CountFreedFacts
<1> QED BY <1>2 DEF SameMark, MarkOf, PageOf

-----------------------------------------------------------------------------
(* The steps of the allocator keep Sound.  In each lemma U is what was in use *)
(* before the step.                                                           *)

(* A block is taken off its slot list.                                        *)
LEMMA PopStep ==
  ASSUME PageInv, slot \in [Bin -> Seq(Addr)], pc.op # "reclaim", pc'.op # "reclaim",
         NEW U, Sound(U), NEW t \in Bin, slot[t] # <<>>,
         slot' = [slot EXCEPT ![t] = Tail(@)], UNCHANGED pageVars,
         NEW a, a = Head(slot[t])
  PROVE  /\ Sound(U \cup {a})' /\ slot' \in [Bin -> Seq(Addr)]
         /\ a \in Addr /\ a \notin U /\ InSmallRun(t, a)'
         /\ \A s \in runs : Untouched(s)
<1> DEFINE V == U \cup {a}
<1> USE DEF Sound
<1>1. runs' = runs /\ \A s \in runs : Untouched(s)
  BY DEF Untouched, pageVars
<1>2. /\ Tail(slot[t]) \in Seq(Addr) /\ a = slot[t][1] /\ 1 \in DOMAIN slot[t] /\ a \in Addr
      /\ \A k \in DOMAIN Tail(slot[t]) :
           k + 1 \in DOMAIN slot[t] /\ Tail(slot[t])[k] = slot[t][k + 1] /\ k \in Nat /\ k > 0
      /\ \A k \in DOMAIN slot[t] : k # 1 =>
           k - 1 \in DOMAIN Tail(slot[t]) /\ Tail(slot[t])[k - 1] = slot[t][k]
  <2>1. slot[t] \in Seq(Addr)
    OBVIOUS
  <2> QED BY <2>1, PopList
<1>3. /\ slot' \in [Bin -> Seq(Addr)] /\ slot'[t] = Tail(slot[t])
      /\ \A u \in Bin : u # t => slot'[u] = slot[u]
  BY <1>2
<1>4. a \in Listed(t) /\ InSmallRun(t, a)
  BY <1>2 DEF Listed, ListedBacked
<1>5. /\ \A u \in Bin : Listed(u)' \subseteq Listed(u)
      /\ Listed(t) \subseteq Listed(t)' \cup {a}
  <2>1. Listed(t)' \subseteq Listed(t)
    BY <1>2, <1>3 DEF Listed
  <2>2. ASSUME NEW k \in DOMAIN slot[t], slot[t][k] # a PROVE slot[t][k] \in Listed(t)'
    <3>1. k # 1
      BY <1>2, <2>2
    <3>2. k - 1 \in DOMAIN slot'[t] /\ slot'[t][k - 1] = slot[t][k]
      BY <1>2, <1>3, <3>1
    <3> QED BY <3>2 DEF Listed
  <2>3. \A u \in Bin : u # t => Listed(u)' = Listed(u)
    BY <1>3 DEF Listed
  <2>4. Listed(t) \subseteq Listed(t)' \cup {a}
    BY <2>2 DEF Listed
  <2> QED BY <2>1, <2>3, <2>4
<1>6. \A u \in Bin : a \notin Listed(u)'
  <2> SUFFICES ASSUME NEW u \in Bin, NEW k \in DOMAIN slot'[u], slot'[u][k] = a PROVE FALSE
    BY DEF Listed
  <2>1. CASE u = t
    <3>1. k + 1 \in DOMAIN slot[t] /\ slot[t][k + 1] = slot[t][1] /\ k \in Nat /\ k > 0
      BY <1>2, <1>3, <2>1
    <3>2. k + 1 = 1
      BY <1>2, <3>1 DEF ListedOnce
    <3> QED BY <3>1, <3>2
  <2>2. CASE u # t
    BY <1>2, <1>3, <2>2 DEF ListedOnce
  <2> QED BY <2>1, <2>2
<1>7. a \notin U
  BY <1>4 DEF UsedUnlisted
<1>8. MarksSpread'
  BY <1>1, UntouchedRun DEF MarksSpread
<1>9. ListedBacked'
  BY <1>1, <1>5, AllUntouched DEF ListedBacked
<1>10. ListedOnce'
  <2> SUFFICES ASSUME NEW u \in Bin, NEW v \in Bin, NEW j \in DOMAIN slot'[u],
                      NEW k \in DOMAIN slot'[v], slot'[u][j] = slot'[v][k]
               PROVE  u = v /\ j = k
    BY DEF ListedOnce
  <2>1. PICK jj \in DOMAIN slot[u] : /\ slot'[u][j] = slot[u][jj]
                                     /\ IF u = t THEN jj = j + 1 /\ j \in Nat ELSE jj = j
    BY <1>2, <1>3
  <2>2. PICK kk \in DOMAIN slot[v] : /\ slot'[v][k] = slot[v][kk]
                                     /\ IF v = t THEN kk = k + 1 /\ k \in Nat ELSE kk = k
    BY <1>2, <1>3
  <2>3. u = v /\ jj = kk
    BY <2>1, <2>2 DEF ListedOnce
  <2> QED BY <2>1, <2>2, <2>3
<1>11. UsedBacked(V)'
  BY <1>1, <1>4, AllUntouched DEF UsedBacked
<1>12. UsedUnlisted(V)'
  BY <1>5, <1>6 DEF UsedUnlisted
<1>13. CountsBounded(V)'
  <2> SUFFICES ASSUME NEW r \in runs, NEW u \in Bin, SmallRun(r, u)'
               PROVE  map'[r.c][r.i].cnt + Cardinality(BlocksOf(r, u) \cap (V \cup Ahead(u)'))
                        <= BinCount[u]
    BY <1>1 DEF CountsBounded, BlocksOf, SmallBlock
  <2>1. SmallRun(r, u) /\ map'[r.c][r.i] = map[r.c][r.i]
    BY <1>1, UntouchedRun
  <2>2. Ahead(u)' = Listed(u)' /\ Ahead(u) = Listed(u)
    BY <1>3, AheadAll, AheadAllNext
  <2>3. a \in BlocksOf(r, u) => u = t
    BY <1>4, <2>1, OneSmallRun DEF InSmallRun
  <2>4. BlocksOf(r, u) \cap (V \cup Ahead(u)') \subseteq U \cup Ahead(u)
    BY <1>4, <1>5, <2>2, <2>3
  <2> QED BY <2>1, <2>4, CountKept
<1> QED BY <1>1, <1>2, <1>3, <1>4, <1>7, <1>8, <1>9, <1>10, <1>11, <1>12, <1>13, AllUntouched

(* Blocks of a run at different indexes are different. *)
LEMMA BlockIndex ==
  ASSUME NEW t \in Bin, NEW r, r.i \in Nat, NEW k \in Nat, NEW l \in Nat,
         SmallBlock(r, t, k) = SmallBlock(r, t, l)
  PROVE  k = l
<1> DEFINE b == BinBytes[t]
           i == r.i * PageBytes
<1>1. b \in Nat /\ b > 0 /\ i \in Nat /\ k * b \in Nat /\ l * b \in Nat
  BY Geometry
<1>2. i + k * b = i + l * b
  BY DEF SmallBlock
<1> HIDE DEF b, i
<1>3. k * b = l * b
  <2> DEFINE x == k * b
             y == l * b
  <2>1. x \in Nat /\ y \in Nat /\ i + x = i + y
    BY <1>1, <1>2
  <2> HIDE DEF x, y
  <2>2. x = y
    BY <1>1, <2>1
  <2> QED BY <2>2 DEF x, y
<1>4. ASSUME NEW x \in Nat, NEW y \in Nat, x < y, x * b = y * b PROVE FALSE
  <2>1. x * b + b <= y * b /\ x * b \in Nat /\ y * b \in Nat
    <3>1. x + 1 <= y /\ y * b \in Nat /\ y * b <= y * b
      BY <1>1, <1>4
    <3> QED BY <1>1, <1>4, <3>1, SliceEnds
  <2> QED BY <1>1, <1>4, <2>1
<1>5. k < l \/ l < k \/ k = l
  OBVIOUS
<1> QED BY <1>3, <1>4, <1>5

(* No block lies on the pages of a run before they are handed out.            *)
LEMMA NewRunFresh ==
  ASSUME PageInv, NEW U, Sound(U), NEW r,
         \A s \in runs : s.c = r.c => RunPages(s) \cap RunPages(r) = {},
         NEW x, x.c = r.c, PageOf(x) \in RunPages(r)
  PROVE  /\ x \notin U
         /\ \A u \in Bin : x \notin Listed(u)
         /\ \A s \in runs, u \in Bin : SmallRun(s, u) => x \notin BlocksOf(s, u)
<1>1. \A s \in runs, u \in Bin : SmallRun(s, u) => x \notin BlocksOf(s, u)
  BY SmallBlockShape DEF Sound
<1>2. \A s \in runs : LargeRun(s) => x # StartOf(s)
  BY LargeStartShape
<1>3. x \notin U
  BY <1>1, <1>2 DEF Sound, UsedBacked, StartsLargeRun, InSmallRun
<1>4. \A u \in Bin : x \notin Listed(u)
  BY <1>1 DEF Sound, ListedBacked, InSmallRun
<1> QED BY <1>1, <1>3, <1>4

(* A new run is cut into blocks: one is answered, the others are listed.      *)
Cut(r, t) == [k \in 1 .. (BinCount[t] - 1) |-> SmallBlock(r, t, BinCount[t] - 1 - k)]

(* malloc_small with an empty list: the new run's blocks are on no list and   *)
(* in nobody's hands.                                                         *)
LEMMA NewSmallRunStep ==
  ASSUME PageInv, slot \in [Bin -> Seq(Addr)], pc.op # "reclaim", pc'.op # "reclaim",
         NEW U, Sound(U), NEW t \in Bin, slot[t] = <<>>,
         NEW r \in Places(BinPages[t]), MallocPage(BinPages[t], SmallMark(t), r),
         NEW a, a = SmallBlock(r, t, BinCount[t] - 1),
         slot' = [slot EXCEPT ![t] = Cut(r, t)]
  PROVE  /\ Sound(U \cup {a})' /\ slot' \in [Bin -> Seq(Addr)]
         /\ a \in Addr /\ a \notin U /\ InSmallRun(t, a)'
         /\ \A s \in runs : Untouched(s)
<1> DEFINE V == U \cup {a}
           n == BinCount[t]
           B == BlocksOf(r, t)
           new == Cut(r, t)
<1>1. /\ BinPages[t] \in 1 .. (PageCount - 1) /\ SmallMark(t) \in PageMarks(BinPages[t])
      /\ n \in Nat /\ n > 0
  BY Geometry DEF PageMarks
<1>2. /\ r \in Run /\ r.c \in Region /\ r.i \in Nat /\ r.n = BinPages[t] /\ r.i + r.n <= BitLimit
      /\ r \notin runs /\ runs' = runs \cup {r}
      /\ \A s \in runs : s.c = r.c => RunPages(s) \cap RunPages(r) = {}
      /\ \A s \in runs : \A p \in RunPages(s) : map'[s.c][p] = map[s.c][p]
      /\ \A p \in RunPages(r) : map'[r.c][p] = [SmallMark(t) EXCEPT !.off = p - r.i]
  BY <1>1, MallocPageFacts
<1>3. \A s \in runs : Untouched(s)
  BY <1>2 DEF Untouched
<1>4. r.i \in RunPages(r)
  BY <1>1, <1>2, Geometry DEF RunPages
<1>5. /\ MarkSpread(r)' /\ map'[r.c][r.i].cnt = 0 /\ ~ LargeRun(r)'
      /\ \A u \in Bin : SmallRun(r, u)' <=> u = t
  <2>1. /\ MarkSpread(r)' /\ map'[r.c][r.i].cnt = 0
        /\ LargeRun(r)' <=> SmallMark(t).kind = "large"
        /\ \A u \in Bin : SmallRun(r, u)' <=> SmallMark(t) = SmallMark(u)
    BY <1>1, <1>2, <1>4, NewRunMarked
  <2> QED BY <2>1 DEF SmallMark
<1>6. \A x \in B : /\ x \in Addr /\ x.c = r.c /\ PageOf(x) \in RunPages(r)
                   /\ x \notin U /\ \A u \in Bin : x \notin Listed(u)
                   /\ \A s \in runs, u \in Bin : SmallRun(s, u) => x \notin BlocksOf(s, u)
  <2>1. \A x \in B : x \in Addr /\ x.c = r.c /\ PageOf(x) \in RunPages(r)
    BY <1>2, BlockPages
  <2> QED BY <1>2, <2>1, NewRunFresh
<1>7. a \in B /\ \A k \in 1 .. (n - 1) : new[k] \in B /\ new[k] # a
  <2>1. n - 1 \in 0 .. (n - 1)
    BY <1>1
  <2>2. ASSUME NEW k \in 1 .. (n - 1)
        PROVE  new[k] \in B /\ new[k] # a
    <3>1. n - 1 - k \in 0 .. (n - 1) /\ n - 1 - k \in Nat /\ n - 1 \in Nat /\ n - 1 - k # n - 1
      BY <1>1
    <3>2. new[k] = SmallBlock(r, t, n - 1 - k)
      BY DEF Cut
    <3> HIDE DEF n, new
    <3>3. new[k] \in B
      BY <3>1, <3>2 DEF BlocksOf, n
    <3> QED BY <1>2, <3>1, <3>2, <3>3, BlockIndex DEF n
  <2> QED BY <2>1, <2>2 DEF BlocksOf
<1>8. \A j, k \in 1 .. (n - 1) : new[j] = new[k] => j = k
  <2> SUFFICES ASSUME NEW j \in 1 .. (n - 1), NEW k \in 1 .. (n - 1), new[j] = new[k]
               PROVE  j = k
    OBVIOUS
  <2>1. n - 1 - j \in Nat /\ n - 1 - k \in Nat
    BY <1>1
  <2>2. SmallBlock(r, t, n - 1 - j) = SmallBlock(r, t, n - 1 - k)
    BY DEF Cut
  <2> HIDE DEF n, new
  <2>3. n - 1 - j = n - 1 - k
    BY <1>2, <2>1, <2>2, BlockIndex
  <2> QED BY <1>1, <2>3
<1>9. new \in Seq(Addr) /\ DOMAIN new = 1 .. (n - 1)
  <2>1. new \in [1 .. (n - 1) -> Addr]
    BY <1>6, <1>7 DEF Cut
  <2>2. n - 1 \in Nat
    BY <1>1
  <2> HIDE DEF n, new
  <2> QED BY <2>1, <2>2, SeqOfFunction
<1>10. /\ slot' \in [Bin -> Seq(Addr)] /\ slot'[t] = new
       /\ \A u \in Bin : u # t => slot'[u] = slot[u]
  BY <1>9
<1> HIDE DEF n, B, new
<1>11. /\ Listed(t)' \subseteq B /\ a \notin Listed(t)'
       /\ \A u \in Bin : u # t => Listed(u)' = Listed(u)
  <2>1. \A k \in DOMAIN slot'[t] : slot'[t][k] \in B /\ slot'[t][k] # a
    BY <1>7, <1>9, <1>10
  <2>2. \A u \in Bin : u # t => Listed(u)' = Listed(u)
    BY <1>10 DEF Listed
  <2> QED BY <2>1, <2>2 DEF Listed
<1>12. MarksSpread'
  BY <1>2, <1>3, <1>5, UntouchedRun DEF MarksSpread, Sound
<1>13. \A x \in B : InSmallRun(t, x)'
  BY <1>2, <1>5 DEF InSmallRun, B, BlocksOf, SmallBlock
<1>14. ListedBacked'
  BY <1>3, <1>11, <1>13, AllUntouched DEF ListedBacked, Sound
<1>15. ListedOnce'
  <2> SUFFICES ASSUME NEW u \in Bin, NEW v \in Bin, NEW j \in DOMAIN slot'[u],
                      NEW k \in DOMAIN slot'[v], slot'[u][j] = slot'[v][k]
               PROVE  u = v /\ j = k
    BY DEF ListedOnce
  <2>1. CASE u = t /\ v = t
    BY <1>8, <1>9, <1>10, <2>1
  <2>2. CASE u = t /\ v # t
    <3>1. slot'[v][k] \in Listed(v) /\ slot'[u][j] \in B
      BY <1>7, <1>9, <1>10, <2>2 DEF Listed
    <3> QED BY <1>6, <3>1
  <2>3. CASE u # t /\ v = t
    <3>1. slot'[u][j] \in Listed(u) /\ slot'[v][k] \in B
      BY <1>7, <1>9, <1>10, <2>3 DEF Listed
    <3> QED BY <1>6, <3>1
  <2>4. CASE u # t /\ v # t
    BY <1>10, <2>4 DEF ListedOnce, Sound
  <2> QED BY <2>1, <2>2, <2>3, <2>4
<1>16. UsedBacked(V)'
  BY <1>3, <1>7, <1>13, AllUntouched DEF UsedBacked, Sound
<1>17. UsedUnlisted(V)'
  <2> SUFFICES ASSUME NEW u \in Bin, NEW x \in V, x \in Listed(u)' PROVE FALSE
    BY DEF UsedUnlisted
  <2>1. CASE u = t
    BY <1>6, <1>11, <2>1
  <2>2. CASE u # t
    BY <1>6, <1>7, <1>11, <2>2 DEF UsedUnlisted, Sound
  <2> QED BY <2>1, <2>2
<1>18. CountsBounded(V)'
  <2> SUFFICES ASSUME NEW s \in runs', NEW u \in Bin, SmallRun(s, u)'
               PROVE  map'[s.c][s.i].cnt + Cardinality(BlocksOf(s, u) \cap (V \cup Ahead(u)'))
                        <= BinCount[u]
    BY DEF CountsBounded, BlocksOf, SmallBlock
  <2>1. CASE s = r
    <3>1. map'[s.c][s.i].cnt = 0
      BY <1>5, <2>1
    <3> DEFINE card == Cardinality(BlocksOf(s, u) \cap (V \cup Ahead(u)'))
    <3>2. card \in Nat /\ card <= BinCount[u]
      BY BlocksCount
    <3> HIDE DEF card
    <3>3. 0 + card <= BinCount[u]
      BY <3>2
    <3> QED BY <3>1, <3>3 DEF card
  <2>2. CASE s # r
    <3>1. s \in runs /\ SmallRun(s, u) /\ map'[s.c][s.i] = map[s.c][s.i]
      BY <1>2, <1>3, <2>2, UntouchedRun DEF Sound
    <3>2. Ahead(u)' = Listed(u)' /\ Ahead(u) = Listed(u)
      BY <1>10, AheadAll, AheadAllNext
    <3>3. BlocksOf(s, u) \cap (V \cup Ahead(u)') \subseteq U \cup Ahead(u)
      BY <1>6, <1>7, <1>11, <3>1, <3>2
    <3> QED BY <3>1, <3>3, CountKept DEF Sound
  <2> QED BY <2>1, <2>2
<1>19. Sound(V)'
  BY <1>12, <1>14, <1>15, <1>16, <1>17, <1>18 DEF Sound
<1> QED BY <1>3, <1>6, <1>7, <1>10, <1>13, <1>19

(* __jbl_malloc_small.                                                        *)
LEMMA TakeSmallStep ==
  ASSUME PageInv, slot \in [Bin -> Seq(Addr)], pc.op # "reclaim", pc'.op # "reclaim",
         NEW U, Sound(U), NEW t \in Bin, NEW a, TakeSmall(t, a)
  PROVE  /\ Sound(U \cup {a})' /\ slot' \in [Bin -> Seq(Addr)]
         /\ a \in Addr /\ a \notin U /\ InSmallRun(t, a)'
         /\ \A s \in runs : Untouched(s)
<1>1. CASE /\ slot[t] # <<>> /\ a = Head(slot[t])
           /\ slot' = [slot EXCEPT ![t] = Tail(@)] /\ UNCHANGED pageVars
  BY <1>1, PopStep
<1>2. ASSUME slot[t] = <<>>, NEW r \in Places(BinPages[t]),
             MallocPage(BinPages[t], SmallMark(t), r), a = SmallBlock(r, t, BinCount[t] - 1),
             slot' = [slot EXCEPT ![t] = Cut(r, t)]
      PROVE  /\ Sound(U \cup {a})' /\ slot' \in [Bin -> Seq(Addr)]
             /\ a \in Addr /\ a \notin U /\ InSmallRun(t, a)'
             /\ \A s \in runs : Untouched(s)
  BY <1>2, NewSmallRunStep
<1>3. TakeSmall(t, a) =>
        \/ /\ slot[t] # <<>> /\ a = Head(slot[t])
           /\ slot' = [slot EXCEPT ![t] = Tail(@)] /\ UNCHANGED pageVars
        \/ \E r \in Places(BinPages[t]) :
             /\ slot[t] = <<>> /\ MallocPage(BinPages[t], SmallMark(t), r)
             /\ a = SmallBlock(r, t, BinCount[t] - 1)
             /\ slot' = [slot EXCEPT ![t] = Cut(r, t)]
  BY DEF TakeSmall, Cut
<1> QED BY <1>1, <1>2, <1>3

(* __jbl_malloc_large.                                                        *)
LEMMA TakeLargeStep ==
  ASSUME PageInv, slot \in [Bin -> Seq(Addr)], pc.op # "reclaim", pc'.op # "reclaim",
         NEW U, Sound(U), NEW nums \in 1 .. (PageCount - 1), NEW r \in Places(nums),
         MallocPage(nums, LargeMark(nums), r), slot' = slot
  PROVE  /\ Sound(U \cup {StartOf(r)})'
         /\ StartOf(r) \in Addr /\ StartOf(r) \notin U /\ StartsLargeRun(StartOf(r))'
         /\ \A s \in runs : Untouched(s)
<1> DEFINE a == StartOf(r)
           V == U \cup {a}
<1>1. LargeMark(nums) \in PageMarks(nums) /\ nums \in Nat /\ nums > 0
  BY Geometry DEF PageMarks
<1>2. /\ r.c \in Region /\ r.i \in Nat /\ r.i > 0 /\ r.n = nums /\ r.i + r.n <= BitLimit
      /\ runs' = runs \cup {r}
      /\ \A s \in runs : s.c = r.c => RunPages(s) \cap RunPages(r) = {}
      /\ \A s \in runs : \A p \in RunPages(s) : map'[s.c][p] = map[s.c][p]
      /\ \A p \in RunPages(r) : map'[r.c][p] = [LargeMark(nums) EXCEPT !.off = p - r.i]
  BY <1>1, MallocPageFacts
<1>3. \A s \in runs : Untouched(s)
  BY <1>2 DEF Untouched
<1>4. a \in Addr /\ a.c = r.c /\ PageOf(a) = r.i /\ r.i \in RunPages(r)
  BY <1>1, <1>2, StartPages
<1>5. MarkSpread(r)' /\ LargeRun(r)' /\ \A u \in Bin : ~ SmallRun(r, u)'
  <2>1. /\ MarkSpread(r)' /\ LargeRun(r)' <=> LargeMark(nums).kind = "large"
        /\ \A u \in Bin : SmallRun(r, u)' <=> LargeMark(nums) = SmallMark(u)
    BY <1>1, <1>2, <1>4, NewRunMarked
  <2> QED BY <2>1 DEF LargeMark, SmallMark
<1>6. /\ a \notin U /\ \A u \in Bin : a \notin Listed(u)
      /\ \A s \in runs, u \in Bin : SmallRun(s, u) => a \notin BlocksOf(s, u)
  BY <1>2, <1>4, NewRunFresh
<1>7. StartsLargeRun(a)'
  BY <1>2, <1>5 DEF StartsLargeRun, StartOf
<1>8. \A u \in Bin : Listed(u)' = Listed(u)
  BY DEF Listed
<1> HIDE DEF a
<1>9. MarksSpread'
  BY <1>2, <1>3, <1>5, UntouchedRun DEF MarksSpread, Sound
<1>10. ListedBacked'
  BY <1>3, <1>8, AllUntouched DEF ListedBacked, Sound
<1>11. ListedOnce'
  BY DEF ListedOnce, Sound
<1>12. UsedBacked(V)'
  BY <1>3, <1>7, AllUntouched DEF UsedBacked, Sound
<1>13. UsedUnlisted(V)'
  BY <1>6, <1>8 DEF UsedUnlisted, Sound
<1>14. CountsBounded(V)'
  <2> SUFFICES ASSUME NEW s \in runs', NEW u \in Bin, SmallRun(s, u)'
               PROVE  map'[s.c][s.i].cnt + Cardinality(BlocksOf(s, u) \cap (V \cup Ahead(u)'))
                        <= BinCount[u]
    BY DEF CountsBounded, BlocksOf, SmallBlock
  <2>1. s # r
    BY <1>5
  <2>2. s \in runs /\ SmallRun(s, u) /\ map'[s.c][s.i] = map[s.c][s.i]
    BY <1>2, <1>3, <2>1, UntouchedRun DEF Sound
  <2>3. Ahead(u)' = Listed(u)' /\ Ahead(u) = Listed(u)
    BY AheadAll, AheadAllNext
  <2>4. BlocksOf(s, u) \cap (V \cup Ahead(u)') \subseteq U \cup Ahead(u)
    BY <1>6, <1>8, <2>2, <2>3
  <2> QED BY <2>2, <2>4, CountKept DEF Sound
<1>15. Sound(V)'
  BY <1>9, <1>10, <1>11, <1>12, <1>13, <1>14 DEF Sound
<1> QED BY <1>3, <1>4, <1>6, <1>7, <1>15 DEF a

(* A small block goes back on its slot list.                                  *)
LEMMA PushStep ==
  ASSUME PageInv, slot \in [Bin -> Seq(Addr)], pc.op # "reclaim", pc'.op # "reclaim",
         NEW U, Sound(U), NEW t \in Bin, NEW a \in U, a \in Addr, InSmallRun(t, a),
         slot' = [slot EXCEPT ![t] = <<a>> \o @], UNCHANGED pageVars
  PROVE  /\ Sound(U \ {a})' /\ slot' \in [Bin -> Seq(Addr)]
         /\ \A s \in runs : Untouched(s)
<1> DEFINE V == U \ {a}
           new == <<a>> \o slot[t]
<1> USE DEF Sound
<1>1. runs' = runs /\ \A s \in runs : Untouched(s)
  BY DEF Untouched, pageVars
<1>2. /\ new \in Seq(Addr) /\ 1 \in DOMAIN new /\ new[1] = a
      /\ \A k \in DOMAIN new : k # 1 => k - 1 \in DOMAIN slot[t] /\ new[k] = slot[t][k - 1]
      /\ \A k \in DOMAIN slot[t] : k + 1 \in DOMAIN new /\ new[k + 1] = slot[t][k]
      /\ \A k \in DOMAIN new : k \in Nat
  <2>1. slot[t] \in Seq(Addr)
    OBVIOUS
  <2> HIDE DEF new
  <2>2. new = <<a>> \o slot[t]
    BY DEF new
  <2> QED BY <2>1, <2>2, PushList
<1>3. /\ slot' \in [Bin -> Seq(Addr)] /\ slot'[t] = new
      /\ \A u \in Bin : u # t => slot'[u] = slot[u]
  BY <1>2
<1> HIDE DEF new
<1>4. /\ \A u \in Bin : u # t => Listed(u)' = Listed(u)
      /\ Listed(t)' = Listed(t) \cup {a}
  <2>1. \A k \in DOMAIN slot'[t] : slot'[t][k] \in Listed(t) \cup {a}
    BY <1>2, <1>3 DEF Listed
  <2>2. \A k \in DOMAIN slot[t] : slot[t][k] \in Listed(t)'
    BY <1>2, <1>3 DEF Listed
  <2>3. a \in Listed(t)'
    BY <1>2, <1>3 DEF Listed
  <2>4. Listed(t)' \subseteq Listed(t) \cup {a} /\ Listed(t) \subseteq Listed(t)'
    BY <2>1, <2>2 DEF Listed
  <2>5. \A u \in Bin : u # t => Listed(u)' = Listed(u)
    BY <1>3 DEF Listed
  <2> QED BY <2>3, <2>4, <2>5
<1>5. \A u \in Bin : a \notin Listed(u)
  BY DEF UsedUnlisted
<1>6. MarksSpread'
  BY <1>1, UntouchedRun DEF MarksSpread
<1>7. ListedBacked'
  <2> SUFFICES ASSUME NEW u \in Bin, NEW x \in Listed(u)' PROVE InSmallRun(u, x)'
    BY DEF ListedBacked
  <2>1. InSmallRun(u, x)
    BY <1>4 DEF ListedBacked
  <2> QED BY <1>1, <2>1, AllUntouched
<1>8. ListedOnce'
  <2> SUFFICES ASSUME NEW u \in Bin, NEW v \in Bin, NEW j \in DOMAIN slot'[u],
                      NEW k \in DOMAIN slot'[v], slot'[u][j] = slot'[v][k]
               PROVE  u = v /\ j = k
    BY DEF ListedOnce
  <2>1. \/ slot'[u][j] = a /\ u = t /\ j = 1
        \/ \E jj \in DOMAIN slot[u] : /\ slot'[u][j] = slot[u][jj] /\ slot'[u][j] # a
                                      /\ IF u = t THEN jj = j - 1 /\ j \in Nat ELSE jj = j
    BY <1>2, <1>3, <1>5 DEF Listed
  <2>2. \/ slot'[v][k] = a /\ v = t /\ k = 1
        \/ \E kk \in DOMAIN slot[v] : /\ slot'[v][k] = slot[v][kk] /\ slot'[v][k] # a
                                      /\ IF v = t THEN kk = k - 1 /\ k \in Nat ELSE kk = k
    BY <1>2, <1>3, <1>5 DEF Listed
  <2>3. CASE slot'[u][j] = a
    BY <2>1, <2>2, <2>3
  <2>4. CASE slot'[u][j] # a
    <3>1. PICK jj \in DOMAIN slot[u] : /\ slot'[u][j] = slot[u][jj]
                                       /\ IF u = t THEN jj = j - 1 /\ j \in Nat ELSE jj = j
      BY <2>1, <2>4
    <3>2. PICK kk \in DOMAIN slot[v] : /\ slot'[v][k] = slot[v][kk]
                                       /\ IF v = t THEN kk = k - 1 /\ k \in Nat ELSE kk = k
      BY <2>2, <2>4
    <3>3. u = v /\ jj = kk
      BY <3>1, <3>2 DEF ListedOnce
    <3> QED BY <3>1, <3>2, <3>3
  <2> QED BY <2>3, <2>4
<1>9. UsedBacked(V)'
  BY <1>1, AllUntouched DEF UsedBacked
<1>10. UsedUnlisted(V)'
  BY <1>4 DEF UsedUnlisted
<1>11. CountsBounded(V)'
  <2> SUFFICES ASSUME NEW r \in runs, NEW u \in Bin, SmallRun(r, u)'
               PROVE  map'[r.c][r.i].cnt + Cardinality(BlocksOf(r, u) \cap (V \cup Ahead(u)'))
                        <= BinCount[u]
    BY <1>1 DEF CountsBounded, BlocksOf, SmallBlock
  <2>1. SmallRun(r, u) /\ map'[r.c][r.i] = map[r.c][r.i]
    BY <1>1, UntouchedRun
  <2>2. Ahead(u)' = Listed(u)' /\ Ahead(u) = Listed(u)
    BY <1>3, AheadAll, AheadAllNext
  <2>3. BlocksOf(r, u) \cap (V \cup Ahead(u)') \subseteq U \cup Ahead(u)
    BY <1>4, <2>2
  <2> QED BY <2>1, <2>3, CountKept
<1> QED BY <1>1, <1>3, <1>6, <1>7, <1>8, <1>9, <1>10, <1>11

(* The pages of a large block are given back.                                 *)
LEMMA FreeLargeStep ==
  ASSUME PageInv, slot \in [Bin -> Seq(Addr)], pc.op # "reclaim", pc'.op # "reclaim",
         NEW U, Sound(U), NEW r \in runs, LargeRun(r), FreePage(r.c, r.i), slot' = slot
  PROVE  /\ Sound(U \ {StartOf(r)})'
         /\ \A s \in runs : s # r => Untouched(s)
<1> DEFINE a == StartOf(r)
           V == U \ {a}
<1> USE DEF Sound
<1>1. /\ runs' = runs \ {r}
      /\ \A s \in runs : s # r => \A p \in RunPages(s) : map'[s.c][p] = map[s.c][p]
  BY FreePageFacts
<1>2. \A s \in runs : s # r => Untouched(s)
  BY <1>1 DEF Untouched
<1>3. \A u \in Bin : ~ SmallRun(r, u)
  BY DEF LargeRun, SmallRun
<1>4. \A u \in Bin : \A x : InSmallRun(u, x) => InSmallRun(u, x)'
  BY <1>2, <1>3, UntouchedRun DEF InSmallRun
<1>5. \A x : StartsLargeRun(x) /\ x # a => StartsLargeRun(x)'
  BY <1>2, UntouchedRun DEF StartsLargeRun
<1> HIDE DEF a
<1>6. \A u \in Bin : Listed(u)' = Listed(u)
  BY DEF Listed
<1>7. MarksSpread'
  BY <1>1, <1>2, UntouchedRun DEF MarksSpread
<1>8. ListedBacked'
  BY <1>4, <1>6 DEF ListedBacked
<1>9. ListedOnce'
  BY DEF ListedOnce
<1>10. UsedBacked(V)'
  BY <1>4, <1>5 DEF UsedBacked
<1>11. UsedUnlisted(V)'
  BY <1>6 DEF UsedUnlisted
<1>12. CountsBounded(V)'
  <2> SUFFICES ASSUME NEW s \in runs', NEW u \in Bin, SmallRun(s, u)'
               PROVE  map'[s.c][s.i].cnt + Cardinality(BlocksOf(s, u) \cap (V \cup Ahead(u)'))
                        <= BinCount[u]
    BY DEF CountsBounded, BlocksOf, SmallBlock
  <2>1. s \in runs /\ SmallRun(s, u) /\ map'[s.c][s.i] = map[s.c][s.i]
    BY <1>1, <1>2, UntouchedRun
  <2>2. Ahead(u)' = Listed(u)' /\ Ahead(u) = Listed(u)
    BY AheadAll, AheadAllNext
  <2>3. BlocksOf(s, u) \cap (V \cup Ahead(u)') \subseteq U \cup Ahead(u)
    BY <1>6, <2>2
  <2> QED BY <2>1, <2>3, CountKept
<1>13. Sound(V)'
  BY <1>7, <1>8, <1>9, <1>10, <1>11, <1>12
<1> QED BY <1>2, <1>13 DEF a

(* A large block grows in place.                                              *)
LEMMA GrowStep ==
  ASSUME PageInv, slot \in [Bin -> Seq(Addr)], pc.op # "reclaim", pc'.op # "reclaim",
         NEW U, Sound(U), NEW r \in runs, NEW nums \in 1 .. (PageCount - 1),
         LargeRun(r), r.n <= nums, GrowPages(r.c, r.i, nums), slot' = slot
  PROVE  /\ Sound(U)' /\ \A s \in runs : s # r => Untouched(s)
         /\ \A u \in Bin : \A x : InSmallRun(u, x) => InSmallRun(u, x)'
<1> DEFINE q == [c |-> r.c, i |-> r.i, n |-> nums]
<1> USE DEF Sound
<1>1. /\ runs' = (runs \ {r}) \cup {q}
      /\ \A s \in runs : s # r => \A p \in RunPages(s) : map'[s.c][p] = map[s.c][p]
      /\ \A p \in RunPages(q) : map'[q.c][p] = [LargeMark(nums) EXCEPT !.off = p - q.i]
  BY GrowPagesFacts
<1>2. \A s \in runs : s # r => Untouched(s)
  BY <1>1 DEF Untouched
<1>3. \A u \in Bin : ~ SmallRun(r, u)
  BY DEF LargeRun, SmallRun
<1>4. q.i \in Nat /\ q.i \in RunPages(q) /\ StartOf(q) = StartOf(r)
  <2>1. r.i \in Nat /\ nums \in Nat /\ nums > 0
    BY RunShape, Geometry
  <2> QED BY <2>1 DEF RunPages, StartOf
<1> HIDE DEF q
<1>5. MarkSpread(q)' /\ LargeRun(q)' /\ \A u \in Bin : ~ SmallRun(q, u)'
  <2>1. LargeMark(nums) \in PageMarks(nums)
    BY DEF PageMarks
  <2>2. /\ MarkSpread(q)' /\ LargeRun(q)' <=> LargeMark(nums).kind = "large"
        /\ \A u \in Bin : SmallRun(q, u)' <=> LargeMark(nums) = SmallMark(u)
    BY <1>1, <1>4, <2>1, NewRunMarked
  <2> QED BY <2>2 DEF LargeMark, SmallMark
<1>6. \A u \in Bin : \A x : InSmallRun(u, x) => InSmallRun(u, x)'
  BY <1>2, <1>3, UntouchedRun DEF InSmallRun
<1>7. \A x : StartsLargeRun(x) => StartsLargeRun(x)'
  <2> SUFFICES ASSUME NEW s \in runs, LargeRun(s) PROVE StartsLargeRun(StartOf(s))'
    BY DEF StartsLargeRun
  <2>1. CASE s = r
    BY <1>1, <1>4, <1>5, <2>1 DEF StartsLargeRun, StartOf
  <2>2. CASE s # r
    BY <1>2, <2>2, UntouchedRun
  <2> QED BY <2>1, <2>2
<1>8. \A u \in Bin : Listed(u)' = Listed(u)
  BY DEF Listed
<1>9. MarksSpread'
  BY <1>1, <1>2, <1>5, UntouchedRun DEF MarksSpread
<1>10. ListedBacked'
  BY <1>6, <1>8 DEF ListedBacked
<1>11. ListedOnce'
  BY DEF ListedOnce
<1>12. UsedBacked(U)'
  BY <1>6, <1>7 DEF UsedBacked
<1>13. UsedUnlisted(U)'
  BY <1>8 DEF UsedUnlisted
<1>14. CountsBounded(U)'
  <2> SUFFICES ASSUME NEW s \in runs', NEW u \in Bin, SmallRun(s, u)'
               PROVE  map'[s.c][s.i].cnt + Cardinality(BlocksOf(s, u) \cap (U \cup Ahead(u)'))
                        <= BinCount[u]
    BY DEF CountsBounded, BlocksOf, SmallBlock
  <2>1. s \in runs /\ SmallRun(s, u) /\ map'[s.c][s.i] = map[s.c][s.i]
    BY <1>1, <1>2, <1>5, UntouchedRun
  <2>2. Ahead(u)' = Listed(u)' /\ Ahead(u) = Listed(u)
    BY AheadAll, AheadAllNext
  <2>3. BlocksOf(s, u) \cap (U \cup Ahead(u)') \subseteq U \cup Ahead(u)
    BY <1>8, <2>2
  <2> QED BY <2>1, <2>3, CountKept
<1> QED BY <1>2, <1>6, <1>9, <1>10, <1>11, <1>12, <1>13, <1>14

(* A step that changes neither list nor run, and lists nothing anew.          *)
LEMMA QuietStep ==
  ASSUME PageInv, NEW U, Sound(U), slot' = slot, map' = map, runs' = runs,
         \A u \in Bin : Ahead(u)' \subseteq Ahead(u)
  PROVE  Sound(U)' /\ \A s \in runs : Untouched(s)
<1> USE DEF Sound
<1>1. \A s \in runs : Untouched(s)
  BY DEF Untouched
<1>2. \A u \in Bin : Listed(u)' = Listed(u)
  BY DEF Listed
<1>3. MarksSpread'
  BY <1>1, UntouchedRun DEF MarksSpread
<1>4. ListedBacked'
  BY <1>1, <1>2, AllUntouched DEF ListedBacked
<1>5. ListedOnce'
  BY DEF ListedOnce
<1>6. UsedBacked(U)'
  BY <1>1, AllUntouched DEF UsedBacked
<1>7. UsedUnlisted(U)'
  BY <1>2 DEF UsedUnlisted
<1>8. CountsBounded(U)'
  <2> SUFFICES ASSUME NEW s \in runs, NEW u \in Bin, SmallRun(s, u)'
               PROVE  map'[s.c][s.i].cnt + Cardinality(BlocksOf(s, u) \cap (U \cup Ahead(u)'))
                        <= BinCount[u]
    BY DEF CountsBounded, BlocksOf, SmallBlock
  <2>1. SmallRun(s, u) /\ map'[s.c][s.i] = map[s.c][s.i]
    BY <1>1, UntouchedRun
  <2>2. BlocksOf(s, u) \cap (U \cup Ahead(u)') \subseteq U \cup Ahead(u)
    OBVIOUS
  <2> QED BY <2>1, <2>2, CountKept
<1> QED BY <1>1, <1>3, <1>4, <1>5, <1>6, <1>7, <1>8

-----------------------------------------------------------------------------
(* The walk of __jbl_free_smalls. *)

(* The block that is visited, and its run.                                    *)
LEMMA VisitedRun ==
  ASSUME PageInv, slot \in [Bin -> Seq(Addr)], NEW U, Sound(U),
         NEW t \in Bin, NEW k \in 0 .. Len(slot[t]), pc = Reclaiming(t, k), k < Len(slot[t])
  PROVE  /\ k + 1 \in DOMAIN slot[t] /\ Visited = slot[t][k + 1]
         /\ Visited \in Ahead(t) /\ Visited \notin U
         /\ \E r \in runs : /\ SmallRun(r, t) /\ Visited \in BlocksOf(r, t)
                            /\ Visited.c = r.c /\ Father(Visited) = r.i
<1>1. pc.t = t /\ pc.k = k /\ pc.op = "reclaim"
  BY DEF Reclaiming
<1>2. slot[t] \in Seq(Addr) /\ DOMAIN slot[t] = 1 .. Len(slot[t]) /\ Len(slot[t]) \in Nat
  OBVIOUS
<1>3. k + 1 \in DOMAIN slot[t] /\ k + 1 \in (k + 1) .. Len(slot[t]) /\ Visited = slot[t][k + 1]
  BY <1>1, <1>2 DEF Visited
<1>4. Visited \in Ahead(t)
  BY <1>1, <1>3 DEF Ahead, Behind
<1>5. Visited \in Listed(t)
  BY <1>3 DEF Listed
<1>6. Visited \notin U
  BY <1>5 DEF Sound, UsedUnlisted
<1>7. PICK r \in runs : SmallRun(r, t) /\ Visited \in BlocksOf(r, t)
  BY <1>5 DEF Sound, ListedBacked, InSmallRun
<1>8. Visited.c = r.c /\ Father(Visited) = r.i
  BY <1>7, SmallBlockShape DEF Sound
<1> QED BY <1>3, <1>4, <1>6, <1>7, <1>8

(* Counting keeps the marks: which runs are small, and which large.           *)
LEMMA CountedRuns ==
  ASSUME PageInv, MarksSpread, CountFreed
  PROVE  /\ MarksSpread'
         /\ \A s \in runs : \A t : SmallRun(s, t)' <=> SmallRun(s, t)
         /\ \A s \in runs : LargeRun(s)' <=> LargeRun(s)
         /\ \A t \in Bin : \A x : InSmallRun(t, x) => InSmallRun(t, x)'
         /\ \A x : StartsLargeRun(x) => StartsLargeRun(x)'
<1>1. runs' = runs
  BY DEF CountFreed
<1>2. ASSUME NEW s \in runs
      PROVE  /\ \A p \in RunPages(s) : /\ map'[s.c][p].kind = map[s.c][p].kind
                                       /\ map'[s.c][p].val = map[s.c][p].val
                                       /\ map'[s.c][p].off = map[s.c][p].off
             /\ s.i \in RunPages(s)
  BY CountFreedFacts, RunShape
<1>3. ASSUME NEW s \in runs
      PROVE  (\A t : SmallRun(s, t)' <=> SmallRun(s, t)) /\ (LargeRun(s)' <=> LargeRun(s))
  BY <1>2 DEF SmallRun, LargeRun
<1>4. ASSUME NEW s \in runs PROVE MarkSpread(s)'
  <2>1. MarkSpread(s)
    BY DEF MarksSpread
  <2>2. (LargeRun(s) \/ \E t \in Bin : SmallRun(s, t))'
    BY <1>3, <2>1 DEF MarkSpread
  <2>3. ASSUME NEW p \in RunPages(s)
        PROVE  /\ map'[s.c][p].kind = map'[s.c][s.i].kind
               /\ map'[s.c][p].val = map'[s.c][s.i].val
               /\ map'[s.c][p].off = p - s.i
    BY <1>2, <2>1 DEF MarkSpread
  <2> QED BY <2>2, <2>3 DEF MarkSpread, RunPages
<1>5. \A t \in Bin : \A x : InSmallRun(t, x) => InSmallRun(t, x)'
  BY <1>1, <1>3 DEF InSmallRun, BlocksOf, SmallBlock
<1>6. \A x : StartsLargeRun(x) => StartsLargeRun(x)'
  BY <1>1, <1>3 DEF StartsLargeRun, StartOf
<1> QED BY <1>1, <1>3, <1>4, <1>5, <1>6 DEF MarksSpread

(* One more block of the run is counted, and one less is ahead.               *)
LEMMA ReclaimCountStep ==
  ASSUME PageInv, slot \in [Bin -> Seq(Addr)], NEW U, Sound(U),
         NEW t \in Bin, NEW k \in 0 .. Len(slot[t]), pc = Reclaiming(t, k), ReclaimCount
  PROVE  /\ Sound(U)' /\ k + 1 \in 0 .. Len(slot[t]) /\ pc' = Reclaiming(t, k + 1)
         /\ \A u \in Bin : \A x : InSmallRun(u, x) => InSmallRun(u, x)'
<1> USE DEF Sound
<1>1. pc.t = t /\ pc.k = k /\ k < Len(slot[t]) /\ slot' = slot /\ CountFreed /\ runs' = runs
      /\ k \in Nat /\ Len(slot[t]) \in Nat /\ slot[t] \in Seq(Addr)
      /\ DOMAIN slot[t] = 1 .. Len(slot[t])
  BY DEF ReclaimCount, Reclaiming, CountFreed
<1>2. pc' = Reclaiming(t, k + 1)
  BY DEF ReclaimCount, Reclaiming
<1>3. /\ k + 1 \in DOMAIN slot[t] /\ Visited = slot[t][k + 1]
      /\ Visited \in Ahead(t) /\ Visited \notin U
  BY <1>1, VisitedRun
<1>4. PICK r \in runs : /\ SmallRun(r, t) /\ Visited \in BlocksOf(r, t)
                        /\ Visited.c = r.c /\ Father(Visited) = r.i
  BY <1>1, VisitedRun
<1> DEFINE v == Visited
           cnt == map[r.c][r.i].cnt
<1>5. map' = [map EXCEPT ![r.c][r.i].cnt = cnt + 1]
  BY <1>4 DEF ReclaimCount, Counted
<1>6. /\ map \in [Region -> [Page -> Mark]]
      /\ \A s \in runs : s.c \in Region /\ s.i \in Page
  BY RunShape DEF PageInv, PageTypeOK
<1>7. cnt \in Nat /\ map'[r.c][r.i].cnt = cnt + 1
  BY <1>5, <1>6 DEF Mark
<1>8. \A s \in runs : s # r => map'[s.c][s.i] = map[s.c][s.i]
  BY <1>5, <1>6, RunStart
<1>9. Ahead(t)' \subseteq Ahead(t) /\ v \notin Ahead(t)'
  <2>1. Ahead(t)' = {slot[t][j] : j \in (k + 1 + 1) .. Len(slot[t])}
    BY <1>1, <1>2 DEF Ahead, Behind, Reclaiming
  <2>2. Ahead(t) = {slot[t][j] : j \in (k + 1) .. Len(slot[t])}
    BY DEF Ahead, Behind, Reclaiming
  <2>3. ASSUME NEW j \in (k + 1 + 1) .. Len(slot[t])
        PROVE  j \in (k + 1) .. Len(slot[t]) /\ slot[t][j] # v
    <3>1. j \in DOMAIN slot[t] /\ j # k + 1 /\ j \in (k + 1) .. Len(slot[t])
      BY <1>1
    <3> QED BY <1>3, <3>1 DEF ListedOnce
  <2> QED BY <2>1, <2>2, <2>3
<1>10. \A u \in Bin : u # t => Ahead(u)' = Ahead(u)
  BY <1>1, <1>2 DEF Ahead, Behind, Reclaiming
<1> HIDE DEF v, cnt
<1>11. /\ MarksSpread'
       /\ \A s \in runs : \A u : SmallRun(s, u)' <=> SmallRun(s, u)
       /\ \A u \in Bin : \A x : InSmallRun(u, x) => InSmallRun(u, x)'
       /\ \A x : StartsLargeRun(x) => StartsLargeRun(x)'
  BY <1>1, CountedRuns
<1>12. \A u \in Bin : Listed(u)' = Listed(u)
  BY <1>1 DEF Listed
<1>13. ListedBacked'
  BY <1>11, <1>12 DEF ListedBacked
<1>14. ListedOnce'
  BY <1>1 DEF ListedOnce
<1>15. UsedBacked(U)'
  BY <1>11 DEF UsedBacked
<1>16. UsedUnlisted(U)'
  BY <1>12 DEF UsedUnlisted
<1>17. CountsBounded(U)'
  <2> SUFFICES ASSUME NEW s \in runs, NEW u \in Bin, SmallRun(s, u)'
               PROVE  map'[s.c][s.i].cnt + Cardinality(BlocksOf(s, u) \cap (U \cup Ahead(u)'))
                        <= BinCount[u]
    BY <1>1 DEF CountsBounded, BlocksOf, SmallBlock
  <2>1. SmallRun(s, u)
    BY <1>11
  <2>2. CASE s # r
    <3>1. map'[s.c][s.i] = map[s.c][s.i]
      BY <1>8, <2>2
    <3>2. BlocksOf(s, u) \cap (U \cup Ahead(u)') \subseteq U \cup Ahead(u)
      BY <1>9, <1>10
    <3> QED BY <2>1, <3>1, <3>2, CountKept
  <2>3. CASE s = r
    <3>1. u = t
      BY <1>4, <2>1, <2>3 DEF SmallRun
    <3> DEFINE A == BlocksOf(r, t) \cap (U \cup Ahead(t))
               B == BlocksOf(r, t) \cap (U \cup Ahead(t)')
    <3>2. v \in A /\ B \subseteq A \ {v}
      BY <1>3, <1>4, <1>9 DEF v
    <3>3. IsFiniteSet(A) /\ Cardinality(A) \in Nat /\ Cardinality(B) \in Nat
      BY BlocksCount
    <3>4. cnt + Cardinality(A) <= BinCount[t] /\ BinCount[t] \in Nat
      BY <1>4, Geometry DEF CountsBounded, cnt
    <3> HIDE DEF A, B
    <3>5. IsFiniteSet(A \ {v}) /\ Cardinality(A \ {v}) = Cardinality(A) - 1
      BY <3>2, <3>3, FS_RemoveElement
    <3>6. Cardinality(B) <= Cardinality(A) - 1
      BY <3>2, <3>5, FS_Subset
    <3>7. cnt + 1 + Cardinality(B) <= BinCount[t]
      BY <1>7, <3>3, <3>4, <3>6
    <3> QED BY <1>7, <2>3, <3>1, <3>7 DEF B
  <2> QED BY <2>2, <2>3
<1>18. k + 1 \in 0 .. Len(slot[t])
  BY <1>1
<1> QED BY <1>2, <1>11, <1>13, <1>14, <1>15, <1>16, <1>17, <1>18

(* A set of at most one element has no second one.                            *)
LEMMA OnlyOne ==
  ASSUME NEW A, IsFiniteSet(A), Cardinality(A) <= 1, NEW v \in A, NEW x \in A
  PROVE  x = v
<1>1. Cardinality(A) \in Nat /\ Cardinality(A) # 0
  BY FS_CardinalityType, FS_EmptySet
<1>2. IsFiniteSet(A \ {v}) /\ Cardinality(A \ {v}) = 0
  BY <1>1, FS_RemoveElement
<1>3. A \ {v} = {}
  BY <1>2, FS_EmptySet
<1> QED BY <1>3

(* The list that is left when a run is given back: the elements of the old    *)
(* one at positions J up to k+1, and those behind k+1.                        *)
Left(list, k, J) == Picked(list, J) \o SubSeq(list, k + 2, Len(list))

LeftFrom(list, k, J) ==
  \E pos : /\ Draws(Left(list, k, J), list, pos, DOMAIN list)
           /\ \A n \in DOMAIN Left(list, k, J) :
                /\ pos[n] \in J \/ pos[n] > k + 1
                /\ n > Len(Picked(list, J)) => pos[n] > k + 1

(* What the walk of __jbl_free_smalls leaves of a list, block by block, with  *)
(* the place each came from.                                                  *)
LEMMA LeftShape ==
  ASSUME NEW S, NEW list \in Seq(S), NEW k \in Nat, k < Len(list),
         NEW J, J \subseteq 1 .. (k + 1)
  PROVE  /\ Left(list, k, J) \in Seq(S)
         /\ Len(Picked(list, J)) \in 0 .. Len(Left(list, k, J))
         /\ LeftFrom(list, k, J)
<1> DEFINE kept == Picked(list, J)
           rest == SubSeq(list, k + 2, Len(list))
           new == kept \o rest
           N == Len(list)
           K == Len(kept)
           R == Len(rest)
<1>1. N \in Nat /\ DOMAIN list = 1 .. N
  OBVIOUS
<1>2. J \subseteq 1 .. N
  <2>1. \A j \in 1 .. (k + 1) : j \in 1 .. N
    BY <1>1
  <2> QED BY <2>1
<1>3. kept \in Seq(S) /\ \E at : Draws(kept, list, at, J)
  BY <1>2, PickedShape
<1>4. /\ rest \in Seq(S)
      /\ R = IF k + 2 <= N THEN N - (k + 2) + 1 ELSE 0
      /\ \A i \in 1 .. N - (k + 2) + 1 : rest[i] = list[k + 2 + i - 1]
  <2>1. k + 2 \in Int /\ Len(list) \in Int
    BY <1>1
  <2>2. ASSUME NEW i \in (k + 2) .. Len(list) PROVE list[i] \in S
    <3>1. i \in 1 .. Len(list)
      BY <1>1
    <3> QED BY <3>1, ElementOfSeq
  <2> QED BY <2>1, <2>2, SubSeqProperties
<1> HIDE DEF kept, rest
<1>5. K \in Nat /\ R \in Nat /\ DOMAIN kept = 1 .. K
  BY <1>3, <1>4
<1>6. /\ kept \o rest \in Seq(S) /\ Len(kept \o rest) = Len(kept) + Len(rest)
      /\ \A n \in 1 .. Len(kept) + Len(rest) :
           (kept \o rest)[n] = IF n <= Len(kept) THEN kept[n] ELSE rest[n - Len(kept)]
  BY <1>3, <1>4, ConcatProperties
<1>7. /\ new \in Seq(S) /\ Len(new) = K + R
      /\ \A n \in 1 .. (K + R) : new[n] = IF n <= K THEN kept[n] ELSE rest[n - K]
  BY <1>6
<1>8. DOMAIN new = 1 .. (K + R)
  BY <1>7
<1>9. Left(list, k, J) = new /\ Len(Picked(list, J)) = K
  BY DEF Left, kept, rest
<1>10. k < N
  OBVIOUS
<1> HIDE DEF new, K, R, N
<1>11. R = N - (k + 1)
  BY <1>1, <1>4, <1>10
<1>12. \A n \in 1 .. R : rest[n] = list[k + 1 + n]
  <2> SUFFICES ASSUME NEW n \in 1 .. R PROVE rest[n] = list[k + 1 + n]
    OBVIOUS
  <2>1. n \in 1 .. N - (k + 2) + 1 /\ k + 2 + n - 1 = k + 1 + n
    BY <1>1, <1>11
  <2> QED BY <1>4, <2>1
<1>13. PICK at : /\ at \in [1 .. K -> J]
                 /\ \A m, n \in 1 .. K : at[m] = at[n] => m = n
                 /\ \A n \in 1 .. K : kept[n] = list[at[n]]
  BY <1>3, <1>5 DEF Draws
<1>14. \E pos : /\ Draws(new, list, pos, 1 .. N)
                /\ \A n \in 1 .. (K + R) : pos[n] \in J \/ pos[n] > k + 1
                /\ \A n \in 1 .. (K + R) : n > K => pos[n] > k + 1
  <2>0. /\ N \in Nat /\ K \in Nat /\ R \in Nat /\ R = N - (k + 1) /\ k < N
        /\ DOMAIN new = 1 .. (K + R)
    BY <1>1, <1>5, <1>8, <1>10, <1>11
  <2>a. /\ at \in [1 .. K -> J]
        /\ \A m, n \in 1 .. K : at[m] = at[n] => m = n
        /\ \A n \in 1 .. K : kept[n] = list[at[n]]
    BY <1>13
  <2>b. /\ \A n \in 1 .. (K + R) : new[n] = IF n <= K THEN kept[n] ELSE rest[n - K]
        /\ \A n \in 1 .. R : rest[n] = list[k + 1 + n]
    BY <1>7, <1>12
  <2> DEFINE Past(n) == k + 1 + (n - K)
             pos == [n \in 1 .. (K + R) |-> IF n <= K THEN at[n] ELSE Past(n)]
  <2>1. \A j \in J : j \in 1 .. N /\ j \in Nat /\ j <= k + 1
    BY <2>0
  <2>2. \A n \in 1 .. (K + R) : n <= K => n \in 1 .. K
    BY <2>0
  <2>3. ASSUME NEW n \in 1 .. (K + R), ~ (n <= K)
        PROVE  /\ Past(n) \in 1 .. N /\ Past(n) > k + 1 /\ Past(n) \in Nat
               /\ rest[n - K] = list[Past(n)]
    <3>1. n - K \in 1 .. R
      BY <2>0, <2>3
    <3>2. Past(n) \in 1 .. N /\ Past(n) > k + 1 /\ Past(n) \in Nat
      BY <2>0, <3>1
    <3> QED BY <2>b, <3>1, <3>2
  <2>4. \A m, n \in 1 .. (K + R) : Past(m) = Past(n) => m = n
    BY <2>0
  <2> HIDE DEF Past
  <2>5. pos \in [1 .. (K + R) -> 1 .. N]
    BY <2>a, <2>1, <2>2, <2>3
  <2>6. \A n \in 1 .. (K + R) : pos[n] \in J \/ pos[n] > k + 1
    BY <2>a, <2>2, <2>3
  <2>7. \A n \in 1 .. (K + R) : n > K => pos[n] > k + 1
    <3> SUFFICES ASSUME NEW n \in 1 .. (K + R), n > K PROVE pos[n] > k + 1
      OBVIOUS
    <3>1. ~ (n <= K)
      BY <2>0
    <3> QED BY <2>3, <3>1
  <2>8. ASSUME NEW m \in 1 .. (K + R), NEW n \in 1 .. (K + R), pos[m] = pos[n]
        PROVE  m = n
    <3>1. CASE m <= K /\ n <= K
      BY <2>a, <2>2, <2>8, <3>1
    <3>2. CASE ~ (m <= K) /\ ~ (n <= K)
      BY <2>4, <2>8, <3>2
    <3>3. ASSUME NEW x \in 1 .. (K + R), NEW y \in 1 .. (K + R), x <= K, ~ (y <= K)
          PROVE  pos[x] # pos[y]
      <4>1. pos[x] \in Nat /\ pos[x] <= k + 1
        BY <2>a, <2>1, <2>2, <3>3
      <4>2. pos[y] \in Nat /\ pos[y] > k + 1
        BY <2>3, <3>3
      <4> QED BY <2>0, <4>1, <4>2
    <3> QED BY <2>8, <3>1, <3>2, <3>3
  <2>9. \A n \in 1 .. (K + R) : new[n] = list[pos[n]]
    <3> SUFFICES ASSUME NEW n \in 1 .. (K + R) PROVE new[n] = list[pos[n]]
      OBVIOUS
    <3>1. CASE n <= K
      BY <2>a, <2>b, <2>2, <3>1
    <3>2. CASE ~ (n <= K)
      BY <2>b, <2>3, <3>2
    <3> QED BY <3>1, <3>2
  <2> HIDE DEF pos
  <2>10. Draws(new, list, pos, 1 .. N)
    BY <2>0, <2>5, <2>8, <2>9 DEF Draws
  <2> QED BY <2>6, <2>7, <2>10
<1>15. K \in 0 .. Len(new)
  BY <1>5, <1>7
<1>16. LeftFrom(list, k, J)
  BY <1>1, <1>8, <1>9, <1>14 DEF LeftFrom
<1> QED BY <1>7, <1>9, <1>15, <1>16

(* A run whose blocks are all on the list leaves it with them.                *)
LEMMA ReclaimRunStep ==
  ASSUME PageInv, slot \in [Bin -> Seq(Addr)], NEW U, Sound(U),
         NEW t \in Bin, NEW k \in 0 .. Len(slot[t]), pc = Reclaiming(t, k), ReclaimRun
  PROVE  /\ Sound(U)' /\ slot' \in [Bin -> Seq(Addr)]
         /\ \E j \in 0 .. Len(slot'[t]) : pc' = Reclaiming(t, j)
         /\ \E r \in runs : FreePage(r.c, r.i)
         /\ \A x \in U : SameMark(x)
         /\ \A u \in Bin : \A x \in U : InSmallRun(u, x) => InSmallRun(u, x)'
<1> DEFINE list == slot[t]
           J == {j \in 1 .. (k + 1) : Father(slot[t][j]) # Father(Visited)}
           kept == Picked(list, J)
           new == Left(list, k, J)
<1> USE DEF Sound
<1>1. /\ pc.t = t /\ pc.k = k /\ k < Len(list) /\ k \in Nat /\ Len(list) \in Nat
      /\ list \in Seq(Addr) /\ DOMAIN list = 1 .. Len(list)
  BY DEF ReclaimRun, Reclaiming
<1>2. k + 1 \in DOMAIN list /\ Visited = list[k + 1] /\ Visited \in Ahead(t) /\ Visited \notin U
  BY <1>1, VisitedRun
<1>3. PICK r \in runs : /\ SmallRun(r, t) /\ Visited \in BlocksOf(r, t)
                        /\ Visited.c = r.c /\ Father(Visited) = r.i
  BY <1>1, VisitedRun
<1>4. slot' = [slot EXCEPT ![t] = new]
  BY <1>1 DEF ReclaimRun, Left, Kept, Unvisited
<1>5. pc' = Reclaiming(t, Len(kept))
  BY <1>1 DEF ReclaimRun, Reclaiming, Kept
<1>6. FreePage(r.c, r.i)
  BY <1>3 DEF ReclaimRun
<1>7. map[r.c][r.i].cnt + 1 = BinCount[t]
  BY <1>1, <1>3 DEF ReclaimRun, Counted
<1> DEFINE v == Visited
           B == BlocksOf(r, t)
           A == B \cap (U \cup Ahead(t))
<1>8. \A x \in A : x = v
  <2>1. v \in A /\ IsFiniteSet(A) /\ Cardinality(A) \in Nat
    BY <1>2, <1>3, BlocksCount
  <2>2. map[r.c][r.i].cnt + Cardinality(A) <= BinCount[t]
    BY <1>3 DEF CountsBounded
  <2>3. map[r.c][r.i].cnt \in Nat
    BY <1>3, RunShape DEF PageInv, PageTypeOK, Mark
  <2> HIDE DEF A, v
  <2>4. Cardinality(A) <= 1
    BY <1>7, <2>1, <2>2, <2>3
  <2> QED BY <2>1, <2>4, OnlyOne
<1>9. \A x \in U : x \notin B
  BY <1>2, <1>8
<1>10. new \in Seq(Addr) /\ Len(kept) \in 0 .. Len(new) /\ LeftFrom(list, k, J)
  <2>1. J \subseteq 1 .. (k + 1)
    OBVIOUS
  <2> HIDE DEF J, list
  <2> QED BY <1>1, <2>1, LeftShape
<1>11. PICK pos : /\ Draws(new, list, pos, DOMAIN list)
                  /\ \A n \in DOMAIN new : /\ pos[n] \in J \/ pos[n] > k + 1
                                           /\ n > Len(kept) => pos[n] > k + 1
  BY <1>10 DEF LeftFrom
<1>12. /\ slot' \in [Bin -> Seq(Addr)] /\ slot'[t] = new
       /\ \A u \in Bin : u # t => slot'[u] = slot[u]
  BY <1>4, <1>10
<1> HIDE DEF kept, new
<1>13. ASSUME NEW n \in DOMAIN new
       PROVE  /\ pos[n] \in DOMAIN list /\ new[n] = list[pos[n]]
              /\ new[n] \notin B
              /\ n > Len(kept) => new[n] \in Ahead(t)
  <2>1. pos[n] \in DOMAIN list /\ new[n] = list[pos[n]] /\ pos[n] \in Nat
    BY <1>1, <1>11 DEF Draws
  <2>2. pos[n] > k + 1 => new[n] \in Ahead(t)
    BY <1>1, <2>1 DEF Ahead, Behind, Reclaiming
  <2>3. ASSUME new[n] \in B PROVE FALSE
    <3>1. Father(new[n]) = r.i
      BY <1>3, <2>3, SmallBlockShape
    <3>2. pos[n] > k + 1
      BY <1>3, <1>11, <2>1, <3>1
    <3>3. list[pos[n]] = list[k + 1]
      BY <1>2, <1>8, <2>1, <2>2, <2>3, <3>2
    <3>4. pos[n] = k + 1
      BY <1>2, <2>1, <3>3 DEF ListedOnce
    <3> QED BY <1>1, <3>2, <3>4
  <2> QED BY <1>11, <2>1, <2>2, <2>3
<1>14. /\ runs' = runs \ {r}
       /\ \A s \in runs : s # r => \A p \in RunPages(s) : map'[s.c][p] = map[s.c][p]
  BY <1>6, FreePageFacts
<1>15. \A s \in runs : s # r => Untouched(s)
  BY <1>14 DEF Untouched
<1>16. /\ Listed(t)' \subseteq Listed(t) /\ \A x \in Listed(t)' : x \notin B
       /\ \A u \in Bin : u # t => Listed(u)' = Listed(u)
  <2>1. \A n \in DOMAIN slot'[t] : slot'[t][n] \in Listed(t) /\ slot'[t][n] \notin B
    BY <1>12, <1>13 DEF Listed
  <2>2. \A u \in Bin : u # t => Listed(u)' = Listed(u)
    BY <1>12 DEF Listed
  <2> QED BY <2>1, <2>2 DEF Listed
<1>17. ASSUME NEW u \in Bin, NEW x, InSmallRun(u, x), x \notin B
       PROVE  InSmallRun(u, x)'
  <2>1. PICK s \in runs : SmallRun(s, u) /\ x \in BlocksOf(s, u)
    BY <1>17 DEF InSmallRun
  <2>2. s # r
    BY <1>3, <1>17, <2>1 DEF SmallRun
  <2> QED BY <1>15, <2>1, <2>2, UntouchedRun
<1>18. \A x : StartsLargeRun(x) => StartsLargeRun(x)'
  <2> SUFFICES ASSUME NEW s \in runs, LargeRun(s) PROVE StartsLargeRun(StartOf(s))'
    BY DEF StartsLargeRun
  <2>1. s # r
    BY <1>3 DEF LargeRun, SmallRun
  <2> QED BY <1>15, <2>1, UntouchedRun
<1>19. \A u \in Bin : Ahead(u)' \subseteq Ahead(u)
  <2>1. Ahead(t)' = {new[n] : n \in (Len(kept) + 1) .. Len(new)}
    BY <1>5, <1>12 DEF Ahead, Behind, Reclaiming
  <2>2. ASSUME NEW n \in (Len(kept) + 1) .. Len(new) PROVE new[n] \in Ahead(t)
    <3>1. n \in DOMAIN new /\ n > Len(kept)
      BY <1>10
    <3> QED BY <1>13, <3>1
  <2>3. \A u \in Bin : u # t => Ahead(u)' = Ahead(u)
    BY <1>1, <1>5, <1>12 DEF Ahead, Behind, Reclaiming
  <2> QED BY <2>1, <2>2, <2>3
<1> HIDE DEF v, B, A
<1>20. MarksSpread'
  BY <1>14, <1>15, UntouchedRun DEF MarksSpread
<1>21. ListedBacked'
  <2> SUFFICES ASSUME NEW u \in Bin, NEW x \in Listed(u)' PROVE InSmallRun(u, x)'
    BY DEF ListedBacked
  <2>1. InSmallRun(u, x)
    BY <1>16 DEF ListedBacked
  <2>2. x \notin B
    <3>1. CASE u = t
      BY <1>16, <3>1
    <3>2. CASE u # t
      BY <1>3, <2>1, <3>2, OneSmallRun DEF InSmallRun, B
    <3> QED BY <3>1, <3>2
  <2> QED BY <1>17, <2>1, <2>2
<1>22. ListedOnce'
  <2> SUFFICES ASSUME NEW u \in Bin, NEW w \in Bin, NEW j \in DOMAIN slot'[u],
                      NEW l \in DOMAIN slot'[w], slot'[u][j] = slot'[w][l]
               PROVE  u = w /\ j = l
    BY DEF ListedOnce
  <2>1. PICK jj \in DOMAIN slot[u] : /\ slot'[u][j] = slot[u][jj]
                                     /\ IF u = t THEN jj = pos[j] /\ j \in DOMAIN new ELSE jj = j
    BY <1>12, <1>13
  <2>2. PICK ll \in DOMAIN slot[w] : /\ slot'[w][l] = slot[w][ll]
                                     /\ IF w = t THEN ll = pos[l] /\ l \in DOMAIN new ELSE ll = l
    BY <1>12, <1>13
  <2>3. u = w /\ jj = ll
    <3>1. slot[u][jj] = slot[w][ll]
      BY <2>1, <2>2
    <3> QED BY <3>1 DEF ListedOnce
  <2>4. \A m, n \in DOMAIN new : pos[m] = pos[n] => m = n
    BY <1>11 DEF Draws
  <2> QED BY <2>1, <2>2, <2>3, <2>4
<1>23. UsedBacked(U)'
  BY <1>9, <1>17, <1>18 DEF UsedBacked
<1>24. UsedUnlisted(U)'
  BY <1>16 DEF UsedUnlisted
<1>25. CountsBounded(U)'
  <2> SUFFICES ASSUME NEW s \in runs', NEW u \in Bin, SmallRun(s, u)'
               PROVE  map'[s.c][s.i].cnt + Cardinality(BlocksOf(s, u) \cap (U \cup Ahead(u)'))
                        <= BinCount[u]
    BY DEF CountsBounded, BlocksOf, SmallBlock
  <2>1. s \in runs /\ SmallRun(s, u) /\ map'[s.c][s.i] = map[s.c][s.i]
    BY <1>14, <1>15, UntouchedRun
  <2>2. BlocksOf(s, u) \cap (U \cup Ahead(u)') \subseteq U \cup Ahead(u)
    BY <1>19
  <2> QED BY <2>1, <2>2, CountKept
<1>26. \A u \in Bin : \A x \in U : InSmallRun(u, x) => InSmallRun(u, x)'
  BY <1>9, <1>17
<1>27. \E j \in 0 .. Len(slot'[t]) : pc' = Reclaiming(t, j)
  BY <1>5, <1>10, <1>12
<1>28. \A x \in U : SameMark(x)
  <2>1. \A u \in Bin : SmallRun(r, u) => u = t
    BY <1>3 DEF SmallRun
  <2>2. ~ LargeRun(r)
    BY <1>3 DEF SmallRun, LargeRun
  <2> QED BY <1>9, <1>15, <2>1, <2>2, MarksElsewhere DEF B
<1> QED BY <1>6, <1>12, <1>20, <1>21, <1>22, <1>23, <1>24, <1>25, <1>26, <1>27, <1>28

(* At the end of a list the counts of its runs start again from zero.         *)
LEMMA ReclaimNextBinStep ==
  ASSUME PageInv, slot \in [Bin -> Seq(Addr)], NEW U, Sound(U),
         NEW t \in Bin, NEW k \in 0 .. Len(slot[t]), pc = Reclaiming(t, k), ReclaimNextBin
  PROVE  /\ Sound(U)'
         /\ pc' = Idle \/ \E u \in Bin : pc' = Reclaiming(u, 0)
         /\ \A u \in Bin : \A x : InSmallRun(u, x) => InSmallRun(u, x)'
<1> DEFINE counted == {[c |-> x.c, p |-> Father(x)] : x \in Listed(t)}
<1> USE DEF Sound
<1>1. pc.t = t /\ slot' = slot /\ CountFreed /\ runs' = runs
  BY DEF ReclaimNextBin, Reclaiming, CountFreed
<1>2. map' = [c \in Region |-> [p \in Page |->
                IF [c |-> c, p |-> p] \in counted
                THEN [map[c][p] EXCEPT !.cnt = 0] ELSE map[c][p]]]
  BY <1>1 DEF ReclaimNextBin, Listed
<1>3. pc' = Idle \/ \E u \in Bin : pc' = Reclaiming(u, 0)
  BY DEF ReclaimNextBin
<1> HIDE DEF counted
<1>4. /\ MarksSpread'
      /\ \A s \in runs : \A u : SmallRun(s, u)' <=> SmallRun(s, u)
      /\ \A u \in Bin : \A x : InSmallRun(u, x) => InSmallRun(u, x)'
      /\ \A x : StartsLargeRun(x) => StartsLargeRun(x)'
  BY <1>1, CountedRuns
<1>5. \A u \in Bin : Listed(u)' = Listed(u)
  BY <1>1 DEF Listed
<1>6. ASSUME NEW u \in Bin
      PROVE  /\ Ahead(u)' \subseteq Listed(u)
             /\ u # t => Ahead(u) = Listed(u)
  <2>1. slot[u] \in Seq(Addr) /\ DOMAIN slot[u] = 1 .. Len(slot[u]) /\ Len(slot[u]) \in Nat
    OBVIOUS
  <2>2. Behind(u)' = 0
    BY <1>3 DEF Behind, Idle, Reclaiming
  <2>3. u # t => Behind(u) = 0
    BY <1>1 DEF Behind
  <2>4. Listed(u) = {slot[u][j] : j \in (0 + 1) .. Len(slot[u])}
    BY <2>1 DEF Listed
  <2>5. Ahead(u)' = {slot[u][j] : j \in (0 + 1) .. Len(slot[u])}
    BY <1>1, <2>2 DEF Ahead
  <2>6. u # t => Ahead(u) = {slot[u][j] : j \in (0 + 1) .. Len(slot[u])}
    BY <2>3 DEF Ahead
  <2> QED BY <2>4, <2>5, <2>6
<1>7. ListedBacked'
  BY <1>4, <1>5 DEF ListedBacked
<1>8. ListedOnce'
  BY <1>1 DEF ListedOnce
<1>9. UsedBacked(U)'
  BY <1>4 DEF UsedBacked
<1>10. UsedUnlisted(U)'
  BY <1>5 DEF UsedUnlisted
<1>11. CountsBounded(U)'
  <2> SUFFICES ASSUME NEW s \in runs, NEW u \in Bin, SmallRun(s, u)'
               PROVE  map'[s.c][s.i].cnt + Cardinality(BlocksOf(s, u) \cap (U \cup Ahead(u)'))
                        <= BinCount[u]
    BY <1>1 DEF CountsBounded, BlocksOf, SmallBlock
  <2>1. SmallRun(s, u)
    BY <1>4
  <2>2. /\ s.c \in Region /\ s.i \in Page /\ map[s.c][s.i] \in Mark
        /\ map'[s.c][s.i] = IF [c |-> s.c, p |-> s.i] \in counted
                            THEN [map[s.c][s.i] EXCEPT !.cnt = 0] ELSE map[s.c][s.i]
    <3>1. s.c \in Region /\ s.i \in Page
      BY RunShape
    <3> QED BY <1>2, <3>1 DEF PageInv, PageTypeOK
  <2>3. CASE [c |-> s.c, p |-> s.i] \in counted
    <3>1. map'[s.c][s.i].cnt = 0
      BY <2>2, <2>3 DEF Mark
    <3> DEFINE card == Cardinality(BlocksOf(s, u) \cap (U \cup Ahead(u)'))
    <3>2. card \in Nat /\ card <= BinCount[u]
      BY BlocksCount
    <3> HIDE DEF card
    <3>3. 0 + card <= BinCount[u]
      BY <3>2
    <3> QED BY <3>1, <3>3 DEF card
  <2>4. CASE [c |-> s.c, p |-> s.i] \notin counted
    <3>1. map'[s.c][s.i] = map[s.c][s.i]
      BY <2>2, <2>4
    <3>2. ASSUME NEW x \in BlocksOf(s, u), x \in Ahead(u)' PROVE x \in Ahead(u)
      <4>1. x \in Listed(u)
        BY <1>6, <3>2
      <4>2. x.c = s.c /\ Father(x) = s.i
        BY <2>1, <3>2, SmallBlockShape
      <4>3. u # t
        BY <2>4, <4>1, <4>2 DEF counted
      <4> QED BY <1>6, <4>1, <4>3
    <3>3. BlocksOf(s, u) \cap (U \cup Ahead(u)') \subseteq U \cup Ahead(u)
      BY <3>2
    <3> QED BY <2>1, <3>1, <3>3, CountKept
  <2> QED BY <2>3, <2>4
<1> QED BY <1>3, <1>4, <1>7, <1>8, <1>9, <1>10, <1>11

-----------------------------------------------------------------------------
(* Sizes in pages. *)

(* A large request takes at least one page and fits behind a chunk's header;  *)
(* a huge one is rounded up to more than any large block has.                 *)
LEMMA RoundUpRight ==
  ASSUME NEW sz \in Nat \ {0}
  PROVE  /\ sz <= LargeMax => RoundUp(sz) \in 1 .. (PageCount - 1)
         /\ sz > LargeMax => RoundUp(sz) * PageBytes \in Nat /\ RoundUp(sz) * PageBytes > LargeMax
<1> DEFINE P == PageBytes
           d == sz \div P
           m == sz % P
           top == BitLimit - 1
<1>1. /\ P \in Nat \ {0} /\ P \in Nat /\ BitLimit \in Nat /\ PageCount = BitLimit
      /\ top \in Nat /\ LargeMax = top * P /\ BitLimit = top + 1
  BY Geometry
<1>2. d \in Nat /\ d * P <= sz /\ sz < d * P + P /\ sz = d * P + m
  BY <1>1, DivBounds
<1>3. m \in Int
  BY <1>1
<1>4. RoundUp(sz) = (IF m # 0 THEN 1 ELSE 0) + d
  BY DEF RoundUp
<1> HIDE DEF d, m, top, P
<1>5. ASSUME sz <= LargeMax
      PROVE  RoundUp(sz) \in 1 .. (PageCount - 1)
  <2>1. d <= top
    <3>1. ASSUME top + 1 <= d PROVE FALSE
      <4>1. (top + 1) * P <= d * P
        BY <1>1, <1>2, <3>1, MulOrder
      <4>2. (top + 1) * P = top * P + P /\ top * P \in Nat
        BY <1>1
      <4>3. d * P \in Nat
        BY <1>1, <1>2
      <4> QED BY <1>1, <1>2, <1>5, <4>1, <4>2, <4>3
    <3> QED BY <1>1, <1>2, <3>1
  <2>2. ASSUME m # 0 PROVE d < top
    <3>1. ASSUME d = top PROVE FALSE
      <4>1. sz = top * P + m /\ top * P \in Nat
        BY <1>1, <1>2, <3>1
      <4>2. m > 0
        <5>1. d * P \in Nat
          BY <1>1, <1>2
        <5> QED BY <1>2, <1>3, <2>2, <5>1
      <4> QED BY <1>1, <1>3, <1>5, <4>1, <4>2
    <3> QED BY <1>1, <1>2, <2>1, <3>1
  <2>3. ASSUME m = 0 PROVE d > 0
    <3>1. ASSUME d = 0 PROVE FALSE
      <4>1. d * P = 0
        BY <1>1, <3>1
      <4> QED BY <1>2, <2>3, <4>1
    <3> QED BY <1>2, <3>1
  <2>4. RoundUp(sz) = d \/ (m # 0 /\ RoundUp(sz) = d + 1)
    BY <1>2, <1>4
  <2> QED BY <1>1, <1>2, <1>4, <2>1, <2>2, <2>3, <2>4
<1>6. ASSUME sz > LargeMax
      PROVE  RoundUp(sz) * PageBytes \in Nat /\ RoundUp(sz) * PageBytes > LargeMax
  <2>1. d * P \in Nat /\ (d + 1) * P = d * P + P /\ LargeMax \in Nat
    BY <1>1, <1>2
  <2>2. CASE m = 0
    <3>1. RoundUp(sz) = d
      BY <1>2, <1>4, <2>2
    <3>2. d * P = sz
      BY <1>2, <2>1, <2>2
    <3> QED BY <1>6, <2>1, <3>1, <3>2 DEF P
  <2>3. CASE m # 0
    <3>1. RoundUp(sz) = d + 1
      BY <1>2, <1>4, <2>3
    <3>2. (d + 1) * P \in Nat /\ (d + 1) * P > LargeMax
      BY <1>1, <1>2, <1>6, <2>1
    <3> QED BY <3>1, <3>2 DEF P
  <2> QED BY <2>2, <2>3
<1> QED BY <1>5, <1>6, <1>1

(* A run of n pages, taken for the size of its block.                         *)
LEMMA RunSize ==
  ASSUME NEW n \in 1 .. (PageCount - 1)
  PROVE  /\ n * PageBytes \in Nat
         /\ n * PageBytes > SmallMax /\ n * PageBytes <= LargeMax
<1>1. /\ PageBytes \in Nat /\ BitLimit \in Nat /\ n \in Nat /\ 1 <= n /\ n <= BitLimit - 1
      /\ BitLimit - 1 \in Int
      /\ SmallMax \in Nat /\ SmallMax < PageBytes /\ LargeMax = (BitLimit - 1) * PageBytes
  BY Geometry
<1>2. 1 * PageBytes <= n * PageBytes /\ n * PageBytes <= (BitLimit - 1) * PageBytes
  BY <1>1, MulOrder
<1>3. n * PageBytes \in Nat /\ 1 * PageBytes = PageBytes
  BY <1>1
<1> DEFINE x == n * PageBytes
<1> HIDE DEF x
<1>4. x \in Nat /\ PageBytes <= x /\ x <= LargeMax
  BY <1>1, <1>2, <1>3 DEF x
<1>5. x > SmallMax
  BY <1>1, <1>4
<1> QED BY <1>4, <1>5 DEF x

-----------------------------------------------------------------------------
(* The blocks in use, as jbl_free and jbl_realloc tell them apart. *)

(* The mark of a small block's page names its bin. *)
LEMMA InSmallRunFacts ==
  ASSUME PageInv, MarksSpread, NEW t \in Bin, NEW a, InSmallRun(t, a)
  PROVE  a \in Addr /\ a.c \in main /\ MarkOf(a).kind = "small" /\ MarkOf(a).val = t
<1>1. PICK r \in runs : SmallRun(r, t) /\ a \in BlocksOf(r, t)
  BY DEF InSmallRun
<1>2. r.c \in main
  BY DEF PageInv, RunsBacked
<1> QED BY <1>1, <1>2, SmallBlockShape

(* The mark of a large block's page names its length. *)
LEMMA LargeStartFacts ==
  ASSUME PageInv, NEW a, StartsLargeRun(a)
  PROVE  /\ a \in Addr /\ a.c \in main /\ a.o % PageBytes = 0 /\ a.o # 0
         /\ \E r \in runs : /\ LargeRun(r) /\ a = StartOf(r) /\ a.c = r.c /\ PageOf(a) = r.i
                            /\ MarkOf(a).kind = "large" /\ MarkOf(a).val = r.n
                            /\ map[r.c][r.i].val = r.n
<1>1. PICK r \in runs : LargeRun(r) /\ a = StartOf(r)
  BY DEF StartsLargeRun
<1>2. r.c \in main
  BY DEF PageInv, RunsBacked
<1>3. /\ StartOf(r) \in Addr /\ StartOf(r).c = r.c /\ PageOf(StartOf(r)) = r.i
      /\ StartOf(r).o % PageBytes = 0 /\ StartOf(r).o # 0
      /\ MarkOf(StartOf(r)).kind = "large" /\ MarkOf(StartOf(r)).val = r.n
  BY <1>1, LargeStartShape
<1>4. map[r.c][r.i].val = r.n
  BY <1>1, RunKind
<1> QED BY <1>1, <1>2, <1>3, <1>4

(* A block of a caller is a huge one, a small one or the start of a large run *)
(* and its address, its page's mark and its size say which.                   *)
IsHuge(a) == /\ a \in HugePtrs /\ a.o = 0 /\ a.o % PageBytes = 0
             /\ MallocSize(a) > LargeMax /\ MallocSize(a) > SmallMax
IsSmallOf(t, a) == /\ a \notin HugePtrs /\ InSmallRun(t, a) /\ a.c \in main
                   /\ MarkOf(a).kind = "small" /\ MarkOf(a).val = t
                   /\ MallocSize(a) <= SmallMax
IsLargeAt(r, a) == /\ a \notin HugePtrs /\ LargeRun(r) /\ a = StartOf(r)
                   /\ a.c = r.c /\ PageOf(a) = r.i /\ r.c \in main
                   /\ a.o % PageBytes = 0 /\ a.o # 0
                   /\ MarkOf(a).kind = "large" /\ MarkOf(a).val = r.n
                   /\ MallocSize(a) = r.n * PageBytes
                   /\ MallocSize(a) > SmallMax /\ MallocSize(a) <= LargeMax

(* Each block in use is huge, small or large by the tests jbl_free makes, and *)
(* jbl_malloc_size is its size.                                               *)
LEMMA BlockKinds ==
  ASSUME HeapInv, Up, NEW a \in Live
  PROVE  /\ \/ IsHuge(a)
            \/ \E t \in Bin : IsSmallOf(t, a)
            \/ \E r \in runs : IsLargeAt(r, a)
         /\ MallocSize(a) \in Nat /\ SmallMax \in Nat /\ LargeMax \in Nat
<1>1. PageInv /\ HeapTypeOK /\ Sound(Used) /\ HugeApart
  BY DEF HeapInv
<1>2. MarksSpread /\ UsedBacked(Used)
  BY <1>1 DEF Sound
<1> DEFINE Kinds == \/ IsHuge(a)
                    \/ \E t \in Bin : IsSmallOf(t, a)
                    \/ \E r \in runs : IsLargeAt(r, a)
<1>0. SmallMax \in Nat /\ LargeMax \in Nat /\ SmallMax < LargeMax
  <2>1. PageCount - 1 \in 1 .. (PageCount - 1) /\ PageCount = BitLimit /\ SmallMax \in Nat
        /\ LargeMax = (BitLimit - 1) * PageBytes
    BY Geometry
  <2> QED BY <2>1, RunSize
<1>3. ASSUME a \in HugePtrs PROVE Kinds /\ MallocSize(a) \in Nat
  <2>1. PICK g \in huge_list : g.ptr = a
    BY <1>3 DEF HugePtrs
  <2>2. HugeOf(a) = g
    BY <1>1, <2>1 DEF HugeApart, HugeOf
  <2>3. g.ptr.o = 0 /\ g.size > LargeMax /\ g.size \in Nat
    BY <1>1 DEF HugeApart, HeapTypeOK
  <2>4. MallocSize(a) = g.size
    BY <1>3, <2>2 DEF MallocSize
  <2>6. 0 % PageBytes = 0
    BY Geometry
  <2> QED BY <1>0, <1>3, <2>1, <2>3, <2>4, <2>6 DEF IsHuge
<1>4. ASSUME a \notin HugePtrs PROVE Kinds /\ MallocSize(a) \in Nat
  <2>1. a \in Used
    BY <1>4 DEF Used
  <2>2. ASSUME StartsLargeRun(a) PROVE Kinds /\ MallocSize(a) \in Nat
    <3>1. PICK r \in runs : /\ LargeRun(r) /\ a = StartOf(r) /\ a.c = r.c /\ PageOf(a) = r.i
                            /\ MarkOf(a).kind = "large" /\ MarkOf(a).val = r.n
                            /\ a.c \in main /\ a.o % PageBytes = 0 /\ a.o # 0
      BY <1>1, <2>2, LargeStartFacts
    <3>2. MallocSize(a) = r.n * PageBytes
      BY <1>4, <3>1 DEF MallocSize
    <3>3. r.n \in 1 .. (PageCount - 1)
      BY <1>1 DEF PageInv, PageTypeOK, Run
    <3> QED BY <1>4, <3>1, <3>2, <3>3, RunSize DEF IsLargeAt
  <2>3. ASSUME NEW t \in Bin, InSmallRun(t, a)
        PROVE  IsSmallOf(t, a) /\ MallocSize(a) \in Nat
    <3>1. a.c \in main /\ MarkOf(a).kind = "small" /\ MarkOf(a).val = t
      BY <1>1, <1>2, <2>3, InSmallRunFacts
    <3>2. MallocSize(a) = BinBytes[t] /\ BinBytes[t] <= SmallMax /\ BinBytes[t] \in Nat
      BY <1>4, <3>1, Geometry DEF MallocSize
    <3> QED BY <1>4, <2>3, <3>1, <3>2 DEF IsSmallOf
  <2> QED BY <1>2, <2>1, <2>2, <2>3 DEF UsedBacked
<1> QED BY <1>0, <1>3, <1>4

-----------------------------------------------------------------------------
(* Each step keeps the invariant while the allocator is up, and is a step of  *)
(* the page layer or leaves it alone.                                         *)

HugeType == [ptr : Addr, size : Nat, this : Addr]

(* A step that may change the size of the blocks in G, and of no other.       *)
HugeKept == \A g : g.ptr \in Live \cap Live' => (g \in huge_list <=> g \in huge_list')

KeepsHeap(G) ==
  /\ [PageNext]_pageVars
  /\ slot' \in [Bin -> Seq(Addr)] /\ huge_list' \subseteq HugeType
  /\ Sound(Used)' /\ HugeApart'
  /\ HugeKept
  /\ \A x \in (Used \cap Used') \ G : SameMark(x)

(* Soundness for the blocks in use, from soundness for the set they become. *)
LEMMA SoundNext ==
  ASSUME NEW V, Sound(V)', Used' = V
  PROVE  Sound(Used)'
BY DEF Sound, UsedBacked, UsedUnlisted, CountsBounded

(* jbl_free and jbl_realloc give a small block back.                          *)
LEMMA FreeSmallKeeps ==
  ASSUME HeapInv, Up, pc.op # "reclaim", pc'.op # "reclaim", NEW a \in Live, NEW t \in Bin,
         IsSmallOf(t, a), FreeSmall(a), Forget(a)
  PROVE  KeepsHeap({})
<1>1. /\ PageInv /\ HeapTypeOK /\ Sound(Used) /\ HugeApart /\ a \in Addr
      /\ slot \in [Bin -> Seq(Addr)] /\ huge_list \subseteq HugeType
  BY DEF HeapInv, HeapTypeOK, HugeType
<1>2. a \in Used /\ a \notin Headers
  BY <1>1 DEF Used, IsSmallOf, HugeApart
<1> PICK U : U = Used
  OBVIOUS
<1>3. /\ slot' = [slot EXCEPT ![t] = <<a>> \o @] /\ UNCHANGED pageVars
      /\ huge_list' = huge_list /\ Live' = Live \ {a}
  BY DEF IsSmallOf, FreeSmall, Forget, Live
<1>4. /\ Sound(U \ {a})' /\ slot' \in [Bin -> Seq(Addr)]
      /\ \A s \in runs : Untouched(s)
  <2>1. Sound(U) /\ a \in U /\ InSmallRun(t, a)
    BY <1>1, <1>2 DEF Sound, UsedBacked, UsedUnlisted, CountsBounded, IsSmallOf
  <2> QED BY <1>1, <1>3, <2>1, PushStep
<1>5. HugePtrs' = HugePtrs /\ Headers' = Headers /\ main' = main
  BY <1>3 DEF HugePtrs, Headers, pageVars
<1>6. Used' = U \ {a}
  BY <1>2, <1>3, <1>5 DEF Used
<1>7. Sound(Used)'
  BY <1>4, <1>6, SoundNext
<1>8. \A h \in Headers : InSmallRun(BinFor(HugeHeader), h)'
  <2>1. BinFor(HugeHeader) \in Bin /\ MarksSpread
    BY <1>1, BinForRight, MallocFastAssumption DEF Sound
  <2> QED BY <1>1, <1>4, <2>1, AllUntouched DEF HugeApart
<1>9. HugeApart'
  <2>1. HugePtrs' \subseteq Live' /\ Live' \cap Headers' = {}
    BY <1>1, <1>3, <1>5 DEF HugeApart, IsSmallOf
  <2>2. \A h \in Headers' : InSmallRun(BinFor(HugeHeader), h)'
    BY <1>5, <1>8
  <2> QED BY <1>1, <1>3, <1>5, <2>1, <2>2 DEF HugeApart
<1>10. [PageNext]_pageVars
  BY <1>3
<1>11. \A x \in Used : SameMark(x)
  BY <1>1, <1>4, MarksUntouched DEF Sound
<1> QED BY <1>1, <1>3, <1>4, <1>7, <1>9, <1>10, <1>11 DEF KeepsHeap, HugeKept

(* ... a large one ...                                                        *)
LEMMA FreeLargeKeeps ==
  ASSUME HeapInv, Up, pc.op # "reclaim", pc'.op # "reclaim", NEW a \in Live, NEW r \in runs,
         IsLargeAt(r, a), FreeLarge(a), Forget(a)
  PROVE  KeepsHeap({})
<1>1. /\ PageInv /\ HeapTypeOK /\ Sound(Used) /\ HugeApart /\ MarksSpread
      /\ slot \in [Bin -> Seq(Addr)] /\ huge_list \subseteq HugeType
  BY DEF HeapInv, HeapTypeOK, HugeType, Sound
<1>2. a \in Used /\ a \notin Headers /\ a = StartOf(r) /\ LargeRun(r)
  BY <1>1 DEF Used, IsLargeAt, HugeApart
<1> PICK U : U = Used
  OBVIOUS
<1>3. /\ slot' = slot /\ FreePage(r.c, r.i)
      /\ huge_list' = huge_list /\ Live' = Live \ {a}
  BY DEF IsLargeAt, FreeLarge, Forget, Live
<1>4. /\ Sound(U \ {a})' /\ \A s \in runs : s # r => Untouched(s)
  <2>1. Sound(U)
    BY <1>1 DEF Sound, UsedBacked, UsedUnlisted, CountsBounded
  <2> QED BY <1>1, <1>2, <1>3, <2>1, FreeLargeStep
<1>5. HugePtrs' = HugePtrs /\ Headers' = Headers /\ main' = main
  BY <1>3 DEF HugePtrs, Headers, FreePage
<1>6. Used' = U \ {a}
  BY <1>2, <1>3, <1>5 DEF Used
<1>7. Sound(Used)'
  BY <1>4, <1>6, SoundNext
<1>8. \A h \in Headers : InSmallRun(BinFor(HugeHeader), h)'
  <2> SUFFICES ASSUME NEW h \in Headers PROVE InSmallRun(BinFor(HugeHeader), h)'
    OBVIOUS
  <2>1. BinFor(HugeHeader) \in Bin
    BY BinForRight, MallocFastAssumption
  <2>2. PICK s \in runs : SmallRun(s, BinFor(HugeHeader)) /\ h \in BlocksOf(s, BinFor(HugeHeader))
    BY <1>1 DEF HugeApart, InSmallRun
  <2>3. s # r
    BY <1>2, <2>2 DEF SmallRun, LargeRun
  <2> QED BY <1>1, <1>4, <2>1, <2>2, <2>3, UntouchedRun
<1>9. HugeApart'
  <2>1. HugePtrs' \subseteq Live' /\ Live' \cap Headers' = {}
    BY <1>1, <1>3, <1>5 DEF HugeApart, IsLargeAt
  <2>2. \A h \in Headers' : InSmallRun(BinFor(HugeHeader), h)'
    BY <1>5, <1>8
  <2> QED BY <1>1, <1>3, <1>5, <2>1, <2>2 DEF HugeApart
<1>10. [PageNext]_pageVars
  BY <1>3 DEF PageNext
<1>11. \A x \in Used \cap Used' : SameMark(x)
  <2>1. \A u \in Bin : ~ SmallRun(r, u)
    BY <1>2 DEF LargeRun, SmallRun
  <2>2. \A x \in Used' : x # StartOf(r)
    BY <1>2, <1>6
  <2> QED BY <1>1, <1>4, <2>1, <2>2, MarksElsewhere DEF Sound
<1> QED BY <1>1, <1>3, <1>7, <1>9, <1>10, <1>11 DEF KeepsHeap, HugeKept

(* ... or a huge one and its header.                                          *)
LEMMA FreeHugeKeeps ==
  ASSUME HeapInv, Up, pc.op # "reclaim", pc'.op # "reclaim", NEW a \in Live,
         a \in HugePtrs, FreeHuge(a), Forget(a)
  PROVE  KeepsHeap({})
<1> DEFINE t == BinFor(HugeHeader)
<1>1. /\ PageInv /\ HeapTypeOK /\ Sound(Used) /\ HugeApart /\ MarksSpread
      /\ slot \in [Bin -> Seq(Addr)] /\ huge_list \subseteq HugeType
  BY DEF HeapInv, HeapTypeOK, HugeType, Sound
<1>2. PICK g \in huge_list : g.ptr = a /\ HugeOf(a) = g
  BY <1>1 DEF HugePtrs, HugeApart, HugeOf
<1>3. t \in Bin
  BY BinForRight, MallocFastAssumption
<1> DEFINE h == g.this
<1>4. /\ h \in Headers /\ h \in Used /\ h \in Addr /\ InSmallRun(t, h) /\ h \notin Live
  BY <1>1, <1>2 DEF Headers, Used, HugeApart, HugeType
<1>5. MarkOf(h).val = t
  BY <1>1, <1>3, <1>4, InSmallRunFacts
<1> PICK U : U = Used
  OBVIOUS
<1>6. /\ slot' = [slot EXCEPT ![t] = <<h>> \o @] /\ UNCHANGED pageVars
      /\ huge_list' = huge_list \ {g} /\ Live' = Live \ {a}
  BY <1>2, <1>5 DEF FreeHuge, Forget, Live
<1> HIDE DEF t, h
<1>7. /\ Sound(U \ {h})' /\ slot' \in [Bin -> Seq(Addr)]
      /\ \A s \in runs : Untouched(s)
  <2>1. Sound(U) /\ h \in U
    BY <1>1, <1>4 DEF Sound, UsedBacked, UsedUnlisted, CountsBounded
  <2> QED BY <1>1, <1>3, <1>4, <1>6, <2>1, PushStep
<1>8. HugePtrs' = HugePtrs \ {a} /\ Headers' = Headers \ {h} /\ main' = main
  <2>1. \A e \in huge_list : (e.ptr = a => e = g) /\ (e.this = h => e = g)
    BY <1>1, <1>2 DEF HugeApart, h
  <2>2. HugePtrs' = {e.ptr : e \in huge_list'} /\ Headers' = {e.this : e \in huge_list'}
    BY DEF HugePtrs, Headers
  <2>3. HugePtrs' = HugePtrs \ {a}
    BY <1>2, <1>6, <2>1, <2>2 DEF HugePtrs
  <2>4. Headers' = Headers \ {h}
    BY <1>2, <1>6, <2>1, <2>2 DEF Headers, h
  <2> QED BY <1>6, <2>3, <2>4 DEF pageVars
<1>9. Used' = U \ {h}
  BY <1>4, <1>6, <1>8 DEF Used
<1>10. Sound(Used)'
  BY <1>7, <1>9, SoundNext
<1>11. \A x \in Headers : InSmallRun(t, x)'
  BY <1>1, <1>3, <1>7, AllUntouched DEF HugeApart, t
<1>12. HugeApart'
  <2>1. HugePtrs' \subseteq Live' /\ Live' \cap Headers' = {}
    BY <1>1, <1>6, <1>8 DEF HugeApart
  <2>2. \A x \in Headers' : InSmallRun(BinFor(HugeHeader), x)'
    BY <1>8, <1>11 DEF t
  <2>3. huge_list' \subseteq huge_list
    BY <1>6
  <2> QED BY <1>1, <1>8, <2>1, <2>2, <2>3 DEF HugeApart
<1>13. [PageNext]_pageVars
  BY <1>6
<1>14. \A x \in Used : SameMark(x)
  BY <1>1, <1>7, MarksUntouched DEF Sound
<1>15. HugeKept
  BY <1>2, <1>6 DEF HugeKept
<1> QED BY <1>1, <1>6, <1>7, <1>10, <1>12, <1>13, <1>14, <1>15 DEF KeepsHeap

(* What __jbl_malloc_small does to the chunks.                                *)
LEMMA TakeSmallPages ==
  ASSUME PageInv, slot \in [Bin -> Seq(Addr)], MarksSpread, ListedBacked,
         NEW t \in Bin, NEW a, TakeSmall(t, a)
  PROVE  /\ [PageNext]_pageVars
         /\ a.c \in main' /\ main \subseteq main'
         /\ \A c \in HugeAreas : c \in main' => c \in main
<1>1. CASE slot[t] # <<>>
  <2>1. a = Head(slot[t]) /\ UNCHANGED pageVars
    BY <1>1 DEF TakeSmall
  <2>2. slot[t] \in Seq(Addr)
    OBVIOUS
  <2>3. Head(slot[t]) = slot[t][1] /\ 1 \in DOMAIN slot[t]
    BY <1>1, <2>2, PopList
  <2>4. a \in Listed(t)
    BY <2>1, <2>3 DEF Listed
  <2>5. a.c \in main
    BY <2>4, InSmallRunFacts DEF ListedBacked
  <2> QED BY <2>1, <2>5 DEF pageVars
<1>2. CASE slot[t] = <<>>
  <2>1. PICK r \in Places(BinPages[t]) : /\ r.c \notin HugeAreas
                                         /\ MallocPage(BinPages[t], SmallMark(t), r)
                                         /\ a = SmallBlock(r, t, BinCount[t] - 1)
    BY <1>2 DEF TakeSmall
  <2>2. BinPages[t] \in 1 .. (PageCount - 1) /\ SmallMark(t) \in PageMarks(BinPages[t])
    BY Geometry DEF PageMarks
  <2>3. main' = main \cup {r.c}
    BY <2>1, <2>2, MallocPageFacts
  <2>4. PageNext
    BY <2>1, <2>2 DEF PageNext
  <2>5. a.c = r.c
    BY <2>1 DEF SmallBlock
  <2> QED BY <2>1, <2>3, <2>4, <2>5
<1> QED BY <1>1, <1>2

(* Small and huge blocks: where the invariant speaks of what is in use.       *)
LEMMA HugeAfterTake ==
  ASSUME HugeApart, huge_list' = huge_list, main \subseteq main',
         \A c \in HugeAreas : c \in main' => c \in main,
         \A h \in Headers : InSmallRun(BinFor(HugeHeader), h)',
         NEW a, a \notin Headers, Live' = Live \cup {a}
  PROVE  HugeApart' /\ HugePtrs' = HugePtrs /\ Headers' = Headers
<1>1. HugePtrs' = HugePtrs /\ Headers' = Headers
  BY DEF HugePtrs, Headers
<1>2. \A g \in huge_list : g.ptr.c \in HugeAreas
  BY DEF HugeAreas
<1>3. \A h \in Headers' : InSmallRun(BinFor(HugeHeader), h)'
  BY <1>1
<1>4. HugePtrs' \subseteq Live' /\ Live' \cap Headers' = {}
  BY <1>1 DEF HugeApart
<1> QED BY <1>1, <1>2, <1>3, <1>4 DEF HugeApart

(* malloc_small for a caller: the block was nobody's and every other block    *)
(* stays.                                                                     *)
LEMMA MallocSmallKeeps ==
  ASSUME HeapInv, Up, pc.op # "reclaim", pc'.op # "reclaim", NEW t \in Bin, NEW a,
         TakeSmall(t, a), huge_list' = huge_list, Live' = Live \cup {a}
  PROVE  KeepsHeap({}) /\ a \in Addr /\ a \notin Live
<1>1. /\ PageInv /\ HeapTypeOK /\ Sound(Used) /\ HugeApart /\ MarksSpread /\ ListedBacked
      /\ slot \in [Bin -> Seq(Addr)] /\ huge_list \subseteq HugeType
  BY DEF HeapInv, HeapTypeOK, HugeType, Sound
<1> PICK U : U = Used
  OBVIOUS
<1>2. /\ Sound(U \cup {a})' /\ slot' \in [Bin -> Seq(Addr)]
      /\ a \in Addr /\ a \notin U /\ \A s \in runs : Untouched(s)
  <2>1. Sound(U)
    BY <1>1 DEF Sound, UsedBacked, UsedUnlisted, CountsBounded
  <2> QED BY <1>1, <2>1, TakeSmallStep
<1>3. /\ [PageNext]_pageVars /\ a.c \in main' /\ main \subseteq main'
      /\ \A c \in HugeAreas : c \in main' => c \in main
  BY <1>1, TakeSmallPages
<1>4. a \notin Headers /\ a \notin HugePtrs
  <2>1. \A g \in huge_list : g.ptr.c \in HugeAreas /\ g.ptr.c \notin main
    BY <1>1 DEF HugeAreas, HugeApart
  <2> QED BY <1>2, <1>3, <2>1 DEF Used, HugePtrs
<1>5. \A h \in Headers : InSmallRun(BinFor(HugeHeader), h)'
  <2>1. BinFor(HugeHeader) \in Bin
    BY BinForRight, MallocFastAssumption
  <2> QED BY <1>1, <1>2, <2>1, AllUntouched DEF HugeApart
<1>6. HugeApart' /\ HugePtrs' = HugePtrs /\ Headers' = Headers
  BY <1>1, <1>3, <1>4, <1>5, HugeAfterTake
<1>7. Used' = U \cup {a}
  BY <1>4, <1>6 DEF Used
<1>8. Sound(Used)'
  BY <1>2, <1>7, SoundNext
<1>9. \A x \in Used : SameMark(x)
  BY <1>1, <1>2, MarksUntouched DEF Sound
<1> QED BY <1>4, <1>1, <1>2, <1>3, <1>6, <1>8, <1>9 DEF KeepsHeap, HugeKept, Used

(* A large malloc: its run starts at a block nobody has. *)
LEMMA MallocLargeKeeps ==
  ASSUME HeapInv, Up, pc.op # "reclaim", pc'.op # "reclaim",
         NEW nums \in 1 .. (PageCount - 1), NEW r \in Places(nums), r.c \notin HugeAreas,
         MallocPage(nums, LargeMark(nums), r), slot' = slot, huge_list' = huge_list,
         NEW a, a = StartOf(r), Live' = Live \cup {a}
  PROVE  KeepsHeap({}) /\ a \in Addr /\ a \notin Live
<1>1. /\ PageInv /\ HeapTypeOK /\ Sound(Used) /\ HugeApart
      /\ slot \in [Bin -> Seq(Addr)] /\ huge_list \subseteq HugeType
  BY DEF HeapInv, HeapTypeOK, HugeType
<1> PICK U : U = Used
  OBVIOUS
<1>2. /\ Sound(U \cup {a})' /\ a \in Addr /\ a \notin U /\ \A s \in runs : Untouched(s)
  <2>1. Sound(U)
    BY <1>1 DEF Sound, UsedBacked, UsedUnlisted, CountsBounded
  <2> QED BY <1>1, <2>1, TakeLargeStep
<1>3. LargeMark(nums) \in PageMarks(nums)
  BY DEF PageMarks
<1>4. main' = main \cup {r.c} /\ a.c = r.c
  BY <1>1, <1>3, MallocPageFacts DEF StartOf
<1>5. [PageNext]_pageVars
  BY <1>3 DEF PageNext
<1>6. a \notin Headers /\ a \notin HugePtrs
  <2>1. \A g \in huge_list : g.ptr.c \in HugeAreas
    BY DEF HugeAreas
  <2> QED BY <1>2, <1>4, <2>1 DEF Used, HugePtrs
<1>7. \A h \in Headers : InSmallRun(BinFor(HugeHeader), h)'
  <2>1. BinFor(HugeHeader) \in Bin /\ MarksSpread
    BY <1>1, BinForRight, MallocFastAssumption DEF Sound
  <2> QED BY <1>1, <1>2, <2>1, AllUntouched DEF HugeApart
<1>8. HugeApart' /\ HugePtrs' = HugePtrs /\ Headers' = Headers
  BY <1>1, <1>4, <1>6, <1>7, HugeAfterTake
<1>9. Used' = U \cup {a}
  BY <1>6, <1>8 DEF Used
<1>10. Sound(Used)'
  BY <1>2, <1>9, SoundNext
<1>11. \A x \in Used : SameMark(x)
  BY <1>1, <1>2, MarksUntouched DEF Sound
<1> QED BY <1>6, <1>1, <1>2, <1>5, <1>8, <1>10, <1>11 DEF KeepsHeap, HugeKept, Used

(* A huge malloc: a fresh area and a header block, neither of them anybody's. *)
LEMMA MallocHugeKeeps ==
  ASSUME HeapInv, Up, pc.op # "reclaim", pc'.op # "reclaim", NEW sz \in Sizes, sz > LargeMax,
         NEW a \in HugeOffers, MallocHuge(sz, a), Live' = Live \cup {a}
  PROVE  KeepsHeap({}) /\ a \in Addr /\ a \notin Live
<1> DEFINE t == BinFor(HugeHeader)
           bytes == RoundUp(sz) * PageBytes
<1>1. /\ PageInv /\ HeapTypeOK /\ Sound(Used) /\ HugeApart /\ MarksSpread /\ ListedBacked
      /\ slot \in [Bin -> Seq(Addr)] /\ huge_list \subseteq HugeType /\ Live \subseteq Addr
  BY DEF HeapInv, HeapTypeOK, HugeType, Sound
<1>2. PICK h : /\ TakeSmall(t, h) /\ a.c \notin main'
               /\ huge_list' = huge_list \cup {[ptr |-> a, size |-> bytes, this |-> h]}
  BY DEF MallocHuge
<1>3. t \in Bin
  BY BinForRight, MallocFastAssumption
<1>4. bytes \in Nat /\ bytes > LargeMax
  BY RoundUpRight, MallocFastAssumption
<1>5. a.o = 0 /\ a.c \notin HugeAreas /\ a \in Addr
  <2>1. PICK c \in Region : a = [c |-> c, o |-> 0] /\ c \notin HugeAreas
    BY DEF HugeOffers
  <2>2. 0 \in 0 .. (ChunkBytes - 1)
    <3>1. PageBytes \in Nat /\ PageBytes > 0 /\ BitLimit \in Nat /\ BitLimit > 1
          /\ ChunkBytes = BitLimit * PageBytes
      BY Geometry
    <3>2. 1 * PageBytes <= BitLimit * PageBytes /\ BitLimit * PageBytes \in Nat
      BY <3>1, MulOrder
    <3> QED BY <3>1, <3>2
  <2> QED BY <2>1, <2>2 DEF Addr
<1> PICK U : U = Used
  OBVIOUS
<1> HIDE DEF t, bytes
<1>6. /\ Sound(U \cup {h})' /\ slot' \in [Bin -> Seq(Addr)]
      /\ h \in Addr /\ h \notin U /\ InSmallRun(t, h)' /\ \A s \in runs : Untouched(s)
  <2>1. Sound(U)
    BY <1>1 DEF Sound, UsedBacked, UsedUnlisted, CountsBounded
  <2> QED BY <1>1, <1>2, <1>3, <2>1, TakeSmallStep
<1>7. /\ [PageNext]_pageVars /\ h.c \in main' /\ main \subseteq main'
      /\ \A c \in HugeAreas : c \in main' => c \in main
  BY <1>1, <1>2, <1>3, TakeSmallPages
<1>8. \A g \in huge_list : g.ptr.c \in HugeAreas /\ g.ptr.c \notin main /\ g.ptr.c \notin main'
  BY <1>1, <1>7 DEF HugeAreas, HugeApart
<1>9. \A x \in U : x.c \in main'
  <2>1. \A x \in U : StartsLargeRun(x) \/ \E u \in Bin : InSmallRun(u, x)
    BY <1>1 DEF Sound, UsedBacked
  <2> QED BY <1>1, <1>7, <2>1, InSmallRunFacts, LargeStartFacts
<1>10. a \notin Live /\ a \notin HugePtrs /\ a \notin Headers /\ a # h
  BY <1>2, <1>5, <1>7, <1>8, <1>9 DEF Used, HugePtrs
<1>11. h \notin Live /\ h \notin Headers
  BY <1>6, <1>7, <1>8 DEF Used, HugePtrs
<1>12. HugePtrs' = HugePtrs \cup {a} /\ Headers' = Headers \cup {h}
  <2> DEFINE e == [ptr |-> a, size |-> bytes, this |-> h]
  <2>1. e.ptr = a /\ e.this = h /\ huge_list' = huge_list \cup {e}
    BY <1>2
  <2> HIDE DEF e
  <2>2. HugePtrs' = {g.ptr : g \in huge_list \cup {e}} /\ Headers' = {g.this : g \in huge_list \cup {e}}
    BY <2>1 DEF HugePtrs, Headers
  <2>3. HugePtrs' = HugePtrs \cup {a}
    BY <2>1, <2>2 DEF HugePtrs
  <2>4. Headers' = Headers \cup {h}
    BY <2>1, <2>2 DEF Headers
  <2> QED BY <2>3, <2>4
<1>13. Used' = U \cup {h}
  BY <1>10, <1>12 DEF Used
<1>14. Sound(Used)'
  BY <1>6, <1>13, SoundNext
<1>15. \A x \in Headers' : InSmallRun(BinFor(HugeHeader), x)'
  <2>1. \A x \in Headers : InSmallRun(t, x)'
    BY <1>1, <1>3, <1>6, AllUntouched DEF HugeApart, t
  <2> QED BY <1>6, <1>12, <2>1 DEF t
<1>16. HugeApart'
  <2> DEFINE e == [ptr |-> a, size |-> bytes, this |-> h]
  <2>1. \A g \in huge_list : g.ptr # a /\ g.this # h
    BY <1>10, <1>11 DEF HugePtrs, Headers
  <2>2. e.ptr = a /\ e.this = h /\ e.size = bytes /\ huge_list' = huge_list \cup {e}
    BY <1>2
  <2> HIDE DEF e
  <2>3. \A f, g \in huge_list' : f.ptr = g.ptr \/ f.this = g.this => f = g
    BY <1>1, <2>1, <2>2 DEF HugeApart
  <2>4. \A g \in huge_list' : g.ptr.o = 0 /\ g.ptr.c \notin main' /\ g.size > LargeMax
    BY <1>1, <1>2, <1>4, <1>5, <1>8, <2>2 DEF HugeApart
  <2>5. HugePtrs' \subseteq Live' /\ Live' \cap Headers' = {}
    BY <1>1, <1>10, <1>11, <1>12 DEF HugeApart
  <2> QED BY <1>15, <2>3, <2>4, <2>5 DEF HugeApart
<1>17. huge_list' \subseteq HugeType
  BY <1>1, <1>2, <1>4, <1>5, <1>6 DEF HugeType
<1>18. \A x \in Used : SameMark(x)
  BY <1>1, <1>6, MarksUntouched DEF Sound
<1>19. HugeKept
  <2> DEFINE e == [ptr |-> a, size |-> bytes, this |-> h]
  <2>1. e.ptr = a /\ huge_list' = huge_list \cup {e}
    BY <1>2
  <2> HIDE DEF e
  <2> QED BY <1>10, <2>1 DEF HugeKept
<1> QED BY <1>5, <1>6, <1>7, <1>10, <1>14, <1>16, <1>17, <1>18, <1>19 DEF KeepsHeap

(* jbl_malloc, whatever the size.                                             *)
LEMMA MallocBlockKeeps ==
  ASSUME HeapInv, Up, pc.op # "reclaim", pc'.op # "reclaim", NEW sz \in Sizes,
         NEW a \in Offers(sz), MallocBlock(sz, a), Holds(a, sz)
  PROVE  /\ KeepsHeap({}) /\ a \notin Live /\ Live' = Live \cup {a} /\ Live' \subseteq Addr
         /\ \A x \in Live' : asked'[x] \in Sizes
<1>1. Live' = Live \cup {a} /\ \A x \in Live' : asked'[x] \in Sizes
  BY DEF Holds, Live, HeapInv, HeapTypeOK
<1>2. sz \in Nat \ {0} /\ SmallMax \in Nat /\ sz \in Nat
  BY MallocFastAssumption, Geometry
<1>3. CASE sz <= SmallMax /\ MallocSmall(sz, a)
  <2>1. BinFor(sz) \in Bin
    BY <1>2, <1>3, BinForRight
  <2>2. TakeSmall(BinFor(sz), a) /\ huge_list' = huge_list
    BY <1>3 DEF MallocSmall
  <2>3. KeepsHeap({}) /\ a \in Addr /\ a \notin Live
    BY <1>1, <2>1, <2>2, MallocSmallKeeps
  <2> QED BY <1>1, <2>3 DEF HeapInv, HeapTypeOK
<1>4. CASE SmallMax < sz /\ sz <= LargeMax /\ MallocLarge(sz, a)
  <2>1. RoundUp(sz) \in 1 .. (PageCount - 1)
    BY <1>2, <1>4, RoundUpRight
  <2>2. PICK r \in Places(RoundUp(sz)) :
          /\ r.c \notin HugeAreas /\ MallocPage(RoundUp(sz), LargeMark(RoundUp(sz)), r)
          /\ a = StartOf(r)
    BY <1>4 DEF MallocLarge, StartOf
  <2>3. slot' = slot /\ huge_list' = huge_list
    BY <1>4 DEF MallocLarge
  <2>4. KeepsHeap({}) /\ a \in Addr /\ a \notin Live
    BY <1>1, <2>1, <2>2, <2>3, MallocLargeKeeps
  <2> QED BY <1>1, <2>4 DEF HeapInv, HeapTypeOK
<1>5. CASE LargeMax < sz /\ MallocHuge(sz, a)
  <2>1. ~ (sz <= LargeMax) /\ ~ (sz <= SmallMax) /\ sz > LargeMax
    <3>1. SmallMax < LargeMax /\ LargeMax \in Int
      <4>1. PageCount - 1 \in 1 .. (PageCount - 1) /\ PageCount = BitLimit
            /\ LargeMax = (BitLimit - 1) * PageBytes /\ PageBytes \in Nat /\ BitLimit \in Nat
        BY Geometry
      <4>2. (PageCount - 1) * PageBytes > SmallMax /\ (PageCount - 1) * PageBytes \in Nat
        BY <4>1, RunSize
      <4> QED BY <4>1, <4>2, <1>2
    <3> QED BY <1>2, <1>5, <3>1
  <2>2. a \in HugeOffers
    BY <2>1 DEF Offers
  <2>3. KeepsHeap({}) /\ a \in Addr /\ a \notin Live
    BY <1>1, <1>5, <2>1, <2>2, MallocHugeKeeps
  <2> QED BY <1>1, <2>3 DEF HeapInv, HeapTypeOK
<1> QED BY <1>3, <1>4, <1>5 DEF MallocBlock

(* jbl_realloc of a large block that grows where it is.                       *)
LEMMA ReallocInPlaceKeeps ==
  ASSUME HeapInv, Up, NEW a \in Live, NEW sz \in Sizes, ReallocInPlace(a, sz)
  PROVE  KeepsHeap({a}) /\ Live' = Live /\ MallocSize(a) <= MallocSize(a)'
<1> DEFINE nums == ReallocPages(sz)
<1>1. /\ PageInv /\ HeapTypeOK /\ Sound(Used) /\ HugeApart /\ MarksSpread
      /\ slot \in [Bin -> Seq(Addr)] /\ huge_list \subseteq HugeType
  BY DEF HeapInv, HeapTypeOK, HugeType, Sound
<1>2. /\ pc = Idle /\ pc' = Idle /\ MallocSize(a) <= sz /\ InPlace(a, sz)
      /\ GrowPages(a.c, PageOf(a), nums) /\ slot' = slot /\ huge_list' = huge_list
  BY DEF ReallocInPlace
<1>3. pc.op # "reclaim" /\ pc'.op # "reclaim"
  BY <1>2 DEF Idle
<1>4. SmallMax < MallocSize(a) /\ MallocSize(a) <= LargeMax
  BY <1>2 DEF InPlace, IsLarge
<1>5. PICK r \in runs : IsLargeAt(r, a)
  BY <1>4, BlockKinds DEF IsHuge, IsSmallOf
<1>6. LargeRun(r) /\ a.c = r.c /\ PageOf(a) = r.i /\ r.n * PageBytes <= sz
  BY <1>2, <1>5 DEF IsLargeAt
<1>7. nums \in 1 .. (PageCount - 1) /\ r.n <= nums
  <2>1. /\ r.n \in Nat /\ r.n > 0 /\ r.i \in Nat /\ r.i > 0 /\ map[r.c][r.i].val = r.n
        /\ PageCount = BitLimit /\ BitLimit \in Nat /\ PageBytes \in Nat \ {0} /\ sz \in Nat
    BY <1>1, <1>6, RunShape, RunKind, Geometry, MallocFastAssumption
  <2>2. sz \div PageBytes \in Nat /\ r.n <= sz \div PageBytes
    BY <1>6, <2>1, DivRange, DivBounds
  <2> DEFINE d == sz \div PageBytes
             extra == IF sz % RoundMask # 0 THEN 1 ELSE 0
  <2>3. nums = extra + d /\ extra \in {0, 1}
    BY DEF ReallocPages
  <2> HIDE DEF nums, d, extra
  <2>4. nums \in Nat /\ r.n <= nums
    BY <2>1, <2>2, <2>3 DEF d
  <2>5. ZeroesUpTo(fmap[r.c], r.i + r.n, r.i + nums)
    BY <1>2, <1>6, <2>1 DEF GrowPages, CanGrow, nums
  <2>6. r.i + nums <= BitLimit
    BY <2>5 DEF ZeroesUpTo
  <2> QED BY <2>1, <2>4, <2>6
<1>8. GrowPages(r.c, r.i, nums)
  BY <1>2, <1>6
<1> HIDE DEF nums
<1> PICK U : U = Used
  OBVIOUS
<1>9. /\ Sound(U)' /\ \A s \in runs : s # r => Untouched(s)
      /\ \A u \in Bin : \A x : InSmallRun(u, x) => InSmallRun(u, x)'
  <2>1. Sound(U)
    BY <1>1 DEF Sound, UsedBacked, UsedUnlisted, CountsBounded
  <2> QED BY <1>1, <1>2, <1>3, <1>6, <1>7, <1>8, <2>1, GrowStep
<1>10. Live' = Live
  BY DEF ReallocInPlace, Live
<1>11. HugePtrs' = HugePtrs /\ Headers' = Headers /\ main' = main
  BY <1>2 DEF HugePtrs, Headers, GrowPages
<1>12. Used' = U
  BY <1>10, <1>11 DEF Used
<1>13. Sound(Used)'
  BY <1>9, <1>12, SoundNext
<1>14. HugeApart'
  <2>1. BinFor(HugeHeader) \in Bin
    BY BinForRight, MallocFastAssumption
  <2>2. \A h \in Headers' : InSmallRun(BinFor(HugeHeader), h)'
    BY <1>1, <1>9, <1>11, <2>1 DEF HugeApart
  <2> QED BY <1>1, <1>2, <1>10, <1>11, <2>2 DEF HugeApart
<1>15. [PageNext]_pageVars
  BY <1>6, <1>7, <1>8 DEF PageNext, LargeRun
<1>16. \A x \in Used \ {a} : SameMark(x)
  <2>1. \A u \in Bin : ~ SmallRun(r, u)
    BY <1>6 DEF LargeRun, SmallRun
  <2>2. a = StartOf(r)
    BY <1>5 DEF IsLargeAt
  <2> QED BY <1>1, <1>9, <2>1, <2>2, MarksElsewhere DEF Sound
<1>17. MallocSize(a) <= MallocSize(a)'
  <2>1. MallocSize(a) = r.n * PageBytes /\ a \notin HugePtrs'
    BY <1>5, <1>11 DEF IsLargeAt
  <2> PICK q : q = [c |-> r.c, i |-> r.i, n |-> nums]
    OBVIOUS
  <2>2. /\ r.n \in Nat /\ r.i \in Nat /\ nums \in Nat /\ nums > 0 /\ PageBytes \in Nat
        /\ r.i \in RunPages(q)
    BY <1>1, <1>7, RunShape, Geometry DEF RunPages
  <2>3. map'[r.c][r.i] = [LargeMark(nums) EXCEPT !.off = r.i - q.i]
    BY <1>1, <1>6, <1>7, <1>8, <2>2, GrowPagesFacts
  <2>4. MarkOf(a)' = map'[r.c][r.i]
    BY <1>6 DEF MarkOf, PageOf
  <2>5. MallocSize(a)' = nums * PageBytes
    BY <2>1, <2>3, <2>4 DEF MallocSize, LargeMark
  <2>6. r.n * PageBytes <= nums * PageBytes
    BY <1>7, <2>2, MulOrder
  <2> QED BY <2>1, <2>5, <2>6
<1> QED BY <1>1, <1>2, <1>10, <1>13, <1>14, <1>15, <1>16, <1>17 DEF KeepsHeap, HugeKept

(* The steps of __jbl_free_smalls.                                            *)
LEMMA ReclaimKeeps ==
  ASSUME HeapInv, Up, NEW t \in Bin, NEW k \in 0 .. Len(slot[t]), pc = Reclaiming(t, k),
         ReclaimStep
  PROVE  /\ KeepsHeap({}) /\ asked' = asked
         /\ pc' = Idle \/ \E u \in Bin : \E j \in 0 .. Len(slot'[u]) : pc' = Reclaiming(u, j)
<1>1. /\ PageInv /\ HeapTypeOK /\ Sound(Used) /\ HugeApart
      /\ slot \in [Bin -> Seq(Addr)] /\ huge_list \subseteq HugeType
  BY DEF HeapInv, HeapTypeOK, HugeType
<1> PICK U : U = Used
  OBVIOUS
<1>2. Sound(U)
  BY <1>1 DEF Sound, UsedBacked, UsedUnlisted, CountsBounded
<1> DEFINE Walks == /\ Sound(U)' /\ slot' \in [Bin -> Seq(Addr)] /\ PageNext
                    /\ pc' = Idle \/ \E u \in Bin : \E j \in 0 .. Len(slot'[u]) :
                                        pc' = Reclaiming(u, j)
                    /\ \A u \in Bin : \A x \in U : InSmallRun(u, x) => InSmallRun(u, x)'
                    /\ main' = main /\ \A x \in U : SameMark(x)
<1>3. ASSUME ReclaimCount PROVE Walks
  <2>1. slot' = slot /\ CountFreed /\ main' = main
    BY <1>3 DEF ReclaimCount, CountFreed
  <2>2. /\ Sound(U)' /\ k + 1 \in 0 .. Len(slot[t]) /\ pc' = Reclaiming(t, k + 1)
        /\ \A u \in Bin : \A x : InSmallRun(u, x) => InSmallRun(u, x)'
    BY <1>1, <1>2, <1>3, ReclaimCountStep
  <2>3. \E u \in Bin : \E j \in 0 .. Len(slot'[u]) : pc' = Reclaiming(u, j)
    BY <2>1, <2>2
  <2>4. \A x \in U : SameMark(x)
    BY <1>1, <1>2, <2>1, MarksCounted DEF Sound
  <2> QED BY <1>1, <2>1, <2>2, <2>3, <2>4 DEF PageNext
<1>4. ASSUME ReclaimRun PROVE Walks
  <2>1. /\ Sound(U)' /\ slot' \in [Bin -> Seq(Addr)]
        /\ \E j \in 0 .. Len(slot'[t]) : pc' = Reclaiming(t, j)
        /\ \E r \in runs : FreePage(r.c, r.i)
        /\ \A x \in U : SameMark(x)
        /\ \A u \in Bin : \A x \in U : InSmallRun(u, x) => InSmallRun(u, x)'
    BY <1>1, <1>2, <1>4, ReclaimRunStep
  <2>2. main' = main
    BY <2>1 DEF FreePage
  <2> QED BY <2>1, <2>2 DEF PageNext
<1>5. ASSUME ReclaimNextBin PROVE Walks
  <2>1. slot' = slot /\ CountFreed /\ main' = main
    BY <1>5 DEF ReclaimNextBin, CountFreed
  <2>2. /\ Sound(U)'
        /\ pc' = Idle \/ \E u \in Bin : pc' = Reclaiming(u, 0)
        /\ \A u \in Bin : \A x : InSmallRun(u, x) => InSmallRun(u, x)'
    BY <1>1, <1>2, <1>5, ReclaimNextBinStep
  <2>3. \A u \in Bin : 0 \in 0 .. Len(slot'[u])
    <3>1. \A u \in Bin : slot'[u] \in Seq(Addr)
      BY <1>1, <2>1
    <3>2. \A u \in Bin : Len(slot'[u]) \in Nat
      BY <3>1, LenProperties
    <3> QED BY <3>2
  <2>4. pc' = Idle \/ \E u \in Bin : \E j \in 0 .. Len(slot'[u]) : pc' = Reclaiming(u, j)
    BY <2>2, <2>3
  <2>5. \A x \in U : SameMark(x)
    BY <1>1, <1>2, <2>1, MarksCounted DEF Sound
  <2> QED BY <1>1, <2>1, <2>2, <2>4, <2>5 DEF PageNext
<1>6. Walks
  BY <1>3, <1>4, <1>5 DEF ReclaimStep
<1>7. huge_list' = huge_list /\ asked' = asked
  BY DEF ReclaimStep, ReclaimCount, ReclaimRun, ReclaimNextBin
<1>8. HugePtrs' = HugePtrs /\ Headers' = Headers /\ Live' = Live
  BY <1>7 DEF HugePtrs, Headers, Live
<1>9. Used' = U
  BY <1>8 DEF Used
<1>10. Sound(Used)'
  BY <1>6, <1>9, SoundNext
<1>11. HugeApart'
  <2>1. BinFor(HugeHeader) \in Bin
    BY BinForRight, MallocFastAssumption
  <2>2. Headers \subseteq U
    BY DEF Used
  <2>3. \A h \in Headers' : InSmallRun(BinFor(HugeHeader), h)'
    BY <1>1, <1>6, <1>8, <2>1, <2>2 DEF HugeApart
  <2> QED BY <1>1, <1>6, <1>7, <1>8, <2>3 DEF HugeApart
<1> QED BY <1>1, <1>6, <1>7, <1>10, <1>11 DEF KeepsHeap, HugeKept

(* Steps that change neither the slot lists nor a run.                        *)
LEMMA QuietKeeps ==
  ASSUME HeapInv, Up, slot' = slot, map' = map, runs' = runs, main' \subseteq main,
         huge_list' = huge_list, Live' = Live, [PageNext]_pageVars,
         \A u \in Bin : Ahead(u)' \subseteq Ahead(u)
  PROVE  KeepsHeap({})
<1>1. /\ PageInv /\ HeapTypeOK /\ Sound(Used) /\ HugeApart /\ MarksSpread
      /\ slot \in [Bin -> Seq(Addr)] /\ huge_list \subseteq HugeType
  BY DEF HeapInv, HeapTypeOK, HugeType, Sound
<1> PICK U : U = Used
  OBVIOUS
<1>2. Sound(U)' /\ \A s \in runs : Untouched(s)
  <2>1. Sound(U)
    BY <1>1 DEF Sound, UsedBacked, UsedUnlisted, CountsBounded
  <2> QED BY <1>1, <2>1, QuietStep
<1>3. HugePtrs' = HugePtrs /\ Headers' = Headers
  BY DEF HugePtrs, Headers
<1>4. Sound(Used)'
  <2>1. Used' = U
    BY <1>3 DEF Used
  <2> QED BY <1>2, <2>1, SoundNext
<1>5. HugeApart'
  <2>1. BinFor(HugeHeader) \in Bin
    BY BinForRight, MallocFastAssumption
  <2>2. \A h \in Headers' : InSmallRun(BinFor(HugeHeader), h)'
    BY <1>1, <1>2, <1>3, <2>1, AllUntouched DEF HugeApart
  <2> QED BY <1>1, <1>3, <2>2 DEF HugeApart
<1>6. \A x \in Used : SameMark(x)
  BY <1>1, <1>2, MarksUntouched DEF Sound
<1> QED BY <1>1, <1>4, <1>5, <1>6 DEF KeepsHeap, HugeKept

-----------------------------------------------------------------------------
(* The invariant, and what follows from it. *)

(* What is left of HeapInv when a step is known to keep the rest.             *)
CallsTyped ==
  /\ Live' \subseteq Addr /\ \A a \in Live' : asked'[a] \in Sizes
  /\ \/ pc' \in {Idle, Stopping, Stopped}
     \/ \E a \in Live' : pc' = Moving(a)
     \/ \E t \in Bin : \E k \in 0 .. Len(slot'[t]) : pc' = Reclaiming(t, k)

(* What a step owes: it keeps the heap sound and the call in progress typed. *)
LEMMA HeapInvKept ==
  ASSUME HeapInv, NEW G, KeepsHeap(G), CallsTyped
  PROVE  HeapInv' /\ [PageNext]_pageVars
<1>3. [PageNext]_pageVars /\ Sound(Used)' /\ HugeApart'
  BY DEF KeepsHeap
<1>1. PageInv'
  BY <1>3, PageInvNext DEF HeapInv
<1>4. slot' \in [Bin -> Seq(Addr)] /\ huge_list' \subseteq HugeType
  BY DEF KeepsHeap
<1>2. HeapTypeOK'
  BY <1>4 DEF CallsTyped, HeapTypeOK, HugeType, Live, Idle, Stopping, Stopped, Moving,
         Reclaiming
<1> QED BY <1>1, <1>2, <1>3 DEF HeapInv

(* At the start there is no block at all. *)
LEMMA HeapInvInit == Init => HeapInv
<1> SUFFICES ASSUME Init PROVE HeapInv
  OBVIOUS
<1>1. PageInv
  BY PageInvInit DEF Init
<1>2. /\ slot = [t \in Bin |-> <<>>] /\ huge_list = {} /\ Live = {} /\ pc = Idle /\ runs = {}
  BY DEF Init, PageInit, Live
<1>3. \A t \in Bin : slot[t] \in Seq(Addr) /\ Listed(t) = {} /\ DOMAIN slot[t] = {}
  BY <1>2 DEF Listed
<1>4. slot \in [Bin -> Seq(Addr)]
  BY <1>2
<1>5. HeapTypeOK
  BY <1>2, <1>4 DEF HeapTypeOK
<1>6. HugePtrs = {} /\ Headers = {} /\ Used = {}
  BY <1>2 DEF HugePtrs, Headers, Used
<1>7. Sound(Used)
  BY <1>2, <1>3, <1>6 DEF Sound, MarksSpread, ListedBacked, ListedOnce, UsedBacked,
                          UsedUnlisted, CountsBounded
<1>8. HugeApart
  BY <1>2, <1>6 DEF HugeApart
<1> QED BY <1>1, <1>5, <1>7, <1>8 DEF HeapInv

(* jbl_free of a held block, by each of its three branches. *)
LEMMA FreeStep ==
  ASSUME HeapInv, Up, NEW a \in Live, Free(a)
  PROVE  KeepsHeap({}) /\ CallsTyped
<1>1. pc = Idle /\ pc' = Idle /\ Forget(a) /\ pc.op # "reclaim" /\ pc'.op # "reclaim"
  BY DEF Free, Idle
<1>2. ASSUME IsHuge(a) PROVE KeepsHeap({})
  BY <1>1, <1>2, FreeHugeKeeps DEF Free, IsHuge
<1>3. ASSUME NEW t \in Bin, IsSmallOf(t, a)
      PROVE  KeepsHeap({})
  BY <1>1, <1>3, FreeSmallKeeps DEF Free, IsSmallOf
<1>4. ASSUME NEW r \in runs, IsLargeAt(r, a)
      PROVE  KeepsHeap({})
  BY <1>1, <1>4, FreeLargeKeeps DEF Free, IsLargeAt
<1>5. KeepsHeap({})
  BY <1>2, <1>3, <1>4, BlockKinds
<1>6. CallsTyped
  BY <1>1 DEF CallsTyped, HeapInv, HeapTypeOK, Forget, Live
<1> QED BY <1>5, <1>6

(* The end of a moving jbl_realloc frees the old block, which is still held. *)
LEMMA ReallocFreeOldStep ==
  ASSUME HeapInv, Up, ReallocFreeOld
  PROVE  KeepsHeap({}) /\ CallsTyped
<1> PICK a : a = pc.old
  OBVIOUS
<1>1. a \in Live
  BY DEF ReallocFreeOld, HeapInv, HeapTypeOK, Idle, Stopping, Stopped, Moving, Reclaiming
<1>2. pc' = Idle /\ Forget(a) /\ pc.op # "reclaim" /\ pc'.op # "reclaim"
  BY DEF ReallocFreeOld, Idle
<1>3. /\ MallocSize(a) <= SmallMax => FreeSmall(a)
      /\ ~ (MallocSize(a) <= SmallMax) /\ MallocSize(a) <= LargeMax => FreeLarge(a)
      /\ ~ (MallocSize(a) <= SmallMax) /\ ~ (MallocSize(a) <= LargeMax) => FreeHuge(a)
  BY DEF ReallocFreeOld
<1>4. MallocSize(a) \in Nat /\ SmallMax \in Nat /\ LargeMax \in Nat
  BY <1>1, BlockKinds
<1>5. CASE IsHuge(a)
  <2>1. FreeHuge(a)
    BY <1>3, <1>4, <1>5 DEF IsHuge
  <2> QED BY <1>1, <1>2, <1>5, <2>1, FreeHugeKeeps DEF IsHuge, CallsTyped, HeapInv, HeapTypeOK,
                                                       Forget, Live
<1>6. ASSUME NEW t \in Bin, IsSmallOf(t, a)
      PROVE  KeepsHeap({})
  BY <1>1, <1>2, <1>3, <1>6, FreeSmallKeeps DEF IsSmallOf
<1>7. ASSUME NEW r \in runs, IsLargeAt(r, a)
      PROVE  KeepsHeap({})
  <2>1. FreeLarge(a)
    BY <1>3, <1>4, <1>7 DEF IsLargeAt
  <2> QED BY <1>1, <1>2, <1>7, <2>1, FreeLargeKeeps
<1>8. CallsTyped
  BY <1>2 DEF CallsTyped, HeapInv, HeapTypeOK, Forget, Live
<1> QED BY <1>1, <1>5, <1>6, <1>7, <1>8, BlockKinds

(* jbl_realloc that stays, grows in place, or takes a new block and remembers *)
(* the old.                                                                   *)
LEMMA ReallocStep ==
  ASSUME HeapInv, Up, NEW a \in Live, NEW sz \in Sizes, Realloc(a, sz)
  PROVE  (\E G : KeepsHeap(G)) /\ CallsTyped
<1>1. CASE ReallocKeep(a, sz)
  <2>1. /\ slot' = slot /\ UNCHANGED pageVars /\ huge_list' = huge_list /\ pc = Idle /\ pc' = Idle
        /\ asked' = [asked EXCEPT ![a] = sz]
    BY <1>1 DEF ReallocKeep
  <2>2. Live' = Live /\ \A x \in Live : asked'[x] \in Sizes
    BY <2>1 DEF Live, HeapInv, HeapTypeOK
  <2>3. \A u \in Bin : Ahead(u)' \subseteq Ahead(u)
    BY <2>1 DEF Ahead, Behind
  <2>4. KeepsHeap({})
    BY <2>1, <2>2, <2>3, QuietKeeps DEF pageVars
  <2> QED BY <2>1, <2>2, <2>4 DEF CallsTyped, HeapInv, HeapTypeOK
<1>2. CASE ReallocInPlace(a, sz)
  <2>1. KeepsHeap({a}) /\ Live' = Live
    BY <1>2, ReallocInPlaceKeeps
  <2>2. pc' = Idle /\ \A x \in Live : asked'[x] \in Sizes
    BY <1>2 DEF ReallocInPlace, Live, HeapInv, HeapTypeOK
  <2> QED BY <2>1, <2>2 DEF CallsTyped, HeapInv, HeapTypeOK
<1>3. CASE ReallocMove(a, sz)
  <2>1. PICK b \in Offers(sz) : MallocBlock(sz, b) /\ Holds(b, sz)
    BY <1>3 DEF ReallocMove
  <2>2. pc' = Moving(a) /\ pc.op # "reclaim" /\ pc'.op # "reclaim"
    BY <1>3 DEF ReallocMove, Idle, Moving
  <2>3. /\ KeepsHeap({}) /\ Live' = Live \cup {b} /\ Live' \subseteq Addr
        /\ \A x \in Live' : asked'[x] \in Sizes
    BY <2>1, <2>2, MallocBlockKeeps
  <2> QED BY <2>2, <2>3 DEF CallsTyped
<1> QED BY <1>1, <1>2, <1>3 DEF Realloc

(* One block of the walk of __jbl_free_smalls: counted, and perhaps its whole *)
(* run given back.                                                            *)
LEMMA ReclaimStepKeeps ==
  ASSUME HeapInv, Up, ReclaimStep
  PROVE  KeepsHeap({}) /\ CallsTyped
<1>1. pc.op = "reclaim"
  BY DEF ReclaimStep, ReclaimCount, ReclaimRun, ReclaimNextBin
<1>2. PICK t \in Bin : \E k \in 0 .. Len(slot[t]) : pc = Reclaiming(t, k)
  BY <1>1 DEF HeapInv, HeapTypeOK, Idle, Stopping, Stopped, Moving
<1>3. PICK k \in 0 .. Len(slot[t]) : pc = Reclaiming(t, k)
  BY <1>2
<1>4. /\ KeepsHeap({}) /\ asked' = asked
      /\ pc' = Idle \/ \E u \in Bin : \E j \in 0 .. Len(slot'[u]) : pc' = Reclaiming(u, j)
  BY <1>3, ReclaimKeeps
<1> QED BY <1>4 DEF CallsTyped, HeapInv, HeapTypeOK, Live

(* Calls that begin, and the chunk lists.                                     *)
LEMMA OtherSteps ==
  ASSUME HeapInv, Up, FreeSmalls \/ ReclaimChunks \/ ReleaseChunks \/ BeginStop
  PROVE  KeepsHeap({}) /\ CallsTyped
<1>1. /\ slot' = slot /\ huge_list' = huge_list /\ asked' = asked /\ map' = map /\ runs' = runs
      /\ main' \subseteq main /\ pc = Idle /\ pc' \in {Idle, Reclaiming(0, 0), Stopping}
      /\ [PageNext]_pageVars
  <2>1. CASE FreeSmalls \/ BeginStop
    BY <2>1 DEF FreeSmalls, BeginStop, pageVars
  <2>2. CASE ReclaimChunks
    BY <2>2 DEF ReclaimChunks, FreeChunks, PageNext, heapVars
  <2>3. CASE ReleaseChunks
    BY <2>3 DEF ReleaseChunks, FreeCachedChunks, PageNext
  <2> QED BY <2>1, <2>2, <2>3
<1>2. slot \in [Bin -> Seq(Addr)] /\ 0 \in Bin
  <2>1. Cardinality(Bin) \in Nat /\ Cardinality(Bin) # 0
    BY MallocFastAssumption, FS_CardinalityType, FS_EmptySet
  <2>2. 0 \in 0 .. (Cardinality(Bin) - 1)
    BY <2>1
  <2> QED BY <2>2, MallocFastAssumption DEF HeapInv, HeapTypeOK
<1>3. \A u \in Bin : Ahead(u)' \subseteq Ahead(u)
  <2>1. \A u \in Bin : Ahead(u) = Listed(u)
    BY <1>1, <1>2, AheadAll DEF Idle
  <2> SUFFICES ASSUME NEW u \in Bin, NEW x \in Ahead(u)' PROVE x \in Listed(u)
    BY <2>1
  <2>2. Behind(u)' = 0
    BY <1>1 DEF Behind, Idle, Reclaiming, Stopping
  <2>3. slot[u] \in Seq(Addr) /\ DOMAIN slot[u] = 1 .. Len(slot[u])
    BY <1>2
  <2>4. PICK j \in (0 + 1) .. Len(slot[u]) : x = slot[u][j]
    BY <1>1, <2>2 DEF Ahead
  <2> QED BY <2>3, <2>4 DEF Listed
<1>4. Live' = Live
  BY <1>1 DEF Live
<1>5. KeepsHeap({})
  BY <1>1, <1>3, <1>4, QuietKeeps
<1>6. 0 \in 0 .. Len(slot'[0])
  <2>1. slot[0] \in Seq(Addr)
    BY <1>2
  <2>2. Len(slot[0]) \in Nat
    BY <2>1, LenProperties
  <2> QED BY <1>1, <2>2
<1>7. CallsTyped
  BY <1>1, <1>2, <1>4, <1>6 DEF CallsTyped, HeapInv, HeapTypeOK
<1> QED BY <1>5, <1>7

(* jbl_malloc_stop leaves nothing that could be wrong. *)
LEMMA StopChunksStep ==
  ASSUME HeapInv, StopChunks
  PROVE  HeapInv' /\ [PageNext]_pageVars
<1>1. UnmapAll /\ slot' = slot /\ huge_list' = huge_list /\ Live' = {} /\ pc' = Stopped
  BY DEF StopChunks, Live
<1>2. [PageNext]_pageVars
  BY <1>1 DEF PageNext
<1>3. PageInv'
  BY <1>2, PageInvNext DEF HeapInv
<1>4. HeapTypeOK'
  BY <1>1 DEF HeapInv, HeapTypeOK
<1> QED BY <1>1, <1>2, <1>3, <1>4 DEF HeapInv, Up

(* Every step of the allocator keeps the invariant and is a step of the page  *)
(* layer or none.                                                             *)
LEMMA HeapInvNext ==
  ASSUME HeapInv, [Next]_vars
  PROVE  HeapInv' /\ [PageNext]_pageVars
<1>1. CASE UNCHANGED vars
  <2>1. UNCHANGED pageVars /\ UNCHANGED heapVars
    BY <1>1 DEF vars
  <2>2. PageInv'
    BY <2>1, PageStutter DEF HeapInv
  <2>3. HeapTypeOK'
    BY <2>1 DEF HeapInv, HeapTypeOK, heapVars, Live, Idle, Stopping, Stopped, Moving, Reclaiming
  <2>4. CASE Up
    <3>1. \A u \in Bin : Ahead(u)' \subseteq Ahead(u)
      BY <2>1 DEF heapVars, Ahead, Behind
    <3>2. KeepsHeap({})
      BY <2>1, <2>4, <3>1, QuietKeeps DEF heapVars, pageVars, Live
    <3> QED BY <2>1, <2>2, <2>3, <3>2 DEF HeapInv, KeepsHeap
  <2>5. CASE ~ Up
    BY <2>1, <2>2, <2>3, <2>5 DEF HeapInv, Up, heapVars
  <2> QED BY <2>4, <2>5
<1>2. CASE Next
  <2>1. Up
    BY <1>2 DEF Next, Up, Malloc, Free, Realloc, ReallocKeep, ReallocInPlace, ReallocMove,
         ReallocFreeOld, FreeSmalls, ReclaimStep, ReclaimCount, ReclaimRun, ReclaimNextBin,
         ReclaimChunks, ReleaseChunks, BeginStop, StopHuge, StopChunks,
         Idle, Stopping, Stopped
  <2>2. ASSUME NEW sz \in Sizes, Malloc(sz) PROVE KeepsHeap({}) /\ CallsTyped
    <3>1. PICK a \in Offers(sz) : MallocBlock(sz, a) /\ Holds(a, sz)
      BY <2>2 DEF Malloc
    <3>2. pc = Idle /\ pc' = Idle /\ pc.op # "reclaim" /\ pc'.op # "reclaim"
      BY <2>2 DEF Malloc, Idle
    <3>3. /\ KeepsHeap({}) /\ Live' \subseteq Addr /\ \A x \in Live' : asked'[x] \in Sizes
      BY <2>1, <3>1, <3>2, MallocBlockKeeps
    <3> QED BY <3>2, <3>3 DEF CallsTyped
  <2>3. ASSUME NEW a \in Live, Free(a) PROVE KeepsHeap({}) /\ CallsTyped
    BY <2>1, <2>3, FreeStep
  <2>4. ASSUME NEW a \in Live, NEW sz \in Sizes, Realloc(a, sz) PROVE (\E G : KeepsHeap(G)) /\ CallsTyped
    BY <2>1, <2>4, ReallocStep
  <2>5. ASSUME ReallocFreeOld PROVE KeepsHeap({}) /\ CallsTyped
    BY <2>1, <2>5, ReallocFreeOldStep
  <2>6. ASSUME ReclaimStep PROVE KeepsHeap({}) /\ CallsTyped
    BY <2>1, <2>6, ReclaimStepKeeps
  <2>7. ASSUME FreeSmalls \/ ReclaimChunks \/ ReleaseChunks \/ BeginStop
        PROVE  KeepsHeap({}) /\ CallsTyped
    BY <2>1, <2>7, OtherSteps
  <2>8. ASSUME StopHuge PROVE KeepsHeap({}) /\ CallsTyped
    <3>1. PICK g \in huge_list : FreeHuge(g.ptr) /\ Forget(g.ptr)
      BY <2>8 DEF StopHuge
    <3>2. g.ptr \in HugePtrs /\ g.ptr \in Live
      BY <2>1 DEF HeapInv, HugeApart, HugePtrs
    <3>3. pc = Stopping /\ pc' = Stopping /\ pc.op # "reclaim" /\ pc'.op # "reclaim"
      BY <2>8 DEF StopHuge, Stopping
    <3>4. KeepsHeap({})
      BY <2>1, <3>1, <3>2, <3>3, FreeHugeKeeps
    <3> QED BY <3>1, <3>3, <3>4 DEF CallsTyped, HeapInv, HeapTypeOK, Forget, Live
  <2>9. CASE StopChunks
    BY <2>9, StopChunksStep
  <2> QED BY <1>2, <2>2, <2>3, <2>4, <2>5, <2>6, <2>7, <2>8, <2>9, HeapInvKept DEF Next
<1> QED BY <1>1, <1>2

(* The inductive invariant holds of every reachable state of the allocator. *)
LEMMA HeapInvariance == Spec => []HeapInv
<1>1. Init => HeapInv
  BY HeapInvInit
<1>2. HeapInv /\ [Next]_vars => HeapInv'
  BY HeapInvNext
<1> QED BY <1>1, <1>2, PTL DEF Spec

(* Slot lists, huge blocks, callers' blocks and the call in progress keep     *)
(* their types: each free block is an address, the walk of __jbl_free_smalls  *)
(* stays on its list, and jbl_realloc frees a block that is still held.       *)
THEOREM HeapTypeCorrect == Spec => []HeapTypeOK
<1>1. HeapInv => HeapTypeOK
  BY DEF HeapInv
<1> QED BY <1>1, HeapInvariance, PTL

(* A small block that is free, held or a huge block's header is a block of a  *)
(* run that is still handed out, and its page's map entry leads to that run:  *)
(* what jbl_free and __jbl_free_smalls read from the map is right.            *)
THEOREM SmallBlocksStayBacked == Spec => []SmallBlocksBacked
<1>1. ASSUME HeapInv, Up PROVE SmallBlocksBacked
  <2>1. PageInv /\ MarksSpread /\ ListedBacked /\ UsedBacked(Used) /\ HugeApart
    BY <1>1 DEF HeapInv, Sound
  <2>2. ASSUME NEW t \in Bin, NEW a, InSmallRun(t, a)
        PROVE  \E r \in runs : BlockOf(r, t, a)
    <3>1. PICK r \in runs : SmallRun(r, t) /\ a \in BlocksOf(r, t)
      BY <2>2 DEF InSmallRun
    <3>2. a.c = r.c /\ MarkOf(a).kind = "small" /\ MarkOf(a).val = t /\ Father(a) = r.i
      BY <2>1, <3>1, SmallBlockShape
    <3> QED BY <3>1, <3>2 DEF BlockOf, BlocksOf
  <2>3. BinFor(HugeHeader) \in Bin
    BY BinForRight, MallocFastAssumption
  <2>4. \A a \in Headers : \E r \in runs : BlockOf(r, BinFor(HugeHeader), a)
    BY <2>1, <2>2, <2>3 DEF HugeApart
  <2>5. ASSUME NEW a \in Live \ HugePtrs
        PROVE  \E r \in runs : \/ \E t \in Bin : BlockOf(r, t, a)
                               \/ a = [c |-> r.c, o |-> r.i * PageBytes]
    <3>1. a \in Used
      BY DEF Used
    <3> QED BY <2>1, <2>2, <3>1 DEF UsedBacked, StartsLargeRun, StartOf
  <2> QED BY <2>1, <2>2, <2>4, <2>5 DEF SmallBlocksBacked, ListedBacked
<1>2. HeapInv => SmallBlocksBacked
  BY <1>1 DEF SmallBlocksBacked
<1> QED BY <1>2, HeapInvariance, PTL

(* No block is handed out while it is held, freed twice into a slot list, or  *)
(* both free and in use, whatever mallocs, frees, reallocs and walks of       *)
(* __jbl_free_smalls came before.                                             *)
THEOREM NoBlockEverTwice == Spec => []NoBlockTwice
<1>1. HeapInv => NoBlockTwice
  <2> SUFFICES ASSUME HeapInv, Up PROVE NoBlockTwice
    BY DEF NoBlockTwice
  <2>1. PageInv /\ MarksSpread /\ ListedBacked /\ ListedOnce /\ UsedUnlisted(Used) /\ HugeApart
    BY DEF HeapInv, Sound
  <2>2. ASSUME NEW t \in Bin, NEW a \in Listed(t) PROVE a \notin Live /\ a \notin Headers
    <3>1. a \notin Used
      BY <2>1 DEF UsedUnlisted
    <3>2. a.c \in main
      BY <2>1, <2>2, InSmallRunFacts DEF ListedBacked
    <3>3. a \notin HugePtrs
      BY <2>1, <3>2 DEF HugeApart, HugePtrs
    <3> QED BY <3>1, <3>3 DEF Used
  <2> QED BY <2>1, <2>2 DEF NoBlockTwice, ListedOnce, HugeApart
<1> QED BY <1>1, HeapInvariance, PTL

(* Every step of the allocator uses its pages as the page layer allows: it    *)
(* takes runs from free pages, and gives back or extends only whole runs that *)
(* are handed out, each once.                                                 *)
THEOREM PagesImplemented == Spec => ImplementsPages
<1>1. Init => PageInit
  BY DEF Init
<1>2. HeapInv /\ [Next]_vars => [PageNext]_pageVars
  BY HeapInvNext
<1> QED BY <1>1, <1>2, HeapInvariance, PTL DEF Spec, ImplementsPages, PageSpec

(* So what is proved of the page layer holds in the whole allocator: runs     *)
(* stay inside chunks in use, share no page, and leave chunk headers alone.   *)
THEOREM PagesStaySound == Spec => [](RunsBacked /\ RunsDisjoint /\ ChunksSeparate)
<1>1. Spec => PageSpec
  BY PagesImplemented DEF ImplementsPages
<1> QED BY <1>1, RunsStayBacked, RunsStayDisjoint, ChunksStaySeparate, PTL
-----------------------------------------------------------------------------
(***************************************************************************)
(* What jbl_malloc, jbl_realloc and jbl_free promise their callers: the    *)
(* blocks held share no byte, and each changes only through a call about   *)
(* that very block (module Heap).  HeapInv places every block in a run;    *)
(* the sizes jbl_malloc_size reads stay what they were.                    *)
(***************************************************************************)

(* A block as its caller sees it: the bytes from a on.                        *)
Block(a) == [c |-> a.c, o |-> a.o, len |-> MallocSize(a)]
Blocks == {Block(a) : a \in Live}

BlocksApart ==
  /\ \A a \in Live : MallocSize(a) \in Nat /\ MallocSize(a) > 0
  /\ \A a, b \in Live : a # b => Callers!Apart(Block(a), Block(b))

(* The bytes of block a lie in run r.                                         *)
InRun(r, a) == /\ a.c = r.c /\ a.o \in Nat
               /\ r.i * PageBytes <= a.o
               /\ a.o + MallocSize(a) <= (r.i + r.n) * PageBytes
-----------------------------------------------------------------------------
(* Where the bytes of a block are. *)

(* Adding whole pages.                                                        *)
LEMMA PagesAdd ==
  ASSUME NEW P \in Nat, NEW i \in Nat, NEW n \in Nat
  PROVE  /\ i * P \in Nat /\ n * P \in Nat /\ (i + n) * P \in Nat
         /\ (i + n) * P = i * P + n * P
OBVIOUS

(* A small block ends within the pages of its run.                            *)
LEMMA SmallInRun ==
  ASSUME HeapInv, Up, NEW t \in Bin, NEW r \in runs, SmallRun(r, t),
         NEW a \in Live, a \notin HugePtrs, NEW k \in 0 .. (BinCount[t] - 1),
         a = SmallBlock(r, t, k)
  PROVE  /\ MallocSize(a) = BinBytes[t] /\ a.c \in main
         /\ k * BinBytes[t] \in Nat /\ a.o = r.i * PageBytes + k * BinBytes[t]
         /\ InRun(r, a)
<1>1. PageInv /\ MarksSpread
  BY DEF HeapInv, Sound
<1>2. a \in BlocksOf(r, t) /\ a.c = r.c /\ a.o = r.i * PageBytes + k * BinBytes[t]
  BY DEF BlocksOf, SmallBlock
<1>3. MallocSize(a) = BinBytes[t] /\ a.c \in main
  <2>1. InSmallRun(t, a)
    BY <1>2 DEF InSmallRun
  <2> QED BY <1>1, <2>1, InSmallRunFacts DEF MallocSize
<1>4. r.n = BinPages[t] /\ r.i \in Nat
  BY <1>1, RunKind, RunShape
<1>5. /\ BinBytes[t] \in Nat /\ BinCount[t] \in Nat /\ PageBytes \in Nat /\ k \in Nat
      /\ BinPages[t] \in Nat /\ BinCount[t] * BinBytes[t] <= BinPages[t] * PageBytes
  BY Geometry
<1>6. BinPages[t] * PageBytes \in Nat /\ r.i * PageBytes \in Nat
      /\ (r.i + r.n) * PageBytes = r.i * PageBytes + r.n * PageBytes
  BY <1>4, <1>5, PagesAdd
<1>7. k * BinBytes[t] \in Nat /\ k * BinBytes[t] + BinBytes[t] <= BinPages[t] * PageBytes
  BY <1>5, <1>6, SliceEnds
<1> QED BY <1>2, <1>3, <1>4, <1>5, <1>6, <1>7 DEF InRun

(* A large block is its run.                                                  *)
LEMMA LargeInRun ==
  ASSUME HeapInv, Up, NEW a \in Live, NEW r \in runs, IsLargeAt(r, a)
  PROVE  InRun(r, a) /\ a.c \in main
<1>1. PageInv
  BY DEF HeapInv
<1>2. a.c = r.c /\ a.o = r.i * PageBytes /\ MallocSize(a) = r.n * PageBytes /\ r.c \in main
  BY DEF IsLargeAt, StartOf
<1>3. r.i \in Nat /\ r.n \in Nat /\ PageBytes \in Nat
  BY <1>1, RunShape, Geometry
<1>4. r.i * PageBytes \in Nat /\ (r.i + r.n) * PageBytes = r.i * PageBytes + r.n * PageBytes
      /\ r.n * PageBytes \in Nat
  BY <1>3, PagesAdd
<1> QED BY <1>2, <1>4 DEF InRun

(* Two runs of a chunk lie one behind the other.                              *)
LEMMA RunsInOrder ==
  ASSUME PageInv, NEW r \in runs, NEW s \in runs, r # s, r.c = s.c
  PROVE  \/ (r.i + r.n) * PageBytes <= s.i * PageBytes
         \/ (s.i + s.n) * PageBytes <= r.i * PageBytes
<1>1. /\ r.i \in Nat /\ r.n \in Nat /\ r.n > 0 /\ s.i \in Nat /\ s.n \in Nat /\ s.n > 0
      /\ PageBytes \in Nat
  BY RunShape, Geometry
<1>2. r.i + r.n <= s.i \/ s.i + s.n <= r.i
  <2> SUFFICES ASSUME ~ (r.i + r.n <= s.i), ~ (s.i + s.n <= r.i) PROVE FALSE
    OBVIOUS
  <2>1. CASE r.i <= s.i
    <3>1. s.i \in RunPages(r) /\ s.i \in RunPages(s)
      BY <1>1, <2>1 DEF RunPages
    <3> QED BY <3>1, SameRun
  <2>2. CASE s.i <= r.i
    <3>1. r.i \in RunPages(r) /\ r.i \in RunPages(s)
      BY <1>1, <2>2 DEF RunPages
    <3> QED BY <3>1, SameRun
  <2> QED BY <1>1, <2>1, <2>2
<1>3. r.i + r.n \in Int /\ s.i + s.n \in Int /\ r.i \in Int /\ s.i \in Int
  BY <1>1
<1> QED BY <1>1, <1>2, <1>3, MulOrder

(* Blocks of different runs share no byte.                                    *)
LEMMA ApartInRuns ==
  ASSUME PageInv, NEW r \in runs, NEW s \in runs, r # s, NEW a, NEW b,
         InRun(r, a), InRun(s, b), MallocSize(a) \in Nat, MallocSize(b) \in Nat
  PROVE  Callers!Apart(Block(a), Block(b))
<1>1. /\ a.c = r.c /\ b.c = s.c /\ a.o \in Nat /\ b.o \in Nat
      /\ r.i * PageBytes <= a.o /\ a.o + MallocSize(a) <= (r.i + r.n) * PageBytes
      /\ s.i * PageBytes <= b.o /\ b.o + MallocSize(b) <= (s.i + s.n) * PageBytes
  BY DEF InRun
<1>2. /\ r.i * PageBytes \in Nat /\ (r.i + r.n) * PageBytes \in Nat
      /\ s.i * PageBytes \in Nat /\ (s.i + s.n) * PageBytes \in Nat
  BY RunShape, Geometry, PagesAdd
<1>3. ASSUME a.c = b.c
      PROVE  a.o + MallocSize(a) <= b.o \/ b.o + MallocSize(b) <= a.o
  <2>1. \/ (r.i + r.n) * PageBytes <= s.i * PageBytes
        \/ (s.i + s.n) * PageBytes <= r.i * PageBytes
    BY <1>1, <1>3, RunsInOrder
  <2> QED BY <1>1, <1>2, <2>1
<1> QED BY <1>3 DEF Callers!Apart, Block

(* Two blocks of the same run share no byte.                                  *)
LEMMA SlicesApart ==
  ASSUME NEW b \in Nat, NEW k \in Nat, NEW l \in Nat, k # l
  PROVE  k * b + b <= l * b \/ l * b + b <= k * b
<1>1. k * b \in Nat /\ l * b \in Nat
  BY PagesAdd
<1>2. CASE k + 1 <= l
  BY <1>1, <1>2, SliceEnds
<1>3. CASE l + 1 <= k
  BY <1>1, <1>3, SliceEnds
<1> QED BY <1>2, <1>3

(* A block lies in a run, as one of its blocks or as the whole of it, or has  *)
(* an area of its own.                                                        *)
SmallAt(r, t, k, a) == a \notin HugePtrs /\ SmallRun(r, t) /\ a = SmallBlock(r, t, k)

(* A held block is huge, or in a small run at an index, or a large run. *)
LEMMA WhereBlocksAre ==
  ASSUME HeapInv, Up, NEW a \in Live
  PROVE  /\ \/ IsHuge(a)
            \/ \E t \in Bin, r \in runs : \E k \in 0 .. (BinCount[t] - 1) : SmallAt(r, t, k, a)
            \/ \E r \in runs : IsLargeAt(r, a)
         /\ MallocSize(a) \in Nat /\ MallocSize(a) > 0
<1>1. SmallMax \in Nat /\ LargeMax \in Nat /\ MallocSize(a) \in Nat
  BY BlockKinds
<1>2. CASE IsHuge(a)
  BY <1>1, <1>2 DEF IsHuge
<1>3. ASSUME NEW t \in Bin, IsSmallOf(t, a)
      PROVE  /\ \E r \in runs : \E k \in 0 .. (BinCount[t] - 1) : SmallAt(r, t, k, a)
             /\ MallocSize(a) > 0
  <2>1. PICK r \in runs : SmallRun(r, t) /\ a \in BlocksOf(r, t) /\ a \notin HugePtrs
    BY <1>3 DEF IsSmallOf, InSmallRun
  <2>2. PICK k \in 0 .. (BinCount[t] - 1) : SmallAt(r, t, k, a)
    BY <2>1 DEF BlocksOf, SmallAt
  <2>3. MallocSize(a) = BinBytes[t]
    BY <2>1, <2>2, SmallInRun DEF SmallAt
  <2> QED BY <2>2, <2>3, Geometry
<1>4. ASSUME NEW r \in runs, IsLargeAt(r, a) PROVE MallocSize(a) > 0
  BY <1>1, <1>4 DEF IsLargeAt
<1> QED BY <1>1, <1>2, <1>3, <1>4, BlockKinds

(* The bytes of two blocks that callers hold never meet. *)
LEMMA HeldApart == HeapInv /\ Up => BlocksApart
<1> SUFFICES ASSUME HeapInv, Up PROVE BlocksApart
  OBVIOUS
<1>1. PageInv /\ MarksSpread /\ HugeApart
  BY DEF HeapInv, Sound
<1> SUFFICES ASSUME NEW a \in Live, NEW b \in Live, a # b
             PROVE  Callers!Apart(Block(a), Block(b))
  BY WhereBlocksAre DEF BlocksApart
<1>2. /\ MallocSize(a) \in Nat /\ MallocSize(b) \in Nat
      /\ a.c # b.c => Callers!Apart(Block(a), Block(b))
  BY WhereBlocksAre DEF Callers!Apart, Block
<1>3. ASSUME NEW x \in Live, NEW t \in Bin, NEW r \in runs, NEW k \in 0 .. (BinCount[t] - 1),
             SmallAt(r, t, k, x)
      PROVE  /\ InRun(r, x) /\ x.c \in main /\ MallocSize(x) = BinBytes[t]
             /\ k * BinBytes[t] \in Nat /\ x.o = r.i * PageBytes + k * BinBytes[t]
             /\ x \in BlocksOf(r, t) /\ SmallRun(r, t)
  BY <1>3, SmallInRun DEF SmallAt, BlocksOf
<1>4. ASSUME NEW x \in Live, NEW r \in runs, IsLargeAt(r, x)
      PROVE  InRun(r, x) /\ x.c \in main /\ LargeRun(r) /\ x = StartOf(r)
  BY <1>4, LargeInRun DEF IsLargeAt
<1>5. ASSUME NEW x \in Live, IsHuge(x) PROVE x.c \notin main /\ x.o = 0
  BY <1>1, <1>5 DEF IsHuge, HugeApart, HugePtrs
<1>6. CASE IsHuge(a) /\ IsHuge(b)
  <2>1. a \in Addr /\ b \in Addr
    BY DEF HeapInv, HeapTypeOK
  <2>2. a.c # b.c
    BY <1>5, <1>6, <2>1 DEF Addr
  <2> QED BY <1>2, <2>2
<1>7. ASSUME NEW t \in Bin, NEW r \in runs, NEW k \in 0 .. (BinCount[t] - 1),
             NEW u \in Bin, NEW s \in runs, NEW l \in 0 .. (BinCount[u] - 1),
             SmallAt(r, t, k, a), SmallAt(s, u, l, b)
      PROVE  Callers!Apart(Block(a), Block(b))
  <2>1. CASE r # s
    BY <1>1, <1>2, <1>3, <1>7, <2>1, ApartInRuns
  <2>2. CASE r = s
    <3>1. t = u
      BY <1>7, <2>2 DEF SmallAt, SmallRun
    <3>2. k # l
      BY <1>7, <2>2, <3>1 DEF SmallAt
    <3>3. BinBytes[t] \in Nat /\ k \in Nat /\ l \in Nat
      BY <3>1, Geometry
    <3>4. \/ k * BinBytes[t] + BinBytes[t] <= l * BinBytes[t]
          \/ l * BinBytes[t] + BinBytes[t] <= k * BinBytes[t]
      BY <3>2, <3>3, SlicesApart
    <3>5. /\ a.o = r.i * PageBytes + k * BinBytes[t] /\ MallocSize(a) = BinBytes[t]
          /\ b.o = r.i * PageBytes + l * BinBytes[t] /\ MallocSize(b) = BinBytes[t]
          /\ k * BinBytes[t] \in Nat /\ l * BinBytes[t] \in Nat
      BY <1>3, <1>7, <2>2, <3>1
    <3>6. r.i * PageBytes \in Nat
      BY <1>1, RunShape, Geometry, PagesAdd
    <3>7. a.o + MallocSize(a) <= b.o \/ b.o + MallocSize(b) <= a.o
      BY <3>3, <3>4, <3>5, <3>6
    <3> QED BY <3>7 DEF Callers!Apart, Block
  <2> QED BY <2>1, <2>2
<1>8. ASSUME NEW x \in Live, NEW y \in Live, NEW r \in runs, IsLargeAt(r, x),
             NEW u \in Bin, NEW s \in runs, NEW l \in 0 .. (BinCount[u] - 1), SmallAt(s, u, l, y)
      PROVE  /\ Callers!Apart(Block(x), Block(y))
             /\ Callers!Apart(Block(y), Block(x))
  <2>1. r # s
    BY <1>8 DEF IsLargeAt, SmallAt, LargeRun, SmallRun
  <2>2. MallocSize(x) \in Nat /\ MallocSize(y) \in Nat
    BY WhereBlocksAre
  <2> QED BY <1>1, <1>3, <1>4, <1>8, <2>1, <2>2, ApartInRuns
<1>9. ASSUME NEW r \in runs, NEW s \in runs, IsLargeAt(r, a), IsLargeAt(s, b)
      PROVE  Callers!Apart(Block(a), Block(b))
  <2>1. r # s
    BY <1>4, <1>9
  <2> QED BY <1>1, <1>2, <1>4, <1>9, <2>1, ApartInRuns
<1>10. CASE IsHuge(a) /\ ~ IsHuge(b)
  <2>1. a.c \notin main /\ b.c \in main
    BY <1>3, <1>4, <1>5, <1>10, WhereBlocksAre
  <2> QED BY <1>2, <2>1
<1>11. CASE ~ IsHuge(a) /\ IsHuge(b)
  <2>1. a.c \in main /\ b.c \notin main
    BY <1>3, <1>4, <1>5, <1>11, WhereBlocksAre
  <2> QED BY <1>2, <2>1
<1>12. CASE ~ IsHuge(a) /\ ~ IsHuge(b)
  BY <1>7, <1>8, <1>9, <1>12, WhereBlocksAre
<1> QED BY <1>6, <1>10, <1>11, <1>12
-----------------------------------------------------------------------------
(* What a step does to the blocks. *)

(* jbl_malloc_size of a block that stays, and whose own size the step does    *)
(* not change, answers the same before and after.                             *)
LEMMA SizesKept ==
  ASSUME HeapInv, Up, NEW G, KeepsHeap(G), NEW x \in Live, x \in Live', x \notin G
  PROVE  MallocSize(x)' = MallocSize(x)
<1>1. HugeApart /\ HugeApart' /\ HugeKept
  BY DEF HeapInv, KeepsHeap
<1>2. \A g : g.ptr = x => (g \in huge_list <=> g \in huge_list')
  BY <1>1 DEF HugeKept
<1>3. CASE x \in HugePtrs
  <2>1. PICK g \in huge_list : g.ptr = x
    BY <1>3 DEF HugePtrs
  <2>2. g \in huge_list'
    BY <1>2, <2>1
  <2>3. HugeOf(x) = g
    BY <1>1, <2>1 DEF HugeOf, HugeApart
  <2>4. HugeOf(x)' = g
    BY <1>1, <2>1, <2>2 DEF HugeOf, HugeApart
  <2>5. x \in HugePtrs'
    BY <2>1, <2>2 DEF HugePtrs
  <2> QED BY <1>3, <2>3, <2>4, <2>5 DEF MallocSize
<1>4. CASE x \notin HugePtrs
  <2>1. x \notin HugePtrs'
    BY <1>2, <1>4 DEF HugePtrs
  <2>2. x \in (Used \cap Used') \ G
    BY <1>4, <2>1 DEF Used
  <2>3. MarkOf(x)'.kind = MarkOf(x).kind /\ MarkOf(x)'.val = MarkOf(x).val
    BY <2>2 DEF KeepsHeap, SameMark
  <2> QED BY <1>4, <2>1, <2>3 DEF MallocSize
<1> QED BY <1>3, <1>4

(* A caller's blocks after a step that changes none of them.                  *)
LEMMA BlockKept ==
  ASSUME NEW x, MallocSize(x)' = MallocSize(x)
  PROVE  Block(x)' = Block(x)
BY DEF Block

(* A step that keeps the held blocks and their marks is no step of the        *)
(* callers' view.                                                             *)
LEMMA SameBlocks ==
  ASSUME HeapInv, Up, KeepsHeap({}), Live' = Live
  PROVE  Blocks' = Blocks
<1>1. \A x \in Live : Block(x)' = Block(x)
  BY SizesKept, BlockKept
<1> QED BY <1>1 DEF Blocks

(* jbl_malloc, and the new block of a jbl_realloc that moves.                 *)
LEMMA GrantStep ==
  ASSUME HeapInv, Up, KeepsHeap({}), BlocksApart', NEW a, a \notin Live, Live' = Live \cup {a}
  PROVE  [Callers!Next]_Blocks
<1> DEFINE b == Block(a)'
<1>1. \A x \in Live : Block(x)' = Block(x)
  BY SizesKept, BlockKept
<1>2. Blocks' = Blocks \cup {b}
  BY <1>1 DEF Blocks
<1>3. b.len > 0
  BY DEF BlocksApart, Block
<1>4. \A x \in Live : Callers!Apart(Block(x)', b)
  BY DEF BlocksApart
<1>5. \A y \in Blocks : Callers!Apart(y, b)
  BY <1>1, <1>4 DEF Blocks
<1> HIDE DEF b
<1>6. CASE b \in Blocks
  BY <1>2, <1>6
<1>7. CASE b \notin Blocks
  BY <1>2, <1>3, <1>5, <1>7 DEF Callers!Next, Callers!Grant, Blocks, Block
<1> QED BY <1>6, <1>7

(* jbl_free, the old block of a jbl_realloc that moved, and jbl_malloc_stop   *)
(* as it frees a huge block.                                                  *)
LEMMA ReleaseStep ==
  ASSUME HeapInv, Up, KeepsHeap({}), NEW a \in Live, Live' = Live \ {a}
  PROVE  [Callers!Next]_Blocks
<1>1. \A x \in Live \ {a} : Block(x)' = Block(x)
  BY SizesKept, BlockKept
<1>2. \A x \in Live : Block(x) = Block(a) => x = a
  BY DEF Block, HeapInv, HeapTypeOK, Addr
<1>3. Blocks' = Blocks \ {Block(a)} /\ Block(a) \in Blocks
  BY <1>1, <1>2 DEF Blocks
<1> QED BY <1>3 DEF Callers!Next, Callers!Release, Blocks, Block

(* A step in which a block of the callers grows is one that Heap allows.      *)
LEMMA ExtendIsNext ==
  ASSUME NEW old \in Blocks, NEW new \in Blocks', new \notin Blocks, Callers!Extend(old, new)
  PROVE  Callers!Next
<1>1. /\ old \in {[c |-> a.c, o |-> a.o, len |-> MallocSize(a)] : a \in Live}
      /\ new \in {[c |-> a.c, o |-> a.o, len |-> MallocSize(a)] : a \in Live}'
      /\ new \notin {[c |-> a.c, o |-> a.o, len |-> MallocSize(a)] : a \in Live}
  BY DEF Blocks, Block
<1> QED BY <1>1, Zenon DEF Callers!Next

(* jbl_realloc of a large block that grows where it is.                       *)
LEMMA ExtendStep ==
  ASSUME HeapInv, Up, NEW a \in Live, KeepsHeap({a}), BlocksApart, BlocksApart', Live' = Live,
         MallocSize(a) <= MallocSize(a)'
  PROVE  [Callers!Next]_Blocks
<1> PICK old, new : old = Block(a) /\ new = Block(a)'
  OBVIOUS
<1>1. \A x \in Live \ {a} : Block(x)' = Block(x)
  BY SizesKept, BlockKept
<1>2. \A x \in Live : Block(x) = Block(a) => x = a
  BY DEF Block, HeapInv, HeapTypeOK, Addr
<1>3. Blocks' = (Blocks \ {old}) \cup {new} /\ old \in Blocks
  BY <1>1, <1>2 DEF Blocks
<1>4. \A y \in Blocks \ {old} : Callers!Apart(y, new)
  <2>1. \A x \in Live \ {a} : Callers!Apart(Block(x)', new)
    BY DEF BlocksApart
  <2> QED BY <1>1, <2>1 DEF Blocks
<1>5. /\ old.c = new.c /\ old.o = new.o /\ old.len = MallocSize(a) /\ new.len = MallocSize(a)'
      /\ old = [c |-> a.c, o |-> a.o, len |-> MallocSize(a)]
      /\ new = [c |-> a.c, o |-> a.o, len |-> MallocSize(a)']
  BY DEF Block
<1>6. MallocSize(a) \in Nat /\ MallocSize(a)' \in Nat
  BY DEF BlocksApart
<1>7. CASE new \in Blocks \ {old} \/ new = old
  <2>1. new = old
    <3> SUFFICES ASSUME new \in Blocks \ {old} PROVE FALSE
      BY <1>7
    <3>1. PICK x \in Live \ {a} : new = Block(x)
      BY DEF Blocks
    <3>2. x.c = a.c /\ x.o = a.o
      BY <1>5, <3>1 DEF Block
    <3> QED BY <3>2 DEF HeapInv, HeapTypeOK, Addr
  <2> QED BY <1>3, <2>1
<1>8. CASE new \notin Blocks
  <2>1. old.len < new.len
    <3>1. new # old
      BY <1>3, <1>8
    <3> QED BY <1>5, <1>6, <3>1
  <2>2. Callers!Extend(old, new)
    BY <1>3, <1>4, <1>5, <2>1 DEF Callers!Extend, Blocks, Block
  <2>3. old \in Blocks /\ new \in Blocks'
    BY <1>3
  <2>4. Callers!Next
    BY <1>8, <2>2, <2>3, ExtendIsNext
  <2> QED BY <2>4
<1> QED BY <1>7, <1>8
-----------------------------------------------------------------------------
(* Each step of the allocator is one that Heap allows, or changes no block. *)

(* Each step grants bytes nobody holds, changes the one block it was called   *)
(* for, or changes none.                                                      *)
LEMMA CallersNext ==
  ASSUME HeapInv, HeapInv', Up, [Next]_vars
  PROVE  [Callers!Next]_Blocks
<1>1. BlocksApart
  BY HeldApart
<1>2. Up' => BlocksApart'
  BY HeldApart, PTL
<1>3. CASE UNCHANGED vars
  <2>1. UNCHANGED <<map, huge_list, asked>>
    BY <1>3 DEF vars, pageVars, heapVars
  <2>2. Live' = Live /\ \A x \in Live : Block(x)' = Block(x)
    BY <2>1 DEF Live, Block, MallocSize, HugePtrs, HugeOf, MarkOf, PageOf
  <2> QED BY <2>2 DEF Blocks
<1>4. ASSUME NEW sz \in Sizes, Malloc(sz) PROVE [Callers!Next]_Blocks
  <2>1. PICK a \in Offers(sz) : MallocBlock(sz, a) /\ Holds(a, sz)
    BY <1>4 DEF Malloc
  <2>2. pc = Idle /\ pc' = Idle
    BY <1>4 DEF Malloc
  <2>3. KeepsHeap({}) /\ a \notin Live /\ Live' = Live \cup {a}
    BY <2>1, <2>2, MallocBlockKeeps DEF Idle
  <2> QED BY <1>2, <2>2, <2>3, GrantStep DEF Up, Idle, Stopped
<1>5. ASSUME NEW a \in Live, Free(a) PROVE [Callers!Next]_Blocks
  <2>1. Live' = Live \ {a}
    BY <1>5 DEF Free, Forget, Live
  <2> QED BY <1>5, <2>1, FreeStep, ReleaseStep
<1>6. ASSUME NEW a \in Live, NEW sz \in Sizes, ReallocKeep(a, sz) PROVE [Callers!Next]_Blocks
  <2>1. /\ UNCHANGED <<map, huge_list>> /\ Live' = Live
    BY <1>6 DEF ReallocKeep, pageVars, Live
  <2>2. \A x \in Live : Block(x)' = Block(x)
    BY <2>1 DEF Block, MallocSize, HugePtrs, HugeOf, MarkOf, PageOf
  <2> QED BY <2>1, <2>2 DEF Blocks
<1>7. ASSUME NEW a \in Live, NEW sz \in Sizes, ReallocInPlace(a, sz) PROVE [Callers!Next]_Blocks
  <2>1. KeepsHeap({a}) /\ Live' = Live /\ MallocSize(a) <= MallocSize(a)'
    BY <1>7, ReallocInPlaceKeeps
  <2>2. pc' = Idle
    BY <1>7 DEF ReallocInPlace
  <2> QED BY <1>1, <1>2, <2>1, <2>2, ExtendStep DEF Up, Idle, Stopped
<1>8. ASSUME NEW a \in Live, NEW sz \in Sizes, ReallocMove(a, sz) PROVE [Callers!Next]_Blocks
  <2>1. PICK b \in Offers(sz) : MallocBlock(sz, b) /\ Holds(b, sz)
    BY <1>8 DEF ReallocMove
  <2>2. pc.op # "reclaim" /\ pc'.op # "reclaim" /\ Up'
    BY <1>8 DEF ReallocMove, Idle, Moving, Up, Stopped
  <2>3. KeepsHeap({}) /\ b \notin Live /\ Live' = Live \cup {b}
    BY <2>1, <2>2, MallocBlockKeeps
  <2> QED BY <1>2, <2>2, <2>3, GrantStep
<1>9. ASSUME ReallocFreeOld PROVE [Callers!Next]_Blocks
  <2> PICK a : a = pc.old
    OBVIOUS
  <2>1. a \in Live
    BY <1>9 DEF ReallocFreeOld, HeapInv, HeapTypeOK, Idle, Stopping, Stopped, Moving, Reclaiming
  <2>2. Live' = Live \ {a}
    BY <1>9 DEF ReallocFreeOld, Forget, Live
  <2> QED BY <1>9, <2>1, <2>2, ReallocFreeOldStep, ReleaseStep
<1>10. ASSUME ReclaimStep PROVE [Callers!Next]_Blocks
  <2>1. Live' = Live
    BY <1>10 DEF ReclaimStep, ReclaimCount, ReclaimRun, ReclaimNextBin, Live
  <2> QED BY <1>10, <2>1, ReclaimStepKeeps, SameBlocks
<1>11. ASSUME FreeSmalls \/ ReclaimChunks \/ ReleaseChunks \/ BeginStop
       PROVE  [Callers!Next]_Blocks
  <2>1. Live' = Live
    BY <1>11 DEF FreeSmalls, ReclaimChunks, ReleaseChunks, BeginStop, heapVars, Live
  <2> QED BY <1>11, <2>1, OtherSteps, SameBlocks
<1>12. ASSUME StopHuge PROVE [Callers!Next]_Blocks
  <2>1. PICK g \in huge_list : FreeHuge(g.ptr) /\ Forget(g.ptr)
    BY <1>12 DEF StopHuge
  <2>2. g.ptr \in HugePtrs /\ g.ptr \in Live
    BY DEF HeapInv, HugeApart, HugePtrs
  <2>3. pc.op # "reclaim" /\ pc'.op # "reclaim"
    BY <1>12 DEF StopHuge, Stopping
  <2>4. KeepsHeap({})
    BY <2>1, <2>2, <2>3, FreeHugeKeeps
  <2>5. Live' = Live \ {g.ptr}
    BY <2>1 DEF Forget, Live
  <2> QED BY <2>2, <2>4, <2>5, ReleaseStep
<1>13. ASSUME StopChunks PROVE [Callers!Next]_Blocks
  <2>1. Live' = {}
    BY <1>13 DEF StopChunks, Live
  <2> QED BY <2>1 DEF Callers!Next, Callers!ReleaseAll
<1> QED BY <1>3, <1>4, <1>5, <1>6, <1>7, <1>8, <1>9, <1>10, <1>11, <1>12, <1>13
        DEF Next, Realloc

(* After jbl_malloc_stop nothing moves any more.                              *)
LEMMA StoppedForGood ==
  ASSUME ~ Up, [Next]_vars
  PROVE  UNCHANGED vars
BY DEF Up, Next, Malloc, Free, Realloc, ReallocKeep, ReallocInPlace, ReallocMove,
       ReallocFreeOld, FreeSmalls, ReclaimStep, ReclaimCount, ReclaimRun, ReclaimNextBin,
       ReclaimChunks, ReleaseChunks, BeginStop, StopHuge, StopChunks, Idle, Stopping, Stopped

(* A caller may count on its blocks: jbl_malloc answers bytes that nobody     *)
(* holds, no two blocks share a byte, and a block changes only when jbl_free  *)
(* or jbl_realloc is called for that very block, or at jbl_malloc_stop.       *)
THEOREM CallersServed == Spec => ImplementsHeap
<1>1. Init => Callers!Init
  BY DEF Init, Callers!Init, Live
<1>2. HeapInv /\ HeapInv' /\ [Next]_vars => [Callers!Next]_Blocks
  <2> SUFFICES ASSUME HeapInv, HeapInv', [Next]_vars PROVE [Callers!Next]_Blocks
    OBVIOUS
  <2>1. CASE Up
    BY <2>1, CallersNext
  <2>2. CASE ~ Up
    <3>1. UNCHANGED <<map, huge_list, asked>>
      BY <2>2, StoppedForGood DEF vars, pageVars, heapVars
    <3>2. Live' = Live /\ \A x \in Live : Block(x)' = Block(x)
      BY <3>1 DEF Live, Block, MallocSize, HugePtrs, HugeOf, MarkOf, PageOf
    <3> QED BY <3>2 DEF Blocks
  <2> QED BY <2>1, <2>2
<1>3. HeapInv /\ HeapInv' /\ [Next]_vars
        => [Callers!Next]_{[c |-> a.c, o |-> a.o, len |-> MallocSize(a)] : a \in Live}
  BY <1>2 DEF Blocks, Block
<1> QED BY <1>1, <1>3, HeapInvariance, PTL DEF Spec, ImplementsHeap, Callers!Spec

(* No two blocks that callers hold share a byte.                              *)
THEOREM BlocksStayApart == Spec => [](Up => BlocksApart)
BY HeldApart, HeapInvariance, PTL

(***************************************************************************)
(* The bytes that jbl_malloc_heap counts are those of the blocks in use,   *)
(* and of the memory the system has given.                                 *)
(***************************************************************************)

HeldBytes == [a \in Live |-> MallocSize(a)]
HugeBytes == [g \in huge_list |-> g.size]
HeaderBytes == BinBytes[BinFor(HugeHeader)]
Chunks == main \cup cached

(* The four sums, and what heap_size and applied_size have to do with them.   *)
HeldSum == Total(Live, HeldBytes)
HeaderSum == Cardinality(huge_list) * HeaderBytes
ChunkSum == Cardinality(Chunks) * ChunkBytes
HugeSum == Total(huge_list, HugeBytes)
SumsTyped == HeldSum \in Nat /\ HeaderSum \in Nat /\ ChunkSum \in Nat /\ HugeSum \in Nat

Finite == IsFiniteSet(Live) /\ IsFiniteSet(huge_list) /\ IsFiniteSet(Chunks)
SumsExact == heap_size = HeldSum + HeaderSum /\ applied_size = ChunkSum + HugeSum
CountInv ==
  /\ Finite
  /\ heap_size \in Nat /\ applied_size \in Nat
  /\ Up => SumsExact

(* Sizes are numbers, and those of the three kinds of blocks.                 *)
HeldIsTyped == HeldBytes \in [Live -> Nat]
HugeIsTyped == HugeBytes \in [huge_list -> Nat]
SmallSized == \A t \in Bin : \A a :
                InSmallRun(t, a) /\ a \notin HugePtrs => MallocSize(a) = BinBytes[t]
LargeSized == \A r \in runs :
                LargeRun(r) /\ StartOf(r) \notin HugePtrs => MallocSize(StartOf(r)) = r.n * PageBytes
HugeSized == \A g \in huge_list : g.ptr \in HugePtrs /\ HugeOf(g.ptr) = g
                                  /\ MallocSize(g.ptr) = g.size

(* Sizes are numbers: of the blocks held ...                                  *)
LEMMA HeldTyped == HeapInv /\ Up => HeldIsTyped
BY BlockKinds DEF HeldIsTyped, HeldBytes

(* ... and of the huge blocks.                                                *)
LEMMA HugeTyped == HeapInv => HugeIsTyped
BY DEF HugeIsTyped, HugeBytes, HeapInv, HeapTypeOK

(* A huge block's header and a chunk are so many bytes.                       *)
LEMMA FixedBytes == HeaderBytes \in Nat /\ ChunkBytes \in Nat
<1>1. BinFor(HugeHeader) \in Bin
  BY BinForRight, MallocFastAssumption
<1>2. HeaderBytes \in Nat
  BY <1>1, Geometry DEF HeaderBytes
<1>3. ChunkBytes = BitLimit * PageBytes /\ BitLimit \in Nat /\ PageBytes \in Nat
  BY Geometry
<1> QED BY <1>2, <1>3

(* jbl_malloc_size of a small block is its bin's size ...                     *)
LEMMA SmallBytes == HeapInv /\ Up => SmallSized
<1> SUFFICES ASSUME HeapInv, Up, NEW t \in Bin, NEW a, InSmallRun(t, a), a \notin HugePtrs
             PROVE  MallocSize(a) = BinBytes[t]
  BY DEF SmallSized
<1>1. PageInv /\ MarksSpread
  BY DEF HeapInv, Sound
<1>2. MarkOf(a).kind = "small" /\ MarkOf(a).val = t
  BY <1>1, InSmallRunFacts
<1> QED BY <1>2 DEF MallocSize

(* ... of a large one the bytes of its pages ...                              *)
LEMMA LargeBytes == HeapInv /\ Up => LargeSized
<1> SUFFICES ASSUME HeapInv, Up, NEW r \in runs, LargeRun(r), StartOf(r) \notin HugePtrs
             PROVE  MallocSize(StartOf(r)) = r.n * PageBytes
  BY DEF LargeSized
<1>1. PageInv
  BY DEF HeapInv
<1>2. MarkOf(StartOf(r)).kind = "large" /\ MarkOf(StartOf(r)).val = r.n
  BY <1>1, LargeStartShape
<1> QED BY <1>2 DEF MallocSize

(* ... and of a huge one the size in its header.                              *)
LEMMA HugeBlockBytes == HeapInv /\ Up => HugeSized
<1> SUFFICES ASSUME HeapInv, Up, NEW g \in huge_list
             PROVE  g.ptr \in HugePtrs /\ HugeOf(g.ptr) = g /\ MallocSize(g.ptr) = g.size
  BY DEF HugeSized
<1>1. HugeApart
  BY DEF HeapInv
<1>2. g.ptr \in HugePtrs /\ HugeOf(g.ptr) = g
  BY <1>1 DEF HugePtrs, HugeOf, HugeApart
<1> QED BY <1>2 DEF MallocSize

(* The sums of the property are these sums.                                   *)
LEMMA SumsRead ==
  ASSUME HeapInv, Up, IsFiniteSet(Live), IsFiniteSet(huge_list)
  PROVE  /\ MapThenSumSet(MallocSize, Live) = Total(Live, HeldBytes)
         /\ MapThenSumSet(LAMBDA g : g.size, huge_list) = Total(huge_list, HugeBytes)
<1>1. HeldBytes \in [Live -> Nat] /\ HugeBytes \in [huge_list -> Nat]
  BY HeldTyped, HugeTyped DEF HeldIsTyped, HugeIsTyped
<1>2. PICK g : Sums(Live, HeldBytes, g)
  BY <1>1, SumsExist
<1>3. PICK h : Sums(huge_list, HugeBytes, h)
  BY <1>1, SumsExist
<1>4. g[Live] = Total(Live, HeldBytes) /\ h[huge_list] = Total(huge_list, HugeBytes)
  BY <1>1, <1>2, <1>3, TotalIs
<1> DEFINE G(i) == i = [s \in SUBSET Live |-> IF s = {} THEN 0
                     ELSE LET x == CHOOSE x \in s : TRUE IN MallocSize(x) + i[s \ {x}]]
           H(i) == i = [s \in SUBSET huge_list |-> IF s = {} THEN 0
                     ELSE LET x == CHOOSE x \in s : TRUE IN x.size + i[s \ {x}]]
<1>5. MapThenSumSet(MallocSize, Live) = (CHOOSE i : G(i))[Live]
  BY DEF MapThenSumSet, MapThenFoldSet
<1>6. MapThenSumSet(LAMBDA x : x.size, huge_list) = (CHOOSE i : H(i))[huge_list]
  BY DEF MapThenSumSet, MapThenFoldSet
<1>7. ASSUME NEW i PROVE G(i) <=> i = g
  <2>1. \A s \in SUBSET Live : s # {} => MallocSize(First(s)) = HeldBytes[First(s)]
    BY DEF First, HeldBytes
  <2>2. G(i) <=> i = Folded(Live, HeldBytes, i)
    BY <2>1 DEF First, Folded
  <2> HIDE DEF G
  <2> QED BY <1>1, <1>2, <2>2, FoldIs
<1>8. ASSUME NEW i PROVE H(i) <=> i = h
  <2>1. \A s \in SUBSET huge_list : s # {} => First(s).size = HugeBytes[First(s)]
    BY DEF First, HugeBytes
  <2>2. H(i) <=> i = Folded(huge_list, HugeBytes, i)
    BY <2>1 DEF First, Folded
  <2> HIDE DEF H
  <2> QED BY <1>1, <1>3, <2>2, FoldIs
<1> HIDE DEF G, H
<1>9. (CHOOSE i : G(i)) = g /\ (CHOOSE i : H(i)) = h
  BY <1>7, <1>8
<1> QED BY <1>4, <1>5, <1>6, <1>9
-----------------------------------------------------------------------------
(* What a step does to the sums. *)

(* jbl_malloc: the block's bytes more.                                        *)
LEMMA HeldMore ==
  ASSUME HeapInv, HeapInv', Up, Up', KeepsHeap({}), IsFiniteSet(Live),
         NEW a, a \notin Live, Live' = Live \cup {a}
  PROVE  /\ IsFiniteSet(Live') /\ MallocSize(a)' \in Nat
         /\ Total(Live, HeldBytes)' = Total(Live, HeldBytes) + MallocSize(a)'
<1> PICK S, T, f, e : S = Live /\ T = Live' /\ f = HeldBytes /\ e = HeldBytes'
  OBVIOUS
<1>1. f \in [S -> Nat]
  BY HeldTyped DEF HeldIsTyped
<1>2. HeapInv' /\ Up' => HeldIsTyped'
  BY HeldTyped, PTL
<1>3. e \in [T -> Nat] /\ T = S \cup {a} /\ a \notin S /\ IsFiniteSet(S)
  BY <1>2 DEF HeldIsTyped
<1>4. \A x \in S : e[x] = f[x]
  <2> SUFFICES ASSUME NEW x \in Live PROVE HeldBytes'[x] = HeldBytes[x]
    OBVIOUS
  <2>1. MallocSize(x)' = MallocSize(x)
    BY SizesKept
  <2> QED BY <2>1 DEF HeldBytes
<1>5. IsFiniteSet(T) /\ Total(T, e) = Total(S, f) + e[a]
  BY <1>1, <1>3, <1>4, TotalAdd
<1>6. e[a] = MallocSize(a)' /\ e[a] \in Nat
  BY <1>3 DEF HeldBytes
<1>7. Total(Live, HeldBytes)' = Total(T, e)
  BY DEF Total, Sums, Folds, First
<1> QED BY <1>5, <1>6, <1>7

(* jbl_free: its bytes less.                                                  *)
LEMMA HeldLess ==
  ASSUME HeapInv, HeapInv', Up, Up', KeepsHeap({}), IsFiniteSet(Live),
         NEW a \in Live, Live' = Live \ {a}
  PROVE  /\ IsFiniteSet(Live') /\ MallocSize(a) \in Nat
         /\ Total(Live, HeldBytes) = Total(Live, HeldBytes)' + MallocSize(a)
<1> PICK S, T, f, e : S = Live' /\ T = Live /\ f = HeldBytes' /\ e = HeldBytes
  OBVIOUS
<1>1. e \in [T -> Nat]
  BY HeldTyped DEF HeldIsTyped
<1>2. HeapInv' /\ Up' => HeldIsTyped'
  BY HeldTyped, PTL
<1>3. f \in [S -> Nat] /\ T = S \cup {a} /\ a \notin S
  BY <1>2 DEF HeldIsTyped
<1>4. IsFiniteSet(S)
  BY FS_RemoveElement
<1>5. \A x \in S : e[x] = f[x]
  <2> SUFFICES ASSUME NEW x \in Live' PROVE HeldBytes'[x] = HeldBytes[x]
    OBVIOUS
  <2>1. x \in Live
    OBVIOUS
  <2>2. MallocSize(x)' = MallocSize(x)
    BY <2>1, SizesKept
  <2> QED BY <2>1, <2>2 DEF HeldBytes
<1>6. Total(T, e) = Total(S, f) + e[a]
  BY <1>1, <1>3, <1>4, <1>5, TotalAdd
<1>7. e[a] = MallocSize(a) /\ e[a] \in Nat
  BY <1>1 DEF HeldBytes
<1>8. Total(Live, HeldBytes)' = Total(S, f)
  BY DEF Total, Sums, Folds, First
<1> QED BY <1>4, <1>6, <1>7, <1>8

(* jbl_realloc in place: the difference.                                      *)
LEMMA HeldGrown ==
  ASSUME HeapInv, HeapInv', Up, Up', NEW a \in Live, KeepsHeap({a}), IsFiniteSet(Live),
         Live' = Live
  PROVE  /\ MallocSize(a) \in Nat /\ MallocSize(a)' \in Nat
         /\ Total(Live, HeldBytes)' + MallocSize(a) = Total(Live, HeldBytes) + MallocSize(a)'
<1> PICK S, f, e : S = Live /\ f = HeldBytes /\ e = HeldBytes'
  OBVIOUS
<1>1. f \in [S -> Nat]
  BY HeldTyped DEF HeldIsTyped
<1>2. HeapInv' /\ Up' => HeldIsTyped'
  BY HeldTyped, PTL
<1>3. e \in [S -> Nat]
  BY <1>2 DEF HeldIsTyped
<1>4. \A x \in S : x # a => e[x] = f[x]
  <2> SUFFICES ASSUME NEW x \in Live, x # a PROVE HeldBytes'[x] = HeldBytes[x]
    OBVIOUS
  <2>1. MallocSize(x)' = MallocSize(x)
    BY SizesKept
  <2> QED BY <2>1 DEF HeldBytes
<1>5. Total(S, e) + f[a] = Total(S, f) + e[a]
  BY <1>1, <1>3, <1>4, TotalChange
<1>6. e[a] = MallocSize(a)' /\ e[a] \in Nat /\ f[a] = MallocSize(a) /\ f[a] \in Nat
  BY <1>1, <1>3 DEF HeldBytes
<1>7. Total(Live, HeldBytes)' = Total(S, e)
  BY DEF Total, Sums, Folds, First
<1> QED BY <1>5, <1>6, <1>7

(* Steps about no block's bytes.                                              *)
LEMMA HeldSame ==
  ASSUME HeapInv, Up, KeepsHeap({}), Live' = Live
  PROVE  Total(Live, HeldBytes)' = Total(Live, HeldBytes)
<1>1. HeldBytes' = HeldBytes
  BY SizesKept DEF HeldBytes
<1> QED BY <1>1 DEF Total, Sums, Folds, First

(* A huge block is entered.                                                   *)
LEMMA HugeMore ==
  ASSUME HeapInv, HeapInv', IsFiniteSet(huge_list), NEW g, g \notin huge_list,
         huge_list' = huge_list \cup {g}
  PROVE  /\ IsFiniteSet(huge_list') /\ g.size \in Nat
         /\ Cardinality(huge_list) \in Nat
         /\ Cardinality(huge_list') = Cardinality(huge_list) + 1
         /\ Total(huge_list, HugeBytes)' = Total(huge_list, HugeBytes) + g.size
<1> PICK S, T, f, e : S = huge_list /\ T = huge_list' /\ f = HugeBytes /\ e = HugeBytes'
  OBVIOUS
<1>1. f \in [S -> Nat]
  BY HugeTyped DEF HugeIsTyped
<1>2. HeapInv' => HugeIsTyped'
  BY HugeTyped, PTL
<1>3. e \in [T -> Nat] /\ T = S \cup {g} /\ g \notin S /\ IsFiniteSet(S)
  BY <1>2 DEF HugeIsTyped
<1>4. \A x \in S : e[x] = f[x]
  BY DEF HugeBytes
<1>5. IsFiniteSet(T) /\ Total(T, e) = Total(S, f) + e[g]
  BY <1>1, <1>3, <1>4, TotalAdd
<1>6. e[g] = g.size /\ e[g] \in Nat
  BY <1>3 DEF HugeBytes
<1>7. Total(huge_list, HugeBytes)' = Total(T, e)
  BY DEF Total, Sums, Folds, First
<1>8. Cardinality(S) \in Nat /\ Cardinality(T) = Cardinality(S) + 1
  BY <1>3, FS_AddElement, FS_CardinalityType
<1> QED BY <1>5, <1>6, <1>7, <1>8

(* A huge block leaves the list.                                              *)
LEMMA HugeLess ==
  ASSUME HeapInv, HeapInv', IsFiniteSet(huge_list), NEW g \in huge_list,
         huge_list' = huge_list \ {g}
  PROVE  /\ IsFiniteSet(huge_list') /\ g.size \in Nat
         /\ Cardinality(huge_list') \in Nat
         /\ Cardinality(huge_list) = Cardinality(huge_list') + 1
         /\ Total(huge_list, HugeBytes) = Total(huge_list, HugeBytes)' + g.size
<1> PICK S, T, f, e : S = huge_list' /\ T = huge_list /\ f = HugeBytes' /\ e = HugeBytes
  OBVIOUS
<1>1. e \in [T -> Nat]
  BY HugeTyped DEF HugeIsTyped
<1>2. HeapInv' => HugeIsTyped'
  BY HugeTyped, PTL
<1>3. f \in [S -> Nat] /\ T = S \cup {g} /\ g \notin S
  BY <1>2 DEF HugeIsTyped
<1>4. IsFiniteSet(S)
  BY FS_RemoveElement
<1>5. \A x \in S : e[x] = f[x]
  BY DEF HugeBytes
<1>6. Total(T, e) = Total(S, f) + e[g]
  BY <1>1, <1>3, <1>4, <1>5, TotalAdd
<1>7. e[g] = g.size /\ e[g] \in Nat
  BY <1>1 DEF HugeBytes
<1>8. Total(huge_list, HugeBytes)' = Total(S, f)
  BY DEF Total, Sums, Folds, First
<1>9. Cardinality(S) \in Nat /\ Cardinality(T) = Cardinality(S) + 1
  BY <1>3, <1>4, FS_AddElement, FS_CardinalityType
<1> QED BY <1>4, <1>6, <1>7, <1>8, <1>9

(* The list stays.                                                            *)
LEMMA HugeSame ==
  ASSUME huge_list' = huge_list
  PROVE  Total(huge_list, HugeBytes)' = Total(huge_list, HugeBytes)
BY DEF HugeBytes, Total, Sums, Folds, First

(* A product one more time.                                                   *)
LEMMA OnceMore ==
  ASSUME NEW n \in Nat, NEW c \in Nat
  PROVE  (n + 1) * c = n * c + c /\ n * c \in Nat
OBVIOUS

(* What __jbl_malloc_chunk adds to applied_size is what it takes.             *)
LEMMA ChunksCounted ==
  ASSUME IsFiniteSet(Chunks), NEW c, Chunks' = Chunks \/ Chunks' = Chunks \cup {c}
  PROVE  /\ IsFiniteSet(Chunks') /\ Cardinality(Chunks) \in Nat /\ ChunkMapped \in Nat
         /\ Cardinality(Chunks') * ChunkBytes = Cardinality(Chunks) * ChunkBytes + ChunkMapped
         /\ Cardinality(Chunks) * ChunkBytes \in Nat
<1>1. Cardinality(Chunks) \in Nat
  BY FS_CardinalityType
<1>2. ChunkMapped = IF Chunks' = Chunks THEN 0 ELSE ChunkBytes
  BY DEF ChunkMapped, Chunks
<1>3. ChunkBytes \in Nat
  BY FixedBytes
<1> PICK n, b : n = Cardinality(Chunks) /\ b = ChunkBytes
  OBVIOUS
<1>4. n \in Nat /\ b \in Nat /\ n * b \in Nat /\ (n + 1) * b = n * b + b /\ n * b = n * b + 0
  BY <1>1, <1>3, OnceMore
<1>5. CASE Chunks' = Chunks
  BY <1>1, <1>2, <1>4, <1>5
<1>6. CASE Chunks' # Chunks
  <2>1. Chunks' = Chunks \cup {c} /\ c \notin Chunks
    BY <1>6
  <2>2. IsFiniteSet(Chunks') /\ Cardinality(Chunks') = n + 1
    BY <2>1, FS_AddElement
  <2> QED BY <1>1, <1>2, <1>3, <1>4, <1>6, <2>2
<1> QED BY <1>5, <1>6

(* A call of __jbl_malloc_page takes one chunk more or none.                  *)
LEMMA PageChunks ==
  ASSUME NEW n, NEW m, NEW r, MallocPage(n, m, r)
  PROVE  Chunks' = Chunks \/ Chunks' = Chunks \cup {r.c}
BY DEF MallocPage, TakeFromMain, TakeFromNewChunk, Chunks

(* Nor does a small block take more.                                          *)
LEMMA SmallChunks ==
  ASSUME NEW t, NEW a, TakeSmall(t, a)
  PROVE  \E c : Chunks' = Chunks \/ Chunks' = Chunks \cup {c}
<1>1. CASE UNCHANGED pageVars
  BY <1>1 DEF pageVars, Chunks
<1>2. CASE \E r : MallocPage(BinPages[t], SmallMark(t), r)
  BY <1>2, PageChunks
<1> QED BY <1>1, <1>2 DEF TakeSmall
-----------------------------------------------------------------------------
(* What each operation does to the counts. *)

(* The sums are numbers.                                                      *)
LEMMA SumsNat == HeapInv /\ Up /\ Finite => SumsTyped
<1> SUFFICES ASSUME HeapInv, Up, Finite PROVE SumsTyped
  OBVIOUS
<1>1. HeldBytes \in [Live -> Nat] /\ HugeBytes \in [huge_list -> Nat]
  BY HeldTyped, HugeTyped DEF HeldIsTyped, HugeIsTyped
<1>2. HeldSum \in Nat /\ HugeSum \in Nat
  BY <1>1, TotalIs, SumsExist DEF HeldSum, HugeSum, Finite
<1>3. Cardinality(huge_list) \in Nat /\ Cardinality(Chunks) \in Nat
  BY FS_CardinalityType DEF Finite
<1>4. HeaderSum \in Nat /\ ChunkSum \in Nat
  BY <1>3, FixedBytes, OnceMore DEF HeaderSum, ChunkSum
<1> QED BY <1>2, <1>4 DEF SumsTyped

(* Sums that are right are all there is to show while the allocator is up.    *)
LEMMA CountsRight == HeapInv /\ Up /\ Finite /\ SumsExact => CountInv
<1> SUFFICES ASSUME HeapInv, Up, Finite, SumsExact PROVE CountInv
  OBVIOUS
<1>1. SumsTyped
  BY SumsNat
<1> QED BY <1>1 DEF CountInv, SumsExact, SumsTyped

(* __jbl_malloc_small for a caller.                                           *)
LEMMA MallocSmallCounts ==
  ASSUME HeapInv, HeapInv', Up, Up', CountInv, pc.op # "reclaim", pc'.op # "reclaim",
         NEW sz \in Sizes, sz <= SmallMax, NEW a, MallocSmall(sz, a), Live' = Live \cup {a}
  PROVE  CountInv'
<1>1. PICK t : t = BinFor(sz)
  OBVIOUS
<1>2. t \in Bin
  <2>1. sz \in Nat \ {0}
    BY MallocFastAssumption
  <2> QED BY <1>1, <2>1, BinForRight
<1>3. /\ TakeSmall(t, a) /\ huge_list' = huge_list
      /\ heap_size' = heap_size + BinBytes[t] /\ applied_size' = applied_size + ChunkMapped
  BY <1>1 DEF MallocSmall
<1>4. KeepsHeap({}) /\ a \notin Live
  BY <1>2, <1>3, MallocSmallKeeps
<1>5. /\ Finite /\ SumsExact
  BY DEF CountInv
<1>6. SumsTyped
  BY <1>5, SumsNat
<1>7. /\ IsFiniteSet(Live') /\ MallocSize(a)' \in Nat
      /\ HeldSum' = HeldSum + MallocSize(a)'
  BY <1>4, <1>5, HeldMore DEF Finite, HeldSum
<1>8. MallocSize(a)' = BinBytes[t]
  <2>1. /\ PageInv /\ slot \in [Bin -> Seq(Addr)] /\ Sound(Used)
    BY DEF HeapInv, HeapTypeOK
  <2>2. InSmallRun(t, a)'
    BY <1>2, <1>3, <2>1, TakeSmallStep
  <2>3. HugePtrs' = HugePtrs /\ HugePtrs \subseteq Live
    BY <1>3 DEF HugePtrs, HeapInv, HugeApart
  <2>4. HeapInv' /\ Up' => SmallSized'
    BY SmallBytes, PTL
  <2> QED BY <1>2, <1>4, <2>2, <2>3, <2>4 DEF SmallSized
<1>9. HeaderSum' = HeaderSum /\ HugeSum' = HugeSum /\ IsFiniteSet(huge_list')
  BY <1>3, <1>5, HugeSame DEF HeaderSum, HugeSum, Finite
<1>10. /\ IsFiniteSet(Chunks') /\ ChunkMapped \in Nat
       /\ ChunkSum' = ChunkSum + ChunkMapped
  BY <1>3, <1>5, SmallChunks, ChunksCounted DEF Finite, ChunkSum
<1>11. SumsExact'
  BY <1>3, <1>5, <1>6, <1>7, <1>8, <1>9, <1>10 DEF SumsExact, SumsTyped
<1>12. Finite'
  BY <1>7, <1>9, <1>10 DEF Finite
<1>13. HeapInv' /\ Up' /\ Finite' /\ SumsExact' => CountInv'
  BY CountsRight, PTL
<1> QED BY <1>11, <1>12, <1>13

(* __jbl_malloc_large.                                                        *)
LEMMA MallocLargeCounts ==
  ASSUME HeapInv, HeapInv', Up, Up', CountInv, pc.op # "reclaim", pc'.op # "reclaim",
         NEW sz \in Sizes, SmallMax < sz, sz <= LargeMax, NEW a, MallocLarge(sz, a),
         Live' = Live \cup {a}
  PROVE  CountInv'
<1>1. PICK nums : nums = RoundUp(sz)
  OBVIOUS
<1>2. nums \in 1 .. (PageCount - 1)
  <2>1. sz \in Nat \ {0}
    BY MallocFastAssumption
  <2> QED BY <1>1, <2>1, RoundUpRight
<1>3. /\ huge_list' = huge_list /\ slot' = slot
      /\ heap_size' = heap_size + nums * PageBytes /\ applied_size' = applied_size + ChunkMapped
  BY <1>1 DEF MallocLarge
<1>4. PICK r \in Places(nums) : /\ r.c \notin HugeAreas
                                /\ MallocPage(nums, LargeMark(nums), r) /\ a = StartOf(r)
  BY <1>1 DEF MallocLarge, StartOf
<1>5. KeepsHeap({}) /\ a \notin Live
  BY <1>2, <1>3, <1>4, MallocLargeKeeps
<1>6. Finite /\ SumsExact
  BY DEF CountInv
<1>7. SumsTyped
  BY <1>6, SumsNat
<1>8. /\ IsFiniteSet(Live') /\ MallocSize(a)' \in Nat
      /\ HeldSum' = HeldSum + MallocSize(a)'
  BY <1>5, <1>6, HeldMore DEF Finite, HeldSum
<1>9. MallocSize(a)' = nums * PageBytes
  <2>1. PageInv /\ LargeMark(nums) \in PageMarks(nums)
    BY DEF HeapInv, PageMarks
  <2>2. /\ r.n = nums /\ r.i \in Nat /\ nums \in Nat /\ nums > 0 /\ r \in runs'
        /\ \A p \in RunPages(r) : map'[r.c][p] = [LargeMark(nums) EXCEPT !.off = p - r.i]
    BY <1>2, <1>4, <2>1, MallocPageFacts, Geometry
  <2>3. r.i \in RunPages(r)
    BY <2>2 DEF RunPages
  <2>4. LargeRun(r)'
    BY <2>2, <2>3 DEF LargeRun, LargeMark
  <2>5. HugePtrs' = HugePtrs /\ HugePtrs \subseteq Live
    BY <1>3 DEF HugePtrs, HeapInv, HugeApart
  <2>6. HeapInv' /\ Up' => LargeSized'
    BY LargeBytes, PTL
  <2>7. StartOf(r)' = StartOf(r)
    BY DEF StartOf
  <2> QED BY <1>4, <1>5, <2>2, <2>4, <2>5, <2>6, <2>7 DEF LargeSized
<1>10. HeaderSum' = HeaderSum /\ HugeSum' = HugeSum /\ IsFiniteSet(huge_list')
  BY <1>3, <1>6, HugeSame DEF HeaderSum, HugeSum, Finite
<1>11. /\ IsFiniteSet(Chunks') /\ ChunkMapped \in Nat
       /\ ChunkSum' = ChunkSum + ChunkMapped
  BY <1>4, <1>6, PageChunks, ChunksCounted DEF Finite, ChunkSum
<1>12. SumsExact'
  BY <1>3, <1>6, <1>7, <1>8, <1>9, <1>10, <1>11 DEF SumsExact, SumsTyped
<1>13. Finite'
  BY <1>8, <1>10, <1>11 DEF Finite
<1>14. HeapInv' /\ Up' /\ Finite' /\ SumsExact' => CountInv'
  BY CountsRight, PTL
<1> QED BY <1>12, <1>13, <1>14

(* __jbl_malloc_huge: the block's bytes, its header's, and its own area.      *)
LEMMA MallocHugeCounts ==
  ASSUME HeapInv, HeapInv', Up, Up', CountInv, pc.op # "reclaim", pc'.op # "reclaim",
         NEW sz \in Sizes, sz > LargeMax, NEW a \in HugeOffers, MallocHuge(sz, a),
         Live' = Live \cup {a}
  PROVE  CountInv'
<1>1. PICK t, bytes : t = BinFor(HugeHeader) /\ bytes = RoundUp(sz) * PageBytes
  OBVIOUS
<1>2. HeaderBytes \in Nat /\ BinBytes[t] = HeaderBytes
  BY <1>1, FixedBytes DEF HeaderBytes
<1>3. PICK h : /\ TakeSmall(t, h)
               /\ huge_list' = huge_list \cup {[ptr |-> a, size |-> bytes, this |-> h]}
               /\ heap_size' = heap_size + BinBytes[t] + bytes
               /\ applied_size' = applied_size + ChunkMapped + bytes
  BY <1>1 DEF MallocHuge
<1>4. PICK e : e = [ptr |-> a, size |-> bytes, this |-> h]
  OBVIOUS
<1>5. huge_list' = huge_list \cup {e} /\ e.ptr = a /\ e.size = bytes
  BY <1>3, <1>4
<1>6. KeepsHeap({}) /\ a \notin Live
  BY MallocHugeKeeps
<1>7. Finite /\ SumsExact
  BY DEF CountInv
<1>8. SumsTyped
  BY <1>7, SumsNat
<1>9. /\ IsFiniteSet(Live') /\ MallocSize(a)' \in Nat
      /\ HeldSum' = HeldSum + MallocSize(a)'
  BY <1>6, <1>7, HeldMore DEF Finite, HeldSum
<1>10. MallocSize(a)' = bytes
  <2>1. HeapInv' /\ Up' => HugeSized'
    BY HugeBlockBytes, PTL
  <2> QED BY <1>5, <2>1 DEF HugeSized
<1>11. e \notin huge_list
  BY <1>5, <1>6 DEF HeapInv, HugeApart, HugePtrs
<1>12. /\ IsFiniteSet(huge_list') /\ Cardinality(huge_list) \in Nat
       /\ Cardinality(huge_list') = Cardinality(huge_list) + 1
       /\ HugeSum' = HugeSum + bytes
  BY <1>5, <1>7, <1>11, HugeMore DEF Finite, HugeSum
<1>13. HeaderSum' = HeaderSum + HeaderBytes
  <2>1. HeaderSum' = Cardinality(huge_list') * HeaderBytes
    BY DEF HeaderSum, HeaderBytes
  <2> QED BY <1>2, <1>12, <2>1, OnceMore DEF HeaderSum
<1>14. /\ IsFiniteSet(Chunks') /\ ChunkMapped \in Nat
       /\ ChunkSum' = ChunkSum + ChunkMapped
  BY <1>3, <1>7, SmallChunks, ChunksCounted DEF Finite, ChunkSum
<1>15. bytes \in Nat
  BY <1>9, <1>10
<1>16. SumsExact'
  BY <1>2, <1>3, <1>7, <1>8, <1>9, <1>10, <1>12, <1>13, <1>14, <1>15 DEF SumsExact, SumsTyped
<1>17. Finite'
  BY <1>9, <1>12, <1>14 DEF Finite
<1>18. HeapInv' /\ Up' /\ Finite' /\ SumsExact' => CountInv'
  BY CountsRight, PTL
<1> QED BY <1>16, <1>17, <1>18

(* jbl_malloc, whatever the size.                                             *)
LEMMA MallocBlockCounts ==
  ASSUME HeapInv, HeapInv', Up, Up', CountInv, pc.op # "reclaim", pc'.op # "reclaim",
         NEW sz \in Sizes, NEW a \in Offers(sz), MallocBlock(sz, a), Holds(a, sz)
  PROVE  CountInv'
<1>1. Live' = Live \cup {a}
  BY DEF Holds, Live
<1>2. sz \in Nat /\ SmallMax \in Nat /\ LargeMax \in Int /\ SmallMax < LargeMax
  <2>1. PageCount - 1 \in 1 .. (PageCount - 1) /\ PageCount = BitLimit
        /\ LargeMax = (BitLimit - 1) * PageBytes /\ SmallMax \in Nat /\ PageBytes \in Nat
    BY Geometry
  <2>2. (PageCount - 1) * PageBytes > SmallMax /\ (PageCount - 1) * PageBytes \in Nat
    BY <2>1, RunSize
  <2> QED BY <2>1, <2>2, MallocFastAssumption
<1>3. CASE sz <= SmallMax /\ MallocSmall(sz, a)
  BY <1>1, <1>3, MallocSmallCounts
<1>4. CASE SmallMax < sz /\ sz <= LargeMax /\ MallocLarge(sz, a)
  BY <1>1, <1>4, MallocLargeCounts
<1>5. CASE LargeMax < sz /\ MallocHuge(sz, a)
  <2>1. sz > LargeMax /\ ~ (sz <= LargeMax) /\ ~ (sz <= SmallMax)
    BY <1>2, <1>5
  <2>2. a \in HugeOffers
    BY <2>1 DEF Offers
  <2> QED BY <1>1, <1>5, <2>1, <2>2, MallocHugeCounts
<1> QED BY <1>3, <1>4, <1>5 DEF MallocBlock
-----------------------------------------------------------------------------
(* A small block given back.                                                  *)
LEMMA FreeSmallCounts ==
  ASSUME HeapInv, HeapInv', Up, Up', CountInv, pc.op # "reclaim", pc'.op # "reclaim",
         NEW a \in Live, NEW t \in Bin, IsSmallOf(t, a), FreeSmall(a), Forget(a)
  PROVE  CountInv'
<1>1. KeepsHeap({}) /\ Live' = Live \ {a}
  BY FreeSmallKeeps DEF Forget, Live
<1>2. /\ UNCHANGED pageVars /\ huge_list' = huge_list /\ applied_size' = applied_size
      /\ heap_size' = heap_size - MallocSize(a)
  BY DEF FreeSmall, IsSmallOf, MallocSize
<1>3. Finite /\ SumsExact
  BY DEF CountInv
<1>4. SumsTyped
  BY <1>3, SumsNat
<1>5. /\ IsFiniteSet(Live') /\ MallocSize(a) \in Nat
      /\ HeldSum = HeldSum' + MallocSize(a)
  BY <1>1, <1>3, HeldLess DEF Finite, HeldSum
<1>6. HeaderSum' = HeaderSum /\ HugeSum' = HugeSum /\ IsFiniteSet(huge_list')
  BY <1>2, <1>3, HugeSame DEF HeaderSum, HugeSum, Finite
<1>7. ChunkSum' = ChunkSum /\ IsFiniteSet(Chunks')
  BY <1>2, <1>3 DEF ChunkSum, Chunks, ChunkBytes, Finite, pageVars
<1>8. Finite'
  BY <1>5, <1>6, <1>7 DEF Finite
<1>9. HeapInv' /\ Up' /\ Finite' => SumsTyped'
  BY SumsNat, PTL
<1>10. SumsExact'
  BY <1>2, <1>3, <1>4, <1>5, <1>6, <1>7, <1>8, <1>9 DEF SumsExact, SumsTyped
<1>11. HeapInv' /\ Up' /\ Finite' /\ SumsExact' => CountInv'
  BY CountsRight, PTL
<1> QED BY <1>8, <1>10, <1>11

(* A large one: the bytes of its pages.                                       *)
LEMMA FreeLargeCounts ==
  ASSUME HeapInv, HeapInv', Up, Up', CountInv, pc.op # "reclaim", pc'.op # "reclaim",
         NEW a \in Live, NEW r \in runs, IsLargeAt(r, a), FreeLarge(a), Forget(a)
  PROVE  CountInv'
<1>1. KeepsHeap({}) /\ Live' = Live \ {a}
  BY FreeLargeKeeps DEF Forget, Live
<1>2. /\ main' = main /\ cached' = cached /\ huge_list' = huge_list
      /\ applied_size' = applied_size /\ heap_size' = heap_size - MallocSize(a)
  BY DEF FreeLarge, FreePage, IsLargeAt, MarkPages
<1>3. Finite /\ SumsExact
  BY DEF CountInv
<1>4. SumsTyped
  BY <1>3, SumsNat
<1>5. /\ IsFiniteSet(Live') /\ MallocSize(a) \in Nat
      /\ HeldSum = HeldSum' + MallocSize(a)
  BY <1>1, <1>3, HeldLess DEF Finite, HeldSum
<1>6. HeaderSum' = HeaderSum /\ HugeSum' = HugeSum /\ IsFiniteSet(huge_list')
  BY <1>2, <1>3, HugeSame DEF HeaderSum, HugeSum, Finite
<1>7. ChunkSum' = ChunkSum /\ IsFiniteSet(Chunks')
  BY <1>2, <1>3 DEF ChunkSum, Chunks, ChunkBytes, Finite
<1>8. Finite'
  BY <1>5, <1>6, <1>7 DEF Finite
<1>9. HeapInv' /\ Up' /\ Finite' => SumsTyped'
  BY SumsNat, PTL
<1>10. SumsExact'
  BY <1>2, <1>3, <1>4, <1>5, <1>6, <1>7, <1>8, <1>9 DEF SumsExact, SumsTyped
<1>11. HeapInv' /\ Up' /\ Finite' /\ SumsExact' => CountInv'
  BY CountsRight, PTL
<1> QED BY <1>8, <1>10, <1>11

(* A huge one: its area's bytes and its header's.                             *)
LEMMA FreeHugeCounts ==
  ASSUME HeapInv, HeapInv', Up, Up', CountInv, pc.op # "reclaim", pc'.op # "reclaim",
         NEW a \in Live, a \in HugePtrs, FreeHuge(a), Forget(a)
  PROVE  CountInv'
<1>1. KeepsHeap({}) /\ Live' = Live \ {a}
  BY FreeHugeKeeps DEF Forget, Live
<1>2. PICK g \in huge_list : g.ptr = a
  BY DEF HugePtrs
<1>3. HugeOf(a) = g /\ MallocSize(a) = g.size
  BY <1>2, HugeBlockBytes DEF HugeSized
<1>4. BinBytes[MarkOf(g.this).val] = HeaderBytes /\ HeaderBytes \in Nat
  <2>1. BinFor(HugeHeader) \in Bin
    BY BinForRight, MallocFastAssumption
  <2>2. g.this \in Headers /\ PageInv /\ MarksSpread /\ HugeApart
    BY DEF Headers, HeapInv, Sound
  <2>3. MarkOf(g.this).val = BinFor(HugeHeader)
    BY <2>1, <2>2, InSmallRunFacts DEF HugeApart
  <2> QED BY <2>3, FixedBytes DEF HeaderBytes
<1>5. /\ UNCHANGED pageVars /\ huge_list' = huge_list \ {g}
      /\ applied_size' = applied_size - g.size /\ heap_size' = heap_size - g.size - HeaderBytes
  BY <1>3, <1>4 DEF FreeHuge
<1>6. Finite /\ SumsExact
  BY DEF CountInv
<1>7. SumsTyped
  BY <1>6, SumsNat
<1>8. IsFiniteSet(Live') /\ HeldSum = HeldSum' + g.size
  BY <1>1, <1>3, <1>6, HeldLess DEF Finite, HeldSum
<1>9. /\ IsFiniteSet(huge_list') /\ g.size \in Nat /\ Cardinality(huge_list') \in Nat
      /\ Cardinality(huge_list) = Cardinality(huge_list') + 1
      /\ HugeSum = HugeSum' + g.size
  BY <1>5, <1>6, HugeLess DEF Finite, HugeSum
<1>10. HeaderSum = HeaderSum' + HeaderBytes
  <2>1. HeaderSum' = Cardinality(huge_list') * HeaderBytes
    BY DEF HeaderSum, HeaderBytes
  <2> QED BY <1>4, <1>9, <2>1, OnceMore DEF HeaderSum
<1>11. ChunkSum' = ChunkSum /\ IsFiniteSet(Chunks')
  BY <1>5, <1>6 DEF ChunkSum, Chunks, ChunkBytes, Finite, pageVars
<1>12. Finite'
  BY <1>8, <1>9, <1>11 DEF Finite
<1>13. HeapInv' /\ Up' /\ Finite' => SumsTyped'
  BY SumsNat, PTL
<1>14. SumsExact'
  BY <1>4, <1>5, <1>6, <1>7, <1>8, <1>9, <1>10, <1>11, <1>12, <1>13 DEF SumsExact, SumsTyped
<1>15. HeapInv' /\ Up' /\ Finite' /\ SumsExact' => CountInv'
  BY CountsRight, PTL
<1> QED BY <1>12, <1>14, <1>15

(* jbl_realloc in place: the bytes of the pages it takes more.                *)
LEMMA ReallocInPlaceCounts ==
  ASSUME HeapInv, HeapInv', Up, Up', CountInv, NEW a \in Live, NEW sz \in Sizes,
         ReallocInPlace(a, sz)
  PROVE  CountInv'
<1>1. KeepsHeap({a}) /\ Live' = Live
  BY ReallocInPlaceKeeps
<1>2. PICK nums : nums = ReallocPages(sz)
  OBVIOUS
<1>3. /\ InPlace(a, sz) /\ GrowPages(a.c, PageOf(a), nums)
      /\ heap_size' = heap_size + (nums - MarkOf(a).val) * PageBytes
      /\ huge_list' = huge_list /\ applied_size' = applied_size
  BY <1>2 DEF ReallocInPlace
<1>4. PICK r \in runs : IsLargeAt(r, a)
  <2>1. SmallMax < MallocSize(a) /\ MallocSize(a) <= LargeMax
    BY <1>3 DEF InPlace, IsLarge
  <2> QED BY <2>1, BlockKinds DEF IsHuge, IsSmallOf
<1>5. /\ MarkOf(a).val = r.n /\ MallocSize(a) = r.n * PageBytes /\ a = StartOf(r)
      /\ GrowPages(r.c, r.i, nums)
  BY <1>3, <1>4 DEF IsLargeAt
<1>6. Finite /\ SumsExact
  BY DEF CountInv
<1>7. SumsTyped
  BY <1>6, SumsNat
<1>8. /\ MallocSize(a) \in Nat /\ MallocSize(a)' \in Nat
      /\ HeldSum' + MallocSize(a) = HeldSum + MallocSize(a)'
  BY <1>1, <1>6, HeldGrown DEF Finite, HeldSum
<1>9. MallocSize(a)' = nums * PageBytes /\ nums \in Nat /\ r.n \in Nat /\ PageBytes \in Nat
  <2>1. PICK q : q = [c |-> r.c, i |-> r.i, n |-> nums]
    OBVIOUS
  <2>2. q \in runs'
    BY <1>5, <2>1 DEF GrowPages
  <2>3. /\ q.n \in 1 .. (PageCount - 1) /\ r.n \in 1 .. (PageCount - 1) /\ r.i \in Page
        /\ r.c \in Region /\ map \in [Region -> [Page -> Mark]] /\ PageBytes \in Nat
    <3>1. runs' \subseteq Run /\ runs \subseteq Run /\ map \in [Region -> [Page -> Mark]]
      BY DEF HeapInv, PageInv, PageTypeOK
    <3> QED BY <2>2, <3>1, Geometry DEF Run
  <2>4. nums \in Nat /\ r.n \in Nat /\ r.i \in Nat /\ nums > 0
    BY <2>1, <2>3 DEF Page
  <2>5. map' = [map EXCEPT ![r.c] = Marked(@, r.i, nums, LargeMark(nums))]
    BY <1>5 DEF GrowPages
  <2>6. map'[r.c][r.i].kind = "large"
    BY <2>3, <2>4, <2>5 DEF Marked, LargeMark
  <2>7. LargeRun(q)'
    BY <2>1, <2>6 DEF LargeRun
  <2>8. StartOf(q)' = a
    BY <1>5, <2>1 DEF StartOf
  <2>9. a \notin HugePtrs'
    BY <1>3, <1>4 DEF HugePtrs, IsLargeAt
  <2>10. HeapInv' /\ Up' => LargeSized'
    BY LargeBytes, PTL
  <2>11. MallocSize(a)' = q.n * PageBytes
    BY <2>2, <2>7, <2>8, <2>9, <2>10 DEF LargeSized
  <2> QED BY <2>1, <2>3, <2>4, <2>11
<1>10. (nums - r.n) * PageBytes = MallocSize(a)' - MallocSize(a)
  <2>1. \A n, k, b \in Nat : (n - k) * b = n * b - k * b
    OBVIOUS
  <2> QED BY <1>5, <1>9, <2>1
<1>11. HeaderSum' = HeaderSum /\ HugeSum' = HugeSum /\ IsFiniteSet(huge_list')
  BY <1>3, <1>6, HugeSame DEF HeaderSum, HugeSum, Finite
<1>12. ChunkSum' = ChunkSum /\ IsFiniteSet(Chunks')
  BY <1>5, <1>6 DEF ChunkSum, Chunks, ChunkBytes, Finite, GrowPages
<1>13. Finite'
  BY <1>1, <1>6, <1>11, <1>12 DEF Finite
<1>14. HeapInv' /\ Up' /\ Finite' => SumsTyped'
  BY SumsNat, PTL
<1>15. SumsExact'
  <2>1. heap_size' = heap_size + (MallocSize(a)' - MallocSize(a))
    BY <1>3, <1>5, <1>10
  <2> QED BY <1>3, <1>6, <1>7, <1>8, <1>11, <1>12, <1>13, <1>14, <2>1 DEF SumsExact, SumsTyped
<1>16. HeapInv' /\ Up' /\ Finite' /\ SumsExact' => CountInv'
  BY CountsRight, PTL
<1> QED BY <1>13, <1>15, <1>16

(* Steps that leave the counts as they are, and the blocks and chunks too.    *)
LEMMA QuietCounts ==
  ASSUME HeapInv, HeapInv', Up, Up', CountInv, KeepsHeap({}), Live' = Live,
         huge_list' = huge_list, Chunks' = Chunks,
         heap_size' = heap_size, applied_size' = applied_size
  PROVE  CountInv'
<1>1. Finite /\ SumsExact
  BY DEF CountInv
<1>2. HeldSum' = HeldSum /\ HeaderSum' = HeaderSum /\ HugeSum' = HugeSum /\ ChunkSum' = ChunkSum
  BY HeldSame, HugeSame DEF HeldSum, HeaderSum, HeaderBytes, HugeSum, ChunkSum, ChunkBytes
<1>3. Finite' /\ SumsExact'
  BY <1>1, <1>2 DEF Finite, SumsExact
<1>4. HeapInv' /\ Up' /\ Finite' /\ SumsExact' => CountInv'
  BY CountsRight, PTL
<1> QED BY <1>3, <1>4

(* __jbl_free_cached_chunks: the cached chunks' bytes are taken off.          *)
LEMMA ReleaseChunksCounts ==
  ASSUME HeapInv, HeapInv', Up, Up', CountInv, KeepsHeap({}), ReleaseChunks
  PROVE  CountInv'
<1>1. /\ main' = main /\ cached' = {} /\ huge_list' = huge_list /\ Live' = Live
      /\ heap_size' = heap_size
      /\ applied_size' = applied_size - Cardinality(cached) * ChunkBytes
  BY DEF ReleaseChunks, FreeCachedChunks, Live
<1>2. Finite /\ SumsExact
  BY DEF CountInv
<1>3. HeldSum' = HeldSum /\ HeaderSum' = HeaderSum /\ HugeSum' = HugeSum
  BY <1>1, HeldSame, HugeSame DEF HeldSum, HeaderSum, HeaderBytes, HugeSum
<1>4. IsFiniteSet(main) /\ IsFiniteSet(cached) /\ main \cap cached = {}
  <2>1. main \subseteq Chunks /\ cached \subseteq Chunks
    BY DEF Chunks
  <2>2. ChunksSeparate
    BY DEF HeapInv, PageInv
  <2> QED BY <1>2, <2>1, <2>2, FS_Subset DEF Finite, ChunksSeparate
<1>5. PICK n, k, b : n = Cardinality(main) /\ k = Cardinality(cached) /\ b = ChunkBytes
  OBVIOUS
<1>6. n \in Nat /\ k \in Nat /\ b \in Nat
  BY <1>4, <1>5, FixedBytes, FS_CardinalityType
<1>7. Cardinality(Chunks) = n + k
  <2>1. Cardinality(main \cup cached) = n + k - Cardinality(main \cap cached)
    BY <1>4, <1>5, FS_Union
  <2>2. Cardinality({}) = 0
    BY FS_EmptySet
  <2>3. Cardinality(main \cap cached) = 0
    BY <1>4, <2>2
  <2>4. n + k - 0 = n + k
    BY <1>6
  <2> QED BY <2>1, <2>3, <2>4 DEF Chunks
<1>8. Chunks' = main /\ Finite'
  BY <1>1, <1>2, <1>4 DEF Chunks, Finite
<1>9. ChunkSum' = n * b /\ ChunkSum = (n + k) * b
  BY <1>5, <1>7, <1>8 DEF ChunkSum, ChunkBytes
<1>10. (n + k) * b = n * b + k * b /\ n * b \in Nat /\ k * b \in Nat
  BY ONLY <1>6
<1>11. SumsTyped
  BY <1>2, SumsNat
<1>12. SumsExact'
  BY <1>1, <1>2, <1>3, <1>5, <1>9, <1>10, <1>11 DEF SumsExact, SumsTyped
<1>13. HeapInv' /\ Up' /\ Finite' /\ SumsExact' => CountInv'
  BY CountsRight, PTL
<1> QED BY <1>8, <1>12, <1>13
-----------------------------------------------------------------------------
(* Nothing is counted at the start.                                           *)
LEMMA CountInvInit == Init => CountInv
<1> SUFFICES ASSUME Init PROVE CountInv
  OBVIOUS
<1>1. Live = {} /\ huge_list = {} /\ Chunks = {} /\ heap_size = 0 /\ applied_size = 0
  BY DEF Init, PageInit, Live, Chunks
<1>2. IsFiniteSet({}) /\ Cardinality({}) = 0
  BY FS_EmptySet
<1>3. HeldBytes \in [Live -> Nat] /\ HugeBytes \in [huge_list -> Nat]
  BY <1>1 DEF HeldBytes, HugeBytes
<1>4. HeldSum = 0 /\ HugeSum = 0
  BY <1>1, <1>2, <1>3, TotalIs DEF HeldSum, HugeSum
<1>5. HeaderSum = 0 /\ ChunkSum = 0
  BY <1>1, <1>2, FixedBytes DEF HeaderSum, ChunkSum
<1> QED BY <1>1, <1>2, <1>4, <1>5 DEF CountInv, Finite, SumsExact

(* jbl_free of a held block, by each of its three branches.                   *)
LEMMA FreeCounts ==
  ASSUME HeapInv, HeapInv', Up, Up', CountInv, NEW a \in Live, Free(a)
  PROVE  CountInv'
<1>1. pc.op # "reclaim" /\ pc'.op # "reclaim" /\ Forget(a)
  BY DEF Free, Idle
<1>2. ASSUME IsHuge(a) PROVE CountInv'
  BY <1>1, <1>2, FreeHugeCounts DEF Free, IsHuge
<1>3. ASSUME NEW t \in Bin, IsSmallOf(t, a) PROVE CountInv'
  BY <1>1, <1>3, FreeSmallCounts DEF Free, IsSmallOf
<1>4. ASSUME NEW r \in runs, IsLargeAt(r, a) PROVE CountInv'
  BY <1>1, <1>4, FreeLargeCounts DEF Free, IsLargeAt
<1> QED BY <1>2, <1>3, <1>4, BlockKinds

(* The end of a moving jbl_realloc.                                           *)
LEMMA ReallocFreeOldCounts ==
  ASSUME HeapInv, HeapInv', Up, Up', CountInv, ReallocFreeOld
  PROVE  CountInv'
<1> PICK a : a = pc.old
  OBVIOUS
<1>1. a \in Live
  BY DEF ReallocFreeOld, HeapInv, HeapTypeOK, Idle, Stopping, Stopped, Moving, Reclaiming
<1>2. Forget(a) /\ pc.op # "reclaim" /\ pc'.op # "reclaim"
  BY DEF ReallocFreeOld, Idle
<1>3. /\ MallocSize(a) <= SmallMax => FreeSmall(a)
      /\ ~ (MallocSize(a) <= SmallMax) /\ MallocSize(a) <= LargeMax => FreeLarge(a)
      /\ ~ (MallocSize(a) <= SmallMax) /\ ~ (MallocSize(a) <= LargeMax) => FreeHuge(a)
  BY DEF ReallocFreeOld
<1>4. MallocSize(a) \in Nat /\ SmallMax \in Nat /\ LargeMax \in Nat
  BY <1>1, BlockKinds
<1>5. ASSUME IsHuge(a) PROVE CountInv'
  <2>1. FreeHuge(a) /\ a \in HugePtrs
    BY <1>3, <1>4, <1>5 DEF IsHuge
  <2> QED BY <1>1, <1>2, <2>1, FreeHugeCounts
<1>6. ASSUME NEW t \in Bin, IsSmallOf(t, a) PROVE CountInv'
  <2>1. FreeSmall(a)
    BY <1>3, <1>6 DEF IsSmallOf
  <2> QED BY <1>1, <1>2, <1>6, <2>1, FreeSmallCounts
<1>7. ASSUME NEW r \in runs, IsLargeAt(r, a) PROVE CountInv'
  <2>1. FreeLarge(a)
    BY <1>3, <1>4, <1>7 DEF IsLargeAt
  <2> QED BY <1>1, <1>2, <1>7, <2>1, FreeLargeCounts
<1> QED BY <1>1, <1>5, <1>6, <1>7, BlockKinds

(* jbl_realloc that stays, grows in place, or takes a new block.              *)
LEMMA ReallocCounts ==
  ASSUME HeapInv, HeapInv', Up, Up', CountInv, NEW a \in Live, NEW sz \in Sizes, Realloc(a, sz)
  PROVE  CountInv'
<1>1. CASE ReallocKeep(a, sz)
  <2>1. /\ slot' = slot /\ UNCHANGED pageVars /\ huge_list' = huge_list
        /\ heap_size' = heap_size /\ applied_size' = applied_size /\ pc' = pc /\ Live' = Live
    BY <1>1 DEF ReallocKeep, Live
  <2>2. \A u \in Bin : Ahead(u)' \subseteq Ahead(u)
    BY <2>1 DEF Ahead, Behind
  <2>3. KeepsHeap({}) /\ Chunks' = Chunks
    BY <2>1, <2>2, QuietKeeps DEF pageVars, Chunks
  <2> QED BY <2>1, <2>3, QuietCounts
<1>2. CASE ReallocInPlace(a, sz)
  BY <1>2, ReallocInPlaceCounts
<1>3. CASE ReallocMove(a, sz)
  <2>1. PICK b \in Offers(sz) : MallocBlock(sz, b) /\ Holds(b, sz)
    BY <1>3 DEF ReallocMove
  <2>2. pc.op # "reclaim" /\ pc'.op # "reclaim"
    BY <1>3 DEF ReallocMove, Idle, Moving
  <2> QED BY <2>1, <2>2, MallocBlockCounts
<1> QED BY <1>1, <1>2, <1>3 DEF Realloc

(* Every step of the allocator keeps the counts.                              *)
LEMMA CountInvNext ==
  ASSUME HeapInv, HeapInv', CountInv, [Next]_vars
  PROVE  CountInv'
<1>1. CASE UNCHANGED vars
  <2>1. /\ UNCHANGED <<slot, map, fmap, runs, main, cached, free_pages, huge_list, asked,
                       heap_size, applied_size, pc>>
        /\ Live' = Live /\ Chunks' = Chunks /\ UNCHANGED pageVars
    BY <1>1 DEF vars, heapVars, pageVars, Live, Chunks
  <2>2. CASE Up
    <3>1. \A u \in Bin : Ahead(u)' \subseteq Ahead(u)
      BY <2>1 DEF Ahead, Behind
    <3>2. KeepsHeap({})
      BY <2>1, <2>2, <3>1, QuietKeeps
    <3>3. Up'
      BY <2>1, <2>2 DEF Up, Stopped
    <3> QED BY <2>1, <2>2, <3>2, <3>3, QuietCounts
  <2>3. CASE ~ Up
    <3>1. ~ Up'
      BY <2>1, <2>3 DEF Up, Stopped
    <3> QED BY <2>1, <3>1 DEF CountInv, Finite
  <2> QED BY <2>2, <2>3
<1>2. CASE Next
  <2>1. Up
    BY <1>2 DEF Next, Up, Malloc, Free, Realloc, ReallocKeep, ReallocInPlace, ReallocMove,
         ReallocFreeOld, FreeSmalls, ReclaimStep, ReclaimCount, ReclaimRun, ReclaimNextBin,
         ReclaimChunks, ReleaseChunks, BeginStop, StopHuge, StopChunks,
         Idle, Stopping, Stopped
  <2>2. ASSUME NEW sz \in Sizes, Malloc(sz) PROVE CountInv'
    <3>1. PICK a \in Offers(sz) : MallocBlock(sz, a) /\ Holds(a, sz)
      BY <2>2 DEF Malloc
    <3>2. Up' /\ pc.op # "reclaim" /\ pc'.op # "reclaim"
      BY <2>2 DEF Malloc, Idle, Up, Stopped
    <3> QED BY <2>1, <3>1, <3>2, MallocBlockCounts
  <2>3. ASSUME NEW a \in Live, Free(a) PROVE CountInv'
    <3>1. Up'
      BY <2>3 DEF Free, Idle, Up, Stopped
    <3> QED BY <2>1, <2>3, <3>1, FreeCounts
  <2>4. ASSUME NEW a \in Live, NEW sz \in Sizes, Realloc(a, sz) PROVE CountInv'
    <3>1. Up'
      BY <2>4 DEF Realloc, ReallocKeep, ReallocInPlace, ReallocMove, Idle, Moving, Up, Stopped
    <3> QED BY <2>1, <2>4, <3>1, ReallocCounts
  <2>5. ASSUME ReallocFreeOld PROVE CountInv'
    <3>1. Up'
      BY <2>5 DEF ReallocFreeOld, Idle, Up, Stopped
    <3> QED BY <2>1, <2>5, <3>1, ReallocFreeOldCounts
  <2>6. ASSUME ReclaimStep PROVE CountInv'
    <3>1. KeepsHeap({})
      BY <2>1, <2>6, ReclaimStepKeeps
    <3>2. /\ Up' /\ Live' = Live /\ Chunks' = Chunks
          /\ UNCHANGED <<huge_list, heap_size, applied_size>>
      BY <2>6 DEF ReclaimStep, ReclaimCount, ReclaimRun, ReclaimNextBin, CountFreed, FreePage,
           Chunks, Live, Up, Stopped, Idle, Reclaiming
    <3> QED BY <2>1, <3>1, <3>2, QuietCounts
  <2>7. ASSUME FreeSmalls \/ ReclaimChunks \/ BeginStop PROVE CountInv'
    <3>1. KeepsHeap({})
      BY <2>1, <2>7, OtherSteps
    <3>2. /\ Up' /\ Live' = Live /\ Chunks' = Chunks
          /\ UNCHANGED <<huge_list, heap_size, applied_size>>
      BY <2>7 DEF FreeSmalls, ReclaimChunks, FreeChunks, BeginStop, Chunks, Live, Up, Stopped,
           Idle, Reclaiming, Stopping, heapVars, pageVars
    <3> QED BY <2>1, <3>1, <3>2, QuietCounts
  <2>8. ASSUME ReleaseChunks PROVE CountInv'
    <3>1. KeepsHeap({}) /\ Up'
      BY <2>1, <2>8, OtherSteps DEF ReleaseChunks, Up
    <3> QED BY <2>1, <2>8, <3>1, ReleaseChunksCounts
  <2>9. ASSUME StopHuge PROVE CountInv'
    <3>1. PICK g \in huge_list : FreeHuge(g.ptr) /\ Forget(g.ptr)
      BY <2>9 DEF StopHuge
    <3>2. g.ptr \in HugePtrs /\ g.ptr \in Live
      BY <2>1 DEF HeapInv, HugeApart, HugePtrs
    <3>3. Up' /\ pc.op # "reclaim" /\ pc'.op # "reclaim"
      BY <2>9 DEF StopHuge, Stopping, Up, Stopped
    <3> QED BY <2>1, <3>1, <3>2, <3>3, FreeHugeCounts
  <2>10. ASSUME StopChunks PROVE CountInv'
    <3>1. /\ ~ Up' /\ Live' = {} /\ huge_list' = huge_list /\ Chunks' = {}
          /\ heap_size' = heap_size /\ applied_size' = applied_size
      BY <2>10 DEF StopChunks, UnmapAll, Up, Live, Chunks
    <3> QED BY <3>1, FS_EmptySet DEF CountInv, Finite
  <2> QED BY <1>2, <2>2, <2>3, <2>4, <2>5, <2>6, <2>7, <2>8, <2>9, <2>10 DEF Next
<1> QED BY <1>1, <1>2

(* The counts are right in every reachable state.                             *)
LEMMA CountInvariance == Spec => [](HeapInv /\ CountInv)
<1>1. Init => CountInv
  BY CountInvInit
<1>2. HeapInv /\ HeapInv' /\ CountInv /\ [Next]_vars => CountInv'
  BY CountInvNext
<1> QED BY <1>1, <1>2, HeapInvariance, PTL DEF Spec

(* jbl_malloc_heap.size is at all times the sum of jbl_malloc_size over the   *)
(* blocks in use, headers of huge blocks included, and applied_size that of   *)
(* the chunks and the huge areas the system has given: no path of malloc,     *)
(* realloc, free or the reclaims counts a byte twice or forgets one.          *)
THEOREM BytesStayCounted == Spec => []Accounting
<1>1. HeapInv /\ CountInv => Accounting
  <2> SUFFICES ASSUME HeapInv, CountInv, Up PROVE
             /\ heap_size = MapThenSumSet(MallocSize, Live)
                              + Cardinality(huge_list) * BinBytes[BinFor(HugeHeader)]
             /\ applied_size = Cardinality(main \cup cached) * ChunkBytes
                                 + MapThenSumSet(LAMBDA g : g.size, huge_list)
    BY DEF Accounting
  <2>1. /\ MapThenSumSet(MallocSize, Live) = HeldSum
        /\ MapThenSumSet(LAMBDA g : g.size, huge_list) = HugeSum
    BY SumsRead DEF CountInv, Finite, HeldSum, HugeSum
  <2>2. heap_size = HeldSum + HeaderSum /\ applied_size = ChunkSum + HugeSum
    BY DEF CountInv, SumsExact
  <2> QED BY <2>1, <2>2 DEF HeaderSum, HeaderBytes, ChunkSum, Chunks
<1> QED BY <1>1, CountInvariance, PTL

(* Every variable keeps its type: the counts of bytes, which jbl_free takes   *)
(* away from without a check, never fall below zero.                          *)
THEOREM TypesStayRight == Spec => []TypeOK
<1>1. HeapInv /\ CountInv => TypeOK
  BY DEF HeapInv, PageInv, HeapTypeOK, CountInv, TypeOK
<1> QED BY <1>1, CountInvariance, PTL
=============================================================================
