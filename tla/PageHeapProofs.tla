--------------------------- MODULE PageHeapProofs ---------------------------
(***************************************************************************)
(* Proofs about the page layer of the allocator, for every number of pages *)
(* per chunk, word width, set of areas and table of bins.                  *)
(***************************************************************************)
EXTENDS PageHeap, TLAPS

(* Division by the word width keeps order: a later bit is in no earlier word. *)
LEMMA WordOrder ==
  ASSUME NEW p \in Int, NEW q \in Int, p <= q
  PROVE  WordOf(p) <= WordOf(q)
<1> USE BitRangeAssumption
<1> DEFINE w == WordBits
           a == p \div w
           b == q \div w
<1>1. a \in Int /\ b \in Int /\ w \in Int /\ w > 0
  OBVIOUS
<1>2. w * a <= p /\ q < w * b + w
  <2>1. p = w * a + (p % w) /\ 0 <= p % w
    OBVIOUS
  <2>2. q = w * b + (q % w) /\ q % w < w
    OBVIOUS
  <2> QED BY <1>1, <2>1, <2>2
<1>3. ASSUME b + 1 <= a PROVE FALSE
  <2>1. w * (b + 1) <= w * a
    BY <1>1, <1>3
  <2>2. w * (b + 1) = w * b + w
    BY <1>1
  <2> HIDE DEF w, a, b
  <2>3. PICK x \in Int, y \in Int : x = w * a /\ y = w * b
    BY <1>1
  <2> QED BY <1>1, <1>2, <2>1, <2>2, <2>3
<1> QED BY <1>1, <1>3 DEF WordOf

(* For a request of at least one bit the code writes that range, no more.     *)
LEMMA TouchedExact ==
  ASSUME NEW i \in Nat, NEW cnt \in Nat, cnt > 0, i + cnt <= BitLimit
  PROVE  Touched(i, cnt) = i .. (i + cnt - 1)
<1> USE BitRangeAssumption
<1> DEFINE last == i + cnt - 1
<1>1. CASE WordOf(i) = WordOf(last)
  BY <1>1 DEF Touched
<1>2. CASE WordOf(i) # WordOf(last)
  <2>0. \A p \in Int : WordOf(p) \in Int
    BY DEF WordOf
  <2>1. WordOf(i) < WordOf(last)
    BY <1>2, WordOrder, <2>0
  <2>2. ASSUME NEW p \in 0 .. (BitLimit - 1)
        PROVE  (\/ WordOf(p) = WordOf(i) /\ i <= p
                \/ WordOf(i) < WordOf(p) /\ WordOf(p) < WordOf(last)
                \/ WordOf(p) = WordOf(last) /\ p <= last)
               <=> p \in i .. last
    <3>1. i <= p => WordOf(i) <= WordOf(p)
      BY WordOrder
    <3>2. p <= last => WordOf(p) <= WordOf(last)
      BY WordOrder
    <3>3. p <= i => WordOf(p) <= WordOf(i)
      BY WordOrder
    <3>4. last <= p => WordOf(last) <= WordOf(p)
      BY WordOrder
    <3>5. WordOf(p) \in Int /\ WordOf(i) \in Int /\ WordOf(last) \in Int
      BY <2>0
    <3> QED BY <2>1, <3>1, <3>2, <3>3, <3>4, <3>5
  <2>3. Touched(i, cnt) = {p \in 0 .. (BitLimit - 1) : p \in i .. last}
    BY <1>2, <2>2 DEF Touched
  <2> QED BY <2>3
<1> QED BY <1>1, <1>2

-----------------------------------------------------------------------------
(* The inductive invariant. *)
PageInv == PageTypeOK /\ RunsBacked /\ RunsDisjoint /\ ChunksSeparate

(* No chunk is mapped at the start: nothing is handed out, so nothing can     *)
(* clash.                                                                     *)
LEMMA PageInvInit == PageInit => PageInv
BY PageHeapAssumption, BitRangeAssumption
   DEF PageInit, PageInv, PageTypeOK, RunsBacked, RunsDisjoint, ChunksSeparate,
       Mark, NoMark, Page, PageCount

(* A run is not empty, and lies inside its chunk behind the header page.      *)
LEMMA RunShape ==
  ASSUME PageInv, NEW r \in runs
  PROVE  /\ r \in Run /\ r.c \in main /\ r.c \in Region
         /\ r.i \in Nat /\ r.n \in Nat /\ r.n > 0 /\ r.i + r.n <= BitLimit
         /\ r.i \in RunPages(r)
         /\ RunPages(r) \subseteq fmap[r.c] /\ 0 \notin RunPages(r)
         /\ r.i \in Page
<1> USE PageHeapAssumption, BitRangeAssumption
<1>1. r \in Run /\ r.c \in main /\ RunPages(r) \subseteq fmap[r.c] \ {0}
  BY DEF PageInv, PageTypeOK, RunsBacked
<1>2. r.c \in Region /\ r.i \in Page /\ r.n \in 1 .. (PageCount - 1)
  BY <1>1 DEF Run
<1>3. fmap[r.c] \subseteq Page
  BY <1>2 DEF PageInv, PageTypeOK
<1>4. r.i \in RunPages(r) /\ r.i + r.n - 1 \in RunPages(r)
  BY <1>2 DEF RunPages, Page
<1>5. r.i + r.n - 1 \in Page
  BY <1>1, <1>3, <1>4
<1> QED BY <1>1, <1>2, <1>4, <1>5 DEF Page, PageCount

(* A place in a main chunk: free pages behind the header, and counted ones.   *)
LEMMA PlaceInMain ==
  ASSUME PageInv, NEW nums \in 1 .. (PageCount - 1), NEW r \in Places(nums), r.c \in main
  PROVE  /\ r \in Run /\ r.n = nums /\ r.i + nums <= BitLimit
         /\ RunPages(r) \cap fmap[r.c] = {}
         /\ 0 \notin RunPages(r)
         /\ nums <= free_pages[r.c]
<1> USE PageHeapAssumption, BitRangeAssumption
<1>1. BestFits(nums) # {}
  <2> SUFFICES ASSUME BestFits(nums) = {} PROVE FALSE
    OBVIOUS
  <2>1. r.c \in NewChunks
    BY DEF Places
  <2> QED BY <2>1 DEF NewChunks, PageInv, ChunksSeparate
<1>2. PICK f \in BestFits(nums) : r = [c |-> f.c, i |-> f.i, n |-> nums]
  BY <1>1 DEF Places
<1>3. f \in Run /\ f.c \in main /\ nums <= free_pages[f.c] /\ nums <= f.n
      /\ ZeroesUpTo(fmap[f.c], f.i, f.i + f.n)
  BY DEF BestFits, Fits, ZeroRun
<1>4. f.c \in Region /\ f.i \in Page /\ f.n \in 1 .. (PageCount - 1)
  BY <1>3 DEF Run
<1>5. f.i + f.n <= BitLimit /\ \A p \in f.i .. (f.i + f.n - 1) : p \notin fmap[f.c]
  BY <1>3, <1>4 DEF ZeroesUpTo, Page, PageCount
<1>6. 0 \in fmap[f.c]
  BY <1>3 DEF PageInv, ChunksSeparate
<1>7. r.c = f.c /\ r.i = f.i /\ r.n = nums
  BY <1>2
<1>8. r \in Run
  BY <1>2, <1>4 DEF Run
<1>9. \A p \in RunPages(r) : p \in f.i .. (f.i + f.n - 1)
  BY <1>3, <1>4, <1>7 DEF RunPages, Page, PageCount
<1>10. r.i + nums <= BitLimit
  BY <1>3, <1>4, <1>5, <1>7 DEF Page, PageCount
<1> QED BY <1>3, <1>5, <1>6, <1>7, <1>8, <1>9, <1>10

(* A chunk of the cache or a fresh one gives the pages right behind its       *)
(* header.                                                                    *)
LEMMA PlaceInNewChunk ==
  ASSUME PageInv, NEW nums \in 1 .. (PageCount - 1), NEW r \in Places(nums), r.c \notin main
  PROVE  /\ r \in Run /\ r.n = nums /\ r.i = 1
         /\ RunPages(r) = 1 .. nums
<1> USE PageHeapAssumption, BitRangeAssumption
<1>1. BestFits(nums) = {}
  <2> SUFFICES ASSUME NEW f \in BestFits(nums), r.c = f.c PROVE FALSE
    BY DEF Places
  <2> QED BY DEF BestFits, Fits
<1>2. PICK c \in NewChunks : r = [c |-> c, i |-> 1, n |-> nums]
  BY <1>1 DEF Places
<1>3. c \in Region
  BY DEF NewChunks, PageInv, PageTypeOK
<1> QED BY <1>2, <1>3 DEF Run, Page, PageCount, RunPages

(* What rewriting the entries of one run does to a chunk's map.               *)
LEMMA MarkedType ==
  ASSUME NEW cm \in [Page -> Mark], NEW i \in Page, NEW nums \in 1 .. (PageCount - 1),
         NEW m \in Mark, m.off = 0
  PROVE  /\ Marked(cm, i, nums, m) \in [Page -> Mark]
         /\ Marked(cm, i, nums, m)[i] = m
         /\ \A p \in Page : p \notin i .. (i + nums - 1) => Marked(cm, i, nums, m)[p] = cm[p]
<1> USE PageHeapAssumption, BitRangeAssumption DEF Page, PageCount
<1>1. ASSUME NEW p \in i .. (i + nums - 1)
      PROVE  [m EXCEPT !.off = p - i] \in Mark
  <2>1. p - i \in Nat
    OBVIOUS
  <2> QED BY <2>1 DEF Mark
<1>2. [m EXCEPT !.off = i - i] = m
  BY DEF Mark
<1>3. i \in i .. (i + nums - 1)
  OBVIOUS
<1> QED BY <1>1, <1>2, <1>3 DEF Marked

(* A mark that the page layer is given stands for the number of pages asked.  *)
LEMMA PageMarkType ==
  ASSUME NEW nums \in 1 .. (PageCount - 1), NEW m \in PageMarks(nums)
  PROVE  m \in Mark /\ m.off = 0 /\ MarkPages(m) = nums
<1> USE PageHeapAssumption, BitRangeAssumption
<1>1. CASE m = LargeMark(nums)
  BY <1>1 DEF LargeMark, Mark, MarkPages, PageCount
<1>2. CASE \E t \in Bin : BinPages[t] = nums /\ m = SmallMark(t)
  BY <1>2 DEF SmallMark, Mark, MarkPages
<1> QED BY <1>1, <1>2 DEF PageMarks

-----------------------------------------------------------------------------
(* Taking pages, in a chunk in use and in a fresh one. *)

(* jbl_malloc_page in a chunk in use takes bits that were free, so the new    *)
(* run meets no other.                                                        *)
LEMMA TakeFromMainStep ==
  ASSUME PageInv, NEW nums \in 1 .. (PageCount - 1), NEW m \in PageMarks(nums),
         NEW r \in Places(nums), TakeFromMain(nums, m, r), runs' = runs \cup {r}
  PROVE  PageInv'
<1> USE PageHeapAssumption, BitRangeAssumption
<1>1. /\ r \in Run /\ r.n = nums /\ r.i + nums <= BitLimit /\ r.c \in main
      /\ RunPages(r) \cap fmap[r.c] = {} /\ 0 \notin RunPages(r)
      /\ nums <= free_pages[r.c]
  BY PlaceInMain DEF TakeFromMain
<1>2. /\ r.c \in Region /\ r.i \in Page /\ r.i \in Nat
      /\ m \in Mark /\ m.off = 0 /\ MarkPages(m) = nums
  BY <1>1, PageMarkType DEF Run, Page, PageCount
<1>3. Touched(r.i, nums) = RunPages(r) /\ RunPages(r) \subseteq Page /\ r.i \in RunPages(r)
  BY <1>1, <1>2, TouchedExact DEF RunPages, Page, PageCount
<1>4. /\ fmap \in [Region -> SUBSET Page] /\ map \in [Region -> [Page -> Mark]]
      /\ free_pages \in [Region -> 0 .. (CounterMod - 1)]
      /\ main \subseteq Region /\ cached \subseteq Region /\ runs \subseteq Run
  BY DEF PageInv, PageTypeOK
<1>5. /\ fmap' = [fmap EXCEPT ![r.c] = fmap[r.c] \cup RunPages(r)]
      /\ map' = [map EXCEPT ![r.c] = Marked(map[r.c], r.i, nums, m)]
      /\ free_pages' = [free_pages EXCEPT ![r.c] = free_pages[r.c] - nums]
      /\ main' = main /\ cached' = cached
  BY <1>3 DEF TakeFromMain, BitSet
<1>6. /\ Marked(map[r.c], r.i, nums, m) \in [Page -> Mark]
      /\ Marked(map[r.c], r.i, nums, m)[r.i] = m
      /\ \A p \in Page : p \notin RunPages(r) =>
           Marked(map[r.c], r.i, nums, m)[p] = map[r.c][p]
  <2>1. map[r.c] \in [Page -> Mark]
    BY <1>2, <1>4
  <2>2. RunPages(r) = r.i .. (r.i + nums - 1)
    BY <1>1 DEF RunPages
  <2> QED BY <1>2, <2>1, <2>2, MarkedType
<1>7. PageTypeOK'
  <2>1. free_pages[r.c] - nums \in 0 .. (CounterMod - 1)
    BY <1>1, <1>2, <1>4
  <2>2. fmap' \in [Region -> SUBSET Page]
    BY <1>2, <1>3, <1>4, <1>5
  <2>3. map' \in [Region -> [Page -> Mark]]
    BY <1>2, <1>4, <1>5, <1>6
  <2>4. free_pages' \in [Region -> 0 .. (CounterMod - 1)]
    BY <2>1, <1>4, <1>5
  <2> QED BY <1>1, <1>4, <1>5, <2>2, <2>3, <2>4 DEF PageTypeOK
<1>8. ASSUME NEW s \in runs
      PROVE  /\ s.c \in main' /\ RunPages(s) \subseteq fmap'[s.c] \ {0}
             /\ MarkPages(map'[s.c][s.i]) = s.n
             /\ s.c = r.c => RunPages(s) \cap RunPages(r) = {}
  <2>1. /\ s.c \in main /\ s.c \in Region /\ s.i \in Page /\ s.i \in RunPages(s)
        /\ RunPages(s) \subseteq fmap[s.c] \ {0} /\ MarkPages(map[s.c][s.i]) = s.n
    BY RunShape DEF PageInv, RunsBacked
  <2>2. s.c = r.c => RunPages(s) \cap RunPages(r) = {}
    BY <1>1, <2>1
  <2>3. map'[s.c][s.i] = map[s.c][s.i]
    BY <1>4, <1>5, <1>6, <2>1, <2>2
  <2>4. fmap[s.c] \subseteq fmap'[s.c]
    BY <1>4, <1>5, <2>1
  <2> QED BY <1>5, <2>1, <2>2, <2>3, <2>4
<1>9. /\ r.c \in main' /\ RunPages(r) \subseteq fmap'[r.c] \ {0}
      /\ MarkPages(map'[r.c][r.i]) = r.n
  BY <1>1, <1>2, <1>4, <1>5, <1>6
<1>10. RunsBacked'
  BY <1>8, <1>9 DEF RunsBacked, RunPages
<1>11. RunsDisjoint'
  BY <1>8 DEF RunsDisjoint, RunPages, PageInv
<1>12. ChunksSeparate'
  BY <1>2, <1>4, <1>5 DEF ChunksSeparate, PageInv
<1> QED BY <1>7, <1>10, <1>11, <1>12 DEF PageInv

(* jbl_malloc_page in a cached or new chunk clears its bitset and marks       *)
(* first.                                                                     *)
LEMMA TakeFromNewChunkStep ==
  ASSUME PageInv, NEW nums \in 1 .. (PageCount - 1), NEW m \in PageMarks(nums),
         NEW r \in Places(nums), TakeFromNewChunk(nums, m, r), runs' = runs \cup {r}
  PROVE  PageInv'
<1> USE PageHeapAssumption, BitRangeAssumption
<1>1. /\ r \in Run /\ r.n = nums /\ r.i = 1 /\ r.c \notin main
      /\ RunPages(r) = 1 .. nums
  BY PlaceInNewChunk DEF TakeFromNewChunk
<1>2. /\ r.c \in Region /\ 1 \in Page /\ RunPages(r) \subseteq Page /\ 0 \in Page
      /\ m \in Mark /\ m.off = 0 /\ MarkPages(m) = nums
  BY <1>1, PageMarkType DEF Run, Page, PageCount
<1>3. Touched(1, nums) = RunPages(r)
  <2>1. 1 + nums <= BitLimit /\ nums \in Nat /\ nums > 0
    BY DEF PageCount
  <2>2. Touched(1, nums) = 1 .. (1 + nums - 1)
    BY <2>1, TouchedExact
  <2> QED BY <1>1, <2>2
<1>4. /\ fmap \in [Region -> SUBSET Page] /\ map \in [Region -> [Page -> Mark]]
      /\ free_pages \in [Region -> 0 .. (CounterMod - 1)]
      /\ main \subseteq Region /\ cached \subseteq Region /\ runs \subseteq Run
  BY DEF PageInv, PageTypeOK
<1>5. /\ fmap' = [fmap EXCEPT ![r.c] = {0} \cup RunPages(r)]
      /\ map' = [map EXCEPT ![r.c] = Marked(FreshMap, 1, nums, m)]
      /\ free_pages' = [free_pages EXCEPT ![r.c] = (PageCount - 1 - nums) % CounterMod]
      /\ main' = main \cup {r.c} /\ cached' = cached \ {r.c}
  BY <1>1, <1>3 DEF TakeFromNewChunk, BitSet
<1>6. /\ Marked(FreshMap, 1, nums, m) \in [Page -> Mark]
      /\ Marked(FreshMap, 1, nums, m)[1] = m
  <2>1. FreshMap \in [Page -> Mark]
    BY DEF FreshMap, LargeMark, NoMark, Mark
  <2> QED BY <1>2, <2>1, MarkedType
<1>7. PageTypeOK'
  <2>1. (PageCount - 1 - nums) % CounterMod \in 0 .. (CounterMod - 1)
    BY DEF PageCount
  <2>2. fmap' \in [Region -> SUBSET Page]
    BY <1>2, <1>4, <1>5
  <2>3. map' \in [Region -> [Page -> Mark]]
    BY <1>2, <1>4, <1>5, <1>6
  <2>4. free_pages' \in [Region -> 0 .. (CounterMod - 1)]
    BY <2>1, <1>4, <1>5
  <2> QED BY <1>1, <1>2, <1>4, <1>5, <2>2, <2>3, <2>4 DEF PageTypeOK
<1>8. ASSUME NEW s \in runs
      PROVE  /\ s.c # r.c
             /\ s.c \in main' /\ RunPages(s) \subseteq fmap'[s.c] \ {0}
             /\ MarkPages(map'[s.c][s.i]) = s.n
  <2>1. /\ s.c \in main /\ s.c \in Region
        /\ RunPages(s) \subseteq fmap[s.c] \ {0} /\ MarkPages(map[s.c][s.i]) = s.n
    BY RunShape DEF PageInv, RunsBacked
  <2> QED BY <1>1, <1>4, <1>5, <2>1
<1>9. /\ r.c \in main' /\ RunPages(r) \subseteq fmap'[r.c] \ {0}
      /\ MarkPages(map'[r.c][r.i]) = r.n
  <2>1. 0 \notin RunPages(r)
    BY <1>1
  <2> QED BY <1>1, <1>2, <1>4, <1>5, <1>6, <2>1
<1>10. RunsBacked'
  BY <1>8, <1>9 DEF RunsBacked, RunPages
<1>11. RunsDisjoint'
  BY <1>8 DEF RunsDisjoint, RunPages, PageInv
<1>12. ChunksSeparate'
  <2>1. \A c \in main' : 0 \in fmap'[c]
    BY <1>2, <1>4, <1>5 DEF ChunksSeparate, PageInv
  <2> QED BY <1>1, <1>5, <2>1 DEF ChunksSeparate, PageInv
<1> QED BY <1>7, <1>10, <1>11, <1>12 DEF PageInv

(* __jbl_malloc_page keeps the invariant.                                     *)
LEMMA MallocPageStep ==
  ASSUME PageInv, NEW nums \in 1 .. (PageCount - 1), NEW m \in PageMarks(nums),
         NEW r \in Places(nums), MallocPage(nums, m, r)
  PROVE  PageInv'
BY TakeFromMainStep, TakeFromNewChunkStep DEF MallocPage

-----------------------------------------------------------------------------
(* Giving pages back. *)

(* The two runs of one chunk that start at one page are the same run.         *)
LEMMA RunStart ==
  ASSUME PageInv, NEW r \in runs, NEW s \in runs, r.c = s.c, r.i = s.i
  PROVE  r = s
BY RunShape DEF PageInv, RunsDisjoint

(* __jbl_free_page clears exactly the run's bits and may cache or unmap a     *)
(* chunk left empty.                                                          *)
LEMMA FreePageStep ==
  ASSUME PageInv, NEW r \in runs, FreePage(r.c, r.i)
  PROVE  PageInv'
<1> USE PageHeapAssumption, BitRangeAssumption
<1> DEFINE mk == map[r.c][r.i]
<1>1. /\ r \in Run /\ r.c \in main /\ r.c \in Region /\ r.i \in Page /\ r.i \in Nat
      /\ r.n \in Nat /\ r.n > 0 /\ r.i + r.n <= BitLimit /\ 0 \notin RunPages(r)
  BY RunShape
<1>2. /\ fmap \in [Region -> SUBSET Page] /\ map \in [Region -> [Page -> Mark]]
      /\ free_pages \in [Region -> 0 .. (CounterMod - 1)]
      /\ main \subseteq Region /\ cached \subseteq Region /\ runs \subseteq Run
  BY DEF PageInv, PageTypeOK
<1>3. mk \in Mark /\ MarkPages(mk) = r.n
  BY <1>1, <1>2 DEF PageInv, RunsBacked
<1>4. Touched(r.i, r.n) = RunPages(r)
  BY <1>1, TouchedExact DEF RunPages
<1> DEFINE cleared == [p \in Page |-> IF p \in RunPages(r) THEN NoMark ELSE map[r.c][p]]
<1>5. /\ fmap' = [fmap EXCEPT ![r.c] = fmap[r.c] \ RunPages(r)]
      /\ map' = [map EXCEPT ![r.c] = cleared]
      /\ free_pages' = [free_pages EXCEPT ![r.c] = (free_pages[r.c] + mk.val) % CounterMod]
      /\ runs' = {x \in runs : ~(x.c = r.c /\ x.i = r.i)}
      /\ main' = main /\ cached' = cached
  BY <1>3, <1>4 DEF FreePage, BitReset, RunPages
<1> HIDE DEF mk
<1>6. cleared \in [Page -> Mark]
  BY <1>1, <1>2 DEF NoMark, Mark
<1>7. PageTypeOK'
  <2>1. (free_pages[r.c] + mk.val) % CounterMod \in 0 .. (CounterMod - 1)
    <3>1. free_pages[r.c] \in Nat /\ mk.val \in Nat
      BY <1>1, <1>2, <1>3 DEF Mark
    <3> QED BY <3>1
  <2>2. fmap' \in [Region -> SUBSET Page]
    BY <1>1, <1>2, <1>5
  <2>3. map' \in [Region -> [Page -> Mark]]
    BY <1>1, <1>2, <1>5, <1>6
  <2>4. free_pages' \in [Region -> 0 .. (CounterMod - 1)]
    BY <2>1, <1>2, <1>5
  <2> QED BY <1>2, <1>5, <2>2, <2>3, <2>4 DEF PageTypeOK
<1>8. ASSUME NEW s \in runs'
      PROVE  /\ s \in runs /\ s.c \in main' /\ RunPages(s) \subseteq fmap'[s.c] \ {0}
             /\ MarkPages(map'[s.c][s.i]) = s.n
  <2>1. s \in runs /\ ~(s.c = r.c /\ s.i = r.i)
    BY <1>5
  <2>2. /\ s.c \in main /\ s.c \in Region /\ s.i \in Page /\ s.i \in RunPages(s)
        /\ RunPages(s) \subseteq fmap[s.c] \ {0} /\ MarkPages(map[s.c][s.i]) = s.n
    BY <2>1, RunShape DEF PageInv, RunsBacked
  <2>3. s.c = r.c => RunPages(s) \cap RunPages(r) = {}
    BY <2>1 DEF PageInv, RunsDisjoint
  <2>4. map'[s.c][s.i] = map[s.c][s.i]
    BY <1>1, <1>2, <1>5, <2>2, <2>3
  <2>5. RunPages(s) \subseteq fmap'[s.c]
    BY <1>1, <1>2, <1>5, <2>2, <2>3
  <2> QED BY <1>5, <2>1, <2>2, <2>4, <2>5
<1>9. RunsBacked'
  BY <1>8 DEF RunsBacked, RunPages
<1>10. RunsDisjoint'
  BY <1>8 DEF RunsDisjoint, RunPages, PageInv
<1>11. ChunksSeparate'
  BY <1>1, <1>2, <1>5 DEF ChunksSeparate, PageInv
<1> QED BY <1>7, <1>9, <1>10, <1>11 DEF PageInv

-----------------------------------------------------------------------------
(* Growing in place.  With no page to add (nums = r.n) the bitset may gain    *)
(* bits that belong to nobody; it loses none.                                 *)
LEMMA GrowPagesStep ==
  ASSUME PageInv, NEW r \in runs, NEW nums \in 1 .. (PageCount - 1),
         map[r.c][r.i].kind = "large", r.n <= nums, GrowPages(r.c, r.i, nums)
  PROVE  PageInv'
<1> USE PageHeapAssumption, BitRangeAssumption
<1> DEFINE q == [c |-> r.c, i |-> r.i, n |-> nums]
           old == fmap[r.c]
           new == (old \cup Touched(r.i + r.n, nums - r.n)) \cap Page
<1>1. /\ r \in Run /\ r.c \in main /\ r.c \in Region /\ r.i \in Page /\ r.i \in Nat
      /\ r.n \in Nat /\ r.n > 0 /\ r.i + r.n <= BitLimit /\ 0 \notin RunPages(r)
      /\ RunPages(r) \subseteq old /\ r.i \in RunPages(r)
  BY RunShape
<1>2. /\ fmap \in [Region -> SUBSET Page] /\ map \in [Region -> [Page -> Mark]]
      /\ free_pages \in [Region -> 0 .. (CounterMod - 1)]
      /\ main \subseteq Region /\ cached \subseteq Region /\ runs \subseteq Run
  BY DEF PageInv, PageTypeOK
<1>3. map[r.c][r.i].val = r.n
  BY DEF PageInv, RunsBacked, MarkPages
<1>4. /\ r.i + nums <= BitLimit
      /\ \A p \in (r.i + r.n) .. (r.i + nums - 1) : p \notin old
  <2>1. ZeroesUpTo(old, r.i + r.n, r.i + nums)
    BY <1>3 DEF GrowPages, CanGrow
  <2>2. r.i + nums \in Int
    BY <1>1
  <2> QED BY <1>1, <2>1, <2>2 DEF ZeroesUpTo
<1>5. q \in Run /\ q.c = r.c /\ q.i = r.i /\ q.n = nums
      /\ RunPages(q) = r.i .. (r.i + nums - 1)
  BY <1>1 DEF Run, RunPages
<1>6. RunPages(q) \subseteq Page /\ 0 \notin RunPages(q) /\ r.i \in RunPages(q)
  BY <1>1, <1>4, <1>5 DEF Page, PageCount
<1>7. \A p \in RunPages(q) : p \in RunPages(r) \/ p \in (r.i + r.n) .. (r.i + nums - 1)
  BY <1>1, <1>5 DEF RunPages
<1>8. old \subseteq new /\ new \subseteq Page /\ RunPages(q) \subseteq new
  <2>1. old \subseteq Page
    BY <1>1, <1>2
  <2>2. CASE nums = r.n
    BY <1>1, <1>5, <1>6, <2>1, <2>2 DEF RunPages
  <2>3. CASE r.n < nums
    <3>1. Touched(r.i + r.n, nums - r.n) = (r.i + r.n) .. (r.i + r.n + (nums - r.n) - 1)
      <4>1. r.i + r.n \in Nat /\ nums - r.n \in Nat /\ nums - r.n > 0
            /\ r.i + r.n + (nums - r.n) <= BitLimit
        BY <1>1, <1>4, <2>3
      <4> QED BY <4>1, TouchedExact
    <3>2. r.i + r.n + (nums - r.n) - 1 = r.i + nums - 1
      BY <1>1
    <3> QED BY <1>1, <1>6, <1>7, <2>1, <3>1, <3>2
  <2> QED BY <1>1, <2>2, <2>3
<1>9. /\ fmap' = [fmap EXCEPT ![r.c] = new]
      /\ map' = [map EXCEPT ![r.c] = Marked(map[r.c], r.i, nums, LargeMark(nums))]
      /\ runs' = {x \in runs : ~(x.c = r.c /\ x.i = r.i)} \cup {q}
      /\ main' = main /\ cached' = cached /\ free_pages' = free_pages
  BY <1>3 DEF GrowPages, BitSet
<1>10. LargeMark(nums) \in Mark /\ LargeMark(nums).off = 0 /\ MarkPages(LargeMark(nums)) = nums
  BY DEF LargeMark, Mark, MarkPages
<1>11. /\ Marked(map[r.c], r.i, nums, LargeMark(nums)) \in [Page -> Mark]
       /\ Marked(map[r.c], r.i, nums, LargeMark(nums))[r.i] = LargeMark(nums)
       /\ \A p \in Page : p \notin RunPages(q) =>
            Marked(map[r.c], r.i, nums, LargeMark(nums))[p] = map[r.c][p]
  <2>1. map[r.c] \in [Page -> Mark]
    BY <1>1, <1>2
  <2> DEFINE cm == map[r.c]
             mk == LargeMark(nums)
  <2>2. cm \in [Page -> Mark] /\ mk \in Mark /\ mk.off = 0
    BY <1>10, <2>1
  <2> HIDE DEF cm, mk
  <2>3. /\ Marked(cm, r.i, nums, mk) \in [Page -> Mark]
        /\ Marked(cm, r.i, nums, mk)[r.i] = mk
        /\ \A p \in Page : p \notin r.i .. (r.i + nums - 1) =>
             Marked(cm, r.i, nums, mk)[p] = cm[p]
    BY <1>1, <2>2, MarkedType
  <2> QED BY <1>5, <2>3 DEF cm, mk
<1> HIDE DEF q, new
<1>12. PageTypeOK'
  <2>1. fmap' \in [Region -> SUBSET Page]
    BY <1>1, <1>2, <1>8, <1>9
  <2>2. map' \in [Region -> [Page -> Mark]]
    BY <1>1, <1>2, <1>9, <1>11
  <2> QED BY <1>2, <1>5, <1>9, <2>1, <2>2 DEF PageTypeOK
<1>13. ASSUME NEW s \in runs, ~(s.c = r.c /\ s.i = r.i)
       PROVE  /\ s.c \in main' /\ RunPages(s) \subseteq fmap'[s.c] \ {0}
              /\ MarkPages(map'[s.c][s.i]) = s.n
              /\ s.c = r.c => RunPages(s) \cap RunPages(q) = {}
  <2>1. /\ s.c \in main /\ s.c \in Region /\ s.i \in Page /\ s.i \in RunPages(s)
        /\ RunPages(s) \subseteq fmap[s.c] \ {0} /\ MarkPages(map[s.c][s.i]) = s.n
    BY RunShape DEF PageInv, RunsBacked
  <2>2. s.c = r.c => RunPages(s) \cap RunPages(r) = {}
    BY <1>13 DEF PageInv, RunsDisjoint
  <2>3. s.c = r.c => RunPages(s) \cap RunPages(q) = {}
    BY <1>4, <1>7, <2>1, <2>2
  <2>4. map'[s.c][s.i] = map[s.c][s.i]
    BY <1>1, <1>2, <1>9, <1>11, <2>1, <2>3
  <2>5. fmap[s.c] \subseteq fmap'[s.c]
    BY <1>1, <1>2, <1>8, <1>9, <2>1
  <2> QED BY <1>9, <2>1, <2>3, <2>4, <2>5
<1>14. /\ q.c \in main' /\ RunPages(q) \subseteq fmap'[q.c] \ {0}
       /\ MarkPages(map'[q.c][q.i]) = q.n
  BY <1>1, <1>2, <1>5, <1>6, <1>8, <1>9, <1>10, <1>11
<1>15. RunsBacked'
  BY <1>9, <1>13, <1>14 DEF RunsBacked, RunPages
<1>16. RunsDisjoint'
  BY <1>5, <1>9, <1>13 DEF RunsDisjoint, RunPages, PageInv
<1>17. ChunksSeparate'
  BY <1>1, <1>2, <1>8, <1>9 DEF ChunksSeparate, PageInv
<1> QED BY <1>12, <1>15, <1>16, <1>17 DEF PageInv

-----------------------------------------------------------------------------
(* The other steps move chunks or count blocks; no run changes hands.         *)

(* Counting a block of a run as freed writes only the counter of its first    *)
(* page.                                                                      *)
LEMMA CountFreedStep == ASSUME PageInv, CountFreed PROVE PageInv'
<1>1. PageTypeOK'
  BY DEF PageInv, PageTypeOK, CountFreed
<1>2. ASSUME NEW r \in runs PROVE MarkPages(map'[r.c][r.i]) = MarkPages(map[r.c][r.i])
  <2>1. r.c \in Region /\ r.i \in Page
    BY RunShape
  <2>2. map[r.c][r.i] \in Mark /\ map'[r.c][r.i] \in Mark
    BY <2>1 DEF PageInv, PageTypeOK, CountFreed
  <2>3. map'[r.c][r.i] = [map[r.c][r.i] EXCEPT !.cnt = map'[r.c][r.i].cnt]
    BY <2>1 DEF CountFreed
  <2>4. /\ map'[r.c][r.i].kind = map[r.c][r.i].kind
        /\ map'[r.c][r.i].val = map[r.c][r.i].val
    BY <2>2, <2>3 DEF Mark
  <2> QED BY <2>4 DEF MarkPages
<1>3. RunsBacked'
  BY <1>2 DEF PageInv, RunsBacked, CountFreed, RunPages
<1> QED BY <1>1, <1>3 DEF PageInv, RunsDisjoint, ChunksSeparate, CountFreed, RunPages

(* A chunk that goes to the cached list holds no run: its pages are free.     *)
LEMMA FreeChunksStep == ASSUME PageInv, FreeChunks PROVE PageInv'
<1> DEFINE idle == {c \in main : fmap[c] = {0}}
<1>1. main' = main \ idle /\ cached' = cached \cup idle
      /\ fmap' = fmap /\ map' = map /\ free_pages' = free_pages /\ runs' = runs
  BY DEF FreeChunks
<1>2. PageTypeOK'
  BY <1>1 DEF PageInv, PageTypeOK
<1>3. \A r \in runs : r.c \notin idle
  BY RunShape DEF PageInv, RunsBacked
<1>4. RunsBacked'
  BY <1>1, <1>3 DEF PageInv, RunsBacked, RunPages
<1>5. ChunksSeparate'
  BY <1>1 DEF PageInv, ChunksSeparate
<1> QED BY <1>1, <1>2, <1>4, <1>5 DEF PageInv, RunsDisjoint, RunPages

(* Unmapping the cached chunks touches no chunk in use. *)
LEMMA FreeCachedChunksStep == ASSUME PageInv, FreeCachedChunks PROVE PageInv'
BY DEF FreeCachedChunks, PageInv, PageTypeOK, RunsBacked, RunsDisjoint, ChunksSeparate, RunPages

(* jbl_malloc_stop unmaps every chunk and leaves no run. *)
LEMMA UnmapAllStep == ASSUME PageInv, UnmapAll PROVE PageInv'
BY DEF UnmapAll, PageInv, PageTypeOK, RunsBacked, RunsDisjoint, ChunksSeparate, RunPages

(* A step that leaves the page layer alone keeps its invariant. *)
LEMMA PageStutter == ASSUME PageInv, UNCHANGED pageVars PROVE PageInv'
BY DEF pageVars, PageInv, PageTypeOK, RunsBacked, RunsDisjoint, ChunksSeparate, RunPages

(* Every step of the page layer keeps the invariant. *)
LEMMA PageInvNext == PageInv /\ [PageNext]_pageVars => PageInv'
<1> SUFFICES ASSUME PageInv, [PageNext]_pageVars PROVE PageInv'
  OBVIOUS
<1>1. ASSUME NEW nums \in 1 .. (PageCount - 1), NEW m \in PageMarks(nums),
             NEW r \in Places(nums), MallocPage(nums, m, r)
      PROVE  PageInv'
  BY <1>1, MallocPageStep
<1>2. ASSUME NEW r \in runs, FreePage(r.c, r.i) PROVE PageInv'
  BY <1>2, FreePageStep
<1>3. ASSUME NEW r \in runs, NEW nums \in 1 .. (PageCount - 1),
             map[r.c][r.i].kind = "large", r.n <= nums, GrowPages(r.c, r.i, nums)
      PROVE  PageInv'
  BY <1>3, GrowPagesStep
<1>4. CASE CountFreed
  BY <1>4, CountFreedStep
<1>5. CASE FreeChunks
  BY <1>5, FreeChunksStep
<1>6. CASE FreeCachedChunks
  BY <1>6, FreeCachedChunksStep
<1>7. CASE UnmapAll
  BY <1>7, UnmapAllStep
<1>8. CASE UNCHANGED pageVars
  BY <1>8, PageStutter
<1> QED BY <1>1, <1>2, <1>3, <1>4, <1>5, <1>6, <1>7, <1>8 DEF PageNext

(* The inductive invariant holds of every reachable state of the page layer. *)
LEMMA PageInvariance == PageSpec => []PageInv
BY PageInvInit, PageInvNext, PTL DEF PageSpec

(* The page layer's variables keep their types; free_pages in particular      *)
(* never goes below zero.                                                     *)
THEOREM PageTypeCorrect == PageSpec => []PageTypeOK
<1>1. PageInv => PageTypeOK
  BY DEF PageInv
<1> QED BY <1>1, PageInvariance, PTL

(* Whatever is allocated, freed, grown in place, cached or given back to the  *)
(* system, a run that is handed out stays inside a chunk in use, on pages     *)
(* marked used, with its length in the map.                                   *)
THEOREM RunsStayBacked == PageSpec => []RunsBacked
<1>1. PageInv => RunsBacked
  BY DEF PageInv
<1> QED BY <1>1, PageInvariance, PTL

(* No page is ever in two runs, so no two blocks share memory at page level.  *)
THEOREM RunsStayDisjoint == PageSpec => []RunsDisjoint
<1>1. PageInv => RunsDisjoint
  BY DEF PageInv
<1> QED BY <1>1, PageInvariance, PTL

(* A chunk is never on both lists and never gives out its header page.        *)
THEOREM ChunksStaySeparate == PageSpec => []ChunksSeparate
<1>1. PageInv => ChunksSeparate
  BY DEF PageInv
<1> QED BY <1>1, PageInvariance, PTL
=============================================================================
