------------------------------ MODULE PageHeap ------------------------------
(***************************************************************************)
(* The page layer of jbl/jbl_malloc_fast.c: 2 MB chunks, the main and the  *)
(* cached list of chunks, and runs of consecutive 4 KB pages inside them   *)
(* (__jbl_malloc_chunk, __jbl_free_chunks, __jbl_free_cached_chunks,       *)
(* __jbl_malloc_page, __jbl_free_page and the in-place branch of           *)
(* jbl_realloc).  The size classes above it are in module MallocFast.      *)
(*                                                                         *)
(* A chunk list is the set of its chunks: its order decides only which of  *)
(* several equally good page runs is taken, and in which order chunks are  *)
(* reused; both are left open here.                                        *)
(***************************************************************************)
EXTENDS BitRange, FiniteSets

CONSTANTS Region,      \* 2 MB aligned areas of the address space mmap may return
          Bin,         \* the types of small memory, 0 .. 29
          BinPages,    \* jbl_malloc_small_bins[t].pages
          CounterMod   \* free_pages is a jbl_uint16: 2^16

PageCount == BitLimit             \* pages per chunk, one fmap bit each
Page == 0 .. (PageCount - 1)      \* page 0 holds the jbl_malloc_chunk_struct

ASSUME PageHeapAssumption ==
         /\ PageCount > 1
         /\ Bin \subseteq Nat
         /\ BinPages \in [Bin -> 1 .. (PageCount - 1)]
         /\ CounterMod \in Nat \ {0}

(* One entry of chunk->map: val is the page count of a large run or the bin   *)
(* of a small one, off the index of the page within its run, cnt the freed    *)
(* blocks __jbl_free_smalls has counted.                                      *)
Mark == [kind : {"none", "large", "small"}, val : Nat, off : Nat, cnt : Nat]
NoMark == [kind |-> "none", val |-> 0, off |-> 0, cnt |-> 0]
LargeMark(nums) == [kind |-> "large", val |-> nums, off |-> 0, cnt |-> 0]
SmallMark(type) == [kind |-> "small", val |-> type, off |-> 0, cnt |-> 0]

(* The pages of the run that a mark describes, as __jbl_free_page reads it.   *)
MarkPages(m) == IF m.kind = "small" THEN BinPages[m.val] ELSE m.val

VARIABLES main,        \* chunks on jbl_malloc_heap.main_chunk
          cached,      \* chunks on jbl_malloc_heap.cached_chunk
          fmap,        \* [Region -> set of used pages]
          map,         \* [Region -> [Page -> Mark]]
          free_pages,  \* [Region -> counter]
          runs         \* auxiliary: the page runs handed out and not given back

pageVars == <<main, cached, fmap, map, free_pages, runs>>

Run == [c : Region, i : Page, n : 1 .. (PageCount - 1)]
RunPages(r) == r.i .. (r.i + r.n - 1)

PageTypeOK ==
  /\ main \subseteq Region
  /\ cached \subseteq Region
  /\ fmap \in [Region -> SUBSET Page]
  /\ map \in [Region -> [Page -> Mark]]
  /\ free_pages \in [Region -> 0 .. (CounterMod - 1)]
  /\ runs \subseteq Run

PageInit ==
  /\ main = {}
  /\ cached = {}
  /\ fmap = [c \in Region |-> {}]
  /\ map = [c \in Region |-> [p \in Page |-> NoMark]]
  /\ free_pages = [c \in Region |-> 0]
  /\ runs = {}

-----------------------------------------------------------------------------
(* __jbl_malloc_page *)

(* A variant: free_pages is not asked.                                        *)
FitsUncounted(nums) == {r \in Run : /\ r.c \in main
                                    /\ r.n >= nums
                                    /\ ZeroRun(fmap[r.c], r.i, r.n)}

(* The stretches of free pages it considers: free_pages is asked first.       *)
Fits(nums) == {r \in Run : /\ r.c \in main
                           /\ free_pages[r.c] >= nums
                           /\ r.n >= nums
                           /\ ZeroRun(fmap[r.c], r.i, r.n)}

(* The shortest, and the first such in its chunk.                             *)
BestFits(nums) ==
  LET fits == Fits(nums)
  IN  {r \in fits : \A s \in fits : /\ r.n <= s.n
                                   /\ r.n = s.n /\ r.c = s.c => r.i <= s.i}

(* Where __jbl_malloc_chunk takes a chunk: the cached list before mmap.       *)
NewChunks == IF cached # {} THEN cached ELSE Region \ main

(* Where nums pages go: a best fit or, when there is none, a fresh chunk.     *)
Places(nums) ==
  LET best == BestFits(nums)
  IN  IF best # {} THEN {[c |-> f.c, i |-> f.i, n |-> nums] : f \in best}
                   ELSE {[c |-> c, i |-> 1, n |-> nums] : c \in NewChunks}

(* A chunk's map after a run of nums pages with first entry m is put at i.    *)
Marked(chunkMap, i, nums, m) ==
  [p \in Page |-> IF p \in i .. (i + nums - 1)
                  THEN [m EXCEPT !.off = p - i] ELSE chunkMap[p]]

(* A chunk as __jbl_malloc_chunk leaves it: page 0 holds its own header.      *)
FreshMap == [p \in Page |-> IF p = 0 THEN LargeMark(1) ELSE NoMark]

TakeFromMain(nums, m, r) ==
  /\ r.c \in main
  /\ fmap' = [fmap EXCEPT ![r.c] = BitSet(@, r.i, nums)]
  /\ map' = [map EXCEPT ![r.c] = Marked(@, r.i, nums, m)]
  /\ free_pages' = [free_pages EXCEPT ![r.c] = @ - nums]
  /\ UNCHANGED <<main, cached>>

TakeFromNewChunk(nums, m, r) ==
  /\ r.c \notin main
  /\ main' = main \cup {r.c}
  /\ cached' = cached \ {r.c}
  /\ fmap' = [fmap EXCEPT ![r.c] = BitSet({0}, r.i, nums)]
  /\ map' = [map EXCEPT ![r.c] = Marked(FreshMap, r.i, nums, m)]
  /\ free_pages' = [free_pages EXCEPT ![r.c] = (PageCount - 1 - nums) % CounterMod]

(* __jbl_malloc_page(nums, type): r is one of Places(nums), m the run's mark. *)
MallocPage(nums, m, r) ==
  /\ TakeFromMain(nums, m, r) \/ TakeFromNewChunk(nums, m, r)
  /\ runs' = runs \cup {r}

-----------------------------------------------------------------------------
(* A variant: the raw value of the mark is taken for the number of pages.     *)
FreePageRaw(c, i) ==
  LET m == map[c][i]
  IN  /\ free_pages' = [free_pages EXCEPT ![c] = (@ + m.val) % CounterMod]
      /\ fmap' = [fmap EXCEPT ![c] = BitReset(@, i, m.val)]
      /\ map' = [map EXCEPT ![c][i] = NoMark]
      /\ runs' = {r \in runs : ~(r.c = c /\ r.i = i)}
      /\ UNCHANGED <<main, cached>>

(* __jbl_free_page of the run that starts at page i of chunk c.  The counter  *)
(* grows by the raw value of the mark, before a small mark's bin is turned    *)
(* into its number of pages.  The code leaves the run's map entries as they   *)
(* are; nothing reads the entry of a free page, so here it is NoMark.         *)
FreePage(c, i) ==
  LET m == map[c][i]
  IN  /\ free_pages' = [free_pages EXCEPT ![c] = (@ + m.val) % CounterMod]
      /\ fmap' = [fmap EXCEPT ![c] = BitReset(@, i, MarkPages(m))]
      /\ map' = [map EXCEPT ![c] =
                   [p \in Page |-> IF p \in i .. (i + MarkPages(m) - 1)
                                   THEN NoMark ELSE @[p]]]
      /\ runs' = {r \in runs : ~(r.c = c /\ r.i = i)}
      /\ UNCHANGED <<main, cached>>

(* A variant: one page too few is looked at.                                  *)
CanGrowShort(c, i, nums) == i + nums <= PageCount
                            /\ ZeroesUpTo(fmap[c], i + map[c][i].val, i + nums - 1)

(* The in-place branch of jbl_realloc: a large run of n pages becomes one of  *)
(* nums pages when the pages behind it are free.  free_pages stays as it is.  *)
CanGrow(c, i, nums) == ZeroesUpTo(fmap[c], i + map[c][i].val, i + nums)

GrowPages(c, i, nums) ==
  LET n == map[c][i].val
  IN  /\ CanGrow(c, i, nums)
      /\ fmap' = [fmap EXCEPT ![c] = BitSet(@, i + n, nums - n) \cap Page]
      /\ map' = [map EXCEPT ![c] = Marked(@, i, nums, LargeMark(nums))]
      /\ runs' = {r \in runs : ~(r.c = c /\ r.i = i)}
                   \cup {[c |-> c, i |-> i, n |-> nums]}
      /\ UNCHANGED <<main, cached, free_pages>>

(* __jbl_free_smalls keeps its counts in map: nothing else of map changes.    *)
CountFreed ==
  /\ map' \in [Region -> [Page -> Mark]]
  /\ \A c \in Region, p \in Page :
       map'[c][p] = [map[c][p] EXCEPT !.cnt = map'[c][p].cnt]
  /\ UNCHANGED <<main, cached, fmap, free_pages, runs>>

(* Variants: the chunks stay on the main list; their pages are not looked at. *)
FreeChunksLinked ==
  /\ cached' = cached \cup {c \in main : fmap[c] = {0}}
  /\ UNCHANGED <<main, fmap, map, free_pages, runs>>

FreeChunksUnasked ==
  /\ main' = {}
  /\ cached' = cached \cup main
  /\ UNCHANGED <<fmap, map, free_pages, runs>>

(* __jbl_free_chunks: chunks with no page in use but their header are cached. *)
FreeChunks ==
  LET idle == {c \in main : fmap[c] = {0}}
  IN  /\ main' = main \ idle
      /\ cached' = cached \cup idle
      /\ UNCHANGED <<fmap, map, free_pages, runs>>

(* __jbl_free_cached_chunks: every cached chunk goes back to the system.      *)
FreeCachedChunks ==
  /\ cached' = {}
  /\ UNCHANGED <<main, fmap, map, free_pages, runs>>

(* The chunk loops of jbl_malloc_stop: every chunk is unmapped as it is.      *)
UnmapAll ==
  /\ main' = {}
  /\ cached' = {}
  /\ runs' = {}
  /\ UNCHANGED <<fmap, map, free_pages>>

-----------------------------------------------------------------------------
PageMarks(nums) == {LargeMark(nums)}
                     \cup {SmallMark(t) : t \in {u \in Bin : BinPages[u] = nums}}

PageNext ==
  \/ \E nums \in 1 .. (PageCount - 1) :
       \E m \in PageMarks(nums), r \in Places(nums) : MallocPage(nums, m, r)
  \/ \E r \in runs : FreePage(r.c, r.i)
  \/ \E r \in runs, nums \in 1 .. (PageCount - 1) :
       /\ map[r.c][r.i].kind = "large"
       /\ r.n <= nums
       /\ GrowPages(r.c, r.i, nums)
  \/ CountFreed
  \/ FreeChunks
  \/ FreeCachedChunks
  \/ UnmapAll

PageSpec == PageInit /\ [][PageNext]_pageVars

-----------------------------------------------------------------------------
(* Every run handed out lies in a main chunk, behind the chunk's header, on   *)
(* pages that fmap marks used, and its first map entry still gives its        *)
(* length: what jbl_free, jbl_realloc and __jbl_free_chunks rely on.          *)
RunsBacked ==
  \A r \in runs : /\ r.c \in main
                  /\ RunPages(r) \subseteq fmap[r.c] \ {0}
                  /\ MarkPages(map[r.c][r.i]) = r.n

(* No page belongs to two runs at a time.                                     *)
RunsDisjoint ==
  \A r, s \in runs : r # s /\ r.c = s.c => RunPages(r) \cap RunPages(s) = {}

(* No chunk is both in use and on the cached list, and the page with the      *)
(* header of a chunk in use is never given out.                               *)
ChunksSeparate == /\ main \cap cached = {}
                  /\ \A c \in main : 0 \in fmap[c]
=============================================================================
