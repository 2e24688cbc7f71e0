----------------------------- MODULE MallocFast -----------------------------
(***************************************************************************)
(* The allocator of jbl/jbl_malloc_fast.c above its page layer (PageHeap): *)
(* small blocks cut from page runs and kept on one slot list per bin,      *)
(* large blocks of whole pages, huge blocks with an mmap of their own, and *)
(* the entry points jbl_malloc, jbl_realloc, jbl_free, __jbl_free_smalls,  *)
(* __jbl_free_chunks, __jbl_free_cached_chunks and jbl_malloc_stop.        *)
(*                                                                         *)
(* The library is built single-threaded (JBL_PTHREAD_ENABLE 0: the locks   *)
(* are empty macros), so a call is one action, except where it uses the    *)
(* page layer twice: jbl_realloc of a block that moves takes two, and      *)
(* __jbl_free_smalls one per turn of its loop.  pc says where the call is. *)
(***************************************************************************)
EXTENDS PageHeap, Sequences, FiniteSetsExt

CONSTANTS PageBytes,    \* 4096
          BinBytes,     \* jbl_malloc_small_bins[t].size
          BinCount,     \* jbl_malloc_small_bins[t].count
          SmallMax,     \* 3072, the largest small request
          RoundMask,    \* 512: jbl_realloc looks at size & 0x1FF
          HugeHeader,   \* sizeof(jbl_malloc_huge_struct)
          Sizes,        \* sizes the callers ask for
          MaxLive       \* bound: blocks the callers hold at a time

ChunkBytes == PageCount * PageBytes            \* 2 MB
LargeMax   == (PageCount - 1) * PageBytes      \* 2093056
RoundUp(sz) == (IF sz % PageBytes # 0 THEN 1 ELSE 0) + (sz \div PageBytes)

ASSUME MallocFastAssumption ==
         /\ PageBytes \in Nat \ {0}
         /\ RoundMask \in Nat \ {0}
         /\ IsFiniteSet(Bin) /\ Bin # {} /\ Bin = 0 .. (Cardinality(Bin) - 1)
         /\ BinBytes \in [Bin -> 1 .. SmallMax]
         /\ BinCount \in [Bin -> Nat \ {0}]
         /\ \A t \in Bin : BinCount[t] * BinBytes[t] <= BinPages[t] * PageBytes
         /\ SmallMax < PageBytes
         /\ HugeHeader \in 1 .. SmallMax
         /\ Sizes \subseteq Nat \ {0}
         /\ \E t \in Bin : BinBytes[t] = SmallMax

VARIABLES slot,          \* [Bin -> list of free small blocks]
          huge_list,     \* the huge blocks: their area, size and list header
          heap_size,     \* jbl_malloc_heap.size
          applied_size,  \* jbl_malloc_heap.applied_size
          asked,         \* auxiliary: block held by a caller |-> size asked for
          pc             \* the call in progress

heapVars == <<slot, huge_list, heap_size, applied_size, asked, pc>>
vars == <<pageVars, heapVars>>

Idle == [op |-> "idle"]
Moving(a) == [op |-> "move", old |-> a]
Reclaiming(t, k) == [op |-> "reclaim", t |-> t, k |-> k]
Stopping == [op |-> "stop"]
Stopped == [op |-> "stopped"]

(* A block is known by its address: a byte offset in a 2 MB area.             *)
Addr == [c : Region, o : 0 .. (ChunkBytes - 1)]
PageOf(a) == a.o \div PageBytes
MarkOf(a) == map[a.c][PageOf(a)]
Father(a) == PageOf(a) - MarkOf(a).off         \* first page of a's run
SmallBlock(r, t, k) == [c |-> r.c, o |-> r.i * PageBytes + k * BinBytes[t]]

Live == DOMAIN asked
HugePtrs == {g.ptr : g \in huge_list}
HugeAreas == {g.ptr.c : g \in huge_list}
HugeOf(a) == CHOOSE g \in huge_list : g.ptr = a

Init ==
  /\ PageInit
  /\ slot = [t \in Bin |-> <<>>]
  /\ huge_list = {}
  /\ heap_size = 0
  /\ applied_size = 0
  /\ asked = <<>>
  /\ pc = Idle

-----------------------------------------------------------------------------
(* jbl_malloc *)

BinFor(sz) == CHOOSE t \in Bin : /\ sz <= BinBytes[t]
                                 /\ \A u \in Bin : u < t => BinBytes[u] < sz

(* The 2 MB that __jbl_malloc_chunk adds to applied_size when it calls mmap.  *)
ChunkMapped == IF main' \cup cached' = main \cup cached THEN 0 ELSE ChunkBytes

(* The addresses a request may be answered with.                              *)
SmallOffers(t) == IF slot[t] # <<>>
                  THEN {Head(slot[t])}
                  ELSE {SmallBlock(r, t, BinCount[t] - 1) : r \in Places(BinPages[t])}
LargeOffers(nums) == {[c |-> r.c, o |-> r.i * PageBytes] : r \in Places(nums)}
HugeOffers == {[c |-> c, o |-> 0] : c \in Region \ (main \cup cached \cup HugeAreas)}

Offers(sz) == IF sz <= SmallMax THEN SmallOffers(BinFor(sz))
              ELSE IF sz <= LargeMax THEN LargeOffers(RoundUp(sz)) ELSE HugeOffers

(* A variant: the block answered is put on the slot list as well.             *)
TakeSmallListed(t, a) ==
  \/ /\ slot[t] # <<>>
     /\ a = Head(slot[t])
     /\ slot' = [slot EXCEPT ![t] = Tail(@)]
     /\ UNCHANGED pageVars
  \/ /\ slot[t] = <<>>
     /\ \E r \in Places(BinPages[t]) :
          /\ r.c \notin HugeAreas
          /\ MallocPage(BinPages[t], SmallMark(t), r)
          /\ a = SmallBlock(r, t, BinCount[t] - 1)
          /\ slot' = [slot EXCEPT ![t] =
                        [k \in 1 .. BinCount[t] |-> SmallBlock(r, t, BinCount[t] - k)]]

(* __jbl_malloc_small without its count of bytes: the first block of the slot *)
(* list, or the last block of a new run whose other blocks fill the list.     *)
TakeSmall(t, a) ==
  \/ /\ slot[t] # <<>>
     /\ a = Head(slot[t])
     /\ slot' = [slot EXCEPT ![t] = Tail(@)]
     /\ UNCHANGED pageVars
  \/ /\ slot[t] = <<>>
     /\ \E r \in Places(BinPages[t]) :
          /\ r.c \notin HugeAreas
          /\ MallocPage(BinPages[t], SmallMark(t), r)
          /\ a = SmallBlock(r, t, BinCount[t] - 1)
          /\ slot' = [slot EXCEPT ![t] =
                        [k \in 1 .. (BinCount[t] - 1) |-> SmallBlock(r, t, BinCount[t] - 1 - k)]]

MallocSmall(sz, a) ==
  /\ TakeSmall(BinFor(sz), a)
  /\ heap_size' = heap_size + BinBytes[BinFor(sz)]
  /\ applied_size' = applied_size + ChunkMapped
  /\ UNCHANGED huge_list

MallocLarge(sz, a) ==
  /\ \E r \in Places(RoundUp(sz)) :
       /\ r.c \notin HugeAreas
       /\ MallocPage(RoundUp(sz), LargeMark(RoundUp(sz)), r)
       /\ a = [c |-> r.c, o |-> r.i * PageBytes]
  /\ heap_size' = heap_size + RoundUp(sz) * PageBytes
  /\ applied_size' = applied_size + ChunkMapped
  /\ UNCHANGED <<slot, huge_list>>

(* A huge block has a list header in a small block, and an area of its own.   *)
MallocHuge(sz, a) ==
  LET t == BinFor(HugeHeader)
      bytes == RoundUp(sz) * PageBytes
  IN  \E h \in SmallOffers(t) :
        /\ TakeSmall(t, h)
        /\ a.c \notin main'
        /\ huge_list' = huge_list \cup {[ptr |-> a, size |-> bytes, this |-> h]}
        /\ heap_size' = heap_size + BinBytes[t] + bytes
        /\ applied_size' = applied_size + ChunkMapped + bytes

(* jbl_malloc of sz bytes answers the block a.                                *)
(* When mmap fails the call ends in jbl_exception, which ends the process:    *)
(* there is no step then.                                                     *)
MallocBlock(sz, a) ==
  /\ a \in Offers(sz)
  /\ \/ sz <= SmallMax /\ MallocSmall(sz, a)
     \/ SmallMax < sz /\ sz <= LargeMax /\ MallocLarge(sz, a)
     \/ LargeMax < sz /\ MallocHuge(sz, a)

Holds(a, sz) ==
  asked' = [x \in Live \cup {a} |-> IF x \in Live THEN asked[x] ELSE sz]

Malloc(sz) ==
  /\ pc = Idle
  /\ Cardinality(Live) < MaxLive
  /\ \E a \in Offers(sz) : MallocBlock(sz, a) /\ Holds(a, sz)
  /\ UNCHANGED pc

-----------------------------------------------------------------------------
(* jbl_malloc_size *)

MallocSize(a) ==
  IF a \in HugePtrs THEN HugeOf(a).size
  ELSE IF MarkOf(a).kind = "small" THEN BinBytes[MarkOf(a).val]
  ELSE MarkOf(a).val * PageBytes

-----------------------------------------------------------------------------
(* jbl_free *)

FreeSmall(a) ==
  LET t == MarkOf(a).val
  IN  /\ slot' = [slot EXCEPT ![t] = <<a>> \o @]
      /\ heap_size' = heap_size - BinBytes[t]
      /\ UNCHANGED <<pageVars, huge_list, applied_size>>

FreeLarge(a) ==
  /\ FreePage(a.c, PageOf(a))
  /\ heap_size' = heap_size - MarkPages(MarkOf(a)) * PageBytes
  /\ UNCHANGED <<slot, huge_list, applied_size>>

FreeHuge(a) ==
  LET g == HugeOf(a)
      t == MarkOf(g.this).val
  IN  /\ huge_list' = huge_list \ {g}
      /\ slot' = [slot EXCEPT ![t] = <<g.this>> \o @]
      /\ heap_size' = heap_size - g.size - BinBytes[t]
      /\ applied_size' = applied_size - g.size
      /\ UNCHANGED pageVars

Forget(a) == asked' = [x \in Live \ {a} |-> asked[x]]

(* The address alone tells a block that starts no page, then a huge one; the  *)
(* mark of its page tells the rest apart.                                     *)
Free(a) ==
  /\ pc = Idle
  /\ IF a.o % PageBytes # 0 THEN FreeSmall(a)
     ELSE IF a.o = 0 /\ a \in HugePtrs THEN FreeHuge(a)
     ELSE IF MarkOf(a).kind = "small" THEN FreeSmall(a) ELSE FreeLarge(a)
  /\ Forget(a)
  /\ UNCHANGED pc

-----------------------------------------------------------------------------
(* jbl_realloc *)

(* The pages the in-place branch works with: the low bits of the size are     *)
(* masked with 0x1FF, where __jbl_malloc_large masks them with 0xFFF.         *)
ReallocPages(sz) == (IF sz % RoundMask # 0 THEN 1 ELSE 0) + (sz \div PageBytes)

IsLarge(sz) == SmallMax < sz /\ sz <= LargeMax

InPlace(a, sz) == /\ IsLarge(MallocSize(a)) /\ IsLarge(sz)
                  /\ CanGrow(a.c, PageOf(a), ReallocPages(sz))

ReallocKeep(a, sz) ==
  /\ pc = Idle
  /\ sz < MallocSize(a)
  /\ asked' = [asked EXCEPT ![a] = sz]
  /\ UNCHANGED <<pageVars, slot, huge_list, heap_size, applied_size, pc>>

(* A variant: the bytes of the whole run are added, not of its new pages.     *)
ReallocInPlaceRecount(a, sz) ==
  /\ pc = Idle
  /\ MallocSize(a) <= sz
  /\ InPlace(a, sz)
  /\ GrowPages(a.c, PageOf(a), ReallocPages(sz))
  /\ heap_size' = heap_size + ReallocPages(sz) * PageBytes
  /\ asked' = [asked EXCEPT ![a] = sz]
  /\ UNCHANGED <<slot, huge_list, applied_size, pc>>

ReallocInPlace(a, sz) ==
  /\ pc = Idle
  /\ MallocSize(a) <= sz
  /\ InPlace(a, sz)
  /\ GrowPages(a.c, PageOf(a), ReallocPages(sz))
  /\ heap_size' = heap_size + (ReallocPages(sz) - MarkOf(a).val) * PageBytes
  /\ asked' = [asked EXCEPT ![a] = sz]
  /\ UNCHANGED <<slot, huge_list, applied_size, pc>>

(* Otherwise a new block first, then the old contents are copied over ...     *)
ReallocMove(a, sz) ==
  /\ pc = Idle
  /\ MallocSize(a) <= sz
  /\ ~InPlace(a, sz)
  /\ \E b \in Offers(sz) : MallocBlock(sz, b) /\ Holds(b, sz)
  /\ pc' = Moving(a)

(* ... and the old block is freed, by its size.                               *)
ReallocFreeOld ==
  /\ pc.op = "move"
  /\ LET now == MallocSize(pc.old)
     IN  IF now <= SmallMax THEN FreeSmall(pc.old)
         ELSE IF now <= LargeMax THEN FreeLarge(pc.old) ELSE FreeHuge(pc.old)
  /\ Forget(pc.old)
  /\ pc' = Idle

Realloc(a, sz) == ReallocKeep(a, sz) \/ ReallocInPlace(a, sz) \/ ReallocMove(a, sz)

-----------------------------------------------------------------------------
(* __jbl_free_smalls: for each bin, walk its slot list (k blocks are behind   *)
(* the walk), count the blocks of each run in the run's first map entry, and  *)
(* give a run back when all its blocks are on the list.                       *)

FreeSmalls == /\ pc = Idle
              /\ pc' = Reclaiming(0, 0)
              /\ UNCHANGED <<pageVars, slot, huge_list, heap_size, applied_size, asked>>

Visited == slot[pc.t][pc.k + 1]
Counted == map[Visited.c][Father(Visited)].cnt + 1

ReclaimCount ==
  /\ pc.op = "reclaim"
  /\ pc.k < Len(slot[pc.t])
  /\ Counted # BinCount[pc.t]
  /\ map' = [map EXCEPT ![Visited.c][Father(Visited)].cnt = Counted]
  /\ CountFreed
  /\ pc' = [pc EXCEPT !.k = @ + 1]
  /\ UNCHANGED <<slot, huge_list, heap_size, applied_size, asked>>

(* The elements of list at the positions in J, in their order.                *)
Picked(list, J) ==
  [n \in 1 .. Cardinality(J) |->
     list[CHOOSE j \in J : Cardinality({i \in J : i <= j}) = n]]

(* Of the blocks up to the one visited, those with another father page index; *)
(* and the blocks the walk has not come to.                                   *)
Kept == Picked(slot[pc.t],
               {j \in 1 .. (pc.k + 1) : Father(slot[pc.t][j]) # Father(Visited)})
Unvisited == SubSeq(slot[pc.t], pc.k + 2, Len(slot[pc.t]))

(* Variants: the blocks before the last one stay on the list; the walk goes   *)
(* on from where it was although the list has become shorter; the pages from  *)
(* the last block's own page on are freed, not those from its father page on. *)
ReclaimRunUnlinkOne ==
  /\ pc.op = "reclaim"
  /\ pc.k < Len(slot[pc.t])
  /\ Counted = BinCount[pc.t]
  /\ slot' = [slot EXCEPT ![pc.t] = SubSeq(@, 1, pc.k) \o Unvisited]
  /\ UNCHANGED pc
  /\ FreePage(Visited.c, Father(Visited))
  /\ UNCHANGED <<huge_list, heap_size, applied_size, asked>>

ReclaimRunAhead ==
  /\ pc.op = "reclaim"
  /\ pc.k < Len(slot[pc.t])
  /\ Counted = BinCount[pc.t]
  /\ slot' = [slot EXCEPT ![pc.t] = Kept \o Unvisited]
  /\ pc' = [pc EXCEPT !.k = @ + 1]
  /\ FreePage(Visited.c, Father(Visited))
  /\ UNCHANGED <<huge_list, heap_size, applied_size, asked>>

ReclaimRunOwnPage ==
  /\ pc.op = "reclaim"
  /\ pc.k < Len(slot[pc.t])
  /\ Counted = BinCount[pc.t]
  /\ slot' = [slot EXCEPT ![pc.t] = Kept \o Unvisited]
  /\ pc' = [pc EXCEPT !.k = Len(Kept)]
  /\ FreePage(Visited.c, PageOf(Visited))
  /\ UNCHANGED <<huge_list, heap_size, applied_size, asked>>

(* The blocks behind the walk with this father page index leave the list, in  *)
(* whichever chunk they are; then the run is freed.                           *)
ReclaimRun ==
  /\ pc.op = "reclaim"
  /\ pc.k < Len(slot[pc.t])
  /\ Counted = BinCount[pc.t]
  /\ slot' = [slot EXCEPT ![pc.t] = Kept \o Unvisited]
  /\ pc' = [pc EXCEPT !.k = Len(Kept)]
  /\ FreePage(Visited.c, Father(Visited))
  /\ UNCHANGED <<huge_list, heap_size, applied_size, asked>>

(* The end of the list: the counts of the blocks still on it are cleared, and *)
(* the walk goes on with the next bin.                                        *)
ReclaimNextBin ==
  /\ pc.op = "reclaim"
  /\ pc.k = Len(slot[pc.t])
  /\ LET left == {slot[pc.t][j] : j \in DOMAIN slot[pc.t]}
         counted == {[c |-> x.c, p |-> Father(x)] : x \in left}
     IN  map' = [c \in Region |-> [p \in Page |->
                   IF [c |-> c, p |-> p] \in counted
                   THEN [map[c][p] EXCEPT !.cnt = 0] ELSE map[c][p]]]
  /\ CountFreed
  /\ pc' = IF pc.t + 1 \in Bin THEN Reclaiming(pc.t + 1, 0) ELSE Idle
  /\ UNCHANGED <<slot, huge_list, heap_size, applied_size, asked>>

ReclaimStep == ReclaimCount \/ ReclaimRun \/ ReclaimNextBin

-----------------------------------------------------------------------------
ReclaimChunks == /\ pc = Idle
                 /\ FreeChunks
                 /\ UNCHANGED heapVars

(* __jbl_free_cached_chunks takes the chunks' bytes off applied_size.         *)
ReleaseChunks ==
  /\ pc = Idle
  /\ FreeCachedChunks
  /\ applied_size' = applied_size - Cardinality(cached) * ChunkBytes
  /\ UNCHANGED <<slot, huge_list, heap_size, asked, pc>>

(* jbl_malloc_stop: the huge blocks are freed one by one, then every chunk is *)
(* unmapped as it is.  slot keeps what it held.                               *)
BeginStop == /\ pc = Idle
             /\ pc' = Stopping
             /\ UNCHANGED <<pageVars, slot, huge_list, heap_size, applied_size, asked>>

StopHuge == /\ pc = Stopping
            /\ \E g \in huge_list : FreeHuge(g.ptr) /\ Forget(g.ptr)
            /\ UNCHANGED pc

StopChunks == /\ pc = Stopping
              /\ huge_list = {}
              /\ UnmapAll
              /\ asked' = <<>>
              /\ pc' = Stopped
              /\ UNCHANGED <<slot, huge_list, heap_size, applied_size>>

-----------------------------------------------------------------------------
Next == \/ \E sz \in Sizes : Malloc(sz)
        \/ \E a \in Live : Free(a)
        \/ \E a \in Live, sz \in Sizes : Realloc(a, sz)
        \/ ReallocFreeOld
        \/ FreeSmalls
        \/ ReclaimStep
        \/ ReclaimChunks
        \/ ReleaseChunks
        \/ BeginStop
        \/ StopHuge
        \/ StopChunks

Spec == Init /\ [][Next]_vars

(* One thread runs the library: a call that has begun goes on to its end.     *)
FairSpec == Spec /\ WF_vars(ReallocFreeOld) /\ WF_vars(ReclaimStep)
                 /\ WF_vars(StopHuge) /\ WF_vars(StopChunks)
-----------------------------------------------------------------------------
(* The properties. *)

(* Each variable has its type; blocks held and free blocks are addresses.     *)
TypeOK ==
  /\ PageTypeOK
  /\ slot \in [Bin -> Seq(Addr)]
  /\ huge_list \subseteq [ptr : Addr, size : Nat, this : Addr]
  /\ heap_size \in Nat
  /\ applied_size \in Nat
  /\ Live \subseteq Addr
  /\ \A a \in Live : asked[a] \in Sizes
  /\ \/ pc \in {Idle, Stopping, Stopped}
     \/ \E a \in Live : pc = Moving(a)
     \/ \E t \in Bin : \E k \in 0 .. Len(slot[t]) : pc = Reclaiming(t, k)

Up == pc # Stopped
Headers == {g.this : g \in huge_list}

(* Every free small block, every small block held and every huge header is a  *)
(* block of a run that is still handed out, of the bin the map says.          *)
BlockOf(r, t, a) == /\ a.c = r.c
                    /\ MarkOf(a).kind = "small" /\ MarkOf(a).val = t
                    /\ Father(a) = r.i
                    /\ \E k \in 0 .. (BinCount[t] - 1) : a = SmallBlock(r, t, k)

Listed(t) == {slot[t][k] : k \in DOMAIN slot[t]}

SmallBlocksBacked ==
  Up => /\ \A t \in Bin : \A a \in Listed(t) : \E r \in runs : BlockOf(r, t, a)
        /\ \A a \in Headers : \E r \in runs : BlockOf(r, BinFor(HugeHeader), a)
        /\ \A a \in Live \ HugePtrs :
             \E r \in runs : \/ \E t \in Bin : BlockOf(r, t, a)
                            \/ a = [c |-> r.c, o |-> r.i * PageBytes]

(* No block is free twice, or free and in use: the slot lists repeat nothing, *)
(* share nothing, and hold neither a block of a caller nor a huge header.     *)
NoBlockTwice ==
  Up => /\ \A t, u \in Bin : \A j \in DOMAIN slot[t], k \in DOMAIN slot[u] :
             slot[t][j] = slot[u][k] => t = u /\ j = k
        /\ \A t \in Bin : Listed(t) \cap (Live \cup Headers) = {}
        /\ Live \cap Headers = {}

(* size is the sum of the blocks in use, applied_size that of the memory the  *)
(* system has given.                                                          *)
Accounting ==
  Up => /\ heap_size = MapThenSumSet(MallocSize, Live)
                        + Cardinality(huge_list) * BinBytes[BinFor(HugeHeader)]
        /\ applied_size = Cardinality(main \cup cached) * ChunkBytes
                           + MapThenSumSet(LAMBDA g : g.size, huge_list)

(* The callers' view: blocks that share no byte and that only their own calls *)
(* change (module Heap).                                                      *)
Callers == INSTANCE Heap WITH
             blocks <- {[c |-> a.c, o |-> a.o, len |-> MallocSize(a)] : a \in Live}
ImplementsHeap == Callers!Spec

(* The allocator uses its pages as the page layer allows (module PageHeap):   *)
(* it gives back only whole runs that are handed out, each once.              *)
ImplementsPages == PageSpec

(* A block is as large as its last request.                                   *)
BigEnough == \A a \in Live : asked[a] <= MallocSize(a)

(* Every page that fmap marks used, but a chunk's header, belongs to a run.   *)
PagesOwned == \A c \in main : \A p \in fmap[c] \ {0} :
                \E r \in runs : r.c = c /\ p \in RunPages(r)

(* Every block of a small run is held, free on its slot list, or a header.    *)
SmallBlocksKept ==
  Up => \A r \in runs : LET m == map[r.c][r.i] IN m.kind = "small" =>
          \A k \in 0 .. (BinCount[m.val] - 1) :
            SmallBlock(r, m.val, k) \in Listed(m.val) \cup Live \cup Headers

(* A call of __jbl_free_smalls or of jbl_malloc_stop, and a jbl_realloc that  *)
(* moves its block, come to an end.                                           *)
CallsEnd == /\ (pc.op \in {"reclaim", "move"}) ~> (pc = Idle)
            /\ (pc = Stopping) ~> (pc = Stopped)
=============================================================================
