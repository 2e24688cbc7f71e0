---------------------------- MODULE MCMallocFast ----------------------------
(* Small instance of the allocator: chunks of six 6-byte pages with 3-bit     *)
(* bitset words, one bin of two 3-byte blocks on one page and one of three    *)
(* 4-byte blocks on two pages, whose middle block crosses a page boundary.    *)
EXTENDS MallocFast, TLC

MCBinPages == (0 :> 1) @@ (1 :> 2)
MCBinBytes == (0 :> 3) @@ (1 :> 4)
MCBinCount == (0 :> 2) @@ (1 :> 3)
Areas == Permutations(Region)
=============================================================================
