------------------------------ MODULE BitRange ------------------------------
(***************************************************************************)
(* What jbl/jbl_bitset.c does to the positions of a bitset.  A bitset is   *)
(* the set of the positions that hold a 1.  Bits are numbered from the     *)
(* most significant bit of word 0 on, so word w holds the positions        *)
(* w*WordBits .. (w+1)*WordBits-1.  Module Bitset has the same operations  *)
(* on words and masks; its run shows that the two agree.                   *)
(***************************************************************************)
EXTENDS Integers

CONSTANTS WordBits,  \* jbl_bitset_bits: bits per word (64, or 32)
          BitLimit   \* positions in the bitset (512 in the page allocator)

ASSUME BitRangeAssumption == /\ WordBits \in Nat \ {0}
                             /\ BitLimit \in Nat \ {0}

WordOf(p) == p \div WordBits

(* The positions that jbl_bitset_set and _reset write for a request (i, cnt). *)
(* The code looks at the word of i and at the word of i+cnt-1.  When cnt = 0  *)
(* and i starts a word, the latter is the word BEFORE the former, and both    *)
(* words are written in full.                                                 *)
(* (i+cnt-1 is unsigned in the code; i = cnt = 0 never reaches it.)           *)
Touched(i, cnt) ==
  LET first == WordOf(i)
      last  == WordOf(i + cnt - 1)
  IN  IF first = last
      THEN i .. (i + cnt - 1)
      ELSE {p \in 0 .. (BitLimit - 1) :
              \/ WordOf(p) = first /\ i <= p
              \/ first < WordOf(p) /\ WordOf(p) < last
              \/ WordOf(p) = last /\ p <= i + cnt - 1}

BitSet(b, i, cnt)   == b \cup Touched(i, cnt)
BitReset(b, i, cnt) == b \ Touched(i, cnt)

(* jbl_bitset_find1(b, i, len) >= e: no 1 between i and e, and e is not past *)
(* the end (find1 answers the length of the bitset when there is no 1).      *)
ZeroesUpTo(b, i, e) == e <= BitLimit /\ \A p \in i .. (e - 1) : p \notin b

(* What one turn of the find0 / find1 loop of __jbl_malloc_page sees: a       *)
(* longest stretch of n zeroes that starts at i.                              *)
ZeroRun(b, i, n) == /\ ZeroesUpTo(b, i, i + n)
                    /\ i = 0 \/ i - 1 \in b
                    /\ i + n = BitLimit \/ i + n \in b
=============================================================================
