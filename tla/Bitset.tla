------------------------------- MODULE Bitset -------------------------------
(***************************************************************************)
(* jbl/jbl_bitset.c as it is written: an array of words, masks made by     *)
(* shifts, the highest bit of a word found by halving.  The array is       *)
(* followed by one more word of the same chunk page, which the code can    *)
(* read and write.  The inputs are those of jbl_malloc_fast.c: a set of    *)
(* zero bits (a block that grows by no page) is one of them.               *)
(***************************************************************************)
EXTENDS Integers, SequencesExt, Bitwise

CONSTANTS W,     \* jbl_bitset_bits, a power of two
          Len0   \* words in the array (jbl_malloc_fmap_len)

ASSUME BitsetAssumption == W \in {4, 8, 16} /\ Len0 \in Nat \ {0}

N == Len0 * W                        \* bits in the array
Full == 2^W - 1                      \* -1 as a word
WordIdx == 0 .. Len0                 \* word Len0 lies behind the array

VARIABLES bitset,   \* [WordIdx -> 0 .. Full]
          bits      \* auxiliary: the positions set, by module BitRange

vars == <<bitset, bits>>

Positions == INSTANCE BitRange WITH WordBits <- W, BitLimit <- N + W

-----------------------------------------------------------------------------
(* A variant: the shift without its test, as x86 shifts.                      *)
SlmUnguarded(a, b) == (a * 2^(b % W)) % 2^W

(* slm(a, b), and slm(1, n) - 1: n ones at the low end, all ones from W on.   *)
Slm(a, b) == IF b >= W THEN 0 ELSE (a * 2^b) % 2^W
Ones(n) == (Slm(1, n) - 1) % 2^W

(* jbl_bitset_set's write of m into word p, and jbl_bitset_reset's.           *)
SetWord(word, m) == word | m
ResetWord(word, m) == word & (Full - m)

(* The mask that a request (i, cnt) puts on word p (0: p is not written).     *)
Mask(i, cnt, p) ==
  LET first == i \div W
      last  == (cnt + i - 1) \div W
      e     == cnt + i - 1 - last * W
      s     == i - first * W
  IN  CASE first = last /\ p = first -> Slm(Ones(e + 1 - s), W - e - 1)
        [] first # last /\ p = first -> Ones(W - s)
        [] first < p /\ p < last     -> Full
        [] first # last /\ p = last  -> Slm(Ones(e + 1), W - e - 1)
        [] OTHER                     -> 0

(* A variant: 0X4 for 0X8, and so on, as the threshold of a halving.          *)
HalveEarly(x, h) == IF x.a >= 2^(h - 2) THEN [a |-> x.a \div 2^h, b |-> x.b + h] ELSE x

(* jbl_highbit on w bits: halve the width, then the last three tests.         *)
Halves(w) == CASE w = 4 -> <<>> [] w = 8 -> <<4>> [] w = 16 -> <<8, 4>>
                [] w = 32 -> <<16, 8, 4>>
Halve(x, h) == IF x.a >= 2^(h - 1) THEN [a |-> x.a \div 2^h, b |-> x.b + h] ELSE x
Highbit(a, w) ==
  LET x == FoldLeft(Halve, [a |-> a, b |-> -1], Halves(w))
      y == IF x.a >= 4 THEN [a |-> x.a \div 4, b |-> x.b + 2] ELSE x
      z == IF y.a >= 2 THEN [a |-> y.a \div 2, b |-> y.b + 1] ELSE y
  IN  IF z.a >= 1 THEN z.b + 1 ELSE z.b
Highbit0(a, w) == Highbit(2^w - 1 - a, w)

(* A variant: the bits before i are not masked.                               *)
Find0Unmasked(b, i) ==
  LET from == {q \in (i \div W) .. (Len0 - 1) : b[q] # Full}
  IN  IF from = {} THEN N ELSE Min(from) * W + W - Highbit0(b[Min(from)], W) - 1

(* jbl_bitset_find0: bits before i count as ones.                             *)
Find0(b, i) ==
  LET p   == i \div W
      s   == i - p * W
      tmp == b[p] | Slm(Ones(s), W - s)
      later == {q \in (p + 1) .. (Len0 - 1) : b[q] # Full}
  IN  IF tmp # Full THEN p * W + W - Highbit0(tmp, W) - 1
      ELSE IF later = {} THEN N
      ELSE Min(later) * W + W - Highbit0(b[Min(later)], W) - 1

(* jbl_bitset_find1: bits before i count as zeroes.                           *)
Find1(b, i) ==
  LET p   == i \div W
      s   == i - p * W
      tmp == b[p] & Ones(W - s)
      later == {q \in (p + 1) .. (Len0 - 1) : b[q] # 0}
  IN  IF tmp # 0 THEN p * W + W - Highbit(tmp, W) - 1
      ELSE IF later = {} THEN N
      ELSE Min(later) * W + W - Highbit(b[Min(later)], W) - 1

(* The stretches of zeroes that the find0 / find1 loop of __jbl_malloc_page   *)
(* meets, as pairs of first position and length.                              *)
ScanRuns(b) ==
  LET scan[i \in 0 .. (N + 1)] ==
        IF i >= N THEN {}
        ELSE LET j == Find0(b, i)
                 k == Find1(b, j)
             IN  (IF k > j THEN {<<j, k - j>>} ELSE {}) \cup scan[k + 1]
  IN  scan[0]

-----------------------------------------------------------------------------
Init == bitset = [p \in WordIdx |-> 0] /\ bits = {}

Set(i, cnt) ==
  /\ bitset' = [p \in WordIdx |-> SetWord(bitset[p], Mask(i, cnt, p))]
  /\ bits' = Positions!BitSet(bits, i, cnt)

Reset(i, cnt) ==
  /\ bitset' = [p \in WordIdx |-> ResetWord(bitset[p], Mask(i, cnt, p))]
  /\ bits' = Positions!BitReset(bits, i, cnt)

Next == \/ \E i \in 0 .. N : \E cnt \in 0 .. (N - i) : i + cnt > 0 /\ Set(i, cnt)
        \/ \E i \in 0 .. (N - 1) : \E cnt \in 1 .. (N - i) : Reset(i, cnt)

Spec == Init /\ [][Next]_vars

-----------------------------------------------------------------------------
(* The masks write exactly the positions that module BitRange says, word      *)
(* boundaries, full words and the request of zero bits included, and leave    *)
(* words of W bits.                                                           *)
BitAt(b, q) == (b[q \div W] \div 2^(W - 1 - (q % W))) % 2
MasksAgree == /\ bitset \in [WordIdx -> 0 .. Full]
              /\ bits = {q \in 0 .. (N + W - 1) : BitAt(bitset, q) = 1}

(* find0 and find1 answer the first 0 (1) at or after i, or the length of the *)
(* array when there is none, whatever the word behind the array holds.  So    *)
(* the tests of module BitRange say what the code asks of them: jbl_realloc's *)
(* "find1(fmap, i+n, len) >= i+page", and the stretches that the loop of      *)
(* __jbl_malloc_page meets.                                                   *)
FirstWith(v, i) == Min({N} \cup {q \in i .. (N - 1) : BitAt(bitset, q) = v})
InArray == INSTANCE BitRange WITH WordBits <- W, BitLimit <- N
FindsFirst ==
  LET b == bits \cap (0 .. (N - 1))
      runs == ScanRuns(bitset)
  IN  \A i \in 0 .. N :
        /\ Find0(bitset, i) = FirstWith(0, i) /\ Find1(bitset, i) = FirstWith(1, i)
        /\ \A e \in i .. N + 1 : InArray!ZeroesUpTo(b, i, e) <=> Find1(bitset, i) >= e
        /\ \A n \in 1 .. N : InArray!ZeroRun(b, i, n) <=> <<i, n>> \in runs

(* Halving finds the highest 1, in 16 bits and in 8, of every number that the *)
(* words make up (numbers below 4096 with three words of four bits).          *)
HighestOne(a) == CHOOSE h \in 0 .. 30 : 2^h <= a /\ a < 2^(h + 1)
Joined == bitset[0] + bitset[1] * 2^W + (IF Len0 > 2 THEN bitset[2] * 2^(2 * W) ELSE 0)
HighbitRight == Joined > 0 => /\ Highbit(Joined, 16) = HighestOne(Joined)
                              /\ Joined < 256 => Highbit(Joined, 8) = HighestOne(Joined)
=============================================================================
