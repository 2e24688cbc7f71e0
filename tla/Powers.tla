------------------------------- MODULE Powers -------------------------------
(***************************************************************************)
(* 1 << (jbl_highbit(n - 1) + 1), as jbl_string.c and jbl_ht.c round sizes *)
(* up: the least power of two that is at least n.  All the divisors of a   *)
(* power of two are even, but 1.                                           *)
(***************************************************************************)
EXTENDS Integers, FiniteSetsExt

PowerOfTwo(p) == \A d \in 2 .. p : p % d = 0 => d % 2 = 0
PowerUp(n) == Min({p \in n .. 2 * n : PowerOfTwo(p)})
=============================================================================
