----------------------------- MODULE MCStrings -----------------------------
(* Two literals for TLC, with a letter and its upper case; the variables are *)
(* alike.                                                                    *)
EXTENDS Strings
MCLiteral == {<<1>>, <<2, 1>>}
Alike == Permutations(Var)
=============================================================================
