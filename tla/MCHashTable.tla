---------------------------- MODULE MCHashTable ----------------------------
(* Keys for TLC: two strings whose hashes agree in all tables up to size 4,  *)
(* one that is elsewhere, and a number equal to the hash of the first.       *)
EXTENDS HashTable
StringKey(s, hash) == [k |-> s, h |-> hash]
NumberKey(n) == [k |-> "NULL", h |-> n]
MCKey == {StringKey("a", 0), StringKey("b", 4), StringKey("c", 1), NumberKey(0)}
=============================================================================
