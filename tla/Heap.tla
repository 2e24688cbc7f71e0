-------------------------------- MODULE Heap --------------------------------
(***************************************************************************)
(* What a caller of jbl_malloc, jbl_realloc and jbl_free may count on: the *)
(* blocks it holds never share a byte, and a block changes only through a  *)
(* call about that very block.                                             *)
(***************************************************************************)
EXTENDS Integers

VARIABLE blocks   \* the blocks held: [c, o, len], len bytes from offset o of area c

Apart(a, b) == a.c = b.c => (a.o + a.len <= b.o \/ b.o + b.len <= a.o)

Init == blocks = {}

Grant(b) == /\ b.len > 0
            /\ \A x \in blocks : Apart(x, b)
            /\ blocks' = blocks \cup {b}

Release(b) == blocks' = blocks \ {b}

Extend(a, b) == /\ a.c = b.c /\ a.o = b.o /\ a.len < b.len
                /\ \A x \in blocks \ {a} : Apart(x, b)
                /\ blocks' = (blocks \ {a}) \cup {b}

ReleaseAll == blocks' = {}

Next == \/ \E b \in blocks' \ blocks : Grant(b)
        \/ \E b \in blocks : Release(b)
        \/ \E a \in blocks : \E b \in blocks' \ blocks : Extend(a, b)
        \/ ReleaseAll

Spec == Init /\ [][Next]_blocks
=============================================================================
