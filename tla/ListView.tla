------------------------------ MODULE ListView ------------------------------
(* What a list promises: a sequence of payloads, changed at one place.        *)
EXTENDS Integers, SequencesExt

CONSTANT Value
VARIABLE list

Init == list = <<>>

AddAt(i, x) == list' = InsertAt(list, i, x)
DropAt(i) == list' = RemoveAt(list, i)
Exchange(i, j) == list' = [list EXCEPT ![i] = list[j], ![j] = list[i]]
Empty == list' = <<>>

Next == \/ \E i \in 1 .. (Len(list) + 1), x \in Value : AddAt(i, x)
        \/ \E i \in DOMAIN list : DropAt(i)
        \/ \E i, j \in DOMAIN list : Exchange(i, j)
        \/ Empty

Spec == Init /\ [][Next]_list
=============================================================================
