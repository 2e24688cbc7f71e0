------------------------------ MODULE Holders ------------------------------
(* What variables that hold lists promise: each stands at a cell, several    *)
(* variables only after jbl_refer or after copying a variable that refers;   *)
(* a change reaches the cell of the variable it was made through and no      *)
(* other cell.                                                               *)
EXTENDS Integers, SequencesExt

CONSTANTS Holder, Cell, None
VARIABLES cell,   \* [Holder -> Cell \cup {None}]
          val     \* what each cell in use holds

vars == <<cell, val>>
InUse == {cell[h] : h \in Holder} \ {None}

Init == cell = [h \in Holder |-> None] /\ val = <<>>

(* h stands at c from now on; cells nobody stands at are forgotten.           *)
Place(h, c, v) ==
  /\ cell' = [cell EXCEPT ![h] = c]
  /\ val' = [d \in InUse' |-> IF d = c THEN v ELSE val[d]]

Leave(h) == /\ cell' = [cell EXCEPT ![h] = None]
            /\ val' = [d \in InUse' |-> val[d]]
Snapshot(h, g) == \E c \in Cell \ InUse : Place(g, c, val[cell[h]])
Share(h, g) == Place(g, cell[h], val[cell[h]])
(* After jbl_derefer a variable that stood at its cell alone still does.      *)
Derefer(h) == /\ \A g \in Holder \ {h} : cell[g] # cell[h]
              /\ Snapshot(h, h)
Refer(h, g) == \E c \in Cell \ InUse :
  /\ cell' = [k \in Holder |-> IF k = g \/ k = h THEN c ELSE cell[k]]
  /\ val' = [d \in InUse' |-> IF d = c THEN val[cell[h]] ELSE val[d]]

(* The ways to change a list: an item more, one less, two exchanged, another  *)
(* list's items behind, or an item more in a list inside.                     *)
Edited(old, new) ==
  \/ \E k \in DOMAIN new : k <= Len(old) + 1 /\ new = InsertAt(old, k, new[k])
  \/ \E k \in DOMAIN old : new = RemoveAt(old, k)
  \/ \E j, k \in DOMAIN old : new = [old EXCEPT ![j] = old[k], ![k] = old[j]]
  \/ \E g \in Holder : cell[g] # None /\ new = old \o val[cell[g]]
  \/ \E k \in DOMAIN old :
       /\ new = [old EXCEPT ![k] = new[k]]
       /\ old[k][1] = "list" /\ new[k][1] = "list"
       /\ Front(new[k][2]) = old[k][2]
Change(h) == /\ UNCHANGED cell
             /\ DOMAIN val' = InUse
             /\ \A c \in InUse \ {cell[h]} : val'[c] = val[c]
             /\ Edited(val[cell[h]], val'[cell[h]])

(* A variable without a list gets an empty one, changed at once or not.       *)
New(h) == \E c \in Cell \ InUse :
  /\ Place(h, c, val'[c])
  /\ val'[c] = <<>> \/ Edited(<<>>, val'[c])

Next == \/ \E h \in Holder : cell[h] = None /\ New(h)
        \/ \E h \in Holder : cell[h] # None /\ (Leave(h) \/ Derefer(h) \/ Change(h))
        \/ \E h, g \in Holder : /\ cell[h] # None /\ cell[g] = None
                                /\ Snapshot(h, g) \/ Share(h, g) \/ Refer(h, g)

Spec == Init /\ [][Next]_vars
=============================================================================
