-------------------------------- MODULE Map --------------------------------
(* What a hash table promises: one value for each key it has.                *)
EXTENDS Functions
CONSTANTS Key, Val
VARIABLE map

Init == map = <<>>
Put(f, k, v) == [d \in DOMAIN f \cup {k} |-> IF d = k THEN v ELSE f[d]]
Insert(k, v) == map' = Put(map, k, v)
Unset(k) == map' = Restrict(map, DOMAIN map \ {k})
(* The other table's values replace this one's.                               *)
Merge(new) == map' = [k \in DOMAIN map \cup DOMAIN new |->
                        IF k \in DOMAIN new THEN new[k] ELSE map[k]]
Clear == map' = <<>>

Next == \/ \E k \in Key, v \in Val : Insert(k, v)
        \/ \E k \in Key : Unset(k)
        \/ \E D \in SUBSET Key : \E new \in [D -> Val] : Merge(new)
        \/ Clear
Spec == Init /\ [][Next]_map
=============================================================================
