------------------------------- MODULE Texts -------------------------------
(* What jbl_string promises: a variable holds a text of its own, whatever   *)
(* objects, literals and cached strings it shares with others underneath.   *)
EXTENDS Integers, SequencesExt
CONSTANTS Var, Literal, Change(_)
VARIABLE text          \* [Var -> a sequence of characters, or NONE]

NONE == <<0>>    \* no text: characters are above 0
OrEmpty(t) == IF t = NONE THEN <<>> ELSE t
Sub(t, a, b) == SubSeq(t, 1, a) \o SubSeq(t, b + 1, Len(t))

Init == text = [v \in Var |-> NONE]
Becomes(v, t) == text' = [text EXCEPT ![v] = t]
New(v)         == text[v] = NONE /\ Becomes(v, <<>>)
Add(v, t)   == t # NONE /\ Becomes(v, OrEmpty(text[v]) \o t)
Take(v, t)     == text[v] = NONE /\ Becomes(v, t)
Changed(v)     == Becomes(v, Change(OrEmpty(text[v])))
Delete(v, a, b) == Becomes(v, Sub(OrEmpty(text[v]), a, b))

Next == \E v \in Var :
          \/ New(v)
          \/ \E t \in Literal : Add(v, t) \/ Take(v, t)
          \/ \E w \in Var : Add(v, text[w]) \/ Take(v, text[w])
          \/ Becomes(v, NONE)
          \/ text[v] # NONE /\ Becomes(v, <<>>)
          \/ Changed(v)
          \/ LET n == Len(OrEmpty(text[v]))      \* every b above n does the same
             IN  \E a \in 0 .. n, b \in 0 .. n + 1 : a < b /\ Delete(v, a, b)

Spec == Init /\ [][Next]_text
=============================================================================
