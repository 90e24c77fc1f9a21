------------------------------- MODULE MCLists -------------------------------
(* An instance of Lists: folders before and after a page's end, one in another. *)
EXTENDS Lists

CONSTANTS r, d, e, x, y, z

Holding(inR, inD, inE) == [f \in {r, d, e} |-> CASE f = r -> inR [] f = d -> inD [] f = e -> inE]

MCStart ==
    [k \in AllKinds |->
        IF k = "algorithms" THEN {Holding(<<x, d, y>>, <<e>>, <<>>), Holding(<<x, d, y>>, <<z, e>>, <<>>)}
        ELSE {Holding(<<x, y, z>>, <<>>, <<>>), Holding(<<x, y>>, <<>>, <<>>)}]

MCLimits == {-1, 0, 1}

\* What the walk got is of no interest once an answer was odd, and how often only
\* while the list stays as it is; which rows are steady only while none was odd.
Gains == IF born = steady /\ moves = 0 THEN got ELSE [v \in Items |-> got[v] > 0]
WalkState ==
    <<kind, limit, list, born, moves, odd, folder, page, todo, read, pc, answer, failures,
      IF odd THEN <<>> ELSE <<steady, Gains>>>>
=============================================================================
