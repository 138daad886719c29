------------------------------ MODULE MCApiHub ------------------------------
(* Small instances of ApiHub.                                              *)
EXTENDS ApiHub, TLC

CONSTANTS k1, k2, p1, p2, c1, c2, c3

OneCaller  == {k1}
TwoCallers == {k1, k2}
OnePage    == {p1}
TwoPages   == {p1, p2}
OneConn    == {c1}
TwoConns   == {c1, c2}
ThreeConns == {c1, c2, c3}
\* One page that reconnects; a page that reconnects beside one that does not.
Reconnects == [c \in Conns |-> p1]
Shares     == [c \in Conns |-> IF c = c2 THEN p2 ELSE p1]
Symmetric  == Permutations(Callers)
=============================================================================
