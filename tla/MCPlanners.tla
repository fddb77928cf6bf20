--------------------------- MODULE MCPlanners ---------------------------
(* Small instances of Planners for TLC: three processes that do not fit    *)
(* together.                                                               *)
EXTENDS Planners

CONSTANTS p1, p2, p3

Two == {p1, p2}
Three == {p1, p2, p3}

OneFrameEach == [p \in Procs |-> 1]
OneTwoOne == [p \in Procs |-> IF p = p2 THEN 2 ELSE 1]

IoForAll == [p \in Procs |-> {"io"}]
IoAndDump == [p \in Procs |-> IF p = p1 THEN {"io", "dump"} ELSE {"io"}]

Written == {TRUE}

ButP3 == Procs \ {p3}
=============================================================================
