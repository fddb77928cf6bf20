-------------------------- MODULE MCUserMemory --------------------------
(* A small instance of UserMemory for TLC: two processes that do not fit   *)
(* together.                                                               *)
EXTENDS UserMemory

CONSTANTS p1, p2

Two == {p1, p2}
TwoFrames == 0..1
OneAndTwo == [p \in Procs |-> IF p = p2 THEN 2 ELSE 1]

Nobody == {}
OnlyP1 == {p1}
Always == {TRUE}
=============================================================================
