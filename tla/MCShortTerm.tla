--------------------------- MODULE MCShortTerm ---------------------------
(* Small instances of ShortTerm for TLC: three processes whose scripts     *)
(* compute, jump, ask for I/O and exit, on two CPUs.                       *)
EXTENDS ShortTerm

CONSTANTS c1, c2

(* CPUs are interchangeable; PIDs are not, PID 0 doubles as "no process".  *)
CpuSymmetry == Permutations(Cpus)

Step(n) == [kind |-> "STEP", next |-> n]
Syscall(n) == [kind |-> "SYSCALL", next |-> n]
Exit(n) == [kind |-> "EXIT", next |-> n]

Three == 0..2
Two == 0..1

(* PID 0 asks for I/O for ever; PID 1 exits at once; PID 2 computes and    *)
(* falls off the end of a script without EXIT.                             *)
MixedScripts ==
    0 :> <<Syscall(0), Exit(1)>> @@ 1 :> <<Exit(0)>> @@ 2 :> <<Step(1)>>

ShortScripts == 0 :> <<Syscall(1), Exit(1)>> @@ 1 :> <<Step(1), Exit(1)>>

IoLastScripts == 0 :> <<Syscall(1)>> @@ 1 :> <<Exit(0)>>
=============================================================================
