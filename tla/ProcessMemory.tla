-------------------------- MODULE ProcessMemory --------------------------
(***************************************************************************)
(* What the Kernel counts on when it asks Memory for something: a process  *)
(* is wholly in frames, wholly in SWAP or nowhere, it changes from one to  *)
(* another at once, and the processes in frames fit.  Planners uses Memory *)
(* in this way; UserMemory shows how far the handlers keep the promise.    *)
(***************************************************************************)
EXTENDS Naturals, FiniteSets

CONSTANTS
    Procs,
    Need,      \* the frames each process needs
    Capacity   \* the number of frames there are

VARIABLE place

Places == {"absent", "frames", "swap"}

(* The frames taken, one for each page of a process in frames.             *)
Taken == UNION {{p} \X (1..Need[p]) : p \in {q \in Procs : place[q] = "frames"}}
Used == Cardinality(Taken)
Fits(p) == Used + Need[p] <= Capacity

Init == place = [p \in Procs |-> "absent"]

Goes(p, from, to) == place[p] = from /\ place' = [place EXCEPT ![p] = to]

Reserve(p) == Goes(p, "absent", "frames") /\ Fits(p)
PutInSwap(p) == Goes(p, "frames", "swap")
RemoveFromSwap(p) == Goes(p, "swap", "frames") /\ Fits(p)
Clear(p) == place[p] # "absent" /\ Goes(p, place[p], "absent")

Next == \E p \in Procs :
    Reserve(p) \/ PutInSwap(p) \/ RemoveFromSwap(p) \/ Clear(p)

Spec == Init /\ [][Next]_place
=============================================================================
