---------------------------- MODULE DevicePool ----------------------------
(***************************************************************************)
(* What the Kernel's I/O promises while its devices stay: a process that   *)
(* asks is given a device nobody else uses, finishes with it, and only     *)
(* then goes on.  It promises no process that asks that it will get one,   *)
(* and a process that finishes while it is being suspended may be forgotten.*)
(***************************************************************************)
CONSTANTS Procs, Devices, NoDevice

VARIABLES
    user,        \* away, asking, using, finished, forgotten or ended
    uses,        \* the device it uses
    suspending,  \* the processes being suspended
    online       \* the devices that have joined

vars == <<user, uses, suspending, online>>

Init ==
    /\ user = [p \in Procs |-> "away"]
    /\ uses = [p \in Procs |-> NoDevice]
    /\ suspending = {} /\ online = {}

Join(d) ==
    /\ d \in Devices \ online
    /\ online' = online \union {d}
    /\ UNCHANGED <<user, uses, suspending>>

Become(p, from, to) ==
    /\ user[p] \in from
    /\ user' = [user EXCEPT ![p] = to]
    /\ UNCHANGED <<suspending, online>>

Ask(p) == Become(p, {"away"}, "asking") /\ UNCHANGED uses

Refuse(p) == Become(p, {"away", "asking"}, "ended") /\ UNCHANGED uses

Grant(p, d) ==
    /\ Become(p, {"asking"}, "using")
    /\ d \in online /\ \A q \in Procs : uses[q] # d
    /\ uses' = [uses EXCEPT ![p] = d]

Release(p) ==
    /\ Become(p, {"using"}, "finished")
    /\ uses' = [uses EXCEPT ![p] = NoDevice]

Resume(p) ==
    /\ p \notin suspending
    /\ Become(p, {"finished"}, "away")
    /\ UNCHANGED uses

Forget(p) ==
    /\ p \in suspending
    /\ Become(p, {"finished"}, "forgotten")
    /\ UNCHANGED uses

Suspend(p) ==
    /\ user[p] \notin {"away", "ended"}
    /\ suspending' = suspending \union {p}
    /\ UNCHANGED <<user, uses, online>>

Suspended(p) ==
    /\ p \in suspending
    /\ suspending' = suspending \ {p}
    /\ UNCHANGED <<user, uses, online>>

Next ==
    \/ \E d \in Devices : Join(d)
    \/ \E p \in Procs : \/ Ask(p) \/ Refuse(p) \/ Release(p) \/ Resume(p)
                        \/ Forget(p) \/ Suspend(p) \/ Suspended(p)
    \/ \E p \in Procs, d \in Devices : Grant(p, d)

SafeSpec == Init /\ [][Next]_vars

(* A use comes to its end, and its user goes on; a suspension ends.        *)
FairSpec ==
    /\ SafeSpec
    /\ \A p \in Procs : WF_vars(Release(p) \/ Resume(p)) /\ WF_vars(Suspended(p))
=============================================================================
