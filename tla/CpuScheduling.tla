-------------------------- MODULE CpuScheduling --------------------------
(***************************************************************************)
(* What the short-term scheduler promises, without queues, channels,       *)
(* goroutines or messages: a ready process is given an idle CPU, keeps it  *)
(* for one burst, and what it does next is decided once it has left the    *)
(* CPU.  ShortTerm is shown to implement this specification.               *)
(***************************************************************************)
CONSTANTS Procs, Cpus, NoCpu

VARIABLES
    state,   \* new, ready, running, leaving, blocked or done
    runsOn,  \* the CPU a running process has
    online   \* the CPUs that have joined

vars == <<state, runsOn, online>>

Init ==
    /\ state = [p \in Procs |-> "new"]
    /\ runsOn = [p \in Procs |-> NoCpu]
    /\ online \subseteq Cpus

Idle(c) == c \in online /\ \A p \in Procs : runsOn[p] # c

Become(p, from, to) ==
    /\ state[p] \in from
    /\ state' = [state EXCEPT ![p] = to]

Join(c) ==
    /\ c \in Cpus \ online
    /\ online' = online \union {c}
    /\ UNCHANGED <<state, runsOn>>

MakeReady(p) ==
    Become(p, {"new", "blocked", "leaving"}, "ready") /\ UNCHANGED <<runsOn, online>>

Start(p, c) ==
    /\ Become(p, {"ready"}, "running")
    /\ Idle(c)
    /\ runsOn' = [runsOn EXCEPT ![p] = c]
    /\ UNCHANGED online

Leave(p) ==
    /\ Become(p, {"running"}, "leaving")
    /\ runsOn' = [runsOn EXCEPT ![p] = NoCpu]
    /\ UNCHANGED online

Block(p) == Become(p, {"leaving"}, "blocked") /\ UNCHANGED <<runsOn, online>>

Finish(p) ==
    Become(p, {"leaving", "blocked"}, "done") /\ UNCHANGED <<runsOn, online>>

StartSome == \E p \in Procs, c \in Cpus : Start(p, c)

Settle(p) == state[p] = "leaving" /\ (MakeReady(p) \/ Block(p) \/ Finish(p))

Next ==
    \/ \E c \in Cpus : Join(c)
    \/ StartSome
    \/ \E p \in Procs : MakeReady(p) \/ Leave(p) \/ Block(p) \/ Finish(p)

SafeSpec == Init /\ [][Next]_vars

(* A ready process and an idle CPU are brought together, a burst ends, and *)
(* its end is settled.                                                     *)
FairSpec ==
    /\ SafeSpec
    /\ WF_vars(StartSome)
    /\ \A p \in Procs : WF_vars(Leave(p)) /\ WF_vars(Settle(p))
=============================================================================
