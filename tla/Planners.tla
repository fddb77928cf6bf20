----------------------------- MODULE Planners -----------------------------
(***************************************************************************)
(* The long-term planner (PLP), the medium-term planner (PMP), the         *)
(* suspension of blocked processes and their return, over the memory they  *)
(* compete for.                                                            *)
(*                                                                         *)
(* One action is one request to Memory, one look at a queue, or one        *)
(* transition of a process; a transition holds the mutex of the PCB.  The  *)
(* suspension of a process is two steps, because others look for it in     *)
(* the two queues it moves between; so is its return when it never went    *)
(* to SWAP, because the PMP takes it out of QueueSuspReady first.  A       *)
(* notification that follows a transition is one step with it: sent later, *)
(* it finds the channel no fuller and the planner no wiser.                *)
(*                                                                         *)
(* Abstracted: times (a process may be suspended as soon as it is BLOCKED, *)
(* so a timer of an earlier wait that fires late shows nothing new); the   *)
(* short-term planner and the CPUs (a READY process is executed, an        *)
(* executing one goes on as it likes; see ShortTerm); the I/O devices (see *)
(* IoDevices); Memory, which counts frames and answers each request at     *)
(* once, but for putSwap, which releases the frames of a process before it *)
(* records it in SWAP.  A frame that is released twice, which takes a      *)
(* process ended meanwhile or a write that failed, is UserMemory's matter. *)
(***************************************************************************)
EXTENDS Integers, Sequences, SequencesExt, FiniteSets

CONSTANTS
    Procs,         \* the processes
    Initial,       \* the one main creates
    Frames,        \* frames of the user memory
    Need,          \* frames each process needs
    Loadable,      \* the processes whose script Memory finds
    Asks,          \* what each process waits for in its life: "io", "dump"
    Overlap,       \* a process may end while Memory moves it to SWAP
    WriteOutcomes, \* what writing to the swap file may return
    NewAlgorithm   \* KernelConfig.NewAlgorithm

NoProc == "no process"

ASSUME InitialAssumption == Initial \in Procs /\ NoProc \notin Procs
ASSUME NeedAssumption == Frames \in Nat /\ Need \in [Procs -> Nat]
ASSUME ScriptAssumption ==
    Loadable \subseteq Procs /\ Asks \in [Procs -> SUBSET {"io", "dump"}]
ASSUME SwapAssumption == Overlap \in BOOLEAN /\ WriteOutcomes \subseteq BOOLEAN
ASSUME AlgorithmAssumption == NewAlgorithm \in {"FIFO", "PMCP"}

VARIABLES
    estado,         \* EstadoActual of each PCB
    queue,          \* QueueNew, QueueSuspReady, QueueExit
    pool,           \* the queues of the other states, whose order nobody uses
    suspending,     \* processes a timer has taken out of QueueBlocked
    swapRequested,  \* SwapRequested of each PCB
    wait,           \* what each process waits for, and where its return is
    place,          \* where Memory has each process
    notifyMedium,   \* NotifyMediumScheduler holds its token
    pmp,            \* where MediumTermScheduler is
    pmpPid,         \* the process it is working on
    notifyLong,     \* NotifyLongScheduler holds its token
    plp,            \* where longTermScheduler is
    plpPid,         \* the process it is working on
    plpLeft,        \* the rest of the NEW processes it is considering
    plpAdmitted     \* anyAdmitted

stateVars == <<estado, queue, pool>>
pmpVars == <<pmp, pmpPid>>
plpVars == <<plp, plpPid, plpLeft, plpAdmitted>>
vars == <<stateVars, suspending, swapRequested, wait, place, notifyMedium,
          pmpVars, notifyLong, plpVars>>

Ordered == {"NEW", "SUSPREADY", "EXIT"}
Unordered == {"READY", "EXECUTING", "BLOCKED", "SUSPEND_BLOCKED"}
Estados == Ordered \union Unordered

(* "io": its I/O is queued or served; "missed": its end did not find it in *)
(* QueueBlocked; "unflag": it was found in QueueSuspBlocked; "dump": the   *)
(* request is at Memory; "dumped", "dumpFailed": the answer; "abandoned":  *)
(* its device went away and nobody found it.                               *)
Waits == {"none", "io", "missed", "unflag", "dump", "dumped", "dumpFailed",
          "toReady", "toSuspReady", "abandoned"}

(* Where the planners are; at the stages that are idle they work on no     *)
(* process.                                                                *)
PmpIdle == {"wait", "suspReady", "suspBlocked"}
PmpStages == PmpIdle \union
    {"inSwap", "capacity", "swapOut", "back", "failed", "capacityDirect",
     "direct", "takenOut", "swapIn", "moving", "swapped", "swapFailed"}
PlpIdle == {"off", "wait", "exit", "suspReady", "new"}
PlpStages == PlpIdle \union {"clear", "capacity", "load", "admit"}

Init ==
    /\ estado = [p \in Procs |-> IF p = Initial THEN "NEW" ELSE "none"]
    /\ queue = [s \in Ordered |-> IF s = "NEW" THEN <<Initial>> ELSE <<>>]
    /\ pool = [s \in Unordered |-> {}]
    /\ suspending = {}
    /\ swapRequested = [p \in Procs |-> FALSE]
    /\ wait = [p \in Procs |-> "none"]
    /\ place = [p \in Procs |-> "absent"]
    /\ notifyMedium = FALSE /\ pmp = "wait" /\ pmpPid = NoProc
    /\ notifyLong = FALSE /\ plp = "off" /\ plpPid = NoProc
    /\ plpLeft = {} /\ plpAdmitted = FALSE
-----------------------------------------------------------------------------
(* TransitionProcessState, once it has the mutex of the PCB: the process   *)
(* leaves whatever queue has it and enters the one of its new state.       *)
Move_Unlocked(p, s) ==
    /\ estado' = [estado EXCEPT ![p] = s]
    /\ queue' = [t \in Ordered |->
          LET rest == RemoveFirst(queue[t], p) IN
          IF t = s THEN Append(rest, p) ELSE rest]
    /\ pool' = [t \in Unordered |->
          IF t = s THEN pool[t] \union {p} ELSE pool[t] \ {p}]
Move(p, s) ==
    /\ p \notin suspending
    /\ estado' = [estado EXCEPT ![p] = s]
    /\ queue' = [t \in Ordered |->
          LET rest == RemoveFirst(queue[t], p) IN
          IF t = s THEN Append(rest, p) ELSE rest]
    /\ pool' = [t \in Unordered |->
          IF t = s THEN pool[t] \union {p} ELSE pool[t] \ {p}]

(* The channels hold one token each; until the operator starts the PLP its *)
(* notifications are dropped.                                              *)
StartMediumTermScheduler == notifyMedium' = TRUE
StartLongTermScheduler == notifyLong' = (notifyLong \/ plp # "off")

(* The frames taken, one for each page of a process in frames; those of a  *)
(* process that is "copied" are free again, though its table names them.   *)
Taken == UNION {{p} \X (1..Need[p]) : p \in {q \in Procs : place[q] = "frames"}}
Used == Cardinality(Taken)
Fits(p) == Used + Need[p] <= Frames

StartScheduler ==
    /\ plp = "off"
    /\ plp' = "wait"
    /\ notifyLong' = TRUE
    /\ UNCHANGED <<stateVars, suspending, swapRequested, wait, place,
                   notifyMedium, pmpVars, plpPid, plpLeft, plpAdmitted>>

(* INIT_PROC of an executing process; two CPUs may enter two processes in  *)
(* QueueNew in an order that is not the order of their PIDs.               *)
InitProcess(p) ==
    /\ estado[p] = "none"
    /\ pool["EXECUTING"] # {}
    /\ Move(p, "NEW")
    /\ StartLongTermScheduler
    /\ UNCHANGED <<suspending, swapRequested, wait, place, notifyMedium,
                   pmpVars, plpVars>>

(* What the short-term planner and the CPUs do with a process.             *)
Execute(p) ==
    /\ \/ estado[p] = "READY" /\ Move(p, "EXECUTING")
       \/ estado[p] = "EXECUTING" /\ Move(p, "READY")
    /\ UNCHANGED <<suspending, swapRequested, wait, place, notifyMedium,
                   pmpVars, notifyLong, plpVars>>

(* Without Overlap a process is not ended while Memory moves it to SWAP.   *)
MayEnd(p) == Overlap \/ pmp \notin {"swapIn", "moving"} \/ p # pmpPid

Finish_Silent(p) ==
    /\ estado[p] = "EXECUTING" /\ MayEnd(p)
    /\ Move(p, "EXIT")
    /\ UNCHANGED <<suspending, swapRequested, wait, place, notifyMedium,
                   pmpVars, notifyLong, plpVars>>
Finish(p) ==
    /\ estado[p] = "EXECUTING" /\ MayEnd(p)
    /\ Move(p, "EXIT")
    /\ StartLongTermScheduler
    /\ UNCHANGED <<suspending, swapRequested, wait, place, notifyMedium,
                   pmpVars, plpVars>>

(* handleBlockingSyscall: I/O or DUMP_MEMORY.                              *)
Block(p) ==
    /\ estado[p] = "EXECUTING"
    /\ Move(p, "BLOCKED")
    /\ \E w \in Asks[p] : wait' = [wait EXCEPT ![p] = w]
    /\ UNCHANGED <<suspending, swapRequested, place, notifyMedium, pmpVars,
                   notifyLong, plpVars>>

(* The device goes away or its request fails.  A device that goes away has *)
(* its process searched for in all the queues, without the mutex; one that *)
(* is between two of them is given up.                                     *)
Withdraw(p) ==
    /\ wait[p] = "io"
    /\ \/ /\ MayEnd(p) /\ Move(p, "EXIT") /\ StartLongTermScheduler
          /\ wait' = [wait EXCEPT ![p] = "none"]
       \/ /\ p \in suspending /\ UNCHANGED <<stateVars, notifyLong>>
          /\ wait' = [wait EXCEPT ![p] = "abandoned"]
    /\ UNCHANGED <<suspending, swapRequested, place, notifyMedium, pmpVars,
                   plpVars>>
-----------------------------------------------------------------------------
(* The timer of a BLOCKED process fires: suspendProcessLogic holds the     *)
(* mutex from one of these steps to the other.                             *)
SuspendOut(p) ==
    /\ estado[p] = "BLOCKED" /\ p \notin suspending
    /\ suspending' = suspending \union {p}
    /\ estado' = [estado EXCEPT ![p] = "SUSPEND_BLOCKED"]
    /\ pool' = [pool EXCEPT !["BLOCKED"] = @ \ {p}]
    /\ UNCHANGED <<queue, swapRequested, wait, place, notifyMedium, pmpVars,
                   notifyLong, plpVars>>

SuspendIn(p) ==
    /\ p \in suspending
    /\ suspending' = suspending \ {p}
    /\ pool' = [pool EXCEPT !["SUSPEND_BLOCKED"] = @ \union {p}]
    /\ StartMediumTermScheduler
    /\ UNCHANGED <<estado, queue, swapRequested, wait, place, pmpVars,
                   notifyLong, plpVars>>

Returns(p, from, to) ==
    /\ wait[p] = from
    /\ wait' = [wait EXCEPT ![p] = to]

(* UnblockProcessAfterIO: it looks in QueueBlocked, then in                *)
(* QueueSuspBlocked, clears the flag under the mutex, and only then moves  *)
(* the process, wherever it is by that time.  A process found in neither   *)
(* queue is given up.                                                      *)
IoEnds(p) ==
    /\ Returns(p, "io", IF p \in pool["BLOCKED"] THEN "toReady" ELSE "missed")
    /\ UNCHANGED <<stateVars, suspending, swapRequested, place, notifyMedium,
                   pmpVars, notifyLong, plpVars>>

FindSuspended(p) ==
    /\ Returns(p, "missed",
               IF p \in pool["SUSPEND_BLOCKED"] THEN "unflag" ELSE "none")
    /\ UNCHANGED <<stateVars, suspending, swapRequested, place, notifyMedium,
                   pmpVars, notifyLong, plpVars>>

Unflag(p) ==
    /\ p \notin suspending
    /\ Returns(p, "unflag", "toSuspReady")
    /\ swapRequested' = [swapRequested EXCEPT ![p] = FALSE]
    /\ UNCHANGED <<stateVars, suspending, place, notifyMedium, pmpVars,
                   notifyLong, plpVars>>

ToReady(p) ==
    /\ Returns(p, "toReady", "none")
    /\ Move(p, "READY")
    /\ UNCHANGED <<suspending, swapRequested, place, notifyMedium, pmpVars,
                   notifyLong, plpVars>>

ToSuspReady(p) ==
    /\ Returns(p, "toSuspReady", "none")
    /\ Move(p, "SUSPREADY")
    /\ StartMediumTermScheduler
    /\ UNCHANGED <<suspending, swapRequested, place, pmpVars, notifyLong,
                   plpVars>>

(* The goroutine of DUMP_MEMORY.  Memory refuses to dump a process that is *)
(* recorded in SWAP, and may fail to write the file.  The state is read    *)
(* without the mutex.                                                      *)
DumpAnswers(p) ==
    /\ \/ place[p] \in {"frames", "copied"} /\ Returns(p, "dump", "dumped")
       \/ Returns(p, "dump", "dumpFailed")
    /\ UNCHANGED <<stateVars, suspending, swapRequested, place, notifyMedium,
                   pmpVars, notifyLong, plpVars>>

DumpLooks(p) ==
    /\ Returns(p, "dumped", IF estado[p] = "SUSPEND_BLOCKED"
                            THEN "toSuspReady" ELSE "toReady")
    /\ UNCHANGED <<stateVars, suspending, swapRequested, place, notifyMedium,
                   pmpVars, notifyLong, plpVars>>

DumpFails(p) ==
    /\ Returns(p, "dumpFailed", "none") /\ MayEnd(p)
    /\ Move(p, "EXIT")
    /\ StartLongTermScheduler
    /\ UNCHANGED <<suspending, swapRequested, place, notifyMedium, pmpVars,
                   plpVars>>
-----------------------------------------------------------------------------
(* The candidates of an algorithm among the processes of a queue: the      *)
(* first, or any of the smallest (sort.Slice is not stable).               *)
Smallest(S) == {p \in S : \A q \in S : Need[p] <= Need[q]}

PmpGoto(stage) ==
    /\ pmp' = stage
    /\ pmpPid' = IF stage \in PmpIdle THEN NoProc ELSE pmpPid

(* MediumTermScheduler, for one token: one process of QueueSuspReady, then *)
(* one of QueueSuspBlocked.                                                *)
PmpWake ==
    /\ pmp = "wait" /\ notifyMedium
    /\ notifyMedium' = FALSE
    /\ PmpGoto("suspReady")
    /\ UNCHANGED <<stateVars, suspending, swapRequested, wait, place,
                   notifyLong, plpVars>>

(* handleSuspendedReady, up to the Find of desuspendProcess.               *)
PmpChoose ==
    /\ pmp = "suspReady"
    /\ \/ queue["SUSPREADY"] = <<>> /\ PmpGoto("suspBlocked")
       \/ /\ queue["SUSPREADY"] # <<>>
          /\ pmpPid' \in IF NewAlgorithm = "PMCP"
                         THEN Smallest(ToSet(queue["SUSPREADY"]))
                         ELSE {Head(queue["SUSPREADY"])}
          /\ pmp' = "inSwap"
    /\ UNCHANGED <<stateVars, suspending, swapRequested, wait, place,
                   notifyMedium, notifyLong, plpVars>>

IsProcessInSwap_ByFlag ==
    /\ pmp = "inSwap"
    /\ PmpGoto(IF swapRequested[pmpPid] THEN "capacity" ELSE "capacityDirect")
    /\ UNCHANGED <<stateVars, suspending, swapRequested, wait, place,
                   notifyMedium, notifyLong, plpVars>>
IsProcessInSwap ==
    /\ pmp = "inSwap"
    /\ PmpGoto(IF place[pmpPid] = "swap" THEN "capacity" ELSE "capacityDirect")
    /\ UNCHANGED <<stateVars, suspending, swapRequested, wait, place,
                   notifyMedium, notifyLong, plpVars>>

PmpCapacity ==
    /\ \/ pmp = "capacity" /\ Fits(pmpPid) /\ PmpGoto("swapOut")
       \/ pmp = "capacityDirect" /\ Fits(pmpPid) /\ PmpGoto("direct")
       \/ /\ pmp \in {"capacity", "capacityDirect"} /\ ~Fits(pmpPid)
          /\ PmpGoto("suspBlocked")
    /\ UNCHANGED <<stateVars, suspending, swapRequested, wait, place,
                   notifyMedium, notifyLong, plpVars>>

(* RemoveProcessInSwap, which counts the free frames again, and may fail   *)
(* to read the swap file.                                                  *)
RemoveSwap_Trusting ==
    /\ pmp = "swapOut"
    /\ IF place[pmpPid] = "swap"
       THEN place' = [place EXCEPT ![pmpPid] = "frames"] /\ PmpGoto("back")
       ELSE UNCHANGED place /\ PmpGoto("failed")
    /\ UNCHANGED <<stateVars, suspending, swapRequested, wait, notifyMedium,
                   notifyLong, plpVars>>
RemoveSwap ==
    /\ pmp = "swapOut"
    /\ \/ /\ place[pmpPid] = "swap" /\ Fits(pmpPid)
          /\ place' = [place EXCEPT ![pmpPid] = "frames"]
          /\ PmpGoto("back")
       \/ UNCHANGED place /\ PmpGoto("failed")
    /\ UNCHANGED <<stateVars, suspending, swapRequested, wait, notifyMedium,
                   notifyLong, plpVars>>

(* A process that was never put in SWAP is first taken out of its queue,   *)
(* without the mutex: nobody else takes it out of there.                   *)
TakeOut ==
    /\ pmp = "direct"
    /\ queue' = [queue EXCEPT !["SUSPREADY"] = RemoveFirst(@, pmpPid)]
    /\ PmpGoto("takenOut")
    /\ UNCHANGED <<estado, pool, suspending, swapRequested, wait, place,
                   notifyMedium, notifyLong, plpVars>>

(* The process goes back to READY, wherever it comes from.                 *)
Desuspend ==
    /\ pmp \in {"back", "takenOut"}
    /\ swapRequested' = [swapRequested EXCEPT ![pmpPid] = FALSE]
    /\ Move(pmpPid, "READY")
    /\ PmpGoto("suspBlocked")
    /\ UNCHANGED <<suspending, wait, place, notifyMedium, notifyLong, plpVars>>

(* Memory refused to bring the process back: it is ended.                  *)
PmpEnds ==
    /\ pmp = "failed"
    /\ Move(pmpPid, "EXIT")
    /\ StartLongTermScheduler
    /\ PmpGoto("suspBlocked")
    /\ UNCHANGED <<suspending, swapRequested, wait, place, notifyMedium,
                   plpVars>>

(* handleSuspendedBlocked: the first process without a request it comes    *)
(* to.  Processes change their flags while it goes through its copy of the *)
(* queue, so that may be any of them; it may find none although one that   *)
(* is about to leave has just cleared its flag.                            *)
Unmarked == {p \in pool["SUSPEND_BLOCKED"] : ~swapRequested[p]}
MayFindNone == \A p \in Unmarked : wait[p] = "toSuspReady"

PmpMark_Nil ==
    /\ pmp = "suspBlocked"
    /\ \/ /\ MayFindNone
          /\ pmp' = "swapIn" /\ pmpPid' = NoProc
          /\ UNCHANGED swapRequested
       \/ \E p \in Unmarked :
             /\ swapRequested' = [swapRequested EXCEPT ![p] = TRUE]
             /\ pmp' = "swapIn" /\ pmpPid' = p
    /\ UNCHANGED <<stateVars, suspending, wait, place, notifyMedium,
                   notifyLong, plpVars>>
PmpMark ==
    /\ pmp = "suspBlocked"
    /\ \/ /\ MayFindNone
          /\ PmpGoto("wait")
          /\ UNCHANGED swapRequested
       \/ \E p \in Unmarked :
             /\ swapRequested' = [swapRequested EXCEPT ![p] = TRUE]
             /\ pmp' = "swapIn" /\ pmpPid' = p
    /\ UNCHANGED <<stateVars, suspending, wait, place, notifyMedium,
                   notifyLong, plpVars>>

(* PutProcessInSwap.  A process that is in SWAP already is a success, one  *)
(* that Memory no longer has is an error, and so is a swap file that does  *)
(* not open; otherwise its pages are copied and its frames released.       *)
PutSwap ==
    /\ pmp = "swapIn"
    /\ \/ /\ place[pmpPid] \in {"frames", "copied"}
          /\ place' = [place EXCEPT ![pmpPid] = "copied"]
          /\ PmpGoto("moving")
       \/ /\ UNCHANGED place
          /\ PmpGoto(IF place[pmpPid] = "swap" THEN "swapped" ELSE "swapFailed")
    /\ UNCHANGED <<stateVars, suspending, swapRequested, wait, notifyMedium,
                   notifyLong, plpVars>>

(* The pages are written and the process recorded in SWAP, whatever        *)
(* happened to it since it was looked up.                                  *)
RecordSwap ==
    /\ pmp = "moving"
    /\ \E written \in WriteOutcomes :
          IF written
          THEN place' = [place EXCEPT ![pmpPid] = "swap"] /\ PmpGoto("swapped")
          ELSE UNCHANGED place /\ PmpGoto("swapFailed")
    /\ UNCHANGED <<stateVars, suspending, swapRequested, wait, notifyMedium,
                   notifyLong, plpVars>>

EndSwap ==
    /\ \/ /\ pmp = "swapped"
          /\ StartLongTermScheduler
          /\ UNCHANGED swapRequested
       \/ /\ pmp = "swapFailed" /\ pmpPid \notin suspending
          /\ swapRequested' = [swapRequested EXCEPT ![pmpPid] = FALSE]
          /\ UNCHANGED notifyLong
    /\ PmpGoto("wait")
    /\ UNCHANGED <<stateVars, suspending, wait, place, notifyMedium, plpVars>>
-----------------------------------------------------------------------------
PlpGoto(stage) ==
    /\ plp' = stage
    /\ IF stage \in PlpIdle
       THEN plpPid' = NoProc /\ plpLeft' = {} /\ plpAdmitted' = FALSE
       ELSE UNCHANGED <<plpPid, plpLeft, plpAdmitted>>

PlpWake ==
    /\ plp = "wait" /\ notifyLong
    /\ notifyLong' = FALSE
    /\ PlpGoto("exit")
    /\ UNCHANGED <<stateVars, suspending, swapRequested, wait, place,
                   notifyMedium, pmpVars>>

(* First the processes that ended, one at a time: FinishProcess.           *)
PlpExit ==
    /\ plp = "exit"
    /\ IF queue["EXIT"] = <<>>
       THEN PlpGoto("suspReady") /\ UNCHANGED queue
       ELSE /\ plp' = "clear" /\ plpPid' = Head(queue["EXIT"])
            /\ queue' = [queue EXCEPT !["EXIT"] = Tail(@)]
            /\ UNCHANGED <<plpLeft, plpAdmitted>>
    /\ UNCHANGED <<estado, pool, suspending, swapRequested, wait, place,
                   notifyMedium, pmpVars, notifyLong>>

ClearMemory_FramesOnly ==
    /\ plp = "clear"
    /\ place' = [place EXCEPT ![plpPid] = IF @ = "swap" THEN "swap" ELSE "absent"]
    /\ PlpGoto("exit")
    /\ UNCHANGED <<stateVars, suspending, swapRequested, wait, notifyMedium,
                   pmpVars, notifyLong>>
ClearMemory ==
    /\ plp = "clear"
    /\ place' = [place EXCEPT ![plpPid] = "absent"]
    /\ PlpGoto("exit")
    /\ UNCHANGED <<stateVars, suspending, swapRequested, wait, notifyMedium,
                   pmpVars, notifyLong>>

(* Then the PMP is called if a process waits in SUSPREADY.                 *)
PlpYield ==
    /\ plp = "suspReady"
    /\ IF queue["SUSPREADY"] = <<>>
       THEN PlpGoto("new") /\ UNCHANGED notifyMedium
       ELSE PlpGoto("wait") /\ StartMediumTermScheduler
    /\ UNCHANGED <<stateVars, suspending, swapRequested, wait, place, pmpVars,
                   notifyLong>>

(* Only then the NEW ones.  FIFO considers the first, PMCP all of them.    *)
PlpNew ==
    /\ plp = "new"
    /\ IF queue["NEW"] = <<>>
       THEN PlpGoto("wait")
       ELSE /\ plp' = "capacity" /\ plpAdmitted' = FALSE
            /\ \E p \in IF NewAlgorithm = "PMCP" THEN Smallest(ToSet(queue["NEW"]))
                                                 ELSE {Head(queue["NEW"])} :
                  /\ plpPid' = p
                  /\ plpLeft' = IF NewAlgorithm = "PMCP"
                                THEN ToSet(queue["NEW"]) \ {p} ELSE {}
    /\ UNCHANGED <<stateVars, suspending, swapRequested, wait, place,
                   notifyMedium, pmpVars, notifyLong>>

(* On to the next NEW process, or round again if any was admitted.         *)
PlpNext(admitted) ==
    IF plpLeft = {}
    THEN PlpGoto(IF admitted THEN "exit" ELSE "wait")
    ELSE /\ plp' = "capacity" /\ plpAdmitted' = admitted
         /\ plpPid' \in Smallest(plpLeft)
         /\ plpLeft' = plpLeft \ {plpPid'}

PlpCapacity ==
    /\ plp = "capacity"
    /\ IF Fits(plpPid) THEN PlpGoto("load") ELSE PlpNext(plpAdmitted)
    /\ UNCHANGED <<stateVars, suspending, swapRequested, wait, place,
                   notifyMedium, pmpVars, notifyLong>>

(* cargarpcb: Memory counts the free frames again.                         *)
ReserveMemory_Trusting ==
    /\ plp = "load"
    /\ IF plpPid \in Loadable
       THEN place' = [place EXCEPT ![plpPid] = "frames"] /\ PlpGoto("admit")
       ELSE UNCHANGED place /\ PlpNext(plpAdmitted)
    /\ UNCHANGED <<stateVars, suspending, swapRequested, wait, notifyMedium,
                   pmpVars, notifyLong>>
ReserveMemory ==
    /\ plp = "load"
    /\ IF plpPid \in Loadable /\ Fits(plpPid)
       THEN place' = [place EXCEPT ![plpPid] = "frames"] /\ PlpGoto("admit")
       ELSE UNCHANGED place /\ PlpNext(plpAdmitted)
    /\ UNCHANGED <<stateVars, suspending, swapRequested, wait, notifyMedium,
                   pmpVars, notifyLong>>

Admit ==
    /\ plp = "admit"
    /\ Move(plpPid, "READY")
    /\ PlpNext(TRUE)
    /\ UNCHANGED <<suspending, swapRequested, wait, place, notifyMedium,
                   pmpVars, notifyLong>>
-----------------------------------------------------------------------------
Pmp ==
    \/ PmpWake \/ PmpChoose \/ IsProcessInSwap \/ PmpCapacity \/ RemoveSwap
    \/ TakeOut \/ Desuspend \/ PmpEnds \/ PmpMark \/ PutSwap \/ RecordSwap
    \/ EndSwap

Plp ==
    \/ PlpWake \/ PlpExit \/ ClearMemory \/ PlpYield \/ PlpNew \/ PlpCapacity
    \/ ReserveMemory \/ Admit

Return(p) ==
    \/ FindSuspended(p) \/ Unflag(p) \/ ToReady(p) \/ ToSuspReady(p)
    \/ DumpAnswers(p) \/ DumpLooks(p) \/ DumpFails(p)

Next ==
    \/ StartScheduler \/ Pmp \/ Plp
    \/ \E p \in Procs :
          \/ InitProcess(p) \/ Execute(p) \/ Finish(p) \/ Block(p)
          \/ Withdraw(p) \/ SuspendOut(p) \/ SuspendIn(p)
          \/ IoEnds(p) \/ Return(p)

Spec == Init /\ [][Next]_vars

(* The planners and the goroutines run, and Memory answers.  Nothing       *)
(* obliges the operator to start the PLP, a process to ask or to end, an   *)
(* I/O to end or a timer to expire before it.                              *)
FairSpec ==
    /\ Spec
    /\ WF_vars(Pmp) /\ WF_vars(Plp)
    /\ \A p \in Procs : WF_vars(Return(p)) /\ WF_vars(SuspendIn(p))
-----------------------------------------------------------------------------
TypeOK ==
    /\ estado \in [Procs -> Estados \union {"none"}]
    /\ queue \in [Ordered -> Seq(Procs)]
    /\ pool \in [Unordered -> SUBSET Procs]
    /\ suspending \subseteq Procs
    /\ swapRequested \in [Procs -> BOOLEAN]
    /\ wait \in [Procs -> Waits]
    /\ place \in [Procs -> {"absent", "frames", "copied", "swap"}]
    /\ notifyMedium \in BOOLEAN /\ notifyLong \in BOOLEAN
    /\ pmp \in PmpStages /\ plp \in PlpStages
    /\ IF pmp \in PmpIdle THEN pmpPid = NoProc ELSE pmpPid \in Procs
    /\ IF plp \in PlpIdle THEN plpPid = NoProc ELSE plpPid \in Procs
    /\ plpLeft \subseteq Procs /\ plpAdmitted \in BOOLEAN

InQueue(p, s) ==
    IF s \in Ordered THEN Contains(queue[s], p) ELSE p \in pool[s]

(* A process is in one queue, once, the one of its state, however its      *)
(* suspension, its return, the planners and its end interleave; only a     *)
(* process that is being suspended, one the PMP has taken out of           *)
(* QueueSuspReady and one taken by FinishProcess are in none.              *)
OnePlace ==
    /\ \A s \in Ordered : IsInjective(queue[s])
    /\ \A p \in Procs, s \in Estados :
          InQueue(p, s) => estado[p] = s /\ p \notin suspending
    /\ \A p \in Procs :
        /\ estado[p] \notin {"none", "EXIT"} /\ p \notin suspending
        /\ ~(pmp = "takenOut" /\ p = pmpPid)
        => InQueue(p, estado[p])

(* Memory is never promised twice: the PLP admits and the PMP brings back  *)
(* processes after asking for room at different moments, and the frames in *)
(* use never exceed those there are, provided that no frame is released    *)
(* twice: no process ends while Memory moves it to SWAP, and the swap file *)
(* takes what is written.                                                  *)
FramesSuffice == Used <= Frames

(* A process that ended leaves nothing behind, neither frames nor SWAP,    *)
(* provided that it did not end while Memory was moving it to SWAP: once   *)
(* FinishProcess is done with it Memory does not have it.  Of a process    *)
(* that ends then it may be recorded in SWAP after it was cleared.         *)
EndedHoldsNoMemory ==
    \A p \in Procs :
        /\ estado[p] = "EXIT" /\ ~InQueue(p, "EXIT")
        /\ ~(plp = "clear" /\ plpPid = p)
        => place[p] = "absent"

(* NotifyLongScheduler drops what does not fit, yet no ended process stays *)
(* in QueueExit with nobody about to finish it.                            *)
ExitIsServed ==
    queue["EXIT"] # <<>> => notifyLong \/ plp \notin {"off", "wait"}

(* A process that returns from a suspension is in frames when it becomes   *)
(* READY, whether the PMP had it moved to SWAP, did not get to it, or was  *)
(* refused; provided that the swap file takes what is written, for when it *)
(* does not the frames are gone and nobody is told.                        *)
BackInMemory ==
    [][\A p \in Procs :
          estado[p] = "SUSPREADY" /\ estado'[p] = "READY"
          => place[p] = "frames"]_vars

(* When Memory is asked to bring a process back there is still the room    *)
(* that the PMP was told of; when there is not, the process is ended.      *)
RoomIsStillThere == pmp = "swapOut" => Fits(pmpPid)

(* A process that runs has its memory in frames; not one that was found    *)
(* BLOCKED and then suspended (see PlannersInSwap.cfg).                    *)
ReadyHasFrames ==
    \A p \in Procs :
        estado[p] \in {"READY", "EXECUTING"} => place[p] = "frames"

(* When the planners have nothing more to do, the first process of each    *)
(* queue is there because it does not fit.                                 *)
AtRest == plp = "wait" /\ ~notifyLong /\ pmp = "wait" /\ ~notifyMedium
FirstDoesNotFit(s) == queue[s] # <<>> => ~Fits(Head(queue[s]))
SuspReadyWaitsForRoom == AtRest => FirstDoesNotFit("SUSPREADY")
NewWaitsForRoom ==
    AtRest /\ queue["SUSPREADY"] = <<>> => FirstDoesNotFit("NEW")

(* No process stays blocked once its I/O is over.                          *)
BlockedHasAnEnd ==
    \A p \in Procs :
        estado[p] \in {"BLOCKED", "SUSPEND_BLOCKED"} => wait[p] # "none"

(* A process that ends is finished some day: Memory forgets it.            *)
EndedIsFinished ==
    \A p \in Procs : estado[p] = "EXIT" ~> place[p] = "absent"
=============================================================================
