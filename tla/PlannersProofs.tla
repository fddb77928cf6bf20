-------------------------- MODULE PlannersProofs --------------------------
(***************************************************************************)
(* Theorems about Planners, for every set of processes, every memory, both *)
(* algorithms of admission, and whatever the processes ask for.            *)
(***************************************************************************)
EXTENDS Planners, QueueLemmas, TLAPS

-----------------------------------------------------------------------------
(* What a transition leaves in the table of states and in the queues.      *)
LEMMA MoveTypes ==
    ASSUME TypeOK, NEW p \in Procs, NEW s \in Estados, Move(p, s)
    PROVE  /\ estado' \in [Procs -> Estados \union {"none"}]
           /\ queue' \in [Ordered -> Seq(Procs)]
           /\ pool' \in [Unordered -> SUBSET Procs]
<1>1. estado' \in [Procs -> Estados \union {"none"}]
    BY DEF TypeOK, Move
<1>2. ASSUME NEW t \in Ordered PROVE queue'[t] \in Seq(Procs)
    <2>1. RemoveFirst(queue[t], p) \in Seq(Procs)
        BY RemoveFirstType DEF TypeOK
    <2>2. queue'[t] = IF t = s THEN Append(RemoveFirst(queue[t], p), p)
                      ELSE RemoveFirst(queue[t], p)
        BY DEF Move
    <2> QED BY <2>1, <2>2
<1>3. DOMAIN queue' = Ordered /\ queue' = [t \in Ordered |-> queue'[t]]
    BY DEF Move
<1>4. pool' \in [Unordered -> SUBSET Procs]
    BY DEF TypeOK, Move
<1> QED BY <1>1, <1>2, <1>3, <1>4

LEMMA PmpGotoTypes ==
    ASSUME TypeOK, NEW stage \in PmpStages,
           stage \in PmpIdle \/ pmp \notin PmpIdle, PmpGoto(stage)
    PROVE  /\ pmp' \in PmpStages
           /\ IF pmp' \in PmpIdle THEN pmpPid' = NoProc ELSE pmpPid' \in Procs
BY DEF TypeOK, PmpGoto

LEMMA PlpGotoTypes ==
    ASSUME TypeOK, NEW stage \in PlpStages,
           stage \in PlpIdle \/ plp \notin PlpIdle, PlpGoto(stage)
    PROVE  /\ plp' \in PlpStages
           /\ IF plp' \in PlpIdle THEN plpPid' = NoProc ELSE plpPid' \in Procs
           /\ plpLeft' \subseteq Procs /\ plpAdmitted' \in BOOLEAN
BY DEF TypeOK, PlpGoto

LEMMA PlpNextTypes ==
    ASSUME TypeOK, NEW admitted \in BOOLEAN, PlpNext(admitted)
    PROVE  /\ plp' \in PlpStages
           /\ IF plp' \in PlpIdle THEN plpPid' = NoProc ELSE plpPid' \in Procs
           /\ plpLeft' \subseteq Procs /\ plpAdmitted' \in BOOLEAN
<1>1. CASE plpLeft = {}
    BY <1>1, PlpGotoTypes DEF PlpNext, PlpStages, PlpIdle
<1>2. CASE plpLeft # {}
    BY <1>2 DEF PlpNext, TypeOK, PlpStages, PlpIdle, Smallest
<1> QED BY <1>1, <1>2

LEMMA ElementsOfQueue ==
    ASSUME TypeOK, NEW s \in Ordered, queue[s] # <<>>
    PROVE  /\ Head(queue[s]) \in Procs /\ Tail(queue[s]) \in Seq(Procs)
           /\ ToSet(queue[s]) \subseteq Procs
BY DEF TypeOK, ToSet

(* Every variable keeps its type.                                          *)
LEMMA TypeStep == TypeOK /\ [Next]_vars => TypeOK'
<1> SUFFICES ASSUME TypeOK, [Next]_vars PROVE TypeOK'
    OBVIOUS
<1> USE DEF stateVars, pmpVars, plpVars, StartLongTermScheduler,
            StartMediumTermScheduler
<1>0. CASE UNCHANGED vars
    BY <1>0 DEF TypeOK, vars
<1>1. CASE StartScheduler
    BY <1>1 DEF StartScheduler, TypeOK, PlpStages, PlpIdle
<1>2. ASSUME NEW p \in Procs, InitProcess(p) PROVE TypeOK'
    BY <1>2, MoveTypes DEF InitProcess, TypeOK, Estados, Ordered
<1>3. ASSUME NEW p \in Procs, Execute(p) PROVE TypeOK'
    BY <1>3, MoveTypes DEF Execute, TypeOK, Estados, Unordered
<1>4. ASSUME NEW p \in Procs, Finish(p) PROVE TypeOK'
    BY <1>4, MoveTypes DEF Finish, TypeOK, Estados, Ordered
<1>5. ASSUME NEW p \in Procs, Block(p) PROVE TypeOK'
    <2>1. wait' \in [Procs -> Waits]
        <3>1. PICK w \in Asks[p] : wait' = [wait EXCEPT ![p] = w]
            BY <1>5 DEF Block
        <3>2. Asks[p] \in SUBSET {"io", "dump"}
            BY ScriptAssumption
        <3>3. w \in Waits
            BY <3>2 DEF Waits
        <3> QED BY <3>1, <3>3 DEF TypeOK
    <2> QED BY <1>5, <2>1, MoveTypes DEF Block, TypeOK, Estados, Unordered
<1>6. ASSUME NEW p \in Procs, Withdraw(p) PROVE TypeOK'
    <2>1. wait' \in [Procs -> Waits]
        BY <1>6 DEF Withdraw, TypeOK, Waits
    <2>2. CASE UNCHANGED <<stateVars, notifyLong>>
        BY <1>6, <2>1, <2>2 DEF Withdraw, TypeOK
    <2>3. CASE Move(p, "EXIT") /\ StartLongTermScheduler
        BY <1>6, <2>1, <2>3, MoveTypes DEF Withdraw, TypeOK, Estados, Ordered
    <2> QED BY <1>6, <2>2, <2>3 DEF Withdraw
<1>7. ASSUME NEW p \in Procs, SuspendOut(p) PROVE TypeOK'
    BY <1>7 DEF SuspendOut, TypeOK, Estados, Ordered, Unordered
<1>8. ASSUME NEW p \in Procs, SuspendIn(p) PROVE TypeOK'
    BY <1>8 DEF SuspendIn, TypeOK, Unordered
<1>9. ASSUME NEW p \in Procs, IoEnds(p) PROVE TypeOK'
    BY <1>9 DEF IoEnds, Returns, TypeOK, Waits
<1>10. ASSUME NEW p \in Procs, FindSuspended(p) PROVE TypeOK'
    BY <1>10 DEF FindSuspended, Returns, TypeOK, Waits
<1>11. ASSUME NEW p \in Procs, Unflag(p) PROVE TypeOK'
    BY <1>11 DEF Unflag, Returns, TypeOK, Waits
<1>12. ASSUME NEW p \in Procs, ToReady(p) PROVE TypeOK'
    <2>1. wait' \in [Procs -> Waits]
        BY <1>12 DEF ToReady, Returns, TypeOK, Waits
    <2> QED BY <1>12, <2>1, MoveTypes DEF ToReady, TypeOK, Estados, Unordered
<1>13. ASSUME NEW p \in Procs, ToSuspReady(p) PROVE TypeOK'
    <2>1. wait' \in [Procs -> Waits]
        BY <1>13 DEF ToSuspReady, Returns, TypeOK, Waits
    <2> QED BY <1>13, <2>1, MoveTypes DEF ToSuspReady, TypeOK, Estados, Ordered
<1>14. ASSUME NEW p \in Procs, DumpAnswers(p) PROVE TypeOK'
    BY <1>14 DEF DumpAnswers, Returns, TypeOK, Waits
<1>15. ASSUME NEW p \in Procs, DumpLooks(p) PROVE TypeOK'
    BY <1>15 DEF DumpLooks, Returns, TypeOK, Waits
<1>16. ASSUME NEW p \in Procs, DumpFails(p) PROVE TypeOK'
    <2>1. wait' \in [Procs -> Waits]
        BY <1>16 DEF DumpFails, Returns, TypeOK, Waits
    <2> QED BY <1>16, <2>1, MoveTypes DEF DumpFails, TypeOK, Estados, Ordered
<1>17. CASE PmpWake
    BY <1>17 DEF PmpWake, PmpGoto, TypeOK, PmpStages, PmpIdle
<1>18. CASE PmpChoose
    <2>1. CASE queue["SUSPREADY"] = <<>>
        BY <1>18, <2>1 DEF PmpChoose, PmpGoto, TypeOK, PmpStages, PmpIdle
    <2>2. CASE queue["SUSPREADY"] # <<>>
        <3>1. pmpPid' \in Procs
            BY <1>18, <2>2, ElementsOfQueue DEF PmpChoose, Smallest, Ordered
        <3> QED BY <1>18, <2>2, <3>1
            DEF PmpChoose, TypeOK, PmpStages, PmpIdle
    <2> QED BY <2>1, <2>2
<1>19. CASE IsProcessInSwap
    BY <1>19, PmpGotoTypes DEF IsProcessInSwap, TypeOK, PmpStages, PmpIdle
<1>20. CASE PmpCapacity
    BY <1>20, PmpGotoTypes DEF PmpCapacity, TypeOK, PmpStages, PmpIdle
<1>21. CASE RemoveSwap
    BY <1>21, PmpGotoTypes DEF RemoveSwap, TypeOK, PmpStages, PmpIdle
<1>21a. CASE TakeOut
    <2>1. queue' \in [Ordered -> Seq(Procs)]
        BY <1>21a, RemoveFirstType DEF TakeOut, TypeOK, Ordered
    <2> QED BY <1>21a, <2>1, PmpGotoTypes
        DEF TakeOut, TypeOK, PmpStages, PmpIdle
<1>22. CASE Desuspend
    <2>1. pmpPid \in Procs
        BY <1>22 DEF Desuspend, TypeOK, PmpIdle
    <2>2. swapRequested' \in [Procs -> BOOLEAN]
        BY <1>22 DEF Desuspend, TypeOK
    <2> QED BY <1>22, <2>1, <2>2, MoveTypes, PmpGotoTypes
        DEF Desuspend, TypeOK, Estados, Unordered, PmpStages, PmpIdle
<1>23. CASE PmpEnds
    <2>1. pmpPid \in Procs
        BY <1>23 DEF PmpEnds, TypeOK, PmpIdle
    <2> QED BY <1>23, <2>1, MoveTypes, PmpGotoTypes
        DEF PmpEnds, TypeOK, Estados, Ordered, PmpStages, PmpIdle
<1>24. CASE PmpMark
    <2>1. CASE pmp' = "wait" /\ PmpGoto("wait") /\ UNCHANGED swapRequested
        BY <1>24, <2>1 DEF PmpMark, PmpGoto, TypeOK, PmpStages, PmpIdle
    <2>2. ASSUME NEW p \in Unmarked,
                 swapRequested' = [swapRequested EXCEPT ![p] = TRUE],
                 pmp' = "swapIn", pmpPid' = p
          PROVE  TypeOK'
        <3>1. p \in Procs
            BY DEF Unmarked, TypeOK, Unordered
        <3>2. swapRequested' \in [Procs -> BOOLEAN]
            BY <2>2 DEF TypeOK
        <3> QED BY <1>24, <2>2, <3>1, <3>2
            DEF PmpMark, TypeOK, PmpStages, PmpIdle
    <2> QED BY <1>24, <2>1, <2>2 DEF PmpMark, PmpGoto
<1>25. CASE PutSwap
    BY <1>25, PmpGotoTypes DEF PutSwap, TypeOK, PmpStages, PmpIdle
<1>25a. CASE RecordSwap
    BY <1>25a, PmpGotoTypes DEF RecordSwap, TypeOK, PmpStages, PmpIdle
<1>26. CASE EndSwap
    BY <1>26, PmpGotoTypes DEF EndSwap, TypeOK, PmpStages, PmpIdle
<1>27. CASE PlpWake
    BY <1>27, PlpGotoTypes DEF PlpWake, TypeOK, PlpStages, PlpIdle
<1>28. CASE PlpExit
    <2>1. CASE queue["EXIT"] = <<>>
        BY <1>28, <2>1, PlpGotoTypes DEF PlpExit, TypeOK, PlpStages, PlpIdle
    <2>2. CASE queue["EXIT"] # <<>>
        <3>1. plpPid' \in Procs /\ queue' \in [Ordered -> Seq(Procs)]
            BY <1>28, <2>2, ElementsOfQueue DEF PlpExit, TypeOK, Ordered
        <3> QED BY <1>28, <2>2, <3>1 DEF PlpExit, TypeOK, PlpStages, PlpIdle
    <2> QED BY <2>1, <2>2
<1>29. CASE ClearMemory
    BY <1>29, PlpGotoTypes DEF ClearMemory, TypeOK, PlpStages, PlpIdle
<1>30. CASE PlpYield
    BY <1>30, PlpGotoTypes DEF PlpYield, TypeOK, PlpStages, PlpIdle
<1>31. CASE PlpNew
    <2>1. CASE queue["NEW"] = <<>>
        BY <1>31, <2>1, PlpGotoTypes DEF PlpNew, TypeOK, PlpStages, PlpIdle
    <2>2. CASE queue["NEW"] # <<>>
        <3>1. plpPid' \in Procs /\ plpLeft' \subseteq Procs
            BY <1>31, <2>2, ElementsOfQueue DEF PlpNew, Smallest, Ordered
        <3> QED BY <1>31, <2>2, <3>1 DEF PlpNew, TypeOK, PlpStages, PlpIdle
    <2> QED BY <2>1, <2>2
<1>32. CASE PlpCapacity
    <2>1. plpAdmitted \in BOOLEAN
        BY DEF TypeOK
    <2> QED BY <1>32, <2>1, PlpGotoTypes, PlpNextTypes
        DEF PlpCapacity, TypeOK, PlpStages, PlpIdle
<1>33. CASE ReserveMemory
    <2>1. plpAdmitted \in BOOLEAN
        BY DEF TypeOK
    <2>2. place' \in [Procs -> {"absent", "frames", "copied", "swap"}]
        BY <1>33 DEF ReserveMemory, TypeOK
    <2> QED BY <1>33, <2>1, <2>2, PlpGotoTypes, PlpNextTypes
        DEF ReserveMemory, TypeOK, PlpStages, PlpIdle
<1>34. CASE Admit
    <2>1. plpPid \in Procs
        BY <1>34 DEF Admit, TypeOK, PlpIdle
    <2> QED BY <1>34, <2>1, MoveTypes, PlpNextTypes
        DEF Admit, TypeOK, Estados, Unordered
<1> QED BY <1>0, <1>1, <1>2, <1>3, <1>4, <1>5, <1>6, <1>7, <1>8, <1>9, <1>10,
           <1>11, <1>12, <1>13, <1>14, <1>15, <1>16, <1>17, <1>18, <1>19,
           <1>20, <1>21, <1>21a, <1>22, <1>23, <1>24, <1>25, <1>25a, <1>26,
           <1>27, <1>28, <1>29, <1>30, <1>31, <1>32, <1>33, <1>34
    DEF Next, Pmp, Plp, Return

LEMMA InitTypes == Init => TypeOK
<1> SUFFICES ASSUME Init PROVE TypeOK
    OBVIOUS
<1>1. queue \in [Ordered -> Seq(Procs)]
    BY InitialAssumption DEF Init, Ordered
<1> QED BY <1>1, InitialAssumption
    DEF Init, TypeOK, Ordered, Unordered, Estados, Waits, PmpStages, PmpIdle,
        PlpStages, PlpIdle

(* Type correctness of the planners.                                       *)
THEOREM TypeCorrect == Spec => []TypeOK
BY InitTypes, TypeStep, PTL DEF Spec
-----------------------------------------------------------------------------
(* All the actions that are not of the PMP.                                *)
LEMMA PmpUnchanged ==
    ASSUME Next, ~Pmp
    PROVE  UNCHANGED pmpVars
BY DEF Next, InitProcess, Execute, Finish, Block, Withdraw, SuspendOut,
       SuspendIn, IoEnds, Return, FindSuspended, Unflag, ToReady, ToSuspReady,
       DumpAnswers, DumpLooks, DumpFails, StartScheduler, Plp, PlpWake,
       PlpExit, ClearMemory, PlpYield, PlpNew, PlpCapacity, ReserveMemory,
       Admit

(* Each process is in the queue of its state, and the one a timer has      *)
(* taken out of QueueBlocked is on its way into QueueSuspBlocked.          *)
SuspendingIsSuspended ==
    \A p \in suspending : estado[p] = "SUSPEND_BLOCKED"

Places == OnePlace /\ SuspendingIsSuspended

(* The process the PMP has taken out of QueueSuspReady.                    *)
OutOfQueues == IF pmp = "takenOut" THEN {pmpPid} ELSE {}

LEMMA OutOfQueuesOnly ==
    ASSUME Next, ~TakeOut, ~Desuspend
    PROVE  OutOfQueues' = OutOfQueues
<1> USE DEF OutOfQueues
<1>1. CASE UNCHANGED pmpVars
    BY <1>1 DEF pmpVars
<1>2. CASE Pmp
    BY <1>2 DEF Pmp, PmpWake, PmpChoose, IsProcessInSwap, PmpCapacity,
           RemoveSwap, PmpEnds, PmpMark, PutSwap, RecordSwap, EndSwap, PmpGoto
<1> QED BY <1>1, <1>2, PmpUnchanged

(* What a transition does to the places of processes, whatever the state   *)
(* the process had.                                                        *)
LEMMA MoveQueues ==
    ASSUME TypeOK, OnePlace, NEW p \in Procs, NEW s \in Estados, Move(p, s),
           NEW t \in Ordered
    PROVE  /\ IsInjective(queue'[t])
           /\ \A q : Contains(queue'[t], q) <=>
                 IF q = p THEN t = s ELSE Contains(queue[t], q)
<1> DEFINE rest == RemoveFirst(queue[t], p)
<1>1. queue[t] \in Seq(Procs) /\ IsInjective(queue[t])
    BY DEF TypeOK, OnePlace
<1>2. /\ rest \in Seq(Procs) /\ IsInjective(rest)
      /\ \A q : Contains(rest, q) <=> Contains(queue[t], q) /\ q # p
    BY <1>1, RemoveFirstType, RemoveFirstKeeps
<1>3. queue'[t] = IF t = s THEN Append(rest, p) ELSE rest
    BY DEF Move
<1> HIDE DEF rest
<1>4. CASE t = s
    <2>1. ~Contains(rest, p)
        BY <1>2
    <2>2. /\ IsInjective(Append(rest, p))
          /\ \A q : Contains(Append(rest, p), q) <=> Contains(rest, q) \/ q = p
        BY <1>2, <2>1, AppendKeeps
    <2> QED BY <1>2, <1>3, <1>4, <2>2
<1>5. CASE t # s
    BY <1>2, <1>3, <1>5
<1> QED BY <1>4, <1>5

LEMMA MovePlaces ==
    ASSUME TypeOK, OnePlace, NEW p \in Procs, NEW s \in Estados, Move(p, s)
    PROVE  /\ estado' = [estado EXCEPT ![p] = s] /\ p \notin suspending
           /\ \A t \in Ordered : IsInjective(queue'[t])
           /\ \A q \in Procs, t \in Estados :
                 InQueue(q, t)' <=> IF q = p THEN t = s ELSE InQueue(q, t)
<1>1. estado' = [estado EXCEPT ![p] = s] /\ p \notin suspending
    BY DEF Move
<1>2. \A t \in Ordered : IsInjective(queue'[t])
    BY MoveQueues
<1>3. ASSUME NEW q \in Procs, NEW t \in Ordered
      PROVE  InQueue(q, t)' <=> IF q = p THEN t = s ELSE InQueue(q, t)
    BY <1>3, MoveQueues DEF InQueue
<1>4. ASSUME NEW q \in Procs, NEW t \in Unordered
      PROVE  InQueue(q, t)' <=> IF q = p THEN t = s ELSE InQueue(q, t)
    BY <1>4 DEF InQueue, Move, Ordered, Unordered
<1> QED BY <1>1, <1>2, <1>3, <1>4 DEF Estados

LEMMA MoveKeepsPlaces ==
    ASSUME TypeOK, Places, NEW p \in Procs, NEW s \in Estados, Move(p, s),
           UNCHANGED suspending, OutOfQueues \subseteq OutOfQueues' \union {p}
    PROVE  Places'
<1>1. /\ estado' = [estado EXCEPT ![p] = s] /\ p \notin suspending
      /\ \A t \in Ordered : IsInjective(queue'[t])
      /\ \A q \in Procs, t \in Estados :
            InQueue(q, t)' <=> IF q = p THEN t = s ELSE InQueue(q, t)
    BY MovePlaces DEF Places
<1>2. \A q \in Procs : q # p /\ q \in OutOfQueues => q \in OutOfQueues'
    OBVIOUS
<1>3. \A q \in Procs : /\ q \in OutOfQueues <=> pmp = "takenOut" /\ q = pmpPid
                       /\ q \in OutOfQueues' <=> pmp' = "takenOut" /\ q = pmpPid'
    BY DEF OutOfQueues
<1> QED BY <1>1, <1>2, <1>3
    DEF Places, OnePlace, SuspendingIsSuspended, TypeOK

(* A transition to another state does not fill QueueExit.                  *)
LEMMA MoveKeepsExitEmpty ==
    ASSUME TypeOK, OnePlace, NEW p \in Procs, NEW s \in Estados \ {"EXIT"},
           Move(p, s), queue["EXIT"] = <<>>, queue' \in [Ordered -> Seq(Procs)]
    PROVE  queue'["EXIT"] = <<>>
<1>1. "EXIT" \in Ordered
    BY DEF Ordered
<1>2. \A q : ~Contains(queue'["EXIT"], q)
    <2>1. s \in Estados /\ s # "EXIT"
        OBVIOUS
    <2>2. \A q : Contains(queue'["EXIT"], q) =>
             Contains(queue["EXIT"], q)
        BY <1>1, <2>1, MoveQueues
    <2>3. \A q : ~Contains(queue["EXIT"], q)
        BY DEF Contains
    <2> QED BY <2>2, <2>3
<1>3. queue'["EXIT"] # <<>> =>
         Contains(queue'["EXIT"], queue'["EXIT"][1])
    BY <1>1 DEF Contains
<1> QED BY <1>2, <1>3

LEMMA PlacesStep == TypeOK /\ Places /\ [Next]_vars => Places'
<1> SUFFICES ASSUME TypeOK, Places, [Next]_vars PROVE Places'
    OBVIOUS
<1>0. \A q \in Procs : /\ q \in OutOfQueues <=> pmp = "takenOut" /\ q = pmpPid
                       /\ q \in OutOfQueues' <=> pmp' = "takenOut" /\ q = pmpPid'
    BY DEF OutOfQueues
<1>1. CASE UNCHANGED <<estado, queue, pool, suspending>>
           /\ OutOfQueues' = OutOfQueues
    BY <1>0, <1>1 DEF Places, OnePlace, SuspendingIsSuspended, InQueue
<1>2. CASE \E p \in Procs, s \in Estados :
              /\ Move(p, s) /\ UNCHANGED suspending
              /\ OutOfQueues \subseteq OutOfQueues' \union {p}
    BY <1>2, MoveKeepsPlaces
<1>3. ASSUME NEW p \in Procs, SuspendOut(p) PROVE Places'
    <2>1. /\ \A t \in Ordered : queue'[t] = queue[t]
          /\ \A q \in Procs, t \in Estados :
                InQueue(q, t)' <=> InQueue(q, t) /\ ~(q = p /\ t = "BLOCKED")
        BY <1>3 DEF SuspendOut, InQueue, TypeOK, Ordered, Unordered, Estados
    <2>2. estado' = [estado EXCEPT ![p] = "SUSPEND_BLOCKED"]
          /\ suspending' = suspending \union {p} /\ estado[p] = "BLOCKED"
          /\ UNCHANGED <<pmp, pmpPid>>
        BY <1>3 DEF SuspendOut, pmpVars
    <2>3. "BLOCKED" \in Estados
        BY DEF Estados, Unordered
    <2> QED BY <2>1, <2>2, <2>3
        DEF Places, OnePlace, SuspendingIsSuspended, TypeOK
<1>4. ASSUME NEW p \in Procs, SuspendIn(p) PROVE Places'
    <2>1. /\ \A t \in Ordered : queue'[t] = queue[t]
          /\ \A q \in Procs, t \in Estados :
                InQueue(q, t)' <=>
                    InQueue(q, t) \/ (q = p /\ t = "SUSPEND_BLOCKED")
        BY <1>4 DEF SuspendIn, InQueue, TypeOK, Ordered, Unordered, Estados
    <2>2. UNCHANGED estado /\ suspending' = suspending \ {p}
          /\ estado[p] = "SUSPEND_BLOCKED" /\ UNCHANGED <<pmp, pmpPid>>
        BY <1>4 DEF SuspendIn, Places, SuspendingIsSuspended, pmpVars
    <2> QED BY <2>1, <2>2
        DEF Places, OnePlace, SuspendingIsSuspended, TypeOK
<1>5. CASE PlpExit /\ queue["EXIT"] # <<>>
    <2>1. queue' = [queue EXCEPT !["EXIT"] = Tail(queue["EXIT"])]
          /\ UNCHANGED <<estado, pool, suspending, pmp, pmpPid>>
        BY <1>5 DEF PlpExit, pmpVars
    <2>2. "EXIT" \in Ordered /\ queue["EXIT"] \in Seq(Procs)
          /\ IsInjective(queue["EXIT"])
        BY DEF Ordered, TypeOK, Places, OnePlace
    <2>3. \A t \in Ordered : IsInjective(queue'[t])
        BY <1>5, <2>1, <2>2, TailKeeps DEF TypeOK, Places, OnePlace
    <2>4. \A q : Contains(queue'["EXIT"], q) => Contains(queue["EXIT"], q)
        BY <1>5, <2>1, <2>2, TailKeeps DEF TypeOK
    <2>5. \A q \in Procs, t \in Estados :
             /\ InQueue(q, t)' => InQueue(q, t)
             /\ t # "EXIT" => (InQueue(q, t)' <=> InQueue(q, t))
        BY <2>1, <2>4 DEF InQueue, TypeOK
    <2> QED BY <2>1, <2>3, <2>5
        DEF Places, OnePlace, SuspendingIsSuspended, TypeOK
<1>6. CASE TakeOut
    <2>1. queue' = [queue EXCEPT !["SUSPREADY"] = RemoveFirst(queue["SUSPREADY"], pmpPid)]
          /\ UNCHANGED <<estado, pool, suspending, pmpPid>>
          /\ pmp = "direct" /\ pmp' = "takenOut" /\ pmpPid \in Procs
        BY <1>6 DEF TakeOut, PmpGoto, PmpIdle, TypeOK
    <2>2. "SUSPREADY" \in Ordered /\ queue["SUSPREADY"] \in Seq(Procs)
          /\ IsInjective(queue["SUSPREADY"])
        BY DEF Ordered, TypeOK, Places, OnePlace
    <2>3. /\ IsInjective(queue'["SUSPREADY"])
          /\ \A q : Contains(queue'["SUSPREADY"], q)
                      <=> Contains(queue["SUSPREADY"], q) /\ q # pmpPid
        BY <2>1, <2>2, RemoveFirstKeeps DEF TypeOK
    <2>4. \A t \in Ordered : IsInjective(queue'[t])
        BY <2>1, <2>3 DEF TypeOK, Places, OnePlace
    <2>5. \A q \in Procs, t \in Estados :
             /\ InQueue(q, t)' => InQueue(q, t)
             /\ t # "SUSPREADY" \/ q # pmpPid => (InQueue(q, t)' <=> InQueue(q, t))
        BY <2>1, <2>3 DEF InQueue, TypeOK
    <2> QED BY <2>1, <2>4, <2>5
        DEF Places, OnePlace, SuspendingIsSuspended, TypeOK
<1>7. CASE Desuspend
    <2>1. pmpPid \in Procs /\ Move(pmpPid, "READY") /\ UNCHANGED suspending
        BY <1>7 DEF Desuspend, TypeOK, PmpIdle
    <2>2. "READY" \in Estados /\ OutOfQueues \subseteq OutOfQueues' \union {pmpPid}
        BY DEF OutOfQueues, Estados, Unordered
    <2> QED BY <1>2, <2>1, <2>2
<1>8. ASSUME NEW p \in Procs,
             InitProcess(p) \/ Execute(p) \/ Finish(p) \/ Block(p) \/ Withdraw(p)
             \/ ToReady(p) \/ ToSuspReady(p) \/ DumpFails(p)
      PROVE  \/ \E s \in Estados : Move(p, s) /\ UNCHANGED suspending
             \/ UNCHANGED <<estado, queue, pool, suspending>>
    BY <1>8 DEF InitProcess, Execute, Finish, Block, Withdraw, ToReady,
           ToSuspReady, DumpFails, Estados, Ordered, Unordered, stateVars
<1>9. /\ PmpEnds => pmpPid \in Procs
                     /\ \E s \in Estados : Move(pmpPid, s) /\ UNCHANGED suspending
      /\ Admit => plpPid \in Procs
                  /\ \E s \in Estados : Move(plpPid, s) /\ UNCHANGED suspending
    BY DEF PmpEnds, Admit, Estados, Ordered, Unordered, TypeOK, PmpIdle, PlpIdle
<1>10. /\ \A p \in Procs :
             IoEnds(p) \/ FindSuspended(p) \/ Unflag(p) \/ DumpAnswers(p)
             \/ DumpLooks(p) => UNCHANGED <<estado, queue, pool, suspending>>
       /\ StartScheduler \/ PmpWake \/ PmpChoose \/ IsProcessInSwap
          \/ PmpCapacity \/ RemoveSwap \/ PmpMark \/ PutSwap \/ RecordSwap
          \/ EndSwap \/ PlpWake \/ (PlpExit /\ queue["EXIT"] = <<>>)
          \/ ClearMemory \/ PlpYield \/ PlpNew \/ PlpCapacity \/ ReserveMemory
          => UNCHANGED <<estado, queue, pool, suspending>>
    BY DEF IoEnds, FindSuspended, Unflag, DumpAnswers, DumpLooks,
           StartScheduler, PmpWake, PmpChoose, IsProcessInSwap, PmpCapacity,
           RemoveSwap, PmpMark, PutSwap, RecordSwap, EndSwap, PlpWake, PlpExit,
           ClearMemory, PlpYield, PlpNew, PlpCapacity, ReserveMemory, stateVars
<1>11. CASE UNCHANGED vars
    BY <1>1, <1>11 DEF vars, stateVars, pmpVars, OutOfQueues
<1>12. CASE Next /\ ~TakeOut /\ ~Desuspend
    <2>1. OutOfQueues' = OutOfQueues
        BY <1>12, OutOfQueuesOnly
    <2> QED BY <1>1, <1>2, <1>3, <1>4, <1>5, <1>8, <1>9, <1>10, <1>12, <2>1
        DEF Next, Pmp, Plp, Return
<1> QED BY <1>6, <1>7, <1>11, <1>12

LEMMA InitPlaces == Init => Places
<1> SUFFICES ASSUME Init PROVE Places
    OBVIOUS
<1>1. queue["NEW"] = <<Initial>> /\ Initial \in Procs
    BY InitialAssumption DEF Init, Ordered
<1>2. \A s \in Ordered \ {"NEW"} : queue[s] = <<>>
    BY DEF Init
<1>3. \A s \in Unordered : pool[s] = {}
    BY DEF Init
<1>4. \A s \in Ordered : IsInjective(queue[s])
    BY <1>1, <1>2 DEF IsInjective
<1>5. \A p \in Procs : \A s \in Ordered :
         Contains(queue[s], p) <=> s = "NEW" /\ p = Initial
    <2> SUFFICES ASSUME NEW p \in Procs, NEW s \in Ordered
                 PROVE  Contains(queue[s], p) <=> s = "NEW" /\ p = Initial
        OBVIOUS
    <2>1. CASE s = "NEW"
        <3>1. Contains(<<Initial>>, p) <=> p = Initial
            BY DEF Contains
        <3> QED BY <1>1, <2>1, <3>1
    <2>2. CASE s # "NEW"
        <3>1. ~Contains(<<>>, p)
            BY DEF Contains
        <3> QED BY <1>2, <2>2, <3>1
    <2> QED BY <2>1, <2>2
<1>6. \A p \in Procs : \A s \in Estados :
         InQueue(p, s) <=> s = "NEW" /\ p = Initial
    BY <1>3, <1>5 DEF InQueue, Estados, Ordered, Unordered
<1>7. suspending = {} /\ estado = [p \in Procs |-> IF p = Initial THEN "NEW" ELSE "none"]
    BY DEF Init
<1> QED BY <1>4, <1>6, <1>7
    DEF Places, OnePlace, SuspendingIsSuspended, Estados, Ordered

(* A process is never in two queues, nor twice in one, nor lost between    *)
(* them, however suspensions, returns, admissions and ends interleave.     *)
THEOREM OnePlaceAlways == Spec => []OnePlace
<1>1. Init => TypeOK /\ Places
    BY InitTypes, InitPlaces
<1>2. TypeOK /\ Places /\ [Next]_vars => (TypeOK /\ Places)'
    BY TypeStep, PlacesStep
<1>3. Places => OnePlace
    BY DEF Places
<1> QED BY <1>1, <1>2, <1>3, PTL DEF Spec
-----------------------------------------------------------------------------
(* The processes the planners work on, and those that wait, are in the     *)
(* state they were found in; before the PLP starts nothing has happened.   *)
WaitingIsBlocked ==
    \A p \in Procs :
        wait[p] # "none" => estado[p] \in {"BLOCKED", "SUSPEND_BLOCKED"}

AdmittedIsNew ==
    plp \in {"capacity", "load", "admit"} =>
        /\ estado[plpPid] = "NEW" /\ plpPid \notin plpLeft
        /\ \A p \in plpLeft : estado[p] = "NEW"

ClearedHasEnded == plp = "clear" => estado[plpPid] = "EXIT"

Returning == {"inSwap", "capacity", "swapOut", "back", "failed",
              "capacityDirect", "direct", "takenOut"}
ReturningIsSuspReady == pmp \in Returning => estado[pmpPid] = "SUSPREADY"

OffIsIdle ==
    plp = "off" =>
        /\ pmp = "wait" /\ ~notifyMedium
        /\ \A p \in Procs : estado[p] \in {"none", "NEW"}

Roles ==
    /\ WaitingIsBlocked /\ AdmittedIsNew /\ ClearedHasEnded
    /\ ReturningIsSuspReady /\ OffIsIdle

LEMMA MoveEstado ==
    ASSUME TypeOK, NEW p \in Procs, NEW s \in Estados, Move(p, s)
    PROVE  \A q \in Procs : estado'[q] = IF q = p THEN s ELSE estado[q]
BY DEF Move, TypeOK

LEMMA OffIsEmpty ==
    ASSUME TypeOK, Places, Roles, plp = "off"
    PROVE  /\ \A s \in Unordered : pool[s] = {}
           /\ suspending = {}
           /\ \A p \in Procs : wait[p] = "none"
<1>1. \A p \in Procs : estado[p] \in {"none", "NEW"}
    BY DEF Roles, OffIsIdle
<1>2. \A s \in Unordered, p \in Procs : p \notin pool[s]
    BY <1>1 DEF Places, OnePlace, InQueue, Estados, Ordered, Unordered
<1> QED BY <1>1, <1>2
    DEF TypeOK, Places, SuspendingIsSuspended, Roles, WaitingIsBlocked

LEMMA HeadIsOfItsState ==
    ASSUME TypeOK, Places, NEW s \in Ordered
    PROVE  /\ queue[s] # <<>> => estado[Head(queue[s])] = s
           /\ \A p \in ToSet(queue[s]) : p \in Procs /\ estado[p] = s
<1>1. \A p \in ToSet(queue[s]) : p \in Procs /\ Contains(queue[s], p)
    BY DEF TypeOK, ToSet, Contains
<1>2. \A p \in ToSet(queue[s]) : estado[p] = s
    BY <1>1 DEF Places, OnePlace, InQueue, Estados
<1>3. queue[s] # <<>> => Head(queue[s]) \in ToSet(queue[s])
    BY DEF TypeOK, ToSet
<1> QED BY <1>1, <1>2, <1>3

(* The state diagram: from which states, and by whom, a process is moved.  *)
Moved(q) ==
    \/ estado'[q] = estado[q]
    \/ estado[q] = "none" /\ estado'[q] = "NEW"
    \/ estado[q] = "NEW" /\ estado'[q] = "READY" /\ Admit /\ q = plpPid
    \/ /\ estado[q] \in {"READY", "EXECUTING"} /\ wait[q] = "none"
       /\ estado'[q] \in {"READY", "EXECUTING", "BLOCKED"}
             \union (IF MayEnd(q) THEN {"EXIT"} ELSE {})
    \/ estado[q] = "BLOCKED" /\ estado'[q] = "SUSPEND_BLOCKED"
    \/ /\ estado[q] \in {"BLOCKED", "SUSPEND_BLOCKED"} /\ wait'[q] = "none"
       /\ estado'[q] \in {"READY", "SUSPREADY"}
             \union (IF MayEnd(q) THEN {"EXIT"} ELSE {})
    \/ /\ estado[q] = "SUSPREADY" /\ q = pmpPid
       /\ \/ estado'[q] = "READY" /\ Desuspend
          \/ estado'[q] = "EXIT" /\ PmpEnds

LEMMA MovedOnly ==
    ASSUME TypeOK, Places, Roles, Next
    PROVE  \A q \in Procs : Moved(q)
<1> USE DEF Moved
<1>1. ASSUME NEW p \in Procs, InitProcess(p) PROVE \A q \in Procs : Moved(q)
    BY <1>1, MoveEstado DEF InitProcess, Estados, Ordered
<1>2. ASSUME NEW p \in Procs,
             Execute(p) \/ Finish(p) \/ Block(p)
      PROVE  \A q \in Procs : Moved(q)
    <2>1. estado[p] \in {"READY", "EXECUTING"} /\ wait[p] = "none"
        BY <1>2 DEF Execute, Finish, Block, Roles, WaitingIsBlocked
    <2>2. \/ \E s \in {"READY", "EXECUTING", "BLOCKED"} : Move(p, s)
          \/ MayEnd(p) /\ Move(p, "EXIT")
        BY <1>2 DEF Execute, Finish, Block
    <2> QED BY <2>1, <2>2, MoveEstado DEF Estados, Ordered, Unordered
<1>3. ASSUME NEW p \in Procs,
             Withdraw(p) \/ ToReady(p) \/ ToSuspReady(p) \/ DumpFails(p)
      PROVE  \A q \in Procs : Moved(q)
    <2>1. estado[p] \in {"BLOCKED", "SUSPEND_BLOCKED"}
        BY <1>3 DEF Withdraw, ToReady, ToSuspReady, DumpFails, Returns, Roles,
                    WaitingIsBlocked
    <2>2. CASE UNCHANGED stateVars
        BY <2>2 DEF stateVars
    <2>3. CASE ~UNCHANGED stateVars
        <3>1. \/ \E s \in {"READY", "SUSPREADY"} : Move(p, s)
              \/ MayEnd(p) /\ Move(p, "EXIT")
            BY <1>3, <2>3 DEF Withdraw, ToReady, ToSuspReady, DumpFails
        <3>2. wait'[p] = "none"
            BY <1>3, <2>3 DEF Withdraw, ToReady, ToSuspReady, DumpFails, Returns,
                              TypeOK
        <3> QED BY <2>1, <3>1, <3>2, MoveEstado DEF Estados, Ordered, Unordered
    <2> QED BY <2>2, <2>3
<1>4. ASSUME NEW p \in Procs, SuspendOut(p) PROVE \A q \in Procs : Moved(q)
    BY <1>4 DEF SuspendOut, TypeOK
<1>5. CASE Desuspend \/ PmpEnds
    <2>1. pmpPid \in Procs /\ estado[pmpPid] = "SUSPREADY"
        BY <1>5 DEF Desuspend, PmpEnds, TypeOK, PmpIdle, Roles,
                    ReturningIsSuspReady, Returning
    <2>2. \/ Desuspend /\ Move(pmpPid, "READY")
          \/ PmpEnds /\ Move(pmpPid, "EXIT")
        BY <1>5 DEF Desuspend, PmpEnds
    <2> QED BY <2>1, <2>2, MoveEstado DEF Estados, Ordered, Unordered
<1>6. CASE Admit
    <2>1. plpPid \in Procs /\ estado[plpPid] = "NEW" /\ Move(plpPid, "READY")
        BY <1>6 DEF Admit, TypeOK, PlpIdle, Roles, AdmittedIsNew
    <2> QED BY <1>6, <2>1, MoveEstado DEF Estados, Unordered
<1>7. CASE UNCHANGED estado
    BY <1>7
<1>8. /\ \A p \in Procs :
            SuspendIn(p) \/ IoEnds(p) \/ FindSuspended(p) \/ Unflag(p)
            \/ DumpAnswers(p) \/ DumpLooks(p) => UNCHANGED estado
      /\ StartScheduler \/ PmpWake \/ PmpChoose \/ IsProcessInSwap
         \/ PmpCapacity \/ RemoveSwap \/ TakeOut \/ PmpMark \/ PutSwap
         \/ RecordSwap \/ EndSwap \/ PlpWake
         \/ PlpExit \/ ClearMemory \/ PlpYield \/ PlpNew \/ PlpCapacity
         \/ ReserveMemory => UNCHANGED estado
    BY DEF SuspendIn, IoEnds, FindSuspended, Unflag, DumpAnswers, DumpLooks,
           StartScheduler, PmpWake, PmpChoose, IsProcessInSwap, PmpCapacity,
           RemoveSwap, TakeOut, PmpMark, PutSwap, RecordSwap, EndSwap, PlpWake, PlpExit,
           ClearMemory, PlpYield, PlpNew, PlpCapacity, ReserveMemory, stateVars
<1> QED BY <1>1, <1>2, <1>3, <1>4, <1>5, <1>6, <1>7, <1>8
    DEF Next, Pmp, Plp, Return
(* How each planner comes to the process it works on.                      *)
LEMMA WaitOnly ==
    ASSUME TypeOK, Next
    PROVE  \A q \in Procs : wait[q] = "none" /\ wait'[q] # "none"
                              => estado'[q] = "BLOCKED"
<1>1. ASSUME NEW p \in Procs, Block(p)
      PROVE  \A q \in Procs : wait[q] = "none" /\ wait'[q] # "none"
                                => estado'[q] = "BLOCKED"
    BY <1>1, MoveEstado DEF Block, TypeOK, Estados, Unordered
<1>2. /\ \A p \in Procs :
            InitProcess(p) \/ Execute(p) \/ Finish(p) \/ SuspendOut(p)
            \/ SuspendIn(p) => UNCHANGED wait
      /\ StartScheduler \/ Pmp \/ Plp => UNCHANGED wait
    BY DEF InitProcess, Execute, Finish, SuspendOut, SuspendIn, StartScheduler,
           Pmp, PmpWake, PmpChoose, IsProcessInSwap, PmpCapacity, RemoveSwap,
           TakeOut, Desuspend, PmpEnds, PmpMark, PutSwap, RecordSwap, EndSwap,
           Plp, PlpWake,
           PlpExit, ClearMemory, PlpYield, PlpNew, PlpCapacity, ReserveMemory,
           Admit
<1>3. ASSUME NEW p \in Procs, Withdraw(p) \/ IoEnds(p) \/ Return(p)
      PROVE  wait[p] # "none" /\ \A q \in Procs \ {p} : wait'[q] = wait[q]
    BY <1>3 DEF Withdraw, IoEnds, Return, FindSuspended, Unflag, ToReady,
                ToSuspReady, DumpAnswers, DumpLooks, DumpFails, Returns, TypeOK
<1> QED BY <1>1, <1>2, <1>3 DEF Next

LEMMA PmpOnly ==
    ASSUME TypeOK, Places, Next, pmp' \in Returning
    PROVE  \/ PmpChoose /\ pmp' = "inSwap" /\ estado[pmpPid'] = "SUSPREADY"
              /\ UNCHANGED estado
           \/ pmp \in Returning /\ pmpPid' = pmpPid /\ ~Desuspend /\ ~PmpEnds
<1>1. CASE PmpChoose
    <2>1. queue["SUSPREADY"] # <<>>
        BY <1>1 DEF PmpChoose, PmpGoto, Returning
    <2>2. pmpPid' = Head(queue["SUSPREADY"])
          \/ pmpPid' \in ToSet(queue["SUSPREADY"])
        BY <1>1, <2>1 DEF PmpChoose, Smallest
    <2> QED BY <1>1, <2>1, <2>2, HeadIsOfItsState
        DEF PmpChoose, Ordered, stateVars
<1>2. CASE UNCHANGED pmpVars
    BY <1>2 DEF pmpVars, Desuspend, PmpEnds, PmpGoto, Returning
<1>3. CASE IsProcessInSwap \/ PmpCapacity \/ RemoveSwap \/ TakeOut
    BY <1>3 DEF IsProcessInSwap, PmpCapacity, RemoveSwap, TakeOut, PmpGoto, Returning,
                PmpIdle, Desuspend, PmpEnds
<1>4. CASE PmpWake \/ Desuspend \/ PmpEnds \/ PmpMark \/ PutSwap
           \/ RecordSwap \/ EndSwap
    BY <1>4 DEF PmpWake, Desuspend, PmpEnds, PmpMark, PutSwap, RecordSwap, EndSwap,
                PmpGoto, Returning
<1>5. /\ \A p \in Procs :
            InitProcess(p) \/ Execute(p) \/ Finish(p) \/ Block(p) \/ Withdraw(p)
            \/ SuspendOut(p) \/ SuspendIn(p) \/ IoEnds(p) \/ Return(p)
            => UNCHANGED pmpVars
      /\ StartScheduler \/ Plp => UNCHANGED pmpVars
    BY DEF InitProcess, Execute, Finish, Block, Withdraw, SuspendOut,
           SuspendIn, IoEnds, Return, FindSuspended, Unflag, ToReady,
           ToSuspReady, DumpAnswers, DumpLooks, DumpFails, StartScheduler, Plp,
           PlpWake, PlpExit, ClearMemory, PlpYield, PlpNew, PlpCapacity,
           ReserveMemory, Admit
<1> QED BY <1>1, <1>2, <1>3, <1>4, <1>5 DEF Next, Pmp

(* All the actions that are not of the PLP.                                *)
LEMMA PlpUnchanged ==
    ASSUME Next, ~Plp, ~StartScheduler
    PROVE  UNCHANGED plpVars
BY DEF Next, InitProcess, Execute, Finish, Block, Withdraw, SuspendOut,
       SuspendIn, IoEnds, Return, FindSuspended, Unflag, ToReady, ToSuspReady,
       DumpAnswers, DumpLooks, DumpFails, Pmp, PmpWake, PmpChoose,
       IsProcessInSwap, PmpCapacity, RemoveSwap, Desuspend, PmpEnds, PmpMark,
       PutSwap, RecordSwap, EndSwap, TakeOut

Admitting == {"capacity", "load", "admit"}

LEMMA PlpNextIs ==
    ASSUME NEW admitted \in BOOLEAN, PlpNext(admitted), plp' \in Admitting
    PROVE  plpPid' \in plpLeft /\ plpLeft' = plpLeft \ {plpPid'}
BY DEF PlpNext, PlpGoto, Admitting, Smallest

LEMMA AdmittedOnly ==
    ASSUME TypeOK, Places, Next, plp' \in Admitting
    PROVE  \/ /\ PlpNew /\ estado[plpPid'] = "NEW" /\ plpPid' \notin plpLeft'
              /\ \A p \in plpLeft' : estado[p] = "NEW"
              /\ UNCHANGED estado
           \/ /\ plp \in Admitting /\ plpPid' \in plpLeft
              /\ plpLeft' = plpLeft \ {plpPid'}
           \/ /\ plp \in Admitting /\ ~Admit
              /\ plpPid' = plpPid /\ plpLeft' = plpLeft
<1>1. CASE PlpNew
    <2>1. queue["NEW"] # <<>>
        BY <1>1 DEF PlpNew, PlpGoto, Admitting
    <2>2. /\ plpPid' = Head(queue["NEW"]) \/ plpPid' \in ToSet(queue["NEW"])
          /\ plpLeft' = {} \/ plpLeft' = ToSet(queue["NEW"]) \ {plpPid'}
        BY <1>1, <2>1 DEF PlpNew, Smallest
    <2> QED BY <1>1, <2>1, <2>2, HeadIsOfItsState DEF PlpNew, Ordered, stateVars
<1>2. CASE PlpCapacity \/ ReserveMemory
    <2>1. plpAdmitted \in BOOLEAN
        BY DEF TypeOK
    <2>2. \/ \E stage \in {"load", "admit"} : PlpGoto(stage)
          \/ PlpNext(plpAdmitted)
        BY <1>2 DEF PlpCapacity, ReserveMemory
    <2>3. plp \in Admitting /\ ~Admit
        BY <1>2 DEF PlpCapacity, ReserveMemory, Admit, Admitting
    <2> QED BY <2>1, <2>2, <2>3, PlpNextIs DEF PlpGoto, PlpIdle
<1>3. CASE Admit
    BY <1>3, PlpNextIs DEF Admit, Admitting
<1>4. CASE PlpWake \/ PlpExit \/ ClearMemory \/ PlpYield \/ StartScheduler
    BY <1>4 DEF PlpWake, PlpExit, ClearMemory, PlpYield, StartScheduler,
                PlpGoto, Admitting
<1>5. CASE UNCHANGED plpVars /\ ~Admit
    BY <1>5 DEF plpVars
<1> QED BY <1>1, <1>2, <1>3, <1>4, <1>5, PlpUnchanged DEF Plp

LEMMA ClearedOnly ==
    ASSUME TypeOK, Places, Next, plp' = "clear"
    PROVE  \/ estado[plpPid'] = "EXIT"
           \/ plp = "clear" /\ plpPid' = plpPid
<1>1. CASE PlpExit
    <2>1. queue["EXIT"] # <<>> /\ plpPid' = Head(queue["EXIT"])
        BY <1>1 DEF PlpExit, PlpGoto
    <2> QED BY <2>1, HeadIsOfItsState DEF Ordered
<1>2. CASE PlpWake \/ ClearMemory \/ PlpYield \/ PlpNew \/ PlpCapacity
           \/ ReserveMemory \/ Admit \/ StartScheduler
    BY <1>2 DEF PlpWake, ClearMemory, PlpYield, PlpNew, PlpCapacity,
                ReserveMemory, Admit, StartScheduler, PlpGoto, PlpNext
<1>3. CASE UNCHANGED plpVars
    BY <1>3 DEF plpVars
<1> QED BY <1>1, <1>2, <1>3, PlpUnchanged DEF Plp

(* Until the PLP is started only the PLP can be started.                   *)
LEMMA OffMeansStart ==
    ASSUME TypeOK, Places, Roles, Next, plp = "off"
    PROVE  StartScheduler
<1>1. /\ \A p \in Procs : estado[p] \in {"none", "NEW"} /\ wait[p] = "none"
      /\ suspending = {} /\ pool["EXECUTING"] = {}
      /\ pmp = "wait" /\ ~notifyMedium
    BY OffIsEmpty DEF Roles, OffIsIdle, Unordered
<1>2. ~Pmp /\ ~Plp
    BY <1>1 DEF Pmp, PmpWake, PmpChoose, IsProcessInSwap, PmpCapacity,
           RemoveSwap, TakeOut, Desuspend, PmpEnds, PmpMark, PutSwap,
           RecordSwap, EndSwap, Plp,
           PlpWake, PlpExit, ClearMemory, PlpYield, PlpNew, PlpCapacity,
           ReserveMemory, Admit
<1>3. \A p \in Procs :
         /\ ~InitProcess(p) /\ ~Execute(p) /\ ~Finish(p) /\ ~Block(p)
         /\ ~Withdraw(p) /\ ~SuspendOut(p) /\ ~SuspendIn(p) /\ ~IoEnds(p)
         /\ ~Return(p)
    BY <1>1 DEF InitProcess, Execute, Finish, Block, Withdraw, SuspendOut,
           SuspendIn, IoEnds, Return, FindSuspended, Unflag, ToReady,
           ToSuspReady, DumpAnswers, DumpLooks, DumpFails, Returns
<1> QED BY <1>2, <1>3 DEF Next

LEMMA StaysOff ==
    ASSUME Next, plp' = "off"
    PROVE  plp = "off" /\ ~StartScheduler
<1>1. ~StartScheduler
    BY DEF StartScheduler
<1>2. ~Plp
    BY DEF Plp, PlpWake, PlpExit, ClearMemory, PlpYield, PlpNew, PlpCapacity,
           ReserveMemory, Admit, PlpGoto, PlpNext
<1> QED BY <1>1, <1>2, PlpUnchanged DEF plpVars

LEMMA RolesStep == TypeOK /\ Places /\ Roles /\ [Next]_vars => Roles'
<1> SUFFICES ASSUME TypeOK, Places, Roles, [Next]_vars PROVE Roles'
    OBVIOUS
<1>1. CASE UNCHANGED vars
    BY <1>1 DEF Roles, WaitingIsBlocked, AdmittedIsNew, ClearedHasEnded,
           ReturningIsSuspReady, OffIsIdle, vars, stateVars, pmpVars, plpVars
<1>2. CASE Next
    <2>0. TypeOK' /\ \A q \in Procs : Moved(q)
        BY <1>2, TypeStep, MovedOnly
    <2>1. WaitingIsBlocked'
        <3>1. ASSUME NEW q \in Procs, wait'[q] # "none"
              PROVE  estado'[q] \in {"BLOCKED", "SUSPEND_BLOCKED"}
            BY <1>2, <2>0, <3>1, WaitOnly DEF Moved, Roles, WaitingIsBlocked
        <3> QED BY <3>1 DEF WaitingIsBlocked
    <2>2. AdmittedIsNew'
        <3>1. ASSUME plp' \in Admitting
              PROVE  /\ estado'[plpPid'] = "NEW" /\ plpPid' \notin plpLeft'
                     /\ \A p \in plpLeft' : estado'[p] = "NEW"
            <4>1. plpPid' \in Procs /\ plpLeft' \subseteq Procs
                BY <2>0, <3>1 DEF TypeOK, Admitting, PlpIdle
            <4> QED BY <1>2, <2>0, <3>1, <4>1, AdmittedOnly
                DEF Moved, Roles, AdmittedIsNew, Admitting
        <3> QED BY <3>1 DEF AdmittedIsNew, Admitting
    <2>3. ClearedHasEnded'
        <3>1. ASSUME plp' = "clear" PROVE estado'[plpPid'] = "EXIT"
            <4>1. plpPid' \in Procs /\ estado[plpPid'] = "EXIT"
                BY <1>2, <2>0, <3>1, ClearedOnly
                DEF TypeOK, PlpIdle, Roles, ClearedHasEnded
            <4> QED BY <2>0, <4>1 DEF Moved
        <3> QED BY <3>1 DEF ClearedHasEnded
    <2>4. ReturningIsSuspReady'
        <3>1. ASSUME pmp' \in Returning PROVE estado'[pmpPid'] = "SUSPREADY"
            <4>1. pmpPid' \in Procs
                BY <2>0, <3>1 DEF TypeOK, PmpIdle, Returning
            <4> QED BY <1>2, <2>0, <3>1, <4>1, PmpOnly
                DEF Moved, Roles, ReturningIsSuspReady
        <3> QED BY <3>1 DEF ReturningIsSuspReady
    <2>5. OffIsIdle'
        BY <1>2, StaysOff, OffMeansStart DEF OffIsIdle
    <2> QED BY <2>1, <2>2, <2>3, <2>4, <2>5 DEF Roles
<1> QED BY <1>1, <1>2

LEMMA InitRoles == Init => Roles
BY InitialAssumption
   DEF Init, Roles, WaitingIsBlocked, AdmittedIsNew, ClearedHasEnded,
       ReturningIsSuspReady, Returning, OffIsIdle
-----------------------------------------------------------------------------
(* What Memory has of each process, by its state and by where the planners *)
(* are with it.                                                            *)
Living == {"READY", "EXECUTING", "BLOCKED", "SUSPEND_BLOCKED", "SUSPREADY"}

LivingInMemory ==
    \A p \in Procs : estado[p] \in Living => place[p] # "absent"

AdmittedInMemory == plp = "admit" => place[plpPid] # "absent"

BackInFrames ==
    pmp \in {"back", "capacityDirect", "direct", "takenOut"}
    => place[pmpPid] = "frames"

(* Only a process that Memory is moving to SWAP has pages without frames,  *)
(* and it has not ended.                                                   *)
CopiedIsMoving ==
    \A p \in Procs : place[p] = "copied" => pmp = "moving" /\ p = pmpPid
MovingIsLiving == pmp \in {"swapIn", "moving"} => estado[pmpPid] \in Living

Holdings ==
    /\ LivingInMemory /\ AdmittedInMemory /\ BackInFrames
    /\ CopiedIsMoving /\ MovingIsLiving /\ EndedHoldsNoMemory

(* No process ends while Memory moves it to SWAP, and the swap file takes  *)
(* what is written: no frame is released twice.                            *)
Circumstances == ~Overlap /\ WriteOutcomes \subseteq {TRUE}

(* The requests that change what Memory has.                               *)
LEMMA WhoMovesMemory ==
    ASSUME Next
    PROVE  RemoveSwap \/ PutSwap \/ RecordSwap \/ ClearMemory \/ ReserveMemory
           \/ UNCHANGED place
BY DEF Next, InitProcess, Execute, Finish, Block, Withdraw, SuspendOut,
       SuspendIn, IoEnds, Return, FindSuspended, Unflag, ToReady,
       ToSuspReady, DumpAnswers, DumpLooks, DumpFails, Pmp, PmpWake,
       PmpChoose, IsProcessInSwap, PmpCapacity, TakeOut, Desuspend, PmpEnds,
       PmpMark, EndSwap, Plp, PlpWake, PlpExit, PlpYield, PlpNew,
       PlpCapacity, Admit, StartScheduler

(* Memory forgets only the process that FinishProcess is clearing, and     *)
(* takes in only the one that the PLP is loading.                          *)
LEMMA PlaceOnly ==
    ASSUME TypeOK, LivingInMemory, MovingIsLiving, Next, NEW q \in Procs
    PROVE  /\ place[q] # "absent" /\ place'[q] = "absent"
              => plp = "clear" /\ q = plpPid
           /\ place[q] = "absent" /\ place'[q] # "absent"
              => plp = "load" /\ q = plpPid
           /\ place[q] = "frames" /\ place'[q] # "frames"
              => PutSwap \/ RecordSwap \/ (plp = "clear" /\ q = plpPid)
<1>1. /\ RemoveSwap => place[pmpPid] = "swap" \/ UNCHANGED place
      /\ RemoveSwap => \A p \in Procs \ {pmpPid} : place'[p] = place[p]
      /\ RemoveSwap => pmpPid \in Procs /\ place'[pmpPid] \in {"frames", place[pmpPid]}
    BY DEF RemoveSwap, TypeOK, PmpIdle
<1>2. /\ PutSwap => place[pmpPid] # "absent" \/ UNCHANGED place
      /\ PutSwap => \A p \in Procs \ {pmpPid} : place'[p] = place[p]
      /\ PutSwap => pmpPid \in Procs /\ place'[pmpPid] \in {"copied", place[pmpPid]}
    BY DEF PutSwap, TypeOK, PmpIdle
<1>2a. /\ RecordSwap => pmpPid \in Procs /\ place[pmpPid] # "absent"
       /\ RecordSwap => \A p \in Procs \ {pmpPid} : place'[p] = place[p]
       /\ RecordSwap => place'[pmpPid] \in {"swap", place[pmpPid]}
    BY DEF RecordSwap, TypeOK, PmpIdle, LivingInMemory, MovingIsLiving
<1>3. /\ ClearMemory => plp = "clear"
      /\ ClearMemory => \A p \in Procs \ {plpPid} : place'[p] = place[p]
      /\ ClearMemory => place'[plpPid] = "absent" /\ plpPid \in Procs
    BY DEF ClearMemory, TypeOK, PlpIdle
<1>4. /\ ReserveMemory => plp = "load"
      /\ ReserveMemory => \A p \in Procs \ {plpPid} : place'[p] = place[p]
      /\ ReserveMemory => plpPid \in Procs /\ place'[plpPid] \in {"frames", place[plpPid]}
    BY DEF ReserveMemory, TypeOK, PlpIdle
<1>5. RemoveSwap \/ PutSwap \/ RecordSwap \/ ClearMemory \/ ReserveMemory
      \/ UNCHANGED place
    BY WhoMovesMemory
<1> QED BY <1>1, <1>2, <1>2a, <1>3, <1>4, <1>5

(* A step is a transition, leaves the states and the queues alone, or is   *)
(* one of the two that change only one of them.                            *)
LEMMA MoveOrNot ==
    ASSUME TypeOK, Next
    PROVE  \/ \E p \in Procs, s \in Estados : Move(p, s)
           \/ UNCHANGED <<estado, queue>>
           \/ \E p \in Procs : SuspendOut(p) /\ UNCHANGED queue
           \/ PlpExit /\ queue["EXIT"] # <<>> /\ UNCHANGED estado
           \/ TakeOut /\ UNCHANGED estado
<1>1. /\ \A p \in Procs :
            InitProcess(p) \/ Execute(p) \/ Finish(p) \/ Block(p) \/ Withdraw(p)
            \/ ToReady(p) \/ ToSuspReady(p) \/ DumpFails(p)
            => (\E s \in Estados : Move(p, s)) \/ UNCHANGED <<estado, queue>>
      /\ Desuspend \/ PmpEnds
            => pmpPid \in Procs /\ \E s \in Estados : Move(pmpPid, s)
      /\ Admit => plpPid \in Procs /\ \E s \in Estados : Move(plpPid, s)
    BY DEF InitProcess, Execute, Finish, Block, Withdraw, ToReady, ToSuspReady,
           DumpFails, Desuspend, PmpEnds, Admit, Estados, Ordered, Unordered,
           TypeOK, PmpIdle, PlpIdle, stateVars
<1>2. /\ \A p \in Procs :
            SuspendIn(p) \/ IoEnds(p) \/ FindSuspended(p) \/ Unflag(p)
            \/ DumpAnswers(p) \/ DumpLooks(p) => UNCHANGED <<estado, queue>>
      /\ StartScheduler \/ PmpWake \/ PmpChoose \/ IsProcessInSwap
         \/ PmpCapacity \/ RemoveSwap \/ PmpMark \/ PutSwap
         \/ RecordSwap \/ EndSwap \/ PlpWake
         \/ (PlpExit /\ queue["EXIT"] = <<>>) \/ ClearMemory \/ PlpYield
         \/ PlpNew \/ PlpCapacity \/ ReserveMemory
         => UNCHANGED <<estado, queue>>
    BY DEF SuspendIn, IoEnds, FindSuspended, Unflag, DumpAnswers, DumpLooks,
           StartScheduler, PmpWake, PmpChoose, IsProcessInSwap, PmpCapacity,
           RemoveSwap, TakeOut, PmpMark, PutSwap, RecordSwap, EndSwap, PlpWake, PlpExit,
           ClearMemory, PlpYield, PlpNew, PlpCapacity, ReserveMemory, stateVars
<1>3. /\ \A p \in Procs : SuspendOut(p) => UNCHANGED queue
      /\ PlpExit \/ TakeOut => UNCHANGED estado
    BY DEF SuspendOut, PlpExit, TakeOut
<1> QED BY <1>1, <1>2, <1>3 DEF Next, Pmp, Plp, Return

(* A process that becomes EXIT is in QueueExit, and leaves it only into    *)
(* the hands of FinishProcess.                                             *)
LEMMA EntersExit ==
    ASSUME TypeOK, Places, Roles, Next, NEW q \in Procs,
           estado'[q] = "EXIT", ~InQueue(q, "EXIT")'
    PROVE  estado[q] = "EXIT"
<1>1. CASE UNCHANGED estado
    BY <1>1
<1>2. ASSUME NEW p \in Procs, NEW s \in Estados, Move(p, s)
      PROVE  estado[q] = "EXIT"
    <2>1. InQueue(q, "EXIT")' <=> IF q = p THEN "EXIT" = s ELSE InQueue(q, "EXIT")
        BY <1>2, MovePlaces DEF Places, Estados, Ordered
    <2>2. estado'[q] = IF q = p THEN s ELSE estado[q]
        BY <1>2, MoveEstado
    <2> QED BY <2>1, <2>2
<1>3. CASE \E p \in Procs : SuspendOut(p)
    BY <1>3 DEF SuspendOut, TypeOK
<1> QED BY <1>1, <1>2, <1>3, MoveOrNot

LEMMA LeavesExit ==
    ASSUME TypeOK, Places, Roles, Next, NEW q \in Procs,
           InQueue(q, "EXIT"), ~InQueue(q, "EXIT")', estado'[q] = "EXIT"
    PROVE  plp' = "clear" /\ plpPid' = q
<1>0. "EXIT" \in Ordered /\ "EXIT" \in Estados
    BY DEF Ordered, Estados
<1>1. CASE PlpExit /\ queue["EXIT"] # <<>>
    <2>1. queue["EXIT"] \in Seq(Procs) /\ IsInjective(queue["EXIT"])
        BY <1>0 DEF TypeOK, Places, OnePlace
    <2>2. queue'["EXIT"] = Tail(queue["EXIT"]) /\ plp' = "clear"
          /\ plpPid' = Head(queue["EXIT"])
        BY <1>0, <1>1 DEF PlpExit, TypeOK
    <2> QED BY <1>0, <1>1, <2>1, <2>2, TailKeeps DEF InQueue
<1>2. CASE UNCHANGED queue
    BY <1>0, <1>2 DEF InQueue
<1>3. ASSUME NEW p \in Procs, NEW s \in Estados, Move(p, s) PROVE FALSE
    <2>1. InQueue(q, "EXIT")' <=> IF q = p THEN "EXIT" = s ELSE InQueue(q, "EXIT")
        BY <1>0, <1>3, MovePlaces DEF Places
    <2>2. estado'[q] = IF q = p THEN s ELSE estado[q]
        BY <1>3, MoveEstado
    <2> QED BY <2>1, <2>2
<1>4. CASE TakeOut
    BY <1>0, <1>4 DEF TakeOut, InQueue, TypeOK
<1> QED BY <1>1, <1>2, <1>3, <1>4, MoveOrNot

LEMMA HoldingsStep ==
    ASSUME Circumstances, TypeOK, Places, Roles, Holdings, [Next]_vars
    PROVE  Holdings'
<1>1. CASE UNCHANGED vars
    BY <1>1 DEF Holdings, LivingInMemory, AdmittedInMemory, BackInFrames,
           CopiedIsMoving, MovingIsLiving, EndedHoldsNoMemory, InQueue, vars,
           stateVars, pmpVars, plpVars
<1>2. CASE Next
    <2>0. TypeOK' /\ Places' /\ Roles' /\ \A q \in Procs : Moved(q)
        BY <1>2, TypeStep, PlacesStep, RolesStep, MovedOnly
    <2>0a. LivingInMemory /\ MovingIsLiving
        BY DEF Holdings
    <2>1. LivingInMemory'
        <3>1. ASSUME NEW q \in Procs, estado'[q] \in Living
              PROVE  place'[q] # "absent"
            <4>1. estado[q] \in Living \/ (plp = "admit" /\ q = plpPid)
                BY <2>0, <3>1 DEF Moved, Living, Admit
            <4>2. place[q] # "absent"
                BY <4>1 DEF Holdings, LivingInMemory, AdmittedInMemory
            <4>3. ~(plp = "clear" /\ q = plpPid)
                BY <4>1 DEF Roles, ClearedHasEnded, Living
            <4> QED BY <1>2, <4>2, <4>3, PlaceOnly, <2>0a
        <3> QED BY <3>1 DEF LivingInMemory
    <2>2. AdmittedInMemory'
        <3>1. ASSUME plp' = "admit" PROVE place'[plpPid'] # "absent"
            <4>1. plpPid' \in Procs
                BY <2>0, <3>1 DEF TypeOK, PlpIdle
            <4>2. CASE ReserveMemory
                BY <3>1, <4>1, <4>2
                DEF ReserveMemory, PlpGoto, PlpIdle, PlpNext, TypeOK
            <4>3. CASE ~ReserveMemory
                <5>1. plp = "admit" /\ plpPid' = plpPid
                    BY <1>2, <3>1, <4>3, PlpUnchanged
                    DEF Plp, PlpWake, PlpExit, ClearMemory, PlpYield, PlpNew,
                        PlpCapacity, Admit, StartScheduler, PlpGoto, PlpNext,
                        plpVars
                <5> QED BY <1>2, <4>1, <5>1, PlaceOnly, <2>0a
                    DEF Holdings, AdmittedInMemory
            <4> QED BY <4>2, <4>3
        <3> QED BY <3>1 DEF AdmittedInMemory
    <2>3. BackInFrames'
        <3> DEFINE stages == {"back", "capacityDirect", "direct", "takenOut"}
        <3>1. ASSUME pmp' \in stages PROVE place'[pmpPid'] = "frames"
            <4>1. pmp \in Returning /\ pmpPid' = pmpPid /\ pmpPid \in Procs
                <5>1. pmp' \in Returning /\ pmp' # "inSwap"
                    BY <3>1 DEF Returning
                <5>2. pmp \in Returning /\ pmpPid' = pmpPid
                    BY <1>2, <5>1, PmpOnly
                <5> QED BY <5>2 DEF TypeOK, Returning, PmpIdle
            <4>2. estado[pmpPid] = "SUSPREADY" /\ place[pmpPid] # "absent"
                BY <4>1 DEF Roles, ReturningIsSuspReady, Holdings,
                            LivingInMemory, Living
            <4>3. CASE RemoveSwap
                BY <3>1, <4>1, <4>3 DEF RemoveSwap, PmpGoto, TypeOK
            <4>4. CASE ~RemoveSwap
                <5>0. ~PutSwap /\ ~RecordSwap
                    BY <3>1 DEF PutSwap, RecordSwap, PmpGoto
                <5>1. place[pmpPid] = "frames"
                    <6>1. CASE IsProcessInSwap
                        BY <3>1, <4>2, <6>1, <4>1
                        DEF IsProcessInSwap, PmpGoto, TypeOK, Holdings,
                            CopiedIsMoving
                    <6>2. CASE PmpCapacity \/ TakeOut
                        BY <3>1, <6>2 DEF PmpCapacity, TakeOut, PmpGoto, Holdings,
                                          BackInFrames
                    <6>3. CASE UNCHANGED pmpVars
                        BY <3>1, <6>3 DEF pmpVars, Holdings, BackInFrames
                    <6>4. CASE PmpWake \/ PmpChoose \/ Desuspend \/ PmpEnds
                               \/ PmpMark \/ EndSwap
                        BY <3>1, <6>4
                        DEF PmpWake, PmpChoose, Desuspend, PmpEnds, PmpMark,
                            EndSwap, PmpGoto
                    <6>5. ~Pmp => UNCHANGED pmpVars
                        BY <1>2, PmpUnchanged
                    <6> QED BY <4>4, <5>0, <6>1, <6>2, <6>3, <6>4, <6>5 DEF Pmp
                <5>2. ~(plp = "clear" /\ pmpPid = plpPid)
                    BY <4>2 DEF Roles, ClearedHasEnded
                <5> QED BY <1>2, <4>1, <5>0, <5>1, <5>2, PlaceOnly, <2>0a
            <4> QED BY <4>3, <4>4
        <3> QED BY <3>1 DEF BackInFrames
    <2>4. EndedHoldsNoMemory'
        <3>1. ASSUME NEW q \in Procs, estado'[q] = "EXIT",
                     ~InQueue(q, "EXIT")', ~(plp' = "clear" /\ plpPid' = q)
              PROVE  place'[q] = "absent"
            <4>1. estado[q] = "EXIT"
                BY <1>2, <3>1, EntersExit
            <4>2. CASE InQueue(q, "EXIT")
                BY <1>2, <3>1, <4>2, LeavesExit
            <4>3. CASE plp = "clear" /\ plpPid = q
                BY <1>2, <3>1, <4>3, PlpUnchanged
                DEF Plp, PlpWake, PlpExit, ClearMemory, PlpYield, PlpNew,
                    PlpCapacity, ReserveMemory, Admit, StartScheduler, plpVars,
                    TypeOK
            <4>4. CASE ~InQueue(q, "EXIT") /\ ~(plp = "clear" /\ plpPid = q)
                <5>1. place[q] = "absent"
                    BY <4>1, <4>4 DEF Holdings, EndedHoldsNoMemory
                <5>2. ~(plp = "load" /\ q = plpPid)
                    BY <4>1 DEF Roles, AdmittedIsNew
                <5> QED BY <1>2, <5>1, <5>2, PlaceOnly, <2>0a
            <4> QED BY <4>2, <4>3, <4>4
        <3> QED BY <3>1 DEF EndedHoldsNoMemory
    <2>5. CopiedIsMoving'
        <3>1. CASE PutSwap
            <4>1. (pmpPid \in Procs /\ pmpPid' = pmpPid) \/ UNCHANGED place
                BY <3>1 DEF PutSwap, PmpGoto, PmpIdle, TypeOK
            <4> QED BY <3>1, <4>1
                DEF PutSwap, PmpGoto, PmpIdle, TypeOK, Holdings, CopiedIsMoving
        <3>2. CASE RecordSwap
            <4>1. place' = [place EXCEPT ![pmpPid] = "swap"] /\ pmp = "moving"
                BY <3>2 DEF RecordSwap, Circumstances
            <4> QED BY <4>1 DEF TypeOK, Holdings, CopiedIsMoving
        <3>3. CASE ~PutSwap /\ ~RecordSwap
            <4>1. \A q \in Procs : place'[q] = "copied" => place[q] = "copied"
                <5>1. RemoveSwap \/ ClearMemory \/ ReserveMemory \/ UNCHANGED place
                    BY <1>2, <3>3, WhoMovesMemory
                <5> QED BY <5>1 DEF RemoveSwap, ClearMemory, ReserveMemory, TypeOK
            <4>2. pmp = "moving" => UNCHANGED pmpVars
                <5>1. pmp = "moving" => ~Pmp
                    BY <3>3 DEF Pmp, PmpWake, PmpChoose, IsProcessInSwap,
                       PmpCapacity, RemoveSwap, TakeOut, Desuspend, PmpEnds,
                       PmpMark, EndSwap
                <5> QED BY <1>2, <5>1, PmpUnchanged
            <4> QED BY <4>1, <4>2 DEF Holdings, CopiedIsMoving, pmpVars
        <3> QED BY <3>1, <3>2, <3>3
    <2>6. MovingIsLiving'
        <3>1. ASSUME pmp' \in {"swapIn", "moving"}
              PROVE  estado'[pmpPid'] \in Living
            <4>1. CASE PmpMark
                <5>1. pmpPid' \in pool["SUSPEND_BLOCKED"] /\ UNCHANGED estado
                    BY <3>1, <4>1 DEF PmpMark, PmpGoto, Unmarked, stateVars
                <5>2. pmpPid' \in Procs /\ estado[pmpPid'] = "SUSPEND_BLOCKED"
                    BY <5>1 DEF TypeOK, Places, OnePlace, InQueue, Estados,
                                Ordered, Unordered
                <5> QED BY <5>1, <5>2 DEF Living
            <4>2. CASE ~PmpMark
                <5>1. pmp \in {"swapIn", "moving"} /\ pmpPid' = pmpPid
                    <6>1. CASE Pmp
                        BY <3>1, <4>2, <6>1
                        DEF Pmp, PmpWake, PmpChoose, IsProcessInSwap,
                            PmpCapacity, RemoveSwap, TakeOut, Desuspend,
                            PmpEnds, PutSwap, RecordSwap, EndSwap, PmpGoto,
                            PmpIdle
                    <6>2. CASE ~Pmp
                        BY <1>2, <3>1, <6>2, PmpUnchanged DEF pmpVars
                    <6> QED BY <6>1, <6>2
                <5>2. pmpPid \in Procs /\ estado[pmpPid] \in Living
                    BY <2>0a, <5>1 DEF MovingIsLiving, TypeOK, PmpIdle
                <5>3. ~MayEnd(pmpPid) /\ ~PmpEnds
                    BY <5>1 DEF MayEnd, Circumstances, PmpEnds
                <5> QED BY <2>0, <5>1, <5>2, <5>3 DEF Moved, Living
            <4> QED BY <4>1, <4>2
        <3> QED BY <3>1 DEF MovingIsLiving
    <2> QED BY <2>1, <2>2, <2>3, <2>4, <2>5, <2>6 DEF Holdings
<1> QED BY <1>1, <1>2

LEMMA InitHoldings == Init => Holdings
BY DEF Init, Holdings, LivingInMemory, Living, AdmittedInMemory, BackInFrames,
       CopiedIsMoving, MovingIsLiving, EndedHoldsNoMemory

Inv == TypeOK /\ Places /\ Roles

(* The inductive invariant of the planners: each process is in its queue,  *)
(* and each planner works on a process of the state it expects.            *)
THEOREM Invariance == Spec => []Inv
<1>1. Init => Inv
    BY InitTypes, InitPlaces, InitRoles DEF Inv
<1>2. Inv /\ [Next]_vars => Inv'
    BY TypeStep, PlacesStep, RolesStep DEF Inv
<1> QED BY <1>1, <1>2, PTL DEF Spec

(* Memory has what the states say, provided that no process ends while it  *)
(* is moved to SWAP and the swap file takes what is written.               *)
THEOREM HoldingsAlways ==
    ASSUME Circumstances
    PROVE  Spec => []Holdings
<1>1. Init => Holdings
    BY InitHoldings
<1>2. Inv /\ Holdings /\ [Next]_vars => Holdings'
    BY HoldingsStep DEF Inv
<1> QED BY <1>1, <1>2, Invariance, PTL DEF Spec

(* Once FinishProcess is done with a process, Memory has nothing of it,    *)
(* provided that it did not end while Memory was moving it to SWAP.        *)
THEOREM NothingIsLeftBehind ==
    ASSUME Circumstances
    PROVE  Spec => []EndedHoldsNoMemory
<1>1. Holdings => EndedHoldsNoMemory
    BY DEF Holdings
<1> QED BY <1>1, HoldingsAlways, PTL

(* A process leaves SUSPREADY for READY only with its memory in frames,    *)
(* under the same provisions.                                              *)
THEOREM ReturnsInFrames ==
    ASSUME Circumstances
    PROVE  Spec => BackInMemory
<1>1. Inv /\ Holdings /\ [Next]_vars =>
         [\A p \in Procs : estado[p] = "SUSPREADY" /\ estado'[p] = "READY"
                            => place[p] = "frames"]_vars
    <2> SUFFICES ASSUME Inv, Holdings, Next, NEW p \in Procs,
                        estado[p] = "SUSPREADY", estado'[p] = "READY"
                 PROVE  place[p] = "frames"
        OBVIOUS
    <2>1. Moved(p)
        BY MovedOnly DEF Inv
    <2>2. Desuspend /\ p = pmpPid
        BY <2>1 DEF Moved
    <2> QED BY <2>2 DEF Desuspend, Holdings, BackInFrames
<1> QED BY <1>1, Invariance, HoldingsAlways, PTL DEF Spec, BackInMemory
-----------------------------------------------------------------------------
(* While a process is in QueueExit the PLP has a token or has not yet      *)
(* looked at the queue for the last time.                                  *)
ExitHasServer ==
    queue["EXIT"] # <<>> => notifyLong \/ plp \in {"exit", "clear"}

LEMMA ExitFills ==
    ASSUME Inv, Next, queue["EXIT"] = <<>>, queue'["EXIT"] # <<>>
    PROVE  notifyLong'
<1>0. TypeOK /\ Places /\ Roles /\ OnePlace /\ TypeOK'
    BY TypeStep DEF Inv, Places
<1>1. CASE plp = "off"
    BY <1>0, <1>1, OffMeansStart DEF StartScheduler, stateVars
<1>2. CASE plp # "off"
    <2> USE DEF StartLongTermScheduler
    <2>1. ASSUME NEW p \in Procs,
                 Finish(p) \/ Withdraw(p) \/ DumpFails(p) \/ PmpEnds
          PROVE  notifyLong' \/ UNCHANGED queue
        BY <1>2, <2>1 DEF Finish, Withdraw, DumpFails, PmpEnds, stateVars
    <2>2. ASSUME NEW p \in Procs, NEW s \in Estados \ {"EXIT"}, Move(p, s)
          PROVE  FALSE
        BY <1>0, <2>2, MoveKeepsExitEmpty DEF TypeOK
    <2>3. \A p \in Procs :
             InitProcess(p) \/ Execute(p) \/ Block(p) \/ ToReady(p)
             \/ ToSuspReady(p) => \E s \in Estados \ {"EXIT"} : Move(p, s)
        BY DEF InitProcess, Execute, Block, ToReady, ToSuspReady, Estados,
               Ordered, Unordered
    <2>4. /\ Desuspend =>
                pmpPid \in Procs /\ \E s \in Estados \ {"EXIT"} : Move(pmpPid, s)
          /\ Admit =>
                plpPid \in Procs /\ \E s \in Estados \ {"EXIT"} : Move(plpPid, s)
        BY <1>0 DEF Desuspend, Admit, Estados, Unordered, TypeOK, PmpIdle,
                    PlpIdle
    <2>5. /\ \A p \in Procs :
                SuspendOut(p) \/ SuspendIn(p) \/ IoEnds(p) \/ FindSuspended(p)
                \/ Unflag(p) \/ DumpAnswers(p) \/ DumpLooks(p) => UNCHANGED queue
          /\ StartScheduler \/ PmpWake \/ PmpChoose \/ IsProcessInSwap
             \/ PmpCapacity \/ RemoveSwap \/ PmpMark \/ PutSwap
             \/ RecordSwap \/ EndSwap
             \/ PlpWake \/ (PlpExit /\ queue["EXIT"] = <<>>) \/ ClearMemory
             \/ PlpYield \/ PlpNew \/ PlpCapacity \/ ReserveMemory
             => UNCHANGED queue
        BY DEF SuspendOut, SuspendIn, IoEnds, FindSuspended, Unflag,
               DumpAnswers, DumpLooks, StartScheduler, PmpWake, PmpChoose,
               IsProcessInSwap, PmpCapacity, RemoveSwap, PmpMark, PutSwap,
               RecordSwap,
               EndSwap, PlpWake, PlpExit, ClearMemory, PlpYield, PlpNew,
               PlpCapacity, ReserveMemory, stateVars
    <2>6. CASE PmpEnds
        BY <1>2, <2>6 DEF PmpEnds
    <2>7. CASE TakeOut
        <3>1. queue'["EXIT"] = queue["EXIT"]
            BY <1>0, <2>7 DEF TakeOut, TypeOK, Ordered
        <3> QED BY <3>1
    <2> QED BY <2>1, <2>2, <2>3, <2>4, <2>5, <2>6, <2>7
        DEF Next, Pmp, Plp, Return
<1> QED BY <1>1, <1>2

(* Only the PLP takes its token, and then it looks at QueueExit; it goes   *)
(* on to the other queues when it finds QueueExit empty.                   *)
LEMMA ServerStays ==
    ASSUME Inv, Next, notifyLong \/ plp \in {"exit", "clear"},
           queue["EXIT"] # <<>>
    PROVE  notifyLong' \/ plp' \in {"exit", "clear"}
<1> USE DEF StartLongTermScheduler
<1>1. CASE PlpWake \/ PlpExit \/ ClearMemory
    BY <1>1 DEF PlpWake, PlpExit, ClearMemory, PlpGoto
<1>2. CASE PlpYield \/ PlpNew \/ PlpCapacity \/ ReserveMemory \/ Admit
    BY <1>2 DEF PlpYield, PlpNew, PlpCapacity, ReserveMemory, Admit
<1>3. CASE StartScheduler
    BY <1>3 DEF StartScheduler
<1>4. CASE ~Plp /\ ~StartScheduler
    <2>1. UNCHANGED plpVars
        BY <1>4, PlpUnchanged
    <2>2. notifyLong => notifyLong'
        BY <1>4 DEF Next, InitProcess, Execute, Finish, Block, Withdraw,
           SuspendOut, SuspendIn, IoEnds, Return, FindSuspended, Unflag,
           ToReady, ToSuspReady, DumpAnswers, DumpLooks, DumpFails, Pmp,
           PmpWake, PmpChoose, IsProcessInSwap, PmpCapacity, RemoveSwap,
           TakeOut, Desuspend, PmpEnds, PmpMark, PutSwap, RecordSwap,
           EndSwap
    <2> QED BY <2>1, <2>2 DEF plpVars
<1> QED BY <1>1, <1>2, <1>3, <1>4 DEF Plp

(* The planner's one-token channel drops notifications, yet no process     *)
(* that ended is forgotten in QueueExit.                                   *)
THEOREM EndedAreServed == Spec => []ExitIsServed
<1>1. Init => ExitHasServer
    BY DEF Init, ExitHasServer, Ordered
<1>2. Inv /\ ExitHasServer /\ [Next]_vars => ExitHasServer'
    <2>1. CASE Next
        BY <2>1, ExitFills, ServerStays DEF ExitHasServer
    <2>2. CASE UNCHANGED vars
        BY <2>2 DEF ExitHasServer, vars, stateVars, plpVars
    <2> QED BY <2>1, <2>2
<1>3. ExitHasServer => ExitIsServed
    BY DEF ExitHasServer, ExitIsServed
<1> QED BY <1>1, <1>2, <1>3, Invariance, PTL DEF Spec
-----------------------------------------------------------------------------
(* Memory counts its free frames again for every request that takes some:  *)
(* a step either takes none or takes those of one process that fits.       *)
TakenFits == IsFiniteSet(Taken) /\ Used <= Frames

LEMMA NoneTaken ==
    ASSUME TypeOK, TakenFits,
           \A p \in Procs : place'[p] = "frames" => place[p] = "frames"
    PROVE  TakenFits'
<1>1. Taken' \subseteq Taken
    BY DEF Taken
<1>2. IsFiniteSet(Taken') /\ Cardinality(Taken') <= Cardinality(Taken)
    BY <1>1, FS_Subset DEF TakenFits
<1>3. Cardinality(Taken') \in Nat /\ Cardinality(Taken) \in Nat
    BY <1>2, FS_CardinalityType DEF TakenFits
<1>4. Taken' = (Taken)' /\ Used' = Cardinality(Taken') /\ Frames' = Frames
    BY DEF Used
<1> QED BY <1>2, <1>3, <1>4, NeedAssumption DEF TakenFits, Used

LEMMA FittingTaken ==
    ASSUME TypeOK, TakenFits, NEW p \in Procs, Fits(p),
           place' = [place EXCEPT ![p] = "frames"]
    PROVE  TakenFits'
<1> DEFINE pages == {p} \X (1..Need[p])
<1>1. Need[p] \in Nat /\ Frames \in Nat
    BY NeedAssumption
<1>2. IsFiniteSet(pages) /\ Cardinality(pages) = Need[p]
    BY <1>1, PagesCount
<1>3. Taken' = Taken \union pages
    BY DEF Taken, TypeOK
<1> HIDE DEF pages
<1>4. /\ IsFiniteSet(Taken \union pages)
      /\ Cardinality(Taken \union pages) <= Cardinality(Taken) + Need[p]
    BY <1>2, UnionCount DEF TakenFits
<1>5. /\ Cardinality(Taken) \in Nat /\ Cardinality(Taken \union pages) \in Nat
      /\ Cardinality(Taken) + Need[p] <= Frames
    BY <1>4, FS_CardinalityType DEF TakenFits, Fits, Used
<1>6. Cardinality(Taken') <= Frames
    BY <1>1, <1>3, <1>4, <1>5
<1> QED BY <1>3, <1>4, <1>6 DEF TakenFits, Used

LEMMA TakenStep == TypeOK /\ TakenFits /\ [Next]_vars => TakenFits'
<1> SUFFICES ASSUME TypeOK, TakenFits, [Next]_vars PROVE TakenFits'
    OBVIOUS
<1>1. CASE UNCHANGED place
    BY <1>1, NoneTaken
<1>2. CASE RemoveSwap
    <2>1. CASE Fits(pmpPid) /\ place' = [place EXCEPT ![pmpPid] = "frames"]
        BY <1>2, <2>1, FittingTaken DEF RemoveSwap, TypeOK, PmpIdle
    <2> QED BY <1>1, <1>2, <2>1 DEF RemoveSwap
<1>3. CASE ReserveMemory
    <2>1. CASE plpPid \in Loadable /\ Fits(plpPid)
        BY <1>3, <2>1, FittingTaken DEF ReserveMemory, TypeOK, PlpIdle
    <2>2. CASE ~(plpPid \in Loadable /\ Fits(plpPid))
        BY <1>1, <1>3, <2>2 DEF ReserveMemory
    <2> QED BY <2>1, <2>2
<1>4. CASE PutSwap \/ RecordSwap \/ ClearMemory
    BY <1>4, NoneTaken DEF PutSwap, RecordSwap, ClearMemory, TypeOK
<1>5. CASE UNCHANGED vars
    BY <1>1, <1>5 DEF vars
<1> QED BY <1>1, <1>2, <1>3, <1>4, <1>5, WhoMovesMemory

(* Memory is never promised twice, to a process the PLP admits and to one  *)
(* the PMP brings back.  The step counts the frames as Memory does only    *)
(* while none is released twice, which the circumstances say.              *)
THEOREM MemorySuffices ==
    ASSUME Circumstances
    PROVE  Spec => []FramesSuffice
<1>1. Init => TakenFits
    <2> SUFFICES ASSUME Init PROVE TakenFits
        OBVIOUS
    <2>1. Taken = {}
        BY DEF Init, Taken
    <2> QED BY <2>1, FS_EmptySet, NeedAssumption DEF TakenFits, Used
<1>2. TakenFits => FramesSuffice
    BY DEF TakenFits, FramesSuffice
<1> QED BY <1>1, <1>2, TakenStep, TypeCorrect, PTL DEF Spec
=============================================================================
