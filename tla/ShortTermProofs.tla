------------------------- MODULE ShortTermProofs -------------------------
(***************************************************************************)
(* Theorems about ShortTerm, for every set of processes and CPUs, every    *)
(* script and each of the three algorithms.                                *)
(***************************************************************************)
EXTENDS ShortTerm, QueueLemmas, TLAPS

-----------------------------------------------------------------------------
(* FirstOf a nonempty set of positions is the smallest of them.            *)
LEMMA FirstOfIsFirst ==
    ASSUME NEW S \in SUBSET Nat, S # {}
    PROVE  FirstOf(S) \in S /\ \A j \in S : FirstOf(S) <= j
BY LeastNatural DEF FirstOf

(* What scheduleShortestJobFirst returns: a position of the queue, a fresh *)
(* process whenever there is one, else one with the shortest estimate.     *)
THEOREM ShortestJobFirstSelects ==
    ASSUME NEW q \in Seq(Procs), q # <<>>, NEW e \in [Procs -> Estimates]
    PROVE  LET i == ShortestJobFirst(q, e) IN
           /\ i \in DOMAIN q
           /\ Fresh(q, e) # {} => i \in Fresh(q, e)
           /\ Fresh(q, e) = {} => \A j \in DOMAIN q : e[q[i]] <= e[q[j]]
<1>1. /\ DOMAIN q \subseteq Nat /\ DOMAIN q # {}
      /\ \A k \in DOMAIN q : q[k] \in Procs /\ e[q[k]] \in Nat
    <2>1. DOMAIN q = 1..Len(q) /\ Len(q) \in Nat /\ Len(q) # 0
        OBVIOUS
    <2>2. \A k \in 1..Len(q) : q[k] \in Procs
        OBVIOUS
    <2>3. ASSUME NEW k \in 1..Len(q) PROVE e[q[k]] \in Nat
        <3>1. e[q[k]] \in Estimates
            BY <2>2
        <3> QED BY <3>1, EstimatesAssumption
    <2>4. 1..Len(q) \subseteq Nat /\ 1 \in 1..Len(q)
        BY <2>1
    <2> QED BY <2>1, <2>2, <2>3, <2>4
<1>2. Shortest(q, e) # {} /\ Shortest(q, e) \in SUBSET Nat
    <2> DEFINE values == {e[q[k]] : k \in DOMAIN q}
    <2>1. values # {} /\ values \in SUBSET Nat
        BY <1>1
    <2>2. PICK v \in values : \A w \in values : v <= w
        BY <2>1, LeastNatural
    <2> QED BY <1>1, <2>2 DEF Shortest
<1>3. /\ FirstOf(Shortest(q, e)) \in DOMAIN q
      /\ \A j \in DOMAIN q : e[q[FirstOf(Shortest(q, e))]] <= e[q[j]]
    BY <1>2, FirstOfIsFirst DEF Shortest
<1>4. CASE Fresh(q, e) = {}
    BY <1>3, <1>4 DEF ShortestJobFirst
<1>5. CASE Fresh(q, e) # {}
    <2>1. FirstOf(Fresh(q, e)) \in Fresh(q, e)
        BY <1>1, <1>5, FirstOfIsFirst DEF Fresh
    <2>2. CASE Aged(q, e) = {} \/ \E i \in Aged(q, e) : InitialEstimate > e[q[i]]
        BY <2>1, <2>2, <1>5 DEF ShortestJobFirst, Fresh
    <2>3. CASE ~(Aged(q, e) = {} \/ \E i \in Aged(q, e) : InitialEstimate > e[q[i]])
        <3>1. ShortestJobFirst(q, e) = FirstOf(Shortest(q, e))
            BY <2>3 DEF ShortestJobFirst
        <3>2. PICK f \in Fresh(q, e) : TRUE
            BY <1>5
        <3>3. e[q[FirstOf(Shortest(q, e))]] <= InitialEstimate
            BY <1>3, <3>2 DEF Fresh
        <3>4. FirstOf(Shortest(q, e)) \notin Aged(q, e)
            <4> SUFFICES ASSUME FirstOf(Shortest(q, e)) \in Aged(q, e)
                         PROVE  FALSE
                OBVIOUS
            <4>1. e[q[FirstOf(Shortest(q, e))]] # InitialEstimate
                BY DEF Aged, Fresh
            <4>2. e[q[FirstOf(Shortest(q, e))]] \in Nat
                BY <1>1, <1>3
            <4> QED BY <2>3, <3>3, <4>1, <4>2, EstimatesAssumption
        <3> QED BY <1>3, <1>5, <3>1, <3>4 DEF Aged
    <2> QED BY <2>2, <2>3
<1> QED BY <1>4, <1>5

(* The process chosen from the copy is one of those copied.                *)
LEMMA ChoiceIsCopied ==
    ASSUME TypeOK, pcp = "remove"
    PROVE  LET i == ShortestJobFirst(copied, est) IN
           i \in DOMAIN copied /\ copied[i] \in Procs
<1>1. ShortestJobFirst(copied, est) \in DOMAIN copied
    BY ShortestJobFirstSelects DEF TypeOK
<1> QED BY <1>1 DEF TypeOK
-----------------------------------------------------------------------------
(* What a transition leaves in QueueReady, in the table of states and in   *)
(* the count of notifications.                                             *)
LEMMA EnterTypes ==
    ASSUME TypeOK, NEW p \in Procs
    PROVE  /\ EnterReady(p) => /\ ready' \in Seq(Procs) /\ checks' \subseteq Procs
                               /\ estado' \in [Procs -> Estados]
           /\ \A s \in Estados : Enter(p, s) =>
                 estado' \in [Procs -> Estados] /\ UNCHANGED <<ready, checks>>
           /\ \A n \in {1, 2} : WillSignal(n) => signals' \in Nat
<1>1. EnterReady(p) => ready' \in Seq(Procs)
    BY DEF TypeOK, EnterReady
<1>2. EnterReady(p) => checks' \subseteq Procs
    BY DEF TypeOK, EnterReady
<1>3. EnterReady(p) => estado' \in [Procs -> Estados]
    BY DEF TypeOK, EnterReady, Estados
<1>4. \A s \in Estados : Enter(p, s) =>
         estado' \in [Procs -> Estados] /\ UNCHANGED <<ready, checks>>
    BY DEF TypeOK, Enter
<1>5. \A n \in {1, 2} : WillSignal(n) => signals' \in Nat
    BY MaxSignalsAssumption DEF TypeOK, WillSignal
<1> QED BY <1>1, <1>2, <1>3, <1>4, <1>5

(* Every variable keeps its type.                                          *)
LEMMA TypeStep == TypeOK /\ [Next]_vars => TypeOK'
<1> SUFFICES ASSUME TypeOK, [Next]_vars PROVE TypeOK'
    OBVIOUS
<1> USE DEF TypeOK, Stages, Holding, Estados, Codes, pcpVars, cpuMapVars,
            burstVars, cpuVars, srtVars
<1>1. CASE Pcp
    <2>1. CASE PcpWake
        BY <2>1 DEF PcpWake
    <2>2. CASE PcpSize
        BY <2>2 DEF PcpSize
    <2>3. CASE GetFirstFree
        BY <2>3 DEF GetFirstFree, FreeCpus
    <2>4. ASSUME NEW q \in Procs, Dispatch(q), pcp \in {"select", "remove"}
          PROVE  /\ stage' \in [Procs -> Stages]
                 /\ cpuOf' \in [Procs -> Cpus \union {NoCpu}]
                 /\ \A p \in Procs : stage'[p] \in Holding => cpuOf'[p] \in Cpus
        <3>1. pcpCpu \in Cpus
            BY <2>4
        <3> QED BY <2>4, <3>1 DEF Dispatch
    <2>5. CASE PcpSelect
        <3>1. CASE ready = <<>>
            BY <2>5, <3>1 DEF PcpSelect
        <3>2. CASE ready # <<>> /\ Algorithm = "FIFO"
            <4>1. Head(ready) \in Procs /\ Tail(ready) \in Seq(Procs)
                BY <3>2
            <4> QED BY <2>4, <2>5, <3>2, <4>1 DEF PcpSelect, Dispatch
        <3>3. CASE ready # <<>> /\ Algorithm # "FIFO"
            BY <2>5, <3>3 DEF PcpSelect
        <3> QED BY <3>1, <3>2, <3>3
    <2>6. CASE PcpRemove
        <3>1. PICK q \in Procs : Dispatch(q) /\ ready' = Without(ready, q)
            BY <2>6, ChoiceIsCopied DEF PcpRemove
        <3>2. ready' \in Seq(Procs)
            BY <3>1, RemoveFirstType DEF Without
        <3>3. /\ stage' \in [Procs -> Stages]
              /\ cpuOf' \in [Procs -> Cpus \union {NoCpu}]
              /\ \A p \in Procs : stage'[p] \in Holding => cpuOf'[p] \in Cpus
            BY <2>4, <2>6, <3>1 DEF PcpRemove
        <3>4. pcp' = "size" /\ pcpCpu' = NoCpu /\ copied' = <<>>
            BY <2>6, <3>1 DEF PcpRemove, Dispatch
        <3>5. UNCHANGED <<estado, pcPcb, est, signals, notify, cpuMapVars, burstVars,
                          cpuVars, srtVars>>
            BY <2>6 DEF PcpRemove
        <3>6. copied' \in Seq(Procs) /\ (pcp' = "remove" <=> copied' # <<>>)
            BY <3>4
        <3> QED BY <3>2, <3>3, <3>4, <3>5, <3>6
    <2> QED BY <1>1, <2>1, <2>2, <2>3, <2>5, <2>6 DEF Pcp
<1>2. CASE StartShortTermScheduler
    BY <1>2 DEF StartShortTermScheduler
<1>3. CASE Preemption
    <2>1. ASSUME NEW p \in Procs, CheckForPreemption(p) PROVE TypeOK'
        <3>1. interrupts' \subseteq (Procs \X Cpus)
            BY <2>1 DEF CheckForPreemption, Executing
        <3> QED BY <2>1, <3>1 DEF CheckForPreemption
    <2>2. ASSUME NEW v \in Procs, NEW c \in Cpus, DeliverInterrupt(v, c)
          PROVE  TypeOK'
        <3>1. pending' \in [Cpus -> BOOLEAN]
            BY <2>2 DEF DeliverInterrupt
        <3> QED BY <2>2, <3>1 DEF DeliverInterrupt
    <2> QED BY <1>3, <2>1, <2>2 DEF Preemption
<1>4. ASSUME NEW p \in Procs, Goroutine(p) PROVE TypeOK'
    <2>1. CASE AssignCpu(p)
        BY <2>1, ProcsAssumption DEF AssignCpu
    <2>2. CASE StartExecuting(p)
        BY <2>2 DEF StartExecuting, Enter
    <2>3. CASE SendFails(p) \/ CpuFetchFails(p)
        <3>1. stage' \in [Procs -> Stages] /\ code' \in [Procs -> Codes]
            BY <2>3 DEF SendFails, CpuFetchFails, FailRequest
        <3>2. cpuOf[p] \in Cpus
            BY <2>3 DEF SendFails, CpuFetchFails
        <3>3. \A q \in Procs : stage'[q] \in Holding => cpuOf[q] \in Cpus
            BY <2>3, <3>2 DEF SendFails, CpuFetchFails, FailRequest
        <3>4. UNCHANGED <<ready, estado, pcPcb, est, signals, pcpVars, cpuMapVars,
                          cpuOf, finished, blocked, cpuVars, srtVars>>
            BY <2>3 DEF SendFails, CpuFetchFails
        <3> QED BY <3>1, <3>3, <3>4
    <2>4. CASE CpuBegin(p)
        <3>1. p \in Int
            BY ProcsAssumption
        <3> QED BY <2>4, <3>1 DEF CpuBegin
    <2>5. CASE CpuTurn(p)
        <3> DEFINE n == Script[p][regPC[cpuOf[p]] + 1].next
                   k == Script[p][regPC[cpuOf[p]] + 1].kind
        <3>1. n \in Nat /\ cpuOf[p] \in Cpus
            <4>1. regPC[cpuOf[p]] \in Nat /\ regPC[cpuOf[p]] < Len(Script[p])
                BY <2>5 DEF CpuTurn
            <4>2. Script[p] \in Seq([kind : Kinds, next : Nat])
                BY ScriptAssumption
            <4>3. regPC[cpuOf[p]] + 1 \in 1..Len(Script[p])
                BY ONLY <4>1, <4>2
            <4>4. Script[p][regPC[cpuOf[p]] + 1] \in [kind : Kinds, next : Nat]
                BY <4>2, <4>3, ElementOfSeq
            <4> QED BY <2>5, <4>4 DEF CpuTurn
        <3>2. /\ regPC' = [regPC EXCEPT ![cpuOf[p]] = n]
              /\ blocked' = [blocked EXCEPT ![p] = k = "SYSCALL"]
              /\ \E b \in BOOLEAN : finished' = [finished EXCEPT ![p] = b]
              /\ UNCHANGED <<ready, estado, pcPcb, est, signals, pcpVars,
                             cpuMapVars, stage, cpuOf, code, intPid, pending,
                             srtVars>>
            BY <2>5 DEF CpuTurn
        <3> HIDE DEF n, k
        <3>3. regPC' \in [Cpus -> Nat]
            BY <3>1, <3>2
        <3>4. blocked' \in [Procs -> BOOLEAN] /\ finished' \in [Procs -> BOOLEAN]
            BY <3>2
        <3> QED BY <3>2, <3>3, <3>4
    <2>6. CASE CpuLeaveLoop(p)
        BY <2>6 DEF CpuLeaveLoop
    <2>7. CASE CpuTestInterrupt(p)
        BY <2>7 DEF CpuTestInterrupt
    <2>8. CASE CpuAnswer(p)
        <3>1. AnswerCode(p) \in Codes
            BY DEF AnswerCode
        <3> QED BY <2>8, <3>1 DEF CpuAnswer
    <2>9. CASE MarkAsFree(p)
        <3>1. SavedPC(p) \in Nat
            BY <2>9 DEF MarkAsFree, SavedPC
        <3>2. PICK e \in NewEstimates(p) : est' = [est EXCEPT ![p] = e]
            BY <2>9 DEF MarkAsFree
        <3>3. est' \in [Procs -> Estimates]
            BY <3>2 DEF NewEstimates
        <3>4. pcPcb' \in [Procs -> Nat] /\ cpuOf[p] \in Cpus
            BY <2>9, <3>1 DEF MarkAsFree
        <3>5. isFree' \in [Cpus -> BOOLEAN] /\ pidExecuting' \in [Cpus -> Nat]
            BY <2>9 DEF MarkAsFree, Freed, Unnamed
        <3> QED BY <2>9, <3>3, <3>4, <3>5 DEF MarkAsFree
    <2>10. CASE ApplyFinish(p) \/ ApplyReplan(p) \/ ApplySyscall(p)
        <3>1. /\ ready' \in Seq(Procs) /\ checks' \subseteq Procs
              /\ estado' \in [Procs -> Estados] /\ signals' \in Nat
            BY <2>10, EnterTypes DEF ApplyFinish, ApplyReplan, ApplySyscall
        <3>2. EndGoroutine(p)
            BY <2>10 DEF ApplyFinish, ApplyReplan, ApplySyscall
        <3> QED BY <3>1, <3>2 DEF EndGoroutine
    <2> QED BY <1>4, <2>1, <2>2, <2>3, <2>4, <2>5, <2>6, <2>7, <2>8, <2>9,
               <2>10 DEF Goroutine
<1>5. ASSUME NEW p \in Procs, Admit(p) \/ Unblock(p) PROVE TypeOK'
    <2>1. /\ ready' \in Seq(Procs) /\ checks' \subseteq Procs
          /\ estado' \in [Procs -> Estados] /\ signals' \in Nat
        BY <1>5, EnterTypes DEF Admit, Unblock
    <2> QED BY <1>5, <2>1 DEF Admit, Unblock
<1>6. ASSUME NEW c \in Cpus, ConnectCpu(c) \/ ServeCpu(c) PROVE TypeOK'
    BY <1>6 DEF ConnectCpu, ServeCpu
<1>7. CASE UNCHANGED vars
    BY <1>7 DEF vars
<1>8. ASSUME NEW p \in Procs, Withdraw(p) PROVE TypeOK'
    BY <1>8 DEF Withdraw, Enter, Estados
<1> QED BY <1>1, <1>2, <1>3, <1>4, <1>5, <1>6, <1>7, <1>8 DEF Next

LEMMA TypeInit == Init => TypeOK
<1> SUFFICES ASSUME Init PROVE TypeOK
    OBVIOUS
<1>1. ready \in Seq(Procs) /\ intPid \in [Cpus -> Int]
    BY DEF Init
<1>2. finished \in [Procs -> BOOLEAN] /\ blocked \in [Procs -> BOOLEAN]
    BY DEF Init
<1>3. isFree \in [Cpus -> BOOLEAN] /\ pending \in [Cpus -> BOOLEAN]
    BY DEF Init
<1>4. /\ estado \in [Procs -> Estados] /\ stage \in [Procs -> Stages]
      /\ code \in [Procs -> Codes] /\ cpuOf \in [Procs -> Cpus \union {NoCpu}]
    BY DEF Init, Estados, Stages, Codes
<1>6. copied \in Seq(Procs) /\ copied = <<>>
    BY DEF Init
<1>5. /\ pcPcb \in [Procs -> Nat] /\ regPC \in [Cpus -> Nat]
      /\ pidExecuting \in [Cpus -> Nat] /\ est \in [Procs -> Estimates]
    BY EstimatesAssumption DEF Init
<1> QED BY <1>1, <1>2, <1>3, <1>4, <1>5, <1>6 DEF Init, TypeOK, Holding

THEOREM TypeCorrect == Spec => []TypeOK
BY TypeInit, TypeStep, PTL DEF Spec
-----------------------------------------------------------------------------
(* What the planner does when it selects: it copies READY, gives the CPU   *)
(* back, or takes one process out of READY for a goroutine.                *)
Copies == pcp' = "remove" /\ copied' = ready /\ UNCHANGED <<ready, stage, cpuOf, isFree, pcpCpu>>

GivesBack ==
    /\ isFree' = [isFree EXCEPT ![pcpCpu] = TRUE]
    /\ pcpCpu' = NoCpu /\ pcp' = "size"
    /\ UNCHANGED <<ready, copied, stage, cpuOf>>

Takes(p) ==
    /\ InReady(p) /\ stage[p] = "none" /\ estado[p] = "READY"
    /\ IsInjective(ready')
    /\ \A q : Contains(ready', q) <=> Contains(ready, q) /\ q # p
    /\ stage' = [stage EXCEPT ![p] = "spawned"]
    /\ cpuOf' = [cpuOf EXCEPT ![p] = pcpCpu]
    /\ pcpCpu' = NoCpu /\ pcp' = "size" /\ copied' = <<>>
    /\ UNCHANGED isFree

Places == StageMatchesEstado /\ ReadyProcessHasOnePlace /\ CopyIsReady

LEMMA Selections ==
    ASSUME TypeOK, Places, PcpSelect \/ PcpRemove
    PROVE  Copies \/ GivesBack \/ \E p \in Procs : Takes(p)
<1>1. ASSUME NEW p \in Procs, InReady(p) PROVE stage[p] = "none" /\ estado[p] = "READY"
    <2>1. estado[p] = "READY" /\ ~AboutToRun(p)
        BY <1>1 DEF Places, ReadyProcessHasOnePlace
    <2> QED BY <2>1 DEF Places, StageMatchesEstado, AboutToRun
<1>2. CASE PcpSelect /\ ready = <<>>
    BY <1>2 DEF PcpSelect, GivesBack
<1>3. CASE PcpSelect /\ ready # <<>> /\ Algorithm # "FIFO"
    BY <1>3 DEF PcpSelect, Copies
<1>4. CASE PcpSelect /\ ready # <<>> /\ Algorithm = "FIFO"
    <2> DEFINE p == Head(ready)
    <2>1. /\ p \in Procs /\ Contains(ready, p) /\ IsInjective(Tail(ready))
          /\ \A q : Contains(Tail(ready), q) <=> Contains(ready, q) /\ q # p
        BY <1>4, TailKeeps DEF TypeOK, Places, ReadyProcessHasOnePlace
    <2>2. ready' = Tail(ready) /\ Dispatch(p) /\ UNCHANGED <<isFree, copied>>
        BY <1>4 DEF PcpSelect
    <2>3. copied = <<>>
        BY <1>4 DEF PcpSelect, TypeOK
    <2> HIDE DEF p
    <2>4. Takes(p)
        BY <1>1, <2>1, <2>2, <2>3 DEF Takes, Dispatch, InReady
    <2> QED BY <2>1, <2>4
<1>5. CASE PcpRemove
    <2> DEFINE i == ShortestJobFirst(copied, est)
    <2>1. i \in DOMAIN copied /\ copied[i] \in Procs
        BY <1>5, ChoiceIsCopied DEF PcpRemove
    <2>2. PICK p \in Procs : p = copied[i]
        BY <2>1
    <2>3. ready' = Without(ready, p) /\ Dispatch(p) /\ copied' = <<>> /\ UNCHANGED isFree
        BY <1>5, <2>2 DEF PcpRemove, cpuMapVars
    <2>4. InReady(p)
        BY <2>1, <2>2 DEF Places, CopyIsReady
    <2>5. /\ IsInjective(ready')
          /\ \A q : Contains(ready', q) <=> Contains(ready, q) /\ q # p
        BY <2>3, RemoveFirstKeeps DEF TypeOK, Places, ReadyProcessHasOnePlace, Without
    <2>6. Takes(p)
        BY <1>1, <2>3, <2>4, <2>5 DEF Takes, Dispatch
    <2> QED BY <2>6
<1> QED BY <1>2, <1>3, <1>4, <1>5

(* A process that is not READY and whose goroutine is over, or ends with   *)
(* the step, enters QueueReady once.                                       *)
LEMMA EnterReadyPlaces ==
    ASSUME TypeOK, StageMatchesEstado, ReadyProcessHasOnePlace,
           NEW p \in Procs, estado[p] # "READY", EnterReady(p),
           stage' = [stage EXCEPT ![p] = "none"]
    PROVE  StageMatchesEstado' /\ ReadyProcessHasOnePlace'
<1>1. ~Contains(ready, p) /\ ~AboutToRun(p)
    BY DEF ReadyProcessHasOnePlace, InReady
<1>2. /\ IsInjective(ready')
      /\ \A q : Contains(ready', q) <=> Contains(ready, q) \/ q = p
    BY <1>1, AppendKeeps DEF EnterReady, ReadyProcessHasOnePlace, TypeOK
<1>3. /\ estado'[p] = "READY" /\ stage'[p] = "none"
      /\ \A q \in Procs : q # p => estado'[q] = estado[q] /\ stage'[q] = stage[q]
    BY DEF EnterReady, TypeOK
<1>4. StageMatchesEstado'
    BY <1>3 DEF StageMatchesEstado, AboutToRun
<1> QED BY <1>2, <1>3, <1>4 DEF ReadyProcessHasOnePlace, InReady, AboutToRun

(* The state and the place of every process agree after each step.         *)
LEMMA PlacesStep ==
    TypeOK /\ Places /\ [Next]_vars => StageMatchesEstado' /\ ReadyProcessHasOnePlace'
<1> SUFFICES ASSUME TypeOK, StageMatchesEstado, ReadyProcessHasOnePlace,
                    CopyIsReady, [Next]_vars
             PROVE  StageMatchesEstado' /\ ReadyProcessHasOnePlace'
    BY DEF Places
<1> USE DEF pcpVars, cpuMapVars, burstVars, cpuVars, srtVars
<1> DEFINE Same == UNCHANGED <<ready, estado, stage>>
<1>0. Same => StageMatchesEstado' /\ ReadyProcessHasOnePlace'
    BY DEF StageMatchesEstado, ReadyProcessHasOnePlace, InReady, AboutToRun
<1>1. CASE PcpSelect \/ PcpRemove
    <2>1. UNCHANGED estado
        BY <1>1 DEF PcpSelect, PcpRemove
    <2>2. CASE Copies \/ GivesBack
        BY <2>1, <2>2, <1>0 DEF Copies, GivesBack
    <2>3. ASSUME NEW p \in Procs, Takes(p)
          PROVE  StageMatchesEstado' /\ ReadyProcessHasOnePlace'
        <3>1. /\ stage'[p] = "spawned"
              /\ \A q \in Procs : q # p => stage'[q] = stage[q]
            BY <2>3 DEF TypeOK, Takes
        <3>2. StageMatchesEstado'
            BY <2>1, <2>3, <3>1 DEF StageMatchesEstado, AboutToRun, Takes
        <3> QED BY <2>1, <2>3, <3>1, <3>2
                DEF ReadyProcessHasOnePlace, InReady, AboutToRun, Takes
    <2> QED BY <1>1, <2>2, <2>3, Selections DEF Places
<1>2. CASE PcpWake \/ PcpSize \/ GetFirstFree \/ StartShortTermScheduler
    BY <1>2, <1>0 DEF PcpWake, PcpSize, GetFirstFree, StartShortTermScheduler
<1>3. CASE Preemption
    BY <1>3, <1>0 DEF Preemption, CheckForPreemption, DeliverInterrupt
<1>4. ASSUME NEW p \in Procs, Goroutine(p)
      PROVE  StageMatchesEstado' /\ ReadyProcessHasOnePlace'
    <2>1. CASE AssignCpu(p)
        <3>1. /\ UNCHANGED <<ready, estado>>
              /\ \A q \in Procs : AboutToRun(q)' <=> AboutToRun(q)
              /\ \A q \in Procs : q # p => stage'[q] = stage[q]
              /\ AboutToRun(p) /\ AboutToRun(p)'
            BY <2>1 DEF AssignCpu, AboutToRun, TypeOK
        <3> QED BY <3>1 DEF StageMatchesEstado, ReadyProcessHasOnePlace, InReady,
                            AboutToRun
    <2>2. CASE StartExecuting(p)
        <3>1. /\ UNCHANGED ready
              /\ stage[p] = "assigned" /\ stage'[p] = "sent"
              /\ estado'[p] = "EXECUTING"
              /\ \A q \in Procs : q # p =>
                    stage'[q] = stage[q] /\ estado'[q] = estado[q]
            BY <2>2 DEF StartExecuting, Enter, TypeOK
        <3> QED BY <3>1 DEF StageMatchesEstado, ReadyProcessHasOnePlace, InReady,
                            AboutToRun
    <2>3. CASE \/ SendFails(p) \/ CpuBegin(p) \/ CpuTurn(p) \/ CpuFetchFails(p)
               \/ CpuLeaveLoop(p) \/ CpuTestInterrupt(p) \/ CpuAnswer(p)
               \/ MarkAsFree(p)
        <3>1. /\ UNCHANGED <<ready, estado>>
              /\ stage[p] \notin {"none", "spawned", "assigned"}
              /\ stage'[p] \notin {"none", "spawned", "assigned"}
              /\ \A q \in Procs : q # p => stage'[q] = stage[q]
            BY <2>3 DEF SendFails, CpuBegin, CpuTurn, CpuFetchFails, FailRequest,
                CpuLeaveLoop, CpuTestInterrupt, CpuAnswer, MarkAsFree, TypeOK
        <3> QED BY <3>1 DEF StageMatchesEstado, ReadyProcessHasOnePlace, InReady,
                            AboutToRun
    <2>4. CASE ApplyFinish(p) \/ ApplySyscall(p)
        <3>1. /\ UNCHANGED ready
              /\ stage[p] = "freed" /\ stage'[p] = "none"
              /\ estado'[p] \in {"EXIT", "BLOCKED"}
              /\ \A q \in Procs : q # p =>
                    stage'[q] = stage[q] /\ estado'[q] = estado[q]
            BY <2>4 DEF ApplyFinish, ApplySyscall, EndGoroutine, Enter, TypeOK
        <3> QED BY <3>1 DEF StageMatchesEstado, ReadyProcessHasOnePlace, InReady,
                            AboutToRun
    <2>5. CASE ApplyReplan(p)
        <3>1. estado[p] # "READY"
            BY <2>5 DEF ApplyReplan, EndGoroutine, StageMatchesEstado
        <3> QED BY <2>5, <3>1, EnterReadyPlaces DEF ApplyReplan, EndGoroutine
    <2> QED BY <1>4, <2>1, <2>2, <2>3, <2>4, <2>5 DEF Goroutine
<1>5. ASSUME NEW p \in Procs, Admit(p) \/ Unblock(p)
      PROVE  StageMatchesEstado' /\ ReadyProcessHasOnePlace'
    <2>1. estado[p] \in {"NEW", "BLOCKED"} /\ EnterReady(p) /\ UNCHANGED stage
        BY <1>5 DEF Admit, Unblock
    <2>2. stage[p] = "none"
        BY <2>1 DEF StageMatchesEstado, AboutToRun
    <2>3. stage' = [stage EXCEPT ![p] = "none"]
        BY <2>1, <2>2 DEF TypeOK
    <2> QED BY <2>1, <2>3, EnterReadyPlaces
<1>6. ASSUME NEW c \in Cpus, ConnectCpu(c) \/ ServeCpu(c)
      PROVE  StageMatchesEstado' /\ ReadyProcessHasOnePlace'
    BY <1>6, <1>0 DEF ConnectCpu, ServeCpu
<1>7. CASE UNCHANGED vars
    BY <1>7, <1>0 DEF vars
<1>8. ASSUME NEW p \in Procs, Withdraw(p)
      PROVE  StageMatchesEstado' /\ ReadyProcessHasOnePlace'
    <2>1. /\ UNCHANGED <<ready, stage>>
          /\ estado[p] = "BLOCKED" /\ estado'[p] = "EXIT"
          /\ \A q \in Procs : q # p => estado'[q] = estado[q]
        BY <1>8 DEF Withdraw, Enter, TypeOK
    <2> QED BY <2>1 DEF StageMatchesEstado, ReadyProcessHasOnePlace, InReady,
                        AboutToRun
<1> QED BY <1>1, <1>2, <1>3, <1>4, <1>5, <1>6, <1>7, <1>8 DEF Next, Pcp

(* Nobody but the planner takes a process out of READY.                    *)
LEMMA CopyStep == TypeOK /\ Places /\ [Next]_vars => CopyIsReady'
<1> SUFFICES ASSUME TypeOK, Places, [Next]_vars PROVE CopyIsReady'
    OBVIOUS
<1>0. CopyIsReady
    BY DEF Places
<1> USE DEF CopyIsReady, InReady
<1>1. CASE PcpSelect \/ PcpRemove
    <2>1. CASE Copies
        BY <2>1 DEF Copies, Contains
    <2>2. CASE GivesBack
        BY <1>0, <2>2 DEF GivesBack
    <2>3. CASE \E p \in Procs : Takes(p)
        <3>1. DOMAIN copied' = {}
            BY <2>3 DEF Takes
        <3> QED BY <3>1
    <2> QED BY <1>1, <2>1, <2>2, <2>3, Selections
<1>2. CASE UNCHANGED <<ready, copied>>
    BY <1>0, <1>2
<1>3. ASSUME NEW p \in Procs, EnterReady(p), UNCHANGED copied PROVE CopyIsReady'
    <2>1. \A i \in DOMAIN ready : i \in DOMAIN ready' /\ ready'[i] = ready[i]
        BY <1>3 DEF EnterReady, TypeOK
    <2>2. \A q : Contains(ready, q) => Contains(ready', q)
        BY <2>1 DEF Contains
    <2> QED BY <1>0, <1>3, <2>2
<1> USE DEF pcpVars
<1>4. CASE PcpWake \/ PcpSize \/ GetFirstFree \/ StartShortTermScheduler \/ Preemption
    BY <1>2, <1>4 DEF PcpWake, PcpSize, GetFirstFree, StartShortTermScheduler,
       Preemption, CheckForPreemption, DeliverInterrupt
<1>5. ASSUME NEW p \in Procs, Goroutine(p) PROVE CopyIsReady'
    <2>1. CASE ApplyReplan(p)
        BY <1>3, <2>1 DEF ApplyReplan, EndGoroutine
    <2>2. CASE ~ApplyReplan(p)
        <3>1. UNCHANGED <<ready, copied>>
            BY <1>5, <2>2 DEF Goroutine, AssignCpu, StartExecuting, SendFails, CpuBegin,
               CpuTurn, CpuFetchFails, CpuLeaveLoop, CpuTestInterrupt, CpuAnswer,
               MarkAsFree, ApplyFinish, ApplySyscall, EndGoroutine, Enter
        <3> QED BY <1>2, <3>1
    <2> QED BY <2>1, <2>2
<1>6. ASSUME NEW p \in Procs, Admit(p) \/ Unblock(p) PROVE CopyIsReady'
    BY <1>3, <1>6 DEF Admit, Unblock
<1>7. CASE \/ UNCHANGED vars \/ \E p \in Procs : Withdraw(p)
           \/ \E c \in Cpus : ConnectCpu(c) \/ ServeCpu(c)
    BY <1>2, <1>7 DEF vars, Withdraw, Enter, ConnectCpu, ServeCpu
<1> QED BY <1>1, <1>4, <1>5, <1>6, <1>7 DEF Next, Pcp

LEMMA PlacesInit == Init => Places
BY DEF Init, Places, StageMatchesEstado, ReadyProcessHasOnePlace, CopyIsReady,
       InReady, Contains, AboutToRun, IsInjective

(* No process is lost between READY, the planner and the goroutine that is *)
(* about to run it, and none is there twice.                               *)
THEOREM ReadyPlaces == Spec => [](StageMatchesEstado /\ ReadyProcessHasOnePlace)
<1>1. TypeOK /\ Places /\ [Next]_vars => Places'
    BY PlacesStep, CopyStep DEF Places
<1>2. Places => StageMatchesEstado /\ ReadyProcessHasOnePlace
    BY DEF Places
<1> QED BY <1>1, <1>2, PlacesInit, TypeCorrect, PTL DEF Spec
-----------------------------------------------------------------------------
Holds(p) == stage[p] \in Holding

HoldersUnchanged ==
    /\ UNCHANGED <<connected, isFree, pcpCpu>>
    /\ pcp' \in {"select", "remove"} => pcp \in {"select", "remove"}
    /\ \A p \in Procs : /\ Holds(p)' <=> Holds(p)
                        /\ Holds(p) => cpuOf'[p] = cpuOf[p]

(* The invariants about CPUs look at nothing but the table of CPUs, the    *)
(* planner's CPU and the CPUs of the goroutines that hold one.             *)
LEMMA CpuFrame ==
    ASSUME HeldCpusAreConnected, FreeMeansUnheld, OneProcessPerCpu,
           HoldersUnchanged
    PROVE  HeldCpusAreConnected' /\ FreeMeansUnheld' /\ OneProcessPerCpu'
<1>1. /\ UNCHANGED <<connected, isFree, pcpCpu>>
      /\ pcp' \in {"select", "remove"} => pcp \in {"select", "remove"}
    BY DEF HoldersUnchanged
<1>2. \A p \in Procs : /\ stage'[p] \in Holding <=> stage[p] \in Holding
                       /\ stage[p] \in Holding => cpuOf'[p] = cpuOf[p]
    BY DEF HoldersUnchanged, Holds
<1>3. HeldCpusAreConnected'
    BY <1>1, <1>2 DEF HeldCpusAreConnected
<1>4. OneProcessPerCpu'
    BY <1>2 DEF OneProcessPerCpu
<1>5. \A c : Holders(c)' = Holders(c)
    BY <1>2 DEF Holders
<1> QED BY <1>1, <1>3, <1>4, <1>5 DEF FreeMeansUnheld

LEMMA GetFirstFreeStep ==
    ASSUME TypeOK, HeldCpusAreConnected, FreeMeansUnheld, OneProcessPerCpu,
           GetFirstFree
    PROVE  HeldCpusAreConnected' /\ FreeMeansUnheld' /\ OneProcessPerCpu'
<1>1. CASE UNCHANGED <<pcpCpu, isFree>> /\ pcp' = "wait"
    <2>1. HoldersUnchanged
        BY <1>1 DEF GetFirstFree, Holds, HoldersUnchanged
    <2> QED BY <2>1, CpuFrame
<1>2. ASSUME NEW c \in FreeCpus, isFree' = [isFree EXCEPT ![c] = FALSE],
             pcpCpu' = c, pcp' = "select"
      PROVE  HeldCpusAreConnected' /\ FreeMeansUnheld' /\ OneProcessPerCpu'
    <2>1. c \in connected /\ isFree[c] /\ c \in Cpus
        BY DEF FreeCpus, TypeOK
    <2>2. pcpCpu = NoCpu /\ Holders(c) = {}
        BY <2>1 DEF GetFirstFree, TypeOK, FreeMeansUnheld
    <2>3. UNCHANGED <<connected, stage, cpuOf>>
        BY DEF GetFirstFree
    <2>4. HeldCpusAreConnected' /\ OneProcessPerCpu'
        BY <1>2, <2>1, <2>2, <2>3
           DEF HeldCpusAreConnected, OneProcessPerCpu, Holders
    <2>5. ASSUME NEW d \in connected
          PROVE  isFree'[d] <=> pcpCpu' # d /\ Holders(d)' = {}
        <3>1. Holders(d)' = Holders(d)
            BY <2>3 DEF Holders
        <3>2. CASE d = c
            BY <1>2, <2>1, <3>2 DEF TypeOK
        <3>3. CASE d # c
            <4>1. isFree'[d] = isFree[d]
                BY <1>2, <3>3 DEF TypeOK
            <4>2. pcpCpu # d
                BY <2>2, CpusAssumption DEF TypeOK
            <4> QED BY <1>2, <3>1, <3>3, <4>1, <4>2 DEF FreeMeansUnheld
        <3> QED BY <3>2, <3>3
    <2> QED BY <2>3, <2>4, <2>5 DEF FreeMeansUnheld
<1> QED BY <1>1, <1>2 DEF GetFirstFree

LEMMA PcpSelectStep ==
    ASSUME TypeOK, Places, HeldCpusAreConnected, FreeMeansUnheld,
           OneProcessPerCpu, PcpSelect \/ PcpRemove
    PROVE  HeldCpusAreConnected' /\ FreeMeansUnheld' /\ OneProcessPerCpu'
<1>1. /\ pcpCpu \in Cpus /\ pcpCpu \in connected /\ UNCHANGED connected
      /\ pcp \in {"select", "remove"}
    BY DEF PcpSelect, PcpRemove, TypeOK, HeldCpusAreConnected, cpuMapVars
<1>2. \A d \in connected : d # NoCpu /\ d \in Cpus
    BY CpusAssumption DEF TypeOK
<1>3. Holders(pcpCpu) = {} /\ ~isFree[pcpCpu]
    BY <1>1 DEF Holders, HeldCpusAreConnected, FreeMeansUnheld
<1>4. CASE GivesBack
    <2>1. /\ UNCHANGED <<stage, cpuOf>> /\ isFree' = [isFree EXCEPT ![pcpCpu] = TRUE]
          /\ pcpCpu' = NoCpu /\ pcp' = "size"
        BY <1>4 DEF GivesBack
    <2>2. HeldCpusAreConnected' /\ OneProcessPerCpu'
        BY <1>1, <1>2, <2>1 DEF HeldCpusAreConnected, OneProcessPerCpu
    <2>3. ASSUME NEW d \in connected
          PROVE  isFree'[d] <=> pcpCpu' # d /\ Holders(d)' = {}
        <3>1. Holders(d)' = Holders(d)
            BY <2>1 DEF Holders
        <3>2. CASE d = pcpCpu
            BY <1>1, <1>2, <1>3, <2>1, <3>1, <3>2 DEF TypeOK
        <3>3. CASE d # pcpCpu
            <4>1. isFree'[d] = isFree[d]
                BY <1>1, <2>1, <3>3 DEF TypeOK
            <4> QED BY <1>2, <2>1, <3>1, <3>3, <4>1 DEF FreeMeansUnheld
        <3> QED BY <3>2, <3>3
    <2> QED BY <1>1, <2>2, <2>3 DEF FreeMeansUnheld
<1>5. ASSUME NEW p \in Procs, Takes(p)
      PROVE  HeldCpusAreConnected' /\ FreeMeansUnheld' /\ OneProcessPerCpu'
    <2>1. ~Holds(p)
        BY <1>5 DEF Takes, Holds, Holding
    <2>2. /\ stage'[p] = "spawned" /\ cpuOf'[p] = pcpCpu
          /\ \A q \in Procs : q # p => stage'[q] = stage[q] /\ cpuOf'[q] = cpuOf[q]
          /\ UNCHANGED isFree /\ pcpCpu' = NoCpu /\ pcp' = "size"
        BY <1>5 DEF TypeOK, Takes
    <2>3. HeldCpusAreConnected' /\ OneProcessPerCpu'
        BY <1>1, <1>2, <2>2 DEF HeldCpusAreConnected, OneProcessPerCpu
    <2>4. ASSUME NEW d \in connected
          PROVE  isFree'[d] <=> pcpCpu' # d /\ Holders(d)' = {}
        <3>1. Holders(d)' = IF d = pcpCpu THEN Holders(d) \union {p} ELSE Holders(d)
            BY <2>1, <2>2 DEF Holders, Holds, Holding
        <3> QED BY <1>1, <1>2, <1>3, <2>2, <3>1 DEF FreeMeansUnheld
    <2> QED BY <1>1, <2>3, <2>4 DEF FreeMeansUnheld
<1>6. CASE Copies
    <2>1. HoldersUnchanged
        BY <1>1, <1>6 DEF Copies, HoldersUnchanged, Holds
    <2> QED BY <2>1, CpuFrame
<1> QED BY <1>4, <1>5, <1>6, Selections

LEMMA MarkAsFreeStep ==
    ASSUME TypeOK, HeldCpusAreConnected, FreeMeansUnheld, OneProcessPerCpu,
           NEW p \in Procs, MarkAsFree(p)
    PROVE  HeldCpusAreConnected' /\ FreeMeansUnheld' /\ OneProcessPerCpu'
<1>1. /\ Holds(p) /\ cpuOf[p] \in connected /\ cpuOf[p] \in Cpus
      /\ cpuOf[p] # pcpCpu
    BY DEF MarkAsFree, Holds, Holding, HeldCpusAreConnected, TypeOK
<1>2. /\ isFree' = [isFree EXCEPT ![cpuOf[p]] = TRUE]
      /\ UNCHANGED <<connected, pcp, pcpCpu, cpuOf>>
    BY DEF MarkAsFree, Freed, pcpVars
<1>3. ~Holds(p)' /\ \A q \in Procs : q # p => stage'[q] = stage[q]
    BY DEF MarkAsFree, TypeOK, Holds, Holding
<1>4. HeldCpusAreConnected' /\ OneProcessPerCpu'
    BY <1>2, <1>3 DEF HeldCpusAreConnected, OneProcessPerCpu, Holds
<1>5. ASSUME NEW d \in connected
      PROVE  isFree'[d] <=> pcpCpu' # d /\ Holders(d)' = {}
    <2>1. CASE d = cpuOf[p]
        <3>1. Holders(d)' = {}
            BY <1>1, <1>2, <1>3, <2>1 DEF Holders, OneProcessPerCpu, Holds
        <3> QED BY <1>1, <1>2, <2>1, <3>1 DEF TypeOK
    <2>2. CASE d # cpuOf[p]
        <3>1. Holders(d)' = Holders(d)
            BY <1>2, <1>3, <2>2 DEF Holders, Holds
        <3>2. isFree'[d] = isFree[d]
            BY <1>1, <1>2, <2>2 DEF TypeOK
        <3> QED BY <1>2, <3>1, <3>2 DEF FreeMeansUnheld
    <2> QED BY <2>1, <2>2
<1> QED BY <1>2, <1>4, <1>5 DEF FreeMeansUnheld

LEMMA ConnectCpuStep ==
    ASSUME TypeOK, HeldCpusAreConnected, FreeMeansUnheld, OneProcessPerCpu,
           NEW c \in Cpus, ConnectCpu(c)
    PROVE  HeldCpusAreConnected' /\ FreeMeansUnheld' /\ OneProcessPerCpu'
<1>1. /\ connected' = connected \union {c} /\ c \notin connected
      /\ isFree' = [isFree EXCEPT ![c] = TRUE]
      /\ UNCHANGED <<pcp, pcpCpu, stage, cpuOf>>
    BY DEF ConnectCpu, pcpVars
<1>2. HeldCpusAreConnected' /\ OneProcessPerCpu'
    BY <1>1 DEF HeldCpusAreConnected, OneProcessPerCpu
<1>3. \A d : Holders(d)' = Holders(d)
    BY <1>1 DEF Holders
<1>4. Holders(c) = {} /\ pcpCpu # c
    BY <1>1, CpusAssumption DEF Holders, HeldCpusAreConnected, TypeOK
<1>5. isFree'[c] /\ \A d \in connected : d # c /\ isFree'[d] = isFree[d]
    BY <1>1 DEF TypeOK
<1> QED BY <1>1, <1>2, <1>3, <1>4, <1>5 DEF FreeMeansUnheld

(* Every other step leaves the holders and their CPUs as they are.         *)
LEMMA HoldersKept ==
    ASSUME TypeOK, [Next]_vars, ~GetFirstFree, ~PcpSelect, ~PcpRemove,
           \A p \in Procs : ~MarkAsFree(p), \A c \in Cpus : ~ConnectCpu(c)
    PROVE  HoldersUnchanged
<1> USE DEF pcpVars, cpuMapVars, Holds, HoldersUnchanged
<1>1. CASE PcpWake \/ PcpSize \/ StartShortTermScheduler
    BY <1>1 DEF PcpWake, PcpSize, StartShortTermScheduler
<1>2. CASE Preemption
    BY <1>2 DEF Preemption, CheckForPreemption, DeliverInterrupt
<1>3. CASE UNCHANGED vars \/ \E c \in Cpus : ServeCpu(c)
    BY <1>3 DEF vars, ServeCpu
<1>4. ASSUME NEW p \in Procs, Admit(p) \/ Unblock(p) \/ Withdraw(p)
      PROVE  HoldersUnchanged
    BY <1>4 DEF Admit, Unblock, Withdraw
<1>5. ASSUME NEW p \in Procs, Goroutine(p)
      PROVE  HoldersUnchanged
    <2>1. CASE AssignCpu(p) \/ StartExecuting(p) \/ SendFails(p) \/ CpuBegin(p)
        BY <2>1 DEF AssignCpu, StartExecuting, SendFails, CpuBegin, FailRequest,
           Holding, TypeOK
    <2>2. CASE CpuTurn(p) \/ CpuFetchFails(p) \/ CpuLeaveLoop(p)
        BY <2>2 DEF CpuTurn, CpuFetchFails, CpuLeaveLoop, FailRequest, Holding,
           TypeOK
    <2>3. CASE CpuTestInterrupt(p) \/ CpuAnswer(p)
        BY <2>3 DEF CpuTestInterrupt, CpuAnswer, Holding, TypeOK
    <2>4. CASE ApplyFinish(p) \/ ApplyReplan(p) \/ ApplySyscall(p)
        <3>1. EndGoroutine(p)
            BY <2>4 DEF ApplyFinish, ApplyReplan, ApplySyscall
        <3>2. UNCHANGED <<connected, isFree, pcp, pcpCpu>>
            BY <3>1 DEF EndGoroutine
        <3>3. /\ stage[p] = "freed" /\ stage'[p] = "none"
              /\ \A q \in Procs : q # p =>
                    stage'[q] = stage[q] /\ cpuOf'[q] = cpuOf[q]
            BY <3>1 DEF EndGoroutine, TypeOK
        <3> QED BY <3>2, <3>3 DEF Holding
    <2> QED BY <1>5, <2>1, <2>2, <2>3, <2>4 DEF Goroutine
<1> QED BY <1>1, <1>2, <1>3, <1>4, <1>5 DEF Next, Pcp

LEMMA CpuStep ==
    TypeOK /\ Places /\ HeldCpusAreConnected /\ FreeMeansUnheld /\ OneProcessPerCpu /\ [Next]_vars
    => HeldCpusAreConnected' /\ FreeMeansUnheld' /\ OneProcessPerCpu'
<1> SUFFICES ASSUME TypeOK, Places, HeldCpusAreConnected, FreeMeansUnheld, OneProcessPerCpu,
                    [Next]_vars
             PROVE  HeldCpusAreConnected' /\ FreeMeansUnheld' /\ OneProcessPerCpu'
    OBVIOUS
<1>1. CASE GetFirstFree
    BY <1>1, GetFirstFreeStep
<1>2. CASE PcpSelect \/ PcpRemove
    BY <1>2, PcpSelectStep
<1>3. CASE \E p \in Procs : MarkAsFree(p)
    BY <1>3, MarkAsFreeStep
<1>4. CASE \E c \in Cpus : ConnectCpu(c)
    BY <1>4, ConnectCpuStep
<1>5. CASE /\ ~GetFirstFree /\ ~PcpSelect /\ ~PcpRemove
           /\ \A p \in Procs : ~MarkAsFree(p)
           /\ \A c \in Cpus : ~ConnectCpu(c)
    BY <1>5, HoldersKept, CpuFrame
<1> QED BY <1>1, <1>2, <1>3, <1>4, <1>5

(* The inductive invariant: a CPU is never given to two processes, is      *)
(* marked free exactly when nobody holds it, and no process is lost.       *)
THEOREM Safety == Spec => []SafetyInv
<1>1. Init => SafetyInv
    <2> SUFFICES ASSUME Init PROVE SafetyInv
        OBVIOUS
    <2>1. TypeOK
        BY TypeInit
    <2>2. StageMatchesEstado /\ ReadyProcessHasOnePlace /\ CopyIsReady
        BY PlacesInit DEF Places
    <2>3. HeldCpusAreConnected /\ FreeMeansUnheld /\ OneProcessPerCpu
        BY CpusAssumption DEF Init, HeldCpusAreConnected, FreeMeansUnheld,
           OneProcessPerCpu, Holders, Holding
    <2> QED BY <2>1, <2>2, <2>3 DEF SafetyInv
<1>2. SafetyInv /\ [Next]_vars => SafetyInv'
    BY TypeStep, PlacesStep, CopyStep, CpuStep DEF SafetyInv, Places
<1> QED BY <1>1, <1>2, PTL DEF Spec

THEOREM CpuExclusion == Spec => []OneProcessPerCpu
BY Safety, PTL DEF SafetyInv

THEOREM NoCpuLeaks == Spec => []FreeMeansUnheld
BY Safety, PTL DEF SafetyInv
-----------------------------------------------------------------------------
(* The notification protocol: when every CPU is connected from the start,  *)
(* dropping notifications on a full channel never leaves a ready process   *)
(* and a free CPU with nobody to bring them together.                      *)
THEOREM WakeupsAreNotLost ==
    ASSUME LateCpus = {} PROVE Spec => []NoLostWakeup
<1> DEFINE AllConnected == connected = Cpus
<1>1. Init => AllConnected /\ NoLostWakeup
    BY DEF Init, NoLostWakeup
<1>2. TypeOK /\ AllConnected /\ NoLostWakeup /\ [Next]_vars
      => AllConnected' /\ NoLostWakeup'
    <2> SUFFICES ASSUME TypeOK, AllConnected, NoLostWakeup, [Next]_vars
                 PROVE  AllConnected' /\ NoLostWakeup'
        OBVIOUS
    <2> USE DEF pcpVars, cpuMapVars
    <2>1. CASE Pcp
        <3>1. AllConnected'
            BY <2>1 DEF Pcp, PcpWake, PcpSize, GetFirstFree, PcpSelect, PcpRemove
        <3>2. pcp' # "wait" \/ ready' = <<>> \/ FreeCpus' = {}
            <4>1. CASE PcpWake \/ PcpSelect \/ PcpRemove
                BY <4>1 DEF PcpWake, PcpSelect, PcpRemove, Dispatch
            <4>2. CASE PcpSize
                BY <4>2 DEF PcpSize
            <4>3. CASE GetFirstFree
                BY <4>3 DEF GetFirstFree, FreeCpus
            <4> QED BY <2>1, <4>1, <4>2, <4>3 DEF Pcp
        <3> QED BY <3>1, <3>2 DEF NoLostWakeup, WakeupComing
    <2>2. CASE StartShortTermScheduler
        BY <2>2 DEF StartShortTermScheduler, NoLostWakeup, WakeupComing
    <2>3. CASE Preemption
        <3>1. UNCHANGED <<ready, notify, signals, pcp, stage, connected, isFree>>
            BY <2>3 DEF Preemption, CheckForPreemption, DeliverInterrupt
        <3> QED BY <3>1 DEF NoLostWakeup, WakeupComing, FreeCpus
    <2>4. ASSUME NEW p \in Procs, Goroutine(p)
          PROVE  AllConnected' /\ NoLostWakeup'
        <3>1. CASE MarkAsFree(p)
            <4>1. stage'[p] = "freed" /\ UNCHANGED connected
                BY <3>1 DEF MarkAsFree, TypeOK
            <4> QED BY <4>1 DEF NoLostWakeup, WakeupComing
        <3>2. CASE ApplyFinish(p) \/ ApplyReplan(p) \/ ApplySyscall(p)
            <4>1. signals' > 0 /\ UNCHANGED connected
                BY <3>2, MaxSignalsAssumption DEF ApplyFinish, ApplyReplan,
                   ApplySyscall, EndGoroutine, WillSignal, TypeOK
            <4> QED BY <4>1 DEF NoLostWakeup, WakeupComing
        <3>3. CASE \/ AssignCpu(p) \/ StartExecuting(p) \/ SendFails(p) \/ CpuBegin(p)
                   \/ CpuTurn(p) \/ CpuFetchFails(p) \/ CpuLeaveLoop(p)
                   \/ CpuTestInterrupt(p) \/ CpuAnswer(p)
            <4>1. /\ UNCHANGED <<ready, notify, signals, pcp, connected, isFree>>
                  /\ stage[p] # "freed"
                  /\ \A q \in Procs : q # p => stage'[q] = stage[q]
                BY <3>3 DEF AssignCpu, StartExecuting, SendFails, CpuBegin, CpuTurn,
                   CpuFetchFails, CpuLeaveLoop, CpuTestInterrupt, CpuAnswer,
                   FailRequest, Enter, TypeOK
            <4> QED BY <4>1 DEF NoLostWakeup, WakeupComing, FreeCpus
        <3> QED BY <2>4, <3>1, <3>2, <3>3 DEF Goroutine
    <2>5. ASSUME NEW p \in Procs, Admit(p) \/ Unblock(p)
          PROVE  AllConnected' /\ NoLostWakeup'
        <3>1. signals' > 0 /\ UNCHANGED connected
            BY <2>5, MaxSignalsAssumption DEF Admit, Unblock, WillSignal, TypeOK
        <3> QED BY <3>1 DEF NoLostWakeup, WakeupComing
    <2>6. ASSUME NEW c \in Cpus, ConnectCpu(c) \/ ServeCpu(c)
          PROVE  AllConnected' /\ NoLostWakeup'
        BY <2>6 DEF ConnectCpu, ServeCpu, NoLostWakeup, WakeupComing, FreeCpus
    <2>7. CASE UNCHANGED vars
        BY <2>7 DEF vars, NoLostWakeup, WakeupComing, FreeCpus
    <2>8. ASSUME NEW p \in Procs, Withdraw(p)
          PROVE  AllConnected' /\ NoLostWakeup'
        BY <2>8 DEF Withdraw, Enter, NoLostWakeup, WakeupComing, FreeCpus
    <2> QED BY <2>1, <2>2, <2>3, <2>4, <2>5, <2>6, <2>7, <2>8 DEF Next
<1> QED BY <1>1, <1>2, TypeCorrect, PTL DEF Spec
-----------------------------------------------------------------------------
(* What the two tables, the registers and the answer say of a burst at     *)
(* each of its stages.                                                     *)

(* PC n is where an EXIT of p, or its last instruction, leaves it.         *)
AtEnd(p, n) ==
    \E i \in DOMAIN Script[p] :
        /\ Script[p][i].kind = "EXIT" \/ i = Len(Script[p])
        /\ n = Script[p][i].next

AtCpu == {"loop", "left", "answering"}

(* The Kernel's table and the CPU name the process.                        *)
Named(p) ==
    /\ stage[p] \in Holding \ {"spawned"} => pidExecuting[cpuOf[p]] = p
    /\ stage[p] \in AtCpu => intPid[cpuOf[p]] = p

(* Nothing of an earlier burst is left, and there is no answer before the  *)
(* loop is over.                                                           *)
Clean(p) ==
    /\ stage[p] \in {"none", "spawned", "assigned", "sent"} =>
          ~finished[p] /\ ~blocked[p]
    /\ stage[p] \notin {"answering", "returned", "freed"} => code[p] = "none"
    /\ stage[p] = "answering" => code[p] \in {"none", "NeedInterrupt"}

(* A burst that finishes is at the end of the script.                      *)
FinishesAtEnd(p) ==
    /\ stage[p] \in AtCpu /\ finished[p] => AtEnd(p, regPC[cpuOf[p]])
    /\ stage[p] = "returned" /\ code[p] = "NeedFinish" =>
          AtEnd(p, regPC[cpuOf[p]])
    /\ stage[p] = "freed" /\ code[p] = "NeedFinish" => AtEnd(p, pcPcb[p])

(* An answer asks for the syscall that the burst executed.                 *)
AsksForSyscall(p) ==
    stage[p] \in {"returned", "freed"} /\ blocked[p] /\ ~finished[p] =>
        code[p] = "NeedExecuteSyscall"

BurstInv ==
    \A p \in Procs : Named(p) /\ Clean(p) /\ FinishesAtEnd(p) /\ AsksForSyscall(p)

Burst(p) == Named(p) /\ Clean(p) /\ FinishesAtEnd(p) /\ AsksForSyscall(p)

(* The step changes nothing the invariant reads of p's burst.              *)
SameBurst(p) ==
    /\ stage'[p] = stage[p] /\ cpuOf'[p] = cpuOf[p] /\ code'[p] = code[p]
    /\ finished'[p] = finished[p] /\ blocked'[p] = blocked[p]
    /\ pcPcb'[p] = pcPcb[p]
    /\ stage[p] \in Holding =>
          /\ pidExecuting'[cpuOf[p]] = pidExecuting[cpuOf[p]]
          /\ intPid'[cpuOf[p]] = intPid[cpuOf[p]]
          /\ regPC'[cpuOf[p]] = regPC[cpuOf[p]]

LEMMA SameBurstKeeps ==
    ASSUME NEW p \in Procs, SameBurst(p), Burst(p) PROVE Burst(p)'
<1>1. Named(p)'
    BY DEF SameBurst, Burst, Named, AtCpu, Holding
<1>2. Clean(p)' /\ AsksForSyscall(p)'
    BY DEF SameBurst, Burst, Clean, AsksForSyscall
<1>3. FinishesAtEnd(p)'
    <2>1. \A n : AtEnd(p, n)' <=> AtEnd(p, n)
        BY DEF AtEnd
    <2> QED BY <2>1 DEF SameBurst, Burst, FinishesAtEnd, AtCpu, Holding
<1> QED BY <1>1, <1>2, <1>3 DEF Burst

(* A goroutine's step writes the entries of its own process and of the CPU *)
(* it holds, which nobody else holds.                                      *)
LEMMA OtherBursts ==
    ASSUME SafetyInv, NEW p \in Procs, Goroutine(p), NEW q \in Procs, q # p
    PROVE  SameBurst(q)
<1> USE DEF pcpVars, cpuMapVars, burstVars, cpuVars, srtVars, TypeOK
<1>1. TypeOK /\ OneProcessPerCpu
    BY DEF SafetyInv
<1>2. stage[q] \in Holding /\ stage[p] \in Holding => cpuOf[q] # cpuOf[p]
    BY <1>1 DEF OneProcessPerCpu
<1>3. CASE AssignCpu(p) \/ StartExecuting(p) \/ SendFails(p) \/ CpuFetchFails(p)
           \/ CpuLeaveLoop(p)
    BY <1>1, <1>2, <1>3 DEF AssignCpu, StartExecuting, SendFails, FailRequest,
       CpuFetchFails, CpuLeaveLoop, SameBurst, Holding
<1>4. CASE CpuBegin(p)
    BY <1>1, <1>2, <1>4 DEF CpuBegin, SameBurst, Holding
<1>5. CASE CpuTurn(p)
    <2>1. /\ \A c \in Cpus : c # cpuOf[p] => regPC'[c] = regPC[c]
          /\ blocked'[q] = blocked[q] /\ finished'[q] = finished[q]
          /\ UNCHANGED <<stage, cpuOf, code, pcPcb, pidExecuting, intPid>>
          /\ stage[p] \in Holding
        BY <1>1, <1>5 DEF CpuTurn, Holding
    <2> QED BY <1>1, <1>2, <2>1 DEF SameBurst
<1>6. CASE CpuTestInterrupt(p) \/ CpuAnswer(p)
    BY <1>1, <1>2, <1>6 DEF CpuTestInterrupt, CpuAnswer, SameBurst
<1>7. CASE MarkAsFree(p)
    BY <1>1, <1>2, <1>7 DEF MarkAsFree, Unnamed, SameBurst, Holding
<1>8. CASE ApplyFinish(p) \/ ApplyReplan(p) \/ ApplySyscall(p)
    <2>1. EndGoroutine(p)
        BY <1>8 DEF ApplyFinish, ApplyReplan, ApplySyscall
    <2> QED BY <1>1, <2>1 DEF EndGoroutine, SameBurst
<1> QED BY <1>3, <1>4, <1>5, <1>6, <1>7, <1>8 DEF Goroutine

(* One turn of the loop: a turn that ends the burst for good leaves it at  *)
(* the end of its script.                                                  *)
LEMMA TurnKeepsBurst ==
    ASSUME TypeOK, NEW p \in Procs, Burst(p), CpuTurn(p) PROVE Burst(p)'
<1> USE DEF pcpVars, cpuMapVars, srtVars
<1> DEFINE c == cpuOf[p]
           i == regPC[c] + 1
<1>1. /\ stage[p] = "loop" /\ c \in Cpus /\ regPC[c] \in Nat
      /\ regPC[c] < Len(Script[p])
      /\ stage'[p] = "loop" /\ cpuOf' = cpuOf
      /\ UNCHANGED <<code, pidExecuting, intPid, pcPcb>>
      /\ regPC'[c] = Script[p][i].next
      /\ finished'[p] = (Script[p][i].kind = "EXIT" \/ regPC[c] = Len(Script[p]) - 1)
    BY DEF CpuTurn, TypeOK, Holding
<1>2. Script[p] \in Seq([kind : Kinds, next : Nat])
    BY ScriptAssumption
<1>3. i \in DOMAIN Script[p] /\ (regPC[c] = Len(Script[p]) - 1 <=> i = Len(Script[p]))
    <2>1. Len(Script[p]) \in Nat /\ DOMAIN Script[p] = 1..Len(Script[p])
        BY <1>2
    <2> QED BY <1>1, <2>1
<1>4. finished'[p] => AtEnd(p, regPC'[c])
    BY <1>1, <1>3 DEF AtEnd
<1>5. FinishesAtEnd(p)'
    <2>1. \A n : AtEnd(p, n)' <=> AtEnd(p, n)
        BY DEF AtEnd
    <2> QED BY <1>1, <1>4, <2>1 DEF FinishesAtEnd, AtCpu
<1>6. Named(p)' /\ Clean(p)' /\ AsksForSyscall(p)'
    BY <1>1 DEF Burst, Named, Clean, AsksForSyscall, AtCpu, Holding
<1> QED BY <1>5, <1>6 DEF Burst

(* The other steps of the goroutine and of cpu/exec.                       *)
LEMMA GoroutineKeepsBurst ==
    ASSUME TypeOK, NEW p \in Procs, Burst(p), Goroutine(p) PROVE Burst(p)'
<1> USE DEF pcpVars, cpuMapVars, burstVars, cpuVars, srtVars, TypeOK
<1>0. \A n : AtEnd(p, n)' <=> AtEnd(p, n)
    BY DEF AtEnd
<1>1. CASE AssignCpu(p) \/ StartExecuting(p)
    BY <1>1 DEF AssignCpu, StartExecuting, Burst, Named, Clean, FinishesAtEnd,
       AsksForSyscall, AtCpu, Holding
<1>2. CASE SendFails(p) \/ CpuFetchFails(p)
    <2>1. ~blocked[p]
        BY <1>2 DEF SendFails, CpuFetchFails, CanTurn, Burst, Clean
    <2>2. /\ stage[p] \in {"sent", "loop"} /\ stage'[p] = "returned"
          /\ code'[p] = "NeedReplan"
          /\ UNCHANGED <<cpuOf, pidExecuting, blocked>>
        BY <1>2 DEF SendFails, CpuFetchFails, FailRequest
    <2> QED BY <2>1, <2>2 DEF Burst, Named, Clean, FinishesAtEnd,
               AsksForSyscall, AtCpu, Holding
<1>3. CASE CpuBegin(p)
    <2>1. /\ stage[p] = "sent" /\ stage'[p] = "loop" /\ intPid'[cpuOf[p]] = p
          /\ UNCHANGED <<cpuOf, pidExecuting, code, finished, blocked>>
        BY <1>3 DEF CpuBegin, Holding
    <2> QED BY <2>1 DEF Burst, Named, Clean, FinishesAtEnd, AsksForSyscall,
               AtCpu, Holding
<1>4. CASE CpuTurn(p)
    BY <1>4, TurnKeepsBurst
<1>5. CASE CpuLeaveLoop(p) \/ CpuTestInterrupt(p)
    <2>1. /\ stage[p] \in {"loop", "left"} /\ stage'[p] \in {"left", "answering"}
          /\ code'[p] \in {code[p], "NeedInterrupt"}
          /\ stage'[p] = "left" => code'[p] = code[p]
          /\ UNCHANGED <<cpuOf, pidExecuting, finished, blocked, regPC, intPid>>
        BY <1>5 DEF CpuLeaveLoop, CpuTestInterrupt
    <2> QED BY <1>0, <2>1 DEF Burst, Named, Clean, FinishesAtEnd,
               AsksForSyscall, AtCpu, Holding
<1>6. CASE CpuAnswer(p)
    <2>1. /\ stage[p] = "answering" /\ stage'[p] = "returned"
          /\ code'[p] = AnswerCode(p)
          /\ UNCHANGED <<cpuOf, pidExecuting, finished, blocked, regPC>>
        BY <1>6 DEF CpuAnswer
    <2>2. /\ code[p] # "NeedFinish"
          /\ AnswerCode(p) = "NeedFinish" => finished[p]
          /\ blocked[p] /\ ~finished[p] => AnswerCode(p) = "NeedExecuteSyscall"
        BY <2>1 DEF AnswerCode, Burst, Clean
    <2> QED BY <1>0, <2>1, <2>2 DEF Burst, Named, Clean, FinishesAtEnd,
               AsksForSyscall, AtCpu, Holding
<1>7. CASE MarkAsFree(p)
    <2>1. /\ stage[p] = "returned" /\ stage'[p] = "freed"
          /\ pcPcb'[p] = SavedPC(p)
          /\ UNCHANGED <<code, finished, blocked>>
        BY <1>7 DEF MarkAsFree
    <2>2. code[p] = "NeedFinish" => SavedPC(p) = regPC[cpuOf[p]]
        BY DEF SavedPC
    <2> QED BY <1>0, <2>1, <2>2 DEF Burst, Named, Clean, FinishesAtEnd,
               AsksForSyscall, AtCpu, Holding
<1>8. CASE ApplyFinish(p) \/ ApplyReplan(p) \/ ApplySyscall(p)
    <2>1. EndGoroutine(p)
        BY <1>8 DEF ApplyFinish, ApplyReplan, ApplySyscall
    <2>2. /\ stage'[p] = "none" /\ code'[p] = "none"
          /\ ~finished'[p] /\ ~blocked'[p]
        BY <2>1 DEF EndGoroutine
    <2> QED BY <2>2 DEF Burst, Named, Clean, FinishesAtEnd, AsksForSyscall,
               AtCpu, Holding
<1> QED BY <1>1, <1>2, <1>3, <1>4, <1>5, <1>6, <1>7, <1>8 DEF Goroutine

LEMMA BurstStep == SafetyInv /\ BurstInv /\ [Next]_vars => BurstInv'
<1> SUFFICES ASSUME SafetyInv, BurstInv, [Next]_vars, NEW p \in Procs
             PROVE  Burst(p)'
    BY DEF BurstInv, Burst
<1>0. TypeOK /\ Burst(p)
    BY DEF SafetyInv, BurstInv, Burst
<1> DEFINE Same == UNCHANGED <<stage, cpuOf, code, finished, blocked, pcPcb,
                               pidExecuting, intPid, regPC>>
<1>1. Same => Burst(p)'
    BY <1>0, SameBurstKeeps DEF SameBurst
<1> USE DEF pcpVars, cpuMapVars, burstVars, cpuVars, srtVars
<1>2. CASE PcpSelect \/ PcpRemove
    <2>1. UNCHANGED <<code, finished, blocked, pcPcb, pidExecuting, intPid, regPC>>
        BY <1>2 DEF PcpSelect, PcpRemove
    <2>2. CASE Copies \/ GivesBack
        BY <1>1, <2>1, <2>2 DEF Copies, GivesBack
    <2>3. ASSUME NEW q \in Procs, Takes(q) PROVE Burst(p)'
        <3>1. CASE p = q
            BY <1>0, <2>1, <2>3, <3>1 DEF Takes, Burst, Named, Clean, FinishesAtEnd,
               AsksForSyscall, AtCpu, TypeOK
        <3>2. CASE p # q
            <4>1. SameBurst(p)
                BY <1>0, <2>1, <2>3, <3>2 DEF Takes, SameBurst, TypeOK
            <4> QED BY <1>0, <4>1, SameBurstKeeps
        <3> QED BY <3>1, <3>2
    <2> QED BY <1>0, <1>2, <2>2, <2>3, Selections DEF SafetyInv, Places
<1>3. CASE PcpWake \/ PcpSize \/ GetFirstFree \/ StartShortTermScheduler
    BY <1>1, <1>3 DEF PcpWake, PcpSize, GetFirstFree, StartShortTermScheduler
<1>4. CASE Preemption
    BY <1>1, <1>4 DEF Preemption, CheckForPreemption, DeliverInterrupt
<1>5. ASSUME NEW q \in Procs, Goroutine(q) PROVE Burst(p)'
    <2>1. CASE p = q
        BY <1>0, <1>5, <2>1, GoroutineKeepsBurst
    <2>2. CASE p # q
        BY <1>0, <1>5, <2>2, OtherBursts, SameBurstKeeps
    <2> QED BY <2>1, <2>2
<1>6. CASE \E q \in Procs : Admit(q) \/ Unblock(q) \/ Withdraw(q)
    BY <1>1, <1>6 DEF Admit, Unblock, Withdraw
<1>7. CASE UNCHANGED vars \/ \E c \in Cpus : ConnectCpu(c) \/ ServeCpu(c)
    BY <1>1, <1>7 DEF ConnectCpu, ServeCpu, vars
<1> QED BY <1>2, <1>3, <1>4, <1>5, <1>6, <1>7 DEF Next, Pcp

(* Only the planner and the goroutines move a process between stages.      *)
LEMMA WhoMovesStages ==
    ASSUME [Next]_vars
    PROVE  \/ PcpSelect \/ PcpRemove
           \/ (\E q \in Procs : Goroutine(q)) \/ UNCHANGED stage
<1>1. CASE PcpWake \/ PcpSize \/ GetFirstFree \/ StartShortTermScheduler
    BY <1>1 DEF PcpWake, PcpSize, GetFirstFree, StartShortTermScheduler
<1>2. CASE Preemption
    BY <1>2 DEF Preemption, CheckForPreemption, DeliverInterrupt
<1>3. CASE \E q \in Procs : Admit(q) \/ Unblock(q) \/ Withdraw(q)
    BY <1>3 DEF Admit, Unblock, Withdraw
<1>4. CASE UNCHANGED vars \/ \E c \in Cpus : ConnectCpu(c) \/ ServeCpu(c)
    BY <1>4 DEF ConnectCpu, ServeCpu, vars
<1> QED BY <1>1, <1>2, <1>3, <1>4 DEF Next, Pcp

(* A burst is named where it runs, starts clean, ends where its script     *)
(* ends and asks for the syscall it executed.                              *)
THEOREM BurstsAreSound == Spec => [](SafetyInv /\ BurstInv)
<1>1. Init => BurstInv
    BY DEF Init, BurstInv, Named, Clean, FinishesAtEnd, AsksForSyscall, AtCpu, Holding
<1> QED BY <1>1, BurstStep, Safety, PTL DEF Spec

(* A CPU that the table gives to a PID other than 0 is held by the         *)
(* goroutine of that process.                                              *)
NamesHolders ==
    \A c \in Cpus : pidExecuting[c] # 0 =>
        \E p \in Procs : /\ p = pidExecuting[c] /\ cpuOf[p] = c
                        /\ stage[p] \in Holding \ {"spawned"}

LEMMA NamesStep == SafetyInv /\ NamesHolders /\ [Next]_vars => NamesHolders'
<1> SUFFICES ASSUME SafetyInv, NamesHolders, [Next]_vars, NEW c \in Cpus,
                    pidExecuting'[c] # 0
             PROVE  \E p \in Procs : /\ p = pidExecuting'[c] /\ cpuOf'[p] = c
                                    /\ stage'[p] \in Holding \ {"spawned"}
    BY DEF NamesHolders
<1>0. TypeOK
    BY DEF SafetyInv
<1> DEFINE HoldersStay ==
       \A p \in Procs : stage[p] \in Holding \ {"spawned"} =>
          cpuOf'[p] = cpuOf[p] /\ stage'[p] \in Holding \ {"spawned"}
<1>1. CASE UNCHANGED pidExecuting /\ HoldersStay
    BY <1>1 DEF NamesHolders
<1> USE DEF pcpVars, cpuMapVars, burstVars, cpuVars, srtVars
<1>2. CASE UNCHANGED <<pidExecuting, stage, cpuOf>>
    BY <1>1, <1>2
<1>3. CASE PcpSelect \/ PcpRemove
    <2>1. UNCHANGED pidExecuting
        BY <1>3 DEF PcpSelect, PcpRemove
    <2>2. CASE Copies \/ GivesBack
        BY <1>2, <2>1, <2>2 DEF Copies, GivesBack
    <2>3. ASSUME NEW q \in Procs, Takes(q) PROVE HoldersStay
        BY <1>0, <2>3 DEF Takes, TypeOK, Holding
    <2> QED BY <1>1, <1>3, <2>1, <2>2, <2>3, Selections DEF SafetyInv, Places
<1>4. ASSUME NEW q \in Procs, AssignCpu(q)
      PROVE  \E p \in Procs : /\ p = pidExecuting'[c] /\ cpuOf'[p] = c
                             /\ stage'[p] \in Holding \ {"spawned"}
    <2>1. /\ stage[q] = "spawned" /\ stage'[q] = "assigned"
          /\ pidExecuting'[c] = IF c = cpuOf[q] THEN q ELSE pidExecuting[c]
          /\ UNCHANGED cpuOf /\ HoldersStay
        BY <1>0, <1>4 DEF AssignCpu, TypeOK, Holding
    <2> QED BY <2>1 DEF NamesHolders, Holding
<1>5. ASSUME NEW q \in Procs, MarkAsFree(q)
      PROVE  \E p \in Procs : /\ p = pidExecuting'[c] /\ cpuOf'[p] = c
                             /\ stage'[p] \in Holding \ {"spawned"}
    <2>1. /\ pidExecuting'[c] = IF c = cpuOf[q] THEN 0 ELSE pidExecuting[c]
          /\ UNCHANGED cpuOf
          /\ \A r \in Procs : r # q => stage'[r] = stage[r]
        BY <1>0, <1>5 DEF MarkAsFree, Unnamed, TypeOK
    <2> QED BY <2>1 DEF NamesHolders
<1>6. ASSUME NEW q \in Procs, Goroutine(q), ~AssignCpu(q), ~MarkAsFree(q)
      PROVE  UNCHANGED pidExecuting /\ HoldersStay
    <2>1. \/ StartExecuting(q) \/ SendFails(q) \/ CpuBegin(q) \/ CpuTurn(q)
          \/ CpuFetchFails(q) \/ CpuLeaveLoop(q) \/ CpuTestInterrupt(q) \/ CpuAnswer(q)
          \/ ApplyFinish(q) \/ ApplyReplan(q) \/ ApplySyscall(q)
        BY <1>6 DEF Goroutine
    <2>2. CASE \/ StartExecuting(q) \/ SendFails(q) \/ CpuBegin(q) \/ CpuTurn(q)
               \/ CpuFetchFails(q) \/ CpuLeaveLoop(q) \/ CpuTestInterrupt(q)
               \/ CpuAnswer(q)
        BY <1>0, <2>2 DEF StartExecuting, SendFails, FailRequest, CpuBegin, CpuTurn,
           CpuFetchFails, CpuLeaveLoop, CpuTestInterrupt, CpuAnswer, Holding, TypeOK
    <2>3. CASE ApplyFinish(q) \/ ApplyReplan(q) \/ ApplySyscall(q)
        <3>1. EndGoroutine(q) /\ stage[q] = "freed"
            BY <2>3 DEF ApplyFinish, ApplyReplan, ApplySyscall, EndGoroutine
        <3> QED BY <1>0, <3>1 DEF EndGoroutine, Holding, TypeOK
    <2> QED BY <2>1, <2>2, <2>3
<1>7. CASE PcpWake \/ PcpSize \/ GetFirstFree \/ StartShortTermScheduler \/ Preemption
    BY <1>2, <1>7 DEF PcpWake, PcpSize, GetFirstFree, StartShortTermScheduler,
       Preemption, CheckForPreemption, DeliverInterrupt
<1>8. CASE \/ UNCHANGED vars \/ \E q \in Procs : Admit(q) \/ Unblock(q) \/ Withdraw(q)
           \/ \E d \in Cpus : ConnectCpu(d) \/ ServeCpu(d)
    BY <1>2, <1>8 DEF vars, Admit, Unblock, Withdraw, ConnectCpu, ServeCpu
<1> QED BY <1>1, <1>3, <1>4, <1>5, <1>6, <1>7, <1>8 DEF Next, Pcp

(* An interrupt for a running process, PID 0 excepted, can only find the   *)
(* CPU that runs it, by the Kernel's table, and is accepted there, by the  *)
(* CPU's own PID.                                                          *)
THEOREM RunningIsNamed == Spec => []RunningProcessIsNamed
<1>1. Init => NamesHolders
    BY DEF Init, NamesHolders
<1>2. SafetyInv /\ BurstInv /\ NamesHolders => RunningProcessIsNamed
    <2> SUFFICES ASSUME SafetyInv, BurstInv, NamesHolders, NEW p \in Procs,
                        stage[p] \in AtCpu
                 PROVE  /\ intPid[cpuOf[p]] = p /\ pidExecuting[cpuOf[p]] = p
                        /\ estado[p] = "EXECUTING"
                        /\ p # 0 => \A c \in connected \ {cpuOf[p]} :
                              pidExecuting[c] # p
        BY DEF RunningProcessIsNamed, AtCpu
    <2>1. intPid[cpuOf[p]] = p /\ pidExecuting[cpuOf[p]] = p /\ estado[p] = "EXECUTING"
        BY DEF SafetyInv, StageMatchesEstado, BurstInv, Named, AtCpu, Holding
    <2>2. ASSUME NEW c \in connected \ {cpuOf[p]}, p # 0 PROVE pidExecuting[c] # p
        BY <2>2 DEF NamesHolders, SafetyInv, TypeOK
    <2> QED BY <2>1, <2>2
<1> QED BY <1>1, <1>2, NamesStep, BurstsAreSound, PTL DEF Spec

(* The Kernel finishes a process only at the end of its script.            *)
THEOREM NobodyFinishesEarly == Spec => []FinishedAtTheEnd
<1>1. BurstInv => FinishedAtTheEnd
    BY DEF BurstInv, FinishesAtEnd, AtEnd, FinishedAtTheEnd
<1> QED BY <1>1, BurstsAreSound, PTL

(* Only the end of the goroutine takes a process from "freed" to "none",   *)
(* and with NeedExecuteSyscall that end is ApplySyscall.                   *)
THEOREM SyscallsBlock == Spec => SyscallBlocks
<1>1. SafetyInv /\ BurstInv /\ [Next]_vars =>
         [\A p \in Procs :
            stage[p] = "freed" /\ stage'[p] = "none" /\ blocked[p] /\ ~finished[p]
            => estado'[p] \in {"BLOCKED", "EXIT"}]_vars
    <2> SUFFICES ASSUME SafetyInv, BurstInv, [Next]_vars, NEW p \in Procs,
                        stage[p] = "freed", stage'[p] = "none",
                        blocked[p], ~finished[p]
                 PROVE  estado'[p] \in {"BLOCKED", "EXIT"}
        OBVIOUS
    <2>1. code[p] = "NeedExecuteSyscall" /\ TypeOK
        BY DEF BurstInv, AsksForSyscall, SafetyInv
    <2>2. PICK q \in Procs : Goroutine(q)
        <3>1. ~PcpSelect /\ ~PcpRemove
            <4>1. Copies \/ GivesBack => stage' = stage
                BY DEF Copies, GivesBack
            <4>2. \A r \in Procs : Takes(r) => stage'[p] = stage[p] \/ stage'[p] = "spawned"
                BY <2>1 DEF Takes, TypeOK
            <4> QED BY <2>1, <4>1, <4>2, Selections DEF SafetyInv, Places
        <3> QED BY <3>1, WhoMovesStages
    <2>3. q = p
        <3>1. CASE q # p
            BY <2>2, <3>1, OtherBursts DEF SameBurst
        <3> QED BY <3>1
    <2>4. ApplySyscall(p)
        BY <2>1, <2>2, <2>3 DEF Goroutine, AssignCpu, StartExecuting, SendFails,
           CpuBegin, CpuTurn, CpuFetchFails, CpuLeaveLoop, CpuTestInterrupt,
           CpuAnswer, MarkAsFree, ApplyFinish, ApplyReplan
    <2> QED BY <2>1, <2>4 DEF ApplySyscall, Enter, TypeOK
<1> QED BY <1>1, BurstsAreSound, PTL DEF Spec, SyscallBlocks

(* SJF and SRT never pass a process that has not run yet and was there     *)
(* when the planner copied READY: by what the selection returns, an aged   *)
(* process is chosen only when all those copied are aged.                  *)
THEOREM TheFreshGoFirst ==
    ASSUME Algorithm # "FIFO" PROVE Spec => FreshBeforeAged
<1>1. SafetyInv /\ [Next]_vars =>
         [\A p \in Procs :
            /\ stage[p] = "none" /\ stage'[p] = "spawned"
            /\ est[p] # InitialEstimate
            => \A i \in DOMAIN ready :
                  est[ready[i]] = InitialEstimate => ~Contains(copied, ready[i])]_vars
    <2> SUFFICES ASSUME SafetyInv, [Next]_vars, NEW p \in Procs,
                        stage[p] = "none", stage'[p] = "spawned",
                        est[p] # InitialEstimate,
                        NEW i \in DOMAIN ready, est[ready[i]] = InitialEstimate,
                        Contains(copied, ready[i])
                 PROVE  FALSE
        OBVIOUS
    <2>1. TypeOK
        BY DEF SafetyInv
    <2>2. ASSUME NEW q \in Procs, Goroutine(q) PROVE FALSE
        <3>1. stage'[p] = stage[p] \/ q = p
            BY <2>2, OtherBursts DEF SameBurst
        <3>2. Goroutine(p)
            BY <2>2, <3>1
        <3>3. CASE ApplyFinish(p) \/ ApplyReplan(p) \/ ApplySyscall(p)
            BY <3>3 DEF ApplyFinish, ApplyReplan, ApplySyscall, EndGoroutine
        <3> QED BY <3>2, <3>3 DEF Goroutine, AssignCpu, StartExecuting, SendFails,
                   CpuBegin, CpuTurn, CpuFetchFails, CpuLeaveLoop,
                   CpuTestInterrupt, CpuAnswer, MarkAsFree
    <2>3. PcpRemove
        <3>1. PcpSelect \/ PcpRemove
            BY <2>2, WhoMovesStages
        <3>2. PcpSelect => UNCHANGED stage
            BY DEF PcpSelect
        <3> QED BY <3>1, <3>2
    <2> DEFINE k == ShortestJobFirst(copied, est)
    <2>4. k \in DOMAIN copied /\ copied[k] \in Procs
        BY <2>1, <2>3, ChoiceIsCopied DEF PcpRemove
    <2>5. stage' = [stage EXCEPT ![copied[k]] = "spawned"]
        BY <2>3 DEF PcpRemove, Dispatch
    <2>6. p = copied[k]
        BY <2>1, <2>4, <2>5 DEF TypeOK
    <2>7. Fresh(copied, est) = {}
        <3>1. copied # <<>>
            BY <2>1, <2>3 DEF TypeOK, PcpRemove
        <3>2. Fresh(copied, est) # {} => k \in Fresh(copied, est)
            BY <2>1, <3>1, ShortestJobFirstSelects DEF TypeOK
        <3> QED BY <2>6, <3>2 DEF Fresh
    <2> QED BY <2>7 DEF Fresh, Contains
<1> QED BY <1>1, Safety, PTL DEF Spec, FreshBeforeAged
-----------------------------------------------------------------------------
(* The refinement.  The view of a process is its abstract state and the    *)
(* CPU it runs on.                                                         *)
absState == [p \in Procs |-> AbstractState(p)]
absRunsOn == [p \in Procs |-> IF stage[p] \in Holding THEN cpuOf[p] ELSE NoCpu]

SameView(p) ==
    /\ AbstractState(p)' = AbstractState(p)
    /\ stage'[p] \in Holding <=> stage[p] \in Holding
    /\ stage[p] \in Holding => cpuOf'[p] = cpuOf[p]

LEMMA ViewsKept ==
    ASSUME \A p \in Procs : SameView(p)
    PROVE  absState' = absState /\ absRunsOn' = absRunsOn
BY DEF SameView, absState, absRunsOn

(* A step that changes the view of p alone.                                *)
LEMMA OneViewChanges ==
    ASSUME NEW p \in Procs, \A q \in Procs \ {p} : SameView(q)
    PROVE  /\ absState' = [absState EXCEPT ![p] = AbstractState(p)']
           /\ absRunsOn' = [absRunsOn EXCEPT ![p] =
                               IF stage'[p] \in Holding THEN cpuOf'[p] ELSE NoCpu]
<1>1. absState' = [absState EXCEPT ![p] = AbstractState(p)']
    BY DEF SameView, absState
<1>2. \A q \in Procs \ {p} : absRunsOn'[q] = absRunsOn[q]
    BY DEF SameView, absRunsOn
<1>3. absRunsOn'[p] = IF stage'[p] \in Holding THEN cpuOf'[p] ELSE NoCpu
    BY DEF absRunsOn
<1>4. absRunsOn' \in [Procs -> Range(absRunsOn')] /\ DOMAIN absRunsOn = Procs
    BY DEF absRunsOn, Range
<1> QED BY <1>1, <1>2, <1>3, <1>4

LEMMA SameProcessSameView ==
    ASSUME NEW p \in Procs, stage'[p] = stage[p], cpuOf'[p] = cpuOf[p],
           estado'[p] = estado[p]
    PROVE  SameView(p)
BY DEF SameView, AbstractState

LEMMA ViewsAre ==
    ASSUME NEW p \in Procs
    PROVE  /\ absState[p] = AbstractState(p)
           /\ absRunsOn[p] = IF stage[p] \in Holding THEN cpuOf[p] ELSE NoCpu
BY DEF absState, absRunsOn

(* A process moves on without a CPU: the moves of the abstract scheduler   *)
(* that only change its state.                                             *)
LEMMA MovesImplement ==
    ASSUME NEW p \in Procs, \A q \in Procs \ {p} : SameView(q),
           stage[p] \notin Holding, stage'[p] \notin Holding,
           UNCHANGED connected
    PROVE  /\ /\ AbstractState(p) \in {"new", "blocked", "leaving"}
              /\ AbstractState(p)' = "ready"
              => Abstract!MakeReady(p)
           /\ AbstractState(p) = "leaving" /\ AbstractState(p)' = "blocked"
              => Abstract!Block(p)
           /\ /\ AbstractState(p) \in {"leaving", "blocked"}
              /\ AbstractState(p)' = "done"
              => Abstract!Finish(p)
<1>1. absState' = [absState EXCEPT ![p] = AbstractState(p)']
    BY OneViewChanges
<1>2. absRunsOn' = absRunsOn
    <2>1. \A q \in Procs : absRunsOn'[q] = absRunsOn[q]
        BY DEF SameView, absRunsOn
    <2> QED BY <2>1 DEF absRunsOn
<1>3. absState[p] = AbstractState(p)
    BY ViewsAre
<1> QED BY <1>1, <1>2, <1>3 DEF absState, absRunsOn, Abstract!MakeReady,
           Abstract!Block, Abstract!Finish, Abstract!Become

LEMMA SelectImplements ==
    ASSUME SafetyInv, PcpSelect \/ PcpRemove, NEW p \in Procs, Takes(p)
    PROVE  \E c \in Cpus : Abstract!Start(p, c)
<1>1. /\ stage[p] = "none" /\ estado[p] = "READY"
      /\ stage' = [stage EXCEPT ![p] = "spawned"]
      /\ cpuOf' = [cpuOf EXCEPT ![p] = pcpCpu]
    BY DEF Takes
<1>2. TypeOK /\ HeldCpusAreConnected
    BY DEF SafetyInv
<1>3. PICK c \in Cpus : c = pcpCpu
    BY <1>2 DEF PcpSelect, PcpRemove, TypeOK
<1>4. /\ stage'[p] = "spawned" /\ cpuOf'[p] = c
      /\ \A q \in Procs \ {p} : stage'[q] = stage[q] /\ cpuOf'[q] = cpuOf[q]
      /\ UNCHANGED <<estado, connected>>
    BY <1>1, <1>2, <1>3 DEF PcpSelect, PcpRemove, cpuMapVars, TypeOK
<1>5. \A q \in Procs \ {p} : SameView(q)
    BY <1>4, SameProcessSameView
<1>6. AbstractState(p) = "ready" /\ AbstractState(p)' = "running"
    BY <1>1, <1>4 DEF AbstractState, Holding
<1>7. /\ absState' = [absState EXCEPT ![p] = "running"]
      /\ absRunsOn' = [absRunsOn EXCEPT ![p] = c]
    BY <1>4, <1>5, <1>6, OneViewChanges DEF Holding
<1>8. c \in connected /\ \A q \in Procs : absRunsOn[q] # c
    BY <1>2, <1>3, CpusAssumption, ViewsAre
       DEF HeldCpusAreConnected, PcpSelect, PcpRemove
<1>9. absState[p] = "ready"
    BY <1>6, ViewsAre
<1>10. Abstract!Start(p, c)
    BY <1>4, <1>7, <1>8, <1>9
       DEF absState, absRunsOn, Abstract!Start, Abstract!Become, Abstract!Idle
<1> QED BY <1>10

(* What the abstract scheduler sees of a goroutine: it leaves the CPU, and *)
(* its end decides what the process does next.                             *)
LEMMA GoroutineImplements ==
    ASSUME SafetyInv, NEW p \in Procs, Goroutine(p)
    PROVE  \/ Abstract!MakeReady(p) \/ Abstract!Leave(p)
           \/ Abstract!Block(p) \/ Abstract!Finish(p)
           \/ UNCHANGED <<absState, absRunsOn, connected>>
<1> USE DEF pcpVars, cpuMapVars, burstVars, cpuVars, srtVars
<1>1. TypeOK
    BY DEF SafetyInv
<1>2. UNCHANGED connected
    BY DEF Goroutine, AssignCpu, StartExecuting, SendFails,
           CpuBegin, CpuTurn, CpuFetchFails, CpuLeaveLoop, CpuTestInterrupt,
           CpuAnswer, MarkAsFree, ApplyFinish, ApplyReplan, ApplySyscall, EndGoroutine
<1>3. ASSUME NEW q \in Procs \ {p} PROVE SameView(q)
    <2>1. stage'[q] = stage[q] /\ cpuOf'[q] = cpuOf[q]
        BY OtherBursts DEF SameBurst
    <2>2. estado'[q] = estado[q]
        BY <1>1 DEF Goroutine, AssignCpu, StartExecuting, SendFails, Enter,
           EnterReady, CpuBegin, CpuTurn, CpuFetchFails, CpuLeaveLoop,
           CpuTestInterrupt, CpuAnswer, MarkAsFree, ApplyFinish, ApplyReplan,
           ApplySyscall, TypeOK
    <2> QED BY <2>1, <2>2, SameProcessSameView
<1>4. CASE \/ AssignCpu(p) \/ StartExecuting(p) \/ SendFails(p) \/ CpuBegin(p)
           \/ CpuTurn(p) \/ CpuFetchFails(p) \/ CpuLeaveLoop(p)
           \/ CpuTestInterrupt(p) \/ CpuAnswer(p)
    <2>1. stage[p] \in Holding /\ stage'[p] \in Holding /\ cpuOf'[p] = cpuOf[p]
        BY <1>1, <1>4 DEF AssignCpu, StartExecuting, SendFails, FailRequest,
           CpuBegin, CpuTurn, CpuFetchFails, CpuLeaveLoop, CpuTestInterrupt,
           CpuAnswer, Holding, TypeOK
    <2>2. SameView(p)
        BY <2>1 DEF SameView, AbstractState
    <2> QED BY <1>2, <1>3, <2>2, ViewsKept
<1>5. CASE MarkAsFree(p)
    <2>1. stage[p] = "returned" /\ stage'[p] = "freed"
        BY <1>1, <1>5 DEF MarkAsFree, TypeOK
    <2>2. AbstractState(p) = "running" /\ AbstractState(p)' = "leaving"
        BY <2>1 DEF AbstractState, Holding
    <2>3. /\ absState' = [absState EXCEPT ![p] = "leaving"]
          /\ absRunsOn' = [absRunsOn EXCEPT ![p] = NoCpu]
        BY <1>3, <2>1, <2>2, OneViewChanges DEF Holding
    <2>4. absState[p] = "running"
        BY <2>2, ViewsAre
    <2>5. Abstract!Leave(p)
        BY <1>2, <2>3, <2>4 DEF absState, absRunsOn, Abstract!Leave, Abstract!Become
    <2> QED BY <2>5
<1>6. CASE ApplyFinish(p) \/ ApplyReplan(p) \/ ApplySyscall(p)
    <2>1. stage[p] = "freed" /\ stage'[p] = "none"
        BY <1>1, <1>6 DEF ApplyFinish, ApplyReplan, ApplySyscall, EndGoroutine, TypeOK
    <2>2. estado'[p] \in {"READY", "BLOCKED", "EXIT"}
        BY <1>1, <1>6 DEF ApplyFinish, ApplyReplan, ApplySyscall, Enter,
           EnterReady, TypeOK
    <2>3. AbstractState(p) = "leaving" /\ AbstractState(p)' \in {"ready", "blocked", "done"}
        BY <2>1, <2>2 DEF AbstractState, Holding
    <2> QED BY <1>2, <1>3, <2>1, <2>3, MovesImplement DEF Holding
<1> QED BY <1>4, <1>5, <1>6 DEF Goroutine

LEMMA StepImplements ==
    ASSUME SafetyInv, [Next]_vars PROVE [Abstract!Next]_(Abstract!vars)
<1> DEFINE Stutter == UNCHANGED <<absState, absRunsOn, connected>>
<1>0. Stutter => UNCHANGED Abstract!vars
    BY DEF absState, absRunsOn, Abstract!vars
<1>1. TypeOK /\ StageMatchesEstado
    BY DEF SafetyInv
<1> USE DEF pcpVars, cpuMapVars, burstVars, cpuVars, srtVars
<1>2. UNCHANGED <<stage, cpuOf, estado, connected>> => Stutter
    BY SameProcessSameView, ViewsKept
<1>3. CASE PcpSelect \/ PcpRemove
    <2>1. CASE Copies \/ GivesBack
        <3>1. UNCHANGED <<estado, connected>>
            BY <1>3 DEF PcpSelect, PcpRemove
        <3> QED BY <1>0, <1>2, <2>1, <3>1 DEF Copies, GivesBack
    <2>2. CASE \E p \in Procs : Takes(p)
        <3>1. Abstract!StartSome
            BY <1>3, <2>2, SelectImplements DEF Abstract!StartSome
        <3> QED BY <3>1 DEF Abstract!Next
    <2> QED BY <1>3, <2>1, <2>2, Selections DEF SafetyInv, Places
<1>4. CASE PcpWake \/ PcpSize \/ GetFirstFree \/ StartShortTermScheduler
    BY <1>0, <1>2, <1>4 DEF PcpWake, PcpSize, GetFirstFree, StartShortTermScheduler
<1>5. CASE Preemption
    BY <1>0, <1>2, <1>5 DEF Preemption, CheckForPreemption, DeliverInterrupt
<1>6. ASSUME NEW p \in Procs, Goroutine(p) PROVE Abstract!Next \/ Stutter
    BY <1>6, GoroutineImplements DEF Abstract!Next
<1>7. ASSUME NEW p \in Procs, Admit(p) \/ Unblock(p) \/ Withdraw(p)
      PROVE  Abstract!Next
    <2>1. /\ estado[p] \in {"NEW", "BLOCKED"} /\ estado'[p] \in {"READY", "EXIT"}
          /\ estado'[p] = "EXIT" => estado[p] = "BLOCKED"
          /\ \A q \in Procs \ {p} : estado'[q] = estado[q]
          /\ UNCHANGED <<stage, cpuOf, connected>>
        BY <1>1, <1>7 DEF Admit, Unblock, Withdraw, EnterReady, Enter, TypeOK
    <2>2. stage[p] = "none"
        BY <1>1, <2>1 DEF StageMatchesEstado, AboutToRun
    <2>3. \A q \in Procs \ {p} : SameView(q)
        BY <2>1, SameProcessSameView
    <2>4. /\ AbstractState(p) \in {"new", "blocked"}
          /\ AbstractState(p)' \in {"ready", "done"}
          /\ AbstractState(p)' = "done" => AbstractState(p) = "blocked"
        BY <2>1, <2>2 DEF AbstractState, Holding
    <2>5. Abstract!MakeReady(p) \/ Abstract!Finish(p)
        BY <2>1, <2>2, <2>3, <2>4, MovesImplement DEF Holding
    <2> QED BY <2>5 DEF Abstract!Next
<1>8. ASSUME NEW c \in Cpus, ConnectCpu(c) PROVE Abstract!Next
    <2>1. /\ c \in Cpus \ connected /\ connected' = connected \union {c}
          /\ UNCHANGED <<stage, cpuOf, estado>>
        BY <1>8 DEF ConnectCpu
    <2>2. absState' = absState /\ absRunsOn' = absRunsOn
        BY <2>1, SameProcessSameView, ViewsKept
    <2>3. Abstract!Join(c)
        BY <2>1, <2>2 DEF absState, absRunsOn, Abstract!Join
    <2> QED BY <2>3 DEF Abstract!Next
<1>9. CASE UNCHANGED vars \/ \E c \in Cpus : ServeCpu(c)
    BY <1>0, <1>2, <1>9 DEF ServeCpu, vars
<1> QED BY <1>0, <1>3, <1>4, <1>5, <1>6, <1>7, <1>8, <1>9 DEF Next, Pcp

(* The planner, the goroutines of handleCpuExecution and the CPUs together *)
(* do what the abstract scheduler does, whatever connects late and         *)
(* whichever process is interrupted.                                       *)
THEOREM ImplementsTheScheduler == Spec => ImplementsSafely
<1>1. Init => Abstract!Init
    BY DEF Init, Abstract!Init, AbstractState, Holding
<1>2. SafetyInv /\ [Next]_vars => [Abstract!Next]_(Abstract!vars)
    BY StepImplements
<1> QED BY <1>1, <1>2, Safety, PTL DEF Spec, ImplementsSafely, Abstract!SafeSpec
=============================================================================
