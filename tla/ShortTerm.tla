---------------------------- MODULE ShortTerm ----------------------------
(***************************************************************************)
(* The short-term scheduler (PCP) of the Kernel and the execution cycle of *)
(* the CPUs it drives: the READY queue, the table of connected CPUs, one   *)
(* goroutine of handleCpuExecution per dispatched process, the HTTP        *)
(* handlers cpu/exec and cpu/interrupt, and the preemption of SRT.         *)
(*                                                                         *)
(* One action is one step no other goroutine can observe the middle of:    *)
(* an operation of a queue or of a manager (each takes its own mutex), the *)
(* arrival of a request, one turn of the CPU's instruction loop.  A        *)
(* transition of a process is one step here: the goroutines of this module *)
(* look at one queue at a time, so the gap between leaving one queue and   *)
(* entering the next shows nothing to them.                                *)
(*                                                                         *)
(* Abstracted: times (an estimate is a value of Estimates, a remaining     *)
(* time any value up to the estimate), the operands of instructions (an    *)
(* instruction is its kind and the PC it leaves), what happens to a        *)
(* process that is NEW, BLOCKED or EXIT (other planners).                  *)
(***************************************************************************)
EXTENDS Integers, Sequences, SequencesExt, FiniteSets

CONSTANTS
    Procs,            \* PIDs of the processes; generatePID counts from 0
    Cpus,             \* identifiers of the CPU modules
    LateCpus,         \* CPUs that connect once the Kernel is already running
    Algorithm,        \* KernelConfig.SchedulerAlgorithm
    InitialEstimate,  \* KernelConfig.InitialEstimate
    Estimates,        \* the values RafagaEstimada takes
    Script,           \* the instructions Memory holds for each process
    MaxSignals        \* bound: notifications still to be sent that are told apart

NoCpu == "no CPU"

Kinds == {"STEP", "SYSCALL", "EXIT"}

ASSUME ProcsAssumption == Procs \subseteq Nat
ASSUME CpusAssumption == LateCpus \subseteq Cpus /\ NoCpu \notin Cpus
ASSUME AlgorithmAssumption == Algorithm \in {"FIFO", "SJF", "SRT"}
ASSUME EstimatesAssumption ==
    Estimates \subseteq Nat /\ InitialEstimate \in Estimates
ASSUME ScriptAssumption ==
    Script \in [Procs -> Seq([kind : Kinds, next : Nat])]
ASSUME MaxSignalsAssumption == MaxSignals \in Nat /\ MaxSignals >= 2

VARIABLES
    ready,         \* QueueReady
    estado,        \* EstadoActual of each PCB
    pcPcb,         \* PC saved in each PCB
    est,           \* RafagaEstimada of each PCB
    notify,        \* NotifyReady, a channel of capacity 1, holds a token
    signals,       \* calls of StartShortTermScheduler goroutines have yet to make
    pcp,           \* where the goroutine ShortTermScheduler is
    pcpCpu,        \* the CPU GetFirstFree gave it
    copied,        \* allReadyProcesses of scheduleShortestJobFirst
    connected,     \* keys of ConnectedCpuMap
    serving,       \* CPUs whose HTTP server is up
    isFree,        \* CpuN.IsFree
    pidExecuting,  \* CpuN.PIDExecuting, 0 when nothing is assigned
    stage,         \* where handleCpuExecution (and cpu/exec for it) is
    cpuOf,         \* the CPU that goroutine was given
    code,          \* StatusCodePCB of the answer
    finished,      \* isFinished of ExecuteProcessHandler
    blocked,       \* isBlocked and isSyscall, always set together
    regPC,         \* CpuRegisters.PC of each CPU
    intPid,        \* InterruptControl.PID of each CPU
    pending,       \* InterruptControl.InterruptPending of each CPU
    checks,        \* goroutines of checkForPreemption not run yet, by new PID
    interrupts     \* SendInterruption calls under way: victim and CPU

pcpVars == <<notify, pcp, pcpCpu, copied>>
cpuMapVars == <<connected, serving, isFree, pidExecuting>>
burstVars == <<code, finished, blocked>>
cpuVars == <<regPC, intPid, pending>>
srtVars == <<checks, interrupts>>
vars == <<ready, estado, pcPcb, est, signals, pcpVars, cpuMapVars, stage,
          cpuOf, burstVars, cpuVars, srtVars>>

Estados == {"NEW", "READY", "EXECUTING", "BLOCKED", "EXIT"}

(* The goroutine holds its CPU from the moment it is spawned until it      *)
(* marks the CPU free; "freed" still has to apply the answer.              *)
Holding == {"spawned", "assigned", "sent", "loop", "left", "answering",
            "returned"}
Stages == Holding \union {"none", "freed"}

Codes == {"none", "NeedFinish", "NeedReplan", "NeedInterrupt",
          "NeedExecuteSyscall"}

Init ==
    /\ ready = <<>>
    /\ estado = [p \in Procs |-> "NEW"]
    /\ pcPcb = [p \in Procs |-> 0]
    /\ est = [p \in Procs |-> InitialEstimate]
    /\ notify = FALSE /\ signals = 0
    /\ pcp = "wait" /\ pcpCpu = NoCpu /\ copied = <<>>
    /\ connected = Cpus \ LateCpus /\ serving = Cpus \ LateCpus
    /\ isFree = [c \in Cpus |-> TRUE]
    /\ pidExecuting = [c \in Cpus |-> 0]
    /\ stage = [p \in Procs |-> "none"]
    /\ cpuOf = [p \in Procs |-> NoCpu]
    /\ code = [p \in Procs |-> "none"]
    /\ finished = [p \in Procs |-> FALSE]
    /\ blocked = [p \in Procs |-> FALSE]
    /\ regPC = [c \in Cpus |-> 0]
    /\ intPid = [c \in Cpus |-> -1]
    /\ pending = [c \in Cpus |-> FALSE]
    /\ checks = {} /\ interrupts = {}
-----------------------------------------------------------------------------
(* TransitionProcessState to READY: the PCB is appended to QueueReady and, *)
(* under SRT, a goroutine of checkForPreemption starts.                    *)
EnterReady(p) ==
    /\ estado' = [estado EXCEPT ![p] = "READY"]
    /\ ready' = Append(ready, p)
    /\ checks' = IF Algorithm = "SRT" THEN checks \union {p} ELSE checks

(* TransitionProcessState to a state that is not READY, for a process that *)
(* is in no READY queue.                                                   *)
Enter(p, s) ==
    /\ estado' = [estado EXCEPT ![p] = s]
    /\ UNCHANGED <<ready, checks>>

(* A goroutine goes on to call StartShortTermScheduler n times.  The calls *)
(* are alike, and those above the bound merge with one still to come.      *)
WillSignal(n) ==
    signals' = IF signals + n <= MaxSignals THEN signals + n ELSE MaxSignals

(* A goroutine reaches StartShortTermScheduler: the send does not block,   *)
(* a full channel swallows it.                                             *)
StartShortTermScheduler ==
    /\ signals > 0
    /\ signals' = signals - 1
    /\ notify' = TRUE
    /\ UNCHANGED <<ready, estado, pcPcb, est, pcp, pcpCpu, copied, cpuMapVars,
                   stage, cpuOf, burstVars, cpuVars, srtVars>>

(* The end of admitProcess: the long-term planner moves a NEW process to   *)
(* READY.                                                                  *)
Admit(p) ==
    /\ estado[p] = "NEW"
    /\ EnterReady(p)
    /\ WillSignal(1)
    /\ UNCHANGED <<pcPcb, est, pcpVars, cpuMapVars, stage, cpuOf, burstVars,
                   cpuVars, interrupts>>

(* UnblockProcessAfterIO for a process found in QueueBlocked.              *)
Unblock_Silent(p) ==
    /\ estado[p] = "BLOCKED"
    /\ EnterReady(p)
    /\ UNCHANGED <<signals, pcPcb, est, pcpVars, cpuMapVars, stage, cpuOf,
                   burstVars, cpuVars, interrupts>>
Unblock(p) ==
    /\ estado[p] = "BLOCKED"
    /\ EnterReady(p)
    /\ WillSignal(1)
    /\ UNCHANGED <<pcPcb, est, pcpVars, cpuMapVars, stage, cpuOf, burstVars,
                   cpuVars, interrupts>>

(* A blocked process that the I/O or the dump it waits for fails: it ends  *)
(* in EXIT and no planner of this module is told.                          *)
Withdraw(p) ==
    /\ estado[p] = "BLOCKED"
    /\ Enter(p, "EXIT")
    /\ UNCHANGED <<pcPcb, est, signals, pcpVars, cpuMapVars, stage, cpuOf,
                   burstVars, cpuVars, interrupts>>

(* The CPU registers with the Kernel before its own server listens.        *)
ConnectCpu(c) ==
    /\ c \notin connected
    /\ connected' = connected \union {c}
    /\ isFree' = [isFree EXCEPT ![c] = TRUE]
    /\ UNCHANGED <<ready, estado, pcPcb, est, signals, pcpVars, serving,
                   pidExecuting, stage, cpuOf, burstVars, cpuVars, srtVars>>

ServeCpu(c) ==
    /\ c \in connected \ serving
    /\ serving' = serving \union {c}
    /\ UNCHANGED <<ready, estado, pcPcb, est, signals, pcpVars, connected,
                   isFree, pidExecuting, stage, cpuOf, burstVars, cpuVars,
                   srtVars>>
-----------------------------------------------------------------------------
(* The planner's goroutine: wait for a token, then alternate the test of   *)
(* QueueReady.Size with GetFirstFree and the selection.                    *)
PcpWake ==
    /\ pcp = "wait" /\ notify
    /\ notify' = FALSE
    /\ pcp' = "size"
    /\ UNCHANGED <<ready, estado, pcPcb, est, signals, pcpCpu, copied,
                   cpuMapVars, stage, cpuOf, burstVars, cpuVars, srtVars>>

PcpSize ==
    /\ pcp = "size"
    /\ pcp' = IF ready = <<>> THEN "wait" ELSE "getCpu"
    /\ UNCHANGED <<ready, estado, pcPcb, est, signals, notify, pcpCpu, copied,
                   cpuMapVars, stage, cpuOf, burstVars, cpuVars, srtVars>>

FreeCpus_Any == connected
FreeCpus == {c \in connected : isFree[c]}

GetFirstFree ==
    /\ pcp = "getCpu"
    /\ \/ /\ FreeCpus = {}
          /\ pcp' = "wait"
          /\ UNCHANGED <<pcpCpu, isFree>>
       \/ \E c \in FreeCpus :
             /\ isFree' = [isFree EXCEPT ![c] = FALSE]
             /\ pcpCpu' = c
             /\ pcp' = "select"
    /\ UNCHANGED <<ready, estado, pcPcb, est, signals, notify, copied,
                   connected, serving, pidExecuting, stage, cpuOf, burstVars,
                   cpuVars, srtVars>>

FirstOf(S) == CHOOSE i \in S : \A j \in S : i <= j

(* The processes of q whose estimate is still the initial one, the others, *)
(* and the positions of the smallest estimate.                             *)
Fresh(q, e) == {i \in DOMAIN q : e[q[i]] = InitialEstimate}
Aged(q, e) == DOMAIN q \ Fresh(q, e)
Shortest(q, e) == {i \in DOMAIN q : \A j \in DOMAIN q : e[q[i]] <= e[q[j]]}

(* scheduleShortestJobFirst, with its rule against starvation: a fresh     *)
(* process goes first when it is the only kind there is, or when some aged *)
(* process would otherwise pass it.                                        *)
ShortestJobFirst_NoAging(q, e) == FirstOf(Shortest(q, e))
ShortestJobFirst(q, e) ==
    IF /\ Fresh(q, e) # {}
       /\ \/ Aged(q, e) = {}
          \/ \E i \in Aged(q, e) : InitialEstimate > e[q[i]]
    THEN FirstOf(Fresh(q, e))
    ELSE FirstOf(Shortest(q, e))

(* RemoveWhere takes the first entry of q that names p.                    *)
Without_Head(q, p) == Tail(q)
Without(q, p) == RemoveFirst(q, p)

(* The goroutine of handleCpuExecution starts for p, with the planner's    *)
(* CPU, and the planner goes on.                                           *)
Dispatch(p) ==
    /\ pcp' = "size" /\ pcpCpu' = NoCpu
    /\ stage' = [stage EXCEPT ![p] = "spawned"]
    /\ cpuOf' = [cpuOf EXCEPT ![p] = pcpCpu]

(* selectProcessToExecute: FIFO takes the head of READY at once, SJF and   *)
(* SRT begin with a copy of READY; without a process the CPU is given      *)
(* back.                                                                   *)
PcpSelect ==
    /\ pcp = "select"
    /\ IF ready = <<>>
       THEN /\ pcp' = "size" /\ pcpCpu' = NoCpu
            /\ isFree' = [isFree EXCEPT ![pcpCpu] = TRUE]
            /\ UNCHANGED <<ready, copied, stage, cpuOf>>
       ELSE \/ /\ Algorithm = "FIFO"
               /\ ready' = Tail(ready)
               /\ Dispatch(Head(ready))
               /\ UNCHANGED <<isFree, copied>>
            \/ /\ Algorithm # "FIFO"
               /\ copied' = ready
               /\ pcp' = "remove"
               /\ UNCHANGED <<ready, pcpCpu, isFree, stage, cpuOf>>
    /\ UNCHANGED <<estado, pcPcb, est, signals, notify, connected, serving,
                   pidExecuting, burstVars, cpuVars, srtVars>>

(* The process scheduleShortestJobFirst chooses from its copy leaves       *)
(* READY, where others may have entered since.                             *)
PcpRemove ==
    /\ pcp = "remove"
    /\ LET p == copied[ShortestJobFirst(copied, est)] IN
          /\ ready' = Without(ready, p)
          /\ Dispatch(p)
    /\ copied' = <<>>
    /\ UNCHANGED <<estado, pcPcb, est, signals, notify, cpuMapVars, burstVars,
                   cpuVars, srtVars>>
-----------------------------------------------------------------------------
(* handleCpuExecution up to the request: the CPU's entry names the process *)
(* before the process is EXECUTING.                                        *)
AssignCpu(p) ==
    /\ stage[p] = "spawned"
    /\ stage' = [stage EXCEPT ![p] = "assigned"]
    /\ pidExecuting' = [pidExecuting EXCEPT ![cpuOf[p]] = p]
    /\ UNCHANGED <<ready, estado, pcPcb, est, signals, pcpVars, connected,
                   serving, isFree, cpuOf, burstVars, cpuVars, srtVars>>

StartExecuting(p) ==
    /\ stage[p] = "assigned"
    /\ stage' = [stage EXCEPT ![p] = "sent"]
    /\ Enter(p, "EXECUTING")
    /\ UNCHANGED <<pcPcb, est, signals, pcpVars, cpuMapVars, cpuOf, burstVars,
                   cpuVars, interrupts>>

(* The answer sendProcessToExecute builds itself when the request fails.   *)
FailRequest(p) ==
    /\ stage' = [stage EXCEPT ![p] = "returned"]
    /\ code' = [code EXCEPT ![p] = "NeedReplan"]

SendFails(p) ==
    /\ stage[p] = "sent" /\ cpuOf[p] \notin serving
    /\ FailRequest(p)
    /\ UNCHANGED <<ready, estado, pcPcb, est, signals, pcpVars, cpuMapVars,
                   cpuOf, finished, blocked, cpuVars, srtVars>>

(* ExecuteProcessHandler up to its loop.                                   *)
CpuBegin(p) ==
    /\ stage[p] = "sent" /\ cpuOf[p] \in serving
    /\ stage' = [stage EXCEPT ![p] = "loop"]
    /\ regPC' = [regPC EXCEPT ![cpuOf[p]] = pcPcb[p]]
    /\ intPid' = [intPid EXCEPT ![cpuOf[p]] = p]
    /\ UNCHANGED <<ready, estado, pcPcb, est, signals, pcpVars, cpuMapVars,
                   cpuOf, burstVars, pending, srtVars>>

CanTurn(p) == ~pending[cpuOf[p]] /\ ~finished[p] /\ ~blocked[p]

(* One turn of the loop: Fetch, DecodeAndExecute and the test of IsLast.   *)
CpuTurn(p) ==
    LET c == cpuOf[p]
        last == regPC[c] = Len(Script[p]) - 1
    IN
    /\ stage[p] = "loop" /\ CanTurn(p)
    /\ regPC[c] < Len(Script[p])
    /\ LET instr == Script[p][regPC[c] + 1] IN
          /\ regPC' = [regPC EXCEPT ![c] = instr.next]
          /\ blocked' = [blocked EXCEPT ![p] = instr.kind = "SYSCALL"]
          /\ finished' = [finished EXCEPT ![p] = instr.kind = "EXIT" \/ last]
    /\ UNCHANGED <<ready, estado, pcPcb, est, signals, pcpVars, cpuMapVars,
                   stage, cpuOf, code, intPid, pending, srtVars>>

(* Memory has no instruction at that PC: the handler answers 404 at once.  *)
CpuFetchFails(p) ==
    /\ stage[p] = "loop" /\ CanTurn(p)
    /\ regPC[cpuOf[p]] >= Len(Script[p])
    /\ FailRequest(p)
    /\ UNCHANGED <<ready, estado, pcPcb, est, signals, pcpVars, cpuMapVars,
                   cpuOf, finished, blocked, cpuVars, srtVars>>

CpuLeaveLoop(p) ==
    /\ stage[p] = "loop" /\ ~CanTurn(p)
    /\ stage' = [stage EXCEPT ![p] = "left"]
    /\ UNCHANGED <<ready, estado, pcPcb, est, signals, pcpVars, cpuMapVars,
                   cpuOf, burstVars, cpuVars, srtVars>>

(* The handler tests InterruptPending once for NeedInterrupt and once more *)
(* for NeedFinish; the interrupt may arrive in between.                    *)
CpuTestInterrupt(p) ==
    /\ stage[p] = "left"
    /\ stage' = [stage EXCEPT ![p] = "answering"]
    /\ code' = [code EXCEPT ![p] =
                   IF pending[cpuOf[p]] THEN "NeedInterrupt" ELSE @]
    /\ UNCHANGED <<ready, estado, pcPcb, est, signals, pcpVars, cpuMapVars,
                   cpuOf, finished, blocked, cpuVars, srtVars>>

AnswerCode_InterruptFirst(p) ==
    IF code[p] = "NeedInterrupt" THEN code[p]
    ELSE IF blocked[p] /\ ~finished[p] THEN "NeedExecuteSyscall"
    ELSE IF finished[p] /\ ~blocked[p] /\ ~pending[cpuOf[p]] THEN "NeedFinish"
    ELSE code[p]
AnswerCode(p) ==
    IF blocked[p] /\ ~finished[p] THEN "NeedExecuteSyscall"
    ELSE IF finished[p] /\ ~blocked[p] /\ ~pending[cpuOf[p]] THEN "NeedFinish"
    ELSE code[p]

CpuAnswer(p) ==
    /\ stage[p] = "answering"
    /\ stage' = [stage EXCEPT ![p] = "returned"]
    /\ code' = [code EXCEPT ![p] = AnswerCode(p)]
    /\ pending' = [pending EXCEPT ![cpuOf[p]] = FALSE]
    /\ UNCHANGED <<ready, estado, pcPcb, est, signals, pcpVars, cpuMapVars,
                   cpuOf, finished, blocked, regPC, intPid, srtVars>>
-----------------------------------------------------------------------------
(* What the answer leaves in the PCB: a failed request carries the PCB's   *)
(* own PC; an interrupted burst is subtracted from the estimate, down to   *)
(* 0 at most, any other recomputes it.                                     *)
SavedPC_Kept(p) == pcPcb[p]
SavedPC(p) == IF code[p] = "NeedReplan" THEN pcPcb[p] ELSE regPC[cpuOf[p]]

NewEstimates_Unclamped(p) ==
    IF code[p] = "NeedInterrupt" THEN {est[p] - e : e \in Estimates}
                                 ELSE Estimates
NewEstimates(p) ==
    {e \in Estimates : code[p] = "NeedInterrupt" => e <= est[p]}

Freed_UnlessInterrupted(p) ==
    IF code[p] = "NeedInterrupt" THEN isFree
                                 ELSE [isFree EXCEPT ![cpuOf[p]] = TRUE]
Freed_UnlessFailed(p) ==
    IF code[p] = "NeedReplan" THEN isFree
                              ELSE [isFree EXCEPT ![cpuOf[p]] = TRUE]
Freed(p) == [isFree EXCEPT ![cpuOf[p]] = TRUE]

(* cpu.PIDExecuting = 0.                                                   *)
Unnamed_Not(p) == pidExecuting
Unnamed(p) == [pidExecuting EXCEPT ![cpuOf[p]] = 0]

(* handleCpuExecution with the answer: first the CPU is free again, then   *)
(* the answer is applied to the process.                                   *)
MarkAsFree(p) ==
    /\ stage[p] = "returned"
    /\ stage' = [stage EXCEPT ![p] = "freed"]
    /\ pidExecuting' = Unnamed(p)
    /\ isFree' = Freed(p)
    /\ pcPcb' = [pcPcb EXCEPT ![p] = SavedPC(p)]
    /\ \E e \in NewEstimates(p) : est' = [est EXCEPT ![p] = e]
    /\ UNCHANGED <<ready, estado, signals, pcpVars, connected, serving, cpuOf,
                   burstVars, cpuVars, srtVars>>

EndGoroutine(p) ==
    /\ stage[p] = "freed"
    /\ stage' = [stage EXCEPT ![p] = "none"]
    /\ cpuOf' = [cpuOf EXCEPT ![p] = NoCpu]
    /\ code' = [code EXCEPT ![p] = "none"]
    /\ finished' = [finished EXCEPT ![p] = FALSE]
    /\ blocked' = [blocked EXCEPT ![p] = FALSE]
    /\ UNCHANGED <<pcPcb, est, pcpVars, cpuMapVars, cpuVars, interrupts>>

(* NeedFinish.                                                             *)
ApplyFinish_Silent(p) ==
    /\ code[p] = "NeedFinish"
    /\ Enter(p, "EXIT")
    /\ UNCHANGED signals
    /\ EndGoroutine(p)
ApplyFinish(p) ==
    /\ code[p] = "NeedFinish"
    /\ Enter(p, "EXIT")
    /\ WillSignal(1)
    /\ EndGoroutine(p)

(* NeedReplan, NeedInterrupt, and the default: an answer without a code.   *)
ApplyReplan(p) ==
    /\ code[p] \in {"NeedReplan", "NeedInterrupt", "none"}
    /\ EnterReady(p)
    /\ WillSignal(2)
    /\ EndGoroutine(p)

(* NeedExecuteSyscall: handleBlockingSyscall blocks the process, or ends   *)
(* it when the syscall, its time or its device does not exist.             *)
ApplySyscall_Silent(p) ==
    /\ code[p] = "NeedExecuteSyscall"
    /\ \E s \in {"BLOCKED", "EXIT"} : Enter(p, s)
    /\ UNCHANGED signals
    /\ EndGoroutine(p)
ApplySyscall(p) ==
    /\ code[p] = "NeedExecuteSyscall"
    /\ \E s \in {"BLOCKED", "EXIT"} : Enter(p, s)
    /\ WillSignal(1)
    /\ EndGoroutine(p)
-----------------------------------------------------------------------------
Executing == {p \in Procs : estado[p] = "EXECUTING"}

(* checkForPreemption(p) looks for the executing process with the largest  *)
(* remaining time.  Elapsed time is not modelled, so any executing process *)
(* whose estimate is above the new one may be the victim, or none.         *)
CheckForPreemption(p) ==
    /\ p \in checks
    /\ checks' = checks \ {p}
    /\ \/ UNCHANGED interrupts
       \/ \E v \in Executing, c \in connected :
             /\ est[p] < est[v]
             /\ pidExecuting[c] = v
             /\ interrupts' = interrupts \union {<<v, c>>}
    /\ UNCHANGED <<ready, estado, pcPcb, est, signals, pcpVars, cpuMapVars,
                   stage, cpuOf, burstVars, cpuVars>>

(* SendInterruption and InterruptProcessHandler on the CPU it reaches.     *)
DeliverInterrupt(v, c) ==
    /\ <<v, c>> \in interrupts
    /\ interrupts' = interrupts \ {<<v, c>>}
    /\ pending' = [pending EXCEPT ![c] =
                      IF c \in serving /\ v = intPid[c] THEN TRUE ELSE @]
    /\ UNCHANGED <<ready, estado, pcPcb, est, signals, pcpVars, cpuMapVars,
                   stage, cpuOf, burstVars, regPC, intPid, checks>>
-----------------------------------------------------------------------------
Pcp == PcpWake \/ PcpSize \/ GetFirstFree \/ PcpSelect \/ PcpRemove

Goroutine(p) ==
    \/ AssignCpu(p) \/ StartExecuting(p) \/ SendFails(p) \/ CpuBegin(p)
    \/ CpuTurn(p) \/ CpuFetchFails(p) \/ CpuLeaveLoop(p)
    \/ CpuTestInterrupt(p) \/ CpuAnswer(p) \/ MarkAsFree(p)
    \/ ApplyFinish(p) \/ ApplyReplan(p) \/ ApplySyscall(p)

Preemption ==
    \/ \E p \in Procs : CheckForPreemption(p)
    \/ \E v \in Procs, c \in Cpus : DeliverInterrupt(v, c)

Next ==
    \/ Pcp \/ StartShortTermScheduler \/ Preemption
    \/ \E p \in Procs : Goroutine(p) \/ Admit(p) \/ Unblock(p) \/ Withdraw(p)
    \/ \E c \in Cpus : ConnectCpu(c) \/ ServeCpu(c)

Spec == Init /\ [][Next]_vars

(* Every goroutine that can take a step is run eventually by the Go        *)
(* scheduler, and a request that was sent arrives.  Nothing obliges a      *)
(* process to be admitted, an I/O to end or a CPU to connect.              *)
FairSpec ==
    /\ Spec
    /\ WF_vars(Pcp)
    /\ WF_vars(StartShortTermScheduler)
    /\ \A p \in Procs : WF_vars(Goroutine(p))
    /\ \A p \in Procs : WF_vars(CheckForPreemption(p))
    /\ \A v \in Procs, c \in Cpus : WF_vars(DeliverInterrupt(v, c))
    /\ \A c \in Cpus : WF_vars(ServeCpu(c))
-----------------------------------------------------------------------------
TypeOK ==
    /\ ready \in Seq(Procs)
    /\ estado \in [Procs -> Estados]
    /\ pcPcb \in [Procs -> Nat]
    /\ est \in [Procs -> Estimates]
    /\ notify \in BOOLEAN
    /\ signals \in Nat
    /\ pcp \in {"wait", "size", "getCpu", "select", "remove"}
    /\ IF pcp \in {"select", "remove"} THEN pcpCpu \in Cpus
                                      ELSE pcpCpu = NoCpu
    /\ copied \in Seq(Procs)
    /\ pcp = "remove" <=> copied # <<>>
    /\ serving \subseteq connected /\ connected \subseteq Cpus
    /\ isFree \in [Cpus -> BOOLEAN]
    /\ pidExecuting \in [Cpus -> Nat]
    /\ stage \in [Procs -> Stages]
    /\ cpuOf \in [Procs -> Cpus \union {NoCpu}]
    /\ \A p \in Procs : stage[p] \in Holding => cpuOf[p] \in Cpus
    /\ code \in [Procs -> Codes]
    /\ finished \in [Procs -> BOOLEAN]
    /\ blocked \in [Procs -> BOOLEAN]
    /\ regPC \in [Cpus -> Nat]
    /\ intPid \in [Cpus -> Int]
    /\ pending \in [Cpus -> BOOLEAN]
    /\ checks \subseteq Procs
    /\ interrupts \subseteq (Procs \X Cpus)

(* The goroutines and the planner that hold CPU c.                         *)
Holders(c) == {p \in Procs : stage[p] \in Holding /\ cpuOf[p] = c}

(* A CPU never runs two processes: the planner hands a CPU out again only  *)
(* after the goroutine of the previous process has marked it free, also    *)
(* when answers, releases and dispatches interleave.                       *)
OneProcessPerCpu ==
    \A p, q \in Procs :
        /\ stage[p] \in Holding /\ stage[q] \in Holding /\ p # q
        => cpuOf[p] # cpuOf[q]

(* IsFree tells the truth about every connected CPU: it is free exactly    *)
(* when neither the planner nor a goroutine holds it.  No CPU is handed    *)
(* out while held, and none stays busy with nobody left to free it.        *)
FreeMeansUnheld ==
    \A c \in connected : isFree[c] <=> pcpCpu # c /\ Holders(c) = {}

InReady(p) == Contains(ready, p)
AboutToRun(p) == stage[p] \in {"spawned", "assigned"}

(* A READY process is in exactly one place, once in QueueReady or in the   *)
(* goroutine that is about to execute it: the planner neither loses a      *)
(* process nor dispatches it twice.                                        *)
ReadyProcessHasOnePlace ==
    /\ IsInjective(ready)
    /\ \A p \in Procs : estado[p] = "READY" <=> InReady(p) \/ AboutToRun(p)
    /\ \A p \in Procs : ~(InReady(p) /\ AboutToRun(p))

(* What the invariants above rest on: the stage of a goroutine and the     *)
(* state of its process agree, and whoever holds a CPU holds a connected   *)
(* one that the planner does not have.                                     *)
StageMatchesEstado ==
    \A p \in Procs :
        /\ AboutToRun(p) => estado[p] = "READY"
        /\ estado[p] = "EXECUTING" <=> stage[p] \notin {"none", "spawned", "assigned"}

HeldCpusAreConnected ==
    /\ \A p \in Procs : stage[p] \in Holding =>
          cpuOf[p] \in connected /\ cpuOf[p] # pcpCpu
    /\ pcp \in {"select", "remove"} => pcpCpu \in connected

(* What the planner copied is still READY when it removes its choice: only *)
(* the planner takes processes out of QueueReady.                          *)
CopyIsReady == \A i \in DOMAIN copied : InReady(copied[i])

(* The inductive strengthening of the safety invariants.                   *)
SafetyInv ==
    /\ TypeOK
    /\ StageMatchesEstado /\ ReadyProcessHasOnePlace /\ CopyIsReady
    /\ HeldCpusAreConnected /\ FreeMeansUnheld /\ OneProcessPerCpu

(* Somebody will still wake the planner, or it is already looking.         *)
WakeupComing ==
    \/ notify \/ signals > 0 \/ pcp # "wait"
    \/ \E p \in Procs : stage[p] = "freed"

(* NotifyReady holds one token and drops the rest, yet no wake-up that     *)
(* matters is lost: while a process waits in READY and a CPU is free, a    *)
(* notification is on its way or the planner is at work.                   *)
NoLostWakeup ==
    ready # <<>> /\ FreeCpus # {} => WakeupComing

(* While cpu/exec runs p, the CPU and the Kernel's table both name p, and  *)
(* the table names p at no other connected CPU: GetCPUByPid(p), whatever   *)
(* order it goes through the table in, gives an interrupt for p the CPU    *)
(* that accepts it.  Not so for PID 0, which every idle CPU names too.     *)
RunningProcessIsNamed ==
    \A p \in Procs : stage[p] \in {"loop", "left", "answering"} =>
        /\ intPid[cpuOf[p]] = p
        /\ pidExecuting[cpuOf[p]] = p
        /\ estado[p] = "EXECUTING"
        /\ p # 0 => \A c \in connected \ {cpuOf[p]} : pidExecuting[c] # p

(* The same for every PID: false of PID 0 (see ShortTermZero.cfg).         *)
EveryPidIsNamedOnce ==
    \A p \in Procs : stage[p] \in {"loop", "left", "answering"} =>
        \A c \in connected \ {cpuOf[p]} : pidExecuting[c] # p

(* The PC a process finishes with is the one its EXIT or its last          *)
(* instruction leaves: no interrupt, replanning or change of CPU makes the *)
(* Kernel finish a process early.                                          *)
FinishedAtTheEnd ==
    \A p \in Procs : stage[p] = "freed" /\ code[p] = "NeedFinish" =>
        \E i \in DOMAIN Script[p] :
            /\ Script[p][i].kind = "EXIT" \/ i = Len(Script[p])
            /\ pcPcb[p] = Script[p][i].next

(* A blocking syscall that the CPU executed reaches handleBlockingSyscall. *)
SyscallReachesTheKernel ==
    \A p \in Procs : stage[p] = "freed" /\ blocked[p] =>
        code[p] = "NeedExecuteSyscall"

(* A process whose burst executed a blocking syscall is not READY after    *)
(* it: an interrupt that arrives with the syscall does not swallow it.     *)
(* (For scripts that do not end in a syscall; see SyscallReachesTheKernel.)*)
SyscallBlocks ==
    [][\A p \in Procs :
          stage[p] = "freed" /\ stage'[p] = "none" /\ blocked[p]
            /\ ~finished[p]
          => estado'[p] \in {"BLOCKED", "EXIT"}]_vars

(* The rule against starvation of SJF and SRT: a process that has run is   *)
(* dispatched only if no process that has never run (its estimate is the   *)
(* initial one) is waiting, save those that entered READY after the        *)
(* planner copied it.  So a fresh process is passed by one aged at most.   *)
FreshBeforeAged ==
    [][\A p \in Procs :
          /\ stage[p] = "none" /\ stage'[p] = "spawned"
          /\ est[p] # InitialEstimate
          => \A i \in DOMAIN ready :
                est[ready[i]] = InitialEstimate => ~Contains(copied, ready[i])]_vars

(* With the scheduler's fairness, a READY process is executed some day.    *)
EveryReadyProcessRuns ==
    \A p \in Procs : estado[p] = "READY" ~> estado[p] = "EXECUTING"

-----------------------------------------------------------------------------
(* The abstract state of a process: it is running from the moment the      *)
(* planner's goroutine has it until the CPU is released.                   *)
AbstractState(p) ==
    IF stage[p] \in Holding        THEN "running"
    ELSE IF stage[p] = "freed"     THEN "leaving"
    ELSE IF estado[p] = "NEW"      THEN "new"
    ELSE IF estado[p] = "READY"    THEN "ready"
    ELSE IF estado[p] = "BLOCKED"  THEN "blocked"
    ELSE "done"

Abstract == INSTANCE CpuScheduling WITH
    state <- [p \in Procs |-> AbstractState(p)],
    runsOn <- [p \in Procs |-> IF stage[p] \in Holding THEN cpuOf[p] ELSE NoCpu],
    online <- connected

(* Every step of the planner, the goroutines and the CPUs is a step of the *)
(* abstract scheduler or invisible to it.                                  *)
ImplementsSafely == Abstract!SafeSpec

(* And the abstract scheduler's progress too, when every CPU connected     *)
(* before the first admission: no ready process and idle CPU are left      *)
(* waiting for each other.                                                 *)
ImplementsFairly == Abstract!FairSpec
=============================================================================
