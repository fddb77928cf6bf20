---------------------------- MODULE UserMemory ----------------------------
(***************************************************************************)
(* The handlers of Memory, one step per critical section: what the two     *)
(* planners, the CPUs and the dumps ask of it at the same time.            *)
(*                                                                         *)
(* A thread is a client with at most one request at Memory: the PLP, the   *)
(* PMP, and each process (its CPU, or the goroutine of its dump).  A       *)
(* section under ProcessDataLock or UMemoryLock is one step, since no      *)
(* section takes the other lock; a lock appears in the state only when a   *)
(* handler returns and keeps it.  What the code does to the tables without *)
(* the lock is a step too, and where it may overlap a section that writes  *)
(* the same Go map the program may abort (Crash).                          *)
(*                                                                         *)
(* Abstracted: bytes (a frame has the last page written to it), offsets of *)
(* the swap file (every entry is appended, so an entry has its own pages), *)
(* bits of use and modification, which nothing reads, metrics, delays, and *)
(* which free frames are found first.  One goroutine asks for swaps, so    *)
(* activeMemoryOperations never refuses and is left out.  The life of a    *)
(* process is reduced to what decides the requests it may be named in.     *)
(***************************************************************************)
EXTENDS Integers, Sequences, FiniteSets

CONSTANTS
    Procs,         \* the processes
    Plp, Pmp,      \* the clients that are not processes
    Frames,        \* the frames of UserMemory
    Need,          \* the pages each process has
    Overruns,      \* the processes that may fetch beyond their script
    Overlap,       \* a process may be ended while the PMP has it at Memory
    WriteOutcomes, \* whether the swap file may refuse a write
    LateReturns    \* a wait may end after its process was found BLOCKED and
                   \* then suspended

None == "none"
NoData == <<None, 0>>
Planners == {Plp, Pmp}
Threads == Procs \union Planners

ASSUME ThreadsAssumption ==
    /\ Plp \notin Procs /\ Pmp \notin Procs /\ Plp # Pmp
    /\ None \notin Threads
ASSUME NeedAssumption == Need \in [Procs -> Nat]
ASSUME FramesAssumption == Frames \subseteq Int /\ IsFiniteSet(Frames)
ASSUME FaultsAssumption ==
    /\ Overruns \subseteq Procs
    /\ Overlap \in BOOLEAN
    /\ WriteOutcomes \subseteq BOOLEAN
    /\ LateReturns \in BOOLEAN

VARIABLES
    estado,       \* what the Kernel is doing with each process
    stage,        \* where the handler of each thread's request is
    job,          \* the process a planner's request is about
    hand,         \* the frames a handler has in a local variable
    page,         \* the page a process is writing
    free,         \* FreeFrames
    mem,          \* UserMemory: the page each frame has
    written,      \* the pages each process has written
    procTable,    \* the keys of ProcessTable, PageTables and ProcessMetrics
    framesTable,  \* ProcessFramesTable
    pageTable,    \* the pages present in each table, and their frames
    swapTable,    \* ProcessSwapTable, with the data of each entry
    scripts,      \* the keys of InstructionsMap
    copy,         \* the data a swap has in a local variable
    pdLock,       \* ProcessDataLock, when a handler returned with it
    umLock,       \* UMemoryLock, likewise
    swapMutex,    \* memorySwapMutex is held
    up            \* Memory has not aborted

threadVars == <<stage, job, hand, page, copy>>
frameVars == <<free, mem, written>>
tableVars == <<procTable, framesTable, pageTable, swapTable, scripts>>
lockVars == <<pdLock, umLock>>
vars == <<estado, threadVars, frameVars, tableVars, lockVars, swapMutex, up>>

Pages(p) == 1..Need[p]
Data == (Procs \union {None}) \X Nat
(* A Go map whose keys are processes.                                      *)
IsTable(table, V) ==
    DOMAIN table \subseteq Procs /\ table \in [DOMAIN table -> V]
With(table, p, v) ==
    [q \in DOMAIN table \union {p} |-> IF q = p THEN v ELSE table[q]]
Without(table, p) == [q \in DOMAIN table \ {p} |-> table[q]]

Estados == {"NEW", "ACTIVE", "BLOCKED", "SUSPEND_BLOCKED", "SUSPREADY",
            "EXIT", "ended"}
PlpStages == {"capacity", "script", "count", "allocate", "register", "map",
              "clear", "release", "forget"}
PutStages == {"put", "copyOut", "recordOut", "absence"}
RemoveStages == {"remove", "reserve", "readFile", "restore", "checkTable",
                 "remap", "record", "presence"}
PmpStages == {"isInSwap", "pmpCapacity", "direct"}
                 \union PutStages \union RemoveStages
DumpStages == {"dump", "dumpSwap", "dumpCopy", "dumped"}
UserStages == {"write", "writeCheck", "writeCount"} \union DumpStages
Stages == {"idle"} \union PlpStages \union PmpStages \union UserStages

Init ==
    /\ estado = [p \in Procs |-> "NEW"]
    /\ stage = [t \in Threads |-> "idle"]
    /\ job = [t \in Planners |-> None]
    /\ hand = [t \in Threads |-> <<>>]
    /\ page = [p \in Procs |-> 0]
    /\ copy = <<>>
    /\ free = Frames
    /\ mem = [f \in Frames |-> NoData]
    /\ written = [p \in Procs |-> {}]
    /\ procTable = {}
    /\ framesTable = <<>>
    /\ pageTable = [p \in Procs |-> <<>>]
    /\ swapTable = <<>>
    /\ scripts = {}
    /\ pdLock = "free" /\ umLock = "free"
    /\ swapMutex = FALSE
    /\ up = TRUE
-----------------------------------------------------------------------------
(* A handler that returned without RUnlock lets readers in until a writer  *)
(* waits, and no writer ever; one that returned without Unlock lets nobody *)
(* in.                                                                     *)
MayRead == pdLock # "shut"
MayWrite == pdLock = "free"
MayUseMemory == umLock = "free"
KeepReadLock == pdLock' = IF pdLock = "free" THEN "kept" ELSE pdLock

At(t, s) == up /\ stage[t] = s
Goto(t, s) == stage' = [stage EXCEPT ![t] = s]

(* A planner sends a request about p.                                      *)
Ask(t, p, s) ==
    /\ At(t, "idle")
    /\ Goto(t, s)
    /\ job' = [job EXCEPT ![t] = p]

(* The request is answered, and the planner does s with the process.       *)
Answer(t, s) ==
    /\ Goto(t, "idle")
    /\ job' = [job EXCEPT ![t] = None]
    /\ hand' = [hand EXCEPT ![t] = <<>>]
    /\ estado' = [estado EXCEPT ![job[t]] = s]
Same(t) == estado[job[t]]

(* The first free frames FreeFrames has.                                   *)
FirstFree(n) ==
    {s \in [1..n -> free] :
        /\ \A i, j \in 1..n : i < j => s[i] < s[j]
        /\ \A f \in free : (\A i \in 1..n : s[i] # f) =>
              \A i \in 1..n : s[i] < f}
InUse(s) == {s[i] : i \in DOMAIN s}

(* UserMemoryCapacityHandler.                                              *)
Fits(p) == Cardinality(free) >= Need[p]
-----------------------------------------------------------------------------
(* The Kernel executes processes, blocks and suspends them, and ends them. *)
(* A device that goes away ends the process it was serving, wherever the   *)
(* PMP has it.                                                             *)
Move(p, from, to) ==
    /\ up /\ stage[p] = "idle" /\ estado[p] = from
    /\ estado' = [estado EXCEPT ![p] = to]
    /\ UNCHANGED <<threadVars, frameVars, tableVars, lockVars, swapMutex, up>>
Block(p) == Move(p, "ACTIVE", "BLOCKED")
(* Where a process goes when its wait ends.  Its state is read first and   *)
(* changed later: one that was BLOCKED when it was read goes to READY,     *)
(* although its timer may have suspended it by then.                       *)
AfterWait(p) ==
    CASE estado[p] = "BLOCKED" -> {"ACTIVE"}
      [] estado[p] = "SUSPEND_BLOCKED" ->
            {"SUSPREADY"} \union (IF LateReturns THEN {"ACTIVE"} ELSE {})
      [] OTHER -> {}
Unblock(p) == \E s \in AfterWait(p) : Move(p, estado[p], s)
Finish(p) == Move(p, "ACTIVE", "EXIT")
Withdraw(p) ==
    /\ Overlap \/ job[Pmp] # p
    /\ \/ Move(p, "BLOCKED", "EXIT")
       \/ Move(p, "SUSPEND_BLOCKED", "EXIT")
       \/ Move(p, "SUSPREADY", "EXIT")

(* The timer of a wait, be it an I/O or a dump.                            *)
Suspend(p) ==
    /\ up /\ estado[p] = "BLOCKED"
    /\ estado' = [estado EXCEPT ![p] = "SUSPEND_BLOCKED"]
    /\ UNCHANGED <<threadVars, frameVars, tableVars, lockVars, swapMutex, up>>
-----------------------------------------------------------------------------
(* ReserveMemory.  The answer of the capacity may be old by the time the   *)
(* request comes, and the first count by the time of the second; a failure *)
(* of the second returns with the lock.                                    *)
AskCapacity(p) ==
    /\ estado[p] = "NEW"
    /\ Ask(Plp, p, "capacity")
    /\ UNCHANGED <<estado, hand, page, copy, frameVars, tableVars, lockVars,
                   swapMutex, up>>

Capacity ==
    /\ At(Plp, "capacity") /\ MayUseMemory
    /\ IF Fits(job[Plp])
       THEN Goto(Plp, "script") /\ UNCHANGED <<estado, job, hand>>
       ELSE Answer(Plp, Same(Plp))
    /\ UNCHANGED <<page, copy, frameVars, tableVars, lockVars, swapMutex, up>>

(* The script may be missing or unreadable: the process stays NEW.         *)
LoadScript ==
    /\ At(Plp, "script")
    /\ \/ /\ MayWrite
          /\ scripts' = scripts \union {job[Plp]}
          /\ Goto(Plp, "count")
          /\ UNCHANGED <<estado, job, hand>>
       \/ Answer(Plp, Same(Plp)) /\ UNCHANGED scripts
    /\ UNCHANGED <<page, copy, frameVars, procTable, framesTable, pageTable,
                   swapTable, lockVars, swapMutex, up>>

Count ==
    /\ At(Plp, "count") /\ MayUseMemory
    /\ IF Fits(job[Plp])
       THEN Goto(Plp, "allocate") /\ UNCHANGED <<estado, job, hand>>
       ELSE Answer(Plp, Same(Plp))
    /\ UNCHANGED <<page, copy, frameVars, tableVars, lockVars, swapMutex, up>>

Allocate ==
    /\ At(Plp, "allocate") /\ MayUseMemory
    /\ IF Fits(job[Plp])
       THEN \E s \in FirstFree(Need[job[Plp]]) :
               /\ hand' = [hand EXCEPT ![Plp] = s]
               /\ free' = free \ InUse(s)
               /\ Goto(Plp, "register")
               /\ UNCHANGED <<estado, job, umLock>>
       ELSE /\ Answer(Plp, Same(Plp))
            /\ umLock' = "kept"
            /\ UNCHANGED free
    /\ UNCHANGED <<page, copy, mem, written, tableVars, pdLock, swapMutex, up>>

(* A process Memory already has keeps what it has.                         *)
Register ==
    /\ At(Plp, "register") /\ MayWrite
    /\ LET p == job[Plp] IN
       IF p \in procTable
       THEN /\ MayUseMemory
            /\ free' = free \union InUse(hand[Plp])
            /\ Answer(Plp, Same(Plp))
            /\ UNCHANGED <<procTable, framesTable, pageTable>>
       ELSE /\ procTable' = procTable \union {p}
            /\ framesTable' = With(framesTable, p, hand[Plp])
            /\ pageTable' = [pageTable EXCEPT ![p] = <<>>]
            /\ Goto(Plp, "map")
            /\ UNCHANGED <<estado, job, hand, free>>
    /\ UNCHANGED <<page, copy, mem, written, swapTable, scripts, lockVars,
                   swapMutex, up>>

(* MapPageToFrame for each page, without the lock; then the process goes   *)
(* to READY.                                                               *)
MapPages ==
    /\ At(Plp, "map")
    /\ pageTable' = [pageTable EXCEPT ![job[Plp]] = hand[Plp]]
    /\ Answer(Plp, "ACTIVE")
    /\ UNCHANGED <<page, copy, frameVars, procTable, framesTable, swapTable,
                   scripts, lockVars, swapMutex, up>>
-----------------------------------------------------------------------------
(* ClearMemoryProcess, from FinishProcess: frames first, tables after.     *)
AskClear(p) ==
    /\ estado[p] = "EXIT"
    /\ Ask(Plp, p, "clear")
    /\ UNCHANGED <<estado, hand, page, copy, frameVars, tableVars, lockVars,
                   swapMutex, up>>

LookUp_FramesOnly ==
    /\ At(Plp, "clear") /\ MayRead
    /\ LET p == job[Plp] IN
       IF p \notin DOMAIN framesTable
       THEN Answer(Plp, "ended")
       ELSE /\ hand' = [hand EXCEPT ![Plp] = framesTable[p]]
            /\ Goto(Plp, IF framesTable[p] = <<>> THEN "forget" ELSE "release")
            /\ UNCHANGED <<estado, job>>
    /\ UNCHANGED <<page, copy, frameVars, tableVars, lockVars, swapMutex, up>>
LookUp ==
    /\ At(Plp, "clear") /\ MayRead
    /\ LET p == job[Plp] IN
       IF p \notin procTable /\ p \notin DOMAIN swapTable
       THEN Answer(Plp, "ended")
       ELSE LET s == IF p \notin DOMAIN framesTable THEN <<>> ELSE framesTable[p] IN
            /\ hand' = [hand EXCEPT ![Plp] = s]
            /\ Goto(Plp, IF s = <<>> THEN "forget" ELSE "release")
            /\ UNCHANGED <<estado, job>>
    /\ UNCHANGED <<page, copy, frameVars, tableVars, lockVars, swapMutex, up>>

Release ==
    /\ At(Plp, "release") /\ MayUseMemory
    /\ free' = free \union InUse(hand[Plp])
    /\ Goto(Plp, "forget")
    /\ UNCHANGED <<estado, job, hand, page, copy, mem, written, tableVars,
                   lockVars, swapMutex, up>>

Forget_KeepsSwap ==
    /\ At(Plp, "forget") /\ MayWrite
    /\ LET p == job[Plp] IN
       /\ procTable' = procTable \ {p}
       /\ scripts' = scripts \ {p}
       /\ framesTable' = Without(framesTable, p)
       /\ pageTable' = [pageTable EXCEPT ![p] = <<>>]
    /\ Answer(Plp, "ended")
    /\ UNCHANGED <<page, copy, frameVars, swapTable, lockVars, swapMutex, up>>
Forget ==
    /\ At(Plp, "forget") /\ MayWrite
    /\ LET p == job[Plp] IN
       /\ procTable' = procTable \ {p}
       /\ scripts' = scripts \ {p}
       /\ framesTable' = Without(framesTable, p)
       /\ pageTable' = [pageTable EXCEPT ![p] = <<>>]
       /\ swapTable' = Without(swapTable, p)
    /\ Answer(Plp, "ended")
    /\ UNCHANGED <<page, copy, frameVars, lockVars, swapMutex, up>>
-----------------------------------------------------------------------------
(* The PMP has its answer, and the mutex is released.                      *)
PmpAnswer_KeepsMutex(s) == Answer(Pmp, s) /\ copy' = <<>> /\ UNCHANGED swapMutex
PmpAnswer(s) == Answer(Pmp, s) /\ swapMutex' = FALSE /\ copy' = <<>>
PmpGoes(s) == Goto(Pmp, s) /\ UNCHANGED <<estado, job, hand, copy, swapMutex>>
Swapped == job[Pmp]

(* PutProcessInSwap.  The frames are released when they have been copied,  *)
(* and the tables say so after the file is written.                        *)
AskPut(p) ==
    /\ estado[p] = "SUSPEND_BLOCKED"
    /\ Ask(Pmp, p, "put")
    /\ UNCHANGED <<estado, hand, page, copy, frameVars, tableVars, lockVars,
                   swapMutex, up>>

PutLook ==
    /\ At(Pmp, "put") /\ MayWrite /\ ~swapMutex
    /\ IF Swapped \in DOMAIN swapTable \/ Swapped \notin DOMAIN framesTable
       THEN PmpAnswer(Same(Pmp))
       ELSE /\ hand' = [hand EXCEPT ![Pmp] = framesTable[Swapped]]
            /\ Goto(Pmp, IF framesTable[Swapped] = <<>>
                         THEN "recordOut" ELSE "copyOut")
            /\ swapMutex' = TRUE
            /\ UNCHANGED <<estado, job, copy>>
    /\ UNCHANGED <<page, frameVars, tableVars, lockVars, up>>

CopyOut ==
    /\ At(Pmp, "copyOut") /\ MayUseMemory
    /\ copy' = [i \in 1..Len(hand[Pmp]) |-> mem[hand[Pmp][i]]]
    /\ free' = free \union InUse(hand[Pmp])
    /\ Goto(Pmp, "recordOut")
    /\ UNCHANGED <<estado, job, hand, page, mem, written, tableVars, lockVars,
                   swapMutex, up>>

(* The swap file cannot be opened: nothing has changed yet.                *)
OpenFails ==
    /\ At(Pmp, "copyOut")
    /\ PmpAnswer(Same(Pmp))
    /\ UNCHANGED <<page, frameVars, tableVars, lockVars, up>>

(* A write that fails leaves the table with frames that are free.          *)
RecordOut ==
    /\ At(Pmp, "recordOut") /\ MayWrite
    /\ \E ok \in WriteOutcomes :
          IF ok \/ hand[Pmp] = <<>>
          THEN /\ swapTable' = With(swapTable, Swapped, copy)
               /\ framesTable' = Without(framesTable, Swapped)
               /\ PmpGoes("absence")
          ELSE /\ PmpAnswer(Same(Pmp))
               /\ UNCHANGED <<swapTable, framesTable>>
    /\ UNCHANGED <<page, frameVars, procTable, pageTable, scripts, lockVars, up>>

(* updatePageTablePresenceBitsSafe, which takes no lock.                   *)
MarkAbsent ==
    /\ At(Pmp, "absence")
    /\ pageTable' = [pageTable EXCEPT ![Swapped] = <<>>]
    /\ PmpAnswer(Same(Pmp))
    /\ UNCHANGED <<page, frameVars, procTable, framesTable, swapTable, scripts,
                   lockVars, up>>
-----------------------------------------------------------------------------
(* desuspendProcess asks where the process is and whether it fits; a       *)
(* process that never reached SWAP goes to READY as it is.                 *)
AskIsInSwap(p) ==
    /\ estado[p] = "SUSPREADY"
    /\ Ask(Pmp, p, "isInSwap")
    /\ UNCHANGED <<estado, hand, page, copy, frameVars, tableVars, lockVars,
                   swapMutex, up>>

IsProcessInSwap ==
    /\ At(Pmp, "isInSwap") /\ MayRead
    /\ PmpGoes(IF Swapped \notin DOMAIN swapTable THEN "direct" ELSE "pmpCapacity")
    /\ UNCHANGED <<page, frameVars, tableVars, lockVars, up>>

PmpCapacity ==
    /\ MayUseMemory
    /\ \/ At(Pmp, "direct") /\ PmpAnswer(IF Fits(Swapped) THEN "ACTIVE"
                                         ELSE Same(Pmp))
       \/ /\ At(Pmp, "pmpCapacity")
          /\ IF Fits(Swapped) THEN PmpGoes("remove") ELSE PmpAnswer(Same(Pmp))
    /\ UNCHANGED <<page, frameVars, tableVars, lockVars, up>>

(* RemoveProcessInSwap.  An error makes the Kernel end the process.        *)
RemoveLook ==
    /\ At(Pmp, "remove") /\ MayWrite /\ ~swapMutex
    /\ IF Swapped \notin DOMAIN swapTable
       THEN PmpAnswer("EXIT") /\ UNCHANGED swapTable
       ELSE IF Swapped \in DOMAIN framesTable
       THEN /\ swapTable' = Without(swapTable, Swapped)
            /\ PmpAnswer("ACTIVE")
       ELSE /\ copy' = swapTable[Swapped] /\ swapMutex' = TRUE
            /\ Goto(Pmp, "reserve")
            /\ UNCHANGED <<estado, job, hand, swapTable>>
    /\ UNCHANGED <<page, frameVars, procTable, framesTable, pageTable, scripts,
                   lockVars, up>>

(* validateProcessExists, without the lock, and the frames.                *)
ReserveFrames_Unmarked ==
    /\ At(Pmp, "reserve") /\ MayUseMemory
    /\ IF Swapped \notin procTable \/ Cardinality(free) < Len(copy)
       THEN PmpAnswer("EXIT") /\ UNCHANGED free
       ELSE \E s \in FirstFree(Len(copy)) :
               /\ hand' = [hand EXCEPT ![Pmp] = s]
               /\ Goto(Pmp, IF s = <<>> THEN "record" ELSE "readFile")
               /\ UNCHANGED <<estado, job, copy, swapMutex, free>>
    /\ UNCHANGED <<page, mem, written, tableVars, lockVars, up>>
ReserveFrames ==
    /\ At(Pmp, "reserve") /\ MayUseMemory
    /\ IF Swapped \notin procTable \/ Cardinality(free) < Len(copy)
       THEN PmpAnswer("EXIT") /\ UNCHANGED free
       ELSE \E s \in FirstFree(Len(copy)) :
               /\ hand' = [hand EXCEPT ![Pmp] = s]
               /\ free' = free \ InUse(s)
               /\ Goto(Pmp, IF s = <<>> THEN "record" ELSE "readFile")
               /\ UNCHANGED <<estado, job, copy, swapMutex>>
    /\ UNCHANGED <<page, mem, written, tableVars, lockVars, up>>

ReadFile ==
    /\ At(Pmp, "readFile")
    /\ PmpGoes("restore")
    /\ UNCHANGED <<page, frameVars, tableVars, lockVars, up>>

(* The swap file cannot be opened or read: the frames are given back.      *)
RollBack_Forgotten == PmpAnswer("EXIT") /\ UNCHANGED free
RollBack ==
    /\ MayUseMemory
    /\ free' = free \union InUse(hand[Pmp])
    /\ PmpAnswer("EXIT")
ReadFails ==
    /\ At(Pmp, "readFile")
    /\ RollBack
    /\ UNCHANGED <<page, mem, written, tableVars, lockVars, up>>

Restore ==
    /\ At(Pmp, "restore") /\ MayUseMemory
    /\ mem' = [f \in Frames |->
          IF f \in InUse(hand[Pmp])
          THEN copy[CHOOSE i \in DOMAIN copy : hand[Pmp][i] = f] ELSE mem[f]]
    /\ PmpGoes("checkTable")
    /\ UNCHANGED <<page, free, written, tableVars, lockVars, up>>

CheckTable ==
    /\ At(Pmp, "checkTable") /\ MayRead
    /\ IF Swapped \in procTable
       THEN PmpGoes("remap") /\ UNCHANGED free
       ELSE RollBack
    /\ UNCHANGED <<page, mem, written, tableVars, lockVars, up>>

(* MapPageToFrame without the lock; a table that is gone by now makes the  *)
(* handler panic, with its frames taken.                                   *)
Remap_Forgotten ==
    /\ At(Pmp, "remap")
    /\ PmpGoes("record")
    /\ UNCHANGED <<page, frameVars, tableVars, lockVars, up>>
Remap ==
    /\ At(Pmp, "remap")
    /\ IF Swapped \in procTable
       THEN /\ pageTable' = [pageTable EXCEPT ![Swapped] = hand[Pmp]]
            /\ PmpGoes("record")
       ELSE PmpAnswer("EXIT") /\ UNCHANGED pageTable
    /\ UNCHANGED <<page, frameVars, procTable, framesTable, swapTable, scripts,
                   lockVars, up>>

Record ==
    /\ At(Pmp, "record") /\ MayWrite
    /\ framesTable' = With(framesTable, Swapped, hand[Pmp])
    /\ swapTable' = Without(swapTable, Swapped)
    /\ PmpGoes("presence")
    /\ UNCHANGED <<page, frameVars, procTable, pageTable, scripts, lockVars, up>>

(* The new entries are present already.                                    *)
MarkPresent ==
    /\ At(Pmp, "presence")
    /\ PmpAnswer("ACTIVE")
    /\ UNCHANGED <<page, frameVars, tableVars, lockVars, up>>
-----------------------------------------------------------------------------
(* The requests of a CPU.  WRITE: SearchFrame, then WriteToMemory, which   *)
(* writes before it asks whether the process exists.                       *)
SearchFrame_FromOne(p, i) ==
    /\ At(p, "idle") /\ estado[p] = "ACTIVE" /\ MayRead
    /\ hand' = [hand EXCEPT ![p] =
          <<IF i + 1 \in DOMAIN pageTable[p] THEN pageTable[p][i + 1] ELSE -1>>]
    /\ page' = [page EXCEPT ![p] = i]
    /\ Goto(p, "write")
    /\ UNCHANGED <<estado, job, copy, frameVars, tableVars, lockVars,
                   swapMutex, up>>
SearchFrame(p, i) ==
    /\ At(p, "idle") /\ estado[p] = "ACTIVE" /\ MayRead
    /\ i \in DOMAIN pageTable[p]
    /\ hand' = [hand EXCEPT ![p] = <<pageTable[p][i]>>]
    /\ page' = [page EXCEPT ![p] = i]
    /\ Goto(p, "write")
    /\ UNCHANGED <<estado, job, copy, frameVars, tableVars, lockVars,
                   swapMutex, up>>

Write(p) ==
    /\ At(p, "write") /\ MayUseMemory
    /\ mem' = [mem EXCEPT ![hand[p][1]] = <<p, page[p]>>]
    /\ written' = [written EXCEPT ![p] = @ \union {page[p]}]
    /\ Goto(p, "writeCheck")
    /\ hand' = [hand EXCEPT ![p] = <<>>]
    /\ page' = [page EXCEPT ![p] = 0]
    /\ UNCHANGED <<estado, job, copy, free, tableVars, lockVars, swapMutex, up>>

WriteCheck(p) ==
    /\ At(p, "writeCheck") /\ MayRead
    /\ Goto(p, IF p \in procTable THEN "writeCount" ELSE "idle")
    /\ UNCHANGED <<estado, job, hand, page, copy, frameVars, tableVars,
                   lockVars, swapMutex, up>>

(* The bits of the page, without the lock, and the metric.                 *)
WriteCount(p) ==
    /\ At(p, "writeCount") /\ MayWrite
    /\ Goto(p, "idle")
    /\ UNCHANGED <<estado, job, hand, page, copy, frameVars, tableVars,
                   lockVars, swapMutex, up>>

(* GeInstruction of a process without script, or beyond its end, returns   *)
(* with the lock.                                                          *)
FetchFails(p) ==
    /\ At(p, "idle") /\ estado[p] = "ACTIVE" /\ MayRead
    /\ p \in Overruns \/ p \notin scripts
    /\ KeepReadLock
    /\ UNCHANGED <<estado, threadVars, frameVars, tableVars, umLock,
                   swapMutex, up>>

(* ExecuteDumpMemory, while the process is BLOCKED and may be suspended.   *)
AskDump(p) ==
    /\ At(p, "idle") /\ estado[p] = "ACTIVE"
    /\ Goto(p, "dump")
    /\ estado' = [estado EXCEPT ![p] = "BLOCKED"]
    /\ UNCHANGED <<job, hand, page, copy, frameVars, tableVars, lockVars,
                   swapMutex, up>>

DumpAnswer(p, s) == Goto(p, "idle") /\ estado' = [estado EXCEPT ![p] = s]

DumpLook(p) ==
    /\ At(p, "dump") /\ MayRead
    /\ IF p \in procTable
       THEN Goto(p, "dumpSwap") /\ UNCHANGED <<estado, pdLock>>
       ELSE DumpAnswer(p, "EXIT") /\ KeepReadLock
    /\ UNCHANGED <<job, hand, page, copy, frameVars, tableVars, umLock,
                   swapMutex, up>>

DumpInSwap(p) ==
    /\ At(p, "dumpSwap")
    /\ IF p \notin DOMAIN swapTable
       THEN Goto(p, "dumpCopy") /\ UNCHANGED estado
       ELSE DumpAnswer(p, "EXIT")
    /\ UNCHANGED <<job, hand, page, copy, frameVars, tableVars, lockVars,
                   swapMutex, up>>

DumpCopy(p) ==
    /\ At(p, "dumpCopy") /\ MayUseMemory
    /\ Goto(p, "dumped")
    /\ UNCHANGED <<estado, job, hand, page, copy, frameVars, tableVars,
                   lockVars, swapMutex, up>>

(* The dump file cannot be created, or not be written.                     *)
DumpFails(p) ==
    /\ At(p, "dump") \/ (At(p, "dumpCopy") /\ MayUseMemory)
    /\ Overlap \/ job[Pmp] # p
    /\ DumpAnswer(p, "EXIT")
    /\ UNCHANGED <<job, hand, page, copy, frameVars, tableVars, lockVars,
                   swapMutex, up>>

(* The Kernel has the answer of the dump.                                  *)
DumpReturn(p) ==
    /\ At(p, "dumped")
    /\ \E s \in AfterWait(p) : DumpAnswer(p, s)
    /\ UNCHANGED <<job, hand, page, copy, frameVars, tableVars, lockVars,
                   swapMutex, up>>
-----------------------------------------------------------------------------
(* A writer waits for ProcessDataLock while a reader that is gone holds it.*)
WriterStages == {"script", "register", "forget", "put", "recordOut", "remove",
                 "record", "writeCount"}
WriterWaits(t) ==
    /\ up /\ stage[t] \in WriterStages /\ pdLock = "kept"
    /\ pdLock' = "shut"
    /\ UNCHANGED <<estado, threadVars, frameVars, tableVars, umLock,
                   swapMutex, up>>

(* The maps a stage uses without ProcessDataLock, and those it writes with *)
(* it.  Where both can be at work the Go program may abort.                *)
Unguarded(s) ==
    CASE s \in {"map", "remap", "writeCount"} -> {"PageTables"}
      [] s = "reserve" -> {"ProcessTable"}
      [] s \in {"absence", "presence"} ->
            {"ProcessTable", "PageTables", "ProcessMetrics"}
      [] s = "dumpSwap" -> {"ProcessSwapTable"}
      [] s = "dumpCopy" -> {"PageTables", "ProcessMetrics"}
      [] OTHER -> {}
WrittenMaps(s) ==
    CASE s = "register" -> {"ProcessTable", "PageTables", "ProcessMetrics"}
      [] s = "forget" -> {"ProcessTable", "PageTables", "ProcessMetrics",
                          "ProcessSwapTable"}
      [] s \in {"recordOut", "record"} -> {"ProcessSwapTable"}
      [] OTHER -> {}
Race(t, u) ==
    /\ MayWrite
    /\ Unguarded(stage[t]) \intersect WrittenMaps(stage[u]) # {}
Crash ==
    /\ up
    /\ \E t, u \in Threads : Race(t, u)
    /\ up' = FALSE
    /\ UNCHANGED <<estado, threadVars, frameVars, tableVars, lockVars, swapMutex>>
-----------------------------------------------------------------------------
ReserveStep == Capacity \/ LoadScript \/ Count \/ Allocate \/ Register \/ MapPages
ClearStep == LookUp \/ Release \/ Forget
PutStep == PutLook \/ CopyOut \/ OpenFails \/ RecordOut \/ MarkAbsent
RemoveStep ==
    \/ IsProcessInSwap \/ PmpCapacity \/ RemoveLook \/ ReserveFrames \/ ReadFile
    \/ ReadFails \/ Restore \/ CheckTable \/ Remap \/ Record \/ MarkPresent
UserStep(p) ==
    \/ Write(p) \/ WriteCheck(p) \/ WriteCount(p)
    \/ DumpLook(p) \/ DumpInSwap(p) \/ DumpCopy(p)
    \/ DumpFails(p) \/ DumpReturn(p)
Requests(p) ==
    \/ AskCapacity(p) \/ AskClear(p) \/ AskPut(p) \/ AskIsInSwap(p)
    \/ AskDump(p) \/ FetchFails(p)
    \/ \E i \in Pages(p) : SearchFrame(p, i)
Life(p) == Block(p) \/ Unblock(p) \/ Finish(p) \/ Withdraw(p) \/ Suspend(p)

Next ==
    \/ ReserveStep \/ ClearStep \/ PutStep \/ RemoveStep
    \/ \E p \in Procs : UserStep(p) \/ Requests(p) \/ Life(p)
    \/ \E t \in Threads : WriterWaits(t)
    \/ Crash

Spec == Init /\ [][Next]_vars

(* Goroutines of handlers are run.                                         *)
FairSpec ==
    /\ Spec
    /\ WF_vars(ReserveStep \/ ClearStep)
    /\ WF_vars(PutStep \/ RemoveStep)
    /\ \A p \in Procs : WF_vars(UserStep(p))
-----------------------------------------------------------------------------
TypeOK ==
    /\ estado \in [Procs -> Estados]
    /\ stage \in [Threads -> Stages]
    /\ job \in [Planners -> Procs \union {None}]
    /\ hand \in [Threads -> Seq(Frames)]
    /\ page \in [Procs -> Nat]
    /\ copy \in Seq(Data)
    /\ free \subseteq Frames
    /\ mem \in [Frames -> Data]
    /\ written \in [Procs -> SUBSET Nat]
    /\ procTable \subseteq Procs
    /\ IsTable(framesTable, Seq(Frames))
    /\ pageTable \in [Procs -> Seq(Frames)]
    /\ IsTable(swapTable, Seq(Data))
    /\ scripts \subseteq Procs
    /\ pdLock \in {"free", "kept", "shut"}
    /\ umLock \in {"free", "kept"}
    /\ swapMutex \in BOOLEAN
    /\ up \in BOOLEAN

(* The frames of a process: those its table lists, unless a handler has    *)
(* just released them, and those a handler has taken for it.               *)
Listed(p) ==
    IF \/ p \notin DOMAIN framesTable
       \/ stage[Plp] = "forget" /\ job[Plp] = p
       \/ stage[Pmp] = "recordOut" /\ job[Pmp] = p
    THEN {} ELSE InUse(framesTable[p])
Taken ==
    (IF stage[Plp] = "register" THEN InUse(hand[Plp]) ELSE {})
        \union
    (IF stage[Pmp] \in {"readFile", "restore", "checkTable", "remap", "record"}
     THEN InUse(hand[Pmp]) ELSE {})

(* A frame is never free and in use, nor in use by two processes, while    *)
(* admissions, swaps and ends interleave (gestion_memoria.go, all_swap.go, *)
(* clearProcess.go).  The condition: no process is ended while the PMP has *)
(* it at Memory (~Overlap), none returns to READY from a wait its timer    *)
(* has ended meanwhile (~LateReturns), and the swap file takes what is     *)
(* written to it (WriteOutcomes).                                          *)
OneOwner ==
    /\ \A p \in Procs : Listed(p) \intersect (free \union Taken) = {}
    /\ free \intersect Taken = {}
    /\ \A p, q \in Procs : p # q => Listed(p) \intersect Listed(q) = {}

(* Every frame is free or has an owner: no admission, swap or end loses    *)
(* one, nor a swap file that cannot be opened or read; under the condition *)
(* of OneOwner, without which a process ended between checkTable and remap *)
(* leaves the frames taken for it with nobody.                             *)
NoFrameLost ==
    Frames = free \union Taken \union UNION {Listed(p) : p \in Procs}

(* A process that may run finds each page at the frame its table of frames *)
(* lists, and there what it wrote last, however often it was swapped;      *)
(* under the condition of OneOwner, without which a process that returns   *)
(* to READY after its suspension runs with its memory in SWAP.             *)
PagesSurvive ==
    \A p \in Procs : estado[p] = "ACTIVE" =>
        /\ p \in DOMAIN framesTable /\ framesTable[p] = pageTable[p]
        /\ DOMAIN pageTable[p] = Pages(p)
        /\ \A i \in written[p] : mem[pageTable[p][i]] = <<p, i>>

(* Memory keeps nothing of a process it was told to forget (clearProcess), *)
(* wherever its memory was; under the condition of OneOwner, without which *)
(* the PMP records in SWAP a process that Memory has forgotten.            *)
EndedIsForgotten ==
    \A p \in Procs : estado[p] = "ended" =>
        /\ p \notin procTable \union scripts
        /\ p \notin DOMAIN framesTable /\ p \notin DOMAIN swapTable

(* Every request is answered, unless Memory aborted or one of its returns  *)
(* kept a lock: no order of locks stops it.                                *)
LockKept == pdLock # "free" \/ umLock # "free"
RequestsAreAnswered ==
    \A t \in Threads :
        stage[t] # "idle" ~> (stage[t] = "idle" \/ LockKept \/ ~up)

(* Seen from the Kernel every request takes effect at once, under the      *)
(* condition of OneOwner: Memory is that of ProcessMemory.                 *)
HasFrames(p) ==
    \/ stage[Plp] = "register" /\ job[Plp] = p
    \/ /\ stage[Pmp] \in {"readFile", "restore", "checkTable", "remap", "record"}
       /\ job[Pmp] = p
    \/ /\ p \in DOMAIN framesTable
       /\ ~(stage[Plp] = "forget" /\ job[Plp] = p)
       /\ ~(stage[Pmp] = "recordOut" /\ job[Pmp] = p)
InSwap(p) ==
    \/ stage[Pmp] = "recordOut" /\ job[Pmp] = p
    \/ p \in DOMAIN swapTable /\ ~(stage[Plp] = "forget" /\ job[Plp] = p)
Place == [p \in Procs |->
    IF HasFrames(p) THEN "frames" ELSE IF InSwap(p) THEN "swap" ELSE "absent"]
Memory == INSTANCE ProcessMemory
    WITH place <- Place, Capacity <- Cardinality(Frames)
ImplementsMemory == Memory!Spec
=============================================================================
