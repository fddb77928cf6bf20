----------------------- MODULE UserMemoryOwnership -----------------------
(***************************************************************************)
(* Proofs about UserMemory for any processes, frames and needs, where no   *)
(* process is ended while the PMP has it at Memory and the swap file takes *)
(* what is written: a frame has one owner, none is lost, and what ended is *)
(* forgotten.                                                              *)
(*                                                                         *)
(* The argument has two parts.  Roles says what the Kernel is doing with   *)
(* the process a planner has a request about: the PLP creates a NEW        *)
(* process or forgets an EXIT one, and from the moment the PMP has looked  *)
(* at its tables its process is neither, so the two never change what      *)
(* Memory has of the same process.  Partition says that the free list, the *)
(* two planners and the processes divide the frames; a step changes        *)
(* nothing or hands frames from one owner to another.                      *)
(***************************************************************************)
EXTENDS UserMemoryProofs

ReserveStages == {"capacity", "script", "count", "allocate", "register", "map"}
ClearStages == {"clear", "release", "forget"}
OutStages == {"copyOut", "recordOut"}
InStages == {"isInSwap", "pmpCapacity", "direct"} \union RemoveStages
HoldStages == {"readFile", "restore", "checkTable", "remap", "record"}
Suspended == {"SUSPEND_BLOCKED", "SUSPREADY"}

(* The PLP has a NEW process or an EXIT one.                               *)
PlpClaim ==
    /\ stage[Plp] \in ReserveStages => estado[job[Plp]] = "NEW"
    /\ stage[Plp] \in ClearStages => estado[job[Plp]] = "EXIT"
    /\ stage[Plp] = "map" => job[Plp] \in procTable
    /\ stage[Plp] = "release" =>
          /\ job[Plp] \in DOMAIN framesTable
          /\ hand[Plp] = framesTable[job[Plp]]

(* The PMP has a suspended process, unless it has not looked at its tables *)
(* yet.                                                                    *)
PmpClaim ==
    /\ stage[Pmp] \in OutStages =>
          /\ estado[job[Pmp]] \in Suspended
          /\ job[Pmp] \in DOMAIN framesTable
          /\ hand[Pmp] = framesTable[job[Pmp]]
    /\ stage[Pmp] = "put" =>
          /\ estado[job[Pmp]] \notin {"NEW", "ACTIVE", "BLOCKED"}
          /\ job[Pmp] \in DOMAIN framesTable => estado[job[Pmp]] \in Suspended
    /\ stage[Pmp] \in InStages => estado[job[Pmp]] = "SUSPREADY"
    /\ stage[Pmp] \in {"reserve"} \union HoldStages =>
          job[Pmp] \in DOMAIN swapTable

(* The tables agree with each other and with what the Kernel does with p.  *)
Consistent(p) ==
    /\ p \in DOMAIN framesTable => p \in procTable /\ p \notin DOMAIN swapTable
    /\ p \in DOMAIN swapTable => p \in procTable
    /\ estado[p] \notin {"NEW", "ended"} => p \in procTable
    /\ estado[p] = "ended" => p \notin procTable \union scripts
    /\ stage[p] \in DumpStages => estado[p] \in {"BLOCKED", "SUSPEND_BLOCKED"}

Roles == PlpClaim /\ PmpClaim /\ \A p \in Procs : Consistent(p)

(* What the owners have: the free list (None), the planners' handlers, and *)
(* the processes.                                                          *)
Owners == Threads \union {None}
PlpTaken == IF stage[Plp] = "register" THEN InUse(hand[Plp]) ELSE {}
PmpTaken == IF stage[Pmp] \in HoldStages THEN InUse(hand[Pmp]) ELSE {}
Held ==
    [o \in Owners |->
        IF o = None THEN free
        ELSE IF o = Plp THEN PlpTaken
        ELSE IF o = Pmp THEN PmpTaken
        ELSE Listed(o)]
Divides(h) ==
    /\ \A o1, o2 \in Owners : o1 # o2 => h[o1] \intersect h[o2] = {}
    /\ \A f \in Frames : \E o \in Owners : f \in h[o]
Partition == Divides(Held)

Sound == Typed /\ Roles /\ Partition

(* The circumstances of all that follows.                                  *)
Circumstances ==
    Overlap = FALSE /\ WriteOutcomes = {TRUE} /\ LateReturns = FALSE

(***************************************************************************)
(* Who changes what.                                                       *)
(***************************************************************************)
(* What Memory and the Kernel have of q stays as it is.                    *)
Untouched(q) ==
    /\ estado'[q] = estado[q]
    /\ q \in procTable' <=> q \in procTable
    /\ q \in scripts' <=> q \in scripts
    /\ q \in DOMAIN framesTable' <=> q \in DOMAIN framesTable
    /\ q \in DOMAIN framesTable => framesTable'[q] = framesTable[q]
    /\ q \in DOMAIN swapTable' <=> q \in DOMAIN swapTable
    /\ q \in DOMAIN swapTable => swapTable'[q] = swapTable[q]

(* An answer that changes nothing of its process touches none.             *)
LEMMA AnswerSame ==
    ASSUME TypeOK, NEW t \in Planners, Answer(t, Same(t))
    PROVE  estado' = estado
BY DEF TypeOK, Answer, Same

LEMMA AnswerOther ==
    ASSUME TypeOK, NEW t \in Planners, NEW s, Answer(t, s)
    PROVE  \A q \in Procs : q # job[t] => estado'[q] = estado[q]
BY DEF TypeOK, Answer

(* The PLP touches the process its request is about, and no other.         *)
LEMMA PlpTouches ==
    ASSUME Typed, NEW p \in Procs, PlpMoves(p), NEW q \in Procs,
           stage[Plp] = "idle" \/ q # job[Plp]
    PROVE  Untouched(q)
<1>. USE PlannersAreThreads, AnswerOther, AnswerSame
     DEF Untouched, frameVars, tableVars
<1>0. /\ TypeOK /\ IsTable(framesTable, Seq(Frames))
      /\ IsTable(swapTable, Seq(Data))
      /\ (stage[Plp] # "idle" => job[Plp] \in Procs)
  BY DEF Typed, TypeOK, JobNamed
<1>1. CASE Capacity \/ LoadScript \/ Count \/ MapPages
  BY <1>0, <1>1 DEF Capacity, LoadScript, Count, MapPages, At
<1>2. CASE Allocate
  BY <1>0, <1>2 DEF Allocate, At
<1>3. CASE Register
  <2>1. job[Plp] \in Procs /\ hand[Plp] \in Seq(Frames) /\ q # job[Plp]
    BY <1>0, <1>3 DEF Register, At, TypeOK
  <2>2. CASE job[Plp] \in procTable
    BY <1>0, <1>3, <2>2 DEF Register
  <2>3. CASE job[Plp] \notin procTable
    <3>1. framesTable' = With(framesTable, job[Plp], hand[Plp])
      BY <1>3, <2>3 DEF Register
    <3>2. /\ q \in DOMAIN framesTable' <=> q \in DOMAIN framesTable
          /\ q \in DOMAIN framesTable => framesTable'[q] = framesTable[q]
      <4>1. LET table == With(framesTable, job[Plp], hand[Plp]) IN
            /\ DOMAIN table = DOMAIN framesTable \union {job[Plp]}
            /\ \A r \in DOMAIN framesTable \ {job[Plp]} :
                  table[r] = framesTable[r]
        BY DEF With
      <4>. QED
        BY <2>1, <3>1, <4>1
    <3>. QED
      BY <1>3, <2>1, <2>3, <3>2 DEF Register
  <2>. QED
    BY <2>2, <2>3
<1>4. CASE LookUp \/ Release
  BY <1>0, <1>4 DEF LookUp, Release, At
<1>5. CASE Forget
  <2>1. job[Plp] \in Procs /\ q # job[Plp]
    BY <1>0, <1>5 DEF Forget, At
  <2>2. /\ framesTable' = Without(framesTable, job[Plp])
        /\ swapTable' = Without(swapTable, job[Plp])
    BY <1>5 DEF Forget
  <2>3. /\ q \in DOMAIN framesTable' <=> q \in DOMAIN framesTable
        /\ q \in DOMAIN framesTable => framesTable'[q] = framesTable[q]
        /\ q \in DOMAIN swapTable' <=> q \in DOMAIN swapTable
        /\ q \in DOMAIN swapTable => swapTable'[q] = swapTable[q]
    <3>1. LET table == Without(framesTable, job[Plp]) IN
          /\ DOMAIN table = DOMAIN framesTable \ {job[Plp]}
          /\ \A r \in DOMAIN framesTable \ {job[Plp]} :
                table[r] = framesTable[r]
      BY DEF Without
    <3>2. LET table == Without(swapTable, job[Plp]) IN
          /\ DOMAIN table = DOMAIN swapTable \ {job[Plp]}
          /\ \A r \in DOMAIN swapTable \ {job[Plp]} : table[r] = swapTable[r]
      BY DEF Without
    <3>. QED
      BY <2>1, <2>2, <3>1, <3>2
  <2>. QED
    BY <1>0, <1>5, <2>1, <2>3 DEF Forget
<1>6. CASE AskCapacity(p) \/ AskClear(p)
  BY <1>6 DEF AskCapacity, AskClear
<1>. QED
  BY <1>1, <1>2, <1>3, <1>4, <1>5, <1>6 DEF PlpMoves, ReserveStep, ClearStep

(* The PMP touches none before it has looked at the tables, and then only  *)
(* the process its request is about.                                       *)
LEMMA PmpTouches ==
    ASSUME Typed, NEW p \in Procs, PmpMoves(p), NEW q \in Procs,
           stage[Pmp] \in {"idle", "put", "absence"} \/ q # job[Pmp]
    PROVE  Untouched(q)
<1>. USE PlannersAreThreads, AnswerOther, AnswerSame
     DEF Untouched, frameVars, tableVars, PmpAnswer, PmpGoes, Swapped
<1>0. TypeOK /\ (stage[Pmp] # "idle" => job[Pmp] \in Procs)
  BY DEF Typed, JobNamed
<1>1. CASE PutLook \/ CopyOut \/ OpenFails \/ MarkAbsent
  BY <1>0, <1>1 DEF PutLook, CopyOut, OpenFails, MarkAbsent, At
<1>2. CASE RecordOut
  <2>1. job[Pmp] \in Procs /\ q # job[Pmp]
    BY <1>0, <1>2 DEF RecordOut, At
  <2>2. CASE PmpAnswer(Same(Pmp)) /\ UNCHANGED <<swapTable, framesTable>>
    BY <1>0, <1>2, <2>2 DEF RecordOut
  <2>3. CASE /\ swapTable' = With(swapTable, Swapped, copy)
             /\ framesTable' = Without(framesTable, Swapped)
             /\ PmpGoes("absence")
    <3>1. /\ q \in DOMAIN framesTable' <=> q \in DOMAIN framesTable
          /\ q \in DOMAIN framesTable => framesTable'[q] = framesTable[q]
      BY <2>1, <2>3 DEF Without
    <3>2. /\ q \in DOMAIN swapTable' <=> q \in DOMAIN swapTable
          /\ q \in DOMAIN swapTable => swapTable'[q] = swapTable[q]
      BY <2>1, <2>3 DEF With
    <3>. QED
      BY <1>2, <2>3, <3>1, <3>2 DEF RecordOut
  <2>. QED
    BY <1>2, <2>2, <2>3 DEF RecordOut
<1>3. CASE IsProcessInSwap \/ PmpCapacity \/ ReserveFrames \/ ReadFile
  BY <1>0, <1>3 DEF IsProcessInSwap, PmpCapacity, ReserveFrames, ReadFile, At
<1>4. CASE ReadFails \/ Restore \/ CheckTable \/ Remap \/ MarkPresent
  BY <1>0, <1>4 DEF ReadFails, RollBack, Restore, CheckTable, Remap,
                    MarkPresent, At
<1>5. CASE RemoveLook
  <2>1. q # job[Pmp]
    BY <1>5 DEF RemoveLook, At
  <2>2. /\ q \in DOMAIN swapTable' <=> q \in DOMAIN swapTable
        /\ q \in DOMAIN swapTable => swapTable'[q] = swapTable[q]
    BY <1>5, <2>1 DEF RemoveLook, Without
  <2>. QED
    BY <1>0, <1>5, <2>1, <2>2 DEF RemoveLook
<1>6. CASE Record
  <2>1. q # job[Pmp]
    BY <1>6 DEF Record, At
  <2>2. /\ q \in DOMAIN swapTable' <=> q \in DOMAIN swapTable
        /\ q \in DOMAIN swapTable => swapTable'[q] = swapTable[q]
    BY <1>6, <2>1 DEF Record, Without
  <2>3. /\ q \in DOMAIN framesTable' <=> q \in DOMAIN framesTable
        /\ q \in DOMAIN framesTable => framesTable'[q] = framesTable[q]
    BY <1>6, <2>1 DEF Record, With
  <2>. QED
    BY <1>6, <2>2, <2>3 DEF Record
<1>7. CASE AskPut(p) \/ AskIsInSwap(p)
  BY <1>7 DEF AskPut, AskIsInSwap
<1>. QED
  BY <1>1, <1>2, <1>3, <1>4, <1>5, <1>6, <1>7
     DEF PmpMoves, PutStep, RemoveStep

(* What the rest of the system does with a process: it leaves it as it is, *)
(* or executes, blocks, suspends or ends it, and it ends it only while the *)
(* PMP has no request about it, or when its dump finds it in SWAP.         *)
Progress(q) ==
    \/ estado'[q] = estado[q]
    \/ estado[q] = "ACTIVE" /\ estado'[q] \in {"BLOCKED", "EXIT"}
    \/ estado[q] = "BLOCKED" /\ estado'[q] \in {"ACTIVE", "SUSPEND_BLOCKED"}
    \/ estado[q] = "SUSPEND_BLOCKED" /\ estado'[q] = "SUSPREADY"
    \/ /\ estado[q] \in {"BLOCKED", "SUSPEND_BLOCKED", "SUSPREADY"}
       /\ estado'[q] = "EXIT"
       /\ q # job[Pmp]
    \/ /\ estado[q] \in {"BLOCKED", "SUSPEND_BLOCKED"}
       /\ estado'[q] = "EXIT"
       /\ q \in DOMAIN swapTable
DumpIsWaiting(q) ==
    stage'[q] \in DumpStages => estado'[q] \in {"BLOCKED", "SUSPEND_BLOCKED"}

LEMMA OthersProgress ==
    ASSUME Typed, Roles, Circumstances, NEW p \in Procs, OtherMoves(p),
           NEW q \in Procs
    PROVE  Progress(q) /\ DumpIsWaiting(q)
<1>. USE DEF Progress, DumpIsWaiting, DumpStages
<1>0. /\ estado \in [Procs -> Estados] /\ stage \in [Threads -> Stages]
      /\ p \in Threads /\ q \in Threads /\ Consistent(q) /\ Consistent(p)
  BY PlannersAreThreads DEF Typed, TypeOK, Roles
<1>1. CASE UserStep(p)
  <2>1. CASE Write(p) \/ WriteCheck(p) \/ WriteCount(p)
    BY <1>0, <1>1, <2>1 DEF Write, WriteCheck, WriteCount, Goto, Consistent
  <2>2. CASE DumpLook(p)
    BY <1>0, <2>2 DEF DumpLook, DumpAnswer, Goto, At, Consistent
  <2>3. CASE DumpInSwap(p) \/ DumpCopy(p)
    BY <1>0, <2>3 DEF DumpInSwap, DumpCopy, DumpAnswer, Goto, At, Consistent
  <2>4. CASE DumpFails(p) \/ DumpReturn(p)
    BY <1>0, <2>4 DEF DumpFails, DumpReturn, AfterWait, DumpAnswer, Goto, At,
                      Consistent, Circumstances
  <2>. QED
    BY <1>1, <2>1, <2>2, <2>3, <2>4 DEF UserStep
<1>2. CASE Life(p)
  <2>1. CASE Suspend(p)
    BY <1>0, <2>1 DEF Suspend, threadVars, Consistent
  <2>2. CASE Block(p) \/ Unblock(p) \/ Finish(p) \/ Withdraw(p)
    BY <1>0, <2>2 DEF Block, Unblock, AfterWait, Finish, Withdraw, Move,
                      threadVars, Consistent, Circumstances
  <2>. QED
    BY <1>2, <2>1, <2>2 DEF Life
<1>3. CASE AskDump(p) \/ FetchFails(p) \/ \E i \in Pages(p) : SearchFrame(p, i)
  BY <1>0, <1>3 DEF AskDump, FetchFails, SearchFrame, Goto, threadVars,
                    Consistent
<1>4. CASE (\E t \in Threads : WriterWaits(t)) \/ Crash
  BY <1>0, <1>4 DEF WriterWaits, Crash, threadVars, Consistent
<1>. QED
  BY <1>1, <1>2, <1>3, <1>4 DEF OtherMoves

(***************************************************************************)
(* Every step keeps the roles.                                             *)
(***************************************************************************)
LEMMA RolesInit == Init => Roles
<1>. SUFFICES ASSUME Init PROVE Roles
  OBVIOUS
<1>1. PlpClaim /\ PmpClaim
  BY PlannersAreThreads
     DEF Init, PlpClaim, PmpClaim, ReserveStages, ClearStages, OutStages,
         InStages, RemoveStages, HoldStages
<1>2. \A p \in Procs : Consistent(p)
  BY PlannersAreThreads DEF Init, Consistent, DumpStages
<1>. QED
  BY <1>1, <1>2 DEF Roles

LEMMA StaysConsistent ==
    ASSUME NEW q \in Procs, Consistent(q), Untouched(q), stage'[q] = stage[q]
    PROVE  Consistent(q)'
BY DEF Consistent, Untouched

(* What is kept of the PLP's claim when neither its request nor its        *)
(* process is touched, and of the PMP's.                                   *)
LEMMA PlpClaimStays ==
    ASSUME PlpClaim, PlpKept, stage[Plp] # "idle" => Untouched(job[Plp])
    PROVE  PlpClaim'
BY DEF PlpClaim, PlpKept, Untouched, ReserveStages, ClearStages

LEMMA PmpClaimStays ==
    ASSUME PmpClaim, PmpKept, stage[Pmp] # "idle" => Untouched(job[Pmp])
    PROVE  PmpClaim'
BY DEF PmpClaim, PmpKept, Untouched, OutStages, InStages, RemoveStages,
       HoldStages

(* What the steps of the PLP do to its claim, and to its own process.      *)
LEMMA PlpOwnClaim ==
    ASSUME Typed, Roles, NEW p \in Procs, PlpMoves(p)
    PROVE  PlpClaim'
<1>. USE ThreadsAssumption
     DEF PlpClaim, ReserveStages, ClearStages, Goto, Answer, Ask, At, Threads,
         Planners
<1>0. /\ TypeOK /\ PlpClaim
      /\ stage[Plp] # "idle" => job[Plp] \in Procs
  BY DEF Typed, JobNamed, Roles
<1>1. CASE Capacity
  BY <1>0, <1>1 DEF Capacity, TypeOK
<1>2. CASE LoadScript \/ MapPages
  BY <1>0, <1>2 DEF LoadScript, MapPages, TypeOK
<1>3. CASE Allocate
  BY <1>0, <1>3 DEF Allocate, TypeOK
<1>4. CASE Register
  BY <1>0, <1>4 DEF Register, TypeOK
<1>5. CASE LookUp
  BY <1>0, <1>5 DEF LookUp, TypeOK, tableVars
<1>6. CASE Release \/ Forget
  BY <1>0, <1>6 DEF Release, Forget, TypeOK
<1>7. CASE AskCapacity(p) \/ AskClear(p)
  BY <1>0, <1>7 DEF AskCapacity, AskClear, TypeOK
<1>8. CASE Count
  BY <1>0, <1>8 DEF Count, TypeOK
<1>. QED
  BY <1>1, <1>2, <1>3, <1>4, <1>5, <1>6, <1>7, <1>8
     DEF PlpMoves, ReserveStep, ClearStep

LEMMA PlpOwnProcess ==
    ASSUME Typed, Roles, NEW p \in Procs, PlpMoves(p),
           NEW j \in Procs, stage[Plp] # "idle", j = job[Plp]
    PROVE  Consistent(j)'
<1>. USE DEF PlpClaim, ReserveStages, ClearStages, Consistent, At
<1>0. /\ TypeOK /\ PlpClaim /\ Consistent(j) /\ Plp \in Planners
      /\ estado \in [Procs -> Estados]
      /\ stage'[j] = stage[j]
  BY PlannersAreThreads, PlpLeaves DEF Typed, TypeOK, Roles, PlpMoves, UsersKept
<1>1. CASE Capacity \/ LoadScript \/ Count \/ Allocate
  <2>1. estado' = estado
    BY <1>0, <1>1, AnswerSame DEF Capacity, LoadScript, Count, Allocate
  <2>2. /\ UNCHANGED <<procTable, framesTable, swapTable>>
        /\ scripts' \subseteq scripts \union {j} /\ estado[j] = "NEW"
    BY <1>0, <1>1 DEF Capacity, LoadScript, Count, Allocate, tableVars
  <2>. QED
    BY <1>0, <2>1, <2>2
<1>2. CASE Register
  <2>1. estado' = estado /\ estado[j] = "NEW"
    BY <1>0, <1>2, AnswerSame DEF Register
  <2>2. CASE j \in procTable
    BY <1>0, <1>2, <2>1, <2>2 DEF Register
  <2>3. CASE j \notin procTable
    BY <1>0, <1>2, <2>1, <2>3 DEF Register
  <2>. QED
    BY <2>2, <2>3
<1>3. CASE MapPages
  BY <1>0, <1>3 DEF MapPages, Answer, DumpStages
<1>4. CASE LookUp
  <2>1. j \in procTable
    BY <1>0, <1>4 DEF LookUp
  <2>. QED
    BY <1>0, <1>4, <2>1 DEF LookUp, tableVars
<1>5. CASE Release
  BY <1>0, <1>5 DEF Release, tableVars
<1>6. CASE Forget
  BY <1>0, <1>6 DEF Forget, Answer, Without
<1>7. CASE AskCapacity(p) \/ AskClear(p)
  BY <1>7 DEF AskCapacity, AskClear, Ask
<1>. QED
  BY <1>1, <1>2, <1>3, <1>4, <1>5, <1>6, <1>7
     DEF PlpMoves, ReserveStep, ClearStep

(* Once it is at work the PLP is creating its process or forgetting it,    *)
(* and what it forgets it never adds to.                                   *)
LEMMA PlpAtWork ==
    ASSUME NEW p \in Procs, PlpMoves(p), stage[Plp] # "idle"
    PROVE  stage[Plp] \in ReserveStages \union ClearStages
BY DEF PlpMoves, ReserveStep, Capacity, LoadScript, Count, Allocate, Register,
       MapPages, ClearStep, LookUp, Release, Forget, AskCapacity, AskClear, Ask,
       At, ReserveStages, ClearStages

LEMMA PlpForgets ==
    ASSUME Typed, Roles, NEW p \in Procs, PlpMoves(p), NEW j \in Procs,
           stage[Plp] \in ClearStages, j = job[Plp], j \notin DOMAIN framesTable
    PROVE  /\ estado'[j] \in {"EXIT", "ended"}
           /\ j \notin DOMAIN framesTable'
<1>0. estado[j] = "EXIT" /\ estado \in [Procs -> Estados]
  BY DEF Roles, PlpClaim, Typed, TypeOK
<1>1. LookUp \/ Release \/ Forget
  BY DEF PlpMoves, ReserveStep, Capacity, LoadScript, Count, Allocate, Register,
         MapPages, ClearStep, AskCapacity, AskClear, Ask, At, ClearStages
<1>. QED
  BY <1>0, <1>1 DEF LookUp, Release, Forget, Answer, Without, tableVars

LEMMA RolesPlp ==
    ASSUME Typed, Roles, NEW p \in Procs, PlpMoves(p)
    PROVE  Roles'
<1>0. /\ PlpClaim /\ PmpClaim /\ PmpKept /\ UsersKept
      /\ stage[Plp] # "idle" => job[Plp] \in Procs
      /\ stage[Pmp] # "idle" => job[Pmp] \in Procs
      /\ stage[Plp] \in Stages /\ TypeOK
  BY PlpLeaves, PlannersAreThreads DEF Roles, Typed, JobNamed, PlpMoves, TypeOK
<1>1. ASSUME NEW q \in Procs
      PROVE  Consistent(q)'
  <2>1. CASE stage[Plp] # "idle" /\ q = job[Plp]
    BY <2>1, PlpOwnProcess
  <2>2. CASE stage[Plp] = "idle" \/ q # job[Plp]
    BY <1>0, <2>2, PlpTouches, StaysConsistent DEF Roles, UsersKept
  <2>. QED
    BY <2>1, <2>2
<1>2. PmpClaim'
  <2>1. CASE stage[Pmp] = "idle" \/ stage[Plp] = "idle" \/ job[Pmp] # job[Plp]
    BY <1>0, <2>1, PlpTouches, PmpClaimStays
  <2>2. CASE stage[Pmp] # "idle" /\ stage[Plp] # "idle" /\ job[Pmp] = job[Plp]
    <3>1. PICK j \in Procs : j = job[Plp] /\ j = job[Pmp] /\ j = job'[Pmp]
      BY <1>0, <2>2 DEF PmpKept
    <3>2. stage[Plp] \in ReserveStages \union ClearStages
      BY <2>2, PlpAtWork
    <3>3. stage[Pmp] \notin OutStages \union InStages
      BY <1>0, <3>1, <3>2 DEF PlpClaim, PmpClaim, Suspended
    <3>4. CASE stage[Pmp] = "put"
      <4>1. stage[Plp] \in ClearStages /\ j \notin DOMAIN framesTable
        BY <1>0, <3>1, <3>2, <3>4 DEF PlpClaim, PmpClaim, Suspended
      <4>2. /\ estado'[j] \in {"EXIT", "ended"}
            /\ j \notin DOMAIN framesTable'
        BY <1>0, <3>1, <4>1, PlpForgets
      <4>. QED
        BY <1>0, <3>1, <3>4, <4>2
           DEF PmpClaim, PmpKept, OutStages, InStages, RemoveStages, HoldStages
    <3>5. CASE stage[Pmp] # "put"
      BY <1>0, <3>3, <3>5 DEF PmpClaim, PmpKept, InStages, RemoveStages, HoldStages
    <3>. QED
      BY <3>4, <3>5
  <2>. QED
    BY <2>1, <2>2
<1>. QED
  BY <1>1, <1>2, PlpOwnClaim DEF Roles

(* What the steps of the PMP do to its claim, and to its own process.      *)
LEMMA PmpOwnClaim ==
    ASSUME Typed, Roles, Circumstances, NEW p \in Procs, PmpMoves(p)
    PROVE  PmpClaim'
<1>. USE ThreadsAssumption
     DEF PmpClaim, OutStages, InStages, RemoveStages, HoldStages, Suspended,
         Goto, Answer, Ask, At, Threads, Planners, PmpAnswer, PmpGoes, Swapped
<1>0. /\ TypeOK /\ PmpClaim
      /\ stage[Pmp] # "idle" => job[Pmp] \in Procs
  BY DEF Typed, JobNamed, Roles
<1>1. CASE PutLook
  BY <1>0, <1>1 DEF PutLook, TypeOK, tableVars
<1>2. CASE CopyOut \/ OpenFails
  BY <1>0, <1>2 DEF CopyOut, OpenFails, TypeOK, tableVars
<1>3. CASE RecordOut \/ MarkAbsent
  BY <1>0, <1>3 DEF RecordOut, MarkAbsent, TypeOK, Circumstances
<1>4. CASE IsProcessInSwap \/ RemoveLook
  BY <1>0, <1>4 DEF IsProcessInSwap, RemoveLook, TypeOK
<1>5. CASE ReserveFrames \/ ReadFile
  BY <1>0, <1>5 DEF ReserveFrames, ReadFile, TypeOK, tableVars
<1>6. CASE ReadFails \/ Restore \/ CheckTable
  BY <1>0, <1>6 DEF ReadFails, RollBack, Restore, CheckTable, TypeOK, tableVars
<1>7. CASE Remap \/ Record \/ MarkPresent
  BY <1>0, <1>7 DEF Remap, Record, MarkPresent, TypeOK
<1>8. CASE AskPut(p) \/ AskIsInSwap(p)
  BY <1>0, <1>8 DEF AskPut, AskIsInSwap, TypeOK
<1>9. CASE PmpCapacity
  BY <1>0, <1>9 DEF PmpCapacity, TypeOK
<1>. QED
  BY <1>1, <1>2, <1>3, <1>4, <1>5, <1>6, <1>7, <1>8, <1>9
     DEF PmpMoves, PutStep, RemoveStep

LEMMA PmpOwnProcess ==
    ASSUME Typed, Roles, Circumstances, NEW p \in Procs, PmpMoves(p),
           NEW j \in Procs, stage[Pmp] \in OutStages \union InStages,
           j = job[Pmp]
    PROVE  Consistent(j)'
<1>. USE DEF PmpClaim, OutStages, InStages, RemoveStages, HoldStages, Suspended,
             Consistent, At, PmpAnswer, PmpGoes, Swapped
<1>0. /\ TypeOK /\ PmpClaim /\ Consistent(j) /\ Pmp \in Planners
      /\ estado \in [Procs -> Estados]
      /\ stage'[j] = stage[j]
  BY PlannersAreThreads, PmpLeaves DEF Typed, TypeOK, Roles, PmpMoves, UsersKept
<1>1. CASE CopyOut \/ OpenFails
  BY <1>0, <1>1, AnswerSame DEF CopyOut, OpenFails, tableVars
<1>2. CASE RecordOut
  BY <1>0, <1>2 DEF RecordOut, Circumstances, With, Without
<1>3. CASE IsProcessInSwap \/ PmpCapacity
  BY <1>0, <1>3, AnswerSame
     DEF IsProcessInSwap, PmpCapacity, tableVars, Answer, DumpStages
<1>4. CASE RemoveLook
  BY <1>0, <1>4 DEF RemoveLook, Answer, Without, DumpStages
<1>5. CASE ReserveFrames \/ ReadFile
  BY <1>0, <1>5 DEF ReserveFrames, ReadFile, Answer, tableVars, DumpStages
<1>6. CASE ReadFails \/ Restore \/ CheckTable
  BY <1>0, <1>6 DEF ReadFails, RollBack, Restore, CheckTable, Answer, tableVars,
                    DumpStages
<1>7. CASE Remap \/ MarkPresent
  BY <1>0, <1>7 DEF Remap, MarkPresent, Answer, tableVars, DumpStages
<1>8. CASE Record
  BY <1>0, <1>8 DEF Record, With, Without, DumpStages
<1>9. CASE PutLook \/ MarkAbsent \/ AskPut(p) \/ AskIsInSwap(p)
  BY <1>9 DEF PutLook, MarkAbsent, AskPut, AskIsInSwap, Ask
<1>. QED
  BY <1>1, <1>2, <1>3, <1>4, <1>5, <1>6, <1>7, <1>8, <1>9
     DEF PmpMoves, PutStep, RemoveStep

LEMMA PmpAtWork ==
    ASSUME NEW p \in Procs, PmpMoves(p)
    PROVE  \/ stage[Pmp] \in {"idle", "put", "absence"}
           \/ stage[Pmp] \in OutStages \union InStages
BY DEF PmpMoves, PutStep, PutLook, CopyOut, OpenFails, RecordOut, MarkAbsent,
       RemoveStep, IsProcessInSwap, PmpCapacity, RemoveLook, ReserveFrames,
       ReadFile, ReadFails, Restore, CheckTable, Remap, Record, MarkPresent,
       AskPut, AskIsInSwap, Ask, At, OutStages, InStages, RemoveStages

LEMMA RolesPmp ==
    ASSUME Typed, Roles, Circumstances, NEW p \in Procs, PmpMoves(p)
    PROVE  Roles'
<1>0. /\ PlpClaim /\ PmpClaim /\ PlpKept /\ UsersKept
      /\ stage[Plp] # "idle" => job[Plp] \in Procs
      /\ stage[Pmp] # "idle" => job[Pmp] \in Procs
  BY PmpLeaves DEF Roles, Typed, JobNamed, PmpMoves, Planners
<1>1. ASSUME NEW q \in Procs
      PROVE  Consistent(q)'
  <2>1. CASE stage[Pmp] \in OutStages \union InStages /\ q = job[Pmp]
    BY <2>1, PmpOwnProcess
  <2>2. CASE stage[Pmp] \in {"idle", "put", "absence"} \/ q # job[Pmp]
    BY <1>0, <2>2, PmpTouches, StaysConsistent DEF Roles, UsersKept
  <2>. QED
    BY <2>1, <2>2, PmpAtWork
<1>2. PlpClaim'
  <2>1. CASE \/ stage[Plp] = "idle" \/ job[Pmp] # job[Plp]
             \/ stage[Pmp] \in {"idle", "put", "absence"}
    BY <1>0, <2>1, PmpTouches, PlpClaimStays
  <2>2. CASE stage[Plp] \in ReserveStages \union ClearStages
    <3>1. \/ job[Pmp] # job[Plp] \/ stage[Pmp] \in {"idle", "put", "absence"}
      BY <1>0, <2>2, PmpAtWork DEF PlpClaim, PmpClaim, Suspended
    <3>. QED
      BY <2>1, <3>1
  <2>3. CASE stage[Plp] \notin ReserveStages \union ClearStages
    BY <1>0, <2>3 DEF PlpClaim, PlpKept, ReserveStages, ClearStages
  <2>. QED
    BY <2>2, <2>3
<1>. QED
  BY <1>1, <1>2, PmpOwnClaim DEF Roles

LEMMA RolesOthers ==
    ASSUME Typed, Roles, Circumstances, NEW p \in Procs, OtherMoves(p)
    PROVE  Roles'
<1>0. /\ PlpClaim /\ PmpClaim /\ PlpKept /\ PmpKept /\ UNCHANGED frameTables
      /\ stage[Plp] # "idle" => job[Plp] \in Procs
      /\ stage[Pmp] # "idle" => job[Pmp] \in Procs
  BY UserLeaves DEF Roles, Typed, JobNamed, OtherMoves, Planners
<1>1. \A q \in Procs : Consistent(q)'
  BY <1>0, OthersProgress
     DEF Roles, Consistent, Progress, DumpIsWaiting, frameTables
<1>2. PlpClaim'
  BY <1>0, OthersProgress
     DEF PlpClaim, PlpKept, Progress, frameTables, ReserveStages, ClearStages
<1>3. PmpClaim'
  <2>1. CASE stage[Pmp] = "idle"
    BY <1>0, <2>1 DEF PmpClaim, PmpKept, OutStages, InStages, RemoveStages,
                      HoldStages
  <2>2. CASE stage[Pmp] # "idle"
    <3>1. PICK j \in Procs : j = job[Pmp] /\ j = job'[Pmp]
      BY <1>0, <2>2 DEF PmpKept
    <3>2. Consistent(j) /\ Progress(j)
      BY OthersProgress DEF Roles
    <3>. QED
      BY <1>0, <3>1, <3>2
         DEF PmpClaim, PmpKept, Progress, Consistent, frameTables, OutStages,
             InStages, RemoveStages, HoldStages, Suspended
  <2>. QED
    BY <2>1, <2>2
<1>. QED
  BY <1>1, <1>2, <1>3 DEF Roles

(***************************************************************************)
(* Every step keeps the partition.                                         *)
(***************************************************************************)
(* The frames of S go from a to b, and nothing else changes.               *)
Handed(h, new, a, b, S) ==
    /\ a \in Owners /\ b \in Owners /\ a # b /\ S \subseteq h[a]
    /\ new[a] = h[a] \ S
    /\ new[b] = h[b] \union S
    /\ \A o \in Owners : o # a /\ o # b => new[o] = h[o]

LEMMA HandOver ==
    ASSUME NEW h, NEW new, NEW a, NEW b, NEW S, Divides(h),
           Handed(h, new, a, b, S)
    PROVE  Divides(new)
<1>1. \A o1, o2 \in Owners : o1 # o2 => new[o1] \intersect new[o2] = {}
  <2>. SUFFICES ASSUME NEW o1 \in Owners, NEW o2 \in Owners, o1 # o2
                PROVE  new[o1] \intersect new[o2] = {}
    OBVIOUS
  <2>1. h[o1] \intersect h[o2] = {} /\ h[a] \intersect h[b] = {}
        /\ (o1 # a => h[o1] \intersect h[a] = {})
        /\ (o2 # a => h[o2] \intersect h[a] = {})
    BY DEF Divides, Handed
  <2>2. CASE o1 = a \/ o2 = a
    BY <2>1, <2>2 DEF Handed
  <2>3. CASE o1 # a /\ o2 # a
    BY <2>1, <2>3 DEF Handed
  <2>. QED
    BY <2>2, <2>3
<1>2. \A f \in Frames : \E o \in Owners : f \in new[o]
  <2>. SUFFICES ASSUME NEW f \in Frames
                PROVE  \E o \in Owners : f \in new[o]
    OBVIOUS
  <2>1. PICK o \in Owners : f \in h[o]
    BY DEF Divides
  <2>2. CASE f \in S
    BY <2>2 DEF Handed
  <2>3. CASE f \notin S
    BY <2>1, <2>3 DEF Handed
  <2>. QED
    BY <2>2, <2>3
<1>. QED
  BY <1>1, <1>2 DEF Divides

(* What each owner has.                                                    *)
LEMMA HeldBy ==
    /\ Held[None] = free /\ Held[Plp] = PlpTaken /\ Held[Pmp] = PmpTaken
    /\ \A q \in Procs : Held[q] = Listed(q)
    /\ Owners = Procs \union {None, Plp, Pmp}
BY ThreadsAssumption DEF Held, Owners, Threads, Planners

LEMMA HeldAfter ==
    /\ Held'[None] = free' /\ Held'[Plp] = PlpTaken' /\ Held'[Pmp] = PmpTaken'
    /\ \A q \in Procs : Held'[q] = Listed(q)'
BY ThreadsAssumption DEF Held, Owners, Threads, Planners

LEMMA NothingMoves ==
    ASSUME Partition, free' = free, PlpTaken' = PlpTaken, PmpTaken' = PmpTaken,
           \A q \in Procs : Listed(q)' = Listed(q)
    PROVE  Partition'
<1>1. \A o \in Owners : Held'[o] = Held[o]
  BY HeldBy, HeldAfter
<1>2. Divides(Held')
  BY <1>1 DEF Partition, Divides
<1>. QED
  BY <1>2 DEF Partition

LEMMA SomeMove ==
    ASSUME Partition, NEW a, NEW b, NEW S, Handed(Held, Held', a, b, S)
    PROVE  Partition'
<1>1. Divides(Held')
  BY HandOver DEF Partition
<1>. QED
  BY <1>1 DEF Partition

(* Frames pass between the free list and a planner, or a process, or       *)
(* between a planner and a process.                                        *)
LEMMA OwnersDiffer ==
    /\ None \in Owners /\ Plp \in Owners /\ Pmp \in Owners
    /\ None # Plp /\ None # Pmp /\ Plp # Pmp
    /\ \A q \in Procs : q \in Owners /\ q # None /\ q # Plp /\ q # Pmp
BY ThreadsAssumption DEF Owners, Threads, Planners

LEMMA ProcessGives ==
    ASSUME NEW j \in Procs, NEW S,
           free' = free \union S, Listed(j) = S, Listed(j)' = {},
           PlpTaken' = PlpTaken, PmpTaken' = PmpTaken,
           \A q \in Procs \ {j} : Listed(q)' = Listed(q)
    PROVE  Handed(Held, Held', j, None, S)
<1>1. \A o \in Owners : o # j /\ o # None => Held'[o] = Held[o]
  BY HeldBy, HeldAfter
<1>2. Held[j] = S /\ Held'[j] = {} /\ Held'[None] = Held[None] \union S
  BY HeldBy, HeldAfter
<1>. QED
  BY <1>1, <1>2, OwnersDiffer DEF Handed

LEMMA PmpGives ==
    ASSUME NEW j \in Procs, NEW S, free' = free,
           PmpTaken = S, PmpTaken' = {}, Listed(j) = {}, Listed(j)' = S,
           PlpTaken' = PlpTaken,
           \A q \in Procs \ {j} : Listed(q)' = Listed(q)
    PROVE  Handed(Held, Held', Pmp, j, S)
<1>1. \A o \in Owners : o # j /\ o # Pmp => Held'[o] = Held[o]
  BY HeldBy, HeldAfter
<1>2. /\ Held[Pmp] = S /\ Held'[Pmp] = {}
      /\ Held[j] = {} /\ Held'[j] = S
  BY HeldBy, HeldAfter
<1>. QED
  BY <1>1, <1>2, OwnersDiffer DEF Handed

LEMMA PmpFrees ==
    ASSUME NEW S, free' = free \union S, PmpTaken = S, PmpTaken' = {},
           PlpTaken' = PlpTaken, \A q \in Procs : Listed(q)' = Listed(q)
    PROVE  Handed(Held, Held', Pmp, None, S)
<1>1. \A o \in Owners : o # Pmp /\ o # None => Held'[o] = Held[o]
  BY HeldBy, HeldAfter
<1>2. /\ Held[Pmp] = S /\ Held'[Pmp] = {}
      /\ Held'[None] = Held[None] \union S
  BY HeldBy, HeldAfter
<1>. QED
  BY <1>1, <1>2, OwnersDiffer DEF Handed

LEMMA PmpTakes ==
    ASSUME NEW S, S \subseteq free, free' = free \ S,
           PmpTaken = {}, PmpTaken' = S,
           PlpTaken' = PlpTaken, \A q \in Procs : Listed(q)' = Listed(q)
    PROVE  Handed(Held, Held', None, Pmp, S)
<1>1. \A o \in Owners : o # Pmp /\ o # None => Held'[o] = Held[o]
  BY HeldBy, HeldAfter
<1>2. /\ Held[Pmp] = {} /\ Held'[Pmp] = S
      /\ S \subseteq Held[None] /\ Held'[None] = Held[None] \ S
  BY HeldBy, HeldAfter
<1>. QED
  BY <1>1, <1>2, OwnersDiffer DEF Handed

(* Nothing moves when no planner takes or releases a frame, and no table   *)
(* changes.                                                                *)
LEMMA OthersMoveNothing ==
    ASSUME Typed, Partition, NEW p \in Procs, OtherMoves(p)
    PROVE  Partition'
<1>1. PlpKept /\ PmpKept /\ UNCHANGED frameTables
  BY UserLeaves DEF Typed, OtherMoves
<1>. QED
  BY <1>1, NothingMoves
     DEF PlpKept, PmpKept, frameTables, PlpTaken, PmpTaken, Listed

(* The PLP takes free frames and gives them to its process, or gives back  *)
(* those it took or those of a process it is told to forget.               *)
LEMMA PlpHands ==
    ASSUME Typed, Roles, Partition, NEW p \in Procs, PlpMoves(p)
    PROVE  Partition'
<1>. USE ThreadsAssumption DEF At, Goto, Answer
<1>0. /\ TypeOK /\ PlpClaim /\ PmpClaim /\ PmpKept
      /\ stage \in [Threads -> Stages] /\ hand \in [Threads -> Seq(Frames)]
      /\ job \in [Planners -> Procs \union {None}]
      /\ Plp \in Threads /\ Plp \in Planners
      /\ stage[Plp] # "idle" => job[Plp] \in Procs
      /\ PmpTaken' = PmpTaken
  BY PlpLeaves, PlannersAreThreads
     DEF Typed, TypeOK, JobNamed, Roles, PlpMoves, PmpKept, PmpTaken
<1>1. CASE Capacity \/ LoadScript \/ Count \/ MapPages \/ AskCapacity(p) \/ AskClear(p)
  <2>1. /\ stage[Plp] \notin {"register", "forget"}
        /\ stage'[Plp] \notin {"register", "forget"}
        /\ free' = free /\ framesTable' = framesTable
    BY <1>0, <1>1 DEF Capacity, LoadScript, Count, MapPages, AskCapacity, AskClear,
                      Ask, frameVars, tableVars
  <2>. QED
    BY <1>0, <2>1, NothingMoves DEF PlpTaken, Listed, PmpKept
<1>2. CASE Allocate
  <2>1. /\ \A q \in Procs : Listed(q)' = Listed(q)
        /\ PlpTaken = {}
    BY <1>0, <1>2 DEF Allocate, Listed, PmpKept, tableVars, PlpTaken
  <2>2. CASE Fits(job[Plp])
    <3>1. PICK s \in FirstFree(Need[job[Plp]]) :
             /\ hand' = [hand EXCEPT ![Plp] = s]
             /\ free' = free \ InUse(s)
             /\ Goto(Plp, "register")
      BY <1>2, <2>2 DEF Allocate
    <3>2. InUse(s) \subseteq free
      BY <1>0, <1>2, NeedAssumption, FirstFreeFinds DEF Allocate, TypeOK
    <3>3. PlpTaken' = InUse(s)
      BY <1>0, <3>1 DEF PlpTaken
    <3>4. Handed(Held, Held', None, Plp, InUse(s))
      BY <1>0, <2>1, <3>1, <3>2, <3>3, HeldBy, HeldAfter DEF Handed
    <3>. QED
      BY <3>4, SomeMove
  <2>3. CASE ~Fits(job[Plp])
    <3>1. PlpTaken' = {} /\ free' = free
      BY <1>0, <1>2, <2>3 DEF Allocate, PlpTaken
    <3>. QED
      BY <1>0, <2>1, <3>1, NothingMoves
  <2>. QED
    BY <2>2, <2>3
<1>3. CASE Register
  <2>0. PICK j \in Procs : j = job[Plp]
    BY <1>0, <1>3 DEF Register
  <2>1. /\ PlpTaken = InUse(hand[Plp]) /\ PlpTaken' = {}
        /\ \A q \in Procs \ {j} : Listed(q)' = Listed(q)
    BY <1>0, <1>3, <2>0 DEF Register, PlpTaken, Listed, PmpKept, With
  <2>2. CASE j \in procTable
    <3>1. /\ free' = free \union InUse(hand[Plp])
          /\ Listed(j)' = Listed(j)
      BY <1>0, <1>3, <2>0, <2>2 DEF Register, Listed, PmpKept
    <3>2. Handed(Held, Held', Plp, None, InUse(hand[Plp]))
      BY <1>0, <2>1, <3>1, HeldBy, HeldAfter DEF Handed
    <3>. QED
      BY <3>2, SomeMove
  <2>3. CASE j \notin procTable
    <3>1. j \notin DOMAIN framesTable /\ estado[j] = "NEW"
      BY <1>0, <1>3, <2>0, <2>3
         DEF Register, Roles, Consistent, PlpClaim, ReserveStages
    <3>2. ~(stage[Pmp] = "recordOut" /\ job[Pmp] = j)
      BY <1>0, <3>1 DEF PmpClaim, OutStages
    <3>3. Listed(j) = {} /\ Listed(j)' = InUse(hand[Plp]) /\ free' = free
      BY <1>0, <1>3, <2>0, <2>3, <3>1, <3>2 DEF Register, Listed, PmpKept, With
    <3>4. Handed(Held, Held', Plp, j, InUse(hand[Plp]))
      BY <1>0, <2>1, <3>3, HeldBy, HeldAfter DEF Handed
    <3>. QED
      BY <3>4, SomeMove
  <2>. QED
    BY <2>2, <2>3
<1>4. CASE LookUp
  <2>0. PICK j \in Procs : j = job[Plp]
    BY <1>0, <1>4 DEF LookUp
  <2>1. j \in procTable
    BY <1>0, <1>4, <2>0 DEF LookUp, Roles, Consistent, PlpClaim, ClearStages
  <2>2. /\ free' = free /\ framesTable' = framesTable /\ job' = job
        /\ PlpTaken = {} /\ PlpTaken' = {}
        /\ stage'[Plp] = "forget" =>
              (j \notin DOMAIN framesTable \/ framesTable[j] = <<>>)
    BY <1>0, <1>4, <2>0, <2>1 DEF LookUp, PlpTaken, frameVars, tableVars
  <2>3. \A q \in Procs : Listed(q)' = Listed(q)
    <3>1. \A q \in Procs \ {j} : Listed(q)' = Listed(q)
      BY <1>0, <1>4, <2>0, <2>2 DEF LookUp, Listed, PmpKept
    <3>2. CASE stage'[Plp] = "forget"
      <4>1. Listed(j) = {}
        BY <2>2, <3>2 DEF Listed, InUse
      <4>. QED
        BY <2>0, <2>2, <3>1, <3>2, <4>1 DEF Listed
    <3>3. CASE stage'[Plp] # "forget"
      BY <1>0, <1>4, <2>0, <2>2, <3>1, <3>3 DEF LookUp, Listed, PmpKept
    <3>. QED
      BY <3>2, <3>3
  <2>. QED
    BY <1>0, <2>2, <2>3, NothingMoves
<1>5. CASE Release
  <2>0. PICK j \in Procs : j = job[Plp]
    BY <1>0, <1>5 DEF Release
  <2>1. /\ j \in DOMAIN framesTable /\ hand[Plp] = framesTable[j]
        /\ ~(stage[Pmp] = "recordOut" /\ job[Pmp] = j)
    BY <1>0, <1>5, <2>0
       DEF Release, PlpClaim, PmpClaim, ClearStages, OutStages, Suspended
  <2>2. /\ free' = free \union InUse(hand[Plp])
        /\ PlpTaken = {} /\ PlpTaken' = {}
        /\ Listed(j) = InUse(hand[Plp]) /\ Listed(j)' = {}
        /\ \A q \in Procs \ {j} : Listed(q)' = Listed(q)
    BY <1>0, <1>5, <2>0, <2>1 DEF Release, PlpTaken, Listed, PmpKept, tableVars
  <2>3. Handed(Held, Held', j, None, InUse(hand[Plp]))
    BY <1>0, <2>2, ProcessGives
  <2>. QED
    BY <2>3, SomeMove
<1>6. CASE Forget
  <2>0. PICK j \in Procs : j = job[Plp]
    BY <1>0, <1>6 DEF Forget
  <2>1. /\ free' = free /\ PlpTaken = {} /\ PlpTaken' = {}
        /\ \A q \in Procs : Listed(q)' = Listed(q)
    BY <1>0, <1>6, <2>0
       DEF Forget, PlpTaken, Listed, PmpKept, frameVars, Without
  <2>. QED
    BY <1>0, <2>1, NothingMoves
<1>. QED
  BY <1>1, <1>2, <1>3, <1>4, <1>5, <1>6 DEF PlpMoves, ReserveStep, ClearStep

(* The PMP gives the frames of its process back, or takes free frames and  *)
(* gives them to its process or back.                                      *)
LEMMA PmpHands ==
    ASSUME Typed, Roles, Circumstances, Partition, NEW p \in Procs, PmpMoves(p)
    PROVE  Partition'
<1>. USE ThreadsAssumption
     DEF At, Goto, Answer, PmpAnswer, PmpGoes, Swapped, HoldStages
<1>0. /\ TypeOK /\ PlpClaim /\ PmpClaim /\ PlpKept
      /\ stage \in [Threads -> Stages] /\ hand \in [Threads -> Seq(Frames)]
      /\ job \in [Planners -> Procs \union {None}]
      /\ Pmp \in Threads /\ Pmp \in Planners
      /\ stage[Pmp] # "idle" => job[Pmp] \in Procs
      /\ PlpTaken' = PlpTaken
  BY PmpLeaves, PlannersAreThreads
     DEF Typed, TypeOK, JobNamed, Roles, PmpMoves, PlpKept, PlpTaken
<1>1. ASSUME stage[Pmp] \notin HoldStages \union {"recordOut"},
             stage'[Pmp] \notin HoldStages \union {"recordOut"},
             free' = free, framesTable' = framesTable
      PROVE  Partition'
  BY <1>0, <1>1, NothingMoves DEF PmpTaken, Listed, PlpKept
<1>2. ASSUME stage[Pmp] \in HoldStages, stage'[Pmp] \in HoldStages,
             hand' = hand, free' = free, framesTable' = framesTable
      PROVE  Partition'
  BY <1>0, <1>2, NothingMoves DEF PmpTaken, Listed, PlpKept
<1>3. ASSUME stage[Pmp] \in HoldStages,
             RollBack, framesTable' = framesTable
      PROVE  Partition'
  <2>1. /\ PmpTaken = InUse(hand[Pmp]) /\ PmpTaken' = {}
        /\ free' = free \union InUse(hand[Pmp])
        /\ \A q \in Procs : Listed(q)' = Listed(q)
    BY <1>0, <1>3 DEF PmpTaken, Listed, PlpKept, RollBack
  <2>2. Handed(Held, Held', Pmp, None, InUse(hand[Pmp]))
    BY <1>0, <2>1, PmpFrees
  <2>. QED
    BY <2>2, SomeMove
<1>4. CASE OpenFails \/ MarkAbsent \/ AskPut(p) \/ AskIsInSwap(p)
  BY <1>0, <1>1, <1>4 DEF OpenFails, MarkAbsent, AskPut, AskIsInSwap, Ask,
                          frameVars, tableVars
<1>5. CASE IsProcessInSwap \/ PmpCapacity \/ RemoveLook \/ MarkPresent
  BY <1>0, <1>1, <1>5 DEF IsProcessInSwap, PmpCapacity, RemoveLook, MarkPresent,
                          frameVars, tableVars
<1>6. CASE PutLook
  <2>0. PICK j \in Procs : j = job[Pmp]
    BY <1>0, <1>6 DEF PutLook
  <2>1. CASE stage'[Pmp] # "recordOut"
    BY <1>0, <1>1, <1>6, <2>1 DEF PutLook, frameVars, tableVars
  <2>2. CASE stage'[Pmp] = "recordOut"
    <3>1. /\ job' = job /\ framesTable[j] = <<>>
          /\ free' = free /\ framesTable' = framesTable
          /\ PmpTaken = {} /\ PmpTaken' = {}
      BY <1>0, <1>6, <2>0, <2>2 DEF PutLook, PmpTaken, frameVars, tableVars
    <3>2. \A q \in Procs \ {j} : Listed(q)' = Listed(q)
      BY <1>0, <1>6, <2>0, <3>1 DEF PutLook, Listed, PlpKept
    <3>3. Listed(j) = {} /\ Listed(j)' = {}
      BY <2>0, <2>2, <3>1 DEF Listed, InUse
    <3>. QED
      BY <1>0, <3>1, <3>2, <3>3, NothingMoves
  <2>. QED
    BY <2>1, <2>2
<1>7. CASE CopyOut
  <2>0. PICK j \in Procs : j = job[Pmp]
    BY <1>0, <1>7 DEF CopyOut
  <2>1. /\ j \in DOMAIN framesTable /\ hand[Pmp] = framesTable[j]
        /\ ~(stage[Plp] = "forget" /\ job[Plp] = j)
    BY <1>0, <1>7, <2>0
       DEF CopyOut, PlpClaim, PmpClaim, ClearStages, OutStages, Suspended
  <2>2. /\ free' = free \union InUse(hand[Pmp])
        /\ PmpTaken = {} /\ PmpTaken' = {}
        /\ Listed(j) = InUse(hand[Pmp]) /\ Listed(j)' = {}
        /\ \A q \in Procs \ {j} : Listed(q)' = Listed(q)
    BY <1>0, <1>7, <2>0, <2>1 DEF CopyOut, PmpTaken, Listed, PlpKept, tableVars
  <2>3. Handed(Held, Held', j, None, InUse(hand[Pmp]))
    BY <1>0, <2>2, ProcessGives
  <2>. QED
    BY <2>3, SomeMove
<1>8. CASE RecordOut
  <2>0. PICK j \in Procs : j = job[Pmp]
    BY <1>0, <1>8 DEF RecordOut
  <2>1. /\ free' = free /\ PmpTaken = {} /\ PmpTaken' = {}
        /\ framesTable' = Without(framesTable, j) /\ stage'[Pmp] = "absence"
    BY <1>0, <1>8, <2>0 DEF RecordOut, PmpTaken, frameVars, Circumstances
  <2>2. \A q \in Procs : Listed(q)' = Listed(q)
    BY <1>0, <1>8, <2>0, <2>1 DEF RecordOut, Listed, PlpKept, Without
  <2>. QED
    BY <1>0, <2>1, <2>2, NothingMoves
<1>9. CASE ReserveFrames
  <2>1. CASE PmpAnswer("EXIT") /\ UNCHANGED free
    BY <1>0, <1>1, <1>9, <2>1 DEF ReserveFrames, tableVars
  <2>2. ASSUME NEW s \in FirstFree(Len(copy)),
               hand' = [hand EXCEPT ![Pmp] = s], free' = free \ InUse(s),
               Goto(Pmp, "record") \/ Goto(Pmp, "readFile"),
               UNCHANGED <<estado, job, copy, swapMutex>>
        PROVE  Partition'
    <3>0. free \subseteq Frames /\ Len(copy) \in Nat
      BY <1>0 DEF TypeOK
    <3>1. InUse(s) \subseteq free
      BY ONLY <2>2, <3>0, FirstFreeFinds
    <3>2. /\ PmpTaken = {} /\ PmpTaken' = InUse(s)
          /\ \A q \in Procs : Listed(q)' = Listed(q)
      BY <1>0, <1>9, <2>2 DEF ReserveFrames, PmpTaken, Listed, PlpKept, tableVars
    <3>3. Handed(Held, Held', None, Pmp, InUse(s))
      BY <1>0, <2>2, <3>1, <3>2, PmpTakes
    <3>. QED
      BY <3>3, SomeMove
  <2>. QED
    BY <1>9, <2>1, <2>2 DEF ReserveFrames
<1>10. CASE ReadFile \/ Restore
  BY <1>0, <1>2, <1>10 DEF ReadFile, Restore, frameVars, tableVars
<1>11. CASE ReadFails
  BY <1>0, <1>3, <1>11 DEF ReadFails, tableVars
<1>12. CASE CheckTable
  BY <1>0, <1>2, <1>3, <1>12 DEF CheckTable, tableVars
<1>13. CASE Remap
  <2>1. job[Pmp] \in procTable
    BY <1>0, <1>13 DEF Remap, PmpClaim, Roles, Consistent
  <2>. QED
    BY <1>0, <1>2, <1>13, <2>1 DEF Remap, frameVars
<1>14. CASE Record
  <2>0. PICK j \in Procs : j = job[Pmp]
    BY <1>0, <1>14 DEF Record
  <2>1. /\ j \notin DOMAIN framesTable
        /\ ~(stage[Plp] = "forget" /\ job[Plp] = j)
    BY <1>0, <1>14, <2>0
       DEF Record, PlpClaim, PmpClaim, Roles, Consistent, ClearStages, InStages,
           RemoveStages
  <2>2. /\ free' = free
        /\ PmpTaken = InUse(hand[Pmp]) /\ PmpTaken' = {}
        /\ Listed(j) = {} /\ Listed(j)' = InUse(hand[Pmp])
        /\ \A q \in Procs \ {j} : Listed(q)' = Listed(q)
    BY <1>0, <1>14, <2>0, <2>1
       DEF Record, PmpTaken, Listed, PlpKept, With, frameVars
  <2>3. Handed(Held, Held', Pmp, j, InUse(hand[Pmp]))
    BY <1>0, <2>2, PmpGives
  <2>. QED
    BY <2>3, SomeMove
<1>. QED
  BY <1>4, <1>5, <1>6, <1>7, <1>8, <1>9, <1>10, <1>11, <1>12, <1>13, <1>14
     DEF PmpMoves, PutStep, RemoveStep

LEMMA SoundInit ==
    ASSUME Init
    PROVE  Sound
<1>1. Typed /\ Roles
  BY TypeInit, RolesInit
<1>2. free = Frames /\ PlpTaken = {} /\ PmpTaken = {}
      /\ \A q \in Procs : Listed(q) = {}
  BY PlannersAreThreads DEF Init, PlpTaken, PmpTaken, HoldStages, Listed
<1>3. Partition
  BY <1>2, HeldBy DEF Partition, Divides
<1>. QED
  BY <1>1, <1>3 DEF Sound

LEMMA SoundStep ==
    ASSUME Circumstances, Sound, [Next]_vars
    PROVE  Sound'
<1>0. Typed /\ Roles /\ Partition /\ Typed'
  BY TypedStep DEF Sound
<1>1. CASE UNCHANGED vars
  <2>1. Roles'
    BY <1>0, <1>1 DEF vars, threadVars, frameVars, tableVars, Roles, PlpClaim,
                      PmpClaim, Consistent
  <2>2. Partition'
    BY <1>0, <1>1, NothingMoves
       DEF vars, threadVars, frameVars, tableVars, PlpTaken, PmpTaken, Listed
  <2>. QED
    BY <1>0, <2>1, <2>2 DEF Sound
<1>2. ASSUME Next, NEW q \in Procs
      PROVE  Sound'
  <2>1. PICK p \in Procs : PlpMoves(p) \/ PmpMoves(p) \/ OtherMoves(p)
    BY <1>2, WhoMoves
  <2>2. CASE PlpMoves(p)
    BY <1>0, <2>2, RolesPlp, PlpHands DEF Sound
  <2>3. CASE PmpMoves(p)
    BY <1>0, <2>3, RolesPmp, PmpHands DEF Sound
  <2>4. CASE OtherMoves(p)
    BY <1>0, <2>4, RolesOthers, OthersMoveNothing DEF Sound
  <2>. QED
    BY <2>1, <2>2, <2>3, <2>4
<1>3. CASE Next /\ Procs = {}
  BY <1>0, <1>3, NobodyMoves
<1>. QED
  BY <1>1, <1>2, <1>3

LEMMA AlwaysSound ==
    ASSUME Circumstances
    PROVE  Spec => []Sound
<1>1. Init => Sound
  BY SoundInit
<1>2. Sound /\ [Next]_vars => Sound'
  BY SoundStep
<1>. QED
  BY <1>1, <1>2, PTL DEF Spec

(***************************************************************************)
(* The properties.                                                         *)
(***************************************************************************)
(* What is taken is what the two planners' handlers have.                  *)
LEMMA TakenByPlanners == Taken = PlpTaken \union PmpTaken
BY DEF Taken, PlpTaken, PmpTaken, HoldStages

(* A frame is never free and in use, nor in use by two processes, however  *)
(* the admissions, swaps and ends that the handlers of Memory serve        *)
(* interleave (gestion_memoria.go, all_swap.go, clearProcess.go), provided *)
(* that none ends while the PMP has it at Memory, none returns to READY    *)
(* from a wait that its timer ended, and the swap file takes what is       *)
(* written.                                                                *)
THEOREM FramesHaveOneOwner ==
    ASSUME Circumstances
    PROVE  Spec => []OneOwner
<1>1. Sound => OneOwner
  <2>. SUFFICES ASSUME Sound PROVE OneOwner
    OBVIOUS
  <2>1. \A o1, o2 \in Owners : o1 # o2 => Held[o1] \intersect Held[o2] = {}
    BY DEF Sound, Partition, Divides
  <2>2. None \notin Procs /\ Plp \notin Procs /\ Pmp \notin Procs
        /\ None # Plp /\ None # Pmp
    BY ThreadsAssumption DEF Threads, Planners
  <2>3. \A p \in Procs : Listed(p) \intersect (free \union Taken) = {}
    BY <2>1, <2>2, HeldBy, TakenByPlanners
  <2>4. free \intersect Taken = {}
    BY <2>1, <2>2, HeldBy, TakenByPlanners
  <2>5. \A p, q \in Procs : p # q => Listed(p) \intersect Listed(q) = {}
    BY <2>1, HeldBy
  <2>. QED
    BY <2>3, <2>4, <2>5 DEF OneOwner
<1>. QED
  BY <1>1, AlwaysSound, PTL

(* No swap, no end of a process and no swap file that fails to open or to  *)
(* be read loses a frame: each is free or somebody's. Under the same       *)
(* provisions: a process that ends while the PMP brings it back, or a      *)
(* write that fails, may lose some.                                        *)
THEOREM FramesAreKept ==
    ASSUME Circumstances
    PROVE  Spec => []NoFrameLost
<1>1. Sound => NoFrameLost
  <2>. SUFFICES ASSUME Sound PROVE NoFrameLost
    OBVIOUS
  <2>1. ASSUME NEW f \in Frames
        PROVE  f \in free \union Taken \union UNION {Listed(p) : p \in Procs}
    <3>1. PICK o \in Owners : f \in Held[o]
      BY DEF Sound, Partition, Divides
    <3>. QED
      BY <3>1, HeldBy, TakenByPlanners
  <2>2. free \union Taken \union UNION {Listed(p) : p \in Procs} \subseteq Frames
    BY DEF Sound, Typed, TypeOK, Taken, Listed, InUse, IsTable, Threads, Planners
  <2>. QED
    BY <2>1, <2>2 DEF NoFrameLost
<1>. QED
  BY <1>1, AlwaysSound, PTL

(* Memory keeps nothing of a process it was told to forget (clearProcess), *)
(* under the same provisions: of one that ended while the PMP had it at    *)
(* Memory it may keep an entry of the swap table (all_swap.go:131-134).    *)
THEOREM TheEndedAreForgotten ==
    ASSUME Circumstances
    PROVE  Spec => []EndedIsForgotten
<1>1. Sound => EndedIsForgotten
  BY DEF Sound, Roles, Consistent, EndedIsForgotten
<1>. QED
  BY <1>1, AlwaysSound, PTL
=============================================================================
