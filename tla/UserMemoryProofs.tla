------------------------ MODULE UserMemoryProofs ------------------------
(***************************************************************************)
(* Everything in Memory has its type, for any processes, frames and needs, *)
(* whatever fails.  UserMemoryOwnership builds on it.                      *)
(***************************************************************************)
EXTENDS UserMemory, TLAPS

(* What a swap in has read fits the frames it has taken.                   *)
Restorable ==
    stage[Pmp] \in {"readFile", "restore"} => DOMAIN hand[Pmp] = DOMAIN copy

(***************************************************************************)
(* Sequences of frames and tables.                                         *)
(***************************************************************************)

(* The frames of a sequence of frames are frames.                          *)
LEMMA InUseAreFrames ==
    ASSUME NEW s \in Seq(Frames)
    PROVE  InUse(s) \subseteq Frames
BY DEF InUse

(* What FirstFree finds are free frames, as many as asked for.             *)
LEMMA FirstFreeFinds ==
    ASSUME NEW n \in Nat, NEW s \in FirstFree(n), free \subseteq Frames
    PROVE  s \in Seq(Frames) /\ DOMAIN s = 1..n /\ InUse(s) \subseteq free
<1>1. s \in [1..n -> free]
  BY DEF FirstFree
<1>2. s \in [1..n -> Frames]
  BY <1>1
<1>3. s \in Seq(Frames)
  BY <1>2
<1>4. InUse(s) \subseteq free
  BY <1>1 DEF InUse
<1>. QED
  BY <1>1, <1>3, <1>4

(* A key put in a table has its value, and the others keep theirs.         *)
LEMMA WithTable ==
    ASSUME NEW V, NEW table, IsTable(table, V), NEW p \in Procs, NEW v \in V
    PROVE  /\ IsTable(With(table, p, v), V)
           /\ DOMAIN With(table, p, v) = DOMAIN table \union {p}
           /\ With(table, p, v)[p] = v
           /\ \A q \in DOMAIN table \ {p} : With(table, p, v)[q] = table[q]
BY DEF IsTable, With

(* A key taken from a table is gone, and the others keep their values.     *)
LEMMA WithoutTable ==
    ASSUME NEW V, NEW table, IsTable(table, V), NEW p \in Procs
    PROVE  /\ IsTable(Without(table, p), V)
           /\ DOMAIN Without(table, p) = DOMAIN table \ {p}
           /\ \A q \in DOMAIN table \ {p} : Without(table, p)[q] = table[q]
BY DEF IsTable, Without

(***************************************************************************)
(* Types.                                                                  *)
(***************************************************************************)
(* A request of a planner is about a process.                              *)
JobNamed == \A t \in Planners : stage[t] # "idle" => job[t] \in Procs

Typed == TypeOK /\ Restorable /\ JobNamed

LEMMA TypeInit == Init => Typed
<1>. SUFFICES ASSUME Init PROVE Typed
  OBVIOUS
<1>1. TypeOK
  <2>1. << >> \in Seq(Frames) /\ << >> \in Seq(Data)
    OBVIOUS
  <2>2. IsTable(<< >>, Seq(Frames)) /\ IsTable(<< >>, Seq(Data))
    BY DEF IsTable
  <2>3. NoData \in Data
    BY DEF NoData, Data
  <2>. QED
    BY <2>1, <2>2, <2>3 DEF Init, TypeOK, Stages, Estados
<1>2. Restorable /\ JobNamed
  BY DEF Init, Restorable, JobNamed, Threads, Planners
<1>. QED
  BY <1>1, <1>2 DEF Typed

(* The types of what Goto, Ask and Answer assign.                          *)
LEMMA GotoTypes ==
    ASSUME TypeOK, NEW t \in Threads, NEW s \in Stages, Goto(t, s)
    PROVE  stage' \in [Threads -> Stages]
BY DEF TypeOK, Goto

LEMMA AskTypes ==
    ASSUME TypeOK, NEW t \in Planners, NEW p \in Procs, NEW s \in Stages,
           Ask(t, p, s)
    PROVE  /\ stage' \in [Threads -> Stages]
           /\ job' \in [Planners -> Procs \union {None}]
BY DEF TypeOK, Ask, Goto, Threads

LEMMA AnswerTypes ==
    ASSUME TypeOK, NEW t \in Planners, NEW s,
           job[t] \in Procs => s \in Estados, Answer(t, s)
    PROVE  /\ estado' \in [Procs -> Estados]
           /\ stage' \in [Threads -> Stages]
           /\ job' \in [Planners -> Procs \union {None}]
           /\ hand' \in [Threads -> Seq(Frames)]
<1>1. /\ estado' \in [Procs -> Estados]
      /\ stage' \in [Threads -> Stages]
      /\ job' \in [Planners -> Procs \union {None}]
  BY DEF TypeOK, Answer, Goto, Threads, Stages
<1>2. << >> \in Seq(Frames)
  OBVIOUS
<1>3. hand' \in [Threads -> Seq(Frames)]
  BY <1>2 DEF TypeOK, Answer, Threads
<1>. QED
  BY <1>1, <1>3

LEMMA SameType ==
    ASSUME TypeOK, NEW t \in Planners
    PROVE  job[t] \in Procs => Same(t) \in Estados
BY DEF TypeOK, Same

(***************************************************************************)
(* Each client leaves the requests of the others alone.                    *)
(***************************************************************************)
PmpKept ==
    /\ stage'[Pmp] = stage[Pmp] /\ job'[Pmp] = job[Pmp]
    /\ hand'[Pmp] = hand[Pmp] /\ copy' = copy
PlpKept ==
    /\ stage'[Plp] = stage[Plp] /\ job'[Plp] = job[Plp]
    /\ hand'[Plp] = hand[Plp]
UsersKept ==
    \A p \in Procs :
        stage'[p] = stage[p] /\ hand'[p] = hand[p] /\ page'[p] = page[p]

LEMMA PlpLeaves ==
    ASSUME TypeOK, NEW p \in Procs,
           ReserveStep \/ ClearStep \/ AskCapacity(p) \/ AskClear(p)
    PROVE  PmpKept /\ UsersKept
<1>. USE ThreadsAssumption
     DEF PmpKept, UsersKept, TypeOK, Threads, Planners, Goto, Answer, Ask, At
<1>1. CASE Capacity \/ LoadScript \/ Count
  BY <1>1 DEF Capacity, LoadScript, Count
<1>2. CASE Allocate \/ Register \/ MapPages
  BY <1>2 DEF Allocate, Register, MapPages
<1>3. CASE LookUp \/ Release \/ Forget
  BY <1>3 DEF LookUp, Release, Forget
<1>4. CASE AskCapacity(p) \/ AskClear(p)
  BY <1>4 DEF AskCapacity, AskClear
<1>. QED
  BY <1>1, <1>2, <1>3, <1>4 DEF ReserveStep, ClearStep

LEMMA PmpLeaves ==
    ASSUME TypeOK, NEW p \in Procs,
           PutStep \/ RemoveStep \/ AskPut(p) \/ AskIsInSwap(p)
    PROVE  PlpKept /\ UsersKept
<1>. USE ThreadsAssumption
     DEF PlpKept, UsersKept, TypeOK, Threads, Planners, Goto, Answer, Ask, At,
         PmpGoes, PmpAnswer
<1>1. CASE PutStep
  BY <1>1 DEF PutStep, PutLook, CopyOut, OpenFails, RecordOut, MarkAbsent
<1>2. CASE IsProcessInSwap \/ PmpCapacity \/ RemoveLook \/ ReserveFrames
  BY <1>2 DEF IsProcessInSwap, PmpCapacity, RemoveLook, ReserveFrames
<1>3. CASE ReadFile \/ ReadFails \/ Restore \/ CheckTable
  BY <1>3 DEF ReadFile, ReadFails, RollBack, Restore, CheckTable
<1>4. CASE Remap \/ Record \/ MarkPresent
  BY <1>4 DEF Remap, Record, MarkPresent
<1>5. CASE AskPut(p) \/ AskIsInSwap(p)
  BY <1>5 DEF AskPut, AskIsInSwap
<1>. QED
  BY <1>1, <1>2, <1>3, <1>4, <1>5 DEF RemoveStep

(* The frames, and the tables but the one of pages.                        *)
frameTables == <<free, procTable, framesTable, swapTable, scripts>>

LEMMA UserLeaves ==
    ASSUME TypeOK, NEW p \in Procs,
           \/ UserStep(p) \/ Life(p) \/ AskDump(p) \/ FetchFails(p)
           \/ \E i \in Pages(p) : SearchFrame(p, i)
           \/ \E t \in Threads : WriterWaits(t)
           \/ Crash
    PROVE  PmpKept /\ PlpKept /\ UNCHANGED frameTables
<1>. USE ThreadsAssumption
     DEF PmpKept, PlpKept, frameTables, TypeOK, Threads, Planners, Goto, At,
         DumpAnswer, threadVars, frameVars, tableVars
<1>1. CASE UserStep(p)
  BY <1>1 DEF UserStep, Write, WriteCheck, WriteCount, DumpLook, DumpInSwap,
              DumpCopy, DumpFails, DumpReturn
<1>2. CASE Life(p)
  BY <1>2 DEF Life, Block, Unblock, Finish, Withdraw, Suspend, Move
<1>3. CASE AskDump(p) \/ FetchFails(p) \/ \E i \in Pages(p) : SearchFrame(p, i)
  BY <1>3 DEF AskDump, FetchFails, SearchFrame
<1>4. CASE (\E t \in Threads : WriterWaits(t)) \/ Crash
  BY <1>4 DEF WriterWaits, Crash
<1>. QED
  BY <1>1, <1>2, <1>3, <1>4

(***************************************************************************)
(* Every step keeps the types.                                             *)
(***************************************************************************)
LEMMA PlannersAreThreads ==
    Plp \in Planners /\ Pmp \in Planners /\ Planners \subseteq Threads
        /\ Procs \subseteq Threads
BY DEF Planners, Threads

(* The steps of ReserveMemory keep the types.                              *)
LEMMA TypeReserve ==
    ASSUME Typed, ReserveStep
    PROVE  TypeOK'
<1>. USE PlannersAreThreads, GotoTypes, AnswerTypes, SameType
     DEF frameVars, tableVars, lockVars, Stages, PlpStages
<1>0. TypeOK /\ (stage[Plp] # "idle" => job[Plp] \in Procs)
  BY DEF Typed, JobNamed
<1>1. CASE Capacity
  <2>1. CASE Goto(Plp, "script") /\ UNCHANGED <<estado, job, hand>>
    BY <1>0, <1>1, <2>1 DEF Capacity, TypeOK
  <2>2. CASE Answer(Plp, Same(Plp))
    BY <1>0, <1>1, <2>2 DEF Capacity, TypeOK
  <2>. QED
    BY <1>1, <2>1, <2>2 DEF Capacity
<1>2. CASE LoadScript
  <2>1. CASE Goto(Plp, "count") /\ UNCHANGED <<estado, job, hand>>
    BY <1>0, <1>2, <2>1 DEF LoadScript, TypeOK, At
  <2>2. CASE Answer(Plp, Same(Plp)) /\ UNCHANGED scripts
    BY <1>0, <1>2, <2>2 DEF LoadScript, TypeOK
  <2>. QED
    BY <1>2, <2>1, <2>2 DEF LoadScript
<1>3. CASE Count
  <2>1. CASE Goto(Plp, "allocate") /\ UNCHANGED <<estado, job, hand>>
    BY <1>0, <1>3, <2>1 DEF Count, TypeOK
  <2>2. CASE Answer(Plp, Same(Plp))
    BY <1>0, <1>3, <2>2 DEF Count, TypeOK
  <2>. QED
    BY <1>3, <2>1, <2>2 DEF Count
<1>4. CASE Allocate
  <2>1. CASE Fits(job[Plp])
    <3>1. PICK s \in FirstFree(Need[job[Plp]]) :
             /\ hand' = [hand EXCEPT ![Plp] = s]
             /\ free' = free \ InUse(s)
             /\ Goto(Plp, "register")
             /\ UNCHANGED <<estado, job, umLock>>
      BY <1>4, <2>1 DEF Allocate
    <3>2. Need[job[Plp]] \in Nat
      BY <1>0, <1>4, NeedAssumption DEF Allocate, At
    <3>3. s \in Seq(Frames)
      BY <1>0, <3>2, FirstFreeFinds DEF TypeOK
    <3>. QED
      BY <1>0, <1>4, <3>1, <3>3 DEF Allocate, TypeOK
  <2>2. CASE Answer(Plp, Same(Plp)) /\ umLock' = "kept" /\ UNCHANGED free
    BY <1>0, <1>4, <2>2 DEF Allocate, TypeOK
  <2>. QED
    BY <1>4, <2>1, <2>2 DEF Allocate
<1>5. CASE Register
  <2>0. job[Plp] \in Procs /\ hand[Plp] \in Seq(Frames)
    BY <1>0, <1>5 DEF Register, At, TypeOK
  <2>1. CASE job[Plp] \in procTable
    <3>1. free' \subseteq Frames
      BY <1>0, <1>5, <2>0, <2>1, InUseAreFrames DEF Register, TypeOK
    <3>2. Answer(Plp, Same(Plp)) /\ UNCHANGED <<procTable, framesTable, pageTable>>
      BY <1>5, <2>1 DEF Register
    <3>. QED
      BY <1>0, <1>5, <3>1, <3>2 DEF Register, TypeOK
  <2>2. CASE job[Plp] \notin procTable
    <3>1. IsTable(framesTable', Seq(Frames))
      <4>1. IsTable(framesTable, Seq(Frames))
        BY <1>0 DEF TypeOK
      <4>2. IsTable(With(framesTable, job[Plp], hand[Plp]), Seq(Frames))
        BY <2>0, <4>1, WithTable
      <4>. QED
        BY <1>5, <2>2, <4>2 DEF Register
    <3>2. pageTable' \in [Procs -> Seq(Frames)]
      <4>1. << >> \in Seq(Frames)
        OBVIOUS
      <4>. QED
        BY <1>0, <1>5, <2>0, <2>2, <4>1 DEF Register, TypeOK
    <3>. QED
      BY <1>0, <1>5, <2>0, <2>2, <3>1, <3>2 DEF Register, TypeOK
  <2>. QED
    BY <2>1, <2>2
<1>6. CASE MapPages
  <2>1. job[Plp] \in Procs /\ hand[Plp] \in Seq(Frames)
    BY <1>0, <1>6 DEF MapPages, At, TypeOK
  <2>2. Answer(Plp, "ACTIVE") /\ "ACTIVE" \in Estados
    BY <1>6 DEF MapPages, Estados
  <2>. QED
    BY <1>0, <1>6, <2>1, <2>2 DEF MapPages, TypeOK
<1>. QED
  BY <1>1, <1>2, <1>3, <1>4, <1>5, <1>6 DEF ReserveStep

(* The steps of ClearMemoryProcess keep the types.                         *)
LEMMA TypeClear ==
    ASSUME Typed, ClearStep
    PROVE  TypeOK'
<1>. USE PlannersAreThreads, GotoTypes, AnswerTypes
     DEF frameVars, tableVars, lockVars, Stages, PlpStages
<1>0. /\ TypeOK /\ "ended" \in Estados /\ hand[Plp] \in Seq(Frames)
      /\ stage[Plp] # "idle" => job[Plp] \in Procs
  BY DEF Typed, JobNamed, Estados, TypeOK
<1>1. CASE LookUp
  <2>1. CASE Answer(Plp, "ended")
    BY <1>0, <1>1, <2>1 DEF LookUp, TypeOK
  <2>2. ASSUME NEW s \in Seq(Frames), NEW w \in {"forget", "release"},
               hand' = [hand EXCEPT ![Plp] = s], Goto(Plp, w),
               UNCHANGED <<estado, job>>
        PROVE  TypeOK'
    BY <1>0, <1>1, <2>2 DEF LookUp, TypeOK
  <2>3. << >> \in Seq(Frames)
    OBVIOUS
  <2>4. \A q \in DOMAIN framesTable : framesTable[q] \in Seq(Frames)
    BY <1>0 DEF TypeOK, IsTable
  <2>. QED
    BY <1>1, <2>1, <2>2, <2>3, <2>4 DEF LookUp
<1>2. CASE Release
  BY <1>0, <1>2, InUseAreFrames DEF Release, TypeOK
<1>3. CASE Forget
  <2>1. job[Plp] \in Procs /\ << >> \in Seq(Frames)
    BY <1>0, <1>3 DEF Forget, At
  <2>2. IsTable(framesTable', Seq(Frames)) /\ IsTable(swapTable', Seq(Data))
    <3>1. IsTable(framesTable, Seq(Frames)) /\ IsTable(swapTable, Seq(Data))
      BY <1>0 DEF TypeOK
    <3>. QED
      BY <1>3, <2>1, <3>1, WithoutTable DEF Forget
  <2>3. /\ pageTable' \in [Procs -> Seq(Frames)]
        /\ procTable' \subseteq Procs /\ scripts' \subseteq Procs
    BY <1>0, <1>3, <2>1 DEF Forget, TypeOK
  <2>. QED
    BY <1>0, <1>3, <2>2, <2>3 DEF Forget, TypeOK
<1>. QED
  BY <1>1, <1>2, <1>3 DEF ClearStep

(* The steps of PutProcessInSwap keep the types.                           *)
LEMMA TypePut ==
    ASSUME Typed, PutStep
    PROVE  TypeOK'
<1>. USE PlannersAreThreads, GotoTypes, AnswerTypes, SameType
     DEF frameVars, tableVars, lockVars, Stages, PmpStages, PutStages, PmpGoes,
         PmpAnswer, Swapped
<1>0. /\ TypeOK /\ hand[Pmp] \in Seq(Frames) /\ << >> \in Seq(Data)
      /\ stage[Pmp] # "idle" => job[Pmp] \in Procs
  BY DEF Typed, JobNamed, TypeOK
<1>1. CASE PutLook
  <2>1. CASE PmpAnswer(Same(Pmp))
    BY <1>0, <1>1, <2>1 DEF PutLook, TypeOK
  <2>2. ASSUME job[Pmp] \in DOMAIN framesTable,
               NEW w \in {"recordOut", "copyOut"}, Goto(Pmp, w),
               hand' = [hand EXCEPT ![Pmp] = framesTable[job[Pmp]]],
               swapMutex' = TRUE, UNCHANGED <<estado, job, copy>>
        PROVE  TypeOK'
    <3>1. framesTable[job[Pmp]] \in Seq(Frames)
      BY <1>0, <2>2 DEF TypeOK, IsTable
    <3>. QED
      BY <1>0, <1>1, <2>2, <3>1 DEF PutLook, TypeOK
  <2>. QED
    BY <1>1, <2>1, <2>2 DEF PutLook
<1>2. CASE CopyOut
  <2>1. copy' \in Seq(Data)
    <3>1. Len(hand[Pmp]) \in Nat /\ \A i \in 1..Len(hand[Pmp]) : hand[Pmp][i] \in Frames
      BY <1>0
    <3>2. copy' \in [1..Len(hand[Pmp]) -> Data]
      BY <1>0, <1>2, <3>1 DEF CopyOut, TypeOK
    <3>. QED
      BY <3>1, <3>2
  <2>. QED
    BY <1>0, <1>2, <2>1, InUseAreFrames DEF CopyOut, TypeOK
<1>3. CASE OpenFails
  BY <1>0, <1>3 DEF OpenFails, TypeOK
<1>4. CASE RecordOut
  <2>0. job[Pmp] \in Procs /\ copy \in Seq(Data)
    BY <1>0, <1>4 DEF RecordOut, At, TypeOK
  <2>1. CASE PmpAnswer(Same(Pmp)) /\ UNCHANGED <<swapTable, framesTable>>
    BY <1>0, <1>4, <2>1 DEF RecordOut, TypeOK
  <2>2. CASE /\ swapTable' = With(swapTable, Swapped, copy)
             /\ framesTable' = Without(framesTable, Swapped)
             /\ PmpGoes("absence")
    <3>1. IsTable(framesTable, Seq(Frames)) /\ IsTable(swapTable, Seq(Data))
      BY <1>0 DEF TypeOK
    <3>2. IsTable(framesTable', Seq(Frames)) /\ IsTable(swapTable', Seq(Data))
      BY <2>0, <2>2, <3>1, WithTable, WithoutTable
    <3>. QED
      BY <1>0, <1>4, <2>2, <3>2 DEF RecordOut, TypeOK
  <2>. QED
    BY <1>4, <2>1, <2>2 DEF RecordOut
<1>5. CASE MarkAbsent
  <2>1. job[Pmp] \in Procs /\ << >> \in Seq(Frames)
    BY <1>0, <1>5 DEF MarkAbsent, At
  <2>. QED
    BY <1>0, <1>5, <2>1 DEF MarkAbsent, TypeOK
<1>. QED
  BY <1>1, <1>2, <1>3, <1>4, <1>5 DEF PutStep

(* The steps that bring a process back keep the types.                     *)
LEMMA TypeRemove ==
    ASSUME Typed, RemoveStep
    PROVE  TypeOK'
<1>. USE PlannersAreThreads, GotoTypes, AnswerTypes, SameType
     DEF frameVars, tableVars, lockVars, Stages, PmpStages, RemoveStages,
         PmpGoes, PmpAnswer, Swapped
<1>0. /\ TypeOK /\ hand[Pmp] \in Seq(Frames) /\ copy \in Seq(Data)
      /\ << >> \in Seq(Data) /\ "EXIT" \in Estados /\ "ACTIVE" \in Estados
      /\ stage[Pmp] # "idle" => job[Pmp] \in Procs
  BY DEF Typed, JobNamed, TypeOK, Estados
<1>1. CASE IsProcessInSwap
  BY <1>0, <1>1 DEF IsProcessInSwap, TypeOK
<1>2. CASE PmpCapacity
  BY <1>0, <1>2 DEF PmpCapacity, TypeOK
<1>3. CASE RemoveLook
  <2>0. job[Pmp] \in Procs /\ IsTable(swapTable, Seq(Data))
    BY <1>0, <1>3 DEF RemoveLook, At, TypeOK
  <2>1. CASE PmpAnswer("EXIT") /\ UNCHANGED swapTable
    BY <1>0, <1>3, <2>1 DEF RemoveLook, TypeOK
  <2>2. CASE swapTable' = Without(swapTable, Swapped) /\ PmpAnswer("ACTIVE")
    <3>1. IsTable(swapTable', Seq(Data))
      BY <2>0, <2>2, WithoutTable
    <3>. QED
      BY <1>0, <1>3, <2>2, <3>1 DEF RemoveLook, TypeOK
  <2>3. CASE /\ job[Pmp] \in DOMAIN swapTable
             /\ copy' = swapTable[Swapped] /\ swapMutex' = TRUE
             /\ Goto(Pmp, "reserve") /\ UNCHANGED <<estado, job, hand, swapTable>>
    <3>1. copy' \in Seq(Data)
      BY <1>0, <2>3 DEF TypeOK, IsTable
    <3>. QED
      BY <1>0, <1>3, <2>3, <3>1 DEF RemoveLook, TypeOK
  <2>. QED
    BY <1>3, <2>1, <2>2, <2>3 DEF RemoveLook
<1>4. CASE ReserveFrames
  <2>1. CASE PmpAnswer("EXIT") /\ UNCHANGED free
    BY <1>0, <1>4, <2>1 DEF ReserveFrames, TypeOK
  <2>2. ASSUME NEW s \in FirstFree(Len(copy)), NEW w \in {"record", "readFile"},
               hand' = [hand EXCEPT ![Pmp] = s], free' = free \ InUse(s),
               Goto(Pmp, w), UNCHANGED <<estado, job, copy, swapMutex>>
        PROVE  TypeOK'
    <3>1. s \in Seq(Frames)
      BY <1>0, <2>2, FirstFreeFinds DEF TypeOK
    <3>. QED
      BY <1>0, <1>4, <2>2, <3>1 DEF ReserveFrames, TypeOK
  <2>. QED
    BY <1>4, <2>1, <2>2 DEF ReserveFrames
<1>5. CASE ReadFile
  BY <1>0, <1>5 DEF ReadFile, TypeOK
<1>6. CASE ReadFails
  BY <1>0, <1>6, InUseAreFrames DEF ReadFails, RollBack, TypeOK
<1>7. CASE Restore
  <2>1. DOMAIN hand[Pmp] = DOMAIN copy
    BY <1>7 DEF Restore, At, Typed, Restorable
  <2>2. \A f \in InUse(hand[Pmp]) :
           copy[CHOOSE i \in DOMAIN copy : hand[Pmp][i] = f] \in Data
    BY <1>0, <2>1 DEF InUse
  <2>3. mem' \in [Frames -> Data]
    BY <1>0, <1>7, <2>2 DEF Restore, TypeOK
  <2>. QED
    BY <1>0, <1>7, <2>3 DEF Restore, TypeOK
<1>8. CASE CheckTable
  <2>1. CASE PmpGoes("remap") /\ UNCHANGED free
    BY <1>0, <1>8, <2>1 DEF CheckTable, TypeOK
  <2>2. CASE RollBack
    BY <1>0, <1>8, <2>2, InUseAreFrames DEF CheckTable, RollBack, TypeOK
  <2>. QED
    BY <1>8, <2>1, <2>2 DEF CheckTable
<1>9. CASE Remap
  BY <1>0, <1>9 DEF Remap, At, TypeOK
<1>10. CASE Record
  <2>0. job[Pmp] \in Procs
    BY <1>0, <1>10 DEF Record, At
  <2>1. IsTable(framesTable, Seq(Frames)) /\ IsTable(swapTable, Seq(Data))
    BY <1>0 DEF TypeOK
  <2>2. IsTable(framesTable', Seq(Frames)) /\ IsTable(swapTable', Seq(Data))
    BY <1>0, <1>10, <2>0, <2>1, WithTable, WithoutTable DEF Record
  <2>. QED
    BY <1>0, <1>10, <2>2 DEF Record, TypeOK
<1>11. CASE MarkPresent
  BY <1>0, <1>11 DEF MarkPresent, TypeOK
<1>. QED
  BY <1>1, <1>2, <1>3, <1>4, <1>5, <1>6, <1>7, <1>8, <1>9, <1>10, <1>11
     DEF RemoveStep

(* The requests of the CPUs and of the dumps keep the types.               *)
LEMMA TypeUserStep ==
    ASSUME Typed, NEW p \in Procs, UserStep(p)
    PROVE  TypeOK'
<1>. USE PlannersAreThreads, GotoTypes
     DEF frameVars, tableVars, lockVars, Stages, UserStages, DumpStages
<1>0. TypeOK /\ p \in Threads /\ << >> \in Seq(Frames)
  BY DEF Typed
<1>1. CASE Write(p)
  <2>1. <<p, page[p]>> \in Data
    BY <1>0 DEF Data, TypeOK
  <2>2. mem' \in [Frames -> Data] /\ written' \in [Procs -> SUBSET Nat]
    BY <1>0, <1>1, <2>1 DEF Write, TypeOK
  <2>. QED
    BY <1>0, <1>1, <2>2 DEF Write, TypeOK
<1>2. CASE WriteCheck(p) \/ WriteCount(p)
  BY <1>0, <1>2 DEF WriteCheck, WriteCount, TypeOK
<1>3. CASE \/ DumpLook(p) \/ DumpInSwap(p) \/ DumpCopy(p)
          \/ DumpFails(p) \/ DumpReturn(p)
  <2>1. ASSUME NEW s \in Estados, DumpAnswer(p, s)
        PROVE  stage' \in [Threads -> Stages] /\ estado' \in [Procs -> Estados]
    BY <1>0, <2>1 DEF DumpAnswer, TypeOK
  <2>2. /\ "EXIT" \in Estados /\ "SUSPREADY" \in Estados
        /\ "ACTIVE" \in Estados
    BY DEF Estados
  <2>3. stage' \in [Threads -> Stages] /\ estado' \in [Procs -> Estados]
    BY <1>0, <1>3, <2>1, <2>2 DEF DumpLook, DumpInSwap, DumpCopy, DumpFails,
                              DumpReturn, AfterWait, TypeOK
  <2>4. pdLock' \in {"free", "kept", "shut"}
    BY <1>0, <1>3 DEF DumpLook, DumpInSwap, DumpCopy, DumpFails, DumpReturn,
                        KeepReadLock, TypeOK
  <2>. QED
    BY <1>0, <1>3, <2>3, <2>4 DEF DumpLook, DumpInSwap, DumpCopy, DumpFails,
                              DumpReturn, AfterWait, TypeOK
<1>. QED
  BY <1>1, <1>2, <1>3 DEF UserStep

(* So does every request that is sent.                                     *)
LEMMA TypeRequests ==
    ASSUME Typed, NEW p \in Procs, Requests(p)
    PROVE  TypeOK'
<1>. USE PlannersAreThreads, GotoTypes, AskTypes
     DEF frameVars, tableVars, lockVars, threadVars, Stages, UserStages, DumpStages,
         PlpStages, PmpStages, PutStages
<1>0. TypeOK /\ p \in Threads
  BY DEF Typed
<1>1. CASE AskCapacity(p) \/ AskClear(p) \/ AskPut(p) \/ AskIsInSwap(p)
  BY <1>0, <1>1 DEF AskCapacity, AskClear, AskPut, AskIsInSwap, TypeOK
<1>2. CASE AskDump(p)
  BY <1>0, <1>2 DEF AskDump, TypeOK, Estados
<1>3. CASE FetchFails(p)
  BY <1>0, <1>3 DEF FetchFails, KeepReadLock, TypeOK
<1>4. ASSUME NEW i \in Pages(p), SearchFrame(p, i)
      PROVE  TypeOK'
  <2>1. i \in Nat
    BY NeedAssumption DEF Pages
  <2>2. <<pageTable[p][i]>> \in Seq(Frames)
    BY <1>0, <1>4 DEF SearchFrame, TypeOK
  <2>. QED
    BY <1>0, <1>4, <2>1, <2>2 DEF SearchFrame, TypeOK
<1>. QED
  BY <1>1, <1>2, <1>3, <1>4 DEF Requests

(* And what the Kernel does, a lock that is never returned and a crash.    *)
LEMMA TypeOthers ==
    ASSUME Typed, NEW p \in Procs,
           Life(p) \/ (\E t \in Threads : WriterWaits(t)) \/ Crash
    PROVE  TypeOK'
<1>. USE DEF frameVars, tableVars, lockVars, threadVars
<1>0. TypeOK
  BY DEF Typed
<1>1. CASE Life(p)
  BY <1>0, <1>1 DEF Life, Block, Unblock, AfterWait, Finish, Withdraw, Suspend,
                    Move, TypeOK, Estados
<1>2. CASE (\E t \in Threads : WriterWaits(t)) \/ Crash
  BY <1>0, <1>2 DEF WriterWaits, Crash, TypeOK
<1>. QED
  BY <1>1, <1>2

(* The frames a swap in takes are as many as the pages it has read of.     *)
LEMMA RestorableKept ==
    ASSUME Typed, PutStep \/ RemoveStep
    PROVE  Restorable'
<1>. USE PlannersAreThreads, ThreadsAssumption
     DEF PmpGoes, PmpAnswer, Goto, Answer, Restorable, TypeOK, Threads, Planners
<1>0. TypeOK /\ Restorable
  BY DEF Typed
<1>1. CASE PutStep
  BY <1>0, <1>1 DEF PutStep, PutLook, CopyOut, OpenFails, RecordOut, MarkAbsent
<1>2. CASE IsProcessInSwap \/ PmpCapacity \/ RemoveLook
  BY <1>0, <1>2 DEF IsProcessInSwap, PmpCapacity, RemoveLook
<1>3. CASE ReserveFrames
  <2>1. CASE PmpAnswer("EXIT")
    BY <1>0, <2>1
  <2>2. ASSUME NEW s \in FirstFree(Len(copy)), NEW w \in {"record", "readFile"},
               hand' = [hand EXCEPT ![Pmp] = s], UNCHANGED copy
        PROVE  Restorable'
    <3>1. DOMAIN s = 1..Len(copy)
      BY <1>0, FirstFreeFinds
    <3>. QED
      BY <1>0, <2>2, <3>1
  <2>. QED
    BY <1>3, <2>1, <2>2 DEF ReserveFrames
<1>4. CASE ReadFile \/ ReadFails \/ Restore \/ CheckTable
  BY <1>0, <1>4 DEF ReadFile, ReadFails, RollBack, Restore, CheckTable, At
<1>5. CASE Remap \/ Record \/ MarkPresent
  BY <1>0, <1>5 DEF Remap, Record, MarkPresent
<1>. QED
  BY <1>1, <1>2, <1>3, <1>4, <1>5 DEF RemoveStep

(* A planner names the process when it asks and until it is answered.      *)
LEMMA PlpNamed ==
    ASSUME Typed, NEW p \in Procs,
           ReserveStep \/ ClearStep \/ AskCapacity(p) \/ AskClear(p)
    PROVE  stage'[Plp] # "idle" => job'[Plp] \in Procs
<1>. USE ThreadsAssumption
     DEF Goto, Answer, Ask, At, TypeOK, Threads, Planners, PlpStages
<1>0. TypeOK /\ (stage[Plp] # "idle" => job[Plp] \in Procs)
  BY DEF Typed, JobNamed
<1>1. CASE Capacity \/ LoadScript \/ Count
  BY <1>0, <1>1 DEF Capacity, LoadScript, Count
<1>2. CASE Allocate \/ Register \/ MapPages
  BY <1>0, <1>2 DEF Allocate, Register, MapPages
<1>3. CASE ClearStep
  BY <1>0, <1>3 DEF ClearStep, LookUp, Release, Forget
<1>4. CASE AskCapacity(p) \/ AskClear(p)
  BY <1>0, <1>4 DEF AskCapacity, AskClear
<1>. QED
  BY <1>1, <1>2, <1>3, <1>4 DEF ReserveStep

LEMMA PmpNamed ==
    ASSUME Typed, NEW p \in Procs,
           PutStep \/ RemoveStep \/ AskPut(p) \/ AskIsInSwap(p)
    PROVE  stage'[Pmp] # "idle" => job'[Pmp] \in Procs
<1>. USE ThreadsAssumption
     DEF Goto, Answer, Ask, At, TypeOK, Threads, Planners, PmpGoes, PmpAnswer
<1>0. TypeOK /\ (stage[Pmp] # "idle" => job[Pmp] \in Procs)
  BY DEF Typed, JobNamed
<1>1. CASE PutStep
  BY <1>0, <1>1 DEF PutStep, PutLook, CopyOut, OpenFails, RecordOut, MarkAbsent
<1>2. CASE IsProcessInSwap \/ PmpCapacity \/ RemoveLook \/ ReserveFrames
  BY <1>0, <1>2 DEF IsProcessInSwap, PmpCapacity, RemoveLook, ReserveFrames
<1>3. CASE ReadFile \/ ReadFails \/ Restore \/ CheckTable
  BY <1>0, <1>3 DEF ReadFile, ReadFails, RollBack, Restore, CheckTable
<1>4. CASE Remap \/ Record \/ MarkPresent
  BY <1>0, <1>4 DEF Remap, Record, MarkPresent
<1>5. CASE AskPut(p) \/ AskIsInSwap(p)
  BY <1>0, <1>5 DEF AskPut, AskIsInSwap
<1>. QED
  BY <1>1, <1>2, <1>3, <1>4, <1>5 DEF RemoveStep

(* Who takes a step: a planner's handler, a user of Memory, or the rest.   *)
PlpMoves(p) == ReserveStep \/ ClearStep \/ AskCapacity(p) \/ AskClear(p)
PmpMoves(p) == PutStep \/ RemoveStep \/ AskPut(p) \/ AskIsInSwap(p)
OtherMoves(p) ==
    \/ UserStep(p) \/ Life(p) \/ AskDump(p) \/ FetchFails(p)
    \/ \E i \in Pages(p) : SearchFrame(p, i)
    \/ \E t \in Threads : WriterWaits(t)
    \/ Crash

LEMMA WhoMoves ==
    ASSUME NEW q \in Procs, Next
    PROVE  \E p \in Procs : PlpMoves(p) \/ PmpMoves(p) \/ OtherMoves(p)
BY DEF Next, Requests, PlpMoves, PmpMoves, OtherMoves

(* Without processes nobody asks Memory for anything.                      *)
LEMMA NobodyMoves ==
    ASSUME Typed, Procs = {}
    PROVE  ~Next
<1>1. \A t \in Threads : stage[t] = "idle"
  BY DEF Typed, JobNamed, Threads
<1>2. stage[Plp] = "idle" /\ stage[Pmp] = "idle"
  BY <1>1, PlannersAreThreads
<1>3. ~ReserveStep /\ ~ClearStep
  BY <1>2 DEF ReserveStep, Capacity, LoadScript, Count, Allocate, Register,
              MapPages, ClearStep, LookUp, Release, Forget, At
<1>4. ~PutStep /\ ~RemoveStep
  BY <1>2 DEF PutStep, PutLook, CopyOut, OpenFails, RecordOut, MarkAbsent,
              RemoveStep, IsProcessInSwap, PmpCapacity, RemoveLook,
              ReserveFrames, ReadFile, ReadFails, Restore, CheckTable, Remap,
              Record, MarkPresent, At
<1>5. ~Crash /\ \A t \in Threads : ~WriterWaits(t)
  BY <1>1 DEF Crash, Race, Unguarded, WriterWaits, WriterStages
<1>. QED
  BY <1>3, <1>4, <1>5 DEF Next

LEMMA TypedStep ==
    ASSUME Typed, [Next]_vars
    PROVE  Typed'
<1>1. CASE UNCHANGED vars
  BY <1>1 DEF vars, threadVars, frameVars, tableVars, lockVars, Typed, TypeOK,
              Restorable, JobNamed
<1>2. ASSUME Next, NEW q \in Procs
      PROVE  Typed'
  <2>1. PICK p \in Procs : PlpMoves(p) \/ PmpMoves(p) \/ OtherMoves(p)
    BY <1>2, WhoMoves
  <2>2. CASE PlpMoves(p)
    <3>1. TypeOK'
      BY <2>2, TypeReserve, TypeClear, TypeRequests DEF PlpMoves, Requests
    <3>2. PmpKept
      BY <2>2, PlpLeaves DEF PlpMoves, Typed
    <3>3. stage'[Plp] # "idle" => job'[Plp] \in Procs
      BY <2>2, PlpNamed DEF PlpMoves
    <3>. QED
      BY <3>1, <3>2, <3>3 DEF Typed, Restorable, JobNamed, PmpKept, Planners
  <2>3. CASE PmpMoves(p)
    <3>1. TypeOK'
      BY <2>3, TypePut, TypeRemove, TypeRequests DEF PmpMoves, Requests
    <3>2. PlpKept
      BY <2>3, PmpLeaves DEF PmpMoves, Typed
    <3>3. stage'[Pmp] # "idle" => job'[Pmp] \in Procs
      BY <2>3, PmpNamed DEF PmpMoves
    <3>4. Restorable'
      <4>1. CASE PutStep \/ RemoveStep
        BY <4>1, RestorableKept
      <4>2. CASE AskPut(p) \/ AskIsInSwap(p)
        BY <4>2, ThreadsAssumption
           DEF AskPut, AskIsInSwap, Ask, Goto, Restorable, Typed, TypeOK, Threads,
               Planners
      <4>. QED
        BY <2>3, <4>1, <4>2 DEF PmpMoves
    <3>. QED
      BY <3>1, <3>2, <3>3, <3>4 DEF Typed, JobNamed, PlpKept, Planners
  <2>4. CASE OtherMoves(p)
    <3>1. TypeOK'
      BY <2>4, TypeUserStep, TypeRequests, TypeOthers DEF OtherMoves, Requests
    <3>2. PmpKept /\ PlpKept
      BY <2>4, UserLeaves DEF OtherMoves, Typed
    <3>. QED
      BY <3>1, <3>2 DEF Typed, Restorable, JobNamed, PmpKept, PlpKept, Planners
  <2>. QED
    BY <2>1, <2>2, <2>3, <2>4
<1>3. CASE Next /\ Procs = {}
  BY <1>3, NobodyMoves
<1>. QED
  BY <1>1, <1>2, <1>3

(* Everything in Memory has its type at all times.                         *)
THEOREM TypeCorrect == Spec => []TypeOK
<1>1. Spec => []Typed
  BY TypeInit, TypedStep, PTL DEF Spec
<1>2. Typed => TypeOK
  BY DEF Typed
<1>. QED
  BY <1>1, <1>2, PTL
=============================================================================
