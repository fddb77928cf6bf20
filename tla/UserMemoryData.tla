------------------------- MODULE UserMemoryData -------------------------
(***************************************************************************)
(* Proof that the pages of a process survive: whoever may run finds each   *)
(* page at the frame its tables list, with what was written to it last,    *)
(* for any processes, frames and needs and in the circumstances of         *)
(* UserMemoryOwnership.  In the same circumstances the handlers implement  *)
(* ProcessMemory.                                                          *)
(*                                                                         *)
(* Intact follows the pages of a process through its frames, the local     *)
(* variables of the handler that swaps it and the swap file.  It needs     *)
(* Partition: a frame that is restored or written is nobody else's.        *)
(***************************************************************************)
EXTENDS UserMemoryOwnership, FiniteSetTheorems

(* Frames, or data, for each page of p, and what they must carry when the  *)
(* pages of w have been written.                                           *)
Fitting(p, s) ==
    DOMAIN s = Pages(p) /\ \A i, j \in DOMAIN s : s[i] = s[j] => i = j
Holds(m, w, p, s) ==
    /\ Fitting(p, s)
    /\ \A i \in w : i \in Pages(p) /\ m[s[i]] = <<p, i>>
Copied(w, p, d) ==
    /\ DOMAIN d = Pages(p)
    /\ \A i \in w : i \in Pages(p) /\ d[i] = <<p, i>>

(* A handler has just released the frames the table of p still lists.      *)
Released(p) ==
    \/ stage[Plp] = "forget" /\ job[Plp] = p
    \/ stage[Pmp] = "recordOut" /\ job[Pmp] = p

WriteStages == {"write", "writeCheck", "writeCount"}

Intact(p) ==
    /\ DOMAIN pageTable[p] \subseteq Pages(p)
    /\ estado[p] = "NEW" => written[p] = {}
    /\ p \in DOMAIN framesTable /\ ~Released(p) =>
          Holds(mem, written[p], p, framesTable[p])
    /\ p \in DOMAIN framesTable /\ ~(stage[Plp] = "map" /\ job[Plp] = p) =>
          pageTable[p] = framesTable[p]
    /\ p \in DOMAIN swapTable => Copied(written[p], p, swapTable[p])
    /\ p \in procTable => p \in DOMAIN framesTable \union DOMAIN swapTable
    /\ estado[p] \in {"ACTIVE", "BLOCKED"} => p \in DOMAIN framesTable
    /\ stage[p] \in WriteStages => estado[p] = "ACTIVE"
    /\ stage[p] = "write" =>
          page[p] \in Pages(p) /\ hand[p] = <<framesTable[p][page[p]]>>

(* The frames the PLP has taken for its process.                           *)
PlpHas ==
    /\ stage[Plp] = "register" => Fitting(job[Plp], hand[Plp])
    /\ stage[Plp] = "map" =>
          job[Plp] \in DOMAIN framesTable /\ hand[Plp] = framesTable[job[Plp]]

(* What the PMP has of its process, and where the tables have it.          *)
CopyStages == {"recordOut", "reserve", "readFile", "restore"}
RestoredStages == {"checkTable", "remap", "record"}
PmpHas ==
    /\ stage[Pmp] \in {"idle", "put"} => copy = <<>>
    /\ stage[Pmp] \in CopyStages => Copied(written[job[Pmp]], job[Pmp], copy)
    /\ stage[Pmp] \in HoldStages => Fitting(job[Pmp], hand[Pmp])
    /\ stage[Pmp] \in RestoredStages =>
          Holds(mem, written[job[Pmp]], job[Pmp], hand[Pmp])
    /\ stage[Pmp] = "record" => pageTable[job[Pmp]] = hand[Pmp]
    /\ stage[Pmp] = "absence" =>
          /\ job[Pmp] \notin DOMAIN framesTable
          /\ estado[job[Pmp]] \notin {"NEW", "ACTIVE", "BLOCKED"}
    /\ stage[Pmp] = "presence" => job[Pmp] \in DOMAIN framesTable
    /\ stage[Pmp] = "direct" => job[Pmp] \notin DOMAIN swapTable

AllIntact == PlpHas /\ PmpHas /\ \A p \in Procs : Intact(p)

LEMMA IntactInit == Init => AllIntact
<1>. SUFFICES ASSUME Init PROVE AllIntact
  OBVIOUS
<1>1. PlpHas /\ PmpHas
  BY PlannersAreThreads
     DEF Init, PlpHas, PmpHas, CopyStages, RestoredStages, HoldStages
<1>2. \A p \in Procs : Intact(p)
  <2>. SUFFICES ASSUME NEW p \in Procs PROVE Intact(p)
    OBVIOUS
  <2>1. DOMAIN pageTable[p] = {} /\ written[p] = {} /\ estado[p] = "NEW"
        /\ stage[p] = "idle"
    BY PlannersAreThreads DEF Init
  <2>2. DOMAIN framesTable = {} /\ DOMAIN swapTable = {} /\ procTable = {}
    BY DEF Init
  <2>. QED
    BY <2>1, <2>2 DEF Intact, WriteStages
<1>. QED
  BY <1>1, <1>2 DEF AllIntact

(***************************************************************************)
(* Frames that are found are as many as asked for, and all different.      *)
(***************************************************************************)
LEMMA FirstFreeFits ==
    ASSUME free \subseteq Frames, NEW p \in Procs, NEW n \in Nat,
           1..n = Pages(p), NEW s \in FirstFree(n)
    PROVE  Fitting(p, s)
<1>1. s \in [1..n -> Int] /\ \A i, j \in 1..n : i < j => s[i] < s[j]
  BY FramesAssumption DEF FirstFree
<1>2. ASSUME NEW i \in 1..n, NEW j \in 1..n, s[i] = s[j]
      PROVE  i = j
  BY <1>1, <1>2
<1>. QED
  BY <1>1, <1>2 DEF Fitting

(***************************************************************************)
(* What is left alone stays intact.                                        *)
(***************************************************************************)
(* Beyond Untouched(q): its pages, its own request and what its frames     *)
(* carry stay as they are.                                                 *)
Quiet(q) ==
    /\ Untouched(q)
    /\ pageTable'[q] = pageTable[q] /\ written'[q] = written[q]
    /\ stage'[q] = stage[q] /\ hand'[q] = hand[q] /\ page'[q] = page[q]
    /\ Released(q) => Released(q)'
    /\ stage[Plp] = "map" /\ job[Plp] = q => stage'[Plp] = "map" /\ job'[Plp] = q
    /\ \A f \in Listed(q) : mem'[f] = mem[f]

LEMMA ListedUnlessReleased ==
    ASSUME NEW q \in Procs, q \in DOMAIN framesTable, ~Released(q)
    PROVE  Listed(q) = InUse(framesTable[q])
BY DEF Listed, Released

LEMMA StaysIntact ==
    ASSUME NEW q \in Procs, Intact(q), Quiet(q)
    PROVE  Intact(q)'
<1>1. ASSUME q \in DOMAIN framesTable', ~Released(q)'
      PROVE  Holds(mem, written[q], q, framesTable[q])'
  <2>1. q \in DOMAIN framesTable /\ ~Released(q) /\ framesTable'[q] = framesTable[q]
    BY <1>1 DEF Quiet, Untouched
  <2>2. Holds(mem, written[q], q, framesTable[q])
    BY <2>1 DEF Intact
  <2>3. \A i \in DOMAIN framesTable[q] : mem'[framesTable[q][i]] = mem[framesTable[q][i]]
    BY <2>1, ListedUnlessReleased DEF Quiet, InUse
  <2>. QED
    BY <2>1, <2>2, <2>3 DEF Quiet, Holds, Fitting, Pages
<1>. QED
  BY <1>1 DEF Intact, Quiet, Untouched, Copied, Pages, WriteStages

(***************************************************************************)
(* The steps of the PLP.                                                   *)
(***************************************************************************)
(* It changes no data, and pages of its own process only.                  *)
LEMMA PlpQuiet ==
    ASSUME Typed, Roles, NEW p \in Procs, PlpMoves(p), NEW q \in Procs,
           stage[Plp] = "idle" \/ q # job[Plp]
    PROVE  Quiet(q)
<1>0. /\ TypeOK /\ PmpKept /\ UsersKept /\ Untouched(q)
      /\ (stage[Plp] # "idle" => job[Plp] \in Procs)
  BY PlpLeaves, PlpTouches DEF Typed, JobNamed, PlpMoves, Planners
<1>. USE DEF At, frameVars, tableVars
<1>1. mem' = mem /\ written' = written /\ pageTable'[q] = pageTable[q]
  <2>1. CASE Capacity \/ LoadScript \/ Count \/ Allocate
    BY <2>1 DEF Capacity, LoadScript, Count, Allocate
  <2>2. CASE Register \/ MapPages
    BY <1>0, <2>2 DEF Register, MapPages, TypeOK
  <2>3. CASE LookUp \/ Release \/ Forget
    BY <1>0, <2>3 DEF LookUp, Release, Forget, TypeOK
  <2>4. CASE AskCapacity(p) \/ AskClear(p)
    BY <2>4 DEF AskCapacity, AskClear
  <2>. QED
    BY <2>1, <2>2, <2>3, <2>4 DEF PlpMoves, ReserveStep, ClearStep
<1>2. ~(stage[Plp] # "idle" /\ job[Plp] = q)
  OBVIOUS
<1>. QED
  BY <1>0, <1>1, <1>2 DEF Quiet, Released, PmpKept, UsersKept

(* What its steps do to its own process.                                   *)
LEMMA PlpOwnPages ==
    ASSUME Sound, AllIntact, NEW p \in Procs, PlpMoves(p),
           NEW j \in Procs, stage[Plp] # "idle", j = job[Plp]
    PROVE  Intact(j)'
<1>. USE DEF PlpClaim, ReserveStages, ClearStages, At, WriteStages
<1>0. /\ TypeOK /\ PlpClaim /\ Consistent(j) /\ Intact(j) /\ PlpHas
      /\ Plp \in Planners /\ Plp \in Threads
      /\ estado \in [Procs -> Estados] /\ stage \in [Threads -> Stages]
      /\ pageTable \in [Procs -> Seq(Frames)]
      /\ job \in [Planners -> Procs \union {None}]
      /\ PmpKept /\ stage'[j] = stage[j] /\ hand'[j] = hand[j] /\ page'[j] = page[j]
  BY PlannersAreThreads, PlpLeaves
     DEF Sound, AllIntact, Typed, TypeOK, Roles, PlpMoves, UsersKept
<1>1. stage[Plp] \in ReserveStages \union ClearStages
  BY PlpAtWork
<1>2. estado[j] \in {"NEW", "EXIT"}
  BY <1>0, <1>1
<1>3. ~(stage[Pmp] = "recordOut" /\ job[Pmp] = j)
  BY <1>2 DEF Sound, Roles, PmpClaim, OutStages, Suspended
<1>4. stage[j] \notin WriteStages
  BY <1>0, <1>2 DEF Intact
<1>5. CASE Capacity \/ LoadScript \/ Count \/ Allocate
  <2>1. estado' = estado
    BY <1>0, <1>5, AnswerSame DEF Capacity, LoadScript, Count, Allocate
  <2>2. /\ UNCHANGED <<procTable, framesTable, swapTable, pageTable, written, mem>>
        /\ stage[Plp] \notin {"forget", "map"}
    BY <1>5 DEF Capacity, LoadScript, Count, Allocate, tableVars, frameVars
  <2>. QED
    BY <1>0, <1>3, <1>4, <2>1, <2>2 DEF Intact, Released, Pages
<1>6. CASE Register
  <2>1. estado' = estado /\ estado[j] = "NEW" /\ written' = written /\ mem' = mem
        /\ written[j] = {}
    BY <1>0, <1>6, AnswerSame DEF Register, Intact
  <2>2. CASE j \in procTable
    <3>1. UNCHANGED <<procTable, framesTable, swapTable, pageTable>>
          /\ stage[Plp] \notin {"forget", "map"}
      BY <1>0, <1>6, <2>2 DEF Register
    <3>. QED
      BY <1>0, <1>3, <1>4, <2>1, <3>1 DEF Intact, Released, Pages
  <2>3. CASE j \notin procTable
    <3>1. /\ procTable' = procTable \union {j}
          /\ framesTable' = With(framesTable, j, hand[Plp])
          /\ pageTable' = [pageTable EXCEPT ![j] = <<>>]
          /\ stage' = [stage EXCEPT ![Plp] = "map"] /\ job' = job
          /\ swapTable' = swapTable
      BY <1>0, <1>6, <2>3 DEF Register, Goto
    <3>2. j \in DOMAIN framesTable' /\ framesTable'[j] = hand[Plp]
      BY <3>1 DEF With
    <3>3. Fitting(j, hand[Plp])
      BY <1>0, <1>6 DEF Register, PlpHas
    <3>4. Holds(mem, written[j], j, framesTable[j])'
      BY <2>1, <3>2, <3>3 DEF Holds, Fitting, Pages
    <3>5. j \notin DOMAIN swapTable /\ DOMAIN pageTable'[j] = {}
      BY <1>0, <2>3, <3>1 DEF Consistent
    <3>6. stage'[Plp] = "map" /\ job'[Plp] = j
      BY <1>0, <3>1
    <3>. QED
      BY <1>0, <1>4, <2>1, <3>1, <3>2, <3>4, <3>5, <3>6 DEF Intact
  <2>. QED
    BY <2>2, <2>3
<1>7. CASE MapPages
  <2>1. /\ hand[Plp] = framesTable[j] /\ j \in DOMAIN framesTable /\ estado[j] = "NEW"
        /\ pageTable' = [pageTable EXCEPT ![j] = hand[Plp]]
        /\ UNCHANGED <<mem, written, procTable, framesTable, swapTable>>
        /\ stage[Plp] = "map" /\ estado'[j] = "ACTIVE"
    BY <1>0, <1>7 DEF MapPages, PlpHas, Answer, frameVars
  <2>2. Holds(mem, written[j], j, framesTable[j])
    BY <1>0, <1>3, <2>1 DEF Intact, Released
  <2>3. pageTable'[j] = framesTable[j] /\ DOMAIN framesTable[j] = Pages(j)
    BY <1>0, <2>1, <2>2 DEF Holds, Fitting
  <2>4. Holds(mem, written[j], j, framesTable[j])'
    BY <2>1, <2>2 DEF Holds, Fitting, Pages
  <2>. QED
    BY <1>0, <1>4, <2>1, <2>3, <2>4 DEF Intact, Copied, Pages
<1>8. CASE LookUp
  <2>1. j \in procTable
    BY <1>0, <1>8 DEF LookUp, Consistent
  <2>2. /\ UNCHANGED <<estado, procTable, framesTable, swapTable, pageTable, written, mem>>
        /\ stage[Plp] \notin {"forget", "map"}
    BY <1>0, <1>8, <2>1 DEF LookUp, tableVars, frameVars
  <2>. QED
    BY <1>0, <1>3, <1>4, <2>2 DEF Intact, Released, Pages
<1>9. CASE Release
  <2>1. /\ UNCHANGED <<estado, procTable, framesTable, swapTable, pageTable, written, mem>>
        /\ stage[Plp] = "release"
    BY <1>9 DEF Release, tableVars
  <2>. QED
    BY <1>0, <1>3, <1>4, <2>1 DEF Intact, Released, Pages
<1>10. CASE Forget
  <2>1. /\ j \notin procTable' /\ j \notin DOMAIN framesTable'
        /\ j \notin DOMAIN swapTable' /\ DOMAIN pageTable'[j] = {}
        /\ estado'[j] = "ended"
    BY <1>0, <1>10 DEF Forget, Answer, Without
  <2>. QED
    BY <1>0, <1>4, <2>1 DEF Intact
<1>11. CASE AskCapacity(p) \/ AskClear(p)
  BY <1>11 DEF AskCapacity, AskClear, Ask
<1>. QED
  BY <1>5, <1>6, <1>7, <1>8, <1>9, <1>10, <1>11
     DEF PlpMoves, ReserveStep, ClearStep

LEMMA PlpOwnHand ==
    ASSUME Sound, AllIntact, NEW p \in Procs, PlpMoves(p)
    PROVE  PlpHas'
<1>. USE ThreadsAssumption
     DEF PlpHas, Goto, Answer, Ask, At, Threads, Planners
<1>0. /\ TypeOK /\ PlpHas
      /\ stage[Plp] # "idle" => job[Plp] \in Procs
  BY DEF Sound, Typed, JobNamed, AllIntact
<1>1. CASE Capacity \/ Count \/ LoadScript \/ MapPages
  BY <1>0, <1>1 DEF Capacity, Count, LoadScript, MapPages, TypeOK
<1>2. CASE Allocate
  <2>1. CASE Fits(job[Plp])
    <3>1. PICK s \in FirstFree(Need[job[Plp]]) :
             hand' = [hand EXCEPT ![Plp] = s] /\ Goto(Plp, "register")
             /\ job' = job
      BY <1>2, <2>1 DEF Allocate
    <3>2. Fitting(job[Plp], s)
      BY <1>0, <1>2, <3>1, NeedAssumption, FirstFreeFits DEF Allocate, TypeOK, Pages
    <3>. QED
      BY <1>0, <3>1, <3>2 DEF TypeOK, Fitting, Pages
  <2>2. CASE ~Fits(job[Plp])
    BY <1>0, <1>2, <2>2 DEF Allocate, TypeOK
  <2>. QED
    BY <2>1, <2>2
<1>3. CASE Register
  BY <1>0, <1>3 DEF Register, TypeOK, With
<1>4. CASE LookUp
  BY <1>0, <1>4 DEF LookUp, TypeOK
<1>5. CASE Release \/ Forget
  BY <1>0, <1>5 DEF Release, Forget, TypeOK
<1>6. CASE AskCapacity(p) \/ AskClear(p)
  BY <1>0, <1>6 DEF AskCapacity, AskClear, TypeOK
<1>. QED
  BY <1>1, <1>2, <1>3, <1>4, <1>5, <1>6 DEF PlpMoves, ReserveStep, ClearStep

(* What the PMP has stays as it is when its process is left alone.         *)
LEMMA PmpHasStays ==
    ASSUME PmpHas, PmpKept,
           stage[Pmp] # "idle" =>
              /\ Untouched(job[Pmp])
              /\ pageTable'[job[Pmp]] = pageTable[job[Pmp]]
              /\ written'[job[Pmp]] = written[job[Pmp]],
           \A f \in PmpTaken : mem'[f] = mem[f]
    PROVE  PmpHas'
<1>1. ASSUME stage'[Pmp] \in RestoredStages
      PROVE  Holds(mem', written'[job'[Pmp]], job'[Pmp], hand'[Pmp])
  <2>1. /\ stage[Pmp] \in RestoredStages /\ job'[Pmp] = job[Pmp]
        /\ hand'[Pmp] = hand[Pmp] /\ written'[job[Pmp]] = written[job[Pmp]]
    BY <1>1 DEF PmpKept, RestoredStages
  <2>2. Holds(mem, written[job[Pmp]], job[Pmp], hand[Pmp])
    BY <2>1 DEF PmpHas
  <2>3. PmpTaken = InUse(hand[Pmp])
    BY <2>1 DEF PmpTaken, RestoredStages, HoldStages
  <2>. QED
    BY <2>1, <2>2, <2>3 DEF Holds, Fitting, InUse
<1>2. (stage[Pmp] \in CopyStages => Copied(written[job[Pmp]], job[Pmp], copy))'
  BY DEF PmpHas, PmpKept, CopyStages, Copied, Pages
<1>3. (stage[Pmp] \in HoldStages => Fitting(job[Pmp], hand[Pmp]))'
  BY DEF PmpHas, PmpKept, HoldStages, Fitting, Pages
<1>4. (stage[Pmp] \in RestoredStages =>
          Holds(mem, written[job[Pmp]], job[Pmp], hand[Pmp]))'
  BY <1>1 DEF Holds, Fitting, Pages, RestoredStages
<1>. QED
  BY <1>2, <1>3, <1>4 DEF PmpHas, PmpKept, Untouched

LEMMA IntactPlp ==
    ASSUME Sound, AllIntact, NEW p \in Procs, PlpMoves(p)
    PROVE  AllIntact'
<1>0. /\ Typed /\ Roles /\ TypeOK /\ PlpClaim /\ PmpClaim /\ PmpHas /\ PmpKept
      /\ stage[Plp] # "idle" => job[Plp] \in Procs
      /\ stage[Pmp] # "idle" => job[Pmp] \in Procs
  BY PlpLeaves DEF Sound, Typed, JobNamed, Planners, Roles, AllIntact, PlpMoves
<1>1. ASSUME NEW q \in Procs
      PROVE  Intact(q)'
  <2>1. CASE stage[Plp] # "idle" /\ q = job[Plp]
    BY <2>1, PlpOwnPages
  <2>2. CASE stage[Plp] = "idle" \/ q # job[Plp]
    BY <1>0, <2>2, PlpQuiet, StaysIntact DEF AllIntact
  <2>. QED
    BY <2>1, <2>2
<1>2. mem' = mem /\ written' = written
  BY DEF PlpMoves, ReserveStep, Capacity, LoadScript, Count, Allocate, Register,
         MapPages, ClearStep, LookUp, Release, Forget, AskCapacity, AskClear,
         frameVars
<1>3. PmpHas'
  <2>1. CASE stage[Pmp] = "idle" \/ stage[Plp] = "idle" \/ job[Pmp] # job[Plp]
    <3>1. ASSUME stage[Pmp] # "idle"
          PROVE  Untouched(job[Pmp]) /\ pageTable'[job[Pmp]] = pageTable[job[Pmp]]
      <4>1. Quiet(job[Pmp])
        BY <1>0, <2>1, <3>1, PlpQuiet
      <4>. QED
        BY <4>1 DEF Quiet
    <3>. QED
      BY <1>0, <1>2, <3>1, PmpHasStays
  <2>2. CASE stage[Pmp] # "idle" /\ stage[Plp] # "idle" /\ job[Pmp] = job[Plp]
    <3>1. PICK j \in Procs : j = job[Plp] /\ j = job[Pmp] /\ j = job'[Pmp]
      BY <1>0, <2>2 DEF PmpKept
    <3>2. stage[Plp] \in ReserveStages \union ClearStages
      BY <2>2, PlpAtWork
    <3>3. stage[Pmp] \notin OutStages \union InStages
      BY <1>0, <3>1, <3>2 DEF PlpClaim, PmpClaim, Suspended
    <3>4. CASE stage[Pmp] = "absence"
      <4>1. stage[Plp] \in ClearStages /\ j \notin DOMAIN framesTable
        BY <1>0, <3>1, <3>2, <3>4 DEF PlpClaim, PmpHas
      <4>2. estado'[j] \in {"EXIT", "ended"} /\ j \notin DOMAIN framesTable'
        BY <1>0, <3>1, <4>1, PlpForgets
      <4>. QED
        BY <1>0, <3>1, <3>4, <4>2
           DEF PmpHas, PmpKept, CopyStages, HoldStages, RestoredStages
    <3>5. CASE stage[Pmp] # "absence"
      BY <1>0, <3>3, <3>5
         DEF PmpHas, PmpKept, OutStages, InStages, RemoveStages, CopyStages,
             HoldStages, RestoredStages
    <3>. QED
      BY <3>4, <3>5
  <2>. QED
    BY <2>1, <2>2
<1>. QED
  BY <1>1, <1>3, PlpOwnHand DEF AllIntact

(***************************************************************************)
(* The steps of the PMP.                                                   *)
(***************************************************************************)
(* It writes in the frames it has taken, and changes what the tables have  *)
(* of its own process only.                                                *)
LEMMA PmpWrites ==
    ASSUME Sound, NEW p \in Procs, PmpMoves(p)
    PROVE  /\ written' = written
           /\ \A f \in Frames \ PmpTaken : mem'[f] = mem[f]
           /\ ~Restore => mem' = mem
           /\ \A q \in Procs : q # job[Pmp] => pageTable'[q] = pageTable[q]
<1>. USE DEF frameVars, tableVars, Sound, Typed, TypeOK, At
<1>1. CASE PutStep
  BY <1>1 DEF PutStep, PutLook, CopyOut, OpenFails, RecordOut, MarkAbsent, Swapped
<1>2. CASE Restore
  BY <1>2 DEF Restore, PmpTaken, HoldStages
<1>3. CASE RemoveStep /\ ~Restore
  BY <1>3 DEF RemoveStep, IsProcessInSwap, PmpCapacity, RemoveLook, ReserveFrames,
              ReadFile, ReadFails, CheckTable, Remap, Record, MarkPresent, Swapped
<1>4. CASE AskPut(p) \/ AskIsInSwap(p)
  BY <1>4 DEF AskPut, AskIsInSwap
<1>. QED
  BY <1>1, <1>2, <1>3, <1>4 DEF PmpMoves, RemoveStep

LEMMA PmpQuiet ==
    ASSUME Sound, NEW p \in Procs, PmpMoves(p), NEW q \in Procs,
           stage[Pmp] = "idle" \/ q # job[Pmp]
    PROVE  Quiet(q)
<1>0. /\ Typed /\ TypeOK /\ PlpKept /\ UsersKept /\ Untouched(q)
      /\ (stage[Pmp] # "idle" => job[Pmp] \in Procs)
  BY PmpLeaves, PmpTouches DEF Sound, Typed, JobNamed, PmpMoves, Planners
<1>1. pageTable'[q] = pageTable[q]
  <2>1. CASE stage[Pmp] = "idle"
    BY <2>1 DEF PmpMoves, PutStep, PutLook, CopyOut, OpenFails, RecordOut,
                MarkAbsent, RemoveStep, IsProcessInSwap, PmpCapacity, RemoveLook,
                ReserveFrames, ReadFile, ReadFails, Restore, CheckTable, Remap,
                Record, MarkPresent, AskPut, AskIsInSwap, At, tableVars
  <2>. QED
    BY <2>1, PmpWrites
<1>2. \A f \in Listed(q) : mem'[f] = mem[f]
  <2>1. Listed(q) \intersect PmpTaken = {}
    BY HeldBy, ThreadsAssumption DEF Sound, Partition, Divides
  <2>2. Listed(q) \subseteq Frames
    BY <1>0, InUseAreFrames DEF Listed, TypeOK, IsTable
  <2>. QED
    BY <2>1, <2>2, PmpWrites
<1>3. ~(stage[Pmp] = "recordOut" /\ job[Pmp] = q)
  OBVIOUS
<1>. QED
  BY <1>0, <1>1, <1>2, <1>3, PmpWrites DEF Quiet, Released, PlpKept, UsersKept

LEMMA WithoutElements ==
    ASSUME NEW s \in Seq(Frames), DOMAIN s = {}
    PROVE  s = <<>>
<1>1. Len(s) = 0
  <2>1. Len(s) \in Nat /\ DOMAIN s = 1..Len(s)
    OBVIOUS
  <2>. QED
    BY <2>1
<1>. QED
  BY <1>1

(* What is copied from the frames that hold the pages, and what holds them *)
(* once it is restored.                                                    *)
LEMMA CopyCarries ==
    ASSUME NEW m, NEW w, NEW j \in Procs, NEW s \in Seq(Frames),
           Holds(m, w, j, s)
    PROVE  Copied(w, j, [i \in 1..Len(s) |-> m[s[i]]])
BY DEF Holds, Fitting, Copied

LEMMA RestoredHolds ==
    ASSUME NEW m, NEW w, NEW j \in Procs, NEW s, NEW d,
           Fitting(j, s), Copied(w, j, d),
           \A i \in DOMAIN d : m[s[i]] = d[i]
    PROVE  Holds(m, w, j, s)
BY DEF Holds, Copied

LEMMA PmpOwnHas ==
    ASSUME Sound, Circumstances, AllIntact, NEW p \in Procs, PmpMoves(p),
           NEW j \in Procs, stage[Pmp] # "idle", j = job[Pmp]
    PROVE  PmpHas'
<1>. USE ThreadsAssumption
     DEF Goto, Answer, At, PmpAnswer, PmpGoes, Swapped, Threads, Planners
<1>0. /\ TypeOK /\ PmpClaim /\ PlpClaim /\ Consistent(j) /\ Intact(j) /\ PmpHas
      /\ hand[Pmp] \in Seq(Frames)
      /\ stage \in [Threads -> Stages] /\ hand \in [Threads -> Seq(Frames)]
      /\ job \in [Planners -> Procs \union {None}]
      /\ estado \in [Procs -> Estados]
      /\ pageTable \in [Procs -> Seq(Frames)]
  BY DEF Sound, AllIntact, Typed, TypeOK, Roles
<1>1. ASSUME stage'[Pmp] = "idle", copy' = <<>>
      PROVE  PmpHas'
  BY <1>1 DEF PmpHas, CopyStages, HoldStages, RestoredStages
<1>2. CASE OpenFails \/ MarkAbsent \/ ReadFails \/ MarkPresent
  BY <1>0, <1>1, <1>2 DEF OpenFails, MarkAbsent, ReadFails, RollBack, MarkPresent
<1>3. CASE PutLook
  <2>1. CASE PmpAnswer(Same(Pmp))
    BY <1>0, <1>1, <2>1
  <2>2. CASE /\ j \in DOMAIN framesTable /\ copy' = copy /\ job' = job
             /\ Goto(Pmp, IF framesTable[j] = <<>> THEN "recordOut" ELSE "copyOut")
    <3>1. CASE framesTable[j] # <<>>
      BY <1>0, <2>2, <3>1 DEF PmpHas, CopyStages, HoldStages, RestoredStages
    <3>2. CASE framesTable[j] = <<>>
      <4>1. estado[j] \in Suspended /\ copy = <<>>
        BY <1>0, <1>3, <2>2 DEF PutLook, PmpClaim, PmpHas
      <4>2. ~Released(j)
        BY <1>0, <1>3, <4>1 DEF PutLook, Released, PlpClaim, ClearStages, Suspended
      <4>3. Copied(written[j], j, copy)
        BY <1>0, <2>2, <3>2, <4>1, <4>2 DEF Intact, Holds, Fitting, Copied
      <4>4. written' = written
        BY <1>3 DEF PutLook, frameVars
      <4>. QED
        BY <1>0, <2>2, <3>2, <4>3, <4>4
           DEF PmpHas, HoldStages, RestoredStages, Copied, Pages
    <3>. QED
      BY <3>1, <3>2
  <2>. QED
    BY <1>0, <1>3, <2>1, <2>2 DEF PutLook
<1>4. CASE CopyOut
  <2>1. /\ j \in DOMAIN framesTable /\ hand[Pmp] = framesTable[j]
        /\ estado[j] \in Suspended
    BY <1>0, <1>4 DEF CopyOut, PmpClaim, OutStages
  <2>2. ~Released(j)
    BY <1>0, <1>4, <2>1 DEF CopyOut, Released, PlpClaim, ClearStages, Suspended
  <2>3. Copied(written[j], j, copy')
    <3>1. Holds(mem, written[j], j, hand[Pmp])
      BY <1>0, <2>1, <2>2 DEF Intact
    <3>2. Copied(written[j], j, [i \in 1..Len(hand[Pmp]) |-> mem[hand[Pmp][i]]])
      BY <1>0, <3>1, CopyCarries
    <3>3. copy' = [i \in 1..Len(hand[Pmp]) |-> mem[hand[Pmp][i]]]
      BY <1>4 DEF CopyOut
    <3>. QED
      BY <3>2, <3>3
  <2>4. stage'[Pmp] = "recordOut" /\ job' = job /\ written' = written
    BY <1>0, <1>4 DEF CopyOut
  <2>. QED
    BY <2>3, <2>4 DEF PmpHas, HoldStages, RestoredStages, Copied, Pages
<1>5. CASE RecordOut
  <2>1. stage'[Pmp] = "absence" /\ job' = job /\ estado' = estado
        /\ framesTable' = Without(framesTable, j)
    BY <1>0, <1>5 DEF RecordOut, Circumstances
  <2>2. estado[j] \in Suspended /\ j \notin DOMAIN framesTable'
    BY <1>0, <1>5, <2>1 DEF RecordOut, PmpClaim, OutStages, Without
  <2>. QED
    BY <2>1, <2>2 DEF PmpHas, CopyStages, HoldStages, RestoredStages, Suspended
<1>6. CASE IsProcessInSwap \/ PmpCapacity
  <2>1. CASE stage'[Pmp] = "idle"
    BY <1>0, <1>1, <1>6, <2>1 DEF IsProcessInSwap, PmpCapacity
  <2>2. CASE stage'[Pmp] # "idle"
    BY <1>0, <1>6, <2>2
       DEF IsProcessInSwap, PmpCapacity, PmpHas, CopyStages, HoldStages,
           RestoredStages, tableVars
  <2>. QED
    BY <2>1, <2>2
<1>7. CASE RemoveLook
  <2>1. CASE stage'[Pmp] = "idle"
    BY <1>0, <1>1, <1>7, <2>1 DEF RemoveLook
  <2>2. CASE stage'[Pmp] # "idle"
    <3>1. /\ j \in DOMAIN swapTable /\ copy' = swapTable[j] /\ job' = job
          /\ stage'[Pmp] = "reserve" /\ written' = written
      BY <1>0, <1>7, <2>2 DEF RemoveLook, frameVars
    <3>. QED
      BY <1>0, <3>1 DEF PmpHas, Intact, HoldStages, RestoredStages, Copied, Pages
  <2>. QED
    BY <2>1, <2>2
<1>8. CASE ReserveFrames
  <2>1. CASE PmpAnswer("EXIT")
    BY <1>0, <1>1, <2>1
  <2>2. ASSUME NEW s \in FirstFree(Len(copy)), hand' = [hand EXCEPT ![Pmp] = s],
               Goto(Pmp, IF s = <<>> THEN "record" ELSE "readFile"),
               UNCHANGED <<estado, job, copy, swapMutex>>
        PROVE  PmpHas'
    <3>1. /\ Copied(written[j], j, copy) /\ copy \in Seq(Data)
          /\ UNCHANGED <<written, mem, pageTable>>
      BY <1>0, <1>8 DEF ReserveFrames, PmpHas, CopyStages, TypeOK, tableVars
    <3>2. 1..Len(copy) = Pages(j) /\ Len(copy) \in Nat
      BY <3>1 DEF Copied
    <3>3. Fitting(j, s)
      BY <1>0, <3>2, FirstFreeFits DEF TypeOK
    <3>4. job'[Pmp] = j /\ hand'[Pmp] = s
      BY <1>0, <2>2
    <3>5. CASE s # <<>>
      BY <1>0, <2>2, <3>1, <3>3, <3>4, <3>5
         DEF PmpHas, CopyStages, HoldStages, RestoredStages, Copied, Fitting, Pages
    <3>6. CASE s = <<>>
      <4>1. Pages(j) = {} /\ pageTable[j] = <<>>
        <5>1. Pages(j) = {}
          BY <3>3, <3>6 DEF Fitting
        <5>2. DOMAIN pageTable[j] = {} /\ pageTable[j] \in Seq(Frames)
          BY <1>0, <5>1 DEF Intact
        <5>. QED
          BY <5>1, <5>2, WithoutElements
      <4>2. Holds(mem, written[j], j, s)
        BY <3>1, <3>3, <4>1 DEF Holds, Copied
      <4>3. stage'[Pmp] = "record"
        BY <1>0, <2>2, <3>6
      <4>. QED
        BY <3>1, <3>3, <3>4, <3>6, <4>1, <4>2, <4>3
           DEF PmpHas, CopyStages, HoldStages, RestoredStages, Holds, Fitting, Pages
    <3>. QED
      BY <3>5, <3>6
  <2>. QED
    BY <1>8, <2>1, <2>2 DEF ReserveFrames
<1>9. CASE ReadFile
  BY <1>0, <1>9
     DEF ReadFile, PmpHas, CopyStages, HoldStages, RestoredStages, Copied, Fitting,
         Pages, frameVars, tableVars
<1>10. CASE Restore
  <2>1. /\ stage'[Pmp] = "checkTable" /\ job' = job /\ hand' = hand
        /\ written' = written
        /\ mem' = [f \in Frames |->
              IF f \in InUse(hand[Pmp])
              THEN copy[CHOOSE i \in DOMAIN copy : hand[Pmp][i] = f] ELSE mem[f]]
    BY <1>0, <1>10 DEF Restore
  <2>2. Fitting(j, hand[Pmp]) /\ Copied(written[j], j, copy)
    BY <1>0, <1>10 DEF Restore, PmpHas, HoldStages, CopyStages
  <2>3. Holds(mem', written[j], j, hand[Pmp])
    <3>1. ASSUME NEW i \in DOMAIN copy
          PROVE  mem'[hand[Pmp][i]] = copy[i]
      <4>1. i \in DOMAIN hand[Pmp]
        BY <2>2 DEF Fitting, Copied
      <4>2. hand[Pmp][i] \in InUse(hand[Pmp]) /\ hand[Pmp][i] \in Frames
        BY <1>0, <4>1 DEF InUse
      <4>3. (CHOOSE k \in DOMAIN copy : hand[Pmp][k] = hand[Pmp][i]) = i
        BY <2>2 DEF Fitting, Copied
      <4>. QED
        BY <2>1, <4>2, <4>3
    <3>. QED
      BY <1>0, <2>2, <3>1, RestoredHolds
  <2>. QED
    BY <2>1, <2>2, <2>3
       DEF PmpHas, CopyStages, HoldStages, RestoredStages, Holds, Fitting, Pages
<1>11. CASE CheckTable
  <2>1. CASE stage'[Pmp] = "idle"
    BY <1>0, <1>1, <1>11, <2>1 DEF CheckTable, RollBack
  <2>2. CASE stage'[Pmp] # "idle"
    <3>1. /\ stage[Pmp] = "checkTable" /\ stage'[Pmp] = "remap"
          /\ UNCHANGED <<job, hand, mem, written>>
      BY <1>0, <1>11, <2>2 DEF CheckTable, RollBack
    <3>. QED
      BY <1>0, <3>1
         DEF PmpHas, CopyStages, HoldStages, RestoredStages, Holds, Fitting, Pages
  <2>. QED
    BY <2>1, <2>2
<1>12. CASE Remap
  <2>1. j \in procTable
    BY <1>0, <1>12 DEF Remap, PmpClaim, Consistent, HoldStages
  <2>2. /\ stage'[Pmp] = "record" /\ job' = job /\ hand' = hand
        /\ mem' = mem /\ written' = written /\ pageTable'[j] = hand[Pmp]
    BY <1>0, <1>12, <2>1 DEF Remap, frameVars
  <2>3. Holds(mem, written[j], j, hand[Pmp])
    BY <1>0, <1>12 DEF Remap, PmpHas, RestoredStages
  <2>. QED
    BY <2>2, <2>3
       DEF PmpHas, CopyStages, HoldStages, RestoredStages, Holds, Fitting, Pages
<1>13. CASE Record
  <2>1. stage'[Pmp] = "presence" /\ job' = job /\ j \in DOMAIN framesTable'
    BY <1>0, <1>13 DEF Record, With
  <2>. QED
    BY <2>1 DEF PmpHas, CopyStages, HoldStages, RestoredStages
<1>14. CASE AskPut(p) \/ AskIsInSwap(p)
  BY <1>14 DEF AskPut, AskIsInSwap, Ask
<1>. QED
  BY <1>2, <1>3, <1>4, <1>5, <1>6, <1>7, <1>8, <1>9, <1>10, <1>11, <1>12, <1>13,
     <1>14 DEF PmpMoves, PutStep, RemoveStep

LEMMA PmpOwnPages ==
    ASSUME Sound, Circumstances, AllIntact, NEW p \in Procs, PmpMoves(p),
           NEW j \in Procs, stage[Pmp] # "idle", j = job[Pmp]
    PROVE  Intact(j)'
<1>. USE ThreadsAssumption
     DEF Goto, Answer, At, PmpAnswer, PmpGoes, Swapped
<1>0. /\ TypeOK /\ PmpClaim /\ PlpClaim /\ Consistent(j) /\ Intact(j) /\ PmpHas
      /\ Pmp \in Planners /\ Pmp \in Threads
      /\ stage \in [Threads -> Stages] /\ hand \in [Threads -> Seq(Frames)]
      /\ job \in [Planners -> Procs \union {None}]
      /\ estado \in [Procs -> Estados]
      /\ pageTable \in [Procs -> Seq(Frames)]
      /\ written' = written /\ (~Restore => mem' = mem)
      /\ PlpKept /\ stage'[j] = stage[j] /\ hand'[j] = hand[j] /\ page'[j] = page[j]
  BY PmpLeaves, PmpWrites, PlannersAreThreads
     DEF Sound, AllIntact, Typed, TypeOK, Roles, PmpMoves, UsersKept
<1>1. estado[j] \notin {"NEW", "ACTIVE", "BLOCKED"} /\ stage[j] \notin WriteStages
  BY <1>0, PmpAtWork DEF PmpClaim, PmpHas, Intact, Suspended
<1>2. ~(stage[Plp] = "map" /\ job[Plp] = j)
  BY <1>0, <1>1 DEF PlpClaim, ReserveStages
(* Most steps leave the tables as they are.                                *)
<1>3. ASSUME UNCHANGED <<procTable, framesTable, swapTable, pageTable>>,
             stage[Pmp] # "recordOut", ~Restore,
             \/ estado'[j] \notin {"NEW", "ACTIVE", "BLOCKED"}
             \/ estado'[j] = "ACTIVE" /\ j \in DOMAIN framesTable
      PROVE  Intact(j)'
  <2>1. Released(j) => Released(j)'
    BY <1>0, <1>3 DEF Released, PlpKept
  <2>2. mem' = mem
    BY <1>0, <1>3
  <2>3. /\ estado'[j] # "NEW"
        /\ estado'[j] \in {"ACTIVE", "BLOCKED"} => j \in DOMAIN framesTable'
    BY <1>3
  <2>4. ~Released(j)' => ~Released(j)
    BY <2>1
  <2>5. \A s : Holds(mem, written[j], j, s) => Holds(mem', written'[j], j, s)
    BY <1>0, <2>2
  <2>. QED
    BY <1>0, <1>1, <1>2, <1>3, <2>2, <2>3, <2>4 DEF Intact, Copied, Holds, Fitting, Pages
<1>4. CASE PutLook \/ CopyOut \/ OpenFails
  BY <1>0, <1>1, <1>3, <1>4 DEF PutLook, CopyOut, OpenFails, Same, Restore, tableVars
<1>5. CASE RecordOut
  <2>1. /\ swapTable' = With(swapTable, j, copy)
        /\ framesTable' = Without(framesTable, j)
        /\ UNCHANGED <<estado, pageTable, procTable>>
    BY <1>0, <1>5 DEF RecordOut, Circumstances
  <2>2. /\ j \notin DOMAIN framesTable' /\ j \in DOMAIN swapTable'
        /\ swapTable'[j] = copy
    BY <2>1 DEF With, Without
  <2>3. Copied(written[j], j, copy)
    BY <1>0, <1>5 DEF RecordOut, PmpHas, CopyStages
  <2>4. Copied(written[j], j, swapTable[j])'
    BY <1>0, <2>2, <2>3 DEF Copied, Pages
  <2>. QED
    BY <1>0, <1>1, <2>1, <2>2, <2>4 DEF Intact, Pages, WriteStages
<1>6. CASE MarkAbsent
  <2>1. /\ pageTable' = [pageTable EXCEPT ![j] = <<>>]
        /\ UNCHANGED <<framesTable, swapTable, procTable>>
        /\ estado'[j] = estado[j]
    BY <1>0, <1>6 DEF MarkAbsent, Same
  <2>2. j \notin DOMAIN framesTable /\ DOMAIN pageTable'[j] = {}
    BY <1>0, <1>6, <2>1 DEF MarkAbsent, PmpHas
  <2>. QED
    BY <1>0, <1>1, <2>1, <2>2 DEF Intact, Copied, Pages
<1>7. CASE IsProcessInSwap \/ PmpCapacity
  <2>1. stage[Pmp] = "direct" => j \in DOMAIN framesTable
    BY <1>0 DEF PmpHas, PmpClaim, InStages, Consistent, Intact
  <2>2. estado'[j] = estado[j] \/ (estado'[j] = "ACTIVE" /\ stage[Pmp] = "direct")
    BY <1>0, <1>7 DEF IsProcessInSwap, PmpCapacity, Same
  <2>. QED
    BY <1>0, <1>1, <1>3, <1>7, <2>1, <2>2
       DEF IsProcessInSwap, PmpCapacity, Restore, tableVars
<1>8. CASE RemoveLook
  <2>1. /\ UNCHANGED <<procTable, framesTable, swapTable, pageTable>>
        /\ estado'[j] = "EXIT" \/ estado'[j] = estado[j]
    BY <1>0, <1>8 DEF RemoveLook, Consistent
  <2>. QED
    BY <1>0, <1>1, <1>3, <1>8, <2>1 DEF RemoveLook, Restore
<1>9. CASE ReserveFrames \/ ReadFile \/ ReadFails \/ CheckTable
  <2>1. estado'[j] = "EXIT" \/ estado'[j] = estado[j]
    BY <1>0, <1>9 DEF ReserveFrames, ReadFile, ReadFails, CheckTable, RollBack
  <2>. QED
    BY <1>0, <1>1, <1>3, <1>9, <2>1
       DEF ReserveFrames, ReadFile, ReadFails, CheckTable, Restore, tableVars
<1>10. CASE Restore
  <2>1. /\ UNCHANGED <<estado, procTable, framesTable, swapTable, pageTable>>
        /\ j \notin DOMAIN framesTable
    BY <1>0, <1>10 DEF Restore, tableVars, PmpClaim, HoldStages, Consistent
  <2>. QED
    BY <1>0, <1>1, <2>1 DEF Intact, Copied, Pages
<1>11. CASE Remap
  <2>1. j \in procTable /\ j \notin DOMAIN framesTable
    BY <1>0, <1>11 DEF Remap, PmpClaim, HoldStages, Consistent
  <2>2. /\ UNCHANGED <<estado, procTable, framesTable, swapTable>>
        /\ pageTable'[j] = hand[Pmp]
    BY <1>0, <1>11, <2>1 DEF Remap
  <2>3. DOMAIN hand[Pmp] = Pages(j)
    BY <1>0, <1>11 DEF Remap, PmpHas, HoldStages, Fitting
  <2>. QED
    BY <1>0, <1>1, <2>1, <2>2, <2>3 DEF Intact, Copied, Pages
<1>12. CASE Record
  <2>1. /\ framesTable' = With(framesTable, j, hand[Pmp])
        /\ swapTable' = Without(swapTable, j)
        /\ UNCHANGED <<estado, procTable, pageTable, mem>>
    BY <1>0, <1>12 DEF Record, frameVars
  <2>2. /\ j \in DOMAIN framesTable' /\ j \notin DOMAIN swapTable'
        /\ framesTable'[j] = hand[Pmp]
    BY <2>1 DEF With, Without
  <2>3. /\ Holds(mem, written[j], j, hand[Pmp])
        /\ pageTable[j] = hand[Pmp]
    BY <1>0, <1>12 DEF Record, PmpHas, RestoredStages
  <2>4. Holds(mem, written[j], j, framesTable[j])'
    BY <1>0, <2>1, <2>2, <2>3 DEF Holds, Fitting, Pages
  <2>. QED
    BY <1>0, <1>1, <2>1, <2>2, <2>3, <2>4 DEF Intact, Pages, WriteStages
<1>13. CASE MarkPresent
  <2>1. j \in DOMAIN framesTable /\ estado'[j] = "ACTIVE"
    BY <1>0, <1>13 DEF MarkPresent, PmpHas
  <2>. QED
    BY <1>0, <1>3, <1>13, <2>1 DEF MarkPresent, Restore, tableVars
<1>14. CASE AskPut(p) \/ AskIsInSwap(p)
  BY <1>14 DEF AskPut, AskIsInSwap, Ask
<1>. QED
  BY <1>4, <1>5, <1>6, <1>7, <1>8, <1>9, <1>10, <1>11, <1>12, <1>13, <1>14
     DEF PmpMoves, PutStep, RemoveStep

LEMMA IntactPmp ==
    ASSUME Sound, Circumstances, AllIntact, NEW p \in Procs, PmpMoves(p)
    PROVE  AllIntact'
<1>0. /\ Typed /\ TypeOK /\ PlpClaim /\ PmpClaim /\ PlpHas /\ PmpHas /\ PlpKept
      /\ stage[Plp] # "idle" => job[Plp] \in Procs
      /\ stage[Pmp] # "idle" => job[Pmp] \in Procs
      /\ stage \in [Threads -> Stages] /\ Pmp \in Threads
  BY PmpLeaves, PlannersAreThreads
     DEF Sound, Typed, TypeOK, JobNamed, Planners, Roles, AllIntact, PmpMoves
<1>1. ASSUME NEW q \in Procs
      PROVE  Intact(q)'
  <2>1. CASE stage[Pmp] # "idle" /\ q = job[Pmp]
    BY <2>1, PmpOwnPages
  <2>2. CASE stage[Pmp] = "idle" \/ q # job[Pmp]
    BY <2>2, PmpQuiet, StaysIntact DEF AllIntact
  <2>. QED
    BY <2>1, <2>2
<1>2. PmpHas'
  <2>1. CASE stage[Pmp] # "idle"
    BY <1>0, <2>1, PmpOwnHas
  <2>2. CASE stage[Pmp] = "idle"
    <3>1. copy' = copy /\ copy = <<>> /\ stage'[Pmp] \in {"put", "isInSwap"}
      BY <1>0, <2>2
         DEF PmpHas, PmpMoves, PutStep, PutLook, CopyOut, OpenFails, RecordOut,
             MarkAbsent, RemoveStep, IsProcessInSwap, PmpCapacity, RemoveLook,
             ReserveFrames, ReadFile, ReadFails, Restore, CheckTable, Remap,
             Record, MarkPresent, AskPut, AskIsInSwap, At, Ask, Goto
    <3>. QED
      BY <3>1 DEF PmpHas, CopyStages, HoldStages, RestoredStages
  <2>. QED
    BY <2>1, <2>2
<1>3. PlpHas'
  <2>1. ASSUME stage[Plp] = "map"
        PROVE  Untouched(job[Plp])
    <3>1. estado[job[Plp]] = "NEW" /\ job[Plp] \in Procs
      BY <1>0, <2>1 DEF PlpClaim, ReserveStages
    <3>2. \/ job[Pmp] # job[Plp] \/ stage[Pmp] \in {"idle", "put", "absence"}
      BY <1>0, <3>1, PmpAtWork DEF PmpClaim, Suspended
    <3>. QED
      BY <1>0, <3>1, <3>2, PmpTouches
  <2>2. (stage[Plp] = "register" => Fitting(job[Plp], hand[Plp]))'
    BY <1>0 DEF PlpHas, PlpKept, Fitting, Pages
  <2>. QED
    BY <1>0, <2>1, <2>2 DEF PlpHas, PlpKept, Untouched
<1>. QED
  BY <1>1, <1>2, <1>3 DEF AllIntact

(***************************************************************************)
(* The other steps: a process writes in its own frames.                    *)
(***************************************************************************)
(* What they do to the requests and the data of the processes.             *)
LEMMA WhatOthersWrite ==
    ASSUME Sound, Circumstances, AllIntact, NEW p \in Procs, OtherMoves(p)
    PROVE  /\ pageTable' = pageTable
           /\ \A q \in Procs :
                 /\ stage'[q] \in WriteStages => estado'[q] = "ACTIVE"
                 /\ stage'[q] = "write" =>
                       /\ page'[q] \in Pages(q)
                       /\ hand'[q] = <<framesTable[q][page'[q]]>>
           /\ \/ written' = written /\ mem' = mem
              \/ /\ stage[p] = "write"
                 /\ written' = [written EXCEPT ![p] = @ \union {page[p]}]
                 /\ mem' = [mem EXCEPT ![hand[p][1]] = <<p, page[p]>>]
<1>. USE DEF At, Goto, frameVars, tableVars, threadVars, WriteStages, DumpStages
<1>0. /\ TypeOK /\ p \in Threads /\ Procs \subseteq Threads
      /\ stage \in [Threads -> Stages] /\ hand \in [Threads -> Seq(Frames)]
      /\ page \in [Procs -> Nat] /\ estado \in [Procs -> Estados]
      /\ PlpClaim
      /\ \A q \in Procs :
            /\ stage[q] \in WriteStages => estado[q] = "ACTIVE"
            /\ stage[q] = "write" =>
                  page[q] \in Pages(q) /\ hand[q] = <<framesTable[q][page[q]]>>
  BY PlannersAreThreads DEF Sound, AllIntact, Typed, TypeOK, Roles, Intact
<1>1. CASE Write(p)
  BY <1>0, <1>1 DEF Write
<1>2. CASE WriteCheck(p) \/ WriteCount(p)
  BY <1>0, <1>2 DEF WriteCheck, WriteCount
<1>3. CASE \/ DumpLook(p) \/ DumpInSwap(p) \/ DumpCopy(p)
          \/ DumpFails(p) \/ DumpReturn(p)
  BY <1>0, <1>3 DEF DumpLook, DumpInSwap, DumpCopy, DumpFails, DumpReturn,
                    AfterWait, DumpAnswer
<1>4. CASE Suspend(p)
  BY <1>0, <1>4 DEF Suspend
<1>5. CASE Block(p) \/ Unblock(p) \/ Finish(p) \/ Withdraw(p)
  BY <1>0, <1>5 DEF Block, Unblock, AfterWait, Finish, Withdraw, Move
<1>6. CASE AskDump(p) \/ FetchFails(p)
  BY <1>0, <1>6 DEF AskDump, FetchFails
<1>7. ASSUME NEW i \in Pages(p), SearchFrame(p, i)
      PROVE  /\ stage' = [stage EXCEPT ![p] = "write"] /\ estado[p] = "ACTIVE"
             /\ page' = [page EXCEPT ![p] = i]
             /\ hand' = [hand EXCEPT ![p] = <<framesTable[p][i]>>]
             /\ UNCHANGED <<estado, pageTable, written, mem>>
  <2>1. p \in DOMAIN framesTable /\ ~(stage[Plp] = "map" /\ job[Plp] = p)
    BY <1>0, <1>7 DEF SearchFrame, AllIntact, Intact, PlpClaim, ReserveStages
  <2>2. pageTable[p] = framesTable[p]
    BY <2>1 DEF AllIntact, Intact
  <2>. QED
    BY <1>7, <2>2 DEF SearchFrame
<1>8. CASE \E i \in Pages(p) : SearchFrame(p, i)
  BY <1>0, <1>7, <1>8
<1>9. CASE (\E t \in Threads : WriterWaits(t)) \/ Crash
  BY <1>0, <1>9 DEF WriterWaits, Crash
<1>. QED
  BY <1>1, <1>2, <1>3, <1>4, <1>5, <1>6, <1>8, <1>9
     DEF OtherMoves, UserStep, Life

(* The frame a process writes in is listed for it, and for nobody else.    *)
LEMMA WritesItsOwn ==
    ASSUME Sound, AllIntact, NEW p \in Procs, stage[p] = "write"
    PROVE  /\ p \in DOMAIN framesTable /\ ~Released(p)
           /\ page[p] \in Pages(p) /\ page[p] \in DOMAIN framesTable[p]
           /\ hand[p][1] = framesTable[p][page[p]]
           /\ hand[p][1] \in Frames
           /\ \A q \in Procs : q # p => hand[p][1] \notin Listed(q)
           /\ hand[p][1] \notin PmpTaken
<1>1. Intact(p) /\ PlpClaim /\ PmpClaim /\ IsTable(framesTable, Seq(Frames))
  BY DEF Sound, AllIntact, Roles, Typed, TypeOK
<1>2. estado[p] = "ACTIVE" /\ p \in DOMAIN framesTable
  BY <1>1 DEF Intact, WriteStages
<1>3. ~Released(p)
  BY <1>1, <1>2 DEF Released, PlpClaim, PmpClaim, ClearStages, OutStages, Suspended
<1>4. /\ page[p] \in Pages(p) /\ page[p] \in DOMAIN framesTable[p]
      /\ hand[p][1] = framesTable[p][page[p]]
  BY <1>1, <1>2, <1>3 DEF Intact, Holds, Fitting
<1>5. hand[p][1] \in Listed(p)
  BY <1>2, <1>3, <1>4, ListedUnlessReleased DEF InUse
<1>6. /\ \A q \in Procs : q # p => Listed(p) \intersect Listed(q) = {}
      /\ Listed(p) \intersect PmpTaken = {}
  BY HeldBy, ThreadsAssumption DEF Sound, Partition, Divides, Threads, Planners
<1>7. hand[p][1] \in Frames
  BY <1>1, <1>2, <1>4 DEF IsTable
<1>. QED
  BY <1>2, <1>3, <1>4, <1>5, <1>6, <1>7

LEMMA IntactOthers ==
    ASSUME Sound, Circumstances, AllIntact, NEW p \in Procs, OtherMoves(p)
    PROVE  AllIntact'
<1>0. /\ PlpClaim /\ PmpClaim /\ PlpHas /\ PmpHas /\ PlpKept /\ PmpKept
      /\ UNCHANGED frameTables /\ pageTable' = pageTable
      /\ stage[Pmp] # "idle" => job[Pmp] \in Procs
      /\ \A q \in Procs : Intact(q) /\ Consistent(q) /\ Progress(q)
      /\ mem \in [Frames -> Data] /\ written \in [Procs -> SUBSET Nat]
  BY UserLeaves, OthersProgress, WhatOthersWrite
     DEF Sound, Typed, TypeOK, JobNamed, Planners, Roles, AllIntact, OtherMoves
<1>1. \A q \in Procs : Released(q)' <=> Released(q)
  BY <1>0 DEF Released, PlpKept, PmpKept
(* All but the data that is written.                                       *)
<1>2. ASSUME NEW q \in Procs,
             q \in DOMAIN framesTable /\ ~Released(q) =>
                Holds(mem', written'[q], q, framesTable[q]),
             q \in DOMAIN swapTable => Copied(written'[q], q, swapTable[q]),
             written'[q] = written[q] \/ estado[q] = "ACTIVE"
      PROVE  Intact(q)'
  <2>1. /\ estado'[q] \in {"ACTIVE", "BLOCKED"} => q \in DOMAIN framesTable
        /\ estado'[q] = "NEW" => written'[q] = {}
    BY <1>0, <1>2 DEF Intact, Progress
  <2>2. /\ stage'[q] \in WriteStages => estado'[q] = "ACTIVE"
        /\ stage'[q] = "write" =>
              page'[q] \in Pages(q) /\ hand'[q] = <<framesTable[q][page'[q]]>>
    BY WhatOthersWrite
  <2>3. (q \in DOMAIN framesTable /\ ~Released(q) =>
            Holds(mem, written[q], q, framesTable[q]))'
    BY <1>0, <1>1, <1>2 DEF frameTables, Holds, Fitting, Pages
  <2>4. (q \in DOMAIN swapTable => Copied(written[q], q, swapTable[q]))'
    BY <1>0, <1>2 DEF frameTables, Copied, Pages
  <2>. QED
    BY <1>0, <2>1, <2>2, <2>3, <2>4
       DEF Intact, frameTables, PlpKept, WriteStages, Pages
<1>3. PlpHas'
  BY <1>0 DEF PlpHas, PlpKept, frameTables, Fitting, Pages
<1>4. ASSUME \A i \in PmpTaken : mem'[i] = mem[i],
             stage[Pmp] \in CopyStages \union RestoredStages =>
                written'[job[Pmp]] = written[job[Pmp]]
      PROVE  PmpHas'
  <2>1. ASSUME stage[Pmp] \in RestoredStages
        PROVE  Holds(mem', written[job[Pmp]], job[Pmp], hand[Pmp])
    <3>1. PmpTaken = InUse(hand[Pmp])
      BY <2>1 DEF PmpTaken, RestoredStages, HoldStages
    <3>. QED
      BY <1>0, <1>4, <2>1, <3>1 DEF PmpHas, Holds, Fitting, InUse
  <2>2. (stage[Pmp] \in RestoredStages =>
            Holds(mem, written[job[Pmp]], job[Pmp], hand[Pmp]))'
    BY <1>0, <1>4, <2>1 DEF PmpKept, Holds, Fitting, Pages, RestoredStages
  <2>3. (stage[Pmp] \in CopyStages => Copied(written[job[Pmp]], job[Pmp], copy))'
    BY <1>0, <1>4 DEF PmpHas, PmpKept, Copied, Pages, CopyStages
  <2>4. (stage[Pmp] \in HoldStages => Fitting(job[Pmp], hand[Pmp]))'
    BY <1>0 DEF PmpHas, PmpKept, Fitting, Pages, HoldStages
  <2>5. (stage[Pmp] = "absence" => estado[job[Pmp]] \notin {"NEW", "ACTIVE", "BLOCKED"})'
    BY <1>0 DEF PmpHas, PmpKept, Progress
  <2>. QED
    BY <1>0, <2>2, <2>3, <2>4, <2>5 DEF PmpHas, PmpKept, frameTables
<1>5. CASE written' = written /\ mem' = mem
  <2>1. \A q \in Procs : Intact(q)'
    BY <1>0, <1>2, <1>5 DEF Intact
  <2>. QED
    BY <1>3, <1>4, <1>5, <2>1 DEF AllIntact
<1>6. CASE /\ stage[p] = "write"
           /\ written' = [written EXCEPT ![p] = @ \union {page[p]}]
           /\ mem' = [mem EXCEPT ![hand[p][1]] = <<p, page[p]>>]
  <2>. DEFINE f == hand[p][1]
  <2>1. /\ p \in DOMAIN framesTable /\ ~Released(p)
        /\ page[p] \in Pages(p) /\ page[p] \in DOMAIN framesTable[p]
        /\ f = framesTable[p][page[p]] /\ f \in Frames
        /\ \A q \in Procs : q # p => f \notin Listed(q)
        /\ f \notin PmpTaken
    BY <1>6, WritesItsOwn
  <2>2. estado[p] = "ACTIVE"
    BY <1>0, <1>6 DEF Intact, WriteStages
  <2>3. Intact(p)'
    <3>1. Holds(mem, written[p], p, framesTable[p])
      BY <1>0, <2>1 DEF Intact
    <3>2. ASSUME NEW i \in written'[p]
          PROVE  i \in Pages(p) /\ mem'[framesTable[p][i]] = <<p, i>>
      <4>1. CASE i = page[p]
        BY <1>0, <1>6, <2>1, <4>1
      <4>2. CASE i # page[p]
        <5>1. i \in written[p]
          BY <1>0, <1>6, <3>2, <4>2
        <5>2. i \in Pages(p) /\ mem[framesTable[p][i]] = <<p, i>>
              /\ framesTable[p][i] # f
          BY <2>1, <3>1, <4>2, <5>1 DEF Holds, Fitting
        <5>. QED
          BY <1>0, <1>6, <5>2
      <4>. QED
        BY <4>1, <4>2
    <3>3. Holds(mem', written'[p], p, framesTable[p])
      BY <3>1, <3>2 DEF Holds
    <3>4. p \notin DOMAIN swapTable
      BY <1>0, <2>1 DEF Consistent
    <3>. QED
      BY <1>2, <2>2, <3>3, <3>4
  <2>4. ASSUME NEW q \in Procs, q # p
        PROVE  Intact(q)'
    <3>1. written'[q] = written[q]
      BY <1>0, <1>6, <2>4
    <3>2. ASSUME q \in DOMAIN framesTable, ~Released(q)
          PROVE  Holds(mem', written'[q], q, framesTable[q])
      <4>1. \A i \in DOMAIN framesTable[q] : framesTable[q][i] # f
        BY <2>1, <2>4, <3>2, ListedUnlessReleased DEF InUse
      <4>2. Holds(mem, written[q], q, framesTable[q])
        BY <1>0, <3>2 DEF Intact
      <4>3. \A x : x # f => mem'[x] = mem[x]
        BY <1>0, <1>6
      <4>. QED
        BY <3>1, <4>1, <4>2, <4>3 DEF Holds, Fitting
    <3>3. q \in DOMAIN swapTable => Copied(written'[q], q, swapTable[q])
      BY <1>0, <3>1 DEF Intact
    <3>. QED
      BY <1>2, <3>1, <3>2, <3>3
  <2>5. \A x \in PmpTaken : mem'[x] = mem[x]
    BY <1>0, <1>6, <2>1
  <2>6. stage[Pmp] \in CopyStages \union RestoredStages =>
           written'[job[Pmp]] = written[job[Pmp]]
    BY <1>0, <1>6, <2>2
       DEF PmpClaim, OutStages, InStages, RemoveStages, Suspended, CopyStages,
           RestoredStages
  <2>. QED
    BY <1>3, <1>4, <2>3, <2>4, <2>5, <2>6 DEF AllIntact
<1>. QED
  BY <1>5, <1>6, WhatOthersWrite

LEMMA IntactStep ==
    ASSUME Circumstances, Sound, AllIntact, [Next]_vars
    PROVE  AllIntact'
<1>1. CASE UNCHANGED vars
  <2>1. \A q \in Procs : Intact(q)'
    BY <1>1 DEF AllIntact, vars, threadVars, frameVars, tableVars, Intact, Holds,
                Fitting, Copied, Released, Pages
  <2>2. PlpHas' /\ PmpHas'
    BY <1>1 DEF AllIntact, vars, threadVars, frameVars, tableVars, PlpHas, PmpHas,
                Holds, Fitting, Copied, Pages
  <2>. QED
    BY <2>1, <2>2 DEF AllIntact
<1>2. ASSUME Next, NEW q \in Procs
      PROVE  AllIntact'
  <2>1. PICK p \in Procs : PlpMoves(p) \/ PmpMoves(p) \/ OtherMoves(p)
    BY <1>2, WhoMoves
  <2>. QED
    BY <2>1, IntactPlp, IntactPmp, IntactOthers
<1>3. CASE Next /\ Procs = {}
  BY <1>3, NobodyMoves DEF Sound
<1>. QED
  BY <1>1, <1>2, <1>3

(* A process that may run finds each page at the frame its tables list,    *)
(* with what it wrote there last, however often its pages went to the swap *)
(* file and came back to other frames (all_swap.go), provided that none    *)
(* ends while the PMP has it at Memory, none returns to READY from a wait  *)
(* that its timer ended (it would run with its memory in SWAP), and the    *)
(* swap file takes what is written.                                        *)
THEOREM PagesAreKept ==
    ASSUME Circumstances
    PROVE  Spec => []PagesSurvive
<1>1. Init => AllIntact
  BY IntactInit
<1>2. Sound /\ AllIntact /\ [Next]_vars => AllIntact'
  BY IntactStep
<1>3. Sound /\ AllIntact => PagesSurvive
  <2>. SUFFICES ASSUME Sound, AllIntact, NEW p \in Procs, estado[p] = "ACTIVE"
                PROVE  /\ p \in DOMAIN framesTable
                       /\ framesTable[p] = pageTable[p]
                       /\ DOMAIN pageTable[p] = Pages(p)
                       /\ \A i \in written[p] : mem[pageTable[p][i]] = <<p, i>>
    BY DEF PagesSurvive
  <2>1. Intact(p) /\ PlpClaim /\ PmpClaim
    BY DEF Sound, AllIntact, Roles
  <2>2. ~Released(p) /\ ~(stage[Plp] = "map" /\ job[Plp] = p)
    BY <2>1 DEF Released, PlpClaim, PmpClaim, ReserveStages, ClearStages, OutStages,
                Suspended
  <2>. QED
    BY <2>1, <2>2 DEF Intact, Holds, Fitting
<1>. QED
  BY <1>1, <1>2, <1>3, AlwaysSound, PTL DEF Spec

-----------------------------------------------------------------------------
(***************************************************************************)
(* The handlers implement ProcessMemory.                                   *)
(***************************************************************************)
(* Memory has nothing of a NEW process, unless the PLP is mapping it.      *)
Fresh ==
    \A p \in Procs : estado[p] = "NEW" /\ p \in procTable =>
        stage[Plp] = "map" /\ job[Plp] = p

(* Seen from the Kernel, q is where it was.                                *)
SamePlace(q) ==
    /\ HasFrames(q)' <=> HasFrames(q)
    /\ InSwap(q)' <=> InSwap(q)

(* The frames that a process in frames has, and who holds them for it.     *)
FramesOf(q) ==
    IF stage[Plp] = "register" /\ job[Plp] = q THEN hand[Plp]
    ELSE IF stage[Pmp] \in HoldStages /\ job[Pmp] = q THEN hand[Pmp]
    ELSE framesTable[q]
HolderOf(q) ==
    IF stage[Plp] = "register" /\ job[Plp] = q THEN Plp
    ELSE IF stage[Pmp] \in HoldStages /\ job[Pmp] = q THEN Pmp
    ELSE q

LEMMA HasItsFrames ==
    ASSUME Sound, AllIntact, NEW q \in Procs, HasFrames(q)
    PROVE  /\ Fitting(q, FramesOf(q))
           /\ HolderOf(q) \in Owners \ {None}
           /\ \A i \in Pages(q) : FramesOf(q)[i] \in Held[HolderOf(q)]
           /\ \A i \in Pages(q) : FramesOf(q)[i] \in Frames
<1>0. /\ TypeOK /\ Partition /\ PlpHas /\ PmpHas /\ Intact(q)
      /\ hand[Plp] \in Seq(Frames) /\ hand[Pmp] \in Seq(Frames)
      /\ q \in DOMAIN framesTable => framesTable[q] \in Seq(Frames)
  BY PlannersAreThreads DEF Sound, Typed, TypeOK, AllIntact, IsTable
<1>1. CASE stage[Plp] = "register" /\ job[Plp] = q
  <2>1. FramesOf(q) = hand[Plp] /\ HolderOf(q) = Plp /\ Held[Plp] = InUse(hand[Plp])
    BY <1>1, HeldBy DEF FramesOf, HolderOf, PlpTaken
  <2>. QED
    BY <1>0, <1>1, <2>1, OwnersDiffer DEF PlpHas, Fitting, InUse
<1>2. CASE /\ ~(stage[Plp] = "register" /\ job[Plp] = q)
           /\ stage[Pmp] \in HoldStages /\ job[Pmp] = q
  <2>1. FramesOf(q) = hand[Pmp] /\ HolderOf(q) = Pmp /\ Held[Pmp] = InUse(hand[Pmp])
    BY <1>2, HeldBy DEF FramesOf, HolderOf, PmpTaken
  <2>. QED
    BY <1>0, <1>2, <2>1, OwnersDiffer DEF PmpHas, Fitting, InUse
<1>3. CASE /\ ~(stage[Plp] = "register" /\ job[Plp] = q)
           /\ ~(stage[Pmp] \in HoldStages /\ job[Pmp] = q)
  <2>1. q \in DOMAIN framesTable /\ ~Released(q)
    BY <1>3 DEF HasFrames, HoldStages, Released
  <2>2. /\ FramesOf(q) = framesTable[q] /\ HolderOf(q) = q
        /\ Held[q] = InUse(framesTable[q])
    BY <1>3, <2>1, HeldBy, ListedUnlessReleased DEF FramesOf, HolderOf
  <2>3. Fitting(q, framesTable[q])
    BY <1>0, <2>1 DEF Intact, Holds
  <2>. QED
    BY <1>0, <2>1, <2>2, <2>3, OwnersDiffer DEF Fitting, InUse
<1>. QED
  BY <1>1, <1>2, <1>3

(* The pages of the processes in frames have a frame each that is not      *)
(* free: what Memory counts as free is there for the abstract memory too.  *)
LEMMA FreeFramesSuffice ==
    ASSUME Sound, AllIntact
    PROVE  /\ Memory!Used \in Nat /\ Cardinality(free) \in Nat
           /\ Memory!Used + Cardinality(free) <= Cardinality(Frames)
<1> DEFINE pages == Memory!Taken
           frame == [t \in pages |-> FramesOf(t[1])[t[2]]]
           taken == Frames \ free
<1>1. \A t \in pages : /\ t[1] \in Procs /\ HasFrames(t[1]) /\ t[2] \in Pages(t[1])
                       /\ t = <<t[1], t[2]>>
  <2>. SUFFICES ASSUME NEW t \in pages
                PROVE  /\ t[1] \in Procs /\ HasFrames(t[1])
                       /\ t[2] \in Pages(t[1]) /\ t = <<t[1], t[2]>>
    OBVIOUS
  <2>1. PICK q \in Procs : Place[q] = "frames" /\ t \in {q} \X (1..Need[q])
    BY DEF Memory!Taken
  <2>2. HasFrames(q)
    BY <2>1 DEF Place
  <2>. QED
    BY <2>1, <2>2 DEF Pages
<1>2. Partition
  BY DEF Sound
<1> HIDE DEF pages
<1>3. ASSUME NEW t \in pages
      PROVE  frame[t] \in taken
  <2>1. /\ FramesOf(t[1])[t[2]] \in Held[HolderOf(t[1])]
        /\ FramesOf(t[1])[t[2]] \in Frames
        /\ HolderOf(t[1]) \in Owners \ {None}
    BY <1>1, <1>3, HasItsFrames
  <2>2. Held[HolderOf(t[1])] \intersect Held[None] = {}
    BY <1>2, <2>1, OwnersDiffer DEF Partition, Divides
  <2>. QED
    BY <1>3, <2>1, <2>2, HeldBy
<1>4. ASSUME NEW t \in pages, NEW u \in pages, frame[t] = frame[u]
      PROVE  t = u
  <2>1. /\ t[1] \in Procs /\ HasFrames(t[1]) /\ t[2] \in Pages(t[1])
        /\ u[1] \in Procs /\ HasFrames(u[1]) /\ u[2] \in Pages(u[1])
    BY <1>1
  <2>2. /\ frame[t] \in Held[HolderOf(t[1])] /\ HolderOf(t[1]) \in Owners
        /\ frame[t] \in Held[HolderOf(u[1])] /\ HolderOf(u[1]) \in Owners
    BY <1>4, <2>1, HasItsFrames
  <2>3. HolderOf(t[1]) = HolderOf(u[1])
    BY <1>2, <2>2 DEF Partition, Divides
  <2>4. t[1] = u[1]
    BY <2>1, <2>3, OwnersDiffer DEF HolderOf
  <2>5. t[2] = u[2]
    BY <1>4, <2>1, <2>4, HasItsFrames DEF Fitting
  <2>. QED
    BY <1>1, <2>4, <2>5
<1>5. frame \in Injection(pages, taken)
  BY <1>3, <1>4 DEF Injection, IsInjective
<1>6. /\ IsFiniteSet(taken)
      /\ Cardinality(taken) = Cardinality(Frames) - Cardinality(Frames \cap free)
  BY FramesAssumption, FS_Difference
<1>7. Frames \cap free = free /\ IsFiniteSet(free)
  BY FramesAssumption, FS_Subset DEF Sound, Typed, TypeOK
<1>8. IsFiniteSet(pages) /\ Cardinality(pages) <= Cardinality(taken)
  <2> HIDE DEF frame, taken
  <2> QED BY <1>5, <1>6, FS_Injection
<1>9. Memory!Used = Cardinality(pages)
  <2>1. \A S : Memory!Cardinality(S) = Cardinality(S)
    BY Zenon DEF Memory!Cardinality, Cardinality
  <2>. QED
    BY <2>1 DEF pages, Memory!Used
<1> HIDE DEF taken
<1>10. /\ Cardinality(pages) \in Nat /\ Cardinality(free) \in Nat
       /\ Cardinality(Frames) \in Nat
  BY <1>7, <1>8, FramesAssumption, FS_CardinalityType
<1> HIDE DEF frame
<1>11. Cardinality(taken) = Cardinality(Frames) - Cardinality(free)
  BY <1>6, <1>7
<1>12. Cardinality(pages) <= Cardinality(Frames) - Cardinality(free)
  BY <1>8, <1>11
<1>13. Cardinality(pages) + Cardinality(free) <= Cardinality(Frames)
  BY <1>10, <1>12
<1>. QED
  BY <1>9, <1>10, <1>13

(* A step that moves one process at most, and takes frames only if enough  *)
(* are free, is a step of ProcessMemory or leaves it as it is.             *)
LEMMA OneMoves ==
    ASSUME Sound, AllIntact, NEW j \in Procs,
           \A q \in Procs \ {j} : SamePlace(q),
           \/ SamePlace(j)
           \/ HasFrames(j) /\ HasFrames(j)'
           \/ ~HasFrames(j) /\ HasFrames(j)' /\ Cardinality(free) >= Need[j]
           \/ HasFrames(j) /\ ~HasFrames(j)'
           \/ ~HasFrames(j)' /\ ~InSwap(j)'
    PROVE  Memory!Next \/ Place' = Place
<1>1. Place \in [Procs -> {"frames", "swap", "absent"}]
  BY DEF Place
<1>2. Place' = [Place EXCEPT ![j] = Place'[j]]
  BY DEF Place, SamePlace
<1>3. Place'[j] \in {"frames", "swap", "absent"}
  BY DEF Place
<1>4. CASE SamePlace(j) \/ (HasFrames(j) /\ HasFrames(j)')
  <2>1. Place'[j] = Place[j]
    BY <1>4 DEF Place, SamePlace
  <2>. QED
    BY <1>1, <1>2, <2>1
<1>5. CASE ~HasFrames(j) /\ HasFrames(j)' /\ Cardinality(free) >= Need[j]
  <2>1. Place[j] \in {"swap", "absent"} /\ Place'[j] = "frames"
    BY <1>5 DEF Place
  <2>2. Memory!Fits(j)
    <3>1. Need[j] \in Nat /\ Cardinality(Frames) \in Nat
      BY NeedAssumption, FramesAssumption, FS_CardinalityType
    <3>. QED
      BY <1>5, <3>1, FreeFramesSuffice DEF Memory!Fits
  <2>3. Memory!Reserve(j) \/ Memory!RemoveFromSwap(j)
    BY <1>2, <2>1, <2>2 DEF Memory!Reserve, Memory!RemoveFromSwap, Memory!Goes
  <2>. QED
    BY <2>3 DEF Memory!Next
<1>6. CASE HasFrames(j) /\ ~HasFrames(j)'
  <2>1. Place[j] = "frames" /\ Place'[j] \in {"swap", "absent"}
    BY <1>6 DEF Place
  <2>2. Memory!PutInSwap(j) \/ Memory!Clear(j)
    BY <1>2, <2>1 DEF Memory!PutInSwap, Memory!Clear, Memory!Goes
  <2>. QED
    BY <2>2 DEF Memory!Next
<1>7. CASE ~HasFrames(j) /\ ~HasFrames(j)' /\ ~SamePlace(j) /\ ~InSwap(j)'
  <2>1. Place[j] = "swap" /\ Place'[j] = "absent"
    BY <1>7 DEF Place, SamePlace
  <2>2. Memory!Clear(j)
    BY <1>2, <2>1 DEF Memory!Clear, Memory!Goes
  <2>. QED
    BY <2>2 DEF Memory!Next
<1>8. CASE ~HasFrames(j) /\ ~HasFrames(j)' /\ InSwap(j)' /\ InSwap(j)
  <2>1. Place'[j] = Place[j]
    BY <1>8 DEF Place
  <2>. QED
    BY <1>1, <1>2, <2>1
<1>. QED
  BY <1>4, <1>5, <1>6, <1>7, <1>8 DEF SamePlace

LEMMA FreshStep ==
    ASSUME Sound, Circumstances, Fresh, [Next]_vars
    PROVE  Fresh'
<1>. SUFFICES ASSUME NEW q \in Procs, estado'[q] = "NEW", q \in procTable'
              PROVE  stage'[Plp] = "map" /\ job'[Plp] = q
  BY DEF Fresh
<1>0. /\ Typed /\ Roles /\ TypeOK /\ PlpClaim /\ PmpClaim
      /\ stage[Plp] # "idle" => job[Plp] \in Procs
      /\ stage[Pmp] # "idle" => job[Pmp] \in Procs
      /\ stage \in [Threads -> Stages] /\ job \in [Planners -> Procs \union {None}]
      /\ estado \in [Procs -> Estados]
  BY PlannersAreThreads DEF Sound, Typed, TypeOK, JobNamed, Roles
<1>1. ASSUME NEW p \in Procs, PlpMoves(p)
      PROVE  stage'[Plp] = "map" /\ job'[Plp] = q
  <2>. USE PlannersAreThreads DEF At, Goto, Answer, Ask
  <2>1. CASE stage[Plp] = "idle" \/ q # job[Plp]
    <3>1. Untouched(q)
      BY <1>0, <1>1, <2>1, PlpTouches
    <3>. QED
      BY <2>1, <3>1 DEF Fresh, Untouched
  <2>2. CASE stage[Plp] # "idle" /\ q = job[Plp]
    <3>1. CASE Capacity \/ LoadScript \/ Count
      BY <1>0, <2>2, <3>1 DEF Capacity, LoadScript, Count, Fresh, Same, tableVars
    <3>2. CASE Allocate
      BY <1>0, <2>2, <3>2 DEF Allocate, Fresh, Same, tableVars
    <3>3. CASE Register
      BY <1>0, <2>2, <3>3 DEF Register, Fresh, Same
    <3>4. CASE MapPages
      BY <1>0, <2>2, <3>4 DEF MapPages
    <3>5. CASE LookUp \/ Release \/ Forget
      BY <1>0, <2>2, <3>5 DEF LookUp, Release, Forget, PlpClaim, ClearStages
    <3>. QED
      BY <1>1, <2>2, <3>1, <3>2, <3>3, <3>4, <3>5
         DEF PlpMoves, ReserveStep, ClearStep, AskCapacity, AskClear
  <2>. QED
    BY <2>1, <2>2
<1>2. ASSUME NEW p \in Procs, PmpMoves(p)
      PROVE  stage'[Plp] = "map" /\ job'[Plp] = q
  <2>0. PlpKept
    BY <1>0, <1>2, PmpLeaves DEF PmpMoves
  <2>1. CASE stage[Pmp] \in {"idle", "put", "absence"} \/ q # job[Pmp]
    <3>1. Untouched(q)
      BY <1>0, <1>2, <2>1, PmpTouches
    <3>. QED
      BY <2>0, <3>1 DEF Fresh, Untouched, PlpKept
  <2>2. CASE stage[Pmp] \in OutStages \union InStages /\ q = job[Pmp]
    <3>1. estado[q] # "NEW"
      BY <1>0, <2>2 DEF PmpClaim, Suspended
    <3>2. estado'[q] \in {estado[q], "EXIT", "ACTIVE"}
      <4>. USE PlannersAreThreads
           DEF At, Goto, Answer, Ask, PmpAnswer, PmpGoes, Same, Swapped
      <4>1. CASE PutStep \/ AskPut(p) \/ AskIsInSwap(p)
        BY <1>0, <2>2, <4>1 DEF PutStep, PutLook, CopyOut, OpenFails, RecordOut,
                                MarkAbsent, AskPut, AskIsInSwap
      <4>2. CASE IsProcessInSwap \/ PmpCapacity \/ RemoveLook \/ ReserveFrames
        BY <1>0, <2>2, <4>2
           DEF IsProcessInSwap, PmpCapacity, RemoveLook, ReserveFrames
      <4>3. CASE ReadFile \/ ReadFails \/ Restore \/ CheckTable
        BY <1>0, <2>2, <4>3 DEF ReadFile, ReadFails, RollBack, Restore, CheckTable
      <4>4. CASE Remap \/ Record \/ MarkPresent
        BY <1>0, <2>2, <4>4 DEF Remap, Record, MarkPresent
      <4>. QED
        BY <1>2, <4>1, <4>2, <4>3, <4>4 DEF PmpMoves, RemoveStep
    <3>. QED
      BY <3>1, <3>2
  <2>. QED
    BY <1>2, <2>1, <2>2, PmpAtWork
<1>3. ASSUME NEW p \in Procs, OtherMoves(p)
      PROVE  stage'[Plp] = "map" /\ job'[Plp] = q
  <2>1. PlpKept /\ UNCHANGED frameTables
    BY <1>0, <1>3, UserLeaves DEF OtherMoves
  <2>2. Progress(q)
    BY <1>0, <1>3, OthersProgress
  <2>3. estado[q] = "NEW"
    BY <2>2 DEF Progress
  <2>. QED
    BY <2>1, <2>3 DEF Fresh, PlpKept, frameTables
<1>4. CASE UNCHANGED vars
  BY <1>4 DEF Fresh, vars, threadVars, tableVars
<1>5. CASE Next
  <2>1. PICK p \in Procs : PlpMoves(p) \/ PmpMoves(p) \/ OtherMoves(p)
    BY <1>5, WhoMoves
  <2>. QED
    BY <1>1, <1>2, <1>3, <2>1
<1>. QED
  BY <1>4, <1>5

(* The requests of the PLP: the frames that Allocate takes are a process   *)
(* more in memory, and a process is out of it with Release.                *)
LEMMA PlpImplements ==
    ASSUME Sound, AllIntact, Fresh, NEW p \in Procs, PlpMoves(p)
    PROVE  Memory!Next \/ Place' = Place
<1>. USE ThreadsAssumption DEF At, Goto, Answer
<1>0. /\ Typed /\ Roles /\ TypeOK /\ PlpClaim /\ PmpClaim /\ PmpKept
      /\ stage \in [Threads -> Stages] /\ hand \in [Threads -> Seq(Frames)]
      /\ job \in [Planners -> Procs \union {None}]
      /\ Plp \in Threads /\ Plp \in Planners
      /\ stage[Plp] # "idle" => job[Plp] \in Procs
  BY PlpLeaves, PlannersAreThreads
     DEF Sound, Typed, TypeOK, JobNamed, Roles, PlpMoves
<1>1. CASE AskCapacity(p) \/ AskClear(p)
  <2>1. /\ stage[Plp] = "idle" /\ stage'[Plp] \in {"capacity", "clear"}
        /\ framesTable' = framesTable /\ swapTable' = swapTable
    BY <1>0, <1>1 DEF AskCapacity, AskClear, Ask, tableVars
  <2>2. \A q \in Procs : SamePlace(q)
    BY <1>0, <2>1 DEF SamePlace, HasFrames, InSwap, PmpKept
  <2>. QED
    BY <2>2, OneMoves
<1>2. ASSUME ReserveStep \/ ClearStep
      PROVE  Memory!Next \/ Place' = Place
  <2>0. PICK j \in Procs : j = job[Plp]
    BY <1>0, <1>2 DEF ReserveStep, ClearStep, Capacity, LoadScript, Count,
                      Allocate, Register, MapPages, LookUp, Release, Forget
  <2>1. stage[Plp] # "idle" /\ (job'[Plp] = j \/ (job'[Plp] = None /\ stage'[Plp] = "idle"))
    BY <1>0, <1>2, <2>0 DEF ReserveStep, ClearStep, Capacity, LoadScript, Count,
                            Allocate, Register, MapPages, LookUp, Release, Forget
  <2>2. \A q \in Procs \ {j} : SamePlace(q)
    <3>. SUFFICES ASSUME NEW q \in Procs \ {j} PROVE SamePlace(q)
      OBVIOUS
    <3>1. Untouched(q)
      BY <1>0, <2>0, PlpTouches
    <3>. QED
      BY <1>0, <2>0, <2>1, <3>1 DEF SamePlace, HasFrames, InSwap, PmpKept, Untouched
  <2>3. ASSUME /\ stage[Plp] \notin {"register", "forget"}
               /\ stage'[Plp] \notin {"register", "forget"}
               /\ framesTable' = framesTable /\ swapTable' = swapTable
        PROVE  SamePlace(j)
    BY <1>0, <2>3 DEF SamePlace, HasFrames, InSwap, PmpKept
  <2>4. CASE Capacity \/ LoadScript \/ Count \/ MapPages
    <3>1. SamePlace(j)
      BY <1>0, <2>3, <2>4 DEF Capacity, LoadScript, Count, MapPages, tableVars
    <3>. QED
      BY <2>2, <3>1, OneMoves
  <2>5. CASE Allocate /\ ~Fits(j)
    <3>1. SamePlace(j)
      BY <1>0, <2>0, <2>3, <2>5 DEF Allocate, tableVars
    <3>. QED
      BY <2>2, <3>1, OneMoves
  <2>6. CASE Allocate /\ Fits(j)
    <3>1. /\ stage[Plp] = "allocate" /\ stage'[Plp] = "register" /\ job' = job
          /\ Cardinality(free) >= Need[j]
      BY <1>0, <2>0, <2>6 DEF Allocate, Fits
    <3>2. estado[j] = "NEW" /\ j \notin procTable
      BY <1>0, <2>0, <3>1 DEF PlpClaim, ReserveStages, Fresh
    <3>3. ~HasFrames(j)
      BY <1>0, <2>0, <3>1, <3>2
         DEF HasFrames, Roles, Consistent, PmpClaim, InStages, RemoveStages
    <3>4. HasFrames(j)'
      BY <2>0, <3>1 DEF HasFrames
    <3>. QED
      BY <2>2, <3>1, <3>3, <3>4, OneMoves
  <2>7. CASE Register
    <3>1. stage[Plp] = "register" /\ estado[j] = "NEW" /\ j \notin procTable
      BY <1>0, <2>0, <2>7 DEF Register, PlpClaim, ReserveStages, Fresh
    <3>2. HasFrames(j) /\ stage'[Plp] = "map" /\ j \in DOMAIN framesTable'
      BY <1>0, <2>0, <2>7, <3>1 DEF Register, HasFrames, With
    <3>3. HasFrames(j)'
      BY <1>0, <3>1, <3>2 DEF HasFrames, PmpKept, PmpClaim, OutStages, Suspended
    <3>. QED
      BY <2>2, <3>2, <3>3, OneMoves
  <2>8. CASE LookUp /\ stage'[Plp] # "forget"
    <3>1. SamePlace(j)
      BY <1>0, <2>3, <2>8 DEF LookUp, tableVars
    <3>. QED
      BY <2>2, <3>1, OneMoves
  <2>9. ASSUME LookUp \/ Release \/ Forget
        PROVE  ~(stage[Pmp] \in HoldStages /\ job[Pmp] = j)
               /\ ~(stage[Pmp] = "recordOut" /\ job[Pmp] = j)
    BY <1>0, <2>0, <2>9 DEF LookUp, Release, Forget, PlpClaim, PmpClaim, ClearStages,
                            HoldStages, InStages, OutStages, RemoveStages, Suspended
  <2>10. CASE (LookUp /\ stage'[Plp] = "forget") \/ Release
    <3>1. /\ stage'[Plp] = "forget" /\ job' = job
      BY <1>0, <2>10 DEF LookUp, Release
    <3>2. ~HasFrames(j)' /\ ~InSwap(j)'
      BY <1>0, <2>0, <2>9, <2>10, <3>1 DEF HasFrames, InSwap, PmpKept, HoldStages
    <3>. QED
      BY <2>2, <3>2, OneMoves
  <2>11. CASE Forget
    <3>1. stage'[Plp] = "idle" /\ j \notin DOMAIN framesTable' /\ j \notin DOMAIN swapTable'
      BY <1>0, <2>0, <2>11 DEF Forget, Without
    <3>2. ~HasFrames(j)' /\ ~InSwap(j)'
      BY <1>0, <2>9, <2>11, <3>1 DEF HasFrames, InSwap, PmpKept, HoldStages
    <3>. QED
      BY <2>2, <3>2, OneMoves
  <2>. QED
    BY <1>2, <2>4, <2>5, <2>6, <2>7, <2>8, <2>10, <2>11
       DEF ReserveStep, ClearStep
<1>. QED
  BY <1>1, <1>2 DEF PlpMoves

(* The requests of the PMP: a process is in SWAP once its frames have been *)
(* copied, and in frames from the moment they are taken for it; a failure  *)
(* leaves it in SWAP.                                                      *)
LEMMA PmpImplements ==
    ASSUME Sound, Circumstances, AllIntact, NEW p \in Procs, PmpMoves(p)
    PROVE  Memory!Next \/ Place' = Place
<1>. USE ThreadsAssumption DEF At, Goto, Answer, PmpAnswer, PmpGoes, Swapped
<1>0. /\ Typed /\ Roles /\ TypeOK /\ PlpClaim /\ PmpClaim /\ PlpKept /\ PmpHas
      /\ stage \in [Threads -> Stages] /\ hand \in [Threads -> Seq(Frames)]
      /\ job \in [Planners -> Procs \union {None}]
      /\ Pmp \in Threads /\ Pmp \in Planners
      /\ stage[Pmp] # "idle" => job[Pmp] \in Procs
  BY PmpLeaves, PlannersAreThreads
     DEF Sound, Typed, TypeOK, JobNamed, Roles, PmpMoves, AllIntact
<1>1. CASE AskPut(p) \/ AskIsInSwap(p)
  <2>1. /\ stage[Pmp] = "idle" /\ stage'[Pmp] \in {"put", "isInSwap"}
        /\ framesTable' = framesTable /\ swapTable' = swapTable
    BY <1>0, <1>1 DEF AskPut, AskIsInSwap, Ask, tableVars
  <2>2. \A q \in Procs : SamePlace(q)
    BY <1>0, <2>1 DEF SamePlace, HasFrames, InSwap, PlpKept
  <2>. QED
    BY <2>2, OneMoves
<1>2. ASSUME PutStep \/ RemoveStep
      PROVE  Memory!Next \/ Place' = Place
  <2>0. PICK j \in Procs : j = job[Pmp]
    BY <1>0, <1>2
       DEF PutStep, PutLook, CopyOut, OpenFails, RecordOut, MarkAbsent, RemoveStep,
           IsProcessInSwap, PmpCapacity, RemoveLook, ReserveFrames, ReadFile,
           ReadFails, Restore, CheckTable, Remap, Record, MarkPresent
  <2>1. /\ stage[Pmp] # "idle"
        /\ job'[Pmp] = j \/ (job'[Pmp] = None /\ stage'[Pmp] = "idle")
    <3>1. CASE PutStep
      BY <1>0, <2>0, <3>1
         DEF PutStep, PutLook, CopyOut, OpenFails, RecordOut, MarkAbsent
    <3>2. CASE IsProcessInSwap \/ PmpCapacity \/ RemoveLook \/ ReserveFrames
      BY <1>0, <2>0, <3>2
         DEF IsProcessInSwap, PmpCapacity, RemoveLook, ReserveFrames
    <3>3. CASE ReadFile \/ ReadFails \/ Restore \/ CheckTable
      BY <1>0, <2>0, <3>3 DEF ReadFile, ReadFails, RollBack, Restore, CheckTable
    <3>4. CASE Remap \/ Record \/ MarkPresent
      BY <1>0, <2>0, <3>4 DEF Remap, Record, MarkPresent
    <3>. QED
      BY <1>2, <3>1, <3>2, <3>3, <3>4 DEF RemoveStep
  <2>2. \A q \in Procs \ {j} : SamePlace(q)
    <3>. SUFFICES ASSUME NEW q \in Procs \ {j} PROVE SamePlace(q)
      OBVIOUS
    <3>1. Untouched(q)
      BY <1>0, <2>0, PmpTouches
    <3>. QED
      BY <1>0, <2>0, <2>1, <3>1 DEF SamePlace, HasFrames, InSwap, PlpKept, Untouched
  <2>3. ASSUME stage[Pmp] \notin HoldStages \union {"recordOut"},
               stage'[Pmp] \notin HoldStages \union {"recordOut"},
               framesTable' = framesTable, swapTable' = swapTable
        PROVE  SamePlace(j)
    BY <1>0, <2>3 DEF SamePlace, HasFrames, InSwap, PlpKept, HoldStages
  <2>4. ASSUME stage[Pmp] \in HoldStages
        PROVE  Memory!Next \/ Place' = Place
    <3>1. HasFrames(j)
      BY <2>0, <2>4 DEF HasFrames, HoldStages
    <3>. QED
      BY <2>2, <3>1, OneMoves
  <2>5. CASE OpenFails \/ MarkAbsent \/ MarkPresent
    <3>1. SamePlace(j)
      BY <1>0, <2>3, <2>5 DEF OpenFails, MarkAbsent, MarkPresent, HoldStages, tableVars
    <3>. QED
      BY <2>2, <3>1, OneMoves
  <2>6. CASE IsProcessInSwap \/ PmpCapacity
    <3>1. SamePlace(j)
      BY <1>0, <2>3, <2>6 DEF IsProcessInSwap, PmpCapacity, HoldStages, tableVars
    <3>. QED
      BY <2>2, <3>1, OneMoves
  <2>7. CASE (PutLook \/ CopyOut) /\ stage'[Pmp] # "recordOut"
    <3>1. SamePlace(j)
      BY <1>0, <2>3, <2>7 DEF PutLook, CopyOut, HoldStages, tableVars
    <3>. QED
      BY <2>2, <3>1, OneMoves
  <2>8. CASE (PutLook \/ CopyOut) /\ stage'[Pmp] = "recordOut"
    <3>1. stage[Pmp] \in {"put", "copyOut"} /\ job' = job /\ j \in DOMAIN framesTable
      BY <1>0, <2>0, <2>8 DEF PutLook, CopyOut, PmpClaim, OutStages
    <3>2. ~(stage[Plp] = "forget" /\ job[Plp] = j)
      BY <1>0, <2>0, <3>1 DEF PlpClaim, PmpClaim, ClearStages, OutStages, Suspended
    <3>3. HasFrames(j)
      BY <3>1, <3>2 DEF HasFrames
    <3>. QED
      BY <2>2, <3>3, OneMoves
  <2>9. CASE RecordOut
    <3>1. /\ stage[Pmp] = "recordOut" /\ stage'[Pmp] = "absence" /\ job' = job
          /\ j \notin DOMAIN framesTable' /\ j \in DOMAIN swapTable'
      BY <1>0, <2>0, <2>9 DEF RecordOut, Circumstances, With, Without
    <3>2. /\ ~(stage[Plp] = "forget" /\ job[Plp] = j)
          /\ ~(stage[Plp] = "register" /\ job[Plp] = j)
      BY <1>0, <2>0, <3>1
         DEF PlpClaim, PmpClaim, ClearStages, ReserveStages, OutStages, Suspended
    <3>3. SamePlace(j)
      BY <1>0, <2>0, <3>1, <3>2 DEF SamePlace, HasFrames, InSwap, PlpKept
    <3>. QED
      BY <2>2, <3>3, OneMoves
  <2>10. CASE RemoveLook
    <3>1. stage[Pmp] = "remove" /\ stage'[Pmp] \in {"idle", "reserve"}
      BY <1>0, <2>10 DEF RemoveLook
    <3>2. framesTable' = framesTable /\ swapTable' = swapTable
      BY <1>0, <2>0, <2>10 DEF RemoveLook, Roles, Consistent
    <3>3. SamePlace(j)
      BY <2>3, <3>1, <3>2 DEF HoldStages
    <3>. QED
      BY <2>2, <3>3, OneMoves
  <2>11. CASE ReserveFrames /\ stage'[Pmp] = "idle"
    <3>1. SamePlace(j)
      BY <1>0, <2>3, <2>11 DEF ReserveFrames, HoldStages, tableVars
    <3>. QED
      BY <2>2, <3>1, OneMoves
  <2>12. CASE ReserveFrames /\ stage'[Pmp] # "idle"
    <3>1. /\ stage[Pmp] = "reserve" /\ stage'[Pmp] \in {"readFile", "record"}
          /\ job' = job /\ ~(Cardinality(free) < Len(copy))
      BY <1>0, <2>12 DEF ReserveFrames
    <3>2. Cardinality(free) >= Need[j]
      <4>1. copy \in Seq(Data) /\ DOMAIN copy = 1..Need[j] /\ Need[j] \in Nat
        BY <1>0, <2>0, <3>1, NeedAssumption
           DEF PmpHas, CopyStages, Copied, Pages, TypeOK
      <4>2. Len(copy) = Need[j]
        BY <4>1
      <4>. QED
        BY <3>1, <4>1, <4>2, FreeFramesSuffice
    <3>3. /\ j \in DOMAIN swapTable /\ estado[j] = "SUSPREADY"
          /\ j \notin DOMAIN framesTable
      BY <1>0, <2>0, <3>1
         DEF PmpClaim, InStages, RemoveStages, Roles, Consistent
    <3>4. ~HasFrames(j)
      BY <1>0, <2>0, <3>1, <3>3 DEF HasFrames, PlpClaim, ReserveStages
    <3>5. HasFrames(j)'
      BY <2>0, <3>1 DEF HasFrames
    <3>. QED
      BY <2>2, <3>2, <3>4, <3>5, OneMoves
  <2>13. CASE ReadFile \/ ReadFails \/ Restore \/ CheckTable \/ Remap \/ Record
    BY <2>4, <2>13 DEF ReadFile, ReadFails, Restore, CheckTable, Remap, Record,
                       HoldStages
  <2>. QED
    BY <1>2, <2>5, <2>6, <2>7, <2>8, <2>9, <2>10, <2>11, <2>12, <2>13
       DEF PutStep, RemoveStep
<1>. QED
  BY <1>1, <1>2 DEF PmpMoves

(* Seen from the Kernel the handlers do one thing at a time: every step is *)
(* one of ProcessMemory, or changes nothing there, however the requests of *)
(* the planners, the CPUs and the dumps interleave, under the same         *)
(* provisions.                                                             *)
THEOREM MemoryIsImplemented ==
    ASSUME Circumstances
    PROVE  Spec => ImplementsMemory
<1> DEFINE MemInv == Sound /\ AllIntact /\ Fresh
<1>1. Init => Memory!Init
  <2>. SUFFICES ASSUME Init PROVE Place = [q \in Procs |-> "absent"]
    BY DEF Memory!Init
  <2>1. \A q \in Procs : ~HasFrames(q) /\ ~InSwap(q)
    BY PlannersAreThreads DEF Init, HasFrames, InSwap
  <2>. QED
    BY <2>1 DEF Place
<1>2. Init => MemInv
  BY SoundInit, IntactInit DEF Init, Fresh
<1>3. MemInv /\ [Next]_vars => MemInv'
  BY SoundStep, IntactStep, FreshStep
<1>4. MemInv /\ [Next]_vars => [Memory!Next]_Place
  <2>. SUFFICES ASSUME MemInv, [Next]_vars
                PROVE  Memory!Next \/ Place' = Place
    OBVIOUS
  <2>1. ASSUME NEW p \in Procs, OtherMoves(p)
        PROVE  Place' = Place
    <3>1. PlpKept /\ PmpKept /\ UNCHANGED frameTables
      BY <2>1, UserLeaves DEF OtherMoves, Sound, Typed
    <3>2. \A q \in Procs : SamePlace(q)
      BY <3>1 DEF SamePlace, HasFrames, InSwap, PlpKept, PmpKept, frameTables
    <3>. QED
      BY <3>2 DEF Place, SamePlace
  <2>2. CASE UNCHANGED vars
    <3>1. \A q \in Procs : SamePlace(q)
      BY <2>2 DEF SamePlace, HasFrames, InSwap, vars, threadVars, tableVars
    <3>. QED
      BY <3>1 DEF Place, SamePlace
  <2>3. CASE Next /\ Procs # {}
    <3>1. PICK p \in Procs : PlpMoves(p) \/ PmpMoves(p) \/ OtherMoves(p)
      BY <2>3, WhoMoves
    <3>. QED
      BY <2>1, <3>1, PlpImplements, PmpImplements
  <2>4. CASE Procs = {}
    BY <2>4 DEF Place
  <2>. QED
    BY <2>2, <2>3, <2>4
<1>. QED
  <2> HIDE DEF MemInv
  <2> QED BY <1>1, <1>2, <1>3, <1>4, PTL DEF Spec, ImplementsMemory, Memory!Spec
=============================================================================
