------------------------- MODULE IoDevicesProofs -------------------------
(***************************************************************************)
(* Theorems about IoDevices, for every set of processes, devices, names    *)
(* and handlers.  Every module may stop or die, except in the theorems     *)
(* that assume ModulesStay: those about what a stopped module loses.       *)
(***************************************************************************)
EXTENDS IoDevices, QueueLemmas, TLAPS

-----------------------------------------------------------------------------
(* Type correctness needs to know what a handler's port and PID, and a     *)
(* call's name and device, are at each stage.                              *)
HandlerFields ==
    \A h \in Handlers :
        /\ handler[h].at \notin {"idle", "find", "findSusp", "toReady"}
              => handler[h].port \in Devices
        /\ handler[h].at \in {"dispatch", "free", "find", "findSusp", "toReady"}
              => handler[h].pid \in Procs

CallFields ==
    \A p \in Procs :
        /\ call[p] # "none" => asked[p] \in Names
        /\ call[p] = "assign" => callDev[p] \in Devices

TypeInv == TypeOK /\ HandlerFields /\ CallFields

LEMMA InitTypeInv == Init => TypeInv
BY NamesAssumption, DevicesAssumption
   DEF Init, TypeInv, TypeOK, HandlerFields, CallFields, Handlings, Idle, Handling, Estados, CallStages,
       Programs, HandlerStages, TryStages, FinishStages, DisconnectStages

HandlersOK == handler \in [Handlers -> Handlings] /\ HandlerFields

NeedsPort == HandlerStages \ {"idle", "find", "findSusp", "toReady"}
NeedsPid == {"dispatch", "free", "find", "findSusp", "toReady"}

LEMMA HandlingTypes ==
    ASSUME TypeInv, NEW h \in Handlers, NEW stage \in HandlerStages,
           NEW d \in Devices \union {NoDevice}, NEW p \in Procs \union {0},
           stage \in NeedsPort => d \in Devices,
           stage \in NeedsPid => p \in Procs,
           Become(h, Handling(stage, d, p))
    PROVE  HandlersOK'
<1>1. /\ Handling(stage, d, p) \in Handlings
      /\ Handling(stage, d, p).at = stage
      /\ Handling(stage, d, p).port = d
      /\ Handling(stage, d, p).pid = p
    BY DEF Handlings, Handling
<1> QED BY <1>1
   DEF Become, TypeInv, TypeOK, HandlersOK, HandlerFields, NeedsPort, NeedsPid,
       Handlings

LEMMA SweepingTypes ==
    ASSUME TypeInv, NEW h \in Handlers, NEW stage \in {"sweep", "sweepSusp"},
           NEW d \in Devices, NEW S \in SUBSET Procs,
           Become(h, Sweeping(stage, d, S))
    PROVE  HandlersOK'
<1>1. /\ Sweeping(stage, d, S) \in Handlings
      /\ Sweeping(stage, d, S).at = stage
      /\ Sweeping(stage, d, S).port = d
    BY DEF Handlings, Sweeping, HandlerStages, DisconnectStages
<1> QED BY <1>1 DEF Become, TypeInv, TypeOK, HandlersOK, HandlerFields

LEMMA HandlerTypes ==
    ASSUME TypeInv, NEW h \in Handlers
    PROVE  /\ handler[h].at \in HandlerStages
           /\ handler[h].port \in Devices \union {NoDevice}
           /\ handler[h].pid \in Procs \union {0}
           /\ handler[h].todo \subseteq Procs
           /\ handler[h].at \in NeedsPort => handler[h].port \in Devices
           /\ handler[h].at \in NeedsPid => handler[h].pid \in Procs
BY DEF TypeInv, TypeOK, HandlerFields, NeedsPort, NeedsPid, Handlings

LEMMA GotoTypes ==
    ASSUME TypeInv, NEW h \in Handlers, NEW stage \in HandlerStages,
           stage \in NeedsPort => handler[h].port \in Devices,
           stage \in NeedsPid => handler[h].pid \in Procs,
           Goto(h, stage)
    PROVE  HandlersOK'
BY HandlerTypes, HandlingTypes DEF Goto

LEMMA DoneTypes ==
    ASSUME TypeInv, NEW h \in Handlers, Done(h)
    PROVE  HandlersOK'
<1>1. "idle" \in HandlerStages /\ "idle" \notin NeedsPort /\ "idle" \notin NeedsPid
    BY DEF HandlerStages, NeedsPort, NeedsPid
<1> QED BY <1>1, HandlingTypes DEF Done, Idle

LEMMA StartTypes ==
    ASSUME TypeInv, NEW stage \in HandlerStages, NEW d \in Devices,
           NEW p \in Procs \union {0}, stage \in NeedsPid => p \in Procs,
           Start(stage, d, p)
    PROVE  HandlersOK'
BY HandlingTypes DEF Start

LEMMA AfterUnblockTypes ==
    ASSUME TypeInv, NEW h \in Handlers, AfterUnblock(h)
    PROVE  HandlersOK'
<1>1. "try" \in HandlerStages /\ "try" \notin NeedsPid
    BY DEF HandlerStages, TryStages, NeedsPid
<1> QED BY <1>1, HandlerTypes, GotoTypes, DoneTypes DEF AfterUnblock

LEMMA HeadAndTail ==
    ASSUME NEW T, NEW q \in Seq(T), q # <<>>
    PROVE  Head(q) \in T /\ Tail(q) \in Seq(T)
OBVIOUS

LEMMA TypeInvStep == TypeInv /\ [Next]_vars => TypeInv'
<1> SUFFICES ASSUME TypeInv, [Next]_vars PROVE TypeInv'
    OBVIOUS
<1> USE NamesAssumption, DevicesAssumption DEF TypeInv, pcbVars, poolVars, callVars, requestVars
<1>0. CASE UNCHANGED vars
    BY <1>0 DEF TypeOK, HandlerFields, CallFields, vars
<1>1. ASSUME NEW p \in Procs, Request(p) PROVE TypeInv'
    BY <1>1
       DEF Request, Move, Estados, CallStages, TypeOK, HandlerFields,
           CallFields
<1>2. ASSUME NEW p \in Procs, RefuseTime(p) PROVE TypeInv'
    BY <1>2 DEF RefuseTime, Move, Estados, TypeOK, HandlerFields, CallFields
<1>3. ASSUME NEW p \in Procs, GetFreeByName(p) PROVE TypeInv'
    <2>1. call' \in [Procs -> CallStages] /\ isFree' \in [Devices -> BOOLEAN]
        BY <1>3 DEF GetFreeByName, Take, CallStages, TypeOK
    <2>2. callDev' \in [Procs -> Devices \union {NoDevice}] /\ CallFields'
        BY <1>3
           DEF GetFreeByName, FreeDevices, Named, CallStages, TypeOK,
               CallFields
    <2> QED BY <1>3, <2>1, <2>2 DEF GetFreeByName, TypeOK, HandlerFields
<1>4. ASSUME NEW p \in Procs, RefuseUnknown(p) PROVE TypeInv'
    BY <1>4
       DEF RefuseUnknown, EndCall, Move, Estados, CallStages, TypeOK,
           HandlerFields, CallFields
<1>5. ASSUME NEW p \in Procs, NoteRequest(p) PROVE TypeInv'
    BY <1>5 DEF NoteRequest, CallStages, TypeOK, HandlerFields, CallFields
<1>6. ASSUME NEW p \in Procs, Enqueue(p) PROVE TypeInv'
    BY <1>6 DEF Enqueue, EndCall, CallStages, TypeOK, HandlerFields, CallFields
<1>7. ASSUME NEW p \in Procs, Assign(p) PROVE TypeInv'
    BY <1>7
       DEF Assign, DispatchToDevice, EndCall, CallStages, TypeOK,
           HandlerFields, CallFields
<1>8. ASSUME NEW p \in Procs, SuspendOut(p) \/ SuspendIn(p) PROVE TypeInv'
    BY <1>8 DEF SuspendOut, SuspendIn, Move, Estados, TypeOK, HandlerFields, CallFields
<1>9. ASSUME NEW p \in Procs, EndFailed(p) PROVE TypeInv'
    BY <1>9 DEF EndFailed, Move, Estados, TypeOK, HandlerFields, CallFields
<1>10. ASSUME NEW p \in Procs, NEW d \in Devices, Accept(p, d) PROVE TypeInv'
    BY <1>10 DEF Accept, TypeOK, HandlerFields, CallFields
<1>11. ASSUME NEW p \in Procs, NEW d \in Devices, RequestFails(p, d) PROVE TypeInv'
    BY <1>11 DEF RequestFails, FreeByPort, TypeOK, HandlerFields, CallFields
<1>12. ASSUME NEW p \in Procs, NEW d \in Devices, Wake(p, d) PROVE TypeInv'
    <2>1. HandlersOK'
        BY <1>12, StartTypes
           DEF Wake, HandlerStages, TryStages, FinishStages, DisconnectStages,
               NeedsPort, NeedsPid
    <2> QED BY <1>12, <2>1 DEF Wake, HandlersOK, TypeOK, CallFields
<1>13. ASSUME NEW d \in Devices, Connect(d) PROVE TypeInv'
    <2>1. HandlersOK'
        BY <1>13, StartTypes
           DEF Connect, HandlerStages, TryStages, FinishStages,
               DisconnectStages, NeedsPort, NeedsPid
    <2> QED BY <1>13, <2>1 DEF Connect, HandlersOK, TypeOK, CallFields, Programs
<1>14. ASSUME NEW d \in Devices, Stop(d) PROVE TypeInv'
    <2>1. HandlersOK'
        BY <1>14, StartTypes
           DEF Stop, HandlerStages, TryStages, FinishStages, DisconnectStages,
               NeedsPort, NeedsPid
    <2> QED BY <1>14, <2>1 DEF Stop, HandlersOK, TypeOK, CallFields, Programs
<1>15. ASSUME NEW d \in Devices, Exit(d) PROVE TypeInv'
    BY <1>15 DEF Exit, Programs, TypeOK, HandlerFields, CallFields
<1>16. ASSUME NEW h \in Handlers, FinishFree(h) PROVE TypeInv'
    <2>1. HandlersOK'
        BY <1>16, HandlerTypes, HandlingTypes
           DEF FinishFree, HandlerStages, TryStages, FinishStages,
               DisconnectStages, NeedsPort, NeedsPid
    <2> QED BY <1>16, <2>1
       DEF FinishFree, FreeByPort, HandlersOK, TypeOK, CallFields
<1>17. ASSUME NEW h \in Handlers, FinishFind(h) \/ FinishFindSuspended(h) PROVE TypeInv'
    <2>1. HandlersOK'
        BY <1>17, HandlerTypes, GotoTypes, AfterUnblockTypes
           DEF FinishFind, FinishFindSuspended, HandlerStages, TryStages, FinishStages,
               DisconnectStages, NeedsPort, NeedsPid
    <2> QED BY <1>17, <2>1 DEF FinishFind, FinishFindSuspended, HandlersOK, TypeOK, CallFields
<1>18. ASSUME NEW h \in Handlers, FinishMove(h) PROVE TypeInv'
    <2>1. HandlersOK'
        BY <1>18, HandlerTypes, AfterUnblockTypes
           DEF FinishMove, HandlerStages, TryStages, FinishStages,
               DisconnectStages, NeedsPort, NeedsPid
    <2> QED BY <1>18, <2>1
       DEF FinishMove, Move, Estados, HandlersOK, TypeOK, CallFields
<1>19. ASSUME NEW h \in Handlers, Try(h) PROVE TypeInv'
    <2>1. HandlersOK'
        BY <1>19, HandlerTypes, HandlingTypes, DoneTypes
           DEF Try, FreeDevices, Named, TypeOK, HandlerStages, TryStages,
               FinishStages, DisconnectStages, NeedsPort, NeedsPid
    <2> QED BY <1>19, <2>1 DEF Try, Take, HandlersOK, TypeOK, CallFields
<1>20. ASSUME NEW h \in Handlers, Dequeue(h) PROVE TypeInv'
    <2> DEFINE q == waiting[NameOf[handler[h].port]]
    <2>1. q \in Seq(Procs)
        BY <1>20, HandlerTypes
           DEF Dequeue, TypeOK, HandlerStages, TryStages, FinishStages,
               DisconnectStages, NeedsPort, NeedsPid
    <2>2. q # <<>> => Head(q) \in Procs /\ Tail(q) \in Seq(Procs)
        BY <2>1, HeadAndTail
    <2>3. HandlersOK'
        BY <1>20, <2>2, HandlerTypes, GotoTypes, HandlingTypes
           DEF Dequeue, HandlerStages, TryStages, FinishStages,
               DisconnectStages, NeedsPort, NeedsPid
    <2>4. waiting' \in [Names -> Seq(Procs)]
        BY <1>20, <2>2 DEF Dequeue, TypeOK
    <2> QED BY <1>20, <2>3, <2>4 DEF Dequeue, HandlersOK, TypeOK, CallFields
<1>21. ASSUME NEW h \in Handlers, GiveBack(h) PROVE TypeInv'
    <2>1. HandlersOK'
        BY <1>21, HandlerTypes, DoneTypes
           DEF GiveBack, HandlerStages, TryStages, FinishStages,
               DisconnectStages, NeedsPort, NeedsPid
    <2> QED BY <1>21, <2>1
       DEF GiveBack, FreeByPort, HandlersOK, TypeOK, CallFields
<1>22. ASSUME NEW h \in Handlers, Dispatch(h) PROVE TypeInv'
    <2>1. HandlersOK'
        BY <1>22, DoneTypes DEF Dispatch
    <2>2. handler[h].port \in Devices /\ handler[h].pid \in Procs
        BY <1>22, HandlerTypes
           DEF Dispatch, HandlerStages, TryStages, FinishStages,
               DisconnectStages, NeedsPort, NeedsPid
    <2>3. pendingReq' \in [Procs -> Names \union {NoName}] /\ estado' \in [Procs -> Estados]
        BY <1>22, <2>2 DEF Dispatch, Move, Estados, TypeOK
    <2>4. devPid' \in [Devices -> Procs \union {0}]
        BY <1>22, <2>2 DEF Dispatch, DispatchToDevice, TypeOK
    <2>5. inflight' \subseteq (Procs \X Devices)
        BY <1>22, <2>2 DEF Dispatch, DispatchToDevice, TypeOK
    <2>6. UNCHANGED suspending
        BY <1>22 DEF Dispatch, Move
    <2>7. /\ UNCHANGED <<waiting, registered, isFree, call, asked, callDev, failed,
                         sleeping, module>>
        BY <1>22 DEF Dispatch
    <2>8. TypeOK'
        BY <2>1, <2>3, <2>4, <2>5, <2>6, <2>7 DEF HandlersOK, TypeOK
    <2> QED BY <2>1, <2>7, <2>8 DEF HandlersOK, CallFields
<1>23. ASSUME NEW h \in Handlers, ReadPid(h) PROVE TypeInv'
    <2>1. HandlersOK'
        BY <1>23, HandlerTypes, HandlingTypes
           DEF ReadPid, TypeOK, HandlerStages, TryStages, FinishStages,
               DisconnectStages, NeedsPort, NeedsPid
    <2> QED BY <1>23, <2>1 DEF ReadPid, HandlersOK, TypeOK, CallFields
<1>24. ASSUME NEW h \in Handlers, FindExecuting(h) \/ KillExecuting(h) PROVE TypeInv'
    <2>1. HandlersOK'
        BY <1>24, HandlerTypes, GotoTypes
           DEF FindExecuting, KillExecuting, HandlerStages, TryStages, FinishStages,
               DisconnectStages, NeedsPort, NeedsPid
    <2> QED BY <1>24, <2>1
       DEF FindExecuting, KillExecuting, Move, Estados, HandlersOK, TypeOK, CallFields
<1>25. ASSUME NEW h \in Handlers, RemoveByPort(h) PROVE TypeInv'
    <2>1. HandlersOK'
        BY <1>25, HandlerTypes, GotoTypes
           DEF RemoveByPort, HandlerStages, TryStages, FinishStages,
               DisconnectStages, NeedsPort, NeedsPid
    <2> QED BY <1>25, <2>1 DEF RemoveByPort, HandlersOK, TypeOK, CallFields
<1>26. ASSUME NEW h \in Handlers, CheckRemaining(h) PROVE TypeInv'
    <2>1. HandlersOK'
        BY <1>26, HandlerTypes, GotoTypes, DoneTypes
           DEF CheckRemaining, Answer, HandlerStages, TryStages, FinishStages,
               DisconnectStages, NeedsPort, NeedsPid
    <2>2. isFree' \in [Devices -> BOOLEAN]
        BY <1>26 DEF CheckRemaining, Take, TypeOK
    <2>3. module' \in [Devices -> Programs]
        BY <1>26 DEF CheckRemaining, Answer, Programs, TypeOK
    <2> QED BY <1>26, <2>1, <2>2, <2>3
       DEF CheckRemaining, HandlersOK, TypeOK, CallFields
<1>27. ASSUME NEW h \in Handlers, Drain(h) PROVE TypeInv'
    <2> DEFINE q == waiting[NameOf[handler[h].port]]
    <2>1. q \in Seq(Procs)
        BY <1>27, HandlerTypes
           DEF Drain, TypeOK, HandlerStages, TryStages, FinishStages,
               DisconnectStages, NeedsPort, NeedsPid
    <2>2. q # <<>> => Head(q) \in Procs /\ Tail(q) \in Seq(Procs)
        BY <2>1, HeadAndTail
    <2>3. HandlersOK'
        BY <1>27, <2>2, HandlerTypes, GotoTypes, HandlingTypes
           DEF Drain, HandlerStages, TryStages, FinishStages, DisconnectStages,
               NeedsPort, NeedsPid
    <2>4. waiting' \in [Names -> Seq(Procs)]
        BY <1>27, <2>2 DEF Drain, TypeOK
    <2> QED BY <1>27, <2>3, <2>4 DEF Drain, HandlersOK, TypeOK, CallFields
<1>28. ASSUME NEW h \in Handlers, KillWaiting(h) PROVE TypeInv'
    <2>1. HandlersOK'
        BY <1>28, HandlerTypes, GotoTypes
           DEF KillWaiting, HandlerStages, TryStages, FinishStages,
               DisconnectStages, NeedsPort, NeedsPid
    <2> QED BY <1>28, <2>1
       DEF KillWaiting, Move, Estados, HandlersOK, TypeOK, CallFields
<1>29. ASSUME NEW h \in Handlers, Scan(h) PROVE TypeInv'
    <2>1. HandlersOK'
        BY <1>29, HandlerTypes, SweepingTypes
           DEF Scan, HandlerStages, TryStages, FinishStages, DisconnectStages,
               NeedsPort, NeedsPid
    <2> QED BY <1>29, <2>1 DEF Scan, HandlersOK, TypeOK, CallFields
<1>30. ASSUME NEW h \in Handlers, Sweep(h) PROVE TypeInv'
    <2>1. HandlersOK'
        BY <1>30, HandlerTypes, SweepingTypes
           DEF Sweep, HandlerStages, TryStages, FinishStages, DisconnectStages,
               NeedsPort, NeedsPid
    <2> QED BY <1>30, <2>1
       DEF Sweep, Move, Estados, HandlersOK, TypeOK, CallFields
<1>31. ASSUME NEW h \in Handlers, EndSweep(h) PROVE TypeInv'
    <2>1. HandlersOK'
        BY <1>31, HandlerTypes, GotoTypes, DoneTypes
           DEF EndSweep, Answer, HandlerStages, TryStages, FinishStages,
               DisconnectStages, NeedsPort, NeedsPid
    <2> QED BY <1>31, <2>1
       DEF EndSweep, Answer, Programs, HandlersOK, TypeOK, CallFields
<1>32. QED
    BY <1>0, <1>1, <1>2, <1>3, <1>4, <1>5, <1>6, <1>7, <1>8, <1>9, <1>10,
       <1>11, <1>12, <1>13, <1>14, <1>15, <1>16, <1>17, <1>18, <1>19, <1>20,
       <1>21, <1>22, <1>23, <1>24, <1>25, <1>26, <1>27, <1>28, <1>29, <1>30,
       <1>31
       DEF Next, Syscall, Sending, Handle, Finishing, Trying, Disconnecting

(* Type correctness: every step keeps every variable within its type.      *)
THEOREM TypeCorrect == Spec => []TypeOK
<1>1. TypeInv => TypeOK
    BY DEF TypeInv
<1> QED BY InitTypeInv, TypeInvStep, <1>1, PTL DEF Spec
-----------------------------------------------------------------------------
(* Exclusion of devices.  IsFree is the lock: a device of the pool that is *)
(* free has no user, and one that has never connected has none either, so  *)
(* that connecting it may declare it free.                                 *)
FreeIsUnused == \A d \in registered : isFree[d] => Users(d) = {}

OffIsUnused ==
    \A d \in Devices : module[d] = "off" => d \notin registered /\ Users(d) = {}

Exclusion == OneUserPerDevice /\ FreeIsUnused /\ OffIsUnused

LEMMA InitExclusion == Init => Exclusion
<1> SUFFICES ASSUME Init PROVE Exclusion
    OBVIOUS
<1>1. \A d \in Devices : Users(d) = {}
    BY DEF Init, Users, Idle, Handling
<1> QED BY <1>1 DEF Init, Exclusion, OneUserPerDevice, FreeIsUnused, OffIsUnused

HoldingStages == {"dequeue", "giveBack", "dispatch", "free"}

LEMMA UsersKnown ==
    ASSUME NEW d
    PROVE  /\ \A p \in Procs :
                 /\ call[p] = "assign" /\ callDev[p] = d => <<"call", p>> \in Users(d)
                 /\ <<p, d>> \in inflight => <<"sent", p>> \in Users(d)
                 /\ <<p, d>> \in sleeping => <<"sleep", p>> \in Users(d)
           /\ \A h \in Handlers :
                 handler[h].at \in HoldingStages /\ handler[h].port = d
                    => <<"handler", h>> \in Users(d)
BY DEF Users, HoldingStages

LEMMA UsersWithin ==
    ASSUME NEW d, NEW S,
           \A p \in Procs :
              /\ call'[p] = "assign" /\ callDev'[p] = d => <<"call", p>> \in S
              /\ <<p, d>> \in inflight' => <<"sent", p>> \in S
              /\ <<p, d>> \in sleeping' => <<"sleep", p>> \in S,
           \A h \in Handlers :
              handler'[h].at \in HoldingStages /\ handler'[h].port = d
                 => <<"handler", h>> \in S
    PROVE  Users(d)' \subseteq S
BY DEF Users, HoldingStages

(* A step that gives no device to anybody only takes users away.           *)
CallsShrink ==
    \A p \in Procs : call'[p] = "assign" =>
        call[p] = "assign" /\ callDev'[p] = callDev[p]
HandlersShrink ==
    \A h \in Handlers : handler'[h].at \in HoldingStages =>
        handler[h].at \in HoldingStages /\ handler'[h].port = handler[h].port
NoGrant ==
    /\ CallsShrink /\ HandlersShrink
    /\ inflight' \subseteq inflight /\ sleeping' \subseteq sleeping

LEMMA UsersShrink ==
    ASSUME NoGrant, NEW d \in Devices
    PROVE  Users(d)' \subseteq Users(d)
BY ZenonT(30) DEF Users, HoldingStages, NoGrant, CallsShrink, HandlersShrink

LEMMA BecomeShrinks ==
    ASSUME TypeInv, NEW h \in Handlers, NEW r, Become(h, r),
           \/ r.at \notin HoldingStages
           \/ handler[h].at \in HoldingStages /\ r.port = handler[h].port
    PROVE  HandlersShrink
BY DEF Become, HandlersShrink, TypeInv, TypeOK

LEMMA HandlingShrinks ==
    ASSUME TypeInv, NEW h \in Handlers, NEW stage, NEW d, NEW p,
           Become(h, Handling(stage, d, p)),
           \/ stage \notin HoldingStages
           \/ handler[h].at \in HoldingStages /\ d = handler[h].port
    PROVE  HandlersShrink
<1>1. Handling(stage, d, p).at = stage /\ Handling(stage, d, p).port = d
    BY DEF Handling
<1> QED BY <1>1, BecomeShrinks

LEMMA GotoShrinks ==
    ASSUME TypeInv, NEW h \in Handlers, NEW stage, Goto(h, stage),
           stage \notin HoldingStages \/ handler[h].at \in HoldingStages
    PROVE  HandlersShrink
BY HandlingShrinks DEF Goto

LEMMA DoneShrinks ==
    ASSUME TypeInv, NEW h \in Handlers, Done(h)
    PROVE  HandlersShrink
BY HandlingShrinks DEF Done, Idle, HoldingStages

LEMMA SweepingShrinks ==
    ASSUME TypeInv, NEW h \in Handlers, NEW stage \in {"sweep", "sweepSusp"}, NEW d, NEW S,
           Become(h, Sweeping(stage, d, S))
    PROVE  HandlersShrink
<1>1. Sweeping(stage, d, S).at = stage
    BY DEF Sweeping
<1> QED BY <1>1, BecomeShrinks DEF HoldingStages

LEMMA StartShrinks ==
    ASSUME TypeInv, NEW stage, NEW d, NEW p, Start(stage, d, p), stage \notin HoldingStages
    PROVE  HandlersShrink
BY HandlingShrinks DEF Start

(* Then exclusion is kept, if what becomes free has lost its users.        *)
LEMMA NoGrantKeepsExclusion ==
    ASSUME TypeInv, Exclusion, NoGrant, registered' \subseteq registered,
           \A d \in registered : isFree'[d] => isFree[d] \/ Users(d)' = {},
           \A d \in Devices : module'[d] = "off" => module[d] = "off"
    PROVE  Exclusion'
<1>1. registered \subseteq Devices
    BY DEF TypeInv, TypeOK
<1> QED BY <1>1, UsersShrink
   DEF Exclusion, OneUserPerDevice, FreeIsUnused, OffIsUnused

(* A user of d that lets it go was its only one.                           *)
LEMMA ReleaseLeavesNone ==
    ASSUME Exclusion, NoGrant, NEW d \in Devices, NEW u \in Users(d), u \notin Users(d)'
    PROVE  Users(d)' = {}
BY UsersShrink DEF Exclusion, OneUserPerDevice

(* A step that gives device d to u, when d was free or its only user was   *)
(* the one that hands it over.                                             *)
LEMMA GrantKeepsExclusion ==
    ASSUME TypeInv, Exclusion, NEW d \in Devices, NEW u,
           Users(d)' \subseteq {u},
           \A e \in Devices \ {d} : Users(e)' \subseteq Users(e),
           registered' = registered,
           d \in registered => ~isFree'[d],
           \A e \in registered \ {d} : isFree'[e] => isFree[e],
           module' = module, module[d] # "off"
    PROVE  Exclusion'
<1>1. registered \subseteq Devices
    BY DEF TypeInv, TypeOK
<1> QED BY <1>1 DEF Exclusion, OneUserPerDevice, FreeIsUnused, OffIsUnused

LEMMA HandOverKeepsExclusion ==
    ASSUME TypeInv, Exclusion, NEW d \in Devices, NEW u, NEW v \in Users(d),
           Users(d)' \subseteq (Users(d) \ {v}) \union {u},
           \A e \in Devices \ {d} : Users(e)' \subseteq Users(e),
           registered' = registered, isFree' = isFree, module' = module
    PROVE  Exclusion'
<1>1. Users(d) = {v} /\ Users(d)' \subseteq {u}
    BY DEF Exclusion, OneUserPerDevice
<1>2. d \in registered => ~isFree[d]
    BY DEF Exclusion, FreeIsUnused
<1>3. module[d] # "off"
    BY DEF Exclusion, OffIsUnused
<1> QED BY <1>1, <1>2, <1>3, GrantKeepsExclusion

LEMMA ExclusionStep == TypeInv /\ Exclusion /\ [Next]_vars => Exclusion'
<1> SUFFICES ASSUME TypeInv, Exclusion, [Next]_vars PROVE Exclusion'
    OBVIOUS
<1> USE DEF pcbVars, poolVars, callVars, requestVars
<1>types. TypeOK
    BY DEF TypeInv
<1>0. CASE UNCHANGED vars
    BY <1>0, NoGrantKeepsExclusion
       DEF NoGrant, CallsShrink, HandlersShrink, vars
<1>1. ASSUME NEW p \in Procs, Request(p) PROVE Exclusion'
    <2>1. NoGrant
        BY <1>1, <1>types
           DEF Request, NoGrant, CallsShrink, HandlersShrink, TypeOK
    <2> QED BY <1>1, <2>1, NoGrantKeepsExclusion DEF Request
<1>2. ASSUME NEW p \in Procs, RefuseTime(p) PROVE Exclusion'
    <2>1. NoGrant
        BY <1>2, <1>types
           DEF RefuseTime, NoGrant, CallsShrink, HandlersShrink, TypeOK
    <2> QED BY <1>2, <2>1, NoGrantKeepsExclusion DEF RefuseTime
<1>3. ASSUME NEW p \in Procs, GetFreeByName(p) PROVE Exclusion'
    <2>1. CASE callDev' = callDev /\ isFree' = isFree /\ call'[p] # "assign"
        <3>1. NoGrant
            BY <1>3, <2>1, <1>types
               DEF GetFreeByName, NoGrant, CallsShrink, HandlersShrink, TypeOK
        <3> QED BY <1>3, <2>1, <3>1, NoGrantKeepsExclusion DEF GetFreeByName
    <2>2. ASSUME NEW d \in FreeDevices(asked[p]),
                 Take(d), callDev' = [callDev EXCEPT ![p] = d],
                 call' = [call EXCEPT ![p] = "assign"]
          PROVE  Exclusion'
        <3>1. d \in Devices /\ d \in registered /\ Users(d) = {} /\ module[d] # "off"
            BY <1>types
               DEF FreeDevices, Named, TypeOK, Exclusion, FreeIsUnused,
                   OffIsUnused
        <3>2. Users(d)' \subseteq {<<"call", p>>}
            <4>0. PICK S : S = {<<"call", p>>}
                OBVIOUS
            <4>1. \A q \in Procs :
                    /\ call'[q] = "assign" /\ callDev'[q] = d => <<"call", q>> \in S
                    /\ <<q, d>> \in inflight' => <<"sent", q>> \in S
                    /\ <<q, d>> \in sleeping' => <<"sleep", q>> \in S
                BY <4>0, <1>3, <2>2, <3>1, <1>types, UsersKnown
                   DEF GetFreeByName, TypeOK
            <4>2. \A k \in Handlers :
                    handler'[k].at \in HoldingStages /\ handler'[k].port = d
                       => <<"handler", k>> \in S
                BY <4>0, <1>3, <2>2, <3>1, <1>types, UsersKnown
                   DEF GetFreeByName, TypeOK
            <4> QED BY <4>0, <4>1, <4>2, UsersWithin
        <3>3. \A e \in Devices \ {d} : Users(e)' \subseteq Users(e)
            BY <1>3, <2>2, <1>types DEF GetFreeByName, Users, TypeOK
        <3>4. isFree' = [isFree EXCEPT ![d] = FALSE] /\ isFree \in [Devices -> BOOLEAN]
            BY <2>2, <1>types DEF Take, TypeOK
        <3>5. registered' = registered /\ module' = module /\ registered \subseteq Devices
            BY <1>3, <1>types DEF GetFreeByName, TypeOK
        <3> QED BY <3>1, <3>2, <3>3, <3>4, <3>5, GrantKeepsExclusion
    <2> QED BY <1>3, <2>1, <2>2, <1>types DEF GetFreeByName, TypeOK
<1>4. ASSUME NEW p \in Procs, RefuseUnknown(p) PROVE Exclusion'
    <2>1. NoGrant
        BY <1>4, <1>types
           DEF RefuseUnknown, EndCall, NoGrant, CallsShrink, HandlersShrink,
               TypeOK
    <2> QED BY <1>4, <2>1, NoGrantKeepsExclusion DEF RefuseUnknown, EndCall
<1>5. ASSUME NEW p \in Procs, NoteRequest(p) PROVE Exclusion'
    <2>1. NoGrant
        BY <1>5, <1>types
           DEF NoteRequest, NoGrant, CallsShrink, HandlersShrink, TypeOK
    <2> QED BY <1>5, <2>1, NoGrantKeepsExclusion DEF NoteRequest
<1>6. ASSUME NEW p \in Procs, Enqueue(p) PROVE Exclusion'
    <2>1. NoGrant
        BY <1>6, <1>types
           DEF Enqueue, EndCall, NoGrant, CallsShrink, HandlersShrink, TypeOK
    <2> QED BY <1>6, <2>1, NoGrantKeepsExclusion DEF Enqueue, EndCall
<1>7. ASSUME NEW p \in Procs, Assign(p) PROVE Exclusion'
    <2>1. PICK d \in Devices : d = callDev[p]
        BY <1>7 DEF Assign, TypeInv, CallFields
    <2>2. <<"call", p>> \in Users(d)
        BY <1>7, <2>1 DEF Assign, Users
    <2>3. Users(d)' \subseteq (Users(d) \ {<<"call", p>>}) \union {<<"sent", p>>}
        <3>0. PICK S : S = (Users(d) \ {<<"call", p>>}) \union {<<"sent", p>>}
            OBVIOUS
        <3>1. \A q \in Procs :
                /\ call'[q] = "assign" /\ callDev'[q] = d => <<"call", q>> \in S
                /\ <<q, d>> \in inflight' => <<"sent", q>> \in S
                /\ <<q, d>> \in sleeping' => <<"sleep", q>> \in S
            BY <3>0, <1>7, <2>1, <1>types, UsersKnown
               DEF Assign, TypeOK, DispatchToDevice, EndCall
        <3>2. \A k \in Handlers :
                handler'[k].at \in HoldingStages /\ handler'[k].port = d
                   => <<"handler", k>> \in S
            BY <3>0, <1>7, <2>1, <1>types, UsersKnown
               DEF Assign, TypeOK, DispatchToDevice, EndCall
        <3> QED BY <3>0, <3>1, <3>2, UsersWithin
    <2>4. \A e \in Devices \ {d} : Users(e)' \subseteq Users(e)
        BY <1>7, <2>1, <1>types
           DEF Assign, Users, TypeOK, DispatchToDevice, EndCall
    <2>5. registered' = registered /\ isFree' = isFree /\ module' = module
        BY <1>7 DEF Assign, DispatchToDevice, EndCall
    <2> QED BY <2>1, <2>2, <2>3, <2>4, <2>5, HandOverKeepsExclusion
<1>8. ASSUME NEW p \in Procs, SuspendOut(p) \/ SuspendIn(p) PROVE Exclusion'
    <2>1. NoGrant
        BY <1>8, <1>types
           DEF SuspendOut, SuspendIn, NoGrant, CallsShrink, HandlersShrink, TypeOK
    <2> QED BY <1>8, <2>1, NoGrantKeepsExclusion DEF SuspendOut, SuspendIn
<1>9. ASSUME NEW p \in Procs, EndFailed(p) PROVE Exclusion'
    <2>1. NoGrant
        BY <1>9, <1>types
           DEF EndFailed, NoGrant, CallsShrink, HandlersShrink, TypeOK
    <2> QED BY <1>9, <2>1, NoGrantKeepsExclusion DEF EndFailed
<1>10. ASSUME NEW p \in Procs, NEW d \in Devices, Accept(p, d) PROVE Exclusion'
    <2>1. d \in Devices
        OBVIOUS
    <2>2. <<"sent", p>> \in Users(d)
        BY <1>10, <2>1 DEF Accept, Users
    <2>3. Users(d)' \subseteq (Users(d) \ {<<"sent", p>>}) \union {<<"sleep", p>>}
        <3>0. PICK S : S = (Users(d) \ {<<"sent", p>>}) \union {<<"sleep", p>>}
            OBVIOUS
        <3>1. \A q \in Procs :
                /\ call'[q] = "assign" /\ callDev'[q] = d => <<"call", q>> \in S
                /\ <<q, d>> \in inflight' => <<"sent", q>> \in S
                /\ <<q, d>> \in sleeping' => <<"sleep", q>> \in S
            BY <3>0, <1>10, <2>1, <1>types, UsersKnown DEF Accept, TypeOK
        <3>2. \A k \in Handlers :
                handler'[k].at \in HoldingStages /\ handler'[k].port = d
                   => <<"handler", k>> \in S
            BY <3>0, <1>10, <2>1, <1>types, UsersKnown DEF Accept, TypeOK
        <3> QED BY <3>0, <3>1, <3>2, UsersWithin
    <2>4. \A e \in Devices \ {d} : Users(e)' \subseteq Users(e)
        BY <1>10, <2>1, <1>types DEF Accept, Users, TypeOK
    <2>5. registered' = registered /\ isFree' = isFree /\ module' = module
        BY <1>10 DEF Accept
    <2> QED BY <2>1, <2>2, <2>3, <2>4, <2>5, HandOverKeepsExclusion
<1>11. ASSUME NEW p \in Procs, NEW d \in Devices, RequestFails(p, d) PROVE Exclusion'
    <2>1. d \in Devices
        OBVIOUS
    <2>2. <<"sent", p>> \in Users(d)
        BY <1>11, <2>1 DEF RequestFails, Users, HoldingStages
    <2>3. NoGrant
        BY <1>11, <1>types
           DEF RequestFails, NoGrant, CallsShrink, HandlersShrink
    <2>4. <<"sent", p>> \notin Users(d)'
        BY <1>11, <1>types DEF RequestFails, Users, TypeOK, HoldingStages
    <2>5. Users(d)' = {}
        BY <2>1, <2>2, <2>3, <2>4, ReleaseLeavesNone
    <2>6. \A e \in registered \ {d} : isFree'[e] = isFree[e]
        BY <1>11, <2>1, <1>types DEF RequestFails, FreeByPort, TypeOK
    <2> QED BY <1>11, <2>3, <2>5, <2>6, NoGrantKeepsExclusion DEF RequestFails
<1>12. ASSUME NEW p \in Procs, NEW d \in Devices, Wake(p, d) PROVE Exclusion'
    <2>1. PICK h \in Handlers : handler[h] = Idle /\ Become(h, Handling("free", d, p))
        BY <1>12 DEF Wake, Start
    <2>2. <<"sleep", p>> \in Users(d)
        BY <1>12 DEF Wake, Users
    <2>3. \A k \in Handlers : k # h => handler'[k] = handler[k]
        BY <2>1, <1>types DEF Become, TypeOK
    <2>4. handler'[h].port = d
        BY <2>1, <1>types DEF Become, Handling, TypeOK
    <2>5. Users(d)' \subseteq (Users(d) \ {<<"sleep", p>>}) \union {<<"handler", h>>}
        <3>0. PICK S : S = (Users(d) \ {<<"sleep", p>>}) \union {<<"handler", h>>}
            OBVIOUS
        <3>1. \A q \in Procs :
                /\ call'[q] = "assign" /\ callDev'[q] = d => <<"call", q>> \in S
                /\ <<q, d>> \in inflight' => <<"sent", q>> \in S
                /\ <<q, d>> \in sleeping' => <<"sleep", q>> \in S
            BY <3>0, <1>12, <2>3, UsersKnown DEF Wake
        <3>2. \A k \in Handlers :
                handler'[k].at \in HoldingStages /\ handler'[k].port = d
                   => <<"handler", k>> \in S
            BY <3>0, <1>12, <2>3, UsersKnown DEF Wake
        <3> QED BY <3>0, <3>1, <3>2, UsersWithin
    <2>6. \A e \in Devices \ {d} : Users(e)' \subseteq Users(e)
        BY <1>12, <2>3, <2>4 DEF Wake, Users
    <2>7. registered' = registered /\ isFree' = isFree /\ module' = module
        BY <1>12 DEF Wake
    <2> QED BY <2>2, <2>5, <2>6, <2>7, HandOverKeepsExclusion
<1>13. ASSUME NEW d \in Devices, Connect(d) PROVE Exclusion'
    <2>1. NoGrant
        BY <1>13, StartShrinks DEF Connect, NoGrant, CallsShrink, HoldingStages
    <2>2. \A e \in Devices : Users(e)' \subseteq Users(e)
        BY <2>1, UsersShrink
    <2>3. Users(d) = {}
        BY <1>13 DEF Connect, Exclusion, OffIsUnused
    <2>4. \A e \in Devices \ {d} : isFree'[e] = isFree[e] /\ module'[e] = module[e]
        BY <1>13, <1>types DEF Connect, TypeOK
    <2>5. module'[d] = "up" /\ registered' = registered \union {d} /\ registered \subseteq Devices
        BY <1>13, <1>types DEF Connect, TypeOK
    <2> QED BY <2>2, <2>3, <2>4, <2>5
       DEF Exclusion, OneUserPerDevice, FreeIsUnused, OffIsUnused
<1>14. ASSUME NEW d \in Devices, Stop(d) PROVE Exclusion'
    <2>1. NoGrant
        BY <1>14, StartShrinks DEF Stop, NoGrant, CallsShrink, HoldingStages
    <2> QED BY <1>14, <2>1, <1>types, NoGrantKeepsExclusion DEF Stop, TypeOK
<1>15. ASSUME NEW d \in Devices, Exit(d) PROVE Exclusion'
    <2>1. NoGrant
        BY <1>15 DEF Exit, NoGrant, CallsShrink, HandlersShrink
    <2> QED BY <1>15, <2>1, <1>types, NoGrantKeepsExclusion DEF Exit, TypeOK
<1>16. ASSUME NEW h \in Handlers, FinishFree(h) PROVE Exclusion'
    <2>1. PICK d \in Devices : d = handler[h].port
        BY <1>16, HandlerTypes
           DEF FinishFree, HandlerStages, TryStages, FinishStages, NeedsPort
    <2>2. <<"handler", h>> \in Users(d)
        BY <1>16, <2>1 DEF FinishFree, Users, HoldingStages
    <2>3. NoGrant
        BY <1>16, HandlingShrinks, <1>types
           DEF FinishFree, NoGrant, CallsShrink, HandlersShrink, HoldingStages,
               Become, Handling
    <2>4. <<"handler", h>> \notin Users(d)'
        BY <1>16, <1>types
           DEF FinishFree, Users, TypeOK, HoldingStages, HoldingStages, Become,
               Handling
    <2>5. Users(d)' = {}
        BY <2>1, <2>2, <2>3, <2>4, ReleaseLeavesNone
    <2>6. \A e \in registered \ {d} : isFree'[e] = isFree[e]
        BY <1>16, <2>1, <1>types DEF FinishFree, FreeByPort, TypeOK
    <2> QED BY <1>16, <2>3, <2>5, <2>6, NoGrantKeepsExclusion DEF FinishFree
<1>17. ASSUME NEW h \in Handlers, FinishFind(h) \/ FinishFindSuspended(h) PROVE Exclusion'
    <2>1. NoGrant
        BY <1>17, GotoShrinks, DoneShrinks
           DEF FinishFind, FinishFindSuspended, AfterUnblock, NoGrant, CallsShrink, HoldingStages
    <2> QED BY <1>17, <2>1, <1>types, NoGrantKeepsExclusion
       DEF FinishFind, FinishFindSuspended, TypeOK
<1>18. ASSUME NEW h \in Handlers, FinishMove(h) PROVE Exclusion'
    <2>1. NoGrant
        BY <1>18, GotoShrinks, DoneShrinks
           DEF FinishMove, AfterUnblock, NoGrant, CallsShrink, HoldingStages
    <2> QED BY <1>18, <2>1, <1>types, NoGrantKeepsExclusion
       DEF FinishMove, TypeOK
<1>19. ASSUME NEW h \in Handlers, Try(h) PROVE Exclusion'
    <2>1. CASE Done(h) /\ isFree' = isFree
        <3>1. NoGrant
            BY <1>19, <2>1, DoneShrinks DEF Try, NoGrant, CallsShrink
        <3> QED BY <1>19, <2>1, <3>1, NoGrantKeepsExclusion DEF Try
    <2>2. ASSUME NEW d \in FreeDevices(NameOf[handler[h].port]),
                 Take(d), Become(h, Handling("dequeue", d, 0))
          PROVE  Exclusion'
        <3>1. d \in Devices /\ d \in registered /\ Users(d) = {} /\ module[d] # "off"
            BY <1>types
               DEF FreeDevices, Named, TypeOK, Exclusion, FreeIsUnused,
                   OffIsUnused
        <3>2. \A k \in Handlers : k # h => handler'[k] = handler[k]
            BY <2>2, <1>types DEF Become, TypeOK
        <3>3. handler'[h].port = d
            BY <2>2, <1>types DEF Become, Handling, TypeOK
        <3>4. Users(d)' \subseteq {<<"handler", h>>}
            BY ZenonT(30), <1>19, <3>1, <3>2 DEF Try, Users
        <3>5. \A e \in Devices \ {d} : Users(e)' \subseteq Users(e)
            BY <1>19, <3>2, <3>3 DEF Try, Users
        <3>6. isFree' = [isFree EXCEPT ![d] = FALSE] /\ isFree \in [Devices -> BOOLEAN]
            BY <2>2, <1>types DEF Take, TypeOK
        <3> QED BY <1>19, <3>1, <3>4, <3>5, <3>6, <1>types, GrantKeepsExclusion
           DEF Try, TypeOK
    <2> QED BY <1>19, <2>1, <2>2 DEF Try
<1>20. ASSUME NEW h \in Handlers, Dequeue(h) PROVE Exclusion'
    <2>1. NoGrant
        BY <1>20, GotoShrinks, HandlingShrinks
           DEF Dequeue, NoGrant, CallsShrink, HoldingStages
    <2> QED BY <1>20, <2>1, <1>types, NoGrantKeepsExclusion DEF Dequeue, TypeOK
<1>21. ASSUME NEW h \in Handlers, GiveBack(h) PROVE Exclusion'
    <2>1. PICK d \in Devices : d = handler[h].port
        BY <1>21, HandlerTypes
           DEF GiveBack, HandlerStages, TryStages, FinishStages, NeedsPort
    <2>2. <<"handler", h>> \in Users(d)
        BY <1>21, <2>1 DEF GiveBack, Users, HoldingStages
    <2>3. NoGrant
        BY <1>21, DoneShrinks, <1>types
           DEF GiveBack, NoGrant, CallsShrink, HandlersShrink, HoldingStages,
               Done, Become, Idle, Handling
    <2>4. <<"handler", h>> \notin Users(d)'
        BY <1>21, <1>types
           DEF GiveBack, Users, TypeOK, HoldingStages, HoldingStages, Done,
               Become, Idle, Handling
    <2>5. Users(d)' = {}
        BY <2>1, <2>2, <2>3, <2>4, ReleaseLeavesNone
    <2>6. \A e \in registered \ {d} : isFree'[e] = isFree[e]
        BY <1>21, <2>1, <1>types DEF GiveBack, FreeByPort, TypeOK
    <2> QED BY <1>21, <2>3, <2>5, <2>6, NoGrantKeepsExclusion DEF GiveBack
<1>22. ASSUME NEW h \in Handlers, Dispatch(h) PROVE Exclusion'
    <2>1. PICK d \in Devices, p \in Procs : d = handler[h].port /\ p = handler[h].pid
        BY <1>22, HandlerTypes
           DEF Dispatch, HandlerStages, TryStages, NeedsPort, NeedsPid
    <2>2. \A k \in Handlers : k # h => handler'[k] = handler[k]
        BY <1>22, <1>types DEF Dispatch, Done, Become, TypeOK
    <2>3. handler'[h].at = "idle"
        BY <1>22, <1>types DEF Dispatch, Done, Become, Idle, Handling, TypeOK
    <2>4. inflight' \subseteq inflight \union {<<p, d>>}
        BY <1>22, <2>1 DEF Dispatch, DispatchToDevice
    <2>5. <<"handler", h>> \in Users(d)
        BY <1>22, <2>1 DEF Dispatch, Users, HoldingStages
    <2>6. UNCHANGED <<call, callDev, sleeping>>
        BY <1>22 DEF Dispatch
    <2>7. Users(d)' \subseteq (Users(d) \ {<<"handler", h>>}) \union {<<"sent", p>>}
        <3>0. PICK S : S = (Users(d) \ {<<"handler", h>>}) \union {<<"sent", p>>}
            OBVIOUS
        <3>1. \A q \in Procs :
                /\ call'[q] = "assign" /\ callDev'[q] = d => <<"call", q>> \in S
                /\ <<q, d>> \in inflight' => <<"sent", q>> \in S
                /\ <<q, d>> \in sleeping' => <<"sleep", q>> \in S
            BY <3>0, <2>1, <2>2, <2>3, <2>4, <2>6, UsersKnown DEF HoldingStages
        <3>2. \A k \in Handlers :
                handler'[k].at \in HoldingStages /\ handler'[k].port = d
                   => <<"handler", k>> \in S
            BY <3>0, <2>1, <2>2, <2>3, <2>4, <2>6, UsersKnown DEF HoldingStages
        <3> QED BY <3>0, <3>1, <3>2, UsersWithin
    <2>8. \A e \in Devices \ {d} : Users(e)' \subseteq Users(e)
        BY <2>2, <2>3, <2>4, <2>6 DEF Users
    <2>9. registered' = registered /\ isFree' = isFree /\ module' = module
        BY <1>22 DEF Dispatch
    <2> QED BY <2>1, <2>5, <2>7, <2>8, <2>9, HandOverKeepsExclusion
<1>23. ASSUME NEW h \in Handlers, ReadPid(h) PROVE Exclusion'
    <2>1. NoGrant
        BY <1>23, HandlingShrinks
           DEF ReadPid, NoGrant, CallsShrink, HoldingStages
    <2> QED BY <1>23, <2>1, <1>types, NoGrantKeepsExclusion DEF ReadPid, TypeOK
<1>24. ASSUME NEW h \in Handlers, FindExecuting(h) \/ KillExecuting(h) PROVE Exclusion'
    <2>1. NoGrant
        BY <1>24, GotoShrinks
           DEF FindExecuting, KillExecuting, NoGrant, CallsShrink, HoldingStages
    <2> QED BY <1>24, <2>1, <1>types, NoGrantKeepsExclusion
       DEF FindExecuting, KillExecuting, TypeOK
<1>25. ASSUME NEW h \in Handlers, RemoveByPort(h) PROVE Exclusion'
    <2>1. NoGrant
        BY <1>25, GotoShrinks
           DEF RemoveByPort, NoGrant, CallsShrink, HoldingStages
    <2> QED BY <1>25, <2>1, <1>types, NoGrantKeepsExclusion
       DEF RemoveByPort, TypeOK
<1>26. ASSUME NEW h \in Handlers, CheckRemaining(h) PROVE Exclusion'
    <2>1. NoGrant
        BY <1>26, GotoShrinks, DoneShrinks
           DEF CheckRemaining, Answer, NoGrant, CallsShrink, HoldingStages
    <2> QED BY <1>26, <2>1, <1>types, NoGrantKeepsExclusion
       DEF CheckRemaining, TypeOK, Take, Answer
<1>27. ASSUME NEW h \in Handlers, Drain(h) PROVE Exclusion'
    <2>1. NoGrant
        BY <1>27, GotoShrinks, HandlingShrinks
           DEF Drain, NoGrant, CallsShrink, HoldingStages
    <2> QED BY <1>27, <2>1, <1>types, NoGrantKeepsExclusion DEF Drain, TypeOK
<1>28. ASSUME NEW h \in Handlers, KillWaiting(h) PROVE Exclusion'
    <2>1. NoGrant
        BY <1>28, GotoShrinks
           DEF KillWaiting, NoGrant, CallsShrink, HoldingStages
    <2> QED BY <1>28, <2>1, <1>types, NoGrantKeepsExclusion
       DEF KillWaiting, TypeOK
<1>29. ASSUME NEW h \in Handlers, Scan(h) PROVE Exclusion'
    <2>1. NoGrant
        BY <1>29, SweepingShrinks DEF Scan, NoGrant, CallsShrink, HoldingStages
    <2> QED BY <1>29, <2>1, <1>types, NoGrantKeepsExclusion DEF Scan, TypeOK
<1>30. ASSUME NEW h \in Handlers, Sweep(h) PROVE Exclusion'
    <2>1. NoGrant
        BY <1>30, SweepingShrinks DEF Sweep, NoGrant, CallsShrink, HoldingStages
    <2> QED BY <1>30, <2>1, <1>types, NoGrantKeepsExclusion DEF Sweep, TypeOK
<1>31. ASSUME NEW h \in Handlers, EndSweep(h) PROVE Exclusion'
    <2>1. NoGrant
        BY <1>31, GotoShrinks, DoneShrinks
           DEF EndSweep, Answer, NoGrant, CallsShrink, HoldingStages
    <2> QED BY <1>31, <2>1, <1>types, NoGrantKeepsExclusion
       DEF EndSweep, TypeOK, Answer
<1>32. QED
    BY <1>0, <1>1, <1>2, <1>3, <1>4, <1>5, <1>6, <1>7, <1>8, <1>9, <1>10,
       <1>11, <1>12, <1>13, <1>14, <1>15, <1>16, <1>17, <1>18, <1>19, <1>20,
       <1>21, <1>22, <1>23, <1>24, <1>25, <1>26, <1>27, <1>28, <1>29, <1>30,
       <1>31
       DEF Next, Syscall, Sending, Handle, Finishing, Trying, Disconnecting

(* A device serves one process at a time, for any number of processes,     *)
(* devices and handlers, whatever modules stop or die.                     *)
THEOREM DeviceExclusion == Spec => []OneUserPerDevice
<1>1. TypeInv /\ Exclusion => OneUserPerDevice
    BY DEF Exclusion
<1> QED BY InitTypeInv, InitExclusion, TypeInvStep, ExclusionStep, <1>1, PTL
   DEF Spec
-----------------------------------------------------------------------------
(* Where a process is while it asks for, waits for, uses or finishes an    *)
(* I/O: in its syscall, in a waiting queue, in a request under way, on a   *)
(* device, in a request that failed, or with a handler of the Kernel.      *)
Places(p) ==
    {u \in {<<"call", p>>} : call[p] # "none"}
    \union {<<"queue", n>> : n \in {m \in Names : InQueue(p, m)}}
    \union {<<"sent", d>> : d \in {e \in Devices : <<p, e>> \in inflight}}
    \union {<<"sleep", d>> : d \in {e \in Devices : <<p, e>> \in sleeping}}
    \union {u \in {<<"failed", p>>} : p \in failed}
    \union {<<"handler", h>> : h \in {k \in Handlers :
                 handler[k].at \in NeedsPid /\ handler[k].pid = p}}

OnePlace == \A p \in Procs : \A u, v \in Places(p) : u = v

ActiveIsNowhere == \A p \in Procs : estado[p] = "ACTIVE" => Places(p) = {}

NoRepetitions == \A n \in Names : IsInjective(waiting[n])

(* The PCB of a process in a queue, or on its way in or out of one, says   *)
(* what it asks for.                                                       *)
RequestsNoted ==
    /\ \A n \in Names, p \in Procs : InQueue(p, n) => pendingReq[p] = n
    /\ \A p \in Procs : call[p] = "enqueue" => pendingReq[p] = asked[p]
    /\ \A h \in Handlers :
          handler[h].at = "dispatch" => pendingReq[handler[h].pid] # NoName

PlacesInv == OnePlace /\ ActiveIsNowhere /\ NoRepetitions /\ RequestsNoted

LEMMA InitPlaces == Init => PlacesInv
<1> SUFFICES ASSUME Init PROVE PlacesInv
    OBVIOUS
<1>1. \A p \in Procs : Places(p) = {}
    BY DEF Init, Places, InQueue, Contains, Idle, Handling, NeedsPid
<1>2. NoRepetitions /\ RequestsNoted
    BY DEF Init, NoRepetitions, RequestsNoted, IsInjective, InQueue, Contains,
           Idle, Handling
<1> QED BY <1>1, <1>2 DEF PlacesInv, OnePlace, ActiveIsNowhere

LEMMA PlacesKnown ==
    ASSUME NEW p \in Procs
    PROVE  /\ call[p] # "none" => <<"call", p>> \in Places(p)
           /\ \A n \in Names : InQueue(p, n) => <<"queue", n>> \in Places(p)
           /\ \A d \in Devices :
                 /\ <<p, d>> \in inflight => <<"sent", d>> \in Places(p)
                 /\ <<p, d>> \in sleeping => <<"sleep", d>> \in Places(p)
           /\ p \in failed => <<"failed", p>> \in Places(p)
           /\ \A h \in Handlers :
                 handler[h].at \in NeedsPid /\ handler[h].pid = p
                    => <<"handler", h>> \in Places(p)
BY DEF Places

LEMMA PlacesWithin ==
    ASSUME NEW p \in Procs, NEW S,
           call'[p] # "none" => <<"call", p>> \in S,
           \A n \in Names : InQueue(p, n)' => <<"queue", n>> \in S,
           \A d \in Devices : <<p, d>> \in inflight' => <<"sent", d>> \in S,
           \A d \in Devices : <<p, d>> \in sleeping' => <<"sleep", d>> \in S,
           p \in failed' => <<"failed", p>> \in S,
           \A h \in Handlers :
              handler'[h].at \in NeedsPid /\ handler'[h].pid = p
                 => <<"handler", h>> \in S
    PROVE  Places(p)' \subseteq S
BY DEF Places

(* A step by which process p comes to no place it was not in.              *)
NoArrival(p) ==
    /\ call'[p] # "none" => call[p] # "none"
    /\ \A n \in Names : InQueue(p, n)' => InQueue(p, n)
    /\ \A d \in Devices : /\ <<p, d>> \in inflight' => <<p, d>> \in inflight
                          /\ <<p, d>> \in sleeping' => <<p, d>> \in sleeping
    /\ p \in failed' => p \in failed
    /\ \A h \in Handlers :
          handler'[h].at \in NeedsPid /\ handler'[h].pid = p
             => handler[h].at \in NeedsPid /\ handler[h].pid = p

LEMMA PlacesShrink ==
    ASSUME NEW p \in Procs, NoArrival(p)
    PROVE  Places(p)' \subseteq Places(p)
<1> DEFINE S == Places(p)
<1>1. /\ call'[p] # "none" => <<"call", p>> \in S
      /\ \A n \in Names : InQueue(p, n)' => <<"queue", n>> \in S
      /\ \A d \in Devices : <<p, d>> \in inflight' => <<"sent", d>> \in S
      /\ \A d \in Devices : <<p, d>> \in sleeping' => <<"sleep", d>> \in S
      /\ p \in failed' => <<"failed", p>> \in S
      /\ \A h \in Handlers :
            handler'[h].at \in NeedsPid /\ handler'[h].pid = p
               => <<"handler", h>> \in S
    BY PlacesKnown DEF NoArrival
<1> HIDE DEF S
<1>2. Places(p)' \subseteq S
    BY <1>1, PlacesWithin
<1> QED BY <1>2 DEF S

(* A step by which p leaves the place v, and comes to no other than u.     *)
Moved(p, v, u) ==
    /\ call'[p] # "none" =>
          (call[p] # "none" /\ <<"call", p>> # v) \/ <<"call", p>> = u
    /\ \A n \in Names : InQueue(p, n)' =>
          (InQueue(p, n) /\ <<"queue", n>> # v) \/ <<"queue", n>> = u
    /\ \A d \in Devices : <<p, d>> \in inflight' =>
          (<<p, d>> \in inflight /\ <<"sent", d>> # v) \/ <<"sent", d>> = u
    /\ \A d \in Devices : <<p, d>> \in sleeping' =>
          (<<p, d>> \in sleeping /\ <<"sleep", d>> # v) \/ <<"sleep", d>> = u
    /\ p \in failed' =>
          (p \in failed /\ <<"failed", p>> # v) \/ <<"failed", p>> = u
    /\ \A h \in Handlers : handler'[h].at \in NeedsPid /\ handler'[h].pid = p =>
          \/ /\ handler[h].at \in NeedsPid /\ handler[h].pid = p
             /\ <<"handler", h>> # v
          \/ <<"handler", h>> = u

LEMMA PlacesMove ==
    ASSUME NEW p \in Procs, NEW v, NEW u, Moved(p, v, u)
    PROVE  Places(p)' \subseteq (Places(p) \ {v}) \union {u}
<1> PICK S : S = (Places(p) \ {v}) \union {u}
    OBVIOUS
<1>1. \A t : t \in S <=> (t \in Places(p) /\ t # v) \/ t = u
    OBVIOUS
<1>2. /\ call'[p] # "none" => <<"call", p>> \in S
      /\ \A n \in Names : InQueue(p, n)' => <<"queue", n>> \in S
      /\ \A d \in Devices : <<p, d>> \in inflight' => <<"sent", d>> \in S
      /\ \A d \in Devices : <<p, d>> \in sleeping' => <<"sleep", d>> \in S
      /\ p \in failed' => <<"failed", p>> \in S
      /\ \A h \in Handlers :
            handler'[h].at \in NeedsPid /\ handler'[h].pid = p
               => <<"handler", h>> \in S
    BY <1>1, PlacesKnown DEF Moved
<1>3. Places(p)' \subseteq S
    BY <1>2, PlacesWithin
<1> QED BY <1>3

(* A process that is nowhere comes to a place only by asking.              *)
Steady ==
    \A p \in Procs : Places(p) = {} /\ estado[p] # "ACTIVE" => Places(p)' = {}

(* When nobody arrives anywhere and nobody but the one that leaves its     *)
(* only place becomes active, places stay unique.                          *)
LEMMA NobodyArrives ==
    ASSUME OnePlace, ActiveIsNowhere, \A p \in Procs : NoArrival(p),
           \A p \in Procs : estado'[p] = "ACTIVE" =>
              estado[p] = "ACTIVE" \/ Places(p)' = {}
    PROVE  OnePlace' /\ ActiveIsNowhere' /\ Steady
BY PlacesShrink DEF OnePlace, ActiveIsNowhere, Steady

(* When p, which was active or leaves the place v, arrives at u.           *)
LEMMA OneArrives ==
    ASSUME OnePlace, ActiveIsNowhere, NEW p \in Procs, NEW u, NEW v,
           Places(p) # {} => v \in Places(p),
           Places(p) # {} \/ estado[p] = "ACTIVE",
           Moved(p, v, u),
           estado'[p] # "ACTIVE",
           \A q \in Procs \ {p} : NoArrival(q) /\ estado'[q] = estado[q]
    PROVE  OnePlace' /\ ActiveIsNowhere' /\ Steady
<1>1. Places(p)' \subseteq {u}
    <2>1. Places(p)' \subseteq (Places(p) \ {v}) \union {u}
        BY PlacesMove
    <2> QED BY <2>1 DEF OnePlace
<1>2. \A q \in Procs \ {p} : Places(q)' \subseteq Places(q)
    BY PlacesShrink
<1> QED BY <1>1, <1>2 DEF OnePlace, ActiveIsNowhere, Steady

(* A process that leaves its only place is nowhere.                        *)
LEMMA LeavesLastPlace ==
    ASSUME OnePlace, NEW p \in Procs, NoArrival(p), NEW v \in Places(p), v \notin Places(p)'
    PROVE  Places(p)' = {}
BY PlacesShrink DEF OnePlace

(* A handler that goes on has the process it had, or lets it go.           *)
HandlersStay ==
    \A h \in Handlers : handler'[h].at \in NeedsPid =>
        /\ handler[h].at \in NeedsPid
        /\ handler'[h].pid = handler[h].pid
        /\ handler'[h].at = "dispatch" => handler[h].at = "dispatch"

CallsEnd ==
    \A p \in Procs :
        /\ call'[p] # "none" => call[p] # "none"
        /\ call'[p] = "enqueue" => call[p] = "enqueue" /\ asked'[p] = asked[p]

(* What most steps have in common: nobody arrives anywhere.                *)
Settled ==
    /\ HandlersStay /\ CallsEnd
    /\ inflight' \subseteq inflight /\ sleeping' \subseteq sleeping
    /\ failed' \subseteq failed
    /\ waiting' = waiting /\ pendingReq' = pendingReq

LEMMA SettledNoArrival ==
    ASSUME Settled, NEW p \in Procs PROVE NoArrival(p)
BY DEF Settled, NoArrival, HandlersStay, CallsEnd, InQueue

LEMMA SettledKeepsPlaces ==
    ASSUME PlacesInv, Settled,
           \A p \in Procs : estado'[p] = "ACTIVE" =>
              estado[p] = "ACTIVE" \/ Places(p)' = {}
    PROVE  PlacesInv' /\ Steady
<1>1. OnePlace' /\ ActiveIsNowhere' /\ Steady
    BY SettledNoArrival, NobodyArrives DEF PlacesInv
<1>2. NoRepetitions'
    BY DEF PlacesInv, NoRepetitions, Settled
<1>3. RequestsNoted'
    BY DEF PlacesInv, RequestsNoted, Settled, HandlersStay, CallsEnd, InQueue,
           NeedsPid
<1> QED BY <1>1, <1>2, <1>3 DEF PlacesInv

LEMMA BecomeStays ==
    ASSUME TypeInv, NEW h \in Handlers, NEW r, Become(h, r),
           \/ r.at \notin NeedsPid
           \/ /\ handler[h].at \in NeedsPid /\ r.pid = handler[h].pid
              /\ r.at # "dispatch"
    PROVE  HandlersStay
BY DEF Become, HandlersStay, TypeInv, TypeOK

LEMMA HandlingStays ==
    ASSUME TypeInv, NEW h \in Handlers, NEW stage, NEW d, NEW p,
           Become(h, Handling(stage, d, p)),
           \/ stage \notin NeedsPid
           \/ /\ handler[h].at \in NeedsPid /\ p = handler[h].pid
              /\ stage # "dispatch"
    PROVE  HandlersStay
<1>1. Handling(stage, d, p).at = stage /\ Handling(stage, d, p).pid = p
    BY DEF Handling
<1> QED BY <1>1, BecomeStays

LEMMA GotoStays ==
    ASSUME TypeInv, NEW h \in Handlers, NEW stage, Goto(h, stage),
           \/ stage \notin NeedsPid
           \/ handler[h].at \in NeedsPid /\ stage # "dispatch"
    PROVE  HandlersStay
BY HandlingStays DEF Goto

LEMMA DoneStays ==
    ASSUME TypeInv, NEW h \in Handlers, Done(h)
    PROVE  HandlersStay
BY HandlingStays DEF Done, Idle, NeedsPid

LEMMA SweepingStays ==
    ASSUME TypeInv, NEW h \in Handlers, NEW stage \in {"sweep", "sweepSusp"}, NEW d, NEW S,
           Become(h, Sweeping(stage, d, S))
    PROVE  HandlersStay
<1>1. Sweeping(stage, d, S).at = stage
    BY DEF Sweeping
<1> QED BY <1>1, BecomeStays DEF NeedsPid

LEMMA StartStays ==
    ASSUME TypeInv, NEW stage, NEW d, NEW p, Start(stage, d, p), stage \notin NeedsPid
    PROVE  HandlersStay
BY HandlingStays DEF Start

LEMMA AfterUnblockStays ==
    ASSUME TypeInv, NEW h \in Handlers, AfterUnblock(h)
    PROVE  HandlersStay
BY GotoStays, DoneStays DEF AfterUnblock, NeedsPid

LEMMA PlacesStep == TypeInv /\ PlacesInv /\ [Next]_vars => PlacesInv' /\ Steady
<1> SUFFICES ASSUME TypeInv, PlacesInv, [Next]_vars PROVE PlacesInv' /\ Steady
    OBVIOUS
<1> USE DEF pcbVars, poolVars, callVars, requestVars
<1>types. TypeOK
    BY DEF TypeInv
<1>places. OnePlace /\ ActiveIsNowhere /\ NoRepetitions /\ RequestsNoted
    BY DEF PlacesInv
<1>0. CASE UNCHANGED vars
    BY <1>0, SettledKeepsPlaces DEF Settled, HandlersStay, CallsEnd, vars
<1>1. ASSUME NEW p \in Procs, Request(p) PROVE PlacesInv' /\ Steady
    <2>1. Places(p) = {} /\ estado[p] = "ACTIVE" /\ estado'[p] # "ACTIVE"
        BY <1>1, <1>types, <1>places DEF Request, Move, TypeOK, ActiveIsNowhere
    <2>2. Moved(p, <<"call", p>>, <<"call", p>>)
        BY <1>1 DEF Request, Moved, InQueue
    <2>3. \A q \in Procs \ {p} : NoArrival(q) /\ estado'[q] = estado[q]
        BY <1>1, <1>types DEF Request, Move, NoArrival, InQueue, TypeOK
    <2>4. OnePlace' /\ ActiveIsNowhere' /\ Steady
        BY <2>1, <2>2, <2>3, <1>places, OneArrives
    <2>5. NoRepetitions' /\ RequestsNoted'
        BY <1>1, <1>types, <1>places
           DEF Request, NoRepetitions, RequestsNoted, InQueue, TypeOK
    <2> QED BY <2>4, <2>5 DEF PlacesInv
<1>2. ASSUME NEW p \in Procs, RefuseTime(p) PROVE PlacesInv' /\ Steady
    <2>1. Settled
        BY <1>2, <1>types DEF RefuseTime, Move, Settled, CallsEnd, HandlersStay, TypeOK
    <2>2. \A q \in Procs : estado'[q] = "ACTIVE" => estado[q] = "ACTIVE"
        BY <1>2, <1>types DEF RefuseTime, Move, TypeOK
    <2> QED BY <2>1, <2>2, SettledKeepsPlaces
<1>3. ASSUME NEW p \in Procs, GetFreeByName(p) PROVE PlacesInv' /\ Steady
    <2>1. Settled
        BY <1>3, <1>types DEF GetFreeByName, Settled, CallsEnd, HandlersStay, TypeOK
    <2>2. \A q \in Procs : estado'[q] = "ACTIVE" => estado[q] = "ACTIVE"
        BY <1>3, <1>types DEF GetFreeByName, TypeOK
    <2> QED BY <2>1, <2>2, SettledKeepsPlaces
<1>4. ASSUME NEW p \in Procs, RefuseUnknown(p) PROVE PlacesInv' /\ Steady
    <2>1. Settled
        BY <1>4, <1>types DEF RefuseUnknown, EndCall, Move, Settled, CallsEnd, HandlersStay, TypeOK
    <2>2. \A q \in Procs : estado'[q] = "ACTIVE" => estado[q] = "ACTIVE"
        BY <1>4, <1>types DEF RefuseUnknown, EndCall, Move, TypeOK
    <2> QED BY <2>1, <2>2, SettledKeepsPlaces
<1>5. ASSUME NEW p \in Procs, NoteRequest(p) PROVE PlacesInv' /\ Steady
    <2>1. /\ \A q \in Procs : NoArrival(q)
          /\ estado' = estado
        BY <1>5, <1>types DEF NoteRequest, NoArrival, InQueue, TypeOK
    <2>2. OnePlace' /\ ActiveIsNowhere' /\ Steady
        BY <2>1, <1>places, NobodyArrives
    <2>3. /\ \A n \in Names : ~InQueue(p, n)
          /\ \A h \in Handlers : handler[h].at = "dispatch" => handler[h].pid # p
        <3>1. <<"call", p>> \in Places(p)
            BY <1>5, PlacesKnown DEF NoteRequest
        <3>2. \A n \in Names : <<"queue", n>> \notin Places(p)
            BY <3>1, <1>places DEF OnePlace
        <3>3. \A h \in Handlers : <<"handler", h>> \notin Places(p)
            BY <3>1, <1>places DEF OnePlace
        <3> QED BY <3>2, <3>3, PlacesKnown DEF NeedsPid
    <2>4. NoRepetitions' /\ RequestsNoted'
        BY <1>5, <2>3, <1>types, <1>places
           DEF NoteRequest, NoRepetitions, RequestsNoted, InQueue, TypeOK
    <2> QED BY <2>2, <2>4 DEF PlacesInv
<1>6. ASSUME NEW p \in Procs, Enqueue(p) PROVE PlacesInv' /\ Steady
    <2>0. PICK n \in Names : n = asked[p]
        BY <1>6 DEF Enqueue, TypeInv, CallFields
    <2>1. waiting[n] \in Seq(Procs) /\ IsInjective(waiting[n])
        BY <1>types, <1>places DEF TypeOK, NoRepetitions
    <2>2. <<"call", p>> \in Places(p) /\ ~InQueue(p, n)
        <3>1. <<"call", p>> \in Places(p)
            BY <1>6, PlacesKnown DEF Enqueue
        <3>2. <<"queue", n>> \notin Places(p)
            BY <3>1, <1>places DEF OnePlace
        <3> QED BY <3>1, <3>2, <2>1, PlacesKnown
    <2>3. /\ IsInjective(waiting'[n])
          /\ \A q \in Procs : InQueue(q, n)' <=> InQueue(q, n) \/ q = p
        <3>1. waiting'[n] = Append(waiting[n], p)
            BY <1>6, <2>0, <1>types DEF Enqueue, TypeOK
        <3> QED BY <3>1, <2>1, <2>2, AppendKeeps DEF InQueue
    <2>4. \A m \in Names \ {n} : waiting'[m] = waiting[m]
        BY <1>6, <2>0, <1>types DEF Enqueue, TypeOK
    <2>5. \A q \in Procs \ {p} : NoArrival(q) /\ estado'[q] = estado[q]
        <3>1. \A q \in Procs \ {p}, m \in Names : InQueue(q, m)' => InQueue(q, m)
            BY <2>3, <2>4 DEF InQueue
        <3>2. /\ \A q \in Procs \ {p} : call'[q] = call[q]
              /\ UNCHANGED <<inflight, sleeping, failed, handler, estado>>
            BY <1>6, <1>types DEF Enqueue, EndCall, TypeOK
        <3> QED BY <3>1, <3>2 DEF NoArrival
    <2>6. Moved(p, <<"call", p>>, <<"queue", n>>)
        <3>1. /\ call'[p] = "none"
              /\ UNCHANGED <<inflight, sleeping, failed, handler>>
            BY <1>6, <1>types DEF Enqueue, EndCall, TypeOK
        <3>2. \A m \in Names : InQueue(p, m)' => InQueue(p, m) \/ m = n
            BY <2>4 DEF InQueue
        <3> QED BY <3>1, <3>2 DEF Moved
    <2>7. estado'[p] # "ACTIVE"
        BY <1>6, <2>2, <1>places DEF Enqueue, ActiveIsNowhere
    <2>8. OnePlace' /\ ActiveIsNowhere' /\ Steady
        BY <2>2, <2>5, <2>6, <2>7, <1>places, OneArrives
    <2>9. NoRepetitions'
        BY <2>1, <2>3, <2>4, <1>places DEF NoRepetitions
    <2>10. pendingReq'[p] = n /\ pendingReq' = pendingReq /\ handler' = handler
        BY <1>6, <2>0, <1>places DEF Enqueue, EndCall, RequestsNoted
    <2>11. \A q \in Procs : call'[q] = "enqueue" =>
              call[q] = "enqueue" /\ asked'[q] = asked[q]
        BY <1>6, <1>types DEF Enqueue, EndCall, TypeOK
    <2>12. RequestsNoted'
        <3>1. \A m \in Names, q \in Procs : InQueue(q, m)' =>
                 InQueue(q, m) \/ (m = n /\ q = p)
            BY <2>3, <2>4 DEF InQueue
        <3> QED BY <3>1, <2>10, <2>11, <1>places DEF RequestsNoted
    <2> QED BY <2>8, <2>9, <2>12 DEF PlacesInv
<1>7. ASSUME NEW p \in Procs, Assign(p) PROVE PlacesInv' /\ Steady
    <2>0. PICK d \in Devices : d = callDev[p]
        BY <1>7 DEF Assign, TypeInv, CallFields
    <2>1. /\ <<"call", p>> \in Places(p)
          /\ call' = [call EXCEPT ![p] = "none"]
          /\ inflight' = inflight \union {<<p, d>>}
          /\ UNCHANGED <<waiting, sleeping, failed, handler, estado, pendingReq>>
          /\ asked' = [asked EXCEPT ![p] = NoName]
        BY <1>7, <2>0, PlacesKnown DEF Assign, EndCall, DispatchToDevice
    <2>2. \A q \in Procs \ {p} : NoArrival(q) /\ estado'[q] = estado[q]
        BY <2>1, <1>types DEF NoArrival, InQueue, TypeOK
    <2>3. Moved(p, <<"call", p>>, <<"sent", d>>)
        <3>1. /\ call'[p] = "none"
              /\ \A n \in Names : InQueue(p, n)' => InQueue(p, n)
              /\ \A e \in Devices : <<p, e>> \in inflight' => <<p, e>> \in inflight \/ e = d
            BY <2>1, <1>types DEF InQueue, TypeOK
        <3> QED BY <3>1, <2>1 DEF Moved
    <2>4. estado'[p] # "ACTIVE"
        BY <2>1, <1>places DEF ActiveIsNowhere
    <2>5. OnePlace' /\ ActiveIsNowhere' /\ Steady
        BY <2>1, <2>2, <2>3, <2>4, <1>places, OneArrives
    <2>6. NoRepetitions' /\ RequestsNoted'
        BY <2>1, <1>types, <1>places
           DEF NoRepetitions, RequestsNoted, InQueue, TypeOK
    <2> QED BY <2>5, <2>6 DEF PlacesInv
<1>8. ASSUME NEW p \in Procs, SuspendOut(p) \/ SuspendIn(p) PROVE PlacesInv' /\ Steady
    <2>1. Settled
        BY <1>8, <1>types DEF SuspendOut, SuspendIn, Move, Settled, CallsEnd, HandlersStay, TypeOK
    <2>2. \A q \in Procs : estado'[q] = "ACTIVE" => estado[q] = "ACTIVE"
        BY <1>8, <1>types DEF SuspendOut, SuspendIn, Move, TypeOK
    <2> QED BY <2>1, <2>2, SettledKeepsPlaces
<1>9. ASSUME NEW p \in Procs, EndFailed(p) PROVE PlacesInv' /\ Steady
    <2>1. Settled
        BY <1>9, <1>types DEF EndFailed, Move, Settled, CallsEnd, HandlersStay, TypeOK
    <2>2. \A q \in Procs : estado'[q] = "ACTIVE" => estado[q] = "ACTIVE"
        BY <1>9, <1>types DEF EndFailed, Move, TypeOK
    <2> QED BY <2>1, <2>2, SettledKeepsPlaces
<1>10. ASSUME NEW p \in Procs, NEW d \in Devices, Accept(p, d) PROVE PlacesInv' /\ Steady
    <2>1. /\ <<"sent", d>> \in Places(p)
          /\ inflight' = inflight \ {<<p, d>>}
          /\ sleeping' = sleeping \union {<<p, d>>}
          /\ UNCHANGED <<waiting, call, asked, failed, handler, estado, pendingReq>>
        BY <1>10, PlacesKnown DEF Accept
    <2>2. \A q \in Procs \ {p} : NoArrival(q) /\ estado'[q] = estado[q]
        BY <2>1 DEF NoArrival, InQueue
    <2>3. Moved(p, <<"sent", d>>, <<"sleep", d>>)
        <3>1. /\ \A n \in Names : InQueue(p, n)' => InQueue(p, n)
              /\ \A e \in Devices : <<p, e>> \in inflight' => <<p, e>> \in inflight /\ e # d
              /\ \A e \in Devices : <<p, e>> \in sleeping' => <<p, e>> \in sleeping \/ e = d
            BY <2>1 DEF InQueue
        <3> QED BY <3>1, <2>1 DEF Moved
    <2>4. estado'[p] # "ACTIVE"
        BY <2>1, <1>places DEF ActiveIsNowhere
    <2>5. OnePlace' /\ ActiveIsNowhere' /\ Steady
        BY <2>1, <2>2, <2>3, <2>4, <1>places, OneArrives
    <2>6. NoRepetitions' /\ RequestsNoted'
        BY <2>1, <1>places DEF NoRepetitions, RequestsNoted, InQueue
    <2> QED BY <2>5, <2>6 DEF PlacesInv
<1>11. ASSUME NEW p \in Procs, NEW d \in Devices, RequestFails(p, d) PROVE PlacesInv' /\ Steady
    <2>1. /\ <<"sent", d>> \in Places(p)
          /\ inflight' = inflight \ {<<p, d>>}
          /\ failed' = failed \union {p}
          /\ UNCHANGED <<waiting, call, asked, sleeping, handler, estado, pendingReq>>
        BY <1>11, PlacesKnown DEF RequestFails
    <2>2. \A q \in Procs \ {p} : NoArrival(q) /\ estado'[q] = estado[q]
        BY <2>1 DEF NoArrival, InQueue
    <2>3. Moved(p, <<"sent", d>>, <<"failed", p>>)
        <3>1. /\ \A n \in Names : InQueue(p, n)' => InQueue(p, n)
              /\ \A e \in Devices : <<p, e>> \in inflight' => <<p, e>> \in inflight /\ e # d
            BY <2>1 DEF InQueue
        <3> QED BY <3>1, <2>1 DEF Moved
    <2>4. estado'[p] # "ACTIVE"
        BY <2>1, <1>places DEF ActiveIsNowhere
    <2>5. OnePlace' /\ ActiveIsNowhere' /\ Steady
        BY <2>1, <2>2, <2>3, <2>4, <1>places, OneArrives
    <2>6. NoRepetitions' /\ RequestsNoted'
        BY <2>1, <1>places DEF NoRepetitions, RequestsNoted, InQueue
    <2> QED BY <2>5, <2>6 DEF PlacesInv
<1>12. ASSUME NEW p \in Procs, NEW d \in Devices, Wake(p, d) PROVE PlacesInv' /\ Steady
    <2>0. PICK h \in Handlers : handler[h] = Idle /\ Become(h, Handling("free", d, p))
        BY <1>12 DEF Wake, Start
    <2>1. /\ <<"sleep", d>> \in Places(p)
          /\ sleeping' = sleeping \ {<<p, d>>}
          /\ UNCHANGED <<waiting, call, asked, inflight, failed, estado, pendingReq>>
        BY <1>12, PlacesKnown DEF Wake
    <2>2. /\ \A k \in Handlers \ {h} : handler'[k] = handler[k]
          /\ handler'[h].pid = p /\ handler'[h].at = "free"
        BY <2>0, <1>types DEF Become, Handling, TypeOK
    <2>3. \A q \in Procs \ {p} : NoArrival(q) /\ estado'[q] = estado[q]
        BY <2>1, <2>2 DEF NoArrival, InQueue
    <2>4. Moved(p, <<"sleep", d>>, <<"handler", h>>)
        <3>1. /\ \A n \in Names : InQueue(p, n)' => InQueue(p, n)
              /\ \A e \in Devices : <<p, e>> \in sleeping' => <<p, e>> \in sleeping /\ e # d
            BY <2>1 DEF InQueue
        <3> QED BY <3>1, <2>1, <2>2 DEF Moved
    <2>5. estado'[p] # "ACTIVE"
        BY <2>1, <1>places DEF ActiveIsNowhere
    <2>6. OnePlace' /\ ActiveIsNowhere' /\ Steady
        BY <2>1, <2>3, <2>4, <2>5, <1>places, OneArrives
    <2>7. NoRepetitions' /\ RequestsNoted'
        BY <2>1, <2>2, <1>places DEF NoRepetitions, RequestsNoted, InQueue
    <2> QED BY <2>6, <2>7 DEF PlacesInv
<1>13. ASSUME NEW d \in Devices, Connect(d) PROVE PlacesInv' /\ Steady
    <2>1. Settled
        BY <1>13, <1>types, StartStays DEF Connect, Settled, CallsEnd, NeedsPid
    <2>2. \A q \in Procs : estado'[q] = "ACTIVE" => estado[q] = "ACTIVE"
        BY <1>13, <1>types DEF Connect, TypeOK
    <2> QED BY <2>1, <2>2, SettledKeepsPlaces
<1>14. ASSUME NEW d \in Devices, Stop(d) PROVE PlacesInv' /\ Steady
    <2>1. Settled
        BY <1>14, <1>types, StartStays DEF Stop, Settled, CallsEnd, NeedsPid
    <2>2. \A q \in Procs : estado'[q] = "ACTIVE" => estado[q] = "ACTIVE"
        BY <1>14, <1>types DEF Stop, TypeOK
    <2> QED BY <2>1, <2>2, SettledKeepsPlaces
<1>15. ASSUME NEW d \in Devices, Exit(d) PROVE PlacesInv' /\ Steady
    <2>1. Settled
        BY <1>15, <1>types DEF Exit, Settled, CallsEnd, HandlersStay, TypeOK
    <2>2. \A q \in Procs : estado'[q] = "ACTIVE" => estado[q] = "ACTIVE"
        BY <1>15, <1>types DEF Exit, TypeOK
    <2> QED BY <2>1, <2>2, SettledKeepsPlaces
<1>16. ASSUME NEW h \in Handlers, FinishFree(h) PROVE PlacesInv' /\ Steady
    <2>1. Settled
        BY <1>16, <1>types, HandlingStays DEF FinishFree, Settled, CallsEnd, NeedsPid
    <2>2. \A q \in Procs : estado'[q] = "ACTIVE" => estado[q] = "ACTIVE"
        BY <1>16, <1>types DEF FinishFree, TypeOK
    <2> QED BY <2>1, <2>2, SettledKeepsPlaces
<1>17. ASSUME NEW h \in Handlers, FinishFind(h) \/ FinishFindSuspended(h) PROVE PlacesInv' /\ Steady
    <2>1. Settled
        BY <1>17, <1>types, GotoStays, AfterUnblockStays DEF FinishFind, FinishFindSuspended, Settled, CallsEnd, NeedsPid
    <2>2. \A q \in Procs : estado'[q] = "ACTIVE" => estado[q] = "ACTIVE"
        BY <1>17, <1>types DEF FinishFind, FinishFindSuspended, TypeOK
    <2> QED BY <2>1, <2>2, SettledKeepsPlaces
<1>18. ASSUME NEW h \in Handlers, FinishMove(h) PROVE PlacesInv' /\ Steady
    <2>0. PICK p \in Procs : p = handler[h].pid
        BY <1>18, HandlerTypes DEF FinishMove, NeedsPid
    <2>1. Settled
        BY <1>18, AfterUnblockStays DEF FinishMove, Settled, CallsEnd
    <2>2. <<"handler", h>> \in Places(p)
        BY <1>18, <2>0, PlacesKnown DEF FinishMove, NeedsPid
    <2>3. <<"handler", h>> \notin Places(p)'
        <3>1. handler'[h].at \notin NeedsPid
            BY <1>18, <1>types
               DEF FinishMove, AfterUnblock, Goto, Done, Become, Handling, Idle,
                   NeedsPid, TypeOK
        <3> QED BY <3>1 DEF Places
    <2>4. Places(p)' = {}
        BY <2>1, <2>2, <2>3, <1>places, SettledNoArrival, LeavesLastPlace
    <2>5. \A q \in Procs : estado'[q] = "ACTIVE" => estado[q] = "ACTIVE" \/ Places(q)' = {}
        BY <1>18, <2>0, <2>4, <1>types DEF FinishMove, Move, TypeOK
    <2> QED BY <2>1, <2>5, SettledKeepsPlaces
<1>19. ASSUME NEW h \in Handlers, Try(h) PROVE PlacesInv' /\ Steady
    <2>1. Settled
        BY <1>19, <1>types, HandlingStays, DoneStays DEF Try, Settled, CallsEnd, NeedsPid
    <2>2. \A q \in Procs : estado'[q] = "ACTIVE" => estado[q] = "ACTIVE"
        BY <1>19, <1>types DEF Try, TypeOK
    <2> QED BY <2>1, <2>2, SettledKeepsPlaces
<1>20. ASSUME NEW h \in Handlers, Dequeue(h) PROVE PlacesInv' /\ Steady
    <2>0. PICK n \in Names : n = NameOf[handler[h].port]
        BY <1>20, HandlerTypes, NamesAssumption
           DEF Dequeue, NeedsPort, HandlerStages, TryStages
    <2>1. waiting[n] \in Seq(Procs) /\ IsInjective(waiting[n])
        BY <1>types, <1>places DEF TypeOK, NoRepetitions
    <2>2. CASE waiting[n] = <<>>
        <3>1. Settled
            BY <1>20, <2>0, <2>2, GotoStays DEF Dequeue, Settled, CallsEnd, NeedsPid
        <3> QED BY <1>20, <3>1, SettledKeepsPlaces DEF Dequeue
    <2>3. CASE waiting[n] # <<>>
        <3>0. PICK p \in Procs : p = Head(waiting[n])
            BY <2>1, <2>3, TailKeeps
        <3>1. /\ InQueue(p, n)
              /\ IsInjective(Tail(waiting[n]))
              /\ \A q : Contains(Tail(waiting[n]), q) <=> Contains(waiting[n], q) /\ q # p
            BY <3>0, <2>1, <2>3, TailKeeps DEF InQueue
        <3>2. /\ Become(h, Handling("dispatch", handler[h].port, p))
              /\ UNCHANGED <<call, asked, inflight, sleeping, failed, estado, pendingReq>>
            BY <1>20, <2>0, <2>3, <3>0 DEF Dequeue
        <3>3. /\ waiting'[n] = Tail(waiting[n])
              /\ \A m \in Names \ {n} : waiting'[m] = waiting[m]
            <4>1. waiting \in [Names -> Seq(Procs)]
                BY <1>types DEF TypeOK
            <4>2. waiting' = [waiting EXCEPT ![n] = Tail(waiting[n])]
                BY <1>20, <2>0, <2>3 DEF Dequeue
            <4> QED BY ONLY <4>1, <4>2
        <3>4. /\ \A k \in Handlers \ {h} : handler'[k] = handler[k]
              /\ handler'[h].pid = p /\ handler'[h].at = "dispatch"
            BY <3>2, <1>types DEF Become, Handling, TypeOK
        <3>5. \A q \in Procs, m \in Names : InQueue(q, m)' <=>
                 InQueue(q, m) /\ ~(q = p /\ m = n)
            BY <3>1, <3>3 DEF InQueue
        <3>6. \A q \in Procs \ {p} : NoArrival(q) /\ estado'[q] = estado[q]
            BY <3>2, <3>4, <3>5 DEF NoArrival
        <3>7. <<"queue", n>> \in Places(p)
            BY <3>1, <2>1, PlacesKnown
        <3>8. Moved(p, <<"queue", n>>, <<"handler", h>>)
            BY <3>1, <3>2, <3>4, <3>5 DEF Moved
        <3>9. estado'[p] # "ACTIVE"
            BY <3>1, <3>2, <3>7, <1>places DEF ActiveIsNowhere
        <3>10. OnePlace' /\ ActiveIsNowhere' /\ Steady
            BY <3>1, <3>6, <3>7, <3>8, <3>9, <1>places, OneArrives
        <3>11. NoRepetitions'
            BY <3>1, <3>3, <1>places DEF NoRepetitions
        <3>12. pendingReq[p] # NoName
            BY <3>1, <2>1, <1>places, NamesAssumption DEF RequestsNoted
        <3>13. RequestsNoted'
            BY <3>2, <3>4, <3>5, <3>12, <1>places DEF RequestsNoted
        <3> QED BY <3>10, <3>11, <3>13 DEF PlacesInv
    <2> QED BY <2>2, <2>3
<1>21. ASSUME NEW h \in Handlers, GiveBack(h) PROVE PlacesInv' /\ Steady
    <2>1. Settled
        BY <1>21, <1>types, DoneStays DEF GiveBack, Settled, CallsEnd, NeedsPid
    <2>2. \A q \in Procs : estado'[q] = "ACTIVE" => estado[q] = "ACTIVE"
        BY <1>21, <1>types DEF GiveBack, TypeOK
    <2> QED BY <2>1, <2>2, SettledKeepsPlaces
<1>22. ASSUME NEW h \in Handlers, Dispatch(h) PROVE PlacesInv' /\ Steady
    <2>0. PICK p \in Procs, d \in Devices : p = handler[h].pid /\ d = handler[h].port
        BY <1>22, HandlerTypes DEF Dispatch, NeedsPort, NeedsPid, HandlerStages, TryStages
    <2>1. /\ <<"handler", h>> \in Places(p)
          /\ pendingReq[p] # NoName
          /\ UNCHANGED <<waiting, call, asked, sleeping, failed, estado>>
          /\ inflight' = inflight \union {<<p, d>>}
          /\ pendingReq' = [pendingReq EXCEPT ![p] = NoName]
        BY <1>22, <2>0, <1>places, PlacesKnown
           DEF Dispatch, DispatchToDevice, RequestsNoted, NeedsPid
    <2>2. /\ \A k \in Handlers \ {h} : handler'[k] = handler[k]
          /\ handler'[h].at = "idle"
        BY <1>22, <1>types DEF Dispatch, Done, Become, Idle, Handling, TypeOK
    <2>3. \A q \in Procs \ {p} : NoArrival(q) /\ estado'[q] = estado[q]
        BY <2>1, <2>2 DEF NoArrival, InQueue, NeedsPid
    <2>4. Moved(p, <<"handler", h>>, <<"sent", d>>)
        <3>1. /\ \A n \in Names : InQueue(p, n)' => InQueue(p, n)
              /\ \A e \in Devices : <<p, e>> \in inflight' => <<p, e>> \in inflight \/ e = d
            BY <2>1 DEF InQueue
        <3> QED BY <3>1, <2>1, <2>2 DEF Moved, NeedsPid
    <2>5. estado'[p] # "ACTIVE"
        BY <2>1, <1>places DEF ActiveIsNowhere
    <2>6. OnePlace' /\ ActiveIsNowhere' /\ Steady
        BY <2>1, <2>3, <2>4, <2>5, <1>places, OneArrives
    <2>7. /\ \A n \in Names : ~InQueue(p, n)
          /\ call[p] = "none"
          /\ \A k \in Handlers \ {h} : handler[k].at = "dispatch" => handler[k].pid # p
        <3>1. \A u \in Places(p) : u = <<"handler", h>>
            BY <2>1, <1>places DEF OnePlace
        <3>2. /\ <<"call", p>> # <<"handler", h>>
              /\ \A n : <<"queue", n>> # <<"handler", h>>
              /\ \A k \in Handlers \ {h} : <<"handler", k>> # <<"handler", h>>
            OBVIOUS
        <3>3. call[p] = "none" /\ \A n \in Names : ~InQueue(p, n)
            BY <3>1, <3>2, PlacesKnown
        <3> QED BY <3>1, <3>2, <3>3, PlacesKnown DEF NeedsPid
    <2>8. NoRepetitions' /\ RequestsNoted'
        BY SMTT(20), <2>1, <2>2, <2>7, <1>types, <1>places
           DEF NoRepetitions, RequestsNoted, InQueue, TypeOK
    <2> QED BY <2>6, <2>8 DEF PlacesInv
<1>23. ASSUME NEW h \in Handlers, ReadPid(h) PROVE PlacesInv' /\ Steady
    <2>1. Settled
        BY <1>23, <1>types, HandlingStays DEF ReadPid, Settled, CallsEnd, NeedsPid
    <2>2. \A q \in Procs : estado'[q] = "ACTIVE" => estado[q] = "ACTIVE"
        BY <1>23, <1>types DEF ReadPid, TypeOK
    <2> QED BY <2>1, <2>2, SettledKeepsPlaces
<1>24. ASSUME NEW h \in Handlers, FindExecuting(h) \/ KillExecuting(h) PROVE PlacesInv' /\ Steady
    <2>1. Settled
        BY <1>24, <1>types, GotoStays DEF FindExecuting, KillExecuting, Move, Settled, CallsEnd, NeedsPid
    <2>2. \A q \in Procs : estado'[q] = "ACTIVE" => estado[q] = "ACTIVE"
        BY <1>24, <1>types DEF FindExecuting, KillExecuting, Move, TypeOK
    <2> QED BY <2>1, <2>2, SettledKeepsPlaces
<1>25. ASSUME NEW h \in Handlers, RemoveByPort(h) PROVE PlacesInv' /\ Steady
    <2>1. Settled
        BY <1>25, <1>types, GotoStays DEF RemoveByPort, Settled, CallsEnd, NeedsPid
    <2>2. \A q \in Procs : estado'[q] = "ACTIVE" => estado[q] = "ACTIVE"
        BY <1>25, <1>types DEF RemoveByPort, TypeOK
    <2> QED BY <2>1, <2>2, SettledKeepsPlaces
<1>26. ASSUME NEW h \in Handlers, CheckRemaining(h) PROVE PlacesInv' /\ Steady
    <2>1. Settled
        BY <1>26, <1>types, GotoStays, DoneStays DEF CheckRemaining, Answer, Settled, CallsEnd, NeedsPid
    <2>2. \A q \in Procs : estado'[q] = "ACTIVE" => estado[q] = "ACTIVE"
        BY <1>26, <1>types DEF CheckRemaining, Answer, TypeOK
    <2> QED BY <2>1, <2>2, SettledKeepsPlaces
<1>27. ASSUME NEW h \in Handlers, Drain(h) PROVE PlacesInv' /\ Steady
    <2>0. PICK n \in Names : n = NameOf[handler[h].port]
        BY <1>27, HandlerTypes, NamesAssumption
           DEF Drain, NeedsPort, HandlerStages, DisconnectStages
    <2>1. waiting[n] \in Seq(Procs) /\ IsInjective(waiting[n])
        BY <1>types, <1>places DEF TypeOK, NoRepetitions
    <2>2. CASE waiting[n] = <<>>
        <3>1. Settled
            BY <1>27, <2>0, <2>2, GotoStays DEF Drain, Settled, CallsEnd, NeedsPid
        <3> QED BY <1>27, <3>1, SettledKeepsPlaces DEF Drain
    <2>3. CASE waiting[n] # <<>>
        <3>1. /\ IsInjective(Tail(waiting[n]))
              /\ \A q : Contains(Tail(waiting[n]), q) => Contains(waiting[n], q)
            BY <2>1, <2>3, TailKeeps
        <3>2. /\ Become(h, Handling("drainKill", handler[h].port, Head(waiting[n])))
              /\ UNCHANGED <<call, asked, inflight, sleeping, failed, estado, pendingReq>>
            BY <1>27, <2>0, <2>3 DEF Drain
        <3>3. /\ waiting'[n] = Tail(waiting[n])
              /\ \A m \in Names \ {n} : waiting'[m] = waiting[m]
            <4>1. waiting \in [Names -> Seq(Procs)]
                BY <1>types DEF TypeOK
            <4>2. waiting' = [waiting EXCEPT ![n] = Tail(waiting[n])]
                BY <1>27, <2>0, <2>3 DEF Drain
            <4> QED BY ONLY <4>1, <4>2
        <3>4. HandlersStay
            BY <3>2, HandlingStays DEF NeedsPid
        <3>5. \A q \in Procs, m \in Names : InQueue(q, m)' => InQueue(q, m)
            BY <3>1, <3>3 DEF InQueue
        <3>6. \A q \in Procs : NoArrival(q)
            BY <3>2, <3>4, <3>5 DEF NoArrival, HandlersStay
        <3>7. OnePlace' /\ ActiveIsNowhere' /\ Steady
            BY <3>2, <3>6, <1>places, NobodyArrives
        <3>8. NoRepetitions'
            BY <3>1, <3>3, <1>places DEF NoRepetitions
        <3>9. RequestsNoted'
            BY <3>2, <3>4, <3>5, <1>places DEF RequestsNoted, HandlersStay, NeedsPid
        <3> QED BY <3>7, <3>8, <3>9 DEF PlacesInv
    <2> QED BY <2>2, <2>3
<1>28. ASSUME NEW h \in Handlers, KillWaiting(h) PROVE PlacesInv' /\ Steady
    <2>1. Settled
        BY <1>28, <1>types, GotoStays DEF KillWaiting, Move, Settled, CallsEnd, NeedsPid
    <2>2. \A q \in Procs : estado'[q] = "ACTIVE" => estado[q] = "ACTIVE"
        BY <1>28, <1>types DEF KillWaiting, Move, TypeOK
    <2> QED BY <2>1, <2>2, SettledKeepsPlaces
<1>29. ASSUME NEW h \in Handlers, Scan(h) PROVE PlacesInv' /\ Steady
    <2>1. Settled
        BY <1>29, <1>types, SweepingStays DEF Scan, Settled, CallsEnd, NeedsPid
    <2>2. \A q \in Procs : estado'[q] = "ACTIVE" => estado[q] = "ACTIVE"
        BY <1>29, <1>types DEF Scan, TypeOK
    <2> QED BY <2>1, <2>2, SettledKeepsPlaces
<1>30. ASSUME NEW h \in Handlers, Sweep(h) PROVE PlacesInv' /\ Steady
    <2>1. Settled
        BY <1>30, <1>types, SweepingStays DEF Sweep, Move, Settled, CallsEnd, NeedsPid
    <2>2. \A q \in Procs : estado'[q] = "ACTIVE" => estado[q] = "ACTIVE"
        BY <1>30, <1>types DEF Sweep, Move, TypeOK
    <2> QED BY <2>1, <2>2, SettledKeepsPlaces
<1>31. ASSUME NEW h \in Handlers, EndSweep(h) PROVE PlacesInv' /\ Steady
    <2>1. Settled
        BY <1>31, <1>types, GotoStays, DoneStays DEF EndSweep, Answer, Settled, CallsEnd, NeedsPid
    <2>2. \A q \in Procs : estado'[q] = "ACTIVE" => estado[q] = "ACTIVE"
        BY <1>31, <1>types DEF EndSweep, Answer, TypeOK
    <2> QED BY <2>1, <2>2, SettledKeepsPlaces
<1>32. QED
    BY <1>0, <1>1, <1>2, <1>3, <1>4, <1>5, <1>6, <1>7, <1>8, <1>9, <1>10,
       <1>11, <1>12, <1>13, <1>14, <1>15, <1>16, <1>17, <1>18, <1>19, <1>20,
       <1>21, <1>22, <1>23, <1>24, <1>25, <1>26, <1>27, <1>28, <1>29, <1>30,
       <1>31
       DEF Next, Syscall, Sending, Handle, Finishing, Trying, Disconnecting

LEMMA AlwaysPlaces == Spec => [](TypeInv /\ PlacesInv)
BY InitTypeInv, TypeInvStep, InitPlaces, PlacesStep, PTL DEF Spec

LEMMA ServingHasPlace ==
    ASSUME NEW p \in Procs, Serving(p)
    PROVE  \E u \in Places(p) : \A n : u # <<"queue", n>>
<1>1. CASE call[p] # "none"
    BY <1>1, PlacesKnown
<1>2. ASSUME NEW d \in Devices, <<p, d>> \in inflight \union sleeping
      PROVE  \E u \in Places(p) : \A n : u # <<"queue", n>>
    BY <1>2, PlacesKnown
<1>3. ASSUME NEW h \in Handlers, handler[h].at = "dispatch" /\ handler[h].pid = p
      PROVE  \E u \in Places(p) : \A n : u # <<"queue", n>>
    <2>1. <<"handler", h>> \in Places(p)
        BY <1>3, PlacesKnown DEF NeedsPid
    <2> QED BY <2>1
<1> QED BY <1>1, <1>2, <1>3 DEF Serving

(* A process waits for one thing: it is in one queue at most, once, its    *)
(* PCB names that queue, and nobody serves it there, whatever modules stop *)
(* or die and whichever processes they end (QueuedOnce).                   *)
THEOREM QueuedProcesses == Spec => []QueuedOnce
<1>1. ASSUME PlacesInv PROVE QueuedOnce
    <2> SUFFICES ASSUME NEW n \in Names
                 PROVE  /\ IsInjective(waiting[n])
                        /\ \A p \in Procs : InQueue(p, n) =>
                              /\ pendingReq[p] = n
                              /\ ~Serving(p)
                              /\ \A m \in Names \ {n} : ~InQueue(p, m)
        BY DEF QueuedOnce
    <2>1. IsInjective(waiting[n])
        BY <1>1 DEF PlacesInv, NoRepetitions
    <2>2. ASSUME NEW p \in Procs, InQueue(p, n)
          PROVE  /\ pendingReq[p] = n
                 /\ ~Serving(p)
                 /\ \A m \in Names \ {n} : ~InQueue(p, m)
        <3>1. \A u \in Places(p) : u = <<"queue", n>>
            BY <1>1, <2>2, PlacesKnown DEF PlacesInv, OnePlace
        <3>2. pendingReq[p] = n
            BY <1>1, <2>2 DEF PlacesInv, RequestsNoted
        <3>3. ~Serving(p)
            BY <3>1, ServingHasPlace
        <3>4. \A m \in Names \ {n} : ~InQueue(p, m)
            BY <3>1, PlacesKnown
        <3> QED BY <3>2, <3>3, <3>4
    <2> QED BY <2>1, <2>2
<1> QED BY AlwaysPlaces, <1>1, PTL

(* Only the end of an I/O makes a blocked process active.                  *)
LEMMA OnlyFinishWakes ==
    ASSUME TypeInv, [Next]_vars, NEW p \in Procs,
           estado[p] # "ACTIVE", estado'[p] = "ACTIVE"
    PROVE  \E h \in Handlers : handler[h].at = "toReady" /\ handler[h].pid = p
<1> USE DEF pcbVars
<1>types. TypeOK
    BY DEF TypeInv
<1>1. ~UNCHANGED vars
    BY DEF vars
<1>2. ASSUME NEW q \in Procs, \/ Request(q) \/ RefuseTime(q) \/ Syscall(q)
                              \/ SuspendOut(q) \/ SuspendIn(q) \/ EndFailed(q)
      PROVE  FALSE
    BY <1>2, <1>types
       DEF Request, RefuseTime, Syscall, SuspendOut, SuspendIn, EndFailed, GetFreeByName,
           RefuseUnknown, NoteRequest, Enqueue, Assign, Move, TypeOK
<1>3. ASSUME NEW q \in Procs, NEW d \in Devices, Sending(q, d) \/ Wake(q, d)
      PROVE  FALSE
    BY <1>3 DEF Sending, Accept, RequestFails, Wake
<1>4. ASSUME NEW d \in Devices, Connect(d) \/ Stop(d) \/ Exit(d)
      PROVE  FALSE
    BY <1>4 DEF Connect, Stop, Exit
<1>5. ASSUME NEW h \in Handlers, Disconnecting(h) \/ Trying(h)
      PROVE  FALSE
    BY <1>5, <1>types
       DEF Disconnecting, ReadPid, FindExecuting, KillExecuting, RemoveByPort, CheckRemaining,
           Drain, KillWaiting, Scan, Sweep, EndSweep, Trying, Try, Dequeue,
           GiveBack, Dispatch, Move, TypeOK
<1>6. ASSUME NEW h \in Handlers, Finishing(h)
      PROVE  handler[h].at = "toReady" /\ handler[h].pid = p
    BY <1>6, <1>types
       DEF Finishing, FinishFree, FinishFind, FinishFindSuspended, FinishMove, Move, TypeOK
<1> QED BY <1>1, <1>2, <1>3, <1>4, <1>5, <1>6 DEF Next, Handle

(* No process leaves its wait while its I/O is still queued or served: the *)
(* handler that moves it is the only place it is in (NoEarlyWakeup).       *)
THEOREM NoWakeupIsEarly == Spec => NoEarlyWakeup
<1> DEFINE Wakes(p) == estado[p] # "ACTIVE" /\ estado'[p] = "ACTIVE"
           Rested(p) == ~Serving(p) /\ \A n \in Names : ~InQueue(p, n)
<1>1. ASSUME TypeInv, PlacesInv, [Next]_vars, NEW p \in Procs, Wakes(p)
      PROVE  Rested(p)
    <2>1. PICK h \in Handlers : handler[h].at = "toReady" /\ handler[h].pid = p
        BY <1>1, OnlyFinishWakes
    <2>2. <<"handler", h>> \in Places(p)
        BY <2>1, PlacesKnown DEF NeedsPid
    <2>3. \A u \in Places(p) : u = <<"handler", h>>
        BY <1>1, <2>2 DEF PlacesInv, OnePlace
    <2>4. \A n \in Names : ~InQueue(p, n)
        BY <2>3, PlacesKnown
    <2>5. call[p] = "none" /\ \A d \in Devices : <<p, d>> \notin inflight \union sleeping
        BY <2>3, PlacesKnown
    <2>6. \A k \in Handlers : ~(handler[k].at = "dispatch" /\ handler[k].pid = p)
        <3> SUFFICES ASSUME NEW k \in Handlers, handler[k].at = "dispatch",
                            handler[k].pid = p
                     PROVE  FALSE
            OBVIOUS
        <3>1. <<"handler", k>> \in Places(p)
            BY PlacesKnown DEF NeedsPid
        <3> QED BY <3>1, <2>1, <2>3
    <2> QED BY <2>4, <2>5, <2>6 DEF Serving
<1>2. TypeInv /\ PlacesInv /\ [Next]_vars => [\A p \in Procs : Wakes(p) => Rested(p)]_vars
    BY <1>1
<1>3. Spec => [][\A p \in Procs : Wakes(p) => Rested(p)]_vars
    <2> HIDE DEF Wakes, Rested
    <2> QED BY AlwaysPlaces, <1>2, PTL DEF Spec
<1> QED BY <1>3 DEF NoEarlyWakeup
-----------------------------------------------------------------------------
(* The end of a device's use is the end of its process's wait: whoever     *)
(* uses a device is the process it is labelled with.                       *)
LabelsAreRight ==
    \A p \in Procs, d \in Devices :
        <<p, d>> \in inflight \union sleeping => devPid[d] = p

(* A device says goodbye once, and is in the pool until its handler takes  *)
(* it out.                                                                 *)
OneGoodbye ==
    /\ \A h \in Handlers : handler[h].at \in DisconnectStages =>
          module[handler[h].port] = "stopping"
    /\ \A h, k \in Handlers :
          /\ handler[h].at \in DisconnectStages /\ handler[k].at \in DisconnectStages
          /\ handler[h].port = handler[k].port
          => h = k
    /\ \A d \in Devices : module[d] = "up" => d \in registered
    /\ \A h \in Handlers : handler[h].at \in {"readPid", "kill", "end", "remove"} =>
          handler[h].port \in registered

LeavingStages == {"readPid", "kill", "end", "remove"}

LEMMA InitGoodbye == Init => OneGoodbye /\ LabelsAreRight
BY DEF Init, OneGoodbye, LabelsAreRight, Idle, Handling, DisconnectStages

(* What most steps have in common: no device starts or ends its goodbye.   *)
HandlersPart ==
    \A h \in Handlers : handler'[h].at \in DisconnectStages =>
        /\ handler[h].at \in DisconnectStages
        /\ handler'[h].port = handler[h].port
        /\ handler'[h].at \in LeavingStages => handler[h].at \in LeavingStages

LEMMA KeepsGoodbye ==
    ASSUME TypeInv, OneGoodbye, HandlersPart, registered' = registered,
           \A d \in Devices : module[d] = "stopping" => module'[d] = "stopping",
           \A d \in Devices : module'[d] = "up" => module[d] = "up"
    PROVE  OneGoodbye'
<1>1. \A h \in Handlers : handler[h].at \in DisconnectStages => handler[h].port \in Devices
    BY HandlerTypes DEF NeedsPort, HandlerStages, DisconnectStages
<1> QED BY <1>1 DEF OneGoodbye, HandlersPart, LeavingStages, DisconnectStages

LEMMA BecomeParts ==
    ASSUME TypeInv, NEW h \in Handlers, NEW r, Become(h, r),
           r.at \in DisconnectStages =>
              /\ handler[h].at \in DisconnectStages
              /\ r.port = handler[h].port
              /\ r.at \in LeavingStages => handler[h].at \in LeavingStages
    PROVE  HandlersPart
BY DEF Become, HandlersPart, TypeInv, TypeOK

LEMMA HandlingParts ==
    ASSUME TypeInv, NEW h \in Handlers, NEW stage, NEW d, NEW p,
           Become(h, Handling(stage, d, p)),
           stage \in DisconnectStages =>
              /\ handler[h].at \in DisconnectStages
              /\ d = handler[h].port
              /\ stage \in LeavingStages => handler[h].at \in LeavingStages
    PROVE  HandlersPart
<1>1. Handling(stage, d, p).at = stage /\ Handling(stage, d, p).port = d
    BY DEF Handling
<1> QED BY <1>1, BecomeParts

LEMMA GotoParts ==
    ASSUME TypeInv, NEW h \in Handlers, NEW stage, Goto(h, stage),
           stage \in DisconnectStages =>
              /\ handler[h].at \in DisconnectStages
              /\ stage \in LeavingStages => handler[h].at \in LeavingStages
    PROVE  HandlersPart
BY HandlingParts DEF Goto

LEMMA DoneParts ==
    ASSUME TypeInv, NEW h \in Handlers, Done(h)
    PROVE  HandlersPart
BY HandlingParts DEF Done, Idle, DisconnectStages

LEMMA AfterUnblockParts ==
    ASSUME TypeInv, NEW h \in Handlers, AfterUnblock(h)
    PROVE  HandlersPart
BY GotoParts, DoneParts DEF AfterUnblock, DisconnectStages

LEMMA SweepingParts ==
    ASSUME TypeInv, NEW h \in Handlers, NEW stage \in {"sweep", "sweepSusp"}, NEW S,
           handler[h].at \in DisconnectStages,
           Become(h, Sweeping(stage, handler[h].port, S))
    PROVE  HandlersPart
<1>1. /\ Sweeping(stage, handler[h].port, S).at = stage
      /\ Sweeping(stage, handler[h].port, S).port = handler[h].port
    BY DEF Sweeping
<1> QED BY <1>1, BecomeParts DEF LeavingStages

LEMMA StartParts ==
    ASSUME TypeInv, NEW stage, NEW d, NEW p, Start(stage, d, p),
           stage \notin DisconnectStages
    PROVE  HandlersPart
BY HandlingParts DEF Start

(* The answer to a module ends the only goodbye it has.                    *)
LEMMA AnswerKeepsGoodbye ==
    ASSUME TypeInv, OneGoodbye, NEW h \in Handlers,
           handler[h].at \in DisconnectStages, Answer(h), registered' = registered
    PROVE  OneGoodbye'
<1>1. PICK d \in Devices : d = handler[h].port
    BY HandlerTypes DEF NeedsPort, HandlerStages, DisconnectStages
<1>2. /\ \A k \in Handlers \ {h} : handler'[k] = handler[k]
      /\ handler'[h].at = "idle"
      /\ module' = [module EXCEPT ![d] = "notified"]
      /\ module \in [Devices -> Programs]
    BY <1>1 DEF Answer, Done, Become, Idle, Handling, TypeInv, TypeOK
<1>3. \A k \in Handlers : handler[k].at \in DisconnectStages => handler[k].port \in Devices
    BY HandlerTypes DEF NeedsPort, HandlerStages, DisconnectStages
<1>4. HandlersPart
    BY <1>2 DEF HandlersPart, DisconnectStages
<1>5. \A k \in Handlers : handler'[k].at \in DisconnectStages => module'[handler'[k].port] = "stopping"
    <2> SUFFICES ASSUME NEW k \in Handlers, handler'[k].at \in DisconnectStages
                 PROVE  module'[handler'[k].port] = "stopping"
        OBVIOUS
    <2>1. k # h /\ handler'[k] = handler[k]
        BY <1>2 DEF DisconnectStages
    <2>2. handler[k].port # d /\ module[handler[k].port] = "stopping"
        BY <2>1, <1>1 DEF OneGoodbye
    <2> QED BY <2>1, <2>2, <1>2, <1>3
<1>6. \A e \in Devices : module'[e] = "up" => module[e] = "up"
    BY <1>2
<1> QED BY <1>4, <1>5, <1>6
   DEF OneGoodbye, HandlersPart, LeavingStages, DisconnectStages

LEMMA GoodbyeStep == TypeInv /\ OneGoodbye /\ [Next]_vars => OneGoodbye'
<1> SUFFICES ASSUME TypeInv, OneGoodbye, [Next]_vars PROVE OneGoodbye'
    OBVIOUS
<1> USE DEF pcbVars, poolVars, callVars, requestVars
<1>types. TypeOK
    BY DEF TypeInv
<1>0. CASE UNCHANGED vars
    BY <1>0, KeepsGoodbye DEF HandlersPart, vars
<1>1. ASSUME NEW p \in Procs, Request(p) PROVE OneGoodbye'
    BY <1>1, KeepsGoodbye DEF Request, HandlersPart
<1>2. ASSUME NEW p \in Procs, RefuseTime(p) PROVE OneGoodbye'
    BY <1>2, KeepsGoodbye DEF RefuseTime, HandlersPart
<1>3. ASSUME NEW p \in Procs, GetFreeByName(p) PROVE OneGoodbye'
    BY <1>3, KeepsGoodbye DEF GetFreeByName, HandlersPart
<1>4. ASSUME NEW p \in Procs, RefuseUnknown(p) PROVE OneGoodbye'
    BY <1>4, KeepsGoodbye DEF RefuseUnknown, HandlersPart, EndCall
<1>5. ASSUME NEW p \in Procs, NoteRequest(p) PROVE OneGoodbye'
    BY <1>5, KeepsGoodbye DEF NoteRequest, HandlersPart
<1>6. ASSUME NEW p \in Procs, Enqueue(p) PROVE OneGoodbye'
    BY <1>6, KeepsGoodbye DEF Enqueue, HandlersPart, EndCall
<1>7. ASSUME NEW p \in Procs, Assign(p) PROVE OneGoodbye'
    BY <1>7, KeepsGoodbye DEF Assign, HandlersPart, EndCall
<1>8. ASSUME NEW p \in Procs, SuspendOut(p) \/ SuspendIn(p) PROVE OneGoodbye'
    BY <1>8, KeepsGoodbye DEF SuspendOut, SuspendIn, HandlersPart
<1>9. ASSUME NEW p \in Procs, EndFailed(p) PROVE OneGoodbye'
    BY <1>9, KeepsGoodbye DEF EndFailed, HandlersPart
<1>10. ASSUME NEW p \in Procs, NEW d \in Devices, Accept(p, d) PROVE OneGoodbye'
    BY <1>10, KeepsGoodbye DEF Accept, HandlersPart
<1>11. ASSUME NEW p \in Procs, NEW d \in Devices, RequestFails(p, d) PROVE OneGoodbye'
    BY <1>11, KeepsGoodbye DEF RequestFails, HandlersPart
<1>12. ASSUME NEW p \in Procs, NEW d \in Devices, Wake(p, d) PROVE OneGoodbye'
    <2>1. HandlersPart
        BY <1>12, StartParts DEF Wake, DisconnectStages
    <2> QED BY <1>12, <2>1, KeepsGoodbye DEF Wake
<1>13. ASSUME NEW d \in Devices, Connect(d) PROVE OneGoodbye'
    <2>1. HandlersPart
        BY <1>13, StartParts DEF Connect, DisconnectStages
    <2>2. /\ registered' = registered \union {d} /\ module' = [module EXCEPT ![d] = "up"]
          /\ module[d] = "off"
        BY <1>13 DEF Connect
    <2>3. \A h \in Handlers : handler[h].at \in DisconnectStages => handler[h].port \in Devices
        BY HandlerTypes DEF NeedsPort, HandlerStages, DisconnectStages
    <2>4. /\ \A e \in Devices : e # d => module'[e] = module[e]
          /\ module'[d] = "up" /\ d \in registered' /\ registered \subseteq registered'
        BY <2>2, <1>types DEF TypeOK
    <2>5. \A k \in Handlers : handler'[k].at \in DisconnectStages =>
             /\ module'[handler'[k].port] = "stopping"
             /\ handler'[k].at \in LeavingStages => handler'[k].port \in registered'
        BY <2>1, <2>2, <2>3, <2>4 DEF OneGoodbye, HandlersPart, LeavingStages
    <2>6. LeavingStages \subseteq DisconnectStages
        BY DEF LeavingStages, DisconnectStages
    <2> QED BY <2>1, <2>4, <2>5, <2>6 DEF OneGoodbye, HandlersPart, LeavingStages
<1>14. ASSUME NEW d \in Devices, Stop(d) PROVE OneGoodbye'
    <2>0. PICK h \in Handlers : handler[h] = Idle /\ Become(h, Handling("readPid", d, 0))
        BY <1>14 DEF Stop, Start
    <2>1. /\ \A k \in Handlers \ {h} : handler'[k] = handler[k]
          /\ handler'[h].at = "readPid" /\ handler'[h].port = d
        BY <2>0, <1>types DEF Become, Handling, TypeOK
    <2>2. /\ registered' = registered /\ module' = [module EXCEPT ![d] = "stopping"]
          /\ module[d] = "up"
        BY <1>14 DEF Stop
    <2>3. \A k \in Handlers : handler[k].at \in DisconnectStages =>
             handler[k].port \in Devices /\ handler[k].port # d
        BY <2>2, HandlerTypes DEF OneGoodbye, NeedsPort, HandlerStages, DisconnectStages
    <2>4. d \in registered
        BY <2>2 DEF OneGoodbye
    <2>5. \A k \in Handlers : handler'[k].at \in DisconnectStages => module'[handler'[k].port] = "stopping"
        BY <2>1, <2>2, <2>3, <1>types DEF OneGoodbye, TypeOK
    <2>6. \A k, l \in Handlers :
             /\ handler'[k].at \in DisconnectStages /\ handler'[l].at \in DisconnectStages
             /\ handler'[k].port = handler'[l].port
             => k = l
        BY <2>1, <2>3 DEF OneGoodbye
    <2>7. \A e \in Devices : module'[e] = "up" => e \in registered'
        BY <2>2, <1>types DEF OneGoodbye, TypeOK
    <2>8. \A k \in Handlers : handler'[k].at \in LeavingStages => handler'[k].port \in registered'
        BY <2>1, <2>2, <2>4 DEF OneGoodbye, LeavingStages
    <2> QED BY <2>5, <2>6, <2>7, <2>8 DEF OneGoodbye, LeavingStages
<1>15. ASSUME NEW d \in Devices, Exit(d) PROVE OneGoodbye'
    <2>1. HandlersPart
        BY <1>15 DEF Exit, HandlersPart
    <2>2. /\ registered' = registered /\ module' = [module EXCEPT ![d] = "down"]
          /\ module[d] # "stopping"
        BY <1>15 DEF Exit
    <2> QED BY <2>1, <2>2, <1>types, KeepsGoodbye DEF TypeOK
<1>16. ASSUME NEW h \in Handlers, FinishFree(h) PROVE OneGoodbye'
    <2>1. HandlersPart
        BY <1>16, HandlingParts DEF FinishFree, DisconnectStages
    <2> QED BY <1>16, <2>1, KeepsGoodbye DEF FinishFree
<1>17. ASSUME NEW h \in Handlers, FinishFind(h) \/ FinishFindSuspended(h) PROVE OneGoodbye'
    <2>1. HandlersPart
        BY <1>17, GotoParts, AfterUnblockParts DEF FinishFind, FinishFindSuspended, DisconnectStages
    <2> QED BY <1>17, <2>1, KeepsGoodbye DEF FinishFind, FinishFindSuspended
<1>18. ASSUME NEW h \in Handlers, FinishMove(h) PROVE OneGoodbye'
    <2>1. HandlersPart
        BY <1>18, AfterUnblockParts DEF FinishMove, DisconnectStages
    <2> QED BY <1>18, <2>1, KeepsGoodbye DEF FinishMove
<1>19. ASSUME NEW h \in Handlers, Try(h) PROVE OneGoodbye'
    <2>1. HandlersPart
        BY <1>19, HandlingParts, DoneParts DEF Try, DisconnectStages
    <2> QED BY <1>19, <2>1, KeepsGoodbye DEF Try
<1>20. ASSUME NEW h \in Handlers, Dequeue(h) PROVE OneGoodbye'
    <2>1. HandlersPart
        BY <1>20, GotoParts, HandlingParts DEF Dequeue, DisconnectStages
    <2> QED BY <1>20, <2>1, KeepsGoodbye DEF Dequeue
<1>21. ASSUME NEW h \in Handlers, GiveBack(h) PROVE OneGoodbye'
    <2>1. HandlersPart
        BY <1>21, DoneParts DEF GiveBack, DisconnectStages
    <2> QED BY <1>21, <2>1, KeepsGoodbye DEF GiveBack
<1>22. ASSUME NEW h \in Handlers, Dispatch(h) PROVE OneGoodbye'
    <2>1. HandlersPart
        BY <1>22, DoneParts DEF Dispatch, DisconnectStages
    <2> QED BY <1>22, <2>1, KeepsGoodbye DEF Dispatch
<1>23. ASSUME NEW h \in Handlers, ReadPid(h) PROVE OneGoodbye'
    <2>1. HandlersPart
        BY <1>23, HandlingParts DEF ReadPid, DisconnectStages, LeavingStages
    <2> QED BY <1>23, <2>1, KeepsGoodbye DEF ReadPid
<1>24. ASSUME NEW h \in Handlers, FindExecuting(h) \/ KillExecuting(h) PROVE OneGoodbye'
    <2>1. HandlersPart
        BY <1>24, GotoParts DEF FindExecuting, KillExecuting, DisconnectStages, LeavingStages
    <2> QED BY <1>24, <2>1, KeepsGoodbye DEF FindExecuting, KillExecuting
<1>25. ASSUME NEW h \in Handlers, RemoveByPort(h) PROVE OneGoodbye'
    <2>0. PICK d \in Devices : d = handler[h].port
        BY <1>25, HandlerTypes DEF RemoveByPort, NeedsPort, HandlerStages, DisconnectStages
    <2>1. /\ \A k \in Handlers \ {h} : handler'[k] = handler[k]
          /\ handler'[h].at = "check" /\ handler'[h].port = d
          /\ registered' = registered \ {d} /\ module' = module
          /\ handler[h].at \in DisconnectStages
        BY <1>25, <2>0, <1>types
           DEF RemoveByPort, Goto, Become, Handling, TypeOK, DisconnectStages
    <2>2. module[d] = "stopping"
        BY <2>0, <2>1 DEF OneGoodbye
    <2>3. \A k \in Handlers \ {h} : handler[k].at \in DisconnectStages => handler[k].port # d
        BY <2>0, <2>1 DEF OneGoodbye
    <2>4. \A k \in Handlers : handler'[k].at \in LeavingStages => handler'[k].port \in registered'
        BY <2>1, <2>3 DEF OneGoodbye, LeavingStages, DisconnectStages
    <2>5. \A e \in Devices : module'[e] = "up" => e \in registered'
        BY <2>1, <2>2 DEF OneGoodbye
    <2> QED BY <2>0, <2>1, <2>4, <2>5 DEF OneGoodbye, LeavingStages, DisconnectStages
<1>26. ASSUME NEW h \in Handlers, CheckRemaining(h) PROVE OneGoodbye'
    <2>1. handler[h].at \in DisconnectStages
        BY <1>26 DEF CheckRemaining, DisconnectStages
    <2>2. CASE Answer(h)
        BY <1>26, <2>1, <2>2, AnswerKeepsGoodbye DEF CheckRemaining
    <2>3. CASE Goto(h, "drain") /\ UNCHANGED module
        <3>1. HandlersPart
            BY <2>1, <2>3, GotoParts DEF LeavingStages
        <3> QED BY <1>26, <2>3, <3>1, KeepsGoodbye DEF CheckRemaining
    <2> QED BY <1>26, <2>2, <2>3 DEF CheckRemaining
<1>27. ASSUME NEW h \in Handlers, Drain(h) PROVE OneGoodbye'
    <2>1. HandlersPart
        BY <1>27, GotoParts, HandlingParts DEF Drain, DisconnectStages, LeavingStages
    <2> QED BY <1>27, <2>1, KeepsGoodbye DEF Drain
<1>28. ASSUME NEW h \in Handlers, KillWaiting(h) PROVE OneGoodbye'
    <2>1. HandlersPart
        BY <1>28, GotoParts DEF KillWaiting, DisconnectStages, LeavingStages
    <2> QED BY <1>28, <2>1, KeepsGoodbye DEF KillWaiting
<1>29. ASSUME NEW h \in Handlers, Scan(h) PROVE OneGoodbye'
    <2>1. HandlersPart
        BY <1>29, SweepingParts DEF Scan, DisconnectStages
    <2> QED BY <1>29, <2>1, KeepsGoodbye DEF Scan
<1>30. ASSUME NEW h \in Handlers, Sweep(h) PROVE OneGoodbye'
    <2>1. HandlersPart
        BY <1>30, SweepingParts DEF Sweep, DisconnectStages
    <2> QED BY <1>30, <2>1, KeepsGoodbye DEF Sweep
<1>31. ASSUME NEW h \in Handlers, EndSweep(h) PROVE OneGoodbye'
    <2>1. handler[h].at \in DisconnectStages
        BY <1>31 DEF EndSweep, DisconnectStages
    <2>2. CASE Answer(h)
        BY <1>31, <2>1, <2>2, AnswerKeepsGoodbye DEF EndSweep
    <2>3. CASE Goto(h, "scanSusp") /\ UNCHANGED module
        <3>1. HandlersPart
            BY <2>1, <2>3, GotoParts DEF LeavingStages
        <3> QED BY <1>31, <2>3, <3>1, KeepsGoodbye DEF EndSweep
    <2> QED BY <1>31, <2>2, <2>3 DEF EndSweep
<1>32. QED
    BY <1>0, <1>1, <1>2, <1>3, <1>4, <1>5, <1>6, <1>7, <1>8, <1>9, <1>10,
       <1>11, <1>12, <1>13, <1>14, <1>15, <1>16, <1>17, <1>18, <1>19, <1>20,
       <1>21, <1>22, <1>23, <1>24, <1>25, <1>26, <1>27, <1>28, <1>29, <1>30,
       <1>31
       DEF Next, Syscall, Sending, Handle, Finishing, Trying, Disconnecting

(* A label is right as long as nobody but a user of the device writes it,  *)
(* and then the one whose label it is has no longer the device.            *)
LEMMA KeepsLabels ==
    ASSUME LabelsAreRight, NEW d,
           \A p \in Procs, e \in Devices :
              <<p, e>> \in inflight' \union sleeping' =>
                 <<p, e>> \in inflight \union sleeping /\ e # d,
           \A e \in Devices : e # d => devPid'[e] = devPid[e]
    PROVE  LabelsAreRight'
BY DEF LabelsAreRight

LEMMA QuietKeepsLabels ==
    ASSUME LabelsAreRight, devPid' = devPid,
           inflight' \union sleeping' \subseteq inflight \union sleeping
    PROVE  LabelsAreRight'
BY DEF LabelsAreRight

(* A user of a device that is not a request has it alone.                  *)
LEMMA UserAlone ==
    ASSUME Exclusion, NEW d \in Devices, NEW u \in Users(d), NEW p \in Procs,
           <<p, d>> \in inflight \union sleeping
    PROVE  u = <<"sent", p>> \/ u = <<"sleep", p>>
BY UsersKnown DEF Exclusion, OneUserPerDevice

LEMMA LabelsStep == TypeInv /\ Exclusion /\ LabelsAreRight /\ [Next]_vars => LabelsAreRight'
<1> SUFFICES ASSUME TypeInv, Exclusion, LabelsAreRight, [Next]_vars
             PROVE  LabelsAreRight'
    OBVIOUS
<1> USE DEF pcbVars, poolVars, callVars, requestVars
<1>types. TypeOK
    BY DEF TypeInv
<1>0. CASE UNCHANGED vars
    BY <1>0, QuietKeepsLabels DEF vars
<1>1. ASSUME NEW p \in Procs, Request(p) PROVE LabelsAreRight'
    BY <1>1, QuietKeepsLabels DEF Request
<1>2. ASSUME NEW p \in Procs, RefuseTime(p) PROVE LabelsAreRight'
    BY <1>2, QuietKeepsLabels DEF RefuseTime
<1>3. ASSUME NEW p \in Procs, GetFreeByName(p) PROVE LabelsAreRight'
    BY <1>3, QuietKeepsLabels DEF GetFreeByName
<1>4. ASSUME NEW p \in Procs, RefuseUnknown(p) PROVE LabelsAreRight'
    BY <1>4, QuietKeepsLabels DEF RefuseUnknown, EndCall
<1>5. ASSUME NEW p \in Procs, NoteRequest(p) PROVE LabelsAreRight'
    BY <1>5, QuietKeepsLabels DEF NoteRequest
<1>6. ASSUME NEW p \in Procs, Enqueue(p) PROVE LabelsAreRight'
    BY <1>6, QuietKeepsLabels DEF Enqueue, EndCall
<1>7. ASSUME NEW p \in Procs, Assign(p) PROVE LabelsAreRight'
    <2>1. PICK d \in Devices : d = callDev[p]
        BY <1>7 DEF Assign, TypeInv, CallFields
    <2>2. <<"call", p>> \in Users(d)
        BY <1>7, <2>1, UsersKnown DEF Assign
    <2>3. \A q \in Procs : <<q, d>> \notin inflight \union sleeping
        BY <2>2, UserAlone
    <2>4. /\ \A q \in Procs, e \in Devices : <<q, e>> \in inflight' \union sleeping' =>
                <<q, e>> \in inflight \union sleeping \/ (q = p /\ e = d)
          /\ \A e \in Devices : e # d => devPid'[e] = devPid[e]
          /\ devPid'[d] = p
        BY <1>7, <2>1, <1>types DEF Assign, DispatchToDevice, TypeOK
    <2> QED BY <2>3, <2>4 DEF LabelsAreRight
<1>8. ASSUME NEW p \in Procs, SuspendOut(p) \/ SuspendIn(p) PROVE LabelsAreRight'
    BY <1>8, QuietKeepsLabels DEF SuspendOut, SuspendIn
<1>9. ASSUME NEW p \in Procs, EndFailed(p) PROVE LabelsAreRight'
    BY <1>9, QuietKeepsLabels DEF EndFailed
<1>10. ASSUME NEW p \in Procs, NEW d \in Devices, Accept(p, d) PROVE LabelsAreRight'
    BY <1>10, QuietKeepsLabels DEF Accept
<1>11. ASSUME NEW p \in Procs, NEW d \in Devices, RequestFails(p, d) PROVE LabelsAreRight'
    <2>1. <<"sent", p>> \in Users(d)
        BY <1>11, UsersKnown DEF RequestFails
    <2>2. \A q \in Procs : <<q, d>> \in inflight \union sleeping => q = p
        BY <2>1, UserAlone
    <2>3. <<p, d>> \notin sleeping
        <3>1. <<"sent", p>> # <<"sleep", p>>
            OBVIOUS
        <3>2. <<p, d>> \in sleeping => <<"sleep", p>> \in Users(d)
            BY UsersKnown
        <3> QED BY <2>1, <3>1, <3>2 DEF Exclusion, OneUserPerDevice
    <2>4. /\ inflight' = inflight \ {<<p, d>>} /\ sleeping' = sleeping
          /\ \A e \in Devices : e # d => devPid'[e] = devPid[e]
        BY <1>11, <1>types DEF RequestFails, FreeByPort, TypeOK
    <2> QED BY <2>2, <2>3, <2>4, KeepsLabels
<1>12. ASSUME NEW p \in Procs, NEW d \in Devices, Wake(p, d) PROVE LabelsAreRight'
    BY <1>12, QuietKeepsLabels DEF Wake
<1>13. ASSUME NEW d \in Devices, Connect(d) PROVE LabelsAreRight'
    BY <1>13, QuietKeepsLabels DEF Connect
<1>14. ASSUME NEW d \in Devices, Stop(d) PROVE LabelsAreRight'
    BY <1>14, QuietKeepsLabels DEF Stop
<1>15. ASSUME NEW d \in Devices, Exit(d) PROVE LabelsAreRight'
    BY <1>15, QuietKeepsLabels DEF Exit
<1>16. ASSUME NEW h \in Handlers, FinishFree(h) PROVE LabelsAreRight'
    <2>1. PICK d \in Devices : d = handler[h].port
        BY <1>16, HandlerTypes DEF FinishFree, HandlerStages, TryStages, FinishStages, NeedsPort
    <2>2. <<"handler", h>> \in Users(d)
        BY <1>16, <2>1, UsersKnown DEF FinishFree, HoldingStages
    <2>3. \A q \in Procs : <<q, d>> \notin inflight \union sleeping
        BY <2>2, UserAlone
    <2>4. /\ UNCHANGED <<inflight, sleeping>>
          /\ \A e \in Devices : e # d => devPid'[e] = devPid[e]
        BY <1>16, <2>1, <1>types DEF FinishFree, FreeByPort, TypeOK
    <2> QED BY <2>3, <2>4, KeepsLabels
<1>17. ASSUME NEW h \in Handlers, FinishFind(h) \/ FinishFindSuspended(h) PROVE LabelsAreRight'
    BY <1>17, QuietKeepsLabels DEF FinishFind, FinishFindSuspended
<1>18. ASSUME NEW h \in Handlers, FinishMove(h) PROVE LabelsAreRight'
    BY <1>18, QuietKeepsLabels DEF FinishMove
<1>19. ASSUME NEW h \in Handlers, Try(h) PROVE LabelsAreRight'
    BY <1>19, QuietKeepsLabels DEF Try
<1>20. ASSUME NEW h \in Handlers, Dequeue(h) PROVE LabelsAreRight'
    BY <1>20, QuietKeepsLabels DEF Dequeue
<1>21. ASSUME NEW h \in Handlers, GiveBack(h) PROVE LabelsAreRight'
    <2>1. PICK d \in Devices : d = handler[h].port
        BY <1>21, HandlerTypes DEF GiveBack, HandlerStages, TryStages, FinishStages, NeedsPort
    <2>2. <<"handler", h>> \in Users(d)
        BY <1>21, <2>1, UsersKnown DEF GiveBack, HoldingStages
    <2>3. \A q \in Procs : <<q, d>> \notin inflight \union sleeping
        BY <2>2, UserAlone
    <2>4. /\ UNCHANGED <<inflight, sleeping>>
          /\ \A e \in Devices : e # d => devPid'[e] = devPid[e]
        BY <1>21, <2>1, <1>types DEF GiveBack, FreeByPort, TypeOK
    <2> QED BY <2>3, <2>4, KeepsLabels
<1>22. ASSUME NEW h \in Handlers, Dispatch(h) PROVE LabelsAreRight'
    <2>0. PICK p \in Procs, d \in Devices : p = handler[h].pid /\ d = handler[h].port
        BY <1>22, HandlerTypes DEF Dispatch, NeedsPort, NeedsPid, HandlerStages, TryStages
    <2>2. <<"handler", h>> \in Users(d)
        BY <1>22, <2>0, UsersKnown DEF Dispatch, HoldingStages
    <2>1. CASE pendingReq[p] = NoName
        BY <1>22, <2>0, <2>1, QuietKeepsLabels DEF Dispatch
    <2>5. CASE pendingReq[p] # NoName
        <3>1. \A q \in Procs : <<q, d>> \notin inflight \union sleeping
            BY <2>2, UserAlone
        <3>2. /\ \A q \in Procs, e \in Devices : <<q, e>> \in inflight' \union sleeping' =>
                    <<q, e>> \in inflight \union sleeping \/ (q = p /\ e = d)
              /\ \A e \in Devices : e # d => devPid'[e] = devPid[e]
              /\ devPid'[d] = p
            BY <1>22, <2>0, <2>5, <1>types DEF Dispatch, DispatchToDevice, TypeOK
        <3> QED BY <3>1, <3>2 DEF LabelsAreRight
    <2> QED BY <2>1, <2>5
<1>23. ASSUME NEW h \in Handlers, ReadPid(h) PROVE LabelsAreRight'
    BY <1>23, QuietKeepsLabels DEF ReadPid
<1>24. ASSUME NEW h \in Handlers, FindExecuting(h) \/ KillExecuting(h) PROVE LabelsAreRight'
    BY <1>24, QuietKeepsLabels DEF FindExecuting, KillExecuting
<1>25. ASSUME NEW h \in Handlers, RemoveByPort(h) PROVE LabelsAreRight'
    BY <1>25, QuietKeepsLabels DEF RemoveByPort
<1>26. ASSUME NEW h \in Handlers, CheckRemaining(h) PROVE LabelsAreRight'
    BY <1>26, QuietKeepsLabels DEF CheckRemaining
<1>27. ASSUME NEW h \in Handlers, Drain(h) PROVE LabelsAreRight'
    BY <1>27, QuietKeepsLabels DEF Drain
<1>28. ASSUME NEW h \in Handlers, KillWaiting(h) PROVE LabelsAreRight'
    BY <1>28, QuietKeepsLabels DEF KillWaiting
<1>29. ASSUME NEW h \in Handlers, Scan(h) PROVE LabelsAreRight'
    BY <1>29, QuietKeepsLabels DEF Scan
<1>30. ASSUME NEW h \in Handlers, Sweep(h) PROVE LabelsAreRight'
    BY <1>30, QuietKeepsLabels DEF Sweep
<1>31. ASSUME NEW h \in Handlers, EndSweep(h) PROVE LabelsAreRight'
    BY <1>31, QuietKeepsLabels DEF EndSweep
<1>32. QED
    BY <1>0, <1>1, <1>2, <1>3, <1>4, <1>5, <1>6, <1>7, <1>8, <1>9, <1>10,
       <1>11, <1>12, <1>13, <1>14, <1>15, <1>16, <1>17, <1>18, <1>19, <1>20,
       <1>21, <1>22, <1>23, <1>24, <1>25, <1>26, <1>27, <1>28, <1>29, <1>30,
       <1>31
       DEF Next, Syscall, Sending, Handle, Finishing, Trying, Disconnecting

(* A handler at "readPid" goes on only by reading the PID, and one at      *)
(* "kill" only by searching the queues.                                    *)
LEMMA OnlyReadPidReads ==
    ASSUME TypeInv, [Next]_vars, NEW h \in Handlers,
           handler[h].at \in {"readPid", "kill"}, handler'[h] # handler[h]
    PROVE  ReadPid(h) \/ FindExecuting(h)
<1> USE DEF pcbVars, poolVars, callVars, requestVars
<1>types. handler \in [Handlers -> Handlings]
    BY DEF TypeInv, TypeOK
<1>0. ~UNCHANGED vars
    BY DEF vars
<1>1. ASSUME NEW q \in Procs, \/ Request(q) \/ RefuseTime(q) \/ Syscall(q)
                              \/ SuspendOut(q) \/ SuspendIn(q) \/ EndFailed(q)
      PROVE  FALSE
    BY <1>1
       DEF Request, RefuseTime, Syscall, SuspendOut, SuspendIn, EndFailed, GetFreeByName,
           RefuseUnknown, NoteRequest, Enqueue, Assign, EndCall
<1>2. ASSUME NEW stage, NEW d, NEW p, Start(stage, d, p) PROVE FALSE
    BY <1>2, <1>types DEF Start, Become, Idle, Handling
<1>3. ASSUME NEW q \in Procs, NEW d \in Devices, Sending(q, d) \/ Wake(q, d)
      PROVE  FALSE
    BY <1>3, <1>2 DEF Sending, Accept, RequestFails, Wake
<1>4. ASSUME NEW d \in Devices, Connect(d) \/ Stop(d) \/ Exit(d)
      PROVE  FALSE
    BY <1>4, <1>2 DEF Connect, Stop, Exit
<1>5. ASSUME NEW k \in Handlers, Handle(k)
      PROVE  k = h /\ (ReadPid(k) \/ FindExecuting(k))
    <2>1. CASE k = h
        BY <1>5, <2>1
           DEF Handle, Finishing, Trying, Disconnecting, FinishFree, FinishFind, FinishFindSuspended,
               FinishMove, Try, Dequeue, GiveBack, Dispatch, KillExecuting,
               RemoveByPort, CheckRemaining, Drain, KillWaiting, Scan, Sweep,
               EndSweep
    <2>2. CASE k # h
        <3>1. ASSUME NEW r, Become(k, r) PROVE FALSE
            BY <2>2, <3>1, <1>types DEF Become
        <3> QED BY <1>5, <3>1
           DEF Handle, Finishing, Trying, Disconnecting, FinishFree, FinishFind, FinishFindSuspended,
               FinishMove, Try, Dequeue, GiveBack, Dispatch, ReadPid,
               FindExecuting, KillExecuting, RemoveByPort, CheckRemaining, Drain, KillWaiting,
               Scan, Sweep, EndSweep, Goto, Done, AfterUnblock, Answer
    <2> QED BY <2>1, <2>2
<1> QED BY <1>0, <1>1, <1>3, <1>4, <1>5 DEF Next

(* A disconnection finds the process its device is serving, unless that is *)
(* process 0, whose PID stands for none, or the suspension timer has it    *)
(* between two queues, or it has been ended (DisconnectionFindsItsProcess).*)
THEOREM DisconnectionsFind ==
    ASSUME 0 \notin Procs PROVE Spec => DisconnectionFindsItsProcess
<1> DEFINE Acts(h, p) == /\ <<p, handler[h].port>> \in sleeping
                         /\ handler'[h] # handler[h]
           Reads(h, p) ==
               handler[h].at = "readPid" => handler'[h].at = "kill" /\ handler'[h].pid = p
           Finds(h, p) ==
               handler[h].at = "kill" /\ handler[h].pid = p
                   => \/ handler'[h].at = "end"
                      \/ p \in suspending \/ estado[p] = "EXIT"
           Inv == TypeInv /\ OneGoodbye /\ LabelsAreRight /\ PlacesInv
           A == \A h \in Handlers, p \in Procs :
                   Acts(h, p) => /\ Reads(h, p)
                                 /\ Finds(h, p)
<1>1. ASSUME Inv, [Next]_vars, NEW h \in Handlers, NEW p \in Procs, Acts(h, p),
             handler[h].at = "readPid"
      PROVE  handler'[h].at = "kill" /\ handler'[h].pid = p
    <2>1. ReadPid(h)
        BY <1>1, OnlyReadPidReads DEF FindExecuting
    <2>2. PICK d \in Devices : d = handler[h].port
        BY <1>1, HandlerTypes DEF NeedsPort, HandlerStages, DisconnectStages
    <2>3. d \in registered /\ devPid[d] = p /\ p # 0
        BY <1>1, <2>2 DEF OneGoodbye, LabelsAreRight
    <2>4. Become(h, Handling("kill", d, p))
        BY <2>1, <2>2, <2>3 DEF ReadPid
    <2> QED BY <1>1, <2>4 DEF Become, Handling, TypeInv, TypeOK
<1>2. ASSUME Inv, [Next]_vars, NEW h \in Handlers, NEW p \in Procs, Acts(h, p),
             handler[h].at = "kill", handler[h].pid = p
      PROVE  handler'[h].at = "end" \/ p \in suspending \/ estado[p] = "EXIT"
    <2>1. FindExecuting(h)
        BY <1>2, OnlyReadPidReads DEF ReadPid
    <2>2. PICK d \in Devices : d = handler[h].port
        BY <1>2, HandlerTypes DEF NeedsPort, HandlerStages, DisconnectStages
    <2>3. estado[p] # "ACTIVE"
        <3>1. <<"sleep", d>> \in Places(p)
            BY <1>2, <2>2, PlacesKnown
        <3> QED BY <1>2, <3>1 DEF PlacesInv, ActiveIsNowhere
    <2>4. CASE Goto(h, "end")
        BY <1>2, <2>4 DEF Goto, Become, Handling, TypeInv, TypeOK
    <2>5. CASE MayMiss(p)
        BY <2>3, <2>5 DEF MayMiss
    <2> QED BY <1>2, <2>1, <2>4, <2>5 DEF FindExecuting
<1>3. Inv /\ [Next]_vars => [A]_vars
    BY <1>1, <1>2
<1>4. Spec => []Inv
    <2>1. Init => Inv /\ Exclusion
        BY InitTypeInv, InitGoodbye, InitExclusion, InitPlaces
    <2>2. Inv /\ Exclusion /\ [Next]_vars => (Inv /\ Exclusion)'
        BY TypeInvStep, GoodbyeStep, LabelsStep, ExclusionStep, PlacesStep
    <2> QED BY <2>1, <2>2, PTL DEF Spec
<1>5. Spec => [][A]_vars
    <2> HIDE DEF Inv, A
    <2> QED BY <1>3, <1>4, PTL DEF Spec
<1> QED BY <1>5 DEF DisconnectionFindsItsProcess

-----------------------------------------------------------------------------
(* While no module goes away.                                              *)
ModulesStay == Stoppable = {} /\ Crashable = {}

NobodyLeaves ==
    /\ \A d \in Devices : /\ module[d] \in {"off", "up"}
                          /\ module[d] = "up" <=> d \in registered
    /\ failed = {}
    /\ \A h \in Handlers : handler[h].at \notin DisconnectStages

EndedIsNowhere == \A p \in Procs : estado[p] = "EXIT" => Places(p) = {}

BusyIsUsed == \A d \in registered : ~isFree[d] => Users(d) # {}

StayInv == NobodyLeaves /\ EndedIsNowhere /\ BusyIsUsed

LEMMA InitStay == Init => StayInv
<1> SUFFICES ASSUME Init PROVE StayInv
    OBVIOUS
<1>1. NobodyLeaves /\ BusyIsUsed
    BY DEF Init, NobodyLeaves, BusyIsUsed, Idle, Handling, DisconnectStages
<1>2. EndedIsNowhere
    BY DEF Init, EndedIsNowhere
<1> QED BY <1>1, <1>2 DEF StayInv

(* No device starts a goodbye, so that the handlers of one have nothing to *)
(* do, and no request fails.                                               *)
LEMMA NobodyLeavesStep ==
    ModulesStay /\ TypeInv /\ NobodyLeaves /\ [Next]_vars => NobodyLeaves'
<1> SUFFICES ASSUME ModulesStay, TypeInv, NobodyLeaves, [Next]_vars
             PROVE  NobodyLeaves'
    OBVIOUS
<1> USE DEF pcbVars, poolVars, callVars, requestVars
<1>types. TypeOK
    BY DEF TypeInv
<1>parts. ASSUME HandlersPart, failed' \subseteq failed,
                 \/ UNCHANGED <<module, registered>>
                 \/ \E d \in Devices : /\ registered' = registered \union {d}
                                       /\ module' = [module EXCEPT ![d] = "up"]
          PROVE  NobodyLeaves'
    <2>1. \A h \in Handlers : handler'[h].at \notin DisconnectStages
        BY <1>parts DEF NobodyLeaves, HandlersPart
    <2>2. failed' = {}
        BY <1>parts DEF NobodyLeaves
    <2>3. \A d \in Devices : /\ module'[d] \in {"off", "up"}
                             /\ module'[d] = "up" <=> d \in registered'
        BY <1>parts, <1>types DEF NobodyLeaves, TypeOK
    <2> QED BY <2>1, <2>2, <2>3 DEF NobodyLeaves
<1>0. CASE UNCHANGED vars
    BY <1>0, <1>parts DEF HandlersPart, vars
<1>1. ASSUME NEW p \in Procs, \/ Request(p) \/ RefuseTime(p) \/ Syscall(p)
                              \/ SuspendOut(p) \/ SuspendIn(p) \/ EndFailed(p)
      PROVE  NobodyLeaves'
    <2>1. UNCHANGED <<module, registered, handler>> /\ failed' \subseteq failed
        BY <1>1
           DEF Request, RefuseTime, Syscall, SuspendOut, SuspendIn, EndFailed, GetFreeByName,
               RefuseUnknown, NoteRequest, Enqueue, Assign, EndCall
    <2> QED BY <2>1, <1>parts DEF HandlersPart
<1>2. ASSUME NEW p \in Procs, NEW d \in Devices, Accept(p, d) PROVE NobodyLeaves'
    BY <1>2, <1>parts DEF Accept, HandlersPart
<1>3. ASSUME NEW p \in Procs, NEW d \in Devices, Wake(p, d) PROVE NobodyLeaves'
    BY <1>3, <1>parts, StartParts DEF Wake, DisconnectStages
<1>4. ASSUME NEW p \in Procs, NEW d \in Devices, RequestFails(p, d) PROVE FALSE
    BY <1>4 DEF RequestFails, NobodyLeaves
<1>5. ASSUME NEW d \in Devices, Connect(d) PROVE NobodyLeaves'
    <2>1. HandlersPart
        BY <1>5, StartParts DEF Connect, DisconnectStages
    <2> QED BY <1>5, <2>1, <1>parts DEF Connect
<1>6. ASSUME NEW d \in Devices, Stop(d) \/ Exit(d) PROVE FALSE
    BY <1>6 DEF Stop, Exit, ModulesStay, NobodyLeaves
<1>7. ASSUME NEW h \in Handlers, Handle(h) PROVE NobodyLeaves'
    <2>1. Finishing(h) \/ Trying(h)
        BY <1>7
           DEF Handle, Disconnecting, ReadPid, FindExecuting, KillExecuting, RemoveByPort,
               CheckRemaining, Drain, KillWaiting, Scan, Sweep, EndSweep,
               NobodyLeaves, DisconnectStages
    <2>2. HandlersPart
        BY <2>1, HandlingParts, GotoParts, DoneParts, AfterUnblockParts
           DEF Finishing, Trying, FinishFree, FinishFind, FinishFindSuspended, FinishMove, Try,
               Dequeue, GiveBack, Dispatch, DisconnectStages
    <2>3. UNCHANGED <<module, registered, failed>>
        BY <2>1
           DEF Finishing, Trying, FinishFree, FinishFind, FinishFindSuspended, FinishMove, Try,
               Dequeue, GiveBack, Dispatch
    <2> QED BY <2>2, <2>3, <1>parts
<1> QED BY <1>0, <1>1, <1>2, <1>3, <1>4, <1>5, <1>6, <1>7 DEF Next, Sending

(* The actions that remain when no module goes away.                       *)
LEMMA StepsThatRemain ==
    ASSUME ModulesStay, NobodyLeaves, Next
    PROVE  \/ \E p \in Procs : \/ Request(p) \/ RefuseTime(p) \/ Syscall(p)
                               \/ SuspendOut(p) \/ SuspendIn(p)
           \/ \E p \in Procs, d \in Devices : Accept(p, d) \/ Wake(p, d)
           \/ \E d \in Devices : Connect(d)
           \/ \E h \in Handlers : Finishing(h) \/ Trying(h)
<1>1. \A p \in Procs : ~EndFailed(p)
    BY DEF EndFailed, NobodyLeaves
<1>2. \A p \in Procs, d \in Devices : ~RequestFails(p, d)
    BY DEF RequestFails, NobodyLeaves
<1>3. \A d \in Devices : ~Stop(d) /\ ~Exit(d)
    BY DEF Stop, Exit, ModulesStay, NobodyLeaves
<1>4. \A h \in Handlers : ~Disconnecting(h)
    BY DEF Disconnecting, ReadPid, FindExecuting, KillExecuting, RemoveByPort, CheckRemaining,
           Drain, KillWaiting, Scan, Sweep, EndSweep, NobodyLeaves,
           DisconnectStages
<1> QED BY <1>1, <1>2, <1>3, <1>4 DEF Next, Sending, Handle

(* Then only a process that is refused ends.                               *)
LEMMA OnlyRefusalsEnd ==
    ASSUME ModulesStay, TypeInv, PlacesInv, NobodyLeaves, [Next]_vars,
           NEW p \in Procs, estado[p] # "EXIT", estado'[p] = "EXIT"
    PROVE  RefuseTime(p) \/ RefuseUnknown(p)
<1> USE DEF pcbVars, poolVars, callVars, requestVars
<1>types. estado \in [Procs -> Estados]
    BY DEF TypeInv, TypeOK
<1>0. Next
    BY DEF vars
<1>1. ASSUME NEW q \in Procs, \/ Request(q) \/ RefuseTime(q) \/ Syscall(q)
                              \/ SuspendOut(q) \/ SuspendIn(q)
      PROVE  RefuseTime(p) \/ RefuseUnknown(p)
    <2>1. ASSUME estado' = estado PROVE FALSE
        BY <2>1
    <2>2. ASSUME NEW s, s # "EXIT", Move(q, s) PROVE FALSE
        BY <2>2, <1>types DEF Move
    <2>3. ASSUME Move(q, "EXIT") PROVE q = p
        BY <2>3, <1>types DEF Move
    <2>4. ~Request(q) /\ ~SuspendOut(q) /\ ~SuspendIn(q)
        BY <1>types, <2>1, <2>2 DEF Request, SuspendOut, SuspendIn
    <2>5. ~GetFreeByName(q) /\ ~NoteRequest(q) /\ ~Enqueue(q) /\ ~Assign(q)
        BY <2>1 DEF GetFreeByName, NoteRequest, Enqueue, Assign
    <2>6. RefuseTime(q) \/ RefuseUnknown(q)
        BY <1>1, <2>4, <2>5 DEF Syscall
    <2> QED BY <2>3, <2>6 DEF RefuseTime, RefuseUnknown
<1>2. ASSUME NEW q \in Procs, NEW d \in Devices, Accept(q, d) \/ Wake(q, d)
      PROVE  FALSE
    BY <1>2 DEF Accept, Wake
<1>3. ASSUME NEW d \in Devices, Connect(d) PROVE FALSE
    BY <1>3 DEF Connect
<1>4. ASSUME NEW h \in Handlers, Finishing(h) PROVE FALSE
    BY <1>4, <1>types
       DEF Finishing, FinishFree, FinishFind, FinishFindSuspended, FinishMove, Move
<1>5. ASSUME NEW h \in Handlers, Trying(h) PROVE FALSE
    <2>1. ~Try(h) /\ ~Dequeue(h) /\ ~GiveBack(h)
        BY DEF Try, Dequeue, GiveBack
    <2>2. ~Dispatch(h)
        BY DEF Dispatch, PlacesInv, RequestsNoted
    <2> QED BY <1>5, <2>1, <2>2 DEF Trying
<1> QED BY <1>0, <1>1, <1>2, <1>3, <1>4, <1>5, StepsThatRemain

LEMMA EndedIsNowhereStep ==
    ModulesStay /\ TypeInv /\ PlacesInv /\ StayInv /\ [Next]_vars => EndedIsNowhere'
<1> SUFFICES ASSUME ModulesStay, TypeInv, PlacesInv, StayInv, [Next]_vars,
                    NEW p \in Procs, estado'[p] = "EXIT"
             PROVE  Places(p)' = {}
    BY DEF EndedIsNowhere
<1> USE DEF pcbVars, poolVars, callVars, requestVars
<1>1. CASE estado[p] = "EXIT"
    <2>1. Places(p) = {}
        BY <1>1 DEF StayInv, EndedIsNowhere
    <2> QED BY <1>1, <2>1, PlacesStep DEF Steady
<1>2. CASE estado[p] # "EXIT" /\ RefuseTime(p)
    <2>1. Places(p) = {}
        BY <1>2 DEF RefuseTime, PlacesInv, ActiveIsNowhere
    <2>2. NoArrival(p)
        BY <1>2 DEF RefuseTime, NoArrival, InQueue
    <2> QED BY <2>1, <2>2, PlacesShrink
<1>3. CASE estado[p] # "EXIT" /\ RefuseUnknown(p)
    <2>1. <<"call", p>> \in Places(p)
        BY <1>3, PlacesKnown DEF RefuseUnknown
    <2>2. call'[p] = "none"
        BY <1>3 DEF RefuseUnknown, EndCall, TypeInv, TypeOK
    <2>3. NoArrival(p)
        BY <1>3, <2>2 DEF RefuseUnknown, EndCall, NoArrival, InQueue
    <2>4. <<"call", p>> \notin Places(p)'
        BY <2>2 DEF Places
    <2> QED BY <2>1, <2>3, <2>4, LeavesLastPlace DEF PlacesInv
<1> QED BY <1>1, <1>2, <1>3, OnlyRefusalsEnd DEF StayInv

(* A step that takes no user from a device that stays busy.                *)
UsersStay ==
    /\ \A p \in Procs : call[p] = "assign" =>
          call'[p] = "assign" /\ callDev'[p] = callDev[p]
    /\ \A h \in Handlers : handler[h].at \in HoldingStages =>
          handler'[h].at \in HoldingStages /\ handler'[h].port = handler[h].port
    /\ inflight \subseteq inflight' /\ sleeping \subseteq sleeping'

LEMMA UsersStayAll ==
    ASSUME UsersStay, NEW d \in Devices
    PROVE  Users(d) \subseteq Users(d)'
BY ZenonT(30) DEF UsersStay, Users, HoldingStages

LEMMA KeepsBusy ==
    ASSUME TypeInv, BusyIsUsed, registered' = registered,
           \A d \in registered : Users(d) # {} /\ ~isFree'[d] => Users(d)' # {},
           \A d \in registered : ~isFree'[d] => ~isFree[d] \/ Users(d)' # {}
    PROVE  BusyIsUsed'
BY DEF BusyIsUsed

LEMMA UsersStayKeepsBusy ==
    ASSUME TypeInv, BusyIsUsed, UsersStay, registered' = registered,
           \A d \in registered : ~isFree'[d] => ~isFree[d] \/ Users(d)' # {}
    PROVE  BusyIsUsed'
<1>1. registered \subseteq Devices
    BY DEF TypeInv, TypeOK
<1> QED BY <1>1, UsersStayAll, KeepsBusy

(* One that takes the user u from d, which becomes free or has user v then.*)
LEMMA UserLeavesKeepsBusy ==
    ASSUME TypeInv, BusyIsUsed, NEW d \in Devices, NEW v,
           v \in Users(d)' \/ d \notin registered \/ isFree'[d],
           \A e \in Devices \ {d} : Users(e) \subseteq Users(e)',
           registered' = registered,
           \A e \in registered \ {d} : isFree'[e] = isFree[e]
    PROVE  BusyIsUsed'
<1>1. registered \subseteq Devices
    BY DEF TypeInv, TypeOK
<1> QED BY <1>1 DEF BusyIsUsed

LEMMA BecomeOthers ==
    ASSUME TypeInv, NEW h \in Handlers, NEW r, Become(h, r)
    PROVE  handler'[h] = r /\ \A k \in Handlers \ {h} : handler'[k] = handler[k]
BY DEF Become, TypeInv, TypeOK


LEMMA BusyIsUsedStep ==
    ModulesStay /\ TypeInv /\ PlacesInv /\ StayInv /\ [Next]_vars => BusyIsUsed'
<1> SUFFICES ASSUME ModulesStay, TypeInv, PlacesInv, StayInv, [Next]_vars
             PROVE  BusyIsUsed'
    OBVIOUS
<1> USE DEF pcbVars, poolVars, callVars, requestVars
<1>types. TypeOK
    BY DEF TypeInv
<1>busy. BusyIsUsed /\ NobodyLeaves
    BY DEF StayInv
<1>0. CASE UNCHANGED vars
    BY <1>0, <1>busy, UsersStayKeepsBusy DEF UsersStay, vars
<1>1. ASSUME NEW p \in Procs, Request(p) \/ RefuseTime(p) \/ SuspendOut(p) \/ SuspendIn(p)
      PROVE  BusyIsUsed'
    <2>1. UsersStay
        BY <1>1, <1>types DEF Request, RefuseTime, SuspendOut, SuspendIn, UsersStay, TypeOK
    <2> QED BY <1>1, <2>1, <1>busy, UsersStayKeepsBusy
       DEF Request, RefuseTime, SuspendOut, SuspendIn
<1>2. ASSUME NEW p \in Procs, GetFreeByName(p) PROVE BusyIsUsed'
    <2>1. UsersStay
        BY <1>2, <1>types DEF GetFreeByName, UsersStay, TypeOK
    <2>2. CASE isFree' = isFree
        BY <1>2, <2>1, <2>2, <1>busy, UsersStayKeepsBusy DEF GetFreeByName
    <2>3. ASSUME NEW d \in FreeDevices(asked[p]), Take(d),
                 callDev' = [callDev EXCEPT ![p] = d],
                 call' = [call EXCEPT ![p] = "assign"]
          PROVE  BusyIsUsed'
        <3>1. d \in Devices
            BY <1>types DEF FreeDevices, Named, TypeOK
        <3>2. call'[p] = "assign" /\ callDev'[p] = d
            BY <2>3, <1>types DEF TypeOK
        <3>3. <<"call", p>> \in Users(d)'
            BY <3>2 DEF Users
        <3>4. \A e \in Devices \ {d} : isFree'[e] = isFree[e]
            BY <2>3, <1>types DEF Take, TypeOK
        <3>5. registered' = registered
            BY <1>2 DEF GetFreeByName
        <3> QED BY <2>1, <3>3, <3>4, <3>5, <1>busy, <1>types, UsersStayKeepsBusy
           DEF TypeOK
    <2> QED BY <1>2, <2>2, <2>3 DEF GetFreeByName
<1>3. ASSUME NEW p \in Procs, RefuseUnknown(p) \/ NoteRequest(p) \/ Enqueue(p)
      PROVE  BusyIsUsed'
    <2>1. UsersStay
        BY <1>3, <1>types
           DEF RefuseUnknown, NoteRequest, Enqueue, EndCall, UsersStay, TypeOK
    <2> QED BY <1>3, <2>1, <1>busy, UsersStayKeepsBusy
       DEF RefuseUnknown, NoteRequest, Enqueue, EndCall
<1>4. ASSUME NEW p \in Procs, Assign(p) PROVE BusyIsUsed'
    <2>1. PICK d \in Devices : d = callDev[p]
        BY <1>4 DEF Assign, TypeInv, CallFields
    <2>2. <<"sent", p>> \in Users(d)'
        BY <1>4, <2>1 DEF Assign, DispatchToDevice, Users
    <2>3. \A e \in Devices \ {d} : Users(e) \subseteq Users(e)'
        BY <1>4, <2>1, <1>types DEF Assign, DispatchToDevice, EndCall, Users, TypeOK
    <2> QED BY <1>4, <2>2, <2>3, <1>busy, UserLeavesKeepsBusy DEF Assign
<1>5. ASSUME NEW p \in Procs, NEW d \in Devices, Accept(p, d) PROVE BusyIsUsed'
    <2>1. <<"sleep", p>> \in Users(d)'
        BY <1>5 DEF Accept, Users
    <2>2. \A e \in Devices \ {d} : Users(e) \subseteq Users(e)'
        BY <1>5 DEF Accept, Users
    <2> QED BY <1>5, <2>1, <2>2, <1>busy, UserLeavesKeepsBusy DEF Accept
<1>6. ASSUME NEW p \in Procs, NEW d \in Devices, Wake(p, d) PROVE BusyIsUsed'
    <2>1. PICK h \in Handlers : handler[h] = Idle /\ Become(h, Handling("free", d, p))
        BY <1>6 DEF Wake, Start
    <2>2. /\ handler'[h].at = "free" /\ handler'[h].port = d
          /\ \A k \in Handlers \ {h} : handler'[k] = handler[k]
          /\ handler[h].at = "idle"
        BY <2>1, BecomeOthers DEF Handling, Idle
    <2>3. <<"handler", h>> \in Users(d)'
        BY <2>2 DEF Users
    <2>4. \A e \in Devices \ {d} : Users(e) \subseteq Users(e)'
        BY <1>6, <2>2 DEF Wake, Users
    <2> QED BY <1>6, <2>3, <2>4, <1>busy, UserLeavesKeepsBusy DEF Wake
<1>7. ASSUME NEW d \in Devices, Connect(d) PROVE BusyIsUsed'
    <2>1. PICK h \in Handlers : handler[h] = Idle /\ Become(h, Handling("try", d, 0))
        BY <1>7 DEF Connect, Start
    <2>2. /\ \A k \in Handlers \ {h} : handler'[k] = handler[k]
          /\ handler[h].at = "idle"
        BY <2>1, BecomeOthers DEF Handling, Idle
    <2>3. UsersStay
        BY <1>7, <2>2 DEF Connect, UsersStay, HoldingStages
    <2>4. /\ registered' = registered \union {d} /\ isFree'[d]
          /\ \A e \in Devices \ {d} : isFree'[e] = isFree[e]
          /\ registered \subseteq Devices
        BY <1>7, <1>types DEF Connect, TypeOK
    <2> QED BY <2>3, <2>4, <1>busy, UsersStayAll DEF BusyIsUsed
<1>8. ASSUME NEW h \in Handlers, FinishFree(h) PROVE BusyIsUsed'
    <2>1. PICK d \in Devices : d = handler[h].port
        BY <1>8, HandlerTypes
           DEF FinishFree, HandlerStages, TryStages, FinishStages, NeedsPort
    <2>2. \A k \in Handlers \ {h} : handler'[k] = handler[k]
        BY <1>8, BecomeOthers DEF FinishFree
    <2>3. \A e \in Devices \ {d} : Users(e) \subseteq Users(e)'
        BY <1>8, <2>1, <2>2 DEF FinishFree, Users
    <2>4. /\ d \notin registered \/ isFree'[d]
          /\ \A e \in registered \ {d} : isFree'[e] = isFree[e]
        BY <1>8, <2>1, <1>types DEF FinishFree, FreeByPort, TypeOK
    <2> QED BY <1>8, <2>3, <2>4, <1>busy, UserLeavesKeepsBusy DEF FinishFree
<1>9. ASSUME NEW h \in Handlers, FinishFind(h) \/ FinishFindSuspended(h) \/ FinishMove(h) PROVE BusyIsUsed'
    <2>1. \A k \in Handlers \ {h} : handler'[k] = handler[k]
        BY <1>9, BecomeOthers
           DEF FinishFind, FinishFindSuspended, FinishMove, AfterUnblock, Goto, Done
    <2>2. UsersStay
        BY <1>9, <2>1 DEF FinishFind, FinishFindSuspended, FinishMove, UsersStay, HoldingStages
    <2> QED BY <1>9, <2>2, <1>busy, UsersStayKeepsBusy DEF FinishFind, FinishFindSuspended, FinishMove
<1>10. ASSUME NEW h \in Handlers, Try(h) PROVE BusyIsUsed'
    <2>1. \A k \in Handlers \ {h} : handler'[k] = handler[k]
        BY <1>10, BecomeOthers DEF Try, Done
    <2>2. UsersStay
        BY <1>10, <2>1 DEF Try, UsersStay, HoldingStages
    <2>3. CASE isFree' = isFree
        BY <1>10, <2>2, <2>3, <1>busy, UsersStayKeepsBusy DEF Try
    <2>4. ASSUME NEW d \in FreeDevices(NameOf[handler[h].port]),
                 Take(d), Become(h, Handling("dequeue", d, 0))
          PROVE  BusyIsUsed'
        <3>1. d \in Devices
            BY <1>types DEF FreeDevices, Named, TypeOK
        <3>2. handler'[h].at = "dequeue" /\ handler'[h].port = d
            BY <2>4, BecomeOthers DEF Handling
        <3>3. <<"handler", h>> \in Users(d)'
            BY <3>2 DEF Users
        <3>4. \A e \in Devices \ {d} : isFree'[e] = isFree[e]
            BY <2>4, <1>types DEF Take, TypeOK
        <3>5. registered' = registered
            BY <1>10 DEF Try
        <3> QED BY <2>2, <3>3, <3>4, <3>5, <1>busy, <1>types, UsersStayKeepsBusy
           DEF TypeOK
    <2> QED BY <1>10, <2>3, <2>4 DEF Try
<1>11. ASSUME NEW h \in Handlers, Dequeue(h) PROVE BusyIsUsed'
    <2>1. /\ \A k \in Handlers \ {h} : handler'[k] = handler[k]
          /\ handler'[h].at \in {"giveBack", "dispatch"}
          /\ handler'[h].port = handler[h].port
        BY <1>11, BecomeOthers DEF Dequeue, Goto, Handling
    <2>2. UsersStay
        BY <1>11, <2>1 DEF Dequeue, UsersStay, HoldingStages
    <2> QED BY <1>11, <2>2, <1>busy, UsersStayKeepsBusy DEF Dequeue
<1>12. ASSUME NEW h \in Handlers, GiveBack(h) PROVE BusyIsUsed'
    <2>1. PICK d \in Devices : d = handler[h].port
        BY <1>12, HandlerTypes
           DEF GiveBack, HandlerStages, TryStages, FinishStages, NeedsPort
    <2>2. \A k \in Handlers \ {h} : handler'[k] = handler[k]
        BY <1>12, BecomeOthers DEF GiveBack, Done
    <2>3. \A e \in Devices \ {d} : Users(e) \subseteq Users(e)'
        BY <1>12, <2>1, <2>2 DEF GiveBack, Users
    <2>4. /\ d \notin registered \/ isFree'[d]
          /\ \A e \in registered \ {d} : isFree'[e] = isFree[e]
        BY <1>12, <2>1, <1>types DEF GiveBack, FreeByPort, TypeOK
    <2> QED BY <1>12, <2>3, <2>4, <1>busy, UserLeavesKeepsBusy DEF GiveBack
<1>13. ASSUME NEW h \in Handlers, Dispatch(h) PROVE BusyIsUsed'
    <2>1. PICK p \in Procs, d \in Devices : p = handler[h].pid /\ d = handler[h].port
        BY <1>13, HandlerTypes
           DEF Dispatch, HandlerStages, TryStages, NeedsPort, NeedsPid
    <2>2. pendingReq[p] # NoName
        BY <1>13, <2>1 DEF Dispatch, PlacesInv, RequestsNoted
    <2>3. inflight' = inflight \union {<<p, d>>}
        BY <1>13, <2>1, <2>2 DEF Dispatch, DispatchToDevice
    <2>4. \A k \in Handlers \ {h} : handler'[k] = handler[k]
        BY <1>13, BecomeOthers DEF Dispatch, Done
    <2>5. <<"sent", p>> \in Users(d)'
        BY <2>3 DEF Users
    <2>6. \A e \in Devices \ {d} : Users(e) \subseteq Users(e)'
        <3>1. UNCHANGED <<call, callDev, sleeping>>
            BY <1>13 DEF Dispatch
        <3> QED BY <3>1, <2>1, <2>3, <2>4 DEF Users
    <2> QED BY <1>13, <2>5, <2>6, <1>busy, UserLeavesKeepsBusy DEF Dispatch
<1> QED
    BY <1>0, <1>1, <1>2, <1>3, <1>4, <1>5, <1>6, <1>7, <1>8, <1>9, <1>10,
       <1>11, <1>12, <1>13, <1>busy, StepsThatRemain
       DEF Syscall, Finishing, Trying

(* A process that was not found in QueueBlocked does not come there while  *)
(* it is searched for in QueueSuspBlocked.                                 *)
MissedIsNotBlocked ==
    \A h \in Handlers : handler[h].at = "findSusp" => estado[handler[h].pid] # "BLOCKED"

LEMMA OnlyRequestsBlock ==
    ASSUME ModulesStay, TypeInv, NobodyLeaves, [Next]_vars, NEW p \in Procs,
           estado'[p] = "BLOCKED", estado[p] # "BLOCKED"
    PROVE  Request(p)
<1> USE DEF pcbVars, poolVars, callVars, requestVars
<1>types. estado \in [Procs -> Estados]
    BY DEF TypeInv, TypeOK
<1>0. Next
    BY DEF vars
<1>1. ASSUME NEW q \in Procs, NEW s, s # "BLOCKED", Move(q, s) PROVE FALSE
    BY <1>1, <1>types DEF Move
<1>2. ASSUME NEW q \in Procs, Request(q) PROVE q = p
    BY <1>2, <1>types DEF Request, Move
<1>3. ASSUME NEW q \in Procs, SuspendOut(q) PROVE FALSE
    BY <1>3, <1>types DEF SuspendOut
<1>4. ASSUME NEW q \in Procs, RefuseTime(q) \/ RefuseUnknown(q) PROVE FALSE
    BY <1>1, <1>4 DEF RefuseTime, RefuseUnknown
<1>5. ASSUME NEW q \in Procs, \/ GetFreeByName(q) \/ NoteRequest(q) \/ Enqueue(q)
                              \/ Assign(q) \/ SuspendIn(q)
      PROVE  FALSE
    BY <1>5 DEF GetFreeByName, NoteRequest, Enqueue, Assign, SuspendIn
<1>6. ASSUME NEW q \in Procs, NEW d \in Devices, Accept(q, d) \/ Wake(q, d)
      PROVE  FALSE
    BY <1>6 DEF Accept, Wake
<1>7. ASSUME NEW d \in Devices, Connect(d) PROVE FALSE
    BY <1>7 DEF Connect
<1>8. ASSUME NEW h \in Handlers, Finishing(h) PROVE FALSE
    BY <1>8, <1>types
       DEF Finishing, FinishFree, FinishFind, FinishFindSuspended, FinishMove, Move
<1>9. ASSUME NEW h \in Handlers, Trying(h) PROVE FALSE
    BY <1>9, <1>types DEF Trying, Try, Dequeue, GiveBack, Dispatch, Move
<1> QED BY <1>0, <1>2, <1>3, <1>4, <1>5, <1>6, <1>7, <1>8, <1>9, StepsThatRemain
   DEF Syscall

(* A handler comes to "findSusp" only from a Find in QueueBlocked.         *)
LEMMA OnlyFindMisses ==
    ASSUME TypeInv, ModulesStay, NobodyLeaves, [Next]_vars, NEW h \in Handlers,
           handler'[h].at = "findSusp", handler'[h] # handler[h]
    PROVE  FinishFind(h) /\ ~InBlocked(handler[h].pid) /\ handler'[h].pid = handler[h].pid
<1> USE DEF pcbVars, poolVars, callVars, requestVars
<1>types. handler \in [Handlers -> Handlings]
    BY DEF TypeInv, TypeOK
<1>0. Next
    BY DEF vars
<1>become. ASSUME NEW k \in Handlers, NEW r, Become(k, r)
           PROVE  k = h /\ r.at = "findSusp"
    BY <1>become, <1>types DEF Become
<1>handling. ASSUME NEW k \in Handlers, NEW stage, NEW d, NEW p,
                    Become(k, Handling(stage, d, p))
             PROVE  k = h /\ stage = "findSusp"
    BY <1>handling, <1>become DEF Handling
<1>1. ASSUME NEW q \in Procs, \/ Request(q) \/ RefuseTime(q) \/ Syscall(q)
                              \/ SuspendOut(q) \/ SuspendIn(q)
      PROVE  FALSE
    BY <1>1
       DEF Request, RefuseTime, Syscall, SuspendOut, SuspendIn, GetFreeByName,
           RefuseUnknown, NoteRequest, Enqueue, Assign, EndCall
<1>2. ASSUME NEW stage, stage # "findSusp", NEW d, NEW p, Start(stage, d, p) PROVE FALSE
    BY <1>2, <1>handling DEF Start
<1>3. ASSUME NEW q \in Procs, NEW d \in Devices, Accept(q, d) \/ Wake(q, d)
      PROVE  FALSE
    BY <1>3, <1>2 DEF Accept, Wake
<1>4. ASSUME NEW d \in Devices, Connect(d) PROVE FALSE
    BY <1>4, <1>2 DEF Connect
<1>5. ASSUME NEW k \in Handlers, Trying(k) PROVE FALSE
    BY <1>5, <1>handling
       DEF Trying, Try, Dequeue, GiveBack, Dispatch, Goto, Done, Idle
<1>6. ASSUME NEW k \in Handlers, \/ FinishFree(k) \/ FinishFindSuspended(k)
                                 \/ FinishMove(k)
      PROVE  FALSE
    BY <1>6, <1>handling
       DEF FinishFree, FinishFindSuspended, FinishMove, AfterUnblock, Goto, Done, Idle
<1>7. ASSUME NEW k \in Handlers, FinishFind(k)
      PROVE  FinishFind(h) /\ ~InBlocked(handler[h].pid) /\ handler'[h].pid = handler[h].pid
    <2>1. PICK stage : /\ Goto(k, stage)
                       /\ stage = IF InBlocked(handler[k].pid) THEN "toReady" ELSE "findSusp"
        BY <1>7 DEF FinishFind
    <2>2. k = h /\ stage = "findSusp"
        BY <2>1, <1>handling DEF Goto
    <2>3. handler'[h] = Handling("findSusp", handler[h].port, handler[h].pid)
        BY <2>1, <2>2, <1>types DEF Goto, Become
    <2> QED BY <1>7, <2>1, <2>2, <2>3 DEF Handling
<1> QED BY <1>0, <1>1, <1>3, <1>4, <1>5, <1>6, <1>7, StepsThatRemain DEF Finishing

LEMMA MissedStep ==
    ASSUME ModulesStay, TypeInv, PlacesInv, NobodyLeaves, MissedIsNotBlocked, [Next]_vars
    PROVE  MissedIsNotBlocked'
<1> SUFFICES ASSUME NEW h \in Handlers, handler'[h].at = "findSusp",
                    estado'[handler'[h].pid] = "BLOCKED"
             PROVE  FALSE
    BY DEF MissedIsNotBlocked
<1> USE DEF pcbVars
<1>1. CASE handler'[h] = handler[h]
    <2>1. PICK p \in Procs : p = handler[h].pid
        BY <1>1, HandlerTypes DEF NeedsPid
    <2>2. Request(p)
        BY <1>1, <2>1, OnlyRequestsBlock DEF MissedIsNotBlocked
    <2>3. <<"handler", h>> \in Places(p)
        BY <1>1, <2>1, PlacesKnown DEF NeedsPid
    <2> QED BY <2>2, <2>3 DEF Request, PlacesInv, ActiveIsNowhere
<1>2. CASE handler'[h] # handler[h]
    <2>1. FinishFind(h) /\ ~InBlocked(handler[h].pid) /\ handler'[h].pid = handler[h].pid
        BY <1>2, OnlyFindMisses
    <2> QED BY <2>1 DEF FinishFind, InBlocked
<1> QED BY <1>1, <1>2

PoolInv == TypeInv /\ PlacesInv /\ Exclusion /\ StayInv /\ MissedIsNotBlocked

LEMMA PoolInvStep == ModulesStay /\ PoolInv /\ [Next]_vars => PoolInv'
BY TypeInvStep, PlacesStep, ExclusionStep, NobodyLeavesStep, EndedIsNowhereStep,
   BusyIsUsedStep, MissedStep
   DEF PoolInv, StayInv

LEMMA InitPoolInv == Init => PoolInv
<1>1. Init => MissedIsNotBlocked
    BY DEF Init, MissedIsNotBlocked, Idle, Handling
<1> QED BY <1>1, InitTypeInv, InitPlaces, InitExclusion, InitStay DEF PoolInv

LEMMA AlwaysPoolInv == ASSUME ModulesStay PROVE Spec => []PoolInv
<1>1. Init => PoolInv
    BY InitPoolInv
<1>2. PoolInv /\ [Next]_vars => PoolInv'
    BY PoolInvStep
<1> QED BY <1>1, <1>2, PTL DEF Spec

(* While no module goes away, a process in a waiting queue is blocked or   *)
(* suspended: no other event moves or ends it meanwhile (QueuedIsBlocked). *)
THEOREM QueuedAreBlocked == ASSUME ModulesStay PROVE Spec => []QueuedIsBlocked
<1>1. PoolInv => QueuedIsBlocked
    <2> SUFFICES ASSUME PoolInv, NEW n \in Names, NEW p \in Procs, InQueue(p, n)
                 PROVE  estado[p] \in {"BLOCKED", "SUSPEND_BLOCKED"}
        BY DEF QueuedIsBlocked
    <2>1. Places(p) # {}
        BY PlacesKnown
    <2>2. estado[p] # "ACTIVE" /\ estado[p] # "EXIT" /\ estado[p] \in Estados
        BY <2>1
           DEF PoolInv, PlacesInv, ActiveIsNowhere, StayInv, EndedIsNowhere,
               TypeInv, TypeOK
    <2> QED BY <2>2 DEF Estados
<1> QED BY AlwaysPoolInv, <1>1, PTL

(* While no module goes away, a device of the pool is marked busy exactly  *)
(* when somebody has it: none is lost, none is given twice (BusyMeansUsed).*)
THEOREM NoDeviceIsLost == ASSUME ModulesStay PROVE Spec => []BusyMeansUsed
<1>1. PoolInv => BusyMeansUsed
    BY DEF PoolInv, BusyMeansUsed, Exclusion, FreeIsUnused, StayInv, BusyIsUsed
<1> QED BY AlwaysPoolInv, <1>1, PTL
-----------------------------------------------------------------------------
(* The refinement of the abstract pool, while no module goes away.         *)
FinishedBy(p) ==
    \E h \in Handlers : handler[h].at \in {"find", "findSusp", "toReady"} /\ handler[h].pid = p

Asks(p) == call[p] # "none" \/ \E n \in Names : InQueue(p, n)

Blocked(p) == estado[p] \in {"BLOCKED", "SUSPEND_BLOCKED"}

(* What the pool sees of a process, in terms of where the process is.      *)
Viewed ==
    \A p \in Procs :
        /\ \A d \in Devices : UsesDevice(p, d) => AbstractUse(p) = d
        /\ (\A d \in Devices : ~UsesDevice(p, d)) => AbstractUse(p) = NoDevice
        /\ estado[p] = "EXIT" => AbstractUser(p) = "ended"
        /\ estado[p] = "ACTIVE" => AbstractUser(p) = "away"
        /\ Blocked(p) =>
              /\ \A d \in Devices : UsesDevice(p, d) => AbstractUser(p) = "using"
              /\ (\A d \in Devices : ~UsesDevice(p, d)) =>
                    AbstractUser(p) = IF FinishedBy(p) THEN "finished"
                                      ELSE IF Asks(p) THEN "asking" ELSE "forgotten"
        /\ \A d \in Devices : UsesDevice(p, d) => Blocked(p)
        /\ FinishedBy(p) => Blocked(p) /\ \A d \in Devices : ~UsesDevice(p, d)

LEMMA UsePlace ==
    ASSUME PoolInv, NEW p \in Procs, NEW d \in Devices, UsesDevice(p, d)
    PROVE  \E u \in Places(p) :
              \/ u = <<"call", p>> /\ callDev[p] = d
              \/ u = <<"sent", d>> \/ u = <<"sleep", d>>
              \/ \E h \in Handlers : /\ u = <<"handler", h>> /\ handler[h].port = d
                                     /\ handler[h].at \in {"dispatch", "free"}
BY PlacesKnown DEF UsesDevice, NeedsPid

LEMMA PoolInvView == PoolInv => Viewed
<1> SUFFICES ASSUME PoolInv, NEW p \in Procs
             PROVE  /\ \A d \in Devices : UsesDevice(p, d) => AbstractUse(p) = d
                    /\ (\A d \in Devices : ~UsesDevice(p, d)) => AbstractUse(p) = NoDevice
                    /\ estado[p] = "EXIT" => AbstractUser(p) = "ended"
                    /\ estado[p] = "ACTIVE" => AbstractUser(p) = "away"
                    /\ Blocked(p) =>
                          /\ \A d \in Devices : UsesDevice(p, d) => AbstractUser(p) = "using"
                          /\ (\A d \in Devices : ~UsesDevice(p, d)) =>
                                AbstractUser(p) = IF FinishedBy(p) THEN "finished"
                                      ELSE IF Asks(p) THEN "asking" ELSE "forgotten"
                    /\ \A d \in Devices : UsesDevice(p, d) => Blocked(p)
                    /\ FinishedBy(p) => Blocked(p) /\ \A d \in Devices : ~UsesDevice(p, d)
    BY DEF Viewed
<1>0. NoDevice \notin Devices
    BY DevicesAssumption
<1>1. ASSUME NEW d \in Devices, NEW e \in Devices, UsesDevice(p, d), UsesDevice(p, e)
      PROVE  d = e
    <2>1. \A u, v \in Places(p) : u = v
        BY DEF PoolInv, PlacesInv, OnePlace
    <2> QED BY <1>1, <2>1, UsePlace
<1>2. ASSUME NEW d \in Devices, UsesDevice(p, d) PROVE AbstractUse(p) = d
    BY <1>1, <1>2 DEF AbstractUse
<1>3. ASSUME \A d \in Devices : ~UsesDevice(p, d) PROVE AbstractUse(p) = NoDevice
    BY <1>3 DEF AbstractUse
<1>place. Places(p) # {} => Blocked(p)
    BY DEF PoolInv, PlacesInv, ActiveIsNowhere, StayInv, EndedIsNowhere,
           TypeInv, TypeOK, Blocked, Estados
<1>4. ASSUME NEW d \in Devices, UsesDevice(p, d) PROVE Blocked(p)
    BY <1>4, <1>place, UsePlace
<1>9. ASSUME FinishedBy(p)
      PROVE  Blocked(p) /\ \A d \in Devices : ~UsesDevice(p, d)
    <2>1. PICK h \in Handlers : handler[h].at \in {"find", "findSusp", "toReady"} /\ handler[h].pid = p
        BY <1>9 DEF FinishedBy
    <2>2. <<"handler", h>> \in Places(p)
        BY <2>1, PlacesKnown DEF NeedsPid
    <2>3. \A u \in Places(p) : u = <<"handler", h>>
        BY <2>2 DEF PoolInv, PlacesInv, OnePlace
    <2>4. ASSUME NEW d \in Devices, UsesDevice(p, d) PROVE FALSE
        <3>1. PICK u \in Places(p) :
                 \/ u = <<"call", p>> \/ u = <<"sent", d>> \/ u = <<"sleep", d>>
                 \/ \E k \in Handlers : u = <<"handler", k>> /\ handler[k].at \in {"dispatch", "free"}
            BY <2>4, UsePlace
        <3> QED BY <3>1, <2>1, <2>3
    <2> QED BY <2>2, <2>4, <1>place
<1>5. estado[p] = "EXIT" => AbstractUser(p) = "ended"
    BY DEF AbstractUser
<1>6. estado[p] = "ACTIVE" => AbstractUser(p) = "away"
    BY DEF AbstractUser
<1>7. ASSUME Blocked(p), NEW d \in Devices, UsesDevice(p, d)
      PROVE  AbstractUser(p) = "using"
    <2>1. AbstractUse(p) # NoDevice
        BY <1>0, <1>2, <1>7
    <2>2. estado[p] # "EXIT" /\ estado[p] # "ACTIVE"
        BY <1>7 DEF Blocked
    <2> QED BY <2>1, <2>2 DEF AbstractUser
<1>8. ASSUME Blocked(p), \A d \in Devices : ~UsesDevice(p, d)
      PROVE  AbstractUser(p) = IF FinishedBy(p) THEN "finished"
                                      ELSE IF Asks(p) THEN "asking" ELSE "forgotten"
    <2>1. AbstractUse(p) = NoDevice
        BY <1>3, <1>8
    <2>2. estado[p] # "EXIT" /\ estado[p] # "ACTIVE"
        BY <1>8 DEF Blocked
    <2> QED BY <2>1, <2>2 DEF AbstractUser, FinishedBy, Asks
<1> QED BY <1>2, <1>3, <1>4, <1>5, <1>6, <1>7, <1>8, <1>9

LEMMA PoolInvViewNext == PoolInv' => Viewed'
BY PoolInvView, PTL

(* A process whose use, end of use and state, up to suspension, are the    *)
(* same is seen by the pool as it was.                                     *)
SameView(p) ==
    /\ \A d \in Devices : UsesDevice(p, d)' <=> UsesDevice(p, d)
    /\ (\A d \in Devices : ~UsesDevice(p, d)) => (FinishedBy(p)' <=> FinishedBy(p))
    /\ (\A d \in Devices : ~UsesDevice(p, d)) /\ ~FinishedBy(p)
          => (Asks(p)' <=> Asks(p))
    /\ estado'[p] = estado[p] \/ (Blocked(p) /\ Blocked(p)')

LEMMA SameViewIs ==
    ASSUME PoolInv, PoolInv', NEW p \in Procs, SameView(p)
    PROVE  AbstractUser(p)' = AbstractUser(p) /\ AbstractUse(p)' = AbstractUse(p)
<1>1. Viewed /\ Viewed'
    BY PoolInvView, PoolInvViewNext
<1>2. AbstractUse(p)' = AbstractUse(p)
    <2>1. CASE \E d \in Devices : UsesDevice(p, d)
        BY <1>1, <2>1 DEF Viewed, SameView
    <2>2. CASE \A d \in Devices : ~UsesDevice(p, d)
        BY <1>1, <2>2 DEF Viewed, SameView
    <2> QED BY <2>1, <2>2
<1>3. AbstractUser(p)' = AbstractUser(p)
    <2>1. estado[p] \in Estados
        BY DEF PoolInv, TypeInv, TypeOK
    <2>2. CASE estado[p] \in {"EXIT", "ACTIVE"}
        BY <1>1, <2>2 DEF Viewed, SameView, Blocked
    <2>3. CASE Blocked(p) /\ \A d \in Devices : ~UsesDevice(p, d)
        <3>1. Blocked(p)' /\ \A d \in Devices : ~UsesDevice(p, d)'
            BY <2>3 DEF SameView, Blocked
        <3> QED BY <1>1, <2>3, <3>1 DEF Viewed, SameView
    <2>4. CASE Blocked(p) /\ \E d \in Devices : UsesDevice(p, d)
        <3>1. Blocked(p)' /\ \E d \in Devices : UsesDevice(p, d)'
            BY <2>4 DEF SameView, Blocked
        <3> QED BY <1>1, <2>4, <3>1 DEF Viewed
    <2> QED BY <2>1, <2>2, <2>3, <2>4 DEF Estados, Blocked
<1> QED BY <1>2, <1>3

absUser == [p \in Procs |-> AbstractUser(p)]
absUses == [p \in Procs |-> AbstractUse(p)]

LEMMA StutterIs ==
    ASSUME PoolInv, PoolInv', \A p \in Procs : SameView(p),
           UNCHANGED <<registered, suspending>>
    PROVE  UNCHANGED <<absUser, absUses, suspending, registered>>
BY SameViewIs DEF absUser, absUses

LEMMA OneChanges ==
    ASSUME PoolInv, PoolInv', NEW p \in Procs, \A q \in Procs \ {p} : SameView(q)
    PROVE  /\ absUser' = [absUser EXCEPT ![p] = AbstractUser(p)']
           /\ absUses' = [absUses EXCEPT ![p] = AbstractUse(p)']
BY SameViewIs DEF absUser, absUses

(* No handler starts or stops to serve p.                                  *)
Serves(h, p) == handler[h].at \in NeedsPid /\ handler[h].pid = p

Untouched(p) ==
    /\ call[p] = "assign" \/ call'[p] = "assign" =>
          call'[p] = call[p] /\ callDev'[p] = callDev[p]
    /\ \A d \in Devices : <<p, d>> \in inflight' \union sleeping' <=>
                          <<p, d>> \in inflight \union sleeping
    /\ \A h \in Handlers : \/ handler'[h] = handler[h]
                           \/ ~Serves(h, p) /\ ~Serves(h, p)'

LEMMA UntouchedUse ==
    ASSUME NEW p \in Procs, Untouched(p)
    PROVE  /\ \A d \in Devices : UsesDevice(p, d)' <=> UsesDevice(p, d)
           /\ FinishedBy(p)' <=> FinishedBy(p)
<1>1. ASSUME NEW d \in Devices PROVE UsesDevice(p, d)' <=> UsesDevice(p, d)
    <2>1. (call'[p] = "assign" /\ callDev'[p] = d) <=> (call[p] = "assign" /\ callDev[p] = d)
        BY DEF Untouched
    <2>2. <<p, d>> \in inflight' \union sleeping' <=> <<p, d>> \in inflight \union sleeping
        BY DEF Untouched
    <2>3. ASSUME NEW h \in Handlers
          PROVE  (/\ handler'[h].at \in {"dispatch", "free"}
                  /\ handler'[h].pid = p /\ handler'[h].port = d)
             <=> (/\ handler[h].at \in {"dispatch", "free"}
                  /\ handler[h].pid = p /\ handler[h].port = d)
        BY DEF Untouched, Serves, NeedsPid
    <2> QED BY <2>1, <2>2, <2>3 DEF UsesDevice
<1>2. ASSUME NEW h \in Handlers
      PROVE  (handler'[h].at \in {"find", "findSusp", "toReady"} /\ handler'[h].pid = p)
         <=> (handler[h].at \in {"find", "findSusp", "toReady"} /\ handler[h].pid = p)
    BY DEF Untouched, Serves, NeedsPid
<1> QED BY <1>1, <1>2 DEF FinishedBy

LEMMA UntouchedView ==
    ASSUME NEW p \in Procs, Untouched(p), estado'[p] = estado[p], Asks(p)' <=> Asks(p)
    PROVE  SameView(p)
BY UntouchedUse DEF SameView

(* A process that goes on using its device is seen as before.              *)
LEMMA KeepsUse ==
    ASSUME PoolInv, PoolInv', NEW p \in Procs, NEW d \in Devices,
           UsesDevice(p, d), UsesDevice(p, d)', estado'[p] = estado[p]
    PROVE  SameView(p)
<1>1. Viewed /\ Viewed'
    BY PoolInvView, PoolInvViewNext
<1>2. \A e \in Devices : UsesDevice(p, e) => e = d
    BY <1>1 DEF Viewed
<1>3. \A e \in Devices : UsesDevice(p, e)' => e = d
    BY <1>1 DEF Viewed
<1> QED BY <1>2, <1>3 DEF SameView

(* Who is in its syscall without a device, in a queue or nowhere uses none.*)
LEMMA NotServed ==
    ASSUME PoolInv, NEW p \in Procs,
           \/ call[p] \notin {"none", "assign"}
           \/ \E n \in Names : InQueue(p, n)
           \/ Places(p) = {}
    PROVE  /\ (\A d \in Devices : ~UsesDevice(p, d)) /\ ~FinishedBy(p)
           /\ Places(p) # {} => Asks(p)
<1>one. \A u, v \in Places(p) : u = v
    BY DEF PoolInv, PlacesInv, OnePlace
<1>1. ASSUME NEW d \in Devices, UsesDevice(p, d) PROVE FALSE
    <2>1. PICK u \in Places(p) :
              \/ u = <<"call", p>> /\ callDev[p] = d
              \/ u = <<"sent", d>> \/ u = <<"sleep", d>>
              \/ \E h \in Handlers : /\ u = <<"handler", h>> /\ handler[h].port = d
                                     /\ handler[h].at \in {"dispatch", "free"}
        BY <1>1, UsePlace
    <2>2. CASE call[p] \notin {"none", "assign"}
        <3>1. \A v \in Places(p) : v = <<"call", p>>
            BY <2>2, <1>one, PlacesKnown
        <3>2. call[p] # "assign"
            BY <2>2
        <3>3. \A e \in Devices : <<p, e>> \notin inflight \union sleeping
            BY <3>1, PlacesKnown
        <3>4. \A h \in Handlers : ~(handler[h].at \in NeedsPid /\ handler[h].pid = p)
            BY <3>1, PlacesKnown
        <3> QED BY <1>1, <3>2, <3>3, <3>4 DEF UsesDevice, NeedsPid
    <2>3. ASSUME NEW n \in Names, InQueue(p, n) PROVE FALSE
        BY <2>1, <2>3, <1>one, PlacesKnown
    <2> QED BY <2>1, <2>2, <2>3
<1>2. ASSUME FinishedBy(p) PROVE FALSE
    <2>1. PICK h \in Handlers : <<"handler", h>> \in Places(p)
        BY <1>2, PlacesKnown DEF FinishedBy, NeedsPid
    <2> QED BY <2>1, <1>one, PlacesKnown
<1>3. Places(p) # {} => Asks(p)
    BY DEF Asks
<1> QED BY <1>1, <1>2, <1>3

(* A process that uses a device is one of its users.                       *)
LEMMA UseIsUser ==
    ASSUME NEW p \in Procs, NEW d \in Devices, UsesDevice(p, d)
    PROVE  \E u \in Users(d) :
              \/ u \in {<<"call", p>>, <<"sent", p>>, <<"sleep", p>>}
              \/ \E h \in Handlers : /\ u = <<"handler", h>>
                                     /\ handler[h].at \in {"dispatch", "free"}
BY UsersKnown DEF UsesDevice, HoldingStages

LEMMA UsedIsSeen ==
    ASSUME PoolInv, NEW p \in Procs, NEW d \in Devices, AbstractUse(p) = d
    PROVE  UsesDevice(p, d)
<1>1. Viewed /\ NoDevice \notin Devices
    BY PoolInvView, DevicesAssumption
<1> QED BY <1>1 DEF Viewed

LEMMA InitImplements == Init => Pool!Init
<1> SUFFICES ASSUME Init PROVE Pool!Init
    OBVIOUS
<1>1. PoolInv
    BY InitPoolInv
<1>2. ASSUME NEW p \in Procs
      PROVE  AbstractUser(p) = "away" /\ AbstractUse(p) = NoDevice
    <2>1. estado[p] = "ACTIVE" /\ Viewed
        BY <1>1, PoolInvView DEF Init
    <2>2. \A d \in Devices : ~UsesDevice(p, d)
        BY <2>1 DEF Viewed, Blocked
    <2> QED BY <2>1, <2>2 DEF Viewed
<1> QED BY <1>2 DEF Init, Pool!Init


(* A process that is given a device nobody uses.                           *)
LEMMA GrantImplements ==
    ASSUME PoolInv, PoolInv', NEW p \in Procs, NEW d \in Devices,
           d \in registered, registered' = registered,
           \A q \in Procs : AbstractUse(q) # d,
           \A q \in Procs \ {p} : SameView(q),
           Blocked(p), \A e \in Devices : ~UsesDevice(p, e), ~FinishedBy(p), Asks(p),
           UsesDevice(p, d)', suspending' = suspending
    PROVE  Pool!Grant(p, d)
<1>1. Viewed /\ Viewed'
    BY PoolInvView, PoolInvViewNext
<1>2. AbstractUser(p) = "asking"
    BY <1>1 DEF Viewed
<1>3. AbstractUser(p)' = "using" /\ AbstractUse(p)' = d
    BY <1>1 DEF Viewed
<1>4. /\ absUser' = [absUser EXCEPT ![p] = "using"]
      /\ absUses' = [absUses EXCEPT ![p] = d]
    BY <1>3, OneChanges
<1> QED BY <1>2, <1>4 DEF Pool!Grant, Pool!Become, absUser, absUses

(* A step by which only the state of p changes for the pool, p not using   *)
(* any device before or after.                                             *)
LEMMA BecomeImplements ==
    ASSUME PoolInv, PoolInv', NEW p \in Procs, registered' = registered,
           \A q \in Procs \ {p} : SameView(q),
           \A e \in Devices : ~UsesDevice(p, e),
           \A e \in Devices : ~UsesDevice(p, e)'
    PROVE  /\ absUser' = [absUser EXCEPT ![p] = AbstractUser(p)']
           /\ UNCHANGED <<absUses, registered>>
<1>1. Viewed /\ Viewed'
    BY PoolInvView, PoolInvViewNext
<1>2. AbstractUse(p)' = AbstractUse(p)
    BY <1>1 DEF Viewed
<1>3. /\ absUser' = [absUser EXCEPT ![p] = AbstractUser(p)']
      /\ absUses' = [absUses EXCEPT ![p] = AbstractUse(p)']
    BY OneChanges
<1> QED BY <1>2, <1>3 DEF absUses

LEMMA StepImplements ==
    ModulesStay /\ PoolInv /\ PoolInv' /\ [Next]_vars => [Pool!Next]_(Pool!vars)
<1> SUFFICES ASSUME ModulesStay, PoolInv, PoolInv', [Next]_vars
             PROVE  Pool!Next \/ UNCHANGED <<absUser, absUses, suspending, registered>>
    BY DEF Pool!vars, absUser, absUses
<1> USE DEF pcbVars, poolVars, callVars, requestVars
<1>types. TypeInv /\ TypeOK
    BY DEF PoolInv, TypeInv
<1>view. Viewed /\ Viewed'
    BY PoolInvView, PoolInvViewNext
<1>blocked. \A p \in Procs : Places(p) # {} => Blocked(p)
    BY <1>types
       DEF PoolInv, PlacesInv, ActiveIsNowhere, StayInv, EndedIsNowhere,
           TypeOK, Blocked, Estados
<1>asks. ASSUME NEW q \in Procs, UNCHANGED waiting, call'[q] = call[q]
         PROVE  Asks(q)' <=> Asks(q)
    BY <1>asks DEF Asks, InQueue
<1>0. CASE UNCHANGED vars
    <2>1. \A q \in Procs : SameView(q)
        BY <1>0, <1>asks, UntouchedView DEF Untouched, vars
    <2> QED BY <1>0, <2>1, StutterIs DEF vars
<1>1. ASSUME NEW p \in Procs, Request(p) PROVE Pool!Ask(p)
    <2>1. \A q \in Procs : Untouched(q)
        BY <1>1, <1>types DEF Request, Untouched, TypeOK
    <2>2. /\ \A q \in Procs \ {p} : estado'[q] = estado[q]
          /\ estado[p] = "ACTIVE" /\ estado'[p] = "BLOCKED"
          /\ UNCHANGED <<registered, waiting, suspending>>
          /\ call'[p] # "none" /\ \A q \in Procs \ {p} : call'[q] = call[q]
        BY <1>1, <1>types DEF Request, Move, TypeOK
    <2>3. \A q \in Procs \ {p} : SameView(q)
        BY <2>1, <2>2, <1>asks, UntouchedView
    <2>4. (\A d \in Devices : ~UsesDevice(p, d)) /\ ~FinishedBy(p)
        BY <2>2, <1>view DEF Viewed, Blocked
    <2>5. (\A d \in Devices : ~UsesDevice(p, d)') /\ ~FinishedBy(p)'
        BY <2>1, <2>4, UntouchedUse
    <2>6. AbstractUser(p) = "away" /\ AbstractUser(p)' = "asking"
        <3>1. Asks(p)' /\ Blocked(p)'
            BY <2>2 DEF Asks, Blocked
        <3> QED BY <2>2, <2>5, <3>1, <1>view DEF Viewed
    <2>7. absUser' = [absUser EXCEPT ![p] = "asking"] /\ UNCHANGED <<absUses, registered>>
        BY <2>2, <2>3, <2>4, <2>5, <2>6, BecomeImplements
    <2> QED BY <2>2, <2>6, <2>7 DEF Pool!Ask, Pool!Become, absUser, absUses
<1>2. ASSUME NEW p \in Procs, RefuseTime(p) PROVE Pool!Refuse(p)
    <2>1. \A q \in Procs : Untouched(q)
        BY <1>2, <1>types DEF RefuseTime, Untouched, TypeOK
    <2>2. /\ \A q \in Procs \ {p} : estado'[q] = estado[q]
          /\ estado[p] = "ACTIVE" /\ estado'[p] = "EXIT"
          /\ UNCHANGED <<registered, waiting, suspending, call>>
        BY <1>2, <1>types DEF RefuseTime, Move, TypeOK
    <2>3. \A q \in Procs \ {p} : SameView(q)
        BY <2>1, <2>2, <1>asks, UntouchedView
    <2>4. \A d \in Devices : ~UsesDevice(p, d)
        BY <2>2, <1>view DEF Viewed, Blocked
    <2>5. \A d \in Devices : ~UsesDevice(p, d)'
        BY <2>1, <2>4, UntouchedUse
    <2>6. AbstractUser(p) = "away" /\ AbstractUser(p)' = "ended"
        BY <2>2, <1>view DEF Viewed
    <2>7. absUser' = [absUser EXCEPT ![p] = "ended"] /\ UNCHANGED <<absUses, registered>>
        BY <2>2, <2>3, <2>4, <2>5, <2>6, BecomeImplements
    <2> QED BY <2>2, <2>6, <2>7 DEF Pool!Refuse, Pool!Become, absUser, absUses
<1>3. ASSUME NEW p \in Procs, RefuseUnknown(p) PROVE Pool!Refuse(p)
    <2>1. /\ call[p] = "noDevice" /\ call'[p] = "none"
          /\ \A q \in Procs \ {p} : call'[q] = call[q] /\ callDev'[q] = callDev[q]
          /\ UNCHANGED <<inflight, sleeping, handler, registered, waiting, suspending>>
          /\ \A q \in Procs \ {p} : estado'[q] = estado[q]
          /\ estado'[p] = "EXIT"
        BY <1>3, <1>types DEF RefuseUnknown, EndCall, Move, TypeOK
    <2>2. \A q \in Procs : Untouched(q)
        BY <2>1 DEF Untouched
    <2>3. \A q \in Procs \ {p} : SameView(q)
        BY <2>1, <2>2, <1>asks, UntouchedView
    <2>4. (\A d \in Devices : ~UsesDevice(p, d)) /\ ~FinishedBy(p) /\ Asks(p)
        BY <2>1, NotServed DEF Asks
    <2>5. \A d \in Devices : ~UsesDevice(p, d)'
        BY <2>2, <2>4, UntouchedUse
    <2>6. Blocked(p)
        BY <2>1, <1>blocked, PlacesKnown
    <2>7. AbstractUser(p) = "asking" /\ AbstractUser(p)' = "ended"
        BY <2>1, <2>4, <2>6, <1>view DEF Viewed
    <2>8. absUser' = [absUser EXCEPT ![p] = "ended"] /\ UNCHANGED <<absUses, registered>>
        BY <2>1, <2>3, <2>4, <2>5, <2>7, BecomeImplements
    <2> QED BY <2>1, <2>7, <2>8 DEF Pool!Refuse, Pool!Become, absUser, absUses
<1>4. ASSUME NEW p \in Procs, GetFreeByName(p)
      PROVE  \/ \E d \in Devices : Pool!Grant(p, d)
             \/ UNCHANGED <<absUser, absUses, suspending, registered>>
    <2>1. /\ UNCHANGED <<estado, registered, inflight, sleeping, handler, waiting, suspending>>
          /\ call[p] = "getFree" /\ \A q \in Procs \ {p} : call'[q] = call[q]
        BY <1>4, <1>types DEF GetFreeByName, TypeOK
    <2>2. CASE callDev' = callDev /\ call'[p] \in {"noDevice", "pend"}
        <3>1. \A q \in Procs : Untouched(q)
            BY <1>4, <2>1, <2>2, <1>types DEF GetFreeByName, Untouched, TypeOK
        <3>2. Asks(p)' /\ Asks(p)
            BY <2>1, <2>2 DEF Asks
        <3>3. \A q \in Procs : SameView(q)
            BY <2>1, <3>1, <3>2, <1>asks, UntouchedView
        <3> QED BY <2>1, <3>3, StutterIs
    <2>3. ASSUME NEW d \in FreeDevices(asked[p]),
                 callDev' = [callDev EXCEPT ![p] = d],
                 call' = [call EXCEPT ![p] = "assign"]
          PROVE  \E e \in Devices : Pool!Grant(p, e)
        <3>1. d \in Devices /\ d \in registered /\ Users(d) = {}
            BY <1>types DEF FreeDevices, Named, TypeOK, PoolInv, Exclusion, FreeIsUnused
        <3>2. \A q \in Procs : AbstractUse(q) # d
            BY <3>1, UsedIsSeen, UseIsUser
        <3>3. /\ call'[p] = "assign" /\ callDev'[p] = d
              /\ \A q \in Procs \ {p} : call'[q] = call[q] /\ callDev'[q] = callDev[q]
            BY <2>3, <1>types DEF TypeOK
        <3>4. \A q \in Procs \ {p} : SameView(q)
            BY <2>1, <3>3, <1>asks, UntouchedView DEF Untouched
        <3>5. call[p] = "getFree"
            BY <1>4 DEF GetFreeByName
        <3>6. (\A e \in Devices : ~UsesDevice(p, e)) /\ ~FinishedBy(p) /\ Blocked(p)
            BY <3>5, NotServed, <1>blocked, PlacesKnown
        <3>8. Asks(p)
            BY <3>5 DEF Asks
        <3>7. UsesDevice(p, d)'
            BY <3>3 DEF UsesDevice
        <3> QED BY <2>1, <3>1, <3>2, <3>4, <3>6, <3>7, <3>8, GrantImplements
    <2> QED BY <1>4, <2>2, <2>3, <1>types DEF GetFreeByName, TypeOK
<1>5. ASSUME NEW p \in Procs, NoteRequest(p) \/ Enqueue(p)
      PROVE  UNCHANGED <<absUser, absUses, suspending, registered>>
    <2>1. /\ call[p] # "assign" /\ call'[p] # "assign"
          /\ \A q \in Procs \ {p} : call'[q] = call[q] /\ callDev'[q] = callDev[q]
          /\ UNCHANGED <<inflight, sleeping, handler, registered, estado, suspending>>
        BY <1>5, <1>types DEF NoteRequest, Enqueue, EndCall, TypeOK
    <2>2. \A q \in Procs : Untouched(q)
        BY <2>1 DEF Untouched
    <2>3. ASSUME NEW q \in Procs PROVE Asks(q)' <=> Asks(q)
        <3>1. CASE NoteRequest(p)
            BY <3>1, <1>types DEF NoteRequest, Asks, InQueue, TypeOK
        <3>2. CASE Enqueue(p)
            <4>1. PICK n \in Names : n = asked[p] /\ waiting[n] \in Seq(Procs)
                                     /\ IsInjective(waiting[n])
                BY <3>2, <1>types
                   DEF Enqueue, TypeInv, CallFields, TypeOK, PoolInv, PlacesInv,
                       NoRepetitions
            <4>2. /\ waiting' = [waiting EXCEPT ![n] = Append(@, p)]
                  /\ call[p] # "none"
                BY <3>2, <4>1 DEF Enqueue
            <4>5. ~InQueue(p, n)
                <5>1. <<"call", p>> \in Places(p)
                    BY <4>2, PlacesKnown
                <5>2. <<"queue", n>> # <<"call", p>>
                    OBVIOUS
                <5> QED BY <5>1, <5>2, <4>1, PlacesKnown DEF PoolInv, PlacesInv, OnePlace
            <4>3. \A r \in Procs : InQueue(r, n)' <=> InQueue(r, n) \/ r = p
                <5>1. waiting'[n] = Append(waiting[n], p)
                    BY <4>1, <4>2, <1>types DEF TypeOK
                <5> QED BY <4>1, <4>5, <5>1, AppendKeeps DEF InQueue
            <4>4. \A m \in Names \ {n} : InQueue(q, m)' <=> InQueue(q, m)
                BY <4>2, <1>types DEF InQueue, TypeOK
            <4> QED BY <2>1, <4>2, <4>3, <4>4 DEF Asks
        <3> QED BY <1>5, <3>1, <3>2
    <2> QED BY <2>1, <2>2, <2>3, UntouchedView, StutterIs
<1>6. ASSUME NEW p \in Procs, Assign(p) PROVE UNCHANGED <<absUser, absUses, suspending, registered>>
    <2>1. PICK d \in Devices : d = callDev[p]
        BY <1>6, <1>types DEF Assign, TypeInv, CallFields
    <2>2. /\ call[p] = "assign"
          /\ inflight' = inflight \union {<<p, d>>}
          /\ \A q \in Procs \ {p} : call'[q] = call[q] /\ callDev'[q] = callDev[q]
          /\ UNCHANGED <<sleeping, handler, registered, estado, waiting, suspending>>
        BY <1>6, <2>1, <1>types DEF Assign, DispatchToDevice, EndCall, TypeOK
    <2>3. \A q \in Procs \ {p} : SameView(q)
        BY <2>2, <1>asks, UntouchedView DEF Untouched
    <2>4. UsesDevice(p, d) /\ UsesDevice(p, d)'
        BY <2>1, <2>2 DEF UsesDevice
    <2>5. SameView(p)
        BY <2>2, <2>4, KeepsUse
    <2> QED BY <2>2, <2>3, <2>5, StutterIs
<1>7. ASSUME NEW p \in Procs, SuspendOut(p) PROVE Pool!Suspend(p)
    <2>1. \A q \in Procs : Untouched(q)
        BY <1>7, <1>types DEF SuspendOut, Untouched, TypeOK
    <2>2. /\ \A q \in Procs \ {p} : estado'[q] = estado[q]
          /\ estado[p] = "BLOCKED" /\ estado'[p] = "SUSPEND_BLOCKED"
          /\ UNCHANGED <<registered, call, waiting>>
          /\ suspending' = suspending \union {p}
        BY <1>7, <1>types DEF SuspendOut, TypeOK
    <2>3. \A q \in Procs : SameView(q)
        BY <2>1, <2>2, <1>asks, UntouchedUse DEF SameView, Blocked
    <2>4. UNCHANGED <<absUser, absUses>>
        BY <2>3, SameViewIs DEF absUser, absUses
    <2>5. AbstractUser(p) \notin {"away", "ended"}
        BY <2>2 DEF AbstractUser
    <2> QED BY <2>2, <2>4, <2>5 DEF Pool!Suspend, absUser, absUses
<1>17. ASSUME NEW p \in Procs, SuspendIn(p) PROVE Pool!Suspended(p)
    <2>1. \A q \in Procs : SameView(q)
        BY <1>17, <1>asks, UntouchedView DEF SuspendIn, Untouched
    <2>2. UNCHANGED <<absUser, absUses>>
        BY <2>1, SameViewIs DEF absUser, absUses
    <2> QED BY <1>17, <2>2 DEF SuspendIn, Pool!Suspended, absUser, absUses
<1>8. ASSUME NEW p \in Procs, NEW d \in Devices, Accept(p, d)
      PROVE  UNCHANGED <<absUser, absUses, suspending, registered>>
    <2>1. /\ <<p, d>> \in inflight
          /\ inflight' = inflight \ {<<p, d>>} /\ sleeping' = sleeping \union {<<p, d>>}
          /\ UNCHANGED <<call, callDev, handler, registered, estado, waiting, suspending>>
        BY <1>8 DEF Accept
    <2>2. \A q \in Procs : Untouched(q)
        BY <2>1 DEF Untouched
    <2> QED BY <2>1, <2>2, <1>asks, UntouchedView, StutterIs
<1>9. ASSUME NEW p \in Procs, NEW d \in Devices, Wake(p, d)
      PROVE  UNCHANGED <<absUser, absUses, suspending, registered>>
    <2>1. PICK h \in Handlers : handler[h] = Idle /\ Become(h, Handling("free", d, p))
        BY <1>9 DEF Wake, Start
    <2>2. /\ handler'[h].at = "free" /\ handler'[h].port = d /\ handler'[h].pid = p
          /\ \A k \in Handlers \ {h} : handler'[k] = handler[k]
          /\ handler[h].at = "idle"
        BY <2>1, <1>types, BecomeOthers DEF Handling, Idle
    <2>3. /\ <<p, d>> \in sleeping /\ sleeping' = sleeping \ {<<p, d>>}
          /\ UNCHANGED <<call, callDev, inflight, registered, estado, waiting, suspending>>
        BY <1>9 DEF Wake
    <2>4. \A q \in Procs \ {p} : SameView(q)
        BY <2>2, <2>3, <1>asks, UntouchedView DEF Untouched, Serves, NeedsPid
    <2>5. UsesDevice(p, d) /\ UsesDevice(p, d)'
        BY <2>2, <2>3 DEF UsesDevice
    <2>6. SameView(p)
        BY <2>3, <2>5, KeepsUse
    <2> QED BY <2>3, <2>4, <2>6, StutterIs
<1>10. ASSUME NEW d \in Devices, Connect(d) PROVE Pool!Join(d)
    <2>1. PICK h \in Handlers : handler[h] = Idle /\ Become(h, Handling("try", d, 0))
        BY <1>10 DEF Connect, Start
    <2>2. /\ handler'[h].at = "try" /\ handler[h].at = "idle"
          /\ \A k \in Handlers \ {h} : handler'[k] = handler[k]
        BY <2>1, <1>types, BecomeOthers DEF Handling, Idle
    <2>3. /\ UNCHANGED <<call, callDev, inflight, sleeping, estado, waiting, suspending>>
          /\ registered' = registered \union {d} /\ module[d] = "off"
        BY <1>10 DEF Connect
    <2>4. \A q \in Procs : SameView(q)
        BY <2>2, <2>3, <1>asks, UntouchedView DEF Untouched, Serves, NeedsPid
    <2>5. UNCHANGED <<absUser, absUses>>
        BY <2>4, SameViewIs DEF absUser, absUses
    <2>6. d \notin registered
        BY <2>3 DEF PoolInv, Exclusion, OffIsUnused
    <2> QED BY <2>3, <2>5, <2>6 DEF Pool!Join, absUser, absUses
<1>11. ASSUME NEW h \in Handlers, FinishFree(h) PROVE \E p \in Procs : Pool!Release(p)
    <2>1. PICK p \in Procs, d \in Devices : p = handler[h].pid /\ d = handler[h].port
        BY <1>11, <1>types, HandlerTypes
           DEF FinishFree, HandlerStages, TryStages, FinishStages, NeedsPort, NeedsPid
    <2>2. /\ handler[h].at = "free" /\ handler'[h].at = "find" /\ handler'[h].pid = p
          /\ \A k \in Handlers \ {h} : handler'[k] = handler[k]
        BY <1>11, <2>1, <1>types, BecomeOthers DEF FinishFree, Handling
    <2>3. UNCHANGED <<call, callDev, inflight, sleeping, registered, estado, waiting, suspending>>
        BY <1>11 DEF FinishFree
    <2>4. \A q \in Procs \ {p} : SameView(q)
        BY <2>1, <2>2, <2>3, <1>asks, UntouchedView DEF Untouched, Serves
    <2>5. UsesDevice(p, d) /\ FinishedBy(p)'
        BY <2>1, <2>2 DEF UsesDevice, FinishedBy
    <2>6. \A e \in Devices : ~UsesDevice(p, e)'
        BY <2>5, <1>view DEF Viewed
    <2>7. AbstractUser(p) = "using"
        BY <2>5, <1>view DEF Viewed
    <2>8. AbstractUser(p)' = "finished" /\ AbstractUse(p)' = NoDevice
        BY <2>5, <2>6, <1>view DEF Viewed
    <2>9. /\ absUser' = [absUser EXCEPT ![p] = "finished"]
          /\ absUses' = [absUses EXCEPT ![p] = NoDevice]
        BY <2>4, <2>8, OneChanges
    <2> QED BY <2>3, <2>7, <2>9 DEF Pool!Release, Pool!Become, absUser, absUses
<1>12. ASSUME NEW h \in Handlers, FinishFind(h) \/ FinishFindSuspended(h)
       PROVE  \/ UNCHANGED <<absUser, absUses, suspending, registered>>
              \/ \E p \in Procs : Pool!Forget(p)
    <2>1. PICK p \in Procs : p = handler[h].pid
        BY <1>12, <1>types, HandlerTypes DEF FinishFind, FinishFindSuspended, NeedsPid
    <2>2. FinishedBy(p) /\ Blocked(p) /\ \A e \in Devices : ~UsesDevice(p, e)
        BY <1>12, <2>1, <1>view DEF FinishFind, FinishFindSuspended, FinishedBy, Viewed
    <2>3. UNCHANGED <<call, callDev, inflight, sleeping, registered, estado, waiting, suspending>>
        BY <1>12 DEF FinishFind, FinishFindSuspended
    <2>4. ASSUME NEW stage \in {"toReady", "findSusp"}, Goto(h, stage)
          PROVE  UNCHANGED <<absUser, absUses, suspending, registered>>
        <3>1. /\ handler'[h].at = stage /\ handler'[h].pid = p
              /\ \A k \in Handlers \ {h} : handler'[k] = handler[k]
            BY <2>1, <2>4, <1>types, BecomeOthers DEF Goto, Handling
        <3>2. \A q \in Procs \ {p} : SameView(q)
            BY <2>1, <2>3, <3>1, <1>asks, UntouchedView DEF Untouched, Serves
        <3>3. FinishedBy(p)'
            BY <3>1 DEF FinishedBy
        <3>4. SameView(p)
            BY <2>2, <2>3, <3>3, <1>view DEF SameView, Viewed
        <3> QED BY <2>3, <3>2, <3>4, StutterIs
    <2>5. ASSUME FinishFindSuspended(h), ~InSuspBlocked(p)
          PROVE  Pool!Forget(p)
        <3>1. p \in suspending
            BY <2>1, <2>2, <2>5
               DEF FinishFindSuspended, InSuspBlocked, Blocked, PoolInv, MissedIsNotBlocked
        <3>2. /\ handler[h].at = "findSusp" /\ handler'[h].at \in {"try", "idle"}
              /\ \A k \in Handlers \ {h} : handler'[k] = handler[k]
            BY <2>1, <2>5, <1>types, BecomeOthers
               DEF FinishFindSuspended, AfterUnblock, Goto, Done, Handling, Idle
        <3>3. \A q \in Procs \ {p} : SameView(q)
            BY <2>1, <2>3, <3>2, <1>asks, UntouchedView DEF Untouched, Serves, NeedsPid
        <3>4. \A u \in Places(p) : u = <<"handler", h>>
            <4>1. <<"handler", h>> \in Places(p)
                BY <2>1, <3>2, PlacesKnown DEF NeedsPid
            <4> QED BY <4>1 DEF PoolInv, PlacesInv, OnePlace
        <3>5. ~Asks(p)' /\ ~FinishedBy(p)'
            <4>1. call[p] = "none" /\ \A n \in Names : ~InQueue(p, n)
                BY <3>4, PlacesKnown
            <4>2. \A k \in Handlers \ {h} : ~(handler[k].at \in NeedsPid /\ handler[k].pid = p)
                BY <3>4, PlacesKnown
            <4>3. ~Asks(p)'
                BY <4>1, <2>3, <1>asks DEF Asks
            <4> QED BY <4>2, <4>3, <3>2 DEF FinishedBy, NeedsPid
        <3>6. \A e \in Devices : ~UsesDevice(p, e)'
            <4>1. \A k \in Handlers : ~(handler'[k].at \in {"dispatch", "free"}
                                        /\ handler'[k].pid = p)
                BY <3>2, <3>4, PlacesKnown DEF NeedsPid
            <4> QED BY <2>2, <2>3, <4>1 DEF UsesDevice
        <3>7. Blocked(p)'
            BY <2>2, <2>3 DEF Blocked
        <3>8. AbstractUser(p) = "finished" /\ AbstractUser(p)' = "forgotten"
            BY <2>2, <3>5, <3>6, <3>7, <1>view DEF Viewed
        <3>9. /\ absUser' = [absUser EXCEPT ![p] = "forgotten"]
              /\ UNCHANGED <<absUses, registered>>
            BY <2>2, <2>3, <3>3, <3>6, <3>8, BecomeImplements
        <3> QED BY <2>3, <3>1, <3>8, <3>9 DEF Pool!Forget, Pool!Become, absUser, absUses
    <2>6. CASE FinishFind(h)
        BY <2>4, <2>6 DEF FinishFind
    <2>7. CASE FinishFindSuspended(h) /\ InSuspBlocked(p)
        BY <2>1, <2>4, <2>7 DEF FinishFindSuspended
    <2> QED BY <1>12, <2>5, <2>6, <2>7
<1>13. ASSUME NEW h \in Handlers, FinishMove(h) PROVE \E p \in Procs : Pool!Resume(p)
    <2>1. PICK p \in Procs : p = handler[h].pid
        BY <1>13, <1>types, HandlerTypes DEF FinishMove, NeedsPid
    <2>2. /\ handler[h].at = "toReady" /\ handler'[h].at \in {"try", "idle"}
          /\ \A k \in Handlers \ {h} : handler'[k] = handler[k]
        BY <1>13, <1>types, BecomeOthers
           DEF FinishMove, AfterUnblock, Goto, Done, Handling, Idle
    <2>3. /\ UNCHANGED <<call, callDev, inflight, sleeping, registered, waiting, suspending>>
          /\ \A q \in Procs \ {p} : estado'[q] = estado[q]
          /\ estado'[p] = "ACTIVE" /\ p \notin suspending
        BY <1>13, <2>1, <1>types DEF FinishMove, Move, TypeOK
    <2>4. \A q \in Procs \ {p} : SameView(q)
        BY <2>1, <2>2, <2>3, <1>asks, UntouchedView DEF Untouched, Serves, NeedsPid
    <2>5. FinishedBy(p)
        BY <2>1, <2>2 DEF FinishedBy
    <2>6. Blocked(p) /\ \A e \in Devices : ~UsesDevice(p, e)
        BY <2>5, <1>view DEF Viewed
    <2>7. \A e \in Devices : ~UsesDevice(p, e)'
        BY <2>3, <1>view DEF Viewed, Blocked
    <2>8. AbstractUser(p) = "finished" /\ AbstractUser(p)' = "away"
        BY <2>3, <2>5, <2>6, <1>view DEF Viewed
    <2>9. absUser' = [absUser EXCEPT ![p] = "away"] /\ UNCHANGED <<absUses, registered>>
        BY <2>3, <2>4, <2>6, <2>7, <2>8, BecomeImplements
    <2> QED BY <2>3, <2>8, <2>9 DEF Pool!Resume, Pool!Become, absUser, absUses
<1>14. ASSUME NEW h \in Handlers, Try(h) \/ GiveBack(h)
       PROVE  UNCHANGED <<absUser, absUses, suspending, registered>>
    <2>1. /\ handler[h].at \notin NeedsPid /\ handler'[h].at \notin NeedsPid
          /\ \A k \in Handlers \ {h} : handler'[k] = handler[k]
        <3>1. /\ handler[h].at \in {"try", "giveBack"}
              /\ \/ Become(h, Idle)
                 \/ \E d : Become(h, Handling("dequeue", d, 0))
            BY <1>14 DEF Try, GiveBack, Done
        <3>2. /\ Idle.at = "idle"
              /\ \A d : Handling("dequeue", d, 0).at = "dequeue"
            BY DEF Handling, Idle
        <3> QED BY <3>1, <3>2, <1>types, BecomeOthers DEF NeedsPid
    <2>2. UNCHANGED <<call, callDev, inflight, sleeping, registered, estado, waiting, suspending>>
        BY <1>14 DEF Try, GiveBack
    <2>3. \A q \in Procs : Untouched(q)
        BY <2>1, <2>2 DEF Untouched, Serves
    <2> QED BY <2>2, <2>3, <1>asks, UntouchedView, StutterIs
<1>15. ASSUME NEW h \in Handlers, Dequeue(h)
       PROVE  \/ \E p \in Procs, d \in Devices : Pool!Grant(p, d)
              \/ UNCHANGED <<absUser, absUses, suspending, registered>>
    <2>1. PICK d \in Devices : d = handler[h].port
        BY <1>15, <1>types, HandlerTypes
           DEF Dequeue, HandlerStages, TryStages, NeedsPort
    <2>2. PICK n \in Names : n = NameOf[d]
        BY NamesAssumption
    <2>3. UNCHANGED <<call, callDev, inflight, sleeping, registered, estado, suspending>>
        BY <1>15 DEF Dequeue
    <2>4. CASE waiting[n] = <<>>
        <3>1. Become(h, Handling("giveBack", d, handler[h].pid))
            BY <1>15, <2>1, <2>2, <2>4 DEF Dequeue, Goto
        <3>2. /\ handler[h].at \notin NeedsPid /\ handler'[h].at \notin NeedsPid
              /\ \A k \in Handlers \ {h} : handler'[k] = handler[k]
            BY <1>15, <3>1, <1>types, BecomeOthers DEF Dequeue, Handling, NeedsPid
        <3>3. \A q \in Procs : Untouched(q)
            BY <2>3, <3>2 DEF Untouched, Serves
        <3>4. UNCHANGED waiting
            BY <1>15, <2>1, <2>2, <2>4 DEF Dequeue
        <3> QED BY <2>3, <3>3, <3>4, <1>asks, UntouchedView, StutterIs
    <2>5. CASE waiting[n] # <<>>
        <3>1. PICK p \in Procs : p = Head(waiting[n]) /\ InQueue(p, n)
            <4>1. waiting[n] \in Seq(Procs) /\ IsInjective(waiting[n])
                BY <1>types DEF PoolInv, PlacesInv, NoRepetitions, TypeOK
            <4> QED BY <4>1, <2>5, TailKeeps DEF InQueue
        <3>2. Become(h, Handling("dispatch", d, p))
            BY <1>15, <2>1, <2>2, <2>5, <3>1 DEF Dequeue
        <3>3. /\ handler[h].at = "dequeue"
              /\ handler'[h].at = "dispatch" /\ handler'[h].port = d /\ handler'[h].pid = p
              /\ \A k \in Handlers \ {h} : handler'[k] = handler[k]
            BY <1>15, <3>2, <1>types, BecomeOthers DEF Dequeue, Handling
        <3>12. ASSUME NEW q \in Procs \ {p} PROVE Asks(q)' <=> Asks(q)
            <4>1. /\ waiting[n] \in Seq(Procs) /\ IsInjective(waiting[n])
                  /\ waiting' = [waiting EXCEPT ![n] = Tail(@)]
                BY <1>15, <2>1, <2>2, <2>5, <1>types
                   DEF Dequeue, PoolInv, PlacesInv, NoRepetitions, TypeOK
            <4>2. InQueue(q, n)' <=> InQueue(q, n)
                BY <4>1, <2>5, <3>1, <1>types, TailKeeps DEF InQueue, TypeOK
            <4>3. \A m \in Names \ {n} : InQueue(q, m)' <=> InQueue(q, m)
                BY <4>1, <1>types DEF InQueue, TypeOK
            <4> QED BY <2>3, <4>2, <4>3 DEF Asks
        <3>4. \A q \in Procs \ {p} : SameView(q)
            BY <2>3, <3>3, <3>12, UntouchedView DEF Untouched, Serves, NeedsPid
        <3>5. (\A e \in Devices : ~UsesDevice(p, e)) /\ ~FinishedBy(p) /\ Blocked(p)
            BY <3>1, NotServed, <1>blocked, PlacesKnown
        <3>13. Asks(p)
            BY <3>1 DEF Asks
        <3>6. <<"handler", h>> \in Users(d)
            BY <2>1, <3>3, UsersKnown DEF HoldingStages
        <3>7. \A u \in Users(d) : u = <<"handler", h>>
            BY <3>6 DEF PoolInv, Exclusion, OneUserPerDevice
        <3>8. \A q \in Procs : AbstractUse(q) # d
            <4> SUFFICES ASSUME NEW q \in Procs, AbstractUse(q) = d PROVE FALSE
                OBVIOUS
            <4>1. PICK u \in Users(d) :
                     \/ u \in {<<"call", q>>, <<"sent", q>>, <<"sleep", q>>}
                     \/ \E k \in Handlers : /\ u = <<"handler", k>>
                                            /\ handler[k].at \in {"dispatch", "free"}
                BY UsedIsSeen, UseIsUser
            <4> QED BY <4>1, <3>3, <3>7
        <3>9. d \in registered
            <4>1. module[d] # "off"
                BY <3>6 DEF PoolInv, Exclusion, OffIsUnused
            <4> QED BY <4>1 DEF PoolInv, StayInv, NobodyLeaves
        <3>10. UsesDevice(p, d)'
            BY <3>3 DEF UsesDevice
        <3>11. Pool!Grant(p, d)
            BY <2>3, <3>4, <3>5, <3>8, <3>9, <3>10, <3>13, GrantImplements
        <3> QED BY <3>11
    <2> QED BY <2>4, <2>5
<1>16. ASSUME NEW h \in Handlers, Dispatch(h)
       PROVE  UNCHANGED <<absUser, absUses, suspending, registered>>
    <2>1. PICK p \in Procs, d \in Devices : p = handler[h].pid /\ d = handler[h].port
        BY <1>16, <1>types, HandlerTypes
           DEF Dispatch, HandlerStages, TryStages, NeedsPort, NeedsPid
    <2>2. pendingReq[p] # NoName
        BY <1>16, <2>1 DEF Dispatch, PoolInv, PlacesInv, RequestsNoted
    <2>3. inflight' = inflight \union {<<p, d>>}
        BY <1>16, <2>1, <2>2 DEF Dispatch, DispatchToDevice
    <2>4. UNCHANGED <<call, callDev, sleeping, registered, estado, waiting, suspending>>
        BY <1>16, <2>1, <2>2 DEF Dispatch
    <2>5. /\ handler[h].at = "dispatch" /\ handler'[h].at = "idle"
          /\ \A k \in Handlers \ {h} : handler'[k] = handler[k]
        BY <1>16, <1>types, BecomeOthers DEF Dispatch, Done, Handling, Idle
    <2>6. \A q \in Procs \ {p} : SameView(q)
        BY <2>1, <2>3, <2>4, <2>5, <1>asks, UntouchedView DEF Untouched, Serves, NeedsPid
    <2>7. UsesDevice(p, d) /\ UsesDevice(p, d)'
        BY <2>1, <2>3, <2>5 DEF UsesDevice
    <2>8. SameView(p)
        BY <2>4, <2>7, KeepsUse
    <2> QED BY <2>4, <2>6, <2>8, StutterIs
<1> QED
    BY <1>0, <1>1, <1>2, <1>3, <1>4, <1>5, <1>6, <1>7, <1>8, <1>9, <1>10,
       <1>11, <1>12, <1>13, <1>14, <1>15, <1>16, <1>17, StepsThatRemain
       DEF Syscall, Finishing, Trying, Pool!Next, PoolInv, StayInv

(* While no module goes away, the Kernel's goroutines and handlers and the *)
(* modules together do what the abstract pool of devices does: a process   *)
(* that asks is given a device nobody uses, finishes with it, and only     *)
(* then goes on (the safety part of ImplementsPool).                       *)
THEOREM ImplementsPoolSafely == ASSUME ModulesStay PROVE Spec => Pool!SafeSpec
<1>1. PoolInv /\ PoolInv' /\ [Next]_vars => [Pool!Next]_(Pool!vars)
    BY StepImplements
<1> QED BY InitImplements, <1>1, AlwaysPoolInv, PTL DEF Spec, Pool!SafeSpec
=============================================================================
