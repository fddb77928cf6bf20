---------------------------- MODULE IoDevices ----------------------------
(***************************************************************************)
(* Input and output: the syscall IO of a process, the Kernel's pool of     *)
(* devices and its waiting queues, its handlers for the connection, the    *)
(* end of an I/O and the disconnection of a device, and the I/O modules.   *)
(*                                                                         *)
(* One action is one operation of a manager or of a queue, each atomic     *)
(* under its own mutex, one plain write to a PCB or a device, or the       *)
(* arrival of a request.  The goroutine of a process that asks for I/O,    *)
(* the goroutine that sends a request to a device and the handlers of      *)
(* several requests interleave between them.                               *)
(*                                                                         *)
(* Abstracted: times; the order in which GetFreeByName scans the devices   *)
(* of a name (any free one may be taken); READY, EXECUTING and SUSPREADY   *)
(* are one state, ACTIVE, in which other planners have the process; EXIT   *)
(* includes what FinishProcess does next, and a process ended while ACTIVE *)
(* asks for nothing more; nor does the PMP end a process here because its  *)
(* swap failed.  A module that starts again is another member of Devices.  *)
(***************************************************************************)
EXTENDS Integers, Sequences, SequencesExt, FiniteSets

CONSTANTS
    Procs,      \* PIDs; 0 is one of them, and also means "no process"
    Devices,    \* the I/O modules, each known by its port
    Names,      \* the device names scripts ask for
    NameOf,     \* the name each module registers
    Handlers,   \* bound: requests of modules the Kernel handles at once
    Stoppable,  \* modules that may receive a signal and say goodbye
    Crashable   \* modules that may die without a word

NoName == "no name"
NoDevice == "no device"

ASSUME ProcsAssumption == Procs \subseteq Nat
ASSUME DevicesAssumption ==
    /\ NoDevice \notin Devices
    /\ Stoppable \subseteq Devices /\ Crashable \subseteq Devices
ASSUME NamesAssumption == NameOf \in [Devices -> Names] /\ NoName \notin Names

VARIABLES
    estado,      \* EstadoActual of each PCB
    suspending,  \* processes the suspension timer has between two queues
    pendingReq,  \* PendingIoRequest of each PCB: the name it asks for
    waiting,     \* the queues of WaitingForDeviceManager
    registered,  \* the devices in ConnectedDeviceManager
    isFree,      \* Device.IsFree
    devPid,      \* Device.PID
    call,        \* where executeIOSyscall is, for each process
    asked,       \* the name in its request
    callDev,     \* the device it was given
    inflight,    \* requests POST io not accepted yet: process and device
    failed,      \* processes whose failed request is still to be settled
    module,      \* each I/O program
    sleeping,    \* its goroutines Sleep: process and device
    handler      \* the Kernel's handlers of requests from modules

pcbVars == <<estado, suspending, pendingReq>>
poolVars == <<registered, isFree, devPid>>
callVars == <<call, asked, callDev>>
requestVars == <<inflight, failed, sleeping>>
vars == <<pcbVars, waiting, poolVars, callVars, requestVars, module, handler>>

Estados == {"ACTIVE", "BLOCKED", "SUSPEND_BLOCKED", "EXIT"}
CallStages == {"none", "getFree", "noDevice", "pend", "enqueue", "assign"}
Programs == {"off", "up", "stopping", "notified", "down"}

(* Where a handler is: ConnectIoHandler enters at "try", FinishIoHandler   *)
(* at "free", DisconnectIoHandler at "readPid".                            *)
TryStages == {"try", "dequeue", "giveBack", "dispatch"}
FinishStages == {"free", "find", "findSusp", "toReady"}
DisconnectStages == {"readPid", "kill", "end", "remove", "check",
                     "drain", "drainKill", "scan", "sweep", "scanSusp", "sweepSusp"}
HandlerStages == {"idle"} \union TryStages \union FinishStages
                          \union DisconnectStages

Handling(stage, d, p) == [at |-> stage, port |-> d, pid |-> p, todo |-> {}]
Sweeping(stage, d, todo) == [at |-> stage, port |-> d, pid |-> 0, todo |-> todo]
Idle == Handling("idle", NoDevice, 0)

Init ==
    /\ estado = [p \in Procs |-> "ACTIVE"] /\ suspending = {}
    /\ pendingReq = [p \in Procs |-> NoName]
    /\ waiting = [n \in Names |-> <<>>]
    /\ registered = {}
    /\ isFree = [d \in Devices |-> FALSE]
    /\ devPid = [d \in Devices |-> 0]
    /\ call = [p \in Procs |-> "none"]
    /\ asked = [p \in Procs |-> NoName]
    /\ callDev = [p \in Procs |-> NoDevice]
    /\ inflight = {} /\ failed = {} /\ sleeping = {}
    /\ module = [d \in Devices |-> "off"]
    /\ handler = [h \in Handlers |-> Idle]

(* TransitionProcessState waits for the mutex of the PCB, which the timer  *)
(* holds while it has the process between two queues.                      *)
Move(p, s) ==
    /\ p \notin suspending
    /\ estado' = [estado EXCEPT ![p] = s]
    /\ UNCHANGED suspending
-----------------------------------------------------------------------------
(* The pool of devices.                                                    *)
Named(n) == {d \in registered : NameOf[d] = n}

FreeDevices_Any(n) == Named(n)
FreeDevices(n) == {d \in Named(n) : isFree[d]}

Take(d) == isFree' = [isFree EXCEPT ![d] = FALSE]

(* MarkAsFreeByPort, which does nothing for a port it does not know.       *)
FreeByPort(d) ==
    IF d \in registered
    THEN /\ isFree' = [isFree EXCEPT ![d] = TRUE]
         /\ devPid' = [devPid EXCEPT ![d] = 0]
    ELSE UNCHANGED <<isFree, devPid>>

(* dispatchToDevice: the device is labelled and a goroutine sends the      *)
(* request.  A device that has left the pool meanwhile is labelled in vain.*)
DispatchToDevice_Unlabelled(p, d) ==
    /\ UNCHANGED devPid
    /\ inflight' = inflight \union {<<p, d>>}
DispatchToDevice(p, d) ==
    /\ devPid' = [devPid EXCEPT ![d] = p]
    /\ inflight' = inflight \union {<<p, d>>}
-----------------------------------------------------------------------------
(* executeIOSyscall: the process is BLOCKED first.                         *)
Request(p) ==
    /\ estado[p] = "ACTIVE" /\ call[p] = "none"
    /\ Move(p, "BLOCKED")
    /\ \E n \in Names : asked' = [asked EXCEPT ![p] = n]
    /\ call' = [call EXCEPT ![p] = "getFree"]
    /\ UNCHANGED <<pendingReq, waiting, poolVars, callDev, requestVars, module,
                   handler>>

(* A time that is not a number ends the process at once.                   *)
RefuseTime(p) ==
    /\ estado[p] = "ACTIVE" /\ call[p] = "none"
    /\ Move(p, "EXIT")
    /\ UNCHANGED <<pendingReq, waiting, poolVars, callVars, requestVars, module,
                   handler>>

GetFreeByName_NilDispatch(p) ==
    /\ call[p] = "getFree"
    /\ call' = [call EXCEPT ![p] = "assign"]
    /\ \/ FreeDevices(asked[p]) = {} /\ UNCHANGED <<callDev, isFree>>
       \/ \E d \in FreeDevices(asked[p]) :
             Take(d) /\ callDev' = [callDev EXCEPT ![p] = d]
    /\ UNCHANGED <<pcbVars, waiting, registered, devPid, asked, requestVars,
                   module, handler>>
GetFreeByName(p) ==
    /\ call[p] = "getFree"
    /\ \/ /\ Named(asked[p]) = {}
          /\ call' = [call EXCEPT ![p] = "noDevice"]
          /\ UNCHANGED <<callDev, isFree>>
       \/ /\ Named(asked[p]) # {} /\ FreeDevices(asked[p]) = {}
          /\ call' = [call EXCEPT ![p] = "pend"]
          /\ UNCHANGED <<callDev, isFree>>
       \/ \E d \in FreeDevices(asked[p]) :
             /\ Take(d)
             /\ callDev' = [callDev EXCEPT ![p] = d]
             /\ call' = [call EXCEPT ![p] = "assign"]
    /\ UNCHANGED <<pcbVars, waiting, registered, devPid, asked, requestVars,
                   module, handler>>

EndCall(p) ==
    /\ call' = [call EXCEPT ![p] = "none"]
    /\ asked' = [asked EXCEPT ![p] = NoName]
    /\ callDev' = [callDev EXCEPT ![p] = NoDevice]
    /\ UNCHANGED <<module, handler>>

(* No device of that name: the process ends.                               *)
RefuseUnknown(p) ==
    /\ call[p] = "noDevice"
    /\ Move(p, "EXIT")
    /\ EndCall(p)
    /\ UNCHANGED <<pendingReq, waiting, poolVars, requestVars>>

(* All devices busy: the request is noted in the PCB, then the PCB queued. *)
NoteRequest_Late(p) ==
    /\ call[p] = "pend"
    /\ call' = [call EXCEPT ![p] = "enqueue"]
    /\ UNCHANGED <<pcbVars, waiting, poolVars, asked, callDev, requestVars,
                   module, handler>>
NoteRequest(p) ==
    /\ call[p] = "pend"
    /\ pendingReq' = [pendingReq EXCEPT ![p] = asked[p]]
    /\ call' = [call EXCEPT ![p] = "enqueue"]
    /\ UNCHANGED <<estado, suspending, waiting, poolVars, asked, callDev,
                   requestVars, module, handler>>

Enqueue(p) ==
    /\ call[p] = "enqueue"
    /\ waiting' = [waiting EXCEPT ![asked[p]] = Append(@, p)]
    /\ EndCall(p)
    /\ UNCHANGED <<pcbVars, poolVars, requestVars>>

Assign(p) ==
    /\ call[p] = "assign"
    /\ DispatchToDevice(p, callDev[p])
    /\ EndCall(p)
    /\ UNCHANGED <<pcbVars, waiting, registered, isFree, failed, sleeping>>

(* The suspension timer of a blocked process fires: suspendProcessLogic    *)
(* takes it out of QueueBlocked and then adds it to QueueSuspBlocked.      *)
SuspendOut(p) ==
    /\ estado[p] = "BLOCKED"
    /\ estado' = [estado EXCEPT ![p] = "SUSPEND_BLOCKED"]
    /\ suspending' = suspending \union {p}
    /\ UNCHANGED <<pendingReq, waiting, poolVars, callVars, requestVars, module,
                   handler>>

SuspendIn(p) ==
    /\ p \in suspending
    /\ suspending' = suspending \ {p}
    /\ UNCHANGED <<estado, pendingReq, waiting, poolVars, callVars, requestVars,
                   module, handler>>

(* What Find and GetAll see of the two queues of blocked processes.        *)
InBlocked(p) == estado[p] = "BLOCKED"
InSuspBlocked(p) == estado[p] = "SUSPEND_BLOCKED" /\ p \notin suspending
-----------------------------------------------------------------------------
(* The request reaches the module, which sleeps and answers at once; or    *)
(* there is no module any more, and the goroutine frees the device and     *)
(* ends the process.                                                       *)
Alive(d) == module[d] \in {"up", "stopping", "notified"}

Accept(p, d) ==
    /\ <<p, d>> \in inflight /\ Alive(d)
    /\ inflight' = inflight \ {<<p, d>>}
    /\ sleeping' = sleeping \union {<<p, d>>}
    /\ UNCHANGED <<pcbVars, waiting, poolVars, callVars, failed, module, handler>>

RequestFails(p, d) ==
    /\ <<p, d>> \in inflight /\ module[d] = "down"
    /\ inflight' = inflight \ {<<p, d>>}
    /\ failed' = failed \union {p}
    /\ FreeByPort(d)
    /\ UNCHANGED <<pcbVars, waiting, registered, callVars, sleeping, module,
                   handler>>

EndFailed(p) ==
    /\ p \in failed
    /\ failed' = failed \ {p}
    /\ Move(p, "EXIT")
    /\ UNCHANGED <<pendingReq, waiting, poolVars, callVars, inflight, sleeping,
                   module, handler>>

Become(h, next) == handler' = [handler EXCEPT ![h] = next]

(* A request of a module starts a handler of the Kernel.                   *)
Start(stage, d, p) ==
    \E h \in Handlers :
        /\ handler[h] = Idle
        /\ Become(h, Handling(stage, d, p))

(* ConnectIoHandler adds the device and, after a pause, tries to dispatch. *)
Connect(d) ==
    /\ module[d] = "off"
    /\ module' = [module EXCEPT ![d] = "up"]
    /\ registered' = registered \union {d}
    /\ isFree' = [isFree EXCEPT ![d] = TRUE]
    /\ Start("try", d, 0)
    /\ UNCHANGED <<pcbVars, waiting, devPid, callVars, requestVars>>

(* Sleep ends and the module informs the Kernel.                           *)
Wake_Again(p, d) ==
    /\ <<p, d>> \in sleeping /\ Alive(d)
    /\ \/ sleeping' = sleeping \ {<<p, d>>}
       \/ UNCHANGED sleeping
    /\ Start("free", d, p)
    /\ UNCHANGED <<pcbVars, waiting, poolVars, callVars, inflight, failed, module>>
Wake(p, d) ==
    /\ <<p, d>> \in sleeping /\ Alive(d)
    /\ sleeping' = sleeping \ {<<p, d>>}
    /\ Start("free", d, p)
    /\ UNCHANGED <<pcbVars, waiting, poolVars, callVars, inflight, failed, module>>

(* A signal: the module tells the Kernel, waits for the answer and exits.  *)
Stop(d) ==
    /\ d \in Stoppable /\ module[d] = "up"
    /\ module' = [module EXCEPT ![d] = "stopping"]
    /\ Start("readPid", d, 0)
    /\ UNCHANGED <<pcbVars, waiting, poolVars, callVars, requestVars>>

Exit(d) ==
    /\ \/ module[d] = "notified"
       \/ d \in Crashable /\ module[d] = "up"
    /\ module' = [module EXCEPT ![d] = "down"]
    /\ sleeping' = {s \in sleeping : s[2] # d}
    /\ UNCHANGED <<pcbVars, waiting, poolVars, callVars, inflight, failed, handler>>
-----------------------------------------------------------------------------
(* Steps of the Kernel's handlers.                                         *)
Goto(h, stage) == Become(h, Handling(stage, handler[h].port, handler[h].pid))
Done(h) == Become(h, Idle)

(* FinishIoHandler: free the device, find the process in QueueBlocked or   *)
(* else in QueueSuspBlocked, move it wherever it is by then, and serve the *)
(* queue if the pool knew the device.  A process in neither is given up.   *)
FinishFree(h) ==
    LET d == handler[h].port IN
    /\ handler[h].at = "free"
    /\ FreeByPort(d)
    /\ Become(h, Handling("find", IF d \in registered THEN d ELSE NoDevice,
                          handler[h].pid))
    /\ UNCHANGED <<pcbVars, waiting, registered, callVars, requestVars, module>>

AfterUnblock(h) == IF handler[h].port # NoDevice THEN Goto(h, "try") ELSE Done(h)

FinishFind_OnlyBlocked(h) ==
    /\ handler[h].at = "find"
    /\ IF InBlocked(handler[h].pid) THEN Goto(h, "toReady") ELSE AfterUnblock(h)
    /\ UNCHANGED <<pcbVars, waiting, poolVars, callVars, requestVars, module>>
FinishFind(h) ==
    /\ handler[h].at = "find"
    /\ Goto(h, IF InBlocked(handler[h].pid) THEN "toReady" ELSE "findSusp")
    /\ UNCHANGED <<pcbVars, waiting, poolVars, callVars, requestVars, module>>

FinishFindSuspended(h) ==
    /\ handler[h].at = "findSusp"
    /\ IF InSuspBlocked(handler[h].pid) THEN Goto(h, "toReady") ELSE AfterUnblock(h)
    /\ UNCHANGED <<pcbVars, waiting, poolVars, callVars, requestVars, module>>

FinishMove(h) ==
    /\ handler[h].at = "toReady"
    /\ Move(handler[h].pid, "ACTIVE")
    /\ AfterUnblock(h)
    /\ UNCHANGED <<pendingReq, waiting, poolVars, callVars, requestVars, module>>

(* TryToDispatchNextIO: take a free device, then the first process of the  *)
(* queue; without a process the device goes back.                          *)
Try(h) ==
    LET n == NameOf[handler[h].port] IN
    /\ handler[h].at = "try"
    /\ \/ FreeDevices(n) = {} /\ Done(h) /\ UNCHANGED isFree
       \/ \E d \in FreeDevices(n) :
             /\ Take(d)
             /\ Become(h, Handling("dequeue", d, 0))
    /\ UNCHANGED <<pcbVars, waiting, registered, devPid, callVars, requestVars,
                   module>>

Dequeue_Peek(h) ==
    LET n == NameOf[handler[h].port] IN
    /\ handler[h].at = "dequeue"
    /\ IF waiting[n] = <<>>
       THEN Goto(h, "giveBack")
       ELSE Become(h, Handling("dispatch", handler[h].port, Head(waiting[n])))
    /\ UNCHANGED <<pcbVars, waiting, poolVars, callVars, requestVars, module>>
Dequeue(h) ==
    LET n == NameOf[handler[h].port] IN
    /\ handler[h].at = "dequeue"
    /\ IF waiting[n] = <<>>
       THEN Goto(h, "giveBack") /\ UNCHANGED waiting
       ELSE /\ Become(h, Handling("dispatch", handler[h].port, Head(waiting[n])))
            /\ waiting' = [waiting EXCEPT ![n] = Tail(@)]
    /\ UNCHANGED <<pcbVars, poolVars, callVars, requestVars, module>>

GiveBack_Keep(h) ==
    /\ handler[h].at = "giveBack"
    /\ Done(h)
    /\ UNCHANGED <<pcbVars, waiting, poolVars, callVars, requestVars, module>>
GiveBack(h) ==
    /\ handler[h].at = "giveBack"
    /\ FreeByPort(handler[h].port)
    /\ Done(h)
    /\ UNCHANGED <<pcbVars, waiting, registered, callVars, requestVars, module>>

(* A queued PCB without its request would be ended, the device kept.       *)
Dispatch(h) ==
    LET p == handler[h].pid IN
    /\ handler[h].at = "dispatch"
    /\ IF pendingReq[p] = NoName
       THEN Move(p, "EXIT") /\ UNCHANGED <<pendingReq, devPid, inflight>>
       ELSE /\ pendingReq' = [pendingReq EXCEPT ![p] = NoName]
            /\ DispatchToDevice(p, handler[h].port)
            /\ UNCHANGED <<estado, suspending>>
    /\ Done(h)
    /\ UNCHANGED <<waiting, registered, isFree, callVars, failed, sleeping, module>>

(* DisconnectIoHandler, first part: the process the device is labelled     *)
(* with is ended (0 stands for none), and the device leaves the pool.      *)
ReadPid(h) ==
    LET d == handler[h].port
        executing == IF d \in registered THEN devPid[d] ELSE 0
    IN
    /\ handler[h].at = "readPid"
    /\ Become(h, Handling(IF executing # 0 THEN "kill" ELSE "remove", d, executing))
    /\ UNCHANGED <<pcbVars, waiting, poolVars, callVars, requestVars, module>>

(* FindPCBInAnyQueue takes no mutex: it misses a process the timer has in  *)
(* its hands, and may miss one that others are moving or that has ended.   *)
MayMiss(p) == p \in suspending \/ estado[p] \in {"ACTIVE", "EXIT"}

FindExecuting(h) ==
    /\ handler[h].at = "kill"
    /\ \/ handler[h].pid \notin suspending /\ Goto(h, "end")
       \/ MayMiss(handler[h].pid) /\ Goto(h, "remove")
    /\ UNCHANGED <<pcbVars, waiting, poolVars, callVars, requestVars, module>>

KillExecuting(h) ==
    /\ handler[h].at = "end"
    /\ Move(handler[h].pid, "EXIT")
    /\ Goto(h, "remove")
    /\ UNCHANGED <<pendingReq, waiting, poolVars, callVars, requestVars, module>>

RemoveByPort(h) ==
    /\ handler[h].at = "remove"
    /\ registered' = registered \ {handler[h].port}
    /\ Goto(h, "check")
    /\ UNCHANGED <<pcbVars, waiting, isFree, devPid, callVars, requestVars, module>>

(* The module's request is answered.                                       *)
Answer(h) ==
    /\ Done(h)
    /\ module' = [module EXCEPT ![handler[h].port] = "notified"]

(* Whether devices of the name remain is asked with GetFreeByName, which   *)
(* takes a free one.                                                       *)
CheckRemaining(h) ==
    LET n == NameOf[handler[h].port] IN
    /\ handler[h].at = "check"
    /\ \/ Named(n) = {} /\ Goto(h, "drain") /\ UNCHANGED <<isFree, module>>
       \/ /\ Named(n) # {} /\ FreeDevices(n) = {}
          /\ Answer(h)
          /\ UNCHANGED isFree
       \/ \E d \in FreeDevices(n) : Take(d) /\ Answer(h)
    /\ UNCHANGED <<pcbVars, waiting, registered, devPid, callVars, requestVars>>

(* Second part, when none remains: end every process in the queue of the   *)
(* name, then every blocked or suspended one whose PCB asks for it.        *)
Drain(h) ==
    LET n == NameOf[handler[h].port] IN
    /\ handler[h].at = "drain"
    /\ IF waiting[n] = <<>>
       THEN Goto(h, "scan") /\ UNCHANGED waiting
       ELSE /\ Become(h, Handling("drainKill", handler[h].port, Head(waiting[n])))
            /\ waiting' = [waiting EXCEPT ![n] = Tail(@)]
    /\ UNCHANGED <<pcbVars, poolVars, callVars, requestVars, module>>

KillWaiting(h) ==
    /\ handler[h].at = "drainKill"
    /\ Move(handler[h].pid, "EXIT")
    /\ Goto(h, "drain")
    /\ UNCHANGED <<pendingReq, waiting, poolVars, callVars, requestVars, module>>

(* GetAll copies a queue; the copies are then looked at one PCB at a time. *)
Scan(h) ==
    LET d == handler[h].port IN
    /\ \/ /\ handler[h].at = "scan"
          /\ Become(h, Sweeping("sweep", d, {p \in Procs : InBlocked(p)}))
       \/ /\ handler[h].at = "scanSusp"
          /\ Become(h, Sweeping("sweepSusp", d, {p \in Procs : InSuspBlocked(p)}))
    /\ UNCHANGED <<pcbVars, waiting, poolVars, callVars, requestVars, module>>

Sweep(h) ==
    /\ handler[h].at \in {"sweep", "sweepSusp"}
    /\ \E p \in handler[h].todo :
          /\ Become(h, Sweeping(handler[h].at, handler[h].port, handler[h].todo \ {p}))
          /\ IF pendingReq[p] = NameOf[handler[h].port]
             THEN Move(p, "EXIT")
             ELSE UNCHANGED <<estado, suspending>>
    /\ UNCHANGED <<pendingReq, waiting, poolVars, callVars, requestVars, module>>

EndSweep(h) ==
    /\ handler[h].todo = {}
    /\ \/ handler[h].at = "sweep" /\ Goto(h, "scanSusp") /\ UNCHANGED module
       \/ handler[h].at = "sweepSusp" /\ Answer(h)
    /\ UNCHANGED <<pcbVars, waiting, poolVars, callVars, requestVars>>
-----------------------------------------------------------------------------
Syscall(p) ==
    \/ GetFreeByName(p) \/ RefuseUnknown(p) \/ NoteRequest(p) \/ Enqueue(p)
    \/ Assign(p)

Finishing(h) ==
    FinishFree(h) \/ FinishFind(h) \/ FinishFindSuspended(h) \/ FinishMove(h)
Trying(h) == Try(h) \/ Dequeue(h) \/ GiveBack(h) \/ Dispatch(h)
Disconnecting(h) ==
    \/ ReadPid(h) \/ FindExecuting(h) \/ KillExecuting(h) \/ RemoveByPort(h)
    \/ CheckRemaining(h) \/ Drain(h) \/ KillWaiting(h) \/ Scan(h) \/ Sweep(h)
    \/ EndSweep(h)

Handle(h) == Finishing(h) \/ Trying(h) \/ Disconnecting(h)

Sending(p, d) == Accept(p, d) \/ RequestFails(p, d)

Next ==
    \/ \E p \in Procs : \/ Request(p) \/ RefuseTime(p) \/ Syscall(p)
                        \/ SuspendOut(p) \/ SuspendIn(p) \/ EndFailed(p)
    \/ \E p \in Procs, d \in Devices : Sending(p, d) \/ Wake(p, d)
    \/ \E d \in Devices : Connect(d) \/ Stop(d) \/ Exit(d)
    \/ \E h \in Handlers : Handle(h)

Spec == Init /\ [][Next]_vars

(* Goroutines, handlers and the timer's function run, requests arrive or   *)
(* fail, an I/O ends. Nothing obliges a process to ask, or a module to     *)
(* connect or to stop.                                                     *)
FairSpec ==
    /\ Spec
    /\ \A p \in Procs : WF_vars(Syscall(p)) /\ WF_vars(EndFailed(p))
                          /\ WF_vars(SuspendIn(p))
    /\ \A p \in Procs, d \in Devices :
          WF_vars(Sending(p, d)) /\ SF_vars(Wake(p, d))
    /\ \A h \in Handlers : WF_vars(Handle(h))
-----------------------------------------------------------------------------
Handlings == [at : HandlerStages, port : Devices \union {NoDevice},
              pid : Procs \union {0}, todo : SUBSET Procs]

TypeOK ==
    /\ estado \in [Procs -> Estados] /\ suspending \subseteq Procs
    /\ pendingReq \in [Procs -> Names \union {NoName}]
    /\ waiting \in [Names -> Seq(Procs)]
    /\ registered \subseteq Devices
    /\ isFree \in [Devices -> BOOLEAN]
    /\ devPid \in [Devices -> Procs \union {0}]
    /\ call \in [Procs -> CallStages]
    /\ asked \in [Procs -> Names \union {NoName}]
    /\ callDev \in [Procs -> Devices \union {NoDevice}]
    /\ inflight \subseteq (Procs \X Devices)
    /\ sleeping \subseteq (Procs \X Devices)
    /\ failed \subseteq Procs
    /\ module \in [Devices -> Programs]
    /\ handler \in [Handlers -> Handlings]

(* Who has device d: a process that was just given it, a process whose     *)
(* request it is to serve or serves, a handler that took it for the queue, *)
(* or the handler that is about to free it.                                *)
Users(d) ==
    {<<"call", p>> : p \in {q \in Procs : call[q] = "assign" /\ callDev[q] = d}}
    \union {<<"sent", p>> : p \in {q \in Procs : <<q, d>> \in inflight}}
    \union {<<"sleep", p>> : p \in {q \in Procs : <<q, d>> \in sleeping}}
    \union {<<"handler", h>> : h \in {k \in Handlers :
                 /\ handler[k].at \in {"dequeue", "giveBack", "dispatch", "free"}
                 /\ handler[k].port = d}}

(* A device serves one process at a time, however the end of one I/O, the  *)
(* dispatch from the queue and new requests interleave.                    *)
OneUserPerDevice ==
    \A d \in Devices : \A u, v \in Users(d) : u = v

(* IsFree tells the truth: a device of the pool is busy exactly when       *)
(* somebody has it, unless its module died during an I/O.  (With a second  *)
(* device of the name, see the disconnection of the first.)                *)
BusyMeansUsed ==
    \A d \in registered : module[d] # "down" => (isFree[d] <=> Users(d) = {})

(* A process waits for one thing: it is in at most one queue, once, its    *)
(* PCB names that queue, and while it is there nobody serves it.           *)
InQueue(p, n) == Contains(waiting[n], p)
Serving(p) ==
    \/ call[p] # "none"
    \/ \E d \in Devices : <<p, d>> \in inflight \union sleeping
    \/ \E h \in Handlers : handler[h].at = "dispatch" /\ handler[h].pid = p

QueuedOnce ==
    \A n \in Names :
        /\ IsInjective(waiting[n])
        /\ \A p \in Procs : InQueue(p, n) =>
              /\ pendingReq[p] = n
              /\ ~Serving(p)
              /\ \A m \in Names \ {n} : ~InQueue(p, m)

(* A queued process is blocked: no other event moves it meanwhile.         *)
QueuedIsBlocked ==
    \A n \in Names, p \in Procs :
        InQueue(p, n) => estado[p] \in {"BLOCKED", "SUSPEND_BLOCKED"}

(* No process leaves its wait while its I/O is still queued or served: the *)
(* end of an earlier I/O never wakes it from a later one.                  *)
NoEarlyWakeup ==
    [][\A p \in Procs :
          estado[p] # "ACTIVE" /\ estado'[p] = "ACTIVE" =>
              ~Serving(p) /\ \A n \in Names : ~InQueue(p, n)]_vars

(* A disconnection finds the process its device is serving: it reads that  *)
(* process's PID, and the search for its PCB misses it only if the timer   *)
(* is suspending it at that moment, or if it has been ended already.       *)
DisconnectionFindsItsProcess ==
    [][\A h \in Handlers, p \in Procs :
          /\ <<p, handler[h].port>> \in sleeping
          /\ handler'[h] # handler[h]
          => /\ handler[h].at = "readPid"
                   => handler'[h].at = "kill" /\ handler'[h].pid = p
             /\ handler[h].at = "kill" /\ handler[h].pid = p
                   => \/ handler'[h].at = "end"
                      \/ p \in suspending \/ estado[p] = "EXIT"]_vars

Quiet == /\ \A p \in Procs : call[p] = "none"
         /\ \A h \in Handlers : handler[h] = Idle

(* When the Kernel has nothing left to do, a process waits in a queue only *)
(* if every device of its name is busy.                                    *)
FreeDeviceServesQueue ==
    Quiet => \A n \in Names : waiting[n] # <<>> => FreeDevices(n) = {}
-----------------------------------------------------------------------------
(* The abstract pool: a process uses a device from the moment it is given  *)
(* one until the Kernel frees it, and has finished until it is unblocked.  *)
(* One that no syscall, queue, device or handler has any more is forgotten.*)
UsesDevice(p, d) ==
    \/ call[p] = "assign" /\ callDev[p] = d
    \/ <<p, d>> \in inflight \union sleeping
    \/ \E h \in Handlers : /\ handler[h].at \in {"dispatch", "free"}
                           /\ handler[h].pid = p /\ handler[h].port = d

AbstractUse(p) ==
    IF \E d \in Devices : UsesDevice(p, d)
    THEN CHOOSE d \in Devices : UsesDevice(p, d)
    ELSE NoDevice

AbstractUser(p) ==
    IF estado[p] = "EXIT" THEN "ended"
    ELSE IF estado[p] = "ACTIVE" THEN "away"
    ELSE IF AbstractUse(p) # NoDevice THEN "using"
    ELSE IF \E h \in Handlers : /\ handler[h].at \in {"find", "findSusp", "toReady"}
                                /\ handler[h].pid = p
         THEN "finished"
    ELSE IF call[p] # "none" \/ \E n \in Names : InQueue(p, n) THEN "asking"
    ELSE "forgotten"

Pool == INSTANCE DevicePool WITH
    user <- [p \in Procs |-> AbstractUser(p)],
    uses <- [p \in Procs |-> AbstractUse(p)],
    online <- registered

(* While no module goes away, the goroutines, handlers and modules         *)
(* together are that pool: one user per device, one answer per request,    *)
(* and every use comes to its end, and its process goes on unless the end  *)
(* found it being suspended.                                               *)
ImplementsPool == Pool!FairSpec
=============================================================================
