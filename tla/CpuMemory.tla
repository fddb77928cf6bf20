---------------------------- MODULE CpuMemory ----------------------------
(***************************************************************************)
(* What a process reads and writes, through the TLB and the page cache of  *)
(* the CPU that runs it and the page tables of Memory.                     *)
(*                                                                         *)
(* A CPU runs one process at a time and each READ or WRITE is a step: the  *)
(* translation, the lookup in the cache, the page read from Memory, the    *)
(* victim written back and replaced.  The operations of Memory are atomic, *)
(* as UserMemory shows under the condition of its OneOwner: no process     *)
(* ends while the PMP has it at Memory, and the swap file takes what is    *)
(* written to it.  An instruction in error changes nothing but the PC,     *)
(* which is not modelled.  A process is SUSPENDED from its suspension to   *)
(* its return, whether its wait is over or not.                            *)
(*                                                                         *)
(* Abstracted: a page holds the last thing written in it; LockerBit, which *)
(* nothing sets; LastUsed counts uses, and is kept as the rank of the use; *)
(* Put is called after a miss, so its update of a page that is cached does *)
(* not happen.  Slots are numbered from 1.                                 *)
(***************************************************************************)
EXTENDS PageTables, Functions

CONSTANTS
    Cpus, Procs,
    Frames,     \* the frames of UserMemory
    Need,       \* the pages of each process
    Pages,      \* the pages scripts name, the process's own or not
    Values,     \* what scripts write
    Settings    \* the CPUs there are, whether they preempt, their configs,
                \* the processes whose script does not end in EXIT, and
                \* whether a wait may end after its process was found BLOCKED
                \* and then suspended

None == "none"
Blank == <<None, 0, 0>>

ASSUME CpuMemoryAssumption ==
    /\ None \notin Procs
    /\ Frames \subseteq Nat /\ IsFiniteSet(Frames)
    /\ Need \in [Procs -> Nat \ {0}] /\ Pages \subseteq Nat
    /\ Settings \subseteq
         [cpus : SUBSET Cpus, preempts : BOOLEAN, noExit : SUBSET Procs,
          lateReturns : BOOLEAN,
          cacheEntries : Nat, cacheReplacement : STRING,
          tlbEntries : Nat, tlbReplacement : STRING]

VARIABLES
    setting,    \* the configuration
    estado,     \* the state of each process
    running,    \* the process each CPU executes
    moving,     \* the process the PMP has asked Memory to put in SWAP
    frames,     \* ProcessFramesTable
    table,      \* PageTables
    mem,        \* UserMemory
    swap,       \* what each process has in the swap file
    cache,      \* Cache of each CPU
    tlb,        \* tlb of each CPU
    last        \* what each page of a process should have: a history

memVars == <<frames, table, mem, swap>>
vars == <<setting, estado, running, moving, memVars, cache, tlb, last>>

Own(p) == 0..(Need[p] - 1)
Data == (Procs \X Nat \X Values) \union {Blank}
EmptyCache == [entries |-> <<>>, map |-> <<>>, clock |-> 1]
EmptyTlb == [entries |-> <<>>, fifo |-> 1]

Init ==
    /\ setting \in Settings
    /\ estado = [p \in Procs |-> "NEW"]
    /\ running = [c \in Cpus |-> None]
    /\ moving = None
    /\ frames = [p \in Procs |-> <<>>]
    /\ table = [p \in Procs |-> <<>>]
    /\ mem = [f \in Frames |-> Blank]
    /\ swap = [p \in Procs |-> <<>>]
    /\ cache = [c \in Cpus |-> EmptyCache]
    /\ tlb = [c \in Cpus |-> EmptyTlb]
    /\ last = [p \in Procs |-> [i \in Own(p) |-> Blank]]
-----------------------------------------------------------------------------
(* The entries that are not of a process, in their order.                  *)
Kth(S, n) == CHOOSE k \in S : Cardinality({j \in S : j <= k}) = n
Without(entries, p) ==
    LET kept == {k \in DOMAIN entries : entries[k].pid # p} IN
    [n \in 1..Cardinality(kept) |-> entries[Kth(kept, n)]]

(* TLB.                                                                    *)
TlbEnabled == setting.tlbEntries > 0

Ranked(entries) ==
    [k \in DOMAIN entries |-> [entries[k] EXCEPT !.lastUsed =
        Cardinality({j \in DOMAIN entries :
                        entries[j].lastUsed <= entries[k].lastUsed})]]
JustUsed(entries, k) ==
    Ranked([entries EXCEPT ![k].lastUsed = Len(entries) + 1])

(* insert_tlb.                                                             *)
insert_tlb(t, p, i, f) ==
    LET n == setting.tlbEntries
        e == [pid |-> p, page |-> i, frame |-> f, lastUsed |-> 0]
        slot == IF setting.tlbReplacement = "FIFO" THEN t.fifo
                ELSE IF setting.tlbReplacement = "LRU"
                THEN CHOOSE k \in 1..n : t.entries[k].lastUsed = 1 ELSE 1
    IN  IF Len(t.entries) < n
        THEN [t EXCEPT !.entries = JustUsed(Append(@, e), Len(@) + 1)]
        ELSE [entries |-> JustUsed([t.entries EXCEPT ![slot] = e], slot),
              fifo |-> IF setting.tlbReplacement = "FIFO"
                       THEN (t.fifo % n) + 1 ELSE t.fifo]

(* TranslateAddress: the frame, or -1, and the TLB after it.               *)
Translate(c, p, i) ==
    LET t == tlb[c]
        hits == {k \in DOMAIN t.entries :
                    t.entries[k].pid = p /\ t.entries[k].page = i}
        k == Min(hits)
        f == SearchFrame(table[p], i)
    IN  IF TlbEnabled /\ hits # {}
        THEN [frame |-> t.entries[k].frame,
              tlb |-> IF setting.tlbReplacement = "LRU"
                      THEN [t EXCEPT !.entries = JustUsed(@, k)] ELSE t]
        ELSE [frame |-> f,
              tlb |-> IF TlbEnabled /\ f # -1 THEN insert_tlb(t, p, i, f) ELSE t]

RemoveTLBEntries(t, p) ==
    [t EXCEPT !.entries = Ranked(Without(@, p))]
-----------------------------------------------------------------------------
(* Page cache.                                                             *)
IsEnabled == setting.cacheEntries > 0
getEntryKey(e) == <<e.pid, e.page>>
(* The slots in the order the pointer visits them, and what it clears on   *)
(* its way to one.                                                         *)
Visited(ch, j) == ((ch.clock + j - 2) % Len(ch.entries)) + 1
Cleared(ch, n) ==
    [k \in DOMAIN ch.entries |->
        IF \E j \in 1..n : Visited(ch, j) = k
        THEN [ch.entries[k] EXCEPT !.use = FALSE] ELSE ch.entries[k]]
Where(ch, use, mod) ==
    {j \in DOMAIN ch.entries : ch.entries[Visited(ch, j)].use = use
                                /\ ch.entries[Visited(ch, j)].mod \in mod}

(* findVictimIndexClock: the first entry not in use, and what is passed is *)
(* not in use any more; after a whole turn, the first.                     *)
findVictimIndexClock(ch) ==
    LET unused == Where(ch, FALSE, BOOLEAN)
        j == IF unused # {} THEN Min(unused) ELSE Len(ch.entries) + 1
    IN  [entries |-> Cleared(ch, j - 1), slot |-> Visited(ch, j)]

(* findVictimIndexClockM: a turn for (0,0), one for (0,1) that clears what *)
(* it passes, and again, when nothing is in use any more.                  *)
Turns(ch) ==
    LET clean == Where(ch, FALSE, {FALSE})
        dirty == Where(ch, FALSE, {TRUE})
    IN  IF clean # {}
        THEN [entries |-> ch.entries, slot |-> Visited(ch, Min(clean))]
        ELSE [entries |-> Cleared(ch, Min(dirty) - 1),
              slot |-> Visited(ch, Min(dirty))]
findVictimIndexClockM_ClearsAtOnce(ch) ==
    IF Where(ch, FALSE, {FALSE}) # {} THEN Turns(ch)
    ELSE LET cleared == [ch EXCEPT !.entries = Cleared(ch, Len(@))]
             dirty == Where(cleared, FALSE, {TRUE})
         IN  IF dirty # {}
             THEN [entries |-> cleared.entries, slot |-> Visited(ch, Min(dirty))]
             ELSE Turns(cleared)
findVictimIndexClockM(ch) ==
    IF Where(ch, FALSE, BOOLEAN) # {} THEN Turns(ch)
    ELSE Turns([ch EXCEPT !.entries = Cleared(ch, Len(@))])

Victim(ch) ==
    IF setting.cacheReplacement = "CLOCK" THEN findVictimIndexClock(ch)
    ELSE IF setting.cacheReplacement = "CLOCK-M" THEN findVictimIndexClockM(ch)
    ELSE [entries |-> ch.entries, slot |-> ch.clock]

(* WriteToMemory changes the frame, and then refuses a process that Memory *)
(* does not have.                                                          *)
Known(p) == estado[p] \notin {"NEW", "EXIT"}
WriteBack(m, e) == IF e.mod THEN [m EXCEPT ![e.frame] = e.content] ELSE m

(* A map without the other keys, and with a key more.                      *)
Only(map, keys) == [key \in keys |-> map[key]]
Plus(map, key, k) ==
    [x \in DOMAIN map \union {key} |-> IF x = key THEN k ELSE map[x]]

(* Put, of a page that was read from Memory: the cache and Memory after it.*)
(* A victim that cannot be written back stays, and the page is not added.  *)
Put_NoWriteBack(ch, p, i, f) ==
    LET n == setting.cacheEntries
        e == [pid |-> p, page |-> i, frame |-> f, content |-> mem[f],
              use |-> TRUE, mod |-> FALSE]
        v == Victim(ch)
        old == getEntryKey(ch.entries[v.slot])
    IN  IF Len(ch.entries) < n
        THEN [cache |-> [entries |-> Append(ch.entries, e),
                         map |-> Plus(ch.map, <<p, i>>, Len(ch.entries) + 1),
                         clock |-> ch.clock],
              mem |-> mem]
        ELSE [cache |-> [entries |-> [v.entries EXCEPT ![v.slot] = e],
                         map |-> Plus(Only(ch.map, DOMAIN ch.map \ {old}),
                                      <<p, i>>, v.slot),
                         clock |-> (v.slot % n) + 1],
              mem |-> mem]
Put(ch, p, i, f) ==
    LET n == setting.cacheEntries
        e == [pid |-> p, page |-> i, frame |-> f, content |-> mem[f],
              use |-> TRUE, mod |-> FALSE]
        v == Victim(ch)
        old == v.entries[v.slot]
        others == DOMAIN ch.map \ {getEntryKey(old)}
    IN  IF Len(ch.entries) < n
        THEN [cache |-> [entries |-> Append(ch.entries, e),
                         map |-> Plus(ch.map, <<p, i>>, Len(ch.entries) + 1),
                         clock |-> ch.clock],
              mem |-> mem]
        ELSE IF old.mod /\ ~Known(old.pid)
        THEN [cache |-> [entries |-> v.entries, map |-> ch.map, clock |-> v.slot],
              mem |-> WriteBack(mem, old)]
        ELSE [cache |-> [entries |-> [v.entries EXCEPT ![v.slot] = e],
                         map |-> Plus(Only(ch.map, others), <<p, i>>, v.slot),
                         clock |-> (v.slot % n) + 1],
              mem |-> WriteBack(mem, old)]

(* Get, and Put after a miss.                                              *)
Access(c, p, i, f) ==
    LET ch == cache[c] IN
    IF <<p, i>> \in DOMAIN ch.map
    THEN [cache |-> [ch EXCEPT !.entries[ch.map[<<p, i>>]].use = TRUE], mem |-> mem]
    ELSE Put(ch, p, i, f)

(* RemoveProcessFromCache, of the process that runs, which Memory knows:   *)
(* its pages are written back, and the others move up.                     *)
RemoveProcess_SameMap(ch, p) ==
    [entries |-> Without(ch.entries, p),
     map |-> Only(ch.map, {k \in DOMAIN ch.map : k[1] # p}),
     clock |-> ch.clock]
RemoveProcess(ch, p) ==
    LET kept == Without(ch.entries, p) IN
    [entries |-> kept,
     map |-> [key \in {k \in DOMAIN ch.map : k[1] # p} |->
                 CHOOSE k \in DOMAIN kept : getEntryKey(kept[k]) = key],
     clock |-> IF kept = <<>> THEN 1 ELSE ((ch.clock - 1) % Len(kept)) + 1]
WrittenBack(ch, p) ==
    LET dirty(f) == {k \in DOMAIN ch.entries :
                       /\ ch.entries[k].pid = p /\ ch.entries[k].mod
                       /\ ch.entries[k].frame = f}
    IN  [f \in Frames |-> IF dirty(f) = {} THEN mem[f]
                          ELSE ch.entries[Max(dirty(f))].content]
-----------------------------------------------------------------------------
(* The Kernel and Memory, as far as they decide where a process has its    *)
(* pages and which CPU runs it.                                            *)
FreeFrames == Frames \ UNION {Range(frames[p]) : p \in Procs}
FirstFree(n) ==
    {s \in [1..n -> FreeFrames] :
        /\ \A k, j \in 1..n : k < j => s[k] < s[j]
        /\ \A f \in FreeFrames \ Range(s), k \in 1..n : s[k] < f}
Give(p) ==
    /\ Cardinality(FreeFrames) >= Need[p]
    /\ \E s \in FirstFree(Need[p]) :
          /\ frames' = [frames EXCEPT ![p] = s]
          /\ table' = [table EXCEPT ![p] = MapPages(@, s)]
Becomes(p, from, to) ==
    /\ estado[p] = from
    /\ estado' = [estado EXCEPT ![p] = to]

(* ReserveMemory; nobody clears the frames.                                *)
Admit(p) ==
    /\ Becomes(p, "NEW", "READY")
    /\ Give(p)
    /\ last' = [last EXCEPT ![p] = [i \in Own(p) |-> mem[frames'[p][i + 1]]]]
    /\ UNCHANGED <<setting, moving, running, mem, swap, cache, tlb>>

Dispatch(c, p) ==
    /\ c \in setting.cpus /\ running[c] = None
    /\ Becomes(p, "READY", "EXEC")
    /\ running' = [running EXCEPT ![c] = p]
    /\ UNCHANGED <<setting, moving, memVars, cache, tlb, last>>

(* An interrupt: the CPU answers and cleans nothing.                       *)
Preempt(c) ==
    /\ setting.preempts /\ running[c] # None
    /\ Becomes(running[c], "EXEC", "READY")
    /\ running' = [running EXCEPT ![c] = None]
    /\ UNCHANGED <<setting, moving, memVars, cache, tlb, last>>

(* IO and DUMP_MEMORY.                                                     *)
Clean(c, p) ==
    /\ cache' = [cache EXCEPT ![c] = IF IsEnabled THEN RemoveProcess(@, p) ELSE @]
    /\ mem' = WrittenBack(cache[c], p)
    /\ tlb' = [tlb EXCEPT ![c] = RemoveTLBEntries(@, p)]
Syscall(c) ==
    /\ running[c] # None
    /\ Becomes(running[c], "EXEC", "BLOCKED")
    /\ running' = [running EXCEPT ![c] = None]
    /\ Clean(c, running[c])
    /\ UNCHANGED <<setting, moving, frames, table, swap, last>>

(* ClearMemoryProcess, in any state of the process.                        *)
Forget(p) ==
    /\ frames' = [frames EXCEPT ![p] = <<>>]
    /\ table' = [table EXCEPT ![p] = <<>>]
    /\ swap' = [swap EXCEPT ![p] = <<>>]
    /\ last' = [last EXCEPT ![p] = [i \in Own(p) |-> Blank]]

(* EXIT, and the end of a script that does not have it: the last           *)
(* instruction ends the process and leaves the CPU as it is.               *)
Exit(c) ==
    /\ running[c] \notin setting.noExit \union {None}
    /\ Becomes(running[c], "EXEC", "EXIT")
    /\ running' = [running EXCEPT ![c] = None]
    /\ Clean(c, running[c])
    /\ Forget(running[c])
    /\ UNCHANGED <<setting, moving>>
LastInstruction(c) ==
    /\ running[c] \in setting.noExit
    /\ Becomes(running[c], "EXEC", "EXIT")
    /\ running' = [running EXCEPT ![c] = None]
    /\ Forget(running[c])
    /\ UNCHANGED <<setting, moving, mem, cache, tlb>>

(* The end of a wait.  A process is looked up first and moved later: one   *)
(* found in BLOCKED goes to READY, although its timer may have suspended   *)
(* it by then, wherever its memory is.                                     *)
Waits == {"BLOCKED"} \union (IF setting.lateReturns THEN {"SUSPENDED"} ELSE {})
Unblock(p) ==
    /\ \E from \in Waits : Becomes(p, from, "READY")
    /\ UNCHANGED <<setting, running, moving, memVars, cache, tlb, last>>

(* The timer, and then the PMP, which asks Memory to move what the process *)
(* has in frames.                                                          *)
Suspend(p) ==
    /\ Becomes(p, "BLOCKED", "SUSPENDED")
    /\ UNCHANGED <<setting, running, moving, memVars, cache, tlb, last>>
AskPut(p) ==
    /\ moving = None /\ estado[p] = "SUSPENDED" /\ frames[p] # <<>>
    /\ moving' = p
    /\ UNCHANGED <<setting, estado, running, memVars, cache, tlb, last>>

(* PutProcessInSwap, whatever the process does by now, and its failure to  *)
(* open the swap file.                                                     *)
SwapOut ==
    /\ moving # None
    /\ moving' = None
    /\ swap' = [swap EXCEPT ![moving] =
          [k \in DOMAIN frames[moving] |-> mem[frames[moving][k]]]]
    /\ frames' = [frames EXCEPT ![moving] = <<>>]
    /\ table' = [table EXCEPT ![moving] = MarkAbsent(@)]
    /\ UNCHANGED <<setting, estado, running, mem, cache, tlb, last>>
SwapFails ==
    /\ moving # None
    /\ moving' = None
    /\ UNCHANGED <<setting, estado, running, memVars, cache, tlb, last>>

(* RemoveProcessInSwap, and the return of a process that never reached     *)
(* SWAP.                                                                   *)
SwapIn(p) ==
    /\ moving = None /\ swap[p] # <<>>
    /\ Becomes(p, "SUSPENDED", "READY")
    /\ Give(p)
    /\ mem' = [f \in Frames |->
          IF f \in Range(frames'[p])
          THEN swap[p][CHOOSE k \in DOMAIN frames'[p] : frames'[p][k] = f] ELSE mem[f]]
    /\ swap' = [swap EXCEPT ![p] = <<>>]
    /\ UNCHANGED <<setting, running, moving, cache, tlb, last>>
Resume(p) ==
    /\ moving = None /\ swap[p] = <<>>
    /\ Becomes(p, "SUSPENDED", "READY")
    /\ Cardinality(FreeFrames) >= Need[p]
    /\ UNCHANGED <<setting, running, moving, memVars, cache, tlb, last>>

(* The end of a blocked process whose device goes away, and of one that    *)
(* cannot be swapped in.                                                   *)
Withdraw(p) ==
    /\ estado[p] \in {"BLOCKED", "SUSPENDED"} /\ moving # p
    /\ estado' = [estado EXCEPT ![p] = "EXIT"]
    /\ Forget(p)
    /\ UNCHANGED <<setting, running, moving, mem, cache, tlb>>
-----------------------------------------------------------------------------
(* ExecuteRead.                                                            *)
Read(c, i) ==
    /\ running[c] # None
    /\ LET p == running[c]
           t == Translate(c, p, i)
           a == Access(c, p, i, t.frame)
       IN  /\ t.frame # -1
           /\ tlb' = [tlb EXCEPT ![c] = t.tlb]
           /\ cache' = [cache EXCEPT ![c] = IF IsEnabled THEN a.cache ELSE @]
           /\ mem' = IF IsEnabled THEN a.mem ELSE mem
    /\ UNCHANGED <<setting, estado, running, moving, frames, table, swap, last>>

(* ExecuteWrite: in the cache if there is one, at the slot the map gives   *)
(* the page, which is the first for a page that could not be added.        *)
Modified_NotMarked(ch, p, i, content) ==
    LET k == IF <<p, i>> \in DOMAIN ch.map THEN ch.map[<<p, i>>] ELSE 1 IN
    [ch EXCEPT !.entries[k] = [@ EXCEPT !.content = content, !.use = TRUE]]
Modified(ch, p, i, content) ==
    LET k == IF <<p, i>> \in DOMAIN ch.map THEN ch.map[<<p, i>>] ELSE 1 IN
    [ch EXCEPT !.entries[k] =
        [@ EXCEPT !.content = content, !.mod = TRUE, !.use = TRUE]]
Write(c, i, x) ==
    /\ running[c] # None
    /\ LET p == running[c]
           t == Translate(c, p, i)
           a == Access(c, p, i, t.frame)
           content == <<p, i, x>>
       IN  /\ t.frame # -1
           /\ tlb' = [tlb EXCEPT ![c] = t.tlb]
           /\ IF IsEnabled
              THEN /\ cache' = [cache EXCEPT ![c] = Modified(a.cache, p, i, content)]
                   /\ mem' = a.mem
              ELSE /\ mem' = [mem EXCEPT ![t.frame] = content]
                   /\ UNCHANGED cache
           /\ last' = [last EXCEPT ![p] =
                 [j \in Own(p) |-> IF j = i THEN content ELSE @[j]]]
    /\ UNCHANGED <<setting, estado, running, moving, frames, table, swap>>
-----------------------------------------------------------------------------
Execute(c) ==
    \/ \E i \in Pages : Read(c, i)
    \/ \E i \in Pages, x \in Values : Write(c, i, x)
    \/ Preempt(c) \/ Syscall(c) \/ Exit(c) \/ LastInstruction(c)
Schedule(p) ==
    \/ Admit(p) \/ Unblock(p) \/ Suspend(p) \/ AskPut(p) \/ SwapIn(p)
    \/ Resume(p) \/ Withdraw(p)
    \/ \E c \in Cpus : Dispatch(c, p)
Next ==
    \/ \E c \in Cpus : Execute(c)
    \/ \E p \in Procs : Schedule(p)
    \/ SwapOut \/ SwapFails
Spec == Init /\ [][Next]_vars
-----------------------------------------------------------------------------
Entries == [pid : Procs, page : Nat, frame : Frames, content : Data,
            use : BOOLEAN, mod : BOOLEAN]
TlbEntries == [pid : Procs, page : Nat, frame : Frames, lastUsed : Nat]

(* The types, and the shape of the cache: the map finds every page at its  *)
(* slot and the pointer is at a slot.                                      *)
TypeOK ==
    /\ setting \in Settings
    /\ estado \in [Procs ->
          {"NEW", "READY", "EXEC", "BLOCKED", "SUSPENDED", "EXIT"}]
    /\ running \in [Cpus -> Procs \union {None}]
    /\ moving \in Procs \union {None}
    /\ \A p \in Procs : frames[p] \in Seq(Frames) /\ swap[p] \in Seq(Data)
    /\ mem \in [Frames -> Data]
    /\ \A c \in Cpus :
          /\ cache[c].entries \in Seq(Entries)
          /\ Len(cache[c].entries) <= setting.cacheEntries
          /\ cache[c].clock \in {1} \union DOMAIN cache[c].entries
          /\ DOMAIN cache[c].map =
                {getEntryKey(cache[c].entries[k]) : k \in DOMAIN cache[c].entries}
          /\ \A k \in DOMAIN cache[c].entries :
                cache[c].map[getEntryKey(cache[c].entries[k])] = k
          /\ tlb[c].entries \in Seq(TlbEntries)
          /\ Len(tlb[c].entries) <= setting.tlbEntries
          /\ tlb[c].fifo \in {1} \union 1..setting.tlbEntries

(* What ExecuteRead returns of a page.                                     *)
Returns(c, p, i) ==
    LET ch == cache[c] IN
    IF IsEnabled /\ <<p, i>> \in DOMAIN ch.map
    THEN ch.entries[ch.map[<<p, i>>]].content
    ELSE mem[Translate(c, p, i).frame]

(* A process that runs has each of its pages at an address, and reads      *)
(* there what it wrote last, through TLB, cache and page tables, whatever  *)
(* was replaced, preempted, swapped or ended in between (cache_service.go, *)
(* mmu_tlb.go).  The condition: CPUs that preempt are alone, a process     *)
(* whose script does not end in EXIT meets no cache, and none returns to   *)
(* READY from a wait its timer has ended meanwhile (~lateReturns).         *)
ReadsLastWrite ==
    \A c \in Cpus : running[c] # None =>
        \A i \in Own(running[c]) :
            /\ Translate(c, running[c], i).frame # -1
            /\ Returns(c, running[c], i) = last[running[c]][i]

(* A process that waits has everything it wrote where it is looked for: in *)
(* its frames, where the dump and the swap take it from, or in the swap    *)
(* file, and there only once it is suspended (cpu_services.go:71-84); under*)
(* the condition of ReadsLastWrite.                                        *)
WaitingIsWrittenBack ==
    \A p \in Procs :
        /\ estado[p] = "BLOCKED" => swap[p] = <<>>
        /\ estado[p] \in {"BLOCKED", "SUSPENDED"} =>
              \A i \in Own(p) :
                  IF swap[p] = <<>>
                  THEN mem[SearchFrame(table[p], i)] = last[p][i]
                  ELSE swap[p][i + 1] = last[p][i]

(* CLOCK replaces no page in use while another is not, and CLOCK-M prefers *)
(* (0,0), (0,1), (1,0) and (1,1) in this order (cache_service.go:245-289). *)
Cost(e) ==
    IF setting.cacheReplacement = "CLOCK" THEN IF e.use THEN 1 ELSE 0
    ELSE IF setting.cacheReplacement = "CLOCK-M"
    THEN (IF e.use THEN 2 ELSE 0) + (IF e.mod THEN 1 ELSE 0) ELSE 0
VictimIsCheapest ==
    [][\A c \in Cpus :
         LET old == cache[c].entries
             new == cache'[c].entries
         IN  Len(new) = Len(old) => \A k \in DOMAIN old :
               getEntryKey(new[k]) # getEntryKey(old[k]) =>
                  \A j \in DOMAIN old : Cost(old[k]) <= Cost(old[j])]_vars
=============================================================================
