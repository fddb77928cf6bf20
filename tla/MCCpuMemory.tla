--------------------------- MODULE MCCpuMemory ---------------------------
(* Instances of CpuMemory for TLC.                                         *)
EXTENDS CpuMemory, TLC

TwoAndOne == "p1" :> 2 @@ "p2" :> 1
Setting(cpus, preempts, noExit, pageCache, tlbs) ==
    [cpus |-> cpus, preempts |-> preempts, noExit |-> noExit,
     lateReturns |-> FALSE,
     cacheEntries |-> pageCache[1], cacheReplacement |-> pageCache[2],
     tlbEntries |-> tlbs[1], tlbReplacement |-> tlbs[2]]

(* One CPU that preempts, and two that do not.  A script may end without   *)
(* EXIT where there is no cache.                                           *)
Sound ==
    {Setting({"c1"}, TRUE, {}, <<2, "CLOCK-M">>, <<2, "LRU">>),
     Setting({"c1"}, TRUE, {}, <<2, "CLOCK">>, <<0, "LRU">>),
     Setting({"c1"}, TRUE, {}, <<1, "OTHER">>, <<2, "FIFO">>),
     Setting({"c1"}, TRUE, {"p1"}, <<0, "CLOCK">>, <<2, "OTHER">>),
     Setting({"c1", "c2"}, FALSE, {}, <<1, "CLOCK-M">>, <<1, "LRU">>)}

(* Two CPUs that preempt.                                                  *)
Migrating == {Setting({"c1", "c2"}, TRUE, {}, <<2, "CLOCK">>, <<2, "FIFO">>)}
(* A script that does not end in EXIT, with a cache.                       *)
Leaving == {Setting({"c1"}, FALSE, {"p1"}, <<1, "CLOCK">>, <<0, "LRU">>)}
(* A wait that ends after its process was suspended.                       *)
Late ==
    {[Setting({"c1"}, FALSE, {}, <<1, "CLOCK">>, <<0, "LRU">>)
        EXCEPT !.lateReturns = TRUE]}

Written == Permutations(Values)
=============================================================================
