------------------------------- MODULE Monitors -------------------------------
(***************************************************************************)
(* The goroutines of pt-operator that watch a test and set the gauges      *)
(* Prometheus reads: one for the master of a scenario, one for its workers *)
(* (one for each worker of a Distribution task), one for the log of        *)
(* Locust.                                                                 *)
(*                                                                         *)
(*   - All of them read and write one map, ptTaskMetrics, without a lock:  *)
(*     a monitor looks the scenario up and then writes through the pointer *)
(*     it found, or puts a new entry into the map.                         *)
(*   - The Go runtime may stop the process when a write of the map meets   *)
(*     another access, and does so on a write to a map that is nil.        *)
(*   - A stopped process loses monitors, map and gauges.                   *)
(***************************************************************************)
EXTENDS Naturals, FiniteSets

CONSTANTS
    Scenarios,
    NWorkers,     \* workers of a scenario
    MaxMonitors,  \* monitors of a scenario whose log is followed, a bound
    None

ASSUME MonitorsAssumption ==
    /\ IsFiniteSet(Scenarios)
    /\ NWorkers \in Nat \ {0}
    /\ MaxMonitors \in Nat
    /\ None \notin Nat

VARIABLES
    mon,       \* [Monitors -> the goroutine]
    entry,     \* ptTaskMetrics: [Scenarios -> what was written to the entry]
    status,    \* gauge master_status: [Scenarios -> 0 live, 1 unknown]
    workers,   \* gauge total_workers
    distributed,  \* scenarios whose workers run in other clusters; it does not change
    master,    \* [Scenarios -> the Pod of the master]
    pods       \* [Scenarios -> the Pods of the workers]

gauges == <<status, workers>>
world  == <<distributed, master, pods>>
vars   == <<mon, entry, gauges, world>>

Workers    == 1..NWorkers
AllWorkers == NWorkers * Cardinality(Scenarios)

MonitorsOf(s) == {<<"master", s, 0>>, <<"testing", s, 0>>}
                   \cup (IF s \in distributed THEN {<<"worker", s, i>> : i \in Workers}
                         ELSE {<<"workers", s, 0>>})

Monitors == ({"master", "testing", "workers"} \X Scenarios \X {0})
              \cup ({"worker"} \X Scenarios \X Workers)

\* What an entry holds: the status of the master, WorkersStatus (nil until it is written),
\* the totals of the log.
Parts == {"master", "workers", "testing"}

Entry == {parts \cup {p} : parts \in SUBSET Parts, p \in Parts}

ASSUME NoneAssumption == None \notin Entry

Monitor == [pc    : {"idle", "look", "lookup", "assign", "insert", "direct", "show", "over"},
            stale : BOOLEAN,        \* the entry it found was replaced since
            seen  : 0..AllWorkers,  \* masters or workers found running
            left  : 0..AllWorkers,  \* Pods left to record
            exit  : BOOLEAN]

Idle == [pc |-> "idle", stale |-> FALSE, seen |-> 0, left |-> 0, exit |-> FALSE]

\* What a process starts with.
NoMonitors == [m \in Monitors |-> Idle]
NoEntries  == [s \in Scenarios |-> None]
NoGauges   == <<[s \in Scenarios |-> None], [s \in Scenarios |-> 0]>>

Init ==
    /\ distributed \in SUBSET Scenarios
    /\ mon     = NoMonitors
    /\ entry   = NoEntries
    /\ status  = NoGauges[1]
    /\ workers = NoGauges[2]
    /\ master   = [s \in Scenarios |-> "absent"]
    /\ pods     = [s \in Scenarios |-> "pending"]

-----------------------------------------------------------------------------

Kind(m) == m[1]
Of(m)   == m[2]
Part(m) == IF Kind(m) = "worker" THEN "workers" ELSE Kind(m)
OfWorkers(m) == Part(m) = "workers"

At(m, pc) == mon[m].pc = pc
Set(m, r) == mon' = [mon EXCEPT ![m] = r]
Goto(m, pc) == Set(m, [mon[m] EXCEPT !.pc = pc])
Running(m) == mon[m].pc \notin {"idle", "over"}

\* do4Locust: the master is ready, then its monitor; the monitors of the workers follow,
\* and last the one of the log, which ends at once if the log is not there yet.
Start(m) ==
    /\ At(m, "idle") /\ m \in MonitorsOf(Of(m))
    /\ CASE Kind(m) = "master"  -> master[Of(m)] = "running"
         [] Kind(m) = "workers" -> ~At(<<"master", Of(m), 0>>, "idle")
         [] Kind(m) = "worker"  -> /\ ~At(<<"master", Of(m), 0>>, "idle")
                                   /\ \A i \in Workers :
                                        i < m[3] => ~At(<<"worker", Of(m), i>>, "idle")
         [] Kind(m) = "testing" -> \A n \in MonitorsOf(Of(m)) : n # m => ~At(n, "idle")
    /\ \/ /\ Kind(m) = "testing" => Cardinality(MonitorsOf(Of(m))) <= MaxMonitors
          /\ Goto(m, "look")
       \/ Kind(m) = "testing" /\ Goto(m, "over")
    /\ UNCHANGED <<entry, gauges, world>>

\* A round begins: Pods are left to record, of which some were seen running.
Query(m, left, seen, exit) ==
    /\ At(m, "look")
    /\ Set(m, [Idle EXCEPT !.pc = IF left = 0 THEN "show" ELSE "lookup",
                           !.left = left, !.seen = seen, !.exit = exit])
    /\ UNCHANGED <<entry, gauges, world>>

\* MonitorLocustMaster: status is set to 0 by a Pod that runs and to 1 by an error, any
\* error, and keeps its value otherwise; the first value is 0.
LookMaster(m) ==
    /\ Kind(m) = "master"
    /\ \/ Query(m, 1, 0, TRUE)
       \/ master[Of(m)] = "running" /\ Query(m, 1, 1, FALSE)

LocalIn(states) == {s \in Scenarios \ distributed : pods[s] \in states}

\* MonitorLocustLocalWorker: the workers of all scenarios of the namespace have the label
\* it lists, and each Pod of the list is recorded in turn.
LookWorkers(m) ==
    /\ Kind(m) = "workers"
    /\ \/ Query(m, 0, 0, TRUE)
       \/ LET least == NWorkers * Cardinality(LocalIn({"running"}))
              most  == NWorkers * Cardinality(LocalIn({"pending", "running"}))
          IN  \E listed \in least..most : \E running \in least..listed :
                  Query(m, listed, running, FALSE)

\* Mutated: a monitor has done its work when its worker runs.
LookWorkerOnce(m) ==
    /\ Kind(m) = "worker"
    /\ \/ Query(m, 0, 0, FALSE)
       \/ Query(m, 1, 0, TRUE)
       \/ pods[Of(m)] = "pending" /\ Query(m, 1, 0, FALSE)
       \/ pods[Of(m)] = "running" /\ Query(m, 1, 1, TRUE)

\* MonitorLocustDistributionWorker: the cluster cannot be connected to, which does not
\* end the monitor; the Pod cannot be read, which does; or it is there.
LookWorker(m) ==
    /\ Kind(m) = "worker"
    /\ \/ Query(m, 0, 0, FALSE)
       \/ Query(m, 1, 0, TRUE)
       \/ pods[Of(m)] = "pending" /\ Query(m, 1, 0, FALSE)
       \/ pods[Of(m)] = "running" /\ Query(m, 1, 1, FALSE)

\* MonitorLocustTesting: the next line of the log, which is followed for ever.  A round here
\* is updateTotals or updateReponseTimes, each of which looks the entry up.
LookLog(m) ==
    /\ Kind(m) = "testing"
    /\ master[Of(m)] = "running"
    /\ Query(m, 1, 0, FALSE)

-----------------------------------------------------------------------------
(* The map *)

\* Mutated: the test whether there is an entry is dropped.
LookupAlways(m) ==
    /\ At(m, "lookup")
    /\ Goto(m, "insert")
    /\ UNCHANGED <<entry, gauges, world>>

Lookup(m) ==
    /\ At(m, "lookup")
    /\ Goto(m, IF entry[Of(m)] = None THEN "insert" ELSE "assign")
    /\ UNCHANGED <<entry, gauges, world>>

\* What follows the entry: the workers' monitors write WorkersStatus once more, and the
\* counters of the log need no show.
Recorded(m) == CASE OfWorkers(m)       -> "direct"
                 [] Kind(m) = "master" -> "show"
                 [] OTHER              -> "look"

Holding(m) == [entry EXCEPT ![Of(m)] = @ \cup {Part(m)}]
Written(m) == [mon[m] EXCEPT !.pc = Recorded(m), !.stale = FALSE]

\* Mutated: WorkersStatus is not made when it is missing.
AssignOnly(m) ==
    /\ At(m, "assign")
    /\ entry' = IF mon[m].stale \/ (OfWorkers(m) /\ "workers" \notin entry[Of(m)])
                THEN entry ELSE Holding(m)
    /\ Set(m, Written(m))
    /\ UNCHANGED <<gauges, world>>

\* Through the pointer; an entry that was replaced meanwhile is written for nobody.  The
\* monitors of workers first make a WorkersStatus that is missing; of two that do, one is
\* left, and all of them write the same key.
Assign(m) ==
    /\ At(m, "assign")
    /\ entry' = IF mon[m].stale THEN entry ELSE Holding(m)
    /\ Set(m, Written(m))
    /\ UNCHANGED <<gauges, world>>

\* The new entry replaces the one another monitor has put there since the lookup; whoever
\* has found that one keeps a pointer to it.
Insert(m) ==
    /\ At(m, "insert")
    /\ entry' = [entry EXCEPT ![Of(m)] = {Part(m)}]
    /\ mon' = [n \in Monitors |->
                 IF n = m THEN Written(m)
                 ELSE IF Of(n) = Of(m) /\ At(n, "assign") THEN [mon[n] EXCEPT !.stale = TRUE]
                 ELSE mon[n]]
    /\ UNCHANGED <<gauges, world>>

\* ptTaskMetrics[scenario].WorkersStatus[pod.Name] = status; then the next Pod of the list.
Direct(m) ==
    /\ At(m, "direct") /\ "workers" \in entry[Of(m)]
    /\ entry' = Holding(m)
    /\ Set(m, IF mon[m].left > 1 THEN [mon[m] EXCEPT !.pc = "lookup", !.left = @ - 1]
              ELSE [mon[m] EXCEPT !.pc = "show"])
    /\ UNCHANGED <<gauges, world>>

\* The process stops and is started again.
Stop ==
    /\ mon'     = NoMonitors
    /\ entry'   = NoEntries
    /\ status'  = NoGauges[1]
    /\ workers' = NoGauges[2]
    /\ UNCHANGED world

\* Direct finds an entry without WorkersStatus: assignment to entry in nil map.
Panic(m) == At(m, "direct") /\ "workers" \notin entry[Of(m)] /\ Stop

\* Two accesses at a time, one of them a write: of the map, or of one WorkersStatus.
Fatal(m, n) ==
    /\ m # n
    /\ \/ At(m, "insert") /\ mon[n].pc \in {"lookup", "insert", "direct"}
       \/ /\ Of(m) = Of(n) /\ OfWorkers(m) /\ OfWorkers(n)
          /\ {mon[m].pc, mon[n].pc} \subseteq {"assign", "direct"}
    /\ Stop

Restart == Stop

-----------------------------------------------------------------------------
(* The gauges *)

\* Mutated: the gauge of the workers is added to.
ShownAdding(m, value) ==
    \/ /\ Kind(m) = "master"
       /\ status'  = [status EXCEPT ![Of(m)] = value]
       /\ UNCHANGED workers
    \/ /\ OfWorkers(m)
       /\ workers' = [workers EXCEPT ![Of(m)] = @ + mon[m].seen]
       /\ UNCHANGED status

\* Mutated: the gauge of the workers is set only when some are found.
ShownFound(m, value) ==
    \/ /\ Kind(m) = "master"
       /\ status'  = [status EXCEPT ![Of(m)] = value]
       /\ UNCHANGED workers
    \/ /\ OfWorkers(m)
       /\ workers' = [workers EXCEPT ![Of(m)] = IF mon[m].seen = 0 THEN @ ELSE mon[m].seen]
       /\ UNCHANGED status

Shown(m, value) ==
    \/ /\ Kind(m) = "master"
       /\ status'  = [status EXCEPT ![Of(m)] = value]
       /\ UNCHANGED workers
    \/ /\ OfWorkers(m)
       /\ workers' = [workers EXCEPT ![Of(m)] = mon[m].seen]
       /\ UNCHANGED status

\* Mutated: a monitor ends without a last value.
ShowUnlessOver(m) ==
    /\ At(m, "show")
    /\ IF mon[m].exit THEN UNCHANGED gauges ELSE Shown(m, 0)
    /\ Set(m, [Idle EXCEPT !.pc = IF mon[m].exit THEN "over" ELSE "look"])
    /\ UNCHANGED <<entry, world>>

\* The round ends: sleep for ten seconds, or break.
Show(m) ==
    /\ At(m, "show")
    /\ Shown(m, IF mon[m].exit THEN 1 ELSE 0)
    /\ Set(m, [Idle EXCEPT !.pc = IF mon[m].exit THEN "over" ELSE "look"])
    /\ UNCHANGED <<entry, world>>

-----------------------------------------------------------------------------
(* Pods *)

\* The Pod of the master starts, and is deleted with its task, completed or not; so are the
\* workers, those of other clusters with the cluster.
MasterStep(s) ==
    /\ \/ master[s] = "absent"  /\ master' = [master EXCEPT ![s] = "running"]
       \/ master[s] = "running" /\ master' = [master EXCEPT ![s] = "gone"]
    /\ UNCHANGED <<mon, entry, gauges, distributed, pods>>

WorkerStep(s) ==
    /\ \/ /\ pods[s] = "pending" /\ ~At(<<"master", s, 0>>, "idle")
          /\ pods' = [pods EXCEPT ![s] = "running"]
       \/ /\ master[s] = "gone" /\ pods[s] # "gone"
          /\ pods' = [pods EXCEPT ![s] = "gone"]
    /\ UNCHANGED <<mon, entry, gauges, distributed, master>>

Step(m) ==
    \/ LookMaster(m) \/ LookWorkers(m) \/ LookWorker(m) \/ LookLog(m)
    \/ Lookup(m) \/ Assign(m) \/ Insert(m) \/ Direct(m) \/ Panic(m) \/ Show(m)

Next ==
    \/ \E m \in Monitors : Start(m) \/ Step(m)
    \/ \E m, n \in Monitors : Fatal(m, n)
    \/ Restart
    \/ \E s \in Scenarios : MasterStep(s) \/ WorkerStep(s)

Spec == Init /\ [][Next]_vars

\* Goroutines run on, those that follow a log with the log; nothing is assumed of Pods
\* and of the process.
FairSpec == Spec /\ \A m \in Monitors : Kind(m) # "testing" => WF_vars(Step(m))

-----------------------------------------------------------------------------
(* Properties *)

TypeOK ==
    /\ mon \in [Monitors -> Monitor]
    /\ entry \in [Scenarios -> Entry \cup {None}]
    /\ status \in [Scenarios -> {0, 1, None}]
    /\ workers \in [Scenarios -> 0..AllWorkers]
    /\ distributed \subseteq Scenarios
    /\ master \in [Scenarios -> {"absent", "running", "gone"}]
    /\ pods \in [Scenarios -> {"pending", "running", "gone"}]

\* Monitors that have found no entry.
Inserting(s) == {m \in MonitorsOf(s) : At(m, "insert")}

\* The map without a lock loses what is in it to the first rounds only.  Once a scenario has
\* an entry, for as long as the process lives: nobody joins the monitors that are about to
\* insert one; and what the entry holds, as the errors counted so far, is lost only to
\* one of these, which is then done with inserting.
LostToRacersOnly ==
    [][\A s \in Scenarios :
        entry[s] # None /\ mon' # NoMonitors =>
            /\ entry'[s] # None
            /\ Inserting(s)' \subseteq Inserting(s)
            /\ \/ entry[s] \subseteq entry'[s]
               \/ \E m \in Inserting(s) \ Inserting(s)' : entry'[s] = {Part(m)}
      ]_vars

\* A monitor of workers whose next write of WorkersStatus comes without a test and finds
\* nil: it is past the test, or it tested an entry that is no longer there.
Doomed(m) ==
    /\ OfWorkers(m) /\ entry[Of(m)] # None /\ "workers" \notin entry[Of(m)]
    /\ At(m, "direct") \/ mon[m].stale

\* The write without a test (extra_metrics.go:380, 427) is made safe by the one before it,
\* except for one race: a monitor of the master or of the log that had found no entry
\* puts its own, which has no WorkersStatus, in between.
NilMapIsRaced ==
    [][mon' # NoMonitors =>
        \A m \in Monitors :
            ~Doomed(m) /\ Doomed(m)' =>
                \E n \in Inserting(Of(m)) \ Inserting(Of(m))' : ~OfWorkers(n)
      ]_vars

Watched(s) == Running(<<"master", s, 0>>)

\* What a gauge says of something alive is said by a monitor that still runs and that will
\* say so when it is gone: the status of a master is never left at 0, and workers are never
\* left counted, by monitors that have all ended, although each worker of a distributed
\* scenario has a monitor of its own, all of them set one gauge and end in any order.
ShownIsWatched ==
    \A s \in Scenarios :
        /\ status[s] = 0 => Watched(s)
        /\ workers[s] # 0 => \E m \in MonitorsOf(s) : OfWorkers(m) /\ Running(m)

\* A master that was deleted while it was watched is shown as unknown, and stays so.
GoneMasterIsShown ==
    \A s \in Scenarios : (master[s] = "gone" /\ Watched(s)) ~> [](status[s] # 0)

\* When no worker of a scenario is left - for a local one, none in the namespace - its
\* workers are no longer counted: neither the end of a monitor nor a cluster that cannot
\* be reached any more leaves the last number standing.
GoneWorkersAreNotCounted ==
    \A s \in Scenarios :
        (IF s \in distributed THEN pods[s] = "gone" ELSE LocalIn({"pending", "running"}) = {})
            ~> [](workers[s] = 0)
=============================================================================
