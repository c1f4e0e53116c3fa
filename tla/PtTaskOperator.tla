---------------------------- MODULE PtTaskOperator ----------------------------
(***************************************************************************)
(* The pt-operator controller: Reconcile, the goroutines it starts         *)
(* (do4Locust, one per scenario, and the checkMasterStatus watcher each of *)
(* them starts), the shared updateStatus routine, and the Kubernetes       *)
(* services they run against.                                              *)
(*                                                                         *)
(*   - The API server keeps one versioned PtTask object per task and       *)
(*     accepts an update only from the version it stores (optimistic       *)
(*     concurrency on resourceVersion).                                    *)
(*   - The client the controller is given reads from an informer cache,    *)
(*     which lags the API server; writes go straight to the server.        *)
(*   - Every status change is delivered to the cache and queues the task   *)
(*     for the single Reconcile worker, which starts another goroutine for *)
(*     every scenario it does not see FINISHED.                            *)
(*                                                                         *)
(* A provisioner and the watcher it starts are the two threads <<g, ...>>  *)
(* of a slot g; a slot is reused when both have returned.                  *)
(***************************************************************************)
EXTENDS Integers, Sequences, FiniteSets

CONSTANTS
    Tasks,          \* names of PtTask objects
    Scenarios,      \* scenario names; pods and services are named after them
    ScenariosOf,    \* [Tasks -> SUBSET Scenarios]: Spec.Execution, executor "locust"
    Distributed,    \* tasks whose Spec.Type is "Distribution", the others are "Local"
    Requested,      \* [Scenarios -> Nat]: Execution.Workers
    Traffics,       \* [Scenarios -> Seq(Nat)]: the percentage of each region
    Callbacks,      \* tasks annotated with pttask/callback and pttask/correlationId
    ExecutionId,    \* [Tasks -> Nat]: annotation pttask/executionId, NoId when absent
    LastExecutionId,\* ids above this one are uuids
    Slots,          \* goroutine slots (bound on concurrent provisioners)
    Faults,         \* the external failures a run admits, see FaultKinds
    Deletable,      \* tasks the user may delete
    MaxPolls,       \* readiness polls of do4Locust, 100 in the code
    MaxRv,          \* bound on the versions of one task
    MaxUuid,        \* bound on generated ids
    MaxEdits,       \* bound on metadata edits by users
    MaxCrashes,     \* bound on operator restarts
    None            \* no task, no scenario

NoId == 0

FaultKinds == {"create",    \* the API server rejects the creation of an object
               "connect",   \* a worker cluster cannot be reached
               "copy",      \* the copy of the logs to the bucket fails
               "callback"}  \* the status callback to pt-admin is lost

ASSUME ConstantsAssumption ==
    /\ IsFiniteSet(Scenarios)
    /\ ScenariosOf \in [Tasks -> SUBSET Scenarios]
    /\ Distributed \subseteq Tasks /\ Callbacks \subseteq Tasks
    /\ Requested \in [Scenarios -> Nat]
    /\ LastExecutionId \in Nat
    /\ ExecutionId \in [Tasks -> 0..LastExecutionId]
    /\ Faults \subseteq FaultKinds
    /\ Deletable \subseteq Tasks
    /\ MaxPolls \in Nat \ {0}
    /\ MaxRv \in Nat /\ MaxUuid \in Nat /\ MaxEdits \in Nat /\ MaxCrashes \in Nat
    /\ None \notin Tasks /\ None \notin Scenarios

ASSUME TrafficsAssumption == Traffics \in [Scenarios -> Seq(Nat)]

\* Tasks with one scenario name in common are of one Type.
ASSUME SharedTypeAssumption ==
    \A t \in Tasks, u \in Tasks :
        ScenariosOf[t] \cap ScenariosOf[u] # {} => (t \in Distributed <=> u \in Distributed)

ASSUME ExecutionIdAssumption ==
    \A t \in Tasks, u \in Tasks :
        ExecutionId[t] = ExecutionId[u] => t = u \/ ExecutionId[t] = NoId

VARIABLES
    status,     \* the PtTask objects at the API server
    cache,      \* the PtTask objects in the informer cache
    queue,      \* tasks queued for Reconcile
    rec,        \* the Reconcile worker
    th,         \* provisioner and watcher goroutines
    objects,    \* [Names -> Nat]: id of the task that made the object, NoId when absent
    seen,       \* names of the home cluster in the informer cache
    pod,        \* [Scenarios -> PodStates]: the locust master pod
    ingress,    \* scenarios whose load balancer has an address
    saved,      \* <<id, scenario>>: logs copied to the bucket
    told,       \* [Tasks -> PtStatuses]: last status pt-admin received
    uuids,      \* last generated id
    edits, crashes

vars == <<status, cache, queue, rec, th, objects, seen, pod, ingress, saved,
          told, uuids, edits, crashes>>
taskVars    == <<status, cache, queue>>
clusterVars == <<objects, seen, pod, ingress>>
bounds      == <<uuids, edits, crashes>>

-----------------------------------------------------------------------------
(* Values *)

ProvisioningPhases == {"PROVISIONING_MASTER", "PROVISIONING_WORKER"}
Phases     == ProvisioningPhases \cup {"TESTING", "FINISHED", "FAILED"}
PtStatuses == {"", "INITIAL", "PENDING", "TESTING", "FINISHED", "FAILED"}

\* Status.Phases and Status.Archives; a scenario absent from the map reads "".
Version == [rv       : Nat,
            live     : BOOLEAN,
            id       : Nat,
            phases   : [Scenarios -> Phases \cup {""}],
            archives : SUBSET Scenarios,
            ptStatus : PtStatuses]

NoVersion == [rv |-> 0, live |-> FALSE, id |-> NoId,
              phases |-> [s \in Scenarios |-> ""], archives |-> {}, ptStatus |-> ""]

\* Mutated: the share is rounded to the nearest number, as the + 0.5 of line 284 intends.
ShareRounded(w, p) == (w * p + 50) \div 100

\* Workers of a region with p percent: the quotient of two integers is cut before 0.5 is
\* added and the floor is taken.
Share(w, p) == (w * p) \div 100

Shares(s) == [r \in 1..Len(Traffics[s]) |-> Share(Requested[s], Traffics[s][r])]

\* The sums of the first n numbers of a sequence, and of all of them.
Sums(f) == LET sum[n \in 0..Len(f)] == IF n = 0 THEN 0 ELSE sum[n - 1] + f[n] IN sum
Total(f) == Sums(f)[Len(f)]

Spread(s) == \E t \in Distributed : s \in ScenariosOf[t]

\* Worker pods of a scenario, over all regions.
Workers == [s \in Scenarios |-> IF Spread(s) THEN Total(Shares(s)) ELSE Requested[s]]

Master(s) == <<"master", s, 0>>
Svc(s)    == <<"svc", s, 0>>
Worker(t, s, i) == <<IF t \in Distributed THEN "remote" ELSE "local", s, i>>

HomeNames   == ({"master", "svc"} \X Scenarios \X {0})
               \cup UNION {{"local"} \X {s} \X (1..Workers[s]) : s \in Scenarios}
RemoteNames == UNION {{"remote"} \X {s} \X (1..Workers[s]) : s \in Scenarios}
Names       == HomeNames \cup RemoteNames

PodStates == {"absent", "pending", "ready", "completed", "failed"}

Threads == Slots \X {"provision", "watch"}
Provisioners == Slots \X {"provision"}
Watchers     == Slots \X {"watch"}

ProvisionSteps == {"master.get", "master.create", "svc.get", "svc.create", "poll",
                   "worker.get", "worker.create"}
WatchSteps     == {"list", "visit", "copy"}
UpdateSteps    == {"update.get", "update.tell", "update.put"}

Thread == [pc   : {"idle"} \cup ProvisionSteps \cup WatchSteps \cup UpdateSteps,
           task : Tasks \cup {None},
           scen : Scenarios \cup {None},
           id   : Nat,              \* pTask.Status.Id as the goroutine last read it
           n    : Nat,              \* readiness polls made, then number of the next worker
           ph   : Phases \cup {""}, \* phase updateStatus is writing
           next : Phases \cup {""}, \* phase the caller of do4Locust writes after that
           copy : Version,          \* updateStatus: the version read, with the phase set
           todo : SUBSET Scenarios, \* watcher: completed masters of this round
           left : Int]              \* watcher: isAllDone

IdleThread == [pc |-> "idle", task |-> None, scen |-> None, id |-> NoId, n |-> 0,
               ph |-> "", next |-> "", copy |-> NoVersion, todo |-> {}, left |-> 0]

Rec == [pc   : {"idle", "tell", "put", "spawn"},
        task : Tasks \cup {None},
        copy : Version,
        todo : SUBSET Scenarios]

IdleRec == [pc |-> "idle", task |-> None, copy |-> NoVersion, todo |-> {}]

Init ==
    /\ status  = [t \in Tasks |-> NoVersion]
    /\ cache   = [t \in Tasks |-> NoVersion]
    /\ queue   = {}
    /\ rec     = IdleRec
    /\ th      = [x \in Threads |-> IdleThread]
    /\ objects = [n \in Names |-> NoId]
    /\ seen    = {}
    /\ pod     = [s \in Scenarios |-> "absent"]
    /\ ingress = {}
    /\ saved   = {}
    /\ told    = [t \in Tasks |-> ""]
    /\ uuids   = LastExecutionId
    /\ edits   = 0
    /\ crashes = 0

-----------------------------------------------------------------------------
(* The API server: a status update is accepted from the stored version only; *)
(* one that changes nothing leaves the version alone.                        *)

Current(t, copy) == status[t].live /\ copy.rv = status[t].rv

Stored(t, copy, changes) ==
    IF changes THEN [copy EXCEPT !.rv = @ + 1] ELSE copy

\* update2ptadmin: a PATCH whose failure is only logged, skipped without callback.
TellStep(t, tell, put) == IF t \in Callbacks THEN tell ELSE put

Tell(t, st) ==
    \/ told' = [told EXCEPT ![t] = st]
    \/ "callback" \in Faults /\ UNCHANGED told

-----------------------------------------------------------------------------
(* Reconcile *)

NewId(t) == IF ExecutionId[t] # NoId THEN ExecutionId[t] ELSE uuids + 1

\* Scenarios Reconcile starts a provisioner for.
Unfinished(t, version) == {s \in ScenariosOf[t] : version.phases[s] # "FINISHED"}

RecSkip(t) ==
    /\ rec.pc = "idle" /\ t \in queue
    /\ ~cache[t].live
    /\ queue' = queue \ {t}
    /\ UNCHANGED <<status, cache, rec, th, clusterVars, saved, told, bounds>>

RecIdentify(t) ==
    /\ rec.pc = "idle" /\ t \in queue
    /\ cache[t].live /\ cache[t].id = NoId
    /\ ExecutionId[t] = NoId => uuids < MaxUuid
    /\ queue' = queue \ {t}
    /\ uuids' = IF ExecutionId[t] = NoId THEN uuids + 1 ELSE uuids
    /\ rec' = [pc |-> TellStep(t, "tell", "put"), task |-> t, todo |-> {},
               copy |-> [cache[t] EXCEPT !.id = NewId(t), !.ptStatus = "INITIAL"]]
    /\ UNCHANGED <<status, cache, th, clusterVars, saved, told, edits, crashes>>

RecKnown(t) ==
    /\ rec.pc = "idle" /\ t \in queue
    /\ cache[t].live /\ cache[t].id # NoId
    /\ queue' = queue \ {t}
    /\ rec' = [pc |-> "spawn", task |-> t, copy |-> cache[t],
               todo |-> Unfinished(t, cache[t])]
    /\ UNCHANGED <<status, cache, th, clusterVars, saved, told, bounds>>

RecTell ==
    /\ rec.pc = "tell"
    /\ Tell(rec.task, rec.copy.ptStatus)
    /\ rec' = [rec EXCEPT !.pc = "put"]
    /\ UNCHANGED <<taskVars, th, clusterVars, saved, bounds>>

\* Mutated: the error of the first update is logged and Reconcile goes on.
RecPutHeedless ==
    LET t == rec.task IN
    /\ rec.pc = "put"
    /\ IF Current(t, rec.copy)
       THEN /\ status[t].rv < MaxRv
            /\ status' = [status EXCEPT ![t] = Stored(t, rec.copy, TRUE)]
       ELSE UNCHANGED status
    /\ rec' = [rec EXCEPT !.pc = "spawn", !.todo = Unfinished(t, rec.copy)]
    /\ UNCHANGED <<cache, queue, th, clusterVars, saved, told, bounds>>

\* Mutated: a refused update is sent again under the stored version number.
RecPutForced ==
    LET t == rec.task
        forced == [rec.copy EXCEPT !.rv = status[t].rv + 1] IN
    /\ rec.pc = "put" /\ status[t].rv < MaxRv
    /\ status' = [status EXCEPT ![t] = IF @.live THEN forced ELSE @]
    /\ rec' = [pc |-> "spawn", task |-> t, copy |-> forced, todo |-> Unfinished(t, forced)]
    /\ UNCHANGED <<cache, queue, th, clusterVars, saved, told, bounds>>

\* Mutated: a refused update is tried again with the version it was refused for.
RecPutRetried ==
    LET t == rec.task IN
    /\ rec.pc = "put"
    /\ Current(t, rec.copy)
    /\ status[t].rv < MaxRv
    /\ status' = [status EXCEPT ![t] = Stored(t, rec.copy, TRUE)]
    /\ rec' = [rec EXCEPT !.pc = "spawn", !.todo = Unfinished(t, rec.copy)]
    /\ UNCHANGED <<cache, queue, th, clusterVars, saved, told, bounds>>

RecPut ==
    LET t == rec.task IN
    /\ rec.pc = "put"
    /\ IF Current(t, rec.copy)
       THEN /\ status[t].rv < MaxRv
            /\ status' = [status EXCEPT ![t] = Stored(t, rec.copy, TRUE)]
            /\ rec' = [pc |-> "spawn", task |-> t, copy |-> Stored(t, rec.copy, TRUE),
                       todo |-> Unfinished(t, rec.copy)]
            /\ UNCHANGED queue
       ELSE /\ rec' = IdleRec
            /\ queue' = queue \cup {t}
            /\ UNCHANGED status
    /\ UNCHANGED <<cache, th, clusterVars, saved, told, bounds>>

\* go func(...) { do4Locust(...) }
RecSpawn(s, g) ==
    /\ rec.pc = "spawn" /\ s \in rec.todo
    /\ th[<<g, "provision">>].pc = "idle" /\ th[<<g, "watch">>].pc = "idle"
    /\ th' = [th EXCEPT ![<<g, "provision">>] =
                 [IdleThread EXCEPT !.pc = "master.get", !.task = rec.task,
                                    !.scen = s, !.id = rec.copy.id]]
    /\ rec' = [rec EXCEPT !.todo = @ \ {s}]
    /\ UNCHANGED <<taskVars, clusterVars, saved, told, bounds>>

RecReturn ==
    /\ rec.pc = "spawn" /\ rec.todo = {}
    /\ rec' = IdleRec
    /\ UNCHANGED <<taskVars, th, clusterVars, saved, told, bounds>>

-----------------------------------------------------------------------------
(* do4Locust *)

Set(x, r) == th' = [th EXCEPT ![x] = r]

Goto(x, pc) == Set(x, [th[x] EXCEPT !.pc = pc])

\* updateStatus(ph), and after it updateStatus(next) by the caller of do4Locust.
Reporting(x, ph, next) == [th[x] EXCEPT !.pc = "update.get", !.n = 0,
                                        !.ph = ph, !.next = next]

GetObject(x, name, found, missing) ==
    /\ Goto(x, IF name \in seen THEN found ELSE missing)
    /\ UNCHANGED <<taskVars, rec, clusterVars, saved, told, bounds>>

\* The server rejects a name that exists, whatever the cache said before.
CanCreate(name) == objects[name] = NoId
CreateFails(name) == objects[name] # NoId \/ "create" \in Faults

Make(x, name) == objects' = [objects EXCEPT ![name] = th[x].id]

MasterGet(x) ==
    /\ th[x].pc = "master.get"
    /\ GetObject(x, Master(th[x].scen), "svc.get", "master.create")

MasterCreate(x) ==
    LET s == th[x].scen IN
    /\ th[x].pc = "master.create"
    /\ \/ /\ CanCreate(Master(s))
          /\ Make(x, Master(s))
          /\ pod' = [pod EXCEPT ![s] = "pending"]
          /\ Goto(x, "svc.get")
       \/ /\ CreateFails(Master(s))
          /\ Set(x, Reporting(x, "PROVISIONING_MASTER", ""))
          /\ UNCHANGED <<objects, pod>>
    /\ UNCHANGED <<taskVars, rec, seen, ingress, saved, told, bounds>>

SvcGet(x) ==
    /\ th[x].pc = "svc.get"
    /\ GetObject(x, Svc(th[x].scen), "poll", "svc.create")

SvcCreate(x) ==
    LET s == th[x].scen IN
    /\ th[x].pc = "svc.create"
    /\ \/ /\ CanCreate(Svc(s))
          /\ Make(x, Svc(s))
          /\ Goto(x, "poll")
       \/ /\ CreateFails(Svc(s))
          /\ Set(x, Reporting(x, "FAILED", "PROVISIONING_MASTER"))
          /\ UNCHANGED objects
    /\ UNCHANGED <<taskVars, rec, seen, pod, ingress, saved, told, bounds>>

\* Mutated: a scheduled master is taken for a ready one.
MasterScheduled(t, s) ==
    /\ Master(s) \in seen /\ pod[s] \in {"pending", "ready"}
    /\ Svc(s) \in seen
    /\ t \in Distributed => s \in ingress

\* checkLocustMaster
MasterReady(t, s) ==
    /\ Master(s) \in seen /\ pod[s] = "ready"
    /\ Svc(s) \in seen
    /\ t \in Distributed => s \in ingress

\* Mutated: readiness is polled without a limit.
PollForever(x) ==
    /\ th[x].pc = "poll"
    /\ MasterReady(th[x].task, th[x].scen)
    /\ Set(x, [th[x] EXCEPT !.pc = "worker.get", !.n = 1])
    /\ UNCHANGED <<taskVars, rec, clusterVars, saved, told, bounds>>

Poll(x) ==
    /\ th[x].pc = "poll"
    /\ \/ /\ MasterReady(th[x].task, th[x].scen)
          /\ Set(x, [th[x] EXCEPT !.pc = "worker.get", !.n = 1])
       \/ /\ ~MasterReady(th[x].task, th[x].scen)
          /\ Set(x, IF th[x].n + 1 < MaxPolls
                    THEN [th[x] EXCEPT !.n = @ + 1]
                    ELSE Reporting(x, "PROVISIONING_MASTER", ""))
    /\ UNCHANGED <<taskVars, rec, clusterVars, saved, told, bounds>>

\* Kube2Client builds a client of a worker cluster, or the cluster does not answer it.
Unreachable(t) == t \in Distributed /\ "connect" \in Faults

\* The worker is looked up in the cache of the home cluster, or in the remote
\* cluster itself, which may be unreachable.
WorkerGet(x) ==
    LET w == Worker(th[x].task, th[x].scen, th[x].n) IN
    /\ th[x].pc = "worker.get" /\ th[x].n <= Workers[th[x].scen]
    /\ \/ /\ IF th[x].task \in Distributed THEN objects[w] # NoId ELSE w \in seen
          /\ Set(x, [th[x] EXCEPT !.n = @ + 1])
       \/ /\ IF th[x].task \in Distributed THEN objects[w] = NoId ELSE w \notin seen
          /\ Goto(x, "worker.create")
       \/ /\ Unreachable(th[x].task)
          /\ Set(x, Reporting(x, "FAILED", "PROVISIONING_WORKER"))
    /\ UNCHANGED <<taskVars, rec, clusterVars, saved, told, bounds>>

\* Mutated: a worker that could not be created is tried again.
WorkerCreateAgain(x) ==
    LET w == Worker(th[x].task, th[x].scen, th[x].n) IN
    /\ th[x].pc = "worker.create"
    /\ \/ /\ CanCreate(w)
          /\ Make(x, w)
          /\ Set(x, [th[x] EXCEPT !.pc = "worker.get", !.n = @ + 1])
       \/ /\ CreateFails(w)
          /\ Goto(x, "worker.get")
          /\ UNCHANGED objects
    /\ UNCHANGED <<taskVars, rec, seen, pod, ingress, saved, told, bounds>>

WorkerCreate(x) ==
    LET w == Worker(th[x].task, th[x].scen, th[x].n) IN
    /\ th[x].pc = "worker.create"
    /\ \/ /\ CanCreate(w)
          /\ Make(x, w)
          /\ Set(x, [th[x] EXCEPT !.pc = "worker.get", !.n = @ + 1])
       \/ /\ CreateFails(w)
          /\ Set(x, Reporting(x, "FAILED", "PROVISIONING_WORKER"))
          /\ UNCHANGED objects
    /\ UNCHANGED <<taskVars, rec, seen, pod, ingress, saved, told, bounds>>

\* Mutated: the loop over the workers ends one short.
WorkersDoneEarly(x) ==
    /\ th[x].pc = "worker.get" /\ th[x].n >= Workers[th[x].scen]
    /\ Set(x, Reporting(x, "TESTING", "TESTING"))
    /\ UNCHANGED <<taskVars, rec, clusterVars, saved, told, bounds>>

\* A client is built for the last region also when that gets no worker.
LastIsIdle(s) == Traffics[s] # <<>> /\ Shares(s)[Len(Traffics[s])] = 0

WorkersDone(x) ==
    /\ th[x].pc = "worker.get" /\ th[x].n > Workers[th[x].scen]
    /\ \/ Set(x, Reporting(x, "TESTING", "TESTING"))
       \/ /\ Unreachable(th[x].task) /\ LastIsIdle(th[x].scen)
          /\ Set(x, Reporting(x, "FAILED", "PROVISIONING_WORKER"))
    /\ UNCHANGED <<taskVars, rec, clusterVars, saved, told, bounds>>

-----------------------------------------------------------------------------
(* updateStatus, on behalf of any goroutine *)

\* Mutated: the phase is the status, whatever its prefix.
StatusVerbatim(ph) == ph

\* PtStatus of a task whose scenario has just reported ph.
StatusFor(ph) == IF ph \in ProvisioningPhases THEN "PENDING" ELSE ph

\* Mutated: the summary is only set by provisioners.
ReportedPhaseOnly(x, version) ==
    LET s == th[x].scen IN
    [version EXCEPT !.phases[s] = th[x].ph,
                    !.ptStatus = IF x \in Watchers THEN @ ELSE StatusFor(th[x].ph),
                    !.archives = IF x \in Watchers THEN @ \cup {s} ELSE @]

\* Mutated: the status is built afresh, without the id.
ReportedAfresh(x, version) ==
    LET s == th[x].scen IN
    [version EXCEPT !.id = NoId,
                    !.phases[s] = th[x].ph,
                    !.ptStatus = StatusFor(th[x].ph),
                    !.archives = IF x \in Watchers THEN @ \cup {s} ELSE @]

\* A watcher sets the archive along with the phase.
Reported(x, version) ==
    LET s == th[x].scen IN
    [version EXCEPT !.phases[s] = th[x].ph,
                    !.ptStatus = StatusFor(th[x].ph),
                    !.archives = IF x \in Watchers THEN @ \cup {s} ELSE @]

\* What goroutine x does when updateStatus returns; all callers ignore its error.
\* After TESTING do4Locust starts the watcher and returns TESTING to its caller.
Returned(x) ==
    LET r == th[x] IN
    IF x \in Watchers
    THEN [th EXCEPT ![x] = [r EXCEPT !.pc = "visit", !.scen = None, !.ph = "",
                                     !.copy = NoVersion, !.left = @ - 1]]
    ELSE IF r.next = ""
    THEN [th EXCEPT ![x] = IdleThread]
    ELSE [y \in Threads |->
            IF y = x THEN [r EXCEPT !.pc = "update.get", !.ph = r.next, !.next = "",
                                    !.copy = NoVersion]
            ELSE IF y = <<x[1], "watch">> /\ r.ph = "TESTING"
            THEN [IdleThread EXCEPT !.pc = "list", !.task = r.task, !.id = r.id]
            ELSE th[y]]

UpdateGet(x) ==
    /\ th[x].pc = "update.get"
    /\ IF cache[th[x].task].live
       THEN Set(x, [th[x] EXCEPT !.pc = TellStep(th[x].task, "update.tell", "update.put"),
                                 !.copy = Reported(x, cache[th[x].task])])
       ELSE th' = Returned(x)
    /\ UNCHANGED <<taskVars, rec, clusterVars, saved, told, bounds>>

UpdateTell(x) ==
    /\ th[x].pc = "update.tell"
    /\ Tell(th[x].task, th[x].copy.ptStatus)
    /\ Goto(x, "update.put")
    /\ UNCHANGED <<taskVars, rec, clusterVars, saved, bounds>>

\* Mutated: a refused update is sent again under the stored version number.
UpdatePutForced(x) ==
    LET t == th[x].task
        forced == [th[x].copy EXCEPT !.rv = status[t].rv + 1] IN
    /\ th[x].pc = "update.put" /\ status[t].rv < MaxRv
    /\ status' = [status EXCEPT ![t] = IF @.live THEN forced ELSE @]
    /\ th' = Returned(x)
    /\ UNCHANGED <<cache, queue, rec, clusterVars, saved, told, bounds>>

\* The archive is a time stamp, so a watcher's update always changes the object.
UpdatePut(x) ==
    LET t == th[x].task
        changes == x \in Watchers \/ th[x].copy # status[t] IN
    /\ th[x].pc = "update.put"
    /\ IF Current(t, th[x].copy)
       THEN /\ changes => status[t].rv < MaxRv
            /\ status' = [status EXCEPT ![t] = Stored(t, th[x].copy, changes)]
       ELSE UNCHANGED status
    /\ th' = Returned(x)
    /\ UNCHANGED <<cache, queue, rec, clusterVars, saved, told, bounds>>

-----------------------------------------------------------------------------
(* checkMasterStatus *)

MastersSeen == {s \in Scenarios : Master(s) \in seen}

\* Mutated: any terminated master counts, whatever the reason.
WatchListTerminated(x) ==
    /\ th[x].pc = "list"
    /\ Set(x, [th[x] EXCEPT !.pc = "visit", !.left = Cardinality(MastersSeen),
                            !.todo = {s \in MastersSeen : pod[s] \in {"completed", "failed"}}])
    /\ UNCHANGED <<taskVars, rec, clusterVars, saved, told, bounds>>

\* All locust masters of the namespace, whichever task they belong to.
WatchList(x) ==
    /\ th[x].pc = "list"
    /\ Set(x, [th[x] EXCEPT !.pc = "visit", !.left = Cardinality(MastersSeen),
                            !.todo = {s \in MastersSeen : pod[s] = "completed"}])
    /\ UNCHANGED <<taskVars, rec, clusterVars, saved, told, bounds>>

\* The task is read again; when it is gone the last version read decides.
WatchVisit(x, s) ==
    LET pTask == cache[th[x].task]
        rest  == th[x].todo \ {s} IN
    /\ th[x].pc = "visit" /\ s \in th[x].todo
    /\ \/ /\ pTask.live => s \in pTask.archives
          /\ Set(x, [th[x] EXCEPT !.todo = rest, !.left = @ - 1,
                                  !.id = IF pTask.live THEN pTask.id ELSE @])
       \/ /\ pTask.live => s \notin pTask.archives
          /\ Set(x, [th[x] EXCEPT !.pc = "copy", !.scen = s, !.todo = rest,
                                  !.id = IF pTask.live THEN pTask.id ELSE @])
    /\ UNCHANGED <<taskVars, rec, clusterVars, saved, told, bounds>>

\* The source folder is named by an id; a master made for another id left no such
\* folder, one that was collected may have left it on the shared volume.
CopyFileToGCS(id, s) ==
    \/ objects[Master(s)] \in {id, NoId} /\ saved' = saved \cup {<<id, s>>}
    \/ (objects[Master(s)] # id \/ "copy" \in Faults) /\ UNCHANGED saved

\* A failed copy is logged and the scenario is reported FINISHED all the same.
WatchCopy(x) ==
    /\ th[x].pc = "copy"
    /\ CopyFileToGCS(th[x].id, th[x].scen)
    /\ Set(x, [th[x] EXCEPT !.pc = "update.get", !.ph = "FINISHED"])
    /\ UNCHANGED <<taskVars, rec, clusterVars, told, bounds>>

WatchRound(x) ==
    /\ th[x].pc = "visit" /\ th[x].todo = {}
    /\ Set(x, IF th[x].left = 0 THEN IdleThread
              ELSE [th[x] EXCEPT !.pc = "list", !.left = 0])
    /\ UNCHANGED <<taskVars, rec, clusterVars, saved, told, bounds>>

-----------------------------------------------------------------------------
(* The environment: users, informers, kubelet, load balancer, restarts *)

Submit(t) ==
    /\ status[t].rv = 0
    /\ status' = [status EXCEPT ![t].rv = 1, ![t].live = TRUE]
    /\ UNCHANGED <<cache, queue, rec, th, clusterVars, saved, told, bounds>>

\* An annotation or another part of the object that the controller leaves alone.
Edit(t) ==
    /\ status[t].live /\ edits < MaxEdits /\ status[t].rv < MaxRv
    /\ status' = [status EXCEPT ![t].rv = @ + 1]
    /\ edits' = edits + 1
    /\ UNCHANGED <<cache, queue, rec, th, clusterVars, saved, told, uuids, crashes>>

\* A tombstone keeps the versions of a deleted task apart from later ones.
Delete(t) ==
    /\ t \in Deletable /\ status[t].live /\ status[t].rv < MaxRv
    /\ status' = [status EXCEPT ![t] = [NoVersion EXCEPT !.rv = status[t].rv + 1]]
    /\ UNCHANGED <<cache, queue, rec, th, clusterVars, saved, told, bounds>>

\* The informer catches up and its event queues the task (For(&PtTask{})).
Deliver(t) ==
    /\ cache[t] # status[t]
    /\ cache' = [cache EXCEPT ![t] = status[t]]
    /\ queue' = queue \cup {t}
    /\ UNCHANGED <<status, rec, th, clusterVars, saved, told, bounds>>

Observe(n) ==
    /\ objects[n] # NoId /\ n \notin seen
    /\ seen' = seen \cup {n}
    /\ UNCHANGED <<taskVars, rec, th, objects, pod, ingress, saved, told, bounds>>

\* Garbage collection of the home cluster's objects of a deleted task; remote
\* workers have no owner reference.
Collect(n) ==
    /\ n \in HomeNames /\ objects[n] # NoId
    /\ \A t \in Tasks : status[t].live => status[t].id # objects[n]
    /\ objects' = [objects EXCEPT ![n] = NoId]
    /\ seen' = seen \ {n}
    /\ pod' = IF n[1] = "master" THEN [pod EXCEPT ![n[2]] = "absent"] ELSE pod
    /\ ingress' = IF n[1] = "svc" THEN ingress \ {n[2]} ELSE ingress
    /\ UNCHANGED <<taskVars, rec, th, saved, told, bounds>>

\* The load test runs on workers: with none missing it can run to its end.
Manned(s) == \E t \in Tasks : /\ s \in ScenariosOf[t]
                              /\ \A i \in 1..Workers[s] : objects[Worker(t, s, i)] # NoId

\* The master pod as the cache shows it; RestartPolicy is Never.
PodStep(s) ==
    /\ \/ pod[s] = "pending" /\ pod' = [pod EXCEPT ![s] = "ready"]
       \/ pod[s] = "ready" /\ Manned(s) /\ pod' = [pod EXCEPT ![s] = "completed"]
       \/ pod[s] \in {"pending", "ready"} /\ pod' = [pod EXCEPT ![s] = "failed"]
    /\ UNCHANGED <<taskVars, rec, th, objects, seen, ingress, saved, told, bounds>>

Ingress(s) ==
    /\ Spread(s)
    /\ Svc(s) \in seen /\ s \notin ingress
    /\ ingress' = ingress \cup {s}
    /\ UNCHANGED <<taskVars, rec, th, objects, seen, pod, saved, told, bounds>>

\* Goroutines and queue are lost; the informers list everything again.
Crash ==
    /\ crashes < MaxCrashes
    /\ crashes' = crashes + 1
    /\ rec' = IdleRec
    /\ th' = [x \in Threads |-> IdleThread]
    /\ cache' = status
    /\ queue' = {t \in Tasks : status[t].live}
    /\ seen' = {n \in HomeNames : objects[n] # NoId}
    /\ UNCHANGED <<status, objects, pod, ingress, saved, told, uuids, edits>>

-----------------------------------------------------------------------------

Reconcile ==
    \/ \E t \in Tasks : RecSkip(t) \/ RecIdentify(t) \/ RecKnown(t)
    \/ RecTell \/ RecPut \/ RecReturn
    \/ \E s \in Scenarios, g \in Slots : RecSpawn(s, g)

Provision(x) ==
    \/ MasterGet(x) \/ MasterCreate(x) \/ SvcGet(x) \/ SvcCreate(x) \/ Poll(x)
    \/ WorkerGet(x) \/ WorkerCreate(x) \/ WorkersDone(x)

UpdateStatus(x) == UpdateGet(x) \/ UpdateTell(x) \/ UpdatePut(x)

Watch(x) ==
    \/ WatchList(x) \/ WatchCopy(x) \/ WatchRound(x)
    \/ \E s \in Scenarios : WatchVisit(x, s)

Cluster ==
    \/ \E n \in Names : Collect(n)
    \/ \E n \in HomeNames : Observe(n)
    \/ \E s \in Scenarios : PodStep(s) \/ Ingress(s)

User == \E t \in Tasks : Submit(t) \/ Edit(t) \/ Delete(t)

Next ==
    \/ User \/ Reconcile \/ Cluster \/ Crash
    \/ \E t \in Tasks : Deliver(t)
    \/ \E x \in Threads : Provision(x) \/ UpdateStatus(x) \/ Watch(x)

Spec == Init /\ [][Next]_vars

\* Informers, the work queue and the goroutine scheduler keep running; users,
\* pods and restarts are free to do nothing.
Fairness ==
    /\ WF_vars(Reconcile)
    /\ \A t \in Tasks : WF_vars(Deliver(t))
    /\ \A n \in HomeNames : WF_vars(Observe(n))
    /\ \A x \in Threads : WF_vars(Provision(x) \/ UpdateStatus(x) \/ Watch(x))

FairSpec == Spec /\ Fairness
-----------------------------------------------------------------------------
(* Properties *)

\* A scenario only one task uses; its pods and services are that task's own.
Private(s) == \A t, u \in Tasks : s \in ScenariosOf[t] /\ s \in ScenariosOf[u] => t = u

\* What Reconcile and the goroutines are busy with exists, and a provisioner serves
\* a scenario of its own task.
ActorInv ==
    /\ rec.pc # "idle" => rec.task \in Tasks /\ rec.todo \subseteq ScenariosOf[rec.task]
    /\ \A x \in Threads :
          /\ th[x].pc # "idle" => th[x].task \in Tasks
          /\ th[x].pc \in UpdateSteps \cup {"copy"} => th[x].scen \in Scenarios
          /\ x \in Provisioners /\ th[x].pc # "idle" =>
                th[x].scen \in ScenariosOf[th[x].task]
          /\ th[x].pc \in ProvisionSteps => x \in Provisioners
          /\ th[x].pc \in WatchSteps => x \in Watchers

\* The state stays within the types of the code's structures.
TypeOK ==
    /\ status \in [Tasks -> Version] /\ cache \in [Tasks -> Version]
    /\ queue \subseteq Tasks
    /\ rec \in Rec
    /\ th \in [Threads -> Thread]
    /\ objects \in [Names -> Nat] /\ seen \subseteq HomeNames
    /\ pod \in [Scenarios -> PodStates] /\ ingress \subseteq Scenarios
    /\ saved \subseteq Nat \X Scenarios
    /\ told \in [Tasks -> PtStatuses]
    /\ uuids \in Nat /\ edits \in Nat /\ crashes \in Nat
    /\ ActorInv

\* The task exists or existed, and id is the one its status has while it lives.
Owned(t, id) ==
    id # NoId /\ status[t].rv > 0 /\ (status[t].live => status[t].id = id)

\* The version numbers tell versions apart, which optimistic concurrency rests on:
\* whatever the cache, Reconcile or a goroutine read earlier is older than the
\* stored version, or differs from it only in what its owner is about to write; and
\* ids that a goroutine or an older version knows are the id of the task.
VersionInv ==
    /\ \A t \in Tasks :
          /\ status[t].rv = 0 => status[t] = NoVersion
          /\ cache[t].rv <= status[t].rv
          /\ cache[t].rv = status[t].rv => cache[t] = status[t]
          /\ cache[t].live /\ cache[t].id # NoId => Owned(t, cache[t].id)
    /\ rec.pc \in {"tell", "put"} =>
          /\ rec.copy.live /\ rec.copy.id # NoId
          /\ rec.copy.rv <= status[rec.task].rv
          /\ rec.copy.rv = status[rec.task].rv =>
                /\ status[rec.task].id = NoId
                /\ rec.copy.phases = status[rec.task].phases
                /\ rec.copy.archives = status[rec.task].archives
    /\ rec.pc = "spawn" => Owned(rec.task, rec.copy.id)
    /\ \A x \in Threads :
          /\ x \in Provisioners /\ th[x].pc # "idle" => Owned(th[x].task, th[x].id)
          /\ th[x].pc \in {"update.tell", "update.put"} =>
                LET stored == status[th[x].task] IN
                /\ th[x].copy.live
                /\ th[x].copy.rv <= stored.rv
                /\ th[x].copy.rv = stored.rv =>
                      /\ th[x].copy.id = stored.id
                      /\ stored.archives \subseteq th[x].copy.archives
                      /\ \A s \in Scenarios \ {th[x].scen} :
                            th[x].copy.phases[s] = stored.phases[s]

\* The master pod of a task that exists was made for the id of that task.
MasterInv ==
    \A t \in Tasks : \A s \in ScenariosOf[t] :
        Private(s) /\ objects[Master(s)] # NoId => Owned(t, objects[Master(s)])

\* A task keeps the id of its first successful Reconcile: whatever a later
\* Reconcile generates from a stale cache, after a conflict or a restart never
\* replaces it (Reconcile 75-92). The log folder and the archive are named by it.
IdStable ==
    [][\A t \in Tasks :
          status[t].live /\ status'[t].live /\ status[t].id # NoId
          => status'[t].id = status[t].id]_vars

\* The master pod of a task writes its logs to /taurus-logs/<id>/<scenario> with
\* the id of the task's status: no provisioner ever runs with an id whose update
\* was refused (Reconcile 88-91 returns before starting any).
MasterLogsUnderTaskId ==
    \A t \in Tasks : \A s \in ScenariosOf[t] :
        Private(s) /\ status[t].live /\ objects[Master(s)] # NoId
        => objects[Master(s)] = status[t].id

\* An update of the status touches the phase of one scenario at most and never
\* drops an archive, however many goroutines run updateStatus at once from
\* however old a cache (updateStatus 133-162).
NoLostUpdate ==
    [][\A t \in Tasks :
          status[t].live /\ status'[t].live =>
          /\ status[t].archives \subseteq status'[t].archives
          /\ \A s, u \in Scenarios :
                status'[t].phases[s] # status[t].phases[s]
                /\ status'[t].phases[u] # status[t].phases[u] => s = u]_vars

\* Once a task has an id, PtStatus is INITIAL before any phase was reported and
\* afterwards what the phase of one of its scenarios says (updateStatus 144-152):
\* the phases and the summary are never of two different updates.
StatusFollowsPhases ==
    \A t \in Tasks :
        status[t].live /\ status[t].id # NoId =>
        IF \A s \in Scenarios : status[t].phases[s] = ""
        THEN status[t].ptStatus = "INITIAL"
        ELSE \E s \in Scenarios : /\ status[t].phases[s] # ""
                                  /\ status[t].ptStatus = StatusFor(status[t].phases[s])

\* Workers are created only after their master was ready (do4Locust 229-240):
\* while the task lives its workers never stand beside an absent or pending master.
WorkersNeedReadyMaster ==
    \A t \in Tasks : \A s \in ScenariosOf[t] : \A i \in 1..Workers[s] :
        Private(s) /\ status[t].live /\ objects[Worker(t, s, i)] # NoId
        => pod[s] \notin {"absent", "pending"}

\* A scenario in phase TESTING has its service and all its workers, although any
\* number of provisioners share the work, die half-way or report late.
TestingMeansProvisioned ==
    \A t \in Tasks : \A s \in ScenariosOf[t] :
        Private(s) /\ status[t].live /\ status[t].phases[s] = "TESTING"
        => /\ objects[Svc(s)] # NoId
           /\ \A i \in 1..Workers[s] : objects[Worker(t, s, i)] # NoId

\* The workers of a scenario that is spread over regions are what was requested, cut to
\* whole workers in each region (do4Locust 282-299): if the percentages are no more
\* than 100 there is never a worker beyond the requested number, whoever makes them, and if
\* they are 100 a scenario in TESTING lacks fewer workers than it has regions.
WorkersAsRequested ==
    \A t \in Distributed : \A s \in ScenariosOf[t] :
        LET regions == Len(Traffics[s]) IN
        Private(s) /\ status[t].live =>
        /\ Total(Traffics[s]) <= 100 =>
              \A i \in 1..Workers[s] : objects[Worker(t, s, i)] # NoId => i <= Requested[s]
        /\ Total(Traffics[s]) = 100 /\ status[t].phases[s] = "TESTING" =>
              \A i \in 1..(Requested[s] - regions + 1) :
                 /\ i <= Workers[s]
                 /\ objects[Worker(t, s, i)] # NoId

\* FINISHED in a phase, an archive, logs in the bucket, or FINISHED told to pt-admin
\* before the update is even tried, means that the locust master of the scenario ran to
\* completion: a failed master or a timeout never passes for a result
\* (checkMasterStatus 357-382). What pt-admin is told is of some scenario of the
\* namespace, so for a task of several it says nothing of that task.
FinishedMeansCompleted ==
    \A t \in Tasks :
        (\A s \in ScenariosOf[t] : Private(s)) /\ status[t].live =>
        /\ \A s \in ScenariosOf[t] :
              \/ status[t].phases[s] = "FINISHED"
              \/ s \in status[t].archives
              \/ status[t].id # NoId /\ <<status[t].id, s>> \in saved
              => pod[s] = "completed"
        /\ Tasks = {t} /\ told[t] = "FINISHED" =>
              \E s \in ScenariosOf[t] : pod[s] = "completed"

\* A submitted task is given an id, or is deleted (Reconcile 75-92), although the
\* first update may conflict with an edit, or the operator restart before it.
EventuallyIdentified ==
    \A t \in Tasks : status[t].live ~> (status[t].id # NoId \/ ~status[t].live)

\* The steps that a provisioner in the state r has yet to take, at most.
StepsLeft(r) ==
    LET again   == IF r.next = "" THEN 0 ELSE 3
        w       == Workers[r.scen]
        workers == 2 * (w + 1 - r.n) IN
    CASE r.pc = "master.get"    -> 11 + 2 * w + MaxPolls
      [] r.pc = "master.create" -> 10 + 2 * w + MaxPolls
      [] r.pc = "svc.get"       -> 9 + 2 * w + MaxPolls
      [] r.pc = "svc.create"    -> 8 + 2 * w + MaxPolls
      [] r.pc = "poll"          -> 7 + 2 * w + (MaxPolls - r.n)
      [] r.pc = "worker.get"    -> 7 + workers
      [] r.pc = "worker.create" -> 6 + workers
      [] r.pc = "update.get"    -> 3 + again
      [] r.pc = "update.tell"   -> 2 + again
      [] r.pc = "update.put"    -> 1 + again
      [] r.pc = "idle"          -> 0

\* A provisioner never does anything over, whatever fails and whatever other goroutines do
\* to the objects it asks for: each of its steps leaves it fewer, so all that do4Locust
\* and its caller do for a scenario is bounded by its workers and the limit of the polls,
\* and only another Reconcile tries again.
ProvisionersAdvance ==
    [][\A x \in Provisioners :
          th[x].pc # "idle" /\ th'[x] # th[x]
          => StepsLeft(th'[x]) \in 0..(StepsLeft(th[x]) - 1)]_vars

\* Every provisioner returns: readiness is polled a bounded number of times, and
\* neither a failed creation nor a lost update makes do4Locust wait for anything.
\* (MaxRv, a bound of the model, holds an update back.)
ProvisionerReturns ==
    \A x \in Provisioners :
        th[x].pc # "idle"
        ~> (th[x].pc = "idle" \/ \E t \in Tasks : status[t].rv = MaxRv)

-----------------------------------------------------------------------------
(* The abstract specification *)

\* What a reader of the API server sees of the tasks.
Shown == [t \in Tasks |->
            [state    |-> IF status[t].rv = 0 THEN "new"
                          ELSE IF status[t].live THEN "live" ELSE "gone",
             id       |-> status[t].id,
             phases   |-> status[t].phases,
             archives |-> status[t].archives,
             ptStatus |-> status[t].ptStatus]]

Promised == INSTANCE TaskStatus WITH task <- Shown

\* The operator implements TaskStatus: whatever stale copies Reconcile, provisioners and
\* watchers hold, what they store is one report of one of them, whole, of a task
\* that has its id, and FINISHED never comes without the archive (Reconcile 75-92,
\* updateStatus 130-164).
ImplementsTaskStatus == Promised!Spec

-----------------------------------------------------------------------------
(* What comments and documents promise and the code does not keep *)

\* "Mark the PtTask as done" (379): a FINISHED scenario stays so.
FinishedIsFinal ==
    [][\A t \in Tasks : \A s \in Scenarios :
          status'[t].live /\ status[t].phases[s] = "FINISHED"
          => status'[t].phases[s] = "FINISHED"]_vars
=============================================================================
