# perf-test: a TLA+ verification project

perf-test runs load tests on Kubernetes. A user describes a test; *pt-admin*
provisions clusters through a Cloud Workflow and applies a `PtTask` object;
*pt-operator*, a Kubernetes controller, starts one locust master and its workers per
scenario, watches them, copies the logs to a bucket and reports every status change
to pt-admin. This directory holds the TLA+ specifications of that system, the TLC
configurations that check them on small instances, and proofs checked by TLAPS.

## The system

| component | source | state | operations |
|---|---|---|---|
| pt-operator controller | `pt-operator/internal/controller/pttask_controller.go`, `internal/helper/locust.go`, `internal/helper/k8s.go` | `PtTask.Status` (id, phase per scenario, archive per scenario, PtStatus) at the API server; informer cache; goroutines | `Reconcile`, `do4Locust`, `checkLocustMaster`, `checkMasterStatus`, `copyFileToGCS`, `updateStatus`, `update2ptadmin` |
| metrics monitors | `pt-operator/internal/controller/extra_metrics.go` | one global map of gauges | `MonitorLocust*` goroutines tail logs and pod states |
| pt-admin store | `pt-admin/internal/helper/store.go` | one Firestore document per task and workflow execution | `Insert`, `UpdatePtTask`, `UpdatePtTaskStatus`, `UpdateWorkflowStatus`, `UpdateDashboardUrl`: each reads, changes and writes a whole document without a transaction |
| pt-admin handlers | `pt-admin/internal/handler.go`, `router.go` | none of their own (process working directory in `BuildImage`) | create, read, list and delete tasks; one handler per workflow step; status callbacks of operator and workflow |
| infrastructure helpers | `pt-admin/internal/helper/infra.go`, `k8sclient.go`, `gcpauth.go` | VPC, clusters, service accounts, IAM policies | create, describe, delete; policies by get, append, set |
| workflows | `pt-admin/workflows/provision.yaml`, `destroy.yaml` | the step reached | one HTTP call per step, no retry and no handler; started by a Pub/Sub message |
| web UI | `ui` | what the page last fetched | create, view, cancel |
| API types, generated code | `pt-admin/api`, `pt-admin/proto`, `zz_generated.deepcopy.go` | - | - |
| deployment | `tf`, `skaffold.yaml` | - | - |

How they interact: UI -> pt-admin by REST; pt-admin -> workflow by a Pub/Sub message
(at least once); workflow -> pt-admin by HTTP, step by step; pt-admin -> pt-operator by
applying the `PtTask`; pt-operator -> pt-admin by a PATCH per status change; all
goroutines of pt-operator share the `PtTask` object and the pods and services named
after its scenarios.

### What is hard, and what makes it correct

*pt-operator.* Every status change is an event, every event makes `Reconcile` start
one more provisioner for each scenario it does not see FINISHED, and each
provisioner that succeeds starts one more watcher. They all run `updateStatus`, which
reads the task from a cache that lags and writes the whole status back. Correct means:
the id a task first gets is never replaced and the masters log under it; concurrent
updates never lose a phase or an archive; TESTING is only said of a provisioned
scenario; FINISHED and archives only follow completed masters; provisioners come to
an end.

*pt-admin store and handlers.* Document updates by read-modify-write race between
handlers; callbacks arrive late, twice or never; the task is applied before it is
recorded. Correct means: a recorded execution is never replaced, a cancelled or
finished task stays so, no update is lost.

*Workflows and infrastructure.* Started at least once per message; network, account, IAM
policy and clusters are shared by name, looked up and created in two calls, destroyed under
their users. Correct means: one recorded execution per task; no role is lost; no cluster
without its network and account; a task only starts where its volume and its kind are;
every poll ends.

*Images.* Concurrent requests share the working directory of the process, and all tasks
share two image names. Correct means: a task runs its own scripts and all of them. The first half
holds for requests served one at a time, the second unless the walk that packs them meets an
error.

*Metrics.* A map without a lock, shared by monitors that come and go. Correct means: values
once in the map are lost at most to the races of the first rounds, the process dies of them only
where Go says so, and what is gone is shown as gone.

`PROJECT.json` lists each hazard at its line.

## Modules

| module | what it is |
|---|---|
| `TaskStatus` | what the status of a task promises those who read it: the abstract specification of pt-operator, with a theorem |
| `PtTaskOperator` | the pt-operator controller, the API server, caches and pods it works against, the properties; it implements `TaskStatus` |
| `PtTaskOperatorProofs` | theorems about it, checked by TLAPS |
| `PtTaskOperatorRefinement` | the proof that it implements `TaskStatus` |
| `PtTaskOperatorSites` | theorems about master, service and workers of a scenario, how many there are, and its archive and logs |
| `Monitors` | the monitoring goroutines of pt-operator, their map and their gauges |
| `MonitorsProofs` | theorems about them |
| `PtTransactions` | pt-admin: the document store, its handlers, the order of the provisioning workflow, cancellation and callbacks, the properties |
| `PtTransactionsProofs` | theorems about it, checked by TLAPS |
| `Provisioning` | composed with `PtTransactions`: the steps of the workflow on network, account, policy, clusters and the objects in the master cluster; destruction |
| `ProvisioningProofs` | theorems about it, among them that it implements `PtTransactions` |
| `ImageBuild` | uploads, `BuildImage`, Cloud Build and the images the pods pull |
| `ImageBuildProofs` | theorems about requests that are served alone |
| `MC...` | constants and symmetry for TLC |

`Provisioning` contains an instance of `PtTransactions` and takes its steps from there, all but
two, which it refines: `ProvisionResources` becomes a sequence of handlers, and
`PreparenApplyPtTask` needs a cluster that serves. `ImageBuild` is what its first handler
(`Build`) does; they share no state but the answer.

`PtTransactions` and `PtTaskOperator` meet at two calls. `PtTransactions` lets pt-operator send any status
of `Reports` for an applied task, in any order: `told` of `PtTaskOperator` says which
calls happen and takes them one at a time. A task of `PtTaskOperator` appears when
`PreparenApplyPtTask` applies it.

### PtTaskOperator: state

| variable | code |
|---|---|
| `status` | the `PtTask` objects at the API server: resourceVersion, existence, `Status` |
| `cache`, `seen` | what the manager's client returns from `Get` and `List`: the informer caches of tasks, and of pods and services |
| `queue`, `rec` | the work queue and the one `Reconcile` worker (`MaxConcurrentReconciles` is 1), with the local `pTask` |
| `th` | goroutines with their local variables: `<<g, "provision">>` runs `do4Locust` and then the report of its caller, `<<g, "watch">>` the `checkMasterStatus` it started |
| `objects` | pods and services by name, with the id of the task that made them: a name is `locust-master-<scenario>` and so on, so tasks that share a scenario name share the objects |
| `pod`, `ingress` | container state of a master as the cache shows it, address of its load balancer |
| `saved` | folders copied to the bucket |
| `told` | the last status pt-admin received |
| `uuids`, `edits`, `crashes` | counters for the bounds |

### PtTaskOperator: actions

Every call that leaves the process, or reads shared state, is a step of its own:
whatever another goroutine, the user, a pod or a restart does can come between.

| action | code |
|---|---|
| `RecSkip`, `RecIdentify`, `RecKnown` | `Reconcile` 65-97: the task is gone, has no id in the cache, has one |
| `RecTell`, `RecPut` | lines 85 and 88-91; a refused update returns an error and the task is queued again |
| `RecSpawn`, `RecReturn` | the loop over the executions, 95-126 |
| `MasterGet` ... `Poll` | `do4Locust` 171-241 with `checkLocustMaster` |
| `WorkerGet`, `WorkerCreate`, `WorkersDone` | 244-316, both types, then 318-339 |
| `UpdateGet`, `UpdateTell`, `UpdatePut` | `updateStatus` 130-164, whoever calls it; `Returned` says what the caller does next. Provisioning that fails after the master reports FAILED and then, from line 110, the PROVISIONING_* phase: `ph` and `next` |
| `WatchList`, `WatchVisit`, `WatchCopy`, `WatchRound` | `checkMasterStatus` 342-397 with `copyFileToGCS` |
| `Deliver` | the informer catches up and queues the task (`SetupWithManager`) |
| `Submit`, `Edit`, `Delete`, `Observe`, `Collect`, `PodStep`, `Ingress`, `Crash` | environment: users, informer of pods and services, garbage collector, kubelet, load balancer, operator restart |

Abstractions, each with its reason:

- The cache jumps to the current version when it catches up. Versions it skipped would
  only be refused later, as any other old one is.
- The goroutines of one `Reconcile` share a pointer to `pTask`, and a watcher
  overwrites it (361) while others read it: a data race. What the others read from it
  is the spec and the id, which the model shows never to change while the task
  lives, so each goroutine has a copy of the id it reads; the FINISHED test at 107
  reads the version Reconcile had.
- A master takes the states pending, ready, completed, failed; a container is
  never restarted (`RestartPolicyNever`). It completes only when its workers
  exist (`Manned`): locust waits for them.
- Workers of all regions of a Distribution task are one sequence. `Workers` is their number:
  `Requested`, or the sum of a `Share` of it for each percentage in `Traffics`, with the
  integer division of line 284.
- `checkLocustMaster` reads the Pod and then the service from the cache (405, 410); `MasterReady`
  takes both reads in one step. Left out is only a master that ends or is deleted between the
  two while its service gets its address; one that does so right after is not.
- A folder with the logs exists for an id under which a master was made; a copy fails
  or succeeds as a whole. The archive time stamp differs at every write.
- `TestingOutput.LogDir` has the value the platform gives it; the jmeter case only logs.
- Monitors (`go Monitor...`) change nothing the model has; they are in `Monitors`.
- A task name is submitted once. Tasks with a scenario name in common are of one type.

### PtTransactions: state

| variable | code |
|---|---|
| `published` | messages in the topic `pt-provision-wf`: at least once, so a message starts any number of executions |
| `execution` | the step each execution of `provision.yaml` has reached, and its task (`correlationId`) |
| `docs` | the collection `pt-transactions`: `ExecutionId`, `WorkflowStatus`, `PtTask`, `PtTaskStatus`, whether the links are set |
| `applied` | executions whose `PtTask` object is in the master's cluster |
| `call` | requests in progress: which field they change, and the whole document as they read it (`orgin`) |
| `destroyed` | tasks with a message in `pt-destroy-wf` |

### PtTransactions: actions

| action | code |
|---|---|
| `CreatePtTask` | the handler, as the message it publishes |
| `StartExecution` | external: a delivery starts an execution |
| `RecordWorkflow` | the handler and `Insert`: fails when the document exists, or when the store does, before or after its effect |
| `ProvisionResources` | `BuildImages` to `CheckPtOperatorIfDone`, as one step that works or fails |
| `PreparenApplyPtTask`, `CreateDashboard`, `UpdateWorkflowStatus` | the last three steps of the workflow up to their update of the document; the first applies the `PtTask`, or fails with or without having applied it |
| `DeletePtTask`, `PublishDestroy` | cancellation: read, message, then the update with CANCELLED |
| `UpdatePtTaskStatus` | a callback of pt-operator |
| `ReadDoc`, `WriteDoc` | the two halves of each `Update...` function of the store; either may fail, a write also after its effect. `Answer` is what the caller does: two handlers log a failed update and answer with success (`Following`) |
| `GiveUp` | external: the workflow's HTTP call times out while the handler goes on |
| `InstanceStops` | external: the Cloud Run instance stops between two steps of a request |

Abstractions: times, inputs and the content of links are left out; a `PtTask` object is
the execution that made it; the request of a user or a callback that is answered is not
used again. `LaunchedTask` is what `GetPtTask` and `ListPtTasks` show, with the lookup of
the status names in the protobuf enumeration.

### Provisioning: state and actions

| variable | code |
|---|---|
| `infra` | the handler an execution's workflow has called: what it is at, the policy it read, the clusters it creates, the endpoint it was given |
| `network`, `account`, `policy` | VPC `pt-vpc-9uej2d`, service account `pt-service-account`, the bindings of the project |
| `clusters` | the cluster named `pt-cluster-9uej2d` of each location, and who created it: a later one of that name is another cluster |
| `home` | storage class, claim, operator and `PtTask` objects in the master cluster; gone with it |
| `destroy` | requests of `DestroyResources` in progress |

| action | code |
|---|---|
| `Build` | `BuildImages`: see `ImageBuild` |
| `VpcGet`, `VpcInsert`, `VpcWait` | `CreateVPCNetwork` |
| `SaGet`, `SaCreate` | `CreateServiceAccount` |
| `PolicyGet`, `PolicySet` | `getPolicy`, `setPolicy`, once per role of `SetIamPolicies2SA`, then for `SetIamPolicies2KSA`; the policy is written with the etag it was read with |
| `GkeGet`, `GkeCreate` | `CreateAutopilotCluster` in the loop of `CreateGKEAutopilotCluster` |
| `CheckClusters`, `ClusterInfo` | `CheckClusterStatus`, `RetrieveClusterInfo`, with the poll of the workflow as a guard |
| `ApplyStorageClass`, `ApplyPVC`, `ApplyCRD`, `ApplyOperator` | `ApplyManifest`; the documents of one file are applied one by one |
| `PVCStatus`, `PtOperatorStatus` | the two polls of `ConfigureCluster` |
| `ApplyTask` | `PreparenApplyPtTask` of `PtTransactions`, which asks for the endpoints again |
| `DestroyStart`, `DestroyGet`, `DestroyDelete`, `DestroyFails` | `DestroyResources`, which destroys whatever has the name; any error of a lookup passes for absence |
| `Fail`, `GiveUp` | external: a call fails or the instance stops; the workflow's HTTP call times out while the handler goes on |
| `NetworkReady`, `ClusterProvisioned`, `ClusterGone`, `PVCBound`, `OperatorReplicated` | external: Google Cloud and Kubernetes |

Abstractions: a Get that fails although the resource is there leads to a creation that fails,
which is `Fail`. GKE refuses to delete a cluster with an operation in progress, to create
one that exists, and answers for a cluster being provisioned with or without an endpoint.
Certificates change with the cluster, so an old endpoint reaches nothing. A manifest
that is applied again changes nothing. The content of `sc.yaml` and of the other manifests is
left out, as are node pools: a deployment gets its replica.

### ImageBuild: state and actions

| variable | code |
|---|---|
| `req` | a request of `BuildImage`: scripts left to extract, entries left to archive (`todo`, a set that `Walk` takes in the order of the names), the archive in memory, the file `tgz2Gcs`; `met` remembers whom it overlapped, and `whole` of an archive whether an error of its walk was dropped: the code keeps neither |
| `cwd` | the working directory of the process |
| `disk` | the directories `/var/tmp/<time>` and `scripts` in them |
| `jobs`, `tag`, `pods` | builds submitted, what an image name stands for, what the pods of a task have pulled |

| action | code |
|---|---|
| `Upload`, `Download` | `UploadScriptsFile`, `downloadFromGcs` |
| `Untar`, `Extract` | `untarzFile`: Chdir, then file by file, without truncation |
| `CopyDockerfile` | `copyFile`, by its full path |
| `TarChdir`, `List`, `Walk`, `WriteTgz` | `tarzFile`: Chdir, the walk of `./`, the file; the result of `Walk` is dropped, and so is the error its function is given: an entry that is gone or cannot be looked at ends the walk, a directory that cannot be read is left out, and the archive goes on with what it has; a failed open is answered with nil |
| `Save`, `Submit` | `save2gcs`, `submitCloudBuildJob`; after Locust the same for Taurus |
| `Fail`, `Restart`, `BuildRuns`, `Pull` | external: failing calls, a new instance, Cloud Build, pods that start |

A file that was looked at and then cannot be opened or read leaves the tar unfinished; its Close
says so and the request ends (`Fail`).

Abstractions: a file is known by whose script it is; a name of a time stamp in nanoseconds is
taken to be unique. One instance serves all requests: with several, fewer meet.

### Monitors: state and actions

| variable | code |
|---|---|
| `mon` | the goroutines: `MonitorLocustMaster`, `MonitorLocustLocalWorker` or one `MonitorLocustDistributionWorker` per worker, `MonitorLocustTesting`, with their local variables |
| `entry` | `ptTaskMetrics`: which of the values of an entry were written: the status of the master, `WorkersStatus` (nil until then), the totals of the log |
| `status`, `workers` | the gauges `master_status` and `total_workers` |
| `master`, `pods` | the Pods they look at |

| action | code |
|---|---|
| `Start` | the `go` statements of `do4Locust`, in their order |
| `LookMaster`, `LookWorkers`, `LookWorker`, `LookLog` | the first half of a round: the Pod, the list, the cluster, a line of the log |
| `Lookup`, `Assign`, `Insert`, `Direct` | the accesses of the map, one at a time: a monitor writes through the pointer it found (`stale`, when the entry was replaced since), or puts a new entry over whatever is there; the monitor of local workers does so for each Pod of its list (`left`) |
| `Show` | the gauges, and the end of the round or of the monitor |
| `Panic`, `Fatal`, `Restart` | external: the Go runtime ends the process for a write to a nil map or for two accesses at a time; it may also do nothing in the second case |

Abstractions: a master that has completed and whose Pod is still there is shown as one that runs
(`status` keeps its value), so both are "running". A worker of another cluster has no name in
`WorkersStatus`, since line 408 hides the Pod it reads, and all of them write one key. The
gauges per worker are left out, and so is what is only added to in the entry: the times and
counts per endpoint.

### Bounds

| bound | meaning | why it is enough |
|---|---|---|
| `Slots` | goroutines alive at once; `RecSpawn` waits for a free slot | two provisioners and two watchers show every race of a pair; the properties relate two actors |
| `MaxPolls` | 100 in the code | 1 or 2: a poll has no effect but to count |
| `MaxRv` | versions of one task; an update beyond it waits | identification, and three or more competing status updates |
| `MaxUuid`, `MaxEdits`, `MaxCrashes` | generated ids, edits, restarts | a second id is what a duplicate needs; one edit makes one conflict |

In `PtTransactions` nothing counts: its constants bound the instance. One task suffices,
for documents of different tasks never meet; two executions are a duplicate delivery,
and with two requests up to four writers of one document overlap.

`Provisioning`: two executions meet at each shared resource; a second location is needed for a list
of clusters, one role and the binding for a policy that is written twice; one destroyer,
used once, destroys each cluster of a list. `NRoles` is 10 in the code, and each role is
a step like the others. `ExecutionEnds` is checked without a second location and without
roles, which have no polls. `ImageBuild`: two requests with scripts of their own and
one in common; `Started` and `Followed` bound whose pods and which images are followed after the
request: in `images`, one of each, for its properties are about what is submitted.
`Monitors`: one scenario with two workers. If it is local, the monitors of the master, of
the workers and of the log are at the map together; if it is distributed, the monitors of the master
and of each worker, all of which set one gauge. `MaxMonitors` = 3 lets the log of a
scenario with more monitors end at once, which the code does for a log that is not there
yet: the third kind of inserting monitor races in the local case. Only `LookWorkers` counts across
scenarios.

`distribution` asks for 4 workers over 38, 38 and 24 percent, hence 1, 1 and 0: shares that are
cut, a region without a worker, and two workers to make. The theorem is for all numbers.

Deadlock is not checked: a task that is finished or refused leaves the system with
nothing to do, which is how it should end.

## Runs

| run | instance | shows |
|---|---|---|
| `one_scenario` | 1 task, 1 scenario, 2 slots, failing creations | `TypeOK`, `TestingMeansProvisioned`, `NoLostUpdate` |
| `two_scenarios` | 1 task, 2 scenarios, 1 slot, edit | `StatusFollowsPhases`, `MasterLogsUnderTaskId`, `NoLostUpdate`, `IdStable`, `ImplementsTaskStatus` |
| `distribution` | Distribution task, 4 workers requested over 3 regions, deletion, all faults | `WorkersNeedReadyMaster`, `FinishedMeansCompleted`, `WorkersAsRequested`, `ProvisionersAdvance` |
| `progress` | fairness, edit, restart, an executionId annotation | `VersionInv`, `MasterLogsUnderTaskId`, `EventuallyIdentified`, `ProvisionerReturns` |
| `transactions` | 1 task, 2 executions, 2 requests, every call may fail | `TypeOK`, `AppliedIsRecorded`, `SavedIsApplied`, `CancelledIsDestroyed`, `FinishedIsApplied`, `ExecutionIsKept` |
| `provisioning` | 2 tasks, 2 executions, 2 locations, 1 role, 1 destroyer, every call may fail | `TypeOK`, `RolesGranted`, `ClustersAreEquipped`, `TaskIsHosted`, `HandlersAdvance`, `ImplementsTransactions` |
| `execution_ends` | fairness, 2 executions, 1 location, 1 destroyer | `ExecutionEnds` |
| `images` | 2 requests, every call may fail, dropped errors of the walk, restarts | `TypeOK`, `ServedAloneIsOwn` |
| `monitors` | fairness, 1 scenario, 2 workers, every error, restarts | `TypeOK`, `LostToRacersOnly`, `NilMapIsRaced`, `ShownIsWatched`, `GoneMasterIsShown`, `GoneWorkersAreNotCounted` |

Three further runs check what a comment says and the code does not do; TLC finds
each violated (`findings` in `PROJECT.json` quotes the lines):

| run | what happens |
|---|---|
| `finished_is_final` | a late report of a second provisioner replaces FINISHED |
| `own_scripts` | the Chdir of one request moves the directory under another one, and the pods of a task run the scripts of another |
| `done_means_ready` | an execution that finds a cluster takes it for provisioned while another one is creating it |

Seen while modelling, and plain in the code, so without a run of their own. In pt-operator:

- A watcher lists the masters of the whole namespace (348) and writes the scenarios of other
  tasks into its own.
- After a restart nobody archives a master that has completed meanwhile: only a provisioner
  that finds the master ready starts a watcher.
- A master that ends with an error is never reported (358); its watcher polls for ever.
- pt-admin is told a status before the update that stores it (158), and is not corrected
  when that is refused.
- An archive entry is written whatever `copyFileToGCS` returned (373-381): after a failed copy
  the entry is there, the logs are not, and line 363 skips the scenario from then on.
- The share of a region is a quotient of integers, cut before the `+ 0.5` of line 284 could round
  it: 4 workers over 38, 38 and 24 percent are 2. The master is still made for the number
  requested (173), and a test may go on with fewer: less than one per region, as
  `WorkersAsRequested` says.

In pt-admin:

- A callback that arrives late, or a write of an old copy, replaces CANCELLED: no update looks at
  the status it replaces. Two updates of one document that overlap undo each other's fields
  (`Set` of the whole document, `store.go` 255).
- `DestroyResources` destroys the clusters of the task's locations, whoever created them and
  whoever uses them, for all tasks share one name.
- `PreparenApplyPtTask` assigns `Traffics` anew for each cluster (643): the last region gets its
  share of the workers, the others none.
- PROVISIONING_FAILED and RUNNING of `ptadmin.proto` are never written. A workflow that failed
  leaves its task PROVISIONING, and the TESTING of pt-operator, no name of the enumeration, is
  shown as an unknown status (`LaunchedTask`).
- The destruction message has the project id without quotes (`handler.go` 1344), and
  `destroy.yaml` decodes it as JSON.

- An error of the walk that packs the scripts is dropped (`handler.go` 850): the image is built
  from the scripts packed so far, or none, and pushed under the name all tasks use.

In the monitors:

- Two monitors that find no entry both insert one, and the later one throws away what the earlier
  one recorded, the errors of the log so far among it. If it is the monitor of the master or
  of the log, a monitor of workers in between writes a nil map (380, 427): pt-operator
  stops, with all its monitors and watchers.
- `MonitorLocustMaster` keeps the last value: a master that has ended is shown as live until its
  Pod is deleted. `total_masters` is one gauge for all scenarios.
- `MonitorLocustLocalWorker` counts the workers of every scenario. `MonitorLocustDistributionWorker`
  swaps the labels of worker and scenario (428), looks at a Pod its inner `workerPod` hides,
  so the name is empty, and sets the total of the scenario to 0 or 1.
- `MonitorLocustTesting` follows the log for ever, so "Test is finished, reset metrics" (301) is
  never reached; it ends at once if the log is not there yet (`MustExist`). The average
  of no requests is NaN (186).

### Fairness

`FairSpec` assumes that the Reconcile worker, the informers and each goroutine keep
taking steps (weak fairness): the work queue, client-go's watches and the Go
scheduler do. Users, pods, load balancers, the garbage collector and restarts may do
nothing. The two progress properties hold in spite of an edit that makes the
first update conflict and of a restart. `ProvisionerReturns` exempts the states in
which the bound `MaxRv` holds an update back.

`Provisioning`: handlers and workflow steps come to an end (Cloud Run and Cloud Workflows see to
it); a network is created, a cluster is provisioned or fails, a deletion ends, a claim is
bound, a deployment gets its replica (the services' promises). Calls need not fail, and
nobody need ask for anything: `ExecutionEnds` holds with and without failures.

`Monitors`: each goroutine keeps running its loop, except the one that waits for lines of a log.
Nothing is assumed of the process, which may die again and again.

## What is proved

`PtTaskOperatorProofs` proves, for any tasks, scenarios, workers, goroutines, bounds and
faults that satisfy the assumptions of `PtTaskOperator`:

| theorem | statement |
|---|---|
| `TypeCorrect` | `Spec => []TypeOK` |
| `VersionsTellApart` | `Spec => []VersionInv` |
| `MasterMadeForItsTask` | `Spec => []MasterInv` |
| `LogsUnderTaskId` | `Spec => []MasterLogsUnderTaskId` |
| `IdNeverChanges` | `Spec => IdStable` |
| `UpdatesAreNotLost` | `Spec => NoLostUpdate` |
| `ProvisionersAreBounded` | `Spec => ProvisionersAdvance` |

Assumptions: `ConstantsAssumption` (types; finitely many scenarios),
`SharedTypeAssumption`, `ExecutionIdAssumption` (no two tasks carry the same
executionId annotation), `TrafficsAssumption` (percentages are natural numbers, in any number
and with any sum).

The argument. `IdStable` and `NoLostUpdate` are about one update, and an update is accepted
only from the stored version; what is needed is that *a version number determines the
version*: a goroutine whose copy has the stored number has the stored status, but for
the phase and archive it is about to write. That is `VersionInv`, and it is not
inductive without the types. The inductive invariant is

    IInv == TypeOK /\ VersionInv /\ MasterInv

Its proof is built on one relation: `Evolves` says how a step may change one stored
task (nothing; a larger version; an id is only set where there was none and survives
while the task lives). `StepEvolves` shows that every step does so; `CacheStable`,
`RecStable` and `ThreadStable` that what a cache, the Reconcile worker or a goroutine
knew stays true under it; `CacheStep`, `RecStep` and `ThreadStep` add the one actor
that moves. `MasterStep` carries the ids of goroutines over to the masters they make.
The action properties follow from `IInv` and the two actions that write a status.

`ProvisionersAdvance` is the safety half of `ProvisionerReturns`: `StepsLeft` gives each state of a
provisioner the number of steps that can still follow, and each step lowers it, whatever
other goroutines do. It needs to be known what the one counter of `do4Locust` counts at each
step, polls before the workers and workers after (`Counted`), which `AllCounted` adds to `IInv`.

`TaskStatus` proves of itself, for any tasks and scenarios, that its states are consistent
(`AbstractConsistent`: no report before the id, a summary of a phase that is shown, an archive
for every finished scenario). `PtTaskOperatorRefinement` carries that over to the code:

| theorem | statement |
|---|---|
| `OperatorImplementsTaskStatus` | `Spec => ImplementsTaskStatus` |
| `SummaryFollowsPhases` | `Spec => []StatusFollowsPhases` |

Under `IInv` an accepted write changes one phase of the *stored* status, which is `Report`; a
`RecPut` is `Identify`, submission and deletion are those of the user, and every other
step leaves the stored tasks alone, a stutter. The second theorem is `AbstractConsistent`, read through
the refinement.

`PtTaskOperatorSites` proves what the phases say of the objects in the cluster:

| theorem | statement |
|---|---|
| `WorkersAfterMaster` | `Spec => []WorkersNeedReadyMaster` |
| `TestingIsProvisioned` | `Spec => []TestingMeansProvisioned` |
| `FinishedIsCompleted` | `Spec => []FinishedMeansCompleted` |
| `WorkersMatchRequest` | `Spec => []WorkersAsRequested` |

None of the first three is inductive: the provisioner that reports TESTING need not be the one that made the
objects, and the report is stored after the master was seen. `SiteInv` says, for a scenario
that one task has for itself, that all its objects were made by its task, that workers are only there
with a master that was ready, and, by the step each provisioner is at (`Stage`), what is there
by then. `ObjectsStep` lists who makes and who takes away an object; `Kept` and
`SiteStays` say that nobody takes one from a task that is in the cluster, so that a `Stage` stays true
while other goroutines move. `ResultInv` adds `Over(s)`: the master of `s` is there and completed, or
the task is gone. It is true of all a watcher has listed, copies or
reports, of what is stored, saved or told, and `OverStays` says that it remains so: a completed master
stays completed while its task lives, and a task that is gone does not come back. A watcher
lists the masters of the whole namespace, so what pt-admin is told of a task is only known
to be of that task when there is no other; `FinishedMeansCompleted` says no more than that.

`WorkersMatchRequest` is `SiteInv` and arithmetic: the shares of any list of percentages add up to no
more than the share of their sum, and to less than one worker per region less (`SharesAdd`).
`Sums` is a recursive function over the regions. That it exists, and what it adds up to, is proved by
induction: `NatSetInduction` states induction as a fact about *sets* of numbers, which
follows from `<` being well-founded, so no theorem with an operator for a parameter is needed.

`PtTransactionsProofs` proves, for any tasks, executions and requests, all that the run
`transactions` checks: `TypeCorrect`, `OneLoadTest` (`[]AppliedIsRecorded`), `SavedWasApplied`
(`[]SavedIsApplied`), `CancelledWasDestroyed` (`[]CancelledIsDestroyed`), `FinishedWasApplied`
(`[]FinishedIsApplied`) and `KeptExecution` (`ExecutionIsKept`). Its one assumption,
`TransactionsAssumption`, says that executions, requests and `None` are different things.

The argument. The store writes old copies over newer documents, so nothing a document says
can be trusted to be the latest. What holds is what *every copy* of the document agrees
on, and what stays true once it is: the execution never changes (a document is
created once), objects stay applied and destructions stay ordered. The inductive invariant

    TInv == TypeOK /\ WorkflowInv /\ CallInv /\ DocInv

says so of documents (`DocInv`), of the copies that requests hold (`CallInv`), and that an
execution past its first step is the one its document names (`WorkflowInv`). `MoveTInv`,
`BeginTInv` and `EndTInv` prove it for the three shapes of step (a workflow moves on, a
request begins, a request ends with or without a write), and the actions are instances.

`ProvisioningProofs` proves, for any tasks, executions, locations, lists of regions, roles and
destroyers, under `ProvisioningAssumption` (types; executions, requests, makers of clusters
and `None` are different things):

| theorem | statement |
|---|---|
| `ProvisioningImplementsTransactions` | `Spec => ImplementsTransactions` |
| `RolesStay` | `Spec => []RolesGranted` |
| `EquippedClusters` | `Spec => []ClustersAreEquipped` |
| `TaskFindsItsVolume` | `Spec => []TaskIsHosted` |
| `TypeCorrect` | `Spec => []TypeOK` |
| `OneLoadTest` | `Spec => []Tx!AppliedIsRecorded` |
| `CallsAreBounded` | `Spec => HandlersAdvance` |

The refinement needs one fact more than `TInv`: a workflow that has not got to its last steps
has no request of its own at the store (`Quiet`), so the end of its handlers is a
`ProvisionResources`. What is proved of `PtTransactions` then holds with the handlers,
`OneLoadTest` for example. The safety theorems rest on four inductive invariants, each built on
the one before:

    TxInv     == TInv of PtTransactions /\ Quiet
    CloudInv  == TxInv /\ CloudTypes /\ HandlersFit /\ StepsGranted /\ Equipped
    HostedInv == CloudInv /\ AllBygone /\ SeenBound /\ HomeInv
    TypeInv   == HostedInv /\ DestroyTypes /\ Unstarted /\ Placed

`HandlersFit` says that what a handler has passed is there *now*: the network, the account, the
roles before the one it is at. It is stable because these only grow (`Grown`), which is
where the etag of the policy is needed. A cluster is created by a handler that fits, hence
`Equipped`. `TaskIsHosted` is not inductive: a handler that saw the volume bound goes on with
the endpoint of a cluster that may be gone by then, and another one may have its name. `AllBygone`
tells the two apart: whoever made a cluster, or the cluster an endpoint belongs to, is past the
place where it did, so a cluster that is created now has a maker no endpoint names;
`SeenBound` is what is left to say of the endpoints that still lead somewhere. `HandleMoves` has
one case per handler, for all of these at once.

`CallsAreBounded` is the safety half of `ExecutionEnds`: `CallsLeft` counts what a handler may
still do, from the roles and the clusters left to it, and `TypeInv` bounds those. What a conflict
of the policy or a creation by another execution refuses ends the handler, it never sends it back.
Only that the external operations end, and so the polls, is left to fairness.

`MonitorsProofs` proves `TypeCorrect` (`[]TypeOK`), `LossIsBounded` (`LostToRacersOnly`),
`PanicNeedsRace` (`NilMapIsRaced`) and `GaugesAreWatched` (`[]ShownIsWatched`), for finitely many
scenarios and any number of workers, one at least, and `None` no entry of the map. The invariant is
`MInv`: a monitor that writes through a pointer has an entry in the map, and only such a
monitor has a stale one. Only `Insert` takes something out of an entry, and once there is an
entry no `Lookup` leads there; so what is lost is lost to a monitor that had looked before, and
there are fewer of them after. A monitor of workers has made the `WorkersStatus` it goes on to write,
unless its pointer is stale or an `Insert` of another kind of monitor comes in between. The last is the safety half of `GoneMasterIsShown` and
`GoneWorkersAreNotCounted`: a gauge that shows something alive has a monitor that will set it again.
With a monitor for each worker and one gauge for all of them, it holds because one that ends
has just set that gauge to nothing (`ExitInv`: a monitor of workers that is about to end found none).

`ImageBuildProofs` proves `TypeCorrect` (`[]TypeOK`) and `AloneBuildsItsOwn` (`[]ServedAloneIsOwn`), for
any requests and scripts: nothing but its own scripts, and all of them unless an error of the walk
was dropped. Served alone does not mean that nobody was there before: another
request may have failed anywhere and left the process in one of its directories. The inductive
invariant

    IInv == TypeOK /\ Under /\ AloneInv /\ CleanInv /\ WorkInv /\ ServedAloneIsOwn

says that the directories of a request are untouched until it begins (`CleanInv`), that a request
that has met nobody is the only one served (`AloneInv`), and what such a request finds at each step
(`WorkInv`); during the walk, that what is in the archive is its own and, without an error, that
what is not in it yet is still to come (`Gathered`).

Only model-checked is the liveness (`EventuallyIdentified`, `ProvisionerReturns`, `ExecutionEnds`,
`GoneMasterIsShown`, `GoneWorkersAreNotCounted`), which is out of the prover's reach. Every invariant
and every action property that a passing run checks is proved.

## Not modelled

`PROJECT.json` gives the state of each component.

- A task that is submitted again under the name of a deleted one, with the remote workers the
  first one left: pt-admin never does it, its names contain the id of the execution.
- The number of workers that pt-admin derives from the number of users (`handler.go` 572), which
  is the constant `Requested` here, and the sums and averages of the log: arithmetic
  without state.
- A second monitor of a scenario, which a second provisioner starts; several instances of pt-admin.
- Handlers and helpers nothing calls: `CreateServiceAccountKey`, `ExecWorkflow`, `StatusWorkflow`,
  `CreateObject`, `PhaseOfPod`, `helper.DeletePtTask`; the listing of directories in `router.go`.
- The web UI, which only fetches and shows; generated code, Terraform and Skaffold have no
  behaviour to check.

## Running

    tlc -workers 2 -config MCOneScenario.cfg MCPtTaskOperator
    tlc -workers 2 -config MCTransactions.cfg MCPtTransactions
    tlc -workers 2 -config MCProvisioning.cfg MCProvisioning
    tlc -workers 2 -config MCImageBuild.cfg MCImageBuild
    tlc -workers 2 -config MCMonitors.cfg MCMonitors
    tlapm PtTaskOperatorProofs.tla
    tlapm PtTransactionsProofs.tla
    tlapm TaskStatus.tla
    tlapm PtTaskOperatorRefinement.tla
    tlapm PtTaskOperatorSites.tla
    tlapm ProvisioningProofs.tla
    tlapm MonitorsProofs.tla
    tlapm ImageBuildProofs.tla
