----------------------------- MODULE Provisioning -----------------------------
(***************************************************************************)
(* The provisioning workflow in detail, composed with PtTransactions: what *)
(* its steps do to the cloud resources that all executions of a project    *)
(* share.  The network, the service account, the IAM policy and the        *)
(* clusters have fixed names; each handler looks whether the resource is   *)
(* there and creates it otherwise, in two calls.                           *)
(*                                                                         *)
(*   - The step ProvisionResources of PtTransactions is a sequence of      *)
(*     handlers here; every other step is taken from there.                *)
(*   - A cluster is known by its name and location; it is destroyed and    *)
(*     created again while executions hold the endpoint of the old one.    *)
(*   - Any call may fail; the workflow then stops, and what was created    *)
(*     stays.  A handler the workflow has given up goes on to its end.     *)
(***************************************************************************)
EXTENDS Naturals, Sequences

CONSTANTS
    Tasks, Executions, Requests, None,  \* see PtTransactions
    Locations,   \* regions of the project
    Home,        \* the location of pt-admin, of the master cluster
    Regions,     \* [Tasks -> Seq(Locations)]: the traffics of the request
    Local,       \* tasks whose workers run in the master cluster
    NRoles,      \* roles of the service account, 10 in the code
    Destroyers   \* requests to destroy the resources of a task, each used once

ASSUME ProvisioningAssumption ==
    /\ Executions \cap Requests = {}
    /\ None \notin Tasks /\ None \notin Executions /\ None \notin Executions \X Nat
    /\ Home \in Locations
    /\ Regions \in [Tasks -> Seq(Locations)]
    /\ Local \subseteq Tasks
    /\ NRoles \in Nat

VARIABLES
    published, execution, docs, applied, call, destroyed,  \* see PtTransactions
    infra,     \* [Executions -> the handler in progress]
    network,   \* "absent", "creating", "ready"
    account,   \* the service account is there
    policy,    \* numbers of the roles the IAM policy of the project grants
    clusters,  \* [Locations -> the cluster of the fixed name]
    home,      \* what was applied to the cluster at Home
    destroy    \* [Destroyers -> the request in progress]

Tx == INSTANCE PtTransactions

txVars    == <<published, execution, docs, applied, call, destroyed>>
cloudVars == <<network, account, policy, clusters, home>>
vars      == <<txVars, infra, cloudVars, destroy>>

Grants == 1..(NRoles + 1)   \* the last one binds the operator's Kubernetes account

\* CreatePtTask: the master cluster and one cluster per traffic, all of one name.
GKEs(t) == <<Home>> \o Regions[t]

Pcs == {"build", "vpc.get", "vpc.insert", "vpc.wait", "sa.get", "sa.create",
        "policy.get", "policy.set", "gke.get", "gke.create", "check", "info", "sc", "pvc",
        "pvc.status", "operator.crd", "operator.deploy", "operator.status", "over"}

\* A cluster is told apart from later ones of its name by the execution that created it
\* and the place in that execution's list.
Makers == Executions \X Nat

Handler == [pc   : Pcs,
            n    : Nat,                        \* role, or index of the cluster
            copy : SUBSET Grants,              \* the policy as read
            ops  : SUBSET Nat,                 \* clusters of the list it creates
            ep   : Makers \cup {None}]         \* endpoint: the cluster that had it

ClusterStates == {"absent", "provisioning", "running", "error", "stopping"}

Cluster == [state : ClusterStates, made : Makers \cup {None}]

NoCluster == [state |-> "absent", made |-> None]

HomeObjects == [sc       : BOOLEAN,
                pvc      : {"absent", "pending", "bound"},
                operator : {"absent", "crd", "deployed", "replicated"},
                tasks    : SUBSET Executions]

NoObjects == [sc |-> FALSE, pvc |-> "absent", operator |-> "absent", tasks |-> {}]

Init ==
    /\ Tx!Init
    /\ infra    = [e \in Executions |-> [pc |-> "build", n |-> 1, copy |-> {}, ops |-> {},
                                         ep |-> None]]
    /\ network  = "absent"
    /\ account  = FALSE
    /\ policy   = {}
    /\ clusters = [l \in Locations |-> NoCluster]
    /\ home     = NoObjects
    /\ destroy  = [d \in Destroyers |-> [pc |-> "idle", task |-> None, n |-> 1]]

-----------------------------------------------------------------------------
(* Handlers and the workflow that calls them *)

Provisions(e) == execution[e].step = "provision"

At(e, pc) == infra[e].pc = pc /\ (pc = "build" => Provisions(e))

Set(e, r) == infra' = [infra EXCEPT ![e] = r]
Goto(e, pc) == Set(e, [infra[e] EXCEPT !.pc = pc])

\* A handler answers; the workflow calls the next one if it still waits.
Answered(e, r) == Set(e, IF Provisions(e) THEN r ELSE [r EXCEPT !.pc = "over"])
Answer(e, pc) == Answered(e, [infra[e] EXCEPT !.pc = pc])

\* A handler answers with an error: the workflow stops.
Failed(e) ==
    /\ Goto(e, "over")
    /\ IF Provisions(e) THEN Tx!Step(e, "aborted") ELSE UNCHANGED execution

Unchanged == UNCHANGED <<published, docs, applied, call, destroyed, destroy>>

\* Any call of a handler may fail, and the instance that runs it may stop.
Fail(e) ==
    /\ infra[e].pc # "over" /\ At(e, infra[e].pc)
    /\ Failed(e)
    /\ UNCHANGED cloudVars /\ Unchanged

\* The HTTP call of the workflow times out; the handler does not notice.
GiveUp(e) ==
    /\ Provisions(e)
    /\ Tx!Step(e, "aborted")
    /\ UNCHANGED <<infra, cloudVars>> /\ Unchanged

Build(e) ==
    /\ At(e, "build")
    /\ Answer(e, "vpc.get")
    /\ UNCHANGED <<execution, cloudVars>> /\ Unchanged

-----------------------------------------------------------------------------
(* CreateVPC, CreateServiceAccount and BindingWorkloadIdentity *)

VpcGet(e) ==
    /\ At(e, "vpc.get")
    /\ IF network = "absent" THEN Goto(e, "vpc.insert") ELSE Answer(e, "sa.get")
    /\ UNCHANGED <<execution, cloudVars>> /\ Unchanged

\* Mutated: a failed insert is logged and the handler goes on.
VpcInsertHeedless(e) ==
    /\ At(e, "vpc.insert")
    /\ network' \in {network, IF network = "absent" THEN "creating" ELSE network}
    /\ Goto(e, "vpc.wait")
    /\ UNCHANGED <<execution, account, policy, clusters, home>> /\ Unchanged

VpcInsert(e) ==
    /\ At(e, "vpc.insert")
    /\ IF network = "absent"
       THEN network' = "creating" /\ Goto(e, "vpc.wait") /\ UNCHANGED execution
       ELSE Failed(e) /\ UNCHANGED network
    /\ UNCHANGED <<account, policy, clusters, home>> /\ Unchanged

VpcWait(e) ==
    /\ At(e, "vpc.wait") /\ network # "creating"
    /\ Answer(e, "sa.get")
    /\ UNCHANGED <<execution, cloudVars>> /\ Unchanged

SaGet(e) ==
    /\ At(e, "sa.get")
    /\ Goto(e, IF account THEN "policy.get" ELSE "sa.create")
    /\ UNCHANGED <<execution, cloudVars>> /\ Unchanged

SaCreate(e) ==
    /\ At(e, "sa.create")
    /\ IF ~account
       THEN account' = TRUE /\ Goto(e, "policy.get") /\ UNCHANGED execution
       ELSE Failed(e) /\ UNCHANGED account
    /\ UNCHANGED <<network, policy, clusters, home>> /\ Unchanged

PolicyGet(e) ==
    /\ At(e, "policy.get")
    /\ Set(e, [infra[e] EXCEPT !.pc = "policy.set", !.copy = policy])
    /\ UNCHANGED <<execution, cloudVars>> /\ Unchanged

\* Mutated: the loop over the roles ends one late.
RoleDoneBeyond(e) ==
    LET r == [infra[e] EXCEPT !.copy = {}] IN
    IF r.n < NRoles THEN Set(e, [r EXCEPT !.pc = "policy.get", !.n = @ + 1])
    ELSE Answered(e, IF r.n <= NRoles + 1
                     THEN [r EXCEPT !.pc = "policy.get", !.n = @ + 1]
                     ELSE [r EXCEPT !.pc = "gke.get", !.n = 1])

\* Role n was granted. The last role ends the handler of the account; the binding of
\* the Kubernetes account is a handler of its own.
RoleDone(e) ==
    LET r == [infra[e] EXCEPT !.copy = {}] IN
    IF r.n < NRoles THEN Set(e, [r EXCEPT !.pc = "policy.get", !.n = @ + 1])
    ELSE Answered(e, IF r.n = NRoles
                     THEN [r EXCEPT !.pc = "policy.get", !.n = @ + 1]
                     ELSE [r EXCEPT !.pc = "gke.get", !.n = 1])

\* Mutated: the policy is written back without its etag.
PolicySetBlind(e) ==
    /\ At(e, "policy.set")
    /\ policy' = infra[e].copy \cup {infra[e].n}
    /\ RoleDone(e)
    /\ UNCHANGED <<execution, network, account, clusters, home>> /\ Unchanged

\* Mutated: when the policy has changed meanwhile it is read again.
PolicySetRetried(e) ==
    /\ At(e, "policy.set")
    /\ IF policy = infra[e].copy
       THEN policy' = policy \cup {infra[e].n} /\ RoleDone(e)
       ELSE Goto(e, "policy.get") /\ UNCHANGED policy
    /\ UNCHANGED <<execution, network, account, clusters, home>> /\ Unchanged

\* The policy carries the etag it was read with.
PolicySet(e) ==
    /\ At(e, "policy.set")
    /\ IF policy = infra[e].copy
       THEN /\ policy' = policy \cup {infra[e].n}
            /\ RoleDone(e)
            /\ UNCHANGED execution
       ELSE Failed(e) /\ UNCHANGED policy
    /\ UNCHANGED <<network, account, clusters, home>> /\ Unchanged

-----------------------------------------------------------------------------
(* CreateGKEAutopilotCluster, CheckClusterStatus and RetrieveClusterInfo *)

MyGKEs(e) == GKEs(execution[e].task)
MyLocations(e) == {MyGKEs(e)[i] : i \in DOMAIN MyGKEs(e)}
Location(e) == MyGKEs(e)[infra[e].n]

Creating(e, n) == [state |-> "provisioning", made |-> <<e, n>>]

\* The next cluster of the list, and after the last the answer.
ClusterDone(e, r) ==
    IF r.n < Len(MyGKEs(e)) THEN Set(e, [r EXCEPT !.pc = "gke.get", !.n = @ + 1])
    ELSE Answered(e, [r EXCEPT !.pc = "check", !.n = 1])

\* A cluster that exists is done, whatever its state.
GkeGet(e) ==
    /\ At(e, "gke.get")
    /\ IF clusters[Location(e)].state = "absent"
       THEN Goto(e, "gke.create")
       ELSE ClusterDone(e, infra[e])
    /\ UNCHANGED <<execution, cloudVars>> /\ Unchanged

GkeCreate(e) ==
    /\ At(e, "gke.create")
    /\ IF clusters[Location(e)].state = "absent"
       THEN /\ clusters' = [clusters EXCEPT ![Location(e)] = Creating(e, infra[e].n)]
            /\ ClusterDone(e, [infra[e] EXCEPT !.ops = @ \cup {infra[e].n}])
            /\ UNCHANGED execution
       ELSE Failed(e) /\ UNCHANGED clusters
    /\ UNCHANGED <<network, account, policy, home>> /\ Unchanged

\* An operation is done when it succeeded and when it failed.
OperationDone(e, n) == clusters[MyGKEs(e)[n]] # Creating(e, n)

\* Mutated: the clusters are asked for, not the operations.
CheckClustersRunning(e) ==
    /\ At(e, "check")
    /\ \A n \in infra[e].ops : clusters[MyGKEs(e)[n]].state = "running"
    /\ Answer(e, "info")
    /\ UNCHANGED <<execution, cloudVars>> /\ Unchanged

\* The workflow asks until every operation of its own is done.
CheckClusters(e) ==
    /\ At(e, "check")
    /\ \A n \in infra[e].ops : OperationDone(e, n)
    /\ Answer(e, "info")
    /\ UNCHANGED <<execution, cloudVars>> /\ Unchanged

\* A cluster that is being provisioned may have no endpoint yet.
Endpoints(l) ==
    {clusters[l].made} \cup (IF clusters[l].state = "provisioning" THEN {None} ELSE {})

ClusterInfo(e) ==
    /\ At(e, "info")
    /\ IF \A l \in MyLocations(e) : clusters[l].state # "absent"
       THEN /\ \E ep \in Endpoints(Home) :
                  Answered(e, [infra[e] EXCEPT !.pc = "sc", !.ep = ep])
            /\ UNCHANGED execution
       ELSE Failed(e)
    /\ UNCHANGED cloudVars /\ Unchanged

-----------------------------------------------------------------------------
(* ApplyManifest, GetPVCStatus and GetPtOperatorStatus, on the master cluster *)

Serving == clusters[Home].state \in {"running", "stopping"}

\* Certificate and endpoint are those of the cluster that serves.
Reachable(e) == Serving /\ clusters[Home].made = infra[e].ep

\* A manifest is applied, or the handler fails; what is there already stays as it is.
Apply(e, pc, objects, next) ==
    /\ At(e, pc)
    /\ IF Reachable(e)
       THEN home' = objects /\ next /\ UNCHANGED execution
       ELSE Failed(e) /\ UNCHANGED home
    /\ UNCHANGED <<network, account, policy, clusters>> /\ Unchanged

ApplyStorageClass(e) ==
    Apply(e, "sc", [home EXCEPT !.sc = TRUE], Answer(e, "pvc"))

ApplyPVC(e) ==
    Apply(e, "pvc", [home EXCEPT !.pvc = IF @ = "absent" THEN "pending" ELSE @],
          Answer(e, "pvc.status"))

\* The documents of pt-operator.yaml: the definition of PtTask, later the deployment.
ApplyCRD(e) ==
    Apply(e, "operator.crd", [home EXCEPT !.operator = IF @ = "absent" THEN "crd" ELSE @],
          Goto(e, "operator.deploy"))

ApplyOperator(e) ==
    Apply(e, "operator.deploy",
          [home EXCEPT !.operator = IF @ = "crd" THEN "deployed" ELSE @],
          Answer(e, "operator.status"))

\* Mutated: a claim that exists is taken for a bound one.
PVCStatusHeedless(e) ==
    /\ At(e, "pvc.status")
    /\ IF Reachable(e)
       THEN home.pvc # "absent" /\ Answer(e, "operator.crd") /\ UNCHANGED execution
       ELSE Failed(e)
    /\ UNCHANGED cloudVars /\ Unchanged

PVCStatus(e) ==
    /\ At(e, "pvc.status")
    /\ IF Reachable(e)
       THEN home.pvc = "bound" /\ Answer(e, "operator.crd") /\ UNCHANGED execution
       ELSE Failed(e)
    /\ UNCHANGED cloudVars /\ Unchanged

\* Mutated: the answer of the handler moves the workflow on, which may have given up.
PtOperatorStatusLate(e) ==
    /\ At(e, "operator.status")
    /\ IF Reachable(e)
       THEN home.operator = "replicated" /\ Goto(e, "over") /\ Tx!Step(e, "apply")
       ELSE Failed(e)
    /\ UNCHANGED cloudVars /\ Unchanged

\* The last handler: the workflow goes on to apply the PtTask.
PtOperatorStatus(e) ==
    /\ At(e, "operator.status")
    /\ IF Reachable(e)
       THEN /\ home.operator = "replicated"
            /\ Goto(e, "over")
            /\ IF Provisions(e) THEN Tx!Step(e, "apply") ELSE UNCHANGED execution
       ELSE Failed(e)
    /\ UNCHANGED cloudVars /\ Unchanged

\* PreparenApplyPtTask asks for the endpoints again: the PtTask goes to the cluster of
\* the day, which must know the kind.
ApplyTask(e) ==
    LET t == execution[e].task
        found == \A i \in DOMAIN Regions[t] : clusters[Regions[t][i]].state # "absent" IN
    /\ Tx!PreparenApplyPtTask(e)
    /\ IF applied' = applied
       THEN UNCHANGED home
       ELSE /\ t \in Local \/ found
            /\ Serving /\ home.operator # "absent"
            /\ home' = [home EXCEPT !.tasks = @ \cup {e}]
    /\ UNCHANGED <<infra, network, account, policy, clusters, destroy>>

-----------------------------------------------------------------------------
(* DestroyResources *)

SetD(d, r) == destroy' = [destroy EXCEPT ![d] = r]
OverD == [pc |-> "over", task |-> None, n |-> 1]

\* destroy.yaml, on the message of DeletePtTask, or anyone who knows the task calls the
\* handler.  The list of clusters is that of the document.
DestroyStart(d, t) ==
    /\ destroy[d].pc = "idle"
    /\ Tx!Exists(t)
    /\ SetD(d, [pc |-> "get", task |-> t, n |-> 1])
    /\ UNCHANGED <<txVars, infra, cloudVars>>

Destroyed(d) == GKEs(destroy[d].task)[destroy[d].n]

NextD(d) ==
    SetD(d, IF destroy[d].n < Len(GKEs(destroy[d].task))
            THEN [destroy[d] EXCEPT !.pc = "get", !.n = @ + 1]
            ELSE OverD)

\* Any error of the lookup is taken for the absence of the cluster.
DestroyGet(d) ==
    /\ destroy[d].pc = "get"
    /\ \/ NextD(d)
       \/ /\ clusters[Destroyed(d)].state # "absent"
          /\ SetD(d, [destroy[d] EXCEPT !.pc = "delete"])
    /\ UNCHANGED <<txVars, infra, cloudVars>>

\* A cluster with an operation in progress is not deleted; the handler then fails.
DestroyDelete(d) ==
    /\ destroy[d].pc = "delete"
    /\ IF clusters[Destroyed(d)].state \in {"running", "error"}
       THEN clusters' = [clusters EXCEPT ![Destroyed(d)].state = "stopping"] /\ NextD(d)
       ELSE SetD(d, OverD) /\ UNCHANGED clusters
    /\ UNCHANGED <<txVars, infra, network, account, policy, home>>

DestroyFails(d) ==
    /\ destroy[d].pc \in {"get", "delete"}
    /\ SetD(d, OverD)
    /\ UNCHANGED <<txVars, infra, cloudVars>>

-----------------------------------------------------------------------------
(* Google Cloud *)

NetworkReady ==
    /\ network = "creating" /\ network' = "ready"
    /\ UNCHANGED <<txVars, infra, account, policy, clusters, home, destroy>>

SetCluster(l, r) ==
    /\ clusters' = [clusters EXCEPT ![l] = r]
    /\ UNCHANGED <<txVars, infra, network, account, policy, destroy>>

ClusterProvisioned(l) ==
    /\ clusters[l].state = "provisioning"
    /\ \E state \in {"running", "error"} : SetCluster(l, [clusters[l] EXCEPT !.state = state])
    /\ UNCHANGED home

ClusterGone(l) ==
    /\ clusters[l].state = "stopping"
    /\ SetCluster(l, NoCluster)
    /\ home' = IF l = Home THEN NoObjects ELSE home

SetHome(objects) ==
    /\ Serving
    /\ home' = objects
    /\ UNCHANGED <<txVars, infra, network, account, policy, clusters, destroy>>

\* The storage class binds at once.
PVCBound ==
    home.sc /\ home.pvc = "pending" /\ SetHome([home EXCEPT !.pvc = "bound"])

OperatorReplicated ==
    home.operator = "deployed" /\ SetHome([home EXCEPT !.operator = "replicated"])

-----------------------------------------------------------------------------

Handle(e) ==
    \/ Build(e) \/ VpcGet(e) \/ VpcInsert(e) \/ VpcWait(e) \/ SaGet(e) \/ SaCreate(e)
    \/ PolicyGet(e) \/ PolicySet(e) \/ GkeGet(e) \/ GkeCreate(e) \/ CheckClusters(e)
    \/ ClusterInfo(e) \/ ApplyStorageClass(e) \/ ApplyPVC(e) \/ PVCStatus(e)
    \/ ApplyCRD(e) \/ ApplyOperator(e) \/ PtOperatorStatus(e)

\* Every step of PtTransactions but the two that are refined here.
Transact ==
    /\ \/ \E t \in Tasks : Tx!CreatePtTask(t)
       \/ \E e \in Executions :
             \/ \E t \in Tasks : Tx!StartExecution(e, t)
             \/ Tx!RecordWorkflow(e) \/ Tx!CreateDashboard(e)
             \/ Tx!UpdateWorkflowStatus(e) \/ Tx!GiveUp(e)
       \/ \E x \in Requests : Tx!Request(x)
       \/ \E x \in Tx!Calls : Tx!Store(x)
    /\ UNCHANGED <<infra, cloudVars, destroy>>

Destroy(d) ==
    \/ \E t \in Tasks : DestroyStart(d, t)
    \/ DestroyGet(d) \/ DestroyDelete(d) \/ DestroyFails(d)

Cloud ==
    \/ NetworkReady \/ PVCBound \/ OperatorReplicated
    \/ \E l \in Locations : ClusterProvisioned(l) \/ ClusterGone(l)

Next ==
    \/ Transact \/ Cloud
    \/ \E e \in Executions : Handle(e) \/ ApplyTask(e) \/ Fail(e) \/ GiveUp(e)
    \/ \E d \in Destroyers : Destroy(d)

Spec == Init /\ [][Next]_vars

\* Workflows, handlers and Google Cloud come to an end with what they have begun: a cluster
\* runs or fails, a claim is bound, a deployment has its replica.  Calls need not
\* fail, and nobody need ask for a task or for its destruction.
Progress(e) ==
    \/ Handle(e) \/ ApplyTask(e)
    \/ /\ \/ Tx!RecordWorkflow(e) \/ Tx!CreateDashboard(e) \/ Tx!UpdateWorkflowStatus(e)
          \/ Tx!ReadDoc(e) \/ Tx!WriteDoc(e)
       /\ UNCHANGED <<infra, cloudVars, destroy>>

Fairness ==
    /\ \A e \in Executions : WF_vars(Progress(e))
    /\ WF_vars(NetworkReady) /\ WF_vars(PVCBound) /\ WF_vars(OperatorReplicated)
    /\ \A l \in Locations : WF_vars(ClusterProvisioned(l)) /\ WF_vars(ClusterGone(l))

FairSpec == Spec /\ Fairness

-----------------------------------------------------------------------------
(* Properties *)

\* The state stays within its types, and a handler works on a role or a cluster there is.
TypeOK ==
    /\ Tx!TypeOK
    /\ infra \in [Executions -> Handler]
    /\ network \in {"absent", "creating", "ready"}
    /\ account \in BOOLEAN
    /\ policy \subseteq Grants
    /\ clusters \in [Locations -> Cluster]
    /\ home \in HomeObjects
    /\ destroy \in [Destroyers -> [pc   : {"idle", "get", "delete", "over"},
                                  task : Tasks \cup {None}, n : Nat]]
    /\ \A e \in Executions :
          /\ execution[e].step = "none" => infra[e].pc = "build"
          /\ infra[e].pc \in {"policy.get", "policy.set"} => infra[e].n \in Grants
          /\ infra[e].pc \in {"gke.get", "gke.create"} => infra[e].n \in DOMAIN MyGKEs(e)
    /\ \A d \in Destroyers :
          destroy[d].pc \in {"get", "delete"} =>
          destroy[d].task \in Tasks /\ destroy[d].n \in DOMAIN GKEs(destroy[d].task)

\* Roles that the handlers of e have reported as granted.
Granted(e) ==
    IF infra[e].pc \in {"policy.get", "policy.set"} THEN 1..(infra[e].n - 1)
    ELSE IF \/ infra[e].pc \in {"gke.get", "gke.create", "check", "info", "sc", "pvc",
                                "pvc.status", "operator.crd", "operator.deploy",
                                "operator.status"}
            \/ execution[e].step \in Tx!Waiting \cup {"done"}
    THEN Grants ELSE {}

\* The policy of the project is read and written back once per role, by any number of
\* executions at once; a role that was reported as granted is never lost
\* (SetIamPolicies2SA and SetIamPolicies2KSA, getPolicy and setPolicy).
RolesGranted == \A e \in Executions : Granted(e) \subseteq policy

\* No cluster is ever there without the network it is attached to, and without the account
\* of its nodes and all of its roles, whoever created which of them.
ClustersAreEquipped ==
    \A l \in Locations :
        clusters[l].state # "absent" => network # "absent" /\ account /\ policy = Grants

\* A PtTask in the master cluster has a bound volume for its logs, and its kind defined, in
\* that same cluster: also when the cluster was destroyed and created again by another
\* execution after this one had seen its volume bound (ConfigureCluster in provision.yaml,
\* PreparenApplyPtTask 669-685).
TaskIsHosted ==
    home.tasks # {} => home.pvc = "bound" /\ home.operator # "absent"

\* Every execution of the workflow comes to an end: the polls for clusters, volume and
\* operator have no limit, but what they wait for happens or they fail, also
\* when a cluster fails or is destroyed meanwhile.
ExecutionEnds ==
    \A e \in Executions :
        execution[e].step # "none" ~> execution[e].step \in {"done", "aborted"}

\* The calls a handler in the state r, and those after it, have yet to make for a list of
\* so many clusters: two for every role and for every cluster, at most, and one
\* for each of the others.
CallsLeft(r, len) ==
    LET roles == 2 * (NRoles + 1 - r.n)
        gkes  == 2 * (len - r.n)
        all   == 2 * NRoles + 2 * len IN
    CASE r.pc = "build"           -> 16 + all
      [] r.pc = "vpc.get"         -> 15 + all
      [] r.pc = "vpc.insert"      -> 14 + all
      [] r.pc = "vpc.wait"        -> 13 + all
      [] r.pc = "sa.get"          -> 12 + all
      [] r.pc = "sa.create"       -> 11 + all
      [] r.pc = "policy.get"      -> 10 + roles + 2 * len
      [] r.pc = "policy.set"      -> 9 + roles + 2 * len
      [] r.pc = "gke.get"         -> 10 + gkes
      [] r.pc = "gke.create"      -> 9 + gkes
      [] r.pc = "check"           -> 8
      [] r.pc = "info"            -> 7
      [] r.pc = "sc"              -> 6
      [] r.pc = "pvc"             -> 5
      [] r.pc = "pvc.status"      -> 4
      [] r.pc = "operator.crd"    -> 3
      [] r.pc = "operator.deploy" -> 2
      [] r.pc = "operator.status" -> 1
      [] r.pc = "over"            -> 0

\* Whatever handlers find, whoever created or destroyed it meanwhile, and however a call
\* ends, nothing is done over: no handler goes back to a role or a cluster it has
\* passed, and what a conflict refuses is not tried again.  An execution makes a bounded
\* number of calls and only waits in between (SetIamPolicies2SA, CreateGKEAutopilotCluster
\* and the order of provision.yaml).
HandlersAdvance ==
    [][\A e \in Executions :
          infra'[e] # infra[e] =>
          LET len == Len(MyGKEs(e)) IN
          CallsLeft(infra'[e], len) \in 0..(CallsLeft(infra[e], len) - 1)]_vars

\* The composition implements PtTransactions: seen from there, the handlers of a project's
\* shared resources are the one step ProvisionResources, and one that goes on after its
\* workflow has given up never moves that workflow again (provision.yaml).
ImplementsTransactions == Tx!Spec

-----------------------------------------------------------------------------
(* What a comment promises and the code does not keep *)

\* "Check if all cluster is ready" (handler.go:185): the workflow goes on when all
\* clusters of the task have been provisioned.
DoneMeansReady ==
    \A e \in Executions :
        infra[e].pc = "info" /\ Provisions(e) =>
        \A l \in MyLocations(e) : clusters[l].state # "provisioning"
=============================================================================
