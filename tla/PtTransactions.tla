---------------------------- MODULE PtTransactions ----------------------------
(***************************************************************************)
(* pt-admin and its document store: the executions of the provisioning     *)
(* workflow, which call one handler per step, the cancellation requests of *)
(* users, the status callbacks of pt-operator, and the Firestore document  *)
(* per task that all of them update.                                       *)
(*                                                                         *)
(*   - The message that starts the workflow is delivered at least once;    *)
(*     the handler of the first step creates the document, which the store *)
(*     refuses when there is one.                                          *)
(*   - Every other handler reads the document, changes a field of it and   *)
(*     writes the whole document back: two steps, without a transaction.   *)
(*   - Any call may fail, before or after its effect; the workflow has no  *)
(*     retry and no exception handler, so it then stops.  A call it has    *)
(*     given up goes on by itself.                                         *)
(***************************************************************************)

CONSTANTS
    Tasks,       \* correlation ids
    Executions,  \* workflow execution ids, each used once
    Requests,    \* requests of users and callbacks of pt-operator, each used once
    None         \* no task, no execution

ASSUME TransactionsAssumption ==
    /\ Executions \cap Requests = {}
    /\ None \notin Tasks /\ None \notin Executions

VARIABLES
    published,   \* tasks with a message in the topic pt-provision-wf
    execution,   \* [Executions -> task and step]
    docs,        \* the collection pt-transactions
    applied,     \* executions whose PtTask object is in the cluster
    call,        \* requests in progress at pt-admin
    destroyed    \* tasks with a message in the topic pt-destroy-wf

vars == <<published, execution, docs, applied, call, destroyed>>

Calls == Executions \cup Requests

\* What pt-operator reports, and what cancellation writes.
Reports  == {"INITIAL", "PENDING", "TESTING", "FINISHED", "FAILED"}
Statuses == Reports \cup {"CANCELLED"}

Doc == [execution : Executions \cup {None},  \* ExecutionId
        wf        : {"", "PROVISIONING", "PROVISIONING_FINISHED"},
        ptTask    : Executions \cup {None},  \* the PtTask of an execution, None when empty
        status    : Statuses \cup {""},
        links     : BOOLEAN]                 \* MetricsLink and LogsLink are set

NoDoc == [execution |-> None, wf |-> "", ptTask |-> None, status |-> "", links |-> FALSE]

Waiting == {"apply", "dashboard", "finish"}
Steps   == {"none", "record", "provision", "done", "aborted"} \cup Waiting

Call == [pc     : {"idle", "publish", "read", "write", "over"},
         task   : Tasks \cup {None},
         field  : {"", "wf", "ptTask", "status", "links"},  \* the field to change
         status : Statuses \cup {""},
         origin : Doc]                                      \* the document as read

IdleCall == [pc |-> "idle", task |-> None, field |-> "", status |-> "", origin |-> NoDoc]
OverCall == [IdleCall EXCEPT !.pc = "over"]

Init ==
    /\ published = {}
    /\ execution = [e \in Executions |-> [task |-> None, step |-> "none"]]
    /\ docs      = [t \in Tasks |-> NoDoc]
    /\ applied   = {}
    /\ call      = [x \in Calls |-> IdleCall]
    /\ destroyed = {}

Exists(t) == docs[t] # NoDoc

-----------------------------------------------------------------------------
(* The provisioning workflow *)

At(e, step) == execution[e].step = step /\ call[e].pc = "idle"

Step(e, step) == execution' = [execution EXCEPT ![e].step = step]

\* A request that goes on to read the document of t, to change one field of it.
Update(t, field, status) ==
    [IdleCall EXCEPT !.pc = "read", !.task = t, !.field = field, !.status = status]

\* The user's request publishes the message.
CreatePtTask(t) ==
    /\ published' = published \cup {t}
    /\ UNCHANGED <<execution, docs, applied, call, destroyed>>

\* A delivery of the message, maybe not the first, starts an execution.
StartExecution(e, t) ==
    /\ At(e, "none") /\ t \in published
    /\ execution' = [execution EXCEPT ![e] = [task |-> t, step |-> "record"]]
    /\ UNCHANGED <<published, docs, applied, call, destroyed>>

NewDoc(e) == [NoDoc EXCEPT !.execution = e, !.wf = "PROVISIONING"]

\* Mutated: Set instead of Create.
RecordWorkflowSet(e) ==
    LET t == execution[e].task IN
    /\ At(e, "record")
    /\ \/ /\ docs' = [docs EXCEPT ![t] = NewDoc(e)]
          /\ \/ Step(e, "provision") \/ Step(e, "aborted")
       \/ UNCHANGED docs /\ Step(e, "aborted")
    /\ UNCHANGED <<published, applied, call, destroyed>>

\* Mutated: a failed insert is logged and answered with success.
RecordWorkflowHeedless(e) ==
    LET t == execution[e].task IN
    /\ At(e, "record")
    /\ docs' = [docs EXCEPT ![t] = IF Exists(t) THEN @ ELSE NewDoc(e)]
    /\ Step(e, "provision")
    /\ UNCHANGED <<published, applied, call, destroyed>>

RecordWorkflow(e) ==
    LET t == execution[e].task IN
    /\ At(e, "record")
    /\ \/ /\ ~Exists(t)
          /\ docs' = [docs EXCEPT ![t] = NewDoc(e)]
          /\ \/ Step(e, "provision") \/ Step(e, "aborted")
       \/ UNCHANGED docs /\ Step(e, "aborted")
    /\ UNCHANGED <<published, applied, call, destroyed>>

\* Mutated: the loop over the clusters skips the master.
ProvisionResourcesSkipping(e) ==
    /\ At(e, "provision")
    /\ \/ Step(e, "dashboard") \/ Step(e, "aborted")
    /\ UNCHANGED <<published, docs, applied, call, destroyed>>

\* Images, network, accounts, clusters and the operator: they work or they fail.
ProvisionResources(e) ==
    /\ At(e, "provision")
    /\ \/ Step(e, "apply") \/ Step(e, "aborted")
    /\ UNCHANGED <<published, docs, applied, call, destroyed>>

\* Mutated: an object that could not be applied is saved all the same.
PreparenApplyPtTaskHeedless(e) ==
    /\ At(e, "apply")
    /\ call' = [call EXCEPT ![e] = Update(execution[e].task, "ptTask", "")]
    /\ applied' \in {applied, applied \cup {e}}
    /\ UNCHANGED <<published, execution, docs, destroyed>>

\* CreateYaml2K8s comes first, the document after it.
PreparenApplyPtTask(e) ==
    /\ At(e, "apply")
    /\ \/ /\ applied' = applied \cup {e}
          /\ call' = [call EXCEPT ![e] = Update(execution[e].task, "ptTask", "")]
          /\ UNCHANGED execution
       \/ /\ applied' \in {applied, applied \cup {e}}
          /\ Step(e, "aborted")
          /\ UNCHANGED call
    /\ UNCHANGED <<published, docs, destroyed>>

CreateDashboard(e) ==
    /\ At(e, "dashboard")
    /\ \/ /\ call' = [call EXCEPT ![e] = Update(execution[e].task, "links", "")]
          /\ UNCHANGED execution
       \/ Step(e, "aborted") /\ UNCHANGED call
    /\ UNCHANGED <<published, docs, applied, destroyed>>

UpdateWorkflowStatus(e) ==
    /\ At(e, "finish")
    /\ call' = [call EXCEPT ![e] = Update(execution[e].task, "wf", "")]
    /\ UNCHANGED <<published, execution, docs, applied, destroyed>>

\* The HTTP call of the step times out; the handler does not notice.
GiveUp(e) ==
    /\ execution[e].step \in Waiting /\ call[e].pc # "idle"
    /\ Step(e, "aborted")
    /\ UNCHANGED <<published, docs, applied, call, destroyed>>

-----------------------------------------------------------------------------
(* Users and pt-operator *)

\* Nothing happens when there is no document.
DeletePtTask(x, t) ==
    /\ call[x].pc = "idle" /\ Exists(t)
    /\ call' = [call EXCEPT ![x] = [Update(t, "status", "CANCELLED") EXCEPT !.pc = "publish"]]
    /\ UNCHANGED <<published, execution, docs, applied, destroyed>>

\* Mutated: a failure to publish is logged only.
PublishDestroyHeedless(x) ==
    /\ call[x].pc = "publish"
    /\ call' = [call EXCEPT ![x].pc = "read"]
    /\ destroyed' \in {destroyed, destroyed \cup {call[x].task}}
    /\ UNCHANGED <<published, execution, docs, applied>>

PublishDestroy(x) ==
    /\ call[x].pc = "publish"
    /\ \/ /\ destroyed' = destroyed \cup {call[x].task}
          /\ call' = [call EXCEPT ![x].pc = "read"]
       \/ /\ destroyed' \in {destroyed, destroyed \cup {call[x].task}}
          /\ call' = [call EXCEPT ![x] = OverCall]
    /\ UNCHANGED <<published, execution, docs, applied>>

\* A callback carries the correlation id the PtTask is annotated with. Goroutines of
\* the operator report in no fixed order.
UpdatePtTaskStatus(x, e, status) ==
    /\ call[x].pc = "idle" /\ e \in applied
    /\ call' = [call EXCEPT ![x] = Update(execution[e].task, "status", status)]
    /\ UNCHANGED <<published, execution, docs, applied, destroyed>>

-----------------------------------------------------------------------------
(* The store: the two halves of each Update function *)

\* What the workflow does with the answer of the step that waits: handlers log a
\* failed update of the object or of the links and answer with success.
Following(step, ok) ==
    IF step = "apply" THEN "dashboard"
    ELSE IF step = "dashboard" THEN "finish"
    ELSE IF ok THEN "done" ELSE "aborted"

Answer(x, ok) ==
    /\ call' = [call EXCEPT ![x] = IF x \in Requests THEN OverCall ELSE IdleCall]
    /\ execution' = IF x \in Executions /\ execution[x].step \in Waiting
                    THEN [execution EXCEPT ![x].step = Following(@, ok)]
                    ELSE execution

\* Mutated: the status callback writes the status of the workflow.
UpdatedSwapped(x, doc) ==
    CASE call[x].field = "wf"     -> [doc EXCEPT !.wf = "PROVISIONING_FINISHED"]
      [] call[x].field = "ptTask" -> [doc EXCEPT !.ptTask = x]
      [] call[x].field = "status" -> [doc EXCEPT !.wf = call[x].status]
      [] OTHER                    -> [doc EXCEPT !.links = TRUE]

Updated(x, doc) ==
    CASE call[x].field = "wf"     -> [doc EXCEPT !.wf = "PROVISIONING_FINISHED"]
      [] call[x].field = "ptTask" -> [doc EXCEPT !.ptTask = x]
      [] call[x].field = "status" -> [doc EXCEPT !.status = call[x].status]
      [] OTHER                    -> [doc EXCEPT !.links = TRUE]

ReadDoc(x) ==
    /\ call[x].pc = "read"
    /\ \/ /\ Exists(call[x].task)
          /\ call' = [call EXCEPT ![x].pc = "write", ![x].origin = docs[call[x].task]]
          /\ UNCHANGED execution
       \/ Answer(x, FALSE)
    /\ UNCHANGED <<published, docs, applied, destroyed>>

WriteDoc(x) ==
    /\ call[x].pc = "write"
    /\ \/ docs' = [docs EXCEPT ![call[x].task] = Updated(x, call[x].origin)] /\ Answer(x, TRUE)
       \/ /\ docs' \in {docs, [docs EXCEPT ![call[x].task] = Updated(x, call[x].origin)]}
          /\ Answer(x, FALSE)
    /\ UNCHANGED <<published, applied, destroyed>>

\* The instance that serves the request stops; the caller sees an error.
InstanceStops(x) ==
    /\ call[x].pc \notin {"idle", "over"}
    /\ call' = [call EXCEPT ![x] = IF x \in Requests THEN OverCall ELSE IdleCall]
    /\ execution' = IF x \in Executions THEN [execution EXCEPT ![x].step = "aborted"]
                    ELSE execution
    /\ UNCHANGED <<published, docs, applied, destroyed>>

-----------------------------------------------------------------------------

Workflow(e) ==
    \/ \E t \in Tasks : StartExecution(e, t)
    \/ RecordWorkflow(e) \/ ProvisionResources(e) \/ PreparenApplyPtTask(e)
    \/ CreateDashboard(e) \/ UpdateWorkflowStatus(e) \/ GiveUp(e)

Request(x) ==
    \/ \E t \in Tasks : DeletePtTask(x, t)
    \/ PublishDestroy(x)
    \/ \E e \in Executions, status \in Reports : UpdatePtTaskStatus(x, e, status)

Store(x) == ReadDoc(x) \/ WriteDoc(x) \/ InstanceStops(x)

Next ==
    \/ \E t \in Tasks : CreatePtTask(t)
    \/ \E e \in Executions : Workflow(e)
    \/ \E x \in Requests : Request(x)
    \/ \E x \in Calls : Store(x)

Spec == Init /\ [][Next]_vars

-----------------------------------------------------------------------------
(* What GetPtTask and ListPtTasks show of a document *)

\* Names of the protobuf enumeration; any other name reads as its zero.
LaunchedStatuses == {"PENDING", "RUNNING", "FINISHED", "FAILED", "CANCELLING", "CANCELLED"}

LaunchedTask(t) ==
    [taskStatus      |-> IF docs[t].status \in LaunchedStatuses THEN docs[t].status
                         ELSE "UNKNOWN_TASK_STATUS",
     provisionStatus |-> docs[t].wf,
     links           |-> docs[t].links]

-----------------------------------------------------------------------------
(* Properties *)

\* The state stays within the types of the code's structures, and a request in
\* progress is about a task.
TypeOK ==
    /\ published \subseteq Tasks
    /\ execution \in [Executions -> [task : Tasks \cup {None}, step : Steps]]
    /\ docs \in [Tasks -> Doc]
    /\ applied \subseteq Executions
    /\ call \in [Calls -> Call]
    /\ destroyed \subseteq Tasks
    /\ \A e \in Executions : execution[e].step # "none" => execution[e].task \in Tasks
    /\ \A x \in Calls : call[x].pc \in {"publish", "read", "write"} => call[x].task \in Tasks

\* A document keeps the execution that created it, whatever duplicate executions and
\* whole-document writes of old copies do (Insert uses Create, store.go 115).
ExecutionIsKept ==
    [][\A t \in Tasks : Exists(t) => docs'[t].execution = docs[t].execution]_vars

\* A PtTask in the cluster belongs to the execution its document names, so a message
\* delivered twice starts one load test (RecordWorkflow fails for the second).
AppliedIsRecorded ==
    \A e \in applied : docs[execution[e].task].execution = e

\* The PtTask a document holds was applied, by the execution the document names
\* (PreparenApplyPtTask 690-699), also after the document was written from old copies.
SavedIsApplied ==
    \A t \in Tasks :
        docs[t].ptTask # None => docs[t].ptTask \in applied /\ docs[t].ptTask = docs[t].execution

\* A task is only shown CANCELLED when the destruction of its resources was
\* ordered (DeletePtTask 1343-1353).
CancelledIsDestroyed ==
    \A t \in Tasks : LaunchedTask(t).taskStatus = "CANCELLED" => t \in destroyed

\* PROVISIONING_FINISHED is only shown of a task whose object was applied.
FinishedIsApplied ==
    \A t \in Tasks :
        LaunchedTask(t).provisionStatus = "PROVISIONING_FINISHED" => docs[t].execution \in applied

=============================================================================
