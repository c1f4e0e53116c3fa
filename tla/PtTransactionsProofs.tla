------------------------- MODULE PtTransactionsProofs -------------------------
(***************************************************************************)
(* Theorems about PtTransactions. The store has no transactions, so what   *)
(* can be proved is what every old copy of a document agrees on with the   *)
(* document: its execution, and facts that, once true, stay true (an       *)
(* object was applied, a destruction was ordered).                         *)
(***************************************************************************)
EXTENDS PtTransactions, TLAPS

\* What a document of task t, or an old copy of it, says is true.
Truthful(t, doc) ==
    /\ doc.ptTask # None => doc.ptTask \in applied /\ doc.ptTask = doc.execution
    /\ doc.status = "CANCELLED" => t \in destroyed
    /\ doc.wf = "PROVISIONING_FINISHED" => doc.execution \in applied

\* An execution past its first step is the one its document names.
WorkflowInv ==
    \A e \in Executions :
        /\ execution[e].step \in {"dashboard", "finish", "done"} => e \in applied
        /\ execution[e].step \in {"provision", "apply"} \/ e \in applied =>
              /\ docs[execution[e].task].execution = e
              /\ execution[e].step \notin {"none", "record"}

\* What a request in progress read, or is about to write, is true.
CallInv ==
    \A x \in Calls :
        /\ call[x].pc \in {"read", "write"} =>
              /\ call[x].status = "CANCELLED" => call[x].task \in destroyed
              /\ x \in Executions => x \in applied /\ call[x].task = execution[x].task
              /\ call[x].field \in {"wf", "ptTask"} => x \in Executions
        /\ call[x].pc = "publish" => x \in Requests /\ call[x].field = "status"
        /\ call[x].pc = "write" =>
              /\ Exists(call[x].task)
              /\ call[x].origin.execution = docs[call[x].task].execution
              /\ Truthful(call[x].task, call[x].origin)

DocInv ==
    \A t \in Tasks : /\ Exists(t) => docs[t].execution # None
                     /\ Truthful(t, docs[t])

TInv == TypeOK /\ WorkflowInv /\ CallInv /\ DocInv

USE DEF Calls

LEMMA DocTypes ==
    /\ NoDoc \in Doc /\ IdleCall \in Call /\ OverCall \in Call
    /\ \A e \in Executions : NewDoc(e) \in Doc
    /\ \A t \in Tasks, f \in {"wf", "ptTask", "status", "links"}, st \in Statuses \cup {""} :
          Update(t, f, st) \in Call
  <1>1. NoDoc \in Doc
    BY DEF NoDoc, Doc
  <1>2. IdleCall \in Call
    BY <1>1 DEF IdleCall, Call
  <1>3. OverCall \in Call
    BY <1>2 DEF OverCall, Call
  <1>4. \A e \in Executions : NewDoc(e) \in Doc
    BY <1>1 DEF NewDoc, Doc
  <1>5. \A t \in Tasks, f \in {"wf", "ptTask", "status", "links"}, st \in Statuses \cup {""} :
          Update(t, f, st) \in Call
    BY <1>2 DEF Update, Call
  <1> QED BY <1>1, <1>2, <1>3, <1>4, <1>5

LEMMA UpdatedType ==
    ASSUME NEW x \in Calls, TypeOK, NEW doc \in Doc,
           call[x].field = "ptTask" => x \in Executions
    PROVE  /\ Updated(x, doc) \in Doc
           /\ Updated(x, doc).execution = doc.execution
           /\ Updated(x, doc).ptTask \in {doc.ptTask, x}
           /\ Updated(x, doc).ptTask # doc.ptTask => call[x].field = "ptTask"
           /\ Updated(x, doc).status # doc.status => Updated(x, doc).status = call[x].status
           /\ Updated(x, doc).wf # doc.wf => call[x].field = "wf"
  <1>1. call[x].status \in Statuses \cup {""}
    BY DEF TypeOK, Call
  <1>2. CASE call[x].field = "wf"
    BY <1>2 DEF Updated, Doc
  <1>3. CASE call[x].field = "ptTask"
    BY <1>3 DEF Updated, Doc
  <1>4. CASE call[x].field = "status"
    BY <1>1, <1>4 DEF Updated, Doc
  <1>5. CASE call[x].field \notin {"wf", "ptTask", "status"}
    <2>1. Updated(x, doc) = [doc EXCEPT !.links = TRUE]
      BY <1>5 DEF Updated
    <2> QED BY <2>1, <1>5 DEF Doc
  <1> QED BY <1>2, <1>3, <1>4, <1>5

LEMMA InitTInv == ASSUME TransactionsAssumption, Init PROVE TInv
  <1>1. TypeOK
    BY DocTypes DEF Init, TypeOK, Steps, IdleCall
  <1>2. WorkflowInv /\ CallInv
    BY DEF Init, WorkflowInv, CallInv, IdleCall
  <1>3. DocInv
    BY DEF Init, DocInv, Exists, NoDoc, Truthful
  <1> QED BY <1>1, <1>2, <1>3 DEF TInv

\* Steps of an execution that only move it on.
LEMMA MoveTInv ==
    ASSUME TransactionsAssumption, TInv, NEW e \in Executions, NEW s \in Steps,
           Step(e, s), UNCHANGED <<published, docs, applied, call, destroyed>>,
           execution[e].step \notin {"none", "record"} \/ (s = "aborted" /\ execution[e].step = "record"),
           s \notin {"none", "record"},
           s \in {"dashboard", "finish", "done"} => e \in applied,
           s \in {"provision", "apply"} => docs[execution[e].task].execution = e
    PROVE  TInv'
  <1>1. execution' = [execution EXCEPT ![e].step = s]
    BY DEF Step
  <1>2. /\ \A f \in Executions : execution'[f].task = execution[f].task
        /\ \A f \in Executions \ {e} : execution'[f] = execution[f]
        /\ execution'[e].step = s
    BY <1>1 DEF TInv, TypeOK
  <1>3. TypeOK'
    <2>1. execution' \in [Executions -> [task : Tasks \cup {None}, step : Steps]]
      BY <1>1 DEF TInv, TypeOK
    <2>2. \A f \in Executions : execution'[f].step # "none" => execution'[f].task \in Tasks
      BY <1>2 DEF TInv, TypeOK
    <2> QED BY <2>1, <2>2 DEF TInv, TypeOK
  <1>4. WorkflowInv'
    BY <1>2 DEF TInv, WorkflowInv
  <1>5. CallInv'
    BY <1>2 DEF TInv, CallInv, Exists, Truthful
  <1>6. DocInv'
    BY DEF TInv, DocInv, Exists, Truthful
  <1> QED BY <1>3, <1>4, <1>5, <1>6 DEF TInv

\* Requests that begin: the document is as it was, and what the request is about to
\* write is true.
LEMMA BeginTInv ==
    ASSUME TransactionsAssumption, TInv, NEW x \in Calls, NEW c \in Call,
           call' = [call EXCEPT ![x] = c], applied \subseteq applied',
           destroyed \subseteq destroyed',
           applied' \subseteq applied \cup {x}, destroyed' \subseteq Tasks,
           x \in Executions => execution[x].step \notin {"none", "record"}
                               /\ docs[execution[x].task].execution = x,
           x \in Requests => applied' = applied,
           UNCHANGED <<published, execution, docs>>,
           c.pc # "write",
           c.pc \in {"publish", "read"} => c.task \in Tasks,
           c.pc = "publish" => x \in Requests /\ c.field = "status",
           c.pc = "read" =>
              /\ c.status = "CANCELLED" => c.task \in destroyed'
              /\ x \in Executions => x \in applied' /\ c.task = execution[x].task
              /\ c.field \in {"wf", "ptTask"} => x \in Executions
    PROVE  TInv'
  <1>1. /\ \A y \in Calls \ {x} : call'[y] = call[y]
        /\ call'[x] = c
    BY DEF TInv, TypeOK
  <1>2. TypeOK'
    <2>1. call' \in [Calls -> Call]
      BY DEF TInv, TypeOK
    <2>2. applied' \subseteq Executions
      BY DEF TInv, TypeOK
    <2>3. \A y \in Calls : call'[y].pc \in {"publish", "read", "write"} => call'[y].task \in Tasks
      BY <1>1 DEF TInv, TypeOK
    <2> QED BY <2>1, <2>2, <2>3 DEF TInv, TypeOK
  <1>3. WorkflowInv'
    BY DEF TInv, WorkflowInv
  <1>4. CallInv'
    BY <1>1 DEF TInv, CallInv, Exists, Truthful
  <1>5. DocInv'
    BY DEF TInv, DocInv, Exists, Truthful
  <1> QED BY <1>2, <1>3, <1>4, <1>5 DEF TInv

LEMMA StartTInv ==
    ASSUME TransactionsAssumption, TInv, NEW e \in Executions, NEW t \in Tasks, StartExecution(e, t)
    PROVE  TInv'
  <1>1. /\ \A f \in Executions \ {e} : execution'[f] = execution[f]
        /\ execution'[e] = [task |-> t, step |-> "record"]
        /\ execution[e].step = "none" /\ call[e].pc = "idle"
    BY DEF StartExecution, At, TInv, TypeOK
  <1>2. e \notin applied
    BY <1>1 DEF TInv, WorkflowInv
  <1>3. TypeOK'
    <2>1. execution' \in [Executions -> [task : Tasks \cup {None}, step : Steps]]
      BY DEF StartExecution, TInv, TypeOK, Steps
    <2>2. \A f \in Executions : execution'[f].step # "none" => execution'[f].task \in Tasks
      BY <1>1 DEF TInv, TypeOK
    <2> QED BY <2>1, <2>2 DEF StartExecution, TInv, TypeOK
  <1>4. WorkflowInv'
    BY <1>1, <1>2 DEF StartExecution, TInv, WorkflowInv
  <1>5. CallInv'
    BY <1>1 DEF StartExecution, TInv, CallInv, Exists, Truthful
  <1>6. DocInv'
    BY DEF StartExecution, TInv, DocInv, Exists, Truthful
  <1> QED BY <1>3, <1>4, <1>5, <1>6 DEF TInv

LEMMA RecordTInv ==
    ASSUME TransactionsAssumption, TInv, NEW e \in Executions, RecordWorkflow(e)
    PROVE  TInv'
  <1> DEFINE t == execution[e].task
  <1>1. execution[e].step = "record" /\ t \in Tasks
    BY DEF RecordWorkflow, At, TInv, TypeOK
  <1>2. CASE UNCHANGED docs /\ Step(e, "aborted")
    BY <1>1, <1>2, MoveTInv DEF RecordWorkflow, Steps
  <1>3. ASSUME ~Exists(t), docs' = [docs EXCEPT ![t] = NewDoc(e)],
               NEW s \in {"provision", "aborted"}, Step(e, s)
        PROVE  TInv'
    <2>1. /\ \A u \in Tasks \ {t} : docs'[u] = docs[u]
          /\ docs'[t] = NewDoc(e)
      BY <1>1, <1>3 DEF TInv, TypeOK
    <2>2. /\ \A f \in Executions : execution'[f].task = execution[f].task
          /\ \A f \in Executions \ {e} : execution'[f] = execution[f]
          /\ execution'[e].step = s
      BY <1>3 DEF Step, TInv, TypeOK
    <2>3. UNCHANGED <<published, applied, call, destroyed>>
      BY DEF RecordWorkflow
    <2>4. NewDoc(e).execution = e /\ docs[t].execution = None
      <3>1. docs[t] = NoDoc
        BY <1>3 DEF Exists
      <3>2. NoDoc.execution = None
        BY DEF NoDoc
      <3>3. NewDoc(e).execution = e
        BY DEF NewDoc, NoDoc
      <3> QED BY <3>1, <3>2, <3>3
    <2>5. TypeOK'
      <3>1. execution' \in [Executions -> [task : Tasks \cup {None}, step : Steps]]
        BY <1>3 DEF Step, Steps, TInv, TypeOK
      <3>2. docs' \in [Tasks -> Doc]
        BY <1>1, <1>3, DocTypes DEF TInv, TypeOK
      <3>3. \A f \in Executions : execution'[f].step # "none" => execution'[f].task \in Tasks
        BY <1>1, <2>2 DEF TInv, TypeOK
      <3> QED BY <3>1, <3>2, <3>3, <2>3 DEF TInv, TypeOK
    <2>6. WorkflowInv'
      <3> SUFFICES ASSUME NEW f \in Executions
                   PROVE  /\ execution'[f].step \in {"dashboard", "finish", "done"} => f \in applied
                          /\ execution'[f].step \in {"provision", "apply"} \/ f \in applied =>
                                /\ docs'[execution'[f].task].execution = f
                                /\ execution'[f].step \notin {"none", "record"}
        BY <2>3 DEF WorkflowInv
      <3>1. CASE f = e
        BY <3>1, <1>1, <1>3, <2>1, <2>2, <2>4 DEF TInv, WorkflowInv
      <3>2. CASE f # e
        <4>1. execution'[f] = execution[f]
          BY <3>2, <2>2
        <4>2. execution[f].step # "none" => execution[f].task \in Tasks
          BY DEF TInv, TypeOK
        <4>3. f # None
          BY DEF TransactionsAssumption
        <4> QED BY <4>1, <4>2, <4>3, <2>1, <2>4 DEF TInv, WorkflowInv
      <3> QED BY <3>1, <3>2
    <2>7. CallInv'
      <3>1. \A y \in Calls : call[y].pc = "write" => call[y].task \in Tasks \ {t}
        BY <1>3 DEF TInv, TypeOK, CallInv
      <3> QED BY <2>1, <2>2, <2>3, <3>1 DEF TInv, CallInv, Exists, Truthful
    <2>8. DocInv'
      <3>1. NewDoc(e).execution # None /\ Truthful(t, NewDoc(e))
        BY <2>4 DEF TransactionsAssumption, NewDoc, NoDoc, Truthful
      <3> QED BY <2>1, <2>3, <3>1 DEF TInv, DocInv, Exists, Truthful
    <2> QED BY <2>5, <2>6, <2>7, <2>8 DEF TInv
  <1> QED BY <1>2, <1>3 DEF RecordWorkflow

LEMMA WorkflowTInv ==
    ASSUME TransactionsAssumption, TInv, NEW e \in Executions, Workflow(e)
    PROVE  TInv'
  <1> DEFINE t == execution[e].task
  <1>1. CASE \E u \in Tasks : StartExecution(e, u)
    BY <1>1, StartTInv
  <1>2. CASE RecordWorkflow(e)
    BY <1>2, RecordTInv
  <1>3. CASE ProvisionResources(e)
    BY <1>3, MoveTInv DEF ProvisionResources, At, Steps, Waiting, TInv, WorkflowInv
  <1>4. CASE PreparenApplyPtTask(e)
    <2>1. execution[e].step = "apply" /\ docs[t].execution = e /\ t \in Tasks
      BY <1>4 DEF PreparenApplyPtTask, At, TInv, TypeOK, WorkflowInv
    <2> DEFINE c == Update(t, "ptTask", "")
    <2>2. c \in Call /\ c.pc = "read" /\ c.task = t /\ c.status = ""
      BY <2>1, DocTypes DEF Update, IdleCall
    <2>3. CASE applied' = applied \cup {e} /\ call' = [call EXCEPT ![e] = c] /\ UNCHANGED execution
      <3> HIDE DEF c
      <3> QED BY <1>4, <2>1, <2>2, <2>3, BeginTInv DEF PreparenApplyPtTask, TInv, TypeOK,
                                                    TransactionsAssumption
    <2>4. CASE applied' \in {applied, applied \cup {e}} /\ Step(e, "aborted") /\ UNCHANGED call
      <3>1. execution' = [execution EXCEPT ![e].step = "aborted"]
        BY <2>4 DEF Step
      <3>2. /\ \A f \in Executions : execution'[f].task = execution[f].task
            /\ \A f \in Executions \ {e} : execution'[f] = execution[f]
            /\ execution'[e].step = "aborted"
        BY <3>1 DEF TInv, TypeOK
      <3>3. UNCHANGED <<published, docs, call, destroyed>>
        BY <1>4, <2>4 DEF PreparenApplyPtTask
      <3>4. TypeOK'
        <4>1. execution' \in [Executions -> [task : Tasks \cup {None}, step : Steps]]
          BY <3>1 DEF Steps, TInv, TypeOK
        <4>2. \A f \in Executions : execution'[f].step # "none" => execution'[f].task \in Tasks
          BY <2>1, <3>2 DEF TInv, TypeOK
        <4> QED BY <4>1, <4>2, <3>3, <2>4 DEF TInv, TypeOK
      <3>5. WorkflowInv'
        BY <2>1, <2>4, <3>2, <3>3 DEF TInv, WorkflowInv
      <3>6. CallInv'
        BY <2>4, <3>2, <3>3 DEF TInv, CallInv, Exists, Truthful
      <3>7. DocInv'
        BY <2>4, <3>3 DEF TInv, DocInv, Exists, Truthful
      <3> QED BY <3>4, <3>5, <3>6, <3>7 DEF TInv
    <2> QED BY <1>4, <2>3, <2>4 DEF PreparenApplyPtTask
  <1>5. ASSUME NEW field \in {"links", "wf"}, execution[e].step \in {"dashboard", "finish"},
               call' = [call EXCEPT ![e] = Update(t, field, "")],
               UNCHANGED <<published, execution, docs, applied, destroyed>>
        PROVE  TInv'
    <2>1. e \in applied /\ docs[t].execution = e /\ t \in Tasks
      BY <1>5 DEF TInv, TypeOK, WorkflowInv
    <2> DEFINE c == Update(t, field, "")
    <2>2. c \in Call /\ c.pc = "read" /\ c.task = t /\ c.status = ""
      BY <2>1, DocTypes DEF Update, IdleCall
    <2> HIDE DEF c
    <2>3. call' = [call EXCEPT ![e] = c]
      BY <1>5 DEF c
    <2> QED BY <1>5, <2>1, <2>2, <2>3, BeginTInv DEF TInv, TypeOK, TransactionsAssumption
  <1>6. CASE CreateDashboard(e)
    <2>1. CASE Step(e, "aborted") /\ UNCHANGED call
      BY <1>6, <2>1, MoveTInv DEF CreateDashboard, At, Steps
    <2> QED BY <1>5, <1>6, <2>1 DEF CreateDashboard, At
  <1>7. CASE UpdateWorkflowStatus(e)
    BY <1>5, <1>7 DEF UpdateWorkflowStatus, At
  <1>8. CASE GiveUp(e)
    BY <1>8, MoveTInv DEF GiveUp, Steps, Waiting
  <1> QED BY <1>1, <1>2, <1>3, <1>4, <1>6, <1>7, <1>8 DEF Workflow

LEMMA RequestTInv ==
    ASSUME TransactionsAssumption, TInv, NEW x \in Requests, Request(x)
    PROVE  TInv'
  <1>1. x \notin Executions
    BY DEF TransactionsAssumption
  <1>2. ASSUME NEW t \in Tasks, DeletePtTask(x, t)  PROVE TInv'
    <2> DEFINE c == [Update(t, "status", "CANCELLED") EXCEPT !.pc = "publish"]
    <2>1. Update(t, "status", "CANCELLED") \in Call
      BY DocTypes DEF Statuses
    <2>2. c \in Call /\ c.pc = "publish"
      BY <2>1 DEF Call
    <2>3. c.task = t /\ c.field = "status"
      BY DEF Update, IdleCall
    <2>4. call' = [call EXCEPT ![x] = c]
      BY <1>2 DEF DeletePtTask
    <2> HIDE DEF c
    <2> QED BY <1>1, <1>2, <2>2, <2>3, <2>4, BeginTInv DEF DeletePtTask, TInv, TypeOK
  <1>3. CASE PublishDestroy(x)
    <2>1. /\ call[x] \in Call /\ call[x].task \in Tasks /\ call[x].field = "status"
      BY <1>3 DEF PublishDestroy, TInv, TypeOK, CallInv
    <2>2. CASE destroyed' = destroyed \cup {call[x].task} /\ call' = [call EXCEPT ![x].pc = "read"]
      <3> DEFINE c == [call[x] EXCEPT !.pc = "read"]
      <3>1. c \in Call /\ c.pc = "read" /\ c.task = call[x].task /\ c.field = "status"
        BY <2>1 DEF Call
      <3>2. call' = [call EXCEPT ![x] = c]
        BY <2>2 DEF TInv, TypeOK
      <3> HIDE DEF c
      <3>3. /\ destroyed' \subseteq Tasks /\ destroyed \subseteq destroyed' /\ c.task \in destroyed'
            /\ UNCHANGED <<published, execution, docs, applied>>
        BY <1>3, <2>1, <2>2, <3>1 DEF PublishDestroy, TInv, TypeOK
      <3> QED BY <1>1, <2>1, <3>1, <3>2, <3>3, BeginTInv
    <2>3. CASE /\ destroyed' \in {destroyed, destroyed \cup {call[x].task}}
               /\ call' = [call EXCEPT ![x] = OverCall]
      <3>1. OverCall \in Call /\ OverCall.pc = "over"
        BY DocTypes DEF OverCall, IdleCall
      <3> QED BY <1>1, <1>3, <2>1, <2>3, <3>1, BeginTInv DEF PublishDestroy, TInv, TypeOK
    <2> QED BY <1>3, <2>2, <2>3 DEF PublishDestroy
  <1>4. ASSUME NEW e \in Executions, NEW status \in Reports, UpdatePtTaskStatus(x, e, status)
        PROVE  TInv'
    <2> DEFINE c == Update(execution[e].task, "status", status)
    <2>1. execution[e].task \in Tasks
      BY <1>4 DEF UpdatePtTaskStatus, TInv, TypeOK, WorkflowInv
    <2>2. c \in Call /\ status # "CANCELLED"
      BY <2>1, DocTypes DEF Statuses, Reports
    <2>3. c.pc = "read" /\ c.task \in Tasks /\ c.field = "status" /\ c.status = status
      BY <2>1 DEF Update, IdleCall
    <2>4. call' = [call EXCEPT ![x] = c]
      BY <1>4 DEF UpdatePtTaskStatus
    <2> HIDE DEF c
    <2> QED BY <1>1, <1>4, <2>2, <2>3, <2>4, BeginTInv DEF UpdatePtTaskStatus, TInv, TypeOK
  <1> QED BY <1>2, <1>3, <1>4 DEF Request

\* Calls that end: the document is as it was, or what was written is true.
LEMMA EndTInv ==
    ASSUME TransactionsAssumption, TInv, NEW x \in Calls, NEW c \in {IdleCall, OverCall},
           call' = [call EXCEPT ![x] = c], UNCHANGED <<published, applied, destroyed>>,
           NEW t \in Tasks, NEW d \in Doc,
           docs' = [docs EXCEPT ![t] = d], d.execution = docs[t].execution,
           Exists(t) <=> d # NoDoc, Truthful(t, d),
           \/ UNCHANGED execution
           \/ /\ x \in Executions /\ x \in applied
              /\ \E s \in {"dashboard", "finish", "done", "aborted"} :
                    execution' = [execution EXCEPT ![x].step = s]
    PROVE  TInv'
  <1>1. /\ \A y \in Calls \ {x} : call'[y] = call[y]
        /\ call'[x].pc \in {"idle", "over"}
    <2>1. IdleCall.pc = "idle" /\ OverCall.pc = "over"
      BY DEF IdleCall, OverCall
    <2> QED BY <2>1 DEF TInv, TypeOK
  <1>2. \A u \in Tasks : docs'[u].execution = docs[u].execution
    BY DEF TInv, TypeOK
  <1>3. /\ \A f \in Executions : execution'[f].task = execution[f].task
        /\ \A f \in Executions :
              \/ execution'[f] = execution[f]
              \/ f \in applied /\ execution'[f].step \in {"dashboard", "finish", "done", "aborted"}
    <2>1. CASE UNCHANGED execution
      BY <2>1
    <2>2. ASSUME x \in Executions, x \in applied,
                 NEW s \in {"dashboard", "finish", "done", "aborted"},
                 execution' = [execution EXCEPT ![x].step = s]
          PROVE  /\ \A f \in Executions : execution'[f].task = execution[f].task
                 /\ \A f \in Executions :
                       \/ execution'[f] = execution[f]
                       \/ /\ f \in applied
                          /\ execution'[f].step \in {"dashboard", "finish", "done", "aborted"}
      <3>1. \A f \in Executions \ {x} : execution'[f] = execution[f]
        BY <2>2 DEF TInv, TypeOK
      <3>2. execution'[x].task = execution[x].task /\ execution'[x].step = s
        BY <2>2 DEF TInv, TypeOK
      <3> QED BY <2>2, <3>1, <3>2
    <2> QED BY <2>1, <2>2
  <1>4. \A f \in Executions : execution[f].step # "none" => execution[f].task \in Tasks
    BY DEF TInv, TypeOK
  <1>5. \A f \in applied : execution[f].step # "none"
    BY DEF TInv, TypeOK, WorkflowInv
  <1>6. TypeOK'
    <2>1. execution' \in [Executions -> [task : Tasks \cup {None}, step : Steps]]
      BY DEF TInv, TypeOK, Steps, Waiting
    <2>2. call' \in [Calls -> Call]
      BY DocTypes DEF TInv, TypeOK
    <2>3. docs' \in [Tasks -> Doc]
      BY DEF TInv, TypeOK
    <2>4. \A f \in Executions : execution'[f].step # "none" => execution'[f].task \in Tasks
      BY <1>3, <1>4, <1>5
    <2>5. \A y \in Calls : call'[y].pc \in {"publish", "read", "write"} => call'[y].task \in Tasks
      BY <1>1 DEF TInv, TypeOK
    <2> QED BY <2>1, <2>2, <2>3, <2>4, <2>5 DEF TInv, TypeOK
  <1>7. WorkflowInv'
    <2> SUFFICES ASSUME NEW f \in Executions
                 PROVE  /\ execution'[f].step \in {"dashboard", "finish", "done"} => f \in applied
                        /\ execution'[f].step \in {"provision", "apply"} \/ f \in applied =>
                              /\ docs'[execution'[f].task].execution = f
                              /\ execution'[f].step \notin {"none", "record"}
      BY DEF WorkflowInv
    <2>1. execution[f].step \in {"provision", "apply"} \/ f \in applied => execution[f].task \in Tasks
      BY <1>4, <1>5
    <2> QED BY <1>2, <1>3, <2>1 DEF TInv, WorkflowInv
  <1>8. CallInv'
    <2>1. \A u \in Tasks : Exists(u) => docs'[u] # NoDoc
      BY DEF TInv, TypeOK, Exists
    <2>2. \A y \in Calls : call[y].pc = "write" => call[y].task \in Tasks
      BY DEF TInv, TypeOK
    <2> QED BY <1>1, <1>2, <1>3, <2>1, <2>2 DEF TInv, CallInv, Exists, Truthful
  <1>9. DocInv'
    <2>1. \A u \in Tasks : docs'[u] = IF u = t THEN d ELSE docs[u]
      BY DEF TInv, TypeOK
    <2> QED BY <2>1 DEF TInv, DocInv, Exists, Truthful
  <1> QED BY <1>6, <1>7, <1>8, <1>9 DEF TInv

LEMMA StoreTInv ==
    ASSUME TransactionsAssumption, TInv, NEW x \in Calls, Store(x)
    PROVE  TInv'
  <1> DEFINE t == call[x].task
             c == IF x \in Requests THEN OverCall ELSE IdleCall
             d == Updated(x, call[x].origin)
  <1>1. /\ t \in Tasks /\ call[x] \in Call
        /\ x \in Executions => call[x].pc # "publish"
        /\ x \in Executions => x \in applied /\ execution[x].step # "none"
    <2>1. call[x] \in Call
      BY DEF TInv, TypeOK
    <2>2. call[x].pc \in {"publish", "read", "write"}
      BY <2>1 DEF Store, ReadDoc, WriteDoc, InstanceStops, Call
    <2>3. x \in Executions => call[x].pc # "publish"
      BY DEF TransactionsAssumption, TInv, CallInv
    <2>4. x \in Executions => x \in applied /\ execution[x].step # "none"
      BY <2>2, <2>3 DEF TInv, CallInv, WorkflowInv
    <2> QED BY <2>1, <2>2, <2>3, <2>4 DEF TInv, TypeOK
  <1>2. c \in {IdleCall, OverCall}
    OBVIOUS
  <1>3. ASSUME NEW ok \in BOOLEAN, Answer(x, ok)
        PROVE  /\ call' = [call EXCEPT ![x] = c]
               /\ \/ UNCHANGED execution
                  \/ /\ x \in Executions
                     /\ \E s \in {"dashboard", "finish", "done", "aborted"} :
                           execution' = [execution EXCEPT ![x].step = s]
    <2>1. \A step : Following(step, ok) \in {"dashboard", "finish", "done", "aborted"}
      BY DEF Following
    <2> QED BY <1>3, <2>1 DEF Answer
  <1>4. ASSUME UNCHANGED <<published, docs, applied, destroyed>>, call' = [call EXCEPT ![x] = c],
               \/ UNCHANGED execution
               \/ /\ x \in Executions
                  /\ \E s \in {"dashboard", "finish", "done", "aborted"} :
                        execution' = [execution EXCEPT ![x].step = s]
        PROVE  TInv'
    <2>1. /\ docs[t] \in Doc /\ docs' = [docs EXCEPT ![t] = docs[t]]
          /\ Truthful(t, docs[t]) /\ (Exists(t) <=> docs[t] # NoDoc)
      BY <1>1, <1>4 DEF TInv, TypeOK, DocInv, Exists
    <2> HIDE DEF t, c, d
    <2> QED BY <1>1, <1>2, <1>4, <2>1, EndTInv
  <1>5. CASE ReadDoc(x)
    <2>1. CASE Answer(x, FALSE)
      BY <1>3, <1>4, <1>5, <2>1 DEF ReadDoc
    <2>2. CASE /\ Exists(t) /\ UNCHANGED execution
               /\ call' = [call EXCEPT ![x].pc = "write", ![x].origin = docs[t]]
      <3>1. /\ call'[x] = [call[x] EXCEPT !.pc = "write", !.origin = docs[t]]
            /\ \A y \in Calls \ {x} : call'[y] = call[y]
        BY <2>2 DEF TInv, TypeOK
      <3>2. docs[t] \in Doc /\ Truthful(t, docs[t])
        BY <1>1 DEF TInv, TypeOK, DocInv
      <3>3. /\ call'[x].pc = "write" /\ call'[x].origin = docs[t] /\ call'[x].task = t
            /\ call'[x].field = call[x].field /\ call'[x].status = call[x].status
            /\ call'[x] \in Call
        BY <1>1, <3>1, <3>2 DEF Call
      <3>4. TypeOK'
        <4>1. call' \in [Calls -> Call]
          BY <2>2, <3>1, <3>3 DEF TInv, TypeOK
        <4>2. \A y \in Calls : call'[y].pc \in {"publish", "read", "write"} => call'[y].task \in Tasks
          BY <1>1, <3>1, <3>3 DEF TInv, TypeOK
        <4> QED BY <1>5, <2>2, <4>1, <4>2 DEF ReadDoc, TInv, TypeOK
      <3>5. WorkflowInv'
        BY <1>5, <2>2 DEF ReadDoc, TInv, WorkflowInv
      <3>6. CallInv'
        <4>1. UNCHANGED <<published, execution, docs, applied, destroyed>> /\ call[x].pc = "read"
          BY <1>5, <2>2 DEF ReadDoc
        <4>2. /\ call[x].status = "CANCELLED" => t \in destroyed
              /\ x \in Executions => x \in applied /\ t = execution[x].task
              /\ call[x].field \in {"wf", "ptTask"} => x \in Executions
          BY <4>1 DEF TInv, CallInv
        <4>3. SUFFICES ASSUME NEW y \in Calls  PROVE CallInv!(y)'
          BY DEF CallInv
        <4>4. CASE y = x
          BY <2>2, <3>2, <3>3, <4>1, <4>2, <4>4 DEF Exists, Truthful
        <4>5. CASE y # x
          BY <3>1, <4>1, <4>5 DEF TInv, CallInv, Exists, Truthful
        <4> QED BY <4>4, <4>5
      <3>7. DocInv'
        BY <1>5 DEF ReadDoc, TInv, DocInv, Exists, Truthful
      <3> QED BY <3>4, <3>5, <3>6, <3>7 DEF TInv
    <2> QED BY <1>5, <2>1, <2>2 DEF ReadDoc
  <1>6. CASE WriteDoc(x)
    <2>1. /\ Exists(t) /\ call[x].origin \in Doc /\ call[x].origin.execution = docs[t].execution
          /\ Truthful(t, call[x].origin) /\ docs[t].execution # None
          /\ call[x].field \in {"wf", "ptTask"} => x \in Executions
          /\ x \in Executions => docs[t].execution = x
          /\ call[x].status = "CANCELLED" => t \in destroyed
      BY <1>1, <1>6 DEF WriteDoc, TInv, CallInv, DocInv, WorkflowInv, Call
    <2>2. /\ d \in Doc /\ d.execution = docs[t].execution
          /\ d.ptTask \in {call[x].origin.ptTask, x}
          /\ d.ptTask # call[x].origin.ptTask => call[x].field = "ptTask"
          /\ d.status # call[x].origin.status => d.status = call[x].status
          /\ d.wf # call[x].origin.wf => call[x].field = "wf"
      BY <2>1, UpdatedType DEF TInv
    <2>3. Truthful(t, d)
      BY <1>1, <2>1, <2>2 DEF Truthful
    <2>4. d # NoDoc
      <3>1. NoDoc.execution = None
        BY DEF NoDoc
      <3> QED BY <2>1, <2>2, <3>1
    <2>5. \E ok \in BOOLEAN : Answer(x, ok)
      BY <1>6 DEF WriteDoc
    <2>6. CASE docs' = docs
      BY <1>3, <1>4, <1>6, <2>5, <2>6 DEF WriteDoc
    <2>7. CASE docs' = [docs EXCEPT ![t] = d]
      <3>1. UNCHANGED <<published, applied, destroyed>>
        BY <1>6 DEF WriteDoc
      <3> HIDE DEF t, c, d
      <3> QED BY <1>1, <1>2, <1>3, <2>1, <2>2, <2>3, <2>4, <2>5, <2>7, <3>1, EndTInv
    <2> QED BY <1>6, <2>6, <2>7 DEF WriteDoc
  <1>7. CASE InstanceStops(x)
    BY <1>4, <1>7 DEF InstanceStops
  <1> QED BY <1>5, <1>6, <1>7 DEF Store

LEMMA NextTInv == ASSUME TransactionsAssumption, TInv, [Next]_vars PROVE TInv'
  <1>1. ASSUME NEW t \in Tasks, CreatePtTask(t)  PROVE TInv'
    <2>1. TypeOK'
      BY <1>1 DEF CreatePtTask, TInv, TypeOK
    <2>2. WorkflowInv'
      BY <1>1 DEF CreatePtTask, TInv, WorkflowInv
    <2>3. CallInv'
      BY <1>1 DEF CreatePtTask, TInv, CallInv, Exists, Truthful
    <2>4. DocInv'
      BY <1>1 DEF CreatePtTask, TInv, DocInv, Exists, Truthful
    <2> QED BY <2>1, <2>2, <2>3, <2>4 DEF TInv
  <1>2. CASE UNCHANGED vars
    BY <1>2 DEF vars, TInv, TypeOK, WorkflowInv, CallInv, DocInv, Exists, Truthful
  <1> QED BY <1>1, <1>2, WorkflowTInv, RequestTInv, StoreTInv DEF Next

LEMMA SpecTInv == ASSUME TransactionsAssumption PROVE Spec => []TInv
  <1>1. Init => TInv
    BY InitTInv
  <1>2. TInv /\ [Next]_vars => TInv'
    BY NextTInv
  <1> QED BY <1>1, <1>2, PTL DEF Spec

-----------------------------------------------------------------------------

\* The state of pt-admin, its workflow executions and its store always has the types
\* of the code's structures, and a request in progress is about a task.
THEOREM TypeCorrect == Spec => []TypeOK
  <1>1. TInv => TypeOK
    BY DEF TInv
  <1> QED BY <1>1, TransactionsAssumption, SpecTInv, PTL

\* A message delivered any number of times starts at most one load test: a PtTask in
\* the cluster belongs to the execution that the document of its task names, because
\* Insert refuses to create a second document.
THEOREM OneLoadTest == Spec => []AppliedIsRecorded
  <1>1. TInv => AppliedIsRecorded
    BY DEF TInv, TypeOK, WorkflowInv, AppliedIsRecorded
  <1> QED BY <1>1, TransactionsAssumption, SpecTInv, PTL

\* The PtTask a document holds was applied, whatever old copy of the document a
\* handler wrote last.
THEOREM SavedWasApplied == Spec => []SavedIsApplied
  <1>1. TInv => SavedIsApplied
    BY DEF TInv, DocInv, Truthful, SavedIsApplied
  <1> QED BY <1>1, TransactionsAssumption, SpecTInv, PTL

\* No task is marked CANCELLED unless the destruction of its resources was ordered.
THEOREM CancelledWasDestroyed == Spec => []CancelledIsDestroyed
  <1>1. TInv => CancelledIsDestroyed
    BY DEF TInv, DocInv, Truthful, CancelledIsDestroyed, LaunchedTask
  <1> QED BY <1>1, TransactionsAssumption, SpecTInv, PTL

\* No task is shown as PROVISIONING_FINISHED unless its PtTask was applied.
THEOREM FinishedWasApplied == Spec => []FinishedIsApplied
  <1>1. TInv => FinishedIsApplied
    BY DEF TInv, DocInv, Truthful, FinishedIsApplied, LaunchedTask
  <1> QED BY <1>1, TransactionsAssumption, SpecTInv, PTL

\* A document keeps the execution that created it: duplicate executions cannot replace
\* it, and every old copy that a handler writes back names the same one.
THEOREM KeptExecution == Spec => ExecutionIsKept
  <1>1. ASSUME TransactionsAssumption, TInv, [Next]_vars, NEW t \in Tasks, Exists(t)
        PROVE  docs'[t].execution = docs[t].execution
    <2>1. CASE UNCHANGED docs
      BY <2>1
    <2>2. ASSUME NEW e \in Executions, RecordWorkflow(e)  PROVE docs'[t] = docs[t]
      <3>1. CASE docs' = docs
        BY <3>1
      <3>2. CASE /\ ~Exists(execution[e].task)
                 /\ docs' = [docs EXCEPT ![execution[e].task] = NewDoc(e)]
        BY <1>1, <3>2 DEF TInv, TypeOK
      <3> QED BY <2>2, <3>1, <3>2 DEF RecordWorkflow
    <2>3. ASSUME NEW x \in Calls, WriteDoc(x)  PROVE docs'[t].execution = docs[t].execution
      <3>1. /\ call[x].origin \in Doc
            /\ call[x].origin.execution = docs[call[x].task].execution
            /\ call[x].field = "ptTask" => x \in Executions
        BY <1>1, <2>3 DEF WriteDoc, TInv, TypeOK, Call, CallInv
      <3>2. Updated(x, call[x].origin).execution = docs[call[x].task].execution
        BY <1>1, <3>1, UpdatedType DEF TInv
      <3>3. docs' = docs \/ docs' = [docs EXCEPT ![call[x].task] = Updated(x, call[x].origin)]
        BY <2>3 DEF WriteDoc
      <3> QED BY <1>1, <3>2, <3>3 DEF TInv, TypeOK
    <2>4. \/ UNCHANGED docs
          \/ \E e \in Executions : RecordWorkflow(e)
          \/ \E x \in Calls : WriteDoc(x)
      <3>1. CASE UNCHANGED vars
        BY <3>1 DEF vars
      <3>2. ASSUME NEW u \in Tasks, CreatePtTask(u)  PROVE UNCHANGED docs
        BY <3>2 DEF CreatePtTask
      <3>3. ASSUME NEW e \in Executions, Workflow(e)  PROVE UNCHANGED docs \/ RecordWorkflow(e)
        BY <3>3 DEF Workflow, StartExecution, ProvisionResources, PreparenApplyPtTask,
                    CreateDashboard, UpdateWorkflowStatus, GiveUp
      <3>4. ASSUME NEW x \in Requests, Request(x)  PROVE UNCHANGED docs
        BY <3>4 DEF Request, DeletePtTask, PublishDestroy, UpdatePtTaskStatus
      <3>5. ASSUME NEW x \in Calls, Store(x)  PROVE UNCHANGED docs \/ WriteDoc(x)
        BY <3>5 DEF Store, ReadDoc, InstanceStops
      <3> QED BY <1>1, <3>1, <3>2, <3>3, <3>4, <3>5 DEF Next
    <2> QED BY <2>1, <2>2, <2>3, <2>4
  <1>2. ASSUME TransactionsAssumption
        PROVE  TInv /\ [Next]_vars =>
               [\A t \in Tasks : Exists(t) => docs'[t].execution = docs[t].execution]_vars
    BY <1>1, <1>2
  <1> QED BY <1>2, TransactionsAssumption, SpecTInv, PTL DEF Spec, ExecutionIsKept

=============================================================================
