-------------------------- MODULE ProvisioningProofs --------------------------
(***************************************************************************)
(* Theorems about Provisioning, for any number of tasks, executions,       *)
(* regions, roles and requests to destroy.                                 *)
(*                                                                         *)
(*   - It implements PtTransactions: the handlers of a provisioning step   *)
(*     are one ProvisionResources there, or nothing.                       *)
(*   - What a handler has passed stays there for whoever comes after.      *)
(*   - The endpoint of a cluster is told apart from that of every later    *)
(*     cluster of its name: its maker is past the place where it was made. *)
(***************************************************************************)
EXTENDS Provisioning, TLAPS

\* The theorems about PtTransactions, of the same variables.
TxP == INSTANCE PtTransactionsProofs

LEMMA Transactions == TxP!TransactionsAssumption
  BY ProvisioningAssumption DEF TxP!TransactionsAssumption

LEMMA SameInit == Tx!Init <=> TxP!Init
  BY DEF Tx!Init, TxP!Init, Tx!NoDoc, TxP!NoDoc, Tx!Calls, TxP!Calls, Tx!IdleCall,
     TxP!IdleCall

LEMMA SameTypes == Tx!TypeOK <=> TxP!TypeOK
  BY DEF Tx!TypeOK, TxP!TypeOK, Tx!Steps, TxP!Steps, Tx!Waiting, TxP!Waiting, Tx!Doc,
     TxP!Doc, Tx!Calls, TxP!Calls, Tx!Call, TxP!Call, Tx!Statuses, TxP!Statuses,
     Tx!Reports, TxP!Reports

LEMMA SameNext == Tx!Next <=> TxP!Next
  BY DEF Tx!Next, TxP!Next, Tx!Workflow, TxP!Workflow, Tx!Request, TxP!Request, Tx!Store,
     TxP!Store, Tx!Calls, TxP!Calls, Tx!CreatePtTask, TxP!CreatePtTask, Tx!StartExecution,
     TxP!StartExecution, Tx!RecordWorkflow, TxP!RecordWorkflow, Tx!ProvisionResources,
     TxP!ProvisionResources, Tx!PreparenApplyPtTask, TxP!PreparenApplyPtTask,
     Tx!CreateDashboard, TxP!CreateDashboard, Tx!UpdateWorkflowStatus,
     TxP!UpdateWorkflowStatus, Tx!GiveUp, TxP!GiveUp, Tx!DeletePtTask, TxP!DeletePtTask,
     Tx!PublishDestroy, TxP!PublishDestroy, Tx!UpdatePtTaskStatus, TxP!UpdatePtTaskStatus,
     Tx!ReadDoc, TxP!ReadDoc, Tx!WriteDoc, TxP!WriteDoc, Tx!InstanceStops,
     TxP!InstanceStops, Tx!Answer, TxP!Answer, Tx!Updated, TxP!Updated, Tx!Following,
     TxP!Following, Tx!Update, TxP!Update, Tx!At, TxP!At, Tx!Step, TxP!Step, Tx!NewDoc,
     TxP!NewDoc, Tx!NoDoc, TxP!NoDoc, Tx!IdleCall, TxP!IdleCall, Tx!OverCall, TxP!OverCall,
     Tx!Exists, TxP!Exists, Tx!Waiting, TxP!Waiting, Tx!Reports, TxP!Reports

LEMMA SameVars == UNCHANGED Tx!vars <=> UNCHANGED TxP!vars
  BY DEF Tx!vars, TxP!vars

-----------------------------------------------------------------------------
(* The handlers of a step are one step of PtTransactions *)

Quiet == \A e \in Executions :
            execution[e].step \in {"none", "record", "provision"} => call[e].pc = "idle"

TxInv == TxP!TInv /\ Quiet

LEMMA TxInvTypes == ASSUME TxInv PROVE Tx!TypeOK
  BY SameTypes DEF TxInv, TxP!TInv

LEMMA InitTxInv == ASSUME Init PROVE TxInv
  <1>1. TxP!TInv
    BY Transactions, SameInit, TxP!InitTInv DEF Init
  <1>2. Quiet
    BY DEF Init, Tx!Init, Quiet, Tx!IdleCall, Tx!Calls
  <1> QED BY <1>1, <1>2 DEF TxInv

LEMMA QuietStep == ASSUME TxInv, Tx!Next PROVE Quiet'
  <1>0. /\ Tx!TypeOK /\ Quiet
        /\ execution \in [Executions -> [task : Tasks \cup {None}, step : Tx!Steps]]
        /\ call \in [Tx!Calls -> Tx!Call]
        /\ Executions \subseteq Tx!Calls /\ Requests \subseteq Tx!Calls
    BY TxInvTypes DEF TxInv, Tx!TypeOK, Tx!Calls
  \* A step of the workflow e.
  <1>1. ASSUME NEW e \in Executions,
               \A f \in Executions : f # e => execution'[f] = execution[f] /\ call'[f] = call[f],
               \/ call'[e].pc = "idle"
               \/ execution'[e].step \notin {"none", "record", "provision"}
        PROVE  Quiet'
    BY <1>0, <1>1 DEF Quiet
  <1>2. ASSUME NEW e \in Executions, NEW s \in Tx!Steps, Tx!Step(e, s)
        PROVE  /\ execution'[e].step = s
               /\ \A f \in Executions : f # e => execution'[f] = execution[f]
    BY <1>0, <1>2 DEF Tx!Step
  <1>3. ASSUME NEW e \in Executions, NEW c, call' = [call EXCEPT ![e] = c]
        PROVE  call'[e] = c /\ \A f \in Executions : f # e => call'[f] = call[f]
    BY <1>0, <1>3
  <1>4. {"provision", "aborted", "apply"} \subseteq Tx!Steps
    BY DEF Tx!Steps, Tx!Waiting
  <1>5. ASSUME NEW e \in Executions, Tx!Workflow(e)  PROVE Quiet'
    <2>1. ASSUME NEW t \in Tasks, Tx!StartExecution(e, t)  PROVE Quiet'
      BY <1>0, <1>1, <2>1 DEF Tx!StartExecution, Tx!At
    <2>2. CASE Tx!RecordWorkflow(e)
      BY <1>0, <1>1, <1>2, <1>4, <2>2 DEF Tx!RecordWorkflow, Tx!At
    <2>3. CASE Tx!ProvisionResources(e)
      BY <1>0, <1>1, <1>2, <1>4, <2>3 DEF Tx!ProvisionResources, Tx!At
    <2>4. CASE Tx!GiveUp(e)
      BY <1>0, <1>1, <1>2, <1>4, <2>4 DEF Tx!GiveUp
    <2>5. ASSUME execution[e].step \in Tx!Waiting, NEW c, call' = [call EXCEPT ![e] = c],
                 UNCHANGED execution
          PROVE  Quiet'
      BY <1>1, <1>3, <2>5 DEF Tx!Waiting
    <2>6. ASSUME UNCHANGED call, Tx!Step(e, "aborted")  PROVE Quiet'
      BY <1>1, <1>2, <1>4, <2>6
    <2>7. CASE Tx!PreparenApplyPtTask(e)
      BY <2>5, <2>6, <2>7 DEF Tx!PreparenApplyPtTask, Tx!At, Tx!Waiting
    <2>8. CASE Tx!CreateDashboard(e)
      BY <2>5, <2>6, <2>8 DEF Tx!CreateDashboard, Tx!At, Tx!Waiting
    <2>9. CASE Tx!UpdateWorkflowStatus(e)
      BY <2>5, <2>9 DEF Tx!UpdateWorkflowStatus, Tx!At, Tx!Waiting
    <2> QED BY <1>5, <2>1, <2>2, <2>3, <2>4, <2>7, <2>8, <2>9 DEF Tx!Workflow
  <1>6. ASSUME NEW x \in Requests, Tx!Request(x)  PROVE Quiet'
    <2>1. UNCHANGED execution
      BY <1>6 DEF Tx!Request, Tx!DeletePtTask, Tx!PublishDestroy, Tx!UpdatePtTaskStatus
    <2>2. \A f \in Executions : call'[f] = call[f]
      <3>1. \A f \in Executions : f # x
        BY ProvisioningAssumption
      <3>2. ASSUME NEW c, call' = [call EXCEPT ![x] = c]
            PROVE  \A f \in Executions : call'[f] = call[f]
        BY <1>0, <3>1, <3>2
      <3> QED BY <1>6, <3>2
           DEF Tx!Request, Tx!DeletePtTask, Tx!PublishDestroy, Tx!UpdatePtTaskStatus
    <2> QED BY <1>0, <2>1, <2>2 DEF Quiet
  <1>7. ASSUME NEW x \in Tx!Calls, Tx!Store(x)  PROVE Quiet'
    <2>1. \A f \in Executions : f # x => call'[f] = call[f]
      <3>1. ASSUME NEW c, call' = [call EXCEPT ![x] = c]
            PROVE  \A f \in Executions : f # x => call'[f] = call[f]
        BY <1>0, <3>1
      <3> QED BY <1>7, <3>1
           DEF Tx!Store, Tx!ReadDoc, Tx!WriteDoc, Tx!InstanceStops, Tx!Answer
    <2>2. \A f \in Executions : f # x => execution'[f] = execution[f]
      BY <1>0, <1>7
      DEF Tx!Store, Tx!ReadDoc, Tx!WriteDoc, Tx!InstanceStops, Tx!Answer
    <2>3. CASE x \notin Executions
      BY <1>0, <2>1, <2>2, <2>3 DEF Quiet
    <2>4. CASE x \in Executions
      <3>1. call[x].pc # "idle"
        BY <1>7 DEF Tx!Store, Tx!ReadDoc, Tx!WriteDoc, Tx!InstanceStops
      <3>2. execution[x].step \notin {"none", "record", "provision"}
        BY <1>0, <2>4, <3>1 DEF Quiet
      <3>3. execution'[x].step \notin {"none", "record", "provision"}
        BY <1>0, <1>7, <2>4, <3>2
        DEF Tx!Store, Tx!ReadDoc, Tx!WriteDoc, Tx!InstanceStops, Tx!Answer, Tx!Following
      <3> QED BY <1>1, <2>1, <2>2, <2>4, <3>3
    <2> QED BY <2>3, <2>4
  <1>8. ASSUME NEW t \in Tasks, Tx!CreatePtTask(t)  PROVE Quiet'
    BY <1>0, <1>8 DEF Tx!CreatePtTask, Quiet
  <1> QED BY <1>5, <1>6, <1>7, <1>8 DEF Tx!Next

\* What a step of a handler, or its time-out, means to the workflow.
LEMMA HandlerTx ==
  ASSUME NEW e \in Executions, Handle(e) \/ Fail(e) \/ GiveUp(e)
  PROVE  /\ UNCHANGED <<published, docs, applied, call, destroyed, destroy>>
         /\ \/ UNCHANGED execution
            \/ Provisions(e) /\ (Tx!Step(e, "apply") \/ Tx!Step(e, "aborted"))
  <1>1. ASSUME Failed(e)
        PROVE  UNCHANGED execution \/ (Provisions(e) /\ Tx!Step(e, "aborted"))
    BY <1>1 DEF Failed
  <1>3. CASE Fail(e) \/ GiveUp(e)
    BY <1>1, <1>3 DEF Fail, GiveUp, Unchanged
  <1>4. CASE Build(e) \/ VpcGet(e) \/ VpcWait(e) \/ SaGet(e) \/ PolicyGet(e) \/ GkeGet(e)
             \/ CheckClusters(e)
    BY <1>4 DEF Build, VpcGet, VpcWait, SaGet, PolicyGet, GkeGet, CheckClusters, Unchanged
  <1>5. CASE VpcInsert(e) \/ SaCreate(e) \/ PolicySet(e) \/ GkeCreate(e) \/ ClusterInfo(e)
             \/ PVCStatus(e)
    BY <1>1, <1>5
    DEF VpcInsert, SaCreate, PolicySet, GkeCreate, ClusterInfo, PVCStatus, Unchanged
  <1>6. CASE ApplyStorageClass(e) \/ ApplyPVC(e) \/ ApplyCRD(e) \/ ApplyOperator(e)
    BY <1>1, <1>6
    DEF ApplyStorageClass, ApplyPVC, ApplyCRD, ApplyOperator, Apply, Unchanged
  <1>7. CASE PtOperatorStatus(e)
    BY <1>1, <1>7 DEF PtOperatorStatus, Unchanged
  <1> QED BY <1>3, <1>4, <1>5, <1>6, <1>7 DEF Handle

LEMMA StepTx == ASSUME TxInv, [Next]_vars PROVE [Tx!Next]_txVars
  <1>1. ASSUME NEW e \in Executions, Handle(e) \/ Fail(e) \/ GiveUp(e)
        PROVE  [Tx!Next]_txVars
    <2>1. CASE UNCHANGED execution
      BY <1>1, <2>1, HandlerTx DEF txVars
    <2>2. CASE Provisions(e) /\ (Tx!Step(e, "apply") \/ Tx!Step(e, "aborted"))
      <3>1. Tx!At(e, "provision")
        BY <2>2 DEF TxInv, Quiet, Provisions, Tx!At
      <3>2. Tx!ProvisionResources(e)
        BY <1>1, <2>2, <3>1, HandlerTx DEF Tx!ProvisionResources
      <3> QED BY <3>2 DEF Tx!Next, Tx!Workflow
    <2> QED BY <1>1, <2>1, <2>2, HandlerTx
  <1>2. CASE Transact
    BY <1>2 DEF Transact, Tx!Next, Tx!Workflow
  <1>3. ASSUME NEW e \in Executions, ApplyTask(e)
        PROVE  Tx!Next
    BY <1>3 DEF ApplyTask, Tx!Next, Tx!Workflow
  <1>4. CASE Cloud
    BY <1>4 DEF Cloud, NetworkReady, PVCBound, OperatorReplicated, ClusterProvisioned,
       ClusterGone, SetHome, SetCluster, txVars
  <1>5. ASSUME NEW d \in Destroyers, Destroy(d)  PROVE UNCHANGED txVars
    BY <1>5 DEF Destroy, DestroyStart, DestroyGet, DestroyDelete, DestroyFails, txVars
  <1>6. CASE UNCHANGED vars
    BY <1>6 DEF vars, txVars
  <1> QED BY <1>1, <1>2, <1>3, <1>4, <1>5, <1>6 DEF Next

LEMMA StepTxInv == ASSUME TxInv, [Next]_vars PROVE TxInv'
  <1>1. CASE Tx!Next
    <2>1. TxP!TInv'
      BY <1>1, Transactions, SameNext, TxP!NextTInv DEF TxInv
    <2> QED BY <1>1, <2>1, QuietStep DEF TxInv
  <1>2. CASE UNCHANGED txVars
    <2>1. TxP!TInv'
      BY <1>2, Transactions, TxP!NextTInv DEF TxInv, TxP!vars, txVars
    <2>2. Quiet'
      BY <1>2 DEF TxInv, Quiet, txVars
    <2> QED BY <2>1, <2>2 DEF TxInv
  <1> QED BY <1>1, <1>2, StepTx

LEMMA SpecTxInv == Spec => []TxInv
  <1>1. Init => TxInv
    BY InitTxInv
  <1>2. TxInv /\ [Next]_vars => TxInv'
    BY StepTxInv
  <1> QED BY <1>1, <1>2, PTL DEF Spec

\* The workflow with all its handlers, whatever they share and however they fail,
\* behaves as PtTransactions says: what is proved there holds here.
THEOREM ProvisioningImplementsTransactions == Spec => ImplementsTransactions
  <1>1. Init => Tx!Init
    BY DEF Init
  <1>2. TxInv /\ [Next]_vars => [Tx!Next]_(Tx!vars)
    BY StepTx DEF txVars, Tx!vars
  <1> QED BY <1>1, <1>2, SpecTxInv, PTL DEF Spec, ImplementsTransactions, Tx!Spec
-----------------------------------------------------------------------------
(* What a handler has passed is there, for it and for whoever comes after *)

Begun     == {"build", "vpc.get", "vpc.insert"}
Connected == {"vpc.wait", "sa.get", "sa.create"}
Granting  == {"policy.get", "policy.set"}
Making    == {"gke.get", "gke.create"}
Hosting   == {"operator.crd", "operator.deploy", "operator.status"}
Using     == {"check", "info", "sc", "pvc", "pvc.status"} \cup Hosting

\* A handler in the state r has all it has asked for: the network, the account, its roles.
Fits(r, net, acc, pol) ==
    /\ r.pc \in Begun \cup Connected => r.n = 1
    /\ r.pc \in Connected \cup Granting \cup Making \cup Using => net # "absent"
    /\ r.pc \in Granting => acc /\ r.n \in Grants /\ 1..(r.n - 1) \subseteq pol
    /\ r.pc \in Making \cup Using => acc /\ Grants \subseteq pol

\* A handler in the state r will not create the cluster at place n of its list any more.
Past(r, n) == r.pc \in Using \cup {"over"} \/ (r.pc \in Making /\ n < r.n)

\* What is there stays there.
Grown ==
    /\ network' \in {"absent", "creating", "ready"} /\ account' \in BOOLEAN
    /\ network # "absent" => network' # "absent"
    /\ account => account'
    /\ policy \subseteq policy' /\ policy' \subseteq Grants

CloudTypes ==
    /\ network \in {"absent", "creating", "ready"}
    /\ account \in BOOLEAN
    /\ policy \subseteq Grants
    /\ clusters \in [Locations -> Cluster]

HandlersFit ==
    /\ infra \in [Executions -> Handler]
    /\ \A e \in Executions : Fits(infra[e], network, account, policy)

\* The endpoint is that of the master cluster as it was asked for, and it is not asked for
\* again once the volume was seen bound.  A cluster to make is the first of the list, or
\* the next.
Keeps(e, q) ==
    /\ q.ep \in {infra[e].ep, clusters[Home].made, None}
    /\ q.pc \in Hosting => /\ q.ep = infra[e].ep
                           /\ infra[e].pc \in Hosting \/ (Reachable(e) /\ home.pvc = "bound")
    /\ q.pc \in Making => \/ q.n = 1
                          \/ infra[e].pc \in Making /\ q.n = infra[e].n
                          \/ infra[e].pc \in Making /\ q.n = infra[e].n + 1
                             /\ infra[e].n < Len(MyGKEs(e))

\* Where an action takes the handler of e.
Moves(e, q) ==
    /\ Set(e, q)
    /\ q \in Handler
    /\ Fits(q, network', account', policy')
    /\ \A n \in Nat : Past(infra[e], n) => Past(q, n)
    /\ Keeps(e, q)

USE DEF Begun, Connected, Granting, Making, Hosting, Using

LEMMA GrantsFacts == /\ \A n \in Grants : n \in Nat /\ n >= 1 /\ n <= NRoles + 1
                     /\ 1 \in Grants /\ NRoles \in Nat
                     /\ \A n \in Nat : n >= 1 /\ n <= NRoles + 1 => n \in Grants
                     /\ Grants \subseteq Nat
  BY ProvisioningAssumption DEF Grants

LEMMA Grows == ASSUME NEW r \in Handler, Fits(r, network, account, policy), Grown
               PROVE  Fits(r, network', account', policy')
  BY DEF Fits, Grown

LEMMA OverFits == ASSUME NEW r \in Handler, NEW net, NEW acc, NEW pol
                  PROVE  /\ [r EXCEPT !.pc = "over"] \in Handler
                         /\ Fits([r EXCEPT !.pc = "over"], net, acc, pol)
                         /\ \A n \in Nat : Past([r EXCEPT !.pc = "over"], n)
                         /\ [r EXCEPT !.pc = "over"].pc = "over"
                         /\ [r EXCEPT !.pc = "over"].ep = r.ep
  <1>1. [r EXCEPT !.pc = "over"] \in Handler
    BY DEF Handler, Pcs
  <1>2. [r EXCEPT !.pc = "over"].pc = "over" /\ [r EXCEPT !.pc = "over"].ep = r.ep
    BY DEF Handler
  <1> QED BY <1>1, <1>2 DEF Fits, Past

LEMMA FailedMoves == ASSUME HandlersFit, NEW e \in Executions, Failed(e)
                     PROVE  \E q : Moves(e, q)
  <1>1. infra[e] \in Handler
    BY DEF HandlersFit
  <1> QED BY <1>1, OverFits DEF Failed, Goto, Moves, Keeps

\* An answer takes the handler where the workflow wants it, or ends it.
LEMMA AnsweredMoves ==
  ASSUME NEW e \in Executions, NEW r \in Handler, Answered(e, r),
         Fits(r, network', account', policy'),
         \A n \in Nat : Past(infra[e], n) => Past(r, n), Keeps(e, r)
  PROVE  \E q : Moves(e, q)
  <1>1. CASE Provisions(e)
    BY <1>1 DEF Answered, Moves
  <1>2. CASE ~Provisions(e)
    BY <1>2, OverFits DEF Answered, Moves, Keeps
  <1> QED BY <1>1, <1>2

LEMMA GotoType == ASSUME NEW r \in Handler, NEW pc \in Pcs
                  PROVE  /\ [r EXCEPT !.pc = pc] \in Handler
                         /\ [r EXCEPT !.pc = pc].pc = pc
                         /\ [r EXCEPT !.pc = pc].n = r.n
                         /\ [r EXCEPT !.pc = pc].ep = r.ep
  BY DEF Handler

LEMMA CopyType == ASSUME NEW r \in Handler, NEW c \in SUBSET Grants
  PROVE  /\ [r EXCEPT !.copy = c] \in Handler
         /\ [r EXCEPT !.copy = c].pc = r.pc /\ [r EXCEPT !.copy = c].n = r.n
         /\ [r EXCEPT !.copy = c].ep = r.ep
  BY DEF Handler

LEMMA OpsType == ASSUME NEW r \in Handler, NEW o \in SUBSET Nat
  PROVE  /\ [r EXCEPT !.ops = o] \in Handler
         /\ [r EXCEPT !.ops = o].pc = r.pc /\ [r EXCEPT !.ops = o].n = r.n
         /\ [r EXCEPT !.ops = o].ep = r.ep
  BY DEF Handler

LEMMA SomePcs == {"policy.get", "policy.set", "gke.get", "check", "sc"} \subseteq Pcs
  BY DEF Pcs

LEMMA OneMore == \A n \in Nat : n + 1 \in Nat
  OBVIOUS

\* The next cluster of the list, or the check after the last.
LEMMA ClusterDoneMoves ==
  ASSUME NEW e \in Executions, NEW r \in Handler, infra[e].pc \in Making,
         infra[e].n \in Nat, r.pc = infra[e].pc, r.n = infra[e].n,
         r.ep = infra[e].ep, ClusterDone(e, r),
         Fits(infra[e], network', account', policy')
  PROVE  \E q : Moves(e, q)
  <1>1. CASE /\ Set(e, [r EXCEPT !.pc = "gke.get", !.n = @ + 1])
             /\ infra[e].n < Len(MyGKEs(e))
    <2> DEFINE q == [r EXCEPT !.pc = "gke.get", !.n = r.n + 1]
    <2>1. q \in Handler /\ q.pc = "gke.get" /\ q.n = infra[e].n + 1 /\ q.ep = infra[e].ep
      BY SomePcs, OneMore DEF Handler
    <2>2. Set(e, q)
      BY <1>1
    <2> HIDE DEF q
    <2>3. Fits(q, network', account', policy') /\ \A n \in Nat : Past(infra[e], n) => Past(q, n)
      BY <2>1 DEF Fits, Past
    <2>4. Keeps(e, q)
      BY <1>1, <2>1 DEF Keeps
    <2> QED BY <2>1, <2>2, <2>3, <2>4 DEF Moves
  <1>2. CASE Answered(e, [r EXCEPT !.pc = "check", !.n = 1])
    <2> DEFINE q == [r EXCEPT !.pc = "check", !.n = 1]
    <2>1. q \in Handler /\ q.pc = "check" /\ q.ep = infra[e].ep
      BY SomePcs, OneMore DEF Handler
    <2>2. Answered(e, q)
      BY <1>2
    <2> HIDE DEF q
    <2>3. Fits(q, network', account', policy') /\ Keeps(e, q) /\ \A n \in Nat : Past(q, n)
      BY <2>1 DEF Fits, Past, Keeps
    <2> QED BY <2>1, <2>2, <2>3, AnsweredMoves
  <1> QED BY <1>1, <1>2 DEF ClusterDone

\* The role is granted before the handler goes on.
LEMMA PolicySetMoves ==
  ASSUME NEW e \in Executions, infra[e] \in Handler, PolicySet(e), policy \subseteq Grants,
         policy' \subseteq Grants,
         Fits(infra[e], network, account, policy), Fits(infra[e], network', account', policy')
  PROVE  \E q : Moves(e, q)
  <1> DEFINE m == infra[e].n
  <1> DEFINE r == [infra[e] EXCEPT !.copy = {}]
  <1>0. m \in Nat
    BY DEF Handler
  <1>1. r \in Handler /\ r.n = m /\ m \in Nat /\ r.ep = infra[e].ep
    BY <1>0, CopyType
  <1>2. infra[e].pc = "policy.set"
    BY DEF PolicySet, At
  <1>3. Failed(e) \/ (policy' = policy \cup {m} /\ RoleDone(e))
    BY DEF PolicySet
  <1>4. /\ m \in Grants /\ 1..(m - 1) \subseteq policy
        /\ network' # "absent" /\ account'
    BY <1>2 DEF Fits
  <1>5. CASE Failed(e)
    <2>1. Set(e, [infra[e] EXCEPT !.pc = "over"])
      BY <1>5 DEF Failed, Goto
    <2> QED BY <2>1, OverFits DEF Moves, Keeps
  <1>6. ASSUME policy' = policy \cup {m}, RoleDone(e)  PROVE \E q : Moves(e, q)
    <2> DEFINE more == [r EXCEPT !.pc = "policy.get", !.n = r.n + 1]
    <2> DEFINE last == [r EXCEPT !.pc = "gke.get", !.n = 1]
    <2>1. /\ more \in Handler /\ more.pc = "policy.get" /\ more.n = m + 1
          /\ last \in Handler /\ last.pc = "gke.get" /\ last.n = 1
          /\ more.ep = infra[e].ep /\ last.ep = infra[e].ep
      <3>1. m + 1 \in Nat /\ 1 \in Nat
        BY <1>1
      <3>2. r.n + 1 = m + 1
        BY <1>1
      <3> HIDE DEF r
      <3> QED BY <1>1, <3>1, <3>2, SomePcs DEF Handler
    <2>2. IF m < NRoles THEN Set(e, more)
          ELSE Answered(e, IF m = NRoles THEN more ELSE last)
      BY <1>1, <1>6 DEF RoleDone
    <2> HIDE DEF more, last, r
    <2>3. 1..m \subseteq policy'
      BY <1>1, <1>4, <1>6
    <2>4. \A n \in Nat : ~Past(infra[e], n)
      BY <1>2 DEF Past
    <2>10. Keeps(e, more) /\ Keeps(e, last)
      BY <2>1 DEF Keeps
    <2>5. m <= NRoles => Fits(more, network', account', policy')
      <3>1. m <= NRoles => m + 1 \in Grants
        BY <1>1, GrantsFacts
      <3>2. 1..((m + 1) - 1) = 1..m
        BY <1>1
      <3> QED BY <1>4, <2>1, <2>3, <3>1, <3>2 DEF Fits
    <2>6. ~(m <= NRoles) => Fits(last, network', account', policy')
      <3>1. ~(m <= NRoles) => m = NRoles + 1
        BY <1>1, <1>4, GrantsFacts
      <3>2. ~(m <= NRoles) => Grants \subseteq policy'
        BY <2>3, <3>1 DEF Grants
      <3> QED BY <1>4, <2>1, <3>2 DEF Fits
    <2>7. CASE m < NRoles
      <3>1. m <= NRoles
        BY <1>1, <2>7, GrantsFacts
      <3> QED BY <2>1, <2>2, <2>4, <2>5, <2>7, <2>10, <3>1 DEF Moves
    <2>8. CASE m = NRoles
      <3>1. m <= NRoles /\ ~(m < NRoles)
        BY <1>1, <2>8, GrantsFacts
      <3>2. Answered(e, more)
        BY <2>2, <2>8, <3>1
      <3> QED BY <2>1, <2>4, <2>5, <2>10, <3>1, <3>2, AnsweredMoves
    <2>9. CASE ~(m <= NRoles)
      <3>1. ~(m < NRoles) /\ m # NRoles
        BY <1>1, <2>9, GrantsFacts
      <3>2. Answered(e, last)
        BY <2>2, <3>1
      <3> QED BY <2>1, <2>4, <2>6, <2>9, <2>10, <3>2, AnsweredMoves
    <2> QED BY <1>1, <2>7, <2>8, <2>9, GrantsFacts
  <1> QED BY <1>3, <1>5, <1>6

\* Every handler, and every failure of one, moves it on.
LEMMA HandleMoves ==
  ASSUME CloudTypes, HandlersFit, Grown, NEW e \in Executions, Handle(e) \/ Fail(e)
  PROVE  \E q : Moves(e, q)
  <1>0. /\ infra[e] \in Handler
        /\ Fits(infra[e], network, account, policy)
        /\ Fits(infra[e], network', account', policy')
        /\ infra[e].n \in Nat
    <2>1. infra[e] \in Handler /\ Fits(infra[e], network, account, policy)
      BY DEF HandlersFit
    <2>2. Fits(infra[e], network', account', policy')
      BY <2>1, Grows
    <2>3. infra[e].n \in Nat
      BY <2>1 DEF Handler
    <2> QED BY <2>1, <2>2, <2>3
  <1>1. Failed(e) => \E q : Moves(e, q)
    BY FailedMoves
  \* The next handler, on the same number.
  <1>2. ASSUME NEW pc \in Pcs, Answer(e, pc) \/ Goto(e, pc),
               Fits([infra[e] EXCEPT !.pc = pc], network', account', policy'),
               \A n \in Nat : Past(infra[e], n) => Past([infra[e] EXCEPT !.pc = pc], n),
               Keeps(e, [infra[e] EXCEPT !.pc = pc])
        PROVE  \E q : Moves(e, q)
    <2>1. [infra[e] EXCEPT !.pc = pc] \in Handler
      BY <1>0, GotoType
    <2>2. CASE Answer(e, pc)
      BY <1>2, <2>1, <2>2, AnsweredMoves DEF Answer
    <2>3. CASE Goto(e, pc)
      BY <1>2, <2>1, <2>3 DEF Goto, Moves
    <2> QED BY <1>2, <2>2, <2>3
  <1>3. \A pc \in Pcs : /\ [infra[e] EXCEPT !.pc = pc].pc = pc
                        /\ [infra[e] EXCEPT !.pc = pc].n = infra[e].n
                        /\ [infra[e] EXCEPT !.pc = pc].ep = infra[e].ep
    BY <1>0, GotoType
  \* From one handler to the next, where both ask for the same.
  <1>4. ASSUME NEW pc \in Using, infra[e].pc \in Using, Answer(e, pc) \/ Goto(e, pc),
               pc \in Hosting =>
               infra[e].pc \in Hosting \/ (Reachable(e) /\ home.pvc = "bound")
        PROVE  \E q : Moves(e, q)
    BY <1>0, <1>2, <1>3, <1>4 DEF Fits, Past, Pcs, Keeps
  <1>5. ASSUME NEW pc \in Begun \cup Connected, infra[e].pc \in Begun \cup Connected,
               Answer(e, pc) \/ Goto(e, pc),
               pc \in Connected => network' # "absent"
        PROVE  \E q : Moves(e, q)
    BY <1>0, <1>2, <1>3, <1>5 DEF Fits, Past, Pcs, Keeps
  <1>6. CASE Fail(e)
    BY <1>1, <1>6 DEF Fail
  <1>7. CASE Build(e) \/ VpcGet(e) \/ VpcInsert(e) \/ VpcWait(e)
    BY <1>0, <1>1, <1>5, <1>7 DEF Build, VpcGet, VpcInsert, VpcWait, At, Fits, Grown
  <1>8. CASE SaGet(e) \/ SaCreate(e)
    <2>1. ASSUME account', infra[e].pc \in {"sa.get", "sa.create"}, Goto(e, "policy.get")
          PROVE  \E q : Moves(e, q)
      BY <1>0, <1>2, <1>3, <2>1, GrantsFacts DEF Fits, Past, Pcs, Keeps
    <2> QED BY <1>0, <1>1, <1>5, <1>8, <2>1 DEF SaGet, SaCreate, At, Fits, Grown
  <1>9. CASE PolicyGet(e)
    <2> DEFINE q == [infra[e] EXCEPT !.pc = "policy.set", !.copy = policy]
    <2>1. q \in Handler /\ q.pc = "policy.set" /\ q.n = infra[e].n /\ q.ep = infra[e].ep
      BY <1>0, SomePcs DEF CloudTypes, Handler
    <2>2. Set(e, q) /\ infra[e].pc = "policy.get"
      BY <1>9 DEF PolicyGet, At
    <2> HIDE DEF q
    <2>3. Fits(q, network', account', policy')
      BY <1>0, <2>1, <2>2 DEF Fits
    <2> QED BY <1>0, <2>1, <2>2, <2>3 DEF Moves, Past, Keeps
  <1>10. CASE PolicySet(e)
    BY <1>0, <1>1, <1>10, PolicySetMoves DEF CloudTypes, Grown
  <1>11. CASE GkeGet(e)
    <2>1. infra[e].pc = "gke.get"
      BY <1>11 DEF GkeGet, At
    <2>2. CASE Goto(e, "gke.create")
      BY <1>0, <1>2, <1>3, <2>1, <2>2 DEF Fits, Past, Pcs, Keeps
    <2>3. CASE ClusterDone(e, infra[e])
      BY <1>0, <2>1, <2>3, ClusterDoneMoves
    <2> QED BY <1>11, <2>2, <2>3 DEF GkeGet
  <1>12. CASE GkeCreate(e)
    <2> DEFINE r == [infra[e] EXCEPT !.ops = @ \cup {infra[e].n}]
    <2>1. infra[e].pc = "gke.create"
      BY <1>12 DEF GkeCreate, At
    <2>2. infra[e].ops \cup {infra[e].n} \in SUBSET Nat
      BY <1>0 DEF Handler
    <2>3. r \in Handler /\ r.pc = infra[e].pc /\ r.n = infra[e].n /\ r.ep = infra[e].ep
      BY <1>0, <2>2, OpsType
    <2>4. Failed(e) \/ ClusterDone(e, r)
      BY <1>12 DEF GkeCreate
    <2> HIDE DEF r
    <2> QED BY <1>0, <1>1, <2>1, <2>3, <2>4, ClusterDoneMoves
  <1>13. CASE ClusterInfo(e)
    <2>1. infra[e].pc = "info"
      BY <1>13 DEF ClusterInfo, At
    <2>2. CASE Failed(e)
      BY <1>1, <2>2
    <2>3. ASSUME NEW ep \in Endpoints(Home),
                 Answered(e, [infra[e] EXCEPT !.pc = "sc", !.ep = ep])
          PROVE  \E q : Moves(e, q)
      <3> DEFINE q == [infra[e] EXCEPT !.pc = "sc", !.ep = ep]
      <3>1. ep \in Makers \cup {None}
        BY ProvisioningAssumption DEF Endpoints, CloudTypes, Cluster
      <3>2. q \in Handler /\ q.pc = "sc" /\ q.n = infra[e].n /\ q.ep = ep
        BY <1>0, <3>1, SomePcs DEF Handler
      <3>3. Answered(e, q)
        BY <2>3
      <3> HIDE DEF q
      <3>4. Fits(q, network', account', policy') /\ \A n \in Nat : Past(q, n)
        BY <1>0, <2>1, <3>2 DEF Fits, Past
      <3>5. Keeps(e, q)
        BY <3>2 DEF Keeps, Endpoints
      <3> QED BY <3>2, <3>3, <3>4, <3>5, AnsweredMoves
    <2> QED BY <1>13, <2>2, <2>3 DEF ClusterInfo
  <1>14. CASE CheckClusters(e) \/ PVCStatus(e)
    BY <1>1, <1>4, <1>14 DEF CheckClusters, PVCStatus, At
  <1>15. CASE ApplyStorageClass(e) \/ ApplyPVC(e) \/ ApplyCRD(e) \/ ApplyOperator(e)
    BY <1>1, <1>4, <1>15 DEF ApplyStorageClass, ApplyPVC, ApplyCRD, ApplyOperator, Apply, At
  <1>16. CASE PtOperatorStatus(e)
    <2>1. Goto(e, "over")
      BY <1>16 DEF PtOperatorStatus, Failed
    <2> QED BY <1>0, <2>1, OverFits DEF Goto, Moves, Keeps
  <1> QED BY <1>6, <1>7, <1>8, <1>9, <1>10, <1>11, <1>12, <1>13, <1>14, <1>15, <1>16
          DEF Handle

LEMMA InfraStep ==
  ASSUME CloudTypes, HandlersFit, Grown, [Next]_vars
  PROVE  UNCHANGED infra \/ \E e \in Executions : (Handle(e) \/ Fail(e)) /\ \E q : Moves(e, q)
  <1>1. ASSUME NEW e \in Executions, Handle(e) \/ Fail(e)
        PROVE  \E q : Moves(e, q)
    BY <1>1, HandleMoves
  <1>2. ASSUME NEW e \in Executions, ApplyTask(e) \/ GiveUp(e)
        PROVE  UNCHANGED infra
    BY <1>2 DEF ApplyTask, GiveUp
  <1>3. CASE Transact
    BY <1>3 DEF Transact
  <1>4. CASE Cloud
    BY <1>4 DEF Cloud, NetworkReady, PVCBound, OperatorReplicated, ClusterProvisioned,
       ClusterGone, SetHome, SetCluster
  <1>5. ASSUME NEW d \in Destroyers, Destroy(d)  PROVE UNCHANGED infra
    BY <1>5 DEF Destroy, DestroyStart, DestroyGet, DestroyDelete, DestroyFails
  <1> QED BY <1>1, <1>2, <1>3, <1>4, <1>5 DEF Next, vars

LEMMA HandlersFitStep ==
  ASSUME CloudTypes, HandlersFit, Grown, [Next]_vars
  PROVE  HandlersFit'
  <1>1. CASE UNCHANGED infra
    BY <1>1, Grows DEF HandlersFit
  <1>2. ASSUME NEW e \in Executions, NEW q, Moves(e, q)
        PROVE  HandlersFit'
    <2>1. /\ infra' = [infra EXCEPT ![e] = q] /\ q \in Handler
          /\ Fits(q, network', account', policy')
      BY <1>2 DEF Moves, Set
    <2>2. infra' \in [Executions -> Handler]
      BY <2>1 DEF HandlersFit
    <2>3. ASSUME NEW f \in Executions  PROVE Fits(infra'[f], network', account', policy')
      <3>1. infra'[f] = IF f = e THEN q ELSE infra[f]
        BY <2>1 DEF HandlersFit
      <3>2. Fits(infra[f], network', account', policy')
        BY Grows DEF HandlersFit
      <3> QED BY <2>1, <3>1, <3>2
    <2> QED BY <2>2, <2>3 DEF HandlersFit
  <1> QED BY <1>1, <1>2, InfraStep

\* The network, the account and the roles only ever grow, one at a time.
LEMMA CloudGrows ==
  ASSUME CloudTypes, HandlersFit, [Next]_vars
  PROVE  Grown /\ CloudTypes'
  <1>0. /\ \A l \in Locations : clusters[l].state \in ClusterStates
        /\ \A l \in Locations : clusters[l].made \in Makers \cup {None}
    BY DEF CloudTypes, Cluster
  <1>1. CASE UNCHANGED <<network, account, policy, clusters>>
    BY <1>1 DEF CloudTypes, Grown
  <1>2. ASSUME NEW e \in Executions, Handle(e) \/ Fail(e) \/ GiveUp(e) \/ ApplyTask(e)
        PROVE  Grown /\ CloudTypes'
    <2>1. CASE Fail(e) \/ GiveUp(e) \/ ApplyTask(e)
      BY <1>1, <2>1 DEF Fail, GiveUp, ApplyTask, cloudVars
    <2>2. CASE Build(e) \/ VpcGet(e) \/ VpcWait(e) \/ SaGet(e) \/ PolicyGet(e) \/ GkeGet(e)
      BY <1>1, <2>2 DEF Build, VpcGet, VpcWait, SaGet, PolicyGet, GkeGet, cloudVars
    <2>3. CASE CheckClusters(e) \/ ClusterInfo(e) \/ PVCStatus(e) \/ PtOperatorStatus(e)
      BY <1>1, <2>3 DEF CheckClusters, ClusterInfo, PVCStatus, PtOperatorStatus, cloudVars
    <2>4. CASE ApplyStorageClass(e) \/ ApplyPVC(e) \/ ApplyCRD(e) \/ ApplyOperator(e)
      BY <1>1, <2>4 DEF ApplyStorageClass, ApplyPVC, ApplyCRD, ApplyOperator, Apply
    <2>5. CASE VpcInsert(e)
      BY <2>5 DEF VpcInsert, CloudTypes, Grown
    <2>6. CASE SaCreate(e)
      BY <2>6 DEF SaCreate, CloudTypes, Grown
    <2>7. CASE PolicySet(e)
      <3>1. infra[e].n \in Grants
        BY <2>7 DEF PolicySet, At, HandlersFit, Fits
      <3> QED BY <2>7, <3>1 DEF PolicySet, CloudTypes, Grown
    <2>8. CASE GkeCreate(e)
      <3>1. infra[e].n \in Nat
        BY DEF HandlersFit, Handler
      <3>2. Creating(e, infra[e].n) \in Cluster
        BY <3>1 DEF Creating, Cluster, ClusterStates, Makers
      <3>3. clusters' \in [Locations -> Cluster]
        BY <2>8, <3>2 DEF GkeCreate, CloudTypes
      <3> QED BY <2>8, <3>3 DEF GkeCreate, CloudTypes, Grown
    <2> QED BY <1>2, <2>1, <2>2, <2>3, <2>4, <2>5, <2>6, <2>7, <2>8 DEF Handle
  <1>3. CASE Transact
    BY <1>1, <1>3 DEF Transact, cloudVars
  <1>4. CASE Cloud
    <2>1. CASE NetworkReady
      BY <2>1 DEF NetworkReady, CloudTypes, Grown
    <2>2. CASE PVCBound \/ OperatorReplicated
      BY <1>1, <2>2 DEF PVCBound, OperatorReplicated, SetHome
    <2>3. ASSUME NEW l \in Locations, ClusterProvisioned(l)  PROVE Grown /\ CloudTypes'
      <3>1. \A s \in {"running", "error"} : [clusters[l] EXCEPT !.state = s] \in Cluster
        BY DEF CloudTypes, Cluster, ClusterStates
      <3> QED BY <2>3, <3>1 DEF ClusterProvisioned, SetCluster, CloudTypes, Grown
    <2>4. ASSUME NEW l \in Locations, ClusterGone(l)  PROVE Grown /\ CloudTypes'
      <3>1. NoCluster \in Cluster
        BY DEF NoCluster, Cluster, ClusterStates
      <3> QED BY <2>4, <3>1 DEF ClusterGone, SetCluster, CloudTypes, Grown
    <2> QED BY <1>4, <2>1, <2>2, <2>3, <2>4 DEF Cloud
  <1>5. ASSUME NEW d \in Destroyers, Destroy(d)  PROVE Grown /\ CloudTypes'
    <2>1. CASE (\E t \in Tasks : DestroyStart(d, t)) \/ DestroyGet(d) \/ DestroyFails(d)
      BY <1>1, <2>1 DEF DestroyStart, DestroyGet, DestroyFails, cloudVars
    <2>2. CASE DestroyDelete(d)
      <3>1. \A l \in Locations : [clusters[l] EXCEPT !.state = "stopping"] \in Cluster
        BY DEF CloudTypes, Cluster, ClusterStates
      <3>2. clusters' \in [Locations -> Cluster]
        BY <2>2, <3>1 DEF DestroyDelete, CloudTypes
      <3> QED BY <2>2, <3>2 DEF DestroyDelete, CloudTypes, Grown
    <2> QED BY <1>5, <2>1, <2>2 DEF Destroy
  <1> QED BY <1>1, <1>2, <1>3, <1>4, <1>5 DEF Next, vars, cloudVars

\* An execution past its provisioning has had all its roles granted.
Waited(e) == execution[e].step \in Tx!Waiting \cup {"done"}

StepsGranted == \A e \in Executions : Waited(e) => Grants \subseteq policy

\* A cluster that is there has what it is created with.
Equipped == \A l \in Locations :
    clusters[l].state # "absent" => network # "absent" /\ account /\ Grants \subseteq policy

CloudInv == TxInv /\ CloudTypes /\ HandlersFit /\ StepsGranted /\ Equipped

LEMMA HandlerSteps ==
  ASSUME NEW e \in Executions, Handle(e) \/ Fail(e) \/ GiveUp(e)
  PROVE  \/ UNCHANGED execution
         \/ Tx!Step(e, "aborted")
         \/ Tx!Step(e, "apply") /\ infra[e].pc = "operator.status"
  <1>1. Failed(e) => UNCHANGED execution \/ Tx!Step(e, "aborted")
    BY DEF Failed
  <1>2. CASE Fail(e) \/ GiveUp(e)
    BY <1>1, <1>2 DEF Fail, GiveUp
  <1>3. CASE Build(e) \/ VpcGet(e) \/ VpcWait(e) \/ SaGet(e) \/ PolicyGet(e) \/ GkeGet(e)
             \/ CheckClusters(e)
    BY <1>3 DEF Build, VpcGet, VpcWait, SaGet, PolicyGet, GkeGet, CheckClusters
  <1>4. CASE VpcInsert(e) \/ SaCreate(e) \/ PolicySet(e) \/ GkeCreate(e) \/ ClusterInfo(e)
             \/ PVCStatus(e)
    BY <1>1, <1>4 DEF VpcInsert, SaCreate, PolicySet, GkeCreate, ClusterInfo, PVCStatus
  <1>5. CASE ApplyStorageClass(e) \/ ApplyPVC(e) \/ ApplyCRD(e) \/ ApplyOperator(e)
    BY <1>1, <1>5 DEF ApplyStorageClass, ApplyPVC, ApplyCRD, ApplyOperator, Apply
  <1>6. CASE PtOperatorStatus(e)
    BY <1>1, <1>6 DEF PtOperatorStatus, At
  <1> QED BY <1>2, <1>3, <1>4, <1>5, <1>6 DEF Handle

\* Only the last handler takes an execution past its provisioning.
LEMMA WaitedStep ==
  ASSUME TxInv, [Next]_vars, NEW e \in Executions, Waited(e)'
  PROVE  Waited(e) \/ infra[e].pc = "operator.status"
  <1>0. /\ execution \in [Executions -> [task : Tasks \cup {None}, step : Tx!Steps]]
        /\ call \in [Tx!Calls -> Tx!Call]
        /\ \A f \in Executions : execution[f].step \in {"none", "record", "provision"}
                                 => call[f].pc = "idle"
    BY TxInvTypes DEF TxInv, Quiet, Tx!TypeOK
  <1>1. \A f \in Executions : UNCHANGED execution => (Waited(f)' <=> Waited(f))
    BY DEF Waited
  <1>2. ASSUME NEW f \in Executions, NEW s, Tx!Step(f, s),
               s \in {"provision", "aborted"} \/ Waited(f)
        PROVE  Waited(e)
    <2>1. execution'[e].step = IF e = f THEN s ELSE execution[e].step
      BY <1>0, <1>2 DEF Tx!Step
    <2> QED BY <1>2, <2>1 DEF Waited, Tx!Waiting
  <1>3. ASSUME NEW f \in Executions, Handle(f) \/ Fail(f) \/ GiveUp(f)
        PROVE  Waited(e) \/ infra[e].pc = "operator.status"
    <2>1. CASE UNCHANGED execution
      BY <1>1, <2>1
    <2>2. CASE Tx!Step(f, "aborted")
      BY <1>2, <2>2
    <2>3. CASE Tx!Step(f, "apply") /\ infra[f].pc = "operator.status"
      <3>1. e # f => execution'[e] = execution[e]
        BY <1>0, <2>3 DEF Tx!Step
      <3> QED BY <2>3, <3>1 DEF Waited
    <2> QED BY <1>3, <2>1, <2>2, <2>3, HandlerSteps
  <1>4. ASSUME NEW f \in Executions, NEW t \in Tasks, Tx!StartExecution(f, t)
        PROVE  Waited(e)
    <2>1. execution'[e] = IF e = f THEN [task |-> t, step |-> "record"] ELSE execution[e]
      BY <1>0, <1>4 DEF Tx!StartExecution
    <2> QED BY <2>1 DEF Waited, Tx!Waiting
  <1>5. ASSUME NEW f \in Executions, Tx!RecordWorkflow(f) \/ Tx!GiveUp(f)
        PROVE  Waited(e)
    BY <1>2, <1>5 DEF Tx!RecordWorkflow, Tx!GiveUp
  <1>6. ASSUME NEW f \in Executions,
               Tx!PreparenApplyPtTask(f) \/ Tx!CreateDashboard(f) \/ Tx!UpdateWorkflowStatus(f)
        PROVE  Waited(e)
    BY <1>1, <1>2, <1>6
    DEF Tx!PreparenApplyPtTask, Tx!CreateDashboard, Tx!UpdateWorkflowStatus
  <1>7. ASSUME NEW x \in Tx!Calls, Tx!Store(x)  PROVE Waited(e)
    <2>1. ASSUME NEW ok, Tx!Answer(x, ok)  PROVE Waited(e)
      <3>1. \/ UNCHANGED execution
            \/ x \in Executions /\ execution[x].step \in Tx!Waiting
               /\ Tx!Step(x, Tx!Following(execution[x].step, ok))
        BY <1>0, <2>1 DEF Tx!Answer, Tx!Step
      <3> QED BY <1>1, <1>2, <3>1 DEF Waited
    <2>2. CASE Tx!ReadDoc(x) \/ Tx!WriteDoc(x)
      BY <1>1, <2>1, <2>2 DEF Tx!ReadDoc, Tx!WriteDoc
    <2>3. CASE Tx!InstanceStops(x)
      BY <1>1, <1>2, <2>3 DEF Tx!InstanceStops, Tx!Step
    <2> QED BY <1>7, <2>2, <2>3 DEF Tx!Store
  <1>8. CASE Transact
    BY <1>1, <1>4, <1>5, <1>6, <1>7, <1>8
    DEF Transact, Tx!CreatePtTask, Tx!Request, Tx!DeletePtTask, Tx!PublishDestroy,
        Tx!UpdatePtTaskStatus
  <1>9. ASSUME NEW f \in Executions, ApplyTask(f)  PROVE Waited(e)
    BY <1>6, <1>9 DEF ApplyTask
  <1>10. CASE Cloud
    BY <1>1, <1>10 DEF Cloud, NetworkReady, PVCBound, OperatorReplicated,
       ClusterProvisioned, ClusterGone, SetHome, SetCluster, txVars
  <1>11. ASSUME NEW d \in Destroyers, Destroy(d)  PROVE Waited(e)
    BY <1>1, <1>11
    DEF Destroy, DestroyStart, DestroyGet, DestroyDelete, DestroyFails, txVars
  <1>12. CASE UNCHANGED vars
    BY <1>1, <1>12 DEF vars, txVars
  <1> QED BY <1>3, <1>8, <1>9, <1>10, <1>11, <1>12 DEF Next

LEMMA StepsGrantedStep ==
  ASSUME TxInv, HandlersFit, StepsGranted, Grown, [Next]_vars
  PROVE  StepsGranted'
  <1> SUFFICES ASSUME NEW e \in Executions, Waited(e)'  PROVE Grants \subseteq policy'
    BY DEF StepsGranted
  <1>1. Waited(e) \/ infra[e].pc = "operator.status"
    BY WaitedStep
  <1>2. Grants \subseteq policy
    BY <1>1 DEF StepsGranted, HandlersFit, Fits
  <1> QED BY <1>2 DEF Grown

\* Which clusters a step may change, and how.
LEMMA ClustersStep ==
  ASSUME CloudTypes, [Next]_vars, NEW l \in Locations
  PROVE  \/ clusters'[l] = clusters[l]
         \/ /\ clusters[l].state # "absent"
            /\ \/ clusters'[l].state # "absent" /\ clusters'[l].made = clusters[l].made
               \/ ClusterGone(l) /\ clusters'[l] = NoCluster
         \/ \E e \in Executions : /\ GkeCreate(e) /\ infra[e].pc = "gke.create"
                                  /\ clusters'[l] = Creating(e, infra[e].n)
  <1>0. clusters[l] \in Cluster /\ clusters \in [Locations -> Cluster]
    BY DEF CloudTypes
  <1>1. CASE UNCHANGED clusters
    BY <1>1
  <1>2. ASSUME NEW e \in Executions, GkeCreate(e), ~UNCHANGED clusters
        PROVE  clusters'[l] = clusters[l] \/ clusters'[l] = Creating(e, infra[e].n)
    <2>1. clusters' = [clusters EXCEPT ![Location(e)] = Creating(e, infra[e].n)]
      BY <1>2 DEF GkeCreate
    <2> QED BY <1>0, <2>1
  <1>3. ASSUME NEW e \in Executions, Handle(e) \/ Fail(e) \/ GiveUp(e) \/ ApplyTask(e)
        PROVE  UNCHANGED clusters \/ GkeCreate(e)
    <2>1. CASE Fail(e) \/ GiveUp(e) \/ ApplyTask(e)
      BY <2>1 DEF Fail, GiveUp, ApplyTask, cloudVars
    <2>2. CASE Handle(e)
      BY <2>2 DEF Handle, Build, VpcGet, VpcInsert, VpcWait, SaGet, SaCreate, PolicyGet,
         PolicySet, GkeGet, CheckClusters, ClusterInfo, ApplyStorageClass, ApplyPVC,
         PVCStatus, ApplyCRD, ApplyOperator, Apply, PtOperatorStatus, cloudVars
    <2> QED BY <1>3, <2>1, <2>2
  <1>4. CASE Transact
    BY <1>1, <1>4 DEF Transact, cloudVars
  <1>5. CASE Cloud
    <2>1. CASE NetworkReady \/ PVCBound \/ OperatorReplicated
      BY <1>1, <2>1 DEF NetworkReady, PVCBound, OperatorReplicated, SetHome
    <2>2. ASSUME NEW m \in Locations, ClusterProvisioned(m)
          PROVE  \/ clusters'[l] = clusters[l]
                 \/ /\ clusters[l].state # "absent"
                    /\ clusters'[l].state # "absent" /\ clusters'[l].made = clusters[l].made
      <3>1. \A s \in {"running", "error"} :
               /\ [clusters[m] EXCEPT !.state = s].state = s
               /\ [clusters[m] EXCEPT !.state = s].made = clusters[m].made
        BY <1>0 DEF Cluster
      <3>2. PICK s \in {"running", "error"} :
               clusters' = [clusters EXCEPT ![m] = [clusters[m] EXCEPT !.state = s]]
        BY <2>2 DEF ClusterProvisioned, SetCluster
      <3>3. clusters'[l] = IF l = m THEN [clusters[m] EXCEPT !.state = s] ELSE clusters[l]
        BY <1>0, <3>2
      <3> QED BY <2>2, <3>1, <3>3 DEF ClusterProvisioned
    <2>3. ASSUME NEW m \in Locations, ClusterGone(m)
          PROVE  \/ clusters'[l] = clusters[l]
                 \/ clusters[l].state # "absent" /\ ClusterGone(l) /\ clusters'[l] = NoCluster
      BY <1>0, <2>3 DEF ClusterGone, SetCluster
    <2> QED BY <1>5, <2>1, <2>2, <2>3 DEF Cloud
  <1>6. ASSUME NEW d \in Destroyers, Destroy(d)
        PROVE  \/ clusters'[l] = clusters[l]
               \/ /\ clusters[l].state # "absent"
                  /\ clusters'[l].state # "absent" /\ clusters'[l].made = clusters[l].made
    <2>1. CASE UNCHANGED clusters
      BY <2>1
    <2>2. CASE DestroyDelete(d) /\ ~UNCHANGED clusters
      <3>1. /\ clusters[Destroyed(d)].state \in {"running", "error"}
            /\ clusters' = [clusters EXCEPT ![Destroyed(d)].state = "stopping"]
        BY <2>2 DEF DestroyDelete
      <3>2. /\ [clusters[l] EXCEPT !.state = "stopping"].state = "stopping"
            /\ [clusters[l] EXCEPT !.state = "stopping"].made = clusters[l].made
        BY <1>0 DEF Cluster
      <3>3. clusters'[l] = IF l = Destroyed(d) THEN [clusters[l] EXCEPT !.state = "stopping"]
                           ELSE clusters[l]
        BY <1>0, <3>1
      <3> QED BY <3>1, <3>2, <3>3
    <2> QED BY <1>6, <2>1, <2>2
        DEF Destroy, DestroyStart, DestroyGet, DestroyDelete, DestroyFails, cloudVars
  <1>7. ASSUME NEW e \in Executions, GkeCreate(e)
        PROVE  infra[e].pc = "gke.create"
    BY <1>7 DEF GkeCreate, At
  <1> QED BY <1>1, <1>2, <1>3, <1>4, <1>5, <1>6, <1>7 DEF Next, vars, cloudVars

LEMMA EquippedStep ==
  ASSUME CloudTypes, HandlersFit, Equipped, Grown, [Next]_vars
  PROVE  Equipped'
  <1> SUFFICES ASSUME NEW l \in Locations, clusters'[l].state # "absent"
               PROVE  network' # "absent" /\ account' /\ Grants \subseteq policy'
    BY DEF Equipped
  <1>1. CASE clusters[l].state # "absent"
    BY <1>1 DEF Equipped, Grown
  <1>2. ASSUME NEW e \in Executions, infra[e].pc = "gke.create"
        PROVE  network' # "absent" /\ account' /\ Grants \subseteq policy'
    <2>1. Fits(infra[e], network, account, policy)
      BY DEF HandlersFit
    <2> QED BY <1>2, <2>1 DEF Fits, Grown
  <1>3. \/ clusters'[l] = clusters[l] \/ clusters[l].state # "absent"
        \/ \E e \in Executions : infra[e].pc = "gke.create"
    BY ClustersStep
  <1> QED BY <1>1, <1>2, <1>3

LEMMA InitCloudInv == ASSUME Init PROVE CloudInv
  <1>1. TxInv
    BY InitTxInv
  <1>2. CloudTypes
    BY DEF Init, CloudTypes, Cluster, ClusterStates, NoCluster
  <1>3. HandlersFit
    BY DEF Init, HandlersFit, Handler, Pcs, Fits
  <1>4. StepsGranted
    BY DEF Init, Tx!Init, StepsGranted, Waited, Tx!Waiting
  <1>5. Equipped
    BY DEF Init, Equipped, NoCluster
  <1> QED BY <1>1, <1>2, <1>3, <1>4, <1>5 DEF CloudInv

LEMMA CloudInvStep == ASSUME CloudInv, [Next]_vars PROVE CloudInv'
  <1>1. TxInv /\ CloudTypes /\ HandlersFit /\ StepsGranted /\ Equipped
    BY DEF CloudInv
  <1>2. Grown /\ CloudTypes'
    BY <1>1, CloudGrows
  <1> QED BY <1>1, <1>2, StepTxInv, HandlersFitStep, StepsGrantedStep, EquippedStep
          DEF CloudInv

LEMMA SpecCloudInv == Spec => []CloudInv
  <1>1. Init => CloudInv
    BY InitCloudInv
  <1>2. CloudInv /\ [Next]_vars => CloudInv'
    BY CloudInvStep
  <1> QED BY <1>1, <1>2, PTL DEF Spec

\* The policy is read and written back by any number of executions at once; the etag
\* makes a writer that would lose a role of another fail.
THEOREM RolesStay == Spec => []RolesGranted
  <1>1. CloudInv => RolesGranted
    BY DEF CloudInv, HandlersFit, Fits, StepsGranted, Waited, RolesGranted, Granted
  <1> QED BY <1>1, SpecCloudInv, PTL

\* Whoever creates a cluster has seen the network, the account and every role, or made them.
THEOREM EquippedClusters == Spec => []ClustersAreEquipped
  <1>1. CloudInv => ClustersAreEquipped
    BY DEF CloudInv, CloudTypes, Equipped, ClustersAreEquipped
  <1> QED BY <1>1, SpecCloudInv, PTL

-----------------------------------------------------------------------------
(* The volume was seen bound in the cluster that the PtTask is applied to *)

\* The handler that made this cluster is past the place where it did.
Bygone(m) == m = None \/ (m \in Makers /\ Past(infra[m[1]], m[2]))

AllBygone ==
    /\ \A l \in Locations : Bygone(clusters[l].made)
    /\ \A e \in Executions : Bygone(infra[e].ep)

\* An endpoint that leads to the cluster of the day leads to one with the volume bound.
SeenBound ==
    \A e \in Executions :
        infra[e].pc \in Hosting /\ clusters[Home].state # "absent"
        /\ clusters[Home].made = infra[e].ep
        => home.pvc = "bound"

HomeInv ==
    /\ home \in HomeObjects
    /\ home.operator # "absent" => home.pvc = "bound"
    /\ home.tasks # {} => home.operator # "absent"

HostedInv == CloudInv /\ AllBygone /\ SeenBound /\ HomeInv

LEMMA BygoneStep ==
  ASSUME CloudInv, [Next]_vars, NEW m, Bygone(m)
  PROVE  Bygone(m)'
  <1>0. CloudTypes /\ HandlersFit /\ Grown
    BY CloudGrows DEF CloudInv
  <1>1. CASE UNCHANGED infra
    BY <1>1 DEF Bygone
  <1>2. ASSUME NEW e \in Executions, NEW q, Moves(e, q), m \in Makers
        PROVE  Past(infra[m[1]], m[2]) => Past(infra'[m[1]], m[2])
    <2>1. m[1] \in Executions /\ m[2] \in Nat
      BY <1>2 DEF Makers
    <2>2. infra'[m[1]] = IF m[1] = e THEN q ELSE infra[m[1]]
      BY <1>0, <1>2, <2>1 DEF Moves, Set, HandlersFit
    <2> QED BY <1>2, <2>1, <2>2 DEF Moves
  <1> QED BY <1>0, <1>1, <1>2, InfraStep DEF Bygone

\* What becomes of a handler in a step.
LEMMA HandlerStep ==
  ASSUME CloudInv, [Next]_vars, NEW e \in Executions
  PROVE  infra'[e] = infra[e] \/ Keeps(e, infra'[e])
  <1>0. CloudTypes /\ HandlersFit /\ Grown
    BY CloudGrows DEF CloudInv
  <1>1. ASSUME NEW f \in Executions, NEW q, Moves(f, q)
        PROVE  infra'[e] = infra[e] \/ Keeps(e, infra'[e])
    <2>1. infra'[e] = IF e = f THEN q ELSE infra[e]
      BY <1>0, <1>1 DEF Moves, Set, HandlersFit
    <2> QED BY <1>1, <2>1 DEF Moves
  <1> QED BY <1>0, <1>1, InfraStep

\* The maker of a cluster has not been past its place before.
LEMMA MadeStep ==
  ASSUME CloudInv, NEW e \in Executions, GkeCreate(e), infra[e].pc = "gke.create",
         clusters' # clusters
  PROVE  /\ <<e, infra[e].n>> \in Makers
         /\ ~Past(infra[e], infra[e].n)
         /\ Past(infra'[e], infra[e].n)
  <1>0. HandlersFit /\ infra[e] \in Handler /\ infra[e].n \in Nat
    BY DEF CloudInv, HandlersFit, Handler
  <1> DEFINE r == [infra[e] EXCEPT !.ops = @ \cup {infra[e].n}]
  <1>1. r.n = infra[e].n /\ r.pc = "gke.create" /\ r \in Handler
    BY <1>0 DEF Handler
  <1>2. ClusterDone(e, r)
    BY DEF GkeCreate
  <1> HIDE DEF r
  <1>3. CASE Set(e, [r EXCEPT !.pc = "gke.get", !.n = @ + 1])
    <2>1. infra'[e] = [r EXCEPT !.pc = "gke.get", !.n = r.n + 1]
      BY <1>0, <1>3 DEF Set, HandlersFit
    <2>2. infra'[e].pc = "gke.get" /\ infra'[e].n = infra[e].n + 1
      BY <1>1, <2>1 DEF Handler
    <2> QED BY <1>0, <2>2 DEF Past, Makers
  <1>4. CASE Answered(e, [r EXCEPT !.pc = "check", !.n = 1])
    <2> DEFINE q == [r EXCEPT !.pc = "check", !.n = 1]
    <2>1. q.pc = "check" /\ [q EXCEPT !.pc = "over"].pc = "over"
      BY <1>1 DEF Handler
    <2>2. Answered(e, q)
      BY <1>4
    <2> HIDE DEF q
    <2>3. infra'[e] = q \/ infra'[e] = [q EXCEPT !.pc = "over"]
      BY <1>0, <2>2 DEF Answered, Set, HandlersFit
    <2>4. infra'[e].pc \in {"check", "over"}
      BY <2>1, <2>3
    <2>5. <<e, infra[e].n>> \in Makers
      BY <1>0 DEF Makers
    <2>6. ~Past(infra[e], infra[e].n) /\ Past(infra'[e], infra[e].n)
      BY <1>0, <2>4 DEF Past
    <2> QED BY <2>5, <2>6
  <1> QED BY <1>2, <1>3, <1>4 DEF ClusterDone

LEMMA AllBygoneStep == ASSUME CloudInv, AllBygone, [Next]_vars PROVE AllBygone'
  <1>0. CloudTypes /\ HandlersFit /\ Grown
    BY CloudGrows DEF CloudInv
  <1>1. ASSUME NEW l \in Locations  PROVE Bygone(clusters[l].made)'
    <2>1. CASE clusters'[l].made = clusters[l].made \/ clusters'[l].made = None
      <3>1. Bygone(clusters[l].made) /\ Bygone(None)
        BY DEF AllBygone, Bygone
      <3>2. \A m : Bygone(m) => m = None \/ (m \in Makers /\ Past(infra'[m[1]], m[2]))
        BY BygoneStep DEF Bygone
      <3> QED BY <2>1, <3>1, <3>2 DEF Bygone
    <2>2. ASSUME NEW e \in Executions, GkeCreate(e), infra[e].pc = "gke.create",
                 clusters'[l] = Creating(e, infra[e].n), clusters'[l] # clusters[l]
          PROVE  Bygone(clusters[l].made)'
      <3>1. <<e, infra[e].n>> \in Makers /\ Past(infra'[e], infra[e].n)
        BY <2>2, MadeStep
      <3>2. clusters'[l].made = <<e, infra[e].n>>
        BY <2>2 DEF Creating
      <3> QED BY <3>1, <3>2 DEF Bygone
    <2>3. CASE clusters'[l] = clusters[l] \/ clusters'[l] = NoCluster
      BY <2>1, <2>3 DEF NoCluster
    <2> QED BY <1>0, <2>1, <2>2, <2>3, ClustersStep
  <1>2. ASSUME NEW e \in Executions  PROVE Bygone(infra[e].ep)'
    <2>1. infra'[e].ep \in {infra[e].ep, clusters[Home].made, None}
      BY HandlerStep DEF Keeps
    <2>2. Bygone(infra'[e].ep)
      BY <2>1, ProvisioningAssumption DEF AllBygone, Bygone
    <2>3. \A m : Bygone(m) => m = None \/ (m \in Makers /\ Past(infra'[m[1]], m[2]))
      BY BygoneStep DEF Bygone
    <2> QED BY <2>2, <2>3 DEF Bygone
  <1> QED BY <1>1, <1>2 DEF AllBygone

\* A bound volume stays, but for the cluster it is in.
LEMMA HomeStep ==
  ASSUME CloudInv, SeenBound, HomeInv, [Next]_vars
  PROVE  /\ HomeInv'
         /\ home.pvc = "bound" => home'.pvc = "bound" \/ ClusterGone(Home)
  <1>0. home \in HomeObjects
    BY DEF HomeInv
  <1>1. CASE UNCHANGED home
    BY <1>1 DEF HomeInv
  \* A change of one of the four.
  <1>2. ASSUME NEW pvc \in {"absent", "pending", "bound"}, home.pvc = "bound" => pvc = "bound",
               home' = [home EXCEPT !.pvc = pvc]
        PROVE  HomeInv' /\ (home.pvc = "bound" => home'.pvc = "bound")
    BY <1>0, <1>2 DEF HomeInv, HomeObjects
  <1>3. ASSUME NEW operator \in {"absent", "crd", "deployed", "replicated"}, home.pvc = "bound",
               home.operator # "absent" => operator # "absent",
               home' = [home EXCEPT !.operator = operator]
        PROVE  HomeInv' /\ home'.pvc = "bound"
    BY <1>0, <1>3 DEF HomeInv, HomeObjects
  <1>4. ASSUME NEW e \in Executions, Handle(e)
        PROVE  HomeInv' /\ (home.pvc = "bound" => home'.pvc = "bound")
    <2>1. CASE ApplyStorageClass(e)
      <3>1. home' = home \/ home' = [home EXCEPT !.sc = TRUE]
        BY <2>1 DEF ApplyStorageClass, Apply
      <3> QED BY <1>0, <1>1, <3>1 DEF HomeInv, HomeObjects
    <2>2. CASE ApplyPVC(e)
      <3> DEFINE pvc == IF home.pvc = "absent" THEN "pending" ELSE home.pvc
      <3>1. home' = home \/ home' = [home EXCEPT !.pvc = pvc]
        BY <2>2 DEF ApplyPVC, Apply
      <3>2. pvc \in {"absent", "pending", "bound"} /\ (home.pvc = "bound" => pvc = "bound")
        BY <1>0 DEF HomeObjects
      <3> QED BY <1>1, <1>2, <3>1, <3>2
    <2>3. ASSUME infra[e].pc \in Hosting, Reachable(e)  PROVE home.pvc = "bound"
      BY <2>3 DEF SeenBound, Reachable, Serving
    <2>4. CASE ApplyCRD(e)
      <3> DEFINE operator == IF home.operator = "absent" THEN "crd" ELSE home.operator
      <3>1. home' = home \/ (home' = [home EXCEPT !.operator = operator] /\ home.pvc = "bound")
        BY <2>3, <2>4 DEF ApplyCRD, Apply, At
      <3>2. /\ operator \in {"absent", "crd", "deployed", "replicated"}
            /\ operator # "absent"
        BY <1>0 DEF HomeObjects
      <3> QED BY <1>1, <1>3, <3>1, <3>2
    <2>5. CASE ApplyOperator(e)
      <3> DEFINE operator == IF home.operator = "crd" THEN "deployed" ELSE home.operator
      <3>1. home' = home \/ (home' = [home EXCEPT !.operator = operator] /\ home.pvc = "bound")
        BY <2>3, <2>5 DEF ApplyOperator, Apply, At
      <3>2. /\ operator \in {"absent", "crd", "deployed", "replicated"}
            /\ home.operator # "absent" => operator # "absent"
        BY <1>0 DEF HomeObjects
      <3> QED BY <1>1, <1>3, <3>1, <3>2
    <2>6. CASE \/ Build(e) \/ VpcGet(e) \/ VpcInsert(e) \/ VpcWait(e) \/ SaGet(e) \/ SaCreate(e)
               \/ PolicyGet(e) \/ PolicySet(e) \/ GkeGet(e) \/ GkeCreate(e) \/ CheckClusters(e)
               \/ ClusterInfo(e) \/ PVCStatus(e) \/ PtOperatorStatus(e)
      BY <1>1, <2>6
      DEF Build, VpcGet, VpcInsert, VpcWait, SaGet, SaCreate, PolicyGet, PolicySet, GkeGet,
          GkeCreate, CheckClusters, ClusterInfo, PVCStatus, PtOperatorStatus, cloudVars
    <2> QED BY <1>4, <2>1, <2>2, <2>4, <2>5, <2>6 DEF Handle
  <1>5. ASSUME NEW e \in Executions, Fail(e) \/ GiveUp(e)
        PROVE  HomeInv' /\ (home.pvc = "bound" => home'.pvc = "bound")
    BY <1>1, <1>5 DEF Fail, GiveUp, cloudVars
  <1>6. ASSUME NEW e \in Executions, ApplyTask(e)
        PROVE  HomeInv' /\ (home.pvc = "bound" => home'.pvc = "bound")
    <2>1. \/ UNCHANGED home
          \/ home' = [home EXCEPT !.tasks = @ \cup {e}] /\ home.operator # "absent"
      BY <1>6 DEF ApplyTask
    <2>2. ASSUME home' = [home EXCEPT !.tasks = @ \cup {e}], home.operator # "absent"
          PROVE  HomeInv' /\ home'.pvc = home.pvc
      BY <1>0, <2>2 DEF HomeInv, HomeObjects
    <2> QED BY <1>1, <2>1, <2>2
  <1>7. CASE Transact
    BY <1>1, <1>7 DEF Transact, cloudVars
  <1>8. CASE Cloud
    <2>1. CASE NetworkReady
      BY <1>1, <2>1 DEF NetworkReady
    <2>2. CASE PVCBound
      BY <1>2, <2>2 DEF PVCBound, SetHome
    <2>3. CASE OperatorReplicated
      <3>1. home' = [home EXCEPT !.operator = "replicated"] /\ home.operator = "deployed"
        BY <2>3 DEF OperatorReplicated, SetHome
      <3>2. home.pvc = "bound"
        BY <3>1 DEF HomeInv
      <3> QED BY <1>3, <3>1, <3>2
    <2>4. ASSUME NEW l \in Locations, ClusterProvisioned(l)
          PROVE  HomeInv' /\ (home.pvc = "bound" => home'.pvc = "bound")
      BY <1>1, <2>4 DEF ClusterProvisioned
    <2>5. ASSUME NEW l \in Locations, ClusterGone(l)
          PROVE  HomeInv' /\ (home.pvc = "bound" => home'.pvc = "bound" \/ ClusterGone(Home))
      <3>1. CASE l # Home
        BY <1>1, <2>5, <3>1 DEF ClusterGone
      <3>2. CASE l = Home
        <4>1. home' = NoObjects /\ ClusterGone(Home)
          BY <2>5, <3>2 DEF ClusterGone
        <4> QED BY <4>1 DEF HomeInv, NoObjects, HomeObjects
      <3> QED BY <3>1, <3>2
    <2> QED BY <1>8, <2>1, <2>2, <2>3, <2>4, <2>5 DEF Cloud
  <1>9. ASSUME NEW d \in Destroyers, Destroy(d)
        PROVE  HomeInv' /\ (home.pvc = "bound" => home'.pvc = "bound")
    BY <1>1, <1>9
    DEF Destroy, DestroyStart, DestroyGet, DestroyDelete, DestroyFails, cloudVars
  <1>10. CASE UNCHANGED vars
    BY <1>1, <1>10 DEF vars, cloudVars
  <1> QED BY <1>4, <1>5, <1>6, <1>7, <1>8, <1>9, <1>10 DEF Next

\* A cluster created meanwhile has another maker than the endpoint of any handler.
LEMMA SeenBoundStep ==
  ASSUME CloudInv, AllBygone, SeenBound, HomeInv, [Next]_vars
  PROVE  SeenBound'
  <1>0. Home \in Locations /\ CloudTypes
    BY ProvisioningAssumption DEF CloudInv
  <1> SUFFICES ASSUME NEW e \in Executions, infra'[e].pc \in Hosting,
                      clusters'[Home].state # "absent", clusters'[Home].made = infra'[e].ep
               PROVE  home'.pvc = "bound"
    BY DEF SeenBound
  <1>1. infra'[e].ep = infra[e].ep
        /\ (infra[e].pc \in Hosting \/ (Reachable(e) /\ home.pvc = "bound"))
    BY HandlerStep DEF Keeps
  <1>2. CASE clusters'[Home].made = clusters[Home].made /\ clusters[Home].state # "absent"
    <2>1. home.pvc = "bound"
      BY <1>1, <1>2 DEF SeenBound
    <2>2. ~ClusterGone(Home)
      BY <1>0 DEF ClusterGone, SetCluster, CloudTypes, NoCluster
    <2> QED BY <2>1, <2>2, HomeStep
  <1>3. ASSUME NEW f \in Executions, GkeCreate(f), infra[f].pc = "gke.create",
               clusters'[Home] = Creating(f, infra[f].n), clusters'[Home] # clusters[Home]
        PROVE  FALSE
    <2>1. <<f, infra[f].n>> \in Makers /\ ~Past(infra[f], infra[f].n)
      BY <1>3, MadeStep
    <2>2. infra[e].ep = <<f, infra[f].n>>
      BY <1>1, <1>3 DEF Creating
    <2>3. Bygone(infra[e].ep)
      BY DEF AllBygone
    <2>4. Makers = Executions \X Nat
      BY DEF Makers
    <2> QED BY <2>1, <2>2, <2>3, <2>4, ProvisioningAssumption DEF Bygone
  <1>4. clusters'[Home] # NoCluster
    BY DEF NoCluster
  <1> QED BY <1>0, <1>2, <1>3, <1>4, ClustersStep

LEMMA InitHostedInv == ASSUME Init PROVE HostedInv
  <1>1. AllBygone
    BY DEF Init, AllBygone, Bygone, NoCluster
  <1>2. SeenBound
    BY DEF Init, SeenBound
  <1>3. HomeInv
    BY DEF Init, HomeInv, HomeObjects, NoObjects
  <1> QED BY <1>1, <1>2, <1>3, InitCloudInv DEF HostedInv

LEMMA HostedInvStep == ASSUME HostedInv, [Next]_vars PROVE HostedInv'
  BY CloudInvStep, AllBygoneStep, SeenBoundStep, HomeStep DEF HostedInv

LEMMA SpecHostedInv == Spec => []HostedInv
  <1>1. Init => HostedInv
    BY InitHostedInv
  <1>2. HostedInv /\ [Next]_vars => HostedInv'
    BY HostedInvStep
  <1> QED BY <1>1, <1>2, PTL DEF Spec

\* The endpoint was asked for before the volume was seen bound, and leads nowhere once the
\* cluster was destroyed, even if there is another of its name.
THEOREM TaskFindsItsVolume == Spec => []TaskIsHosted
  <1>1. HostedInv => TaskIsHosted
    BY DEF HostedInv, HomeInv, TaskIsHosted
  <1> QED BY <1>1, SpecHostedInv, PTL

-----------------------------------------------------------------------------
(* Types, and the places of the lists *)

DestroyTypes ==
    /\ destroy \in [Destroyers -> [pc   : {"idle", "get", "delete", "over"},
                                  task : Tasks \cup {None}, n : Nat]]
    /\ \A d \in Destroyers :
          destroy[d].pc \in {"get", "delete"} =>
          destroy[d].task \in Tasks /\ destroy[d].n \in DOMAIN GKEs(destroy[d].task)

Unstarted == \A e \in Executions : execution[e].step = "none" => infra[e].pc = "build"

Placed == \A e \in Executions :
             infra[e].pc \in Making => infra[e].n \in DOMAIN MyGKEs(e)

TypeInv == HostedInv /\ DestroyTypes /\ Unstarted /\ Placed

LEMMA Lists ==
  ASSUME NEW t \in Tasks
  PROVE  /\ Len(GKEs(t)) \in Nat /\ DOMAIN GKEs(t) = 1..Len(GKEs(t))
         /\ 1 \in DOMAIN GKEs(t)
  <1>1. Regions[t] \in Seq(Locations) /\ <<Home>> \in Seq(Locations) /\ Len(<<Home>>) = 1
    BY ProvisioningAssumption
  <1>2. GKEs(t) \in Seq(Locations) /\ Len(GKEs(t)) = 1 + Len(Regions[t])
    BY <1>1 DEF GKEs
  <1>3. Len(Regions[t]) \in Nat
    BY <1>1
  <1> QED BY <1>2, <1>3

\* An execution that was started keeps its task, and is not started again.
LEMMA TaskStays ==
  ASSUME TxInv, [Next]_vars, NEW e \in Executions, execution[e].step # "none"
  PROVE  execution'[e].step # "none" /\ execution'[e].task = execution[e].task
  <1>0. execution \in [Executions -> [task : Tasks \cup {None}, step : Tx!Steps]]
    BY TxInvTypes DEF Tx!TypeOK
  <1>1. CASE UNCHANGED execution
    BY <1>1
  <1>2. ASSUME NEW f \in Executions, NEW s, s # "none", execution' = [execution EXCEPT ![f].step = s]
        PROVE  execution'[e].step # "none" /\ execution'[e].task = execution[e].task
    BY <1>0, <1>2
  <1>3. ASSUME NEW f \in Executions, Tx!Workflow(f)
        PROVE  execution'[e].step # "none" /\ execution'[e].task = execution[e].task
    <2>1. CASE \E t \in Tasks : Tx!StartExecution(f, t)
      BY <1>0, <2>1 DEF Tx!StartExecution, Tx!At
    <2> QED BY <1>1, <1>2, <1>3, <2>1
        DEF Tx!Workflow, Tx!RecordWorkflow, Tx!ProvisionResources, Tx!PreparenApplyPtTask,
            Tx!CreateDashboard, Tx!UpdateWorkflowStatus, Tx!GiveUp, Tx!Step
  <1>4. ASSUME NEW x \in Tx!Calls, Tx!Store(x)
        PROVE  execution'[e].step # "none" /\ execution'[e].task = execution[e].task
    <2>1. ASSUME NEW ok, Tx!Answer(x, ok), ~UNCHANGED execution
          PROVE  execution'[e].step # "none" /\ execution'[e].task = execution[e].task
      <3>1. /\ x \in Executions
            /\ execution' = [execution EXCEPT ![x].step = Tx!Following(execution[x].step, ok)]
        BY <2>1 DEF Tx!Answer
      <3>2. Tx!Following(execution[x].step, ok) # "none"
        BY DEF Tx!Following
      <3> QED BY <1>2, <3>1, <3>2
    <2>2. CASE Tx!ReadDoc(x) \/ Tx!WriteDoc(x)
      BY <1>1, <2>1, <2>2 DEF Tx!ReadDoc, Tx!WriteDoc
    <2>3. CASE Tx!InstanceStops(x)
      BY <1>1, <1>2, <2>3 DEF Tx!InstanceStops
    <2> QED BY <1>4, <2>2, <2>3 DEF Tx!Store
  <1>5. CASE (\E t \in Tasks : Tx!CreatePtTask(t)) \/ (\E x \in Requests : Tx!Request(x))
    BY <1>1, <1>5 DEF Tx!CreatePtTask, Tx!Request, Tx!DeletePtTask, Tx!PublishDestroy,
       Tx!UpdatePtTaskStatus
  <1>6. CASE UNCHANGED txVars
    BY <1>1, <1>6 DEF txVars
  <1> QED BY <1>3, <1>4, <1>5, <1>6, StepTx DEF Tx!Next

\* A handler only begins for a workflow that waits for it.
LEMMA HandlerStarted ==
  ASSUME Unstarted, NEW e \in Executions, Handle(e) \/ Fail(e)
  PROVE  execution[e].step # "none"
  <1>1. \E pc : At(e, pc) /\ infra[e].pc = pc
    BY DEF Handle, Fail, At, Build, VpcGet, VpcInsert, VpcWait, SaGet, SaCreate, PolicyGet,
       PolicySet, GkeGet, GkeCreate, CheckClusters, ClusterInfo, ApplyStorageClass, ApplyPVC,
       PVCStatus, ApplyCRD, ApplyOperator, Apply, PtOperatorStatus
  <1> QED BY <1>1 DEF At, Provisions, Unstarted

LEMMA StartedStep ==
  ASSUME CloudInv, Unstarted, Placed, [Next]_vars
  PROVE  Unstarted' /\ Placed'
  <1>0. CloudTypes /\ HandlersFit /\ Grown /\ TxInv /\ Tx!TypeOK
    BY CloudGrows, TxInvTypes DEF CloudInv
  <1>1. ASSUME NEW e \in Executions
        PROVE  infra'[e] = infra[e] \/ (Keeps(e, infra'[e]) /\ execution[e].step # "none")
    <2>1. ASSUME NEW f \in Executions, Handle(f) \/ Fail(f), NEW q, Moves(f, q)
          PROVE  infra'[e] = infra[e] \/ (Keeps(e, infra'[e]) /\ execution[e].step # "none")
      <3>1. infra'[e] = IF e = f THEN q ELSE infra[e]
        BY <1>0, <2>1 DEF Moves, Set, HandlersFit
      <3>2. execution[f].step # "none"
        BY <2>1, HandlerStarted
      <3> QED BY <2>1, <3>1, <3>2 DEF Moves
    <2> QED BY <1>0, <2>1, InfraStep
  <1>2. Unstarted'
    BY <1>0, <1>1, TaskStays DEF Unstarted
  <1>3. ASSUME NEW e \in Executions, infra'[e].pc \in Making
        PROVE  infra'[e].n \in DOMAIN MyGKEs(e)'
    <2>1. execution[e].step # "none"
      BY <1>1, <1>3 DEF Unstarted
    <2>2. execution[e].task \in Tasks /\ MyGKEs(e)' = MyGKEs(e)
      BY <1>0, <2>1, TaskStays DEF Tx!TypeOK, MyGKEs
    <2> DEFINE len == Len(MyGKEs(e))
    <2>3. len \in Nat /\ DOMAIN MyGKEs(e) = 1..len /\ 1 \in 1..len
      BY <2>2, Lists DEF MyGKEs
    <2>4. infra[e].pc \in Making => infra[e].n \in 1..len
      BY <2>3 DEF Placed
    <2>5. \/ infra'[e] = infra[e] \/ infra'[e].n = 1
          \/ infra[e].pc \in Making /\ infra'[e].n = infra[e].n
          \/ infra[e].pc \in Making /\ infra'[e].n = infra[e].n + 1 /\ infra[e].n < len
      BY <1>1, <1>3 DEF Keeps
    <2> HIDE DEF len
    <2>6. infra'[e].n \in 1..len
      BY <1>3, <2>3, <2>4, <2>5
    <2> QED BY <2>2, <2>3, <2>6
  <1> QED BY <1>2, <1>3 DEF Placed

LEMMA DestroyStep == ASSUME TxInv, DestroyTypes, [Next]_vars PROVE DestroyTypes'
  <1>0. destroy \in [Destroyers -> [pc   : {"idle", "get", "delete", "over"},
                                    task : Tasks \cup {None}, n : Nat]]
    BY DEF DestroyTypes
  <1>1. CASE UNCHANGED destroy
    BY <1>1 DEF DestroyTypes
  \* The request goes on in a state r.
  <1>2. ASSUME NEW d \in Destroyers, NEW r, SetD(d, r),
               r \in [pc : {"idle", "get", "delete", "over"}, task : Tasks \cup {None}, n : Nat],
               r.pc \in {"get", "delete"} => r.task \in Tasks /\ r.n \in DOMAIN GKEs(r.task)
        PROVE  DestroyTypes'
    <2>1. \A c \in Destroyers : destroy'[c] = IF c = d THEN r ELSE destroy[c]
      BY <1>0, <1>2 DEF SetD
    <2>2. destroy' \in [Destroyers -> [pc   : {"idle", "get", "delete", "over"},
                                       task : Tasks \cup {None}, n : Nat]]
      BY <1>0, <1>2 DEF SetD
    <2> QED BY <1>2, <2>1, <2>2 DEF DestroyTypes
  <1>3. ASSUME NEW d \in Destroyers, SetD(d, OverD)  PROVE DestroyTypes'
    BY <1>2, <1>3 DEF OverD
  <1>4. ASSUME NEW d \in Destroyers, destroy[d].pc \in {"get", "delete"}, NextD(d)
        PROVE  DestroyTypes'
    <2> DEFINE len == Len(GKEs(destroy[d].task))
    <2>1. destroy[d].task \in Tasks /\ destroy[d].n \in DOMAIN GKEs(destroy[d].task)
      BY <1>4 DEF DestroyTypes
    <2>2. len \in Nat /\ DOMAIN GKEs(destroy[d].task) = 1..len
      BY <2>1, Lists
    <2> DEFINE r == [destroy[d] EXCEPT !.pc = "get", !.n = @ + 1]
    <2>3. /\ r \in [pc : {"idle", "get", "delete", "over"}, task : Tasks \cup {None}, n : Nat]
          /\ r.pc = "get" /\ r.n = destroy[d].n + 1 /\ r.task = destroy[d].task
      <3>1. destroy[d].n + 1 \in Nat
        BY <1>0
      <3> QED BY <1>0, <3>1
    <2>4. IF destroy[d].n < len THEN SetD(d, r) ELSE SetD(d, OverD)
      BY <1>4 DEF NextD
    <2> HIDE DEF r, len
    <2>5. destroy[d].n < len => r.n \in 1..len
      BY <2>1, <2>2, <2>3
    <2> QED BY <1>2, <1>3, <2>1, <2>2, <2>3, <2>4, <2>5
  <1>5. ASSUME NEW d \in Destroyers, NEW t \in Tasks, DestroyStart(d, t)  PROVE DestroyTypes'
    BY <1>2, <1>5, Lists DEF DestroyStart
  <1>6. ASSUME NEW d \in Destroyers, DestroyGet(d)  PROVE DestroyTypes'
    <2>1. CASE SetD(d, [destroy[d] EXCEPT !.pc = "delete"])
      <3> DEFINE r == [destroy[d] EXCEPT !.pc = "delete"]
      <3>1. /\ r \in [pc : {"idle", "get", "delete", "over"}, task : Tasks \cup {None}, n : Nat]
            /\ r.n = destroy[d].n /\ r.task = destroy[d].task
        BY <1>0
      <3>2. SetD(d, r)
        BY <2>1
      <3>3. destroy[d].task \in Tasks /\ destroy[d].n \in DOMAIN GKEs(destroy[d].task)
        BY <1>6 DEF DestroyGet, DestroyTypes
      <3> HIDE DEF r
      <3> QED BY <1>2, <3>1, <3>2, <3>3
    <2> QED BY <1>4, <1>6, <2>1 DEF DestroyGet
  <1>7. ASSUME NEW d \in Destroyers, DestroyDelete(d)  PROVE DestroyTypes'
    BY <1>3, <1>4, <1>7 DEF DestroyDelete
  <1>8. ASSUME NEW d \in Destroyers, DestroyFails(d)  PROVE DestroyTypes'
    BY <1>3, <1>8 DEF DestroyFails
  <1>9. CASE Transact
    BY <1>1, <1>9 DEF Transact
  <1>10. CASE Cloud
    BY <1>1, <1>10 DEF Cloud, NetworkReady, PVCBound, OperatorReplicated, ClusterProvisioned,
       ClusterGone, SetHome, SetCluster
  <1>11. ASSUME NEW e \in Executions, Handle(e) \/ Fail(e) \/ GiveUp(e)  PROVE DestroyTypes'
    BY <1>1, <1>11, HandlerTx
  <1>12. ASSUME NEW e \in Executions, ApplyTask(e)  PROVE DestroyTypes'
    BY <1>1, <1>12 DEF ApplyTask
  <1> QED BY <1>1, <1>5, <1>6, <1>7, <1>8, <1>9, <1>10, <1>11, <1>12 DEF Next, Destroy, vars

LEMMA SpecTypeInv == Spec => []TypeInv
  <1>1. Init => TypeInv
    <2> SUFFICES ASSUME Init  PROVE TypeInv
      OBVIOUS
    <2>1. DestroyTypes
      BY DEF Init, DestroyTypes
    <2>2. Unstarted /\ Placed
      BY DEF Init, Unstarted, Placed
    <2> QED BY <2>1, <2>2, InitHostedInv DEF TypeInv
  <1>2. TypeInv /\ [Next]_vars => TypeInv'
    BY HostedInvStep, StartedStep, DestroyStep DEF TypeInv, HostedInv, CloudInv
  <1> QED BY <1>1, <1>2, PTL DEF Spec

\* Each role and each cluster of a list has its turn, and no handler reaches beyond the list.
THEOREM TypeCorrect == Spec => []TypeOK
  <1>1. TypeInv => TypeOK
    <2> SUFFICES ASSUME TypeInv  PROVE TypeOK
      OBVIOUS
    <2>1. Tx!TypeOK
      BY TxInvTypes DEF TypeInv, HostedInv, CloudInv
    <2>2. CloudTypes /\ HandlersFit /\ home \in HomeObjects /\ DestroyTypes
      BY DEF TypeInv, HostedInv, CloudInv, HomeInv
    <2>3. ASSUME NEW e \in Executions
          PROVE  /\ execution[e].step = "none" => infra[e].pc = "build"
                 /\ infra[e].pc \in {"policy.get", "policy.set"} => infra[e].n \in Grants
                 /\ infra[e].pc \in {"gke.get", "gke.create"} => infra[e].n \in DOMAIN MyGKEs(e)
      BY <2>2 DEF TypeInv, Unstarted, Placed, HandlersFit, Fits
    <2> QED BY <2>1, <2>2, <2>3 DEF TypeOK, CloudTypes, HandlersFit, DestroyTypes
  <1> QED BY <1>1, SpecTypeInv, PTL

-----------------------------------------------------------------------------
(* No handler does anything over *)

\* A handler in the state r works on a role, or on a cluster of the list.
Within(r, len) ==
    /\ r.pc \in Granting => r.n \in Grants
    /\ r.pc \in Making => r.n \in 1..len

Fewer(r, q, len) == CallsLeft(q, len) \in 0..(CallsLeft(r, len) - 1)

LEMMA CallsOf ==
  ASSUME NEW r, NEW len
  PROVE  LET roles == 2 * (NRoles + 1 - r.n)
             gkes  == 2 * (len - r.n)
             all   == 2 * NRoles + 2 * len IN
         /\ r.pc = "build" => CallsLeft(r, len) = 16 + all
         /\ r.pc = "vpc.get" => CallsLeft(r, len) = 15 + all
         /\ r.pc = "vpc.insert" => CallsLeft(r, len) = 14 + all
         /\ r.pc = "vpc.wait" => CallsLeft(r, len) = 13 + all
         /\ r.pc = "sa.get" => CallsLeft(r, len) = 12 + all
         /\ r.pc = "sa.create" => CallsLeft(r, len) = 11 + all
         /\ r.pc = "policy.get" => CallsLeft(r, len) = 10 + roles + 2 * len
         /\ r.pc = "policy.set" => CallsLeft(r, len) = 9 + roles + 2 * len
         /\ r.pc = "gke.get" => CallsLeft(r, len) = 10 + gkes
         /\ r.pc = "gke.create" => CallsLeft(r, len) = 9 + gkes
         /\ r.pc = "check" => CallsLeft(r, len) = 8
         /\ r.pc = "info" => CallsLeft(r, len) = 7
         /\ r.pc = "sc" => CallsLeft(r, len) = 6
         /\ r.pc = "pvc" => CallsLeft(r, len) = 5
         /\ r.pc = "pvc.status" => CallsLeft(r, len) = 4
         /\ r.pc = "operator.crd" => CallsLeft(r, len) = 3
         /\ r.pc = "operator.deploy" => CallsLeft(r, len) = 2
         /\ r.pc = "operator.status" => CallsLeft(r, len) = 1
         /\ r.pc = "over" => CallsLeft(r, len) = 0
  BY DEF CallsLeft

LEMMA CallsAreLeft ==
  ASSUME NEW r \in Handler, NEW len \in Nat, Within(r, len)
  PROVE  /\ CallsLeft(r, len) \in Nat
         /\ r.pc # "over" => CallsLeft(r, len) > 0
         /\ r.pc = "over" => CallsLeft(r, len) = 0
  <1>1. r.pc \in Pcs /\ r.n \in Nat
    BY DEF Handler
  <1>2. r.pc \in Granting => r.n <= NRoles + 1
    BY GrantsFacts DEF Within
  <1>3. r.pc \in Making => r.n <= len
    BY DEF Within
  <1>4. NRoles \in Nat
    BY GrantsFacts
  <1> QED BY <1>1, <1>2, <1>3, <1>4, CallsOf DEF Pcs

\* From one handler to the next, where nothing is counted.
LEMMA NextIsFewer ==
  ASSUME NEW r \in Handler, NEW q \in Handler, NEW len \in Nat,
         \/ r.pc = "build" /\ q.pc = "vpc.get"
         \/ r.pc = "vpc.get" /\ q.pc \in {"vpc.insert", "sa.get"}
         \/ r.pc = "vpc.insert" /\ q.pc = "vpc.wait"
         \/ r.pc = "vpc.wait" /\ q.pc = "sa.get"
         \/ r.pc = "sa.get" /\ q.pc = "sa.create"
         \/ r.pc = "check" /\ q.pc = "info"
         \/ r.pc = "info" /\ q.pc = "sc"
         \/ r.pc = "sc" /\ q.pc = "pvc"
         \/ r.pc = "pvc" /\ q.pc = "pvc.status"
         \/ r.pc = "pvc.status" /\ q.pc = "operator.crd"
         \/ r.pc = "operator.crd" /\ q.pc = "operator.deploy"
         \/ r.pc = "operator.deploy" /\ q.pc = "operator.status"
  PROVE  Fewer(r, q, len)
  <1>1. NRoles \in Nat
    BY GrantsFacts
  <1> QED BY <1>1, CallsOf DEF Fewer

\* Into the loops, round them and out of them.
LEMMA LoopIsFewer ==
  ASSUME NEW r \in Handler, NEW q \in Handler, NEW len \in Nat,
         Within(r, len), Within(q, len),
         \/ r.pc \in {"sa.get", "sa.create"} /\ q.pc = "policy.get" /\ q.n = 1
         \/ r.pc = "policy.get" /\ q.pc = "policy.set" /\ q.n = r.n
         \/ r.pc = "policy.set" /\ q.pc = "policy.get" /\ q.n = r.n + 1
         \/ r.pc = "policy.set" /\ q.pc = "gke.get" /\ q.n = 1
         \/ r.pc = "gke.get" /\ q.pc = "gke.create" /\ q.n = r.n
         \/ r.pc \in Making /\ q.pc = "gke.get" /\ q.n = r.n + 1
         \/ r.pc \in Making /\ q.pc = "check"
  PROVE  Fewer(r, q, len)
  <1>1. r.n \in Nat /\ q.n \in Nat
    BY DEF Handler
  <1>2. r.pc \in Granting => r.n >= 1 /\ r.n <= NRoles + 1
    BY GrantsFacts DEF Within
  <1>3. r.pc \in Making => r.n >= 1 /\ r.n <= len
    BY DEF Within
  <1>4. q.pc \in Granting => q.n <= NRoles + 1
    BY GrantsFacts DEF Within
  <1>5. q.pc \in Making => q.n <= len
    BY DEF Within
  <1>6. NRoles \in Nat
    BY GrantsFacts
  <1>7. CASE r.pc \in {"sa.get", "sa.create"} /\ q.pc = "policy.get" /\ q.n = 1
    BY <1>6, <1>7, CallsOf DEF Fewer
  <1>8. CASE r.pc = "policy.get" /\ q.pc = "policy.set" /\ q.n = r.n
    BY <1>1, <1>2, <1>6, <1>8, CallsOf DEF Fewer
  <1>9. CASE r.pc = "policy.set" /\ q.pc = "policy.get" /\ q.n = r.n + 1
    BY <1>1, <1>2, <1>4, <1>6, <1>9, CallsOf DEF Fewer
  <1>10. CASE r.pc = "policy.set" /\ q.pc = "gke.get" /\ q.n = 1
    BY <1>1, <1>2, <1>5, <1>6, <1>10, CallsOf DEF Fewer
  <1>11. CASE r.pc = "gke.get" /\ q.pc = "gke.create" /\ q.n = r.n
    BY <1>1, <1>3, <1>11, CallsOf DEF Fewer
  <1>12. CASE r.pc \in Making /\ q.pc = "gke.get" /\ q.n = r.n + 1
    BY <1>1, <1>3, <1>5, <1>12, CallsOf DEF Fewer
  <1>13. CASE r.pc \in Making /\ q.pc = "check"
    BY <1>1, <1>3, <1>13, CallsOf DEF Fewer
  <1> QED BY <1>7, <1>8, <1>9, <1>10, <1>11, <1>12, <1>13

\* Where an action takes a handler there are fewer calls left.
Advances(e, len) == \E q \in Handler : Set(e, q) /\ Fewer(infra[e], q, len)

LEMMA OverAdvances ==
  ASSUME NEW e \in Executions, NEW r \in Handler, NEW len \in Nat, infra[e] \in Handler,
         Within(infra[e], len), infra[e].pc # "over", Set(e, [r EXCEPT !.pc = "over"])
  PROVE  Advances(e, len)
  <1> DEFINE q == [r EXCEPT !.pc = "over"]
  <1>1. q \in Handler /\ q.pc = "over"
    BY OverFits
  <1>2. Set(e, q)
    OBVIOUS
  <1> HIDE DEF q
  <1>3. CallsLeft(infra[e], len) \in Nat /\ CallsLeft(infra[e], len) > 0
    BY CallsAreLeft
  <1>4. CallsLeft(q, len) = 0
    BY <1>1, CallsAreLeft DEF Within
  <1>5. Fewer(infra[e], q, len)
    BY <1>3, <1>4 DEF Fewer
  <1> QED BY <1>1, <1>2, <1>5 DEF Advances

LEMMA HandlerAdvances ==
  ASSUME TypeInv, NEW e \in Executions, Handle(e) \/ Fail(e), NEW len \in Nat \ {0},
         len = Len(MyGKEs(e)), DOMAIN MyGKEs(e) = 1..len
  PROVE  Advances(e, len)
  <1> DEFINE r == infra[e]
  <1>0. /\ r \in Handler /\ r.n \in Nat
        /\ Within(r, len)
        /\ r.pc \in Begun \cup Connected => r.n = 1
        /\ policy \subseteq Grants
    <2>1. r \in Handler /\ Fits(r, network, account, policy) /\ policy \subseteq Grants
      BY DEF TypeInv, HostedInv, CloudInv, HandlersFit, CloudTypes
    <2>2. r.pc \in Making => r.n \in 1..len
      BY DEF TypeInv, Placed
    <2> QED BY <2>1, <2>2 DEF Fits, Within, Handler
  <1>1. r.pc # "over"
    BY DEF Handle, Fail, At, Build, VpcGet, VpcInsert, VpcWait, SaGet, SaCreate, PolicyGet,
       PolicySet, GkeGet, GkeCreate, CheckClusters, ClusterInfo, ApplyStorageClass, ApplyPVC,
       PVCStatus, ApplyCRD, ApplyOperator, Apply, PtOperatorStatus
  <1>2. Failed(e) \/ Goto(e, "over") => Advances(e, len)
    BY <1>0, <1>1, OverAdvances DEF Failed, Goto
  <1>3. ASSUME NEW q \in Handler, Fewer(r, q, len), Answered(e, q)  PROVE Advances(e, len)
    <2>1. CASE Provisions(e)
      BY <1>3, <2>1 DEF Answered, Advances
    <2>2. CASE ~Provisions(e)
      BY <1>0, <1>1, <1>3, <2>2, OverAdvances DEF Answered
    <2> QED BY <2>1, <2>2
  \* The next handler, on the same number.
  <1>4. ASSUME NEW pc \in Pcs, Answer(e, pc) \/ Goto(e, pc),
               Fewer(r, [r EXCEPT !.pc = pc], len)
        PROVE  Advances(e, len)
    <2> DEFINE q == [r EXCEPT !.pc = pc]
    <2>1. q \in Handler /\ Fewer(r, q, len) /\ (Answered(e, q) \/ Set(e, q))
      BY <1>0, <1>4, GotoType DEF Answer, Goto
    <2> HIDE DEF q
    <2> QED BY <1>3, <2>1 DEF Advances
  <1>5. \A pc \in Pcs : /\ [r EXCEPT !.pc = pc] \in Handler
                        /\ [r EXCEPT !.pc = pc].pc = pc
                        /\ [r EXCEPT !.pc = pc].n = r.n
    BY <1>0, GotoType
  <1> HIDE DEF r
  <1>6. ASSUME NEW pc \in Pcs, Answer(e, pc) \/ Goto(e, pc),
               \/ r.pc = "build" /\ pc = "vpc.get"
               \/ r.pc = "vpc.get" /\ pc \in {"vpc.insert", "sa.get"}
               \/ r.pc = "vpc.insert" /\ pc = "vpc.wait"
               \/ r.pc = "vpc.wait" /\ pc = "sa.get"
               \/ r.pc = "sa.get" /\ pc = "sa.create"
               \/ r.pc = "check" /\ pc = "info"
               \/ r.pc = "info" /\ pc = "sc"
               \/ r.pc = "sc" /\ pc = "pvc"
               \/ r.pc = "pvc" /\ pc = "pvc.status"
               \/ r.pc = "pvc.status" /\ pc = "operator.crd"
               \/ r.pc = "operator.crd" /\ pc = "operator.deploy"
               \/ r.pc = "operator.deploy" /\ pc = "operator.status"
        PROVE  Advances(e, len)
    BY <1>0, <1>4, <1>5, <1>6, NextIsFewer
  <1>7. ASSUME NEW pc \in Pcs, Answer(e, pc) \/ Goto(e, pc),
               \/ r.pc \in {"sa.get", "sa.create"} /\ pc = "policy.get"
               \/ r.pc = "gke.get" /\ pc = "gke.create"
        PROVE  Advances(e, len)
    <2> DEFINE q == [r EXCEPT !.pc = pc]
    <2>1. q \in Handler /\ q.pc = pc /\ q.n = r.n
      BY <1>5
    <2> HIDE DEF q
    <2>2. Within(q, len)
      BY <1>0, <1>7, <2>1, GrantsFacts DEF Within
    <2>3. Fewer(r, q, len)
      BY <1>0, <1>7, <2>1, <2>2, LoopIsFewer
    <2> QED BY <1>4, <1>7, <2>3 DEF q
  \* The next cluster of the list, or the check after the last.
  <1>8. ASSUME NEW s \in Handler, s.n = r.n, r.pc \in Making, ClusterDone(e, s)
        PROVE  Advances(e, len)
    <2> DEFINE more == [s EXCEPT !.pc = "gke.get", !.n = s.n + 1]
    <2> DEFINE last == [s EXCEPT !.pc = "check", !.n = 1]
    <2>1. /\ more \in Handler /\ more.pc = "gke.get" /\ more.n = r.n + 1
          /\ last \in Handler /\ last.pc = "check"
      <3>1. s.n + 1 \in Nat /\ 1 \in Nat
        BY <1>0, <1>8
      <3> QED BY <1>8, <3>1, SomePcs DEF Handler
    <2>2. IF r.n < len THEN Set(e, more) ELSE Answered(e, last)
      BY <1>8 DEF ClusterDone
    <2> HIDE DEF more, last
    <2>3. r.n < len => Within(more, len)
      BY <1>0, <2>1 DEF Within
    <2>4. Within(last, len)
      BY <2>1 DEF Within
    <2>5. CASE r.n < len
      <3>1. Fewer(r, more, len)
        BY <1>0, <1>8, <2>1, <2>3, <2>5, LoopIsFewer
      <3> QED BY <2>1, <2>2, <2>5, <3>1 DEF Advances, r
    <2>6. CASE ~(r.n < len)
      <3>1. Fewer(r, last, len)
        BY <1>0, <1>8, <2>1, <2>4, LoopIsFewer
      <3> QED BY <1>3, <2>1, <2>2, <2>6, <3>1
    <2> QED BY <2>5, <2>6
  <1>9. CASE Fail(e)
    BY <1>2, <1>9 DEF Fail
  <1>10. CASE Build(e) \/ VpcGet(e) \/ VpcInsert(e) \/ VpcWait(e)
    BY <1>2, <1>6, <1>10 DEF Build, VpcGet, VpcInsert, VpcWait, At, Pcs, r
  <1>11. CASE SaGet(e) \/ SaCreate(e)
    BY <1>2, <1>6, <1>7, <1>11 DEF SaGet, SaCreate, At, Pcs, r
  <1>12. CASE PolicyGet(e)
    <2> DEFINE q == [r EXCEPT !.pc = "policy.set", !.copy = policy]
    <2>1. q \in Handler /\ q.pc = "policy.set" /\ q.n = r.n
      BY <1>0, SomePcs DEF Handler
    <2>2. Set(e, q) /\ r.pc = "policy.get"
      BY <1>12 DEF PolicyGet, At, r
    <2> HIDE DEF q
    <2>3. Within(q, len)
      BY <1>0, <2>1, <2>2 DEF Within
    <2>4. Fewer(r, q, len)
      BY <1>0, <2>1, <2>2, <2>3, LoopIsFewer
    <2> QED BY <2>1, <2>2, <2>4 DEF Advances, r
  <1>13. CASE PolicySet(e)
    <2> DEFINE s == [r EXCEPT !.copy = {}]
    <2>1. s \in Handler /\ s.n = r.n
      BY <1>0, CopyType
    <2>2. r.pc = "policy.set" /\ (Failed(e) \/ RoleDone(e))
      BY <1>13 DEF PolicySet, At, r
    <2> DEFINE more == [s EXCEPT !.pc = "policy.get", !.n = s.n + 1]
    <2> DEFINE last == [s EXCEPT !.pc = "gke.get", !.n = 1]
    <2>3. /\ more \in Handler /\ more.pc = "policy.get" /\ more.n = r.n + 1
          /\ last \in Handler /\ last.pc = "gke.get" /\ last.n = 1
      <3>1. s.n + 1 \in Nat /\ 1 \in Nat
        BY <1>0, <2>1
      <3> HIDE DEF s
      <3> QED BY <2>1, <3>1, SomePcs DEF Handler
    <2>4. RoleDone(e) => IF r.n < NRoles THEN Set(e, more)
                         ELSE Answered(e, IF r.n = NRoles THEN more ELSE last)
      BY <2>1 DEF RoleDone, r
    <2> HIDE DEF more, last, s
    <2>5. r.n <= NRoles => Fewer(r, more, len)
      <3>1. r.n <= NRoles => Within(more, len)
        BY <1>0, <2>3, GrantsFacts DEF Within
      <3> QED BY <1>0, <2>2, <2>3, <3>1, LoopIsFewer
    <2>6. Fewer(r, last, len)
      <3>1. Within(last, len)
        BY <2>3 DEF Within
      <3> QED BY <1>0, <2>2, <2>3, <3>1, LoopIsFewer
    <2>7. ASSUME RoleDone(e), r.n < NRoles  PROVE Advances(e, len)
      <3>1. Set(e, more) /\ Fewer(r, more, len)
        BY <1>0, <2>4, <2>5, <2>7, GrantsFacts
      <3> QED BY <2>3, <3>1 DEF Advances, r
    <2>8. ASSUME RoleDone(e), ~(r.n < NRoles)  PROVE Advances(e, len)
      <3>1. CASE r.n = NRoles
        <4>1. Answered(e, more) /\ Fewer(r, more, len)
          BY <1>0, <2>4, <2>5, <2>8, <3>1, GrantsFacts
        <4> QED BY <1>3, <2>3, <4>1
      <3>2. CASE r.n # NRoles
        BY <1>3, <2>3, <2>4, <2>6, <2>8, <3>2
      <3> QED BY <3>1, <3>2
    <2> QED BY <1>2, <2>2, <2>7, <2>8
  <1>14. CASE GkeGet(e)
    <2>1. r.pc = "gke.get" /\ (Goto(e, "gke.create") \/ ClusterDone(e, r))
      BY <1>14 DEF GkeGet, At, r
    <2> QED BY <1>0, <1>7, <1>8, <2>1 DEF Pcs
  <1>15. CASE GkeCreate(e)
    <2> DEFINE s == [r EXCEPT !.ops = @ \cup {r.n}]
    <2>1. r.pc = "gke.create" /\ (Failed(e) \/ ClusterDone(e, s))
      BY <1>15 DEF GkeCreate, At, r
    <2>2. r.ops \cup {r.n} \in SUBSET Nat
      BY <1>0 DEF Handler
    <2>3. s \in Handler /\ s.n = r.n
      BY <1>0, <2>2, OpsType
    <2> HIDE DEF s
    <2> QED BY <1>2, <1>8, <2>1, <2>3
  <1>16. CASE ClusterInfo(e)
    <2>1. ASSUME NEW ep \in Endpoints(Home),
                 Answered(e, [r EXCEPT !.pc = "sc", !.ep = ep])
          PROVE  Advances(e, len)
      <3> DEFINE q == [r EXCEPT !.pc = "sc", !.ep = ep]
      <3>1. ep \in Makers \cup {None}
        BY ProvisioningAssumption
           DEF TypeInv, HostedInv, CloudInv, Endpoints, CloudTypes, Cluster
      <3>2. q \in Handler /\ q.pc = "sc"
        BY <1>0, <3>1, SomePcs DEF Handler
      <3>3. Answered(e, q) /\ r.pc = "info"
        BY <1>16, <2>1 DEF ClusterInfo, At, r
      <3> HIDE DEF q
      <3>4. Fewer(r, q, len)
        BY <1>0, <3>2, <3>3, NextIsFewer
      <3> QED BY <1>3, <3>2, <3>3, <3>4
    <2> QED BY <1>2, <1>16, <2>1 DEF ClusterInfo, r
  <1>17. CASE CheckClusters(e) \/ PVCStatus(e)
    BY <1>2, <1>6, <1>17 DEF CheckClusters, PVCStatus, At, Pcs, r
  <1>18. CASE ApplyStorageClass(e) \/ ApplyPVC(e) \/ ApplyCRD(e) \/ ApplyOperator(e)
    BY <1>2, <1>6, <1>18
       DEF ApplyStorageClass, ApplyPVC, ApplyCRD, ApplyOperator, Apply, At, Pcs, r
  <1>19. CASE PtOperatorStatus(e)
    BY <1>2, <1>19 DEF PtOperatorStatus
  <1> QED BY <1>9, <1>10, <1>11, <1>12, <1>13, <1>14, <1>15, <1>16, <1>17, <1>18, <1>19
          DEF Handle

\* An execution of the workflow makes a bounded number of calls, whatever other
\* executions and Google Cloud do meanwhile.
THEOREM CallsAreBounded == Spec => HandlersAdvance
  <1>1. ASSUME TypeInv, [Next]_vars, NEW e \in Executions, infra'[e] # infra[e]
        PROVE  LET len == Len(MyGKEs(e)) IN Fewer(infra[e], infra'[e], len)
    <2> DEFINE len == Len(MyGKEs(e))
    <2>1. CloudTypes /\ HandlersFit /\ Grown
      BY <1>1, CloudGrows DEF TypeInv, HostedInv, CloudInv
    <2>2. PICK f \in Executions : Handle(f) \/ Fail(f)
      BY <1>1, <2>1, InfraStep
    <2>3. f = e
      <3>1. PICK q : Set(f, q)
        BY <2>1, <2>2, HandleMoves DEF Moves
      <3> QED BY <1>1, <2>1, <3>1 DEF Set, HandlersFit
    <2>4. execution[e].task \in Tasks
      <3>1. execution[e].step # "none"
        BY <1>1, <2>2, <2>3, HandlerStarted DEF TypeInv
      <3> QED BY <1>1, <3>1, TxInvTypes DEF TypeInv, HostedInv, CloudInv, Tx!TypeOK
    <2>5. len \in Nat \ {0} /\ DOMAIN MyGKEs(e) = 1..len
      BY <2>4, Lists DEF MyGKEs
    <2>6. Advances(e, len)
      BY <1>1, <2>2, <2>3, <2>5, HandlerAdvances
    <2> QED BY <2>1, <2>6 DEF Advances, Set, HandlersFit
  <1>2. TypeInv /\ [Next]_vars =>
        [\A e \in Executions :
            infra'[e] # infra[e] =>
            LET len == Len(MyGKEs(e)) IN
            CallsLeft(infra'[e], len) \in 0..(CallsLeft(infra[e], len) - 1)]_vars
    BY <1>1 DEF Fewer
  <1> QED BY <1>2, SpecTypeInv, PTL DEF Spec, HandlersAdvance

\* What is proved of PtTransactions holds of the workflow with its handlers.
COROLLARY OneLoadTest == Spec => []Tx!AppliedIsRecorded
  <1>1. TxInv => Tx!AppliedIsRecorded
    BY DEF TxInv, TxP!TInv, TxP!TypeOK, TxP!WorkflowInv, Tx!AppliedIsRecorded
  <1> QED BY <1>1, SpecTxInv, PTL
==============================================================================
