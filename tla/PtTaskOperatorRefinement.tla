------------------------ MODULE PtTaskOperatorRefinement ------------------------
(***************************************************************************)
(* PtTaskOperator implements TaskStatus, for every value of the constants. *)
(* Two facts beside the invariant of PtTaskOperatorProofs make it so: what *)
(* a goroutine is about to write is its report applied to the version it   *)
(* read, which is the stored one whenever the API server accepts it; and   *)
(* no goroutine works for a task that lives without an id.                 *)
(***************************************************************************)
EXTENDS PtTaskOperatorProofs

NotFinished == Phases \ {"FINISHED"}

\* Reported, of the record r of goroutine x.
ReportedBy(x, r, v) ==
    [v EXCEPT !.phases[r.scen] = r.ph,
              !.ptStatus = StatusFor(r.ph),
              !.archives = IF x \in Watchers THEN @ \cup {r.scen} ELSE @]

Identified(st, t) == st[t].rv > 0 /\ (st[t].live => st[t].id # NoId)

\* The goroutine's part of the invariant: r is its record, st the stored versions.
Reporter(x, r, st) ==
    /\ r.pc # "idle" => Identified(st, r.task)
    /\ x \in Provisioners => r.next \in NotFinished \cup {""}
    /\ r.pc \in UpdateSteps =>
          /\ x \in Provisioners => r.ph \in NotFinished
          /\ x \in Watchers => r.ph = "FINISHED"
    /\ r.pc \in {"update.tell", "update.put"} /\ r.copy.rv = st[r.task].rv =>
          r.copy = ReportedBy(x, r, st[r.task])

ReportInv ==
    /\ \A x \in Threads : Reporter(x, th[x], status)
    /\ rec.pc \in {"tell", "put"} => rec.copy.ptStatus = "INITIAL"

LEMMA Sides ==
    /\ \A x \in Provisioners : x \in Threads /\ x \notin Watchers
    /\ \A x \in Watchers : x \in Threads /\ x \notin Provisioners
    /\ \A x \in Threads : x \in Provisioners \/ x \in Watchers
  BY DEF Provisioners, Watchers, Threads

LEMMA IdleReporter == \A x, st : Reporter(x, IdleThread, st)
  BY DEF Reporter, IdleThread, UpdateSteps

LEMMA IdentifiedStable ==
  ASSUME NEW st \in [Tasks -> Version], NEW st2 \in [Tasks -> Version],
         Evolution(st, st2), NEW t \in Tasks, Identified(st, t)
  PROVE  Identified(st2, t)
  <1>1. st[t].rv \in Nat /\ st2[t].rv \in Nat
    BY DEF Version
  <1>2. Evolves(st[t], st2[t])
    BY DEF Evolution
  <1> QED BY <1>1, <1>2 DEF Evolves, Identified

\* A goroutine that does nothing is not affected by what others write.
LEMMA ReporterStable ==
  ASSUME NEW st \in [Tasks -> Version], NEW st2 \in [Tasks -> Version],
         Evolution(st, st2), NEW x \in Threads, NEW r, ThreadOK(x, r),
         ThreadFresh(x, r, st), Reporter(x, r, st)
  PROVE  Reporter(x, r, st2)
  <1>1. r.pc # "idle" => Identified(st2, r.task)
    BY IdentifiedStable DEF ThreadOK, Reporter
  <1>2. ASSUME r.pc \in {"update.tell", "update.put"}, r.copy.rv = st2[r.task].rv
        PROVE  r.copy = ReportedBy(x, r, st2[r.task])
    <2>1. r.task \in Tasks /\ r.copy \in Version /\ CopyFresh(r, st[r.task])
      BY <1>2 DEF ThreadOK, Thread, ThreadFresh
    <2>2. r.copy.rv \in Nat /\ Evolves(st[r.task], st2[r.task])
          /\ r.copy.rv <= st[r.task].rv
      BY <2>1 DEF Version, Evolution, CopyFresh
    <2>3. st2[r.task] = st[r.task]
      BY <1>2, <2>1, <2>2, SameVersion
    <2> QED BY <1>2, <2>3 DEF Reporter
  <1> QED BY <1>1, <1>2 DEF Reporter

LEMMA ReportedIs == \A x, v : Reported(x, v) = ReportedBy(x, th[x], v)
  BY DEF Reported, ReportedBy

-----------------------------------------------------------------------------
(* Every step keeps the part of every goroutine *)

\* What a step of do4Locust before its first updateStatus does to its own record.
LEMMA ProvisionRecord ==
  ASSUME TypeOK, NEW x \in Threads, Provision(x)
  PROVE  /\ th[x].pc \in ProvisionSteps
         /\ \A z \in Threads : z # x => th'[z] = th[z]
         /\ th'[x].task = th[x].task
         /\ \/ th'[x].pc \in ProvisionSteps /\ th'[x].next = th[x].next
            \/ /\ th'[x].pc = "update.get"
               /\ th'[x].ph \in NotFinished /\ th'[x].next \in NotFinished \cup {""}
  <1> DEFINE Goal == /\ \A z \in Threads : z # x => th'[z] = th[z]
                     /\ th'[x].task = th[x].task
                     /\ \/ th'[x].pc \in ProvisionSteps /\ th'[x].next = th[x].next
                        \/ /\ th'[x].pc = "update.get"
                           /\ th'[x].ph \in NotFinished /\ th'[x].next \in NotFinished \cup {""}
  <1>0. th[x] \in Thread /\ th \in [Threads -> Thread]
    BY DEF TypeOK
  <1>1. th[x].pc \in ProvisionSteps
    BY DEF Provision, MasterGet, MasterCreate, SvcGet, SvcCreate, Poll, WorkerGet,
       WorkerCreate, WorkersDone, ProvisionSteps
  <1>2. ASSUME NEW r, Set(x, r)
        PROVE  th'[x] = r /\ \A z \in Threads : z # x => th'[z] = th[z]
    BY <1>0, <1>2 DEF Set
  <1>3. ASSUME NEW pc \in ProvisionSteps, Goto(x, pc)  PROVE Goal
    <2> DEFINE r == [th[x] EXCEPT !.pc = pc]
    <2>1. r.task = th[x].task /\ r.next = th[x].next /\ r.pc = pc
      BY <1>0 DEF Thread
    <2>2. Set(x, r)
      BY <1>3 DEF Goto
    <2> HIDE DEF r
    <2> QED BY <1>2, <2>1, <2>2
  <1>4. ASSUME NEW ph \in NotFinished, NEW next \in NotFinished \cup {""},
               Set(x, Reporting(x, ph, next))
        PROVE  Goal
    <2> DEFINE r == Reporting(x, ph, next)
    <2>1. r.task = th[x].task /\ r.pc = "update.get" /\ r.ph = ph /\ r.next = next
      BY <1>0 DEF Reporting, Thread
    <2> HIDE DEF r
    <2> QED BY <1>2, <1>4, <2>1 DEF r
  <1>5. ASSUME NEW n, Set(x, [th[x] EXCEPT !.n = n])
                        \/ Set(x, [th[x] EXCEPT !.pc = "worker.get", !.n = n])
        PROVE  Goal
    <2> DEFINE r == [th[x] EXCEPT !.n = n]
               q == [th[x] EXCEPT !.pc = "worker.get", !.n = n]
    <2>1. /\ r.task = th[x].task /\ r.next = th[x].next /\ r.pc = th[x].pc
          /\ q.task = th[x].task /\ q.next = th[x].next /\ q.pc = "worker.get"
      BY <1>0 DEF Thread
    <2>2. Set(x, r) \/ Set(x, q)
      BY <1>5
    <2> HIDE DEF r, q
    <2> QED BY <1>1, <1>2, <2>1, <2>2 DEF ProvisionSteps
  <1>6. {"PROVISIONING_MASTER", "PROVISIONING_WORKER", "TESTING", "FAILED"} \subseteq NotFinished
    BY DEF NotFinished, Phases, ProvisioningPhases
  <1> SUFFICES Goal
    BY <1>1
  <1> HIDE DEF Goal
  <1>7. CASE MasterGet(x) \/ SvcGet(x)
    BY <1>3, <1>7 DEF MasterGet, SvcGet, GetObject, ProvisionSteps
  <1>8. CASE MasterCreate(x) \/ SvcCreate(x)
    BY <1>3, <1>4, <1>6, <1>8 DEF MasterCreate, SvcCreate, ProvisionSteps
  <1>9. CASE Poll(x)
    BY <1>4, <1>5, <1>6, <1>9 DEF Poll
  <1>10. CASE WorkerGet(x)
    BY <1>3, <1>4, <1>5, <1>6, <1>10 DEF WorkerGet, ProvisionSteps
  <1>11. CASE WorkerCreate(x) \/ WorkersDone(x)
    BY <1>4, <1>5, <1>6, <1>11 DEF WorkerCreate, WorkersDone
  <1> QED BY <1>7, <1>8, <1>9, <1>10, <1>11 DEF Provision

\* What a step of checkMasterStatus outside updateStatus does to its own record.
LEMMA WatchRecord ==
  ASSUME TypeOK, NEW x \in Threads, Watch(x)
  PROVE  /\ x \in Watchers
         /\ \A z \in Threads : z # x => th'[z] = th[z]
         /\ \/ th'[x] = IdleThread
            \/ /\ th'[x].task = th[x].task
               /\ \/ th'[x].pc \in WatchSteps
                  \/ th'[x].pc = "update.get" /\ th'[x].ph = "FINISHED"
  <1> DEFINE Goal == /\ \A z \in Threads : z # x => th'[z] = th[z]
                     /\ \/ th'[x] = IdleThread
                        \/ /\ th'[x].task = th[x].task
                           /\ \/ th'[x].pc \in WatchSteps
                              \/ th'[x].pc = "update.get" /\ th'[x].ph = "FINISHED"
  <1>0. th[x] \in Thread /\ th \in [Threads -> Thread]
    BY DEF TypeOK
  <1>1. x \in Watchers /\ th[x].pc \in WatchSteps
    BY TypeParts
    DEF Watch, WatchList, WatchVisit, WatchCopy, WatchRound, ThreadOK, WatchSteps
  <1>2. ASSUME NEW r, Set(x, r)
        PROVE  th'[x] = r /\ \A z \in Threads : z # x => th'[z] = th[z]
    BY <1>0, <1>2 DEF Set
  <1> SUFFICES Goal
    BY <1>1
  <1>3. CASE WatchList(x)
    <2> DEFINE r == [th[x] EXCEPT !.pc = "visit", !.left = Cardinality(MastersSeen),
                                  !.todo = {s \in MastersSeen : pod[s] = "completed"}]
    <2>1. Set(x, r) /\ r.pc = "visit" /\ r.task = th[x].task
      BY <1>0, <1>3 DEF WatchList, Thread
    <2> HIDE DEF r
    <2> QED BY <1>2, <2>1 DEF WatchSteps
  <1>4. ASSUME NEW s \in Scenarios, WatchVisit(x, s)  PROVE Goal
    <2> DEFINE i == IF cache[th[x].task].live THEN cache[th[x].task].id ELSE th[x].id
               rest == th[x].todo \ {s}
               r == [th[x] EXCEPT !.todo = rest, !.left = th[x].left - 1, !.id = i]
               q == [th[x] EXCEPT !.pc = "copy", !.scen = s, !.todo = rest, !.id = i]
    <2>1. Set(x, r) \/ Set(x, q)
      BY <1>4 DEF WatchVisit
    <2>2. r.pc = th[x].pc /\ r.task = th[x].task /\ q.pc = "copy" /\ q.task = th[x].task
      BY <1>0 DEF Thread
    <2> HIDE DEF r, q
    <2> QED BY <1>1, <1>2, <2>1, <2>2 DEF WatchSteps
  <1>5. CASE WatchCopy(x)
    <2> DEFINE r == [th[x] EXCEPT !.pc = "update.get", !.ph = "FINISHED"]
    <2>1. Set(x, r) /\ r.pc = "update.get" /\ r.ph = "FINISHED" /\ r.task = th[x].task
      BY <1>0, <1>5 DEF WatchCopy, Thread
    <2> HIDE DEF r
    <2> QED BY <1>2, <2>1
  <1>6. CASE WatchRound(x)
    <2> DEFINE r == [th[x] EXCEPT !.pc = "list", !.left = 0]
    <2>1. Set(x, r) \/ Set(x, IdleThread)
      BY <1>6 DEF WatchRound
    <2>2. r.pc = "list" /\ r.task = th[x].task
      BY <1>0 DEF Thread
    <2> HIDE DEF r
    <2> QED BY <1>2, <2>1, <2>2 DEF WatchSteps
  <1> QED BY <1>1, <1>3, <1>4, <1>5, <1>6 DEF Watch

LEMMA ReporterStep ==
  ASSUME ConstantsAssumption, IInv, TypeOK', ReportInv, [Next]_vars, NEW y \in Threads
  PROVE  Reporter(y, th'[y], status')
  <1>0. /\ status \in [Tasks -> Version] /\ status' \in [Tasks -> Version]
        /\ cache \in [Tasks -> Version]
        /\ Evolution(status, status') /\ RecFresh(rec, status) /\ RecOK(rec)
        /\ th \in [Threads -> Thread] /\ TypeOK /\ CacheFresh(cache, status)
        /\ \A x \in Threads : /\ ThreadOK(x, th[x]) /\ ThreadFresh(x, th[x], status)
                              /\ Reporter(x, th[x], status)
    BY StepEvolves, VersionParts, TypeParts DEF TypeOK, IInv, ReportInv
  <1>1. CASE th'[y] = th[y]
    BY <1>0, <1>1, ReporterStable
  <1>2. CASE th'[y] = IdleThread
    BY <1>2, IdleReporter
  \* A record that keeps its task and is not about to write.
  <1>3. ASSUME NEW r, th[y].pc # "idle", r.task = th[y].task, th'[y] = r,
               y \in Provisioners => r.next \in NotFinished \cup {""},
               r.pc \notin {"update.tell", "update.put"},
               r.pc = "update.get" =>
                  /\ y \in Provisioners => r.ph \in NotFinished
                  /\ y \in Watchers => r.ph = "FINISHED"
        PROVE  Reporter(y, th'[y], status')
    <2>1. Reporter(y, th[y], status')
      BY <1>0, ReporterStable
    <2> QED BY <1>3, <2>1 DEF Reporter, UpdateSteps
  <1>4. ASSUME NEW s \in Scenarios, NEW g \in Slots, RecSpawn(s, g)
        PROVE  Reporter(y, th'[y], status')
    <2> DEFINE x == <<g, "provision">>
               r == [IdleThread EXCEPT !.pc = "master.get", !.task = rec.task,
                                       !.scen = s, !.id = rec.copy.id]
    <2>1. x \in Threads /\ th' = [th EXCEPT ![x] = r] /\ rec.pc = "spawn" /\ UNCHANGED status
      BY <1>4 DEF RecSpawn, Threads, taskVars
    <2>2. r.pc = "master.get" /\ r.task = rec.task /\ r.next = ""
      BY DEF IdleThread
    <2>3. Identified(status', rec.task)
      BY <1>0, <2>1 DEF RecFresh, OwnedIn, Identified
    <2> HIDE DEF x, r
    <2>4. Reporter(x, r, status')
      BY <2>2, <2>3 DEF Reporter, UpdateSteps
    <2> QED BY <1>0, <1>1, <2>1, <2>4
  <1>5. ASSUME NEW x \in Threads, Provision(x)
        PROVE  Reporter(y, th'[y], status')
    <2>1. x \in Provisioners /\ x \notin Watchers /\ th[x].pc \in ProvisionSteps
      BY <1>0, <1>5, ProvisionRecord, Sides DEF ThreadOK
    <2>2. th[x].next \in NotFinished \cup {""} /\ th[x].pc # "idle"
      BY <1>0, <2>1 DEF Reporter, ProvisionSteps
    <2>3. CASE y = x
      <3>1. th'[x].pc \notin {"update.tell", "update.put"}
        BY <1>0, <1>5, ProvisionRecord DEF ProvisionSteps
      <3>2. th'[x].next \in NotFinished \cup {""}
        BY <1>0, <1>5, <2>2, ProvisionRecord
      <3>3. th'[x].pc = "update.get" => th'[x].ph \in NotFinished
        BY <1>0, <1>5, ProvisionRecord DEF ProvisionSteps
      <3>4. th'[x].task = th[x].task
        BY <1>0, <1>5, ProvisionRecord
      <3> QED BY <1>3, <2>1, <2>2, <2>3, <3>1, <3>2, <3>3, <3>4
    <2>4. CASE y # x
      BY <1>0, <1>1, <1>5, <2>4, ProvisionRecord
    <2> QED BY <2>3, <2>4
  <1>6. ASSUME NEW x \in Threads, Watch(x)
        PROVE  Reporter(y, th'[y], status')
    <2>1. x \in Watchers /\ x \notin Provisioners
      BY <1>0, <1>6, WatchRecord, Sides
    <2>2. th[x].pc # "idle"
      BY <1>6 DEF Watch, WatchList, WatchVisit, WatchCopy, WatchRound
    <2>3. CASE y = x /\ th'[x] # IdleThread
      <3>1. /\ th'[x].pc \notin {"update.tell", "update.put"} /\ th'[x].task = th[x].task
            /\ th'[x].pc = "update.get" => th'[x].ph = "FINISHED"
        BY <1>0, <1>6, <2>3, WatchRecord DEF WatchSteps
      <3> QED BY <1>3, <2>1, <2>2, <2>3, <3>1
    <2>4. CASE y # x
      BY <1>0, <1>1, <1>6, <2>4, WatchRecord
    <2> QED BY <1>2, <2>3, <2>4
  <1>7. ASSUME NEW x \in Threads, UpdateGet(x) \/ UpdatePut(x), th' = Returned(x)
        PROVE  Reporter(y, th'[y], status')
    <2>0. th[x] \in Thread /\ th[x].pc # "idle"
      BY <1>0, <1>7 DEF UpdateGet, UpdatePut
    <2>1. CASE x \in Watchers
      <3> DEFINE r == [th[x] EXCEPT !.pc = "visit", !.scen = None, !.ph = "",
                                    !.copy = NoVersion, !.left = th[x].left - 1]
      <3>1. th' = [th EXCEPT ![x] = r]
        BY <1>7, <2>1 DEF Returned
      <3>2. r.pc = "visit" /\ r.task = th[x].task
        BY <2>0 DEF Thread
      <3> HIDE DEF r
      <3>3. CASE y = x
        BY <1>0, <1>3, <2>0, <2>1, <3>1, <3>2, <3>3, Sides
      <3> QED BY <1>0, <1>1, <3>1, <3>3
    <2>2. CASE x \notin Watchers /\ th[x].next = ""
      <3>1. th' = [th EXCEPT ![x] = IdleThread]
        BY <1>7, <2>2 DEF Returned
      <3> QED BY <1>0, <1>1, <1>2, <3>1
    <2>3. CASE x \notin Watchers /\ th[x].next # ""
      <3> DEFINE r == [th[x] EXCEPT !.pc = "update.get", !.ph = th[x].next, !.next = "",
                                    !.copy = NoVersion]
                 w == [IdleThread EXCEPT !.pc = "list", !.task = th[x].task,
                                         !.id = th[x].id]
      <3>1. th' = [z \in Threads |->
                     IF z = x THEN r
                     ELSE IF z = <<x[1], "watch">> /\ th[x].ph = "TESTING" THEN w
                     ELSE th[z]]
        BY <1>7, <2>3 DEF Returned
      <3>2. /\ r.pc = "update.get" /\ r.task = th[x].task
            /\ r.ph = th[x].next /\ r.next = ""
        BY <2>0 DEF Thread
      <3>3. w.pc = "list" /\ w.task = th[x].task
        BY DEF IdleThread
      <3>4. y = <<x[1], "watch">> => y \in Watchers /\ y \notin Provisioners
        BY Sides DEF Watchers, Threads
      <3>5. x \in Provisioners /\ th[x].next \in NotFinished
        BY <1>0, <2>3, Sides DEF Reporter
      <3>6. Identified(status', th[x].task)
        BY <1>0, <2>0, IdentifiedStable DEF Reporter, ThreadOK
      <3> HIDE DEF r, w
      <3>7. CASE th'[y] = w /\ y = <<x[1], "watch">>
        BY <3>3, <3>4, <3>6, <3>7 DEF Reporter, UpdateSteps
      <3>8. CASE y = x
        BY <1>3, <2>0, <2>3, <3>1, <3>2, <3>5, <3>8
      <3> QED BY <1>1, <3>1, <3>7, <3>8
    <2> QED BY <2>1, <2>2, <2>3
  <1>8. ASSUME NEW x \in Threads, UpdateGet(x), cache[th[x].task].live
        PROVE  Reporter(y, th'[y], status')
    <2> DEFINE c == Reported(x, cache[th[x].task])
               pc == TellStep(th[x].task, "update.tell", "update.put")
               r == [th[x] EXCEPT !.pc = pc, !.copy = c]
    <2>1. /\ th[x] \in Thread /\ th[x].task \in Tasks /\ th[x].scen \in Scenarios
          /\ th[x].pc = "update.get" /\ cache[th[x].task] \in Version
      BY <1>0, <1>8 DEF UpdateGet, ThreadOK, UpdateSteps
    <2>2. c.rv = cache[th[x].task].rv
      BY <1>0, <2>1, ReportedType
    <2>3. pc \in {"update.tell", "update.put"}
      BY DEF TellStep
    <2>4. th' = [th EXCEPT ![x] = r] /\ UNCHANGED status
      BY <1>8 DEF UpdateGet, Set, taskVars
    <2>5. c = ReportedBy(x, th[x], cache[th[x].task])
      BY ReportedIs
    <2> HIDE DEF pc, c
    <2>6. /\ r.pc = pc /\ r.copy = c /\ r.task = th[x].task /\ r.scen = th[x].scen
          /\ r.ph = th[x].ph /\ r.next = th[x].next
      BY <2>1 DEF Thread
    <2> HIDE DEF r
    <2>7. \A v : ReportedBy(x, r, v) = ReportedBy(x, th[x], v)
      BY <2>6 DEF ReportedBy
    <2>8. c.rv = status[th[x].task].rv => c = ReportedBy(x, r, status[th[x].task])
      BY <1>0, <2>1, <2>2, <2>5, <2>7 DEF CacheFresh
    <2>9. Reporter(x, r, status')
      BY <1>0, <2>1, <2>3, <2>4, <2>6, <2>8 DEF Reporter, UpdateSteps
    <2> QED BY <1>0, <1>1, <2>4, <2>9
  <1>9. ASSUME NEW x \in Threads, UpdateTell(x)
        PROVE  Reporter(y, th'[y], status')
    <2> DEFINE r == [th[x] EXCEPT !.pc = "update.put"]
    <2>1. th' = [th EXCEPT ![x] = r] /\ UNCHANGED status /\ th[x].pc = "update.tell"
          /\ th[x] \in Thread
      BY <1>0, <1>9 DEF UpdateTell, Goto, Set, taskVars
    <2>2. /\ r.copy = th[x].copy /\ r.task = th[x].task /\ r.scen = th[x].scen
          /\ r.pc = "update.put" /\ r.ph = th[x].ph /\ r.next = th[x].next
      BY <2>1 DEF Thread
    <2> HIDE DEF r
    <2>3. \A v : ReportedBy(x, r, v) = ReportedBy(x, th[x], v)
      BY <2>2 DEF ReportedBy
    <2>4. Reporter(x, th[x], status) /\ th[x].pc \in UpdateSteps /\ th[x].pc # "idle"
      BY <1>0, <2>1 DEF UpdateSteps
    <2>5. r.copy.rv = status[r.task].rv => r.copy = ReportedBy(x, r, status[r.task])
      BY <2>1, <2>2, <2>3, <2>4 DEF Reporter
    <2>6. Reporter(x, r, status')
      BY <2>1, <2>2, <2>4, <2>5 DEF Reporter
    <2> QED BY <1>0, <1>1, <2>1, <2>6
  <1>10. CASE UNCHANGED th
    BY <1>1, <1>10
  <1>11. CASE User \/ Cluster \/ \E t \in Tasks : Deliver(t)
    BY <1>10, <1>11
    DEF User, Submit, Edit, Delete, Cluster, Collect, Observe, PodStep, Ingress, Deliver
  <1>12. CASE Reconcile
    BY <1>4, <1>10, <1>12
    DEF Reconcile, RecSkip, RecIdentify, RecKnown, RecTell, RecPut, RecReturn
  <1>13. CASE Crash
    BY <1>2, <1>13 DEF Crash
  <1>14. CASE \E x \in Threads : Provision(x) \/ UpdateStatus(x) \/ Watch(x)
    BY <1>5, <1>6, <1>7, <1>8, <1>9, <1>14 DEF UpdateStatus, UpdateGet, UpdatePut
  <1>15. CASE UNCHANGED vars
    BY <1>10, <1>15 DEF vars
  <1> QED BY <1>11, <1>12, <1>13, <1>14, <1>15 DEF Next

\* The first update of a task says INITIAL.
LEMMA InitialStep ==
  ASSUME IInv, ReportInv, [Next]_vars, rec'.pc \in {"tell", "put"}
  PROVE  rec'.copy.ptStatus = "INITIAL"
  <1>0. TypeOK /\ rec \in Rec
    BY DEF IInv, TypeOK
  <1>1. ASSUME NEW t \in Tasks, RecIdentify(t)  PROVE rec'.copy.ptStatus = "INITIAL"
    <2> DEFINE c == [cache[t] EXCEPT !.id = NewId(t), !.ptStatus = "INITIAL"]
    <2>1. cache[t] \in Version
      BY <1>0 DEF TypeOK
    <2>2. c.ptStatus = "INITIAL"
      BY <2>1 DEF Version
    <2>3. rec'.copy = c
      BY <1>1 DEF RecIdentify
    <2> QED BY <2>2, <2>3
  <1>2. CASE RecTell
    <2>1. rec'.copy = rec.copy /\ rec.pc = "tell"
      BY <1>0, <1>2 DEF RecTell, Rec
    <2> QED BY <2>1 DEF ReportInv
  <1>3. ASSUME NEW s \in Scenarios, NEW g \in Slots, RecSpawn(s, g)  PROVE FALSE
    <2>1. rec'.pc = rec.pc /\ rec.pc = "spawn"
      BY <1>0, <1>3 DEF RecSpawn, Rec
    <2> QED BY <2>1
  <1>4. ~RecPut /\ ~RecReturn /\ ~Crash /\ \A t \in Tasks : ~RecKnown(t)
    <2>1. rec' # IdleRec
      BY DEF IdleRec
    <2>2. ~RecReturn /\ ~Crash
      BY <2>1 DEF RecReturn, Crash
    <2>3. ~RecPut
      <3> SUFFICES ASSUME RecPut  PROVE FALSE
        OBVIOUS
      <3> DEFINE r == [pc |-> "spawn", task |-> rec.task,
                       copy |-> Stored(rec.task, rec.copy, TRUE),
                       todo |-> Unfinished(rec.task, rec.copy)]
      <3>1. rec' = r \/ rec' = IdleRec
        BY DEF RecPut
      <3>2. r.pc = "spawn"
        OBVIOUS
      <3> HIDE DEF r
      <3> QED BY <2>1, <3>1, <3>2
    <2>4. \A t \in Tasks : ~RecKnown(t)
      BY DEF RecKnown
    <2> QED BY <2>2, <2>3, <2>4
  <1>5. CASE UNCHANGED rec
    BY <1>5 DEF ReportInv
  <1>6. CASE Reconcile
    BY <1>1, <1>2, <1>3, <1>4, <1>5, <1>6 DEF Reconcile, RecSkip
  <1>7. CASE User \/ Cluster \/ \E t \in Tasks : Deliver(t)
    BY <1>5, <1>7
    DEF User, Submit, Edit, Delete, Cluster, Collect, Observe, PodStep, Ingress, Deliver
  <1>8. CASE \E x \in Threads : Provision(x) \/ UpdateStatus(x) \/ Watch(x)
    <2>1. UNCHANGED rec
      BY <1>0, <1>8, ConstantsAssumption, ProvisionThread, UpdateThread, WatchThread
    <2> QED BY <1>5, <2>1
  <1>9. CASE UNCHANGED vars
    BY <1>5, <1>9 DEF vars
  <1> QED BY <1>4, <1>6, <1>7, <1>8, <1>9 DEF Next

LEMMA ReportInvariant == Spec => [](IInv /\ ReportInv)
  <1>1. Init => ReportInv
    <2> SUFFICES ASSUME Init  PROVE ReportInv
      OBVIOUS
    <2>1. \A x \in Threads : th[x] = IdleThread
      BY DEF Init
    <2>2. rec.pc = "idle"
      BY DEF Init, IdleRec
    <2> QED BY <2>1, <2>2, IdleReporter DEF ReportInv
  <1>2. IInv /\ IInv' /\ ReportInv /\ [Next]_vars => ReportInv'
    <2> SUFFICES ASSUME IInv, IInv', ReportInv, [Next]_vars  PROVE ReportInv'
      OBVIOUS
    <2>1. \A x \in Threads : Reporter(x, th'[x], status')
      BY ConstantsAssumption, ReporterStep DEF IInv
    <2> QED BY <2>1, InitialStep DEF ReportInv, Reporter
  <1> QED BY <1>1, <1>2, InductiveInvariant, PTL DEF Spec

-----------------------------------------------------------------------------
(* Every step is a step of TaskStatus or changes nothing it shows *)

\* What is shown of version v.
View(v) == [state    |-> IF v.rv = 0 THEN "new" ELSE IF v.live THEN "live" ELSE "gone",
            id       |-> v.id,
            phases   |-> v.phases,
            archives |-> v.archives,
            ptStatus |-> v.ptStatus]

LEMMA ShownIs ==
  /\ Shown = [t \in Tasks |-> View(status[t])]
  /\ Shown' = [t \in Tasks |-> View(status'[t])]
  BY DEF Shown, View

LEMMA ShownStep ==
  ASSUME TypeOK, NEW t \in Tasks, NEW w, status' = [status EXCEPT ![t] = w]
  PROVE  Shown' = [Shown EXCEPT ![t] = View(w)]
  <1>1. \A u \in Tasks : status'[u] = IF u = t THEN w ELSE status[u]
    BY DEF TypeOK
  <1> QED BY <1>1, ShownIs

LEMMA ShownSame ==
  ASSUME UNCHANGED status
  PROVE  UNCHANGED Shown
  BY ShownIs

LEMMA NoVersionView ==
  /\ View(NoVersion) = Promised!Shown("new")
  /\ \A n \in Nat \ {0} :
        /\ View([NoVersion EXCEPT !.rv = n]) = Promised!Shown("gone")
        /\ View([NoVersion EXCEPT !.rv = n, !.live = TRUE]) = Promised!Shown("live")
  BY DEF View, NoVersion, Promised!Shown, NoId, Promised!NoId

LEMMA UserPromised ==
  ASSUME TypeOK, VersionInv, User
  PROVE  [Promised!Next]_Shown
  <1>0. Submitted(status) /\ status \in [Tasks -> Version]
    BY VersionParts DEF TypeOK
  <1>1. ASSUME NEW t \in Tasks, Submit(t)  PROVE Promised!Submit(t)
    <2>1. status[t] = NoVersion /\ status[t].rv = 0
      BY <1>0, <1>1 DEF Submit, Submitted
    <2> DEFINE w == [NoVersion EXCEPT !.rv = 1, !.live = TRUE]
    <2>2. status' = [status EXCEPT ![t] = w]
      BY <1>0, <1>1, <2>1 DEF Submit
    <2>3. View(w) = Promised!Shown("live")
      <3>1. 1 \in Nat \ {0}
        OBVIOUS
      <3> QED BY <3>1, NoVersionView
    <2> HIDE DEF w
    <2>4. Shown' = [Shown EXCEPT ![t] = Promised!Shown("live")]
      BY <2>2, <2>3, ShownStep
    <2>5. Shown[t].state = "new"
      <3>1. Shown[t] = View(NoVersion)
        BY <2>1, ShownIs
      <3>2. View(NoVersion).state = "new"
        BY DEF View, NoVersion
      <3> QED BY <3>1, <3>2
    <2> QED BY <2>4, <2>5 DEF Promised!Submit
  <1>2. ASSUME NEW t \in Tasks, Edit(t)  PROVE UNCHANGED Shown
    <2>1. status[t] \in Version /\ status[t].rv \in Nat /\ status[t].live
      BY <1>0, <1>2 DEF Edit, Version
    <2>2. status[t].rv # 0
      BY <1>0, <2>1, NoVersionDead DEF Submitted
    <2> DEFINE w == [status[t] EXCEPT !.rv = status[t].rv + 1]
    <2>3. status' = [status EXCEPT ![t] = w]
      BY <1>0, <1>2 DEF Edit
    <2>4. /\ w.rv = status[t].rv + 1 /\ w.live = status[t].live /\ w.id = status[t].id
          /\ w.phases = status[t].phases /\ w.archives = status[t].archives
          /\ w.ptStatus = status[t].ptStatus
      BY <2>1 DEF Version
    <2> HIDE DEF w
    <2>5. View(w) = View(status[t])
      <3>1. w.rv # 0
        BY <2>1, <2>4
      <3> QED BY <2>2, <2>4, <3>1 DEF View
    <2>6. Shown' = [Shown EXCEPT ![t] = View(status[t])]
      BY <2>3, <2>5, ShownStep
    <2> QED BY <2>6, ShownIs
  <1>3. ASSUME NEW t \in Tasks, Delete(t)  PROVE Promised!Delete(t)
    <2>1. status[t] \in Version /\ status[t].rv \in Nat /\ status[t].live
      BY <1>0, <1>3 DEF Delete, Version
    <2>2. status[t].rv # 0
      BY <1>0, <2>1, NoVersionDead DEF Submitted
    <2> DEFINE n == status[t].rv + 1
               w == [NoVersion EXCEPT !.rv = n]
    <2>3. status' = [status EXCEPT ![t] = w]
      BY <1>3 DEF Delete
    <2>4. n \in Nat \ {0}
      BY <2>1
    <2> HIDE DEF n
    <2>5. View(w) = Promised!Shown("gone")
      BY <2>4, NoVersionView
    <2> HIDE DEF w
    <2>6. Shown' = [Shown EXCEPT ![t] = Promised!Shown("gone")]
      BY <2>3, <2>5, ShownStep
    <2>7. Shown[t].state = "live"
      BY <2>1, <2>2, ShownIs DEF View
    <2> QED BY <2>6, <2>7 DEF Promised!Delete
  <1> QED BY <1>1, <1>2, <1>3 DEF User, Promised!Next

LEMMA RecPutPromised ==
  ASSUME TypeOK, VersionInv, ReportInv, RecPut
  PROVE  [Promised!Next]_Shown
  <1> DEFINE t == rec.task
             w == Stored(t, rec.copy, TRUE)
  <1>0. /\ t \in Tasks /\ rec.copy \in Version /\ status[t] \in Version /\ rec.pc = "put"
        /\ Submitted(status) /\ RecFresh(rec, status) /\ rec.copy.ptStatus = "INITIAL"
    BY TypeParts, VersionParts DEF RecPut, RecOK, Rec, StateTypes, ReportInv
  <1>1. CASE Current(t, rec.copy)
    <2>1. status' = [status EXCEPT ![t] = w]
      BY <1>1 DEF RecPut
    <2>2. w = [rec.copy EXCEPT !.rv = rec.copy.rv + 1]
      BY <1>0, StoredType
    <2>3. rec.copy.rv \in Nat /\ status[t].rv = rec.copy.rv /\ status[t].live
      BY <1>0, <1>1 DEF Current, Version
    <2>4. status[t].rv # 0
      BY <1>0, <2>3, NoVersionDead DEF Submitted
    <2>5. /\ status[t].id = NoId /\ rec.copy.id # NoId /\ rec.copy.live
          /\ rec.copy.phases = status[t].phases /\ rec.copy.archives = status[t].archives
      BY <1>0, <2>3 DEF RecFresh
    <2>6. /\ w.rv = rec.copy.rv + 1 /\ w.live = rec.copy.live /\ w.id = rec.copy.id
          /\ w.archives = rec.copy.archives /\ w.phases = rec.copy.phases
          /\ w.ptStatus = rec.copy.ptStatus /\ w.id \in Nat
      BY <1>0, <2>2 DEF Version
    <2> HIDE DEF t, w
    <2>7. View(w) = Promised!Live(w.id, View(status[t]).phases, View(status[t]).archives, "INITIAL")
      <3>1. w.rv # 0
        BY <2>3, <2>6
      <3> QED BY <1>0, <2>5, <2>6, <3>1 DEF View, Promised!Live, t
    <2>8. Shown[t] = View(status[t]) /\ Shown' = [Shown EXCEPT ![t] = View(w)]
      BY <1>0, <2>1, ShownIs, ShownStep
    <2>9. Shown'[t].id = w.id
      BY <1>0, <2>8, ShownIs DEF View
    <2>10. Shown[t].state = "live" /\ Shown[t].id = NoId
      BY <2>3, <2>4, <2>5, <2>8 DEF View
    <2>11. Promised!Identify(t)
      BY <2>5, <2>6, <2>7, <2>8, <2>9, <2>10 DEF Promised!Identify, NoId, Promised!NoId, t
    <2> QED BY <1>0, <2>11 DEF Promised!Next
  <1>2. CASE ~Current(t, rec.copy)
    BY <1>2, ShownSame DEF RecPut
  <1> QED BY <1>1, <1>2

LEMMA PutPromised ==
  ASSUME TypeOK, VersionInv, ReportInv, NEW x \in Threads, UpdatePut(x)
  PROVE  [Promised!Next]_Shown
  <1> DEFINE t == th[x].task
             s == th[x].scen
             ph == th[x].ph
             c == th[x].copy
             v == status[t]
             changes == x \in Watchers \/ c # v
             w == Stored(t, c, changes)
  <1>0. /\ t \in Tasks /\ s \in Scenarios /\ c \in Version /\ v \in Version
        /\ ph \in Phases \cup {""} /\ th[x].pc = "update.put" /\ Submitted(status)
        /\ CopyFresh(th[x], v) /\ Reporter(x, th[x], status)
    BY TypeParts, VersionParts
    DEF UpdatePut, ThreadOK, Thread, UpdateSteps, ThreadFresh, StateTypes, ReportInv
  <1>1. CASE Current(t, c)
    <2>1. status' = [status EXCEPT ![t] = w]
      BY <1>1, Zenon DEF UpdatePut
    <2>2. v.live /\ v.rv = c.rv /\ c.rv \in Nat /\ v.rv # 0
      <3>1. v.live /\ v.rv = c.rv /\ c.rv \in Nat
        BY <1>0, <1>1 DEF Current, Version
      <3>2. v.rv # 0
        BY <1>0, <3>1, NoVersionDead DEF Submitted
      <3> QED BY <3>1, <3>2
    <2>3. CASE changes
      <3>1. w = [c EXCEPT !.rv = c.rv + 1]
        BY <1>0, <2>3, StoredType
      <3>2. c = ReportedBy(x, th[x], v)
        BY <1>0, <2>2 DEF Reporter
      <3>3. v.id # NoId
        BY <1>0, <2>2 DEF Reporter, Identified
      <3>4. /\ x \in Watchers => ph = "FINISHED"
            /\ x \notin Watchers => ph \in NotFinished
        BY <1>0, Sides DEF Reporter, UpdateSteps
      <3>5. ph \in Promised!ReportedPhases /\ StatusFor(ph) = Promised!Summary(ph)
        BY <3>4 DEF NotFinished, Phases, ProvisioningPhases, Promised!ReportedPhases,
           StatusFor, Promised!Summary
      <3>6. /\ w.rv = c.rv + 1 /\ w.live = c.live /\ w.id = c.id /\ w.phases = c.phases
            /\ w.archives = c.archives /\ w.ptStatus = c.ptStatus
        BY <1>0, <3>1 DEF Version
      <3>7. /\ c.live = v.live /\ c.id = v.id
            /\ c.phases = [v.phases EXCEPT ![s] = ph]
            /\ c.ptStatus = StatusFor(ph)
            /\ c.archives = IF x \in Watchers THEN v.archives \cup {s} ELSE v.archives
        BY <1>0, <3>2 DEF ReportedBy, Version
      <3>8. x \in Watchers <=> ph = "FINISHED"
        BY <3>4 DEF NotFinished
      <3>9. Shown[t] = View(v) /\ Shown' = [Shown EXCEPT ![t] = View(w)]
        BY <1>0, <2>1, ShownIs, ShownStep
      <3> HIDE DEF t, s, ph, c, v, changes, w
      <3>10. View(w) = Promised!Live(View(v).id, [View(v).phases EXCEPT ![s] = ph],
                                     IF ph = "FINISHED" THEN View(v).archives \cup {s}
                                                        ELSE View(v).archives,
                                     Promised!Summary(ph))
        <4>1. w.rv # 0
          BY <2>2, <3>6
        <4>2. /\ View(v).id = v.id /\ View(v).phases = v.phases
              /\ View(v).archives = v.archives
          BY DEF View
        <4> QED BY <2>2, <3>5, <3>6, <3>7, <3>8, <4>1, <4>2 DEF View, Promised!Live
      <3>11. Shown[t].state = "live" /\ Shown[t].id # NoId
        BY <2>2, <3>3, <3>9 DEF View
      <3>12. Promised!Report(t, s, ph)
        BY <3>9, <3>10, <3>11 DEF Promised!Report, NoId, Promised!NoId
      <3> QED BY <1>0, <3>5, <3>12 DEF Promised!Next
    <2>4. CASE ~changes
      <3>1. w = v
        BY <1>0, <2>4, StoredType
      <3>2. status' = [status EXCEPT ![t] = v]
        BY <2>1, <3>1
      <3>3. UNCHANGED status
        BY <1>0, <3>2 DEF TypeOK
      <3> QED BY <3>3, ShownSame
    <2> QED BY <2>3, <2>4
  <1>2. CASE ~Current(t, c)
    BY <1>2, ShownSame DEF UpdatePut
  <1> QED BY <1>1, <1>2

LEMMA StepPromised ==
  ASSUME IInv, ReportInv, [Next]_vars
  PROVE  [Promised!Next]_Shown
  <1>0. TypeOK /\ VersionInv
    BY DEF IInv
  <1>1. CASE UNCHANGED status
    BY <1>1, ShownSame
  <1>2. CASE User
    BY <1>0, <1>2, UserPromised
  <1>3. CASE Reconcile
    BY <1>0, <1>1, <1>3, RecPutPromised
    DEF Reconcile, RecSkip, RecIdentify, RecKnown, RecTell, RecReturn, RecSpawn, taskVars
  <1>4. CASE Cluster \/ Crash \/ \E t \in Tasks : Deliver(t)
    BY <1>1, <1>4
    DEF Cluster, Collect, Observe, PodStep, Ingress, Crash, Deliver, taskVars
  <1>5. ASSUME NEW x \in Threads, Provision(x) \/ UpdateStatus(x) \/ Watch(x)
        PROVE  [Promised!Next]_Shown
    <2>1. CASE Provision(x)
      BY <1>1, <2>1
      DEF Provision, MasterGet, MasterCreate, SvcGet, SvcCreate, Poll, WorkerGet,
          WorkerCreate, WorkersDone, GetObject, taskVars
    <2>2. CASE UpdateStatus(x)
      BY <1>0, <1>1, <2>2, PutPromised DEF UpdateStatus, UpdateGet, UpdateTell, taskVars
    <2>3. CASE Watch(x)
      BY <1>1, <2>3 DEF Watch, WatchList, WatchVisit, WatchCopy, WatchRound, taskVars
    <2> QED BY <1>5, <2>1, <2>2, <2>3
  <1>6. CASE UNCHANGED vars
    BY <1>1, <1>6 DEF vars
  <1> QED BY <1>2, <1>3, <1>4, <1>5, <1>6 DEF Next

\* Whatever is stale, lost or restarted in the operator, its readers see TaskStatus: an id
\* given once, then one whole report of one scenario at a time, FINISHED with its archive
\* (Reconcile 75-92, updateStatus 130-164).
THEOREM OperatorImplementsTaskStatus == Spec => ImplementsTaskStatus
  <1>1. Init => Promised!Init
    <2> SUFFICES ASSUME Init  PROVE Promised!Init
      OBVIOUS
    <2>1. \A t \in Tasks : status[t] = NoVersion
      BY DEF Init
    <2> QED BY <2>1, ShownIs, NoVersionView DEF Promised!Init
  <1>2. IInv /\ ReportInv /\ [Next]_vars => [Promised!Next]_Shown
    BY StepPromised
  <1> QED BY <1>1, <1>2, ReportInvariant, PTL DEF Spec, ImplementsTaskStatus, Promised!Spec

\* The summary of a task that has an id is that of a phase it has, by what
\* TaskStatus guarantees of every implementation.
THEOREM SummaryFollowsPhases == Spec => []StatusFollowsPhases
  <1>1. TypeOK /\ VersionInv /\ Promised!Consistent => StatusFollowsPhases
    <2> SUFFICES ASSUME TypeOK, VersionInv, Promised!Consistent, NEW t \in Tasks,
                        status[t].live, status[t].id # NoId
                 PROVE  IF \A s \in Scenarios : status[t].phases[s] = ""
                        THEN status[t].ptStatus = "INITIAL"
                        ELSE \E s \in Scenarios :
                               /\ status[t].phases[s] # ""
                               /\ status[t].ptStatus = StatusFor(status[t].phases[s])
      BY DEF StatusFollowsPhases
    <2>1. Shown[t] = View(status[t])
      BY ShownIs
    <2>2. /\ Shown[t].id = status[t].id /\ Shown[t].phases = status[t].phases
          /\ Shown[t].ptStatus = status[t].ptStatus
      BY <2>1 DEF View
    <2>3. Promised!SummaryOfPhases(Shown[t])
      BY DEF Promised!Consistent
    <2>4. \A ph : Promised!Summary(ph) = StatusFor(ph)
      BY DEF Promised!Summary, StatusFor, ProvisioningPhases
    <2> QED BY <2>2, <2>3, <2>4 DEF Promised!SummaryOfPhases, NoId, Promised!NoId
  <1>2. IInv => TypeOK /\ VersionInv
    BY DEF IInv
  <1>3. Promised!Spec => [](Promised!TypeOK /\ Promised!Consistent)
    BY Promised!AbstractConsistent
  <1> QED BY <1>1, <1>2, <1>3, InductiveInvariant, OperatorImplementsTaskStatus, PTL
          DEF ImplementsTaskStatus
=============================================================================
