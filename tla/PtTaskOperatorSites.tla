-------------------------- MODULE PtTaskOperatorSites --------------------------
(***************************************************************************)
(* Master, service and workers of a scenario, for every value of the       *)
(* constants: workers never stand beside a master that was not ready, and  *)
(* a scenario in phase TESTING has its service and all its workers. The    *)
(* work of one scenario is shared by any number of provisioners, so the    *)
(* invariant says of each of them what is there by the step it is at, and  *)
(* that nobody takes it away while the task lives. Then, from the same     *)
(* facts, what a watcher makes of the masters that have completed.         *)
(***************************************************************************)
EXTENDS PtTaskOperatorRefinement

\* The objects of scenario s of task t.
SiteNames(t, s) == {Master(s), Svc(s)} \cup {Worker(t, s, i) : i \in 1..Workers[s]}

Equipped(t, s, ob) == /\ ob[Svc(s)] # NoId
                      /\ \A i \in 1..Workers[s] : ob[Worker(t, s, i)] # NoId

\* The master exists and has been ready.
Started(s, ob, pd) == ob[Master(s)] # NoId /\ pd[s] \notin {"absent", "pending"}

Completed(s, ob, pd) == ob[Master(s)] # NoId /\ pd[s] = "completed"

SiteOf(t, s, st, ob, pd) ==
    /\ \A n \in SiteNames(t, s) : ob[n] # NoId => OwnedIn(st, t, ob[n])
    /\ st[t].live =>
          /\ \A i \in 1..Workers[s] : ob[Worker(t, s, i)] # NoId => Started(s, ob, pd)
          /\ st[t].phases[s] = "TESTING" => Equipped(t, s, ob)

\* What is there by the step of a provisioner of record r.
Stage(r, st, ob, pd) ==
    st[r.task].live /\ Private(r.scen) =>
    /\ r.pc \in {"svc.get", "svc.create", "poll"} => ob[Master(r.scen)] # NoId
    /\ r.pc \in {"poll", "worker.get", "worker.create"} => ob[Svc(r.scen)] # NoId
    /\ r.pc \in {"worker.get", "worker.create"} =>
          /\ Started(r.scen, ob, pd)
          /\ r.n > 0
          /\ \A i \in 1..Workers[r.scen] :
                i < r.n => ob[Worker(r.task, r.scen, i)] # NoId
    /\ r.pc = "worker.create" => r.n <= Workers[r.scen]
    /\ r.pc \in UpdateSteps /\ "TESTING" \in {r.ph, r.next} => Equipped(r.task, r.scen, ob)

SiteInv ==
    /\ \A n \in seen : objects[n] # NoId
    /\ \A t \in Tasks : \A s \in ScenariosOf[t] :
          Private(s) => SiteOf(t, s, status, objects, pod)
    /\ \A x \in Provisioners : Stage(th[x], status, objects, pod)

-----------------------------------------------------------------------------
(* Who makes and who takes away the objects *)

LEMMA SiteNamesExist ==
  ASSUME NEW t \in Tasks, NEW s \in Scenarios
  PROVE  SiteNames(t, s) \subseteq Names /\ Master(s) \in Names /\ Svc(s) \in Names
         /\ \A i \in 1..Workers[s] : Worker(t, s, i) \in Names
  <1>1. Master(s) \in Names /\ Svc(s) \in Names
    BY DEF Names, HomeNames, Master, Svc
  <1>2. \A i \in 1..Workers[s] : Worker(t, s, i) \in Names
    BY DEF Names, HomeNames, RemoteNames, Worker
  <1> QED BY <1>1, <1>2 DEF SiteNames

\* A name tells its scenario.
LEMMA NameOfScenario ==
  ASSUME NEW t, NEW s, NEW u, NEW q, NEW i
  PROVE  /\ Master(q) \in SiteNames(t, s) => q = s
         /\ Svc(q) \in SiteNames(t, s) => q = s
         /\ Worker(u, q, i) \in SiteNames(t, s) => q = s
         /\ Master(q) # Svc(s) /\ Master(q) # Worker(u, s, i) /\ Svc(q) # Worker(u, s, i)
         /\ Master(q) = Master(s) => q = s
  BY DEF SiteNames, Master, Svc, Worker

\* The name a provisioner of record r is about to make.
NameMade(r) == IF r.pc = "master.create" THEN Master(r.scen)
               ELSE IF r.pc = "svc.create" THEN Svc(r.scen)
               ELSE Worker(r.task, r.scen, r.n)

Making(x) ==
    /\ x \in Provisioners /\ th[x].pc \in {"master.create", "svc.create", "worker.create"}
    /\ objects[NameMade(th[x])] = NoId
    /\ Make(x, NameMade(th[x]))
    /\ pod' = IF th[x].pc = "master.create" THEN [pod EXCEPT ![th[x].scen] = "pending"] ELSE pod
    /\ UNCHANGED <<status, seen>>

Untouched ==
    /\ UNCHANGED objects
    /\ \A s \in Scenarios : pod[s] \notin {"absent", "pending"} =>
                            pod'[s] \notin {"absent", "pending"}
    /\ \A s \in Scenarios : pod[s] = "completed" => pod'[s] = "completed"
    /\ \A n \in seen' : n \in seen \/ objects[n] # NoId

LEMMA ObjectsStep ==
  ASSUME TypeOK, [Next]_vars
  PROVE  \/ Untouched
         \/ \E x \in Threads : Making(x)
         \/ \E n \in HomeNames : Collect(n)
  <1>0. pod \in [Scenarios -> PodStates]
    BY DEF TypeOK
  <1>1. CASE UNCHANGED clusterVars
    BY <1>1 DEF clusterVars, Untouched
  <1>2. ASSUME NEW n \in HomeNames, Observe(n)  PROVE Untouched
    BY <1>2 DEF Observe, Untouched
  <1>3. ASSUME NEW s \in Scenarios, PodStep(s) \/ Ingress(s)  PROVE Untouched
    BY <1>0, <1>3 DEF PodStep, Ingress, Untouched
  <1>4. CASE Cluster
    BY <1>2, <1>3, <1>4 DEF Cluster, Collect
  <1>5. CASE Crash
    BY <1>5 DEF Crash, Untouched
  <1>6. CASE User \/ Reconcile \/ \E t \in Tasks : Deliver(t)
    BY <1>1, <1>6
    DEF User, Submit, Edit, Delete, Deliver, Reconcile, RecSkip, RecIdentify, RecKnown,
        RecTell, RecPut, RecReturn, RecSpawn
  <1>7. ASSUME NEW x \in Threads, Provision(x)
        PROVE  Untouched \/ \E y \in Threads : Making(y)
    <2>1. x \in Provisioners
      BY <1>7, ProvisionRecord, TypeParts DEF ThreadOK
    <2>2. CASE UNCHANGED <<objects, seen, pod>>
      BY <2>2 DEF Untouched
    <2>3. CASE MasterCreate(x)
      <3>1. NameMade(th[x]) = Master(th[x].scen)
        BY <2>3 DEF MasterCreate, NameMade
      <3> QED BY <2>1, <2>2, <2>3, <3>1 DEF MasterCreate, CanCreate, Making, taskVars
    <2>4. CASE SvcCreate(x)
      <3>1. NameMade(th[x]) = Svc(th[x].scen) /\ th[x].pc # "master.create"
        BY <2>4 DEF SvcCreate, NameMade
      <3> QED BY <2>1, <2>2, <2>4, <3>1 DEF SvcCreate, CanCreate, Making, taskVars
    <2>5. CASE WorkerCreate(x)
      <3>1. NameMade(th[x]) = Worker(th[x].task, th[x].scen, th[x].n)
            /\ th[x].pc # "master.create"
        BY <2>5 DEF WorkerCreate, NameMade
      <3> QED BY <2>1, <2>2, <2>5, <3>1 DEF WorkerCreate, CanCreate, Making, taskVars
    <2> QED
      BY <1>7, <2>2, <2>3, <2>4, <2>5
      DEF Provision, MasterGet, SvcGet, Poll, WorkerGet, WorkersDone, GetObject, clusterVars
  <1>8. ASSUME NEW x \in Threads, UpdateStatus(x) \/ Watch(x)
        PROVE  UNCHANGED clusterVars
    BY <1>8
    DEF UpdateStatus, UpdateGet, UpdateTell, UpdatePut, Watch, WatchList, WatchVisit,
        WatchCopy, WatchRound
  <1>9. CASE UNCHANGED vars
    BY <1>1, <1>9 DEF vars, clusterVars
  <1> QED BY <1>1, <1>4, <1>5, <1>6, <1>7, <1>8, <1>9 DEF Next

-----------------------------------------------------------------------------
(* What is there stays while its task lives *)

\* A task some object was made for does not come back when it is gone.
LEMMA LivedBefore ==
  ASSUME NEW st \in [Tasks -> Version], NEW st2 \in [Tasks -> Version],
         Evolution(st, st2), NEW t \in Tasks, NEW id, OwnedIn(st, t, id), st2[t].live
  PROVE  st[t].live /\ st[t].id = id
  BY DEF Evolution, Evolves, OwnedIn

\* The objects of the scenario that are there stay, and its master does not fall back.
SiteStays(t, s) ==
    /\ \A n \in SiteNames(t, s) : objects[n] # NoId => objects'[n] = objects[n]
    /\ Started(s, objects, pod) => Started(s, objects', pod')
    /\ Completed(s, objects, pod) => Completed(s, objects', pod')

LEMMA Kept ==
  ASSUME ConstantsAssumption, TypeOK, VersionInv, SiteInv, [Next]_vars,
         NEW t \in Tasks, NEW s \in ScenariosOf[t], Private(s), status'[t].live
  PROVE  SiteStays(t, s)
  <1>0. /\ s \in Scenarios /\ objects \in [Names -> Nat] /\ pod \in [Scenarios -> PodStates]
        /\ status \in [Tasks -> Version] /\ status' \in [Tasks -> Version]
        /\ Evolution(status, status') /\ SiteOf(t, s, status, objects, pod)
    BY StepEvolves, TypeStep DEF TypeOK, ConstantsAssumption, SiteInv
  <1>1. SiteNames(t, s) \subseteq Names /\ Master(s) \in SiteNames(t, s)
    BY <1>0, SiteNamesExist DEF SiteNames
  <1>2. CASE Untouched
    BY <1>0, <1>2 DEF Untouched, SiteStays, Started, Completed
  <1>3. ASSUME NEW x \in Threads, Making(x)
        PROVE  SiteStays(t, s)
    <2>1. \A n \in Names : objects[n] # NoId => objects'[n] = objects[n]
      BY <1>0, <1>3 DEF Making, Make
    <2>2. objects[Master(s)] # NoId => pod'[s] = pod[s]
      <3>1. CASE th[x].pc = "master.create"
        <4>1. objects[Master(th[x].scen)] = NoId
          BY <1>3, <3>1 DEF Making, NameMade
        <4> QED BY <1>0, <1>3, <3>1, <4>1 DEF Making
      <3>2. CASE th[x].pc # "master.create"
        BY <1>3, <3>2 DEF Making
      <3> QED BY <3>1, <3>2
    <2> QED BY <1>1, <2>1, <2>2 DEF SiteStays, Started, Completed
  <1>4. ASSUME NEW m \in HomeNames, Collect(m)
        PROVE  SiteStays(t, s)
    <2>1. ASSUME NEW n \in SiteNames(t, s), objects[n] # NoId
          PROVE  n # m /\ objects'[n] = objects[n]
      <3>1. OwnedIn(status, t, objects[n])
        BY <1>0, <2>1 DEF SiteOf
      <3>2. status[t].live /\ status[t].id = objects[n]
        BY <1>0, <3>1, LivedBefore
      <3> QED BY <1>0, <1>1, <1>4, <3>2 DEF Collect
    <2>2. objects[Master(s)] # NoId => pod'[s] = pod[s]
      <3> SUFFICES ASSUME objects[Master(s)] # NoId  PROVE pod'[s] = pod[s]
        OBVIOUS
      <3>1. Master(s) # m
        BY <1>1, <2>1
      <3>2. m[1] = "master" => m[2] # s
        BY <3>1 DEF HomeNames, Master
      <3> QED BY <1>0, <1>4, <3>2 DEF Collect
    <2> QED BY <1>1, <2>1, <2>2 DEF SiteStays, Started, Completed
  <1> QED BY <1>0, <1>2, <1>3, <1>4, ObjectsStep

\* What a provisioner relies on is not lost by what others do.
LEMMA StageStable ==
  ASSUME ConstantsAssumption, TypeOK, VersionInv, SiteInv, [Next]_vars,
         NEW x \in Provisioners, th[x].pc # "idle"
  PROVE  Stage(th[x], status', objects', pod')
  <1> DEFINE r == th[x]
             t == r.task
             s == r.scen
  <1> SUFFICES ASSUME status'[t].live, Private(s)  PROVE Stage(r, status', objects', pod')
    BY DEF Stage
  <1>0. /\ t \in Tasks /\ s \in ScenariosOf[t] /\ s \in Scenarios
        /\ OwnedIn(status, t, r.id) /\ TypeOK'
        /\ status \in [Tasks -> Version] /\ status' \in [Tasks -> Version]
        /\ Evolution(status, status') /\ Stage(r, status, objects, pod)
    BY Sides, StepEvolves, TypeStep, VersionParts, TypeParts
    DEF ThreadOK, ThreadFresh, SiteInv, TypeOK, ConstantsAssumption
  <1>1. status[t].live
    BY <1>0, LivedBefore
  <1>2. /\ \A n \in SiteNames(t, s) : objects[n] # NoId => objects'[n] # NoId
        /\ Started(s, objects, pod) => Started(s, objects', pod')
    <2>1. SiteStays(t, s)
      BY <1>0, Kept
    <2> QED BY <2>1 DEF SiteStays
  <1> HIDE DEF r
  <1>3. Equipped(t, s, objects) => Equipped(t, s, objects')
    BY <1>2 DEF Equipped, SiteNames
  <1> QED BY <1>0, <1>1, <1>2, <1>3 DEF Stage, SiteNames

-----------------------------------------------------------------------------
(* Every step of a provisioner leads to a stage of its own *)

LEMMA ProvisionStage ==
  ASSUME ConstantsAssumption, TypeOK, VersionInv, SiteInv, NEW x \in Threads, Provision(x)
  PROVE  Stage(th'[x], status', objects', pod')
  <1> DEFINE o == th[x]
             t == o.task
             s == o.scen
             w == Worker(t, s, o.n)
             Goal == Stage(th'[x], status', objects', pod')
  <1>0. /\ x \in Provisioners /\ o.pc \in ProvisionSteps /\ o \in Thread
        /\ t \in Tasks /\ s \in ScenariosOf[t] /\ s \in Scenarios
        /\ OwnedIn(status, t, o.id) /\ o.n \in Nat /\ Workers[s] \in Nat
        /\ th \in [Threads -> Thread] /\ objects \in [Names -> Nat]
    <2>1. /\ x \in Provisioners /\ o.pc \in ProvisionSteps /\ o.pc # "idle"
      BY ProvisionRecord, TypeParts DEF ThreadOK, ProvisionSteps
    <2>2. o \in Thread /\ th \in [Threads -> Thread] /\ objects \in [Names -> Nat]
      BY DEF TypeOK
    <2>3. t \in Tasks /\ s \in ScenariosOf[t] /\ s \in Scenarios
      BY <2>1, TypeParts DEF ThreadOK, ConstantsAssumption
    <2>4. OwnedIn(status, t, o.id)
      BY <2>1, VersionParts DEF ThreadFresh
    <2>5. o.n \in Nat /\ Workers[s] \in Nat
      BY <2>2, <2>3, WorkersType DEF Thread
    <2> QED BY <2>1, <2>2, <2>3, <2>4, <2>5
  <1>1. Stage(o, status', objects', pod') /\ UNCHANGED status
    <2>1. o.pc # "idle"
      BY <1>0 DEF ProvisionSteps
    <2>2. [Next]_vars /\ UNCHANGED status
      BY DEF Next, Provision, MasterGet, MasterCreate, SvcGet, SvcCreate, Poll, WorkerGet,
         WorkerCreate, WorkersDone, GetObject, taskVars
    <2> QED BY <1>0, <2>1, <2>2, StageStable
  <1>2. /\ Master(s) \in Names /\ Svc(s) \in Names
        /\ \A i \in 1..Workers[s] : Worker(t, s, i) \in Names
    BY <1>0, SiteNamesExist
  <1>3. ASSUME NEW r, Set(x, r)  PROVE th'[x] = r
    BY <1>0, <1>3 DEF Set
  <1>4. ASSUME NEW ph, NEW next, Set(x, Reporting(x, ph, next)),
               "TESTING" \in {ph, next} => Equipped(t, s, objects')
        PROVE  Goal
    <2> DEFINE r == Reporting(x, ph, next)
    <2>1. /\ r.pc = "update.get" /\ r.ph = ph /\ r.next = next
          /\ r.task = t /\ r.scen = s
      BY <1>0 DEF Reporting, Thread
    <2>2. th'[x] = r
      BY <1>3, <1>4
    <2> HIDE DEF r
    <2> QED BY <1>4, <2>1, <2>2 DEF Stage
  \* A record at pc, with number n, for which the stage of pc is there.
  <1>5. ASSUME NEW r, Set(x, r), r.task = t, r.scen = s, r.pc \in ProvisionSteps,
               status[t].live /\ Private(s) =>
                  /\ r.pc \in {"svc.get", "svc.create", "poll"} => objects'[Master(s)] # NoId
                  /\ r.pc \in {"poll", "worker.get", "worker.create"} => objects'[Svc(s)] # NoId
                  /\ r.pc \in {"worker.get", "worker.create"} =>
                        /\ Started(s, objects', pod')
                        /\ r.n > 0
                        /\ \A i \in 1..Workers[s] :
                              i < r.n => objects'[Worker(t, s, i)] # NoId
                  /\ r.pc = "worker.create" => r.n <= Workers[s]
        PROVE  Goal
    <2>1. th'[x] = r
      BY <1>3, <1>5
    <2>2. r.pc \notin UpdateSteps
      BY <1>5 DEF UpdateSteps, ProvisionSteps
    <2> HIDE DEF t, s
    <2> QED BY <1>1, <1>5, <2>1, <2>2 DEF Stage
  <1>6. ASSUME NEW pc, NEW n
        PROVE  /\ [o EXCEPT !.pc = pc].pc = pc /\ [o EXCEPT !.pc = pc].task = t
               /\ [o EXCEPT !.pc = pc].scen = s /\ [o EXCEPT !.pc = pc].n = o.n
               /\ [o EXCEPT !.n = n].pc = o.pc /\ [o EXCEPT !.n = n].task = t
               /\ [o EXCEPT !.n = n].scen = s /\ [o EXCEPT !.n = n].n = n
               /\ [o EXCEPT !.pc = pc, !.n = n].pc = pc
               /\ [o EXCEPT !.pc = pc, !.n = n].task = t
               /\ [o EXCEPT !.pc = pc, !.n = n].scen = s
               /\ [o EXCEPT !.pc = pc, !.n = n].n = n
    BY <1>0 DEF Thread
  <1>7. \A n \in seen : objects[n] # NoId
    BY DEF SiteInv
  <1>8. o.id # NoId
    BY <1>0 DEF OwnedIn
  <1> SUFFICES Goal
    OBVIOUS
  <1> HIDE DEF Goal
  <1>9. CASE MasterGet(x)
    <2> DEFINE r == [o EXCEPT !.pc = "svc.get"]
               q == [o EXCEPT !.pc = "master.create"]
    <2>1. r.pc = "svc.get" /\ r.task = t /\ r.scen = s
          /\ q.pc = "master.create" /\ q.task = t /\ q.scen = s
      BY <1>6
    <2>2. UNCHANGED objects /\ ((Set(x, r) /\ Master(s) \in seen) \/ Set(x, q))
      BY <1>9 DEF MasterGet, GetObject, Goto, clusterVars
    <2> HIDE DEF r, q
    <2> QED BY <1>5, <1>7, <2>1, <2>2 DEF ProvisionSteps
  <1>10. CASE MasterCreate(x)
    <2>1. CASE Set(x, Reporting(x, "PROVISIONING_MASTER", ""))
      BY <1>4, <2>1
    <2>2. CASE Make(x, Master(s)) /\ Goto(x, "svc.get")
      <3> DEFINE r == [o EXCEPT !.pc = "svc.get"]
      <3>1. r.pc = "svc.get" /\ r.task = t /\ r.scen = s
        BY <1>6
      <3>2. Set(x, r)
        BY <2>2 DEF Goto
      <3>3. objects'[Master(s)] # NoId
        BY <1>0, <1>2, <1>8, <2>2 DEF Make
      <3> HIDE DEF r
      <3> QED BY <1>5, <3>1, <3>2, <3>3 DEF ProvisionSteps
    <2> QED BY <1>10, <2>1, <2>2 DEF MasterCreate
  <1>11. CASE SvcGet(x)
    <2> DEFINE r == [o EXCEPT !.pc = "poll"]
               q == [o EXCEPT !.pc = "svc.create"]
    <2>1. r.pc = "poll" /\ r.task = t /\ r.scen = s
          /\ q.pc = "svc.create" /\ q.task = t /\ q.scen = s
      BY <1>6
    <2>2. /\ UNCHANGED objects /\ o.pc = "svc.get"
          /\ (Set(x, r) /\ Svc(s) \in seen) \/ Set(x, q)
      BY <1>11 DEF SvcGet, GetObject, Goto, clusterVars
    <2>3. status[t].live /\ Private(s) => objects'[Master(s)] # NoId
      BY <1>1, <2>2 DEF Stage
    <2> HIDE DEF r, q
    <2> QED BY <1>5, <1>7, <2>1, <2>2, <2>3 DEF ProvisionSteps
  <1>12. CASE SvcCreate(x)
    <2>1. CASE Set(x, Reporting(x, "FAILED", "PROVISIONING_MASTER"))
      BY <1>4, <2>1
    <2>2. CASE Make(x, Svc(s)) /\ Goto(x, "poll")
      <3> DEFINE r == [o EXCEPT !.pc = "poll"]
      <3>1. r.pc = "poll" /\ r.task = t /\ r.scen = s
        BY <1>6
      <3>2. Set(x, r)
        BY <2>2 DEF Goto
      <3>3. objects'[Svc(s)] # NoId
        BY <1>0, <1>2, <1>8, <2>2 DEF Make
      <3>4. status[t].live /\ Private(s) => objects'[Master(s)] # NoId
        BY <1>1, <1>12 DEF Stage, SvcCreate
      <3> HIDE DEF r
      <3> QED BY <1>5, <3>1, <3>2, <3>3, <3>4 DEF ProvisionSteps
    <2> QED BY <1>12, <2>1, <2>2 DEF SvcCreate
  <1>13. CASE Poll(x)
    <2>1. CASE Set(x, Reporting(x, "PROVISIONING_MASTER", ""))
      BY <1>4, <2>1
    <2>2. CASE MasterReady(t, s) /\ Set(x, [o EXCEPT !.pc = "worker.get", !.n = 1])
      <3> DEFINE r == [o EXCEPT !.pc = "worker.get", !.n = 1]
      <3>1. r.pc = "worker.get" /\ r.task = t /\ r.scen = s /\ r.n = 1
        BY <1>6
      <3>2. objects'[Svc(s)] # NoId /\ Started(s, objects', pod')
        BY <1>7, <1>13, <2>2 DEF MasterReady, Poll, Started, clusterVars
      <3>3. \A i \in 1..Workers[s] : ~(i < 1)
        BY <1>0
      <3>4. Set(x, r)
        BY <2>2
      <3> HIDE DEF r
      <3> QED BY <1>5, <3>1, <3>2, <3>3, <3>4 DEF ProvisionSteps
    <2>3. CASE Set(x, [o EXCEPT !.n = o.n + 1])
      <3> DEFINE r == [o EXCEPT !.n = o.n + 1]
      <3>1. r.pc = "poll" /\ r.task = t /\ r.scen = s
        BY <1>6, <1>13 DEF Poll
      <3>2. status[t].live /\ Private(s) =>
              objects'[Master(s)] # NoId /\ objects'[Svc(s)] # NoId
        BY <1>1, <1>13 DEF Stage, Poll
      <3>3. Set(x, r)
        BY <2>3
      <3> HIDE DEF r
      <3> QED BY <1>5, <3>1, <3>2, <3>3 DEF ProvisionSteps
    <2> QED BY <1>13, <2>1, <2>2, <2>3 DEF Poll
  \* The loop over the workers.
  <1>14. ASSUME o.pc \in {"worker.get", "worker.create"}, status[t].live, Private(s)
         PROVE  /\ objects'[Svc(s)] # NoId /\ Started(s, objects', pod') /\ o.n > 0
                /\ \A i \in 1..Workers[s] : i < o.n => objects'[Worker(t, s, i)] # NoId
                /\ o.pc = "worker.create" => o.n <= Workers[s]
    BY <1>1, <1>14 DEF Stage
  <1>15. ASSUME o.pc \in {"worker.get", "worker.create"},
                status[t].live /\ Private(s) => objects'[w] # NoId,
                NEW r, Set(x, r), r.task = t, r.scen = s, r.pc = "worker.get", r.n = o.n + 1
         PROVE  Goal
    <2>1. status[t].live /\ Private(s) =>
            \A i \in 1..Workers[s] : i < r.n => objects'[Worker(t, s, i)] # NoId
      <3> SUFFICES ASSUME status[t].live, Private(s), NEW i \in 1..Workers[s], i < r.n
                   PROVE  objects'[Worker(t, s, i)] # NoId
        OBVIOUS
      <3>1. i < o.n \/ i = o.n
        BY <1>0, <1>15
      <3> QED BY <1>14, <1>15, <3>1
    <2>2. status[t].live /\ Private(s) => r.n > 0
      BY <1>0, <1>14, <1>15
    <2> QED BY <1>5, <1>14, <1>15, <2>1, <2>2 DEF ProvisionSteps
  <1>16. CASE WorkerGet(x)
    <2>0. UNCHANGED objects /\ o.pc = "worker.get" /\ o.n <= Workers[s]
      BY <1>16 DEF WorkerGet, clusterVars
    <2>1. CASE Set(x, Reporting(x, "FAILED", "PROVISIONING_WORKER"))
      BY <1>4, <2>1
    <2>2. CASE /\ IF t \in Distributed THEN objects[w] # NoId ELSE w \in seen
               /\ Set(x, [o EXCEPT !.n = o.n + 1])
      <3> DEFINE r == [o EXCEPT !.n = o.n + 1]
      <3>1. r.pc = "worker.get" /\ r.task = t /\ r.scen = s /\ r.n = o.n + 1
        BY <1>6, <2>0
      <3>2. objects'[w] # NoId
        BY <1>7, <2>0, <2>2
      <3>3. Set(x, r)
        BY <2>2
      <3> HIDE DEF r, w
      <3> QED BY <1>15, <2>0, <3>1, <3>2, <3>3
    <2>3. CASE Goto(x, "worker.create")
      <3> DEFINE r == [o EXCEPT !.pc = "worker.create"]
      <3>1. r.pc = "worker.create" /\ r.task = t /\ r.scen = s /\ r.n = o.n
        BY <1>6
      <3>2. Set(x, r)
        BY <2>3 DEF Goto
      <3> HIDE DEF r
      <3> QED BY <1>5, <1>14, <2>0, <3>1, <3>2 DEF ProvisionSteps
    <2> QED BY <1>16, <2>1, <2>2, <2>3 DEF WorkerGet
  <1>17. CASE WorkerCreate(x)
    <2>0. o.pc = "worker.create"
      BY <1>17 DEF WorkerCreate
    <2>1. CASE Set(x, Reporting(x, "FAILED", "PROVISIONING_WORKER"))
      BY <1>4, <2>1
    <2>2. CASE Make(x, w) /\ Set(x, [o EXCEPT !.pc = "worker.get", !.n = o.n + 1])
      <3> DEFINE r == [o EXCEPT !.pc = "worker.get", !.n = o.n + 1]
      <3>1. r.pc = "worker.get" /\ r.task = t /\ r.scen = s /\ r.n = o.n + 1
        BY <1>6
      <3>2. status[t].live /\ Private(s) => objects'[w] # NoId
        <4> SUFFICES ASSUME status[t].live, Private(s)  PROVE objects'[w] # NoId
          OBVIOUS
        <4>1. o.n \in 1..Workers[s]
          BY <1>0, <1>14, <2>0
        <4>2. w \in Names
          BY <1>2, <4>1
        <4> QED BY <1>0, <1>8, <2>2, <4>2 DEF Make
      <3>3. Set(x, r)
        BY <2>2
      <3> HIDE DEF r, w
      <3> QED BY <1>15, <2>0, <3>1, <3>2, <3>3
    <2> QED BY <1>17, <2>1, <2>2 DEF WorkerCreate
  <1>18. CASE WorkersDone(x)
    <2>0. CASE Set(x, Reporting(x, "FAILED", "PROVISIONING_WORKER"))
      BY <1>4, <2>0
    <2>1. UNCHANGED objects /\ o.pc = "worker.get" /\ o.n > Workers[s]
      BY <1>18 DEF WorkersDone, clusterVars
    <2>2. CASE /\ status[t].live /\ Private(s)
               /\ Set(x, Reporting(x, "TESTING", "TESTING"))
      <3>1. \A i \in 1..Workers[s] : i < o.n
        BY <1>0, <2>1
      <3>2. Equipped(t, s, objects')
        BY <1>14, <2>1, <2>2, <3>1 DEF Equipped
      <3> QED BY <1>4, <2>1, <2>2, <3>2
    <2>3. CASE /\ ~(status[t].live /\ Private(s))
               /\ Set(x, Reporting(x, "TESTING", "TESTING"))
      <3> DEFINE r == Reporting(x, "TESTING", "TESTING")
      <3>1. th'[x] = r /\ r.task = t /\ r.scen = s
        BY <1>0, <1>3, <2>3 DEF Reporting, Thread
      <3> HIDE DEF r
      <3> QED BY <1>1, <2>3, <3>1 DEF Stage, Goal
    <2> QED BY <1>18, <2>0, <2>2, <2>3 DEF WorkersDone
  <1> QED
    BY <1>9, <1>10, <1>11, <1>12, <1>13, <1>16, <1>17, <1>18 DEF Provision

LEMMA StageStep ==
  ASSUME ConstantsAssumption, TypeOK, VersionInv, ReportInv, SiteInv, [Next]_vars,
         NEW y \in Provisioners
  PROVE  Stage(th'[y], status', objects', pod')
  <1>0. /\ y \in Threads /\ y \notin Watchers /\ th \in [Threads -> Thread]
        /\ \A x \in Threads : ThreadOK(x, th[x])
    BY Sides, TypeParts
  <1>1. ASSUME NEW r, r.pc \in {"idle", "master.get"}, th'[y] = r
        PROVE  Stage(th'[y], status', objects', pod')
    BY <1>1 DEF Stage, UpdateSteps
  <1>2. CASE th'[y] = th[y]
    BY <1>1, <1>2, StageStable
  <1>3. CASE th'[y] = IdleThread
    <2>1. IdleThread.pc = "idle"
      BY DEF IdleThread
    <2> QED BY <1>1, <1>3, <2>1
  <1>4. ASSUME NEW s \in Scenarios, NEW g \in Slots, RecSpawn(s, g)
        PROVE  Stage(th'[y], status', objects', pod')
    <2> DEFINE x == <<g, "provision">>
               r == [IdleThread EXCEPT !.pc = "master.get", !.task = rec.task,
                                       !.scen = s, !.id = rec.copy.id]
    <2>1. th' = [th EXCEPT ![x] = r]
      BY <1>4 DEF RecSpawn
    <2>2. r.pc = "master.get"
      BY DEF IdleThread
    <2> HIDE DEF x, r
    <2> QED BY <1>0, <1>1, <1>2, <2>1, <2>2
  <1>5. ASSUME NEW x \in Threads, Provision(x)
        PROVE  Stage(th'[y], status', objects', pod')
    <2>1. CASE y = x
      BY <1>5, <2>1, ProvisionStage
    <2>2. CASE y # x
      BY <1>0, <1>2, <1>5, <2>2, ProvisionRecord
    <2> QED BY <2>1, <2>2
  <1>6. ASSUME NEW x \in Threads, Watch(x)
        PROVE  Stage(th'[y], status', objects', pod')
    BY <1>0, <1>2, <1>6, WatchRecord
  \* A record of updateStatus that reports no TESTING its predecessor did not.
  <1>7. ASSUME NEW r, th'[y] = r, th[y].pc \in UpdateSteps, r.pc \in UpdateSteps,
               r.task = th[y].task, r.scen = th[y].scen,
               "TESTING" \in {r.ph, r.next} => "TESTING" \in {th[y].ph, th[y].next}
        PROVE  Stage(th'[y], status', objects', pod')
    <2>1. Stage(th[y], status', objects', pod')
      BY <1>7, StageStable DEF UpdateSteps
    <2> DEFINE o == th[y]
    <2>2. r.task = o.task /\ r.scen = o.scen /\ r.pc \in UpdateSteps /\ o.pc \in UpdateSteps
      BY <1>7
    <2>3. r.pc \notin {"svc.get", "svc.create", "poll", "worker.get", "worker.create"}
      BY <2>2 DEF UpdateSteps
    <2>4. Stage(o, status', objects', pod') /\ th'[y] = r
          /\ ("TESTING" \in {r.ph, r.next} => "TESTING" \in {o.ph, o.next})
      BY <1>7, <2>1
    <2> HIDE DEF o
    <2> QED BY <2>2, <2>3, <2>4 DEF Stage
  <1>8. ASSUME NEW x \in Threads, UpdateGet(x) \/ UpdatePut(x), th' = Returned(x)
        PROVE  Stage(th'[y], status', objects', pod')
    <2>0. th[x] \in Thread /\ th[x].pc \in UpdateSteps
      BY <1>0, <1>8 DEF UpdateGet, UpdatePut, UpdateSteps
    <2>1. CASE x \in Watchers
      <3> DEFINE r == [th[x] EXCEPT !.pc = "visit", !.scen = None, !.ph = "",
                                    !.copy = NoVersion, !.left = th[x].left - 1]
      <3>1. th' = [th EXCEPT ![x] = r]
        BY <1>8, <2>1 DEF Returned
      <3> HIDE DEF r
      <3> QED BY <1>0, <1>2, <2>1, <3>1
    <2>2. CASE x \notin Watchers /\ th[x].next = ""
      <3>1. th' = [th EXCEPT ![x] = IdleThread]
        BY <1>8, <2>2 DEF Returned
      <3>2. th'[y] = th[y] \/ th'[y] = IdleThread
        BY <1>0, <3>1
      <3> QED BY <1>2, <1>3, <3>2
    <2>3. CASE x \notin Watchers /\ th[x].next # ""
      <3> DEFINE r == [th[x] EXCEPT !.pc = "update.get", !.ph = th[x].next, !.next = "",
                                    !.copy = NoVersion]
                 w == [IdleThread EXCEPT !.pc = "list", !.task = th[x].task,
                                         !.id = th[x].id]
      <3>1. th' = [z \in Threads |->
                     IF z = x THEN r
                     ELSE IF z = <<x[1], "watch">> /\ th[x].ph = "TESTING" THEN w
                     ELSE th[z]]
        BY <1>8, <2>3 DEF Returned
      <3>2. /\ r.pc = "update.get" /\ r.task = th[x].task /\ r.scen = th[x].scen
            /\ r.ph = th[x].next /\ r.next = ""
        BY <2>0 DEF Thread
      <3>3. y # <<x[1], "watch">>
        BY DEF Provisioners
      <3> HIDE DEF r, w
      <3>4. CASE y = x
        <4>1. th'[y] = r
          BY <1>0, <3>1, <3>4
        <4> QED BY <1>7, <2>0, <3>2, <3>4, <4>1 DEF UpdateSteps
      <3>5. CASE y # x
        BY <1>0, <1>2, <3>1, <3>3, <3>5
      <3> QED BY <3>4, <3>5
    <2> QED BY <2>1, <2>2, <2>3
  <1>9. ASSUME NEW x \in Threads, UpdateStatus(x)
        PROVE  Stage(th'[y], status', objects', pod')
    <2>0. th[x] \in Thread
      BY <1>0
    <2>1. CASE UpdateGet(x) /\ cache[th[x].task].live
      <3> DEFINE pc == TellStep(th[x].task, "update.tell", "update.put")
                 r == [th[x] EXCEPT !.pc = pc, !.copy = Reported(x, cache[th[x].task])]
      <3>1. pc \in UpdateSteps /\ th[x].pc \in UpdateSteps
        BY <2>1 DEF TellStep, UpdateSteps, UpdateGet
      <3>2. th' = [th EXCEPT ![x] = r]
        BY <2>1 DEF UpdateGet, Set
      <3>3. /\ r.pc = pc /\ r.task = th[x].task /\ r.scen = th[x].scen
            /\ r.ph = th[x].ph /\ r.next = th[x].next
        BY <2>0 DEF Thread
      <3> HIDE DEF pc, r
      <3>4. CASE y = x
        <4>1. th'[y] = r
          BY <1>0, <3>2, <3>4
        <4> QED BY <1>7, <3>1, <3>3, <3>4, <4>1
      <3>5. CASE y # x
        BY <1>0, <1>2, <3>2, <3>5
      <3> QED BY <3>4, <3>5
    <2>2. CASE UpdateTell(x)
      <3> DEFINE r == [th[x] EXCEPT !.pc = "update.put"]
      <3>1. th' = [th EXCEPT ![x] = r] /\ th[x].pc \in UpdateSteps
        BY <2>2 DEF UpdateTell, Goto, Set, UpdateSteps
      <3>2. /\ r.pc = "update.put" /\ r.task = th[x].task /\ r.scen = th[x].scen
            /\ r.ph = th[x].ph /\ r.next = th[x].next
        BY <2>0 DEF Thread
      <3> HIDE DEF r
      <3>3. CASE y = x
        <4>1. th'[y] = r
          BY <1>0, <3>1, <3>3
        <4> QED BY <1>7, <3>1, <3>2, <3>3, <4>1 DEF UpdateSteps
      <3>4. CASE y # x
        BY <1>0, <1>2, <3>1, <3>4
      <3> QED BY <3>3, <3>4
    <2> QED BY <1>8, <1>9, <2>1, <2>2 DEF UpdateStatus, UpdateGet, UpdatePut
  <1>10. CASE UNCHANGED th
    BY <1>2, <1>10
  <1>11. CASE Reconcile
    BY <1>4, <1>10, <1>11
    DEF Reconcile, RecSkip, RecIdentify, RecKnown, RecTell, RecPut, RecReturn
  <1>12. CASE User \/ Cluster \/ \E t \in Tasks : Deliver(t)
    BY <1>10, <1>12
    DEF User, Submit, Edit, Delete, Cluster, Collect, Observe, PodStep, Ingress, Deliver
  <1>13. CASE Crash
    BY <1>0, <1>3, <1>13 DEF Crash
  <1>14. CASE UNCHANGED vars
    BY <1>10, <1>14 DEF vars
  <1> QED BY <1>5, <1>6, <1>9, <1>11, <1>12, <1>13, <1>14 DEF Next

-----------------------------------------------------------------------------
(* Phases and archives come from the goroutines' reports *)

\* A phase of t that is stored was stored, or comes from a goroutine of t that reports it.
PhaseReported(t, s) ==
    status'[t].phases[s] # "" =>
    \/ status[t].live /\ status[t].phases[s] = status'[t].phases[s]
    \/ \E x \in Threads : /\ th[x].pc = "update.put" /\ th[x].task = t
                          /\ th[x].scen = s /\ th[x].ph = status'[t].phases[s]

\* An archive comes from a watcher of t.
ArchiveReported(t, s) ==
    s \in status'[t].archives =>
    \/ status[t].live /\ s \in status[t].archives
    \/ \E x \in Watchers : th[x].pc = "update.put" /\ th[x].task = t /\ th[x].scen = s

LEMMA Reports ==
  ASSUME ConstantsAssumption, TypeOK, VersionInv, ReportInv, [Next]_vars,
         NEW t \in Tasks, NEW s \in Scenarios, status'[t].live
  PROVE  PhaseReported(t, s) /\ ArchiveReported(t, s)
  <1> DEFINE v == status[t]
             w == status'[t]
             Phase == PhaseReported(t, s)
             Archive == ArchiveReported(t, s)
  <1> SUFFICES Phase /\ Archive
    OBVIOUS
  <1>0. /\ status \in [Tasks -> Version] /\ Submitted(status) /\ v \in Version
        /\ RecFresh(rec, status) /\ RecOK(rec) /\ w.live
    BY VersionParts, TypeParts DEF TypeOK
  <1>1. CASE w.phases = v.phases /\ w.archives = v.archives /\ v.live
    BY <1>1 DEF PhaseReported, ArchiveReported
  <1> HIDE DEF Phase, Archive
  <1>2. CASE UNCHANGED status
    BY <1>0, <1>1, <1>2
  <1>3. ASSUME NEW u \in Tasks, Submit(u)  PROVE Phase /\ Archive
    <2>1. CASE u = t
      <3>1. v = NoVersion
        BY <1>0, <1>3, <2>1 DEF Submit, Submitted
      <3>2. w = [v EXCEPT !.rv = 1, !.live = TRUE]
        BY <1>0, <1>3, <2>1 DEF Submit
      <3>3. w.phases = v.phases /\ w.archives = v.archives
        BY <1>0, <3>2 DEF Version
      <3>4. v.phases[s] = "" /\ v.archives = {}
        <4>1. NoVersion.phases[s] = "" /\ NoVersion.archives = {}
          BY DEF NoVersion
        <4> QED BY <3>1, <4>1
      <3> HIDE DEF v, w
      <3> QED BY <3>3, <3>4 DEF Phase, Archive, PhaseReported, ArchiveReported, v, w
    <2>2. CASE u # t
      <3>1. w = v
        BY <1>0, <1>3, <2>2 DEF Submit
      <3> QED BY <1>0, <1>1, <3>1
    <2> QED BY <2>1, <2>2
  <1>4. ASSUME NEW u \in Tasks, Edit(u) \/ Delete(u)  PROVE Phase /\ Archive
    <2>1. CASE Edit(u)
      <3>1. w = [v EXCEPT !.rv = v.rv + 1] \/ w = v
        BY <1>0, <2>1 DEF Edit
      <3>2. w.phases = v.phases /\ w.archives = v.archives /\ w.live = v.live
        <4>1. CASE w = [v EXCEPT !.rv = v.rv + 1]
          <5> DEFINE z == [v EXCEPT !.rv = v.rv + 1]
          <5>1. z.phases = v.phases /\ z.archives = v.archives /\ z.live = v.live
            BY <1>0 DEF Version
          <5> HIDE DEF z
          <5> QED BY <4>1, <5>1 DEF z
        <4> QED BY <3>1, <4>1
      <3> QED BY <1>0, <1>1, <3>2
    <2>2. CASE Delete(u)
      <3>1. u # t
        BY <1>0, <2>2 DEF Delete, NoVersion
      <3>2. w = v
        BY <1>0, <2>2, <3>1 DEF Delete
      <3> QED BY <1>0, <1>1, <3>2
    <2> QED BY <1>4, <2>1, <2>2
  <1>5. CASE RecPut
    <2> DEFINE u == rec.task
               c == Stored(u, rec.copy, TRUE)
    <2>0. u \in Tasks /\ rec.copy \in Version
      BY <1>0, <1>5 DEF RecPut, RecOK, Rec
    <2>1. CASE Current(u, rec.copy) /\ u = t
      <3>1. w = c
        BY <1>0, <1>5, <2>1 DEF RecPut
      <3>2. c = [rec.copy EXCEPT !.rv = rec.copy.rv + 1]
        BY <2>0, StoredType
      <3>3. c.phases = rec.copy.phases /\ c.archives = rec.copy.archives
        BY <2>0, <3>2 DEF Version
      <3>4. v.live /\ rec.copy.rv = v.rv
        BY <2>1 DEF Current
      <3>5. rec.copy.phases = v.phases /\ rec.copy.archives = v.archives
        BY <1>0, <1>5, <2>1, <3>4 DEF RecFresh, RecPut
      <3> HIDE DEF c
      <3> QED BY <1>1, <3>1, <3>3, <3>4, <3>5
    <2>2. CASE ~(Current(u, rec.copy) /\ u = t)
      <3>1. w = v
        BY <1>0, <1>5, <2>2 DEF RecPut
      <3> QED BY <1>0, <1>1, <3>1
    <2> QED BY <2>1, <2>2
  <1>6. ASSUME NEW x \in Threads, UpdatePut(x)  PROVE Phase /\ Archive
    <2> DEFINE u == th[x].task
               c == th[x].copy
               changes == x \in Watchers \/ c # status[u]
               d == Stored(u, c, changes)
    <2>0. u \in Tasks /\ c \in Version /\ Reporter(x, th[x], status) /\ th[x].pc = "update.put"
      BY <1>6, TypeParts DEF UpdatePut, ThreadOK, Thread, UpdateSteps, ReportInv
    <2>1. CASE Current(u, c) /\ u = t
      <3>1. w = d
        BY <1>0, <1>6, <2>1, Zenon DEF UpdatePut
      <3>2. d.phases = c.phases /\ d.archives = c.archives
        <4>1. d = c \/ d = [c EXCEPT !.rv = c.rv + 1]
          BY <2>0, StoredType
        <4> HIDE DEF d
        <4> QED BY <2>0, <4>1 DEF Version
      <3>3. v.live /\ c.rv = v.rv
        BY <2>1 DEF Current
      <3>4. c = ReportedBy(x, th[x], v)
        BY <2>0, <2>1, <3>3 DEF Reporter
      <3>5. /\ c.phases = [v.phases EXCEPT ![th[x].scen] = th[x].ph]
            /\ c.archives = IF x \in Watchers THEN v.archives \cup {th[x].scen} ELSE v.archives
        BY <1>0, <3>4 DEF ReportedBy, Version
      <3>6. v.phases \in [Scenarios -> Phases \cup {""}]
        BY <1>0 DEF Version
      <3>7. /\ w.phases[s] = IF th[x].scen = s THEN th[x].ph ELSE v.phases[s]
            /\ s \in w.archives => s \in v.archives \/ (x \in Watchers /\ th[x].scen = s)
        <4> DEFINE f == v.phases
                   g == v.archives
        <4>1. w.phases = [f EXCEPT ![th[x].scen] = th[x].ph]
          BY <3>1, <3>2, <3>5
        <4>2. w.archives = IF x \in Watchers THEN g \cup {th[x].scen} ELSE g
          BY <3>1, <3>2, <3>5
        <4>3. f \in [Scenarios -> Phases \cup {""}]
          BY <3>6
        <4> HIDE DEF f, g, w
        <4>4. w.phases[s] = IF th[x].scen = s THEN th[x].ph ELSE f[s]
          BY <4>1, <4>3
        <4>5. s \in w.archives => s \in g \/ (x \in Watchers /\ th[x].scen = s)
          BY <4>2
        <4> QED BY <4>4, <4>5 DEF f, g
      <3> HIDE DEF v, w, c, d, changes
      <3> QED BY <2>0, <2>1, <3>3, <3>7 DEF Phase, Archive, PhaseReported, ArchiveReported, v, w
    <2>2. CASE ~(Current(u, c) /\ u = t)
      <3>1. w = v
        <4>1. CASE Current(u, c)
          BY <1>0, <1>6, <2>2, <4>1, Zenon DEF UpdatePut
        <4>2. CASE ~Current(u, c)
          BY <1>6, <4>2 DEF UpdatePut
        <4> QED BY <4>1, <4>2
      <3> QED BY <1>0, <1>1, <3>1
    <2> QED BY <2>1, <2>2
  <1>7. CASE Reconcile
    BY <1>2, <1>5, <1>7
    DEF Reconcile, RecSkip, RecIdentify, RecKnown, RecTell, RecReturn, RecSpawn, taskVars
  <1>8. CASE Cluster \/ Crash \/ \E u \in Tasks : Deliver(u)
    BY <1>2, <1>8
    DEF Cluster, Collect, Observe, PodStep, Ingress, Crash, Deliver, taskVars
  <1>9. ASSUME NEW x \in Threads, Provision(x) \/ UpdateStatus(x) \/ Watch(x)
        PROVE  Phase /\ Archive
    <2>1. CASE Provision(x)
      BY <1>2, <2>1
      DEF Provision, MasterGet, MasterCreate, SvcGet, SvcCreate, Poll, WorkerGet,
          WorkerCreate, WorkersDone, GetObject, taskVars
    <2>2. CASE UpdateStatus(x)
      BY <1>2, <1>6, <2>2 DEF UpdateStatus, UpdateGet, UpdateTell, taskVars
    <2>3. CASE Watch(x)
      BY <1>2, <2>3 DEF Watch, WatchList, WatchVisit, WatchCopy, WatchRound, taskVars
    <2> QED BY <1>9, <2>1, <2>2, <2>3
  <1>10. CASE UNCHANGED vars
    BY <1>2, <1>10 DEF vars
  <1>11. CASE User
    BY <1>3, <1>4, <1>11 DEF User
  <1> QED BY <1>7, <1>8, <1>9, <1>10, <1>11 DEF Next

-----------------------------------------------------------------------------
(* The invariant *)

\* What provisioners make belongs to their task.
LEMMA MadeOwned ==
  ASSUME ConstantsAssumption, TypeOK, VersionInv, NEW x \in Threads, Making(x),
         NEW t \in Tasks, NEW s \in ScenariosOf[t], Private(s),
         NEW n \in SiteNames(t, s), n = NameMade(th[x])
  PROVE  th[x].task = t /\ th[x].scen = s /\ OwnedIn(status, t, th[x].id)
  <1>1. th[x].pc # "idle" /\ x \in Provisioners
    BY DEF Making
  <1>2. th[x].task \in Tasks /\ th[x].scen \in ScenariosOf[th[x].task]
    BY <1>1, TypeParts DEF ThreadOK
  <1>3. th[x].scen = s
    BY NameOfScenario DEF NameMade
  <1>4. th[x].task = t
    BY <1>2, <1>3 DEF Private
  <1> QED BY <1>1, <1>3, <1>4, VersionParts DEF ThreadFresh

LEMMA SiteStep ==
  ASSUME ConstantsAssumption, TypeOK, VersionInv, ReportInv, SiteInv, [Next]_vars,
         NEW t \in Tasks, NEW s \in ScenariosOf[t], Private(s)
  PROVE  SiteOf(t, s, status', objects', pod')
  <1>0. /\ s \in Scenarios /\ objects \in [Names -> Nat] /\ th \in [Threads -> Thread]
        /\ status \in [Tasks -> Version] /\ status' \in [Tasks -> Version]
        /\ Evolution(status, status') /\ SiteOf(t, s, status, objects, pod)
        /\ SiteNames(t, s) \subseteq Names
    BY StepEvolves, TypeStep, SiteNamesExist DEF TypeOK, ConstantsAssumption, SiteInv
  <1>1. ASSUME NEW n \in SiteNames(t, s), objects'[n] # NoId, objects'[n] # objects[n]
        PROVE  \E x \in Threads : Making(x) /\ n = NameMade(th[x]) /\ objects'[n] = th[x].id
    <2>1. ~Untouched
      BY <1>1 DEF Untouched
    <2>2. \A m \in HomeNames : ~Collect(m)
      BY <1>0, <1>1 DEF Collect
    <2> QED BY <1>0, <1>1, <2>1, <2>2, ObjectsStep DEF Making, Make
  <1>2. ASSUME NEW n \in SiteNames(t, s), objects'[n] # NoId
        PROVE  OwnedIn(status', t, objects'[n])
    <2>1. OwnedIn(status, t, objects'[n])
      <3>1. CASE objects'[n] = objects[n]
        BY <1>0, <1>2, <3>1 DEF SiteOf
      <3>2. CASE objects'[n] # objects[n]
        BY <1>1, <1>2, <3>2, MadeOwned
      <3> QED BY <3>1, <3>2
    <2> QED BY <1>0, <2>1, OwnedStable
  <1>3. ASSUME status'[t].live, NEW i \in 1..Workers[s], objects'[Worker(t, s, i)] # NoId
        PROVE  Started(s, objects', pod')
    <2> DEFINE w == Worker(t, s, i)
    <2>0. w \in SiteNames(t, s)
      BY DEF SiteNames
    <2>1. Started(s, objects, pod)
      <3>1. CASE objects'[w] = objects[w]
        <4>1. OwnedIn(status, t, objects[w])
          BY <1>0, <1>3, <2>0, <3>1 DEF SiteOf
        <4>2. status[t].live
          BY <1>0, <1>3, <4>1, LivedBefore
        <4> QED BY <1>0, <1>3, <3>1, <4>2 DEF SiteOf
      <3>2. CASE objects'[w] # objects[w]
        <4>1. PICK x \in Threads : Making(x) /\ w = NameMade(th[x])
          BY <1>1, <1>3, <2>0, <3>2
        <4>2. th[x].task = t /\ th[x].scen = s /\ OwnedIn(status, t, th[x].id)
          BY <2>0, <4>1, MadeOwned
        <4>3. status[t].live
          BY <1>0, <1>3, <4>2, LivedBefore
        <4>4. th[x].pc = "worker.create"
          BY <4>1, <4>2, NameOfScenario DEF NameMade, Making
        <4> QED BY <4>1, <4>2, <4>3, <4>4 DEF SiteInv, Stage, Making
      <3> QED BY <3>1, <3>2
    <2>2. SiteStays(t, s)
      BY <1>3, Kept
    <2> QED BY <2>1, <2>2 DEF SiteStays
  <1>4. ASSUME status'[t].live, status'[t].phases[s] = "TESTING"
        PROVE  Equipped(t, s, objects')
    <2>1. Equipped(t, s, objects)
      <3>1. CASE status[t].live /\ status[t].phases[s] = "TESTING"
        BY <1>0, <3>1 DEF SiteOf
      <3>2. ASSUME NEW x \in Threads, th[x].pc = "update.put", th[x].task = t,
                   th[x].scen = s, th[x].ph = "TESTING"
            PROVE  Equipped(t, s, objects)
        <4>1. x \in Provisioners
          BY <3>2, Sides DEF ReportInv, Reporter, UpdateSteps
        <4>2. OwnedIn(status, t, th[x].id)
          BY <3>2, <4>1, VersionParts DEF ThreadFresh
        <4>3. status[t].live
          BY <1>0, <1>4, <4>2, LivedBefore
        <4>4. Stage(th[x], status, objects, pod)
          BY <4>1 DEF SiteInv
        <4>5. th[x].pc \in UpdateSteps /\ "TESTING" \in {th[x].ph, th[x].next}
          BY <3>2 DEF UpdateSteps
        <4> QED BY <3>2, <4>3, <4>4, <4>5 DEF Stage
      <3>3. status'[t].phases[s] # "" /\ status'[t].live
        BY <1>4
      <3>4. PhaseReported(t, s)
        BY <1>0, <1>4, Reports
      <3> QED BY <1>4, <3>1, <3>2, <3>3, <3>4 DEF PhaseReported
    <2>2. SiteStays(t, s)
      BY <1>4, Kept
    <2> QED BY <2>1, <2>2 DEF SiteStays, Equipped, SiteNames
  <1> QED BY <1>2, <1>3, <1>4 DEF SiteOf

LEMMA SeenStep ==
  ASSUME TypeOK, SiteInv, [Next]_vars, NEW n \in seen'
  PROVE  objects'[n] # NoId
  <1>0. /\ seen \subseteq HomeNames /\ objects \in [Names -> Nat]
        /\ \A m \in seen : objects[m] # NoId
    BY DEF TypeOK, SiteInv
  <1>1. CASE Untouched
    BY <1>0, <1>1 DEF Untouched
  <1>2. ASSUME NEW x \in Threads, Making(x)  PROVE objects'[n] # NoId
    BY <1>0, <1>2 DEF Making, Make, Names
  <1>3. ASSUME NEW m \in HomeNames, Collect(m)  PROVE objects'[n] # NoId
    BY <1>0, <1>3 DEF Collect, Names
  <1> QED BY <1>1, <1>2, <1>3, ObjectsStep

LEMMA InitSites == ASSUME ConstantsAssumption, Init PROVE SiteInv
  <1>1. /\ seen = {} /\ \A t \in Tasks : status[t] = NoVersion
        /\ \A n \in Names : objects[n] = NoId
        /\ \A x \in Provisioners : th[x] = IdleThread
    BY Sides DEF Init
  <1>2. IdleThread.pc = "idle"
    BY DEF IdleThread
  <1>3. \A x \in Provisioners : Stage(th[x], status, objects, pod)
    BY <1>1, <1>2 DEF Stage, UpdateSteps
  <1>4. ASSUME NEW t \in Tasks, NEW s \in ScenariosOf[t]
        PROVE  SiteOf(t, s, status, objects, pod)
    <2>1. SiteNames(t, s) \subseteq Names
      BY SiteNamesExist DEF ConstantsAssumption
    <2> QED BY <1>1, <2>1, NoVersionDead DEF SiteOf
  <1> QED BY <1>1, <1>3, <1>4 DEF SiteInv

LEMMA SiteInvariant == Spec => [](IInv /\ ReportInv /\ SiteInv)
  <1>1. Init => SiteInv
    BY ConstantsAssumption, InitSites
  <1>2. IInv /\ ReportInv /\ SiteInv /\ [Next]_vars => SiteInv'
    <2> SUFFICES ASSUME IInv, ReportInv, SiteInv, [Next]_vars  PROVE SiteInv'
      OBVIOUS
    <2>1. TypeOK /\ VersionInv
      BY DEF IInv
    <2>2. \A n \in seen' : objects'[n] # NoId
      BY <2>1, SeenStep
    <2>3. \A t \in Tasks : \A s \in ScenariosOf[t] :
            Private(s) => SiteOf(t, s, status', objects', pod')
      BY <2>1, ConstantsAssumption, SiteStep
    <2>4. \A x \in Provisioners : Stage(th'[x], status', objects', pod')
      BY <2>1, ConstantsAssumption, StageStep
    <2> QED BY <2>2, <2>3, <2>4 DEF SiteInv
  <1> QED BY <1>1, <1>2, ReportInvariant, PTL DEF Spec

-----------------------------------------------------------------------------

\* No worker of a task that lives stands beside a master that never was ready, whichever of
\* its provisioners made which (do4Locust 229-240).
THEOREM WorkersAfterMaster == Spec => []WorkersNeedReadyMaster
  <1>1. SiteInv => WorkersNeedReadyMaster
    BY DEF SiteInv, SiteOf, Started, WorkersNeedReadyMaster
  <1> QED BY <1>1, SiteInvariant, PTL

\* The phase TESTING of a task that lives is never reported before the service and every
\* worker are there, and none of them goes away under it (do4Locust 241-276).
THEOREM TestingIsProvisioned == Spec => []TestingMeansProvisioned
  <1>1. SiteInv => TestingMeansProvisioned
    BY DEF SiteInv, SiteOf, Equipped, TestingMeansProvisioned
  <1> QED BY <1>1, SiteInvariant, PTL

-----------------------------------------------------------------------------
(* The split of the workers over regions *)

\* Percentages of 100 at most never ask for more workers than requested, and 100 for less
\* than one worker per region less.
LEMMA SplitBounds ==
  ASSUME ConstantsAssumption, NEW t \in Distributed, NEW s \in ScenariosOf[t]
  PROVE  /\ Workers[s] \in Nat /\ Requested[s] \in Nat /\ Len(Traffics[s]) \in Nat
         /\ Total(Traffics[s]) <= 100 => Workers[s] <= Requested[s]
         /\ Total(Traffics[s]) = 100 => Requested[s] - Len(Traffics[s]) + 1 <= Workers[s]
  <1> DEFINE w == Total(Shares(s))
             p == Total(Traffics[s])
             n == Len(Traffics[s])
             q == Requested[s]
  <1>1. s \in Scenarios /\ q \in Nat
    BY WorkersType DEF ConstantsAssumption
  <1>2. Workers[s] = w
    BY <1>1 DEF Workers, Spread
  <1>3. /\ w \in Nat /\ p \in Nat /\ n \in Nat
        /\ 100 * w <= q * p /\ q * p <= 100 * w + 99 * n
    BY <1>1, SharesAdd
  <1>4. p = 0 \/ n > 0
    <2>1. IsSum(Sums(Traffics[s]), Traffics[s], n)
      BY <1>1, WorkersType, SumsAdd
    <2>2. CASE n = 0
      BY <2>1, <2>2 DEF IsSum, Total
    <2> QED BY <1>3, <2>2
  <1> HIDE DEF w, p, n, q
  <1>5. ASSUME p <= 100  PROVE w <= q
    <2>1. q * p <= q * 100
      BY <1>1, <1>3, <1>5
    <2> QED BY <1>1, <1>3, <2>1
  <1>6. ASSUME p = 100  PROVE q - n + 1 <= w
    <2>1. 100 * q <= 100 * w + 99 * n /\ n > 0
      BY <1>1, <1>3, <1>4, <1>6
    <2> QED BY <1>1, <1>3, <2>1
  <1> QED BY <1>1, <1>2, <1>3, <1>5, <1>6 DEF p, n, q

\* No scenario that is spread over regions ever has more workers than were requested, and one in
\* TESTING lacks fewer than it has regions, for any number of regions and any percentages that
\* add up to 100: what line 284 cuts off is not lost by more than that.
THEOREM WorkersMatchRequest == Spec => []WorkersAsRequested
  <1>1. SiteInv => WorkersAsRequested
    <2> SUFFICES ASSUME SiteInv, NEW t \in Distributed, NEW s \in ScenariosOf[t],
                        Private(s), status[t].live
                 PROVE  /\ Total(Traffics[s]) <= 100 =>
                             \A i \in 1..Workers[s] :
                                objects[Worker(t, s, i)] # NoId => i <= Requested[s]
                        /\ Total(Traffics[s]) = 100 /\ status[t].phases[s] = "TESTING" =>
                             \A i \in 1..(Requested[s] - Len(Traffics[s]) + 1) :
                                /\ i <= Workers[s]
                                /\ objects[Worker(t, s, i)] # NoId
      BY DEF WorkersAsRequested
    <2>1. t \in Tasks
      BY ConstantsAssumption DEF ConstantsAssumption
    <2>2. status[t].phases[s] = "TESTING" => Equipped(t, s, objects)
      BY <2>1 DEF SiteInv, SiteOf
    <2>3. /\ Workers[s] \in Nat /\ Requested[s] \in Nat /\ Len(Traffics[s]) \in Nat
          /\ Total(Traffics[s]) <= 100 => Workers[s] <= Requested[s]
          /\ Total(Traffics[s]) = 100 => Requested[s] - Len(Traffics[s]) + 1 <= Workers[s]
      BY ConstantsAssumption, SplitBounds
    <2>4. ASSUME Total(Traffics[s]) <= 100, NEW i \in 1..Workers[s]
          PROVE  i <= Requested[s]
      BY <2>3, <2>4
    <2>5. ASSUME Total(Traffics[s]) = 100, status[t].phases[s] = "TESTING",
                 NEW i \in 1..(Requested[s] - Len(Traffics[s]) + 1)
          PROVE  i <= Workers[s] /\ objects[Worker(t, s, i)] # NoId
      <3>1. i \in 1..Workers[s]
        BY <2>3, <2>5
      <3> QED BY <2>2, <2>3, <2>5, <3>1 DEF Equipped
    <2> QED BY <2>4, <2>5
  <1> QED BY <1>1, SiteInvariant, PTL

-----------------------------------------------------------------------------
(***************************************************************************)
(* Results are of completed masters. A watcher decides on a list it made   *)
(* earlier, about scenarios of any task, and copies, tells and stores at   *)
(* times of its own; what makes that right is that a completed master      *)
(* stays completed while its task lives, and that a task that is gone does *)
(* not come back.                                                          *)
(***************************************************************************)

\* The scenario is a task's.
Served(s) == \E t \in Tasks : s \in ScenariosOf[t]

\* The master of scenario s of t ran to completion, or t is gone.
OverFor(t, s, st, ob, pd) == st[t].rv > 0 /\ (st[t].live => Completed(s, ob, pd))

Over(s, st, ob, pd) ==
    /\ Served(s)
    /\ \A t \in Tasks : s \in ScenariosOf[t] /\ Private(s) => OverFor(t, s, st, ob, pd)

\* What a watcher of record r has listed, copies or reports.
Watched(r, st, ob, pd) ==
    /\ \A s \in r.todo : Over(s, st, ob, pd)
    /\ r.pc \in UpdateSteps \cup {"copy"} => Over(r.scen, st, ob, pd)

ResultInv ==
    /\ \A s \in Scenarios : objects[Master(s)] # NoId => Served(s)
    /\ \A x \in Watchers : Watched(th[x], status, objects, pod)
    /\ \A x \in Threads : th[x].pc = "update.tell" => th[x].copy.ptStatus = StatusFor(th[x].ph)
    /\ \A t \in Tasks : \A s \in Scenarios :
          status[t].live /\ (status[t].phases[s] = "FINISHED" \/ s \in status[t].archives)
          => Over(s, status, objects, pod)
    /\ \A r \in saved : Over(r[2], status, objects, pod)
    /\ \A t \in Tasks :
          told[t] = "FINISHED" => \E s \in Scenarios : Over(s, status, objects, pod)

-----------------------------------------------------------------------------
(* What is over stays over *)

LEMMA ServedIs == ASSUME ConstantsAssumption, NEW s, Served(s) PROVE s \in Scenarios
  BY DEF ConstantsAssumption, Served

LEMMA OverStays ==
  ASSUME ConstantsAssumption, TypeOK, VersionInv, SiteInv, [Next]_vars,
         NEW s, Over(s, status, objects, pod)
  PROVE  Over(s, status', objects', pod')
  <1> SUFFICES ASSUME NEW t \in Tasks, s \in ScenariosOf[t], Private(s)
               PROVE  OverFor(t, s, status', objects', pod')
    BY DEF Over
  <1>1. /\ status[t] \in Version /\ status'[t] \in Version
        /\ status[t].rv \in Nat /\ status'[t].rv \in Nat
        /\ Evolves(status[t], status'[t]) /\ OverFor(t, s, status, objects, pod)
    <2>1. TypeOK' /\ Evolution(status, status')
      BY TypeStep, StepEvolves
    <2> QED BY <2>1 DEF TypeOK, Version, Evolution, Over
  <1>2. status'[t].rv > 0 /\ (status'[t].live => status[t].live)
    BY <1>1 DEF OverFor, Evolves
  <1>3. ASSUME status'[t].live  PROVE Completed(s, objects', pod')
    <2>1. SiteStays(t, s)
      BY <1>3, Kept
    <2> QED BY <1>1, <1>2, <1>3, <2>1 DEF SiteStays, OverFor
  <1> QED BY <1>2, <1>3 DEF OverFor

\* A master that is listed as completed is that of its task.
LEMMA ListedIsOver ==
  ASSUME ConstantsAssumption, TypeOK, VersionInv, SiteInv, ResultInv,
         NEW s \in MastersSeen, pod[s] = "completed"
  PROVE  Over(s, status, objects, pod)
  <1>1. s \in Scenarios /\ objects[Master(s)] # NoId
    BY DEF MastersSeen, SiteInv
  <1>2. Served(s)
    BY <1>1 DEF ResultInv
  <1>3. ASSUME NEW t \in Tasks, s \in ScenariosOf[t], Private(s)
        PROVE  OverFor(t, s, status, objects, pod)
    <2>1. OwnedIn(status, t, objects[Master(s)])
      BY <1>1, <1>3 DEF SiteInv, SiteOf, SiteNames
    <2> QED BY <1>1, <2>1 DEF OwnedIn, OverFor, Completed
  <1> QED BY <1>2, <1>3 DEF Over

-----------------------------------------------------------------------------
(* Every part of the invariant is kept *)

LEMMA ServedStep ==
  ASSUME ConstantsAssumption, TypeOK, ResultInv, [Next]_vars,
         NEW s \in Scenarios, objects'[Master(s)] # NoId
  PROVE  Served(s)
  <1>0. objects \in [Names -> Nat] /\ Master(s) \in Names
    BY DEF TypeOK, Names, HomeNames, Master
  <1>1. CASE objects[Master(s)] # NoId
    BY <1>1 DEF ResultInv
  <1>2. CASE objects[Master(s)] = NoId
    <2>1. ~Untouched
      BY <1>2 DEF Untouched
    <2>2. \A m \in HomeNames : ~Collect(m)
      BY <1>0, <1>2 DEF Collect
    <2>3. PICK x \in Threads : Making(x)
      BY <2>1, <2>2, ObjectsStep
    <2>4. Master(s) = NameMade(th[x])
      BY <1>0, <1>2, <2>3 DEF Making, Make
    <2>5. th[x].scen = s
      BY <2>4, NameOfScenario DEF NameMade, SiteNames
    <2>6. th[x].task \in Tasks /\ th[x].scen \in ScenariosOf[th[x].task]
      BY <2>3, TypeParts DEF Making, ThreadOK
    <2> QED BY <2>5, <2>6 DEF Served
  <1> QED BY <1>1, <1>2

LEMMA WatchedStep ==
  ASSUME ConstantsAssumption, TypeOK, VersionInv, SiteInv, ResultInv, [Next]_vars,
         NEW y \in Watchers
  PROVE  Watched(th'[y], status', objects', pod')
  <1> DEFINE o == th[y]
             Told == UpdateSteps \cup {"copy"}
  <1>0. /\ y \in Threads /\ y \notin Provisioners /\ th \in [Threads -> Thread]
        /\ \A x \in Threads : ThreadOK(x, th[x]) /\ o \in Thread
    BY Sides, TypeParts DEF TypeOK
  <1>1. /\ \A s \in o.todo : Over(s, status', objects', pod')
        /\ o.pc \in Told => Over(o.scen, status', objects', pod')
    BY OverStays DEF ResultInv, Watched
  \* A record that knows of no scenario its predecessor did not.
  <1>2. ASSUME NEW r, th'[y] = r, r.todo \subseteq o.todo,
               r.pc \in Told => r.scen \in o.todo \/ (o.pc \in Told /\ r.scen = o.scen)
        PROVE  Watched(th'[y], status', objects', pod')
    BY <1>1, <1>2 DEF Watched
  <1>3. CASE th'[y] = th[y]
    BY <1>2, <1>3
  <1> HIDE DEF o
  <1>4. ASSUME NEW r, th'[y] = r, r.pc \in {"idle", "list"}, r.todo = {}
        PROVE  Watched(th'[y], status', objects', pod')
    BY <1>4 DEF Watched, UpdateSteps
  <1>5. CASE th'[y] = IdleThread
    <2>1. IdleThread.pc = "idle" /\ IdleThread.todo = {}
      BY DEF IdleThread
    <2> QED BY <1>4, <1>5, <2>1
  <1>6. ASSUME NEW s \in Scenarios, NEW g \in Slots, RecSpawn(s, g)
        PROVE  th'[y] = th[y]
    <2> DEFINE x == <<g, "provision">>
               r == [IdleThread EXCEPT !.pc = "master.get", !.task = rec.task,
                                       !.scen = s, !.id = rec.copy.id]
    <2>1. th' = [th EXCEPT ![x] = r] /\ x # y
      BY <1>0, <1>6 DEF RecSpawn, Watchers
    <2> HIDE DEF x, r
    <2> QED BY <1>0, <2>1
  <1>7. ASSUME NEW x \in Threads, Provision(x)
        PROVE  th'[y] = th[y]
    BY <1>0, <1>7, ProvisionRecord, TypeParts DEF ThreadOK
  <1>8. ASSUME NEW r, Set(y, r)  PROVE th'[y] = r
    BY <1>0, <1>8 DEF Set
  <1>9. CASE WatchList(y)
    <2> DEFINE done == {s \in MastersSeen : pod[s] = "completed"}
               r == [o EXCEPT !.pc = "visit", !.left = Cardinality(MastersSeen), !.todo = done]
    <2>1. Set(y, r)
      BY <1>9 DEF WatchList, o
    <2>2. r.pc = "visit" /\ r.todo = done
      BY <1>0 DEF Thread
    <2>3. \A s \in done : Over(s, status', objects', pod')
      BY ListedIsOver, OverStays
    <2> HIDE DEF r, done
    <2> QED BY <1>8, <2>1, <2>2, <2>3 DEF Watched, UpdateSteps
  <1>10. ASSUME NEW s \in Scenarios, WatchVisit(y, s)
         PROVE  Watched(th'[y], status', objects', pod')
    <2> DEFINE i == IF cache[o.task].live THEN cache[o.task].id ELSE o.id
               rest == o.todo \ {s}
               r == [o EXCEPT !.todo = rest, !.left = o.left - 1, !.id = i]
               q == [o EXCEPT !.pc = "copy", !.scen = s, !.todo = rest, !.id = i]
    <2>1. Set(y, r) \/ Set(y, q)
      BY <1>10 DEF WatchVisit, o
    <2>2. /\ r.pc = o.pc /\ r.todo = rest /\ r.scen = o.scen
          /\ q.pc = "copy" /\ q.todo = rest /\ q.scen = s
      BY <1>0 DEF Thread
    <2>3. s \in o.todo /\ rest \subseteq o.todo
      BY <1>10 DEF WatchVisit, o
    <2> HIDE DEF r, q, rest
    <2> QED BY <1>2, <1>8, <2>1, <2>2, <2>3
  <1>11. CASE WatchCopy(y)
    <2> DEFINE r == [o EXCEPT !.pc = "update.get", !.ph = "FINISHED"]
    <2>1. Set(y, r) /\ o.pc = "copy"
      BY <1>11 DEF WatchCopy, o
    <2>2. r.pc = "update.get" /\ r.todo = o.todo /\ r.scen = o.scen
      BY <1>0 DEF Thread
    <2> HIDE DEF r
    <2> QED BY <1>2, <1>8, <2>1, <2>2
  <1>12. CASE WatchRound(y)
    <2> DEFINE r == [o EXCEPT !.pc = "list", !.left = 0]
    <2>1. (Set(y, r) \/ Set(y, IdleThread)) /\ o.todo = {}
      BY <1>12 DEF WatchRound, o
    <2>2. r.pc = "list" /\ r.todo = o.todo
      BY <1>0 DEF Thread
    <2> HIDE DEF r
    <2> QED BY <1>4, <1>5, <1>8, <2>1, <2>2
  <1>13. ASSUME NEW x \in Threads, Watch(x)
         PROVE  Watched(th'[y], status', objects', pod')
    <2>1. CASE y = x
      BY <1>9, <1>10, <1>11, <1>12, <1>13, <2>1 DEF Watch
    <2>2. CASE y # x
      <3>1. th'[y] = th[y]
        BY <1>0, <1>13, <2>2, WatchRecord
      <3> QED BY <1>3, <3>1
    <2> QED BY <2>1, <2>2
  <1>14. ASSUME NEW x \in Threads, UpdateGet(x) \/ UpdatePut(x), th' = Returned(x)
         PROVE  Watched(th'[y], status', objects', pod')
    <2>1. CASE x \in Watchers
      <3> DEFINE r == [th[x] EXCEPT !.pc = "visit", !.scen = None, !.ph = "",
                                    !.copy = NoVersion, !.left = th[x].left - 1]
      <3>1. th' = [th EXCEPT ![x] = r]
        BY <1>14, <2>1 DEF Returned
      <3>2. r.pc = "visit" /\ r.todo = th[x].todo
        BY <1>0 DEF ThreadOK, Thread
      <3> HIDE DEF r
      <3>3. CASE y = x
        <4>1. th'[y] = r /\ r.todo \subseteq o.todo /\ r.pc \notin Told
          BY <1>0, <3>1, <3>2, <3>3 DEF o, UpdateSteps
        <4> QED BY <1>2, <4>1
      <3>4. CASE y # x
        BY <1>0, <1>3, <3>1, <3>4
      <3> QED BY <3>3, <3>4
    <2>2. CASE x \notin Watchers /\ th[x].next = ""
      <3>1. th' = [th EXCEPT ![x] = IdleThread]
        BY <1>14, <2>2 DEF Returned
      <3> QED BY <1>0, <1>3, <2>2, <3>1
    <2>3. CASE x \notin Watchers /\ th[x].next # ""
      <3> DEFINE r == [th[x] EXCEPT !.pc = "update.get", !.ph = th[x].next, !.next = "",
                                    !.copy = NoVersion]
                 w == [IdleThread EXCEPT !.pc = "list", !.task = th[x].task,
                                         !.id = th[x].id]
      <3>1. th' = [z \in Threads |->
                     IF z = x THEN r
                     ELSE IF z = <<x[1], "watch">> /\ th[x].ph = "TESTING" THEN w
                     ELSE th[z]]
        BY <1>14, <2>3 DEF Returned
      <3>2. w.pc = "list" /\ w.todo = {}
        BY DEF IdleThread
      <3> HIDE DEF r, w
      <3>3. th'[y] = w \/ th'[y] = th[y]
        BY <1>0, <2>3, <3>1
      <3> QED BY <1>3, <1>4, <3>2, <3>3
    <2> QED BY <2>1, <2>2, <2>3
  <1>15. ASSUME NEW x \in Threads, UpdateStatus(x)
         PROVE  Watched(th'[y], status', objects', pod')
    <2>1. CASE UpdateGet(x) /\ cache[th[x].task].live
      <3> DEFINE pc == TellStep(th[x].task, "update.tell", "update.put")
                 r == [th[x] EXCEPT !.pc = pc, !.copy = Reported(x, cache[th[x].task])]
      <3>1. th[x].pc \in UpdateSteps
        BY <2>1 DEF UpdateSteps, UpdateGet
      <3>2. th' = [th EXCEPT ![x] = r]
        BY <2>1 DEF UpdateGet, Set
      <3>3. r.todo = th[x].todo /\ r.scen = th[x].scen
        BY <1>0 DEF ThreadOK, Thread
      <3> HIDE DEF pc, r
      <3>4. CASE y = x
        <4>1. th'[y] = r
          BY <1>0, <3>2, <3>4
        <4> QED BY <1>2, <3>1, <3>3, <3>4, <4>1 DEF o
      <3>5. CASE y # x
        BY <1>0, <1>3, <3>2, <3>5
      <3> QED BY <3>4, <3>5
    <2>2. CASE UpdateTell(x)
      <3> DEFINE r == [th[x] EXCEPT !.pc = "update.put"]
      <3>1. th' = [th EXCEPT ![x] = r] /\ th[x].pc \in UpdateSteps
        BY <2>2 DEF UpdateTell, Goto, Set, UpdateSteps
      <3>2. r.todo = th[x].todo /\ r.scen = th[x].scen
        BY <1>0 DEF ThreadOK, Thread
      <3> HIDE DEF r
      <3>3. CASE y = x
        <4>1. th'[y] = r
          BY <1>0, <3>1, <3>3
        <4> QED BY <1>2, <3>1, <3>2, <3>3, <4>1 DEF o
      <3>4. CASE y # x
        BY <1>0, <1>3, <3>1, <3>4
      <3> QED BY <3>3, <3>4
    <2> QED BY <1>14, <1>15, <2>1, <2>2 DEF UpdateStatus, UpdateGet, UpdatePut
  <1>16. CASE UNCHANGED th
    BY <1>3, <1>16
  <1>17. CASE Reconcile
    BY <1>3, <1>6, <1>16, <1>17
    DEF Reconcile, RecSkip, RecIdentify, RecKnown, RecTell, RecPut, RecReturn
  <1>18. CASE User \/ Cluster \/ \E t \in Tasks : Deliver(t)
    BY <1>16, <1>18
    DEF User, Submit, Edit, Delete, Cluster, Collect, Observe, PodStep, Ingress, Deliver
  <1>19. CASE Crash
    BY <1>0, <1>5, <1>19 DEF Crash
  <1>20. CASE UNCHANGED vars
    BY <1>16, <1>20 DEF vars
  <1> QED BY <1>3, <1>7, <1>13, <1>15, <1>17, <1>18, <1>19, <1>20 DEF Next

\* updateStatus tells the summary of the phase it reports.
LEMMA TellingStep ==
  ASSUME ConstantsAssumption, TypeOK, ResultInv, [Next]_vars, NEW y \in Threads,
         th'[y].pc = "update.tell"
  PROVE  th'[y].copy.ptStatus = StatusFor(th'[y].ph)
  <1>0. /\ th \in [Threads -> Thread] /\ cache \in [Tasks -> Version]
        /\ \A x \in Threads : ThreadOK(x, th[x]) /\ th[x] \in Thread
    BY TypeParts DEF TypeOK
  <1>1. CASE th'[y] = th[y]
    BY <1>1 DEF ResultInv
  <1>2. IdleThread.pc = "idle"
    BY DEF IdleThread
  <1>3. ASSUME NEW s \in Scenarios, NEW g \in Slots, RecSpawn(s, g)
        PROVE  th'[y] = th[y]
    <2> DEFINE x == <<g, "provision">>
               r == [IdleThread EXCEPT !.pc = "master.get", !.task = rec.task,
                                       !.scen = s, !.id = rec.copy.id]
    <2>1. th' = [th EXCEPT ![x] = r]
      BY <1>3 DEF RecSpawn
    <2>2. r.pc = "master.get"
      BY DEF IdleThread
    <2> HIDE DEF x, r
    <2> QED BY <1>0, <2>1, <2>2
  <1>4. ASSUME NEW x \in Threads, Provision(x) \/ Watch(x)
        PROVE  th'[y] = th[y]
    <2>1. CASE y = x
      <3>1. th'[y].pc # "update.tell"
        BY <1>2, <1>4, <2>1, ProvisionRecord, WatchRecord DEF ProvisionSteps, WatchSteps
      <3> QED BY <3>1
    <2>2. CASE y # x
      BY <1>4, <2>2, ProvisionRecord, WatchRecord
    <2> QED BY <2>1, <2>2
  <1>5. ASSUME NEW x \in Threads, th' = Returned(x)
        PROVE  th'[y] = th[y]
    <2>1. CASE x \in Watchers
      <3> DEFINE r == [th[x] EXCEPT !.pc = "visit", !.scen = None, !.ph = "",
                                    !.copy = NoVersion, !.left = th[x].left - 1]
      <3>1. th' = [th EXCEPT ![x] = r]
        BY <1>5, <2>1 DEF Returned
      <3>2. r.pc = "visit"
        BY <1>0 DEF Thread
      <3> HIDE DEF r
      <3> QED BY <1>0, <3>1, <3>2
    <2>2. CASE x \notin Watchers /\ th[x].next = ""
      <3>1. th' = [th EXCEPT ![x] = IdleThread]
        BY <1>5, <2>2 DEF Returned
      <3> QED BY <1>0, <1>2, <3>1
    <2>3. CASE x \notin Watchers /\ th[x].next # ""
      <3> DEFINE r == [th[x] EXCEPT !.pc = "update.get", !.ph = th[x].next, !.next = "",
                                    !.copy = NoVersion]
                 w == [IdleThread EXCEPT !.pc = "list", !.task = th[x].task,
                                         !.id = th[x].id]
      <3>1. th' = [z \in Threads |->
                     IF z = x THEN r
                     ELSE IF z = <<x[1], "watch">> /\ th[x].ph = "TESTING" THEN w
                     ELSE th[z]]
        BY <1>5, <2>3 DEF Returned
      <3>2. r.pc = "update.get"
        BY <1>0 DEF Thread
      <3>3. w.pc = "list"
        BY DEF IdleThread
      <3> HIDE DEF r, w
      <3> QED BY <3>1, <3>2, <3>3
    <2> QED BY <2>1, <2>2, <2>3
  <1>6. ASSUME NEW x \in Threads, UpdateGet(x), cache[th[x].task].live
        PROVE  th'[y].copy.ptStatus = StatusFor(th'[y].ph)
    <2> DEFINE c == Reported(x, cache[th[x].task])
               r == [th[x] EXCEPT !.pc = TellStep(th[x].task, "update.tell", "update.put"),
                                  !.copy = c]
    <2>1. th' = [th EXCEPT ![x] = r]
      BY <1>6 DEF UpdateGet, Set
    <2>2. r.copy = c /\ r.ph = th[x].ph
      BY <1>0 DEF Thread
    <2>3. c.ptStatus = StatusFor(th[x].ph)
      <3>1. cache[th[x].task] \in Version
        BY <1>0, <1>6 DEF ThreadOK, UpdateGet
      <3> QED BY <3>1 DEF Reported, Version
    <2> HIDE DEF c, r
    <2>4. CASE y = x
      <3>1. th'[y] = r
        BY <1>0, <2>1, <2>4
      <3> QED BY <2>2, <2>3, <3>1
    <2>5. CASE y # x
      BY <1>0, <1>1, <2>1, <2>5
    <2> QED BY <2>4, <2>5
  <1>7. ASSUME NEW x \in Threads, UpdateTell(x)
        PROVE  th'[y] = th[y]
    <2> DEFINE r == [th[x] EXCEPT !.pc = "update.put"]
    <2>1. th' = [th EXCEPT ![x] = r]
      BY <1>7 DEF UpdateTell, Goto, Set
    <2>2. r.pc = "update.put"
      BY <1>0 DEF Thread
    <2> HIDE DEF r
    <2> QED BY <1>0, <2>1, <2>2
  <1>8. ASSUME NEW x \in Threads, UpdateStatus(x)
        PROVE  th'[y].copy.ptStatus = StatusFor(th'[y].ph)
    BY <1>1, <1>5, <1>6, <1>7, <1>8 DEF UpdateStatus, UpdateGet, UpdatePut
  <1>9. CASE UNCHANGED th
    BY <1>1, <1>9
  <1>10. CASE Reconcile
    BY <1>1, <1>3, <1>9, <1>10
    DEF Reconcile, RecSkip, RecIdentify, RecKnown, RecTell, RecPut, RecReturn
  <1>11. CASE User \/ Cluster \/ \E t \in Tasks : Deliver(t)
    BY <1>9, <1>11
    DEF User, Submit, Edit, Delete, Cluster, Collect, Observe, PodStep, Ingress, Deliver
  <1>12. ~Crash
    BY <1>0, <1>2 DEF Crash
  <1>13. CASE UNCHANGED vars
    BY <1>9, <1>13 DEF vars
  <1> QED BY <1>1, <1>4, <1>8, <1>10, <1>11, <1>12, <1>13 DEF Next

\* A goroutine that reports FINISHED is a watcher, of a scenario that is over.
LEMMA FinishedIsOver ==
  ASSUME ReportInv, ResultInv, NEW x \in Threads, th[x].pc \in UpdateSteps,
         x \in Watchers \/ th[x].ph = "FINISHED"
  PROVE  Over(th[x].scen, status, objects, pod)
  <1>1. x \in Watchers
    BY Sides DEF ReportInv, Reporter, NotFinished
  <1> QED BY <1>1 DEF ResultInv, Watched

LEMMA StatusStep ==
  ASSUME ConstantsAssumption, TypeOK, VersionInv, ReportInv, SiteInv, ResultInv,
         [Next]_vars, NEW t \in Tasks, NEW s \in Scenarios, status'[t].live,
         status'[t].phases[s] = "FINISHED" \/ s \in status'[t].archives
  PROVE  Over(s, status', objects', pod')
  <1> SUFFICES Over(s, status, objects, pod)
    BY OverStays
  <1>1. PhaseReported(t, s) /\ ArchiveReported(t, s)
    BY Reports
  <1>2. CASE status[t].live /\ (status[t].phases[s] = "FINISHED" \/ s \in status[t].archives)
    BY <1>2 DEF ResultInv
  <1>3. ASSUME NEW x \in Threads, th[x].pc = "update.put", th[x].scen = s,
               x \in Watchers \/ th[x].ph = "FINISHED"
        PROVE  Over(s, status, objects, pod)
    <2>1. Over(th[x].scen, status, objects, pod)
      BY <1>3, FinishedIsOver DEF UpdateSteps
    <2> QED BY <1>3, <2>1
  <1> QED BY <1>1, <1>2, <1>3, Sides DEF PhaseReported, ArchiveReported

LEMMA SavedStep ==
  ASSUME ConstantsAssumption, TypeOK, VersionInv, SiteInv, ResultInv, [Next]_vars,
         NEW r \in saved'
  PROVE  Over(r[2], status', objects', pod')
  <1> SUFFICES Over(r[2], status, objects, pod)
    BY OverStays
  <1>1. CASE r \in saved
    BY <1>1 DEF ResultInv
  <1>2. CASE UNCHANGED saved
    BY <1>1, <1>2
  <1>3. ASSUME NEW x \in Threads, WatchCopy(x)
        PROVE  Over(r[2], status, objects, pod)
    <2>1. x \in Watchers /\ th[x].pc = "copy"
      BY <1>3, WatchRecord DEF Watch, WatchCopy
    <2>2. r \in saved \/ r[2] = th[x].scen
      BY <1>3 DEF WatchCopy, CopyFileToGCS
    <2>3. Over(th[x].scen, status, objects, pod)
      BY <2>1 DEF ResultInv, Watched
    <2> QED BY <1>1, <2>2, <2>3
  <1>4. CASE User \/ Reconcile \/ Cluster \/ Crash \/ \E t \in Tasks : Deliver(t)
    BY <1>2, <1>4
    DEF User, Submit, Edit, Delete, Cluster, Collect, Observe, PodStep, Ingress, Deliver,
        Crash, Reconcile, RecSkip, RecIdentify, RecKnown, RecTell, RecPut, RecReturn, RecSpawn
  <1>5. ASSUME NEW x \in Threads, Provision(x) \/ UpdateStatus(x)
        PROVE  UNCHANGED saved
    BY <1>5
    DEF Provision, MasterGet, MasterCreate, SvcGet, SvcCreate, Poll, WorkerGet,
        WorkerCreate, WorkersDone, GetObject, UpdateStatus, UpdateGet, UpdateTell, UpdatePut
  <1>6. ASSUME NEW x \in Threads, Watch(x)
        PROVE  Over(r[2], status, objects, pod)
    BY <1>2, <1>3, <1>6 DEF Watch, WatchList, WatchVisit, WatchRound
  <1>7. CASE UNCHANGED vars
    BY <1>2, <1>7 DEF vars
  <1> QED BY <1>2, <1>4, <1>5, <1>6, <1>7 DEF Next

LEMMA ToldStep ==
  ASSUME ConstantsAssumption, TypeOK, VersionInv, ReportInv, SiteInv, ResultInv,
         [Next]_vars, NEW t \in Tasks, told'[t] = "FINISHED"
  PROVE  \E s \in Scenarios : Over(s, status', objects', pod')
  <1> SUFFICES \E s \in Scenarios : Over(s, status, objects, pod)
    BY OverStays
  <1>0. told \in [Tasks -> PtStatuses]
    BY DEF TypeOK
  <1>1. CASE told'[t] = told[t]
    BY <1>1 DEF ResultInv
  <1>2. CASE UNCHANGED told
    BY <1>1, <1>2
  <1>3. CASE RecTell
    <2>1. rec.copy.ptStatus = "INITIAL"
      BY <1>3 DEF RecTell, ReportInv
    <2> QED BY <1>0, <1>1, <1>3, <2>1 DEF RecTell, Tell
  <1>4. ASSUME NEW x \in Threads, UpdateTell(x)
        PROVE  \E s \in Scenarios : Over(s, status, objects, pod)
    <2>1. th[x].pc = "update.tell" /\ th[x].copy.ptStatus = StatusFor(th[x].ph)
      BY <1>4 DEF UpdateTell, ResultInv
    <2>2. CASE StatusFor(th[x].ph) = "FINISHED"
      <3>1. th[x].ph = "FINISHED"
        BY <2>2 DEF StatusFor, ProvisioningPhases
      <3>2. Over(th[x].scen, status, objects, pod)
        BY <2>1, <3>1, FinishedIsOver DEF UpdateSteps
      <3>3. th[x].scen \in Scenarios
        BY <2>1, TypeParts DEF ThreadOK, UpdateSteps
      <3> QED BY <3>2, <3>3
    <2>3. CASE StatusFor(th[x].ph) # "FINISHED"
      BY <1>0, <1>1, <1>4, <2>1, <2>3 DEF UpdateTell, Tell
    <2> QED BY <2>2, <2>3
  <1>5. CASE User \/ Cluster \/ Crash \/ \E u \in Tasks : Deliver(u)
    BY <1>2, <1>5
    DEF User, Submit, Edit, Delete, Cluster, Collect, Observe, PodStep, Ingress, Deliver, Crash
  <1>6. CASE Reconcile
    BY <1>2, <1>3, <1>6
    DEF Reconcile, RecSkip, RecIdentify, RecKnown, RecPut, RecReturn, RecSpawn
  <1>7. ASSUME NEW x \in Threads, Provision(x) \/ Watch(x)
        PROVE  UNCHANGED told
    BY <1>7
    DEF Provision, MasterGet, MasterCreate, SvcGet, SvcCreate, Poll, WorkerGet,
        WorkerCreate, WorkersDone, GetObject, Watch, WatchList, WatchVisit, WatchCopy,
        WatchRound
  <1>8. ASSUME NEW x \in Threads, UpdateStatus(x)
        PROVE  \E s \in Scenarios : Over(s, status, objects, pod)
    BY <1>2, <1>4, <1>8 DEF UpdateStatus, UpdateGet, UpdatePut
  <1>9. CASE UNCHANGED vars
    BY <1>2, <1>9 DEF vars
  <1> QED BY <1>2, <1>5, <1>6, <1>7, <1>8, <1>9 DEF Next

-----------------------------------------------------------------------------
(* The invariant *)

LEMMA InitResults == ASSUME ConstantsAssumption, Init PROVE ResultInv
  <1>1. /\ \A t \in Tasks : status[t] = NoVersion /\ told[t] = "" /\ saved = {}
        /\ \A n \in Names : objects[n] = NoId
        /\ \A x \in Threads : th[x] = IdleThread
    BY DEF Init
  <1>2. IdleThread.pc = "idle" /\ IdleThread.todo = {}
    BY DEF IdleThread
  <1>3. \A x \in Watchers : Watched(th[x], status, objects, pod)
    BY <1>1, <1>2, Sides DEF Watched, UpdateSteps
  <1>4. \A s \in Scenarios : objects[Master(s)] = NoId
    BY <1>1 DEF Names, HomeNames, Master
  <1>5. saved = {}
    BY DEF Init
  <1> QED BY <1>1, <1>2, <1>3, <1>4, <1>5, NoVersionDead DEF ResultInv

LEMMA ResultInvariant == Spec => [](IInv /\ SiteInv /\ ResultInv)
  <1>1. Init => ResultInv
    BY ConstantsAssumption, InitResults
  <1>2. IInv /\ ReportInv /\ SiteInv /\ ResultInv /\ [Next]_vars => ResultInv'
    <2> SUFFICES ASSUME IInv, ReportInv, SiteInv, ResultInv, [Next]_vars  PROVE ResultInv'
      OBVIOUS
    <2>0. TypeOK /\ VersionInv
      BY DEF IInv
    <2>1. \A s \in Scenarios : objects'[Master(s)] # NoId => Served(s)
      BY <2>0, ConstantsAssumption, ServedStep
    <2>2. \A x \in Watchers : Watched(th'[x], status', objects', pod')
      BY <2>0, ConstantsAssumption, WatchedStep
    <2>3. \A x \in Threads :
            th'[x].pc = "update.tell" => th'[x].copy.ptStatus = StatusFor(th'[x].ph)
      BY <2>0, ConstantsAssumption, TellingStep
    <2>4. \A t \in Tasks : \A s \in Scenarios :
            status'[t].live
            /\ (status'[t].phases[s] = "FINISHED" \/ s \in status'[t].archives)
            => Over(s, status', objects', pod')
      BY <2>0, ConstantsAssumption, StatusStep
    <2>5. \A r \in saved' : Over(r[2], status', objects', pod')
      BY <2>0, ConstantsAssumption, SavedStep
    <2>6. \A t \in Tasks :
            told'[t] = "FINISHED" => \E s \in Scenarios : Over(s, status', objects', pod')
      BY <2>0, ConstantsAssumption, ToldStep
    <2> QED BY <2>1, <2>2, <2>3, <2>4, <2>5, <2>6 DEF ResultInv
  <1> QED BY <1>1, <1>2, SiteInvariant, PTL DEF Spec

\* FINISHED, an archive or saved logs of a task that lives are of a master that ran to
\* completion, however late a watcher acts on what it listed, and whichever
\* task the watcher works for (checkMasterStatus 340-382).
THEOREM FinishedIsCompleted == Spec => []FinishedMeansCompleted
  <1>1. ResultInv => FinishedMeansCompleted
    <2> SUFFICES ASSUME ResultInv, NEW t \in Tasks, \A s \in ScenariosOf[t] : Private(s),
                        status[t].live
                 PROVE  /\ \A s \in ScenariosOf[t] :
                              \/ status[t].phases[s] = "FINISHED"
                              \/ s \in status[t].archives
                              \/ status[t].id # NoId /\ <<status[t].id, s>> \in saved
                              => pod[s] = "completed"
                        /\ Tasks = {t} /\ told[t] = "FINISHED" =>
                              \E s \in ScenariosOf[t] : pod[s] = "completed"
      BY DEF FinishedMeansCompleted
    <2>1. ASSUME NEW s \in ScenariosOf[t], Over(s, status, objects, pod)
          PROVE  pod[s] = "completed"
      BY <2>1 DEF Over, OverFor, Completed
    <2>2. ASSUME NEW s \in ScenariosOf[t],
                 \/ status[t].phases[s] = "FINISHED"
                 \/ s \in status[t].archives
                 \/ status[t].id # NoId /\ <<status[t].id, s>> \in saved
          PROVE  pod[s] = "completed"
      <3>1. s \in Scenarios
        BY ConstantsAssumption DEF ConstantsAssumption
      <3>2. Over(s, status, objects, pod)
        BY <2>2, <3>1 DEF ResultInv
      <3> QED BY <2>1, <3>2
    <2>3. ASSUME Tasks = {t}, told[t] = "FINISHED"
          PROVE  \E s \in ScenariosOf[t] : pod[s] = "completed"
      <3>1. PICK s \in Scenarios : Over(s, status, objects, pod)
        BY <2>3 DEF ResultInv
      <3>2. s \in ScenariosOf[t]
        BY <2>3, <3>1 DEF Over, Served
      <3> QED BY <2>1, <3>1, <3>2
    <2> QED BY <2>2, <2>3
  <1> QED BY <1>1, ResultInvariant, PTL
=============================================================================
