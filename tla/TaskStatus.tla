------------------------------ MODULE TaskStatus ------------------------------
(***************************************************************************)
(* What the status of a PtTask promises those who read it, whatever the    *)
(* caches, versions, goroutines and restarts behind it: it is written as a *)
(* whole, by one reporter at a time.  A task that was submitted is given   *)
(* an id once; after that each report sets the phase of one scenario, the  *)
(* summary that goes with it and, for a finished scenario, its archive.    *)
(* PtTaskOperator implements this specification.                           *)
(***************************************************************************)
EXTENDS Integers, TLAPS

CONSTANTS
    Tasks,      \* names of PtTask objects
    Scenarios   \* scenario names

VARIABLE task   \* [Tasks -> what kubectl shows of the task]

NoId == 0

ReportedPhases == {"PROVISIONING_MASTER", "PROVISIONING_WORKER", "TESTING", "FINISHED", "FAILED"}

\* The summary that goes with a phase.
Summary(ph) ==
    IF ph \in {"PROVISIONING_MASTER", "PROVISIONING_WORKER"} THEN "PENDING" ELSE ph

Shown(state) == [state |-> state, id |-> NoId, phases |-> [s \in Scenarios |-> ""],
                 archives |-> {}, ptStatus |-> ""]

Live(id, phases, archives, ptStatus) ==
    [state |-> "live", id |-> id, phases |-> phases, archives |-> archives,
     ptStatus |-> ptStatus]

Init == task = [t \in Tasks |-> Shown("new")]

Submit(t) ==
    /\ task[t].state = "new"
    /\ task' = [task EXCEPT ![t] = Shown("live")]

\* Which id is given is open.
Identify(t) ==
    /\ task[t].state = "live" /\ task[t].id = NoId
    /\ task'[t].id \in Nat \ {NoId}
    /\ task' = [task EXCEPT ![t] = Live(task'[t].id, @.phases, @.archives, "INITIAL")]

\* The result of a test, and nothing else, comes with an archive.
Report(t, s, ph) ==
    /\ task[t].state = "live" /\ task[t].id # NoId
    /\ task' = [task EXCEPT ![t] =
                  Live(@.id, [@.phases EXCEPT ![s] = ph],
                       IF ph = "FINISHED" THEN @.archives \cup {s} ELSE @.archives,
                       Summary(ph))]

Delete(t) ==
    /\ task[t].state = "live"
    /\ task' = [task EXCEPT ![t] = Shown("gone")]

Next ==
    \E t \in Tasks :
       \/ Submit(t) \/ Identify(t) \/ Delete(t)
       \/ \E s \in Scenarios, ph \in ReportedPhases : Report(t, s, ph)

Spec == Init /\ [][Next]_task
-----------------------------------------------------------------------------

Versions == [state    : {"new", "live", "gone"},
             id       : Nat,
             phases   : [Scenarios -> ReportedPhases \cup {""}],
             archives : SUBSET Scenarios,
             ptStatus : {"", "INITIAL", "PENDING", "TESTING", "FINISHED", "FAILED"}]

TypeOK == task \in [Tasks -> Versions]

\* The summary is that of a scenario's phase, INITIAL before the first report.
SummaryOfPhases(v) ==
    IF \A s \in Scenarios : v.phases[s] = ""
    THEN v.ptStatus = IF v.id = NoId THEN "" ELSE "INITIAL"
    ELSE \E s \in Scenarios : v.phases[s] # "" /\ v.ptStatus = Summary(v.phases[s])

\* No report precedes the id, the summary is of a phase that is shown, and a finished
\* scenario is archived.
Consistent ==
    \A t \in Tasks :
       /\ task[t].id = NoId => \A s \in Scenarios : task[t].phases[s] = ""
       /\ SummaryOfPhases(task[t])
       /\ \A s \in Scenarios : task[t].phases[s] = "FINISHED" => s \in task[t].archives

\* A step that changes the entry of one task to a consistent one keeps the invariant.
LEMMA OneEntry ==
    ASSUME TypeOK, Consistent, NEW t \in Tasks, NEW v \in Versions,
           task' = [task EXCEPT ![t] = v],
           v.id = NoId => \A s \in Scenarios : v.phases[s] = "",
           SummaryOfPhases(v),
           \A s \in Scenarios : v.phases[s] = "FINISHED" => s \in v.archives
    PROVE  TypeOK' /\ Consistent'
<1>1. TypeOK' /\ task'[t] = v
  BY DEF TypeOK
<1>2. \A u \in Tasks : u # t => task'[u] = task[u]
  BY DEF TypeOK
<1>3. ASSUME NEW u \in Tasks
      PROVE  /\ task'[u].id = NoId => \A s \in Scenarios : task'[u].phases[s] = ""
             /\ SummaryOfPhases(task'[u])
             /\ \A s \in Scenarios :
                   task'[u].phases[s] = "FINISHED" => s \in task'[u].archives
  <2>1. CASE u = t
    BY <1>1, <2>1
  <2>2. CASE u # t
    BY <1>2, <2>2 DEF Consistent
  <2> QED
    BY <2>1, <2>2
<1>4. Consistent'
  BY <1>3 DEF Consistent, SummaryOfPhases
<1> QED
  BY <1>1, <1>4

LEMMA ShownOK ==
    ASSUME NEW state \in {"new", "live", "gone"}
    PROVE  /\ Shown(state) \in Versions
           /\ \A s \in Scenarios : Shown(state).phases[s] = ""
           /\ SummaryOfPhases(Shown(state))
<1>1. /\ Shown(state).id = NoId /\ Shown(state).ptStatus = ""
      /\ \A s \in Scenarios : Shown(state).phases[s] = ""
  BY DEF Shown
<1>2. Shown(state) \in Versions
  BY DEF Shown, Versions, NoId
<1> QED
  BY <1>1, <1>2 DEF SummaryOfPhases

\* Whatever is submitted, identified, reported and deleted, and in which order, what is
\* shown of a task is consistent.
THEOREM AbstractConsistent == Spec => [](TypeOK /\ Consistent)
<1>1. Init => TypeOK /\ Consistent
  <2> SUFFICES ASSUME Init PROVE TypeOK /\ Consistent
    OBVIOUS
  <2>1. \A t \in Tasks : task[t] = Shown("new")
    BY DEF Init
  <2> QED
    BY <2>1, ShownOK DEF Init, TypeOK, Consistent
<1>2. TypeOK /\ Consistent /\ [Next]_task => TypeOK' /\ Consistent'
  <2> SUFFICES ASSUME TypeOK, Consistent, [Next]_task
               PROVE  TypeOK' /\ Consistent'
    OBVIOUS
  <2>1. CASE UNCHANGED task
    BY <2>1 DEF TypeOK, Consistent, SummaryOfPhases
  <2>2. ASSUME NEW t \in Tasks, Submit(t) \/ Delete(t)
        PROVE  TypeOK' /\ Consistent'
    <3>1. PICK state \in {"live", "gone"} : task' = [task EXCEPT ![t] = Shown(state)]
      BY <2>2 DEF Submit, Delete
    <3>2. \A s \in Scenarios : Shown(state).phases[s] # "FINISHED"
      BY ShownOK
    <3> QED
      BY <3>1, <3>2, ShownOK, OneEntry
  <2>3. ASSUME NEW t \in Tasks, Identify(t)
        PROVE  TypeOK' /\ Consistent'
    <3> DEFINE v == Live(task'[t].id, task[t].phases, task[t].archives, "INITIAL")
    <3>1. task[t] \in Versions /\ task' = [task EXCEPT ![t] = v]
      BY <2>3 DEF Identify, TypeOK
    <3>2. /\ v \in Versions /\ v.id # NoId /\ v.ptStatus = "INITIAL"
          /\ v.phases = task[t].phases
      BY <3>1, <2>3 DEF Identify, Versions, Live
    <3>3. \A s \in Scenarios : v.phases[s] = ""
      BY <3>2, <2>3 DEF Identify, Consistent
    <3>4. SummaryOfPhases(v)
      BY <3>2, <3>3 DEF SummaryOfPhases
    <3> HIDE DEF v
    <3> QED
      BY <3>1, <3>2, <3>3, <3>4, OneEntry
  <2>4. ASSUME NEW t \in Tasks, NEW s \in Scenarios, NEW ph \in ReportedPhases,
               Report(t, s, ph)
        PROVE  TypeOK' /\ Consistent'
    <3> DEFINE v == Live(task[t].id, [task[t].phases EXCEPT ![s] = ph],
                         IF ph = "FINISHED" THEN task[t].archives \cup {s}
                                            ELSE task[t].archives,
                         Summary(ph))
    <3>1. /\ task[t] \in Versions /\ task' = [task EXCEPT ![t] = v]
          /\ task[t].id # NoId
      BY <2>4 DEF Report, TypeOK
    <3>2. /\ v.id = task[t].id /\ v.ptStatus = Summary(ph)
          /\ v.phases = [task[t].phases EXCEPT ![s] = ph]
          /\ v.archives = IF ph = "FINISHED" THEN task[t].archives \cup {s}
                                             ELSE task[t].archives
      BY DEF Live
    <3>3. Summary(ph) \in {"PENDING", "TESTING", "FINISHED", "FAILED"} /\ ph # ""
      BY DEF Summary, ReportedPhases
    <3>4. v \in Versions
      BY <3>1, <3>3 DEF Versions, Live
    <3>5. v.phases[s] = ph /\ \A u \in Scenarios : u # s => v.phases[u] = task[t].phases[u]
      BY <3>1, <3>2 DEF Versions
    <3>6. SummaryOfPhases(v)
      BY <3>2, <3>3, <3>5 DEF SummaryOfPhases
    <3> HIDE DEF v
    <3>7. \A u \in Scenarios : v.phases[u] = "FINISHED" => u \in v.archives
      BY <3>2, <3>5 DEF Consistent
    <3> QED
      BY <3>1, <3>2, <3>4, <3>6, <3>7, OneEntry
  <2> QED
    BY <2>1, <2>2, <2>3, <2>4 DEF Next
<1> QED
  BY <1>1, <1>2, PTL DEF Spec
=============================================================================
