---------------------------- MODULE MonitorsProofs ----------------------------
(***************************************************************************)
(* Theorems about Monitors, for any number of scenarios and workers, local *)
(* or distributed.  The argument for LostToRacersOnly: the only step that  *)
(* takes something out of an entry is Insert, and once there is an entry   *)
(* no Lookup leads there.  For NilMapIsRaced: what a monitor of workers    *)
(* assigns it has made, unless its pointer is stale, which only an Insert  *)
(* makes it.  For ShownIsWatched: a monitor of workers that is about to    *)
(* end has found none, so what it sets last needs nobody's watch.          *)
(***************************************************************************)
EXTENDS Monitors, FiniteSetTheorems, TLAPS

MonOK(m) ==
    /\ Running(m) => m \in MonitorsOf(Of(m))
    /\ mon[m].stale => At(m, "assign")
    /\ mon[m].pc \in {"assign", "direct"} => entry[Of(m)] # None

MInv == TypeOK /\ \A m \in Monitors : MonOK(m)

LEMMA Places ==
    /\ \A m \in Monitors : Of(m) \in Scenarios
    /\ \A s \in Scenarios : MonitorsOf(s) \subseteq Monitors
    /\ \A s \in Scenarios : \A m \in MonitorsOf(s) : Of(m) = s
    /\ \A e \in Entry, m \in Monitors : e \cup {Part(m)} \in Entry
    /\ None \notin Entry
  <1>1. \A m \in Monitors : Of(m) \in Scenarios
    BY DEF Monitors, Of
  <1>2. \A s \in Scenarios : MonitorsOf(s) \subseteq Monitors
    BY DEF MonitorsOf, Monitors
  <1>3. \A s \in Scenarios : \A m \in MonitorsOf(s) : Of(m) = s
    BY DEF MonitorsOf, Of
  <1>4. ASSUME NEW e \in Entry, NEW m \in Monitors
        PROVE  e \cup {Part(m)} \in Entry
    <2>1. Part(m) \in Parts
      BY DEF Part, Kind, Monitors, Parts
    <2>2. e \in SUBSET Parts
      BY <2>1 DEF Entry
    <2> QED  BY <2>1, <2>2 DEF Entry
  <1>5. None \notin Entry
    BY NoneAssumption
  <1> QED  BY <1>1, <1>2, <1>3, <1>4, <1>5

-----------------------------------------------------------------------------

LEMMA EntryOfOne == ASSUME NEW m \in Monitors PROVE {Part(m)} \in Entry /\ {Part(m)} # None
  <1>1. Part(m) \in Parts
    BY DEF Part, Kind, Monitors, Parts
  <1>2. {Part(m)} = {} \cup {Part(m)}
    OBVIOUS
  <1>3. {} \in SUBSET Parts
    OBVIOUS
  <1>4. \E parts \in SUBSET Parts, p \in Parts : {Part(m)} = parts \cup {p}
    BY <1>1, <1>2, <1>3
  <1>5. {Part(m)} \in Entry
    BY <1>4 DEF Entry
  <1> QED  BY <1>5, NoneAssumption

LEMMA CountType == AllWorkers \in Nat /\ (Scenarios # {} => AllWorkers >= 1)
  <1>1. Cardinality(Scenarios) \in Nat
    BY MonitorsAssumption, FS_CardinalityType
  <1>2. Scenarios # {} => Cardinality(Scenarios) # 0
    BY MonitorsAssumption, FS_EmptySet
  <1> DEFINE c == Cardinality(Scenarios)
  <1>3. c \in Nat /\ NWorkers \in Nat /\ NWorkers >= 1
    BY <1>1, MonitorsAssumption
  <1> HIDE DEF c
  <1>4. NWorkers * c \in Nat /\ (c # 0 => NWorkers * c >= 1)
    BY <1>3
  <1> QED  BY <1>2, <1>4 DEF c, AllWorkers

LEMMA PartCount ==
    ASSUME NEW S \in SUBSET Scenarios
    PROVE  NWorkers * Cardinality(S) \in Nat /\ NWorkers * Cardinality(S) <= AllWorkers
  <1> DEFINE c == Cardinality(S)
             d == Cardinality(Scenarios)
  <1>1. c \in Nat /\ d \in Nat /\ c <= d
    BY MonitorsAssumption, FS_CardinalityType, FS_Subset
  <1>2. NWorkers \in Nat
    BY MonitorsAssumption
  <1> HIDE DEF c, d
  <1>3. NWorkers * c \in Nat /\ NWorkers * c <= NWorkers * d
    BY <1>1, <1>2
  <1> QED  BY <1>3 DEF c, d, AllWorkers

LEMMA InitMInv == ASSUME Init PROVE MInv
  <1>1. Idle \in Monitor
    BY CountType DEF Idle, Monitor
  <1>2. TypeOK
    BY <1>1, CountType DEF Init, TypeOK, NoMonitors, NoEntries, NoGauges
  <1>3. \A m \in Monitors : MonOK(m)
    BY DEF Init, NoMonitors, Idle, MonOK, Running, At
  <1> QED  BY <1>2, <1>3 DEF MInv

LEMMA StopMInv == ASSUME MInv, Stop PROVE MInv'
  <1>1. Idle \in Monitor
    BY CountType DEF Idle, Monitor
  <1>2. TypeOK'
    BY <1>1, CountType DEF Stop, MInv, TypeOK, NoMonitors, NoEntries, NoGauges, world
  <1>3. ASSUME NEW m \in Monitors PROVE MonOK(m)'
    BY <1>3 DEF Stop, NoMonitors, Idle, MonOK, Running, At
  <1> QED  BY <1>2, <1>3 DEF MInv

\* A step of m that writes neither map nor gauges.
LEMMA QuietMInv ==
    ASSUME MInv, NEW m \in Monitors, NEW r \in Monitor, Set(m, r),
           UNCHANGED <<entry, gauges, world>>,
           r.pc \notin {"idle", "over"} => m \in MonitorsOf(Of(m)),
           r.stale => r.pc = "assign",
           r.pc \in {"assign", "direct"} => entry[Of(m)] # None
    PROVE  MInv'
  <1>1. mon' \in [Monitors -> Monitor]
    BY DEF Set, MInv, TypeOK
  <1>2. TypeOK'
    BY <1>1 DEF MInv, TypeOK, gauges, world
  <1>3. ASSUME NEW n \in Monitors PROVE MonOK(n)'
    <2>1. mon'[n] = IF n = m THEN r ELSE mon[n]
      BY DEF Set, MInv, TypeOK
    <2>2. MonOK(n) /\ UNCHANGED <<entry, distributed>>
      BY DEF MInv, world
    <2>3. UNCHANGED MonitorsOf(Of(n))
      BY <2>2 DEF MonitorsOf
    <2> QED  BY <2>1, <2>2, <2>3 DEF MonOK, Running, At
  <1> QED  BY <1>2, <1>3 DEF MInv

\* A step of m after which m is past its record, and everybody else where he was.
LEMMA RecordMInv ==
    ASSUME MInv, NEW m \in Monitors, mon' \in [Monitors -> Monitor],
           m \in MonitorsOf(Of(m)), ~mon'[m].stale, mon'[m].pc \notin {"idle", "assign"},
           \A n \in Monitors :
              n # m => mon'[n].pc = mon[n].pc /\ (mon'[n].stale => At(n, "assign")),
           NEW x \in Entry, entry' = [entry EXCEPT ![Of(m)] = x],
           UNCHANGED <<gauges, world>>
    PROVE  MInv'
  <1>1. entry' \in [Scenarios -> Entry \cup {None}]
    BY DEF MInv, TypeOK
  <1>2. TypeOK'
    BY <1>1 DEF MInv, TypeOK, gauges, world
  <1>3. ASSUME NEW n \in Monitors PROVE MonOK(n)'
    <2>2. MonOK(n) /\ UNCHANGED distributed
      BY DEF MInv, world
    <2>3. UNCHANGED MonitorsOf(Of(n))
      BY <2>2 DEF MonitorsOf
    <2>4. entry'[Of(n)] = IF Of(n) = Of(m) THEN x ELSE entry[Of(n)]
      BY Places DEF MInv, TypeOK
    <2>5. x # None
      BY Places
    <2>6. Running(n)' => n \in MonitorsOf(Of(n))'
      BY <2>2, <2>3 DEF MonOK, Running
    <2>7. mon'[n].stale => At(n, "assign")'
      BY DEF At
    <2>8. mon'[n].pc \in {"assign", "direct"} => entry'[Of(n)] # None
      BY <2>2, <2>4, <2>5 DEF MonOK
    <2> QED  BY <2>6, <2>7, <2>8 DEF MonOK, Of
  <1> QED  BY <1>2, <1>3 DEF MInv

-----------------------------------------------------------------------------

LEMMA Fields ==
    ASSUME MInv, NEW m \in Monitors
    PROVE  mon[m] \in Monitor /\ Idle \in Monitor /\ Recorded(m) \in {"direct", "show", "look"}
  <1>1. mon[m] \in Monitor
    BY DEF MInv, TypeOK
  <1>2. Recorded(m) \in {"direct", "show", "look"}
    BY DEF Recorded
  <1>3. Idle \in Monitor
    BY CountType DEF Idle, Monitor
  <1> QED  BY <1>1, <1>2, <1>3

LEMMA StartMInv == ASSUME MInv, NEW m \in Monitors, Start(m) PROVE MInv'
  <1>1. m \in MonitorsOf(Of(m))
    BY DEF Start
  <1>2. PICK pc \in {"look", "over"} : Goto(m, pc)
    BY DEF Start
  <1> DEFINE r == [mon[m] EXCEPT !.pc = pc]
  <1>3. r \in Monitor /\ r.pc = pc /\ Set(m, r)
    <2>1. r \in Monitor /\ r.pc = pc
      BY <1>2, Fields DEF Monitor
    <2>2. Set(m, r)
      BY <1>2 DEF Goto
    <2> QED  BY <2>1, <2>2
  <1>4. UNCHANGED <<entry, gauges, world>>
    BY DEF Start
  <1>5. ~r.stale
    BY Fields DEF Start, At, MInv, MonOK, Monitor
  <1> HIDE DEF r
  <1> QED  BY <1>1, <1>3, <1>4, <1>5, QuietMInv

LEMMA QueryMInv ==
    ASSUME MInv, NEW m \in Monitors, NEW left \in 0..AllWorkers, NEW n \in 0..AllWorkers,
           NEW exit \in BOOLEAN, Query(m, left, n, exit)
    PROVE  MInv'
  <1> DEFINE pc == IF left = 0 THEN "show" ELSE "lookup"
             r  == [Idle EXCEPT !.pc = pc, !.left = left, !.seen = n, !.exit = exit]
  <1>1. /\ r \in Monitor /\ r.pc \notin {"assign", "direct"} /\ ~r.stale
        /\ Set(m, r) /\ UNCHANGED <<entry, gauges, world>>
    <2>1. r \in Monitor /\ r.pc = pc /\ ~r.stale
      BY Fields DEF Monitor, Idle
    <2>2. Set(m, r) /\ UNCHANGED <<entry, gauges, world>>
      BY DEF Query
    <2> QED  BY <2>1, <2>2
  <1>2. m \in MonitorsOf(Of(m))
    BY DEF Query, At, MInv, MonOK, Running
  <1> HIDE DEF r
  <1> QED  BY <1>1, <1>2, QuietMInv

LEMMA LookMInv ==
    ASSUME MInv, NEW m \in Monitors,
           LookMaster(m) \/ LookWorkers(m) \/ LookWorker(m) \/ LookLog(m)
    PROVE  MInv'
  <1>1. 0 \in 0..AllWorkers /\ 1 \in 0..AllWorkers
    BY CountType, Places
  <1>2. CASE LookMaster(m)
    BY <1>1, <1>2, QueryMInv DEF LookMaster
  <1>3. CASE LookWorkers(m)
    <2>1. LocalIn({"pending", "running"}) \subseteq Scenarios /\ LocalIn({"running"}) \subseteq Scenarios
      BY DEF LocalIn
    <2> DEFINE least == NWorkers * Cardinality(LocalIn({"running"}))
               most  == NWorkers * Cardinality(LocalIn({"pending", "running"}))
    <2>2. most \in Nat /\ most <= AllWorkers /\ AllWorkers \in Nat /\ least \in Nat
      BY <2>1, PartCount, CountType
    <2>3. \/ Query(m, 0, 0, TRUE)
          \/ \E j \in least..most : \E k \in least..j : Query(m, j, k, FALSE)
      BY <1>3 DEF LookWorkers
    <2> HIDE DEF least, most
    <2>4. \A j \in least..most : j \in 0..AllWorkers /\ \A k \in least..j : k \in 0..AllWorkers
      BY <2>2
    <2> QED  BY <1>1, <2>3, <2>4, QueryMInv
  <1>4. CASE LookWorker(m)
    BY <1>1, <1>4, QueryMInv DEF LookWorker
  <1>5. CASE LookLog(m)
    BY <1>1, <1>5, QueryMInv DEF LookLog
  <1> QED  BY <1>2, <1>3, <1>4, <1>5

LEMMA LookupMInv == ASSUME MInv, NEW m \in Monitors, Lookup(m) PROVE MInv'
  <1> DEFINE pc == IF entry[Of(m)] = None THEN "insert" ELSE "assign"
             r  == [mon[m] EXCEPT !.pc = pc]
  <1>1. m \in MonitorsOf(Of(m)) /\ UNCHANGED <<entry, gauges, world>>
    BY DEF Lookup, At, MInv, MonOK, Running
  <1>2. /\ r \in Monitor /\ ~r.stale
        /\ r.pc = "insert" \/ (r.pc = "assign" /\ entry[Of(m)] # None)
    BY Fields DEF Monitor, Lookup, At, MInv, MonOK
  <1>3. Set(m, r)
    BY DEF Lookup, Goto
  <1> HIDE DEF r
  <1> QED  BY <1>1, <1>2, <1>3, QuietMInv

LEMMA WrittenType ==
    ASSUME MInv, NEW m \in Monitors
    PROVE  /\ Written(m) \in Monitor /\ Written(m).pc = Recorded(m) /\ ~Written(m).stale
           /\ Written(m).seen = mon[m].seen /\ Written(m).exit = mon[m].exit
  BY Fields DEF Written, Monitor

\* What the three writes of the map have in common.
LEMMA WriteMInv ==
    ASSUME MInv, NEW m \in Monitors, Assign(m) \/ Insert(m) \/ Direct(m)
    PROVE  MInv'
  <1>1. m \in MonitorsOf(Of(m)) /\ UNCHANGED <<gauges, world>>
    BY DEF Assign, Insert, Direct, At, MInv, MonOK, Running
  <1>2. /\ Of(m) \in Scenarios /\ entry \in [Scenarios -> Entry \cup {None}]
        /\ mon \in [Monitors -> Monitor] /\ \A n \in Monitors : mon[n].stale => At(n, "assign")
    BY Places DEF MInv, TypeOK, MonOK
  <1>3. CASE Assign(m)
    <2> DEFINE x == IF mon[m].stale THEN entry[Of(m)] ELSE entry[Of(m)] \cup {Part(m)}
    <2>1. entry[Of(m)] \in Entry
      BY <1>2, <1>3 DEF MInv, MonOK, Assign, At
    <2>2. x \in Entry
      BY <2>1, Places
    <2>3. entry' = [entry EXCEPT ![Of(m)] = x]
      BY <1>2, <1>3 DEF Assign, Holding
    <2>4. \A n \in Monitors : mon'[n] = IF n = m THEN Written(m) ELSE mon[n]
      BY <1>2, <1>3 DEF Assign, Set
    <2>5. mon' \in [Monitors -> Monitor]
      BY <1>2, <1>3, WrittenType DEF Assign, Set
    <2> HIDE DEF x
    <2> QED  BY <1>1, <1>2, <2>2, <2>3, <2>4, <2>5, WrittenType, Fields, RecordMInv
  <1>4. CASE Insert(m)
    <2> DEFINE x == {Part(m)}
    <2>1. x \in Entry
      BY EntryOfOne
    <2>2. entry' = [entry EXCEPT ![Of(m)] = x]
      BY <1>4 DEF Insert
    <2>3. ASSUME NEW n \in Monitors
          PROVE  /\ mon'[n] \in Monitor
                 /\ n = m => mon'[n] = Written(m)
                 /\ n # m => mon'[n].pc = mon[n].pc /\ (mon'[n].stale => At(n, "assign"))
      <3>1. mon'[n] = IF n = m THEN Written(m)
                      ELSE IF Of(n) = Of(m) /\ At(n, "assign")
                           THEN [mon[n] EXCEPT !.stale = TRUE]
                      ELSE mon[n]
        BY <1>4 DEF Insert
      <3>2. mon[n] \in Monitor /\ (mon[n].stale => At(n, "assign"))
        BY <1>2
      <3>3. CASE n = m
        BY <3>1, <3>3, WrittenType
      <3>4. CASE n # m
        BY <3>1, <3>2, <3>4 DEF Monitor
      <3> QED  BY <3>3, <3>4
    <2>4. mon' = [n \in Monitors |-> mon'[n]]
      BY <1>4 DEF Insert
    <2>5. mon' \in [Monitors -> Monitor]
      BY <2>3, <2>4
    <2> HIDE DEF x
    <2> QED  BY <1>1, <2>1, <2>2, <2>3, <2>5, WrittenType, Fields, RecordMInv
  <1>5. CASE Direct(m)
    <2> DEFINE x == entry[Of(m)] \cup {Part(m)}
               r == IF mon[m].left > 1 THEN [mon[m] EXCEPT !.pc = "lookup", !.left = @ - 1]
                    ELSE [mon[m] EXCEPT !.pc = "show"]
    <2>1. entry[Of(m)] \in Entry
      BY <1>2, <1>5 DEF MInv, MonOK, Direct, At
    <2>2. x \in Entry
      BY <2>1, Places
    <2>3. entry' = [entry EXCEPT ![Of(m)] = x]
      BY <1>2, <1>5 DEF Direct, Holding
    <2>4. Set(m, r)
      BY <1>5 DEF Direct
    <2>5. ~mon[m].stale
      BY <1>2, <1>5 DEF Direct, At, MInv, MonOK
    <2>6. r \in Monitor /\ r.pc \in {"lookup", "show"} /\ ~r.stale
      <3>1. mon[m].left \in 0..AllWorkers /\ AllWorkers \in Nat /\ mon[m] \in Monitor
        BY Fields, CountType DEF Monitor
      <3>2. mon[m].left > 1 => mon[m].left - 1 \in 0..AllWorkers
        BY <3>1
      <3> QED  BY <2>5, <3>1, <3>2 DEF Monitor
    <2> HIDE DEF x, r
    <2>7. \A n \in Monitors : mon'[n] = IF n = m THEN r ELSE mon[n]
      BY <1>2, <2>4 DEF Set
    <2>8. mon' \in [Monitors -> Monitor]
      BY <1>2, <2>4, <2>6 DEF Set
    <2> QED  BY <1>1, <1>2, <2>2, <2>3, <2>6, <2>7, <2>8, RecordMInv
  <1> QED  BY <1>3, <1>4, <1>5

LEMMA ShowMInv == ASSUME MInv, NEW m \in Monitors, Show(m) PROVE MInv'
  <1> DEFINE r == [Idle EXCEPT !.pc = IF mon[m].exit THEN "over" ELSE "look"]
  <1>1. r \in Monitor /\ r.pc \in {"look", "over"} /\ ~r.stale /\ Set(m, r)
    <2>1. r \in Monitor /\ r.pc \in {"look", "over"} /\ ~r.stale
      BY Fields DEF Monitor, Idle
    <2>2. Set(m, r)
      BY DEF Show
    <2> QED  BY <2>1, <2>2
  <1> HIDE DEF r
  <1>2. m \in MonitorsOf(Of(m)) /\ UNCHANGED <<entry, world>>
    BY DEF Show, At, MInv, MonOK, Running
  <1>3. mon' \in [Monitors -> Monitor]
    BY <1>1 DEF Set, MInv, TypeOK
  <1>4. mon[m].seen \in 0..AllWorkers
    BY DEF MInv, TypeOK, Monitor
  <1>5. status' \in [Scenarios -> {0, 1, None}] /\ workers' \in [Scenarios -> 0..AllWorkers]
    BY <1>4, Places DEF Show, Shown, MInv, TypeOK
  <1>6. TypeOK'
    BY <1>2, <1>3, <1>5 DEF MInv, TypeOK, world
  <1>7. ASSUME NEW n \in Monitors PROVE MonOK(n)'
    <2>1. mon'[n] = IF n = m THEN r ELSE mon[n]
      BY <1>1 DEF Set, MInv, TypeOK
    <2>2. MonOK(n) /\ UNCHANGED <<entry, distributed>>
      BY <1>2 DEF MInv, world
    <2>3. UNCHANGED MonitorsOf(Of(n))
      BY <2>2 DEF MonitorsOf
    <2> QED  BY <1>1, <1>2, <2>1, <2>2, <2>3 DEF MonOK, Running, At
  <1> QED  BY <1>6, <1>7 DEF MInv

LEMMA PodsMInv ==
    ASSUME MInv, NEW s \in Scenarios, MasterStep(s) \/ WorkerStep(s)
    PROVE  MInv'
  <1>1. UNCHANGED <<mon, entry, gauges, distributed>>
    BY DEF MasterStep, WorkerStep
  <1>2. TypeOK'
    BY <1>1 DEF MInv, TypeOK, gauges, MasterStep, WorkerStep
  <1>3. ASSUME NEW n \in Monitors PROVE MonOK(n)'
    <2>1. MonOK(n) /\ UNCHANGED MonitorsOf(Of(n))
      BY <1>1 DEF MInv, MonitorsOf
    <2> QED  BY <1>1, <2>1 DEF MonOK, Running, At
  <1> QED  BY <1>2, <1>3 DEF MInv

LEMMA NextMInv == ASSUME MInv, [Next]_vars PROVE MInv'
  <1>1. ASSUME NEW m \in Monitors, Start(m) \/ Step(m)  PROVE MInv'
    <2>1. CASE Start(m)
      BY <2>1, StartMInv
    <2>2. CASE Lookup(m)
      BY <2>2, LookupMInv
    <2>3. CASE Panic(m)
      BY <2>3, StopMInv DEF Panic
    <2>4. CASE Show(m)
      BY <2>4, ShowMInv
    <2> QED  BY <1>1, <2>1, <2>2, <2>3, <2>4, LookMInv, WriteMInv DEF Step
  <1>2. ASSUME NEW m \in Monitors, NEW n \in Monitors, Fatal(m, n)  PROVE MInv'
    BY <1>2, StopMInv DEF Fatal
  <1>3. CASE Restart
    BY <1>3, StopMInv DEF Restart
  <1>4. CASE UNCHANGED vars
    <2>1. ASSUME NEW n \in Monitors PROVE MonOK(n)'
      <3>1. MonOK(n) /\ UNCHANGED MonitorsOf(Of(n))
        BY <1>4 DEF MInv, MonitorsOf, vars, world
      <3> QED  BY <1>4, <3>1 DEF MonOK, Running, At, vars
    <2>2. TypeOK'
      BY <1>4 DEF MInv, TypeOK, vars, gauges, world
    <2> QED  BY <2>1, <2>2 DEF MInv
  <1> QED  BY <1>1, <1>2, <1>3, <1>4, PodsMInv DEF Next

LEMMA SpecMInv == Spec => []MInv
  BY InitMInv, NextMInv, PTL DEF Spec

\* The gauges never count more workers than there are, and everything else is of its type.
THEOREM TypeCorrect == Spec => []TypeOK
  <1>1. MInv => TypeOK
    BY DEF MInv
  <1> QED  BY <1>1, SpecMInv, PTL

\* Steps that leave the map alone and change no monitor but m.
Quiet(m) ==
    /\ UNCHANGED entry
    /\ \A n \in Monitors : n # m => UNCHANGED mon[n]
    /\ UNCHANGED mon[m] \/ ~mon'[m].stale
    /\ mon'[m].pc = "insert" => At(m, "insert") \/ entry[Of(m)] = None
    /\ ~At(m, "direct") => mon'[m].pc # "direct"

LEMMA QuietSteps ==
    ASSUME MInv, NEW m \in Monitors, Start(m) \/ Step(m), mon' # NoMonitors
    PROVE  Quiet(m) \/ Assign(m) \/ Insert(m) \/ Direct(m)
  <1>0. mon[m] \in Monitor /\ MonOK(m) /\ mon \in [Monitors -> Monitor]
    BY DEF MInv, TypeOK
  <1>1. ASSUME NEW r, Set(m, r), UNCHANGED entry, r.stale = FALSE, r.pc # "direct",
               r.pc = "insert" => entry[Of(m)] = None
        PROVE  Quiet(m)
    BY <1>0, <1>1 DEF Quiet, Set
  <1>2. ASSUME NEW pc, Goto(m, pc), UNCHANGED entry, ~At(m, "assign"), pc # "direct",
               pc = "insert" => entry[Of(m)] = None
        PROVE  Quiet(m)
    <2> DEFINE r == [mon[m] EXCEPT !.pc = pc]
    <2>1. Set(m, r) /\ r.stale = FALSE /\ r.pc = pc
      BY <1>0, <1>2 DEF Goto, MonOK, Monitor
    <2> HIDE DEF r
    <2> QED  BY <1>1, <1>2, <2>1
  <1>3. ASSUME NEW left, NEW n, NEW exit, Query(m, left, n, exit)  PROVE Quiet(m)
    <2> DEFINE pc == IF left = 0 THEN "show" ELSE "lookup"
               r  == [Idle EXCEPT !.pc = pc, !.left = left, !.seen = n, !.exit = exit]
    <2>1. r.stale = FALSE /\ r.pc = pc /\ pc \notin {"direct", "insert"}
      BY DEF Idle
    <2>2. Set(m, r) /\ UNCHANGED entry
      BY <1>3 DEF Query
    <2> HIDE DEF r
    <2> QED  BY <1>1, <2>1, <2>2
  <1>4. CASE Start(m)
    BY <1>2, <1>4 DEF Start, At
  <1>5. CASE LookMaster(m) \/ LookWorkers(m) \/ LookWorker(m) \/ LookLog(m)
    BY <1>3, <1>5 DEF LookMaster, LookWorkers, LookWorker, LookLog
  <1>6. CASE Lookup(m)
    BY <1>2, <1>6 DEF Lookup, At
  <1>7. CASE Show(m)
    <2> DEFINE r == [Idle EXCEPT !.pc = IF mon[m].exit THEN "over" ELSE "look"]
    <2>1. r.stale = FALSE /\ r.pc \notin {"direct", "insert"}
      BY DEF Idle
    <2>2. Set(m, r) /\ UNCHANGED entry
      BY <1>7 DEF Show
    <2> HIDE DEF r
    <2> QED  BY <1>1, <2>1, <2>2
  <1>8. ~Panic(m)
    BY DEF Panic, Stop
  <1> QED  BY <1>4, <1>5, <1>6, <1>7, <1>8 DEF Step

\* What the three writes do to the map and to monitors.
LEMMA Writes ==
    ASSUME MInv, NEW m \in Monitors, Assign(m) \/ Insert(m) \/ Direct(m)
    PROVE  /\ m \in MonitorsOf(Of(m))
           /\ mon'[m].pc # "insert" /\ ~mon'[m].stale
           /\ \A n \in Monitors :
                 n # m => /\ mon'[n].pc = mon[n].pc
                          /\ (~Insert(m) \/ Of(n) # Of(m)) => UNCHANGED mon[n]
           /\ \A s \in Scenarios : s # Of(m) => UNCHANGED entry[s]
           /\ Insert(m) => entry'[Of(m)] = {Part(m)}
           /\ ~Insert(m) =>
                /\ entry[Of(m)] \in Entry
                /\ \/ entry'[Of(m)] = entry[Of(m)] \cup {Part(m)}
                   \/ Assign(m) /\ mon[m].stale /\ UNCHANGED entry
  <1>1. /\ mon[m] \in Monitor /\ MonOK(m) /\ mon \in [Monitors -> Monitor]
        /\ entry \in [Scenarios -> Entry \cup {None}] /\ Of(m) \in Scenarios
        /\ m \in MonitorsOf(Of(m))
    BY Places DEF MInv, TypeOK, MonOK, Running, Assign, Insert, Direct, At
  <1>2. CASE Assign(m)
    <2>1. entry[Of(m)] \in Entry /\ ~Insert(m)
      BY <1>1, <1>2 DEF Assign, Insert, MonOK, At
    <2>2. \A n \in Monitors : mon'[n] = IF n = m THEN Written(m) ELSE mon[n]
      BY <1>1, <1>2 DEF Assign, Set
    <2>3. Written(m).pc # "insert" /\ ~Written(m).stale
      BY WrittenType, Fields
    <2>4. \/ UNCHANGED entry /\ mon[m].stale
          \/ entry' = [entry EXCEPT ![Of(m)] = entry[Of(m)] \cup {Part(m)}]
      BY <1>1, <1>2 DEF Assign, Holding
    <2> QED  BY <1>1, <1>2, <2>1, <2>2, <2>3, <2>4
  <1>3. CASE Insert(m)
    <2>1. \A n \in Monitors :
             mon'[n] = IF n = m THEN Written(m)
                       ELSE IF Of(n) = Of(m) /\ At(n, "assign")
                           THEN [mon[n] EXCEPT !.stale = TRUE]
                      ELSE mon[n]
      BY <1>3 DEF Insert
    <2>2. Written(m).pc # "insert" /\ ~Written(m).stale
      BY WrittenType, Fields
    <2>3. ASSUME NEW n \in Monitors, n # m
          PROVE  mon'[n].pc = mon[n].pc /\ (Of(n) # Of(m) => UNCHANGED mon[n])
      BY <1>1, <2>1, <2>3 DEF Monitor
    <2>4. entry' = [entry EXCEPT ![Of(m)] = {Part(m)}]
      BY <1>3 DEF Insert
    <2> QED  BY <1>1, <1>3, <2>1, <2>2, <2>3, <2>4
  <1>4. CASE Direct(m)
    <2>1. entry[Of(m)] \in Entry /\ ~Insert(m)
      BY <1>1, <1>4 DEF Direct, Insert, MonOK, At
    <2> DEFINE r == IF mon[m].left > 1 THEN [mon[m] EXCEPT !.pc = "lookup", !.left = @ - 1]
                    ELSE [mon[m] EXCEPT !.pc = "show"]
    <2>2. r.pc # "insert" /\ ~r.stale
      BY <1>1, <1>4 DEF Direct, At, MonOK, Monitor
    <2>3. Set(m, r)
      BY <1>4 DEF Direct
    <2> HIDE DEF r
    <2>4. \A n \in Monitors : mon'[n] = IF n = m THEN r ELSE mon[n]
      BY <1>1, <2>3 DEF Set
    <2>5. entry' = [entry EXCEPT ![Of(m)] = entry[Of(m)] \cup {Part(m)}]
      BY <1>1, <1>4 DEF Direct, Holding
    <2> QED  BY <1>1, <1>4, <2>1, <2>2, <2>4, <2>5
  <1> QED  BY <1>2, <1>3, <1>4

LEMMA LiveSteps ==
    ASSUME MInv, [Next]_vars, mon' # NoMonitors
    PROVE  \/ UNCHANGED <<mon, entry>>
           \/ \E m \in Monitors : Quiet(m) \/ Assign(m) \/ Insert(m) \/ Direct(m)
  <1>1. ~Stop
    BY DEF Stop
  <1> QED  BY <1>1, QuietSteps DEF Next, vars, Fatal, Restart, MasterStep, WorkerStep

\* Once a scenario has an entry, what is in it is lost only to monitors that had looked it up
\* before, and no other one joins them while the process lives (the lookups and inserts of
\* extra_metrics.go, without a lock).
THEOREM LossIsBounded == Spec => LostToRacersOnly
  <1>1. ASSUME MInv, [Next]_vars, mon' # NoMonitors, NEW s \in Scenarios, entry[s] # None
        PROVE  /\ entry'[s] # None
               /\ Inserting(s)' \subseteq Inserting(s)
               /\ \/ entry[s] \subseteq entry'[s]
                  \/ \E m \in Inserting(s) \ Inserting(s)' : entry'[s] = {Part(m)}
    <2>1. MonitorsOf(s)' = MonitorsOf(s) /\ MonitorsOf(s) \subseteq Monitors
      <3>1. UNCHANGED distributed
        BY <1>1 DEF Next, vars, world, Start, Step, LookMaster, LookWorkers, LookWorker, LookLog,
           Query, Lookup, Assign, Insert, Direct, Panic, Show, Fatal, Restart, Stop, MasterStep,
           WorkerStep
      <3> QED  BY <3>1, Places DEF MonitorsOf
    <2>2. CASE UNCHANGED <<mon, entry>>
      BY <1>1, <2>1, <2>2 DEF Inserting, At
    <2>3. ASSUME NEW m \in Monitors, Quiet(m)
          PROVE  UNCHANGED entry /\ Inserting(s)' \subseteq Inserting(s)
      <3>1. \A n \in MonitorsOf(s) : At(n, "insert")' => At(n, "insert")
        BY <1>1, <2>1, <2>3, Places DEF Quiet, At
      <3> QED  BY <2>1, <2>3, <3>1 DEF Inserting, Quiet
    <2>4. ASSUME NEW m \in Monitors, Assign(m) \/ Insert(m) \/ Direct(m)
          PROVE  /\ entry'[s] # None
                 /\ Inserting(s)' \subseteq Inserting(s)
                 /\ \/ entry[s] \subseteq entry'[s]
                    \/ \E k \in Inserting(s) \ Inserting(s)' : entry'[s] = {Part(k)}
      <3>1. \A n \in MonitorsOf(s) : At(n, "insert")' => At(n, "insert") /\ n # m
        BY <1>1, <2>1, <2>4, Writes DEF At
      <3>2. Inserting(s)' \subseteq Inserting(s) /\ m \notin Inserting(s)'
        BY <2>1, <3>1 DEF Inserting
      <3>3. CASE Insert(m) /\ Of(m) = s
        <4>1. m \in Inserting(s)
          BY <1>1, <3>3, Writes DEF Insert, Inserting
        <4>2. entry'[s] = {Part(m)} /\ {Part(m)} # None
          BY <1>1, <3>3, Writes, EntryOfOne
        <4> QED  BY <3>2, <4>1, <4>2
      <3>4. CASE ~(Insert(m) /\ Of(m) = s)
        <4>1. entry[s] \subseteq entry'[s] /\ entry'[s] # None
          BY <1>1, <2>4, <3>4, Writes, Places
        <4> QED  BY <3>2, <4>1
      <3> QED  BY <3>3, <3>4
    <2> QED  BY <1>1, <2>2, <2>3, <2>4, LiveSteps
  <1>2. MInv /\ [Next]_vars =>
          [\A s \in Scenarios :
             entry[s] # None /\ mon' # NoMonitors =>
               /\ entry'[s] # None
               /\ Inserting(s)' \subseteq Inserting(s)
               /\ \/ entry[s] \subseteq entry'[s]
                  \/ \E m \in Inserting(s) \ Inserting(s)' : entry'[s] = {Part(m)}
          ]_vars
    BY <1>1
  <1> QED  BY <1>2, SpecMInv, PTL DEF Spec, LostToRacersOnly

\* The only way to a write of a WorkersStatus that is nil, which ends the process, is that a
\* monitor of the master or of the log inserts an entry after a monitor of workers has
\* looked it up and before it writes for the second time (extra_metrics.go:380, 427).
THEOREM PanicNeedsRace == Spec => NilMapIsRaced
  <1>1. ASSUME MInv, [Next]_vars, mon' # NoMonitors, NEW m \in Monitors, ~Doomed(m), Doomed(m)'
        PROVE  \E n \in Inserting(Of(m)) \ Inserting(Of(m))' : ~OfWorkers(n)
    <2>1. /\ OfWorkers(m) /\ Of(m) \in Scenarios /\ MonOK(m)
          /\ entry'[Of(m)] # None /\ "workers" \notin entry'[Of(m)]
          /\ mon'[m].pc = "direct" \/ mon'[m].stale
      BY <1>1, Places DEF Doomed, OfWorkers, Part, Kind, Of, At, MInv
    <2>2. ~UNCHANGED <<mon[m], entry[Of(m)]>>
      BY <1>1, <2>1 DEF Doomed, At
    <2>3. ASSUME NEW k \in Monitors, Quiet(k)  PROVE FALSE
      BY <1>1, <2>1, <2>2, <2>3 DEF Quiet, Doomed, At, MInv, TypeOK
    <2>4. PICK k \in Monitors : Assign(k) \/ Insert(k) \/ Direct(k)
      BY <1>1, <2>2, <2>3, LiveSteps
    <2>5. Of(k) = Of(m)
      BY <1>1, <2>1, <2>2, <2>4, Writes
    <2>6. ~OfWorkers(k) \/ ~Insert(k)
      BY <1>1, <2>1, <2>4, <2>5, Writes DEF OfWorkers
    <2>7. Insert(k)
      <3> SUFFICES ASSUME ~Insert(k)  PROVE FALSE
        OBVIOUS
      <3>1. /\ entry[Of(m)] # None
            /\ \/ entry'[Of(m)] = entry[Of(m)] \cup {Part(k)}
               \/ Assign(k) /\ mon[k].stale /\ UNCHANGED entry
        BY <1>1, <2>4, <2>5, Writes, Places
      <3>2. CASE k = m
        BY <1>1, <2>1, <3>1, <3>2 DEF Doomed, OfWorkers, At
      <3>3. CASE k # m
        <4>1. UNCHANGED mon[m]
          BY <1>1, <2>4, <3>3, Writes
        <4> QED  BY <1>1, <2>1, <3>1, <4>1 DEF Doomed, At
      <3> QED  BY <3>2, <3>3
    <2>8. k \in Inserting(Of(m)) /\ k \notin Inserting(Of(m))'
      BY <1>1, <2>5, <2>7, Writes DEF Insert, Inserting, At
    <2> QED  BY <2>6, <2>7, <2>8
  <1>2. MInv /\ [Next]_vars =>
          [mon' # NoMonitors =>
             \A m \in Monitors :
                 ~Doomed(m) /\ Doomed(m)' =>
                     \E n \in Inserting(Of(m)) \ Inserting(Of(m))' : ~OfWorkers(n)
          ]_vars
    BY <1>1
  <1> QED  BY <1>2, SpecMInv, PTL DEF Spec, NilMapIsRaced

-----------------------------------------------------------------------------
(* The last value of a monitor is that nothing is alive *)

\* A monitor of workers that is about to end has found none.
ExitInv == \A m \in Monitors : OfWorkers(m) /\ mon[m].exit => mon[m].seen = 0

WatchInv == MInv /\ ExitInv /\ ShownIsWatched

\* A step that leaves the gauges alone and ends no monitor.
LEMMA StillWatched ==
    ASSUME WatchInv, UNCHANGED <<gauges, distributed>>,
           \A n \in Monitors : Running(n) => Running(n)',
           \A n \in Monitors : OfWorkers(n) /\ mon'[n].exit =>
                                  (mon'[n].seen = 0 \/ (mon[n].exit /\ mon'[n].seen = mon[n].seen))
    PROVE  ExitInv' /\ ShownIsWatched'
  <1>1. ExitInv'
    BY DEF ExitInv, WatchInv, OfWorkers, Part, Kind
  <1>2. ASSUME NEW s \in Scenarios
        PROVE  /\ status'[s] = 0 => Watched(s)'
               /\ workers'[s] # 0 => \E n \in MonitorsOf(s)' : OfWorkers(n) /\ Running(n)'
    <2>1. /\ status[s] = 0 => Watched(s)
          /\ workers[s] # 0 => \E n \in MonitorsOf(s) : OfWorkers(n) /\ Running(n)
      BY DEF WatchInv, ShownIsWatched
    <2>2. UNCHANGED <<status, workers, MonitorsOf(s)>>
      BY DEF gauges, MonitorsOf
    <2>3. <<"master", s, 0>> \in Monitors /\ MonitorsOf(s) \subseteq Monitors
      BY Places DEF Monitors
    <2> QED  BY <2>1, <2>2, <2>3 DEF Watched
  <1> QED  BY <1>1, <1>2 DEF ShownIsWatched, OfWorkers, Part, Kind

\* A step of m that leaves the gauges alone and does not end m.
LEMMA QuietWatch ==
    ASSUME WatchInv, NEW m \in Monitors, NEW r, Set(m, r), UNCHANGED <<gauges, distributed>>,
           Running(m) => r.pc \notin {"idle", "over"},
           OfWorkers(m) /\ r.exit => r.seen = 0
    PROVE  ExitInv' /\ ShownIsWatched'
  <1>1. \A n \in Monitors : mon'[n] = IF n = m THEN r ELSE mon[n]
    BY DEF Set, WatchInv, MInv, TypeOK
  <1>2. \A n \in Monitors : Running(n) => Running(n)'
    BY <1>1 DEF Running
  <1> QED  BY <1>1, <1>2, StillWatched

\* A monitor shows what it found and runs on, or shows nothing alive and ends.
LEMMA ShowWatch ==
    ASSUME WatchInv, NEW m \in Monitors, Show(m)
    PROVE  ExitInv' /\ ShownIsWatched'
  <1> DEFINE r == [Idle EXCEPT !.pc = IF mon[m].exit THEN "over" ELSE "look"]
  <1>1. /\ r.pc = IF mon[m].exit THEN "over" ELSE "look"
        /\ r.exit = FALSE /\ Set(m, r)
    BY DEF Idle, Show
  <1> HIDE DEF r
  <1>2. \A n \in Monitors : mon'[n] = IF n = m THEN r ELSE mon[n]
    BY <1>1 DEF Set, WatchInv, MInv, TypeOK
  <1>3. \A n \in Monitors : n # m => Running(n)' = Running(n)
    BY <1>2 DEF Running
  <1>4. ~mon[m].exit => Running(m)'
    BY <1>1, <1>2 DEF Running
  <1>5. /\ m \in MonitorsOf(Of(m)) /\ Of(m) \in Scenarios /\ UNCHANGED distributed
        /\ status \in [Scenarios -> {0, 1, None}] /\ workers \in [Scenarios -> 0..AllWorkers]
    BY Places DEF Show, At, WatchInv, MInv, MonOK, Running, TypeOK, world
  <1>6. ExitInv'
    BY <1>1, <1>2 DEF ExitInv, WatchInv, OfWorkers, Part, Kind
  <1>7. ASSUME NEW s \in Scenarios, status'[s] = 0  PROVE Watched(s)'
    <2>1. <<"master", s, 0>> \in Monitors
      BY DEF Monitors
    <2>2. CASE m = <<"master", s, 0>>
      <3>1. Kind(m) = "master" /\ Of(m) = s /\ ~OfWorkers(m)
        BY <2>2 DEF Kind, Part, Of, OfWorkers
      <3>2. status'[s] = IF mon[m].exit THEN 1 ELSE 0
        BY <1>5, <3>1 DEF Show, Shown
      <3> QED  BY <1>4, <1>7, <2>2, <3>2 DEF Watched
    <2>3. CASE m # <<"master", s, 0>>
      <3>1. Kind(m) = "master" => m = <<"master", Of(m), 0>>
        BY DEF Kind, Of, Monitors
      <3>2. status'[s] = status[s]
        BY <1>5, <2>3, <3>1 DEF Show, Shown
      <3> QED  BY <1>3, <1>7, <2>1, <2>3, <3>2 DEF WatchInv, ShownIsWatched, Watched
    <2> QED  BY <2>2, <2>3
  <1>8. ASSUME NEW s \in Scenarios, workers'[s] # 0
        PROVE  \E n \in MonitorsOf(s) : OfWorkers(n) /\ Running(n)'
    <2>1. CASE OfWorkers(m) /\ Of(m) = s
      <3>1. workers'[s] = mon[m].seen
        BY <1>5, <2>1 DEF Show, Shown, OfWorkers, Part
      <3>2. ~mon[m].exit
        BY <1>8, <2>1, <3>1 DEF WatchInv, ExitInv
      <3> QED  BY <1>4, <1>5, <2>1, <3>2
    <2>2. CASE ~(OfWorkers(m) /\ Of(m) = s)
      <3>1. workers'[s] = workers[s]
        BY <1>5, <2>2 DEF Show, Shown
      <3>2. PICK n \in MonitorsOf(s) : OfWorkers(n) /\ Running(n)
        BY <1>8, <3>1 DEF WatchInv, ShownIsWatched
      <3>3. n \in Monitors /\ n # m
        BY <2>2, <3>2, Places
      <3> QED  BY <1>3, <3>2, <3>3
    <2> QED  BY <2>1, <2>2
  <1>9. \A s \in Scenarios : MonitorsOf(s)' = MonitorsOf(s)
    BY <1>5 DEF MonitorsOf
  <1> QED  BY <1>6, <1>7, <1>8, <1>9 DEF ShownIsWatched, OfWorkers, Kind

LEMMA StopWatch == ASSUME Stop PROVE ExitInv' /\ ShownIsWatched'
  <1>1. None # 0
    BY MonitorsAssumption
  <1>2. \A s \in Scenarios : status'[s] = None /\ workers'[s] = 0
    BY DEF Stop, NoGauges
  <1>3. \A m \in Monitors : ~mon'[m].exit
    BY DEF Stop, NoMonitors, Idle
  <1> QED  BY <1>1, <1>2, <1>3 DEF ExitInv, ShownIsWatched

LEMMA StepWatch ==
    ASSUME WatchInv, NEW m \in Monitors, Start(m) \/ Step(m)
    PROVE  ExitInv' /\ ShownIsWatched'
  <1>0. mon[m] \in Monitor /\ (OfWorkers(m) /\ mon[m].exit => mon[m].seen = 0)
    BY DEF WatchInv, ExitInv, MInv, TypeOK
  \* Steps that keep what was found.
  <1>1. ASSUME NEW r, Set(m, r), UNCHANGED <<gauges, distributed>>,
               Running(m) => r.pc \notin {"idle", "over"},
               r.exit = mon[m].exit, r.seen = mon[m].seen
        PROVE  ExitInv' /\ ShownIsWatched'
    BY <1>0, <1>1, QuietWatch
  <1>2. ASSUME NEW left, NEW n, NEW exit, Query(m, left, n, exit),
               OfWorkers(m) /\ exit => n = 0
        PROVE  ExitInv' /\ ShownIsWatched'
    <2> DEFINE pc == IF left = 0 THEN "show" ELSE "lookup"
               r  == [Idle EXCEPT !.pc = pc, !.left = left, !.seen = n, !.exit = exit]
    <2>1. r.pc = pc /\ r.exit = exit /\ r.seen = n /\ pc \notin {"idle", "over"}
      BY DEF Idle
    <2>2. Set(m, r) /\ UNCHANGED <<gauges, distributed>>
      BY <1>2 DEF Query, world
    <2> HIDE DEF r
    <2> QED  BY <1>2, <2>1, <2>2, QuietWatch
  <1>3. CASE Start(m)
    <2>1. ~Running(m) /\ UNCHANGED <<gauges, distributed>> /\ \E pc \in {"look", "over"} : Goto(m, pc)
      BY <1>3 DEF Start, At, Running, world
    <2>2. PICK pc \in {"look", "over"} : Goto(m, pc)
      BY <2>1
    <2> DEFINE r == [mon[m] EXCEPT !.pc = pc]
    <2>3. Set(m, r) /\ r.exit = mon[m].exit /\ r.seen = mon[m].seen
      BY <1>0, <2>2 DEF Goto, Monitor
    <2> HIDE DEF r
    <2> QED  BY <1>1, <2>1, <2>3
  <1>4. CASE LookMaster(m) \/ LookWorkers(m) \/ LookWorker(m) \/ LookLog(m)
    BY <1>2, <1>4 DEF LookMaster, LookWorkers, LookWorker, LookLog, OfWorkers
  <1>5. CASE Lookup(m) \/ Assign(m) \/ Insert(m) \/ Direct(m)
    <2>1. Recorded(m) \notin {"idle", "over"}
      BY DEF Recorded
    <2>2. UNCHANGED <<gauges, distributed>>
      BY <1>5 DEF Lookup, Assign, Insert, Direct, world
    <2>3. ASSUME NEW pc \in {"assign", "insert", "direct", "show", Recorded(m)}, Goto(m, pc)
          PROVE  ExitInv' /\ ShownIsWatched'
      <3> DEFINE r == [mon[m] EXCEPT !.pc = pc]
      <3>1. Set(m, r) /\ r.pc = pc /\ r.exit = mon[m].exit /\ r.seen = mon[m].seen
        BY <1>0, <2>3 DEF Goto, Monitor
      <3> HIDE DEF r
      <3> QED  BY <1>1, <2>1, <2>2, <2>3, <3>1
    <2>4. CASE Lookup(m)
      BY <2>3, <2>4 DEF Lookup
    <2>5. CASE Assign(m)
      BY <1>1, <2>1, <2>2, <2>5, WrittenType DEF Assign, WatchInv
    <2>6. CASE Insert(m)
      <3>1. /\ UNCHANGED <<gauges, distributed>>
            /\ \A n \in Monitors :
                 /\ mon'[n].exit = mon[n].exit /\ mon'[n].seen = mon[n].seen
                 /\ mon'[n].pc = IF n = m THEN Recorded(m) ELSE mon[n].pc
        BY <2>2, <2>6, WrittenType DEF Insert, WatchInv, MInv, TypeOK, Monitor
      <3>2. \A n \in Monitors : Running(n) => Running(n)'
        BY <2>1, <3>1 DEF Running
      <3> QED  BY <3>1, <3>2, StillWatched
    <2>7. CASE Direct(m)
      <3> DEFINE r == IF mon[m].left > 1 THEN [mon[m] EXCEPT !.pc = "lookup", !.left = @ - 1]
                      ELSE [mon[m] EXCEPT !.pc = "show"]
      <3>1. r.pc \in {"lookup", "show"} /\ r.exit = mon[m].exit /\ r.seen = mon[m].seen
        BY <1>0 DEF Monitor
      <3>2. Set(m, r)
        BY <2>7 DEF Direct
      <3> HIDE DEF r
      <3> QED  BY <1>1, <2>2, <3>1, <3>2
    <2> QED  BY <1>5, <2>4, <2>5, <2>6, <2>7
  <1>7. CASE Panic(m)
    BY <1>7, StopWatch DEF Panic
  <1>8. CASE Show(m)
    BY <1>8, ShowWatch
  <1> QED  BY <1>3, <1>4, <1>5, <1>7, <1>8 DEF Step

\* No gauge is left at a value that nobody will correct, however many monitors of a scenario
\* set it, in whatever order they end, and whatever process they run in.
THEOREM GaugesAreWatched == Spec => []ShownIsWatched
  <1>1. Init => WatchInv
    <2> SUFFICES ASSUME Init  PROVE WatchInv
      OBVIOUS
    <2>1. None # 0
      BY MonitorsAssumption
    <2>2. ExitInv /\ ShownIsWatched
      BY <2>1 DEF Init, NoMonitors, NoGauges, Idle, ExitInv, ShownIsWatched
    <2> QED  BY <2>2, InitMInv DEF WatchInv
  <1>2. WatchInv /\ [Next]_vars => WatchInv'
    <2> SUFFICES ASSUME WatchInv, [Next]_vars  PROVE ExitInv' /\ ShownIsWatched'
      BY NextMInv DEF WatchInv
    <2>1. ASSUME UNCHANGED <<mon, gauges, distributed>>  PROVE ExitInv' /\ ShownIsWatched'
      <3>1. \A s \in Scenarios : MonitorsOf(s)' = MonitorsOf(s) /\ Watched(s)' = Watched(s)
        BY <2>1 DEF MonitorsOf, Watched, Running
      <3>2. \A n : Running(n)' = Running(n)
        BY <2>1 DEF Running
      <3> QED  BY <2>1, <3>1, <3>2 DEF WatchInv, ExitInv, ShownIsWatched, gauges, OfWorkers, Kind
    <2>2. ASSUME NEW s \in Scenarios, MasterStep(s) \/ WorkerStep(s)
          PROVE  UNCHANGED <<mon, gauges, distributed>>
      BY <2>2 DEF MasterStep, WorkerStep
    <2>3. UNCHANGED vars => UNCHANGED <<mon, gauges, distributed>>
      BY DEF vars, gauges, world
    <2> QED  BY <2>1, <2>2, <2>3, StepWatch, StopWatch DEF Next, Fatal, Restart
  <1>3. WatchInv => ShownIsWatched
    BY DEF WatchInv
  <1> QED  BY <1>1, <1>2, <1>3, PTL DEF Spec
=============================================================================
