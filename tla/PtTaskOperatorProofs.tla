------------------------- MODULE PtTaskOperatorProofs -------------------------
(***************************************************************************)
(* Proofs about PtTaskOperator, for every value of its constants.          *)
(***************************************************************************)
EXTENDS PtTaskOperator, FiniteSetTheorems, SequenceTheorems, WellFoundedInduction, TLAPS

-----------------------------------------------------------------------------
(* Sums, and the workers of a scenario *)

\* Induction, as a fact about sets: the library's theorems are about operators.
LEMMA NatSetInduction ==
  ASSUME NEW S, 0 \in S, \A n \in Nat : n \in S => n + 1 \in S
  PROVE  Nat \subseteq S
  <1> DEFINE T == Nat \ S
  <1> SUFFICES ASSUME T # {} PROVE FALSE
    OBVIOUS
  <1>1. PICK x \in T : \A y \in T : <<y, x>> \notin OpToRel(<, Nat)
    <2>1. T \subseteq Nat
      OBVIOUS
    <2> HIDE DEF T
    <2> QED BY <2>1, NatLessThanWellFounded, WFMin
  <1>2. \A y \in T : ~(y < x)
    BY <1>1 DEF OpToRel
  <1>3. x \in Nat /\ x # 0
    BY <1>1
  <1>4. x - 1 \in Nat /\ x - 1 < x /\ (x - 1) + 1 = x
    BY <1>3
  <1>5. x - 1 \in S
    BY <1>2, <1>4
  <1>6. (x - 1) + 1 \in S
    BY <1>4, <1>5
  <1> QED BY <1>1, <1>4, <1>6

\* The sums of a sequence of numbers.
IsSum(sum, f, n) == /\ sum \in [0..n -> Nat]
                    /\ \A k \in 0..n : sum[k] = IF k = 0 THEN 0 ELSE sum[k - 1] + f[k]

LEMMA SumExists ==
  ASSUME NEW n \in Nat, NEW f \in [1..n -> Nat]
  PROVE  \E sum : IsSum(sum, f, n)
  <1> DEFINE S == {k \in Nat : k <= n => \E sum : IsSum(sum, f, k)}
  <1>1. 0 \in S
    <2>1. IsSum([k \in 0..0 |-> 0], f, 0)
      BY DEF IsSum
    <2> QED BY <2>1
  <1>2. ASSUME NEW m \in Nat, m \in S PROVE m + 1 \in S
    <2> SUFFICES ASSUME m + 1 <= n PROVE \E sum : IsSum(sum, f, m + 1)
      OBVIOUS
    <2>1. PICK sum : IsSum(sum, f, m)
      BY <1>2
    <2> DEFINE more == [k \in 0..(m + 1) |-> IF k <= m THEN sum[k] ELSE sum[m] + f[k]]
    <2>2. sum[m] \in Nat /\ f[m + 1] \in Nat /\ \A k \in 0..m : sum[k] \in Nat
      BY <2>1 DEF IsSum
    <2>3. more \in [0..(m + 1) -> Nat]
      BY <2>2
    <2>4. ASSUME NEW k \in 0..(m + 1)
          PROVE  more[k] = IF k = 0 THEN 0 ELSE more[k - 1] + f[k]
      <3>1. CASE k = m + 1
        BY <3>1
      <3>2. CASE k = 0
        BY <2>1, <3>2 DEF IsSum
      <3>3. CASE k \in 1..m
        <4>1. k - 1 \in 0..m /\ k \in 0..m /\ k # 0
          BY <3>3
        <4>2. sum[k] = sum[k - 1] + f[k]
          BY <2>1, <4>1 DEF IsSum
        <4>3. more[k] = sum[k] /\ more[k - 1] = sum[k - 1]
          BY <4>1
        <4> QED BY <4>1, <4>2, <4>3
      <3> QED BY <3>1, <3>2, <3>3
    <2>5. IsSum(more, f, m + 1)
      BY <2>3, <2>4 DEF IsSum
    <2> QED BY <2>5
  <1>3. n \in S
    <2> HIDE DEF S
    <2> QED BY <1>1, <1>2, NatSetInduction
  <1> QED BY <1>3

LEMMA ShareBounds ==
  ASSUME NEW w \in Nat, NEW p \in Nat
  PROVE  /\ Share(w, p) \in Nat
         /\ 100 * Share(w, p) <= w * p
         /\ w * p < 100 * Share(w, p) + 100
  <1>1. w * p \in Nat
    OBVIOUS
  <1> QED BY <1>1 DEF Share

LEMMA SumsAdd ==
  ASSUME NEW f \in Seq(Nat)
  PROVE  IsSum(Sums(f), f, Len(f))
  <1> DEFINE n == Len(f)
  <1>1. n \in Nat /\ f \in [1..n -> Nat]
    OBVIOUS
  <1>2. PICK sum : IsSum(sum, f, n)
    BY <1>1, SumExists
  <1>3. sum = [k \in 0..n |-> IF k = 0 THEN 0 ELSE sum[k - 1] + f[k]]
    BY <1>1, <1>2 DEF IsSum
  <1>4. Sums(f) = [k \in 0..n |-> IF k = 0 THEN 0 ELSE Sums(f)[k - 1] + f[k]]
    BY <1>3 DEF Sums
  <1> DEFINE S == {k \in Nat : k <= n => Sums(f)[k] \in Nat}
  <1>5. 0 \in S
    <2>1. 0 \in 0..n
      BY <1>1
    <2> QED BY <1>4, <2>1
  <1>6. ASSUME NEW m \in Nat, m \in S PROVE m + 1 \in S
    <2> SUFFICES ASSUME m + 1 <= n PROVE Sums(f)[m + 1] \in Nat
      OBVIOUS
    <2>1. m + 1 \in 0..n /\ m + 1 # 0 /\ (m + 1) - 1 = m /\ m <= n
      BY <1>1
    <2>2. Sums(f)[m + 1] = Sums(f)[m] + f[m + 1]
      BY <1>4, <2>1
    <2> QED BY <1>1, <1>6, <2>1, <2>2
  <1>7. Nat \subseteq S
    <2> HIDE DEF S
    <2> QED BY <1>5, <1>6, NatSetInduction
  <1>8. \A k \in 0..n : Sums(f)[k] \in Nat
    BY <1>1, <1>7
  <1>9. Sums(f) \in [0..n -> Nat]
    BY <1>4, <1>8
  <1>10. \A k \in 0..n : Sums(f)[k] = IF k = 0 THEN 0 ELSE Sums(f)[k - 1] + f[k]
    BY <1>4
  <1> QED BY <1>9, <1>10 DEF IsSum

LEMMA NumbersIn ==
  ASSUME NEW S, S \subseteq Nat, NEW f \in Seq(S)
  PROVE  /\ Len(f) \in Nat /\ f \in Seq(Nat)
         /\ \A r \in 1..Len(f) : f[r] \in Nat
  <1>1. Len(f) \in Nat /\ f \in [1..Len(f) -> S]
    OBVIOUS
  <1>2. f \in [1..Len(f) -> Nat]
    BY <1>1
  <1> QED BY <1>1, <1>2, SeqDef

\* A scenario gets a whole number of workers.
LEMMA WorkersType ==
  ASSUME ConstantsAssumption
  PROVE  /\ Workers \in [Scenarios -> Nat]
         /\ \A s \in Scenarios : Shares(s) \in Seq(Nat) /\ Len(Shares(s)) = Len(Traffics[s])
         /\ \A s \in Scenarios : Traffics[s] \in Seq(Nat) /\ Requested[s] \in Nat
  <1>1. ASSUME NEW s \in Scenarios
        PROVE  /\ Traffics[s] \in Seq(Nat) /\ Requested[s] \in Nat
               /\ Shares(s) \in Seq(Nat) /\ Len(Shares(s)) = Len(Traffics[s])
               /\ Total(Shares(s)) \in Nat
    <2>1. Traffics[s] \in Seq(Nat) /\ Requested[s] \in Nat
      BY TrafficsAssumption DEF ConstantsAssumption, TrafficsAssumption
    <2>2. /\ Len(Traffics[s]) \in Nat /\ Traffics[s] \in Seq(Nat)
          /\ \A r \in 1..Len(Traffics[s]) : Traffics[s][r] \in Nat
      BY <2>1, NumbersIn
    <2>3. \A r \in 1..Len(Traffics[s]) : Share(Requested[s], Traffics[s][r]) \in Nat
      BY <2>1, <2>2, ShareBounds
    <2>4. Shares(s) \in Seq(Nat) /\ Len(Shares(s)) = Len(Traffics[s])
      BY <2>2, <2>3 DEF Shares
    <2>5. Len(Traffics[s]) \in 0..Len(Traffics[s])
      BY <2>2
    <2>6. Total(Shares(s)) \in Nat
      BY <2>4, <2>5, SumsAdd DEF Total, IsSum
    <2> QED BY <2>1, <2>2, <2>4, <2>6
  <1> QED BY <1>1 DEF Workers

LEMMA OneMore ==
  ASSUME NEW w \in Nat, NEW v \in Nat, NEW x \in Nat, NEW y \in Nat, NEW m \in Nat,
         100 * w <= x, x <= 100 * w + 99 * m, 100 * v <= y, y < 100 * v + 100
  PROVE  /\ 100 * (w + v) <= x + y
         /\ x + y <= 100 * (w + v) + 99 * (m + 1)
  OBVIOUS

\* Cut shares add up to no more than the share of the sum, and to less than one worker per
\* region less.
LEMMA SharesAdd ==
  ASSUME ConstantsAssumption, NEW s \in Scenarios
  PROVE  LET w == Total(Shares(s))  p == Total(Traffics[s])  n == Len(Traffics[s]) IN
         /\ w \in Nat /\ p \in Nat /\ n \in Nat
         /\ 100 * w <= Requested[s] * p
         /\ Requested[s] * p <= 100 * w + 99 * n
  <1> DEFINE n == Len(Traffics[s])
             q == Requested[s]
             W(k) == Sums(Shares(s))[k]
             P(k) == Sums(Traffics[s])[k]
             S == {k \in Nat : k <= n => /\ 100 * W(k) <= q * P(k)
                                         /\ q * P(k) <= 100 * W(k) + 99 * k}
  <1>1. /\ n \in Nat /\ q \in Nat
        /\ \A k \in 0..n : W(k) \in Nat /\ P(k) \in Nat
        /\ W(0) = 0 /\ P(0) = 0
        /\ \A k \in 1..n : /\ W(k) = W(k - 1) + Share(q, Traffics[s][k])
                           /\ P(k) = P(k - 1) + Traffics[s][k]
                           /\ Traffics[s][k] \in Nat
    <2>1. /\ Traffics[s] \in Seq(Nat) /\ Shares(s) \in Seq(Nat) /\ Len(Shares(s)) = n
          /\ q \in Nat
      BY WorkersType
    <2>2. n \in Nat /\ \A k \in 1..n : Traffics[s][k] \in Nat
      BY <2>1
    <2>3. IsSum(Sums(Shares(s)), Shares(s), n) /\ IsSum(Sums(Traffics[s]), Traffics[s], n)
      BY <2>1, SumsAdd
    <2>4. \A k \in 1..n : Shares(s)[k] = Share(q, Traffics[s][k]) /\ k \in 0..n /\ k # 0
      BY <2>2 DEF Shares
    <2>5. 0 \in 0..n
      BY <2>2
    <2> QED BY <2>1, <2>2, <2>3, <2>4, <2>5 DEF IsSum
  <1> HIDE DEF W, P, n, q
  <1>2. 0 \in S
    BY <1>1
  <1>3. ASSUME NEW m \in Nat, m \in S PROVE m + 1 \in S
    <2> SUFFICES ASSUME m + 1 <= n
                 PROVE  /\ 100 * W(m + 1) <= q * P(m + 1)
                        /\ q * P(m + 1) <= 100 * W(m + 1) + 99 * (m + 1)
      OBVIOUS
    <2> DEFINE p == Traffics[s][m + 1]
    <2>1. m + 1 \in 1..n /\ m \in 0..n /\ (m + 1) - 1 = m /\ m + 1 \in 0..n
      BY <1>1
    <2>2. W(m + 1) = W(m) + Share(q, p) /\ P(m + 1) = P(m) + p /\ p \in Nat
      BY <1>1, <2>1
    <2>3. W(m) \in Nat /\ P(m) \in Nat /\ q \in Nat
      BY <1>1, <2>1
    <2>4. /\ Share(q, p) \in Nat /\ 100 * Share(q, p) <= q * p
          /\ q * p < 100 * Share(q, p) + 100
      BY <2>2, <2>3, ShareBounds
    <2>5. 100 * W(m) <= q * P(m) /\ q * P(m) <= 100 * W(m) + 99 * m
      BY <1>1, <1>3, <2>1
    <2> HIDE DEF p
    <2>6. q * P(m + 1) = q * P(m) + q * p /\ q * P(m) \in Nat /\ q * p \in Nat
      BY <2>2, <2>3
    <2>7. W(m + 1) = W(m) + Share(q, p)
      BY <2>2
    <2>8. /\ 100 * (W(m) + Share(q, p)) <= q * P(m) + q * p
          /\ q * P(m) + q * p <= 100 * (W(m) + Share(q, p)) + 99 * (m + 1)
      <3> DEFINE x == q * P(m)
                 y == q * p
                 v == Share(q, p)
                 w == W(m)
      <3>1. /\ x \in Nat /\ y \in Nat /\ v \in Nat /\ w \in Nat
            /\ 100 * w <= x /\ x <= 100 * w + 99 * m /\ 100 * v <= y /\ y < 100 * v + 100
        BY <2>3, <2>4, <2>5, <2>6
      <3> HIDE DEF x, y, v, w
      <3>2. 100 * (w + v) <= x + y /\ x + y <= 100 * (w + v) + 99 * (m + 1)
        BY <3>1, OneMore
      <3> QED BY <3>2 DEF x, y, v, w
    <2> QED BY <2>6, <2>7, <2>8
  <1>4. n \in S
    <2> HIDE DEF S
    <2> QED BY <1>1, <1>2, <1>3, NatSetInduction
  <1>5. n \in 0..n
    BY <1>1
  <1>6. /\ W(n) \in Nat /\ P(n) \in Nat
        /\ 100 * W(n) <= q * P(n) /\ q * P(n) <= 100 * W(n) + 99 * n
    BY <1>1, <1>4, <1>5
  <1>7. W(n) = Total(Shares(s)) /\ P(n) = Total(Traffics[s])
    BY WorkersType DEF Total, W, P, n
  <1> QED BY <1>1, <1>6, <1>7 DEF n, q

-----------------------------------------------------------------------------
(* Types *)

\* The version kept before anything was submitted is a version.
LEMMA NoVersionType == NoVersion \in Version
  BY DEF NoVersion, Version, NoId, PtStatuses

LEMMA NoVersionDead == NoVersion.rv = 0 /\ NoVersion.live = FALSE
  BY DEF NoVersion

LEMMA IdleTypes == IdleThread \in Thread /\ IdleRec \in Rec
  BY NoVersionType DEF IdleThread, Thread, IdleRec, Rec, NoId

\* checkMasterStatus counts the masters it lists.
LEMMA MastersSeenCount ==
  ASSUME ConstantsAssumption
  PROVE  Cardinality(MastersSeen) \in Nat
  <1>1. MastersSeen \subseteq Scenarios
    BY DEF MastersSeen
  <1>2. IsFiniteSet(MastersSeen)
    BY <1>1, FS_Subset DEF ConstantsAssumption
  <1> QED BY <1>2, FS_CardinalityType

\* What updateStatus writes is a version of the object, with the phase of its
\* scenario set and the archive added, and nothing else changed.
LEMMA ReportedType ==
  ASSUME TypeOK, NEW x \in Threads, NEW v \in Version, th[x].scen \in Scenarios
  PROVE  /\ Reported(x, v) \in Version
         /\ Reported(x, v).live = v.live /\ Reported(x, v).rv = v.rv
         /\ Reported(x, v).id = v.id
         /\ v.archives \subseteq Reported(x, v).archives
         /\ \A s \in Scenarios \ {th[x].scen} : Reported(x, v).phases[s] = v.phases[s]
  <1>1. th[x] \in Thread
    BY DEF TypeOK
  <1>2. th[x].ph \in Phases \cup {""}
    BY <1>1 DEF Thread
  <1>3. StatusFor(th[x].ph) \in PtStatuses
    BY <1>2 DEF StatusFor, Phases, ProvisioningPhases, PtStatuses
  <1> QED BY <1>2, <1>3 DEF Reported, Version

LEMMA StoredType ==
  ASSUME NEW t, NEW v \in Version, NEW c \in BOOLEAN
  PROVE  /\ Stored(t, v, c) \in Version
         /\ c => Stored(t, v, c) = [v EXCEPT !.rv = v.rv + 1]
         /\ ~c => Stored(t, v, c) = v
  <1>1. [v EXCEPT !.rv = v.rv + 1] \in Version
    <2>1. v.rv \in Nat
      BY DEF Version
    <2>2. v.rv + 1 \in Nat
      BY <2>1
    <2> QED BY <2>2 DEF Version
  <1>2. c => Stored(t, v, c) = [v EXCEPT !.rv = v.rv + 1]
    BY Zenon DEF Stored
  <1>3. ~c => Stored(t, v, c) = v
    BY Zenon DEF Stored
  <1> QED BY <1>1, <1>2, <1>3, Zenon

\* The state of the threads after a goroutine took r for its own.
LEMMA SetType ==
  ASSUME TypeOK, NEW x \in Threads, NEW r \in Thread, Set(x, r)
  PROVE  /\ th' \in [Threads -> Thread]
         /\ th'[x] = r
         /\ \A y \in Threads : y # x => th'[y] = th[y]
  BY DEF Set, TypeOK

LEMMA InitType ==
  ASSUME ConstantsAssumption, Init
  PROVE  TypeOK
  BY NoVersionType, IdleTypes
  DEF ConstantsAssumption, Init, TypeOK, ActorInv, PodStates, PtStatuses, IdleThread,
      IdleRec, UpdateSteps, ProvisionSteps, WatchSteps, NoId

-----------------------------------------------------------------------------

\* What the steps of the threads leave alone keeps its type.
StateTypes ==
    /\ status \in [Tasks -> Version] /\ cache \in [Tasks -> Version]
    /\ queue \subseteq Tasks
    /\ objects \in [Names -> Nat] /\ seen \subseteq HomeNames
    /\ pod \in [Scenarios -> PodStates] /\ ingress \subseteq Scenarios
    /\ saved \subseteq Nat \X Scenarios
    /\ told \in [Tasks -> PtStatuses]
    /\ uuids \in Nat /\ edits \in Nat /\ crashes \in Nat

\* The invariant of one thread.
ThreadOK(x, r) ==
    /\ r \in Thread
    /\ r.pc # "idle" => r.task \in Tasks
    /\ r.pc \in UpdateSteps \cup {"copy"} => r.scen \in Scenarios
    /\ x \in Provisioners /\ r.pc # "idle" => r.scen \in ScenariosOf[r.task]
    /\ r.pc \in ProvisionSteps => x \in Provisioners
    /\ r.pc \in WatchSteps => x \in Watchers

RecOK(r) ==
    /\ r \in Rec
    /\ r.pc # "idle" => r.task \in Tasks /\ r.todo \subseteq ScenariosOf[r.task]

LEMMA TypeParts ==
  TypeOK <=> /\ StateTypes
             /\ th \in [Threads -> Thread] /\ \A x \in Threads : ThreadOK(x, th[x])
             /\ RecOK(rec)
  BY DEF TypeOK, ActorInv, StateTypes, ThreadOK, RecOK

LEMMA IdleOK ==
  ASSUME NEW x \in Threads
  PROVE  ThreadOK(x, IdleThread)
  BY IdleTypes DEF ThreadOK, IdleThread, UpdateSteps, ProvisionSteps, WatchSteps

\* A goroutine's step keeps the threads typed when its own record is.
LEMMA SetOK ==
  ASSUME TypeOK, NEW x \in Threads, NEW r, ThreadOK(x, r), Set(x, r)
  PROVE  th' \in [Threads -> Thread] /\ \A y \in Threads : ThreadOK(y, th'[y])
  BY TypeParts DEF ThreadOK, Set

-----------------------------------------------------------------------------
(* Every step of a thread keeps ThreadOK of that thread *)

LEMMA GotoProvision ==
  ASSUME TypeOK, NEW x \in Threads, th[x].pc \in ProvisionSteps,
         NEW pc \in ProvisionSteps
  PROVE  ThreadOK(x, [th[x] EXCEPT !.pc = pc])
  BY TypeParts DEF ThreadOK, Thread, ProvisionSteps, UpdateSteps, WatchSteps, Provisioners

LEMMA ReportingOK ==
  ASSUME ConstantsAssumption, TypeOK, NEW x \in Threads, th[x].pc \in ProvisionSteps,
         NEW ph \in Phases, NEW next \in Phases \cup {""}
  PROVE  ThreadOK(x, Reporting(x, ph, next))
  <1>1. /\ th[x] \in Thread /\ th[x].task \in Tasks
        /\ x \in Provisioners /\ th[x].scen \in ScenariosOf[th[x].task]
    BY TypeParts DEF ThreadOK, ProvisionSteps
  <1>2. Reporting(x, ph, next) \in Thread
    BY <1>1 DEF Thread, Reporting, UpdateSteps
  <1>3. /\ Reporting(x, ph, next).pc = "update.get"
        /\ Reporting(x, ph, next).task = th[x].task
        /\ Reporting(x, ph, next).scen = th[x].scen
    BY <1>1 DEF Thread, Reporting
  <1>4. th[x].scen \in Scenarios
    BY <1>1 DEF ConstantsAssumption
  <1> QED BY <1>1, <1>2, <1>3, <1>4 DEF ThreadOK, ProvisionSteps, WatchSteps

LEMMA ProvisionThread ==
  ASSUME ConstantsAssumption, TypeOK, NEW x \in Threads, Provision(x)
  PROVE  /\ th' \in [Threads -> Thread] /\ \A y \in Threads : ThreadOK(y, th'[y])
         /\ UNCHANGED rec
  <1> USE DEF GetObject, Goto
  <1>0. {"PROVISIONING_MASTER", "PROVISIONING_WORKER", "TESTING", "FAILED"} \subseteq Phases
    BY DEF Phases, ProvisioningPhases
  <1>t. th[x] \in Thread /\ th[x].n \in Nat /\ th[x].n + 1 \in Nat
    <2>1. th[x] \in Thread
      BY DEF TypeOK
    <2>2. th[x].n \in Nat
      BY <2>1 DEF Thread
    <2> QED BY <2>1, <2>2
  <1>n. ASSUME NEW n \in Nat, NEW pc \in ProvisionSteps, th[x].pc \in ProvisionSteps
        PROVE  ThreadOK(x, [th[x] EXCEPT !.pc = pc, !.n = n])
    <2>1. /\ th[x].task \in Tasks
          /\ x \in Provisioners /\ th[x].scen \in ScenariosOf[th[x].task]
      BY <1>n, TypeParts DEF ThreadOK, ProvisionSteps
    <2>2. [th[x] EXCEPT !.pc = pc, !.n = n] \in Thread
      BY <1>t DEF Thread
    <2> QED BY <1>t, <2>1, <2>2
         DEF Thread, ThreadOK, ProvisionSteps, WatchSteps, UpdateSteps
  <1>1. CASE MasterGet(x)
    BY <1>1, GotoProvision, SetOK DEF MasterGet, ProvisionSteps
  <1>2. CASE MasterCreate(x)
    BY <1>0, <1>2, GotoProvision, ReportingOK, SetOK DEF MasterCreate, ProvisionSteps
  <1>3. CASE SvcGet(x)
    BY <1>3, GotoProvision, SetOK DEF SvcGet, ProvisionSteps
  <1>4. CASE SvcCreate(x)
    BY <1>0, <1>4, GotoProvision, ReportingOK, SetOK DEF SvcCreate, ProvisionSteps
  <1>5. CASE Poll(x)
    <2>1. CASE Set(x, [th[x] EXCEPT !.pc = "worker.get", !.n = 1])
      BY <1>n, <1>5, <2>1, SetOK DEF Poll, ProvisionSteps
    <2>2. CASE Set(x, [th[x] EXCEPT !.n = @ + 1])
      <3>1. ThreadOK(x, [th[x] EXCEPT !.n = th[x].n + 1])
        BY <1>5, <1>t, TypeParts DEF Poll, ThreadOK, Thread
      <3> QED BY <1>5, <2>2, <3>1, SetOK DEF Poll
    <2>3. CASE Set(x, Reporting(x, "PROVISIONING_MASTER", ""))
      BY <1>0, <1>5, <2>3, ReportingOK, SetOK DEF Poll, ProvisionSteps
    <2> QED BY <1>5, <2>1, <2>2, <2>3 DEF Poll
  <1>6. CASE WorkerGet(x)
    <2>1. CASE Set(x, [th[x] EXCEPT !.n = @ + 1])
      <3>1. ThreadOK(x, [th[x] EXCEPT !.n = th[x].n + 1])
        BY <1>6, <1>t, TypeParts DEF WorkerGet, ThreadOK, Thread
      <3> QED BY <1>6, <2>1, <3>1, SetOK DEF WorkerGet
    <2>2. CASE Goto(x, "worker.create")
      BY <1>6, <2>2, GotoProvision, SetOK DEF WorkerGet, ProvisionSteps
    <2>3. CASE Set(x, Reporting(x, "FAILED", "PROVISIONING_WORKER"))
      BY <1>0, <1>6, <2>3, ReportingOK, SetOK DEF WorkerGet, ProvisionSteps
    <2> QED BY <1>6, <2>1, <2>2, <2>3 DEF WorkerGet
  <1>7. CASE WorkerCreate(x)
    <2>1. CASE Set(x, [th[x] EXCEPT !.pc = "worker.get", !.n = @ + 1])
      <3>1. ThreadOK(x, [th[x] EXCEPT !.pc = "worker.get", !.n = th[x].n + 1])
        BY <1>n, <1>t, <1>7 DEF WorkerCreate, ProvisionSteps
      <3> QED BY <1>7, <2>1, <3>1, SetOK DEF WorkerCreate
    <2>2. CASE Set(x, Reporting(x, "FAILED", "PROVISIONING_WORKER"))
      BY <1>0, <1>7, <2>2, ReportingOK, SetOK DEF WorkerCreate, ProvisionSteps
    <2> QED BY <1>7, <2>1, <2>2 DEF WorkerCreate
  <1>8. CASE WorkersDone(x)
    BY <1>0, <1>8, ReportingOK, SetOK DEF WorkersDone, ProvisionSteps
  <1> QED
    BY <1>1, <1>2, <1>3, <1>4, <1>5, <1>6, <1>7, <1>8 DEF Provision

\* A step of updateStatus in which only the goroutine's own record changes.
LEMMA ReturnedType ==
  ASSUME TypeOK, NEW x \in Threads, th[x].pc \in UpdateSteps
  PROVE  /\ Returned(x) \in [Threads -> Thread]
         /\ \A y \in Threads : ThreadOK(y, Returned(x)[y])
  <1>1. /\ \A y \in Threads : ThreadOK(y, th[y]) /\ th \in [Threads -> Thread]
        /\ th[x] \in Thread /\ th[x].task \in Tasks
        /\ x \in Provisioners => th[x].scen \in ScenariosOf[th[x].task]
        /\ th[x].scen \in Scenarios
    BY TypeParts DEF ThreadOK, UpdateSteps
  <1>2. CASE x \in Watchers
    <2> DEFINE r == [th[x] EXCEPT !.pc = "visit", !.scen = None, !.ph = "",
                                  !.copy = NoVersion, !.left = th[x].left - 1]
    <2>1. th[x].left - 1 \in Int
      <3>1. th[x].left \in Int
        BY <1>1 DEF Thread
      <3> QED BY <3>1
    <2>2. r \in Thread
      BY <1>1, <2>1, NoVersionType DEF Thread, WatchSteps
    <2>3. r.pc = "visit" /\ r.task = th[x].task
      BY <1>1 DEF Thread
    <2>4. x \notin Provisioners
      BY <1>2 DEF Watchers, Provisioners
    <2>5. ThreadOK(x, r)
      BY <1>1, <1>2, <2>2, <2>3, <2>4 DEF ThreadOK, UpdateSteps, ProvisionSteps
    <2>6. Returned(x) = [th EXCEPT ![x] = r]
      BY <1>2 DEF Returned
    <2> HIDE DEF r
    <2> QED BY <1>1, <2>5, <2>6 DEF ThreadOK
  <1>3. CASE x \notin Watchers /\ th[x].next = ""
    <2>1. Returned(x) = [th EXCEPT ![x] = IdleThread]
      BY <1>3 DEF Returned
    <2> QED BY <1>1, <2>1, IdleOK DEF ThreadOK
  <1>4. CASE x \notin Watchers /\ th[x].next # ""
    <2> DEFINE r == [th[x] EXCEPT !.pc = "update.get", !.ph = th[x].next, !.next = "",
                                  !.copy = NoVersion]
               w == [IdleThread EXCEPT !.pc = "list", !.task = th[x].task, !.id = th[x].id]
    <2>1. r \in Thread
      BY <1>1, NoVersionType DEF Thread, UpdateSteps
    <2>2. ThreadOK(x, r)
      <3>1. r.pc = "update.get" /\ r.task = th[x].task /\ r.scen = th[x].scen
        BY <1>1 DEF Thread
      <3> QED BY <1>1, <2>1, <3>1 DEF ThreadOK, ProvisionSteps, WatchSteps
    <2>3. w \in Thread
      BY <1>1, IdleTypes DEF Thread, IdleThread, WatchSteps
    <2>4. \A y \in Threads : y = <<x[1], "watch">> => ThreadOK(y, w)
      <3>1. w.pc = "list" /\ w.task = th[x].task
        BY DEF IdleThread
      <3>2. \A y \in Threads :
              y = <<x[1], "watch">> => y \in Watchers /\ y \notin Provisioners
        BY DEF Threads, Watchers, Provisioners
      <3> QED BY <1>1, <2>3, <3>1, <3>2 DEF ThreadOK, ProvisionSteps, UpdateSteps
    <2>5. Returned(x) = [y \in Threads |->
                           IF y = x THEN r
                           ELSE IF y = <<x[1], "watch">> /\ th[x].ph = "TESTING" THEN w
                           ELSE th[y]]
      BY <1>4 DEF Returned
    <2> HIDE DEF r, w
    <2> QED BY <1>1, <2>2, <2>4, <2>5 DEF ThreadOK
  <1> QED BY <1>2, <1>3, <1>4

LEMMA UpdateThread ==
  ASSUME ConstantsAssumption, TypeOK, NEW x \in Threads, UpdateStatus(x)
  PROVE  /\ th' \in [Threads -> Thread] /\ \A y \in Threads : ThreadOK(y, th'[y])
         /\ UNCHANGED rec
  <1>1. CASE UpdateGet(x)
    <2>1. th[x].pc = "update.get" /\ th[x].task \in Tasks /\ th[x].scen \in Scenarios
      BY <1>1, TypeParts DEF UpdateGet, ThreadOK, UpdateSteps
    <2> DEFINE c == Reported(x, cache[th[x].task])
    <2>2. c \in Version
      BY <2>1, ReportedType DEF TypeOK
    <2>3. ASSUME NEW pc \in {"update.tell", "update.put"}
          PROVE  ThreadOK(x, [th[x] EXCEPT !.pc = pc, !.copy = c])
      <3> HIDE DEF c
      <3>1. /\ th[x] \in Thread /\ ThreadOK(x, th[x])
        BY TypeParts DEF ThreadOK
      <3>2. [th[x] EXCEPT !.pc = pc, !.copy = c] \in Thread
        BY <2>2, <3>1 DEF Thread, UpdateSteps
      <3> QED BY <2>1, <3>1, <3>2
           DEF Thread, ThreadOK, UpdateSteps, ProvisionSteps, WatchSteps
    <2>4. CASE cache[th[x].task].live
      <3>1. TellStep(th[x].task, "update.tell", "update.put") \in {"update.tell", "update.put"}
        BY DEF TellStep
      <3>2. Set(x, [th[x] EXCEPT !.pc = TellStep(th[x].task, "update.tell", "update.put"),
                                 !.copy = c])
        BY <1>1, <2>4 DEF UpdateGet
      <3> HIDE DEF c
      <3> QED BY <1>1, <2>3, <3>1, <3>2, SetOK DEF UpdateGet
    <2>5. CASE ~cache[th[x].task].live
      BY <1>1, <2>1, <2>5, ReturnedType DEF UpdateGet, UpdateSteps
    <2> QED BY <2>4, <2>5
  <1>2. CASE UpdateTell(x)
    <2>1. ThreadOK(x, [th[x] EXCEPT !.pc = "update.put"])
      <3>1. th[x].pc = "update.tell" /\ th[x] \in Thread /\ ThreadOK(x, th[x])
        BY <1>2, TypeParts DEF UpdateTell, ThreadOK
      <3>2. [th[x] EXCEPT !.pc = "update.put"] \in Thread
        BY <3>1 DEF Thread, UpdateSteps
      <3> QED BY <3>1, <3>2
           DEF Thread, ThreadOK, UpdateSteps, ProvisionSteps, WatchSteps
    <2> QED BY <1>2, <2>1, SetOK DEF UpdateTell, Goto
  <1>3. CASE UpdatePut(x)
    BY <1>3, ReturnedType DEF UpdatePut, UpdateSteps
  <1> QED BY <1>1, <1>2, <1>3 DEF UpdateStatus

LEMMA WatchThread ==
  ASSUME ConstantsAssumption, TypeOK, NEW x \in Threads, Watch(x)
  PROVE  /\ th' \in [Threads -> Thread] /\ \A y \in Threads : ThreadOK(y, th'[y])
         /\ UNCHANGED rec
  <1>0. th[x] \in Thread /\ ThreadOK(x, th[x])
    BY TypeParts DEF ThreadOK
  <1>1. CASE WatchList(x)
    <2> DEFINE r == [th[x] EXCEPT !.pc = "visit", !.left = Cardinality(MastersSeen),
                                  !.todo = {s \in MastersSeen : pod[s] = "completed"}]
    <2>1. Cardinality(MastersSeen) \in Int
      BY MastersSeenCount
    <2>2. {s \in MastersSeen : pod[s] = "completed"} \in SUBSET Scenarios
      BY DEF MastersSeen
    <2>3. r \in Thread
      BY <1>0, <2>1, <2>2 DEF Thread, WatchSteps
    <2>4. ThreadOK(x, r)
      BY <1>0, <1>1, <2>3
      DEF WatchList, Thread, ThreadOK, UpdateSteps, ProvisionSteps, WatchSteps
    <2>5. Set(x, r) /\ UNCHANGED rec
      BY <1>1 DEF WatchList
    <2> HIDE DEF r
    <2> QED BY <2>4, <2>5, SetOK
  <1>2. ASSUME NEW s \in Scenarios, WatchVisit(x, s)
        PROVE  /\ th' \in [Threads -> Thread] /\ \A y \in Threads : ThreadOK(y, th'[y])
               /\ UNCHANGED rec
    <2>1. th[x].pc = "visit" /\ x \in Watchers /\ th[x].task \in Tasks /\ x \notin Provisioners
      BY <1>0, <1>2 DEF WatchVisit, ThreadOK, WatchSteps, Watchers, Provisioners
    <2> DEFINE i == IF cache[th[x].task].live THEN cache[th[x].task].id ELSE th[x].id
               rest == th[x].todo \ {s}
    <2>2. i \in Nat /\ rest \in SUBSET Scenarios
      <3>1. th[x].id \in Nat /\ th[x].todo \in SUBSET Scenarios
        BY <1>0 DEF Thread
      <3>2. cache[th[x].task].id \in Nat
        BY <2>1 DEF TypeOK, Version
      <3> QED BY <3>1, <3>2
    <2>3. th[x].left - 1 \in Int
      <3>1. th[x].left \in Int
        BY <1>0 DEF Thread
      <3> QED BY <3>1
    <2>4. CASE Set(x, [th[x] EXCEPT !.todo = rest, !.left = th[x].left - 1, !.id = i])
      <3> HIDE DEF i, rest
      <3>1. [th[x] EXCEPT !.todo = rest, !.left = th[x].left - 1, !.id = i] \in Thread
        BY <1>0, <2>2, <2>3 DEF Thread
      <3>2. ThreadOK(x, [th[x] EXCEPT !.todo = rest, !.left = th[x].left - 1, !.id = i])
        BY <1>0, <2>1, <3>1 DEF Thread, ThreadOK, UpdateSteps, ProvisionSteps
      <3> QED BY <1>2, <2>4, <3>2, SetOK DEF WatchVisit
    <2>5. CASE Set(x, [th[x] EXCEPT !.pc = "copy", !.scen = s, !.todo = rest, !.id = i])
      <3> HIDE DEF i, rest
      <3>1. [th[x] EXCEPT !.pc = "copy", !.scen = s, !.todo = rest, !.id = i] \in Thread
        BY <1>0, <2>2 DEF Thread, WatchSteps
      <3>2. ThreadOK(x, [th[x] EXCEPT !.pc = "copy", !.scen = s, !.todo = rest, !.id = i])
        BY <1>0, <2>1, <3>1 DEF Thread, ThreadOK, UpdateSteps, ProvisionSteps
      <3> QED BY <1>2, <2>5, <3>2, SetOK DEF WatchVisit
    <2> QED BY <1>2, <2>4, <2>5 DEF WatchVisit
  <1>3. CASE WatchCopy(x)
    <2>1. th[x].pc = "copy" /\ x \in Watchers /\ x \notin Provisioners
          /\ th[x].task \in Tasks /\ th[x].scen \in Scenarios
      BY <1>0, <1>3 DEF WatchCopy, ThreadOK, WatchSteps, Watchers, Provisioners
    <2>2. [th[x] EXCEPT !.pc = "update.get", !.ph = "FINISHED"] \in Thread
      BY <1>0 DEF Thread, UpdateSteps, Phases
    <2>3. ThreadOK(x, [th[x] EXCEPT !.pc = "update.get", !.ph = "FINISHED"])
      BY <1>0, <2>1, <2>2 DEF Thread, ThreadOK, UpdateSteps, ProvisionSteps, WatchSteps
    <2> QED BY <1>3, <2>3, SetOK DEF WatchCopy
  <1>4. CASE WatchRound(x)
    <2>1. th[x].pc = "visit" /\ x \in Watchers /\ x \notin Provisioners
          /\ th[x].task \in Tasks
      BY <1>0, <1>4 DEF WatchRound, ThreadOK, WatchSteps, Watchers, Provisioners
    <2>2. [th[x] EXCEPT !.pc = "list", !.left = 0] \in Thread
      <3>1. 0 \in Int
        OBVIOUS
      <3> QED BY <1>0, <3>1 DEF Thread, WatchSteps
    <2>3. ThreadOK(x, [th[x] EXCEPT !.pc = "list", !.left = 0])
      BY <1>0, <2>1, <2>2 DEF Thread, ThreadOK, UpdateSteps, ProvisionSteps, WatchSteps
    <2> QED BY <1>4, <2>3, IdleOK, SetOK DEF WatchRound
  <1> QED BY <1>1, <1>2, <1>3, <1>4 DEF Watch

-----------------------------------------------------------------------------
(* Reconcile and the rest of the state *)

\* Reconcile: its own record, the task's version and the thread it starts.
LEMMA ReconcileType ==
  ASSUME ConstantsAssumption, TypeOK, Reconcile
  PROVE  TypeOK'
  <1>0. /\ StateTypes /\ RecOK(rec) /\ th \in [Threads -> Thread]
        /\ \A x \in Threads : ThreadOK(x, th[x])
    BY TypeParts
  <1>1. ASSUME NEW t \in Tasks, RecSkip(t)
        PROVE  TypeOK'
    BY <1>0, <1>1, TypeParts
    DEF RecSkip, TypeOK, ActorInv, clusterVars, bounds
  <1>2. ASSUME NEW t \in Tasks, RecIdentify(t)
        PROVE  TypeOK'
    <2> DEFINE c == [cache[t] EXCEPT !.id = NewId(t), !.ptStatus = "INITIAL"]
    <2>1. uuids + 1 \in Nat
      BY DEF TypeOK
    <2>2. NewId(t) \in Nat
      BY <2>1 DEF NewId, ConstantsAssumption
    <2>3. c \in Version
      <3>1. cache[t] \in Version /\ "INITIAL" \in PtStatuses
        BY DEF TypeOK, PtStatuses
      <3> QED BY <2>2, <3>1 DEF Version
    <2>4. TellStep(t, "tell", "put") \in {"tell", "put"}
      BY DEF TellStep
    <2>5. rec' = [pc |-> TellStep(t, "tell", "put"), task |-> t, todo |-> {}, copy |-> c]
      BY <1>2 DEF RecIdentify
    <2>6. rec' \in Rec /\ rec'.task = t /\ rec'.todo = {}
      <3> HIDE DEF c
      <3> QED BY <2>3, <2>4, <2>5 DEF Rec
    <2> HIDE DEF c
    <2>7. uuids' \in Nat
      BY <1>2, <2>1 DEF RecIdentify, TypeOK
    <2> QED BY <1>2, <2>6, <2>7
         DEF RecIdentify, TypeOK, ActorInv, clusterVars, bounds
  <1>3. ASSUME NEW t \in Tasks, RecKnown(t)
        PROVE  TypeOK'
    <2>1. rec' \in Rec /\ rec'.task = t /\ rec'.todo \subseteq ScenariosOf[t]
      BY <1>3 DEF RecKnown, Rec, TypeOK, Unfinished, ConstantsAssumption
    <2> QED BY <1>3, <2>1 DEF RecKnown, TypeOK, ActorInv, clusterVars, bounds
  <1>4. CASE RecTell
    <2>1. rec.task \in Tasks /\ rec.copy \in Version
      BY <1>0, <1>4 DEF RecTell, RecOK, Rec
    <2>2. rec' \in Rec /\ rec'.task = rec.task /\ rec'.todo = rec.todo /\ rec.pc # "idle"
      BY <1>0, <1>4 DEF RecTell, RecOK, Rec
    <2>3. told' \in [Tasks -> PtStatuses]
      BY <1>4, <2>1 DEF RecTell, Tell, TypeOK, Version
    <2> QED BY <1>0, <1>4, <2>2, <2>3
         DEF RecTell, RecOK, TypeOK, ActorInv, taskVars, clusterVars, bounds
  <1>5. CASE RecPut
    <2>1. rec.task \in Tasks /\ rec.copy \in Version
      BY <1>0, <1>5 DEF RecPut, RecOK, Rec
    <2>2. Stored(rec.task, rec.copy, TRUE) \in Version
      BY <2>1, StoredType
    <2>3. CASE Current(rec.task, rec.copy)
      <3>1. rec' \in Rec /\ rec'.task = rec.task /\ rec'.todo \subseteq ScenariosOf[rec.task]
        <4>1. /\ Unfinished(rec.task, rec.copy) \subseteq ScenariosOf[rec.task]
              /\ Unfinished(rec.task, rec.copy) \in SUBSET Scenarios
          BY <2>1 DEF Unfinished, ConstantsAssumption
        <4>2. rec' = [pc |-> "spawn", task |-> rec.task,
                      copy |-> Stored(rec.task, rec.copy, TRUE),
                      todo |-> Unfinished(rec.task, rec.copy)]
          BY <1>5, <2>3 DEF RecPut
        <4> QED BY <2>1, <2>2, <4>1, <4>2 DEF Rec
      <3>2. status' \in [Tasks -> Version]
        BY <1>5, <2>2, <2>3 DEF RecPut, TypeOK
      <3> QED BY <1>5, <2>1, <2>3, <3>1, <3>2
           DEF RecPut, TypeOK, ActorInv, clusterVars, bounds
    <2>4. CASE ~Current(rec.task, rec.copy)
      <3>1. /\ rec' = IdleRec /\ queue' = queue \cup {rec.task}
            /\ UNCHANGED <<status, cache, th, clusterVars, saved, told, bounds>>
        BY <1>5, <2>4 DEF RecPut
      <3>2. IdleRec \in Rec /\ IdleRec.pc = "idle"
        BY IdleTypes DEF IdleRec
      <3> QED BY <2>1, <3>1, <3>2 DEF TypeOK, ActorInv, clusterVars, bounds
    <2> QED BY <2>3, <2>4
  <1>6. CASE RecReturn
    BY <1>6, IdleTypes
    DEF RecReturn, TypeOK, ActorInv, IdleRec, taskVars, clusterVars, bounds
  <1>7. ASSUME NEW s \in Scenarios, NEW g \in Slots, RecSpawn(s, g)
        PROVE  TypeOK'
    <2> DEFINE x == <<g, "provision">>
               r == [IdleThread EXCEPT !.pc = "master.get", !.task = rec.task,
                                       !.scen = s, !.id = rec.copy.id]
    <2>1. /\ rec.task \in Tasks /\ rec.copy \in Version /\ s \in ScenariosOf[rec.task]
          /\ rec.copy.id \in Nat
      BY <1>0, <1>7 DEF RecSpawn, RecOK, Rec, Version
    <2>2. x \in Threads /\ x \in Provisioners
      BY DEF Threads, Provisioners
    <2>3. r \in Thread /\ r.task = rec.task /\ r.scen = s /\ r.pc = "master.get"
      BY <2>1, IdleTypes DEF Thread, IdleThread, ProvisionSteps
    <2>4. ThreadOK(x, r)
      <3> HIDE DEF x, r
      <3> QED BY <2>1, <2>2, <2>3 DEF ThreadOK, UpdateSteps, ProvisionSteps, WatchSteps
    <2>5. Set(x, r)
      BY <1>7 DEF RecSpawn, Set
    <2>6. th' \in [Threads -> Thread] /\ \A y \in Threads : ThreadOK(y, th'[y])
      <3> HIDE DEF x, r
      <3> QED BY <2>2, <2>4, <2>5, SetOK
    <2>7. RecOK(rec')
      BY <1>0, <1>7 DEF RecSpawn, RecOK, Rec
    <2> HIDE DEF x, r
    <2> QED BY <1>7, <2>6, <2>7
         DEF RecSpawn, RecOK, ThreadOK, TypeOK, ActorInv, taskVars, clusterVars, bounds
  <1> QED BY <1>1, <1>2, <1>3, <1>4, <1>5, <1>6, <1>7 DEF Reconcile

\* What a provisioner and a watcher change besides their own records.
LEMMA ThreadsType ==
  ASSUME ConstantsAssumption, TypeOK, NEW x \in Threads,
         Provision(x) \/ UpdateStatus(x) \/ Watch(x)
  PROVE  TypeOK'
  <1>0. /\ StateTypes /\ RecOK(rec) /\ th[x] \in Thread /\ ThreadOK(x, th[x])
    BY TypeParts DEF ThreadOK
  <1>f. /\ th[x].id \in Nat /\ th[x].copy \in Version
    BY <1>0 DEF Thread
  <1>1. /\ th' \in [Threads -> Thread] /\ \A y \in Threads : ThreadOK(y, th'[y])
        /\ UNCHANGED rec
    BY ProvisionThread, UpdateThread, WatchThread
  <1>2. StateTypes'
    <2>1. CASE Provision(x)
      <3> USE DEF taskVars, clusterVars, bounds, StateTypes
      <3>1. CASE UNCHANGED <<objects, pod>>
        BY <1>0, <2>1, <3>1
        DEF Provision, MasterGet, MasterCreate, SvcGet, SvcCreate, Poll, WorkerGet,
            WorkerCreate, WorkersDone, GetObject
      <3>2. ASSUME NEW n, Make(x, n)
            PROVE  objects' \in [Names -> Nat]
        BY <1>0, <1>f, <3>2 DEF Make
      <3>3. ASSUME NEW s, pod' = [pod EXCEPT ![s] = "pending"]
            PROVE  pod' \in [Scenarios -> PodStates]
        BY <1>0, <3>3 DEF PodStates
      <3>4. CASE MasterCreate(x)
        BY <1>0, <3>2, <3>3, <3>4 DEF MasterCreate
      <3>5. CASE SvcCreate(x)
        BY <1>0, <3>2, <3>5 DEF SvcCreate
      <3>6. CASE WorkerCreate(x)
        BY <1>0, <3>2, <3>6 DEF WorkerCreate
      <3> QED
        BY <2>1, <3>1, <3>4, <3>5, <3>6
        DEF Provision, MasterGet, SvcGet, Poll, WorkerGet, WorkersDone, GetObject
    <2>2. CASE UpdateGet(x)
      BY <1>0, <2>2 DEF UpdateGet, StateTypes, taskVars, clusterVars, bounds
    <2>3. CASE UpdateTell(x)
      <3>1. told' \in [Tasks -> PtStatuses]
        BY <1>0, <1>f, <2>3 DEF UpdateTell, Tell, StateTypes, Version
      <3> QED BY <1>0, <2>3, <3>1 DEF UpdateTell, StateTypes, taskVars, clusterVars, bounds
    <2>4. CASE UpdatePut(x)
      <3>1. \A t, c : c \in BOOLEAN => Stored(t, th[x].copy, c) \in Version
        BY <1>f, StoredType
      <3> DEFINE t == th[x].task
                 changes == x \in Watchers \/ th[x].copy # status[t]
      <3>2. Stored(t, th[x].copy, changes) \in Version
        BY <3>1
      <3>3. status' = status \/ status' = [status EXCEPT ![t] = Stored(t, th[x].copy, changes)]
        BY <2>4, Zenon DEF UpdatePut
      <3> HIDE DEF t, changes
      <3>4. status' \in [Tasks -> Version]
        BY <1>0, <3>2, <3>3 DEF StateTypes
      <3> QED BY <1>0, <2>4, <3>4 DEF UpdatePut, StateTypes, clusterVars, bounds
    <2>5. CASE Watch(x)
      <3>1. CASE UNCHANGED saved
        BY <1>0, <2>5, <3>1
        DEF Watch, WatchList, WatchVisit, WatchCopy, WatchRound, StateTypes, taskVars,
            clusterVars, bounds
      <3>2. CASE WatchCopy(x)
        <4>1. th[x].scen \in Scenarios
          BY <1>0, <3>2 DEF WatchCopy, ThreadOK
        <4>2. saved' \subseteq Nat \X Scenarios
          BY <1>0, <1>f, <3>2, <4>1 DEF WatchCopy, CopyFileToGCS, StateTypes
        <4> QED BY <1>0, <3>2, <4>2
             DEF WatchCopy, StateTypes, taskVars, clusterVars, bounds
      <3> QED
        BY <2>5, <3>1, <3>2 DEF Watch, WatchList, WatchVisit, WatchRound
    <2> QED BY <2>1, <2>2, <2>3, <2>4, <2>5 DEF UpdateStatus
  <1> QED
    BY <1>0, <1>1, <1>2 DEF StateTypes, RecOK, ThreadOK, TypeOK, ActorInv

LEMMA EnvironmentType ==
  ASSUME ConstantsAssumption, TypeOK,
         User \/ Cluster \/ Crash \/ \E t \in Tasks : Deliver(t)
  PROVE  TypeOK'
  <1>0. StateTypes
    BY TypeParts
  <1> USE DEF StateTypes, taskVars, clusterVars, bounds
  <1>1. CASE User \/ \E t \in Tasks : Deliver(t)
    <2>1. UNCHANGED <<rec, th>>
      BY <1>1 DEF User, Submit, Edit, Delete, Deliver
    <2>2. ASSUME NEW t \in Tasks, Submit(t)
          PROVE  StateTypes'
      <3>1. [status[t] EXCEPT !.rv = 1, !.live = TRUE] \in Version
        <4>1. status[t] \in Version /\ 1 \in Nat
          BY <1>0
        <4> QED BY <4>1 DEF Version
      <3>2. status' = [status EXCEPT ![t] = [status[t] EXCEPT !.rv = 1, !.live = TRUE]]
        BY <1>0, <2>2 DEF Submit, Version
      <3>3. status' \in [Tasks -> Version]
        BY <1>0, <3>1, <3>2
      <3> QED BY <1>0, <2>2, <3>3 DEF Submit
    <2>3. ASSUME NEW t \in Tasks, Edit(t) \/ Delete(t)
          PROVE  StateTypes'
      <3>1. status[t].rv \in Nat
        BY <1>0 DEF Version
      <3>2. status[t].rv + 1 \in Nat
        BY <3>1
      <3>3. [status[t] EXCEPT !.rv = status[t].rv + 1] \in Version
        <4>1. status[t] \in Version
          BY <1>0
        <4> QED BY <3>2, <4>1 DEF Version
      <3>4. [NoVersion EXCEPT !.rv = status[t].rv + 1] \in Version
        BY NoVersionType, <3>2 DEF Version
      <3>5. status' \in [Tasks -> Version]
        BY <1>0, <2>3, <3>3, <3>4 DEF Edit, Delete
      <3> QED BY <1>0, <2>3, <3>5 DEF Edit, Delete
    <2>4. ASSUME NEW t \in Tasks, Deliver(t)
          PROVE  StateTypes'
      BY <1>0, <2>4 DEF Deliver
    <2>5. StateTypes'
      BY <1>1, <2>2, <2>3, <2>4 DEF User
    <2> QED BY <2>1, <2>5 DEF TypeOK, ActorInv
  <1>2. CASE Cluster
    <2>1. UNCHANGED <<rec, th>>
      BY <1>2 DEF Cluster, Collect, Observe, PodStep, Ingress
    <2>2. ASSUME NEW n \in Names, Collect(n)
          PROVE  StateTypes'
      BY <1>0, <2>2 DEF Collect, PodStates, NoId
    <2>3. ASSUME NEW n \in HomeNames, Observe(n)
          PROVE  StateTypes'
      BY <1>0, <2>3 DEF Observe
    <2>4. ASSUME NEW s \in Scenarios, PodStep(s) \/ Ingress(s)
          PROVE  StateTypes'
      BY <1>0, <2>4 DEF PodStep, Ingress, PodStates
    <2>5. StateTypes'
      BY <1>2, <2>2, <2>3, <2>4 DEF Cluster
    <2> QED BY <2>1, <2>5 DEF TypeOK, ActorInv
  <1>3. CASE Crash
    <2>1. StateTypes'
      BY <1>0, <1>3 DEF Crash
    <2>2. rec' = IdleRec /\ th' = [x \in Threads |-> IdleThread]
      BY <1>3 DEF Crash
    <2>3. RecOK(rec') /\ \A x \in Threads : ThreadOK(x, th'[x])
      BY <2>2, IdleTypes, IdleOK DEF RecOK, IdleRec
    <2>4. th' \in [Threads -> Thread]
      BY <2>2, IdleTypes
    <2> QED BY <2>1, <2>3, <2>4 DEF StateTypes, RecOK, ThreadOK, TypeOK, ActorInv
  <1> QED BY <1>1, <1>2, <1>3

LEMMA StutterType == ASSUME TypeOK, UNCHANGED vars PROVE TypeOK'
  BY DEF TypeOK, ActorInv, vars, clusterVars, taskVars, bounds

LEMMA TypeStep == ASSUME ConstantsAssumption, TypeOK, [Next]_vars PROVE TypeOK'
  BY ReconcileType, ThreadsType, EnvironmentType, StutterType DEF Next

\* The state stays within its types, and a goroutine always works on a task and a
\* scenario that exist.
THEOREM TypeCorrect == Spec => []TypeOK
  <1>1. Init => TypeOK
    BY ConstantsAssumption, InitType
  <1>2. TypeOK /\ [Next]_vars => TypeOK'
    BY ConstantsAssumption, TypeStep
  <1> QED BY <1>1, <1>2, PTL DEF Spec

-----------------------------------------------------------------------------
(* Versions. The parts of VersionInv as operators of the status function, so *)
(* that what a record meant before a step can be said of the status after it. *)

OwnedIn(st, t, id) ==
    id # NoId /\ st[t].rv > 0 /\ (st[t].live => st[t].id = id)

Submitted(st) == \A t \in Tasks : st[t].rv = 0 => st[t] = NoVersion

CacheFresh(c, st) ==
    \A t \in Tasks :
        /\ c[t].rv <= st[t].rv
        /\ c[t].rv = st[t].rv => c[t] = st[t]
        /\ c[t].live /\ c[t].id # NoId => OwnedIn(st, t, c[t].id)

RecFresh(r, st) ==
    /\ r.pc \in {"tell", "put"} =>
          /\ r.copy.live /\ r.copy.id # NoId
          /\ r.copy.rv <= st[r.task].rv
          /\ r.copy.rv = st[r.task].rv =>
                /\ st[r.task].id = NoId
                /\ r.copy.phases = st[r.task].phases
                /\ r.copy.archives = st[r.task].archives
    /\ r.pc = "spawn" => OwnedIn(st, r.task, r.copy.id)

\* What goroutine r of scenario r.scen is about to write differs from the version it
\* read in that scenario only.
CopyFresh(r, stored) ==
    /\ r.copy.live
    /\ r.copy.rv <= stored.rv
    /\ r.copy.rv = stored.rv =>
          /\ r.copy.id = stored.id
          /\ stored.archives \subseteq r.copy.archives
          /\ \A s \in Scenarios \ {r.scen} : r.copy.phases[s] = stored.phases[s]

ThreadFresh(x, r, st) ==
    /\ x \in Provisioners /\ r.pc # "idle" => OwnedIn(st, r.task, r.id)
    /\ r.pc \in {"update.tell", "update.put"} => CopyFresh(r, st[r.task])

LEMMA VersionParts ==
  /\ VersionInv <=> /\ Submitted(status) /\ CacheFresh(cache, status)
                    /\ RecFresh(rec, status)
                    /\ \A x \in Threads : ThreadFresh(x, th[x], status)
  /\ VersionInv' <=> /\ Submitted(status') /\ CacheFresh(cache', status')
                     /\ RecFresh(rec', status')
                     /\ \A x \in Threads : ThreadFresh(x, th'[x], status')
  BY DEF VersionInv, Submitted, CacheFresh, RecFresh, CopyFresh, ThreadFresh, Owned, OwnedIn

\* How a stored version may follow another: every write counts, a task is created
\* once, keeps its id and its archives, and changes one phase at a time.
Evolves(v, w) ==
    /\ v.rv <= w.rv
    /\ w.rv = v.rv => w = v
    /\ w.rv = 0 => w = NoVersion
    /\ v.rv > 0 /\ w.live => v.live
    /\ v.live /\ w.live =>
          /\ v.id # NoId => w.id = v.id
          /\ v.archives \subseteq w.archives
          /\ \A s, u \in Scenarios :
                w.phases[s] # v.phases[s] /\ w.phases[u] # v.phases[u] => s = u

Evolution(st, st2) == \A t \in Tasks : Evolves(st[t], st2[t])

LEMMA EvolvesStays ==
  ASSUME NEW v \in Version, v.rv = 0 => v = NoVersion
  PROVE  Evolves(v, v)
  <1>1. v.rv \in Nat
    BY DEF Version
  <1>2. v.rv <= v.rv
    BY <1>1
  <1> QED BY <1>2 DEF Evolves

\* A write of one object evolves them all.
LEMMA EvolvesOne ==
  ASSUME TypeOK, Submitted(status), NEW t \in Tasks, NEW w,
         status' = [status EXCEPT ![t] = w], Evolves(status[t], w)
  PROVE  Evolution(status, status')
  BY EvolvesStays DEF Evolution, TypeOK, Submitted

LEMMA EvolvesSame ==
  ASSUME TypeOK, Submitted(status), UNCHANGED status
  PROVE  Evolution(status, status')
  BY EvolvesStays DEF Evolution, TypeOK, Submitted

LEMMA PutEvolves ==
  ASSUME TypeOK, VersionInv, NEW x \in Threads, UpdatePut(x)
  PROVE  Evolution(status, status')
  <1> DEFINE t == th[x].task
             changes == x \in Watchers \/ th[x].copy # status[t]
             w == Stored(t, th[x].copy, changes)
  <1>1. /\ t \in Tasks /\ th[x].copy \in Version /\ status[t] \in Version
        /\ Submitted(status) /\ CopyFresh(th[x], status[t])
    BY TypeParts, VersionParts
    DEF UpdatePut, ThreadOK, Thread, UpdateSteps, ThreadFresh, StateTypes
  <1>2. CASE Current(t, th[x].copy)
    <2>1. status' = [status EXCEPT ![t] = w]
      BY <1>2, Zenon DEF UpdatePut
    <2>2. CASE changes
      <3>1. w = [th[x].copy EXCEPT !.rv = th[x].copy.rv + 1]
        BY <1>1, <2>2, StoredType
      <3>2. th[x].copy.rv \in Nat /\ status[t].rv = th[x].copy.rv /\ status[t].live
        BY <1>1, <1>2 DEF Current, Version
      <3>3. /\ w.rv = th[x].copy.rv + 1 /\ w.live = th[x].copy.live
            /\ w.id = th[x].copy.id /\ w.archives = th[x].copy.archives
            /\ w.phases = th[x].copy.phases
        BY <1>1, <3>1 DEF Version
      <3> HIDE DEF t, changes, w
      <3>4. Evolves(status[t], w)
        BY <1>1, <3>2, <3>3 DEF Evolves, CopyFresh
      <3> QED BY <1>1, <2>1, <3>4, EvolvesOne
    <2>3. CASE ~changes
      <3>1. w = status[t]
        BY <1>1, <2>3, StoredType
      <3> HIDE DEF t, changes, w
      <3> QED BY <1>1, <2>1, <3>1, EvolvesOne, EvolvesStays DEF Submitted
    <2> QED BY <2>2, <2>3
  <1>3. CASE ~Current(t, th[x].copy)
    BY <1>1, <1>3, EvolvesSame DEF UpdatePut
  <1> QED BY <1>2, <1>3

LEMMA RecPutEvolves ==
  ASSUME TypeOK, VersionInv, RecPut
  PROVE  Evolution(status, status')
  <1> DEFINE t == rec.task
             w == Stored(t, rec.copy, TRUE)
  <1>1. /\ t \in Tasks /\ rec.copy \in Version /\ status[t] \in Version
        /\ Submitted(status) /\ RecFresh(rec, status)
    BY TypeParts, VersionParts DEF RecPut, RecOK, Rec, StateTypes
  <1>2. CASE Current(t, rec.copy)
    <2>1. status' = [status EXCEPT ![t] = w]
      BY <1>2 DEF RecPut
    <2>2. w = [rec.copy EXCEPT !.rv = rec.copy.rv + 1]
      BY <1>1, StoredType
    <2>3. rec.copy.rv \in Nat /\ status[t].rv = rec.copy.rv /\ status[t].live
      BY <1>1, <1>2 DEF Current, Version
    <2>4. /\ w.rv = rec.copy.rv + 1 /\ w.live = rec.copy.live
          /\ w.archives = rec.copy.archives /\ w.phases = rec.copy.phases
      BY <1>1, <2>2 DEF Version
    <2>5. rec.pc = "put"
      BY DEF RecPut
    <2> HIDE DEF w
    <2>6. Evolves(status[t], w)
      BY <1>1, <2>3, <2>4, <2>5 DEF Evolves, RecFresh
    <2> QED BY <1>1, <2>1, <2>6, EvolvesOne
  <1>3. CASE ~Current(t, rec.copy)
    BY <1>1, <1>3, EvolvesSame DEF RecPut
  <1> QED BY <1>2, <1>3

LEMMA UserEvolves ==
  ASSUME TypeOK, VersionInv, User
  PROVE  Evolution(status, status')
  <1>1. Submitted(status)
    BY VersionParts
  <1>2. ASSUME NEW t \in Tasks, Submit(t)
        PROVE  Evolution(status, status')
    <2>1. status[t] = NoVersion /\ status[t] \in Version
      BY <1>1, <1>2 DEF Submit, Submitted, TypeOK
    <2> DEFINE w == [status[t] EXCEPT !.rv = 1, !.live = TRUE]
    <2>2. status' = [status EXCEPT ![t] = w]
      BY <1>2, <2>1 DEF Submit, TypeOK, Version
    <2>3. Evolves(status[t], w)
      <3>1. w.rv = 1 /\ status[t].rv = 0 /\ ~status[t].live
        <4>1. w.rv = 1
          BY <2>1 DEF Version
        <4>2. status[t].rv = 0 /\ ~status[t].live
          BY <2>1, NoVersionDead
        <4> QED BY <4>1, <4>2
      <3> HIDE DEF w
      <3> QED BY <3>1 DEF Evolves
    <2> HIDE DEF w
    <2> QED BY <1>1, <2>2, <2>3, EvolvesOne
  <1>3. ASSUME NEW t \in Tasks, Edit(t)
        PROVE  Evolution(status, status')
    <2>1. status[t] \in Version /\ status[t].rv \in Nat
      BY DEF TypeOK, Version
    <2> DEFINE w == [status[t] EXCEPT !.rv = status[t].rv + 1]
    <2>2. status' = [status EXCEPT ![t] = w]
      BY <1>3 DEF Edit, TypeOK
    <2>3. /\ w.rv = status[t].rv + 1 /\ w.live = status[t].live /\ w.id = status[t].id
          /\ w.archives = status[t].archives /\ w.phases = status[t].phases
          /\ status[t].live
      BY <1>3, <2>1 DEF Edit, Version
    <2> HIDE DEF w
    <2>4. Evolves(status[t], w)
      BY <2>1, <2>3 DEF Evolves
    <2> QED BY <1>1, <2>2, <2>4, EvolvesOne
  <1>4. ASSUME NEW t \in Tasks, Delete(t)
        PROVE  Evolution(status, status')
    <2>1. status[t].rv \in Nat
      BY DEF TypeOK, Version
    <2> DEFINE w == [NoVersion EXCEPT !.rv = status[t].rv + 1]
    <2>2. status' = [status EXCEPT ![t] = w]
      BY <1>4 DEF Delete
    <2>3. w.rv = status[t].rv + 1 /\ ~w.live
      BY DEF NoVersion
    <2> HIDE DEF w
    <2>4. Evolves(status[t], w)
      BY <2>1, <2>3 DEF Evolves
    <2> QED BY <1>1, <2>2, <2>4, EvolvesOne
  <1> QED BY <1>2, <1>3, <1>4 DEF User

\* Every step of the operator and of its environment evolves the objects.
LEMMA StepEvolves ==
  ASSUME TypeOK, VersionInv, [Next]_vars
  PROVE  Evolution(status, status')
  <1>1. CASE UNCHANGED status
    BY <1>1, VersionParts, EvolvesSame
  <1>2. CASE User
    BY <1>2, UserEvolves
  <1>3. CASE Reconcile
    BY <1>1, <1>3, RecPutEvolves
    DEF Reconcile, RecSkip, RecIdentify, RecKnown, RecTell, RecReturn, RecSpawn, taskVars
  <1>4. CASE Cluster \/ Crash \/ \E t \in Tasks : Deliver(t)
    BY <1>1, <1>4
    DEF Cluster, Collect, Observe, PodStep, Ingress, Crash, Deliver, taskVars
  <1>5. ASSUME NEW x \in Threads, Provision(x) \/ UpdateStatus(x) \/ Watch(x)
        PROVE  Evolution(status, status')
    <2>1. CASE Provision(x)
      BY <1>1, <2>1
      DEF Provision, MasterGet, MasterCreate, SvcGet, SvcCreate, Poll, WorkerGet,
          WorkerCreate, WorkersDone, GetObject, taskVars
    <2>2. CASE UpdateStatus(x)
      BY <1>1, <2>2, PutEvolves DEF UpdateStatus, UpdateGet, UpdateTell, taskVars
    <2>3. CASE Watch(x)
      BY <1>1, <2>3 DEF Watch, WatchList, WatchVisit, WatchCopy, WatchRound, taskVars
    <2> QED BY <1>5, <2>1, <2>2, <2>3
  <1>6. CASE UNCHANGED vars
    BY <1>1, <1>6 DEF vars
  <1> QED BY <1>2, <1>3, <1>4, <1>5, <1>6 DEF Next

-----------------------------------------------------------------------------
(* What was read before a step means the same after it *)

LEMMA OwnedStable ==
  ASSUME NEW st \in [Tasks -> Version], NEW st2 \in [Tasks -> Version],
         Evolution(st, st2), NEW t \in Tasks, NEW id, OwnedIn(st, t, id)
  PROVE  OwnedIn(st2, t, id)
  <1>1. st[t].rv \in Nat /\ st2[t].rv \in Nat
    BY DEF Version
  <1>2. Evolves(st[t], st2[t])
    BY DEF Evolution
  <1> QED BY <1>1, <1>2 DEF Evolves, OwnedIn

\* A version read earlier is still the stored one only if nothing was written.
LEMMA SameVersion ==
  ASSUME NEW v \in Version, NEW w \in Version, Evolves(v, w),
         NEW n \in Nat, n <= v.rv
  PROVE  /\ n <= w.rv
         /\ n = w.rv => w = v
  <1>1. v.rv \in Nat /\ w.rv \in Nat
    BY DEF Version
  <1> QED BY <1>1 DEF Evolves

LEMMA CacheStable ==
  ASSUME NEW st \in [Tasks -> Version], NEW st2 \in [Tasks -> Version],
         Evolution(st, st2), NEW c \in [Tasks -> Version], CacheFresh(c, st)
  PROVE  CacheFresh(c, st2)
  <1> SUFFICES ASSUME NEW t \in Tasks
               PROVE  /\ c[t].rv <= st2[t].rv
                      /\ c[t].rv = st2[t].rv => c[t] = st2[t]
                      /\ c[t].live /\ c[t].id # NoId => OwnedIn(st2, t, c[t].id)
    BY DEF CacheFresh
  <1>1. c[t].rv \in Nat /\ Evolves(st[t], st2[t]) /\ c[t].rv <= st[t].rv
    BY DEF Version, Evolution, CacheFresh
  <1>2. c[t].rv <= st2[t].rv /\ (c[t].rv = st2[t].rv => st2[t] = st[t])
    BY <1>1, SameVersion
  <1> QED BY <1>2, OwnedStable DEF CacheFresh

LEMMA RecStable ==
  ASSUME NEW st \in [Tasks -> Version], NEW st2 \in [Tasks -> Version],
         Evolution(st, st2), NEW r, RecOK(r), RecFresh(r, st)
  PROVE  RecFresh(r, st2)
  <1>1. CASE r.pc \in {"tell", "put"}
    <2>1. r.task \in Tasks /\ r.copy \in Version
      BY <1>1 DEF RecOK, Rec
    <2>2. r.copy.rv \in Nat /\ Evolves(st[r.task], st2[r.task])
          /\ r.copy.rv <= st[r.task].rv
      BY <1>1, <2>1 DEF Version, Evolution, RecFresh
    <2>3. /\ r.copy.rv <= st2[r.task].rv
          /\ r.copy.rv = st2[r.task].rv => st2[r.task] = st[r.task]
      BY <2>1, <2>2, SameVersion
    <2> QED BY <1>1, <2>3 DEF RecFresh
  <1>2. CASE r.pc = "spawn"
    <2>1. r.task \in Tasks
      BY <1>2 DEF RecOK
    <2> QED BY <1>2, <2>1, OwnedStable DEF RecFresh
  <1> QED BY <1>1, <1>2 DEF RecFresh

LEMMA ThreadStable ==
  ASSUME NEW st \in [Tasks -> Version], NEW st2 \in [Tasks -> Version],
         Evolution(st, st2), NEW x \in Threads, NEW r, ThreadOK(x, r), ThreadFresh(x, r, st)
  PROVE  ThreadFresh(x, r, st2)
  <1>1. x \in Provisioners /\ r.pc # "idle" => OwnedIn(st2, r.task, r.id)
    BY OwnedStable DEF ThreadOK, ThreadFresh
  <1>2. ASSUME r.pc \in {"update.tell", "update.put"}
        PROVE  CopyFresh(r, st2[r.task])
    <2>1. r.task \in Tasks /\ r.copy \in Version /\ CopyFresh(r, st[r.task])
      BY <1>2 DEF ThreadOK, Thread, ThreadFresh
    <2>2. r.copy.rv \in Nat /\ Evolves(st[r.task], st2[r.task])
          /\ r.copy.rv <= st[r.task].rv
      BY <2>1 DEF Version, Evolution, CopyFresh
    <2>3. /\ r.copy.rv <= st2[r.task].rv
          /\ r.copy.rv = st2[r.task].rv => st2[r.task] = st[r.task]
      BY <2>1, <2>2, SameVersion
    <2> QED BY <2>1, <2>3 DEF CopyFresh
  <1> QED BY <1>1, <1>2 DEF ThreadFresh

LEMMA IdleFresh == \A x, st : ThreadFresh(x, IdleThread, st) /\ RecFresh(IdleRec, st)
  BY DEF ThreadFresh, RecFresh, IdleThread, IdleRec

-----------------------------------------------------------------------------
(* The steps that read *)

LEMMA CacheStep ==
  ASSUME TypeOK, TypeOK', VersionInv, [Next]_vars
  PROVE  CacheFresh(cache', status')
  <1>0. /\ status \in [Tasks -> Version] /\ status' \in [Tasks -> Version]
        /\ cache \in [Tasks -> Version] /\ Evolution(status, status')
        /\ CacheFresh(cache, status) /\ Submitted(status)
    BY StepEvolves, VersionParts DEF TypeOK
  <1>1. \A t \in Tasks : cache'[t] = cache[t] \/ (cache'[t] = status[t] /\ UNCHANGED status)
    <2>1. CASE UNCHANGED cache
      BY <2>1
    <2>2. ASSUME NEW t \in Tasks, Deliver(t)
          PROVE  \A u \in Tasks : cache'[u] = cache[u] \/ (cache'[u] = status[u] /\ UNCHANGED status)
      BY <1>0, <2>2 DEF Deliver
    <2>3. CASE Crash
      BY <2>3 DEF Crash
    <2>4. CASE User \/ Reconcile \/ Cluster
      BY <2>1, <2>4
      DEF User, Submit, Edit, Delete, Reconcile, RecSkip, RecIdentify, RecKnown, RecTell,
          RecPut, RecReturn, RecSpawn, Cluster, Collect, Observe, PodStep, Ingress, taskVars
    <2>5. CASE \E x \in Threads : Provision(x) \/ UpdateStatus(x) \/ Watch(x)
      BY <2>1, <2>5
      DEF Provision, MasterGet, MasterCreate, SvcGet, SvcCreate, Poll, WorkerGet,
          WorkerCreate, WorkersDone, GetObject, UpdateStatus, UpdateGet, UpdateTell,
          UpdatePut, Watch, WatchList, WatchVisit, WatchCopy, WatchRound, taskVars
    <2>6. CASE UNCHANGED vars
      BY <2>1, <2>6 DEF vars
    <2> QED BY <2>2, <2>3, <2>4, <2>5, <2>6 DEF Next
  <1>2. CacheFresh(cache, status')
    BY <1>0, CacheStable
  <1>3. ASSUME NEW t \in Tasks, cache'[t] = status[t], UNCHANGED status
        PROVE  /\ cache'[t].rv <= status'[t].rv
               /\ cache'[t].rv = status'[t].rv => cache'[t] = status'[t]
               /\ cache'[t].live /\ cache'[t].id # NoId => OwnedIn(status', t, cache'[t].id)
    <2>1. status[t].rv \in Nat
      BY <1>0 DEF Version
    <2>2. status[t].live => status[t].rv > 0
      BY <1>0, <2>1, NoVersionDead DEF Submitted
    <2> QED BY <1>3, <2>1, <2>2 DEF OwnedIn
  <1> QED BY <1>1, <1>2, <1>3 DEF CacheFresh

LEMMA RecStep ==
  ASSUME TypeOK, TypeOK', VersionInv, [Next]_vars, ConstantsAssumption
  PROVE  RecFresh(rec', status')
  <1>0. /\ status \in [Tasks -> Version] /\ status' \in [Tasks -> Version]
        /\ cache \in [Tasks -> Version] /\ Evolution(status, status')
        /\ CacheFresh(cache, status) /\ RecFresh(rec, status) /\ RecOK(rec)
    BY StepEvolves, VersionParts, TypeParts DEF TypeOK
  <1>1. CASE UNCHANGED rec
    BY <1>0, <1>1, RecStable
  <1>2. ASSUME NEW t \in Tasks, RecIdentify(t)
        PROVE  RecFresh(rec', status')
    <2> DEFINE c == [cache[t] EXCEPT !.id = NewId(t), !.ptStatus = "INITIAL"]
    <2>1. NewId(t) # NoId
      BY DEF NewId, NoId, TypeOK
    <2>2. cache[t] \in Version /\ cache[t].live /\ cache[t].id = NoId
      BY <1>0, <1>2 DEF RecIdentify
    <2>3. /\ c.live /\ c.id = NewId(t) /\ c.rv = cache[t].rv
          /\ c.phases = cache[t].phases /\ c.archives = cache[t].archives
      BY <2>2 DEF Version
    <2>4. /\ rec' = [pc |-> TellStep(t, "tell", "put"), task |-> t, todo |-> {}, copy |-> c]
          /\ UNCHANGED status
      BY <1>2 DEF RecIdentify
    <2>5. rec'.copy = c /\ rec'.task = t /\ rec'.pc \in {"tell", "put"}
      <3> HIDE DEF c
      <3> QED BY <2>4 DEF TellStep
    <2>6. /\ cache[t].rv <= status[t].rv
          /\ cache[t].rv = status[t].rv => cache[t] = status[t]
      BY <1>0 DEF CacheFresh
    <2> HIDE DEF c
    <2> QED BY <2>1, <2>2, <2>3, <2>4, <2>5, <2>6 DEF RecFresh
  <1>3. ASSUME NEW t \in Tasks, RecKnown(t)
        PROVE  RecFresh(rec', status')
    BY <1>0, <1>3 DEF RecKnown, RecFresh, CacheFresh
  <1>4. CASE RecTell
    <2>1. rec' = [rec EXCEPT !.pc = "put"] /\ UNCHANGED status /\ rec.pc = "tell" /\ rec \in Rec
      BY <1>0, <1>4 DEF RecTell, taskVars, RecOK
    <2>2. rec'.copy = rec.copy /\ rec'.task = rec.task /\ rec'.pc = "put"
      BY <2>1 DEF Rec
    <2> QED BY <1>0, <2>1, <2>2 DEF RecFresh
  <1>5. CASE RecPut
    <2>1. CASE Current(rec.task, rec.copy)
      <3> DEFINE w == Stored(rec.task, rec.copy, TRUE)
      <3>1. rec.task \in Tasks /\ rec.copy \in Version /\ rec.pc = "put"
        BY <1>0, <1>5 DEF RecPut, RecOK, Rec
      <3>2. w = [rec.copy EXCEPT !.rv = rec.copy.rv + 1]
        BY <3>1, StoredType
      <3>3. w.rv = rec.copy.rv + 1 /\ w.id = rec.copy.id /\ rec.copy.rv \in Nat
        BY <3>1, <3>2 DEF Version
      <3>4. rec' = [pc |-> "spawn", task |-> rec.task, copy |-> w,
                    todo |-> Unfinished(rec.task, rec.copy)]
            /\ status' = [status EXCEPT ![rec.task] = w]
        BY <1>5, <2>1 DEF RecPut
      <3> HIDE DEF w
      <3>5. rec'.pc = "spawn" /\ rec'.task = rec.task /\ rec'.copy = w
            /\ status'[rec.task] = w
        BY <1>0, <3>1, <3>4
      <3> QED BY <1>0, <3>1, <3>3, <3>5 DEF RecFresh, OwnedIn
    <2>2. CASE ~Current(rec.task, rec.copy)
      BY <1>5, <2>2, IdleFresh DEF RecPut
    <2> QED BY <2>1, <2>2
  <1>6. ASSUME NEW s \in Scenarios, NEW g \in Slots, RecSpawn(s, g)
        PROVE  RecFresh(rec', status')
    <2>1. rec'.pc = "spawn" /\ rec'.copy = rec.copy /\ rec'.task = rec.task
          /\ rec.pc = "spawn" /\ UNCHANGED status
      BY <1>0, <1>6 DEF RecSpawn, RecOK, Rec, taskVars
    <2> QED BY <1>0, <2>1 DEF RecFresh
  <1>7. CASE RecReturn \/ Crash
    BY <1>7, IdleFresh DEF RecReturn, Crash
  <1>8. CASE Reconcile
    BY <1>1, <1>2, <1>3, <1>4, <1>5, <1>6, <1>7, <1>8 DEF Reconcile, RecSkip
  <1>9. CASE User \/ Cluster \/ \E t \in Tasks : Deliver(t)
    BY <1>1, <1>9
    DEF User, Submit, Edit, Delete, Cluster, Collect, Observe, PodStep, Ingress, Deliver
  <1>10. CASE \E x \in Threads : Provision(x) \/ UpdateStatus(x) \/ Watch(x)
    BY <1>1, <1>10, ProvisionThread, UpdateThread, WatchThread
  <1>11. CASE UNCHANGED vars
    BY <1>1, <1>11 DEF vars
  <1> QED BY <1>7, <1>8, <1>9, <1>10, <1>11 DEF Next

\* A thread starts with an id its task owns, and updateStatus reads from the cache.
LEMMA ThreadStep ==
  ASSUME ConstantsAssumption, TypeOK, TypeOK', VersionInv, [Next]_vars, NEW y \in Threads
  PROVE  ThreadFresh(y, th'[y], status')
  <1>0. /\ status \in [Tasks -> Version] /\ status' \in [Tasks -> Version]
        /\ Evolution(status, status') /\ RecFresh(rec, status) /\ RecOK(rec)
        /\ th \in [Threads -> Thread]
        /\ \A x \in Threads : ThreadOK(x, th[x]) /\ ThreadFresh(x, th[x], status)
    BY StepEvolves, VersionParts, TypeParts DEF TypeOK
  <1>1. CASE th'[y] = th[y]
    BY <1>0, <1>1, ThreadStable
  <1>2. CASE th'[y] = IdleThread
    BY <1>2, IdleFresh
  \* A record that keeps task and id and is not about to write.
  <1>3. ASSUME NEW r, r.task = th[y].task, r.id = th[y].id, th[y].pc # "idle",
               r.pc \notin {"update.tell", "update.put"}, th'[y] = r
        PROVE  ThreadFresh(y, th'[y], status')
    <2>1. ThreadFresh(y, th[y], status')
      BY <1>0, ThreadStable
    <2> QED BY <1>3, <2>1 DEF ThreadFresh
  <1>4. ASSUME NEW s \in Scenarios, NEW g \in Slots, RecSpawn(s, g)
        PROVE  ThreadFresh(y, th'[y], status')
    <2> DEFINE x == <<g, "provision">>
               r == [IdleThread EXCEPT !.pc = "master.get", !.task = rec.task,
                                       !.scen = s, !.id = rec.copy.id]
    <2>1. x \in Threads /\ th' = [th EXCEPT ![x] = r] /\ rec.pc = "spawn" /\ UNCHANGED status
      BY <1>4 DEF RecSpawn, Threads, taskVars
    <2>2. r.pc = "master.get" /\ r.task = rec.task /\ r.id = rec.copy.id
      BY DEF IdleThread
    <2>3. OwnedIn(status', rec.task, rec.copy.id)
      BY <1>0, <2>1 DEF RecFresh
    <2> HIDE DEF x, r
    <2>4. ThreadFresh(x, r, status')
      BY <2>2, <2>3 DEF ThreadFresh
    <2> QED BY <1>0, <1>1, <2>1, <2>4
  <1>5. ASSUME NEW x \in Threads, Provision(x)
        PROVE  ThreadFresh(y, th'[y], status')
    <2>1. /\ th'[x].task = th[x].task /\ th'[x].id = th[x].id
          /\ th'[x].pc \in ProvisionSteps \cup {"update.get"}
          /\ \A z \in Threads : z # x => th'[z] = th[z]
          /\ th[x].pc \in ProvisionSteps
      <3>1. th[x] \in Thread
        BY <1>0
      <3>2. ASSUME NEW r, Set(x, r)
            PROVE  th'[x] = r /\ \A z \in Threads : z # x => th'[z] = th[z]
        BY <1>0, <3>2 DEF Set
      <3>3. ASSUME NEW pc \in ProvisionSteps, Goto(x, pc)
            PROVE  /\ th'[x].task = th[x].task /\ th'[x].id = th[x].id
                   /\ th'[x].pc \in ProvisionSteps \cup {"update.get"}
                   /\ \A z \in Threads : z # x => th'[z] = th[z]
        <4> DEFINE r == [th[x] EXCEPT !.pc = pc]
        <4>1. r.task = th[x].task /\ r.id = th[x].id /\ r.pc = pc
          BY <3>1 DEF Thread
        <4>2. Set(x, r)
          BY <3>3 DEF Goto
        <4> HIDE DEF r
        <4> QED BY <3>2, <4>1, <4>2
      <3>4. ASSUME NEW ph, NEW next, Set(x, Reporting(x, ph, next))
            PROVE  /\ th'[x].task = th[x].task /\ th'[x].id = th[x].id
                   /\ th'[x].pc \in ProvisionSteps \cup {"update.get"}
                   /\ \A z \in Threads : z # x => th'[z] = th[z]
        <4> DEFINE r == Reporting(x, ph, next)
        <4>1. r.task = th[x].task /\ r.id = th[x].id /\ r.pc = "update.get"
          BY <3>1 DEF Reporting, Thread
        <4> HIDE DEF r
        <4> QED BY <3>2, <3>4, <4>1 DEF r
      <3>5. ASSUME NEW n, Set(x, [th[x] EXCEPT !.n = n]) \/
                          Set(x, [th[x] EXCEPT !.pc = "worker.get", !.n = n]),
                   th[x].pc \in ProvisionSteps
            PROVE  /\ th'[x].task = th[x].task /\ th'[x].id = th[x].id
                   /\ th'[x].pc \in ProvisionSteps \cup {"update.get"}
                   /\ \A z \in Threads : z # x => th'[z] = th[z]
        <4> DEFINE r == [th[x] EXCEPT !.n = n]
                   q == [th[x] EXCEPT !.pc = "worker.get", !.n = n]
        <4>1. /\ r.task = th[x].task /\ r.id = th[x].id /\ r.pc = th[x].pc
              /\ q.task = th[x].task /\ q.id = th[x].id /\ q.pc = "worker.get"
          BY <3>1 DEF Thread
        <4>2. Set(x, r) \/ Set(x, q)
          BY <3>5
        <4> HIDE DEF r, q
        <4> QED BY <3>2, <3>5, <4>1, <4>2 DEF ProvisionSteps
      <3> HIDE DEF Set, Goto
      <3>6. CASE MasterGet(x) \/ SvcGet(x)
        BY <3>3, <3>6 DEF MasterGet, SvcGet, GetObject, ProvisionSteps
      <3>7. CASE MasterCreate(x) \/ SvcCreate(x)
        BY <3>3, <3>4, <3>7 DEF MasterCreate, SvcCreate, ProvisionSteps
      <3>8. CASE Poll(x)
        BY <3>4, <3>5, <3>8 DEF Poll, ProvisionSteps
      <3>9. CASE WorkerGet(x)
        BY <3>3, <3>4, <3>5, <3>9 DEF WorkerGet, ProvisionSteps
      <3>10. CASE WorkerCreate(x) \/ WorkersDone(x)
        BY <3>3, <3>4, <3>5, <3>10 DEF WorkerCreate, WorkersDone, ProvisionSteps
      <3> QED BY <1>5, <3>6, <3>7, <3>8, <3>9, <3>10 DEF Provision
    <2> QED BY <1>1, <1>3, <2>1 DEF ProvisionSteps
  <1>6. ASSUME NEW x \in Threads, UpdateGet(x) \/ UpdatePut(x), th' = Returned(x)
        PROVE  ThreadFresh(y, th'[y], status')
    <2>0. th[x] \in Thread /\ th[x].pc # "idle" /\ x \in Threads
      BY <1>0, <1>6 DEF UpdateGet, UpdatePut
    <2>1. CASE x \in Watchers
      <3> DEFINE r == [th[x] EXCEPT !.pc = "visit", !.scen = None, !.ph = "",
                                    !.copy = NoVersion, !.left = th[x].left - 1]
      <3>1. th' = [th EXCEPT ![x] = r]
        BY <1>6, <2>1 DEF Returned
      <3>2. r.pc = "visit" /\ r.task = th[x].task /\ r.id = th[x].id
        BY <2>0 DEF Thread
      <3> HIDE DEF r
      <3> QED BY <1>0, <1>1, <1>3, <2>0, <3>1, <3>2
    <2>2. CASE x \notin Watchers /\ th[x].next = ""
      <3>1. th' = [th EXCEPT ![x] = IdleThread]
        BY <1>6, <2>2 DEF Returned
      <3> QED BY <1>0, <1>1, <1>2, <3>1
    <2>3. CASE x \notin Watchers /\ th[x].next # ""
      <3> DEFINE r == [th[x] EXCEPT !.pc = "update.get", !.ph = th[x].next, !.next = "",
                                    !.copy = NoVersion]
                 w == [IdleThread EXCEPT !.pc = "list", !.task = th[x].task,
                                         !.id = th[x].id]
      <3>1. th' = [z \in Threads |->
                     IF z = x THEN r
                     ELSE IF z = <<x[1], "watch">> /\ th[x].ph = "TESTING" THEN w
                     ELSE th[z]]
        BY <1>6, <2>3 DEF Returned
      <3>2. r.pc = "update.get" /\ r.task = th[x].task /\ r.id = th[x].id
        BY <2>0 DEF Thread
      <3>3. w.pc = "list"
        BY DEF IdleThread
      <3>4. y = <<x[1], "watch">> => y \notin Provisioners
        BY DEF Provisioners
      <3> HIDE DEF r, w
      <3>5. CASE th'[y] = w /\ y = <<x[1], "watch">>
        BY <3>3, <3>4, <3>5 DEF ThreadFresh
      <3> QED BY <1>1, <1>3, <2>0, <3>1, <3>2, <3>5
    <2> QED BY <2>1, <2>2, <2>3
  <1>7. ASSUME NEW x \in Threads, UpdateGet(x), cache[th[x].task].live
        PROVE  ThreadFresh(y, th'[y], status')
    <2> DEFINE c == Reported(x, cache[th[x].task])
               pc == TellStep(th[x].task, "update.tell", "update.put")
               r == [th[x] EXCEPT !.pc = pc, !.copy = c]
    <2>1. /\ th[x] \in Thread /\ th[x].task \in Tasks /\ th[x].scen \in Scenarios
          /\ th[x].pc = "update.get" /\ cache[th[x].task] \in Version
      BY <1>0, <1>7 DEF UpdateGet, ThreadOK, UpdateSteps, TypeOK
    <2>2. /\ c.live /\ c.rv = cache[th[x].task].rv /\ c.id = cache[th[x].task].id
          /\ cache[th[x].task].archives \subseteq c.archives
          /\ \A s \in Scenarios \ {th[x].scen} : c.phases[s] = cache[th[x].task].phases[s]
      BY <1>7, <2>1, ReportedType
    <2>3. pc \in {"update.tell", "update.put"}
      BY DEF TellStep
    <2>4. th' = [th EXCEPT ![x] = r] /\ UNCHANGED status
      BY <1>7 DEF UpdateGet, Set, taskVars
    <2> HIDE DEF pc, c
    <2>5. r.pc = pc /\ r.copy = c /\ r.task = th[x].task /\ r.id = th[x].id
          /\ r.scen = th[x].scen
      BY <2>1 DEF Thread
    <2> HIDE DEF r
    <2>6. CacheFresh(cache, status)
      BY VersionParts
    <2>7. CopyFresh(r, status[th[x].task])
      BY <2>1, <2>2, <2>5, <2>6 DEF CopyFresh, CacheFresh
    <2>8. ThreadFresh(x, r, status')
      BY <1>0, <2>1, <2>3, <2>4, <2>5, <2>7 DEF ThreadFresh
    <2> QED BY <1>0, <1>1, <2>4, <2>8
  <1>8. ASSUME NEW x \in Threads, UpdateTell(x)
        PROVE  ThreadFresh(y, th'[y], status')
    <2> DEFINE r == [th[x] EXCEPT !.pc = "update.put"]
    <2>1. th' = [th EXCEPT ![x] = r] /\ UNCHANGED status /\ th[x].pc = "update.tell"
          /\ th[x] \in Thread
      BY <1>0, <1>8 DEF UpdateTell, Goto, Set, taskVars
    <2>2. r.copy = th[x].copy /\ r.task = th[x].task /\ r.id = th[x].id
          /\ r.scen = th[x].scen /\ r.pc = "update.put"
      BY <2>1 DEF Thread
    <2> HIDE DEF r
    <2>3. ThreadFresh(x, r, status')
      BY <1>0, <2>1, <2>2 DEF ThreadFresh, CopyFresh
    <2> QED BY <1>0, <1>1, <2>1, <2>3
  <1>9. ASSUME NEW x \in Threads, Watch(x)
        PROVE  ThreadFresh(y, th'[y], status')
    <2>1. /\ \A z \in Threads : z # x => th'[z] = th[z]
          /\ x \notin Provisioners
          /\ th'[x].pc \notin {"update.tell", "update.put"}
      <3>1. th[x] \in Thread /\ x \in Watchers /\ th[x].pc \in WatchSteps
        BY <1>0, <1>9
        DEF Watch, WatchList, WatchVisit, WatchCopy, WatchRound, ThreadOK, WatchSteps
      <3>2. ASSUME NEW r, Set(x, r)
            PROVE  th'[x] = r /\ \A z \in Threads : z # x => th'[z] = th[z]
        BY <1>0, <3>2 DEF Set
      <3>3. x \notin Provisioners
        BY <3>1 DEF Watchers, Provisioners
      <3>6. ASSUME NEW r, Set(x, r), r.pc \in {"idle", "list", "visit", "copy", "update.get"}
            PROVE  /\ \A z \in Threads : z # x => th'[z] = th[z]
                   /\ th'[x].pc \notin {"update.tell", "update.put"}
        BY <3>2, <3>6
      <3>7. CASE WatchList(x)
        <4> DEFINE r == [th[x] EXCEPT !.pc = "visit", !.left = Cardinality(MastersSeen),
                                      !.todo = {s \in MastersSeen : pod[s] = "completed"}]
        <4>1. Set(x, r) /\ r.pc = "visit"
          BY <3>1, <3>7 DEF WatchList, Thread
        <4> HIDE DEF r
        <4> QED BY <3>3, <3>6, <4>1
      <3>8. ASSUME NEW s \in Scenarios, WatchVisit(x, s)
            PROVE  /\ \A z \in Threads : z # x => th'[z] = th[z]
                   /\ th'[x].pc \notin {"update.tell", "update.put"}
        <4> DEFINE i == IF cache[th[x].task].live THEN cache[th[x].task].id ELSE th[x].id
                   rest == th[x].todo \ {s}
                   r == [th[x] EXCEPT !.todo = rest, !.left = th[x].left - 1, !.id = i]
                   q == [th[x] EXCEPT !.pc = "copy", !.scen = s, !.todo = rest, !.id = i]
        <4>1. th[x].pc = "visit" /\ (Set(x, r) \/ Set(x, q))
          BY <3>8 DEF WatchVisit
        <4>2. r.pc = th[x].pc /\ q.pc = "copy"
          BY <3>1 DEF Thread
        <4> HIDE DEF r, q
        <4> QED BY <3>6, <4>1, <4>2
      <3>9. CASE WatchCopy(x)
        <4> DEFINE r == [th[x] EXCEPT !.pc = "update.get", !.ph = "FINISHED"]
        <4>1. Set(x, r) /\ r.pc = "update.get"
          BY <3>1, <3>9 DEF WatchCopy, Thread
        <4> HIDE DEF r
        <4> QED BY <3>3, <3>6, <4>1
      <3>10. CASE WatchRound(x)
        <4> DEFINE r == [th[x] EXCEPT !.pc = "list", !.left = 0]
        <4>1. Set(x, r) \/ Set(x, IdleThread)
          BY <3>10 DEF WatchRound
        <4>2. r.pc = "list" /\ IdleThread.pc = "idle"
          BY <3>1 DEF Thread, IdleThread
        <4> HIDE DEF r
        <4> QED BY <3>3, <3>6, <4>1, <4>2
      <3> QED BY <1>9, <3>3, <3>7, <3>8, <3>9, <3>10 DEF Watch
    <2>2. ThreadFresh(x, th'[x], status')
      BY <2>1 DEF ThreadFresh
    <2> QED BY <1>1, <2>1, <2>2
  <1>10. CASE UNCHANGED th
    BY <1>1, <1>10
  <1>11. CASE User \/ Cluster \/ \E t \in Tasks : Deliver(t)
    BY <1>10, <1>11
    DEF User, Submit, Edit, Delete, Cluster, Collect, Observe, PodStep, Ingress, Deliver
  <1>12. CASE Reconcile
    BY <1>4, <1>10, <1>12
    DEF Reconcile, RecSkip, RecIdentify, RecKnown, RecTell, RecPut, RecReturn
  <1>13. CASE Crash
    BY <1>2, <1>13 DEF Crash
  <1>14. CASE \E x \in Threads : Provision(x) \/ UpdateStatus(x) \/ Watch(x)
    BY <1>5, <1>6, <1>7, <1>8, <1>9, <1>14 DEF UpdateStatus, UpdateGet, UpdatePut
  <1>15. CASE UNCHANGED vars
    BY <1>10, <1>15 DEF vars
  <1> QED BY <1>11, <1>12, <1>13, <1>14, <1>15 DEF Next

-----------------------------------------------------------------------------
(* The theorems *)

IInv == TypeOK /\ VersionInv /\ MasterInv

LEMMA InitInv == ASSUME ConstantsAssumption, Init PROVE IInv
  <1>1. TypeOK
    BY InitType
  <1>2. VersionInv
    <2>1. /\ Submitted(status) /\ CacheFresh(cache, status)
      <3>1. \A t \in Tasks : status[t] = NoVersion /\ cache[t] = NoVersion
        BY DEF Init
      <3>2. NoVersion.rv <= NoVersion.rv
        BY NoVersionDead
      <3> QED BY <3>1, <3>2, NoVersionDead DEF Submitted, CacheFresh
    <2>2. /\ RecFresh(rec, status) /\ \A x \in Threads : ThreadFresh(x, th[x], status)
      BY IdleFresh DEF Init
    <2> QED BY <2>1, <2>2, VersionParts
  <1>3. MasterInv
    <2>1. \A n \in Names : objects[n] = NoId
      BY DEF Init
    <2>2. \A s \in Scenarios : Master(s) \in Names
      BY DEF Master, Names, HomeNames
    <2> QED BY <2>1, <2>2 DEF MasterInv, ConstantsAssumption
  <1> QED BY <1>1, <1>2, <1>3 DEF IInv

LEMMA VersionStep ==
  ASSUME ConstantsAssumption, TypeOK, TypeOK', VersionInv, [Next]_vars
  PROVE  VersionInv'
  <1>1. Submitted(status')
    BY StepEvolves DEF Evolution, Evolves, Submitted
  <1> QED BY <1>1, CacheStep, RecStep, ThreadStep, VersionParts

\* Only the provisioner of a scenario makes its master, with the id it was given.
LEMMA MasterStep ==
  ASSUME ConstantsAssumption, TypeOK, TypeOK', VersionInv, MasterInv, [Next]_vars
  PROVE  MasterInv'
  <1> SUFFICES ASSUME NEW t \in Tasks, NEW s \in ScenariosOf[t], Private(s),
                      objects'[Master(s)] # NoId
               PROVE  OwnedIn(status', t, objects'[Master(s)])
    BY DEF MasterInv, Owned, OwnedIn, Private
  <1>1. /\ status \in [Tasks -> Version] /\ status' \in [Tasks -> Version]
        /\ Evolution(status, status') /\ s \in Scenarios
        /\ \A n \in Names : objects[n] \in Nat
        /\ objects \in [Names -> Nat]
    BY StepEvolves DEF TypeOK, ConstantsAssumption
  <1>2. Master(s) \in Names
    BY <1>1 DEF Master, Names, HomeNames
  <1>3. CASE objects'[Master(s)] = objects[Master(s)]
    <2>1. OwnedIn(status, t, objects[Master(s)])
      BY <1>3 DEF MasterInv, Owned, OwnedIn
    <2> QED BY <1>1, <1>3, <2>1, OwnedStable
  <1>4. ASSUME NEW x \in Threads, MasterCreate(x), Make(x, Master(th[x].scen))
        PROVE  OwnedIn(status', t, objects'[Master(s)])
    <2>1. /\ x \in Provisioners /\ th[x].task \in Tasks /\ th[x].pc # "idle"
          /\ th[x].scen \in ScenariosOf[th[x].task]
      BY <1>4, TypeParts DEF MasterCreate, ThreadOK, ProvisionSteps
    <2>2. OwnedIn(status, th[x].task, th[x].id)
      BY <2>1, VersionParts DEF ThreadFresh
    <2>3. CASE th[x].scen = s
      <3>1. th[x].task = t
        BY <2>1, <2>3 DEF Private
      <3>2. objects'[Master(s)] = th[x].id
        BY <1>1, <1>2, <1>4, <2>3 DEF Make
      <3> QED BY <1>1, <2>2, <3>1, <3>2, OwnedStable
    <2>4. CASE th[x].scen # s
      BY <1>1, <1>2, <1>3, <1>4, <2>4 DEF Make, Master
    <2> QED BY <2>3, <2>4
  <1>5. ASSUME NEW x \in Threads, NEW n, Make(x, n), n # Master(s)
        PROVE  OwnedIn(status', t, objects'[Master(s)])
    BY <1>1, <1>2, <1>3, <1>5 DEF Make
  <1>6. CASE UNCHANGED objects
    BY <1>3, <1>6
  <1>7. ASSUME NEW n \in Names, Collect(n)
        PROVE  OwnedIn(status', t, objects'[Master(s)])
    BY <1>1, <1>2, <1>3, <1>7 DEF Collect
  <1>8. CASE User \/ Crash \/ \E u \in Tasks : Deliver(u)
    BY <1>6, <1>8 DEF User, Submit, Edit, Delete, Crash, Deliver, clusterVars
  <1>9. CASE Reconcile
    BY <1>6, <1>9
    DEF Reconcile, RecSkip, RecIdentify, RecKnown, RecTell, RecPut, RecReturn, RecSpawn,
        clusterVars
  <1>10. CASE Cluster
    BY <1>6, <1>7, <1>10 DEF Cluster, Observe, PodStep, Ingress
  <1>11. ASSUME NEW x \in Threads, Provision(x)
         PROVE  OwnedIn(status', t, objects'[Master(s)])
    <2>1. Svc(th[x].scen) # Master(s)
      BY DEF Svc, Master
    <2>2. Worker(th[x].task, th[x].scen, th[x].n) # Master(s)
      BY DEF Worker, Master
    <2>3. CASE MasterCreate(x)
      BY <1>4, <1>6, <2>3 DEF MasterCreate
    <2>4. CASE SvcCreate(x)
      BY <1>5, <1>6, <2>1, <2>4 DEF SvcCreate
    <2>5. CASE WorkerCreate(x)
      BY <1>5, <1>6, <2>2, <2>5 DEF WorkerCreate
    <2> QED
      BY <1>6, <1>11, <2>3, <2>4, <2>5
      DEF Provision, MasterGet, SvcGet, Poll, WorkerGet, WorkersDone, GetObject, clusterVars
  <1>12. ASSUME NEW x \in Threads, UpdateStatus(x) \/ Watch(x)
         PROVE  OwnedIn(status', t, objects'[Master(s)])
    BY <1>6, <1>12
    DEF UpdateStatus, UpdateGet, UpdateTell, UpdatePut, Watch, WatchList, WatchVisit,
        WatchCopy, WatchRound, clusterVars
  <1>13. CASE UNCHANGED vars
    BY <1>6, <1>13 DEF vars, clusterVars
  <1> QED BY <1>8, <1>9, <1>10, <1>11, <1>12, <1>13 DEF Next

LEMMA InductiveInvariant == Spec => []IInv
  <1>1. Init => IInv
    BY ConstantsAssumption, InitInv
  <1>2. IInv /\ [Next]_vars => IInv'
    BY ConstantsAssumption, TypeStep, VersionStep, MasterStep DEF IInv
  <1> QED BY <1>1, <1>2, PTL DEF Spec

\* Optimistic concurrency works for every goroutine: what anyone read earlier is an
\* older version or still the stored one.
THEOREM VersionsTellApart == Spec => []VersionInv
  <1>1. IInv => VersionInv
    BY DEF IInv
  <1> QED BY <1>1, InductiveInvariant, PTL

\* The master pod of a task's own scenario was made for the id of that task.
THEOREM MasterMadeForItsTask == Spec => []MasterInv
  <1>1. IInv => MasterInv
    BY DEF IInv
  <1> QED BY <1>1, InductiveInvariant, PTL

\* The logs of a scenario are written where the id of the task's status says.
THEOREM LogsUnderTaskId == Spec => []MasterLogsUnderTaskId
  <1>1. IInv => MasterLogsUnderTaskId
    BY DEF IInv, MasterInv, MasterLogsUnderTaskId, Owned
  <1> QED BY <1>1, InductiveInvariant, PTL

\* The id of a task never changes, for any number of goroutines, stale caches,
\* edits and restarts.
THEOREM IdNeverChanges == Spec => IdStable
  <1> DEFINE A == \A t \in Tasks :
                    status[t].live /\ status'[t].live /\ status[t].id # NoId
                    => status'[t].id = status[t].id
  <1>1. IInv /\ [Next]_vars => [A]_vars
    BY StepEvolves DEF IInv, Evolution, Evolves
  <1> QED BY <1>1, InductiveInvariant, PTL DEF Spec, IdStable

\* No update of the status undoes another one: one phase changes at a time and
\* archives are never dropped.
THEOREM UpdatesAreNotLost == Spec => NoLostUpdate
  <1> DEFINE A == \A t \in Tasks :
                    status[t].live /\ status'[t].live =>
                    /\ status[t].archives \subseteq status'[t].archives
                    /\ \A s, u \in Scenarios :
                          status'[t].phases[s] # status[t].phases[s]
                          /\ status'[t].phases[u] # status[t].phases[u] => s = u
  <1>1. IInv /\ [Next]_vars => [A]_vars
    BY StepEvolves DEF IInv, Evolution, Evolves
  <1> QED BY <1>1, InductiveInvariant, PTL DEF Spec, NoLostUpdate
-----------------------------------------------------------------------------
(* No provisioner does anything over *)

\* What the number of a provisioner counts: the polls it has made, then the worker it is at.
Counted(r) ==
    /\ r.pc \in {"master.get", "master.create", "svc.get", "svc.create"} => r.n = 0
    /\ r.pc = "poll" => r.n < MaxPolls
    /\ r.pc = "worker.get" => r.n \in 1..(Workers[r.scen] + 1)
    /\ r.pc = "worker.create" => r.n \in 1..Workers[r.scen]

AllCounted == \A x \in Provisioners : Counted(th[x])

\* A provisioner in the state r may go on in the state q.
Advances(r, q) == Counted(q) /\ StepsLeft(q) \in 0..(StepsLeft(r) - 1)

LEMMA StepsOf ==
  ASSUME NEW r
  PROVE  LET again   == IF r.next = "" THEN 0 ELSE 3
             w       == Workers[r.scen]
             workers == 2 * (w + 1 - r.n) IN
         /\ r.pc = "master.get" => StepsLeft(r) = 11 + 2 * w + MaxPolls
         /\ r.pc = "master.create" => StepsLeft(r) = 10 + 2 * w + MaxPolls
         /\ r.pc = "svc.get" => StepsLeft(r) = 9 + 2 * w + MaxPolls
         /\ r.pc = "svc.create" => StepsLeft(r) = 8 + 2 * w + MaxPolls
         /\ r.pc = "poll" => StepsLeft(r) = 7 + 2 * w + (MaxPolls - r.n)
         /\ r.pc = "worker.get" => StepsLeft(r) = 7 + workers
         /\ r.pc = "worker.create" => StepsLeft(r) = 6 + workers
         /\ r.pc = "update.get" => StepsLeft(r) = 3 + again
         /\ r.pc = "update.tell" => StepsLeft(r) = 2 + again
         /\ r.pc = "update.put" => StepsLeft(r) = 1 + again
         /\ r.pc = "idle" => StepsLeft(r) = 0
  BY DEF StepsLeft

\* The record of a provisioner that is at work.
Busy(r) ==
    /\ r \in Thread /\ r.pc \in ProvisionSteps \cup UpdateSteps
    /\ r.scen \in Scenarios /\ Counted(r)

LEMMA BusyNumbers ==
  ASSUME ConstantsAssumption, NEW r, Busy(r)
  PROVE  /\ Workers[r.scen] \in Nat /\ r.n \in Nat /\ MaxPolls \in Nat /\ MaxPolls > 0
         /\ StepsLeft(r) \in Nat /\ StepsLeft(r) > 0
         /\ r.pc \in ProvisionSteps => StepsLeft(r) > 6
  <1>1. Workers[r.scen] \in Nat /\ r.n \in Nat /\ MaxPolls \in Nat /\ MaxPolls > 0
    <2>1. r.n \in Nat
      BY DEF Busy, Thread
    <2>2. Workers[r.scen] \in Nat
      BY WorkersType DEF Busy
    <2> QED BY <2>1, <2>2 DEF ConstantsAssumption
  <1>2. CASE r.pc \in {"master.get", "master.create", "svc.get", "svc.create"}
    <2>1. \/ StepsLeft(r) = 11 + 2 * Workers[r.scen] + MaxPolls
          \/ StepsLeft(r) = 10 + 2 * Workers[r.scen] + MaxPolls
          \/ StepsLeft(r) = 9 + 2 * Workers[r.scen] + MaxPolls
          \/ StepsLeft(r) = 8 + 2 * Workers[r.scen] + MaxPolls
      BY <1>2, StepsOf
    <2> QED BY <1>1, <2>1
  <1>3. CASE r.pc = "poll"
    <2>1. StepsLeft(r) = 7 + 2 * Workers[r.scen] + (MaxPolls - r.n)
      BY <1>3, StepsOf
    <2>2. r.n < MaxPolls
      BY <1>3 DEF Busy, Counted
    <2> QED BY <1>1, <2>1, <2>2
  <1>4. CASE r.pc \in {"worker.get", "worker.create"}
    <2> DEFINE k == 2 * (Workers[r.scen] + 1 - r.n)
    <2>1. \/ r.pc = "worker.create" /\ StepsLeft(r) = 6 + k
          \/ r.pc = "worker.get" /\ StepsLeft(r) = 7 + k
      BY <1>4, StepsOf
    <2>2. /\ r.pc = "worker.create" => r.n <= Workers[r.scen]
          /\ r.n <= Workers[r.scen] + 1
      BY <1>1, <1>4 DEF Busy, Counted
    <2> QED BY <1>1, <2>1, <2>2
  <1>5. CASE r.pc \in UpdateSteps
    <2>1. r.pc \notin ProvisionSteps
      BY <1>5 DEF UpdateSteps, ProvisionSteps
    <2>2. StepsLeft(r) \in {1 + 0, 1 + 3, 2 + 0, 2 + 3, 3 + 0, 3 + 3}
      BY <1>5, StepsOf DEF UpdateSteps
    <2> QED BY <1>1, <2>1, <2>2
  <1> QED BY <1>1, <1>2, <1>3, <1>4, <1>5 DEF Busy, ProvisionSteps

LEMMA IdleAdvances ==
  ASSUME ConstantsAssumption, NEW r, Busy(r)
  PROVE  Advances(r, IdleThread)
  <1>1. IdleThread.pc = "idle"
    BY DEF IdleThread
  <1>2. StepsLeft(IdleThread) = 0 /\ Counted(IdleThread)
    BY <1>1, StepsOf DEF Counted
  <1> QED BY <1>2, BusyNumbers DEF Advances

\* A report takes six steps at most, less than any step before it has left.
LEMMA ReportAdvances ==
  ASSUME ConstantsAssumption, NEW x \in Threads, Busy(th[x]), th[x].pc \in ProvisionSteps,
         NEW ph, NEW next
  PROVE  Advances(th[x], Reporting(x, ph, next))
  <1> DEFINE q == Reporting(x, ph, next)
  <1>1. q.pc = "update.get"
    BY DEF Reporting, Busy, Thread
  <1> HIDE DEF q
  <1>2. Counted(q) /\ StepsLeft(q) \in 0..6
    <2>1. StepsLeft(q) \in {3 + 0, 3 + 3}
      BY <1>1, StepsOf
    <2> QED BY <1>1, <2>1 DEF Counted
  <1>3. StepsLeft(th[x]) \in Nat /\ StepsLeft(th[x]) > 6
    BY BusyNumbers
  <1> QED BY <1>2, <1>3 DEF Advances, q

\* Where a step of do4Locust takes the record of its goroutine.
LEMMA ProvisionAdvances ==
  ASSUME ConstantsAssumption, NEW x \in Threads, Busy(th[x]), Provision(x)
  PROVE  \E q : Set(x, q) /\ Advances(th[x], q)
  <1> DEFINE r == th[x]
             w == Workers[th[x].scen]
  <1>0. /\ r \in Thread /\ r.n \in Nat /\ w \in Nat /\ MaxPolls \in Nat /\ MaxPolls > 0
        /\ Counted(r)
    BY BusyNumbers DEF Busy
  <1>1. ASSUME NEW pc, NEW n \in Nat
        PROVE  LET q == [r EXCEPT !.pc = pc, !.n = n] IN
               q.pc = pc /\ q.n = n /\ q.scen = r.scen
    BY <1>0 DEF Thread
  <1>2. ASSUME NEW pc
        PROVE  [r EXCEPT !.pc = pc] = [r EXCEPT !.pc = pc, !.n = r.n]
    BY <1>0 DEF Thread
  <1>3. ASSUME NEW n
        PROVE  [r EXCEPT !.n = n] = [r EXCEPT !.pc = r.pc, !.n = n]
    BY <1>0 DEF Thread
  <1> HIDE DEF r, w
  <1>4. r.pc \in ProvisionSteps => \A ph, next : Advances(r, Reporting(x, ph, next))
    BY ReportAdvances DEF r
  \* The next object, on the same number or the next.
  <1>5. ASSUME NEW pc, NEW n \in Nat, Set(x, [r EXCEPT !.pc = pc, !.n = n]),
               \/ r.pc = "master.get" /\ pc \in {"master.create", "svc.get"} /\ n = r.n
               \/ r.pc = "master.create" /\ pc = "svc.get" /\ n = r.n
               \/ r.pc = "svc.get" /\ pc \in {"svc.create", "poll"} /\ n = r.n
               \/ r.pc = "svc.create" /\ pc = "poll" /\ n = r.n
               \/ r.pc = "poll" /\ pc = "poll" /\ n = r.n + 1 /\ n < MaxPolls
               \/ r.pc = "poll" /\ pc = "worker.get" /\ n = 1
               \/ r.pc = "worker.get" /\ pc = "worker.create" /\ n = r.n /\ n <= w
               \/ r.pc = "worker.get" /\ pc = "worker.get" /\ n = r.n + 1 /\ r.n <= w
               \/ r.pc = "worker.create" /\ pc = "worker.get" /\ n = r.n + 1
        PROVE  \E q : Set(x, q) /\ Advances(r, q)
    <2> DEFINE q == [r EXCEPT !.pc = pc, !.n = n]
    <2>1. q.pc = pc /\ q.n = n /\ q.scen = r.scen /\ Set(x, q) /\ w = Workers[r.scen]
      BY <1>1, <1>5 DEF w, r
    <2> HIDE DEF q
    <2>2. CASE r.pc \in {"master.get", "master.create", "svc.get", "svc.create"}
      <3>1. r.n = 0 /\ n = 0
        BY <1>0, <1>5, <2>2 DEF Counted
      <3>2. \/ StepsLeft(r) = 11 + 2 * w + MaxPolls /\ r.pc = "master.get"
            \/ StepsLeft(r) = 10 + 2 * w + MaxPolls /\ r.pc = "master.create"
            \/ StepsLeft(r) = 9 + 2 * w + MaxPolls /\ r.pc = "svc.get"
            \/ StepsLeft(r) = 8 + 2 * w + MaxPolls /\ r.pc = "svc.create"
        BY <2>1, <2>2, StepsOf
      <3>3. \/ StepsLeft(q) = 10 + 2 * w + MaxPolls /\ pc = "master.create"
            \/ StepsLeft(q) = 9 + 2 * w + MaxPolls /\ pc = "svc.get"
            \/ StepsLeft(q) = 8 + 2 * w + MaxPolls /\ pc = "svc.create"
            \/ StepsLeft(q) = 7 + 2 * w + (MaxPolls - n) /\ pc = "poll"
        BY <1>5, <2>1, <2>2, StepsOf
      <3>4. Counted(q)
        BY <1>0, <1>5, <2>1, <2>2, <3>1 DEF Counted
      <3>5. StepsLeft(q) \in 0..(StepsLeft(r) - 1)
        BY <1>0, <1>5, <3>1, <3>2, <3>3
      <3> QED BY <2>1, <3>4, <3>5 DEF Advances
    <2>3. CASE r.pc = "poll"
      <3>1. r.n < MaxPolls
        BY <1>0, <2>3 DEF Counted
      <3>2. StepsLeft(r) = 7 + 2 * w + (MaxPolls - r.n)
        BY <2>1, <2>3, StepsOf
      <3>3. \/ StepsLeft(q) = 7 + 2 * w + (MaxPolls - n) /\ pc = "poll"
            \/ StepsLeft(q) = 7 + 2 * (w + 1 - n) /\ pc = "worker.get"
        BY <1>5, <2>1, <2>3, StepsOf
      <3>4. Counted(q)
        BY <1>0, <1>5, <2>1, <2>3 DEF Counted
      <3>5. StepsLeft(q) \in 0..(StepsLeft(r) - 1)
        BY <1>0, <1>5, <2>3, <3>1, <3>2, <3>3
      <3> QED BY <2>1, <3>4, <3>5 DEF Advances
    <2>4. CASE r.pc \in {"worker.get", "worker.create"}
      <3>1. r.n >= 1 /\ (r.pc = "worker.create" => r.n <= w)
        BY <1>0, <2>1, <2>4 DEF Counted
      <3>2. \/ StepsLeft(r) = 7 + 2 * (w + 1 - r.n) /\ r.pc = "worker.get"
            \/ StepsLeft(r) = 6 + 2 * (w + 1 - r.n) /\ r.pc = "worker.create"
        BY <2>1, <2>4, StepsOf
      <3>3. \/ StepsLeft(q) = 7 + 2 * (w + 1 - n) /\ pc = "worker.get"
            \/ StepsLeft(q) = 6 + 2 * (w + 1 - n) /\ pc = "worker.create"
        BY <1>5, <2>1, <2>4, StepsOf
      <3>4. Counted(q)
        BY <1>0, <1>5, <2>1, <2>4, <3>1 DEF Counted
      <3>5. StepsLeft(q) \in 0..(StepsLeft(r) - 1)
        BY <1>0, <1>5, <2>4, <3>1, <3>2, <3>3
      <3> QED BY <2>1, <3>4, <3>5 DEF Advances
    <2> QED BY <1>5, <2>2, <2>3, <2>4
  <1>6. \A pc : Goto(x, pc) => Set(x, [r EXCEPT !.pc = pc, !.n = r.n])
    BY <1>2 DEF Goto, r
  <1>7. \A n : Set(x, [r EXCEPT !.n = n]) => Set(x, [r EXCEPT !.pc = r.pc, !.n = n])
    BY <1>3
  <1>8. CASE MasterGet(x) \/ SvcGet(x)
    <2>1. \/ r.pc = "master.get" /\ (Goto(x, "svc.get") \/ Goto(x, "master.create"))
          \/ r.pc = "svc.get" /\ (Goto(x, "poll") \/ Goto(x, "svc.create"))
      BY <1>8 DEF MasterGet, SvcGet, GetObject, r
    <2> QED BY <1>0, <1>5, <1>6, <2>1 DEF r
  <1>9. CASE MasterCreate(x) \/ SvcCreate(x)
    <2>1. \/ r.pc = "master.create" /\ Goto(x, "svc.get")
          \/ r.pc = "svc.create" /\ Goto(x, "poll")
          \/ r.pc \in ProvisionSteps /\ \E ph, next : Set(x, Reporting(x, ph, next))
      BY <1>9 DEF MasterCreate, SvcCreate, ProvisionSteps, r
    <2> QED BY <1>0, <1>4, <1>5, <1>6, <2>1 DEF r
  <1>10. CASE Poll(x)
    <2>1. /\ r.pc = "poll"
          /\ \/ Set(x, [r EXCEPT !.pc = "worker.get", !.n = 1])
             \/ r.n + 1 < MaxPolls /\ Set(x, [r EXCEPT !.n = r.n + 1])
             \/ Set(x, Reporting(x, "PROVISIONING_MASTER", ""))
      BY <1>10 DEF Poll, r
    <2>2. r.pc \in ProvisionSteps /\ r.n + 1 \in Nat /\ 1 \in Nat
      <3>1. r.pc \in ProvisionSteps
        BY <2>1 DEF ProvisionSteps
      <3> QED BY <1>0, <3>1
    <2>3. Set(x, Reporting(x, "PROVISIONING_MASTER", "")) => \E q : Set(x, q) /\ Advances(r, q)
      BY <1>4, <2>2
    <2>4. r.n + 1 < MaxPolls /\ Set(x, [r EXCEPT !.n = r.n + 1]) =>
          Set(x, [r EXCEPT !.pc = "poll", !.n = r.n + 1])
      BY <1>7, <2>1
    <2> QED BY <1>5, <2>1, <2>2, <2>3, <2>4 DEF r
  <1>11. CASE WorkerGet(x)
    <2>1. /\ r.pc = "worker.get" /\ r.n <= w
          /\ \/ Set(x, [r EXCEPT !.n = r.n + 1])
             \/ Goto(x, "worker.create")
             \/ Set(x, Reporting(x, "FAILED", "PROVISIONING_WORKER"))
      BY <1>11 DEF WorkerGet, r, w
    <2>2. r.pc \in ProvisionSteps /\ r.n + 1 \in Nat
      BY <1>0, <2>1 DEF ProvisionSteps
    <2> QED BY <1>0, <1>4, <1>5, <1>6, <1>7, <2>1, <2>2 DEF r
  <1>12. CASE WorkerCreate(x)
    <2>1. /\ r.pc = "worker.create"
          /\ \/ Set(x, [r EXCEPT !.pc = "worker.get", !.n = r.n + 1])
             \/ Set(x, Reporting(x, "FAILED", "PROVISIONING_WORKER"))
      BY <1>12 DEF WorkerCreate, r
    <2>2. r.pc \in ProvisionSteps /\ r.n + 1 \in Nat
      BY <1>0, <2>1 DEF ProvisionSteps
    <2> QED BY <1>4, <1>5, <2>1, <2>2 DEF r
  <1>13. CASE WorkersDone(x)
    <2>1. /\ r.pc \in ProvisionSteps
          /\ \E ph, next : Set(x, Reporting(x, ph, next))
      BY <1>13 DEF WorkersDone, ProvisionSteps, r
    <2> QED BY <1>4, <2>1 DEF r
  <1> QED BY <1>8, <1>9, <1>10, <1>11, <1>12, <1>13 DEF Provision, r

\* The same of updateStatus.
LEMMA UpdateAdvances ==
  ASSUME ConstantsAssumption, TypeOK, NEW x \in Provisioners, Busy(th[x]), UpdateStatus(x)
  PROVE  Advances(th[x], th'[x])
  <1> DEFINE r == th[x]
  <1>0. x \in Threads /\ x \notin Watchers /\ r \in Thread /\ th \in [Threads -> Thread]
    BY DEF TypeOK, Provisioners, Watchers, Threads
  <1>1. ASSUME NEW q, q.pc \in {"update.tell", "update.put"}, q.next = r.next, th'[x] = q,
               \/ r.pc = "update.get"
               \/ r.pc = "update.tell" /\ q.pc = "update.put"
        PROVE  Advances(th[x], th'[x])
    <2> DEFINE again == IF r.next = "" THEN 0 ELSE 3
    <2>1. again \in {0, 3} /\ Counted(q)
      BY <1>1 DEF Counted
    <2>2. \/ StepsLeft(r) = 3 + again /\ r.pc = "update.get"
          \/ StepsLeft(r) = 2 + again /\ r.pc = "update.tell"
      BY <1>1, StepsOf
    <2>3. \/ StepsLeft(q) = 2 + again /\ q.pc = "update.tell"
          \/ StepsLeft(q) = 1 + again /\ q.pc = "update.put"
      BY <1>1, StepsOf
    <2>4. StepsLeft(q) \in 0..(StepsLeft(r) - 1)
      <3> HIDE DEF again, r
      <3> QED BY <1>1, <2>1, <2>2, <2>3
    <2> QED BY <1>1, <2>1, <2>4 DEF Advances
  <1>2. ASSUME th' = Returned(x), r.pc \in UpdateSteps
        PROVE  Advances(th[x], th'[x])
    <2>1. CASE r.next = ""
      <3>1. th'[x] = IdleThread
        BY <1>0, <1>2, <2>1 DEF Returned
      <3> QED BY <3>1, IdleAdvances
    <2>2. CASE r.next # ""
      <3> DEFINE q == [r EXCEPT !.pc = "update.get", !.ph = r.next, !.next = "",
                                !.copy = NoVersion]
      <3>1. th'[x] = q
        BY <1>0, <1>2, <2>2 DEF Returned
      <3>2. q.pc = "update.get" /\ q.next = ""
        BY <1>0 DEF Thread
      <3> HIDE DEF q
      <3>3. StepsLeft(q) = 3 + 0 /\ Counted(q)
        BY <3>2, StepsOf DEF Counted
      <3>4. StepsLeft(r) \in {1 + 3, 2 + 3, 3 + 3}
        BY <1>2, <2>2, StepsOf DEF UpdateSteps
      <3> HIDE DEF r
      <3> QED BY <3>1, <3>3, <3>4 DEF Advances, r
    <2> QED BY <2>1, <2>2
  <1>3. CASE UpdateGet(x)
    <2> DEFINE q == [r EXCEPT !.pc = TellStep(r.task, "update.tell", "update.put"),
                              !.copy = Reported(x, cache[r.task])]
    <2>1. TellStep(r.task, "update.tell", "update.put") \in {"update.tell", "update.put"}
      BY DEF TellStep
    <2>2. q.pc \in {"update.tell", "update.put"} /\ q.next = r.next
      BY <1>0, <2>1 DEF Thread
    <2>3. r.pc = "update.get" /\ (Set(x, q) \/ th' = Returned(x))
      BY <1>3 DEF UpdateGet
    <2> HIDE DEF q
    <2>4. Set(x, q) => th'[x] = q
      BY <1>0 DEF Set
    <2> QED BY <1>1, <1>2, <2>2, <2>3, <2>4 DEF UpdateSteps
  <1>4. CASE UpdateTell(x)
    <2> DEFINE q == [r EXCEPT !.pc = "update.put"]
    <2>1. q.pc = "update.put" /\ q.next = r.next /\ r.pc = "update.tell" /\ th'[x] = q
      BY <1>0, <1>4 DEF UpdateTell, Goto, Set, Thread
    <2> HIDE DEF q
    <2> QED BY <1>1, <2>1
  <1>5. CASE UpdatePut(x)
    BY <1>2, <1>5 DEF UpdatePut, UpdateSteps
  <1> QED BY <1>3, <1>4, <1>5 DEF UpdateStatus

\* The state of a provisioner is changed by itself, by the Reconcile that starts it, or by a
\* restart.
LEMMA ProvisionerStep ==
  ASSUME ConstantsAssumption, TypeOK, AllCounted, [Next]_vars, NEW x \in Provisioners,
         th'[x] # th[x]
  PROVE  IF th[x].pc = "idle" THEN Counted(th'[x]) ELSE Advances(th[x], th'[x])
  <1>0. /\ x \in Threads /\ x \notin Watchers
        /\ th \in [Threads -> Thread] /\ ThreadOK(x, th[x]) /\ Counted(th[x])
    BY TypeParts DEF AllCounted, Provisioners, Watchers, Threads
  <1>1. th[x].pc # "idle" => Busy(th[x])
    <2>1. th[x].pc # "idle" => th[x].scen \in Scenarios
      BY <1>0 DEF ThreadOK, ConstantsAssumption
    <2>2. th[x].pc \notin WatchSteps
      BY <1>0 DEF ThreadOK
    <2> QED BY <1>0, <2>1, <2>2 DEF Busy, ThreadOK, Thread
  <1>2. ASSUME NEW y \in Threads, NEW q, Set(y, q)
        PROVE  y = x /\ th'[x] = q
    BY <1>0, <1>2 DEF Set
  <1>3. ASSUME NEW y \in Threads, th' = Returned(y)
        PROVE  y = x
    <2>1. x # <<y[1], "watch">>
      BY DEF Provisioners
    <2> QED BY <1>0, <1>3, <2>1 DEF Returned
  <1>4. ASSUME NEW y \in Threads, Provision(y)
        PROVE  IF th[x].pc = "idle" THEN Counted(th'[x]) ELSE Advances(th[x], th'[x])
    <2>1. \E q : Set(y, q)
      BY <1>4 DEF Provision, MasterGet, MasterCreate, SvcGet, SvcCreate, Poll, WorkerGet,
         WorkerCreate, WorkersDone, GetObject, Goto
    <2>2. y = x
      BY <1>2, <2>1
    <2>3. th[x].pc # "idle"
      BY <1>4, <2>2 DEF Provision, MasterGet, MasterCreate, SvcGet, SvcCreate, Poll, WorkerGet,
         WorkerCreate, WorkersDone
    <2> QED BY <1>0, <1>1, <1>2, <1>4, <2>2, <2>3, ProvisionAdvances
  <1>5. ASSUME NEW y \in Threads, UpdateStatus(y)
        PROVE  IF th[x].pc = "idle" THEN Counted(th'[x]) ELSE Advances(th[x], th'[x])
    <2>1. (\E q : Set(y, q)) \/ th' = Returned(y)
      BY <1>5 DEF UpdateStatus, UpdateGet, UpdateTell, UpdatePut, Goto
    <2>2. y = x
      BY <1>2, <1>3, <2>1
    <2>3. th[x].pc # "idle"
      BY <1>5, <2>2 DEF UpdateStatus, UpdateGet, UpdateTell, UpdatePut
    <2> QED BY <1>1, <1>5, <2>2, <2>3, UpdateAdvances
  <1>6. ASSUME NEW y \in Threads, Watch(y)  PROVE FALSE
    <2>1. \E q : Set(y, q)
      BY <1>6 DEF Watch, WatchList, WatchVisit, WatchCopy, WatchRound
    <2>2. y = x
      BY <1>2, <2>1
    <2>3. th[x].pc \in WatchSteps
      BY <1>6, <2>2 DEF Watch, WatchList, WatchVisit, WatchCopy, WatchRound, WatchSteps
    <2> QED BY <1>0, <2>3 DEF ThreadOK
  <1>7. ASSUME NEW s \in Scenarios, NEW g \in Slots, RecSpawn(s, g)
        PROVE  th[x].pc = "idle" /\ Counted(th'[x])
    <2> DEFINE r == [IdleThread EXCEPT !.pc = "master.get", !.task = rec.task,
                                       !.scen = s, !.id = rec.copy.id]
    <2>1. /\ th[<<g, "provision">>].pc = "idle" /\ <<g, "provision">> \in Threads
          /\ Set(<<g, "provision">>, r)
      BY <1>7 DEF RecSpawn, Set, Threads
    <2>2. r.pc = "master.get" /\ r.n = 0
      BY DEF IdleThread
    <2> HIDE DEF r
    <2>3. <<g, "provision">> = x /\ th'[x] = r
      BY <1>2, <2>1
    <2> QED BY <2>1, <2>2, <2>3 DEF Counted
  <1>8. CASE Crash
    <2>1. th'[x] = IdleThread
      BY <1>0, <1>8 DEF Crash
    <2>2. Counted(IdleThread)
      BY DEF Counted, IdleThread
    <2> QED BY <1>1, <2>1, <2>2, IdleAdvances
  <1>9. CASE UNCHANGED th
    BY <1>9
  <1>10. CASE Reconcile
    BY <1>7, <1>9, <1>10 DEF Reconcile, RecSkip, RecIdentify, RecKnown, RecTell, RecPut, RecReturn
  <1>11. CASE User \/ Cluster \/ \E t \in Tasks : Deliver(t)
    BY <1>9, <1>11 DEF User, Submit, Edit, Delete, Cluster, Collect, Observe, PodStep, Ingress,
       Deliver
  <1> QED BY <1>4, <1>5, <1>6, <1>8, <1>9, <1>10, <1>11 DEF Next, vars

\* What a provisioner does for a scenario is bounded by the scenario's workers and the limit
\* of the polls, for any number of goroutines, failures and restarts.
THEOREM ProvisionersAreBounded == Spec => ProvisionersAdvance
  <1>1. Init => AllCounted
    <2>1. Counted(IdleThread)
      BY DEF Counted, IdleThread
    <2>2. Provisioners \subseteq Threads
      BY DEF Provisioners, Threads
    <2> QED BY <2>1, <2>2 DEF Init, AllCounted
  <1>2. TypeOK /\ AllCounted /\ [Next]_vars => AllCounted'
    BY ConstantsAssumption, ProvisionerStep DEF AllCounted, Advances
  <1>3. TypeOK /\ AllCounted /\ [Next]_vars =>
        [\A x \in Provisioners :
            th[x].pc # "idle" /\ th'[x] # th[x]
            => StepsLeft(th'[x]) \in 0..(StepsLeft(th[x]) - 1)]_vars
    BY ConstantsAssumption, ProvisionerStep DEF Advances
  <1> QED BY <1>1, <1>2, <1>3, TypeCorrect, PTL DEF Spec, ProvisionersAdvance
=============================================================================
