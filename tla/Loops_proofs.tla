---------------------------- MODULE Loops_proofs ----------------------------
(***************************************************************************)
(* Proofs about Loops.  First LeaderLock, for any number of replicas and   *)
(* any lease, renew interval and slack with RenewEvery + 2 * Slack < Ttl:  *)
(* its types, that two iterations of a task never overlap while Redis and  *)
(* the renewers work, and that at most one leader is left a renewal cycle  *)
(* after the last disturbance.  Both follow from LeaseInv: a replica that  *)
(* believes to lead owns the key, or has not been able to look since the   *)
(* disturbance.  Then what the composition keeps of the theorems of        *)
(* HeartbeatChecker and of Rollup with UptimeReport.                       *)
(***************************************************************************)
EXTENDS Loops, TLAPS

\* What LeaseAssumption says of the times involved.
LEMMA Times ==
    /\ Ttl \in Nat /\ RenewEvery \in Nat /\ Slack \in Nat /\ HealTime \in Nat
    /\ HealTime > RenewEvery + 2 * Slack /\ RenewEvery + 2 * Slack < Ttl
    /\ Nobody \notin Replicas
    BY LeaseAssumption DEF LeaseAssumption, HealTime

LEMMA InitType == Init => TypeOK
    BY Times DEF Init, TypeOK, Locs

LEMMA InitLease == Init => LeaseInv
    BY Times DEF Init, LeaseInv, OwnsFor

LEMMA BecomeType ==
    ASSUME TypeOK, NEW i \in Replicas, Become(i) \/ NotLeader(i)
    PROVE  /\ isLeader' \in [Replicas -> BOOLEAN]
           /\ renewing' \in [Replicas -> BOOLEAN]
           /\ age' \in [Replicas -> 0..(RenewEvery + Slack)]
<1>1. age' \in [Replicas -> 0..(RenewEvery + Slack)]
    BY Times DEF TypeOK, Become, NotLeader
<1>2. isLeader' \in [Replicas -> BOOLEAN] /\ renewing' \in [Replicas -> BOOLEAN]
    BY Zenon DEF TypeOK, Become, NotLeader
<1> QED
    BY <1>1, <1>2

\* Every step keeps the types; what bounds the age of a wait is that time
\* does not pass while a renewal or a reply is overdue.
LEMMA NextType ==
    ASSUME TypeOK, [Next]_vars
    PROVE  TypeOK'
<1> USE Times DEF TypeOK, Locs, redis, local, world
<1>1. ASSUME NEW i \in Replicas, LoopStep(i)
      PROVE  TypeOK'
  <2>1. CASE KeepLeading(i)
    BY <2>1 DEF KeepLeading
  <2>2. CASE SetNx(i)
    BY <2>2, BecomeType DEF SetNx
  <2>3. CASE FailOpen(i)
    BY <2>3, BecomeType DEF FailOpen, Become
  <2>4. CASE Granted(i)
    BY <2>4, BecomeType DEF Granted, Become
  <2>5. CASE Refused(i)
    <3>1. Become(i) \/ NotLeader(i)
      BY <2>5 DEF Refused
    <3> QED
      BY <2>5, <3>1, BecomeType DEF Refused, Become
  <2>6. CASE FinishWork(i)
    BY <2>6 DEF FinishWork
  <2> QED
    BY <1>1, <2>1, <2>2, <2>3, <2>4, <2>5, <2>6 DEF LoopStep
<1>2. ASSUME NEW i \in Replicas, Renew(i)
      PROVE  TypeOK'
    BY <1>2, BecomeType DEF Renew
<1>3. ASSUME NEW i \in Replicas, Release(i) \/ Crash(i)
      PROVE  TypeOK'
    BY <1>3, BecomeType DEF Release, Crash
<1>4. ASSUME NEW i \in Replicas, SwitchLink(i)
      PROVE  TypeOK'
  <2>1. link' \in [Replicas -> BOOLEAN]
    BY <1>4, Zenon DEF SwitchLink
  <2>2. healthy' \in 0..HealTime
    BY <1>4 DEF SwitchLink
  <2>3. clean' \in BOOLEAN
    BY <1>4 DEF SwitchLink
  <2> QED
    BY <1>4, <2>1, <2>2, <2>3 DEF SwitchLink
<1>5. ASSUME NEW i \in Replicas, RenewerDies(i)
      PROVE  TypeOK'
  <2>1. renewing' \in [Replicas -> BOOLEAN]
    BY <1>5, Zenon DEF RenewerDies
  <2> QED
    BY <1>5, <2>1 DEF RenewerDies
<1>6. ASSUME LoseKey
      PROVE  TypeOK'
  <2>1. healthy' \in 0..HealTime
    BY <1>6 DEF LoseKey
  <2>2. left' \in 0..Ttl
    BY <1>6 DEF LoseKey
  <2>3. clean' \in BOOLEAN
    BY <1>6 DEF LoseKey
  <2> QED
    BY <1>6, <2>1, <2>2, <2>3 DEF LoseKey
<1>7. ASSUME Tick
      PROVE  TypeOK'
  <2>1. age' \in [Replicas -> 0..(RenewEvery + Slack)]
    BY <1>7 DEF Tick, Overdue
  <2> QED
    BY <1>7, <2>1 DEF Tick
<1>8. ASSUME UNCHANGED vars
      PROVE  TypeOK'
    BY <1>8 DEF vars
<1> QED
    BY <1>1, <1>2, <1>3, <1>4, <1>5, <1>6, <1>7, <1>8 DEF Next, Disturb

-----------------------------------------------------------------------------

\* Only one replica owns the key.
LEMMA OneOwner ==
    \A i, j \in Replicas, d, e \in Int : OwnsFor(i, d) /\ OwnsFor(j, e) => i = j
    BY DEF OwnsFor, Holds

LEMMA LoopLease ==
    ASSUME TypeOK, LeaseInv, NEW i \in Replicas, LoopStep(i)
    PROVE  LeaseInv'
<1> USE Times DEF TypeOK, Locs, redis, local, world, LeaseInv, OwnsFor, Holds
<1>1. CASE KeepLeading(i)
    BY <1>1 DEF KeepLeading
<1>2. CASE SetNx(i)
    BY <1>2 DEF SetNx, NotLeader
<1>3. CASE FailOpen(i)
    BY <1>3 DEF FailOpen, Become
<1>4. CASE Granted(i)
    BY <1>4 DEF Granted, Become
<1>5. CASE Refused(i)
    BY <1>5 DEF Refused, Become, NotLeader
<1>6. CASE FinishWork(i)
    BY <1>6 DEF FinishWork
<1> QED
    BY <1>1, <1>2, <1>3, <1>4, <1>5, <1>6 DEF LoopStep

\* Every step keeps LeaseInv.
LEMMA NextLease ==
    ASSUME TypeOK, LeaseInv, [Next]_vars
    PROVE  LeaseInv'
<1> USE Times DEF TypeOK, Locs, redis, local, world, LeaseInv, OwnsFor, Holds
<1>1. ASSUME NEW i \in Replicas, Renew(i)
      PROVE  LeaseInv'
    BY <1>1 DEF Renew, NotLeader
<1>2. ASSUME NEW i \in Replicas, Release(i) \/ Crash(i)
      PROVE  LeaseInv'
    BY <1>2 DEF Release, Crash, NotLeader
<1>3. ASSUME NEW i \in Replicas, SwitchLink(i)
      PROVE  LeaseInv'
    BY <1>3 DEF SwitchLink
<1>4. ASSUME NEW i \in Replicas, RenewerDies(i)
      PROVE  LeaseInv'
    BY <1>4 DEF RenewerDies
<1>5. ASSUME LoseKey
      PROVE  LeaseInv'
    BY <1>5 DEF LoseKey
<1>6. ASSUME Tick
      PROVE  LeaseInv'
    BY <1>6 DEF Tick, Overdue
<1>7. ASSUME UNCHANGED vars
      PROVE  LeaseInv'
    BY <1>7 DEF vars
<1> QED
    BY <1>1, <1>2, <1>3, <1>4, <1>5, <1>6, <1>7, LoopLease DEF Next, Disturb

THEOREM LeaseInvariant == Spec => [](TypeOK /\ LeaseInv)
<1>1. Init => TypeOK /\ LeaseInv
    BY InitType, InitLease
<1>2. TypeOK /\ LeaseInv /\ [Next]_vars => TypeOK' /\ LeaseInv'
    BY NextType, NextLease
<1> QED
    BY <1>1, <1>2, PTL DEF Spec

\* Every variable keeps its type: in particular no renewal and no reply is
\* ever later than Slack allows.
THEOREM TypeCorrect == Spec => []TypeOK
    BY LeaseInvariant, PTL

\* A replica whose renewer is alive a renewal cycle after the last disturbance
\* owns the key, so there is one at most.
LEMMA HealedLeaderOwns ==
    ASSUME TypeOK, LeaseInv, healthy = HealTime, NEW i \in Replicas, renewing[i]
    PROVE  Holds(i)
    BY Times DEF LeaseInv, TypeOK, OwnsFor

\* As long as Redis answers and no renewer dies, two replicas never work on
\* the task at once: leadership checked before an iteration outlives it.
THEOREM WorkExclusiveHolds == Spec => []WorkExclusive
<1>1. TypeOK /\ LeaseInv => WorkExclusive
    BY HealedLeaderOwns DEF WorkExclusive, LeaseInv, Holds
<1> QED
    BY <1>1, LeaseInvariant, PTL

\* One renewal cycle after Redis is back for every replica, the leaders that
\* failed open have been reduced to one.
THEOREM SelfHealsHolds == Spec => []SelfHeals
<1>1. TypeOK /\ LeaseInv => SelfHeals
    BY HealedLeaderOwns DEF SelfHeals, Holds
<1> QED
    BY <1>1, LeaseInvariant, PTL
-----------------------------------------------------------------------------
HeartbeatFacts == INSTANCE HeartbeatChecker_proofs
RollupFacts == INSTANCE Rollup_proofs
ReportFacts == INSTANCE Rollup_proofs WITH
    Monitors <- ReportMonitors, Keep <- [m \in ReportMonitors |-> Keep[m]],
    ReadHours <- ReportReadHours, LastSlot <- ReportLastSlot, MaxLate <- ReportMaxLate,
    MaxFailures <- ReportMaxFailures

\* Each component goes its own way, whichever of them runs: what is proved of a
\* component by itself holds of it in the composition.
LEMMA HeartbeatAlone == LoopsSpec => HeartbeatFacts!Spec
<1>1. LoopsInit => HeartbeatFacts!Init
  BY DEF LoopsInit, Heartbeat!Init, HeartbeatFacts!Init, Heartbeat!SetToSeqs,
         HeartbeatFacts!SetToSeqs, Heartbeat!Cardinality, HeartbeatFacts!Cardinality
<1>2. Heartbeat!Next => HeartbeatFacts!Next
  BY DEF Heartbeat!RemoveAt, HeartbeatFacts!RemoveAt,
         Heartbeat!Next, HeartbeatFacts!Next, Heartbeat!Ping,
         HeartbeatFacts!Ping, Heartbeat!FallDue, HeartbeatFacts!FallDue,
         Heartbeat!Check, HeartbeatFacts!Check, Heartbeat!Fail,
         HeartbeatFacts!Fail, Heartbeat!StartTick, HeartbeatFacts!StartTick,
         Heartbeat!Look, HeartbeatFacts!Look, Heartbeat!Insert,
         HeartbeatFacts!Insert, Heartbeat!Update, HeartbeatFacts!Update,
         Heartbeat!Commit, HeartbeatFacts!Commit, Heartbeat!Job,
         HeartbeatFacts!Job, Heartbeat!At, HeartbeatFacts!At, Heartbeat!Others,
         HeartbeatFacts!Others, Heartbeat!Goto, HeartbeatFacts!Goto,
         Heartbeat!AfterJob, HeartbeatFacts!AfterJob, Heartbeat!AbortTick,
         HeartbeatFacts!AbortTick, Heartbeat!database, HeartbeatFacts!database
<1>3. [LoopsNext]_loopVars => [HeartbeatFacts!Next]_HeartbeatFacts!vars
  BY <1>2 DEF LoopsNext, OnlyLeader, OnlyHeartbeat, OnlyRollup, OnlyReports, loopVars,
              heartbeatVars, HeartbeatFacts!vars
<1> QED BY <1>1, <1>3, PTL DEF LoopsSpec, HeartbeatFacts!Spec

\* The builder and the purge run alone or beside a report, each with constants of
\* their own.
RollupRuns == component # "reports"
ReportsRun == component # "rollup"

SomeComponent == component \in {"leader", "heartbeat", "rollup", "reports"}

LEMMA RollupAlone == LoopsSpec /\ []RollupRuns => RollupFacts!Spec
<1>1. LoopsInit => RollupFacts!Init
  BY DEF LoopsInit, Reports!ReportInit, Reports!Init, RollupFacts!Init
<1>2. Rollups!Next => RollupFacts!Next
  BY DEF Rollups!Next, RollupFacts!Next, Rollups!Arrive, RollupFacts!Arrive,
         Rollups!Advance, RollupFacts!Advance, Rollups!Build,
         RollupFacts!Build, Rollups!StartBuild, RollupFacts!StartBuild,
         Rollups!FoldRange, RollupFacts!FoldRange, Rollups!Upsert,
         RollupFacts!Upsert, Rollups!BuildFails, RollupFacts!BuildFails,
         Rollups!StartPurge, RollupFacts!StartPurge, Rollups!DeleteRows,
         RollupFacts!DeleteRows, Rollups!Slots, RollupFacts!Slots,
         Rollups!Results, RollupFacts!Results, Rollups!HourOf,
         RollupFacts!HourOf, Rollups!Hour, RollupFacts!Hour,
         Rollups!SameBucket, RollupFacts!SameBucket, Rollups!Lesser,
         RollupFacts!Lesser, Rollups!Frontier, RollupFacts!Frontier,
         Rollups!build, RollupFacts!build, Rollups!purge, RollupFacts!purge,
         Rollups!Resume, RollupFacts!Resume, Rollups!Pending,
         RollupFacts!Pending, Rollups!FirstHour, RollupFacts!FirstHour,
         Rollups!EndBuild, RollupFacts!EndBuild, Rollups!ChunkEnd,
         RollupFacts!ChunkEnd, Rollups!Cutoff, RollupFacts!Cutoff,
         Rollups!Longest, RollupFacts!Longest, Rollups!PartitionEnd,
         RollupFacts!PartitionEnd, Rollups!Min, RollupFacts!Min, Rollups!Max,
         RollupFacts!Max, Rollups!Cardinality, RollupFacts!Cardinality
<1>3. RollupRuns /\ [LoopsNext]_loopVars => [RollupFacts!Next]_RollupFacts!vars
  BY <1>2 DEF RollupRuns, LoopsNext, OnlyLeader, OnlyHeartbeat, OnlyRollup, OnlyReports, loopVars,
              rollupVars, RollupFacts!vars
<1> QED BY <1>1, <1>3, PTL DEF LoopsSpec, RollupFacts!Spec

LEMMA ReportsAlone == LoopsSpec /\ []ReportsRun => ReportFacts!ReportSpec
<1>1. LoopsInit => ReportFacts!ReportInit
  BY DEF LoopsInit, Reports!ReportInit, Reports!Init, ReportFacts!ReportInit, ReportFacts!Init
<1>2. Reports!ReportNext => ReportFacts!ReportNext
  BY DEF Reports!ReportNext, ReportFacts!ReportNext, Reports!BeginReport,
         ReportFacts!BeginReport, Reports!ReadRollups, ReportFacts!ReadRollups,
         Reports!ReadHead, ReportFacts!ReadHead, Reports!ReadTail,
         ReportFacts!ReadTail, Reports!RollupWindow, ReportFacts!RollupWindow,
         Reports!CeilHour, ReportFacts!CeilHour, Reports!HeadGap,
         ReportFacts!HeadGap, Reports!TailGap, ReportFacts!TailGap,
         Reports!InWindow, ReportFacts!InWindow, Reports!vars,
         ReportFacts!vars, Reports!report, ReportFacts!report, Reports!Next,
         ReportFacts!Next, Reports!Arrive, ReportFacts!Arrive, Reports!Advance,
         ReportFacts!Advance, Reports!Build, ReportFacts!Build,
         Reports!StartBuild, ReportFacts!StartBuild, Reports!FoldRange,
         ReportFacts!FoldRange, Reports!Upsert, ReportFacts!Upsert,
         Reports!BuildFails, ReportFacts!BuildFails, Reports!StartPurge,
         ReportFacts!StartPurge, Reports!DeleteRows, ReportFacts!DeleteRows,
         Reports!Slots, ReportFacts!Slots, Reports!Results,
         ReportFacts!Results, Reports!HourOf, ReportFacts!HourOf, Reports!Hour,
         ReportFacts!Hour, Reports!SameBucket, ReportFacts!SameBucket,
         Reports!Lesser, ReportFacts!Lesser, Reports!Frontier,
         ReportFacts!Frontier, Reports!build, ReportFacts!build, Reports!purge,
         ReportFacts!purge, Reports!Resume, ReportFacts!Resume,
         Reports!Pending, ReportFacts!Pending, Reports!FirstHour,
         ReportFacts!FirstHour, Reports!EndBuild, ReportFacts!EndBuild,
         Reports!ChunkEnd, ReportFacts!ChunkEnd, Reports!Cutoff,
         ReportFacts!Cutoff, Reports!Longest, ReportFacts!Longest,
         Reports!PartitionEnd, ReportFacts!PartitionEnd, Reports!Min,
         ReportFacts!Min, Reports!Max, ReportFacts!Max, Reports!Cardinality,
         ReportFacts!Cardinality
<1>3. ReportsRun /\ [LoopsNext]_loopVars => [ReportFacts!ReportNext]_ReportFacts!reportVars
  BY <1>2 DEF ReportsRun, LoopsNext, OnlyLeader, OnlyHeartbeat, OnlyRollup, OnlyReports, loopVars,
              rollupVars, report, ReportFacts!reportVars, ReportFacts!report, ReportFacts!vars
<1> QED BY <1>1, <1>3, PTL DEF LoopsSpec, ReportFacts!ReportSpec

\* The component that runs is the same for ever.
LEMMA ComponentStays ==
    /\ LoopsSpec => []RollupRuns \/ [](~ RollupRuns)
    /\ LoopsSpec => []ReportsRun \/ [](~ ReportsRun)
<1>1. [LoopsNext]_loopVars => component' = component
  BY DEF LoopsNext, OnlyLeader, OnlyHeartbeat, OnlyRollup, OnlyReports, loopVars
<1>2. /\ RollupRuns /\ [LoopsNext]_loopVars => RollupRuns'
      /\ ~ RollupRuns /\ [LoopsNext]_loopVars => ~ RollupRuns'
      /\ ReportsRun /\ [LoopsNext]_loopVars => ReportsRun'
      /\ ~ ReportsRun /\ [LoopsNext]_loopVars => ~ ReportsRun'
  BY <1>1 DEF RollupRuns, ReportsRun
<1> QED BY <1>2, PTL DEF LoopsSpec

\* The assumptions on the constants, as the proofs of the components name them.
LEMMA ConstantsAlike ==
    ASSUME LoopsConstants
    PROVE  /\ HeartbeatFacts!HeartbeatConstants
           /\ RollupFacts!RollupConstants /\ ReportFacts!RollupConstants
BY DEF LoopsConstants, Heartbeat!HeartbeatConstants, HeartbeatFacts!HeartbeatConstants,
       Heartbeat!IsFiniteSet, HeartbeatFacts!IsFiniteSet,
       Rollups!RollupConstants, RollupFacts!RollupConstants,
       Reports!RollupConstants, ReportFacts!RollupConstants

\* Two overlapping ticks never page one outage twice, as long as nothing fails
\* (check_heartbeats, _check_one).
THEOREM HeartbeatPagesOnce == LoopsSpec => []OutagePagedOnce
<1>1. HeartbeatFacts!Spec => []HeartbeatFacts!OutagePagedOnce
  BY HeartbeatFacts!PagedOnceHolds
<1>2. HeartbeatFacts!OutagePagedOnce => OutagePagedOnce
  BY DEF OutagePagedOnce, Heartbeat!OutagePagedOnce, HeartbeatFacts!OutagePagedOnce
<1> QED BY <1>1, <1>2, HeartbeatAlone, PTL

\* Every result that arrived within its hour and lies below the frontier is in its
\* bucket, which stats.py and the purge rely on (rollup_boundary).
THEOREM FrontierStaysTrue == ASSUME LoopsConstants PROVE LoopsSpec => []FrontierTrue
<1>1. RollupFacts!Spec => []RollupFacts!FrontierTrue
  BY ConstantsAlike, RollupFacts!FrontierHolds
<1>2. RollupFacts!FrontierTrue => FrontierTrue
  BY DEF FrontierTrue, Rollups!FrontierTrue, RollupFacts!FrontierTrue,
         Rollups!Frontier, RollupFacts!Frontier, Rollups!Hour, RollupFacts!Hour,
         Rollups!HourOf, RollupFacts!HourOf, Rollups!Max, RollupFacts!Max
<1>3. ~ RollupRuns => FrontierTrue
  BY DEF FrontierTrue, RollupRuns
<1> QED BY <1>1, <1>2, <1>3, ComponentStays, RollupAlone, PTL

\* Retention deletes only what is due for its monitor, and with a floor only what is
\* folded or arrived late (purge_old_results, _purge_partitioned_table), for any
\* retention below a bound.
THEOREM PurgeSparesTheRest ==
    ASSUME LoopsConstants, NEW n \in Nat, \A m \in Monitors \cup ReportMonitors : Keep[m] <= n
    PROVE  LoopsSpec => PurgeSpares
<1>1. RollupFacts!Spec => RollupFacts!PurgedWereFolded /\ RollupFacts!KeepsWhatWasAsked
  BY ConstantsAlike, RollupFacts!PurgeDeletesOnlyDue DEF RollupFacts!PurgeSpares
<1>2. ReportFacts!Spec => ReportFacts!PurgedWereFolded /\ ReportFacts!KeepsWhatWasAsked
  <2>1. \A m \in ReportMonitors : [k \in ReportMonitors |-> Keep[k]][m] <= n
    OBVIOUS
  <2> QED BY <2>1, ConstantsAlike, ReportFacts!PurgeDeletesOnlyDue DEF ReportFacts!PurgeSpares
<1>3. ReportFacts!ReportSpec => ReportFacts!Spec
  <2>1. ReportFacts!ReportInit => ReportFacts!Init
    BY DEF ReportFacts!ReportInit
  <2>2. [ReportFacts!ReportNext]_ReportFacts!reportVars => [ReportFacts!Next]_ReportFacts!vars
    BY DEF ReportFacts!ReportNext, ReportFacts!BeginReport, ReportFacts!ReadRollups,
           ReportFacts!ReadHead, ReportFacts!ReadTail, ReportFacts!reportVars
  <2> QED BY <2>1, <2>2, PTL DEF ReportFacts!ReportSpec, ReportFacts!Spec
<1>4. ReportFacts!Spec => []ReportFacts!TypeOK
  BY ConstantsAlike, ReportFacts!RollupTypes
<1>5. RollupFacts!PurgedWereFolded => Rollups!PurgedWereFolded
  <2>1. [{floor, floor'} # {0} => raw \ raw' \subseteq late \cup folded]_RollupFacts!vars
        => [{floor, floor'} # {0} => raw \ raw' \subseteq late \cup folded]_Rollups!vars
    BY DEF RollupFacts!vars, Rollups!vars
  <2> QED BY <2>1, PTL DEF RollupFacts!PurgedWereFolded, Rollups!PurgedWereFolded
<1>6. RollupFacts!KeepsWhatWasAsked => Rollups!KeepsWhatWasAsked
  <2>1. [\A r \in raw \ raw' : r[2] + Keep[r[1]] < now]_RollupFacts!vars
        => [\A r \in raw \ raw' : r[2] + Keep[r[1]] < now]_Rollups!vars
    BY DEF RollupFacts!vars, Rollups!vars
  <2> QED BY <2>1, PTL DEF RollupFacts!KeepsWhatWasAsked, Rollups!KeepsWhatWasAsked
<1>7. ReportFacts!PurgedWereFolded => Rollups!PurgedWereFolded
  <2>1. [{floor, floor'} # {0} => raw \ raw' \subseteq late \cup folded]_ReportFacts!vars
        => [{floor, floor'} # {0} => raw \ raw' \subseteq late \cup folded]_Rollups!vars
    BY DEF ReportFacts!vars, Rollups!vars
  <2> QED BY <2>1, PTL DEF ReportFacts!PurgedWereFolded, Rollups!PurgedWereFolded
\* The monitors of the reports have the retention they have elsewhere.
<1>8. []ReportFacts!TypeOK /\ ReportFacts!KeepsWhatWasAsked => Rollups!KeepsWhatWasAsked
  <2>1. /\ ReportFacts!TypeOK
        /\ [\A r \in raw \ raw' :
               r[2] + [m \in ReportMonitors |-> Keep[m]][r[1]] < now]_ReportFacts!vars
        => [\A r \in raw \ raw' : r[2] + Keep[r[1]] < now]_Rollups!vars
    <3>1. ReportFacts!TypeOK => \A r \in raw : r[1] \in ReportMonitors
      BY DEF ReportFacts!TypeOK, ReportFacts!Results
    <3>2. ReportFacts!TypeOK =>
             \A r \in raw : [m \in ReportMonitors |-> Keep[m]][r[1]] = Keep[r[1]]
      BY <3>1
    <3> QED BY <3>2 DEF ReportFacts!vars, Rollups!vars
  <2> QED BY <2>1, PTL DEF ReportFacts!KeepsWhatWasAsked, Rollups!KeepsWhatWasAsked
<1>9. ~ ReportsRun => RollupRuns
  BY DEF ReportsRun, RollupRuns
<1>10. LoopsSpec => Rollups!PurgedWereFolded
  BY <1>1, <1>2, <1>3, <1>5, <1>7, <1>9, ComponentStays, RollupAlone, ReportsAlone, PTL
<1>11. LoopsSpec => Rollups!KeepsWhatWasAsked
  BY <1>1, <1>2, <1>3, <1>4, <1>6, <1>8, <1>9, ComponentStays, RollupAlone, ReportsAlone, PTL
<1> QED BY <1>10, <1>11 DEF PurgeSpares, Rollups!PurgeSpares

\* A report counts every result in its window that was stored in time and not purged
\* meanwhile, and none twice, whatever the builder and the purge do between its
\* queries (compute_uptime_in_range), for any retention below a bound.
THEOREM ReportsCountAll ==
    ASSUME LoopsConstants, NEW n \in Nat, \A m \in ReportMonitors : Keep[m] <= n
    PROVE  LoopsSpec => []ReportWhole
<1>1. ReportFacts!ReportSpec => []ReportFacts!ReportWhole
  <2>1. \A m \in ReportMonitors : [k \in ReportMonitors |-> Keep[k]][m] <= n
    OBVIOUS
  <2> QED BY <2>1, ConstantsAlike, ReportFacts!ReportCountsAll
<1>2. ReportFacts!ReportWhole => ReportWhole
  BY DEF ReportWhole, Reports!ReportWhole, ReportFacts!ReportWhole,
         Reports!InWindow, ReportFacts!InWindow
<1>3. ~ ReportsRun => ReportWhole
  BY DEF ReportWhole, ReportsRun
<1> QED BY <1>1, <1>2, <1>3, ComponentStays, ReportsAlone, PTL

\* Every component keeps its types: no renewal is later than Slack allows, a failed
\* tick costs one unanswered page, and a report reads hours that exist.
THEOREM LoopsTypes ==
    ASSUME LoopsConstants, NEW n \in Nat, \A m \in ReportMonitors : Keep[m] <= n,
           Components \subseteq {"leader", "heartbeat", "rollup", "reports"}
    PROVE  LoopsSpec => []LoopsTypeOK
<1>1. LoopsSpec => Spec
  <2>1. LoopsInit => Init
    BY DEF LoopsInit
  <2>2. [LoopsNext]_loopVars => [Next]_vars
    BY DEF LoopsNext, OnlyLeader, OnlyHeartbeat, OnlyRollup, OnlyReports, loopVars
  <2> QED BY <2>1, <2>2, PTL DEF LoopsSpec, Spec
<1>2. HeartbeatFacts!Spec => []HeartbeatFacts!TypeOK
  BY ConstantsAlike, HeartbeatFacts!HeartbeatTypes
<1>3. RollupFacts!Spec => []RollupFacts!TypeOK
  BY ConstantsAlike, RollupFacts!RollupTypes
<1>4. ReportFacts!ReportSpec => []ReportFacts!ReportTypeOK
  <2>1. \A m \in ReportMonitors : [k \in ReportMonitors |-> Keep[k]][m] <= n
    OBVIOUS
  <2> QED BY <2>1, ConstantsAlike, ReportFacts!ReportTypes
<1>5. HeartbeatFacts!TypeOK => Heartbeat!TypeOK
  BY DEF HeartbeatFacts!TypeOK, Heartbeat!TypeOK, HeartbeatFacts!Steps, Heartbeat!Steps,
         Heartbeat!SetToSeqs, HeartbeatFacts!SetToSeqs, Heartbeat!Cardinality,
         HeartbeatFacts!Cardinality
<1>6. RollupFacts!TypeOK => Rollups!TypeOK
  BY DEF RollupFacts!TypeOK, Rollups!TypeOK, RollupFacts!Results, Rollups!Results,
         RollupFacts!Slots, Rollups!Slots
<1>7. ReportFacts!ReportTypeOK => Reports!ReportTypeOK
  BY DEF ReportFacts!ReportTypeOK, Reports!ReportTypeOK, ReportFacts!Results, Reports!Results,
         ReportFacts!Slots, Reports!Slots
<1>8. LoopsSpec => []SomeComponent
  <2>1. LoopsInit => SomeComponent
    BY DEF LoopsInit, SomeComponent
  <2>2. SomeComponent /\ [LoopsNext]_loopVars => SomeComponent'
    BY DEF SomeComponent, LoopsNext, OnlyLeader, OnlyHeartbeat, OnlyRollup, OnlyReports,
           loopVars
  <2> QED BY <2>1, <2>2, PTL DEF LoopsSpec
<1>9. /\ SomeComponent /\ TypeOK /\ Heartbeat!TypeOK
      /\ RollupRuns => Rollups!TypeOK
      /\ ReportsRun => Reports!ReportTypeOK
      => LoopsTypeOK
  BY DEF LoopsTypeOK, SomeComponent, RollupRuns, ReportsRun
<1>10. LoopsSpec => [](RollupRuns => Rollups!TypeOK)
  BY <1>3, <1>6, ComponentStays, RollupAlone, PTL
<1>11. LoopsSpec => [](ReportsRun => Reports!ReportTypeOK)
  BY <1>4, <1>7, ComponentStays, ReportsAlone, PTL
<1> QED BY <1>1, <1>2, <1>5, <1>8, <1>9, <1>10, <1>11, HeartbeatAlone, TypeCorrect, PTL
=============================================================================
