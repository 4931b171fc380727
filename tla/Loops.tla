------------------------------- MODULE Loops -------------------------------
(***************************************************************************)
(* The loops of the API server that hold no state of an incident's own:    *)
(* leader election, the heartbeat checker, and the rollup builder with the *)
(* purge, alone and beside a report that reads what they write.  They      *)
(* share nothing, so a behaviour is one of a single component of           *)
(* Components, and the variables of the others keep their initial values.  *)
(***************************************************************************)
EXTENDS LeaderLock

CONSTANTS
    Components,
    Jobs, Checkers, MaxErrors,
    Monitors, Keep, PartitionSlots, MaxBuckets, RecomputeHours, ReadHours,
    LastSlot, MaxResults, MaxLate, MaxFailures,
    ReportMonitors, ReportReadHours, ReportLastSlot, ReportMaxLate, ReportMaxFailures

VARIABLES
    component,
    cap, order, silent, open, unanswered, todo, step, errors,
    now, raw, folded, late, builder, from, to, rows, purger, floor, failures, arrived,
    reading, start, end, hours, byRollup, byRaw, owed

Heartbeat == INSTANCE HeartbeatChecker
Rollups == INSTANCE Rollup
Reports == INSTANCE UptimeReport WITH
    Monitors <- ReportMonitors, Keep <- [m \in ReportMonitors |-> Keep[m]],
    ReadHours <- ReportReadHours, LastSlot <- ReportLastSlot, MaxLate <- ReportMaxLate,
    MaxFailures <- ReportMaxFailures

LoopsConstants ==
    Heartbeat!HeartbeatConstants /\ Rollups!RollupConstants /\ Reports!RollupConstants

heartbeatVars == <<cap, order, silent, open, unanswered, todo, step, errors>>
rollupVars == <<now, raw, folded, late, builder, from, to, rows, purger, floor,
                failures, arrived>>
report == <<reading, start, end, hours, byRollup, byRaw, owed>>
loopVars == <<component, vars, heartbeatVars, rollupVars, report>>

\* An order like any other, for the components that look at none.
FirstOrder == CHOOSE s \in Heartbeat!SetToSeqs(Jobs) : TRUE

LoopsInit ==
    /\ component \in Components
    /\ Init /\ Heartbeat!Init /\ Reports!ReportInit
    /\ component # "heartbeat" => cap = 1 /\ order = FirstOrder

\* Only this component runs.
OnlyLeader ==
    component = "leader" /\ UNCHANGED <<component, heartbeatVars, rollupVars, report>>
OnlyHeartbeat ==
    component = "heartbeat" /\ UNCHANGED <<component, vars, rollupVars, report>>
OnlyRollup ==
    component = "rollup" /\ UNCHANGED <<component, vars, heartbeatVars, report>>
OnlyReports ==
    component = "reports" /\ UNCHANGED <<component, vars, heartbeatVars>>

LoopsNext ==
    \/ OnlyLeader /\ Next
    \/ OnlyHeartbeat /\ Heartbeat!Next
    \/ OnlyRollup /\ Rollups!Next
    \/ OnlyReports /\ Reports!ReportNext

LoopsSpec == LoopsInit /\ [][LoopsNext]_loopVars
-----------------------------------------------------------------------------
\* Every component's type invariant.
LoopsTypeOK ==
    CASE component = "leader"    -> TypeOK
      [] component = "heartbeat" -> Heartbeat!TypeOK
      [] component = "rollup"    -> Rollups!TypeOK
      [] component = "reports"   -> Reports!ReportTypeOK

\* WorkGoesOn of LeaderLock.
LeaderWorkGoesOn ==
    <>[][~(Disturb \/ LoseKey)]_vars =>
        []<>(component = "leader" => \E i \in Replicas : loop[i] = "working")

\* That of HeartbeatChecker.
OutagePagedOnce == component = "heartbeat" => Heartbeat!OutagePagedOnce

\* Those of Rollup.
FrontierTrue == component = "rollup" => Rollups!FrontierTrue
PurgeSpares == Rollups!PurgeSpares
CatchesUp == Rollups!CatchesUp
GapCrossed == Rollups!GapCrossed

\* That of UptimeReport.
ReportWhole == component = "reports" => Reports!ReportWhole
=============================================================================
