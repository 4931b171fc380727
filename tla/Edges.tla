------------------------------- MODULE Edges -------------------------------
(***************************************************************************)
(* What crosses the edges of the server: the probe that reports and is     *)
(* told what to check, the inventory that runners push and users review,   *)
(* the configuration that is exported and imported, the metrics that are   *)
(* pushed, and the answer to "who is on call?".                            *)
(* They share nothing, so a behaviour is one of a single component of      *)
(* Components, and the variables of the others keep their initial values.  *)
(***************************************************************************)
EXTENDS ProbeReporter, FiniteSets

CONSTANTS
    Components,
    Runners, Targets, Natures, Reviewers, FullView, MaxChanges, MaxReviews,
    Groups, Monitors, Channels, Settings, Default, MaxRules, MaxEdits,
    Probes, Nobody, Versions, MaxConfigEdits, MaxTriggers, MaxFaults,
    DayLength, Saving, Periods, MaxPeople, Anchors, Stations, LastSlot, MaxOverrides,
    Requests, Series, Batches, MaxPoints, MaxSeries, LastMinute, MaxPushes

VARIABLES
    component,
    row, monitors, service, view, push, seen, known, plan, review, changes, reviews,
    db, doc, edits,
    config, key, elected, fresh, request, answer, jobs, scans, up, asked, excused,
    configEdits, triggers, faults,
    slot, spring, autumn, handoff, startAt, period, people, enabled, overrides, created,
    turn, daysLeft,
    minute, used, registry, points, stored, ingests, spent, pushes, broken

Inventory == INSTANCE Discovery
Sync == INSTANCE ConfigSync
Heartbeats == INSTANCE ProbeSync WITH edits <- configEdits, MaxEdits <- MaxConfigEdits
Duty == INSTANCE OnCall WITH now <- slot
Metrics == INSTANCE MetricIngest WITH request <- ingests, faults <- broken

discoveryVars == <<row, monitors, service, view, push, seen, known, plan, review,
                   changes, reviews>>
configVars == <<db, doc, edits>>
syncVars == <<config, key, elected, fresh, request, answer, jobs, scans, up, asked,
              excused, configEdits, triggers, faults>>
dutyVars == <<slot, spring, autumn, handoff, startAt, period, people, enabled, overrides,
              created, turn, daysLeft>>
metricVars == <<minute, used, registry, points, stored, ingests, spent, pushes, broken>>
edgeVars == <<component, vars, discoveryVars, configVars, syncVars,
              dutyVars, metricVars>>

\* A schedule like any other, for the components that look at none.
SomeSchedule ==
    LET some == CHOOSE s \in [spring : Stations, autumn : Stations, handoff : 0 .. DayLength - 1,
                              startAt : Anchors, period : Periods, people : 0 .. MaxPeople] :
                    s.spring < s.autumn
    IN  /\ spring = some.spring /\ autumn = some.autumn /\ handoff = some.handoff
        /\ startAt = some.startAt /\ period = some.period /\ people = some.people

EdgesConstants ==
    /\ Components \subseteq {"reporter", "discovery", "config", "sync", "oncall", "metrics"}
    /\ ReporterConstants /\ Inventory!InventoryConstants /\ Sync!ConfigConstants
    /\ Heartbeats!SyncConstants /\ Duty!DutyConstants /\ Metrics!IngestConstants

EdgesInit ==
    /\ component \in Components
    /\ Init /\ Inventory!Init /\ Sync!Init /\ Heartbeats!Init
    /\ Duty!Init /\ Metrics!Init
    /\ component # "discovery" => monitors = [t \in Targets |-> 0]
    /\ component # "oncall" => SomeSchedule

\* Only this component runs.
OnlyReporter ==
    /\ component = "reporter"
    /\ UNCHANGED <<component, discoveryVars, configVars, syncVars, dutyVars,
                   metricVars>>
OnlyDiscovery ==
    /\ component = "discovery"
    /\ UNCHANGED <<component, vars, configVars, syncVars, dutyVars,
                   metricVars>>
OnlyConfig ==
    /\ component = "config"
    /\ UNCHANGED <<component, vars, discoveryVars, syncVars, dutyVars,
                   metricVars>>
OnlySync ==
    /\ component = "sync"
    /\ UNCHANGED <<component, vars, discoveryVars, configVars, dutyVars,
                   metricVars>>
OnlyDuty ==
    /\ component = "oncall"
    /\ UNCHANGED <<component, vars, discoveryVars, configVars, syncVars, metricVars>>
OnlyMetrics ==
    /\ component = "metrics"
    /\ UNCHANGED <<component, vars, discoveryVars, configVars, syncVars, dutyVars>>

EdgesNext ==
    \/ OnlyReporter /\ Next
    \/ OnlyDiscovery /\ Inventory!Next
    \/ OnlyConfig /\ Sync!Next
    \/ OnlySync /\ Heartbeats!Next
    \/ OnlyDuty /\ Duty!Next
    \/ OnlyMetrics /\ Metrics!Next

EdgesSpec == EdgesInit /\ [][EdgesNext]_edgeVars
-----------------------------------------------------------------------------
\* Every component's type invariant.
EdgesTypeOK ==
    CASE component = "reporter"  -> TypeOK
      [] component = "discovery" -> Inventory!TypeOK
      [] component = "config"    -> Sync!TypeOK
      [] component = "sync"      -> Heartbeats!TypeOK
      [] component = "oncall"    -> Duty!TypeOK
      [] component = "metrics"   -> Metrics!TypeOK

\* Those of Discovery.
InventoryAgrees == component = "discovery" => Inventory!InventoryAgrees
RefusalKept == Inventory!RefusalKept
InventorySettles == Inventory!InventorySettles

\* Those of ConfigSync.
ImportDependable == component = "config" => Sync!ImportDependable
ReimportChangesNothing == component = "config" => Sync!ReimportChangesNothing

\* Those of ProbeSync.
RequestKept == component = "sync" => Heartbeats!RequestKept
FleetSettles == []<>(component = "sync") => Heartbeats!FleetSettles

\* That of OnCall.
RotationAgrees == component = "oncall" => Duty!RotationAgrees

\* Those of MetricIngest.
LimitsHeld == component = "metrics" => Metrics!LimitsHeld
NoOrphanPoints == component = "metrics" => Metrics!NoOrphanPoints
=============================================================================
