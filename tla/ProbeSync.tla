------------------------------ MODULE ProbeSync ------------------------------
(***************************************************************************)
(* How probes learn what to run: the heartbeat endpoint (api/v1/probes.py),*)
(* sync_monitors (probe scheduler.py), the trigger-now keys, and the       *)
(* election of the one member of a group that scans for a discovery source *)
(* (services/discovery_election.py).                                       *)
(*                                                                         *)
(* A heartbeat reads the monitors and the keys, then deletes the keys it   *)
(* saw, then answers; the answer may get lost.  A monitor's configuration  *)
(* is a version number, 0 when it is disabled.                             *)
(***************************************************************************)
EXTENDS Naturals, FiniteSets

CONSTANTS
    Probes, Nobody,   \* the numbers of the members of the group, and none
    Monitors,
    Versions,
    MaxEdits,         \* bound: edits of monitors
    MaxTriggers,      \* bound: trigger-check requests
    MaxFaults         \* bound: lost answers, expired keys, probes that end or are cut off

\* Probes are compared by number.
SyncConstants ==
    /\ Probes \subseteq Nat
    /\ MaxEdits \in Nat /\ MaxTriggers \in Nat /\ MaxFaults \in Nat

VARIABLES
    config,     \* [Monitors -> 0 or a version]
    key,        \* [Monitors -> BOOLEAN] whatisup:trigger_check
    elected,    \* elected_probe_id
    fresh,      \* probes whose last_seen_at is recent
    request,    \* [Probes -> "none", "read" or "answered"] the heartbeat under way
    answer,     \* [Probes -> [jobs, now, scan]] what it will answer
    jobs,       \* [Probes -> [Monitors -> version]] scheduled checks
    scans,      \* probes that have the source scheduled
    up,         \* probes that run
    asked,      \* monitors asked for, and not checked at once since
    excused,    \* those of them whose request met a fault
    edits, triggers, faults

vars == <<config, key, elected, fresh, request, answer, jobs, scans, up, asked,
          excused, edits, triggers, faults>>
bounds == <<edits, triggers, faults>>

Off == [m \in Monitors |-> 0]
NoAnswer == [jobs |-> Off, now |-> {}, scan |-> FALSE]

Init ==
    /\ config \in [Monitors -> Versions]
    /\ key = [m \in Monitors |-> FALSE]
    /\ elected = Nobody /\ fresh = {}
    /\ request = [p \in Probes |-> "none"] /\ answer = [p \in Probes |-> NoAnswer]
    /\ jobs = [p \in Probes |-> Off] /\ scans = {} /\ up = Probes
    /\ asked = {} /\ excused = {}
    /\ edits = 0 /\ triggers = 0 /\ faults = 0

Edit(m) ==
    /\ edits < MaxEdits
    /\ \E v \in (Versions \cup {0}) \ {config[m]} : config' = [config EXCEPT ![m] = v]
    /\ edits' = edits + 1
    /\ UNCHANGED <<key, elected, fresh, request, answer, jobs, scans, up, asked,
                   excused, triggers, faults>>

\* trigger_check.
Trigger(m) ==
    /\ triggers < MaxTriggers
    /\ key' = [key EXCEPT ![m] = TRUE]
    /\ asked' = asked \cup {m} /\ excused' = excused \ {m}
    /\ triggers' = triggers + 1
    /\ UNCHANGED <<config, elected, fresh, request, answer, jobs, scans, up, edits, faults>>

\* The key's 120 s are over.
KeyExpires(m) ==
    /\ key[m] /\ faults < MaxFaults
    /\ key' = [key EXCEPT ![m] = FALSE]
    /\ excused' = excused \cup {m}
    /\ faults' = faults + 1
    /\ UNCHANGED <<config, elected, fresh, request, answer, jobs, scans, up, asked,
                   edits, triggers>>
-----------------------------------------------------------------------------
\* heartbeat, up to the MGET: the enabled monitors and the keys of those.
Read(p) ==
    /\ p \in up /\ request[p] = "none"
    /\ request' = [request EXCEPT ![p] = "read"]
    /\ answer' = [answer EXCEPT ![p] =
                     [jobs |-> config, scan |-> FALSE,
                      now |-> {m \in Monitors : key[m] /\ config[m] # 0}]]
    /\ UNCHANGED <<config, key, elected, fresh, jobs, scans, up, asked, excused, bounds>>

\* Mutant: every key is deleted.
RespondClearing(p) ==
    /\ request[p] = "read"
    /\ key' = [m \in Monitors |-> FALSE]
    /\ answer' = [answer EXCEPT ![p].scan = (elected = p)]
    /\ request' = [request EXCEPT ![p] = "answered"]
    /\ fresh' = fresh \cup {p}
    /\ UNCHANGED <<config, elected, jobs, scans, up, asked, excused, bounds>>

\* The DELETE of the keys it saw, the sources of the probe, and the commit of
\* last_seen_at.
Respond(p) ==
    /\ request[p] = "read"
    /\ key' = [m \in Monitors |-> key[m] /\ m \notin answer[p].now]
    /\ answer' = [answer EXCEPT ![p].scan = (elected = p)]
    /\ request' = [request EXCEPT ![p] = "answered"]
    /\ fresh' = fresh \cup {p}
    /\ UNCHANGED <<config, elected, jobs, scans, up, asked, excused, bounds>>

Forget(p) ==
    /\ request' = [request EXCEPT ![p] = "none"]
    /\ answer' = [answer EXCEPT ![p] = NoAnswer]

\* Reporter.heartbeat returns None: the jobs stay as they are.
AnswerLost(p) ==
    /\ request[p] = "answered" /\ faults < MaxFaults
    /\ Forget(p)
    /\ excused' = excused \cup answer[p].now
    /\ faults' = faults + 1
    /\ UNCHANGED <<config, key, elected, fresh, jobs, scans, up, asked, edits, triggers>>

\* Mutant: the source of a probe that lost the election stays scheduled.
SyncMonitorsScanning(p) ==
    /\ request[p] = "answered"
    /\ jobs' = [jobs EXCEPT ![p] = answer[p].jobs]
    /\ scans' = IF answer[p].scan THEN scans \cup {p} ELSE scans
    /\ asked' = asked \ answer[p].now
    /\ Forget(p)
    /\ UNCHANGED <<config, key, elected, fresh, up, excused, bounds>>

\* sync_monitors: jobs are removed, added and changed to match the answer, and
\* the monitors flagged trigger_now are checked at once.
SyncMonitors(p) ==
    /\ request[p] = "answered"
    /\ jobs' = [jobs EXCEPT ![p] = answer[p].jobs]
    /\ scans' = IF answer[p].scan THEN scans \cup {p} ELSE scans \ {p}
    /\ asked' = asked \ answer[p].now
    /\ Forget(p)
    /\ UNCHANGED <<config, key, elected, fresh, up, excused, bounds>>

\* The probe ends: a heartbeat under way is served all the same, or not at all.
Crash(p) ==
    /\ p \in up /\ faults < MaxFaults /\ request[p] # "read"
    /\ up' = up \ {p}
    /\ jobs' = [jobs EXCEPT ![p] = Off] /\ scans' = scans \ {p}
    /\ excused' = excused \cup answer[p].now
    /\ Forget(p)
    /\ faults' = faults + 1
    /\ UNCHANGED <<config, key, elected, fresh, asked, edits, triggers>>

Start(p) ==
    /\ p \notin up
    /\ up' = up \cup {p}
    /\ UNCHANGED <<config, key, elected, fresh, request, answer, jobs, scans, asked,
                   excused, bounds>>

\* Interval and grace pass without a heartbeat of p, which is down or cut off.
Lapse(p) ==
    /\ p \in fresh
    /\ fresh' = fresh \ {p}
    /\ \/ p \notin up /\ UNCHANGED faults
       \/ p \in up /\ faults < MaxFaults /\ faults' = faults + 1
    /\ UNCHANGED <<config, key, elected, request, answer, jobs, scans, up, asked,
                   excused, edits, triggers>>

\* elect_for_source: the elected probe stays as long as it is a candidate, else
\* the first candidate is taken, if there is one.
Elected == CASE elected \in fresh -> elected
             [] fresh = {}        -> Nobody
             [] OTHER             -> CHOOSE p \in fresh : \A q \in fresh : p <= q

Elect ==
    /\ elected' = Elected
    /\ elected' # elected
    /\ UNCHANGED <<config, key, fresh, request, answer, jobs, scans, up, asked,
                   excused, bounds>>

Heartbeat(p) == Read(p) \/ Respond(p) \/ SyncMonitors(p)

Next ==
    \/ \E m \in Monitors : Edit(m) \/ Trigger(m) \/ KeyExpires(m)
    \/ \E p \in Probes : Heartbeat(p) \/ AnswerLost(p) \/ Crash(p) \/ Start(p) \/ Lapse(p)
    \/ Elect

Spec == Init /\ [][Next]_vars

\* The heartbeat job of a probe fires again and again, the election loop ticks
\* (LeaderLock!WorkGoesOn).
FairSpec == Spec /\ WF_vars(Elect) /\ \A p \in Probes : WF_vars(Heartbeat(p))
-----------------------------------------------------------------------------
TypeOK ==
    /\ config \in [Monitors -> Versions \cup {0}]
    /\ key \in [Monitors -> BOOLEAN]
    /\ elected \in Probes \cup {Nobody} /\ fresh \subseteq Probes
    /\ request \in [Probes -> {"none", "read", "answered"}]
    /\ answer \in [Probes -> [jobs : [Monitors -> Versions \cup {0}],
                              now : SUBSET Monitors, scan : BOOLEAN]]
    /\ jobs \in [Probes -> [Monitors -> Versions \cup {0}]]
    /\ scans \subseteq up /\ up \subseteq Probes
    /\ excused \subseteq Monitors /\ asked \subseteq Monitors
    /\ edits \in 0 .. MaxEdits /\ triggers \in 0 .. MaxTriggers
    /\ faults \in 0 .. MaxFaults

\* A request for an immediate check is not forgotten, although keys are read and
\* deleted in two commands and heartbeats of several probes overlap: unless an
\* answer was lost or the key expired, it is still in Redis or on its way to a
\* probe that will start a check after it (trigger_check, heartbeat).
RequestKept ==
    \A m \in asked \ excused : key[m] \/ \E p \in Probes : m \in answer[p].now

\* A probe that runs ends up checking what is configured, whatever answers and
\* restarts came between (sync_monitors); edits are bounded, so the configuration
\* comes to rest.
JobsFollow == \A p \in Probes : <>[](p \in up) => <>[](jobs[p] = config)

\* "exactly one group member must run them" (discovery_election.py): once probes
\* keep running and their heartbeats keep arriving, exactly one of them scans.
OneScans ==
    <>[](up = Probes /\ fresh = Probes) => <>[](Cardinality(scans) = 1)

\* The fleet comes to rest: every probe runs what is configured, one scans.
FleetSettles == JobsFollow /\ OneScans
=============================================================================
