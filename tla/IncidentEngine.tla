--------------------------- MODULE IncidentEngine ---------------------------
(***************************************************************************)
(* The server's detection path: every check result a probe pushes is       *)
(* handled by a background task (push_result._process) that runs in one    *)
(* database transaction of its own.  The task does the maintenance         *)
(* bookkeeping (process_check_result), merges the sample into the          *)
(* monitor's health row (health.ingest), evaluates the monitor's SLO rules *)
(* (health.evaluate_slos) and opens or resolves incidents                  *)
(* (open_incident_from_health, resolve_incident_for_slo).  Tasks of        *)
(* several results interleave at every await.                              *)
(*                                                                         *)
(* The database is PostgreSQL at READ COMMITTED: a query sees the          *)
(* committed rows and the task's own writes; an UPDATE of a health row     *)
(* locks it until the transaction ends; an INSERT that collides with an    *)
(* uncommitted row of the partial unique index uq_incidents_monitor_open   *)
(* waits for it, and fails with IntegrityError on a committed one.  Pages  *)
(* leave the process when they are sent, before the commit.                *)
(***************************************************************************)
EXTENDS Integers, FiniteSets

CONSTANTS
    Monitors, Probes, Rules,  \* every monitor has its own copy of each rule
    Tasks,          \* background tasks that may be in flight together
    Ids,            \* incident rows alive at once (a bound)
    RuleKind,       \* [Rules -> {"quorum_down", "quorum_slow"}]
    Parents,        \* [Monitors -> SUBSET Monitors], suppress_on_parent_down edges
    MinProbes, QuorumNum, QuorumDen,  \* min_probes, quorum_ratio = Num / Den
    Regimes,        \* which of "up", "down", "mixed" the monitors go through
    Faults,         \* which of "crash", "maintenance", "admin" may happen
    None            \* no row, no rule, nobody

ASSUME EngineAssumption ==
    /\ Ids \subseteq Nat
    /\ RuleKind \in [Rules -> {"quorum_down", "quorum_slow"}]
    /\ Parents \in [Monitors -> SUBSET Monitors]
    /\ MinProbes \in Nat \ {0} /\ QuorumNum \in Nat /\ QuorumDen \in Nat \ {0}
    /\ Regimes \subseteq {"up", "down", "mixed"}
    /\ None \notin Tasks \cup Rules \cup Monitors \cup Probes

VARIABLES
    regime,     \* [Monitors -> ...] what the probes currently observe
    window,     \* [Monitors -> BOOLEAN] an is_maintenance window covers now
    ruleRow,    \* [Monitors -> [Rules -> {"on", "off", "gone"}]]
    incidents,  \* [Ids -> Incident or None] committed rows
    health,     \* [Monitors -> probes_state or None] committed rows
    rowLock,    \* [Monitors -> Tasks or None] who holds the health row
    pc, job,    \* per task: program counter; the result it handles
    snap,       \* per task: its copy of probes_state
    todo,       \* per task: the rules still to evaluate
    opening,    \* per task: the incident it decided to open, or None
    dirty,      \* per task: [Ids -> Incident or None] its uncommitted rows
    paged       \* [Monitors -> Int] "opened" pages sent minus "resolved" pages

dbvars   == <<incidents, health, rowLock>>
taskvars == <<pc, job, snap, todo, opening, dirty>>
envvars  == <<regime, window, ruleRow>>
vars == <<regime, window, ruleRow, incidents, health, rowLock,
          pc, job, snap, todo, opening, dirty, paged>>

\* A probe's entry of probes_state, as the evaluators see it: "stale" is an
\* entry outside every window (or missing, or excluded as divergent).
View == [Probes -> {"up", "down", "stale"}]
NoSample == [p \in Probes |-> "stale"]

\* silent is dependency_suppressed; cooling is "resolved less than
\* cooldown_seconds ago".  A resolved row that no longer cools is read by no
\* handler of this module and leaves it.
Incident == [monitor : Monitors, rule : Rules \cup {None},
             open : BOOLEAN, silent : BOOLEAN]

Job == [monitor : Monitors, probe : Probes, down : BOOLEAN, late : BOOLEAN]

ASSUME NoRowAssumption == None \notin Incident \cup Job

PCs == {"idle", "process", "audit", "ingest", "create", "update", "rules", "insert"}

-----------------------------------------------------------------------------
(* What a task sees, and what it waits for                                  *)

\* A query of task t: its own writes over the committed rows.
Visible(t) == [i \in Ids |-> IF dirty[t][i] # None THEN dirty[t][i] ELSE incidents[i]]

OpenIn(rows, m) == {i \in Ids : rows[i] # None /\ rows[i].monitor = m /\ rows[i].open}

OpenOfRule(rows, m, r) == {i \in OpenIn(rows, m) : rows[i].rule = r}

\* The last incident of the rule is resolved and within its cooldown.
InCooldown(rows, m, r) ==
    \E i \in Ids : /\ rows[i] # None
                   /\ rows[i].monitor = m /\ rows[i].rule = r /\ ~rows[i].open

\* has_ancestor_incident: some ancestor, at most six edges up
\* (_DEPENDENCY_MAX_DEPTH), has an open incident.
Ancestors[n \in 0..6] ==
    [m \in Monitors |->
        IF n = 0 THEN {}
        ELSE Parents[m] \cup UNION {Ancestors[n-1][p] : p \in Parents[m]}]

HasAncestorIncident(rows, m) == \E a \in Ancestors[6][m] : OpenIn(rows, a) # {}

FreeIds == {i \in Ids : incidents[i] = None /\ \A t \in Tasks : dirty[t][i] = None}

\* Mutant: a unique index on (monitor_id, slo_rule_id), in which NULLs differ.
IndexPerRule(u, m) ==
    \E i \in Ids : /\ incidents[i] = None
                   /\ dirty[u][i] # None /\ dirty[u][i].monitor = m
                   /\ dirty[u][i].open /\ dirty[u][i].rule # None

\* Transaction u holds an uncommitted open row of monitor m in the unique
\* index: an INSERT of a second one waits for u.
IndexHeldBy(u, m) ==
    \E i \in Ids : /\ incidents[i] = None
                   /\ dirty[u][i] # None /\ dirty[u][i].monitor = m /\ dirty[u][i].open

IndexHeld(t, m) == \E u \in Tasks \ {t} : IndexHeldBy(u, m)

-----------------------------------------------------------------------------
(* The evaluators of services/slo.py: a pure function of the view           *)

Fresh(view) == {p \in Probes : view[p] # "stale"}
Down(view)  == {p \in Probes : view[p] = "down"}

\* Mutant: the ratio must be exceeded.
QuorumDownStrict(view) ==
    IF Cardinality(Fresh(view)) < MinProbes THEN "hold"
    ELSE IF Cardinality(Down(view)) * QuorumDen
            > QuorumNum * Cardinality(Fresh(view)) THEN "open"
    ELSE "close"

\* Mutant: a fleet that is up decides nothing.
QuorumDownSticky(view) ==
    IF Cardinality(Fresh(view)) < MinProbes \/ Down(view) = {} THEN "hold"
    ELSE IF Cardinality(Down(view)) * QuorumDen
            >= QuorumNum * Cardinality(Fresh(view)) THEN "open"
    ELSE "close"

QuorumDown(view) ==
    IF Cardinality(Fresh(view)) < MinProbes THEN "hold"
    ELSE IF Cardinality(Down(view)) * QuorumDen
            >= QuorumNum * Cardinality(Fresh(view)) THEN "open"
    ELSE "close"

\* p95_5m is recomputed from the raw results: signal says whether it is
\* above the threshold, at most the threshold, or missing.
QuorumSlow(view, signal) ==
    IF Cardinality(Fresh(view)) < MinProbes \/ signal = "missing" THEN "hold"
    ELSE IF signal = "above" THEN "open"
    ELSE "close"

\* The p95 a regime allows: a fleet that is steadily up answers in time, and
\* one that is steadily down stops producing samples.
P95(m) == CASE regime[m] = "up"   -> {"below"}
            [] regime[m] = "down" -> {"missing", "above"}
            [] OTHER              -> {"above", "below", "missing"}

Decisions(m, r, view) ==
    IF RuleKind[r] = "quorum_down" THEN {QuorumDown(view)}
    ELSE {QuorumSlow(view, s) : s \in P95(m)}

-----------------------------------------------------------------------------
(* Transactions                                                             *)

NoWrites == [i \in Ids |-> None]

ClearTask(t) ==
    /\ pc' = [pc EXCEPT ![t] = "idle"]
    /\ job' = [job EXCEPT ![t] = None]
    /\ snap' = [snap EXCEPT ![t] = NoSample]
    /\ todo' = [todo EXCEPT ![t] = {}]
    /\ opening' = [opening EXCEPT ![t] = None]
    /\ dirty' = [dirty EXCEPT ![t] = NoWrites]

Unlocked(t) == [m \in Monitors |-> IF rowLock[m] = t THEN None ELSE rowLock[m]]

\* The transaction ends without a trace in the database: an IntegrityError
\* (caught in open_incident_from_health, which leaves nothing to evaluate and
\* an empty transaction to commit; propagating elsewhere), a deadlock victim,
\* an exception, a crash.  What was paged stays paged.
Rollback(t) ==
    /\ ClearTask(t)
    /\ rowLock' = Unlocked(t)
    /\ UNCHANGED <<incidents, health, paged>>

Ring(m)  == paged' = [paged EXCEPT ![m] = IF @ < 2 THEN @ + 1 ELSE @]
Clear(m) == paged' = [paged EXCEPT ![m] = IF @ > -1 THEN @ - 1 ELSE @]

Init ==
    /\ regime = [m \in Monitors |-> "mixed"]
    /\ window = [m \in Monitors |-> FALSE]
    /\ ruleRow = [m \in Monitors |-> [r \in Rules |-> "on"]]
    /\ incidents = [i \in Ids |-> None]
    /\ health = [m \in Monitors |-> None]
    /\ rowLock = [m \in Monitors |-> None]
    /\ pc = [t \in Tasks |-> "idle"]
    /\ job = [t \in Tasks |-> None]
    /\ snap = [t \in Tasks |-> NoSample]
    /\ todo = [t \in Tasks |-> {}]
    /\ opening = [t \in Tasks |-> None]
    /\ dirty = [t \in Tasks |-> NoWrites]
    /\ paged = [m \in Monitors |-> 0]

-----------------------------------------------------------------------------
(* The background task                                                      *)

\* push_result: the CheckResult is committed and _process is scheduled.  A
\* result is late when the probe replays it from its spill file, older than
\* the rules' window.
Receive(t, m, p, down, late) ==
    /\ pc[t] = "idle"
    /\ \/ regime[m] = "mixed"
       \/ regime[m] = "up" /\ ~down /\ ~late
       \/ regime[m] = "down" /\ down /\ ~late
    /\ pc' = [pc EXCEPT ![t] = "process"]
    /\ job' = [job EXCEPT ![t] = [monitor |-> m, probe |-> p, down |-> down, late |-> late]]
    /\ UNCHANGED <<envvars, dbvars, snap, todo, opening, dirty, paged>>

\* process_check_result: in maintenance a failing result gets an incident "for
\* audit trail" unless the monitor has an open one already.
ProcessResult(t) ==
    /\ pc[t] = "process"
    /\ LET m == job[t].monitor
           audit == window[m] /\ job[t].down /\ OpenIn(Visible(t), m) = {}
       IN  pc' = [pc EXCEPT ![t] = IF audit THEN "audit" ELSE "ingest"]
    /\ UNCHANGED <<envvars, dbvars, job, snap, todo, opening, dirty, paged>>

\* The INSERT of the audit incident; an IntegrityError is not caught here.
AuditInsert(t) ==
    LET m == job[t].monitor IN
    /\ pc[t] = "audit"
    /\ ~IndexHeld(t, m)
    /\ \/ /\ OpenIn(Visible(t), m) # {}
          /\ Rollback(t)
       \/ /\ OpenIn(Visible(t), m) = {}
          /\ \E i \in FreeIds :
                /\ \A j \in FreeIds : i <= j
                /\ dirty' = [dirty EXCEPT ![t][i] = [monitor |-> m, rule |-> None,
                                                     open |-> TRUE, silent |-> TRUE]]
          /\ pc' = [pc EXCEPT ![t] = "ingest"]
          /\ UNCHANGED <<dbvars, job, snap, todo, opening, paged>>
    /\ UNCHANGED envvars

\* Mutant: a missing row is taken as it is.
ReadHealthBare(t) ==
    LET row == health[job[t].monitor] IN
    /\ pc[t] = "ingest"
    /\ snap' = [snap EXCEPT ![t] = row]
    /\ pc' = [pc EXCEPT ![t] = IF row = None THEN "create" ELSE "update"]
    /\ UNCHANGED <<envvars, dbvars, job, todo, opening, dirty, paged>>

\* ensure_state, the SELECT: the task keeps this copy of probes_state until
\* it writes it back.
ReadHealth(t) ==
    LET row == health[job[t].monitor] IN
    /\ pc[t] = "ingest"
    /\ snap' = [snap EXCEPT ![t] = IF row = None THEN NoSample ELSE row]
    /\ pc' = [pc EXCEPT ![t] = IF row = None THEN "create" ELSE "update"]
    /\ UNCHANGED <<envvars, dbvars, job, todo, opening, dirty, paged>>

\* ensure_state, the INSERT of a missing row: it waits for a concurrent
\* creation and fails on its primary key.
CreateHealth(t) ==
    LET m == job[t].monitor IN
    /\ pc[t] = "create"
    /\ rowLock[m] = None
    /\ \/ /\ health[m] # None
          /\ Rollback(t)
       \/ /\ health[m] = None
          /\ rowLock' = [rowLock EXCEPT ![m] = t]
          /\ pc' = [pc EXCEPT ![t] = "update"]
          /\ UNCHANGED <<incidents, health, job, snap, todo, opening, dirty, paged>>
    /\ UNCHANGED envvars

Merge(view, j) ==
    [view EXCEPT ![j.probe] = IF j.late THEN "stale"
                              ELSE IF j.down THEN "down" ELSE "up"]

\* Mutant: the row is written at the commit only, without a lock before it.
UpdateHealthUnlocked(t) ==
    LET m == job[t].monitor IN
    /\ pc[t] = "update"
    /\ rowLock' = [rowLock EXCEPT ![m] = t]
    /\ snap' = [snap EXCEPT ![t] = Merge(@, job[t])]
    /\ todo' = [todo EXCEPT ![t] = {r \in Rules : ruleRow[m][r] = "on"}]
    /\ pc' = [pc EXCEPT ![t] = "rules"]
    /\ UNCHANGED <<envvars, incidents, health, job, opening, dirty, paged>>

\* _update_probe_view, and the UPDATE of the row that the next query flushes:
\* it waits for the row lock, writes the whole column, and the lock is kept
\* to the end.  Then evaluate_slos loads the enabled rules.
UpdateHealth(t) ==
    LET m == job[t].monitor IN
    /\ pc[t] = "update"
    /\ rowLock[m] \in {None, t}
    /\ rowLock' = [rowLock EXCEPT ![m] = t]
    /\ snap' = [snap EXCEPT ![t] = Merge(@, job[t])]
    /\ todo' = [todo EXCEPT ![t] = {r \in Rules : ruleRow[m][r] = "on"}]
    /\ pc' = [pc EXCEPT ![t] = "rules"]
    /\ UNCHANGED <<envvars, incidents, health, job, opening, dirty, paged>>

\* A decision that changes nothing: Hold, Close with nothing to close, Open in
\* cooldown, in maintenance or with an incident of the rule already open.
SkipRule(t, r) ==
    LET m == job[t].monitor
        rows == Visible(t)
        d == Decisions(m, r, snap[t])
    IN
    /\ pc[t] = "rules" /\ r \in todo[t]
    /\ \/ "hold" \in d
       \/ "close" \in d /\ OpenOfRule(rows, m, r) = {}
       \/ "open" \in d /\ (\/ InCooldown(rows, m, r)
                           \/ window[m]
                           \/ OpenOfRule(rows, m, r) # {})
    /\ todo' = [todo EXCEPT ![t] = @ \ {r}]
    /\ UNCHANGED <<envvars, dbvars, pc, job, snap, opening, dirty, paged>>

\* resolve_incident_for_slo: the resolution is paged unless the incident was
\* suppressed when it opened.
CloseRule(t, r) ==
    LET m == job[t].monitor
        rows == Visible(t)
    IN
    /\ pc[t] = "rules" /\ r \in todo[t]
    /\ "close" \in Decisions(m, r, snap[t])
    /\ \E i \in OpenOfRule(rows, m, r) :
          /\ dirty' = [dirty EXCEPT ![t][i] = [rows[i] EXCEPT !.open = FALSE]]
          /\ IF rows[i].silent THEN UNCHANGED paged ELSE Clear(m)
    /\ todo' = [todo EXCEPT ![t] = @ \ {r}]
    /\ UNCHANGED <<envvars, dbvars, pc, job, snap, opening>>

\* open_incident_from_health up to the INSERT: cooldown, maintenance window,
\* an incident of this very rule already open, suppression by a parent.
OpenRule(t, r) ==
    LET m == job[t].monitor
        rows == Visible(t)
    IN
    /\ pc[t] = "rules" /\ r \in todo[t]
    /\ "open" \in Decisions(m, r, snap[t])
    /\ ~InCooldown(rows, m, r)
    /\ ~window[m]
    /\ OpenOfRule(rows, m, r) = {}
    /\ opening' = [opening EXCEPT ![t] = [monitor |-> m, rule |-> r, open |-> TRUE,
                                          silent |-> HasAncestorIncident(rows, m)]]
    /\ pc' = [pc EXCEPT ![t] = "insert"]
    /\ UNCHANGED <<envvars, dbvars, job, snap, todo, dirty, paged>>

\* Mutant: the page is sent before the INSERT is flushed.
OpenInsertPagesFirst(t) ==
    LET m == job[t].monitor
        r == opening[t].rule
        collides == OpenIn(Visible(t), m) # {} \/ ruleRow[m][r] = "gone"
    IN
    /\ pc[t] = "insert"
    /\ ~IndexHeld(t, m)
    /\ IF opening[t].silent THEN UNCHANGED paged ELSE Ring(m)
    /\ \/ /\ collides
          /\ ClearTask(t) /\ rowLock' = Unlocked(t)
          /\ UNCHANGED <<incidents, health>>
       \/ /\ ~collides
          /\ \E i \in FreeIds : dirty' = [dirty EXCEPT ![t][i] = opening[t]]
          /\ todo' = [todo EXCEPT ![t] = @ \ {r}]
          /\ opening' = [opening EXCEPT ![t] = None]
          /\ pc' = [pc EXCEPT ![t] = "rules"]
          /\ UNCHANGED <<dbvars, job, snap>>
    /\ UNCHANGED envvars

\* The INSERT and, when it succeeds, the page.  A second open incident of the
\* monitor or a rule deleted meanwhile is an IntegrityError.
OpenInsert(t) ==
    LET m == job[t].monitor
        r == opening[t].rule
        collides == OpenIn(Visible(t), m) # {} \/ ruleRow[m][r] = "gone"
    IN
    /\ pc[t] = "insert"
    /\ ~IndexHeld(t, m)
    /\ \/ collides /\ Rollback(t)
       \/ /\ ~collides
          /\ \E i \in FreeIds :
                /\ \A j \in FreeIds : i <= j
                /\ dirty' = [dirty EXCEPT ![t][i] = opening[t]]
          /\ IF opening[t].silent THEN UNCHANGED paged ELSE Ring(m)
          /\ todo' = [todo EXCEPT ![t] = @ \ {r}]
          /\ opening' = [opening EXCEPT ![t] = None]
          /\ pc' = [pc EXCEPT ![t] = "rules"]
          /\ UNCHANGED <<dbvars, job, snap>>
    /\ UNCHANGED envvars

\* bg_db.commit().
Commit(t) ==
    /\ pc[t] = "rules" /\ todo[t] = {}
    /\ incidents' = Visible(t)
    /\ health' = [health EXCEPT ![job[t].monitor] = snap[t]]
    /\ rowLock' = Unlocked(t)
    /\ ClearTask(t)
    /\ UNCHANGED <<envvars, paged>>

\* PostgreSQL breaks a cycle of waiting transactions by aborting one of them.
\* A cycle has two: u holds the health row and waits to insert behind t's
\* uncommitted audit incident, t waits for the health row.
WaitsFor(t, u) ==
    LET m == job[t].monitor IN
    \/ pc[t] \in {"update", "create"} /\ rowLock[m] = u
    \/ pc[t] \in {"insert", "audit"} /\ IndexHeldBy(u, m)

DeadlockVictim(t) ==
    /\ \E u \in Tasks \ {t} : WaitsFor(t, u) /\ WaitsFor(u, t)
    /\ Rollback(t)
    /\ UNCHANGED envvars

\* The process dies, or an exception no handler expects ends the task.  Like
\* every disturbance it belongs to the "mixed" regime, so that a steady regime
\* is one in which tasks complete.
Crash(t) ==
    /\ "crash" \in Faults
    /\ pc[t] # "idle" /\ regime[job[t].monitor] = "mixed"
    /\ Rollback(t)
    /\ UNCHANGED envvars

-----------------------------------------------------------------------------
(* The environment                                                          *)

ChangeRegime(m) ==
    /\ \E g \in Regimes \ {regime[m]} : regime' = [regime EXCEPT ![m] = g]
    /\ UNCHANGED <<window, ruleRow, dbvars, taskvars, paged>>

\* A maintenance window begins or ends.
ToggleWindow(m) ==
    /\ "maintenance" \in Faults
    /\ window' = [window EXCEPT ![m] = ~@]
    /\ UNCHANGED <<regime, ruleRow, dbvars, taskvars, paged>>

\* A probe has been silent for longer than the rules' window.  Time is coarse
\* here: no task of the monitor is between its SELECT and its COMMIT.
SampleAges(m, p) ==
    /\ regime[m] = "mixed"
    /\ health[m] # None /\ health[m][p] # "stale"
    /\ \A t \in Tasks : pc[t] # "idle" => job[t].monitor # m
    /\ health' = [health EXCEPT ![m][p] = "stale"]
    /\ UNCHANGED <<envvars, incidents, rowLock, taskvars, paged>>

CooldownElapses(i) ==
    /\ incidents[i] # None /\ ~incidents[i].open
    /\ \A t \in Tasks : dirty[t][i] = None
    /\ incidents' = [incidents EXCEPT ![i] = None]
    /\ UNCHANGED <<envvars, health, rowLock, taskvars, paged>>

\* update_slo_rule with enabled = true or false.
SwitchRule(m, r) ==
    /\ "admin" \in Faults
    /\ ruleRow[m][r] # "gone"
    /\ ruleRow' = [ruleRow EXCEPT ![m][r] = IF @ = "on" THEN "off" ELSE "on"]
    /\ UNCHANGED <<regime, window, dbvars, taskvars, paged>>

\* delete_slo_rule: the foreign key is ON DELETE SET NULL, so the incidents of
\* the rule lose it.  A transaction that wrote one of them is waited for.
DeleteRule(m, r) ==
    LET mine(row) == row # None /\ row.monitor = m /\ row.rule = r IN
    /\ "admin" \in Faults
    /\ ruleRow[m][r] # "gone"
    /\ \A t \in Tasks : \A i \in Ids : ~mine(dirty[t][i])
    /\ ruleRow' = [ruleRow EXCEPT ![m][r] = "gone"]
    /\ incidents' = [i \in Ids |-> IF mine(incidents[i])
                                   THEN [incidents[i] EXCEPT !.rule = None]
                                   ELSE incidents[i]]
    /\ UNCHANGED <<regime, window, health, rowLock, taskvars, paged>>

-----------------------------------------------------------------------------

Progress(t) ==
    \/ ProcessResult(t) \/ AuditInsert(t)
    \/ ReadHealth(t) \/ CreateHealth(t) \/ UpdateHealth(t)
    \/ \E r \in Rules : SkipRule(t, r) \/ CloseRule(t, r) \/ OpenRule(t, r)
    \/ OpenInsert(t) \/ Commit(t) \/ DeadlockVictim(t)

Environment ==
    \/ \E m \in Monitors : ChangeRegime(m) \/ ToggleWindow(m)
    \/ \E m \in Monitors, p \in Probes : SampleAges(m, p)
    \/ \E i \in Ids : CooldownElapses(i)
    \/ \E m \in Monitors, r \in Rules : SwitchRule(m, r) \/ DeleteRule(m, r)

Next ==
    \/ \E t \in Tasks, m \in Monitors, p \in Probes, down, late \in BOOLEAN :
          Receive(t, m, p, down, late)
    \/ \E t \in Tasks : Progress(t)
    \/ \E t \in Tasks : Crash(t)
    \/ Environment

Spec == Init /\ [][Next]_vars

\* A started task runs on (the event loop and the database make progress), a
\* cooldown elapses, and each probe keeps reporting.  The latter needs strong
\* fairness: a bounded number of tasks is sometimes all busy.
FairSpec ==
    /\ Spec
    /\ \A t \in Tasks : WF_vars(Progress(t))
    /\ \A i \in Ids : WF_vars(CooldownElapses(i))
    /\ \A m \in Monitors, p \in Probes :
          SF_vars(\E t \in Tasks, down, late \in BOOLEAN : Receive(t, m, p, down, late))

-----------------------------------------------------------------------------
(* Properties                                                               *)

TypeOK ==
    /\ regime \in [Monitors -> {"up", "down", "mixed"}]
    /\ window \in [Monitors -> BOOLEAN]
    /\ ruleRow \in [Monitors -> [Rules -> {"on", "off", "gone"}]]
    /\ incidents \in [Ids -> Incident \cup {None}]
    /\ health \in [Monitors -> View \cup {None}]
    /\ rowLock \in [Monitors -> Tasks \cup {None}]
    /\ pc \in [Tasks -> PCs]
    /\ job \in [Tasks -> Job \cup {None}]
    /\ snap \in [Tasks -> View]
    /\ todo \in [Tasks -> SUBSET Rules]
    /\ opening \in [Tasks -> Incident \cup {None}]
    /\ dirty \in [Tasks -> [Ids -> Incident \cup {None}]]
    /\ paged \in [Monitors -> -1..2]

\* At most one incident of a monitor is open, which is what the partial
\* unique index uq_incidents_monitor_open exists for (models/incident.py).
OneOpenIncident == \A m \in Monitors : Cardinality(OpenIn(incidents, m)) <= 1

\* The rows of monitor m as the task that holds its health row sees them.
Current(m) == IF rowLock[m] # None THEN Visible(rowLock[m]) ELSE incidents

\* The people paged for a monitor are paged for an incident that exists: the
\* "opened" pages sent and not yet answered by a "resolved" page are exactly
\* its open, unsuppressed incidents, in the middle of a task and between
\* tasks.  Breaks if an outage is paged twice, if an incident is paged and
\* then rolled back, or if a resolution goes unannounced.
PagerMatchesIncidents ==
    \A m \in Monitors :
        LET rows == Current(m) IN
        paged[m] = Cardinality({i \in OpenIn(rows, m) : ~rows[i].silent})

\* What a monitor's incident looks like from outside (OneOpenIncident makes
\* the choice of the row immaterial).
Status(m) ==
    LET rows == Current(m)
        open == {rows[i].silent : i \in OpenIn(rows, m)}
    IN
    IF open = {} THEN "none" ELSE IF FALSE \in open THEN "audible" ELSE "silent"

Lifecycle == INSTANCE IncidentLifecycle WITH status <- [m \in Monitors |-> Status(m)]

\* The interleaved tasks of a monitor amount to one incident at a time that
\* opens and resolves atomically, with a page at both ends: the health row's
\* lock serialises everything from the UPDATE to the COMMIT.
ImplementsLifecycle == Lifecycle!Spec

\* "Open on failure": when from some point on every probe reports the monitor
\* down, an incident of it is opened and stays open.
OutageOpens ==
    \A m \in Monitors : <>[](regime[m] = "down") => <>[](OpenIn(incidents, m) # {})

\* "Resolve on recovery": when from some point on every probe reports the
\* monitor up, no incident of it stays open.
RecoveryResolves ==
    \A m \in Monitors : <>[](regime[m] = "up") => <>[](OpenIn(incidents, m) = {})

-----------------------------------------------------------------------------
(* The inductive invariant behind OneOpenIncident (IncidentEngine_proofs).   *)

\* Where a task stands tells what it holds.
TaskShape ==
    \A t \in Tasks :
        /\ pc[t] = "idle" => \A i \in Ids : dirty[t][i] = None
        /\ pc[t] # "idle" => job[t] # None
        /\ pc[t] \in {"rules", "insert"} => rowLock[job[t].monitor] = t
        /\ pc[t] = "insert" => /\ opening[t] # None
                               /\ opening[t].monitor = job[t].monitor

\* A task writes rows of its own monitor; a committed row it only closes, and
\* only while it holds the health row.
WriteShape ==
    \A t \in Tasks, i \in Ids :
        dirty[t][i] # None =>
            /\ dirty[t][i].monitor = job[t].monitor
            /\ incidents[i] # None => /\ incidents[i].monitor = job[t].monitor
                                      /\ ~dirty[t][i].open
                                      /\ rowLock[job[t].monitor] = t

OpenAt(rows, i, m) == rows[i] # None /\ rows[i].monitor = m /\ rows[i].open

\* No two transactions write the same row.
WritesDisjoint ==
    \A t, u \in Tasks, i \in Ids :
        dirty[t][i] # None /\ dirty[u][i] # None => t = u

\* The uncommitted entries of the unique index: one per monitor, and only
\* beside committed entries that the same transaction closes.
IndexedOnce ==
    \A t \in Tasks, i \in Ids, m \in Monitors :
        OpenAt(dirty[t], i, m) =>
            /\ \A u \in Tasks, j \in Ids : OpenAt(dirty[u], j, m) => t = u /\ i = j
            /\ \A j \in Ids : OpenAt(incidents, j, m) => dirty[t][j] # None

CommittedOnce ==
    \A i, j \in Ids, m \in Monitors :
        OpenAt(incidents, i, m) /\ OpenAt(incidents, j, m) => i = j

IndexInv == TaskShape /\ WriteShape /\ WritesDisjoint /\ IndexedOnce /\ CommittedOnce

=============================================================================
