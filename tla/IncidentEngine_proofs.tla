----------------------- MODULE IncidentEngine_proofs -----------------------
(***************************************************************************)
(* Proofs about IncidentEngine, for any number of monitors, probes, rules, *)
(* tasks and rows: its type invariant, and that a monitor never has two    *)
(* open incidents.  IndexInv is the strengthening of the latter: it says   *)
(* what uncommitted rows look like, so that the COMMIT of one transaction  *)
(* cannot bring a second open row beside another's.                        *)
(*                                                                         *)
(* Then, that the detection path implements IncidentLifecycle, with        *)
(* maintenance and administrators at work, where a monitor has one SLO     *)
(* rule and no task dies between its page and its commit.  Both conditions *)
(* are needed: the run EngineTwoRules shows what a second rule does.       *)
(***************************************************************************)
EXTENDS IncidentEngine, FiniteSetTheorems, TLAPS

\* A task sees rows, or no rows.
LEMMA VisibleType ==
    ASSUME TypeOK, NEW t \in Tasks
    PROVE  Visible(t) \in [Ids -> Incident \cup {None}]
    BY DEF TypeOK, Visible

\* Resolving a row leaves a row.
LEMMA ClosedRow ==
    ASSUME NEW row \in Incident
    PROVE  /\ [row EXCEPT !.open = FALSE] \in Incident
           /\ [row EXCEPT !.open = FALSE].open = FALSE
           /\ [row EXCEPT !.open = FALSE].monitor = row.monitor
    BY DEF Incident

\* The end of a transaction keeps the types.
LEMMA ClearTaskType ==
    ASSUME TypeOK, NEW t \in Tasks, ClearTask(t)
    PROVE  /\ pc' \in [Tasks -> PCs]
           /\ job' \in [Tasks -> Job \cup {None}]
           /\ snap' \in [Tasks -> View]
           /\ todo' \in [Tasks -> SUBSET Rules]
           /\ opening' \in [Tasks -> Incident \cup {None}]
           /\ dirty' \in [Tasks -> [Ids -> Incident \cup {None}]]
    BY DEF TypeOK, ClearTask, PCs, View, NoSample, NoWrites

LEMMA UnlockedType ==
    ASSUME TypeOK, NEW t \in Tasks
    PROVE  Unlocked(t) \in [Monitors -> Tasks \cup {None}]
    BY DEF TypeOK, Unlocked

LEMMA RollbackType ==
    ASSUME TypeOK, NEW t \in Tasks, Rollback(t), UNCHANGED envvars
    PROVE  TypeOK'
    BY ClearTaskType, UnlockedType DEF TypeOK, Rollback, envvars

\* The page counter stays within its bounds.
LEMMA PagedType ==
    ASSUME TypeOK, NEW m \in Monitors, Ring(m) \/ Clear(m) \/ UNCHANGED paged
    PROVE  paged' \in [Monitors -> -1..2]
    BY DEF TypeOK, Ring, Clear

-----------------------------------------------------------------------------
(* Type correctness                                                         *)

LEMMA InitType == Init => TypeOK
    BY DEF Init, TypeOK, View, NoSample, NoWrites, PCs

LEMMA InitIndex == Init => IndexInv
    BY DEF Init, IndexInv, TaskShape, WriteShape, WritesDisjoint, IndexedOnce,
           CommittedOnce, OpenAt, NoWrites

\* Every step keeps the types; the steps of a task rely on TaskShape for the
\* result it handles.
LEMMA NextType ==
    ASSUME TypeOK, TaskShape, [Next]_vars
    PROVE  TypeOK'
<1> USE DEF TypeOK, envvars, dbvars, taskvars
<1>1. ASSUME NEW t \in Tasks, NEW m \in Monitors, NEW p \in Probes,
             NEW down \in BOOLEAN, NEW late \in BOOLEAN, Receive(t, m, p, down, late)
      PROVE  TypeOK'
    BY <1>1 DEF Receive, Job, PCs
<1>2. ASSUME NEW t \in Tasks, ProcessResult(t)
      PROVE  TypeOK'
    BY <1>2 DEF ProcessResult, PCs
<1>3. ASSUME NEW t \in Tasks, AuditInsert(t)
      PROVE  TypeOK'
  <2>1. CASE Rollback(t)
    BY <1>3, <2>1, RollbackType DEF AuditInsert
  <2>2. CASE ~Rollback(t)
    <3>1. job[t] \in Job /\ job[t].monitor \in Monitors
      BY <1>3 DEF AuditInsert, TaskShape, Job
    <3>2. [monitor |-> job[t].monitor, rule |-> None, open |-> TRUE, silent |-> TRUE]
             \in Incident
      BY <3>1 DEF Incident
    <3>3. PICK i \in FreeIds :
             dirty' = [dirty EXCEPT ![t][i] = [monitor |-> job[t].monitor, rule |-> None,
                                               open |-> TRUE, silent |-> TRUE]]
      BY <1>3, <2>2 DEF AuditInsert
    <3>4. dirty' \in [Tasks -> [Ids -> Incident \cup {None}]]
      BY <3>2, <3>3 DEF FreeIds
    <3>5. pc' = [pc EXCEPT ![t] = "ingest"] /\ UNCHANGED <<dbvars, job, snap, todo, opening, paged>>
      BY <1>3, <2>2 DEF AuditInsert
    <3> QED
      BY <1>3, <3>4, <3>5 DEF AuditInsert, PCs
  <2> QED
    BY <2>1, <2>2
<1>4. ASSUME NEW t \in Tasks, ReadHealth(t)
      PROVE  TypeOK'
  <2>1. job[t].monitor \in Monitors
    BY <1>4 DEF ReadHealth, TaskShape, Job
  <2>2. NoSample \in View
    BY DEF NoSample, View
  <2> QED
    BY <1>4, <2>1, <2>2 DEF ReadHealth, PCs
<1>5. ASSUME NEW t \in Tasks, CreateHealth(t)
      PROVE  TypeOK'
  <2>1. CASE Rollback(t)
    BY <1>5, <2>1, RollbackType DEF CreateHealth
  <2>2. CASE ~Rollback(t)
    <3>1. /\ rowLock' = [rowLock EXCEPT ![job[t].monitor] = t]
          /\ pc' = [pc EXCEPT ![t] = "update"]
          /\ UNCHANGED <<incidents, health, job, snap, todo, opening, dirty, paged>>
          /\ UNCHANGED envvars
      BY <1>5, <2>2 DEF CreateHealth
    <3> QED
      BY <3>1 DEF PCs
  <2> QED
    BY <2>1, <2>2
<1>6. ASSUME NEW t \in Tasks, UpdateHealth(t)
      PROVE  TypeOK'
  <2>1. Merge(snap[t], job[t]) \in View
    BY DEF Merge, View
  <2> QED
    BY <1>6, <2>1 DEF UpdateHealth, PCs
<1>7. ASSUME NEW t \in Tasks, NEW r \in Rules, SkipRule(t, r)
      PROVE  TypeOK'
    BY <1>7 DEF SkipRule
<1>8. ASSUME NEW t \in Tasks, NEW r \in Rules, CloseRule(t, r)
      PROVE  TypeOK'
  <2>1. job[t].monitor \in Monitors
    BY <1>8 DEF CloseRule, TaskShape, Job
  <2>2. PICK i \in OpenOfRule(Visible(t), job[t].monitor, r) :
           /\ dirty' = [dirty EXCEPT ![t][i] = [Visible(t)[i] EXCEPT !.open = FALSE]]
           /\ IF Visible(t)[i].silent THEN UNCHANGED paged ELSE Clear(job[t].monitor)
    BY <1>8 DEF CloseRule
  <2>3. i \in Ids /\ Visible(t)[i] \in Incident
    BY VisibleType DEF OpenOfRule, OpenIn
  <2>4. [Visible(t)[i] EXCEPT !.open = FALSE] \in Incident
    BY <2>3, ClosedRow
  <2>5. dirty' \in [Tasks -> [Ids -> Incident \cup {None}]]
    BY <2>2, <2>3, <2>4
  <2>6. paged' \in [Monitors -> -1..2]
    BY <2>1, <2>2, PagedType
  <2> QED
    BY <1>8, <2>5, <2>6 DEF CloseRule
<1>9. ASSUME NEW t \in Tasks, NEW r \in Rules, OpenRule(t, r)
      PROVE  TypeOK'
  <2>1. job[t].monitor \in Monitors
    BY <1>9 DEF OpenRule, TaskShape, Job
  <2>2. [monitor |-> job[t].monitor, rule |-> r, open |-> TRUE,
         silent |-> HasAncestorIncident(Visible(t), job[t].monitor)] \in Incident
    BY <2>1 DEF Incident, HasAncestorIncident
  <2> QED
    BY <1>9, <2>2 DEF OpenRule, PCs
<1>10. ASSUME NEW t \in Tasks, OpenInsert(t)
       PROVE  TypeOK'
  <2>1. CASE Rollback(t)
    BY <1>10, <2>1, RollbackType DEF OpenInsert
  <2>2. CASE ~Rollback(t)
    <3>1. job[t].monitor \in Monitors /\ opening[t] \in Incident
      BY <1>10 DEF OpenInsert, TaskShape, Job
    <3>2. PICK i \in FreeIds : dirty' = [dirty EXCEPT ![t][i] = opening[t]]
      BY <1>10, <2>2 DEF OpenInsert
    <3>3. dirty' \in [Tasks -> [Ids -> Incident \cup {None}]]
      BY <3>1, <3>2 DEF FreeIds
    <3>4. IF opening[t].silent THEN UNCHANGED paged ELSE Ring(job[t].monitor)
      BY <1>10, <2>2 DEF OpenInsert
    <3>5. paged' \in [Monitors -> -1..2]
      BY <3>1, <3>4, PagedType
    <3>6. /\ todo' = [todo EXCEPT ![t] = @ \ {opening[t].rule}]
          /\ opening' = [opening EXCEPT ![t] = None]
          /\ pc' = [pc EXCEPT ![t] = "rules"]
          /\ UNCHANGED <<dbvars, job, snap>>
          /\ UNCHANGED envvars
      BY <1>10, <2>2 DEF OpenInsert
    <3> QED
      BY <3>3, <3>5, <3>6 DEF PCs
  <2> QED
    BY <2>1, <2>2
<1>11. ASSUME NEW t \in Tasks, Commit(t)
       PROVE  TypeOK'
  <2>1. incidents' \in [Ids -> Incident \cup {None}]
    BY <1>11, VisibleType DEF Commit
  <2>2. rowLock' \in [Monitors -> Tasks \cup {None}]
    BY <1>11, UnlockedType DEF Commit
  <2>3. health' \in [Monitors -> View \cup {None}]
    BY <1>11 DEF Commit
  <2> QED
    BY <1>11, <2>1, <2>2, <2>3, ClearTaskType DEF Commit
<1>12. ASSUME NEW t \in Tasks, DeadlockVictim(t) \/ Crash(t)
       PROVE  TypeOK'
    BY <1>12, RollbackType DEF DeadlockVictim, Crash
<1>13. ASSUME Environment
       PROVE  TypeOK'
  <2>1. ASSUME NEW m \in Monitors, ChangeRegime(m)
        PROVE  TypeOK'
    BY <2>1, EngineAssumption DEF EngineAssumption, ChangeRegime
  <2>6. ASSUME NEW m \in Monitors, ToggleWindow(m)
        PROVE  TypeOK'
    <3>1. window' \in [Monitors -> BOOLEAN]
      BY <2>6, Zenon DEF ToggleWindow
    <3> QED
      BY <2>6, <3>1 DEF ToggleWindow
  <2>2. ASSUME NEW m \in Monitors, NEW p \in Probes, SampleAges(m, p)
        PROVE  TypeOK'
    BY <2>2 DEF SampleAges, View
  <2>3. ASSUME NEW i \in Ids, CooldownElapses(i)
        PROVE  TypeOK'
    BY <2>3 DEF CooldownElapses
  <2>4. ASSUME NEW m \in Monitors, NEW r \in Rules, SwitchRule(m, r)
        PROVE  TypeOK'
    BY <2>4 DEF SwitchRule
  <2>5. ASSUME NEW m \in Monitors, NEW r \in Rules, DeleteRule(m, r)
        PROVE  TypeOK'
    <3>1. ruleRow' = [ruleRow EXCEPT ![m][r] = "gone"]
      BY <2>5, Zenon DEF DeleteRule
    <3>2. ruleRow' \in [Monitors -> [Rules -> {"on", "off", "gone"}]]
      BY <3>1
    <3>3. incidents' \in [Ids -> Incident \cup {None}]
      <4>1. \A i \in Ids : incidents'[i] = incidents[i]
                          \/ /\ incidents[i] # None
                             /\ incidents'[i] = [incidents[i] EXCEPT !.rule = None]
        BY <2>5 DEF DeleteRule
      <4>2. \A i \in Ids : incidents'[i] \in Incident \cup {None}
        BY <4>1 DEF Incident
      <4>3. incidents' = [i \in Ids |-> incidents'[i]]
        BY <2>5 DEF DeleteRule
      <4> QED BY <4>2, <4>3
    <3> QED
      BY <2>5, <3>2, <3>3 DEF DeleteRule
  <2> QED
    BY <1>13, <2>1, <2>2, <2>3, <2>4, <2>5, <2>6 DEF Environment
<1>14. CASE UNCHANGED vars
    BY <1>14 DEF vars
<1> QED
    BY <1>1, <1>2, <1>3, <1>4, <1>5, <1>6, <1>7, <1>8, <1>9, <1>10, <1>11, <1>12,
       <1>13, <1>14, SMTT(30) DEF Next, Progress

-----------------------------------------------------------------------------
(* At most one open incident                                                *)

RowsInv == WriteShape /\ WritesDisjoint /\ IndexedOnce /\ CommittedOnce

\* Steps that write no row, and take no lock or result from a task that did.
LEMMA FrameRows ==
    ASSUME TypeOK, RowsInv, UNCHANGED <<incidents, dirty>>,
           \A u \in Tasks, m \in Monitors : rowLock[m] = u => rowLock'[m] = u,
           \A u \in Tasks : job'[u] = job[u] \/ \A i \in Ids : dirty[u][i] = None
    PROVE  RowsInv'
<1>1. WritesDisjoint' /\ IndexedOnce' /\ CommittedOnce'
    BY DEF RowsInv, WritesDisjoint, IndexedOnce, CommittedOnce, OpenAt
<1>2. WriteShape'
    BY DEF RowsInv, WriteShape, TypeOK, Incident
<1> QED
    BY <1>1, <1>2 DEF RowsInv

\* A task that has written a row handles a result.
LEMMA WrittenMonitor ==
    ASSUME TypeOK, RowsInv
    PROVE  \A u \in Tasks, i \in Ids : dirty[u][i] # None => job[u].monitor \in Monitors
    BY DEF RowsInv, WriteShape, TypeOK, Incident

\* A rollback only withdraws rows.
LEMMA RollbackRows ==
    ASSUME TypeOK, RowsInv, NEW t \in Tasks, Rollback(t)
    PROVE  RowsInv'
<1>1. /\ \A i \in Ids : dirty'[t][i] = None
      /\ \A u \in Tasks \ {t} : dirty'[u] = dirty[u] /\ job'[u] = job[u]
      /\ incidents' = incidents
      /\ \A u \in Tasks \ {t}, m \in Monitors : rowLock[m] = u => rowLock'[m] = u
    BY DEF Rollback, ClearTask, NoWrites, Unlocked, TypeOK
<1>2. WriteShape'
  <2>1. \A u \in Tasks, i \in Ids : dirty'[u][i] # None => u # t /\ dirty[u][i] # None
    BY <1>1
  <2>2. \A u \in Tasks, i \in Ids : dirty[u][i] # None => job[u].monitor \in Monitors
    BY WrittenMonitor
  <2> QED
    BY <1>1, <2>1, <2>2 DEF RowsInv, WriteShape
<1>3. WritesDisjoint'
    BY <1>1 DEF RowsInv, WritesDisjoint
<1>4. IndexedOnce'
    BY <1>1 DEF RowsInv, IndexedOnce, OpenAt
<1>5. CommittedOnce'
    BY <1>1 DEF RowsInv, CommittedOnce, OpenAt
<1> QED
    BY <1>2, <1>3, <1>4, <1>5 DEF RowsInv

\* An INSERT that neither waits nor collides is the only open row of its
\* monitor that any transaction can commit.
LEMMA InsertRows ==
    ASSUME TypeOK, RowsInv, NEW t \in Tasks, NEW i \in FreeIds, NEW row \in Incident,
           row.monitor = job[t].monitor,
           OpenIn(Visible(t), job[t].monitor) = {},
           ~IndexHeld(t, job[t].monitor),
           dirty' = [dirty EXCEPT ![t][i] = row],
           UNCHANGED <<incidents, rowLock, job>>
    PROVE  RowsInv'
<1> DEFINE m == job[t].monitor
<1>1. i \in Ids /\ incidents[i] = None /\ \A u \in Tasks : dirty[u][i] = None
    BY DEF FreeIds
<1>2. /\ dirty'[t][i] = row
      /\ \A u \in Tasks, j \in Ids : u # t \/ j # i => dirty'[u][j] = dirty[u][j]
    BY <1>1 DEF TypeOK
<1>3. \A u \in Tasks, j \in Ids : ~OpenAt(dirty[u], j, m)
  <2>1. \A j \in Ids : ~OpenAt(dirty[t], j, m)
    BY DEF OpenIn, Visible, OpenAt
  <2>2. \A u \in Tasks \ {t}, j \in Ids : ~OpenAt(dirty[u], j, m)
    BY DEF IndexHeld, IndexHeldBy, OpenAt, RowsInv, WriteShape
  <2> QED
    BY <2>1, <2>2
<1>4. \A j \in Ids : OpenAt(incidents, j, m) => dirty[t][j] # None
    BY DEF OpenIn, Visible, OpenAt
<1>5. WriteShape'
    BY <1>1, <1>2 DEF RowsInv, WriteShape
<1>6. WritesDisjoint'
    BY <1>1, <1>2 DEF RowsInv, WritesDisjoint
<1>7. IndexedOnce'
    BY <1>1, <1>2, <1>3, <1>4 DEF RowsInv, IndexedOnce, OpenAt
<1>8. CommittedOnce'
    BY DEF RowsInv, CommittedOnce, OpenAt
<1> QED
    BY <1>5, <1>6, <1>7, <1>8 DEF RowsInv

\* A resolution writes a row no other transaction has written, because those
\* that write a committed row hold the same health row.
LEMMA CloseRows ==
    ASSUME TypeOK, RowsInv, NEW t \in Tasks, NEW i \in Ids,
           Visible(t)[i] # None, Visible(t)[i].monitor = job[t].monitor,
           rowLock[job[t].monitor] = t,
           dirty' = [dirty EXCEPT ![t][i] = [Visible(t)[i] EXCEPT !.open = FALSE]],
           UNCHANGED <<incidents, rowLock, job>>
    PROVE  RowsInv'
<1>1. /\ dirty'[t][i] = [Visible(t)[i] EXCEPT !.open = FALSE]
      /\ \A u \in Tasks, j \in Ids : u # t \/ j # i => dirty'[u][j] = dirty[u][j]
    BY DEF TypeOK
<1>2. Visible(t)[i] \in Incident
    BY VisibleType
<1>3. dirty'[t][i] \in Incident /\ ~dirty'[t][i].open
      /\ dirty'[t][i].monitor = job[t].monitor
    BY <1>1, <1>2, ClosedRow
<1>4. incidents[i] # None => incidents[i].monitor = job[t].monitor
    BY DEF Visible, RowsInv, WriteShape
<1>5. \A u \in Tasks \ {t} : dirty[u][i] = None
    BY <1>4 DEF Visible, RowsInv, WriteShape, WritesDisjoint
<1>6. WriteShape'
    BY <1>1, <1>3, <1>4 DEF RowsInv, WriteShape
<1>7. WritesDisjoint'
    BY <1>1, <1>5 DEF RowsInv, WritesDisjoint
<1>8. dirty'[t][i] # None
    BY <1>3, NoRowAssumption
<1>9. IndexedOnce'
    BY <1>1, <1>3, <1>5, <1>8 DEF RowsInv, IndexedOnce, OpenAt
<1>10. CommittedOnce'
    BY DEF RowsInv, CommittedOnce, OpenAt
<1> QED
    BY <1>6, <1>7, <1>9, <1>10 DEF RowsInv

\* The COMMIT.
LEMMA CommitRows ==
    ASSUME TypeOK, RowsInv, NEW t \in Tasks, Commit(t)
    PROVE  RowsInv'
<1>1. /\ \A i \in Ids : dirty'[t][i] = None
      /\ \A u \in Tasks \ {t} : dirty'[u] = dirty[u] /\ job'[u] = job[u]
      /\ \A u \in Tasks \ {t}, m \in Monitors : rowLock[m] = u => rowLock'[m] = u
    BY DEF Commit, ClearTask, NoWrites, Unlocked, TypeOK
<1>2. \A i \in Ids : incidents'[i] = IF dirty[t][i] # None THEN dirty[t][i] ELSE incidents[i]
    BY DEF Commit, Visible
<1>3. \A u \in Tasks \ {t}, i \in Ids : dirty[u][i] # None => incidents'[i] = incidents[i]
    BY <1>2 DEF RowsInv, WritesDisjoint
<1>4. WriteShape'
  <2>1. \A u \in Tasks, i \in Ids : dirty'[u][i] # None => u # t /\ dirty[u][i] # None
    BY <1>1
  <2> QED
    BY <1>1, <1>3, <2>1, WrittenMonitor DEF RowsInv, WriteShape
<1>5. WritesDisjoint'
    BY <1>1 DEF RowsInv, WritesDisjoint
<1>6. \A i \in Ids, m \in Monitors :
          OpenAt(incidents', i, m) =>
             \/ OpenAt(dirty[t], i, m)
             \/ OpenAt(incidents, i, m) /\ dirty[t][i] = None
    BY <1>2 DEF OpenAt
<1>7. IndexedOnce'
    BY <1>1, <1>6 DEF RowsInv, IndexedOnce, OpenAt
<1>8. CommittedOnce'
    BY <1>6 DEF RowsInv, IndexedOnce, CommittedOnce, OpenAt
<1> QED
    BY <1>4, <1>5, <1>7, <1>8 DEF RowsInv

\* Ending a transaction leaves the task idle and without rows, and takes no
\* lock from the others.
LEMMA EndShape ==
    ASSUME TypeOK, TaskShape, NEW t \in Tasks, ClearTask(t), rowLock' = Unlocked(t)
    PROVE  TaskShape'
<1>1. /\ pc'[t] = "idle" /\ \A i \in Ids : dirty'[t][i] = None
      /\ \A u \in Tasks \ {t} : /\ pc'[u] = pc[u] /\ dirty'[u] = dirty[u]
                               /\ job'[u] = job[u] /\ opening'[u] = opening[u]
      /\ \A u \in Tasks \ {t}, m \in Monitors : rowLock[m] = u => rowLock'[m] = u
    BY DEF ClearTask, NoWrites, Unlocked, TypeOK
<1>2. \A u \in Tasks : pc[u] # "idle" => job[u].monitor \in Monitors
    BY DEF TaskShape, TypeOK, Job
<1> QED
    BY <1>1, <1>2 DEF TaskShape

LEMMA RollbackIndex ==
    ASSUME TypeOK, IndexInv, NEW t \in Tasks, Rollback(t)
    PROVE  IndexInv'
<1>1. TaskShape'
    BY EndShape DEF Rollback, IndexInv
<1>2. RowsInv'
    BY RollbackRows DEF RowsInv, IndexInv
<1> QED
    BY <1>1, <1>2 DEF IndexInv, RowsInv

\* Every step keeps IndexInv.
LEMMA NextIndex ==
    ASSUME TypeOK, IndexInv, [Next]_vars
    PROVE  IndexInv'
<1> USE DEF envvars, dbvars, taskvars
<1>a. TaskShape /\ RowsInv
    BY DEF IndexInv, RowsInv
<1>c. \A t \in Tasks : pc[t] # "idle" => job[t] \in Job /\ job[t].monitor \in Monitors
    BY <1>a DEF TaskShape, TypeOK, Job
<1>d. ASSUME NEW t \in Tasks, Rollback(t)
      PROVE  TaskShape' /\ RowsInv'
    BY <1>d, RollbackIndex DEF IndexInv, RowsInv
<1>1. ASSUME NEW t \in Tasks, NEW m \in Monitors, NEW p \in Probes,
             NEW down \in BOOLEAN, NEW late \in BOOLEAN, Receive(t, m, p, down, late)
      PROVE  TaskShape' /\ RowsInv'
  <2>1. /\ pc'[t] = "process" /\ job'[t].monitor = m
        /\ job'[t] = [monitor |-> m, probe |-> p, down |-> down, late |-> late]
        /\ \A u \in Tasks \ {t} : pc'[u] = pc[u] /\ job'[u] = job[u]
        /\ UNCHANGED <<dirty, rowLock, opening, incidents>>
    BY <1>1 DEF Receive, TypeOK
  <2>2. pc[t] = "idle" /\ \A i \in Ids : dirty[t][i] = None
    BY <1>1, <1>a DEF Receive, TaskShape
  <2>3. job'[t] # None
    BY <2>1, NoRowAssumption DEF Job
  <2>4. TaskShape'
    BY <1>a, <2>1, <2>2, <2>3 DEF TaskShape
  <2>5. RowsInv'
    BY <1>a, <2>1, <2>2, FrameRows
  <2> QED
    BY <2>4, <2>5
<1>2. ASSUME NEW t \in Tasks,
             ProcessResult(t) \/ ReadHealth(t) \/ \E r \in Rules : SkipRule(t, r)
      PROVE  TaskShape' /\ RowsInv'
  <2>1. /\ UNCHANGED <<incidents, dirty, rowLock, job, opening>>
        /\ pc[t] # "idle"
        /\ pc'[t] = pc[t] \/ pc'[t] \in {"audit", "ingest", "create", "update"}
        /\ \A u \in Tasks \ {t} : pc'[u] = pc[u]
    BY <1>2 DEF ProcessResult, ReadHealth, SkipRule, TypeOK
  <2>2. TaskShape'
    BY <1>a, <2>1 DEF TaskShape
  <2>3. RowsInv'
    BY <1>a, <2>1, FrameRows
  <2> QED
    BY <2>2, <2>3
<1>3. ASSUME NEW t \in Tasks, AuditInsert(t)
      PROVE  TaskShape' /\ RowsInv'
  <2>1. CASE Rollback(t)
    BY <2>1, <1>d
  <2>2. CASE ~Rollback(t)
    <3> DEFINE row == [monitor |-> job[t].monitor, rule |-> None,
                       open |-> TRUE, silent |-> TRUE]
    <3>1. /\ pc[t] = "audit" /\ pc' = [pc EXCEPT ![t] = "ingest"]
          /\ ~IndexHeld(t, job[t].monitor) /\ OpenIn(Visible(t), job[t].monitor) = {}
          /\ UNCHANGED <<incidents, rowLock, job, opening>>
      BY <1>3, <2>2 DEF AuditInsert
    <3>2. PICK i \in FreeIds : dirty' = [dirty EXCEPT ![t][i] = row]
      BY <1>3, <2>2 DEF AuditInsert
    <3>3. row \in Incident /\ row.monitor = job[t].monitor
      BY <1>c, <3>1 DEF Incident
    <3>4. RowsInv'
      BY <1>a, <3>1, <3>2, <3>3, InsertRows
    <3>5. \A u \in Tasks \ {t} : dirty'[u] = dirty[u] /\ pc'[u] = pc[u]
      BY <3>1, <3>2 DEF TypeOK
    <3>6. pc'[t] = "ingest"
      BY <3>1 DEF TypeOK
    <3>7. TaskShape'
      BY <1>a, <3>1, <3>5, <3>6 DEF TaskShape
    <3> QED
      BY <3>4, <3>7
  <2> QED
    BY <2>1, <2>2
<1>4. ASSUME NEW t \in Tasks, CreateHealth(t) \/ UpdateHealth(t)
      PROVE  TaskShape' /\ RowsInv'
  <2>1. CASE Rollback(t)
    BY <2>1, <1>d
  <2>2. CASE ~Rollback(t)
    <3> DEFINE m == job[t].monitor
    <3>1. pc[t] # "idle" /\ job[t] # None /\ m \in Monitors
      BY <1>4, <1>a, <1>c DEF CreateHealth, UpdateHealth, TaskShape
    <3>2. /\ rowLock[m] \in {None, t} /\ rowLock' = [rowLock EXCEPT ![m] = t]
          /\ UNCHANGED <<incidents, dirty, job, opening>>
          /\ pc' = [pc EXCEPT ![t] = "update"] \/ pc' = [pc EXCEPT ![t] = "rules"]
      BY <1>4, <2>2 DEF CreateHealth, UpdateHealth
    <3>3. /\ pc'[t] \in {"update", "rules"} /\ rowLock'[m] = t
          /\ \A u \in Tasks \ {t} : pc'[u] = pc[u]
      BY <3>1, <3>2 DEF TypeOK
    <3>4. \A u \in Tasks, n \in Monitors : rowLock[n] = u => rowLock'[n] = u
      BY <3>1, <3>2, EngineAssumption DEF TypeOK, EngineAssumption
    <3>5. RowsInv'
      BY <1>a, <3>2, <3>4, FrameRows
    <3>6. TaskShape'
      BY <1>a, <1>c, <3>1, <3>2, <3>3, <3>4 DEF TaskShape
    <3> QED
      BY <3>5, <3>6
  <2> QED
    BY <2>1, <2>2
<1>5. ASSUME NEW t \in Tasks, NEW r \in Rules, CloseRule(t, r)
      PROVE  TaskShape' /\ RowsInv'
  <2>1. /\ pc[t] = "rules"
        /\ UNCHANGED <<incidents, rowLock, pc, job, opening>>
    BY <1>5 DEF CloseRule
  <2>2. PICK i \in OpenOfRule(Visible(t), job[t].monitor, r) :
           dirty' = [dirty EXCEPT ![t][i] = [Visible(t)[i] EXCEPT !.open = FALSE]]
    BY <1>5 DEF CloseRule
  <2>3. i \in Ids /\ Visible(t)[i] # None /\ Visible(t)[i].monitor = job[t].monitor
    BY DEF OpenOfRule, OpenIn
  <2>4. rowLock[job[t].monitor] = t
    BY <1>a, <2>1 DEF TaskShape
  <2>5. RowsInv'
    BY <1>a, <2>1, <2>2, <2>3, <2>4, CloseRows
  <2>6. \A u \in Tasks \ {t} : dirty'[u] = dirty[u]
    BY <2>2 DEF TypeOK
  <2>7. TaskShape'
    BY <1>a, <2>1, <2>6 DEF TaskShape
  <2> QED
    BY <2>5, <2>7
<1>6. ASSUME NEW t \in Tasks, NEW r \in Rules, OpenRule(t, r)
      PROVE  TaskShape' /\ RowsInv'
  <2> DEFINE row == [monitor |-> job[t].monitor, rule |-> r, open |-> TRUE,
                     silent |-> HasAncestorIncident(Visible(t), job[t].monitor)]
  <2>1. /\ pc[t] = "rules" /\ pc' = [pc EXCEPT ![t] = "insert"]
        /\ opening' = [opening EXCEPT ![t] = row]
        /\ UNCHANGED <<incidents, dirty, rowLock, job>>
    BY <1>6 DEF OpenRule
  <2>2. row \in Incident /\ row.monitor = job[t].monitor
    BY <1>c, <2>1 DEF Incident, HasAncestorIncident
  <2>3. opening'[t] # None /\ opening'[t].monitor = job[t].monitor /\ pc'[t] = "insert"
    BY <2>1, <2>2, NoRowAssumption DEF TypeOK
  <2>4. \A u \in Tasks \ {t} : pc'[u] = pc[u] /\ opening'[u] = opening[u]
    BY <2>1 DEF TypeOK
  <2>5. TaskShape'
    BY <1>a, <2>1, <2>3, <2>4 DEF TaskShape
  <2>6. RowsInv'
    BY <1>a, <2>1, FrameRows
  <2> QED
    BY <2>5, <2>6
<1>7. ASSUME NEW t \in Tasks, OpenInsert(t)
      PROVE  TaskShape' /\ RowsInv'
  <2>1. CASE Rollback(t)
    BY <2>1, <1>d
  <2>2. CASE ~Rollback(t)
    <3>1. /\ pc[t] = "insert" /\ pc' = [pc EXCEPT ![t] = "rules"]
          /\ ~IndexHeld(t, job[t].monitor) /\ OpenIn(Visible(t), job[t].monitor) = {}
          /\ opening' = [opening EXCEPT ![t] = None]
          /\ UNCHANGED <<incidents, rowLock, job>>
      BY <1>7, <2>2 DEF OpenInsert
    <3>2. PICK i \in FreeIds : dirty' = [dirty EXCEPT ![t][i] = opening[t]]
      BY <1>7, <2>2 DEF OpenInsert
    <3>3. opening[t] \in Incident /\ opening[t].monitor = job[t].monitor
      BY <1>a, <3>1 DEF TaskShape, TypeOK
    <3>4. RowsInv'
      BY <1>a, <3>1, <3>2, <3>3, InsertRows
    <3>5. /\ pc'[t] = "rules"
          /\ \A u \in Tasks \ {t} : /\ dirty'[u] = dirty[u] /\ pc'[u] = pc[u]
                                   /\ opening'[u] = opening[u]
      BY <3>1, <3>2 DEF TypeOK
    <3>6. TaskShape'
      BY <1>a, <3>1, <3>5 DEF TaskShape
    <3> QED
      BY <3>4, <3>6
  <2> QED
    BY <2>1, <2>2
<1>8. ASSUME NEW t \in Tasks, Commit(t)
      PROVE  TaskShape' /\ RowsInv'
  <2>1. RowsInv'
    BY <1>a, <1>8, CommitRows
  <2>2. TaskShape'
    BY <1>a, <1>8, EndShape DEF Commit
  <2> QED
    BY <2>1, <2>2
<1>9. ASSUME NEW t \in Tasks, DeadlockVictim(t) \/ Crash(t)
      PROVE  TaskShape' /\ RowsInv'
    BY <1>9, <1>d DEF DeadlockVictim, Crash
<1>10. ASSUME Environment
       PROVE  TaskShape' /\ RowsInv'
  <2>1. ASSUME UNCHANGED <<incidents, rowLock, taskvars>>
        PROVE  TaskShape' /\ RowsInv'
    <3>1. TaskShape'
      BY <1>a, <2>1 DEF TaskShape
    <3>2. RowsInv'
      BY <1>a, <2>1, FrameRows
    <3> QED
      BY <3>1, <3>2
  <2>2. ASSUME NEW i \in Ids, CooldownElapses(i)
        PROVE  TaskShape' /\ RowsInv'
    <3>1. /\ UNCHANGED <<rowLock, pc, job, opening, dirty>>
          /\ incidents'[i] = None
          /\ \A j \in Ids \ {i} : incidents'[j] = incidents[j]
      BY <2>2 DEF CooldownElapses, TypeOK
    <3>2. TaskShape'
      BY <1>a, <3>1 DEF TaskShape
    <3>3. WriteShape' /\ WritesDisjoint'
      BY <1>a, <3>1 DEF RowsInv, WriteShape, WritesDisjoint
    <3>4. IndexedOnce' /\ CommittedOnce'
      BY <1>a, <3>1 DEF RowsInv, IndexedOnce, CommittedOnce, OpenAt
    <3> QED
      BY <3>2, <3>3, <3>4 DEF RowsInv
  <2>3. ASSUME NEW m \in Monitors, NEW r \in Rules, DeleteRule(m, r)
        PROVE  TaskShape' /\ RowsInv'
    <3>1. /\ UNCHANGED <<rowLock, pc, job, opening, dirty>>
          /\ \A j \in Ids : \/ incidents'[j] = incidents[j]
                          \/ /\ incidents[j] # None
                             /\ incidents'[j] = [incidents[j] EXCEPT !.rule = None]
      BY <2>3 DEF DeleteRule
    <3>2. \A j \in Ids : incidents[j] # None =>
                           /\ incidents'[j].monitor = incidents[j].monitor
                           /\ incidents'[j].open = incidents[j].open
      BY <3>1 DEF TypeOK, Incident
    <3>3. \A j \in Ids : incidents'[j] # None => incidents[j] # None
      BY <3>1
    <3>4. TaskShape'
      BY <1>a, <3>1 DEF TaskShape
    <3>5. WriteShape' /\ WritesDisjoint'
      BY <1>a, <3>1, <3>2, <3>3 DEF RowsInv, WriteShape, WritesDisjoint
    <3>6. \A j \in Ids, n \in Monitors : OpenAt(incidents', j, n) => OpenAt(incidents, j, n)
      BY <3>2, <3>3 DEF OpenAt
    <3>7. IndexedOnce' /\ CommittedOnce'
      BY <1>a, <3>1, <3>6 DEF RowsInv, IndexedOnce, CommittedOnce, OpenAt
    <3> QED
      BY <3>4, <3>5, <3>7 DEF RowsInv
  <2>4. ASSUME NEW m \in Monitors, ChangeRegime(m) \/ ToggleWindow(m)
        PROVE  TaskShape' /\ RowsInv'
    BY <2>1, <2>4 DEF ChangeRegime, ToggleWindow
  <2>5. ASSUME NEW m \in Monitors, NEW p \in Probes, SampleAges(m, p)
        PROVE  TaskShape' /\ RowsInv'
    BY <2>1, <2>5 DEF SampleAges
  <2>6. ASSUME NEW m \in Monitors, NEW r \in Rules, SwitchRule(m, r)
        PROVE  TaskShape' /\ RowsInv'
    BY <2>1, <2>6 DEF SwitchRule
  <2> QED
    BY <1>10, <2>2, <2>3, <2>4, <2>5, <2>6 DEF Environment
<1>11. ASSUME UNCHANGED vars
       PROVE  TaskShape' /\ RowsInv'
  <2>1. TaskShape'
    BY <1>a, <1>11 DEF TaskShape, vars
  <2>2. RowsInv'
    BY <1>a, <1>11, FrameRows DEF vars
  <2> QED
    BY <2>1, <2>2
<1>12. TaskShape' /\ RowsInv'
    BY <1>1, <1>2, <1>3, <1>4, <1>5, <1>6, <1>7, <1>8, <1>9, <1>10, <1>11
    DEF Next, Progress
<1> QED
    BY <1>12 DEF IndexInv, RowsInv

-----------------------------------------------------------------------------
(* The theorems                                                             *)

\* Together the two invariants are inductive.
THEOREM EngineInvariant == Spec => [](TypeOK /\ IndexInv)
<1>1. Init => TypeOK /\ IndexInv
    BY InitType, InitIndex
<1>2. TypeOK /\ IndexInv /\ [Next]_vars => TypeOK' /\ IndexInv'
  <2>1. IndexInv => TaskShape
    BY DEF IndexInv
  <2> QED
    BY <2>1, NextType, NextIndex
<1> QED
    BY <1>1, <1>2, PTL DEF Spec

\* Every variable keeps its type: no handler indexes a health row, a rule or
\* an incident that is not there.
THEOREM TypeCorrect == Spec => []TypeOK
    BY EngineInvariant, PTL

\* However many results of a monitor are handled at once, whatever happens to
\* their transactions, and whichever rules are switched, deleted or suspended
\* by maintenance meanwhile, two open incidents of a monitor never coexist.
THEOREM OneOpenIncidentHolds == Spec => []OneOpenIncident
<1>1. CommittedOnce => OneOpenIncident
  <2> SUFFICES ASSUME CommittedOnce, NEW m \in Monitors
               PROVE  Cardinality(OpenIn(incidents, m)) <= 1
    BY DEF OneOpenIncident
  <2>1. CASE OpenIn(incidents, m) = {}
    BY <2>1, FS_EmptySet
  <2>2. CASE OpenIn(incidents, m) # {}
    <3>1. PICK i \in Ids : OpenAt(incidents, i, m)
      BY <2>2 DEF OpenIn, OpenAt
    <3>2. OpenIn(incidents, m) = {i}
      BY <3>1 DEF OpenIn, OpenAt, CommittedOnce
    <3>3. Cardinality({i}) = 1
      BY FS_Singleton
    <3> QED
      BY <3>2, <3>3
  <2> QED
    BY <2>1, <2>2
<1>2. IndexInv => CommittedOnce
    BY DEF IndexInv
<1> QED
    BY <1>1, <1>2, EngineInvariant, PTL
-----------------------------------------------------------------------------
\* The conditions of the refinement.
OneRule == \A r, q \in Rules : r = q
TasksComplete == "crash" \notin Faults

\* A task holds the health row of its own monitor, from the UPDATE to the end.
LockShape ==
    \A t \in Tasks, m \in Monitors :
        rowLock[m] = t => /\ job[t] # None /\ job[t].monitor = m
                          /\ pc[t] \in {"update", "rules", "insert"}

\* What a task writes before it has done with its rule is a silent incident of
\* its own (the audit trail of a maintenance window).
AuditOnly ==
    \A t \in Tasks, i \in Ids :
        dirty[t][i] # None =>
            \/ incidents[i] = None /\ dirty[t][i].silent
            \/ pc[t] = "rules" /\ todo[t] = {}

OpeningShape ==
    \A t \in Tasks :
        pc[t] = "insert" => opening[t].rule \in Rules /\ opening[t].open

\* The status of a monitor in some rows.
StatusOf(rows, m) ==
    IF \E i \in Ids : OpenAt(rows, i, m) /\ ~rows[i].silent THEN "audible"
    ELSE IF \E i \in Ids : OpenAt(rows, i, m) THEN "silent"
    ELSE "none"

PagedOnce ==
    \A m \in Monitors : paged[m] = IF StatusOf(Current(m), m) = "audible" THEN 1 ELSE 0

TaskInv == TypeOK /\ IndexInv /\ LockShape /\ AuditOnly /\ OpeningShape
PagerInv == TaskInv /\ PagedOnce

-----------------------------------------------------------------------------
(* Rows and their status                                                    *)

Rows == [Ids -> Incident \cup {None}]

\* StatusOf is the Status of IncidentEngine.
LEMMA StatusMeaning ==
    ASSUME NEW rows \in Rows, NEW m \in Monitors
    PROVE  LET open == {rows[i].silent : i \in OpenIn(rows, m)}
           IN  (IF open = {} THEN "none" ELSE IF FALSE \in open THEN "audible" ELSE "silent")
               = StatusOf(rows, m)
<1> DEFINE open == {rows[i].silent : i \in OpenIn(rows, m)}
<1>1. \A i \in Ids : i \in OpenIn(rows, m) <=> OpenAt(rows, i, m)
  BY DEF OpenIn, OpenAt
<1>2. \A i \in OpenIn(rows, m) : i \in Ids /\ rows[i].silent \in BOOLEAN
  BY DEF Rows, Incident, OpenIn
<1>3. open = {} <=> ~ \E i \in Ids : OpenAt(rows, i, m)
  BY <1>1, <1>2
<1>4. FALSE \in open <=> \E i \in Ids : OpenAt(rows, i, m) /\ ~rows[i].silent
  BY <1>1, <1>2
<1> QED BY <1>3, <1>4 DEF StatusOf

LEMMA CurrentRows ==
    ASSUME TypeOK
    PROVE  /\ \A t \in Tasks : Visible(t) \in Rows
           /\ incidents \in Rows
           /\ \A m \in Monitors : Current(m) \in Rows
  BY DEF TypeOK, Visible, Current, Rows

\* Two sets of rows with the same open incidents give the same status.
LEMMA SameStatus ==
    ASSUME NEW R, NEW S, NEW m,
           \A i \in Ids : OpenAt(R, i, m) => OpenAt(S, i, m) /\ S[i].silent = R[i].silent,
           \A i \in Ids : OpenAt(S, i, m) => OpenAt(R, i, m) /\ S[i].silent = R[i].silent
    PROVE  StatusOf(R, m) = StatusOf(S, m)
  BY DEF StatusOf

\* Nobody is no task.
LEMMA NoTask == \A t \in Tasks : t # None
  BY EngineAssumption DEF EngineAssumption

\* A task that holds the health row sees at most one open incident.
LEMMA OneVisible ==
    ASSUME TypeOK, IndexInv, NEW t \in Tasks, NEW m \in Monitors,
           NEW i \in Ids, NEW j \in Ids,
           OpenAt(Visible(t), i, m), OpenAt(Visible(t), j, m)
    PROVE  i = j
  BY DEF IndexInv, IndexedOnce, CommittedOnce, OpenAt, Visible

-----------------------------------------------------------------------------
(* What a step does to the status of each monitor                           *)

\* Nothing, or one of the four moves of IncidentLifecycle.
Still(m) ==
    /\ StatusOf(Current(m)', m) = StatusOf(Current(m), m)
    /\ paged'[m] = paged[m]

Goes(m, from, to) ==
    StatusOf(Current(m), m) = from /\ StatusOf(Current(m)', m) = to

Moves(m) ==
    \/ Goes(m, "none", "audible") /\ paged' = [paged EXCEPT ![m] = @ + 1]
    \/ Goes(m, "none", "silent") /\ UNCHANGED paged
    \/ Goes(m, "audible", "none") /\ paged' = [paged EXCEPT ![m] = @ - 1]
    \/ Goes(m, "silent", "none") /\ UNCHANGED paged

Transition ==
    \/ \A m \in Monitors : Still(m)
    \/ \E m \in Monitors : Moves(m) /\ \A n \in Monitors \ {m} : Still(n)

\* Steps that touch no row, no lock and no page, the Receive of an idle task
\* among them.
LEMMA QuietTransition ==
    ASSUME UNCHANGED <<incidents, dirty, rowLock, paged>>
    PROVE  Transition
<1>1. \A m \in Monitors : Current(m)' = Current(m)
  BY DEF Current, Visible
<1> QED BY <1>1 DEF Transition, Still

\* A rollback withdraws silent incidents at most.
LEMMA RollbackTransition ==
    ASSUME TaskInv, NEW t \in Tasks, Rollback(t), ~ (pc[t] = "rules" /\ todo[t] = {}),
           job[t].monitor \in Monitors
    PROVE  Transition
<1>m. PICK m \in Monitors : m = job[t].monitor
  OBVIOUS
<1>0. TypeOK /\ IndexInv /\ LockShape /\ AuditOnly
  BY DEF TaskInv
<1>1. /\ UNCHANGED <<incidents, paged>>
      /\ rowLock' = Unlocked(t)
      /\ \A u \in Tasks \ {t} : dirty'[u] = dirty[u]
  BY <1>0 DEF Rollback, ClearTask, TypeOK
<1>2. \A i \in Ids : dirty[t][i] # None => incidents[i] = None /\ dirty[t][i].silent
  BY <1>0 DEF AuditOnly
<1>3. ASSUME NEW n \in Monitors, rowLock[n] # t
      PROVE  Still(n)
  <2>1. rowLock'[n] = rowLock[n] /\ rowLock[n] \in Tasks \cup {None}
    BY <1>0, <1>1, <1>3 DEF Unlocked, TypeOK
  <2>2. Current(n)' = Current(n)
    BY <1>1, <1>3, <2>1 DEF Current, Visible
  <2> QED BY <1>1, <2>2 DEF Still
<1>4. CASE rowLock[m] = t
  <2>1. Current(m) = Visible(t) /\ Current(m)' = incidents
    <3>1. rowLock[m] # None /\ rowLock'[m] = None
      BY <1>0, <1>1, <1>4, NoTask DEF Unlocked
    <3> QED BY <1>1, <1>4, <3>1 DEF Current
  <2>2. \/ StatusOf(incidents, m) = StatusOf(Visible(t), m)
        \/ StatusOf(incidents, m) = "none" /\ StatusOf(Visible(t), m) = "silent"
    <3>1. \A i \in Ids : OpenAt(incidents, i, m) =>
             OpenAt(Visible(t), i, m) /\ Visible(t)[i].silent = incidents[i].silent
      BY <1>2 DEF OpenAt, Visible
    <3>2. \A i \in Ids : OpenAt(Visible(t), i, m) =>
             \/ Visible(t)[i].silent
             \/ OpenAt(incidents, i, m) /\ Visible(t)[i].silent = incidents[i].silent
      BY <1>2 DEF OpenAt, Visible
    <3> QED BY <3>1, <3>2 DEF StatusOf
  <2>3. Still(m) \/ Moves(m)
    BY <1>1, <2>1, <2>2 DEF Still, Moves, Goes
  <2>4. \A n \in Monitors \ {m} : rowLock[n] # t
    BY <1>0, <1>m DEF LockShape
  <2> QED BY <1>3, <2>3, <2>4 DEF Transition
<1>5. CASE rowLock[m] # t
  <2>1. \A n \in Monitors : rowLock[n] # t
    BY <1>0, <1>5, <1>m DEF LockShape
  <2> QED BY <1>3, <2>1 DEF Transition
<1> QED BY <1>4, <1>5

\* The audit incident of a task without the health row is seen by nobody yet.
LEMMA AuditTransition ==
    ASSUME TaskInv, NEW t \in Tasks, AuditInsert(t), ~Rollback(t)
    PROVE  Transition
<1>1. /\ pc[t] = "audit" /\ UNCHANGED <<incidents, rowLock, paged>>
      /\ \A u \in Tasks \ {t} : dirty'[u] = dirty[u]
  BY DEF AuditInsert, TaskInv, TypeOK, dbvars
<1>2. \A n \in Monitors : rowLock[n] # t /\ rowLock[n] \in Tasks \cup {None}
  BY <1>1 DEF TaskInv, LockShape, TypeOK
<1>3. \A n \in Monitors : Current(n)' = Current(n)
  BY <1>1, <1>2 DEF Current, Visible
<1> QED BY <1>1, <1>3 DEF Transition, Still

\* Taking the health row brings the task's own silent incidents to light.
LEMMA LockTransition ==
    ASSUME TaskInv, NEW t \in Tasks, CreateHealth(t) \/ UpdateHealth(t), ~Rollback(t),
           job[t].monitor \in Monitors
    PROVE  Transition
<1>m. PICK m \in Monitors : m = job[t].monitor
  OBVIOUS
<1>0. TypeOK /\ IndexInv /\ LockShape /\ AuditOnly
  BY DEF TaskInv
<1>1. /\ pc[t] \in {"create", "update"} /\ rowLock[m] \in {None, t}
      /\ rowLock' = [rowLock EXCEPT ![m] = t]
      /\ UNCHANGED <<incidents, dirty, paged>>
  BY <1>m DEF CreateHealth, UpdateHealth
<1>2. \A i \in Ids : dirty[t][i] # None => incidents[i] = None /\ dirty[t][i].silent
  BY <1>0, <1>1 DEF AuditOnly
<1>3. rowLock'[m] = t /\ \A n \in Monitors \ {m} : rowLock'[n] = rowLock[n]
  BY <1>0, <1>1 DEF TypeOK
<1>4. \A n \in Monitors \ {m} : Still(n)
  BY <1>1, <1>3 DEF Still, Current, Visible
<1>5. Current(m)' = Visible(t) /\ Current(m) \in {incidents, Visible(t)}
  <2>1. t # None
    BY NoTask
  <2>2. Current(m)' = Visible(t)
    BY <1>1, <1>3, <2>1 DEF Current, Visible
  <2>3. Current(m) \in {incidents, Visible(t)}
    BY <1>1, <2>1 DEF Current
  <2> QED BY <2>2, <2>3
<1>6. \/ StatusOf(incidents, m) = StatusOf(Visible(t), m)
      \/ StatusOf(incidents, m) = "none" /\ StatusOf(Visible(t), m) = "silent"
  <2>1. \A i \in Ids : OpenAt(incidents, i, m) =>
           OpenAt(Visible(t), i, m) /\ Visible(t)[i].silent = incidents[i].silent
    BY <1>2 DEF OpenAt, Visible
  <2>2. \A i \in Ids : OpenAt(Visible(t), i, m) =>
           \/ Visible(t)[i].silent
           \/ OpenAt(incidents, i, m) /\ Visible(t)[i].silent = incidents[i].silent
    BY <1>2 DEF OpenAt, Visible
  <2> QED BY <2>1, <2>2 DEF StatusOf
<1>7. Still(m) \/ Moves(m)
  BY <1>1, <1>5, <1>6 DEF Still, Moves, Goes
<1> QED BY <1>4, <1>7 DEF Transition

\* The resolution: the only open incident of the monitor closes, and is announced
\* when it had been.
LEMMA CloseTransition ==
    ASSUME PagerInv, NEW t \in Tasks, NEW r \in Rules, CloseRule(t, r),
           job[t].monitor \in Monitors
    PROVE  Transition
<1>0. TypeOK /\ IndexInv /\ LockShape /\ PagedOnce /\ TaskShape
  BY DEF PagerInv, TaskInv, IndexInv
<1>m. PICK m \in Monitors : m = job[t].monitor
  OBVIOUS
<1>1. /\ pc[t] = "rules" /\ rowLock[m] = t /\ UNCHANGED <<incidents, rowLock>>
  BY <1>0, <1>m DEF CloseRule, TaskShape, dbvars
<1>2. PICK i \in Ids :
         /\ OpenAt(Visible(t), i, m)
         /\ dirty' = [dirty EXCEPT ![t][i] = [Visible(t)[i] EXCEPT !.open = FALSE]]
         /\ IF Visible(t)[i].silent THEN UNCHANGED paged ELSE Clear(m)
  BY <1>m DEF CloseRule, OpenOfRule, OpenIn, OpenAt
<1>3. /\ \A u \in Tasks \ {t} : dirty'[u] = dirty[u]
      /\ \A j \in Ids \ {i} : dirty'[t][j] = dirty[t][j]
      /\ dirty'[t][i] = [Visible(t)[i] EXCEPT !.open = FALSE]
  BY <1>0, <1>2 DEF TypeOK
<1>4. \A n \in Monitors \ {m} : Current(n)' = Current(n)
  <2>1. \A n \in Monitors \ {m} : rowLock[n] # t /\ rowLock[n] \in Tasks \cup {None}
    BY <1>0, <1>m DEF LockShape, TypeOK
  <2> QED BY <1>1, <1>3, <2>1 DEF Current, Visible
<1>5. Current(m) = Visible(t) /\ Current(m)' = Visible(t)'
  BY <1>1, NoTask DEF Current
<1>6. \A j \in Ids : OpenAt(Visible(t), j, m) => j = i
  BY <1>0, <1>2, OneVisible
<1>7. \A j \in Ids : ~OpenAt(Visible(t)', j, m)
  <2>1. Visible(t)[i] \in Incident
    BY <1>0, <1>2, VisibleType DEF OpenAt
  <2>2. dirty'[t][i] \in Incident /\ dirty'[t][i].open = FALSE
    BY <1>3, <2>1, ClosedRow
  <2>3. \A j \in Ids \ {i} : Visible(t)'[j] = Visible(t)[j]
    BY <1>1, <1>3 DEF Visible
  <2>4. dirty'[t][i] # None
    BY <2>2, NoRowAssumption
  <2>5. Visible(t)'[i] = dirty'[t][i]
    BY <2>4 DEF Visible
  <2> QED BY <1>6, <2>2, <2>3, <2>5 DEF OpenAt
<1>8. StatusOf(Visible(t)', m) = "none"
  BY <1>7 DEF StatusOf
<1>9. CASE Visible(t)[i].silent
  <2>1. StatusOf(Visible(t), m) = "silent"
    BY <1>2, <1>6, <1>9 DEF StatusOf
  <2>2. Goes(m, "silent", "none") /\ UNCHANGED paged
    BY <1>2, <1>5, <1>8, <1>9, <2>1 DEF Goes
  <2> QED BY <1>4, <2>2 DEF Transition, Moves, Still
<1>10. CASE ~Visible(t)[i].silent
  <2>1. StatusOf(Visible(t), m) = "audible"
    BY <1>2, <1>10 DEF StatusOf
  <2>2. paged[m] = 1
    BY <1>0, <1>5, <2>1 DEF PagedOnce
  <2>3. paged' = [paged EXCEPT ![m] = @ - 1]
    BY <1>0, <1>2, <1>10, <2>2 DEF Clear, TypeOK
  <2>4. Moves(m)
    BY <1>5, <1>8, <2>1, <2>3 DEF Moves, Goes
  <2>5. \A n \in Monitors \ {m} : Still(n)
    BY <1>0, <1>4, <2>3 DEF Still, TypeOK
  <2> QED BY <2>4, <2>5 DEF Transition
<1> QED BY <1>9, <1>10

\* The opening: the monitor had no open incident, and is paged unless the new one
\* is suppressed.
LEMMA OpenTransition ==
    ASSUME PagerInv, NEW t \in Tasks, OpenInsert(t), ~Rollback(t),
           job[t].monitor \in Monitors
    PROVE  Transition
<1>0. TypeOK /\ IndexInv /\ LockShape /\ PagedOnce /\ TaskShape /\ OpeningShape
  BY DEF PagerInv, TaskInv, IndexInv
<1>m. PICK m \in Monitors : m = job[t].monitor
  OBVIOUS
<1>1. /\ pc[t] = "insert" /\ rowLock[m] = t /\ UNCHANGED <<incidents, rowLock>>
      /\ opening[t] \in Incident /\ opening[t].monitor = m /\ opening[t].open
  BY <1>0, <1>m DEF OpenInsert, TaskShape, OpeningShape, dbvars, TypeOK
<1>2. \A j \in Ids : ~OpenAt(Visible(t), j, m)
  BY <1>m DEF OpenInsert, OpenIn, OpenAt
<1>p. PICK o \in Incident : o = opening[t]
  BY <1>1
<1>3. PICK i \in Ids : dirty' = [dirty EXCEPT ![t][i] = o]
  BY <1>p DEF OpenInsert, FreeIds
<1>4. IF o.silent THEN UNCHANGED paged ELSE Ring(m)
  BY <1>m, <1>p DEF OpenInsert
<1>5. /\ \A u \in Tasks \ {t} : dirty'[u] = dirty[u]
      /\ \A j \in Ids \ {i} : dirty'[t][j] = dirty[t][j]
      /\ dirty'[t][i] = o
  BY <1>0, <1>3 DEF TypeOK
<1>6. \A n \in Monitors \ {m} : Current(n)' = Current(n)
  <2>1. \A n \in Monitors \ {m} : rowLock[n] # t /\ rowLock[n] \in Tasks \cup {None}
    BY <1>0, <1>m DEF LockShape, TypeOK
  <2> QED BY <1>1, <1>5, <2>1 DEF Current, Visible
<1>7. Current(m) = Visible(t) /\ Current(m)' = Visible(t)'
  BY <1>1, NoTask DEF Current
<1>8. /\ \A j \in Ids \ {i} : ~OpenAt(Visible(t)', j, m)
      /\ OpenAt(Visible(t)', i, m) /\ Visible(t)'[i].silent = o.silent
  <2>1. o # None
    BY NoRowAssumption
  <2>2. Visible(t)'[i] = o
    BY <1>5, <2>1 DEF Visible
  <2>3. \A j \in Ids \ {i} : Visible(t)'[j] = Visible(t)[j]
    BY <1>1, <1>5 DEF Visible
  <2> QED BY <1>1, <1>2, <1>p, <2>1, <2>2, <2>3 DEF OpenAt
<1>9. /\ StatusOf(Visible(t), m) = "none"
      /\ StatusOf(Visible(t)', m) = IF o.silent THEN "silent" ELSE "audible"
  BY <1>2, <1>8 DEF StatusOf
<1>10. CASE o.silent
  <2>1. Goes(m, "none", "silent") /\ UNCHANGED paged
    BY <1>4, <1>7, <1>9, <1>10 DEF Goes
  <2> QED BY <1>6, <2>1 DEF Transition, Moves, Still
<1>11. CASE ~o.silent
  <2>1. paged[m] = 0
    BY <1>0, <1>7, <1>9 DEF PagedOnce
  <2>2. paged' = [paged EXCEPT ![m] = @ + 1]
    BY <1>0, <1>4, <1>11, <2>1 DEF Ring, TypeOK
  <2>3. Moves(m)
    BY <1>7, <1>9, <1>11, <2>2 DEF Moves, Goes
  <2>4. \A n \in Monitors \ {m} : Still(n)
    BY <1>0, <1>6, <2>2 DEF Still, TypeOK
  <2> QED BY <2>3, <2>4 DEF Transition
<1> QED BY <1>10, <1>11

\* The COMMIT publishes what the task saw.
LEMMA CommitTransition ==
    ASSUME TaskInv, NEW t \in Tasks, Commit(t), job[t].monitor \in Monitors
    PROVE  Transition
<1>0. TypeOK /\ IndexInv /\ LockShape /\ TaskShape /\ WriteShape
  BY DEF TaskInv, IndexInv
<1>m. PICK m \in Monitors : m = job[t].monitor
  OBVIOUS
<1>1. /\ rowLock[m] = t /\ rowLock' = Unlocked(t) /\ UNCHANGED paged
      /\ incidents' = Visible(t)
      /\ \A u \in Tasks \ {t} : dirty'[u] = dirty[u]
  BY <1>0, <1>m DEF Commit, ClearTask, TaskShape, TypeOK
<1>2. Current(m)' = Current(m)
  <2>1. rowLock'[m] = None
    BY <1>1 DEF Unlocked
  <2> QED BY <1>1, <2>1, NoTask DEF Current
<1>3. ASSUME NEW n \in Monitors \ {m}
      PROVE  Still(n)
  <2>1. rowLock[n] # t /\ rowLock'[n] = rowLock[n] /\ rowLock[n] \in Tasks \cup {None}
    BY <1>0, <1>1, <1>m DEF LockShape, TypeOK, Unlocked
  <2>2. \A i \in Ids : \/ incidents'[i] = incidents[i]
                       \/ ~OpenAt(incidents', i, n) /\ ~OpenAt(incidents, i, n)
    BY <1>0, <1>1, <1>m DEF WriteShape, Visible, OpenAt
  <2>3. CASE rowLock[n] = None
    <3>1. Current(n) = incidents /\ Current(n)' = incidents'
      BY <2>1, <2>3 DEF Current
    <3>2. StatusOf(incidents', n) = StatusOf(incidents, n)
      BY <2>2 DEF OpenAt, StatusOf
    <3> QED BY <1>1, <3>1, <3>2 DEF Still
  <2>4. ASSUME NEW u \in Tasks \ {t}, rowLock[n] = u
        PROVE  Still(n)
    <3>1. Current(n) = Visible(u) /\ Current(n)' = Visible(u)'
      BY <2>1, <2>4, NoTask DEF Current
    <3>2. \A i \in Ids : \/ Visible(u)'[i] = Visible(u)[i]
                         \/ ~OpenAt(Visible(u)', i, n) /\ ~OpenAt(Visible(u), i, n)
      BY <1>1, <2>2 DEF Visible, OpenAt
    <3>3. StatusOf(Visible(u)', n) = StatusOf(Visible(u), n)
      BY <3>2 DEF OpenAt, StatusOf
    <3> QED BY <1>1, <3>1, <3>3 DEF Still
  <2> QED BY <2>1, <2>3, <2>4
<1> QED BY <1>1, <1>2, <1>3 DEF Transition, Still

\* What administrators, time and the probes do changes no open incident.
LEMMA EnvironmentTransition ==
    ASSUME TaskInv, Environment
    PROVE  Transition
<1>0. TypeOK
  BY DEF TaskInv
<1>1. ASSUME NEW m \in Monitors, ChangeRegime(m) \/ ToggleWindow(m)
      PROVE  Transition
  BY <1>1, QuietTransition DEF ChangeRegime, ToggleWindow, dbvars, taskvars
<1>2. ASSUME NEW m \in Monitors, NEW p \in Probes, SampleAges(m, p)
      PROVE  Transition
  BY <1>2, QuietTransition DEF SampleAges, taskvars
<1>3. ASSUME NEW m \in Monitors, NEW r \in Rules, SwitchRule(m, r)
      PROVE  Transition
  BY <1>3, QuietTransition DEF SwitchRule, dbvars, taskvars
<1>4. ASSUME UNCHANGED <<rowLock, dirty, paged>>,
             \A i \in Ids : /\ incidents'[i] # None => incidents[i] # None
                            /\ incidents'[i] # None => incidents'[i].monitor = incidents[i].monitor
                                                       /\ incidents'[i].open = incidents[i].open
                                                       /\ incidents'[i].silent = incidents[i].silent
                            /\ incidents[i] # None /\ incidents[i].open => incidents'[i] # None
      PROVE  Transition
  <2>1. SUFFICES ASSUME NEW n \in Monitors PROVE Still(n)
    BY DEF Transition
  <2>2. CASE rowLock[n] = None
    <3>1. Current(n) = incidents /\ Current(n)' = incidents'
      BY <1>4, <2>2 DEF Current
    <3>2. StatusOf(incidents', n) = StatusOf(incidents, n)
      BY <1>4 DEF OpenAt, StatusOf
    <3> QED BY <1>4, <3>1, <3>2 DEF Still
  <2>3. ASSUME NEW u \in Tasks, rowLock[n] = u
        PROVE  Still(n)
    <3>1. Current(n) = Visible(u) /\ Current(n)' = Visible(u)'
      BY <1>4, <2>3, NoTask DEF Current
    <3>2. \A i \in Ids : /\ Visible(u)[i] = IF dirty[u][i] # None THEN dirty[u][i] ELSE incidents[i]
                         /\ Visible(u)'[i] = IF dirty[u][i] # None THEN dirty[u][i] ELSE incidents'[i]
      BY <1>4 DEF Visible
    <3>3. \A i \in Ids : /\ OpenAt(Visible(u)', i, n) <=> OpenAt(Visible(u), i, n)
                         /\ OpenAt(Visible(u), i, n) => Visible(u)'[i].silent = Visible(u)[i].silent
      BY <1>4, <3>2 DEF OpenAt
    <3>4. StatusOf(Visible(u)', n) = StatusOf(Visible(u), n)
      BY <3>3 DEF StatusOf
    <3> QED BY <1>4, <3>1, <3>4 DEF Still
  <2> QED BY <1>0, <2>2, <2>3 DEF TypeOK
<1>5. ASSUME NEW i \in Ids, CooldownElapses(i)
      PROVE  Transition
  <2>1. /\ UNCHANGED <<rowLock, dirty, paged>>
        /\ incidents'[i] = None /\ \A j \in Ids \ {i} : incidents'[j] = incidents[j]
        /\ ~incidents[i].open
    BY <1>0, <1>5 DEF CooldownElapses, TypeOK, taskvars
  <2> QED BY <1>4, <2>1
<1>6. ASSUME NEW m \in Monitors, NEW r \in Rules, DeleteRule(m, r)
      PROVE  Transition
  <2>1. /\ UNCHANGED <<rowLock, dirty, paged>>
        /\ \A i \in Ids : \/ incidents'[i] = incidents[i]
                          \/ /\ incidents[i] # None
                             /\ incidents'[i] = [incidents[i] EXCEPT !.rule = None]
    BY <1>6 DEF DeleteRule, taskvars
  <2>2. \A i \in Ids : incidents[i] # None =>
           /\ [incidents[i] EXCEPT !.rule = None] \in Incident
           /\ [incidents[i] EXCEPT !.rule = None].monitor = incidents[i].monitor
           /\ [incidents[i] EXCEPT !.rule = None].open = incidents[i].open
           /\ [incidents[i] EXCEPT !.rule = None].silent = incidents[i].silent
    BY <1>0 DEF TypeOK, Incident
  <2>3. \A i \in Ids : incidents[i] # None => [incidents[i] EXCEPT !.rule = None] # None
    BY <2>2, NoRowAssumption
  <2> QED BY <1>4, <2>1, <2>2, <2>3
<1> QED BY <1>1, <1>2, <1>3, <1>5, <1>6 DEF Environment

\* Every step of the engine is a step of each monitor's lifecycle.
LEMMA NextTransition ==
    ASSUME TasksComplete, PagerInv, Next
    PROVE  Transition
<1>0. TaskInv /\ TypeOK /\ TaskShape
  BY DEF PagerInv, TaskInv, IndexInv
<1>1. \A t \in Tasks : pc[t] # "idle" => job[t].monitor \in Monitors
  BY <1>0 DEF TaskShape, TypeOK, Job
<1>2. ASSUME NEW t \in Tasks, NEW m \in Monitors, NEW p \in Probes,
             NEW down \in BOOLEAN, NEW late \in BOOLEAN, Receive(t, m, p, down, late)
      PROVE  Transition
  BY <1>2, QuietTransition DEF Receive, dbvars
<1>3. ASSUME NEW t \in Tasks,
             \/ ProcessResult(t) \/ ReadHealth(t)
             \/ \E r \in Rules : SkipRule(t, r) \/ OpenRule(t, r)
      PROVE  Transition
  BY <1>3, QuietTransition DEF ProcessResult, ReadHealth, SkipRule, OpenRule, dbvars
<1>4. ASSUME NEW t \in Tasks, AuditInsert(t)
      PROVE  Transition
  <2>1. pc[t] = "audit" /\ job[t].monitor \in Monitors
    BY <1>1, <1>4 DEF AuditInsert
  <2> QED BY <1>0, <1>4, <2>1, AuditTransition, RollbackTransition
<1>5. ASSUME NEW t \in Tasks, CreateHealth(t) \/ UpdateHealth(t)
      PROVE  Transition
  <2>1. pc[t] \in {"create", "update"} /\ job[t].monitor \in Monitors
    BY <1>1, <1>5 DEF CreateHealth, UpdateHealth
  <2> QED BY <1>0, <1>5, <2>1, LockTransition, RollbackTransition
<1>6. ASSUME NEW t \in Tasks, NEW r \in Rules, CloseRule(t, r)
      PROVE  Transition
  BY <1>1, <1>6, CloseTransition DEF CloseRule
<1>7. ASSUME NEW t \in Tasks, OpenInsert(t)
      PROVE  Transition
  <2>1. pc[t] = "insert" /\ job[t].monitor \in Monitors
    BY <1>1, <1>7 DEF OpenInsert
  <2> QED BY <1>0, <1>7, <2>1, OpenTransition, RollbackTransition
<1>8. ASSUME NEW t \in Tasks, Commit(t)
      PROVE  Transition
  BY <1>0, <1>1, <1>8, CommitTransition DEF Commit
<1>9. ASSUME NEW t \in Tasks, DeadlockVictim(t)
      PROVE  Transition
  <2>1. pc[t] \in {"update", "create", "insert", "audit"} /\ Rollback(t)
    BY <1>9 DEF DeadlockVictim, WaitsFor
  <2> QED BY <1>0, <1>1, <2>1, RollbackTransition
<1>10. \A t \in Tasks : ~Crash(t)
  BY DEF TasksComplete, Crash
<1> QED BY <1>0, <1>2, <1>3, <1>4, <1>5, <1>6, <1>7, <1>8, <1>9, <1>10,
           EnvironmentTransition DEF Next, Progress

-----------------------------------------------------------------------------
(* The inductive invariant                                                  *)

LEMMA InitPager == Init => PagerInv
<1> SUFFICES ASSUME Init PROVE PagerInv
  OBVIOUS
<1>1. TypeOK /\ IndexInv
  BY InitType, InitIndex
<1>2. LockShape /\ AuditOnly /\ OpeningShape
  BY NoTask DEF Init, LockShape, AuditOnly, OpeningShape, NoWrites
<1>3. PagedOnce
  <2>1. \A m \in Monitors : Current(m) = incidents /\ paged[m] = 0
    BY DEF Init, Current
  <2>2. \A m \in Monitors : StatusOf(incidents, m) = "none"
    BY DEF Init, StatusOf, OpenAt
  <2> QED BY <2>1, <2>2 DEF PagedOnce
<1> QED BY <1>1, <1>2, <1>3 DEF PagerInv, TaskInv

\* The page counter follows the status.
LEMMA NextPaged ==
    ASSUME TypeOK, PagedOnce, Transition
    PROVE  PagedOnce'
<1> SUFFICES ASSUME NEW m \in Monitors
             PROVE  paged'[m] = IF StatusOf(Current(m)', m) = "audible" THEN 1 ELSE 0
  BY DEF PagedOnce
<1>1. CASE Still(m)
  BY <1>1 DEF Still, PagedOnce
<1>2. CASE Moves(m)
  BY <1>2 DEF Moves, Goes, PagedOnce, TypeOK
<1> QED BY <1>1, <1>2 DEF Transition

Shape == LockShape /\ AuditOnly /\ OpeningShape

\* The end of a transaction.
LEMMA EndTaskShape ==
    ASSUME TaskInv, NEW t \in Tasks, ClearTask(t), rowLock' = Unlocked(t),
           \A u \in Tasks \ {t}, i \in Ids :
              dirty[u][i] # None => incidents'[i] = incidents[i]
    PROVE  Shape'
<1>0. TypeOK /\ LockShape /\ AuditOnly /\ OpeningShape
  BY DEF TaskInv
<1>1. /\ pc'[t] = "idle" /\ \A i \in Ids : dirty'[t][i] = None
      /\ \A u \in Tasks \ {t} : /\ pc'[u] = pc[u] /\ dirty'[u] = dirty[u] /\ job'[u] = job[u]
                                /\ opening'[u] = opening[u] /\ todo'[u] = todo[u]
      /\ \A m \in Monitors : rowLock'[m] # t
      /\ \A u \in Tasks \ {t}, m \in Monitors : rowLock'[m] = u => rowLock[m] = u
  BY <1>0, NoTask DEF ClearTask, NoWrites, Unlocked, TypeOK
<1>2. LockShape'
  BY <1>0, <1>1 DEF LockShape
<1>3. AuditOnly'
  BY <1>0, <1>1 DEF AuditOnly
<1>4. OpeningShape'
  BY <1>0, <1>1 DEF OpeningShape
<1> QED BY <1>2, <1>3, <1>4 DEF Shape

LEMMA RollbackShape ==
    ASSUME TaskInv, NEW t \in Tasks, Rollback(t)
    PROVE  Shape'
  BY EndTaskShape DEF Rollback

LEMMA NextShape ==
    ASSUME OneRule, TasksComplete, TaskInv, [Next]_vars
    PROVE  Shape'
<1> USE DEF dbvars, taskvars, envvars
<1>0. TypeOK /\ LockShape /\ AuditOnly /\ OpeningShape /\ TaskShape /\ WritesDisjoint
  BY DEF TaskInv, IndexInv
<1>1. ASSUME NEW t \in Tasks, NEW m \in Monitors, NEW p \in Probes,
             NEW down \in BOOLEAN, NEW late \in BOOLEAN, Receive(t, m, p, down, late)
      PROVE  Shape'
  <2>1. /\ pc[t] = "idle" /\ pc'[t] = "process"
        /\ \A u \in Tasks \ {t} : pc'[u] = pc[u] /\ job'[u] = job[u]
        /\ UNCHANGED <<incidents, dirty, rowLock, todo, opening>>
    BY <1>0, <1>1 DEF Receive, TypeOK
  <2>2. \A i \in Ids : dirty[t][i] = None
    BY <1>0, <2>1 DEF TaskShape
  <2>3. LockShape'
    BY <1>0, <2>1 DEF LockShape
  <2>4. AuditOnly' /\ OpeningShape'
    BY <1>0, <2>1, <2>2 DEF AuditOnly, OpeningShape
  <2> QED BY <2>3, <2>4 DEF Shape
<1>2. ASSUME NEW t \in Tasks, ProcessResult(t) \/ ReadHealth(t)
      PROVE  Shape'
  <2>1. /\ pc[t] \in {"process", "ingest"} /\ pc'[t] \in {"audit", "ingest", "create", "update"}
        /\ \A u \in Tasks \ {t} : pc'[u] = pc[u]
        /\ UNCHANGED <<incidents, dirty, rowLock, todo, opening, job>>
    BY <1>0, <1>2 DEF ProcessResult, ReadHealth, TypeOK
  <2>2. LockShape' /\ AuditOnly' /\ OpeningShape'
    BY <1>0, <2>1 DEF LockShape, AuditOnly, OpeningShape
  <2> QED BY <2>2 DEF Shape
<1>3. ASSUME NEW t \in Tasks, AuditInsert(t), ~Rollback(t)
      PROVE  Shape'
  <2>0. PICK row \in Incident : row.silent /\ row = [monitor |-> job[t].monitor, rule |-> None,
                                                     open |-> TRUE, silent |-> TRUE]
    BY <1>0, <1>3 DEF AuditInsert, TaskShape, TypeOK, Job, Incident
  <2>1. /\ pc[t] = "audit" /\ pc' = [pc EXCEPT ![t] = "ingest"]
        /\ UNCHANGED <<incidents, rowLock, todo, opening, job>>
    BY <1>3 DEF AuditInsert
  <2>2. PICK i \in FreeIds : dirty' = [dirty EXCEPT ![t][i] = row]
    BY <1>3, <2>0 DEF AuditInsert
  <2>3. /\ \A u \in Tasks, j \in Ids : \/ dirty'[u][j] = dirty[u][j]
                                       \/ u = t /\ incidents[j] = None /\ dirty'[u][j] = row
    BY <1>0, <2>2 DEF TypeOK, FreeIds
  <2>4. pc'[t] = "ingest" /\ \A u \in Tasks \ {t} : pc'[u] = pc[u]
    BY <1>0, <2>1 DEF TypeOK
  <2>5. LockShape' /\ OpeningShape'
    BY <1>0, <2>1, <2>4 DEF LockShape, OpeningShape
  <2>6. AuditOnly'
    BY <1>0, <2>0, <2>1, <2>3, <2>4 DEF AuditOnly
  <2> QED BY <2>5, <2>6 DEF Shape
<1>4. ASSUME NEW t \in Tasks, CreateHealth(t) \/ UpdateHealth(t), ~Rollback(t)
      PROVE  Shape'
  <2>1. /\ pc[t] \in {"create", "update"} /\ pc'[t] \in {"update", "rules"}
        /\ \A u \in Tasks \ {t} : pc'[u] = pc[u] /\ todo'[u] = todo[u]
        /\ rowLock' = [rowLock EXCEPT ![job[t].monitor] = t]
        /\ UNCHANGED <<incidents, dirty, opening, job>>
    BY <1>0, <1>4 DEF CreateHealth, UpdateHealth, TypeOK
  <2>2. job[t] # None
    BY <1>0, <2>1 DEF TaskShape
  <2>3. \A m \in Monitors, u \in Tasks : rowLock'[m] = u => \/ rowLock[m] = u
                                                            \/ u = t /\ m = job[t].monitor
    <3>1. PICK k : k = job[t].monitor
      OBVIOUS
    <3>2. rowLock' = [rowLock EXCEPT ![k] = t] /\ rowLock \in [Monitors -> Tasks \cup {None}]
      BY <1>0, <2>1, <3>1 DEF TypeOK
    <3>3. \A m \in Monitors : rowLock'[m] = IF m = k THEN t ELSE rowLock[m]
      BY <3>2
    <3> QED BY <3>1, <3>3
  <2>4. LockShape'
    BY <1>0, <2>1, <2>2, <2>3 DEF LockShape
  <2>5. AuditOnly' /\ OpeningShape'
    BY <1>0, <2>1 DEF AuditOnly, OpeningShape
  <2> QED BY <2>4, <2>5 DEF Shape
<1>5. ASSUME NEW t \in Tasks, NEW r \in Rules, SkipRule(t, r)
      PROVE  Shape'
  <2>1. /\ r \in todo[t] /\ todo' = [todo EXCEPT ![t] = @ \ {r}]
        /\ UNCHANGED <<incidents, dirty, rowLock, pc, opening, job>>
    BY <1>5 DEF SkipRule
  <2>2. LockShape' /\ OpeningShape'
    BY <1>0, <2>1 DEF LockShape, OpeningShape
  <2>3. \A u \in Tasks : todo[u] = {} => todo'[u] = {}
    BY <1>0, <2>1 DEF TypeOK
  <2>4. AuditOnly'
    BY <1>0, <2>1, <2>3 DEF AuditOnly
  <2> QED BY <2>2, <2>4 DEF Shape
<1>6. ASSUME NEW t \in Tasks, NEW r \in Rules, CloseRule(t, r)
      PROVE  Shape'
  <2>1. /\ pc[t] = "rules" /\ todo' = [todo EXCEPT ![t] = @ \ {r}]
        /\ \A u \in Tasks \ {t} : dirty'[u] = dirty[u]
        /\ UNCHANGED <<incidents, rowLock, pc, opening, job>>
    BY <1>0, <1>6 DEF CloseRule, TypeOK
  <2>2. todo'[t] = {} /\ \A u \in Tasks \ {t} : todo'[u] = todo[u]
    BY <1>0, <2>1 DEF TypeOK, OneRule
  <2>3. LockShape' /\ AuditOnly' /\ OpeningShape'
    BY <1>0, <2>1, <2>2 DEF LockShape, AuditOnly, OpeningShape
  <2> QED BY <2>3 DEF Shape
<1>7. ASSUME NEW t \in Tasks, NEW r \in Rules, OpenRule(t, r)
      PROVE  Shape'
  <2>1. /\ pc[t] = "rules" /\ r \in todo[t] /\ pc' = [pc EXCEPT ![t] = "insert"]
        /\ opening' = [opening EXCEPT ![t] =
              [monitor |-> job[t].monitor, rule |-> r, open |-> TRUE,
               silent |-> HasAncestorIncident(Visible(t), job[t].monitor)]]
        /\ UNCHANGED <<incidents, dirty, rowLock, todo, job>>
    BY <1>7 DEF OpenRule
  <2>2. /\ pc'[t] = "insert" /\ opening'[t].rule = r /\ opening'[t].open
        /\ \A u \in Tasks \ {t} : pc'[u] = pc[u] /\ opening'[u] = opening[u]
    <3> DEFINE row == [monitor |-> job[t].monitor, rule |-> r, open |-> TRUE,
                       silent |-> HasAncestorIncident(Visible(t), job[t].monitor)]
    <3>1. row.rule = r /\ row.open
      OBVIOUS
    <3>2. opening' = [opening EXCEPT ![t] = row]
      BY <2>1
    <3> HIDE DEF row
    <3> QED BY <1>0, <2>1, <3>1, <3>2 DEF TypeOK
  <2>3. LockShape' /\ OpeningShape'
    BY <1>0, <2>1, <2>2 DEF LockShape, OpeningShape
  <2>4. AuditOnly'
    BY <1>0, <2>1, <2>2 DEF AuditOnly
  <2> QED BY <2>3, <2>4 DEF Shape
<1>8. ASSUME NEW t \in Tasks, OpenInsert(t), ~Rollback(t)
      PROVE  Shape'
  <2>1. /\ pc[t] = "insert" /\ pc' = [pc EXCEPT ![t] = "rules"]
        /\ todo' = [todo EXCEPT ![t] = @ \ {opening[t].rule}]
        /\ opening' = [opening EXCEPT ![t] = None]
        /\ UNCHANGED <<incidents, rowLock, job>>
    BY <1>8 DEF OpenInsert
  <2>2. opening[t].rule \in Rules
    BY <1>0, <2>1 DEF OpeningShape
  <2>3. todo'[t] = {} /\ pc'[t] = "rules"
    BY <1>0, <2>1, <2>2 DEF TypeOK, OneRule
  <2>4. \A u \in Tasks \ {t} : /\ pc'[u] = pc[u] /\ todo'[u] = todo[u]
                               /\ opening'[u] = opening[u] /\ dirty'[u] = dirty[u]
    BY <1>0, <1>8, <2>1 DEF TypeOK, OpenInsert
  <2>5. LockShape' /\ OpeningShape'
    BY <1>0, <2>1, <2>3, <2>4 DEF LockShape, OpeningShape
  <2>6. AuditOnly'
    BY <1>0, <2>1, <2>3, <2>4 DEF AuditOnly
  <2> QED BY <2>5, <2>6 DEF Shape
<1>9. ASSUME NEW t \in Tasks, Commit(t)
      PROVE  Shape'
  <2>1. \A u \in Tasks \ {t}, i \in Ids : dirty[u][i] # None => incidents'[i] = incidents[i]
    BY <1>0, <1>9 DEF Commit, Visible, WritesDisjoint
  <2> QED BY <1>9, <2>1, EndTaskShape DEF Commit
<1>10. ASSUME NEW t \in Tasks, Rollback(t)
       PROVE  Shape'
  BY <1>10, RollbackShape
<1>11. ASSUME Environment
       PROVE  Shape'
  <2>1. UNCHANGED <<dirty, rowLock, pc, todo, opening, job>>
    BY <1>11 DEF Environment, ChangeRegime, ToggleWindow, SampleAges, CooldownElapses,
                 SwitchRule, DeleteRule
  <2>2. \A i \in Ids : incidents[i] = None => incidents'[i] = None
    BY <1>0, <1>11 DEF Environment, ChangeRegime, ToggleWindow, SampleAges, CooldownElapses,
                 SwitchRule, DeleteRule, TypeOK
  <2>3. LockShape' /\ AuditOnly' /\ OpeningShape'
    BY <1>0, <2>1, <2>2 DEF LockShape, AuditOnly, OpeningShape
  <2> QED BY <2>3 DEF Shape
<1>12. ASSUME UNCHANGED vars
       PROVE  Shape'
  BY <1>0, <1>12 DEF vars, Shape, LockShape, AuditOnly, OpeningShape
<1>13. \A t \in Tasks : DeadlockVictim(t) \/ Crash(t) => Rollback(t)
  BY DEF DeadlockVictim, Crash
<1> QED BY <1>1, <1>2, <1>3, <1>4, <1>5, <1>6, <1>7, <1>8, <1>9, <1>10, <1>11, <1>12, <1>13
        DEF Next, Progress

-----------------------------------------------------------------------------
(* The theorems                                                             *)

LEMMA PagerStep ==
    ASSUME OneRule, TasksComplete, PagerInv, [Next]_vars
    PROVE  PagerInv' /\ (Transition \/ UNCHANGED <<incidents, dirty, rowLock, paged>>)
<1>0. TaskInv /\ TypeOK /\ IndexInv /\ TaskShape /\ PagedOnce
  BY DEF PagerInv, TaskInv, IndexInv
<1>1. TypeOK' /\ IndexInv'
  BY <1>0, NextType, NextIndex
<1>2. Shape'
  BY <1>0, NextShape
<1>3. Transition \/ UNCHANGED vars
  BY NextTransition
<1>4. PagedOnce'
  <2>1. CASE Transition
    BY <1>0, <2>1, NextPaged
  <2>2. CASE UNCHANGED vars
    BY <1>0, <2>2, QuietTransition, NextPaged DEF vars
  <2> QED BY <1>3, <2>1, <2>2
<1> QED BY <1>1, <1>2, <1>3, <1>4 DEF PagerInv, TaskInv, Shape, vars

\* The inductive invariant that ties every page of a task to the incident it
\* holds, uncommitted or committed.
THEOREM PagerInvariant ==
    ASSUME OneRule, TasksComplete
    PROVE  Spec => []PagerInv
<1>1. PagerInv /\ [Next]_vars => PagerInv'
  BY PagerStep
<1> QED BY <1>1, InitPager, PTL DEF Spec

\* The people paged for a monitor are paged for an incident that exists, in the
\* middle of a task and between tasks, whatever maintenance and administrators do.
THEOREM PagesMatch ==
    ASSUME OneRule, TasksComplete
    PROVE  Spec => []PagerMatchesIncidents
<1>1. PagerInv => PagerMatchesIncidents
  <2> SUFFICES ASSUME PagerInv, NEW m \in Monitors
               PROVE  paged[m] = Cardinality({i \in OpenIn(Current(m), m) : ~Current(m)[i].silent})
    BY DEF PagerMatchesIncidents
  <2>0. TypeOK /\ IndexInv /\ CommittedOnce /\ PagedOnce
    BY DEF PagerInv, TaskInv, IndexInv
  <2> DEFINE A == {i \in OpenIn(Current(m), m) : ~Current(m)[i].silent}
  <2>1. \A i \in Ids : i \in A <=> OpenAt(Current(m), i, m) /\ ~Current(m)[i].silent
    BY DEF OpenIn, OpenAt
  <2>2. A \subseteq Ids
    BY DEF OpenIn
  <2>3. \A i, j \in Ids : OpenAt(Current(m), i, m) /\ OpenAt(Current(m), j, m) => i = j
    <3>1. CASE rowLock[m] = None
      BY <2>0, <3>1 DEF Current, CommittedOnce
    <3>2. CASE rowLock[m] # None
      BY <2>0, <3>2, OneVisible DEF Current, TypeOK
    <3> QED BY <3>1, <3>2
  <2>4. CASE A = {}
    <3>1. paged[m] = 0
      BY <2>0, <2>1, <2>4 DEF PagedOnce, StatusOf
    <3> QED BY <2>4, <3>1, FS_EmptySet
  <2>5. CASE A # {}
    <3>1. PICK i \in Ids : i \in A
      BY <2>2, <2>5
    <3>2. A = {i}
      BY <2>1, <2>2, <2>3, <3>1
    <3>3. paged[m] = 1
      BY <2>0, <2>1, <3>1 DEF PagedOnce, StatusOf
    <3> QED BY <3>2, <3>3, FS_Singleton
  <2> QED BY <2>4, <2>5
<1> QED BY <1>1, PagerInvariant, PTL

\* The detection path implements IncidentLifecycle: interleaved tasks and
\* transactions amount to incidents that open and resolve one at a time, with a
\* page at both ends.
THEOREM EngineImplementsLifecycle ==
    ASSUME OneRule, TasksComplete
    PROVE  Spec => ImplementsLifecycle
<1>1. TypeOK => \A m \in Monitors : Status(m) = StatusOf(Current(m), m)
  BY CurrentRows, StatusMeaning DEF Status
<1>2. TypeOK' => \A m \in Monitors : Status(m)' = StatusOf(Current(m)', m)
  <2> SUFFICES ASSUME TypeOK', NEW m \in Monitors
               PROVE  Status(m)' = StatusOf(Current(m)', m)
    OBVIOUS
  <2>1. Current(m)' \in Rows
    BY DEF TypeOK, Visible, Current, Rows
  <2> QED BY <2>1, StatusMeaning DEF Status
<1>3. Init => Lifecycle!Init
  <2> SUFFICES ASSUME Init PROVE Lifecycle!Init
    OBVIOUS
  <2>1. TypeOK
    BY InitType
  <2>2. \A m \in Monitors : Current(m) = incidents
    BY DEF Init, Current
  <2>3. \A m \in Monitors : StatusOf(incidents, m) = "none"
    BY DEF Init, StatusOf, OpenAt
  <2> QED BY <1>1, <2>1, <2>2, <2>3 DEF Init, Lifecycle!Init
<1>4. PagerInv /\ PagerInv' /\ [Next]_vars => [Lifecycle!Next]_(Lifecycle!vars)
  <2> SUFFICES ASSUME PagerInv, PagerInv', [Next]_vars
               PROVE  [Lifecycle!Next]_(Lifecycle!vars)
    OBVIOUS
  <2>1. \A m \in Monitors : /\ Status(m) = StatusOf(Current(m), m)
                            /\ Status(m)' = StatusOf(Current(m)', m)
    BY <1>1, <1>2 DEF PagerInv, TaskInv
  <2>2. TypeOK /\ TypeOK'
    BY DEF PagerInv, TaskInv
  <2>3. Transition
    BY PagerStep, QuietTransition
  <2>4. CASE \A m \in Monitors : Still(m)
    BY <2>1, <2>2, <2>4 DEF Still, Lifecycle!vars, TypeOK
  <2>5. ASSUME NEW m \in Monitors, Moves(m), \A n \in Monitors \ {m} : Still(n)
        PROVE  Lifecycle!Next
    <3>1. /\ \A n \in Monitors \ {m} : Status(n)' = Status(n)
          /\ Status(m)' # Status(m)
      BY <2>1, <2>5 DEF Still, Moves, Goes
    <3>2. [n \in Monitors |-> Status(n)]' =
             [[n \in Monitors |-> Status(n)] EXCEPT ![m] = Status(m)']
      <4>1. \A n \in Monitors : Status(n)' =
               [[k \in Monitors |-> Status(k)] EXCEPT ![m] = Status(m)'][n]
        BY <3>1
      <4> QED BY <4>1, Zenon
    <3>3. \/ /\ Status(m) = "none" /\ Status(m)' = "audible"
             /\ paged' = [paged EXCEPT ![m] = @ + 1]
          \/ Status(m) = "none" /\ Status(m)' = "silent" /\ UNCHANGED paged
          \/ /\ Status(m) = "audible" /\ Status(m)' = "none"
             /\ paged' = [paged EXCEPT ![m] = @ - 1]
          \/ Status(m) = "silent" /\ Status(m)' = "none" /\ UNCHANGED paged
      BY <2>1, <2>5 DEF Moves, Goes
    <3>4. \/ Lifecycle!Open(m) \/ Lifecycle!OpenSilently(m)
          \/ Lifecycle!Resolve(m) \/ Lifecycle!EndSilently(m)
      BY <3>2, <3>3 DEF Lifecycle!Move, Lifecycle!Open, Lifecycle!OpenSilently,
                        Lifecycle!Resolve, Lifecycle!EndSilently
    <3> QED BY <3>1, <3>4 DEF Lifecycle!Next
  <2> QED BY <2>3, <2>4, <2>5 DEF Transition
<1> QED BY <1>3, <1>4, PagerInvariant, PTL DEF Spec, ImplementsLifecycle, Lifecycle!Spec
=============================================================================
