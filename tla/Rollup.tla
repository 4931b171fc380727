------------------------------- MODULE Rollup -------------------------------
(***************************************************************************)
(* services/rollup.py and services/retention.py: closed hours of           *)
(* check_results are folded into check_rollups_1h, and old raw results are *)
(* purged, never past the builder's frontier.  The builder keeps no        *)
(* watermark: it resumes from the newest bucket, rewound by                *)
(* RecomputeHours, and builder and purge are split where a result or the   *)
(* other one may come between two of their queries.                        *)
(*                                                                         *)
(* Time is counted in half hours ("slots"), which is enough for a cutoff   *)
(* inside an hour.  A result is <<monitor, slot of checked_at>>.  A bucket *)
(* is represented by the results folded into it.                           *)
(***************************************************************************)
EXTENDS Integers, FiniteSets, FiniteSetsExt

CONSTANTS
    Monitors,
    Keep,             \* [Monitors -> Nat] retention of raw results, in slots
    PartitionSlots,   \* length of a partition of check_results
    MaxBuckets,       \* rollup_max_buckets_per_run
    RecomputeHours,   \* rollup_recompute_hours
    ReadHours,        \* _READ_CHUNK_HOURS
    LastSlot,         \* bound: time stops there
    MaxResults,       \* bound: results that arrive
    MaxLate,          \* bound: those that arrive after their hour
    MaxFailures       \* bound: builder runs that fail

\* A retention is at least a day (ge=1 in schemas/monitor.py; with a global
\* retention of 0 nothing is purged).
RollupConstants ==
    /\ Keep \in [Monitors -> Nat \ {0}]
    /\ RecomputeHours \in Nat /\ LastSlot \in Nat
    /\ PartitionSlots \in Nat \ {0} /\ MaxBuckets \in Nat \ {0}
    /\ ReadHours \in Nat \ {0}
    /\ MaxResults \in Nat /\ MaxLate \in Nat /\ MaxFailures \in Nat

VARIABLES
    now,
    raw,        \* rows of check_results
    folded,     \* results counted in the rows of check_rollups_1h
    late,       \* results that arrived after the end of their hour
    builder,    \* where the builder is
    from, to,   \* the hours still to be built, [from, to)
    rows,       \* what _fold_range has read
    purger,     \* where the purge is
    floor,      \* _raw_purge_floor, 0 for None
    failures,
    arrived     \* number of results so far

vars == <<now, raw, folded, late, builder, from, to, rows, purger,
          floor, failures, arrived>>
build == <<builder, from, to, rows>>
purge == <<purger, floor>>

Slots == 0 .. LastSlot
Results == Monitors \X Slots
HourOf(slot) == slot \div 2
Hour(r) == HourOf(r[2])
SameBucket(r, q) == r[1] = q[1] /\ Hour(r) = Hour(q)
Lesser(a, b) == IF a < b THEN a ELSE b

\* rollup_boundary: the first hour not covered by the rollups, 0 for None.
Frontier == IF folded = {} THEN 0 ELSE Max({Hour(r) : r \in folded}) + 1

Init ==
    /\ now = 0 /\ raw = {} /\ folded = {} /\ late = {}
    /\ builder = "idle" /\ from = 0 /\ to = 0 /\ rows = {}
    /\ purger = "idle" /\ floor = 0
    /\ failures = 0 /\ arrived = 0

\* A result is committed, on time or, from a probe's spill file or a probe with
\* a slow clock, any time later.
Arrive(r) ==
    /\ r[2] <= now /\ r \notin raw \cup folded /\ arrived < MaxResults
    /\ Hour(r) < HourOf(now) => Cardinality(late) < MaxLate
    /\ raw' = raw \cup {r}
    /\ late' = IF Hour(r) < HourOf(now) THEN late \cup {r} ELSE late
    /\ arrived' = arrived + 1
    /\ UNCHANGED <<now, folded, build, purge, failures>>

Advance ==
    /\ now < LastSlot
    /\ now' = now + 1
    /\ UNCHANGED <<raw, folded, late, build, purge, failures, arrived>>
-----------------------------------------------------------------------------
\* build_rollups and _resume_point: from the newest bucket, rewound, snap forward
\* to the first hour that holds a result; stop at the horizon or after MaxBuckets
\* hours.  Nothing else writes rollups, so the two queries are one step.
Resume == IF Frontier = 0 THEN 0 ELSE Frontier - RecomputeHours
Pending == {Hour(r) : r \in {q \in raw : Hour(q) >= Resume}}

\* Mutant: the range starts at the resume point, rows or not.
FirstHourBlind == Resume

FirstHour == Min(Pending)
EndBuild == builder' = "idle" /\ from' = 0 /\ to' = 0

\* Mutant: the horizon takes in the running hour.
StartBuildOpenHour ==
    /\ builder = "idle"
    /\ Pending # {} /\ FirstHour <= HourOf(now)
    /\ builder' = "folding"
    /\ from' = FirstHour
    /\ to' = Lesser(HourOf(now) + 1, FirstHour + MaxBuckets)
    /\ UNCHANGED <<now, raw, folded, late, rows, purge, failures, arrived>>

StartBuild ==
    /\ builder = "idle"
    /\ Pending # {} /\ FirstHour < HourOf(now)
    /\ builder' = "folding"
    /\ from' = FirstHour
    /\ to' = Lesser(HourOf(now), FirstHour + MaxBuckets)
    /\ UNCHANGED <<now, raw, folded, late, rows, purge, failures, arrived>>

\* rebuild_range, one chunk: the rows are read, then upserted and committed.  A
\* bucket of theirs is replaced as a whole.
ChunkEnd == Lesser(to, from + ReadHours)

FoldRange ==
    /\ builder = "folding"
    /\ rows' = {r \in raw : Hour(r) \in from .. ChunkEnd - 1}
    /\ builder' = "upserting"
    /\ UNCHANGED <<now, raw, folded, late, from, to, purge, failures, arrived>>

Upsert ==
    /\ builder = "upserting"
    /\ folded' = {r \in folded : \A q \in rows : ~ SameBucket(r, q)} \cup rows
    /\ rows' = {}
    /\ IF ChunkEnd < to
       THEN /\ builder' = "folding"
            /\ from' = ChunkEnd
            /\ UNCHANGED to
       ELSE EndBuild
    /\ UNCHANGED <<now, raw, late, purge, failures, arrived>>

\* A run ends with an exception or its process; committed chunks stay.
BuildFails ==
    /\ builder # "idle" /\ failures < MaxFailures
    /\ failures' = failures + 1
    /\ EndBuild
    /\ rows' = {}
    /\ UNCHANGED <<now, raw, folded, late, purge, arrived>>
-----------------------------------------------------------------------------
\* Mutant: the floor does not clamp.
CutoffUnclamped(slots, boundary) == now - slots

\* _purge_partitioned_table's cutoff for a retention: clamped by the floor.
Cutoff(slots, boundary) ==
    LET wanted == now - slots IN
    IF boundary # 0 /\ 2 * boundary < wanted THEN 2 * boundary ELSE wanted

Longest == Max({Keep[m] : m \in Monitors})
PartitionEnd(r) == (r[2] \div PartitionSlots + 1) * PartitionSlots

\* The floor is read, then drop_expired_partitions drops with the longest
\* retention in force.
StartPurge ==
    /\ purger = "idle"
    /\ floor' = Frontier
    /\ raw' = {r \in raw : PartitionEnd(r) > Cutoff(Longest, Frontier)}
    /\ purger' = "deleting"
    /\ UNCHANGED <<now, folded, late, build, failures, arrived>>

\* The row-level DELETEs, one retention after the other, in one transaction.
DeleteRows ==
    /\ purger = "deleting"
    /\ raw' = {r \in raw : r[2] >= Cutoff(Keep[r[1]], floor)}
    /\ purger' = "idle" /\ floor' = 0
    /\ UNCHANGED <<now, folded, late, build, failures, arrived>>

Build == StartBuild \/ FoldRange \/ Upsert

Next ==
    \/ \E r \in Results : Arrive(r)
    \/ Advance \/ Build \/ BuildFails
    \/ StartPurge \/ DeleteRows

Spec == Init /\ [][Next]_vars

\* The builder's leader loop ticks (LeaderLock!WorkGoesOn).
FairSpec == Spec /\ WF_vars(Build)
-----------------------------------------------------------------------------
TypeOK ==
    /\ now \in Slots
    /\ raw \subseteq Results /\ folded \subseteq Results /\ late \subseteq Results
    /\ builder \in {"idle", "folding", "upserting"}
    /\ from \in Int /\ to \in Nat /\ rows \subseteq Results
    /\ purger \in {"idle", "deleting"}
    /\ floor \in Nat
    /\ failures \in 0 .. MaxFailures /\ arrived \in 0 .. MaxResults

\* "every hour below max(bucket) + 1 h has been processed" (rollup_boundary),
\* which stats.py and the purge rely on: a result that arrived within its hour
\* and lies below the frontier is in its bucket, as long as it is not purged.
FrontierTrue == \A r \in raw \ late : Hour(r) < Frontier => r \in folded

\* "raw rows that have not been folded yet are never deleted"
\* (purge_old_results), for results that arrived within their hour and once a
\* first bucket exists.
PurgedWereFolded ==
    [][{floor, floor'} # {0} => raw \ raw' \subseteq late \cup folded]_vars

\* A monitor's rows outlive its own retention, although partitions hold every
\* monitor's rows side by side (_purge_partitioned_table).
KeepsWhatWasAsked == [][\A r \in raw \ raw' : r[2] + Keep[r[1]] < now]_vars

\* What retention deletes is both folded and due (purge_old_results).
PurgeSpares == PurgedWereFolded /\ KeepsWhatWasAsked

\* The builder catches up: in the end every result of a closed hour that is
\* still there is folded, across capped runs, failures and gaps in the data
\* that a rewound run still spans.
AllFolded == \A r \in raw \ late : Hour(r) < HourOf(now) => r \in folded
LongGap ==
    /\ Pending # {} /\ FirstHour < Frontier
    /\ \A r \in raw \ (folded \cup late) : Hour(r) >= FirstHour + MaxBuckets
CatchesUp == []<>(AllFolded \/ LongGap)

\* "A gap in the data (a server down for weeks) cannot stall the loop either"
\* (rollup.py).
GapCrossed == []<>AllFolded
=============================================================================
