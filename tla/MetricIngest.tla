---------------------------- MODULE MetricIngest ----------------------------
(***************************************************************************)
(* services/metric_ingest.py and the push of api/v1/metrics.py, for one    *)
(* monitor: a batch reserves its points in a counter per minute in Redis,  *)
(* then its series are looked up, counted against the ceiling and          *)
(* registered, and the points are stored, all or nothing.  Requests        *)
(* overlap at every query; retention (services/retention.py) forgets       *)
(* series.                                                                 *)
(*                                                                         *)
(* The inserts become visible with the commit and another insert of the    *)
(* same series waits for it, so registering, storing and committing are    *)
(* one step.                                                               *)
(***************************************************************************)
EXTENDS Naturals, FiniteSets, FiniteSetsExt

CONSTANTS
    Requests,         \* requests that can be in flight together
    Series,
    Batches,          \* what is pushed: sets of [points, series]
    MaxPoints,        \* metrics_max_points_per_minute
    MaxSeries,        \* metrics_max_series_per_monitor
    LastMinute,       \* bound: minutes that pass
    MaxPushes,        \* bound: requests that begin
    MaxFaults         \* bound: Redis commands that fail, requests that break off

\* A batch has at least one point, and a series for each kind of them
\* (MetricPushIn, schemas/metrics.py).
IngestConstants ==
    /\ IsFiniteSet(Requests) /\ Requests # {} /\ IsFiniteSet(Series)
    /\ Batches # {} /\ Batches \subseteq [points : Nat, series : SUBSET Series]
    /\ MaxPoints \in Nat /\ MaxSeries \in Nat
    /\ LastMinute \in Nat /\ MaxPushes \in Nat /\ MaxFaults \in Nat

VARIABLES
    minute,
    used,       \* [minute -> Nat] whatisup:metric_quota, unlimited while 0
    registry,   \* [Series -> "none", "fresh" or "stale"] metric_series
    points,     \* series with points in the database
    stored,     \* [minute -> Nat] points stored on a budget of that minute
    request,    \* [Requests -> [at, batch, minute, known]]
    spent,      \* [minute -> Nat] budget that came to nothing
    pushes, faults

vars == <<minute, used, registry, points, stored, request, spent, pushes, faults>>
tables == <<registry, points, stored>>
bounds == <<pushes, faults>>

Minutes == 0 .. LastMinute
Idle == [at |-> "idle", batch |-> [points |-> 0, series |-> {}], minute |-> 0, known |-> {}]
Registered == {s \in Series : registry[s] # "none"}
Fresh(q) == request[q].batch.series \ request[q].known

Init ==
    /\ minute = 0 /\ used = [w \in Minutes |-> 0]
    /\ registry = [s \in Series |-> "none"] /\ points = {}
    /\ stored = [w \in Minutes |-> 0]
    /\ request = [q \in Requests |-> Idle]
    /\ spent = [w \in Minutes |-> 0] /\ pushes = 0 /\ faults = 0

End(q) == request' = [request EXCEPT ![q] = Idle]
Spend(q) == spent' = [spent EXCEPT ![request[q].minute] = @ + request[q].batch.points]

\* Mutant: the batch itself is not counted when it is compared with the limit.
ReserveLate(q, b) ==
    /\ request[q].at = "idle" /\ pushes < MaxPushes
    /\ used' = [used EXCEPT ![minute] = @ + b.points]
    /\ request' = [request EXCEPT ![q] =
                      [at |-> IF used[minute] >= MaxPoints THEN "over" ELSE "reserved",
                       batch |-> b, minute |-> minute, known |-> {}]]
    /\ pushes' = pushes + 1
    /\ UNCHANGED <<minute, tables, spent, faults>>

\* _consume_rate_budget, INCRBY and the comparison with what it returns.
Reserve(q, b) ==
    /\ request[q].at = "idle" /\ pushes < MaxPushes
    /\ used' = [used EXCEPT ![minute] = @ + b.points]
    /\ request' = [request EXCEPT ![q] =
                      [at |-> IF used[minute] + b.points > MaxPoints THEN "over" ELSE "reserved",
                       batch |-> b, minute |-> minute, known |-> {}]]
    /\ pushes' = pushes + 1
    /\ UNCHANGED <<minute, tables, spent, faults>>

\* Redis fails, or its answer, or the EXPIRE: the batch is refused.
ReserveFails(q, b) ==
    /\ request[q].at = "idle" /\ pushes < MaxPushes /\ faults < MaxFaults
    /\ \/ UNCHANGED <<used, spent>>
       \/ /\ used' = [used EXCEPT ![minute] = @ + b.points]
          /\ spent' = [spent EXCEPT ![minute] = @ + b.points]
    /\ pushes' = pushes + 1 /\ faults' = faults + 1
    /\ UNCHANGED <<minute, tables, request>>

\* Mutant: the budget is given back on every retry of the refusal.
GiveBackTwice(q) ==
    /\ request[q].at = "over"
    /\ used' = [used EXCEPT ![request[q].minute] = @ - request[q].batch.points]
    /\ UNCHANGED <<minute, tables, request, spent, bounds>>

\* DECRBY of a batch over the budget, best effort.
GiveBack(q) ==
    /\ request[q].at = "over"
    /\ used' = [used EXCEPT ![request[q].minute] = @ - request[q].batch.points]
    /\ End(q)
    /\ UNCHANGED <<minute, tables, spent, bounds>>

\* The process ends, the client goes away, or the DECRBY fails.
BreakOff(q) ==
    /\ request[q].at # "idle" /\ faults < MaxFaults
    /\ Spend(q) /\ End(q)
    /\ faults' = faults + 1
    /\ UNCHANGED <<minute, used, tables, pushes>>

\* _resolve_series: the SELECT of the series that exist.
Resolve(q) ==
    /\ request[q].at = "reserved"
    /\ request' = [request EXCEPT ![q].at = "resolved",
                                  ![q].known = @ \cup (Registered \cap request[q].batch.series)]
    /\ UNCHANGED <<minute, used, tables, spent, bounds>>

\* The COUNT, unless every series is known; the budget of a refused batch stays
\* spent.
Count(q) ==
    LET fits == Fresh(q) = {} \/ Cardinality(Registered) + Cardinality(Fresh(q)) <= MaxSeries
    IN
    /\ request[q].at = "resolved"
    /\ \/ /\ fits
          /\ request' = [request EXCEPT ![q].at = "counted"]
          /\ UNCHANGED spent
       \/ ~ fits /\ Spend(q) /\ End(q)
    /\ UNCHANGED <<minute, used, tables, bounds>>

\* Mutant: last_seen_at is set in bulk, and no row affected is no error.
OutdatedInserts(q) == Fresh(q) \cap Registered # {}

\* The INSERTs and UPDATEs of the registry, the points, the commit.  A series
\* that somebody registered meanwhile, or that the purge forgot, fails the
\* whole request.
Outdated(q) ==
    \/ Fresh(q) \cap Registered # {}
    \/ request[q].known \ Registered # {}

Store(q) ==
    LET wanted == request[q].batch.series IN
    /\ request[q].at = "counted"
    /\ \/ /\ ~ Outdated(q)
          /\ registry' = [s \in Series |-> IF s \in Fresh(q) \cup (wanted \cap Registered)
                                      THEN "fresh" ELSE registry[s]]
          /\ points' = points \cup wanted
          /\ stored' = [stored EXCEPT ![request[q].minute] = @ + request[q].batch.points]
          /\ UNCHANGED spent
       \/ Outdated(q) /\ Spend(q) /\ UNCHANGED tables
    /\ End(q)
    /\ UNCHANGED <<minute, used, bounds>>
-----------------------------------------------------------------------------
NextMinute ==
    /\ minute < LastMinute
    /\ minute' = minute + 1
    /\ UNCHANGED <<used, tables, request, spent, bounds>>

\* A series has not reported for metrics_retention_days, and neither have its
\* points been purged later than that.
Age(s) ==
    /\ registry[s] = "fresh"
    /\ registry' = [registry EXCEPT ![s] = "stale"]
    /\ points' = points \ {s}
    /\ UNCHANGED <<minute, used, stored, request, spent, bounds>>

\* purge_stale_metric_series.
PurgeStaleSeries ==
    /\ \E s \in Series : registry[s] = "stale"
    /\ registry' = [s \in Series |-> IF registry[s] = "stale" THEN "none" ELSE registry[s]]
    /\ UNCHANGED <<minute, used, points, stored, request, spent, bounds>>

Next ==
    \/ \E q \in Requests :
          \/ \E b \in Batches : Reserve(q, b) \/ ReserveFails(q, b)
          \/ GiveBack(q) \/ BreakOff(q) \/ Resolve(q) \/ Count(q) \/ Store(q)
    \/ \E s \in Series : Age(s)
    \/ NextMinute \/ PurgeStaleSeries

Spec == Init /\ [][Next]_vars
-----------------------------------------------------------------------------
TypeOK ==
    /\ minute \in Minutes
    /\ used \in [Minutes -> Nat] /\ stored \in [Minutes -> Nat] /\ spent \in [Minutes -> Nat]
    /\ registry \in [Series -> {"none", "fresh", "stale"}] /\ points \subseteq Series
    /\ request \in [Requests -> [at : {"idle", "over", "reserved", "resolved", "counted"},
                                 batch : Batches \cup {Idle.batch},
                                 minute : Minutes, known : SUBSET Series]]
    /\ pushes \in 0 .. MaxPushes /\ faults \in 0 .. MaxFaults

\* No more points are stored on a minute's budget than it holds, although the
\* counter goes up and down under overlapping requests (_consume_rate_budget).
QuotaHeld == \A w \in Minutes : stored[w] <= MaxPoints

\* What request q has taken of the budget of minute w.
Claim(q, w) == IF request[q].at # "idle" /\ request[q].minute = w
               THEN request[q].batch.points ELSE 0

\* "Give the budget back so a rejected batch does not also burn the window": the
\* counter is what was stored, what is under way, and the budget of batches that
\* failed later or met a fault - nothing of a batch refused for the rate.
CounterTrue ==
    \A w \in Minutes :
        used[w] = stored[w] + spent[w] + SumFunction([q \in Requests |-> Claim(q, w)])

\* The number of series is bounded although it is counted before it is raised:
\* every request but one that is past its count can add one batch too many.
CardinalityBounded ==
    Cardinality(Registered) <= MaxSeries
        + (Cardinality(Requests) - 1) * Max({Cardinality(b.series) : b \in Batches})

\* The limits of an ingestion hold under overlapping requests: the minute's budget
\* as it is written, the ceiling of the series up to those that overlap.
LimitsHeld == QuotaHeld /\ CounterTrue /\ CardinalityBounded

\* A point in the database can be reached by its labels: its series is in the
\* registry, whatever pushes and purges overlap ("Deleting it earlier would
\* leave orphan points that no label selector can reach").
NoOrphanPoints == points \subseteq Registered
=============================================================================
