---------------------------- MODULE Rollup_proofs ----------------------------
(***************************************************************************)
(* Proofs about the rollups, the purge and a report beside them, for any   *)
(* number of monitors and results, any retention and any size of run.      *)
(***************************************************************************)
EXTENDS UptimeReport, TLAPS, WellFoundedInduction

\* A non-empty set of naturals has a least element.
LEMMA LeastElement ==
    ASSUME NEW S, S \subseteq Nat, S # {}
    PROVE  Min(S) \in S /\ \A y \in S : Min(S) <= y
<1> DEFINE R == OpToRel(<, Nat)
<1>1. IsWellFoundedOn(R, Nat)
  BY NatLessThanWellFounded
<1>2. PICK x \in S : \A y \in S : <<y, x>> \notin R
  <2> HIDE DEF R
  <2> QED BY <1>1, WFMin
<1>3. \A y \in S : ~ (y < x)
  BY <1>2 DEF OpToRel
<1>4. \A y \in S : x <= y
  BY <1>3
<1> QED BY <1>4 DEF Min

\* A non-empty set of naturals below a bound has a greatest element.
LEMMA GreatestElement ==
    ASSUME NEW S, NEW n \in Nat, S \subseteq 0 .. n, S # {}
    PROVE  Max(S) \in S /\ \A y \in S : y <= Max(S)
<1> DEFINE T == {n - x : x \in S}
<1>1. T \subseteq Nat /\ T # {}
  <2>1. \A x \in S : n - x \in Nat
    OBVIOUS
  <2> QED BY <2>1
<1>2. Min(T) \in T /\ \A y \in T : Min(T) <= y
  BY <1>1, LeastElement
<1>3. PICK x \in S : Min(T) = n - x
  BY <1>2
<1>4. \A y \in S : n - x <= n - y
  BY <1>2, <1>3
<1>5. \A y \in S : y <= x
  BY <1>4
<1> QED BY <1>5 DEF Max

\* A result is a pair; its hour is a natural.
LEMMA HourFacts ==
    ASSUME RollupConstants
    PROVE  /\ \A r \in Results : /\ r[2] \in Nat /\ r[2] <= LastSlot /\ r[1] \in Monitors
                                 /\ Hour(r) \in 0 .. LastSlot
                                 /\ 2 * Hour(r) <= r[2] /\ r[2] <= 2 * Hour(r) + 1
           /\ \A t \in Slots : HourOf(t) \in Nat /\ 2 * HourOf(t) <= t /\ t <= 2 * HourOf(t) + 1
BY DEF RollupConstants, Results, Slots, Hour, HourOf

\* The frontier lies just above every folded result, and on the hour after one.
LEMMA FrontierFacts ==
    ASSUME RollupConstants, NEW S \in SUBSET Results, NEW n,
           n = IF S = {} THEN 0 ELSE Max({Hour(r) : r \in S}) + 1
    PROVE  /\ n \in Nat
           /\ \A r \in S : Hour(r) < n
           /\ n # 0 => \E r \in S : n = Hour(r) + 1
<1>1. CASE S = {}
  BY <1>1
<1>2. CASE S # {}
  <2> DEFINE H == {Hour(r) : r \in S}
  <2>1. H \subseteq 0 .. LastSlot /\ H # {} /\ LastSlot \in Nat
    BY <1>2, HourFacts DEF RollupConstants
  <2>2. Max(H) \in H /\ \A y \in H : y <= Max(H)
    BY <2>1, GreatestElement
  <2>3. PICK q \in S : Max(H) = Hour(q)
    BY <2>2
  <2>4. \A r \in S : Hour(r) \in Nat /\ Hour(r) <= Hour(q)
    BY <2>2, <2>3, HourFacts
  <2>5. n = Hour(q) + 1
    BY <1>2, <2>3
  <2>6. n \in Nat /\ \A r \in S : Hour(r) < n
    <3> HIDE DEF H
    <3> QED BY <2>3, <2>4, <2>5
  <2> QED BY <2>3, <2>5, <2>6
<1> QED BY <1>1, <1>2
-----------------------------------------------------------------------------
\* Where the builder is: below "from" everything that arrived in time is folded,
\* and what it has read of the next hours is all that arrived in time of them.
BuilderInv ==
    /\ \A r \in folded : Hour(r) < HourOf(now)
    /\ builder # "idle" =>
          /\ from \in Nat /\ from < to /\ to <= HourOf(now)
          /\ \A r \in raw \ late : Hour(r) < from => r \in folded
    /\ builder = "upserting" =>
          /\ \A r \in rows : Hour(r) \in from .. ChunkEnd - 1
          /\ \A r \in raw \ late : Hour(r) \in from .. ChunkEnd - 1 => r \in rows
    /\ floor <= Frontier

RollupInv == TypeOK /\ BuilderInv /\ FrontierTrue

\* Reading the database for the first time.
LEMMA InitInv == ASSUME RollupConstants, Init PROVE RollupInv
BY DEF Init, RollupInv, TypeOK, BuilderInv, FrontierTrue, RollupConstants, Slots, Frontier

LEMMA Step ==
    ASSUME RollupConstants, RollupInv, [Next]_vars
    PROVE  RollupInv'
<1>0. /\ TypeOK /\ BuilderInv /\ FrontierTrue
      /\ raw \subseteq Results /\ folded \subseteq Results /\ rows \subseteq Results
      /\ late \subseteq Results /\ now \in Slots
      /\ Frontier \in Nat /\ \A r \in folded : Hour(r) < Frontier
      /\ Frontier # 0 => \E r \in folded : Frontier = Hour(r) + 1
      /\ Frontier <= HourOf(now) /\ HourOf(now) \in Nat
  <2>1. /\ TypeOK /\ BuilderInv /\ FrontierTrue
        /\ raw \subseteq Results /\ folded \subseteq Results /\ rows \subseteq Results
        /\ late \subseteq Results /\ now \in Slots
    BY DEF RollupInv, TypeOK
  <2>2. /\ Frontier \in Nat /\ \A r \in folded : Hour(r) < Frontier
        /\ Frontier # 0 => \E r \in folded : Frontier = Hour(r) + 1
    BY <2>1, FrontierFacts DEF Frontier
  <2>3. HourOf(now) \in Nat /\ \A r \in folded : Hour(r) < HourOf(now) /\ Hour(r) \in Nat
    BY <2>1, HourFacts DEF BuilderInv
  <2> QED BY <2>1, <2>2, <2>3
<1>1. ASSUME NEW r \in Results, Arrive(r)
      PROVE  RollupInv'
  <2>1. /\ raw' = raw \cup {r} /\ late \subseteq late'
        /\ r \in late' \/ ~ (Hour(r) < HourOf(now))
        /\ UNCHANGED <<now, folded, builder, from, to, rows, purger, floor, failures>>
        /\ late' \subseteq late \cup {r}
    BY <1>1 DEF Arrive, build, purge
  <2>2. arrived' \in 0 .. MaxResults
    BY <1>0, <1>1 DEF Arrive, TypeOK, RollupConstants
  <2>3. TypeOK'
    BY <1>0, <2>1, <2>2 DEF TypeOK
  <2>4. Frontier' = Frontier /\ ChunkEnd' = ChunkEnd
    BY <2>1 DEF Frontier, ChunkEnd, Lesser
  <2>5. Hour(r) \in Nat
    BY HourFacts
  <2>6. BuilderInv'
    <3>1. builder # "idle" => ChunkEnd <= to
      BY <1>0 DEF BuilderInv, ChunkEnd, Lesser, TypeOK, RollupConstants
    <3>2. builder # "idle" /\ r \notin late' => ~ (Hour(r) < from) /\ ~ (Hour(r) <= ChunkEnd - 1)
      BY <1>0, <2>1, <2>5, <3>1 DEF BuilderInv, TypeOK, ChunkEnd, Lesser, RollupConstants
    <3>3. builder # "idle" => \A q \in raw' \ late' : Hour(q) < from => q \in folded
      BY <1>0, <2>1, <3>2 DEF BuilderInv
    <3>4. ChunkEnd - 1 \in Int /\ from \in Int
      BY <1>0 DEF TypeOK, ChunkEnd, Lesser, RollupConstants
    <3>5. builder = "upserting" =>
             \A q \in raw' \ late' : Hour(q) \in from .. ChunkEnd - 1 => q \in rows
      BY <1>0, <2>1, <2>5, <3>2, <3>4 DEF BuilderInv
    <3> QED BY <1>0, <2>1, <2>4, <3>3, <3>5 DEF BuilderInv
  <2>7. FrontierTrue'
    BY <1>0, <2>1, <2>4, <2>5 DEF FrontierTrue
  <2> QED BY <2>3, <2>6, <2>7 DEF RollupInv
<1>2. CASE Advance
  <2>1. /\ now' \in Slots /\ HourOf(now) <= HourOf(now')
        /\ UNCHANGED <<raw, folded, late, builder, from, to, rows, purger, floor, failures, arrived>>
    BY <1>0, <1>2, HourFacts DEF Advance, Slots, RollupConstants, build, purge, HourOf
  <2>2. HourOf(now') \in Nat
    BY <2>1, HourFacts
  <2>3. Frontier' = Frontier /\ ChunkEnd' = ChunkEnd
    BY <2>1 DEF Frontier, ChunkEnd, Lesser
  <2>4. TypeOK' /\ FrontierTrue'
    BY <1>0, <2>1, <2>3 DEF TypeOK, FrontierTrue
  <2>5. BuilderInv'
    <3>1. \A r \in folded : Hour(r) \in Nat
      BY <1>0, HourFacts
    <3>2. from \in Int /\ to \in Nat
      BY <1>0 DEF TypeOK
    <3> QED BY <1>0, <2>1, <2>2, <2>3, <3>1, <3>2 DEF BuilderInv
  <2> QED BY <2>4, <2>5 DEF RollupInv
<1>3. CASE StartBuild
  <2>1. /\ Pending # {} /\ builder' = "folding" /\ from' = FirstHour
        /\ to' = Lesser(HourOf(now), FirstHour + MaxBuckets) /\ FirstHour < HourOf(now)
        /\ UNCHANGED <<now, raw, folded, late, rows, purger, floor, failures, arrived>>
    BY <1>3 DEF StartBuild, purge
  <2>2. /\ FirstHour \in Nat
        /\ \A r \in raw : Hour(r) >= Resume => FirstHour <= Hour(r)
    <3>1. Pending \subseteq Nat
      BY <1>0, HourFacts DEF Pending
    <3>2. FirstHour \in Pending /\ \A y \in Pending : FirstHour <= y
      BY <2>1, <3>1, LeastElement DEF FirstHour
    <3> QED BY <3>1, <3>2 DEF Pending
  <2>3. to' \in Nat /\ from' < to' /\ to' <= HourOf(now)
    BY <1>0, <2>1, <2>2 DEF Lesser, RollupConstants
  <2>4. Frontier' = Frontier
    BY <2>1 DEF Frontier
  <2>5. TypeOK'
    BY <1>0, <2>1, <2>2, <2>3 DEF TypeOK
  <2>6. \A r \in raw \ late : Hour(r) < FirstHour => r \in folded
    <3>1. TAKE r \in raw \ late
    <3>2. Hour(r) \in Nat /\ Resume \in Int /\ Resume <= Frontier
      BY <1>0, HourFacts DEF Resume, RollupConstants
    <3> QED BY <1>0, <2>2, <3>2 DEF FrontierTrue
  <2>7. BuilderInv' /\ FrontierTrue'
    BY <1>0, <2>1, <2>2, <2>3, <2>4, <2>6 DEF BuilderInv, FrontierTrue
  <2> QED BY <2>5, <2>7 DEF RollupInv
<1>4. CASE FoldRange
  <2>1. /\ builder = "folding" /\ builder' = "upserting"
        /\ rows' = {r \in raw : Hour(r) \in from .. ChunkEnd - 1}
        /\ UNCHANGED <<now, raw, folded, late, from, to, purger, floor, failures, arrived>>
    BY <1>4 DEF FoldRange, purge
  <2>2. Frontier' = Frontier /\ ChunkEnd' = ChunkEnd
    BY <2>1 DEF Frontier, ChunkEnd, Lesser
  <2>3. TypeOK' /\ BuilderInv' /\ FrontierTrue'
    BY <1>0, <2>1, <2>2 DEF TypeOK, BuilderInv, FrontierTrue
  <2> QED BY <2>3 DEF RollupInv
<1>5. CASE Upsert
  <2>1. /\ builder = "upserting" /\ rows' = {}
        /\ folded' = {r \in folded : \A q \in rows : ~ SameBucket(r, q)} \cup rows
        /\ \/ ChunkEnd < to /\ builder' = "folding" /\ from' = ChunkEnd /\ to' = to
           \/ ~ (ChunkEnd < to) /\ builder' = "idle" /\ from' = 0 /\ to' = 0
        /\ UNCHANGED <<now, raw, late, purger, floor, failures, arrived>>
    BY <1>5 DEF Upsert, EndBuild, purge
  <2>2. /\ ChunkEnd \in Nat /\ from \in Nat /\ from < ChunkEnd /\ ChunkEnd <= to
        /\ to \in Nat /\ to <= HourOf(now)
    BY <1>0, <2>1 DEF BuilderInv, TypeOK, ChunkEnd, Lesser, RollupConstants
  <2>3. /\ \A r \in rows : Hour(r) \in Nat /\ from <= Hour(r) /\ Hour(r) < ChunkEnd
        /\ \A r \in raw : Hour(r) \in Nat
        /\ \A r \in folded : Hour(r) \in Nat
    BY <1>0, <2>1, <2>2, HourFacts DEF BuilderInv
  <2>4. folded' \subseteq Results
    BY <1>0, <2>1
  <2>5. /\ Frontier' \in Nat
        /\ \A r \in folded' : Hour(r) < Frontier'
        /\ Frontier' # 0 => \E r \in folded' : Frontier' = Hour(r) + 1
    BY <2>4, FrontierFacts DEF Frontier
  <2>6. ASSUME NEW r \in folded, ~ (from <= Hour(r) /\ Hour(r) < ChunkEnd)
        PROVE  r \in folded'
    BY <2>1, <2>3, <2>6 DEF SameBucket
  <2>7. ASSUME NEW r \in raw \ late, Hour(r) < ChunkEnd
        PROVE  r \in folded'
    <3>1. CASE Hour(r) < from
      BY <1>0, <2>1, <2>2, <2>3, <2>6, <3>1 DEF BuilderInv
    <3>2. CASE from <= Hour(r)
      <4>1. Hour(r) \in from .. ChunkEnd - 1
        BY <2>2, <2>3, <2>7, <3>2
      <4> QED BY <1>0, <2>1, <4>1 DEF BuilderInv
    <3> QED BY <2>2, <2>3, <3>1, <3>2
  <2>8. FrontierTrue'
    <3> SUFFICES ASSUME NEW r \in raw \ late, Hour(r) < Frontier', ~ (Hour(r) < ChunkEnd)
                 PROVE  r \in folded'
      BY <2>1, <2>7 DEF FrontierTrue
    <3>1. PICK q \in folded' : Frontier' = Hour(q) + 1
      BY <2>3, <2>5
    <3>2. Hour(q) >= Hour(r) /\ Hour(q) \in Nat /\ Hour(r) \in Nat
      BY <1>0, <2>3, <2>4, <3>1, HourFacts
    <3>3. q \in folded
      BY <2>1, <2>2, <2>3, <3>2
    <3>4. Hour(r) < Frontier
      BY <1>0, <3>2, <3>3
    <3>5. r \in folded
      BY <1>0, <3>4 DEF FrontierTrue
    <3> QED BY <2>6, <3>5
  <2>9. Frontier <= Frontier'
    <3>1. CASE Frontier = 0
      BY <2>5, <3>1
    <3>2. CASE Frontier # 0
      <4>1. PICK r \in folded : Frontier = Hour(r) + 1
        BY <1>0, <3>2
      <4>2. \E q \in folded' : Hour(q) = Hour(r)
        <5>1. CASE r \in folded'
          BY <5>1
        <5>2. CASE r \notin folded'
          <6>1. PICK q \in rows : SameBucket(r, q)
            BY <2>1, <4>1, <5>2
          <6> QED BY <2>1, <6>1 DEF SameBucket
        <5> QED BY <5>1, <5>2
      <4> QED BY <1>0, <2>3, <2>5, <4>1, <4>2
    <3> QED BY <3>1, <3>2
  <2>10. TypeOK'
    BY <1>0, <2>1, <2>2, <2>4 DEF TypeOK
  <2>11. BuilderInv'
    <3>1. floor <= Frontier' /\ floor \in Nat
      BY <1>0, <2>5, <2>9 DEF BuilderInv, TypeOK
    <3>2. \A r \in folded' : Hour(r) < HourOf(now)
      BY <1>0, <2>1, <2>2, <2>3 DEF BuilderInv
    <3> QED BY <1>0, <2>1, <2>2, <2>7, <3>1, <3>2 DEF BuilderInv
  <2> QED BY <2>8, <2>10, <2>11 DEF RollupInv
<1>6. CASE BuildFails
  <2>1. /\ builder' = "idle" /\ rows' = {} /\ from' = 0 /\ to' = 0
        /\ failures < MaxFailures /\ failures' = failures + 1
        /\ UNCHANGED <<now, raw, folded, late, purger, floor, arrived>>
    BY <1>6 DEF BuildFails, EndBuild, purge
  <2>2. Frontier' = Frontier
    BY <2>1 DEF Frontier
  <2>3. TypeOK'
    BY <1>0, <2>1 DEF TypeOK, RollupConstants
  <2>4. BuilderInv' /\ FrontierTrue'
    BY <1>0, <2>1, <2>2 DEF BuilderInv, FrontierTrue
  <2> QED BY <2>3, <2>4 DEF RollupInv
<1>7. CASE StartPurge \/ DeleteRows
  <2>1. /\ raw' \subseteq raw
        /\ purger' \in {"idle", "deleting"} /\ floor' \in {0, Frontier}
        /\ UNCHANGED <<now, folded, late, builder, from, to, rows, failures, arrived>>
    BY <1>7 DEF StartPurge, DeleteRows, build
  <2>2. Frontier' = Frontier /\ ChunkEnd' = ChunkEnd
    BY <2>1 DEF Frontier, ChunkEnd, Lesser
  <2>3. TypeOK'
    BY <1>0, <2>1 DEF TypeOK
  <2>4. BuilderInv' /\ FrontierTrue'
    BY <1>0, <2>1, <2>2 DEF BuilderInv, FrontierTrue
  <2> QED BY <2>3, <2>4 DEF RollupInv
<1>8. CASE UNCHANGED vars
  BY <1>8 DEF vars, RollupInv, TypeOK, BuilderInv, FrontierTrue, Frontier, ChunkEnd, Lesser
<1> QED BY <1>1, <1>2, <1>3, <1>4, <1>5, <1>6, <1>7, <1>8 DEF Next, Build

\* The inductive invariant, reached from the empty tables.
THEOREM BuilderInvariant ==
    ASSUME RollupConstants
    PROVE  Spec => []RollupInv
<1>1. Init => RollupInv
  BY InitInv
<1>2. RollupInv /\ [Next]_vars => RollupInv'
  BY Step
<1> QED BY <1>1, <1>2, PTL DEF Spec

\* Whatever arrives while a run reads, whatever fails between two chunks, and
\* however much is purged: the tables hold what their columns say
\* (models/rollup.py).
THEOREM RollupTypes ==
    ASSUME RollupConstants
    PROVE  Spec => []TypeOK
<1>1. RollupInv => TypeOK
  BY DEF RollupInv
<1> QED BY <1>1, BuilderInvariant, PTL

\* Every result that arrived within its hour and lies below the frontier is in
\* its bucket, which stats.py and the purge rely on (rollup_boundary).
THEOREM FrontierHolds ==
    ASSUME RollupConstants
    PROVE  Spec => []FrontierTrue
<1>1. RollupInv => FrontierTrue
  BY DEF RollupInv
<1> QED BY <1>1, BuilderInvariant, PTL
-----------------------------------------------------------------------------
\* A partition ends after every row in it.
LEMMA PartitionCovers ==
    ASSUME NEW x \in Nat, NEW p \in Nat \ {0}
    PROVE  (x \div p + 1) * p \in Nat /\ (x \div p + 1) * p > x
<1>1. x \div p \in Nat
  OBVIOUS
<1>2. (x \div p + 1) * p > x
  OBVIOUS
<1>3. \A q \in Nat : (q + 1) * p \in Nat
  OBVIOUS
<1> QED BY <1>1, <1>2, <1>3

\* The floor that a purge step deletes by.
FloorInForce == IF purger = "idle" THEN Frontier ELSE floor

\* What a purge step deletes lies below the cutoff of its retention.
LEMMA Deleted ==
    ASSUME RollupConstants, RollupInv, NEW n \in Nat, \A m \in Monitors : Keep[m] <= n,
           Next, NEW r \in raw \ raw'
    PROVE  /\ r[2] < Cutoff(Keep[r[1]], FloorInForce)
           /\ floor' \in {0, FloorInForce}
<1>0. /\ r \in Results /\ r[2] \in Nat /\ r[1] \in Monitors /\ Keep[r[1]] \in Nat
      /\ now \in Nat /\ floor \in Nat /\ Frontier \in Nat
  <2>1. r \in Results /\ folded \subseteq Results /\ now \in Nat /\ floor \in Nat
    BY DEF RollupInv, TypeOK, Slots
  <2>2. Frontier \in Nat
    BY <2>1, FrontierFacts DEF Frontier
  <2> QED BY <2>1, <2>2, HourFacts DEF RollupConstants
<1>1. StartPurge \/ DeleteRows
  BY DEF Next, Build, Arrive, Advance, StartBuild, FoldRange, Upsert, BuildFails
<1>2. CASE StartPurge
  <2>1. /\ purger = "idle" /\ floor' = Frontier
        /\ ~ (PartitionEnd(r) > Cutoff(Longest, Frontier))
    BY <1>2 DEF StartPurge
  <2>2. Longest \in Nat /\ Keep[r[1]] <= Longest
    <3> DEFINE K == {Keep[m] : m \in Monitors}
    <3>1. K \subseteq 0 .. n /\ K # {}
      BY <1>0 DEF RollupConstants
    <3>2. Max(K) \in K /\ \A y \in K : y <= Max(K)
      BY <3>1, GreatestElement
    <3>3. Keep[r[1]] \in K /\ K \subseteq Nat
      BY <1>0, <3>1
    <3> HIDE DEF K
    <3>4. Max(K) \in Nat /\ Keep[r[1]] <= Max(K)
      BY <3>2, <3>3
    <3> QED BY <3>4 DEF Longest, K
  <2>3. PartitionEnd(r) \in Int /\ PartitionEnd(r) > r[2]
    <3>1. PartitionSlots \in Nat \ {0}
      BY DEF RollupConstants
    <3>2. PartitionEnd(r) \in Nat /\ PartitionEnd(r) > r[2]
      BY <1>0, <3>1, PartitionCovers DEF PartitionEnd
    <3> QED BY <3>2
  <2>4. Cutoff(Longest, Frontier) \in Int /\ Cutoff(Longest, Frontier) <= Cutoff(Keep[r[1]], Frontier)
    BY <1>0, <2>2 DEF Cutoff
  <2>5. Cutoff(Keep[r[1]], Frontier) \in Int
    BY <1>0 DEF Cutoff
  <2>6. r[2] < Cutoff(Keep[r[1]], Frontier)
    BY <1>0, <2>1, <2>3, <2>4, <2>5
  <2> QED BY <2>1, <2>6 DEF FloorInForce
<1>3. CASE DeleteRows
  <2>1. purger = "deleting" /\ floor' = 0 /\ ~ (r[2] >= Cutoff(Keep[r[1]], floor))
    BY <1>3 DEF DeleteRows
  <2>2. Cutoff(Keep[r[1]], floor) \in Int
    BY <1>0 DEF Cutoff
  <2>3. r[2] < Cutoff(Keep[r[1]], floor)
    BY <1>0, <2>1, <2>2
  <2> QED BY <2>1, <2>3 DEF FloorInForce
<1> QED BY <1>1, <1>2, <1>3

\* Retention deletes only what is due for its monitor, and with a floor only what
\* is folded or arrived late, for any retention below a bound
\* (purge_old_results, _purge_partitioned_table).
THEOREM PurgeDeletesOnlyDue ==
    ASSUME RollupConstants, NEW n \in Nat, \A m \in Monitors : Keep[m] <= n
    PROVE  Spec => PurgeSpares
<1>1. ASSUME RollupInv, [Next]_vars
      PROVE  /\ [{floor, floor'} # {0} => raw \ raw' \subseteq late \cup folded]_vars
             /\ [\A r \in raw \ raw' : r[2] + Keep[r[1]] < now]_vars
  <2> SUFFICES ASSUME Next
               PROVE  /\ {floor, floor'} # {0} => raw \ raw' \subseteq late \cup folded
                      /\ \A r \in raw \ raw' : r[2] + Keep[r[1]] < now
    BY <1>1
  <2>0. now \in Nat /\ floor \in Nat /\ floor <= Frontier /\ Frontier \in Nat
    <3>1. now \in Nat /\ floor \in Nat /\ floor <= Frontier /\ folded \in SUBSET Results
      BY <1>1 DEF RollupInv, TypeOK, BuilderInv, Slots
    <3>2. Frontier \in Nat
      BY <3>1, FrontierFacts DEF Frontier
    <3> QED BY <3>1, <3>2
  <2>1. ASSUME NEW r \in raw \ raw'
        PROVE  /\ r[2] + Keep[r[1]] < now
               /\ {floor, floor'} # {0} => r \in late \cup folded
    <3> DEFINE f == FloorInForce
    <3>1. r[2] < Cutoff(Keep[r[1]], f) /\ floor' \in {0, f} /\ f \in Nat /\ f <= Frontier
      BY <1>1, <2>0, <2>1, Deleted DEF FloorInForce
    <3>2. floor # 0 => f # 0
      BY <2>0 DEF FloorInForce
    <3> HIDE DEF f
    <3>3. /\ r[2] \in Nat /\ Keep[r[1]] \in Nat /\ Hour(r) \in Nat /\ 2 * Hour(r) <= r[2]
      BY <1>1, <2>1, HourFacts DEF RollupInv, TypeOK, RollupConstants
    <3>4. r[2] < now - Keep[r[1]] /\ (f # 0 => r[2] < 2 * f)
      BY <2>0, <3>1, <3>3 DEF Cutoff
    <3>5. f # 0 => Hour(r) < Frontier
      BY <2>0, <3>1, <3>3, <3>4
    <3>6. f # 0 => r \in late \cup folded
      BY <1>1, <2>1, <3>5 DEF RollupInv, FrontierTrue
    <3>7. {floor, floor'} # {0} => f # 0
      BY <3>1, <3>2
    <3>8. r[2] + Keep[r[1]] < now
      BY <2>0, <3>3, <3>4
    <3> QED BY <3>6, <3>7, <3>8
  <2> QED BY <2>1
<1>2. Spec => []RollupInv
  BY BuilderInvariant
<1>3. Spec => PurgedWereFolded
  BY <1>1, <1>2, PTL DEF Spec, PurgedWereFolded
<1>4. Spec => KeepsWhatWasAsked
  BY <1>1, <1>2, PTL DEF Spec, KeepsWhatWasAsked
<1> QED BY <1>3, <1>4 DEF PurgeSpares
-----------------------------------------------------------------------------
\* A row that arrived in time stays one until it is purged, and that is not
\* before its hour is over; the frontier and the clock never fall back.
LEMMA RowsStay ==
    ASSUME RollupConstants, RollupInv, NEW n \in Nat, \A m \in Monitors : Keep[m] <= n, Next
    PROVE  /\ now <= now' /\ now' \in Nat /\ Frontier \in Nat /\ Frontier <= Frontier'
           /\ Frontier' \in Nat
           /\ \A r \in raw \ late : r \in raw' \ late' \/ HourOf(r[2]) < HourOf(now)
           /\ \A r \in Results : HourOf(r[2]) < HourOf(now) /\ r \notin raw \ late =>
                                    r \notin raw' \ late'
<1>0. /\ TypeOK /\ BuilderInv /\ RollupInv'
      /\ now \in Slots /\ raw \subseteq Results /\ folded \subseteq Results
      /\ folded' \subseteq Results /\ now \in Nat
  <2>1. RollupInv'
    BY Step
  <2> QED BY <2>1 DEF RollupInv, TypeOK, Slots
<1>1. now <= now' /\ now' \in Nat
  BY <1>0 DEF Next, Build, Arrive, Advance, StartBuild, FoldRange, Upsert, BuildFails, StartPurge,
              DeleteRows
<1>2. \A r \in folded : \E q \in folded' : Hour(q) = Hour(r)
  <2>1. CASE Upsert
    BY <2>1 DEF Upsert, SameBucket
  <2>2. CASE ~ Upsert
    BY <2>2 DEF Next, Build, Arrive, Advance, StartBuild, FoldRange, BuildFails, StartPurge,
                DeleteRows
  <2> QED BY <2>1, <2>2
<1>3. Frontier \in Nat /\ Frontier' \in Nat /\ Frontier <= Frontier'
  <2>1. /\ Frontier \in Nat
        /\ Frontier # 0 => \E r \in folded : Frontier = Hour(r) + 1
    BY <1>0, FrontierFacts DEF Frontier
  <2>2. /\ Frontier' \in Nat
        /\ \A r \in folded' : Hour(r) < Frontier'
    BY <1>0, FrontierFacts DEF Frontier
  <2>3. CASE Frontier = 0
    BY <2>1, <2>2, <2>3
  <2>4. CASE Frontier # 0
    <3>1. PICK q \in folded' : Frontier = Hour(q) + 1
      BY <1>2, <2>1, <2>4
    <3>2. Hour(q) \in Nat /\ Hour(q) < Frontier'
      BY <1>0, <2>2, <3>1, HourFacts
    <3> QED BY <2>2, <3>1, <3>2
  <2> QED BY <2>3, <2>4
<1>4. /\ \/ late' = late
         \/ \E r \in Results : Arrive(r)
      /\ \/ raw' = raw
         \/ \E r \in Results : Arrive(r)
         \/ raw' \subseteq raw
  BY DEF Next, Build, Arrive, Advance, StartBuild, FoldRange, Upsert, BuildFails, StartPurge,
         DeleteRows
<1>5. ASSUME NEW r \in raw \ late
      PROVE  r \in raw' \ late' \/ HourOf(r[2]) < HourOf(now)
  <2>1. CASE r \in raw \ raw'
    <3>1. r[2] < Cutoff(Keep[r[1]], FloorInForce)
      BY <2>1, Deleted
    <3>2. r[2] \in Nat /\ Keep[r[1]] \in Nat \ {0}
      BY <1>0, <2>1, HourFacts DEF RollupConstants
    <3>3. FloorInForce \in Nat
      BY <1>0, <1>3 DEF FloorInForce, TypeOK
    <3>4. r[2] + Keep[r[1]] < now
      BY <1>0, <3>1, <3>2, <3>3 DEF Cutoff
    <3>5. r[2] + 2 <= now
      BY <1>0, <3>2, <3>4
    <3> QED BY <1>0, <3>2, <3>5 DEF HourOf
  <2>2. CASE r \in raw'
    BY <1>4, <2>2 DEF Arrive
  <2> QED BY <2>1, <2>2
<1>6. ASSUME NEW r \in Results, HourOf(r[2]) < HourOf(now), r \notin raw \ late
      PROVE  r \notin raw' \ late'
  <2>1. CASE \E q \in Results : Arrive(q)
    BY <1>6, <2>1 DEF Arrive, Hour
  <2>2. CASE raw' \subseteq raw /\ late' = late
    BY <1>6, <2>2
  <2> QED BY <1>4, <2>1, <2>2
<1> QED BY <1>1, <1>3, <1>5, <1>6

-----------------------------------------------------------------------------
\* What a report has read, and what it may still meet.  The hours it takes from
\* the rollups were below the frontier when it began, and the frontier never falls
\* back.  A result it owes is a row that arrived in time, until it is purged; by
\* then its hour is over.
HoursChosen ==
    \/ hours = {}
    \/ \E b \in 0 .. Frontier :
          hours = CeilHour(start) .. b - 1 /\ CeilHour(start) < b /\ b <= HourOf(end)

\* The queries that were to find a result are over, and one of them found it.
Counted(r) ==
    \/ reading \in {"head", "tail", "done"} /\ Hour(r) \in hours /\ r \in byRollup
    \/ reading \in {"tail", "done"} /\ r[2] \in HeadGap /\ r \in byRaw
    \/ reading = "done" /\ r[2] \in TailGap /\ r \in byRaw

\* The query that was to find a result is over.
Looked(r) ==
    \/ reading \in {"head", "tail", "done"} /\ Hour(r) \in hours
    \/ reading \in {"tail", "done"} /\ r[2] \in HeadGap
    \/ reading = "done" /\ r[2] \in TailGap

ReportInv ==
    /\ ReportTypeOK
    /\ start <= end /\ end <= now
    /\ HoursChosen
    /\ reading = "none" => byRollup = {} /\ byRaw = {} /\ owed = {}
    /\ \A r \in byRollup : Hour(r) \in hours
    /\ \A r \in byRaw : r[2] \in HeadGap \cup TailGap
    /\ \A r \in owed : /\ InWindow(r, start, end)
                       /\ r \in raw \ late \/ HourOf(r[2]) < HourOf(now)
                       /\ Looked(r) => Counted(r) \/ r \notin raw \ late

\* The hours of the rollups and the two gaps are the window, and none overlaps
\* another.
LEMMA GapFacts ==
    ASSUME RollupConstants, ReportTypeOK, start <= end, HoursChosen
    PROVE  /\ \A t \in Slots : HourOf(t) \in hours => t \notin HeadGap /\ t \notin TailGap
           /\ \A t \in Slots : t \in start .. end <=>
                                  HourOf(t) \in hours \/ t \in HeadGap \/ t \in TailGap
<1>1. start \in Nat /\ end \in Nat /\ \A t \in Slots : t \in Nat
  BY DEF ReportTypeOK, Slots
<1>2. CASE hours = {}
  BY <1>1, <1>2 DEF HeadGap, TailGap
<1>3. CASE hours # {}
  <2>1. PICK a \in Nat : a = CeilHour(start) /\ start <= 2 * a /\ 2 * a <= start + 1
    BY <1>1 DEF CeilHour
  <2>2. PICK b \in Int : hours = a .. b - 1 /\ a < b /\ b <= HourOf(end)
    BY <1>3, <2>1 DEF HoursChosen
  <2>3. 2 * b <= end
    BY <1>1, <2>2 DEF HourOf
  <2>4. hours \subseteq Nat /\ hours \subseteq 0 .. b /\ b \in Nat
    BY <2>1, <2>2
  <2>5. Min(hours) \in hours /\ \A y \in hours : Min(hours) <= y
    BY <1>3, <2>4, LeastElement
  <2>6. Max(hours) \in hours /\ \A y \in hours : y <= Max(hours)
    BY <1>3, <2>4, GreatestElement
  <2>7. Min(hours) = a /\ Max(hours) = b - 1
    <3>1. a \in hours /\ b - 1 \in hours
      BY <2>1, <2>2
    <3> QED BY <2>1, <2>2, <2>5, <2>6, <3>1
  <2>8. HeadGap = start .. 2 * a - 1 /\ TailGap = 2 * b .. end
    <3>1. 2 * Max(hours) + 2 = 2 * b
      BY <2>2, <2>7
    <3> QED BY <1>3, <2>7, <3>1 DEF HeadGap, TailGap
  <2>9. ASSUME NEW t \in Slots
        PROVE  /\ HourOf(t) \in hours <=> t \in 2 * a .. 2 * b - 1
               /\ t \in Nat
    <3>1. /\ t \in Nat /\ HourOf(t) \in Nat
          /\ 2 * HourOf(t) <= t /\ t <= 2 * HourOf(t) + 1
      BY <1>1 DEF HourOf
    <3> QED BY <2>1, <2>2, <3>1
  <2> QED BY <1>1, <2>1, <2>2, <2>3, <2>8, <2>9, SMTT(30)
<1> QED BY <1>2, <1>3

\* A report's window does not change while it is read.
LEMMA WindowStays ==
    ASSUME UNCHANGED <<start, end, hours>>
    PROVE  HeadGap' = HeadGap /\ TailGap' = TailGap
BY DEF HeadGap, TailGap

\* No step loses a result that the report owes, or counts one out of place.
LEMMA ReportStep ==
    ASSUME RollupConstants, NEW n \in Nat, \A m \in Monitors : Keep[m] <= n,
           RollupInv, ReportInv, [ReportNext]_reportVars
    PROVE  ReportInv'
<1>0. /\ ReportTypeOK /\ HoursChosen /\ TypeOK /\ FrontierTrue
      /\ now \in Slots /\ now \in Nat /\ start \in Nat /\ end \in Nat /\ start <= end /\ end <= now
      /\ raw \subseteq Results /\ owed \subseteq Results /\ folded \subseteq Results
      /\ Frontier \in Nat
  <2>1. TypeOK /\ FrontierTrue /\ folded \subseteq Results
    BY DEF RollupInv, TypeOK
  <2>2. Frontier \in Nat
    BY <2>1, FrontierFacts DEF Frontier
  <2> QED BY <2>1, <2>2 DEF TypeOK, ReportInv, ReportTypeOK, Slots
<1>1. CASE Next /\ UNCHANGED report
  <2>1. /\ now <= now' /\ now' \in Nat /\ Frontier <= Frontier' /\ Frontier' \in Nat
        /\ \A r \in raw \ late : r \in raw' \ late' \/ HourOf(r[2]) < HourOf(now)
        /\ \A r \in Results : HourOf(r[2]) < HourOf(now) /\ r \notin raw \ late =>
                                 r \notin raw' \ late'
    BY <1>1, RowsStay
  <2>2. UNCHANGED <<reading, start, end, hours, byRollup, byRaw, owed>>
    BY <1>1 DEF report
  <2>3. HourOf(now) <= HourOf(now') /\ HourOf(now) \in Nat /\ HourOf(now') \in Nat
    <3>1. \A t \in Nat : HourOf(t) \in Nat /\ 2 * HourOf(t) <= t /\ t <= 2 * HourOf(t) + 1
      BY DEF HourOf
    <3> QED BY <1>0, <2>1, <3>1
  <2>4. ReportTypeOK' /\ start' <= end' /\ end' <= now'
    BY <1>0, <2>1, <2>2 DEF ReportTypeOK
  <2>5. HoursChosen'
    BY <1>0, <2>1, <2>2 DEF HoursChosen
  <2>6. HeadGap' = HeadGap /\ TailGap' = TailGap
    BY <2>2, WindowStays
  <2>7. \A r : (Looked(r)' <=> Looked(r)) /\ (Counted(r)' <=> Counted(r))
    BY <2>2, <2>6 DEF Looked, Counted
  <2>8. ASSUME NEW r \in owed
        PROVE  /\ r \in raw' \ late' \/ HourOf(r[2]) < HourOf(now')
               /\ Looked(r) => Counted(r) \/ r \notin raw' \ late'
    <3>1. /\ r \in Results /\ HourOf(r[2]) \in Nat
          /\ r \in raw \ late \/ HourOf(r[2]) < HourOf(now)
          /\ Looked(r) => Counted(r) \/ r \notin raw \ late
      BY <1>0, HourFacts DEF ReportInv, Hour
    <3> QED BY <2>1, <2>3, <3>1
  <2> QED BY <2>2, <2>4, <2>5, <2>6, <2>7, <2>8 DEF ReportInv, InWindow
<1>2. CASE \E s \in Slots : BeginReport(s)
  <2>1. PICK s \in Slots : BeginReport(s)
    BY <1>2
  <2>2. /\ reading = "none" /\ s <= now /\ reading' = "rollups" /\ start' = s /\ end' = now
        /\ hours' = CeilHour(s) .. Lesser(Frontier, HourOf(now)) - 1
        /\ owed' = {r \in raw \ late : InWindow(r, s, now)}
        /\ UNCHANGED <<now, raw, late, folded, byRollup, byRaw>>
        /\ byRollup = {} /\ byRaw = {}
    BY <2>1 DEF BeginReport, RollupWindow, vars, ReportInv
  <2>3. /\ s \in Nat /\ CeilHour(s) \in Nat /\ HourOf(now) \in Nat /\ HourOf(now) <= now
        /\ now <= LastSlot /\ LastSlot \in Nat
    BY <1>0 DEF Slots, CeilHour, HourOf, RollupConstants
  <2>4. PICK b \in Nat : b = Lesser(Frontier, HourOf(now))
    BY <1>0, <2>3 DEF Lesser
  <2>5. b <= Frontier /\ b <= HourOf(now) /\ b <= LastSlot
    BY <1>0, <2>3, <2>4 DEF Lesser
  <2>6. hours' = CeilHour(s) .. b - 1
    BY <2>2, <2>4
  <2>7. hours' \subseteq 0 .. LastSlot
    BY <2>3, <2>5, <2>6
  <2>8. HoursChosen'
    <3>1. Frontier' = Frontier /\ b \in 0 .. Frontier
      BY <1>0, <2>2, <2>5 DEF Frontier
    <3>2. CASE CeilHour(s) < b
      BY <2>2, <2>5, <2>6, <3>1, <3>2 DEF HoursChosen
    <3>3. CASE ~ (CeilHour(s) < b)
      <4>1. hours' = {}
        BY <2>3, <2>6, <3>3
      <4> QED BY <4>1 DEF HoursChosen
    <3> QED BY <3>2, <3>3
  <2>9. ReportTypeOK' /\ start' <= end' /\ end' <= now'
    BY <1>0, <2>2, <2>7 DEF ReportTypeOK
  <2>10. \A r : ~ Looked(r)'
    BY <2>2 DEF Looked
  <2> QED BY <2>2, <2>8, <2>9, <2>10 DEF ReportInv, InWindow
<1>3. CASE ReadRollups
  <2>1. /\ reading = "rollups" /\ reading' = "head"
        /\ byRollup' = {r \in folded : Hour(r) \in hours}
        /\ UNCHANGED <<now, raw, late, folded, start, end, hours, byRaw, owed>>
    BY <1>3 DEF ReadRollups, vars
  <2>2. ReportTypeOK' /\ start' <= end' /\ end' <= now'
    BY <1>0, <2>1 DEF ReportTypeOK
  <2>3. HoursChosen' /\ HeadGap' = HeadGap /\ TailGap' = TailGap
    BY <1>0, <2>1, WindowStays DEF HoursChosen, Frontier
  <2>4. ASSUME NEW r \in owed, Looked(r)', r \in raw \ late
        PROVE  Counted(r)'
    <3>1. Hour(r) \in hours
      BY <2>1, <2>4 DEF Looked
    <3>2. Hour(r) < Frontier
      <4>1. CeilHour(start) \in Nat
        BY <1>0 DEF CeilHour
      <4> QED BY <1>0, <3>1, <4>1 DEF HoursChosen
    <3>3. r \in folded
      BY <1>0, <2>4, <3>2 DEF FrontierTrue
    <3> QED BY <2>1, <3>1, <3>3 DEF Counted
  <2> QED BY <2>1, <2>2, <2>3, <2>4 DEF ReportInv, InWindow
<1>4. CASE ReadHead
  <2>1. /\ reading = "head" /\ reading' = "tail"
        /\ byRaw' = {r \in raw : r[2] \in HeadGap}
        /\ UNCHANGED <<now, raw, late, folded, start, end, hours, byRollup, owed>>
    BY <1>4 DEF ReadHead, vars
  <2>2. ReportTypeOK' /\ start' <= end' /\ end' <= now'
    BY <1>0, <2>1 DEF ReportTypeOK
  <2>3. HoursChosen' /\ HeadGap' = HeadGap /\ TailGap' = TailGap
    BY <1>0, <2>1, WindowStays DEF HoursChosen, Frontier
  <2>4. ASSUME NEW r \in owed, Looked(r)', r \in raw \ late
        PROVE  Counted(r)'
    <3>1. CASE Hour(r) \in hours
      <4>1. Looked(r) /\ Counted(r)
        BY <2>1, <2>4, <3>1 DEF Looked, ReportInv
      <4> QED BY <2>1, <3>1, <4>1 DEF Counted
    <3>2. CASE r[2] \in HeadGap
      BY <2>1, <2>3, <2>4, <3>2 DEF Counted
    <3> QED BY <2>1, <2>3, <2>4, <3>1, <3>2 DEF Looked
  <2> QED BY <2>1, <2>2, <2>3, <2>4 DEF ReportInv, InWindow
<1>5. CASE ReadTail
  <2>1. /\ reading = "tail" /\ reading' = "done"
        /\ byRaw' = byRaw \cup {r \in raw : r[2] \in TailGap}
        /\ UNCHANGED <<now, raw, late, folded, start, end, hours, byRollup, owed>>
    BY <1>5 DEF ReadTail, vars
  <2>2. ReportTypeOK' /\ start' <= end' /\ end' <= now'
    BY <1>0, <2>1 DEF ReportTypeOK
  <2>3. HoursChosen' /\ HeadGap' = HeadGap /\ TailGap' = TailGap
    BY <1>0, <2>1, WindowStays DEF HoursChosen, Frontier
  <2>4. ASSUME NEW r \in owed, Looked(r)', r \in raw \ late
        PROVE  Counted(r)'
    <3>1. CASE Hour(r) \in hours \/ r[2] \in HeadGap
      <4>1. Looked(r) /\ Counted(r)
        BY <2>1, <2>4, <3>1 DEF Looked, ReportInv
      <4> QED BY <2>1, <2>3, <3>1, <4>1 DEF Counted
    <3>2. CASE r[2] \in TailGap
      BY <2>1, <2>3, <2>4, <3>2 DEF Counted
    <3> QED BY <2>1, <2>3, <2>4, <3>1, <3>2 DEF Looked
  <2> QED BY <2>1, <2>2, <2>3, <2>4 DEF ReportInv, InWindow
<1>6. CASE UNCHANGED reportVars
  <2>1. UNCHANGED <<now, raw, late, folded, reading, start, end, hours, byRollup, byRaw, owed>>
    BY <1>6 DEF reportVars, report, vars
  <2>2. HoursChosen' /\ HeadGap' = HeadGap /\ TailGap' = TailGap
    BY <1>0, <2>1, WindowStays DEF HoursChosen, Frontier
  <2> QED BY <2>1, <2>2 DEF ReportInv, ReportTypeOK, InWindow, Looked, Counted
<1> QED BY <1>1, <1>2, <1>3, <1>4, <1>5, <1>6 DEF ReportNext

\* The invariant of a report beside the builder and the purge.
THEOREM ReportInvariant ==
    ASSUME RollupConstants, NEW n \in Nat, \A m \in Monitors : Keep[m] <= n
    PROVE  ReportSpec => [](RollupInv /\ ReportInv)
<1>1. ReportInit => RollupInv /\ ReportInv
  <2>1. ASSUME ReportInit
        PROVE  ReportInv
    BY <2>1 DEF ReportInit, Init, ReportInv, ReportTypeOK, HoursChosen, Slots, RollupConstants
  <2> QED BY <2>1, InitInv DEF ReportInit
<1>2. RollupInv /\ ReportInv /\ [ReportNext]_reportVars => (RollupInv /\ ReportInv)'
  <2>1. [ReportNext]_reportVars => [Next]_vars
    BY DEF ReportNext, reportVars, BeginReport, ReadRollups, ReadHead, ReadTail
  <2> QED BY <2>1, Step, ReportStep
<1> QED BY <1>1, <1>2, PTL DEF ReportSpec

\* A report counts every result in its window that was stored in time and not purged
\* meanwhile, and none twice, whatever the builder and the purge do between its
\* queries (compute_uptime_in_range).
THEOREM ReportCountsAll ==
    ASSUME RollupConstants, NEW n \in Nat, \A m \in Monitors : Keep[m] <= n
    PROVE  ReportSpec => []ReportWhole
<1>1. ASSUME RollupInv, ReportInv, reading = "done"
      PROVE  /\ byRollup \cap byRaw = {}
             /\ \A r \in byRollup \cup byRaw : InWindow(r, start, end)
             /\ \A r \in owed \ (byRollup \cup byRaw) : r \notin raw \ late
  <2>1. /\ \A t \in Slots : HourOf(t) \in hours => t \notin HeadGap /\ t \notin TailGap
        /\ \A t \in Slots : t \in start .. end <=>
                               HourOf(t) \in hours \/ t \in HeadGap \/ t \in TailGap
    BY <1>1, GapFacts DEF ReportInv
  <2>2. \A r \in byRollup \cup byRaw \cup owed : r[2] \in Slots
    BY <1>1 DEF ReportInv, ReportTypeOK, Results
  <2>3. byRollup \cap byRaw = {}
    BY <1>1, <2>1, <2>2 DEF ReportInv, Hour
  <2>4. \A r \in byRollup \cup byRaw : InWindow(r, start, end)
    BY <1>1, <2>1, <2>2 DEF ReportInv, Hour, InWindow
  <2>5. ASSUME NEW r \in owed \ (byRollup \cup byRaw)
        PROVE  r \notin raw \ late
    <3>1. Looked(r)
      BY <1>1, <2>1, <2>2 DEF ReportInv, InWindow, Looked, Hour
    <3> QED BY <1>1, <3>1 DEF ReportInv, Counted
  <2> QED BY <2>3, <2>4, <2>5
<1>2. RollupInv /\ ReportInv => ReportWhole
  BY <1>1 DEF ReportWhole
<1> QED BY <1>2, ReportInvariant, PTL

\* A report's variables keep their types.
THEOREM ReportTypes ==
    ASSUME RollupConstants, NEW n \in Nat, \A m \in Monitors : Keep[m] <= n
    PROVE  ReportSpec => []ReportTypeOK
<1>1. ReportInv => ReportTypeOK
  BY DEF ReportInv
<1> QED BY <1>1, ReportInvariant, PTL
=============================================================================
