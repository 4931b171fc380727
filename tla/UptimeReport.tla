---------------------------- MODULE UptimeReport ----------------------------
(***************************************************************************)
(* services/stats.py, compute_uptime_in_range beside the builder and the   *)
(* purge of Rollup: a report over [start, end] reads whole hours below the *)
(* frontier from the rollups, the rest from the raw results, in queries    *)
(* between which hours are folded and rows are purged.                     *)
(***************************************************************************)
EXTENDS Rollup

VARIABLES
    reading,     \* the query that comes next, "none" or "done"
    start, end,  \* the window, in slots
    hours,       \* the hours the rollups serve, as chosen from the boundary
    byRollup,    \* results counted through their buckets
    byRaw,       \* results counted as rows
    owed         \* results the database could tell of when the report began

report == <<reading, start, end, hours, byRollup, byRaw, owed>>
reportVars == <<vars, report>>

\* _rollup_window: from the first whole hour to the boundary, or the hour of end.
CeilHour(slot) == (slot + 1) \div 2

\* Mutant: rollups serve every whole hour of the window, built or not.
RollupWindowUnbounded(s, e, boundary) == CeilHour(s) .. HourOf(e) - 1

RollupWindow(s, e, boundary) == CeilHour(s) .. Lesser(boundary, HourOf(e)) - 1

\* _raw_gaps: what is left of [start, end] before and after those hours.
HeadGap == IF hours = {} THEN start .. end ELSE start .. 2 * Min(hours) - 1
TailGap == IF hours = {} THEN {} ELSE 2 * Max(hours) + 2 .. end

InWindow(r, s, e) == r[2] \in s .. e

ReportInit ==
    /\ Init
    /\ reading = "none" /\ start = 0 /\ end = 0 /\ hours = {}
    /\ byRollup = {} /\ byRaw = {} /\ owed = {}

BeginReport(s) ==
    /\ reading = "none" /\ s <= now
    /\ reading' = "rollups"
    /\ start' = s /\ end' = now
    /\ hours' = RollupWindow(s, now, Frontier)
    /\ owed' = {r \in raw \ late : InWindow(r, s, now)}
    /\ UNCHANGED <<vars, byRollup, byRaw>>

\* _fetch_rollup_rows.
ReadRollups ==
    /\ reading = "rollups"
    /\ byRollup' = {r \in folded : Hour(r) \in hours}
    /\ reading' = "head"
    /\ UNCHANGED <<vars, start, end, hours, byRaw, owed>>

\* _fetch_check_rows, once per gap.
ReadHead ==
    /\ reading = "head"
    /\ byRaw' = {r \in raw : r[2] \in HeadGap}
    /\ reading' = "tail"
    /\ UNCHANGED <<vars, start, end, hours, byRollup, owed>>

ReadTail ==
    /\ reading = "tail"
    /\ byRaw' = byRaw \cup {r \in raw : r[2] \in TailGap}
    /\ reading' = "done"
    /\ UNCHANGED <<vars, start, end, hours, byRollup, owed>>

ReportNext ==
    \/ Next /\ UNCHANGED report
    \/ \E s \in Slots : BeginReport(s)
    \/ ReadRollups \/ ReadHead \/ ReadTail

ReportSpec == ReportInit /\ [][ReportNext]_reportVars
-----------------------------------------------------------------------------
ReportTypeOK ==
    /\ reading \in {"none", "rollups", "head", "tail", "done"}
    /\ start \in Slots /\ end \in Slots /\ hours \subseteq 0 .. LastSlot
    /\ byRollup \subseteq Results /\ byRaw \subseteq Results /\ owed \subseteq Results

\* "Both sources always cover disjoint hour ranges" (stats.py) and nothing falls
\* between them: whatever is folded or purged between the queries, a report
\* counts no result twice, none from outside its window, and every one that was
\* stored in time before it began and is not purged before it ends.
ReportWhole ==
    reading = "done" =>
        /\ byRollup \cap byRaw = {}
        /\ \A r \in byRollup \cup byRaw : InWindow(r, start, end)
        /\ \A r \in owed \ (byRollup \cup byRaw) : r \notin raw \ late
=============================================================================
