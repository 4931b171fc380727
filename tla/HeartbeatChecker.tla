--------------------------- MODULE HeartbeatChecker ---------------------------
(***************************************************************************)
(* services/heartbeat.py and api/v1/ping.py: monitors that are pinged by   *)
(* the job they watch.  A tick loads the Cap monitors whose last ping is   *)
(* oldest, and opens an incident for an overdue one, resolves the incident *)
(* of one that was pinged, each in a transaction of its own.               *)
(*                                                                         *)
(* Leadership is checked at the start of a tick only, so ticks of two      *)
(* replicas may overlap: each of Checkers runs check_heartbeats.  Whether  *)
(* a monitor is overdue is decided from the rows loaded at the start of a  *)
(* tick.  Intervals differ, hence any monitor may fall due at any time.    *)
(***************************************************************************)
EXTENDS Naturals, Sequences, FiniteSets, SequencesExt

CONSTANTS
    Jobs,        \* enabled monitors of type "heartbeat"
    Checkers,
    MaxErrors    \* bound: ticks that fail

HeartbeatConstants == IsFiniteSet(Jobs) /\ MaxErrors \in Nat

VARIABLES
    cap,         \* heartbeat_max_monitors_per_run
    order,       \* Jobs by last_heartbeat_at, oldest first
    silent,      \* jobs past interval and grace
    open,        \* jobs with a committed open incident
    unanswered,  \* [Jobs -> Nat] opening pages since the last page of a resolution
    todo,        \* [Checkers -> Seq([job, overdue])] rest of the loaded batch
    step,        \* [Checkers -> ...] where check_heartbeats is
    errors

vars == <<cap, order, silent, open, unanswered, todo, step, errors>>
database == <<order, silent, open>>

\* "look": about to read the open incident; "insert" and "update": about to
\* flush, of an incident that another tick has resolved meanwhile in
\* "updateResolved"; "opening", "resolving", "resolvedAgain": flushed and paged.
Steps == {"idle", "look", "insert", "update", "updateResolved",
          "opening", "resolving", "resolvedAgain"}

Job(c) == todo[c][1].job
At(c, j, S) == step[c] \in S /\ Job(c) = j
Others(c) == Checkers \ {c}

Goto(c, s) == step' = [step EXCEPT ![c] = s]
AfterJob(c) == IF Tail(todo[c]) = <<>> THEN "idle" ELSE "look"
AbortTick(c) == /\ todo' = [todo EXCEPT ![c] = <<>>]
                /\ Goto(c, "idle")

Init ==
    /\ cap \in 1 .. Cardinality(Jobs)
    /\ order \in SetToSeqs(Jobs)
    /\ silent = {} /\ open = {}
    /\ unanswered = [j \in Jobs |-> 0]
    /\ todo = [c \in Checkers |-> <<>>]
    /\ step = [c \in Checkers |-> "idle"]
    /\ errors = 0

\* heartbeat_ping: last_heartbeat_at is now, so the monitor is last in order.
Ping(j) ==
    /\ silent' = silent \ {j}
    /\ \E i \in DOMAIN order : order[i] = j /\ order' = Append(RemoveAt(order, i), j)
    /\ UNCHANGED <<cap, open, unanswered, todo, step, errors>>

FallDue(j) ==
    /\ j \notin silent
    /\ silent' = silent \cup {j}
    /\ UNCHANGED <<cap, order, open, unanswered, todo, step, errors>>

\* Mutant: the query loads the overdue monitors only.
StartTickOverdue(c) ==
    LET loaded == SelectSeq(SubSeq(order, 1, cap), LAMBDA j : j \in silent) IN
    /\ step[c] = "idle" /\ loaded # <<>>
    /\ todo' = [todo EXCEPT ![c] =
                   [i \in DOMAIN loaded |-> [job |-> loaded[i], overdue |-> TRUE]]]
    /\ Goto(c, "look")
    /\ UNCHANGED <<cap, database, unanswered, errors>>

\* check_heartbeats: the batch, and whether each of it is overdue now.
StartTick(c) ==
    /\ step[c] = "idle"
    /\ todo' = [todo EXCEPT ![c] =
                   [i \in 1 .. cap |-> [job |-> order[i], overdue |-> order[i] \in silent]]]
    /\ Goto(c, "look")
    /\ UNCHANGED <<cap, database, unanswered, errors>>

\* Mutant: an open incident is resolved whether the monitor is overdue or not.
LookResolves(c) ==
    /\ step[c] = "look"
    /\ LET overdue == todo[c][1].overdue IN
       \/ /\ overdue /\ Job(c) \notin open
          /\ Goto(c, "insert")
          /\ UNCHANGED todo
       \/ /\ Job(c) \in open
          /\ Goto(c, "update")
          /\ UNCHANGED todo
       \/ /\ ~ overdue /\ Job(c) \notin open
          /\ todo' = [todo EXCEPT ![c] = Tail(@)]
          /\ Goto(c, AfterJob(c))
    /\ UNCHANGED <<cap, database, unanswered, errors>>

\* _check_one up to its decision, from the incident as committed now.
Look(c) ==
    /\ step[c] = "look"
    /\ LET overdue == todo[c][1].overdue IN
       \/ /\ overdue /\ Job(c) \notin open
          /\ Goto(c, "insert")
          /\ UNCHANGED todo
       \/ /\ ~ overdue /\ Job(c) \in open
          /\ Goto(c, "update")
          /\ UNCHANGED todo
       \/ /\ overdue <=> Job(c) \in open
          /\ todo' = [todo EXCEPT ![c] = Tail(@)]
          /\ Goto(c, AfterJob(c))
    /\ UNCHANGED <<cap, database, unanswered, errors>>

\* Mutant: the page leaves before the INSERT can collide.
InsertPagesFirst(c) ==
    /\ step[c] = "insert"
    /\ \A d \in Others(c) : ~ At(d, Job(c), {"opening", "resolving"})
    /\ unanswered' = [unanswered EXCEPT ![Job(c)] = @ + 1]
    /\ \/ Job(c) \in open /\ AbortTick(c)
       \/ Job(c) \notin open /\ Goto(c, "opening") /\ UNCHANGED todo
    /\ UNCHANGED <<cap, database, errors>>

\* The INSERT waits for another transaction on the monitor's open incident.  On
\* a collision the session is rolled back, which expires the loaded monitors:
\* the log line that follows raises, its handler too, and the tick ends.
Insert(c) ==
    /\ step[c] = "insert"
    /\ \A d \in Others(c) : ~ At(d, Job(c), {"opening", "resolving"})
    /\ \/ /\ Job(c) \in open
          /\ AbortTick(c)
          /\ UNCHANGED unanswered
       \/ /\ Job(c) \notin open
          /\ unanswered' = [unanswered EXCEPT ![Job(c)] = @ + 1]
          /\ Goto(c, "opening")
          /\ UNCHANGED todo
    /\ UNCHANGED <<cap, database, errors>>

\* The UPDATE, flushed by the queries of fire_alerts, waits for the row.
Update(c) ==
    /\ step[c] \in {"update", "updateResolved"}
    /\ \A d \in Others(c) : ~ At(d, Job(c), {"resolving", "resolvedAgain"})
    /\ unanswered' = [unanswered EXCEPT ![Job(c)] = 0]
    /\ Goto(c, IF step[c] = "update" THEN "resolving" ELSE "resolvedAgain")
    /\ UNCHANGED <<cap, database, todo, errors>>

Commit(c) ==
    /\ step[c] \in {"opening", "resolving", "resolvedAgain"}
    /\ open' = CASE step[c] = "opening"   -> open \cup {Job(c)}
                 [] step[c] = "resolving" -> open \ {Job(c)}
                 [] OTHER                 -> open
    /\ todo' = [todo EXCEPT ![c] = Tail(@)]
    /\ step' = [d \in Checkers |->
                   IF d = c THEN AfterJob(c)
                   ELSE IF step[c] = "resolving" /\ At(d, Job(c), {"update"})
                   THEN "updateResolved" ELSE step[d]]
    /\ UNCHANGED <<cap, order, silent, unanswered, errors>>

\* A query, a dispatch or the commit raises, or the process dies.  The rollback
\* expires the rest of the batch, so the tick ends in any case.
Fail(c) ==
    /\ step[c] # "idle" /\ errors < MaxErrors
    /\ errors' = errors + 1
    /\ AbortTick(c)
    /\ UNCHANGED <<cap, database, unanswered>>

Check(c) == StartTick(c) \/ Look(c) \/ Insert(c) \/ Update(c) \/ Commit(c)

Next ==
    \/ \E j \in Jobs : Ping(j) \/ FallDue(j)
    \/ \E c \in Checkers : Check(c) \/ Fail(c)

Spec == Init /\ [][Next]_vars

\* The checker's leader loop ticks (LeaderLock!WorkGoesOn).
FairSpec == Spec /\ \A c \in Checkers : WF_vars(Check(c))
-----------------------------------------------------------------------------
TypeOK ==
    /\ cap \in 1 .. Cardinality(Jobs)
    /\ order \in SetToSeqs(Jobs)
    /\ silent \subseteq Jobs /\ open \subseteq Jobs
    /\ unanswered \in [Jobs -> 0 .. MaxErrors + 1]
    /\ todo \in [Checkers -> Seq([job : Jobs, overdue : BOOLEAN])]
    /\ step \in [Checkers -> Steps]
    /\ errors \in 0 .. MaxErrors

\* Two overlapping ticks page one outage once, because the page follows the
\* INSERT and the loser of the unique index leaves (_check_one): as long as
\* nothing fails, no second opening is heard before a resolution.
OutagePagedOnce == errors = 0 => \A j \in Jobs : unanswered[j] <= 1

\* A job that stays silent, among those a tick looks at, ends with an open
\* incident, whatever tick failed, collided or had loaded an earlier ping.
InBatch(j) == \E i \in 1 .. cap : order[i] = j
SilenceOpensFor(j) == <>[](j \in silent /\ InBatch(j)) => <>[](j \in open)
SilenceOpens == \A j \in Jobs : SilenceOpensFor(j)

\* A job that keeps its pings, among those a tick looks at, ends without one.
PingsResolveFor(j) == <>[](j \notin silent /\ InBatch(j)) => <>[](j \notin open)
PingsResolve == \A j \in Jobs : PingsResolveFor(j)
=============================================================================
