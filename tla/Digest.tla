------------------------------- MODULE Digest -------------------------------
(***************************************************************************)
(* services/alert.py: alert digests.  A rule with digest_minutes collects  *)
(* its alerts in a Redis list and sends them in one message when the       *)
(* bucket ends.  maybe_digest_or_dispatch pushes an alert and, for the     *)
(* first of a list only, schedules the flush; the same alert is written to *)
(* a digest_windows row inside the transaction of the incident.            *)
(* flush_pending_digests flushes what is due, recover_digest_windows runs  *)
(* once at each start.                                                     *)
(*                                                                         *)
(* Every Redis command and every database round trip is an action.  Time   *)
(* is reduced to the order it imposes: a bucket ends, and data that nobody *)
(* refreshes or flushes expires (5 minutes after its bucket).  One process *)
(* runs the flusher; `alerts` are the tasks that push, on any replica.     *)
(***************************************************************************)
EXTENDS Naturals, Sequences, FiniteSets, SequencesExt

CONSTANTS
    Rules,
    NoRule,        \* no flush is under way
    Alerts,        \* alerts to be pushed, one fire_alerts call each
    RuleOf,        \* [Alerts -> Rules]
    Openings,      \* those of "incident_opened": the incident is new
    Channels,      \* channels of every rule
    MaxFaults      \* bound: crashes, losses of Redis, failed transactions

ASSUME DigestAssumption ==
    /\ NoRule \notin Rules
    /\ RuleOf \in [Alerts -> Rules] /\ Openings \subseteq Alerts
    /\ Channels \in Nat \ {0} /\ MaxFaults \in Nat

VARIABLES
    list,       \* [Rules -> Seq(Alerts)] whatisup:digest:<rule>, newest first
    context,    \* [Rules -> BOOLEAN] whatisup:digest_ctx:<rule> exists
    schedule,   \* [Rules -> ...] the entry in whatisup:digest_schedule
    row,        \* [Rules -> SUBSET Alerts] events_json of the committed row
    rowDue,     \* [Rules -> BOOLEAN] flush_at of that row has passed
    step,       \* [Alerts -> ...] where the pushing task is
    left,       \* [Alerts -> Nat] channels still to be handled
    first,      \* [Alerts -> BOOLEAN] its LPUSH returned 1 and nothing is scheduled yet
    flusher,    \* where the flusher process is
    due,        \* rules whose flush the running tick still owes
    current,    \* the rule being flushed
    taken,      \* the alerts LRANGE returned
    sent,       \* [Alerts -> Nat] lines about the alert in sent digests
    lost,       \* [cause -> SUBSET Alerts] alerts that will be in no digest
    cut,        \* a tick was ended by an exception
    faults

vars == <<list, context, schedule, row, rowDue, step, left, first, flusher,
          due, current, taken, sent, lost, cut, faults>>
redis == <<list, context, schedule>>
rows == <<row, rowDue>>
tasks == <<step, left, first>>
flush == <<flusher, due, current, taken>>
ghosts == <<sent, lost, cut>>

Steps == {"idle", "pushed", "contextSet", "scheduled", "again", "ready", "done", "failed"}
Locs == {"recovering", "asleep", "read", "removed", "contextRead", "ranged",
         "listDeleted", "contextDeleted", "down"}
Causes == {"raced", "noContext", "expired", "crashed", "redisLost", "recovery"}

Lose(cause, S) == lost' = [lost EXCEPT ![cause] = @ \cup S]
Times(a, s) == Cardinality({i \in DOMAIN s : s[i] = a})

\* The task's transaction is open: its incident is not committed yet.
Working(a) == step[a] \in {"pushed", "contextSet", "scheduled", "again", "ready"}
\* INSERT ... ON CONFLICT holds the row of the rule until the commit.
HoldsRow(a) == Working(a) /\ left[a] < Channels
RowLocked(r) == \E a \in Alerts : RuleOf[a] = r /\ HoldsRow(a)
\* An alert_events row that names an incident no committed row carries fails
\* on its foreign key.
Phantom(a) == a \in Openings /\ step[a] # "done"

Init ==
    /\ list = [r \in Rules |-> <<>>]
    /\ context = [r \in Rules |-> FALSE]
    /\ schedule = [r \in Rules |-> "none"]
    /\ row = [r \in Rules |-> {}]
    /\ rowDue = [r \in Rules |-> FALSE]
    /\ step = [a \in Alerts |-> "idle"]
    /\ left = [a \in Alerts |-> Channels]
    /\ first = [a \in Alerts |-> FALSE]
    /\ flusher = "asleep" /\ due = {} /\ current = NoRule /\ taken = <<>>
    /\ sent = [a \in Alerts |-> 0]
    /\ lost = [c \in Causes |-> {}]
    /\ cut = FALSE /\ faults = 0
-----------------------------------------------------------------------------
\* maybe_digest_or_dispatch, command by command; once per channel of the rule.

\* Mutant: SET instead of LPUSH.
PushOverwrites(a) ==
    LET r == RuleOf[a] IN
    /\ step[a] \in {"idle", "again"}
    /\ list' = [list EXCEPT ![r] = <<a>>]
    /\ first' = [first EXCEPT ![a] = list[r] = <<>>]
    /\ step' = [step EXCEPT ![a] = "pushed"]
    /\ UNCHANGED <<context, schedule, rows, left, flush, ghosts, faults>>

\* LPUSH and EXPIRE.
Push(a) ==
    LET r == RuleOf[a] IN
    /\ step[a] \in {"idle", "again"}
    /\ list' = [list EXCEPT ![r] = <<a>> \o @]
    /\ first' = [first EXCEPT ![a] = list[r] = <<>>]
    /\ step' = [step EXCEPT ![a] = "pushed"]
    /\ UNCHANGED <<context, schedule, rows, left, flush, ghosts, faults>>

\* SETEX of the context.
SetContext(a) ==
    /\ step[a] = "pushed"
    /\ context' = [context EXCEPT ![RuleOf[a]] = TRUE]
    /\ step' = [step EXCEPT ![a] = "contextSet"]
    /\ UNCHANGED <<list, schedule, rows, left, first, flush, ghosts, faults>>

\* ZADD at the end of the bucket, by the first alert of a list only.
Schedule(a) ==
    /\ step[a] = "contextSet"
    /\ schedule' = IF first[a] THEN [schedule EXCEPT ![RuleOf[a]] = "waiting"]
                               ELSE schedule
    /\ step' = [step EXCEPT ![a] = "scheduled"]
    /\ first' = [first EXCEPT ![a] = FALSE]
    /\ UNCHANGED <<list, context, rows, left, flush, ghosts, faults>>

\* Mutant: one channel too many.
UpsertOnceMore(a) ==
    /\ step[a] = "scheduled"
    /\ \A b \in Alerts \ {a} : RuleOf[b] = RuleOf[a] => ~ HoldsRow(b)
    /\ left' = [left EXCEPT ![a] = @ - 1]
    /\ step' = [step EXCEPT ![a] = IF left[a] > 0 THEN "again" ELSE "ready"]
    /\ UNCHANGED <<redis, rows, first, flush, ghosts, faults>>

\* _upsert_digest_window: waits for the row of another transaction.  Then
\* fire_alerts goes on with the next channel of the rule, or commits.
Upsert(a) ==
    /\ step[a] = "scheduled"
    /\ \A b \in Alerts \ {a} : RuleOf[b] = RuleOf[a] => ~ HoldsRow(b)
    /\ left' = [left EXCEPT ![a] = @ - 1]
    /\ step' = [step EXCEPT ![a] = IF left[a] > 1 THEN "again" ELSE "ready"]
    /\ UNCHANGED <<redis, rows, first, flush, ghosts, faults>>

\* The incident's transaction commits, its digest row with it.
CommitAlert(a) ==
    /\ step[a] = "ready"
    /\ step' = [step EXCEPT ![a] = "done"]
    /\ row' = [row EXCEPT ![RuleOf[a]] = @ \cup {a}]
    /\ UNCHANGED <<redis, rowDue, left, first, flush, ghosts, faults>>

\* The transaction, or the process that runs it, fails: what is in Redis stays.
FailAlert(a) ==
    /\ Working(a) /\ faults < MaxFaults
    /\ faults' = faults + 1
    /\ step' = [step EXCEPT ![a] = "failed"]
    /\ UNCHANGED <<redis, rows, left, first, flush, ghosts>>
-----------------------------------------------------------------------------
\* flush_pending_digests and _flush_digest, command by command.

ReadDue ==
    /\ flusher = "asleep" /\ \E r \in Rules : schedule[r] = "due"
    /\ due' = {r \in Rules : schedule[r] = "due"}
    /\ flusher' = "read"
    /\ UNCHANGED <<redis, rows, tasks, current, taken, ghosts, faults>>

\* ZREMRANGEBYSCORE up to the same instant: an entry moved to a later bucket
\* meanwhile stays.
RemoveDue ==
    /\ flusher = "read"
    /\ schedule' = [r \in Rules |-> IF r \in due /\ schedule[r] = "due"
                                    THEN "none" ELSE schedule[r]]
    /\ flusher' = "removed"
    /\ UNCHANGED <<list, context, rows, tasks, due, current, taken, ghosts, faults>>

\* GET of the next rule's context; without one the list is deleted unread.
ReadContext(r) ==
    /\ flusher = "removed" /\ r \in due
    /\ due' = due \ {r}
    /\ \/ /\ context[r]
          /\ flusher' = "contextRead"
          /\ current' = r
          /\ UNCHANGED <<list, lost>>
       \/ /\ ~ context[r]
          /\ list' = [list EXCEPT ![r] = <<>>]
          /\ Lose("noContext", ToSet(list[r]))
          /\ UNCHANGED <<flusher, current>>
    /\ UNCHANGED <<context, schedule, rows, tasks, taken, sent, cut, faults>>

EndTick ==
    /\ flusher = "removed" /\ due = {}
    /\ flusher' = "asleep"
    /\ UNCHANGED <<redis, rows, tasks, due, current, taken, ghosts, faults>>

RangeList ==
    /\ flusher = "contextRead"
    /\ taken' = list[current]
    /\ flusher' = "ranged"
    /\ UNCHANGED <<redis, rows, tasks, due, current, ghosts, faults>>

\* DELETE of the list, with what was pushed since LRANGE.
DeleteList ==
    /\ flusher = "ranged"
    /\ list' = [list EXCEPT ![current] = <<>>]
    /\ Lose("raced", ToSet(list[current]) \ ToSet(taken))
    /\ flusher' = "listDeleted"
    /\ UNCHANGED <<context, schedule, rows, tasks, due, current, taken, sent, cut, faults>>

DeleteContext ==
    /\ flusher = "listDeleted"
    /\ context' = [context EXCEPT ![current] = FALSE]
    /\ flusher' = "contextDeleted"
    /\ UNCHANGED <<list, schedule, rows, tasks, due, current, taken, ghosts, faults>>

\* The message leaves; then the alert_events row of the newest alert and the
\* removal of the digest row are committed together.  When the newest alert's
\* incident is not committed the insert fails and the exception ends the tick.
SendDigest ==
    /\ flusher = "contextDeleted" /\ ~ RowLocked(current)
    /\ sent' = [a \in Alerts |-> sent[a] + Times(a, taken)]
    /\ taken' = <<>> /\ current' = NoRule
    /\ IF taken # <<>> /\ Phantom(taken[1])
       THEN /\ due' = {}
            /\ flusher' = "asleep"
            /\ cut' = TRUE
            /\ UNCHANGED row
       ELSE /\ row' = IF taken = <<>> THEN row ELSE [row EXCEPT ![current] = {}]
            /\ flusher' = "removed"
            /\ UNCHANGED <<due, cut>>
    /\ rowDue' = [rowDue EXCEPT ![current] = @ /\ row'[current] # {}]
    /\ UNCHANGED <<redis, tasks, lost, faults>>
-----------------------------------------------------------------------------
\* Mutant: recovery sends the events the row holds.
RecoverRowSends(r) ==
    /\ flusher = "recovering" /\ row[r] # {} /\ rowDue[r] /\ ~ RowLocked(r)
    /\ row' = [row EXCEPT ![r] = {}]
    /\ rowDue' = [rowDue EXCEPT ![r] = FALSE]
    /\ sent' = [a \in Alerts |-> IF a \in row[r] THEN sent[a] + 1 ELSE sent[a]]
    /\ UNCHANGED <<redis, tasks, flush, lost, cut, faults>>

\* recover_digest_windows for one stale row: with a list in Redis the row is
\* simply deleted; else _flush_digest is called, which reads the list, finds
\* it empty and returns, and the row is deleted.
RecoverRow(r) ==
    /\ flusher = "recovering" /\ row[r] # {} /\ rowDue[r] /\ ~ RowLocked(r)
    /\ row' = [row EXCEPT ![r] = {}]
    /\ rowDue' = [rowDue EXCEPT ![r] = FALSE]
    /\ \/ /\ list[r] # <<>>
          /\ UNCHANGED <<context, lost>>
       \/ /\ list[r] = <<>>
          /\ context' = [context EXCEPT ![r] = FALSE]
          /\ Lose("recovery", {a \in row[r] : sent[a] = 0})
    /\ UNCHANGED <<list, schedule, tasks, flush, sent, cut, faults>>

EndRecovery ==
    /\ flusher = "recovering" /\ \A r \in Rules : row[r] = {} \/ ~ rowDue[r]
    /\ flusher' = "asleep"
    /\ UNCHANGED <<redis, rows, tasks, due, current, taken, ghosts, faults>>

\* The flusher's process dies, with what it had taken off the list.
Crash ==
    /\ flusher # "down" /\ faults < MaxFaults
    /\ faults' = faults + 1
    /\ flusher' = "down" /\ due' = {} /\ current' = NoRule /\ taken' = <<>>
    /\ Lose("crashed", ToSet(taken) \ UNION {ToSet(list[r]) : r \in Rules})
    /\ UNCHANGED <<redis, rows, tasks, sent, cut>>

Restart ==
    /\ flusher = "down"
    /\ flusher' = "recovering"
    /\ UNCHANGED <<redis, rows, tasks, due, current, taken, ghosts, faults>>

\* Redis restarts empty.
LoseRedis ==
    /\ faults < MaxFaults
    /\ faults' = faults + 1
    /\ list' = [r \in Rules |-> <<>>]
    /\ context' = [r \in Rules |-> FALSE]
    /\ schedule' = [r \in Rules |-> "none"]
    /\ Lose("redisLost", UNION {ToSet(list[r]) \ ToSet(taken) : r \in Rules})
    /\ UNCHANGED <<rows, tasks, flush, sent, cut>>

BucketEnds(r) ==
    /\ schedule[r] = "waiting"
    /\ schedule' = [schedule EXCEPT ![r] = "due"]
    /\ UNCHANGED <<list, context, rows, tasks, flush, ghosts, faults>>

RowBucketEnds(r) ==
    /\ row[r] # {} /\ ~ rowDue[r] /\ schedule[r] # "waiting"
    /\ rowDue' = [rowDue EXCEPT ![r] = TRUE]
    /\ UNCHANGED <<redis, row, tasks, flush, ghosts, faults>>

\* Mutant: the list has no EXPIRE.
ExpireContext(r) ==
    /\ context[r]
    /\ \A a \in Alerts : RuleOf[a] = r => ~ Working(a)
    /\ \/ schedule[r] = "none" /\ r \notin due
          /\ current # r
       \/ schedule[r] = "due" /\ flusher = "down"
    /\ context' = [context EXCEPT ![r] = FALSE]
    /\ UNCHANGED <<list, schedule, rows, tasks, flush, ghosts, faults>>

\* List and context expire five minutes after the bucket of their last push: a
\* flush that is due comes first unless the flusher is down.
Expire(r) ==
    /\ list[r] # <<>> \/ context[r]
    /\ \A a \in Alerts : RuleOf[a] = r => ~ Working(a)
    /\ \/ schedule[r] = "none" /\ r \notin due
          /\ current # r
       \/ schedule[r] = "due" /\ flusher = "down"
    /\ list' = [list EXCEPT ![r] = <<>>]
    /\ context' = [context EXCEPT ![r] = FALSE]
    /\ Lose("expired", ToSet(list[r]))
    /\ UNCHANGED <<schedule, rows, tasks, flush, sent, cut, faults>>

Task(a) == Push(a) \/ SetContext(a) \/ Schedule(a) \/ Upsert(a) \/ CommitAlert(a)
Flush == \/ ReadDue \/ RemoveDue \/ EndTick \/ RangeList \/ DeleteList
         \/ DeleteContext \/ SendDigest \/ \E r \in Rules : ReadContext(r)
Recover == EndRecovery \/ Restart \/ \E r \in Rules : RecoverRow(r)
Elapse(r) == BucketEnds(r) \/ RowBucketEnds(r) \/ Expire(r)

Next ==
    \/ \E a \in Alerts : Task(a) \/ FailAlert(a)
    \/ Flush \/ Recover \/ Crash \/ LoseRedis
    \/ \E r \in Rules : Elapse(r)

Spec == Init /\ [][Next]_vars

\* Started tasks go on, the flusher's leader loop ticks and a dead one is
\* replaced (LeaderLock!WorkGoesOn), time passes.  One formula for all of them
\* is enough: alerts and faults are finitely many, so nothing can go on for
\* ever in place of the rest.
Progress ==
    \/ \E a \in Alerts : step[a] # "idle" /\ Task(a)
    \/ Flush \/ Recover
    \/ \E r \in Rules : BucketEnds(r) \/ Expire(r)

FairSpec == Spec /\ WF_vars(Progress)
-----------------------------------------------------------------------------
TypeOK ==
    /\ list \in [Rules -> Seq(Alerts)]
    /\ context \in [Rules -> BOOLEAN]
    /\ schedule \in [Rules -> {"none", "waiting", "due"}]
    /\ row \in [Rules -> SUBSET Alerts] /\ rowDue \in [Rules -> BOOLEAN]
    /\ step \in [Alerts -> Steps] /\ left \in [Alerts -> 0 .. Channels]
    /\ first \in [Alerts -> BOOLEAN]
    /\ flusher \in Locs /\ due \subseteq Rules /\ current \in Rules \cup {NoRule}
    /\ taken \in Seq(Alerts)
    /\ sent \in [Alerts -> Nat] /\ lost \in [Causes -> SUBSET Alerts]
    /\ cut \in BOOLEAN /\ faults \in 0 .. MaxFaults

\* An alert that was pushed is in its rule's list, in the hands of the flusher,
\* in a digest that was sent, or lost for one of the named causes.
Lost(a) == \E c \in Causes : a \in lost[c]
AlertAccounted ==
    \A a \in Alerts :
        \/ step[a] = "idle"
        \/ a \in ToSet(list[RuleOf[a]]) \/ a \in ToSet(taken)
        \/ sent[a] > 0 \/ Lost(a)

\* With one flusher no LPUSH reaches two digests, whatever crashes, is pushed
\* or expires between its commands: the list is deleted before the message
\* leaves, and recovery sends nothing.
DigestedOnce ==
    \A a \in Alerts :
        sent[a] + Times(a, list[RuleOf[a]])
                + (IF flusher = "ranged" THEN 0 ELSE Times(a, taken)) <= Channels

\* No alert stays in Redis or in the flusher's hands for ever: it is sent or
\* lost for a named cause, after any crash, failed tick or loss of Redis.
AlertSettles == []<>(\A a \in Alerts : step[a] # "idle" => sent[a] > 0 \/ Lost(a))
=============================================================================
