----------------------------- MODULE Escalation -----------------------------
(***************************************************************************)
(* services/escalation.py: the ladder an incident climbs when the alert    *)
(* rule that matched it has an escalation policy.  fire_alerts arms it     *)
(* (arm_escalation); a background loop loads the states that are due       *)
(* (run_due_escalations), pages one rung of each (_run_one), advances the  *)
(* state (_advance) and commits; resolving the incident or acknowledging   *)
(* it from Slack or Telegram deletes the state (cancel_escalation).        *)
(*                                                                         *)
(* The loop works on the rows it loaded at the start of its tick: the      *)
(* session keeps them across commits (expire_on_commit=False).  The pages  *)
(* of a rung leave before its commit.  An UPDATE of a row that was deleted *)
(* meanwhile raises StaleDataError; the rollback expires the rest of the   *)
(* batch, whose next attribute access raises too and ends the tick.        *)
(***************************************************************************)
EXTENDS Integers, Sequences, SequencesExt, FiniteSetsExt

CONSTANTS
    Incidents,
    MaxRungs,       \* rungs a policy can have (a bound)
    RepeatCount,    \* repeat_count of the policy
    Cap,            \* escalation_max_states_per_run
    MaxCrashes,     \* crashes of the loop (a bound)
    None

VARIABLES
    inc,        \* [Incidents -> Incident] the incident rows
    quiet,      \* [Incidents -> BOOLEAN] monitor paused or in maintenance
    rungs,      \* number of levels of the policy
    reach,      \* [Rung -> BOOLEAN] the target of the rung is somebody
    policy,     \* "on", "off" or "deleted"
    row,        \* [Incidents -> Row or None] escalation_states
    due,        \* the rows with next_fire_at <= now, oldest first
    batch,      \* the loaded states the tick has still to run
    writing,    \* the state just run, not yet committed, or None
    heard,      \* [Incidents -> BOOLEAN] somebody was paged
    top,        \* [Incidents -> Row or None] the last rung that was paged
    repaged,    \* [Incidents -> Nat] pages of a rung not above the one before
    excused,    \* [Incidents -> ...] why nobody may have heard of it: "no"
                \* reason, it was "snoozed", or "yes": it was answered, muted,
                \* or the policy was edited
    crashes

incvars    == <<inc, quiet, excused>>
configvars == <<rungs, reach, policy>>
loopvars   == <<batch, writing>>
pagevars   == <<heard, top, repaged>>
vars == <<inc, quiet, rungs, reach, policy, row, due, batch, writing,
          heard, top, repaged, excused, crashes>>

Rung == 0..(MaxRungs - 1)

Incident == [status : {"none", "open", "resolved"}, acked : BOOLEAN, snoozed : BOOLEAN]

\* next_position, up to the length of the ladder, and repeats_done.
Row == [pos : 0..MaxRungs, pass : 0..RepeatCount]

Below(a, b) == a.pass < b.pass \/ (a.pass = b.pass /\ a.pos < b.pos)

State == [who : Incidents, inc : Incident, row : Row]

Write == [who : Incidents, row : Row \cup {None}, again : BOOLEAN]

ASSUME LadderAssumption ==
    /\ MaxRungs \in Nat \ {0} /\ RepeatCount \in Nat /\ Cap \in Nat \ {0}
    /\ MaxCrashes \in Nat
    /\ None \notin Row \cup Write

Init ==
    /\ inc = [i \in Incidents |-> [status |-> "none", acked |-> FALSE, snoozed |-> FALSE]]
    /\ quiet = [i \in Incidents |-> FALSE]
    /\ rungs = MaxRungs
    /\ reach = [r \in Rung |-> TRUE]
    /\ policy = "on"
    /\ row = [i \in Incidents |-> None]
    /\ due = <<>> /\ batch = <<>> /\ writing = None
    /\ heard = [i \in Incidents |-> FALSE]
    /\ top = [i \in Incidents |-> None]
    /\ repaged = [i \in Incidents |-> 0]
    /\ excused = [i \in Incidents |-> "no"]
    /\ crashes = 0

Excuse(i) == excused' = [excused EXCEPT ![i] = "yes"]

\* The queue of due states once that of i has left it.
Without(queue, i) ==
    IF ~ Contains(queue, i) THEN queue
    ELSE LET at == CHOOSE k \in DOMAIN queue : queue[k] = i
         IN  [k \in 1 .. Len(queue) - 1 |-> queue[IF k < at THEN k ELSE k + 1]]

\* DELETE FROM escalation_states WHERE incident_id = i.
DropRow(i) ==
    /\ row' = [row EXCEPT ![i] = None]
    /\ due' = Without(due, i)

-----------------------------------------------------------------------------
(* The incident's life                                                      *)

\* fire_alerts on "incident_opened": the rule's policy takes the incident, or,
\* disabled, deleted or without rungs, leaves it to the rule's own channels.
OpenIncident(i) ==
    /\ inc[i].status = "none"
    /\ inc' = [inc EXCEPT ![i].status = "open"]
    /\ IF policy = "on" /\ rungs > 0
       THEN /\ row' = [row EXCEPT ![i] = [pos |-> 0, pass |-> 0]]
            /\ UNCHANGED heard
       ELSE /\ heard' = [heard EXCEPT ![i] = TRUE]
            /\ UNCHANGED row
    /\ UNCHANGED <<quiet, excused, configvars, due, loopvars, top, repaged, crashes>>

\* resolve_incident_for_slo clears the acknowledgement and the snooze, and
\* fire_alerts cancels the ladder in the same transaction.
Resolve(i) ==
    /\ inc[i].status = "open"
    /\ inc' = [inc EXCEPT ![i] = [status |-> "resolved", acked |-> FALSE, snoozed |-> FALSE]]
    /\ DropRow(i)
    /\ Excuse(i)
    /\ UNCHANGED <<quiet, configvars, loopvars, pagevars, crashes>>

\* acknowledge_incident and bulk_ack_incidents leave the ladder to the loop,
\* the Slack and Telegram callbacks cancel it at once.
Acknowledge(i) ==
    /\ inc[i].status = "open" /\ ~inc[i].acked
    /\ inc' = [inc EXCEPT ![i].acked = TRUE]
    /\ DropRow(i) \/ UNCHANGED <<row, due>>
    /\ Excuse(i)
    /\ UNCHANGED <<quiet, configvars, loopvars, pagevars, crashes>>

Unacknowledge(i) ==
    /\ inc[i].acked
    /\ inc' = [inc EXCEPT ![i].acked = FALSE]
    /\ UNCHANGED <<quiet, excused, configvars, row, due, loopvars, pagevars, crashes>>

Snooze(i) ==
    /\ inc[i].status = "open" /\ ~inc[i].snoozed
    /\ inc' = [inc EXCEPT ![i].snoozed = TRUE]
    /\ excused' = [excused EXCEPT ![i] = IF @ = "no" THEN "snoozed" ELSE @]
    /\ UNCHANGED <<quiet, configvars, row, due, loopvars, pagevars, crashes>>

\* unsnooze_incident, or snooze_until passes.
SnoozeEnds(i) ==
    /\ inc[i].snoozed
    /\ inc' = [inc EXCEPT ![i].snoozed = FALSE]
    /\ UNCHANGED <<quiet, excused, configvars, row, due, loopvars, pagevars, crashes>>

\* The monitor is paused or resumed, a maintenance window begins or ends.
ToggleQuiet(i) ==
    /\ inc[i].status = "open"
    /\ quiet' = [quiet EXCEPT ![i] = ~@]
    /\ Excuse(i)
    /\ UNCHANGED <<inc, configvars, row, due, loopvars, pagevars, crashes>>

-----------------------------------------------------------------------------
(* The configuration                                                        *)

\* A rotation gains or loses its people, a user leaves.
ToggleReach(r) ==
    /\ r < rungs
    /\ reach' = [reach EXCEPT ![r] = ~@]
    /\ UNCHANGED <<incvars, rungs, policy, row, due, loopvars, pagevars, crashes>>

\* update_policy replaces the levels, or switches the policy on or off (which
\* only arm_escalation looks at).
EditPolicy ==
    /\ policy # "deleted"
    /\ \/ /\ rungs' \in (0..MaxRungs) \ {rungs} /\ UNCHANGED policy
       \/ /\ policy' = (IF policy = "on" THEN "off" ELSE "on") /\ UNCHANGED rungs
    /\ excused' = [i \in Incidents |-> "yes"]
    /\ UNCHANGED <<inc, quiet, reach, row, due, loopvars, pagevars, crashes>>

\* delete_policy: the levels and the running states go with it (CASCADE).
DeletePolicy ==
    /\ policy # "deleted"
    /\ policy' = "deleted" /\ rungs' = 0
    /\ row' = [i \in Incidents |-> None] /\ due' = <<>>
    /\ excused' = [i \in Incidents |-> "yes"]
    /\ UNCHANGED <<inc, quiet, reach, loopvars, pagevars, crashes>>

\* next_fire_at passes.
DelayElapses(i) ==
    /\ row[i] # None /\ ~Contains(due, i)
    /\ due' = Append(due, i)
    /\ UNCHANGED <<incvars, configvars, row, loopvars, pagevars, crashes>>

-----------------------------------------------------------------------------
(* The loop                                                                 *)

\* run_due_escalations: the most overdue states, each with its incident.
LoadDue ==
    /\ batch = <<>> /\ writing = None /\ due # <<>>
    /\ batch' = [k \in 1..(IF Len(due) < Cap THEN Len(due) ELSE Cap) |->
                    [who |-> due[k], inc |-> inc[due[k]], row |-> row[due[k]]]]
    /\ UNCHANGED <<incvars, configvars, row, due, writing, pagevars, crashes>>

\* _should_stop, a paused monitor, a policy without levels.  The incident is
\* the one that was loaded, the monitor and its windows are read now.
ShouldStop(state) ==
    \/ state.inc.status = "resolved" \/ state.inc.acked \/ state.inc.snoozed
    \/ quiet[state.who]
    \/ rungs = 0

ReachableFrom(pos) == {r \in Rung : r >= pos /\ r < rungs /\ reach[r]}

\* The rung the walk of _run_one ends at: rungs that reach nobody are skipped
\* without waiting, into the next pass when the policy repeats.  None: nobody.
NextReachable(at) ==
    IF ReachableFrom(at.pos) # {}
    THEN [pos |-> Min(ReachableFrom(at.pos)), pass |-> at.pass]
    ELSE IF at.pos < rungs /\ at.pass < RepeatCount /\ ReachableFrom(0) # {}
    THEN [pos |-> Min(ReachableFrom(0)), pass |-> at.pass + 1]
    ELSE None

\* Mutant: one pass too many.
AdvanceOnceMore(at) ==
    IF at.pos + 1 < rungs THEN [at EXCEPT !.pos = @ + 1]
    ELSE IF at.pass <= RepeatCount THEN [pos |-> 0, pass |-> at.pass + 1]
    ELSE None

\* Mutant: a new pass is not counted.
AdvanceUncounted(at) ==
    IF at.pos + 1 < rungs THEN [at EXCEPT !.pos = @ + 1]
    ELSE IF at.pass < RepeatCount THEN [at EXCEPT !.pos = 0]
    ELSE None

\* _advance after rung "at" was paged.  None: the ladder is finished.
Advance(at) ==
    IF at.pos + 1 < rungs THEN [at EXCEPT !.pos = @ + 1]
    ELSE IF at.pass < RepeatCount THEN [pos |-> 0, pass |-> at.pass + 1]
    ELSE None

\* _run_one up to its flush.
Stop ==
    LET state == Head(batch) IN
    /\ batch # <<>> /\ writing = None
    /\ ShouldStop(state)
    /\ writing' = [who |-> state.who, row |-> None, again |-> FALSE]
    /\ UNCHANGED <<incvars, configvars, row, due, batch, pagevars, crashes>>

\* Mutant: the state advances from its stored rung, not from the one paged.
PageRungAdvancingStored ==
    LET state == Head(batch)
        at == NextReachable(state.row)
    IN
    /\ batch # <<>> /\ writing = None
    /\ ~ShouldStop(state) /\ at # None
    /\ heard' = [heard EXCEPT ![state.who] = TRUE]
    /\ top' = [top EXCEPT ![state.who] = at]
    /\ repaged' = [repaged EXCEPT ![state.who] =
                      IF top[state.who] # None /\ ~Below(top[state.who], at)
                         /\ @ <= MaxCrashes
                      THEN @ + 1 ELSE @]
    /\ writing' = [who |-> state.who, row |-> Advance(state.row), again |-> FALSE]
    /\ UNCHANGED <<incvars, configvars, row, due, batch, crashes>>

PageRung ==
    LET state == Head(batch)
        at == NextReachable(state.row)
    IN
    /\ batch # <<>> /\ writing = None
    /\ ~ShouldStop(state) /\ at # None
    /\ heard' = [heard EXCEPT ![state.who] = TRUE]
    /\ top' = [top EXCEPT ![state.who] = at]
    /\ repaged' = [repaged EXCEPT ![state.who] =
                      IF top[state.who] # None /\ ~Below(top[state.who], at)
                         /\ @ <= MaxCrashes
                      THEN @ + 1 ELSE @]
    /\ writing' = [who |-> state.who, row |-> Advance(at), again |-> FALSE]
    /\ UNCHANGED <<incvars, configvars, row, due, batch, crashes>>

\* Mutant: a ladder that reached nobody ends in silence.
FallBackInSilence ==
    /\ batch # <<>> /\ writing = None
    /\ ~ShouldStop(Head(batch)) /\ NextReachable(Head(batch).row) = None
    /\ writing' = [who |-> Head(batch).who, row |-> None, again |-> FALSE]
    /\ UNCHANGED <<incvars, configvars, row, due, batch, pagevars, crashes>>

\* The ladder reached nobody: the rule's own channels are paged (a rule that
\* lost its channels would page nobody without a ladder either).  A walk that
\* began on the ladder breaks off past its end with the state still there, due
\* now or after the delay of the last rung skipped; the next tick finds nothing
\* to walk, deletes it and falls back once more.
FallBack ==
    LET state == Head(batch) IN
    /\ batch # <<>> /\ writing = None
    /\ ~ShouldStop(state) /\ NextReachable(state.row) = None
    /\ heard' = [heard EXCEPT ![state.who] = TRUE]
    /\ IF state.row.pos < rungs
       THEN \E soon \in BOOLEAN :
               writing' = [who |-> state.who, again |-> soon,
                           row |-> [pos |-> rungs, pass |-> RepeatCount]]
       ELSE writing' = [who |-> state.who, row |-> None, again |-> FALSE]
    /\ UNCHANGED <<incvars, configvars, row, due, batch, top, repaged, crashes>>

\* Mutant: the state is merged back whether or not its row still exists.
CommitStateMerging ==
    LET i == writing.who IN
    /\ writing # None
    /\ writing' = None
    /\ batch' = Tail(batch)
    /\ row' = [row EXCEPT ![i] = writing.row]
    /\ due' = IF writing.again THEN due ELSE Without(due, i)
    /\ UNCHANGED <<incvars, configvars, pagevars, crashes>>

\* flush and commit of one state.
CommitState ==
    LET i == writing.who IN
    /\ writing # None
    /\ writing' = None
    /\ \/ /\ writing.row = None
          /\ DropRow(i)
          /\ batch' = Tail(batch)
       \/ /\ writing.row # None /\ row[i] # None
          /\ row' = [row EXCEPT ![i] = writing.row]
          /\ due' = IF writing.again THEN due ELSE Without(due, i)
          /\ batch' = Tail(batch)
       \/ /\ writing.row # None /\ row[i] = None
          /\ batch' = <<>>
          /\ UNCHANGED <<row, due>>
    /\ UNCHANGED <<incvars, configvars, pagevars, crashes>>

\* The process dies in the middle of a tick, or a dispatch raises.
Crash ==
    /\ crashes < MaxCrashes /\ batch # <<>>
    /\ crashes' = crashes + 1
    /\ batch' = <<>> /\ writing' = None
    /\ UNCHANGED <<incvars, configvars, row, due, pagevars>>

EngineStep == LoadDue \/ Stop \/ PageRung \/ FallBack \/ CommitState

Next ==
    \/ \E i \in Incidents :
          \/ OpenIncident(i) \/ Resolve(i) \/ Acknowledge(i) \/ Unacknowledge(i)
          \/ Snooze(i) \/ SnoozeEnds(i) \/ ToggleQuiet(i) \/ DelayElapses(i)
    \/ \E r \in Rung : ToggleReach(r)
    \/ EditPolicy \/ DeletePolicy
    \/ EngineStep \/ Crash

Spec == Init /\ [][Next]_vars

\* The leader's loop ticks on, delays elapse and snoozes end.
FairSpec ==
    /\ Spec /\ WF_vars(EngineStep)
    /\ \A i \in Incidents : WF_vars(DelayElapses(i)) /\ WF_vars(SnoozeEnds(i))

-----------------------------------------------------------------------------
(* Properties                                                               *)

TypeOK ==
    /\ inc \in [Incidents -> Incident]
    /\ quiet \in [Incidents -> BOOLEAN]
    /\ rungs \in 0..MaxRungs
    /\ reach \in [Rung -> BOOLEAN]
    /\ policy \in {"on", "off", "deleted"}
    /\ row \in [Incidents -> Row \cup {None}]
    /\ due \in Seq(Incidents)
    /\ batch \in Seq(State)
    /\ writing \in Write \cup {None}
    /\ heard \in [Incidents -> BOOLEAN]
    /\ top \in [Incidents -> Row \cup {None}]
    /\ repaged \in [Incidents -> 0..(MaxCrashes + 1)]
    /\ excused \in [Incidents -> {"no", "snoozed", "yes"}]
    /\ crashes \in 0..MaxCrashes

\* "A resolved incident has no ladder to walk": no state outlives its incident,
\* whatever the loop had loaded when the incident was resolved, and no state
\* waits in the queue twice or after it is gone.
LadderOnlyWhileOpen ==
    /\ \A i \in Incidents : row[i] # None => inc[i].status = "open"
    /\ \A k, l \in DOMAIN due : row[due[k]] # None /\ (due[k] = due[l] => k = l)

\* A ladder is climbed upwards: edits of the policy, rungs that reach nobody and
\* new passes never lead back to a rung that was paged already.  Only a crash
\* between a page and its commit does, once.
ClimbsUpwards == \A i \in Incidents : repaged[i] <= crashes

\* "Attaching an escalation policy must never make an alert quieter than
\* attaching none": whichever rungs reach nobody, an incident on a ladder is
\* heard by somebody, unless it was answered or snoozed first or the policy
\* itself was taken away.
SomebodyHears ==
    \A i \in Incidents : row[i] # None ~> heard[i] \/ excused[i] # "no"

\* Every ladder ends, also the one whose last rung reaches nobody.
LadderEnds == \A i \in Incidents : row[i] # None ~> row[i] = None

\* "Snooze auto-expires once snooze_until is in the past - the next escalation
\* tick picks the incident back up": once nobody snoozes it any more, an incident
\* that was on a ladder is heard after all.
SnoozeResumes ==
    \A i \in Incidents :
        <>[]~inc[i].snoozed =>
            (row[i] # None ~> heard[i] \/ excused[i] = "yes")

\* "... and so a resolve that races a rung cannot page after it".
NoPageAfterResolve ==
    [][\A i \in Incidents : inc[i].status = "resolved" => top'[i] = top[i]]_vars
-----------------------------------------------------------------------------
(* The inductive invariant behind LadderOnlyWhileOpen and ClimbsUpwards      *)

\* A batch holds a state of an incident once, of incidents that were opened; what
\* is written is its first.
BatchShape ==
    /\ \A k, l \in DOMAIN batch : batch[k].who = batch[l].who => k = l
    /\ \A k \in DOMAIN batch : inc[batch[k].who].status # "none"
    /\ writing # None => batch # <<>> /\ writing.who = batch[1].who

\* Nobody is paged before the incident opens.
PagedAfterOpening == \A i \in Incidents : inc[i].status = "none" => top[i] = None

\* A walk from "at" could lead to a rung that was paged already.
Behind(at, i) == at # None /\ top[i] # None /\ ~Below(top[i], at)

\* Each crash leaves at most one row behind its ladder, and a rung is paged again
\* on behalf of one crash only: a row, loaded state or write that is behind
\* stands for a crash that no repeated page has used up yet.
OneRepeatPerCrash ==
    /\ \A i \in Incidents :
          /\ repaged[i] <= crashes
          /\ Behind(row[i], i) =>
                repaged[i] < crashes \/ (writing # None /\ writing.who = i)
    /\ \A k \in DOMAIN batch :
          Behind(batch[k].row, batch[k].who) =>
              repaged[batch[k].who] < crashes \/ (writing # None /\ k = 1)
    /\ writing # None /\ Behind(writing.row, writing.who) =>
          repaged[writing.who] < crashes

LadderInv ==
    /\ TypeOK /\ LadderOnlyWhileOpen /\ BatchShape
    /\ PagedAfterOpening /\ OneRepeatPerCrash
=============================================================================
