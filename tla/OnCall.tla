------------------------------- MODULE OnCall -------------------------------
(***************************************************************************)
(* services/oncall.py: which participant of an on-call schedule has the    *)
(* duty.  Shifts are counted in local calendar days, so that they hand     *)
(* off at the same wall-clock time across the change to and from daylight  *)
(* saving time.                                                            *)
(*                                                                         *)
(* Time is counted in slots of UTC, of which a day has DayLength.  Between *)
(* the slots spring and autumn local time is Saving slots ahead.  The      *)
(* reference is a rotation on paper: at each handoff by the wall clock a   *)
(* day is ticked off, and after Period of them the next person takes over. *)
(***************************************************************************)
EXTENDS Integers, Sequences, SequencesExt, FiniteSetsExt

CONSTANTS
    DayLength, Saving,
    Periods,        \* lengths of a rotation, in days
    MaxPeople,      \* bound: participants
    Anchors,        \* what start_at can be
    Stations,       \* slots at which daylight saving time, or an override, can
                    \* begin and end
    LastSlot,       \* bound: time stops there
    MaxOverrides    \* bound: overrides that are created

\* The clock is put forward by less than a day; a rotation is at least a day and
\* at most a year long (ScheduleCreate, schemas/oncall.py).
DutyConstants ==
    /\ DayLength \in Nat \ {0} /\ Saving \in 0 .. DayLength - 1
    /\ Periods \subseteq 1 .. 365
    /\ Anchors \subseteq Int /\ Stations \subseteq Int
    /\ MaxPeople \in Nat /\ LastSlot \in Nat /\ MaxOverrides \in Nat

VARIABLES
    now,
    spring, autumn, \* when daylight saving time begins and ends
    handoff,        \* handoff_time
    startAt,        \* start_at
    period,         \* rotation_length_days, or what the rotation type implies
    people,         \* number of participants, by position
    enabled,
    overrides,      \* in the order of created_at: [user, from, to]
    created,        \* overrides created so far
    turn, daysLeft  \* on paper: shifts so far, handoffs until the next

vars == <<now, spring, autumn, handoff, startAt, period, people, enabled, overrides,
          created, turn, daysLeft>>
zone == <<spring, autumn>>
shape == <<handoff, startAt, period>>

Slots == 0 .. LastSlot
NoOne == -1

\* moment.astimezone(tz).
Local(moment) == IF moment >= spring /\ moment < autumn THEN moment + Saving ELSE moment
LocalDate(moment) == Local(moment) \div DayLength
LocalTime(moment) == Local(moment) % DayLength

\* _shift_day: before the handoff the shift of the day before is still running.
ShiftDay(moment) ==
    IF LocalTime(moment) < handoff THEN LocalDate(moment) - 1 ELSE LocalDate(moment)

\* Mutant: shifts are counted in elapsed seconds.
ShiftIndexElapsed(moment) == (moment - startAt) \div (period * DayLength)

\* shift_index, negative before the anchor.
ShiftIndex(moment) == (ShiftDay(moment) - ShiftDay(startAt)) \div period

\* _override_for: of those that cover the moment, the newest.
Covering(moment) ==
    {k \in DOMAIN overrides : overrides[k].from <= moment /\ overrides[k].to > moment}

\* resolve_on_call_user.
OnCallUser ==
    IF ~ enabled THEN NoOne
    ELSE IF Covering(now) # {} THEN overrides[Max(Covering(now))].user
    ELSE IF people = 0 THEN NoOne
    ELSE ShiftIndex(now) % people

Init ==
    /\ now = 0
    /\ spring \in Stations /\ autumn \in Stations /\ spring < autumn
    /\ handoff \in 0 .. DayLength - 1
    /\ startAt \in Anchors
    /\ period \in Periods
    /\ people \in 0 .. MaxPeople
    /\ enabled = TRUE /\ overrides = <<>> /\ created = 0
    /\ turn = ShiftIndex(0)
    /\ daysLeft = period - ((ShiftDay(0) - ShiftDay(startAt)) % period)

\* The handoff hour comes by the clock on the wall, once more than the hour
\* itself when the clock is put forward over it.
HandsOff == \E l \in Local(now) + 1 .. Local(now + 1) : l % DayLength = handoff

Advance ==
    /\ now < LastSlot
    /\ now' = now + 1
    /\ IF HandsOff /\ daysLeft = 1
       THEN turn' = turn + 1 /\ daysLeft' = period
       ELSE /\ daysLeft' = IF HandsOff THEN daysLeft - 1 ELSE daysLeft
            /\ UNCHANGED turn
    /\ UNCHANGED <<zone, shape, people, enabled, overrides, created>>
-----------------------------------------------------------------------------
\* create_override, delete_override.
CreateOverride ==
    /\ created < MaxOverrides
    /\ \E u \in 0 .. MaxPeople, f, t \in Stations :
          /\ f < t
          /\ overrides' = Append(overrides, [user |-> u, from |-> f, to |-> t])
    /\ created' = created + 1
    /\ UNCHANGED <<now, zone, shape, people, enabled, turn, daysLeft>>

DeleteOverride ==
    /\ \E k \in DOMAIN overrides : overrides' = RemoveAt(overrides, k)
    /\ UNCHANGED <<now, zone, shape, people, enabled, created, turn, daysLeft>>

\* update_schedule: the roster is replaced, the schedule is switched.  (Changing
\* the zone, the handoff or the anchor starts another rotation.)
ReplaceParticipants ==
    /\ created < MaxOverrides
    /\ people' \in (0 .. MaxPeople) \ {people}
    /\ created' = created + 1
    /\ UNCHANGED <<now, zone, shape, enabled, overrides, turn, daysLeft>>

Toggle ==
    /\ enabled' = ~ enabled
    /\ UNCHANGED <<now, zone, shape, people, overrides, created, turn, daysLeft>>

Next == Advance \/ CreateOverride \/ DeleteOverride \/ ReplaceParticipants \/ Toggle

Spec == Init /\ [][Next]_vars
-----------------------------------------------------------------------------
TypeOK ==
    /\ now \in Slots /\ spring \in Stations /\ autumn \in Stations
    /\ handoff \in 0 .. DayLength - 1 /\ startAt \in Anchors /\ period \in Periods
    /\ people \in 0 .. MaxPeople /\ enabled \in BOOLEAN
    /\ overrides \in Seq([user : 0 .. MaxPeople, from : Stations, to : Stations])
    /\ created \in 0 .. MaxOverrides
    /\ turn \in Int /\ daysLeft \in 1 .. Max(Periods)

\* The handoff lies in the hour that is repeated in autumn.
HandoffRepeated ==
    \E l \in Local(autumn) + 1 .. Local(autumn - 1) : l % DayLength = handoff

\* "Hands off every Monday at 09:00 means to the people living it": the duty goes
\* from one participant to the next at the handoff hour of the wall clock and
\* after Period days, be they 23 or 25 hours long, before and after the anchor,
\* and an override that ends or a roster that is replaced leaves the count of the
\* shifts alone (shift_index, resolve_on_call_user).  Inside a repeated hour the
\* code takes the turn back, so a handoff there is left out.
RotationAgrees ==
    enabled /\ people > 0 /\ Covering(now) = {} /\ ~ HandoffRepeated
        => OnCallUser = turn % people
=============================================================================
