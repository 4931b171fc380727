-------------------------- MODULE Escalation_proofs --------------------------
(***************************************************************************)
(* Proofs about the escalation ladder, for any number of incidents, rungs, *)
(* repeats and crashes, and any batch size.                                *)
(***************************************************************************)
EXTENDS Escalation, TLAPS, WellFoundedInduction

\* A non-empty set of naturals has a least element.
LEMMA LeastElement ==
    ASSUME NEW S, S \subseteq Nat, S # {}
    PROVE  \E x \in S : \A y \in S : x <= y
<1> DEFINE R == OpToRel(<, Nat)
<1>1. IsWellFoundedOn(R, Nat)
  BY NatLessThanWellFounded
<1>2. PICK x \in S : \A y \in S : <<y, x>> \notin R
  <2> HIDE DEF R
  <2> QED BY <1>1, WFMin
<1>3. \A y \in S : ~ (y < x)
  BY <1>2 DEF OpToRel
<1> QED BY <1>3

\* The rungs of a walk are those of the policy, from where the walk begins on.
LEMMA LowestReachable ==
    ASSUME NEW pos \in Nat, ReachableFrom(pos) # {}, rungs \in 0 .. MaxRungs
    PROVE  /\ Min(ReachableFrom(pos)) \in Rung
           /\ Min(ReachableFrom(pos)) >= pos
           /\ Min(ReachableFrom(pos)) < rungs
<1>1. ReachableFrom(pos) \subseteq Nat
  BY LadderAssumption DEF ReachableFrom, Rung
<1>2. \E x \in ReachableFrom(pos) : \A y \in ReachableFrom(pos) : x <= y
  BY <1>1, LeastElement
<1>3. Min(ReachableFrom(pos)) \in ReachableFrom(pos)
  BY <1>2 DEF Min
<1> QED BY <1>3 DEF ReachableFrom

\* A walk ends on the ladder and never below where it began.
LEMMA WalkGoesUp ==
    ASSUME NEW at \in Row, NextReachable(at) # None, rungs \in 0 .. MaxRungs
    PROVE  /\ NextReachable(at) \in Row
           /\ ~ Below(NextReachable(at), at)
           /\ NextReachable(at).pos < rungs
<1>1. at.pos \in 0 .. MaxRungs /\ at.pass \in 0 .. RepeatCount
  BY DEF Row
<1>2. CASE ReachableFrom(at.pos) # {}
  BY <1>1, <1>2, LowestReachable, LadderAssumption DEF NextReachable, Row, Below, Rung
<1>3. CASE /\ ReachableFrom(at.pos) = {} /\ ReachableFrom(0) # {}
           /\ at.pos < rungs /\ at.pass < RepeatCount
  <2>1. NextReachable(at) = [pos |-> Min(ReachableFrom(0)), pass |-> at.pass + 1]
    BY <1>3 DEF NextReachable
  <2>2. Min(ReachableFrom(0)) \in Rung /\ Min(ReachableFrom(0)) < rungs
    BY <1>3, LowestReachable
  <2> QED BY <1>1, <1>3, <2>1, <2>2, LadderAssumption DEF Row, Below, Rung
<1> QED BY <1>2, <1>3 DEF NextReachable

\* A state that advances leaves the rung it paged below it.
LEMMA AdvanceGoesUp ==
    ASSUME NEW at \in Row, at.pos < rungs, rungs \in 0 .. MaxRungs
    PROVE  /\ Advance(at) \in Row \cup {None}
           /\ Advance(at) # None => Below(at, Advance(at))
<1>1. at.pos \in 0 .. MaxRungs /\ at.pass \in 0 .. RepeatCount
  BY DEF Row
<1>2. CASE at.pos + 1 < rungs
  <2>1. Advance(at) = [at EXCEPT !.pos = at.pos + 1]
    BY <1>2 DEF Advance
  <2> QED BY <1>1, <1>2, <2>1, LadderAssumption DEF Row, Below
<1>3. CASE ~ (at.pos + 1 < rungs) /\ at.pass < RepeatCount
  <2>1. Advance(at) = [pos |-> 0, pass |-> at.pass + 1]
    BY <1>3 DEF Advance
  <2> QED BY <1>1, <1>3, <2>1, LadderAssumption DEF Row, Below
<1> QED BY <1>2, <1>3 DEF Advance

\* Rungs are ordered.
LEMMA BelowTransitive ==
    ASSUME NEW a \in Row, NEW b \in Row, NEW c \in Row, Below(a, b), ~ Below(c, b)
    PROVE  Below(a, c)
BY LadderAssumption DEF Row, Below

\* What leaves the queue of due states is gone from it, the rest keeps its order.
LEMMA WithoutOne ==
    ASSUME NEW queue \in Seq(Incidents), NEW i \in Incidents,
           \A k, l \in DOMAIN queue : queue[k] = queue[l] => k = l
    PROVE  /\ Without(queue, i) \in Seq(Incidents)
           /\ \A k, l \in DOMAIN Without(queue, i) :
                 Without(queue, i)[k] = Without(queue, i)[l] => k = l
           /\ \A k \in DOMAIN Without(queue, i) :
                 /\ Without(queue, i)[k] # i
                 /\ \E l \in DOMAIN queue : Without(queue, i)[k] = queue[l]
<1>1. CASE ~ Contains(queue, i)
  BY <1>1 DEF Without, Contains
<1>2. CASE Contains(queue, i)
  <2> DEFINE at == CHOOSE k \in DOMAIN queue : queue[k] = i
             rest == [k \in 1 .. Len(queue) - 1 |-> queue[IF k < at THEN k ELSE k + 1]]
  <2>1. at \in 1 .. Len(queue) /\ queue[at] = i
    BY <1>2 DEF Contains
  <2>2. Without(queue, i) = rest
    BY <1>2 DEF Without
  <2> HIDE DEF at
  <2>3. rest \in Seq(Incidents) /\ DOMAIN rest = 1 .. Len(queue) - 1
    BY <2>1
  <2>4. ASSUME NEW k \in 1 .. Len(queue) - 1
        PROVE  rest[k] = queue[IF k < at THEN k ELSE k + 1] /\ rest[k] # i
    BY <2>1
  <2>5. \A k, l \in 1 .. Len(queue) - 1 : rest[k] = rest[l] => k = l
    BY <2>1
  <2> HIDE DEF rest
  <2>6. \A k \in 1 .. Len(queue) - 1 : \E l \in DOMAIN queue : rest[k] = queue[l]
    BY <2>1, <2>4
  <2> QED BY <2>2, <2>3, <2>4, <2>5, <2>6
<1> QED BY <1>1, <1>2
-----------------------------------------------------------------------------
\* Deleting a row takes it out of the table and of the queue, and nothing else.
LEMMA DropRowFacts ==
    ASSUME TypeOK, LadderOnlyWhileOpen, NEW i \in Incidents, DropRow(i)
    PROVE  /\ row' \in [Incidents -> Row \cup {None}] /\ due' \in Seq(Incidents)
           /\ row'[i] = None
           /\ \A j \in Incidents : row'[j] # None => row'[j] = row[j]
           /\ \A k \in DOMAIN due' : row'[due'[k]] # None
           /\ \A k, l \in DOMAIN due' : due'[k] = due'[l] => k = l
<1>1. /\ due \in Seq(Incidents) /\ due' = Without(due, i)
      /\ \A k, l \in DOMAIN due : due[k] = due[l] => k = l
  BY DEF TypeOK, DropRow, LadderOnlyWhileOpen
<1>2. /\ due' \in Seq(Incidents)
      /\ \A k, l \in DOMAIN due' : due'[k] = due'[l] => k = l
      /\ \A k \in DOMAIN due' : due'[k] # i /\ \E l \in DOMAIN due : due'[k] = due[l]
  BY <1>1, WithoutOne
<1>3. row' = [row EXCEPT ![i] = None] /\ row \in [Incidents -> Row \cup {None}]
  BY DEF TypeOK, DropRow
<1>4. \A k \in DOMAIN due' : due'[k] \in Incidents /\ row'[due'[k]] # None
  <2> TAKE k \in DOMAIN due'
  <2>1. PICK l \in DOMAIN due : due'[k] = due[l]
    BY <1>2
  <2>2. row[due[l]] # None /\ due[l] \in Incidents
    BY <1>1, <2>1 DEF LadderOnlyWhileOpen
  <2> QED BY <1>2, <1>3, <2>1, <2>2
<1> QED BY <1>2, <1>3, <1>4

\* The state at the head of the batch and the row a walk takes it to.
LEMMA HeadFacts ==
    ASSUME TypeOK, batch # <<>>
    PROVE  /\ Head(batch) \in State /\ Head(batch) = batch[1] /\ 1 \in DOMAIN batch
           /\ Head(batch).who \in Incidents /\ Head(batch).row \in Row
           /\ Tail(batch) \in Seq(State) /\ Len(Tail(batch)) = Len(batch) - 1
           /\ \A k \in DOMAIN Tail(batch) : k + 1 \in DOMAIN batch
                                            /\ Tail(batch)[k] = batch[k + 1]
<1>1. batch \in Seq(State)
  BY DEF TypeOK
<1>2. /\ Head(batch) \in State /\ Head(batch) = batch[1] /\ 1 \in DOMAIN batch
      /\ Tail(batch) \in Seq(State) /\ Len(Tail(batch)) = Len(batch) - 1
      /\ \A k \in DOMAIN Tail(batch) : k + 1 \in DOMAIN batch
                                       /\ Tail(batch)[k] = batch[k + 1]
  BY <1>1
<1> QED BY <1>2 DEF State

\* A server without incidents satisfies the invariant.
LEMMA InitInv == Init => LadderInv
<1> SUFFICES ASSUME Init PROVE LadderInv
  OBVIOUS
<1>1. TypeOK
  BY LadderAssumption
     DEF Init, TypeOK, Incident, Row, Rung, State, Write
<1>2. LadderOnlyWhileOpen /\ BatchShape
  BY DEF Init, LadderOnlyWhileOpen, BatchShape
<1>3. PagedAfterOpening /\ OneRepeatPerCrash
  BY DEF Init, PagedAfterOpening, OneRepeatPerCrash, Behind
<1> QED BY <1>1, <1>2, <1>3 DEF LadderInv

\* An incident row stays one when a column is written.
LEMMA ColumnWritten ==
    ASSUME inc \in [Incidents -> Incident], NEW i \in Incidents, NEW b \in BOOLEAN
    PROVE  /\ [inc EXCEPT ![i].status = "open"] \in [Incidents -> Incident]
           /\ [inc EXCEPT ![i].acked = b] \in [Incidents -> Incident]
           /\ [inc EXCEPT ![i].snoozed = b] \in [Incidents -> Incident]
<1> DEFINE old == inc[i]
<1>1. /\ [old EXCEPT !.status = "open"] \in Incident
      /\ [old EXCEPT !.acked = b] \in Incident
      /\ [old EXCEPT !.snoozed = b] \in Incident
  <2>1. old \in Incident
    OBVIOUS
  <2> HIDE DEF old
  <2> QED BY <2>1 DEF Incident
<1>2. ASSUME NEW new \in Incident PROVE [inc EXCEPT ![i] = new] \in [Incidents -> Incident]
  OBVIOUS
<1> QED BY <1>1, <1>2

\* Every operation keeps the types.
LEMMA TypeStep ==
    ASSUME TypeOK, LadderOnlyWhileOpen, BatchShape, [Next]_vars
    PROVE  TypeOK'
<1> USE LadderAssumption
<1>1. ASSUME NEW i \in Incidents, OpenIncident(i)
      PROVE  TypeOK'
  <2>1. inc' \in [Incidents -> Incident]
    BY <1>1, ColumnWritten DEF OpenIncident, TypeOK
  <2>2. row' \in [Incidents -> Row \cup {None}] /\ heard' \in [Incidents -> BOOLEAN]
    <3>1. [pos |-> 0, pass |-> 0] \in Row
      BY DEF Row
    <3>2. \/ row' = [row EXCEPT ![i] = [pos |-> 0, pass |-> 0]] /\ heard' = heard
          \/ heard' = [heard EXCEPT ![i] = TRUE] /\ row' = row
      BY <1>1 DEF OpenIncident
    <3>3. row \in [Incidents -> Row \cup {None}] /\ heard \in [Incidents -> BOOLEAN]
      BY DEF TypeOK
    <3>4. [heard EXCEPT ![i] = TRUE] \in [Incidents -> BOOLEAN]
      BY <3>3
    <3>5. [row EXCEPT ![i] = [pos |-> 0, pass |-> 0]] \in [Incidents -> Row \cup {None}]
      BY <3>1, <3>3
    <3> QED BY <3>2, <3>3, <3>4, <3>5
  <2> QED BY <1>1, <2>1, <2>2 DEF OpenIncident, TypeOK, configvars, loopvars
<1>2. ASSUME NEW i \in Incidents, Resolve(i) \/ Acknowledge(i)
      PROVE  TypeOK'
  <2>1. row' \in [Incidents -> Row \cup {None}] /\ due' \in Seq(Incidents)
    BY <1>2, DropRowFacts DEF Resolve, Acknowledge, TypeOK
  <2>2. inc' \in [Incidents -> Incident]
    <3>1. CASE Resolve(i)
      <4>1. [status |-> "resolved", acked |-> FALSE, snoozed |-> FALSE] \in Incident
        BY DEF Incident
      <4> QED BY <3>1, <4>1 DEF Resolve, TypeOK
    <3>2. CASE Acknowledge(i)
      BY <3>2, ColumnWritten DEF Acknowledge, TypeOK
    <3> QED BY <1>2, <3>1, <3>2
  <2>3. excused' \in [Incidents -> {"no", "snoozed", "yes"}]
    BY <1>2 DEF Resolve, Acknowledge, TypeOK, Excuse
  <2> QED BY <1>2, <2>1, <2>2, <2>3
          DEF Resolve, Acknowledge, TypeOK, configvars, loopvars, pagevars
<1>3. ASSUME NEW i \in Incidents,
             Unacknowledge(i) \/ Snooze(i) \/ SnoozeEnds(i) \/ ToggleQuiet(i)
      PROVE  TypeOK'
  <2>1. inc' \in [Incidents -> Incident]
    <3>1. inc \in [Incidents -> Incident]
      BY DEF TypeOK
    <3>2. CASE Unacknowledge(i)
      BY <3>1, <3>2, ColumnWritten DEF Unacknowledge
    <3>3. CASE Snooze(i)
      BY <3>1, <3>3, ColumnWritten DEF Snooze
    <3>4. CASE SnoozeEnds(i)
      BY <3>1, <3>4, ColumnWritten DEF SnoozeEnds
    <3>5. CASE ToggleQuiet(i)
      BY <3>1, <3>5 DEF ToggleQuiet
    <3> QED BY <1>3, <3>2, <3>3, <3>4, <3>5
  <2>2. excused' \in [Incidents -> {"no", "snoozed", "yes"}]
    BY <1>3 DEF Unacknowledge, Snooze, SnoozeEnds, ToggleQuiet, TypeOK, Excuse
  <2> QED BY <1>3, <2>1, <2>2 DEF Unacknowledge, Snooze, SnoozeEnds, ToggleQuiet,
                                  TypeOK, configvars, loopvars, pagevars
<1>4. ASSUME NEW i \in Incidents, DelayElapses(i)
      PROVE  TypeOK'
  BY <1>4 DEF DelayElapses, TypeOK, incvars, configvars, loopvars, pagevars
<1>5. ASSUME NEW r \in Rung, ToggleReach(r)
      PROVE  TypeOK'
  BY <1>5 DEF ToggleReach, TypeOK, incvars, loopvars, pagevars
<1>6. CASE EditPolicy
  BY <1>6 DEF EditPolicy, TypeOK, loopvars, pagevars
<1>7. CASE DeletePolicy
  BY <1>7 DEF DeletePolicy, TypeOK, loopvars, pagevars
<1>8. CASE LoadDue
  <2>1. PICK n \in 0 .. Len(due) :
            batch' = [k \in 1 .. n |-> [who |-> due[k], inc |-> inc[due[k]],
                                        row |-> row[due[k]]]]
    BY <1>8 DEF LoadDue, TypeOK
  <2>2. \A k \in 1 .. n : due[k] \in Incidents /\ inc[due[k]] \in Incident
                          /\ row[due[k]] \in Row
    BY DEF TypeOK, LadderOnlyWhileOpen
  <2>3. batch' \in Seq(State)
    BY <2>1, <2>2 DEF State
  <2> QED BY <1>8, <2>3 DEF LoadDue, TypeOK, incvars, configvars, pagevars
<1>9. CASE Stop
  <2>1. writing' \in Write
    BY <1>9, HeadFacts DEF Stop, Write
  <2> QED BY <1>9, <2>1 DEF Stop, TypeOK, incvars, configvars, pagevars
<1>10. CASE PageRung
  <2> DEFINE state == Head(batch)
             at == NextReachable(state.row)
  <2>1. state.who \in Incidents /\ state.row \in Row
    BY <1>10, HeadFacts DEF PageRung
  <2>2. at \in Row /\ Advance(at) \in Row \cup {None}
    BY <1>10, <2>1, WalkGoesUp, AdvanceGoesUp DEF PageRung, TypeOK
  <2>3. writing' \in Write
    BY <1>10, <2>1, <2>2 DEF PageRung, Write
  <2>4. repaged' \in [Incidents -> 0 .. (MaxCrashes + 1)]
    BY <1>10, <2>1 DEF PageRung, TypeOK
  <2>5. top' \in [Incidents -> Row \cup {None}] /\ heard' \in [Incidents -> BOOLEAN]
    BY <1>10, <2>1, <2>2 DEF PageRung, TypeOK
  <2> QED BY <1>10, <2>3, <2>4, <2>5 DEF PageRung, TypeOK, incvars, configvars
<1>11. CASE FallBack
  <2>1. Head(batch).who \in Incidents /\ rungs \in 0 .. MaxRungs
    BY <1>11, HeadFacts DEF FallBack, TypeOK
  <2>2. [pos |-> rungs, pass |-> RepeatCount] \in Row
    BY <2>1 DEF Row
  <2>3. writing' \in Write
    <3>1. CASE Head(batch).row.pos < rungs
      <4>1. PICK soon \in BOOLEAN :
                writing' = [who |-> Head(batch).who, again |-> soon,
                            row |-> [pos |-> rungs, pass |-> RepeatCount]]
        BY <1>11, <3>1 DEF FallBack
      <4> QED BY <2>1, <2>2, <4>1 DEF Write
    <3>2. CASE ~ (Head(batch).row.pos < rungs)
      <4>1. writing' = [who |-> Head(batch).who, row |-> None, again |-> FALSE]
        BY <1>11, <3>2 DEF FallBack
      <4> QED BY <2>1, <4>1 DEF Write
    <3> QED BY <3>1, <3>2
  <2> QED BY <1>11, <2>1, <2>3 DEF FallBack, TypeOK, incvars, configvars
<1>12. CASE CommitState
  <2>1. writing.who \in Incidents /\ writing.row \in Row \cup {None}
    BY <1>12 DEF CommitState, TypeOK, Write
  <2>2. batch' \in Seq(State)
    <3>1. batch # <<>> => Tail(batch) \in Seq(State)
      BY HeadFacts
    <3>2. batch # <<>>
      BY <1>12 DEF CommitState, BatchShape
    <3>3. batch' = Tail(batch) \/ batch' = <<>>
      BY <1>12 DEF CommitState
    <3>4. <<>> \in Seq(State)
      OBVIOUS
    <3> QED BY <3>1, <3>2, <3>3, <3>4
  <2>3. Without(due, writing.who) \in Seq(Incidents)
    BY <2>1, WithoutOne DEF TypeOK, LadderOnlyWhileOpen
  <2>4. row' \in [Incidents -> Row \cup {None}] /\ due' \in Seq(Incidents)
    BY <1>12, <2>1, <2>3 DEF CommitState, DropRow, TypeOK
  <2> QED BY <1>12, <2>2, <2>4 DEF CommitState, TypeOK, incvars, configvars, pagevars
<1>13. CASE Crash
  BY <1>13 DEF Crash, TypeOK, incvars, configvars, pagevars
<1>14. CASE UNCHANGED vars
  BY <1>14 DEF TypeOK, vars
<1> QED BY <1>1, <1>2, <1>3, <1>4, <1>5, <1>6, <1>7, <1>8, <1>9, <1>10, <1>11,
           <1>12, <1>13, <1>14 DEF Next, EngineStep
-----------------------------------------------------------------------------
\* What each operation does to the status of the incidents.
LEMMA StatusFacts ==
    ASSUME TypeOK, NEW i \in Incidents
    PROVE  /\ OpenIncident(i) => /\ inc'[i].status = "open"
                                 /\ \A j \in Incidents \ {i} : inc'[j] = inc[j]
           /\ Resolve(i) => /\ inc'[i].status = "resolved"
                            /\ \A j \in Incidents \ {i} : inc'[j] = inc[j]
           /\ Acknowledge(i) \/ Unacknowledge(i) \/ Snooze(i) \/ SnoozeEnds(i) =>
                 \A j \in Incidents : inc'[j].status = inc[j].status
<1> DEFINE old == inc[i]
<1>1. inc \in [Incidents -> Incident] /\ old \in Incident
  BY DEF TypeOK
<1>3. /\ [old EXCEPT !.status = "open"].status = "open"
      /\ \A b : [old EXCEPT !.acked = b].status = old.status
      /\ \A b : [old EXCEPT !.snoozed = b].status = old.status
  <2> HIDE DEF old
  <2> QED BY <1>1 DEF Incident
<1>4. OpenIncident(i) => inc' = [inc EXCEPT ![i] = [old EXCEPT !.status = "open"]]
  BY DEF OpenIncident
<1>5. Resolve(i) =>
        inc' = [inc EXCEPT ![i] = [status |-> "resolved", acked |-> FALSE, snoozed |-> FALSE]]
  BY DEF Resolve
<1>6. Acknowledge(i) \/ Unacknowledge(i) =>
        \E b : inc' = [inc EXCEPT ![i] = [old EXCEPT !.acked = b]]
  BY DEF Acknowledge, Unacknowledge
<1>7. Snooze(i) \/ SnoozeEnds(i) =>
        \E b : inc' = [inc EXCEPT ![i] = [old EXCEPT !.snoozed = b]]
  BY DEF Snooze, SnoozeEnds
<1>8. \A new : new.status = old.status /\ inc' = [inc EXCEPT ![i] = new] =>
                  \A j \in Incidents : inc'[j].status = inc[j].status
  BY <1>1
<1> HIDE DEF old
<1>9. OpenIncident(i) => /\ inc'[i].status = "open"
                         /\ \A j \in Incidents \ {i} : inc'[j] = inc[j]
  <2> DEFINE new == [old EXCEPT !.status = "open"]
  <2>1. new.status = "open" /\ (OpenIncident(i) => inc' = [inc EXCEPT ![i] = new])
    BY <1>3, <1>4
  <2> HIDE DEF new
  <2>2. /\ [inc EXCEPT ![i] = new][i] = new
        /\ \A j \in Incidents \ {i} : [inc EXCEPT ![i] = new][j] = inc[j]
    BY <1>1
  <2> QED BY <2>1, <2>2
<1>10. Resolve(i) => /\ inc'[i].status = "resolved"
                     /\ \A j \in Incidents \ {i} : inc'[j] = inc[j]
  <2> DEFINE new == [status |-> "resolved", acked |-> FALSE, snoozed |-> FALSE]
  <2>1. new.status = "resolved" /\ (Resolve(i) => inc' = [inc EXCEPT ![i] = new])
    BY <1>5
  <2> HIDE DEF new
  <2>2. /\ [inc EXCEPT ![i] = new][i] = new
        /\ \A j \in Incidents \ {i} : [inc EXCEPT ![i] = new][j] = inc[j]
    BY <1>1
  <2> QED BY <2>1, <2>2
<1>11. Acknowledge(i) \/ Unacknowledge(i) =>
         \A j \in Incidents : inc'[j].status = inc[j].status
  BY <1>3, <1>6, <1>8
<1>12. Snooze(i) \/ SnoozeEnds(i) =>
         \A j \in Incidents : inc'[j].status = inc[j].status
  BY <1>3, <1>7, <1>8
<1> QED BY <1>9, <1>10, <1>11, <1>12

\* The operations that leave the incident rows alone.
KeepsIncidents ==
    \/ \E i \in Incidents : ToggleQuiet(i) \/ DelayElapses(i)
    \/ \E r \in Rung : ToggleReach(r)
    \/ EditPolicy \/ DeletePolicy \/ EngineStep \/ Crash \/ UNCHANGED vars

\* They do so.
LEMMA IncidentsKept == KeepsIncidents => inc' = inc
BY DEF KeepsIncidents, ToggleQuiet, DelayElapses, ToggleReach, EditPolicy, DeletePolicy,
       EngineStep, LoadDue, Stop, PageRung, FallBack, CommitState, Crash, vars, incvars

\* An incident once opened stays so: the row is never deleted.
LEMMA StatusStep ==
    ASSUME TypeOK, [Next]_vars
    PROVE  \A j \in Incidents : inc'[j].status = "none" => inc[j].status = "none"
<1>1. ASSUME NEW i \in Incidents,
             \/ OpenIncident(i) \/ Resolve(i) \/ Acknowledge(i)
             \/ Unacknowledge(i) \/ Snooze(i) \/ SnoozeEnds(i)
      PROVE  \A j \in Incidents : inc'[j].status = "none" => inc[j].status = "none"
  BY <1>1, StatusFacts
<1>2. CASE KeepsIncidents
  BY <1>2, IncidentsKept
<1> QED BY <1>1, <1>2 DEF Next, KeepsIncidents

\* No operation leaves a ladder behind, nor queues one twice.
LEMMA OpenStep ==
    ASSUME TypeOK, LadderOnlyWhileOpen, [Next]_vars
    PROVE  LadderOnlyWhileOpen'
<1> DEFINE OnlyOpen(r, c) == \A i \in Incidents : r[i] # None => c[i].status = "open"
           Queued(r, q) == \A k, l \in DOMAIN q : r[q[k]] # None /\ (q[k] = q[l] => k = l)
<1>0. /\ OnlyOpen(row, inc) /\ Queued(row, due)
      /\ (OnlyOpen(row', inc') /\ Queued(row', due')) => LadderOnlyWhileOpen'
      /\ due \in Seq(Incidents) /\ row \in [Incidents -> Row \cup {None}]
  BY DEF LadderOnlyWhileOpen, TypeOK
<1>1. ASSUME NEW i \in Incidents, OpenIncident(i)
      PROVE  LadderOnlyWhileOpen'
  <2>1. /\ inc'[i].status = "open" /\ \A j \in Incidents \ {i} : inc'[j] = inc[j]
        /\ \A j \in Incidents \ {i} : row'[j] = row[j]
        /\ due' = due /\ row[i] = None
    BY <1>0, <1>1, StatusFacts DEF OpenIncident
  <2>2. OnlyOpen(row', inc')
    BY <1>0, <2>1
  <2>3. Queued(row', due')
    BY <1>0, <2>1
  <2> QED BY <1>0, <2>2, <2>3
<1>2. ASSUME NEW i \in Incidents, DropRow(i), inc'[i].status = "resolved" \/ inc'[i].status = inc[i].status,
             \A j \in Incidents \ {i} : inc'[j].status = inc[j].status
      PROVE  LadderOnlyWhileOpen'
  <2>1. OnlyOpen(row', inc')
    BY <1>0, <1>2, DropRowFacts
  <2>2. Queued(row', due')
    BY <1>2, DropRowFacts
  <2> QED BY <1>0, <2>1, <2>2
<1>3. ASSUME row' = row, due' = due, \A j \in Incidents : inc'[j].status = inc[j].status
      PROVE  LadderOnlyWhileOpen'
  BY <1>0, <1>3
<1>4. ASSUME NEW i \in Incidents, Resolve(i) \/ Acknowledge(i)
      PROVE  LadderOnlyWhileOpen'
  <2>1. CASE Resolve(i)
    BY <1>2, <2>1, StatusFacts DEF Resolve
  <2>2. CASE Acknowledge(i) /\ DropRow(i)
    BY <1>2, <2>2, StatusFacts
  <2>3. CASE Acknowledge(i) /\ UNCHANGED <<row, due>>
    BY <1>3, <2>3, StatusFacts
  <2> QED BY <1>4, <2>1, <2>2, <2>3 DEF Acknowledge
<1>5. ASSUME NEW i \in Incidents, Unacknowledge(i) \/ Snooze(i) \/ SnoozeEnds(i)
      PROVE  LadderOnlyWhileOpen'
  BY <1>3, <1>5, StatusFacts DEF Unacknowledge, Snooze, SnoozeEnds
<1>6. ASSUME NEW i \in Incidents, DelayElapses(i)
      PROVE  LadderOnlyWhileOpen'
  <2>1. /\ row' = row /\ inc' = inc /\ due' = Append(due, i) /\ row[i] # None
        /\ \A k \in DOMAIN due : due[k] # i
    BY <1>0, <1>6 DEF DelayElapses, incvars, Contains
  <2>2. /\ DOMAIN due' = 1 .. Len(due) + 1 /\ due'[Len(due) + 1] = i
        /\ \A k \in 1 .. Len(due) : due'[k] = due[k]
    BY <1>0, <2>1
  <2>3. Queued(row', due')
    BY <1>0, <2>1, <2>2
  <2> QED BY <1>0, <2>1, <2>3
<1>7. CASE DeletePolicy
  BY <1>0, <1>7 DEF DeletePolicy
<1>8. CASE CommitState
  <2>1. writing.who \in Incidents /\ writing.row \in Row \cup {None} /\ inc' = inc
    BY <1>8 DEF CommitState, TypeOK, Write, incvars
  <2>2. CASE DropRow(writing.who)
    BY <1>2, <2>1, <2>2
  <2>3. CASE UNCHANGED <<row, due>>
    BY <1>3, <2>1, <2>3
  <2>4. CASE /\ writing.row # None /\ row[writing.who] # None
             /\ row' = [row EXCEPT ![writing.who] = writing.row]
             /\ due' = IF writing.again THEN due ELSE Without(due, writing.who)
    <3>1. OnlyOpen(row', inc') /\ \A j \in Incidents : row[j] # None => row'[j] # None
      BY <1>0, <2>1, <2>4
    <3>2. \A k \in DOMAIN due' : \E l \in DOMAIN due : due'[k] = due[l]
      BY <1>0, <2>1, <2>4, WithoutOne
    <3>3. \A k, l \in DOMAIN due' : due'[k] = due'[l] => k = l
      BY <1>0, <2>1, <2>4, WithoutOne
    <3>4. Queued(row', due')
      BY <1>0, <3>1, <3>2, <3>3
    <3> QED BY <1>0, <3>1, <3>4
  <2> QED BY <1>8, <2>2, <2>3, <2>4 DEF CommitState
<1>9. ASSUME NEW i \in Incidents, ToggleQuiet(i)
      PROVE  LadderOnlyWhileOpen'
  BY <1>3, <1>9 DEF ToggleQuiet
<1>10. ASSUME NEW r \in Rung, ToggleReach(r)
       PROVE  LadderOnlyWhileOpen'
  BY <1>3, <1>10 DEF ToggleReach, incvars
<1>11. CASE EditPolicy \/ LoadDue \/ Stop \/ PageRung \/ FallBack \/ Crash \/ UNCHANGED vars
  BY <1>3, <1>11 DEF EditPolicy, LoadDue, Stop, PageRung, FallBack, Crash, vars, incvars
<1> QED BY <1>1, <1>4, <1>5, <1>6, <1>7, <1>8, <1>9, <1>10, <1>11 DEF Next, EngineStep
-----------------------------------------------------------------------------
\* A batch loses its states from the front, one after the other.
LEMMA BatchStep ==
    ASSUME TypeOK, LadderOnlyWhileOpen, BatchShape, [Next]_vars
    PROVE  BatchShape'
<1>1. CASE UNCHANGED <<batch, writing>>
  <2>1. \A k \in DOMAIN batch : batch[k].who \in Incidents
    <3>1. \A k \in DOMAIN batch : batch[k] \in State
      BY DEF TypeOK
    <3> QED BY <3>1 DEF State
  <2> QED BY <1>1, <2>1, StatusStep DEF BatchShape
<1>2. CASE LoadDue
  <2>1. PICK n \in 0 .. Len(due) :
            batch' = [k \in 1 .. n |-> [who |-> due[k], inc |-> inc[due[k]],
                                        row |-> row[due[k]]]]
    BY <1>2, LadderAssumption DEF LoadDue, TypeOK
  <2>2. /\ DOMAIN batch' = 1 .. n /\ 1 .. n \subseteq DOMAIN due
        /\ \A k \in 1 .. n : batch'[k].who = due[k] /\ due[k] \in Incidents
    BY <2>1 DEF TypeOK
  <2>3. writing' = None /\ inc' = inc
    BY <1>2 DEF LoadDue, incvars
  <2>4. \A k \in 1 .. n : inc[due[k]].status = "open"
    BY <2>2 DEF LadderOnlyWhileOpen
  <2> QED BY <2>2, <2>3, <2>4 DEF BatchShape, LadderOnlyWhileOpen
<1>3. CASE Stop \/ PageRung \/ FallBack
  <2>1. batch # <<>> /\ batch' = batch /\ inc' = inc /\ writing'.who = Head(batch).who
    <3>1. CASE Stop
      BY <3>1 DEF Stop, incvars
    <3>2. CASE PageRung
      BY <3>2 DEF PageRung, incvars
    <3>3. CASE FallBack
      BY <3>3 DEF FallBack, incvars
    <3> QED BY <1>3, <3>1, <3>2, <3>3
  <2> QED BY <2>1, HeadFacts DEF BatchShape
<1>4. CASE CommitState
  <2>1. writing' = None /\ inc' = inc /\ batch # <<>>
    BY <1>4 DEF CommitState, incvars, BatchShape
  <2>2. CASE batch' = Tail(batch)
    BY <2>1, <2>2, HeadFacts DEF BatchShape
  <2>3. CASE batch' = <<>>
    BY <2>1, <2>3 DEF BatchShape
  <2> QED BY <1>4, <2>2, <2>3 DEF CommitState
<1>5. CASE Crash
  BY <1>5 DEF Crash, BatchShape
<1> QED BY <1>1, <1>2, <1>3, <1>4, <1>5
        DEF Next, EngineStep, OpenIncident, Resolve, Acknowledge, Unacknowledge, Snooze,
            SnoozeEnds, ToggleQuiet, DelayElapses, ToggleReach, EditPolicy, DeletePolicy,
            loopvars, vars

\* Only a loaded state is paged.
LEMMA PagedStep ==
    ASSUME TypeOK, BatchShape, PagedAfterOpening, [Next]_vars
    PROVE  PagedAfterOpening'
<1>1. CASE top' = top
  BY <1>1, StatusStep DEF PagedAfterOpening
<1>2. CASE PageRung
  <2>1. /\ batch # <<>> /\ inc' = inc
        /\ \A j \in Incidents \ {Head(batch).who} : top'[j] = top[j]
    BY <1>2 DEF PageRung, TypeOK, incvars
  <2>2. inc[Head(batch).who].status # "none"
    BY <2>1, HeadFacts DEF BatchShape
  <2> QED BY <2>1, <2>2 DEF PagedAfterOpening
<1> QED BY <1>1, <1>2
        DEF Next, EngineStep, OpenIncident, Resolve, Acknowledge, Unacknowledge, Snooze,
            SnoozeEnds, ToggleQuiet, DelayElapses, ToggleReach, EditPolicy, DeletePolicy,
            LoadDue, Stop, FallBack, CommitState, Crash, pagevars, vars

\* A crash leaves a row behind, a page uses it up, and every other operation
\* keeps or raises where a ladder stands.
LEMMA RepeatStep ==
    ASSUME LadderInv, [Next]_vars
    PROVE  OneRepeatPerCrash'
<1> USE LadderAssumption
<1>0. TypeOK /\ LadderOnlyWhileOpen /\ BatchShape /\ PagedAfterOpening /\ OneRepeatPerCrash
  BY DEF LadderInv
<1>1. ASSUME UNCHANGED <<batch, writing, top, repaged, crashes>>,
             \A j \in Incidents : row'[j] = None \/ row'[j] = row[j] \/ top[j] = None
      PROVE  OneRepeatPerCrash'
  BY <1>0, <1>1 DEF OneRepeatPerCrash, Behind
<1>2. ASSUME NEW i \in Incidents, OpenIncident(i)
      PROVE  OneRepeatPerCrash'
  <2>1. \A j \in Incidents : row'[j] = row[j] \/ top[j] = None
    BY <1>0, <1>2 DEF OpenIncident, PagedAfterOpening, TypeOK
  <2> QED BY <1>1, <1>2, <2>1 DEF OpenIncident, loopvars
<1>3. ASSUME NEW i \in Incidents, Resolve(i) \/ Acknowledge(i)
      PROVE  OneRepeatPerCrash'
  <2>1. \A j \in Incidents : row'[j] = None \/ row'[j] = row[j]
    BY <1>0, <1>3 DEF Resolve, Acknowledge, DropRow, TypeOK
  <2> QED BY <1>1, <1>3, <2>1 DEF Resolve, Acknowledge, loopvars, pagevars
<1>4. CASE DeletePolicy
  BY <1>1, <1>4 DEF DeletePolicy, loopvars, pagevars
<1>5. CASE LoadDue
  <2>1. PICK n \in 0 .. Len(due) :
            batch' = [k \in 1 .. n |-> [who |-> due[k], inc |-> inc[due[k]],
                                        row |-> row[due[k]]]]
    BY <1>0, <1>5 DEF LoadDue, TypeOK
  <2>2. /\ DOMAIN batch' = 1 .. n
        /\ \A k \in 1 .. n : /\ due[k] \in Incidents
                             /\ batch'[k].who = due[k] /\ batch'[k].row = row[due[k]]
    BY <1>0, <2>1 DEF TypeOK
  <2>3. writing = None /\ UNCHANGED <<row, writing, top, repaged, crashes>>
    BY <1>5 DEF LoadDue, pagevars
  <2> QED BY <1>0, <2>2, <2>3 DEF OneRepeatPerCrash, Behind
<1>6. CASE Stop
  <2>1. /\ writing' # None => writing'.row = None /\ writing'.who = batch[1].who
        /\ UNCHANGED <<row, batch, top, repaged, crashes>>
        /\ writing = None
    BY <1>0, <1>6, HeadFacts DEF Stop, pagevars
  <2> QED BY <1>0, <2>1 DEF OneRepeatPerCrash, Behind, BatchShape
<1>7. CASE PageRung
  <2> DEFINE i == batch[1].who
             at == NextReachable(batch[1].row)
  <2>0. /\ batch # <<>> /\ writing = None /\ Head(batch) = batch[1] /\ at # None
        /\ 1 \in DOMAIN batch
        /\ UNCHANGED <<row, batch, crashes>>
    BY <1>0, <1>7, HeadFacts DEF PageRung
  <2>1. /\ i \in Incidents /\ batch[1].row \in Row
        /\ \A k \in DOMAIN batch : k # 1 => batch[k].who # i
    BY <1>0, <2>0, HeadFacts DEF BatchShape
  <2>2. /\ at \in Row /\ ~ Below(at, batch[1].row) /\ at.pos < rungs
        /\ Advance(at) # None => Advance(at) \in Row /\ Below(at, Advance(at))
    <3>1. rungs \in 0 .. MaxRungs
      BY <1>0 DEF TypeOK
    <3> QED BY <2>0, <2>1, <3>1, WalkGoesUp, AdvanceGoesUp
  <2>3. /\ top' = [top EXCEPT ![i] = at]
        /\ repaged' = [repaged EXCEPT ![i] =
                          IF top[i] # None /\ ~ Below(top[i], at) /\ @ <= MaxCrashes
                          THEN @ + 1 ELSE @]
        /\ writing' = [who |-> i, row |-> Advance(at), again |-> FALSE]
    BY <1>7, <2>0 DEF PageRung
  <2>4. /\ top'[i] = at /\ \A j \in Incidents \ {i} : top'[j] = top[j]
        /\ \A j \in Incidents \ {i} : repaged'[j] = repaged[j]
        /\ writing'.who = i /\ writing'.row = Advance(at)
    BY <1>0, <2>1, <2>3 DEF TypeOK
  <2>5. repaged'[i] <= crashes
    <3>1. repaged[i] \in Nat /\ crashes \in Nat /\ repaged[i] <= crashes
      BY <1>0, <2>1 DEF TypeOK, OneRepeatPerCrash
    <3>2. CASE top[i] # None /\ ~ Below(top[i], at) /\ repaged[i] <= MaxCrashes
      <4>1. top[i] \in Row
        BY <1>0, <2>1, <3>2 DEF TypeOK
      <4>2. ~ Below(top[i], batch[1].row)
        BY <2>1, <2>2, <3>2, <4>1, BelowTransitive
      <4>3. repaged[i] < crashes
        BY <1>0, <2>0, <2>1, <3>2, <4>2 DEF OneRepeatPerCrash, Behind
      <4>4. repaged'[i] = repaged[i] + 1
        BY <1>0, <2>1, <2>3, <3>2 DEF TypeOK
      <4> QED BY <3>1, <4>3, <4>4
    <3>3. CASE ~ (top[i] # None /\ ~ Below(top[i], at) /\ repaged[i] <= MaxCrashes)
      <4>1. repaged'[i] = repaged[i]
        BY <1>0, <2>1, <2>3, <3>3 DEF TypeOK
      <4> QED BY <3>1, <4>1
    <3> QED BY <3>2, <3>3
  <2>6. ~ Behind(writing.row, writing.who)'
    BY <2>2, <2>4 DEF Behind
  <2>7. writing' # None
    <3>1. writing' \in Write
      BY <2>1, <2>2, <2>3 DEF Write
    <3> QED BY <3>1
  <2> HIDE DEF i, at
  <2>8. ASSUME NEW j \in Incidents
        PROVE  /\ repaged'[j] <= crashes'
               /\ Behind(row[j], j)' => repaged'[j] < crashes' \/ writing'.who = j
    <3>1. CASE j = i
      BY <2>0, <2>4, <2>5, <3>1
    <3>2. CASE j # i
      BY <1>0, <2>0, <2>4, <3>2 DEF OneRepeatPerCrash, Behind
    <3> QED BY <3>1, <3>2
  <2>9. ASSUME NEW k \in DOMAIN batch, k # 1, Behind(batch[k].row, batch[k].who)'
        PROVE  repaged'[batch[k].who] < crashes'
    <3>1. batch[k].who \in Incidents \ {i}
      <4>1. batch[k] \in State
        BY <1>0 DEF TypeOK
      <4> QED BY <2>1, <2>9, <4>1 DEF State
    <3> QED BY <1>0, <2>0, <2>4, <2>9, <3>1 DEF OneRepeatPerCrash, Behind
  <2> QED BY <2>0, <2>6, <2>7, <2>8, <2>9 DEF OneRepeatPerCrash
<1>8. CASE FallBack
  <2> DEFINE i == batch[1].who
             old == batch[1].row
             new == [pos |-> rungs, pass |-> RepeatCount]
  <2>0. /\ batch # <<>> /\ writing = None /\ Head(batch) = batch[1] /\ 1 \in DOMAIN batch
        /\ i \in Incidents /\ old \in Row
        /\ UNCHANGED <<row, batch, top, repaged, crashes>>
    BY <1>0, <1>8, HeadFacts DEF FallBack
  <2>1. /\ writing' # None => writing'.who = i
        /\ \/ writing'.row = None
           \/ old.pos < rungs /\ writing'.row = new
    <3>1. CASE old.pos < rungs
      BY <1>8, <2>0, <3>1 DEF FallBack
    <3>2. CASE ~ (old.pos < rungs)
      BY <1>8, <2>0, <3>2 DEF FallBack
    <3> QED BY <3>1, <3>2
  <2>2. old.pos < rungs => new \in Row /\ Below(old, new)
    BY <1>0, <2>0 DEF TypeOK, Row, Below
  <2>3. old.pos < rungs /\ Behind(new, i) => Behind(old, i)
    <3> SUFFICES ASSUME old.pos < rungs, Behind(new, i), Below(top[i], old)
                 PROVE  FALSE
      BY <2>0 DEF Behind
    <3>1. top[i] \in Row
      BY <1>0, <2>0 DEF TypeOK, Behind
    <3>2. ~ Below(new, old)
      BY <2>0, <2>2 DEF Row, Below
    <3>3. Below(top[i], new)
      BY <2>0, <2>2, <3>1 DEF Row, Below
    <3> QED BY <3>3 DEF Behind
  <2> HIDE DEF i, old, new
  <2>4. \A j \in Incidents : Behind(row[j], j) => repaged[j] < crashes
    BY <1>0, <2>0 DEF OneRepeatPerCrash
  <2>5. Behind(old, i) => repaged[i] < crashes
    BY <1>0, <2>0 DEF OneRepeatPerCrash, i, old
  <2>6. \A k \in DOMAIN batch :
           Behind(batch[k].row, batch[k].who) => repaged[batch[k].who] < crashes
    BY <1>0, <2>0 DEF OneRepeatPerCrash
  <2>7. /\ \A j \in Incidents : repaged'[j] <= crashes'
        /\ \A j \in Incidents : Behind(row[j], j)' => repaged'[j] < crashes'
        /\ \A k \in DOMAIN batch' :
              Behind(batch[k].row, batch[k].who)' => repaged'[batch'[k].who] < crashes'
    BY <1>0, <2>0, <2>4, <2>6 DEF OneRepeatPerCrash, Behind
  <2>8. writing' # None /\ Behind(writing.row, writing.who)' =>
           repaged'[writing'.who] < crashes'
    BY <2>0, <2>1, <2>3, <2>5 DEF Behind
  <2> QED BY <2>7, <2>8 DEF OneRepeatPerCrash
<1>9. CASE CommitState
  <2>0. /\ writing # None /\ writing' = None /\ batch # <<>>
        /\ writing.who \in Incidents /\ writing.who = batch[1].who
        /\ UNCHANGED <<top, repaged, crashes>>
    BY <1>0, <1>9 DEF CommitState, BatchShape, pagevars, TypeOK, Write
  <2>1. /\ row'[writing.who] \in {None, writing.row}
        /\ \A j \in Incidents \ {writing.who} : row'[j] = row[j]
    BY <1>0, <1>9, <2>0 DEF CommitState, DropRow, TypeOK
  <2>2. ASSUME NEW j \in Incidents, Behind(row[j], j)'
        PROVE  repaged'[j] < crashes'
    <3>1. CASE j = writing.who
      BY <1>0, <2>0, <2>1, <2>2, <3>1 DEF OneRepeatPerCrash, Behind
    <3>2. CASE j # writing.who
      BY <1>0, <2>0, <2>1, <2>2, <3>2 DEF OneRepeatPerCrash, Behind
    <3> QED BY <3>1, <3>2
  <2>3. ASSUME NEW k \in DOMAIN batch', Behind(batch[k].row, batch[k].who)'
        PROVE  repaged'[batch'[k].who] < crashes'
    <3>1. CASE batch' = <<>>
      BY <3>1
    <3>2. CASE batch' = Tail(batch)
      <4>1. k + 1 \in DOMAIN batch /\ batch'[k] = batch[k + 1] /\ k + 1 # 1
        BY <1>0, <2>0, <3>2, HeadFacts
      <4>2. Behind(batch[k + 1].row, batch[k + 1].who)
        BY <2>0, <2>3, <4>1 DEF Behind
      <4> QED BY <1>0, <2>0, <4>1, <4>2 DEF OneRepeatPerCrash
    <3> QED BY <1>9, <3>1, <3>2 DEF CommitState
  <2>4. \A j \in Incidents : repaged'[j] <= crashes'
    BY <1>0, <2>0 DEF OneRepeatPerCrash
  <2> QED BY <2>0, <2>2, <2>3, <2>4 DEF OneRepeatPerCrash
<1>10. CASE Crash
  <2>1. /\ batch' = <<>> /\ writing' = None /\ crashes' = crashes + 1
        /\ UNCHANGED <<row, top, repaged>>
    BY <1>10 DEF Crash, pagevars
  <2>2. \A j \in Incidents : repaged[j] \in Nat /\ crashes \in Nat /\ repaged[j] <= crashes
    BY <1>0 DEF OneRepeatPerCrash, TypeOK
  <2> QED BY <2>1, <2>2 DEF OneRepeatPerCrash, Behind
<1>11. ASSUME NEW i \in Incidents,
              \/ Unacknowledge(i) \/ Snooze(i) \/ SnoozeEnds(i)
              \/ ToggleQuiet(i) \/ DelayElapses(i)
       PROVE  OneRepeatPerCrash'
  BY <1>1, <1>11 DEF Unacknowledge, Snooze, SnoozeEnds, ToggleQuiet, DelayElapses,
                     loopvars, pagevars
<1>12. ASSUME NEW r \in Rung, ToggleReach(r)
       PROVE  OneRepeatPerCrash'
  BY <1>1, <1>12 DEF ToggleReach, loopvars, pagevars
<1>13. CASE EditPolicy \/ UNCHANGED vars
  BY <1>1, <1>13 DEF EditPolicy, vars, loopvars, pagevars
<1> QED BY <1>2, <1>3, <1>4, <1>5, <1>6, <1>7, <1>8, <1>9, <1>10, <1>11, <1>12, <1>13
        DEF Next, EngineStep
-----------------------------------------------------------------------------
\* Every reachable state satisfies the inductive invariant, however the loop, its
\* crashes, the incident's life and edits of the policy interleave.
THEOREM LadderInvariant == Spec => []LadderInv
<1>1. LadderInv /\ [Next]_vars => LadderInv'
  BY TypeStep, OpenStep, BatchStep, PagedStep, RepeatStep DEF LadderInv
<1> QED BY InitInv, <1>1, PTL DEF Spec

\* The tables and the loop's variables keep their types.
THEOREM TypeCorrect == Spec => []TypeOK
<1>1. LadderInv => TypeOK
  BY DEF LadderInv
<1> QED BY <1>1, LadderInvariant, PTL

\* No escalation state outlives its incident, none waits in the queue twice or
\* after it is gone (_run_one, cancel_escalation).
THEOREM LaddersCloseWithIncidents == Spec => []LadderOnlyWhileOpen
<1>1. LadderInv => LadderOnlyWhileOpen
  BY DEF LadderInv
<1> QED BY <1>1, LadderInvariant, PTL

\* Whatever a walk skips and whatever edits shorten or lengthen the policy, a rung
\* is paged again only on behalf of a crash between a page and its commit.
THEOREM LaddersClimb == Spec => []ClimbsUpwards
<1>1. LadderInv => ClimbsUpwards
  BY DEF LadderInv, OneRepeatPerCrash, ClimbsUpwards
<1> QED BY <1>1, LadderInvariant, PTL
=============================================================================
