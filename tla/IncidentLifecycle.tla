------------------------- MODULE IncidentLifecycle -------------------------
(***************************************************************************)
(* What the detection path promises to the people on call, one monitor at  *)
(* a time and without tasks, transactions or rows: a monitor has at most   *)
(* one incident, every audible incident is announced when it opens and     *)
(* when it resolves, and a silent one is never announced.                  *)
(* IncidentEngine implements it (ImplementsLifecycle).                     *)
(***************************************************************************)
EXTENDS Integers

CONSTANT Monitors

VARIABLES status, paged

vars == <<status, paged>>

Move(m, from, to) ==
    /\ status[m] = from
    /\ status' = [status EXCEPT ![m] = to]

Init ==
    /\ status = [m \in Monitors |-> "none"]
    /\ paged = [m \in Monitors |-> 0]

\* An outage is detected, its incident is recorded and announced.
Open(m) == Move(m, "none", "audible") /\ paged' = [paged EXCEPT ![m] = @ + 1]

\* It is recorded only: maintenance, or a dependency that is down itself.
OpenSilently(m) == Move(m, "none", "silent") /\ UNCHANGED paged

\* An audible incident never turns silent: it ends with an announcement.
Resolve(m) == Move(m, "audible", "none") /\ paged' = [paged EXCEPT ![m] = @ - 1]

\* A silent incident is resolved, or its record is withdrawn.
EndSilently(m) == Move(m, "silent", "none") /\ UNCHANGED paged

\* Every step changes the incident of one monitor (implied by each disjunct; said
\* first because TLC evaluates the refinement mapping of most steps no further).
Next ==
    \E m \in Monitors :
        /\ status'[m] # status[m]
        /\ Open(m) \/ OpenSilently(m) \/ Resolve(m) \/ EndSilently(m)

Spec == Init /\ [][Next]_vars

=============================================================================
