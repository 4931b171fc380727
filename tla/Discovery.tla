------------------------------ MODULE Discovery ------------------------------
(***************************************************************************)
(* The inventory of one discovery source: push_discovery (api/v1/probes.py)*)
(* with reconcile_source_push (services/discovery.py), and the review of a *)
(* proposal (api/v1/discovery.py).                                         *)
(*                                                                         *)
(* A runner scans and then pushes what it saw; it is a probe's scheduled   *)
(* job, its scan-now task beside it, or another member of the group.  A    *)
(* push reads the rows, flushes its writes under their locks and commits;  *)
(* SQLAlchemy writes a column only if its value differs from the loaded    *)
(* one.  A review loads a row and commits its verdict.                     *)
(***************************************************************************)
EXTENDS Naturals, FiniteSets

CONSTANTS
    Runners,
    Targets,      \* normalized_target
    Natures,      \* what the stable hints of a service can be
    Reviewers,
    FullView,     \* does every runner reach every target
    MaxChanges,   \* bound: services that appear, change or vanish
    MaxReviews    \* bound: reviews that begin

VARIABLES
    row,          \* [Targets -> discovered_services row]
    monitors,     \* [Targets -> Nat] monitors that watch the target
    service,      \* [Targets -> nature of the service, or "none"]
    view,         \* [Runners -> SUBSET Targets] what the runner can reach
    push,         \* [Runners -> ...] where the runner is
    seen,         \* [Runners -> [Targets -> nature or "none"]] its snapshot
    known,        \* [Runners -> [Targets -> Rows]] the rows as it loaded them
    plan,         \* [Runners -> [Targets -> Rows]] what it has flushed
    review,       \* [Reviewers -> the loaded row, or Idle]
    changes, reviews

vars == <<row, monitors, service, view, push, seen, known, plan, review,
          changes, reviews>>
world == <<service, view, changes>>
reviewing == <<review, reviews>>

None == "none"
NatureOrNone == Natures \cup {None}
Statuses == {"absent", "proposed", "accepted", "dismissed", "orphaned"}
Rows == [status : Statuses, nature : NatureOrNone, refused : NatureOrNone,
         linked : BOOLEAN]
Absent == [status |-> "absent", nature |-> None, refused |-> None, linked |-> FALSE]
Idle == [target |-> None, loaded |-> Absent]

InventoryConstants ==
    /\ None \notin Targets /\ None \notin Natures /\ IsFiniteSet(Reviewers)
    /\ MaxChanges \in Nat /\ MaxReviews \in Nat

SeenBy(p) == {t \in Targets : seen[p][t] # None}
Nothing == [t \in Targets |-> None]
NoRows == [t \in Targets |-> Absent]

\* Rows a flushed push holds until its commit.
LockedBy(p) == IF push[p] = "flushed" THEN SeenBy(p) ELSE {}
LockedForOthers(p) == UNION {LockedBy(q) : q \in Runners \ {p}}

Finish(p) ==
    /\ push' = [push EXCEPT ![p] = "idle"]
    /\ seen' = [seen EXCEPT ![p] = Nothing]
    /\ known' = [known EXCEPT ![p] = NoRows]
    /\ plan' = [plan EXCEPT ![p] = NoRows]

Init ==
    /\ row = [t \in Targets |-> Absent]
    /\ monitors \in [Targets -> {0, 1}]      \* made by hand, before
    /\ service = Nothing
    /\ view \in {v \in [Runners -> SUBSET Targets] :
                    FullView => \A p \in Runners : v[p] = Targets}
    /\ push = [p \in Runners |-> "idle"]
    /\ seen = [p \in Runners |-> Nothing]
    /\ known = [p \in Runners |-> NoRows]
    /\ plan = [p \in Runners |-> NoRows]
    /\ review = [u \in Reviewers |-> Idle]
    /\ changes = 0 /\ reviews = 0

ServiceChanges(t) ==
    /\ changes < MaxChanges
    /\ service' \in {[service EXCEPT ![t] = n] : n \in NatureOrNone \ {service[t]}}
    /\ changes' = changes + 1
    /\ UNCHANGED <<row, monitors, view, push, seen, known, plan, reviewing>>
-----------------------------------------------------------------------------
\* _run_discovery_source: the scan, whose result is pushed later.
Scan(p) ==
    /\ push[p] = "idle"
    /\ push' = [push EXCEPT ![p] = "scanned"]
    /\ seen' = [seen EXCEPT ![p] = [t \in Targets |->
                   IF t \in view[p] THEN service[t] ELSE None]]
    /\ UNCHANGED <<row, monitors, world, known, plan, reviewing>>

\* push_discovery: the SELECT of the rows of the targets in the snapshot.
ReadExisting(p) ==
    /\ push[p] = "scanned"
    /\ push' = [push EXCEPT ![p] = "read"]
    /\ known' = [known EXCEPT ![p] = [t \in Targets |->
                   IF t \in SeenBy(p) THEN row[t] ELSE Absent]]
    /\ UNCHANGED <<row, monitors, world, seen, plan, reviewing>>

\* The row of a seen target once its hints are refreshed and the helpers of
\* reconcile_source_push have run: drift of a refusal, match with a monitor,
\* reappearance.  They select by the stored status and assign to the loaded row:
\* a refusal that was stored after the read is compared with no fingerprint, and
\* a value equal to the loaded one is not written.
Reconciled(p, t) ==
    LET new == known[p][t] = Absent
        proposed == [Absent EXCEPT !.status = "proposed"]
        old == IF new THEN proposed ELSE row[t]
        loaded == IF new THEN proposed ELSE known[p][t]
        drifted == old.status = "dismissed" /\ loaded.refused # seen[p][t]
        again == drifted /\ loaded.status # "proposed"
        matched == monitors[t] > 0 /\ (old.status = "proposed" \/ again)
        accepted == /\ matched \/ old.status = "orphaned"
                    /\ again \/ loaded.status # "accepted"
    IN  [status |-> IF accepted THEN "accepted" ELSE IF again THEN "proposed" ELSE old.status,
         nature |-> seen[p][t],
         refused |-> IF drifted /\ loaded.refused # None THEN None ELSE old.refused,
         linked |-> old.linked \/ matched]

\* The autoflush of the first query of reconcile_source_push, up to the SELECT of
\* the missing rows.  It waits for the rows of another flushed push; a row
\* inserted or deleted since the read fails the whole push.
Outdated(p) == \E t \in SeenBy(p) : (known[p][t] = Absent) # (row[t] = Absent)

Flush(p) ==
    /\ push[p] = "read"
    /\ SeenBy(p) \cap LockedForOthers(p) = {}
    /\ ~ Outdated(p)
    /\ push' = [push EXCEPT ![p] = "flushed"]
    /\ plan' = [plan EXCEPT ![p] = [t \in Targets |->
                   IF t \in SeenBy(p) THEN Reconciled(p, t) ELSE Absent]]
    /\ known' = [known EXCEPT ![p] = [t \in Targets |->
                   IF t \in SeenBy(p) THEN @[t] ELSE row[t]]]
    /\ UNCHANGED <<row, monitors, world, seen, reviewing>>

\* Mutant: every row the snapshot lacks is missing, dismissed ones too.
MissingAll(p) == {t \in Targets \ SeenBy(p) : known[p][t] # Absent}

\* Mutant: proposals are not looked at.
MissingAccepted(p) == {t \in Targets \ SeenBy(p) : known[p][t].status = "accepted"}

\* _handle_disappearances: the rows to delete or to orphan.
Missing(p) ==
    {t \in Targets \ SeenBy(p) : known[p][t].status \in {"proposed", "accepted"}}

\* Mutant: a proposal that vanishes is orphaned like an accepted service.
DroppedNone(p) == {}

Dropped(p) == {t \in Missing(p) : known[p][t].status = "proposed"}
Vanished(p) == \E t \in Missing(p) \ Dropped(p) : row[t] = Absent

\* The writes to the missing rows, by primary key whatever became of them, and
\* the commit.
CommitPush(p) ==
    /\ push[p] = "flushed"
    /\ Missing(p) \cap LockedForOthers(p) = {}
    /\ ~ Vanished(p)
    /\ row' = [t \in Targets |->
                  IF t \in SeenBy(p) THEN plan[p][t]
                  ELSE IF t \in Dropped(p) THEN Absent
                  ELSE IF t \in Missing(p) THEN [row[t] EXCEPT !.status = "orphaned"]
                  ELSE row[t]]
    /\ Finish(p)
    /\ UNCHANGED <<monitors, world, reviewing>>

\* The push fails and is rolled back: a unique key is taken, a row it updates is
\* gone, or PostgreSQL breaks a deadlock of two pushes.
WaitsFor(p, q) == push[p] = "flushed" /\ Missing(p) \cap LockedBy(q) # {}

PushFails(p) ==
    /\ \/ push[p] = "read" /\ SeenBy(p) \cap LockedForOthers(p) = {} /\ Outdated(p)
       \/ push[p] = "flushed" /\ Vanished(p)
       \/ \E q \in Runners \ {p} : WaitsFor(p, q) /\ WaitsFor(q, p)
    /\ Finish(p)
    /\ UNCHANGED <<row, monitors, world, reviewing>>
-----------------------------------------------------------------------------
\* _get_visible_service and _assert_transitionable.
LoadReview(u, t) ==
    /\ review[u] = Idle /\ reviews < MaxReviews
    /\ row[t].status \in {"proposed", "orphaned"}
    /\ review' = [review EXCEPT ![u] = [target |-> t, loaded |-> row[t]]]
    /\ reviews' = reviews + 1
    /\ UNCHANGED <<row, monitors, world, push, seen, known, plan>>

Verdict(u, t) ==
    /\ review[u].target = t
    /\ \A p \in Runners : t \notin LockedBy(p)
    /\ review' = [review EXCEPT ![u] = Idle]
    /\ UNCHANGED <<world, push, seen, known, plan, reviews>>

\* _accept_row: the monitor is created unless the loaded row has one.
Accept(u) == \E t \in Targets :
    /\ Verdict(u, t)
    /\ row[t] # Absent
    /\ row' = [row EXCEPT ![t].status = "accepted", ![t].linked = TRUE]
    /\ monitors' = IF review[u].loaded.linked THEN monitors
                   ELSE [monitors EXCEPT ![t] = @ + 1]

\* _dismiss_row: the fingerprint is that of the service as it was loaded.
Dismiss(u) == \E t \in Targets :
    /\ Verdict(u, t)
    /\ row[t] # Absent
    /\ row' = [row EXCEPT ![t].status = "dismissed",
                          ![t].refused = review[u].loaded.nature]
    /\ UNCHANGED monitors

\* The row is gone, or the request is refused further down (no permission, an
\* invalid override).
ReviewFails(u) == \E t \in Targets :
    /\ Verdict(u, t)
    /\ UNCHANGED <<row, monitors>>

Push(p) == Scan(p) \/ ReadExisting(p) \/ Flush(p) \/ CommitPush(p) \/ PushFails(p)

Next ==
    \/ \E t \in Targets : ServiceChanges(t)
    \/ \E p \in Runners : Push(p)
    \/ \E u \in Reviewers :
          \/ \E t \in Targets : LoadReview(u, t)
          \/ Accept(u) \/ Dismiss(u) \/ ReviewFails(u)

Spec == Init /\ [][Next]_vars

\* Every runner's job fires again and again (APScheduler), and a request ends.
FairSpec ==
    /\ Spec
    /\ \A p \in Runners : WF_vars(Push(p))
    /\ \A u \in Reviewers : WF_vars(ReviewFails(u))
-----------------------------------------------------------------------------
TypeOK ==
    /\ row \in [Targets -> Rows]
    /\ monitors \in [Targets -> Nat]
    /\ service \in [Targets -> NatureOrNone]
    /\ view \in [Runners -> SUBSET Targets]
    /\ push \in [Runners -> {"idle", "scanned", "read", "flushed"}]
    /\ seen \in [Runners -> [Targets -> NatureOrNone]]
    /\ known \in [Runners -> [Targets -> Rows]]
    /\ plan \in [Runners -> [Targets -> Rows]]
    /\ review \in [Reviewers -> [target : Targets \cup {None}, loaded : Rows]]
    /\ changes \in 0 .. MaxChanges /\ reviews \in 0 .. MaxReviews

\* One service is watched by one monitor: however scans, drops and reviews
\* overlap, a target that has a monitor, made by hand before or by an accept, is
\* matched and not turned into a second one (_match_new_proposals, _accept_row).
NoSecondMonitor == Cardinality(Reviewers) = 1 => \A t \in Targets : monitors[t] <= 1

\* What the inventory calls accepted or orphaned has a monitor, in every
\* interleaving of a push with the review of the row it is rewriting.
AcceptedLinked ==
    \A t \in Targets : row[t].status \in {"accepted", "orphaned"} =>
                          row[t].linked /\ monitors[t] > 0

\* Inventory and monitors agree: none too many, none missing.
InventoryAgrees == NoSecondMonitor /\ AcceptedLinked

\* A refusal that a push has read survives it, unless the push saw a service
\* other than the one the reviewer had before him (_handle_dismissed_drift,
\* _handle_disappearances).  Only where there are several reviewers does the
\* verdict of another one, who had loaded the row before, undo it.
Overtaken(t) ==
    \E p \in Runners : /\ push[p] = "flushed" /\ push'[p] = "idle"
                       /\ \/ known[p][t].status # "dismissed"
                          \/ known[p][t].refused # row[t].refused
Overruled(t) ==
    /\ Cardinality(Reviewers) # 1
    /\ \E u \in Reviewers : review[u].target = t /\ review'[u] = Idle
RefusalKept ==
    [][\A t \in Targets :
          row[t].status = "dismissed" /\ row'[t].status # "dismissed"
          => \/ Overtaken(t) \/ Overruled(t)
             \/ row'[t].nature \notin {None, row[t].refused}]_vars

\* The inventory follows the world: a service that stays is in the end listed and
\* not reported missing, one that stays away is neither proposed nor accepted,
\* whatever snapshots were delayed, reordered or failed on the way.
InventorySettles ==
    \A t \in Targets :
        /\ <>[](service[t] # None) => <>[](row[t].status \notin {"absent", "orphaned"})
        /\ <>[](service[t] = None) => <>[](row[t].status \notin {"proposed", "accepted"})
=============================================================================
