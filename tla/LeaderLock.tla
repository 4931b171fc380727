----------------------------- MODULE LeaderLock -----------------------------
(***************************************************************************)
(* core/leader.py: the Redis lease that lets one replica of the API run a  *)
(* named background loop (heartbeat checker, escalation engine, digest     *)
(* flusher, retention ...).  One LeaderLock per replica and task; SET NX   *)
(* PX acquires, WATCH/MULTI/PEXPIRE renews, and every Redis failure fails  *)
(* open.  run_leader_loop checks leadership before each iteration only.    *)
(*                                                                         *)
(* Time is counted in ticks.  Slack bounds every lag the code cannot       *)
(* control: the reply of a SET arrives within Slack, and a renewal reaches *)
(* Redis within Slack of the end of its sleep.                             *)
(***************************************************************************)
EXTENDS Integers

CONSTANTS
    Replicas,
    Nobody,     \* the token of a process that is gone
    Ttl,        \* ttl
    RenewEvery, \* renew_interval
    Slack,
    Faults      \* which of "redis", "renewer" may happen

\* LeaderLock.__init__ refuses renew_interval >= ttl; the lease must also
\* outlast a late reply followed by a late renewal (30 s against 10 s by
\* default).
ASSUME LeaseAssumption ==
    /\ Ttl \in Nat /\ RenewEvery \in Nat \ {0} /\ Slack \in Nat
    /\ RenewEvery + 2 * Slack < Ttl
    /\ Nobody \notin Replicas

\* A renewal cycle after the last disturbance every stale leader has noticed.
HealTime == RenewEvery + 2 * Slack + 1

VARIABLES
    owner,      \* the token in the key
    left,       \* ticks until the key expires; 0: there is no key
    link,       \* [Replicas -> BOOLEAN] Redis is reachable
    isLeader,   \* [Replicas -> BOOLEAN] _is_leader
    renewing,   \* [Replicas -> BOOLEAN] the _renew_loop task is alive
    age,        \* [Replicas -> Nat] ticks since the renewer last went to sleep,
                \* or since the SET whose reply is awaited
    loop,       \* [Replicas -> ...] where run_leader_loop is
    healthy,    \* ticks since the last disturbance of Redis, up to HealTime
    clean       \* no disturbance of Redis or of a renewer so far

vars == <<owner, left, link, isLeader, renewing, age, loop, healthy, clean>>

redis == <<owner, left>>
local == <<isLeader, renewing, age, loop>>
world == <<link, healthy, clean>>

Locs == {"asleep", "refused", "granted", "working"}

Holds(i) == left > 0 /\ owner = i

Become(i) ==
    /\ isLeader' = [isLeader EXCEPT ![i] = TRUE]
    /\ renewing' = [renewing EXCEPT ![i] = TRUE]
    /\ age' = [age EXCEPT ![i] = 0]
    /\ loop' = [loop EXCEPT ![i] = "working"]

NotLeader(i) ==
    /\ isLeader' = [isLeader EXCEPT ![i] = FALSE]
    /\ renewing' = [renewing EXCEPT ![i] = FALSE]
    /\ age' = [age EXCEPT ![i] = 0]

Init ==
    /\ owner = Nobody /\ left = 0
    /\ link = [i \in Replicas |-> TRUE]
    /\ isLeader = [i \in Replicas |-> FALSE]
    /\ renewing = [i \in Replicas |-> FALSE]
    /\ age = [i \in Replicas |-> 0]
    /\ loop = [i \in Replicas |-> "asleep"]
    /\ healthy = HealTime
    /\ clean = TRUE

-----------------------------------------------------------------------------
(* run_leader_loop and try_acquire                                          *)

\* Already leading with a live renewer: no round trip, straight to the work.
KeepLeading(i) ==
    /\ loop[i] = "asleep" /\ isLeader[i] /\ renewing[i]
    /\ loop' = [loop EXCEPT ![i] = "working"]
    /\ UNCHANGED <<redis, world, isLeader, renewing, age>>

\* Mutant: SET without NX.
SetAlways(i) ==
    /\ loop[i] = "asleep" /\ ~(isLeader[i] /\ renewing[i])
    /\ link[i]
    /\ NotLeader(i)
    /\ owner' = i /\ left' = Ttl
    /\ loop' = [loop EXCEPT ![i] = "granted"]
    /\ UNCHANGED world

\* The SET NX reaches Redis; a finished renewer is forgotten first.
SetNx(i) ==
    /\ loop[i] = "asleep" /\ ~(isLeader[i] /\ renewing[i])
    /\ link[i]
    /\ NotLeader(i)
    /\ IF left = 0
       THEN /\ owner' = i /\ left' = Ttl
            /\ loop' = [loop EXCEPT ![i] = "granted"]
       ELSE /\ loop' = [loop EXCEPT ![i] = "refused"]
            /\ UNCHANGED redis
    /\ UNCHANGED world

\* Mutant: RedisError on the SET fails closed.
FailClosed(i) ==
    /\ loop[i] = "asleep" /\ ~(isLeader[i] /\ renewing[i])
    /\ ~link[i]
    /\ NotLeader(i)
    /\ UNCHANGED <<redis, world, loop>>

\* RedisError on the SET: fail open.
FailOpen(i) ==
    /\ loop[i] = "asleep" /\ ~(isLeader[i] /\ renewing[i])
    /\ ~link[i]
    /\ Become(i)
    /\ UNCHANGED <<redis, world>>

\* The reply of the SET, or the loss of it, which fails open as well.
Granted(i) ==
    /\ loop[i] = "granted"
    /\ Become(i)
    /\ UNCHANGED <<redis, world>>

\* NX refused: GET the key and, should it hold our own token, extend it
\* (_renew, guarded by WATCH).  When Redis is lost meanwhile, an error of the
\* GET means "not leader"; one of the SET's reply or of the renewal fails open.
Refused(i) ==
    /\ loop[i] = "refused"
    /\ \/ /\ link[i] /\ Holds(i)
          /\ left' = Ttl
          /\ loop' = [loop EXCEPT ![i] = "granted"]
          /\ NotLeader(i)
          /\ UNCHANGED owner
       \/ /\ ~link[i]
          /\ Become(i)
          /\ UNCHANGED redis
       \/ /\ ~(link[i] /\ Holds(i))
          /\ NotLeader(i)
          /\ loop' = [loop EXCEPT ![i] = "asleep"]
          /\ UNCHANGED redis
    /\ UNCHANGED world

\* The iteration of work ends and the loop sleeps for its interval.
FinishWork(i) ==
    /\ loop[i] = "working"
    /\ loop' = [loop EXCEPT ![i] = "asleep"]
    /\ UNCHANGED <<redis, world, isLeader, renewing, age>>

-----------------------------------------------------------------------------
(* The renewer                                                              *)

\* Mutant: a renewal adds a ttl to what is left.
RenewAdds(i) ==
    /\ renewing[i] /\ age[i] >= RenewEvery
    /\ IF link[i] /\ ~Holds(i) THEN NotLeader(i)
       ELSE /\ age' = [age EXCEPT ![i] = 0]
            /\ UNCHANGED <<isLeader, renewing>>
    /\ left' = IF link[i] /\ Holds(i) THEN left + Ttl ELSE left
    /\ UNCHANGED <<owner, world, loop>>

\* Mutant: a renewal extends the key without comparing its token.
RenewAnyKey(i) ==
    /\ renewing[i] /\ age[i] >= RenewEvery
    /\ IF link[i] /\ left = 0 THEN NotLeader(i)
       ELSE /\ age' = [age EXCEPT ![i] = 0]
            /\ UNCHANGED <<isLeader, renewing>>
    /\ left' = IF link[i] /\ left > 0 THEN Ttl ELSE left
    /\ UNCHANGED <<owner, world, loop>>

\* _renew_loop wakes and runs _renew: extend the lease we own, or learn that
\* it is lost (GET shows another token, or EXEC fails with WatchError), or
\* fail open.
Renew(i) ==
    /\ renewing[i] /\ age[i] >= RenewEvery
    /\ \/ /\ ~link[i]
          /\ age' = [age EXCEPT ![i] = 0]
          /\ UNCHANGED <<redis, isLeader, renewing>>
       \/ /\ link[i] /\ Holds(i)
          /\ left' = Ttl
          /\ age' = [age EXCEPT ![i] = 0]
          /\ UNCHANGED <<owner, isLeader, renewing>>
       \/ /\ link[i] /\ ~Holds(i)
          /\ NotLeader(i)
          /\ UNCHANGED redis
    /\ UNCHANGED <<world, loop>>

\* release() on shutdown, then a new process with a new token: the renewer is
\* cancelled, and the key is deleted if this replica led, Redis answers and
\* the key still holds its token.  Cancelled inside try_acquire it never led,
\* and a key it had just set is left to expire.
Release(i) ==
    /\ NotLeader(i)
    /\ loop' = [loop EXCEPT ![i] = "asleep"]
    /\ owner' = IF owner = i THEN Nobody ELSE owner
    /\ left' = IF isLeader[i] /\ link[i] /\ Holds(i) THEN 0 ELSE left
    /\ UNCHANGED world

\* The process dies; its key stays until it expires.
Crash(i) ==
    /\ NotLeader(i)
    /\ loop' = [loop EXCEPT ![i] = "asleep"]
    /\ owner' = IF owner = i THEN Nobody ELSE owner
    /\ UNCHANGED <<left, world>>

-----------------------------------------------------------------------------
(* Faults and time                                                          *)

\* A replica loses or regains Redis.
SwitchLink(i) ==
    /\ "redis" \in Faults
    /\ link' = [link EXCEPT ![i] = ~@]
    /\ healthy' = 0 /\ clean' = FALSE
    /\ UNCHANGED <<redis, local>>

\* Redis restarts without its data.
LoseKey ==
    /\ "redis" \in Faults
    /\ left > 0
    /\ left' = 0
    /\ healthy' = 0 /\ clean' = FALSE
    /\ UNCHANGED <<owner, link, local>>

\* The renewer dies of an exception that is not a RedisError: the token stays
\* behind, and so does _is_leader until the next try_acquire.
RenewerDies(i) ==
    /\ "renewer" \in Faults
    /\ renewing[i]
    /\ renewing' = [renewing EXCEPT ![i] = FALSE]
    /\ clean' = FALSE
    /\ UNCHANGED <<redis, link, isLeader, age, loop, healthy>>

Overdue(i) ==
    \/ renewing[i] /\ age[i] >= RenewEvery + Slack
    \/ loop[i] = "granted" /\ age[i] >= Slack

Tick ==
    /\ \A i \in Replicas : ~Overdue(i)
    /\ left' = IF left = 0 THEN 0 ELSE left - 1
    /\ age' = [i \in Replicas |-> IF renewing[i] \/ loop[i] = "granted"
                                  THEN age[i] + 1 ELSE age[i]]
    /\ healthy' = IF healthy < HealTime /\ (\A i \in Replicas : link[i])
                  THEN healthy + 1 ELSE healthy
    /\ UNCHANGED <<owner, isLeader, renewing, loop, link, clean>>

LoopStep(i) ==
    \/ KeepLeading(i) \/ SetNx(i) \/ FailOpen(i) \/ Granted(i) \/ Refused(i)
    \/ FinishWork(i)

Disturb == \E i \in Replicas : Release(i) \/ Crash(i) \/ SwitchLink(i) \/ RenewerDies(i)

Next == (\E i \in Replicas : LoopStep(i) \/ Renew(i)) \/ Disturb \/ LoseKey \/ Tick

Spec == Init /\ [][Next]_vars

\* Every replica's loop and renewer keep running, and time passes.
FairSpec ==
    /\ Spec /\ WF_vars(Tick)
    /\ \A i \in Replicas : WF_vars(LoopStep(i)) /\ WF_vars(Renew(i))

-----------------------------------------------------------------------------
(* Properties                                                               *)

TypeOK ==
    /\ owner \in Replicas \cup {Nobody}
    /\ left \in 0..Ttl
    /\ link \in [Replicas -> BOOLEAN]
    /\ isLeader \in [Replicas -> BOOLEAN]
    /\ renewing \in [Replicas -> BOOLEAN]
    /\ age \in [Replicas -> 0..(RenewEvery + Slack)]
    /\ loop \in [Replicas -> Locs]
    /\ healthy \in 0..HealTime
    /\ clean \in BOOLEAN

\* "Only one replica does the work at a time": as long as Redis answered every
\* replica, two iterations of the task never run at once, although leadership
\* is not checked again once an iteration has begun.
WorkExclusive ==
    clean => \A i, j \in Replicas :
                loop[i] = "working" /\ loop[j] = "working" => i = j

\* Fail-open leadership "self-heals on the next renewal once Redis returns":
\* a renewal cycle after the last disturbance at most one replica is leader
\* with a live renewer.
SelfHeals ==
    (healthy = HealTime /\ \A i \in Replicas : link[i]) =>
        \A i, j \in Replicas :
            isLeader[i] /\ renewing[i] /\ isLeader[j] /\ renewing[j] => i = j

\* "If the current leader dies, another replica takes over": once replicas,
\* links and renewers are left in peace, iterations of the task keep starting,
\* also while Redis is unreachable.
WorkGoesOn ==
    <>[][~(Disturb \/ LoseKey)]_vars =>
        []<>(\E i \in Replicas : loop[i] = "working")

-----------------------------------------------------------------------------
(* The inductive invariant behind WorkExclusive and SelfHeals               *)
(* (LeaderLock_proofs).                                                      *)

\* Replica i owns the key, and the key has spent no more than d of its life.
OwnsFor(i, d) == Holds(i) /\ left >= Ttl - d

\* A granted SET, and a live renewer, own the key for as long as they have
\* waited; those that do not are older than the last disturbance.
LeaseInv ==
    /\ clean => /\ healthy = HealTime
                /\ \A i \in Replicas : loop[i] = "working" => renewing[i]
                /\ \A i \in Replicas : isLeader[i] => renewing[i]
    /\ healthy > 0 => \A i \in Replicas : link[i]
    /\ \A i \in Replicas :
        /\ loop[i] \in {"granted", "refused"} => ~renewing[i]
        /\ loop[i] = "granted" =>
              age[i] <= Slack /\ (healthy <= age[i] \/ OwnsFor(i, age[i]))
        /\ renewing[i] =>
              healthy <= age[i] + Slack \/ OwnsFor(i, age[i] + Slack)

=============================================================================
