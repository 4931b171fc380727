--------------------------- MODULE Digest_proofs ---------------------------
(***************************************************************************)
(* Proofs about the alert digests, for any number of rules, alerts,        *)
(* channels and faults.                                                    *)
(***************************************************************************)
EXTENDS Digest, FiniteSetTheorems, TLAPS

Holding == {"contextRead", "ranged", "listDeleted", "contextDeleted"}

\* A list holds alerts of its rule; the flusher holds alerts only between LRANGE
\* and the message; a task has a channel left before its upsert.
DigestShape ==
    /\ \A r \in Rules : \A a \in ToSet(list[r]) : RuleOf[a] = r
    /\ flusher \in Holding => current \in Rules
    /\ flusher \notin Holding \ {"contextRead"} => taken = <<>>
    /\ \A a \in Alerts : step[a] \notin {"ready", "done", "failed"} => left[a] > 0

DigestInv == TypeOK /\ DigestShape /\ AlertAccounted

-----------------------------------------------------------------------------
(* Sequences of alerts                                                      *)

LEMMA ToSetIn ==
    ASSUME NEW S, NEW s \in Seq(S)
    PROVE  ToSet(s) \subseteq S
  BY DEF ToSet

LEMMA ToSetEmpty == ToSet(<<>>) = {}
  BY DEF ToSet

LEMMA ToSetPush ==
    ASSUME NEW S, NEW s \in Seq(S), NEW a \in S
    PROVE  /\ <<a>> \o s \in Seq(S)
           /\ ToSet(<<a>> \o s) = {a} \cup ToSet(s)
<1>1. /\ <<a>> \o s \in Seq(S) /\ Len(<<a>> \o s) = Len(s) + 1
      /\ (<<a>> \o s)[1] = a
      /\ \A i \in 1 .. Len(s) : (<<a>> \o s)[i + 1] = s[i]
  OBVIOUS
<1> DEFINE t == <<a>> \o s
<1>2. t \in Seq(S) /\ Len(t) = Len(s) + 1 /\ t[1] = a /\ \A i \in 1 .. Len(s) : t[i + 1] = s[i]
  BY <1>1
<1> HIDE DEF t
<1>3. \A i \in 2 .. Len(t) : i - 1 \in 1 .. Len(s) /\ t[i] = s[i - 1]
  <2> TAKE i \in 2 .. Len(t)
  <2>1. i - 1 \in 1 .. Len(s) /\ (i - 1) + 1 = i
    BY <1>2
  <2> QED BY <1>2, <2>1
<1>4. ToSet(t) \subseteq {a} \cup ToSet(s)
  <2> SUFFICES ASSUME NEW i \in 1 .. Len(t) PROVE t[i] \in {a} \cup ToSet(s)
    BY <1>2 DEF ToSet
  <2>1. i = 1 \/ i \in 2 .. Len(t)
    OBVIOUS
  <2> QED BY <1>2, <1>3, <2>1 DEF ToSet
<1>5. {a} \cup ToSet(s) \subseteq ToSet(t)
  <2>1. a \in ToSet(t)
    BY <1>2 DEF ToSet
  <2>2. \A i \in 1 .. Len(s) : s[i] \in ToSet(t)
    BY <1>2 DEF ToSet
  <2> QED BY <2>1, <2>2 DEF ToSet
<1> QED BY <1>1, <1>4, <1>5 DEF t

\* How often an alert occurs.
LEMMA TimesFacts ==
    ASSUME NEW S, NEW s \in Seq(S), NEW a
    PROVE  /\ Times(a, s) \in Nat
           /\ a \in ToSet(s) => Times(a, s) > 0
           /\ a \notin ToSet(s) => Times(a, s) = 0
<1> DEFINE I == {i \in DOMAIN s : s[i] = a}
<1>1. IsFiniteSet(I)
  <2>1. DOMAIN s = 1 .. Len(s) /\ 1 \in Int /\ Len(s) \in Int
    OBVIOUS
  <2>2. IsFiniteSet(1 .. Len(s))
    BY <2>1, FS_Interval
  <2> QED BY <2>1, <2>2, FS_Subset
<1>2. Cardinality(I) \in Nat /\ (Cardinality(I) = 0 <=> I = {})
  BY <1>1, FS_CardinalityType, FS_EmptySet
<1>3. a \in ToSet(s) <=> I # {}
  BY DEF ToSet
<1> HIDE DEF I
<1>4. Cardinality(I) = Times(a, s)
  BY DEF Times, I
<1> QED BY <1>2, <1>3, <1>4
-----------------------------------------------------------------------------
LEMMA LoseFacts ==
    ASSUME lost \in [Causes -> SUBSET Alerts], NEW cause \in Causes,
           NEW S \in SUBSET Alerts, Lose(cause, S)
    PROVE  /\ lost' \in [Causes -> SUBSET Alerts]
           /\ \A a : Lost(a) => Lost(a)'
           /\ \A a \in S : Lost(a)'
  BY DEF Lose, Lost

LEMMA InitDigest == Init => DigestInv
<1> SUFFICES ASSUME Init PROVE DigestInv
  OBVIOUS
<1>1. <<>> \in Seq(Alerts)
  OBVIOUS
<1>2. TypeOK
  <2>1. list \in [Rules -> Seq(Alerts)] /\ taken \in Seq(Alerts)
    BY <1>1 DEF Init
  <2>2. left \in [Alerts -> 0 .. Channels] /\ faults \in 0 .. MaxFaults
    BY DigestAssumption DEF Init, DigestAssumption
  <2>3. flusher \in Locs /\ due \subseteq Rules /\ current \in Rules \cup {NoRule}
    BY DEF Init, Locs
  <2> QED BY <2>1, <2>2, <2>3 DEF Init, TypeOK, Steps
<1>3. DigestShape /\ AlertAccounted
  BY ToSetEmpty, DigestAssumption DEF Init, DigestShape, AlertAccounted, DigestAssumption, Holding
<1> QED BY <1>2, <1>3 DEF DigestInv

\* Where an alert is.
Somewhere(a) ==
    \/ step[a] = "idle"
    \/ a \in ToSet(list[RuleOf[a]]) \/ a \in ToSet(taken)
    \/ sent[a] > 0 \/ Lost(a)

\* What a task does to Redis keeps every alert where it is.
LEMMA TaskStep ==
    ASSUME DigestInv, NEW a \in Alerts, Task(a) \/ FailAlert(a)
    PROVE  DigestInv'
<1>0. TypeOK /\ DigestShape /\ AlertAccounted
  BY DEF DigestInv
<1>1. UNCHANGED <<flusher, due, current, taken, sent, lost, cut>>
  BY DEF Task, FailAlert, Push, SetContext, Schedule, Upsert, CommitAlert, flush, ghosts
<1>2. CASE Push(a)
  <2>0. PICK r \in Rules : r = RuleOf[a]
    BY DigestAssumption DEF DigestAssumption
  <2>1. /\ step[a] \in {"idle", "again"}
        /\ list' = [list EXCEPT ![r] = <<a>> \o @]
        /\ first' = [first EXCEPT ![a] = list[r] = <<>>]
        /\ step' = [step EXCEPT ![a] = "pushed"]
        /\ UNCHANGED <<context, schedule, row, rowDue, left, faults>>
    BY <1>2, <2>0 DEF Push, rows
  <2>2. /\ list'[r] = <<a>> \o list[r] /\ list[r] \in Seq(Alerts)
        /\ \A q \in Rules \ {r} : list'[q] = list[q]
    BY <1>0, <2>1 DEF TypeOK
  <2>3. list'[r] \in Seq(Alerts) /\ ToSet(list'[r]) = {a} \cup ToSet(list[r])
    BY <2>2, ToSetPush
  <2>4. list' \in [Rules -> Seq(Alerts)]
    BY <1>0, <2>1, <2>2, <2>3 DEF TypeOK
  <2>5. first' \in [Alerts -> BOOLEAN]
    BY <1>0, <2>1, Zenon DEF TypeOK
  <2>6. TypeOK'
    BY <1>0, <1>1, <2>1, <2>4, <2>5 DEF TypeOK, Steps
  <2>7. \A q \in Rules : ToSet(list'[q]) = ToSet(list[q]) \/ q = r
    BY <2>2
  <2>8. DigestShape'
    BY <1>0, <1>1, <2>0, <2>1, <2>3, <2>7 DEF DigestShape, TypeOK
  <2>9. AlertAccounted'
    <3> SUFFICES ASSUME NEW b \in Alerts PROVE Somewhere(b)'
      BY DEF AlertAccounted, Somewhere
    <3>1. Somewhere(b)
      BY <1>0 DEF AlertAccounted, Somewhere
    <3>2. RuleOf[b] \in Rules
      BY DigestAssumption DEF DigestAssumption
    <3>3. b \in ToSet(list[RuleOf[b]]) => b \in ToSet(list'[RuleOf[b]])
      BY <2>3, <2>7, <3>2
    <3>4. b = a => b \in ToSet(list'[RuleOf[b]])
      BY <2>0, <2>3
    <3>5. b # a => step'[b] = step[b]
      BY <1>0, <2>1 DEF TypeOK
    <3> QED BY <1>1, <3>1, <3>3, <3>4, <3>5 DEF Somewhere, Lost
  <2> QED BY <2>6, <2>8, <2>9 DEF DigestInv
<1>3. ASSUME UNCHANGED list, step' \in [Alerts -> Steps], left' \in [Alerts -> 0 .. Channels],
             step[a] # "idle", step'[a] # "idle",
             \A b \in Alerts \ {a} : step'[b] = step[b] /\ left'[b] = left[b],
             step'[a] \notin {"ready", "done", "failed"} => left'[a] > 0,
             context' \in [Rules -> BOOLEAN], schedule' \in [Rules -> {"none", "waiting", "due"}],
             row' \in [Rules -> SUBSET Alerts], rowDue' \in [Rules -> BOOLEAN],
             first' \in [Alerts -> BOOLEAN], faults' \in 0 .. MaxFaults
      PROVE  DigestInv'
  <2>1. TypeOK'
    BY <1>0, <1>1, <1>3 DEF TypeOK
  <2>2. DigestShape'
    BY <1>0, <1>1, <1>3 DEF DigestShape
  <2>3. AlertAccounted'
    BY <1>0, <1>1, <1>3 DEF AlertAccounted, Lost
  <2> QED BY <2>1, <2>2, <2>3 DEF DigestInv
<1>4. CASE SetContext(a)
  <2>1. /\ step[a] = "pushed" /\ step' = [step EXCEPT ![a] = "contextSet"]
        /\ context' = [context EXCEPT ![RuleOf[a]] = TRUE]
        /\ UNCHANGED <<list, schedule, row, rowDue, left, first, faults>>
    BY <1>4 DEF SetContext, rows
  <2>2. context' \in [Rules -> BOOLEAN]
    BY <1>0, <2>1, Zenon DEF TypeOK
  <2> QED BY <1>0, <1>3, <2>1, <2>2 DEF TypeOK, Steps, DigestShape
<1>5. CASE Schedule(a)
  <2>1. /\ step[a] = "contextSet" /\ step' = [step EXCEPT ![a] = "scheduled"]
        /\ schedule' \in {schedule, [schedule EXCEPT ![RuleOf[a]] = "waiting"]}
        /\ first' = [first EXCEPT ![a] = FALSE]
        /\ UNCHANGED <<list, context, row, rowDue, left, faults>>
    BY <1>5 DEF Schedule, rows
  <2>2. first' \in [Alerts -> BOOLEAN]
    BY <1>0, <2>1, Zenon DEF TypeOK
  <2>3. schedule' \in [Rules -> {"none", "waiting", "due"}]
    BY <1>0, <2>1 DEF TypeOK
  <2> QED BY <1>0, <1>3, <2>1, <2>2, <2>3 DEF TypeOK, Steps, DigestShape
<1>6. CASE Upsert(a)
  <2>1. /\ step[a] = "scheduled" /\ left' = [left EXCEPT ![a] = @ - 1]
        /\ step' = [step EXCEPT ![a] = IF left[a] > 1 THEN "again" ELSE "ready"]
        /\ UNCHANGED <<list, context, schedule, row, rowDue, first, faults>>
    BY <1>6 DEF Upsert, redis, rows
  <2>2. left[a] \in 1 .. Channels /\ Channels \in Nat
    <3>1. left[a] \in 0 .. Channels /\ left[a] > 0
      BY <1>0, <2>1 DEF DigestShape, TypeOK
    <3>2. Channels \in Nat
      BY DigestAssumption DEF DigestAssumption
    <3> QED BY <3>1, <3>2
  <2>3. left' \in [Alerts -> 0 .. Channels]
    BY <1>0, <2>1, <2>2 DEF TypeOK
  <2>4. step'[a] = (IF left[a] > 1 THEN "again" ELSE "ready") /\ left'[a] = left[a] - 1
    BY <1>0, <2>1 DEF TypeOK
  <2>5. step'[a] # "idle" /\ (step'[a] \notin {"ready", "done", "failed"} => left'[a] > 0)
    BY <2>2, <2>4
  <2>6. \A b \in Alerts \ {a} : step'[b] = step[b] /\ left'[b] = left[b]
    BY <1>0, <2>1 DEF TypeOK
  <2>7. step' \in [Alerts -> Steps]
    BY <1>0, <2>1 DEF TypeOK, Steps
  <2> QED BY <1>0, <1>3, <2>1, <2>3, <2>5, <2>6, <2>7 DEF TypeOK
<1>7. CASE CommitAlert(a)
  <2>1. /\ step[a] = "ready" /\ step' = [step EXCEPT ![a] = "done"]
        /\ row' = [row EXCEPT ![RuleOf[a]] = @ \cup {a}]
        /\ UNCHANGED <<list, context, schedule, rowDue, left, first, faults>>
    BY <1>7 DEF CommitAlert, redis
  <2>2. row' \in [Rules -> SUBSET Alerts]
    BY <1>0, <2>1 DEF TypeOK
  <2> QED BY <1>0, <1>3, <2>1, <2>2 DEF TypeOK, Steps
<1>8. CASE FailAlert(a)
  <2>1. /\ step[a] # "idle" /\ step' = [step EXCEPT ![a] = "failed"]
        /\ faults' = faults + 1 /\ faults < MaxFaults
        /\ UNCHANGED <<list, context, schedule, row, rowDue, left, first>>
    BY <1>8 DEF FailAlert, Working, redis, rows
  <2>2. faults' \in 0 .. MaxFaults
    BY <1>0, <2>1, DigestAssumption DEF TypeOK, DigestAssumption
  <2> QED BY <1>0, <1>3, <2>1, <2>2 DEF TypeOK, Steps
<1> QED BY <1>2, <1>4, <1>5, <1>6, <1>7, <1>8 DEF Task

\* The steps of the flusher, of recovery and of time: they take alerts off the
\* lists and must leave each of them somewhere.
LEMMA MoveStep ==
    ASSUME DigestInv, TypeOK', UNCHANGED tasks,
           \A r \in Rules : ToSet(list'[r]) \subseteq ToSet(list[r]),
           flusher' \in Holding => current' \in Rules,
           flusher' \notin Holding \ {"contextRead"} => taken' = <<>>,
           \A a \in Alerts :
              /\ Lost(a) => Lost(a)'
              /\ sent[a] > 0 => sent'[a] > 0
              /\ a \in ToSet(list[RuleOf[a]]) \cup ToSet(taken) =>
                    \/ a \in ToSet(list'[RuleOf[a]]) \cup ToSet(taken')
                    \/ sent'[a] > 0 \/ Lost(a)'
    PROVE  DigestInv'
<1>0. TypeOK /\ DigestShape /\ AlertAccounted /\ UNCHANGED <<step, left>>
  BY DEF DigestInv, tasks
<1>1. DigestShape'
  BY <1>0 DEF DigestShape
<1>2. AlertAccounted'
  <2> SUFFICES ASSUME NEW a \in Alerts PROVE Somewhere(a)'
    BY DEF AlertAccounted, Somewhere
  <2>1. Somewhere(a)
    BY <1>0 DEF AlertAccounted, Somewhere
  <2> QED BY <1>0, <2>1 DEF Somewhere
<1> QED BY <1>1, <1>2 DEF DigestInv

LEMMA FlushStep ==
    ASSUME DigestInv, Flush
    PROVE  DigestInv'
<1>0. TypeOK /\ DigestShape /\ AlertAccounted
  BY DEF DigestInv
<1>a. /\ lost \in [Causes -> SUBSET Alerts] /\ taken \in Seq(Alerts) /\ ToSet(taken) \subseteq Alerts
      /\ \A r \in Rules : list[r] \in Seq(Alerts) /\ ToSet(list[r]) \subseteq Alerts
      /\ \A a \in Alerts : RuleOf[a] \in Rules /\ sent[a] \in Nat
      /\ <<>> \in Seq(Alerts)
  BY <1>0, ToSetIn, DigestAssumption DEF TypeOK, DigestAssumption
<1>b. UNCHANGED tasks
  BY DEF Flush, ReadDue, RemoveDue, ReadContext, EndTick, RangeList, DeleteList, DeleteContext, SendDigest
<1>1. CASE ReadDue \/ RemoveDue \/ EndTick
  <2>1. /\ UNCHANGED <<list, context, row, rowDue, current, taken, sent, lost, cut, faults>>
        /\ flusher \notin Holding /\ flusher' \in Locs \ Holding
        /\ due' \subseteq Rules /\ schedule' \in [Rules -> {"none", "waiting", "due"}]
    BY <1>0, <1>1 DEF ReadDue, RemoveDue, EndTick, redis, rows, ghosts, Holding, Locs, TypeOK
  <2>2. TypeOK'
    BY <1>0, <1>b, <2>1 DEF TypeOK, tasks
  <2> QED BY <1>0, <1>b, <2>1, <2>2, MoveStep DEF DigestShape, Lost
<1>2. ASSUME NEW r \in Rules, ReadContext(r)
      PROVE  DigestInv'
  <2>1. /\ UNCHANGED <<context, schedule, row, rowDue, taken, sent, cut, faults>>
        /\ flusher = "removed" /\ due' = due \ {r}
    BY <1>2 DEF ReadContext, rows
  <2>2. CASE flusher' = "contextRead" /\ current' = r /\ UNCHANGED <<list, lost>>
    <3>1. TypeOK'
      BY <1>0, <1>b, <2>1, <2>2 DEF TypeOK, tasks, Locs
    <3> QED BY <1>0, <1>b, <2>1, <2>2, <3>1, MoveStep DEF DigestShape, Lost, Holding
  <2>3. CASE /\ list' = [list EXCEPT ![r] = <<>>] /\ Lose("noContext", ToSet(list[r]))
             /\ UNCHANGED <<flusher, current>>
    <3>1. /\ lost' \in [Causes -> SUBSET Alerts] /\ \A a : Lost(a) => Lost(a)'
          /\ \A a \in ToSet(list[r]) : Lost(a)'
      BY <1>a, <2>3, LoseFacts DEF Causes
    <3>2. /\ list' \in [Rules -> Seq(Alerts)] /\ list'[r] = <<>>
          /\ \A q \in Rules \ {r} : list'[q] = list[q]
      BY <1>0, <1>a, <2>3 DEF TypeOK
    <3>3. TypeOK'
      BY <1>0, <1>b, <2>1, <2>3, <3>1, <3>2 DEF TypeOK, tasks
    <3>4. \A q \in Rules : ToSet(list'[q]) = IF q = r THEN {} ELSE ToSet(list[q])
      BY <3>2, ToSetEmpty
    <3> QED BY <1>0, <1>a, <1>b, <2>1, <2>3, <3>1, <3>3, <3>4, MoveStep DEF DigestShape
  <2> QED BY <1>2, <2>2, <2>3 DEF ReadContext
<1>3. CASE RangeList
  <2>1. /\ UNCHANGED <<list, context, schedule, row, rowDue, due, current, sent, lost, cut, faults>>
        /\ flusher = "contextRead" /\ flusher' = "ranged" /\ taken' = list[current]
    BY <1>3 DEF RangeList, redis, rows, ghosts
  <2>2. current \in Rules /\ taken = <<>>
    BY <1>0, <2>1 DEF DigestShape, Holding
  <2>3. TypeOK'
    BY <1>0, <1>a, <1>b, <2>1, <2>2 DEF TypeOK, tasks, Locs
  <2> QED BY <1>0, <1>b, <2>1, <2>2, <2>3, ToSetEmpty, MoveStep DEF DigestShape, Lost, Holding
<1>4. CASE DeleteList
  <2>1. /\ UNCHANGED <<context, schedule, row, rowDue, due, current, taken, sent, cut, faults>>
        /\ flusher = "ranged" /\ flusher' = "listDeleted"
        /\ list' = [list EXCEPT ![current] = <<>>]
        /\ Lose("raced", ToSet(list[current]) \ ToSet(taken))
    BY <1>4 DEF DeleteList, rows
  <2>2. current \in Rules
    BY <1>0, <2>1 DEF DigestShape, Holding
  <2>3. /\ lost' \in [Causes -> SUBSET Alerts] /\ \A a : Lost(a) => Lost(a)'
        /\ \A a \in ToSet(list[current]) \ ToSet(taken) : Lost(a)'
    <3>1. ToSet(list[current]) \ ToSet(taken) \in SUBSET Alerts
      BY <1>a, <2>2
    <3> QED BY <1>a, <2>1, <3>1, LoseFacts DEF Causes
  <2>4. /\ list' \in [Rules -> Seq(Alerts)] /\ list'[current] = <<>>
        /\ \A q \in Rules \ {current} : list'[q] = list[q]
    BY <1>0, <1>a, <2>1, <2>2 DEF TypeOK
  <2>5. TypeOK'
    BY <1>0, <1>b, <2>1, <2>3, <2>4 DEF TypeOK, tasks, Locs
  <2>6. \A q \in Rules : ToSet(list'[q]) = IF q = current THEN {} ELSE ToSet(list[q])
    BY <2>4, ToSetEmpty
  <2> QED BY <1>0, <1>a, <1>b, <2>1, <2>2, <2>3, <2>5, <2>6, MoveStep DEF DigestShape, Holding
<1>5. CASE DeleteContext
  <2>1. /\ UNCHANGED <<list, schedule, row, rowDue, due, current, taken, sent, lost, cut, faults>>
        /\ flusher = "listDeleted" /\ flusher' = "contextDeleted"
        /\ context' = [context EXCEPT ![current] = FALSE]
    BY <1>5 DEF DeleteContext, rows, ghosts
  <2>2. context' \in [Rules -> BOOLEAN]
    BY <1>0, <2>1, Zenon DEF TypeOK
  <2>3. TypeOK'
    BY <1>0, <1>b, <2>1, <2>2 DEF TypeOK, tasks, Locs
  <2> QED BY <1>0, <1>b, <2>1, <2>3, MoveStep DEF DigestShape, Lost, Holding
<1>6. CASE SendDigest
  <2>1. /\ UNCHANGED <<list, context, schedule, lost, faults>>
        /\ flusher = "contextDeleted" /\ flusher' \in {"asleep", "removed"}
        /\ sent' = [a \in Alerts |-> sent[a] + Times(a, taken)]
        /\ taken' = <<>> /\ current' = NoRule
        /\ due' \in {{}, due} /\ cut' \in {TRUE, cut}
        /\ row' \in {row, [row EXCEPT ![current] = {}]}
        /\ rowDue' = [rowDue EXCEPT ![current] = @ /\ row'[current] # {}]
    BY <1>6 DEF SendDigest, redis
  <2>2. \A a \in Alerts : /\ sent'[a] \in Nat /\ sent'[a] >= sent[a]
                          /\ a \in ToSet(taken) => sent'[a] > 0
    <3> TAKE a \in Alerts
    <3>1. Times(a, taken) \in Nat /\ (a \in ToSet(taken) => Times(a, taken) > 0)
      BY <1>a, TimesFacts
    <3>2. sent'[a] = sent[a] + Times(a, taken) /\ sent[a] \in Nat
      BY <1>a, <2>1
    <3> QED BY <3>1, <3>2
  <2>3. rowDue' \in [Rules -> BOOLEAN]
    <3>1. PICK b : b = (rowDue[current] /\ row'[current] # {})
      OBVIOUS
    <3>2. b \in BOOLEAN
      BY <1>0, <3>1, Zenon
    <3>3. rowDue' = [rowDue EXCEPT ![current] = b]
      BY <2>1, <3>1
    <3> QED BY <1>0, <3>2, <3>3, Zenon DEF TypeOK
  <2>4. row' \in [Rules -> SUBSET Alerts]
    BY <1>0, <2>1 DEF TypeOK
  <2>5. sent' \in [Alerts -> Nat]
    BY <2>1, <2>2
  <2>6. TypeOK'
    BY <1>0, <1>a, <1>b, <2>1, <2>3, <2>4, <2>5 DEF TypeOK, tasks, Locs
  <2>7. \A a \in Alerts : sent[a] > 0 => sent'[a] > 0
    BY <1>a, <2>2
  <2> QED BY <1>0, <1>a, <1>b, <2>1, <2>2, <2>6, <2>7, MoveStep DEF DigestShape, Lost, Holding
<1> QED BY <1>1, <1>2, <1>3, <1>4, <1>5, <1>6 DEF Flush

LEMMA OtherStep ==
    ASSUME DigestInv, Recover \/ Crash \/ LoseRedis \/ \E r \in Rules : Elapse(r)
    PROVE  DigestInv'
<1>0. TypeOK /\ DigestShape /\ AlertAccounted
  BY DEF DigestInv
<1>a. /\ lost \in [Causes -> SUBSET Alerts] /\ taken \in Seq(Alerts) /\ ToSet(taken) \subseteq Alerts
      /\ \A r \in Rules : list[r] \in Seq(Alerts) /\ ToSet(list[r]) \subseteq Alerts
      /\ \A a \in Alerts : RuleOf[a] \in Rules /\ sent[a] \in Nat
      /\ <<>> \in Seq(Alerts) /\ MaxFaults \in Nat
  BY <1>0, ToSetIn, DigestAssumption DEF TypeOK, DigestAssumption
<1>b. UNCHANGED tasks
  BY DEF Recover, EndRecovery, Restart, RecoverRow, Crash, LoseRedis, Elapse, BucketEnds, RowBucketEnds, Expire
<1>1. ASSUME NEW r \in Rules, RecoverRow(r)
      PROVE  DigestInv'
  <2>1. /\ UNCHANGED <<list, schedule, flusher, due, current, taken, sent, cut, faults>>
        /\ row' = [row EXCEPT ![r] = {}] /\ rowDue' = [rowDue EXCEPT ![r] = FALSE]
        /\ \/ UNCHANGED <<context, lost>>
           \/ /\ context' = [context EXCEPT ![r] = FALSE]
              /\ Lose("recovery", {a \in row[r] : sent[a] = 0})
    BY <1>1 DEF RecoverRow, flush
  <2>2. lost' \in [Causes -> SUBSET Alerts] /\ \A a : Lost(a) => Lost(a)'
    <3>1. CASE UNCHANGED lost
      BY <1>a, <3>1 DEF Lost
    <3>2. CASE Lose("recovery", {a \in row[r] : sent[a] = 0})
      <4>1. {a \in row[r] : sent[a] = 0} \in SUBSET Alerts
        BY <1>0 DEF TypeOK
      <4> QED BY <1>a, <3>2, <4>1, LoseFacts DEF Causes
    <3> QED BY <2>1, <3>1, <3>2
  <2>3. context' \in [Rules -> BOOLEAN] /\ rowDue' \in [Rules -> BOOLEAN]
    <3>1. [context EXCEPT ![r] = FALSE] \in [Rules -> BOOLEAN]
      BY <1>0, Zenon DEF TypeOK
    <3>2. [rowDue EXCEPT ![r] = FALSE] \in [Rules -> BOOLEAN]
      BY <1>0, Zenon DEF TypeOK
    <3> QED BY <1>0, <2>1, <3>1, <3>2 DEF TypeOK
  <2>4. TypeOK'
    BY <1>0, <1>b, <2>1, <2>2, <2>3 DEF TypeOK, tasks
  <2> QED BY <1>0, <1>b, <2>1, <2>2, <2>4, MoveStep DEF DigestShape
<1>2. CASE EndRecovery \/ Restart
  <2>1. /\ UNCHANGED <<list, context, schedule, row, rowDue, due, current, taken, sent, lost, cut, faults>>
        /\ flusher \notin Holding /\ flusher' \in Locs \ Holding
    BY <1>2 DEF EndRecovery, Restart, redis, rows, ghosts, Holding, Locs
  <2>2. TypeOK'
    BY <1>0, <1>b, <2>1 DEF TypeOK, tasks
  <2> QED BY <1>0, <1>b, <2>1, <2>2, MoveStep DEF DigestShape, Lost
<1>3. CASE Crash
  <2> DEFINE S == ToSet(taken) \ UNION {ToSet(list[r]) : r \in Rules}
  <2>1. /\ UNCHANGED <<list, context, schedule, row, rowDue, sent, cut>>
        /\ faults < MaxFaults /\ faults' = faults + 1
        /\ flusher' = "down" /\ due' = {} /\ current' = NoRule /\ taken' = <<>>
        /\ Lose("crashed", S)
    BY <1>3 DEF Crash, redis, rows
  <2>2. S \in SUBSET Alerts
    BY <1>a
  <2>3. /\ lost' \in [Causes -> SUBSET Alerts] /\ \A a : Lost(a) => Lost(a)'
        /\ \A a \in S : Lost(a)'
    BY <1>a, <2>1, <2>2, LoseFacts DEF Causes
  <2>4. faults' \in 0 .. MaxFaults
    BY <1>0, <1>a, <2>1 DEF TypeOK
  <2>5. TypeOK'
    BY <1>0, <1>a, <1>b, <2>1, <2>3, <2>4 DEF TypeOK, tasks, Locs
  <2>6. \A a \in ToSet(taken) : a \in ToSet(list[RuleOf[a]]) \/ Lost(a)'
    BY <1>0, <1>a, <2>3 DEF DigestShape
  <2> HIDE DEF S
  <2> QED BY <1>0, <1>b, <2>1, <2>3, <2>5, <2>6, MoveStep DEF Holding
<1>4. CASE LoseRedis
  <2> DEFINE S == UNION {ToSet(list[r]) \ ToSet(taken) : r \in Rules}
  <2>1. /\ UNCHANGED <<row, rowDue, flusher, due, current, taken, sent, cut>>
        /\ faults < MaxFaults /\ faults' = faults + 1
        /\ list' = [r \in Rules |-> <<>>] /\ context' = [r \in Rules |-> FALSE]
        /\ schedule' = [r \in Rules |-> "none"]
        /\ Lose("redisLost", S)
    BY <1>4 DEF LoseRedis, rows, flush
  <2>2. S \in SUBSET Alerts
    BY <1>a
  <2>3. /\ lost' \in [Causes -> SUBSET Alerts] /\ \A a : Lost(a) => Lost(a)'
        /\ \A a \in S : Lost(a)'
    BY <1>a, <2>1, <2>2, LoseFacts DEF Causes
  <2>4. faults' \in 0 .. MaxFaults
    BY <1>0, <1>a, <2>1 DEF TypeOK
  <2>5. list' \in [Rules -> Seq(Alerts)] /\ context' \in [Rules -> BOOLEAN]
    BY <1>a, <2>1
  <2>6. TypeOK'
    BY <1>0, <1>b, <2>1, <2>3, <2>4, <2>5 DEF TypeOK, tasks
  <2>7. \A a \in Alerts : a \in ToSet(list[RuleOf[a]]) => a \in ToSet(taken) \/ Lost(a)'
    BY <1>a, <2>3
  <2>8. \A r \in Rules : ToSet(list'[r]) = {}
    BY <2>1, ToSetEmpty
  <2> HIDE DEF S
  <2> QED BY <1>0, <1>b, <2>1, <2>3, <2>6, <2>7, <2>8, MoveStep DEF DigestShape
<1>5. ASSUME NEW r \in Rules, BucketEnds(r) \/ RowBucketEnds(r)
      PROVE  DigestInv'
  <2>1. /\ UNCHANGED <<list, context, row, flusher, due, current, taken, sent, lost, cut, faults>>
        /\ schedule' \in {schedule, [schedule EXCEPT ![r] = "due"]}
        /\ rowDue' \in {rowDue, [rowDue EXCEPT ![r] = TRUE]}
    BY <1>5 DEF BucketEnds, RowBucketEnds, redis, rows, flush, ghosts
  <2>2. [rowDue EXCEPT ![r] = TRUE] \in [Rules -> BOOLEAN] /\ rowDue \in [Rules -> BOOLEAN]
    BY <1>0, Zenon DEF TypeOK
  <2>3. schedule' \in [Rules -> {"none", "waiting", "due"}]
    BY <1>0, <2>1 DEF TypeOK
  <2>4. TypeOK'
    BY <1>0, <1>b, <2>1, <2>2, <2>3 DEF TypeOK, tasks
  <2> QED BY <1>0, <1>b, <2>1, <2>4, MoveStep DEF DigestShape, Lost
<1>6. ASSUME NEW r \in Rules, Expire(r)
      PROVE  DigestInv'
  <2>1. /\ UNCHANGED <<schedule, row, rowDue, flusher, due, current, taken, sent, cut, faults>>
        /\ list' = [list EXCEPT ![r] = <<>>] /\ context' = [context EXCEPT ![r] = FALSE]
        /\ Lose("expired", ToSet(list[r]))
    BY <1>6 DEF Expire, rows, flush
  <2>2. /\ lost' \in [Causes -> SUBSET Alerts] /\ \A a : Lost(a) => Lost(a)'
        /\ \A a \in ToSet(list[r]) : Lost(a)'
    BY <1>a, <2>1, LoseFacts DEF Causes
  <2>3. /\ list' \in [Rules -> Seq(Alerts)] /\ list'[r] = <<>>
        /\ \A q \in Rules \ {r} : list'[q] = list[q]
    BY <1>0, <1>a, <2>1 DEF TypeOK
  <2>4. context' \in [Rules -> BOOLEAN]
    BY <1>0, <2>1, Zenon DEF TypeOK
  <2>5. TypeOK'
    BY <1>0, <1>b, <2>1, <2>2, <2>3, <2>4 DEF TypeOK, tasks
  <2>6. \A q \in Rules : ToSet(list'[q]) = IF q = r THEN {} ELSE ToSet(list[q])
    BY <2>3, ToSetEmpty
  <2> QED BY <1>0, <1>a, <1>b, <2>1, <2>2, <2>5, <2>6, MoveStep DEF DigestShape
<1> QED BY <1>1, <1>2, <1>3, <1>4, <1>5, <1>6 DEF Recover, Elapse

-----------------------------------------------------------------------------
\* The inductive invariant, kept by every Redis command and every transaction of
\* the tasks, the flusher and recovery.
THEOREM DigestInvariant == Spec => []DigestInv
<1>1. DigestInv /\ [Next]_vars => DigestInv'
  <2> SUFFICES ASSUME DigestInv, [Next]_vars PROVE DigestInv'
    OBVIOUS
  <2>1. CASE UNCHANGED vars
    BY <2>1 DEF vars, DigestInv, TypeOK, DigestShape, AlertAccounted, Lost
  <2> QED BY <2>1, TaskStep, FlushStep, OtherStep DEF Next
<1> QED BY <1>1, InitDigest, PTL DEF Spec

\* The keys in Redis, the rows and the tasks' counters keep their types.
THEOREM DigestTypes == Spec => []TypeOK
<1>1. DigestInv => TypeOK
  BY DEF DigestInv
<1> QED BY <1>1, DigestInvariant, PTL

\* Between any two Redis commands of any tasks, across crashes, expiries, failed
\* transactions and losses of Redis, an alert that was pushed is in its list, in
\* the flusher's hands, sent, or lost for a named cause (alert.py).
THEOREM EveryAlertAccounted == Spec => []AlertAccounted
<1>1. DigestInv => AlertAccounted
  BY DEF DigestInv
<1> QED BY <1>1, DigestInvariant, PTL
-----------------------------------------------------------------------------
(* At most one digest line per LPUSH                                        *)

\* Pushing an alert adds one occurrence of it, and none of another.
LEMMA TimesPush ==
    ASSUME NEW S, NEW s \in Seq(S), NEW a \in S, NEW b \in S
    PROVE  Times(b, <<a>> \o s) = IF a = b THEN Times(b, s) + 1 ELSE Times(b, s)
<1> DEFINE t == <<a>> \o s
           I == {i \in 1 .. Len(s) : s[i] = b}
           J == {i + 1 : i \in I}
           f == [i \in I |-> i + 1]
<1>1. /\ Len(t) = Len(s) + 1 /\ t[1] = a /\ DOMAIN t = 1 .. Len(s) + 1
      /\ \A i \in 1 .. Len(s) : t[i + 1] = s[i]
      /\ Len(s) \in Nat
  OBVIOUS
<1> HIDE DEF t
<1>2. IsFiniteSet(I)
  <2>1. IsFiniteSet(1 .. Len(s))
    BY <1>1, FS_Interval
  <2> QED BY <2>1, FS_Subset
<1>3. IsFiniteSet(J) /\ Cardinality(J) = Cardinality(I)
  <2>1. f \in [I -> J]
    OBVIOUS
  <2>2. \A i, j \in I : f[i] = f[j] => i = j
    OBVIOUS
  <2>3. \A j \in J : \E i \in I : f[i] = j
    OBVIOUS
  <2> HIDE DEF f, I, J
  <2>4. f \in Bijection(I, J)
    BY <2>1, <2>2, <2>3 DEF Bijection, Injection, Surjection, IsInjective
  <2> QED BY <1>2, <2>4, FS_Bijection DEF ExistsBijection
<1>4. {i \in DOMAIN t : t[i] = b} = IF a = b THEN J \cup {1} ELSE J
  <2>1. \A i \in DOMAIN t : \/ i = 1
                            \/ i - 1 \in 1 .. Len(s) /\ t[i] = s[i - 1] /\ i = (i - 1) + 1
    <3> TAKE i \in DOMAIN t
    <3>1. i \in Nat /\ i >= 1 /\ i <= Len(s) + 1
      BY <1>1
    <3>2. CASE i # 1
      <4>1. i - 1 \in 1 .. Len(s) /\ (i - 1) + 1 = i
        BY <1>1, <3>1, <3>2
      <4> QED BY <1>1, <4>1
    <3>3. CASE i = 1
      BY <3>3
    <3> QED BY <3>2, <3>3
  <2>2. \A i \in DOMAIN t : t[i] = b => i \in J \/ (i = 1 /\ a = b)
    BY <1>1, <2>1
  <2>3. \A j \in J : j \in DOMAIN t /\ t[j] = b /\ j # 1
    BY <1>1
  <2>4. 1 \in DOMAIN t
    BY <1>1
  <2> HIDE DEF J
  <2> QED BY <1>1, <2>2, <2>3, <2>4
<1>5. 1 \notin J
  OBVIOUS
<1> HIDE DEF J
<1>6. Cardinality(J \cup {1}) = Cardinality(J) + 1
  BY <1>3, <1>5, FS_AddElement
<1>7. Times(b, s) = Cardinality(I)
  <2>1. DOMAIN s = 1 .. Len(s)
    OBVIOUS
  <2> QED BY <2>1 DEF Times
<1> HIDE DEF I
<1>8. Times(b, t) = IF a = b THEN Cardinality(I) + 1 ELSE Cardinality(I)
  BY <1>3, <1>4, <1>6 DEF Times
<1> QED BY <1>7, <1>8 DEF t

\* How often the task of an alert has pushed it, a failed task at most once per
\* channel.
Pushed(a) ==
    IF step[a] = "failed" THEN Channels
    ELSE IF step[a] \in {"pushed", "contextSet", "scheduled"} THEN Channels - left[a] + 1
    ELSE Channels - left[a]
Listed(a) == Times(a, list[RuleOf[a]])
Held(a) == Times(a, taken)

\* Between LRANGE and DELETE the flusher's copies are still in the list: they
\* count once.
OnceInv ==
    /\ flusher = "ranged" => \A a \in ToSet(taken) : RuleOf[a] = current
    /\ \A a \in Alerts :
          /\ sent[a] + Held(a) <= Pushed(a)
          /\ sent[a] + Listed(a) <= Pushed(a)
          /\ flusher # "ranged" => sent[a] + Listed(a) + Held(a) <= Pushed(a)

LEMMA TimesEmpty == \A a : Times(a, <<>>) = 0
<1> TAKE a
<1>1. {i \in DOMAIN <<>> : <<>>[i] = a} = {}
  OBVIOUS
<1> QED BY <1>1, FS_EmptySet DEF Times

LEMMA CountTypes ==
    ASSUME TypeOK, DigestShape, NEW a \in Alerts
    PROVE  /\ Listed(a) \in Nat /\ Held(a) \in Nat /\ sent[a] \in Nat
           /\ Pushed(a) \in Int /\ Pushed(a) <= Channels
<1>1. list[RuleOf[a]] \in Seq(Alerts) /\ taken \in Seq(Alerts) /\ sent[a] \in Nat
  BY DigestAssumption DEF TypeOK, DigestAssumption
<1>2. Listed(a) \in Nat /\ Held(a) \in Nat
  BY <1>1, TimesFacts DEF Listed, Held
<1>3. left[a] \in 0 .. Channels /\ Channels \in Nat
  BY DigestAssumption DEF TypeOK, DigestAssumption
<1>4. Pushed(a) \in Int /\ Pushed(a) <= Channels
  BY <1>3 DEF Pushed, DigestShape
<1> QED BY <1>1, <1>2, <1>4

\* The same after a step.
LEMMA CountTypesNext ==
    ASSUME TypeOK', NEW a \in Alerts
    PROVE  Listed(a)' \in Nat /\ Pushed(a)' \in Int
<1>1. list'[RuleOf[a]] \in Seq(Alerts)
  BY DigestAssumption DEF TypeOK, DigestAssumption
<1>2. Listed(a)' \in Nat
  BY <1>1, TimesFacts DEF Listed
<1>3. left'[a] \in 0 .. Channels /\ Channels \in Nat
  BY DigestAssumption DEF TypeOK, DigestAssumption
<1> QED BY <1>2, <1>3 DEF Pushed

LEMMA OnceInit == Init => OnceInv
<1> SUFFICES ASSUME Init PROVE OnceInv
  OBVIOUS
<1>1. \A a \in Alerts : Listed(a) = 0 /\ Held(a) = 0 /\ sent[a] = 0 /\ Pushed(a) = 0
  BY TimesEmpty, DigestAssumption DEF Init, Listed, Held, Pushed, DigestAssumption
<1> QED BY <1>1 DEF OnceInv, Init

\* A task pushes one alert once more, and counts it.
LEMMA OnceTask ==
    ASSUME DigestInv, DigestInv', OnceInv, NEW a \in Alerts, Task(a) \/ FailAlert(a)
    PROVE  OnceInv'
<1>0. TypeOK /\ DigestShape /\ TypeOK' /\ DigestShape'
  BY DEF DigestInv
<1>1. UNCHANGED <<flusher, current, taken, sent>>
  BY DEF Task, FailAlert, Push, SetContext, Schedule, Upsert, CommitAlert, flush, ghosts
<1>2. left[a] \in 0 .. Channels /\ Channels \in Nat /\ RuleOf[a] \in Rules
  BY <1>0, DigestAssumption DEF TypeOK, DigestAssumption
<1>3. \A b \in Alerts : Held(b)' = Held(b)
  BY <1>1 DEF Held
<1> SUFFICES ASSUME NEW b \in Alerts
             PROVE  Listed(b)' - Listed(b) <= Pushed(b)' - Pushed(b) /\ Pushed(b)' >= Pushed(b)
  <2>1. \A b \in Alerts : /\ Listed(b)' - Listed(b) <= Pushed(b)' - Pushed(b)
                          /\ Pushed(b)' >= Pushed(b)
                          /\ Listed(b) \in Nat /\ Held(b) \in Nat /\ sent[b] \in Nat
                          /\ Pushed(b) \in Int /\ Listed(b)' \in Nat /\ Pushed(b)' \in Int
    BY <1>0, CountTypes, CountTypesNext
  <2> QED BY <1>1, <1>3, <2>1 DEF OnceInv
<1>4. /\ Listed(b) \in Nat /\ Listed(b)' \in Nat /\ Pushed(b) \in Int /\ Pushed(b)' \in Int
  BY <1>0, CountTypes, CountTypesNext
<1>5. CASE Push(a)
  <2>1. PICK r \in Rules : r = RuleOf[a]
    BY <1>2
  <2>2. /\ step[a] \in {"idle", "again"} /\ step' = [step EXCEPT ![a] = "pushed"]
        /\ list' = [list EXCEPT ![r] = <<a>> \o @] /\ left' = left
    BY <1>5, <2>1 DEF Push
  <2>3. Pushed(b)' = IF a = b THEN Pushed(b) + 1 ELSE Pushed(b)
    BY <1>0, <1>2, <2>2 DEF Pushed, TypeOK
  <2>4. list'[RuleOf[b]] = IF RuleOf[b] = r THEN <<a>> \o list[RuleOf[b]] ELSE list[RuleOf[b]]
    BY <1>0, <2>2, DigestAssumption DEF TypeOK, DigestAssumption
  <2>5. list[RuleOf[b]] \in Seq(Alerts)
    BY <1>0, DigestAssumption DEF TypeOK, DigestAssumption
  <2>6. a = b => RuleOf[b] = r
    BY <2>1
  <2>7. Listed(b)' = IF a = b THEN Listed(b) + 1 ELSE Listed(b)
    BY <2>4, <2>5, <2>6, TimesPush DEF Listed
  <2> QED BY <1>4, <2>3, <2>7
<1>6. CASE ~ Push(a)
  <2>1. UNCHANGED list
    BY <1>6 DEF Task, FailAlert, SetContext, Schedule, Upsert, CommitAlert, redis
  <2>2. Pushed(b)' >= Pushed(b)
    <3>1. CASE SetContext(a) \/ Schedule(a)
      <4>1. /\ step[a] \in {"pushed", "contextSet"} /\ left' = left
            /\ step' \in {[step EXCEPT ![a] = "contextSet"], [step EXCEPT ![a] = "scheduled"]}
        BY <3>1 DEF SetContext, Schedule
      <4>2. step \in [Alerts -> Steps]
        BY <1>0 DEF TypeOK
      <4>3. Pushed(b)' = Pushed(b)
        BY <4>1, <4>2 DEF Pushed
      <4> QED BY <1>4, <4>3
    <3>2. CASE Upsert(a)
      BY <1>0, <1>2, <1>4, <3>2, SMTT(30) DEF Upsert, Pushed, TypeOK
    <3>3. CASE CommitAlert(a)
      <4>1. step[a] = "ready" /\ left' = left /\ step' = [step EXCEPT ![a] = "done"]
        BY <3>3 DEF CommitAlert
      <4>2. step \in [Alerts -> Steps]
        BY <1>0 DEF TypeOK
      <4>3. Pushed(b)' = Pushed(b)
        BY <4>1, <4>2 DEF Pushed
      <4> QED BY <1>4, <4>3
    <3>4. CASE FailAlert(a)
      <4>1. Pushed(b) <= Channels
        BY <1>0, CountTypes
      <4> QED BY <1>0, <1>2, <1>4, <3>4, <4>1 DEF FailAlert, Pushed, TypeOK
    <3> QED BY <1>6, <3>1, <3>2, <3>3, <3>4 DEF Task
  <2>3. Listed(b)' = Listed(b)
    BY <2>1 DEF Listed
  <2> QED BY <1>4, <2>2, <2>3
<1> QED BY <1>5, <1>6

\* Whatever only empties lists, or drops what the flusher holds, sends nothing.
LEMMA OnceShrink ==
    ASSUME DigestInv, DigestInv', OnceInv, UNCHANGED <<step, left, sent>>,
           \A r \in Rules : list'[r] \in {list[r], <<>>},
           \/ taken' = taken /\ current' = current /\ flusher' = flusher
           \/ taken' = taken /\ flusher # "ranged" /\ flusher' # "ranged"
           \/ taken' = <<>>
    PROVE  OnceInv'
<1>0. TypeOK /\ DigestShape /\ TypeOK' /\ DigestShape'
  BY DEF DigestInv
<1>1. \A a \in Alerts : /\ Listed(a) \in Nat /\ Held(a) \in Nat /\ sent[a] \in Nat
                        /\ Pushed(a) \in Int /\ Pushed(a)' = Pushed(a)
  BY <1>0, CountTypes DEF Pushed
<1>2. \A a \in Alerts : Listed(a)' \in {Listed(a), 0}
  BY TimesEmpty, DigestAssumption DEF Listed, DigestAssumption
<1>3. CASE taken' = <<>>
  <2>1. \A a \in Alerts : Held(a)' = 0
    BY <1>3, TimesEmpty DEF Held
  <2> QED BY <1>1, <1>2, <1>3, <2>1, ToSetEmpty DEF OnceInv
<1>4. CASE taken' = taken /\ current' = current /\ flusher' = flusher
  <2>1. \A a \in Alerts : Held(a)' = Held(a)
    BY <1>4 DEF Held
  <2> QED BY <1>1, <1>2, <1>4, <2>1 DEF OnceInv
<1>5. CASE taken' = taken /\ flusher # "ranged" /\ flusher' # "ranged"
  <2>1. \A a \in Alerts : Held(a)' = Held(a)
    BY <1>5 DEF Held
  <2> QED BY <1>1, <1>2, <1>5, <2>1 DEF OnceInv
<1> QED BY <1>3, <1>4, <1>5

\* LRANGE copies the list, DELETE empties it, the message sends the copy.
LEMMA OnceFlush ==
    ASSUME DigestInv, DigestInv', OnceInv, RangeList \/ DeleteList \/ SendDigest
    PROVE  OnceInv'
<1>0. TypeOK /\ DigestShape /\ TypeOK' /\ DigestShape'
  BY DEF DigestInv
<1>1. /\ UNCHANGED <<step, left>>
      /\ \A a \in Alerts : /\ Listed(a) \in Nat /\ Held(a) \in Nat /\ sent[a] \in Nat
                           /\ Pushed(a) \in Int /\ Pushed(a)' = Pushed(a)
  <2>1. UNCHANGED <<step, left>>
    BY DEF RangeList, DeleteList, SendDigest, tasks
  <2> QED BY <1>0, <2>1, CountTypes DEF Pushed
<1>2. CASE RangeList
  <2>1. /\ UNCHANGED <<list, current, sent>> /\ flusher = "contextRead" /\ flusher' = "ranged"
        /\ taken' = list[current] /\ current \in Rules /\ taken = <<>>
    BY <1>0, <1>2 DEF RangeList, redis, ghosts, DigestShape, Holding
  <2>2. \A a \in ToSet(taken') : RuleOf[a] = current
    BY <1>0, <2>1 DEF DigestShape
  <2>3. \A a \in Alerts : Listed(a)' = Listed(a)
    BY <2>1 DEF Listed
  <2>4. \A a \in Alerts : Held(a)' \in {Listed(a), 0}
    <3> TAKE a \in Alerts
    <3>1. CASE RuleOf[a] = current
      BY <2>1, <3>1 DEF Held, Listed
    <3>2. CASE RuleOf[a] # current
      <4>1. a \notin ToSet(list[current]) /\ list[current] \in Seq(Alerts)
        BY <1>0, <2>1, <2>2, <3>2 DEF TypeOK
      <4> QED BY <2>1, <4>1, TimesFacts DEF Held
    <3> QED BY <3>1, <3>2
  <2>5. \A a \in Alerts : sent[a] + Listed(a) <= Pushed(a) /\ sent[a] <= Pushed(a)
    BY <1>1 DEF OnceInv
  <2> QED BY <1>1, <2>1, <2>2, <2>3, <2>4, <2>5 DEF OnceInv
<1>3. CASE DeleteList
  <2>1. /\ UNCHANGED <<current, taken, sent>> /\ flusher = "ranged" /\ flusher' = "listDeleted"
        /\ list' = [list EXCEPT ![current] = <<>>] /\ current \in Rules
    BY <1>0, <1>3 DEF DeleteList, DigestShape, Holding
  <2>2. \A a \in Alerts : Held(a)' = Held(a)
    BY <2>1 DEF Held
  <2>3. \A a \in Alerts : IF RuleOf[a] = current THEN Listed(a)' = 0
                          ELSE Listed(a)' = Listed(a) /\ Held(a) = 0
    <3> TAKE a \in Alerts
    <3>1. CASE RuleOf[a] = current
      <4>1. list'[RuleOf[a]] = <<>>
        BY <1>0, <2>1, <3>1 DEF TypeOK
      <4> QED BY <3>1, <4>1, TimesEmpty DEF Listed
    <3>2. CASE RuleOf[a] # current
      <4>1. list'[RuleOf[a]] = list[RuleOf[a]]
        BY <1>0, <2>1, <3>2, DigestAssumption DEF TypeOK, DigestAssumption
      <4>2. a \notin ToSet(taken) /\ taken \in Seq(Alerts)
        BY <1>0, <2>1, <3>2 DEF OnceInv, TypeOK
      <4> QED BY <3>2, <4>1, <4>2, TimesFacts DEF Listed, Held
    <3> QED BY <3>1, <3>2
  <2> QED BY <1>1, <2>1, <2>2, <2>3 DEF OnceInv
<1>4. CASE SendDigest
  <2>1. /\ UNCHANGED list /\ flusher = "contextDeleted" /\ flusher' # "ranged" /\ taken' = <<>>
        /\ sent' = [a \in Alerts |-> sent[a] + Times(a, taken)]
    BY <1>4 DEF SendDigest, redis
  <2>2. \A a \in Alerts : Listed(a)' = Listed(a) /\ Held(a)' = 0 /\ sent'[a] = sent[a] + Held(a)
    BY <2>1, TimesEmpty DEF Listed, Held
  <2> QED BY <1>1, <2>1, <2>2 DEF OnceInv
<1> QED BY <1>2, <1>3, <1>4

LEMMA OnceNext == DigestInv /\ DigestInv' /\ OnceInv /\ [Next]_vars => OnceInv'
<1> SUFFICES ASSUME DigestInv, DigestInv', OnceInv, [Next]_vars PROVE OnceInv'
  OBVIOUS
<1>0. TypeOK /\ DigestShape
  BY DEF DigestInv
<1>1. CASE UNCHANGED vars
  BY <1>1, OnceShrink DEF vars
<1>2. ASSUME NEW r \in Rules, ReadContext(r) \/ RecoverRow(r) \/ Elapse(r)
      PROVE  OnceInv'
  <2>1. /\ UNCHANGED <<step, left, sent, taken>>
        /\ \/ flusher' = flusher /\ current' = current
           \/ flusher = "removed" /\ flusher' = "contextRead"
    BY <1>2 DEF ReadContext, RecoverRow, Elapse, BucketEnds, RowBucketEnds, Expire, tasks, flush, ghosts
  <2>2. list' = list \/ list' = [list EXCEPT ![r] = <<>>]
    BY <1>2 DEF ReadContext, RecoverRow, Elapse, BucketEnds, RowBucketEnds, Expire, redis
  <2>3. \A q \in Rules : list'[q] \in {list[q], <<>>}
    BY <1>0, <2>2 DEF TypeOK
  <2> QED BY <2>1, <2>3, OnceShrink
<1>3. CASE ReadDue \/ RemoveDue \/ EndTick \/ DeleteContext \/ EndRecovery \/ Restart
  <2>1. UNCHANGED <<step, left, sent, taken, list>> /\ flusher # "ranged" /\ flusher' # "ranged"
    BY <1>3 DEF ReadDue, RemoveDue, EndTick, DeleteContext, EndRecovery, Restart,
                redis, tasks, ghosts
  <2> QED BY <2>1, OnceShrink
<1>4. CASE Crash
  BY <1>4, OnceShrink DEF Crash, redis, tasks
<1>5. CASE LoseRedis
  BY <1>5, OnceShrink DEF LoseRedis, tasks, flush
<1> QED BY <1>1, <1>2, <1>3, <1>4, <1>5, OnceTask, OnceFlush DEF Next, Flush, Recover

\* With one flusher an alert gets at most one digest line per channel of its
\* rule, whatever crashes, is pushed, expires or fails between the commands of
\* flush_pending_digests and of maybe_digest_or_dispatch (alert.py).
THEOREM NoAlertDigestedTwice == Spec => []DigestedOnce
<1>1. DigestInv /\ OnceInv => DigestedOnce
  <2> SUFFICES ASSUME DigestInv, OnceInv, NEW a \in Alerts
               PROVE  sent[a] + Listed(a) + (IF flusher = "ranged" THEN 0 ELSE Held(a)) <= Channels
    BY DEF DigestedOnce, Listed, Held
  <2>1. /\ Listed(a) \in Nat /\ Held(a) \in Nat /\ sent[a] \in Nat
        /\ Pushed(a) \in Int /\ Pushed(a) <= Channels
    BY CountTypes DEF DigestInv
  <2>2. Channels \in Nat
    BY DigestAssumption DEF DigestAssumption
  <2> QED BY <2>1, <2>2 DEF OnceInv
<1> QED BY <1>1, DigestInvariant, OnceInit, OnceNext, PTL DEF Spec
=============================================================================
