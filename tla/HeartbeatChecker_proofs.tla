----------------------- MODULE HeartbeatChecker_proofs -----------------------
(***************************************************************************)
(* Proofs of the types and that overlapping ticks page an outage once, for *)
(* any number of jobs, of replicas and of rows in a batch.                 *)
(***************************************************************************)
EXTENDS HeartbeatChecker, TLAPS, FiniteSetTheorems

Doing(c, j, s) == step[c] = s /\ Job(c) = j

\* The variables are functions.
Shape ==
    /\ step \in [Checkers -> Steps]
    /\ todo = [c \in Checkers |-> todo[c]]
    /\ unanswered \in [Jobs -> Nat]
    /\ errors \in Nat

\* What the unique index and the row locks say of the transactions under way.
Locks ==
    \A c \in Checkers, j \in Jobs :
        /\ Doing(c, j, "opening") =>
              j \notin open /\ \A d \in Checkers : Doing(d, j, "opening") => d = c
        /\ Doing(c, j, "update") => j \in open
        /\ Doing(c, j, "resolving") =>
              j \in open /\ \A d \in Checkers : Doing(d, j, "resolving") => d = c

\* A failure leaves one page without an answer at most.  Beyond those, a page that is
\* not answered belongs to an incident that is open or about to be, and a resolution
\* about to commit has been heard.
Answered ==
    \A j \in Jobs :
        /\ unanswered[j] <= errors + 1
        /\ unanswered[j] > errors => j \in open \/ \E c \in Checkers : Doing(c, j, "opening")
        /\ \A c \in Checkers : Doing(c, j, "resolving") => unanswered[j] = 0

PageInv == Shape /\ Locks /\ Answered

LEMMA InitInv == Init => PageInv
BY DEF Init, PageInv, Shape, Locks, Answered, Doing, Steps

LEMMA StepInv == PageInv /\ [Next]_vars => PageInv'
<1> SUFFICES ASSUME PageInv, [Next]_vars PROVE PageInv'
  OBVIOUS
<1> USE DEF Doing, Job
<1>0. Shape /\ Locks /\ Answered
  BY DEF PageInv
<1>1. ASSUME UNCHANGED <<open, unanswered, todo, step, errors>>
      PROVE  PageInv'
  BY <1>0, <1>1 DEF PageInv, Shape, Locks, Answered
<1>2. ASSUME NEW j \in Jobs, Ping(j) \/ FallDue(j)
      PROVE  PageInv'
  BY <1>1, <1>2 DEF Ping, FallDue
\* Steps into, or out of, places where no transaction is under way.
<1>3. ASSUME NEW c \in Checkers, step'[c] \in {"idle", "look", "insert"},
             \/ step[c] \in {"idle", "look", "insert"} /\ errors' = errors
             \/ errors' = errors + 1,
             \A d \in Checkers \ {c} : step'[d] = step[d] /\ todo'[d] = todo[d],
             Shape', UNCHANGED <<open, unanswered>>
      PROVE  PageInv'
  <2>1. Locks'
    BY <1>0, <1>3 DEF Locks
  <2>2. Answered'
    BY <1>0, <1>3 DEF Answered, Shape
  <2> QED BY <1>3, <2>1, <2>2 DEF PageInv
<1>4. ASSUME NEW c \in Checkers, StartTick(c)
      PROVE  PageInv'
  <2>1. PICK batch : todo' = [todo EXCEPT ![c] = batch]
    BY <1>4 DEF StartTick
  <2>2. /\ step[c] = "idle" /\ step' = [step EXCEPT ![c] = "look"]
        /\ UNCHANGED <<open, unanswered, errors>>
    BY <1>4 DEF StartTick, Goto, database
  <2>3. Shape'
    BY <1>0, <2>1, <2>2 DEF Shape, Steps
  <2>4. /\ step'[c] = "look"
        /\ \A d \in Checkers \ {c} : step'[d] = step[d] /\ todo'[d] = todo[d]
    BY <1>0, <2>1, <2>2 DEF Shape
  <2> QED BY <1>3, <2>2, <2>3, <2>4
<1>5. ASSUME NEW c \in Checkers, Look(c)
      PROVE  PageInv'
  <2>1. /\ step[c] = "look" /\ UNCHANGED <<open, unanswered, errors>>
        /\ \/ /\ UNCHANGED todo
              /\ \/ step' = [step EXCEPT ![c] = "insert"]
                 \/ step' = [step EXCEPT ![c] = "update"] /\ Job(c) \in open
           \/ /\ todo' = [todo EXCEPT ![c] = Tail(@)]
              /\ \E s \in {"idle", "look"} : step' = [step EXCEPT ![c] = s]
    BY <1>5 DEF Look, Goto, AfterJob, database
  <2>2. Shape'
    BY <1>0, <2>1 DEF Shape, Steps
  <2>3. \A d \in Checkers \ {c} : step'[d] = step[d] /\ todo'[d] = todo[d]
    BY <1>0, <2>1 DEF Shape
  <2>4. CASE step'[c] = "update"
    <3>1. UNCHANGED todo /\ Job(c) \in open
      BY <1>0, <2>1, <2>4 DEF Shape
    <3>2. Locks' /\ Answered'
      BY <1>0, <2>1, <2>3, <2>4, <3>1 DEF Locks, Answered
    <3> QED BY <2>2, <3>2 DEF PageInv
  <2>5. CASE step'[c] # "update"
    <3>1. step'[c] \in {"idle", "look", "insert"}
      BY <1>0, <2>1, <2>5 DEF Shape
    <3> QED BY <1>3, <2>1, <2>2, <2>3, <3>1
  <2> QED BY <2>4, <2>5
<1>6. ASSUME NEW c \in Checkers, Insert(c)
      PROVE  PageInv'
  <2>0. PICK k : k = Job(c)
    OBVIOUS
  <2>1. /\ step[c] = "insert" /\ UNCHANGED <<open, errors>>
        /\ \A d \in Checkers \ {c} : ~ Doing(d, k, "opening") /\ ~ Doing(d, k, "resolving")
    BY <1>6, <2>0 DEF Insert, Others, At, database
  <2>2. CASE AbortTick(c) /\ UNCHANGED unanswered
    <3>1. Shape' /\ step'[c] = "idle"
      BY <1>0, <2>1, <2>2 DEF Shape, AbortTick, Goto, Steps
    <3>2. \A d \in Checkers \ {c} : step'[d] = step[d] /\ todo'[d] = todo[d]
      BY <1>0, <2>2 DEF Shape, AbortTick, Goto
    <3> QED BY <1>3, <2>1, <2>2, <3>1, <3>2
  <2>3. CASE /\ k \notin open /\ UNCHANGED todo /\ step' = [step EXCEPT ![c] = "opening"]
             /\ unanswered' = [unanswered EXCEPT ![k] = @ + 1]
    <3>1. Shape'
      <4>1. unanswered' \in [Jobs -> Nat]
        <5>1. \A j \in Jobs : unanswered'[j] \in Nat
          BY <1>0, <2>3 DEF Shape
        <5>2. unanswered' = [j \in Jobs |-> unanswered'[j]]
          BY <1>0, <2>3 DEF Shape
        <5> QED BY <5>1, <5>2
      <4> QED BY <1>0, <2>1, <2>3, <4>1 DEF Shape, Steps
    <3>2. step'[c] = "opening" /\ \A d \in Checkers \ {c} : step'[d] = step[d]
      BY <1>0, <2>3 DEF Shape
    <3>3. Locks'
      BY <1>0, <2>0, <2>1, <2>3, <3>2 DEF Locks
    <3>4. k \in Jobs => unanswered[k] <= errors
      BY <1>0, <2>0, <2>1, <2>3 DEF Answered, Shape
    <3>5. \A j \in Jobs : unanswered'[j] = IF j = k THEN unanswered[j] + 1 ELSE unanswered[j]
      BY <1>0, <2>3 DEF Shape
    <3>6. Answered'
      BY <1>0, <2>0, <2>1, <2>3, <3>2, <3>4, <3>5 DEF Answered, Shape
    <3> QED BY <3>1, <3>3, <3>6 DEF PageInv
  <2> QED BY <1>6, <2>0, <2>2, <2>3 DEF Insert, Goto
<1>7. ASSUME NEW c \in Checkers, Update(c)
      PROVE  PageInv'
  <2>0. PICK k : k = Job(c)
    OBVIOUS
  <2>1. /\ step[c] \in {"update", "updateResolved"} /\ UNCHANGED <<open, todo, errors>>
        /\ \A d \in Checkers \ {c} : ~ Doing(d, k, "resolving")
        /\ unanswered' = [unanswered EXCEPT ![k] = 0]
        /\ step' = [step EXCEPT ![c] = IF step[c] = "update" THEN "resolving" ELSE "resolvedAgain"]
    BY <1>7, <2>0 DEF Update, Others, At, Goto, database
  <2>2. Shape'
    BY <1>0, <2>1 DEF Shape, Steps
  <2>3. /\ step'[c] = IF step[c] = "update" THEN "resolving" ELSE "resolvedAgain"
        /\ \A d \in Checkers \ {c} : step'[d] = step[d]
    BY <1>0, <2>1 DEF Shape
  <2>4. Locks'
    BY <1>0, <2>0, <2>1, <2>3 DEF Locks
  <2>5. \A j \in Jobs : unanswered'[j] = IF j = k THEN 0 ELSE unanswered[j]
    BY <1>0, <2>1 DEF Shape
  <2>6. Answered'
    BY <1>0, <2>0, <2>1, <2>3, <2>5 DEF Answered, Shape
  <2> QED BY <2>2, <2>4, <2>6 DEF PageInv
<1>8. ASSUME NEW c \in Checkers, Commit(c)
      PROVE  PageInv'
  <2>0. PICK k : k = Job(c)
    OBVIOUS
  <2>1. /\ step[c] \in {"opening", "resolving", "resolvedAgain"}
        /\ open' = CASE step[c] = "opening" -> open \cup {k}
                     [] step[c] = "resolving" -> open \ {k}
                     [] OTHER -> open
        /\ todo' = [todo EXCEPT ![c] = Tail(@)]
        /\ UNCHANGED <<unanswered, errors>>
    BY <1>8, <2>0 DEF Commit
  <2>2. /\ step' \in [Checkers -> Steps] /\ step'[c] \in {"idle", "look"}
        /\ \A d \in Checkers \ {c} :
              step'[d] = IF step[c] = "resolving" /\ Doing(d, k, "update")
                         THEN "updateResolved" ELSE step[d]
    BY <1>0, <1>8, <2>0 DEF Commit, Shape, Steps, AfterJob, At
  <2>3. Shape' /\ \A d \in Checkers \ {c} : todo'[d] = todo[d]
    BY <1>0, <2>1, <2>2 DEF Shape
  <2>4. Locks'
    BY <1>0, <2>0, <2>1, <2>2, <2>3 DEF Locks
  <2>5. Answered'
    <3>1. ASSUME NEW j \in Jobs
          PROVE  /\ unanswered[j] <= errors + 1
                 /\ unanswered[j] > errors =>
                       j \in open' \/ \E d \in Checkers : Doing(d, j, "opening")'
                 /\ \A d \in Checkers : Doing(d, j, "resolving")' => unanswered[j] = 0
      <4>1. unanswered[j] \in Nat /\ errors \in Nat
        BY <1>0 DEF Shape
      <4>2. \A d \in Checkers : Doing(d, j, "resolving")' => Doing(d, j, "resolving")
        BY <2>2, <2>3
      <4>3. ASSUME unanswered[j] > errors
            PROVE  j \in open' \/ \E d \in Checkers : Doing(d, j, "opening")'
        <5>1. ~ Doing(c, j, "resolving")
          BY <1>0, <4>1, <4>3 DEF Answered
        <5>2. j \in open \/ \E d \in Checkers : Doing(d, j, "opening")
          BY <1>0, <4>3 DEF Answered
        <5>3. CASE j \in open
          BY <2>0, <2>1, <5>1, <5>3
        <5>4. CASE \E d \in Checkers : Doing(d, j, "opening")
          BY <2>0, <2>1, <2>2, <2>3, <5>4
        <5> QED BY <5>2, <5>3, <5>4
      <4> QED BY <1>0, <4>2, <4>3 DEF Answered
    <3> QED BY <2>1, <3>1 DEF Answered
  <2> QED BY <2>3, <2>4, <2>5 DEF PageInv
<1>9. ASSUME NEW c \in Checkers, Fail(c)
      PROVE  PageInv'
  <2>1. /\ errors' = errors + 1 /\ step'[c] = "idle"
        /\ UNCHANGED <<open, unanswered>>
        /\ \A d \in Checkers \ {c} : step'[d] = step[d] /\ todo'[d] = todo[d]
    BY <1>0, <1>9 DEF Fail, AbortTick, Goto, Shape, database
  <2>2. Shape'
    BY <1>0, <1>9, <2>1 DEF Fail, AbortTick, Goto, Shape, Steps
  <2> QED BY <1>3, <2>1, <2>2
<1> QED BY <1>1, <1>2, <1>4, <1>5, <1>6, <1>7, <1>8, <1>9 DEF Next, Check, vars, database

\* Overlapping ticks of any number of replicas page one outage once, as long as
\* nothing fails (_check_one).
THEOREM PagedOnceHolds == Spec => []OutagePagedOnce
<1>1. PageInv => OutagePagedOnce
  BY DEF PageInv, Answered, OutagePagedOnce, Shape
<1> QED BY <1>1, InitInv, StepInv, PTL DEF Spec
-----------------------------------------------------------------------------
\* A row of a loaded batch.
Row == [job : Jobs, overdue : BOOLEAN]

\* A tick between its start and its end has a row to look at.
TypeInv ==
    /\ cap \in 1 .. Cardinality(Jobs) /\ order \in SetToSeqs(Jobs)
    /\ silent \subseteq Jobs /\ open \subseteq Jobs
    /\ todo \in [Checkers -> Seq(Row)]
    /\ \A c \in Checkers : step[c] # "idle" => todo[c] # <<>>
    /\ errors \in 0 .. MaxErrors

\* A pinged job moves to the end of the order and no other is lost.
LEMMA Reordered ==
    ASSUME HeartbeatConstants, order \in SetToSeqs(Jobs), NEW i \in DOMAIN order
    PROVE  Append(RemoveAt(order, i), order[i]) \in SetToSeqs(Jobs)
<1> DEFINE N == Cardinality(Jobs)
           new == Append(RemoveAt(order, i), order[i])
<1>1. /\ N \in Nat /\ order \in [1 .. N -> Jobs]
      /\ \A a, b \in 1 .. N : a # b => order[a] # order[b]
  BY FS_CardinalityType DEF HeartbeatConstants, SetToSeqs
<1>2. order \in Seq(Jobs) /\ Len(order) = N /\ i \in 1 .. N
  BY <1>1
<1> HIDE DEF N
<1> DEFINE head == SubSeq(order, 1, i - 1)
           tail == SubSeq(order, i + 1, Len(order))
<1>3. /\ head \in Seq(Jobs) /\ Len(head) = i - 1
      /\ \A k \in 1 .. i - 1 : head[k] = order[k]
  BY <1>1, <1>2
<1>4. /\ tail \in Seq(Jobs) /\ Len(tail) = N - i
      /\ \A k \in 1 .. N - i : tail[k] = order[k + i]
  BY <1>1, <1>2
<1>5. new = Append(head \o tail, order[i])
  BY DEF RemoveAt
<1> HIDE DEF head, tail, new
<1>6. /\ new \in Seq(Jobs) /\ Len(new) = N
      /\ \A k \in 1 .. i - 1 : new[k] = order[k]
      /\ \A k \in i .. N - 1 : new[k] = order[k + 1]
      /\ new[N] = order[i]
  <2> DEFINE rest == head \o tail
  <2>1. /\ rest \in Seq(Jobs) /\ Len(rest) = N - 1
        /\ \A k \in 1 .. i - 1 : rest[k] = head[k]
        /\ \A k \in 1 .. N - i : rest[i - 1 + k] = tail[k]
    <3>1. /\ rest \in Seq(Jobs) /\ Len(rest) = Len(head) + Len(tail)
          /\ \A k \in 1 .. Len(head) : rest[k] = head[k]
          /\ \A k \in 1 .. Len(tail) : rest[Len(head) + k] = tail[k]
      BY <1>3, <1>4
    <3> HIDE DEF rest
    <3> QED BY <1>1, <1>2, <1>3, <1>4, <3>1
  <2> HIDE DEF rest
  <2>2. ASSUME NEW k \in i .. N - 1
        PROVE  rest[k] = order[k + 1]
    <3>1. k - i + 1 \in 1 .. N - i /\ i - 1 + (k - i + 1) = k /\ (k - i + 1) + i = k + 1
      BY <1>1, <1>2
    <3>2. rest[i - 1 + (k - i + 1)] = tail[k - i + 1] /\ tail[k - i + 1] = order[(k - i + 1) + i]
      BY <1>4, <2>1, <3>1
    <3> QED BY <3>1, <3>2
  <2>3. order[i] \in Jobs
    BY <1>1, <1>2
  <2>4. /\ \A k \in 1 .. N - 1 : new[k] = rest[k]
        /\ new \in Seq(Jobs) /\ Len(new) = N /\ new[N] = order[i]
    <3>1. new = Append(rest, order[i])
      BY <1>5 DEF rest
    <3>2. /\ Append(rest, order[i]) \in Seq(Jobs)
          /\ Len(Append(rest, order[i])) = Len(rest) + 1
          /\ \A k \in 1 .. Len(rest) : Append(rest, order[i])[k] = rest[k]
          /\ Append(rest, order[i])[Len(rest) + 1] = order[i]
      BY <2>1, <2>3
    <3> QED BY <1>1, <2>1, <3>1, <3>2
  <2> QED BY <1>1, <1>2, <1>3, <2>1, <2>2, <2>4
<1>7. new \in [1 .. N -> Jobs]
  BY <1>6
<1>8. ASSUME NEW a \in 1 .. N
      PROVE  \E p \in 1 .. N : new[a] = order[p] /\ p = IF a < i THEN a ELSE IF a < N THEN a + 1 ELSE i
  <2>1. CASE a < i
    BY <1>1, <1>2, <1>6, <2>1
  <2>2. CASE a >= i /\ a < N
    <3>1. a \in i .. N - 1 /\ a + 1 \in 1 .. N /\ ~ (a < i)
      BY <1>1, <1>2, <2>2
    <3> QED BY <1>6, <2>2, <3>1
  <2>3. CASE a >= i /\ ~ (a < N)
    BY <1>1, <1>2, <1>6, <2>3
  <2> QED BY <1>1, <1>2, <2>1, <2>2, <2>3
<1>9. ASSUME NEW a \in 1 .. N, NEW b \in 1 .. N, a # b
      PROVE  new[a] # new[b]
  <2>1. PICK p \in 1 .. N : new[a] = order[p] /\ p = IF a < i THEN a ELSE IF a < N THEN a + 1 ELSE i
    BY <1>8
  <2>2. PICK q \in 1 .. N : new[b] = order[q] /\ q = IF b < i THEN b ELSE IF b < N THEN b + 1 ELSE i
    BY <1>8
  <2>3. p # q
    BY <1>1, <1>2, <1>9, <2>1, <2>2
  <2> QED BY <1>1, <2>1, <2>2, <2>3
<1> QED BY <1>7, <1>9 DEF SetToSeqs, N, new

\* A row of the batch is one of a job, and what follows it is a batch.
LEMMA BatchFacts ==
    ASSUME TypeInv, NEW c \in Checkers, todo[c] # <<>>
    PROVE  /\ Job(c) \in Jobs /\ todo[c][1].overdue \in BOOLEAN
           /\ Tail(todo[c]) \in Seq(Row)
           /\ AfterJob(c) \in {"idle", "look"}
           /\ AfterJob(c) # "idle" => Tail(todo[c]) # <<>>
<1>1. todo[c] \in Seq(Row) /\ todo[c][1] \in Row
  BY DEF TypeInv
<1>2. todo[c][1].job \in Jobs /\ todo[c][1].overdue \in BOOLEAN
  BY <1>1 DEF Row
<1> QED BY <1>1, <1>2 DEF Job, AfterJob

LEMMA TypeStep ==
    ASSUME HeartbeatConstants, TypeInv, PageInv, [Next]_vars
    PROVE  TypeInv'
<1>0. /\ step \in [Checkers -> Steps] /\ MaxErrors \in Nat /\ errors \in Nat
      /\ todo \in [Checkers -> Seq(Row)]
  BY DEF PageInv, Shape, TypeInv, HeartbeatConstants
\* One checker's batch and place change.
<1>1. ASSUME NEW c \in Checkers, UNCHANGED <<cap, order, silent>>, open' \subseteq Jobs,
             errors' \in 0 .. MaxErrors, NEW batch \in Seq(Row),
             todo' = [todo EXCEPT ![c] = batch],
             step'[c] # "idle" => batch # <<>>,
             \A d \in Checkers \ {c} : step'[d] # "idle" => step[d] # "idle"
      PROVE  TypeInv'
  <2>1. todo' \in [Checkers -> Seq(Row)]
    BY <1>0, <1>1
  <2>2. ASSUME NEW d \in Checkers, step'[d] # "idle"
        PROVE  todo'[d] # <<>>
    BY <1>0, <1>1, <2>2 DEF TypeInv
  <2> QED BY <1>1, <2>1, <2>2 DEF TypeInv
<1>2. ASSUME NEW j \in Jobs, Ping(j) \/ FallDue(j)
      PROVE  TypeInv'
  <2>1. UNCHANGED <<cap, open, todo, step, errors>> /\ silent' \subseteq Jobs
    BY <1>2 DEF Ping, FallDue, TypeInv
  <2>2. order' \in SetToSeqs(Jobs)
    BY <1>2, Reordered DEF Ping, FallDue, TypeInv
  <2> QED BY <2>1, <2>2 DEF TypeInv
<1>3. ASSUME NEW c \in Checkers, StartTick(c)
      PROVE  TypeInv'
  <2> DEFINE batch == [i \in 1 .. cap |-> [job |-> order[i], overdue |-> order[i] \in silent]]
  <2>1. Cardinality(Jobs) \in Nat /\ order \in [1 .. Cardinality(Jobs) -> Jobs] /\ cap \in Nat
    BY FS_CardinalityType DEF HeartbeatConstants, TypeInv, SetToSeqs
  <2>2. \A i \in 1 .. cap : [job |-> order[i], overdue |-> order[i] \in silent] \in Row
    <3>1. \A i \in 1 .. cap : order[i] \in Jobs
      BY <2>1 DEF TypeInv
    <3> QED BY <3>1 DEF Row
  <2>3. batch \in Seq(Row) /\ batch # <<>>
    <3>1. cap \in Nat /\ 1 \in 1 .. cap
      BY <2>1 DEF TypeInv
    <3>2. batch \in [1 .. cap -> Row]
      BY <2>2
    <3> HIDE DEF batch
    <3>3. batch \in Seq(Row) /\ DOMAIN batch = 1 .. cap
      BY <3>1, <3>2
    <3>4. DOMAIN <<>> = {}
      OBVIOUS
    <3> QED BY <3>1, <3>3, <3>4
  <2>4. /\ todo' = [todo EXCEPT ![c] = batch] /\ step' = [step EXCEPT ![c] = "look"]
        /\ UNCHANGED <<cap, order, silent, open, errors>>
    BY <1>3 DEF StartTick, Goto, database
  <2> HIDE DEF batch
  <2>5. \A d \in Checkers \ {c} : step'[d] = step[d]
    BY <1>0, <2>4
  <2>6. open' \subseteq Jobs /\ errors' \in 0 .. MaxErrors
    BY <2>4 DEF TypeInv
  <2> QED BY <1>1, <2>3, <2>4, <2>5, <2>6
<1>4. ASSUME NEW c \in Checkers, Look(c)
      PROVE  TypeInv'
  <2>1. /\ step[c] = "look" /\ todo[c] # <<>> /\ todo[c] \in Seq(Row)
        /\ UNCHANGED <<cap, order, silent, open, errors>>
    BY <1>0, <1>4 DEF Look, database, TypeInv
  <2>2. open' \subseteq Jobs /\ errors' \in 0 .. MaxErrors
    BY <2>1 DEF TypeInv
  <2>3. CASE UNCHANGED todo /\ \E s \in {"insert", "update"} : Goto(c, s)
    <3>1. \A d \in Checkers \ {c} : step'[d] = step[d]
      BY <1>0, <2>3 DEF Goto
    <3>2. todo' = [todo EXCEPT ![c] = todo[c]]
      BY <1>0, <2>3
    <3> QED BY <1>1, <2>1, <2>2, <3>1, <3>2
  <2>4. CASE todo' = [todo EXCEPT ![c] = Tail(@)] /\ Goto(c, AfterJob(c))
    <3>1. step'[c] = AfterJob(c) /\ \A d \in Checkers \ {c} : step'[d] = step[d]
      BY <1>0, <2>4 DEF Goto
    <3>2. todo' = [todo EXCEPT ![c] = Tail(todo[c])]
      BY <2>4
    <3> QED BY <1>1, <2>1, <2>2, <3>1, <3>2, BatchFacts
  <2> QED BY <1>4, <2>3, <2>4 DEF Look
<1>5. ASSUME NEW c \in Checkers, AbortTick(c), UNCHANGED <<cap, order, silent, open>>,
             errors' \in 0 .. MaxErrors
      PROVE  TypeInv'
  <2>1. <<>> \in Seq(Row) /\ todo' = [todo EXCEPT ![c] = <<>>]
    BY <1>5 DEF AbortTick
  <2>2. step'[c] = "idle" /\ \A d \in Checkers \ {c} : step'[d] = step[d]
    BY <1>0, <1>5 DEF AbortTick, Goto
  <2>3. open' \subseteq Jobs
    BY <1>5 DEF TypeInv
  <2> QED BY <1>1, <1>5, <2>1, <2>2, <2>3
<1>6. ASSUME NEW c \in Checkers, Insert(c) \/ Update(c)
      PROVE  TypeInv'
  <2>1. UNCHANGED <<cap, order, silent, open, errors>> /\ step[c] # "idle"
        /\ errors' \in 0 .. MaxErrors
    BY <1>6 DEF Insert, Update, database, TypeInv
  <2>2. CASE AbortTick(c)
    BY <1>5, <2>1, <2>2
  <2>3. CASE UNCHANGED todo /\ \E s \in Steps : Goto(c, s)
    <3>1. \A d \in Checkers : step'[d] # "idle" => step[d] # "idle"
      BY <1>0, <2>1, <2>3 DEF Goto
    <3> QED BY <2>1, <2>3, <3>1 DEF TypeInv
  <2> QED BY <1>6, <2>2, <2>3 DEF Insert, Update, Steps
<1>7. ASSUME NEW c \in Checkers, Commit(c)
      PROVE  TypeInv'
  <2>1. /\ step[c] # "idle" /\ todo[c] # <<>>
        /\ UNCHANGED <<cap, order, silent, errors>>
        /\ todo' = [todo EXCEPT ![c] = Tail(todo[c])]
    BY <1>7 DEF Commit, TypeInv
  <2>2. Job(c) \in Jobs /\ Tail(todo[c]) \in Seq(Row)
        /\ (AfterJob(c) # "idle" => Tail(todo[c]) # <<>>)
    BY <2>1, BatchFacts
  <2>3. open' \subseteq Jobs
    <3>1. open' \in {open \cup {Job(c)}, open \ {Job(c)}, open}
      BY <1>7, Zenon DEF Commit
    <3> QED BY <2>2, <3>1 DEF TypeInv
  <2>4. step'[c] = AfterJob(c) /\ \A d \in Checkers \ {c} : step'[d] # "idle" => step[d] # "idle"
    BY <1>7 DEF Commit, At
  <2>5. errors' \in 0 .. MaxErrors
    BY <2>1 DEF TypeInv
  <2> QED BY <1>1, <2>1, <2>2, <2>3, <2>4, <2>5
<1>8. ASSUME NEW c \in Checkers, Fail(c)
      PROVE  TypeInv'
  <2>1. errors' \in 0 .. MaxErrors
    BY <1>0, <1>8 DEF Fail
  <2> QED BY <1>5, <1>8, <2>1 DEF Fail, database
<1>9. CASE UNCHANGED vars
  BY <1>9 DEF vars, TypeInv
<1> QED BY <1>2, <1>3, <1>4, <1>6, <1>7, <1>8, <1>9 DEF Next, Check

\* The order stays one of all jobs, batches hold jobs, and each failure costs one
\* unanswered page at most.
THEOREM HeartbeatTypes == ASSUME HeartbeatConstants PROVE Spec => []TypeOK
<1>1. Init => TypeInv /\ PageInv
  <2>1. ASSUME Init
        PROVE  TypeInv
    BY <2>1 DEF Init, TypeInv, HeartbeatConstants
  <2> QED BY <2>1, InitInv
<1>2. TypeInv /\ PageInv /\ [Next]_vars => (TypeInv /\ PageInv)'
  BY TypeStep, StepInv
<1>3. TypeInv /\ PageInv => TypeOK
  <2> SUFFICES ASSUME TypeInv, PageInv PROVE TypeOK
    OBVIOUS
  <2>1. unanswered \in [Jobs -> 0 .. MaxErrors + 1]
    <3>1. unanswered \in [Jobs -> Nat] /\ MaxErrors \in Nat /\ errors \in 0 .. MaxErrors
      BY DEF PageInv, Shape, TypeInv, HeartbeatConstants
    <3>2. \A j \in Jobs : unanswered[j] \in 0 .. MaxErrors + 1
      BY <3>1 DEF PageInv, Answered
    <3> QED BY <3>1, <3>2
  <2> QED BY <2>1 DEF TypeInv, PageInv, Shape, TypeOK, Row
<1> QED BY <1>1, <1>2, <1>3, PTL DEF Spec
=============================================================================
