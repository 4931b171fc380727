------------------------ MODULE ProbeReporter_proofs ------------------------
(***************************************************************************)
(* Proofs about the probe's reporter, for any number of results, sizes of  *)
(* queue, chunk and spill file, attempts and restarts.                     *)
(***************************************************************************)
EXTENDS ProbeReporter, TLAPS

\* Where the process stands tells what it holds: nothing between two batches, and
\* no open attempt in the loop over the outcomes.
LoopShape ==
    /\ loop \in {"sleeping", "down"} => batch = <<>> /\ chunk = <<>>
    /\ loop \in {"settling", "finalSettling"} =>
          \A i \in DOMAIN chunk : chunk[i].verdict # "trying"
    /\ \A i \in DOMAIN chunk : chunk[i].verdict = "trying" => chunk[i].tries < Attempts

DeliveryInv == TypeOK /\ LoopShape /\ NothingSilentlyLost

\* A chunk and what follows it are the whole batch.
LEMMA ChunkSplits ==
    ASSUME ReporterConstants, NEW s \in Seq(Results)
    PROVE  /\ FirstChunk(s) \in Seq(Outcome)
           /\ Len(FirstChunk(s)) <= FlushBatchSize
           /\ AfterChunk(s) \in Seq(Results)
           /\ \A i \in DOMAIN FirstChunk(s) :
                 /\ FirstChunk(s)[i].res = s[i] /\ FirstChunk(s)[i].verdict = "trying"
                 /\ FirstChunk(s)[i].tries < Attempts
           /\ \A r \in ToSet(s) :
                 \/ r \in ToSet(AfterChunk(s))
                 \/ \E i \in DOMAIN FirstChunk(s) : FirstChunk(s)[i].res = r
           /\ s = <<>> => FirstChunk(s) = <<>> /\ AfterChunk(s) = <<>>
<1> DEFINE n == IF Len(s) < FlushBatchSize THEN Len(s) ELSE FlushBatchSize
<1>1. n \in 0 .. Len(s) /\ n <= FlushBatchSize /\ FlushBatchSize \in Nat \ {0}
      /\ (n = Len(s) \/ n = FlushBatchSize) /\ Len(s) \in Nat
  BY DEF ReporterConstants
<1>2. FirstChunk(s) = [i \in 1 .. n |-> Entry(s[i])]
  BY DEF FirstChunk
<1>3. \A i \in 1 .. n : /\ Entry(s[i]) \in Outcome
                        /\ Entry(s[i]).res = s[i] /\ Entry(s[i]).verdict = "trying"
                        /\ Entry(s[i]).tries < Attempts
  BY <1>1 DEF Entry, Outcome, Verdicts, ReporterConstants
<1>4. /\ AfterChunk(s) \in Seq(Results)
      /\ Len(AfterChunk(s)) = IF Len(s) < FlushBatchSize THEN 0 ELSE Len(s) - FlushBatchSize
      /\ \A i \in 1 .. Len(s) - FlushBatchSize : AfterChunk(s)[i] = s[i + FlushBatchSize]
  BY <1>1 DEF AfterChunk
<1> HIDE DEF n
<1>5. FirstChunk(s) \in Seq(Outcome)
      /\ Len(FirstChunk(s)) = n /\ DOMAIN FirstChunk(s) = 1 .. n
  BY <1>1, <1>2, <1>3
<1>6. \A i \in 1 .. n : /\ FirstChunk(s)[i].res = s[i] /\ FirstChunk(s)[i].verdict = "trying"
                 /\ FirstChunk(s)[i].tries < Attempts
  BY <1>2, <1>3
<1>7. ASSUME NEW i \in 1 .. Len(s), ~ (i \in 1 .. n)
      PROVE  s[i] \in ToSet(AfterChunk(s))
  <2>1. /\ i - FlushBatchSize \in 1 .. Len(s) - FlushBatchSize
        /\ Len(AfterChunk(s)) = Len(s) - FlushBatchSize
    BY <1>1, <1>4, <1>7
  <2>2. AfterChunk(s)[i - FlushBatchSize] = s[i]
    BY <1>1, <1>4, <2>1
  <2> QED BY <1>4, <2>1, <2>2 DEF ToSet
<1>8. \A r \in ToSet(s) : \E i \in 1 .. Len(s) : r = s[i]
  BY DEF ToSet
<1>9. s = <<>> => FirstChunk(s) = <<>> /\ AfterChunk(s) = <<>>
  BY <1>1, <1>4, <1>5
<1>10. ASSUME NEW r \in ToSet(s)
       PROVE  \/ r \in ToSet(AfterChunk(s))
              \/ \E i \in DOMAIN FirstChunk(s) : FirstChunk(s)[i].res = r
  <2>1. PICK i \in 1 .. Len(s) : r = s[i]
    BY <1>8
  <2>2. CASE i \in 1 .. n
    BY <1>5, <1>6, <2>1, <2>2
  <2>3. CASE ~ (i \in 1 .. n)
    BY <1>7, <2>1, <2>3
  <2> QED BY <2>2, <2>3
<1>11. \A i \in DOMAIN FirstChunk(s) :
          /\ FirstChunk(s)[i].res = s[i] /\ FirstChunk(s)[i].verdict = "trying"
                 /\ FirstChunk(s)[i].tries < Attempts
  BY <1>5, <1>6
<1> QED BY <1>1, <1>4, <1>5, <1>9, <1>10, <1>11

\* What is popped and what is left are the whole file.
LEMMA PoppedSplits ==
    ASSUME ReporterConstants, TypeOK
    PROVE  /\ Popped \in Seq(Results) /\ Rest \in Seq(Results) /\ Len(Rest) <= Len(disk)
           /\ ToSet(disk) \subseteq ToSet(Popped) \cup ToSet(Rest)
           /\ ToSet(Rest) \subseteq ToSet(disk)
<1> DEFINE n == IF flushes + 1 = SpillRetryEvery
                THEN IF Len(disk) < SpillBatch THEN Len(disk) ELSE SpillBatch
                ELSE 0
<1>1. disk \in Seq(Results) /\ n \in 0 .. Len(disk)
  BY DEF TypeOK, ReporterConstants, SpillBatch
<1>2. Popped = SubSeq(disk, 1, n)
  BY <1>1 DEF Popped
<1> HIDE DEF n
<1>3. /\ Popped \in Seq(Results) /\ Len(Popped) = n
      /\ \A i \in 1 .. n : Popped[i] = disk[i]
  BY <1>1, <1>2
<1>4. /\ Rest \in Seq(Results) /\ Len(Rest) = Len(disk) - n
      /\ \A i \in 1 .. Len(disk) - n : Rest[i] = disk[i + n]
  BY <1>1, <1>3 DEF Rest
<1>5. ASSUME NEW i \in 1 .. Len(disk)
      PROVE  disk[i] \in ToSet(Popped) \cup ToSet(Rest)
  <2>1. CASE i \in 1 .. n
    BY <1>3, <2>1 DEF ToSet
  <2>2. CASE ~ (i \in 1 .. n)
    <3>1. i - n \in 1 .. Len(disk) - n /\ Rest[i - n] = disk[i]
      BY <1>1, <1>4, <2>2
    <3> QED BY <1>4, <3>1 DEF ToSet
  <2> QED BY <2>1, <2>2
<1>6. ASSUME NEW i \in 1 .. Len(Rest)
      PROVE  Rest[i] \in ToSet(disk)
  <2>1. i + n \in DOMAIN disk /\ Rest[i] = disk[i + n]
    BY <1>1, <1>4
  <2> QED BY <2>1 DEF ToSet
<1>7. ToSet(disk) \subseteq ToSet(Popped) \cup ToSet(Rest)
  BY <1>1, <1>5 DEF ToSet
<1>8. ToSet(Rest) \subseteq ToSet(disk)
  BY <1>4, <1>6 DEF ToSet
<1> QED BY <1>1, <1>3, <1>4, <1>7, <1>8

\* A result given up for a cause stays so.
LEMMA GivenKeeps ==
    ASSUME TypeOK, NEW cause \in Causes, NEW S \in SUBSET Results, Given(cause, S)
    PROVE  /\ dropped' \in [Causes -> SUBSET Results]
           /\ \A c \in Causes : dropped[c] \subseteq dropped'[c]
           /\ \A r \in S : \E c \in Causes : r \in dropped'[c]
BY DEF TypeOK, Given

\* A spilled result is in the file or was given up; the same holds of what the
\* file held before.
LEMMA SpillKeeps ==
    ASSUME ReporterConstants, TypeOK, NEW r \in Results,
           Spill(r)
    PROVE  /\ disk' \in Seq(Results)
           /\ Len(disk') <= CompactAt \/ Len(disk') <= MaxEntries
           /\ dropped' \in [Causes -> SUBSET Results]
           /\ \A c \in Causes : dropped[c] \subseteq dropped'[c]
           /\ \A q \in ToSet(disk) \cup {r} :
                 q \in ToSet(disk') \/ \E c \in Causes : q \in dropped'[c]
<1>1. /\ disk \in Seq(Results) /\ dropped \in [Causes -> SUBSET Results]
      /\ Len(disk) <= CompactAt \/ Len(disk) <= MaxEntries
      /\ CompactAt \in Nat /\ MaxEntries \in Nat \ {0}
  BY DEF TypeOK, ReporterConstants
<1>2. ToSet(disk) \subseteq Results
  BY <1>1 DEF ToSet
<1>4. CASE diskState = "full"
  <2>1. Given("diskFull", {r}) /\ disk' = disk /\ "diskFull" \in Causes
    BY <1>4 DEF Spill, Causes
  <2> QED BY <1>1, <2>1, GivenKeeps
<1>5. CASE diskState # "full"
  <2> DEFINE gone == (ToSet(disk) \cup {r}) \ ToSet(disk')
  <2>1. Given("evicted", gone) /\ disk' = Compacted(Append(disk, r)) /\ "evicted" \in Causes
    BY <1>5 DEF Spill, Causes
  <2>2. gone \in SUBSET Results
    BY <1>2
  <2>3. /\ disk' \in Seq(Results)
        /\ Len(disk') <= CompactAt \/ Len(disk') <= MaxEntries
    <3> DEFINE lines == Append(disk, r)
    <3>1. lines \in Seq(Results) /\ Len(lines) \in Nat
      BY <1>1
    <3> HIDE DEF lines
    <3>2. CASE Len(lines) > CompactAt /\ Len(lines) > MaxEntries
      <4>1. disk' = SubSeq(lines, Len(lines) - MaxEntries + 1, Len(lines))
        BY <2>1, <3>2 DEF Compacted, lines
      <4> QED BY <1>1, <3>1, <3>2, <4>1
    <3>3. CASE ~ (Len(lines) > CompactAt /\ Len(lines) > MaxEntries)
      <4>1. disk' = lines
        BY <2>1, <3>3 DEF Compacted, lines
      <4> QED BY <1>1, <3>1, <3>3, <4>1
    <3> QED BY <3>2, <3>3
  <2> QED BY <2>1, <2>2, <2>3, GivenKeeps
<1> QED BY <1>4, <1>5
-----------------------------------------------------------------------------
\* Flushing takes over all the queue and all that is popped.
LEMMA FlushKeeps ==
    ASSUME ReporterConstants, TypeOK, NEW posting, NEW idle, StartFlush(posting, idle)
    PROVE  /\ queue' = <<>> /\ flushes' \in 0 .. SpillRetryEvery - 1
           /\ disk' \in Seq(Results)
           /\ Len(disk') <= CompactAt \/ Len(disk') <= MaxEntries
           /\ batch' \in Seq(Results)
           /\ chunk' \in Seq(Outcome)
           /\ Len(chunk') <= FlushBatchSize
           /\ loop' = posting \/ (loop' = idle /\ batch' = <<>> /\ chunk' = <<>>)
           /\ \A i \in DOMAIN chunk' : chunk'[i].verdict = "trying"
                                        /\ chunk'[i].tries < Attempts
           /\ ToSet(queue) \cup ToSet(disk) \subseteq Held'
<1> DEFINE all == queue \o Popped
<1>1. /\ queue \in Seq(Results) /\ Popped \in Seq(Results) /\ disk \in Seq(Results)
      /\ Rest \in Seq(Results) /\ Len(Rest) <= Len(disk)
      /\ ToSet(disk) \subseteq ToSet(Popped) \cup ToSet(Rest)
      /\ ToSet(Rest) \subseteq ToSet(disk)
      /\ Len(disk) <= CompactAt \/ Len(disk) <= MaxEntries
      /\ CompactAt \in Nat /\ MaxEntries \in Nat
  BY PoppedSplits DEF TypeOK, ReporterConstants
<1>2. all \in Seq(Results) /\ ToSet(queue) \cup ToSet(Popped) \subseteq ToSet(all)
  <2>1. /\ all \in Seq(Results) /\ Len(all) = Len(queue) + Len(Popped)
        /\ \A i \in 1 .. Len(queue) : all[i] = queue[i]
        /\ \A i \in 1 .. Len(Popped) : all[i + Len(queue)] = Popped[i]
    BY <1>1
  <2> HIDE DEF all
  <2>2. ASSUME NEW i \in 1 .. Len(queue)
        PROVE  queue[i] \in ToSet(all)
    <3>1. i \in DOMAIN all
      BY <1>1, <2>1
    <3> QED BY <2>1, <3>1 DEF ToSet
  <2>3. ASSUME NEW i \in 1 .. Len(Popped)
        PROVE  Popped[i] \in ToSet(all)
    <3>1. i + Len(queue) \in DOMAIN all
      BY <1>1, <2>1
    <3> QED BY <2>1, <3>1 DEF ToSet
  <2>4. ToSet(queue) \subseteq ToSet(all)
    BY <1>1, <2>2 DEF ToSet
  <2>5. ToSet(Popped) \subseteq ToSet(all)
    BY <1>1, <2>3 DEF ToSet
  <2> QED BY <2>1, <2>4, <2>5
<1>3. /\ queue' = <<>> /\ chunk' = FirstChunk(all) /\ batch' = AfterChunk(all)
      /\ disk' \in {disk, Rest}
      /\ flushes' = (flushes + 1) % SpillRetryEvery
      /\ loop' = IF all = <<>> THEN idle ELSE posting
  BY DEF StartFlush
<1>4. flushes' \in 0 .. SpillRetryEvery - 1
  BY <1>3 DEF TypeOK, ReporterConstants
<1> HIDE DEF all
<1>5. ToSet(all) \subseteq Held'
  <2>1. ToSet(all) \subseteq ToSet(batch') \cup {chunk'[i].res :
                               i \in {j \in DOMAIN chunk' : chunk'[j].verdict = "trying"}}
    BY <1>2, <1>3, ChunkSplits
  <2> QED BY <2>1 DEF Held, InMemory, Chunked
<1>6. ToSet(disk') \subseteq Held'
  BY DEF Held
<1>7. ToSet(Rest) \subseteq ToSet(disk')
  BY <1>1, <1>3
<1>8. /\ disk' \in Seq(Results)
      /\ Len(disk') <= CompactAt \/ Len(disk') <= MaxEntries
  <2>1. Len(disk) \in Nat /\ Len(Rest) \in Nat
    BY <1>1
  <2>2. CASE disk' = disk
    BY <1>1, <2>2
  <2>3. CASE disk' = Rest
    BY <1>1, <2>1, <2>3
  <2> QED BY <1>3, <2>2, <2>3
<1>9. /\ batch' \in Seq(Results)
      /\ chunk' \in Seq(Outcome)
      /\ Len(chunk') <= FlushBatchSize
      /\ loop' = posting \/ (loop' = idle /\ batch' = <<>> /\ chunk' = <<>>)
      /\ \A i \in DOMAIN chunk' : chunk'[i].verdict = "trying"
                                   /\ chunk'[i].tries < Attempts
  BY <1>2, <1>3, ChunkSplits
<1>10. ToSet(queue) \cup ToSet(disk) \subseteq Held'
  BY <1>1, <1>2, <1>5, <1>6, <1>7
<1> QED BY <1>3, <1>4, <1>8, <1>9, <1>10
-----------------------------------------------------------------------------
\* What a step must not do: forget a result.
Kept ==
    /\ \A r \in Held : r \in Held' \/ Settled(r)'
    /\ \A r : Settled(r) => Settled(r)'

\* A result stays settled.
LEMMA SettledStays ==
    ASSUME recorded \subseteq recorded',
           \A c \in Causes : dropped[c] \subseteq dropped'[c]
    PROVE  \A r : Settled(r) => Settled(r)'
BY DEF Settled

\* An outcome is written into one entry of the chunk.
LEMMA EntryWritten ==
    ASSUME TypeOK, NEW i \in DOMAIN chunk, NEW t \in 0 .. Attempts, NEW v \in Verdicts,
           SetEntry(i, t, v)
    PROVE  /\ chunk' \in Seq(Outcome)
           /\ Len(chunk') = Len(chunk) /\ DOMAIN chunk' = DOMAIN chunk
           /\ chunk'[i].res = chunk[i].res /\ chunk'[i].verdict = v
           /\ chunk'[i].tries = t
           /\ \A j \in DOMAIN chunk \ {i} : chunk'[j] = chunk[j]
<1> DEFINE new == [chunk[i] EXCEPT !.tries = t, !.verdict = v]
<1>1. chunk \in Seq(Outcome) /\ chunk[i] \in Outcome
  BY DEF TypeOK
<1>2. /\ new \in Outcome /\ new.res = chunk[i].res /\ new.verdict = v
      /\ new.tries = t
  BY <1>1 DEF Outcome
<1>3. chunk' = [chunk EXCEPT ![i] = new]
  BY DEF SetEntry
<1> HIDE DEF new
<1>4. /\ chunk' \in Seq(Outcome) /\ Len(chunk') = Len(chunk) /\ DOMAIN chunk' = DOMAIN chunk
      /\ chunk'[i] = new
      /\ \A j \in DOMAIN chunk \ {i} : chunk'[j] = chunk[j]
  BY <1>1, <1>2, <1>3
<1> QED BY <1>2, <1>4

\* A member of the chunk.
LEMMA OutcomeFacts ==
    ASSUME TypeOK, NEW i \in DOMAIN chunk
    PROVE  chunk[i].res \in Results /\ chunk[i].tries \in 0 .. Attempts
<1>1. chunk[i] \in Outcome
  BY DEF TypeOK
<1> QED BY <1>1 DEF Outcome

\* What waits in the chunk is made of results.
LEMMA WaitingResults ==
    ASSUME TypeOK, NEW V
    PROVE  ToSet(queue) \cup ToSet(batch) \cup Chunked(V) \subseteq Results
<1>1. queue \in Seq(Results) /\ batch \in Seq(Results)
      /\ chunk \in Seq(Outcome)
  BY DEF TypeOK
<1>2. \A i \in DOMAIN chunk : chunk[i].res \in Results
  BY OutcomeFacts
<1> QED BY <1>1, <1>2 DEF ToSet, Chunked

\* A probe that was just installed holds nothing.
LEMMA InitInv == ASSUME ReporterConstants, Init PROVE DeliveryInv
<1>1. TypeOK
  BY DEF Init, TypeOK, ReporterConstants, Locs
<1>2. LoopShape /\ NothingSilentlyLost
  BY DEF Init, LoopShape, NothingSilentlyLost
<1> QED BY <1>1, <1>2 DEF DeliveryInv

\* No step but a push adds a result, and none forgets one.
LEMMA Step ==
    ASSUME ReporterConstants, DeliveryInv, [Next]_vars
    PROVE  DeliveryInv'
<1>0. /\ TypeOK /\ LoopShape /\ NothingSilentlyLost
      /\ queue \in Seq(Results) /\ disk \in Seq(Results) /\ batch \in Seq(Results)
      /\ chunk \in Seq(Outcome)
      /\ dropped \in [Causes -> SUBSET Results]
  BY DEF DeliveryInv, TypeOK
<1>a. <<>> \in Seq(Results) /\ Len(<<>>) <= QueueMaxSize /\ Len(<<>>) <= FlushBatchSize
      /\ <<>> \in Seq(Outcome)
  BY DEF ReporterConstants
<1>1. ASSUME TypeOK', LoopShape', Kept, pushed' = pushed
      PROVE  DeliveryInv'
  BY <1>0, <1>1 DEF DeliveryInv, NothingSilentlyLost, Kept
<1>2. CASE PushResult
  <2>0. PICK new : new = pushed + 1
    OBVIOUS
  <2>1. /\ new \in Results /\ pushed' = new /\ pushed \in Nat /\ new \in 0 .. MaxResults
        /\ UNCHANGED <<batch, chunk, loop, flushes, diskState, recorded, answered, restarts>>
    BY <1>0, <1>2, <2>0 DEF PushResult, TypeOK, Results, ReporterConstants, flight, ghosts
  <2>2. LoopShape'
    BY <1>0, <2>1 DEF LoopShape
  <2>5. \A r \in 1 .. pushed' : r \in 1 .. pushed \/ r = new
    BY <2>0, <2>1
  <2>3. CASE queue' = Append(queue, new) /\ Len(queue) < QueueMaxSize /\ UNCHANGED <<disk, dropped>>
    <3>1. /\ queue' \in Seq(Results) /\ Len(queue') <= QueueMaxSize
          /\ ToSet(queue') = ToSet(queue) \cup {new}
      <4>1. /\ queue' \in Seq(Results) /\ Len(queue') = Len(queue) + 1
            /\ \A i \in 1 .. Len(queue) : queue'[i] = queue[i]
            /\ queue'[Len(queue) + 1] = new
        BY <1>0, <2>1, <2>3
      <4>2. Len(queue) \in Nat /\ Len(queue') <= QueueMaxSize
        BY <1>0, <2>3, <4>1 DEF ReporterConstants
      <4>3. DOMAIN queue = 1 .. Len(queue) /\ DOMAIN queue' = 1 .. Len(queue) + 1
        BY <1>0, <4>1, <4>2
      <4>4. ToSet(queue') = ToSet(queue) \cup {queue'[Len(queue) + 1]}
        BY <4>1, <4>2, <4>3 DEF ToSet
      <4> QED BY <4>1, <4>2, <4>4
    <3>2. TypeOK'
      BY <1>0, <2>1, <2>3, <3>1 DEF TypeOK
    <3>3. Held' = Held \cup {new} /\ \A r : Settled(r)' = Settled(r)
      BY <2>1, <2>3, <3>1 DEF Held, InMemory, Chunked, Settled
    <3>4. NothingSilentlyLost'
      BY <1>0, <2>5, <3>3 DEF NothingSilentlyLost
    <3> QED BY <2>2, <3>2, <3>4 DEF DeliveryInv
  <2>4. CASE Spill(new) /\ queue' = queue
    <3>1. TypeOK'
      BY <1>0, <2>1, <2>4, SpillKeeps DEF TypeOK
    <3>2. Kept /\ (new \in Held' \/ Settled(new)')
      <4>1. \A r : Settled(r) => Settled(r)'
        BY <1>0, <2>1, <2>4, SpillKeeps, SettledStays
      <4>2. InMemory' = InMemory
        BY <2>1, <2>4 DEF InMemory, Chunked
      <4>3. \A r \in ToSet(disk) \cup {new} : r \in ToSet(disk') \/ Settled(r)'
        BY <1>0, <2>1, <2>4, SpillKeeps DEF Settled
      <4> QED BY <4>1, <4>2, <4>3 DEF Kept, Held
    <3>3. NothingSilentlyLost'
      BY <1>0, <2>5, <3>2 DEF NothingSilentlyLost, Kept
    <3> QED BY <2>2, <3>1, <3>3 DEF DeliveryInv
  <2> QED BY <1>2, <2>0, <2>3, <2>4 DEF PushResult
<1>3. CASE FlushBatch
  <2>1. /\ batch = <<>> /\ chunk = <<>>
        /\ UNCHANGED <<diskState, pushed, recorded, answered, dropped, restarts>>
        /\ StartFlush("posting", "sleeping")
    BY <1>0, <1>3 DEF FlushBatch, LoopShape, ghosts
  <2>2. LoopShape' /\ loop' \in Locs
    BY <1>0, <2>1, FlushKeeps DEF LoopShape, Locs
  <2>4. TypeOK'
    BY <1>0, <1>a, <2>1, <2>2, FlushKeeps DEF TypeOK
  <2>3. Kept
    <3>1. ToSet(batch) = {} /\ Chunked({"trying", "transient"}) = {}
      BY <2>1 DEF ToSet, Chunked
    <3>2. ToSet(queue) \cup ToSet(disk) \subseteq Held'
      BY <1>0, <2>1, FlushKeeps
    <3> QED BY <2>1, <3>1, <3>2 DEF Kept, Held, InMemory, Settled
  <2> QED BY <1>1, <2>1, <2>2, <2>3, <2>4
<1>4. CASE PostOne
  <2>1. PICK i \in DOMAIN chunk : /\ chunk[i].verdict = "trying"
                                  /\ Delivered(i) \/ Rejected(i) \/ Unanswered(i)
    BY <1>4 DEF PostOne
  <2>2. /\ chunk[i].res \in Results /\ chunk[i].tries \in 0 .. Attempts
        /\ UNCHANGED <<queue, disk, batch, loop, flushes, diskState, pushed, restarts>>
        /\ loop \in {"posting", "finalPosting"}
    BY <1>0, <1>4, OutcomeFacts DEF PostOne
  <2>3. PICK r \in Results : r = chunk[i].res
    BY <2>2
  <2>4. ASSUME NEW t \in 0 .. Attempts, NEW v \in Verdicts, SetEntry(i, t, v),
               v = "trying" => t < Attempts,
               recorded \subseteq recorded', recorded' \subseteq Results,
               answered' \subseteq recorded',
               dropped' \in [Causes -> SUBSET Results],
               \A c \in Causes : dropped[c] \subseteq dropped'[c],
               v \in {"delivered", "rejected"} => Settled(r)'
        PROVE  DeliveryInv'
    <3>1. \A j \in DOMAIN chunk \ {i} : chunk'[j] = chunk[j]
      BY <1>0, <2>4, EntryWritten
    <3>2. /\ DOMAIN chunk' = DOMAIN chunk /\ Len(chunk') = Len(chunk)
          /\ chunk' \in Seq(Outcome)
          /\ chunk'[i].res = r /\ chunk'[i].verdict = v /\ chunk'[i].tries = t
      BY <1>0, <2>3, <2>4, EntryWritten
    <3>3. Chunked({"trying", "transient"}) \subseteq
              Chunked({"trying", "transient"})' \cup {q \in {r} : Settled(q)'}
      <4>1. v \in {"trying", "transient"} \/ Settled(r)'
        BY <2>4 DEF Verdicts
      <4> QED BY <2>3, <3>1, <3>2, <4>1 DEF Chunked
    <3>4. \A q : Settled(q) => Settled(q)'
      BY <2>4, SettledStays
    <3>5. Kept
      BY <2>2, <3>3, <3>4 DEF Kept, Held, InMemory
    <3>6. LoopShape'
      BY <1>0, <2>2, <2>4, <3>1, <3>2 DEF LoopShape
    <3>7. TypeOK'
      BY <1>0, <2>2, <2>4, <3>2 DEF TypeOK
    <3> QED BY <1>1, <2>2, <3>5, <3>6, <3>7
  <2>5. recorded \subseteq Results /\ answered \subseteq recorded
    BY <1>0 DEF TypeOK
  <2>6. CASE Delivered(i)
    <3>1. /\ SetEntry(i, chunk[i].tries, "delivered") /\ "delivered" \in Verdicts
          /\ recorded' = recorded \cup {r} /\ answered' = answered \cup {r}
          /\ dropped' = dropped
      BY <2>3, <2>6 DEF Delivered, Verdicts
    <3>2. Settled(r)'
      BY <3>1 DEF Settled
    <3> QED BY <1>0, <2>2, <2>4, <2>5, <3>1, <3>2
  <2>7. CASE Rejected(i)
    <3>1. /\ SetEntry(i, chunk[i].tries, "rejected") /\ "rejected" \in Verdicts
          /\ Given("rejected", {r}) /\ "rejected" \in Causes
          /\ UNCHANGED <<recorded, answered>>
      BY <2>3, <2>7 DEF Rejected, Verdicts, Causes, ghosts
    <3>2. /\ dropped' \in [Causes -> SUBSET Results]
          /\ \A c \in Causes : dropped[c] \subseteq dropped'[c]
          /\ \E c \in Causes : r \in dropped'[c]
      BY <1>0, <3>1, GivenKeeps
    <3>3. Settled(r)'
      BY <3>2 DEF Settled
    <3> QED BY <2>2, <2>4, <2>5, <3>1, <3>2, <3>3
  <2>8. CASE Unanswered(i)
    <3> DEFINE t == chunk[i].tries + 1
               v == IF t < Attempts THEN "trying" ELSE "transient"
    <3>1. /\ SetEntry(i, t, v) /\ v \in Verdicts /\ v \in {"trying", "transient"}
          /\ v = "trying" => t < Attempts
          /\ recorded' \in {recorded, recorded \cup {r}}
          /\ UNCHANGED <<answered, dropped>>
      BY <2>3, <2>8 DEF Unanswered, Verdicts
    <3>2. t \in 0 .. Attempts
      <4>1. chunk[i].tries < Attempts
        BY <1>0, <2>1 DEF LoopShape
      <4> QED BY <2>2, <4>1 DEF ReporterConstants
    <3>3. PICK n \in 0 .. Attempts, u \in Verdicts : n = t /\ u = v
      BY <3>1, <3>2
    <3> QED BY <1>0, <2>4, <2>5, <3>1, <3>3
  <2> QED BY <2>1, <2>6, <2>7, <2>8
<1>5. CASE Gathered
  <2>1. TypeOK' /\ LoopShape'
    BY <1>0, <1>5 DEF Gathered, TypeOK, LoopShape, Locs, flight, ghosts, Final
  <2>2. Kept
    BY <1>5 DEF Gathered, Kept, Held, InMemory, Chunked, Settled, flight, ghosts
  <2> QED BY <1>1, <1>5, <2>1, <2>2 DEF Gathered
<1>6. CASE SettleOne
  <2>1. /\ chunk # <<>> /\ 1 \in DOMAIN chunk /\ chunk[1].res \in Results
        /\ chunk[1].verdict # "trying"
        /\ UNCHANGED <<queue, batch, loop, flushes, diskState, pushed, recorded, answered, restarts>>
        /\ loop \in {"settling", "finalSettling"}
    BY <1>0, <1>6, OutcomeFacts DEF SettleOne, LoopShape, ghosts
  <2>2. /\ chunk' = Tail(chunk)
        /\ chunk' \in Seq(Outcome)
        /\ Len(chunk') = Len(chunk) - 1
        /\ DOMAIN chunk' = 1 .. Len(chunk) - 1
        /\ \A i \in DOMAIN chunk' : i + 1 \in DOMAIN chunk /\ chunk'[i] = chunk[i + 1]
    BY <1>0, <1>6, <2>1 DEF SettleOne
  <2>7. Len(chunk') <= FlushBatchSize
    BY <1>0, <2>1, <2>2 DEF TypeOK, ReporterConstants
  <2>3. Chunked({"trying", "transient"}) \subseteq Chunked({"trying", "transient"})' \cup
            {r \in {chunk[1].res} : chunk[1].verdict = "transient"}
    <3>1. ASSUME NEW i \in DOMAIN chunk, i # 1
          PROVE  i - 1 \in DOMAIN chunk' /\ chunk'[i - 1] = chunk[i]
      BY <1>0, <2>2, <3>1
    <3> QED BY <2>1, <3>1 DEF Chunked
  <2>4. LoopShape'
    BY <1>0, <2>1, <2>2 DEF LoopShape
  <2>5. CASE UNCHANGED <<disk, dropped>> /\ chunk[1].verdict # "transient"
    <3>1. TypeOK'
      BY <1>0, <2>1, <2>2, <2>5, <2>7 DEF TypeOK
    <3>2. Kept
      BY <2>1, <2>3, <2>5 DEF Kept, Held, InMemory, Settled
    <3> QED BY <1>1, <2>1, <2>4, <3>1, <3>2
  <2>6. CASE Spill(chunk[1].res)
    <3>1. TypeOK'
      BY <1>0, <2>1, <2>2, <2>6, <2>7, SpillKeeps DEF TypeOK
    <3>2. Kept
      <4>1. \A r : Settled(r) => Settled(r)'
        BY <1>0, <2>1, <2>6, SpillKeeps, SettledStays
      <4>2. \A r \in ToSet(disk) \cup {chunk[1].res} : r \in ToSet(disk') \/ Settled(r)'
        BY <1>0, <2>1, <2>6, SpillKeeps DEF Settled
      <4> QED BY <2>1, <2>3, <4>1, <4>2 DEF Kept, Held, InMemory
    <3> QED BY <1>1, <2>1, <2>4, <3>1, <3>2
  <2> QED BY <1>6, <2>5, <2>6 DEF SettleOne
<1>7. CASE NextChunk
  <2>1. /\ chunk = <<>> /\ chunk' = FirstChunk(batch) /\ batch' = AfterChunk(batch)
        /\ UNCHANGED <<queue, disk, flushes, diskState, pushed, recorded, answered, dropped, restarts>>
        /\ loop' \in {"posting", "finalPosting"}
    BY <1>7 DEF NextChunk, ghosts
  <2>2. TypeOK' /\ LoopShape'
    BY <1>0, <2>1, ChunkSplits DEF TypeOK, LoopShape, Locs
  <2>3. Kept
    <3>1. ToSet(batch) \subseteq ToSet(batch') \cup Chunked({"trying", "transient"})'
      BY <1>0, <2>1, ChunkSplits DEF Chunked
    <3>2. Chunked({"trying", "transient"}) = {}
      BY <2>1 DEF Chunked
    <3> QED BY <2>1, <3>1, <3>2 DEF Kept, Held, InMemory, Settled
  <2> QED BY <1>1, <2>1, <2>2, <2>3
<1>8. CASE EndBatch
  <2>1. TypeOK' /\ LoopShape'
    BY <1>0, <1>8 DEF EndBatch, TypeOK, LoopShape, Locs, flight, ghosts
  <2>2. Kept
    BY <1>8 DEF EndBatch, Kept, Held, InMemory, Chunked, Settled, flight, ghosts
  <2> QED BY <1>1, <1>8, <2>1, <2>2 DEF EndBatch
<1>9. CASE Exit
  <2>1. /\ "stop" \in Causes /\ ToSet(queue) \in SUBSET Results
    BY <1>0 DEF Causes, ToSet
  <2>2. TypeOK' /\ LoopShape'
    BY <1>0, <1>9, <1>a, <2>1, GivenKeeps DEF Exit, TypeOK, LoopShape, Locs, flight, ghosts
  <2>3. Kept
    BY <1>0, <1>9, <2>1, GivenKeeps, SettledStays
       DEF Exit, Kept, Held, InMemory, Chunked, Settled, flight, ghosts
  <2> QED BY <1>1, <1>9, <2>2, <2>3 DEF Exit
<1>10. CASE Stop
  <2> DEFINE lost == ToSet(batch) \cup Chunked({"trying", "transient"})
  <2>1. /\ StartFlush("finalPosting", "down")
        /\ Given("stop", lost) /\ "stop" \in Causes
        /\ UNCHANGED <<diskState, pushed, answered>>
        /\ restarts < MaxRestarts /\ restarts' = restarts + 1
    BY <1>10 DEF Stop, Causes
  <2>6. lost \in SUBSET Results /\ restarts' \in 0 .. MaxRestarts
    BY <1>0, <2>1, WaitingResults DEF TypeOK, ReporterConstants
  <2>2. recorded \subseteq recorded' /\ recorded' \subseteq Results /\ answered' \subseteq recorded'
    <3>1. PICK S \in SUBSET Chunked({"trying"}) : recorded' = recorded \cup S
      BY <1>10 DEF Stop
    <3> QED BY <1>0, <2>1, <3>1, WaitingResults DEF TypeOK
  <2>3. /\ dropped' \in [Causes -> SUBSET Results]
        /\ \A c \in Causes : dropped[c] \subseteq dropped'[c]
        /\ \A r \in lost : \E c \in Causes : r \in dropped'[c]
    BY <1>0, <2>1, <2>6, GivenKeeps
  <2>4. LoopShape' /\ loop' \in Locs
    BY <1>0, <2>1, FlushKeeps DEF LoopShape, Locs
  <2>7. TypeOK'
    BY <1>0, <1>a, <2>1, <2>2, <2>3, <2>4, <2>6, FlushKeeps DEF TypeOK
  <2>5. Kept
    <3>1. ToSet(queue) \cup ToSet(disk) \subseteq Held'
      BY <1>0, <2>1, FlushKeeps
    <3>2. \A r : Settled(r) => Settled(r)'
      BY <2>2, <2>3, SettledStays
    <3>3. \A r \in lost : Settled(r)'
      BY <2>3 DEF Settled
    <3> QED BY <3>1, <3>2, <3>3 DEF Kept, Held, InMemory
  <2> QED BY <1>1, <2>1, <2>4, <2>5, <2>7
<1>11. CASE Crash
  <2>1. /\ "crash" \in Causes
        /\ ToSet(queue) \cup ToSet(batch) \cup Chunked({"trying", "transient"}) \in SUBSET Results
    BY <1>0, WaitingResults DEF Causes
  <2>2. /\ dropped' \in [Causes -> SUBSET Results]
        /\ \A c \in Causes : dropped[c] \subseteq dropped'[c]
        /\ \A r \in ToSet(queue) \cup ToSet(batch) \cup Chunked({"trying", "transient"}) :
              \E c \in Causes : r \in dropped'[c]
    BY <1>0, <1>11, <2>1, GivenKeeps DEF Crash
  <2>3. /\ queue' = <<>> /\ batch' = <<>> /\ chunk' = <<>> /\ loop' = "down"
        /\ UNCHANGED <<disk, flushes, diskState, pushed, recorded, answered>>
        /\ restarts < MaxRestarts /\ restarts' = restarts + 1
    BY <1>11 DEF Crash, ghosts
  <2>4. TypeOK' /\ LoopShape'
    BY <1>0, <1>a, <2>2, <2>3 DEF TypeOK, LoopShape, Locs, ReporterConstants
  <2>5. Kept
    BY <2>2, <2>3 DEF Kept, Held, InMemory, Settled
  <2> QED BY <1>1, <2>3, <2>4, <2>5
<1>12. CASE Start
  <2>1. TypeOK' /\ LoopShape'
    BY <1>0, <1>12 DEF Start, TypeOK, LoopShape, Locs, flight, ghosts, ReporterConstants
  <2>2. Kept
    BY <1>12 DEF Start, Kept, Held, InMemory, Chunked, Settled, flight, ghosts
  <2> QED BY <1>1, <1>12, <2>1, <2>2 DEF Start
<1>13. CASE DiskFills \/ DiskFreed
  <2>1. TypeOK' /\ LoopShape'
    BY <1>0, <1>13 DEF DiskFills, DiskFreed, TypeOK, LoopShape, flight, ghosts
  <2>2. Kept
    BY <1>13 DEF DiskFills, DiskFreed, Kept, Held, InMemory, Chunked, Settled, flight, ghosts
  <2> QED BY <1>1, <1>13, <2>1, <2>2 DEF DiskFills, DiskFreed
<1>14. CASE UNCHANGED vars
  BY <1>0, <1>14
     DEF vars, DeliveryInv, TypeOK, LoopShape, NothingSilentlyLost, Held, InMemory, Chunked, Settled
<1> QED BY <1>2, <1>3, <1>4, <1>5, <1>6, <1>7, <1>8, <1>9, <1>10, <1>11, <1>12, <1>13,
           <1>14 DEF Next
-----------------------------------------------------------------------------
\* The reporter's variables keep their types, the queue and the file their bounds.
THEOREM ReporterTypes == ASSUME ReporterConstants PROVE Spec => []TypeOK
<1>1. Init => DeliveryInv
  BY InitInv
<1>2. DeliveryInv /\ [Next]_vars => DeliveryInv'
  BY Step
<1>3. DeliveryInv => TypeOK
  BY DEF DeliveryInv
<1> QED BY <1>1, <1>2, <1>3, PTL DEF Spec

\* No result vanishes between push_result and the server, whatever fails and
\* restarts: it is held, stored, or given up for a named cause.
THEOREM NoResultVanishes == ASSUME ReporterConstants PROVE Spec => []NothingSilentlyLost
<1>1. Init => DeliveryInv
  BY InitInv
<1>2. DeliveryInv /\ [Next]_vars => DeliveryInv'
  BY Step
<1>3. DeliveryInv => NothingSilentlyLost
  BY DEF DeliveryInv
<1> QED BY <1>1, <1>2, <1>3, PTL DEF Spec
-----------------------------------------------------------------------------
\* A sequence without repetition.
Distinct(s) == \A i, j \in DOMAIN s : s[i] = s[j] => i = j

\* Entries of the chunk whose result the probe may send again.
Waiting(i) == chunk[i].verdict \in {"trying", "transient"}
DistinctChunk ==
    \A i, j \in DOMAIN chunk : Waiting(i) /\ Waiting(j) /\ chunk[i].res = chunk[j].res => i = j

\* A result is in one place, and in none once its answer has arrived.
OncePlaced ==
    /\ Distinct(queue) /\ Distinct(batch) /\ Distinct(disk) /\ DistinctChunk
    /\ ToSet(queue) \cap ToSet(batch) = {} /\ ToSet(queue) \cap ToSet(disk) = {}
    /\ ToSet(batch) \cap ToSet(disk) = {}
    /\ Chunked({"trying", "transient"}) \cap (ToSet(queue) \cup ToSet(batch) \cup ToSet(disk)) = {}
    /\ answered \cap Held = {}

\* Only results that were produced are held or answered.
Known == Held \cup answered \subseteq 1 .. pushed

\* While the disk has never failed: pop_batch does not shorten a full disk's file.
OnceInv == Known /\ (diskState = "fine" => OncePlaced)

\* Cutting a chunk off a batch puts no result in both.
LEMMA ChunkOnce ==
    ASSUME ReporterConstants, NEW s \in Seq(Results)
    PROVE  /\ ToSet(AfterChunk(s)) \subseteq ToSet(s)
           /\ \A i \in DOMAIN FirstChunk(s) : FirstChunk(s)[i].res \in ToSet(s)
           /\ Distinct(s) =>
                 /\ Distinct(AfterChunk(s))
                 /\ \A i \in DOMAIN FirstChunk(s) : FirstChunk(s)[i].res \notin ToSet(AfterChunk(s))
                 /\ \A i, j \in DOMAIN FirstChunk(s) :
                       FirstChunk(s)[i].res = FirstChunk(s)[j].res => i = j
<1> DEFINE n == IF Len(s) < FlushBatchSize THEN Len(s) ELSE FlushBatchSize
           first == FirstChunk(s)
           after == AfterChunk(s)
<1>1. n \in 0 .. Len(s) /\ n <= FlushBatchSize /\ FlushBatchSize \in Nat \ {0}
      /\ (n = Len(s) \/ n = FlushBatchSize) /\ Len(s) \in Nat
  BY DEF ReporterConstants
<1>2. DOMAIN first = 1 .. n
  BY DEF FirstChunk
<1>3. \A i \in DOMAIN first : i \in DOMAIN s /\ i <= FlushBatchSize /\ first[i].res = s[i]
  BY <1>1, <1>2, ChunkSplits
<1>4. /\ Len(after) = IF Len(s) < FlushBatchSize THEN 0 ELSE Len(s) - FlushBatchSize
      /\ after \in Seq(Results)
      /\ \A i \in 1 .. Len(s) - FlushBatchSize : after[i] = s[i + FlushBatchSize]
  BY <1>1 DEF AfterChunk
<1> HIDE DEF n, first, after
<1>5. \A i \in DOMAIN after : i + FlushBatchSize \in DOMAIN s /\ after[i] = s[i + FlushBatchSize]
                              /\ i \in Nat \ {0}
  BY <1>1, <1>4
<1>6. \A i \in DOMAIN first : first[i].res \in ToSet(s)
  BY <1>3 DEF ToSet
<1>7. ToSet(after) \subseteq ToSet(s)
  BY <1>5 DEF ToSet
<1>8. ASSUME Distinct(s)
      PROVE  /\ Distinct(after)
             /\ \A i \in DOMAIN first : first[i].res \notin ToSet(after)
             /\ \A i, j \in DOMAIN first : first[i].res = first[j].res => i = j
  <2>1. Distinct(after)
    BY <1>1, <1>5, <1>8 DEF Distinct
  <2>2. \A i, j \in DOMAIN first : first[i].res = first[j].res => i = j
    BY <1>3, <1>8 DEF Distinct
  <2>3. ASSUME NEW i \in DOMAIN first, NEW j \in DOMAIN after
        PROVE  first[i].res # after[j]
    <3>1. i # j + FlushBatchSize
      BY <1>1, <1>2, <1>3, <1>5
    <3> QED BY <1>3, <1>5, <1>8, <3>1 DEF Distinct
  <2> QED BY <2>1, <2>2, <2>3 DEF ToSet
<1> QED BY <1>6, <1>7, <1>8 DEF first, after

\* What is popped is no longer in the rest.
LEMMA PoppedOnce ==
    ASSUME ReporterConstants, TypeOK
    PROVE  /\ ToSet(Popped) \cup ToSet(Rest) \subseteq ToSet(disk)
           /\ Distinct(disk) =>
                 /\ Distinct(Popped) /\ Distinct(Rest) /\ ToSet(Popped) \cap ToSet(Rest) = {}
<1> DEFINE n == IF flushes + 1 = SpillRetryEvery
                THEN IF Len(disk) < SpillBatch THEN Len(disk) ELSE SpillBatch
                ELSE 0
<1>1. disk \in Seq(Results) /\ n \in 0 .. Len(disk)
  BY DEF TypeOK, ReporterConstants, SpillBatch
<1>2. Popped = SubSeq(disk, 1, n)
  BY <1>1 DEF Popped
<1> HIDE DEF n
<1>3. /\ Popped \in Seq(Results) /\ Len(Popped) = n
      /\ \A i \in 1 .. n : Popped[i] = disk[i]
  BY <1>1, <1>2
<1>4. /\ Rest \in Seq(Results) /\ Len(Rest) = Len(disk) - n
      /\ \A i \in 1 .. Len(disk) - n : Rest[i] = disk[i + n]
  BY <1>1, <1>3 DEF Rest
<1>5. \A i \in DOMAIN Popped : i \in DOMAIN disk /\ i <= n /\ Popped[i] = disk[i]
  BY <1>1, <1>3
<1>6. \A i \in DOMAIN Rest : i + n \in DOMAIN disk /\ i \in Nat \ {0} /\ Rest[i] = disk[i + n]
  BY <1>1, <1>4
<1>7. ToSet(Popped) \cup ToSet(Rest) \subseteq ToSet(disk)
  BY <1>5, <1>6 DEF ToSet
<1>8. ASSUME Distinct(disk)
      PROVE  Distinct(Popped) /\ Distinct(Rest) /\ ToSet(Popped) \cap ToSet(Rest) = {}
  <2>1. Distinct(Popped)
    BY <1>5, <1>8 DEF Distinct
  <2>2. Distinct(Rest)
    BY <1>1, <1>6, <1>8 DEF Distinct
  <2>3. ASSUME NEW i \in DOMAIN Popped, NEW j \in DOMAIN Rest
        PROVE  Popped[i] # Rest[j]
    <3>1. i # j + n
      BY <1>1, <1>3, <1>5, <1>6
    <3> QED BY <1>5, <1>6, <1>8, <3>1 DEF Distinct
  <2> QED BY <2>1, <2>2, <2>3 DEF ToSet
<1> QED BY <1>7, <1>8

\* One sequence after another repeats nothing the two do not share.
LEMMA JoinOnce ==
    ASSUME NEW s \in Seq(Results), NEW t \in Seq(Results)
    PROVE  /\ ToSet(s \o t) \subseteq ToSet(s) \cup ToSet(t)
           /\ Distinct(s) /\ Distinct(t) /\ ToSet(s) \cap ToSet(t) = {} => Distinct(s \o t)
<1> DEFINE all == s \o t
<1>1. /\ Len(all) = Len(s) + Len(t) /\ all \in Seq(Results)
      /\ \A i \in 1 .. Len(s) : all[i] = s[i]
      /\ \A i \in 1 .. Len(t) : all[i + Len(s)] = t[i]
      /\ Len(s) \in Nat /\ Len(t) \in Nat
  OBVIOUS
<1> HIDE DEF all
<1>2. \A i \in DOMAIN all : \/ i \in DOMAIN s /\ all[i] = s[i]
                            \/ i - Len(s) \in DOMAIN t /\ all[i] = t[i - Len(s)] /\ i > Len(s)
  BY <1>1
<1>3. ToSet(all) \subseteq ToSet(s) \cup ToSet(t)
  BY <1>2 DEF ToSet
<1>4. ASSUME Distinct(s), Distinct(t), ToSet(s) \cap ToSet(t) = {},
             NEW i \in DOMAIN all, NEW j \in DOMAIN all, all[i] = all[j]
      PROVE  i = j
  <2>1. \A k \in DOMAIN s, l \in DOMAIN t : s[k] # t[l]
    BY <1>4 DEF ToSet
  <2>2. i \in Int /\ j \in Int
    BY <1>1
  <2>3. CASE i \in DOMAIN s /\ all[i] = s[i]
    BY <1>2, <1>4, <2>1, <2>3 DEF Distinct
  <2>4. CASE i - Len(s) \in DOMAIN t /\ all[i] = t[i - Len(s)] /\ i > Len(s)
    <3>1. j - Len(s) \in DOMAIN t /\ all[j] = t[j - Len(s)]
      BY <1>2, <1>4, <2>1, <2>4
    <3>2. i - Len(s) = j - Len(s)
      BY <1>4, <2>4, <3>1 DEF Distinct
    <3> QED BY <1>1, <2>2, <3>2
  <2> QED BY <1>2, <2>3, <2>4
<1> QED BY <1>3, <1>4 DEF Distinct, all

\* A spilled result is in the file once.
LEMMA SpillOnce ==
    ASSUME ReporterConstants, TypeOK, NEW r \in Results, Spill(r)
    PROVE  /\ ToSet(disk') \subseteq ToSet(disk) \cup {r}
           /\ Distinct(disk) /\ r \notin ToSet(disk) => Distinct(disk')
<1>1. CASE diskState = "full"
  BY <1>1 DEF Spill
<1>2. CASE diskState # "full"
  <2> DEFINE lines == Append(disk, r)
             n == IF Len(lines) > CompactAt /\ Len(lines) > MaxEntries
                  THEN Len(lines) - MaxEntries ELSE 0
  <2>1. disk \in Seq(Results) /\ disk' = Compacted(lines) /\ MaxEntries \in Nat \ {0}
    BY <1>2 DEF Spill, TypeOK, ReporterConstants
  <2>2. /\ lines \in Seq(Results) /\ Len(lines) = Len(disk) + 1 /\ Len(disk) \in Nat
        /\ lines[Len(disk) + 1] = r /\ \A i \in DOMAIN disk : lines[i] = disk[i]
    BY <2>1
  <2> HIDE DEF lines
  <2>3. n \in 0 .. Len(lines) /\ disk' = SubSeq(lines, n + 1, Len(lines))
    <3>1. CASE Len(lines) > CompactAt /\ Len(lines) > MaxEntries
      BY <2>1, <2>2, <3>1 DEF Compacted
    <3>2. CASE ~ (Len(lines) > CompactAt /\ Len(lines) > MaxEntries)
      <4>1. n = 0 /\ disk' = lines
        BY <2>1, <3>2 DEF Compacted
      <4>2. SubSeq(lines, 1, Len(lines)) = lines
        BY <2>2
      <4> QED BY <2>2, <4>1, <4>2
    <3> QED BY <3>1, <3>2
  <2> HIDE DEF n
  <2>4. \A i \in DOMAIN disk' : i + n \in DOMAIN lines /\ disk'[i] = lines[i + n] /\ i \in Nat
    BY <2>2, <2>3
  <2>5. \A i \in DOMAIN lines :
           \/ i \in DOMAIN disk /\ lines[i] = disk[i]
           \/ i = Len(disk) + 1 /\ lines[i] = r
    <3>1. DOMAIN lines = 1 .. Len(disk) + 1 /\ DOMAIN disk = 1 .. Len(disk)
      BY <2>1, <2>2
    <3> QED BY <2>2, <3>1
  <2>6. ToSet(disk') \subseteq ToSet(disk) \cup {r}
    BY <2>4, <2>5 DEF ToSet
  <2>7. ASSUME Distinct(disk), r \notin ToSet(disk)
        PROVE  Distinct(disk')
    <3>1. Distinct(lines)
      BY <2>5, <2>7 DEF Distinct, ToSet
    <3> QED BY <2>3, <2>4, <3>1 DEF Distinct
  <2> QED BY <2>6, <2>7
<1> QED BY <1>1, <1>2

\* A flush moves queue and popped lines into chunk and batch.
LEMMA FlushOnce ==
    ASSUME ReporterConstants, TypeOK, OnceInv, NEW posting, NEW idle, StartFlush(posting, idle),
           UNCHANGED <<diskState, pushed, answered>>
    PROVE  OnceInv'
<1> DEFINE all == queue \o Popped
<1>1. /\ queue \in Seq(Results) /\ Popped \in Seq(Results) /\ all \in Seq(Results)
      /\ ToSet(Popped) \cup ToSet(Rest) \subseteq ToSet(disk)
  BY PoppedSplits, PoppedOnce DEF TypeOK
<1>2. /\ queue' = <<>> /\ chunk' = FirstChunk(all) /\ batch' = AfterChunk(all)
      /\ disk' \in {disk, Rest} /\ (diskState = "fine" => disk' = Rest)
  BY DEF StartFlush
<1>3. ToSet(all) \subseteq ToSet(queue) \cup ToSet(disk)
  BY <1>1, JoinOnce
<1> HIDE DEF all
<1>4. /\ ToSet(batch') \subseteq ToSet(all)
      /\ Chunked({"trying", "transient"})' \subseteq ToSet(all)
      /\ ToSet(queue') = {} /\ ToSet(disk') \subseteq ToSet(disk)
  <2>1. ToSet(batch') \subseteq ToSet(all)
    BY <1>1, <1>2, ChunkOnce
  <2>2. \A i \in DOMAIN chunk' : chunk'[i].res \in ToSet(all)
    BY <1>1, <1>2, ChunkOnce
  <2>3. Chunked({"trying", "transient"})' \subseteq ToSet(all)
    BY <2>2 DEF Chunked
  <2>4. ToSet(queue') = {}
    BY <1>2 DEF ToSet
  <2> QED BY <1>1, <1>2, <2>1, <2>3, <2>4
<1>5. Held' \subseteq Held
  BY <1>3, <1>4 DEF Held, InMemory
<1>6. Known'
  BY <1>5 DEF OnceInv, Known
<1>7. ASSUME diskState = "fine"
      PROVE  OncePlaced'
  <2>1. OncePlaced /\ disk' = Rest
    BY <1>2, <1>7 DEF OnceInv
  <2>2. Distinct(all) /\ ToSet(all) \cap ToSet(disk') = {} /\ Distinct(disk')
    <3>1. /\ Distinct(queue) /\ Distinct(Popped) /\ Distinct(Rest)
          /\ ToSet(queue) \cap ToSet(disk) = {} /\ ToSet(Popped) \cap ToSet(Rest) = {}
      BY <2>1, PoppedOnce DEF OncePlaced
    <3>2. ToSet(all) \subseteq ToSet(queue) \cup ToSet(Popped)
      BY <1>1, JoinOnce DEF all
    <3> QED BY <1>1, <2>1, <3>1, <3>2, JoinOnce DEF all
  <2>3. /\ Distinct(batch') /\ DistinctChunk'
        /\ Chunked({"trying", "transient"})' \cap ToSet(batch') = {}
    BY <1>1, <1>2, <2>2, ChunkOnce DEF DistinctChunk, Waiting, Chunked
  <2>4. Distinct(queue')
    BY <1>2 DEF Distinct
  <2>5. answered' \cap Held' = {}
    BY <1>5, <2>1 DEF OncePlaced
  <2> QED BY <1>4, <2>2, <2>3, <2>4, <2>5 DEF OncePlaced
<1> QED BY <1>6, <1>7 DEF OnceInv

\* What the probe holds does not grow, and stays where it is.
LEMMA OnceShrinks ==
    ASSUME OnceInv, queue' = queue \/ queue' = <<>>, batch' = batch \/ batch' = <<>>,
           chunk' = chunk \/ chunk' = <<>>,
           UNCHANGED <<disk, pushed, answered>>,
           diskState' = "fine" => diskState = "fine"
    PROVE  OnceInv'
<1>1. /\ ToSet(queue') \subseteq ToSet(queue) /\ ToSet(batch') \subseteq ToSet(batch)
      /\ Chunked({"trying", "transient"})' \subseteq Chunked({"trying", "transient"})
  BY DEF ToSet, Chunked
<1>2. Held' \subseteq Held
  BY <1>1 DEF Held, InMemory
<1>3. Known'
  BY <1>2 DEF OnceInv, Known
<1>4. ASSUME OncePlaced
      PROVE  OncePlaced'
  <2>1. Distinct(queue') /\ Distinct(batch') /\ Distinct(disk') /\ DistinctChunk'
    BY <1>4 DEF OncePlaced, Distinct, DistinctChunk, Waiting
  <2>2. answered' \cap Held' = {}
    BY <1>2, <1>4 DEF OncePlaced
  <2> QED BY <1>1, <1>4, <2>1, <2>2 DEF OncePlaced
<1> QED BY <1>3, <1>4 DEF OnceInv

\* Waiting results are those of the waiting entries.
LEMMA ChunkedWaits ==
    /\ \A i \in DOMAIN chunk : Waiting(i) => chunk[i].res \in Chunked({"trying", "transient"})
    /\ \A r \in Chunked({"trying", "transient"}) :
          \E i \in DOMAIN chunk : Waiting(i) /\ chunk[i].res = r
BY DEF Waiting, Chunked

\* One attempt: the entry waits on, or its result leaves the chunk.
LEMMA PostedOnce ==
    ASSUME TypeOK, OnceInv, NEW i \in DOMAIN chunk, chunk[i].verdict = "trying",
           NEW t \in 0 .. Attempts, NEW v \in Verdicts, SetEntry(i, t, v),
           answered' = answered \/ (answered' = answered \cup {chunk[i].res} /\ v = "delivered"),
           UNCHANGED <<queue, disk, batch, diskState, pushed>>
    PROVE  OnceInv'
<1> DEFINE W == Chunked({"trying", "transient"})
<1>1. /\ DOMAIN chunk' = DOMAIN chunk
      /\ \A j \in DOMAIN chunk : chunk'[j].res = chunk[j].res
      /\ chunk'[i].verdict = v
      /\ \A j \in DOMAIN chunk \ {i} : chunk'[j].verdict = chunk[j].verdict
  BY EntryWritten
<1>2. Waiting(i) /\ \A j \in DOMAIN chunk : Waiting(j)' => Waiting(j)
  BY <1>1 DEF Waiting
<1>3. W' \subseteq W /\ chunk[i].res \in W
  <2>1. chunk[i].res \in W
    BY <1>2, ChunkedWaits
  <2>2. ASSUME NEW r \in W'
        PROVE  r \in W
    <3>1. PICK j \in DOMAIN chunk' : chunk'[j].verdict \in {"trying", "transient"} /\ chunk'[j].res = r
      BY <2>2 DEF Chunked
    <3>2. j \in DOMAIN chunk /\ Waiting(j) /\ chunk[j].res = r
      BY <1>1, <1>2, <3>1 DEF Waiting
    <3> QED BY <3>2, ChunkedWaits
  <2> QED BY <2>1, <2>2
<1>4. Held' \subseteq Held
  BY <1>3 DEF Held, InMemory
<1>5. Known'
  BY <1>3, <1>4 DEF OnceInv, Known, Held, InMemory
<1>6. ASSUME diskState = "fine"
      PROVE  OncePlaced'
  <2>1. OncePlaced
    BY <1>6 DEF OnceInv
  <2>2. DistinctChunk'
    BY <1>1, <1>2, <2>1 DEF OncePlaced, DistinctChunk, Waiting
  <2>3. v = "delivered" => chunk[i].res \notin Held'
    <3>1. ASSUME v = "delivered", chunk[i].res \in W'
          PROVE  FALSE
      <4>1. PICK j \in DOMAIN chunk' : /\ chunk'[j].verdict \in {"trying", "transient"}
                                       /\ chunk'[j].res = chunk[i].res
        BY <3>1 DEF Chunked
      <4>2. j \in DOMAIN chunk /\ j # i /\ Waiting(j) /\ chunk[j].res = chunk[i].res
        BY <1>1, <1>2, <3>1, <4>1 DEF Waiting
      <4> QED BY <1>2, <2>1, <4>2 DEF OncePlaced, DistinctChunk
    <3>2. chunk[i].res \notin ToSet(queue) \cup ToSet(batch) \cup ToSet(disk)
      BY <1>3, <2>1 DEF OncePlaced
    <3> QED BY <3>1, <3>2 DEF Held, InMemory
  <2>4. answered' \cap Held' = {}
    BY <1>4, <2>1, <2>3 DEF OncePlaced
  <2> QED BY <1>3, <2>1, <2>2, <2>4 DEF OncePlaced
<1> QED BY <1>5, <1>6 DEF OnceInv

\* One outcome settled: its result leaves the chunk, at most for the file.
LEMMA SettledOnce ==
    ASSUME ReporterConstants, TypeOK, OnceInv, SettleOne
    PROVE  OnceInv'
<1> DEFINE W == Chunked({"trying", "transient"})
<1>1. /\ chunk # <<>> /\ chunk \in Seq(Outcome) /\ 1 \in DOMAIN chunk /\ chunk[1].res \in Results
      /\ chunk' = Tail(chunk)
      /\ UNCHANGED <<queue, batch, diskState, pushed, answered>>
      /\ \/ Spill(chunk[1].res) /\ chunk[1].verdict = "transient"
         \/ UNCHANGED disk
  BY OutcomeFacts DEF SettleOne, TypeOK, ghosts
<1>2. \A j \in DOMAIN chunk' : j + 1 \in DOMAIN chunk /\ j + 1 # 1 /\ chunk'[j] = chunk[j + 1]
                               /\ j \in Int
  BY <1>1
<1>3. \A j \in DOMAIN chunk' : Waiting(j)' <=> Waiting(j + 1)
  BY <1>2 DEF Waiting
<1>4. \A r \in W' : \E j \in DOMAIN chunk : j # 1 /\ Waiting(j) /\ chunk[j].res = r
  BY <1>2, <1>3, ChunkedWaits DEF Chunked, Waiting
<1>5. W' \subseteq W
  BY <1>4, ChunkedWaits
<1>6. /\ ToSet(disk') \subseteq ToSet(disk) \cup {chunk[1].res}
      /\ disk' = disk \/ chunk[1].res \in W
  <2>1. CASE UNCHANGED disk
    BY <2>1
  <2>2. CASE Spill(chunk[1].res) /\ chunk[1].verdict = "transient"
    <3>1. Waiting(1)
      BY <2>2 DEF Waiting
    <3> QED BY <1>1, <2>2, <3>1, SpillOnce, ChunkedWaits
  <2> QED BY <1>1, <2>1, <2>2
<1>7. Held' \subseteq Held
  BY <1>1, <1>5, <1>6 DEF Held, InMemory
<1>8. Known'
  BY <1>1, <1>7 DEF OnceInv, Known
<1>9. ASSUME diskState = "fine"
      PROVE  OncePlaced'
  <2>1. OncePlaced
    BY <1>9 DEF OnceInv
  <2>2. DistinctChunk'
    <3>1. ASSUME NEW a \in DOMAIN chunk', NEW b \in DOMAIN chunk',
                 Waiting(a)', Waiting(b)', chunk'[a].res = chunk'[b].res
          PROVE  a = b
      <4>1. a + 1 = b + 1
        BY <1>2, <1>3, <2>1, <3>1 DEF OncePlaced, DistinctChunk
      <4> QED BY <1>2, <4>1
    <3> QED BY <3>1 DEF DistinctChunk, Waiting
  <2>3. ASSUME Spill(chunk[1].res), chunk[1].verdict = "transient"
        PROVE  /\ Distinct(disk') /\ ToSet(disk') \cap (ToSet(queue) \cup ToSet(batch)) = {}
               /\ ToSet(disk') \cap W' = {}
    <3>1. Waiting(1) /\ chunk[1].res \in W
      BY <1>1, <2>3, ChunkedWaits DEF Waiting
    <3>2. chunk[1].res \notin W'
      BY <1>1, <1>4, <2>1, <3>1 DEF OncePlaced, DistinctChunk
    <3>3. Distinct(disk')
      BY <1>1, <2>1, <2>3, <3>1, SpillOnce DEF OncePlaced
    <3> QED BY <1>5, <1>6, <2>1, <3>1, <3>2, <3>3 DEF OncePlaced
  <2>4. /\ Distinct(disk') /\ ToSet(disk') \cap (ToSet(queue) \cup ToSet(batch)) = {}
        /\ ToSet(disk') \cap W' = {}
    BY <1>1, <1>5, <2>1, <2>3 DEF OncePlaced
  <2>5. answered' \cap Held' = {}
    BY <1>1, <1>7, <2>1 DEF OncePlaced
  <2> QED BY <1>1, <1>5, <2>1, <2>2, <2>4, <2>5 DEF OncePlaced
<1> QED BY <1>1, <1>8, <1>9 DEF OnceInv

\* A new result comes in once: to the queue, or to the file.
LEMMA PushedOnce ==
    ASSUME ReporterConstants, TypeOK, OnceInv, PushResult
    PROVE  OnceInv'
<1>1. PICK new : new = pushed + 1
  OBVIOUS
<1>2. /\ new \in Results /\ pushed \in Nat /\ pushed' = new
      /\ UNCHANGED <<batch, chunk, diskState, answered>>
      /\ queue \in Seq(Results)
      /\ \/ queue' = Append(queue, new) /\ UNCHANGED disk
         \/ Spill(new) /\ UNCHANGED queue
  BY <1>1 DEF PushResult, TypeOK, Results, ReporterConstants, flight, ghosts
<1>3. Held \cup answered \subseteq 1 .. pushed /\ new \notin Held \cup answered
  BY <1>1, <1>2 DEF OnceInv, Known
<1>4. 1 .. pushed \subseteq 1 .. pushed' /\ new \in 1 .. pushed'
  BY <1>1, <1>2
<1>5. Chunked({"trying", "transient"})' = Chunked({"trying", "transient"})
      /\ (DistinctChunk <=> DistinctChunk')
  BY <1>2 DEF Chunked, DistinctChunk, Waiting
<1>6. /\ ToSet(queue') \cup ToSet(disk') \subseteq ToSet(queue) \cup ToSet(disk) \cup {new}
      /\ OncePlaced => /\ Distinct(queue') /\ Distinct(disk')
                       /\ ToSet(queue') \cap ToSet(disk') = {}
  <2>1. CASE queue' = Append(queue, new) /\ UNCHANGED disk
    <3>1. \A i \in DOMAIN queue' : \/ i \in DOMAIN queue /\ queue'[i] = queue[i]
                                   \/ i = Len(queue) + 1 /\ queue'[i] = new
      <4>1. DOMAIN queue' = 1 .. Len(queue) + 1 /\ DOMAIN queue = 1 .. Len(queue)
        BY <1>2, <2>1
      <4> QED BY <1>2, <2>1, <4>1
    <3>2. ToSet(queue') \subseteq ToSet(queue) \cup {new}
      BY <3>1 DEF ToSet
    <3>3. new \notin ToSet(queue) \cup ToSet(disk)
      BY <1>3 DEF Held, InMemory
    <3>4. Distinct(queue) => Distinct(queue')
      BY <3>1, <3>3 DEF Distinct, ToSet
    <3> QED BY <2>1, <3>2, <3>3, <3>4 DEF OncePlaced
  <2>2. CASE Spill(new) /\ UNCHANGED queue
    <3>1. new \notin ToSet(queue) \cup ToSet(disk)
      BY <1>3 DEF Held, InMemory
    <3>2. /\ ToSet(disk') \subseteq ToSet(disk) \cup {new}
          /\ Distinct(disk) => Distinct(disk')
      BY <1>2, <2>2, <3>1, SpillOnce
    <3> QED BY <2>2, <3>1, <3>2 DEF OncePlaced
  <2> QED BY <1>2, <2>1, <2>2
<1>7. Held' \subseteq Held \cup {new}
  BY <1>2, <1>5, <1>6 DEF Held, InMemory
<1>8. Known'
  BY <1>2, <1>3, <1>4, <1>7 DEF Known
<1>9. ASSUME OncePlaced
      PROVE  OncePlaced'
  <2>1. new \notin ToSet(queue) \cup ToSet(batch) \cup ToSet(disk) \cup Chunked({"trying", "transient"})
    BY <1>3 DEF Held, InMemory
  <2>2. ToSet(queue') \subseteq ToSet(queue) \cup ToSet(disk) \cup {new}
        /\ ToSet(disk') \subseteq ToSet(queue) \cup ToSet(disk) \cup {new}
    BY <1>6
  <2>3. answered' \cap Held' = {}
    BY <1>2, <1>3, <1>7, <1>9 DEF OncePlaced
  <2> QED BY <1>2, <1>5, <1>6, <1>9, <2>1, <2>2, <2>3 DEF OncePlaced
<1> QED BY <1>2, <1>8, <1>9 DEF OnceInv

\* While the disk is fine, no step duplicates a result.
LEMMA OnceStep ==
    ASSUME ReporterConstants, TypeOK, LoopShape, OnceInv, [Next]_vars
    PROVE  OnceInv'
<1>1. CASE PushResult
  BY <1>1, PushedOnce
<1>2. CASE FlushBatch
  BY <1>2, FlushOnce DEF FlushBatch, ghosts
<1>3. CASE PostOne
  <2>1. PICK i \in DOMAIN chunk : /\ chunk[i].verdict = "trying"
                                  /\ Delivered(i) \/ Rejected(i) \/ Unanswered(i)
    BY <1>3 DEF PostOne
  <2>2. /\ UNCHANGED <<queue, disk, batch, diskState, pushed>>
        /\ chunk[i].tries \in 0 .. Attempts - 1 /\ Attempts \in Nat
    BY <1>3, <2>1, OutcomeFacts DEF PostOne, LoopShape, ReporterConstants
  <2>3. PICK t \in 0 .. Attempts, v \in Verdicts :
           /\ SetEntry(i, t, v)
           /\ answered' = answered \/ (answered' = answered \cup {chunk[i].res} /\ v = "delivered")
    <3>1. CASE Delivered(i)
      BY <2>2, <3>1 DEF Delivered, Verdicts
    <3>2. CASE Rejected(i)
      BY <2>2, <3>2 DEF Rejected, Verdicts, ghosts
    <3>3. CASE Unanswered(i)
      <4>1. chunk[i].tries + 1 \in 0 .. Attempts
        BY <2>2
      <4> QED BY <3>3, <4>1 DEF Unanswered, Verdicts
    <3> QED BY <2>1, <3>1, <3>2, <3>3
  <2> QED BY <2>1, <2>2, <2>3, PostedOnce
<1>4. CASE SettleOne
  BY <1>4, SettledOnce
<1>5. CASE NextChunk
  <2>1. /\ chunk' = FirstChunk(batch) /\ batch' = AfterChunk(batch) /\ batch \in Seq(Results)
        /\ UNCHANGED <<queue, disk, diskState, pushed, answered>>
    BY <1>5 DEF NextChunk, TypeOK, ghosts
  <2>2. \A i \in DOMAIN chunk' : chunk'[i].res \in ToSet(batch)
    BY <2>1, ChunkOnce
  <2>3. /\ ToSet(batch') \subseteq ToSet(batch)
        /\ Chunked({"trying", "transient"})' \subseteq ToSet(batch)
    BY <2>1, <2>2, ChunkOnce DEF Chunked
  <2>4. Held' \subseteq Held
    BY <2>1, <2>3 DEF Held, InMemory
  <2>5. ASSUME OncePlaced
        PROVE  OncePlaced'
    <3>1. /\ Distinct(batch') /\ DistinctChunk'
          /\ Chunked({"trying", "transient"})' \cap ToSet(batch') = {}
      BY <2>1, <2>5, ChunkOnce DEF OncePlaced, DistinctChunk, Waiting, Chunked
    <3>2. answered' \cap Held' = {}
      BY <2>1, <2>4, <2>5 DEF OncePlaced
    <3> QED BY <2>1, <2>3, <2>5, <3>1, <3>2 DEF OncePlaced
  <2> QED BY <2>1, <2>4, <2>5 DEF OnceInv, Known
<1>6. CASE Stop
  BY <1>6, FlushOnce DEF Stop
<1>7. CASE Gathered \/ EndBatch \/ Exit \/ Crash \/ Start \/ DiskFills \/ DiskFreed
  BY <1>7, OnceShrinks
     DEF Gathered, EndBatch, Exit, Crash, Start, DiskFills, DiskFreed, flight, ghosts
<1>8. CASE UNCHANGED vars
  BY <1>8, OnceShrinks DEF vars
<1> QED BY <1>1, <1>2, <1>3, <1>4, <1>5, <1>6, <1>7, <1>8 DEF Next

\* As long as the disk never failed, what the server confirmed is held nowhere and
\* so never sent again, whatever crashes, times out or is spilled.
THEOREM AnsweredNeverSentAgain == ASSUME ReporterConstants PROVE Spec => []AnsweredNotKept
<1>1. Init => DeliveryInv /\ OnceInv
  <2>1. ASSUME Init
        PROVE  OnceInv
    BY <2>1 DEF Init, OnceInv, Known, OncePlaced, Distinct, DistinctChunk, Held, InMemory,
            Chunked, ToSet
  <2> QED BY <2>1, InitInv
<1>2. DeliveryInv /\ OnceInv /\ [Next]_vars => (DeliveryInv /\ OnceInv)'
  BY Step, OnceStep DEF DeliveryInv
<1>3. OnceInv => AnsweredNotKept
  BY DEF OnceInv, OncePlaced, AnsweredNotKept
<1> QED BY <1>1, <1>2, <1>3, PTL DEF Spec
=============================================================================
