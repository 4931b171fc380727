--------------------------- MODULE ProbeReporter ---------------------------
(***************************************************************************)
(* probe/whatisup_probe/reporter.py and spill.py: how check results leave  *)
(* a probe.  push_result puts a result in a bounded in-memory queue, or on *)
(* disk when the queue is full.  The flush loop drains the queue, every    *)
(* SpillRetryEvery-th time also takes the oldest spilled results, and      *)
(* posts the batch chunk by chunk, the results of a chunk concurrently and *)
(* each up to Attempts times.  What stays unanswered goes to disk.         *)
(*                                                                         *)
(* A result is a number, in the order of production.  One line of the      *)
(* spill file counts as one unit of its size.                              *)
(***************************************************************************)
EXTENDS Naturals, Sequences, SequencesExt

CONSTANTS
    MaxResults,       \* bound: results the probe produces
    QueueMaxSize,     \* _QUEUE_MAX_SIZE
    FlushBatchSize,   \* _FLUSH_BATCH_SIZE
    SpillRetryEvery,  \* _SPILL_RETRY_EVERY
    Attempts,         \* range(3) of _post_one
    MaxEntries,       \* result_spill_max_entries
    CompactAt,        \* _COMPACT_THRESHOLD_BYTES, in lines
    MaxRestarts,      \* bound: stops and crashes of the probe
    DiskMayFail       \* may the disk be full for a while

ReporterConstants ==
    /\ MaxResults \in Nat /\ QueueMaxSize \in Nat /\ MaxRestarts \in Nat
    /\ CompactAt \in Nat
    /\ FlushBatchSize \in Nat \ {0} /\ SpillRetryEvery \in Nat \ {0}
    /\ Attempts \in Nat \ {0} /\ MaxEntries \in Nat \ {0}
    /\ DiskMayFail \in BOOLEAN

VARIABLES
    queue,      \* _queue
    disk,       \* the lines of the spill file, oldest first
    batch,      \* results of the running _flush_batch, not yet in a chunk
    chunk,      \* the current chunk: [res, tries, verdict] per _post_one
    loop,       \* where the process is
    flushes,    \* _flush_count modulo SpillRetryEvery
    diskState,  \* "fine", "full", or "freed": full once, no longer
    pushed,     \* results produced so far
    recorded,   \* results the server has stored
    answered,   \* results whose 2xx answer reached the probe
    dropped,    \* [cause -> results] given up, and why
    restarts    \* stops and crashes so far

vars == <<queue, disk, batch, chunk, loop, flushes, diskState, pushed, recorded,
          answered, dropped, restarts>>
flight == <<batch, chunk>>
ghosts == <<recorded, answered>>

Results == 1 .. MaxResults
Causes == {"rejected", "evicted", "diskFull", "crash", "stop"}
Verdicts == {"trying", "delivered", "rejected", "transient"}

\* "sleeping": in asyncio.sleep; "posting": in gather; "settling": the loop
\* over the outcomes, no await in it; the same in stop()'s final flush;
\* "down": no process.
Locs == {"sleeping", "posting", "settling",
         "finalPosting", "finalSettling", "down"}

Up == loop # "down"
Final == loop \in {"finalPosting", "finalSettling"}

Chunked(V) == {chunk[i].res : i \in {j \in DOMAIN chunk : chunk[j].verdict \in V}}

\* Results the probe still owes to the server.
InMemory == ToSet(queue) \cup ToSet(batch) \cup Chunked({"trying", "transient"})
Held == InMemory \cup ToSet(disk)

Given(cause, S) == dropped' = [dropped EXCEPT ![cause] = @ \cup S]

\* What _post_one knows of a result.
Outcome == [res : Results, tries : 0 .. Attempts, verdict : Verdicts]

Entry(r) == [res |-> r, tries |-> 0, verdict |-> "trying"]
FirstChunk(s) == [i \in 1 .. (IF Len(s) < FlushBatchSize THEN Len(s)
                                                         ELSE FlushBatchSize)
                      |-> Entry(s[i])]
AfterChunk(s) == SubSeq(s, FlushBatchSize + 1, Len(s))
-----------------------------------------------------------------------------
\* Mutant: the file is never compacted.
CompactedNever(lines) == lines

\* DiskSpill._compact_locked, run by append above the threshold: the newest
\* MaxEntries lines stay.
Compacted(lines) ==
    IF Len(lines) > CompactAt /\ Len(lines) > MaxEntries
    THEN SubSeq(lines, Len(lines) - MaxEntries + 1, Len(lines))
    ELSE lines

\* DiskSpill.append: best effort, a failing write loses the result.
Spill(r) ==
    IF diskState = "full"
    THEN /\ Given("diskFull", {r})
         /\ UNCHANGED disk
    ELSE /\ disk' = Compacted(Append(disk, r))
         /\ Given("evicted", (ToSet(disk) \cup {r}) \ ToSet(disk'))

\* DiskSpill.pop_batch: the oldest lines leave the file; on a full disk the
\* rewrite fails and they are returned all the same.  Removing the file, when
\* no line is left, needs no space.
SpillBatch == 2 * FlushBatchSize

\* Mutant: the counter is compared before it is raised.
PoppedOffByOne ==
    IF flushes = SpillRetryEvery
    THEN SubSeq(disk, 1, IF Len(disk) < SpillBatch THEN Len(disk) ELSE SpillBatch)
    ELSE <<>>

Popped == IF flushes + 1 = SpillRetryEvery
          THEN SubSeq(disk, 1, IF Len(disk) < SpillBatch THEN Len(disk) ELSE SpillBatch)
          ELSE <<>>
Rest == SubSeq(disk, Len(Popped) + 1, Len(disk))

Init ==
    /\ queue = <<>> /\ disk = <<>> /\ batch = <<>> /\ chunk = <<>>
    /\ loop = "sleeping" /\ flushes = 0 /\ diskState = "fine"
    /\ pushed = 0 /\ recorded = {} /\ answered = {}
    /\ dropped = [c \in Causes |-> {}] /\ restarts = 0

\* Mutant: a full queue discards its oldest result.
PushResultDiscards ==
    /\ loop \in {"sleeping", "posting", "finalPosting"} /\ pushed < MaxResults
    /\ pushed' = pushed + 1
    /\ queue' = Append(IF Len(queue) < QueueMaxSize THEN queue ELSE Tail(queue),
                       pushed + 1)
    /\ UNCHANGED <<disk, dropped, flight, loop, flushes, diskState, ghosts, restarts>>

\* Reporter.push_result.  The loop over the outcomes has no await, so no push
\* falls into it.
PushResult ==
    /\ loop \in {"sleeping", "posting", "finalPosting"} /\ pushed < MaxResults
    /\ pushed' = pushed + 1
    /\ \/ /\ Len(queue) < QueueMaxSize
          /\ queue' = Append(queue, pushed + 1)
          /\ UNCHANGED <<disk, dropped>>
       \/ /\ Len(queue) >= QueueMaxSize
          /\ Spill(pushed + 1)
          /\ UNCHANGED queue
    /\ UNCHANGED <<flight, loop, flushes, diskState, ghosts, restarts>>

\* _flush_batch up to its first gather: drain the queue, every
\* SpillRetryEvery-th time take spilled results too.
StartFlush(posting, idle) ==
    LET all == queue \o Popped IN
    /\ queue' = <<>>
    /\ flushes' = (flushes + 1) % SpillRetryEvery
    /\ disk' = IF diskState = "full" /\ Rest # <<>> THEN disk ELSE Rest
    /\ chunk' = FirstChunk(all)
    /\ batch' = AfterChunk(all)
    /\ loop' = IF all = <<>> THEN idle ELSE posting

FlushBatch ==
    /\ loop = "sleeping"
    /\ StartFlush("posting", "sleeping")
    /\ UNCHANGED <<diskState, pushed, ghosts, dropped, restarts>>

SetEntry(i, tries, verdict) ==
    chunk' = [chunk EXCEPT ![i].tries = tries, ![i].verdict = verdict]

\* One attempt of _post_one for the i-th result of the chunk.  The server
\* stores it and the answer arrives (2xx); stores it and the answer is lost
\* (timeout); fails before (connection error, 5xx); or refuses it (4xx).
Delivered(i) ==
    /\ SetEntry(i, chunk[i].tries, "delivered")
    /\ recorded' = recorded \cup {chunk[i].res}
    /\ answered' = answered \cup {chunk[i].res}
    /\ UNCHANGED dropped

Rejected(i) ==
    /\ SetEntry(i, chunk[i].tries, "rejected")
    /\ Given("rejected", {chunk[i].res})
    /\ UNCHANGED ghosts

Unanswered(i) ==
    /\ SetEntry(i, chunk[i].tries + 1,
                IF chunk[i].tries + 1 < Attempts THEN "trying" ELSE "transient")
    /\ recorded' \in {recorded, recorded \cup {chunk[i].res}}
    /\ UNCHANGED <<answered, dropped>>

PostOne ==
    /\ loop \in {"posting", "finalPosting"}
    /\ \E i \in DOMAIN chunk :
          /\ chunk[i].verdict = "trying"
          /\ Delivered(i) \/ Rejected(i) \/ Unanswered(i)
    /\ UNCHANGED <<queue, disk, batch, loop, flushes, diskState, pushed, restarts>>

\* gather returns when every _post_one has.
Gathered ==
    /\ loop \in {"posting", "finalPosting"}
    /\ \A i \in DOMAIN chunk : chunk[i].verdict # "trying"
    /\ loop' = IF Final THEN "finalSettling" ELSE "settling"
    /\ UNCHANGED <<queue, disk, flight, flushes, diskState, pushed, ghosts,
                   dropped, restarts>>

\* Mutant: delivered results are spilled too.
SettleOneSpillsAll ==
    /\ loop \in {"settling", "finalSettling"} /\ chunk # <<>>
    /\ \/ /\ chunk[1].verdict # "rejected"
          /\ Spill(chunk[1].res)
       \/ /\ chunk[1].verdict = "rejected"
          /\ UNCHANGED <<disk, dropped>>
    /\ chunk' = Tail(chunk)
    /\ UNCHANGED <<queue, batch, loop, flushes, diskState, pushed, ghosts, restarts>>

\* The loop over the outcomes, result by result: what stayed unanswered is
\* spilled.
SettleOne ==
    /\ loop \in {"settling", "finalSettling"} /\ chunk # <<>>
    /\ \/ /\ chunk[1].verdict = "transient"
          /\ Spill(chunk[1].res)
       \/ /\ chunk[1].verdict # "transient"
          /\ UNCHANGED <<disk, dropped>>
    /\ chunk' = Tail(chunk)
    /\ UNCHANGED <<queue, batch, loop, flushes, diskState, pushed, ghosts, restarts>>

\* The next chunk, or the end of the batch; after stop()'s final flush the
\* process ends, and with it what was pushed during that flush.
NextChunk ==
    /\ loop \in {"settling", "finalSettling"} /\ chunk = <<>> /\ batch # <<>>
    /\ chunk' = FirstChunk(batch)
    /\ batch' = AfterChunk(batch)
    /\ loop' = IF Final THEN "finalPosting" ELSE "posting"
    /\ UNCHANGED <<queue, disk, flushes, diskState, pushed, ghosts, dropped, restarts>>

EndBatch ==
    /\ loop = "settling" /\ chunk = <<>> /\ batch = <<>>
    /\ loop' = "sleeping"
    /\ UNCHANGED <<queue, disk, flight, flushes, diskState, pushed, ghosts,
                   dropped, restarts>>

Exit ==
    /\ loop = "finalSettling" /\ chunk = <<>> /\ batch = <<>>
    /\ loop' = "down"
    /\ queue' = <<>>
    /\ Given("stop", ToSet(queue))
    /\ UNCHANGED <<disk, flight, flushes, diskState, pushed, ghosts, restarts>>

\* Reporter.stop: the cancellation ends a _flush_batch at its await, with the
\* results it had taken off the queue (requests under way may still be
\* stored); then a last _flush_batch.
Stop ==
    /\ loop \in {"sleeping", "posting"} /\ restarts < MaxRestarts
    /\ restarts' = restarts + 1
    /\ StartFlush("finalPosting", "down")
    /\ \E S \in SUBSET Chunked({"trying"}) : recorded' = recorded \cup S
    /\ Given("stop", ToSet(batch) \cup Chunked({"trying", "transient"}))
    /\ UNCHANGED <<diskState, pushed, answered>>

\* The process is killed: memory is gone, the file stays.
Crash ==
    /\ Up /\ restarts < MaxRestarts
    /\ restarts' = restarts + 1
    /\ loop' = "down"
    /\ queue' = <<>> /\ batch' = <<>> /\ chunk' = <<>>
    /\ Given("crash", ToSet(queue) \cup ToSet(batch) \cup Chunked({"trying", "transient"}))
    /\ UNCHANGED <<disk, flushes, diskState, pushed, ghosts>>

Start ==
    /\ loop = "down"
    /\ loop' = "sleeping"
    /\ flushes' = 0
    /\ UNCHANGED <<queue, disk, flight, diskState, pushed, ghosts, dropped, restarts>>

DiskFills ==
    /\ DiskMayFail /\ diskState = "fine"
    /\ diskState' = "full"
    /\ UNCHANGED <<queue, disk, flight, loop, flushes, pushed, ghosts, dropped, restarts>>

DiskFreed ==
    /\ diskState = "full"
    /\ diskState' = "freed"
    /\ UNCHANGED <<queue, disk, flight, loop, flushes, pushed, ghosts, dropped, restarts>>

Next ==
    \/ PushResult \/ FlushBatch \/ PostOne \/ Gathered \/ SettleOne \/ NextChunk
    \/ EndBatch \/ Exit \/ Stop \/ Crash \/ Start \/ DiskFills \/ DiskFreed

Spec == Init /\ [][Next]_vars

\* The flush loop survives every exception (_flush_loop) and a dead probe is
\* started again.
Flush ==
    \/ FlushBatch \/ PostOne \/ Gathered \/ SettleOne \/ NextChunk \/ EndBatch
    \/ Exit \/ Start

\* The server does not lose every answer.
Answer ==
    /\ PostOne
    /\ \E i \in DOMAIN chunk : chunk[i].verdict = "trying" /\ Delivered(i)

FairSpec == Spec /\ WF_vars(Flush) /\ SF_vars(Answer)
-----------------------------------------------------------------------------
TypeOK ==
    /\ queue \in Seq(Results) /\ Len(queue) <= QueueMaxSize
    /\ disk \in Seq(Results)
    /\ Len(disk) <= CompactAt \/ Len(disk) <= MaxEntries
    /\ batch \in Seq(Results)
    /\ chunk \in Seq(Outcome)
    /\ Len(chunk) <= FlushBatchSize
    /\ loop \in Locs /\ flushes \in 0 .. SpillRetryEvery - 1
    /\ diskState \in {"fine", "full", "freed"}
    /\ pushed \in 0 .. MaxResults
    /\ recorded \subseteq Results /\ answered \subseteq recorded
    /\ dropped \in [Causes -> SUBSET Results]
    /\ restarts \in 0 .. MaxRestarts

Settled(r) == r \in recorded \cup UNION {dropped[c] : c \in Causes}

\* No result vanishes on its way through queue, batch, chunk and file: each
\* one produced is still held, stored by the server, or was given up for one
\* of the named causes (reporter.py, spill.py).
NothingSilentlyLost == \A r \in 1 .. pushed : r \in Held \/ Settled(r)

\* A result whose 2xx answer arrived is held nowhere, so it is never sent
\* again: duplicates come from lost answers only (_post_one, _flush_batch).
\* A full disk breaks this, since pop_batch cannot shorten the file.
AnsweredNotKept == diskState = "fine" => answered \cap Held = {}

\* Outages, timeouts and restarts delay results and never strand one: again and
\* again every result produced is stored, or given up for a named cause.
EverySettled == []<>(\A r \in 1 .. pushed : Settled(r))
=============================================================================
