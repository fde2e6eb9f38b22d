---------------------------- MODULE AnnounceRelay ---------------------------
(***************************************************************************)
(* Announcements of finished sub-agent runs (src/tools/subagents.rs): a    *)
(* task that ends queues a row in subagent_announces and flushes the       *)
(* queue; the relay of src/runtime.rs and the tool                         *)
(* subagents_retry_announces flush the same queue.  A flush reads the due  *)
(* rows once, then delivers and records them one by one.                   *)
(***************************************************************************)
EXTENDS Naturals, Sequences, FiniteSets

CONSTANTS
    Ended,           \* the runs that will be announced
    Relay,           \* flushers besides the tasks of the runs: the relay, the tool
    BatchLimit,      \* rows one flush takes
    MaxAttempts,     \* deliveries before a row is given up
    MaxRelayStarts   \* bound: how often the process stops and starts again

\* A flush asks for one row at least, and the first error never settles a row.
ASSUME AnnounceAssumption ==
    BatchLimit \in Nat \ {0} /\ MaxAttempts \in Nat \ {0} /\ MaxRelayStarts \in Nat

Flusher == Ended \cup Relay

VARIABLES
    ann,        \* subagent_announces.status, "none" before the row is inserted
    attempts,   \* attempts
    backoff,    \* rows whose next_attempt_at has not come
    queue,      \* the rows in the order of their ids
    ending,     \* where the task of each run is
    batch,      \* what each flusher has still to deliver: runs and attempts
    result,     \* the delivery it has yet to record
    relayStarts,
    tried,      \* history: deliveries of each row, up to MaxAttempts
    copies,     \* history: how often its text was sent, up to 2
    contested   \* history: rows that two flushers had, or whose record was lost

announceRows == <<ann, attempts, backoff, queue>>
announceHistory == <<tried, copies, contested>>
announceVars == <<announceRows, ending, batch, result, relayStarts, announceHistory>>

AnnounceTypeOK ==
    /\ ann \in [Ended -> {"none", "pending", "retry", "sent", "failed"}]
    /\ attempts \in [Ended -> 0 .. MaxAttempts]
    /\ backoff \subseteq {r \in Ended : attempts[r] > 0}
    /\ \A r \in Ended : ann[r] # "none" <=> \E i \in DOMAIN queue : queue[i] = r
    /\ ending \in [Ended -> {"running", "finished", "flush", "over", "lost"}]
    /\ batch \in [Flusher -> Seq([run : Ended, n : 0 .. MaxAttempts])]
    /\ \A f \in Flusher : Len(batch[f]) <= BatchLimit
    /\ result \in [Flusher -> {"none", "ok", "error"}]
    /\ relayStarts \in 0 .. MaxRelayStarts

AnnounceInit ==
    /\ ann = [r \in Ended |-> "none"]
    /\ attempts = [r \in Ended |-> 0]
    /\ backoff = {} /\ queue = <<>>
    /\ ending = [r \in Ended |-> "running"]
    /\ batch = [f \in Flusher |-> <<>>]
    /\ result = [f \in Flusher |-> "none"]
    /\ relayStarts = 0
    /\ tried = [r \in Ended |-> 0]
    /\ copies = [r \in Ended |-> 0]
    /\ contested = {}

\* mark_subagent_finished, in the task of the run.
RunFinishes(r) ==
    /\ ending[r] = "running"
    /\ ending' = [ending EXCEPT ![r] = "finished"]
    /\ UNCHANGED <<announceRows, batch, result, relayStarts, announceHistory>>

\* build_announce_payload and enqueue_subagent_announce.
Enqueue(r) ==
    /\ ending[r] = "finished"
    /\ ending' = [ending EXCEPT ![r] = "flush"]
    /\ ann' = [ann EXCEPT ![r] = "pending"]
    /\ queue' = Append(queue, r)
    /\ UNCHANGED <<attempts, backoff, batch, result, relayStarts, announceHistory>>

-----------------------------------------------------------------------------
(* flush_pending_announces_once.                                            *)

\* Mutant of DueRow: a row that has failed once is not listed again.
DueIfPending(r) == ann[r] = "pending" /\ r \notin backoff

DueRow(r) == ann[r] \in {"pending", "retry"} /\ r \notin backoff

DuePositions == {i \in DOMAIN queue : DueRow(queue[i])}

\* The due row that has k - 1 due rows before it.
NthDue(k) ==
    queue[CHOOSE i \in DuePositions : Cardinality({j \in DuePositions : j <= i}) = k]

DueRows ==
    [k \in {k \in 1 .. BatchLimit : k <= Cardinality(DuePositions)} |->
        [run |-> NthDue(k), n |-> attempts[NthDue(k)]]]

InBatch(f, r) == \E i \in DOMAIN batch[f] : batch[f][i].run = r

\* A run's task flushes once, the others again and again.
MayFlush(f) == batch[f] = <<>> /\ (f \in Ended => ending[f] = "flush")

ListDue(f) ==
    /\ MayFlush(f) /\ DueRows # <<>>
    /\ batch' = [batch EXCEPT ![f] = DueRows]
    /\ contested' = contested \cup {r \in Ended : /\ \E i \in DOMAIN DueRows : DueRows[i].run = r
                                                  /\ \E g \in Flusher : InBatch(g, r)}
    /\ ending' = IF f \in Ended THEN [ending EXCEPT ![f] = "over"] ELSE ending
    /\ UNCHANGED <<announceRows, result, relayStarts, tried, copies>>

NothingDue(r) ==
    /\ r \in Ended /\ MayFlush(r) /\ DueRows = <<>>
    /\ ending' = [ending EXCEPT ![r] = "over"]
    /\ UNCHANGED <<announceRows, batch, result, relayStarts, announceHistory>>

\* deliver_and_store_bot_message: the text is not sent; or it is, and the
\* message is stored with it or is not, which counts as an error.
Deliver(f) ==
    LET r == Head(batch[f]).run IN
    /\ batch[f] # <<>> /\ result[f] = "none"
    /\ tried' = [tried EXCEPT ![r] = IF @ < MaxAttempts THEN @ + 1 ELSE @]
    /\ \/ /\ result' = [result EXCEPT ![f] = "error"]
          /\ UNCHANGED <<copies, contested>>
       \/ /\ copies' = [copies EXCEPT ![r] = IF @ < 2 THEN @ + 1 ELSE @]
          /\ \/ result' = [result EXCEPT ![f] = "ok"] /\ UNCHANGED contested
             \/ result' = [result EXCEPT ![f] = "error"] /\ contested' = contested \cup {r}
    /\ UNCHANGED <<announceRows, ending, batch, relayStarts>>

\* So many errors and the row is left as failed.
GivesUp(n) == n >= MaxAttempts

\* Mutant of Record: a row that was sent stays pending.
RecordErrorsOnly(f) ==
    LET r == Head(batch[f]).run
        next == Head(batch[f]).n + 1
    IN
    /\ result[f] # "none"
    /\ IF result[f] = "ok"
       THEN UNCHANGED <<ann, attempts, backoff>>
       ELSE /\ attempts' = [attempts EXCEPT ![r] = next]
            /\ ann' = [ann EXCEPT ![r] = IF GivesUp(next) THEN "failed" ELSE "retry"]
            /\ backoff' = IF GivesUp(next) THEN backoff \ {r} ELSE backoff \cup {r}
    /\ result' = [result EXCEPT ![f] = "none"]
    /\ batch' = [batch EXCEPT ![f] = Tail(@)]
    /\ UNCHANGED <<queue, ending, relayStarts, announceHistory>>

\* mark_subagent_announce_sent and mark_subagent_announce_retry write over
\* whatever the row is by now, from the attempts that were read.
Record(f) ==
    LET r == Head(batch[f]).run
        next == Head(batch[f]).n + 1
    IN
    /\ result[f] # "none"
    /\ IF result[f] = "ok"
       THEN /\ ann' = [ann EXCEPT ![r] = "sent"]
            /\ UNCHANGED <<attempts, backoff>>
       ELSE /\ attempts' = [attempts EXCEPT ![r] = next]
            /\ ann' = [ann EXCEPT ![r] = IF GivesUp(next) THEN "failed" ELSE "retry"]
            /\ backoff' = IF GivesUp(next) THEN backoff \ {r} ELSE backoff \cup {r}
    /\ result' = [result EXCEPT ![f] = "none"]
    /\ batch' = [batch EXCEPT ![f] = Tail(@)]
    /\ UNCHANGED <<queue, ending, relayStarts, announceHistory>>

BackoffEnds(r) ==
    /\ r \in backoff
    /\ backoff' = backoff \ {r}
    /\ UNCHANGED <<ann, attempts, queue, ending, batch, result, relayStarts, announceHistory>>

\* The process stops and starts again.  A run that was not queued is never
\* announced; a delivery that was not recorded is repeated.
RelayRestart ==
    /\ relayStarts < MaxRelayStarts
    /\ relayStarts' = relayStarts + 1
    /\ ending' = [r \in Ended |-> IF ending[r] \in {"flush", "over"} THEN "over" ELSE "lost"]
    /\ batch' = [f \in Flusher |-> <<>>]
    /\ result' = [f \in Flusher |-> "none"]
    /\ contested' = contested \cup {r \in Ended : \E f \in Flusher : result[f] # "none" /\ Head(batch[f]).run = r}
    /\ UNCHANGED <<announceRows, tried, copies>>

FlushStep(f) == ListDue(f) \/ NothingDue(f) \/ Deliver(f) \/ Record(f)

AnnounceNext ==
    \/ \E r \in Ended : RunFinishes(r) \/ Enqueue(r) \/ BackoffEnds(r)
    \/ \E f \in Flusher : FlushStep(f)
    \/ RelayRestart

\* The relay ticks, tasks are polled, and time passes.
AnnounceFairness ==
    /\ \A r \in Ended : WF_announceVars(Enqueue(r)) /\ WF_announceVars(BackoffEnds(r))
    /\ \A f \in Flusher : WF_announceVars(FlushStep(f))

AnnounceSpec == AnnounceInit /\ [][AnnounceNext]_announceVars /\ AnnounceFairness

-----------------------------------------------------------------------------
(* Properties.                                                              *)

\* What the row says of a delivery happened to that row's text, whichever
\* flusher has recorded it, and however stale what it had read was.
RowsTellTheTruth ==
    \A r \in Ended : /\ ann[r] = "sent" => copies[r] > 0
                     /\ ann[r] = "failed" => tried[r] = MaxAttempts

\* A text is sent twice only if two flushers had its row at once, its storing
\* failed, or the process stopped before the delivery was recorded.
RepeatsHaveCause == \A r \in Ended : copies[r] > 1 => r \in contested

\* A run that has finished is announced or given up after so many attempts,
\* across restarts, unless the process stops before the row is inserted.
FinishedIsAnnounced ==
    \A r \in Ended : ending[r] = "finished" ~> ann[r] \in {"sent", "failed"} \/ ending[r] = "lost"

\* The rows of the announcements are right, however many flushers there are.
DeliveriesAreRight == AnnounceTypeOK /\ RowsTellTheTruth /\ RepeatsHaveCause

=============================================================================
