----------------------------- MODULE RunStream -----------------------------
(***************************************************************************)
(* One streamed web run: its channel in RunHub (src/web.rs), the worker    *)
(* and the forwarder that publish into it, and the clients of /api/stream  *)
(* that replay its history, follow it live, lose their connection and      *)
(* resume from the last event they have seen (src/web/stream.rs), or of    *)
(* the WebSocket bridge, which follows a run once (src/web/ws.rs).         *)
(*                                                                         *)
(* An event is its id; kind tells what it is.  The broadcast channel keeps *)
(* the newest Capacity events for slow receivers, the history the newest   *)
(* HistoryLimit for new ones.                                              *)
(***************************************************************************)
EXTENDS Naturals, Sequences, FiniteSets

CONSTANTS
    Client,          \* subscribers
    Bridge,          \* those of them that are forwarders of the bridge
    MaxAgentEvents,  \* bound: events the agent emits in the run
    HistoryLimit,    \* run_history_limit
    Capacity         \* broadcast::channel(512)

ASSUME StreamAssumption ==
    /\ Bridge \subseteq Client
    /\ MaxAgentEvents \in Nat
    /\ HistoryLimit \in Nat \ {0}
    /\ Capacity \in Nat \ {0}

VARIABLES
    worker,     \* where the spawned worker is
    agentQueue, \* AgentEvents sent and not yet taken by the forwarder
    emitted,    \* how many the agent has sent
    forwarder,  \* the forwarder: between events, or with a delta to publish
    buffer,     \* deltas in the abort controller's buffer
    present,    \* whether RunHub still has the channel
    kind,       \* history: the kind of every event published, by id
    history,    \* RunChannel.history, as ids
    done,       \* RunChannel.done
    partial,    \* history: deltas in the text of the aborted event
    conn,       \* where each client's connection is
    replay,     \* events it has still to be sent from the history
    doneAtStart,\* done, as subscribe_with_replay returned it
    next,       \* the event its broadcast receiver is at
    last,       \* the last event it has received, 0 before the first
    excused     \* this connection reported a truncated replay, or lagged

hubVars == <<present, kind, history, done>>
streamRunVars == <<worker, agentQueue, emitted, forwarder, buffer, partial>>
clientVars == <<conn, replay, doneAtStart, next, last, excused>>
streamVars == <<streamRunVars, hubVars, clientVars>>

Terminal == {"done", "error", "aborted"}
Published == Len(kind)   \* next_id - 1

StreamTypeOK ==
    /\ worker \in {"waiting", "running", "closing", "panicked", "ended"}
    /\ agentQueue \in Seq({"delta", "status"})
    /\ emitted \in 0 .. MaxAgentEvents
    /\ forwarder \in {"none", "idle", "buffered", "over"}
    /\ buffer \in Nat /\ partial \in Nat
    /\ present \in BOOLEAN /\ done \in BOOLEAN
    /\ kind \in Seq({"delta", "status"} \cup Terminal)
    /\ history \in Seq(1 .. Published)
    /\ Len(history) <= HistoryLimit
    /\ conn \in [Client -> {"off", "replaying", "live", "over", "gone"}]
    /\ replay \in [Client -> Seq(1 .. Published)]
    /\ doneAtStart \in [Client -> BOOLEAN]
    /\ next \in [Client -> 1 .. Published + 1]
    /\ last \in [Client -> 0 .. Published]
    /\ excused \in [Client -> BOOLEAN]

\* RunHub::create, before the worker is spawned.
StreamInit ==
    /\ worker = "waiting"
    /\ agentQueue = <<>> /\ emitted = 0
    /\ forwarder = "none"
    /\ buffer = 0 /\ partial = 0
    /\ present = TRUE /\ kind = <<>> /\ history = <<>> /\ done = FALSE
    /\ conn = [c \in Client |-> "off"]
    /\ replay = [c \in Client |-> <<>>]
    /\ doneAtStart = [c \in Client |-> FALSE]
    /\ next = [c \in Client |-> 1]
    /\ last = [c \in Client |-> 0]
    /\ excused = [c \in Client |-> FALSE]

-----------------------------------------------------------------------------
Remembered(h, id) ==
    Append(IF Len(h) >= HistoryLimit THEN Tail(h) ELSE h, id)

\* RunHub::publish, under the hub's lock; nothing happens to a removed run.
Publish(k) ==
    /\ IF present
       THEN /\ kind' = Append(kind, k)
            /\ history' = Remembered(history, Published + 1)
            /\ done' = (done \/ k \in Terminal)
       ELSE UNCHANGED <<kind, history, done>>
    /\ UNCHANGED <<present, clientVars>>

\* The worker gets the session's lock and starts the forwarder.
Start ==
    /\ worker = "waiting"
    /\ worker' = "running"
    /\ forwarder' = "idle"
    /\ Publish("status")
    /\ UNCHANGED <<agentQueue, emitted, buffer, partial>>

\* The agent loop sends to an unbounded channel and does not wait.
Emit(k) ==
    /\ worker = "running"
    /\ emitted < MaxAgentEvents
    /\ emitted' = emitted + 1
    /\ agentQueue' = Append(agentQueue, k)
    /\ UNCHANGED <<worker, forwarder, buffer, partial, hubVars, clientVars>>

\* A delta goes into the abort buffer first ...
ForwardDelta ==
    /\ forwarder = "idle"
    /\ agentQueue # <<>> /\ Head(agentQueue) = "delta"
    /\ agentQueue' = Tail(agentQueue)
    /\ buffer' = buffer + 1
    /\ forwarder' = "buffered"
    /\ UNCHANGED <<worker, emitted, partial, hubVars, clientVars>>

\* ... and is published after that lock has been released.
PublishDelta ==
    /\ forwarder = "buffered"
    /\ forwarder' = "idle"
    /\ Publish("delta")
    /\ UNCHANGED <<worker, agentQueue, emitted, buffer, partial>>

ForwardStatus ==
    /\ forwarder = "idle"
    /\ agentQueue # <<>> /\ Head(agentQueue) = "status"
    /\ agentQueue' = Tail(agentQueue)
    /\ Publish("status")
    /\ UNCHANGED <<worker, emitted, forwarder, buffer, partial>>

\* recv returns None when every sender is gone and the queue is empty.
ForwarderEnds ==
    /\ forwarder = "idle"
    /\ worker \notin {"waiting", "running"}
    /\ agentQueue = <<>>
    /\ forwarder' = "over"
    /\ UNCHANGED <<worker, agentQueue, emitted, buffer, partial, hubVars, clientVars>>

\* The agent has returned; its outcome is published whatever the forwarder
\* has still to publish.  An aborted run's text is the buffer.
FinishRun(k) ==
    /\ worker = "running"
    /\ worker' = "closing"
    /\ partial' = IF k = "aborted" THEN buffer ELSE partial
    /\ Publish(k)
    /\ UNCHANGED <<agentQueue, emitted, forwarder, buffer>>

\* A panic in the worker is caught; a forwarder it started goes on alone.
Panic ==
    /\ worker = "running"
    /\ worker' = "panicked"
    /\ UNCHANGED <<agentQueue, emitted, forwarder, buffer, partial, hubVars, clientVars>>

PublishPanic ==
    /\ worker = "panicked"
    /\ worker' = "ended"
    /\ Publish("error")
    /\ UNCHANGED <<agentQueue, emitted, forwarder, buffer, partial>>

\* forward.await, then end_with_limits, unregister_chat_run, remove_later.
EndRun ==
    /\ worker = "closing" /\ forwarder = "over"
    /\ worker' = "ended"
    /\ UNCHANGED <<agentQueue, emitted, forwarder, buffer, partial, hubVars, clientVars>>

\* Mutant of RemoveLater: only a run that is not done is forgotten.
RemoveUndone ==
    /\ worker = "ended" /\ present /\ ~done
    /\ present' = FALSE
    /\ UNCHANGED <<streamRunVars, kind, history, done, clientVars>>

\* remove_later, 300 seconds after the end.
RemoveLater ==
    /\ worker = "ended" /\ present
    /\ present' = FALSE
    /\ UNCHANGED <<streamRunVars, kind, history, done, clientVars>>

-----------------------------------------------------------------------------
\* The events of a history whose ids are greater: the history is in their order.
After(h, id) == SubSeq(h, Cardinality({i \in DOMAIN h : h[i] <= id}) + 1, Len(h))

\* Mutant of Subscribe: the receiver is made before the history is read.
SubscribeBefore(c) ==
    /\ conn[c] = "off"
    /\ IF ~present
       THEN /\ conn' = [conn EXCEPT ![c] = "gone"]
            /\ UNCHANGED <<replay, doneAtStart, next, excused>>
       ELSE /\ conn' = [conn EXCEPT ![c] = "replaying"]
            /\ replay' = [replay EXCEPT ![c] = After(history, last[c])]
            /\ doneAtStart' = [doneAtStart EXCEPT ![c] = done]
            /\ next' = [next EXCEPT ![c] = IF Published = 0 THEN 1 ELSE Published]
            /\ excused' = [excused EXCEPT ![c] =
                             last[c] # 0 /\ history # <<>> /\ last[c] + 1 < Head(history)]
    /\ UNCHANGED <<streamRunVars, hubVars, last>>

\* subscribe_with_replay: history, done and a receiver under one lock.
Subscribe(c) ==
    /\ conn[c] = "off"
    /\ IF ~present
       THEN /\ conn' = [conn EXCEPT ![c] = "gone"]
            /\ UNCHANGED <<replay, doneAtStart, next, excused>>
       ELSE /\ conn' = [conn EXCEPT ![c] = "replaying"]
            /\ replay' = [replay EXCEPT ![c] = After(history, last[c])]
            /\ doneAtStart' = [doneAtStart EXCEPT ![c] = done]
            /\ next' = [next EXCEPT ![c] = Published + 1]
            /\ excused' = [excused EXCEPT ![c] =
                             last[c] # 0 /\ history # <<>> /\ last[c] + 1 < Head(history)]
    /\ UNCHANGED <<streamRunVars, hubVars, last>>

\* What api_stream and the bridge take to be the last event of a run.
EndsStream(c, id) == kind[id] \in {"done", "error"} \/ (c \in Bridge /\ kind[id] = "aborted")

Replay(c) ==
    /\ conn[c] = "replaying" /\ replay[c] # <<>>
    /\ LET id == Head(replay[c])
       IN  /\ last' = [last EXCEPT ![c] = id]
           /\ conn' = [conn EXCEPT ![c] = IF EndsStream(c, id) THEN "over" ELSE @]
    /\ replay' = [replay EXCEPT ![c] = Tail(@)]
    /\ UNCHANGED <<streamRunVars, hubVars, doneAtStart, next, excused>>

\* Mutant of ReplayEnds: done is read again when the replay is over.
ReplayEndsEarly(c) ==
    /\ conn[c] = "replaying" /\ replay[c] = <<>>
    /\ conn' = [conn EXCEPT ![c] = IF done \/ doneAtStart[c] THEN "over" ELSE "live"]
    /\ UNCHANGED <<streamRunVars, hubVars, replay, doneAtStart, next, last, excused>>

ReplayEnds(c) ==
    /\ conn[c] = "replaying" /\ replay[c] = <<>>
    /\ conn' = [conn EXCEPT ![c] = IF doneAtStart[c] THEN "over" ELSE "live"]
    /\ UNCHANGED <<streamRunVars, hubVars, replay, doneAtStart, next, last, excused>>

OldestKept == IF Published > Capacity THEN Published - Capacity + 1 ELSE 1

Receive(c) ==
    /\ conn[c] = "live"
    /\ next[c] \in OldestKept .. Published
    /\ last' = [last EXCEPT ![c] = next[c]]
    /\ conn' = [conn EXCEPT ![c] = IF EndsStream(c, next[c]) THEN "over" ELSE @]
    /\ next' = [next EXCEPT ![c] = @ + 1]
    /\ UNCHANGED <<streamRunVars, hubVars, replay, doneAtStart, excused>>

\* RecvError::Lagged: the stream goes on with the oldest event there is; the
\* bridge takes it for the end.
Lag(c) ==
    /\ conn[c] = "live"
    /\ next[c] < OldestKept
    /\ next' = [next EXCEPT ![c] = OldestKept]
    /\ excused' = [excused EXCEPT ![c] = TRUE]
    /\ conn' = [conn EXCEPT ![c] = IF c \in Bridge THEN "over" ELSE @]
    /\ UNCHANGED <<streamRunVars, hubVars, replay, doneAtStart, last>>

\* RecvError::Closed: the channel has been removed.
Closed(c) ==
    /\ conn[c] = "live"
    /\ ~present /\ next[c] > Published
    /\ conn' = [conn EXCEPT ![c] = "over"]
    /\ UNCHANGED <<streamRunVars, hubVars, replay, doneAtStart, next, last, excused>>

\* The connection is lost; the client will ask for what comes after `last`.
Disconnect(c) ==
    /\ conn[c] \in {"replaying", "live"}
    /\ conn' = [conn EXCEPT ![c] = IF c \in Bridge THEN "gone" ELSE "off"]
    /\ UNCHANGED <<streamRunVars, hubVars, replay, doneAtStart, next, last, excused>>

-----------------------------------------------------------------------------
WorkerStep ==
    \/ Start \/ PublishPanic \/ EndRun \/ RemoveLater
    \/ \E k \in Terminal : FinishRun(k)

ForwarderStep == ForwardDelta \/ PublishDelta \/ ForwardStatus \/ ForwarderEnds

StreamStep(c) == Replay(c) \/ ReplayEnds(c) \/ Receive(c) \/ Lag(c) \/ Closed(c)

StreamNext ==
    \/ WorkerStep \/ ForwarderStep \/ Panic
    \/ \E k \in {"delta", "status"} : Emit(k)
    \/ \E c \in Client : StreamStep(c) \/ Subscribe(c) \/ Disconnect(c)

StreamSpec == StreamInit /\ [][StreamNext]_streamVars

\* The session's lock is granted, the agent returns, the timer fires, and open
\* streams are polled; whether clients connect is their affair.
StreamFairness ==
    /\ WF_streamVars(WorkerStep) /\ WF_streamVars(ForwarderStep)
    /\ \A c \in Client : WF_streamVars(StreamStep(c))

StreamFairSpec == StreamSpec /\ StreamFairness

-----------------------------------------------------------------------------
(***************************************************************************)
(* Properties                                                              *)
(***************************************************************************)
\* What c's stream will send next.
Upcoming(c) ==
    IF conn[c] = "replaying" /\ replay[c] # <<>> THEN Head(replay[c]) ELSE next[c]

\* No client gets an event twice or out of order, and after its first event it
\* misses none without its stream having reported a truncated replay or having
\* lagged: replay and live events join without a gap, in every connection.
ResumeIsExact ==
    \A c \in Client : conn[c] \in {"replaying", "live"} =>
        /\ Upcoming(c) > last[c]
        /\ last[c] # 0 /\ ~excused[c] => Upcoming(c) = last[c] + 1

\* The run's outcome is announced once, a panic included.
OneOutcome ==
    \A i, j \in 1 .. Published : kind[i] \in Terminal /\ kind[j] \in Terminal => i = j

\* The text of an aborted run has every delta that had been published.
AbortedTextCovers ==
    \A i \in 1 .. Published : kind[i] = "aborted" =>
        Cardinality({j \in 1 .. i : kind[j] = "delta"}) <= partial

\* A stream that the server ends has delivered the outcome ("Consume live chat
\* events (delta / final / error)", README.md:784), unless the outcome had been
\* pushed out of the history, or the stream has lagged or reported a gap.
EndedStreamsToldOutcome ==
    \A c \in Client : conn[c] = "over" =>
        \/ \E i \in 1 .. last[c] : kind[i] \in Terminal
        \/ excused[c]
        \/ \E i \in 1 .. Published : kind[i] \in Terminal /\ i < Head(history)

\* Every open stream ends, that of an aborted run when its channel goes.
StreamsEnd == \A c \in Client : conn[c] = "live" ~> conn[c] # "live"

\* The outcome of a run reaches its readers, once and whole: what the worker
\* announces, what the forwarder has buffered for it and what the streams end
\* with agree, although three tasks write and read them (stream.rs:240-480).
OutcomeIsRight == OneOutcome /\ AbortedTextCovers /\ EndedStreamsToldOutcome

=============================================================================
