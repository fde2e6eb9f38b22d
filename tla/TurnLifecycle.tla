--------------------------- MODULE TurnLifecycle ---------------------------
(***************************************************************************)
(* One chat from the arrival of its messages to the saved session: the     *)
(* channel handlers (discord.rs, telegram.rs, slack.rs and feishu.rs share *)
(* the protocol), the agent run they start, the session and message rows   *)
(* of the database, and the rerun for messages queued during a run.        *)
(* Composes ChatTurnQueue: every step of a handler that uses the queue is  *)
(* the queue's step conjoined with the handler's own.                      *)
(*                                                                         *)
(* A handler is the task of the message it handles; a job is a run that    *)
(* no message starts (the scheduler's process_with_agent).  Timestamps are *)
(* abstracted to the order of stamping, and that of a saved session to the  *)
(* number of messages stamped before it.  Aborts are in RunControl.        *)
(***************************************************************************)
EXTENDS ChatTurnQueue

CONSTANTS
    Chat,              \* the chat looked at
    MaxRounds,         \* max_tool_iterations
    InjectionSettings, \* values of enable_mid_turn_injection
    ResetsHappen       \* whether /reset is used

ASSUME LifecycleAssumption ==
    /\ Msg \subseteq Task
    /\ Chat \in Key
    /\ MaxRounds \in Nat \ {0}
    /\ InjectionSettings \subseteq BOOLEAN
    /\ ResetsHappen \in BOOLEAN

Jobs == Task \ Msg

VARIABLES
    injection,   \* enable_mid_turn_injection, fixed when the process starts
    stamps,      \* messages in the order of their timestamps
    stored,      \* rows of the messages table
    savedAt,     \* sessions.updated_at: how many messages were stamped by then
    hasSession,  \* whether the sessions table has a row for the chat
    saved,       \* sessions.messages_json: the user messages in it
    step,        \* where each handler or job is
    since,       \* the updated_at a run has read
    ctx,         \* the user messages of a run's working context
    rounds,      \* model calls of a run so far
    rerun,       \* whether the task is in its second run, or is a job
    barged       \* history: whether a run has begun without the turn

chatVars == <<injection, stamps, stored, savedAt, hasSession, saved>>
runVars == <<step, since, ctx, rounds, rerun, barged>>
allVars == <<vars, chatVars, runVars>>

Step == {"idle", "stamped", "stored", "entering", "loading", "merging", "model",
         "tools", "final", "saving", "returning", "rerun", "done"}

LifecycleTypeOK ==
    /\ TypeOK
    /\ stamps \in Seq(Msg)
    /\ stored \subseteq Msg
    /\ savedAt \in 0 .. Len(stamps)
    /\ hasSession \in BOOLEAN
    /\ saved \in Seq(Msg)
    /\ step \in [Task -> Step]
    /\ since \in [Task -> 0 .. Len(stamps)]
    /\ ctx \in [Task -> Seq(Msg)]
    /\ rounds \in [Task -> 0 .. MaxRounds]
    /\ rerun \in [Task -> BOOLEAN]
    /\ injection \in BOOLEAN /\ barged \in BOOLEAN

LifecycleInit ==
    /\ Init
    /\ stamps = <<>>
    /\ stored = {}
    /\ savedAt = 0
    /\ hasSession = FALSE
    /\ saved = <<>>
    /\ step = [t \in Task |-> "idle"]
    /\ since = [t \in Task |-> 0]
    /\ ctx = [t \in Task |-> <<>>]
    /\ rounds = [t \in Task |-> 0]
    /\ rerun = [t \in Task |-> t \in Jobs]
    /\ injection \in InjectionSettings
    /\ barged = FALSE

-----------------------------------------------------------------------------
To(t, l) == step' = [step EXCEPT ![t] = l]

\* Rows of the messages table stamped later than the n-th message, in order.
RowsAfter(n) ==
    LET later == {i \in n + 1 .. Len(stamps) : stamps[i] \in stored}
        Nth(j) == CHOOSE i \in later : Cardinality({k \in later : k <= i}) = j
    IN  [j \in 1 .. Cardinality(later) |-> stamps[Nth(j)]]

(***************************************************************************)
(* A message arrives                                                       *)
(***************************************************************************)
\* StoredMessage { timestamp: now, .. } is built ...
StampMessage(m) ==
    /\ step[m] = "idle"
    /\ stamps' = Append(stamps, m)
    /\ To(m, "stamped")
    /\ UNCHANGED <<vars, injection, stored, savedAt, hasSession, saved, since, ctx, rounds, rerun, barged>>

\* ... and store_message_if_new inserts it, in a transaction of its own.
StoreMessage(m) ==
    /\ step[m] = "stamped"
    /\ stored' = stored \cup {m}
    /\ To(m, "stored")
    /\ UNCHANGED <<vars, injection, stamps, savedAt, hasSession, saved, since, ctx, rounds, rerun, barged>>

EnterQueue(m) ==
    /\ step[m] = "stored"
    /\ StartOrEnqueue(m, Chat, m)
    /\ To(m, "entering")
    /\ UNCHANGED <<chatVars, since, ctx, rounds, rerun, barged>>

JobArrives(t) ==
    /\ t \in Jobs
    /\ step[t] = "idle"
    /\ Acquire(t, Chat)
    /\ To(t, "entering")
    /\ UNCHANGED <<chatVars, since, ctx, rounds, rerun, barged>>

\* The steps of try_start_or_enqueue and acquire before they return.
QueueStep(t) ==
    /\ step[t] = "entering"
    /\ TryTurnSucceeds(t) \/ TryTurnFails(t) \/ LockTurn(t)
    /\ UNCHANGED <<chatVars, runVars>>

\* The chat is busy: the message waits in the queue, its handler returns.
Queued(t) ==
    /\ step[t] = "entering"
    /\ Push(t)
    /\ To(t, "done")
    /\ UNCHANGED <<chatVars, since, ctx, rounds, rerun, barged>>

\* The run begins, with the turn or after the timeout without it.
BeginRun(t) ==
    /\ step[t] = "entering"
    /\ \/ Touch(t) /\ UNCHANGED barged
       \/ TimeOut(t) /\ barged' = TRUE
    /\ To(t, "loading")
    /\ UNCHANGED <<chatVars, since, ctx, rounds, rerun>>

(***************************************************************************)
(* The agent run                                                           *)
(***************************************************************************)
\* load_session: the saved context and its updated_at.  Without a row, the
\* history is read from the beginning.
LoadSession(t) ==
    /\ step[t] = "loading"
    /\ ctx' = [ctx EXCEPT ![t] = IF hasSession THEN saved ELSE <<>>]
    /\ since' = [since EXCEPT ![t] = IF hasSession THEN savedAt ELSE 0]
    /\ rounds' = [rounds EXCEPT ![t] = 0]
    /\ To(t, "merging")
    /\ UNCHANGED <<vars, chatVars, rerun, barged>>

\* Mutant of MergeMessages: the new messages replace the session.
MergeReplaces(t) ==
    /\ step[t] = "merging"
    /\ LET loaded == RowsAfter(since[t])
       IN  /\ ctx' = [ctx EXCEPT ![t] = loaded]
           /\ To(t, IF loaded = <<>> /\ t \notin Jobs THEN "returning" ELSE "model")
    /\ UNCHANGED <<vars, chatVars, since, rounds, rerun, barged>>

\* get_new_user_messages_since, or the history: another transaction.  A run with
\* nothing to process is over (a job always has its own prompt).
MergeMessages(t) ==
    /\ step[t] = "merging"
    /\ LET loaded == ctx[t] \o RowsAfter(since[t])
       IN  /\ ctx' = [ctx EXCEPT ![t] = loaded]
           /\ To(t, IF loaded = <<>> /\ t \notin Jobs THEN "returning" ELSE "model")
    /\ UNCHANGED <<vars, chatVars, since, rounds, rerun, barged>>

\* One iteration's model call.  The reply asks for tools; or ends the turn
\* with visible text; or ends it otherwise, which is saved without a last look
\* at the queue; or has no visible text and is retried.
CallModel(t) ==
    /\ step[t] = "model"
    /\ rounds[t] < MaxRounds
    /\ rounds' = [rounds EXCEPT ![t] = @ + 1]
    /\ \E l \in {"tools", "final", "saving", "model"} : To(t, l)
    /\ UNCHANGED <<vars, chatVars, since, ctx, rerun, barged>>

\* The run returns without saving: a memory command answers at once, the
\* database, a hook or the provider fails, or the save itself does, unnoticed.
ReturnUnsaved(t) ==
    /\ \/ step[t] \in {"loading", "merging", "saving"}
       \/ step[t] = "model" /\ rounds[t] < MaxRounds
    /\ To(t, "returning")
    /\ UNCHANGED <<vars, chatVars, since, ctx, rounds, rerun, barged>>

\* The iterations are used up.
CapRounds(t) ==
    /\ step[t] = "model"
    /\ rounds[t] = MaxRounds
    /\ To(t, "saving")
    /\ UNCHANGED <<vars, chatVars, since, ctx, rounds, rerun, barged>>

\* The injection breakpoints: after the tools of an iteration, and at the end.
LookForFollowUps(t) ==
    /\ injection
    /\ step[t] \in {"tools", "final"}
    /\ BeginDrain(t, Chat)
    /\ UNCHANGED <<chatVars, runVars>>

\* After tools the loop goes on, or saves and waits for an approval; at the end
\* of the turn it goes on only if something was injected.
InjectFollowUps(t) ==
    /\ step[t] \in {"tools", "final"}
    /\ TakePending(t)
    /\ LET got == pending[drain[t]]
       IN  /\ ctx' = [ctx EXCEPT ![t] = @ \o got]
           /\ \/ step[t] = "tools" /\ \E l \in {"model", "saving"} : To(t, l)
              \/ step[t] = "final" /\ To(t, IF got = <<>> THEN "saving" ELSE "model")
    /\ UNCHANGED <<chatVars, since, rounds, rerun, barged>>

SkipInjection(t) ==
    /\ ~injection
    /\ \/ step[t] = "tools" /\ \E l \in {"model", "saving"} : To(t, l)
       \/ step[t] = "final" /\ To(t, "saving")
    /\ UNCHANGED <<vars, chatVars, since, ctx, rounds, rerun, barged>>

\* persist_session_with_skill_env_files: the context replaces the session, and
\* updated_at becomes the time of the save.
SaveSession(t) ==
    /\ step[t] = "saving"
    /\ saved' = ctx[t]
    /\ hasSession' = TRUE
    /\ savedAt' = Len(stamps)
    /\ To(t, "returning")
    /\ UNCHANGED <<vars, injection, stamps, stored, since, ctx, rounds, rerun, barged>>

(***************************************************************************)
(* The run returns: the guard is dropped before the handler delivers the   *)
(* reply and calls maybe_rerun_for_pending                                 *)
(***************************************************************************)
\* Mutant of EndRun: the handler forgets to call maybe_rerun_for_pending.
EndRunWithoutRerun(t) ==
    /\ step[t] = "returning"
    /\ EndOfRun(t)
    /\ To(t, "done")
    /\ ctx' = [ctx EXCEPT ![t] = <<>>]
    /\ UNCHANGED <<chatVars, since, rounds, rerun, barged>>

EndRun(t) ==
    /\ step[t] = "returning"
    /\ EndOfRun(t)
    /\ To(t, IF rerun[t] THEN "done" ELSE "rerun")
    /\ ctx' = [ctx EXCEPT ![t] = <<>>]
    /\ UNCHANGED <<chatVars, since, rounds, rerun, barged>>

LookForRerun(t) ==
    /\ step[t] = "rerun" /\ ~rerun[t]
    /\ BeginDrain(t, Chat)
    /\ UNCHANGED <<chatVars, runVars>>

\* The drained messages only decide whether to run again.
DrainForRerun(t) ==
    /\ step[t] = "rerun"
    /\ TakePending(t)
    /\ IF pending[drain[t]] = <<>>
       THEN To(t, "done") /\ UNCHANGED rerun
       ELSE To(t, "rerun") /\ rerun' = [rerun EXCEPT ![t] = TRUE]
    /\ UNCHANGED <<chatVars, since, ctx, rounds, barged>>

StartRerun(t) ==
    /\ step[t] = "rerun" /\ rerun[t]
    /\ Acquire(t, Chat)
    /\ To(t, "entering")
    /\ UNCHANGED <<chatVars, since, ctx, rounds, rerun, barged>>

\* /reset deletes the session and the message rows of the chat; it does not
\* go through the turn queue.
Reset ==
    /\ ResetsHappen
    /\ hasSession \/ stored # {}
    /\ hasSession' = FALSE
    /\ saved' = <<>>
    /\ stored' = {}
    /\ UNCHANGED <<vars, injection, stamps, savedAt, runVars>>

-----------------------------------------------------------------------------
TaskStep(t) ==
    \/ t \in Msg /\ (StoreMessage(t) \/ EnterQueue(t))
    \/ QueueStep(t) \/ Queued(t) \/ BeginRun(t)
    \/ LoadSession(t) \/ MergeMessages(t) \/ CallModel(t)
    \/ ReturnUnsaved(t) \/ CapRounds(t)
    \/ LookForFollowUps(t) \/ InjectFollowUps(t) \/ SkipInjection(t)
    \/ SaveSession(t) \/ EndRun(t)
    \/ LookForRerun(t) \/ DrainForRerun(t) \/ StartRerun(t)

LifecycleNext ==
    \/ \E m \in Msg : StampMessage(m)
    \/ \E t \in Task : JobArrives(t) \/ TaskStep(t)
    \/ Reset

LifecycleSpec == LifecycleInit /\ [][LifecycleNext]_allVars

\* Every task of the runtime that can take its next step is polled again;
\* a provider call ends, by an answer or by its own timeout.
LifecycleFairSpec == LifecycleSpec /\ \A t \in Task : WF_allVars(TaskStep(t))

-----------------------------------------------------------------------------
(***************************************************************************)
(* Properties                                                              *)
(***************************************************************************)
Quiescent == \A t \in Task : step[t] \in {"idle", "done"}

\* A save extends the session it was loaded from: no run overwrites what
\* another run has saved in between (agent_engine.rs:486-505 replaces the row
\* unconditionally, so this rests on the turn queue alone), as long as no run
\* has timed out in acquire and gone ahead without the turn.
NoLostUpdate ==
    [][hasSession /\ hasSession' /\ ~barged => IsPrefix(saved, saved')]_allVars

\* What was queued when a handler's own run ends is taken out of the queue,
\* by that handler's rerun check if nobody else does it.
QueuedIsDrained ==
    \A m \in Msg :
        (fate[m] = "queued" /\ \E t \in Msg : pc[t] = "turn" /\ ~rerun[t])
            ~> fate[m] # "queued"

\* No handler, rerun or job waits forever: they all come to an end.
TasksFinish == \A t \in Task : step[t] # "idle" ~> step[t] = "done"

\* When nothing runs any more, no message is left in the queue
\* (chat_turn_queue.rs:57-59: "can be drained after the run completes").
NoneStranded == Quiescent => \A k \in Key : Live(k) => pending[slots[k]] = <<>>

=============================================================================
