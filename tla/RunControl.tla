----------------------------- MODULE RunControl -----------------------------
(***************************************************************************)
(* Stopping an agent run: the registry of active runs in                   *)
(* src/run_control.rs, the select! of process_with_agent_with_events_      *)
(* guarded that races the run's work against its cancellation, and the     *)
(* /stop command.  A stop sets each run's flag and wakes whoever waits for *)
(* it; the run looks at the flag once and then waits to be woken.          *)
(***************************************************************************)
EXTENDS Naturals, FiniteSets

CONSTANTS
    Chat,            \* (channel, chat_id)
    Run,             \* guarded agent runs, each of them once
    Stop,            \* /stop commands, each of them once
    NoChat,
    WebChat          \* web sessions: their commands and runs share a session lock

ASSUME RunControlAssumption ==
    /\ NoChat \notin Chat
    /\ WebChat \subseteq Chat
    /\ Run \cap Stop = {}

VARIABLES
    chat,        \* the chat of each run and stop, once it has begun
    progress,          \* where each run is
    watch,       \* where the run's cancellation branch is
    cancelled,   \* ActiveRun.cancelled
    woken,       \* the run's Notified future has completed
    registry,    \* ACTIVE_RUNS
    recorded,    \* runs whose message is in ABORTED_SOURCE_MESSAGE_IDS
    stop,        \* where each stop is
    took,        \* the runs a stop took out of the registry: it counts them
    left,        \* those of them it has not notified yet
    stopped      \* history: runs that ended by their cancellation branch

controlRunVars == <<progress, watch, woken, stopped>>
stopVars == <<stop, took, left>>
controlVars == <<chat, controlRunVars, cancelled, registry, recorded, stopVars>>

Party == Run \cup Stop

ControlTypeOK ==
    /\ chat \in [Party -> Chat \cup {NoChat}]
    /\ progress \in [Run -> {"idle", "running", "ending", "done", "dropped"}]
    /\ watch \in [Run -> {"unpolled", "checked", "waiting"}]
    /\ cancelled \in [Run -> BOOLEAN]
    /\ woken \in [Run -> BOOLEAN]
    /\ registry \in [Chat -> SUBSET Run]
    /\ recorded \subseteq Run
    /\ stop \in [Stop -> {"idle", "issued", "firing", "done"}]
    /\ took \in [Stop -> SUBSET Run]
    /\ left \in [Stop -> SUBSET Run]
    /\ stopped \subseteq Run

ControlInit ==
    /\ chat = [p \in Party |-> NoChat]
    /\ progress = [r \in Run |-> "idle"]
    /\ watch = [r \in Run |-> "unpolled"]
    /\ cancelled = [r \in Run |-> FALSE]
    /\ woken = [r \in Run |-> FALSE]
    /\ registry = [c \in Chat |-> {}]
    /\ recorded = {}
    /\ stop = [s \in Stop |-> "idle"]
    /\ took = [s \in Stop |-> {}]
    /\ left = [s \in Stop |-> {}]
    /\ stopped = {}

Active(r) == progress[r] \in {"running", "ending"}

\* The web takes the session's lock before it looks at what a message says.
SessionFree(c) ==
    c \in WebChat =>
        /\ \A r \in Run : Active(r) => chat[r] # c
        /\ \A s \in Stop : stop[s] = "firing" => chat[s] # c

-----------------------------------------------------------------------------
\* register_run, before the first poll of the select!.
Register(r, c) ==
    /\ progress[r] = "idle"
    /\ SessionFree(c)
    /\ progress' = [progress EXCEPT ![r] = "running"]
    /\ chat' = [chat EXCEPT ![r] = c]
    /\ registry' = [registry EXCEPT ![c] = @ \cup {r}]
    /\ UNCHANGED <<watch, woken, stopped, cancelled, recorded, stopVars>>

EndStopped(r) ==
    /\ progress' = [progress EXCEPT ![r] = "ending"]
    /\ stopped' = stopped \cup {r}

\* is_cancelled: the flag is read once.  The Notified future comes after it in
\* the same poll, and a stop on another thread can come in between.
CheckFlag(r) ==
    /\ progress[r] = "running" /\ watch[r] = "unpolled"
    /\ IF cancelled[r]
       THEN EndStopped(r) /\ UNCHANGED watch
       ELSE /\ watch' = [watch EXCEPT ![r] = "checked"]
            /\ UNCHANGED <<progress, stopped>>
    /\ UNCHANGED <<chat, woken, cancelled, registry, recorded, stopVars>>

AwaitNotify(r) ==
    /\ progress[r] = "running" /\ watch[r] = "checked"
    /\ watch' = [watch EXCEPT ![r] = "waiting"]
    /\ UNCHANGED <<chat, progress, woken, stopped, cancelled, registry, recorded, stopVars>>

Woken(r) ==
    /\ progress[r] = "running" /\ woken[r]
    /\ EndStopped(r)
    /\ UNCHANGED <<chat, watch, woken, cancelled, registry, recorded, stopVars>>

\* The work wins the race: it answered, or it failed.
Finish(r) ==
    /\ progress[r] = "running"
    /\ progress' = [progress EXCEPT ![r] = "ending"]
    /\ UNCHANGED <<chat, watch, woken, stopped, cancelled, registry, recorded, stopVars>>

\* Mutant of Unregister: the chat's whole entry goes.
UnregisterAll(r) ==
    /\ progress[r] = "ending"
    /\ progress' = [progress EXCEPT ![r] = "done"]
    /\ registry' = [registry EXCEPT ![chat[r]] = {}]
    /\ UNCHANGED <<chat, watch, woken, stopped, cancelled, recorded, stopVars>>

\* unregister_run: only this run, which a stop may have removed already.
Unregister(r) ==
    /\ progress[r] = "ending"
    /\ progress' = [progress EXCEPT ![r] = "done"]
    /\ registry' = [registry EXCEPT ![chat[r]] = @ \ {r}]
    /\ UNCHANGED <<chat, watch, woken, stopped, cancelled, recorded, stopVars>>

\* The caller's future is dropped at an await: nothing after it is executed.
Drop(r) ==
    /\ Active(r)
    /\ progress' = [progress EXCEPT ![r] = "dropped"]
    /\ UNCHANGED <<chat, watch, woken, stopped, cancelled, registry, recorded, stopVars>>

-----------------------------------------------------------------------------
Issue(s, c) ==
    /\ stop[s] = "idle"
    /\ stop' = [stop EXCEPT ![s] = "issued"]
    /\ chat' = [chat EXCEPT ![s] = c]
    /\ UNCHANGED <<controlRunVars, cancelled, registry, recorded, took, left>>

\* abort_runs takes the chat's runs out of the registry ...
TakeRuns(s) ==
    /\ stop[s] = "issued"
    /\ SessionFree(chat[s])
    /\ stop' = [stop EXCEPT ![s] = "firing"]
    /\ took' = [took EXCEPT ![s] = registry[chat[s]]]
    /\ left' = [left EXCEPT ![s] = registry[chat[s]]]
    /\ registry' = [registry EXCEPT ![chat[s]] = {}]
    /\ UNCHANGED <<chat, controlRunVars, cancelled, recorded>>

\* ... and, one run after the other, sets its flag ...
SetFlag(s, r) ==
    /\ stop[s] = "firing" /\ r \in left[s]
    /\ \A q \in left[s] : ~cancelled[q]
    /\ cancelled' = [cancelled EXCEPT ![r] = TRUE]
    /\ UNCHANGED <<chat, controlRunVars, registry, recorded, stopVars>>

\* Mutant of NotifyRun: the waiter is not woken.
NotifyNobody(s, r) ==
    /\ stop[s] = "firing" /\ r \in left[s] /\ cancelled[r]
    /\ left' = [left EXCEPT ![s] = @ \ {r}]
    /\ UNCHANGED <<chat, controlRunVars, cancelled, registry, recorded, stop, took>>

\* ... and wakes whoever waits at this moment (notify_waiters keeps no permit) ...
NotifyRun(s, r) ==
    /\ stop[s] = "firing" /\ r \in left[s] /\ cancelled[r]
    /\ left' = [left EXCEPT ![s] = @ \ {r}]
    /\ woken' = [woken EXCEPT ![r] = @ \/ watch[r] = "waiting"]
    /\ UNCHANGED <<chat, progress, watch, stopped, cancelled, registry, recorded, stop, took>>

\* ... and at last records their messages, under another lock.
RecordSources(s) ==
    /\ stop[s] = "firing" /\ left[s] = {}
    /\ stop' = [stop EXCEPT ![s] = "done"]
    /\ recorded' = recorded \cup took[s]
    /\ UNCHANGED <<chat, controlRunVars, cancelled, registry, took, left>>

-----------------------------------------------------------------------------
PollRun(r) == CheckFlag(r) \/ AwaitNotify(r) \/ Woken(r) \/ Unregister(r)

StopStep(s) ==
    TakeRuns(s) \/ RecordSources(s) \/ \E r \in Run : SetFlag(s, r) \/ NotifyRun(s, r)

ControlNext ==
    \/ \E r \in Run : PollRun(r) \/ Finish(r) \/ Drop(r) \/ \E c \in Chat : Register(r, c)
    \/ \E s \in Stop : StopStep(s) \/ \E c \in Chat : Issue(s, c)

ControlSpec == ControlInit /\ [][ControlNext]_controlVars

\* A run is polled again after it is woken, and a stop goes on; nothing says
\* that the work of a run ends.
ControlFairness ==
    /\ \A r \in Run : WF_controlVars(PollRun(r))
    /\ \A s \in Stop : WF_controlVars(StopStep(s))

ControlFairSpec == ControlSpec /\ ControlFairness

-----------------------------------------------------------------------------
(***************************************************************************)
(* Properties                                                              *)
(***************************************************************************)
Taken(r) == \E s \in Stop : r \in took[s]

\* A run is there for the next stop of its chat from its start to its end,
\* whatever other runs of the chat end, unless a stop has already taken it.
StoppableWhileRunning ==
    \A r \in Run : Active(r) /\ ~Taken(r) => r \in registry[chat[r]]

\* A run that is over is not counted as "active" by a later stop ("Stopping
\* current run ({stopped} active)", chat_commands.rs:226), unless its future was
\* dropped.
NoneLeftBehind ==
    \A c \in Chat : \A r \in registry[c] : Active(r) \/ progress[r] = "dropped"

\* Only a stop of the run's own chat ends it early, and no two stops report
\* the same run as stopped.
StopsAreExact ==
    /\ \A r \in stopped : \E s \in Stop : r \in took[s] /\ chat[s] = chat[r]
    /\ \A s, z \in Stop : s # z => took[s] \cap took[z] = {}

\* A run a stop can still reach: it has yet to read the raised flag, or it waits
\* and a stop will wake it.  A web session's stop waits for its run and reaches none.
WithinReach(r) ==
    \/ watch[r] = "unpolled" /\ cancelled[r]
    \/ /\ watch[r] = "waiting"
       /\ \E s \in Stop : \/ stop[s] = "issued" /\ chat[s] \notin WebChat /\ r \in registry[chat[s]]
                         \/ r \in left[s]

\* /stop ends the runs of its chat, even if their work never would end ("abort the
\* current active run in this chat", README.md:501), whatever other stops do, but
\* for those that are between their look at the flag and their wait.
StopEndsRuns == \A r \in Run : (progress[r] = "running" /\ WithinReach(r)) ~> ~Active(r)

\* What /stop reports and reaches is right: the three above together.
RegistryExact == StoppableWhileRunning /\ NoneLeftBehind /\ StopsAreExact

=============================================================================
