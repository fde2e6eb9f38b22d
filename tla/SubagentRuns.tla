---------------------------- MODULE SubagentRuns ----------------------------
(***************************************************************************)
(* Sub-agent runs of one chat (src/tools/subagents.rs): the rows of        *)
(* subagent_runs, the tasks that execute them, and the agents that spawn,  *)
(* orchestrate, continue and kill them.  A row is written by statements    *)
(* that hold the database for a moment; the limits are read by other       *)
(* statements before it is inserted.  A restart of the process leaves the  *)
(* rows and nothing else.                                                  *)
(***************************************************************************)
EXTENDS Naturals, Sequences, FiniteSets

CONSTANTS
    SubRun,         \* the runs that may be created
    Root,           \* agent runs that are not sub-agents themselves
    MaxConcurrent,  \* subagents.max_concurrent
    MaxActive,      \* subagents.max_active_per_chat
    MaxChildren,    \* subagents.max_children_per_run
    MaxDepth,       \* subagents.max_spawn_depth
    MaxWorkers,     \* packages one subagents_orchestrate may start
    MaxIterations,  \* MAX_SUB_AGENT_ITERATIONS
    Killable,       \* bound: the runs somebody may kill
    MaxRestarts,    \* bound: how often the process stops and starts again
    NoRun

ASSUME SubagentAssumption ==
    /\ NoRun \notin SubRun /\ Root \cap SubRun = {}
    /\ {MaxConcurrent, MaxActive, MaxChildren, MaxDepth, MaxWorkers, MaxRestarts} \subseteq Nat
    /\ MaxIterations \in Nat \ {0}
    /\ Killable \subseteq SubRun

Caller == Root \cup SubRun

VARIABLES
    row,         \* subagent_runs.status, "none" before the row is inserted
    wanted,      \* rows with cancel_requested = 1
    parent,      \* parent_run_id
    depth,       \* depth
    flags,       \* cancel_flags: the runs registered with the runtime
    raised,      \* runs whose flag is set
    killing,     \* the run whose row subagents_kill has marked, not yet the flag
    work,        \* where the task of a run is
    outcome,     \* how its run_sub_agent_task ended
    turns,       \* iterations it has done
    line,        \* who waits for a permit of the semaphore, oldest first
    call,        \* where a caller's sessions_spawn or subagents_orchestrate is
    under,       \* the parent of the runs it spawns
    packages,    \* how many it has still to spawn
    waits,       \* whether it will wait for them
    crew,        \* those it has spawned
    fresh,       \* the row it has inserted and not yet started
    restarts,
    orphans,     \* history: active rows whose task or caller is gone
    early        \* history: rows marked before their task started

rowVars == <<row, wanted, parent, depth>>
taskVars == <<flags, raised, work, outcome, turns, line>>
callVars == <<call, under, packages, waits, crew, fresh>>
subagentVars == <<rowVars, taskVars, callVars, killing, restarts, orphans, early>>

Active == {"accepted", "queued", "running"}
Final == {"completed", "cancelled", "timed_out", "budget_exceeded", "failed"}
NotStarted == {"queueing", "waiting"}
InRun == {"check", "model", "tools"}   \* inside run_sub_agent_task
Settled == {"none", "announcing", "gone"}  \* with nothing more to write to the row

SubagentTypeOK ==
    /\ row \in [SubRun -> Active \cup Final \cup {"none"}]
    /\ wanted \subseteq SubRun /\ killing \in wanted \cup {NoRun}
    /\ parent \in [SubRun -> SubRun \cup {NoRun}]
    /\ depth \in [SubRun -> 0 .. MaxDepth]
    /\ flags \subseteq SubRun /\ raised \subseteq SubRun
    /\ work \in [SubRun -> Settled \cup NotStarted \cup InRun \cup {"finishing"}]
    /\ outcome \in [SubRun -> Final \cup {"none"}]
    /\ turns \in [SubRun -> 0 .. MaxIterations]
    /\ line \in Seq(SubRun)
    /\ call \in [Caller -> {"idle", "chat", "children", "insert", "register", "poll"}]
    /\ under \in [Caller -> SubRun \cup {NoRun}]
    /\ packages \in [Caller -> 0 .. MaxWorkers]
    /\ waits \in [Caller -> BOOLEAN]
    /\ crew \in [Caller -> SUBSET SubRun]
    /\ fresh \in [Caller -> SubRun \cup {NoRun}]
    /\ restarts \in 0 .. MaxRestarts
    /\ orphans \subseteq SubRun /\ early \subseteq wanted

SubagentInit ==
    /\ row = [r \in SubRun |-> "none"]
    /\ wanted = {} /\ killing = NoRun /\ early = {} /\ orphans = {}
    /\ parent = [r \in SubRun |-> NoRun]
    /\ depth = [r \in SubRun |-> 0]
    /\ flags = {} /\ raised = {}
    /\ work = [r \in SubRun |-> "none"]
    /\ outcome = [r \in SubRun |-> "none"]
    /\ turns = [r \in SubRun |-> 0]
    /\ line = <<>>
    /\ call = [c \in Caller |-> "idle"]
    /\ under = [c \in Caller |-> NoRun]
    /\ packages = [c \in Caller |-> 0]
    /\ waits = [c \in Caller |-> FALSE]
    /\ crew = [c \in Caller |-> {}]
    /\ fresh = [c \in Caller |-> NoRun]
    /\ restarts = 0

-----------------------------------------------------------------------------
(* Spawning: SessionsSpawnTool::execute, and subagents_orchestrate and      *)
(* subagents_send, which call it.                                           *)

ActiveRuns == {r \in SubRun : row[r] \in Active}
ActiveChildren(p) == {r \in ActiveRuns : parent[r] = p}

\* The first checks need no database.  A sub-agent spawns below itself; the
\* main agent at the top, or with subagents_send below the focused run.
BeginSpawn(c, p, n, w) ==
    /\ call[c] = "idle"
    /\ IF c \in SubRun THEN p = c /\ work[c] = "tools"
                       ELSE p # NoRun => row[p] # "none" /\ n = 1 /\ ~w
    /\ (IF p = NoRun THEN 0 ELSE depth[p]) < MaxDepth
    /\ call' = [call EXCEPT ![c] = "chat"]
    /\ under' = [under EXCEPT ![c] = p]
    /\ packages' = [packages EXCEPT ![c] = n]
    /\ waits' = [waits EXCEPT ![c] = w]
    /\ UNCHANGED <<rowVars, taskVars, crew, fresh, killing, restarts, orphans, early>>

\* The tool returns: a result, or an error that leaves those already spawned.
CallEnds(c) ==
    /\ call' = [call EXCEPT ![c] = "idle"]
    /\ under' = [under EXCEPT ![c] = NoRun]
    /\ packages' = [packages EXCEPT ![c] = 0]
    /\ waits' = [waits EXCEPT ![c] = FALSE]
    /\ crew' = [crew EXCEPT ![c] = {}]
    /\ fresh' = [fresh EXCEPT ![c] = NoRun]

CountChat(c) ==
    /\ call[c] = "chat"
    /\ IF Cardinality(ActiveRuns) >= MaxActive
       THEN CallEnds(c)
       ELSE /\ call' = [call EXCEPT ![c] = IF under[c] = NoRun THEN "insert" ELSE "children"]
            /\ UNCHANGED <<under, packages, waits, crew, fresh>>
    /\ UNCHANGED <<rowVars, taskVars, killing, restarts, orphans, early>>

CountChildren(c) ==
    /\ call[c] = "children"
    /\ IF Cardinality(ActiveChildren(under[c])) >= MaxChildren
       THEN CallEnds(c)
       ELSE /\ call' = [call EXCEPT ![c] = "insert"]
            /\ UNCHANGED <<under, packages, waits, crew, fresh>>
    /\ UNCHANGED <<rowVars, taskVars, killing, restarts, orphans, early>>

\* A new run_id; which one makes no difference.
InsertRow(c) ==
    LET r == CHOOSE new \in SubRun : row[new] = "none" IN
    /\ call[c] = "insert" /\ \E s \in SubRun : row[s] = "none"
    /\ row' = [row EXCEPT ![r] = "accepted"]
    /\ parent' = [parent EXCEPT ![r] = under[c]]
    /\ depth' = [depth EXCEPT ![r] = 1 + IF under[c] = NoRun THEN 0 ELSE depth[under[c]]]
    /\ fresh' = [fresh EXCEPT ![c] = r]
    /\ call' = [call EXCEPT ![c] = "register"]
    /\ UNCHANGED <<wanted, taskVars, under, packages, waits, crew, killing, restarts,
                   orphans, early>>

\* register_run and tokio::spawn, after the event "accepted" has been written;
\* then the next package, the wait, or the end.
StartTask(c) ==
    LET r == fresh[c] IN
    /\ call[c] = "register"
    /\ flags' = flags \cup {r}
    /\ work' = [work EXCEPT ![r] = "queueing"]
    /\ IF packages[c] = 1 /\ ~waits[c]
       THEN CallEnds(c)
       ELSE /\ call' = [call EXCEPT ![c] = IF packages[c] > 1 THEN "chat" ELSE "poll"]
            /\ packages' = [packages EXCEPT ![c] = @ - 1]
            /\ crew' = [crew EXCEPT ![c] = @ \cup {r}]
            /\ fresh' = [fresh EXCEPT ![c] = NoRun]
            /\ UNCHANGED <<under, waits>>
    /\ UNCHANGED <<rowVars, raised, outcome, turns, line, killing, restarts, orphans, early>>

\* subagents_orchestrate with wait: until all are done, or wait_timeout_secs.
Poll(c) ==
    /\ call[c] = "poll"
    /\ \A r \in crew[c] : row[r] \in Final
    /\ CallEnds(c)
    /\ UNCHANGED <<rowVars, taskVars, killing, restarts, orphans, early>>

StopWaiting(c) ==
    /\ call[c] = "poll"
    /\ CallEnds(c)
    /\ UNCHANGED <<rowVars, taskVars, killing, restarts, orphans, early>>

\* The row a caller has inserted is nobody's when its future is dropped.
Dropped(c) == IF fresh[c] = NoRun THEN {} ELSE {fresh[c]}

\* The main agent's run is dropped (/stop, a closed request) inside the tool.
Abandon(c) ==
    /\ c \in Root /\ call[c] # "idle"
    /\ CallEnds(c)
    /\ orphans' = orphans \cup Dropped(c)
    /\ UNCHANGED <<rowVars, taskVars, killing, restarts, early>>

-----------------------------------------------------------------------------
(* The task of a run.                                                       *)

\* mark_subagent_queued writes only over "accepted".
EnterLine(r) ==
    /\ work[r] = "queueing"
    /\ row' = [row EXCEPT ![r] = IF @ = "accepted" THEN "queued" ELSE @]
    /\ work' = [work EXCEPT ![r] = "waiting"]
    /\ line' = Append(line, r)
    /\ UNCHANGED <<wanted, parent, depth, flags, raised, outcome, turns, callVars, killing,
                   restarts, orphans, early>>

\* The permit is held until the task ends, announcement included.
HoldsPermit(r) == work[r] \in InRun \cup {"finishing", "announcing"}

\* The semaphore serves the oldest waiter.  mark_subagent_running then writes
\* over whatever is there.
StartRunning(r) ==
    /\ line # <<>> /\ Head(line) = r
    /\ Cardinality({s \in SubRun : HoldsPermit(s)}) < MaxConcurrent
    /\ line' = Tail(line)
    /\ row' = [row EXCEPT ![r] = "running"]
    /\ work' = [work EXCEPT ![r] = "check"]
    /\ UNCHANGED <<wanted, parent, depth, flags, raised, outcome, turns, callVars, killing,
                   restarts, orphans, early>>

EndsWith(r, how) ==
    /\ work' = [work EXCEPT ![r] = "finishing"]
    /\ outcome' = [outcome EXCEPT ![r] = how]

\* Mutant of Cancelled: only the flag in memory is looked at.
CancelledInMemory(r) == r \in raised

\* is_cancelled: the flag, and if it is clear the row.
Cancelled(r) == r \in raised \/ r \in wanted

CheckCancel(r) ==
    /\ work[r] = "check"
    /\ IF Cancelled(r)
       THEN EndsWith(r, "cancelled")
       ELSE work' = [work EXCEPT ![r] = "model"] /\ UNCHANGED outcome
    /\ UNCHANGED <<rowVars, flags, raised, turns, line, callVars, killing, restarts, orphans,
                   early>>

\* The model answers, fails, uses up the budget, or asks for tools.
Respond(r) ==
    /\ work[r] = "model"
    /\ \/ \E how \in {"completed", "budget_exceeded", "failed"} : EndsWith(r, how)
       \/ work' = [work EXCEPT ![r] = "tools"] /\ UNCHANGED outcome
    /\ UNCHANGED <<rowVars, flags, raised, turns, line, callVars, killing, restarts, orphans,
                   early>>

FinishTools(r) ==
    /\ work[r] = "tools" /\ call[r] = "idle"
    /\ turns' = [turns EXCEPT ![r] = @ + 1]
    /\ IF turns'[r] = MaxIterations
       THEN EndsWith(r, "failed")
       ELSE work' = [work EXCEPT ![r] = "check"] /\ UNCHANGED outcome
    /\ UNCHANGED <<rowVars, flags, raised, line, callVars, killing, restarts, orphans, early>>

\* Mutant of TimeOutRun: the timeout is around the model call only.
TimeOutCall(r) ==
    /\ work[r] = "model"
    /\ EndsWith(r, "timed_out")
    /\ UNCHANGED <<rowVars, flags, raised, turns, line, callVars, killing, restarts, orphans,
                   early>>

\* tokio::time::timeout drops run_sub_agent_task wherever it is, a nested
\* spawn or wait included.
TimeOutRun(r) ==
    /\ work[r] \in InRun
    /\ EndsWith(r, "timed_out")
    /\ IF call[r] = "idle" THEN UNCHANGED callVars ELSE CallEnds(r)
    /\ orphans' = orphans \cup Dropped(r)
    /\ UNCHANGED <<rowVars, flags, raised, turns, line, killing, restarts, early>>

\* mark_subagent_finished and remove_run.
FinishRun(r) ==
    /\ work[r] = "finishing"
    /\ row' = [row EXCEPT ![r] = outcome[r]]
    /\ outcome' = [outcome EXCEPT ![r] = "none"]
    /\ flags' = flags \ {r} /\ raised' = raised \ {r}
    /\ work' = [work EXCEPT ![r] = "announcing"]
    /\ turns' = [turns EXCEPT ![r] = 0]
    /\ UNCHANGED <<wanted, parent, depth, line, callVars, killing, restarts, orphans, early>>

\* The announcement has been queued and flushed (module AnnounceRelay); with the
\* end of the task its permit is free.
ReleasePermit(r) ==
    /\ work[r] = "announcing"
    /\ work' = [work EXCEPT ![r] = "gone"]
    /\ UNCHANGED <<rowVars, flags, raised, outcome, turns, line, callVars, killing, restarts,
                   orphans, early>>

-----------------------------------------------------------------------------
(* subagents_kill marks the row of an active run, then sets its flag.       *)

\* Mutant of RequestCancel: the kill writes the final status itself.
RequestCancelNow(r) ==
    /\ r \in Killable /\ row[r] \in Active /\ killing = NoRun
    /\ row' = [row EXCEPT ![r] = "cancelled"]
    /\ wanted' = wanted \cup {r}
    /\ killing' = r
    /\ early' = IF work[r] \in NotStarted \cup {"none"} THEN early \cup {r} ELSE early
    /\ UNCHANGED <<parent, depth, taskVars, callVars, restarts, orphans>>

RequestCancel(r) ==
    /\ r \in Killable /\ row[r] \in Active /\ killing = NoRun
    /\ wanted' = wanted \cup {r}
    /\ killing' = r
    /\ early' = IF work[r] \in NotStarted \cup {"none"} THEN early \cup {r} ELSE early
    /\ UNCHANGED <<row, parent, depth, taskVars, callVars, restarts, orphans>>

CancelRun(r) ==
    /\ killing = r
    /\ killing' = NoRun
    /\ raised' = IF r \in flags THEN raised \cup {r} ELSE raised
    /\ UNCHANGED <<rowVars, flags, work, outcome, turns, line, callVars, restarts, orphans,
                   early>>

-----------------------------------------------------------------------------
(* The process stops.  Nothing at its next start looks at subagent_runs.    *)

Restart ==
    /\ restarts < MaxRestarts
    /\ restarts' = restarts + 1
    /\ flags' = {} /\ raised' = {} /\ killing' = NoRun /\ line' = <<>>
    /\ work' = [r \in SubRun |-> IF work[r] = "none" THEN "none" ELSE "gone"]
    /\ outcome' = [r \in SubRun |-> "none"]
    /\ call' = [c \in Caller |-> "idle"]
    /\ under' = [c \in Caller |-> NoRun]
    /\ packages' = [c \in Caller |-> 0]
    /\ waits' = [c \in Caller |-> FALSE]
    /\ crew' = [c \in Caller |-> {}]
    /\ fresh' = [c \in Caller |-> NoRun]
    /\ turns' = [r \in SubRun |-> 0]
    /\ orphans' = orphans \cup ActiveRuns
    /\ UNCHANGED <<rowVars, early>>

SpawnStep(c) ==
    \/ \E p \in SubRun \cup {NoRun}, n \in 1 .. MaxWorkers, w \in BOOLEAN : BeginSpawn(c, p, n, w)
    \/ CountChat(c) \/ CountChildren(c)
    \/ InsertRow(c) \/ StartTask(c) \/ Poll(c) \/ StopWaiting(c) \/ Abandon(c)

TaskStep(r) ==
    \/ EnterLine(r) \/ StartRunning(r) \/ CheckCancel(r) \/ Respond(r)
    \/ FinishTools(r) \/ TimeOutRun(r) \/ FinishRun(r) \/ ReleasePermit(r)

SubagentNext ==
    \/ \E c \in Caller : SpawnStep(c)
    \/ \E r \in SubRun : TaskStep(r) \/ RequestCancel(r) \/ CancelRun(r)
    \/ Restart

\* Tasks are polled, a permit goes to the head of the line, and the timers
\* of the run and of the wait fire.
SubagentFairness ==
    /\ \A r \in SubRun : WF_subagentVars(TaskStep(r)) /\ WF_subagentVars(TimeOutRun(r))
    /\ \A c \in Caller : WF_subagentVars(StartTask(c))

SubagentSpec == SubagentInit /\ [][SubagentNext]_subagentVars /\ SubagentFairness

-----------------------------------------------------------------------------
(* Properties.                                                              *)

\* A row counts against the limits, and can be killed, exactly while there is
\* a task that will finish it or a caller about to start that task
\* (subagents.rs:745-777, 1303-1330).  Rows that a restart or a dropped
\* spawn has left are the exception, and stay one for good.
RowsMatchTasks ==
    \A r \in SubRun \ orphans :
        row[r] \in Active <=> \/ work[r] \in NotStarted \cup InRun \cup {"finishing"}
                              \/ \E c \in Caller : fresh[c] = r

\* A run that was killed before its task got to work never gets to its end:
\* the flag may not be registered yet, or the row may be written over by
\* mark_subagent_running, but one of the two tells is_cancelled.
EarlyKillWins == \A r \in early \ orphans : row[r] \in Final => row[r] \in {"cancelled", "timed_out"}

\* A run ends once: no statement changes a final status, although those of
\* mark_subagent_running and mark_subagent_finished have no condition
\* (crates/microclaw-storage/src/db.rs:5116-5158).
FinalIsFinal == [][\A r \in SubRun : row[r] \in Final => row'[r] = row[r]]_subagentVars

\* Every run ends, in spite of runs that keep a permit while they wait for
\* runs that need one: the timeout of a run includes its nested waits.
RunsFinish == \A r \in SubRun : row[r] \in Active ~> row[r] \in Final \/ r \in orphans

\* The rows tell which runs can be killed, and a kill is not lost to a race
\* with the start of its run.
KillsAndRowsAgree == RowsMatchTasks /\ EarlyKillWins

=============================================================================
