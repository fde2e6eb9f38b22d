--------------------------- MODULE TaskScheduler ---------------------------
(***************************************************************************)
(* Scheduled tasks: the rows of scheduled_tasks and of the dead-letter     *)
(* queue (crates/microclaw-storage/src/db.rs), the scheduler's loop        *)
(* (src/scheduler.rs), and the tools and commands that change the same     *)
(* rows while it runs (src/tools/schedule.rs).  Each database call is one  *)
(* step; between two of them anything can happen, a crash included.        *)
(*                                                                         *)
(* Time is what the scheduler makes of it: a task is due when its next_run *)
(* has passed.  The tasks are those of one chat, fewer than the 200 that   *)
(* one poll claims.                                                        *)
(***************************************************************************)
EXTENDS Naturals, FiniteSets

CONSTANTS
    Task,
    Cron,         \* those of them with schedule_type = "cron"
    Entry,        \* dead-letter entries; a run fails only while one is left
    MaxCrashes,   \* bound: how often the process stops and starts again
    NoTask

ASSUME SchedulerAssumption ==
    /\ NoTask \notin Task
    /\ Cron \subseteq Task
    /\ MaxCrashes \in Nat

VARIABLES
    status,    \* scheduled_tasks.status
    due,       \* next_run <= now
    dlq,       \* the state of each dead-letter entry
    failed,    \* the task of each entry
    sched,     \* where run_due_tasks is
    claimed,   \* tasks it has claimed and not yet started
    current,   \* the task it is at
    success,   \* whether the run succeeded
    replay,    \* where replay_scheduled_task_dlq is
    todo,      \* entries it has still to replay
    seen,      \* the status it has read for the entry at hand
    at,        \* that entry, if any
    crashes,
    owed,      \* history: tasks with an occurrence nobody has run
    succeeded, \* history: one-time tasks whose last run succeeded
    skipped    \* history: tasks this process has claimed last and not run

taskRowVars == <<status, due, dlq, failed>>
schedVars == <<sched, claimed, current, success>>
replayVars == <<replay, todo, seen, at>>
historyVars == <<owed, succeeded, skipped>>
allTaskVars == <<taskRowVars, schedVars, replayVars, crashes, historyVars>>

Status == {"new", "active", "paused", "running", "cancelled", "completed", "deleted"}

SchedTypeOK ==
    /\ status \in [Task -> Status]
    /\ due \in [Task -> BOOLEAN]
    /\ dlq \in [Entry -> {"none", "pending", "queued", "skipped", "deleted"}]
    /\ failed \in [Entry -> Task \cup {NoTask}]
    /\ sched \in {"starting", "polling", "batch", "looking", "agent", "logging", "updating"}
    /\ claimed \subseteq Task
    /\ current \in Task \cup {NoTask}
    /\ success \in BOOLEAN
    /\ replay \in {"idle", "looping", "deciding", "queued", "skipped"}
    /\ todo \subseteq Entry
    /\ seen \in Status
    /\ at \subseteq Entry
    /\ crashes \in 0 .. MaxCrashes
    /\ owed \subseteq Task
    /\ succeeded \subseteq Task
    /\ skipped \subseteq Task

SchedInit ==
    /\ status = [t \in Task |-> "new"]
    /\ due = [t \in Task |-> FALSE]
    /\ dlq = [e \in Entry |-> "none"]
    /\ failed = [e \in Entry |-> NoTask]
    /\ sched = "starting" /\ claimed = {} /\ current = NoTask /\ success = TRUE
    /\ replay = "idle" /\ todo = {} /\ seen = "new" /\ at = {}
    /\ crashes = 0 /\ owed = {} /\ succeeded = {} /\ skipped = {}

Exists(t) == status[t] \notin {"new", "deleted"}

-----------------------------------------------------------------------------
(***************************************************************************)
(* The scheduler                                                           *)
(***************************************************************************)
\* Mutant of Recover: claims of the last process are not given back.
RecoverNothing ==
    /\ sched = "starting"
    /\ sched' = "polling"
    /\ UNCHANGED <<taskRowVars, claimed, current, success, replayVars, crashes, historyVars>>

\* recover_running_tasks, at the start of the process.
Recover ==
    /\ sched = "starting"
    /\ status' = [t \in Task |-> IF status[t] = "running" THEN "active" ELSE status[t]]
    /\ sched' = "polling"
    /\ UNCHANGED <<due, dlq, failed, claimed, current, success, replayVars,
                   crashes, historyVars>>

Due == {t \in Task : status[t] = "active" /\ due[t]}

\* claim_due_tasks, in one transaction.
Claim ==
    /\ sched = "polling"
    /\ Due # {}
    /\ claimed' = Due
    /\ status' = [t \in Task |-> IF t \in Due THEN "running" ELSE status[t]]
    /\ sched' = "batch"
    /\ skipped' = skipped \ Due
    /\ UNCHANGED <<due, dlq, failed, current, success, replayVars, crashes, owed, succeeded>>

\* The batch is worked off one task at a time.
TakeNext(t) ==
    /\ sched = "batch"
    /\ t \in claimed
    /\ claimed' = claimed \ {t}
    /\ current' = t
    /\ sched' = "looking"
    /\ UNCHANGED <<taskRowVars, success, replayVars, crashes, historyVars>>

EndBatch ==
    /\ sched = "batch" /\ claimed = {}
    /\ sched' = "polling"
    /\ UNCHANGED <<taskRowVars, claimed, current, success, replayVars, crashes, historyVars>>

\* The chat's owner is missing, or cannot be read: continue.
SkipRun ==
    /\ sched = "looking"
    /\ sched' = "batch" /\ current' = NoTask
    /\ skipped' = skipped \cup {current}
    /\ UNCHANGED <<taskRowVars, claimed, success, replayVars, crashes, owed, succeeded>>

\* process_with_agent is called, whatever the row says by now.
RunAgent ==
    /\ sched = "looking"
    /\ sched' = "agent"
    /\ owed' = owed \ {current}
    /\ UNCHANGED <<taskRowVars, claimed, current, success, replayVars, crashes, succeeded, skipped>>

FreeEntries == {e \in Entry : dlq[e] = "none"}

\* The agent has answered and the answer was delivered, or one of them failed.
FinishTaskRun(ok) ==
    /\ sched = "agent"
    /\ ok \/ FreeEntries # {}
    /\ sched' = "logging"
    /\ success' = ok
    /\ succeeded' = IF ok THEN succeeded \cup ({current} \ Cron) ELSE succeeded \ {current}
    /\ UNCHANGED <<taskRowVars, claimed, current, replayVars, crashes, owed, skipped>>

\* Mutant of RecordRun: only recurring tasks get an entry.
RecordRunOfCron ==
    /\ sched = "logging"
    /\ sched' = "updating"
    /\ IF success \/ current \notin Cron
       THEN UNCHANGED <<dlq, failed>>
       ELSE \E e \in FreeEntries :
              /\ dlq' = [dlq EXCEPT ![e] = "pending"]
              /\ failed' = [failed EXCEPT ![e] = current]
    /\ UNCHANGED <<status, due, claimed, current, success, replayVars, crashes, historyVars>>

\* log_task_run, and insert_scheduled_task_dlq for a run that failed.
RecordRun ==
    /\ sched = "logging"
    /\ sched' = "updating"
    /\ IF success
       THEN UNCHANGED <<dlq, failed>>
       ELSE \E e \in FreeEntries :
              /\ dlq' = [dlq EXCEPT ![e] = "pending"]
              /\ failed' = [failed EXCEPT ![e] = current]
    /\ UNCHANGED <<status, due, claimed, current, success, replayVars, crashes, historyVars>>

\* Mutant of AfterRun: next_run stays where it was.
AfterRunStillDue(t) ==
    /\ status' = [status EXCEPT ![t] = IF t \in Cron THEN "active" ELSE "completed"]
    /\ UNCHANGED due

\* Mutant of AfterRun: a status of its own for one-time tasks that failed.
AfterRunFailed(t) ==
    /\ status' = [status EXCEPT ![t] =
          IF t \in Cron THEN "active" ELSE IF success THEN "completed" ELSE "failed"]
    /\ due' = [due EXCEPT ![t] = @ /\ t \notin Cron]

\* update_task_after_run: WHERE id = ?, whatever the status is by now.
AfterRun(t) ==
    /\ status' = [status EXCEPT ![t] = IF t \in Cron THEN "active" ELSE "completed"]
    /\ due' = [due EXCEPT ![t] = @ /\ t \notin Cron]

UpdateTask ==
    /\ sched = "updating"
    /\ IF Exists(current) THEN AfterRun(current) ELSE UNCHANGED <<status, due>>
    /\ sched' = "batch" /\ current' = NoTask /\ success' = TRUE
    /\ UNCHANGED <<dlq, failed, claimed, replayVars, crashes, historyVars>>

\* The process stops and starts again: only the rows are left.
Crash ==
    /\ crashes < MaxCrashes
    /\ crashes' = crashes + 1
    /\ sched' = "starting" /\ claimed' = {} /\ current' = NoTask /\ success' = TRUE
    /\ replay' = "idle" /\ todo' = {} /\ at' = {} /\ seen' = "new"
    /\ owed' = (owed \cup claimed \cup {current}) \ {NoTask}
    /\ skipped' = {}
    /\ UNCHANGED <<taskRowVars, succeeded>>

-----------------------------------------------------------------------------
(***************************************************************************)
(* The tools and commands                                                  *)
(***************************************************************************)
Create(t) ==
    /\ status[t] = "new"
    /\ status' = [status EXCEPT ![t] = "active"]
    /\ UNCHANGED <<due, dlq, failed, schedVars, replayVars, crashes, historyVars>>

\* The clock reaches next_run.
BecomeDue(t) ==
    /\ Exists(t) /\ ~due[t]
    /\ due' = [due EXCEPT ![t] = TRUE]
    /\ owed' = owed \cup {t}
    /\ UNCHANGED <<status, dlq, failed, schedVars, replayVars, crashes, succeeded, skipped>>

\* update_task_status by pause_, resume_ and cancel_scheduled_task: they read
\* the task for its chat only, its status does not matter.  A task that has
\* completed and is resumed has an occurrence again.
SetStatus(t, s) ==
    /\ Exists(t)
    /\ status' = [status EXCEPT ![t] = s]
    /\ owed' = IF status[t] = "completed" THEN owed \cup {t} ELSE owed
    /\ UNCHANGED <<due, dlq, failed, schedVars, replayVars, crashes, succeeded, skipped>>

\* /reset: clear_chat_context deletes the chat's tasks and entries.
Reset ==
    /\ \E t \in Task : Exists(t)
    /\ status' = [t \in Task |-> IF Exists(t) THEN "deleted" ELSE status[t]]
    /\ due' = [t \in Task |-> FALSE]
    /\ dlq' = [e \in Entry |-> IF dlq[e] = "none" THEN "none" ELSE "deleted"]
    /\ UNCHANGED <<failed, schedVars, replayVars, crashes, historyVars>>

\* replay_scheduled_task_dlq lists the entries that are not replayed ...
ReplayList ==
    /\ replay = "idle"
    /\ \E e \in Entry : dlq[e] = "pending"
    /\ todo' = {e \in Entry : dlq[e] = "pending"}
    /\ replay' = "looping"
    /\ UNCHANGED <<taskRowVars, schedVars, seen, at, crashes, historyVars>>

\* ... and for each of them reads its task, ...
ReplayRead(e) ==
    /\ replay = "looping"
    /\ e \in todo
    /\ todo' = todo \ {e}
    /\ at' = {e}
    /\ seen' = status[failed[e]]
    /\ replay' = "deciding"
    /\ UNCHANGED <<taskRowVars, schedVars, crashes, historyVars>>

\* Mutant of Replayable: only completed tasks are left alone.
ReplayableUnlessCompleted(s) == s \notin {"completed", "new", "deleted"}

Replayable(s) == s \notin {"cancelled", "completed", "new", "deleted"}

\* ... requeues it (WHERE id = ?) or skips it, ...
ReplayRequeue ==
    /\ replay = "deciding"
    /\ IF Replayable(seen)
       THEN \E e \in at :
              LET t == failed[e]
              IN  /\ replay' = "queued"
                  /\ owed' = IF Exists(t) THEN owed \cup {t} ELSE owed
                  /\ IF Exists(t)
                     THEN /\ status' = [status EXCEPT ![t] = "active"]
                          /\ due' = [due EXCEPT ![t] = TRUE]
                     ELSE UNCHANGED <<status, due>>
       ELSE replay' = "skipped" /\ UNCHANGED <<status, due, owed>>
    /\ UNCHANGED <<dlq, failed, schedVars, todo, seen, at, crashes, succeeded, skipped>>

\* ... and marks the entry.
ReplayMark ==
    /\ replay \in {"queued", "skipped"}
    /\ dlq' = [e \in Entry |-> IF e \in at /\ dlq[e] # "deleted" THEN replay ELSE dlq[e]]
    /\ replay' = "looping" /\ at' = {} /\ seen' = "new"
    /\ UNCHANGED <<status, due, failed, schedVars, todo, crashes, historyVars>>

ReplayEnd ==
    /\ replay = "looping" /\ todo = {}
    /\ replay' = "idle"
    /\ UNCHANGED <<taskRowVars, schedVars, todo, seen, at, crashes, historyVars>>

-----------------------------------------------------------------------------
SchedulerStep ==
    \/ Recover \/ Claim \/ EndBatch \/ SkipRun \/ RunAgent \/ RecordRun \/ UpdateTask
    \/ \E t \in Task : TakeNext(t)
    \/ \E ok \in BOOLEAN : FinishTaskRun(ok)

ReplayStep ==
    \/ ReplayRequeue \/ ReplayMark \/ ReplayEnd
    \/ \E e \in Entry : ReplayRead(e)

ToolStep ==
    \/ Reset \/ ReplayList \/ ReplayStep
    \/ \E t \in Task :
          Create(t) \/ BecomeDue(t) \/ \E s \in {"active", "paused", "cancelled"} : SetStatus(t, s)

SchedNext == SchedulerStep \/ ToolStep \/ Crash

SchedSpec == SchedInit /\ [][SchedNext]_allTaskVars

\* The ticker goes on, agents return, and a replay that was begun is finished.
SchedFairness == WF_allTaskVars(SchedulerStep) /\ WF_allTaskVars(ReplayStep)

SchedFairSpec == SchedSpec /\ SchedFairness

-----------------------------------------------------------------------------
(***************************************************************************)
(* Properties                                                              *)
(***************************************************************************)
Held == IF current = NoTask THEN claimed ELSE claimed \cup {current}

\* A task that is marked running is in the hands of a scheduler that will get
\* to it, or of the recovery of the next process, or its run was skipped.
RunningIsHeld ==
    \A t \in Task : status[t] = "running" =>
        t \in Held \/ sched = "starting" \/ t \in skipped

\* An occurrence of a task is run once: again only after a crash, a replay or
\* the resumption of a completed task.
RunsAreOwed == [][sched = "looking" /\ sched' = "agent" => current \in owed]_allTaskVars

\* A one-time task that is completed was delivered, or its failure is in the
\* dead-letter queue (whatever has become of the entry).
CompletedIsAccountedFor ==
    \A t \in Task : status[t] = "completed" =>
        t \in succeeded \/ \E e \in Entry : failed[e] = t

\* A task that is active and due at a poll runs, unless it is paused, cancelled
\* or deleted, or the chat's owner cannot be looked up ("scheduled tasks keep
\* running in the background", README.md:53).
Running(t) == current = t /\ sched = "agent"
DueTasksRun ==
    \A t \in Task :
        (sched = "polling" /\ status[t] = "active" /\ due[t]) ~>
            (Running(t) \/ t \in skipped \/ status[t] \in {"paused", "cancelled", "deleted"})

\* A cancelled task comes back to life only by the resume tool, by the end of
\* a run that had begun, or by a replay that had read its status before.
RevivalsHaveCause ==
    [][\A t \in Task : status[t] = "cancelled" /\ status'[t] # "cancelled" =>
          \/ UNCHANGED <<sched, replay>>
          \/ sched = "updating" /\ current = t
          \/ replay = "deciding" /\ seen # "cancelled"]_allTaskVars

\* Neither the scheduler nor a replay revives a cancelled task ("Cancel a task
\* permanently", README.md:330).
CancelIsFinal ==
    [][\A t \in Task : status[t] = "cancelled" /\ status'[t] # "cancelled" =>
          UNCHANGED <<sched, replay>>]_allTaskVars

=============================================================================
