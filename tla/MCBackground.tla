---------------------------- MODULE MCBackground ----------------------------
(***************************************************************************)
(* Small instances of the work that goes on beside a turn: sub-agent runs  *)
(* and scheduled tasks.  They share no state here, so a behaviour moves    *)
(* one of them, and part says which.                                       *)
(***************************************************************************)
EXTENDS SubagentRuns, TaskScheduler

VARIABLE part

BackgroundInit ==
    /\ part \in {"runs", "tasks"}
    /\ SubagentInit
    /\ SchedInit

BackgroundNext ==
    /\ UNCHANGED part
    /\ \/ part = "runs" /\ SubagentNext /\ UNCHANGED allTaskVars
       \/ part = "tasks" /\ SchedNext /\ UNCHANGED subagentVars

\* Every part stays in its types.
BackgroundTypeOK == SubagentTypeOK /\ SchedTypeOK

\* Background work is not left lying: a due task runs unless somebody or a failed
\* lookup prevents it, and every sub-agent run ends.
WorkIsDone == DueTasksRun /\ RunsFinish

\* The fairness of each part, while it is the one that moves.
BackgroundSpec ==
    /\ BackgroundInit /\ [][BackgroundNext]_<<part, subagentVars, allTaskVars>>
    /\ \A r \in SubRun :
          /\ WF_subagentVars(part = "runs" /\ TaskStep(r))
          /\ WF_subagentVars(part = "runs" /\ TimeOutRun(r))
    /\ \A c \in Caller : WF_subagentVars(part = "runs" /\ StartTask(c))
    /\ WF_allTaskVars(part = "tasks" /\ SchedulerStep)
    /\ WF_allTaskVars(part = "tasks" /\ ReplayStep)

=============================================================================
