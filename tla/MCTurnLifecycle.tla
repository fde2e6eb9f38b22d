-------------------------- MODULE MCTurnLifecycle --------------------------
(***************************************************************************)
(* Small instances of TurnLifecycle: one chat, messages with their         *)
(* handlers and at most one scheduled job.                                 *)
(***************************************************************************)
EXTENDS TurnLifecycle

=============================================================================
