------------------------- MODULE MCChatTurnQueue -------------------------
(***************************************************************************)
(* Small instances of ChatTurnQueue.  CleanupAbove stands for the 100 slots *)
(* above which get_slot cleans up: at Cardinality(Key) it never does.      *)
(***************************************************************************)
EXTENDS ChatTurnQueue

=============================================================================
