----------------------------- MODULE MCDelivery -----------------------------
(***************************************************************************)
(* Small instances of the two ways in which something is to reach a chat   *)
(* in the end: a message waits for its turn and is answered, and the       *)
(* result of a sub-agent run is announced.  They share no state here, so a *)
(* behaviour moves one of them, and part says which.                       *)
(***************************************************************************)
EXTENDS TurnLifecycle, AnnounceRelay

VARIABLE part

DeliveryInit ==
    /\ part \in {"turns", "relay"}
    /\ LifecycleInit
    /\ AnnounceInit

DeliveryNext ==
    /\ UNCHANGED part
    /\ \/ part = "turns" /\ LifecycleNext /\ UNCHANGED announceVars
       \/ part = "relay" /\ AnnounceNext /\ UNCHANGED allVars

\* The fairness of each part, while it is the one that moves.
DeliverySpec ==
    /\ DeliveryInit /\ [][DeliveryNext]_<<part, allVars, announceVars>>
    /\ \A t \in Task : WF_allVars(part = "turns" /\ TaskStep(t))
    /\ \A r \in Ended :
          /\ WF_announceVars(part = "relay" /\ Enqueue(r))
          /\ WF_announceVars(part = "relay" /\ BackoffEnds(r))
    /\ \A f \in Flusher : WF_announceVars(part = "relay" /\ FlushStep(f))

=============================================================================
