-------------------------- MODULE TurnSerializer --------------------------
(***************************************************************************)
(* What the turn queue promises to its callers, without slots, locks or    *)
(* references: every chat has one turn, owned by at most one task, and one *)
(* bounded list of pending messages that a drain empties as a whole.       *)
(***************************************************************************)
EXTENDS Naturals, Sequences

CONSTANTS Key, Task, Msg, NoTask, MaxPending

VARIABLES
    turn,   \* the task that owns the chat's turn, if any
    queue   \* the chat's pending messages, oldest first

vars == <<turn, queue>>

Init ==
    /\ turn = [k \in Key |-> NoTask]
    /\ queue = [k \in Key |-> <<>>]

Claim(k, t) ==
    /\ turn[k] = NoTask
    /\ turn' = [turn EXCEPT ![k] = t]
    /\ UNCHANGED queue

\* The owner gives the turn up, to nobody or to a task that waits for it.
PassTurn(k, t) ==
    /\ turn[k] # NoTask
    /\ t # turn[k]
    /\ turn' = [turn EXCEPT ![k] = t]
    /\ UNCHANGED queue

\* At capacity the oldest message gives way to the newest.
Enqueue(k, m) ==
    /\ \A j \in Key : \A i \in DOMAIN queue[j] : queue[j][i] # m
    /\ queue' = [queue EXCEPT ![k] =
                   Append(IF Len(@) >= MaxPending THEN Tail(@) ELSE @, m)]
    /\ UNCHANGED turn

Drain(k) ==
    /\ queue' = [queue EXCEPT ![k] = <<>>]
    /\ UNCHANGED turn

Next ==
    \E k \in Key :
        \/ \E t \in Task : Claim(k, t)
        \/ \E t \in Task \cup {NoTask} : PassTurn(k, t)
        \/ \E m \in Msg : Enqueue(k, m)
        \/ Drain(k)

Spec == Init /\ [][Next]_vars

=============================================================================
