--------------------------- MODULE ChatTurnQueue ---------------------------
(***************************************************************************)
(* The per-chat turn queue of src/chat_turn_queue.rs: for every chat key   *)
(* (channel, chat_id, user_id) a slot object that owns a turn lock, a      *)
(* bounded list of pending messages and the time it was last active.       *)
(*                                                                         *)
(* A step is a critical section of one of the three mutexes (the map of    *)
(* slots, the slot, the turn lock); another task may run between any two   *)
(* of them, because every lock is an await point.  A slot is an object of  *)
(* its own: when cleanup removes it from the map, tasks that hold a        *)
(* reference keep using it while the next caller creates a second one.     *)
(***************************************************************************)
EXTENDS Naturals, FiniteSets, SequencesExt

CONSTANTS
    Key,            \* chats: (channel, chat_id, user_id)
    Task,           \* asynchronous tasks that call the queue
    Msg,            \* messages that arrive, each of them once
    Slot,           \* slot objects; an unreferenced one can be reused
    NoSlot, NoTask, NoMsg,
    MaxPending,     \* max_pending, 20 by default
    CleanupAbove,   \* the 100 of "slots.len() > 100"
    TimeoutsHappen  \* whether the 60 seconds of acquire can run out

ASSUME NullsAssumption ==
    /\ NoSlot \notin Slot
    /\ NoTask \notin Task
    /\ NoMsg \notin Msg

ASSUME BoundsAssumption ==
    /\ MaxPending \in Nat \ {0}
    /\ CleanupAbove \in Nat
    /\ TimeoutsHappen \in BOOLEAN
    /\ IsFiniteSet(Key)

VARIABLES
    slots,    \* ChatTurnQueue.slots: the slot of each key, if any
    pending,  \* ChatSlot.pending_messages
    idle,     \* whether last_active is more than idle_ttl ago
    holder,   \* the task that owns the slot's turn lock
    waiters,  \* tasks waiting for the turn lock, in order of arrival
    pc,       \* where each task is
    key,      \* the key of the task's current call
    at,       \* the slot object the task refers to
    msg,      \* the message the task tries to start or enqueue
    drain,    \* the slot a task in drain_pending is about to empty
    fate      \* history: what has become of each message

queueVars == <<slots, pending, idle, holder, waiters>>
taskVars == <<pc, key, at, msg, drain>>
vars == <<queueVars, taskVars, fate>>

(***************************************************************************)
(* out      not in the queue, no turn                                      *)
(* try      try_start_or_enqueue has its slot, try_lock_owned is next      *)
(* push     try_lock_owned failed, the push is next                        *)
(* probe    enqueue_if_busy has its slot                                   *)
(* acquire  acquire has its slot, lock_owned is next                       *)
(* wait     in the turn lock's queue                                       *)
(* touch    owns the turn lock, updating last_active is next               *)
(* turn     the call returned a TurnGuard: an agent run                    *)
(* bare     acquire returned None: an agent run without the turn           *)
(***************************************************************************)
Pc == {"out", "try", "push", "probe", "acquire", "wait", "touch", "turn", "bare"}
InCall == {"try", "push", "probe", "acquire", "touch"}
Fate == {"new", "arriving", "started", "queued", "dropped", "taken"}

TypeOK ==
    /\ slots \in [Key -> Slot \cup {NoSlot}]
    /\ pending \in [Slot -> Seq(Msg)]
    /\ idle \in [Slot -> BOOLEAN]
    /\ holder \in [Slot -> Task \cup {NoTask}]
    /\ waiters \in [Slot -> Seq(Task)]
    /\ pc \in [Task -> Pc]
    /\ key \in [Task -> Key]
    /\ at \in [Task -> Slot \cup {NoSlot}]
    /\ msg \in [Task -> Msg \cup {NoMsg}]
    /\ drain \in [Task -> Slot \cup {NoSlot}]
    /\ fate \in [Msg -> Fate]

Init ==
    /\ slots = [k \in Key |-> NoSlot]
    /\ pending = [s \in Slot |-> <<>>]
    /\ idle = [s \in Slot |-> FALSE]
    /\ holder = [s \in Slot |-> NoTask]
    /\ waiters = [s \in Slot |-> <<>>]
    /\ pc = [t \in Task |-> "out"]
    /\ key \in {[t \in Task |-> k] : k \in Key}
    /\ at = [t \in Task |-> NoSlot]
    /\ msg = [t \in Task |-> NoMsg]
    /\ drain = [t \in Task |-> NoSlot]
    /\ fate = [m \in Msg |-> "new"]

-----------------------------------------------------------------------------
Live(k) == slots[k] # NoSlot

\* Somebody may be inside a critical section of the slot's own mutex.
Contended(s) ==
    \E t \in Task : drain[t] = s \/ (at[t] = s /\ pc[t] \in InCall)

Removable == {k \in Key : Live(k) /\ pending[slots[k]] = <<>> /\ idle[slots[k]]}

\* Mutant of Evictions: cleanup starts one slot early.
EvictionsOffByOne ==
    IF Cardinality({k \in Key : Live(k)}) >= CleanupAbove
    THEN {E \in SUBSET Removable : \A k \in Removable \ E : Contended(slots[k])}
    ELSE {{}}

\* Cleanup removes every removable slot, save those whose try_lock fails.
Evictions ==
    IF Cardinality({k \in Key : Live(k)}) > CleanupAbove
    THEN {E \in SUBSET Removable : \A k \in Removable \ E : Contended(slots[k])}
    ELSE {{}}

Unreferenced(s, map) ==
    /\ \A k \in Key : map[k] # s
    /\ \A t \in Task : at[t] # s /\ drain[t] # s

\* get_slot: cleanup and lookup under one lock of the map.
GetSlot(t, k) ==
    \E E \in Evictions :
        LET kept == [j \in Key |-> IF j \in E THEN NoSlot ELSE slots[j]]
        IN  \/ /\ kept[k] # NoSlot
               /\ slots' = kept
               /\ at' = [at EXCEPT ![t] = kept[k]]
               /\ UNCHANGED <<pending, idle>>
            \/ /\ kept[k] = NoSlot
               /\ \E s \in Slot :
                     /\ Unreferenced(s, kept)
                     /\ slots' = [kept EXCEPT ![k] = s]
                     /\ at' = [at EXCEPT ![t] = s]
                     /\ pending' = [pending EXCEPT ![s] = <<>>]
                     /\ idle' = [idle EXCEPT ![s] = FALSE]

Goto(t, l) == pc' = [pc EXCEPT ![t] = l]

\* The task's call is over and it owns no turn.
Leave(t) ==
    /\ Goto(t, "out")
    /\ at' = [at EXCEPT ![t] = NoSlot]
    /\ msg' = [msg EXCEPT ![t] = NoMsg]
    /\ UNCHANGED <<key, drain>>

\* Mutant of PassOn: the new owner stays in the queue.
PassOnKeepsHead(s, queue) ==
    /\ holder' = [holder EXCEPT ![s] = IF queue = <<>> THEN NoTask ELSE Head(queue)]
    /\ waiters' = [waiters EXCEPT ![s] = queue]

\* drop(guard): a tokio mutex hands itself to its oldest waiter.
PassOn(s, queue) ==
    /\ holder' = [holder EXCEPT ![s] = IF queue = <<>> THEN NoTask ELSE Head(queue)]
    /\ waiters' = [waiters EXCEPT ![s] = IF queue = <<>> THEN <<>> ELSE Tail(queue)]

\* Mutant of Pushed: at capacity the new message is the one that is dropped.
PushedDropsNewest(q, m) == IF Len(q) >= MaxPending THEN q ELSE Append(q, m)

Pushed(q, m) == Append(IF Len(q) >= MaxPending THEN Tail(q) ELSE q, m)

\* pending_messages.remove(0) at capacity, then push.
PushPending(t) ==
    LET q == pending[at[t]]
    IN  /\ pending' = [pending EXCEPT ![at[t]] = Pushed(q, msg[t])]
        /\ fate' = [m \in Msg |->
                      CASE m = msg[t] -> "queued"
                        [] Len(q) >= MaxPending /\ m = Head(q) /\ m # msg[t] -> "dropped"
                        [] OTHER -> fate[m]]

-----------------------------------------------------------------------------
(***************************************************************************)
(* try_start_or_enqueue                                                    *)
(***************************************************************************)
StartOrEnqueue(t, k, m) ==
    /\ pc[t] = "out" /\ drain[t] = NoSlot
    /\ fate[m] = "new"
    /\ GetSlot(t, k)
    /\ Goto(t, "try")
    /\ key' = [key EXCEPT ![t] = k]
    /\ msg' = [msg EXCEPT ![t] = m]
    /\ fate' = [fate EXCEPT ![m] = "arriving"]
    /\ UNCHANGED <<holder, waiters, drain>>

TryTurnSucceeds(t) ==
    /\ pc[t] = "try"
    /\ holder[at[t]] = NoTask
    /\ holder' = [holder EXCEPT ![at[t]] = t]
    /\ Goto(t, "touch")
    /\ UNCHANGED <<slots, pending, idle, waiters, key, at, msg, drain, fate>>

\* enqueue_if_busy owns the turn lock for the instant of its own try_lock.
TryTurnFails(t) ==
    /\ pc[t] = "try"
    /\ \/ holder[at[t]] # NoTask
       \/ \E u \in Task : pc[u] = "probe" /\ at[u] = at[t]
    /\ Goto(t, "push")
    /\ UNCHANGED <<queueVars, key, at, msg, drain, fate>>

Push(t) ==
    /\ pc[t] = "push"
    /\ PushPending(t)
    /\ Leave(t)
    /\ UNCHANGED <<slots, idle, holder, waiters>>

(***************************************************************************)
(* enqueue_if_busy: false at once when the key has no slot                 *)
(***************************************************************************)
EnqueueIfBusy(t, k, m) ==
    /\ pc[t] = "out" /\ drain[t] = NoSlot
    /\ fate[m] = "new"
    /\ Live(k)
    /\ at' = [at EXCEPT ![t] = slots[k]]
    /\ Goto(t, "probe")
    /\ key' = [key EXCEPT ![t] = k]
    /\ msg' = [msg EXCEPT ![t] = m]
    /\ fate' = [fate EXCEPT ![m] = "arriving"]
    /\ UNCHANGED <<queueVars, drain>>

ProbeIdle(t) ==
    /\ pc[t] = "probe"
    /\ holder[at[t]] = NoTask
    /\ fate' = [fate EXCEPT ![msg[t]] = "new"]
    /\ Leave(t)
    /\ UNCHANGED queueVars

ProbeBusy(t) ==
    /\ pc[t] = "probe"
    /\ holder[at[t]] # NoTask
    /\ PushPending(t)
    /\ Leave(t)
    /\ UNCHANGED <<slots, idle, holder, waiters>>

(***************************************************************************)
(* acquire                                                                 *)
(***************************************************************************)
Acquire(t, k) ==
    /\ pc[t] = "out" /\ drain[t] = NoSlot
    /\ GetSlot(t, k)
    /\ Goto(t, "acquire")
    /\ key' = [key EXCEPT ![t] = k]
    /\ UNCHANGED <<holder, waiters, msg, drain, fate>>

\* Mutant of LockTurn: a waiter that nothing wakes or times out.
LockTurnForgotten(t) ==
    /\ pc[t] = "acquire"
    /\ IF holder[at[t]] = NoTask
       THEN /\ holder' = [holder EXCEPT ![at[t]] = t]
            /\ Goto(t, "touch")
       ELSE /\ Goto(t, "wait")
            /\ UNCHANGED holder
    /\ UNCHANGED <<slots, pending, idle, waiters, key, at, msg, drain, fate>>

LockTurn(t) ==
    /\ pc[t] = "acquire"
    /\ IF holder[at[t]] = NoTask
       THEN /\ holder' = [holder EXCEPT ![at[t]] = t]
            /\ Goto(t, "touch")
            /\ UNCHANGED waiters
       ELSE /\ waiters' = [waiters EXCEPT ![at[t]] = Append(@, t)]
            /\ Goto(t, "wait")
            /\ UNCHANGED holder
    /\ UNCHANGED <<slots, pending, idle, key, at, msg, drain, fate>>

\* 60 seconds are over: the caller proceeds without the turn.
TimeOut(t) ==
    /\ TimeoutsHappen
    /\ pc[t] = "wait"
    /\ \E i \in DOMAIN waiters[at[t]] :
          /\ waiters[at[t]][i] = t
          /\ waiters' = [waiters EXCEPT ![at[t]] = RemoveAt(@, i)]
    /\ Goto(t, "bare")
    /\ at' = [at EXCEPT ![t] = NoSlot]
    /\ UNCHANGED <<slots, pending, idle, holder, key, msg, drain, fate>>

\* last_active = now, and the guard is returned to the caller.
Touch(t) ==
    /\ pc[t] = "touch"
    /\ idle' = [idle EXCEPT ![at[t]] = FALSE]
    /\ Goto(t, "turn")
    /\ fate' = [m \in Msg |-> IF m = msg[t] THEN "started" ELSE fate[m]]
    /\ msg' = [msg EXCEPT ![t] = NoMsg]
    /\ UNCHANGED <<slots, pending, holder, waiters, key, at, drain>>

(***************************************************************************)
(* The end of a run: drop(TurnGuard), or nothing to drop                   *)
(***************************************************************************)
Release(t) ==
    /\ pc[t] = "turn" /\ drain[t] = NoSlot
    /\ PassOn(at[t], waiters[at[t]])
    /\ pc' = [u \in Task |->
                CASE u = t -> "out"
                  [] waiters[at[t]] # <<>> /\ u = Head(waiters[at[t]]) /\ u # t -> "touch"
                  [] OTHER -> pc[u]]
    /\ at' = [at EXCEPT ![t] = NoSlot]
    /\ UNCHANGED <<slots, pending, idle, key, msg, drain, fate>>

EndBare(t) ==
    /\ pc[t] = "bare" /\ drain[t] = NoSlot
    /\ Goto(t, "out")
    /\ UNCHANGED <<queueVars, key, at, msg, drain, fate>>

(***************************************************************************)
(* drain_pending: the slot is looked up under one lock, emptied under      *)
(* another.  A run drains its own chat; so does the rerun check after it.  *)
(***************************************************************************)
BeginDrain(t, k) ==
    /\ drain[t] = NoSlot
    /\ \/ pc[t] = "out"
       \/ pc[t] \in {"turn", "bare"} /\ k = key[t]
    /\ Live(k)
    /\ drain' = [drain EXCEPT ![t] = slots[k]]
    /\ UNCHANGED <<queueVars, pc, key, at, msg, fate>>

\* Mutant of TakePending: one message at a time.
TakeOldest(t) ==
    /\ drain[t] # NoSlot
    /\ LET q == pending[drain[t]]
       IN  /\ fate' = [m \in Msg |-> IF q # <<>> /\ m = Head(q) THEN "taken" ELSE fate[m]]
           /\ pending' = [pending EXCEPT ![drain[t]] = IF q = <<>> THEN q ELSE Tail(q)]
    /\ drain' = [drain EXCEPT ![t] = NoSlot]
    /\ UNCHANGED <<slots, idle, holder, waiters, pc, key, at, msg>>

TakePending(t) ==
    /\ drain[t] # NoSlot
    /\ fate' = [m \in Msg |-> IF m \in ToSet(pending[drain[t]]) THEN "taken" ELSE fate[m]]
    /\ pending' = [pending EXCEPT ![drain[t]] = <<>>]
    /\ drain' = [drain EXCEPT ![t] = NoSlot]
    /\ UNCHANGED <<slots, idle, holder, waiters, pc, key, at, msg>>

\* More than idle_ttl has passed since last_active.  A call's own steps are
\* microseconds apart, a run may well take longer than the 600 seconds.
TtlPasses(s) ==
    /\ ~idle[s]
    /\ \E k \in Key : slots[k] = s
    /\ \A t \in Task : at[t] = s => pc[t] \notin InCall
    /\ idle' = [idle EXCEPT ![s] = TRUE]
    /\ UNCHANGED <<slots, pending, holder, waiters, taskVars, fate>>

-----------------------------------------------------------------------------
InCallStep(t) ==
    \/ TryTurnSucceeds(t) \/ TryTurnFails(t) \/ Push(t)
    \/ ProbeIdle(t) \/ ProbeBusy(t)
    \/ LockTurn(t) \/ Touch(t) \/ TakePending(t)

CallStep(t) ==
    \/ \E k \in Key, m \in Msg : StartOrEnqueue(t, k, m) \/ EnqueueIfBusy(t, k, m)
    \/ \E k \in Key : Acquire(t, k) \/ BeginDrain(t, k)

EndOfRun(t) == Release(t) \/ EndBare(t)

Next ==
    \/ \E t \in Task : InCallStep(t) \/ CallStep(t) \/ EndOfRun(t) \/ TimeOut(t)
    \/ \E s \in Slot : TtlPasses(s)

Spec == Init /\ [][Next]_vars

\* The runtime polls a task whose lock is free, and timers fire: calls go on.
\* Nothing says that an agent run ends.
CallFairness == \A t \in Task : WF_vars(InCallStep(t)) /\ WF_vars(TimeOut(t))

FairSpec == Spec /\ CallFairness

-----------------------------------------------------------------------------
(***************************************************************************)
(* Properties                                                              *)
(***************************************************************************)
HasTurn(t) == pc[t] \in {"touch", "turn"}
Running(t) == pc[t] \in {"turn", "bare"}

\* The turn lock of one slot object excludes: its holder is the one task that
\* may act as its owner, and nobody waits for a lock that is free.
TurnLockExclusive ==
    /\ \A t \in Task, s \in Slot : holder[s] = t <=> HasTurn(t) /\ at[t] = s
    /\ \A s \in Slot : holder[s] = NoTask => waiters[s] = <<>>

\* At most one task holds a TurnGuard of a chat (chat_turn_queue.rs:57-58),
\* which needs one slot object per chat, not only one owner per lock.
OneTurnPerChat ==
    \A t, u \in Task : HasTurn(t) /\ HasTurn(u) /\ key[t] = key[u] => t = u

\* A queued message sits once in the list that drain_pending of its chat
\* will find, and nowhere else: it is neither duplicated nor out of reach.
QueuedIsReachable ==
    /\ \A m \in Msg : fate[m] = "queued" =>
          \E k \in Key : Live(k) /\ m \in ToSet(pending[slots[k]])
    /\ \A s \in Slot : \A i, j \in DOMAIN pending[s] : pending[s][i] = pending[s][j] => i = j
    /\ \A k, l \in Key : Live(k) /\ Live(l) /\ k # l =>
          /\ slots[k] # slots[l]
          /\ ToSet(pending[slots[k]]) \cap ToSet(pending[slots[l]]) = {}

\* acquire returns, with the turn or without it, although nothing makes the
\* run that owns the turn end.
AcquireReturns == \A t \in Task : pc[t] = "acquire" ~> Running(t)

(***************************************************************************)
(* The parts of the inductive invariant behind TurnLockExclusive and       *)
(* OneTurnPerChat (proved in ChatTurnQueueProofs)                          *)
(***************************************************************************)
\* A task refers to a slot exactly while it is in a call, waits or has a turn,
\* and carries a message while it tries to start or enqueue.
CallRefs ==
    \A t \in Task :
        /\ at[t] = NoSlot <=> pc[t] \in {"out", "bare"}
        /\ pc[t] \in {"try", "push", "probe"} => msg[t] \in Msg

\* Who is in the queue of a turn lock waits for that lock, and only once.
WaitersWait ==
    \A s \in Slot :
        /\ \A i \in DOMAIN waiters[s] : pc[waiters[s][i]] = "wait" /\ at[waiters[s][i]] = s
        /\ \A i, j \in DOMAIN waiters[s] : waiters[s][i] = waiters[s][j] => i = j

LockInv == TypeOK /\ CallRefs /\ WaitersWait /\ TurnLockExclusive

\* Every reference is to the slot the map has for that chat: no orphans.
CurrentSlot == \A t \in Task : at[t] # NoSlot => at[t] = slots[key[t]]

\* Refinement: the turn and the list of a chat are those of its current slot.
Serializer == INSTANCE TurnSerializer WITH
    turn <- [k \in Key |-> IF Live(k) THEN holder[slots[k]] ELSE NoTask],
    queue <- [k \in Key |-> IF Live(k) THEN pending[slots[k]] ELSE <<>>]

\* Without cleanup the queue is one turn and one bounded list per chat, as its
\* callers take it to be: no step moves a turn to a second owner, touches two
\* chats at once or changes a list except by one message or one drain.
ImplementsSerializer == Serializer!Spec

=============================================================================
