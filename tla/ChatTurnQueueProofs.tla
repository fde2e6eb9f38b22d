------------------------ MODULE ChatTurnQueueProofs ------------------------
(***************************************************************************)
(* Proofs about ChatTurnQueue for every number of chats, tasks, messages   *)
(* and slots.                                                              *)
(***************************************************************************)
EXTENDS ChatTurnQueue, TLAPS, SequenceTheorems, FiniteSetTheorems

\* What RemoveAt leaves of a sequence.
LEMMA RemoveAtProperties ==
    ASSUME NEW S, NEW q \in Seq(S), NEW i \in DOMAIN q
    PROVE  /\ RemoveAt(q, i) \in Seq(S)
           /\ Len(RemoveAt(q, i)) = Len(q) - 1
           /\ \A j \in 1 .. (Len(q) - 1) :
                 RemoveAt(q, i)[j] = IF j < i THEN q[j] ELSE q[j + 1]
  <1>1. i \in 1 .. Len(q) /\ Len(q) \in Nat
    BY LenProperties
  <1> DEFINE a == SubSeq(q, 1, i - 1)
             b == SubSeq(q, i + 1, Len(q))
  <1>2. /\ a \in Seq(S) /\ Len(a) = i - 1
        /\ \A j \in 1 .. (i - 1) : a[j] = q[j]
    BY <1>1, SubSeqProperties
  <1>3. /\ b \in Seq(S) /\ Len(b) = Len(q) - i
        /\ \A j \in 1 .. (Len(q) - i) : b[j] = q[i + j]
    BY <1>1, SubSeqProperties
  <1>4. /\ a \o b \in Seq(S)
        /\ Len(a \o b) = Len(a) + Len(b)
        /\ \A j \in 1 .. (Len(a) + Len(b)) :
              (a \o b)[j] = IF j <= Len(a) THEN a[j] ELSE b[j - Len(a)]
    BY <1>2, <1>3, ConcatProperties
  <1>5. RemoveAt(q, i) = a \o b
    BY DEF RemoveAt
  <1> HIDE DEF a, b
  <1>6. Len(a) + Len(b) = Len(q) - 1
    BY <1>1, <1>2, <1>3
  <1>7. ASSUME NEW j \in 1 .. (Len(q) - 1)
        PROVE  (a \o b)[j] = IF j < i THEN q[j] ELSE q[j + 1]
    <2>1. CASE j < i
      BY <1>1, <1>2, <1>4, <1>6, <2>1
    <2>2. CASE ~(j < i)
      <3>1. (a \o b)[j] = b[j - (i - 1)]
        <4>1. j \in 1 .. (Len(a) + Len(b)) /\ ~(j <= Len(a))
          BY <1>1, <1>2, <1>6, <2>2
        <4>2. (a \o b)[j] = b[j - Len(a)]
          BY <1>4, <4>1
        <4> QED
          BY <1>2, <4>2
      <3>2. j - (i - 1) \in 1 .. (Len(q) - i) /\ i + (j - (i - 1)) = j + 1
        BY <1>1, <2>2
      <3> QED
        BY <1>3, <2>2, <3>1, <3>2
    <2> QED
      BY <2>1, <2>2
  <1> QED
    BY <1>4, <1>5, <1>6, <1>7

\* Pushed keeps a bounded list a bounded list.
LEMMA PushedProperties ==
    ASSUME NEW q \in Seq(Msg), NEW m \in Msg
    PROVE  /\ Pushed(q, m) \in Seq(Msg)
           /\ Len(q) <= MaxPending => Len(Pushed(q, m)) <= MaxPending
  <1>1. MaxPending \in Nat \ {0}
    BY BoundsAssumption
  <1>2. CASE Len(q) >= MaxPending
    <2>1. q # <<>>
      BY <1>1, <1>2
    <2>2. Tail(q) \in Seq(Msg) /\ Len(Tail(q)) = Len(q) - 1
      BY <2>1, HeadTailProperties
    <2> QED
      BY <1>1, <1>2, <2>2, AppendProperties, LenProperties DEF Pushed
  <1>3. CASE ~(Len(q) >= MaxPending)
    BY <1>1, <1>3, AppendProperties, LenProperties DEF Pushed
  <1> QED
    BY <1>2, <1>3

-----------------------------------------------------------------------------
(***************************************************************************)
(* The inductive invariant LockInv                                         *)
(***************************************************************************)
LEMMA LockInvInit == Init => LockInv
  <1> SUFFICES ASSUME Init PROVE LockInv
    OBVIOUS
  <1>1. TypeOK
    <2>1. <<>> \in Seq(Msg) /\ <<>> \in Seq(Task)
      OBVIOUS
    <2> QED
      BY <2>1 DEF Init, TypeOK, Pc, Fate
  <1>2. CallRefs /\ TurnLockExclusive
    BY NullsAssumption DEF Init, CallRefs, TurnLockExclusive, HasTurn
  <1>3. WaitersWait
    BY DEF Init, WaitersWait
  <1> QED
    BY <1>1, <1>2, <1>3 DEF LockInv

\* What get_slot leaves: a well-typed map, and for its caller a slot.
LEMMA GetSlotType ==
    ASSUME LockInv, NEW t \in Task, NEW k \in Key, GetSlot(t, k)
    PROVE  /\ slots' \in [Key -> Slot \cup {NoSlot}]
           /\ pending' \in [Slot -> Seq(Msg)]
           /\ idle' \in [Slot -> BOOLEAN]
           /\ \E s \in Slot : slots'[k] = s /\ at' = [at EXCEPT ![t] = s]
  <1> USE DEF LockInv, TypeOK
  <1>1. PICK E \in Evictions :
          LET kept == [j \in Key |-> IF j \in E THEN NoSlot ELSE slots[j]]
          IN  \/ /\ kept[k] # NoSlot
                 /\ slots' = kept
                 /\ at' = [at EXCEPT ![t] = kept[k]]
                 /\ UNCHANGED <<pending, idle>>
              \/ /\ kept[k] = NoSlot
                 /\ \E s \in Slot :
                       /\ Unreferenced(s, kept)
                       /\ slots' = [kept EXCEPT ![k] = s]
                       /\ at' = [at EXCEPT ![t] = s]
                       /\ pending' = [pending EXCEPT ![s] = <<>>]
                       /\ idle' = [idle EXCEPT ![s] = FALSE]
    BY Zenon DEF GetSlot
  <1> DEFINE kept == [j \in Key |-> IF j \in E THEN NoSlot ELSE slots[j]]
  <1>2. kept \in [Key -> Slot \cup {NoSlot}]
    OBVIOUS
  <1>3. CASE /\ kept[k] # NoSlot
             /\ slots' = kept
             /\ at' = [at EXCEPT ![t] = kept[k]]
             /\ UNCHANGED <<pending, idle>>
    <2>1. kept[k] \in Slot
      BY <1>2, <1>3
    <2> QED
      BY <1>2, <1>3, <2>1
  <1>4. CASE \E s \in Slot :
                /\ slots' = [kept EXCEPT ![k] = s]
                /\ at' = [at EXCEPT ![t] = s]
                /\ pending' = [pending EXCEPT ![s] = <<>>]
                /\ idle' = [idle EXCEPT ![s] = FALSE]
    <2>1. PICK s \in Slot :
                /\ slots' = [kept EXCEPT ![k] = s]
                /\ at' = [at EXCEPT ![t] = s]
                /\ pending' = [pending EXCEPT ![s] = <<>>]
                /\ idle' = [idle EXCEPT ![s] = FALSE]
      BY <1>4
    <2>2. <<>> \in Seq(Msg)
      OBVIOUS
    <2> QED
      BY <1>2, <2>1, <2>2
  <1> QED
    BY <1>1, <1>3, <1>4

\* A call begins: only its own task moves, from outside onto a slot.
LEMMA LockInvCall ==
    ASSUME LockInv, TypeOK', NEW t \in Task,
           pc[t] = "out",
           pc'[t] \in {"try", "probe", "acquire"},
           at'[t] \in Slot,
           pc'[t] \in {"try", "probe"} => msg'[t] \in Msg,
           \A u \in Task : u # t => pc'[u] = pc[u] /\ at'[u] = at[u] /\ msg'[u] = msg[u],
           holder' = holder, waiters' = waiters
    PROVE  LockInv'
  <1> USE DEF LockInv, TypeOK
  <1>1. CallRefs'
    BY NullsAssumption DEF CallRefs, Pc
  <1>2. WaitersWait'
    BY ElementOfSeq, LenProperties DEF WaitersWait, CallRefs
  <1>3. ASSUME NEW u \in Task, NEW s \in Slot
        PROVE  (holder[s] = u <=> HasTurn(u) /\ at[u] = s)'
    <2>1. holder[s] = u <=> HasTurn(u) /\ at[u] = s
      BY DEF TurnLockExclusive
    <2>2. CASE u = t
      BY <2>1, <2>2 DEF HasTurn
    <2>3. CASE u # t
      BY <2>1, <2>3 DEF HasTurn
    <2> QED
      BY <2>2, <2>3
  <1>4. TurnLockExclusive'
    BY <1>3 DEF TurnLockExclusive
  <1> QED
    BY <1>1, <1>2, <1>4

\* A call of try_start_or_enqueue begins: it refers to a slot and owns nothing yet.
LEMMA StartOrEnqueueKeepsLockInv ==
    ASSUME LockInv, NEW t \in Task, NEW k \in Key, NEW m \in Msg, StartOrEnqueue(t, k, m)
    PROVE  LockInv'
  <1>1. PICK s \in Slot : at' = [at EXCEPT ![t] = s]
    BY GetSlotType DEF StartOrEnqueue
  <1>2. TypeOK'
    BY GetSlotType DEF StartOrEnqueue, LockInv, TypeOK, Goto, Pc, Fate
  <1>3. /\ pc[t] = "out" /\ pc'[t] = "try" /\ at'[t] \in Slot /\ msg'[t] \in Msg
        /\ \A u \in Task : u # t => pc'[u] = pc[u] /\ at'[u] = at[u] /\ msg'[u] = msg[u]
        /\ holder' = holder /\ waiters' = waiters
    BY <1>1 DEF StartOrEnqueue, LockInv, TypeOK, Goto
  <1> QED
    BY <1>2, <1>3, LockInvCall

\* A call of acquire begins.
LEMMA AcquireKeepsLockInv ==
    ASSUME LockInv, NEW t \in Task, NEW k \in Key, Acquire(t, k)
    PROVE  LockInv'
  <1>1. PICK s \in Slot : at' = [at EXCEPT ![t] = s]
    BY GetSlotType DEF Acquire
  <1>2. TypeOK'
    BY GetSlotType DEF Acquire, LockInv, TypeOK, Goto, Pc, Fate
  <1>3. /\ pc[t] = "out" /\ pc'[t] = "acquire" /\ at'[t] \in Slot
        /\ \A u \in Task : u # t => pc'[u] = pc[u] /\ at'[u] = at[u] /\ msg'[u] = msg[u]
        /\ holder' = holder /\ waiters' = waiters
    BY <1>1 DEF Acquire, LockInv, TypeOK, Goto
  <1> QED
    BY <1>2, <1>3, LockInvCall

\* A call of enqueue_if_busy begins on a slot that exists.
LEMMA EnqueueIfBusyKeepsLockInv ==
    ASSUME LockInv, NEW t \in Task, NEW k \in Key, NEW m \in Msg, EnqueueIfBusy(t, k, m)
    PROVE  LockInv'
  <1>1. slots[k] \in Slot
    BY DEF EnqueueIfBusy, Live, LockInv, TypeOK
  <1>2. TypeOK'
    BY <1>1 DEF EnqueueIfBusy, LockInv, TypeOK, Goto, Pc, Fate, queueVars
  <1>3. /\ pc[t] = "out" /\ pc'[t] = "probe" /\ at'[t] \in Slot /\ msg'[t] \in Msg
        /\ \A u \in Task : u # t => pc'[u] = pc[u] /\ at'[u] = at[u] /\ msg'[u] = msg[u]
        /\ holder' = holder /\ waiters' = waiters
    BY <1>1 DEF EnqueueIfBusy, LockInv, TypeOK, Goto, queueVars
  <1> QED
    BY <1>2, <1>3, LockInvCall

\* A push keeps the types, and Leave ends a call without touching the lock.
LEMMA PushPendingType ==
    ASSUME LockInv, NEW t \in Task, pc[t] \in {"push", "probe"}, PushPending(t)
    PROVE  /\ pending' \in [Slot -> Seq(Msg)]
           /\ fate' \in [Msg -> Fate]
  <1>1. at[t] \in Slot /\ msg[t] \in Msg
    BY DEF LockInv, TypeOK, CallRefs
  <1>2. Pushed(pending[at[t]], msg[t]) \in Seq(Msg)
    BY <1>1, PushedProperties DEF LockInv, TypeOK
  <1>3. pending' \in [Slot -> Seq(Msg)]
    BY <1>1, <1>2 DEF PushPending, LockInv, TypeOK
  <1>4. fate' \in [Msg -> Fate]
    BY DEF PushPending, LockInv, TypeOK, Fate
  <1> QED
    BY <1>3, <1>4

\* A call that returns without a turn gives its reference up.
LEMMA LeaveKeepsLockInv ==
    ASSUME LockInv, NEW t \in Task, pc[t] \in InCall \ {"touch"}, Leave(t),
           pending' \in [Slot -> Seq(Msg)], fate' \in [Msg -> Fate],
           UNCHANGED <<slots, idle, holder, waiters>>
    PROVE  LockInv'
  <1> USE DEF LockInv, TypeOK, Leave, Goto, InCall
  <1>1. TypeOK'
    BY DEF Pc
  <1>2. CallRefs'
    BY DEF CallRefs
  <1>3. WaitersWait'
    BY ElementOfSeq, LenProperties DEF WaitersWait
  <1>4. TurnLockExclusive'
    BY NullsAssumption DEF TurnLockExclusive, HasTurn
  <1> QED
    BY <1>1, <1>2, <1>3, <1>4

\* A queued message leaves the turn lock as it is.
LEMMA PushKeepsLockInv ==
    ASSUME LockInv, NEW t \in Task, Push(t) \/ ProbeBusy(t)
    PROVE  LockInv'
  <1>1. /\ pc[t] \in {"push", "probe"} /\ PushPending(t) /\ Leave(t)
        /\ UNCHANGED <<slots, idle, holder, waiters>>
    BY DEF Push, ProbeBusy
  <1> QED
    BY <1>1, PushPendingType, LeaveKeepsLockInv DEF InCall

\* enqueue_if_busy finds the turn free and returns false.
LEMMA ProbeIdleKeepsLockInv ==
    ASSUME LockInv, NEW t \in Task, ProbeIdle(t)
    PROVE  LockInv'
  <1>1. pending' \in [Slot -> Seq(Msg)] /\ fate' \in [Msg -> Fate]
    BY DEF ProbeIdle, LockInv, TypeOK, Fate, queueVars
  <1> QED
    BY <1>1, LeaveKeepsLockInv DEF ProbeIdle, InCall, queueVars

\* try_lock_owned takes a free turn, or fails and takes nothing.
LEMMA TryTurnKeepsLockInv ==
    ASSUME LockInv, NEW t \in Task, TryTurnSucceeds(t) \/ TryTurnFails(t)
    PROVE  LockInv'
  <1> USE DEF LockInv, TypeOK, Goto
  <1>1. at[t] \in Slot
    BY DEF CallRefs, TryTurnSucceeds, TryTurnFails
  <1>2. TypeOK'
    <2>1. CASE TryTurnSucceeds(t)
      BY <1>1, <2>1 DEF TryTurnSucceeds, Pc
    <2>2. CASE TryTurnFails(t)
      BY <2>2 DEF TryTurnFails, Pc, queueVars
    <2> QED
      BY <2>1, <2>2
  <1>3. CallRefs'
    BY <1>1 DEF CallRefs, TryTurnSucceeds, TryTurnFails, queueVars
  <1>4. WaitersWait'
    BY ElementOfSeq, LenProperties DEF WaitersWait, TryTurnSucceeds, TryTurnFails, queueVars
  <1>5. TurnLockExclusive'
    BY <1>1, NullsAssumption
    DEF TurnLockExclusive, HasTurn, TryTurnSucceeds, TryTurnFails, queueVars
  <1> QED
    BY <1>2, <1>3, <1>4, <1>5

\* Nobody stands in a lock's queue twice.
LEMMA WaitsOnce ==
    ASSUME WaitersWait, NEW s \in Slot, NEW q, q = waiters[s], DOMAIN q = 1 .. Len(q)
    PROVE  \A i, j \in 1 .. Len(q) : q[i] = q[j] => i = j
  BY DEF WaitersWait

\* lock_owned takes a free turn, or waits at the end of its queue.
LEMMA LockTurnKeepsLockInv ==
    ASSUME LockInv, NEW t \in Task, LockTurn(t)
    PROVE  LockInv'
  <1> USE DEF LockInv, TypeOK, Goto
  <1>1. at[t] \in Slot /\ pc[t] = "acquire"
    BY DEF CallRefs, LockTurn
  <1>2. CASE holder[at[t]] = NoTask
    <2>1. /\ holder' = [holder EXCEPT ![at[t]] = t]
          /\ pc' = [pc EXCEPT ![t] = "touch"]
          /\ UNCHANGED <<slots, pending, idle, waiters, key, at, msg, drain, fate>>
      BY <1>2 DEF LockTurn
    <2>2. TypeOK'
      BY <1>1, <2>1 DEF Pc
    <2>3. CallRefs'
      BY <1>1, <2>1 DEF CallRefs
    <2>4. WaitersWait'
      BY <1>1, <2>1, ElementOfSeq, LenProperties DEF WaitersWait
    <2>5. TurnLockExclusive'
      BY <1>1, <1>2, <2>1, NullsAssumption DEF TurnLockExclusive, HasTurn
    <2> QED
      BY <2>2, <2>3, <2>4, <2>5
  <1>3. CASE holder[at[t]] # NoTask
    <2> DEFINE q == waiters[at[t]]
    <2>1. /\ waiters' = [waiters EXCEPT ![at[t]] = Append(q, t)]
          /\ pc' = [pc EXCEPT ![t] = "wait"]
          /\ UNCHANGED <<slots, pending, idle, holder, key, at, msg, drain, fate>>
      BY <1>3 DEF LockTurn
    <2>2. /\ q \in Seq(Task)
          /\ Append(q, t) \in Seq(Task)
          /\ DOMAIN Append(q, t) = 1 .. (Len(q) + 1)
          /\ DOMAIN q = 1 .. Len(q) /\ Len(q) \in Nat
          /\ \A i \in 1 .. Len(q) : Append(q, t)[i] = q[i]
          /\ Append(q, t)[Len(q) + 1] = t
      BY <1>1, AppendProperties, LenProperties
    <2>3. TypeOK'
      BY <1>1, <2>1, <2>2 DEF Pc
    <2>4. CallRefs'
      BY <1>1, <2>1 DEF CallRefs
    <2>5. \A i \in DOMAIN q : q[i] # t
      BY <1>1 DEF WaitersWait
    <2>6. ASSUME NEW s \in Slot
          PROVE  /\ \A i \in DOMAIN waiters'[s] :
                       pc'[waiters'[s][i]] = "wait" /\ at'[waiters'[s][i]] = s
                 /\ \A i, j \in DOMAIN waiters'[s] :
                       waiters'[s][i] = waiters'[s][j] => i = j
      <3>1. CASE s = at[t]
        <4>1. waiters'[s] = Append(q, t)
          BY <1>1, <2>1, <3>1
        <4>2. \A i \in 1 .. Len(q) :
                 q[i] \in Task /\ q[i] # t /\ pc[q[i]] = "wait" /\ at[q[i]] = s
          BY <1>1, <2>2, <2>5, <3>1, ElementOfSeq DEF WaitersWait
        <4>3. \A u \in Task : u # t => pc'[u] = pc[u]
          BY <2>1
        <4>4. pc'[t] = "wait" /\ at' = at
          BY <2>1
        <4> HIDE DEF q
        <4>5. Len(q) \in Nat
          BY <2>2
        <4>6. \A i \in 1 .. (Len(q) + 1) : i \in 1 .. Len(q) \/ i = Len(q) + 1
          BY <4>5
        <4>7. \A i \in 1 .. (Len(q) + 1) :
                 pc'[Append(q, t)[i]] = "wait" /\ at'[Append(q, t)[i]] = s
          BY <2>2, <3>1, <4>6, <4>2, <4>3, <4>4
        <4>8. \A i, j \in 1 .. Len(q) : q[i] = q[j] => i = j
          <5>1. q = waiters[at[t]]
            BY DEF q
          <5>2. DOMAIN q = 1 .. Len(q)
            BY <2>2
          <5>3. WaitersWait
            BY DEF LockInv
          <5> QED
            BY ONLY <1>1, <5>1, <5>2, <5>3, WaitsOnce
        <4>9. \A i, j \in 1 .. (Len(q) + 1) : Append(q, t)[i] = Append(q, t)[j] => i = j
          BY <2>2, <4>6, <4>5, <4>2, <4>8
        <4> QED
          BY <2>2, <4>1, <4>7, <4>9
      <3>2. CASE s # at[t]
        BY <1>1, <2>1, <3>2, ElementOfSeq, LenProperties DEF WaitersWait
      <3> QED
        BY <3>1, <3>2
    <2>7. WaitersWait'
      BY <2>6 DEF WaitersWait
    <2>8. TurnLockExclusive'
      BY <1>1, <1>3, <2>1 DEF TurnLockExclusive, HasTurn
    <2> QED
      BY <2>3, <2>4, <2>7, <2>8
  <1> QED
    BY <1>2, <1>3

\* A waiter whose 60 seconds are over leaves the queue, wherever it stands.
LEMMA TimeOutKeepsLockInv ==
    ASSUME LockInv, NEW t \in Task, TimeOut(t)
    PROVE  LockInv'
  <1> USE DEF LockInv, TypeOK, Goto
  <1>1. at[t] \in Slot /\ pc[t] = "wait"
    BY DEF CallRefs, TimeOut
  <1> DEFINE q == waiters[at[t]]
  <1>2. PICK n \in DOMAIN q :
          /\ q[n] = t
          /\ waiters' = [waiters EXCEPT ![at[t]] = RemoveAt(q, n)]
    BY DEF TimeOut
  <1>3. /\ pc' = [pc EXCEPT ![t] = "bare"]
        /\ at' = [at EXCEPT ![t] = NoSlot]
        /\ UNCHANGED <<slots, pending, idle, holder, key, msg, drain, fate>>
    BY DEF TimeOut
  <1> DEFINE r == RemoveAt(q, n)
  <1>4. /\ q \in Seq(Task) /\ r \in Seq(Task)
        /\ DOMAIN q = 1 .. Len(q) /\ Len(q) \in Nat
        /\ DOMAIN r = 1 .. (Len(q) - 1)
        /\ \A j \in 1 .. (Len(q) - 1) : r[j] = IF j < n THEN q[j] ELSE q[j + 1]
    BY <1>1, RemoveAtProperties, LenProperties
  <1> HIDE DEF r
  <1>5. TypeOK'
    BY <1>1, <1>2, <1>3, <1>4 DEF Pc, r
  <1>6. CallRefs'
    BY <1>1, <1>3, NullsAssumption DEF CallRefs
  <1>7. ASSUME NEW i \in DOMAIN r
        PROVE  /\ r[i] \in Task /\ r[i] # t
               /\ \E j \in DOMAIN q : r[i] = q[j] /\ j = IF i < n THEN i ELSE i + 1
    <2>1. PICK j \in DOMAIN q : r[i] = q[j] /\ j = IF i < n THEN i ELSE i + 1
      BY <1>2, <1>4
    <2>2. j # n
      BY <1>2, <1>4, <2>1
    <2> QED
      BY <1>1, <1>2, <1>4, <2>1, <2>2, ElementOfSeq DEF WaitersWait
  <1>8. ASSUME NEW s \in Slot
        PROVE  /\ \A i \in DOMAIN waiters'[s] :
                     pc'[waiters'[s][i]] = "wait" /\ at'[waiters'[s][i]] = s
               /\ \A i, j \in DOMAIN waiters'[s] :
                     waiters'[s][i] = waiters'[s][j] => i = j
    <2>1. CASE s = at[t]
      <3>1. waiters'[s] = r
        BY <1>1, <1>2, <2>1 DEF r
      <3>2. \A i \in DOMAIN r : pc'[r[i]] = "wait" /\ at'[r[i]] = s
        BY <1>1, <1>3, <1>7, <2>1 DEF WaitersWait
      <3>3. ASSUME NEW i \in DOMAIN r, NEW j \in DOMAIN r, r[i] = r[j]
            PROVE  i = j
        <4>1. (IF i < n THEN i ELSE i + 1) = (IF j < n THEN j ELSE j + 1)
          BY <1>1, <1>7, <3>3 DEF WaitersWait
        <4> QED
          BY <1>2, <1>4, <4>1
      <3> QED
        BY <3>1, <3>2, <3>3
    <2>2. CASE s # at[t]
      <3>1. waiters'[s] = waiters[s]
        BY <1>1, <1>2, <2>2
      <3>2. \A i \in DOMAIN waiters[s] : waiters[s][i] \in Task /\ waiters[s][i] # t
        BY <2>2, ElementOfSeq, LenProperties DEF WaitersWait
      <3> QED
        BY <1>3, <3>1, <3>2 DEF WaitersWait
    <2> QED
      BY <2>1, <2>2
  <1>9. WaitersWait'
    BY <1>8 DEF WaitersWait
  <1>10. TurnLockExclusive'
    <2>1. \A s \in Slot : holder[s] = NoTask => waiters'[s] = <<>>
      BY <1>1, <1>2, <1>4 DEF TurnLockExclusive
    <2>2. ASSUME NEW u \in Task, NEW s \in Slot
          PROVE  (holder[s] = u <=> HasTurn(u) /\ at[u] = s)'
      BY <1>1, <1>3, NullsAssumption DEF TurnLockExclusive, HasTurn
    <2> QED
      BY <1>3, <2>1, <2>2 DEF TurnLockExclusive
  <1> QED
    BY <1>5, <1>6, <1>9, <1>10

\* acquire and try_start_or_enqueue return their guard.
LEMMA TouchKeepsLockInv ==
    ASSUME LockInv, NEW t \in Task, Touch(t)
    PROVE  LockInv'
  <1> USE DEF LockInv, TypeOK, Goto
  <1>1. at[t] \in Slot /\ pc[t] = "touch"
    BY DEF CallRefs, Touch
  <1>2. TypeOK'
    BY <1>1 DEF Touch, Pc, Fate
  <1>3. CallRefs'
    BY <1>1 DEF CallRefs, Touch
  <1>4. WaitersWait'
    BY <1>1, ElementOfSeq, LenProperties DEF WaitersWait, Touch
  <1>5. TurnLockExclusive'
    <2>1. ASSUME NEW u \in Task, NEW s \in Slot
          PROVE  (holder[s] = u <=> HasTurn(u) /\ at[u] = s)'
      BY <1>1 DEF TurnLockExclusive, HasTurn, Touch
    <2> QED
      BY <2>1 DEF TurnLockExclusive, Touch
  <1> QED
    BY <1>2, <1>3, <1>4, <1>5

\* The turn goes to the head of the queue, which leaves the queue.
LEMMA ReleaseKeepsLockInv ==
    ASSUME LockInv, NEW t \in Task, Release(t)
    PROVE  LockInv'
  <1> USE DEF LockInv, TypeOK
  <1>1. at[t] \in Slot /\ pc[t] = "turn" /\ holder[at[t]] = t
    <2>1. pc[t] = "turn"
      BY DEF Release
    <2>2. at[t] \in Slot
      BY <2>1 DEF CallRefs
    <2>3. TurnLockExclusive
      BY DEF LockInv
    <2> QED
      BY ONLY <2>1, <2>2, <2>3, t \in Task DEF TurnLockExclusive, HasTurn
  <1> DEFINE q == waiters[at[t]]
  <1>2. /\ at' = [at EXCEPT ![t] = NoSlot]
        /\ UNCHANGED <<slots, pending, idle, key, msg, drain, fate>>
    BY DEF Release
  <1>3. CASE q = <<>>
    <2>1. /\ holder' = [holder EXCEPT ![at[t]] = NoTask]
          /\ waiters' = [waiters EXCEPT ![at[t]] = <<>>]
          /\ pc' = [pc EXCEPT ![t] = "out"]
      BY <1>1, <1>3 DEF Release, PassOn
    <2>2. TypeOK'
      BY <1>1, <1>2, <2>1 DEF Pc
    <2>3. CallRefs'
      BY <1>1, <1>2, <2>1, NullsAssumption DEF CallRefs
    <2>4. WaitersWait'
      <3>1. waiters' = waiters
        BY <1>1, <1>3, <2>1
      <3> QED
        BY <1>1, <1>2, <2>1, <3>1, ElementOfSeq, LenProperties DEF WaitersWait
    <2>5. TurnLockExclusive'
      BY <1>1, <1>2, <2>1, NullsAssumption DEF TurnLockExclusive, HasTurn
    <2> QED
      BY <2>2, <2>3, <2>4, <2>5
  <1>4. CASE q # <<>>
    <2> DEFINE h == Head(q)
               r == Tail(q)
    <2>1. /\ q \in Seq(Task) /\ h = q[1] /\ r \in Seq(Task)
          /\ DOMAIN q = 1 .. Len(q) /\ Len(q) \in Nat \ {0}
          /\ DOMAIN r = 1 .. (Len(q) - 1)
          /\ \A j \in 1 .. (Len(q) - 1) : r[j] = q[j + 1]
      BY <1>1, <1>4, HeadTailProperties, LenProperties
    <2>2. h \in Task /\ pc[h] = "wait" /\ at[h] = at[t] /\ h # t
      BY <1>1, <2>1, ElementOfSeq DEF WaitersWait
    <2>3. /\ holder' = [holder EXCEPT ![at[t]] = h]
          /\ waiters' = [waiters EXCEPT ![at[t]] = r]
          /\ pc' = [pc EXCEPT ![t] = "out", ![h] = "touch"]
      BY <1>1, <1>4, <2>2 DEF Release, PassOn
    <2>4. ASSUME NEW i \in DOMAIN r
          PROVE  /\ r[i] \in Task /\ r[i] # t /\ r[i] # h
                 /\ i + 1 \in DOMAIN q /\ r[i] = q[i + 1]
      <3>1. i + 1 \in DOMAIN q /\ r[i] = q[i + 1] /\ i + 1 # 1 /\ 1 \in DOMAIN q
        BY <2>1
      <3>2. q[i + 1] \in Task /\ pc[q[i + 1]] = "wait"
        BY <1>1, <2>1, <3>1, ElementOfSeq DEF WaitersWait
      <3>3. q[i + 1] = q[1] => i + 1 = 1
        BY <1>1, <3>1 DEF WaitersWait
      <3> HIDE DEF q
      <3> QED
        BY <1>1, <2>1, <3>1, <3>2, <3>3
    <2> HIDE DEF h, r
    <2>5. TypeOK'
      BY <1>1, <1>2, <2>1, <2>2, <2>3 DEF Pc
    <2>6. CallRefs'
      BY <1>1, <1>2, <2>2, <2>3, NullsAssumption DEF CallRefs
    <2>7. ASSUME NEW s \in Slot
          PROVE  /\ \A i \in DOMAIN waiters'[s] :
                       pc'[waiters'[s][i]] = "wait" /\ at'[waiters'[s][i]] = s
                 /\ \A i, j \in DOMAIN waiters'[s] :
                       waiters'[s][i] = waiters'[s][j] => i = j
      <3>1. CASE s = at[t]
        <4>1. waiters'[s] = r
          BY <1>1, <2>3, <3>1
        <4>2. \A i \in DOMAIN r : pc'[r[i]] = "wait" /\ at'[r[i]] = s
          BY <1>1, <1>2, <2>3, <2>4, <3>1 DEF WaitersWait
        <4>3. ASSUME NEW i \in DOMAIN r, NEW j \in DOMAIN r, r[i] = r[j]
              PROVE  i = j
          <5>1. i + 1 = j + 1
            BY <1>1, <2>4, <4>3 DEF WaitersWait
          <5> QED
            BY <2>1, <5>1
        <4> QED
          BY <4>1, <4>2, <4>3
      <3>2. CASE s # at[t]
        <4>1. waiters'[s] = waiters[s]
          BY <1>1, <2>3, <3>2
        <4>2. \A i \in DOMAIN waiters[s] :
                 waiters[s][i] \in Task /\ waiters[s][i] # t /\ waiters[s][i] # h
          BY <2>2, <3>2, ElementOfSeq, LenProperties, <1>1 DEF WaitersWait
        <4> QED
          BY <1>2, <2>3, <4>1, <4>2 DEF WaitersWait
      <3> QED
        BY <3>1, <3>2
    <2>8. WaitersWait'
      BY <2>7 DEF WaitersWait
    <2>9. TurnLockExclusive'
      <3>1. ASSUME NEW u \in Task, NEW s \in Slot
            PROVE  (holder[s] = u <=> HasTurn(u) /\ at[u] = s)'
        <4>1. holder[s] = u <=> HasTurn(u) /\ at[u] = s
          BY DEF TurnLockExclusive
        <4>2. CASE u = t
          BY <1>1, <1>2, <2>2, <2>3, <4>1, <4>2, NullsAssumption DEF HasTurn
        <4>3. CASE u = h
          BY <1>1, <1>2, <2>2, <2>3, <4>1, <4>3 DEF HasTurn
        <4>4. CASE u # t /\ u # h
          BY <1>1, <1>2, <2>2, <2>3, <4>1, <4>4 DEF HasTurn
        <4> QED
          BY <4>2, <4>3, <4>4
      <3>2. \A s \in Slot : holder'[s] = NoTask => waiters'[s] = <<>>
        BY <1>1, <2>2, <2>3, NullsAssumption DEF TurnLockExclusive
      <3> QED
        BY <3>1, <3>2 DEF TurnLockExclusive
    <2> QED
      BY <2>5, <2>6, <2>8, <2>9
  <1> QED
    BY <1>3, <1>4

\* Steps that leave the turn locks, the references and the queues alone.
LEMMA EndBareKeepsLockInv ==
    ASSUME LockInv, NEW t \in Task, EndBare(t)
    PROVE  LockInv'
  <1> USE DEF LockInv, TypeOK, EndBare, Goto, queueVars
  <1>1. TypeOK' /\ CallRefs'
    BY DEF Pc, CallRefs
  <1>2. WaitersWait'
    BY ElementOfSeq, LenProperties DEF WaitersWait
  <1>3. TurnLockExclusive'
    BY DEF TurnLockExclusive, HasTurn
  <1> QED
    BY <1>1, <1>2, <1>3

\* drain_pending does not touch the turn lock.
LEMMA DrainKeepsLockInv ==
    ASSUME LockInv, NEW t \in Task,
           TakePending(t) \/ \E k \in Key : BeginDrain(t, k)
    PROVE  LockInv'
  <1>1. TypeOK'
    <2>1. CASE TakePending(t)
      <3>1. <<>> \in Seq(Msg)
        OBVIOUS
      <3> QED
        BY <2>1, <3>1 DEF TakePending, Fate, LockInv, TypeOK
    <2>2. CASE \E k \in Key : BeginDrain(t, k)
      BY <2>2 DEF BeginDrain, Live, queueVars, LockInv, TypeOK
    <2> QED
      BY <2>1, <2>2
  <1>2. UNCHANGED <<holder, waiters, pc, at, msg>>
    BY DEF BeginDrain, TakePending, queueVars
  <1> QED
    BY <1>1, <1>2 DEF LockInv, CallRefs, WaitersWait, TurnLockExclusive, HasTurn

\* Every step of the queue keeps the turn lock exclusive and its waiters in order.
LEMMA LockInvNext == LockInv /\ [Next]_vars => LockInv'
  <1> SUFFICES ASSUME LockInv, [Next]_vars PROVE LockInv'
    OBVIOUS
  <1>1. ASSUME NEW t \in Task, InCallStep(t) PROVE LockInv'
    BY <1>1, TryTurnKeepsLockInv, PushKeepsLockInv, ProbeIdleKeepsLockInv,
       LockTurnKeepsLockInv, TouchKeepsLockInv, DrainKeepsLockInv
    DEF InCallStep
  <1>2. ASSUME NEW t \in Task, CallStep(t) PROVE LockInv'
    BY <1>2, StartOrEnqueueKeepsLockInv, EnqueueIfBusyKeepsLockInv,
       AcquireKeepsLockInv, DrainKeepsLockInv
    DEF CallStep
  <1>3. ASSUME NEW t \in Task, EndOfRun(t) \/ TimeOut(t) PROVE LockInv'
    BY <1>3, ReleaseKeepsLockInv, TimeOutKeepsLockInv, EndBareKeepsLockInv
    DEF EndOfRun
  <1>4. ASSUME \/ \E s \in Slot : TtlPasses(s)
               \/ UNCHANGED vars
        PROVE  LockInv'
    <2>1. TypeOK'
      BY <1>4 DEF LockInv, TypeOK, TtlPasses, vars, queueVars, taskVars
    <2>2. UNCHANGED <<holder, waiters, pc, at, msg>>
      BY <1>4 DEF TtlPasses, vars, queueVars, taskVars
    <2> QED
      BY <2>1, <2>2 DEF LockInv, CallRefs, WaitersWait, TurnLockExclusive, HasTurn
  <1> QED
    BY <1>1, <1>2, <1>3, <1>4 DEF Next

\* In every reachable state the turn locks, their waiters and the references
\* of the calls (chat_turn_queue.rs:65-232) agree.
THEOREM LockInvariant == Spec => []LockInv
  <1> QED
    BY LockInvInit, LockInvNext, PTL DEF Spec

\* Every reachable state is well typed, for any number of chats and tasks.
THEOREM TypeCorrectness == Spec => []TypeOK
  <1>1. LockInv => TypeOK
    BY DEF LockInv
  <1> QED
    BY <1>1, LockInvariant, PTL

\* A turn lock has exactly the owner that may act as its owner, and no task is
\* left waiting for a free one: with or without timeouts and cleanup.
THEOREM TurnLockIsExclusive == Spec => []TurnLockExclusive
  <1>1. LockInv => TurnLockExclusive
    BY DEF LockInv
  <1> QED
    BY <1>1, LockInvariant, PTL

-----------------------------------------------------------------------------
(***************************************************************************)
(* At most one turn per chat, as long as cleanup never starts: LockInv and *)
(* CurrentSlot together                                                    *)
(***************************************************************************)
LEMMA NoEviction ==
    ASSUME CleanupAbove >= Cardinality(Key)
    PROVE  Evictions = {{}}
  <1>1. {k \in Key : Live(k)} \in SUBSET Key
    OBVIOUS
  <1>2. /\ Cardinality({k \in Key : Live(k)}) <= Cardinality(Key)
        /\ Cardinality({k \in Key : Live(k)}) \in Nat
        /\ Cardinality(Key) \in Nat
    BY <1>1, BoundsAssumption, FS_Subset, FS_CardinalityType
  <1>3. ~(Cardinality({k \in Key : Live(k)}) > CleanupAbove)
    BY <1>2, BoundsAssumption
  <1> QED
    BY <1>3 DEF Evictions

\* get_slot gives the slot that the map has, if nothing was evicted.
LEMMA GetSlotCurrent ==
    ASSUME CleanupAbove >= Cardinality(Key), LockInv, CurrentSlot,
           NEW t \in Task, NEW k \in Key, GetSlot(t, k), pc[t] = "out",
           key' = [key EXCEPT ![t] = k]
    PROVE  CurrentSlot'
  <1> USE DEF LockInv, TypeOK
  <1> DEFINE kept == [j \in Key |-> IF j \in {} THEN NoSlot ELSE slots[j]]
  <1>1. \/ /\ kept[k] # NoSlot
           /\ slots' = kept
           /\ at' = [at EXCEPT ![t] = kept[k]]
        \/ /\ kept[k] = NoSlot
           /\ \E s \in Slot :
                 /\ slots' = [kept EXCEPT ![k] = s]
                 /\ at' = [at EXCEPT ![t] = s]
    BY NoEviction DEF GetSlot
  <1>2. kept = slots
    OBVIOUS
  <1> HIDE DEF kept
  <1>3. at'[t] = slots'[k] /\ \A u \in Task : u # t => at'[u] = at[u]
    BY <1>1, <1>2
  <1>4. \A j \in Key : slots[j] # NoSlot => slots'[j] = slots[j]
    BY <1>1, <1>2
  <1>5. ASSUME NEW u \in Task, at'[u] # NoSlot PROVE at'[u] = slots'[key'[u]]
    <2>1. CASE u = t
      BY <1>3, <2>1
    <2>2. CASE u # t
      BY <1>3, <1>4, <1>5, <2>2 DEF CurrentSlot
    <2> QED
      BY <2>1, <2>2
  <1> QED
    BY <1>5 DEF CurrentSlot

\* Without cleanup no reference outlives its place in the map.
LEMMA CurrentSlotNext ==
    ASSUME CleanupAbove >= Cardinality(Key), LockInv, CurrentSlot, [Next]_vars
    PROVE  CurrentSlot'
  <1> USE DEF LockInv, TypeOK
  <1>1. ASSUME NEW t \in Task, NEW k \in Key, NEW m \in Msg,
               StartOrEnqueue(t, k, m) \/ EnqueueIfBusy(t, k, m)
        PROVE  CurrentSlot'
    <2>1. CASE StartOrEnqueue(t, k, m)
      BY <2>1, GetSlotCurrent DEF StartOrEnqueue
    <2>2. CASE EnqueueIfBusy(t, k, m)
      BY <2>2 DEF EnqueueIfBusy, CurrentSlot, queueVars
    <2> QED
      BY <1>1, <2>1, <2>2
  <1>2. ASSUME NEW t \in Task, NEW k \in Key, Acquire(t, k)
        PROVE  CurrentSlot'
    BY <1>2, GetSlotCurrent DEF Acquire
  <1>3. ASSUME NEW t \in Task,
               \/ InCallStep(t)
               \/ \E k \in Key : BeginDrain(t, k)
               \/ EndOfRun(t)
               \/ TimeOut(t)
        PROVE  CurrentSlot'
    <2>1. slots' = slots /\ key' = key
      BY <1>3
      DEF InCallStep, EndOfRun, TryTurnSucceeds, TryTurnFails, Push, ProbeIdle, ProbeBusy,
          LockTurn, Touch, TakePending, BeginDrain, Release, EndBare, TimeOut, Leave, queueVars
    <2>2. at' = at \/ at' = [at EXCEPT ![t] = NoSlot]
      BY <1>3
      DEF InCallStep, EndOfRun, TryTurnSucceeds, TryTurnFails, Push, ProbeIdle, ProbeBusy,
          LockTurn, Touch, TakePending, BeginDrain, Release, EndBare, TimeOut, Leave, queueVars
    <2> QED
      BY <2>1, <2>2 DEF CurrentSlot
  <1>4. ASSUME \/ \E s \in Slot : TtlPasses(s)
               \/ UNCHANGED vars
        PROVE  CurrentSlot'
    BY <1>4 DEF TtlPasses, CurrentSlot, vars, queueVars, taskVars
  <1> QED
    BY <1>1, <1>2, <1>3, <1>4 DEF Next, CallStep

\* Two tasks never hold a TurnGuard of the same chat, provided there are never
\* more chats than the threshold above which get_slot evicts idle slots.
THEOREM OneTurn ==
    ASSUME CleanupAbove >= Cardinality(Key)
    PROVE  Spec => []OneTurnPerChat
  <1>1. Init => CurrentSlot
    BY DEF Init, CurrentSlot
  <1>2. LockInv /\ CurrentSlot /\ [Next]_vars => CurrentSlot'
    BY CurrentSlotNext
  <1>3. LockInv /\ CurrentSlot => OneTurnPerChat
    <2> SUFFICES ASSUME LockInv, CurrentSlot, NEW t \in Task, NEW u \in Task,
                        HasTurn(t), HasTurn(u), key[t] = key[u]
                 PROVE  t = u
      BY DEF OneTurnPerChat
    <2>1. at[t] \in Slot /\ at[u] \in Slot
      BY DEF LockInv, TypeOK, CallRefs, HasTurn
    <2>2. at[t] = at[u]
      BY <2>1, NullsAssumption DEF CurrentSlot
    <2> QED
      BY <2>1, <2>2 DEF LockInv, TurnLockExclusive
  <1> QED
    BY <1>1, <1>2, <1>3, LockInvariant, PTL DEF Spec

-----------------------------------------------------------------------------
(***************************************************************************)
(* The lists: where a message can be, as long as cleanup never starts      *)
(***************************************************************************)
\* A message a call carries is in no list yet, and no other call carries it.
CarriedInv ==
    /\ \A t \in Task : msg[t] # NoMsg => fate[msg[t]] = "arriving"
    /\ \A t, u \in Task : msg[t] # NoMsg /\ msg[t] = msg[u] => t = u

\* What is in a list is queued, and it is there once and in no other list, be
\* the list that of a slot in the map or not.
ListsInv ==
    /\ \A s \in Slot : \A i \in DOMAIN pending[s] : fate[pending[s][i]] = "queued"
    /\ \A s \in Slot : \A i, j \in DOMAIN pending[s] : pending[s][i] = pending[s][j] => i = j
    /\ \A r, s \in Slot : \A i \in DOMAIN pending[r] : \A j \in DOMAIN pending[s] :
          pending[r][i] = pending[s][j] => r = s

\* The map gives every key a slot of its own, a drain is about to empty a slot
\* of the map, and a queued message is in the list of one.
MapInv ==
    /\ \A k, l \in Key : Live(k) /\ slots[k] = slots[l] => k = l
    /\ \A t \in Task : drain[t] # NoSlot => \E k \in Key : slots[k] = drain[t]
    /\ \A m \in Msg : fate[m] = "queued" =>
          \E k \in Key : Live(k) /\ \E i \in DOMAIN pending[slots[k]] : pending[slots[k]][i] = m

QueueInv == LockInv /\ CurrentSlot /\ CarriedInv /\ ListsInv /\ MapInv

\* A key that has a slot keeps it and gives nobody another list; a key without one
\* gets a slot that nobody refers to, with an empty list.
LEMMA GetSlotKeepsMap ==
    ASSUME CleanupAbove >= Cardinality(Key), LockInv, NEW t \in Task, NEW k \in Key, GetSlot(t, k)
    PROVE  \/ Live(k) /\ UNCHANGED <<slots, pending>> /\ at' = [at EXCEPT ![t] = slots[k]]
           \/ /\ ~Live(k)
              /\ \E s \in Slot : /\ Unreferenced(s, slots)
                                 /\ slots' = [slots EXCEPT ![k] = s]
                                 /\ pending' = [pending EXCEPT ![s] = <<>>]
                                 /\ at' = [at EXCEPT ![t] = s]
  <1> DEFINE kept == [j \in Key |-> IF j \in {} THEN NoSlot ELSE slots[j]]
  <1>1. \/ /\ kept[k] # NoSlot
           /\ slots' = kept
           /\ at' = [at EXCEPT ![t] = kept[k]]
           /\ UNCHANGED pending
        \/ /\ kept[k] = NoSlot
           /\ \E s \in Slot :
                 /\ Unreferenced(s, kept)
                 /\ slots' = [kept EXCEPT ![k] = s]
                 /\ pending' = [pending EXCEPT ![s] = <<>>]
                 /\ at' = [at EXCEPT ![t] = s]
    BY NoEviction DEF GetSlot
  <1>2. kept = slots
    BY DEF LockInv, TypeOK
  <1> HIDE DEF kept
  <1> QED
    BY <1>1, <1>2 DEF Live

\* What a push makes of a list without repetitions and a message not in it: no
\* repetitions, the message, and all that was there but the oldest at capacity.
LEMMA PushedElements ==
    ASSUME NEW q \in Seq(Msg), NEW m \in Msg,
           \A i, j \in DOMAIN q : q[i] = q[j] => i = j,
           \A i \in DOMAIN q : q[i] # m
    PROVE  /\ \A i, j \in DOMAIN Pushed(q, m) : Pushed(q, m)[i] = Pushed(q, m)[j] => i = j
           /\ \A i \in DOMAIN Pushed(q, m) :
                 \/ Pushed(q, m)[i] = m
                 \/ /\ \E j \in DOMAIN q : q[j] = Pushed(q, m)[i]
                    /\ Len(q) >= MaxPending => Pushed(q, m)[i] # Head(q)
           /\ \E i \in DOMAIN Pushed(q, m) : Pushed(q, m)[i] = m
           /\ \A j \in DOMAIN q : \/ Len(q) >= MaxPending /\ q[j] = Head(q)
                                  \/ \E i \in DOMAIN Pushed(q, m) : Pushed(q, m)[i] = q[j]
  <1> DEFINE p == Pushed(q, m)
  <1>1. MaxPending \in Nat \ {0} /\ Len(q) \in Nat /\ DOMAIN q = 1 .. Len(q)
    BY BoundsAssumption, LenProperties
  <1>2. CASE Len(q) >= MaxPending
    <2> DEFINE r == Tail(q)
    <2>1. q # <<>>
      BY <1>1, <1>2
    <2>2. /\ r \in Seq(Msg) /\ Len(r) = Len(q) - 1 /\ Head(q) = q[1]
          /\ \A i \in 1 .. (Len(q) - 1) : r[i] = q[i + 1]
      BY <2>1, HeadTailProperties
    <2>3. p = Append(r, m)
      BY <1>2 DEF Pushed
    <2> HIDE DEF r
    <2>4. /\ DOMAIN p = 1 .. Len(q) /\ p[Len(q)] = m
          /\ \A i \in 1 .. (Len(q) - 1) : p[i] = q[i + 1]
      <3>1. Len(r) + 1 = Len(q)
        BY <1>1, <2>2
      <3> QED
        BY <2>2, <2>3, <3>1, AppendProperties, LenProperties
    <2> HIDE DEF p
    <2>5. \A i \in 1 .. Len(q) : i = Len(q) \/ (i \in 1 .. (Len(q) - 1) /\ i + 1 \in DOMAIN q)
      <3>1. \A n \in Nat : \A i \in 1 .. n : i = n \/ (i \in 1 .. (n - 1) /\ i + 1 \in 1 .. n)
        OBVIOUS
      <3> QED
        BY <1>1, <3>1
    <2>6. \A i, j \in DOMAIN p : p[i] = p[j] => i = j
      <3> SUFFICES ASSUME NEW i \in DOMAIN p, NEW j \in DOMAIN p, p[i] = p[j] PROVE i = j
        OBVIOUS
      <3>1. CASE i = Len(q) \/ j = Len(q)
        BY <2>4, <2>5, <3>1
      <3>2. CASE i # Len(q) /\ j # Len(q)
        <4>1. i + 1 = j + 1
          BY <2>4, <2>5, <3>2
        <4> QED
          BY <1>1, <2>4, <4>1
      <3> QED
        BY <3>1, <3>2
    <2>7. ASSUME NEW i \in DOMAIN p, p[i] # m
          PROVE  (\E j \in DOMAIN q : q[j] = p[i]) /\ p[i] # Head(q)
      <3>1. i \in 1 .. (Len(q) - 1) /\ i + 1 \in DOMAIN q /\ p[i] = q[i + 1]
        BY <2>4, <2>5, <2>7
      <3>2. i + 1 # 1 /\ 1 \in DOMAIN q
        BY <1>1, <3>1
      <3> QED
        BY <2>2, <3>1, <3>2
    <2>8. ASSUME NEW j \in DOMAIN q, q[j] # Head(q)
          PROVE  \E i \in DOMAIN p : p[i] = q[j]
      <3>1. j # 1
        BY <2>2, <2>8
      <3>2. j - 1 \in 1 .. (Len(q) - 1) /\ (j - 1) + 1 = j /\ j - 1 \in 1 .. Len(q)
        BY <1>1, <3>1
      <3> QED
        BY <2>4, <3>2
    <2>9. Len(q) \in DOMAIN p
      BY <1>1, <1>2, <2>4
    <2> QED
      BY <1>2, <2>4, <2>6, <2>7, <2>8, <2>9 DEF p
  <1>3. CASE ~(Len(q) >= MaxPending)
    <2>1. p = Append(q, m)
      BY <1>3 DEF Pushed
    <2>2. /\ DOMAIN p = 1 .. (Len(q) + 1) /\ p[Len(q) + 1] = m
          /\ \A i \in 1 .. Len(q) : p[i] = q[i]
      BY <1>1, <2>1, AppendProperties, LenProperties
    <2> HIDE DEF p
    <2>3. /\ \A i \in 1 .. (Len(q) + 1) : i = Len(q) + 1 \/ i \in DOMAIN q
          /\ Len(q) + 1 \in DOMAIN p /\ DOMAIN q \subseteq DOMAIN p
      BY <1>1, <2>2
    <2> QED
      BY <1>1, <1>3, <2>2, <2>3 DEF p
  <1> QED
    BY <1>2, <1>3

\* At first nothing is queued, carried or drained.
LEMMA QueueInvInit == Init => QueueInv
  <1> SUFFICES ASSUME Init PROVE QueueInv
    OBVIOUS
  <1>1. LockInv
    BY LockInvInit
  <1>2. \A s \in Slot : DOMAIN pending[s] = {}
    BY DEF Init
  <1>3. CurrentSlot /\ CarriedInv /\ MapInv
    BY NullsAssumption, <1>2 DEF Init, CurrentSlot, CarriedInv, MapInv, Live
  <1>4. ListsInv
    BY <1>2 DEF ListsInv
  <1> QED
    BY <1>1, <1>3, <1>4 DEF QueueInv

\* Steps that leave the lists, the map and the messages alone; a drain may have
\* got its slot from the map.
LEMMA QuietKeepsQueueInv ==
    ASSUME QueueInv, LockInv', CurrentSlot', NEW t \in Task,
           UNCHANGED <<slots, pending, msg, fate>>,
           drain' = drain \/ \E k \in Key : drain' = [drain EXCEPT ![t] = slots[k]]
    PROVE  QueueInv'
  <1> USE DEF QueueInv, LockInv, TypeOK
  <1>1. CarriedInv'
    BY DEF CarriedInv
  <1>2. ListsInv'
    BY DEF ListsInv
  <1>3. MapInv'
    BY DEF MapInv, Live
  <1> QED
    BY <1>1, <1>2, <1>3

\* A call that looks its slot up, with a new message or without one.
LEMMA GetSlotKeepsQueueInv ==
    ASSUME CleanupAbove >= Cardinality(Key), QueueInv, LockInv', CurrentSlot',
           NEW t \in Task, NEW k \in Key, GetSlot(t, k), UNCHANGED drain,
           \/ UNCHANGED <<msg, fate>>
           \/ \E m \in Msg : /\ fate[m] = "new"
                             /\ msg' = [msg EXCEPT ![t] = m]
                             /\ fate' = [fate EXCEPT ![m] = "arriving"]
    PROVE  QueueInv'
  <1> USE DEF QueueInv, LockInv, TypeOK
  <1>1. CarriedInv'
    BY NullsAssumption DEF CarriedInv
  <1>2. \A m \in Msg : fate[m] = "queued" <=> fate'[m] = "queued"
    OBVIOUS
  <1>3. CASE UNCHANGED <<slots, pending>>
    <2>1. ListsInv'
      BY <1>2, <1>3, ElementOfSeq, LenProperties DEF ListsInv
    <2>2. MapInv'
      BY <1>2, <1>3 DEF MapInv, Live
    <2> QED
      BY <1>1, <2>1, <2>2
  <1>4. ASSUME NEW s \in Slot, Unreferenced(s, slots), ~Live(k),
               slots' = [slots EXCEPT ![k] = s],
               pending' = [pending EXCEPT ![s] = <<>>]
        PROVE  QueueInv'
    <2>1. \A j \in Key : slots[j] # s
      BY <1>4 DEF Unreferenced
    <2>2. /\ \A r \in Slot : r # s => pending'[r] = pending[r]
          /\ DOMAIN pending'[s] = {}
      BY <1>4
    <2>3. ListsInv'
      <3>1. \A r \in Slot : \A i \in DOMAIN pending[r] : pending[r][i] \in Msg
        BY ElementOfSeq, LenProperties
      <3>2. \A r \in Slot : \A i \in DOMAIN pending'[r] : i \in DOMAIN pending[r] /\ r # s
        BY <2>2
      <3>3. \A r \in Slot : \A i \in DOMAIN pending'[r] : pending'[r][i] = pending[r][i]
        BY <2>2
      <3> QED
        BY <1>2, <3>1, <3>2, <3>3 DEF ListsInv
    <2>4. \A j \in Key : Live(j) => j # k /\ slots'[j] = slots[j]
      BY <1>4 DEF Live
    <2>5. MapInv'
      <3>1. \A j, l \in Key : slots'[j] # NoSlot /\ slots'[j] = slots'[l] => j = l
        BY <1>4, <2>1, NullsAssumption DEF MapInv, Live
      <3>2. ASSUME NEW u \in Task, drain'[u] # NoSlot
            PROVE  \E j \in Key : slots'[j] = drain'[u]
        BY <2>4, <3>2 DEF MapInv, Live
      <3>3. ASSUME NEW m \in Msg, fate'[m] = "queued"
            PROVE  \E j \in Key : /\ slots'[j] # NoSlot
                                  /\ \E i \in DOMAIN pending'[slots'[j]] : pending'[slots'[j]][i] = m
        <4>1. PICK j \in Key : Live(j) /\ \E i \in DOMAIN pending[slots[j]] : pending[slots[j]][i] = m
          BY <1>2, <3>3 DEF MapInv
        <4>2. slots'[j] = slots[j] /\ slots[j] \in Slot /\ slots[j] # s
          BY <2>1, <2>4, <4>1 DEF Live
        <4>3. pending'[slots'[j]] = pending[slots[j]] /\ slots'[j] # NoSlot
          BY <2>2, <4>2, NullsAssumption
        <4> QED
          BY <4>1, <4>3
      <3> QED
        BY <3>1, <3>2, <3>3 DEF MapInv, Live
    <2> QED
      BY <1>1, <2>3, <2>5
  <1> QED
    BY <1>3, <1>4, GetSlotKeepsMap


\* A message that its call puts down was in no list, and is in none afterwards.
LEMMA PutDownKeepsQueueInv ==
    ASSUME QueueInv, LockInv', CurrentSlot', NEW t \in Task,
           UNCHANGED <<slots, pending, drain>>,
           msg' = [msg EXCEPT ![t] = NoMsg],
           \A m \in Msg : fate'[m] = fate[m] \/ (m = msg[t] /\ fate'[m] # "queued")
    PROVE  QueueInv'
  <1> USE DEF QueueInv, LockInv, TypeOK
  <1>1. CarriedInv'
    BY NullsAssumption DEF CarriedInv
  <1>2. \A m \in Msg : fate[m] = "queued" <=> fate'[m] = "queued"
    <2>1. \A m \in Msg : m = msg[t] => fate[m] = "arriving"
      BY NullsAssumption DEF CarriedInv
    <2> QED
      BY <2>1
  <1>3. ListsInv'
    BY <1>2, ElementOfSeq, LenProperties DEF ListsInv
  <1>4. MapInv'
    BY <1>2 DEF MapInv, Live
  <1> QED
    BY <1>1, <1>3, <1>4

\* A push moves its message into the list of the chat's slot, and at capacity
\* the oldest message out of it: no other list and no other message changes.
LEMMA PushKeepsQueueInv ==
    ASSUME QueueInv, LockInv', CurrentSlot', NEW t \in Task, pc[t] \in {"push", "probe"},
           PushPending(t), UNCHANGED <<slots, drain>>, msg' = [msg EXCEPT ![t] = NoMsg]
    PROVE  QueueInv'
  <1> USE DEF TypeOK
  <1> DEFINE s == at[t]
             m == msg[t]
             q == pending[s]
             p == Pushed(q, m)
  <1>0. TypeOK /\ CallRefs /\ CurrentSlot /\ CarriedInv /\ ListsInv /\ MapInv /\ TypeOK'
    BY DEF QueueInv, LockInv
  <1>1. s \in Slot /\ m \in Msg /\ q \in Seq(Msg) /\ fate[m] = "arriving"
    <2>1. at[t] \in Slot /\ msg[t] \in Msg
      BY <1>0 DEF CallRefs
    <2> QED
      BY <1>0, <2>1, NullsAssumption DEF CarriedInv
  <1>2. s = slots[key[t]] /\ key[t] \in Key /\ Live(key[t])
    BY <1>0, <1>1, NullsAssumption DEF CurrentSlot, Live
  <1>3. /\ pending' = [pending EXCEPT ![s] = p]
        /\ \A x \in Msg : fate'[x] = CASE x = m -> "queued"
                                       [] Len(q) >= MaxPending /\ x = Head(q) /\ x # m -> "dropped"
                                       [] OTHER -> fate[x]
    BY DEF PushPending
  <1>4. \A r \in Slot : \A i \in DOMAIN pending[r] :
           pending[r][i] \in Msg /\ pending[r][i] # m /\ fate[pending[r][i]] = "queued"
    BY <1>0, <1>1, ElementOfSeq, LenProperties DEF ListsInv
  <1>5. (\A i, j \in DOMAIN q : q[i] = q[j] => i = j) /\ \A i \in DOMAIN q : q[i] # m
    BY <1>0, <1>1, <1>4 DEF ListsInv
  <1>6. /\ \A i, j \in DOMAIN p : p[i] = p[j] => i = j
        /\ \A i \in DOMAIN p : \/ p[i] = m
                               \/ /\ \E j \in DOMAIN q : q[j] = p[i]
                                  /\ Len(q) >= MaxPending => p[i] # Head(q)
        /\ \E i \in DOMAIN p : p[i] = m
        /\ \A j \in DOMAIN q : \/ Len(q) >= MaxPending /\ q[j] = Head(q)
                               \/ \E i \in DOMAIN p : p[i] = q[j]
    <2> HIDE DEF s, m, q
    <2> QED
      BY <1>1, <1>5, PushedElements
  <1>7. /\ pending'[s] = p
        /\ \A r \in Slot : r # s => pending'[r] = pending[r]
    BY <1>0, <1>1, <1>3
  <1>8. Len(q) >= MaxPending => 1 \in DOMAIN q /\ Head(q) = q[1]
    <2>1. MaxPending \in Nat \ {0} /\ Len(q) \in Nat /\ DOMAIN q = 1 .. Len(q)
      BY <1>1, BoundsAssumption, LenProperties
    <2>2. ASSUME Len(q) >= MaxPending PROVE q # <<>>
      BY <2>1, <2>2
    <2> QED
      BY <1>1, <2>1, <2>2, HeadTailProperties
  <1> HIDE DEF p, q, s, m
  <1>9. CarriedInv'
    <2>1. ASSUME NEW u \in Task, msg'[u] # NoMsg PROVE fate'[msg'[u]] = "arriving"
      <3>1. u # t /\ msg[u] \in Msg /\ msg'[u] = msg[u] /\ fate[msg[u]] = "arriving"
        BY <1>0, <2>1 DEF CarriedInv
      <3>2. msg[u] # m
        BY <1>0, <3>1, NullsAssumption DEF CarriedInv, m
      <3>3. Len(q) >= MaxPending => msg[u] # Head(q)
        BY <1>1, <1>4, <1>8, <3>1 DEF q
      <3> QED
        BY <1>3, <3>1, <3>2, <3>3
    <2> QED
      <3>1. \A u, v \in Task : msg'[u] # NoMsg /\ msg'[u] = msg'[v] => u = v
        BY <1>0 DEF CarriedInv
      <3> QED
        BY <2>1, <3>1 DEF CarriedInv
  <1>10. ASSUME NEW r \in Slot, NEW i \in DOMAIN pending'[r]
         PROVE  \/ r = s /\ pending'[r][i] = m
                \/ /\ \E j \in DOMAIN pending[r] : pending[r][j] = pending'[r][i]
                   /\ r = s => (Len(q) >= MaxPending => pending'[r][i] # Head(q))
    <2>1. CASE r = s
      BY <1>6, <1>7, <2>1 DEF q
    <2>2. CASE r # s
      BY <1>7, <2>2
    <2> QED
      BY <2>1, <2>2
  <1>11. ListsInv'
    <2>1. ASSUME NEW r \in Slot, NEW i \in DOMAIN pending'[r]
          PROVE  fate'[pending'[r][i]] = "queued"
      <3>1. CASE r = s /\ pending'[r][i] = m
        BY <1>1, <1>3, <3>1
      <3>2. CASE ~(r = s /\ pending'[r][i] = m)
        <4>1. PICK j \in DOMAIN pending[r] : pending[r][j] = pending'[r][i]
          BY <1>10, <3>2
        <4>2. pending'[r][i] \in Msg /\ fate[pending'[r][i]] = "queued" /\ pending'[r][i] # m
          BY <1>4, <4>1
        <4>3. Len(q) >= MaxPending => pending'[r][i] # Head(q)
          <5>1. CASE r = s
            BY <1>10, <3>2, <5>1
          <5>2. CASE r # s
            BY <1>0, <1>1, <1>8, <4>1, <5>2 DEF q, ListsInv
          <5> QED
            BY <5>1, <5>2
        <4> QED
          BY <1>3, <4>2, <4>3
      <3> QED
        BY <3>1, <3>2
    <2>2. ASSUME NEW r \in Slot PROVE \A i, j \in DOMAIN pending'[r] :
                                         pending'[r][i] = pending'[r][j] => i = j
      <3>1. CASE r = s
        BY <1>6, <1>7, <3>1
      <3>2. CASE r # s
        BY <1>0, <1>7, <3>2 DEF ListsInv
      <3> QED
        BY <3>1, <3>2
    <2>3. ASSUME NEW r \in Slot, NEW o \in Slot,
                 NEW i \in DOMAIN pending'[r], NEW j \in DOMAIN pending'[o],
                 pending'[r][i] = pending'[o][j]
          PROVE  r = o
      <3>1. \/ r = s /\ pending'[r][i] = m
            \/ \E n \in DOMAIN pending[r] : pending[r][n] = pending'[r][i]
        BY <1>10
      <3>2. \/ o = s /\ pending'[o][j] = m
            \/ \E n \in DOMAIN pending[o] : pending[o][n] = pending'[o][j]
        BY <1>10
      <3> QED
        BY <1>0, <1>4, <2>3, <3>1, <3>2 DEF ListsInv
    <2> QED
      BY <2>1, <2>2, <2>3 DEF ListsInv
  <1>12. MapInv'
    <2>1. ASSUME NEW x \in Msg, fate'[x] = "queued"
          PROVE  \E k \in Key : Live(k) /\ \E i \in DOMAIN pending'[slots[k]] : pending'[slots[k]][i] = x
      <3>1. CASE x = m
        BY <1>2, <1>6, <1>7, <3>1
      <3>2. CASE x # m
        <4>1. fate[x] = "queued" /\ ~(Len(q) >= MaxPending /\ x = Head(q))
          BY <1>3, <2>1, <3>2
        <4>2. PICK k \in Key : Live(k) /\ \E i \in DOMAIN pending[slots[k]] : pending[slots[k]][i] = x
          BY <1>0, <4>1 DEF MapInv
        <4>3. slots[k] \in Slot
          BY <1>0, <4>2 DEF Live
        <4>4. CASE slots[k] = s
          <5>1. PICK j \in DOMAIN q : q[j] = x
            BY <4>2, <4>4 DEF q
          <5>2. \E i \in DOMAIN p : p[i] = x
            BY <1>6, <4>1, <5>1
          <5> QED
            BY <1>7, <4>2, <4>4, <5>2
        <4>5. CASE slots[k] # s
          BY <1>7, <4>2, <4>3, <4>5
        <4> QED
          BY <4>4, <4>5
      <3> QED
        BY <3>1, <3>2
    <2> QED
      BY <1>0, <2>1 DEF MapInv, Live
  <1> QED
    BY <1>9, <1>11, <1>12 DEF QueueInv

\* A drain takes every message of its list and of no other.
LEMMA TakeKeepsQueueInv ==
    ASSUME QueueInv, LockInv', CurrentSlot', NEW t \in Task, TakePending(t)
    PROVE  QueueInv'
  <1> USE DEF QueueInv, LockInv, TypeOK
  <1> DEFINE s == drain[t]
  <1>1. /\ s \in Slot
        /\ \A m \in Msg : fate'[m] = IF m \in ToSet(pending[s]) THEN "taken" ELSE fate[m]
        /\ pending' = [pending EXCEPT ![s] = <<>>]
        /\ drain' = [drain EXCEPT ![t] = NoSlot]
        /\ UNCHANGED <<slots, msg>>
    BY DEF TakePending
  <1>2. \A r \in Slot : \A i \in DOMAIN pending[r] :
           pending[r][i] \in Msg /\ fate[pending[r][i]] = "queued"
    BY ElementOfSeq, LenProperties DEF ListsInv
  <1>3. /\ DOMAIN pending'[s] = {}
        /\ \A r \in Slot : r # s => pending'[r] = pending[r]
    BY <1>1
  <1>4. \A m \in ToSet(pending[s]) : \E i \in DOMAIN pending[s] : m = pending[s][i]
    BY DEF ToSet
  <1>5. \A i \in DOMAIN pending[s] : pending[s][i] \in ToSet(pending[s])
    BY DEF ToSet
  <1> HIDE DEF s
  <1>6. CarriedInv'
    BY <1>1, <1>2, <1>4 DEF CarriedInv
  <1>7. ListsInv'
    <2>1. \A r \in Slot : \A i \in DOMAIN pending'[r] :
             r # s /\ i \in DOMAIN pending[r] /\ pending'[r][i] = pending[r][i]
      BY <1>3
    <2>2. \A r \in Slot : \A i \in DOMAIN pending[r] :
             r # s => pending[r][i] \notin ToSet(pending[s])
      BY <1>1, <1>4 DEF ListsInv
    <2> QED
      BY <1>1, <1>2, <2>1, <2>2 DEF ListsInv
  <1>8. MapInv'
    <2>1. ASSUME NEW m \in Msg, fate'[m] = "queued"
          PROVE  \E k \in Key : Live(k) /\ \E i \in DOMAIN pending'[slots[k]] : pending'[slots[k]][i] = m
      <3>1. fate[m] = "queued" /\ m \notin ToSet(pending[s])
        BY <1>1, <2>1
      <3>2. PICK k \in Key : Live(k) /\ \E i \in DOMAIN pending[slots[k]] : pending[slots[k]][i] = m
        BY <3>1 DEF MapInv
      <3>3. slots[k] \in Slot /\ slots[k] # s
        BY <1>5, <3>1, <3>2 DEF Live
      <3> QED
        BY <1>3, <3>2, <3>3
    <2>2. \A u \in Task : drain'[u] # NoSlot => \E k \in Key : slots'[k] = drain'[u]
      BY <1>1 DEF MapInv
    <2> QED
      BY <1>1, <2>1, <2>2 DEF MapInv, Live
  <1> QED
    BY <1>6, <1>7, <1>8

\* Every step keeps the lists, whatever is timed out or polled in between.
LEMMA QueueInvNext ==
    ASSUME CleanupAbove >= Cardinality(Key), QueueInv, [Next]_vars
    PROVE  QueueInv'
  <1>1. LockInv' /\ CurrentSlot'
    BY LockInvNext, CurrentSlotNext DEF QueueInv
  <1>2. ASSUME NEW t \in Task, NEW k \in Key, NEW m \in Msg, StartOrEnqueue(t, k, m)
        PROVE  QueueInv'
    BY <1>1, <1>2, GetSlotKeepsQueueInv DEF StartOrEnqueue
  <1>3. ASSUME NEW t \in Task, NEW k \in Key, NEW m \in Msg, EnqueueIfBusy(t, k, m)
        PROVE  QueueInv'
    <2> USE DEF QueueInv, LockInv, TypeOK
    <2>1. /\ fate[m] = "new"
          /\ msg' = [msg EXCEPT ![t] = m]
          /\ fate' = [fate EXCEPT ![m] = "arriving"]
          /\ UNCHANGED <<slots, pending, drain>>
      BY <1>3 DEF EnqueueIfBusy, queueVars
    <2>2. \A x \in Msg : fate[x] = "queued" <=> fate'[x] = "queued"
      BY <2>1
    <2>3. CarriedInv'
      BY <2>1, NullsAssumption DEF CarriedInv
    <2>4. ListsInv'
      BY <2>1, <2>2, ElementOfSeq, LenProperties DEF ListsInv
    <2>5. MapInv'
      BY <2>1, <2>2 DEF MapInv, Live
    <2> QED
      BY <1>1, <2>3, <2>4, <2>5
  <1>4. ASSUME NEW t \in Task, NEW k \in Key, Acquire(t, k)
        PROVE  QueueInv'
    BY <1>1, <1>4, GetSlotKeepsQueueInv DEF Acquire
  <1>5. ASSUME NEW t \in Task, Push(t) \/ ProbeBusy(t)
        PROVE  QueueInv'
    BY <1>1, <1>5, PushKeepsQueueInv DEF Push, ProbeBusy, Leave
  <1>6. ASSUME NEW t \in Task, ProbeIdle(t)
        PROVE  QueueInv'
    <2>1. \A m \in Msg : fate'[m] = fate[m] \/ (m = msg[t] /\ fate'[m] # "queued")
      BY <1>6 DEF ProbeIdle, QueueInv, LockInv, TypeOK
    <2> QED
      BY <1>1, <1>6, <2>1, PutDownKeepsQueueInv DEF ProbeIdle, Leave, queueVars
  <1>7. ASSUME NEW t \in Task, Touch(t)
        PROVE  QueueInv'
    <2>1. \A m \in Msg : fate'[m] = fate[m] \/ (m = msg[t] /\ fate'[m] # "queued")
      BY <1>7 DEF Touch
    <2> QED
      BY <1>1, <1>7, <2>1, PutDownKeepsQueueInv DEF Touch
  <1>8. ASSUME NEW t \in Task, TakePending(t)
        PROVE  QueueInv'
    BY <1>1, <1>8, TakeKeepsQueueInv
  <1>9. ASSUME NEW t \in Task,
               \/ TryTurnSucceeds(t) \/ TryTurnFails(t) \/ LockTurn(t)
               \/ Release(t) \/ EndBare(t) \/ TimeOut(t)
        PROVE  QueueInv'
    <2>1. UNCHANGED <<slots, pending, msg, fate, drain>>
      BY <1>9 DEF TryTurnSucceeds, TryTurnFails, LockTurn, Release, EndBare, TimeOut, queueVars
    <2> QED
      BY <1>1, <2>1, QuietKeepsQueueInv
  <1>10. ASSUME NEW t \in Task, NEW k \in Key, BeginDrain(t, k)
         PROVE  QueueInv'
    BY <1>1, <1>10, QuietKeepsQueueInv DEF BeginDrain, queueVars
  <1>11. ASSUME \/ \E s \in Slot : TtlPasses(s)
                \/ UNCHANGED vars
         PROVE  QueueInv'
    BY <1>1, <1>11
    DEF TtlPasses, vars, queueVars, taskVars, QueueInv, CarriedInv, ListsInv, MapInv, Live
  <1> QED
    BY <1>2, <1>3, <1>4, <1>5, <1>6, <1>7, <1>8, <1>9, <1>10, <1>11
    DEF Next, InCallStep, CallStep, EndOfRun

\* In every reachable state every queued message is in the list that a drain of
\* its chat will find, once and in no other list, provided there are never more
\* chats than the threshold above which get_slot evicts idle slots.
THEOREM QueuedStaysReachable ==
    ASSUME CleanupAbove >= Cardinality(Key)
    PROVE  Spec => []QueuedIsReachable
  <1>1. QueueInv /\ [Next]_vars => QueueInv'
    BY QueueInvNext
  <1>2. ASSUME QueueInv PROVE QueuedIsReachable
    <2> USE DEF QueueInv, LockInv, TypeOK
    <2>1. ASSUME NEW m \in Msg, fate[m] = "queued"
          PROVE  \E k \in Key : Live(k) /\ m \in ToSet(pending[slots[k]])
      <3>1. PICK k \in Key : Live(k) /\ \E i \in DOMAIN pending[slots[k]] : pending[slots[k]][i] = m
        BY <1>2, <2>1 DEF MapInv
      <3>2. PICK i \in DOMAIN pending[slots[k]] : pending[slots[k]][i] = m
        BY <3>1
      <3>3. m \in ToSet(pending[slots[k]])
        BY <3>2 DEF ToSet
      <3> QED
        BY <3>1, <3>3
    <2>2. ASSUME NEW k \in Key, NEW l \in Key, Live(k), Live(l), k # l
          PROVE  /\ slots[k] # slots[l]
                 /\ ToSet(pending[slots[k]]) \cap ToSet(pending[slots[l]]) = {}
      <3>1. slots[k] # slots[l] /\ slots[k] \in Slot /\ slots[l] \in Slot
        BY <1>2, <2>2 DEF MapInv, Live
      <3> QED
        BY <1>2, <3>1 DEF ListsInv, ToSet
    <2>3. \A s \in Slot : \A i, j \in DOMAIN pending[s] : pending[s][i] = pending[s][j] => i = j
      BY <1>2 DEF ListsInv
    <2> QED
      BY <2>1, <2>2, <2>3 DEF QueuedIsReachable
  <1> QED
    BY <1>1, <1>2, QueueInvInit, PTL DEF Spec

-----------------------------------------------------------------------------
(***************************************************************************)
(* The queue implements TurnSerializer                                     *)
(***************************************************************************)
TurnOf(k) == IF Live(k) THEN holder[slots[k]] ELSE NoTask
ListOf(k) == IF Live(k) THEN pending[slots[k]] ELSE <<>>

\* The state of TurnSerializer: the turn and the list of every chat.
Turns == [k \in Key |-> TurnOf(k)]
Lists == [k \in Key |-> ListOf(k)]

\* A step in which the map keeps its slots and only the turn lock of slot s and
\* its list may change, changes only the turn and the list of its chat.
LEMMA OneChatChanges ==
    ASSUME QueueInv, QueueInv', UNCHANGED slots, NEW k \in Key, Live(k),
           \A s \in Slot : s # slots[k] => holder'[s] = holder[s] /\ pending'[s] = pending[s]
    PROVE  /\ Turns' = [Turns EXCEPT ![k] = holder'[slots[k]]]
           /\ Lists' = [Lists EXCEPT ![k] = pending'[slots[k]]]
           /\ Turns[k] = holder[slots[k]] /\ Lists[k] = pending[slots[k]]
  <1> USE DEF QueueInv, LockInv, TypeOK
  <1>1. \A j \in Key : Live(j) /\ j # k => slots[j] \in Slot /\ slots[j] # slots[k]
    BY DEF MapInv, Live
  <1>2. \A j \in Key : j # k => TurnOf(j)' = TurnOf(j) /\ ListOf(j)' = ListOf(j)
    BY <1>1 DEF TurnOf, ListOf, Live
  <1>3. TurnOf(k)' = holder'[slots[k]] /\ ListOf(k)' = pending'[slots[k]]
    BY DEF TurnOf, ListOf, Live
  <1>4. Turns[k] = holder[slots[k]] /\ Lists[k] = pending[slots[k]]
    BY DEF Turns, Lists, TurnOf, ListOf
  <1>5. Turns' = [Turns EXCEPT ![k] = holder'[slots[k]]]
    BY <1>2, <1>3 DEF Turns
  <1>6. Lists' = [Lists EXCEPT ![k] = pending'[slots[k]]]
    BY <1>2, <1>3 DEF Lists
  <1> QED
    BY <1>4, <1>5, <1>6

\* TurnSerializer's initial state is the queue's.
LEMMA SerializerInit == Init => Serializer!Init
  BY DEF Init, Serializer!Init, Live

\* The variables of the instance are the turns and the lists.
LEMMA SerializerVars ==
    /\ [k \in Key |-> IF Live(k) THEN holder[slots[k]] ELSE NoTask] = Turns
    /\ [k \in Key |-> IF Live(k) THEN pending[slots[k]] ELSE <<>>] = Lists
    /\ [k \in Key |-> IF Live(k) THEN holder[slots[k]] ELSE NoTask]' = Turns'
    /\ [k \in Key |-> IF Live(k) THEN pending[slots[k]] ELSE <<>>]' = Lists'
    /\ Serializer!vars = <<Turns, Lists>>
  BY DEF Turns, Lists, TurnOf, ListOf, Serializer!vars

\* A free turn that gets an owner is a claim.
LEMMA ClaimStep ==
    ASSUME NEW k \in Key, NEW t \in Task,
           Turns[k] = NoTask, Turns' = [Turns EXCEPT ![k] = t], Lists' = Lists
    PROVE  Serializer!Next
  <1>1. Serializer!Claim(k, t)
    BY SerializerVars DEF Serializer!Claim
  <1> QED
    BY <1>1 DEF Serializer!Next

\* A turn that is given up goes to somebody else or to nobody.
LEMMA PassStep ==
    ASSUME NEW k \in Key, NEW t \in Task \cup {NoTask},
           Turns[k] # NoTask, t # Turns[k], Turns' = [Turns EXCEPT ![k] = t], Lists' = Lists
    PROVE  Serializer!Next
  <1>1. Serializer!PassTurn(k, t)
    BY SerializerVars DEF Serializer!PassTurn
  <1> QED
    BY <1>1 DEF Serializer!Next

\* A push of a message that is in no list is an enqueue.
LEMMA EnqueueStep ==
    ASSUME NEW k \in Key, NEW m \in Msg,
           \A j \in Key : \A i \in DOMAIN Lists[j] : Lists[j][i] # m,
           Lists' = [Lists EXCEPT ![k] = Pushed(Lists[k], m)], Turns' = Turns
    PROVE  Serializer!Next
  <1>1. Serializer!Enqueue(k, m)
    BY SerializerVars DEF Serializer!Enqueue, Pushed
  <1> QED
    BY <1>1 DEF Serializer!Next

\* A list that is emptied is a drain.
LEMMA DrainStep ==
    ASSUME NEW k \in Key, Lists' = [Lists EXCEPT ![k] = <<>>], Turns' = Turns
    PROVE  Serializer!Next
  <1>1. Serializer!Drain(k)
    BY SerializerVars DEF Serializer!Drain
  <1> QED
    BY <1>1 DEF Serializer!Next

\* A step that changes no turn and no list shows nothing.
LEMMA SameTurns ==
    ASSUME Turns' = Turns, Lists' = Lists
    PROVE  UNCHANGED Serializer!vars
  <1>1. <<Turns', Lists'>> = <<Turns, Lists>>
    OBVIOUS
  <1>2. Serializer!vars' = <<Turns', Lists'>>
    BY ONLY SerializerVars DEF Serializer!vars
  <1>3. Serializer!vars = <<Turns, Lists>>
    BY ONLY SerializerVars
  <1> QED
    BY ONLY <1>1, <1>2, <1>3

\* So it is with a step that leaves the map, the turn locks and the lists alone.
LEMMA HiddenStep ==
    ASSUME UNCHANGED <<slots, holder, pending>>
    PROVE  UNCHANGED Serializer!vars
  <1>1. slots' = slots /\ holder' = holder /\ pending' = pending
    OBVIOUS
  <1>2. Turns' = Turns /\ Lists' = Lists
    BY <1>1 DEF Turns, Lists, TurnOf, ListOf, Live
  <1> QED
    BY ONLY <1>2, SameTurns

\* Nor does a call that looks up its slot: a new one is free and empty.
LEMMA GetSlotHidden ==
    ASSUME CleanupAbove >= Cardinality(Key), QueueInv, NEW t \in Task, NEW k \in Key,
           GetSlot(t, k), UNCHANGED holder
    PROVE  UNCHANGED Serializer!vars
  <1>0. \/ UNCHANGED <<slots, pending>>
        \/ \E s \in Slot : /\ Unreferenced(s, slots)
                            /\ ~Live(k)
                            /\ slots' = [slots EXCEPT ![k] = s]
                            /\ pending' = [pending EXCEPT ![s] = <<>>]
    BY GetSlotKeepsMap DEF QueueInv
  <1> USE DEF QueueInv, LockInv, TypeOK
  <1>1. CASE UNCHANGED <<slots, pending>>
    BY <1>1, HiddenStep
  <1>2. ASSUME NEW s \in Slot, Unreferenced(s, slots), ~Live(k),
               slots' = [slots EXCEPT ![k] = s],
               pending' = [pending EXCEPT ![s] = <<>>]
        PROVE  UNCHANGED Serializer!vars
    <2>1. holder[s] = NoTask
      BY <1>2 DEF TurnLockExclusive, Unreferenced
    <2>2. ASSUME NEW j \in Key
          PROVE  TurnOf(j)' = TurnOf(j) /\ ListOf(j)' = ListOf(j)
      <3>1. CASE j = k
        <4>1. slots'[j] = s /\ s # NoSlot /\ pending'[s] = <<>>
          BY <1>2, <3>1, NullsAssumption
        <4> QED
          BY <1>2, <2>1, <3>1, <4>1 DEF TurnOf, ListOf, Live
      <3>2. CASE j # k
        <4>1. slots'[j] = slots[j]
          BY <1>2, <3>2
        <4>2. Live(j) => slots[j] \in Slot /\ slots[j] # s
          BY <1>2 DEF Live, Unreferenced
        <4>3. Live(j) => pending'[slots[j]] = pending[slots[j]]
          BY <1>2, <4>2
        <4> QED
          BY <4>1, <4>3 DEF TurnOf, ListOf, Live
      <3> QED
        BY <3>1, <3>2
    <2>3. Turns' = Turns /\ Lists' = Lists
      BY <2>2 DEF Turns, Lists
    <2> QED
      BY ONLY <2>3, SameTurns
  <1> QED
    BY <1>0, <1>1, <1>2

\* A task that refers to a slot refers to that of its chat.
LEMMA OwnChat ==
    ASSUME QueueInv, NEW t \in Task, pc[t] \notin {"out", "bare"}
    PROVE  key[t] \in Key /\ Live(key[t]) /\ slots[key[t]] = at[t] /\ at[t] \in Slot
  BY NullsAssumption DEF QueueInv, LockInv, TypeOK, CallRefs, CurrentSlot, Live

\* A free turn lock that its call takes is the turn of its chat.
LEMMA LockIsClaim ==
    ASSUME QueueInv, QueueInv', NEW t \in Task, pc[t] \notin {"out", "bare"},
           holder[at[t]] = NoTask, holder' = [holder EXCEPT ![at[t]] = t],
           UNCHANGED <<slots, pending>>
    PROVE  Serializer!Next
  <1> DEFINE k == key[t]
  <1>1. k \in Key /\ Live(k) /\ slots[k] = at[t] /\ at[t] \in Slot
    BY OwnChat
  <1>2. holder'[at[t]] = t /\ \A s \in Slot : s # at[t] => holder'[s] = holder[s]
    BY <1>1 DEF QueueInv, LockInv, TypeOK
  <1>3. /\ Turns' = [Turns EXCEPT ![k] = t]
        /\ Lists' = [Lists EXCEPT ![k] = pending[slots[k]]]
        /\ Turns[k] = NoTask /\ Lists[k] = pending[slots[k]]
    BY <1>1, <1>2, OneChatChanges
  <1>4. Lists' = Lists
    BY <1>1, <1>3 DEF Lists
  <1> QED
    BY <1>1, <1>3, <1>4, ClaimStep

\* The end of a run passes the turn on, to the oldest waiter if there is one.
LEMMA ReleaseIsPass ==
    ASSUME QueueInv, QueueInv', NEW t \in Task, Release(t)
    PROVE  Serializer!Next
  <1> USE DEF QueueInv, LockInv, TypeOK
  <1> DEFINE k == key[t]
             s == at[t]
             q == waiters[s]
             h == IF q = <<>> THEN NoTask ELSE Head(q)
  <1>1. k \in Key /\ Live(k) /\ slots[k] = s /\ s \in Slot
    BY OwnChat DEF Release
  <1>2. holder[s] = t
    BY <1>1 DEF TurnLockExclusive, HasTurn, Release
  <1>3. holder' = [holder EXCEPT ![s] = h] /\ UNCHANGED <<slots, pending>>
    BY DEF Release, PassOn
  <1>4. h \in Task \cup {NoTask} /\ h # t
    <2>1. CASE q = <<>>
      BY <2>1, NullsAssumption
    <2>2. CASE q # <<>>
      <3>1. q \in Seq(Task)
        BY <1>1
      <3>2. Head(q) = q[1] /\ Head(q) \in Task /\ 1 \in DOMAIN q
        BY <2>2, <3>1, HeadTailProperties, EmptySeq, LenProperties
      <3>3. pc[q[1]] = "wait"
        BY <1>1, <3>2 DEF WaitersWait
      <3>4. pc[t] = "turn"
        BY DEF Release
      <3> QED
        BY <2>2, <3>2, <3>3, <3>4
    <2> QED
      BY <2>1, <2>2
  <1> HIDE DEF h, q
  <1>5. /\ Turns' = [Turns EXCEPT ![k] = h]
        /\ Lists' = [Lists EXCEPT ![k] = pending[slots[k]]]
        /\ Turns[k] = t /\ Lists[k] = pending[slots[k]]
    <2>1. holder'[s] = h /\ \A r \in Slot : r # s => holder'[r] = holder[r]
      BY <1>1, <1>3
    <2> QED
      BY <1>1, <1>2, <1>3, <2>1, OneChatChanges
  <1>6. Lists' = Lists
    BY <1>1, <1>5 DEF Lists
  <1> QED
    BY <1>1, <1>4, <1>5, <1>6, PassStep, NullsAssumption

\* A push is an enqueue of the chat.
LEMMA PushIsEnqueue ==
    ASSUME QueueInv, QueueInv', NEW t \in Task, Push(t) \/ ProbeBusy(t)
    PROVE  Serializer!Next
  <1> DEFINE k == key[t]
             s == at[t]
             m == msg[t]
             p == Pushed(pending[s], m)
  <1>1. /\ pc[t] \in {"push", "probe"} /\ UNCHANGED <<slots, holder>>
        /\ pending' = [pending EXCEPT ![s] = p]
    BY DEF Push, ProbeBusy, PushPending
  <1>2. k \in Key /\ Live(k) /\ slots[k] = s /\ s \in Slot
    BY <1>1, OwnChat
  <1>3. m \in Msg /\ fate[m] = "arriving"
    BY <1>1, NullsAssumption DEF QueueInv, LockInv, TypeOK, CallRefs, CarriedInv
  <1>4. \A r \in Slot : \A i \in DOMAIN pending[r] : pending[r][i] # m
    BY <1>3 DEF QueueInv, ListsInv
  <1> HIDE DEF p
  <1>5. /\ Turns' = [Turns EXCEPT ![k] = holder[s]]
        /\ Lists' = [Lists EXCEPT ![k] = p]
        /\ Turns[k] = holder[s] /\ Lists[k] = pending[s]
    <2>1. pending'[s] = p /\ \A r \in Slot : r # s => pending'[r] = pending[r]
      BY <1>1, <1>2 DEF QueueInv, LockInv, TypeOK
    <2> QED
      BY <1>1, <1>2, <2>1, OneChatChanges
  <1>6. Turns' = Turns
    BY <1>2, <1>5 DEF Turns
  <1>7. \A j \in Key : \A i \in DOMAIN Lists[j] : Lists[j][i] # m
    <2>1. ASSUME NEW j \in Key, Live(j) PROVE Lists[j] = pending[slots[j]] /\ slots[j] \in Slot
      BY <2>1 DEF Lists, ListOf, Live, QueueInv, LockInv, TypeOK
    <2>2. ASSUME NEW j \in Key, ~Live(j) PROVE Lists[j] = <<>>
      BY <2>2 DEF Lists, ListOf
    <2> QED
      BY <1>4, <2>1, <2>2
  <1> QED
    BY <1>2, <1>3, <1>5, <1>6, <1>7, EnqueueStep DEF p

\* drain_pending empties the list of the chat whose slot it has looked up.
LEMMA TakeIsDrain ==
    ASSUME QueueInv, QueueInv', NEW t \in Task, TakePending(t)
    PROVE  Serializer!Next
  <1> USE DEF QueueInv, LockInv, TypeOK
  <1>1. drain[t] # NoSlot /\ UNCHANGED <<slots, holder>>
        /\ pending' = [pending EXCEPT ![drain[t]] = <<>>]
    BY DEF TakePending
  <1>2. PICK k \in Key : slots[k] = drain[t]
    BY <1>1 DEF MapInv
  <1>3. Live(k) /\ slots[k] \in Slot
    BY <1>1, <1>2 DEF Live
  <1>4. /\ Turns' = [Turns EXCEPT ![k] = holder[slots[k]]]
        /\ Lists' = [Lists EXCEPT ![k] = <<>>]
        /\ Turns[k] = holder[slots[k]] /\ Lists[k] = pending[slots[k]]
    <2>1. /\ pending'[slots[k]] = <<>>
          /\ \A r \in Slot : r # slots[k] => pending'[r] = pending[r]
      BY <1>1, <1>2, <1>3
    <2> QED
      BY <1>1, <1>3, <2>1, OneChatChanges
  <1>5. Turns' = Turns
    BY <1>4 DEF Turns
  <1> QED
    BY <1>4, <1>5, DrainStep

\* Every step of the queue is one of TurnSerializer or hidden from it.
LEMMA SerializerNext ==
    ASSUME CleanupAbove >= Cardinality(Key), QueueInv, QueueInv', [Next]_vars
    PROVE  [Serializer!Next]_(Serializer!vars)
  <1>1. ASSUME NEW t \in Task, NEW k \in Key, NEW m \in Msg,
               StartOrEnqueue(t, k, m)
        PROVE  UNCHANGED Serializer!vars
    BY <1>1, GetSlotHidden DEF StartOrEnqueue
  <1>2. ASSUME NEW t \in Task,
               \/ TryTurnFails(t) \/ ProbeIdle(t) \/ Touch(t) \/ EndBare(t) \/ TimeOut(t)
               \/ \E k \in Key : BeginDrain(t, k)
               \/ \E k \in Key, m \in Msg : EnqueueIfBusy(t, k, m)
        PROVE  UNCHANGED Serializer!vars
    BY <1>2, HiddenStep
    DEF TryTurnFails, ProbeIdle, Touch, EndBare, TimeOut, BeginDrain, EnqueueIfBusy, queueVars
  <1>3. ASSUME NEW t \in Task, TryTurnSucceeds(t)
        PROVE  Serializer!Next
    BY <1>3, LockIsClaim DEF TryTurnSucceeds
  <1>4. ASSUME NEW t \in Task, LockTurn(t)
        PROVE  [Serializer!Next]_(Serializer!vars)
    <2>1. CASE holder[at[t]] = NoTask
      BY <1>4, <2>1, LockIsClaim DEF LockTurn
    <2>2. CASE holder[at[t]] # NoTask
      BY <1>4, <2>2, HiddenStep DEF LockTurn
    <2> QED
      BY <2>1, <2>2
  <1>5. ASSUME NEW t \in Task, Push(t) \/ ProbeBusy(t) \/ Release(t) \/ TakePending(t)
        PROVE  Serializer!Next
    BY <1>5, PushIsEnqueue, ReleaseIsPass, TakeIsDrain
  <1>6. ASSUME NEW t \in Task, NEW k \in Key, Acquire(t, k)
        PROVE  UNCHANGED Serializer!vars
    BY <1>6, GetSlotHidden DEF Acquire
  <1>7. ASSUME \/ \E s \in Slot : TtlPasses(s)
               \/ UNCHANGED vars
        PROVE  UNCHANGED Serializer!vars
    BY <1>7, HiddenStep DEF TtlPasses, vars, queueVars
  <1> QED
    BY <1>1, <1>2, <1>3, <1>4, <1>5, <1>6, <1>7 DEF Next, InCallStep, CallStep, EndOfRun

\* Without cleanup the queue is what its callers take it to be: one turn and one
\* bounded list per chat, in every behaviour and not only in its states.
THEOREM QueueImplementsSerializer ==
    ASSUME CleanupAbove >= Cardinality(Key)
    PROVE  Spec => ImplementsSerializer
  <1>1. QueueInv /\ [Next]_vars => QueueInv'
    BY QueueInvNext
  <1>2. QueueInv /\ QueueInv' /\ [Next]_vars => [Serializer!Next]_(Serializer!vars)
    BY SerializerNext
  <1> QED
    BY <1>1, <1>2, QueueInvInit, SerializerInit, PTL
    DEF Spec, ImplementsSerializer, Serializer!Spec

====
