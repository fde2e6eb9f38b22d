------------------------- MODULE TurnLifecycleProofs -------------------------
(***************************************************************************)
(* Proofs about TurnLifecycle: a save extends the session it was loaded    *)
(* from, for any number of messages, jobs and iterations, with injection,  *)
(* reruns and /reset.  The statement that replaces the session's row has   *)
(* no condition, so everything rests on the queue: while no run has gone   *)
(* ahead without the turn, whoever has loaded the session is alone, and    *)
(* what it has in hand begins with what is saved.                          *)
(***************************************************************************)
EXTENDS TurnLifecycle, ChatTurnQueueProofs

USE LifecycleAssumption

IsSeq(x) == \E S : x \in Seq(S)

\* The run has read the session and may still save; it is in process_with_agent.
Loaded == {"merging", "model", "tools", "final", "saving"}
InRun == {"loading", "returning"} \cup Loaded

\* A run has the turn of the chat, or has given up waiting for it.
TurnInv ==
    /\ step \in [Task -> Step]
    /\ \A t \in Task : step[t] \in {"entering"} \cup InRun => key[t] = Chat
    /\ \A t \in Task : step[t] \in InRun => pc[t] \in {"turn", "bare"}
    /\ \A t \in Task : pc[t] = "bare" => barged

\* What a run has in hand begins with what is saved.
SessionInv ==
    /\ IsSeq(saved)
    /\ ctx = [t \in Task |-> ctx[t]] /\ \A t \in Task : IsSeq(ctx[t])
    /\ ~barged /\ hasSession => \A t \in Task : step[t] \in Loaded => IsPrefix(saved, ctx[t])

StampsOK == stamps \in Seq(Msg) /\ since \in [Task -> Nat] /\ savedAt \in Nat

LifecycleInv == LockInv /\ CurrentSlot /\ TurnInv /\ SessionInv /\ StampsOK

\* Appending leaves the beginning as it is (persisted contexts only grow).
LEMMA ConcatIsSeq ==
  ASSUME NEW a, NEW b, IsSeq(a), IsSeq(b)
  PROVE  IsSeq(a \o b)
  <1>1. PICK S, T : a \in Seq(S) /\ b \in Seq(T)
    BY DEF IsSeq
  <1>2. a \in Seq(S \cup T) /\ b \in Seq(S \cup T)
    BY <1>1
  <1>3. a \o b \in Seq(S \cup T)
    BY <1>2
  <1> QED
    BY <1>3 DEF IsSeq

\* A list begins with itself (load_session takes the saved messages as they are).
LEMMA PrefixReflexive ==
  ASSUME NEW a, IsSeq(a)
  PROVE  IsPrefix(a, a)
  BY DEF IsSeq, IsPrefix

\* Messages merged or injected at the end leave the beginning as it was.
LEMMA PrefixOfConcat ==
  ASSUME NEW a, NEW b, NEW c, IsSeq(a), IsSeq(b), IsSeq(c), IsPrefix(a, b)
  PROVE  IsPrefix(a, b \o c)
  <1>1. PICK S : a \in Seq(S) /\ b \in Seq(S) /\ c \in Seq(S)
    <2>1. PICK S, T, U : a \in Seq(S) /\ b \in Seq(T) /\ c \in Seq(U)
      BY DEF IsSeq
    <2>2. a \in Seq(S \cup T \cup U) /\ b \in Seq(S \cup T \cup U) /\ c \in Seq(S \cup T \cup U)
      BY <2>1
    <2> QED
      BY <2>2
  <1>2. /\ Len(a) \in Nat /\ Len(b) \in Nat /\ Len(c) \in Nat /\ Len(a) <= Len(b)
        /\ SubSeq(a, 1, Len(a)) = SubSeq(b, 1, Len(a))
    BY <1>1 DEF IsPrefix
  <1>3. b \o c \in Seq(S) /\ Len(b \o c) = Len(b) + Len(c)
    BY <1>1
  <1>4. \A i \in 1 .. Len(a) : (b \o c)[i] = b[i]
    BY <1>1, <1>2
  <1>5. SubSeq(b \o c, 1, Len(a)) = SubSeq(b, 1, Len(a))
    BY <1>1, <1>2, <1>3, <1>4
  <1> QED
    BY <1>2, <1>3, <1>5 DEF IsPrefix

\* The rows that load_session's successor reads are a list.
LEMMA RowsAreSeq ==
  ASSUME StampsOK, NEW n \in Nat
  PROVE  IsSeq(RowsAfter(n))
  <1> DEFINE later == {i \in n + 1 .. Len(stamps) : stamps[i] \in stored}
             rows == RowsAfter(n)
             size == Cardinality(later)
  <1>1. Len(stamps) \in Nat
    BY DEF StampsOK
  <1>2. IsFiniteSet(n + 1 .. Len(stamps))
    BY <1>1, FS_Interval
  <1>3. later \in SUBSET (n + 1 .. Len(stamps))
    OBVIOUS
  <1>4. IsFiniteSet(later)
    BY <1>2, <1>3, FS_Subset
  <1>5. size \in Nat
    BY <1>4, FS_CardinalityType
  <1>6. rows = [j \in 1 .. size |-> rows[j]]
    BY DEF RowsAfter
  <1> HIDE DEF rows, size, later
  <1>7. rows \in Seq({rows[j] : j \in 1 .. size})
    BY <1>5, <1>6
  <1> QED
    BY <1>7 DEF IsSeq, rows

\* A chat without messages, sessions or runs.
LEMMA LifecycleStart == LifecycleInit => LifecycleInv
  <1> SUFFICES ASSUME LifecycleInit PROVE LifecycleInv
    OBVIOUS
  <1>1. LockInv
    BY LockInvInit DEF LifecycleInit
  <1>2. CurrentSlot
    BY DEF LifecycleInit, Init, CurrentSlot
  <1>3. TurnInv
    BY DEF LifecycleInit, Init, TurnInv, Step, InRun, Loaded
  <1>4. SessionInv
    <2>1. IsSeq(<<>>)
      BY DEF IsSeq
    <2> QED
      BY <2>1 DEF LifecycleInit, SessionInv
  <1>5. StampsOK
    BY DEF LifecycleInit, StampsOK
  <1> QED
    BY <1>1, <1>2, <1>3, <1>4, <1>5 DEF LifecycleInv

\* A handler does nothing to the queue but what the queue's operations do.
LEMMA QueueMoves ==
  ASSUME [LifecycleNext]_allVars
  PROVE  [Next]_vars
  <1>1. ASSUME NEW m \in Msg, EnterQueue(m) PROVE Next
    <2>1. m \in Task /\ Chat \in Key /\ StartOrEnqueue(m, Chat, m)
      BY <1>1 DEF EnterQueue
    <2> QED
      BY <2>1 DEF Next, CallStep
  <1>2. ASSUME NEW t \in Task, JobArrives(t) \/ StartRerun(t) PROVE Next
    <2>1. Chat \in Key /\ Acquire(t, Chat)
      BY <1>2 DEF JobArrives, StartRerun
    <2> QED
      BY <2>1 DEF Next, CallStep
  <1>3. ASSUME NEW t \in Task, LookForFollowUps(t) \/ LookForRerun(t) PROVE Next
    <2>1. Chat \in Key /\ BeginDrain(t, Chat)
      BY <1>3 DEF LookForFollowUps, LookForRerun
    <2> QED
      BY <2>1 DEF Next, CallStep
  <1>4. ASSUME NEW t \in Task,
               QueueStep(t) \/ Queued(t) \/ BeginRun(t) \/ InjectFollowUps(t) \/ DrainForRerun(t) \/ EndRun(t)
        PROVE  Next
    <2>1. InCallStep(t) \/ TimeOut(t) \/ EndOfRun(t)
      BY <1>4 DEF QueueStep, Queued, BeginRun, InjectFollowUps, DrainForRerun, EndRun, InCallStep
    <2> QED
      BY <2>1 DEF Next
  <1>5. ASSUME \/ UNCHANGED allVars
               \/ \E m \in Msg : StampMessage(m) \/ StoreMessage(m)
               \/ \E t \in Task : \/ LoadSession(t) \/ MergeMessages(t) \/ CallModel(t) \/ ReturnUnsaved(t)
                                  \/ CapRounds(t) \/ SkipInjection(t) \/ SaveSession(t)
               \/ Reset
        PROVE  UNCHANGED vars
    BY <1>5 DEF allVars, StampMessage, StoreMessage, LoadSession, MergeMessages, CallModel, ReturnUnsaved,
                CapRounds, SkipInjection, SaveSession, Reset
  <1> QED
    BY <1>1, <1>2, <1>3, <1>4, <1>5 DEF LifecycleNext, TaskStep

\* One task goes on; a release may wake another, which is not in a run.
LEMMA TurnAt ==
  ASSUME LifecycleInv, NEW t \in Task, NEW l \in Step,
         step' = [step EXCEPT ![t] = l], barged => barged',
         \A u \in Task \ {t} : key'[u] = key[u] /\ (pc'[u] = pc[u] \/ (pc[u] = "wait" /\ pc'[u] = "touch")),
         l \in {"entering"} \cup InRun => key'[t] = Chat,
         l \in InRun => pc'[t] \in {"turn", "bare"},
         pc'[t] = "bare" => barged'
  PROVE  TurnInv'
  <1> USE DEF LifecycleInv, TurnInv
  <1>1. step' \in [Task -> Step]
    OBVIOUS
  <1>2. ASSUME NEW u \in Task, u # t
        PROVE  /\ step'[u] = step[u] /\ key'[u] = key[u]
               /\ step[u] \in InRun => pc'[u] = pc[u]
               /\ pc'[u] = "bare" => pc[u] = "bare"
    BY <1>2
  <1>3. step'[t] = l
    OBVIOUS
  <1> QED
    BY <1>1, <1>2, <1>3

\* What the lists and stamps are.
LEMMA StampsStep ==
  ASSUME LifecycleInv, [LifecycleNext]_allVars
  PROVE  StampsOK'
  <1> USE DEF LifecycleInv, StampsOK
  <1>1. CASE UNCHANGED <<stamps, since, savedAt>>
    BY <1>1
  <1>2. ASSUME NEW m \in Msg, StampMessage(m) PROVE StampsOK'
    BY <1>2 DEF StampMessage
  <1>3. ASSUME NEW t \in Task, LoadSession(t) PROVE StampsOK'
    BY <1>3 DEF LoadSession, chatVars
  <1>4. ASSUME NEW t \in Task, SaveSession(t) PROVE StampsOK'
    BY <1>4 DEF SaveSession
  <1>5. CASE UNCHANGED allVars \/ Reset \/ \E t \in Task : JobArrives(t)
    BY <1>1, <1>5 DEF allVars, chatVars, runVars, Reset, JobArrives
  <1>6. ASSUME NEW t \in Task,
               \/ (t \in Msg /\ (StoreMessage(t) \/ EnterQueue(t)))
               \/ QueueStep(t) \/ Queued(t) \/ BeginRun(t) \/ MergeMessages(t) \/ CallModel(t)
               \/ ReturnUnsaved(t) \/ CapRounds(t) \/ LookForFollowUps(t) \/ InjectFollowUps(t)
               \/ SkipInjection(t) \/ EndRun(t) \/ LookForRerun(t) \/ DrainForRerun(t) \/ StartRerun(t)
        PROVE  StampsOK'
    BY <1>1, <1>6 DEF StoreMessage, EnterQueue, QueueStep, Queued, BeginRun, MergeMessages, CallModel,
                      ReturnUnsaved, CapRounds, LookForFollowUps, InjectFollowUps, SkipInjection, EndRun,
                      LookForRerun, DrainForRerun, StartRerun, chatVars, runVars
  <1> QED
    BY <1>2, <1>3, <1>4, <1>5, <1>6 DEF LifecycleNext, TaskStep

\* Only the queue's own calls take a run to its turn, or past it.
LEMMA TurnStep ==
  ASSUME LifecycleInv, [LifecycleNext]_allVars
  PROVE  TurnInv'
  <1>1. /\ step \in [Task -> Step] /\ key \in [Task -> Key] /\ pc \in [Task -> Pc]
        /\ Msg \subseteq Task
        /\ \A t \in Task : step[t] \in {"entering"} \cup InRun => key[t] = Chat
        /\ \A t \in Task : step[t] \in InRun => pc[t] \in {"turn", "bare"}
        /\ \A t \in Task : pc[t] = "bare" => barged
    BY DEF LifecycleInv, TurnInv, LockInv, TypeOK
  <1>2. CASE UNCHANGED <<step, key, pc, barged>>
    BY <1>2 DEF LifecycleInv, TurnInv
  <1>3. CASE UNCHANGED allVars \/ Reset
    BY <1>2, <1>3 DEF allVars, vars, taskVars, runVars, Reset
  <1>4. ASSUME NEW t \in Task, NEW l \in Step, To(t, l), barged' = barged,
               UNCHANGED <<key, pc>>,
               l \in {"entering"} \cup InRun => step[t] \in InRun
        PROVE  TurnInv'
    BY <1>1, <1>4, TurnAt DEF To, InRun, Loaded
  <1>5. ASSUME NEW t \in Task, StampMessage(t) \/ StoreMessage(t) PROVE TurnInv'
    <2>1. PICK l \in {"stamped", "stored"} : To(t, l) /\ barged' = barged /\ UNCHANGED <<key, pc>>
      BY <1>5 DEF StampMessage, StoreMessage, vars, taskVars
    <2> QED
      BY <1>4, <2>1 DEF Step, InRun, Loaded
  <1>6. ASSUME NEW t \in Task, EnterQueue(t) \/ JobArrives(t) \/ StartRerun(t)
        PROVE  TurnInv'
    <2>1. /\ To(t, "entering") /\ barged' = barged /\ key' = [key EXCEPT ![t] = Chat]
          /\ pc' = [pc EXCEPT ![t] = "try"] \/ pc' = [pc EXCEPT ![t] = "acquire"]
      BY <1>6 DEF EnterQueue, JobArrives, StartRerun, StartOrEnqueue, Acquire, Goto
    <2> QED
      BY <1>1, <2>1, TurnAt, LifecycleAssumption DEF To, Step, InRun, Loaded
  <1>7. ASSUME NEW t \in Task, QueueStep(t) PROVE TurnInv'
    <2>1. /\ step[t] = "entering" /\ step' = step /\ barged' = barged /\ key' = key
          /\ \E l \in {"touch", "push", "wait"} : pc' = [pc EXCEPT ![t] = l]
      BY <1>7 DEF QueueStep, TryTurnSucceeds, TryTurnFails, LockTurn, Goto, runVars
    <2>2. step' = [step EXCEPT ![t] = "entering"]
      BY <1>1, <2>1
    <2> QED
      BY <1>1, <2>1, <2>2, TurnAt DEF Step, InRun, Loaded
  <1>8. ASSUME NEW t \in Task, Queued(t) PROVE TurnInv'
    <2>1. To(t, "done") /\ barged' = barged /\ key' = key /\ pc' = [pc EXCEPT ![t] = "out"]
      BY <1>8 DEF Queued, Push, Leave, Goto
    <2> QED
      BY <1>1, <2>1, TurnAt DEF To, Step, InRun, Loaded
  <1>9. ASSUME NEW t \in Task, BeginRun(t) PROVE TurnInv'
    <2>1. /\ step[t] = "entering" /\ To(t, "loading") /\ key' = key
          /\ \/ pc' = [pc EXCEPT ![t] = "turn"] /\ barged' = barged
             \/ pc' = [pc EXCEPT ![t] = "bare"] /\ barged' = TRUE
      BY <1>9 DEF BeginRun, Touch, TimeOut, Goto
    <2>2. key[t] = Chat /\ step' = [step EXCEPT ![t] = "loading"]
      BY <1>1, <2>1 DEF To
    <2>3. pc'[t] \in {"turn", "bare"} /\ (barged => barged') /\ (pc'[t] = "bare" => barged')
      BY <1>1, <2>1
    <2>4. \A u \in Task \ {t} : key'[u] = key[u] /\ pc'[u] = pc[u]
      BY <1>1, <2>1
    <2>5. "loading" \in Step
      BY DEF Step
    <2> QED
      BY <2>1, <2>2, <2>3, <2>4, <2>5, TurnAt
  <1>10. ASSUME NEW t \in Task,
                \/ LoadSession(t) \/ MergeMessages(t) \/ CallModel(t) \/ ReturnUnsaved(t)
                \/ CapRounds(t) \/ InjectFollowUps(t) \/ SkipInjection(t) \/ SaveSession(t)
                \/ DrainForRerun(t)
         PROVE  TurnInv'
    <2>1. PICK l \in Step : To(t, l) /\ (l \in {"entering"} \cup InRun => step[t] \in InRun)
      BY <1>10 DEF LoadSession, MergeMessages, CallModel, ReturnUnsaved, CapRounds, InjectFollowUps,
                   SkipInjection, SaveSession, DrainForRerun, Step, InRun, Loaded
    <2>2. barged' = barged /\ UNCHANGED <<key, pc>>
      BY <1>10 DEF LoadSession, MergeMessages, CallModel, ReturnUnsaved, CapRounds, InjectFollowUps,
                   SkipInjection, SaveSession, DrainForRerun, TakePending, vars, taskVars
    <2> QED
      BY <1>4, <2>1, <2>2
  <1>11. ASSUME NEW t \in Task, LookForFollowUps(t) \/ LookForRerun(t) PROVE TurnInv'
    BY <1>2, <1>11 DEF LookForFollowUps, LookForRerun, BeginDrain, runVars, queueVars
  <1>12. ASSUME NEW t \in Task, EndRun(t) PROVE TurnInv'
    <2>1. /\ \E l \in {"done", "rerun"} : To(t, l)
          /\ barged' = barged /\ key' = key
      BY <1>12 DEF EndRun, EndOfRun, Release, EndBare
    <2>2. pc'[t] = "out" /\ \A u \in Task \ {t} : pc'[u] = pc[u] \/ (pc[u] = "wait" /\ pc'[u] = "touch")
      <3>1. CASE EndBare(t)
        BY <1>1, <3>1 DEF EndBare, Goto
      <3>2. CASE Release(t)
        <4> DEFINE q == waiters[at[t]]
        <4>1. at[t] \in Slot /\ q \in Seq(Task)
          BY <3>2 DEF LifecycleInv, LockInv, TypeOK, CallRefs, Release
        <4>2. q # <<>> => 1 \in DOMAIN q /\ Head(q) = q[1]
          BY <4>1
        <4>3. q # <<>> => pc[Head(q)] = "wait"
          BY <4>1, <4>2 DEF LifecycleInv, LockInv, WaitersWait
        <4> QED
          BY <1>1, <3>2, <4>3 DEF Release
      <3> QED
        BY <1>12, <3>1, <3>2 DEF EndRun, EndOfRun
    <2> QED
      BY <1>1, <2>1, <2>2, TurnAt DEF To, Step, InRun, Loaded
  <1>13. ASSUME NEW t \in Task, TaskStep(t) PROVE TurnInv'
    BY <1>5, <1>6, <1>7, <1>8, <1>9, <1>10, <1>11, <1>12, <1>13 DEF TaskStep
  <1>14. ASSUME NEW t \in Task, JobArrives(t) PROVE TurnInv'
    BY <1>6, <1>14
  <1> QED
    BY <1>1, <1>3, <1>5, <1>13, <1>14 DEF LifecycleNext

\* Of the runs that went through the queue, one is in the chat.
LEMMA Alone ==
  ASSUME LifecycleInv, ~barged,
         NEW t \in Task, NEW u \in Task, step[t] \in InRun, step[u] \in InRun
  PROVE  t = u
  <1>1. pc[t] = "turn" /\ pc[u] = "turn" /\ key[t] = Chat /\ key[u] = Chat
    BY DEF LifecycleInv, TurnInv
  <1>2. at[t] = slots[Chat] /\ at[u] = slots[Chat] /\ at[t] \in Slot
    BY <1>1 DEF LifecycleInv, LockInv, TypeOK, CallRefs, CurrentSlot
  <1>3. holder[at[t]] = t /\ holder[at[t]] = u
    BY <1>1, <1>2 DEF LifecycleInv, LockInv, TurnLockExclusive, HasTurn
  <1> QED
    BY <1>3

\* One run's context changes, or nobody's.
LEMMA SessionAt ==
  ASSUME SessionInv, NEW t \in Task, NEW l, NEW c, IsSeq(c),
         step \in [Task -> Step], step' = [step EXCEPT ![t] = l], ctx' = [ctx EXCEPT ![t] = c],
         saved' = saved, hasSession' = hasSession, barged => barged',
         ~barged /\ hasSession /\ l \in Loaded => IsPrefix(saved, c)
  PROVE  SessionInv'
  <1> USE DEF SessionInv
  <1>1. \A u \in Task : /\ step'[u] = IF u = t THEN l ELSE step[u]
                        /\ ctx'[u] = IF u = t THEN c ELSE ctx[u]
    OBVIOUS
  <1>2. ctx' = [u \in Task |-> ctx'[u]] /\ \A u \in Task : IsSeq(ctx'[u])
    BY <1>1
  <1>3. IsSeq(saved')
    OBVIOUS
  <1>4. ASSUME ~barged', hasSession', NEW u \in Task, step'[u] \in Loaded
        PROVE  IsPrefix(saved', ctx'[u])
    BY <1>1, <1>4
  <1> QED
    BY <1>2, <1>3, <1>4

\* A context is only appended to until it is saved, and a save is made by the
\* only run that has the session in hand.
LEMMA SessionStep ==
  ASSUME LifecycleInv, [LifecycleNext]_allVars
  PROVE  SessionInv'
  <1> USE DEF LifecycleInv
  <1>1. /\ step \in [Task -> Step] /\ Msg \subseteq Task
        /\ IsSeq(saved) /\ ctx = [u \in Task |-> ctx[u]] /\ \A u \in Task : IsSeq(ctx[u])
    BY DEF TurnInv, SessionInv
  <1>2. CASE UNCHANGED <<step, ctx, saved, hasSession, barged>>
    BY <1>2 DEF SessionInv
  <1>3. CASE UNCHANGED allVars
    BY <1>2, <1>3 DEF allVars, chatVars, runVars
  <1>4. CASE Reset
    <2>1. IsSeq(<<>>)
      BY DEF IsSeq
    <2> QED
      BY <1>4, <2>1 DEF Reset, runVars, SessionInv
  <1>5. ASSUME NEW t \in Task, NEW l, To(t, l), barged => barged', UNCHANGED <<ctx, saved, hasSession>>,
               l \in Loaded => step[t] \in Loaded
        PROVE  SessionInv'
    <2>1. ctx' = [ctx EXCEPT ![t] = ctx[t]]
      BY <1>1, <1>5
    <2>2. ~barged /\ hasSession /\ l \in Loaded => IsPrefix(saved, ctx[t])
      BY <1>5 DEF SessionInv
    <2> QED
      BY <1>1, <1>5, <2>1, <2>2, SessionAt DEF To
  <1>6. ASSUME NEW t \in Task,
               \/ StampMessage(t) \/ StoreMessage(t) \/ EnterQueue(t) \/ JobArrives(t) \/ Queued(t)
               \/ BeginRun(t) \/ CallModel(t) \/ ReturnUnsaved(t) \/ CapRounds(t) \/ SkipInjection(t)
               \/ DrainForRerun(t) \/ StartRerun(t)
        PROVE  SessionInv'
    <2>1. PICK l : To(t, l) /\ (l \in Loaded => step[t] \in Loaded)
      BY <1>6 DEF StampMessage, StoreMessage, EnterQueue, JobArrives, Queued, BeginRun, CallModel,
                  ReturnUnsaved, CapRounds, SkipInjection, DrainForRerun, StartRerun, Loaded
    <2>2. (barged => barged') /\ UNCHANGED <<ctx, saved, hasSession>>
      BY <1>6 DEF StampMessage, StoreMessage, EnterQueue, JobArrives, Queued, BeginRun, CallModel,
                  ReturnUnsaved, CapRounds, SkipInjection, DrainForRerun, StartRerun, chatVars
    <2> QED
      BY <1>5, <2>1, <2>2
  <1>7. ASSUME NEW t \in Task, QueueStep(t) \/ LookForFollowUps(t) \/ LookForRerun(t) PROVE SessionInv'
    BY <1>2, <1>7 DEF QueueStep, LookForFollowUps, LookForRerun, chatVars, runVars
  <1>8. ASSUME NEW t \in Task, LoadSession(t) PROVE SessionInv'
    <2> DEFINE c == IF hasSession THEN saved ELSE <<>>
    <2>1. IsSeq(<<>>)
      BY DEF IsSeq
    <2>2. IsSeq(c) /\ (hasSession => IsPrefix(saved, c))
      BY <1>1, <2>1, PrefixReflexive
    <2>3. To(t, "merging") /\ ctx' = [ctx EXCEPT ![t] = c] /\ barged' = barged /\ UNCHANGED <<saved, hasSession>>
      BY <1>8 DEF LoadSession, chatVars
    <2> HIDE DEF c
    <2> QED
      BY <1>1, <2>2, <2>3, SessionAt DEF To
  <1>9. ASSUME NEW t \in Task, NEW more, IsSeq(more), step[t] \in Loaded, NEW l, To(t, l),
               ctx' = [ctx EXCEPT ![t] = ctx[t] \o more], barged' = barged, UNCHANGED <<saved, hasSession>>
        PROVE  SessionInv'
    <2>1. IsSeq(ctx[t] \o more)
      BY <1>1, <1>9, ConcatIsSeq
    <2>2. ~barged /\ hasSession => IsPrefix(saved, ctx[t] \o more)
      BY <1>1, <1>9, PrefixOfConcat DEF SessionInv
    <2> QED
      BY <1>1, <1>9, <2>1, <2>2, SessionAt DEF To
  <1>10. ASSUME NEW t \in Task, MergeMessages(t) PROVE SessionInv'
    <2>1. IsSeq(RowsAfter(since[t]))
      BY RowsAreSeq DEF StampsOK
    <2>2. /\ step[t] \in Loaded /\ \E l : To(t, l)
          /\ ctx' = [ctx EXCEPT ![t] = ctx[t] \o RowsAfter(since[t])]
          /\ barged' = barged /\ UNCHANGED <<saved, hasSession>>
      BY <1>1, <1>10 DEF MergeMessages, chatVars, Loaded
    <2> QED
      BY <1>9, <2>1, <2>2
  <1>11. ASSUME NEW t \in Task, InjectFollowUps(t) PROVE SessionInv'
    <2>1. IsSeq(pending[drain[t]])
      BY <1>11 DEF InjectFollowUps, TakePending, LockInv, TypeOK, IsSeq
    <2>2. /\ step[t] \in Loaded /\ \E l : To(t, l)
          /\ ctx' = [ctx EXCEPT ![t] = ctx[t] \o pending[drain[t]]]
          /\ barged' = barged /\ UNCHANGED <<saved, hasSession>>
      BY <1>1, <1>11 DEF InjectFollowUps, chatVars, Loaded
    <2> QED
      BY <1>9, <2>1, <2>2
  <1>12. ASSUME NEW t \in Task, EndRun(t) PROVE SessionInv'
    <2>1. IsSeq(<<>>)
      BY DEF IsSeq
    <2>2. /\ \E l \in {"done", "rerun"} : To(t, l)
          /\ ctx' = [ctx EXCEPT ![t] = <<>>] /\ barged' = barged /\ UNCHANGED <<saved, hasSession>>
      BY <1>12 DEF EndRun, chatVars
    <2> QED
      BY <1>1, <2>1, <2>2, SessionAt DEF To, Loaded
  <1>13. ASSUME NEW t \in Task, SaveSession(t) PROVE SessionInv'
    <2>1. /\ step[t] = "saving" /\ step' = [step EXCEPT ![t] = "returning"] /\ saved' = ctx[t]
          /\ barged' = barged /\ ctx' = ctx
      BY <1>13 DEF SaveSession, To
    <2>2. ~barged => \A u \in Task : step[u] \in Loaded => u = t
      BY <2>1, Alone DEF InRun, Loaded
    <2>3. ~barged => \A u \in Task : step'[u] \notin Loaded
      BY <1>1, <2>1, <2>2 DEF Loaded
    <2> QED
      BY <1>1, <2>1, <2>3 DEF SessionInv
  <1>14. ASSUME NEW t \in Task, TaskStep(t) PROVE SessionInv'
    BY <1>6, <1>7, <1>8, <1>10, <1>11, <1>12, <1>13, <1>14 DEF TaskStep
  <1> QED
    BY <1>1, <1>3, <1>4, <1>6, <1>14 DEF LifecycleNext

\* Queue, runs and session together: every step keeps the invariant.
LEMMA LifecycleStep ==
  ASSUME CleanupAbove >= Cardinality(Key), LifecycleInv, [LifecycleNext]_allVars
  PROVE  LifecycleInv'
  <1>1. [Next]_vars
    BY QueueMoves
  <1> QED
    BY <1>1, LockInvNext, CurrentSlotNext, TurnStep, SessionStep, StampsStep DEF LifecycleInv

\* As long as cleanup never starts, whoever is in a run without having given
\* up on the turn is alone in the chat, and what it has in hand begins with
\* what is saved: whatever arrives, is injected, rerun or reset meanwhile.
THEOREM LifecycleInvariant ==
  ASSUME CleanupAbove >= Cardinality(Key)
  PROVE  LifecycleSpec => []LifecycleInv
  <1>1. CleanupAbove >= Cardinality(Key)
    OBVIOUS
  <1>2. LifecycleInv /\ [LifecycleNext]_allVars => LifecycleInv'
    BY <1>1, LifecycleStep
  <1> QED
    BY <1>2, LifecycleStart, PTL DEF LifecycleSpec

\* No run overwrites what another run has saved: the statement that replaces
\* the session's row (agent_engine.rs:486-505) has no condition, the queue
\* alone makes every save extend the one before.
THEOREM SavesExtend ==
  ASSUME CleanupAbove >= Cardinality(Key)
  PROVE  LifecycleSpec => NoLostUpdate
  <1>1. LifecycleInv /\ [LifecycleNext]_allVars => [hasSession /\ hasSession' /\ ~barged => IsPrefix(saved, saved')]_allVars
    <2> SUFFICES ASSUME LifecycleInv, [LifecycleNext]_allVars, hasSession, hasSession', ~barged
                 PROVE  IsPrefix(saved, saved')
      OBVIOUS
    <2>1. CASE saved' = saved
      BY <2>1, PrefixReflexive DEF LifecycleInv, SessionInv
    <2>2. ASSUME NEW t \in Task, SaveSession(t) PROVE IsPrefix(saved, saved')
      BY <2>2 DEF SaveSession, LifecycleInv, SessionInv, Loaded
    <2>3. saved' = saved \/ \E t \in Task : SaveSession(t)
      BY DEF LifecycleNext, TaskStep, allVars, chatVars, runVars, Reset, StampMessage, StoreMessage, EnterQueue,
             JobArrives, QueueStep, Queued, BeginRun, LoadSession, MergeMessages, CallModel, ReturnUnsaved,
             CapRounds, LookForFollowUps, InjectFollowUps, SkipInjection, EndRun, LookForRerun, DrainForRerun,
             StartRerun
    <2> QED
      BY <2>1, <2>2, <2>3
  <1> QED
    BY <1>1, LifecycleInvariant, PTL DEF LifecycleSpec, NoLostUpdate

=============================================================================
