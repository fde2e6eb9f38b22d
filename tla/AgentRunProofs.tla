--------------------------- MODULE AgentRunProofs ----------------------------
(***************************************************************************)
(* Proofs about one agent run.  RunControl, for any number of chats, runs  *)
(* and stops: what keeps the properties is that abort_runs takes the runs  *)
(* of a chat out of the registry in one step, so that a run that one stop  *)
(* has taken is in nobody else's reach, and whatever is done to it has one *)
(* cause.  RunStream, for any number of clients and events: the history is *)
(* the newest events without a gap, and what is left of a client's replay  *)
(* ends where its receiver begins.  ToolWaves, for any number of calls and *)
(* any classes of tools: the waves to come are in order and apart, and     *)
(* what was started comes before what is still to come of its class.  At   *)
(* the end, all the parts of MCAgentRun together.                          *)
(***************************************************************************)
EXTENDS MCAgentRun, RemoteCallsProofs, FiniteSetTheorems, SequenceTheorems, WellFoundedInduction, TLAPS

USE RunControlAssumption

\* Who has begun has a chat, and a run is registered under its own chat and
\* only while it is not over.
Placed ==
    /\ \A r \in Run : progress[r] # "idle" => chat[r] \in Chat
    /\ \A s \in Stop : stop[s] # "idle" => chat[s] \in Chat
    /\ \A c \in Chat : \A r \in registry[c] :
          chat[r] = c /\ progress[r] \in {"running", "ending", "dropped"}

\* A stop takes runs of its own chat, which are registered no more, and no run
\* is taken twice.
TakenOnce ==
    /\ \A s \in Stop : stop[s] \in {"idle", "issued"} => took[s] = {}
    /\ \A s \in Stop : \A r \in took[s] :
          chat[r] = chat[s] /\ progress[r] # "idle" /\ r \notin registry[chat[r]]
    /\ \A s, z \in Stop : s # z => took[s] \cap took[z] = {}

\* A flag, a wake-up and an early end come from a stop that has taken the run.
Caused ==
    /\ \A s \in Stop : left[s] \subseteq took[s]
    /\ \A r \in Run : cancelled[r] \/ woken[r] \/ r \in stopped => Taken(r)

ControlInv == ControlTypeOK /\ Placed /\ TakenOnce /\ Caused /\ StoppableWhileRunning

\* The registry starts empty.
LEMMA ControlInitially == ControlInit => ControlInv
  BY DEF ControlInit, ControlInv, ControlTypeOK, Placed, TakenOnce, Caused,
         StoppableWhileRunning, Active, Taken, Party

\* register_run: the run is new, so no stop has it.
LEMMA RegisterPreserves ==
  ASSUME ControlInv, NEW r \in Run, NEW c \in Chat, Register(r, c)
  PROVE  ControlInv'
  <1> USE DEF ControlInv, Register, stopVars
  <1>1. ControlTypeOK'
    BY DEF ControlTypeOK, Party
  <1>2. Placed'
    BY DEF ControlTypeOK, Placed, Party
  <1>3. TakenOnce'
    BY DEF ControlTypeOK, Placed, TakenOnce, Party
  <1>4. Caused'
    BY DEF ControlTypeOK, Caused, Taken
  <1>5. StoppableWhileRunning'
    BY DEF ControlTypeOK, Placed, StoppableWhileRunning, Active, Taken, Party
  <1> QED
    BY <1>1, <1>2, <1>3, <1>4, <1>5

\* A run that looks at its flag, waits, is woken, finishes or is dropped moves
\* itself only, and ends early only with a cause.
LEMMA RunMovesPreserve ==
  ASSUME ControlInv, NEW r \in Run,
         CheckFlag(r) \/ AwaitNotify(r) \/ Woken(r) \/ Finish(r) \/ Drop(r)
  PROVE  ControlInv'
  <1> USE DEF ControlInv, CheckFlag, AwaitNotify, Woken, Finish, Drop, EndStopped, stopVars
  <1>1. ControlTypeOK'
    BY DEF ControlTypeOK, Active
  <1>2. Placed'
    BY DEF ControlTypeOK, Placed, Active
  <1>3. TakenOnce'
    BY DEF ControlTypeOK, TakenOnce, Active
  <1>4. Caused'
    BY DEF ControlTypeOK, Caused, Taken
  <1>5. StoppableWhileRunning'
    BY DEF ControlTypeOK, StoppableWhileRunning, Active, Taken
  <1> QED
    BY <1>1, <1>2, <1>3, <1>4, <1>5

\* unregister_run removes the run that ends and no other.
LEMMA UnregisterPreserves ==
  ASSUME ControlInv, NEW r \in Run, Unregister(r)
  PROVE  ControlInv'
  <1> USE DEF ControlInv, Unregister, stopVars
  <1>1. ControlTypeOK'
    BY DEF ControlTypeOK, Placed
  <1>2. Placed'
    BY DEF ControlTypeOK, Placed
  <1>3. TakenOnce'
    BY DEF ControlTypeOK, Placed, TakenOnce
  <1>4. Caused'
    BY DEF ControlTypeOK, Caused, Taken
  <1>5. StoppableWhileRunning'
    BY DEF ControlTypeOK, Placed, StoppableWhileRunning, Active, Taken
  <1> QED
    BY <1>1, <1>2, <1>3, <1>4, <1>5

\* A stop command begins: it has taken nothing yet.
LEMMA IssuePreserves ==
  ASSUME ControlInv, NEW s \in Stop, NEW c \in Chat, Issue(s, c)
  PROVE  ControlInv'
  <1> USE DEF ControlInv, Issue, controlRunVars
  <1>1. ControlTypeOK'
    BY DEF ControlTypeOK, Party
  <1>2. Placed'
    BY DEF ControlTypeOK, Placed, Party
  <1>3. TakenOnce'
    BY DEF ControlTypeOK, TakenOnce, Party
  <1>4. Caused'
    BY DEF ControlTypeOK, Caused, Taken
  <1>5. StoppableWhileRunning'
    BY DEF ControlTypeOK, StoppableWhileRunning, Active, Taken, Party
  <1> QED
    BY <1>1, <1>2, <1>3, <1>4, <1>5

\* abort_runs empties the chat's entry and has all that was in it: what it takes
\* no other stop has, since that one's runs are not registered.
LEMMA TakeRunsPreserves ==
  ASSUME ControlInv, NEW s \in Stop, TakeRuns(s)
  PROVE  ControlInv'
  <1> USE DEF ControlInv, TakeRuns, controlRunVars
  <1>0. /\ chat[s] \in Chat /\ registry[chat[s]] \subseteq Run /\ took[s] = {}
        /\ took'[s] = registry[chat[s]] /\ registry'[chat[s]] = {}
        /\ \A z \in Stop : z # s => took'[z] = took[z]
        /\ \A c \in Chat : c # chat[s] => registry'[c] = registry[c]
    BY DEF ControlTypeOK, Placed, TakenOnce
  <1>1. ControlTypeOK'
    BY <1>0 DEF ControlTypeOK
  <1>2. Placed'
    BY <1>0 DEF ControlTypeOK, Placed
  <1>3. TakenOnce'
    BY <1>0 DEF ControlTypeOK, Placed, TakenOnce
  <1>4. Caused'
    BY <1>0 DEF ControlTypeOK, Caused, Taken
  <1>5. StoppableWhileRunning'
    BY <1>0 DEF ControlTypeOK, Placed, StoppableWhileRunning, Active, Taken
  <1> QED
    BY <1>1, <1>2, <1>3, <1>4, <1>5

\* The rest of abort_runs disturbs only what it has taken.
LEMMA FirePreserves ==
  ASSUME ControlInv, NEW s \in Stop,
         RecordSources(s) \/ \E r \in Run : SetFlag(s, r) \/ NotifyRun(s, r)
  PROVE  ControlInv'
  <1> USE DEF ControlInv, RecordSources, SetFlag, NotifyRun, stopVars, controlRunVars
  <1>1. ControlTypeOK'
    <2>1. CASE RecordSources(s)
      BY <2>1 DEF ControlTypeOK
    <2>2. ASSUME NEW r \in Run, SetFlag(s, r) PROVE ControlTypeOK'
      BY <2>2 DEF ControlTypeOK
    <2>3. ASSUME NEW r \in Run, NotifyRun(s, r) PROVE ControlTypeOK'
      <3>1. (woken[r] \/ watch[r] = "waiting") \in BOOLEAN /\ woken \in [Run -> BOOLEAN]
        BY Zenon DEF ControlTypeOK
      <3>2. woken' \in [Run -> BOOLEAN]
        BY <2>3, <3>1, Zenon
      <3> QED
        BY <2>3, <3>2 DEF ControlTypeOK
    <2> QED
      BY <2>1, <2>2, <2>3
  <1>2. Placed'
    BY DEF ControlTypeOK, Placed
  <1>3. TakenOnce'
    BY DEF ControlTypeOK, TakenOnce
  <1>4. Caused'
    BY DEF ControlTypeOK, Caused, Taken
  <1>5. StoppableWhileRunning'
    BY DEF ControlTypeOK, StoppableWhileRunning, Active, Taken
  <1> QED
    BY <1>1, <1>2, <1>3, <1>4, <1>5

\* Every step of the registry and of the runs around it keeps the invariant.
LEMMA ControlStep == ControlInv /\ [ControlNext]_controlVars => ControlInv'
  <1> SUFFICES ASSUME ControlInv, [ControlNext]_controlVars PROVE ControlInv'
    OBVIOUS
  <1>1. CASE UNCHANGED controlVars
    BY <1>1 DEF controlVars, controlRunVars, stopVars, ControlInv, ControlTypeOK, Placed,
                TakenOnce, Caused, StoppableWhileRunning, Active, Taken
  <1>2. CASE \E r \in Run, c \in Chat : Register(r, c)
    BY <1>2, RegisterPreserves
  <1>3. CASE \E r \in Run : CheckFlag(r) \/ AwaitNotify(r) \/ Woken(r) \/ Finish(r) \/ Drop(r)
    BY <1>3, RunMovesPreserve
  <1>4. CASE \E r \in Run : Unregister(r)
    BY <1>4, UnregisterPreserves
  <1>5. CASE \E s \in Stop, c \in Chat : Issue(s, c)
    BY <1>5, IssuePreserves
  <1>6. CASE \E s \in Stop : TakeRuns(s)
    BY <1>6, TakeRunsPreserves
  <1>7. CASE \E s \in Stop : RecordSources(s) \/ \E r \in Run : SetFlag(s, r) \/ NotifyRun(s, r)
    BY <1>7, FirePreserves
  <1> QED
    BY <1>1, <1>2, <1>3, <1>4, <1>5, <1>6, <1>7 DEF ControlNext, PollRun, StopStep

\* The types of the registry, and the causes of every flag and wake-up, for any
\* number of chats, runs and stops.
THEOREM ControlInvariant == ControlSpec => []ControlInv
  <1>1. ControlInit => ControlInv
    BY ControlInitially
  <1>2. ControlInv /\ [ControlNext]_controlVars => ControlInv'
    BY ControlStep
  <1> QED
    BY <1>1, <1>2, PTL DEF ControlSpec

\* A run can be stopped for as long as it lasts (unregister_run removes no
\* other run, and a stop takes none it does not go on to notify).
THEOREM RunsAreStoppable == ControlSpec => []StoppableWhileRunning
  <1>1. ControlInv => StoppableWhileRunning
    BY DEF ControlInv
  <1> QED
    BY <1>1, ControlInvariant, PTL

\* No run that is over stays registered, unless its future was dropped.
THEOREM RegistryIsCurrent == ControlSpec => []NoneLeftBehind
  <1>1. ControlInv => NoneLeftBehind
    BY DEF ControlInv, Placed, NoneLeftBehind, Active
  <1> QED
    BY <1>1, ControlInvariant, PTL

\* A run that was stopped was taken by a stop of its own chat, and by one only:
\* the counts that the replies of /stop give never count a run twice.
THEOREM StopsHitTheirOwn == ControlSpec => []StopsAreExact
  <1>1. ControlInv => StopsAreExact
    BY DEF ControlInv, ControlTypeOK, TakenOnce, Caused, StopsAreExact, Taken
  <1> QED
    BY <1>1, ControlInvariant, PTL

\* Together: what stops find and report is right in every state.
THEOREM RegistryIsExact == ControlSpec => []RegistryExact
  <1>1. StoppableWhileRunning /\ NoneLeftBehind /\ StopsAreExact => RegistryExact
    BY DEF RegistryExact
  <1> QED
    BY <1>1, RunsAreStoppable, RegistryIsCurrent, StopsHitTheirOwn, PTL

-----------------------------------------------------------------------------
(* The streams of a run: any number of clients and of events.               *)

HIDE RunControlAssumption

Outcomes == {i \in 1 .. Published : kind[i] \in Terminal}
Deltas(i) == {j \in 1 .. i : kind[j] = "delta"}

\* The history is the newest events, without a gap.
HistoryInv ==
    /\ Len(history) <= Published /\ (Published > 0 => history # <<>>)
    /\ \A i \in 1 .. Len(history) : history[i] = Published - Len(history) + i

\* The outcome is the worker's, and it publishes it when it has finished.
OutcomeInv ==
    /\ worker \in {"waiting", "running", "panicked"} <=> Outcomes = {}
    /\ done => Outcomes # {}
    /\ worker # "ended" => present

\* A delta is in the abort buffer before it is published.
BufferInv == Cardinality(Deltas(Published)) + (IF forwarder = "buffered" THEN 1 ELSE 0) <= buffer

\* The ids up to e, e not included.
EndsBefore(s, e) == \A i \in 1 .. Len(s) : s[i] = e - Len(s) + (i - 1)

\* What is left of a replay ends where the receiver begins, and begins after
\* the last event received: at the next one, if there was no gap to report.
JoinInv ==
    \A c \in Client : conn[c] \in {"replaying", "live"} =>
        /\ conn[c] = "live" => replay[c] = <<>>
        /\ last[c] + Len(replay[c]) < next[c]
        /\ EndsBefore(replay[c], next[c])
        /\ \/ excused[c]
           \/ next[c] = last[c] + Len(replay[c]) + 1
           \/ last[c] = 0 /\ replay[c] # <<>>

\* An outcome that a client has been told, will be told by its replay, or
\* cannot be told because the history has lost it.
Told(c) ==
    \E i \in Outcomes : \/ i <= last[c]
                        \/ i < history[1]
                        \/ replay[c] # <<>> /\ replay[c][1] <= i /\ i < next[c]

ToldInv == \A c \in Client : conn[c] = "replaying" /\ doneAtStart[c] => Told(c)

StreamInv ==
    /\ StreamTypeOK /\ HistoryInv /\ OutcomeInv /\ BufferInv /\ JoinInv /\ ToldInv
    /\ OutcomeIsRight

\* What the kinds of the events and the clients are made of.
ClientTypeOK ==
    /\ conn \in [Client -> {"off", "replaying", "live", "over", "gone"}]
    /\ replay \in [Client -> Seq(1 .. Published)]
    /\ doneAtStart \in [Client -> BOOLEAN]
    /\ next \in [Client -> 1 .. Published + 1]
    /\ last \in [Client -> 0 .. Published]
    /\ excused \in [Client -> BOOLEAN]

EventKinds == {"delta", "status"} \cup Terminal

\* Nothing has been published and nobody listens.
LEMMA StreamInitially == StreamInit => StreamInv
  <1> SUFFICES ASSUME StreamInit PROVE StreamInv
    OBVIOUS
  <1>1. Published = 0 /\ 1 .. Published = {} /\ kind = <<>> /\ history = <<>>
    BY DEF StreamInit, Published
  <1>2. Outcomes = {} /\ Deltas(Published) = {}
    BY <1>1 DEF Outcomes, Deltas
  <1>3. StreamTypeOK
    <2>1. /\ worker = "waiting" /\ agentQueue = <<>> /\ emitted = 0 /\ forwarder = "none"
          /\ buffer = 0 /\ partial = 0 /\ present = TRUE /\ done = FALSE
          /\ conn = [c \in Client |-> "off"] /\ replay = [c \in Client |-> <<>>]
          /\ doneAtStart = [c \in Client |-> FALSE] /\ next = [c \in Client |-> 1]
          /\ last = [c \in Client |-> 0] /\ excused = [c \in Client |-> FALSE]
      BY DEF StreamInit
    <2>2. MaxAgentEvents \in Nat /\ HistoryLimit \in Nat /\ 0 \in 0 .. MaxAgentEvents
      BY StreamAssumption
    <2>3. \A T : <<>> \in Seq(T)
      BY EmptySeq
    <2>4. replay \in [Client -> Seq(1 .. Published)]
      BY <2>1, <2>3
    <2>5. next \in [Client -> 1 .. Published + 1] /\ last \in [Client -> 0 .. Published]
      BY <2>1, <1>1
    <2>6. Len(history) <= HistoryLimit
      BY <1>1, <2>2
    <2> QED
      BY <1>1, <2>1, <2>2, <2>3, <2>4, <2>5, <2>6 DEF StreamTypeOK
  <1>4. HistoryInv /\ OutcomeInv
    BY <1>1, <1>2 DEF StreamInit, HistoryInv, OutcomeInv
  <1>5. BufferInv
    BY <1>2, FS_EmptySet DEF StreamInit, BufferInv
  <1>6. JoinInv /\ ToldInv /\ EndedStreamsToldOutcome
    BY DEF StreamInit, JoinInv, ToldInv, EndedStreamsToldOutcome
  <1>7. OneOutcome /\ AbortedTextCovers
    BY <1>1 DEF OneOutcome, AbortedTextCovers
  <1> QED
    BY <1>3, <1>4, <1>5, <1>6, <1>7 DEF StreamInv, OutcomeIsRight

\* The history after one more event is remembered.
LEMMA RememberedIs ==
  ASSUME HistoryInv, history \in Seq(1 .. Published), Len(history) <= HistoryLimit,
         Published \in Nat, Published' = Published + 1,
         history' = Remembered(history, Published + 1)
  PROVE  /\ history' \in Seq(1 .. Published') /\ Len(history') <= HistoryLimit
         /\ HistoryInv'
         /\ Published > 0 => history[1] <= history'[1]
  <1> DEFINE h == history
             p == Published
             g == IF Len(h) >= HistoryLimit THEN Tail(h) ELSE h
  <1>1. /\ HistoryLimit \in Nat \ {0} /\ p \in Nat
        /\ h \in Seq(1 .. p) /\ Len(h) \in Nat /\ Len(h) <= HistoryLimit
        /\ Len(h) <= p /\ (p > 0 => h # <<>>)
        /\ \A i \in 1 .. Len(h) : h[i] = p - Len(h) + i
    BY StreamAssumption, LenProperties DEF HistoryInv
  <1>2. /\ Len(h) >= HistoryLimit => g = Tail(h)
        /\ ~(Len(h) >= HistoryLimit) => g = h
    OBVIOUS
  <1>3. history' = Append(g, p + 1)
    BY DEF Remembered
  <1> HIDE DEF g
  <1>4. g \in Seq(1 .. p) /\ Len(g) < HistoryLimit /\ Len(g) <= p /\ Len(g) <= Len(h)
        /\ \A i \in 1 .. Len(g) : g[i] = p - Len(g) + i
    <2>1. CASE Len(h) >= HistoryLimit
      <3>1. h # <<>> /\ g = Tail(h) /\ Len(h) = HistoryLimit
        BY <1>1, <1>2, <2>1, EmptySeq
      <3>2. /\ g \in Seq(1 .. p) /\ Len(g) = Len(h) - 1
            /\ \A i \in 1 .. Len(g) : g[i] = h[i + 1]
        BY <3>1, <1>1, HeadTailProperties
      <3>3. \A i \in 1 .. Len(g) : g[i] = p - Len(h) + (i + 1)
        BY <3>2, <1>1
      <3>4. Len(g) < HistoryLimit /\ Len(g) <= p /\ Len(g) <= Len(h)
        BY <3>1, <3>2, <1>1
      <3>5. \A i \in 1 .. Len(g) : g[i] = p - Len(g) + i
        BY <3>2, <3>3, <1>1
      <3> QED
        BY <3>2, <3>4, <3>5
    <2>2. CASE ~(Len(h) >= HistoryLimit)
      BY <1>1, <1>2, <2>2
    <2> QED
      BY <2>1, <2>2
  <1>5. g \in Seq(1 .. p + 1) /\ p + 1 \in 1 .. p + 1 /\ Len(g) \in Nat
    BY <1>1, <1>4, LenProperties
  <1>6. /\ history' \in Seq(1 .. p + 1) /\ history' # <<>> /\ Len(history') = Len(g) + 1
        /\ \A i \in 1 .. Len(g) : history'[i] = g[i]
        /\ history'[Len(g) + 1] = p + 1
    <2>1. /\ Append(g, p + 1) \in Seq(1 .. p + 1) /\ Append(g, p + 1) # <<>>
          /\ Len(Append(g, p + 1)) = Len(g) + 1
          /\ \A i \in 1 .. Len(g) : Append(g, p + 1)[i] = g[i]
          /\ Append(g, p + 1)[Len(g) + 1] = p + 1
      BY ONLY <1>5, AppendProperties
    <2>2. history' \in Seq(1 .. p + 1)
      BY ONLY <1>3, <2>1, Zenon
    <2>3. Len(history') = Len(g) + 1
      BY ONLY <1>3, <2>1
    <2>4. \A i \in 1 .. Len(g) : history'[i] = g[i]
      BY ONLY <1>3, <2>1
    <2>5. history'[Len(g) + 1] = p + 1
      BY ONLY <1>3, <2>1
    <2>6. history' # <<>>
      BY <2>3, <1>5, EmptySeq
    <2> QED
      BY ONLY <2>2, <2>3, <2>4, <2>5, <2>6
  <1>7. \A i \in 1 .. Len(history') : history'[i] = p + 1 - Len(history') + i
    <2> SUFFICES ASSUME NEW i \in 1 .. Len(history')
                 PROVE  history'[i] = p + 1 - Len(history') + i
      OBVIOUS
    <2>1. CASE i \in 1 .. Len(g)
      <3>1. history'[i] = p - Len(g) + i
        BY <2>1, <1>4, <1>6
      <3> QED
        BY ONLY <3>1, <1>1, <1>5, <1>6, <2>1
    <2>2. CASE i = Len(g) + 1
      BY <2>2, <1>1, <1>5, <1>6
    <2> QED
      BY <2>1, <2>2, <1>5, <1>6
  <1>8. Len(history') <= p + 1 /\ Len(history') <= HistoryLimit
    BY <1>1, <1>4, <1>5, <1>6
  <1>9. p > 0 => history[1] <= history'[1]
    <2> SUFFICES ASSUME p > 0 PROVE history[1] <= history'[1]
      OBVIOUS
    <2>1. 1 \in 1 .. Len(h) /\ 1 \in 1 .. Len(history')
      BY <1>1, <1>5, <1>6, EmptySeq
    <2>2. h[1] = p - Len(h) + 1 /\ history'[1] = p + 1 - (Len(g) + 1) + 1
      BY <2>1, <1>1, <1>6, <1>7
    <2> QED
      BY <2>2, <1>1, <1>4, <1>5
  <1> QED
    BY <1>6, <1>7, <1>8, <1>9 DEF HistoryInv

\* What every publishing leaves behind.
LEMMA PublishIs ==
  ASSUME StreamInv, NEW k \in EventKinds, Publish(k)
  PROVE  /\ kind' \in Seq(EventKinds) /\ Published \in Nat /\ Published' \in Nat
         /\ Published <= Published' /\ \A i \in 1 .. Published : kind'[i] = kind[i]
         /\ IF present THEN Published' = Published + 1 /\ kind'[Published'] = k
                       ELSE kind' = kind /\ Published' = Published
         /\ history' \in Seq(1 .. Published') /\ Len(history') <= HistoryLimit
         /\ HistoryInv'
         /\ Published > 0 => history[1] <= history'[1]
         /\ done' \in BOOLEAN /\ (done' => done \/ (present /\ k \in Terminal))
         /\ present' = present
  <1>1. /\ kind \in Seq(EventKinds) /\ history \in Seq(1 .. Published) /\ Len(history) <= HistoryLimit
        /\ HistoryInv /\ present \in BOOLEAN /\ done \in BOOLEAN
    BY DEF StreamInv, StreamTypeOK, EventKinds
  <1>2. Published = Len(kind) /\ Published \in Nat /\ Published' = Len(kind')
    BY <1>1, LenProperties DEF Published
  <1>3. CASE present
    <2>1. /\ kind' = Append(kind, k) /\ history' = Remembered(history, Published + 1)
          /\ done' = (done \/ k \in Terminal) /\ present' = present
      BY <1>3 DEF Publish
    <2>2. /\ kind' \in Seq(EventKinds) /\ Published' = Published + 1
          /\ \A i \in 1 .. Published : kind'[i] = kind[i]
          /\ kind'[Published + 1] = k
      BY <2>1, <1>1, <1>2, AppendProperties
    <2>3. /\ history' \in Seq(1 .. Published') /\ Len(history') <= HistoryLimit
          /\ HistoryInv'
          /\ Published > 0 => history[1] <= history'[1]
      <3>1. history' = Remembered(history, Published + 1) /\ Published' = Published + 1
        BY <2>1, <2>2
      <3> QED
        BY <1>1, <1>2, <3>1, RememberedIs
    <2>7. done' \in BOOLEAN /\ (done' => done \/ (present /\ k \in Terminal))
      BY <1>1, <1>3, <2>1
    <2>8. Published <= Published' /\ Published' \in Nat
      BY <1>2, <2>2
    <2> QED
      BY ONLY <1>2, <1>3, <2>1, <2>2, <2>3, <2>7, <2>8
  <1>4. CASE ~present
    <2>1. kind' = kind /\ history' = history /\ done' = done /\ present' = present
      BY <1>4 DEF Publish
    <2>2. Published' = Published /\ HistoryInv'
      BY <2>1, <1>1 DEF HistoryInv, Published
    <2>3. Published > 0 => history[1] <= history'[1]
      <3>1. Published > 0 => 1 \in 1 .. Len(history) /\ Len(history) \in Nat
        BY <1>1, LenProperties, EmptySeq DEF HistoryInv
      <3>2. Published > 0 => history[1] = Published - Len(history) + 1
        BY <1>1, <3>1 DEF HistoryInv
      <3> QED
        BY <2>1, <3>1, <3>2, <1>2
    <2>4. Published <= Published' /\ Published' \in Nat
      BY <1>2, <2>2
    <2> QED
      BY ONLY <1>1, <1>2, <1>4, <2>1, <2>2, <2>3, <2>4
  <1> QED
    BY <1>3, <1>4, <1>1

\* A publishing is nothing to a client until it receives the event: what it
\* has had, has before it and can still be told stays.
LEMMA ClientsKeep ==
  ASSUME StreamInv, NEW k \in EventKinds, Publish(k)
  PROVE  ClientTypeOK' /\ JoinInv' /\ ToldInv' /\ EndedStreamsToldOutcome'
  <1>1. UNCHANGED clientVars
    BY DEF Publish
  <1>2. /\ Published \in Nat /\ Published' \in Nat /\ Published <= Published'
        /\ \A i \in 1 .. Published : kind'[i] = kind[i]
        /\ Published > 0 => history[1] <= history'[1]
        /\ history \in Seq(1 .. Published) /\ history' \in Seq(1 .. Published')
        /\ HistoryInv /\ HistoryInv'
    BY PublishIs DEF StreamInv, StreamTypeOK
  <1>3. /\ conn' = conn /\ replay' = replay /\ doneAtStart' = doneAtStart
        /\ next' = next /\ last' = last /\ excused' = excused
    BY <1>1 DEF clientVars
  <1>4. ClientTypeOK'
    <2>1. /\ 1 .. Published \subseteq 1 .. Published'
          /\ 1 .. Published + 1 \subseteq 1 .. Published' + 1
          /\ 0 .. Published \subseteq 0 .. Published'
      <3>1. Published \in Nat /\ Published' \in Nat /\ Published <= Published'
        BY <1>2
      <3>2. \A i : /\ i \in 1 .. Published => i \in 1 .. Published'
                   /\ i \in 1 .. Published + 1 => i \in 1 .. Published' + 1
                   /\ i \in 0 .. Published => i \in 0 .. Published'
        BY ONLY <3>1
      <3> QED
        BY ONLY <3>2, Zenon
    <2>2. Seq(1 .. Published) \subseteq Seq(1 .. Published')
      <3>1. ASSUME NEW q \in Seq(1 .. Published) PROVE q \in Seq(1 .. Published')
        BY <2>1, SeqMonotonic
      <3> QED
        BY ONLY <3>1
    <2>3. ClientTypeOK
      BY DEF StreamInv, StreamTypeOK, ClientTypeOK
    <2>4. replay' \in [Client -> Seq(1 .. Published')]
      <3> DEFINE A == Seq(1 .. Published)
                 B == Seq(1 .. Published')
      <3>1. replay' = replay /\ replay \in [Client -> A] /\ A \subseteq B
        BY <2>2, <2>3, <1>3 DEF ClientTypeOK
      <3> HIDE DEF A, B
      <3>2. replay' \in [Client -> B]
        BY ONLY <3>1
      <3> QED
        BY <3>2 DEF B
    <2>5. next' \in [Client -> 1 .. Published' + 1] /\ last' \in [Client -> 0 .. Published']
      BY ONLY <2>1, <2>3, <1>3 DEF ClientTypeOK
    <2> QED
      BY ONLY <2>3, <2>4, <2>5, <1>3 DEF ClientTypeOK
  <1>5. JoinInv'
    BY <1>3 DEF StreamInv, JoinInv
  <1>6. Outcomes \subseteq Outcomes'
    BY <1>2 DEF Outcomes
  <1>7. \A i \in Outcomes : i \in Nat /\ Published > 0
    BY <1>2 DEF Outcomes
  <1>8. Published > 0 => history[1] \in Nat /\ history'[1] \in Nat
    <2>1. ASSUME Published > 0 PROVE history # <<>> /\ history' # <<>>
      BY <1>2, <2>1 DEF HistoryInv
    <2>2. ASSUME Published > 0 PROVE 1 \in 1 .. Len(history) /\ 1 \in 1 .. Len(history')
      BY <2>1, <2>2, <1>2, EmptySeq, LenProperties
    <2>3. history \in [1 .. Len(history) -> 1 .. Published]
          /\ history' \in [1 .. Len(history') -> 1 .. Published']
      BY <1>2, LenProperties
    <2> QED
      BY <2>2, <2>3, <1>2
  <1>9. ASSUME NEW c \in Client, Told(c) PROVE Told(c)'
    <2>1. PICK i \in Outcomes : \/ i <= last[c]
                                \/ i < history[1]
                                \/ replay[c] # <<>> /\ replay[c][1] <= i /\ i < next[c]
      BY <1>9 DEF Told
    <2>2. i \in Outcomes' /\ (i < history[1] => i < history'[1])
      BY <2>1, <1>2, <1>6, <1>7, <1>8
    <2> QED
      BY <2>1, <2>2, <1>3 DEF Told
  <1>10. ToldInv'
    BY <1>3, <1>9 DEF StreamInv, ToldInv
  <1>11. EndedStreamsToldOutcome'
    <2> SUFFICES ASSUME NEW c \in Client, conn'[c] = "over",
                        ~ \E i \in 1 .. last'[c] : kind'[i] \in Terminal, ~ excused'[c]
                 PROVE  \E i \in 1 .. Published' : kind'[i] \in Terminal /\ i < Head(history')
      BY DEF EndedStreamsToldOutcome
    <2>1. last[c] \in 0 .. Published
      BY DEF StreamInv, StreamTypeOK
    <2>2. ~ \E i \in 1 .. last[c] : kind[i] \in Terminal
      <3>1. last'[c] = last[c]
        BY <1>3
      <3>2. \A i \in 1 .. last[c] : i \in 1 .. Published
        BY <1>2, <2>1
      <3>3. \A i \in 1 .. last[c] : kind'[i] = kind[i]
        BY <1>2, <3>2
      <3> QED
        BY <3>1, <3>3
    <2>3. PICK i \in 1 .. Published : kind[i] \in Terminal /\ i < Head(history)
      BY <1>3, <2>2 DEF StreamInv, OutcomeIsRight, EndedStreamsToldOutcome
    <2>4. i \in 1 .. Published' /\ kind'[i] \in Terminal /\ i < history'[1]
      BY <2>3, <1>2, <1>8
    <2> QED
      BY <2>4
  <1> QED
    BY <1>4, <1>5, <1>10, <1>11

\* The numbers and queues of the run itself.
RunTypeOK ==
    /\ worker \in {"waiting", "running", "closing", "panicked", "ended"}
    /\ agentQueue \in Seq({"delta", "status"})
    /\ emitted \in 0 .. MaxAgentEvents
    /\ forwarder \in {"none", "idle", "buffered", "over"}
    /\ buffer \in Nat /\ partial \in Nat

\* Deltas can be counted, and what is published later does not change those
\* before it.
LEMMA DeltasCount ==
  ASSUME StreamInv, NEW k \in EventKinds, Publish(k)
  PROVE  /\ \A i \in 1 .. Published : Deltas(i)' = Deltas(i)
         /\ IsFiniteSet(Deltas(Published)) /\ Cardinality(Deltas(Published)) \in Nat
         /\ Cardinality(Deltas(Published)') =
               Cardinality(Deltas(Published)) + (IF present /\ k = "delta" THEN 1 ELSE 0)
  <1>1. /\ Published \in Nat /\ Published' \in Nat
        /\ \A i \in 1 .. Published : kind'[i] = kind[i]
        /\ present => Published' = Published + 1 /\ kind'[Published'] = k
        /\ ~present => kind' = kind /\ Published' = Published
    BY PublishIs
  <1>2. ASSUME NEW i \in 1 .. Published PROVE Deltas(i)' = Deltas(i)
    <2>1. \A j \in 1 .. i : j \in 1 .. Published
      BY <1>1
    <2>2. \A j \in 1 .. i : kind'[j] = kind[j]
      BY <2>1, <1>1
    <2> QED
      BY <2>2 DEF Deltas
  <1>3. IsFiniteSet(Deltas(Published)) /\ Cardinality(Deltas(Published)) \in Nat
    <2>1. IsFiniteSet(1 .. Published)
      BY <1>1, FS_Interval
    <2>2. Deltas(Published) \subseteq 1 .. Published
      BY DEF Deltas
    <2> QED
      BY <2>1, <2>2, FS_Subset, FS_CardinalityType
  <1>4. CASE ~present
    <2>1. Deltas(Published)' = Deltas(Published)
      BY <1>1, <1>4 DEF Deltas
    <2> QED
      BY <1>2, <1>3, <1>4, <2>1
  <1>5. CASE present
    <2>1. \A j : j \in 1 .. Published + 1 <=> j \in 1 .. Published \/ j = Published + 1
      BY <1>1
    <2>2. \A j : j \in Deltas(Published)' <=>
                    j \in Deltas(Published) \/ (j = Published + 1 /\ k = "delta")
      BY <1>1, <1>5, <2>1 DEF Deltas
    <2>3. Published + 1 \notin Deltas(Published)
      BY <1>1 DEF Deltas
    <2>4. CASE k = "delta"
      <3>1. Deltas(Published)' = Deltas(Published) \cup {Published + 1}
        BY <2>2, <2>4, Zenon
      <3>2. Cardinality(Deltas(Published) \cup {Published + 1}) = Cardinality(Deltas(Published)) + 1
        BY <1>3, <2>3, FS_AddElement
      <3> QED
        BY <1>2, <1>3, <1>5, <2>4, <3>1, <3>2
    <2>5. CASE k # "delta"
      <3>1. Deltas(Published)' = Deltas(Published)
        BY <2>2, <2>5, Zenon
      <3> QED
        BY <1>2, <1>3, <1>5, <2>5, <3>1
    <2> QED
      BY <2>4, <2>5
  <1> QED
    BY <1>4, <1>5

\* Events that are no outcome change nothing about the outcome.
LEMMA QuietEvents ==
  ASSUME StreamInv, NEW k \in {"delta", "status"}, Publish(k)
  PROVE  /\ Outcomes' = Outcomes /\ (done' => done) /\ OneOutcome'
         /\ UNCHANGED partial => AbortedTextCovers'
  <1>1. /\ Published \in Nat /\ Published' \in Nat
        /\ \A i \in 1 .. Published : kind'[i] = kind[i]
        /\ present => Published' = Published + 1 /\ kind'[Published'] = k
        /\ ~present => kind' = kind /\ Published' = Published
        /\ done' => done \/ (present /\ k \in Terminal)
    BY PublishIs DEF EventKinds
  <1>2. k \notin Terminal
    BY DEF Terminal
  <1>3. \A i \in 1 .. Published' : i \in 1 .. Published \/ (kind'[i] = k /\ present)
    BY <1>1
  <1>4. \A i \in 1 .. Published : i \in 1 .. Published'
    BY <1>1
  <1>5. \A i : i \in Outcomes' <=> i \in Outcomes
    BY <1>1, <1>2, <1>3, <1>4 DEF Outcomes
  <1>6. Outcomes' = Outcomes
    BY <1>5, Zenon
  <1>7. OneOutcome <=> \A i, j \in Outcomes : i = j
    BY DEF OneOutcome, Outcomes
  <1>8. OneOutcome' <=> \A i, j \in Outcomes' : i = j
    BY DEF OneOutcome, Outcomes
  <1>9. OneOutcome'
    BY <1>6, <1>7, <1>8 DEF StreamInv, OutcomeIsRight
  <1>10. ASSUME UNCHANGED partial PROVE AbortedTextCovers'
    <2> SUFFICES ASSUME NEW i \in 1 .. Published', kind'[i] = "aborted"
                 PROVE  Cardinality({j \in 1 .. i : kind'[j] = "delta"}) <= partial'
      BY DEF AbortedTextCovers
    <2>1. i \in 1 .. Published /\ kind[i] = "aborted"
      BY <1>1, <1>3
    <2>2. Cardinality({j \in 1 .. i : kind[j] = "delta"}) <= partial
      BY <2>1 DEF StreamInv, OutcomeIsRight, AbortedTextCovers
    <2>3. {j \in 1 .. i : kind'[j] = "delta"} = {j \in 1 .. i : kind[j] = "delta"}
      BY <2>1, DeltasCount DEF Deltas, EventKinds
    <2> QED
      BY <1>10, <2>2, <2>3
  <1> QED
    BY <1>1, <1>2, <1>6, <1>9, <1>10

\* An outcome is the only one, and an aborted one has all deltas before it.
LEMMA OutcomeEvents ==
  ASSUME StreamInv, NEW k \in Terminal, Publish(k), present, Outcomes = {},
         k = "aborted" => partial' = buffer
  PROVE  Outcomes' # {} /\ OneOutcome' /\ AbortedTextCovers'
  <1>1. /\ Published \in Nat /\ Published' = Published + 1
        /\ \A i \in 1 .. Published : kind'[i] = kind[i]
        /\ kind'[Published + 1] = k
    BY PublishIs DEF EventKinds
  <1>2. \A i \in 1 .. Published + 1 : i \in 1 .. Published \/ i = Published + 1
    BY <1>1
  <1>3. \A i \in 1 .. Published : kind[i] \notin Terminal
    BY DEF Outcomes
  <1>4. \A i \in 1 .. Published + 1 : kind'[i] \in Terminal => i = Published + 1
    BY <1>1, <1>2, <1>3
  <1>5. Published + 1 \in Outcomes'
    BY <1>1 DEF Outcomes
  <1>6. OneOutcome'
    BY <1>1, <1>4 DEF OneOutcome
  <1>7. AbortedTextCovers'
    <2> SUFFICES ASSUME NEW i \in 1 .. Published', kind'[i] = "aborted"
                 PROVE  Cardinality({j \in 1 .. i : kind'[j] = "delta"}) <= partial'
      BY DEF AbortedTextCovers
    <2>1. i = Published' /\ k = "aborted"
      BY <1>1, <1>4 DEF Terminal
    <2>2. Deltas(Published)' = {j \in 1 .. i : kind'[j] = "delta"}
      BY <2>1 DEF Deltas
    <2>3. Cardinality(Deltas(Published)') = Cardinality(Deltas(Published))
          /\ Cardinality(Deltas(Published)) \in Nat
      BY <2>1, DeltasCount DEF EventKinds
    <2>4. Cardinality(Deltas(Published)) <= buffer
      BY <2>3 DEF StreamInv, StreamTypeOK, BufferInv
    <2> QED
      BY <2>1, <2>2, <2>3, <2>4
  <1> QED
    BY <1>5, <1>6, <1>7

\* What a publishing step has to show besides.
LEMMA PublishPreserves ==
  ASSUME StreamInv, NEW k \in EventKinds, Publish(k),
         RunTypeOK', OutcomeInv', BufferInv', OneOutcome', AbortedTextCovers'
  PROVE  StreamInv'
  <1>1. present' \in BOOLEAN
    BY PublishIs DEF StreamInv, StreamTypeOK
  <1>2. /\ kind' \in Seq(EventKinds) /\ history' \in Seq(1 .. Published')
        /\ Len(history') <= HistoryLimit /\ HistoryInv' /\ done' \in BOOLEAN
    BY PublishIs
  <1>3. StreamTypeOK'
    BY <1>1, <1>2, ClientsKeep DEF StreamTypeOK, RunTypeOK, ClientTypeOK, EventKinds
  <1> QED
    BY <1>2, <1>3, ClientsKeep DEF StreamInv, OutcomeIsRight

\* The first event, and those of the forwarder.
LEMMA QuietStep ==
  ASSUME StreamInv, Start \/ PublishDelta \/ ForwardStatus
  PROVE  StreamInv'
  <1>1. /\ RunTypeOK /\ OutcomeInv /\ BufferInv /\ buffer \in Nat
    BY DEF StreamInv, StreamTypeOK, RunTypeOK
  <1>2. CASE Start
    <2>1. Publish("status") /\ worker = "waiting" /\ worker' = "running" /\ forwarder' = "idle"
          /\ UNCHANGED <<agentQueue, emitted, buffer, partial>>
      BY <1>2 DEF Start
    <2>2. RunTypeOK'
      BY <1>1, <2>1 DEF RunTypeOK
    <2>3. /\ Outcomes' = Outcomes /\ (done' => done) /\ OneOutcome' /\ AbortedTextCovers'
          /\ present' = present
      BY <2>1, QuietEvents, PublishIs DEF EventKinds
    <2>4. OutcomeInv'
      BY <1>1, <2>1, <2>3 DEF OutcomeInv
    <2>5. /\ Cardinality(Deltas(Published)') = Cardinality(Deltas(Published))
          /\ Cardinality(Deltas(Published)) \in Nat
      BY <2>1, DeltasCount DEF EventKinds
    <2>6. Cardinality(Deltas(Published)) <= buffer
      BY <1>1, <2>5 DEF BufferInv
    <2>7. BufferInv'
      BY <1>1, <2>1, <2>5, <2>6 DEF BufferInv
    <2> QED
      BY <2>1, <2>2, <2>3, <2>4, <2>7, PublishPreserves DEF EventKinds
  <1>3. CASE PublishDelta
    <2>1. Publish("delta") /\ forwarder = "buffered" /\ forwarder' = "idle"
          /\ UNCHANGED <<worker, agentQueue, emitted, buffer, partial>>
      BY <1>3 DEF PublishDelta
    <2>2. RunTypeOK'
      BY <1>1, <2>1 DEF RunTypeOK
    <2>3. /\ Outcomes' = Outcomes /\ (done' => done) /\ OneOutcome' /\ AbortedTextCovers'
          /\ present' = present
      BY <2>1, QuietEvents, PublishIs DEF EventKinds
    <2>4. OutcomeInv'
      BY <1>1, <2>1, <2>3 DEF OutcomeInv
    <2>5. /\ Cardinality(Deltas(Published)') <= Cardinality(Deltas(Published)) + 1
          /\ Cardinality(Deltas(Published)) \in Nat
          /\ Cardinality(Deltas(Published)') \in Nat
      BY <2>1, DeltasCount DEF EventKinds
    <2>6. Cardinality(Deltas(Published)) + 1 <= buffer
      BY <1>1, <2>1 DEF BufferInv
    <2>7. BufferInv'
      BY <1>1, <2>1, <2>5, <2>6 DEF BufferInv
    <2> QED
      BY <2>1, <2>2, <2>3, <2>4, <2>7, PublishPreserves DEF EventKinds
  <1>4. CASE ForwardStatus
    <2>1. Publish("status") /\ agentQueue # <<>> /\ agentQueue' = Tail(agentQueue)
          /\ UNCHANGED <<worker, emitted, forwarder, buffer, partial>>
      BY <1>4 DEF ForwardStatus
    <2>2. RunTypeOK'
      <3>1. Tail(agentQueue) \in Seq({"delta", "status"})
        BY <1>1, <2>1, HeadTailProperties DEF RunTypeOK
      <3> QED
        BY <1>1, <2>1, <3>1 DEF RunTypeOK
    <2>3. /\ Outcomes' = Outcomes /\ (done' => done) /\ OneOutcome' /\ AbortedTextCovers'
          /\ present' = present
      BY <2>1, QuietEvents, PublishIs DEF EventKinds
    <2>4. OutcomeInv'
      BY <1>1, <2>1, <2>3 DEF OutcomeInv
    <2>5. Cardinality(Deltas(Published)') = Cardinality(Deltas(Published))
          /\ Cardinality(Deltas(Published)) \in Nat
      BY <2>1, DeltasCount DEF EventKinds
    <2>6. BufferInv'
      BY <1>1, <2>1, <2>5 DEF BufferInv
    <2> QED
      BY <2>1, <2>2, <2>3, <2>4, <2>6, PublishPreserves DEF EventKinds
  <1> QED
    BY <1>2, <1>3, <1>4

\* The outcome is published once, by the worker or for it.
LEMMA OutcomeStep ==
  ASSUME StreamInv, PublishPanic \/ \E k \in Terminal : FinishRun(k)
  PROVE  StreamInv'
  <1>1. /\ RunTypeOK /\ OutcomeInv /\ BufferInv /\ buffer \in Nat
    BY DEF StreamInv, StreamTypeOK, RunTypeOK
  <1>2. PICK k \in Terminal :
          /\ Publish(k) /\ worker \in {"running", "panicked"} /\ worker' \in {"closing", "ended"}
          /\ k = "aborted" => partial' = buffer
          /\ partial' \in {partial, buffer}
          /\ UNCHANGED <<agentQueue, emitted, forwarder, buffer>>
    <2>1. CASE PublishPanic
      BY <2>1 DEF PublishPanic, Terminal
    <2>2. CASE \E k \in Terminal : FinishRun(k)
      BY <2>2 DEF FinishRun
    <2> QED
      BY <2>1, <2>2
  <1>3. present /\ Outcomes = {}
    BY <1>1, <1>2 DEF OutcomeInv
  <1>4. Outcomes' # {} /\ OneOutcome' /\ AbortedTextCovers'
    BY <1>2, <1>3, OutcomeEvents
  <1>5. RunTypeOK'
    BY <1>1, <1>2 DEF RunTypeOK
  <1>6. present' = present
    BY <1>2, PublishIs DEF EventKinds
  <1>7. OutcomeInv'
    BY <1>2, <1>3, <1>4, <1>6 DEF OutcomeInv
  <1>8. Cardinality(Deltas(Published)') = Cardinality(Deltas(Published))
        /\ Cardinality(Deltas(Published)) \in Nat
    BY <1>2, DeltasCount DEF EventKinds, Terminal
  <1>9. BufferInv'
    BY <1>1, <1>2, <1>8 DEF BufferInv
  <1> QED
    BY <1>2, <1>4, <1>5, <1>7, <1>9, PublishPreserves DEF EventKinds

\* Steps of the run that publish nothing.
LEMMA SilentStep ==
  ASSUME StreamInv,
         \/ \E k \in {"delta", "status"} : Emit(k)
         \/ ForwardDelta \/ ForwarderEnds \/ Panic \/ EndRun \/ RemoveLater
  PROVE  StreamInv'
  <1>1. RunTypeOK /\ OutcomeInv /\ BufferInv /\ present \in BOOLEAN
    BY DEF StreamInv, StreamTypeOK, RunTypeOK
  <1>2. /\ UNCHANGED <<kind, history, done, clientVars, partial>>
        /\ present' \in BOOLEAN /\ (present' # present => worker = "ended")
    BY <1>1 DEF Emit, ForwardDelta, ForwarderEnds, Panic, EndRun, RemoveLater, hubVars, streamRunVars
  <1>3. Published' = Published /\ Outcomes' = Outcomes /\ Deltas(Published)' = Deltas(Published)
    BY <1>2 DEF Published, Outcomes, Deltas
  <1>4. RunTypeOK'
    <2>1. MaxAgentEvents \in Nat
      BY StreamAssumption
    <2>2. CASE \E k \in {"delta", "status"} : Emit(k)
      <3>1. PICK k \in {"delta", "status"} : Emit(k)
        BY <2>2
      <3>2. agentQueue' \in Seq({"delta", "status"})
        BY <1>1, <3>1, AppendProperties DEF Emit, RunTypeOK
      <3> QED
        BY <1>1, <2>1, <3>1, <3>2 DEF Emit, RunTypeOK
    <2>3. CASE ForwardDelta
      <3>1. agentQueue' \in Seq({"delta", "status"})
        BY <1>1, <2>3, HeadTailProperties DEF ForwardDelta, RunTypeOK
      <3> QED
        BY <1>1, <2>3, <3>1 DEF ForwardDelta, RunTypeOK
    <2>4. CASE ForwarderEnds \/ Panic \/ EndRun \/ RemoveLater
      BY <1>1, <2>4 DEF ForwarderEnds, Panic, EndRun, RemoveLater, RunTypeOK, streamRunVars
    <2> QED
      BY <2>2, <2>3, <2>4
  <1>5. OutcomeInv'
    BY <1>1, <1>2, <1>3 DEF Emit, ForwardDelta, ForwarderEnds, Panic, EndRun, RemoveLater,
                            hubVars, streamRunVars, OutcomeInv, RunTypeOK
  <1>6. BufferInv'
    <2>1. IsFiniteSet(1 .. Published) /\ Deltas(Published) \subseteq 1 .. Published
      <3>1. Published \in Nat
        BY LenProperties DEF StreamInv, StreamTypeOK, Published
      <3> QED
        BY <3>1, FS_Interval DEF Deltas
    <2>2. Cardinality(Deltas(Published)) \in Nat
      BY <2>1, FS_Subset, FS_CardinalityType
    <2>3. BufferInv' <=> Cardinality(Deltas(Published)) + (IF forwarder' = "buffered" THEN 1 ELSE 0) <= buffer'
      BY <1>3 DEF BufferInv
    <2>4. CASE ForwardDelta
      BY <1>1, <2>2, <2>3, <2>4 DEF ForwardDelta, BufferInv, RunTypeOK
    <2>5. CASE ~ForwardDelta
      <3>1. buffer' = buffer /\ (forwarder' = "buffered" => forwarder = "buffered")
        BY <2>5 DEF Emit, ForwarderEnds, Panic, EndRun, RemoveLater, streamRunVars
      <3> QED
        BY <1>1, <2>2, <2>3, <3>1 DEF BufferInv, RunTypeOK
    <2> QED
      BY <2>4, <2>5
  <1>7. JoinInv' /\ ToldInv' /\ HistoryInv'
    BY <1>2, <1>3 DEF StreamInv, JoinInv, ToldInv, Told, HistoryInv, clientVars
  <1>8. OutcomeIsRight'
    BY <1>2, <1>3 DEF StreamInv, OutcomeIsRight, OneOutcome, AbortedTextCovers,
                      EndedStreamsToldOutcome, clientVars
  <1>9. StreamTypeOK'
    BY <1>2, <1>3, <1>4 DEF StreamInv, StreamTypeOK, RunTypeOK, clientVars
  <1> QED
    BY <1>4, <1>5, <1>6, <1>7, <1>8, <1>9 DEF StreamInv

\* What a client that comes back has before it: the events after the last one
\* it has had, as far as the history has them.
LEMMA AfterIs ==
  ASSUME StreamInv, NEW c \in Client
  PROVE  LET r == After(history, last[c]) IN
         /\ r \in Seq(1 .. Published)
         /\ last[c] + Len(r) < Published + 1
         /\ EndsBefore(r, Published + 1)
         /\ \/ last[c] # 0 /\ history # <<>> /\ last[c] + 1 < Head(history)
            \/ Published + 1 = last[c] + Len(r) + 1
            \/ last[c] = 0 /\ r # <<>>
         /\ \A i \in Outcomes : \/ i <= last[c] \/ i < history[1]
                                \/ r # <<>> /\ r[1] <= i /\ i < Published + 1
  <1> DEFINE p == Published
             n == Len(history)
             l == last[c]
             S == {i \in DOMAIN history : history[i] <= l}
             m == Cardinality(S)
             r == After(history, l)
  <1>1. /\ p \in Nat /\ n \in Nat /\ l \in 0 .. p /\ history \in Seq(1 .. p)
        /\ n <= p /\ (p > 0 => history # <<>>) /\ (history # <<>> => n > 0)
        /\ \A i \in 1 .. n : history[i] = p - n + i
        /\ DOMAIN history = 1 .. n
    <2>1. kind \in Seq(EventKinds) /\ history \in Seq(1 .. Published) /\ HistoryInv /\ last[c] \in 0 .. Published
      BY DEF StreamInv, StreamTypeOK, EventKinds
    <2>2. Published \in Nat
      BY <2>1, LenProperties DEF Published
    <2>3. Len(history) \in Nat /\ DOMAIN history = 1 .. Len(history)
          /\ (history # <<>> => Len(history) > 0)
      BY <2>1, LenProperties, EmptySeq
    <2> QED
      BY <2>1, <2>2, <2>3 DEF HistoryInv
  <1>2. m = IF l <= p - n THEN 0 ELSE l - (p - n)
    <2>1. CASE l <= p - n
      <3>1. \A i \in 1 .. n : ~(history[i] <= l)
        BY <1>1, <2>1
      <3>2. S = {}
        BY <1>1, <3>1
      <3> QED
        BY <2>1, <3>2, FS_EmptySet
    <2>2. CASE ~(l <= p - n)
      <3>1. l - (p - n) \in 1 .. n
        BY <1>1, <2>2
      <3>2. \A i \in 1 .. n : history[i] <= l <=> i \in 1 .. l - (p - n)
        BY <1>1, <3>1
      <3>3. \A i : i \in S <=> i \in 1 .. l - (p - n)
        BY <1>1, <3>1, <3>2
      <3>4. S = 1 .. l - (p - n)
        BY ONLY <3>3, Zenon
      <3>5. Cardinality(1 .. l - (p - n)) = l - (p - n)
        BY <3>1, <1>1, FS_Interval
      <3> QED
        BY <2>2, <3>4, <3>5
    <2> QED
      BY <2>1, <2>2
  <1>3. r = SubSeq(history, m + 1, n)
    BY DEF After
  <1> HIDE DEF m, S
  <1>4. m \in 0 .. n
    BY <1>1, <1>2
  <1> HIDE DEF n, p, l
  <1>t. /\ m \in Nat /\ n \in Nat /\ p \in Nat /\ l \in Nat
        /\ m <= n /\ n <= p /\ l <= p /\ n - m \in Nat
    BY ONLY <1>1, <1>4
  <1>5. /\ r \in Seq(1 .. p) /\ Len(r) = n - m
        /\ \A i \in 1 .. n - m : r[i] = history[m + i]
    <2>1. \A i \in m + 1 .. n : history[i] \in 1 .. p
      <3>1. history \in [1 .. n -> 1 .. p]
        BY <1>1, LenProperties
      <3>2. \A i \in m + 1 .. n : i \in 1 .. n
        BY <1>1, <1>4
      <3> QED
        BY <3>1, <3>2
    <2>2. /\ SubSeq(history, m + 1, n) \in Seq(1 .. p)
          /\ Len(SubSeq(history, m + 1, n)) = IF m + 1 <= n THEN n - (m + 1) + 1 ELSE 0
          /\ \A i \in 1 .. n - (m + 1) + 1 : SubSeq(history, m + 1, n)[i] = history[(m + 1) + i - 1]
      <3>1. m + 1 \in Int /\ n \in Int
        BY <1>1, <1>4
      <3> QED
        BY ONLY <2>1, <3>1, SubSeqProperties
    <2>3. n - (m + 1) + 1 = n - m /\ (IF m + 1 <= n THEN n - (m + 1) + 1 ELSE 0) = n - m
      BY ONLY <1>t
    <2>4. \A i \in 1 .. n - m : (m + 1) + i - 1 = m + i
      BY <1>1, <1>4
    <2> QED
      BY <1>3, <2>2, <2>3, <2>4
  <1> HIDE DEF r
  <1>6. EndsBefore(r, p + 1)
    <2>1. ASSUME NEW i \in 1 .. Len(r) PROVE r[i] = (p + 1) - Len(r) + (i - 1)
      <3>1. Len(r) = n - m /\ i \in 1 .. n - m
        BY ONLY <1>5
      <3>3. m + i \in 1 .. n
        BY ONLY <1>t, <3>1
      <3>4. r[i] = history[m + i]
        BY ONLY <1>5, <3>1
      <3>2. history[m + i] = p - n + (m + i)
        BY <1>1, <3>3
      <3> QED
        BY ONLY <1>t, <3>1, <3>2, <3>4
    <2> QED
      BY <2>1 DEF EndsBefore
  <1>7. l + Len(r) < p + 1
    BY <1>1, <1>2, <1>4, <1>5
  <1>8. n > 0 => Head(history) = p - n + 1 /\ history[1] = p - n + 1
    BY <1>1
  <1>9. r # <<>> <=> n - m > 0
    <2>1. r # <<>> => Len(r) \in Nat \ {0}
      BY <1>5, EmptySeq
    <2>2. r = <<>> => Len(r) = 0
      BY EmptySeq
    <2> QED
      BY ONLY <1>t, <1>5, <2>1, <2>2
  <1>10. \/ l # 0 /\ history # <<>> /\ l + 1 < Head(history)
         \/ p + 1 = l + Len(r) + 1
         \/ l = 0 /\ r # <<>>
    <2>1. CASE n = 0
      <3>1. p = 0 /\ l = 0 /\ m = 0
        BY <1>1, <1>4, <2>1
      <3> QED
        BY <1>5, <2>1, <3>1
    <2>2. CASE n > 0 /\ l < p - n
      <3>1. m = 0 /\ history # <<>> /\ r # <<>> /\ l + 1 < Head(history)
        BY <1>1, <1>2, <1>8, <1>9, <2>2, EmptySeq
      <3> QED
        BY <3>1
    <2>3. CASE n > 0 /\ ~(l < p - n)
      <3>1. m = l - (p - n)
        BY <1>1, <1>2, <2>3
      <3>2. p + 1 = l + Len(r) + 1
        BY ONLY <1>t, <1>5, <3>1
      <3> QED
        BY <3>2
    <2> QED
      BY ONLY <1>t, <2>1, <2>2, <2>3
  <1>11. ASSUME NEW i \in Outcomes
         PROVE  \/ i <= l \/ i < history[1]
                \/ r # <<>> /\ r[1] <= i /\ i < p + 1
    <2>1. i \in 1 .. p /\ n > 0
      BY <1>1 DEF Outcomes, p
    <2>2. r # <<>> => r[1] = p + 1 - (n - m)
      BY <1>1, <1>4, <1>5, <1>6, <1>9 DEF EndsBefore
    <2>3. CASE l <= p - n
      BY <1>1, <1>2, <1>8, <1>9, <2>1, <2>2, <2>3
    <2>4. CASE ~(l <= p - n)
      BY <1>1, <1>2, <1>9, <2>1, <2>2, <2>4
    <2> QED
      BY <2>3, <2>4
  <1> QED
    BY <1>5, <1>6, <1>7, <1>10, <1>11 DEF r, n, p, l

\* What a step of one client has to show: it is about that client alone.
LEMMA ClientPreserves ==
  ASSUME StreamInv, NEW c \in Client, UNCHANGED <<streamRunVars, hubVars>>, ClientTypeOK',
         \A d \in Client \ {c} :
            /\ conn'[d] = conn[d] /\ replay'[d] = replay[d] /\ doneAtStart'[d] = doneAtStart[d]
            /\ next'[d] = next[d] /\ last'[d] = last[d] /\ excused'[d] = excused[d],
         conn'[c] \in {"replaying", "live"} =>
            /\ conn'[c] = "live" => replay'[c] = <<>>
            /\ last'[c] + Len(replay'[c]) < next'[c]
            /\ EndsBefore(replay'[c], next'[c])
            /\ \/ excused'[c]
               \/ next'[c] = last'[c] + Len(replay'[c]) + 1
               \/ last'[c] = 0 /\ replay'[c] # <<>>,
         conn'[c] = "replaying" /\ doneAtStart'[c] =>
            \E i \in Outcomes : \/ i <= last'[c]
                                \/ i < history[1]
                                \/ replay'[c] # <<>> /\ replay'[c][1] <= i /\ i < next'[c],
         conn'[c] = "over" => \/ \E i \in 1 .. last'[c] : kind[i] \in Terminal
                              \/ excused'[c]
                              \/ \E i \in 1 .. Published : kind[i] \in Terminal /\ i < Head(history)
  PROVE  StreamInv'
  <1>1. /\ kind' = kind /\ history' = history /\ done' = done /\ present' = present
        /\ worker' = worker /\ agentQueue' = agentQueue /\ emitted' = emitted
        /\ forwarder' = forwarder /\ buffer' = buffer /\ partial' = partial
    BY DEF hubVars, streamRunVars
  <1>2. /\ Published' = Published /\ Outcomes' = Outcomes /\ Deltas(Published)' = Deltas(Published)
    BY <1>1 DEF Published, Outcomes, Deltas
  <1>3. StreamTypeOK'
    BY <1>1, <1>2 DEF StreamInv, StreamTypeOK, ClientTypeOK
  <1>4. HistoryInv' /\ OutcomeInv' /\ BufferInv' /\ OneOutcome' /\ AbortedTextCovers'
    BY <1>1, <1>2 DEF StreamInv, HistoryInv, OutcomeInv, BufferInv, OutcomeIsRight, OneOutcome,
                      AbortedTextCovers
  <1>5. JoinInv'
    <2> SUFFICES ASSUME NEW d \in Client, d # c, conn'[d] \in {"replaying", "live"}
                 PROVE  /\ conn'[d] = "live" => replay'[d] = <<>>
                        /\ last'[d] + Len(replay'[d]) < next'[d]
                        /\ EndsBefore(replay'[d], next'[d])
                        /\ \/ excused'[d]
                           \/ next'[d] = last'[d] + Len(replay'[d]) + 1
                           \/ last'[d] = 0 /\ replay'[d] # <<>>
      BY DEF JoinInv
    <2> QED
      BY DEF StreamInv, JoinInv
  <1>6. ToldInv'
    <2> SUFFICES ASSUME NEW d \in Client, conn'[d] = "replaying", doneAtStart'[d]
                 PROVE  \E i \in Outcomes : \/ i <= last'[d]
                                            \/ i < history[1]
                                            \/ replay'[d] # <<>> /\ replay'[d][1] <= i /\ i < next'[d]
      BY <1>1, <1>2 DEF ToldInv, Told
    <2>1. CASE d = c
      BY <2>1
    <2>2. CASE d # c
      <3>1. Told(d)
        BY <2>2 DEF StreamInv, ToldInv
      <3> QED
        BY <2>2, <3>1 DEF Told
    <2> QED
      BY <2>1, <2>2
  <1>7. EndedStreamsToldOutcome'
    <2> SUFFICES ASSUME NEW d \in Client, conn'[d] = "over"
                 PROVE  \/ \E i \in 1 .. last'[d] : kind[i] \in Terminal
                        \/ excused'[d]
                        \/ \E i \in 1 .. Published : kind[i] \in Terminal /\ i < Head(history)
      BY <1>1, <1>2 DEF EndedStreamsToldOutcome
    <2>1. CASE d = c
      BY <2>1
    <2>2. CASE d # c
      BY <2>2 DEF StreamInv, OutcomeIsRight, EndedStreamsToldOutcome
    <2> QED
      BY <2>1, <2>2
  <1> QED
    BY <1>3, <1>4, <1>5, <1>6, <1>7 DEF StreamInv, OutcomeIsRight

\* The types of what is known about a client.
LEMMA ClientIs ==
  ASSUME StreamInv, NEW c \in Client
  PROVE  /\ ClientTypeOK /\ Published \in Nat
         /\ conn[c] \in {"off", "replaying", "live", "over", "gone"}
         /\ replay[c] \in Seq(1 .. Published) /\ Len(replay[c]) \in Nat
         /\ doneAtStart[c] \in BOOLEAN /\ excused[c] \in BOOLEAN
         /\ next[c] \in 1 .. Published + 1 /\ last[c] \in 0 .. Published
  <1>1. ClientTypeOK /\ kind \in Seq(EventKinds)
    BY DEF StreamInv, StreamTypeOK, ClientTypeOK, EventKinds
  <1>2. Published \in Nat
    BY <1>1, LenProperties DEF Published
  <1>3. replay[c] \in Seq(1 .. Published)
    BY <1>1 DEF ClientTypeOK
  <1>4. Len(replay[c]) \in Nat
    BY <1>3, LenProperties
  <1> QED
    BY <1>1, <1>2, <1>3, <1>4 DEF ClientTypeOK

\* history, done and a receiver under one lock: the replay ends where the
\* receiver begins.
LEMMA SubscribePreserves ==
  ASSUME StreamInv, NEW c \in Client, Subscribe(c)
  PROVE  StreamInv'
  <1>1. UNCHANGED <<streamRunVars, hubVars, last>> /\ conn[c] = "off"
    BY DEF Subscribe
  <1>2. /\ ClientTypeOK /\ Published \in Nat /\ Published' = Published
    BY <1>1, ClientIs DEF Published, hubVars
  <1>3. CASE ~present
    <2>1. /\ conn' = [conn EXCEPT ![c] = "gone"]
          /\ UNCHANGED <<replay, doneAtStart, next, excused>>
      BY <1>3 DEF Subscribe
    <2>2. ClientTypeOK' /\ conn'[c] = "gone"
          /\ \A d \in Client \ {c} : conn'[d] = conn[d]
      BY <1>1, <1>2, <2>1 DEF ClientTypeOK
    <2> QED
      BY <1>1, <2>1, <2>2, ClientPreserves
  <1>4. CASE present
    <2> DEFINE r == After(history, last[c])
    <2>1. /\ conn' = [conn EXCEPT ![c] = "replaying"]
          /\ replay' = [replay EXCEPT ![c] = r]
          /\ doneAtStart' = [doneAtStart EXCEPT ![c] = done]
          /\ next' = [next EXCEPT ![c] = Published + 1]
          /\ excused' = [excused EXCEPT ![c] =
                           last[c] # 0 /\ history # <<>> /\ last[c] + 1 < Head(history)]
      BY <1>4 DEF Subscribe
    <2>2. /\ r \in Seq(1 .. Published)
          /\ last[c] + Len(r) < Published + 1
          /\ EndsBefore(r, Published + 1)
          /\ \/ last[c] # 0 /\ history # <<>> /\ last[c] + 1 < Head(history)
             \/ Published + 1 = last[c] + Len(r) + 1
             \/ last[c] = 0 /\ r # <<>>
          /\ \A i \in Outcomes : \/ i <= last[c] \/ i < history[1]
                                 \/ r # <<>> /\ r[1] <= i /\ i < Published + 1
      BY AfterIs
    <2> HIDE DEF r
    <2>3. done \in BOOLEAN /\ (done => Outcomes # {})
      BY DEF StreamInv, StreamTypeOK, OutcomeInv
    <2>4. replay' \in [Client -> Seq(1 .. Published)]
      BY <1>2, <2>1, <2>2 DEF ClientTypeOK
    <2>5. ClientTypeOK'
      <3>1. Published + 1 \in 1 .. Published + 1
        BY <1>2
      <3>2. next' \in [Client -> 1 .. Published + 1]
        BY <1>2, <2>1, <3>1 DEF ClientTypeOK
      <3>3. /\ conn' \in [Client -> {"off", "replaying", "live", "over", "gone"}]
            /\ doneAtStart' \in [Client -> BOOLEAN] /\ excused' \in [Client -> BOOLEAN]
        BY <1>2, <2>1, <2>3 DEF ClientTypeOK
      <3> QED
        BY <1>1, <1>2, <2>4, <3>2, <3>3 DEF ClientTypeOK
    <2>6. /\ conn'[c] = "replaying" /\ replay'[c] = r /\ doneAtStart'[c] = done
          /\ next'[c] = Published + 1 /\ last'[c] = last[c]
          /\ excused'[c] = (last[c] # 0 /\ history # <<>> /\ last[c] + 1 < Head(history))
          /\ \A d \in Client \ {c} :
                /\ conn'[d] = conn[d] /\ replay'[d] = replay[d] /\ doneAtStart'[d] = doneAtStart[d]
                /\ next'[d] = next[d] /\ last'[d] = last[d] /\ excused'[d] = excused[d]
      BY <1>1, <1>2, <2>1 DEF ClientTypeOK
    <2>7. doneAtStart'[c] =>
            \E i \in Outcomes : \/ i <= last'[c] \/ i < history[1]
                                \/ replay'[c] # <<>> /\ replay'[c][1] <= i /\ i < next'[c]
      BY <2>2, <2>3, <2>6
    <2>8. /\ last'[c] + Len(replay'[c]) < next'[c]
          /\ EndsBefore(replay'[c], next'[c])
          /\ \/ excused'[c]
             \/ next'[c] = last'[c] + Len(replay'[c]) + 1
             \/ last'[c] = 0 /\ replay'[c] # <<>>
      <3>1. last'[c] + Len(replay'[c]) < next'[c] /\ EndsBefore(replay'[c], next'[c])
        BY ONLY <2>2, <2>6
      <3>2. \/ excused'[c]
            \/ next'[c] = last'[c] + Len(replay'[c]) + 1
            \/ last'[c] = 0 /\ replay'[c] # <<>>
        BY ONLY <2>2, <2>6, Zenon
      <3> QED
        BY ONLY <3>1, <3>2
    <2> QED
      BY <1>1, <2>5, <2>6, <2>7, <2>8, ClientPreserves
  <1> QED
    BY <1>3, <1>4 DEF StreamInv, StreamTypeOK

\* Replaying: the next one of the history, as it was.
LEMMA ReplayPreserves ==
  ASSUME StreamInv, NEW c \in Client, Replay(c)
  PROVE  StreamInv'
  <1> DEFINE s == replay[c]
             id == Head(s)
  <1>1. /\ conn[c] = "replaying" /\ s # <<>>
        /\ last' = [last EXCEPT ![c] = id]
        /\ conn' = [conn EXCEPT ![c] = IF EndsStream(c, id) THEN "over" ELSE @]
        /\ replay' = [replay EXCEPT ![c] = Tail(s)]
        /\ UNCHANGED <<streamRunVars, hubVars, doneAtStart, next, excused>>
    BY DEF Replay
  <1>2. /\ ClientTypeOK /\ Published \in Nat /\ Published' = Published
        /\ s \in Seq(1 .. Published) /\ Len(s) \in Nat /\ last[c] \in 0 .. Published
        /\ next[c] \in 1 .. Published + 1
    BY <1>1, ClientIs DEF Published, hubVars
  <1>3. /\ last[c] + Len(s) < next[c] /\ EndsBefore(s, next[c])
        /\ excused[c] \/ next[c] = last[c] + Len(s) + 1 \/ last[c] = 0
    BY <1>1 DEF StreamInv, JoinInv
  <1>4. doneAtStart[c] => \E i \in Outcomes : \/ i <= last[c] \/ i < history[1]
                                              \/ s # <<>> /\ s[1] <= i /\ i < next[c]
    BY <1>1 DEF StreamInv, ToldInv, Told
  <1> HIDE DEF s
  <1>5. /\ Tail(s) \in Seq(1 .. Published) /\ Len(Tail(s)) = Len(s) - 1 /\ Len(s) \in Nat \ {0}
        /\ \A i \in 1 .. Len(Tail(s)) : Tail(s)[i] = s[i + 1]
        /\ id = s[1] /\ id \in 1 .. Published
    BY <1>1, <1>2, HeadTailProperties, EmptySeq
  <1>6. id = next[c] - Len(s)
    BY <1>2, <1>3, <1>5 DEF EndsBefore
  <1> HIDE DEF id
  <1>n. /\ Len(Tail(s)) \in Nat /\ Len(Tail(s)) = Len(s) - 1 /\ Len(s) \in Nat \ {0}
        /\ id = next[c] - Len(s) /\ id \in Nat /\ next[c] \in Nat /\ last[c] \in Nat
        /\ last[c] + Len(s) < next[c]
    BY <1>2, <1>3, <1>5, <1>6
  <1>7. EndsBefore(Tail(s), next[c])
    <2> SUFFICES ASSUME NEW i \in 1 .. Len(Tail(s))
                 PROVE  Tail(s)[i] = next[c] - Len(Tail(s)) + (i - 1)
      BY DEF EndsBefore
    <2>1. i + 1 \in 1 .. Len(s) /\ Tail(s)[i] = s[i + 1]
      BY <1>5
    <2>2. s[i + 1] = next[c] - Len(s) + i
      BY <1>3, <2>1 DEF EndsBefore
    <2> QED
      BY ONLY <2>1, <2>2, <1>n
  <1>8. /\ conn'[c] = IF EndsStream(c, id) THEN "over" ELSE "replaying"
        /\ replay'[c] = Tail(s) /\ doneAtStart'[c] = doneAtStart[c]
        /\ next'[c] = next[c] /\ last'[c] = id /\ excused'[c] = excused[c]
        /\ \A d \in Client \ {c} :
              /\ conn'[d] = conn[d] /\ replay'[d] = replay[d] /\ doneAtStart'[d] = doneAtStart[d]
              /\ next'[d] = next[d] /\ last'[d] = last[d] /\ excused'[d] = excused[d]
    BY <1>1, <1>2 DEF ClientTypeOK
  <1>9. ClientTypeOK'
    <2>1. replay' \in [Client -> Seq(1 .. Published)]
      BY <1>1, <1>2, <1>5 DEF ClientTypeOK
    <2>2. last' \in [Client -> 0 .. Published]
      <3>1. id \in 0 .. Published
        BY <1>2, <1>5
      <3> QED
        BY <1>1, <1>2, <3>1 DEF ClientTypeOK
    <2>3. conn' \in [Client -> {"off", "replaying", "live", "over", "gone"}]
      BY <1>1, <1>2 DEF ClientTypeOK
    <2> QED
      BY <1>1, <1>2, <2>1, <2>2, <2>3 DEF ClientTypeOK
  <1>10. /\ conn'[c] # "live" /\ last'[c] + Len(replay'[c]) < next'[c]
         /\ EndsBefore(replay'[c], next'[c])
         /\ next'[c] = last'[c] + Len(replay'[c]) + 1
    <2>1. id + Len(Tail(s)) + 1 = next[c] /\ id + Len(Tail(s)) < next[c]
      BY ONLY <1>n
    <2> QED
      BY <1>7, <1>8, <2>1
  <1>11. ASSUME doneAtStart'[c]
         PROVE  \E i \in Outcomes : \/ i <= last'[c]
                                    \/ i < history[1]
                                    \/ replay'[c] # <<>> /\ replay'[c][1] <= i /\ i < next'[c]
    <2>1. PICK i \in Outcomes : i <= last[c] \/ i < history[1] \/ (s[1] <= i /\ i < next[c])
      BY <1>4, <1>8, <1>11
    <2>2. i \in 1 .. Published
      BY DEF Outcomes
    <2>3. CASE i <= id
      BY <1>8, <2>3
    <2>4. CASE i < history[1]
      BY <2>4
    <2>5. CASE id < i /\ i < next[c]
      <3>1. Len(Tail(s)) \in Nat /\ Len(Tail(s)) > 0
        <4>1. i \in Nat /\ id < i /\ i < next[c]
          BY <1>2, <2>2, <2>5
        <4> QED
          BY ONLY <1>n, <4>1
      <3>2. Tail(s) # <<>> /\ Tail(s)[1] = next[c] - Len(Tail(s))
        <4>1. 1 \in 1 .. Len(Tail(s)) /\ Len(<<>>) = 0 /\ Tail(s) # <<>>
          BY <3>1, EmptySeq
        <4>2. Tail(s)[1] = next[c] - Len(Tail(s)) + (1 - 1)
          BY ONLY <4>1, <1>7 DEF EndsBefore
        <4> QED
          BY ONLY <4>1, <4>2, <3>1, <1>n
      <3>3. Tail(s)[1] <= i
        <4>1. i \in Nat /\ id < i
          BY <1>2, <2>2, <2>5
        <4> QED
          BY ONLY <1>n, <3>2, <4>1
      <3> QED
        BY <1>8, <2>5, <3>2, <3>3
    <2>6. last[c] <= id
      BY ONLY <1>n
    <2> QED
      BY <1>2, <1>5, <2>1, <2>2, <2>3, <2>4, <2>5, <2>6
  <1>12. conn'[c] = "over" => \E i \in 1 .. last'[c] : kind[i] \in Terminal
    <2>1. EndsStream(c, id) => kind[id] \in Terminal
      BY DEF EndsStream, Terminal
    <2>2. id \in 1 .. id
      BY <1>2, <1>5
    <2> QED
      BY <1>8, <2>1, <2>2
  <1> QED
    BY <1>1, <1>8, <1>9, <1>10, <1>11, <1>12, ClientPreserves

\* The end of a replay: the stream is over if the run had been.
LEMMA ReplayEndsPreserves ==
  ASSUME StreamInv, NEW c \in Client, ReplayEnds(c)
  PROVE  StreamInv'
  <1>1. /\ conn[c] = "replaying" /\ replay[c] = <<>>
        /\ conn' = [conn EXCEPT ![c] = IF doneAtStart[c] THEN "over" ELSE "live"]
        /\ UNCHANGED <<streamRunVars, hubVars, replay, doneAtStart, next, last, excused>>
    BY DEF ReplayEnds
  <1>2. ClientTypeOK /\ Published' = Published
        /\ Published \in Nat /\ last[c] \in 0 .. Published /\ history \in Seq(1 .. Published)
    BY <1>1, ClientIs DEF Published, hubVars, StreamInv, StreamTypeOK
  <1>3. ClientTypeOK' /\ conn'[c] = (IF doneAtStart[c] THEN "over" ELSE "live")
        /\ \A d \in Client \ {c} : conn'[d] = conn[d]
    BY <1>1, <1>2 DEF ClientTypeOK
  <1>4. /\ last[c] + Len(replay[c]) < next[c] /\ EndsBefore(replay[c], next[c])
        /\ \/ excused[c] \/ next[c] = last[c] + Len(replay[c]) + 1
           \/ last[c] = 0 /\ replay[c] # <<>>
    BY <1>1 DEF StreamInv, JoinInv
  <1>5. doneAtStart[c] => \/ \E i \in 1 .. last[c] : kind[i] \in Terminal
                          \/ \E i \in 1 .. Published : kind[i] \in Terminal /\ i < Head(history)
    <2> SUFFICES ASSUME doneAtStart[c]
                 PROVE  \/ \E i \in 1 .. last[c] : kind[i] \in Terminal
                        \/ \E i \in 1 .. Published : kind[i] \in Terminal /\ i < Head(history)
      OBVIOUS
    <2>1. PICK i \in Outcomes : i <= last[c] \/ i < history[1]
      BY <1>1 DEF StreamInv, ToldInv, Told
    <2>2. i \in 1 .. Published /\ kind[i] \in Terminal
      BY DEF Outcomes
    <2>3. CASE i <= last[c]
      BY <1>2, <2>2, <2>3
    <2>4. CASE i < history[1]
      BY <2>2, <2>4
    <2> QED
      BY <2>1, <2>3, <2>4
  <1> QED
    BY <1>1, <1>3, <1>4, <1>5, ClientPreserves

\* A live event is the one the receiver is at.
LEMMA ReceivePreserves ==
  ASSUME StreamInv, NEW c \in Client, Receive(c)
  PROVE  StreamInv'
  <1>1. /\ conn[c] = "live" /\ next[c] \in OldestKept .. Published
        /\ last' = [last EXCEPT ![c] = next[c]]
        /\ conn' = [conn EXCEPT ![c] = IF EndsStream(c, next[c]) THEN "over" ELSE @]
        /\ next' = [next EXCEPT ![c] = @ + 1]
        /\ UNCHANGED <<streamRunVars, hubVars, replay, doneAtStart, excused>>
    BY DEF Receive
  <1>2. /\ ClientTypeOK /\ Published' = Published /\ Published \in Nat
        /\ next[c] \in 1 .. Published + 1 /\ last[c] \in 0 .. Published
    BY <1>1, ClientIs DEF Published, hubVars
  <1>3. next[c] \in 1 .. Published /\ next[c] + 1 \in 1 .. Published + 1
    <2>1. OldestKept \in Nat
      BY <1>2, StreamAssumption DEF OldestKept
    <2> QED
      BY <1>1, <1>2, <2>1
  <1>4. /\ conn'[c] = (IF EndsStream(c, next[c]) THEN "over" ELSE "live")
        /\ replay'[c] = replay[c] /\ next'[c] = next[c] + 1 /\ last'[c] = next[c]
        /\ \A d \in Client \ {c} :
              /\ conn'[d] = conn[d] /\ replay'[d] = replay[d] /\ doneAtStart'[d] = doneAtStart[d]
              /\ next'[d] = next[d] /\ last'[d] = last[d] /\ excused'[d] = excused[d]
    BY <1>1, <1>2 DEF ClientTypeOK
  <1>5. ClientTypeOK'
    <2>1. next[c] \in 0 .. Published
      BY <1>3, <1>2
    <2>2. /\ last' \in [Client -> 0 .. Published] /\ next' \in [Client -> 1 .. Published + 1]
          /\ conn' \in [Client -> {"off", "replaying", "live", "over", "gone"}]
      BY <1>1, <1>2, <1>3, <2>1 DEF ClientTypeOK
    <2> QED
      BY <1>1, <1>2, <2>2 DEF ClientTypeOK
  <1>6. replay[c] = <<>>
    BY <1>1 DEF StreamInv, JoinInv
  <1>7. /\ last'[c] + Len(replay'[c]) < next'[c] /\ EndsBefore(replay'[c], next'[c])
        /\ next'[c] = last'[c] + Len(replay'[c]) + 1
    <2>1. Len(<<>>) = 0
      BY EmptySeq
    <2> QED
      BY <1>3, <1>4, <1>6, <2>1 DEF EndsBefore
  <1>8. conn'[c] = "over" => \E i \in 1 .. last'[c] : kind[i] \in Terminal
    <2>1. EndsStream(c, next[c]) => kind[next[c]] \in Terminal
      BY DEF EndsStream, Terminal
    <2>2. next[c] \in 1 .. next[c]
      BY <1>3
    <2> QED
      BY <1>4, <2>1, <2>2
  <1> QED
    BY <1>1, <1>4, <1>5, <1>6, <1>7, <1>8, ClientPreserves

\* Who lags is excused; who is at the end of a channel that is gone has had
\* all there was; a lost connection has nothing before it.
LEMMA OtherClientSteps ==
  ASSUME StreamInv, NEW c \in Client, Lag(c) \/ Closed(c) \/ Disconnect(c)
  PROVE  StreamInv'
  <1>1. /\ UNCHANGED <<streamRunVars, hubVars, replay, doneAtStart, last>>
        /\ ClientTypeOK /\ Published \in Nat /\ Published' = Published
        /\ next[c] \in 1 .. Published + 1 /\ last[c] \in 0 .. Published
    BY ClientIs DEF Lag, Closed, Disconnect, Published, hubVars
  <1>2. CASE Lag(c)
    <2>1. /\ conn[c] = "live" /\ next[c] < OldestKept
          /\ next' = [next EXCEPT ![c] = OldestKept]
          /\ excused' = [excused EXCEPT ![c] = TRUE]
          /\ conn' = [conn EXCEPT ![c] = IF c \in Bridge THEN "over" ELSE @]
      BY <1>2 DEF Lag
    <2>2. OldestKept \in 1 .. Published + 1
      BY <1>1, StreamAssumption DEF OldestKept
    <2>3. ClientTypeOK'
      BY <1>1, <2>1, <2>2 DEF ClientTypeOK
    <2>4. /\ conn'[c] \in {"live", "over"} /\ replay'[c] = replay[c] /\ last'[c] = last[c]
          /\ next'[c] = OldestKept /\ excused'[c] = TRUE
          /\ \A d \in Client \ {c} :
                /\ conn'[d] = conn[d] /\ replay'[d] = replay[d] /\ doneAtStart'[d] = doneAtStart[d]
                /\ next'[d] = next[d] /\ last'[d] = last[d] /\ excused'[d] = excused[d]
      BY <1>1, <2>1 DEF ClientTypeOK
    <2>5. replay[c] = <<>> /\ last[c] + Len(replay[c]) < next[c]
      BY <2>1 DEF StreamInv, JoinInv
    <2>6. last'[c] + Len(replay'[c]) < next'[c] /\ EndsBefore(replay'[c], next'[c])
      <3>1. Len(<<>>) = 0
        BY EmptySeq
      <3>2. last[c] < OldestKept
        BY ONLY <1>1, <2>1, <2>2, <2>5, <3>1
      <3> QED
        BY <1>1, <2>4, <2>5, <3>1, <3>2 DEF EndsBefore
    <2> QED
      BY <1>1, <2>3, <2>4, <2>5, <2>6, ClientPreserves
  <1>3. CASE Closed(c)
    <2>1. /\ conn[c] = "live" /\ ~present /\ next[c] > Published
          /\ conn' = [conn EXCEPT ![c] = "over"] /\ UNCHANGED <<next, excused>>
      BY <1>3 DEF Closed
    <2>2. ClientTypeOK' /\ conn'[c] = "over" /\ \A d \in Client \ {c} : conn'[d] = conn[d]
      BY <1>1, <2>1 DEF ClientTypeOK
    <2>3. PICK i \in Outcomes : TRUE
      BY <2>1 DEF StreamInv, OutcomeInv
    <2>4. i \in 1 .. Published /\ kind[i] \in Terminal
      BY DEF Outcomes
    <2>5. excused[c] \/ next[c] = last[c] + 1
      <3>1. Len(<<>>) = 0
        BY EmptySeq
      <3>2. replay[c] = <<>> /\ (excused[c] \/ next[c] = last[c] + Len(replay[c]) + 1)
        BY <2>1 DEF StreamInv, JoinInv
      <3> QED
        BY <1>1, <3>1, <3>2
    <2>6. excused[c] \/ i \in 1 .. last[c]
      BY <1>1, <2>1, <2>4, <2>5
    <2> QED
      BY <1>1, <2>1, <2>2, <2>4, <2>6, ClientPreserves
  <1>4. CASE Disconnect(c)
    <2>1. /\ conn' = [conn EXCEPT ![c] = IF c \in Bridge THEN "gone" ELSE "off"]
          /\ UNCHANGED <<next, excused>>
      BY <1>4 DEF Disconnect
    <2>2. ClientTypeOK' /\ conn'[c] \in {"off", "gone"} /\ \A d \in Client \ {c} : conn'[d] = conn[d]
      BY <1>1, <2>1 DEF ClientTypeOK
    <2> QED
      BY <1>1, <2>1, <2>2, ClientPreserves
  <1> QED
    BY <1>2, <1>3, <1>4

\* Every step of a run and its clients.
LEMMA StreamStepPreserves == StreamInv /\ [StreamNext]_streamVars => StreamInv'
  <1> SUFFICES ASSUME StreamInv, [StreamNext]_streamVars PROVE StreamInv'
    OBVIOUS
  <1>1. CASE WorkerStep
    BY <1>1, QuietStep, OutcomeStep, SilentStep DEF WorkerStep
  <1>2. CASE ForwarderStep
    BY <1>2, QuietStep, SilentStep DEF ForwarderStep
  <1>3. CASE Panic \/ \E k \in {"delta", "status"} : Emit(k)
    BY <1>3, SilentStep
  <1>4. CASE \E c \in Client : StreamStep(c) \/ Subscribe(c) \/ Disconnect(c)
    BY <1>4, SubscribePreserves, ReplayPreserves, ReplayEndsPreserves, ReceivePreserves,
       OtherClientSteps DEF StreamStep
  <1>5. CASE UNCHANGED streamVars
    <2>1. /\ UNCHANGED <<streamRunVars, hubVars, clientVars>>
      BY <1>5 DEF streamVars
    <2>2. Published' = Published /\ Outcomes' = Outcomes /\ Deltas(Published)' = Deltas(Published)
      BY <2>1 DEF Published, Outcomes, Deltas, hubVars
    <2>3. StreamTypeOK' /\ HistoryInv' /\ OutcomeInv' /\ BufferInv'
      BY <2>1, <2>2 DEF StreamInv, StreamTypeOK, HistoryInv, OutcomeInv, BufferInv, streamRunVars,
                        hubVars, clientVars
    <2>4. JoinInv' /\ ToldInv'
      BY <2>1, <2>2 DEF StreamInv, JoinInv, ToldInv, Told, hubVars, clientVars
    <2>5. OutcomeIsRight'
      BY <2>1, <2>2 DEF StreamInv, OutcomeIsRight, OneOutcome, AbortedTextCovers,
                        EndedStreamsToldOutcome, streamRunVars, hubVars, clientVars
    <2> QED
      BY <2>3, <2>4, <2>5 DEF StreamInv
  <1> QED
    BY <1>1, <1>2, <1>3, <1>4, <1>5 DEF StreamNext

\* The invariant of one streamed run, for any number of clients and events.
THEOREM StreamInvariant == StreamSpec => []StreamInv
  <1> QED
    BY StreamInitially, StreamStepPreserves, PTL DEF StreamSpec

\* Replay and live events join without a gap and without a repetition, in
\* every connection of every client.
THEOREM ResumesJoin == StreamSpec => []ResumeIsExact
  <1>1. StreamInv => ResumeIsExact
    <2> SUFFICES ASSUME StreamInv, NEW c \in Client, conn[c] \in {"replaying", "live"}
                 PROVE  /\ Upcoming(c) > last[c]
                        /\ last[c] # 0 /\ ~excused[c] => Upcoming(c) = last[c] + 1
      BY DEF ResumeIsExact
    <2>1. /\ replay[c] \in Seq(1 .. Published) /\ Len(replay[c]) \in Nat
          /\ next[c] \in Nat /\ last[c] \in Nat
      BY ClientIs
    <2>2. /\ conn[c] = "live" => replay[c] = <<>>
          /\ last[c] + Len(replay[c]) < next[c] /\ EndsBefore(replay[c], next[c])
          /\ excused[c] \/ next[c] = last[c] + Len(replay[c]) + 1
                \/ (last[c] = 0 /\ replay[c] # <<>>)
      BY DEF StreamInv, JoinInv
    <2>3. CASE replay[c] = <<>>
      <3>1. Len(replay[c]) = 0 /\ Upcoming(c) = next[c]
        BY <2>3, EmptySeq DEF Upcoming
      <3> QED
        BY <2>1, <2>2, <2>3, <3>1
    <2>4. CASE replay[c] # <<>>
      <3>1. Len(replay[c]) > 0 /\ Upcoming(c) = replay[c][1]
        BY <2>1, <2>2, <2>4, EmptySeq DEF Upcoming
      <3>2. replay[c][1] = next[c] - Len(replay[c])
        BY <2>1, <2>2, <3>1 DEF EndsBefore
      <3> QED
        BY <2>1, <2>2, <3>1, <3>2
    <2> QED
      BY <2>3, <2>4
  <1> QED
    BY <1>1, StreamInvariant, PTL

\* Readers of a run learn its outcome, once and whole.
THEOREM OutcomesReach == StreamSpec => []OutcomeIsRight
  <1>1. StreamInv => OutcomeIsRight
    BY DEF StreamInv
  <1> QED
    BY <1>1, StreamInvariant, PTL

-----------------------------------------------------------------------------
(* Batches of calls: any number of calls and tools, with any classes.       *)

CallsOf(w) == Range(todo[w])
Unstarted == {k \in Index : place[k] \in {"idle", "hook", "ready"}}

WavesTyping ==
    /\ batch \in Seq(Tool) /\ Len(batch) <= MaxCalls
    /\ todo \in Seq(Seq(DOMAIN batch)) /\ \A w \in DOMAIN todo : Len(todo[w]) > 0
    /\ place \in [Index -> Stages] /\ result \in [Index -> Results]
    /\ toolCalls \in Nat
    /\ vetoed \subseteq Index
    /\ started \in Seq(Index)

\* The waves are in order, by themselves and by class, and where there are
\* several calls in one, all of them only read.
Sorted(waves) ==
    \A w \in DOMAIN waves : \A i, j \in DOMAIN waves[w] : i < j => waves[w][i] < waves[w][j]
TogetherRead(waves, calls) ==
    \A w \in DOMAIN waves : Len(waves[w]) > 1 =>
        \A i \in DOMAIN waves[w] : Class(calls[waves[w][i]]) = "read_only"
ClassesInOrder(waves, calls) ==
    \A v, w \in DOMAIN waves : v < w =>
        \A i \in Range(waves[v]), j \in Range(waves[w]) :
            i # j /\ (Class(calls[i]) = Class(calls[j]) => i < j)
TodoInv == Sorted(todo) /\ TogetherRead(todo, batch) /\ ClassesInOrder(todo, batch)

WaveBegun == \E k \in Wave : place[k] \in {"running", "after"}

\* Only calls of the current wave are at work; a parallel wave has not begun, or
\* has begun with exactly those that were not blocked.
PlaceInv ==
    /\ \A w \in DOMAIN todo : w > 1 => \A k \in CallsOf(w) : place[k] = "idle"
    /\ \A k \in Index : place[k] \notin {"idle", "done"} => todo # <<>> /\ k \in Wave
    /\ Single => place[It] \notin {"ready", "done"}
    /\ Parallel => \/ \A k \in Wave : place[k] \in {"idle", "ready"}
                   \/ /\ \A k \in Wave : /\ place[k] \in {"running", "after", "done"}
                                         /\ place[k] = "done" <=> k \in vetoed
                      /\ WaveBegun

\* What was started is neither blocked nor still to come, and comes before what
\* is still to come of its class.
StartInv ==
    /\ \A k \in vetoed : place[k] \in {"ready", "done"}
    /\ \A i \in DOMAIN started : started[i] \notin vetoed \cup Unstarted
    /\ OrderKept
    /\ \A w \in DOMAIN todo : \A j \in CallsOf(w) : \A i \in DOMAIN started :
          Class(batch[started[i]]) = Class(batch[j]) =>
             /\ j \in Unstarted => started[i] < j
             /\ Single /\ j = It => started[i] <= j

StartedInv ==
    Len(started) = toolCalls + IF Parallel /\ WaveBegun THEN Cardinality(Wave \ vetoed) ELSE 0

\* A call that came back with the question is known to the turn.
AskInv == \A k \in Index : place[k] \in {"after", "done"} /\ result[k] = "approval" => awaiting

WavesInv == WavesTyping /\ TodoInv /\ PlaceInv /\ StartInv /\ StartedInv

\* InTurn lists a finite set of numbers in their order.
LEMMA InTurnLists ==
  ASSUME NEW n \in Nat, NEW S \in SUBSET (1 .. n)
  PROVE  /\ IsFiniteSet(S) /\ Cardinality(S) \in Nat
         /\ InTurn(S) \in Seq(S) /\ Len(InTurn(S)) = Cardinality(S)
         /\ DOMAIN InTurn(S) = 1 .. Cardinality(S)
         /\ \A k \in S : \E i \in DOMAIN InTurn(S) : InTurn(S)[i] = k
         /\ \A i, j \in DOMAIN InTurn(S) : i < j => InTurn(S)[i] < InTurn(S)[j]
  <1> DEFINE R(k) == Cardinality({j \in S : j <= k})
             c == Cardinality(S)
             q == InTurn(S)
  <1>1. IsFiniteSet(S) /\ c \in Nat
    <2>1. IsFiniteSet(1 .. n)
      BY FS_Interval
    <2> QED
      BY <2>1, FS_Subset, FS_CardinalityType
  <1>2. \A k : IsFiniteSet({j \in S : j <= k}) /\ R(k) \in Nat /\ R(k) <= c
    BY <1>1, FS_Subset, FS_CardinalityType
  <1>3. \A k \in S : k \in Nat
    OBVIOUS
  <1>4. \A i, j \in S : i < j => R(i) < R(j)
    <2> SUFFICES ASSUME NEW i \in S, NEW j \in S, i < j PROVE R(i) < R(j)
      OBVIOUS
    <2>0. \A x \in S : x <= i => x <= j
      BY <1>3
    <2>1. {x \in S : x <= i} \subseteq {x \in S : x <= j}
      BY <2>0, Zenon
    <2>2. j \in {x \in S : x <= j} /\ j \notin {x \in S : x <= i}
      BY <1>3
    <2>3. {x \in S : x <= i} # {x \in S : x <= j}
      BY <2>2
    <2>4. R(i) <= R(j) /\ R(i) # R(j)
      BY <1>2, <2>1, <2>3, FS_Subset
    <2> QED
      BY <1>2, <2>4
  <1>40. \A i \in S : i \in Int /\ R(i) \in Int
    BY <1>2, <1>3
  <1> HIDE DEF R
  <1>41. \A i, j \in S : R(i) = R(j) => i = j
    <2> SUFFICES ASSUME NEW i \in S, NEW j \in S, R(i) = R(j) PROVE i = j
      OBVIOUS
    <2>1. ~(R(i) < R(j)) /\ ~(R(j) < R(i))
      BY <1>40
    <2>2. ~(i < j) /\ ~(j < i)
      BY <1>4, <2>1
    <2> QED
      BY <1>40, <2>2
  <1>42. \A i, j \in S : R(i) < R(j) => i < j
    <2> SUFFICES ASSUME NEW i \in S, NEW j \in S, R(i) < R(j) PROVE i < j
      OBVIOUS
    <2>1. ~(R(j) < R(i)) /\ i # j
      BY <1>40
    <2>2. ~(j < i)
      BY <1>4, <2>1
    <2> QED
      BY <1>40, <2>1, <2>2
  <1> USE DEF R
  <1>5. q = [i \in 1 .. c |-> CHOOSE k \in S : R(k) = i]
    BY DEF InTurn
  <1>6. \A i \in 1 .. c : q[i] \in S /\ R(q[i]) = i
    <2> SUFFICES ASSUME NEW i \in 1 .. c PROVE q[i] \in S /\ R(q[i]) = i
      OBVIOUS
    <2>1. \E k \in S : R(k) = i
      BY ONLY NthExists, n \in Nat, S \in SUBSET (1 .. n), i \in 1 .. c
    <2>2. q[i] = CHOOSE k \in S : R(k) = i
      BY <1>5
    <2> QED
      BY <2>1, <2>2
  <1>7. \A k \in S : R(k) \in 1 .. c
    <2> SUFFICES ASSUME NEW k \in S PROVE R(k) \in 1 .. c
      OBVIOUS
    <2>1. k \in {j \in S : j <= k}
      BY <1>3
    <2>2. R(k) # 0
      BY <1>2, <2>1, FS_EmptySet
    <2> QED
      BY <1>1, <1>2, <2>2
  <1> HIDE DEF R
  <1>8. DOMAIN q = 1 .. c
    BY <1>5
  <1>9. q \in [1 .. c -> S]
    BY <1>5, <1>6
  <1> HIDE DEF c, q
  <1>10. q \in Seq(S) /\ Len(q) = c
    <2>1. q \in Seq(S)
      BY <1>1, <1>9, SeqDef
    <2>2. DOMAIN q = 1 .. Len(q) /\ Len(q) \in Nat
      BY <2>1, LenProperties
    <2> QED
      BY <1>1, <1>8, <2>1, <2>2, SameLength
  <1>11. \A k \in S : \E i \in DOMAIN q : q[i] = k
    <2> SUFFICES ASSUME NEW k \in S PROVE q[R(k)] = k
      BY <1>7, <1>8
    <2>1. q[R(k)] \in S /\ R(q[R(k)]) = R(k)
      BY <1>6, <1>7
    <2> QED
      BY <1>41, <2>1
  <1>12. \A i, j \in DOMAIN q : i < j => q[i] < q[j]
    <2> SUFFICES ASSUME NEW i \in 1 .. c, NEW j \in 1 .. c, i < j PROVE q[i] < q[j]
      BY <1>8
    <2>1. q[i] \in S /\ q[j] \in S /\ R(q[i]) = i /\ R(q[j]) = j
      BY <1>6
    <2> QED
      BY <1>42, <2>1
  <1> QED
    BY <1>1, <1>8, <1>10, <1>11, <1>12 DEF c, q

\* What InTurn lists is in the set.
LEMMA InTurnRange ==
  ASSUME NEW n \in Nat, NEW S \in SUBSET (1 .. n)
  PROVE  /\ Range(InTurn(S)) = S
         /\ S = {} <=> InTurn(S) = <<>>
  <1>1. /\ IsFiniteSet(S) /\ InTurn(S) \in Seq(S) /\ Len(InTurn(S)) = Cardinality(S)
        /\ \A k \in S : \E i \in DOMAIN InTurn(S) : InTurn(S)[i] = k
    BY InTurnLists
  <1>2. \A i \in DOMAIN InTurn(S) : InTurn(S)[i] \in S
    BY <1>1, LenProperties, ElementOfSeq
  <1>3. Range(InTurn(S)) = S
    BY <1>1, <1>2, Zenon DEF Range
  <1>4. S = {} <=> Cardinality(S) = 0
    BY <1>1, FS_EmptySet
  <1>5. InTurn(S) = <<>> <=> Len(InTurn(S)) = 0
    BY <1>1, EmptySeq
  <1> QED
    BY <1>1, <1>3, <1>4, <1>5

\* partition_into_waves: what stands where in the list of waves. A wave is the
\* one with the reading calls or one call of the two other classes.
LEMMA WaveAt ==
  ASSUME NEW calls \in Seq(Tool)
  PROVE  LET reads == OfClass(calls, "read_only")
             sides == OfClass(calls, "side_effect")
             rest == OfClass(calls, "exclusive")
             first == IF reads = <<>> THEN 0 ELSE 1
         IN
         /\ reads \in Seq(DOMAIN calls) /\ sides \in Seq(DOMAIN calls) /\ rest \in Seq(DOMAIN calls)
         /\ Waves(calls) \in Seq(Seq(DOMAIN calls))
         /\ \A w \in DOMAIN Waves(calls) :
              \/ w = 1 /\ first = 1 /\ reads # <<>> /\ Waves(calls)[w] = reads
              \/ \E i \in DOMAIN sides : w = first + i /\ Waves(calls)[w] = <<sides[i]>>
              \/ \E i \in DOMAIN rest : w = first + Len(sides) + i /\ Waves(calls)[w] = <<rest[i]>>
  <1> DEFINE reads == OfClass(calls, "read_only")
             sides == OfClass(calls, "side_effect")
             rest == OfClass(calls, "exclusive")
             first == IF reads = <<>> THEN 0 ELSE 1
             D == DOMAIN calls
             a == IF reads = <<>> THEN <<>> ELSE <<reads>>
             b == Alone(sides)
             c == Alone(rest)
  <1>0. PICK Q : Q = Seq(D)
    OBVIOUS
  <1>1. D = 1 .. Len(calls) /\ Len(calls) \in Nat
    BY LenProperties
  <1>2. ASSUME NEW class PROVE OfClass(calls, class) \in Seq(D)
    <2> DEFINE S == {k \in D : Class(calls[k]) = class}
    <2>1. S \in SUBSET (1 .. Len(calls)) /\ S \subseteq D
      BY <1>1
    <2>2. InTurn(S) \in Seq(S)
      BY <1>1, <2>1, InTurnLists
    <2>3. InTurn(S) \in Seq(D)
      BY <2>1, <2>2, SeqMonotonic
    <2> QED
      BY <2>3 DEF OfClass
  <1>3. reads \in Seq(D) /\ sides \in Seq(D) /\ rest \in Seq(D)
    BY <1>2
  <1>4. ASSUME NEW q \in Seq(D)
        PROVE  /\ Alone(q) \in Seq(Q) /\ Len(Alone(q)) = Len(q)
               /\ \A i \in DOMAIN q : Alone(q)[i] = <<q[i]>>
    <2>1. DOMAIN q = 1 .. Len(q) /\ Len(q) \in Nat /\ \A i \in DOMAIN q : q[i] \in D
      BY LenProperties, ElementOfSeq
    <2>2. Alone(q) = [k \in 1 .. Len(q) |-> <<q[k]>>]
      BY <2>1 DEF Alone
    <2>3. \A k \in 1 .. Len(q) : <<q[k]>> \in Q
      BY <1>0, <2>1
    <2> QED
      BY ONLY <2>1, <2>2, <2>3
  <1>5. /\ a \in Seq(Q) /\ Len(a) = first
        /\ first = 1 => reads # <<>> /\ a[1] = reads
    <2>1. CASE reads = <<>>
      <3>1. a = <<>> /\ first = 0
        BY <2>1
      <3>2. a \in Seq(Q) /\ Len(a) = 0
        BY ONLY <3>1, EmptySeq
      <3> QED
        BY ONLY <3>1, <3>2
    <2>2. CASE reads # <<>>
      <3>1. a = <<reads>> /\ first = 1
        BY <2>2
      <3>2. reads \in Q
        BY <1>0, <1>3
      <3>3. a \in Seq(Q) /\ Len(a) = 1 /\ a[1] = reads
        BY ONLY <3>1, <3>2
      <3> QED
        BY ONLY <2>2, <3>1, <3>3
    <2> QED
      BY <2>1, <2>2
  <1>6. Waves(calls) = (a \o b) \o c
    BY DEF Waves
  <1>7. /\ b \in Seq(Q) /\ Len(b) = Len(sides) /\ \A i \in DOMAIN sides : b[i] = <<sides[i]>>
        /\ c \in Seq(Q) /\ Len(c) = Len(rest) /\ \A i \in DOMAIN rest : c[i] = <<rest[i]>>
    BY <1>3, <1>4
  <1>8. /\ DOMAIN sides = 1 .. Len(sides) /\ Len(sides) \in Nat
        /\ DOMAIN rest = 1 .. Len(rest) /\ Len(rest) \in Nat /\ first \in {0, 1}
    BY <1>3, LenProperties
  <1> HIDE DEF a, b, c, D
  <1>9. PICK ab : ab = a \o b
    OBVIOUS
  <1>90. /\ ab \in Seq(Q) /\ Len(ab) = Len(a) + Len(b)
         /\ \A i \in 1 .. Len(a) + Len(b) : ab[i] = IF i <= Len(a) THEN a[i] ELSE b[i - Len(a)]
    <2>1. a \in Seq(Q) /\ b \in Seq(Q)
      BY <1>5, <1>7
    <2>2. /\ a \o b \in Seq(Q) /\ Len(a \o b) = Len(a) + Len(b)
          /\ \A i \in 1 .. Len(a) + Len(b) : (a \o b)[i] = IF i <= Len(a) THEN a[i] ELSE b[i - Len(a)]
      BY ONLY <2>1, ConcatProperties
    <2> QED
      BY ONLY <1>9, <2>2, Zenon
  <1>91. PICK abc : abc = ab \o c
    OBVIOUS
  <1>92. /\ abc \in Seq(Q) /\ Len(abc) = Len(ab) + Len(c)
         /\ \A i \in 1 .. Len(ab) + Len(c) : abc[i] = IF i <= Len(ab) THEN ab[i] ELSE c[i - Len(ab)]
    <2>1. ab \in Seq(Q) /\ c \in Seq(Q)
      BY <1>7, <1>90
    <2>2. /\ ab \o c \in Seq(Q) /\ Len(ab \o c) = Len(ab) + Len(c)
          /\ \A i \in 1 .. Len(ab) + Len(c) :
                (ab \o c)[i] = IF i <= Len(ab) THEN ab[i] ELSE c[i - Len(ab)]
      BY ONLY <2>1, ConcatProperties
    <2> QED
      BY ONLY <1>91, <2>2, Zenon
  <1>10. /\ Waves(calls) = abc /\ DOMAIN abc = 1 .. first + Len(sides) + Len(rest)
         /\ Len(ab) = first + Len(sides) /\ Len(a) = first
    BY <1>5, <1>6, <1>7, <1>8, <1>9, <1>90, <1>91, <1>92, LenProperties
  <1>11. ASSUME NEW w \in DOMAIN Waves(calls)
         PROVE  \/ w = 1 /\ first = 1 /\ reads # <<>> /\ Waves(calls)[w] = reads
                \/ \E i \in DOMAIN sides : w = first + i /\ Waves(calls)[w] = <<sides[i]>>
                \/ \E i \in DOMAIN rest : w = first + Len(sides) + i /\ Waves(calls)[w] = <<rest[i]>>
    <2>1. w \in 1 .. first + Len(sides) + Len(rest)
      BY <1>10
    <2>10. /\ Len(a) + Len(b) = first + Len(sides)
           /\ Len(ab) + Len(c) = first + Len(sides) + Len(rest)
      BY <1>7, <1>10
    <2>11. /\ w <= first + Len(sides) => Waves(calls)[w] = ab[w]
           /\ w > first + Len(sides) => Waves(calls)[w] = c[w - (first + Len(sides))]
      BY <1>8, <1>92, <1>10, <2>1, <2>10
    <2>12. w <= first + Len(sides) => ab[w] = IF w <= first THEN a[w] ELSE b[w - first]
      BY <1>8, <1>90, <1>10, <2>1, <2>10
    <2>2. CASE w <= first
      BY <1>5, <1>8, <2>1, <2>2, <2>11, <2>12
    <2>3. CASE w > first /\ w <= first + Len(sides)
      <3>1. w - first \in DOMAIN sides /\ w = first + (w - first)
        BY <1>8, <2>1, <2>3
      <3>2. Waves(calls)[w] = b[w - first]
        BY <1>8, <2>1, <2>3, <2>11, <2>12
      <3> QED
        BY <1>7, <3>1, <3>2
    <2>4. CASE w > first + Len(sides)
      <3>1. /\ w - (first + Len(sides)) \in DOMAIN rest
            /\ w = first + Len(sides) + (w - (first + Len(sides)))
        BY <1>8, <2>1, <2>4
      <3> QED
        BY <1>7, <2>4, <2>11, <3>1
    <2> QED
      BY <1>8, <2>1, <2>2, <2>3, <2>4
  <1> QED
    BY <1>0, <1>3, <1>10, <1>11, <1>92 DEF D

\* OfClass lists calls of the class, in the order of the response.
LEMMA OfClassIs ==
  ASSUME NEW calls \in Seq(Tool), NEW class
  PROVE  /\ \A i \in DOMAIN OfClass(calls, class) :
              OfClass(calls, class)[i] \in DOMAIN calls /\ Class(calls[OfClass(calls, class)[i]]) = class
         /\ \A i, j \in DOMAIN OfClass(calls, class) :
              i < j => OfClass(calls, class)[i] < OfClass(calls, class)[j]
  <1> DEFINE S == {k \in DOMAIN calls : Class(calls[k]) = class}
  <1>1. DOMAIN calls = 1 .. Len(calls) /\ Len(calls) \in Nat
    BY LenProperties
  <1>2. S \in SUBSET (1 .. Len(calls))
    BY <1>1
  <1>3. OfClass(calls, class) = InTurn(S)
    BY DEF OfClass
  <1>4. \A k \in S : k \in DOMAIN calls /\ Class(calls[k]) = class
    OBVIOUS
  <1> HIDE DEF S
  <1>5. /\ InTurn(S) \in Seq(S)
        /\ \A i, j \in DOMAIN InTurn(S) : i < j => InTurn(S)[i] < InTurn(S)[j]
    BY <1>1, <1>2, InTurnLists
  <1>6. \A i \in DOMAIN InTurn(S) : InTurn(S)[i] \in S
    BY <1>5, LenProperties, ElementOfSeq
  <1> QED
    BY <1>3, <1>4, <1>5, <1>6

\* The waves of partition_into_waves are in order, and only calls that read
\* are together in one.
LEMMA WavesInOrder ==
  ASSUME NEW calls \in Seq(Tool)
  PROVE  /\ Waves(calls) \in Seq(Seq(DOMAIN calls))
         /\ \A w \in DOMAIN Waves(calls) : Len(Waves(calls)[w]) > 0
         /\ Sorted(Waves(calls)) /\ TogetherRead(Waves(calls), calls)
         /\ ClassesInOrder(Waves(calls), calls)
  <1> DEFINE W == Waves(calls)
             reads == OfClass(calls, "read_only")
             sides == OfClass(calls, "side_effect")
             rest == OfClass(calls, "exclusive")
             first == IF reads = <<>> THEN 0 ELSE 1
  <1>5. /\ reads \in Seq(DOMAIN calls) /\ sides \in Seq(DOMAIN calls) /\ rest \in Seq(DOMAIN calls)
        /\ W \in Seq(Seq(DOMAIN calls))
        /\ \A w \in DOMAIN W :
              \/ w = 1 /\ first = 1 /\ reads # <<>> /\ W[w] = reads
              \/ \E i \in DOMAIN sides : w = first + i /\ W[w] = <<sides[i]>>
              \/ \E i \in DOMAIN rest : w = first + Len(sides) + i /\ W[w] = <<rest[i]>>
    BY WaveAt
  <1>6. /\ \A i \in DOMAIN reads : reads[i] \in DOMAIN calls /\ Class(calls[reads[i]]) = "read_only"
        /\ \A i, j \in DOMAIN reads : i < j => reads[i] < reads[j]
    BY OfClassIs
  <1>7. /\ \A i \in DOMAIN sides : sides[i] \in DOMAIN calls /\ Class(calls[sides[i]]) = "side_effect"
        /\ \A i, j \in DOMAIN sides : i < j => sides[i] < sides[j]
    BY OfClassIs
  <1>8. /\ \A i \in DOMAIN rest : rest[i] \in DOMAIN calls /\ Class(calls[rest[i]]) = "exclusive"
        /\ \A i, j \in DOMAIN rest : i < j => rest[i] < rest[j]
    BY OfClassIs
  <1>9. /\ DOMAIN reads = 1 .. Len(reads) /\ Len(reads) \in Nat
        /\ DOMAIN sides = 1 .. Len(sides) /\ Len(sides) \in Nat
        /\ DOMAIN rest = 1 .. Len(rest) /\ Len(rest) \in Nat /\ first \in {0, 1}
        /\ reads # <<>> => Len(reads) > 0
    BY <1>5, LenProperties, EmptySeq
  <1> HIDE DEF W, reads, sides, rest, first
  <1>10. \A x : Len(<<x>>) = 1 /\ DOMAIN <<x>> = {1} /\ <<x>>[1] = x /\ Range(<<x>>) = {x}
    <2> TAKE x
    <2>1. Len(<<x>>) = 1 /\ <<x>>[1] = x
      OBVIOUS
    <2>2. DOMAIN <<x>> = {1}
      OBVIOUS
    <2> QED
      BY <2>1, <2>2, Zenon DEF Range
  <1>11. \A w \in DOMAIN W :
           \/ w = 1 /\ first = 1 /\ W[w] = reads
           \/ Len(W[w]) = 1 /\ DOMAIN W[w] = {1}
    BY <1>5, <1>10
  <1>110. \A w \in DOMAIN W : Len(W[w]) \in Nat
    <2>1. Len(reads) \in Nat /\ 1 \in Nat
      BY <1>9
    <2> QED
      BY <1>11, <2>1
  <1>12. Sorted(W) /\ TogetherRead(W, calls) /\ \A w \in DOMAIN W : Len(W[w]) > 0
    <2>1. Sorted(W)
      <3> SUFFICES ASSUME NEW w \in DOMAIN W, NEW i \in DOMAIN W[w], NEW j \in DOMAIN W[w], i < j
                   PROVE  W[w][i] < W[w][j]
        BY DEF Sorted
      <3>1. W[w] = reads \/ (i = 1 /\ j = 1)
        BY <1>11
      <3>2. W[w] = reads
        BY <3>1
      <3> QED
        BY <1>6, <3>2
    <2>2. TogetherRead(W, calls)
      <3> SUFFICES ASSUME NEW w \in DOMAIN W, Len(W[w]) > 1, NEW i \in DOMAIN W[w]
                   PROVE  Class(calls[W[w][i]]) = "read_only"
        BY DEF TogetherRead
      <3>1. W[w] = reads
        <4>1. ~(Len(W[w]) = 1)
          <5>1. Len(W[w]) \in Nat
            BY <1>110
          <5>2. Len(W[w]) > 1
            OBVIOUS
          <5>3. \A x \in Nat : x > 1 => ~(x = 1)
            BY ONLY TRUE
          <5> QED
            BY ONLY <5>1, <5>2, <5>3
        <4> QED
          BY <1>11, <4>1, Zenon
      <3> QED
        BY <1>6, <3>1
    <2>3. \A w \in DOMAIN W : Len(W[w]) > 0
      <3> SUFFICES ASSUME NEW w \in DOMAIN W PROVE Len(W[w]) > 0
        OBVIOUS
      <3>1. (W[w] = reads /\ reads # <<>>) \/ Len(W[w]) = 1
        BY <1>5, <1>10
      <3>2. CASE W[w] = reads /\ reads # <<>>
        BY <1>9, <3>2
      <3>3. CASE Len(W[w]) = 1
        BY ONLY <3>3
      <3> QED
        BY <3>1, <3>2, <3>3
    <2> QED
      BY <2>1, <2>2, <2>3
  <1>13. \A x \in Range(reads) : Class(calls[x]) = "read_only"
    BY <1>6 DEF Range
  <1>14. ASSUME NEW v \in DOMAIN W, NEW w \in DOMAIN W, v < w,
                NEW x \in Range(W[v]), NEW y \in Range(W[w])
         PROVE  x # y /\ (Class(calls[x]) = Class(calls[y]) => x < y)
    <2>1. CASE \E i \in DOMAIN rest : w = first + Len(sides) + i /\ W[w] = <<rest[i]>>
      <3>1. PICK j \in DOMAIN rest : w = first + Len(sides) + j /\ W[w] = <<rest[j]>>
        BY <2>1
      <3>2. y = rest[j] /\ Class(calls[y]) = "exclusive"
        BY <1>8, <1>10, <3>1
      <3>3. CASE v = 1 /\ first = 1 /\ W[v] = reads
        BY <1>13, <3>2, <3>3
      <3>4. CASE \E i \in DOMAIN sides : v = first + i /\ W[v] = <<sides[i]>>
        BY <1>7, <1>10, <3>2, <3>4
      <3>5. CASE \E i \in DOMAIN rest : v = first + Len(sides) + i /\ W[v] = <<rest[i]>>
        <4>1. PICK i \in DOMAIN rest : v = first + Len(sides) + i /\ W[v] = <<rest[i]>>
          BY <3>5
        <4>2. x = rest[i]
          BY <1>10, <4>1
        <4>3. i < j
          BY <1>9, <1>14, <3>1, <4>1
        <4>4. rest[i] < rest[j] /\ rest[i] \in DOMAIN calls /\ rest[j] \in DOMAIN calls
          BY <1>8, <4>3
        <4> QED
          BY <3>2, <4>2, <4>4, LenProperties
      <3> QED
        BY <1>5, <3>3, <3>4, <3>5
    <2>2. CASE \E i \in DOMAIN sides : w = first + i /\ W[w] = <<sides[i]>>
      <3>1. PICK j \in DOMAIN sides : w = first + j /\ W[w] = <<sides[j]>>
        BY <2>2
      <3>2. y = sides[j] /\ Class(calls[y]) = "side_effect"
        BY <1>7, <1>10, <3>1
      <3>3. CASE v = 1 /\ first = 1 /\ W[v] = reads
        BY <1>13, <3>2, <3>3
      <3>4. CASE \E i \in DOMAIN sides : v = first + i /\ W[v] = <<sides[i]>>
        <4>1. PICK i \in DOMAIN sides : v = first + i /\ W[v] = <<sides[i]>>
          BY <3>4
        <4>2. x = sides[i]
          BY <1>10, <4>1
        <4>3. i < j
          BY <1>9, <1>14, <3>1, <4>1
        <4>4. sides[i] < sides[j] /\ sides[i] \in DOMAIN calls /\ sides[j] \in DOMAIN calls
          BY <1>7, <4>3
        <4> QED
          BY <3>2, <4>2, <4>4, LenProperties
      <3>5. CASE \E i \in DOMAIN rest : v = first + Len(sides) + i /\ W[v] = <<rest[i]>>
        BY <1>9, <1>14, <3>1, <3>5
      <3> QED
        BY <1>5, <3>3, <3>4, <3>5
    <2>3. CASE w = 1 /\ first = 1
      BY <1>5, <1>9, <1>14, <2>3
    <2> QED
      BY <1>5, <2>1, <2>2, <2>3
  <1>15. ClassesInOrder(W, calls)
    BY <1>14 DEF ClassesInOrder
  <1> QED
    BY <1>5, <1>12, <1>15 DEF W

\* The calls of a wave are calls of the batch, and of the bounded index.
LEMMA SomeWave ==
  ASSUME WavesTyping
  PROVE  \A w \in DOMAIN todo : CallsOf(w) \subseteq DOMAIN batch /\ CallsOf(w) \subseteq Index
  <1>1. DOMAIN batch = 1 .. Len(batch) /\ Len(batch) \in Nat /\ Len(batch) <= MaxCalls
    BY LenProperties DEF WavesTyping
  <1>2. DOMAIN batch \subseteq Index
    BY <1>1, ToolWavesAssumption DEF Index
  <1>3. \A w \in DOMAIN todo : todo[w] \in Seq(DOMAIN batch)
    BY LenProperties, ElementOfSeq DEF WavesTyping
  <1>4. \A w \in DOMAIN todo : \A i \in DOMAIN todo[w] : todo[w][i] \in DOMAIN batch
    BY <1>3, LenProperties, ElementOfSeq
  <1>5. \A w \in DOMAIN todo : CallsOf(w) \subseteq DOMAIN batch
    BY <1>4 DEF CallsOf, Range
  <1> QED
    BY <1>2, <1>5

\* The current wave is the first of those to come.
LEMMA FirstWave ==
  ASSUME WavesTyping, todo # <<>>
  PROVE  /\ 1 \in DOMAIN todo /\ Head(todo) = todo[1] /\ Wave = CallsOf(1)
         /\ Wave \subseteq DOMAIN batch /\ Wave \subseteq Index
         /\ Head(todo) \in Seq(DOMAIN batch) /\ Len(Head(todo)) \in Nat /\ Len(Head(todo)) > 0
         /\ DOMAIN Head(todo) = 1 .. Len(Head(todo))
         /\ Single \/ Parallel
         /\ IsFiniteSet(Wave)
  <1>1. todo \in Seq(Seq(DOMAIN batch)) /\ \A w \in DOMAIN todo : Len(todo[w]) > 0
    BY DEF WavesTyping
  <1>2. /\ DOMAIN todo = 1 .. Len(todo) /\ Len(todo) \in Nat /\ Len(todo) # 0
        /\ Head(todo) = todo[1] /\ Head(todo) \in Seq(DOMAIN batch)
    BY <1>1, LenProperties, EmptySeq, HeadTailProperties
  <1>3. 1 \in DOMAIN todo
    BY <1>2
  <1>4. Wave = CallsOf(1)
    BY <1>2 DEF Wave, CallsOf
  <1>5. Wave \subseteq DOMAIN batch /\ Wave \subseteq Index
    BY <1>3, <1>4, SomeWave
  <1>6. Len(Head(todo)) \in Nat /\ Len(Head(todo)) > 0 /\ DOMAIN Head(todo) = 1 .. Len(Head(todo))
    BY <1>1, <1>2, <1>3, LenProperties
  <1>7. Single \/ Parallel
    <2>1. \A n \in Nat : n > 0 => n = 1 \/ n > 1
      OBVIOUS
    <2>2. Len(Head(todo)) = 1 \/ Len(Head(todo)) > 1
      BY ONLY <1>6, <2>1
    <2>3. todo # <<>>
      OBVIOUS
    <2> QED
      BY ONLY <2>2, <2>3, Zenon DEF Single, Parallel
  <1>8. IsFiniteSet(Wave)
    <2>1. IsFiniteSet(Index)
      BY ToolWavesAssumption, FS_Interval DEF Index
    <2> QED
      BY <1>5, <2>1, FS_Subset
  <1> QED
    BY <1>2, <1>3, <1>4, <1>5, <1>6, <1>7, <1>8

\* A wave of one is that one call.
LEMMA SingleWave ==
  ASSUME WavesTyping, Single
  PROVE  /\ todo # <<>> /\ ~Parallel
         /\ Wave = {It} /\ It \in DOMAIN batch /\ It \in Index
  <1>1. todo # <<>> /\ Len(Head(todo)) = 1
    BY DEF Single
  <1>2. /\ Head(todo) \in Seq(DOMAIN batch) /\ DOMAIN Head(todo) = 1 .. Len(Head(todo))
        /\ Wave \subseteq DOMAIN batch /\ Wave \subseteq Index
    BY <1>1, FirstWave
  <1>3. DOMAIN Head(todo) = {1}
    BY <1>1, <1>2
  <1>4. It = Head(todo)[1]
    BY <1>1, <1>2, EmptySeq, HeadTailProperties DEF It
  <1>5. Wave = {It}
    BY <1>3, <1>4, Zenon DEF Wave, Range
  <1>6. ~Parallel
    <2>1. ~(1 > 1)
      OBVIOUS
    <2> QED
      BY <1>1, <2>1, Zenon DEF Parallel
  <1>7. It \in Wave
    BY <1>5
  <1> QED
    BY <1>1, <1>2, <1>5, <1>6, <1>7

\* The waves as they are when a batch begins.
LEMMA WavesBegin == ASSUME WavesInit PROVE WavesInv
  <1>1. batch \in Seq(Tool) /\ Len(batch) <= MaxCalls
    <2>1. PICK n \in 0 .. MaxCalls : batch \in [1 .. n -> Tool]
      BY DEF WavesInit, BoundedSeq, SeqOf
    <2>2. n \in Nat /\ n <= MaxCalls
      BY ToolWavesAssumption
    <2>3. batch \in Seq(Tool) /\ DOMAIN batch = 1 .. n
      BY <2>1, <2>2, SeqDef
    <2>4. DOMAIN batch = 1 .. Len(batch) /\ Len(batch) \in Nat
      BY <2>3, LenProperties
    <2>5. Len(batch) = n
      BY <2>2, <2>3, <2>4, SameLength
    <2> QED
      BY <2>2, <2>3, <2>5
  <1>2. /\ todo \in Seq(Seq(DOMAIN batch)) /\ \A w \in DOMAIN todo : Len(todo[w]) > 0
        /\ Sorted(todo) /\ TogetherRead(todo, batch) /\ ClassesInOrder(todo, batch)
    BY <1>1, WavesInOrder DEF WavesInit
  <1>3. /\ place = [k \in Index |-> "idle"] /\ result = [k \in Index |-> "none"]
        /\ toolCalls = 0 /\ started = <<>> /\ vetoed = {} /\ DOMAIN started = {}
        /\ Len(started) = 0
    BY DEF WavesInit
  <1>4. WavesTyping
    BY <1>1, <1>2, <1>3 DEF WavesTyping, Stages, Results
  <1>5. TodoInv
    BY <1>2 DEF TodoInv
  <1>6. \A w \in DOMAIN todo : CallsOf(w) \subseteq Index
    BY <1>4, SomeWave
  <1>7. PlaceInv
    <2>1. todo # <<>> => Wave = CallsOf(1) /\ 1 \in DOMAIN todo
      BY <1>4, FirstWave
    <2>2. \A k \in Index : place[k] = "idle"
      BY <1>3
    <2>3. \A k \in Wave : todo # <<>> => k \in Index
      BY <1>6, <2>1
    <2>4. Single => It \in Index
      BY <1>4, SingleWave
    <2> QED
      BY <1>6, <2>1, <2>2, <2>3, <2>4 DEF PlaceInv, Parallel
  <1>8. StartInv
    BY <1>3 DEF StartInv, OrderKept
  <1>9. StartedInv
    BY <1>3, <1>4, <1>6, FirstWave DEF StartedInv, WaveBegun, Parallel
  <1> QED
    BY <1>4, <1>5, <1>7, <1>8, <1>9 DEF WavesInv

\* The waves that are left when the first is over.
LEMMA RestOfWaves ==
  ASSUME NEW D, NEW T \in Seq(Seq(D)), T # <<>>, \A w \in DOMAIN T : Len(T[w]) > 0
  PROVE  /\ Tail(T) \in Seq(Seq(D))
         /\ \A w \in DOMAIN Tail(T) : w \in Nat /\ w > 0 /\ w + 1 \in DOMAIN T /\ Tail(T)[w] = T[w + 1]
         /\ Tail(T) # <<>> => /\ 1 \in DOMAIN Tail(T) /\ 2 \in DOMAIN T
                              /\ Head(Tail(T)) = T[2]
                              /\ Head(Head(Tail(T))) \in Range(T[2])
  <1>0. PICK Q : Q = Seq(D)
    OBVIOUS
  <1>1. T \in Seq(Q)
    BY <1>0
  <1>2. /\ DOMAIN T = 1 .. Len(T) /\ Len(T) \in Nat /\ Len(T) # 0
        /\ Tail(T) \in Seq(Q) /\ Len(Tail(T)) = Len(T) - 1
        /\ \A i \in 1 .. Len(Tail(T)) : Tail(T)[i] = T[i + 1]
    BY ONLY <1>1, T # <<>>, LenProperties, EmptySeq, HeadTailProperties
  <1>3. DOMAIN Tail(T) = 1 .. (Len(T) - 1)
    BY ONLY <1>2, LenProperties
  <1>4. \A w \in DOMAIN Tail(T) : w \in Nat /\ w > 0 /\ w + 1 \in DOMAIN T /\ Tail(T)[w] = T[w + 1]
    BY ONLY <1>2, <1>3
  <1>5. ASSUME Tail(T) # <<>>
        PROVE  /\ 1 \in DOMAIN Tail(T) /\ 2 \in DOMAIN T /\ Head(Tail(T)) = T[2]
               /\ Head(Head(Tail(T))) \in Range(T[2])
    <2>1. Len(Tail(T)) # 0 /\ Head(Tail(T)) = Tail(T)[1]
      <3>1. PICK R : R = Tail(T)
        OBVIOUS
      <3>2. R \in Seq(Q) /\ R # <<>>
        BY ONLY <1>2, <1>5, <3>1
      <3>3. Len(R) # 0 /\ Head(R) = R[1]
        BY ONLY <3>2, EmptySeq, HeadTailProperties
      <3> QED
        BY ONLY <3>1, <3>3, Zenon
    <2>2. 1 \in DOMAIN Tail(T)
      BY ONLY <1>2, <1>3, <2>1
    <2>3. 2 \in DOMAIN T /\ Head(Tail(T)) = T[2]
      <3>1. 1 + 1 = 2
        OBVIOUS
      <3> QED
        BY ONLY <1>4, <2>1, <2>2, <3>1
    <2>4. T[2] \in Seq(D) /\ Len(T[2]) > 0
      BY <1>0, <1>1, <1>2, <2>3, ElementOfSeq
    <2>5. 1 \in DOMAIN T[2] /\ Head(T[2]) = T[2][1]
      BY ONLY <2>4, LenProperties, EmptySeq, HeadTailProperties
    <2> QED
      BY <2>2, <2>3, <2>5 DEF Range
  <1> QED
    BY <1>0, <1>2, <1>4, <1>5

\* The calls of two waves are different ones, in order if they are of one class.
LEMMA WavesApart ==
  ASSUME TodoInv, NEW v \in DOMAIN todo, NEW w \in DOMAIN todo, v < w,
         NEW i \in CallsOf(v), NEW j \in CallsOf(w)
  PROVE  i # j /\ (Class(batch[i]) = Class(batch[j]) => i < j)
  BY DEF TodoInv, ClassesInOrder, CallsOf

\* A wave is over and the next one begins: all its calls are done, and those
\* of the next one are idle.
LEMMA Advances ==
  ASSUME WavesInv, todo # <<>>, batch' = batch, todo' = Tail(todo),
         \A k \in Index : place'[k] = IF k \in Wave THEN "done" ELSE place[k],
         started' = started,
         vetoed \subseteq vetoed', vetoed' \subseteq vetoed \cup Wave,
         \A i \in DOMAIN started : started[i] \notin vetoed'
  PROVE  /\ todo' \in Seq(Seq(DOMAIN batch)) /\ \A w \in DOMAIN todo' : Len(todo'[w]) > 0
         /\ TodoInv' /\ PlaceInv' /\ StartInv'
         /\ ~(Parallel' /\ WaveBegun')
  <1>1. WavesTyping /\ TodoInv /\ PlaceInv /\ StartInv
    BY DEF WavesInv
  <1>2. /\ todo' \in Seq(Seq(DOMAIN batch))
        /\ \A w \in DOMAIN todo' : w \in Nat /\ w > 0 /\ w + 1 \in DOMAIN todo /\ todo'[w] = todo[w + 1]
        /\ todo' # <<>> => /\ 1 \in DOMAIN todo' /\ 2 \in DOMAIN todo
                           /\ Head(todo') = todo[2] /\ Head(Head(todo')) \in Range(todo[2])
    <2>1. PICK D : D = DOMAIN batch
      OBVIOUS
    <2>2. todo \in Seq(Seq(D)) /\ todo # <<>> /\ \A w \in DOMAIN todo : Len(todo[w]) > 0
      BY <1>1, <2>1 DEF WavesTyping
    <2>3. /\ Tail(todo) \in Seq(Seq(D))
          /\ \A w \in DOMAIN Tail(todo) :
                w \in Nat /\ w > 0 /\ w + 1 \in DOMAIN todo /\ Tail(todo)[w] = todo[w + 1]
          /\ Tail(todo) # <<>> => /\ 1 \in DOMAIN Tail(todo) /\ 2 \in DOMAIN todo
                                  /\ Head(Tail(todo)) = todo[2]
                                  /\ Head(Head(Tail(todo))) \in Range(todo[2])
      BY ONLY <2>2, RestOfWaves, ZenonT(30)
    <2>4. todo' = Tail(todo)
      OBVIOUS
    <2> QED
      BY ONLY <2>1, <2>3, <2>4, Zenon
  <1>3. \A w \in DOMAIN todo' : Len(todo'[w]) > 0
    BY <1>1, <1>2 DEF WavesTyping
  <1>4. /\ 1 \in DOMAIN todo /\ Wave = CallsOf(1) /\ Wave \subseteq Index
    BY <1>1, FirstWave
  <1>5. \A w \in DOMAIN todo : CallsOf(w) \subseteq Index
    BY <1>1, SomeWave
  <1>6. \A w \in DOMAIN todo : w > 1 => \A k \in CallsOf(w) : place'[k] = "idle" /\ place[k] = "idle"
    <2> SUFFICES ASSUME NEW w \in DOMAIN todo, w > 1, NEW k \in CallsOf(w)
                 PROVE  place'[k] = "idle" /\ place[k] = "idle"
      OBVIOUS
    <2>1. place[k] = "idle" /\ k \in Index
      BY <1>1, <1>5 DEF PlaceInv
    <2>2. k \notin Wave
      BY <1>1, <1>4, WavesApart
    <2> QED
      BY <2>1, <2>2
  <1>7. \A w \in DOMAIN todo' : \A k \in Range(todo'[w]) : place'[k] = "idle" /\ place[k] = "idle"
    <2> SUFFICES ASSUME NEW w \in DOMAIN todo', NEW k \in Range(todo'[w])
                 PROVE  place'[k] = "idle" /\ place[k] = "idle"
      OBVIOUS
    <2>1. w + 1 \in DOMAIN todo /\ w + 1 > 1 /\ k \in CallsOf(w + 1)
      BY <1>2 DEF CallsOf
    <2> QED
      BY <1>6, <2>1
  <1>8. todo' # <<>> => /\ \A k \in Wave' : place'[k] = "idle"
                        /\ It' \in Wave'
    <2> SUFFICES ASSUME todo' # <<>>
                 PROVE  (\A k \in Wave' : place'[k] = "idle") /\ It' \in Wave'
      OBVIOUS
    <2>1. /\ 1 \in DOMAIN todo' /\ Head(todo') = todo'[1] /\ Head(Head(todo')) \in Range(Head(todo'))
      <3>1. todo'[1] = todo[1 + 1] /\ 1 + 1 = 2
        BY <1>2
      <3> QED
        BY <1>2, <3>1
    <2>2. Wave' = Range(todo'[1]) /\ It' \in Wave'
      BY <2>1 DEF Wave, It
    <2> QED
      BY <1>7, <2>1, <2>2
  <1>9. ~(Parallel' /\ WaveBegun')
    BY <1>8 DEF Parallel, WaveBegun
  <1>10. TodoInv'
    <2>1. Sorted(todo') /\ TogetherRead(todo', batch)
      BY <1>1, <1>2 DEF TodoInv, Sorted, TogetherRead
    <2>2. ClassesInOrder(todo', batch)
      <3> SUFFICES ASSUME NEW v \in DOMAIN todo', NEW w \in DOMAIN todo', v < w,
                          NEW i \in Range(todo'[v]), NEW j \in Range(todo'[w])
                   PROVE  i # j /\ (Class(batch[i]) = Class(batch[j]) => i < j)
        BY DEF ClassesInOrder
      <3>1. /\ v + 1 \in DOMAIN todo /\ w + 1 \in DOMAIN todo /\ v + 1 < w + 1
            /\ i \in CallsOf(v + 1) /\ j \in CallsOf(w + 1)
        BY <1>2 DEF CallsOf
      <3> QED
        BY ONLY <1>1, <3>1, WavesApart
    <2> QED
      BY <2>1, <2>2 DEF TodoInv
  <1>11. PlaceInv'
    <2>1. \A w \in DOMAIN todo' : w > 1 => \A k \in CallsOf(w)' : place'[k] = "idle"
      BY <1>7 DEF CallsOf
    <2>2. \A k \in Index : place'[k] \in {"idle", "done"}
      BY <1>1 DEF PlaceInv
    <2>3. Single' => place'[It'] \notin {"ready", "done"}
      BY <1>8 DEF Single
    <2>4. Parallel' => \A k \in Wave' : place'[k] \in {"idle", "ready"}
      BY <1>8 DEF Parallel
    <2> QED
      BY <2>1, <2>2, <2>3, <2>4 DEF PlaceInv
  <1>12. StartInv'
    <2>1. \A k \in vetoed' : place'[k] \in {"ready", "done"}
      BY <1>1, <1>4 DEF StartInv, PlaceInv, WavesTyping
    <2>2. Unstarted' \subseteq Unstarted
      BY <1>1 DEF Unstarted
    <2>3. \A i \in DOMAIN started' : started'[i] \notin vetoed' \cup Unstarted'
      BY <1>1, <2>2 DEF StartInv
    <2>4. OrderKept'
      BY <1>1 DEF StartInv, OrderKept
    <2>5. ASSUME NEW w \in DOMAIN todo', NEW j \in CallsOf(w)', NEW i \in DOMAIN started',
                 Class(batch[started[i]]) = Class(batch[j])
          PROVE  started[i] < j
      <3>1. w + 1 \in DOMAIN todo /\ j \in CallsOf(w + 1) /\ place[j] = "idle" /\ j \in Index
        BY <1>2, <1>5, <1>7 DEF CallsOf
      <3>2. j \in Unstarted
        BY <3>1 DEF Unstarted
      <3> QED
        BY <1>1, <2>5, <3>1, <3>2 DEF StartInv
    <2>6. \A i \in DOMAIN started : started[i] \in Int
      <3>1. started \in Seq(Index)
        BY <1>1 DEF WavesTyping
      <3>2. \A i \in DOMAIN started : started[i] \in Index
        BY ONLY <3>1, LenProperties, ElementOfSeq
      <3> QED
        BY <3>2, ToolWavesAssumption DEF Index
    <2>7. \A w \in DOMAIN todo' : \A j \in CallsOf(w)' : j \in Int
      BY <1>2, <1>5 DEF CallsOf, Index
    <2>8. \A w \in DOMAIN todo' : \A j \in CallsOf(w)' : \A i \in DOMAIN started' :
             Class(batch'[started'[i]]) = Class(batch'[j]) =>
               /\ j \in Unstarted' => started'[i] < j
               /\ Single' /\ j = It' => started'[i] <= j
      BY <2>5, <2>6, <2>7
    <2> QED
      BY <2>1, <2>3, <2>4, <2>8 DEF StartInv
  <1> QED
    BY <1>2, <1>3, <1>9, <1>10, <1>11, <1>12

\* Within a wave only its own calls change.
LEMMA SameWave ==
  ASSUME WavesInv, todo # <<>>, batch' = batch, todo' = todo,
         \A k \in Index \ Wave : place'[k] = place[k]
  PROVE  /\ TodoInv' /\ Wave' = Wave /\ It' = It /\ (Single' <=> Single) /\ (Parallel' <=> Parallel)
         /\ \A w \in DOMAIN todo' : w > 1 => \A k \in CallsOf(w)' : place'[k] = "idle"
         /\ \A k \in Index : place'[k] \notin {"idle", "done"} => todo' # <<>> /\ k \in Wave'
         /\ \A w \in DOMAIN todo : w > 1 => \A k \in CallsOf(w) : k \in Index /\ k \notin Wave
  <1>1. WavesTyping /\ TodoInv /\ PlaceInv
    BY DEF WavesInv
  <1>2. TodoInv'
    BY <1>1 DEF TodoInv
  <1>3. Wave' = Wave /\ It' = It /\ (Single' <=> Single) /\ (Parallel' <=> Parallel)
    BY DEF Wave, It, Single, Parallel
  <1>4. 1 \in DOMAIN todo /\ Wave = CallsOf(1)
    BY <1>1, FirstWave
  <1>5. \A w \in DOMAIN todo : w > 1 => \A k \in CallsOf(w) : k \in Index /\ k \notin Wave
    BY <1>1, <1>4, SomeWave, WavesApart
  <1>6. \A w \in DOMAIN todo' : w > 1 => \A k \in CallsOf(w)' : place'[k] = "idle"
    BY <1>1, <1>5 DEF PlaceInv, CallsOf
  <1>7. \A k \in Index : place'[k] \notin {"idle", "done"} => todo' # <<>> /\ k \in Wave'
    BY <1>1, <1>3 DEF PlaceInv
  <1> QED
    BY <1>2, <1>3, <1>5, <1>6, <1>7

\* The call of a wave of one goes on without a new execution.
LEMMA GoesOn ==
  ASSUME WavesInv, Single, batch' = batch, todo' = todo, started' = started, vetoed' = vetoed,
         NEW p, place' = [place EXCEPT ![It] = p],
         \/ place[It] = "idle" /\ p = "hook"
         \/ place[It] = "running" /\ p \in {"retry", "after"}
  PROVE  TodoInv' /\ PlaceInv' /\ StartInv' /\ ~Parallel'
  <1>1. WavesTyping /\ PlaceInv /\ StartInv
    BY DEF WavesInv
  <1>2. todo # <<>> /\ ~Parallel /\ Wave = {It} /\ It \in Index
    BY <1>1, SingleWave
  <1>3. DOMAIN place = Index
    BY <1>1 DEF WavesTyping
  <1>4. place'[It] = p /\ \A k \in Index \ {It} : place'[k] = place[k]
    BY <1>2, <1>3
  <1>5. /\ TodoInv' /\ It' = It /\ (Single' <=> Single) /\ (Parallel' <=> Parallel)
        /\ \A w \in DOMAIN todo' : w > 1 => \A k \in CallsOf(w)' : place'[k] = "idle"
        /\ \A k \in Index : place'[k] \notin {"idle", "done"} => todo' # <<>> /\ k \in Wave'
    BY <1>2, <1>4, SameWave
  <1>6. PlaceInv'
    BY <1>2, <1>4, <1>5 DEF PlaceInv
  <1>7. Unstarted' \subseteq Unstarted
    BY <1>4 DEF Unstarted
  <1>8. StartInv'
    <2>1. \A k \in vetoed' : place'[k] \in {"ready", "done"}
      BY <1>1, <1>4 DEF StartInv, WavesTyping
    <2>2. \A i \in DOMAIN started' : started'[i] \notin vetoed' \cup Unstarted'
      BY <1>1, <1>7 DEF StartInv
    <2>3. OrderKept'
      BY <1>1 DEF StartInv, OrderKept
    <2>4. \A w \in DOMAIN todo' : CallsOf(w)' = CallsOf(w)
      BY DEF CallsOf
    <2>5. \A w \in DOMAIN todo' : \A j \in CallsOf(w)' : \A i \in DOMAIN started' :
             Class(batch'[started'[i]]) = Class(batch'[j]) =>
               /\ j \in Unstarted' => started'[i] < j
               /\ Single' /\ j = It' => started'[i] <= j
      BY <1>1, <1>5, <1>7, <2>4 DEF StartInv
    <2> QED
      BY <2>1, <2>2, <2>3, <2>5 DEF StartInv
  <1> QED
    BY <1>2, <1>5, <1>6, <1>8

\* The call of a wave of one is executed, for the first time or once more.
LEMMA Executes ==
  ASSUME WavesInv, Single, batch' = batch, todo' = todo, vetoed' = vetoed,
         started' = Append(started, It),
         NEW p \in {"running", "after"}, place' = [place EXCEPT ![It] = p],
         place[It] \in {"hook", "retry"}
  PROVE  /\ TodoInv' /\ PlaceInv' /\ StartInv' /\ ~Parallel'
         /\ started' \in Seq(Index) /\ Len(started') = Len(started) + 1
  <1>1. WavesTyping /\ TodoInv /\ PlaceInv /\ StartInv
    BY DEF WavesInv
  <1>2. todo # <<>> /\ ~Parallel /\ Wave = {It} /\ It \in Index
    BY <1>1, SingleWave
  <1>3. DOMAIN place = Index
    BY <1>1 DEF WavesTyping
  <1>4. place'[It] = p /\ \A k \in Index \ {It} : place'[k] = place[k]
    BY <1>2, <1>3
  <1>5. /\ TodoInv' /\ It' = It /\ (Single' <=> Single) /\ (Parallel' <=> Parallel)
        /\ \A w \in DOMAIN todo' : w > 1 => \A k \in CallsOf(w)' : place'[k] = "idle"
        /\ \A k \in Index : place'[k] \notin {"idle", "done"} => todo' # <<>> /\ k \in Wave'
        /\ \A w \in DOMAIN todo : w > 1 => \A k \in CallsOf(w) : k \in Index /\ k \notin Wave
    BY <1>2, <1>4, SameWave
  <1>6. PlaceInv'
    BY <1>2, <1>4, <1>5 DEF PlaceInv
  <1>7. Unstarted' \subseteq Unstarted /\ It \notin Unstarted'
    BY <1>4 DEF Unstarted
  <1>8. started \in Seq(Index)
    BY <1>1 DEF WavesTyping
  <1>9. PICK n \in Nat : n = Len(started)
    BY <1>8, LenProperties
  <1>10. /\ started' \in Seq(Index) /\ Len(started') = n + 1
         /\ DOMAIN started = 1 .. n /\ DOMAIN started' = 1 .. n + 1
         /\ \A i \in 1 .. n : started'[i] = started[i] /\ started[i] \in Index
         /\ started'[n + 1] = It
    BY ONLY <1>2, <1>8, <1>9, started' = Append(started, It), AppendProperties, LenProperties, ElementOfSeq
  <1>11. \A i \in 1 .. n + 1 : i \in 1 .. n \/ i = n + 1
    BY <1>9
  <1>12. \A k \in Index : k \in Int
    BY ToolWavesAssumption DEF Index
  <1>13. ASSUME NEW i \in 1 .. n, Class(batch[started[i]]) = Class(batch[It])
         PROVE  started[i] <= It
    <2>1. 1 \in DOMAIN todo /\ It \in CallsOf(1)
      BY <1>1, <1>2, FirstWave
    <2> QED
      BY <1>1, <1>10, <1>13, <2>1 DEF StartInv
  <1>14. StartInv'
    <2>1. \A k \in vetoed' : place'[k] \in {"ready", "done"}
      BY <1>1, <1>4 DEF StartInv, WavesTyping
    <2>2. It \notin vetoed
      BY <1>1 DEF StartInv
    <2>3. \A i \in DOMAIN started' : started'[i] \notin vetoed' \cup Unstarted'
      BY <1>1, <1>7, <1>10, <1>11, <2>2 DEF StartInv
    <2>4. OrderKept'
      <3> SUFFICES ASSUME NEW i \in 1 .. n + 1, NEW j \in 1 .. n + 1, i < j, started'[j] < started'[i]
                   PROVE  Class(batch[started'[i]]) # Class(batch[started'[j]])
        BY <1>10 DEF OrderKept
      <3>1. i \in 1 .. n
        BY <1>9
      <3>2. CASE j \in 1 .. n
        BY <1>1, <1>10, <3>1, <3>2 DEF StartInv, OrderKept
      <3>3. CASE j = n + 1
        <4>1. It < started[i] /\ started[i] \in Index
          BY <1>10, <3>1, <3>3
        <4>2. ~(started[i] <= It)
          BY <1>2, <1>12, <4>1
        <4> QED
          BY <1>10, <1>13, <3>1, <3>3, <4>2
      <3> QED
        BY <1>11, <3>2, <3>3
    <2>5. ASSUME NEW w \in DOMAIN todo, NEW j \in CallsOf(w), NEW i \in 1 .. n + 1,
                 Class(batch[started'[i]]) = Class(batch[j])
          PROVE  /\ j \in Unstarted' => started'[i] < j
                 /\ Single /\ j = It => started'[i] <= j
      <3>1. CASE i \in 1 .. n
        BY <1>1, <1>7, <1>10, <2>5, <3>1 DEF StartInv
      <3>2. CASE i = n + 1
        <4>1. j = It => started'[i] <= j
          BY <1>2, <1>10, <1>12, <3>2
        <4>2. ASSUME j \in Unstarted' PROVE started'[i] < j
          <5>1. 1 \in DOMAIN todo /\ It \in CallsOf(1) /\ Wave = CallsOf(1) /\ w \in Nat /\ w > 0
            BY <1>1, <1>2, FirstWave, LenProperties DEF WavesTyping
          <5>2. j # It
            BY <1>7, <4>2
          <5>3. w # 1
            BY <1>2, <5>1, <5>2
          <5> QED
            BY <1>1, <1>10, <2>5, <3>2, <5>1, <5>3, WavesApart
        <4> QED
          BY <4>1, <4>2
      <3> QED
        BY <1>11, <3>1, <3>2
    <2>6. \A w \in DOMAIN todo' : CallsOf(w)' = CallsOf(w)
      BY DEF CallsOf
    <2>7. \A w \in DOMAIN todo' : \A j \in CallsOf(w)' : \A i \in DOMAIN started' :
             Class(batch'[started'[i]]) = Class(batch'[j]) =>
               /\ j \in Unstarted' => started'[i] < j
               /\ Single' /\ j = It' => started'[i] <= j
      BY <1>5, <1>10, <2>5, <2>6
    <2> QED
      BY <2>1, <2>3, <2>4, <2>7 DEF StartInv
  <1> QED
    BY <1>2, <1>5, <1>6, <1>9, <1>10, <1>14

\* The call of a wave of one is done, blocked or not.
LEMMA EndsAlone ==
  ASSUME WavesInv, Single, Done(It), batch' = batch, started' = started,
         vetoed' = vetoed \/ (place[It] = "hook" /\ vetoed' = vetoed \cup {It})
  PROVE  /\ todo' \in Seq(Seq(DOMAIN batch)) /\ \A w \in DOMAIN todo' : Len(todo'[w]) > 0
         /\ TodoInv' /\ PlaceInv' /\ StartInv'
         /\ ~(Parallel' /\ WaveBegun')
         /\ place' \in [Index -> Stages] /\ vetoed' \subseteq Index
         /\ place'[It] = "done" /\ \A k \in Index \ {It} : place'[k] = place[k]
  <1>1. WavesTyping /\ StartInv
    BY DEF WavesInv
  <1>2. todo # <<>> /\ Wave = {It} /\ It \in Index
    BY <1>1, SingleWave
  <1>3. /\ todo' = Tail(todo)
        /\ place' = [place EXCEPT ![It] = "done"]
    BY <1>2 DEF Done
  <1>4. \A k \in Index : place'[k] = IF k \in Wave THEN "done" ELSE place[k]
    BY <1>1, <1>2, <1>3 DEF WavesTyping
  <1>5. vetoed \subseteq vetoed' /\ vetoed' \subseteq vetoed \cup Wave
    BY <1>2
  <1>6. \A i \in DOMAIN started : started[i] \notin vetoed'
    BY <1>1, <1>2 DEF StartInv, Unstarted
  <1>7. place' \in [Index -> Stages] /\ vetoed' \subseteq Index
    BY <1>1, <1>2, <1>3, <1>5 DEF WavesTyping, Stages
  <1> QED
    BY <1>2, <1>3, <1>4, <1>5, <1>6, <1>7, Advances

\* execute_single_tool refuses the call: it is done without an execution.
LEMMA RefuseKeeps == ASSUME WavesInv, Refuse PROVE WavesInv'
  <1>1. WavesTyping /\ StartedInv
    BY DEF WavesInv
  <1>2. Single /\ Done(It) /\ batch' = batch /\ started' = started /\ vetoed' = vetoed /\ toolCalls' = toolCalls
    BY DEF Refuse, waveInput
  <1>3. /\ todo' \in Seq(Seq(DOMAIN batch)) /\ \A w \in DOMAIN todo' : Len(todo'[w]) > 0
        /\ TodoInv' /\ PlaceInv' /\ StartInv' /\ ~(Parallel' /\ WaveBegun')
        /\ place' \in [Index -> Stages]
    BY <1>2, EndsAlone
  <1>4. result' \in [Index -> Results]
    BY <1>1 DEF WavesTyping, Results, Refuse
  <1>5. WavesTyping'
    BY <1>1, <1>2, <1>3, <1>4 DEF WavesTyping
  <1>6. StartedInv'
    BY <1>1, <1>2, <1>3, SingleWave DEF StartedInv
  <1> QED
    BY <1>3, <1>5, <1>6 DEF WavesInv

\* The before hook of a single call starts.
LEMMA CallHookKeeps == ASSUME WavesInv, CallHook PROVE WavesInv'
  <1>1. WavesTyping /\ StartedInv
    BY DEF WavesInv
  <1>2. /\ Single /\ place[It] = "idle" /\ place' = [place EXCEPT ![It] = "hook"]
        /\ batch' = batch /\ todo' = todo /\ started' = started /\ vetoed' = vetoed
        /\ toolCalls' = toolCalls /\ result' = result
    BY DEF CallHook, waveInput
  <1>3. TodoInv' /\ PlaceInv' /\ StartInv' /\ ~Parallel'
    BY <1>2, GoesOn
  <1>40. place' \in [Index -> Stages]
    BY <1>1, <1>2 DEF WavesTyping, Stages
  <1>4. WavesTyping'
    BY <1>1, <1>2, <1>40 DEF WavesTyping
  <1>5. StartedInv'
    BY <1>1, <1>2, <1>3, SingleWave DEF StartedInv
  <1> QED
    BY <1>3, <1>4, <1>5 DEF WavesInv

\* The before hook blocks a single call.
LEMMA HookBlocksKeeps == ASSUME WavesInv, HookBlocks PROVE WavesInv'
  <1>1. WavesTyping /\ StartedInv
    BY DEF WavesInv
  <1>2. /\ Single /\ place[It] = "hook" /\ Done(It) /\ batch' = batch /\ started' = started
        /\ vetoed' = vetoed \cup {It} /\ toolCalls' = toolCalls
    BY DEF HookBlocks, waveInput
  <1>3. /\ todo' \in Seq(Seq(DOMAIN batch)) /\ \A w \in DOMAIN todo' : Len(todo'[w]) > 0
        /\ TodoInv' /\ PlaceInv' /\ StartInv' /\ ~(Parallel' /\ WaveBegun')
        /\ place' \in [Index -> Stages] /\ vetoed' \subseteq Index
    BY <1>2, EndsAlone
  <1>4. result' \in [Index -> Results]
    BY <1>1 DEF WavesTyping, Results, HookBlocks
  <1>5. WavesTyping'
    BY <1>1, <1>2, <1>3, <1>4 DEF WavesTyping
  <1>6. StartedInv'
    BY <1>1, <1>2, <1>3, SingleWave DEF StartedInv
  <1> QED
    BY <1>3, <1>5, <1>6 DEF WavesInv

\* The before hook lets a single call through.
LEMMA HookAllowsKeeps == ASSUME WavesInv, HookAllows PROVE WavesInv'
  <1>1. WavesTyping /\ StartedInv
    BY DEF WavesInv
  <1>2. /\ Single /\ place[It] = "hook" /\ place' = [place EXCEPT ![It] = "running"]
        /\ batch' = batch /\ todo' = todo /\ started' = Append(started, It) /\ vetoed' = vetoed
        /\ toolCalls' = toolCalls + 1 /\ result' = result
    BY DEF HookAllows, Runs, waveInput
  <1>3. /\ TodoInv' /\ PlaceInv' /\ StartInv' /\ ~Parallel'
        /\ started' \in Seq(Index) /\ Len(started') = Len(started) + 1
    BY <1>2, Executes
  <1>40. place' \in [Index -> Stages]
    BY <1>1, <1>2 DEF WavesTyping, Stages
  <1>4. WavesTyping'
    BY <1>1, <1>2, <1>3, <1>40 DEF WavesTyping
  <1>5. StartedInv'
    BY <1>1, <1>2, <1>3, SingleWave DEF StartedInv, WavesTyping
  <1> QED
    BY <1>3, <1>4, <1>5 DEF WavesInv

\* A single call returns.
LEMMA ToolReturnsKeeps == ASSUME WavesInv, ToolReturns PROVE WavesInv'
  <1>1. WavesTyping /\ StartedInv
    BY DEF WavesInv
  <1>2. /\ Single /\ place[It] = "running"
        /\ batch' = batch /\ todo' = todo /\ started' = started /\ vetoed' = vetoed
        /\ toolCalls' = toolCalls
    BY DEF ToolReturns, waveInput
  <1>3. PICK p \in {"retry", "after"} : place' = [place EXCEPT ![It] = p]
    <2>1. place' = [place EXCEPT ![It] = IF result'[It] = "approval" /\ approved THEN "retry" ELSE "after"]
      BY DEF ToolReturns
    <2>2. CASE result'[It] = "approval" /\ approved
      BY <2>1, <2>2
    <2>3. CASE ~(result'[It] = "approval" /\ approved)
      BY <2>1, <2>3
    <2> QED
      BY <2>2, <2>3
  <1>4. TodoInv' /\ PlaceInv' /\ StartInv' /\ ~Parallel'
    BY <1>2, <1>3, GoesOn
  <1>5. result' \in [Index -> Results]
    <2>1. PICK r \in {"ok", "error", "approval"} : result' = [result EXCEPT ![It] = r]
      <3>1. PICK r \in {"ok", "error"} \cup (IF HighRisk(batch[It]) THEN {"approval"} ELSE {}) :
               result' = [result EXCEPT ![It] = r]
        BY DEF ToolReturns
      <3>2. r \in {"ok", "error", "approval"}
        OBVIOUS
      <3> QED
        BY <3>1, <3>2
    <2> QED
      BY <1>1, <2>1 DEF WavesTyping, Results
  <1>50. place' \in [Index -> Stages]
    BY <1>1, <1>3 DEF WavesTyping, Stages
  <1>6. WavesTyping'
    BY <1>1, <1>2, <1>3, <1>5, <1>50 DEF WavesTyping
  <1>7. StartedInv'
    BY <1>1, <1>2, <1>4, SingleWave DEF StartedInv
  <1> QED
    BY <1>4, <1>6, <1>7 DEF WavesInv

\* A single call is repeated with the approval.
LEMMA RetryKeeps == ASSUME WavesInv, Retry PROVE WavesInv'
  <1>1. WavesTyping /\ StartedInv
    BY DEF WavesInv
  <1>2. /\ Single /\ place[It] = "retry" /\ place' = [place EXCEPT ![It] = "after"]
        /\ batch' = batch /\ todo' = todo /\ started' = Append(started, It) /\ vetoed' = vetoed
        /\ toolCalls' = toolCalls + 1
    BY DEF Retry, waveInput
  <1>3. /\ TodoInv' /\ PlaceInv' /\ StartInv' /\ ~Parallel'
        /\ started' \in Seq(Index) /\ Len(started') = Len(started) + 1
    BY <1>2, Executes
  <1>4. result' \in [Index -> Results]
    <2>1. PICK r \in {"ok", "error"} : result' = [result EXCEPT ![It] = r]
      BY DEF Retry
    <2>2. It \in Index
      BY <1>1, <1>2, SingleWave
    <2>3. result \in [Index -> Results] /\ r \in Results
      BY <1>1, <2>1 DEF WavesTyping, Results
    <2> QED
      BY ONLY <2>1, <2>2, <2>3
  <1>40. place' \in [Index -> Stages]
    BY <1>1, <1>2 DEF WavesTyping, Stages
  <1>5. WavesTyping'
    BY <1>1, <1>2, <1>3, <1>4, <1>40 DEF WavesTyping
  <1>6. StartedInv'
    BY <1>1, <1>2, <1>3, SingleWave DEF StartedInv, WavesTyping
  <1> QED
    BY <1>3, <1>5, <1>6 DEF WavesInv

\* The after hook of a single call ends it.
LEMMA AfterHookKeeps == ASSUME WavesInv, AfterHook PROVE WavesInv'
  <1>1. WavesTyping /\ StartedInv
    BY DEF WavesInv
  <1>2. Single /\ Done(It) /\ batch' = batch /\ started' = started /\ vetoed' = vetoed /\ toolCalls' = toolCalls
    BY DEF AfterHook, waveInput
  <1>3. /\ todo' \in Seq(Seq(DOMAIN batch)) /\ \A w \in DOMAIN todo' : Len(todo'[w]) > 0
        /\ TodoInv' /\ PlaceInv' /\ StartInv' /\ ~(Parallel' /\ WaveBegun')
        /\ place' \in [Index -> Stages]
    BY <1>2, EndsAlone
  <1>4. result' \in [Index -> Results]
    <2>1. PICK r \in {result[It]} \cup {"error", "ok"} : result' = [result EXCEPT ![It] = r]
      BY DEF AfterHook
    <2>2. It \in Index
      BY <1>1, <1>2, SingleWave
    <2> QED
      BY <1>1, <2>1, <2>2 DEF WavesTyping, Results
  <1>5. WavesTyping'
    BY <1>1, <1>2, <1>3, <1>4 DEF WavesTyping
  <1>6. StartedInv'
    BY <1>1, <1>2, <1>3, SingleWave DEF StartedInv
  <1> QED
    BY <1>3, <1>5, <1>6 DEF WavesInv

\* A before hook of a parallel wave: it comes before any execution of the wave.
LEMMA WaveHookKeeps == ASSUME WavesInv, NEW k \in Index, WaveHook(k) PROVE WavesInv'
  <1>1. WavesTyping /\ TodoInv /\ PlaceInv /\ StartInv /\ StartedInv
    BY DEF WavesInv
  <1>2. /\ Parallel /\ k \in Wave /\ place[k] = "idle" /\ place' = [place EXCEPT ![k] = "ready"]
        /\ batch' = batch /\ todo' = todo /\ started' = started /\ toolCalls' = toolCalls /\ result' = result
        /\ vetoed' = vetoed \/ vetoed' = vetoed \cup {k}
    BY DEF WaveHook, waveInput
  <1>3. todo # <<>> /\ ~Single /\ Wave \subseteq Index
    <2>1. todo # <<>> /\ Len(Head(todo)) > 1 /\ ~(1 > 1)
      BY <1>2 DEF Parallel
    <2>2. ~Single
      BY <2>1, Zenon DEF Single
    <2> QED
      BY <1>1, <2>1, <2>2, FirstWave
  <1>4. place'[k] = "ready" /\ \A j \in Index \ {k} : place'[j] = place[j]
    BY <1>1, <1>2 DEF WavesTyping
  <1>5. /\ TodoInv' /\ Wave' = Wave /\ It' = It /\ (Single' <=> Single) /\ (Parallel' <=> Parallel)
        /\ \A w \in DOMAIN todo' : w > 1 => \A j \in CallsOf(w)' : place'[j] = "idle"
        /\ \A j \in Index : place'[j] \notin {"idle", "done"} => todo' # <<>> /\ j \in Wave'
    BY <1>2, <1>3, <1>4, SameWave
  <1>6. /\ \A j \in Wave : place[j] \in {"idle", "ready"}
        /\ \A j \in Wave : place'[j] \in {"idle", "ready"}
    BY <1>1, <1>2, <1>3, <1>4 DEF PlaceInv
  <1>7. PlaceInv'
    BY <1>3, <1>5, <1>6 DEF PlaceInv
  <1>8. Unstarted' = Unstarted /\ k \in Unstarted
    BY <1>2, <1>4 DEF Unstarted
  <1>9. StartInv'
    <2>1. \A j \in vetoed' : place'[j] \in {"ready", "done"}
      BY <1>1, <1>2, <1>4 DEF StartInv, WavesTyping
    <2>2. \A i \in DOMAIN started' : started'[i] \notin vetoed' \cup Unstarted'
      BY <1>1, <1>2, <1>8 DEF StartInv
    <2>3. OrderKept'
      BY <1>1, <1>2 DEF StartInv, OrderKept
    <2>4. \A w \in DOMAIN todo' : CallsOf(w)' = CallsOf(w)
      BY <1>2 DEF CallsOf
    <2>5. \A w \in DOMAIN todo' : \A j \in CallsOf(w)' : \A i \in DOMAIN started' :
             Class(batch'[started'[i]]) = Class(batch'[j]) =>
               /\ j \in Unstarted' => started'[i] < j
               /\ Single' /\ j = It' => started'[i] <= j
      BY <1>1, <1>2, <1>3, <1>5, <1>8, <2>4 DEF StartInv
    <2> QED
      BY <2>1, <2>2, <2>3, <2>5 DEF StartInv
  <1>90. place' \in [Index -> Stages]
    BY <1>1, <1>2 DEF WavesTyping, Stages
  <1>10. WavesTyping'
    BY <1>1, <1>2, <1>4, <1>90 DEF WavesTyping
  <1>11. ~WaveBegun /\ ~WaveBegun'
    BY <1>5, <1>6 DEF WaveBegun
  <1>12. StartedInv'
    BY <1>1, <1>2, <1>11 DEF StartedInv
  <1> QED
    BY <1>5, <1>7, <1>9, <1>10, <1>12 DEF WavesInv

\* A call of a parallel wave returns.
LEMMA CallReturnsKeeps == ASSUME WavesInv, NEW k \in Index, CallReturns(k) PROVE WavesInv'
  <1>1. WavesTyping /\ TodoInv /\ PlaceInv /\ StartInv /\ StartedInv
    BY DEF WavesInv
  <1>2. /\ Parallel /\ k \in Wave /\ place[k] = "running" /\ place' = [place EXCEPT ![k] = "after"]
        /\ batch' = batch /\ todo' = todo /\ started' = started /\ toolCalls' = toolCalls
        /\ vetoed' = vetoed
    BY DEF CallReturns, waveInput
  <1>3. todo # <<>> /\ ~Single /\ Wave \subseteq Index
    <2>1. todo # <<>> /\ Len(Head(todo)) > 1 /\ ~(1 > 1)
      BY <1>2 DEF Parallel
    <2>2. ~Single
      BY <2>1, Zenon DEF Single
    <2> QED
      BY <1>1, <2>1, <2>2, FirstWave
  <1>4. place'[k] = "after" /\ \A j \in Index \ {k} : place'[j] = place[j]
    BY <1>1, <1>2 DEF WavesTyping
  <1>5. /\ TodoInv' /\ Wave' = Wave /\ It' = It /\ (Single' <=> Single) /\ (Parallel' <=> Parallel)
        /\ \A w \in DOMAIN todo' : w > 1 => \A j \in CallsOf(w)' : place'[j] = "idle"
        /\ \A j \in Index : place'[j] \notin {"idle", "done"} => todo' # <<>> /\ j \in Wave'
    BY <1>2, <1>3, <1>4, SameWave
  <1>6. \A j \in Wave : place[j] \in {"running", "after", "done"} /\ (place[j] = "done" <=> j \in vetoed)
    BY <1>1, <1>2, <1>3 DEF PlaceInv
  <1>7. \A j \in Wave : place'[j] \in {"running", "after", "done"} /\ (place'[j] = "done" <=> j \in vetoed')
    <2> SUFFICES ASSUME NEW j \in Wave
                 PROVE  place'[j] \in {"running", "after", "done"} /\ (place'[j] = "done" <=> j \in vetoed)
      BY <1>2
    <2>1. CASE j = k
      BY <1>2, <1>4, <1>6, <2>1
    <2>2. CASE j # k
      BY <1>3, <1>4, <1>6, <2>2
    <2> QED
      BY <2>1, <2>2
  <1>8. WaveBegun /\ WaveBegun'
    BY <1>2, <1>4, <1>5 DEF WaveBegun
  <1>9. PlaceInv'
    BY <1>3, <1>5, <1>7, <1>8 DEF PlaceInv
  <1>10. Unstarted' \subseteq Unstarted
    BY <1>4 DEF Unstarted
  <1>11. StartInv'
    <2>1. \A j \in vetoed' : place'[j] \in {"ready", "done"}
      BY <1>1, <1>2, <1>4 DEF StartInv, WavesTyping
    <2>2. \A i \in DOMAIN started' : started'[i] \notin vetoed' \cup Unstarted'
      BY <1>1, <1>2, <1>10 DEF StartInv
    <2>3. OrderKept'
      BY <1>1, <1>2 DEF StartInv, OrderKept
    <2>4. \A w \in DOMAIN todo' : CallsOf(w)' = CallsOf(w)
      BY <1>2 DEF CallsOf
    <2>5. \A w \in DOMAIN todo' : \A j \in CallsOf(w)' : \A i \in DOMAIN started' :
             Class(batch'[started'[i]]) = Class(batch'[j]) =>
               /\ j \in Unstarted' => started'[i] < j
               /\ Single' /\ j = It' => started'[i] <= j
      BY <1>1, <1>2, <1>3, <1>5, <1>10, <2>4 DEF StartInv
    <2> QED
      BY <2>1, <2>2, <2>3, <2>5 DEF StartInv
  <1>12. result' \in [Index -> Results]
    <2>1. PICK r \in {"ok", "error", "approval"} : result' = [result EXCEPT ![k] = r]
      BY DEF CallReturns
    <2> QED
      BY <1>1, <2>1 DEF WavesTyping, Results
  <1>90. place' \in [Index -> Stages]
    BY <1>1, <1>2 DEF WavesTyping, Stages
  <1>13. WavesTyping'
    BY <1>1, <1>2, <1>12, <1>90 DEF WavesTyping
  <1>14. StartedInv'
    BY <1>1, <1>2, <1>5, <1>8 DEF StartedInv
  <1> QED
    BY <1>5, <1>9, <1>11, <1>13, <1>14 DEF WavesInv

\* The results of a parallel wave are collected: its executions are counted,
\* and the next wave begins.
LEMMA CollectWaveKeeps == ASSUME WavesInv, CollectWave PROVE WavesInv'
  <1> DEFINE ran == {k \in Wave : place[k] = "after"}
  <1>1. WavesTyping /\ TodoInv /\ PlaceInv /\ StartInv /\ StartedInv
    BY DEF WavesInv
  <1>2. /\ Parallel /\ ran # {} /\ \A k \in Wave : place[k] \in {"after", "done"}
        /\ toolCalls' = toolCalls + Cardinality(ran)
        /\ place' = [k \in Index |-> IF k \in Wave THEN "done" ELSE place[k]]
        /\ todo' = Tail(todo)
        /\ batch' = batch /\ started' = started /\ vetoed' = vetoed /\ result' = result
    BY DEF CollectWave, waveInput
  <1>3. todo # <<>> /\ Wave \subseteq Index /\ IsFiniteSet(Wave)
    BY <1>1, <1>2, FirstWave DEF Parallel
  <1>4. WaveBegun
    BY <1>2 DEF WaveBegun
  <1>5. ran = Wave \ vetoed
    <2>1. \A k \in Wave : place[k] = "done" <=> k \in vetoed
      BY <1>1, <1>2, <1>4 DEF PlaceInv, WaveBegun
    <2>2. \A k \in Wave : place[k] = "after" <=> k \notin vetoed
      BY <1>2, <2>1
    <2> QED
      BY <2>2, Zenon
  <1>6. Cardinality(ran) \in Nat
    BY <1>3, FS_Subset, FS_CardinalityType
  <1>7. \A k \in Index : place'[k] = IF k \in Wave THEN "done" ELSE place[k]
    BY <1>2
  <1>8. \A i \in DOMAIN started : started[i] \notin vetoed'
    BY <1>1, <1>2 DEF StartInv
  <1>9. vetoed \subseteq vetoed' /\ vetoed' \subseteq vetoed \cup Wave
    BY <1>2
  <1>10. /\ todo' \in Seq(Seq(DOMAIN batch)) /\ \A w \in DOMAIN todo' : Len(todo'[w]) > 0
         /\ TodoInv' /\ PlaceInv' /\ StartInv' /\ ~(Parallel' /\ WaveBegun')
    BY <1>2, <1>3, <1>7, <1>8, <1>9, Advances
  <1>11. place' \in [Index -> Stages]
    BY <1>1, <1>2 DEF WavesTyping, Stages
  <1> HIDE DEF ran
  <1>12. WavesTyping'
    BY <1>1, <1>2, <1>6, <1>10, <1>11 DEF WavesTyping
  <1>13. StartedInv'
    BY <1>1, <1>2, <1>4, <1>5, <1>6, <1>10 DEF StartedInv, WavesTyping
  <1> QED
    BY <1>10, <1>12, <1>13 DEF WavesInv

\* A parallel wave starts those of its calls that were not blocked, and is over
\* when there are none.
LEMMA StartWaveKeeps == ASSUME WavesInv, StartWave PROVE WavesInv'
  <1> DEFINE S == Wave \ vetoed
             run == InTurn(S)
  <1>1. WavesTyping /\ TodoInv /\ PlaceInv /\ StartInv /\ StartedInv
    BY DEF WavesInv
  <1>2. /\ Parallel /\ \A k \in Wave : place[k] = "ready"
        /\ started' = started \o run
        /\ result' = [k \in Index |-> IF k \in Wave \cap vetoed THEN "blocked" ELSE result[k]]
        /\ place' = [k \in Index |-> IF k \notin Wave THEN place[k]
                                     ELSE IF k \in vetoed THEN "done" ELSE "running"]
        /\ todo' = IF run = <<>> THEN Tail(todo) ELSE todo
        /\ batch' = batch /\ vetoed' = vetoed /\ toolCalls' = toolCalls
    BY DEF StartWave, waveInput
  <1>3. todo # <<>> /\ ~Single /\ Wave \subseteq Index /\ IsFiniteSet(Wave)
    <2>1. todo # <<>> /\ Len(Head(todo)) > 1 /\ ~(1 > 1)
      BY <1>2 DEF Parallel
    <2>2. ~Single
      BY <2>1, Zenon DEF Single
    <2> QED
      BY <1>1, <2>1, <2>2, FirstWave
  <1>4. S \in SUBSET (1 .. MaxCalls) /\ MaxCalls \in Nat /\ S \subseteq Index /\ S \subseteq Wave
    BY <1>3, ToolWavesAssumption DEF Index
  <1> HIDE DEF S
  <1>5. /\ run \in Seq(S) /\ Len(run) = Cardinality(S) /\ Cardinality(S) \in Nat
        /\ \A k \in S : \E i \in DOMAIN run : run[i] = k
        /\ \A i, j \in DOMAIN run : i < j => run[i] < run[j]
        /\ S = {} <=> run = <<>>
    BY <1>4, InTurnLists, InTurnRange
  <1> HIDE DEF run
  <1>6. result' \in [Index -> Results] /\ place' \in [Index -> Stages]
    BY <1>1, <1>2 DEF WavesTyping, Results, Stages
  <1>7. ~WaveBegun
    BY <1>2 DEF WaveBegun
  <1>8. CASE run = <<>>
    <2>1. started' = started
      BY <1>1, <1>2, <1>8, ConcatEmptySeq DEF WavesTyping
    <2>2. Wave \subseteq vetoed
      BY <1>5, <1>8 DEF S
    <2>3. \A k \in Index : place'[k] = IF k \in Wave THEN "done" ELSE place[k]
      BY <1>2, <2>2
    <2>4. \A i \in DOMAIN started : started[i] \notin vetoed'
      BY <1>1, <1>2 DEF StartInv
    <2>5. vetoed \subseteq vetoed' /\ vetoed' \subseteq vetoed \cup Wave
      BY <1>2
    <2>6. todo' = Tail(todo) /\ batch' = batch
      BY <1>2, <1>8
    <2>7. /\ todo' \in Seq(Seq(DOMAIN batch)) /\ \A w \in DOMAIN todo' : Len(todo'[w]) > 0
          /\ TodoInv' /\ PlaceInv' /\ StartInv' /\ ~(Parallel' /\ WaveBegun')
      BY <1>3, <2>1, <2>3, <2>4, <2>5, <2>6, Advances
    <2>8. WavesTyping'
      BY <1>1, <1>2, <1>6, <2>1, <2>7 DEF WavesTyping
    <2>9. StartedInv'
      BY <1>1, <1>2, <1>7, <2>1, <2>7 DEF StartedInv
    <2> QED
      BY <2>7, <2>8, <2>9 DEF WavesInv
  <1>9. CASE run # <<>>
    <2>1. todo' = todo /\ batch' = batch
      BY <1>2, <1>9
    <2>2. \A k \in Index \ Wave : place'[k] = place[k]
      BY <1>2
    <2>3. \A k \in Wave : place'[k] = IF k \in vetoed THEN "done" ELSE "running"
      BY <1>2, <1>3
    <2>4. /\ TodoInv' /\ Wave' = Wave /\ It' = It /\ (Single' <=> Single) /\ (Parallel' <=> Parallel)
          /\ \A w \in DOMAIN todo' : w > 1 => \A k \in CallsOf(w)' : place'[k] = "idle"
          /\ \A k \in Index : place'[k] \notin {"idle", "done"} => todo' # <<>> /\ k \in Wave'
          /\ \A w \in DOMAIN todo : w > 1 => \A k \in CallsOf(w) : k \in Index /\ k \notin Wave
      BY <1>3, <2>1, <2>2, SameWave
    <2>5. WaveBegun'
      <3>1. PICK k \in S : TRUE
        BY <1>5, <1>9
      <3>2. k \in Wave /\ place'[k] = "running"
        BY <2>3, <3>1 DEF S
      <3> QED
        BY <2>4, <3>2 DEF WaveBegun
    <2>6. PlaceInv'
      BY <1>2, <1>3, <2>3, <2>4, <2>5 DEF PlaceInv
    <2>7. /\ Unstarted' \subseteq Unstarted /\ \A k \in Wave : k \in Unstarted /\ k \notin Unstarted'
      BY <1>2, <1>3, <2>2, <2>3 DEF Unstarted
    <2>8. PICK n \in Nat : n = Len(started)
      BY <1>1, LenProperties DEF WavesTyping
    <2>9. PICK m \in Nat : m = Len(run)
      BY <1>5
    <2>10. started \in Seq(Index) /\ run \in Seq(Index)
      BY <1>1, <1>4, <1>5, SeqMonotonic DEF WavesTyping
    <2>11. /\ started' \in Seq(Index) /\ Len(started') = n + m
           /\ DOMAIN started = 1 .. n /\ DOMAIN run = 1 .. m /\ DOMAIN started' = 1 .. n + m
           /\ \A i \in 1 .. n + m : started'[i] = IF i <= n THEN started[i] ELSE run[i - n]
      <3>1. started' = started \o run
        BY <1>2
      <3> QED
        BY ONLY <2>8, <2>9, <2>10, <3>1, ConcatProperties, LenProperties
    <2>12. ASSUME NEW i \in 1 .. n + m
           PROVE  \/ i \in 1 .. n /\ started'[i] = started[i] /\ started[i] \in Index
                  \/ i > n /\ i - n \in 1 .. m /\ started'[i] = run[i - n] /\ run[i - n] \in S
      <3>1. \A x \in 1 .. n : started[x] \in Index
        BY ONLY <2>10, <2>11, ElementOfSeq, LenProperties
      <3>2. \A x \in 1 .. m : run[x] \in S
        BY ONLY <1>5, <2>11, ElementOfSeq, LenProperties
      <3>3. i \in 1 .. n \/ (i > n /\ i - n \in 1 .. m /\ ~(i <= n))
        BY ONLY n \in Nat, m \in Nat, i \in 1 .. n + m
      <3>4. CASE i \in 1 .. n
        BY <2>11, <3>1, <3>4
      <3>5. CASE i > n /\ i - n \in 1 .. m /\ ~(i <= n)
        BY <2>11, <3>2, <3>5
      <3> QED
        BY <3>3, <3>4, <3>5
    <2>13. \A k \in S : k \in Wave /\ k \in Index /\ k \notin vetoed
      BY <1>3 DEF S
    <2>14. \A k \in Index : k \in Int
      BY ToolWavesAssumption DEF Index
    <2>15. 1 \in DOMAIN todo /\ Wave = CallsOf(1) /\ \A w \in DOMAIN todo : w \in Nat /\ w > 0
      BY <1>1, <1>3, FirstWave, LenProperties DEF WavesTyping
    <2>16. \A j \in Wave : \A i \in 1 .. n : Class(batch[started[i]]) = Class(batch[j]) => started[i] < j
      BY <1>1, <2>7, <2>11, <2>15 DEF StartInv
    <2>17. StartInv'
      <3>1. \A k \in vetoed' : place'[k] \in {"ready", "done"}
        BY <1>1, <1>2, <2>2, <2>3 DEF StartInv, WavesTyping
      <3>2. \A i \in DOMAIN started' : started'[i] \notin vetoed' \cup Unstarted'
        BY <1>1, <1>2, <2>7, <2>11, <2>12, <2>13 DEF StartInv
      <3>3. OrderKept'
        <4> SUFFICES ASSUME NEW i \in 1 .. n + m, NEW j \in 1 .. n + m, i < j, started'[j] < started'[i]
                     PROVE  Class(batch[started'[i]]) # Class(batch[started'[j]])
          BY <2>1, <2>11 DEF OrderKept
        <4>1. CASE j \in 1 .. n
          <5>1. i \in 1 .. n /\ j \in 1 .. n
            BY <4>1
          <5> QED
            BY <1>1, <2>11, <5>1 DEF StartInv, OrderKept
        <4>2. CASE i \in 1 .. n /\ j > n
          <5>1. /\ started'[i] = started[i] /\ started[i] \in Int
                /\ started'[j] \in Wave /\ started'[j] \in Int
            BY <2>12, <2>13, <2>14, <4>2
          <5>2. ~(started[i] < started'[j])
            BY <5>1
          <5> QED
            BY <2>16, <4>2, <5>1, <5>2
        <4>3. CASE i > n /\ j > n
          <5>1. /\ started'[i] = run[i - n] /\ started'[j] = run[j - n]
                /\ run[i - n] \in S /\ run[j - n] \in S /\ i - n \in 1 .. m /\ j - n \in 1 .. m
            BY <2>12, <4>3
          <5>2. i - n < j - n
            BY <2>8
          <5>3. run[i - n] < run[j - n]
            BY <1>5, <2>11, <5>1, <5>2
          <5>4. run[i - n] \in Int /\ run[j - n] \in Int
            BY <2>13, <2>14, <5>1
          <5> QED
            BY <5>1, <5>3, <5>4
        <4>4. j \in 1 .. n \/ (i \in 1 .. n /\ j > n) \/ (i > n /\ j > n)
          BY <2>8, <2>9
        <4> QED
          BY <4>1, <4>2, <4>3, <4>4
      <3>4. ASSUME NEW w \in DOMAIN todo, NEW j \in CallsOf(w), NEW i \in 1 .. n + m, j \in Unstarted',
                   Class(batch[started'[i]]) = Class(batch[j])
            PROVE  started'[i] < j
        <4>1. CASE i \in 1 .. n /\ started'[i] = started[i]
          BY <1>1, <2>7, <2>11, <3>4, <4>1 DEF StartInv
        <4>2. CASE started'[i] \in S
          <5>1. started'[i] \in CallsOf(1)
            BY <2>13, <2>15, <4>2
          <5>2. j \notin Wave /\ w # 1
            BY <2>7, <2>15, <3>4
          <5>3. 1 < w
            BY <2>15, <5>2
          <5> QED
            BY <1>1, <2>15, <3>4, <5>1, <5>3, WavesApart
        <4> QED
          BY <2>12, <4>1, <4>2
      <3>5. \A w \in DOMAIN todo' : CallsOf(w)' = CallsOf(w)
        BY <2>1 DEF CallsOf
      <3>6. \A w \in DOMAIN todo' : \A j \in CallsOf(w)' : \A i \in DOMAIN started' :
               Class(batch'[started'[i]]) = Class(batch'[j]) =>
                 /\ j \in Unstarted' => started'[i] < j
                 /\ Single' /\ j = It' => started'[i] <= j
        BY <1>3, <2>1, <2>4, <2>11, <3>4, <3>5
      <3> QED
        BY <3>1, <3>2, <3>3, <3>6 DEF StartInv
    <2>18. WavesTyping'
      BY <1>1, <1>2, <1>6, <2>1, <2>11 DEF WavesTyping
    <2>19. StartedInv'
      <3>1. Len(started) = toolCalls
        <4>1. Len(started) = toolCalls + 0
          BY ONLY <1>1, <1>7 DEF StartedInv
        <4>2. toolCalls \in Nat
          BY <1>1 DEF WavesTyping
        <4> QED
          BY <4>1, <4>2
      <3>2. Cardinality(Wave \ vetoed) = m
        BY <1>5, <2>9 DEF S
      <3>3. (Wave \ vetoed)' = Wave \ vetoed /\ Parallel' /\ WaveBegun'
        BY <1>2, <2>4, <2>5
      <3>4. Len(started') = toolCalls' + m
        BY <1>2, <2>8, <2>11, <3>1
      <3> QED
        BY <3>2, <3>3, <3>4 DEF StartedInv
    <2> QED
      BY <2>4, <2>6, <2>17, <2>18, <2>19 DEF WavesInv
  <1> QED
    BY <1>8, <1>9

\* A step that leaves the batch alone.
LEMMA WavesStutter == ASSUME WavesInv, UNCHANGED wavesVars PROVE WavesInv'
  <1>1. /\ batch' = batch /\ todo' = todo /\ place' = place /\ result' = result
        /\ toolCalls' = toolCalls /\ started' = started /\ vetoed' = vetoed
    BY DEF wavesVars
  <1>2. WavesTyping' /\ TodoInv'
    BY <1>1 DEF WavesInv, WavesTyping, TodoInv
  <1>3. /\ Wave' = Wave /\ It' = It /\ (Single' <=> Single) /\ (Parallel' <=> Parallel)
        /\ Unstarted' = Unstarted /\ \A w \in DOMAIN todo : CallsOf(w)' = CallsOf(w)
    BY <1>1 DEF Wave, It, Single, Parallel, Unstarted, CallsOf
  <1>4. WaveBegun' <=> WaveBegun
    BY <1>1, <1>3 DEF WaveBegun
  <1>5. PlaceInv'
    BY <1>1, <1>3, <1>4 DEF WavesInv, PlaceInv
  <1>6. StartInv'
    BY <1>1, <1>3 DEF WavesInv, StartInv, OrderKept
  <1>7. StartedInv'
    BY <1>1, <1>3, <1>4 DEF WavesInv, StartedInv
  <1> QED
    BY <1>2, <1>5, <1>6, <1>7 DEF WavesInv

\* Every step keeps the invariant.
LEMMA WavesStep == WavesInv /\ [WavesNext]_wavesVars => WavesInv'
  <1> SUFFICES ASSUME WavesInv, [WavesNext]_wavesVars PROVE WavesInv'
    OBVIOUS
  <1>1. CASE Refuse
    BY <1>1, RefuseKeeps
  <1>2. CASE CallHook
    BY <1>2, CallHookKeeps
  <1>3. CASE HookBlocks
    BY <1>3, HookBlocksKeeps
  <1>4. CASE HookAllows
    BY <1>4, HookAllowsKeeps
  <1>5. CASE ToolReturns
    BY <1>5, ToolReturnsKeeps
  <1>6. CASE Retry
    BY <1>6, RetryKeeps
  <1>7. CASE AfterHook
    BY <1>7, AfterHookKeeps
  <1>8. CASE StartWave
    BY <1>8, StartWaveKeeps
  <1>9. CASE CollectWave
    BY <1>9, CollectWaveKeeps
  <1>10. ASSUME NEW k \in Index, WaveHook(k) PROVE WavesInv'
    BY <1>10, WaveHookKeeps
  <1>11. ASSUME NEW k \in Index, CallReturns(k) PROVE WavesInv'
    BY <1>11, CallReturnsKeeps
  <1>12. CASE UNCHANGED wavesVars
    BY <1>12, WavesStutter
  <1> QED
    BY <1>1, <1>2, <1>3, <1>4, <1>5, <1>6, <1>7, <1>8, <1>9, <1>10, <1>11, <1>12 DEF WavesNext

\* What holds between any two steps of a batch: what is where, what was
\* started, and how much of it has been counted.
THEOREM WavesInvariant == WavesSpec => []WavesInv
  <1> QED
    BY WavesBegin, WavesStep, PTL DEF WavesSpec

\* The parts of WavesAreFaithful that hold for every division into classes.
LEMMA WavesInvShows ==
  ASSUME WavesInv
  PROVE  SideEffectsRunAlone /\ OrderKept /\ BlockedNeverStarts /\ CallsCounted
  <1>1. WavesTyping /\ TodoInv /\ PlaceInv /\ StartInv /\ StartedInv
    BY DEF WavesInv
  <1>2. SideEffectsRunAlone
    <2> SUFFICES ASSUME NEW k \in Busy, Class(batch[k]) # "read_only" PROVE Busy = {k}
      BY DEF SideEffectsRunAlone
    <2>1. \A j \in Busy : todo # <<>> /\ j \in Wave
      BY <1>1 DEF Busy, PlaceInv
    <2>2. todo # <<>> /\ k \in Wave
      BY <2>1
    <2>3. 1 \in DOMAIN todo /\ Head(todo) = todo[1]
      BY <1>1, <2>2, FirstWave
    <2>4. ~Parallel
      <3> SUFFICES ASSUME Parallel PROVE FALSE
        OBVIOUS
      <3>1. Len(todo[1]) > 1
        BY <2>3 DEF Parallel
      <3>2. \A i \in DOMAIN todo[1] : Class(batch[todo[1][i]]) = "read_only"
        BY <1>1, <2>3, <3>1 DEF TodoInv, TogetherRead
      <3> QED
        BY <2>2, <2>3, <3>2 DEF Wave, Range
    <2>5. Single
      BY <1>1, <2>2, <2>4, FirstWave
    <2>6. Wave = {It}
      BY <1>1, <2>5, SingleWave
    <2> QED
      BY <2>1, <2>2, <2>6
  <1>3. BlockedNeverStarts
    BY <1>1 DEF StartInv, BlockedNeverStarts
  <1>4. CallsCounted
    BY <1>1 DEF StartedInv, CallsCounted, Parallel, WavesTyping
  <1> QED
    BY <1>1, <1>2, <1>3, <1>4 DEF StartInv

\* A high-risk call that is not made together with others asks through the
\* turn: in a wave of several nothing does.
LEMMA QuestionsReach ==
  ASSUME Class("bash") # "read_only", WavesInv, AskInv, [WavesNext]_wavesVars
  PROVE  AskInv'
  <1>1. WavesTyping /\ TodoInv /\ PlaceInv
    BY DEF WavesInv
  <1>2. place \in [Index -> Stages] /\ result \in [Index -> Results]
    BY <1>1 DEF WavesTyping
  <1>3. Single => It \in Index
    BY <1>1, SingleWave
  <1>4. ASSUME NEW r, NEW p, NEW i \in Index, r = "approval" => p \notin {"after", "done"} \/ awaiting',
               awaiting => awaiting',
               place' = [place EXCEPT ![i] = p], result' = [result EXCEPT ![i] = r]
        PROVE  AskInv'
    <2> SUFFICES ASSUME NEW k \in Index, place'[k] \in {"after", "done"}, result'[k] = "approval"
                 PROVE  awaiting'
      BY DEF AskInv
    <2>1. CASE k = i
      BY <1>2, <1>4, <2>1
    <2>2. CASE k # i
      BY <1>2, <1>4, <2>2 DEF AskInv
    <2> QED
      BY <2>1, <2>2
  <1>5. CASE Refuse
    <2>1. Single /\ place' = [place EXCEPT ![It] = "done"] /\ awaiting' = awaiting
      BY <1>5 DEF Refuse, Done
    <2>2. PICK r \in {"malformed", "refused"} : result' = [result EXCEPT ![It] = r]
      BY <1>5 DEF Refuse
    <2> QED
      BY <1>3, <1>4, <2>1, <2>2
  <1>6. CASE CallHook
    <2>1. Single /\ place' = [place EXCEPT ![It] = "hook"] /\ awaiting' = awaiting /\ result' = result
      BY <1>6 DEF CallHook
    <2>2. result' = [result EXCEPT ![It] = result[It]]
      BY <1>2, <1>3, <2>1
    <2> QED
      BY <1>3, <1>4, <2>1, <2>2
  <1>7. CASE HookBlocks
    <2>1. /\ Single /\ place' = [place EXCEPT ![It] = "done"] /\ awaiting' = awaiting
          /\ result' = [result EXCEPT ![It] = "blocked"]
      BY <1>7 DEF HookBlocks, Done
    <2> QED
      BY <1>3, <1>4, <2>1
  <1>8. CASE HookAllows
    <2>1. Single /\ place' = [place EXCEPT ![It] = "running"] /\ awaiting' = awaiting /\ result' = result
      BY <1>8 DEF HookAllows, Runs
    <2>2. result' = [result EXCEPT ![It] = result[It]]
      BY <1>2, <1>3, <2>1
    <2> QED
      BY <1>3, <1>4, <2>1, <2>2
  <1>9. CASE ToolReturns
    <2>1. /\ Single /\ awaiting' = (awaiting \/ (result'[It] = "approval" /\ ~approved))
          /\ place' = [place EXCEPT ![It] = IF result'[It] = "approval" /\ approved THEN "retry" ELSE "after"]
      BY <1>9 DEF ToolReturns
    <2>2. PICK r : result' = [result EXCEPT ![It] = r]
      BY <1>9 DEF ToolReturns
    <2>3. result'[It] = r
      BY <1>2, <1>3, <2>1, <2>2
    <2>4. awaiting => awaiting'
      BY <2>1
    <2>5. CASE r = "approval" /\ approved
      <3>1. place' = [place EXCEPT ![It] = "retry"]
        BY <2>1, <2>3, <2>5
      <3> QED
        BY <1>3, <1>4, <2>1, <2>2, <2>4, <3>1
    <2>6. CASE ~(r = "approval" /\ approved)
      <3>1. place' = [place EXCEPT ![It] = "after"] /\ (r = "approval" => awaiting')
        BY <2>1, <2>3, <2>6
      <3> QED
        BY <1>3, <1>4, <2>1, <2>2, <2>4, <3>1
    <2> QED
      BY <2>5, <2>6
  <1>10. CASE Retry
    <2>1. Single /\ place' = [place EXCEPT ![It] = "after"] /\ awaiting' = awaiting
      BY <1>10 DEF Retry
    <2>2. PICK r \in {"ok", "error"} : result' = [result EXCEPT ![It] = r]
      BY <1>10 DEF Retry
    <2> QED
      BY <1>3, <1>4, <2>1, <2>2
  <1>11. CASE AfterHook
    <2>1. Single /\ place[It] = "after" /\ place' = [place EXCEPT ![It] = "done"] /\ awaiting' = awaiting
      BY <1>11 DEF AfterHook, Done
    <2>2. PICK r \in {result[It]} \cup {"error", "ok"} : result' = [result EXCEPT ![It] = r]
      BY <1>11 DEF AfterHook
    <2>3. r = "approval" => awaiting'
      BY <1>3, <2>1, <2>2 DEF AskInv
    <2> QED
      BY <1>3, <1>4, <2>1, <2>2, <2>3
  <1>12. CASE StartWave
    <2>1. /\ awaiting' = awaiting
          /\ result' = [k \in Index |-> IF k \in Wave \cap vetoed THEN "blocked" ELSE result[k]]
          /\ place' = [k \in Index |-> IF k \notin Wave THEN place[k]
                                       ELSE IF k \in vetoed THEN "done" ELSE "running"]
      BY <1>12 DEF StartWave
    <2> QED
      BY <2>1 DEF AskInv
  <1>13. CASE CollectWave
    <2>1. /\ awaiting' = awaiting /\ result' = result /\ \A k \in Wave : place[k] \in {"after", "done"}
          /\ place' = [k \in Index |-> IF k \in Wave THEN "done" ELSE place[k]]
      BY <1>13 DEF CollectWave
    <2> QED
      BY <2>1 DEF AskInv
  <1>14. ASSUME NEW k \in Index, WaveHook(k) PROVE AskInv'
    <2>1. place' = [place EXCEPT ![k] = "ready"] /\ awaiting' = awaiting /\ result' = result
      BY <1>14 DEF WaveHook
    <2>2. result' = [result EXCEPT ![k] = result[k]]
      BY <1>2, <2>1
    <2> QED
      BY <1>4, <2>1, <2>2
  <1>15. ASSUME NEW k \in Index, CallReturns(k) PROVE AskInv'
    <2>1. Parallel /\ k \in Wave /\ place' = [place EXCEPT ![k] = "after"] /\ awaiting' = awaiting
      BY <1>15 DEF CallReturns
    <2>2. Class(batch[k]) = "read_only"
      <3>1. todo # <<>> /\ Len(Head(todo)) > 1
        BY <2>1 DEF Parallel
      <3>2. 1 \in DOMAIN todo /\ Head(todo) = todo[1]
        BY <1>1, <3>1, FirstWave
      <3>3. \A i \in DOMAIN todo[1] : Class(batch[todo[1][i]]) = "read_only"
        BY <1>1, <3>1, <3>2 DEF TodoInv, TogetherRead
      <3> QED
        BY <2>1, <3>2, <3>3 DEF Wave, Range
    <2>3. ~HighRisk(batch[k])
      BY <2>2 DEF HighRisk
    <2>4. PICK r \in {"ok", "error"} : result' = [result EXCEPT ![k] = r]
      BY <1>15, <2>3 DEF CallReturns
    <2> QED
      BY <1>4, <2>1, <2>4
  <1>16. CASE UNCHANGED wavesVars
    BY <1>16 DEF AskInv, wavesVars
  <1> QED
    BY <1>5, <1>6, <1>7, <1>8, <1>9, <1>10, <1>11, <1>12, <1>13, <1>14, <1>15, <1>16 DEF WavesNext

\* Execution in waves is faithful where no override has bash read only: calls
\* with side effects run alone and in order within their class, what a hook has
\* blocked never starts, every question of a call reaches the turn, and each
\* execution is counted.
THEOREM WavesFaithful ==
  ASSUME Class("bash") # "read_only"
  PROVE  WavesSpec => []WavesAreFaithful
  <1>1. WavesInit => AskInv
    BY DEF WavesInit, AskInv
  <1>2. WavesInv /\ AskInv /\ [WavesNext]_wavesVars => AskInv'
    BY QuestionsReach
  <1>3. WavesInv /\ AskInv => WavesAreFaithful
    <2> SUFFICES ASSUME WavesInv, AskInv PROVE WavesAreFaithful
      OBVIOUS
    <2>1. DOMAIN batch \subseteq Index
      <3>1. DOMAIN batch = 1 .. Len(batch) /\ Len(batch) \in Nat /\ Len(batch) <= MaxCalls
        BY LenProperties DEF WavesInv, WavesTyping
      <3> QED
        BY <3>1, ToolWavesAssumption DEF Index
    <2>2. ApprovalIsAsked
      BY <2>1 DEF AskInv, ApprovalIsAsked
    <2> QED
      BY <2>2, WavesInvShows DEF WavesAreFaithful
  <1> QED
    BY <1>1, <1>2, <1>3, WavesInvariant, PTL DEF WavesSpec

-----------------------------------------------------------------------------
(* ToolWaves: the counters.                                                 *)

\* The calls that are at one of the stages.
PlacedIn(p, stages) == {k \in Index : p[k] \in stages}
Executed == {"running", "retry", "after", "done"}
Returned == {"after", "done"}
NumberIn(p, stages) == Cardinality(PlacedIn(p, stages))

\* Every execution has its call, which has two at most; a message that was sent has
\* its call, or was let through by the limit.
CountersOK ==
    /\ Len(started) <= NumberIn(place, Executed) + NumberIn(place, Returned)
    /\ sends \in Nat /\ sends <= MaxSends + NumberIn(place, {"done"})
    /\ approved \in BOOLEAN /\ awaiting \in BOOLEAN /\ failed \subseteq Tool

\* What is counted is finite, and never more than the calls there may be.
LEMMA NumbersAre ==
  ASSUME NEW p, NEW stages
  PROVE  /\ IsFiniteSet(PlacedIn(p, stages)) /\ NumberIn(p, stages) \in 0 .. MaxCalls
  <1>1. MaxCalls \in Nat
    BY ToolWavesAssumption
  <1>2. IsFiniteSet(Index) /\ Cardinality(Index) = MaxCalls
    <2>1. 1 \in Int /\ MaxCalls \in Int
      BY <1>1
    <2>2. IsFiniteSet(1 .. MaxCalls)
      BY <2>1, FS_Interval
    <2>3. Cardinality(1 .. MaxCalls) = IF 1 > MaxCalls THEN 0 ELSE MaxCalls - 1 + 1
      BY <2>1, FS_Interval
    <2>4. Cardinality(1 .. MaxCalls) = MaxCalls
      BY <1>1, <2>3
    <2> QED
      BY <2>2, <2>4 DEF Index
  <1>3. PlacedIn(p, stages) \subseteq Index
    BY DEF PlacedIn
  <1>4. /\ IsFiniteSet(PlacedIn(p, stages)) /\ Cardinality(PlacedIn(p, stages)) <= Cardinality(Index)
        /\ Cardinality(PlacedIn(p, stages)) \in Nat
    BY <1>2, <1>3, FS_Subset, FS_CardinalityType
  <1> QED
    BY <1>1, <1>2, <1>4 DEF NumberIn

\* One call moves on.
LEMMA MoveCounts ==
  ASSUME NEW p, NEW q, NEW i \in Index, \A k \in Index \ {i} : q[k] = p[k],
         NEW stages, p[i] \in stages => q[i] \in stages
  PROVE  NumberIn(q, stages)
           = NumberIn(p, stages) + IF q[i] \in stages /\ p[i] \notin stages THEN 1 ELSE 0
  <1>1. IsFiniteSet(PlacedIn(p, stages)) /\ NumberIn(p, stages) \in Nat
    BY NumbersAre
  <1>2. CASE q[i] \in stages /\ p[i] \notin stages
    <2>1. PlacedIn(q, stages) = PlacedIn(p, stages) \cup {i} /\ i \notin PlacedIn(p, stages)
      BY <1>2 DEF PlacedIn
    <2> QED
      BY <1>1, <1>2, <2>1, FS_AddElement DEF NumberIn
  <1>3. CASE ~(q[i] \in stages /\ p[i] \notin stages)
    <2>1. PlacedIn(q, stages) = PlacedIn(p, stages)
      BY <1>3 DEF PlacedIn
    <2> QED
      BY <1>1, <1>3, <2>1 DEF NumberIn
  <1> QED
    BY <1>2, <1>3

\* Several move on.
LEMMA MovesCount ==
  ASSUME NEW p, NEW q, NEW stages, NEW T \in SUBSET Index,
         \A k \in Index : p[k] \in stages => q[k] \in stages /\ k \notin T,
         \A k \in T : q[k] \in stages
  PROVE  /\ IsFiniteSet(T) /\ Cardinality(T) \in Nat
         /\ NumberIn(p, stages) + Cardinality(T) <= NumberIn(q, stages)
  <1>1. /\ IsFiniteSet(PlacedIn(p, stages)) /\ NumberIn(p, stages) \in Nat
        /\ IsFiniteSet(PlacedIn(q, stages)) /\ NumberIn(q, stages) \in Nat
    BY NumbersAre
  <1>2. /\ PlacedIn(p, stages) \cup T \subseteq PlacedIn(q, stages)
        /\ PlacedIn(p, stages) \cap T = {} /\ T \subseteq PlacedIn(q, stages)
    BY DEF PlacedIn
  <1>3. IsFiniteSet(T) /\ Cardinality(T) \in Nat
    BY <1>1, <1>2, FS_Subset, FS_CardinalityType
  <1>4. Cardinality(PlacedIn(p, stages) \cup T) <= Cardinality(PlacedIn(q, stages))
    BY <1>1, <1>2, FS_Subset
  <1>5. Cardinality(PlacedIn(p, stages) \cup T) = Cardinality(PlacedIn(p, stages)) + Cardinality(T)
    <2>1. Cardinality(PlacedIn(p, stages) \cup T)
            = Cardinality(PlacedIn(p, stages)) + Cardinality(T) - Cardinality(PlacedIn(p, stages) \cap T)
      BY <1>1, <1>3, FS_Union
    <2>2. Cardinality(PlacedIn(p, stages) \cap T) = 0
      BY <1>2, FS_EmptySet
    <2> QED
      BY <1>1, <1>3, <2>1, <2>2 DEF NumberIn
  <1> QED
    BY <1>3, <1>4, <1>5 DEF NumberIn

\* The first state.
LEMMA CountersBegin == ASSUME WavesInit PROVE CountersOK
  <1>1. /\ approved \in BOOLEAN /\ awaiting = FALSE /\ failed = {} /\ started = <<>> /\ sends = 0
    BY DEF WavesInit
  <1>2. Len(started) = 0
    BY <1>1, EmptySeq
  <1>3. /\ NumberIn(place, Executed) \in 0 .. MaxCalls /\ NumberIn(place, Returned) \in 0 .. MaxCalls
        /\ NumberIn(place, {"done"}) \in 0 .. MaxCalls
    BY NumbersAre
  <1>4. MaxCalls \in Nat /\ MaxSends \in Nat
    BY ToolWavesAssumption
  <1>5. /\ Len(started) <= NumberIn(place, Executed) + NumberIn(place, Returned)
        /\ sends \in Nat /\ sends <= MaxSends + NumberIn(place, {"done"})
    BY <1>1, <1>2, <1>3, <1>4
  <1>6. approved \in BOOLEAN /\ awaiting \in BOOLEAN /\ failed \subseteq Tool
    BY <1>1
  <1> QED
    BY <1>5, <1>6 DEF CountersOK

\* The calls of a wave start together.
LEMMA StartWaveCounts == ASSUME WavesInv, CountersOK, StartWave PROVE CountersOK'
  <1> DEFINE S == Wave \ vetoed
             run == InTurn(S)
  <1>1. /\ WavesTyping /\ started \in Seq(Index) /\ place \in [Index -> Stages]
    BY DEF WavesInv, WavesTyping
  <1>2. /\ Parallel /\ \A k \in Wave : place[k] = "ready"
        /\ started' = started \o run
        /\ place' = [k \in Index |-> IF k \notin Wave THEN place[k]
                                     ELSE IF k \in vetoed THEN "done" ELSE "running"]
        /\ sends' = sends /\ failed' = failed /\ awaiting' = awaiting /\ approved' = approved
    BY DEF StartWave, waveInput
  <1>3. Wave \subseteq Index
    BY <1>1, <1>2, FirstWave DEF Parallel
  <1>4. /\ run \in Seq(Index) /\ Len(run) = Cardinality(S)
    <2>1. S \in SUBSET (1 .. MaxCalls) /\ MaxCalls \in Nat /\ S \subseteq Index
      BY <1>3, ToolWavesAssumption DEF Index
    <2> HIDE DEF S
    <2>2. run \in Seq(S) /\ Len(run) = Cardinality(S)
      BY <2>1, InTurnLists
    <2> QED
      BY <2>1, <2>2, SeqMonotonic
  <1>5. S \in SUBSET Index /\ \A k \in S : place[k] = "ready" /\ place'[k] = "running"
    BY <1>2, <1>3
  <1>6. \A k \in Index : place'[k] \in {place[k], "done", "running"}
                         /\ (place[k] # "ready" => place'[k] = place[k])
    BY <1>2
  <1> HIDE DEF S
  <1>7. /\ Cardinality(S) \in Nat
        /\ NumberIn(place, Executed) + Cardinality(S) <= NumberIn(place', Executed)
    <2>1. /\ \A k \in Index : place[k] \in Executed => place'[k] \in Executed /\ k \notin S
          /\ \A k \in S : place'[k] \in Executed
      BY <1>5, <1>6 DEF Executed
    <2> QED
      BY <1>5, <2>1, MovesCount
  <1>8. NumberIn(place, Returned) <= NumberIn(place', Returned)
    <2>1. /\ \A k \in Index : place[k] \in Returned => place'[k] \in Returned
          /\ {} \in SUBSET Index
      BY <1>6 DEF Returned
    <2>2. NumberIn(place, Returned) + Cardinality({}) <= NumberIn(place', Returned)
      BY <2>1, MovesCount
    <2> QED
      BY <2>2, FS_EmptySet, NumbersAre
  <1>9. NumberIn(place, {"done"}) <= NumberIn(place', {"done"})
    <2>1. /\ \A k \in Index : place[k] \in {"done"} => place'[k] \in {"done"}
          /\ {} \in SUBSET Index
      BY <1>6
    <2>2. NumberIn(place, {"done"}) + Cardinality({}) <= NumberIn(place', {"done"})
      BY <2>1, MovesCount
    <2> QED
      BY <2>2, FS_EmptySet, NumbersAre
  <1>10. /\ Len(started') = Len(started) + Cardinality(S) /\ Len(started) \in Nat
    <2> HIDE DEF run
    <2>1. Len(started \o run) = Len(started) + Len(run)
      BY <1>1, <1>4, ConcatProperties
    <2> QED
      BY <1>1, <1>2, <1>4, <2>1, LenProperties
  <1>11. /\ NumberIn(place, Executed) \in Nat /\ NumberIn(place', Executed) \in Nat
         /\ NumberIn(place, Returned) \in Nat /\ NumberIn(place', Returned) \in Nat
         /\ NumberIn(place, {"done"}) \in Nat /\ NumberIn(place', {"done"}) \in Nat
         /\ MaxSends \in Nat
    BY NumbersAre, ToolWavesAssumption
  <1>12. /\ Len(started) <= NumberIn(place, Executed) + NumberIn(place, Returned)
         /\ sends \in Nat /\ sends <= MaxSends + NumberIn(place, {"done"})
         /\ approved \in BOOLEAN /\ awaiting \in BOOLEAN /\ failed \subseteq Tool
    BY DEF CountersOK
  <1>13. /\ Len(started') <= NumberIn(place', Executed) + NumberIn(place', Returned)
         /\ sends' <= MaxSends + NumberIn(place', {"done"})
    BY <1>2, <1>7, <1>8, <1>9, <1>10, <1>11, <1>12
  <1> QED
    BY <1>2, <1>12, <1>13 DEF CountersOK

\* They are counted together when all are there.
LEMMA CollectWaveCounts == ASSUME WavesInv, CountersOK, CollectWave PROVE CountersOK'
  <1> DEFINE ran == {k \in Wave : place[k] = "after"}
             sent == {k \in ran : batch[k] = "send_message"}
             blamed == {batch[k] : k \in {j \in ran : result[j] \in {"error", "approval"}}}
  <1>1. /\ WavesTyping /\ started \in Seq(Index) /\ place \in [Index -> Stages]
        /\ batch \in Seq(Tool)
    BY DEF WavesInv, WavesTyping
  <1>2. /\ Parallel /\ \A k \in Wave : place[k] \in {"after", "done"}
        /\ failed' = failed \cup blamed
        /\ sends' = sends + Cardinality(sent)
        /\ place' = [k \in Index |-> IF k \in Wave THEN "done" ELSE place[k]]
        /\ started' = started /\ awaiting' = awaiting /\ approved' = approved
    BY DEF CollectWave, waveInput
  <1>3. Wave \subseteq Index /\ Wave \subseteq DOMAIN batch
    BY <1>1, <1>2, FirstWave DEF Parallel
  <1>4. sent \in SUBSET Index /\ \A k \in sent : k \in Wave /\ place[k] = "after"
    BY <1>3
  <1>5. blamed \subseteq Tool
    BY <1>1, <1>3, LenProperties, ElementOfSeq
  <1> HIDE DEF sent, blamed
  <1>6. \A k \in Index : place'[k] = IF k \in Wave THEN "done" ELSE place[k]
    BY <1>2
  <1>7. /\ Cardinality(sent) \in Nat
        /\ NumberIn(place, {"done"}) + Cardinality(sent) <= NumberIn(place', {"done"})
    <2>1. /\ \A k \in Index : place[k] \in {"done"} => place'[k] \in {"done"} /\ k \notin sent
          /\ \A k \in sent : place'[k] \in {"done"}
      BY <1>4, <1>6
    <2> QED
      BY <1>4, <2>1, MovesCount
  <1>8. ASSUME NEW stages, "done" \in stages PROVE NumberIn(place, stages) <= NumberIn(place', stages)
    <2>1. /\ \A k \in Index : place[k] \in stages => place'[k] \in stages
          /\ {} \in SUBSET Index
      BY <1>6, <1>8
    <2>2. NumberIn(place, stages) + Cardinality({}) <= NumberIn(place', stages)
      BY <2>1, MovesCount
    <2> QED
      BY <2>2, FS_EmptySet, NumbersAre
  <1>9. /\ NumberIn(place, Executed) <= NumberIn(place', Executed)
        /\ NumberIn(place, Returned) <= NumberIn(place', Returned)
    BY <1>8 DEF Executed, Returned
  <1>10. /\ NumberIn(place, Executed) \in Nat /\ NumberIn(place', Executed) \in Nat
         /\ NumberIn(place, Returned) \in Nat /\ NumberIn(place', Returned) \in Nat
         /\ NumberIn(place, {"done"}) \in Nat /\ NumberIn(place', {"done"}) \in Nat
         /\ MaxSends \in Nat /\ Len(started) \in Nat
    BY <1>1, NumbersAre, ToolWavesAssumption, LenProperties
  <1>11. /\ Len(started) <= NumberIn(place, Executed) + NumberIn(place, Returned)
         /\ sends \in Nat /\ sends <= MaxSends + NumberIn(place, {"done"})
         /\ approved \in BOOLEAN /\ awaiting \in BOOLEAN /\ failed \subseteq Tool
    BY DEF CountersOK
  <1>12. /\ Len(started) <= NumberIn(place', Executed) + NumberIn(place', Returned)
         /\ sends' \in Nat /\ sends' <= MaxSends + NumberIn(place', {"done"})
    BY <1>2, <1>7, <1>9, <1>10, <1>11
  <1> QED
    BY <1>2, <1>5, <1>11, <1>12 DEF CountersOK

\* A call that moves on by itself.
CallMoves(i) ==
    /\ place[i] # "done" /\ \A k \in Index \ {i} : place'[k] = place[k]
    /\ place[i] \in Executed => place'[i] \in Executed
    /\ place[i] \in Returned => place'[i] \in Returned
    /\ approved' = approved /\ awaiting' \in BOOLEAN /\ failed' \in SUBSET Tool /\ sends' \in Nat
    /\ sends' <= sends \/ (sends' = sends + 1 /\ place'[i] = "done")
    /\ \/ started' = started
       \/ /\ started' = Append(started, i)
          /\ \/ place[i] \notin Executed /\ place'[i] \in Executed
             \/ place[i] \notin Returned /\ place'[i] \in Returned

\* A call that moves keeps the counters within what the places of the calls allow.
LEMMA CallCounts ==
  ASSUME WavesInv, CountersOK, NEW i \in Index, CallMoves(i)
  PROVE  CountersOK'
  <1> USE DEF CallMoves
  <1>1. WavesTyping
    BY DEF WavesInv
  <1>2. \A k \in Index \ {i} : place'[k] = place[k]
    OBVIOUS
  <1>3. /\ NumberIn(place', Executed) = NumberIn(place, Executed)
              + IF place'[i] \in Executed /\ place[i] \notin Executed THEN 1 ELSE 0
        /\ NumberIn(place', Returned) = NumberIn(place, Returned)
              + IF place'[i] \in Returned /\ place[i] \notin Returned THEN 1 ELSE 0
        /\ NumberIn(place', {"done"}) = NumberIn(place, {"done"})
              + IF place'[i] \in {"done"} /\ place[i] \notin {"done"} THEN 1 ELSE 0
    BY <1>2, MoveCounts
  <1>4. /\ NumberIn(place, Executed) \in Nat /\ NumberIn(place, Returned) \in Nat
        /\ NumberIn(place, {"done"}) \in Nat /\ MaxSends \in Nat
    BY NumbersAre, ToolWavesAssumption
  <1>5. started \in Seq(Index) /\ Len(started) \in Nat
    BY <1>1, LenProperties DEF WavesTyping
  <1>6. CountersOK
    OBVIOUS
  <1>7. Len(started') <= NumberIn(place', Executed) + NumberIn(place', Returned)
    <2>1. CASE started' = started
      BY <1>3, <1>4, <1>5, <1>6, <2>1 DEF CountersOK
    <2>2. CASE /\ started' = Append(started, i)
               /\ \/ place[i] \notin Executed /\ place'[i] \in Executed
                  \/ place[i] \notin Returned /\ place'[i] \in Returned
      <3>1. Len(started') = Len(started) + 1
        BY <1>5, <2>2, AppendProperties
      <3>2. Len(started) <= NumberIn(place, Executed) + NumberIn(place, Returned)
        BY DEF CountersOK
      <3> QED
        BY <1>3, <1>4, <1>5, <2>2, <3>1, <3>2
    <2> QED
      BY <2>1, <2>2
  <1>8. sends' <= MaxSends + NumberIn(place', {"done"})
    <2>1. sends \in Nat /\ sends <= MaxSends + NumberIn(place, {"done"})
      BY DEF CountersOK
    <2>2. CASE sends' <= sends
      BY <1>3, <1>4, <2>1, <2>2
    <2>3. CASE sends' = sends + 1 /\ place'[i] = "done"
      <3>1. NumberIn(place', {"done"}) = NumberIn(place, {"done"}) + 1
        BY <1>3, <2>3
      <3> QED
        BY <1>4, <2>1, <2>3, <3>1
    <2> QED
      BY <2>2, <2>3
  <1> QED
    BY <1>7, <1>8 DEF CountersOK

\* Every step keeps the counters.
LEMMA CountersStep == WavesInv /\ CountersOK /\ [WavesNext]_wavesVars => CountersOK'
  <1> SUFFICES ASSUME WavesInv, CountersOK, [WavesNext]_wavesVars PROVE CountersOK'
    OBVIOUS
  <1>1. /\ WavesTyping /\ place \in [Index -> Stages] /\ batch \in Seq(Tool)
        /\ started \in Seq(Index)
    BY DEF WavesInv, WavesTyping
  <1>2. /\ approved \in BOOLEAN /\ awaiting \in BOOLEAN /\ failed \in SUBSET Tool /\ sends \in Nat
    BY DEF CountersOK
  <1>3. Single => /\ It \in Index /\ It \in DOMAIN batch /\ batch[It] \in Tool
                  /\ failed \cup {batch[It]} \in SUBSET Tool
    <2>1. Single => It \in Index /\ It \in DOMAIN batch
      BY <1>1, SingleWave
    <2> QED
      BY <1>1, <1>2, <2>1, LenProperties, ElementOfSeq
  <1>4. MaxSends \in Nat /\ 0 <= MaxSends
    BY ToolWavesAssumption
  <1>5. CASE Refuse
    <2>1. /\ Single /\ place[It] = "idle" /\ place' = [place EXCEPT ![It] = "done"]
          /\ approved' = approved /\ awaiting' = awaiting /\ started' = started /\ sends' = sends
          /\ failed' \in {failed, failed \cup {batch[It]}}
      BY <1>5 DEF Refuse, Done, Blames, waveInput
    <2>2. place'[It] = "done" /\ \A j \in Index \ {It} : place'[j] = place[j]
      BY <1>1, <1>3, <2>1
    <2>9. CallMoves(It)
      BY <1>2, <1>3, <2>1, <2>2 DEF CallMoves, Executed, Returned
    <2> QED
      BY <1>3, <2>1, <2>9, CallCounts
  <1>6. CASE CallHook
    <2>1. /\ Single /\ place[It] = "idle" /\ place' = [place EXCEPT ![It] = "hook"]
          /\ approved' = approved /\ awaiting' = awaiting /\ started' = started /\ sends' \in {sends, 0}
          /\ failed' = failed
      BY <1>6 DEF CallHook, waveInput
    <2>2. place'[It] = "hook" /\ \A j \in Index \ {It} : place'[j] = place[j]
      BY <1>1, <1>3, <2>1
    <2>3. sends' \in Nat /\ sends' <= sends
      BY <1>2, <2>1
    <2>9. CallMoves(It)
      BY <1>2, <1>3, <2>1, <2>2, <2>3 DEF CallMoves, Executed, Returned
    <2> QED
      BY <1>3, <2>1, <2>9, CallCounts
  <1>7. CASE HookBlocks
    <2>1. /\ Single /\ place[It] = "hook" /\ place' = [place EXCEPT ![It] = "done"]
          /\ approved' = approved /\ awaiting' = awaiting /\ started' = started /\ sends' = sends
          /\ failed' = failed
      BY <1>7 DEF HookBlocks, Done, waveInput
    <2>2. place'[It] = "done" /\ \A j \in Index \ {It} : place'[j] = place[j]
      BY <1>1, <1>3, <2>1
    <2>9. CallMoves(It)
      BY <1>2, <1>3, <2>1, <2>2 DEF CallMoves, Executed, Returned
    <2> QED
      BY <1>3, <2>1, <2>9, CallCounts
  <1>8. CASE HookAllows
    <2>1. /\ Single /\ place[It] = "hook" /\ place' = [place EXCEPT ![It] = "running"]
          /\ approved' = approved /\ awaiting' = awaiting /\ started' = Append(started, It)
          /\ sends' = sends /\ failed' = failed
      BY <1>8 DEF HookAllows, Runs, waveInput
    <2>2. place'[It] = "running" /\ \A j \in Index \ {It} : place'[j] = place[j]
      BY <1>1, <1>3, <2>1
    <2>9. CallMoves(It)
      BY <1>2, <1>3, <2>1, <2>2 DEF CallMoves, Executed, Returned
    <2> QED
      BY <1>3, <2>1, <2>9, CallCounts
  <1>9. CASE ToolReturns
    <2>1. /\ Single /\ place[It] = "running"
          /\ place' = [place EXCEPT ![It] = IF result'[It] = "approval" /\ approved
                                            THEN "retry" ELSE "after"]
          /\ approved' = approved /\ started' = started /\ sends' = sends /\ failed' = failed
          /\ awaiting' \in BOOLEAN
      BY <1>2, <1>9 DEF ToolReturns, waveInput
    <2>2. place'[It] \in {"retry", "after"} /\ \A j \in Index \ {It} : place'[j] = place[j]
      BY <1>1, <1>3, <2>1
    <2>9. CallMoves(It)
      BY <1>2, <1>3, <2>1, <2>2 DEF CallMoves, Executed, Returned
    <2> QED
      BY <1>3, <2>1, <2>9, CallCounts
  <1>10. CASE Retry
    <2>1. /\ Single /\ place[It] = "retry" /\ place' = [place EXCEPT ![It] = "after"]
          /\ approved' = approved /\ awaiting' = awaiting /\ started' = Append(started, It)
          /\ sends' = sends /\ failed' = failed
      BY <1>10 DEF Retry, waveInput
    <2>2. place'[It] = "after" /\ \A j \in Index \ {It} : place'[j] = place[j]
      BY <1>1, <1>3, <2>1
    <2>9. CallMoves(It)
      BY <1>2, <1>3, <2>1, <2>2 DEF CallMoves, Executed, Returned
    <2> QED
      BY <1>3, <2>1, <2>9, CallCounts
  <1>11. CASE AfterHook
    <2>1. /\ Single /\ place[It] = "after" /\ place' = [place EXCEPT ![It] = "done"]
          /\ approved' = approved /\ awaiting' = awaiting /\ started' = started
          /\ sends' = IF batch[It] = "send_message" THEN sends + 1 ELSE sends
          /\ failed' \in {failed, failed \cup {batch[It]}}
      BY <1>11 DEF AfterHook, Done, Blames, waveInput
    <2>2. place'[It] = "done" /\ \A j \in Index \ {It} : place'[j] = place[j]
      BY <1>1, <1>3, <2>1
    <2>3. sends' \in Nat /\ (sends' <= sends \/ sends' = sends + 1)
      BY <1>2, <2>1
    <2>9. CallMoves(It)
      BY <1>2, <1>3, <2>1, <2>2, <2>3 DEF CallMoves, Executed, Returned
    <2> QED
      BY <1>3, <2>1, <2>9, CallCounts
  <1>12. ASSUME NEW k \in Index, WaveHook(k) PROVE CountersOK'
    <2>1. /\ place[k] = "idle" /\ place' = [place EXCEPT ![k] = "ready"]
          /\ approved' = approved /\ awaiting' = awaiting /\ started' = started
          /\ sends' = sends /\ failed' = failed
      BY <1>12 DEF WaveHook, waveInput
    <2>2. place'[k] = "ready" /\ \A j \in Index \ {k} : place'[j] = place[j]
      BY <1>1, <2>1
    <2>9. CallMoves(k)
      BY <1>2, <2>1, <2>2 DEF CallMoves, Executed, Returned
    <2> QED
      BY <2>1, <2>9, CallCounts
  <1>13. ASSUME NEW k \in Index, CallReturns(k) PROVE CountersOK'
    <2>1. /\ place[k] = "running" /\ place' = [place EXCEPT ![k] = "after"]
          /\ approved' = approved /\ awaiting' = awaiting /\ started' = started
          /\ sends' = sends /\ failed' = failed
      BY <1>13 DEF CallReturns, waveInput
    <2>2. place'[k] = "after" /\ \A j \in Index \ {k} : place'[j] = place[j]
      BY <1>1, <2>1
    <2>9. CallMoves(k)
      BY <1>2, <2>1, <2>2 DEF CallMoves, Executed, Returned
    <2> QED
      BY <2>1, <2>9, CallCounts
  <1>14. CASE StartWave
    BY <1>14, StartWaveCounts
  <1>15. CASE CollectWave
    BY <1>15, CollectWaveCounts
  <1>16. CASE UNCHANGED wavesVars
    BY <1>16 DEF wavesVars, CountersOK
  <1> QED
    BY <1>5, <1>6, <1>7, <1>8, <1>9, <1>10, <1>11, <1>12, <1>13, <1>14, <1>15, <1>16 DEF WavesNext

\* The counters have their bounds.
LEMMA WavesTyped ==
  ASSUME WavesInv, CountersOK
  PROVE  WavesTypeOK
  <1>1. WavesTyping /\ StartedInv
    BY DEF WavesInv
  <1>2. /\ NumberIn(place, Executed) \in 0 .. MaxCalls /\ NumberIn(place, Returned) \in 0 .. MaxCalls
        /\ NumberIn(place, {"done"}) \in 0 .. MaxCalls
        /\ MaxCalls \in Nat /\ MaxSends \in Nat
    BY NumbersAre, ToolWavesAssumption
  <1>3. sends \in 0 .. MaxSends + MaxCalls
    BY <1>2 DEF CountersOK
  <1>4. Len(started) \in Nat /\ Len(started) <= 2 * MaxCalls
    <2>1. Len(started) \in Nat
      BY <1>1, LenProperties DEF WavesTyping
    <2>2. Len(started) <= NumberIn(place, Executed) + NumberIn(place, Returned)
      BY DEF CountersOK
    <2> QED
      BY <1>2, <2>1, <2>2
  <1>5. toolCalls \in Nat /\ toolCalls <= Len(started)
    <2>1. toolCalls \in Nat
      BY <1>1 DEF WavesTyping
    <2>2. CASE Parallel /\ WaveBegun
      <3>1. Wave \ vetoed \subseteq Wave /\ IsFiniteSet(Wave)
        BY <1>1, <2>2, FirstWave DEF Parallel
      <3>2. Cardinality(Wave \ vetoed) \in Nat
        BY <3>1, FS_Subset, FS_CardinalityType
      <3>3. Len(started) = toolCalls + Cardinality(Wave \ vetoed)
        BY <1>1, <2>2 DEF StartedInv
      <3> QED
        BY <2>1, <3>2, <3>3
    <2>3. CASE ~(Parallel /\ WaveBegun)
      <3>1. Len(started) = toolCalls + 0
        BY <1>1, <2>3 DEF StartedInv
      <3> QED
        BY <2>1, <3>1
    <2> QED
      BY <2>1, <2>2, <2>3
  <1>6. toolCalls \in 0 .. 2 * MaxCalls
    BY <1>2, <1>4, <1>5
  <1>7. ASSUME NEW w \in DOMAIN todo
        PROVE  todo[w] # <<>> /\ \A k \in DOMAIN todo[w] : todo[w][k] \in DOMAIN batch
    <2>1. todo \in Seq(Seq(DOMAIN batch)) /\ Len(todo[w]) > 0
      BY <1>1, <1>7 DEF WavesTyping
    <2>2. todo[w] \in Seq(DOMAIN batch)
      BY <1>7, <2>1, LenProperties, ElementOfSeq
    <2>3. todo[w] # <<>>
      BY <2>1, EmptySeq
    <2> QED
      BY <2>2, <2>3, LenProperties, ElementOfSeq
  <1>8. approved \in BOOLEAN /\ awaiting \in BOOLEAN /\ failed \subseteq Tool
    BY DEF CountersOK
  <1> QED
    BY <1>1, <1>3, <1>6, <1>7, <1>8 DEF WavesTyping, WavesTypeOK

\* However a batch goes, its calls are counted as executed twice at most, and the
\* messages sent in a row exceed the limit by no more than the batch has calls.
THEOREM WavesTypes == WavesSpec => []WavesTypeOK
  <1>1. WavesInit => CountersOK
    BY CountersBegin
  <1>2. WavesInv /\ CountersOK /\ [WavesNext]_wavesVars => CountersOK'
    BY CountersStep
  <1>3. WavesInv /\ CountersOK => WavesTypeOK
    BY WavesTyped
  <1> QED
    BY <1>1, <1>2, <1>3, WavesInvariant, PTL DEF WavesSpec

-----------------------------------------------------------------------------
(* MCAgentRun: one part moves at a time and the others stay as they are.    *)

AgentRunInv == ControlInv /\ StreamInv /\ WavesInv /\ CountersOK /\ McpInv /\ ReplyInv

\* Whatever part of a run moves, all of them stay in their types.
THEOREM AgentRunTypes == AgentRunSpec => []AgentRunTypeOK
  <1>1. AgentRunInit => AgentRunInv
    BY ControlInitially, StreamInitially, WavesBegin, CountersBegin, McpInitInv, ReplyStarts
       DEF AgentRunInit, AgentRunInv
  <1>2. AgentRunInv /\ [AgentRunNext]_agentRunVars => AgentRunInv'
    <2> SUFFICES ASSUME AgentRunInv, [AgentRunNext]_agentRunVars PROVE AgentRunInv'
      OBVIOUS
    <2>1. /\ [ControlNext]_controlVars /\ [StreamNext]_streamVars /\ [WavesNext]_wavesVars
          /\ [McpNext]_mcpVars /\ [ReplyNext]_replyVars
      BY DEF AgentRunNext, agentRunVars
    <2>2. /\ ControlInv /\ StreamInv /\ WavesInv /\ CountersOK /\ McpInv /\ ReplyInv
      BY DEF AgentRunInv
    <2>3. /\ ControlInv' /\ StreamInv' /\ WavesInv' /\ CountersOK' /\ McpInv' /\ ReplyInv'
      BY <2>1, <2>2, ControlStep, StreamStepPreserves, WavesStep, CountersStep, McpStep, ReplyStep
    <2> QED
      BY <2>3 DEF AgentRunInv
  <1>3. AgentRunInv => AgentRunTypeOK
    <2> SUFFICES ASSUME AgentRunInv PROVE AgentRunTypeOK
      OBVIOUS
    <2>1. WavesTypeOK /\ ReplyTypeOK
      BY WavesTyped, ReplyTyped DEF AgentRunInv
    <2>2. ControlTypeOK /\ StreamTypeOK /\ McpTypeOK
      BY DEF AgentRunInv, ControlInv, StreamInv, McpInv
    <2> QED
      BY <2>1, <2>2 DEF AgentRunTypeOK
  <1> QED
    BY <1>1, <1>2, <1>3, PTL DEF AgentRunSpec
=============================================================================
