-------------------------- MODULE BackgroundProofs --------------------------
(***************************************************************************)
(* Proofs about the work that goes on behind the chats.                    *)
(* SubagentRuns, for any number of runs, agents, workers and restarts: the *)
(* rows have no owner and most statements write them without a condition;  *)
(* what keeps a final status final is that at any time one party alone     *)
(* will write a row: the caller that has inserted it, then its task, then  *)
(* nobody.                                                                 *)
(* TaskScheduler, for any number of tasks, dead-letter entries and         *)
(* crashes: the invariant says what the scheduler knows of a task it has   *)
(* claimed while every tool may change the row, which is not completed,    *)
(* and whose occurrence is still owed until the agent is called for it.    *)
(* AnnounceRelay, for any number of runs, flushers and restarts: flushers  *)
(* write over one another's rows from what they have read of them; what    *)
(* they have read is never ahead of what was tried, and a row that only    *)
(* one of them has is sent by that one.                                    *)
(***************************************************************************)
EXTENDS MCBackground, AnnounceRelay, TLAPS, SequenceTheorems, FiniteSetTheorems,
        WellFoundedInduction

-----------------------------------------------------------------------------
(* The sub-agent runs.                                                      *)

USE SubagentAssumption

Spawning == {"chat", "children", "insert", "register"}
AtWork == NotStarted \cup InRun \cup {"finishing"}

\* A call in progress has packages to spawn below a run that is not too deep,
\* and the row it has inserted is its own and untouched.
CallInv ==
    /\ \A c \in Caller : call[c] \in Spawning =>
          /\ packages[c] \in 1 .. MaxWorkers
          /\ (IF under[c] = NoRun THEN 0 ELSE depth[under[c]]) < MaxDepth
          /\ under[c] # NoRun => row[under[c]] # "none"
    /\ \A c \in Caller : fresh[c] # NoRun <=> call[c] = "register"
    /\ \A c \in Caller : fresh[c] # NoRun => work[fresh[c]] = "none" /\ row[fresh[c]] = "accepted"
    /\ \A c, d \in Caller : fresh[c] # NoRun /\ fresh[c] = fresh[d] => c = d

\* A task belongs to a row, knows how it ended when it ends, and has iterations
\* left until then; an orphaned row has neither a task nor a caller.
WorkInv ==
    /\ \A r \in SubRun : row[r] = "none" => work[r] = "none"
    /\ \A r \in SubRun : work[r] = "finishing" => outcome[r] \in Final
    /\ \A r \in SubRun : work[r] # "finishing" => turns[r] < MaxIterations
    /\ \A r \in orphans : /\ row[r] # "none" /\ work[r] \in {"none", "gone"}
                          /\ \A c \in Caller : fresh[c] # r

\* Those who wait for a permit stand in the line once.
LineInv ==
    /\ \A i \in DOMAIN line : work[line[i]] = "waiting"
    /\ \A i, j \in DOMAIN line : line[i] = line[j] => i = j

\* A run that was killed early gets no further than its look at the flags.
EarlyInv ==
    \A r \in early \ orphans :
        /\ row[r] # "none" /\ work[r] \notin {"model", "tools"}
        /\ work[r] = "finishing" => outcome[r] \in {"cancelled", "timed_out"}
        /\ row[r] \in Final => row[r] \in {"cancelled", "timed_out"}

SubagentInv ==
    SubagentTypeOK /\ CallInv /\ WorkInv /\ LineInv /\ EarlyInv /\ RowsMatchTasks

\* No row, no task, nobody spawning.
LEMMA SubagentInitially == SubagentInit => SubagentInv
  <1> SUFFICES ASSUME SubagentInit PROVE SubagentInv
    OBVIOUS
  <1>1. SubagentTypeOK
    BY DEF SubagentInit, SubagentTypeOK, Settled
  <1>2. CallInv /\ WorkInv /\ EarlyInv /\ RowsMatchTasks
    BY DEF SubagentInit, CallInv, Spawning, WorkInv, EarlyInv, RowsMatchTasks, Active, Final,
           NotStarted, InRun
  <1>3. LineInv
    BY DEF SubagentInit, LineInv
  <1> QED
    BY <1>1, <1>2, <1>3 DEF SubagentInv

\* A call that ends has nothing in its hands, and the other calls go on.
LEMMA CallEndsFacts ==
  ASSUME SubagentTypeOK, NEW c \in Caller, CallEnds(c)
  PROVE  /\ call' \in [Caller -> {"idle", "chat", "children", "insert", "register", "poll"}]
         /\ under' \in [Caller -> SubRun \cup {NoRun}]
         /\ packages' \in [Caller -> 0 .. MaxWorkers]
         /\ waits' \in [Caller -> BOOLEAN]
         /\ crew' \in [Caller -> SUBSET SubRun]
         /\ fresh' \in [Caller -> SubRun \cup {NoRun}]
         /\ call'[c] = "idle" /\ fresh'[c] = NoRun
         /\ \A d \in Caller : d # c => /\ call'[d] = call[d] /\ under'[d] = under[d]
                                       /\ packages'[d] = packages[d] /\ fresh'[d] = fresh[d]
  BY DEF SubagentTypeOK, CallEnds

\* A step that begins no call and moves none forward keeps what the calls rely
\* on, as long as it leaves their rows alone and deletes none.
LEMMA CallKept ==
  ASSUME SubagentTypeOK, CallInv,
         \A c \in Caller : \/ call'[c] = "idle" /\ fresh'[c] = NoRun
                           \/ /\ call'[c] = call[c] /\ under'[c] = under[c]
                              /\ packages'[c] = packages[c] /\ fresh'[c] = fresh[c],
         \A r \in SubRun : row[r] # "none" => row'[r] # "none" /\ depth'[r] = depth[r],
         \A c \in Caller : fresh'[c] # NoRun =>
             work'[fresh'[c]] = "none" /\ row'[fresh'[c]] = row[fresh'[c]]
  PROVE  CallInv'
  <1>1. \A c \in Caller : fresh[c] \in SubRun \cup {NoRun} /\ under[c] \in SubRun \cup {NoRun}
    BY DEF SubagentTypeOK
  <1>2. \A c \in Caller : call'[c] \in Spawning =>
          /\ packages'[c] \in 1 .. MaxWorkers
          /\ (IF under'[c] = NoRun THEN 0 ELSE depth'[under'[c]]) < MaxDepth
          /\ under'[c] # NoRun => row'[under'[c]] # "none"
    BY <1>1 DEF CallInv, Spawning
  <1>3. \A c \in Caller : fresh'[c] # NoRun <=> call'[c] = "register"
    BY DEF CallInv
  <1>4. \A c \in Caller : fresh'[c] # NoRun => work'[fresh'[c]] = "none" /\ row'[fresh'[c]] = "accepted"
    BY DEF CallInv
  <1>5. \A c, d \in Caller : fresh'[c] # NoRun /\ fresh'[c] = fresh'[d] => c = d
    BY DEF CallInv
  <1> QED
    BY <1>2, <1>3, <1>4, <1>5 DEF CallInv

\* ... in particular when a call ends, ...
LEMMA CallEndsKeeps ==
  ASSUME SubagentTypeOK, CallInv, NEW c \in Caller, CallEnds(c), row' = row, depth' = depth,
         \A r \in SubRun : work[r] = "none" => work'[r] = "none"
  PROVE  CallInv'
  <1>1. \A d \in Caller : \/ call'[d] = "idle" /\ fresh'[d] = NoRun
                          \/ /\ call'[d] = call[d] /\ under'[d] = under[d]
                             /\ packages'[d] = packages[d] /\ fresh'[d] = fresh[d]
    BY CallEndsFacts
  <1>2. \A d \in Caller : fresh'[d] # NoRun => work'[fresh'[d]] = "none" /\ row'[fresh'[d]] = row[fresh'[d]]
    <2> SUFFICES ASSUME NEW d \in Caller, fresh'[d] # NoRun
                 PROVE  work'[fresh'[d]] = "none" /\ row'[fresh'[d]] = row[fresh'[d]]
      OBVIOUS
    <2>1. fresh'[d] = fresh[d] /\ fresh[d] \in SubRun
      BY <1>1 DEF SubagentTypeOK
    <2> QED
      BY <2>1 DEF CallInv
  <1> QED
    BY <1>1, <1>2, CallKept

\* ... or when only tasks move.
LEMMA CallsStand ==
  ASSUME SubagentTypeOK, CallInv, UNCHANGED callVars, depth' = depth,
         \A r \in SubRun : row[r] # "none" => row'[r] # "none",
         \A r \in SubRun : work[r] = "none" => work'[r] = "none" /\ row'[r] = row[r]
  PROVE  CallInv'
  <1>1. \A d \in Caller : /\ call'[d] = call[d] /\ under'[d] = under[d]
                          /\ packages'[d] = packages[d] /\ fresh'[d] = fresh[d]
    BY DEF callVars
  <1>2. \A d \in Caller : fresh'[d] # NoRun => work'[fresh'[d]] = "none" /\ row'[fresh'[d]] = row[fresh'[d]]
    <2> SUFFICES ASSUME NEW d \in Caller, fresh'[d] # NoRun
                 PROVE  work'[fresh'[d]] = "none" /\ row'[fresh'[d]] = row[fresh'[d]]
      OBVIOUS
    <2>1. fresh'[d] = fresh[d] /\ fresh[d] \in SubRun
      BY <1>1 DEF SubagentTypeOK
    <2> QED
      BY <2>1 DEF CallInv
  <1> QED
    BY <1>1, <1>2, CallKept

\* The line is a sequence of waiting runs, and its head is the oldest.
LEMMA LineFacts ==
  ASSUME SubagentTypeOK, LineInv
  PROVE  /\ Len(line) \in Nat /\ DOMAIN line = 1 .. Len(line)
         /\ \A i \in 1 .. Len(line) : line[i] \in SubRun /\ work[line[i]] = "waiting"
         /\ line # <<>> => Len(line) > 0 /\ Head(line) = line[1]
  <1>1. line \in Seq(SubRun)
    BY DEF SubagentTypeOK
  <1>2. Len(line) \in Nat /\ DOMAIN line = 1 .. Len(line) /\ line \in [1 .. Len(line) -> SubRun]
    BY <1>1, LenProperties
  <1>3. \A i \in 1 .. Len(line) : line[i] \in SubRun /\ work[line[i]] = "waiting"
    BY <1>2 DEF LineInv
  <1>4. line # <<>> => Len(line) > 0 /\ Head(line) = line[1]
    BY <1>1, <1>2
  <1> QED
    BY <1>2, <1>3, <1>4

\* A call begins: below a run that exists and is not too deep.
LEMMA BeginPreserves ==
  ASSUME SubagentInv, NEW c \in Caller, NEW p \in SubRun \cup {NoRun}, NEW n \in 1 .. MaxWorkers, NEW w \in BOOLEAN, BeginSpawn(c, p, n, w)
  PROVE  SubagentInv'
  <1> USE DEF SubagentInv, BeginSpawn,
              rowVars, taskVars, callVars
  <1>1. SubagentTypeOK'
    BY DEF SubagentTypeOK, CallInv, Spawning, WorkInv, Active, Final, NotStarted, InRun
  <1>2. CallInv'
    BY DEF SubagentTypeOK, CallInv, Spawning, WorkInv, LineInv, Active, Final, NotStarted, InRun
  <1>3. WorkInv'
    BY DEF SubagentTypeOK, CallInv, Spawning, WorkInv, LineInv, RowsMatchTasks, Active, Final, NotStarted, InRun
  <1>4. LineInv'
    BY DEF SubagentTypeOK, CallInv, WorkInv, LineInv, Active, Final, NotStarted, InRun
  <1>5. EarlyInv'
    BY DEF SubagentTypeOK, CallInv, WorkInv, LineInv, EarlyInv, RowsMatchTasks, Active, Final, NotStarted, InRun
  <1>6. RowsMatchTasks'
    BY DEF SubagentTypeOK, CallInv, WorkInv, LineInv, RowsMatchTasks, Active, Final, NotStarted, InRun
  <1> QED
    BY <1>1, <1>2, <1>3, <1>4, <1>5, <1>6

\* The limits are looked at, and the call goes on or ends.
LEMMA CountPreserves ==
  ASSUME SubagentInv, NEW c \in Caller, CountChat(c) \/ CountChildren(c)
  PROVE  SubagentInv'
  <1> USE DEF SubagentInv, CountChat, CountChildren, CallEnds,
              rowVars, taskVars, callVars
  <1>1. SubagentTypeOK'
    <2>1. CASE CallEnds(c)
      BY <2>1, CallEndsFacts DEF SubagentTypeOK
    <2>2. CASE UNCHANGED <<under, packages, waits, crew, fresh>>
      BY <2>2 DEF SubagentTypeOK
    <2> QED
      BY <2>1, <2>2
  <1>2. CallInv'
    <2>1. CASE CallEnds(c)
      BY <2>1, CallEndsKeeps
    <2>2. CASE UNCHANGED <<under, packages, waits, crew, fresh>>
      BY <2>2 DEF SubagentTypeOK, CallInv, Spawning
    <2> QED
      BY <2>1, <2>2
  <1>3. WorkInv'
    BY DEF SubagentTypeOK, CallInv, Spawning, WorkInv, LineInv, RowsMatchTasks, Active, Final, NotStarted, InRun
  <1>4. LineInv'
    BY DEF SubagentTypeOK, CallInv, WorkInv, LineInv, Active, Final, NotStarted, InRun
  <1>5. EarlyInv'
    BY DEF SubagentTypeOK, CallInv, WorkInv, LineInv, EarlyInv, RowsMatchTasks, Active, Final, NotStarted, InRun
  <1>6. RowsMatchTasks'
    BY DEF SubagentTypeOK, CallInv, WorkInv, LineInv, RowsMatchTasks, Active, Final, NotStarted, InRun
  <1> QED
    BY <1>1, <1>2, <1>3, <1>4, <1>5, <1>6

\* The new row is nobody else's.
LEMMA InsertPreserves ==
  ASSUME SubagentInv, NEW c \in Caller, InsertRow(c)
  PROVE  SubagentInv'
  <1> DEFINE n == fresh'[c]
  <1> USE DEF SubagentInv
  <1>0. /\ n \in SubRun /\ row[n] = "none" /\ row' = [row EXCEPT ![n] = "accepted"]
        /\ parent' = [parent EXCEPT ![n] = under[c]]
        /\ depth' = [depth EXCEPT ![n] = 1 + IF under[c] = NoRun THEN 0 ELSE depth[under[c]]]
        /\ fresh' = [fresh EXCEPT ![c] = n] /\ call' = [call EXCEPT ![c] = "register"]
        /\ call[c] = "insert"
        /\ UNCHANGED <<wanted, taskVars, under, packages, waits, crew, killing, restarts, orphans,
                       early>>
    <2>1. PICK s \in SubRun : row[s] = "none"
      BY DEF InsertRow
    <2> QED
      BY <2>1 DEF InsertRow, SubagentTypeOK
  <1>a. work[n] = "none" /\ n \notin orphans /\ \A d \in Caller : fresh[d] # n
    BY <1>0 DEF WorkInv, CallInv
  <1>b. (IF under[c] = NoRun THEN 0 ELSE depth[under[c]]) \in 0 .. MaxDepth - 1
    BY <1>0 DEF CallInv, Spawning, SubagentTypeOK
  <1>1. SubagentTypeOK'
    <2>1. row' \in [SubRun -> Active \cup Final \cup {"none"}] /\ parent' \in [SubRun -> SubRun \cup {NoRun}]
      BY <1>0 DEF SubagentTypeOK, Active
    <2>2. depth' \in [SubRun -> 0 .. MaxDepth]
      <3> DEFINE k == 1 + IF under[c] = NoRun THEN 0 ELSE depth[under[c]]
      <3>1. k \in 0 .. MaxDepth
        BY <1>b
      <3>2. depth' = [depth EXCEPT ![n] = k]
        BY <1>0
      <3> HIDE DEF k, n
      <3> QED
        BY <3>1, <3>2 DEF SubagentTypeOK
    <2>3. /\ fresh' \in [Caller -> SubRun \cup {NoRun}]
          /\ call' \in [Caller -> {"idle", "chat", "children", "insert", "register", "poll"}]
      BY <1>0 DEF SubagentTypeOK
    <2> QED
      BY <1>0, <2>1, <2>2, <2>3 DEF SubagentTypeOK, taskVars
  <1>2. CallInv'
    <2>1. \A d \in Caller : d # c => call'[d] = call[d] /\ fresh'[d] = fresh[d] /\ fresh[d] # n
      BY <1>0, <1>a DEF SubagentTypeOK
    <2>2. call'[c] = "register" /\ fresh[c] = NoRun /\ fresh'[c] = n
      BY <1>0 DEF SubagentTypeOK, CallInv
    <2>3. \A r \in SubRun : r # n => row'[r] = row[r] /\ depth'[r] = depth[r]
      BY <1>0 DEF SubagentTypeOK
    <2>4. row'[n] = "accepted" /\ n # NoRun /\ \A d \in Caller : under[d] # n \/ call[d] \notin Spawning
      BY <1>0 DEF SubagentTypeOK, CallInv
    <2>5. \A d \in Caller : call'[d] \in Spawning => call[d] \in Spawning
      BY <2>1, <1>0 DEF Spawning
    <2>6. under' = under /\ packages' = packages /\ work' = work
      BY <1>0 DEF taskVars
    <2>7. \A d \in Caller : call'[d] \in Spawning =>
            /\ packages'[d] \in 1 .. MaxWorkers
            /\ (IF under'[d] = NoRun THEN 0 ELSE depth'[under'[d]]) < MaxDepth
            /\ under'[d] # NoRun => row'[under'[d]] # "none"
      BY <2>3, <2>4, <2>5, <2>6 DEF SubagentTypeOK, CallInv
    <2>8. \A d \in Caller : fresh'[d] # NoRun <=> call'[d] = "register"
      BY <2>1, <2>2, <2>4 DEF CallInv
    <2>9. \A d \in Caller : fresh'[d] # NoRun => work'[fresh'[d]] = "none" /\ row'[fresh'[d]] = "accepted"
      <3> SUFFICES ASSUME NEW d \in Caller, fresh'[d] # NoRun
                   PROVE  work'[fresh'[d]] = "none" /\ row'[fresh'[d]] = "accepted"
        OBVIOUS
      <3>1. CASE d = c
        BY <3>1, <1>a, <2>2, <2>4, <2>6
      <3>2. CASE d # c
        <4>1. fresh'[d] = fresh[d] /\ fresh[d] # n /\ fresh[d] \in SubRun
          BY <3>2, <2>1 DEF SubagentTypeOK
        <4> QED
          BY <4>1, <2>3, <2>6 DEF CallInv
      <3> QED
        BY <3>1, <3>2
    <2>10. \A d, e \in Caller : fresh'[d] # NoRun /\ fresh'[d] = fresh'[e] => d = e
      BY <2>1, <2>2 DEF CallInv
    <2> QED
      BY <2>7, <2>8, <2>9, <2>10 DEF CallInv
  <1>3. WorkInv'
    BY <1>0, <1>a DEF SubagentTypeOK, WorkInv, taskVars, Final
  <1>4. LineInv'
    BY <1>0 DEF LineInv, taskVars
  <1>5. EarlyInv'
    BY <1>0 DEF SubagentTypeOK, EarlyInv, taskVars, Final
  <1>6. RowsMatchTasks'
    <2> SUFFICES ASSUME NEW r \in SubRun \ orphans
                 PROVE  row'[r] \in Active <=> \/ work[r] \in NotStarted \cup InRun \cup {"finishing"}
                                               \/ \E d \in Caller : fresh'[d] = r
      BY <1>0 DEF RowsMatchTasks, taskVars
    <2>1. CASE r = n
      BY <2>1, <1>0 DEF SubagentTypeOK, Active
    <2>2. CASE r # n
      <3>1. row'[r] = row[r] /\ r # NoRun
        BY <2>2, <1>0 DEF SubagentTypeOK
      <3>2. (\E d \in Caller : fresh'[d] = r) <=> \E d \in Caller : fresh[d] = r
        <4>1. \A d \in Caller : fresh'[d] = r <=> fresh[d] = r
          BY <2>2, <3>1, <1>0 DEF SubagentTypeOK, CallInv
        <4> QED
          BY <4>1
      <3> QED
        BY <3>1, <3>2 DEF RowsMatchTasks
    <2> QED
      BY <2>1, <2>2
  <1> QED
    BY <1>1, <1>2, <1>3, <1>4, <1>5, <1>6

\* The row passes from its caller to its task.
LEMMA StartPreserves ==
  ASSUME SubagentInv, NEW c \in Caller, StartTask(c)
  PROVE  SubagentInv'
  <1> DEFINE r == fresh[c]
  <1> USE DEF SubagentInv
  <1>0. /\ call[c] = "register" /\ flags' = flags \cup {r}
        /\ work' = [work EXCEPT ![r] = "queueing"]
        /\ UNCHANGED <<rowVars, raised, outcome, turns, line, killing, restarts, orphans, early>>
    BY DEF StartTask
  <1>a. /\ r \in SubRun /\ work[r] = "none" /\ row[r] = "accepted" /\ r \notin orphans
        /\ \A d \in Caller : d # c => fresh[d] # r
    BY <1>0 DEF SubagentTypeOK, CallInv, WorkInv
  <1>b. /\ call' \in [Caller -> {"idle", "chat", "children", "insert", "register", "poll"}]
        /\ under' \in [Caller -> SubRun \cup {NoRun}]
        /\ packages' \in [Caller -> 0 .. MaxWorkers]
        /\ waits' \in [Caller -> BOOLEAN]
        /\ crew' \in [Caller -> SUBSET SubRun]
        /\ fresh' \in [Caller -> SubRun \cup {NoRun}]
        /\ fresh'[c] = NoRun
        /\ \A d \in Caller : d # c => /\ call'[d] = call[d] /\ under'[d] = under[d]
                                      /\ packages'[d] = packages[d] /\ fresh'[d] = fresh[d]
        /\ \/ call'[c] \in {"idle", "poll"}
           \/ /\ call'[c] = "chat" /\ under'[c] = under[c] /\ packages'[c] \in 1 .. MaxWorkers
    <2>1. CASE CallEnds(c)
      BY <2>1, CallEndsFacts
    <2>2. CASE ~CallEnds(c)
      <3>1. /\ call' = [call EXCEPT ![c] = IF packages[c] > 1 THEN "chat" ELSE "poll"]
            /\ packages' = [packages EXCEPT ![c] = @ - 1]
            /\ crew' = [crew EXCEPT ![c] = @ \cup {r}]
            /\ fresh' = [fresh EXCEPT ![c] = NoRun]
            /\ UNCHANGED <<under, waits>>
        BY <2>2 DEF StartTask
      <3>2. packages[c] \in 1 .. MaxWorkers /\ packages[c] - 1 \in 0 .. MaxWorkers
        BY <1>0 DEF SubagentTypeOK, CallInv, Spawning
      <3>3. packages' \in [Caller -> 0 .. MaxWorkers]
        BY <3>1, <3>2 DEF SubagentTypeOK
      <3>4. crew' \in [Caller -> SUBSET SubRun]
        BY <3>1, <1>a DEF SubagentTypeOK
      <3> QED
        BY <3>1, <3>2, <3>3, <3>4 DEF SubagentTypeOK
    <2> QED
      BY <2>1, <2>2
  <1>1. SubagentTypeOK'
    BY <1>0, <1>a, <1>b DEF SubagentTypeOK, rowVars, NotStarted
  <1>2. CallInv'
    <2>1. row' = row /\ depth' = depth /\ under[c] \in SubRun \cup {NoRun}
      BY <1>0 DEF rowVars, SubagentTypeOK
    <2>2. \A d \in Caller : call'[d] \in Spawning =>
            /\ packages'[d] \in 1 .. MaxWorkers
            /\ (IF under'[d] = NoRun THEN 0 ELSE depth'[under'[d]]) < MaxDepth
            /\ under'[d] # NoRun => row'[under'[d]] # "none"
      BY <1>0, <1>b, <2>1 DEF CallInv, Spawning
    <2>3. \A d \in Caller : fresh'[d] # NoRun <=> call'[d] = "register"
      BY <1>b DEF CallInv
    <2>4. \A d \in Caller : fresh'[d] # NoRun => work'[fresh'[d]] = "none" /\ row'[fresh'[d]] = "accepted"
      <3> SUFFICES ASSUME NEW d \in Caller, fresh'[d] # NoRun
                   PROVE  work'[fresh'[d]] = "none" /\ row'[fresh'[d]] = "accepted"
        OBVIOUS
      <3>1. d # c /\ fresh'[d] = fresh[d]
        BY <1>b
      <3>2. fresh[d] # r /\ fresh[d] \in SubRun /\ work[fresh[d]] = "none" /\ row[fresh[d]] = "accepted"
        BY <1>a, <3>1 DEF SubagentTypeOK, CallInv
      <3> QED
        BY <1>0, <2>1, <3>1, <3>2 DEF SubagentTypeOK
    <2>5. \A d, e \in Caller : fresh'[d] # NoRun /\ fresh'[d] = fresh'[e] => d = e
      BY <1>b DEF CallInv
    <2> QED
      BY <2>2, <2>3, <2>4, <2>5 DEF CallInv
  <1>3. WorkInv'
    BY <1>0, <1>a, <1>b DEF SubagentTypeOK, WorkInv, rowVars
  <1>4. LineInv'
    <2>1. \A i \in DOMAIN line : line[i] \in SubRun
      BY LenProperties DEF SubagentTypeOK
    <2> QED
      BY <1>0, <1>a, <2>1 DEF SubagentTypeOK, LineInv
  <1>5. EarlyInv'
    BY <1>0, <1>a DEF SubagentTypeOK, EarlyInv, rowVars
  <1>6. RowsMatchTasks'
    <2> SUFFICES ASSUME NEW q \in SubRun \ orphans
                 PROVE  row[q] \in Active <=> \/ work'[q] \in NotStarted \cup InRun \cup {"finishing"}
                                              \/ \E d \in Caller : fresh'[d] = q
      BY <1>0 DEF RowsMatchTasks, rowVars
    <2>1. CASE q = r
      BY <2>1, <1>0, <1>a DEF SubagentTypeOK, Active, NotStarted
    <2>2. CASE q # r
      <3>1. work'[q] = work[q] /\ q # NoRun
        BY <2>2, <1>0 DEF SubagentTypeOK
      <3>2. \A d \in Caller : fresh'[d] = q <=> fresh[d] = q
        BY <2>2, <3>1, <1>b
      <3> QED
        BY <3>1, <3>2 DEF RowsMatchTasks
    <2> QED
      BY <2>1, <2>2
  <1> QED
    BY <1>1, <1>2, <1>3, <1>4, <1>5, <1>6

\* Whoever stops waiting has no row in its hands, and whoever is dropped leaves
\* the row it has an orphan.
LEMMA StopPreserves ==
  ASSUME SubagentInv, NEW c \in Caller, Poll(c) \/ StopWaiting(c) \/ Abandon(c)
  PROVE  SubagentInv'
  <1> USE DEF SubagentInv
  <1>0. /\ CallEnds(c) /\ UNCHANGED <<rowVars, taskVars, killing, restarts, early>>
        /\ orphans' = orphans \cup Dropped(c)
    <2>1. CASE Poll(c) \/ StopWaiting(c)
      BY <2>1 DEF Poll, StopWaiting, Dropped, CallInv
    <2> QED
      BY <2>1 DEF Abandon
  <1>a. /\ \A q \in Dropped(c) : /\ q \in SubRun /\ row[q] = "accepted" /\ work[q] = "none"
                                 /\ fresh[c] = q /\ \A d \in Caller : d # c => fresh[d] # q
        /\ Dropped(c) = {} => fresh[c] = NoRun
    BY DEF Dropped, SubagentTypeOK, CallInv
  <1>1. SubagentTypeOK'
    BY <1>0, <1>a, CallEndsFacts DEF SubagentTypeOK, rowVars, taskVars
  <1>2. CallInv'
    BY <1>0, CallEndsKeeps DEF rowVars, taskVars
  <1>3. WorkInv'
    <2>1. \A q \in orphans' : /\ row[q] # "none" /\ work[q] \in {"none", "gone"}
                              /\ \A d \in Caller : fresh'[d] # q
      <3> SUFFICES ASSUME NEW q \in orphans'
                   PROVE  /\ row[q] # "none" /\ work[q] \in {"none", "gone"}
                          /\ \A d \in Caller : fresh'[d] # q
        OBVIOUS
      <3>1. q \in SubRun /\ q # NoRun
        BY <1>0, <1>a DEF SubagentTypeOK
      <3>2. CASE q \in orphans
        BY <3>1, <3>2, <1>0, CallEndsFacts DEF WorkInv
      <3>3. CASE q \in Dropped(c)
        BY <3>1, <3>3, <1>0, <1>a, CallEndsFacts
      <3> QED
        BY <3>2, <3>3, <1>0
    <2> QED
      BY <1>0, <2>1 DEF WorkInv, rowVars, taskVars
  <1>4. LineInv'
    BY <1>0 DEF LineInv, taskVars
  <1>5. EarlyInv'
    BY <1>0 DEF EarlyInv, rowVars, taskVars
  <1>6. RowsMatchTasks'
    <2> SUFFICES ASSUME NEW q \in SubRun \ orphans'
                 PROVE  row[q] \in Active <=> \/ work[q] \in NotStarted \cup InRun \cup {"finishing"}
                                              \/ \E d \in Caller : fresh'[d] = q
      BY <1>0 DEF RowsMatchTasks, rowVars, taskVars
    <2>1. q \in SubRun \ orphans /\ q # NoRun /\ fresh[c] # q
      BY <1>0 DEF Dropped, SubagentTypeOK
    <2>2. \A d \in Caller : fresh'[d] = q <=> fresh[d] = q
      BY <1>0, <2>1, CallEndsFacts
    <2> QED
      BY <2>1, <2>2 DEF RowsMatchTasks
  <1> QED
    BY <1>1, <1>2, <1>3, <1>4, <1>5, <1>6

\* mark_subagent_queued comes before the task waits.
LEMMA EnterPreserves ==
  ASSUME SubagentInv, NEW r \in SubRun, EnterLine(r)
  PROVE  SubagentInv'
  <1> USE DEF SubagentInv, EnterLine,
              rowVars, taskVars, callVars
  <1>1. SubagentTypeOK'
    BY DEF SubagentTypeOK, CallInv, Spawning, WorkInv, Active, Final, NotStarted, InRun
  <1>2. CallInv'
    BY DEF SubagentTypeOK, CallInv, Spawning, WorkInv, LineInv, Active, Final, NotStarted, InRun
  <1>3. WorkInv'
    BY DEF SubagentTypeOK, CallInv, Spawning, WorkInv, LineInv, RowsMatchTasks, Active, Final, NotStarted, InRun
  <1>4. LineInv'
    <2>1. /\ Len(line') = Len(line) + 1 /\ line'[Len(line) + 1] = r /\ line' \in Seq(SubRun)
          /\ \A i \in 1 .. Len(line) : line'[i] = line[i]
      BY AppendProperties DEF SubagentTypeOK
    <2>2. \A i \in 1 .. Len(line) : work[line[i]] = "waiting" /\ line[i] # r /\ line[i] \in SubRun
      BY LineFacts
    <2>3. DOMAIN line' = 1 .. Len(line) + 1 /\ DOMAIN line = 1 .. Len(line) /\ Len(line) \in Nat
      BY <2>1, LenProperties DEF SubagentTypeOK
    <2>4. \A i \in DOMAIN line' : work'[line'[i]] = "waiting"
      BY <2>1, <2>2, <2>3 DEF SubagentTypeOK
    <2>5. \A i, j \in DOMAIN line' : line'[i] = line'[j] => i = j
      BY <2>1, <2>2, <2>3 DEF LineInv
    <2> QED
      BY <2>4, <2>5 DEF LineInv
  <1>5. EarlyInv'
    BY DEF SubagentTypeOK, CallInv, WorkInv, LineInv, EarlyInv, RowsMatchTasks, Active, Final, NotStarted, InRun
  <1>6. RowsMatchTasks'
    BY DEF SubagentTypeOK, CallInv, WorkInv, LineInv, RowsMatchTasks, Active, Final, NotStarted, InRun
  <1> QED
    BY <1>1, <1>2, <1>3, <1>4, <1>5, <1>6

\* mark_subagent_running writes the row of a task that is at work.
LEMMA StartRunningPreserves ==
  ASSUME SubagentInv, NEW r \in SubRun, StartRunning(r)
  PROVE  SubagentInv'
  <1> USE DEF SubagentInv, StartRunning,
              rowVars, taskVars, callVars
  <1>1. SubagentTypeOK'
    <2>1. line' \in Seq(SubRun)
      BY DEF SubagentTypeOK
    <2>2. row' \in [SubRun -> Active \cup Final \cup {"none"}]
      BY DEF SubagentTypeOK, Active
    <2>3. work' \in [SubRun -> Settled \cup NotStarted \cup InRun \cup {"finishing"}]
      BY DEF SubagentTypeOK, InRun
    <2> QED
      BY <2>1, <2>2, <2>3 DEF SubagentTypeOK
  <1>2. CallInv'
    <2>1. work[r] = "waiting"
      BY LineFacts
    <2>2. \A q \in SubRun : work[q] = "none" => work'[q] = "none" /\ row'[q] = row[q]
      BY <2>1 DEF SubagentTypeOK
    <2>3. \A q \in SubRun : row[q] # "none" => row'[q] # "none"
      BY DEF SubagentTypeOK
    <2> QED
      BY <2>2, <2>3, CallsStand
  <1>3. WorkInv'
    BY DEF SubagentTypeOK, CallInv, Spawning, WorkInv, LineInv, RowsMatchTasks, Active, Final, NotStarted, InRun
  <1>4. LineInv'
    <2>1. /\ Len(line') = Len(line) - 1 /\ line' \in Seq(SubRun) /\ line[1] = r
          /\ \A i \in 1 .. Len(line') : line'[i] = line[i + 1]
      BY HeadTailProperties DEF SubagentTypeOK
    <2>2. /\ DOMAIN line' = 1 .. Len(line') /\ DOMAIN line = 1 .. Len(line)
          /\ Len(line) \in Nat /\ Len(line') \in Nat
      BY <2>1, LenProperties DEF SubagentTypeOK
    <2>3. \A i \in 1 .. Len(line') : /\ i + 1 \in DOMAIN line /\ 1 \in DOMAIN line /\ i + 1 # 1
                                     /\ line[i + 1] # r /\ line[i + 1] \in SubRun
      <3> SUFFICES ASSUME NEW i \in 1 .. Len(line')
                   PROVE  /\ i + 1 \in DOMAIN line /\ 1 \in DOMAIN line /\ i + 1 # 1
                          /\ line[i + 1] # r /\ line[i + 1] \in SubRun
        OBVIOUS
      <3>1. i + 1 \in DOMAIN line /\ 1 \in DOMAIN line /\ i + 1 # 1
        BY <2>1, <2>2
      <3> QED
        BY <3>1, <2>1, <2>2, LineFacts DEF LineInv
    <2>4. \A i \in DOMAIN line' : work'[line'[i]] = "waiting"
      <3> SUFFICES ASSUME NEW i \in DOMAIN line' PROVE work'[line'[i]] = "waiting"
        OBVIOUS
      <3>1. line'[i] = line[i + 1] /\ line[i + 1] # r /\ line[i + 1] \in SubRun /\ work[line[i + 1]] = "waiting"
        BY <2>1, <2>2, <2>3, LineFacts
      <3> QED
        BY <3>1 DEF SubagentTypeOK
    <2>5. \A i, j \in DOMAIN line' : line'[i] = line'[j] => i = j
      <3> SUFFICES ASSUME NEW i \in DOMAIN line', NEW j \in DOMAIN line', line'[i] = line'[j]
                   PROVE  i = j
        OBVIOUS
      <3>1. line[i + 1] = line[j + 1] /\ i + 1 \in DOMAIN line /\ j + 1 \in DOMAIN line
        BY <2>1, <2>2, <2>3
      <3>2. i + 1 = j + 1
        BY <3>1 DEF LineInv
      <3> QED
        BY <3>2, <2>2
    <2> QED
      BY <2>4, <2>5 DEF LineInv
  <1>5. EarlyInv'
    BY DEF SubagentTypeOK, CallInv, WorkInv, LineInv, EarlyInv, RowsMatchTasks, Active, Final, NotStarted, InRun
  <1>6. RowsMatchTasks'
    BY DEF SubagentTypeOK, CallInv, WorkInv, LineInv, RowsMatchTasks, Active, Final, NotStarted, InRun
  <1> QED
    BY <1>1, <1>2, <1>3, <1>4, <1>5, <1>6

\* The loop of a run touches no row; a run killed early ends at its first look.
LEMMA WorkPreserves ==
  ASSUME SubagentInv, NEW r \in SubRun, CheckCancel(r) \/ Respond(r) \/ FinishTools(r)
  PROVE  SubagentInv'
  <1> USE DEF SubagentInv, CheckCancel, Respond, FinishTools, EndsWith, Cancelled, rowVars, callVars
  <1>0. /\ work[r] \in InRun /\ UNCHANGED <<rowVars, flags, raised, line, callVars, killing, restarts,
                                            orphans, early>>
        /\ work'[r] \in InRun \cup {"finishing"}
        /\ work'[r] = "finishing" => outcome'[r] \in Final
        /\ \A q \in SubRun : q # r => work'[q] = work[q] /\ outcome'[q] = outcome[q] /\ turns'[q] = turns[q]
    BY DEF SubagentTypeOK, InRun, Final
  <1>1. SubagentTypeOK'
    <2>1. /\ work' \in [SubRun -> Settled \cup NotStarted \cup InRun \cup {"finishing"}]
          /\ outcome' \in [SubRun -> Final \cup {"none"}]
      <3>1. CASE CheckCancel(r)
        BY <3>1 DEF SubagentTypeOK, InRun, Final
      <3>2. CASE Respond(r)
        <4>1. ASSUME NEW how \in Final, EndsWith(r, how)
              PROVE  /\ work' \in [SubRun -> Settled \cup NotStarted \cup InRun \cup {"finishing"}]
                     /\ outcome' \in [SubRun -> Final \cup {"none"}]
          BY <4>1 DEF SubagentTypeOK
        <4>2. {"completed", "budget_exceeded", "failed"} \subseteq Final
          BY DEF Final
        <4>3. CASE work' = [work EXCEPT ![r] = "tools"] /\ UNCHANGED outcome
          BY <4>3 DEF SubagentTypeOK, InRun
        <4> QED
          BY <3>2, <4>1, <4>2, <4>3
      <3>3. CASE FinishTools(r)
        BY <3>3 DEF SubagentTypeOK, InRun, Final
      <3> QED
        BY <3>1, <3>2, <3>3
    <2>2. turns' \in [SubRun -> 0 .. MaxIterations]
      <3>1. turns[r] \in 0 .. MaxIterations - 1
        BY <1>0 DEF SubagentTypeOK, WorkInv, InRun
      <3>2. turns' = turns \/ turns' = [turns EXCEPT ![r] = @ + 1]
        OBVIOUS
      <3>3. turns \in [SubRun -> 0 .. MaxIterations] /\ MaxIterations \in Nat
        BY DEF SubagentTypeOK
      <3> HIDE DEF SubagentInv, CheckCancel, Respond, FinishTools, EndsWith, Cancelled
      <3> QED
        BY <3>1, <3>2, <3>3
    <2> QED
      BY <1>0, <2>1, <2>2 DEF SubagentTypeOK
  <1>2. CallInv'
    <2>1. \A q \in SubRun : work[q] = "none" => work'[q] = "none" /\ row'[q] = row[q]
      BY <1>0 DEF InRun
    <2> QED
      BY <1>0, <2>1, CallsStand
  <1>3. WorkInv'
    <2>1. work'[r] # "finishing" => turns'[r] < MaxIterations
      <3>1. turns[r] \in 0 .. MaxIterations - 1 /\ turns \in [SubRun -> 0 .. MaxIterations]
        BY <1>0 DEF SubagentTypeOK, WorkInv, InRun
      <3>2. CASE FinishTools(r)
        <4>1. turns'[r] = turns[r] + 1 /\ (turns'[r] = MaxIterations => work'[r] = "finishing")
          BY <3>1, <3>2 DEF SubagentTypeOK
        <4> HIDE DEF SubagentInv, CheckCancel, Respond, FinishTools, EndsWith, Cancelled
        <4> QED
          BY <3>1, <4>1
      <3>3. CASE CheckCancel(r) \/ Respond(r)
        BY <3>1, <3>3
      <3> QED
        BY <3>2, <3>3
    <2>2. r \notin orphans /\ row[r] # "none"
      BY <1>0 DEF WorkInv, InRun
    <2>3. \A q \in SubRun : row'[q] = "none" => work'[q] = "none"
      BY <1>0, <2>2 DEF WorkInv
    <2>4. \A q \in SubRun : work'[q] = "finishing" => outcome'[q] \in Final
      BY <1>0 DEF WorkInv
    <2>5. \A q \in SubRun : work'[q] # "finishing" => turns'[q] < MaxIterations
      BY <1>0, <2>1 DEF WorkInv
    <2>6. \A q \in orphans' : /\ row'[q] # "none" /\ work'[q] \in {"none", "gone"}
                              /\ \A c \in Caller : fresh'[c] # q
      BY <1>0, <2>2 DEF WorkInv, SubagentTypeOK
    <2> QED
      BY <2>3, <2>4, <2>5, <2>6 DEF WorkInv
  <1>4. LineInv'
    <2>1. \A i \in DOMAIN line : line[i] # r /\ line[i] \in SubRun
      BY <1>0, LineFacts DEF InRun
    <2> QED
      BY <1>0, <2>1 DEF LineInv
  <1>5. EarlyInv'
    BY <1>0 DEF SubagentTypeOK, EarlyInv, InRun
  <1>6. RowsMatchTasks'
    BY <1>0 DEF SubagentTypeOK, RowsMatchTasks
  <1> QED
    BY <1>1, <1>2, <1>3, <1>4, <1>5, <1>6

\* The timeout of a run ends it wherever it is, and its own spawn with it.
LEMMA TimeOutPreserves ==
  ASSUME SubagentInv, NEW r \in SubRun, TimeOutRun(r)
  PROVE  SubagentInv'
  <1> USE DEF SubagentInv
  <1>0. /\ work[r] \in InRun /\ UNCHANGED <<rowVars, flags, raised, turns, line, killing, restarts, early>>
        /\ work' = [work EXCEPT ![r] = "finishing"] /\ outcome' = [outcome EXCEPT ![r] = "timed_out"]
        /\ orphans' = orphans \cup Dropped(r)
        /\ r \in Caller
    BY DEF TimeOutRun, EndsWith, Caller
  <1>a. /\ \A q \in Dropped(r) : /\ q \in SubRun /\ row[q] = "accepted" /\ work[q] = "none" /\ q # r
                                 /\ fresh[r] = q /\ \A d \in Caller : d # r => fresh[d] # q
        /\ r \notin orphans /\ row[r] # "none"
    BY <1>0 DEF Dropped, SubagentTypeOK, CallInv, WorkInv, InRun
  <1>b. /\ call' \in [Caller -> {"idle", "chat", "children", "insert", "register", "poll"}]
        /\ under' \in [Caller -> SubRun \cup {NoRun}]
        /\ packages' \in [Caller -> 0 .. MaxWorkers]
        /\ waits' \in [Caller -> BOOLEAN]
        /\ crew' \in [Caller -> SUBSET SubRun]
        /\ fresh' \in [Caller -> SubRun \cup {NoRun}]
        /\ fresh'[r] = NoRun
        /\ \A d \in Caller : d # r => fresh'[d] = fresh[d]
    <2>1. CASE call[r] = "idle"
      BY <2>1, <1>0 DEF TimeOutRun, callVars, SubagentTypeOK, CallInv
    <2>2. CASE call[r] # "idle"
      BY <2>2, <1>0, CallEndsFacts DEF TimeOutRun
    <2> QED
      BY <2>1, <2>2
  <1>1. SubagentTypeOK'
    <2>1. /\ work' \in [SubRun -> Settled \cup NotStarted \cup InRun \cup {"finishing"}]
          /\ outcome' \in [SubRun -> Final \cup {"none"}] /\ orphans' \subseteq SubRun
      BY <1>0, <1>a DEF SubagentTypeOK, Final
    <2> QED
      BY <1>0, <1>b, <2>1 DEF SubagentTypeOK, rowVars
  <1>2. CallInv'
    <2>1. \A q \in SubRun : work[q] = "none" => work'[q] = "none"
      BY <1>0 DEF SubagentTypeOK, InRun
    <2>2. CASE call[r] = "idle"
      BY <2>1, <2>2, <1>0, CallsStand DEF TimeOutRun, rowVars
    <2>3. CASE call[r] # "idle"
      BY <2>1, <2>3, <1>0, CallEndsKeeps DEF TimeOutRun, rowVars
    <2> QED
      BY <2>2, <2>3
  <1>3. WorkInv'
    <2>1. ASSUME NEW q \in orphans'
          PROVE  row[q] # "none" /\ work'[q] \in {"none", "gone"} /\ \A d \in Caller : fresh'[d] # q
      <3>1. q \in SubRun /\ q # NoRun /\ q # r
        BY <1>0, <1>a DEF SubagentTypeOK
      <3>2. work'[q] = work[q]
        BY <3>1, <1>0 DEF SubagentTypeOK
      <3>3. CASE q \in orphans
        BY <3>1, <3>2, <3>3, <1>b DEF WorkInv
      <3>4. CASE q \in Dropped(r)
        BY <3>1, <3>2, <3>4, <1>a, <1>b
      <3> QED
        BY <3>3, <3>4, <1>0
    <2>2. /\ \A q \in SubRun : row[q] = "none" => work'[q] = "none"
          /\ \A q \in SubRun : work'[q] = "finishing" => outcome'[q] \in Final
          /\ \A q \in SubRun : work'[q] # "finishing" => turns[q] < MaxIterations
      BY <1>0, <1>a DEF SubagentTypeOK, WorkInv, Final
    <2> QED
      BY <1>0, <2>1, <2>2 DEF WorkInv, rowVars
  <1>4. LineInv'
    <2>1. \A i \in DOMAIN line : line[i] # r /\ line[i] \in SubRun
      BY <1>0, LineFacts DEF InRun
    <2> QED
      BY <1>0, <2>1 DEF LineInv, SubagentTypeOK
  <1>5. EarlyInv'
    BY <1>0 DEF SubagentTypeOK, EarlyInv, rowVars
  <1>6. RowsMatchTasks'
    <2> SUFFICES ASSUME NEW q \in SubRun \ orphans'
                 PROVE  row[q] \in Active <=> \/ work'[q] \in NotStarted \cup InRun \cup {"finishing"}
                                              \/ \E d \in Caller : fresh'[d] = q
      BY <1>0 DEF RowsMatchTasks, rowVars
    <2>1. q \in SubRun \ orphans /\ q # NoRun /\ fresh[r] # q
      BY <1>0 DEF Dropped, SubagentTypeOK
    <2>2. \A d \in Caller : fresh'[d] = q <=> fresh[d] = q
      BY <1>b, <2>1
    <2>3. work'[q] \in NotStarted \cup InRun \cup {"finishing"} <=> work[q] \in NotStarted \cup InRun \cup {"finishing"}
      BY <1>0 DEF SubagentTypeOK
    <2> QED
      BY <2>1, <2>2, <2>3 DEF RowsMatchTasks
  <1> QED
    BY <1>1, <1>2, <1>3, <1>4, <1>5, <1>6

\* mark_subagent_finished is the last that the task does to its row.
LEMMA FinishRunPreserves ==
  ASSUME SubagentInv, NEW r \in SubRun, FinishRun(r)
  PROVE  SubagentInv'
  <1> USE DEF SubagentInv, FinishRun
  <1>0. /\ work[r] = "finishing" /\ outcome[r] \in Final /\ r \notin orphans /\ row[r] # "none"
        /\ row'[r] = outcome[r] /\ work'[r] = "announcing" /\ turns'[r] = 0 /\ outcome'[r] = "none"
        /\ \A q \in SubRun : q # r => /\ row'[q] = row[q] /\ work'[q] = work[q]
                                      /\ outcome'[q] = outcome[q] /\ turns'[q] = turns[q]
        /\ UNCHANGED <<wanted, parent, depth, line, callVars, killing, restarts, orphans, early>>
        /\ \A c \in Caller : fresh[c] # r
    <2>1. work[r] = "finishing" /\ outcome[r] \in Final /\ r \notin orphans /\ row[r] # "none"
      BY DEF WorkInv
    <2>2. \A c \in Caller : fresh[c] # r
      BY <2>1 DEF CallInv
    <2>3. /\ row'[r] = outcome[r] /\ work'[r] = "announcing" /\ turns'[r] = 0 /\ outcome'[r] = "none"
          /\ \A q \in SubRun : q # r => /\ row'[q] = row[q] /\ work'[q] = work[q]
                                        /\ outcome'[q] = outcome[q] /\ turns'[q] = turns[q]
      BY DEF SubagentTypeOK
    <2> QED
      BY <2>1, <2>2, <2>3
  <1>1. SubagentTypeOK'
    BY <1>0 DEF SubagentTypeOK, callVars, Settled
  <1>2. CallInv'
    <2>1. \A q \in SubRun : work[q] = "none" => work'[q] = "none" /\ row'[q] = row[q]
      BY <1>0
    <2>2. \A q \in SubRun : row[q] # "none" => row'[q] # "none"
      BY <1>0 DEF Final
    <2> QED
      BY <1>0, <2>1, <2>2, CallsStand
  <1>3. WorkInv'
    <2>1. \A q \in SubRun : row'[q] = "none" => work'[q] = "none"
      BY <1>0 DEF WorkInv, Final
    <2>2. \A q \in SubRun : /\ work'[q] = "finishing" => outcome'[q] \in Final
                            /\ work'[q] # "finishing" => turns'[q] < MaxIterations
      BY <1>0 DEF WorkInv
    <2>3. \A q \in orphans' : /\ row'[q] # "none" /\ work'[q] \in {"none", "gone"}
                              /\ \A c \in Caller : fresh'[c] # q
      BY <1>0 DEF WorkInv, SubagentTypeOK, callVars
    <2> QED
      BY <2>1, <2>2, <2>3 DEF WorkInv
  <1>4. LineInv'
    <2>1. \A i \in DOMAIN line : line[i] # r /\ line[i] \in SubRun
      BY <1>0, LineFacts
    <2> QED
      BY <1>0, <2>1 DEF LineInv
  <1>5. EarlyInv'
    BY <1>0 DEF SubagentTypeOK, EarlyInv, Final
  <1>6. RowsMatchTasks'
    <2> SUFFICES ASSUME NEW q \in SubRun \ orphans
                 PROVE  row'[q] \in Active <=> \/ work'[q] \in NotStarted \cup InRun \cup {"finishing"}
                                               \/ \E c \in Caller : fresh[c] = q
      BY <1>0 DEF RowsMatchTasks, callVars
    <2>1. CASE q = r
      BY <2>1, <1>0 DEF Active, Final, NotStarted, InRun
    <2>2. CASE q # r
      BY <2>2, <1>0 DEF RowsMatchTasks
    <2> QED
      BY <2>1, <2>2
  <1> QED
    BY <1>1, <1>2, <1>3, <1>4, <1>5, <1>6

\* After that the task only gives its permit back.
LEMMA ReleasePreserves ==
  ASSUME SubagentInv, NEW r \in SubRun, ReleasePermit(r)
  PROVE  SubagentInv'
  <1> USE DEF SubagentInv
  <1>0. /\ UNCHANGED <<rowVars, flags, raised, outcome, turns, line, callVars, killing, restarts,
                       orphans, early>>
        /\ work[r] = "announcing" /\ work'[r] = "gone"
        /\ \A q \in SubRun : q # r => work'[q] = work[q]
        /\ work' \in [SubRun -> Settled \cup NotStarted \cup InRun \cup {"finishing"}]
    BY DEF ReleasePermit, SubagentTypeOK, Settled
  <1>1. SubagentTypeOK'
    BY <1>0 DEF SubagentTypeOK, rowVars, callVars
  <1>2. CallInv'
    <2>1. \A q \in SubRun : work[q] = "none" => work'[q] = "none" /\ row'[q] = row[q]
      BY <1>0 DEF rowVars
    <2> QED
      BY <1>0, <2>1, CallsStand DEF rowVars
  <1>3. WorkInv'
    BY <1>0 DEF WorkInv, SubagentTypeOK, rowVars, callVars
  <1>4. LineInv'
    <2>1. \A i \in DOMAIN line : line[i] # r /\ line[i] \in SubRun
      BY <1>0, LineFacts
    <2> QED
      BY <1>0, <2>1 DEF LineInv
  <1>5. EarlyInv'
    BY <1>0 DEF SubagentTypeOK, EarlyInv, rowVars
  <1>6. RowsMatchTasks'
    BY <1>0 DEF SubagentTypeOK, RowsMatchTasks, NotStarted, InRun, rowVars, callVars
  <1> QED
    BY <1>1, <1>2, <1>3, <1>4, <1>5, <1>6

\* A kill leaves the row to its task.
LEMMA KillPreserves ==
  ASSUME SubagentInv, NEW r \in SubRun, RequestCancel(r) \/ CancelRun(r)
  PROVE  SubagentInv'
  <1> USE DEF SubagentInv, RequestCancel, CancelRun,
              rowVars, taskVars, callVars
  <1>1. SubagentTypeOK'
    BY DEF SubagentTypeOK, CallInv, Spawning, WorkInv, Active, Final, NotStarted, InRun
  <1>2. CallInv'
    BY DEF SubagentTypeOK, CallInv, Spawning, WorkInv, LineInv, Active, Final, NotStarted, InRun, Settled
  <1>3. WorkInv'
    BY DEF SubagentTypeOK, CallInv, Spawning, WorkInv, LineInv, RowsMatchTasks, Active, Final, NotStarted, InRun
  <1>4. LineInv'
    BY DEF SubagentTypeOK, CallInv, WorkInv, LineInv, Active, Final, NotStarted, InRun
  <1>5. EarlyInv'
    BY DEF SubagentTypeOK, CallInv, WorkInv, LineInv, EarlyInv, RowsMatchTasks, Active, Final, NotStarted, InRun
  <1>6. RowsMatchTasks'
    BY DEF SubagentTypeOK, CallInv, WorkInv, LineInv, RowsMatchTasks, Active, Final, NotStarted, InRun
  <1> QED
    BY <1>1, <1>2, <1>3, <1>4, <1>5, <1>6

\* A restart makes orphans of all active rows.
LEMMA RestartPreserves ==
  ASSUME SubagentInv, Restart
  PROVE  SubagentInv'
  <1> USE DEF SubagentInv, Restart, ActiveRuns,
              rowVars, taskVars, callVars
  <1>1. SubagentTypeOK'
    BY DEF SubagentTypeOK, CallInv, Spawning, WorkInv, Active, Final, NotStarted, InRun, Settled
  <1>2. CallInv'
    BY DEF SubagentTypeOK, CallInv, Spawning, WorkInv, LineInv, Active, Final, NotStarted, InRun
  <1>3. WorkInv'
    BY DEF SubagentTypeOK, CallInv, Spawning, WorkInv, LineInv, RowsMatchTasks, Active, Final, NotStarted, InRun
  <1>4. LineInv'
    BY DEF SubagentTypeOK, CallInv, WorkInv, LineInv, Active, Final, NotStarted, InRun
  <1>5. EarlyInv'
    BY DEF SubagentTypeOK, CallInv, WorkInv, LineInv, EarlyInv, RowsMatchTasks, Active, Final, NotStarted, InRun
  <1>6. RowsMatchTasks'
    BY DEF SubagentTypeOK, CallInv, WorkInv, LineInv, RowsMatchTasks, Active, Final, NotStarted, InRun
  <1> QED
    BY <1>1, <1>2, <1>3, <1>4, <1>5, <1>6

\* Every step of the agents, the tasks, the kills and the process keeps it.
LEMMA SubagentStep == SubagentInv /\ [SubagentNext]_subagentVars => SubagentInv'
  <1> SUFFICES ASSUME SubagentInv, [SubagentNext]_subagentVars PROVE SubagentInv'
    OBVIOUS
  <1>1. CASE UNCHANGED subagentVars
    BY <1>1 DEF subagentVars, rowVars, taskVars, callVars, SubagentInv, SubagentTypeOK, CallInv,
                WorkInv, LineInv, EarlyInv, RowsMatchTasks
  <1>2. CASE \E c \in Caller : SpawnStep(c)
    BY <1>2, BeginPreserves, CountPreserves, InsertPreserves, StartPreserves, StopPreserves
       DEF SpawnStep
  <1>3. CASE \E r \in SubRun : TaskStep(r)
    BY <1>3, EnterPreserves, StartRunningPreserves, WorkPreserves, TimeOutPreserves,
       FinishRunPreserves, ReleasePreserves DEF TaskStep
  <1>4. CASE \E r \in SubRun : RequestCancel(r) \/ CancelRun(r)
    BY <1>4, KillPreserves
  <1>5. CASE Restart
    BY <1>5, RestartPreserves
  <1> QED
    BY <1>1, <1>2, <1>3, <1>4, <1>5 DEF SubagentNext

\* One party at a time writes a row, for any number of runs and callers.
THEOREM SubagentInvariant == SubagentSpec => []SubagentInv
  <1>1. SubagentInit => SubagentInv
    BY SubagentInitially
  <1>2. SubagentInv /\ [SubagentNext]_subagentVars => SubagentInv'
    BY SubagentStep
  <1> QED
    BY <1>1, <1>2, PTL DEF SubagentSpec

\* A row that counts against the limits has a task or a caller that will finish
\* it, unless a restart or a dropped spawn has orphaned it.
THEOREM RowsMatch == SubagentSpec => []RowsMatchTasks
  <1>1. SubagentInv => RowsMatchTasks
    BY DEF SubagentInv
  <1> QED
    BY <1>1, SubagentInvariant, PTL

\* A kill that comes before the run is at work is not lost, although
\* mark_subagent_running writes over the row.
THEOREM EarlyKills == SubagentSpec => []EarlyKillWins
  <1>1. SubagentInv => EarlyKillWins
    BY DEF SubagentInv, EarlyInv, EarlyKillWins
  <1> QED
    BY <1>1, SubagentInvariant, PTL

\* A final status is never written over, although no statement asks for it.
THEOREM FinalStays == SubagentSpec => FinalIsFinal
  <1> DEFINE Kept == \A r \in SubRun : row[r] \in Final => row'[r] = row[r]
  <1>1. SubagentInv /\ [SubagentNext]_subagentVars => Kept
    <2> SUFFICES ASSUME SubagentInv, [SubagentNext]_subagentVars PROVE Kept
      OBVIOUS
    <2>0. SubagentTypeOK /\ LineInv /\ WorkInv /\ RowsMatchTasks
      BY DEF SubagentInv
    <2> USE DEF Active, Final
    <2>1. CASE row' = row
      BY <2>1
    <2>2. ASSUME NEW c \in Caller, InsertRow(c) PROVE Kept
      BY <2>0, <2>2 DEF InsertRow, SubagentTypeOK
    <2>3. ASSUME NEW r \in SubRun, EnterLine(r) PROVE Kept
      BY <2>0, <2>3 DEF EnterLine, SubagentTypeOK
    <2>4. ASSUME NEW r \in SubRun, StartRunning(r) PROVE Kept
      <3>1. work[r] = "waiting" /\ r \notin orphans
        BY <2>0, <2>4, LineFacts DEF StartRunning, WorkInv
      <3>2. row[r] \in Active
        BY <2>0, <3>1 DEF RowsMatchTasks, NotStarted, SubagentTypeOK
      <3> QED
        BY <2>0, <2>4, <3>2 DEF StartRunning, SubagentTypeOK
    <2>5. ASSUME NEW r \in SubRun, FinishRun(r) PROVE Kept
      <3>1. row[r] \in Active
        BY <2>0, <2>5 DEF FinishRun, WorkInv, RowsMatchTasks
      <3> QED
        BY <2>0, <2>5, <3>1 DEF FinishRun, SubagentTypeOK
    <2>6. CASE UNCHANGED subagentVars
      BY <2>6, <2>1 DEF subagentVars, rowVars
    <2>7. ASSUME NEW c \in Caller, SpawnStep(c) PROVE Kept
      <3>1. CASE InsertRow(c)
        BY <2>2, <3>1
      <3>2. CASE ~InsertRow(c)
        BY <2>1, <2>7, <3>2 DEF SpawnStep, BeginSpawn, CountChat, CountChildren, StartTask, Poll,
                                StopWaiting, Abandon, rowVars
      <3> QED
        BY <3>1, <3>2
    <2>8. ASSUME NEW r \in SubRun, TaskStep(r) PROVE Kept
      <3>1. CASE EnterLine(r) \/ StartRunning(r) \/ FinishRun(r)
        BY <2>3, <2>4, <2>5, <3>1
      <3>2. CASE CheckCancel(r) \/ Respond(r) \/ FinishTools(r) \/ TimeOutRun(r) \/ ReleasePermit(r)
        BY <2>1, <3>2 DEF CheckCancel, Respond, FinishTools, TimeOutRun, ReleasePermit, rowVars
      <3> QED
        BY <2>8, <3>1, <3>2 DEF TaskStep
    <2>9. CASE Restart \/ \E r \in SubRun : RequestCancel(r) \/ CancelRun(r)
      BY <2>1, <2>9 DEF Restart, RequestCancel, CancelRun, rowVars
    <2> QED
      BY <2>6, <2>7, <2>8, <2>9 DEF SubagentNext
  <1>2. SubagentSpec => [][Kept]_subagentVars
    BY <1>1, SubagentInvariant, PTL DEF SubagentSpec
  <1> QED
    BY <1>2 DEF FinalIsFinal

\* Rows and tasks agree, and early kills win, in every state.
THEOREM KillsAndRows == SubagentSpec => []KillsAndRowsAgree
  <1>1. RowsMatchTasks /\ EarlyKillWins => KillsAndRowsAgree
    BY DEF KillsAndRowsAgree
  <1> QED
    BY <1>1, RowsMatch, EarlyKills, PTL

-----------------------------------------------------------------------------
(* The scheduled tasks.                                                     *)

HIDE SubagentAssumption
USE SchedulerAssumption

AtTask == sched \in {"looking", "agent", "logging", "updating"}
Called == sched \in {"agent", "logging", "updating"}

\* run_due_tasks is at one task, which is no longer in the rest of its batch.
BatchInv ==
    /\ AtTask <=> current \in Task
    /\ current \notin claimed
    /\ sched \in {"starting", "polling"} => claimed = {}

\* An entry that was inserted names a task, and a replay works on such entries.
EntryInv ==
    /\ \A e \in Entry : dlq[e] = "none" <=> failed[e] = NoTask
    /\ \A e \in todo \cup at : dlq[e] # "none"

\* Whatever the tools write, a task that is due has an occurrence nobody has
\* run, or the scheduler is at it.
OwedInv ==
    /\ \A t \in Task : status[t] \in {"new", "deleted"} => ~due[t]
    /\ \A t \in Task : status[t] \in {"active", "paused", "cancelled", "running"} /\ due[t] =>
          t \in owed \/ (Called /\ t = current)
    /\ claimed \subseteq owed
    /\ sched = "looking" => current \in owed

\* Only the end of its run completes a task, and by then the run is on record.
CompletedInv ==
    /\ \A t \in claimed \cup {current} : t \in Task => status[t] # "completed"
    /\ sched \in {"logging", "updating"} /\ success /\ current \notin Cron
          => current \in succeeded
    /\ sched = "updating" /\ ~success => \E e \in Entry : failed[e] = current

SchedInv ==
    /\ SchedTypeOK /\ BatchInv /\ EntryInv /\ OwedInv /\ CompletedInv
    /\ RunningIsHeld /\ CompletedIsAccountedFor

\* No task, no entry, and a process that starts.
LEMMA SchedInitially == SchedInit => SchedInv
  BY DEF SchedInit, SchedInv, SchedTypeOK, Status, BatchInv, AtTask, EntryInv, OwedInv, Called,
         CompletedInv, RunningIsHeld, CompletedIsAccountedFor, Held

\* recover_running_tasks gives every running task back, and changes no other.
LEMMA RecoverPreserves ==
  ASSUME SchedInv, Recover
  PROVE  SchedInv'
  <1> USE DEF SchedInv, Recover,
              taskRowVars, schedVars, replayVars, historyVars
  <1>1. SchedTypeOK'
    BY DEF SchedTypeOK, Status
  <1>2. BatchInv'
    BY DEF SchedTypeOK, Status, BatchInv, AtTask
  <1>3. EntryInv'
    BY DEF SchedTypeOK, BatchInv, AtTask, EntryInv
  <1>4. OwedInv'
    BY DEF SchedTypeOK, Status, BatchInv, AtTask, OwedInv, Called, CompletedInv
  <1>5. CompletedInv'
    BY DEF SchedTypeOK, Status, BatchInv, AtTask, EntryInv, CompletedInv
  <1>6. RunningIsHeld'
    BY DEF SchedTypeOK, Status, BatchInv, AtTask, RunningIsHeld, Held
  <1>7. CompletedIsAccountedFor'
    BY DEF SchedTypeOK, Status, BatchInv, AtTask, EntryInv, CompletedInv, CompletedIsAccountedFor
  <1> QED
    BY <1>1, <1>2, <1>3, <1>4, <1>5, <1>6, <1>7

\* claim_due_tasks takes active tasks that are due, in one transaction: none is
\* completed, each is owed.
LEMMA ClaimPreserves ==
  ASSUME SchedInv, Claim
  PROVE  SchedInv'
  <1> USE DEF SchedInv, Claim, Due,
              taskRowVars, schedVars, replayVars, historyVars
  <1>1. SchedTypeOK'
    BY DEF SchedTypeOK, Status
  <1>2. BatchInv'
    BY DEF SchedTypeOK, Status, BatchInv, AtTask
  <1>3. EntryInv'
    BY DEF SchedTypeOK, BatchInv, AtTask, EntryInv
  <1>4. OwedInv'
    BY DEF SchedTypeOK, Status, BatchInv, AtTask, OwedInv, Called, CompletedInv
  <1>5. CompletedInv'
    BY DEF SchedTypeOK, Status, BatchInv, AtTask, EntryInv, CompletedInv
  <1>6. RunningIsHeld'
    BY DEF SchedTypeOK, Status, BatchInv, AtTask, RunningIsHeld, Held
  <1>7. CompletedIsAccountedFor'
    BY DEF SchedTypeOK, Status, BatchInv, AtTask, EntryInv, CompletedInv, CompletedIsAccountedFor
  <1> QED
    BY <1>1, <1>2, <1>3, <1>4, <1>5, <1>6, <1>7

\* The batch is worked off: a task moves from the rest of the batch to the hands
\* of the scheduler, and nothing else does.
LEMMA BatchPreserves ==
  ASSUME SchedInv, EndBatch \/ RunAgent \/ SkipRun \/ \E t \in Task : TakeNext(t)
  PROVE  SchedInv'
  <1> USE DEF SchedInv, EndBatch, RunAgent, SkipRun, TakeNext,
              taskRowVars, schedVars, replayVars, historyVars
  <1>1. SchedTypeOK'
    BY DEF SchedTypeOK, Status, BatchInv, AtTask
  <1>2. BatchInv'
    BY DEF SchedTypeOK, Status, BatchInv, AtTask
  <1>3. EntryInv'
    BY DEF SchedTypeOK, BatchInv, AtTask, EntryInv
  <1>4. OwedInv'
    BY DEF SchedTypeOK, Status, BatchInv, AtTask, OwedInv, Called, CompletedInv
  <1>5. CompletedInv'
    BY DEF SchedTypeOK, Status, BatchInv, AtTask, EntryInv, CompletedInv
  <1>6. RunningIsHeld'
    BY DEF SchedTypeOK, Status, BatchInv, AtTask, RunningIsHeld, Held
  <1>7. CompletedIsAccountedFor'
    BY DEF SchedTypeOK, Status, BatchInv, AtTask, EntryInv, CompletedInv, CompletedIsAccountedFor
  <1> QED
    BY <1>1, <1>2, <1>3, <1>4, <1>5, <1>6, <1>7

\* The end of a run is on record before its row is updated.
LEMMA FinishPreserves ==
  ASSUME SchedInv, NEW ok \in BOOLEAN, FinishTaskRun(ok)
  PROVE  SchedInv'
  <1> USE DEF SchedInv, FinishTaskRun,
              taskRowVars, schedVars, replayVars, historyVars
  <1>1. SchedTypeOK'
    BY DEF SchedTypeOK, Status, BatchInv, AtTask
  <1>2. BatchInv'
    BY DEF SchedTypeOK, Status, BatchInv, AtTask
  <1>3. EntryInv'
    BY DEF SchedTypeOK, BatchInv, AtTask, EntryInv
  <1>4. OwedInv'
    BY DEF SchedTypeOK, Status, BatchInv, AtTask, OwedInv, Called, CompletedInv
  <1>5. CompletedInv'
    BY DEF SchedTypeOK, Status, BatchInv, AtTask, EntryInv, CompletedInv
  <1>6. RunningIsHeld'
    BY DEF SchedTypeOK, Status, BatchInv, AtTask, RunningIsHeld, Held
  <1>7. CompletedIsAccountedFor'
    BY DEF SchedTypeOK, Status, BatchInv, AtTask, EntryInv, CompletedInv, CompletedIsAccountedFor
  <1> QED
    BY <1>1, <1>2, <1>3, <1>4, <1>5, <1>6, <1>7

\* The entry of a failed run is a new one, so no older failure is forgotten.
LEMMA RecordPreserves ==
  ASSUME SchedInv, RecordRun
  PROVE  SchedInv'
  <1> USE DEF SchedInv, RecordRun, FreeEntries,
              taskRowVars, schedVars, replayVars, historyVars
  <1>1. SchedTypeOK'
    BY DEF SchedTypeOK, Status
  <1>2. BatchInv'
    BY DEF SchedTypeOK, Status, BatchInv, AtTask
  <1>3. EntryInv'
    BY DEF SchedTypeOK, BatchInv, AtTask, EntryInv
  <1>4. OwedInv'
    BY DEF SchedTypeOK, Status, BatchInv, AtTask, OwedInv, Called, CompletedInv
  <1>5. CompletedInv'
    BY DEF SchedTypeOK, Status, BatchInv, AtTask, EntryInv, CompletedInv
  <1>6. RunningIsHeld'
    BY DEF SchedTypeOK, Status, BatchInv, AtTask, RunningIsHeld, Held
  <1>7. CompletedIsAccountedFor'
    BY DEF SchedTypeOK, Status, BatchInv, AtTask, EntryInv, CompletedInv, CompletedIsAccountedFor
  <1> QED
    BY <1>1, <1>2, <1>3, <1>4, <1>5, <1>6, <1>7

\* update_task_after_run completes the task it is at, or makes it wait for its
\* next time.
LEMMA UpdatePreserves ==
  ASSUME SchedInv, UpdateTask
  PROVE  SchedInv'
  <1> USE DEF SchedInv, UpdateTask, AfterRun, Exists,
              taskRowVars, schedVars, replayVars, historyVars
  <1>1. SchedTypeOK'
    BY DEF SchedTypeOK, Status
  <1>2. BatchInv'
    BY DEF SchedTypeOK, Status, BatchInv, AtTask
  <1>3. EntryInv'
    BY DEF SchedTypeOK, BatchInv, AtTask, EntryInv
  <1>4. OwedInv'
    <2>1. current \in Task /\ sched' = "batch"
      BY DEF SchedTypeOK, BatchInv, AtTask
    <2>2. /\ \A t \in Task : t # current => due'[t] = due[t] /\ status'[t] = status[t]
          /\ status'[current] \in {"new", "deleted", "active", "completed"}
          /\ status'[current] \in {"new", "deleted"} => due'[current] = due[current] /\ status'[current] = status[current]
      BY <2>1 DEF SchedTypeOK, Status
    <2>3. status'[current] = "active" => ~due'[current]
      BY <2>1 DEF SchedTypeOK
    <2> QED
      BY <2>1, <2>2, <2>3 DEF OwedInv, Called
  <1>5. CompletedInv'
    BY DEF SchedTypeOK, Status, BatchInv, AtTask, EntryInv, CompletedInv
  <1>6. RunningIsHeld'
    BY DEF SchedTypeOK, Status, BatchInv, AtTask, RunningIsHeld, Held
  <1>7. CompletedIsAccountedFor'
    BY DEF SchedTypeOK, Status, BatchInv, AtTask, EntryInv, CompletedInv, CompletedIsAccountedFor
  <1> QED
    BY <1>1, <1>2, <1>3, <1>4, <1>5, <1>6, <1>7

\* A process that stops forgets its batch: what it held is owed again.
LEMMA CrashPreserves ==
  ASSUME SchedInv, Crash
  PROVE  SchedInv'
  <1> USE DEF SchedInv, Crash,
              taskRowVars, schedVars, replayVars, historyVars
  <1>1. SchedTypeOK'
    BY DEF SchedTypeOK, Status
  <1>2. BatchInv'
    BY DEF SchedTypeOK, Status, BatchInv, AtTask
  <1>3. EntryInv'
    BY DEF SchedTypeOK, BatchInv, AtTask, EntryInv
  <1>4. OwedInv'
    BY DEF SchedTypeOK, Status, BatchInv, AtTask, OwedInv, Called, CompletedInv
  <1>5. CompletedInv'
    BY DEF SchedTypeOK, Status, BatchInv, AtTask, EntryInv, CompletedInv
  <1>6. RunningIsHeld'
    BY DEF SchedTypeOK, Status, BatchInv, AtTask, RunningIsHeld, Held
  <1>7. CompletedIsAccountedFor'
    BY DEF SchedTypeOK, Status, BatchInv, AtTask, EntryInv, CompletedInv, CompletedIsAccountedFor
  <1> QED
    BY <1>1, <1>2, <1>3, <1>4, <1>5, <1>6, <1>7

\* The tools that write the row of a task do not know what the scheduler holds,
\* and none of them completes a task.
LEMMA RowToolsPreserve ==
  ASSUME SchedInv, NEW t \in Task, \/ Create(t) \/ BecomeDue(t)
         \/ \E s \in {"active", "paused", "cancelled"} : SetStatus(t, s)
  PROVE  SchedInv'
  <1> USE DEF SchedInv, Create, BecomeDue, SetStatus, Exists,
              taskRowVars, schedVars, replayVars, historyVars
  <1>1. SchedTypeOK'
    <2>1. status' \in [Task -> Status] /\ owed' \subseteq Task
      BY DEF SchedTypeOK, Status
    <2>2. due' \in [Task -> BOOLEAN]
      BY DEF SchedTypeOK
    <2> QED
      BY <2>1, <2>2 DEF SchedTypeOK
  <1>2. BatchInv'
    BY DEF SchedTypeOK, Status, BatchInv, AtTask
  <1>3. EntryInv'
    BY DEF SchedTypeOK, BatchInv, AtTask, EntryInv
  <1>4. OwedInv'
    BY DEF SchedTypeOK, Status, BatchInv, AtTask, OwedInv, Called, CompletedInv
  <1>5. CompletedInv'
    BY DEF SchedTypeOK, Status, BatchInv, AtTask, EntryInv, CompletedInv
  <1>6. RunningIsHeld'
    BY DEF SchedTypeOK, Status, BatchInv, AtTask, RunningIsHeld, Held
  <1>7. CompletedIsAccountedFor'
    BY DEF SchedTypeOK, Status, BatchInv, AtTask, EntryInv, CompletedInv, CompletedIsAccountedFor
  <1> QED
    BY <1>1, <1>2, <1>3, <1>4, <1>5, <1>6, <1>7

\* /reset deletes rows, held or not.
LEMMA ResetPreserves ==
  ASSUME SchedInv, Reset
  PROVE  SchedInv'
  <1> USE DEF SchedInv, Reset, Exists,
              taskRowVars, schedVars, replayVars, historyVars
  <1>1. SchedTypeOK'
    BY DEF SchedTypeOK, Status
  <1>2. BatchInv'
    BY DEF SchedTypeOK, Status, BatchInv, AtTask
  <1>3. EntryInv'
    BY DEF SchedTypeOK, BatchInv, AtTask, EntryInv
  <1>4. OwedInv'
    BY DEF SchedTypeOK, Status, BatchInv, AtTask, OwedInv, Called, CompletedInv
  <1>5. CompletedInv'
    BY DEF SchedTypeOK, Status, BatchInv, AtTask, EntryInv, CompletedInv
  <1>6. RunningIsHeld'
    BY DEF SchedTypeOK, Status, BatchInv, AtTask, RunningIsHeld, Held
  <1>7. CompletedIsAccountedFor'
    BY DEF SchedTypeOK, Status, BatchInv, AtTask, EntryInv, CompletedInv, CompletedIsAccountedFor
  <1> QED
    BY <1>1, <1>2, <1>3, <1>4, <1>5, <1>6, <1>7

\* A replay reads entries that were inserted, and what it requeues is owed.
LEMMA ReplayPreserves ==
  ASSUME SchedInv, ReplayList \/ ReplayMark \/ ReplayEnd \/ ReplayRequeue \/ \E e \in Entry : ReplayRead(e)
  PROVE  SchedInv'
  <1> USE DEF SchedInv, ReplayList, ReplayMark, ReplayEnd, ReplayRequeue, ReplayRead, Replayable, Exists,
              taskRowVars, schedVars, replayVars, historyVars
  <1>1. SchedTypeOK'
    <2>1. \A e \in todo \cup at : failed[e] \in Task
      BY DEF SchedTypeOK, EntryInv
    <2>2. seen' \in Status /\ todo' \subseteq Entry /\ at' \subseteq Entry /\ owed' \subseteq Task
      BY <2>1 DEF SchedTypeOK, Status
    <2>3. status' \in [Task -> Status] /\ due' \in [Task -> BOOLEAN]
      BY <2>1 DEF SchedTypeOK, Status
    <2>4. /\ dlq' \in [Entry -> {"none", "pending", "queued", "skipped", "deleted"}]
          /\ replay' \in {"idle", "looping", "deciding", "queued", "skipped"}
      BY DEF SchedTypeOK
    <2> QED
      BY <2>2, <2>3, <2>4 DEF SchedTypeOK
  <1>2. BatchInv'
    BY DEF SchedTypeOK, Status, BatchInv, AtTask
  <1>3. EntryInv'
    BY DEF SchedTypeOK, BatchInv, AtTask, EntryInv
  <1>4. OwedInv'
    BY DEF SchedTypeOK, Status, BatchInv, AtTask, OwedInv, Called, CompletedInv
  <1>5. CompletedInv'
    BY DEF SchedTypeOK, Status, BatchInv, AtTask, EntryInv, CompletedInv
  <1>6. RunningIsHeld'
    BY DEF SchedTypeOK, Status, BatchInv, AtTask, RunningIsHeld, Held
  <1>7. CompletedIsAccountedFor'
    BY DEF SchedTypeOK, Status, BatchInv, AtTask, EntryInv, CompletedInv, CompletedIsAccountedFor
  <1> QED
    BY <1>1, <1>2, <1>3, <1>4, <1>5, <1>6, <1>7

\* Every step of the scheduler, the tools and the replay keeps the invariant.
LEMMA SchedStep == SchedInv /\ [SchedNext]_allTaskVars => SchedInv'
  <1> SUFFICES ASSUME SchedInv, [SchedNext]_allTaskVars PROVE SchedInv'
    OBVIOUS
  <1>1. CASE UNCHANGED allTaskVars
    BY <1>1 DEF allTaskVars, taskRowVars, schedVars, replayVars, historyVars, SchedInv,
                SchedTypeOK, BatchInv, AtTask, EntryInv, OwedInv, Called, CompletedInv,
                RunningIsHeld, CompletedIsAccountedFor, Held
  <1>2. CASE SchedulerStep
    BY <1>2, RecoverPreserves, ClaimPreserves, BatchPreserves, FinishPreserves,
       RecordPreserves, UpdatePreserves DEF SchedulerStep
  <1>3. CASE ToolStep
    BY <1>3, RowToolsPreserve, ResetPreserves, ReplayPreserves DEF ToolStep, ReplayStep
  <1>4. CASE Crash
    BY <1>4, CrashPreserves
  <1> QED
    BY <1>1, <1>2, <1>3, <1>4 DEF SchedNext

\* What the scheduler relies on holds in every state, for any tasks, entries
\* and number of crashes.
THEOREM SchedInvariant == SchedSpec => []SchedInv
  <1>1. SchedInit => SchedInv
    BY SchedInitially
  <1>2. SchedInv /\ [SchedNext]_allTaskVars => SchedInv'
    BY SchedStep
  <1> QED
    BY <1>1, <1>2, PTL DEF SchedSpec

\* A row that says running is held by the scheduler, waits for the recovery of
\* the next process, or was skipped by this one.
THEOREM RunningHeld == SchedSpec => []RunningIsHeld
  <1>1. SchedInv => RunningIsHeld
    BY DEF SchedInv
  <1> QED
    BY <1>1, SchedInvariant, PTL

\* No one-time task is completed without a delivery or a dead-letter entry.
THEOREM CompletedAccounted == SchedSpec => []CompletedIsAccountedFor
  <1>1. SchedInv => CompletedIsAccountedFor
    BY DEF SchedInv
  <1> QED
    BY <1>1, SchedInvariant, PTL

\* The agent is called for an occurrence that nobody has run: twice only after
\* a crash, a replay or the resumption of a completed task.
THEOREM RunsOwed == SchedSpec => RunsAreOwed
  <1> DEFINE Owed == sched = "looking" /\ sched' = "agent" => current \in owed
  <1>1. SchedInv => Owed
    BY DEF SchedInv, OwedInv
  <1>2. SchedSpec => [][Owed]_allTaskVars
    BY <1>1, SchedInvariant, PTL
  <1> QED
    BY <1>2 DEF RunsAreOwed

\* Nothing but the resume tool, the end of a run and a replay under way brings a
\* cancelled task back.
THEOREM RevivalsCaused == SchedSpec => RevivalsHaveCause
  <1> DEFINE Caused == \A t \in Task : status[t] = "cancelled" /\ status'[t] # "cancelled" =>
                          \/ UNCHANGED <<sched, replay>>
                          \/ sched = "updating" /\ current = t
                          \/ replay = "deciding" /\ seen # "cancelled"
  <1>1. SchedInv /\ [SchedNext]_allTaskVars => Caused
    <2> SUFFICES ASSUME SchedInv, [SchedNext]_allTaskVars PROVE Caused
      OBVIOUS
    <2> USE DEF SchedInv, SchedTypeOK, taskRowVars, schedVars, replayVars, historyVars
    <2>1. CASE UNCHANGED allTaskVars
      BY <2>1 DEF allTaskVars
    <2>2. CASE Recover \/ Claim \/ UpdateTask
      BY <2>2 DEF Recover, Claim, Due, UpdateTask, AfterRun
    <2>3. CASE \/ EndBatch \/ SkipRun \/ RunAgent \/ RecordRun \/ Crash
               \/ \E t \in Task : TakeNext(t)
               \/ \E ok \in BOOLEAN : FinishTaskRun(ok)
      BY <2>3 DEF EndBatch, SkipRun, RunAgent, RecordRun, Crash, TakeNext, FinishTaskRun
    <2>4. CASE ReplayRequeue
      BY <2>4 DEF ReplayRequeue, Replayable
    <2>5. CASE ReplayList \/ ReplayMark \/ ReplayEnd \/ \E e \in Entry : ReplayRead(e)
      BY <2>5 DEF ReplayList, ReplayMark, ReplayEnd, ReplayRead
    <2>6. CASE Reset \/ \E t \in Task : \/ Create(t) \/ BecomeDue(t)
                       \/ \E s \in {"active", "paused", "cancelled"} : SetStatus(t, s)
      BY <2>6 DEF Reset, Create, BecomeDue, SetStatus
    <2> QED
      BY <2>1, <2>2, <2>3, <2>4, <2>5, <2>6
         DEF SchedNext, SchedulerStep, ToolStep, ReplayStep
  <1>2. SchedSpec => [][Caused]_allTaskVars
    BY <1>1, SchedInvariant, PTL DEF SchedSpec
  <1> QED
    BY <1>2 DEF RevivalsHaveCause

-----------------------------------------------------------------------------
(* The announcements of finished sub-agent runs.                            *)

HIDE SchedulerAssumption
USE AnnounceAssumption

HistoryTypeOK ==
    /\ queue \in Seq(Ended)
    /\ tried \in [Ended -> 0 .. MaxAttempts]
    /\ copies \in [Ended -> 0 .. 2]
    /\ contested \subseteq Ended

\* A row is inserted once, by a task that has not been announced, and it is due
\* only while an attempt is left.
RowInv ==
    /\ \A r \in Ended : ending[r] \in {"running", "finished"} => ann[r] = "none"
    /\ \A i, j \in DOMAIN queue : queue[i] = queue[j] => i = j
    /\ \A r \in Ended : ann[r] \in {"none", "pending", "retry"} => attempts[r] < MaxAttempts
    /\ \A r \in Ended : attempts[r] <= tried[r]

\* What a flusher has read of a row is never ahead of the deliveries of the row.
FlushInv ==
    /\ \A f \in Flusher : result[f] # "none" => batch[f] # <<>>
    /\ \A f \in Flusher : \A i \in DOMAIN batch[f] :
          /\ ann[batch[f][i].run] # "none"
          /\ batch[f][i].n < MaxAttempts
          /\ batch[f][i].n <= tried[batch[f][i].run]
          /\ \A j \in DOMAIN batch[f] : batch[f][i].run = batch[f][j].run => i = j
    /\ \A f \in Flusher : result[f] = "error" => batch[f][1].n < tried[batch[f][1].run]
    /\ \A f \in Flusher : result[f] = "ok" => copies[batch[f][1].run] > 0

\* The text of a row that nobody else had is sent once: the row says so, or its
\* flusher is about to.
OwnInv ==
    \A r \in Ended \ contested :
        /\ \A f, g \in Flusher : InBatch(f, r) /\ InBatch(g, r) => f = g
        /\ ann[r] = "sent" => \A f \in Flusher : ~ InBatch(f, r)
        /\ copies[r] > 0 => \/ ann[r] = "sent"
                            \/ \E f \in Flusher : result[f] = "ok" /\ batch[f][1].run = r
        /\ copies[r] <= 1

AnnounceInv ==
    AnnounceTypeOK /\ HistoryTypeOK /\ RowInv /\ FlushInv /\ OwnInv /\ RowsTellTheTruth

\* A set of numbers that is not empty has a least one.
LEMMA LeastNumber ==
  ASSUME NEW T \in SUBSET Nat, T # {}
  PROVE  \E i \in T : \A j \in T : i <= j
  <1>1. PICK i \in T : \A j \in T : ~ (<<j, i>> \in OpToRel(<, Nat))
    BY NatLessThanWellFounded, WFMin
  <1>2. \A j \in T : ~ (j < i)
    BY <1>1 DEF OpToRel
  <1> QED
    BY <1>2

\* Up to position i of a sequence as many positions of a set as are wanted, and
\* the last of them is i.
LEMMA NthExists ==
  ASSUME NEW n \in Nat, NEW S \in SUBSET (1 .. n), NEW k \in 1 .. Cardinality(S)
  PROVE  \E i \in S : Cardinality({j \in S : j <= i}) = k
  <1> DEFINE R(i) == Cardinality({j \in S : j <= i})
             T == {i \in 0 .. n : R(i) >= k}
  <1>0. \A j \in S : j \in Nat /\ j >= 1 /\ j <= n
    OBVIOUS
  <1>1. IsFiniteSet(S) /\ Cardinality(S) \in Nat
    <2>1. IsFiniteSet(1 .. n)
      BY FS_Interval
    <2> QED
      BY <2>1, FS_Subset, FS_CardinalityType
  <1>2. ASSUME NEW i \in 0 .. n PROVE IsFiniteSet({j \in S : j <= i}) /\ R(i) \in Nat
    BY <1>1, FS_Subset, FS_CardinalityType
  <1>3. R(0) = 0
    <2>0. \A j \in S : ~ (j <= 0)
      BY <1>0
    <2>1. {j \in S : j <= 0} = {}
      BY <2>0, Zenon
    <2> QED
      BY <2>1, FS_EmptySet
  <1>4. R(n) = Cardinality(S)
    <2>1. {j \in S : j <= n} = S
      BY <1>0
    <2> QED
      BY <2>1
  <1>5. ASSUME NEW i \in 1 .. n
        PROVE  R(i) = IF i \in S THEN R(i - 1) + 1 ELSE R(i - 1)
    <2>1. i - 1 \in 0 .. n
      OBVIOUS
    <2>2. CASE i \in S
      <3>1. {j \in S : j <= i} = {j \in S : j <= i - 1} \cup {i}
        <4>1. \A j \in S : j <= i <=> j <= i - 1 \/ j = i
          BY <1>0
        <4> QED
          BY <2>2, <4>1, Zenon
      <3>2. i \notin {j \in S : j <= i - 1}
        OBVIOUS
      <3> QED
        BY <1>2, <2>1, <2>2, <3>1, <3>2, FS_AddElement
    <2>3. CASE i \notin S
      <3>1. {j \in S : j <= i} = {j \in S : j <= i - 1}
        <4>1. \A j \in S : j <= i <=> j <= i - 1
          BY <1>0, <2>3
        <4> QED
          BY <4>1, Zenon
      <3> QED
        BY <2>3, <3>1
    <2> QED
      BY <2>2, <2>3
  <1> HIDE DEF R
  <1>6. T \in SUBSET Nat /\ n \in T
    BY <1>1, <1>4
  <1>7. PICK i \in T : \A j \in T : i <= j
    BY <1>6, LeastNumber
  <1>8. i \in 0 .. n /\ R(i) >= k /\ R(i) \in Nat
    BY <1>2, <1>7
  <1>80. i # 0 /\ i \in 1 .. n
    BY <1>3, <1>8
  <1>81. i - 1 \in 0 .. n
    BY <1>80
  <1>9. i - 1 \in 0 .. n /\ R(i - 1) \in Nat
    BY <1>2, <1>81
  <1>90. i - 1 \notin T
    BY <1>7, <1>80
  <1>10. R(i - 1) < k
    BY <1>9, <1>90
  <1>11. i \in S /\ R(i) = k
    BY <1>5, <1>8, <1>80, <1>9, <1>10
  <1> QED
    BY <1>11 DEF R

\* Intervals from 1 tell their lengths.
LEMMA SameLength ==
  ASSUME NEW k \in Nat, NEW m \in Nat, 1 .. k = 1 .. m
  PROVE  k = m
  <1>1. \A x \in Int : x \in 1 .. k <=> x \in 1 .. m
    OBVIOUS
  <1>2. k \in 1 .. k => k <= m
    BY <1>1
  <1>3. m \in 1 .. m => m <= k
    BY <1>1
  <1> QED
    BY <1>2, <1>3

\* A flush reads rows that are due, each once, and no more than it may.
LEMMA DueRowsAreDue ==
  ASSUME AnnounceTypeOK, HistoryTypeOK
  PROVE  /\ DueRows \in Seq([run : Ended, n : 0 .. MaxAttempts])
         /\ Len(DueRows) <= BatchLimit
         /\ \A i \in DOMAIN DueRows : /\ DueRow(DueRows[i].run)
                                      /\ DueRows[i].n = attempts[DueRows[i].run]
         /\ (\A i, j \in DOMAIN queue : queue[i] = queue[j] => i = j) =>
               \A i, j \in DOMAIN DueRows : DueRows[i].run = DueRows[j].run => i = j
  <1> DEFINE D == DuePositions
             c == Cardinality(D)
             m == IF c < BatchLimit THEN c ELSE BatchLimit
             At(k) == CHOOSE i \in D : Cardinality({j \in D : j <= i}) = k
  <1>1. Len(queue) \in Nat /\ D \in SUBSET (1 .. Len(queue))
    BY DEF DuePositions, HistoryTypeOK
  <1>2. c \in Nat
    <2>1. IsFiniteSet(1 .. Len(queue))
      BY <1>1, FS_Interval
    <2> QED
      BY <1>1, <2>1, FS_Subset, FS_CardinalityType
  <1>3. ASSUME NEW k \in 1 .. c
        PROVE  /\ At(k) \in DOMAIN queue /\ DueRow(queue[At(k)])
               /\ queue[At(k)] \in Ended
               /\ Cardinality({j \in D : j <= At(k)}) = k
    <2> HIDE DEF D
    <2>1. \E i \in D : Cardinality({j \in D : j <= i}) = k
      <3>1. k \in 1 .. Cardinality(D)
        BY DEF c
      <3> QED
        BY ONLY <1>1, <3>1, NthExists
    <2>2. At(k) \in D /\ Cardinality({j \in D : j <= At(k)}) = k
      BY <2>1
    <2>3. At(k) \in DOMAIN queue /\ DueRow(queue[At(k)])
      BY <2>2 DEF DuePositions, D
    <2> QED
      BY <2>2, <2>3 DEF HistoryTypeOK
  <1>4. \A k : NthDue(k) = queue[At(k)]
    BY DEF NthDue
  <1>5. m \in Nat /\ m <= BatchLimit /\ m <= c
        /\ {k \in 1 .. BatchLimit : k <= Cardinality(DuePositions)} = 1 .. m
    BY <1>2
  <1>6. DueRows = [k \in 1 .. m |-> [run |-> NthDue(k), n |-> attempts[NthDue(k)]]]
    BY <1>5 DEF DueRows
  <1> HIDE DEF m, At, c, D
  <1>7. \A k \in 1 .. m : k \in 1 .. c
    BY <1>2, <1>5
  <1>8. \A k \in 1 .. m : NthDue(k) \in Ended /\ DueRow(NthDue(k))
    BY <1>3, <1>4, <1>7
  <1>9. \A k \in 1 .. m : attempts[NthDue(k)] \in 0 .. MaxAttempts
    BY <1>8 DEF AnnounceTypeOK
  <1>10. DueRows \in [1 .. m -> [run : Ended, n : 0 .. MaxAttempts]]
    BY <1>6, <1>8, <1>9
  <1>11. DueRows \in Seq([run : Ended, n : 0 .. MaxAttempts]) /\ Len(DueRows) = m
    <2> DEFINE Row == [run : Ended, n : 0 .. MaxAttempts]
    <2>1. DueRows \in [1 .. m -> Row]
      BY <1>10
    <2> HIDE DEF Row
    <2>2. DueRows \in Seq(Row)
      BY <1>5, <2>1, SeqDef
    <2>3. DOMAIN DueRows = 1 .. Len(DueRows) /\ Len(DueRows) \in Nat
      BY <2>2, LenProperties
    <2>4. DOMAIN DueRows = 1 .. m
      BY <2>1
    <2>5. Len(DueRows) = m
      BY <1>5, <2>3, <2>4, SameLength
    <2> QED
      BY <2>2, <2>5 DEF Row
  <1>12. DOMAIN DueRows = 1 .. m
    BY <1>6
  <1>13. \A i \in DOMAIN DueRows : DueRows[i].run = NthDue(i) /\ DueRows[i].n = attempts[NthDue(i)]
    BY <1>6, <1>12
  <1>14. ASSUME \A i, j \in DOMAIN queue : queue[i] = queue[j] => i = j,
                NEW i \in DOMAIN DueRows, NEW j \in DOMAIN DueRows, DueRows[i].run = DueRows[j].run
         PROVE  i = j
    <2>1. i \in 1 .. c /\ j \in 1 .. c
      BY <1>7, <1>12
    <2>2. queue[At(i)] = queue[At(j)]
      BY <1>4, <1>13, <1>14
    <2>3. At(i) = At(j)
      BY <1>3, <1>14, <2>1, <2>2
    <2> QED
      BY <1>3, <2>1, <2>3
  <1> QED
    BY <1>5, <1>8, <1>11, <1>12, <1>13, <1>14

\* What is in a batch.
LEMMA RowsOfBatch ==
  ASSUME NEW s \in Seq([run : Ended, n : 0 .. MaxAttempts]), NEW i \in DOMAIN s
  PROVE  s[i].run \in Ended /\ s[i].n \in 0 .. MaxAttempts
  <1> DEFINE Row == [run : Ended, n : 0 .. MaxAttempts]
  <1>1. \A x \in Row : x.run \in Ended /\ x.n \in 0 .. MaxAttempts
    OBVIOUS
  <1> HIDE DEF Row
  <1>2. s \in Seq(Row)
    BY DEF Row
  <1>3. s[i] \in Row
    BY <1>2
  <1> QED
    BY <1>1, <1>3

\* No row, no batch and no delivery at first.
LEMMA AnnounceInitInv == AnnounceInit => AnnounceInv
  <1> SUFFICES ASSUME AnnounceInit PROVE AnnounceInv
    OBVIOUS
  <1> USE DEF AnnounceInit
  <1>1. AnnounceTypeOK
    <2>1. <<>> \in Seq([run : Ended, n : 0 .. MaxAttempts]) /\ Len(<<>>) = 0 /\ DOMAIN <<>> = {}
      OBVIOUS
    <2> QED
      BY <2>1 DEF AnnounceTypeOK
  <1>2. HistoryTypeOK
    BY DEF HistoryTypeOK
  <1>3. RowInv
    BY DEF RowInv
  <1>4. FlushInv
    BY DEF FlushInv
  <1>5. OwnInv
    BY DEF OwnInv, InBatch
  <1>6. RowsTellTheTruth
    BY DEF RowsTellTheTruth
  <1> QED
    BY <1>1, <1>2, <1>3, <1>4, <1>5, <1>6 DEF AnnounceInv

\* The row a flusher is at.
LEMMA AtHead ==
  ASSUME AnnounceInv, NEW f \in Flusher, batch[f] # <<>>
  PROVE  /\ 1 \in DOMAIN batch[f] /\ Head(batch[f]) = batch[f][1]
         /\ batch[f][1].run \in Ended /\ batch[f][1].n \in 0 .. MaxAttempts
         /\ InBatch(f, batch[f][1].run)
         /\ Tail(batch[f]) \in Seq([run : Ended, n : 0 .. MaxAttempts])
         /\ Len(Tail(batch[f])) <= BatchLimit
         /\ \A i \in DOMAIN Tail(batch[f]) : /\ i + 1 \in DOMAIN batch[f] /\ i + 1 # 1
                                             /\ Tail(batch[f])[i] = batch[f][i + 1]
  <1> DEFINE Row == [run : Ended, n : 0 .. MaxAttempts]
             s == batch[f]
  <1>1. s \in Seq(Row) /\ s # <<>> /\ Len(s) <= BatchLimit
    BY DEF AnnounceInv, AnnounceTypeOK
  <1>2. \A x \in Row : x.run \in Ended /\ x.n \in 0 .. MaxAttempts
    OBVIOUS
  <1> HIDE DEF Row, s
  <1>3. 1 \in DOMAIN s /\ Head(s) = s[1] /\ s[1] \in Row
    BY <1>1
  <1>4. Tail(s) \in Seq(Row) /\ Len(Tail(s)) = Len(s) - 1 /\ Len(s) \in Nat
    BY <1>1
  <1>5. \A i \in DOMAIN Tail(s) : i + 1 \in DOMAIN s /\ i + 1 # 1 /\ Tail(s)[i] = s[i + 1]
    BY <1>1, <1>4
  <1>6. Len(Tail(s)) <= BatchLimit
    BY <1>1, <1>4
  <1>7. s[1].run \in Ended /\ s[1].n \in 0 .. MaxAttempts
    BY <1>2, <1>3
  <1> QED
    BY <1>3, <1>4, <1>5, <1>6, <1>7 DEF s, Row, InBatch

\* What the rows and the flushers have is as it was.
LEMMA SameRowsInv ==
  ASSUME AnnounceInv, UNCHANGED <<ann, attempts, queue, batch, result, relayStarts, announceHistory>>,
         backoff' \subseteq backoff,
         ending' \in [Ended -> {"running", "finished", "flush", "over", "lost"}],
         \A r \in Ended : ending'[r] \in {"running", "finished"} => ending[r] \in {"running", "finished"}
  PROVE  AnnounceInv'
  <1> USE DEF AnnounceInv, announceHistory
  <1>1. AnnounceTypeOK'
    BY DEF AnnounceTypeOK
  <1>2. HistoryTypeOK'
    BY DEF HistoryTypeOK
  <1>3. RowInv'
    BY DEF RowInv
  <1>4. FlushInv'
    BY DEF FlushInv
  <1>5. OwnInv'
    BY DEF OwnInv, InBatch
  <1>6. RowsTellTheTruth'
    BY DEF RowsTellTheTruth
  <1> QED
    BY <1>1, <1>2, <1>3, <1>4, <1>5, <1>6

\* enqueue_subagent_announce inserts a row that no flusher can have read.
LEMMA EnqueueInv ==
  ASSUME AnnounceInv, NEW r \in Ended, Enqueue(r)
  PROVE  AnnounceInv'
  <1> USE DEF AnnounceInv, Enqueue, announceHistory
  <1>1. ann[r] = "none" /\ queue \in Seq(Ended) /\ \A i \in DOMAIN queue : queue[i] # r
    BY DEF RowInv, AnnounceTypeOK, HistoryTypeOK
  <1>2. /\ queue' \in Seq(Ended) /\ DOMAIN queue' = DOMAIN queue \cup {Len(queue) + 1}
        /\ \A i \in DOMAIN queue : queue'[i] = queue[i] /\ i # Len(queue) + 1
        /\ queue'[Len(queue) + 1] = r
    BY <1>1
  <1>3. ann' \in [Ended -> {"none", "pending", "retry", "sent", "failed"}]
        /\ \A x \in Ended : ann'[x] = IF x = r THEN "pending" ELSE ann[x]
    BY DEF AnnounceTypeOK
  <1>4. AnnounceTypeOK'
    <2>1. \A x \in Ended : (\E i \in DOMAIN queue' : queue'[i] = x)
                             <=> x = r \/ \E i \in DOMAIN queue : queue[i] = x
      BY <1>2
    <2>2. \A x \in Ended : ann'[x] # "none" <=> \E i \in DOMAIN queue' : queue'[i] = x
      BY <1>3, <2>1 DEF AnnounceTypeOK
    <2> QED
      BY <1>3, <2>2 DEF AnnounceTypeOK
  <1>5. HistoryTypeOK'
    BY <1>2 DEF HistoryTypeOK
  <1>6. RowInv'
    <2>1. \A i, j \in DOMAIN queue' : queue'[i] = queue'[j] => i = j
      BY <1>1, <1>2 DEF RowInv
    <2>2. \A x \in Ended : ending'[x] \in {"running", "finished"} => x # r /\ ending'[x] = ending[x]
      BY DEF AnnounceTypeOK
    <2> QED
      BY <1>1, <1>3, <2>1, <2>2 DEF RowInv
  <1>7. FlushInv'
    <2>1. ASSUME NEW g \in Flusher, NEW i \in DOMAIN batch[g]
          PROVE  ann'[batch[g][i].run] # "none"
      <3>1. batch[g] \in Seq([run : Ended, n : 0 .. MaxAttempts])
        BY DEF AnnounceTypeOK
      <3>2. batch[g][i].run \in Ended
        BY ONLY <3>1, RowsOfBatch
      <3>3. ann[batch[g][i].run] # "none"
        BY DEF FlushInv
      <3> QED
        BY <1>3, <3>2, <3>3
    <2>2. UNCHANGED <<batch, result, tried, copies>>
      OBVIOUS
    <2>3. FlushInv
      OBVIOUS
    <2> QED
      BY ONLY <2>1, <2>2, <2>3 DEF FlushInv
  <1>8. OwnInv'
    <2>1. \A x : \A g \in Flusher : InBatch(g, x)' <=> InBatch(g, x)
      BY DEF InBatch
    <2>2. \A x \in Ended : ann'[x] = "sent" <=> ann[x] = "sent"
      BY <1>1, <1>3
    <2>3. UNCHANGED <<batch, result, copies, contested>> /\ OwnInv
      OBVIOUS
    <2> QED
      BY ONLY <2>1, <2>2, <2>3 DEF OwnInv
  <1>9. RowsTellTheTruth'
    BY <1>3 DEF RowsTellTheTruth
  <1> QED
    BY <1>4, <1>5, <1>6, <1>7, <1>8, <1>9

\* A flush reads rows that are due: none of them says that it was sent, and those
\* that another flusher has too are contested from now on.
LEMMA ListDueInv ==
  ASSUME AnnounceInv, NEW f \in Flusher, ListDue(f)
  PROVE  AnnounceInv'
  <1> USE DEF AnnounceInv, ListDue, announceRows
  <1>1. /\ DueRows \in Seq([run : Ended, n : 0 .. MaxAttempts]) /\ Len(DueRows) <= BatchLimit
        /\ \A i \in DOMAIN DueRows : /\ DueRow(DueRows[i].run)
                                     /\ DueRows[i].n = attempts[DueRows[i].run]
        /\ \A i, j \in DOMAIN DueRows : DueRows[i].run = DueRows[j].run => i = j
    BY DueRowsAreDue DEF RowInv
  <1>2. \A i \in DOMAIN DueRows : DueRows[i].run \in Ended
    BY <1>1, RowsOfBatch
  <1> DEFINE D == DueRows
  <1>3. D # <<>> /\ batch' = [batch EXCEPT ![f] = D] /\ batch[f] = <<>>
        /\ \A g \in Flusher : batch'[g] = IF g = f THEN D ELSE batch[g]
    BY DEF MayFlush, AnnounceTypeOK
  <1>4. contested' = contested \cup {r \in Ended : /\ \E i \in DOMAIN D : D[i].run = r
                                                   /\ \E g \in Flusher : InBatch(g, r)}
    OBVIOUS
  <1> HIDE DEF D
  <1>5. result[f] = "none"
    <2>1. \A g \in Flusher : result[g] # "none" => batch[g] # <<>>
      BY DEF FlushInv
    <2> QED
      BY <1>3, <2>1
  <1>6. AnnounceTypeOK'
    <2>1. UNCHANGED <<ann, attempts, backoff, queue, result, relayStarts>>
      OBVIOUS
    <2>2. ending' \in [Ended -> {"running", "finished", "flush", "over", "lost"}]
      BY DEF AnnounceTypeOK
    <2>3. batch' \in [Flusher -> Seq([run : Ended, n : 0 .. MaxAttempts])]
      <3> DEFINE R == Seq([run : Ended, n : 0 .. MaxAttempts])
      <3>1. D \in R /\ batch \in [Flusher -> R]
        BY <1>1 DEF AnnounceTypeOK, D
      <3> HIDE DEF R
      <3>2. batch' \in [Flusher -> R]
        BY <1>3, <3>1
      <3> QED
        BY <3>2 DEF R
    <2>4. \A g \in Flusher : Len(batch'[g]) <= BatchLimit
      BY <1>1, <1>3 DEF AnnounceTypeOK, D
    <2> QED
      BY <2>1, <2>2, <2>3, <2>4 DEF AnnounceTypeOK
  <1>7. HistoryTypeOK'
    BY <1>4 DEF HistoryTypeOK
  <1>8. RowInv'
    <2>1. \A r \in Ended : ending'[r] \in {"running", "finished"} => ending[r] \in {"running", "finished"}
      BY DEF AnnounceTypeOK
    <2> QED
      BY <2>1 DEF RowInv
  <1>9. FlushInv'
    <2>1. ASSUME NEW i \in DOMAIN D
          PROVE  /\ ann[D[i].run] # "none" /\ D[i].n < MaxAttempts
                 /\ D[i].n <= tried[D[i].run]
      BY <1>1, <1>2, <2>1 DEF D, DueRow, RowInv
    <2>2. \A g \in Flusher : result[g] # "none" => g # f /\ batch'[g] = batch[g]
      BY <1>3, <1>5
    <2>3. \A i, j \in DOMAIN D : D[i].run = D[j].run => i = j
      BY <1>1 DEF D
    <2>4. \A g \in Flusher : g # f => batch'[g] = batch[g]
      BY <1>3
    <2>5. batch'[f] = D
      BY <1>3
    <2>6. /\ \A g \in Flusher : result[g] # "none" => batch'[g] # <<>>
          /\ \A g \in Flusher : result[g] = "error" => batch'[g][1].n < tried[batch'[g][1].run]
          /\ \A g \in Flusher : result[g] = "ok" => copies[batch'[g][1].run] > 0
      BY <2>2 DEF FlushInv
    <2>7. ASSUME NEW g \in Flusher, NEW i \in DOMAIN batch'[g]
          PROVE  /\ ann[batch'[g][i].run] # "none"
                 /\ batch'[g][i].n < MaxAttempts
                 /\ batch'[g][i].n <= tried[batch'[g][i].run]
                 /\ \A j \in DOMAIN batch'[g] : batch'[g][i].run = batch'[g][j].run => i = j
      <3>1. CASE g = f
        BY <2>1, <2>3, <2>5, <2>7, <3>1
      <3>2. CASE g # f
        BY <2>4, <2>7, <3>2 DEF FlushInv
      <3> QED
        BY <3>1, <3>2
    <2> QED
      BY <2>6, <2>7 DEF FlushInv
  <1>10. OwnInv'
    <2> SUFFICES ASSUME NEW r \in Ended \ contested'
                 PROVE  /\ \A g, h \in Flusher : InBatch(g, r)' /\ InBatch(h, r)' => g = h
                        /\ ann[r] = "sent" => \A g \in Flusher : ~ InBatch(g, r)'
                        /\ copies[r] > 0 => \/ ann[r] = "sent"
                                            \/ \E g \in Flusher : result[g] = "ok" /\ batch'[g][1].run = r
                        /\ copies[r] <= 1
      BY DEF OwnInv
    <2>1. r \in Ended \ contested
      BY <1>4
    <2>2. (\E i \in DOMAIN D : D[i].run = r) => \A g \in Flusher : ~ InBatch(g, r)
      BY <1>4
    <2>3. InBatch(f, r)' <=> \E i \in DOMAIN D : D[i].run = r
      BY <1>3 DEF InBatch
    <2>4. \A g \in Flusher \ {f} : InBatch(g, r)' <=> InBatch(g, r)
      BY <1>3 DEF InBatch
    <2>5. \A g, h \in Flusher : InBatch(g, r)' /\ InBatch(h, r)' => g = h
      BY <2>1, <2>2, <2>3, <2>4 DEF OwnInv
    <2>6. ann[r] = "sent" => ~ \E i \in DOMAIN D : D[i].run = r
      BY <1>1 DEF DueRow, D
    <2>7. ann[r] = "sent" => \A g \in Flusher : ~ InBatch(g, r)'
      BY <2>1, <2>3, <2>4, <2>6 DEF OwnInv
    <2>8. \A g \in Flusher : result[g] = "ok" => batch'[g] = batch[g]
      BY <1>3, <1>5
    <2>9. copies[r] > 0 => \/ ann[r] = "sent"
                           \/ \E g \in Flusher : result[g] = "ok" /\ batch'[g][1].run = r
      BY <2>1, <2>8 DEF OwnInv
    <2> QED
      BY <2>1, <2>5, <2>7, <2>9 DEF OwnInv
  <1>11. RowsTellTheTruth'
    BY DEF RowsTellTheTruth
  <1> QED
    BY <1>6, <1>7, <1>8, <1>9, <1>10, <1>11

\* A delivery of a row nobody else has is its first, or the one before has failed.
LEMMA DeliverInv ==
  ASSUME AnnounceInv, NEW f \in Flusher, Deliver(f)
  PROVE  AnnounceInv'
  <1> USE DEF AnnounceInv, announceRows
  <1> DEFINE r == batch[f][1].run
             n == batch[f][1].n
  <1>1. /\ batch[f] # <<>> /\ result[f] = "none"
        /\ 1 \in DOMAIN batch[f] /\ r \in Ended /\ n \in 0 .. MaxAttempts /\ InBatch(f, r)
        /\ Head(batch[f]).run = r
    BY AtHead DEF Deliver
  <1>2. UNCHANGED <<ann, attempts, backoff, queue, ending, batch, relayStarts>>
    BY DEF Deliver
  <1>3. /\ tried' \in [Ended -> 0 .. MaxAttempts]
        /\ \A x \in Ended : tried'[x] >= tried[x]
        /\ tried'[r] = IF tried[r] < MaxAttempts THEN tried[r] + 1 ELSE tried[r]
    BY <1>1 DEF Deliver, HistoryTypeOK
  <1>4. /\ copies' \in [Ended -> 0 .. 2]
        /\ \A x \in Ended : copies'[x] >= copies[x] /\ (x # r => copies'[x] = copies[x])
        /\ result' \in [Flusher -> {"none", "ok", "error"}]
        /\ \A g \in Flusher : g # f => result'[g] = result[g]
        /\ contested \subseteq contested' /\ contested' \subseteq contested \cup {r}
    <2>1. \/ result' = [result EXCEPT ![f] = "error"] /\ UNCHANGED <<copies, contested>>
          \/ /\ copies' = [copies EXCEPT ![r] = IF @ < 2 THEN @ + 1 ELSE @]
             /\ \/ result' = [result EXCEPT ![f] = "ok"] /\ UNCHANGED contested
                \/ result' = [result EXCEPT ![f] = "error"] /\ contested' = contested \cup {r}
      BY <1>1 DEF Deliver
    <2>2. copies' = copies \/ copies' = [copies EXCEPT ![r] = IF @ < 2 THEN @ + 1 ELSE @]
      BY <2>1
    <2>3. result' = [result EXCEPT ![f] = "ok"] \/ result' = [result EXCEPT ![f] = "error"]
      BY <2>1
    <2>4. contested \subseteq contested' /\ contested' \subseteq contested \cup {r}
      BY <2>1
    <2>5. /\ copies' \in [Ended -> 0 .. 2]
          /\ \A x \in Ended : copies'[x] >= copies[x] /\ (x # r => copies'[x] = copies[x])
      BY <1>1, <2>2 DEF HistoryTypeOK
    <2>6. /\ result' \in [Flusher -> {"none", "ok", "error"}]
          /\ \A g \in Flusher : g # f => result'[g] = result[g]
      BY <2>3 DEF AnnounceTypeOK
    <2> QED
      BY <2>4, <2>5, <2>6
  <1>5. \/ result'[f] = "error" /\ copies' = copies
        \/ result'[f] = "ok" /\ copies'[r] = IF copies[r] < 2 THEN copies[r] + 1 ELSE copies[r]
        \/ result'[f] = "error" /\ r \in contested'
    BY <1>1 DEF Deliver, HistoryTypeOK, AnnounceTypeOK
  <1>6. InBatch(f, r) /\ r \in Ended /\ n < MaxAttempts /\ n <= tried[r]
    BY <1>1 DEF FlushInv
  <1> HIDE DEF r, n
  <1>7. AnnounceTypeOK'
    BY <1>2, <1>4 DEF AnnounceTypeOK
  <1>8. HistoryTypeOK'
    BY <1>2, <1>3, <1>4, <1>6 DEF HistoryTypeOK
  <1>9. RowInv'
    <2>1. \A x \in Ended : attempts[x] \in Nat /\ tried[x] \in Nat /\ tried'[x] \in Nat
      BY <1>3 DEF AnnounceTypeOK, HistoryTypeOK
    <2>2. \A x \in Ended : attempts[x] <= tried'[x]
      BY <1>3, <2>1 DEF RowInv
    <2> QED
      BY <1>2, <2>2 DEF RowInv
  <1>10. FlushInv'
    <2>1. ASSUME NEW g \in Flusher, NEW i \in DOMAIN batch[g]
          PROVE  batch[g][i].run \in Ended /\ batch[g][i].n \in Nat
      <3>1. batch[g] \in Seq([run : Ended, n : 0 .. MaxAttempts])
        BY DEF AnnounceTypeOK
      <3>2. batch[g][i].run \in Ended /\ batch[g][i].n \in 0 .. MaxAttempts
        BY ONLY <2>1, <3>1, RowsOfBatch
      <3> QED
        BY <3>2
    <2>2. \A x \in Ended : tried[x] \in Nat /\ tried'[x] \in Nat /\ copies[x] \in Nat /\ copies'[x] \in Nat
      <3>1. tried \in [Ended -> 0 .. MaxAttempts] /\ copies \in [Ended -> 0 .. 2]
        BY DEF HistoryTypeOK
      <3> QED
        BY <1>3, <1>4, <3>1
    <2>3. \A g \in Flusher : \A i \in DOMAIN batch[g] :
             /\ ann[batch[g][i].run] # "none"
             /\ batch[g][i].n < MaxAttempts
             /\ batch[g][i].n <= tried'[batch[g][i].run]
             /\ \A j \in DOMAIN batch[g] : batch[g][i].run = batch[g][j].run => i = j
      <3>1. ASSUME NEW g \in Flusher, NEW i \in DOMAIN batch[g]
            PROVE  batch[g][i].n <= tried'[batch[g][i].run]
        <4>1. batch[g][i].n <= tried[batch[g][i].run]
          BY <3>1 DEF FlushInv
        <4> QED
          BY <1>3, <2>1, <2>2, <3>1, <4>1
      <3> QED
        BY <3>1 DEF FlushInv
    <2>4. \A g \in Flusher : result'[g] # "none" => batch[g] # <<>>
      BY <1>1, <1>4 DEF FlushInv
    <2>5. ASSUME NEW g \in Flusher, result'[g] = "error"
          PROVE  batch[g][1].n < tried'[batch[g][1].run]
      <3>1. CASE g = f
        <4>1. n \in Nat /\ tried[r] \in Nat
          BY <1>1, <2>1, <2>2, <1>6 DEF n
        <4>2. n < tried'[r]
          BY <1>3, <1>6, <4>1
        <4> QED
          BY <3>1, <4>2 DEF n, r
      <3>2. CASE g # f
        <4>1. result[g] = "error" /\ batch[g] # <<>>
          BY <1>4, <2>4, <2>5, <3>2
        <4>2. 1 \in DOMAIN batch[g] /\ batch[g][1].n < tried[batch[g][1].run]
          BY <4>1, AtHead DEF FlushInv
        <4> QED
          BY <1>3, <2>1, <2>2, <4>2
      <3> QED
        BY <3>1, <3>2
    <2>6. ASSUME NEW g \in Flusher, result'[g] = "ok"
          PROVE  copies'[batch[g][1].run] > 0
      <3>1. CASE g = f
        <4>1. copies'[r] > 0
          BY <1>5, <1>6, <2>2, <2>6, <3>1
        <4> QED
          BY <3>1, <4>1 DEF r
      <3>2. CASE g # f
        <4>1. result[g] = "ok" /\ batch[g] # <<>>
          BY <1>4, <2>4, <2>6, <3>2
        <4>2. 1 \in DOMAIN batch[g] /\ copies[batch[g][1].run] > 0
          BY <4>1, AtHead DEF FlushInv
        <4> QED
          BY <1>4, <2>1, <2>2, <4>2
      <3> QED
        BY <3>1, <3>2
    <2> QED
      BY <1>2, <2>3, <2>4, <2>5, <2>6 DEF FlushInv
  <1>11. OwnInv'
    <2> SUFFICES ASSUME NEW x \in Ended \ contested'
                 PROVE  /\ \A g, h \in Flusher : InBatch(g, x)' /\ InBatch(h, x)' => g = h
                        /\ ann[x] = "sent" => \A g \in Flusher : ~ InBatch(g, x)'
                        /\ copies'[x] > 0 => \/ ann[x] = "sent"
                                             \/ \E g \in Flusher : result'[g] = "ok" /\ batch[g][1].run = x
                        /\ copies'[x] <= 1
      BY <1>2 DEF OwnInv
    <2>1. x \in Ended \ contested
      BY <1>4
    <2>2. \A g \in Flusher : InBatch(g, x)' <=> InBatch(g, x)
      BY <1>2 DEF InBatch
    <2>3. (\A g, h \in Flusher : InBatch(g, x)' /\ InBatch(h, x)' => g = h)
          /\ (ann[x] = "sent" => \A g \in Flusher : ~ InBatch(g, x)')
      BY <2>1, <2>2 DEF OwnInv
    <2>4. CASE x = r
      <3>1. ann[r] # "sent"
        BY <1>6, <2>1, <2>4 DEF OwnInv
      <3>2. ASSUME NEW g \in Flusher, result[g] = "ok" /\ batch[g][1].run = r PROVE FALSE
        <4>1. batch[g] # <<>>
          BY <3>2 DEF FlushInv
        <4>2. InBatch(g, r)
          BY <3>2, <4>1, AtHead
        <4>3. g = f
          BY <1>6, <2>1, <2>4, <4>2 DEF OwnInv
        <4> QED
          BY <1>1, <3>2, <4>3
      <3>3. ~ (copies[r] > 0) /\ copies[r] \in Nat
        BY <2>1, <2>4, <3>1, <3>2 DEF OwnInv, HistoryTypeOK
      <3>4. copies'[r] <= 1 /\ (copies'[r] > 0 => result'[f] = "ok")
        BY <1>5, <2>4, <3>3
      <3> QED
        BY <2>3, <2>4, <3>4 DEF r
    <2>5. CASE x # r
      <3>1. copies'[x] = copies[x]
        BY <1>4, <2>5
      <3>2. \A g \in Flusher : result[g] = "ok" /\ batch[g][1].run = x => result'[g] = "ok"
        BY <1>4, <2>5 DEF r
      <3> QED
        BY <2>1, <2>3, <3>1, <3>2 DEF OwnInv
    <2> QED
      BY <2>4, <2>5
  <1>12. RowsTellTheTruth'
    <2>1. \A x \in Ended : /\ tried[x] \in 0 .. MaxAttempts /\ tried'[x] \in 0 .. MaxAttempts
                           /\ copies[x] \in Nat /\ copies'[x] \in Nat
      <3>1. tried \in [Ended -> 0 .. MaxAttempts] /\ copies \in [Ended -> 0 .. 2]
        BY DEF HistoryTypeOK
      <3> QED
        BY <1>3, <1>4, <3>1
    <2> QED
      BY <1>2, <1>3, <1>4, <2>1 DEF RowsTellTheTruth
  <1> QED
    BY <1>7, <1>8, <1>9, <1>10, <1>11, <1>12

\* What is recorded is what happened to the row at hand, however old the batch is.
LEMMA RecordInv ==
  ASSUME AnnounceInv, NEW f \in Flusher, Record(f)
  PROVE  AnnounceInv'
  <1> USE DEF AnnounceInv, announceHistory
  <1> DEFINE r == batch[f][1].run
             n == batch[f][1].n
             T == Tail(batch[f])
             Rows == Seq([run : Ended, n : 0 .. MaxAttempts])
  <1>1. result[f] # "none" /\ batch[f] # <<>>
    BY DEF Record, FlushInv
  <1>2. /\ 1 \in DOMAIN batch[f] /\ r \in Ended /\ n \in 0 .. MaxAttempts /\ InBatch(f, r)
        /\ Head(batch[f]) = batch[f][1]
        /\ T \in Rows /\ Len(T) <= BatchLimit
        /\ \A i \in DOMAIN T : i + 1 \in DOMAIN batch[f] /\ i + 1 # 1 /\ T[i] = batch[f][i + 1]
    BY <1>1, AtHead
  <1>3. UNCHANGED <<queue, ending, relayStarts, tried, copies, contested>>
    BY DEF Record
  <1>4. \/ result[f] = "ok" /\ ann' = [ann EXCEPT ![r] = "sent"] /\ UNCHANGED <<attempts, backoff>>
        \/ /\ result[f] = "error"
           /\ attempts' = [attempts EXCEPT ![r] = n + 1]
           /\ ann' = [ann EXCEPT ![r] = IF n + 1 >= MaxAttempts THEN "failed" ELSE "retry"]
           /\ backoff' \subseteq backoff \cup {r}
    BY <1>1, <1>2 DEF Record, GivesUp, AnnounceTypeOK
  <1>5. /\ result' \in [Flusher -> {"none", "ok", "error"}]
        /\ \A g \in Flusher : result'[g] = IF g = f THEN "none" ELSE result[g]
    BY DEF Record, AnnounceTypeOK
  <1>6. /\ batch' \in [Flusher -> Rows]
        /\ \A g \in Flusher : batch'[g] = IF g = f THEN T ELSE batch[g]
    <2>1. batch \in [Flusher -> Rows] /\ T \in Rows
      BY <1>2 DEF AnnounceTypeOK
    <2>2. batch' = [batch EXCEPT ![f] = T]
      BY DEF Record
    <2> HIDE DEF Rows, T
    <2> QED
      BY <2>1, <2>2
  <1>7. /\ ann[r] # "none" /\ n < MaxAttempts
        /\ \A i \in DOMAIN T : T[i].run # r
    BY <1>2 DEF FlushInv
  <1>8. (result[f] = "ok" => copies[r] > 0) /\ (result[f] = "error" => n < tried[r])
    BY DEF FlushInv
  <1>9. tried \in [Ended -> 0 .. MaxAttempts] /\ copies \in [Ended -> 0 .. 2]
        /\ attempts \in [Ended -> 0 .. MaxAttempts]
    BY DEF HistoryTypeOK, AnnounceTypeOK
  <1>10. \A x \in Ended : \A g \in Flusher : InBatch(g, x)' => InBatch(g, x) /\ (g = f => x # r)
    <2> SUFFICES ASSUME NEW x \in Ended, NEW g \in Flusher, NEW i \in DOMAIN batch'[g],
                        batch'[g][i].run = x
                 PROVE  InBatch(g, x) /\ (g = f => x # r)
      BY DEF InBatch
    <2>1. CASE g = f
      <3>1. i \in DOMAIN T /\ T[i].run = x
        BY <1>6, <2>1
      <3>2. i + 1 \in DOMAIN batch[f] /\ batch[f][i + 1].run = x
        BY <1>2, <3>1
      <3> QED
        BY <1>7, <2>1, <3>1, <3>2 DEF InBatch
    <2>2. CASE g # f
      BY <1>6, <2>2 DEF InBatch
    <2> QED
      BY <2>1, <2>2
  <1> HIDE DEF r, n, T
  <1>11. /\ ann' \in [Ended -> {"none", "pending", "retry", "sent", "failed"}]
         /\ \A x \in Ended : x # r => ann'[x] = ann[x]
         /\ ann'[r] # "none"
         /\ result[f] = "ok" => ann'[r] = "sent"
         /\ result[f] # "ok" => ann'[r] = IF n + 1 >= MaxAttempts THEN "failed" ELSE "retry"
    <2> DEFINE now == IF n + 1 >= MaxAttempts THEN "failed" ELSE "retry"
    <2>1. ann \in [Ended -> {"none", "pending", "retry", "sent", "failed"}]
      BY DEF AnnounceTypeOK
    <2>2. \/ result[f] = "ok" /\ ann' = [ann EXCEPT ![r] = "sent"]
          \/ result[f] = "error" /\ ann' = [ann EXCEPT ![r] = now]
      BY <1>4
    <2>3. now \in {"failed", "retry"}
      OBVIOUS
    <2> HIDE DEF now
    <2>4. /\ ann' \in [Ended -> {"none", "pending", "retry", "sent", "failed"}]
          /\ \A x \in Ended : x # r => ann'[x] = ann[x]
          /\ ann'[r] # "none"
          /\ result[f] = "ok" => ann'[r] = "sent"
          /\ result[f] # "ok" => ann'[r] = now
      BY <1>2, <2>1, <2>2, <2>3
    <2> QED
      BY <2>4 DEF now
  <1>12. /\ attempts' \in [Ended -> 0 .. MaxAttempts]
         /\ \A x \in Ended : attempts'[x] = IF x = r /\ result[f] # "ok" THEN n + 1 ELSE attempts[x]
    <2>1. n + 1 \in 0 .. MaxAttempts
      BY <1>2, <1>7
    <2>2. \/ result[f] = "ok" /\ attempts' = attempts
          \/ result[f] # "ok" /\ attempts' = [attempts EXCEPT ![r] = n + 1]
      BY <1>4
    <2> QED
      BY <1>2, <1>9, <2>1, <2>2
  <1>13. AnnounceTypeOK'
    <2>1. \A x \in Ended : ann'[x] # "none" <=> \E i \in DOMAIN queue' : queue'[i] = x
      BY <1>3, <1>7, <1>11 DEF AnnounceTypeOK
    <2>2. backoff' \subseteq {x \in Ended : attempts'[x] > 0}
      BY <1>2, <1>4, <1>9, <1>12 DEF AnnounceTypeOK
    <2>3. \A g \in Flusher : Len(batch'[g]) <= BatchLimit
      BY <1>2, <1>6 DEF AnnounceTypeOK
    <2> QED
      BY <1>3, <1>5, <1>6, <1>11, <1>12, <2>1, <2>2, <2>3 DEF AnnounceTypeOK
  <1>14. HistoryTypeOK'
    BY <1>3 DEF HistoryTypeOK
  <1>15. RowInv'
    <2>1. \A x \in Ended : ann'[x] \in {"none", "pending", "retry"} => attempts'[x] < MaxAttempts
      <3>1. \A x \in Ended : ann[x] \in {"none", "pending", "retry"} => attempts[x] < MaxAttempts
        BY DEF RowInv
      <3>2. result[f] # "ok" /\ ann'[r] \in {"none", "pending", "retry"} => n + 1 < MaxAttempts
        BY <1>2, <1>11
      <3>3. result[f] = "ok" => ann'[r] = "sent"
        BY <1>11
      <3>4. \A x \in Ended : x # r => ann'[x] = ann[x]
        BY <1>11
      <3> QED
        BY <1>2, <1>12, <3>1, <3>2, <3>3, <3>4
    <2>2. \A x \in Ended : attempts'[x] <= tried[x]
      <3>1. \A x \in Ended : attempts[x] <= tried[x] /\ tried[x] \in Nat
        BY <1>9 DEF RowInv
      <3>2. result[f] # "ok" => n + 1 <= tried[r]
        BY <1>2, <1>4, <1>8, <1>9
      <3> QED
        BY <1>12, <3>1, <3>2
    <2>3. \A x \in Ended : ending[x] \in {"running", "finished"} => ann'[x] = "none"
      BY <1>7, <1>11 DEF RowInv
    <2>4. \A i, j \in DOMAIN queue : queue[i] = queue[j] => i = j
      BY DEF RowInv
    <2> QED
      BY <1>3, <2>1, <2>2, <2>3, <2>4 DEF RowInv
  <1>16. FlushInv'
    <2>1. \A g \in Flusher : result'[g] # "none" => g # f /\ result'[g] = result[g] /\ batch'[g] = batch[g]
      BY <1>5, <1>6
    <2>2. /\ \A g \in Flusher : result'[g] # "none" => batch'[g] # <<>>
          /\ \A g \in Flusher : result'[g] = "error" => batch'[g][1].n < tried[batch'[g][1].run]
          /\ \A g \in Flusher : result'[g] = "ok" => copies[batch'[g][1].run] > 0
      BY <2>1 DEF FlushInv
    <2>3. \A x : ann[x] # "none" /\ x \in Ended => ann'[x] # "none"
      BY <1>11
    <2>4. \A g \in Flusher : \A i \in DOMAIN batch[g] :
             /\ ann'[batch[g][i].run] # "none"
             /\ batch[g][i].n < MaxAttempts
             /\ batch[g][i].n <= tried[batch[g][i].run]
             /\ \A j \in DOMAIN batch[g] : batch[g][i].run = batch[g][j].run => i = j
      <3> SUFFICES ASSUME NEW g \in Flusher, NEW i \in DOMAIN batch[g]
                   PROVE  ann'[batch[g][i].run] # "none"
        BY DEF FlushInv
      <3>1. batch[g] \in Seq([run : Ended, n : 0 .. MaxAttempts])
        BY DEF AnnounceTypeOK
      <3>2. batch[g][i].run \in Ended
        BY ONLY <3>1, RowsOfBatch
      <3> QED
        BY <2>3, <3>2 DEF FlushInv
    <2>5. ASSUME NEW g \in Flusher, NEW i \in DOMAIN batch'[g]
          PROVE  /\ ann'[batch'[g][i].run] # "none"
                 /\ batch'[g][i].n < MaxAttempts
                 /\ batch'[g][i].n <= tried[batch'[g][i].run]
                 /\ \A j \in DOMAIN batch'[g] : batch'[g][i].run = batch'[g][j].run => i = j
      <3>1. CASE g = f
        <4>1. i \in DOMAIN T /\ batch'[g] = T /\ \A j \in DOMAIN T : j \in Int
          BY <1>2, <1>6, <2>5, <3>1
        <4>2. \A j \in DOMAIN T : j + 1 \in DOMAIN batch[f] /\ T[j] = batch[f][j + 1]
          BY <1>2
        <4>3. i + 1 \in DOMAIN batch[f] /\ T[i] = batch[f][i + 1]
          BY <4>1, <4>2
        <4>4. \A j \in DOMAIN T : T[i].run = T[j].run => i + 1 = j + 1
          BY <2>4, <4>2, <4>3
        <4>5. \A j \in DOMAIN T : T[i].run = T[j].run => i = j
          BY <4>1, <4>4
        <4>6. ann'[T[i].run] # "none" /\ T[i].n < MaxAttempts /\ T[i].n <= tried[T[i].run]
          BY <2>4, <4>3
        <4> QED
          BY <4>1, <4>5, <4>6
      <3>2. CASE g # f
        BY <1>6, <2>4, <2>5, <3>2
      <3> QED
        BY <3>1, <3>2
    <2> QED
      BY <1>3, <2>2, <2>5 DEF FlushInv
  <1>17. OwnInv'
    <2> SUFFICES ASSUME NEW x \in Ended \ contested
                 PROVE  /\ \A g, h \in Flusher : InBatch(g, x)' /\ InBatch(h, x)' => g = h
                        /\ ann'[x] = "sent" => \A g \in Flusher : ~ InBatch(g, x)'
                        /\ copies[x] > 0 => \/ ann'[x] = "sent"
                                            \/ \E g \in Flusher : result'[g] = "ok" /\ batch'[g][1].run = x
                        /\ copies[x] <= 1
      BY <1>3 DEF OwnInv
    <2>1. (\A g, h \in Flusher : InBatch(g, x)' /\ InBatch(h, x)' => g = h) /\ copies[x] <= 1
      BY <1>10 DEF OwnInv
    <2>2. CASE x = r
      <3>1. \A g \in Flusher : ~ InBatch(g, x)'
        BY <1>2, <1>10, <2>2 DEF OwnInv
      <3>2. ann[x] # "sent"
        BY <1>2, <2>2 DEF OwnInv
      <3>3. ASSUME NEW g \in Flusher, result[g] = "ok" /\ batch[g][1].run = r
            PROVE  result[f] = "ok"
        <4>1. batch[g] # <<>>
          BY <3>3 DEF FlushInv
        <4>2. InBatch(g, r)
          BY <3>3, <4>1, AtHead
        <4>3. g = f
          BY <1>2, <2>2, <4>2 DEF OwnInv
        <4> QED
          BY <3>3, <4>3
      <3>4. copies[x] > 0 => ann'[x] = "sent"
        BY <1>11, <2>2, <3>2, <3>3 DEF OwnInv
      <3> QED
        BY <2>1, <3>1, <3>4
    <2>3. CASE x # r
      <3>1. ann'[x] = ann[x]
        BY <1>11, <2>3
      <3>2. \A g \in Flusher : result[g] = "ok" /\ batch[g][1].run = x =>
               result'[g] = "ok" /\ batch'[g][1].run = x
        BY <1>5, <1>6, <2>3 DEF r
      <3> QED
        BY <1>10, <2>1, <3>1, <3>2 DEF OwnInv
    <2> QED
      BY <2>2, <2>3
  <1>18. RowsTellTheTruth'
    <2> SUFFICES ASSUME NEW x \in Ended
                 PROVE  (ann'[x] = "sent" => copies[x] > 0) /\ (ann'[x] = "failed" => tried[x] = MaxAttempts)
      BY <1>3 DEF RowsTellTheTruth
    <2>1. CASE x # r
      BY <1>11, <2>1 DEF RowsTellTheTruth
    <2>2. CASE x = r
      <3>1. result[f] # "ok" /\ n + 1 >= MaxAttempts => tried[r] = MaxAttempts
        BY <1>2, <1>4, <1>8, <1>9
      <3> QED
        BY <1>8, <1>11, <2>2, <3>1
    <2> QED
      BY <2>1, <2>2
  <1> QED
    BY <1>13, <1>14, <1>15, <1>16, <1>17, <1>18

\* A restart forgets the batches, and contests the rows not yet recorded.
LEMMA RelayRestartInv == AnnounceInv /\ RelayRestart => AnnounceInv'
  <1> SUFFICES ASSUME AnnounceInv, RelayRestart PROVE AnnounceInv'
    OBVIOUS
  <1> USE DEF AnnounceInv, RelayRestart, announceRows
  <1>1. \A f \in Flusher : batch'[f] = <<>> /\ DOMAIN batch'[f] = {} /\ result'[f] = "none"
    OBVIOUS
  <1>2. AnnounceTypeOK'
    <2>1. <<>> \in Seq([run : Ended, n : 0 .. MaxAttempts]) /\ Len(<<>>) = 0
      OBVIOUS
    <2> QED
      BY <2>1 DEF AnnounceTypeOK
  <1>3. HistoryTypeOK'
    BY DEF HistoryTypeOK
  <1>4. RowInv'
    BY DEF RowInv
  <1>5. FlushInv'
    BY <1>1 DEF FlushInv
  <1>6. OwnInv'
    <2> SUFFICES ASSUME NEW r \in Ended \ contested'
                 PROVE  /\ \A f \in Flusher : ~ InBatch(f, r)'
                        /\ copies[r] > 0 => ann[r] = "sent"
                        /\ copies[r] <= 1
      BY DEF OwnInv
    <2>1. r \in Ended \ contested
      OBVIOUS
    <2>2. ASSUME NEW f \in Flusher, result[f] = "ok", batch[f][1].run = r PROVE FALSE
      <3>1. batch[f] # <<>> /\ Head(batch[f]).run = r
        BY <2>2, AtHead DEF FlushInv
      <3> QED
        BY <2>2, <3>1
    <2> QED
      BY <1>1, <2>1, <2>2 DEF OwnInv, InBatch
  <1>7. RowsTellTheTruth'
    BY DEF RowsTellTheTruth
  <1> QED
    BY <1>2, <1>3, <1>4, <1>5, <1>6, <1>7

\* Every step of the runs, the flushers and the clock keeps the invariant.
LEMMA AnnounceStepInv == AnnounceInv /\ [AnnounceNext]_announceVars => AnnounceInv'
  <1> SUFFICES ASSUME AnnounceInv, [AnnounceNext]_announceVars PROVE AnnounceInv'
    OBVIOUS
  <1> DEFINE EndTypes == {"running", "finished", "flush", "over", "lost"}
  <1>0. ending \in [Ended -> EndTypes]
    BY DEF AnnounceInv, AnnounceTypeOK
  <1>1. ASSUME NEW r \in Ended, RunFinishes(r) PROVE AnnounceInv'
    <2>1. ending' \in [Ended -> EndTypes]
          /\ \A x \in Ended : ending'[x] \in {"running", "finished"} => ending[x] \in {"running", "finished"}
      BY <1>0, <1>1 DEF RunFinishes
    <2> QED
      BY <1>1, <2>1, SameRowsInv DEF RunFinishes, announceRows
  <1>2. ASSUME NEW r \in Ended, Enqueue(r) PROVE AnnounceInv'
    BY <1>2, EnqueueInv
  <1>3. ASSUME NEW r \in Ended, BackoffEnds(r) PROVE AnnounceInv'
    BY <1>0, <1>3, SameRowsInv DEF BackoffEnds
  <1>4. ASSUME NEW f \in Flusher, ListDue(f) PROVE AnnounceInv'
    BY <1>4, ListDueInv
  <1>5. ASSUME NEW f \in Flusher, NothingDue(f) PROVE AnnounceInv'
    <2>1. ending' \in [Ended -> EndTypes]
          /\ \A x \in Ended : ending'[x] \in {"running", "finished"} => ending[x] \in {"running", "finished"}
      BY <1>0, <1>5 DEF NothingDue
    <2> QED
      BY <1>5, <2>1, SameRowsInv DEF NothingDue, announceRows
  <1>6. ASSUME NEW f \in Flusher, Deliver(f) PROVE AnnounceInv'
    BY <1>6, DeliverInv
  <1>7. ASSUME NEW f \in Flusher, Record(f) PROVE AnnounceInv'
    BY <1>7, RecordInv
  <1>8. CASE RelayRestart
    BY <1>8, RelayRestartInv
  <1>9. CASE UNCHANGED announceVars
    BY <1>0, <1>9, SameRowsInv DEF announceVars, announceRows
  <1> QED
    BY <1>1, <1>2, <1>3, <1>4, <1>5, <1>6, <1>7, <1>8, <1>9 DEF AnnounceNext, FlushStep

\* The invariant of the announcements, in every state of every behaviour.
THEOREM AnnounceInvariant == AnnounceSpec => []AnnounceInv
  <1>1. AnnounceInit => AnnounceInv
    BY AnnounceInitInv
  <1>2. AnnounceInv /\ [AnnounceNext]_announceVars => AnnounceInv'
    BY AnnounceStepInv
  <1> QED
    BY <1>1, <1>2, PTL DEF AnnounceSpec

\* Whatever a row says happened to its text, and a text goes out twice only for
\* a reason: two flushers had its row, or a delivery was not recorded.
THEOREM AnnouncementsAreRight == AnnounceSpec => []DeliveriesAreRight
  <1>1. AnnounceInv => DeliveriesAreRight
    <2> SUFFICES ASSUME AnnounceInv PROVE RepeatsHaveCause
      BY DEF AnnounceInv, DeliveriesAreRight
    <2>1. \A r \in Ended \ contested : copies[r] <= 1 /\ copies[r] \in 0 .. 2
      BY DEF AnnounceInv, OwnInv, HistoryTypeOK
    <2> QED
      BY <2>1 DEF RepeatsHaveCause
  <1> QED
    BY <1>1, AnnounceInvariant, PTL

-----------------------------------------------------------------------------
(* Both kinds of background work, side by side.                             *)

HIDE AnnounceAssumption

\* The runs and the tasks stay in their types, whichever of them moves: neither
\* writes what the other has.
THEOREM BackgroundTypes == BackgroundSpec => []BackgroundTypeOK
  <1> DEFINE Inv == SubagentInv /\ SchedInv
  <1>1. BackgroundInit => Inv
    BY SubagentInitially, SchedInitially DEF BackgroundInit
  <1>2. Inv /\ [BackgroundNext]_<<part, subagentVars, allTaskVars>> => Inv'
    <2>1. ASSUME Inv, [SubagentNext]_subagentVars, [SchedNext]_allTaskVars PROVE Inv'
      BY <2>1, SubagentStep, SchedStep
    <2> QED
      BY <2>1 DEF BackgroundNext
  <1>3. Inv => BackgroundTypeOK
    BY DEF BackgroundTypeOK, SubagentInv, SchedInv
  <1> QED
    BY <1>1, <1>2, <1>3, PTL DEF BackgroundSpec

=============================================================================
