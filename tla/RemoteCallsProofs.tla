-------------------------- MODULE RemoteCallsProofs --------------------------
(***************************************************************************)
(* Proofs about what a run calls: an MCP server and the model.             *)
(*                                                                         *)
(* McpServer, for any number of requests, any limits and however long the  *)
(* clock runs.  The breaker has a counter and an instant; the invariant    *)
(* says what they mean in the order in which outcomes were reported: the   *)
(* failures in a row, and the end of the newest cooldown.  The limiter's   *)
(* windows do not overlap, so any minute meets two at most.                *)
(*                                                                         *)
(* ModelReply, for answers of any length and any number of retries.  What  *)
(* is kept of a stream lists, in order and once, what has been said so far *)
(* of its kind: for each call the pieces of its own input, wherever the    *)
(* other calls' came.  So the four ways to build a reply have the same     *)
(* calls and text to put into it.                                          *)
(***************************************************************************)
EXTENDS McpServer, ModelReply, FiniteSetTheorems, SequenceTheorems, WellFoundedInduction, TLAPS

\* The assumptions on the configuration, one by one.
LEMMA Limits ==
  /\ Never \notin Nat
  /\ Cooldown \in Nat /\ Cooldown > 0 /\ MaxPermits \in Nat /\ MaxPermits > 0
  /\ Minute \in Nat /\ Minute > 0
  /\ Threshold \in Nat /\ RateLimit \in Nat /\ MaxRetries \in Nat /\ MaxTime \in Nat
  BY McpAssumption

USE Limits

Event == {"succeeded", "failed", "opened", "lapsed"}
LogOK == log \in Seq([event : Event, time : Nat])

\* The requests with a permit can be counted, and are.
Held == {r \in Request : phase[r] \in Holding}
PermitsInv == IsFiniteSet(Held) /\ permits + Cardinality(Held) = MaxPermits

\* The failures in a row before the i-th outcome.
ResetsBefore(i) == {j \in Events({"succeeded", "opened", "lapsed"}) : j < i}
RowBefore(i) == {j \in Events({"failed"}) : j < i /\ \A k \in ResetsBefore(i) : k < j}
Upto == Len(log) + 1
CountInv == Threshold > 0 => IsFiniteSet(RowBefore(Upto)) /\ failing = Cardinality(RowBefore(Upto))

\* open_until is the end of the newest opening's cooldown, and is cleared no
\* sooner than that.
Newest == Events({"opened", "succeeded"})
OpenInv ==
    /\ Newest = {} \/ Max(Newest) \in Newest
    /\ openUntil # Never => Opening # 0 /\ openUntil = log[Opening].time + Cooldown
    /\ openUntil = Never /\ Opening # 0 => clock >= log[Opening].time + Cooldown

McpInv == McpTypeOK /\ LogOK /\ PermitsInv /\ CountInv /\ OpenInv /\ OpensExactly

\* A server's handle starts with all its permits and a closed circuit.
LEMMA McpInitInv == McpInit => McpInv
  <1> SUFFICES ASSUME McpInit PROVE McpInv
    OBVIOUS
  <1>1. McpTypeOK
    BY DEF McpInit, McpTypeOK, Place
  <1>2. LogOK /\ \A what : Events(what) = {}
    BY DEF McpInit, LogOK, Events
  <1>3. PermitsInv
    <2>1. Held = {}
      BY DEF McpInit, Held, Holding
    <2> QED
      BY <2>1, FS_EmptySet DEF McpInit, PermitsInv
  <1>4. CountInv
    BY <1>2, FS_EmptySet DEF McpInit, CountInv, RowBefore
  <1>5. OpenInv
    BY <1>2 DEF McpInit, OpenInv, Newest, Opening
  <1>6. OpensExactly
    BY <1>2 DEF OpensExactly
  <1> QED
    BY <1>1, <1>2, <1>3, <1>4, <1>5, <1>6 DEF McpInv

\* Outcomes have a time.
LEMMA LogTimes ==
  ASSUME LogOK
  PROVE  \A i \in DOMAIN log : log[i].time \in Nat
  <1> DEFINE Reported == [event : Event, time : Nat]
  <1>1. log \in Seq(Reported)
    BY DEF LogOK
  <1>2. \A e \in Reported : e.time \in Nat
    OBVIOUS
  <1> HIDE DEF Reported
  <1>3. \A i \in DOMAIN log : log[i] \in Reported
    BY <1>1
  <1> QED
    BY <1>2, <1>3

\* The log with one more outcome.
LEMMA Noted ==
  ASSUME LogOK, clock \in Nat, NEW e \in Event, Note(e)
  PROVE  /\ LogOK' /\ Len(log) \in Nat /\ Upto' = Upto + 1 /\ Upto \in Nat
         /\ DOMAIN log = 1 .. Len(log) /\ DOMAIN log' = 1 .. Upto
         /\ log'[Upto] = [event |-> e, time |-> clock]
         /\ \A i \in DOMAIN log : log'[i] = log[i]
  BY DEF LogOK, Note, Upto

\* What is in a row before an outcome that is in the log does not change with
\* later ones; after a failure the row is one longer, after others empty.
LEMMA RowNoted ==
  ASSUME LogOK, clock \in Nat, NEW e \in Event, Note(e)
  PROVE  /\ \A i \in 1 .. Upto : RowBefore(i)' = RowBefore(i)
         /\ RowBefore(Upto)' = IF e = "failed" THEN RowBefore(Upto) \cup {Upto} ELSE {}
         /\ Upto \notin RowBefore(Upto)
  <1>1. /\ Len(log) \in Nat /\ Upto' = Upto + 1 /\ Upto = Len(log) + 1
        /\ DOMAIN log = 1 .. Len(log) /\ DOMAIN log' = 1 .. Upto
        /\ log'[Upto].event = e
        /\ \A i \in DOMAIN log : log'[i] = log[i]
    <2>1. Upto = Len(log) + 1
      BY DEF Upto
    <2>2. /\ Len(log) \in Nat /\ Upto' = Upto + 1
          /\ DOMAIN log = 1 .. Len(log) /\ DOMAIN log' = 1 .. Upto
          /\ log'[Upto] = [event |-> e, time |-> clock]
          /\ \A i \in DOMAIN log : log'[i] = log[i]
      BY Noted
    <2>3. log'[Upto].event = e
      BY <2>2
    <2> QED
      BY <2>1, <2>2, <2>3
  <1>2. \A what : /\ Events(what)' = IF e \in what THEN Events(what) \cup {Upto} ELSE Events(what)
                  /\ Events(what) \subseteq 1 .. Len(log)
    BY <1>1 DEF Events
  <1>3. \A i \in 1 .. Upto : ResetsBefore(i)' = ResetsBefore(i)
    BY <1>1, <1>2 DEF ResetsBefore
  <1>4. \A i \in 1 .. Upto : RowBefore(i)' = RowBefore(i)
    BY <1>1, <1>2, <1>3 DEF RowBefore
  <1>5. CASE e = "failed"
    <2>1. ResetsBefore(Upto)' = ResetsBefore(Upto)
      BY <1>1, <1>2, <1>5 DEF ResetsBefore
    <2>2. \A k \in ResetsBefore(Upto) : k < Upto
      BY DEF ResetsBefore
    <2>3. RowBefore(Upto)' = {j \in Events({"failed"})' : j < Upto' /\ \A k \in ResetsBefore(Upto)' : k < j}
      BY DEF RowBefore
    <2>4. RowBefore(Upto)' = RowBefore(Upto) \cup {Upto}
      BY <1>1, <1>2, <1>5, <2>1, <2>2, <2>3 DEF RowBefore
    <2> QED
      BY <1>1, <1>4, <1>5, <2>4 DEF RowBefore
  <1>6. CASE e # "failed"
    <2>1. Upto \in ResetsBefore(Upto)'
      BY <1>1, <1>2, <1>6 DEF ResetsBefore, Event
    <2>2. RowBefore(Upto)' = {j \in Events({"failed"})' : j < Upto' /\ \A k \in ResetsBefore(Upto)' : k < j}
      BY DEF RowBefore
    <2>3. RowBefore(Upto)' = {}
      BY <1>1, <1>2, <1>6, <2>1, <2>2
    <2> QED
      BY <1>1, <1>4, <1>6, <2>3 DEF RowBefore
  <1> QED
    BY <1>5, <1>6

\* Max is the bound that a set contains (the last reset or failure before an event).
LEMMA MaxIs ==
  ASSUME NEW S \in SUBSET Nat, NEW n \in S, \A m \in S : m <= n
  PROVE  Max(S) = n
  <1>1. \A m \in S : n >= m
    OBVIOUS
  <1>2. \A x \in S : (\A m \in S : x >= m) => x = n
    OBVIOUS
  <1> QED
    BY <1>1, <1>2 DEF Max

\* The newest opening, after one more outcome.
LEMMA OpeningNoted ==
  ASSUME LogOK, clock \in Nat, Newest = {} \/ Max(Newest) \in Newest, NEW e \in Event, Note(e)
  PROVE  /\ Newest' = {} \/ Max(Newest') \in Newest'
         /\ e = "opened" => Opening' = Upto /\ Opening' # 0 /\ log'[Opening'].time = clock
         /\ e = "succeeded" => Opening' = 0
         /\ e \in {"failed", "lapsed"} =>
               Opening' = Opening /\ (Opening # 0 => log'[Opening] = log[Opening])
  <1>1. /\ Len(log) \in Nat /\ Upto = Len(log) + 1
        /\ DOMAIN log = 1 .. Len(log) /\ DOMAIN log' = 1 .. Upto
        /\ log'[Upto] = [event |-> e, time |-> clock]
        /\ \A i \in DOMAIN log : log'[i] = log[i]
    BY Noted DEF Upto
  <1>2. /\ Newest' = IF e \in {"opened", "succeeded"} THEN Newest \cup {Upto} ELSE Newest
        /\ Newest \subseteq 1 .. Len(log)
    BY <1>1 DEF Newest, Events
  <1>3. CASE e \in {"opened", "succeeded"}
    <2>1. Max(Newest') = Upto /\ Upto \in Newest'
      BY <1>1, <1>2, <1>3, MaxIs
    <2>2. Opening' = IF e = "opened" THEN Upto ELSE 0
      BY <1>1, <2>1 DEF Opening, Newest
    <2> QED
      BY <1>1, <1>3, <2>1, <2>2
  <1>4. CASE e \in {"failed", "lapsed"}
    <2>1. Newest' = Newest
      BY <1>2, <1>4
    <2>2. Newest # {} => log'[Max(Newest)] = log[Max(Newest)]
      BY <1>1, <1>2
    <2>3. Opening' = Opening /\ (Opening # 0 => log'[Opening] = log[Opening])
      BY <2>1, <2>2 DEF Opening, Newest
    <2> QED
      BY <1>4, <2>1, <2>3
  <1> QED
    BY <1>3, <1>4 DEF Event

\* Whoever reports a failure, an opening or anything else: the count of the
\* breaker and what is said of the log go on together.
LEMMA CountNoted ==
  ASSUME LogOK, clock \in Nat, CountInv, OpensExactly, NEW e \in Event, Note(e),
         e = "opened" <=> e \in {"opened", "failed"} /\ Threshold > 0 /\ failing + 1 >= Threshold,
         Threshold > 0 => failing' = IF e = "failed" THEN failing + 1 ELSE 0
  PROVE  CountInv' /\ OpensExactly'
  <1>1. /\ \A i \in 1 .. Upto : RowBefore(i)' = RowBefore(i)
        /\ RowBefore(Upto)' = IF e = "failed" THEN RowBefore(Upto) \cup {Upto} ELSE {}
        /\ Upto \notin RowBefore(Upto)
    BY RowNoted
  <1>2. /\ Len(log) \in Nat /\ Upto' = Upto + 1 /\ Upto \in Nat
        /\ DOMAIN log = 1 .. Len(log) /\ DOMAIN log' = 1 .. Upto
        /\ log'[Upto] = [event |-> e, time |-> clock]
        /\ \A i \in DOMAIN log : log'[i] = log[i]
    BY Noted
  <1>3. Upto = Len(log) + 1
    BY DEF Upto
  <1>4. CountInv'
    <2> SUFFICES ASSUME Threshold > 0
                 PROVE  IsFiniteSet(RowBefore(Upto)') /\ failing' = Cardinality(RowBefore(Upto)')
      BY DEF CountInv
    <2>1. IsFiniteSet(RowBefore(Upto)) /\ failing = Cardinality(RowBefore(Upto))
      BY DEF CountInv
    <2>2. /\ IsFiniteSet(RowBefore(Upto) \cup {Upto})
          /\ Cardinality(RowBefore(Upto) \cup {Upto}) = failing + 1
      BY <1>1, <2>1, FS_AddElement
    <2> QED
      BY <1>1, <2>2, FS_EmptySet
  <1>5. OpensExactly'
    <2> SUFFICES ASSUME NEW i \in Events({"failed", "opened"})'
                 PROVE  log'[i].event = "opened" <=>
                           Threshold > 0 /\ Cardinality(RowBefore(i)') + 1 >= Threshold
      BY DEF OpensExactly, RowBefore, ResetsBefore
    <2>1. i \in 1 .. Upto /\ log'[i].event \in {"failed", "opened"}
      BY <1>2 DEF Events
    <2>2. CASE i = Upto
      <3>1. log'[i].event = e
        BY <1>2, <2>2
      <3>2. RowBefore(i)' = RowBefore(Upto)
        BY <1>1, <2>1, <2>2
      <3>3. e = "opened" <=> Threshold > 0 /\ failing + 1 >= Threshold
        BY <2>1, <3>1
      <3> QED
        BY <3>1, <3>2, <3>3 DEF CountInv
    <2>3. CASE i # Upto
      <3>1. i \in DOMAIN log /\ log'[i] = log[i]
        BY <1>2, <1>3, <2>1, <2>3
      <3>2. i \in Events({"failed", "opened"})
        BY <2>1, <3>1 DEF Events
      <3>3. log[i].event = "opened" <=> Threshold > 0 /\ Cardinality(RowBefore(i)) + 1 >= Threshold
        BY <3>2 DEF OpensExactly, RowBefore, ResetsBefore
      <3> QED
        BY <1>1, <2>1, <3>1, <3>3
    <2> QED
      BY <2>2, <2>3
  <1> QED
    BY <1>4, <1>5

\* The breaker is the same when neither it nor its log has changed.
LEMMA BreakerStands ==
  ASSUME CountInv, OpenInv, OpensExactly, LogOK, UNCHANGED <<failing, openUntil, log>>,
         McpTypeOK, clock' \in Nat, clock' >= clock
  PROVE  CountInv' /\ OpenInv' /\ OpensExactly' /\ LogOK'
  <1>1. \A what : Events(what)' = Events(what)
    BY DEF Events
  <1>2. \A i : RowBefore(i)' = RowBefore(i)
    BY <1>1 DEF RowBefore, ResetsBefore
  <1>3. Upto' = Upto
    BY DEF Upto
  <1>4. RowBefore(Upto)' = RowBefore(Upto)
    BY <1>1, <1>3 DEF RowBefore, ResetsBefore
  <1>5. CountInv'
    BY <1>4 DEF CountInv
  <1>6. Newest' = Newest /\ Opening' = Opening
    BY <1>1 DEF Newest, Opening
  <1>7. Opening # 0 => Opening \in DOMAIN log
    BY DEF OpenInv, Opening, Newest, Events
  <1>8. Opening # 0 => log[Opening].time \in Nat /\ log'[Opening'] = log[Opening]
    <2>1. log' = log
      OBVIOUS
    <2> QED
      BY <1>6, <1>7, <2>1, LogTimes
  <1>9. OpenInv'
    BY <1>6, <1>8 DEF OpenInv, McpTypeOK
  <1>10. OpensExactly' /\ LogOK'
    BY <1>1 DEF OpensExactly, LogOK
  <1> QED
    BY <1>5, <1>9, <1>10

\* The types of call_tool's state, whichever step is taken.
LEMMA McpTypeStep ==
  ASSUME McpInv, [McpNext]_mcpVars
  PROVE  McpTypeOK'
  <1>0. /\ {"queueing", "checking", "calling", "reporting", "done"} \subseteq Place
        /\ {"rate-limited", "busy", "circuit open"} \subseteq Refusal
    BY DEF Place, Refusal
  <1>a. McpTypeOK
    BY DEF McpInv
  <1>b. ASSUME NEW r \in Request, phase[r] \in Holding PROVE permits + 1 \in 0 .. MaxPermits
    <2>1. r \in Held
      BY <1>b DEF Held
    <2>2. Cardinality(Held) \in Nat /\ Cardinality(Held) # 0 /\ permits + Cardinality(Held) = MaxPermits
      BY <2>1, FS_EmptySet, FS_CardinalityType DEF McpInv, PermitsInv
    <2>3. permits \in Nat
      BY <1>a DEF McpTypeOK
    <2> QED
      BY <2>2, <2>3
  <1>1. CASE UNCHANGED mcpVars
    BY <1>a, <1>1 DEF McpTypeOK, mcpVars, rateVars, breakerVars
  <1>2. CASE Tick
    BY <1>a, <1>2 DEF McpTypeOK, Tick, rateVars, breakerVars
  <1>3. ASSUME NEW r \in Request, TakeToken(r) PROVE McpTypeOK'
    <2>1. /\ phase' \in [Request -> Place]
          /\ verdict' \in [Request -> Refusal \cup {"none", "ok", "failed"}]
      BY <1>a, <1>0, <1>3 DEF McpTypeOK, TakeToken, Go, EndCall
    <2>2. windowStart' \in 0 .. clock' /\ used' \in 0 .. RateLimit
      BY <1>a, <1>3 DEF McpTypeOK, TakeToken
    <2> QED
      BY <1>a, <1>3, <2>1, <2>2 DEF McpTypeOK, TakeToken, breakerVars
  <1>4. ASSUME NEW r \in Request, AcquirePermit(r) \/ GiveUpQueueing(r) PROVE McpTypeOK'
    <2>1. /\ phase' \in [Request -> Place]
          /\ verdict' \in [Request -> Refusal \cup {"none", "ok", "failed"}]
      BY <1>a, <1>0, <1>4 DEF McpTypeOK, AcquirePermit, GiveUpQueueing, Go, EndCall
    <2>2. permits' \in 0 .. MaxPermits
      BY <1>a, <1>4 DEF McpTypeOK, AcquirePermit, GiveUpQueueing
    <2> QED
      BY <1>a, <1>4, <2>1, <2>2 DEF McpTypeOK, AcquirePermit, GiveUpQueueing, rateVars, breakerVars
  <1>5. ASSUME NEW r \in Request, CheckBreaker(r) PROVE McpTypeOK'
    <2>1. /\ phase' \in [Request -> Place]
          /\ verdict' \in [Request -> Refusal \cup {"none", "ok", "failed"}]
      BY <1>a, <1>0, <1>5 DEF McpTypeOK, CheckBreaker, Go, EndCall
    <2>2. permits' \in 0 .. MaxPermits
      BY <1>a, <1>b, <1>5 DEF McpTypeOK, CheckBreaker, Holding
    <2>3. /\ failing' \in Nat /\ (Threshold > 0 => failing' < Threshold)
          /\ openUntil' \in (Cooldown .. MaxTime + Cooldown) \cup {Never}
      <3>1. UNCHANGED <<failing, openUntil>> \/ (openUntil' = Never /\ failing' = 0)
        BY <1>5 DEF CheckBreaker, breakerVars
      <3> QED
        BY <1>a, <3>1 DEF McpTypeOK
    <2> QED
      BY <1>a, <1>5, <2>1, <2>2, <2>3 DEF McpTypeOK, CheckBreaker, rateVars
  <1>6. ASSUME NEW r \in Request, AnswerCall(r) PROVE McpTypeOK'
    <2>1. /\ phase' \in [Request -> Place]
          /\ verdict' \in [Request -> Refusal \cup {"none", "ok", "failed"}]
      BY <1>a, <1>0, <1>6 DEF McpTypeOK, AnswerCall, Go
    <2>2. permits' \in 0 .. MaxPermits
      BY <1>a, <1>b, <1>6 DEF McpTypeOK, AnswerCall, Holding
    <2> QED
      BY <1>a, <1>6, <2>1, <2>2 DEF McpTypeOK, AnswerCall, rateVars, breakerVars
  <1>7. ASSUME NEW r \in Request, RetryCall(r) PROVE McpTypeOK'
    <2>1. attempt' \in [Request -> 0 .. MaxRetries]
      BY <1>a, <1>7 DEF McpTypeOK, RetryCall
    <2> QED
      BY <1>a, <1>7, <2>1 DEF McpTypeOK, RetryCall, rateVars, breakerVars
  <1>8. ASSUME NEW r \in Request, RecordSuccess(r) \/ RecordFailure(r) PROVE McpTypeOK'
    <2>1. phase' \in [Request -> Place]
      BY <1>a, <1>0, <1>8 DEF McpTypeOK, RecordSuccess, RecordFailure, Go
    <2>2. /\ failing' \in Nat /\ (Threshold > 0 => failing' < Threshold)
          /\ openUntil' \in (Cooldown .. MaxTime + Cooldown) \cup {Never}
      BY <1>a, <1>8 DEF McpTypeOK, RecordSuccess, RecordFailure
    <2> QED
      BY <1>a, <1>8, <2>1, <2>2 DEF McpTypeOK, RecordSuccess, RecordFailure, rateVars
  <1> QED
    BY <1>1, <1>2, <1>3, <1>4, <1>5, <1>6, <1>7, <1>8 DEF McpNext, RequestStep

\* Permits are taken at the bulkhead and given back where a call leaves it.
LEMMA PermitsStep ==
  ASSUME McpInv, [McpNext]_mcpVars
  PROVE  PermitsInv'
  <1> USE DEF Holding
  <1>0. IsFiniteSet(Held) /\ Cardinality(Held) \in Nat /\ permits + Cardinality(Held) = MaxPermits /\ permits \in Nat
    BY FS_CardinalityType DEF McpInv, PermitsInv, McpTypeOK
  <1>1. ASSUME Held' = Held, permits' = permits PROVE PermitsInv'
    BY <1>0, <1>1 DEF PermitsInv
  <1>2. ASSUME NEW r \in Request, r \notin Held, Held' = Held \cup {r}, permits' = permits - 1 PROVE PermitsInv'
    BY <1>0, <1>2, FS_AddElement DEF PermitsInv
  <1>3. ASSUME NEW r \in Request, r \in Held, Held' = Held \ {r}, permits' = permits + 1 PROVE PermitsInv'
    BY <1>0, <1>3, FS_RemoveElement DEF PermitsInv
  <1>4. phase \in [Request -> Place]
    BY DEF McpInv, McpTypeOK
  <1>5. CASE UNCHANGED mcpVars \/ Tick
    <2>1. phase' = phase /\ permits' = permits
      BY <1>5 DEF mcpVars, Tick
    <2> QED
      BY <1>1, <2>1 DEF Held
  <1>6. ASSUME NEW r \in Request,
               TakeToken(r) \/ GiveUpQueueing(r) \/ RetryCall(r) \/ RecordSuccess(r) \/ RecordFailure(r)
        PROVE  PermitsInv'
    <2>1. Held' = Held /\ permits' = permits
      BY <1>4, <1>6 DEF TakeToken, GiveUpQueueing, RetryCall, RecordSuccess, RecordFailure, Go, EndCall, Held
    <2> QED
      BY <1>1, <2>1
  <1>7. ASSUME NEW r \in Request, AcquirePermit(r) PROVE PermitsInv'
    <2>1. r \notin Held /\ Held' = Held \cup {r} /\ permits' = permits - 1
      BY <1>4, <1>7 DEF AcquirePermit, Go, Held
    <2> QED
      BY <1>2, <2>1
  <1>8. ASSUME NEW r \in Request, AnswerCall(r) PROVE PermitsInv'
    <2>1. r \in Held /\ Held' = Held \ {r} /\ permits' = permits + 1
      BY <1>4, <1>8 DEF AnswerCall, Go, Held
    <2> QED
      BY <1>3, <2>1
  <1>9. ASSUME NEW r \in Request, CheckBreaker(r) PROVE PermitsInv'
    <2>1. \/ Held' = Held /\ permits' = permits
          \/ r \in Held /\ Held' = Held \ {r} /\ permits' = permits + 1
      BY <1>4, <1>9 DEF CheckBreaker, Go, EndCall, Held
    <2> QED
      BY <1>1, <1>3, <2>1
  <1> QED
    BY <1>5, <1>6, <1>7, <1>8, <1>9 DEF McpNext, RequestStep

\* check_ready and the two records are all that touch the breaker.
LEMMA BreakerStep ==
  ASSUME McpInv, [McpNext]_mcpVars
  PROVE  CountInv' /\ OpenInv' /\ OpensExactly' /\ LogOK'
  <1> USE DEF McpInv
  <1>0. clock \in Nat /\ (Threshold > 0 => failing \in Nat) /\ Cooldown \in Nat
    BY DEF McpTypeOK
  <1>1. ASSUME UNCHANGED <<failing, openUntil, log>>, clock' = clock
        PROVE  CountInv' /\ OpenInv' /\ OpensExactly' /\ LogOK'
    BY <1>0, <1>1, BreakerStands
  <1>2. CASE UNCHANGED mcpVars
    BY <1>1, <1>2 DEF mcpVars, breakerVars
  <1>3. CASE Tick
    BY <1>0, <1>3, BreakerStands DEF Tick, breakerVars
  <1>4. ASSUME NEW r \in Request,
               \/ TakeToken(r) \/ AcquirePermit(r) \/ GiveUpQueueing(r) \/ AnswerCall(r) \/ RetryCall(r)
        PROVE  CountInv' /\ OpenInv' /\ OpensExactly' /\ LogOK'
    BY <1>1, <1>4 DEF TakeToken, AcquirePermit, GiveUpQueueing, AnswerCall, RetryCall, breakerVars
  <1>5. ASSUME NEW e \in Event, Note(e), clock' = clock,
               e = "opened" <=> e \in {"opened", "failed"} /\ Threshold > 0 /\ failing + 1 >= Threshold,
               Threshold > 0 => failing' = IF e = "failed" THEN failing + 1 ELSE 0,
               e = "opened" => openUntil' = clock + Cooldown,
               e = "succeeded" => openUntil' = Never,
               e = "lapsed" => openUntil # Never /\ clock >= openUntil /\ openUntil' = Never,
               e = "failed" => openUntil' = openUntil
        PROVE  CountInv' /\ OpenInv' /\ OpensExactly' /\ LogOK'
    <2>1. CountInv' /\ OpensExactly'
      BY <1>0, <1>5, CountNoted
    <2>2. LogOK'
      BY <1>0, <1>5, Noted
    <2>3. /\ Newest' = {} \/ Max(Newest') \in Newest'
          /\ e = "opened" => Opening' = Upto /\ Opening' # 0 /\ log'[Opening'].time = clock
          /\ e = "succeeded" => Opening' = 0
          /\ e \in {"failed", "lapsed"} =>
                Opening' = Opening /\ (Opening # 0 => log'[Opening] = log[Opening])
      BY <1>0, <1>5, OpeningNoted DEF OpenInv
    <2>8. /\ openUntil \in Nat \cup {Never}
          /\ openUntil # Never => Opening # 0 /\ openUntil = log[Opening].time + Cooldown
          /\ openUntil = Never /\ Opening # 0 => clock >= log[Opening].time + Cooldown
          /\ Opening # 0 => log[Opening].time \in Nat
      <3>1. Opening # 0 => Opening \in DOMAIN log
        BY DEF OpenInv, Opening, Newest, Events
      <3>2. Opening # 0 => log[Opening].time \in Nat
        BY <3>1, LogTimes
      <3>3. openUntil \in Nat \cup {Never}
        BY DEF McpTypeOK
      <3> QED
        BY <3>2, <3>3 DEF OpenInv
    <2> DEFINE Meant == /\ openUntil' # Never => Opening' # 0 /\ openUntil' = log'[Opening'].time + Cooldown
                        /\ openUntil' = Never /\ Opening' # 0 => clock' >= log'[Opening'].time + Cooldown
    <2>4. ASSUME e = "opened" PROVE Meant
      <3>1. openUntil' = clock + Cooldown /\ openUntil' # Never
        BY <1>0, <1>5, <2>4
      <3> QED
        BY <2>3, <2>4, <3>1
    <2>5. ASSUME e = "succeeded" PROVE Meant
      <3>1. openUntil' = Never /\ Opening' = 0
        BY <1>5, <2>3, <2>5
      <3> QED
        BY <3>1
    <2>6. ASSUME e = "lapsed" PROVE Meant
      <3>1. /\ openUntil # Never /\ clock >= openUntil /\ openUntil' = Never /\ clock' = clock
            /\ Opening' = Opening /\ (Opening # 0 => log'[Opening] = log[Opening])
        BY <1>5, <2>3, <2>6
      <3> QED
        BY <1>0, <2>8, <3>1
    <2>7. ASSUME e = "failed" PROVE Meant
      <3>1. /\ openUntil' = openUntil /\ clock' = clock
            /\ Opening' = Opening /\ (Opening # 0 => log'[Opening] = log[Opening])
        BY <1>5, <2>3, <2>7
      <3> QED
        BY <2>8, <3>1
    <2>9. Meant
      BY <2>4, <2>5, <2>6, <2>7 DEF Event
    <2>10. OpenInv'
      BY <2>3, <2>9 DEF OpenInv
    <2> QED
      BY <2>1, <2>2, <2>10
  <1>6. ASSUME NEW r \in Request, CheckBreaker(r) PROVE CountInv' /\ OpenInv' /\ OpensExactly' /\ LogOK'
    <2>1. CASE UNCHANGED <<failing, openUntil, log>>
      BY <1>1, <1>6, <2>1 DEF CheckBreaker
    <2>2. CASE /\ openUntil # Never /\ clock >= openUntil
               /\ openUntil' = Never /\ failing' = 0 /\ Note("lapsed") /\ clock' = clock
      BY <1>5, <2>2 DEF Event
    <2> QED
      BY <1>6, <2>1, <2>2 DEF CheckBreaker, breakerVars
  <1>7. ASSUME NEW r \in Request, RecordSuccess(r) PROVE CountInv' /\ OpenInv' /\ OpensExactly' /\ LogOK'
    BY <1>5, <1>7 DEF RecordSuccess, Event
  <1>8. ASSUME NEW r \in Request, RecordFailure(r) PROVE CountInv' /\ OpenInv' /\ OpensExactly' /\ LogOK'
    <2>1. CASE Threshold > 0 /\ failing + 1 >= Threshold
      BY <1>5, <1>8, <2>1 DEF RecordFailure, Event
    <2>2. CASE ~(Threshold > 0 /\ failing + 1 >= Threshold)
      BY <1>5, <1>8, <2>2 DEF RecordFailure, Event
    <2> QED
      BY <2>1, <2>2
  <1> QED
    BY <1>2, <1>3, <1>4, <1>6, <1>7, <1>8 DEF McpNext, RequestStep

\* Every step keeps the invariant of a server's handle.
LEMMA McpStep == McpInv /\ [McpNext]_mcpVars => McpInv'
  BY McpTypeStep, PermitsStep, BreakerStep DEF McpInv

\* What a server's handle keeps is right in every state.
THEOREM McpInvariant == McpSpec => []McpInv
  <1>1. McpInit => McpInv
    BY McpInitInv
  <1> QED
    BY <1>1, McpStep, PTL DEF McpSpec

\* No permit is lost or given back twice (call_tool's early returns).
THEOREM PermitsBalance == McpSpec => []PermitsAccounted
  <1>1. McpInv => PermitsAccounted
    BY DEF McpInv, PermitsInv, PermitsAccounted, Held
  <1> QED
    BY <1>1, McpInvariant, PTL

\* The circuit opens with the threshold-th failure in a row as reported, and
\* with no other.
THEOREM OpensOnTime == McpSpec => []OpensExactly
  <1>1. McpInv => OpensExactly
    BY DEF McpInv
  <1> QED
    BY <1>1, McpInvariant, PTL

\* No call begins within a cooldown, and no call is refused outside one.
THEOREM CooldownHolds == McpSpec => CooldownKept
  <1> DEFINE Kept == \A r \in Request :
                /\ phase[r] = "checking" /\ phase'[r] = "calling" => ~InCooldown
                /\ verdict'[r] = "circuit open" /\ verdict[r] = "none" => InCooldown
  <1>1. McpInv /\ [McpNext]_mcpVars => Kept
    <2> SUFFICES ASSUME McpInv, [McpNext]_mcpVars, NEW r \in Request
                 PROVE  /\ phase[r] = "checking" /\ phase'[r] = "calling" => ~InCooldown
                        /\ verdict'[r] = "circuit open" /\ verdict[r] = "none" => InCooldown
      OBVIOUS
    <2>1. /\ phase \in [Request -> Place] /\ clock \in Nat /\ (Opening # 0 => log[Opening].time \in Nat)
          /\ verdict \in [Request -> Refusal \cup {"none", "ok", "failed"}]
      <3>1. Opening # 0 => Opening \in DOMAIN log
        BY DEF McpInv, OpenInv, Opening, Newest, Events
      <3>2. Opening # 0 => log[Opening].time \in Nat
        BY <3>1, LogTimes DEF McpInv
      <3> QED
        BY <3>2 DEF McpInv, McpTypeOK
    <2>2. ASSUME NEW q \in Request, CheckBreaker(q)
          PROVE  /\ phase[r] = "checking" /\ phase'[r] = "calling" => ~InCooldown
                 /\ verdict'[r] = "circuit open" /\ verdict[r] = "none" => InCooldown
      <3>1. openUntil = Never \/ clock >= openUntil => ~InCooldown
        BY <2>1 DEF McpInv, OpenInv, InCooldown
      <3>2. openUntil # Never /\ clock < openUntil => InCooldown
        BY <2>1 DEF McpInv, OpenInv, InCooldown
      <3> QED
        BY <2>1, <2>2, <3>1, <3>2 DEF CheckBreaker, Go, EndCall
    <2>3. ASSUME NEW q \in Request,
                 \/ TakeToken(q) \/ AcquirePermit(q) \/ GiveUpQueueing(q) \/ AnswerCall(q)
                 \/ RetryCall(q) \/ RecordSuccess(q) \/ RecordFailure(q)
          PROVE  ~(phase[r] = "checking" /\ phase'[r] = "calling") /\ ~(verdict'[r] = "circuit open" /\ verdict[r] = "none")
      BY <2>1, <2>3 DEF TakeToken, AcquirePermit, GiveUpQueueing, AnswerCall, RetryCall, RecordSuccess,
                        RecordFailure, Go, EndCall
    <2>4. CASE UNCHANGED mcpVars \/ Tick
      BY <2>4 DEF mcpVars, Tick
    <2> QED
      BY <2>2, <2>3, <2>4 DEF McpNext, RequestStep
  <1>2. McpSpec => [][Kept]_mcpVars
    BY <1>1, McpInvariant, PTL DEF McpSpec
  <1> QED
    BY <1>2 DEF CooldownKept

-----------------------------------------------------------------------------
(***************************************************************************)
(* The rate limiter: any minute meets two of its windows at most           *)
(***************************************************************************)
\* The admissions, in the order of l, from one time to before another.
Between(l, from, to) == {i \in DOMAIN l : from <= l[i] /\ l[i] < to}
Number(l, from, to) == Cardinality(Between(l, from, to))

\* Admissions end with the window that began at w, it has seen n of them at most,
\* and no minute that ends before it more than a window allows twice.
WindowsOK(l, w, n) ==
    /\ l \in Seq(Nat) /\ w \in Nat /\ n \in 0 .. RateLimit
    /\ \A i \in DOMAIN l : l[i] < w + Minute
    /\ Number(l, w, w + Minute) <= n
    /\ Number(l, w - Minute + 1, w) <= RateLimit
    /\ \A t \in Nat : Number(l, t, t + Minute) <= 2 * RateLimit

RateInv == RateLimit > 0 => WindowsOK(admitted, windowStart, used)

\* Admissions can be counted, and more of them in a longer time.
LEMMA NumberMonotone ==
  ASSUME NEW l \in Seq(Nat), NEW a \in Int, NEW b \in Int, NEW c \in Int, NEW d \in Int,
         \A i \in DOMAIN l : a <= l[i] /\ l[i] < b => c <= l[i] /\ l[i] < d
  PROVE  /\ IsFiniteSet(Between(l, a, b)) /\ Number(l, a, b) \in Nat
         /\ Number(l, a, b) <= Number(l, c, d) /\ Number(l, c, d) \in Nat
  <1>1. DOMAIN l = 1 .. Len(l) /\ IsFiniteSet(1 .. Len(l))
    BY FS_Interval
  <1>2. /\ Between(l, a, b) \in SUBSET (1 .. Len(l)) /\ Between(l, c, d) \in SUBSET (1 .. Len(l))
        /\ Between(l, a, b) \in SUBSET Between(l, c, d)
    BY <1>1 DEF Between
  <1>3. IsFiniteSet(Between(l, c, d))
    BY <1>1, <1>2, FS_Subset
  <1>4. IsFiniteSet(Between(l, a, b)) /\ Cardinality(Between(l, a, b)) <= Cardinality(Between(l, c, d))
    BY <1>2, <1>3, FS_Subset
  <1> QED
    BY <1>3, <1>4, FS_CardinalityType DEF Number

\* A time is two times.
LEMMA NumberSplits ==
  ASSUME NEW l \in Seq(Nat), NEW a \in Int, NEW b \in Int, NEW c \in Int, a <= b, b <= c
  PROVE  Number(l, a, c) <= Number(l, a, b) + Number(l, b, c)
  <1>1. /\ IsFiniteSet(Between(l, a, b)) /\ IsFiniteSet(Between(l, b, c))
        /\ Number(l, a, b) \in Nat /\ Number(l, b, c) \in Nat
    BY NumberMonotone
  <1>2. \A i \in DOMAIN l : l[i] \in Nat
    OBVIOUS
  <1>3. Between(l, a, c) = Between(l, a, b) \cup Between(l, b, c)
    BY <1>2 DEF Between
  <1>4. /\ Cardinality(Between(l, a, b) \cup Between(l, b, c))
             = Cardinality(Between(l, a, b)) + Cardinality(Between(l, b, c))
                 - Cardinality(Between(l, a, b) \cap Between(l, b, c))
        /\ IsFiniteSet(Between(l, a, b) \cap Between(l, b, c))
    BY <1>1, FS_Union, FS_Intersection
  <1>5. Cardinality(Between(l, a, b) \cap Between(l, b, c)) \in Nat
    BY <1>4, FS_CardinalityType
  <1> QED
    BY <1>1, <1>3, <1>4, <1>5 DEF Number

\* One admission more.
LEMMA NumberAppended ==
  ASSUME NEW l \in Seq(Nat), NEW x \in Nat, NEW a \in Int, NEW b \in Int
  PROVE  Number(Append(l, x), a, b) = Number(l, a, b) + IF a <= x /\ x < b THEN 1 ELSE 0
  <1> DEFINE m == Append(l, x)
             k == Len(l) + 1
  <1>1. /\ DOMAIN m = 1 .. k /\ DOMAIN l = 1 .. Len(l) /\ Len(l) \in Nat /\ m[k] = x
        /\ \A i \in 1 .. Len(l) : m[i] = l[i]
    OBVIOUS
  <1>2. \A i \in 1 .. k : i \in 1 .. Len(l) \/ i = k
    BY <1>1
  <1>3. k \notin 1 .. Len(l) /\ \A i \in 1 .. Len(l) : i \in 1 .. k
    BY <1>1
  <1>4. IsFiniteSet(Between(l, a, b)) /\ Number(l, a, b) \in Nat
    BY NumberMonotone
  <1>5. k \notin Between(l, a, b)
    BY <1>1, <1>3 DEF Between
  <1> HIDE DEF m, k
  <1>6. Between(m, a, b) = IF a <= x /\ x < b THEN Between(l, a, b) \cup {k} ELSE Between(l, a, b)
    <2>1. Between(m, a, b) = {i \in 1 .. k : a <= m[i] /\ m[i] < b}
      BY <1>1 DEF Between
    <2>2. Between(l, a, b) = {i \in 1 .. Len(l) : a <= m[i] /\ m[i] < b}
      BY <1>1 DEF Between
    <2>3. k \in 1 .. k
      BY <1>1 DEF k
    <2> QED
      BY <1>1, <1>2, <1>3, <2>1, <2>2, <2>3
  <1>7. Cardinality(Between(l, a, b) \cup {k}) = Cardinality(Between(l, a, b)) + 1
    BY <1>4, <1>5, FS_AddElement
  <1> QED
    BY <1>4, <1>6, <1>7 DEF Number, m

\* A new window begins after the end of the last one.
LEMMA NextWindow ==
  ASSUME NEW l \in Seq(Nat), NEW w \in Nat, NEW n \in Nat, WindowsOK(l, w, n), NEW c \in Nat, c - w >= Minute
  PROVE  WindowsOK(l, c, 0)
  <1>0. /\ l \in Seq(Nat) /\ w \in Nat /\ n \in Nat /\ n <= RateLimit
        /\ \A i \in DOMAIN l : l[i] < w + Minute
        /\ Number(l, w, w + Minute) <= n
        /\ \A t \in Nat : Number(l, t, t + Minute) <= 2 * RateLimit
    BY DEF WindowsOK
  <1>1. /\ l \in Seq(Nat) /\ w \in Nat /\ n \in Nat /\ n <= RateLimit
        /\ \A i \in DOMAIN l : l[i] \in Nat /\ l[i] < w + Minute
        /\ Number(l, w, w + Minute) <= n
    <2>1. \A i \in DOMAIN l : l[i] \in Nat
      OBVIOUS
    <2> QED
      BY <1>0, <2>1
  <1>2. w + Minute <= c
    BY <1>1
  <1>3. \A i \in DOMAIN l : l[i] < c + Minute
    BY <1>1, <1>2
  <1>4. Number(l, c, c + Minute) <= 0
    <2>1. Between(l, c, c + Minute) = {}
      BY <1>1, <1>2 DEF Between
    <2>2. Number(l, c, c + Minute) = 0
      BY <2>1, FS_EmptySet DEF Number
    <2> QED
      BY <2>2
  <1>5. Number(l, c - Minute + 1, c) <= RateLimit
    <2>1. c - Minute + 1 \in Int /\ w + Minute \in Int /\ c \in Int /\ w \in Int
      BY <1>1
    <2>2. \A i \in DOMAIN l : c - Minute + 1 <= l[i] /\ l[i] < c => w <= l[i] /\ l[i] < w + Minute
      BY <1>1, <1>2
    <2>3. /\ Number(l, c - Minute + 1, c) <= Number(l, w, w + Minute)
          /\ Number(l, w, w + Minute) \in Nat /\ Number(l, c - Minute + 1, c) \in Nat
      BY <1>1, <2>1, <2>2, NumberMonotone
    <2> QED
      BY <1>1, <2>3
  <1> QED
    BY <1>0, <1>3, <1>4, <1>5 DEF WindowsOK

\* One admission more in the window, if it is not full.
LEMMA WindowAdmits ==
  ASSUME NEW l \in Seq(Nat), NEW w \in Nat, NEW n \in Nat, WindowsOK(l, w, n), NEW c \in Nat, w <= c, c < w + Minute, n < RateLimit
  PROVE  WindowsOK(Append(l, c), w, n + 1)
  <1> DEFINE m == Append(l, c)
  <1>0. \A i \in DOMAIN l : l[i] < w + Minute
    BY DEF WindowsOK
  <1>1. /\ l \in Seq(Nat) /\ w \in Nat /\ n \in Nat /\ n + 1 <= RateLimit
        /\ Number(l, w, w + Minute) <= n
        /\ Number(l, w - Minute + 1, w) <= RateLimit
    BY DEF WindowsOK
  <1>2. m \in Seq(Nat) /\ \A i \in DOMAIN m : m[i] \in Nat /\ m[i] < w + Minute
    <2>1. \A i \in DOMAIN l : l[i] \in Nat
      OBVIOUS
    <2>2. /\ m \in Seq(Nat) /\ DOMAIN m = 1 .. Len(l) + 1 /\ DOMAIN l = 1 .. Len(l)
          /\ m[Len(l) + 1] = c /\ Len(l) \in Nat
          /\ \A i \in 1 .. Len(l) : m[i] = l[i]
      OBVIOUS
    <2>3. \A i \in 1 .. Len(l) + 1 : i \in 1 .. Len(l) \/ i = Len(l) + 1
      BY <2>2
    <2> QED
      BY <1>0, <2>1, <2>2, <2>3
  <1>3. \A a, b \in Int : /\ Number(m, a, b) = Number(l, a, b) + IF a <= c /\ c < b THEN 1 ELSE 0
                          /\ Number(l, a, b) \in Nat
    <2> SUFFICES ASSUME NEW a \in Int, NEW b \in Int
                 PROVE  /\ Number(m, a, b) = Number(l, a, b) + IF a <= c /\ c < b THEN 1 ELSE 0
                        /\ Number(l, a, b) \in Nat
      OBVIOUS
    <2>1. Number(m, a, b) = Number(l, a, b) + IF a <= c /\ c < b THEN 1 ELSE 0
      BY NumberAppended
    <2>2. Number(l, a, b) \in Nat
      BY NumberMonotone
    <2> QED
      BY <2>1, <2>2
  <1> HIDE DEF m
  <1>4. Number(m, w, w + Minute) <= n + 1
    <2> DEFINE b == w + Minute
    <2>1. w \in Int /\ b \in Int
      BY <1>1
    <2> HIDE DEF b
    <2>2. Number(m, w, b) = Number(l, w, b) + (IF w <= c /\ c < b THEN 1 ELSE 0) /\ Number(l, w, b) \in Nat
      BY ONLY <1>3, <2>1
    <2> QED
      BY <1>1, <2>2 DEF b
  <1>5. Number(m, w - Minute + 1, w) <= RateLimit
    <2> DEFINE a == w - Minute + 1
    <2>1. w \in Int /\ a \in Int /\ ~ (c < w)
      BY <1>1
    <2> HIDE DEF a
    <2>2. Number(m, a, w) = Number(l, a, w) + IF a <= c /\ c < w THEN 1 ELSE 0
      BY ONLY <1>3, <2>1
    <2>3. Number(m, a, w) = Number(l, a, w)
      BY <1>3, <2>1, <2>2
    <2> QED
      BY <1>1, <2>3 DEF a
  <1>6. ASSUME NEW t \in Nat PROVE Number(m, t, t + Minute) <= 2 * RateLimit
    <2>0. Number(l, t, t + Minute) <= 2 * RateLimit
      BY DEF WindowsOK
    <2>1. CASE t + Minute <= w
      <3>1. Number(m, t, t + Minute) = Number(l, t, t + Minute)
        BY <1>1, <1>3, <2>1
      <3> QED
        BY <2>0, <3>1
    <2>2. CASE t + Minute > w /\ t < w
      <3>1. t \in Int /\ w \in Int /\ t + Minute \in Int /\ w + Minute \in Int /\ w - Minute + 1 \in Int
        BY <1>1
      <3>2. Number(m, t, t + Minute) <= Number(m, t, w) + Number(m, w, t + Minute)
        BY <1>2, <2>2, <3>1, NumberSplits
      <3>3. Number(m, t, w) <= Number(m, w - Minute + 1, w)
        BY <1>1, <1>2, <2>2, <3>1, NumberMonotone
      <3>4. Number(m, w, t + Minute) <= Number(m, w, w + Minute)
        BY <1>1, <1>2, <2>2, <3>1, NumberMonotone
      <3>5. /\ Number(m, t, t + Minute) \in Nat /\ Number(m, t, w) \in Nat /\ Number(m, w, t + Minute) \in Nat
            /\ Number(m, w, w + Minute) \in Nat /\ Number(m, w - Minute + 1, w) \in Nat
        BY <1>2, <3>1, NumberMonotone
      <3> QED
        BY <1>1, <1>4, <1>5, <3>2, <3>3, <3>4, <3>5
    <2>3. CASE t >= w
      <3>1. t \in Int /\ w \in Int /\ t + Minute \in Int /\ w + Minute \in Int
        BY <1>1
      <3>2. /\ Number(m, t, t + Minute) <= Number(m, w, w + Minute)
            /\ Number(m, t, t + Minute) \in Nat /\ Number(m, w, w + Minute) \in Nat
        BY <1>1, <1>2, <2>3, <3>1, NumberMonotone
      <3> QED
        BY <1>1, <1>4, <3>2
    <2> QED
      BY <1>1, <2>1, <2>2, <2>3
  <1>7. n + 1 \in 0 .. RateLimit /\ \A i \in DOMAIN m : m[i] < w + Minute
    BY <1>1, <1>2
  <1>8. WindowsOK(m, w, n + 1)
    BY <1>2, <1>4, <1>5, <1>6, <1>7 DEF WindowsOK
  <1> QED
    BY <1>8 DEF m

\* No request was admitted yet.
LEMMA RateInitInv == McpInit => RateInv
  <1> SUFFICES ASSUME McpInit, RateLimit > 0 PROVE WindowsOK(<<>>, 0, 0)
    BY DEF McpInit, RateInv
  <1>1. \A a, b : Between(<<>>, a, b) = {}
    BY DEF Between
  <1>2. \A a, b : Number(<<>>, a, b) = 0
    BY <1>1, FS_EmptySet DEF Number
  <1> QED
    BY <1>2 DEF WindowsOK

\* consume_or_retry_after_secs is all that touches the limiter.
LEMMA RateStep ==
  ASSUME RateInv, McpTypeOK, [McpNext]_mcpVars
  PROVE  RateInv'
  <1>1. ASSUME UNCHANGED rateVars PROVE RateInv'
    BY <1>1 DEF RateInv, rateVars
  <1>2. ASSUME NEW r \in Request, TakeToken(r) PROVE RateInv'
    <2> SUFFICES ASSUME RateLimit > 0 PROVE WindowsOK(admitted', windowStart', used')
      BY DEF RateInv
    <2> DEFINE over == clock - windowStart >= Minute
               w == IF over THEN clock ELSE windowStart
               n == IF over THEN 0 ELSE used
    <2>1. clock \in Nat /\ windowStart \in Nat /\ windowStart <= clock /\ used \in Nat
      BY DEF McpTypeOK
    <2>2. WindowsOK(admitted, w, n) /\ n \in Nat /\ admitted \in Seq(Nat)
      <3>1. WindowsOK(admitted, windowStart, used) /\ admitted \in Seq(Nat)
        BY DEF RateInv, WindowsOK
      <3> QED
        BY <2>1, <3>1, NextWindow
    <2>3. w \in Nat /\ w <= clock /\ clock < w + Minute
      BY <2>1
    <2>4. /\ windowStart' = w
          /\ \/ n < RateLimit /\ used' = n + 1 /\ admitted' = Append(admitted, clock)
             \/ used' = n /\ admitted' = admitted
      BY <1>2 DEF TakeToken, Admit
    <2> HIDE DEF w, n
    <2> QED
      BY <2>1, <2>2, <2>3, <2>4, WindowAdmits
  <1>3. UNCHANGED mcpVars \/ Tick => UNCHANGED rateVars
    BY DEF mcpVars, Tick, rateVars
  <1>4. ASSUME NEW r \in Request, RequestStep(r), ~TakeToken(r) PROVE UNCHANGED rateVars
    BY <1>4 DEF RequestStep, AcquirePermit, GiveUpQueueing, CheckBreaker, AnswerCall, RetryCall,
                RecordSuccess, RecordFailure
  <1> QED
    BY <1>1, <1>2, <1>3, <1>4 DEF McpNext

\* No minute, wherever it begins, sees more than two windows' admissions, and no
\* permit is lost or given back twice: what limits the traffic to a server holds
\* whichever way calls end and however long the clock runs.
THEOREM TrafficLimited == McpSpec => []LimitsHold
  <1>1. RateInv /\ McpInv => LimitsHold
    <2> SUFFICES ASSUME RateInv, McpInv PROVE LimitsHold
      OBVIOUS
    <2>1. PermitsAccounted
      BY DEF McpInv, PermitsInv, PermitsAccounted, Held
    <2>2. RateBounded
      <3> SUFFICES ASSUME RateLimit > 0, NEW t \in 0 .. clock
                   PROVE  Cardinality(AdmittedIn(t, t + Minute - 1)) <= 2 * RateLimit
        BY DEF RateBounded
      <3>1. t \in Nat /\ t + Minute - 1 \in Nat /\ admitted \in Seq(Nat)
        BY DEF McpInv, McpTypeOK, RateInv, WindowsOK
      <3>2. \A i \in DOMAIN admitted :
               admitted[i] \in t .. t + Minute - 1 <=> t <= admitted[i] /\ admitted[i] < t + Minute
        BY <3>1
      <3>3. AdmittedIn(t, t + Minute - 1) = Between(admitted, t, t + Minute)
        BY <3>2 DEF AdmittedIn, Between
      <3> QED
        BY <3>1, <3>3 DEF RateInv, WindowsOK, Number
    <2> QED
      BY <2>1, <2>2 DEF LimitsHold
  <1>2. RateInv /\ McpInv /\ [McpNext]_mcpVars => RateInv'
    BY RateStep DEF McpInv
  <1> QED
    BY <1>1, <1>2, RateInitInv, McpInvariant, PTL DEF McpSpec

-----------------------------------------------------------------------------
(* Lists of positions.                                                      *)

HIDE Limits

\* A set of numbers that is not empty has a least one.
LEMMA LeastNumber ==
  ASSUME NEW T \in SUBSET Nat, T # {}
  PROVE  \E i \in T : \A j \in T : i <= j
  <1>1. PICK i \in T : \A j \in T : ~ (<<j, i>> \in OpToRel(<, Nat))
    BY NatLessThanWellFounded, WFMin
  <1>2. \A j \in T : ~ (j < i)
    BY <1>1 DEF OpToRel
  <1> QED
    BY <1>2

\* Up to the number i, and with it, a set has as many numbers as are wanted.
LEMMA NthExists ==
  ASSUME NEW n \in Nat, NEW S \in SUBSET (1 .. n), NEW k \in 1 .. Cardinality(S)
  PROVE  \E i \in S : Cardinality({j \in S : j <= i}) = k
  <1> DEFINE R(i) == Cardinality({j \in S : j <= i})
             T == {i \in 0 .. n : R(i) >= k}
  <1>0. \A j \in S : j \in Nat /\ j >= 1 /\ j <= n
    OBVIOUS
  <1>1. IsFiniteSet(S) /\ Cardinality(S) \in Nat
    <2>1. IsFiniteSet(1 .. n)
      BY FS_Interval
    <2> QED
      BY <2>1, FS_Subset, FS_CardinalityType
  <1>2. ASSUME NEW i \in 0 .. n PROVE IsFiniteSet({j \in S : j <= i}) /\ R(i) \in Nat
    BY <1>1, FS_Subset, FS_CardinalityType
  <1>3. R(0) = 0
    <2>0. \A j \in S : ~ (j <= 0)
      BY <1>0
    <2>1. {j \in S : j <= 0} = {}
      BY <2>0, Zenon
    <2> QED
      BY <2>1, FS_EmptySet
  <1>4. R(n) = Cardinality(S)
    <2>1. {j \in S : j <= n} = S
      BY <1>0
    <2> QED
      BY <2>1
  <1>5. ASSUME NEW i \in 1 .. n
        PROVE  R(i) = IF i \in S THEN R(i - 1) + 1 ELSE R(i - 1)
    <2>1. i - 1 \in 0 .. n
      OBVIOUS
    <2>2. CASE i \in S
      <3>1. {j \in S : j <= i} = {j \in S : j <= i - 1} \cup {i}
        <4>1. \A j \in S : j <= i <=> j <= i - 1 \/ j = i
          BY <1>0
        <4> QED
          BY <2>2, <4>1, Zenon
      <3>2. i \notin {j \in S : j <= i - 1}
        OBVIOUS
      <3> QED
        BY <1>2, <2>1, <2>2, <3>1, <3>2, FS_AddElement
    <2>3. CASE i \notin S
      <3>1. {j \in S : j <= i} = {j \in S : j <= i - 1}
        <4>1. \A j \in S : j <= i <=> j <= i - 1
          BY <1>0, <2>3
        <4> QED
          BY <4>1, Zenon
      <3> QED
        BY <2>3, <3>1
    <2> QED
      BY <2>2, <2>3
  <1> HIDE DEF R
  <1>6. T \in SUBSET Nat /\ n \in T
    BY <1>1, <1>4
  <1>7. PICK i \in T : \A j \in T : i <= j
    BY <1>6, LeastNumber
  <1>8. i \in 0 .. n /\ R(i) >= k /\ R(i) \in Nat
    BY <1>2, <1>7
  <1>80. i # 0 /\ i \in 1 .. n
    BY <1>3, <1>8
  <1>81. i - 1 \in 0 .. n
    BY <1>80
  <1>9. i - 1 \in 0 .. n /\ R(i - 1) \in Nat
    BY <1>2, <1>81
  <1>90. i - 1 \notin T
    BY <1>7, <1>80
  <1>10. R(i - 1) < k
    BY <1>9, <1>90
  <1>11. i \in S /\ R(i) = k
    BY <1>5, <1>8, <1>80, <1>9, <1>10
  <1> QED
    BY <1>11 DEF R

\* Intervals from 1 tell their lengths.
LEMMA SameLength ==
  ASSUME NEW k \in Nat, NEW m \in Nat, 1 .. k = 1 .. m
  PROVE  k = m
  <1>1. \A x \in Int : x \in 1 .. k <=> x \in 1 .. m
    OBVIOUS
  <1>2. k \in 1 .. k => k <= m
    BY <1>1
  <1>3. m \in 1 .. m => m <= k
    BY <1>1
  <1> QED
    BY <1>2, <1>3

\* InOrder lists a finite set of numbers in their order.
LEMMA InOrderLists ==
  ASSUME NEW n \in Nat, NEW S \in SUBSET (1 .. n)
  PROVE  /\ IsFiniteSet(S) /\ Cardinality(S) \in Nat
         /\ InOrder(S) \in Seq(S) /\ Len(InOrder(S)) = Cardinality(S)
         /\ DOMAIN InOrder(S) = 1 .. Cardinality(S)
         /\ \A k \in S : \E i \in DOMAIN InOrder(S) : InOrder(S)[i] = k
         /\ \A i, j \in DOMAIN InOrder(S) : i < j => InOrder(S)[i] < InOrder(S)[j]
  <1> DEFINE R(k) == Cardinality({j \in S : j <= k})
             c == Cardinality(S)
             q == InOrder(S)
  <1>1. IsFiniteSet(S) /\ c \in Nat
    <2>1. IsFiniteSet(1 .. n)
      BY FS_Interval
    <2> QED
      BY <2>1, FS_Subset, FS_CardinalityType
  <1>2. \A k : IsFiniteSet({j \in S : j <= k}) /\ R(k) \in Nat /\ R(k) <= c
    BY <1>1, FS_Subset, FS_CardinalityType
  <1>3. \A k \in S : k \in Nat
    OBVIOUS
  <1>4. \A i, j \in S : i < j => R(i) < R(j)
    <2> SUFFICES ASSUME NEW i \in S, NEW j \in S, i < j PROVE R(i) < R(j)
      OBVIOUS
    <2>0. \A x \in S : x <= i => x <= j
      BY <1>3
    <2>1. {x \in S : x <= i} \subseteq {x \in S : x <= j}
      BY <2>0, Zenon
    <2>2. j \in {x \in S : x <= j} /\ j \notin {x \in S : x <= i}
      BY <1>3
    <2>3. {x \in S : x <= i} # {x \in S : x <= j}
      BY <2>2
    <2>4. R(i) <= R(j) /\ R(i) # R(j)
      BY <1>2, <2>1, <2>3, FS_Subset
    <2> QED
      BY <1>2, <2>4
  <1>40. \A i \in S : i \in Int /\ R(i) \in Int
    BY <1>2, <1>3
  <1> HIDE DEF R
  <1>41. \A i, j \in S : R(i) = R(j) => i = j
    <2> SUFFICES ASSUME NEW i \in S, NEW j \in S, R(i) = R(j) PROVE i = j
      OBVIOUS
    <2>1. ~(R(i) < R(j)) /\ ~(R(j) < R(i))
      BY <1>40
    <2>2. ~(i < j) /\ ~(j < i)
      BY <1>4, <2>1
    <2> QED
      BY <1>40, <2>2
  <1>42. \A i, j \in S : R(i) < R(j) => i < j
    <2> SUFFICES ASSUME NEW i \in S, NEW j \in S, R(i) < R(j) PROVE i < j
      OBVIOUS
    <2>1. ~(R(j) < R(i)) /\ i # j
      BY <1>40
    <2>2. ~(j < i)
      BY <1>4, <2>1
    <2> QED
      BY <1>40, <2>1, <2>2
  <1> USE DEF R
  <1>5. q = [i \in 1 .. c |-> CHOOSE k \in S : R(k) = i]
    BY DEF InOrder
  <1>6. \A i \in 1 .. c : q[i] \in S /\ R(q[i]) = i
    <2> SUFFICES ASSUME NEW i \in 1 .. c PROVE q[i] \in S /\ R(q[i]) = i
      OBVIOUS
    <2>1. \E k \in S : R(k) = i
      BY ONLY NthExists, n \in Nat, S \in SUBSET (1 .. n), i \in 1 .. c
    <2>2. q[i] = CHOOSE k \in S : R(k) = i
      BY <1>5
    <2> QED
      BY <2>1, <2>2
  <1>7. \A k \in S : R(k) \in 1 .. c
    <2> SUFFICES ASSUME NEW k \in S PROVE R(k) \in 1 .. c
      OBVIOUS
    <2>1. k \in {j \in S : j <= k}
      BY <1>3
    <2>2. R(k) # 0
      BY <1>2, <2>1, FS_EmptySet
    <2> QED
      BY <1>1, <1>2, <2>2
  <1> HIDE DEF R
  <1>8. DOMAIN q = 1 .. c
    BY <1>5
  <1>9. q \in [1 .. c -> S]
    BY <1>5, <1>6
  <1> HIDE DEF c, q
  <1>10. q \in Seq(S) /\ Len(q) = c
    <2>1. q \in Seq(S)
      BY <1>1, <1>9, SeqDef
    <2>2. DOMAIN q = 1 .. Len(q) /\ Len(q) \in Nat
      BY <2>1, LenProperties
    <2> QED
      BY <1>1, <1>8, <2>1, <2>2, SameLength
  <1>11. \A k \in S : \E i \in DOMAIN q : q[i] = k
    <2> SUFFICES ASSUME NEW k \in S PROVE q[R(k)] = k
      BY <1>7, <1>8
    <2>1. q[R(k)] \in S /\ R(q[R(k)]) = R(k)
      BY <1>6, <1>7
    <2> QED
      BY <1>41, <2>1
  <1>12. \A i, j \in DOMAIN q : i < j => q[i] < q[j]
    <2> SUFFICES ASSUME NEW i \in 1 .. c, NEW j \in 1 .. c, i < j PROVE q[i] < q[j]
      BY <1>8
    <2>1. q[i] \in S /\ q[j] \in S /\ R(q[i]) = i /\ R(q[j]) = j
      BY <1>6
    <2> QED
      BY <1>42, <2>1
  <1> QED
    BY <1>1, <1>8, <1>10, <1>11, <1>12 DEF c, q


\* A list that goes on with something greater.
LEMMA ListsAppend ==
  ASSUME NEW seq \in Seq(Nat), NEW S, Lists(seq, S), NEW x \in Nat, \A y \in S : y < x
  PROVE  Append(seq, x) \in Seq(Nat) /\ Lists(Append(seq, x), S \cup {x})
  <1> DEFINE next == Append(seq, x)
             n == Len(seq)
  <1>1. /\ n \in Nat /\ DOMAIN seq = 1 .. n /\ next \in Seq(Nat) /\ DOMAIN next = 1 .. n + 1
        /\ next[n + 1] = x /\ \A k \in 1 .. n : next[k] = seq[k] /\ seq[k] \in Nat
    BY AppendProperties, LenProperties, ElementOfSeq
  <1>2. /\ \A j, k \in 1 .. n : j < k => seq[j] < seq[k]
        /\ \A k \in 1 .. n : seq[k] \in S
        /\ \A y \in S : \E k \in 1 .. n : seq[k] = y
    BY <1>1 DEF Lists, Range
  <1> HIDE DEF next, n
  <1>3. ASSUME NEW j \in 1 .. n + 1, NEW k \in 1 .. n + 1, j < k PROVE next[j] < next[k]
    <2>1. j \in 1 .. n /\ next[j] = seq[j] /\ seq[j] \in S
      BY <1>1, <1>2, <1>3
    <2>2. CASE k \in 1 .. n
      BY <1>1, <1>2, <1>3, <2>1, <2>2
    <2>3. CASE k = n + 1
      BY <1>1, <2>1, <2>3
    <2> QED
      BY <1>1, <2>2, <2>3
  <1>4. \A k \in 1 .. n + 1 : next[k] \in S \cup {x}
    <2>1. \A k \in 1 .. n + 1 : k \in 1 .. n \/ k = n + 1
      BY <1>1
    <2> QED
      BY <1>1, <1>2, <2>1
  <1>5. \A y \in S \cup {x} : \E k \in 1 .. n + 1 : next[k] = y
    <2>1. n + 1 \in 1 .. n + 1 /\ \A k \in 1 .. n : k \in 1 .. n + 1
      BY <1>1
    <2> QED
      BY <1>1, <1>2, <2>1
  <1>6. Range(next) = S \cup {x}
    BY <1>1, <1>4, <1>5, Zenon DEF Range
  <1> QED
    BY <1>1, <1>3, <1>6 DEF next, Lists

\* Nothing is listed by nothing.
LEMMA ListsNothing == <<>> \in Seq(Nat) /\ Lists(<<>>, {})
  <1>1. <<>> \in Seq(Nat) /\ DOMAIN <<>> = {}
    BY EmptySeq
  <1> QED
    BY <1>1 DEF Lists, Range

\* What a list is, place by place.
LEMMA ListsIs ==
  ASSUME NEW seq \in Seq(Nat), NEW S, Lists(seq, S)
  PROVE  /\ DOMAIN seq = 1 .. Len(seq) /\ Len(seq) \in Nat
         /\ \A k \in 1 .. Len(seq) : seq[k] \in S /\ seq[k] \in Nat
         /\ \A i \in S : i \in Nat /\ \E k \in 1 .. Len(seq) : seq[k] = i
         /\ \A j, k \in 1 .. Len(seq) : j < k <=> seq[j] < seq[k]
         /\ \A j, k \in 1 .. Len(seq) : j # k => seq[j] # seq[k]
         /\ S = {} <=> seq = <<>>
  <1> DEFINE n == Len(seq)
  <1>1. n \in Nat /\ DOMAIN seq = 1 .. n /\ \A k \in 1 .. n : seq[k] \in Nat
    BY LenProperties, ElementOfSeq
  <1>2. /\ \A j, k \in 1 .. n : j < k => seq[j] < seq[k]
        /\ \A k \in 1 .. n : seq[k] \in S
        /\ \A y \in S : \E k \in 1 .. n : seq[k] = y
    BY <1>1 DEF Lists, Range
  <1>3. seq = <<>> <=> n = 0
    BY EmptySeq
  <1> HIDE DEF n
  <1>4. \A j, k \in 1 .. n : j # k => seq[j] # seq[k]
    <2> SUFFICES ASSUME NEW j \in 1 .. n, NEW k \in 1 .. n, j # k PROVE seq[j] # seq[k]
      OBVIOUS
    <2>1. j < k \/ k < j
      BY <1>1
    <2> QED
      BY <1>1, <1>2, <2>1
  <1>5. \A j, k \in 1 .. n : seq[j] < seq[k] => j < k
    <2> SUFFICES ASSUME NEW j \in 1 .. n, NEW k \in 1 .. n, seq[j] < seq[k], ~(j < k) PROVE FALSE
      OBVIOUS
    <2>1. j = k \/ k < j
      BY <1>1
    <2>2. seq[j] \in Nat /\ seq[k] \in Nat
      BY <1>1
    <2> QED
      BY <1>2, <2>1, <2>2
  <1>6. S = {} <=> seq = <<>>
    <2>1. n = 0 \/ 1 \in 1 .. n
      BY <1>1
    <2>2. n = 0 => 1 .. n = {}
      OBVIOUS
    <2> QED
      BY <1>2, <1>3, <2>1, <2>2
  <1> QED
    BY <1>1, <1>2, <1>4, <1>5, <1>6 DEF n

\* A list is as long as the set is large, and a place in it is how many come before.
LEMMA ListsSize ==
  ASSUME NEW seq \in Seq(Nat), NEW S, Lists(seq, S)
  PROVE  /\ IsFiniteSet(S) /\ Cardinality(S) = Len(seq)
         /\ \A k \in 1 .. Len(seq) : Cardinality({i \in S : i < seq[k]}) = k - 1
  <1> DEFINE n == Len(seq)
  <1>1. /\ DOMAIN seq = 1 .. n /\ n \in Nat
        /\ \A k \in 1 .. n : seq[k] \in S /\ seq[k] \in Nat
        /\ \A i \in S : i \in Nat /\ \E k \in 1 .. n : seq[k] = i
        /\ \A j, k \in 1 .. n : j < k <=> seq[j] < seq[k]
        /\ \A j, k \in 1 .. n : j # k => seq[j] # seq[k]
    BY ListsIs
  <1> HIDE DEF n
  <1>2. ASSUME NEW m \in 0 .. n, NEW T, \A k \in 1 .. m : seq[k] \in T,
               \A i \in T : \E k \in 1 .. m : seq[k] = i
        PROVE  IsFiniteSet(T) /\ Cardinality(T) = m
    <2> DEFINE f == [k \in 1 .. m |-> seq[k]]
    <2>1. IsFiniteSet(1 .. m) /\ Cardinality(1 .. m) = m
      BY <1>1, FS_Interval
    <2>2. 1 .. m \subseteq 1 .. n
      BY <1>1
    <2>3. \A k \in 1 .. m : f[k] = seq[k]
      OBVIOUS
    <2>4. f \in [1 .. m -> T]
      BY <1>2
    <2> HIDE DEF f
    <2>5. \A a, b \in 1 .. m : f[a] = f[b] => a = b
      BY <1>1, <2>2, <2>3
    <2>6. \A i \in T : \E k \in 1 .. m : f[k] = i
      BY <1>2, <2>3
    <2>7. f \in Bijection(1 .. m, T)
      BY <2>4, <2>5, <2>6 DEF Bijection, Injection, Surjection, IsInjective
    <2>8. ExistsBijection(1 .. m, T)
      BY <2>7 DEF ExistsBijection
    <2> QED
      BY <2>1, <2>8, FS_Bijection
  <1>3. IsFiniteSet(S) /\ Cardinality(S) = n
    <2>1. n \in 0 .. n
      BY <1>1
    <2> QED
      BY <1>1, <1>2, <2>1
  <1>4. ASSUME NEW k \in 1 .. n PROVE Cardinality({i \in S : i < seq[k]}) = k - 1
    <2> DEFINE T == {i \in S : i < seq[k]}
    <2>1. k - 1 \in 0 .. n /\ \A j \in 1 .. k - 1 : j \in 1 .. n /\ j < k
      BY <1>1
    <2>2. \A j \in 1 .. k - 1 : seq[j] \in T
      BY <1>1, <2>1
    <2>3. \A i \in T : \E j \in 1 .. k - 1 : seq[j] = i
      <3> SUFFICES ASSUME NEW i \in T PROVE \E j \in 1 .. k - 1 : seq[j] = i
        OBVIOUS
      <3>1. PICK j \in 1 .. n : seq[j] = i
        BY <1>1
      <3>2. j < k
        BY <1>1, <3>1
      <3>3. j \in 1 .. k - 1
        BY <1>1, <3>2
      <3> QED
        BY <3>1, <3>3
    <2> HIDE DEF T
    <2>4. Cardinality(T) = k - 1
      BY <1>2, <2>1, <2>2, <2>3
    <2> QED
      BY <2>4 DEF T
  <1> QED
    BY <1>3, <1>4 DEF n

\* InOrder lists.
LEMMA InOrderIs ==
  ASSUME NEW n \in Nat, NEW S \in SUBSET (1 .. n)
  PROVE  /\ InOrder(S) \in Seq(Nat) /\ Lists(InOrder(S), S) /\ InOrder(S) \in Seq(S)
         /\ IsFiniteSet(S) /\ Len(InOrder(S)) = Cardinality(S) /\ Cardinality(S) \in Nat
  <1>1. /\ IsFiniteSet(S) /\ Cardinality(S) \in Nat
        /\ InOrder(S) \in Seq(S) /\ Len(InOrder(S)) = Cardinality(S)
        /\ \A k \in S : \E i \in DOMAIN InOrder(S) : InOrder(S)[i] = k
        /\ \A i, j \in DOMAIN InOrder(S) : i < j => InOrder(S)[i] < InOrder(S)[j]
    BY InOrderLists
  <1>2. S \subseteq Nat
    OBVIOUS
  <1>3. InOrder(S) \in Seq(Nat)
    <2> DEFINE q == InOrder(S)
    <2>1. q \in Seq(S)
      BY <1>1
    <2> HIDE DEF q
    <2>2. Len(q) \in Nat /\ q \in [1 .. Len(q) -> S]
      BY <2>1, LenProperties
    <2>3. q \in [1 .. Len(q) -> Nat]
      BY <1>2, <2>2
    <2>4. q \in Seq(Nat)
      BY <2>2, <2>3, SeqDef
    <2> QED
      BY <2>4 DEF q
  <1>4. \A i \in DOMAIN InOrder(S) : InOrder(S)[i] \in S
    BY <1>1, LenProperties, ElementOfSeq
  <1>5. Range(InOrder(S)) = S
    BY <1>1, <1>4, Zenon DEF Range
  <1> QED
    BY <1>1, <1>3, <1>5 DEF Lists

-----------------------------------------------------------------------------
(* ModelReply: the invariant.                                                *)

\* What begins a block of Anthropic's, and the text that belongs to the block b.
Begun == {"block", "preset", "call", "thought"}
TextOf(b) == {i \in At({"text"}) : said[i].of = b} \cup (At({"preset"}) \cap {b})

ModeOK ==
    /\ mode \in Modes
    /\ request.limit \in {"max_tokens", "max_completion_tokens"}
    /\ request.options \in BOOLEAN /\ request.retries \in 0 .. MaxResends
    /\ request = [limit |-> request.limit, options |-> request.options, retries |-> request.retries]
    /\ stage \in {"asking", "receiving", "replied", "answered", "failed"}

\* Each item is one of its interface; what belongs to another comes behind it, and
\* with Anthropic before the next block begins.
IsItem(i) ==
    /\ said[i].of \in 0 .. i - 1
    /\ said[i].kind = "input" => said[i].of \in At({"call"})
    /\ mode.api = "anthropic" =>
          /\ said[i].kind # "raw"
          /\ said[i].kind = "text" => said[i].of \in At({"block", "preset"})
          /\ said[i].kind \in {"text", "input"} =>
                \A b \in At(Begun) : b <= said[i].of \/ i < b
    /\ mode.api # "anthropic" => said[i].kind \in {"text", "raw", "thought", "call", "input"}
    /\ mode.api = "codex" => said[i].kind \notin {"raw", "thought"}

SaidOK ==
    /\ said \in Seq([kind : Kinds, of : Nat]) /\ Len(said) <= MaxSaid
    /\ \A i \in 1 .. Len(said) : IsItem(i)
    /\ \A c \in At({"call"}) : Cardinality(InputOf(c)) <= 2

\* The calls of a stream are kept in their order, each with its input.
CallsKept ==
    /\ Lists([k \in DOMAIN entries |-> entries[k].id], At({"call"}))
    /\ \A k \in DOMAIN entries : Lists(entries[k].input, InputOf(entries[k].id))

\* So are the blocks, each with its text or its input.
IsBlock(e, b) ==
    /\ e.id = IF said[b].kind = "call" THEN b ELSE 0
    /\ Lists(e.text, TextOf(b)) /\ Lists(e.input, InputOf(b))

BlocksKept ==
    \E start \in [DOMAIN entries -> 1 .. Len(said)] :
       Lists(start, At(Begun)) /\ \A k \in DOMAIN entries : IsBlock(entries[k], start[k])

Block == [id : Positions, text : Seq(Positions), input : Seq(Positions)]
StreamTyped ==
    /\ told \in Seq(Positions) /\ words \in Seq(Positions) /\ thoughts \in Seq(Positions)
    /\ entries \in Seq(Block)

StreamOK ==
    IF ~mode.stream
    THEN told = <<>> /\ words = <<>> /\ thoughts = <<>> /\ entries = <<>>
    ELSE /\ Lists(told, At({"text", "raw"}))
         /\ mode.api = "anthropic" => BlocksKept
         /\ mode.api = "openai" =>
               /\ words = told /\ Lists(thoughts, At({"thought"}))
               /\ mode.keyed # "no" => CallsKept

\* The items of a reply.
Item == [kind : {"text", "call"}, at : Nat, input : {"whole", "empty"}]
CallOf(c) ==
    [kind |-> "call", at |-> c, input |-> IF Cardinality(InputOf(c)) = 2 THEN "whole" ELSE "empty"]
CallsIn(content) == {k \in DOMAIN content : content[k].kind = "call"}
WordsIn(content) ==
    {k \in DOMAIN content : content[k].kind # "call" /\ said[content[k].at].kind # "thought"}

\* The calls of a reply are C and its text, but for thoughts, is W.
Keeps(content, C, W) ==
    /\ content \in Seq(Item)
    /\ Has(content, CallsIn(content), C) /\ Has(content, WordsIn(content), W)

\* Calls that are spelt out are found in an answer in one piece.
Finds ==
    /\ mode.api = "openai" /\ ~mode.stream /\ ~mode.emptyList
    /\ At({"call"}) = {} /\ AllRaw(Spoken)

Exact(content) ==
    \E C, W :
       /\ Keeps(content, C, W)
       /\ At({"call"}) # {} \/ ~AllRaw(Spoken) => C = {CallOf(c) : c \in At({"call"})}
       /\ ~AllRaw(Spoken) => W = {TextItem(i) : i \in At({"text", "raw", "preset"})}
       /\ At({"call"}) = {} => \A x \in C : x.input = "whole"
       /\ Finds => C # {}

StopOK(stop, reason) ==
    /\ At({"call"}) # {} =>
          stop = "tool_use" \/ (mode.api = "anthropic" /\ ~mode.stream /\ reason # "tool")
    /\ Finds => stop = "tool_use"

Stops == {"tool_use", "end_turn", "max_tokens", "other", "none"}

\* The reply is exact, its stop reason is that of its calls, and the agent's way on is the reply's.
ConclusionOK ==
    /\ broken \in BOOLEAN /\ ending \in Reasons /\ reply.stop \in Stops
    /\ Replied /\ mode.keyed # "no" => Exact(reply.content) /\ StopOK(reply.stop, ending)
    /\ Replied /\ ~broken =>
          \A c \in At({"call"}) : Cardinality(InputOf(c)) # 1 \/ ending = "length"
    /\ outcome = IF stage # "answered" THEN "none"
                 ELSE IF reply.stop = "tool_use" /\ HasCall(reply.content) THEN "tools"
                 ELSE IF \E k \in DOMAIN reply.content : reply.content[k].kind = "text"
                      THEN "text" ELSE "nothing"

ReplyInv == ModeOK /\ SaidOK /\ StreamTyped /\ StreamOK /\ ConclusionOK

USE ModelReplyAssumption

\* The positions of kinds of items are positions.
LEMMA AtIs ==
  ASSUME SaidOK
  PROVE  /\ Len(said) \in Nat /\ DOMAIN said = 1 .. Len(said) /\ Len(said) <= MaxSaid
         /\ MaxSaid \in Nat
         /\ \A i \in 1 .. Len(said) : said[i] \in [kind : Kinds, of : Nat]
         /\ \A kinds : At(kinds) \in SUBSET (1 .. Len(said))
         /\ \A c : InputOf(c) \in SUBSET (1 .. Len(said))
         /\ \A b \in 1 .. Len(said) : TextOf(b) \in SUBSET (1 .. Len(said))
         /\ \A i \in 1 .. Len(said) : \A kinds : i \in At(kinds) <=> said[i].kind \in kinds
  <1>1. /\ Len(said) \in Nat /\ DOMAIN said = 1 .. Len(said) /\ Len(said) <= MaxSaid
        /\ \A i \in 1 .. Len(said) : said[i] \in [kind : Kinds, of : Nat]
    BY LenProperties, ElementOfSeq DEF SaidOK
  <1>2. \A kinds : At(kinds) \in SUBSET (1 .. Len(said))
    BY <1>1 DEF At
  <1>3. \A i \in 1 .. Len(said) : \A kinds : i \in At(kinds) <=> said[i].kind \in kinds
    BY <1>1 DEF At
  <1>4. /\ \A c : InputOf(c) \in SUBSET (1 .. Len(said))
        /\ \A b \in 1 .. Len(said) : TextOf(b) \in SUBSET (1 .. Len(said))
    BY <1>2 DEF InputOf, TextOf
  <1>5. MaxSaid \in Nat
    BY DEF ModelReplyAssumption
  <1> QED
    BY <1>1, <1>2, <1>3, <1>4, <1>5

\* What one item more is to the rest.
SaidGrows(n, kind, of) ==
    /\ n \in Nat /\ Len(said') = n + 1 /\ DOMAIN said' = 1 .. n + 1 /\ n + 1 <= MaxSaid
    /\ said' \in Seq([kind : Kinds, of : Nat])
    /\ said'[n + 1].kind = kind /\ said'[n + 1].of = of
    /\ \A i \in 1 .. n : said'[i] = said[i]
    /\ \A kinds : At(kinds)' = IF kind \in kinds THEN At(kinds) \cup {n + 1} ELSE At(kinds)
    /\ \A c : InputOf(c)' = IF kind = "input" /\ of = c THEN InputOf(c) \cup {n + 1}
                            ELSE InputOf(c)
    /\ \A b \in 1 .. n : TextOf(b)' = IF kind = "text" /\ of = b THEN TextOf(b) \cup {n + 1}
                                      ELSE TextOf(b)
    /\ of <= n => InputOf(n + 1)' = {}
    /\ of <= n => TextOf(n + 1)' = IF kind = "preset" THEN {n + 1} ELSE {}

\* One item more.
LEMMA SaidNext ==
  ASSUME SaidOK, NEW kind \in Kinds, NEW of \in Nat, Len(said) < MaxSaid,
         NEW n, n = Len(said), said' = Append(said, [kind |-> kind, of |-> of])
  PROVE  SaidGrows(n, kind, of)
  <1> DEFINE x == [kind |-> kind, of |-> of]
  <1>00. n < MaxSaid /\ n \in Nat /\ MaxSaid \in Nat
    BY AtIs
  <1>0. /\ n \in Nat /\ DOMAIN said = 1 .. n /\ n <= MaxSaid /\ MaxSaid \in Nat
        /\ said \in Seq([kind : Kinds, of : Nat])
        /\ \A i \in 1 .. n : said[i] \in [kind : Kinds, of : Nat]
        /\ \A kinds : At(kinds) \in SUBSET (1 .. n)
    BY AtIs DEF SaidOK
  <1>1. x \in [kind : Kinds, of : Nat] /\ x.kind = kind /\ x.of = of
    OBVIOUS
  <1> HIDE DEF x
  <1>2. /\ said' \in Seq([kind : Kinds, of : Nat]) /\ Len(said') = n + 1 /\ said'[n + 1] = x
        /\ DOMAIN said' = 1 .. n + 1
        /\ \A i \in 1 .. n : said'[i] = said[i]
    BY <1>0, <1>1, AppendProperties, LenProperties DEF x
  <1>20. \A i \in 1 .. n : said[i].of \in 0 .. i - 1
    BY DEF SaidOK, IsItem
  <1>3. ASSUME NEW kinds
        PROVE  At(kinds)' = IF kind \in kinds THEN At(kinds) \cup {n + 1} ELSE At(kinds)
    <2>1. At(kinds)' = {i \in 1 .. n + 1 : said'[i].kind \in kinds}
      BY <1>2 DEF At
    <2>2. At(kinds) = {i \in 1 .. n : said[i].kind \in kinds}
      BY <1>0 DEF At
    <2>3. \A i : i \in 1 .. n + 1 <=> i \in 1 .. n \/ i = n + 1
      BY <1>0
    <2>4. n + 1 \notin 1 .. n
      BY <1>0
    <2> QED
      BY <1>1, <1>2, <2>1, <2>2, <2>3, <2>4
  <1>4. \A kinds : At(kinds) \subseteq 1 .. n /\ n + 1 \notin At(kinds)
    BY <1>0
  <1>5. \A i \in 1 .. n : said'[i].of = said[i].of
    BY <1>2
  <1>6. said'[n + 1].of = of /\ said'[n + 1].kind = kind
    BY <1>1, <1>2
  <1>7. ASSUME NEW c
        PROVE  InputOf(c)' = IF kind = "input" /\ of = c THEN InputOf(c) \cup {n + 1}
                             ELSE InputOf(c)
    <2>1. InputOf(c)' = {i \in At({"input"})' : said'[i].of = c}
      BY DEF InputOf
    <2>2. At({"input"})' = IF kind = "input" THEN At({"input"}) \cup {n + 1} ELSE At({"input"})
      BY <1>3
    <2> QED
      BY <1>4, <1>5, <1>6, <2>1, <2>2 DEF InputOf
  <1>8. ASSUME NEW b
        PROVE  TextOf(b)' = {i \in At({"text"})' : said'[i].of = b} \cup (At({"preset"})' \cap {b})
    BY DEF TextOf
  <1>9. /\ At({"text"})' = IF kind = "text" THEN At({"text"}) \cup {n + 1} ELSE At({"text"})
        /\ At({"preset"})' = IF kind = "preset" THEN At({"preset"}) \cup {n + 1} ELSE At({"preset"})
    BY <1>3
  <1>10. ASSUME NEW b \in 1 .. n
         PROVE  TextOf(b)' = IF kind = "text" /\ of = b THEN TextOf(b) \cup {n + 1} ELSE TextOf(b)
    <2>1. b # n + 1
      BY <1>0
    <2>2. At({"preset"})' \cap {b} = At({"preset"}) \cap {b}
      BY <1>9, <2>1
    <2>3. {i \in At({"text"})' : said'[i].of = b}
            = IF kind = "text" /\ of = b THEN {i \in At({"text"}) : said[i].of = b} \cup {n + 1}
              ELSE {i \in At({"text"}) : said[i].of = b}
      BY <1>4, <1>5, <1>6, <1>9
    <2> QED
      BY <1>8, <2>2, <2>3 DEF TextOf
  <1>11. ASSUME of <= n
         PROVE  /\ InputOf(n + 1)' = {}
                /\ TextOf(n + 1)' = IF kind = "preset" THEN {n + 1} ELSE {}
    <2>1. \A i \in 1 .. n + 1 : said'[i].of # n + 1
      <3>1. \A i \in 1 .. n : said'[i].of # n + 1
        BY <1>0, <1>20, <1>5
      <3>2. \A i \in 1 .. n + 1 : i \in 1 .. n \/ i = n + 1
        BY <1>0
      <3> QED
        BY <1>0, <1>6, <1>11, <3>1, <3>2
    <2>2. ASSUME NEW kinds PROVE At(kinds)' \subseteq 1 .. n + 1
      <3>1. 1 .. n \subseteq 1 .. n + 1 /\ n + 1 \in 1 .. n + 1
        BY <1>0
      <3>2. At(kinds) \subseteq 1 .. n
        BY <1>4
      <3>3. At(kinds)' = IF kind \in kinds THEN At(kinds) \cup {n + 1} ELSE At(kinds)
        BY <1>3
      <3> QED
        BY <3>1, <3>2, <3>3
    <2>6. At({"input"})' \subseteq 1 .. n + 1 /\ At({"text"})' \subseteq 1 .. n + 1
      BY <2>2
    <2>3. InputOf(n + 1)' = {}
      <3>1. InputOf(n + 1)' = {i \in At({"input"})' : said'[i].of = n + 1}
        BY DEF InputOf
      <3> QED
        BY <2>1, <2>6, <3>1
    <2>4. {i \in At({"text"})' : said'[i].of = n + 1} = {}
      BY <2>1, <2>6
    <2>5. At({"preset"})' \cap {n + 1} = IF kind = "preset" THEN {n + 1} ELSE {}
      <3>1. n + 1 \notin At({"preset"})
        BY <1>4
      <3> QED
        BY <1>9, <3>1
    <2>7. TextOf(n + 1)'
            = {i \in At({"text"})' : said'[i].of = n + 1} \cup (At({"preset"})' \cap {n + 1})
      BY <1>8
    <2> QED
      BY <2>3, <2>4, <2>5, <2>7
  <1>12. n + 1 <= MaxSaid
    BY <1>00
  <1> QED
    BY <1>0, <1>2, <1>3, <1>6, <1>7, <1>10, <1>11, <1>12 DEF SaidGrows

\* Where nothing is said and nothing is kept, all stays.
LEMMA SaidStays ==
  ASSUME said' = said
  PROVE  /\ \A kinds : At(kinds)' = At(kinds)
         /\ \A c : InputOf(c)' = InputOf(c)
         /\ \A b : TextOf(b)' = TextOf(b)
  <1>1. ASSUME NEW kinds PROVE At(kinds)' = At(kinds)
    BY DEF At
  <1>2. At({"input"})' = At({"input"}) /\ At({"text"})' = At({"text"}) /\ At({"preset"})' = At({"preset"})
    BY <1>1
  <1>3. ASSUME NEW c PROVE InputOf(c)' = InputOf(c)
    BY <1>2 DEF InputOf
  <1>4. ASSUME NEW b PROVE TextOf(b)' = TextOf(b)
    BY <1>2 DEF TextOf
  <1> QED
    BY <1>1, <1>3, <1>4

\* What has been said is as good as before if nothing is added.
LEMMA ItemsStay ==
  ASSUME SaidOK, mode' = mode, said' = said
  PROVE  SaidOK'
  <1>1. /\ \A kinds : At(kinds)' = At(kinds)
        /\ \A c : InputOf(c)' = InputOf(c)
    BY SaidStays
  <1>2. ASSUME NEW i \in 1 .. Len(said) PROVE IsItem(i)'
    <2>1. IsItem(i)
      BY DEF SaidOK
    <2> QED
      BY <1>1, <2>1 DEF IsItem
  <1>3. \A c \in At({"call"})' : Cardinality(InputOf(c)') <= 2
    BY <1>1 DEF SaidOK
  <1> QED
    BY <1>2, <1>3 DEF SaidOK

\* What is kept of a stream is right as long as neither it nor what was said changes.
LEMMA StreamStays ==
  ASSUME StreamTyped, StreamOK, mode' = mode, said' = said, UNCHANGED streamed
  PROVE  StreamTyped' /\ StreamOK'
  <1>1. /\ \A kinds : At(kinds)' = At(kinds)
        /\ \A c : InputOf(c)' = InputOf(c)
        /\ \A b : TextOf(b)' = TextOf(b)
    BY SaidStays
  <1>2. told' = told /\ words' = words /\ thoughts' = thoughts /\ entries' = entries
    BY DEF streamed
  <1>3. StreamTyped'
    BY <1>2 DEF StreamTyped
  <1>4. ASSUME CallsKept PROVE CallsKept'
    <2>1. At({"call"})' = At({"call"})
      BY <1>1
    <2>2. Lists([k \in DOMAIN entries |-> entries[k].id], At({"call"})')
      BY <1>4, <2>1 DEF CallsKept
    <2>3. ASSUME NEW k \in DOMAIN entries PROVE Lists(entries[k].input, InputOf(entries[k].id))'
      <3> DEFINE c == entries[k].id
      <3>1. Lists(entries[k].input, InputOf(c))
        BY <1>4 DEF CallsKept
      <3>2. c' = c /\ (entries[k].input)' = entries[k].input
        BY <1>2
      <3>3. InputOf(entries[k].id)' = InputOf(entries[k].id)
        <4>1. \A x : x = entries[k].id => InputOf(x)' = InputOf(x)
          BY <1>1
        <4> QED
          BY <1>2, SaidStays DEF InputOf, At
      <3> QED
        BY <3>1, <3>2, <3>3 DEF Lists
    <2> QED
      BY <1>2, <2>2, <2>3 DEF CallsKept
  <1>5. ASSUME BlocksKept PROVE BlocksKept'
    <2>1. PICK start \in [DOMAIN entries -> 1 .. Len(said)] :
            Lists(start, At(Begun)) /\ \A k \in DOMAIN entries : IsBlock(entries[k], start[k])
      BY <1>5 DEF BlocksKept
    <2>2. ASSUME NEW k \in DOMAIN entries PROVE IsBlock(entries[k], start[k])'
      <3>1. IsBlock(entries[k], start[k])
        BY <2>1
      <3>2. InputOf(start[k])' = InputOf(start[k]) /\ TextOf(start[k])' = TextOf(start[k])
        BY <1>1
      <3> QED
        BY <1>2, <3>1, <3>2 DEF IsBlock
    <2>3. At(Begun)' = At(Begun)
      BY <1>1
    <2> QED
      BY <1>2, <2>1, <2>2, <2>3 DEF BlocksKept
  <1>6. At({"text", "raw"})' = At({"text", "raw"}) /\ At({"thought"})' = At({"thought"})
    BY <1>1
  <1> QED
    BY <1>2, <1>3, <1>4, <1>5, <1>6 DEF StreamOK

\* An item that suits its interface.
LEMMA ItemsNext ==
  ASSUME SaidOK, NEW kind \in Kinds, NEW of \in Nat, Len(said) < MaxSaid,
         NEW n, n = Len(said), said' = Append(said, [kind |-> kind, of |-> of]), mode' = mode,
         of \in 0 .. n,
         kind = "input" => of \in At({"call"}) /\ Cardinality(InputOf(of)) < 2,
         mode.api = "anthropic" =>
            /\ kind # "raw"
            /\ kind = "text" => of \in At({"block", "preset"})
            /\ kind \in {"text", "input"} => \A b \in At(Begun) : b <= of,
         mode.api # "anthropic" => kind \in {"text", "raw", "thought", "call", "input"},
         mode.api = "codex" => kind \notin {"raw", "thought"}
  PROVE  SaidOK'
  <1>1. /\ n \in Nat /\ Len(said') = n + 1 /\ n + 1 <= MaxSaid
        /\ said' \in Seq([kind : Kinds, of : Nat])
        /\ said'[n + 1].kind = kind /\ said'[n + 1].of = of
        /\ \A i \in 1 .. n : said'[i] = said[i]
        /\ \A kinds : At(kinds)' = IF kind \in kinds THEN At(kinds) \cup {n + 1} ELSE At(kinds)
        /\ \A c : InputOf(c)' = IF kind = "input" /\ of = c THEN InputOf(c) \cup {n + 1}
                                ELSE InputOf(c)
        /\ of <= n => InputOf(n + 1)' = {}
    <2>1. SaidGrows(n, kind, of)
      BY SaidNext
    <2> QED
      BY <2>1 DEF SaidGrows
  <1>10. n \in Nat
    BY <1>1
  <1>2. \A kinds : At(kinds) \in SUBSET (1 .. n)
    BY AtIs
  <1>3. ASSUME NEW i \in 1 .. n PROVE IsItem(i)'
    <2>1. IsItem(i) /\ said'[i] = said[i]
      BY <1>1 DEF SaidOK
    <2>2. \A kinds : At(kinds) \subseteq At(kinds)'
      BY <1>1
    <2>3. /\ said[i].of \in At({"call"}) => said[i].of \in At({"call"})'
          /\ said[i].of \in At({"block", "preset"}) => said[i].of \in At({"block", "preset"})'
      BY <2>2
    <2>4. (\A b \in At(Begun) : b <= said[i].of \/ i < b)
             => \A b \in At(Begun)' : b <= said[i].of \/ i < b
      <3>1. i < n + 1 /\ (At(Begun)' = At(Begun) \cup {n + 1} \/ At(Begun)' = At(Begun))
        BY <1>1
      <3> QED
        BY <3>1
    <2> QED
      BY <2>1, <2>3, <2>4 DEF IsItem
  <1>5. ASSUME NEW i, i = n + 1 PROVE IsItem(i)'
    <2>1. said'[i].kind = kind /\ said'[i].of = of /\ of \in 0 .. i - 1
      BY <1>1, <1>5
    <2>2. kind \in {"text", "input"} => At(Begun)' = At(Begun)
      BY <1>1 DEF Begun
    <2>3. \A kinds : At(kinds) \subseteq At(kinds)'
      BY <1>1
    <2>4. /\ of \in At({"call"}) => of \in At({"call"})'
          /\ of \in At({"block", "preset"}) => of \in At({"block", "preset"})'
      BY <2>3
    <2> QED
      BY <2>1, <2>2, <2>4 DEF IsItem
  <1>6. ASSUME NEW c \in At({"call"})' PROVE Cardinality(InputOf(c)') <= 2
    <2>1. CASE c \in At({"call"})
      <3>1. InputOf(c) \in SUBSET (1 .. n) /\ Cardinality(InputOf(c)) <= 2
        BY <2>1, AtIs DEF SaidOK
      <3>2. IsFiniteSet(InputOf(c)) /\ n + 1 \notin InputOf(c)
        <4>1. IsFiniteSet(1 .. n)
          BY <1>10, FS_Interval
        <4> QED
          BY <1>1, <3>1, <4>1, FS_Subset
      <3>3. Cardinality(InputOf(c) \cup {n + 1}) = Cardinality(InputOf(c)) + 1
            /\ Cardinality(InputOf(c)) \in Nat
        BY <3>2, FS_AddElement, FS_CardinalityType
      <3>4. InputOf(c)' = IF kind = "input" /\ of = c THEN InputOf(c) \cup {n + 1} ELSE InputOf(c)
        BY <1>1
      <3> QED
        BY <3>1, <3>3, <3>4
    <2>2. CASE c = n + 1
      <3>1. InputOf(c)' = {}
        BY <1>1, <2>2
      <3> QED
        BY <3>1, FS_EmptySet
    <2>3. At({"call"})' = At({"call"}) \cup {n + 1} \/ At({"call"})' = At({"call"})
      BY <1>1
    <2> QED
      BY <2>1, <2>2, <2>3
  <1>7. \A i \in 1 .. n + 1 : i \in 1 .. n \/ i = n + 1
    BY <1>1
  <1>8. \A i \in 1 .. Len(said') : IsItem(i)'
    BY <1>1, <1>3, <1>5, <1>7
  <1> QED
    BY <1>1, <1>6, <1>8 DEF SaidOK

\* Positions are numbers, and one more is listed behind all that there were.
LEMMA PositionsNext ==
  ASSUME NEW n \in Nat, n + 1 <= MaxSaid, NEW seq \in Seq(Positions), NEW S \in SUBSET (1 .. n),
         Lists(seq, S)
  PROVE  /\ seq \in Seq(Nat)
         /\ Append(seq, n + 1) \in Seq(Positions) /\ Lists(Append(seq, n + 1), S \cup {n + 1})
  <1>1. Positions \subseteq Nat /\ n + 1 \in Positions
    BY DEF Positions, ModelReplyAssumption
  <1>2. seq \in Seq(Nat)
    <2>1. Len(seq) \in Nat /\ seq \in [1 .. Len(seq) -> Positions]
      BY LenProperties
    <2>2. seq \in [1 .. Len(seq) -> Nat]
      BY <1>1, <2>1
    <2> QED
      BY <2>1, <2>2, SeqDef
  <1>3. \A y \in S : y < n + 1
    OBVIOUS
  <1>4. Append(seq, n + 1) \in Seq(Positions)
    BY <1>1, AppendProperties
  <1>5. Lists(Append(seq, n + 1), S \cup {n + 1})
    <2>1. n + 1 \in Nat
      OBVIOUS
    <2> QED
      BY <1>2, <1>3, <2>1, ListsAppend
  <1> QED
    BY <1>2, <1>4, <1>5

\* What the server says is one item more.
LEMMA SaysIs ==
  ASSUME SaidOK, NEW kind \in Kinds, NEW of \in Nat, NEW n, n = Len(said), Says(kind, of)
  PROVE  /\ SaidGrows(n, kind, of) /\ Len(said) < MaxSaid
         /\ said' = Append(said, [kind |-> kind, of |-> of])
         /\ mode' = mode /\ request' = request /\ stage' = stage /\ stage = "receiving"
         /\ UNCHANGED conclusion
  <1>1. /\ Len(said) < MaxSaid /\ said' = Append(said, [kind |-> kind, of |-> of])
        /\ mode' = mode /\ request' = request /\ stage' = stage /\ stage = "receiving"
        /\ UNCHANGED conclusion
    BY DEF Says, requestVars
  <1>2. SaidGrows(n, kind, of)
    BY <1>1, SaidNext
  <1> QED
    BY <1>1, <1>2

\* Nothing is kept of an answer in one piece.
LEMMA NothingStreamed ==
  ASSUME StreamTyped, StreamOK, ~mode.stream, mode' = mode, told' = told, words' = words,
         thoughts' = thoughts, entries' = entries
  PROVE  StreamTyped' /\ StreamOK'
  BY DEF StreamTyped, StreamOK

\* A block that an item is not for is as it was.
LEMMA BlockStays ==
  ASSUME NEW n \in Nat, NEW kind, NEW of, SaidGrows(n, kind, of), NEW b \in 1 .. n, NEW e,
         IsBlock(e, b), kind \in {"text", "input"} => of # b
  PROVE  IsBlock(e, b)'
  <1>1. /\ said'[b] = said[b]
        /\ InputOf(b)' = IF kind = "input" /\ of = b THEN InputOf(b) \cup {n + 1} ELSE InputOf(b)
        /\ TextOf(b)' = IF kind = "text" /\ of = b THEN TextOf(b) \cup {n + 1} ELSE TextOf(b)
    BY DEF SaidGrows
  <1> QED
    BY <1>1 DEF IsBlock

\* The calls that an item is not for are as they were.
LEMMA CallsStay ==
  ASSUME NEW n \in Nat, NEW kind, NEW of, SaidGrows(n, kind, of), kind \notin {"call", "input"},
         entries' = entries, CallsKept
  PROVE  CallsKept'
  <1>1. At({"call"})' = At({"call"}) /\ \A c : InputOf(c)' = InputOf(c)
    BY DEF SaidGrows
  <1>2. ASSUME NEW k \in DOMAIN entries PROVE Lists(entries[k].input, InputOf(entries[k].id))'
    <2>1. Lists(entries[k].input, InputOf(entries[k].id))
      BY <1>2 DEF CallsKept
    <2>2. \A c : c = entries[k].id => Lists(entries[k].input, InputOf(c)')
      BY <1>1, <2>1
    <2>3. \A c : c = entries'[k].id => Lists(entries'[k].input, InputOf(c)')
      BY <2>2
    <2> QED
      BY <2>3 DEF InputOf, At
  <1>3. Lists([k \in DOMAIN entries |-> entries[k].id], At({"call"}))'
    BY <1>1 DEF CallsKept
  <1> QED
    BY <1>2, <1>3 DEF CallsKept

\* A block that begins is kept with the text that comes with it.
LEMMA StartBlockKeeps ==
  ASSUME SaidOK, StreamTyped, StreamOK, NEW kind \in Kinds, StartBlock(kind)
  PROVE  SaidOK' /\ StreamTyped' /\ StreamOK'
  <1> PICK n : n = Len(said)
    OBVIOUS
  <1>1. /\ mode.api = "anthropic" /\ kind \in {"block", "preset", "call", "thought"}
        /\ Says(kind, 0) /\ told' = told /\ words' = words /\ thoughts' = thoughts
    BY DEF StartBlock
  <1>2. /\ SaidGrows(n, kind, 0) /\ Len(said) < MaxSaid /\ mode' = mode
        /\ said' = Append(said, [kind |-> kind, of |-> 0])
    BY <1>1, SaysIs
  <1>3. /\ n \in Nat /\ n + 1 <= MaxSaid /\ Len(said') = n + 1
        /\ said'[n + 1].kind = kind
        /\ \A kinds : At(kinds)' = IF kind \in kinds THEN At(kinds) \cup {n + 1} ELSE At(kinds)
        /\ InputOf(n + 1)' = {}
        /\ TextOf(n + 1)' = IF kind = "preset" THEN {n + 1} ELSE {}
    BY <1>2, AtIs DEF SaidGrows
  <1>4. SaidOK'
    <2>1. 0 \in 0 .. n
      BY <1>3
    <2> QED
      BY <1>1, <1>2, <2>1, ItemsNext
  <1>5. CASE ~mode.stream
    <2>1. entries' = entries
      BY <1>5 DEF StartBlock
    <2> QED
      BY <1>1, <1>2, <1>4, <1>5, <2>1, NothingStreamed
  <1>6. CASE mode.stream
    <2> DEFINE e == [id |-> IF kind = "call" THEN n + 1 ELSE 0,
                     text |-> IF kind = "preset" THEN <<n + 1>> ELSE <<>>, input |-> <<>>]
               m == Len(entries)
    <2>1. entries' = Append(entries, e)
      BY <1>6 DEF StartBlock, Entry, This
    <2>2. <<>> \in Seq(Positions) /\ Append(<<>>, n + 1) \in Seq(Positions)
          /\ Lists(<<>>, {}) /\ Lists(Append(<<>>, n + 1), {n + 1})
      <3>1. <<>> \in Seq(Positions) /\ {} \in SUBSET (1 .. n) /\ Lists(<<>>, {})
        BY EmptySeq, ListsNothing
      <3>2. {} \cup {n + 1} = {n + 1}
        OBVIOUS
      <3>3. Append(<<>>, n + 1) \in Seq(Positions) /\ Lists(Append(<<>>, n + 1), {} \cup {n + 1})
        BY <1>3, <3>1, PositionsNext
      <3> QED
        BY <3>1, <3>2, <3>3
    <2>3. /\ e.text \in Seq(Positions) /\ Lists(e.text, TextOf(n + 1)')
          /\ e.input = <<>> /\ e.id = (IF kind = "call" THEN n + 1 ELSE 0)
          /\ e \in Block
      <3>1. Append(<<>>, n + 1) = <<n + 1>>
        OBVIOUS
      <3>2. n + 1 \in Positions /\ 0 \in Positions
        BY <1>3 DEF Positions, ModelReplyAssumption
      <3> QED
        BY <1>3, <2>2, <3>1, <3>2 DEF Block
    <2> HIDE DEF e
    <2>4. IsBlock(e, n + 1)'
      <3>1. Lists(e.text, TextOf(n + 1)') /\ Lists(e.input, InputOf(n + 1)')
        BY <1>3, <2>2, <2>3
      <3>2. e.id = IF said'[n + 1].kind = "call" THEN n + 1 ELSE 0
        BY <1>3, <2>3
      <3> QED
        BY <3>1, <3>2 DEF IsBlock
    <2>5. /\ entries' \in Seq(Block) /\ m \in Nat /\ DOMAIN entries = 1 .. m
          /\ DOMAIN entries' = 1 .. m + 1 /\ entries'[m + 1] = e
          /\ \A k \in 1 .. m : entries'[k] = entries[k]
      BY <2>1, <2>3, AppendProperties, LenProperties DEF StreamTyped
    <2> HIDE DEF m
    <2>6. StreamTyped'
      BY <1>1, <2>5 DEF StreamTyped
    <2>7. PICK start \in [1 .. m -> 1 .. n] :
            Lists(start, At(Begun)) /\ \A k \in 1 .. m : IsBlock(entries[k], start[k])
      BY <1>1, <1>6, <2>5 DEF StreamOK, BlocksKept
    <2> DEFINE next == Append(start, n + 1)
    <2>8. start \in Seq(Nat) /\ Len(start) = m /\ DOMAIN start = 1 .. m
      <3>1. start \in [1 .. m -> Nat]
        OBVIOUS
      <3>2. start \in Seq(Nat)
        BY <2>5, <3>1, SeqDef
      <3> QED
        BY <2>5, <3>2, LenProperties
    <2>9. /\ next \in Seq(Nat) /\ DOMAIN next = 1 .. m + 1
          /\ next[m + 1] = n + 1 /\ \A k \in 1 .. m : next[k] = start[k]
          /\ Lists(next, At(Begun) \cup {n + 1})
      <3>1. n + 1 \in Nat
        BY <1>3
      <3>2. \A y \in At(Begun) : y < n + 1
        BY <1>3, AtIs
      <3>3. Lists(next, At(Begun) \cup {n + 1})
        BY <2>7, <2>8, <3>1, <3>2, ListsAppend
      <3>4. next \in Seq(Nat) /\ Len(next) = m + 1 /\ DOMAIN next = 1 .. Len(next)
        BY <2>8, <3>1, AppendProperties, LenProperties
      <3>5. next[m + 1] = n + 1 /\ \A k \in 1 .. m : next[k] = start[k]
        BY <2>8, <3>1, AppendProperties
      <3> QED
        BY <3>3, <3>4, <3>5
    <2> HIDE DEF next
    <2>10. \A k \in 1 .. m + 1 : k \in 1 .. m \/ k = m + 1
      BY <2>5
    <2>11. next \in [1 .. m + 1 -> 1 .. n + 1]
      <3>1. \A k \in 1 .. m + 1 : next[k] \in 1 .. n + 1
        <4>1. n \in Nat
          BY <1>3
        <4>2. n + 1 \in 1 .. n + 1 /\ \A i \in 1 .. n : i \in 1 .. n + 1
          BY <4>1
        <4>3. \A k \in 1 .. m : start[k] \in 1 .. n
          OBVIOUS
        <4> QED
          BY <2>9, <2>10, <4>2, <4>3
      <3>2. next = [k \in 1 .. m + 1 |-> next[k]]
        BY <2>9, LenProperties
      <3> QED
        BY <3>1, <3>2
    <2>12. At(Begun)' = At(Begun) \cup {n + 1}
      BY <1>1, <1>3 DEF Begun
    <2>13. ASSUME NEW k \in 1 .. m PROVE IsBlock(entries[k], next[k])' 
      <3> PICK x : x = entries[k]
        OBVIOUS
      <3>1. start[k] \in 1 .. n /\ IsBlock(x, start[k])
        BY <2>7
      <3>2. 0 # start[k]
        BY <1>3, <3>1
      <3>3. IsBlock(x, start[k])'
        BY <1>2, <1>3, <3>1, <3>2, BlockStays
      <3>4. x = entries'[k] /\ next[k] = start[k]
        BY <2>5, <2>9
      <3> QED
        BY <3>3, <3>4
    <2>14. ASSUME NEW k, k = m + 1 PROVE IsBlock(entries[k], next[k])'
      <3>1. entries'[k] = e /\ next[k] = n + 1
        BY <2>5, <2>9, <2>14
      <3> QED
        BY <2>4, <3>1
    <2>15. \A k \in 1 .. m + 1 : IsBlock(entries[k], next[k])'
      BY <2>10, <2>13, <2>14
    <2>16. BlocksKept'
      BY <1>3, <2>5, <2>9, <2>11, <2>12, <2>15 DEF BlocksKept
    <2>17. Lists(told', At({"text", "raw"})')
      BY <1>1, <1>3, <1>6 DEF StreamOK
    <2> QED
      BY <1>1, <1>2, <1>4, <1>6, <2>6, <2>16, <2>17 DEF StreamOK
  <1> QED
    BY <1>5, <1>6

\* A sequence of blocks with one exchanged.
LEMMA BlocksWith ==
  ASSUME NEW blocks \in Seq(Block), NEW k \in 1 .. Len(blocks), NEW e \in Block
  PROVE  LET next == [blocks EXCEPT ![k] = e]
         IN  /\ next \in Seq(Block) /\ Len(next) = Len(blocks) /\ DOMAIN next = 1 .. Len(blocks)
             /\ next[k] = e /\ \A j \in 1 .. Len(blocks) : j # k => next[j] = blocks[j]
  <1> DEFINE next == [blocks EXCEPT ![k] = e]
  <1>1. next \in Seq(Block) /\ Len(next) = Len(blocks)
    BY ExceptSeq
  <1>2. DOMAIN next = 1 .. Len(blocks) /\ DOMAIN blocks = 1 .. Len(blocks)
    BY <1>1, LenProperties
  <1> QED
    BY <1>1, <1>2

\* A piece of a block goes to the block, which is the last, and is told if it is text.
LEMMA BlockDeltaKeeps ==
  ASSUME SaidOK, StreamTyped, StreamOK, NEW b \in DOMAIN said, BlockDelta(b)
  PROVE  SaidOK' /\ StreamTyped' /\ StreamOK'
  <1> PICK n : n = Len(said)
    OBVIOUS
  <1> DEFINE kind == IF said[b].kind = "call" THEN "input" ELSE "text"
  <1> PICK m : m = Len(entries)
    OBVIOUS
  <1>1. /\ mode.api = "anthropic" /\ b \in At({"block", "preset", "call"})
        /\ \A i \in At(Begun) : i <= b
        /\ said[b].kind = "call" => InputIsOpen(b)
        /\ Says(kind, b) /\ words' = words /\ thoughts' = thoughts
    BY DEF BlockDelta, Begun
  <1>2. /\ kind \in Kinds /\ n \in Nat /\ b \in 1 .. n /\ b \in Nat /\ DOMAIN said = 1 .. n
        /\ MaxSaid \in Nat
    BY AtIs DEF Kinds
  <1>3. /\ SaidGrows(n, kind, b) /\ Len(said) < MaxSaid /\ mode' = mode
        /\ said' = Append(said, [kind |-> kind, of |-> b])
    BY <1>1, <1>2, SaysIs
  <1>4. /\ n + 1 <= MaxSaid /\ Len(said') = n + 1
        /\ \A kinds : At(kinds)' = IF kind \in kinds THEN At(kinds) \cup {n + 1} ELSE At(kinds)
        /\ InputOf(b)' = IF kind = "input" THEN InputOf(b) \cup {n + 1} ELSE InputOf(b)
        /\ TextOf(b)' = IF kind = "text" THEN TextOf(b) \cup {n + 1} ELSE TextOf(b)
        /\ said'[b] = said[b]
    BY <1>2, <1>3 DEF SaidGrows
  <1>5. /\ b \in At(Begun) /\ (said[b].kind = "call" <=> b \in At({"call"}))
        /\ kind = "text" => b \in At({"block", "preset"})
    BY <1>1, <1>2, AtIs DEF Begun
  <1>6. SaidOK'
    <2>1. b \in 0 .. n
      BY <1>2
    <2>2. kind = "input" => b \in At({"call"}) /\ Cardinality(InputOf(b)) < 2
      BY <1>1 DEF InputIsOpen
    <2>3. kind \in {"text", "input"} /\ kind # "raw"
      OBVIOUS
    <2> HIDE DEF kind
    <2> QED
      BY <1>1, <1>2, <1>3, <1>5, <2>1, <2>2, <2>3, ItemsNext
  <1>7. CASE ~mode.stream
    <2>1. entries' = entries /\ told' = told
      BY <1>7 DEF BlockDelta
    <2> QED
      BY <1>1, <1>3, <1>6, <1>7, <2>1, NothingStreamed
  <1>8. CASE mode.stream
    <2>1. BlocksKept /\ Lists(told, At({"text", "raw"})) /\ entries \in Seq(Block) /\ m \in Nat
          /\ DOMAIN entries = 1 .. m /\ told \in Seq(Positions)
      BY <1>1, <1>8, LenProperties DEF StreamOK, StreamTyped
    <2> HIDE DEF kind
    <2>2. PICK start \in [1 .. m -> 1 .. n] :
            Lists(start, At(Begun)) /\ \A k \in 1 .. m : IsBlock(entries[k], start[k])
      BY <2>1 DEF BlocksKept
    <2>3. start \in Seq(Nat) /\ Len(start) = m /\ DOMAIN start = 1 .. m
      <3>1. start \in [1 .. m -> Nat]
        OBVIOUS
      <3>2. start \in Seq(Nat)
        BY <2>1, <3>1, SeqDef
      <3> QED
        BY <2>1, <3>2, LenProperties
    <2>4. /\ \A k \in 1 .. m : start[k] \in At(Begun) /\ start[k] \in Nat
          /\ \E k \in 1 .. m : start[k] = b
          /\ \A j, k \in 1 .. m : j < k <=> start[j] < start[k]
          /\ \A j, k \in 1 .. m : j # k => start[j] # start[k]
      BY <1>5, <2>2, <2>3, ListsIs
    <2>5. m \in 1 .. m /\ start[m] = b
      <3>1. PICK k \in 1 .. m : start[k] = b
        BY <2>4
      <3>2. m \in 1 .. m
        BY <2>1, <3>1
      <3>3. start[m] <= b /\ start[m] \in Nat
        BY <1>1, <2>4, <3>2
      <3>4. ~(k < m)
        BY <1>2, <2>4, <3>1, <3>2, <3>3
      <3> QED
        BY <2>1, <3>1, <3>2, <3>4
    <2>6. BlockIndex(b) = m
      <3>1. {i \in At(Begun) : i <= b} = At(Begun)
        BY <1>1
      <3>2. Cardinality(At(Begun)) = m
        BY <2>2, <2>3, ListsSize
      <3> QED
        BY <3>1, <3>2 DEF BlockIndex, Begun
    <2>7. n + 1 \in Positions
      BY <1>2, <1>4 DEF Positions
    <2>8. IsBlock(entries[m], b) /\ entries[m] \in Block
      BY <2>1, <2>2, <2>5, ElementOfSeq
    <2>9. /\ InputOf(b) \in SUBSET (1 .. n) /\ TextOf(b) \in SUBSET (1 .. n)
          /\ At({"text", "raw"}) \in SUBSET (1 .. n)
      BY <1>2, AtIs
    <2>10. /\ entries' \in Seq(Block) /\ DOMAIN entries' = 1 .. m
           /\ \A k \in 1 .. m : k # m => entries'[k] = entries[k]
           /\ entries'[m].id = entries[m].id
           /\ Lists(entries'[m].text, TextOf(b)') /\ Lists(entries'[m].input, InputOf(b)')
           /\ told' \in Seq(Positions) /\ Lists(told', At({"text", "raw"})')
      <3>1. CASE said[b].kind = "call"
        <4>1. entries' = [entries EXCEPT ![m].input = Append(@, n + 1)] /\ told' = told
          BY <1>8, <2>6, <3>1 DEF BlockDelta, This
        <4> DEFINE e == [entries[m] EXCEPT !.input = Append(@, n + 1)]
        <4>2. Append(entries[m].input, n + 1) \in Seq(Positions)
          <5>1. entries[m].input \in Seq(Positions)
            BY <2>8 DEF Block
          <5> QED
            BY <2>7, <5>1, AppendProperties
        <4>21. /\ e \in Block /\ e.id = entries[m].id /\ e.text = entries[m].text
               /\ e.input = Append(entries[m].input, n + 1)
          BY <2>8, <4>2 DEF Block
        <4>22. entries' = [entries EXCEPT ![m] = e]
          BY <4>1
        <4> HIDE DEF e
        <4>23. /\ entries' \in Seq(Block) /\ DOMAIN entries' = 1 .. m
               /\ \A k \in 1 .. m : k # m => entries'[k] = entries[k]
               /\ entries'[m] = e
          BY <2>1, <2>5, <4>21, <4>22, BlocksWith
        <4>3. entries[m].input \in Seq(Positions) /\ Lists(entries[m].input, InputOf(b))
              /\ Lists(entries[m].text, TextOf(b))
          BY <2>8 DEF IsBlock, Block
        <4>4. Lists(Append(entries[m].input, n + 1), InputOf(b) \cup {n + 1})
          BY <1>2, <1>4, <2>9, <4>3, PositionsNext
        <4> QED
          BY <1>4, <2>1, <3>1, <4>1, <4>21, <4>23, <4>3, <4>4 DEF kind
      <3>2. CASE said[b].kind # "call"
        <4>1. /\ entries' = [entries EXCEPT ![m].text = Append(@, n + 1)]
              /\ told' = Append(told, n + 1)
          BY <1>8, <2>6, <3>2 DEF BlockDelta, This
        <4> DEFINE e == [entries[m] EXCEPT !.text = Append(@, n + 1)]
        <4>2. Append(entries[m].text, n + 1) \in Seq(Positions)
          <5>1. entries[m].text \in Seq(Positions)
            BY <2>8 DEF Block
          <5> QED
            BY <2>7, <5>1, AppendProperties
        <4>21. /\ e \in Block /\ e.id = entries[m].id /\ e.input = entries[m].input
               /\ e.text = Append(entries[m].text, n + 1)
          BY <2>8, <4>2 DEF Block
        <4>22. entries' = [entries EXCEPT ![m] = e]
          BY <4>1
        <4> HIDE DEF e
        <4>23. /\ entries' \in Seq(Block) /\ DOMAIN entries' = 1 .. m
               /\ \A k \in 1 .. m : k # m => entries'[k] = entries[k]
               /\ entries'[m] = e
          BY <2>1, <2>5, <4>21, <4>22, BlocksWith
        <4>3. entries[m].text \in Seq(Positions) /\ Lists(entries[m].input, InputOf(b))
              /\ Lists(entries[m].text, TextOf(b))
          BY <2>8 DEF IsBlock, Block
        <4>4. Lists(Append(entries[m].text, n + 1), TextOf(b) \cup {n + 1})
          BY <1>2, <1>4, <2>9, <4>3, PositionsNext
        <4>5. /\ Lists(Append(told, n + 1), At({"text", "raw"}) \cup {n + 1})
              /\ Append(told, n + 1) \in Seq(Positions)
          BY <1>2, <1>4, <2>1, <2>9, PositionsNext
        <4> QED
          BY <1>4, <3>2, <4>1, <4>21, <4>23, <4>3, <4>4, <4>5 DEF kind
      <3> QED
        BY <3>1, <3>2
    <2>11. \A k \in 1 .. m : IsBlock(entries[k], start[k])'
      <3>1. ASSUME NEW k \in 1 .. m, k # m PROVE IsBlock(entries[k], start[k])'
        <4> PICK x : x = entries[k]
          OBVIOUS
        <4>1. start[k] \in 1 .. n /\ IsBlock(x, start[k]) /\ start[k] # b
          BY <2>2, <2>4, <2>5, <3>1
        <4>2. IsBlock(x, start[k])'
          BY <1>2, <1>3, <4>1, BlockStays
        <4>3. x = entries'[k]
          BY <2>10, <3>1
        <4> QED
          BY <4>2, <4>3
      <3>2. ASSUME NEW k, k = m PROVE IsBlock(entries[k], start[k])'
        <4>1. entries'[m].id = IF said'[b].kind = "call" THEN b ELSE 0
          BY <1>4, <2>8, <2>10 DEF IsBlock
        <4>2. start[k] = b /\ entries'[k] = entries'[m]
          BY <2>5, <3>2
        <4> QED
          BY <2>10, <4>1, <4>2 DEF IsBlock
      <3> QED
        BY <3>1, <3>2
    <2>12. At(Begun)' = At(Begun)
      BY <1>4 DEF Begun, kind
    <2>13. start \in [1 .. m -> 1 .. n + 1]
      <3>1. \A k \in 1 .. m : start[k] \in 1 .. n + 1
        BY <1>2, <2>2
      <3> QED
        BY <2>2, <3>1
    <2>14. BlocksKept'
      BY <1>4, <2>2, <2>10, <2>11, <2>12, <2>13 DEF BlocksKept
    <2>15. StreamTyped'
      BY <1>1, <2>10 DEF StreamTyped
    <2> QED
      BY <1>1, <1>3, <1>6, <1>8, <2>10, <2>14, <2>15 DEF StreamOK
  <1> QED
    BY <1>7, <1>8

\* Deltas of text are kept and told in the order of their coming.
LEMMA TextDeltaKeeps ==
  ASSUME ModeOK, SaidOK, StreamTyped, StreamOK, NEW kind \in Kinds, TextDelta(kind)
  PROVE  SaidOK' /\ StreamTyped' /\ StreamOK'
  <1> PICK n : n = Len(said)
    OBVIOUS
  <1>1. /\ mode.api # "anthropic" /\ kind \in {"text", "raw"} /\ (kind = "raw" => mode.api = "openai")
        /\ Says(kind, 0) /\ thoughts' = thoughts /\ entries' = entries
        /\ words' = (IF mode.stream THEN Append(words, n + 1) ELSE words)
        /\ told' = (IF mode.stream THEN Append(told, n + 1) ELSE told)
    BY DEF TextDelta, This
  <1>2. /\ SaidGrows(n, kind, 0) /\ Len(said) < MaxSaid /\ mode' = mode
        /\ said' = Append(said, [kind |-> kind, of |-> 0])
    BY <1>1, SaysIs
  <1>3. /\ n \in Nat /\ n + 1 <= MaxSaid
        /\ \A kinds : At(kinds)' = IF kind \in kinds THEN At(kinds) \cup {n + 1} ELSE At(kinds)
    BY <1>2, AtIs DEF SaidGrows
  <1>4. SaidOK'
    <2>1. 0 \in 0 .. n
      BY <1>3
    <2>2. kind # "input" /\ kind # "thought"
      BY <1>1
    <2>3. mode.api = "codex" => kind \notin {"raw", "thought"}
      BY <1>1
    <2> QED
      BY <1>1, <1>2, <2>1, <2>2, <2>3, ItemsNext
  <1>5. CASE ~mode.stream
    BY <1>1, <1>2, <1>4, <1>5, NothingStreamed
  <1>6. CASE mode.stream
    <2>1. mode.api = "openai"
      BY <1>1, <1>6 DEF ModeOK, Modes
    <2>2. /\ Lists(told, At({"text", "raw"})) /\ words = told /\ Lists(thoughts, At({"thought"}))
          /\ mode.keyed # "no" => CallsKept
      BY <1>6, <2>1 DEF StreamOK
    <2>3. Append(told, n + 1) \in Seq(Positions)
          /\ Lists(Append(told, n + 1), At({"text", "raw"}) \cup {n + 1})
      BY <1>3, <2>2, AtIs, PositionsNext DEF StreamTyped
    <2>4. At({"text", "raw"})' = At({"text", "raw"}) \cup {n + 1} /\ At({"thought"})' = At({"thought"})
      BY <1>1, <1>3
    <2>5. mode.keyed # "no" => CallsKept'
      BY <1>1, <1>2, <1>3, <2>2, CallsStay
    <2>6. StreamTyped'
      BY <1>1, <1>6, <2>2, <2>3 DEF StreamTyped
    <2>7. Lists(told', At({"text", "raw"})') /\ words' = told' /\ Lists(thoughts', At({"thought"})')
      BY <1>1, <1>6, <2>2, <2>3, <2>4
    <2> QED
      BY <1>1, <1>2, <1>4, <1>6, <2>1, <2>5, <2>6, <2>7 DEF StreamOK
  <1> QED
    BY <1>5, <1>6

\* So are the thoughts, which are not told.
LEMMA ThoughtDeltaKeeps ==
  ASSUME ModeOK, SaidOK, StreamTyped, StreamOK, ThoughtDelta
  PROVE  SaidOK' /\ StreamTyped' /\ StreamOK'
  <1> PICK n : n = Len(said)
    OBVIOUS
  <1>1. /\ mode.api = "openai" /\ Says("thought", 0)
        /\ told' = told /\ words' = words /\ entries' = entries
        /\ thoughts' = (IF mode.stream THEN Append(thoughts, n + 1) ELSE thoughts)
    BY DEF ThoughtDelta, This
  <1>2. /\ SaidGrows(n, "thought", 0) /\ Len(said) < MaxSaid /\ mode' = mode
        /\ said' = Append(said, [kind |-> "thought", of |-> 0]) /\ "thought" \in Kinds
    BY <1>1, SaysIs DEF Kinds
  <1>3. /\ n \in Nat /\ n + 1 <= MaxSaid
        /\ \A kinds : At(kinds)' = IF "thought" \in kinds THEN At(kinds) \cup {n + 1} ELSE At(kinds)
    BY <1>2, AtIs DEF SaidGrows
  <1>4. SaidOK'
    <2>1. 0 \in 0 .. n
      BY <1>3
    <2> QED
      BY <1>1, <1>2, <2>1, ItemsNext
  <1>5. CASE ~mode.stream
    BY <1>1, <1>2, <1>4, <1>5, NothingStreamed
  <1>6. CASE mode.stream
    <2>2. /\ Lists(told, At({"text", "raw"})) /\ words = told /\ Lists(thoughts, At({"thought"}))
          /\ mode.keyed # "no" => CallsKept
      BY <1>1, <1>6 DEF StreamOK
    <2>3. Append(thoughts, n + 1) \in Seq(Positions)
          /\ Lists(Append(thoughts, n + 1), At({"thought"}) \cup {n + 1})
      BY <1>3, <2>2, AtIs, PositionsNext DEF StreamTyped
    <2>4. At({"text", "raw"})' = At({"text", "raw"}) /\ At({"thought"})' = At({"thought"}) \cup {n + 1}
      BY <1>3
    <2>5. mode.keyed # "no" => CallsKept'
      BY <1>1, <1>2, <1>3, <2>2, CallsStay
    <2>6. StreamTyped'
      BY <1>1, <1>6, <2>3 DEF StreamTyped
    <2>7. Lists(told', At({"text", "raw"})') /\ words' = told' /\ Lists(thoughts', At({"thought"})')
      BY <1>1, <1>6, <2>2, <2>3, <2>4
    <2> QED
      BY <1>1, <1>2, <1>4, <1>6, <2>5, <2>6, <2>7 DEF StreamOK
  <1> QED
    BY <1>5, <1>6

\* What CallsKept says of the ids, as a list.
LEMMA IdsAre ==
  ASSUME StreamTyped, NEW m, m = Len(entries)
  PROVE  LET ids == [k \in DOMAIN entries |-> entries[k].id]
         IN  /\ m \in Nat /\ DOMAIN entries = 1 .. m /\ entries \in Seq(Block)
             /\ ids \in Seq(Nat) /\ Len(ids) = m /\ DOMAIN ids = 1 .. m
             /\ \A k \in 1 .. m : entries[k] \in Block /\ ids[k] = entries[k].id
  <1> DEFINE ids == [k \in DOMAIN entries |-> entries[k].id]
  <1>1. m \in Nat /\ DOMAIN entries = 1 .. m /\ entries \in Seq(Block)
        /\ \A k \in 1 .. m : entries[k] \in Block
    BY LenProperties, ElementOfSeq DEF StreamTyped
  <1>2. \A k \in 1 .. m : entries[k].id \in Nat
    BY <1>1 DEF Block, Positions, ModelReplyAssumption
  <1>3. ids \in [1 .. m -> Nat]
    BY <1>1, <1>2
  <1>4. ids \in Seq(Nat)
    BY <1>1, <1>3, SeqDef
  <1>5. Len(ids) = m /\ DOMAIN ids = 1 .. m
    BY <1>1, <1>3, <1>4, LenProperties
  <1> QED
    BY <1>1, <1>4, <1>5

\* The first delta of a call makes a new entry, however the call is named.
LEMMA CallDeltaKeeps ==
  ASSUME ModeOK, SaidOK, StreamTyped, StreamOK, CallDelta
  PROVE  SaidOK' /\ StreamTyped' /\ StreamOK'
  <1> PICK n : n = Len(said)
    OBVIOUS
  <1> PICK m : m = Len(entries)
    OBVIOUS
  <1>1. /\ mode.api # "anthropic" /\ Says("call", 0)
        /\ told' = told /\ words' = words /\ thoughts' = thoughts
    BY DEF CallDelta
  <1>2. /\ SaidGrows(n, "call", 0) /\ Len(said) < MaxSaid /\ mode' = mode
        /\ said' = Append(said, [kind |-> "call", of |-> 0]) /\ "call" \in Kinds
    BY <1>1, SaysIs DEF Kinds
  <1>3. /\ n \in Nat /\ n + 1 <= MaxSaid
        /\ \A kinds : At(kinds)' = IF "call" \in kinds THEN At(kinds) \cup {n + 1} ELSE At(kinds)
        /\ \A c : InputOf(c)' = InputOf(c)
        /\ InputOf(n + 1)' = {}
    BY <1>2, AtIs DEF SaidGrows
  <1>4. SaidOK'
    <2>1. 0 \in 0 .. n
      BY <1>3
    <2> QED
      BY <1>1, <1>2, <2>1, ItemsNext
  <1>5. CASE ~mode.stream
    <2>1. entries' = entries
      BY <1>5 DEF CallDelta
    <2> QED
      BY <1>1, <1>2, <1>4, <1>5, <2>1, NothingStreamed
  <1>6. CASE mode.stream
    <2> DEFINE ids == [k \in DOMAIN entries |-> entries[k].id]
               e == [id |-> n + 1, text |-> <<>>, input |-> <<>>]
    <2>1. mode.api = "openai"
      BY <1>1, <1>6 DEF ModeOK, Modes
    <2>2. /\ Lists(told, At({"text", "raw"})) /\ words = told /\ Lists(thoughts, At({"thought"}))
          /\ mode.keyed # "no" => CallsKept
      BY <1>6, <2>1 DEF StreamOK
    <2>3. /\ m \in Nat /\ DOMAIN entries = 1 .. m /\ entries \in Seq(Block)
          /\ ids \in Seq(Nat) /\ Len(ids) = m /\ DOMAIN ids = 1 .. m
          /\ \A k \in 1 .. m : entries[k] \in Block /\ ids[k] = entries[k].id
      BY IdsAre
    <2> HIDE DEF ids
    <2>4. At({"call"}) \in SUBSET (1 .. n)
      BY AtIs
    <2>5. EntryOf(n + 1) = m + 1
      <3>1. ASSUME mode.keyed # "no" PROVE Lists(ids, At({"call"}))
        BY <2>2, <3>1 DEF CallsKept, ids
      <3>2. CASE mode.keyed = "index"
        <4>1. {i \in At({"call"}) : i < n + 1} = At({"call"})
          BY <1>3, <2>4
        <4>2. Cardinality(At({"call"})) = m
          BY <2>3, <3>1, <3>2, ListsSize
        <4> QED
          BY <3>2, <4>1, <4>2 DEF EntryOf
      <3>3. CASE mode.keyed = "id"
        <4>1. ASSUME NEW k \in Known(n + 1) PROVE FALSE
          <5>1. k \in 1 .. m /\ ids[k] = n + 1
            BY <2>3, <4>1 DEF Known
          <5>2. ids[k] \in At({"call"})
            BY <2>3, <3>1, <3>3, <5>1, ListsIs
          <5> QED
            BY <1>3, <2>4, <5>1, <5>2
        <4> QED
          BY <3>3, <4>1 DEF EntryOf, NewIndex
      <3>4. CASE mode.keyed = "no"
        BY <3>4 DEF EntryOf, NewIndex
      <3> QED
        BY <3>2, <3>3, <3>4 DEF ModeOK, Modes
    <2>6. entries' = Append(entries, e)
      BY <1>6, <2>5 DEF CallDelta, PutEntry, This, Entry, NewIndex
    <2>7. e \in Block /\ e.id = n + 1 /\ e.input = <<>>
      <3>1. n + 1 \in Positions /\ <<>> \in Seq(Positions)
        BY <1>3, EmptySeq DEF Positions, ModelReplyAssumption
      <3> QED
        BY <3>1 DEF Block
    <2> HIDE DEF e
    <2>8. /\ entries' \in Seq(Block) /\ DOMAIN entries' = 1 .. m + 1 /\ entries'[m + 1] = e
          /\ \A k \in 1 .. m : entries'[k] = entries[k]
      BY <2>3, <2>6, <2>7, AppendProperties, LenProperties
    <2>9. StreamTyped'
      BY <1>1, <2>8 DEF StreamTyped
    <2>10. \A k \in 1 .. m + 1 : k \in 1 .. m \/ k = m + 1
      BY <2>3
    <2>11. ASSUME mode.keyed # "no" PROVE CallsKept'
      <3>1. Lists(ids, At({"call"})) /\ CallsKept
        BY <2>2, <2>11 DEF CallsKept, ids
      <3>2. n + 1 \in Nat /\ \A y \in At({"call"}) : y < n + 1
        BY <1>3, <2>4
      <3>3. Append(ids, n + 1) \in Seq(Nat) /\ Lists(Append(ids, n + 1), At({"call"}) \cup {n + 1})
        BY <2>3, <3>1, <3>2, ListsAppend
      <3>4. [k \in DOMAIN entries' |-> entries'[k].id] = Append(ids, n + 1)
        <4> DEFINE new == Append(ids, n + 1)
        <4>1. /\ DOMAIN new = 1 .. m + 1 /\ new[m + 1] = n + 1
              /\ \A k \in 1 .. m : new[k] = ids[k]
          BY <2>3, <3>2, AppendProperties, LenProperties
        <4>2. new = [k \in 1 .. m + 1 |-> new[k]]
          BY <3>3, <4>1, LenProperties
        <4> HIDE DEF new
        <4>3. \A k \in 1 .. m + 1 : new[k] = entries'[k].id
          BY <2>3, <2>7, <2>8, <2>10, <4>1
        <4> QED
          BY <2>8, <4>2, <4>3 DEF new
      <3>5. ASSUME NEW k \in DOMAIN entries' PROVE Lists(entries[k].input, InputOf(entries[k].id))'
        <4>1. \A c : c = entries'[k].id => Lists(entries'[k].input, InputOf(c)')
          <5>1. CASE k \in 1 .. m
            <6>1. Lists(entries[k].input, InputOf(entries[k].id))
              BY <2>3, <3>1, <5>1 DEF CallsKept
            <6> QED
              BY <1>3, <2>8, <5>1, <6>1
          <5>2. CASE k = m + 1
            <6>1. entries'[k].input = <<>> /\ entries'[k].id = n + 1
              BY <2>7, <2>8, <5>2
            <6> QED
              BY <1>3, <6>1, ListsNothing
          <5> QED
            BY <2>8, <2>10, <3>5, <5>1, <5>2
        <4> QED
          BY <4>1 DEF InputOf, At
      <3>6. At({"call"})' = At({"call"}) \cup {n + 1}
        BY <1>3
      <3> QED
        BY <3>3, <3>4, <3>5, <3>6 DEF CallsKept
    <2>12. Lists(told', At({"text", "raw"})') /\ words' = told' /\ Lists(thoughts', At({"thought"})')
      BY <1>1, <1>3, <2>2
    <2> QED
      BY <1>2, <1>4, <1>6, <2>1, <2>9, <2>11, <2>12 DEF StreamOK
  <1> QED
    BY <1>5, <1>6

\* A call's entry is found by its index and by its id alike.
LEMMA EntryIs ==
  ASSUME ModeOK, SaidOK, StreamTyped, CallsKept, NEW c \in At({"call"}), mode.keyed # "no"
  PROVE  EntryOf(c) \in DOMAIN entries /\ entries[EntryOf(c)].id = c
  <1> PICK m : m = Len(entries)
    OBVIOUS
  <1> DEFINE ids == [k \in DOMAIN entries |-> entries[k].id]
  <1>1. /\ m \in Nat /\ DOMAIN entries = 1 .. m
        /\ ids \in Seq(Nat) /\ Len(ids) = m
        /\ \A k \in 1 .. m : ids[k] = entries[k].id
    BY IdsAre
  <1>2. Lists(ids, At({"call"}))
    BY DEF CallsKept
  <1> HIDE DEF ids
  <1>3. PICK k \in 1 .. m : ids[k] = c
    BY <1>1, <1>2, ListsIs
  <1>4. CASE mode.keyed = "index"
    <2>1. Cardinality({i \in At({"call"}) : i < ids[k]}) = k - 1
      BY <1>1, <1>2, ListsSize
    <2>2. EntryOf(c) = (k - 1) + 1
      BY <1>3, <1>4, <2>1 DEF EntryOf
    <2>3. EntryOf(c) = k
      BY <1>1, <2>2
    <2> QED
      BY <1>1, <1>3, <2>3
  <1>5. CASE mode.keyed = "id"
    <2>1. k \in Known(c)
      BY <1>1, <1>3 DEF Known
    <2>2. EntryOf(c) \in Known(c)
      BY <1>5, <2>1 DEF EntryOf
    <2> QED
      BY <2>2 DEF Known
  <1> QED
    BY <1>4, <1>5 DEF ModeOK, Modes

\* A piece of a call's input goes to the call, whichever others are open.
LEMMA InputDeltaKeeps ==
  ASSUME ModeOK, SaidOK, StreamTyped, StreamOK, NEW c \in DOMAIN said, InputDelta(c)
  PROVE  SaidOK' /\ StreamTyped' /\ StreamOK'
  <1> PICK n : n = Len(said)
    OBVIOUS
  <1> PICK m : m = Len(entries)
    OBVIOUS
  <1>1. /\ mode.api # "anthropic" /\ c \in At({"call"}) /\ Cardinality(InputOf(c)) < 2
        /\ Says("input", c)
        /\ told' = told /\ words' = words /\ thoughts' = thoughts
    BY DEF InputDelta, InputIsOpen
  <1>2. /\ n \in Nat /\ c \in 1 .. n /\ c \in Nat /\ MaxSaid \in Nat
        /\ "input" \in Kinds
    BY AtIs DEF Kinds
  <1>3. /\ SaidGrows(n, "input", c) /\ Len(said) < MaxSaid /\ mode' = mode
        /\ said' = Append(said, [kind |-> "input", of |-> c])
    BY <1>1, <1>2, SaysIs
  <1>4. /\ n + 1 <= MaxSaid
        /\ \A kinds : At(kinds)' = IF "input" \in kinds THEN At(kinds) \cup {n + 1} ELSE At(kinds)
        /\ \A d : InputOf(d)' = IF c = d THEN InputOf(d) \cup {n + 1} ELSE InputOf(d)
    BY <1>3 DEF SaidGrows
  <1>5. SaidOK'
    <2>1. c \in 0 .. n
      BY <1>2
    <2> QED
      BY <1>1, <1>2, <1>3, <2>1, ItemsNext
  <1>6. CASE ~mode.stream
    <2>1. entries' = entries
      BY <1>6 DEF InputDelta
    <2> QED
      BY <1>1, <1>3, <1>5, <1>6, <2>1, NothingStreamed
  <1>7. CASE mode.stream
    <2> DEFINE k == EntryOf(c)
               old == IF k \in DOMAIN entries THEN entries[k] ELSE Entry(0, <<>>)
               e == [old EXCEPT !.input = Append(@, n + 1)]
               ids == [j \in DOMAIN entries |-> entries[j].id]
    <2>1. mode.api = "openai"
      BY <1>1, <1>7 DEF ModeOK, Modes
    <2>2. /\ Lists(told, At({"text", "raw"})) /\ words = told /\ Lists(thoughts, At({"thought"}))
          /\ mode.keyed # "no" => CallsKept
      BY <1>7, <2>1 DEF StreamOK
    <2>3. /\ m \in Nat /\ DOMAIN entries = 1 .. m /\ entries \in Seq(Block)
          /\ ids \in Seq(Nat) /\ Len(ids) = m /\ DOMAIN ids = 1 .. m
          /\ \A j \in 1 .. m : entries[j] \in Block /\ ids[j] = entries[j].id
      BY IdsAre
    <2> HIDE DEF ids
    <2>4. n + 1 \in Positions /\ 0 \in Positions
      BY <1>2, <1>4 DEF Positions
    <2>5. old \in Block
      <3>1. Entry(0, <<>>) \in Block
        BY <2>4, EmptySeq DEF Entry, Block
      <3> QED
        BY <2>3, <3>1
    <2>6. PutEntry(k, e)
      BY <1>7 DEF InputDelta, This
    <2> HIDE DEF old
    <2>7. e \in Block /\ e.id = old.id /\ e.input = Append(old.input, n + 1)
      <3>1. Append(old.input, n + 1) \in Seq(Positions)
        <4>1. old.input \in Seq(Positions)
          BY <2>5 DEF Block
        <4> QED
          BY <2>4, <4>1, AppendProperties
      <3> QED
        BY <2>5, <3>1 DEF Block
    <2> HIDE DEF e
    <2>8. mode.keyed # "no" => k \in 1 .. m /\ entries[k].id = c /\ old = entries[k]
      BY <1>1, <2>2, <2>3, EntryIs DEF old
    <2>9. k \in 1 .. m \/ k = m + 1
      BY <2>8 DEF EntryOf, NewIndex
    <2> HIDE DEF k
    <2>10. ASSUME k = m + 1 PROVE entries' \in Seq(Block)
      <3>1. entries' = Append(entries, e)
        BY <2>6, <2>10 DEF PutEntry, NewIndex
      <3> QED
        BY <2>3, <2>7, <3>1, AppendProperties
    <2>11. ASSUME k \in 1 .. m
           PROVE  /\ entries' \in Seq(Block) /\ DOMAIN entries' = 1 .. m /\ entries'[k] = e
                  /\ \A j \in 1 .. m : j # k => entries'[j] = entries[j]
      <3>1. k # m + 1
        BY <2>3, <2>11
      <3>2. entries' = [entries EXCEPT ![k] = e]
        BY <2>6, <3>1 DEF PutEntry, NewIndex
      <3> QED
        BY <2>3, <2>7, <2>11, <3>2, BlocksWith
    <2>12. StreamTyped'
      BY <1>1, <2>9, <2>10, <2>11 DEF StreamTyped
    <2>13. ASSUME mode.keyed # "no" PROVE CallsKept'
      <3>1. /\ Lists(ids, At({"call"})) /\ CallsKept /\ k \in 1 .. m /\ ids[k] = c
            /\ old = entries[k] /\ entries[k].id = c
        BY <2>2, <2>3, <2>8, <2>13 DEF CallsKept, ids
      <3>2. \A j \in 1 .. m : entries'[j].id = entries[j].id
        BY <2>7, <2>11, <3>1
      <3>3. [j \in DOMAIN entries' |-> entries'[j].id] = ids
        BY <2>3, <2>11, <3>1, <3>2 DEF ids
      <3>4. ASSUME NEW j \in 1 .. m PROVE Lists(entries[j].input, InputOf(entries[j].id))'
        <4>1. \A d : d = entries'[j].id => Lists(entries'[j].input, InputOf(d)')
          <5>1. CASE j # k
            <6>1. ids[j] # c /\ ids[j] = entries[j].id
              BY <2>3, <3>1, <5>1, ListsIs
            <6>2. Lists(entries[j].input, InputOf(entries[j].id))
              BY <2>3, <3>1 DEF CallsKept
            <6> QED
              BY <1>4, <2>11, <3>1, <5>1, <6>1, <6>2
          <5>2. CASE j = k
            <6>1. Lists(old.input, InputOf(c)) /\ old.input \in Seq(Positions)
              BY <2>3, <2>5, <3>1 DEF CallsKept, Block
            <6>2. InputOf(c) \in SUBSET (1 .. n)
              BY AtIs
            <6>3. Lists(Append(old.input, n + 1), InputOf(c) \cup {n + 1})
              BY <1>2, <1>4, <6>1, <6>2, PositionsNext
            <6>4. entries'[j].id = c /\ entries'[j].input = Append(old.input, n + 1)
              BY <2>7, <2>11, <3>1, <5>2
            <6> QED
              BY <1>4, <6>3, <6>4
          <5> QED
            BY <5>1, <5>2
        <4> QED
          BY <4>1 DEF InputOf, At
      <3>5. At({"call"})' = At({"call"})
        BY <1>4
      <3> QED
        BY <2>11, <3>1, <3>3, <3>4, <3>5 DEF CallsKept
    <2>14. Lists(told', At({"text", "raw"})') /\ words' = told' /\ Lists(thoughts', At({"thought"})')
      BY <1>1, <1>4, <2>2
    <2> QED
      BY <1>3, <1>5, <1>7, <2>1, <2>12, <2>13, <2>14 DEF StreamOK
  <1> QED
    BY <1>6, <1>7

\* The items of a list of positions, in their order.
LEMMA HasListed ==
  ASSUME NEW seq \in Seq(Nat), NEW S, Lists(seq, S),
         NEW content, DOMAIN content = 1 .. Len(seq),
         \A k \in 1 .. Len(seq) : content[k].at = seq[k],
         NEW T \in SUBSET (1 .. Len(seq))
  PROVE  Has(content, T, {content[k] : k \in T})
  <1>1. \A j, k \in 1 .. Len(seq) : j < k => seq[j] < seq[k]
    BY ListsIs
  <1>2. \A j, k \in T : j < k => content[j].at < content[k].at
    BY <1>1
  <1> QED
    BY <1>2 DEF Has

\* What is listed and shown for what it is, is kept.
LEMMA KeepsShown ==
  ASSUME SaidOK, NEW S \in SUBSET (1 .. Len(said)), NEW seq \in Seq(Nat), Lists(seq, S),
         NEW content, content = [k \in 1 .. Len(seq) |-> content[k]],
         \A k \in 1 .. Len(seq) :
            content[k] = IF said[seq[k]].kind = "call" THEN CallOf(seq[k]) ELSE TextItem(seq[k])
  PROVE  Keeps(content, {CallOf(c) : c \in S \cap At({"call"})},
                        {TextItem(i) : i \in S \ At({"call", "thought"})})
  <1> DEFINE m == Len(seq)
             Shown(i) == IF said[i].kind = "call" THEN CallOf(i) ELSE TextItem(i)
  <1>1. /\ m \in Nat /\ DOMAIN seq = 1 .. m
        /\ \A k \in 1 .. m : seq[k] \in S /\ seq[k] \in Nat
        /\ \A i \in S : i \in Nat /\ \E k \in 1 .. m : seq[k] = i
    BY ListsIs
  <1>2. \A i, kinds : i \in S => (i \in At(kinds) <=> said[i].kind \in kinds)
    BY AtIs
  <1>3. /\ \A i \in Nat : CallOf(i) \in Item /\ TextItem(i) \in Item
        /\ \A i : CallOf(i).at = i /\ TextItem(i).at = i
        /\ \A i : CallOf(i).kind = "call" /\ TextItem(i).kind = "text"
    BY DEF CallOf, TextItem, Item
  <1>4. /\ DOMAIN content = 1 .. m
        /\ \A k \in 1 .. m : content[k] = Shown(seq[k])
    OBVIOUS
  <1>5. \A k \in 1 .. m : content[k] \in Item /\ content[k].at = seq[k]
                          /\ (content[k].kind = "call" <=> said[seq[k]].kind = "call")
    BY <1>1, <1>3, <1>4
  <1>6. content \in Seq(Item)
    <2>1. content \in [1 .. m -> Item]
      BY <1>5
    <2> QED
      BY <1>1, <2>1, SeqDef
  <1>7. CallsIn(content) \in SUBSET (1 .. m) /\ WordsIn(content) \in SUBSET (1 .. m)
    BY <1>4 DEF CallsIn, WordsIn
  <1>8. /\ \A k \in 1 .. m : k \in CallsIn(content) <=> seq[k] \in At({"call"})
        /\ \A k \in 1 .. m : k \in WordsIn(content) <=> seq[k] \notin At({"call", "thought"})
    <2>1. \A i \in S : /\ i \in At({"call"}) <=> said[i].kind = "call"
                       /\ i \in At({"call", "thought"}) <=> said[i].kind \in {"call", "thought"}
      BY <1>2
    <2> QED
      BY <1>1, <1>4, <1>5, <2>1 DEF CallsIn, WordsIn
  <1>9. {content[k] : k \in CallsIn(content)} = {CallOf(c) : c \in S \cap At({"call"})}
    <2>1. ASSUME NEW k \in CallsIn(content)
          PROVE  content[k] = CallOf(seq[k]) /\ seq[k] \in S \cap At({"call"})
      BY <1>1, <1>2, <1>4, <1>7, <1>8
    <2>2. ASSUME NEW c \in S \cap At({"call"})
          PROVE  \E k \in CallsIn(content) : content[k] = CallOf(c)
      BY <1>1, <1>8, <2>1
    <2>3. \A x \in {content[k] : k \in CallsIn(content)} :
             x \in {CallOf(c) : c \in S \cap At({"call"})}
      <3> SUFFICES ASSUME NEW k \in CallsIn(content)
                   PROVE  \E c \in S \cap At({"call"}) : content[k] = CallOf(c)
        OBVIOUS
      <3> QED
        BY <2>1
    <2>4. \A x \in {CallOf(c) : c \in S \cap At({"call"})} :
             x \in {content[k] : k \in CallsIn(content)}
      BY <2>2
    <2> QED
      BY ONLY <2>3, <2>4
  <1>10. {content[k] : k \in WordsIn(content)} = {TextItem(i) : i \in S \ At({"call", "thought"})}
    <2>1. ASSUME NEW k \in WordsIn(content)
          PROVE  content[k] = TextItem(seq[k]) /\ seq[k] \in S \ At({"call", "thought"})
      BY <1>1, <1>2, <1>4, <1>7, <1>8
    <2>2. ASSUME NEW i \in S \ At({"call", "thought"})
          PROVE  \E k \in WordsIn(content) : content[k] = TextItem(i)
      BY <1>1, <1>8, <2>1
    <2> QED
      BY <2>1, <2>2
  <1> HIDE DEF m
  <1>12. \A T \in SUBSET (1 .. m) : Has(content, T, {content[k] : k \in T})
    <2>1. /\ DOMAIN content = 1 .. Len(seq)
          /\ \A k \in 1 .. Len(seq) : content[k].at = seq[k]
      BY <1>4, <1>5 DEF m
    <2> QED
      BY ONLY <2>1, seq \in Seq(Nat), Lists(seq, S), HasListed DEF m
  <1>11. /\ Has(content, CallsIn(content), {content[k] : k \in CallsIn(content)})
         /\ Has(content, WordsIn(content), {content[k] : k \in WordsIn(content)})
    BY <1>7, <1>12
  <1> QED
    BY <1>6, <1>9, <1>10, <1>11 DEF Keeps

\* What two contents have, one behind the other.
LEMMA HasBoth ==
  ASSUME NEW a \in Seq(Item), NEW b \in Seq(Item),
         NEW S \in SUBSET (1 .. Len(a)), NEW T \in SUBSET (1 .. Len(b)), NEW I, NEW J,
         Has(a, S, I), Has(b, T, J), \A x \in I, y \in J : x.at < y.at,
         NEW U, U = {k \in 1 .. Len(a) + Len(b) : IF k <= Len(a) THEN k \in S ELSE k - Len(a) \in T}
  PROVE  Has(a \o b, U, I \cup J)
  <1> DEFINE m == Len(a)
             n == Len(b)
             c == a \o b
  <1>1. /\ m \in Nat /\ n \in Nat
        /\ \A k \in 1 .. m + n : c[k] = IF k <= m THEN a[k] ELSE b[k - m]
    BY LenProperties, ConcatProperties
  <1>2. /\ \A j, k \in S : j < k => a[j].at < a[k].at
        /\ \A k \in S : a[k] \in I
        /\ \A x \in I : \E k \in S : a[k] = x
        /\ \A j, k \in T : j < k => b[j].at < b[k].at
        /\ \A k \in T : b[k] \in J
        /\ \A x \in J : \E k \in T : b[k] = x
    BY DEF Has
  <1>3. \A k \in U : k \in 1 .. m + n /\ IF k <= m THEN k \in S ELSE k - m \in T
    OBVIOUS
  <1> HIDE DEF m, n, c
  <1>4. \A k \in U : IF k <= m THEN k \in S /\ c[k] = a[k] /\ c[k] \in I
                     ELSE k - m \in T /\ c[k] = b[k - m] /\ c[k] \in J
    BY <1>1, <1>2, <1>3
  <1>5. ASSUME NEW j \in U, NEW k \in U, j < k PROVE c[j].at < c[k].at
    <2>1. j \in 1 .. m + n /\ k \in 1 .. m + n
      BY <1>3
    <2>2. CASE k <= m
      <3>1. j <= m
        BY <1>1, <1>5, <2>1, <2>2
      <3> QED
        BY <1>2, <1>4, <1>5, <2>2, <3>1
    <2>3. CASE j <= m /\ ~(k <= m)
      BY <1>4, <2>3
    <2>4. CASE ~(j <= m) /\ ~(k <= m)
      <3>1. j - m < k - m
        BY <1>1, <1>5, <2>1
      <3> QED
        BY <1>2, <1>4, <2>4, <3>1
    <2> QED
      BY <2>2, <2>3, <2>4
  <1>6. ASSUME NEW x \in I PROVE \E k \in U : c[k] = x
    <2>1. PICK k \in S : a[k] = x
      BY <1>2
    <2>2. k \in U /\ k <= m
      BY <1>1, <2>1 DEF m, n
    <2> QED
      BY <1>4, <2>1, <2>2
  <1>7. ASSUME NEW x \in J PROVE \E k \in U : c[k] = x
    <2>1. PICK k \in T : b[k] = x
      BY <1>2
    <2>2. k + m \in U /\ ~(k + m <= m) /\ (k + m) - m = k
      BY <1>1, <2>1 DEF m, n
    <2> QED
      BY <1>4, <2>1, <2>2
  <1>8. {c[k] : k \in U} = I \cup J
    BY <1>4, <1>6, <1>7
  <1> QED
    BY <1>5, <1>8 DEF Has, c

\* A content behind another has the calls and the text of both, in order.
LEMMA KeepsBoth ==
  ASSUME NEW a, NEW b, NEW C, NEW D, NEW V, NEW W, Keeps(a, C, V), Keeps(b, D, W),
         \A x \in C, y \in D : x.at < y.at, \A x \in V, y \in W : x.at < y.at
  PROVE  Keeps(a \o b, C \cup D, V \cup W)
  <1> DEFINE m == Len(a)
             n == Len(b)
             c == a \o b
  <1>1. /\ a \in Seq(Item) /\ b \in Seq(Item) /\ m \in Nat /\ n \in Nat
        /\ DOMAIN a = 1 .. m /\ DOMAIN b = 1 .. n
    BY LenProperties DEF Keeps
  <1>2. /\ c \in Seq(Item) /\ DOMAIN c = 1 .. m + n
        /\ \A k \in 1 .. m + n : c[k] = IF k <= m THEN a[k] ELSE b[k - m]
    <2>1. /\ c \in Seq(Item) /\ Len(c) = m + n
          /\ \A k \in 1 .. m + n : c[k] = IF k <= m THEN a[k] ELSE b[k - m]
      BY <1>1, ConcatProperties
    <2> QED
      BY <2>1, LenProperties
  <1> HIDE DEF m, n, c
  <1>3. ASSUME NEW k \in 1 .. m + n
        PROVE  /\ k \in CallsIn(c) <=> IF k <= m THEN k \in CallsIn(a) ELSE k - m \in CallsIn(b)
               /\ k \in WordsIn(c) <=> IF k <= m THEN k \in WordsIn(a) ELSE k - m \in WordsIn(b)
    <2>1. IF k <= m THEN k \in 1 .. m ELSE k - m \in 1 .. n
      BY <1>1
    <2> QED
      BY <1>1, <1>2, <2>1 DEF CallsIn, WordsIn
  <1>4. CallsIn(c) \in SUBSET (1 .. m + n) /\ WordsIn(c) \in SUBSET (1 .. m + n)
    BY <1>2 DEF CallsIn, WordsIn
  <1>5. /\ CallsIn(c) = {k \in 1 .. m + n : IF k <= m THEN k \in CallsIn(a) ELSE k - m \in CallsIn(b)}
        /\ WordsIn(c) = {k \in 1 .. m + n : IF k <= m THEN k \in WordsIn(a) ELSE k - m \in WordsIn(b)}
    BY <1>3, <1>4
  <1>6. /\ CallsIn(a) \in SUBSET (1 .. m) /\ WordsIn(a) \in SUBSET (1 .. m)
        /\ CallsIn(b) \in SUBSET (1 .. n) /\ WordsIn(b) \in SUBSET (1 .. n)
    BY <1>1 DEF CallsIn, WordsIn
  <1>7. Has(c, CallsIn(c), C \cup D)
    BY <1>1, <1>5, <1>6, HasBoth DEF Keeps, m, n, c
  <1>8. Has(c, WordsIn(c), V \cup W)
    BY <1>1, <1>5, <1>6, HasBoth DEF Keeps, m, n, c
  <1> QED
    BY <1>2, <1>7, <1>8 DEF Keeps, c

\* A call that has been put together is the call with its own input.
LEMMA CallItemIs ==
  ASSUME SaidOK, NEW c, NEW input \in Seq(Nat), Lists(input, InputOf(c))
  PROVE  CallItem(c, input) = CallOf(c)
  <1> DEFINE n == Len(input)
  <1>1. n \in Nat /\ \A k \in 1 .. n : input[k] \in InputOf(c)
    BY ListsIs
  <1>2. Cardinality(InputOf(c)) = n
    BY ListsSize
  <1>3. \A i \in InputOf(c) : said[i].of = c
    BY DEF InputOf
  <1>4. n = 2 => said[input[1]].of = said[input[2]].of
    <2> HIDE DEF n
    <2> SUFFICES ASSUME n = 2 PROVE said[input[1]].of = said[input[2]].of
      OBVIOUS
    <2>1. 1 \in 1 .. n /\ 2 \in 1 .. n
      OBVIOUS
    <2> QED
      BY <1>1, <1>3, <2>1
  <1> QED
    BY <1>2, <1>4 DEF CallItem, CallOf, ParsedInput

\* What is said, as an item of a reply.
LEMMA ItemOfIs ==
  ASSUME SaidOK, NEW i \in 1 .. Len(said)
  PROVE  ItemOf(i) = IF said[i].kind = "call" THEN CallOf(i) ELSE TextItem(i)
  <1>1. InputOf(i) \in SUBSET (1 .. Len(said)) /\ Len(said) \in Nat
    BY AtIs
  <1>2. InOrder(InputOf(i)) \in Seq(Nat) /\ Lists(InOrder(InputOf(i)), InputOf(i))
    BY <1>1, InOrderIs
  <1>3. CallItem(i, InOrder(InputOf(i))) = CallOf(i)
    BY <1>2, CallItemIs
  <1> QED
    BY <1>3 DEF ItemOf

\* What has been said, in its order.
LEMMA KeepsItems ==
  ASSUME SaidOK, NEW S \in SUBSET (1 .. Len(said))
  PROVE  Keeps(ItemsOf(InOrder(S)), {CallOf(c) : c \in S \cap At({"call"})},
                                    {TextItem(i) : i \in S \ At({"call", "thought"})})
  <1> DEFINE seq == InOrder(S)
             content == ItemsOf(seq)
  <1>1. Len(said) \in Nat
    BY AtIs
  <1>2. seq \in Seq(Nat) /\ Lists(seq, S)
    BY <1>1, InOrderIs
  <1> HIDE DEF seq
  <1>3. DOMAIN seq = 1 .. Len(seq) /\ \A k \in 1 .. Len(seq) : seq[k] \in S
    BY <1>2, ListsIs
  <1>4. content = [k \in 1 .. Len(seq) |-> content[k]]
        /\ \A k \in 1 .. Len(seq) : content[k] = ItemOf(seq[k])
    BY <1>3 DEF ItemsOf
  <1>5. \A k \in 1 .. Len(seq) :
           content[k] = IF said[seq[k]].kind = "call" THEN CallOf(seq[k]) ELSE TextItem(seq[k])
    BY <1>3, <1>4, ItemOfIs
  <1> HIDE DEF content
  <1>6. Keeps(content, {CallOf(c) : c \in S \cap At({"call"})},
                       {TextItem(i) : i \in S \ At({"call", "thought"})})
    BY ONLY SaidOK, S \in SUBSET (1 .. Len(said)), <1>2, <1>4, <1>5, KeepsShown
  <1> QED
    BY <1>6 DEF content, seq

\* Pieces of text in their order.
LEMMA KeepsTexts ==
  ASSUME SaidOK, NEW S \in SUBSET (1 .. Len(said)), S \cap At({"call"}) = {},
         NEW seq \in Seq(Nat), Lists(seq, S)
  PROVE  Keeps(TextItems(seq), {}, {TextItem(i) : i \in S \ At({"thought"})})
  <1> DEFINE content == TextItems(seq)
  <1>1. DOMAIN seq = 1 .. Len(seq) /\ \A k \in 1 .. Len(seq) : seq[k] \in S
    BY ListsIs
  <1>2. content = [k \in 1 .. Len(seq) |-> content[k]]
        /\ \A k \in 1 .. Len(seq) : content[k] = TextItem(seq[k])
    BY <1>1 DEF TextItems
  <1>3. \A i \in S : said[i].kind # "call"
    BY AtIs
  <1>4. \A k \in 1 .. Len(seq) :
           content[k] = IF said[seq[k]].kind = "call" THEN CallOf(seq[k]) ELSE TextItem(seq[k])
    BY <1>1, <1>2, <1>3
  <1> HIDE DEF content
  <1>5. Keeps(content, {CallOf(c) : c \in S \cap At({"call"})},
                       {TextItem(i) : i \in S \ At({"call", "thought"})})
    BY ONLY SaidOK, S \in SUBSET (1 .. Len(said)), seq \in Seq(Nat), Lists(seq, S),
            <1>2, <1>4, KeepsShown
  <1>6. {CallOf(c) : c \in S \cap At({"call"})} = {}
    OBVIOUS
  <1>7. S \ At({"call", "thought"}) = S \ At({"thought"})
    BY AtIs
  <1> QED
    BY <1>5, <1>6, <1>7 DEF content

\* Calls that are spelt out, as calls.
LEMMA KeepsRaw ==
  ASSUME NEW S, NEW seq \in Seq(Nat), Lists(seq, S), S # {}
  PROVE  \E C : C # {} /\ Keeps(RawCalls(seq), C, {}) /\ \A x \in C : x.input = "whole"
  <1> DEFINE content == RawCalls(seq)
             C == {content[k] : k \in 1 .. Len(seq)}
  <1>1. /\ DOMAIN seq = 1 .. Len(seq) /\ Len(seq) \in Nat /\ \A k \in 1 .. Len(seq) : seq[k] \in Nat
        /\ \E k \in 1 .. Len(seq) : TRUE
    BY ListsIs
  <1>2. /\ content \in [1 .. Len(seq) -> Item]
        /\ \A k \in 1 .. Len(seq) :
              content[k].at = seq[k] /\ content[k].kind = "call" /\ content[k].input = "whole"
    BY <1>1 DEF RawCalls, Item
  <1> HIDE DEF content
  <1>3. content \in Seq(Item) /\ DOMAIN content = 1 .. Len(seq)
    BY <1>1, <1>2, SeqDef
  <1>4. CallsIn(content) = 1 .. Len(seq) /\ WordsIn(content) = {}
    BY <1>2, <1>3 DEF CallsIn, WordsIn
  <1>5. Has(content, 1 .. Len(seq), C)
    <2>1. \A T \in SUBSET (1 .. Len(seq)) : Has(content, T, {content[k] : k \in T})
      BY ONLY <1>2, <1>3, seq \in Seq(Nat), Lists(seq, S), HasListed
    <2> QED
      BY <2>1
  <1>6. Has(content, {}, {})
    BY DEF Has
  <1>7. Keeps(content, C, {})
    BY <1>3, <1>4, <1>5, <1>6 DEF Keeps
  <1>8. C # {} /\ \A x \in C : x.input = "whole"
    BY <1>1, <1>2
  <1> QED
    BY <1>7, <1>8 DEF content

\* A content with calls has a call.
LEMMA KeepsHasCall ==
  ASSUME NEW content, NEW C, NEW W, Keeps(content, C, W), C # {}
  PROVE  HasCall(content)
  BY DEF Keeps, Has, CallsIn, HasCall

\* Text that spells out calls, by what is listed.
LEMMA AllRawIs ==
  ASSUME SaidOK, NEW S \in SUBSET (1 .. Len(said)), NEW seq \in Seq(Nat), Lists(seq, S)
  PROVE  AllRaw(seq) <=> S # {} /\ S \subseteq At({"raw"})
  <1>1. /\ DOMAIN seq = 1 .. Len(seq)
        /\ \A k \in 1 .. Len(seq) : seq[k] \in S
        /\ \A i \in S : \E k \in 1 .. Len(seq) : seq[k] = i
        /\ S = {} <=> seq = <<>>
    BY ListsIs
  <1>2. \A i \in S : i \in At({"raw"}) <=> said[i].kind = "raw"
    BY AtIs
  <1> QED
    BY <1>1, <1>2 DEF AllRaw

\* The text that is spoken lists the items of text and of calls spelt out.
LEMMA SpokenIs ==
  ASSUME SaidOK
  PROVE  /\ Spoken \in Seq(Nat) /\ Lists(Spoken, At({"text", "raw"}))
         /\ AllRaw(Spoken) <=> At({"text", "raw"}) # {} /\ At({"text"}) = {}
  <1>1. At({"text", "raw"}) \in SUBSET (1 .. Len(said)) /\ Len(said) \in Nat
    BY AtIs
  <1>2. Spoken \in Seq(Nat) /\ Lists(Spoken, At({"text", "raw"}))
    BY <1>1, InOrderIs DEF Spoken
  <1>3. At({"text", "raw"}) \subseteq At({"raw"}) <=> At({"text"}) = {}
    BY AtIs DEF At
  <1> QED
    BY <1>1, <1>2, <1>3, AllRawIs

\* Positions by kinds are as the kinds are.
LEMMA AtSplits ==
  /\ \A K, L : At(K \cup L) = At(K) \cup At(L)
  /\ \A K, L : At(K \cap L) = At(K) \cap At(L)
  /\ \A K, L : At(K \ L) = At(K) \ At(L)
  /\ At({}) = {}
  BY DEF At

\* Only Anthropic's blocks come with a text.
LEMMA NoPreset ==
  ASSUME SaidOK, mode.api # "anthropic"
  PROVE  At({"text", "raw", "preset"}) = At({"text", "raw"})
  <1>1. At({"preset"}) = {}
    <2>1. \A i \in 1 .. Len(said) : said[i].kind # "preset"
      BY DEF SaidOK, IsItem
    <2> QED
      BY <2>1, AtIs
  <1>2. {"text", "raw"} \cup {"preset"} = {"text", "raw", "preset"}
    OBVIOUS
  <1>3. At({"text", "raw"} \cup {"preset"}) = At({"text", "raw"}) \cup At({"preset"})
    BY AtSplits
  <1> QED
    BY <1>1, <1>2, <1>3

\* Thoughts that are shown come first, and count for nothing else.
LEMMA KeepsVisible ==
  ASSUME SaidOK, NEW S \in SUBSET At({"text", "raw"}),
         NEW spoken \in Seq(Nat), Lists(spoken, S),
         NEW thought \in Seq(Nat), Lists(thought, At({"thought"}))
  PROVE  Keeps(TextItems(Visible(spoken, thought)), {}, {TextItem(i) : i \in S})
  <1>1. /\ S \in SUBSET (1 .. Len(said)) /\ S \cap At({"call"}) = {} /\ S \ At({"thought"}) = S
        /\ At({"thought"}) \in SUBSET (1 .. Len(said)) /\ At({"thought"}) \cap At({"call"}) = {}
        /\ At({"thought"}) \ At({"thought"}) = {}
    <2>1. /\ At({"text", "raw"}) \cap At({"call"}) = {} /\ At({"text", "raw"}) \cap At({"thought"}) = {}
          /\ At({"thought"}) \cap At({"call"}) = {}
      <3>1. /\ {"text", "raw"} \cap {"call"} = {} /\ {"text", "raw"} \cap {"thought"} = {}
            /\ {"thought"} \cap {"call"} = {}
        OBVIOUS
      <3> QED
        BY <3>1, AtSplits
    <2>2. /\ At({"text", "raw"}) \in SUBSET (1 .. Len(said))
          /\ At({"thought"}) \in SUBSET (1 .. Len(said))
      BY AtIs
    <2> QED
      BY <2>1, <2>2
  <1>2. Keeps(TextItems(spoken), {}, {TextItem(i) : i \in S})
    <2>1. Keeps(TextItems(spoken), {}, {TextItem(i) : i \in S \ At({"thought"})})
      BY <1>1, KeepsTexts
    <2> QED
      BY <1>1, <2>1
  <1>3. Keeps(TextItems(thought), {}, {})
    <2>1. Keeps(TextItems(thought), {}, {TextItem(i) : i \in At({"thought"}) \ At({"thought"})})
      BY <1>1, KeepsTexts
    <2>2. {TextItem(i) : i \in At({"thought"}) \ At({"thought"})} = {}
      OBVIOUS
    <2> QED
      BY <2>1, <2>2
  <1>4. TextItems(thought \o spoken) = TextItems(thought) \o TextItems(spoken)
    <2> DEFINE m == Len(thought)
               n == Len(spoken)
               both == thought \o spoken
               a == TextItems(thought)
               b == TextItems(spoken)
    <2>1. /\ m \in Nat /\ n \in Nat /\ DOMAIN thought = 1 .. m /\ DOMAIN spoken = 1 .. n
          /\ DOMAIN both = 1 .. m + n
          /\ \A k \in 1 .. m + n : both[k] = IF k <= m THEN thought[k] ELSE spoken[k - m]
      BY LenProperties, ConcatProperties
    <2>2. /\ a \in Seq(Item) /\ DOMAIN a = 1 .. m /\ b \in Seq(Item) /\ DOMAIN b = 1 .. n
      BY <1>2, <1>3, <2>1 DEF Keeps, TextItems
    <2>3. Len(a) = m /\ Len(b) = n
      BY <2>1, <2>2, LenProperties
    <2> HIDE DEF a, b
    <2>4. /\ a \o b \in Seq(Item) /\ DOMAIN (a \o b) = 1 .. m + n
          /\ \A k \in 1 .. m + n : (a \o b)[k] = IF k <= m THEN a[k] ELSE b[k - m]
      <3>1. /\ a \o b \in Seq(Item) /\ Len(a \o b) = m + n
            /\ \A k \in 1 .. m + n : (a \o b)[k] = IF k <= m THEN a[k] ELSE b[k - m]
        <4>1. /\ a \o b \in Seq(Item) /\ Len(a \o b) = Len(a) + Len(b)
              /\ \A k \in 1 .. Len(a) + Len(b) :
                    (a \o b)[k] = IF k <= Len(a) THEN a[k] ELSE b[k - Len(a)]
          BY ONLY <2>2, ConcatProperties
        <4> HIDE DEF m, n
        <4> QED
          BY <2>3, <4>1
      <3>2. PICK c \in Seq(Item) : c = a \o b
        BY <3>1
      <3>3. DOMAIN c = 1 .. Len(c)
        BY <3>2, LenProperties
      <3> QED
        BY <3>1, <3>2, <3>3
    <2>5. /\ \A k \in 1 .. m : a[k] = TextItem(thought[k])
          /\ \A k \in 1 .. n : b[k] = TextItem(spoken[k])
      BY <2>1 DEF TextItems, a, b
    <2>6. \A k \in 1 .. m + n : IF k <= m THEN k \in 1 .. m ELSE k - m \in 1 .. n
      BY <2>1
    <2>7. /\ DOMAIN TextItems(both) = 1 .. m + n
          /\ \A k \in 1 .. m + n : TextItems(both)[k] = TextItem(both[k])
          /\ TextItems(both) = [k \in 1 .. m + n |-> TextItems(both)[k]]
      BY <2>1 DEF TextItems
    <2>8. a \o b = [k \in 1 .. m + n |-> (a \o b)[k]]
      BY <2>4, LenProperties
    <2> HIDE DEF both, m, n
    <2>9. \A k \in 1 .. m + n : TextItems(both)[k] = (a \o b)[k]
      BY <2>1, <2>4, <2>5, <2>6, <2>7
    <2>10. TextItems(both) = a \o b
      BY <2>7, <2>8, <2>9
    <2> QED
      BY <2>10 DEF a, b, both
  <1>5. Keeps(TextItems(thought) \o TextItems(spoken), {} \cup {}, {} \cup {TextItem(i) : i \in S})
    BY <1>2, <1>3, KeepsBoth
  <1> QED
    BY <1>2, <1>4, <1>5 DEF Visible

\* An answer in one piece, block by block.
LEMMA FromItemsExact ==
  ASSUME ModeOK, SaidOK, mode.api # "openai", NEW reason, mode.api = "codex" \/ ~mode.stream
  PROVE  Exact(FromItems(reason).content) /\ StopOK(FromItems(reason).stop, reason)
  <1> DEFINE S == At({"text", "preset", "call"})
             content == ItemsOf(InOrder(S))
             C == {CallOf(c) : c \in At({"call"})}
             W == {TextItem(i) : i \in At({"text", "raw", "preset"})}
  <1>1. mode.api \in {"anthropic", "codex"} /\ (mode.api = "codex" => ~mode.stream)
    BY DEF ModeOK, Modes
  <1>2. At({"raw"}) = {}
    <2>1. \A i \in 1 .. Len(said) : said[i].kind # "raw"
      BY <1>1 DEF SaidOK, IsItem
    <2> QED
      BY <2>1, AtIs
  <1>3. S \in SUBSET (1 .. Len(said))
    BY AtIs
  <1>4. S \cap At({"call"}) = At({"call"})
    BY AtIs
  <1>5. S \ At({"call", "thought"}) = At({"text", "raw", "preset"})
    BY <1>2, AtIs
  <1>6. Keeps(content, C, W)
    <2>1. Keeps(content, {CallOf(c) : c \in S \cap At({"call"})},
                         {TextItem(i) : i \in S \ At({"call", "thought"})})
      BY <1>3, KeepsItems
    <2> QED
      BY <1>4, <1>5, <2>1
  <1>7. ~AllRaw(Spoken)
    <2>1. At({"text", "raw"}) # {} => At({"text"}) # {}
      BY <1>2, AtIs
    <2> QED
      BY <2>1, SpokenIs
  <1>8. /\ FromItems(reason).content = content
        /\ FromItems(reason).stop = IF mode.api = "anthropic" THEN Normalized(reason)
                                    ELSE IF HasCall(content) THEN "tool_use" ELSE "end_turn"
    BY DEF FromItems
  <1>9. At({"call"}) # {} => HasCall(content)
    <2>1. At({"call"}) # {} => C # {}
      OBVIOUS
    <2> QED
      BY <1>6, <2>1, KeepsHasCall
  <1> HIDE DEF content
  <1>10. At({"call"}) = {} => C = {}
    OBVIOUS
  <1>11. Exact(content)
    <2> HIDE DEF C, W
    <2>1. /\ C = {CallOf(c) : c \in At({"call"})}
          /\ W = {TextItem(i) : i \in At({"text", "raw", "preset"})}
      BY DEF C, W
    <2>2. ~Finds
      BY <1>7 DEF Finds
    <2> QED
      BY <1>6, <1>10, <2>1, <2>2 DEF Exact
  <1>12. StopOK(FromItems(reason).stop, reason)
    <2>1. ~Finds
      BY <1>7 DEF Finds
    <2>2. reason = "tool" => Normalized(reason) = "tool_use"
      BY DEF Normalized
    <2> QED
      BY <1>1, <1>8, <1>9, <2>1, <2>2 DEF StopOK
  <1> QED
    BY <1>8, <1>11, <1>12

\* The message of an interface like OpenAI's.
LEMMA FromMessageExact ==
  ASSUME ModeOK, SaidOK, mode.api = "openai", ~mode.stream, NEW reason
  PROVE  Exact(FromMessage(reason).content) /\ StopOK(FromMessage(reason).stop, reason)
  <1> DEFINE raw == AllRaw(Spoken)
             calls == ItemsOf(SaidCalls)
             S == IF raw THEN {} ELSE At({"text", "raw"})
             spoken == IF raw THEN <<>> ELSE Spoken
             thought == InOrder(At({"thought"}))
             words1 == TextItems(Visible(spoken, thought))
             found == calls = <<>> /\ raw /\ ~mode.emptyList
             rest == IF found THEN RawCalls(Spoken) ELSE calls
             content == words1 \o rest
             AllCalls == {CallOf(c) : c \in At({"call"})}
             Words == {TextItem(i) : i \in S}
  <1>1. /\ FromMessage(reason).content = content
        /\ FromMessage(reason).stop = IF HasCall(content) THEN "tool_use"
                                      ELSE IF reason = "length" THEN "max_tokens" ELSE "end_turn"
    BY DEF FromMessage
  <1>3. Keeps(words1, {}, Words)
    <2>1. spoken \in Seq(Nat) /\ Lists(spoken, S) /\ S \in SUBSET At({"text", "raw"})
      BY SpokenIs, ListsNothing
    <2>2. thought \in Seq(Nat) /\ Lists(thought, At({"thought"}))
      BY AtIs, InOrderIs
    <2> HIDE DEF S, spoken, thought
    <2> QED
      BY <2>1, <2>2, KeepsVisible
  <1>4. Keeps(calls, AllCalls, {}) /\ (calls = <<>> <=> At({"call"}) = {})
    <2>1. At({"call"}) \in SUBSET (1 .. Len(said)) /\ Len(said) \in Nat
      BY AtIs
    <2>2. Keeps(calls, {CallOf(c) : c \in At({"call"}) \cap At({"call"})},
                       {TextItem(i) : i \in At({"call"}) \ At({"call", "thought"})})
      BY <2>1, KeepsItems DEF SaidCalls
    <2>3. At({"call"}) \ At({"call", "thought"}) = {} /\ At({"call"}) \cap At({"call"}) = At({"call"})
      BY AtIs
    <2>4. {TextItem(i) : i \in At({"call"}) \ At({"call", "thought"})} = {}
      BY <2>3
    <2>5. SaidCalls = <<>> <=> At({"call"}) = {}
      BY <2>1, InOrderIs, ListsIs DEF SaidCalls
    <2>6. calls = <<>> <=> SaidCalls = <<>>
      <3>1. SaidCalls \in Seq(Nat) /\ DOMAIN calls = DOMAIN SaidCalls
        BY <2>1, InOrderIs DEF SaidCalls, ItemsOf
      <3>2. calls \in Seq(Item)
        BY <2>2 DEF Keeps
      <3>3. /\ \A k : k \in DOMAIN calls <=> k \in DOMAIN SaidCalls
            /\ calls = <<>> <=> DOMAIN calls = {}
            /\ SaidCalls = <<>> <=> DOMAIN SaidCalls = {}
        <4>1. ASSUME NEW T, NEW q \in Seq(T) PROVE q = <<>> <=> DOMAIN q = {}
          <5>1. Len(q) \in Nat /\ DOMAIN q = 1 .. Len(q) /\ (q # <<>> => Len(q) # 0)
            BY LenProperties, EmptySeq
          <5>2. q # <<>> => 1 \in 1 .. Len(q)
            BY <5>1
          <5> QED
            BY <5>1, <5>2
        <4> HIDE DEF calls
        <4> QED
          BY <3>1, <3>2, <4>1
      <3> QED
        BY <3>1, <3>3
    <2> QED
      BY <2>2, <2>3, <2>4, <2>5, <2>6
  <1> HIDE DEF calls, words1
  <1>5. found <=> Finds
    BY <1>4 DEF Finds
  <1>6. PICK C : /\ Keeps(rest, C, {})
                 /\ found => C # {} /\ \A x \in C : x.input = "whole"
                 /\ ~found => C = AllCalls
    <2>1. CASE found
      <3>1. At({"text", "raw"}) # {}
        BY <2>1, SpokenIs
      <3>2. PICK C : C # {} /\ Keeps(RawCalls(Spoken), C, {}) /\ \A x \in C : x.input = "whole"
        BY <3>1, SpokenIs, KeepsRaw
      <3> QED
        BY <2>1, <3>2
    <2>2. CASE ~found
      BY <1>4, <2>2
    <2> QED
      BY <2>1, <2>2
  <1> HIDE DEF rest
  <1>7. Keeps(content, {} \cup C, Words \cup {})
    BY <1>3, <1>6, KeepsBoth
  <1>8. Keeps(content, C, Words)
    <2>1. {} \cup C = C /\ Words \cup {} = Words
      OBVIOUS
    <2> QED
      BY <1>7, <2>1
  <1>9. ~AllRaw(Spoken) => Words = {TextItem(i) : i \in At({"text", "raw", "preset"})}
    BY NoPreset
  <1>10. At({"call"}) # {} \/ ~AllRaw(Spoken) => C = {CallOf(c) : c \in At({"call"})}
    BY <1>4, <1>6
  <1>11. At({"call"}) = {} => \A x \in C : x.input = "whole"
    BY <1>6
  <1> HIDE DEF content, found, Words
  <1>12. Exact(content)
    BY <1>5, <1>6, <1>8, <1>9, <1>10, <1>11 DEF Exact
  <1>13. At({"call"}) # {} \/ Finds => HasCall(content)
    <2>1. At({"call"}) # {} => AllCalls # {}
      OBVIOUS
    <2>2. At({"call"}) # {} \/ Finds => C # {}
      BY <1>5, <1>6, <2>1 DEF Finds
    <2> QED
      BY <1>8, <2>2, KeepsHasCall
  <1> QED
    BY <1>1, <1>12, <1>13 DEF StopOK

\* A sequence of positions is one of numbers.
LEMMA PositionsAreNat ==
  ASSUME NEW seq \in Seq(Positions)
  PROVE  seq \in Seq(Nat)
  <1>1. Positions \subseteq Nat
    BY DEF Positions
  <1>2. Len(seq) \in Nat /\ seq \in [1 .. Len(seq) -> Positions]
    BY LenProperties
  <1>3. seq \in [1 .. Len(seq) -> Nat]
    BY <1>1, <1>2
  <1> QED
    BY <1>2, <1>3, SeqDef

\* The calls of a stream, put together.
LEMMA KeptCalls ==
  ASSUME ModeOK, SaidOK, StreamTyped, CallsKept
  PROVE  LET calls == [k \in DOMAIN entries |-> CallItem(entries[k].id, entries[k].input)]
         IN  /\ Keeps(calls, {CallOf(c) : c \in At({"call"})}, {})
             /\ calls = <<>> <=> At({"call"}) = {}
  <1> PICK m : m = Len(entries)
    OBVIOUS
  <1> DEFINE calls == [k \in DOMAIN entries |-> CallItem(entries[k].id, entries[k].input)]
             ids == [k \in DOMAIN entries |-> entries[k].id]
             S == At({"call"})
  <1>1. /\ m \in Nat /\ DOMAIN entries = 1 .. m /\ entries \in Seq(Block)
        /\ ids \in Seq(Nat) /\ Len(ids) = m /\ DOMAIN ids = 1 .. m
        /\ \A k \in 1 .. m : entries[k] \in Block /\ ids[k] = entries[k].id
    BY IdsAre
  <1>2. /\ Lists(ids, S)
        /\ \A k \in 1 .. m : Lists(entries[k].input, InputOf(entries[k].id))
    BY <1>1 DEF CallsKept
  <1> HIDE DEF ids
  <1>3. S \in SUBSET (1 .. Len(said)) /\ \A i \in S : said[i].kind = "call"
    BY AtIs
  <1>4. \A k \in 1 .. m : ids[k] \in S
    BY <1>1, <1>2, ListsIs
  <1>5. ASSUME NEW k \in 1 .. m PROVE CallItem(entries[k].id, entries[k].input) = CallOf(ids[k])
    <2>1. entries[k].input \in Seq(Positions)
      BY <1>1 DEF Block
    <2>2. entries[k].input \in Seq(Nat)
      BY <2>1, PositionsAreNat
    <2> QED
      BY <1>1, <1>2, <2>2, CallItemIs
  <1>6. /\ calls = [k \in 1 .. Len(ids) |-> calls[k]]
        /\ \A k \in 1 .. m : calls[k] = CallOf(ids[k])
    BY <1>1, <1>5
  <1> HIDE DEF calls
  <1>7. \A k \in 1 .. Len(ids) :
           calls[k] = IF said[ids[k]].kind = "call" THEN CallOf(ids[k]) ELSE TextItem(ids[k])
    BY <1>1, <1>3, <1>4, <1>6
  <1>8. ids \in Seq(Nat)
    BY <1>1
  <1>9. Keeps(calls, {CallOf(c) : c \in S \cap At({"call"})},
                     {TextItem(i) : i \in S \ At({"call", "thought"})})
    BY ONLY SaidOK, <1>2, <1>3, <1>6, <1>7, <1>8, KeepsShown
  <1>10. {TextItem(i) : i \in S \ At({"call", "thought"})} = {} /\ S \cap At({"call"}) = S
    <2>1. {"call"} \ {"call", "thought"} = {}
      OBVIOUS
    <2>2. S \ At({"call", "thought"}) = {}
      BY <2>1, AtSplits
    <2> QED
      BY <2>2
  <1>11. calls = <<>> <=> S = {}
    <2>1. S = {} <=> ids = <<>>
      BY <1>2, <1>8, ListsIs
    <2>2. /\ ids = <<>> <=> m = 0
          /\ calls = <<>> <=> m = 0
      <3>1. calls \in Seq(Item)
        BY <1>9 DEF Keeps
      <3>2. DOMAIN calls = 1 .. m
        BY <1>1, <1>6
      <3>3. Len(calls) = m
        BY <1>1, <3>1, <3>2, LenProperties
      <3>4. Len(ids) = m
        BY <1>1
      <3> QED
        BY <1>8, <3>1, <3>3, <3>4, EmptySeq
    <2> QED
      BY <2>1, <2>2
  <1> QED
    BY <1>9, <1>10, <1>11 DEF calls

\* The stream of an interface like OpenAI's.
LEMMA FromDeltasExact ==
  ASSUME ModeOK, SaidOK, StreamTyped, StreamOK, mode.api = "openai", mode.stream,
         mode.keyed # "no", NEW reason
  PROVE  Exact(FromDeltas(reason).content) /\ StopOK(FromDeltas(reason).stop, reason)
  <1> DEFINE shown == Visible(words, thoughts)
             calls == [k \in DOMAIN entries |-> CallItem(entries[k].id, entries[k].input)]
             content == IF ~AllRaw(shown) THEN TextItems(shown) \o calls
                        ELSE IF calls = <<>> THEN RawCalls(shown) ELSE calls
             AllCalls == {CallOf(c) : c \in At({"call"})}
             Words == {TextItem(i) : i \in At({"text", "raw"})}
  <1>1. /\ FromDeltas(reason).content = content
        /\ FromDeltas(reason).stop = IF calls # <<>> THEN "tool_use" ELSE Normalized(reason)
    BY DEF FromDeltas
  <1>2. /\ words \in Seq(Nat) /\ Lists(words, At({"text", "raw"}))
        /\ thoughts \in Seq(Nat) /\ Lists(thoughts, At({"thought"})) /\ CallsKept
    BY PositionsAreNat DEF StreamOK, StreamTyped
  <1>3. Keeps(calls, AllCalls, {}) /\ (calls = <<>> <=> At({"call"}) = {})
    BY <1>2, KeptCalls
  <1>4. Keeps(TextItems(shown), {}, Words)
    <2>1. At({"text", "raw"}) \in SUBSET At({"text", "raw"})
      OBVIOUS
    <2> QED
      BY <1>2, <2>1, KeepsVisible
  <1>5. {TextItem(i) : i \in At({"text", "raw", "preset"})} = Words
    BY NoPreset
  <1>6. ASSUME AllRaw(shown) PROVE shown = words /\ AllRaw(Spoken) /\ At({"text", "raw"}) # {}
    <2>1. thoughts = <<>> \/ ~mode.thinking
      <3> SUFFICES ASSUME thoughts # <<>>, mode.thinking PROVE FALSE
        OBVIOUS
      <3>1. shown = thoughts \o words
        BY DEF Visible
      <3> HIDE DEF shown
      <3>2. /\ Len(thoughts) \in Nat /\ Len(words) \in Nat /\ Len(thoughts) # 0
            /\ Len(shown) = Len(thoughts) + Len(words) /\ DOMAIN shown = 1 .. Len(shown)
            /\ \A k \in 1 .. Len(thoughts) + Len(words) :
                  shown[k] = IF k <= Len(thoughts) THEN thoughts[k] ELSE words[k - Len(thoughts)]
        <4>1. /\ Len(thoughts) \in Nat /\ Len(words) \in Nat /\ Len(thoughts) # 0
          BY <1>2, LenProperties, EmptySeq
        <4>2. /\ shown \in Seq(Nat) /\ Len(shown) = Len(thoughts) + Len(words)
              /\ \A k \in 1 .. Len(thoughts) + Len(words) :
                    shown[k] = IF k <= Len(thoughts) THEN thoughts[k] ELSE words[k - Len(thoughts)]
          BY <1>2, <3>1, ConcatProperties
        <4>3. DOMAIN shown = 1 .. Len(shown)
          BY <4>2, LenProperties
        <4> QED
          BY <4>1, <4>2, <4>3
      <3>3. 1 \in 1 .. Len(thoughts) /\ 1 \in DOMAIN shown /\ shown[1] = thoughts[1]
        BY <3>2
      <3>4. said[thoughts[1]].kind = "thought"
        <4>1. thoughts[1] \in At({"thought"})
          BY <1>2, <3>3, ListsIs
        <4> QED
          BY <4>1 DEF At
      <3>5. said[shown[1]].kind = "raw"
        BY <1>6, <3>3 DEF AllRaw
      <3> QED
        BY <3>3, <3>4, <3>5
    <2>2. shown = words
      BY <1>2, <2>1, ConcatEmptySeq DEF Visible
    <2>3. At({"text", "raw"}) \in SUBSET (1 .. Len(said))
      BY AtIs
    <2>4. AllRaw(words) <=> AllRaw(Spoken)
      BY <1>2, <2>3, AllRawIs, SpokenIs
    <2>5. At({"text", "raw"}) # {}
      BY <1>2, <1>6, <2>2, <2>3, AllRawIs
    <2> QED
      BY <1>6, <2>2, <2>4, <2>5
  <1>7. ~Finds
    BY DEF Finds
  <1> HIDE DEF calls, shown
  <1>8. PICK C, W : /\ Keeps(content, C, W)
                    /\ At({"call"}) # {} \/ ~AllRaw(Spoken) => C = AllCalls
                    /\ ~AllRaw(Spoken) => W = Words
                    /\ At({"call"}) = {} => \A x \in C : x.input = "whole"
    <2>1. CASE ~AllRaw(shown)
      <3>1. Keeps(TextItems(shown) \o calls, {} \cup AllCalls, Words \cup {})
        BY <1>3, <1>4, KeepsBoth
      <3>2. {} \cup AllCalls = AllCalls /\ Words \cup {} = Words
        OBVIOUS
      <3>3. At({"call"}) = {} => AllCalls = {}
        OBVIOUS
      <3>4. Keeps(content, AllCalls, Words)
        BY <2>1, <3>1, <3>2
      <3> QED
        BY <3>3, <3>4
    <2>2. CASE AllRaw(shown) /\ calls # <<>>
      <3>1. Keeps(content, AllCalls, {}) /\ At({"call"}) # {} /\ AllRaw(Spoken)
        BY <1>3, <1>6, <2>2
      <3> QED
        BY <3>1
    <2>3. CASE AllRaw(shown) /\ calls = <<>>
      <3>1. At({"call"}) = {} /\ AllRaw(Spoken) /\ content = RawCalls(words)
        BY <1>3, <1>6, <2>3
      <3>2. PICK C : C # {} /\ Keeps(RawCalls(words), C, {}) /\ \A x \in C : x.input = "whole"
        BY <1>2, <1>6, <2>3, KeepsRaw
      <3> HIDE DEF content
      <3> QED
        BY <3>1, <3>2
    <2> QED
      BY <2>1, <2>2, <2>3
  <1> HIDE DEF content, Words
  <1>9. Exact(content)
    BY <1>5, <1>7, <1>8 DEF Exact
  <1> QED
    BY <1>1, <1>3, <1>7, <1>9 DEF StopOK

\* Induction up to n.
LEMMA UpTo ==
  ASSUME NEW n \in Nat, NEW S, 0 \in S, \A k \in 0 .. n - 1 : k \in S => k + 1 \in S
  PROVE  0 .. n \subseteq S
  <1> DEFINE T == (0 .. n) \ S
  <1>1. SUFFICES ASSUME T # {} PROVE FALSE
    OBVIOUS
  <1>2. T \in SUBSET Nat
    OBVIOUS
  <1> HIDE DEF T
  <1>3. PICK i \in T : \A j \in T : i <= j
    BY <1>1, <1>2, LeastNumber
  <1> USE DEF T
  <1>4. i - 1 \in 0 .. n - 1 /\ i - 1 \notin T
    BY <1>3
  <1>5. i - 1 \in S /\ (i - 1) + 1 = i
    BY <1>4
  <1> QED
    BY <1>3, <1>4, <1>5

\* What a block adds to the reply.
WithBlock(content, k) ==
    (content \o TextItems(entries[k].text))
       \o (IF entries[k].id = 0 THEN <<>> ELSE <<CallItem(entries[k].id, entries[k].input)>>)

\* The reply block by block.
LEMMA BlocksGoThrough ==
  ASSUME NEW m \in Nat, m = Len(entries)
  PROVE  /\ BlocksUpTo[0] = <<>>
         /\ \A k \in 1 .. m : BlocksUpTo[k] = WithBlock(BlocksUpTo[k - 1], k)
  <1> DEFINE Is(f, n) == f = [k \in 0 .. n |-> IF k = 0 THEN <<>> ELSE WithBlock(f[k - 1], k)]
             S == {n \in 0 .. m : \E f : Is(f, n)}
  <1>1. 0 \in S
    <2> DEFINE f == [k \in 0 .. 0 |-> <<>>]
    <2>1. Is(f, 0)
      OBVIOUS
    <2> HIDE DEF Is
    <2> QED
      BY <2>1
  <1>2. ASSUME NEW n \in 0 .. m - 1, n \in S PROVE n + 1 \in S
    <2>1. PICK f : Is(f, n)
      BY <1>2
    <2> DEFINE g == [k \in 0 .. n + 1 |-> IF k = 0 THEN <<>> ELSE WithBlock(f[k - 1], k)]
    <2>2. \A k \in 0 .. n : f[k] = IF k = 0 THEN <<>> ELSE WithBlock(f[k - 1], k)
      BY <2>1
    <2>3. \A k \in 0 .. n : g[k] = f[k]
      BY <2>2
    <2>4. \A k \in 1 .. n + 1 : k - 1 \in 0 .. n
      OBVIOUS
    <2>5. /\ \A k \in 0 .. n + 1 : g[k] = IF k = 0 THEN <<>> ELSE WithBlock(f[k - 1], k)
          /\ g = [k \in 0 .. n + 1 |-> g[k]]
      OBVIOUS
    <2> HIDE DEF g
    <2>6. \A k \in 0 .. n + 1 : g[k] = IF k = 0 THEN <<>> ELSE WithBlock(g[k - 1], k)
      <3>1. \A k \in 0 .. n + 1 : k # 0 => f[k - 1] = g[k - 1]
        BY <2>3, <2>4
      <3> QED
        BY <2>5, <3>1
    <2>7. g = [k \in 0 .. n + 1 |-> IF k = 0 THEN <<>> ELSE WithBlock(g[k - 1], k)]
      BY <2>5, <2>6
    <2>8. Is(g, n + 1) /\ n + 1 \in 0 .. m
      BY <2>7
    <2> QED
      BY <2>8
  <1>3. m \in S
    <2> HIDE DEF S
    <2>1. 0 .. m \subseteq S
      BY <1>1, <1>2, UpTo
    <2> QED
      BY <2>1
  <1>4. PICK f : Is(f, m)
    BY <1>3
  <1>5. BlocksUpTo = CHOOSE g : Is(g, m)
    BY DEF BlocksUpTo, WithBlock
  <1>6. Is(BlocksUpTo, m)
    <2> HIDE DEF Is
    <2> QED
      BY <1>4, <1>5, Zenon
  <1>7. \A k \in 0 .. m : BlocksUpTo[k] = IF k = 0 THEN <<>> ELSE WithBlock(BlocksUpTo[k - 1], k)
    BY <1>6
  <1> QED
    BY <1>7

\* Nothing is kept by nothing, and one call by itself.
LEMMA KeepsNothing == Keeps(<<>>, {}, {})
  <1>1. <<>> \in Seq(Item) /\ DOMAIN <<>> = {}
    BY EmptySeq
  <1>2. CallsIn(<<>>) = {} /\ WordsIn(<<>>) = {}
    BY <1>1 DEF CallsIn, WordsIn
  <1>3. Has(<<>>, {}, {})
    BY DEF Has
  <1> QED
    BY <1>1, <1>2, <1>3 DEF Keeps

\* A content of one call has that call and no text.
LEMMA KeepsOne ==
  ASSUME NEW c \in Nat
  PROVE  Keeps(<<CallOf(c)>>, {CallOf(c)}, {})
  <1> DEFINE content == <<CallOf(c)>>
  <1>1. CallOf(c) \in Item /\ CallOf(c).kind = "call"
    BY DEF CallOf, Item
  <1>2. content \in Seq(Item) /\ DOMAIN content = {1} /\ content[1] = CallOf(c)
    BY <1>1
  <1> HIDE DEF content
  <1>3. CallsIn(content) = {1} /\ WordsIn(content) = {}
    BY <1>1, <1>2 DEF CallsIn, WordsIn
  <1>4. Has(content, {1}, {CallOf(c)})
    BY <1>2 DEF Has
  <1>5. Has(content, {}, {})
    BY DEF Has
  <1>6. Keeps(content, {CallOf(c)}, {})
    BY <1>2, <1>3, <1>4, <1>5 DEF Keeps
  <1> QED
    BY <1>6 DEF content

\* The calls and the pieces of text of the first k blocks.
CallsUpTo(start, k) == {c \in At({"call"}) : \E j \in 1 .. k : start[j] = c}
TextUpTo(start, k) == UNION {TextOf(start[j]) : j \in 1 .. k}

\* The text of a block comes before the next begins.
LEMMA TextBefore ==
  ASSUME SaidOK, mode.api = "anthropic", NEW a \in At(Begun), NEW b \in At(Begun), a < b,
         NEW i \in TextOf(a), NEW j \in TextOf(b)
  PROVE  i < j
  <1>1. /\ i \in 1 .. Len(said) /\ j \in 1 .. Len(said) /\ a \in Nat /\ b \in Nat
        /\ Len(said) \in Nat
    BY AtIs
  <1>2. \A k \in 1 .. Len(said) : IsItem(k)
    BY DEF SaidOK
  <1>3. i < b
    <2>1. CASE i = a
      BY <2>1
    <2>2. CASE i # a
      <3>1. said[i].of = a /\ said[i].kind = "text"
        BY <2>2 DEF TextOf, At
      <3>2. b <= said[i].of \/ i < b
        BY <1>1, <1>2, <3>1 DEF IsItem
      <3> QED
        BY <1>1, <3>1, <3>2
    <2> QED
      BY <2>1, <2>2
  <1>4. b <= j
    <2>1. CASE j = b
      BY <1>1, <2>1
    <2>2. CASE j # b
      <3>1. said[j].of = b
        BY <2>2 DEF TextOf
      <3>2. said[j].of \in 0 .. j - 1
        BY <1>1, <1>2 DEF IsItem
      <3> QED
        BY <1>1, <3>1, <3>2
    <2> QED
      BY <2>1, <2>2
  <1> QED
    BY <1>1, <1>3, <1>4

\* One block more.
LEMMA KeepsBlock ==
  ASSUME SaidOK, StreamTyped, mode.api = "anthropic", NEW m \in Nat, m = Len(entries),
         NEW start \in [1 .. m -> Nat], Lists(start, At(Begun)), NEW k \in 1 .. m,
         IsBlock(entries[k], start[k]), NEW content,
         Keeps(content, {CallOf(c) : c \in CallsUpTo(start, k - 1)},
                        {TextItem(i) : i \in TextUpTo(start, k - 1)})
  PROVE  Keeps(WithBlock(content, k), {CallOf(c) : c \in CallsUpTo(start, k)},
                                      {TextItem(i) : i \in TextUpTo(start, k)})
  <1> DEFINE b == start[k]
             e == entries[k]
             words1 == TextItems(e.text)
             rest == IF e.id = 0 THEN <<>> ELSE <<CallItem(e.id, e.input)>>
             C == {CallOf(c) : c \in CallsUpTo(start, k - 1)}
             W == {TextItem(i) : i \in TextUpTo(start, k - 1)}
             D == IF said[b].kind = "call" THEN {CallOf(b)} ELSE {}
             V == {TextItem(i) : i \in TextOf(b)}
  <1>1. /\ start \in Seq(Nat) /\ Len(start) = m
        /\ \A j \in 1 .. m : start[j] \in At(Begun) /\ start[j] \in Nat
        /\ \A i, j \in 1 .. m : i < j <=> start[i] < start[j]
    <2>1. start \in Seq(Nat)
      BY SeqDef
    <2>2. Len(start) = m
      BY <2>1, LenProperties
    <2> QED
      BY <2>1, <2>2, ListsIs
  <1>2. /\ \A j \in 1 .. k - 1 : j \in 1 .. m /\ j < k
        /\ \A j \in 1 .. k : j \in 1 .. k - 1 \/ j = k
        /\ \A j \in 1 .. k - 1 : j \in 1 .. k
        /\ k \in 1 .. k
    OBVIOUS
  <1>3. b \in At(Begun) /\ b \in Nat /\ b # 0 /\ b \in 1 .. Len(said)
    BY <1>1, AtIs
  <1>4. /\ e \in Block /\ e.text \in Seq(Nat) /\ e.input \in Seq(Nat)
        /\ e.id = IF said[b].kind = "call" THEN b ELSE 0
        /\ Lists(e.text, TextOf(b)) /\ Lists(e.input, InputOf(b))
    <2>1. e \in Block
      BY ElementOfSeq DEF StreamTyped
    <2>2. e.text \in Seq(Positions) /\ e.input \in Seq(Positions)
      BY <2>1 DEF Block
    <2> HIDE DEF e
    <2>3. e.text \in Seq(Nat) /\ e.input \in Seq(Nat)
      BY <2>2, PositionsAreNat
    <2> QED
      BY <2>1, <2>3 DEF IsBlock, e
  <1> HIDE DEF b, e
  <1>5. Keeps(words1, {}, V)
    <2>1. TextOf(b) \in SUBSET (1 .. Len(said))
      BY <1>3, AtIs
    <2>2. TextOf(b) \subseteq At({"text", "preset"})
      BY DEF TextOf, At
    <2>3. At({"text", "preset"}) \cap At({"call"}) = {} /\ At({"text", "preset"}) \cap At({"thought"}) = {}
      <3>1. {"text", "preset"} \cap {"call"} = {} /\ {"text", "preset"} \cap {"thought"} = {}
        OBVIOUS
      <3> QED
        BY <3>1, AtSplits
    <2>4. TextOf(b) \cap At({"call"}) = {} /\ TextOf(b) \ At({"thought"}) = TextOf(b)
      BY <2>2, <2>3
    <2>5. Keeps(words1, {}, {TextItem(i) : i \in TextOf(b) \ At({"thought"})})
      BY <1>4, <2>1, <2>4, KeepsTexts
    <2> QED
      BY <2>4, <2>5
  <1>6. Keeps(rest, D, {})
    <2>1. CASE said[b].kind = "call"
      <3>1. e.id = b /\ e.id # 0
        BY <1>3, <1>4, <2>1
      <3>2. CallItem(b, e.input) = CallOf(b)
        BY <1>4, CallItemIs
      <3>3. rest = <<CallOf(b)>>
        BY <3>1, <3>2
      <3> QED
        BY <1>3, <2>1, <3>3, KeepsOne
    <2>2. CASE said[b].kind # "call"
      BY <1>4, <2>2, KeepsNothing
    <2> QED
      BY <2>1, <2>2
  <1> HIDE DEF words1, rest
  <1>7. \A x \in W, y \in V : x.at < y.at
    <2> SUFFICES ASSUME NEW i \in TextUpTo(start, k - 1), NEW j \in TextOf(b) PROVE i < j
      BY DEF TextItem
    <2>1. PICK l \in 1 .. k - 1 : i \in TextOf(start[l])
      BY DEF TextUpTo
    <2>2. start[l] \in At(Begun) /\ start[l] < b
      BY <1>1, <1>2 DEF b
    <2> QED
      BY <1>3, <2>1, <2>2, TextBefore
  <1>8. \A x \in C, y \in D : x.at < y.at
    <2> SUFFICES ASSUME NEW c \in CallsUpTo(start, k - 1) PROVE c < b
      BY DEF CallOf
    <2>1. PICK l \in 1 .. k - 1 : start[l] = c
      BY DEF CallsUpTo
    <2> QED
      BY <1>1, <1>2, <2>1 DEF b
  <1> HIDE DEF C, D, V, W
  <1>9. Keeps((content \o words1) \o rest, (C \cup {}) \cup D, (W \cup V) \cup {})
    <2>1. Keeps(content, C, W)
      BY DEF C, W
    <2>2. Keeps(content \o words1, C \cup {}, W \cup V)
      BY <1>5, <1>7, <2>1, KeepsBoth
    <2>3. C \cup {} = C
      OBVIOUS
    <2> QED
      BY <1>6, <1>8, <2>2, <2>3, KeepsBoth
  <1>10. {CallOf(c) : c \in CallsUpTo(start, k)} = (C \cup {}) \cup D
    <2>1. CallsUpTo(start, k)
            = CallsUpTo(start, k - 1) \cup (IF said[b].kind = "call" THEN {b} ELSE {})
      <3>1. said[b].kind = "call" <=> b \in At({"call"})
        BY <1>3, AtIs
      <3> QED
        BY <1>2, <3>1 DEF CallsUpTo, b
    <2> QED
      BY <2>1 DEF C, D
  <1>11. {TextItem(i) : i \in TextUpTo(start, k)} = (W \cup V) \cup {}
    <2>1. TextUpTo(start, k) = TextUpTo(start, k - 1) \cup TextOf(b)
      BY <1>2 DEF TextUpTo, b
    <2> QED
      BY <2>1 DEF V, W
  <1> QED
    BY <1>9, <1>10, <1>11 DEF WithBlock, words1, rest, e

\* The stream of Anthropic's interface.
LEMMA FromBlocksExact ==
  ASSUME ModeOK, SaidOK, StreamTyped, StreamOK, mode.api = "anthropic", mode.stream, NEW reason
  PROVE  Exact(FromBlocks(reason).content) /\ StopOK(FromBlocks(reason).stop, reason)
  <1> PICK m : m = Len(entries)
    OBVIOUS
  <1>1. m \in Nat /\ DOMAIN entries = 1 .. m
    BY LenProperties DEF StreamTyped
  <1>2. PICK start \in [1 .. m -> 1 .. Len(said)] :
          Lists(start, At(Begun)) /\ \A k \in 1 .. m : IsBlock(entries[k], start[k])
    BY <1>1 DEF StreamOK, BlocksKept
  <1>3. start \in [1 .. m -> Nat]
    OBVIOUS
  <1>4. \A b \in At(Begun) : \E j \in 1 .. m : start[j] = b
    <2>1. start \in Seq(Nat) /\ Len(start) = m
      <3>1. start \in Seq(Nat)
        BY <1>1, <1>3, SeqDef
      <3> QED
        BY <1>1, <1>3, <3>1, LenProperties
    <2> QED
      BY <1>2, <2>1, ListsIs
  <1> DEFINE C(k) == {CallOf(c) : c \in CallsUpTo(start, k)}
             W(k) == {TextItem(i) : i \in TextUpTo(start, k)}
             S == {k \in 0 .. m : Keeps(BlocksUpTo[k], C(k), W(k))}
             content == BlocksUpTo[m]
  <1>5. BlocksUpTo[0] = <<>> /\ \A k \in 1 .. m : BlocksUpTo[k] = WithBlock(BlocksUpTo[k - 1], k)
    BY <1>1, BlocksGoThrough
  <1>6. 0 \in S
    <2>1. 1 .. 0 = {}
      OBVIOUS
    <2>2. C(0) = {} /\ W(0) = {}
      BY <2>1 DEF CallsUpTo, TextUpTo
    <2>3. Keeps(BlocksUpTo[0], C(0), W(0))
      BY <1>5, <2>2, KeepsNothing
    <2> HIDE DEF C, W
    <2> QED
      BY <1>1, <2>3
  <1>7. ASSUME NEW k \in 0 .. m - 1, k \in S PROVE k + 1 \in S
    <2>1. k + 1 \in 1 .. m /\ (k + 1) - 1 = k /\ k + 1 \in 0 .. m
      BY <1>1
    <2>2. Keeps(BlocksUpTo[k], C(k), W(k))
      BY <1>7
    <2>3. PICK l \in 1 .. m : l = k + 1 /\ l - 1 = k
      BY <2>1
    <2>4. Keeps(WithBlock(BlocksUpTo[k], l), C(l), W(l))
      BY <1>1, <1>2, <1>3, <2>2, <2>3, KeepsBlock
    <2>5. BlocksUpTo[l] = WithBlock(BlocksUpTo[k], l)
      BY <1>5, <2>3
    <2> HIDE DEF C, W
    <2> QED
      BY <2>1, <2>3, <2>4, <2>5
  <1>8. Keeps(content, C(m), W(m))
    <2> HIDE DEF S
    <2>1. 0 .. m \subseteq S
      BY <1>1, <1>6, <1>7, UpTo
    <2>2. m \in S
      BY <1>1, <2>1
    <2> QED
      BY <2>2 DEF S
  <1>9. C(m) = {CallOf(c) : c \in At({"call"})}
    <2>1. At({"call"}) \subseteq At(Begun)
      BY DEF At, Begun
    <2>2. CallsUpTo(start, m) = At({"call"})
      BY <1>4, <2>1 DEF CallsUpTo
    <2> QED
      BY <2>2
  <1>10. At({"raw"}) = {}
    <2>1. \A i \in 1 .. Len(said) : said[i].kind # "raw"
      BY DEF SaidOK, IsItem
    <2> QED
      BY <2>1, AtIs
  <1>11. W(m) = {TextItem(i) : i \in At({"text", "raw", "preset"})}
    <2>1. At({"text", "raw", "preset"}) = At({"text"}) \cup At({"preset"})
      <3>1. \A i \in 1 .. Len(said) :
               i \in At({"text", "raw", "preset"}) <=> i \in At({"text"}) \/ i \in At({"preset"})
        <4>1. ASSUME NEW i \in 1 .. Len(said)
              PROVE  /\ i \in At({"text", "raw", "preset"}) <=> said[i].kind \in {"text", "raw", "preset"}
                     /\ i \in At({"text"}) <=> said[i].kind \in {"text"}
                     /\ i \in At({"preset"}) <=> said[i].kind \in {"preset"}
                     /\ i \in At({"raw"}) <=> said[i].kind \in {"raw"}
          BY AtIs
        <4> QED
          BY <1>10, <4>1
      <3> QED
        BY <3>1, AtIs
    <2>2. \A i \in At({"text"}) : said[i].of \in At(Begun)
      <3>1. \A i \in At({"text"}) : said[i].of \in At({"block", "preset"})
        BY AtIs DEF SaidOK, IsItem
      <3>2. At({"block", "preset"}) \subseteq At(Begun)
        BY DEF At, Begun
      <3> QED
        BY <3>1, <3>2
    <2>3. At({"preset"}) \subseteq At(Begun)
      BY DEF At, Begun
    <2>4. TextUpTo(start, m) \subseteq At({"text"}) \cup At({"preset"})
      BY DEF TextUpTo, TextOf
    <2>5. \A i \in At({"text"}) \cup At({"preset"}) : \E j \in 1 .. m : i \in TextOf(start[j])
      <3>1. ASSUME NEW i \in At({"text"}) PROVE \E j \in 1 .. m : i \in TextOf(start[j])
        <4>1. PICK j \in 1 .. m : start[j] = said[i].of
          BY <1>4, <2>2
        <4> QED
          BY <4>1 DEF TextOf
      <3>2. ASSUME NEW i \in At({"preset"}) PROVE \E j \in 1 .. m : i \in TextOf(start[j])
        <4>1. PICK j \in 1 .. m : start[j] = i
          BY <1>4, <2>3
        <4> QED
          BY <4>1 DEF TextOf
      <3> QED
        BY <3>1, <3>2
    <2>6. TextUpTo(start, m) = At({"text"}) \cup At({"preset"})
      BY <2>4, <2>5 DEF TextUpTo
    <2> QED
      BY <2>1, <2>6
  <1>12. ~AllRaw(Spoken)
    <2>1. At({"text", "raw"}) = At({"text"})
      <3>1. {"text"} \cup {"raw"} = {"text", "raw"}
        OBVIOUS
      <3>2. At({"text"} \cup {"raw"}) = At({"text"}) \cup At({"raw"})
        BY AtSplits
      <3> QED
        BY <1>10, <3>1, <3>2
    <2> QED
      BY <2>1, SpokenIs
  <1>13. ~Finds
    BY <1>12 DEF Finds
  <1> HIDE DEF C, W, content
  <1>14. At({"call"}) = {} => C(m) = {}
    BY <1>9
  <1>15. Exact(content)
    BY <1>8, <1>9, <1>11, <1>13, <1>14 DEF Exact
  <1>16. At({"call"}) # {} => \E k \in DOMAIN entries : entries[k].id # 0
    <2> SUFFICES ASSUME NEW c \in At({"call"}) PROVE \E k \in DOMAIN entries : entries[k].id # 0
      OBVIOUS
    <2>1. c \in At(Begun) /\ said[c].kind = "call" /\ c # 0
      <3>1. c \in At(Begun) /\ said[c].kind = "call"
        BY DEF At, Begun
      <3> QED
        BY <3>1, AtIs
    <2>2. PICK k \in 1 .. m : start[k] = c
      BY <1>4, <2>1
    <2>3. entries[k].id = c
      BY <1>2, <2>1, <2>2 DEF IsBlock
    <2> QED
      BY <1>1, <2>1, <2>3
  <1>17. /\ FromBlocks(reason).content = content
         /\ At({"call"}) # {} => FromBlocks(reason).stop = "tool_use"
    BY <1>16 DEF FromBlocks, content
  <1> QED
    BY <1>13, <1>15, <1>17 DEF StopOK

\* Whatever the interface, the reply is exact and its stop reason that of its calls.
LEMMA BuiltExact ==
  ASSUME ModeOK, SaidOK, StreamTyped, StreamOK, NEW reason \in Reasons
  PROVE  /\ Built(reason).stop \in Stops
         /\ mode.keyed # "no" => Exact(Built(reason).content) /\ StopOK(Built(reason).stop, reason)
  <1>1. /\ mode.api \in {"anthropic", "openai", "codex"} /\ mode.stream \in BOOLEAN
        /\ mode.api = "codex" => ~mode.stream
    BY DEF ModeOK, Modes
  <1>2. Normalized(reason) \in Stops
    BY DEF Normalized, Reasons, Stops
  <1>3. CASE mode.api = "anthropic" /\ mode.stream
    <2>1. Built(reason) = FromBlocks(reason)
      BY <1>3 DEF Built
    <2>2. FromBlocks(reason).stop \in Stops
      BY <1>2 DEF FromBlocks, Stops
    <2> QED
      BY <1>3, <2>1, <2>2, FromBlocksExact
  <1>4. CASE mode.api = "openai" /\ mode.stream
    <2>1. Built(reason) = FromDeltas(reason)
      BY <1>4 DEF Built
    <2>2. FromDeltas(reason).stop \in Stops
      BY <1>2 DEF FromDeltas, Stops
    <2> QED
      BY <1>4, <2>1, <2>2, FromDeltasExact
  <1>5. CASE mode.api = "openai" /\ ~mode.stream
    <2>1. Built(reason) = FromMessage(reason)
      BY <1>5 DEF Built
    <2>2. FromMessage(reason).stop \in Stops
      BY DEF FromMessage, Stops
    <2> QED
      BY <1>5, <2>1, <2>2, FromMessageExact
  <1>6. CASE mode.api # "openai" /\ (mode.api = "codex" \/ ~mode.stream)
    <2>1. Built(reason) = FromItems(reason)
      BY <1>1, <1>6 DEF Built
    <2>2. FromItems(reason).stop \in Stops
      BY <1>2 DEF FromItems, Stops
    <2> QED
      BY <1>6, <2>1, <2>2, FromItemsExact
  <1> QED
    BY <1>1, <1>3, <1>4, <1>5, <1>6

\* An exact reply remains one as long as nothing more is said.
LEMMA ExactStays ==
  ASSUME said' = said, mode' = mode, NEW r, reply' = r
  PROVE  /\ Exact(r.content) => Exact(reply.content)'
         /\ Finds' <=> Finds
  <1>1. /\ \A kinds : At(kinds)' = At(kinds)
        /\ \A c : InputOf(c)' = InputOf(c)
    BY SaidStays
  <1>2. Spoken' = Spoken
    BY <1>1 DEF Spoken
  <1>3. AllRaw(Spoken)' <=> AllRaw(Spoken)
    BY <1>2 DEF AllRaw
  <1>4. Finds' <=> Finds
    BY <1>1, <1>3 DEF Finds
  <1>5. ASSUME NEW c PROVE CallOf(c)' = CallOf(c)
    BY <1>1 DEF CallOf
  <1>6. {CallOf(c) : c \in At({"call"})}' = {CallOf(c) : c \in At({"call"})}
    BY <1>1, <1>5
  <1>7. {TextItem(i) : i \in At({"text", "raw", "preset"})}'
          = {TextItem(i) : i \in At({"text", "raw", "preset"})}
    BY <1>1
  <1>8. ASSUME Exact(r.content) PROVE Exact(reply.content)'
    <2>1. PICK C, W :
             /\ Keeps(r.content, C, W)
             /\ At({"call"}) # {} \/ ~AllRaw(Spoken) => C = {CallOf(c) : c \in At({"call"})}
             /\ ~AllRaw(Spoken) => W = {TextItem(i) : i \in At({"text", "raw", "preset"})}
             /\ At({"call"}) = {} => \A x \in C : x.input = "whole"
             /\ Finds => C # {}
      BY <1>8 DEF Exact
    <2>2. Keeps(reply.content, C, W)'
      BY <2>1 DEF Keeps, WordsIn, CallsIn
    <2>3. /\ At({"call"})' # {} \/ ~AllRaw(Spoken)' => C = {CallOf(c) : c \in At({"call"})}'
          /\ ~AllRaw(Spoken)' => W = {TextItem(i) : i \in At({"text", "raw", "preset"})}'
          /\ At({"call"})' = {} => \A x \in C : x.input = "whole"
          /\ Finds' => C # {}
      BY <1>1, <1>3, <1>4, <1>6, <1>7, <2>1
    <2> QED
      BY <2>2, <2>3 DEF Exact
  <1> QED
    BY <1>4, <1>8

\* Before there is a reply there is nothing to conclude.
LEMMA NothingConcluded ==
  ASSUME ConclusionOK, ~Replied, UNCHANGED conclusion, stage' \in {"asking", "receiving", "failed"}
  PROVE  ConclusionOK'
  <1>1. ~Replied' /\ outcome' = "none" /\ stage' # "answered"
    BY DEF Replied, conclusion, ConclusionOK
  <1>2. broken' = broken /\ ending' = ending /\ reply' = reply
    BY DEF conclusion
  <1> QED
    BY <1>1, <1>2 DEF ConclusionOK

\* The first state.
LEMMA ReplyStarts ==
  ASSUME ReplyInit
  PROVE  ReplyInv
  <1> USE DEF ReplyInit
  <1>1. ModeOK
    <2>1. mode \in Modes /\ mode.stream \in BOOLEAN
      BY DEF Modes
    <2>2. 0 \in 0 .. MaxResends
      BY DEF ModelReplyAssumption
    <2> QED
      BY <2>1, <2>2 DEF ModeOK
  <1>2. Len(said) = 0 /\ DOMAIN said = {} /\ said \in Seq([kind : Kinds, of : Nat])
    BY EmptySeq
  <1>3. (\A kinds : At(kinds) = {}) /\ \A c : InputOf(c) = {}
    BY <1>2 DEF At, InputOf
  <1>4. SaidOK
    <2>1. 0 <= MaxSaid
      BY DEF ModelReplyAssumption
    <2> QED
      BY <1>2, <1>3, <2>1 DEF SaidOK
  <1>5. StreamTyped
    <2>1. <<>> \in Seq(Positions) /\ <<>> \in Seq(Block)
      BY EmptySeq
    <2> QED
      BY <2>1 DEF StreamTyped
  <1>6. StreamOK
    <2>1. CallsKept
      BY <1>3 DEF CallsKept, Lists, Range
    <2>2. BlocksKept
      <3> DEFINE start == [k \in {} |-> 1]
      <3>1. start \in [DOMAIN entries -> 1 .. Len(said)] /\ DOMAIN entries = {}
        BY EmptySeq
      <3>2. Lists(start, At(Begun))
        BY <1>3 DEF Lists, Range
      <3> HIDE DEF start
      <3> QED
        BY <3>1, <3>2 DEF BlocksKept
    <2> QED
      BY <1>3, <2>1, <2>2, ListsNothing DEF StreamOK
  <1>7. ConclusionOK
    BY DEF ConclusionOK, Replied, Reasons, Stops, NoReply
  <1> QED
    BY <1>1, <1>4, <1>5, <1>6, <1>7 DEF ReplyInv

\* The request keeps its form.
LEMMA AskKeeps ==
  ASSUME ReplyInv, Ask
  PROVE  ReplyInv'
  <1> USE DEF ReplyInv
  <1>1. /\ mode' = mode /\ said' = said /\ UNCHANGED streamed /\ UNCHANGED conclusion
        /\ stage = "asking" /\ stage' \in {"asking", "receiving", "failed"}
    BY DEF Ask, TooManyRequests, Accepted, Rejected, Fail, requestVars
  <1>2. /\ request'.limit \in {"max_tokens", "max_completion_tokens"}
        /\ request'.options \in BOOLEAN /\ request'.retries \in 0 .. MaxResends
        /\ request' = [limit |-> request'.limit, options |-> request'.options,
                       retries |-> request'.retries]
    <2> DEFINE R == [limit : {"max_tokens", "max_completion_tokens"}, options : BOOLEAN,
                     retries : 0 .. MaxResends]
    <2>1. request \in R
      BY DEF ModeOK
    <2>2. CASE request' = request
      BY <2>2 DEF ModeOK
    <2>3. CASE /\ request.retries < MaxResends
               /\ request' = [request EXCEPT !.retries = @ + 1]
      <3>1. request.retries + 1 \in 0 .. MaxResends
        BY <2>1, <2>3 DEF ModelReplyAssumption
      <3>2. request' \in R
        BY <2>1, <2>3, <3>1
      <3> QED
        BY <3>2
    <2>4. CASE request' = [request EXCEPT !.limit = "max_completion_tokens"]
      <3>1. request' \in R
        BY <2>1, <2>4
      <3> QED
        BY <3>1
    <2>5. CASE request' = [request EXCEPT !.options = FALSE]
      <3>1. request' \in R
        BY <2>1, <2>5
      <3> QED
        BY <3>1
    <2> QED
      BY <2>2, <2>3, <2>4, <2>5 DEF Ask, TooManyRequests, Accepted, Rejected, Fail, requestVars
  <1>3. ModeOK'
    BY <1>1, <1>2 DEF ModeOK
  <1>4. SaidOK' /\ StreamTyped' /\ StreamOK'
    BY <1>1, ItemsStay, StreamStays
  <1>5. ConclusionOK'
    BY <1>1, NothingConcluded DEF Replied
  <1> QED
    BY <1>3, <1>4, <1>5

\* What arrives is kept for what it is.
LEMMA ArrivesKeeps ==
  ASSUME ReplyInv, Arrives
  PROVE  ReplyInv'
  <1> USE DEF ReplyInv
  <1>1. ASSUME NEW kind, NEW of, Says(kind, of)
        PROVE  ModeOK' /\ ConclusionOK'
    <2>1. /\ mode' = mode /\ request' = request /\ stage' = stage /\ stage = "receiving"
          /\ UNCHANGED conclusion
      BY <1>1 DEF Says, requestVars
    <2>2. ModeOK'
      BY <2>1 DEF ModeOK
    <2>3. ConclusionOK'
      BY <2>1, NothingConcluded DEF Replied
    <2> QED
      BY <2>2, <2>3
  <1>2. ASSUME NEW kind \in Kinds, StartBlock(kind) PROVE ReplyInv'
    <2>1. Says(kind, 0)
      BY <1>2 DEF StartBlock
    <2> QED
      BY <1>1, <1>2, <2>1, StartBlockKeeps
  <1>3. ASSUME NEW kind \in Kinds, TextDelta(kind) PROVE ReplyInv'
    <2>1. Says(kind, 0)
      BY <1>3 DEF TextDelta
    <2> QED
      BY <1>1, <1>3, <2>1, TextDeltaKeeps
  <1>4. ASSUME NEW p \in DOMAIN said, BlockDelta(p) PROVE ReplyInv'
    <2>1. Says(IF said[p].kind = "call" THEN "input" ELSE "text", p)
      BY <1>4 DEF BlockDelta
    <2> QED
      BY <1>1, <1>4, <2>1, BlockDeltaKeeps
  <1>5. ASSUME NEW p \in DOMAIN said, InputDelta(p) PROVE ReplyInv'
    <2>1. Says("input", p)
      BY <1>5 DEF InputDelta
    <2> QED
      BY <1>1, <1>5, <2>1, InputDeltaKeeps
  <1>6. ASSUME ThoughtDelta PROVE ReplyInv'
    <2>1. Says("thought", 0)
      BY <1>6 DEF ThoughtDelta
    <2> QED
      BY <1>1, <1>6, <2>1, ThoughtDeltaKeeps
  <1>7. ASSUME CallDelta PROVE ReplyInv'
    <2>1. Says("call", 0)
      BY <1>7 DEF CallDelta
    <2> QED
      BY <1>1, <1>7, <2>1, CallDeltaKeeps
  <1> QED
    BY <1>2, <1>3, <1>4, <1>5, <1>6, <1>7 DEF Arrives

\* The end of the answer, and what the agent makes of it.
LEMMA EndKeeps ==
  ASSUME ReplyInv, UNCHANGED requestVars, UNCHANGED said, UNCHANGED streamed,
         stage' \in {"replied", "answered", "failed"}
  PROVE  ModeOK' /\ SaidOK' /\ StreamTyped' /\ StreamOK' /\ mode' = mode
  <1>1. mode' = mode /\ request' = request
    BY DEF requestVars
  <1>2. ModeOK'
    BY <1>1 DEF ModeOK, ReplyInv
  <1> QED
    BY <1>1, <1>2, ItemsStay, StreamStays DEF ReplyInv

\* A stream that ends, and its reply is built.
LEMMA CompletedKeeps ==
  ASSUME ReplyInv, NEW reason \in Reasons, Completed(reason)
  PROVE  ReplyInv'
  <1>1. /\ stage = "receiving" /\ stage' = "replied" /\ ending' = reason /\ reply' = Built(reason)
        /\ \A c \in At({"call"}) : Cardinality(InputOf(c)) # 1 \/ reason = "length"
        /\ UNCHANGED requestVars /\ UNCHANGED said /\ UNCHANGED streamed
        /\ broken' = broken /\ outcome' = outcome
    BY DEF Completed
  <1>2. ModeOK' /\ SaidOK' /\ StreamTyped' /\ StreamOK' /\ mode' = mode
    BY <1>1, EndKeeps
  <1>3. PICK r : r = Built(reason)
    OBVIOUS
  <1>4. /\ r.stop \in Stops
        /\ mode.keyed # "no" => Exact(r.content) /\ StopOK(r.stop, reason)
    BY <1>3, BuiltExact DEF ReplyInv
  <1>5. mode.keyed # "no" => Exact(reply.content)' /\ (Finds' <=> Finds)
    BY <1>1, <1>2, <1>3, <1>4, ExactStays
  <1>6. At({"call"})' = At({"call"}) /\ \A c : InputOf(c)' = InputOf(c)
    BY <1>1, SaidStays
  <1>7. mode.keyed # "no" => StopOK(reply.stop, ending)'
    BY <1>1, <1>2, <1>3, <1>4, <1>5, <1>6 DEF StopOK
  <1>8. \A c \in At({"call"})' : Cardinality(InputOf(c)') # 1 \/ ending' = "length"
    BY <1>1, <1>6
  <1>9. ConclusionOK'
    <2>1. outcome' = "none" /\ broken' \in BOOLEAN
      BY <1>1 DEF ReplyInv, ConclusionOK
    <2>2. reply'.stop \in Stops
      BY <1>1, <1>3, <1>4
    <2> QED
      BY <1>1, <1>2, <1>5, <1>7, <1>8, <2>1, <2>2 DEF ConclusionOK
  <1> QED
    BY <1>2, <1>9 DEF ReplyInv

\* A stream that breaks off: it fails, or counts as the whole answer.
LEMMA BreaksOffKeeps ==
  ASSUME ReplyInv, BreaksOff
  PROVE  ReplyInv'
  <1>1. /\ stage = "receiving" /\ stage' \in {"replied", "failed"} /\ broken' = TRUE
        /\ UNCHANGED requestVars /\ UNCHANGED said /\ UNCHANGED streamed
        /\ ending' = ending /\ outcome' = outcome
        /\ stage' = "replied" => mode.stream /\ reply' = Built("none")
        /\ stage' = "failed" => reply' = reply
    BY DEF BreaksOff
  <1>2. ModeOK' /\ SaidOK' /\ StreamTyped' /\ StreamOK' /\ mode' = mode
    BY <1>1, EndKeeps
  <1>3. ending' \in Reasons /\ outcome' = "none" /\ reply.stop \in Stops
    BY <1>1 DEF ReplyInv, ConclusionOK
  <1>4. CASE stage' = "replied"
    <2>1. PICK r : r = Built("none")
      OBVIOUS
    <2>2. /\ r.stop \in Stops
          /\ mode.keyed # "no" => Exact(r.content) /\ StopOK(r.stop, "none")
      <3>1. "none" \in Reasons
        BY DEF Reasons
      <3> QED
        BY <2>1, <3>1, BuiltExact DEF ReplyInv
    <2>3. mode.keyed # "no" => Exact(reply.content)' /\ (Finds' <=> Finds)
      BY <1>1, <1>2, <1>4, <2>1, <2>2, ExactStays
    <2>4. At({"call"})' = At({"call"})
      BY <1>1, SaidStays
    <2>5. mode.keyed # "no" => StopOK(reply.stop, ending)'
      BY <1>1, <1>2, <1>4, <2>1, <2>2, <2>3, <2>4 DEF StopOK
    <2>6. reply'.stop \in Stops
      BY <1>1, <1>4, <2>1, <2>2
    <2>7. ConclusionOK'
      BY <1>1, <1>2, <1>3, <1>4, <2>3, <2>5, <2>6 DEF ConclusionOK
    <2> QED
      BY <1>2, <2>7 DEF ReplyInv
  <1>5. CASE stage' = "failed"
    <2>1. ConclusionOK'
      BY <1>1, <1>3, <1>5 DEF ConclusionOK, Replied
    <2> QED
      BY <1>2, <2>1 DEF ReplyInv
  <1> QED
    BY <1>1, <1>4, <1>5

\* The agent decides by the reply whether there are tools to run.
LEMMA DecideKeeps ==
  ASSUME ReplyInv, Decide
  PROVE  ReplyInv'
  <1>1. /\ stage = "replied" /\ stage' = "answered"
        /\ UNCHANGED requestVars /\ UNCHANGED said /\ UNCHANGED streamed
        /\ reply' = reply /\ broken' = broken /\ ending' = ending
        /\ outcome' = IF reply.stop = "tool_use" /\ HasCall(reply.content) THEN "tools"
                      ELSE IF \E k \in DOMAIN reply.content : reply.content[k].kind = "text"
                           THEN "text" ELSE "nothing"
    BY DEF Decide
  <1>2. ModeOK' /\ SaidOK' /\ StreamTyped' /\ StreamOK' /\ mode' = mode
    BY <1>1, EndKeeps
  <1>3. /\ broken \in BOOLEAN /\ ending \in Reasons /\ reply.stop \in Stops
        /\ mode.keyed # "no" => Exact(reply.content) /\ StopOK(reply.stop, ending)
        /\ ~broken => \A c \in At({"call"}) : Cardinality(InputOf(c)) # 1 \/ ending = "length"
    BY <1>1 DEF ReplyInv, ConclusionOK, Replied
  <1>4. PICK r : r = reply
    OBVIOUS
  <1>5. mode.keyed # "no" => Exact(reply.content)' /\ (Finds' <=> Finds)
    BY <1>1, <1>2, <1>3, <1>4, ExactStays
  <1>6. At({"call"})' = At({"call"}) /\ \A c : InputOf(c)' = InputOf(c)
    BY <1>1, SaidStays
  <1>7. mode.keyed # "no" => StopOK(reply.stop, ending)'
    BY <1>1, <1>2, <1>3, <1>5, <1>6 DEF StopOK
  <1>8. ~broken' => \A c \in At({"call"})' : Cardinality(InputOf(c)') # 1 \/ ending' = "length"
    BY <1>1, <1>3, <1>6
  <1>9. outcome' = IF reply'.stop = "tool_use" /\ HasCall(reply'.content) THEN "tools"
                   ELSE IF \E k \in DOMAIN reply'.content : reply'.content[k].kind = "text"
                        THEN "text" ELSE "nothing"
    BY <1>1
  <1>10. ConclusionOK'
    BY <1>1, <1>2, <1>3, <1>5, <1>7, <1>8, <1>9 DEF ConclusionOK
  <1> QED
    BY <1>2, <1>10 DEF ReplyInv

\* No step.
LEMMA ReplyStutters ==
  ASSUME ReplyInv, UNCHANGED replyVars
  PROVE  ReplyInv'
  <1>1. /\ UNCHANGED requestVars /\ said' = said /\ UNCHANGED streamed /\ stage' = stage
        /\ mode' = mode /\ request' = request
        /\ reply' = reply /\ broken' = broken /\ ending' = ending /\ outcome' = outcome
    BY DEF replyVars, requestVars, conclusion
  <1>2. ModeOK'
    BY <1>1 DEF ReplyInv, ModeOK
  <1>3. SaidOK' /\ StreamTyped' /\ StreamOK'
    BY <1>1, ItemsStay, StreamStays DEF ReplyInv
  <1>4. Replied' <=> Replied
    BY <1>1 DEF Replied
  <1>5. PICK r : r = reply
    OBVIOUS
  <1>6. (Exact(reply.content) => Exact(reply.content)') /\ (Finds' <=> Finds)
    BY <1>1, <1>5, ExactStays
  <1>7. At({"call"})' = At({"call"}) /\ \A c : InputOf(c)' = InputOf(c)
    BY <1>1, SaidStays
  <1>8. StopOK(reply.stop, ending)' <=> StopOK(reply.stop, ending)
    BY <1>1, <1>6, <1>7 DEF StopOK
  <1>9. broken' \in BOOLEAN /\ ending' \in Reasons /\ reply'.stop \in Stops
    BY <1>1 DEF ReplyInv, ConclusionOK
  <1>10. (Replied /\ mode.keyed # "no" => Exact(reply.content) /\ StopOK(reply.stop, ending))'
    BY <1>1, <1>4, <1>6, <1>8 DEF ReplyInv, ConclusionOK
  <1>11. (Replied /\ ~broken =>
             \A c \in At({"call"}) : Cardinality(InputOf(c)) # 1 \/ ending = "length")'
    BY <1>1, <1>4, <1>7 DEF ReplyInv, ConclusionOK
  <1>12. outcome' = IF stage' # "answered" THEN "none"
                    ELSE IF reply'.stop = "tool_use" /\ HasCall(reply'.content) THEN "tools"
                    ELSE IF \E k \in DOMAIN reply'.content : reply'.content[k].kind = "text"
                         THEN "text" ELSE "nothing"
    BY <1>1 DEF ReplyInv, ConclusionOK
  <1>13. ConclusionOK'
    BY <1>9, <1>10, <1>11, <1>12 DEF ConclusionOK
  <1> QED
    BY <1>2, <1>3, <1>13 DEF ReplyInv

\* Every step keeps the invariant of a call of the model.
LEMMA ReplyStep == ReplyInv /\ [ReplyNext]_replyVars => ReplyInv'
  <1> SUFFICES ASSUME ReplyInv, [ReplyNext]_replyVars PROVE ReplyInv'
    OBVIOUS
  <1>1. CASE Ask
    BY <1>1, AskKeeps
  <1>2. CASE Arrives
    BY <1>2, ArrivesKeeps
  <1>3. CASE BreaksOff
    BY <1>3, BreaksOffKeeps
  <1>4. CASE Decide
    BY <1>4, DecideKeeps
  <1>5. ASSUME NEW r \in Reasons, Completed(r) PROVE ReplyInv'
    BY <1>5, CompletedKeeps
  <1>6. CASE UNCHANGED replyVars
    BY <1>6, ReplyStutters
  <1> QED
    BY <1>1, <1>2, <1>3, <1>4, <1>5, <1>6 DEF ReplyNext

\* A call of the model never loses what it has been told: from what the server has said,
\* what is kept of it, the reply that is built, and the agent's way on, follows the next.
THEOREM ReplyInvariant == ReplySpec => []ReplyInv
  <1> QED
    BY ReplyStarts, ReplyStep, PTL DEF ReplySpec

\* An exact reply has the calls that were made, each with its input, and the text.
LEMMA ExactIsExact ==
  ASSUME SaidOK, Exact(reply.content)
  PROVE  ReplyIsExact
  <1> DEFINE content == reply.content
             calls == {k \in DOMAIN content : content[k].kind = "call"}
             thoughtItems == {k \in DOMAIN content : said[content[k].at].kind = "thought"}
  <1>1. PICK C, W :
          /\ Keeps(content, C, W)
          /\ At({"call"}) # {} \/ ~AllRaw(Spoken) => C = {CallOf(c) : c \in At({"call"})}
          /\ ~AllRaw(Spoken) => W = {TextItem(i) : i \in At({"text", "raw", "preset"})}
    BY DEF Exact
  <1>2. calls = CallsIn(content) /\ DOMAIN content \ (calls \cup thoughtItems) = WordsIn(content)
    BY DEF CallsIn, WordsIn
  <1>3. Has(content, calls, C) /\ Has(content, DOMAIN content \ (calls \cup thoughtItems), W)
    BY <1>1, <1>2 DEF Keeps
  <1>4. {CallOf(c) : c \in At({"call"})} = {ItemOf(c) : c \in At({"call"})}
    <2>1. \A c \in At({"call"}) : ItemOf(c) = CallOf(c)
      BY AtIs, ItemOfIs
    <2> QED
      BY <2>1
  <1>5. ASSUME ~AllRaw(Spoken), At({"call"}) = {} PROVE calls = {}
    <2>1. C = {}
      BY <1>1, <1>5
    <2> QED
      BY <1>3, <2>1 DEF Has
  <1> HIDE DEF content, calls, thoughtItems
  <1>6. At({"call"}) # {} => Has(content, calls, {ItemOf(c) : c \in At({"call"})})
    BY <1>1, <1>3, <1>4
  <1>7. ~AllRaw(Spoken) =>
           Has(content, DOMAIN content \ (calls \cup thoughtItems),
               {TextItem(i) : i \in At({"text", "raw", "preset"})})
    BY <1>1, <1>3
  <1> QED
    BY <1>5, <1>6, <1>7 DEF ReplyIsExact, content, calls, thoughtItems

\* The agent goes on with tools exactly if there were calls to run.
LEMMA ExactIsRun ==
  ASSUME ReplyInv
  PROVE  CallsAreRun
  <1> SUFFICES ASSUME stage = "answered", mode.keyed # "no"
               PROVE  /\ outcome = "tools" => At({"call"}) # {} \/ AllRaw(Spoken)
                      /\ At({"call"}) # {} =>
                            outcome = "tools" \/ (mode.api = "anthropic" /\ ~mode.stream /\ ending # "tool")
                      /\ At({"call"}) = {} /\ AllRaw(Spoken) /\ mode.api = "openai" =>
                            outcome = "tools" \/ mode.stream \/ mode.emptyList
    BY DEF CallsAreRun
  <1>1. /\ Exact(reply.content) /\ StopOK(reply.stop, ending)
        /\ outcome = "tools" <=> reply.stop = "tool_use" /\ HasCall(reply.content)
    BY DEF ReplyInv, ConclusionOK, Replied
  <1>2. PICK C, W :
          /\ Keeps(reply.content, C, W)
          /\ At({"call"}) # {} \/ ~AllRaw(Spoken) => C = {CallOf(c) : c \in At({"call"})}
          /\ Finds => C # {}
    BY <1>1 DEF Exact
  <1>3. HasCall(reply.content) <=> C # {}
    BY <1>2 DEF Keeps, Has, CallsIn, HasCall
  <1>4. ASSUME outcome = "tools" PROVE At({"call"}) # {} \/ AllRaw(Spoken)
    BY <1>1, <1>2, <1>3, <1>4
  <1>5. ASSUME At({"call"}) # {}
        PROVE  outcome = "tools" \/ (mode.api = "anthropic" /\ ~mode.stream /\ ending # "tool")
    <2>1. C # {}
      BY <1>2, <1>5
    <2> QED
      BY <1>1, <1>3, <1>5, <2>1 DEF StopOK
  <1>6. ASSUME At({"call"}) = {}, AllRaw(Spoken), mode.api = "openai"
        PROVE  outcome = "tools" \/ mode.stream \/ mode.emptyList
    BY <1>1, <1>2, <1>3, <1>6 DEF Finds, StopOK
  <1> QED
    BY <1>4, <1>5, <1>6

\* An input that is empty in the reply was empty, unless the answer was cut short.
LEMMA ExactIsWhole ==
  ASSUME ReplyInv
  PROVE  InputsAreWhole
  <1> SUFFICES ASSUME outcome = "tools", mode.keyed # "no", ~broken, ending # "length",
                      NEW k \in DOMAIN reply.content,
                      reply.content[k].kind = "call", reply.content[k].input = "empty"
               PROVE  InputOf(reply.content[k].at) = {}
    BY DEF InputsAreWhole
  <1>1. Replied
    BY DEF ReplyInv, ConclusionOK, Replied
  <1>2. Exact(reply.content) /\ \A c \in At({"call"}) : Cardinality(InputOf(c)) # 1
    BY <1>1 DEF ReplyInv, ConclusionOK
  <1>3. PICK C, W :
          /\ Keeps(reply.content, C, W)
          /\ At({"call"}) # {} => C = {CallOf(c) : c \in At({"call"})}
          /\ At({"call"}) = {} => \A x \in C : x.input = "whole"
    BY <1>2 DEF Exact
  <1>4. reply.content[k] \in C
    BY <1>3 DEF Keeps, Has, CallsIn
  <1>5. PICK c \in At({"call"}) : reply.content[k] = CallOf(c)
    BY <1>3, <1>4
  <1>6. reply.content[k].at = c /\ Cardinality(InputOf(c)) # 2
    BY <1>5 DEF CallOf
  <1>7. InputOf(c) \in SUBSET (1 .. Len(said)) /\ Len(said) \in Nat
    BY AtIs DEF ReplyInv
  <1>8. IsFiniteSet(InputOf(c)) /\ Cardinality(InputOf(c)) \in Nat
    BY <1>7, InOrderIs
  <1>9. Cardinality(InputOf(c)) <= 2 /\ Cardinality(InputOf(c)) # 1
    BY <1>2 DEF ReplyInv, SaidOK
  <1>10. Cardinality(InputOf(c)) = 0
    BY <1>6, <1>8, <1>9
  <1>11. InputOf(c) = {}
    BY <1>8, <1>10, FS_EmptySet
  <1> QED
    BY <1>6, <1>11

\* Whatever the interface, however the answer is cut into deltas and however their
\* calls are named and mixed, the reply has the calls and the text of the server, the
\* reader has been told the text once, the calls are run, and none on half an input.
THEOREM RepliesFaithful == ReplySpec => []RepliesAreFaithful
  <1>1. ReplyInv => RepliesAreFaithful
    <2> SUFFICES ASSUME ReplyInv PROVE RepliesAreFaithful
      OBVIOUS
    <2>1. ReplyIsExact
      <3>1. CASE Replied /\ mode.keyed # "no"
        BY <3>1, ExactIsExact DEF ReplyInv, ConclusionOK
      <3>2. CASE ~(Replied /\ mode.keyed # "no")
        BY <3>2 DEF ReplyIsExact
      <3> QED
        BY <3>1, <3>2
    <2>2. TextIsToldOnce
      BY DEF ReplyInv, StreamOK, TextIsToldOnce
    <2> QED
      BY <2>1, <2>2, ExactIsRun, ExactIsWhole DEF RepliesAreFaithful
  <1> QED
    BY <1>1, ReplyInvariant, PTL

\* The invariant has the types.
LEMMA ReplyTyped ==
  ASSUME ReplyInv
  PROVE  ReplyTypeOK
  <1>1. \A i \in DOMAIN said : said[i].kind \in Kinds /\ said[i].of \in 0 .. i - 1
    BY AtIs DEF ReplyInv, SaidOK, IsItem
  <1>2. {told, words, thoughts} \subseteq Seq(Positions)
    BY DEF ReplyInv, StreamTyped
  <1>3. ASSUME NEW k \in DOMAIN entries
        PROVE  /\ entries[k].id \in Positions
               /\ {entries[k].text, entries[k].input} \subseteq Seq(Positions)
    <2>1. entries \in Seq(Block)
      BY DEF ReplyInv, StreamTyped
    <2>2. entries[k] \in Block
      BY <1>3, <2>1, LenProperties, ElementOfSeq
    <2> QED
      BY <2>2 DEF Block
  <1>4. outcome \in {"none", "tools", "text", "nothing"}
    BY DEF ReplyInv, ConclusionOK
  <1> QED
    BY <1>1, <1>2, <1>3, <1>4 DEF ReplyInv, ModeOK, ConclusionOK, Stops, ReplyTypeOK

\* The state of a call of the model has its types.
THEOREM ReplyTypes == ReplySpec => []ReplyTypeOK
  BY ReplyTyped, ReplyInvariant, PTL
=============================================================================
