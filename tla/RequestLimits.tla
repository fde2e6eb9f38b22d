--------------------------- MODULE RequestLimits ---------------------------
(***************************************************************************)
(* The admission control of the web API: RequestHub in src/web.rs, which   *)
(* keeps a quota per session and a quota per actor, and the two endpoints  *)
(* that bracket a request with begin and end_with_limits.                  *)
(*                                                                         *)
(* begin and end run under one lock, held for microseconds, so each is one *)
(* step; time is counted in ticks of that order of the rate window.        *)
(***************************************************************************)
EXTENDS Integers, Sequences, FiniteSets

CONSTANTS
    SessionKey, ActorKey,  \* the names of the two kinds of bucket
    Request,         \* requests, each of them once
    MaxInflight,     \* max_inflight_per_session
    MaxRequests,     \* max_requests_per_window
    Window,          \* rate_window
    IdleTtl,         \* session_idle_ttl
    MaxBuckets,      \* MAX_BUCKET_KEYS, 4096
    MaxTime          \* bound: how far the clock is followed

ASSUME LimitsAssumption ==
    /\ SessionKey \cap ActorKey = {}
    /\ IsFiniteSet(Request)
    /\ MaxInflight \in Nat \ {0}
    /\ MaxRequests \in Nat \ {0}
    /\ Window \in Nat \ {0}
    /\ IdleTtl \in Nat \ {0}
    /\ MaxBuckets \in Nat \ {0}
    /\ MaxTime \in Nat

VARIABLES
    now,       \* the clock
    quota,     \* RequestQuotas: both maps, their keys are its domain
    state,     \* what has become of each request
    sessionOf,   \* the session and
    actorOf,     \* the actor it was counted for
    began      \* history: when it was admitted

limitsVars == <<now, quota, state, sessionOf, actorOf, began>>

Name == SessionKey \cup ActorKey
Refused == {"refused_buckets", "refused_inflight", "refused_rate"}
Quota == [inflight : Nat, recent : Seq(Nat), touch : Nat]

LimitsTypeOK ==
    /\ now \in 0 .. MaxTime
    /\ DOMAIN quota \subseteq Name
    /\ \A k \in DOMAIN quota : quota[k] \in Quota
    /\ state \in [Request -> {"new", "running", "done", "lost"} \cup Refused]
    /\ sessionOf \in [Request -> SessionKey]
    /\ actorOf \in [Request -> ActorKey]
    /\ began \in [Request -> Nat]

LimitsInit ==
    /\ now = 0
    /\ quota = <<>>
    /\ state = [r \in Request |-> "new"]
    /\ sessionOf \in [Request -> SessionKey]
    /\ actorOf \in [Request -> ActorKey]
    /\ began = [r \in Request |-> 0]

-----------------------------------------------------------------------------
\* prune_quota pops from the front up to the first admission in the window.
OldestKept(recent) ==
    CHOOSE i \in 1 .. Len(recent) + 1 :
        /\ \A j \in 1 .. i - 1 : now - recent[j] > Window
        /\ i <= Len(recent) => now - recent[i] <= Window

Pruned(q) == [q EXCEPT !.recent = SubSeq(@, OldestKept(@), Len(@))]

\* Mutant of Retained: what a bucket remembers is dropped with its last request.
RetainedIfBusy(q) == q.inflight # 0

Retained(q) == q.inflight # 0 \/ (q.recent # <<>> /\ now - q.touch <= IdleTtl)

\* prune_map, on both maps.
PruneMap(map) ==
    LET pruned == [k \in DOMAIN map |-> Pruned(map[k])]
    IN  [k \in {n \in DOMAIN map : Retained(pruned[n])} |-> pruned[k]]

HasRoom(map, kind, k) ==
    k \in DOMAIN map \/ Cardinality(DOMAIN map \cap kind) < MaxBuckets

\* entry(..).or_default(), last_touch = now
Touched(map, k) ==
    LET q == IF k \in DOMAIN map THEN map[k] ELSE [inflight |-> 0, recent |-> <<>>, touch |-> now]
    IN  [n \in DOMAIN map \cup {k} |-> IF n = k THEN [q EXCEPT !.touch = now] ELSE map[n]]

Charged(map, k) ==
    [map EXCEPT ![k].inflight = @ + 1, ![k].recent = Append(@, now)]

\* What a bucket has to say to one more request.
Verdict(q) ==
    CASE q.inflight >= MaxInflight -> "refused_inflight"
      [] q.inflight < MaxInflight /\ Len(q.recent) >= MaxRequests -> "refused_rate"
      [] OTHER -> "running"

Answer(r, s) ==
    /\ state' = [state EXCEPT ![r] = s]
    /\ UNCHANGED <<now, sessionOf, actorOf>>

\* Mutant of Begin: the session is charged although the actor refuses.
BeginHalf(r) ==
    /\ state[r] = "new"
    /\ LET m == PruneMap(quota)
           s == sessionOf[r]
           a == actorOf[r]
           withSession == Touched(m, s)
           withBoth == Touched(withSession, a)
       IN  IF ~HasRoom(m, SessionKey, s) \/ ~HasRoom(m, ActorKey, a)
           THEN quota' = m /\ Answer(r, "refused_buckets") /\ UNCHANGED began
           ELSE IF Verdict(withSession[s]) # "running"
           THEN quota' = withSession /\ Answer(r, Verdict(withSession[s])) /\ UNCHANGED began
           ELSE IF Verdict(withBoth[a]) # "running"
           THEN quota' = Charged(withBoth, s) /\ Answer(r, Verdict(withBoth[a])) /\ UNCHANGED began
           ELSE /\ quota' = Charged(Charged(withBoth, s), a)
                /\ Answer(r, "running")
                /\ began' = [began EXCEPT ![r] = now]

\* begin: the session is asked first; nothing is charged unless both agree.
Begin(r) ==
    /\ state[r] = "new"
    /\ LET m == PruneMap(quota)
           s == sessionOf[r]
           a == actorOf[r]
           withSession == Touched(m, s)
           withBoth == Touched(withSession, a)
       IN  IF ~HasRoom(m, SessionKey, s) \/ ~HasRoom(m, ActorKey, a)
           THEN quota' = m /\ Answer(r, "refused_buckets") /\ UNCHANGED began
           ELSE IF Verdict(withSession[s]) # "running"
           THEN quota' = withSession /\ Answer(r, Verdict(withSession[s])) /\ UNCHANGED began
           ELSE IF Verdict(withBoth[a]) # "running"
           THEN quota' = withBoth /\ Answer(r, Verdict(withBoth[a])) /\ UNCHANGED began
           ELSE /\ quota' = Charged(Charged(withBoth, s), a)
                /\ Answer(r, "running")
                /\ began' = [began EXCEPT ![r] = now]

\* Mutant of Released: released twice, and without saturating.
ReleasedTwice(q) == [Pruned(q) EXCEPT !.inflight = @ - 2, !.touch = now]

Released(q) ==
    [Pruned(q) EXCEPT !.inflight = IF @ > 0 THEN @ - 1 ELSE 0, !.touch = now]

\* Mutant of End: the actor's bucket is forgotten.
EndSessionOnly(r) ==
    /\ state[r] = "running"
    /\ quota' = PruneMap([k \in DOMAIN quota |->
                            IF k = sessionOf[r] THEN Released(quota[k]) ELSE quota[k]])
    /\ Answer(r, "done")
    /\ UNCHANGED began

\* end_with_limits: both buckets, then prune_map.
End(r) ==
    /\ state[r] = "running"
    /\ quota' = PruneMap([k \in DOMAIN quota |->
                            IF k \in {sessionOf[r], actorOf[r]} THEN Released(quota[k]) ELSE quota[k]])
    /\ Answer(r, "done")
    /\ UNCHANGED began

\* /api/send returns or is dropped between begin and end_with_limits: its
\* user header is missing, or the client closed the connection.
Lose(r) ==
    /\ state[r] = "running"
    /\ Answer(r, "lost")
    /\ UNCHANGED <<quota, began>>

Tick ==
    /\ now < MaxTime
    /\ now' = now + 1
    /\ UNCHANGED <<quota, state, sessionOf, actorOf, began>>

LimitsNext == Tick \/ \E r \in Request : Begin(r) \/ End(r) \/ Lose(r)

LimitsSpec == LimitsInit /\ [][LimitsNext]_limitsVars

-----------------------------------------------------------------------------
(***************************************************************************)
(* Properties                                                              *)
(***************************************************************************)
Of(k) == {r \in Request : k \in {sessionOf[r], actorOf[r]}}
Running(k) == {r \in Of(k) : state[r] = "running"}
Lost(k) == {r \in Of(k) : state[r] = "lost"}
Holding(k) == Running(k) \cup Lost(k)
RecentlyAdmitted(k) ==
    {r \in Of(k) : state[r] \in {"running", "done", "lost"} /\ now - began[r] <= Window}

\* No session and no actor ever has more than max_inflight_per_session requests
\* in progress: counted in requests, not in the counter.
InflightCapped == \A k \in Name : Cardinality(Running(k)) <= MaxInflight

\* The counter of a bucket is the number of its requests that have begun and
\* not ended, and a bucket that prune_map has removed had none: refusals by one
\* side and pruning never lose or invent one.
InflightExact ==
    \A k \in Name :
        Cardinality(Holding(k)) = IF k \in DOMAIN quota THEN quota[k].inflight ELSE 0

\* Within any rate window no more than max_requests_per_window are admitted,
\* although idle buckets are thrown away with what they remember.
RateCapped == \A k \in Name : Cardinality(RecentlyAdmitted(k)) <= MaxRequests

\* The maps stay within MAX_BUCKET_KEYS.
BucketsBounded ==
    \A kind \in {SessionKey, ActorKey} : Cardinality(DOMAIN quota \cap kind) <= MaxBuckets

\* A request is refused for a reason: that many requests of its session or actor
\* have not ended, were admitted in the window, or the maps are full.
RefusalsHaveCause ==
    [][\A r \in Request : state[r] = "new" =>
          /\ state'[r] = "refused_inflight" =>
                \E k \in {sessionOf[r], actorOf[r]} : Cardinality(Holding(k)) >= MaxInflight
          /\ state'[r] = "refused_rate" =>
                \E k \in {sessionOf[r], actorOf[r]} :
                    Cardinality(RecentlyAdmitted(k)) >= MaxRequests
          /\ state'[r] = "refused_buckets" =>
                \E kind \in {SessionKey, ActorKey} : Cardinality(DOMAIN quota \cap kind) = MaxBuckets]_limitsVars

\* A request that is refused for the in-flight cap has that many others in
\* progress ("Rate-limit or in-flight cap exceeded", web.rs:1799).
RefusalsAreDue ==
    [][\A r \in Request : state[r] = "new" /\ state'[r] = "refused_inflight" =>
          \E k \in {sessionOf[r], actorOf[r]} : Cardinality(Running(k)) >= MaxInflight]_limitsVars

\* The limits hold in requests, not in counters, although buckets are pruned.
QuotasHold == InflightCapped /\ RateCapped /\ BucketsBounded

\* The two together: no request is admitted beyond a limit, and none is refused
\* within all of them.
AdmissionIsExact == []QuotasHold /\ RefusalsHaveCause

=============================================================================
