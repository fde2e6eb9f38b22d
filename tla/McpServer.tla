------------------------------- MODULE McpServer ------------------------------
(***************************************************************************)
(* What stands between the agent and one MCP server (src/mcp.rs): the rate *)
(* limit, the bulkhead, the circuit breaker and the retries of             *)
(* McpServer::call_tool.  Calls overlap; the breaker and the rate limiter  *)
(* are touched under their own locks, and nothing is held between them but *)
(* the permit of the bulkhead.  The server is the environment.  The cache  *)
(* of its tools, which is refreshed before the limiter and never stops a   *)
(* call, only makes a call begin later.                                    *)
(***************************************************************************)
EXTENDS Naturals, Sequences, FiniteSets, SequencesExt

CONSTANTS
    Request,            \* the invocations of call_tool
    Never,              \* no Instant: None
    Threshold,          \* circuit_breaker_failure_threshold, 0 for no breaker
    Cooldown,           \* circuit_breaker_cooldown_secs
    MaxPermits,         \* max_concurrent_requests
    RateLimit,          \* rate_limit_per_minute, 0 for no limit
    Minute,             \* the window of the rate limiter
    MaxRetries,         \* max_retries
    MaxTime             \* bound: the clock

ASSUME McpAssumption ==
    /\ Never \notin Nat
    /\ {Cooldown, MaxPermits, Minute} \subseteq Nat \ {0}
    /\ {Threshold, RateLimit, MaxRetries, MaxTime} \subseteq Nat

VARIABLES
    clock,          \* Instant::now
    phase,          \* where each request is in call_tool
    attempt,        \* retries of each request so far
    verdict,        \* what each request came to
    windowStart, used,      \* FixedWindowRateLimiter
    permits,        \* inflight_limiter
    failing,        \* CircuitBreakerState.consecutive_failures
    openUntil,      \* CircuitBreakerState.open_until, or Never
    admitted,       \* history: when the limiter let requests through
    log             \* history: what the breaker was told, and when it opened or lapsed

mcpVars == <<clock, phase, attempt, verdict, windowStart, used, admitted, permits, failing, openUntil, log>>

Place == {"rating", "queueing", "checking", "calling", "reporting", "done"}
Refusal == {"rate-limited", "busy", "circuit open"}

\* A request holds its permit from the bulkhead to the end of its attempts.
Holding == {"checking", "calling"}

McpTypeOK ==
    /\ clock \in 0 .. MaxTime
    /\ phase \in [Request -> Place]
    /\ attempt \in [Request -> 0 .. MaxRetries]
    /\ verdict \in [Request -> Refusal \cup {"none", "ok", "failed"}]
    /\ windowStart \in 0 .. clock /\ used \in 0 .. RateLimit
    /\ permits \in 0 .. MaxPermits
    /\ failing \in Nat /\ (Threshold > 0 => failing < Threshold)
    /\ openUntil \in (Cooldown .. MaxTime + Cooldown) \cup {Never}

McpInit ==
    /\ clock = 0
    /\ phase = [r \in Request |-> "rating"]
    /\ attempt = [r \in Request |-> 0]
    /\ verdict = [r \in Request |-> "none"]
    /\ windowStart = 0 /\ used = 0
    /\ admitted = <<>>
    /\ permits = MaxPermits
    /\ failing = 0 /\ openUntil = Never
    /\ log = <<>>

-----------------------------------------------------------------------------
Go(r, place) == phase' = [phase EXCEPT ![r] = place]
Note(event) == log' = Append(log, [event |-> event, time |-> clock])
Admit == admitted' = Append(admitted, clock)

rateVars == <<windowStart, used, admitted>>
breakerVars == <<failing, openUntil>>

EndCall(r, what) == Go(r, "done") /\ verdict' = [verdict EXCEPT ![r] = what]

\* Mutant of TakeToken: a new window keeps the start of the old one.
TakeTokenUnmoved(r) ==
    LET taken == IF clock - windowStart >= Minute THEN 0 ELSE used
    IN
    /\ phase[r] = "rating"
    /\ IF RateLimit > 0 /\ taken >= RateLimit
       THEN used' = taken /\ EndCall(r, "rate-limited") /\ UNCHANGED admitted
       ELSE /\ used' = IF RateLimit = 0 THEN used ELSE taken + 1
            /\ Go(r, "queueing") /\ UNCHANGED verdict /\ Admit
    /\ UNCHANGED <<clock, attempt, windowStart, permits, breakerVars, log>>

\* FixedWindowRateLimiter::consume_or_retry_after_secs.
TakeToken(r) ==
    LET over == clock - windowStart >= Minute
        taken == IF over THEN 0 ELSE used
    IN
    /\ phase[r] = "rating"
    /\ IF RateLimit = 0
       THEN Go(r, "queueing") /\ Admit /\ UNCHANGED <<windowStart, used, verdict>>
       ELSE /\ windowStart' = IF over THEN clock ELSE windowStart
            /\ IF taken < RateLimit
               THEN used' = taken + 1 /\ Go(r, "queueing") /\ UNCHANGED verdict /\ Admit
               ELSE used' = taken /\ EndCall(r, "rate-limited") /\ UNCHANGED admitted
    /\ UNCHANGED <<clock, attempt, permits, breakerVars, log>>

AcquirePermit(r) ==
    /\ phase[r] = "queueing" /\ permits > 0
    /\ permits' = permits - 1
    /\ Go(r, "checking")
    /\ UNCHANGED <<clock, attempt, verdict, rateVars, breakerVars, log>>

\* queue_wait has passed; the token is not given back.
GiveUpQueueing(r) ==
    /\ phase[r] = "queueing" /\ permits = 0
    /\ EndCall(r, "busy")
    /\ UNCHANGED <<clock, attempt, rateVars, permits, breakerVars, log>>

\* Mutant of CheckBreaker: any request clears an open circuit.
CheckBreakerEager(r) ==
    /\ phase[r] = "checking"
    /\ openUntil' = Never /\ failing' = IF openUntil = Never THEN failing ELSE 0
    /\ Go(r, "calling") /\ IF openUntil = Never THEN UNCHANGED log ELSE Note("lapsed")
    /\ UNCHANGED <<clock, attempt, verdict, permits, rateVars>>

\* Mutant of CheckBreaker: the permit is lost when the circuit is open.
CheckBreakerLeaking(r) ==
    /\ phase[r] = "checking"
    /\ IF openUntil # Never /\ clock < openUntil
       THEN EndCall(r, "circuit open") /\ UNCHANGED <<breakerVars, log>>
       ELSE /\ openUntil' = Never /\ failing' = IF openUntil = Never THEN failing ELSE 0
            /\ Go(r, "calling") /\ IF openUntil = Never THEN UNCHANGED log ELSE Note("lapsed")
            /\ UNCHANGED verdict
    /\ UNCHANGED <<clock, attempt, permits, rateVars>>

\* CircuitBreakerState::check_ready.
CheckBreaker(r) ==
    /\ phase[r] = "checking"
    /\ \/ /\ openUntil = Never
          /\ Go(r, "calling")
          /\ UNCHANGED <<verdict, permits, breakerVars, log>>
       \/ /\ openUntil # Never /\ clock >= openUntil
          /\ openUntil' = Never /\ failing' = 0
          /\ Go(r, "calling") /\ Note("lapsed")
          /\ UNCHANGED <<verdict, permits>>
       \/ /\ openUntil # Never /\ clock < openUntil
          /\ EndCall(r, "circuit open")
          /\ permits' = permits + 1
          /\ UNCHANGED <<breakerVars, log>>
    /\ UNCHANGED <<clock, attempt, rateVars>>

\* The last attempt of call_tool_inner ends.  A request that times out is
\* reported as "timed out", which should_retry_error does not look for; a tool
\* the server does not know has the tools listed again first.
AnswerCall(r) ==
    /\ phase[r] = "calling"
    /\ \E what \in {"ok", "failed"} : verdict' = [verdict EXCEPT ![r] = what]
    /\ Go(r, "reporting")
    /\ permits' = permits + 1
    /\ UNCHANGED <<clock, attempt, rateVars, breakerVars, log>>

\* A connection error, and a retry is left: the permit is kept, the breaker is
\* not asked again.
RetryCall(r) ==
    /\ phase[r] = "calling" /\ attempt[r] < MaxRetries
    /\ attempt' = [attempt EXCEPT ![r] = @ + 1]
    /\ UNCHANGED <<clock, phase, verdict, rateVars, permits, breakerVars, log>>

\* Mutant of RecordSuccess: a success leaves the count of failures alone.
RecordSuccessForgetful(r) ==
    /\ phase[r] = "reporting" /\ verdict[r] = "ok"
    /\ openUntil' = Never /\ UNCHANGED failing
    /\ Go(r, "done") /\ Note("succeeded")
    /\ UNCHANGED <<clock, attempt, verdict, rateVars, permits>>

\* record_success and record_failure, after the permit has been given back.
RecordSuccess(r) ==
    /\ phase[r] = "reporting" /\ verdict[r] = "ok"
    /\ failing' = 0 /\ openUntil' = Never
    /\ Go(r, "done") /\ Note("succeeded")
    /\ UNCHANGED <<clock, attempt, verdict, rateVars, permits>>

\* Mutant of RecordFailure: the count is not reset when the circuit opens.
RecordFailureKeepingCount(r) ==
    /\ phase[r] = "reporting" /\ verdict[r] = "failed"
    /\ failing' = failing + 1
    /\ IF Threshold > 0 /\ failing + 1 >= Threshold
       THEN openUntil' = clock + Cooldown /\ Note("opened")
       ELSE UNCHANGED openUntil /\ Note("failed")
    /\ Go(r, "done")
    /\ UNCHANGED <<clock, attempt, verdict, rateVars, permits>>

RecordFailure(r) ==
    /\ phase[r] = "reporting" /\ verdict[r] = "failed"
    /\ IF Threshold > 0 /\ failing + 1 >= Threshold
       THEN openUntil' = clock + Cooldown /\ failing' = 0 /\ Note("opened")
       ELSE /\ failing' = IF Threshold > 0 THEN failing + 1 ELSE failing
            /\ UNCHANGED openUntil /\ Note("failed")
    /\ Go(r, "done")
    /\ UNCHANGED <<clock, attempt, verdict, rateVars, permits>>

Tick ==
    /\ clock < MaxTime
    /\ clock' = clock + 1
    /\ UNCHANGED <<phase, attempt, verdict, rateVars, permits, breakerVars, log>>

RequestStep(r) ==
    \/ TakeToken(r) \/ AcquirePermit(r) \/ GiveUpQueueing(r) \/ CheckBreaker(r)
    \/ AnswerCall(r) \/ RetryCall(r) \/ RecordSuccess(r) \/ RecordFailure(r)

McpNext == Tick \/ \E r \in Request : RequestStep(r)

\* Every request to the server is given request_timeout and every wait for a
\* permit queue_wait, so a request always goes on.
McpFairness == \A r \in Request : WF_mcpVars(RequestStep(r))

McpSpec == McpInit /\ [][McpNext]_mcpVars /\ McpFairness

-----------------------------------------------------------------------------
(* Properties.                                                              *)

Events(what) == {i \in DOMAIN log : log[i].event \in what}

\* The circuit opens with the failure that is the Threshold-th since the last
\* success, opening or lapse, in the order they are reported, and with no other
\* ("consecutive MCP request failures trip the breaker",
\* docs/operations/runbook.md:261).
OpensExactly ==
    \A i \in Events({"failed", "opened"}) :
        LET resets == {j \in Events({"succeeded", "opened", "lapsed"}) : j < i}
            inRow == {j \in Events({"failed"}) : j < i /\ \A k \in resets : k < j}
        IN  log[i].event = "opened" <=> Threshold > 0 /\ Cardinality(inRow) + 1 >= Threshold

\* The newest opening that no success has followed, or 0.
Opening ==
    LET last == Events({"opened", "succeeded"}) IN
    IF last = {} \/ log[Max(last)].event # "opened" THEN 0 ELSE Max(last)
InCooldown == Opening # 0 /\ clock < log[Opening].time + Cooldown

\* Once it has opened, no request begins before the cooldown is over, unless one
\* that was under way has succeeded since; and a refusal is never stale.
CooldownKept ==
    [][\A r \in Request :
        /\ phase[r] = "checking" /\ phase'[r] = "calling" => ~InCooldown
        /\ verdict'[r] = "circuit open" /\ verdict[r] = "none" => InCooldown]_mcpVars

\* No minute, wherever it begins, sees more than twice the limit go through: the
\* most that fixed windows allow.
AdmittedIn(from, to) == {i \in DOMAIN admitted : admitted[i] \in from .. to}
RateBounded ==
    RateLimit > 0 =>
        \A t \in 0 .. clock : Cardinality(AdmittedIn(t, t + Minute - 1)) <= 2 * RateLimit

\* The permits out are those of the requests between the bulkhead and the
\* breaker's update: none is lost on an early return, or given back twice.
PermitsAccounted ==
    permits + Cardinality({r \in Request : phase[r] \in Holding}) = MaxPermits

\* What limits the traffic to a server is neither lost nor exceeded, whichever
\* way a call ends.
LimitsHold == PermitsAccounted /\ RateBounded

=============================================================================
