------------------------------ MODULE LoopGuards -----------------------------
(***************************************************************************)
(* What keeps a turn's tool loop from going round in circles: the circuit  *)
(* breaker for repeated calls and the end of identical responses           *)
(* (src/agent_engine.rs), and the warnings of src/tool_guardrails.rs.      *)
(* Every one of them keeps a summary of the turn; the properties compare   *)
(* it with the turn itself.                                                *)
(***************************************************************************)
EXTENDS Naturals, Sequences, FiniteSets, SequencesExt

CONSTANTS
    Call,               \* calls: a tool with its arguments
    ToolOf,             \* the tool of each call
    Idempotent,         \* IDEMPOTENT_TOOLS
    Exempt,             \* the breaker lets these tools repeat: fetch_artifact
    Content,            \* what a call may return, besides an error
    RepeatWindow,       \* tool_repeat_window
    Limit,              \* tool_repeat_limit
    MaxStreak,          \* MAX_IDENTICAL_TOOL_USE_STREAK
    SameResultWarn,     \* NO_PROGRESS_WARN_AFTER
    FailureWarn,        \* SAME_TOOL_FAILURE_WARN_AFTER
    MaxBatch,           \* bound: calls in one response
    MaxAsked            \* bound: calls in all, an empty response counted as one

ASSUME LoopGuardsAssumption ==
    /\ ToolOf \in [Call -> Range(ToolOf)]
    /\ {RepeatWindow, Limit, MaxStreak, SameResultWarn, FailureWarn, MaxBatch, MaxAsked}
          \subseteq Nat \ {0}

VARIABLES
    recentCalls,   \* recent_tool_call_keys
    lastAsked,     \* last_tool_use_fingerprint, <<>> for None
    streak,        \* repeated_tool_use_streak
    noProgress,    \* GuardrailController.no_progress: result and count by call
    failures,      \* GuardrailController.same_tool_failures
    turnEnded,     \* the turn was ended for repeating itself
    replies,       \* history: the calls of each response
    ran            \* history: those that were executed, and what was said of them

guardVars == <<recentCalls, lastAsked, streak, noProgress, failures, turnEnded, replies, ran>>

Outcome == Content \cup {"error"}
Warning == {"failing", "repeating", "nothing"}
Nothing == [result |-> "none", times |-> 0]
IsExempt(c) == ToolOf[c] \in Exempt

GuardsTypeOK ==
    /\ recentCalls \in Seq(Call) /\ Len(recentCalls) <= RepeatWindow
    /\ \A i \in DOMAIN recentCalls : ~IsExempt(recentCalls[i])
    /\ lastAsked \in Seq(Call) /\ streak \in 0 .. MaxStreak
    /\ noProgress \in [Call -> [result : Content \cup {"none"}, times : 0 .. MaxAsked]]
    /\ failures \in [Range(ToolOf) -> 0 .. MaxAsked]
    /\ turnEnded \in BOOLEAN /\ (turnEnded => streak = MaxStreak)
    /\ replies \in Seq(Seq(Call))
    /\ ran \in Seq([call : Call, out : Outcome, said : Warning,
                   reply : DOMAIN replies, place : 1 .. MaxBatch])

GuardsInit ==
    /\ recentCalls = <<>> /\ lastAsked = <<>> /\ streak = 0
    /\ noProgress = [c \in Call |-> Nothing]
    /\ failures = [t \in Range(ToolOf) |-> 0]
    /\ turnEnded = FALSE /\ replies = <<>> /\ ran = <<>>

-----------------------------------------------------------------------------
Times(c, calls) == Cardinality({i \in DOMAIN calls : calls[i] = c})

\* The breaker looks at earlier responses only: a call repeated within one
\* response is not held back.
IsCut(c) == ~IsExempt(c) /\ Times(c, recentCalls) >= Limit

\* GuardrailController::after_call.
AfterCall(g, c, out) ==
    LET t == ToolOf[c]
        before == g.same[c]
        now == IF before.result = out THEN [before EXCEPT !.times = @ + 1]
                                      ELSE [result |-> out, times |-> 1]
    IN
    IF out = "error"
    THEN [same |-> [g.same EXCEPT ![c] = Nothing],
          fails |-> [g.fails EXCEPT ![t] = @ + 1],
          said |-> IF g.fails[t] + 1 >= FailureWarn THEN "failing" ELSE "nothing"]
    ELSE [same |-> IF t \in Idempotent THEN [g.same EXCEPT ![c] = now] ELSE g.same,
          fails |-> [g.fails EXCEPT ![t] = 0],
          said |-> IF t \in Idempotent /\ now.times >= SameResultWarn
                   THEN "repeating" ELSE "nothing"]

\* Mutant of Remember: the window is emptied when it is full.
RememberAfresh(keys, c) ==
    IF IsExempt(c) THEN keys ELSE Append(IF Len(keys) >= RepeatWindow THEN <<>> ELSE keys, c)

\* A key pushes the oldest one out.
Remember(keys, c) ==
    IF IsExempt(c) THEN keys
    ELSE Append(IF Len(keys) >= RepeatWindow THEN Tail(keys) ELSE keys, c)

\* A call that is not cut is executed: the guardrails see what has come back, and
\* the breaker remembers the call.
Execute(g, x) ==
    IF IsCut(x.call) THEN g
    ELSE LET after == AfterCall(g, x.call, x.out)
         IN  [keys |-> Remember(g.keys, x.call), same |-> after.same, fails |-> after.fails,
              ran |-> Append(g.ran, [x EXCEPT !.said = after.said])]

ExecuteBatch(g, calls) == FoldLeft(Execute, g, calls)

Size(asked) == IF asked = <<>> THEN 1 ELSE Len(asked)
Total(list) == FoldLeft(LAMBDA n, asked : n + Size(asked), 0, list)
HasRoomFor(asked) == Total(Append(replies, asked)) <= MaxAsked

NextStreak(asked) == IF asked = lastAsked THEN streak + 1 ELSE 1

\* The model asks for calls; those that are not cut are executed, in one batch.
AskTools(asked) ==
    /\ ~turnEnded /\ HasRoomFor(asked)
    /\ NextStreak(asked) < MaxStreak
    /\ \E outs \in [DOMAIN asked -> Outcome] :
          LET results == [k \in DOMAIN asked |->
                  [call |-> asked[k], out |-> outs[k], said |-> "nothing",
                   reply |-> Len(replies) + 1, place |-> k]]
              done == ExecuteBatch([keys |-> recentCalls, same |-> noProgress,
                                    fails |-> failures, ran |-> ran], results)
          IN
          /\ \A k \in DOMAIN asked : IsCut(asked[k]) => outs[k] = "error"
          /\ recentCalls' = done.keys /\ noProgress' = done.same
          /\ failures' = done.fails /\ ran' = done.ran
    /\ lastAsked' = asked /\ streak' = NextStreak(asked)
    /\ replies' = Append(replies, asked)
    /\ UNCHANGED turnEnded

\* One response too many like the last: the turn ends.
StopRepeating(asked) ==
    /\ ~turnEnded /\ HasRoomFor(asked)
    /\ NextStreak(asked) >= MaxStreak
    /\ lastAsked' = asked /\ streak' = NextStreak(asked)
    /\ turnEnded' = TRUE
    /\ replies' = Append(replies, asked)
    /\ UNCHANGED <<recentCalls, noProgress, failures, ran>>

\* An empty or interrupted reply, after which the loop goes on.
ReplyWithoutTools ==
    /\ ~turnEnded /\ HasRoomFor(<<>>)
    /\ lastAsked' = <<>> /\ streak' = 0
    /\ replies' = Append(replies, <<>>)
    /\ UNCHANGED <<recentCalls, noProgress, failures, turnEnded, ran>>

Batches == BoundedSeq(Call, MaxBatch) \ {<<>>}

GuardsNext ==
    \/ \E asked \in Batches : AskTools(asked) \/ StopRepeating(asked)
    \/ ReplyWithoutTools

GuardsSpec == GuardsInit /\ [][GuardsNext]_guardVars

-----------------------------------------------------------------------------
(* Properties.  Each says of a summary what it would be, had it been made   *)
(* anew from the history.                                                   *)

\* What the breaker counts, in the responses before the n-th, and the last of it.
Tried(n) == {i \in DOMAIN ran : ran[i].reply < n /\ ~IsExempt(ran[i].call)}
LastTried(n) ==
    {i \in Tried(n) : Cardinality({j \in Tried(n) : j > i}) < RepeatWindow}

\* A call is cut exactly when it "has already run" Limit times "in the last"
\* RepeatWindow tool calls, as the model is told (src/agent_engine.rs:1537-1542).
BreakerExact ==
    replies # <<>> /\ ~turnEnded =>
        LET n == Len(replies)
            WasCut(k) == \A i \in DOMAIN ran : <<ran[i].reply, ran[i].place>> # <<n, k>>
        IN  \A k \in DOMAIN replies[n] :
                WasCut(k) <=>
                    /\ ~IsExempt(replies[n][k])
                    /\ Cardinality({i \in LastTried(n) : ran[i].call = replies[n][k]}) >= Limit

\* The turn ends with the MaxStreak-th of identical responses in a row, and
\* no other response ends it.
StreakEnds ==
    turnEnded <=>
        /\ Len(replies) >= MaxStreak /\ Last(replies) # <<>>
        /\ \A i \in 0 .. MaxStreak - 1 : replies[Len(replies) - i] = Last(replies)

\* Of the first n calls of a list: those of the tool t since which it has failed,
\* and those equal to c since which c has returned out.
FailingOf(t, list, n) ==
    {j \in 1 .. n : /\ ToolOf[list[j].call] = t
                    /\ \A i \in j .. n : ToolOf[list[i].call] = t => list[i].out = "error"}

ReturnsOf(c, out, list, n) ==
    {j \in 1 .. n : /\ list[j].call = c
                    /\ \A i \in j .. n : list[i].call = c => list[i].out = out}

\* The warnings are those the module promises: the tool has failed
\* FailureWarn times without a success between, with any arguments; the call
\* has returned the same SameResultWarn times, without an error between
\* (src/tool_guardrails.rs:8-15).
IsWarnedRight(list, n) ==
    LET x == list[n]
        t == ToolOf[x.call]
    IN
    x.said = IF x.out = "error"
             THEN IF Cardinality(FailingOf(t, list, n)) >= FailureWarn
                  THEN "failing" ELSE "nothing"
             ELSE IF /\ t \in Idempotent
                     /\ Cardinality(ReturnsOf(x.call, x.out, list, n)) >= SameResultWarn
                  THEN "repeating" ELSE "nothing"

WarningsExact == \A n \in DOMAIN ran : IsWarnedRight(ran, n)

\* The guards do what they tell the model they do: neither forget nor cut early.
GuardsExact == BreakerExact /\ StreakEnds /\ WarningsExact

=============================================================================
