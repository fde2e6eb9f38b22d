------------------------------ MODULE ToolWaves ------------------------------
(***************************************************************************)
(* One batch of tool calls (src/tool_executor.rs): the calls are split     *)
(* into waves, a wave of several calls runs in parallel, a wave of one     *)
(* call goes through execute_single_tool with its retry after approval.    *)
(* Hooks are external commands with any answer, tools have any result.     *)
(***************************************************************************)
EXTENDS Naturals, Sequences, FiniteSets, SequencesExt

CONSTANTS
    Tool,          \* names the model asks for; "" is a malformed one
    MaxCalls,      \* bound: calls in one batch
    MaxSends,      \* consecutive send_message calls that are let through
    Override,      \* tool_concurrency_overrides: a class for some of the tools
    InFeishu       \* the turn is in a Feishu chat, where text is not sent by a tool

ToolClass == {"read_only", "side_effect", "exclusive"}

ASSUME ToolWavesAssumption ==
    /\ MaxCalls \in Nat /\ MaxSends \in Nat \ {0} /\ InFeishu \in BOOLEAN
    /\ Override \in [DOMAIN Override -> ToolClass]

VARIABLES
    batch,        \* the calls, in the order of the response
    approved,     \* explicit_user_approval: the user's message says so
    todo,         \* the waves to come, the current one first
    place,        \* what is being done to each call of the current wave
    result,       \* the tool_result of each call
    toolCalls,    \* metrics.tool_calls, in this batch
    sends,        \* ctx.consecutive_send_message_calls
    failed,       \* ctx.failed_tools
    awaiting,     \* ctx.waiting_for_user_approval
    started,      \* history: the executions of tools, in the order of their start
    vetoed        \* history: calls a BeforeToolCall hook has blocked

wavesVars == <<batch, approved, todo, place, result, toolCalls, sends, failed, awaiting,
               started, vetoed>>
waveInput == <<batch, approved>>

Index == 1 .. MaxCalls
Results == {"none", "malformed", "refused", "blocked", "ok", "error", "approval"}
Stages == {"idle", "hook", "ready", "running", "retry", "after", "done"}

WavesTypeOK ==
    /\ batch \in Seq(Tool) /\ Len(batch) <= MaxCalls
    /\ approved \in BOOLEAN /\ awaiting \in BOOLEAN
    /\ \A w \in DOMAIN todo : todo[w] # <<>> /\ \A k \in DOMAIN todo[w] : todo[w][k] \in DOMAIN batch
    /\ place \in [Index -> Stages] /\ result \in [Index -> Results]
    /\ toolCalls \in 0 .. 2 * MaxCalls /\ sends \in 0 .. MaxSends + MaxCalls
    /\ failed \subseteq Tool
    /\ vetoed \subseteq Index

-----------------------------------------------------------------------------
(* Classes of tools and the partition into waves.                           *)

ReadOnlyTools ==
    {"read_file", "glob", "grep", "web_fetch", "web_search", "get_current_time", "compare_time",
     "calculate", "read_memory", "structured_memory_search", "todo_read", "export_chat",
     "a2a_list_peers", "list_scheduled_tasks", "get_scheduled_task_history",
     "list_scheduled_task_dlq", "subagents_list", "subagents_info", "subagents_focused",
     "subagents_log", "browser", "fetch_artifact"}
ExclusiveTools == {"bash", "activate_skill", "sessions_spawn"}

\* Every other name has side effects, the unknown ones included.
Class(tool) ==
    IF tool \in DOMAIN Override THEN Override[tool]
    ELSE IF tool \in ReadOnlyTools THEN "read_only"
    ELSE IF tool \in ExclusiveTools THEN "exclusive" ELSE "side_effect"

HighRisk(tool) == tool = "bash"

\* The calls with the indices S, in the order of the response.
InTurn(S) == [n \in 1 .. Cardinality(S) |-> CHOOSE k \in S : Cardinality({j \in S : j <= k}) = n]

OfClass(calls, class) == InTurn({k \in DOMAIN calls : Class(calls[k]) = class})
Alone(indices) == [k \in DOMAIN indices |-> <<indices[k]>>]

\* partition_into_waves: the read-only calls first and together, then those
\* with side effects and then the exclusive ones, one at a time.
Waves(calls) ==
    LET reads == OfClass(calls, "read_only") IN
    (IF reads = <<>> THEN <<>> ELSE <<reads>>)
        \o Alone(OfClass(calls, "side_effect")) \o Alone(OfClass(calls, "exclusive"))

WavesInit ==
    /\ batch \in BoundedSeq(Tool, MaxCalls) \ {<<>>}
    /\ approved \in BOOLEAN
    /\ todo = Waves(batch)
    /\ place = [k \in Index |-> "idle"]
    /\ result = [k \in Index |-> "none"]
    /\ toolCalls = 0 /\ sends = 0 /\ failed = {} /\ awaiting = FALSE
    /\ started = <<>> /\ vetoed = {}

Wave == Range(Head(todo))
Single == todo # <<>> /\ Len(Head(todo)) = 1
Parallel == todo # <<>> /\ Len(Head(todo)) > 1
It == Head(Head(todo))     \* the call of a wave of one

\* The next wave begins when every call of this one is done.
Done(k) ==
    /\ place' = [place EXCEPT ![k] = "done"]
    /\ todo' = IF \A j \in Wave \ {k} : place[j] = "done" THEN Tail(todo) ELSE todo

Blames(k) == failed' = failed \cup {batch[k]}
Runs(k) == /\ place' = [place EXCEPT ![k] = "running"]
           /\ started' = Append(started, k)
           /\ toolCalls' = toolCalls + 1

-----------------------------------------------------------------------------
(* execute_single_tool.                                                     *)

\* Before any hook: a call without a name, one send_message too many, and in
\* Feishu one without an attachment.
Refuse ==
    /\ Single /\ place[It] = "idle"
    /\ \/ /\ batch[It] = ""
          /\ result' = [result EXCEPT ![It] = "malformed"]
          /\ UNCHANGED <<sends, failed>>
       \/ /\ batch[It] = "send_message" /\ sends >= MaxSends
          /\ result' = [result EXCEPT ![It] = "refused"]
          /\ Blames(It)
          /\ UNCHANGED sends
       \/ /\ batch[It] = "send_message" /\ sends < MaxSends /\ InFeishu
          /\ result' = [result EXCEPT ![It] = "refused"]
          /\ UNCHANGED <<sends, failed>>
    /\ Done(It)
    /\ UNCHANGED <<waveInput, toolCalls, awaiting, started, vetoed>>

CallHook ==
    /\ Single /\ place[It] = "idle" /\ batch[It] # ""
    /\ batch[It] = "send_message" => sends < MaxSends
    /\ sends' = IF batch[It] = "send_message" THEN sends ELSE 0
    /\ place' = [place EXCEPT ![It] = "hook"]
    /\ UNCHANGED <<waveInput, todo, result, toolCalls, failed, awaiting, started, vetoed>>

\* run_before_tool; a hook that fails counts as one that allows.
HookBlocks ==
    /\ Single /\ place[It] = "hook"
    /\ result' = [result EXCEPT ![It] = "blocked"]
    /\ vetoed' = vetoed \cup {It}
    /\ Done(It)
    /\ UNCHANGED <<waveInput, toolCalls, sends, failed, awaiting, started>>

HookAllows ==
    /\ Single /\ place[It] = "hook"
    /\ Runs(It)
    /\ UNCHANGED <<waveInput, todo, result, sends, failed, awaiting, vetoed>>

\* execute_with_auth: on the web and in control chats a high-risk tool is not
\* run without the marker, which a hook may have put into its input.
ToolReturns ==
    /\ Single /\ place[It] = "running"
    /\ result' \in {[result EXCEPT ![It] = r] :
                       r \in {"ok", "error"} \cup IF HighRisk(batch[It]) THEN {"approval"} ELSE {}}
    /\ place' = [place EXCEPT ![It] = IF result'[It] = "approval" /\ approved THEN "retry" ELSE "after"]
    /\ awaiting' = (awaiting \/ (result'[It] = "approval" /\ ~approved))
    /\ UNCHANGED <<waveInput, todo, toolCalls, sends, failed, started, vetoed>>

\* Once more, with the marker.
Retry ==
    /\ Single /\ place[It] = "retry"
    /\ toolCalls' = toolCalls + 1
    /\ started' = Append(started, It)
    /\ result' \in {[result EXCEPT ![It] = r] : r \in {"ok", "error"}}
    /\ place' = [place EXCEPT ![It] = "after"]
    /\ UNCHANGED <<waveInput, todo, sends, failed, awaiting, vetoed>>

\* run_after_tool, which may change what the call has returned, and the end.
AfterHook ==
    /\ Single /\ place[It] = "after"
    /\ \E r \in {result[It]} \cup {"error", "ok"} :
          /\ result' = [result EXCEPT ![It] = r]
          /\ \/ r = "error" /\ Blames(It)
             \/ (r # "error" \/ result[It] = "approval") /\ UNCHANGED failed
    /\ sends' = IF batch[It] = "send_message" THEN sends + 1 ELSE sends
    /\ Done(It)
    /\ UNCHANGED <<waveInput, toolCalls, awaiting, started, vetoed>>

-----------------------------------------------------------------------------
(* execute_wave_parallel.                                                   *)

\* The before hooks run one after the other, all of them before any tool.
WaveHook(k) ==
    /\ Parallel /\ k \in Wave /\ place[k] = "idle"
    /\ \A i, j \in DOMAIN Head(todo) : Head(todo)[j] = k /\ i < j => place[Head(todo)[i]] # "idle"
    /\ place' = [place EXCEPT ![k] = "ready"]
    /\ vetoed' \in {vetoed, vetoed \cup {k}}
    /\ UNCHANGED <<waveInput, todo, result, toolCalls, sends, failed, awaiting, started>>

\* Mutant of StartWave: one call that is allowed starts them all.
StartWaveWhole ==
    LET run == IF Wave \subseteq vetoed THEN <<>> ELSE Head(todo) IN
    /\ Parallel /\ \A k \in Wave : place[k] = "ready"
    /\ started' = started \o run
    /\ result' = [k \in Index |-> IF run = <<>> /\ k \in Wave THEN "blocked" ELSE result[k]]
    /\ place' = [k \in Index |-> IF k \notin Wave THEN place[k]
                                 ELSE IF run = <<>> THEN "done" ELSE "running"]
    /\ todo' = IF run = <<>> THEN Tail(todo) ELSE todo
    /\ UNCHANGED <<waveInput, toolCalls, sends, failed, awaiting, vetoed>>

\* Mutant of StartWave: the results of the blocked calls are left out.
StartWaveSilent ==
    LET run == InTurn(Wave \ vetoed) IN
    /\ Parallel /\ \A k \in Wave : place[k] = "ready"
    /\ started' = started \o run
    /\ place' = [k \in Index |-> IF k \notin Wave THEN place[k]
                                 ELSE IF k \in vetoed THEN "done" ELSE "running"]
    /\ todo' = IF run = <<>> THEN Tail(todo) ELSE todo
    /\ UNCHANGED <<waveInput, result, toolCalls, sends, failed, awaiting, vetoed>>

\* join_all starts those that were not blocked; a wave without any is over.
StartWave ==
    LET run == InTurn(Wave \ vetoed) IN
    /\ Parallel /\ \A k \in Wave : place[k] = "ready"
    /\ started' = started \o run
    /\ result' = [k \in Index |-> IF k \in Wave \cap vetoed THEN "blocked" ELSE result[k]]
    /\ place' = [k \in Index |-> IF k \notin Wave THEN place[k]
                                 ELSE IF k \in vetoed THEN "done" ELSE "running"]
    /\ todo' = IF run = <<>> THEN Tail(todo) ELSE todo
    /\ UNCHANGED <<waveInput, toolCalls, sends, failed, awaiting, vetoed>>

CallReturns(k) ==
    /\ Parallel /\ k \in Wave /\ place[k] = "running"
    /\ result' \in {[result EXCEPT ![k] = r] :
                       r \in {"ok", "error"} \cup IF HighRisk(batch[k]) THEN {"approval"} ELSE {}}
    /\ place' = [place EXCEPT ![k] = "after"]
    /\ UNCHANGED <<waveInput, todo, toolCalls, sends, failed, awaiting, started, vetoed>>

\* The results are gone through when all are there.
CollectWave ==
    LET ran == {k \in Wave : place[k] = "after"} IN
    /\ Parallel /\ ran # {} /\ \A k \in Wave : place[k] \in {"after", "done"}
    /\ toolCalls' = toolCalls + Cardinality(ran)
    /\ failed' = failed \cup {batch[k] : k \in {j \in ran : result[j] \in {"error", "approval"}}}
    /\ sends' = sends + Cardinality({k \in ran : batch[k] = "send_message"})
    /\ place' = [k \in Index |-> IF k \in Wave THEN "done" ELSE place[k]]
    /\ todo' = Tail(todo)
    /\ UNCHANGED <<waveInput, result, awaiting, started, vetoed>>

WavesNext ==
    \/ Refuse \/ CallHook \/ HookBlocks \/ HookAllows \/ ToolReturns \/ Retry \/ AfterHook
    \/ StartWave \/ CollectWave
    \/ \E k \in Index : WaveHook(k) \/ CallReturns(k)

WavesFairness == WF_wavesVars(WavesNext)

WavesSpec == WavesInit /\ [][WavesNext]_wavesVars /\ WavesFairness

-----------------------------------------------------------------------------
(* Properties.                                                              *)

Busy == {k \in Index : place[k] \in {"running", "retry"}}

\* A tool that is not read-only runs alone, whatever the order in which the
\* model asks for its calls (src/tool_executor.rs:71-76).
SideEffectsRunAlone ==
    \A k \in Busy : Class(batch[k]) # "read_only" => Busy = {k}

\* Calls with side effects start in the order of the response, and so do
\* exclusive ones; the reordering is only between the classes.
OrderKept ==
    \A i, j \in DOMAIN started :
        i < j /\ started[j] < started[i] => Class(batch[started[i]]) # Class(batch[started[j]])

\* A call that was blocked is never started, in a wave of several as in a
\* wave of one, and never for the sake of the others.
BlockedNeverStarts == \A k \in vetoed : ~\E i \in DOMAIN started : started[i] = k

\* A call that waits for the user's approval makes the batch say so, so that
\* the turn ends with the question (src/agent_engine.rs:1720-1745).
ApprovalIsAsked == \A k \in DOMAIN batch : place[k] = "done" /\ result[k] = "approval" => awaiting

\* The executions that are counted are those that were made, alone or in a
\* wave, the repetition with the approval included and the blocked ones not.
CallsCounted == todo = <<>> => toolCalls = Len(started)

\* Once a batch has been begun every call of it gets its result (the provider
\* rejects a message list in which one is missing).
AllAnswered ==
    (\E k \in DOMAIN batch : place[k] # "idle") ~>
        (todo = <<>> /\ \A k \in DOMAIN batch : result[k] # "none")

\* Execution by class and in waves is no different from one call after another
\* in what it may do: calls with side effects by themselves, order within a
\* class, vetoes, approvals and the count that is reported.
WavesAreFaithful ==
    /\ SideEffectsRunAlone /\ OrderKept
    /\ BlockedNeverStarts /\ ApprovalIsAsked /\ CallsCounted

=============================================================================
