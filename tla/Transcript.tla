----------------------------- MODULE Transcript -----------------------------
(***************************************************************************)
(* The list of messages a chat's agent sends to the model                  *)
(* (src/agent_engine.rs): how it is resumed from the saved session, grows  *)
(* in the tool loop, is compacted and saved again; and what the providers  *)
(* of src/llm.rs make of it.  Of a message only its role, its kind and the *)
(* calls it makes or answers are kept.                                     *)
(***************************************************************************)
EXTENDS Naturals, Sequences, FiniteSets, SequencesExt

CONSTANTS
    MaxSession,      \* max_session_messages
    KeepRecent,      \* compact_keep_recent
    MaxIterations,   \* max_tool_iterations
    Approvals,       \* whether a call may have to wait for the user's approval
    MaxTurns         \* bound: turns of the chat

ASSUME TranscriptAssumption ==
    /\ MaxSession \in Nat \ {0} /\ KeepRecent \in Nat \ {0}
    /\ MaxIterations \in Nat \ {0} /\ MaxTurns \in Nat /\ Approvals \in BOOLEAN

VARIABLES
    saved,       \* sessions.messages_json, <<>> when there is none
    messages,    \* the list of the turn in progress
    stage,       \* "idle", "loop": about to call the model, "tools"
    turnNo,
    iteration,   \* iterations of the tool loop that are over
    guarded,     \* empty_visible_reply_retry_attempted
    cut,         \* history: the summary failed and the list was cut short
    late         \* history: the turn began with nothing new in the session

transcriptVars == <<saved, messages, stage, turnNo, iteration, guarded, cut, late>>

\* A message is a Text, or Blocks: an image, calls, or the answers to calls
\* and perhaps a text.  The calls of one reply are answered by one message, so
\* one number stands for all of them.
Text(role) == [role |-> role, kind |-> "text", batch |-> 0, note |-> FALSE]
Picture == [role |-> "user", kind |-> "image", batch |-> 0, note |-> FALSE]
Calls(n) == [role |-> "assistant", kind |-> "calls", batch |-> n, note |-> FALSE]
Answers(n, note) == [role |-> "user", kind |-> "answers", batch |-> n, note |-> note]

Message ==
    [role : {"user", "assistant"}, kind : {"text", "image", "calls", "answers"},
     batch : 0 .. MaxTurns * MaxIterations, note : BOOLEAN]

TranscriptTypeOK ==
    /\ saved \in Seq(Message) /\ messages \in Seq(Message)
    /\ stage \in {"idle", "loop", "tools"} /\ stage = "loop" => messages # <<>>
    /\ turnNo \in 0 .. MaxTurns /\ iteration \in 0 .. MaxIterations
    /\ {guarded, cut, late} \subseteq BOOLEAN

TranscriptInit ==
    /\ saved = <<>> /\ messages = <<>>
    /\ stage = "idle" /\ turnNo = 0 /\ iteration = 0
    /\ guarded = FALSE /\ cut = FALSE /\ late = FALSE

-----------------------------------------------------------------------------
(* compact_messages.                                                        *)

\* Messages of the same role are joined into one text.
Join(list, m) ==
    IF list # <<>> /\ Last(list).role = m.role
    THEN Append(Front(list), Text(m.role))
    ELSE Append(list, m)

EndWithUser(list) == IF list # <<>> /\ Last(list).role = "assistant" THEN Front(list) ELSE list

Recent(list) == SubSeq(list, Len(list) - KeepRecent + 1, Len(list))

Compacted(list) ==
    EndWithUser(FoldLeft(Join, <<Text("user"), Text("assistant")>>, Recent(list)))

\* process_with_agent_logic: a list that is too long is compacted, or cut to
\* its recent messages when the summary fails or takes too long.
Compact(list) ==
    IF Len(list) <= MaxSession \/ Len(list) <= KeepRecent
    THEN messages' = list /\ UNCHANGED cut
    ELSE \/ messages' = Compacted(list) /\ UNCHANGED cut
         \/ messages' = Recent(list) /\ cut' = TRUE

-----------------------------------------------------------------------------
(* A turn.                                                                  *)

\* New user messages are merged with a text of the user at the end.
AddUser(list) ==
    IF list # <<>> /\ Last(list) = Text("user") THEN list ELSE Append(list, Text("user"))

\* The chat's history where there is no session: alternating texts, from a
\* user's to a user's.
Histories == {<<Text("user")>>, <<Text("user"), Text("assistant"), Text("user")>>}

Resumed == IF saved = <<>> THEN Histories ELSE {AddUser(saved)}

\* The scheduler's prompt is a message of its own, with or without new ones.
Prompted == {Append(list, Text("user")) : list \in Resumed \cup ({saved} \ {<<>>})}

\* An image replaces the last message, if it is the user's.
WithImage(list) == IF Last(list).role = "user" THEN Append(Front(list), Picture) ELSE list

Pictured == {WithImage(list) : list \in Resumed}

\* A turn for a message that is stamped before the last save, or was stopped,
\* finds nothing new; its image then replaces the answers an approval left last.
BeginTurn ==
    /\ stage = "idle" /\ turnNo < MaxTurns
    /\ \/ late' = FALSE /\ \E list \in Resumed \cup Prompted \cup Pictured : Compact(list)
       \/ late' = TRUE /\ saved # <<>> /\ \E list \in {saved, WithImage(saved)} : Compact(list)
    /\ stage' = "loop" /\ turnNo' = turnNo + 1
    /\ iteration' = 0 /\ guarded' = FALSE
    /\ UNCHANGED saved

EndTurn(list) ==
    /\ stage' = "idle" /\ messages' = <<>>
    /\ saved' = list

\* The next iteration, or the text that caps the last one.
Continue(list) ==
    /\ iteration' = iteration + 1
    /\ IF iteration' < MaxIterations
       THEN stage' = "loop" /\ messages' = list /\ UNCHANGED saved
       ELSE EndTurn(Append(list, Text("assistant")))

\* end_turn, max_tokens, an unknown stop reason, tool_use without a call, and
\* the end of a loop of identical calls.
Reply ==
    /\ stage = "loop"
    /\ EndTurn(Append(messages, Text("assistant")))
    /\ UNCHANGED <<turnNo, iteration, guarded, cut, late>>

\* A reply that shows nothing is answered by the runtime, once.
GuardEmptyReply ==
    /\ stage = "loop" /\ ~guarded
    /\ guarded' = TRUE
    /\ Continue(messages \o <<Text("assistant"), Text("user")>>)
    /\ UNCHANGED <<turnNo, cut, late>>

\* Messages that came in the meantime keep the turn going.
InjectAfterReply ==
    /\ stage = "loop"
    /\ Continue(messages \o <<Text("assistant"), Text("user")>>)
    /\ UNCHANGED <<turnNo, guarded, cut, late>>

AskForTools ==
    /\ stage = "loop"
    /\ messages' = Append(messages, Calls((turnNo - 1) * MaxIterations + iteration + 1))
    /\ stage' = "tools"
    /\ UNCHANGED <<saved, turnNo, iteration, guarded, cut, late>>

\* The results, with a warning or injected messages; the turn ends here when
\* a tool waits for the user's approval.
AnswerCalls(note) ==
    LET answered == Append(messages, Answers(Last(messages).batch, note)) IN
    /\ stage = "tools"
    /\ \/ Continue(answered)
       \/ Approvals /\ EndTurn(answered) /\ UNCHANGED iteration
    /\ UNCHANGED <<turnNo, guarded, cut, late>>

\* The model fails, a hook refuses the request, the run is stopped: nothing is saved.
LoseTurn ==
    /\ stage # "idle"
    /\ EndTurn(saved)
    /\ UNCHANGED <<turnNo, iteration, guarded, cut, late>>

ClearSession ==
    /\ stage = "idle" /\ saved # <<>>
    /\ saved' = <<>> /\ cut' = FALSE
    /\ UNCHANGED <<messages, stage, turnNo, iteration, guarded, late>>

TranscriptNext ==
    \/ BeginTurn \/ Reply \/ GuardEmptyReply \/ InjectAfterReply \/ AskForTools
    \/ \E note \in BOOLEAN : AnswerCalls(note)
    \/ LoseTurn \/ ClearSession

TranscriptSpec == TranscriptInit /\ [][TranscriptNext]_transcriptVars

-----------------------------------------------------------------------------
(* What is sent.                                                            *)

\* Mutant of SanitizeStep: answers are always kept.
SanitizeStepKeeps(acc, m) == [acc EXCEPT !.list = Append(@, m)]

\* sanitize_messages: answers are kept if the calls before them are pending.
SanitizeStep(acc, m) ==
    CASE m.kind = "calls" -> [list |-> Append(acc.list, m), pending |-> m.batch]
      [] m.kind = "answers" /\ m.batch = acc.pending -> [list |-> Append(acc.list, m), pending |-> 0]
      [] m.kind = "answers" /\ m.batch # acc.pending ->
            [acc EXCEPT !.list = IF m.note THEN Append(@, [m EXCEPT !.batch = 0]) ELSE @]
      [] OTHER -> [list |-> Append(acc.list, m), pending |-> 0]

Sanitized(list) == FoldLeft(SanitizeStep, [list |-> <<>>, pending |-> 0], list).list

\* translate_messages_to_oai: the answers are messages of the role "tool", and
\* a text beside them follows as one of the user.
ToolMessage(n) == [role |-> "tool", kind |-> "answers", batch |-> n, note |-> FALSE]

TranslateStep(acc, m) ==
    IF m.kind # "answers"
    THEN [list |-> Append(acc.list, m), pending |-> m.batch]
    ELSE [list |-> acc.list
                     \o (IF m.batch = acc.pending /\ m.batch # 0 THEN <<ToolMessage(m.batch)>> ELSE <<>>)
                     \o (IF m.note THEN <<Text("user")>> ELSE <<>>),
          pending |-> 0]

Translated(list) == FoldLeft(TranslateStep, [list |-> <<>>, pending |-> 0], list).list

-----------------------------------------------------------------------------
(* Properties.                                                              *)

Number(list, Test(_)) == Cardinality({k \in DOMAIN list : Test(list[k])})

Followed(list, k, m) == k < Len(list) /\ list[k + 1].kind = "answers" /\ list[k + 1].batch = m

\* Every call is followed by its answer when the list is sent: a list without
\* it is refused, and so is every list that later turns build on it.  With
\* approvals a compaction can break this.
CallsAnswered ==
    stage = "loop" =>
        \A list \in {Sanitized(messages), Translated(messages)} :
            \A k \in DOMAIN list : list[k].kind = "calls" => Followed(list, k, list[k].batch)

\* No answer is sent without its call right before it, however the list has
\* been cut.
AnswersFollowCalls ==
    stage = "loop" =>
        \A list \in {Sanitized(messages), Translated(messages)} :
            \A k \in DOMAIN list :
                list[k].kind = "answers" /\ list[k].batch # 0 =>
                    k > 1 /\ list[k - 1] = Calls(list[k].batch)

\* Messages injected beside answers reach the model (src/llm.rs:2140-2143),
\* even where the answers themselves have to go.
NotesReachModel ==
    stage = "loop" =>
        Number(messages, LAMBDA m : m.note) + Number(messages, LAMBDA m : m = Text("user"))
            <= Number(Translated(messages), LAMBDA m : m = Text("user"))

\* The list begins with a user's message unless a summary has failed.
BeginsWithUser == stage = "loop" /\ ~cut => Head(Sanitized(messages)).role = "user"

\* What is asked of the model is the user's turn: the list ends with the
\* assistant's own words only in the first call of a turn that has nothing new
\* to answer (src/agent_engine.rs:2333 calls this a requirement).
EndsWithUser ==
    stage = "loop" => Last(Sanitized(messages)).role = "user" \/ (late /\ iteration = 0)

\* A saved session ends with a text of the assistant, except for approvals.
SessionIsCapped ==
    saved # <<>> => Last(saved) = Text("assistant") \/ (Approvals /\ Last(saved).kind = "answers")

\* Whatever has been compacted, lost, injected or left to an approval, the list
\* that is sent is one that a provider accepts and nothing the user said is
\* missing from it; a list that is refused stays refused in every later turn.
ListsAreSendable ==
    /\ CallsAnswered /\ AnswersFollowCalls /\ NotesReachModel
    /\ BeginsWithUser /\ EndsWithUser /\ SessionIsCapped

=============================================================================
