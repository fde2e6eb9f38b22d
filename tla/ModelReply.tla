----------------------------- MODULE ModelReply -----------------------------
(***************************************************************************)
(* One call of the model (src/llm.rs): the request with its retries, the   *)
(* answer in one piece or as a stream of deltas that are put together, and *)
(* what the agent makes of it (src/agent_engine.rs).  Three interfaces:    *)
(* Anthropic's, OpenAI's, which many providers imitate more or less, and   *)
(* the Responses interface of Codex, which is read in one piece.           *)
(*                                                                         *)
(* What the server says is a sequence of items, and a piece of text, a     *)
(* call or a piece of a call's input is the position of its item.  A call  *)
(* has an input of two pieces or none, and an input with one piece is cut  *)
(* short.  "raw" is text that spells out a call.                           *)
(***************************************************************************)
EXTENDS Naturals, Sequences, FiniteSets, Functions

CONSTANTS
    MaxResends,   \* max_retries, of 429
    MaxSaid       \* bound: items of an answer

ASSUME ModelReplyAssumption == {MaxResends, MaxSaid} \subseteq Nat

VARIABLES
    mode,         \* how the model is called, see Modes
    request,      \* the name of the output limit, whether stream_options are sent, retries
    stage,        \* asking, receiving, replied, answered or failed
    said,         \* history: what the server has said, in this answer
    told,         \* the pieces of text sent to text_tx, since the call began
    words,        \* OpenAI's text and reasoning_text, as they arrive
    thoughts,
    entries,      \* the blocks of a stream, by their index
    reply,        \* MessagesResponse
    broken,       \* history: the stream ended before the server did
    ending,       \* history: the stop reason of the server
    outcome       \* what the agent goes on with: tools, a text, or nothing to show

requestVars == <<mode, request>>
streamed == <<told, words, thoughts, entries>>
conclusion == <<reply, broken, ending, outcome>>
replyVars == <<requestVars, stage, said, streamed, conclusion>>

\* OpenAI's imitators name the call of a delta by its index, by its id or not at
\* all, and an answer without calls may have an empty list of them.
Modes ==
    {m \in [api : {"anthropic", "openai", "codex"}, stream : BOOLEAN, thinking : BOOLEAN,
            keyed : {"index", "id", "no"}, emptyList : BOOLEAN] :
        /\ m.api # "openai" => m.keyed = "index" /\ ~m.thinking /\ ~m.emptyList
        /\ m.stream => m.api # "codex" /\ ~m.emptyList
        /\ ~m.stream => m.keyed = "index"}

Kinds == {"block", "preset", "text", "raw", "thought", "call", "input"}
Reasons == {"tool", "stop", "length", "other", "none"}
NoReply == [content |-> <<>>, stop |-> "none"]

At(kinds) == {i \in DOMAIN said : said[i].kind \in kinds}
InOrder(S) == [n \in 1 .. Cardinality(S) |-> CHOOSE k \in S : Cardinality({j \in S : j <= k}) = n]
InputOf(c) == {i \in At({"input"}) : said[i].of = c}
Positions == 0 .. MaxSaid

ReplyTypeOK ==
    /\ mode \in Modes
    /\ request.limit \in {"max_tokens", "max_completion_tokens"}
    /\ request.options \in BOOLEAN /\ request.retries \in 0 .. MaxResends
    /\ stage \in {"asking", "receiving", "replied", "answered", "failed"}
    /\ \A i \in DOMAIN said : said[i].kind \in Kinds /\ said[i].of \in 0 .. i - 1
    /\ {told, words, thoughts} \subseteq Seq(Positions)
    /\ \A k \in DOMAIN entries : entries[k].id \in Positions
                                /\ {entries[k].text, entries[k].input} \subseteq Seq(Positions)
    /\ reply.stop \in {"tool_use", "end_turn", "max_tokens", "other", "none"}
    /\ broken \in BOOLEAN /\ ending \in Reasons
    /\ outcome \in {"none", "tools", "text", "nothing"}

\* Only the provider named openai starts with max_completion_tokens.
ReplyInit ==
    /\ mode \in Modes
    /\ request \in [limit : {"max_tokens", "max_completion_tokens"},
                    options : {mode.stream /\ mode.api = "openai"}, retries : {0}]
    /\ mode.api # "openai" => request.limit = "max_tokens"
    /\ stage = "asking" /\ said = <<>> /\ told = <<>> /\ words = <<>> /\ thoughts = <<>>
    /\ entries = <<>> /\ reply = NoReply /\ broken = FALSE /\ ending = "none" /\ outcome = "none"

-----------------------------------------------------------------------------
(* The request.                                                             *)

Fail == stage' = "failed" /\ UNCHANGED request

\* 429: waited for and tried again, but not for a stream.
TooManyRequests ==
    /\ stage = "asking"
    /\ IF ~mode.stream /\ request.retries < MaxResends
       THEN request' = [request EXCEPT !.retries = @ + 1] /\ UNCHANGED stage
       ELSE Fail
    /\ UNCHANGED <<mode, said, streamed, conclusion>>

\* Mutant of Rejected: the name of the limit is exchanged for the other one, and
\* back.
RejectedAgain(complaint) ==
    /\ stage = "asking"
    /\ IF mode.api = "openai" /\ complaint = "limit"
       THEN /\ request' = [request EXCEPT !.limit = IF @ = "max_tokens" THEN "max_completion_tokens"
                                                   ELSE "max_tokens"]
            /\ UNCHANGED stage
       ELSE Fail
    /\ UNCHANGED <<mode, said, streamed, conclusion>>

\* Any other refusal: about the name of the limit, about stream_options, or
\* about something else.
Rejected(complaint) ==
    /\ stage = "asking"
    /\ IF mode.api = "openai" /\ complaint = "limit" /\ request.limit = "max_tokens"
       THEN request' = [request EXCEPT !.limit = "max_completion_tokens"] /\ UNCHANGED stage
       ELSE IF complaint = "options" /\ request.options
            THEN request' = [request EXCEPT !.options = FALSE] /\ UNCHANGED stage
            ELSE Fail
    /\ UNCHANGED <<mode, said, streamed, conclusion>>

Accepted ==
    /\ stage = "asking"
    /\ stage' = "receiving"
    /\ UNCHANGED <<requestVars, said, streamed, conclusion>>

-----------------------------------------------------------------------------
(* The answer.  A stream is put together as it arrives.                     *)

Says(kind, of) ==
    /\ stage = "receiving" /\ Len(said) < MaxSaid
    /\ said' = Append(said, [kind |-> kind, of |-> of])
    /\ UNCHANGED <<requestVars, stage, conclusion>>

This == Len(said) + 1
Entry(id, text) == [id |-> id, text |-> text, input |-> <<>>]
InputIsOpen(c) == c \in At({"call"}) /\ Cardinality(InputOf(c)) < 2

\* content_block_start: text that comes with it is kept and not passed on.
StartBlock(kind) ==
    /\ mode.api = "anthropic" /\ kind \in {"block", "preset", "call", "thought"}
    /\ Says(kind, 0)
    /\ entries' = IF ~mode.stream THEN entries
                  ELSE Append(entries, Entry(IF kind = "call" THEN This ELSE 0,
                                             IF kind = "preset" THEN <<This>> ELSE <<>>))
    /\ UNCHANGED <<told, words, thoughts>>

BlockIndex(b) == Cardinality({i \in At({"block", "preset", "call", "thought"}) : i <= b})

\* content_block_delta, of the last block.
BlockDelta(b) ==
    /\ mode.api = "anthropic"
    /\ b \in At({"block", "preset", "call"})
    /\ \A i \in At({"block", "preset", "call", "thought"}) : i <= b
    /\ said[b].kind = "call" => InputIsOpen(b)
    /\ Says(IF said[b].kind = "call" THEN "input" ELSE "text", b)
    /\ IF ~mode.stream THEN UNCHANGED <<entries, told>>
       ELSE IF said[b].kind = "call"
            THEN entries' = [entries EXCEPT ![BlockIndex(b)].input = Append(@, This)] /\ UNCHANGED told
            ELSE /\ entries' = [entries EXCEPT ![BlockIndex(b)].text = Append(@, This)]
                 /\ told' = Append(told, This)
    /\ UNCHANGED <<words, thoughts>>

\* A delta of OpenAI's, or a part of the output of Codex.
TextDelta(kind) ==
    /\ mode.api # "anthropic" /\ kind \in {"text", "raw"} /\ (kind = "raw" => mode.api = "openai")
    /\ Says(kind, 0)
    /\ words' = IF mode.stream THEN Append(words, This) ELSE words
    /\ told' = IF mode.stream THEN Append(told, This) ELSE told
    /\ UNCHANGED <<thoughts, entries>>

ThoughtDelta ==
    /\ mode.api = "openai"
    /\ Says("thought", 0)
    /\ thoughts' = IF mode.stream THEN Append(thoughts, This) ELSE thoughts
    /\ UNCHANGED <<told, words, entries>>

NewIndex == Len(entries) + 1
Known(c) == {k \in DOMAIN entries : entries[k].id = c}

\* Mutant of EntryOf: a delta without an index belongs to the last call.
EntryOfLast(c) == IF c = This THEN NewIndex ELSE Len(entries)

\* The entry a delta for c belongs to: by its index, by its id, or a new one.
EntryOf(c) ==
    IF mode.keyed = "index" THEN Cardinality({i \in At({"call"}) : i < c}) + 1
    ELSE IF mode.keyed = "id" /\ Known(c) # {} THEN CHOOSE k \in Known(c) : TRUE
    ELSE NewIndex

PutEntry(k, e) == entries' = IF k = NewIndex THEN Append(entries, e) ELSE [entries EXCEPT ![k] = e]

\* The first delta of a call has its id and its name.
CallDelta ==
    /\ mode.api # "anthropic"
    /\ Says("call", 0)
    /\ IF mode.stream THEN PutEntry(EntryOf(This), Entry(This, <<>>))
       ELSE UNCHANGED entries
    /\ UNCHANGED <<told, words, thoughts>>

\* The others have a piece of its input; several calls may take turns.
InputDelta(c) ==
    /\ mode.api # "anthropic" /\ InputIsOpen(c)
    /\ Says("input", c)
    /\ IF ~mode.stream THEN UNCHANGED entries
       ELSE LET k == EntryOf(c)
                e == IF k \in DOMAIN entries THEN entries[k] ELSE Entry(0, <<>>)
            IN  PutEntry(k, [e EXCEPT !.input = Append(@, This)])
    /\ UNCHANGED <<told, words, thoughts>>

-----------------------------------------------------------------------------
(* The reply.                                                               *)

\* parse_tool_input: what is not JSON, and nothing, is an empty object.
ParsedInput(input) ==
    IF Len(input) = 2 /\ said[input[1]].of = said[input[2]].of THEN "whole" ELSE "empty"

TextItem(i) == [kind |-> "text", at |-> i, input |-> "empty"]
CallItem(c, input) == [kind |-> "call", at |-> c, input |-> ParsedInput(input)]
TextItems(seq) == [k \in DOMAIN seq |-> TextItem(seq[k])]
HasCall(content) == \E k \in DOMAIN content : content[k].kind = "call"

\* extract_raw_tool_use_blocks: nothing but calls that are spelt out.
AllRaw(seq) == seq # <<>> /\ \A k \in DOMAIN seq : said[seq[k]].kind = "raw"
RawCalls(seq) == [k \in DOMAIN seq |-> [kind |-> "call", at |-> seq[k], input |-> "whole"]]

Normalized(reason) ==
    CASE reason = "tool" -> "tool_use" [] reason = "length" -> "max_tokens"
      [] reason = "other" -> "other" [] OTHER -> "end_turn"

\* build_stream_response: block by block, the text and the call.
BlocksUpTo[k \in 0 .. Len(entries)] ==
    IF k = 0 THEN <<>>
    ELSE BlocksUpTo[k - 1] \o TextItems(entries[k].text)
         \o (IF entries[k].id = 0 THEN <<>> ELSE <<CallItem(entries[k].id, entries[k].input)>>)

FromBlocks(reason) ==
    LET calls == \E k \in DOMAIN entries : entries[k].id # 0
    IN  [content |-> BlocksUpTo[Len(entries)],
         stop |-> IF calls THEN "tool_use"
                  ELSE IF reason = "tool" THEN "end_turn" ELSE Normalized(reason)]

Visible(spoken, thought) == IF mode.thinking THEN thought \o spoken ELSE spoken

\* The end of send_message_stream_with_model.
FromDeltas(reason) ==
    LET shown == Visible(words, thoughts)
        calls == [k \in DOMAIN entries |-> CallItem(entries[k].id, entries[k].input)]
    IN  [content |-> IF ~AllRaw(shown) THEN TextItems(shown) \o calls
                     ELSE IF calls = <<>> THEN RawCalls(shown) ELSE calls,
         stop |-> IF calls # <<>> THEN "tool_use" ELSE Normalized(reason)]

Spoken == InOrder(At({"text", "raw"}))
SaidCalls == InOrder(At({"call"}))
ItemOf(i) == IF said[i].kind = "call" THEN CallItem(i, InOrder(InputOf(i))) ELSE TextItem(i)
ItemsOf(seq) == [k \in DOMAIN seq |-> ItemOf(seq[k])]

\* translate_oai_response_with_display_reasoning.
FromMessage(reason) ==
    LET calls == ItemsOf(SaidCalls)
        content == TextItems(Visible(IF AllRaw(Spoken) THEN <<>> ELSE Spoken, InOrder(At({"thought"}))))
                   \o (IF calls = <<>> /\ AllRaw(Spoken) /\ ~mode.emptyList THEN RawCalls(Spoken)
                       ELSE calls)
    IN  [content |-> content,
         stop |-> IF HasCall(content) THEN "tool_use"
                  ELSE IF reason = "length" THEN "max_tokens" ELSE "end_turn"]

\* Anthropic's message is taken as it is; that of Codex has no stop reason.
FromItems(reason) ==
    LET content == ItemsOf(InOrder(At({"text", "preset", "call"})))
    IN  [content |-> content,
         stop |-> IF mode.api = "anthropic" THEN Normalized(reason)
                  ELSE IF HasCall(content) THEN "tool_use" ELSE "end_turn"]

Built(reason) ==
    CASE mode.api = "anthropic" /\ mode.stream -> FromBlocks(reason)
      [] mode.api = "openai" /\ mode.stream -> FromDeltas(reason)
      [] mode.api = "openai" /\ ~mode.stream -> FromMessage(reason)
      [] OTHER -> FromItems(reason)

\* The server ends its answer; only the limit may end it inside a call.
Completed(reason) ==
    /\ stage = "receiving"
    /\ \A c \in At({"call"}) :
          Cardinality(InputOf(c)) # 1 \/ (reason = "length" /\ InputOf(c) = {Len(said)})
    /\ stage' = "replied" /\ ending' = reason /\ reply' = Built(reason)
    /\ UNCHANGED <<requestVars, said, streamed, broken, outcome>>

\* Mutant of BreaksOff: a stream that breaks off is asked for again.
BreaksOffAndRetries ==
    /\ stage = "receiving"
    /\ broken' = TRUE
    /\ IF mode.stream /\ ~broken
       THEN /\ stage' = "asking" /\ said' = <<>> /\ words' = <<>> /\ thoughts' = <<>> /\ entries' = <<>>
            /\ UNCHANGED <<told, reply>>
       ELSE stage' = "failed" /\ UNCHANGED <<said, streamed, reply>>
    /\ UNCHANGED <<requestVars, ending, outcome>>

\* The connection is lost.  What a stream has brought counts as the answer.
BreaksOff ==
    /\ stage = "receiving"
    /\ broken' = TRUE
    /\ IF mode.stream THEN stage' = "replied" /\ reply' = Built("none")
       ELSE stage' = "failed" /\ UNCHANGED reply
    /\ UNCHANGED <<requestVars, said, streamed, ending, outcome>>

\* Mutant of Decide: tools are run for their own sake, whatever the stop reason.
DecideByCalls ==
    /\ stage = "replied"
    /\ stage' = "answered"
    /\ outcome' = IF reply.stop = "end_turn" /\ ~HasCall(reply.content) THEN "text" ELSE "tools"
    /\ UNCHANGED <<requestVars, said, streamed, reply, broken, ending>>

\* The agent runs the calls if the stop reason is tool_use and there are any;
\* else it shows the text, or has nothing to show.
Decide ==
    /\ stage = "replied"
    /\ stage' = "answered"
    /\ outcome' =
          IF reply.stop = "tool_use" /\ HasCall(reply.content) THEN "tools"
          ELSE IF \E k \in DOMAIN reply.content : reply.content[k].kind = "text"
               THEN "text" ELSE "nothing"
    /\ UNCHANGED <<requestVars, said, streamed, reply, broken, ending>>

Ask == TooManyRequests \/ Accepted \/ \E k \in {"limit", "options", "other"} : Rejected(k)

Arrives ==
    \/ \E kind \in Kinds : StartBlock(kind) \/ TextDelta(kind)
    \/ \E p \in DOMAIN said : BlockDelta(p) \/ InputDelta(p)
    \/ ThoughtDelta \/ CallDelta

ReplyNext == Ask \/ Arrives \/ BreaksOff \/ Decide \/ \E r \in Reasons : Completed(r)

ReplySpec == ReplyInit /\ [][ReplyNext]_replyVars

-----------------------------------------------------------------------------
(* Properties.                                                              *)

Replied == stage \in {"replied", "answered"}

\* seq has what is in S, in its order and once.
Lists(seq, S) ==
    /\ \A j, k \in DOMAIN seq : j < k => seq[j] < seq[k]
    /\ Range(seq) = S

\* The items of a reply at the positions S are the given ones, in their order and once.
Has(content, S, items) ==
    /\ \A j, k \in S : j < k => content[j].at < content[k].at
    /\ {content[k] : k \in S} = items

\* A reply has the calls the server has made, in their order and each with its own
\* whole input or none, however the deltas of several calls were mixed and named,
\* and all the text and nothing else; for streams cut short, as much as has come.
\* (Not if the deltas of a call's input name neither index nor id.)
ReplyIsExact ==
    Replied /\ mode.keyed # "no" =>
        LET content == reply.content
            calls == {k \in DOMAIN content : content[k].kind = "call"}
            thoughtItems == {k \in DOMAIN content : said[content[k].at].kind = "thought"}
        IN
        /\ At({"call"}) # {} => Has(content, calls, {ItemOf(c) : c \in At({"call"})})
        /\ ~AllRaw(Spoken) =>
              /\ At({"call"}) = {} => calls = {}
              /\ Has(content, DOMAIN content \ (calls \cup thoughtItems),
                     {TextItem(i) : i \in At({"text", "raw", "preset"})})

\* What the reader of the stream has been told is the text of this answer, each
\* piece once: a retry never follows text, and a lost connection none takes back.
TextIsToldOnce ==
    mode.stream /\ stage # "asking" => Lists(told, At({"text", "raw"}))

\* Calls that were made are run, and nothing is run that was not called.  (Not
\* those a plain Anthropic message makes with another stop reason; nor spelt out
\* calls in a stream, or beside an empty list of calls.)
CallsAreRun ==
    stage = "answered" /\ mode.keyed # "no" =>
        /\ outcome = "tools" => At({"call"}) # {} \/ AllRaw(Spoken)
        /\ At({"call"}) # {} =>
              outcome = "tools" \/ (mode.api = "anthropic" /\ ~mode.stream /\ ending # "tool")
        /\ At({"call"}) = {} /\ AllRaw(Spoken) /\ mode.api = "openai" =>
              outcome = "tools" \/ mode.stream \/ mode.emptyList

\* A tool is given an empty input in place of the model's only if the answer was
\* cut short: by the connection or by the output limit.
InputsAreWhole ==
    outcome = "tools" /\ mode.keyed # "no" =>
        \/ broken \/ ending = "length"
        \/ \A k \in DOMAIN reply.content :
              LET x == reply.content[k] IN
              x.kind = "call" /\ x.input = "empty" => InputOf(x.at) = {}

RepliesAreFaithful == ReplyIsExact /\ TextIsToldOnce /\ CallsAreRun /\ InputsAreWhole

\* Asking ends, whatever the server complains of and however often.
AskingEnds == stage = "asking" ~> stage # "asking"

=============================================================================
