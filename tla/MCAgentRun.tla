----------------------------- MODULE MCAgentRun -----------------------------
(***************************************************************************)
(* Small instances of what goes on around one agent run and must come to   *)
(* an end: the registry that stops it, the stream that shows it, its calls *)
(* of the model, its batches of tool calls and the requests they make to   *)
(* an MCP server.  They share no state here, so a behaviour moves one of   *)
(* them, and part says which.                                              *)
(***************************************************************************)
EXTENDS RunControl, RunStream, ToolWaves, McpServer, ModelReply

VARIABLE part

agentRunVars == <<part, controlVars, streamVars, wavesVars, mcpVars, replyVars>>

MCOverride == [t \in {"mcp_docs"} |-> "read_only"]

\* There are many batches and many ways to call a model to begin with; the other
\* parts need one.
AgentRunInit ==
    /\ part \in {"stop", "stream", "waves", "mcp", "model"}
    /\ ControlInit
    /\ StreamInit
    /\ WavesInit
    /\ McpInit
    /\ ReplyInit
    /\ part # "waves" => batch = <<"bash">> /\ approved
    /\ part # "model" => mode.api = "codex"

AgentRunNext ==
    /\ UNCHANGED part
    /\ \/ part = "stop" /\ ControlNext /\ UNCHANGED <<streamVars, wavesVars, mcpVars, replyVars>>
       \/ part = "stream" /\ StreamNext /\ UNCHANGED <<controlVars, wavesVars, mcpVars, replyVars>>
       \/ part = "waves" /\ WavesNext /\ UNCHANGED <<controlVars, streamVars, mcpVars, replyVars>>
       \/ part = "mcp" /\ McpNext /\ UNCHANGED <<controlVars, streamVars, wavesVars, replyVars>>
       \/ part = "model" /\ ReplyNext /\ UNCHANGED <<controlVars, streamVars, wavesVars, mcpVars>>

\* Every part stays in its types.
AgentRunTypeOK == ControlTypeOK /\ StreamTypeOK /\ WavesTypeOK /\ McpTypeOK /\ ReplyTypeOK

\* Nothing around a run goes on for ever: a stop ends the runs within its
\* reach, open streams end, every call of a batch gets its result, and a model is
\* not asked the same for ever, whatever it complains of.
AgentRunEnds == StopEndsRuns /\ StreamsEnd /\ AllAnswered /\ (part = "model" => AskingEnds)

\* The fairness of each part, while it is the one that moves.
AgentRunSpec ==
    /\ AgentRunInit /\ [][AgentRunNext]_agentRunVars
    /\ \A r \in Run : WF_controlVars(part = "stop" /\ PollRun(r))
    /\ \A s \in Stop : WF_controlVars(part = "stop" /\ StopStep(s))
    /\ WF_streamVars(part = "stream" /\ WorkerStep)
    /\ WF_streamVars(part = "stream" /\ ForwarderStep)
    /\ \A c \in Client : WF_streamVars(part = "stream" /\ StreamStep(c))
    /\ WF_wavesVars(part = "waves" /\ WavesNext)
    /\ \A r \in Request : WF_mcpVars(part = "mcp" /\ RequestStep(r))
    /\ WF_replyVars(part = "model" /\ Ask)

=============================================================================
