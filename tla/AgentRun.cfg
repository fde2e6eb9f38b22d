SPECIFICATION AgentRunSpec
CONSTANTS
    Chat = {c1, c2}
    WebChat = {c2}
    Run = {r1, r2}
    Stop = {x1, x2}
    NoChat = NoChat
    Client = {d1, d2}
    Bridge = {d2}
    MaxAgentEvents = 1
    HistoryLimit = 2
    Capacity = 2
    Tool = {"read_file", "mcp_docs", "send_message", "bash", "activate_skill", ""}
    MaxCalls = 3
    MaxSends = 1
    Override <- MCOverride
    InFeishu = TRUE
    Request = {q1, q2, q3}
    Never = never
    Threshold = 2
    Cooldown = 2
    MaxPermits = 2
    RateLimit = 1
    Minute = 2
    MaxRetries = 1
    MaxTime = 4
    MaxResends = 1
    MaxSaid = 4
INVARIANTS
    AgentRunTypeOK
    RegistryExact
    ResumeIsExact
    OutcomeIsRight
    WavesAreFaithful
    OpensExactly
    LimitsHold
    RepliesAreFaithful
PROPERTIES
    AgentRunEnds
    CooldownKept
CHECK_DEADLOCK FALSE
