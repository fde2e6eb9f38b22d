SPECIFICATION BookkeepingSpec
CONSTANTS
    SessionKey = {k1, k2, k3}
    ActorKey = {a1, a2}
    Request = {r1, r2, r3}
    MaxInflight = 1
    MaxRequests = 2
    Window = 1
    IdleTtl = 2
    MaxBuckets = 2
    MaxTime = 4
    Session = {s1, s2}
    Task = {t1, t2, t3}
    Lock = {l1, l2}
    NoLock = NoLock
    NoTask = NoTask
    Call = {"grep a", "grep b", "fetch"}
    ToolOf <- MCToolOf
    Idempotent = {"grep", "fetch_artifact"}
    Exempt = {"fetch_artifact"}
    Content = {"x", "y"}
    RepeatWindow = 2
    Limit = 2
    MaxStreak = 3
    SameResultWarn = 2
    FailureWarn = 2
    MaxBatch = 2
    MaxAsked = 4
    MaxSession = 5
    KeepRecent = 4
    MaxIterations = 2
    Approvals = FALSE
    MaxTurns = 3
    Chat = {c1}
    Fact = {f1, f2}
    TopicOf <- MCTopicOf
    External = FALSE
    MaxRows = 2
    MaxMessages = 3
    MaxItems = 1
    MaxBusy = 1
    Cap = 1
    PauseAfter = 2
    FirstLook = 2
    Batch = 1
    Channel = {"telegram", "discord", "slack", "feishu", "weixin", "irc"}
    Post <- MCPost
    Feed <- MCFeed
    Handler = {p, h}
    Poller = p
    NoPost = NoPost
    MaxDeliveries = 2
    MaxInboxRestarts = 1
    Author = {a, b}
    Skill = {s1}
    NoSkill = NoSkill
    NoReview = NoReview
    MaxAgentSkills = 1
    MaxQueued = 2
    Section = {x, y}
    Provider = {"p", "q"}
    Model = {"m", "n"}
    ModelsOf <- MCModelsOf
    DefaultProvider = "p"
    Unset = Unset
    Command = {c1, c2}
    MaxCommands = 2
    WebKey = {w1, w2}
    MaxWebCalls = 3
    MaxClock = 6
    NoWebKey = NoWebKey
INVARIANTS
    BookkeepingTypeOK
    InflightExact
    OneRunPerSession
    GuardsExact
    ListsAreSendable
    MessagesTakenOnce
    TurnsAreReviewed
    
PROPERTIES
    NoMessageSkipped
    AdmissionIsExact
    HumanSkillsKept
    ContextsAreOwn
CHECK_DEADLOCK FALSE
