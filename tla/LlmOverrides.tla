---------------------------- MODULE LlmOverrides ----------------------------
(***************************************************************************)
(* The provider and the model of a channel (chat_commands.rs,              *)
(* config_persistence.rs, runtime.rs).  They are kept twice: in the        *)
(* configuration file, for the next start, and in two maps, for the runs.  *)
(* /provider and /model change the file first and then one map after the   *)
(* other; the web's settings change the file alone.  A change of the file  *)
(* loads it, computes what differs, reads it again and writes it back, and *)
(* nothing keeps two commands from doing so at a time.                     *)
(***************************************************************************)
EXTENDS Naturals, FiniteSets

CONSTANTS
    Section,         \* Sections of the file: a channel, or an account of one.
    Provider, Model,
    ModelsOf,        \* The models of a provider.
    DefaultProvider, \* llm_provider
    Unset,           \* Stands for no override.
    Command,
    MaxCommands      \* Bounds the commands in the model.

ASSUME OverridesAssumption ==
    /\ DefaultProvider \in Provider /\ MaxCommands \in Nat
    /\ ModelsOf \in [Provider -> SUBSET Model]
    /\ Unset \notin Provider \cup Model

VARIABLES
    onFile,      \* The file: per channel a provider and a model.
    live,        \* llm_provider_overrides and llm_model_overrides.
    step,        \* step[c]: what the command does next.
    asked,       \* asked[c]: the change it was asked for.
    loaded,      \* loaded[c]: its copy of the configuration.
    opened,      \* opened[c]: the file as it read it again.
    commands,    \* How many commands there have been.
    \* History.
    outdated,    \* Commands that hold a file another has written since.
    contested,   \* Channels on which two changes were under way at a time.
    edited,      \* Channels whose section the web has changed.
    torn         \* A write has undone another command's.

overridesVars == <<onFile, live, step, asked, loaded, opened, commands, outdated,
                   contested, edited, torn>>
historyVars == <<outdated, contested, edited, torn>>

Choice == [provider : Provider \cup {Unset}, model : Model \cup {Unset}]
None == [provider |-> Unset, model |-> Unset]

Change ==
    [kind : {"/provider"}, section : Section, value : Provider \cup {Unset}]
       \cup [kind : {"/model"}, section : Section, value : Model \cup {Unset}]
       \cup [kind : {"web"}, section : Section, value : Model]
NoChange == [kind |-> "none"]

OverridesTypeOK ==
    /\ onFile \in [Section -> Choice] /\ live \in [Section -> Choice]
    /\ step \in [Command -> {"idle", "load", "open", "write", "setProvider", "setModel"}]
    /\ asked \in [Command -> Change \cup {NoChange}]
    /\ loaded \in [Command -> Choice]
    /\ opened \in [Command -> [Section -> Choice]]
    /\ outdated \subseteq Command
    /\ contested \subseteq Section /\ edited \subseteq Section
    /\ torn \in BOOLEAN

\* resolve_effective_provider_and_model
ProviderOf(choice) ==
    IF choice.provider = Unset THEN DefaultProvider ELSE choice.provider

Fits(choice) == choice.model # Unset => choice.model \in ModelsOf[ProviderOf(choice)]

\* A start with a file in which models fit their providers.
OverridesInit ==
    /\ onFile \in [Section -> {choice \in Choice : Fits(choice)}]
    /\ live = onFile
    /\ step = [c \in Command |-> "idle"]
    /\ asked = [c \in Command |-> NoChange]
    /\ loaded = [c \in Command |-> None]
    /\ opened = [c \in Command |-> [r \in Section |-> None]]
    /\ commands = 0
    /\ outdated = {} /\ contested = {} /\ edited = {} /\ torn = FALSE

-----------------------------------------------------------------------------

\* A model must be one of the provider's, as the maps say now; asking the
\* provider for its list may take any time after that.
Allowed(change) ==
    change.kind = "/model" /\ change.value # Unset =>
        change.value \in ModelsOf[ProviderOf(live[change.section])]

UnderWay(r) == \E c \in Command : step[c] # "idle" /\ asked[c].section = r

BeginCommand(c, change) ==
    /\ step[c] = "idle" /\ commands < MaxCommands
    /\ Allowed(change)
    /\ commands' = commands + 1
    /\ step' = [step EXCEPT ![c] = "load"]
    /\ asked' = [asked EXCEPT ![c] = change]
    /\ contested' = contested \cup {r \in {change.section} : UnderWay(r)}
    /\ UNCHANGED <<onFile, live, loaded, opened, outdated, edited, torn>>

\* Config::load
Load(c) ==
    /\ step[c] = "load"
    /\ loaded' = [loaded EXCEPT ![c] = onFile[asked[c].section]]
    /\ step' = [step EXCEPT ![c] = "open"]
    /\ UNCHANGED <<onFile, live, asked, opened, commands, historyVars>>

\* Mutant of After: a change of provider leaves the model.
AfterKeepsModel(c) ==
    IF asked[c].kind = "/provider"
    THEN [loaded[c] EXCEPT !.provider = asked[c].value]
    ELSE [loaded[c] EXCEPT !.model = asked[c].value]

\* What the channel's section is to be.  Another provider has no use for the
\* model of the last one.
After(c) ==
    IF asked[c].kind = "/provider"
    THEN [provider |-> asked[c].value, model |-> Unset]
    ELSE [loaded[c] EXCEPT !.model = asked[c].value]

\* collect_changes: the fields that differ from what was loaded.
Changed(c) == {f \in {"provider", "model"} : After(c)[f] # loaded[c][f]}

\* After the file come the maps, which the web's settings leave to the next start.
AfterFile(c) ==
    CASE asked[c].kind = "/provider" -> "setProvider"
      [] asked[c].kind = "/model" -> "setModel"
      [] asked[c].kind = "web" -> "idle"

\* The file is read again, unless nothing is to be changed.
Open(c) ==
    /\ step[c] = "open"
    /\ IF Changed(c) = {}
       THEN /\ step' = [step EXCEPT ![c] = AfterFile(c)]
            /\ UNCHANGED <<opened, outdated>>
       ELSE /\ step' = [step EXCEPT ![c] = "write"]
            /\ opened' = [opened EXCEPT ![c] = onFile]
            /\ outdated' = outdated \ {c}
    /\ UNCHANGED <<onFile, live, asked, loaded, commands, contested, edited, torn>>

\* The document with the changed fields, and no others.
Rendered(c) ==
    [opened[c] EXCEPT ![asked[c].section] =
        [f \in {"provider", "model"} |->
            IF f \in Changed(c) THEN After(c)[f] ELSE @[f]]]

Write(c) ==
    /\ step[c] = "write"
    /\ onFile' = Rendered(c)
    /\ torn' = (torn \/ c \in outdated)
    /\ outdated' = {d \in Command \ {c} : step[d] = "write"}
    /\ edited' = IF asked[c].kind = "web" THEN edited \cup {asked[c].section} ELSE edited
    /\ step' = [step EXCEPT ![c] = AfterFile(c)]
    /\ UNCHANGED <<live, asked, loaded, opened, commands, contested>>

\* The file cannot be read, validated or written: the maps stay as they are.
PersistFails(c) ==
    /\ step[c] \in {"load", "open", "write"}
    /\ step' = [step EXCEPT ![c] = "idle"]
    /\ UNCHANGED <<onFile, live, asked, loaded, opened, commands, historyVars>>

SetProvider(c) ==
    /\ step[c] = "setProvider"
    /\ live' = [live EXCEPT ![asked[c].section].provider = asked[c].value]
    /\ step' = [step EXCEPT ![c] = "setModel"]
    /\ UNCHANGED <<onFile, asked, loaded, opened, commands, historyVars>>

SetModel(c) ==
    /\ step[c] = "setModel"
    /\ live' = [live EXCEPT ![asked[c].section].model =
                   IF asked[c].kind = "/provider" THEN Unset ELSE asked[c].value]
    /\ step' = [step EXCEPT ![c] = "idle"]
    /\ UNCHANGED <<onFile, asked, loaded, opened, commands, historyVars>>

\* The commands end where they are, and the maps are filled from the file.
RestartOverrides ==
    /\ live' = onFile
    /\ step' = [c \in Command |-> "idle"]
    /\ outdated' = {}
    /\ UNCHANGED <<onFile, asked, loaded, opened, commands, contested, edited, torn>>

OverridesNext ==
    \/ \E c \in Command :
          \/ \E change \in Change : BeginCommand(c, change)
          \/ Load(c) \/ Open(c) \/ Write(c) \/ PersistFails(c)
          \/ SetProvider(c) \/ SetModel(c)
    \/ RestartOverrides

OverridesSpec == OverridesInit /\ [][OverridesNext]_overridesVars

-----------------------------------------------------------------------------

\* When no command is under way on a channel, the file and the maps say the
\* same, and the model is one of the provider's: whatever the commands on other
\* channels do meanwhile, whichever commands have failed, and through restarts.
\* (Not if two changes of the channel were under way together, if one write of
\* the file undid another, or if the web has changed the channel's section.)
OverridesAgree ==
    \A r \in Section :
        ~UnderWay(r) /\ r \notin contested \cup edited /\ ~torn =>
            /\ live[r] = onFile[r]
            /\ Fits(live[r])

=============================================================================
