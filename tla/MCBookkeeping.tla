--------------------------- MODULE MCBookkeeping ---------------------------
(***************************************************************************)
(* Small instances of the components that keep books and whose properties  *)
(* are all safety properties: the web's quotas and session locks, the      *)
(* guards against loops, the transcript of a chat, the memories, the way   *)
(* of a message from its platform to a run, the skills, the channels'      *)
(* providers and models, and the sessions of the web.  They share no state *)
(* here, so a behaviour moves one of them, and part says which.            *)
(***************************************************************************)
EXTENDS RequestLimits, SessionHub, LoopGuards, Transcript, MemoryStores, ChannelInbox,
        SkillLibrary, LlmOverrides, WebSessions

VARIABLE part

bookkeepingVars == <<part, limitsVars, vars, guardVars, transcriptVars, memVars,
                     inboxVars, skillVars, overridesVars, webVars>>

MCToolOf == ("grep a" :> "grep") @@ ("grep b" :> "grep") @@ ("fetch" :> "fetch_artifact")

\* A message to the bot, a command, talk in a group with the id of the first, and
\* a stranger's message.
Said(in, i, isCommand, isAddressed, isAllowed, isDated) ==
    [chat |-> in, id |-> i, command |-> isCommand,
     addressed |-> isAddressed, allowed |-> isAllowed, dated |-> isDated]
MCPost == {Said("one", 1, FALSE, TRUE, TRUE, TRUE), Said("one", 2, TRUE, TRUE, TRUE, FALSE),
           Said("two", 1, FALSE, FALSE, TRUE, TRUE), Said("two", 3, FALSE, TRUE, FALSE, TRUE)}
MCFeed == <<Said("one", 1, FALSE, TRUE, TRUE, TRUE), Said("one", 2, TRUE, TRUE, TRUE, FALSE)>>

MCModelsOf == ("p" :> {"m"}) @@ ("q" :> {"n"})

MCTopicOf == [f \in Fact |-> "t"]

\* The quotas and the locks have many initial states, the others need one.  Keys,
\* requests and tasks are alike, so the first request and task have the first keys.
BookkeepingInit ==
    /\ part \in {"quotas", "locks", "guards", "transcript", "memory", "inbox", "skills",
                 "overrides", "sessions"}
    /\ LimitsInit
    /\ part # "quotas" =>
          \A r \in Request : /\ sessionOf[r] = CHOOSE s \in SessionKey : TRUE
                            /\ actorOf[r] = CHOOSE a \in ActorKey : TRUE
    /\ LET first == CHOOSE r \in Request : TRUE IN
          /\ sessionOf[first] = CHOOSE s \in SessionKey : TRUE
          /\ actorOf[first] = CHOOSE a \in ActorKey : TRUE
    /\ Init
    /\ LET first == CHOOSE t \in Task : TRUE
       IN  session[first] = CHOOSE s \in Session : TRUE
    /\ part # "locks" => \A t \in Task : session[t] = CHOOSE s \in Session : TRUE
    /\ GuardsInit
    /\ TranscriptInit
    /\ MemoryInit
    /\ InboxInit
    /\ part # "inbox" => channel = CHOOSE c \in Channel : TRUE
    /\ SkillInit
    /\ OverridesInit
    /\ \A r \in Section :
          part # "overrides" \/ r # (CHOOSE x \in Section : TRUE) => onFile[r] = None
    /\ WebInit

BookkeepingNext ==
    /\ UNCHANGED part
    /\ \/ /\ part = "quotas" /\ LimitsNext
          /\ UNCHANGED <<vars, guardVars, transcriptVars, memVars, inboxVars,
                         skillVars, overridesVars, webVars>>
       \/ /\ part = "locks" /\ Next
          /\ UNCHANGED <<limitsVars, guardVars, transcriptVars, memVars, inboxVars,
                         skillVars, overridesVars, webVars>>
       \/ /\ part = "guards" /\ GuardsNext
          /\ UNCHANGED <<limitsVars, vars, transcriptVars, memVars, inboxVars,
                         skillVars, overridesVars, webVars>>
       \/ /\ part = "transcript" /\ TranscriptNext
          /\ UNCHANGED <<limitsVars, vars, guardVars, memVars, inboxVars,
                         skillVars, overridesVars, webVars>>
       \/ /\ part = "memory" /\ MemoryNext
          /\ UNCHANGED <<limitsVars, vars, guardVars, transcriptVars, inboxVars,
                         skillVars, overridesVars, webVars>>
       \/ /\ part = "inbox" /\ InboxNext
          /\ UNCHANGED <<limitsVars, vars, guardVars, transcriptVars, memVars,
                         skillVars, overridesVars, webVars>>
       \/ /\ part = "skills" /\ SkillNext
          /\ UNCHANGED <<limitsVars, vars, guardVars, transcriptVars, memVars,
                         inboxVars, overridesVars, webVars>>
       \/ /\ part = "overrides" /\ OverridesNext
          /\ UNCHANGED <<limitsVars, vars, guardVars, transcriptVars, memVars,
                         inboxVars, skillVars, webVars>>
       \/ /\ part = "sessions" /\ WebNext
          /\ UNCHANGED <<limitsVars, vars, guardVars, transcriptVars, memVars,
                         inboxVars, skillVars, overridesVars>>

\* The part that moves stays in its types, and session locks in their map.
BookkeepingTypeOK ==
    /\ part = "quotas" => LimitsTypeOK
    /\ part = "locks" => HubInv
    /\ part = "guards" => GuardsTypeOK
    /\ part = "transcript" => TranscriptTypeOK
    /\ part = "memory" => MemoryTypeOK
    /\ part = "inbox" => InboxTypeOK
    /\ part = "skills" => SkillTypeOK
    /\ part = "overrides" => OverridesTypeOK
    /\ part = "sessions" => WebTypeOK

BookkeepingSpec == BookkeepingInit /\ [][BookkeepingNext]_bookkeepingVars

=============================================================================
