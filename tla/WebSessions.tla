----------------------------- MODULE WebSessions -----------------------------
(***************************************************************************)
(* The web's sessions: what /api/send, /api/reset, /api/delete_session,    *)
(* /api/sessions/fork and the bridge's settings (src/src/web/sessions.rs,  *)
(* src/src/web.rs, src/src/web/ws.rs) do to the rows of chats, messages    *)
(* and sessions.                                                           *)
(*                                                                         *)
(* A request names a session by a key.  Sending finds the chat by its      *)
(* external id, everything else by its title, the newest first, and only   *)
(* sending holds the lock of the key.  Every request is a sequence of      *)
(* awaited statements, between which others have their turn.               *)
(*                                                                         *)
(* Keys of the form chat:<id>, which are mostly used for the chats of      *)
(* other channels, are left out, and keys that are numbers, which can be   *)
(* the external id of a row that was made anew; and so are the requests of *)
(* other users, whose rows no statement touches.                           *)
(***************************************************************************)
EXTENDS Integers, FiniteSets, FiniteSetsExt

CONSTANTS
    WebKey,     \* the keys of sessions
    MaxWebCalls,    \* bound: requests in a behaviour
    MaxClock,       \* bound: timestamps
    NoWebKey        \* no key

ASSUME WebAssumption ==
    /\ NoWebKey \notin WebKey
    /\ MaxWebCalls \in Nat
    /\ MaxClock \in Nat
    /\ WebKey \cap (1 .. MaxClock) = {}

\* Requests in the order in which they begin; ids of chats; timestamps.
WebCall == 1 .. MaxWebCalls
ChatId == 1 .. MaxClock
Time == 0 .. MaxClock

\* A row of messages: when it was stored, and for which session's chat.
WebText == [chat : ChatId, at : Time, key : WebKey, bot : BOOLEAN]

VARIABLES
    chats,      \* table chats: title, external id and last_message_time by id
    texts,      \* table messages
    kept,       \* table sessions: the context and updated_at by chat
    call,       \* what each request is doing
    clock,      \* the last timestamp given
    forgotten,  \* history: rows of messages that have been deleted
    forked,     \* history: what a fork has copied for a key and is not deleted
    reused,     \* history: ids given again while a run or fork was still on the old chat
    overtaken   \* history: runs whose chat was changed between storing and loading

webVars == <<chats, texts, kept, call, clock, forgotten, forked, reused, overtaken>>
webGhosts == <<forgotten, forked, reused, overtaken>>

SendSteps == {"resolved", "stored", "loaded", "answered"}
ForkSteps == {"clearing", "naming", "copying"}
WebStep == SendSteps \cup {"idle", "over", "resetting", "restoring", "deleting", "reading",
                           "targeting", "clearing", "naming", "copying", "setting"}

WebTypeOK ==
    /\ DOMAIN chats \subseteq ChatId
    /\ \A i \in DOMAIN chats :
          chats[i] \in [title : WebKey, external : WebKey \cup ChatId, at : Time]
    /\ texts \subseteq WebText
    /\ DOMAIN kept \subseteq ChatId
    /\ \A i \in DOMAIN kept : kept[i].has \subseteq WebText /\ kept[i].at \in Time
    /\ \A c \in WebCall : /\ call[c].step \in WebStep
                          /\ call[c].key \in WebKey \cup {NoWebKey}
                          /\ call[c].to \in WebKey \cup {NoWebKey}
                          /\ call[c].chat \in ChatId \cup {0}
                          /\ call[c].seen \subseteq WebText
                          /\ call[c].made \subseteq WebText
                          /\ call[c].said \in Time
    /\ clock \in Time
    /\ forgotten \subseteq WebText
    /\ \A k \in WebKey : forked[k] \subseteq texts
    /\ reused \subseteq ChatId
    /\ overtaken \subseteq WebCall

IdleCall == [step |-> "idle", key |-> NoWebKey, to |-> NoWebKey, chat |-> 0,
         seen |-> {}, made |-> {}, said |-> 0]

NoRows == [i \in {} |-> 0]

WebInit ==
    /\ chats = NoRows
    /\ texts = {}
    /\ kept = NoRows
    /\ call = [c \in WebCall |-> IdleCall]
    /\ clock = 0
    /\ forgotten = {}
    /\ forked = [k \in WebKey |-> {}]
    /\ reused = {}
    /\ overtaken = {}

-----------------------------------------------------------------------------
(***************************************************************************)
(* The statements on the database.                                         *)
(***************************************************************************)

Stamped == clock < MaxClock /\ clock' = clock + 1

\* The map f with value v for i, which it may or may not have had.
Put(f, i, v) == [j \in DOMAIN f \cup {i} |-> IF j = i THEN v ELSE f[j]]

\* Request c goes on with the fields of r.
Proceed(c, r) ==
    call' = [call EXCEPT ![c] = [f \in DOMAIN @ |-> IF f \in DOMAIN r THEN r[f] ELSE @[f]]]

\* Requests begin in their order.
Begins(c) == call[c].step = "idle" /\ \A d \in WebCall : call[d].step = "idle" => c <= d

TextsOf(i) == {m \in texts : m.chat = i}

Titled(k) == {i \in DOMAIN chats : chats[i].title = k}
NewestTitled(k) == CHOOSE i \in Titled(k) : \A j \in Titled(k) : chats[j].at <= chats[i].at
ByExternalId(k) == {i \in DOMAIN chats : chats[i].external = k}

\* The next row gets an id above all others: the column has no AUTOINCREMENT,
\* so that the id of the last chat is given again once the chat is deleted.
NextId == Max(DOMAIN chats \cup {0}) + 1

\* What is left of a chat whose row is gone, and the runs and forks still on it.
LeftBehind(i) ==
    \/ TextsOf(i) # {}
    \/ i \in DOMAIN kept
    \/ \E c \in WebCall : call[c].step \in SendSteps \cup ForkSteps /\ call[c].chat = i

\* Chat i is the one with the key as its external id, or is made.
ResolveOrCreate(k, i) ==
    /\ i \in IF ByExternalId(k) # {} THEN ByExternalId(k) ELSE {NextId}
    /\ Stamped
    /\ chats' = Put(chats, i, [title |-> k, external |-> k, at |-> clock + 1])
    /\ reused' = IF i \in DOMAIN chats \/ ~LeftBehind(i) THEN reused ELSE reused \cup {i}

\* Chat i is the newest with the key as its title, or else as above.
ResolveByTitle(k, i) ==
    IF Titled(k) = {} THEN ResolveOrCreate(k, i)
    ELSE i = NewestTitled(k) /\ UNCHANGED <<chats, clock, reused>>

\* Mutant of DeleteChatData: the session's row stays.
DeleteKeepingSession(i) ==
    /\ chats' = [j \in DOMAIN chats \ {i} |-> chats[j]]
    /\ texts' = texts \ TextsOf(i)
    /\ forgotten' = forgotten \cup TextsOf(i)
    /\ forked' = [k \in WebKey |-> forked[k] \ TextsOf(i)]
    /\ UNCHANGED <<kept, overtaken>>

\* Also deletes the chat's tasks and memories, which nothing here reads.
DeleteChatData(i) ==
    /\ chats' = [j \in DOMAIN chats \ {i} |-> chats[j]]
    /\ texts' = texts \ TextsOf(i)
    /\ kept' = [j \in DOMAIN kept \ {i} |-> kept[j]]
    /\ forgotten' = forgotten \cup TextsOf(i)
    /\ forked' = [k \in WebKey |-> forked[k] \ TextsOf(i)]
    /\ overtaken' = overtaken \cup {c \in WebCall : call[c].step = "stored" /\ call[c].chat = i}

\* Mutant of UpsertChat: the row can be found again by the key.
UpsertByKey(i, k) == chats' = Put(chats, i, [title |-> k, external |-> k, at |-> clock + 1])

\* A row that is made here has its own number as its external id.
UpsertChat(i, k) ==
    chats' = Put(chats, i, [title |-> k,
                            external |-> IF i \in DOMAIN chats THEN chats[i].external ELSE i,
                            at |-> clock + 1])

\* The row of sessions is replaced, whatever it holds by now.
SaveRow(i, has) == kept' = Put(kept, i, [has |-> has, at |-> clock + 1])

-----------------------------------------------------------------------------
(***************************************************************************)
(* /api/send and /api/send_stream, under the lock of the key.              *)
(***************************************************************************)

SendResolve(c, k) ==
    /\ Begins(c)
    /\ \A d \in WebCall : call[d].step \in SendSteps => call[d].key # k
    /\ \E i \in ChatId : /\ ResolveOrCreate(k, i)
                         /\ Proceed(c, [step |-> "resolved", key |-> k, chat |-> i])
    /\ UNCHANGED <<texts, kept, forgotten, forked, overtaken>>

SendStore(c) ==
    /\ call[c].step = "resolved"
    /\ Stamped
    /\ texts' = texts \cup {[chat |-> call[c].chat, at |-> clock + 1,
                            key |-> call[c].key, bot |-> FALSE]}
    /\ Proceed(c, [step |-> "stored", said |-> clock + 1])
    /\ UNCHANGED <<chats, kept, webGhosts>>

\* What a run of chat i begins with: its session and the users' messages since
\* it was saved, or the chat's messages when there is no session or an empty one.
Context(i) ==
    IF i \in DOMAIN kept /\ kept[i].has # {}
    THEN kept[i].has \cup {m \in TextsOf(i) : m.at > kept[i].at /\ ~m.bot}
    ELSE TextsOf(i)

\* A run that finds nothing answers so, and saves nothing.
RunLoads(c) ==
    /\ call[c].step = "stored"
    /\ Proceed(c, [step |-> IF Context(call[c].chat) = {} THEN "answered" ELSE "loaded",
                seen |-> Context(call[c].chat)])
    /\ UNCHANGED <<chats, texts, kept, clock, webGhosts>>

\* The answer stands in the session with what it answers.
RunSaves(c) ==
    /\ call[c].step = "loaded"
    /\ Stamped
    /\ SaveRow(call[c].chat, call[c].seen)
    /\ Proceed(c, [step |-> "answered", seen |-> {}])
    /\ UNCHANGED <<chats, texts, webGhosts>>

RunFails(c) ==
    /\ call[c].step = "loaded"
    /\ Proceed(c, [step |-> "over", seen |-> {}])
    /\ UNCHANGED <<chats, texts, kept, clock, webGhosts>>

\* An answer whose chat is gone is refused, though its session has been saved.
\* Looking for the chat and storing the answer are one step here.
DeliverReply(c) ==
    /\ call[c].step = "answered"
    /\ Proceed(c, [step |-> "over"])
    /\ IF call[c].chat \in DOMAIN chats
       THEN /\ Stamped
            /\ texts' = texts \cup {[chat |-> call[c].chat, at |-> clock + 1,
                                    key |-> call[c].key, bot |-> TRUE]}
       ELSE UNCHANGED <<clock, texts>>
    /\ UNCHANGED <<chats, kept, webGhosts>>

-----------------------------------------------------------------------------
(***************************************************************************)
(* /api/reset and /api/delete_session, without the lock.                   *)
(***************************************************************************)

ResetResolve(c, k) ==
    /\ Begins(c)
    /\ \E i \in ChatId : /\ ResolveByTitle(k, i)
                         /\ Proceed(c, [step |-> "resetting", key |-> k, chat |-> i])
    /\ UNCHANGED <<texts, kept, forgotten, forked, overtaken>>

ResetClears(c) ==
    /\ call[c].step = "resetting"
    /\ DeleteChatData(call[c].chat)
    /\ Proceed(c, [step |-> "restoring"])
    /\ UNCHANGED <<clock, reused>>

\* A chat that is gone by now has no channel, and only its session is deleted.
ResetFindsNone(c) ==
    /\ call[c].step = "resetting" /\ call[c].chat \notin DOMAIN chats
    /\ kept' = [j \in DOMAIN kept \ {call[c].chat} |-> kept[j]]
    /\ Proceed(c, [step |-> "over"])
    /\ UNCHANGED <<chats, texts, clock, webGhosts>>

ResetRestores(c) ==
    /\ call[c].step = "restoring"
    /\ Stamped
    /\ UpsertChat(call[c].chat, call[c].key)
    /\ Proceed(c, [step |-> "over"])
    /\ UNCHANGED <<texts, kept, webGhosts>>

DeleteResolve(c, k) ==
    /\ Begins(c)
    /\ \E i \in ChatId : /\ ResolveByTitle(k, i)
                         /\ Proceed(c, [step |-> "deleting", key |-> k, chat |-> i])
    /\ UNCHANGED <<texts, kept, forgotten, forked, overtaken>>

Deletes(c) ==
    /\ call[c].step = "deleting"
    /\ DeleteChatData(call[c].chat)
    /\ Proceed(c, [step |-> "over"])
    /\ UNCHANGED <<clock, reused>>

-----------------------------------------------------------------------------
(***************************************************************************)
(* /api/sessions/fork: the messages of a session are copied to another.    *)
(***************************************************************************)

ForkResolve(c, k, t) ==
    /\ Begins(c)
    /\ k # t
    /\ \E i \in ChatId : /\ ResolveByTitle(k, i)
                         /\ Proceed(c, [step |-> "reading", key |-> k, to |-> t, chat |-> i])
    /\ UNCHANGED <<texts, kept, forgotten, forked, overtaken>>

\* The first n messages, as they are now.
ForkReads(c) ==
    /\ call[c].step = "reading"
    /\ LET there == TextsOf(call[c].chat)
       IN  \E n \in 0 .. Cardinality(there) :
              Proceed(c, [step |-> "targeting",
                       seen |-> {m \in there :
                                    Cardinality({x \in there : x.at <= m.at}) <= n}])
    /\ UNCHANGED <<chats, texts, kept, clock, webGhosts>>

ForkResolvesTarget(c) ==
    /\ call[c].step = "targeting"
    /\ \E i \in ChatId : /\ ResolveOrCreate(call[c].to, i)
                         /\ Proceed(c, [step |-> "clearing", chat |-> i])
    /\ UNCHANGED <<texts, kept, forgotten, forked, overtaken>>

ForkClears(c) ==
    /\ call[c].step = "clearing"
    /\ DeleteChatData(call[c].chat)
    /\ Proceed(c, [step |-> "naming"])
    /\ UNCHANGED <<clock, reused>>

ForkNames(c) ==
    /\ call[c].step = "naming"
    /\ Stamped
    /\ UpsertChat(call[c].chat, call[c].to)
    /\ Proceed(c, [step |-> "copying"])
    /\ UNCHANGED <<texts, kept, webGhosts>>

ForkCopies(c) ==
    /\ call[c].step = "copying"
    /\ Stamped
    /\ \E m \in call[c].seen :
          LET copy == [chat |-> call[c].chat, at |-> clock + 1,
                       key |-> call[c].to, bot |-> m.bot]
          IN  /\ \A x \in call[c].seen : m.at <= x.at
              /\ texts' = texts \cup {copy}
              /\ Proceed(c, [seen |-> call[c].seen \ {m}, made |-> call[c].made \cup {copy}])
    /\ UNCHANGED <<chats, kept, webGhosts>>

\* The fork is recorded with an empty session.
ForkSaves(c) ==
    /\ call[c].step = "copying" /\ call[c].seen = {}
    /\ Stamped
    /\ SaveRow(call[c].chat, {})
    /\ forked' = [forked EXCEPT ![call[c].to] = call[c].made \cap texts]
    /\ Proceed(c, [step |-> "over", made |-> {}])
    /\ UNCHANGED <<chats, texts, forgotten, reused, overtaken>>

-----------------------------------------------------------------------------
(***************************************************************************)
(* sessions.setLabel and its like: a column of the session's row.          *)
(***************************************************************************)

SettingResolve(c, k) ==
    /\ Begins(c)
    /\ \E i \in ChatId : /\ ResolveByTitle(k, i)
                         /\ Proceed(c, [step |-> "setting", key |-> k, chat |-> i])
    /\ UNCHANGED <<texts, kept, forgotten, forked, overtaken>>

\* updated_at moves although no message has been taken into the session.
SettingSaves(c) ==
    /\ call[c].step = "setting"
    /\ Stamped
    /\ LET i == call[c].chat
       IN  /\ SaveRow(i, IF i \in DOMAIN kept THEN kept[i].has ELSE {})
           /\ overtaken' = overtaken \cup
                 {d \in WebCall : call[d].step = "stored" /\ call[d].chat = i}
    /\ Proceed(c, [step |-> "over"])
    /\ UNCHANGED <<chats, texts, forgotten, forked, reused>>

-----------------------------------------------------------------------------
WebNext ==
    \E c \in WebCall :
       \/ \E k \in WebKey : \/ SendResolve(c, k)
                            \/ ResetResolve(c, k)
                            \/ DeleteResolve(c, k)
                            \/ SettingResolve(c, k)
                            \/ \E t \in WebKey : ForkResolve(c, k, t)
       \/ SendStore(c) \/ RunLoads(c) \/ RunSaves(c) \/ RunFails(c) \/ DeliverReply(c)
       \/ ResetClears(c) \/ ResetFindsNone(c) \/ ResetRestores(c)
       \/ Deletes(c)
       \/ ForkReads(c) \/ ForkResolvesTarget(c) \/ ForkClears(c) \/ ForkNames(c)
       \/ ForkCopies(c) \/ ForkSaves(c)
       \/ SettingSaves(c)

WebSpec == WebInit /\ [][WebNext]_webVars

-----------------------------------------------------------------------------
\* Request c takes its step RunLoads.
Loads(c) == call[c].step = "stored" /\ call[c]'.step \in {"loaded", "answered"}

\* A run begins with messages of its own session that nobody has deleted, and
\* with the one it answers, although a reset, a deletion or a fork may have
\* cleared the chat under an earlier run that saves its session afterwards, and
\* chats of one title may stand side by side.  Excused: an id that is given
\* again while a run of the old chat or a fork into it has not ended or has left
\* rows behind, and a chat that is changed between the storing of the message
\* and the loading.
ContextsAreOwn ==
    [][\A c \in WebCall :
          Loads(c) /\ call[c].chat \notin reused =>
             /\ \A m \in call[c]'.seen : m.key = call[c].key /\ m \notin forgotten
             /\ c \in overtaken \/ \E m \in call[c]'.seen : m.at = call[c].said]_webVars

\* What a fork has copied is what a run of the new session begins with (RFC 0003:
\* copy the messages, children retain their own history).
ForksContinue ==
    [][\A c \in WebCall : Loads(c) => forked[call[c].key] \subseteq call[c]'.seen]_webVars

=============================================================================
