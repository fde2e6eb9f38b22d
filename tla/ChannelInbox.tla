---------------------------- MODULE ChannelInbox ----------------------------
(***************************************************************************)
(* How a message that a chat platform delivers becomes a run of the agent. *)
(* Every adapter of src/channels takes the message through guards before   *)
(* it starts or queues a run, in an order of its own: the sequences below. *)
(* The guards of src/channels/startup_guard.rs live in memory, the stored  *)
(* messages in the database, and a platform may deliver a message again.   *)
(*                                                                         *)
(* A message without text, or with a file that is too large, is no message *)
(* here, and one of a group whose bot has to be mentioned is one more that *)
(* is not addressed.  Nor is one without an id, which every adapter that   *)
(* meets it stores under a fresh one at each delivery.                     *)
(*                                                                         *)
(* The Weixin adapter also polls: one loop fetches messages from a cursor  *)
(* on and handles them one after the other.                                *)
(***************************************************************************)
EXTENDS Naturals, Sequences, FiniteSets, SequencesExt

CONSTANTS
    Channel,        \* the adapters of the instance
    Post,           \* records: chat, id, command, addressed, allowed, dated
    Feed,           \* the messages a polled server has, in its order
    Handler,        \* handlers that run at a time; for Weixin one of them is the poll loop
    Poller,
    NoPost,
    MaxDeliveries,  \* bound: deliveries in all
    MaxInboxRestarts \* bound: restarts of the program

ASSUME ChannelInboxAssumption ==
    /\ Channel \subseteq {"telegram", "discord", "slack", "feishu", "weixin", "qq", "signal",
                          "whatsapp", "dingtalk", "email", "nostr", "irc"}
    /\ NoPost \notin Post
    \* a platform gives the messages of a chat different ids, but not those of two
    /\ \A m, n \in Post : m.chat = n.chat /\ m.id = n.id => m = n
    /\ Feed \in Seq(Post)
    /\ Poller \in Handler
    /\ {MaxDeliveries, MaxInboxRestarts} \subseteq Nat

VARIABLES
    channel,     \* the adapter
    handling,    \* what each handler is doing: its message, the next step, the chat it found
    inboxBatch,  \* fetched by the poll loop and not handled yet
    fetched,     \* get_updates_buf: how many messages of Feed were fetched
    savedCursor, \* ... and the copy on disk
    old,         \* messages sent before the program was started
    seen,        \* CHANNEL_RECENT_MESSAGE_IDS: ids seen within ten minutes
    storedRows,  \* stored messages
    deliveries,  \* how many there were
    delivered,   \* history: messages delivered at least once
    taken,       \* history: whether a message was taken up: a run started or
                 \* queued for it, or the command it is carried out
    excused,     \* history: messages dropped for a reason of their own
    passed,      \* history: messages the duplicate guard let through
    lapsed,      \* history: messages it let through and has forgotten
    inboxRestarts

pollVars == <<inboxBatch, fetched, savedCursor>>
guardTables == <<old, seen>>
deliverVars == <<deliveries, delivered>>
dropVars == <<passed, lapsed>>
inboxVars == <<channel, handling, pollVars, guardTables, storedRows, deliverVars, taken,
               excused, dropVars, inboxRestarts>>

-----------------------------------------------------------------------------
(* The order of the guards in each adapter. *)

WeixinSteps == <<"allow", "chat", "preStart", "guard", "command", "store", "turn">>
QqSteps == WeixinSteps
SignalSteps == WeixinSteps
WhatsAppSteps == WeixinSteps
DingTalkSteps == WeixinSteps
EmailSteps == WeixinSteps
NostrSteps == WeixinSteps

IrcSteps == <<"chat", "groupCommand", "storeFresh", "addressed", "turn">>

SlackSteps == <<"chat", "allow", "preStart", "guard", "heard", "groupCommand",
                "store", "focus", "turn">>

DiscordSteps == <<"chatOrRaw", "allow", "preStart", "guard", "groupCommand",
                  "store", "addressed", "focus", "turn">>

\* A command is carried out before the list of groups is looked at.
TelegramSteps == <<"privateAllow", "preStart", "guard", "groupCommand", "chatOrRaw", "groupAllow",
                   "store", "addressed", "focus", "turn">>

FeishuSteps == <<"guard", "preStart", "allow", "chat", "token",
                 "store", "groupCommand", "addressed", "turn">>

Steps ==
    CASE channel = "telegram" -> TelegramSteps
      [] channel = "discord" -> DiscordSteps
      [] channel = "slack" -> SlackSteps
      [] channel = "feishu" -> FeishuSteps
      [] channel = "weixin" -> WeixinSteps
      [] channel = "qq" -> QqSteps
      [] channel = "signal" -> SignalSteps
      [] channel = "whatsapp" -> WhatsAppSteps
      [] channel = "dingtalk" -> DingTalkSteps
      [] channel = "email" -> EmailSteps
      [] channel = "nostr" -> NostrSteps
      [] channel = "irc" -> IrcSteps

-----------------------------------------------------------------------------
Resting == [msg |-> NoPost, at |-> 0, row |-> TRUE]
Free(h) == handling[h].msg = NoPost
At(h, s) == ~Free(h) /\ Steps[handling[h].at] = s

\* The row a message is stored under: after a failed look-up of its chat the
\* platform's own id stands for the chat.
RowOf(h) == [chat |-> handling[h].msg.chat, id |-> handling[h].msg.id, found |-> handling[h].row]

\* Reasons to drop a message that are its own or a failure's.  That it was
\* delivered or stored before is none.
Excuses == {"not allowed", "not addressed", "no chat", "no token", "not stored",
            "sent before the start"}

StartHandling(h, m) == handling' = [handling EXCEPT ![h] = [msg |-> m, at |-> 1, row |-> TRUE]]
GoOn(h) == handling' = [handling EXCEPT ![h].at = @ + 1] /\ UNCHANGED excused
EndHandling(h, why) ==
    /\ handling' = [handling EXCEPT ![h] = Resting]
    /\ excused' = IF why \in Excuses THEN excused \cup {handling[h].msg} ELSE excused

TakeUp(m) == taken' = [taken EXCEPT ![m] = IF @ = "no" THEN "once" ELSE "twice"]
Forget(ids) == lapsed' = lapsed \cup {m \in passed : m.id \in ids}

InboxTypeOK ==
    /\ channel \in Channel
    /\ \A h \in Handler : /\ handling[h].msg \in Post \cup {NoPost}
                          /\ ~Free(h) => handling[h].at \in DOMAIN Steps
    /\ inboxBatch \in Seq(Post) /\ fetched \in 0 .. Len(Feed) /\ savedCursor \in 0 .. fetched
    /\ {old, delivered, excused, passed, lapsed} \subseteq SUBSET Post
    /\ lapsed \subseteq passed
    /\ taken \in [Post -> {"no", "once", "twice"}]
    /\ seen \subseteq {m.id : m \in Post}

InboxInit ==
    /\ channel \in Channel
    /\ handling = [h \in Handler |-> Resting]
    /\ inboxBatch = <<>> /\ fetched = 0 /\ savedCursor = 0
    /\ old = {} /\ seen = {} /\ storedRows = {}
    /\ deliveries = 0 /\ delivered = {}
    /\ taken = [m \in Post |-> "no"]
    /\ excused = {} /\ passed = {} /\ lapsed = {}
    /\ inboxRestarts = 0

-----------------------------------------------------------------------------
(* Deliveries. *)

\* Where Weixin has a webhook besides its polled account, it repeats what the
\* poll loop gets.
Deliverable == IF channel = "weixin" THEN ToSet(Feed) ELSE Post

\* By a webhook or a socket.
DeliverPost(h, m) ==
    /\ Free(h) /\ (channel = "weixin" => h # Poller)
    /\ m \in Deliverable
    /\ deliveries < MaxDeliveries
    /\ channel = "irc" => m \notin delivered
    /\ StartHandling(h, m)
    /\ deliveries' = deliveries + 1 /\ delivered' = delivered \cup {m}
    /\ UNCHANGED <<channel, pollVars, guardTables, storedRows, taken, excused, dropVars,
                   inboxRestarts>>

\* The cursor moves on, and its copy unless writing fails, before any message
\* of the batch is handled.
FetchPosts(n) ==
    /\ channel = "weixin" /\ inboxBatch = <<>> /\ Free(Poller)
    /\ n > fetched
    /\ inboxBatch' = SubSeq(Feed, fetched + 1, n)
    /\ fetched' = n
    /\ savedCursor' \in {savedCursor, n}
    /\ delivered' = delivered \cup ToSet(inboxBatch')
    /\ UNCHANGED <<channel, handling, guardTables, storedRows, deliveries, taken, excused,
                   dropVars, inboxRestarts>>

\* Mutant of HandleNext: one failed message ends the loop over the batch.
HandleNextOnly ==
    /\ Free(Poller) /\ inboxBatch # <<>>
    /\ StartHandling(Poller, Head(inboxBatch))
    /\ inboxBatch' = <<>>
    /\ UNCHANGED <<channel, fetched, savedCursor, guardTables, storedRows, deliverVars,
                   taken, excused, dropVars, inboxRestarts>>

HandleNext ==
    /\ Free(Poller) /\ inboxBatch # <<>>
    /\ StartHandling(Poller, Head(inboxBatch))
    /\ inboxBatch' = Tail(inboxBatch)
    /\ UNCHANGED <<channel, fetched, savedCursor, guardTables, storedRows, deliverVars,
                   taken, excused, dropVars, inboxRestarts>>

-----------------------------------------------------------------------------
(* One step of a handler: it goes on, or ends for a reason. *)

OnlyHandling == UNCHANGED <<channel, pollVars, guardTables, storedRows, deliverVars, taken,
                   dropVars, inboxRestarts>>

GoOnIf(h, cond, why) == IF cond THEN GoOn(h) ELSE EndHandling(h, why)

\* allowed_user_ids counts in private chats, the list of groups in the others.
CheckPrivate(h) ==
    /\ At(h, "privateAllow")
    /\ GoOn(h) \/ (~handling[h].msg.allowed /\ EndHandling(h, "not allowed"))
    /\ OnlyHandling

CheckAllowed(h) ==
    /\ At(h, "allow") /\ GoOnIf(h, handling[h].msg.allowed, "not allowed") /\ OnlyHandling

\* Slack hears commands even when they are not addressed to it (and, where
\* capture_unmentioned_images is set, pictures).
CheckHeard(h) ==
    /\ At(h, "heard")
    /\ GoOnIf(h, handling[h].msg.addressed \/ handling[h].msg.command, "not addressed")
    /\ OnlyHandling

CheckAddressed(h) ==
    /\ At(h, "addressed") /\ GoOnIf(h, handling[h].msg.addressed, "not addressed") /\ OnlyHandling

FindChat(h) ==
    /\ At(h, "chat") /\ (GoOn(h) \/ EndHandling(h, "no chat")) /\ OnlyHandling

GetToken(h) ==
    /\ At(h, "token") /\ (GoOn(h) \/ EndHandling(h, "no token")) /\ OnlyHandling

FindChatOrRaw(h) ==
    /\ At(h, "chatOrRaw")
    /\ \E found \in BOOLEAN :
          handling' = [handling EXCEPT ![h] = [msg |-> @.msg, at |-> @.at + 1, row |-> found]]
    /\ UNCHANGED excused /\ OnlyHandling

\* should_drop_pre_start_message
DropPreStart(h) ==
    /\ At(h, "preStart")
    /\ LET m == handling[h].msg IN GoOnIf(h, ~(m.dated /\ m \in old), "sent before the start")
    /\ OnlyHandling

\* should_drop_recent_duplicate_message: one table for all chats of an adapter.
DropDuplicate(h) ==
    /\ At(h, "guard")
    /\ LET m == handling[h].msg IN
       /\ GoOnIf(h, m.id \notin seen, "duplicate")
       /\ seen' = seen \cup {m.id}
       /\ passed' = IF m.id \in seen THEN passed ELSE passed \cup {m}
    /\ UNCHANGED <<channel, pollVars, old, storedRows, deliverVars, taken, lapsed,
                   inboxRestarts>>

\* A command is carried out and answered; it starts no run.
RunCommand(h) ==
    LET m == handling[h].msg
        mayRun == At(h, "command") \/ m.addressed
    IN
    /\ At(h, "command") \/ At(h, "groupCommand")
    /\ IF ~m.command THEN GoOn(h) /\ UNCHANGED taken
       ELSE /\ EndHandling(h, IF mayRun THEN "command" ELSE "not addressed")
            /\ IF mayRun THEN TakeUp(m) ELSE UNCHANGED taken
    /\ UNCHANGED <<channel, pollVars, guardTables, storedRows, deliverVars, dropVars,
                   inboxRestarts>>

\* A group outside the list: Telegram stores what is said in it.
CheckGroup(h) ==
    /\ At(h, "groupAllow")
    /\ GoOnIf(h, handling[h].msg.allowed, "not allowed")
    /\ \/ UNCHANGED storedRows
       \/ ~handling[h].msg.allowed /\ storedRows' = storedRows \cup {RowOf(h)}
    /\ UNCHANGED <<channel, pollVars, guardTables, deliverVars, taken, dropVars,
                   inboxRestarts>>

\* Mutant of StoreIfNew: whether the row was there already is not looked at.
StoreAlways(h) ==
    /\ At(h, "store")
    /\ GoOn(h) /\ storedRows' = storedRows \cup {RowOf(h)}
    /\ UNCHANGED <<channel, pollVars, guardTables, deliverVars, taken, dropVars,
                   inboxRestarts>>

\* store_message_if_new: an error counts as a message that is there already.
StoreIfNew(h) ==
    /\ At(h, "store")
    /\ \/ /\ GoOnIf(h, RowOf(h) \notin storedRows, "stored before")
          /\ storedRows' = storedRows \cup {RowOf(h)}
       \/ /\ EndHandling(h, "not stored")
          /\ UNCHANGED storedRows
    /\ UNCHANGED <<channel, pollVars, guardTables, deliverVars, taken, dropVars,
                   inboxRestarts>>

\* IRC has no ids: every line is a new row, and the run starts without it too.
StoreFresh(h) == At(h, "storeFresh") /\ GoOn(h) /\ OnlyHandling

\* A chat focused on a sub-agent hands the message to that one.
RouteToFocused(h) ==
    LET m == handling[h].msg IN
    /\ At(h, "focus")
    /\ \/ GoOn(h) /\ UNCHANGED taken
       \/ EndHandling(h, "routed") /\ TakeUp(m)
    /\ UNCHANGED <<channel, pollVars, guardTables, storedRows, deliverVars, dropVars,
                   inboxRestarts>>

\* The run is started or waits in the chat's queue.
TakeTurn(h) ==
    LET m == handling[h].msg IN
    /\ At(h, "turn")
    /\ EndHandling(h, "turn") /\ TakeUp(m)
    /\ UNCHANGED <<channel, pollVars, guardTables, storedRows, deliverVars, dropVars,
                   inboxRestarts>>

-----------------------------------------------------------------------------
\* Ten minutes pass, or the table is trimmed.
ForgetId(i) ==
    /\ i \in seen
    /\ seen' = seen \ {i} /\ Forget({i})
    /\ UNCHANGED <<channel, handling, pollVars, old, storedRows, deliverVars, taken,
                   excused, passed, inboxRestarts>>

InHand == {handling[h].msg : h \in Handler} \cup ToSet(inboxBatch)

\* What was being handled is lost, and everything delivered was sent before
\* the new start.
InboxRestart ==
    /\ inboxRestarts < MaxInboxRestarts
    /\ inboxRestarts' = inboxRestarts + 1
    /\ handling' = [h \in Handler |-> Resting]
    /\ inboxBatch' = <<>> /\ fetched' = savedCursor
    /\ seen' = {} /\ Forget(seen)
    /\ \E sent \in SUBSET (Deliverable \ delivered) : old' = delivered \cup sent
    /\ excused' = excused \cup (InHand \cap Post)
    /\ UNCHANGED <<channel, savedCursor, storedRows, deliverVars, taken, passed>>

HandlerStep(h) ==
    \/ CheckPrivate(h) \/ CheckAllowed(h) \/ CheckHeard(h) \/ CheckAddressed(h)
    \/ FindChat(h) \/ GetToken(h) \/ FindChatOrRaw(h)
    \/ DropPreStart(h) \/ DropDuplicate(h)
    \/ RunCommand(h) \/ CheckGroup(h)
    \/ StoreIfNew(h) \/ StoreFresh(h)
    \/ RouteToFocused(h) \/ TakeTurn(h)

InboxNext ==
    \/ \E h \in Handler, m \in Post : DeliverPost(h, m)
    \/ \E n \in DOMAIN Feed : FetchPosts(n)
    \/ HandleNext
    \/ \E h \in Handler : HandlerStep(h)
    \/ \E i \in {m.id : m \in Post} : ForgetId(i)
    \/ InboxRestart

InboxSpec == InboxInit /\ [][InboxNext]_inboxVars

-----------------------------------------------------------------------------
\* A message is taken up once, however often it is delivered, whatever runs at
\* the same time and across restarts, because its row is inserted before its
\* run is asked for.  A command has no row (Feishu's has): it may be carried
\* out again once the guard has forgotten its id.  A failed look-up of the
\* chat gives a message a second row.
TakenOnce ==
    \A m \in Post :
        taken[m] = "twice" =>
            \/ m.command /\ channel # "feishu" /\ m \in lapsed
            \/ \E r \in storedRows : r.id = m.id /\ r.chat = m.chat /\ ~r.found

\* The guard's table is one for all chats of an adapter, and so a message is
\* taken for the one of another chat that has the same id.
Confused(m) == \E n \in passed \ {m} : n.id = m.id

\* A message that was delivered and is no longer being handled was taken up,
\* or dropped for a reason of its own, or a restart took it from the handlers
\* or out of the batch: nothing else is ever dropped as a duplicate of itself.
LossesHaveCause == \A m \in delivered \ InHand : taken[m] # "no" \/ m \in excused \/ Confused(m)

\* A message that is delivered is taken up once: neither again, whatever is
\* redelivered or forgotten, nor never.
MessagesTakenOnce == TakenOnce /\ LossesHaveCause

=============================================================================
