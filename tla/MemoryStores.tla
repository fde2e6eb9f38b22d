------------------------------ MODULE MemoryStores ----------------------------
(***************************************************************************)
(* Structured memories: the rows, their two possible homes (an external    *)
(* provider behind MCP, and SQLite to fall back on, operation by           *)
(* operation), the tools that archive and update a row after checking that *)
(* it belongs to the chat, the "remember" command, and the reflector,      *)
(* which reads the new messages of a chat and a copy of its memories, asks *)
(* the model and writes back.  Sources: src/memory_backend.rs,             *)
(* src/tools/structured_memory.rs, src/memory_service.rs,                  *)
(* src/scheduler.rs and the memories of the database.                      *)
(***************************************************************************)
EXTENDS Naturals, Sequences, FiniteSets, SequencesExt

CONSTANTS
    Chat,
    Fact,               \* contents; those the code calls near are one fact
    TopicOf,            \* memory_topic_key of each fact
    External,           \* whether an external provider was discovered
    MaxRows,            \* bound: rows of a store
    MaxMessages,        \* bound: messages of all chats
    MaxItems,           \* bound: memories the model extracts at once
    MaxBusy,            \* bound: tools and commands half way through
    Cap,                \* memory_max_entries_per_chat, 0 for none
    PauseAfter,         \* failures in a row at which the reflector pauses
    FirstLook,          \* messages of a first pass over a chat: 30
    Batch               \* messages of a later pass, at most: 200

ASSUME MemoryAssumption ==
    /\ IsFiniteSet(Chat) /\ Fact # {}
    /\ TopicOf \in [Fact -> Range(TopicOf)]
    /\ External \in BOOLEAN
    /\ {MaxRows, MaxMessages, MaxItems, MaxBusy, Cap} \subseteq Nat
    /\ {PauseAfter, FirstLook, Batch} \subseteq Nat \ {0}

VARIABLES
    rows,           \* by store, the memories in the order of their ids
    tool,           \* by chat, the id a tool has checked, or 0
    command,        \* by chat, what a "remember" command has decided to do
    stored,         \* messages of each chat, stamped in the order they are stored
    cursor,         \* memory_reflector_state: the last message reflected, 0 for no row
    reflector,      \* the pass of the reflector over one chat
    probeOk,        \* startup_probe_ok
    recentFailures, \* consecutive_primary_failures, counted up to PauseAfter
    extracted       \* history: the messages the model has been shown with success

memVars == <<rows, tool, command, stored, cursor, reflector, probeOk, recentFailures, extracted>>

Store == {"external", "sqlite"}
Id == 1 .. MaxRows
Row == [chat : Chat, fact : Fact, archived : BOOLEAN]
Item == [fact : Fact, replaces : 0 .. MaxRows]
Decision == [op : {"none", "update", "supersede", "insert"}, id : 0 .. MaxRows, fact : Fact]
NoDecision == [op |-> "none", id |-> 0, fact |-> CHOOSE f \in Fact : TRUE]
Known == [id : Id, fact : Fact, archived : BOOLEAN]
Idle == [at |-> "idle"]

MemoryTypeOK ==
    /\ \A s \in Store : rows[s] \in BoundedSeq(Row, MaxRows)
    /\ tool \in [Chat -> 0 .. MaxRows]
    /\ command \in [Chat -> Decision]
    /\ stored \in [Chat -> 0 .. MaxMessages]
    /\ \A c \in Chat : cursor[c] \in 0 .. stored[c]
    /\ reflector.at \in {"idle", "asking", "applying"}
    /\ reflector.at # "idle" =>
          /\ reflector.chat \in Chat /\ reflector.upTo \in 1 .. stored[reflector.chat]
          /\ reflector.from \in 0 .. (reflector.upTo - 1)
          /\ reflector.known \subseteq Known
          /\ reflector.claimed \subseteq Range(TopicOf)
          /\ reflector.items \in BoundedSeq(Item, MaxItems)
          /\ \A k \in reflector.seen : k[1] \in Id /\ k[2] \in Fact
          /\ reflector.refused \in BOOLEAN
    /\ probeOk \in BOOLEAN /\ recentFailures \in 0 .. PauseAfter
    /\ extracted \in [Chat -> SUBSET (1 .. MaxMessages)]

MemoryInit ==
    /\ rows = [s \in Store |-> <<>>]
    /\ tool = [c \in Chat |-> 0]
    /\ command = [c \in Chat |-> NoDecision]
    /\ stored = [c \in Chat |-> 0] /\ cursor = [c \in Chat |-> 0]
    /\ reflector = Idle
    /\ probeOk \in (IF External THEN BOOLEAN ELSE {TRUE})
    /\ recentFailures = IF probeOk THEN 0 ELSE 1
    /\ extracted = [c \in Chat |-> {}]

-----------------------------------------------------------------------------
(* FallbackMemoryProvider::fallback_on_err.  An operation is tried on the       *)
(* external provider, and on SQLite when that fails; a request that timed out   *)
(* may have been carried out all the same.  Every operation names the store it  *)
(* reads or the stores it changes.                                              *)

Counted(s) == IF ~External THEN recentFailures
              ELSE IF s = "external" THEN 0
              ELSE IF recentFailures < PauseAfter THEN recentFailures + 1 ELSE recentFailures

Reads == IF External THEN Store ELSE {"sqlite"}
Writes == IF External THEN {{"external"}, {"sqlite"}, Store} ELSE {{"sqlite"}}

\* The store whose answer the caller gets.
Answering(stores) == IF "sqlite" \in stores THEN "sqlite" ELSE "external"

Has(s, i) == i \in DOMAIN rows[s]
Room(stores) == \A s \in stores : Len(rows[s]) < MaxRows

UpdateRow(stores, i, f) ==
    rows' = [s \in Store |-> IF s \in stores /\ Has(s, i)
                             THEN [rows[s] EXCEPT ![i].fact = f, ![i].archived = FALSE] ELSE rows[s]]

ArchiveRow(stores, i) ==
    rows' = [s \in Store |-> IF s \in stores /\ Has(s, i)
                             THEN [rows[s] EXCEPT ![i].archived = TRUE] ELSE rows[s]]

InsertMemory(stores, c, f) ==
    rows' = [s \in Store |-> IF s \in stores
                             THEN Append(rows[s], [chat |-> c, fact |-> f, archived |-> FALSE]) ELSE rows[s]]

\* The new row belongs where the old one did; without an old one it is an error.
SupersedeRow(stores, i, f) ==
    rows' = [s \in Store |->
                IF s \in stores /\ Has(s, i)
                THEN Append([rows[s] EXCEPT ![i].archived = TRUE],
                            [chat |-> rows[s][i].chat, fact |-> f, archived |-> FALSE])
                ELSE rows[s]]

\* get_all_memories_for_chat: archived rows too.
OfChat(s, c) ==
    {[id |-> i, fact |-> rows[s][i].fact, archived |-> rows[s][i].archived] :
        i \in {j \in DOMAIN rows[s] : rows[s][j].chat = c}}

ShouldPause == External /\ (~probeOk \/ recentFailures >= PauseAfter)

-----------------------------------------------------------------------------
(* The tools: get_memory_by_id and the check of the owner, and then the         *)
(* archiving or the update, each through the backend.                           *)

Busy == Cardinality({c \in Chat : tool[c] # 0}) + Cardinality({c \in Chat : command[c] # NoDecision})

CheckMemory(c) ==
    /\ tool[c] = 0 /\ Busy < MaxBusy
    /\ \E s \in Reads, i \in Id :
          /\ Has(s, i) /\ rows[s][i].chat = c
          /\ tool' = [tool EXCEPT ![c] = i]
          /\ recentFailures' = Counted(s)
    /\ UNCHANGED <<rows, command, stored, cursor, reflector, probeOk, extracted>>

DeleteMemory(c) ==
    /\ tool[c] # 0
    /\ \E stores \in Writes :
          ArchiveRow(stores, tool[c]) /\ recentFailures' = Counted(Answering(stores))
    /\ tool' = [tool EXCEPT ![c] = 0]
    /\ UNCHANGED <<command, stored, cursor, reflector, probeOk, extracted>>

UpdateMemory(c) ==
    /\ tool[c] # 0
    /\ \E stores \in Writes, f \in Fact :
          UpdateRow(stores, tool[c], f) /\ recentFailures' = Counted(Answering(stores))
    /\ tool' = [tool EXCEPT ![c] = 0]
    /\ UNCHANGED <<command, stored, cursor, reflector, probeOk, extracted>>

(* maybe_handle_explicit_memory_command: what is to be done is decided on a     *)
(* copy of the chat's memories.                                                 *)

DecisionFor(known, f) ==
    LET active == {k \in known : ~k.archived}
        same == {k \in active : k.fact = f}
        rival == {k \in active : TopicOf[k.fact] = TopicOf[f]}
    IN  IF same # {} THEN {[op |-> "update", id |-> k.id, fact |-> f] : k \in same}
        ELSE IF rival # {} THEN {[op |-> "supersede", id |-> k.id, fact |-> f] : k \in rival}
        ELSE {[op |-> "insert", id |-> 0, fact |-> f]}

HearCommand(c) ==
    /\ command[c].op = "none" /\ Busy < MaxBusy
    /\ \E s \in Reads, f \in Fact :
          /\ \E d \in DecisionFor(OfChat(s, c), f) : command' = [command EXCEPT ![c] = d]
          /\ recentFailures' = Counted(s)
    /\ UNCHANGED <<rows, tool, stored, cursor, reflector, probeOk, extracted>>

ObeyCommand(c) ==
    LET d == command[c] IN
    /\ d.op # "none"
    /\ \E stores \in Writes :
          /\ \/ d.op = "update" /\ UpdateRow(stores, d.id, d.fact)
             \/ d.op = "supersede" /\ Room(stores) /\ SupersedeRow(stores, d.id, d.fact)
             \/ d.op = "insert" /\ Room(stores) /\ InsertMemory(stores, c, d.fact)
          /\ recentFailures' = Counted(Answering(stores))
    /\ command' = [command EXCEPT ![c] = NoDecision]
    /\ UNCHANGED <<tool, stored, cursor, reflector, probeOk, extracted>>

\* The messages of all chats, each by its chat and number.
Messages == {m \in Chat \X (1 .. MaxMessages) : m[2] <= stored[m[1]]}

StoreMessage(c) ==
    /\ Cardinality(Messages) < MaxMessages
    /\ stored' = [stored EXCEPT ![c] = @ + 1]
    /\ UNCHANGED <<rows, tool, command, cursor, reflector, probeOk, recentFailures, extracted>>

-----------------------------------------------------------------------------
(* reflect_for_chat.                                                            *)

ReflectorVars == <<tool, command, stored, probeOk>>

\* The messages of a pass begin after the cursor or, when the chat has none yet
\* (get_recent_messages), with the FirstLook newest; with a cursor they are the
\* Batch oldest at most (get_messages_since).
Before(c) == IF cursor[c] > 0 THEN cursor[c]
             ELSE IF stored[c] > FirstLook THEN stored[c] - FirstLook ELSE 0

LastOf(c) == IF cursor[c] > 0 /\ stored[c] > cursor[c] + Batch THEN cursor[c] + Batch ELSE stored[c]

StartReflecting(c) ==
    /\ reflector.at = "idle"
    /\ cursor[c] < stored[c]
    /\ \E s \in Reads :
          /\ reflector' = [at |-> "asking", chat |-> c, from |-> Before(c), upTo |-> LastOf(c),
                           known |-> OfChat(s, c), seen |-> {<<k.id, k.fact>> : k \in OfChat(s, c)}, claimed |-> {},
                           items |-> <<>>, refused |-> FALSE]
          /\ recentFailures' = Counted(s)
    /\ UNCHANGED <<rows, cursor, extracted, ReflectorVars>>

\* The model cannot be reached, or the external provider is thought unhealthy:
\* the cursor stays where it is.
GiveUpReflecting ==
    /\ reflector.at = "asking"
    /\ reflector' = Idle
    /\ UNCHANGED <<rows, cursor, recentFailures, extracted, ReflectorVars>>

\* The messages in the prompt of the pass.
Shown == (reflector.from + 1) .. reflector.upTo

\* Mutant of MoveCursor: to the newest message there is.
MoveCursorToNewest(c) == cursor' = [cursor EXCEPT ![c] = stored[c]]

MoveCursor(c) == cursor' = [cursor EXCEPT ![c] = reflector.upTo]

ExtractNothing ==
    /\ reflector.at = "asking"
    /\ extracted' = [extracted EXCEPT ![reflector.chat] = @ \cup Shown]
    /\ MoveCursor(reflector.chat)
    /\ reflector' = Idle
    /\ UNCHANGED <<rows, recentFailures, ReflectorVars>>

ExtractItems ==
    /\ reflector.at = "asking" /\ ~ShouldPause
    /\ \E items \in BoundedSeq(Item, MaxItems) \ {<<>>} :
          reflector' = [reflector EXCEPT !.at = "applying", !.items = items]
    /\ extracted' = [extracted EXCEPT ![reflector.chat] = @ \cup Shown]
    /\ UNCHANGED <<rows, cursor, recentFailures, ReflectorVars>>

\* apply_reflector_extractions, one item: it names the memory it replaces; or
\* it contradicts the active one of its topic (topic_latest, which a memory new
\* in this pass takes over), unless the store that answers does not know that
\* one; or it is known, and brought back when archived; or it is new.
Rivals(fact) ==
    LET ofTopic == {k \in reflector.known : ~k.archived /\ TopicOf[k.fact] = TopicOf[fact]
                                              /\ TopicOf[fact] \notin reflector.claimed}
    IN  {k \in ofTopic : (\A j \in ofTopic : j.id <= k.id) /\ k.fact # fact}

ApplyItem ==
    LET item == Head(reflector.items)
        named == \E k \in reflector.known : k.id = item.replaces
        rivals == Rivals(item.fact)
        duplicate == {k \in reflector.seen : k[2] = item.fact}
        Done(r) == [r EXCEPT !.items = Tail(@), !.refused = FALSE]
        Learn(i, topics) == reflector' = [Done(reflector) EXCEPT !.seen = @ \cup {<<i, item.fact>>},
                                                                 !.claimed = @ \cup topics]
        Supersede(stores) ==
            LET answer == Answering(stores) IN
            \E k \in rivals :
               /\ Room(stores) /\ SupersedeRow(stores, k.id, item.fact)
               /\ IF Has(answer, k.id)
                  THEN Learn(Len(rows[answer]) + 1, {TopicOf[item.fact]})
                  ELSE reflector' = [reflector EXCEPT !.refused = TRUE]
        Merge(stores) ==
            /\ \E d \in duplicate :
                  IF \E k \in reflector.known : k.id = d[1] /\ k.archived
                  THEN UpdateRow(stores, d[1], item.fact) ELSE UNCHANGED rows
            /\ reflector' = Done(reflector)
        Insert(stores) ==
            /\ duplicate = {}
            /\ Room(stores) /\ InsertMemory(stores, reflector.chat, item.fact)
            /\ Learn(Len(rows[Answering(stores)]) + 1, {TopicOf[item.fact]})
    IN
    /\ reflector.at = "applying" /\ reflector.items # <<>>
    /\ \E stores \in Writes :
          /\ \/ named /\ UpdateRow(stores, item.replaces, item.fact) /\ Learn(item.replaces, {})
             \/ ~named /\ rivals # {} /\ ~reflector.refused /\ Supersede(stores)
             \/ ~named /\ (rivals = {} \/ reflector.refused) /\ (Merge(stores) \/ Insert(stores))
          /\ recentFailures' = Counted(Answering(stores))
    /\ UNCHANGED <<cursor, extracted, ReflectorVars>>

\* archive_excess_memories on SQLite, and the cursor.
FinishReflecting ==
    LET c == reflector.chat
        active == {i \in DOMAIN rows["sqlite"] : rows["sqlite"][i].chat = c /\ ~rows["sqlite"][i].archived}
        excess == IF Cap = 0 \/ Cardinality(active) <= Cap THEN 0 ELSE Cardinality(active) - Cap
    IN
    /\ reflector.at = "applying" /\ reflector.items = <<>>
    /\ \E old \in {o \in SUBSET active : Cardinality(o) = excess} :
          rows' = [rows EXCEPT !["sqlite"] =
                      [i \in DOMAIN @ |-> IF i \in old THEN [@[i] EXCEPT !.archived = TRUE] ELSE @[i]]]
    /\ MoveCursor(c)
    /\ reflector' = Idle
    /\ UNCHANGED <<recentFailures, extracted, ReflectorVars>>

\* The process stops and starts again, wherever the tools, the commands and the
\* reflector are; the provider is probed anew.
RestartMemories ==
    /\ tool' = [c \in Chat |-> 0] /\ command' = [c \in Chat |-> NoDecision]
    /\ reflector' = Idle
    /\ probeOk' \in (IF External THEN BOOLEAN ELSE {TRUE})
    /\ recentFailures' = IF probeOk' THEN 0 ELSE 1
    /\ UNCHANGED <<rows, stored, cursor, extracted>>

MemoryNext ==
    \/ \E c \in Chat : \/ CheckMemory(c) \/ DeleteMemory(c) \/ UpdateMemory(c)
                       \/ HearCommand(c) \/ ObeyCommand(c) \/ StoreMessage(c) \/ StartReflecting(c)
    \/ GiveUpReflecting \/ ExtractNothing \/ ExtractItems \/ ApplyItem \/ FinishReflecting \/ RestartMemories

MemorySpec == MemoryInit /\ [][MemoryNext]_memVars

-----------------------------------------------------------------------------
(* Properties.                                                              *)

\* The cursor only moves forward, and only over messages that the model has been
\* shown by a pass that was not given up: all those after the old cursor, or the
\* FirstLook newest of them when the chat had no cursor, whose earlier messages
\* are passed over for good (src/scheduler.rs:694-718).  A pass that fails, is
\* paused or is cut by a restart, a message that arrives while the model is
\* thinking, and a backlog longer than a batch lose nothing.
NoMessageSkipped ==
    [][\A c \in Chat : cursor'[c] # cursor[c] =>
          /\ cursor'[c] > cursor[c]
          /\ \A n \in (cursor[c] + 1) .. cursor'[c] :
                n \in extracted'[c] \/ (cursor[c] = 0 /\ n + FirstLook <= cursor'[c])]_memVars

\* The chats on whose behalf a step is made.
Actors == {c \in Chat : tool'[c] # tool[c] \/ command'[c] # command[c]
                           \/ (reflector # Idle /\ reflector' # reflector /\ reflector.chat = c)}

\* Whatever is done for a chat touches memories of that chat: "You can only
\* archive memories that belong to the current chat"
\* (src/tools/structured_memory.rs:194).
OwnRowsOnly ==
    [][\A s \in Store : \A i \in DOMAIN rows'[s] :
          (~Has(s, i) \/ rows'[s][i] # rows[s][i]) => rows'[s][i].chat \in Actors]_memVars

=============================================================================
