--------------------------- MODULE MCMemoryStores ---------------------------
(***************************************************************************)
(* The memories with an external provider in front of SQLite, where two    *)
(* chats have learnt one fact each.                                        *)
(***************************************************************************)
EXTENDS MemoryStores

MCTopicOf == [f \in Fact |-> f]

=============================================================================
