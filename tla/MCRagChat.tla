------------------------------ MODULE MCRagChat ------------------------------
(* Instances of RagChat: chats and deletions of one conversation.           *)
EXTENDS RagChatProperties, TLC

CONSTANTS k1, c1, c2, d1, d2

OneConv == [c \in Chats |-> k1]
DeleteOne == [d \in Deletes |-> k1]
=============================================================================
