---------------------------- MODULE MCConversation ---------------------------
(***************************************************************************)
(* Conversation with three calls, two of them on one service.              *)
(***************************************************************************)
EXTENDS Conversation

Shared == [c \in Caller |-> IF c \in {"c1", "c2"} THEN "s1" ELSE "s2"]
=============================================================================
