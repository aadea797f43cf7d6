--------------------------- MODULE MCConversations ---------------------------
(* Instances of Conversations for TLC: two requests that arrive while the      *)
(* first turn of a conversation runs.                                          *)
EXTENDS Conversations

=============================================================================
