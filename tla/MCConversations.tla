--------------------------- MODULE MCConversations ---------------------------
(***************************************************************************)
(* One user in one chat; the conversations of others have states of their  *)
(* own.  Nothing is bounded.                                               *)
(***************************************************************************)
EXTENDS Conversations

=============================================================================
