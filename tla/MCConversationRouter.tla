------------------------- MODULE MCConversationRouter -------------------------
(* Instances of ConversationRouter for TLC.                                *)
EXTENDS ConversationRouter, TLC
===============================================================================
