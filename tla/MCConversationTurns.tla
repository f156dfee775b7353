------------------------- MODULE MCConversationTurns -------------------------
(* Small instances of ConversationTurns: conversations are model values. *)
EXTENDS ConversationTurns

CONSTANTS c1, c2

TwoConversations == {c1, c2}
OneConversation == {c1}
=============================================================================
