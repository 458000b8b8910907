--------------------------- MODULE MCConversation ---------------------------
EXTENDS Conversation
=============================================================================
