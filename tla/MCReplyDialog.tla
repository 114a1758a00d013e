--------------------------- MODULE MCReplyDialog ----------------------------
EXTENDS ReplyDialog

CONSTANTS b1, b2
=============================================================================
