--------------------------- MODULE MCTelegramSplit ---------------------------
EXTENDS TelegramSplit
=============================================================================
