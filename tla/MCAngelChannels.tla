--------------------------- MODULE MCAngelChannels ---------------------------
EXTENDS AngelChannels
=============================================================================
