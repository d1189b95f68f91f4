--------------------------- MODULE MCAngelProtocol ---------------------------
EXTENDS AngelProtocol
=============================================================================
