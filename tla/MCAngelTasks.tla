---------------------------- MODULE MCAngelTasks ----------------------------
EXTENDS AngelTasks
=============================================================================
