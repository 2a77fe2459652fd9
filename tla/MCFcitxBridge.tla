---------------------------- MODULE MCFcitxBridge ----------------------------
EXTENDS FcitxBridge

CONSTANTS d1, d2, probe, old, kate, shell
=============================================================================
