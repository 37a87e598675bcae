---------------------------- MODULE MCStreamTurn ----------------------------
EXTENDS StreamTurn, TLC
=============================================================================
