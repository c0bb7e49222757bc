---------------------------- MODULE MCTerminal ----------------------------
EXTENDS Terminal
=============================================================================
