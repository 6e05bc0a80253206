------------------------------- MODULE MCStop -------------------------------
\* A command with one undo, armed before or with what it is the undo of.
EXTENDS Stop

CONSTANTS x1
=============================================================================
