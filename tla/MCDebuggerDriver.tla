------------------------- MODULE MCDebuggerDriver -------------------------
\* Model-checking instances of DebuggerDriver.
EXTENDS DebuggerDriver
=============================================================================
