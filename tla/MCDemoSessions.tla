--------------------------- MODULE MCDemoSessions ---------------------------
\* Instances of DemoSessions for TLC.
EXTENDS DemoSessions

CONSTANTS a1, b1

OneAddress == [s \in Starts |-> a1]
OneBrowser == [s \in Starts |-> b1]
=============================================================================
