------------------------- MODULE MCMetaCatchupQueue -------------------------
\* Instances of MetaCatchupQueue for TLC.
EXTENDS MetaCatchupQueue
=============================================================================
