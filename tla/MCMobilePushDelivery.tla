------------------------ MODULE MCMobilePushDelivery ------------------------
\* Instances of MobilePushDelivery for TLC.
EXTENDS MobilePushDelivery, TLC

RunSymmetry == Permutations(Senders) \cup Permutations(Checkers) \cup Permutations(PushTokens)
=============================================================================
