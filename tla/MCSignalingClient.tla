-------------------------- MODULE MCSignalingClient --------------------------
EXTENDS SignalingClient, TLC

\* Transports are interchangeable; for safety properties only.
Symmetry == Permutations(Transport)
=============================================================================
