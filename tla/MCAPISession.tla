----------------------------- MODULE MCAPISession -----------------------------
EXTENDS APISession, TLC

\* Addresses of nodes and of sessions and the hashes of keys are compared for
\* equality only; no property checked with this symmetry is a liveness property.
MCSymmetry == Permutations(Node) \cup Permutations(Session) \cup Permutations(SH)
=============================================================================
