----------------------------- MODULE MC_PeerSync -----------------------------
EXTENDS PeerSync

CONSTANTS n1, n2

=============================================================================
