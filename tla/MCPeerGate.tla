----------------------------- MODULE MCPeerGate -----------------------------
EXTENDS PeerGate, TLC

\* Tasks, peers and addresses are only compared; which of several equal entries
\* a full table gives up is left open.
Symmetry == Permutations(Inbound) \cup Permutations(Peers) \cup Permutations(Ips)
=============================================================================
