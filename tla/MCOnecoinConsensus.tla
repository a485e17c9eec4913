------------------------- MODULE MCOnecoinConsensus -------------------------
EXTENDS OnecoinConsensus

T(s, r, a, n) == [sender |-> s, recipient |-> r, amount |-> a, nonce |-> n, valid |-> TRUE]

\* A good block given in the wrong order, with a transfer to oneself, and one
\* whose second transaction spends too much.
MCPayloads == { <<T(1, 2, 3, 1), T(1, 1, 2, 0)>>, <<T(2, 1, 9, 1), T(2, 1, 2, 0)>> }

\* The same coin spent twice.
MCConflicting == { <<T(1, 2, 3, 0)>>, <<T(1, 3, 3, 0)>> }
=============================================================================
