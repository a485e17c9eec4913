-------------------------- MODULE MCOnecoinLedger --------------------------
EXTENDS OnecoinLedger

Receipt(node, score, period, ok, verifier, valid) ==
  [node |-> node, score |-> score, period |-> period, periodOk |-> ok,
   verifier |-> verifier, valid |-> valid]

\* One above the cap, one for an empty period and a forged one.
MCReceipts ==
  { Receipt(2, 90, 1, TRUE, 1, TRUE),
    Receipt(1, 10, 1, FALSE, 1, TRUE),
    Receipt(1, 9, 2, TRUE, 2, FALSE) }
=============================================================================
