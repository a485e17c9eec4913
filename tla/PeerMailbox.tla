---------------------------- MODULE PeerMailbox ----------------------------
(***************************************************************************)
(* What the rest of the program is promised of Node::send_to_peer and      *)
(* Node::send_to_peer_confirmed: a submitted message may be lost, messages *)
(* may overtake each other and a plain send may say "sent" of a message    *)
(* that never arrives; but a message arrives at most once, only after it   *)
(* was submitted, and a confirmed send succeeds only when it has arrived.  *)
(***************************************************************************)
CONSTANT Messages

VARIABLES
  outcome,    \* [Messages -> "new", "pending" or what the call returned]
  arrived     \* [Messages -> how often it reached the inbox of the peer]

Init == outcome = [m \in Messages |-> "new"] /\ arrived = [m \in Messages |-> 0]

Submit(m) ==
  /\ outcome[m] = "new"
  /\ outcome' = [outcome EXCEPT ![m] = "pending"]
  /\ arrived' = arrived

Arrive(m) ==
  /\ outcome[m] # "new" /\ arrived[m] = 0
  /\ arrived' = [arrived EXCEPT ![m] = 1]
  /\ outcome' = outcome

Return(m, result) ==
  /\ outcome[m] = "pending"
  /\ result = "confirmed" => arrived[m] = 1
  /\ outcome' = [outcome EXCEPT ![m] = result]
  /\ arrived' = arrived

Next ==
  \E m \in Messages :
    \/ Submit(m)
    \/ Arrive(m)
    \/ \E result \in {"sent", "confirmed", "failed"} : Return(m, result)

Spec == Init /\ [][Next]_<<outcome, arrived>>
=============================================================================
