\* An owner and a second node: lost, late and repeated envelopes, a restart with
\* an old or a torn file.
CONSTANTS
  Owner = o
  Nodes = {o, b}
  Texts = {hello}
  SignalTypes = {ice}
  Seconds = {1}
  MaxOps = 4
  MaxLog = 2
  MaxRestarts = 1
  NoCopy = NoCopy
SPECIFICATION Spec
INVARIANTS AtMostTwice GroupPrivate ReceivedOnce
PROPERTY SubscriptionSticks
CHECK_DEADLOCK FALSE
