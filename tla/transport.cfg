\* Two connections with one frame of buffer each way and three messages, one of
\* them confirmed: broken, refused, replaced and jammed connections.
CONSTANTS
  None = None
  Messages = {1, 2, 3}
  Confirmed = {3}
  MaxConns = 2
  Buffer = 1
  Permits = 2
  MaxStrikes = 2
  Breaks = TRUE
SPECIFICATION Spec
PROPERTIES ImplementsMailbox SendReturns DeadLeavesActive
CHECK_DEADLOCK FALSE
