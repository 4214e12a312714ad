CONSTANTS
  Daemons = {d1, d2}
  Clients = {c1}
  None = None
  MaxCrashes = 2
  MaxEvents = 1
SPECIFICATION Spec
INVARIANTS SocketLeadsToDaemon OutcomeIsTrue
PROPERTIES CanceledClientReturns CancelReachesOperation
CHECK_DEADLOCK FALSE
