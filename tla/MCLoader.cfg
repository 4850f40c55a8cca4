SPECIFICATION Spec
CONSTANTS
  None = None
  Host = host
  Other = other
  Callback = callback
  Client = {host, other, callback}
  OnWorker = {callback}
  Programs <- Hosts
  MaxCalls = 2
  Request = {r1, r2}
CHECK_DEADLOCK FALSE
INVARIANTS JoinedByBoundedCalls ThreadsOwned
PROPERTIES RacingRequestsRejected RunsScheduler BoundedReturns CallsReturn
