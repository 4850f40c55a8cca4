SPECIFICATION Spec
CONSTANTS
  None = None
  Host = host
  Other = other
  Callback = callback
  Client = {host, other, callback}
  OnWorker = {callback}
  Programs <- Overlaps
  MaxCalls = 2
  Request = {r1}
CHECK_DEADLOCK FALSE
INVARIANTS JoinedWhenTrue
