-------------------------------- MODULE MCLoader --------------------------------
(***************************************************************************)
(* Small instances of ImageLoader for TLC: who makes which calls.          *)
(***************************************************************************)
EXTENDS ImageLoader

CONSTANTS Host, Other, Callback

\* Two hosts shut down with a bound while a callback makes requests.
BoundedCalls == [c \in Client |->
  CASE c = Host     -> {"shutdownBound", "request"}
    [] c = Other    -> {"shutdownBound", "shutdownIfCreated", "cancel"}
    [] c = Callback -> {"request", "cancel"}]

\* A final shutdown, restarts, and calls that only use the scheduler.
FinalCalls == [c \in Client |->
  CASE c = Host     -> {"shutdown", "setThreadCount", "request"}
    [] c = Other    -> {"setThreadCount", "request", "cancel", "setPriority"}
    [] c = Callback -> {"request", "setPriority"}]

\* A final shutdown beside a bounded one, and a callback that makes a request.
OverlapCalls == [c \in Client |->
  CASE c = Host     -> {"shutdown", "request"}
    [] c = Other    -> {"shutdownBound"}
    [] c = Callback -> {"request"}]

\* A bounded shutdown that may give up beside restarts, and a callback that makes a
\* request.
RestartCalls == [c \in Client |->
  CASE c = Host     -> {"shutdownBound", "request"}
    [] c = Other    -> {"setThreadCount"}
    [] c = Callback -> {"request"}]

Hosts    == {BoundedCalls, FinalCalls, OverlapCalls, RestartCalls}
Overlaps == {OverlapCalls}
================================================================================
