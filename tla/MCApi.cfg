\* The programs in every environment near the usual ones; the API with three
\* requests and a database that may fall silent.
SPECIFICATION ApiFairSpec
CONSTANTS
  Environments <- MCEnvironments
  Post = {p1, p2}
  Slow = {p2}
  Ping = {h1}
  Quantum = 5
\* Processes end.
CHECK_DEADLOCK FALSE
INVARIANTS PanicsAreKnown PoolOutlivesRequests
PROPERTIES CallsEnd Stops
