\* An administrator creates and revokes a client's key while it is used.
SPECIFICATION Spec
CONSTANTS
  root = root
  client = client
  r1 = r1
  r2 = r2
  r3 = r3
  r4 = r4
  r5 = r5
  Key = {root, client}
  Initial = {root}
  Scopes <- MCScopes
  Request = {r1, r2, r3, r4, r5}
  Presents <- MCPresents
  Op <- MCOp
  Scope <- MCScope
  Target <- MCTarget
  Malformed = {r5}
CHECK_DEADLOCK FALSE
INVARIANTS RevokedStaysOut
PROPERTIES RevocationIsFinal OnlyScopedChanges
