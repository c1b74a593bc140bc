SPECIFICATION Spec
CONSTANTS
  alice = alice  bob = bob
  N = 4
  Requests = {r1, r2}
  Owner <- MCOwner
  Printed <- MCPrinted
  NoNumber = NoNumber
  Capacity = 2
  Environments <- MCBatch
INVARIANTS FilesInPlace
CHECK_DEADLOCK FALSE
