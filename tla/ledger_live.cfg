SPECIFICATION FairSpec
CONSTANTS
  alice = alice  bob = bob
  N = 2
  Requests = {r1, r2}
  Owner <- MCOwnerPair
  Printed <- MCPrintedPair
  NoNumber = NoNumber
  Capacity = 1
  Environments <- MCLiveness
PROPERTIES Settles
CHECK_DEADLOCK FALSE
