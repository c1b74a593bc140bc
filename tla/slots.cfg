SPECIFICATION FairSpec
CONSTANTS
  u1 = u1  u2 = u2
  j1 = j1  j2 = j2  j3 = j3  j4 = j4  j5 = j5
  Jobs <- MCJobs
  Users <- MCUsers
  NoUser = NoUser
  Owner <- MCOwner
  Gates = {g1, g2, g3}
  NoGate = NoGate
  GlobalLimit = 3
  UserLimit = 2
  MaxGates = 2
INVARIANTS TypeOK PermitsConserved GlobalLimitHolds UserLimitHolds
PROPERTIES SlotDecided ImplementsBoundedWork
