SPECIFICATION Spec
CONSTANTS
  alice = alice  bob = bob
  inv1 = inv1  inv2 = inv2  exp1 = exp1  exp2 = exp2  prj1 = prj1  prj2 = prj2
  Members = {alice, bob}
  Admin = admin
  Invoices = {inv1, inv2}
  Expenses = {exp1, exp2}
  Projects = {prj1, prj2}
  Owner <- MCOwner
  None = None
INVARIANTS TypeOK SettledByInvoice WithinTenant
