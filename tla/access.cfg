SPECIFICATION Spec
CONSTANTS
  Calls = {p1, p2}
  a1 = a1
  t1 = t1
  t2 = t2
  Admins = {a1}
  Tenants = {t1, t2}
  Keys = {k1, k2}
  Staff <- MCStaff
  Asked = {1, 2, 3}
  MaxVersion = 2
  None = None
SYMMETRY Symmetry
INVARIANTS ServedIsEntitled KeyServedAtOneMoment NoRoleByTheBackDoor
PROPERTIES KeysChangeByTheirAdmins LoggedOutForGood
