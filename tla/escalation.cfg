SPECIFICATION Spec
CONSTANTS
  Attempts = {a1, a2, a3}
  m1 = m1
  m2 = m2
  m3 = m3
  t1 = t1
  t2 = t2
  Messages = {m1, m2, m3}
  Tenants = {t1, t2}
  TenantOf <- MCTenantOf
  LastDay = 1
  NoMessage = NoMessage
  NoNumber = NoNumber
SYMMETRY Symmetry
INVARIANTS NumbersDistinct RequestsAnnounced OneRequestPerMessage
