SPECIFICATION FairSpec
CONSTANTS
  Calls = {p1, p2, p3}
  Tenants = {t1, t2}
  Texts = {x1, x2}
  Ids = {1, 2, 3}
  NoTenant = NoTenant
  NoText = NoText
INVARIANTS NumbersContiguous ActiveIsOwn
PROPERTIES KeepsLog CallsEnd
