SPECIFICATION FairSpec
CONSTANTS
  Asks = {a1, a2}
  Tenants = {t1}
  Conversations = {c1, c2}
  Chunks = {k1, k2}
  NoTenant = NoTenant
  NoConversation = NoConversation
INVARIANTS CitationsResolve TurnsPaired
PROPERTIES AsksEnd
