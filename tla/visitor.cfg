SPECIFICATION VisitorSpec
CONSTANTS
  Asks = {a1, a2}
  Tenants = {t1, t2}
  Conversations = {c1, c2}
  Chunks = {}
  NoTenant = NoTenant
  NoConversation = NoConversation
  Addresses = {ip1}
  IpLimit = 1
  TenantLimit = 1
  Minutes = {1, 2}
  MessageLimit = 2
  Voters = {v1, v2}
  Mailers = {x1}
  Emails = {e1}
  NoEmail = NoEmail
SYMMETRY Symmetry
INVARIANTS EnteredWithinLimits WarnedAtLimit VotesStand TranscriptMails HistoryIsPrefix TenantsSeparated
