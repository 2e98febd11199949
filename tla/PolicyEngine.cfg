SPECIFICATION Spec
CONSTANTS
  a1 = a1
  t1 = t1
  admin = admin
  bot = bot
  Agent = {a1}
  Target = {t1}
  Account = {admin, bot}
  Admin = admin
  Amount = {1, 2}
  Policies <- MCPolicies
  MaxNonce = 2
  MaxDay = 3
INVARIANTS
  TypeOK
  NoReplay
  OneApprovalOneAction
  SpentIsDayTotal
PROPERTIES WithinDailyLimit PreflightLasts
CHECK_DEADLOCK FALSE
