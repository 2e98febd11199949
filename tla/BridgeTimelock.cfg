SPECIFICATION Spec
CONSTANTS
  admin = admin
  r1 = r1
  r2 = r2
  u1 = u1
  bridge = bridge
  zero = zero
  Account = {admin, r1, r2, u1}
  Bridge = bridge
  Zero = zero
  Admin = admin
  InitialRelayers = {r1, r2}
  InitialCount = 2
  InitialThreshold = 2
  InitialBalance <- MCBalance
  InitialLimits <- MCInitialLimits
  Deposit = {d1}
  Claim <- MCClaims
  User = {u1}
  Amount = {1}
  Limits <- MCLimits
  Grantable <- MCGrantable
  Timelock = 1
  DayLength = 2
  StartTime = 2
  MaxTime = 4
  MaxPegOuts = 2
  MaxCount = 2
PROPERTY ExecutedAfterTimelock
