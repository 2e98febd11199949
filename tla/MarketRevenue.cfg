SPECIFICATION Spec
CONSTANTS
  admin = admin
  alice = alice
  Account = {admin, alice}
  Admin = admin
  NoOne = noone
  MaxTokens = 2
  Traded = {0}
  Operated = {alice}
  Strays = {}
  Forked = {1}
  MaxEarned = 3
  Royalty <- MCRoyalty
  DefaultRoyalty <- MCDefaultRoyalty
  FeeRecipient = admin
  InitialFee = 250
  Fees = {1000, 2000}
  Price = {20}
  Payment = {20, 21}
  InitialPurse <- MCPurse
  LineageBps = {5000, 6000}
  Revenue = {3}
PROPERTY RevenueFollowsPurchase
