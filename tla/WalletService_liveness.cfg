SPECIFICATION FairSpec
CONSTANTS
  alice = alice
  r1 = r1
  r2 = r2
  r3 = r3
  pay1 = pay1
  pay2 = pay2
  Users <- OneUser
  Requests <- TwoSlots
  Refs <- OneRef
  Amounts <- OneAmount
  MaxBalance = 2
  MaxVersion = 3
  NoWallet = NoWallet
  NoEntry = NoEntry
  NoCall = NoCall
  Free = Free
PROPERTY EveryRequestEnds
