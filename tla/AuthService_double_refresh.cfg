SPECIFICATION Spec
CONSTANTS
  alice = alice
  bob = bob
  r1 = r1
  r2 = r2
  t1 = t1
  t2 = t2
  t3 = t3
  Emails <- OneEmail
  Requests <- TwoSlots
  Tokens <- ThreeTokens
  MaxFailed = 2
  MaxCounter = 1
  NoAccount = NoAccount
  NoToken = NoToken
  NoCall = NoCall
  Free = Free
SYMMETRY Interchangeable
INVARIANT RotationIsSingleUse
