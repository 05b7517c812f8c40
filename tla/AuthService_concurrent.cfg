SPECIFICATION Spec
CONSTANTS
  alice = alice
  bob = bob
  r1 = r1
  r2 = r2
  t1 = t1
  t2 = t2
  t3 = t3
  Emails <- OneEmail
  Requests <- TwoSlots
  Tokens <- TwoTokens
  MaxFailed = 2
  MaxCounter = 2
  NoAccount = NoAccount
  NoToken = NoToken
  NoCall = NoCall
  Free = Free
SYMMETRY Interchangeable
INVARIANTS
  TypeOK
  EndedTokenIsRevoked
  ExchangeIsAtomic
  RequestsFit
PROPERTIES
  OnlyPasswordUnlocks
  CommitsFollowCalls
