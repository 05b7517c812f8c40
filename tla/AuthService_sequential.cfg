SPECIFICATION SequentialSpec
CONSTANTS
  alice = alice
  bob = bob
  r1 = r1
  r2 = r2
  t1 = t1
  t2 = t2
  t3 = t3
  Emails <- TwoEmails
  Requests <- TwoSlots
  Tokens <- ThreeTokens
  MaxFailed = 2
  MaxCounter = 3
  NoAccount = NoAccount
  NoToken = NoToken
  NoCall = NoCall
  Free = Free
SYMMETRY Interchangeable
INVARIANTS
  LockIsConsistent
  RotationIsSingleUse
  DecisionsStayCurrent
PROPERTIES
  SweepEndsEverySession
  AtomicAuthSpec
VIEW Underway
CONSTRAINT FewTroubles
