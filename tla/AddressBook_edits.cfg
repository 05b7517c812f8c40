SPECIFICATION Spec
CONSTANTS
  r1 = r1
  r2 = r2
  a1 = a1
  a2 = a2
  a3 = a3
  a4 = a4
  Addresses <- FourAddresses
  Requests <- TwoSlots
  MaxAddresses = 2
  NoCall = NoCall
  Free = Free
SYMMETRY Interchangeable
INVARIANTS
  TypeOK
  BookLimit
PROPERTIES
  DeletedStaysDeleted
  CommitsFollowCalls
  BookChangesAtomically
