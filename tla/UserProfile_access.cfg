SPECIFICATION Spec
CONSTANTS
  r1 = r1
  r2 = r2
  blank = blank
  other = other
  Settings <- BothSettings
  Data <- TwoData
  Default = blank
  Requests <- TwoSlots
  NoRow = NoRow
  NoCall = NoCall
  Same = Same
  Free = Free
SYMMETRY Interchangeable
INVARIANTS
  TypeOK
  ProfileComesFirst
  WaitsEmptyHanded
PROPERTIES
  EditsGoToReview
  LoneAccessSucceeds
  ProfileChangesAtomically
