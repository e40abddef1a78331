SPECIFICATION Spec
CONSTANTS
  Members = {m1, m2, m3}
  Fields = {f1}
  MaxCapacity = 2
  Backend = "memory"
  TripIDs = {t1}
  Workers = {w1}
  Responses = {"YES", "NO", "UNSET"}
  Patches <- MCPatches
  NoTrip = NoTrip
  Idle = Idle
  Nobody = Nobody
SYMMETRY MCSymmetry
INVARIANTS
  NeverOverbooked
  DraftsHaveNoRSVP
  ReadsAgree
  ListsMatchAccess
PROPERTIES
  ImplementsLedger
