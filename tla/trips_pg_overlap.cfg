SPECIFICATION Spec
CONSTANTS
  Members = {m1, m2}
  Fields = {f1}
  MaxCapacity = 2
  Backend = "postgres"
  TripIDs = {t1}
  Workers = {w1, w2}
  Responses = {"YES", "NO"}
  Patches <- MCPatches
  NoTrip = NoTrip
  Idle = Idle
  Nobody = Nobody
SYMMETRY MCSymmetry
INVARIANTS
  TypeOK
  OrganizersNeverEmpty
  ListsMatchAccess
  NobodyLockedOut
PROPERTIES
  CancelIsFinal
  SomeOrganizerStays
  ImplementsStaleLedger
