SPECIFICATION Spec
CONSTANTS
  Subjects = {s1, s2, s3}
  MemberIDs = {m1, m2, m3}
  Emails = {e1, e2, e3}
  VehicleFields = {f1, f2}
  Workers = {w1}
  Backend = "postgres"
  NoMember = NoMember
  NoID = NoID
  Keep = Keep
  Idle = Idle
SYMMETRY MCSymmetry
INVARIANTS
  ChecksSuffice
PROPERTIES
  UnnamedFieldsKept
