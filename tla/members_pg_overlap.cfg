SPECIFICATION Spec
CONSTANTS
  Subjects = {s1, s2}
  MemberIDs = {m1, m2, m3}
  Emails = {e1, e2, e3}
  VehicleFields = {}
  Workers = {w1, w2, w3}
  Backend = "postgres"
  NoMember = NoMember
  NoID = NoID
  Keep = Keep
  Idle = Idle
SYMMETRY MCSymmetry
INVARIANTS
  TypeOK
  EmailsUnique
  SubjectsBound
