SPECIFICATION HttpSpec
CONSTANTS
  Keys <- Fingerprints
  Bodies <- Hashes
  Calls <- MCCalls
  Campaigns <- MCCampaigns
  Newcomers = {s2}
  Workers = {w1, w2}
  Backend = "postgres"
  MaxEffects = 2
  Unbound = Unbound
  Idle = Idle
  Nobody = Nobody
  NoKey = NoKey
  EmptyKey = EmptyKey
  NoTrip = NoTrip
  NoArg = NoArg
  None = None
  s1 = s1
  s2 = s2
  s3 = s3
  t1 = t1
  t2 = t2
INVARIANTS
  HttpTypeOK
  RepliesAreOwn
  ReplyIsOwnOperation
  KeysAreIndependent
  RefusalsAnswered
  StrangersLeaveNoTrace
SYMMETRY MCSymmetry
