SPECIFICATION HttpSpec
CONSTANTS
  Keys <- Fingerprints
  Bodies <- Hashes
  Calls <- MCCalls
  Campaigns <- MCDoubleCampaigns
  Newcomers = {s2}
  Workers = {w1}
  Backend = "memory"
  MaxEffects = 4
  Unbound = Unbound
  Idle = Idle
  Nobody = Nobody
  NoKey = NoKey
  EmptyKey = EmptyKey
  NoTrip = NoTrip
  NoArg = NoArg
  None = None
  s1 = s1
  s2 = s2
  s3 = s3
  t1 = t1
  t2 = t2
INVARIANTS
  SettledNeverRerun
PROPERTIES
  ImplementsExactlyOnce
