SPECIFICATION Spec
CONSTANTS
  Campaigns <- MCCampaigns
  Texts <- MCTexts
  Blank <- MCBlank
  DraftName <- MCDraftName
  ArtifactIDs <- MCArtifactIDs
  Artifacts <- MCArtifacts
  Absent = Absent
  Null = Null
  a1 = a1
  a2 = a2
  a3 = a3
INVARIANTS
  TypeOK
  DatesOrdered
  OnlyLoneCoordinatesFail
  AnswerIsStored
  EchoChangesNothing
PROPERTIES
  ImplementsDocument
