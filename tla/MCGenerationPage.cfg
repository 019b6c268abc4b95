SPECIFICATION FairSpec
CONSTANTS
  i1 = i1
  i2 = i2
  MaxRefs = 2
  NumRoutes = 2
  MaxRequests = 3
  Jobs <- EveryJob
  Texts <- FourTexts
  OldPages <- CleanOrLimited
  Images = {i1, i2}
  Artwork = {i1}
  Grace = 2
  VerifyTime = 1
  ConvTime = 2
  PollTime = 2
  ImageTime = 4
  Settle = 2
  MaxElapse = 2
  MaxTexts = 2
  MaxTries = 1
INVARIANTS VerdictEarned PromptMatchesRequest ReferenceFilesScoped
PROPERTIES NeverWoundBack TakesTurn SettledResult SentAgainOnlyIfRefused EveryGenerationEnds
CHECK_DEADLOCK FALSE
