CONSTANTS
  Slots = {s1, s2, s3}
  None = None
  Torn = Torn
SPECIFICATION Spec
INVARIANTS
  ExchangeTypeOK
  ToldUpToFailure
  HeldOnlyByFailure
  ZeroMeansWhole
  ModeSetEverywhere
PROPERTIES
  CallReturns
