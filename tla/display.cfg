CONSTANTS
  Replies <- MCReplies
  Encodings <- MCEncodings
  Codes <- MCCodes
  Garbage <- MCGarbage
SPECIFICATION Spec
CHECK_DEADLOCK FALSE
INVARIANTS
  TypeOK
  ShowsWhatWasSent
  RowsKeepTheirLines
  SpeedFollowsOwnLink
  NothingMadeUp
  ArrivedIsShown
  ShownIsSent
  InOrder
PROPERTIES
  DisplayEnds
