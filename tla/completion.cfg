CONSTANTS
  Chars <- MCChars
  Letters <- MCLetters
  Upper <- MCUpper
  helplist <- MCHelplist
  tokenlist <- MCTokenlist
  varlist <- MCVarlist
  Lines <- MCLines
SPECIFICATION Spec
INVARIANTS
  TypeOK
  OffersContinue
  NoneTwice
  NothingHidden
PROPERTIES
  TabEnds
