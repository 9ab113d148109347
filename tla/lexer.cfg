CONSTANTS
  Keywords <- MCKeywords
  Pointer <- MCPointer
  Words <- MCWords
  Masks <- MCMasks
  SlotLimit <- MCSlotLimit
  PortLimit <- MCPortLimit
  WordSize <- MCWordSize
  IntMax <- MCIntMax
  PartSize <- MCPartSize
  TextSize <- MCTextSize
  Overwritten <- MCOverwritten
SPECIFICATION Spec
INVARIANTS
  TypeOK
  SelectsOnlyNamed
  ReadableIsSelected
  ShownTypesBack
  AbbreviationNamesOne
