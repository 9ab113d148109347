CONSTANTS
  PortsWidth = 4
  MaxEntries = 2
  MaxIds = 2
  Commands <- MCCommands
  SlotMasks <- MCSlotMasks
  OwnMask = 1
  RangeLimit = 0
  MaxItems = 3
  MaxResidue = 30
SPECIFICATION Spec
INVARIANTS
  TypeOK
  CleanBetweenCommands
  RejectedSendsNothing
  AddressedAsAssigned
  FirstPayloadWellFormed
  PayloadIsOwn
  SameTextForOpcode
