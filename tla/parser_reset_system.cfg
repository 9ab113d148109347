CONSTANTS
  PortsWidth = 4
  MaxEntries = 1
  MaxIds = 2
  Commands <- MCCommands
  SlotMasks <- MCSlotMasks
  OwnMask = 1
  RangeLimit = 0
  MaxItems = 2
  MaxResidue = 30
SPECIFICATION Spec
INVARIANTS
  ResetReachesSystem
