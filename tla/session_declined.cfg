CONSTANTS
  PortsWidth = 2
  MaxEntries = 1
  MaxIds = 2
  Commands <- MCCommands
  SlotMasks <- MCSlotMasks
  OwnMask = 1
  RangeLimit = 0
  MaxItems = 2
  MaxResidue = 20
SPECIFICATION SessionSpec
INVARIANTS
  AnswerObeyed
