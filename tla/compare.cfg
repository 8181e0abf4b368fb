SPECIFICATION FairSpec
CONSTANTS
  MaxTx = 4
  Slots <- SlotFunctions
  Histories <- KindFunctions
  Modes <- BothModes
  Budget = 4
  FrameSizes = {1, 2}
  MARGIN_SLOTS = 2
  MIN_LAUNCHES = 1
  Lossy = {"creations"}
INVARIANTS TypeOK WindowComplete AdviceGrounded SpendCapped
PROPERTY Ends
CHECK_DEADLOCK FALSE
