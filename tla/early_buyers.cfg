SPECIFICATION Spec
CONSTANTS
  MaxTx = 5
  Kinds = {"buy", "other", "failed"}
  Slots <- SlotFunctions
  Creations = {1, 2}
  PageBudgets = {1, 3}
  PageSize = 2
  DecodeBudget = 2
  WindowSlots = 2
  Faulty = TRUE
INVARIANTS TypeOK NothingMissingUnsaid CountBracketed NoEarlierBuyerSkipped
CHECK_DEADLOCK FALSE
