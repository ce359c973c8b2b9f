CONSTANTS
  Wares = {"w1"}
  Areas = {"a1"}
  Fees = {0, 1, 2}
  MaxStock = 2
  MaxSaves = 1
SPECIFICATION ShelfSpec
INVARIANTS PriceShownIsCharged
CHECK_DEADLOCK FALSE
