CONSTANTS
  Tabs = {t1}
  Products = {p1}
  MaxQty = 2
  MaxHolds = 2
  MaxOrders = 1
  MaxJobs = 2
  MaxBacks = 2
  MaxMoves = 2
  Buyers = {"b1"}
  Divisions = {"d1", "d2"}
  Coupons = {"c1"}
  MaxEdits = 3
SPECIFICATION BuyerSpec
INVARIANTS PaymentMatchesCart OrderIsTheCart QuoteOrAnswerDue DeliveredWhereQuoted
PROPERTIES StartsSettle
CHECK_DEADLOCK FALSE
