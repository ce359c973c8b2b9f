CONSTANTS
  MaxQty = 1
  Products = {p1}
  Holds = {h1, h2}
  Orders = {o1, o2}
  Coupons = {c1}
  NoHold = NoHold
  NoCoupon = NoCoupon
  NoOne = NoOne
  Edited = {}
  MaxStock = 2
  HoldTime = 1
  MaxTime = 3
  CouponLife = 2
SPECIFICATION FairSpec
INVARIANTS StockBalances OrdersMatchHolds CouponsMatchOrders
PROPERTIES SettledIsFinal HoldsSettle
CHECK_DEADLOCK FALSE
