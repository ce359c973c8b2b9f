CONSTANTS
  MaxQty = 1
  Products = {p1}
  Holds = {h1}
  Orders = {o1, o2}
  Coupons = {}
  NoHold = NoHold
  NoCoupon = NoCoupon
  NoOne = NoOne
  Edited = {p1}
  MaxStock = 1
  HoldTime = 1
  MaxTime = 3
  CouponLife = 2
SPECIFICATION Spec
SYMMETRY Symmetry
INVARIANTS OversoldOnlyByEdits
CHECK_DEADLOCK FALSE
