CONSTANTS
  Sessions = {s1}
  MaxCalls = 2
  FeeOrders = {"o1"}
  Pieces = {2}
  Claims = {"k1", "k2"}
  Tabs = {"t1", "t2"}
  Desks = {"e1", "e2"}
  Amounts = {2}
  Rules <- TwoRules
  MaxRules = 2
  MaxRecorded = 2
  Users = {1, 2, 3}
  Staff = {1, 2}
  Shops = {"s1"}
  Items = {"i1"}
  Reports = {"r1"}
  MaxEntered = 2
  MaxCodes = 2
  MaxWrong = 1
  MaxLogins = 2
  OrderLines = {"l1", "l2"}
  Forms = {"f1", "f2", "f3"}
  LineOf <- TwoLines
  Stars = {1, 5}
  MaxMoves = 2
  Pages = {"t1", "t2"}
  Zones = {"d1", "d2"}
  Rates = {1}
  Methods = {"m1"}
  MaxLoads = 3
  MaxTyped = 2
  MaxClicks = 3
  Listings = {"g1"}
  Categories = {"k1"}
  Editors = {"t1", "t2"}
  MaxChanges = 4
  Windows = {"w1"}
  Secrets = {"k1"}
  MaxSends = 2
  MaxStrokes = 2
  Wares = {"w1"}
  Areas = {"a1"}
  Fees = {0, 1, 2}
  MaxStock = 2
  MaxSaves = 2
SPECIFICATION Spec
INVARIANTS
  OffersAccepted PaidBeforeConfirmed CourierAlwaysKnown
  OnePendingClaim ClaimPaidOnce
  AnAdminRemains ResolvedWereSuspended
  NewestCodeStands
  ThanksAreMeant RepliesWhereTyped
  RemovedStaysRemoved
  KeysAreAsGiven
  LinesOrderable ChargeForeseen
PROPERTIES
  StaysSignedIn
  OrdersKeepCharges
  TypedStays
  ArchivedStaysArchived
CHECK_DEADLOCK FALSE
