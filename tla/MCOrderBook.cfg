CONSTANTS
  MaxQty = 1
  Orders = {o1}
  Products = {p1}
  Sessions = {s1, s2}
  Lines = {1}
  Addresses = {a1, a2}
  Proofs = {r1}
  NoProof = NoProof
  MaxStock = 1
  MaxShelf = 1
  MaxParcels = 2
SPECIFICATION Spec
SYMMETRY Symmetry
INVARIANTS BookedAddressCurrent TrackingIsOwn
PROPERTIES ImplementsBook
CHECK_DEADLOCK FALSE
