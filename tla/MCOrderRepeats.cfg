CONSTANTS
  MaxQty = 1
  Orders = {o1}
  Products = {p1}
  Sessions = {s1}
  Lines = {1, 2}
  Addresses = {a1}
  Proofs = {}
  NoProof = NoProof
  MaxStock = 2
  MaxShelf = 2
  MaxParcels = 0
SPECIFICATION Spec
INVARIANTS CancelReturnsAll
CHECK_DEADLOCK FALSE
