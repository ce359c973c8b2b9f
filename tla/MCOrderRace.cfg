CONSTANTS
  MaxQty = 1
  Orders = {o1}
  Products = {p1}
  Sessions = {s1, s2}
  Lines = {1}
  Addresses = {a1}
  Proofs = {}
  NoProof = NoProof
  MaxStock = 1
  MaxShelf = 2
  MaxParcels = 0
SPECIFICATION Spec
PROPERTIES TransitionsAllowed
CHECK_DEADLOCK FALSE
