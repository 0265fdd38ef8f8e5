\* Three requests on two orders, placed through the API or by a checkout from
\* four carts; amounts are in quarters of a cent and the column holds 4 cents.
\* The ids are bounded, so the model stops when creates have used them up.
SPECIFICATION Spec
CONSTANTS
  o1 = o1
  o2 = o2
  r1 = r1
  r2 = r2
  r3 = r3
  Orders = {o1, o2}
  Requests = {r1, r2, r3}
  Carts <- MCCarts
  Cent = 4
  MaxAmount = 16
SYMMETRY Symmetry
INVARIANTS
  MoneyTypeOK
  ShownIsWhole
  MoneyAgrees
  AtMostTwoTotals
  TotalsClose
CHECK_DEADLOCK FALSE
