\* One request at a time, on two orders and a cart of
\* one line; calls are lost, the database fails and servers die.
SPECIFICATION CheckoutSpec
CONSTANTS
  o1 = o1
  o2 = o2
  r1 = r1
  i1 = i1
  Orders = {o1, o2}
  Requests = {r1}
  Items = {i1}
  NoOrder = NoOrder
  Faults = TRUE
  MaxCount = 1
  OtherStatuses = {}
INVARIANT
  ChargedOnce
