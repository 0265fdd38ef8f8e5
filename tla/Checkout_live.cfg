\* Two requests on two orders and a cart of one line; each is a checkout, or
\* cancels an order or moves it on; nothing fails.
SPECIFICATION CheckoutLiveSpec
CONSTANTS
  o1 = o1
  o2 = o2
  r1 = r1
  r2 = r2
  i1 = i1
  Orders = {o1, o2}
  Requests = {r1, r2}
  Items = {i1}
  NoOrder = NoOrder
  Faults = FALSE
  MaxCount = 1
  OtherStatuses = {"PROCESSING", "SHIPPED", "COMPLETED"}
PROPERTIES
  ChargeIsBooked
  CommitsAnnounced
INVARIANTS
  AnsweredIsDone
  NoEventIsForgotten
  NoChargeIsAbandoned
