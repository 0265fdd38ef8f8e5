\* Three requests race on one order; the database, the broker and the server fail.
SPECIFICATION Spec
CONSTANTS
  o1 = o1
  r1 = r1
  r2 = r2
  r3 = r3
  Orders = {o1}
  Requests = {r1, r2, r3}
  Faults = TRUE
  MaxCount = 1
SYMMETRY Symmetry
INVARIANTS
  TypeOK
  RowConsistent
  ShippedWasPaid
  AnnouncedWasCommitted
PROPERTIES
  KeepsContract
