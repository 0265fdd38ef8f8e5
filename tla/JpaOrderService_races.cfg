\* Three transactions on one order, with every failure.
SPECIFICATION Spec
CONSTANTS
  o1 = o1
  r1 = r1
  r2 = r2
  r3 = r3
  Orders = {o1}
  Requests = {r1, r2, r3}
SYMMETRY Symmetry
INVARIANTS
  TypeOK
  CommittedWasAnnounced
  RowConsistent
PROPERTIES
  KeepsContract
