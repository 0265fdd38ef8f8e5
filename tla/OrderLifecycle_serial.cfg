\* One request at a time on two orders; everything may fail.
SPECIFICATION Spec
CONSTANTS
  o1 = o1
  o2 = o2
  r1 = r1
  Orders = {o1, o2}
  Requests = {r1}
  Faults = TRUE
  MaxCount = 2
SYMMETRY Symmetry
INVARIANTS
  PublishedOnce
PROPERTIES
  KeepsStateMachine
