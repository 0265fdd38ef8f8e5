\* One transaction is enough: its event is out and its commit fails.
SPECIFICATION Spec
CONSTANTS
  o1 = o1
  r1 = r1
  Orders = {o1}
  Requests = {r1}
INVARIANTS
  AnnouncedWasCommitted
