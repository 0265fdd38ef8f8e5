\* One request at a time and nothing fails.
SPECIFICATION Spec
CONSTANTS
  o1 = o1
  r1 = r1
  Orders = {o1}
  Requests = {r1}
  Faults = FALSE
  MaxCount = 1
INVARIANTS
  CancellationIsRecorded
