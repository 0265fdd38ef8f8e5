\* Two requests race on one order and nothing fails.
SPECIFICATION Spec
CONSTANTS
  o1 = o1
  r1 = r1
  r2 = r2
  Orders = {o1}
  Requests = {r1, r2}
  Faults = FALSE
  MaxCount = 1
PROPERTIES
  FinalIsFinal
