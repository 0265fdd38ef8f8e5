\* Two requests of one client; a bucket of one token, remade once by the
\* cleanup or a restart, and time for two more tokens; two keys of which either may come
\* and go. Time and buckets are bounded, so the model stops when both are used up.
SPECIFICATION ChainSpec
CONSTANTS
  ip = ip
  r1 = r1
  r2 = r2
  k1 = k1
  k2 = k2
  Clients = {ip}
  Requests = {r1, r2}
  Keys = {k1, k2}
  NoKey = NoKey
  Burst = 1
  MaxBuckets = 2
  MaxTime = 2
  MaxDebt = 2
SYMMETRY Symmetry
INVARIANTS
  ChainTypeOK
  AdmittedWithinRate
  RefusalLeavesNoDebt
  RejectedWasUnknown
  TrustEndsWithProcess
CHECK_DEADLOCK FALSE
