---------------------------- MODULE JwksCacheProofs ----------------------------
(***************************************************************************)
(* Proofs about JwksCache, for any number of clients, requests and keys:   *)
(* its type invariant, that no key which was published all the time is     *)
(* unknown, and that a withdrawn key is trusted no longer than the process *)
(* that knew it.                                                           *)
(*                                                                         *)
(* The answer to a request is decided by what other requests have done to  *)
(* the cache in between, so the invariant follows a request's steady keys: *)
(* from the issuer into its answer and from there into the cache.          *)
(***************************************************************************)
EXTENDS JwksCache, RateLimiterProofs, TLAPS

\* Types of the key cache.
AuthTypes ==
  /\ keys \subseteq Keys
  /\ issued \subseteq Keys
  /\ stage \in [Requests -> Stages]
  /\ kid \in [Requests -> Keys \cup {NoKey}]
  /\ answer \in [Requests -> SUBSET Keys]
  /\ steady \in [Requests -> SUBSET Keys]
  /\ withdrawn \subseteq Keys \ issued
  /\ seen \subseteq Keys /\ issued \subseteq seen

\* Only requests that the limiter has admitted are authenticated.
LimiterFirst == \A r \in Requests : stage[r] # "none" => pc[r] = "admitted"

\* Where the steady keys of a request are, as far as it has come.
SteadyKeys ==
  \A r \in Requests :
    /\ stage[r] = "fetch" => steady[r] \subseteq issued
    /\ stage[r] = "merge" => steady[r] \subseteq answer[r]
    /\ stage[r] = "again" => steady[r] \subseteq keys
    /\ stage[r] = "unknown_key" => kid[r] \notin steady[r]

\* Whatever the process knows was published while it ran.
KnownWasSeen ==
  /\ keys \subseteq seen
  /\ \A r \in Requests : answer[r] \subseteq seen
  /\ \A r \in Requests : stage[r] = "accepted" => kid[r] \in seen

KInv == AuthTypes /\ SteadyKeys /\ KnownWasSeen

-----------------------------------------------------------------------------
(* The key cache *)

\* What the steps of the chain do to the variables of the authentication.
LEMMA InitKInv == ChainInit => KInv
BY NoKeyAssumption DEF ChainInit, KInv, AuthTypes, SteadyKeys, KnownWasSeen, Stages

\* A step of AuthMiddleware keeps the invariant of the cache.
LEMMA AuthStepKInv ==
  ASSUME KInv, NEW r \in Requests, AuthStep(r)
  PROVE  KInv'
<1> USE DEF KInv, AuthTypes, SteadyKeys, KnownWasSeen, Stages, Enter
<1>1. CASE RefuseToken(r)
  BY <1>1 DEF RefuseToken, AtAuth
<1>2. CASE Fetch(r)
  BY <1>2 DEF Fetch
<1>3. CASE FetchFails(r)
  BY <1>3 DEF FetchFails
<1>4. CASE Merge(r)
  BY <1>4 DEF Merge, Merged
<1>5. CASE LookAgain(r)
  BY <1>5 DEF LookAgain
<1>6. ASSUME NEW k \in Keys, LookUp(r, k)
      PROVE  KInv'
  BY <1>6 DEF LookUp, AtAuth
<1>7. QED
  BY <1>1, <1>2, <1>3, <1>4, <1>5, <1>6 DEF AuthStep

\* Every step of the chain keeps the invariant of the cache.
LEMMA NextKInv == KInv /\ [ChainNext]_chainVars => KInv'
<1> SUFFICES ASSUME KInv, [ChainNext]_chainVars
             PROVE  KInv'
  OBVIOUS
<1> USE DEF KInv, AuthTypes, SteadyKeys, KnownWasSeen
<1>1. ASSUME NEW r \in Requests, AuthStep(r)
      PROVE  KInv'
  BY <1>1, AuthStepKInv
<1>2. ASSUME NEW r \in Requests, Depart(r)
      PROVE  KInv'
  BY <1>2 DEF Depart, Over, Enter, Stages
<1>3. CASE UNCHANGED authVars
  BY <1>3 DEF authVars
<1>4. CASE Restart
  BY <1>4 DEF Restart, Stages
<1>5. ASSUME NEW k \in Keys, Introduce(k)
      PROVE  KInv'
  BY <1>5 DEF Introduce
<1>6. ASSUME NEW k \in Keys, Withdraw(k)
      PROVE  KInv'
  BY <1>6 DEF Withdraw
<1>7. CASE UNCHANGED chainVars
  BY <1>7 DEF chainVars
<1>8. QED
  BY <1>1, <1>2, <1>3, <1>4, <1>5, <1>6, <1>7 DEF ChainNext

\* The invariant of the cache holds throughout.
THEOREM CacheInvariant == ChainSpec => []KInv
<1>1. QED
  BY InitKInv, NextKInv, PTL DEF ChainSpec

\* No token is refused for an unknown key that the issuer published all the
\* time the key was being looked for (jwt.go:204-228, 270-286).
THEOREM SteadyKeysAreKnown == ChainSpec => []RejectedWasUnknown
<1>1. KInv => RejectedWasUnknown
  BY DEF KInv, SteadyKeys, RejectedWasUnknown
<1>2. QED
  BY <1>1, CacheInvariant, PTL

\* No token is accepted for a key that was withdrawn before the process started
\* (jwt.go:68, 204-228, 284).
THEOREM TrustEnds == ChainSpec => []TrustEndsWithProcess
<1>1. KInv => TrustEndsWithProcess
  BY DEF KInv, KnownWasSeen, TrustEndsWithProcess
<1>2. QED
  BY <1>1, CacheInvariant, PTL

-----------------------------------------------------------------------------
(* The limiter, as the first link of the chain *)

\* Every step of the chain keeps the invariant of the limiter.
LEMMA NextLimiterInv == LimiterInv /\ [ChainNext]_chainVars => LimiterInv'
<1> SUFFICES ASSUME LimiterInv, [ChainNext]_chainVars
             PROVE  LimiterInv'
  OBVIOUS
<1>1. ASSUME NEW r \in Requests, LimiterStep(r)
      PROVE  LimiterInv'
  BY <1>1, LimiterStepInv
<1>2. ASSUME NEW r \in Requests, Depart(r)
      PROVE  LimiterInv'
  BY <1>2, LeaveInv DEF Depart
<1>3. CASE UNCHANGED limiterVars
  BY <1>3, UnchangedInv
<1>4. CASE Cleanup
  BY <1>4, CleanupInv
<1>5. CASE Tick
  BY <1>5, TickInv
<1>6. CASE Restart
  <2>1. Fresh \in Bucket /\ Fresh.tokens <= Burst
    BY FreshType DEF LimiterInv
  <2>2. LimiterTypes'
    BY <1>6, <2>1, BoundsAssumption DEF Restart, LimiterInv, LimiterTypes, NoBucket
  <2>3. ASSUME NEW b \in Buckets
        PROVE  Sound(b)'
    <3>1. Burst \in Nat /\ now' \in Nat
      BY <1>6, Numbers DEF Restart, LimiterInv
    <3>2. Holders(b)' = {} /\ \A t : Due(b, t)' = {}
      BY <1>6 DEF Restart, Holders, Reserving, Due
    <3>3. bucket'[b] = Fresh /\ admitted'[b] = 0
      BY <1>6 DEF Restart
    <3>4. Cardinality({}) = 0
      BY FS_EmptySet
    <3>5. bucket'[b].tokens = Burst /\ bucket'[b].last = 0 /\ bucket'[b].born = 0
      BY <3>3 DEF Fresh
    <3>6. Paid(b)'
      BY <3>1, <3>2, <3>3, <3>4, <3>5 DEF Paid
    <3>7. Unused(b)' /\ Owed(b)'
      BY <3>2, <3>3 DEF Unused, Owed
    <3>8. OneDebt(b)'
      BY <3>1, <3>2, <3>5 DEF OneDebt
    <3>9. QED
      BY <3>1, <3>5, <3>6, <3>7, <3>8 DEF Sound
  <2>4. QED
    BY <2>2, <2>3 DEF LimiterInv
<1>7. ASSUME NEW k \in Keys, Introduce(k) \/ Withdraw(k)
      PROVE  LimiterInv'
  BY <1>7, <1>3 DEF Introduce, Withdraw
<1>8. CASE UNCHANGED chainVars
  BY <1>8, <1>3 DEF chainVars, limiterVars
<1>9. QED
  BY <1>1, <1>2, <1>3, <1>4, <1>5, <1>6, <1>7, <1>8 DEF ChainNext

\* In the chain the limiter keeps the limit, although the process restarts
\* (middleware.go:109-130).
THEOREM ChainLimits == ChainSpec => [](AdmittedWithinRate /\ RefusalLeavesNoDebt)
<1>1. ChainInit => LimiterInv
  BY InitLimiterInv DEF ChainInit
<1>2. QED
  BY <1>1, NextLimiterInv, SoundIsFair, PTL DEF ChainSpec

\* Nobody is authenticated whom the limiter has not admitted.
LEMMA NextLimiterFirst ==
  LimiterTypes /\ AuthTypes /\ LimiterFirst /\ [ChainNext]_chainVars => LimiterFirst'
<1> SUFFICES ASSUME LimiterTypes, AuthTypes, LimiterFirst, [ChainNext]_chainVars
             PROVE  LimiterFirst'
  OBVIOUS
<1> USE DEF LimiterFirst
<1>1. ASSUME NEW r \in Requests, LimiterStep(r), UNCHANGED authVars
      PROVE  LimiterFirst'
  <2>1. stage' = stage /\ \A q \in Requests : pc'[q] # pc[q] => pc[q] # "admitted"
    BY <1>1 DEF authVars, LimiterStep, Arrive, Reserve, Pass, Delayed, Cancel, LimiterTypes
  <2>2. QED
    BY <2>1
<1>2. ASSUME NEW r \in Requests, AuthStep(r), UNCHANGED limiterVars
      PROVE  LimiterFirst'
  <2>1. pc[r] = "admitted"
    BY <1>2 DEF AuthStep, RefuseToken, LookUp, AtAuth, Fetch, FetchFails, Merge, LookAgain
  <2>2. pc' = pc /\ \A q \in Requests : stage'[q] # stage[q] => q = r
    BY <1>2 DEF limiterVars, AuthTypes, AuthStep, RefuseToken, LookUp, Fetch, FetchFails,
                Merge, LookAgain, Enter
  <2>3. QED
    BY <2>1, <2>2
<1>3. ASSUME NEW r \in Requests, Depart(r)
      PROVE  LimiterFirst'
  BY <1>3 DEF Depart, Leave, Enter, LimiterTypes, AuthTypes
<1>4. CASE (Cleanup \/ Tick) /\ UNCHANGED authVars
  BY <1>4 DEF Cleanup, Tick, authVars
<1>5. CASE Restart
  BY <1>5 DEF Restart
<1>6. ASSUME NEW k \in Keys, Introduce(k) \/ Withdraw(k)
      PROVE  LimiterFirst'
  BY <1>6 DEF Introduce, Withdraw, limiterVars
<1>7. CASE UNCHANGED chainVars
  BY <1>7 DEF chainVars
<1>8. QED
  BY <1>1, <1>2, <1>3, <1>4, <1>5, <1>6, <1>7 DEF ChainNext

\* Every variable of the chain keeps its type, and the limiter comes first
\* (main.go:68-70).
THEOREM ChainTypeCorrect == ChainSpec => []ChainTypeOK
<1>1. ChainInit => LimiterInv /\ LimiterFirst
  BY InitLimiterInv DEF ChainInit, LimiterFirst
<1>2. KInv => AuthTypes
  BY DEF KInv
<1>3. LimiterInv => LimiterTypes
  BY DEF LimiterInv
<1>4. LimiterTypes /\ AuthTypes /\ LimiterFirst => ChainTypeOK
  BY DEF LimiterTypes, AuthTypes, LimiterFirst, ChainTypeOK, LimiterTypeOK, Bucket
<1>5. ChainSpec => []LimiterInv
  BY <1>1, NextLimiterInv, PTL DEF ChainSpec
<1>6. ChainSpec => []LimiterFirst
  BY <1>1, <1>2, <1>3, <1>5, CacheInvariant, NextLimiterFirst, PTL DEF ChainSpec
<1>7. QED
  BY <1>2, <1>3, <1>4, <1>5, <1>6, CacheInvariant, PTL
=============================================================================
