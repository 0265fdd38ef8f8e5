---------------------------- MODULE RateLimiterProofs ----------------------------
(***************************************************************************)
(* Proofs about RateLimiter, for any number of clients and requests and    *)
(* any burst: its types, that a bucket lets no more requests pass than     *)
(* have been paid for, and that a refusal leaves no debt to a client       *)
(* whose requests do not overlap.                                          *)
(*                                                                         *)
(* The steps are proved one by one, so that the chain of which the limiter *)
(* is the first link (JwksCache) can use them too.                         *)
(***************************************************************************)
EXTENDS RateLimiter, FiniteSetTheorems, TLAPS

Bucket == [tokens : Int, last : Times, lastEvent : Nat, born : Times]

\* Types of the limiter, strong enough to be inductive.
LimiterTypes ==
  /\ now \in Times
  /\ made \in 0..MaxBuckets
  /\ visitors \in [Clients -> 0..made]
  /\ bucket \in [Buckets -> Bucket]
  /\ \A b \in Buckets : bucket[b].tokens <= Burst
  /\ pc \in [Requests -> {"idle", "reserve", "check", "cancel", "admitted"}]
  /\ mine \in [Requests -> 0..made]
  /\ timeToAct \in [Requests -> Nat]
  /\ admitted \in [Buckets -> Nat]
  /\ overlapped \in [Buckets -> BOOLEAN]
  /\ \A r \in Requests : pc[r] \in {"reserve", "check", "cancel"} => mine[r] # NoBucket

-----------------------------------------------------------------------------
(* The inductive invariant *)

\* The requests that hold a token of b.
Holders(b) == {r \in Requests : Reserving(r) /\ mine[r] = b}

\* ... whose token has come by time t.
Due(b, t) == {r \in Holders(b) : timeToAct[r] <= t}

\* The token of r has not come, or came after r was found to be early.
Waits(r) == timeToAct[r] >= now /\ (pc[r] = "cancel" \/ timeToAct[r] > now)

\* A token that somebody waits for is owed by the bucket, and is his alone.
Owed(b) ==
  \A r \in Holders(b) :
    Waits(r) =>
      /\ bucket[b].tokens + (timeToAct[r] - bucket[b].last) <= 0
      /\ timeToAct[r] <= bucket[b].lastEvent
      /\ \A q \in Holders(b) : q # r /\ Waits(q) => timeToAct[q] # timeToAct[r]

\* By any time t, those who passed, those who may then, and the tokens that are
\* then left are no more than what b started with and what has come since.
Paid(b) ==
  \A t \in Nat :
    t >= now =>
      /\ admitted[b] + Cardinality(Due(b, t)) <= Burst + (t - bucket[b].born)
      /\ admitted[b] + Cardinality(Due(b, t)) + bucket[b].tokens
           <= Burst + (bucket[b].last - bucket[b].born)

\* Requests that do not overlap leave at most the debt of one of them.
OneDebt(b) ==
  ~overlapped[b] =>
    /\ \A q, r \in Holders(b) : q = r
    /\ Holders(b) = {} => bucket[b].tokens + (now - bucket[b].last) >= 0
    /\ \A r \in Holders(b) :
         /\ timeToAct[r] = bucket[b].lastEvent
         /\ \/ bucket[b].tokens >= 0
            \/ bucket[b].tokens = -1 /\ timeToAct[r] = bucket[b].last + 1

\* A bucket that is not made yet has let nobody pass.
Unused(b) == b > made => admitted[b] = 0

\* Why the limit holds.  Owed is needed for Cancel, which gives a token back: it
\* must be one that nobody has been let pass for.
Sound(b) == bucket[b].last <= now /\ Unused(b) /\ Owed(b) /\ Paid(b) /\ OneDebt(b)

LimiterInv == LimiterTypes /\ \A b \in Buckets : Sound(b)

-----------------------------------------------------------------------------
(* The limiter *)

\* Tokens of a bucket that is typed are at most a burst.
LEMMA TokensNowType ==
  ASSUME LimiterTypes, NEW b \in Buckets
  PROVE  TokensNow(b) \in Int /\ TokensNow(b) <= Burst
BY BurstAssumption, BoundsAssumption DEF LimiterTypes, TokensNow, AtMost, Bucket, Times

\* A bucket whose tokens have been counted again.
Counted(old, n, t, e) == [old EXCEPT !.tokens = n, !.last = t, !.lastEvent = e]

\* It is a bucket.
LEMMA RecountType ==
  ASSUME NEW old \in Bucket, NEW n \in Int, NEW t \in Times, NEW e \in Nat
  PROVE  Counted(old, n, t, e) \in Bucket /\ Counted(old, n, t, e).tokens = n
<1> DEFINE counted == [old EXCEPT !.tokens = n]
           dated == [counted EXCEPT !.last = t]
<1>1. counted \in Bucket /\ counted.tokens = n
  BY DEF Bucket
<1> HIDE DEF counted
<1>2. dated \in Bucket /\ dated.tokens = n
  BY <1>1 DEF Bucket
<1> HIDE DEF dated
<1>3. [dated EXCEPT !.lastEvent = e] \in Bucket /\ [dated EXCEPT !.lastEvent = e].tokens = n
  BY <1>2 DEF Bucket
<1>4. QED
  BY <1>3 DEF Counted, counted, dated

\* Reserving and cancelling keep a bucket typed.
LEMMA ReservedType ==
  ASSUME LimiterTypes, NEW b \in Buckets
  PROVE  Reserved(b) \in Bucket /\ Reserved(b).tokens <= Burst
<1> DEFINE old == bucket[b]
           left == TokensNow(b) - 1
           event == IF left < 0 THEN now - left ELSE now
<1>1. old \in Bucket /\ now \in Times
  BY DEF LimiterTypes
<1>2. now \in Nat
  BY <1>1, BoundsAssumption DEF Times
<1>3. TokensNow(b) \in Int /\ TokensNow(b) <= Burst
  BY TokensNowType
<1>4. left \in Int /\ left <= Burst /\ event \in Nat
  BY <1>2, <1>3, BurstAssumption
<1>5. Reserved(b) = Counted(old, left, now, event)
  BY DEF Reserved, Counted
<1> HIDE DEF old, left, event
<1>6. Counted(old, left, now, event) \in Bucket /\ Counted(old, left, now, event).tokens = left
  BY <1>1, <1>4, RecountType
<1>7. QED
  BY <1>4, <1>5, <1>6

LEMMA RestoredType ==
  ASSUME LimiterTypes, NEW b \in Buckets, NEW act \in Nat
  PROVE  Restored(b, act) \in Bucket /\ Restored(b, act).tokens <= Burst
<1> DEFINE old == bucket[b]
           more == AtMost(TokensNow(b) + 1, Burst)
           event == IF act - 1 >= now THEN act - 1 ELSE old.lastEvent
<1>1. old \in Bucket /\ old.tokens <= Burst /\ now \in Times
  BY DEF LimiterTypes
<1>2. now \in Nat /\ old.lastEvent \in Nat
  BY <1>1, BoundsAssumption DEF Times, Bucket
<1>3. TokensNow(b) \in Int /\ TokensNow(b) <= Burst
  BY TokensNowType
<1>4. more \in Int /\ more <= Burst
  BY <1>3, BurstAssumption DEF AtMost
<1>5. Restored(b, act) = old \/ Restored(b, act) = Counted(old, more, now, event)
  BY DEF Restored, Counted
<1> HIDE DEF old, more
<1>6. event \in Nat
  BY <1>2
<1> HIDE DEF event
<1>7. Counted(old, more, now, event) \in Bucket /\ Counted(old, more, now, event).tokens = more
  BY <1>1, <1>4, <1>6, RecountType
<1>8. QED
  BY <1>1, <1>4, <1>5, <1>7

\* A bucket that is made is typed.
LEMMA FreshType ==
  ASSUME LimiterTypes
  PROVE  /\ Fresh \in Bucket /\ Fresh.tokens <= Burst
         /\ [Fresh EXCEPT !.last = now, !.born = now] \in Bucket
         /\ [Fresh EXCEPT !.last = now, !.born = now].tokens <= Burst
<1>1. now \in Times /\ 0 \in Times /\ Burst \in Int
  BY BurstAssumption, BoundsAssumption DEF LimiterTypes, Times
<1>2. Fresh \in Bucket /\ Fresh.tokens = Burst
  BY <1>1 DEF Fresh, Bucket
<1>3. DEFINE aged == [Fresh EXCEPT !.last = now]
<1>4. aged \in Bucket /\ aged.tokens = Burst
  BY <1>1, <1>2 DEF Bucket
<1>5. [aged EXCEPT !.born = now] \in Bucket /\ [aged EXCEPT !.born = now].tokens = Burst
  BY <1>1, <1>4 DEF Bucket
<1>6. QED
  BY <1>1, <1>2, <1>5

\* A request in the middleware holds a bucket that was made.
LEMMA HoldsBucket ==
  ASSUME LimiterTypes, NEW r \in Requests, pc[r] \in {"reserve", "check", "cancel"}
  PROVE  mine[r] \in Buckets
BY BoundsAssumption DEF LimiterTypes, Buckets, NoBucket

LEMMA ArriveTypes ==
  ASSUME LimiterTypes, NEW r \in Requests, NEW c \in Clients, Arrive(r, c)
  PROVE  LimiterTypes'
<1> USE BoundsAssumption
<1>1. CASE visitors[c] # NoBucket
  BY <1>1 DEF Arrive, TakeBucket, LimiterTypes, NoBucket
<1>2. CASE visitors[c] = NoBucket
  <2>1. made + 1 \in Buckets /\ made' = made + 1
    BY <1>2 DEF Arrive, TakeBucket, LimiterTypes, Buckets
  <2>2. bucket' \in [Buckets -> Bucket] /\ \A b \in Buckets : bucket'[b].tokens <= Burst
    BY <1>2, <2>1, FreshType DEF Arrive, TakeBucket, LimiterTypes
  <2>3. /\ visitors' \in [Clients -> 0..made'] /\ visitors'[c] = made'
        /\ mine' \in [Requests -> 0..made'] /\ mine'[r] # NoBucket
        /\ made' \in 0..MaxBuckets
    <3>1. /\ visitors' = [visitors EXCEPT ![c] = made + 1]
          /\ mine' = [mine EXCEPT ![r] = visitors'[c]]
      BY <1>2 DEF Arrive, TakeBucket
    <3>2. /\ made \in 0..MaxBuckets /\ visitors \in [Clients -> 0..made]
          /\ mine \in [Requests -> 0..made]
      BY DEF LimiterTypes
    <3>3. visitors'[c] = made + 1
      BY <3>1, <3>2
    <3>4. mine'[r] = made + 1 /\ mine' = [mine EXCEPT ![r] = made + 1]
      BY <3>1, <3>2, <3>3
    <3>5. made + 1 \in 0..(made + 1) /\ 0..made \subseteq 0..(made + 1)
      BY <3>2
    <3>6. QED
      BY <2>1, <3>1, <3>2, <3>3, <3>4, <3>5 DEF NoBucket, Buckets
  <2>4. QED
    BY <2>2, <2>3 DEF Arrive, LimiterTypes
<1>3. QED
  BY <1>1, <1>2

\* A step of the limiter keeps its variables typed.
LEMMA LimiterStepTypes ==
  ASSUME LimiterTypes, NEW r \in Requests, LimiterStep(r)
  PROVE  LimiterTypes'
<1>1. ASSUME NEW c \in Clients, Arrive(r, c)
      PROVE  LimiterTypes'
  BY <1>1, ArriveTypes
<1>2. CASE Reserve(r)
  <2>1. mine[r] \in Buckets
    BY <1>2, HoldsBucket DEF Reserve
  <2>2. Reserved(mine[r]) \in Bucket /\ Reserved(mine[r]).tokens <= Burst
    BY <2>1, ReservedType
  <2>3. Reserved(mine[r]).lastEvent \in Nat
    BY <2>2 DEF Bucket
  <2>4. bucket' \in [Buckets -> Bucket] /\ \A b \in Buckets : bucket'[b].tokens <= Burst
    BY <1>2, <2>1, <2>2 DEF Reserve, LimiterTypes
  <2>5. overlapped' \in [Buckets -> BOOLEAN]
    BY <1>2, <2>1 DEF Reserve, LimiterTypes
  <2>6. QED
    BY <1>2, <2>3, <2>4, <2>5 DEF Reserve, LimiterTypes
<1>3. CASE Pass(r)
  <2>1. mine[r] \in Buckets
    BY <1>3, HoldsBucket DEF Pass
  <2>2. QED
    BY <1>3, <2>1, BoundsAssumption DEF Pass, LimiterTypes, NoBucket
<1>4. CASE Delayed(r)
  BY <1>4 DEF Delayed, LimiterTypes
<1>5. CASE Cancel(r)
  <2>1. mine[r] \in Buckets /\ timeToAct[r] \in Nat
    BY <1>5, HoldsBucket DEF Cancel, LimiterTypes
  <2>2. bucket' \in [Buckets -> Bucket] /\ \A b \in Buckets : bucket'[b].tokens <= Burst
    BY <1>5, <2>1, RestoredType DEF Cancel, LimiterTypes
  <2>3. QED
    BY <1>5, <2>2, BoundsAssumption DEF Cancel, LimiterTypes, NoBucket
<1>6. QED
  BY <1>1, <1>2, <1>3, <1>4, <1>5 DEF LimiterStep

-----------------------------------------------------------------------------
(* What a step leaves of the invariant for a bucket that it does not touch *)

\* The numbers of a bucket.
LEMMA Numbers ==
  ASSUME LimiterTypes, NEW b \in Buckets
  PROVE  /\ bucket[b].tokens \in Int /\ bucket[b].tokens <= Burst
         /\ bucket[b].last \in Nat /\ bucket[b].born \in Nat /\ bucket[b].lastEvent \in Nat
         /\ admitted[b] \in Nat /\ now \in Nat /\ Burst \in Nat /\ Burst >= 1
         /\ timeToAct \in [Requests -> Nat] /\ made \in Nat /\ b \in Nat
<1>1. bucket[b] \in Bucket /\ bucket[b].tokens <= Burst
  BY DEF LimiterTypes
<1>2. Times \subseteq Nat
  BY BoundsAssumption DEF Times
<1>3. /\ bucket[b].tokens \in Int /\ bucket[b].last \in Times
      /\ bucket[b].born \in Times /\ bucket[b].lastEvent \in Nat
  BY <1>1 DEF Bucket
<1>4. /\ admitted[b] \in Nat /\ now \in Times /\ timeToAct \in [Requests -> Nat]
      /\ made \in Nat /\ b \in Nat
  BY BoundsAssumption DEF LimiterTypes, Buckets
<1>5. Burst \in Nat /\ Burst >= 1
  BY BurstAssumption
<1>6. bucket[b].last \in Nat /\ bucket[b].born \in Nat /\ now \in Nat
  BY <1>2, <1>3, <1>4
<1>7. QED
  BY <1>1, <1>3, <1>4, <1>5, <1>6

\* Requests can be counted.
LEMMA Countable ==
  ASSUME NEW S \in SUBSET Requests
  PROVE  IsFiniteSet(S) /\ Cardinality(S) \in Nat
BY RequestsAssumption, FS_Subset, FS_CardinalityType

LEMMA DueCount ==
  ASSUME NEW b, NEW t
  PROVE  IsFiniteSet(Due(b, t)) /\ Cardinality(Due(b, t)) \in Nat
BY Countable DEF Due, Holders

\* A bucket stays sound when neither it nor its holders change.
LEMMA UntouchedSound ==
  ASSUME LimiterInv, NEW b \in Buckets, now' = now, bucket'[b] = bucket[b],
         admitted'[b] = admitted[b], overlapped'[b] = overlapped[b],
         b > made' => b > made, Holders(b)' = Holders(b),
         \A r \in Holders(b) : timeToAct'[r] = timeToAct[r] /\ (Waits(r)' => Waits(r))
  PROVE  Sound(b)'
<1>1. Sound(b)
  BY DEF LimiterInv
<1>2. \A t : Due(b, t)' = Due(b, t)
  BY DEF Due
<1>3. Unused(b)'
  BY <1>1, Numbers DEF LimiterInv, Sound, Unused
<1>4. Owed(b)'
  BY <1>1 DEF Sound, Owed
<1>5. Paid(b)'
  BY <1>1, <1>2 DEF Sound, Paid
<1>6. OneDebt(b)'
  BY <1>1 DEF Sound, OneDebt
<1>7. QED
  BY <1>1, <1>3, <1>4, <1>5, <1>6 DEF Sound

-----------------------------------------------------------------------------
(* Each step keeps every bucket sound *)

LEMMA ArriveSound ==
  ASSUME LimiterInv, NEW r \in Requests, NEW c \in Clients, Arrive(r, c), NEW b \in Buckets
  PROVE  Sound(b)'
<1> USE DEF LimiterInv
<1>1. Holders(b)' = Holders(b)
  BY DEF Holders, Reserving, Arrive, LimiterTypes
<1>2. \A q \in Holders(b) : timeToAct'[q] = timeToAct[q] /\ (Waits(q)' => Waits(q))
  BY DEF Arrive, Waits, Holders, Reserving, LimiterTypes
<1>3. /\ now' = now /\ admitted' = admitted /\ overlapped' = overlapped
      /\ made' >= made /\ made \in Nat /\ made' \in Nat
  BY Numbers DEF Arrive, TakeBucket
<1>4. CASE bucket'[b] = bucket[b]
  BY <1>1, <1>2, <1>3, <1>4, Numbers, UntouchedSound
<1>5. CASE bucket'[b] # bucket[b]
  <2>1. b = made + 1 /\ made' = made + 1 /\ bucket'[b] = [Fresh EXCEPT !.last = now, !.born = now]
    BY <1>5 DEF Arrive, TakeBucket, LimiterTypes
  <2>2. bucket'[b].tokens = Burst /\ bucket'[b].last = now /\ bucket'[b].born = now
    BY <2>1 DEF Fresh
  <2>3. Holders(b) = {}
    BY <1>3, <2>1 DEF Holders, LimiterTypes
  <2>4. \A t : Due(b, t)' = {} /\ Cardinality({}) = 0
    BY <1>1, <2>3, FS_EmptySet DEF Due
  <2>5. admitted[b] = 0
    BY <1>3, <2>1 DEF Sound, Unused
  <2>6. Owed(b)' /\ Unused(b)'
    BY <1>1, <1>3, <2>1, <2>3 DEF Owed, Unused
  <2>7. Paid(b)'
    BY <1>3, <2>2, <2>4, <2>5, Numbers DEF Paid
  <2>8. OneDebt(b)'
    BY <1>1, <1>3, <2>2, <2>3, Numbers DEF OneDebt
  <2>9. QED
    BY <1>3, <2>2, <2>6, <2>7, <2>8, Numbers DEF Sound
<1>6. QED
  BY <1>4, <1>5

LEMMA ReserveSound ==
  ASSUME LimiterInv, NEW r \in Requests, Reserve(r), NEW b \in Buckets
  PROVE  Sound(b)'
<1> USE DEF LimiterInv
<1>1. /\ now' = now /\ admitted' = admitted /\ made' = made
      /\ pc[r] = "reserve" /\ pc' = [pc EXCEPT ![r] = "check"] /\ mine' = mine
      /\ pc \in [Requests -> {"idle", "reserve", "check", "cancel", "admitted"}]
  BY DEF Reserve, LimiterTypes
<1>2. \A q \in Requests : q # r => timeToAct'[q] = timeToAct[q] /\ pc'[q] = pc[q]
  BY <1>1 DEF Reserve, LimiterTypes
<1>3. CASE mine[r] # b
  <2>1. bucket'[b] = bucket[b] /\ overlapped'[b] = overlapped[b]
    BY <1>3 DEF Reserve, LimiterTypes
  <2>2. Holders(b)' = Holders(b) /\ r \notin Holders(b)
    BY <1>1, <1>3 DEF Holders, Reserving
  <2>3. \A q \in Holders(b) : timeToAct'[q] = timeToAct[q] /\ (Waits(q)' => Waits(q))
    BY <1>1, <1>2, <2>2 DEF Holders, Waits
  <2>4. QED
    BY <1>1, <2>1, <2>2, <2>3, UntouchedSound
<1>4. CASE mine[r] = b
  <2> DEFINE old == bucket[b].tokens + (now - bucket[b].last)
             left == bucket'[b].tokens
  <2>1. Reserved(b) \in Bucket
    BY ReservedType
  <2>2. /\ bucket'[b] = Reserved(b) /\ timeToAct' = [timeToAct EXCEPT ![r] = Reserved(b).lastEvent]
        /\ overlapped'[b] = (overlapped[b] \/ Holders(b) # {})
    BY <1>4 DEF Reserve, LimiterTypes, Holders
  <2>3. /\ bucket'[b].tokens = TokensNow(b) - 1 /\ bucket'[b].last = now
        /\ bucket'[b].born = bucket[b].born
        /\ bucket'[b].lastEvent = IF TokensNow(b) - 1 < 0 THEN now - (TokensNow(b) - 1) ELSE now
    BY <2>2, Numbers DEF Reserved, LimiterTypes, Bucket
  <2>4. TokensNow(b) = IF old > Burst THEN Burst ELSE old
    BY DEF TokensNow, AtMost
  <2>5. timeToAct'[r] = bucket'[b].lastEvent
    BY <2>2, Numbers
  <2>6. Holders(b)' = Holders(b) \cup {r} /\ r \notin Holders(b)
    BY <1>1, <1>4 DEF Holders, Reserving
  <2>7. /\ old \in Int /\ left \in Int /\ left <= old - 1 /\ left <= Burst - 1
        /\ bucket[b].last <= now
    BY <2>3, <2>4, Numbers DEF Sound
  <2>8. \A q \in Holders(b) : timeToAct'[q] = timeToAct[q] /\ (Waits(q)' => Waits(q))
    BY <1>1, <1>2, <2>6 DEF Holders, Waits
  <2>9. Owed(b)'
    <3>1. ASSUME NEW q \in Holders(b), Waits(q)
          PROVE  /\ left + (timeToAct[q] - now) <= 0
                 /\ timeToAct[q] < bucket'[b].lastEvent
      <4>1. /\ bucket[b].tokens + (timeToAct[q] - bucket[b].last) <= 0 /\ timeToAct[q] >= now
            /\ timeToAct[q] \in Nat
        BY <3>1, Numbers DEF Sound, Owed, Waits, Holders
      <4>2. TokensNow(b) = old /\ left = old - 1
        BY <2>3, <2>4, <4>1, Numbers
      <4>3. QED
        BY <2>3, <4>1, <4>2, Numbers
    <3>2. ASSUME Waits(r)'
          PROVE  left + (timeToAct'[r] - now) <= 0
      BY <1>1, <2>3, <2>5, <2>7, <3>2, Numbers DEF Waits
    <3>3. ASSUME NEW q \in Holders(b), NEW p \in Holders(b), p # q, Waits(p), Waits(q)
          PROVE  timeToAct[p] # timeToAct[q]
      BY <3>3 DEF Sound, Owed
    <3>4. bucket'[b].last = now /\ bucket'[b].lastEvent \in Nat
      BY <2>1, <2>2, <2>3 DEF Bucket
    <3>5. ASSUME NEW q \in Holders(b)', Waits(q)'
          PROVE  left + (timeToAct'[q] - now) <= 0 /\ timeToAct'[q] <= bucket'[b].lastEvent
      <4>1. CASE q = r
        BY <2>5, <3>2, <3>4, <3>5, <4>1
      <4>2. CASE q # r
        <5>1. q \in Holders(b) /\ timeToAct'[q] = timeToAct[q] /\ Waits(q)
          BY <2>6, <2>8, <3>5, <4>2
        <5>2. timeToAct[q] \in Nat
          BY <5>1, Numbers DEF Holders
        <5>3. QED
          BY <3>1, <3>4, <5>1, <5>2
      <4>3. QED
        BY <4>1, <4>2
    <3>6. ASSUME NEW p \in Holders(b)', NEW q \in Holders(b)', p # q, Waits(p)', Waits(q)'
          PROVE  timeToAct'[p] # timeToAct'[q]
      <4>1. \A h \in Holders(b) : timeToAct[h] \in Nat
        BY Numbers DEF Holders
      <4>2. \A h \in Holders(b) : Waits(h)' => timeToAct'[h] # timeToAct'[r]
        BY <2>5, <2>8, <3>1, <3>4, <4>1
      <4>3. CASE p # r /\ q # r
        BY <2>6, <2>8, <3>3, <3>6, <4>3
      <4>4. CASE p = r \/ q = r
        BY <2>6, <3>6, <4>2, <4>4
      <4>5. QED
        BY <4>3, <4>4
    <3>7. QED
      BY <3>4, <3>5, <3>6 DEF Owed
  <2>10. Paid(b)'
    <3>1. ASSUME NEW t \in Nat, t >= now
          PROVE  /\ admitted[b] + Cardinality(Due(b, t)') <= Burst + (t - bucket[b].born)
                 /\ admitted[b] + Cardinality(Due(b, t)') + left <= Burst + (now - bucket[b].born)
      <4> DEFINE n == Cardinality(Due(b, t))
      <4>1. /\ n \in Nat
            /\ admitted[b] + n <= Burst + (t - bucket[b].born)
            /\ admitted[b] + n + old <= Burst + (now - bucket[b].born)
        BY <3>1, DueCount, Numbers DEF Sound, Paid
      <4>2. CASE timeToAct'[r] <= t
        <5>1. Due(b, t)' = Due(b, t) \cup {r} /\ r \notin Due(b, t)
          BY <2>6, <2>8, <4>2 DEF Due
        <5>2. Cardinality(Due(b, t)') = n + 1
          BY <5>1, DueCount, FS_AddElement
        <5>3. left + (t - now) >= 0
          BY <2>3, <2>5, <2>7, <3>1, <4>2, Numbers
        <5>4. QED
          BY <2>7, <4>1, <5>2, <5>3, Numbers
      <4>3. CASE ~(timeToAct'[r] <= t)
        <5>1. Due(b, t)' = Due(b, t)
          BY <2>6, <2>8, <4>3 DEF Due
        <5>2. QED
          BY <2>7, <4>1, <5>1, Numbers
      <4>4. QED
        BY <4>2, <4>3
    <3>2. QED
      BY <1>1, <2>3, <3>1 DEF Paid
  <2>11. OneDebt(b)'
    <3>1. SUFFICES ASSUME ~overlapped'[b]
                   PROVE  OneDebt(b)'
      BY DEF OneDebt
    <3>2. Holders(b) = {} /\ ~overlapped[b] /\ Holders(b)' = {r}
      BY <2>2, <2>6, <3>1
    <3>3. old >= 0
      BY <3>2 DEF Sound, OneDebt
    <3>4. left >= 0 \/ (left = -1 /\ timeToAct'[r] = now + 1)
      BY <2>3, <2>4, <2>5, <2>7, <3>3, Numbers
    <3>5. bucket'[b].last = now
      BY <2>3
    <3>6. /\ Holders(b)' # {} /\ \A p, q \in Holders(b)' : p = q
      BY <3>2
    <3>7. \A q \in Holders(b)' :
            /\ timeToAct'[q] = bucket'[b].lastEvent
            /\ \/ bucket'[b].tokens >= 0
               \/ bucket'[b].tokens = -1 /\ timeToAct'[q] = bucket'[b].last + 1
      BY <2>5, <3>2, <3>4, <3>5
    <3>8. QED
      BY <3>6, <3>7 DEF OneDebt
  <2>12. Unused(b)'
    BY <1>1 DEF Sound, Unused
  <2>13. QED
    BY <1>1, <2>3, <2>9, <2>10, <2>11, <2>12, Numbers DEF Sound
<1>5. QED
  BY <1>3, <1>4

LEMMA PassSound ==
  ASSUME LimiterInv, NEW r \in Requests, Pass(r), NEW b \in Buckets
  PROVE  Sound(b)'
<1> USE DEF LimiterInv
<1>1. /\ now' = now /\ bucket' = bucket /\ overlapped' = overlapped /\ made' = made
      /\ pc[r] = "check" /\ pc'[r] = "admitted" /\ mine[r] # NoBucket
      /\ timeToAct[r] <= now
  BY DEF Pass, LimiterTypes
<1>2. \A q \in Requests :
         q # r => timeToAct'[q] = timeToAct[q] /\ pc'[q] = pc[q] /\ mine'[q] = mine[q]
  BY DEF Pass, LimiterTypes
<1>3. Holders(b)' = Holders(b) \ {r}
  BY <1>1, <1>2 DEF Holders, Reserving
<1>4. \A q \in Holders(b)' : timeToAct'[q] = timeToAct[q] /\ (Waits(q)' <=> Waits(q))
  BY <1>1, <1>2, <1>3 DEF Holders, Waits
<1>5. CASE mine[r] # b
  <2>1. r \notin Holders(b) /\ admitted'[b] = admitted[b]
    BY <1>5 DEF Holders, Pass, LimiterTypes
  <2>2. QED
    BY <1>1, <1>3, <1>4, <2>1, UntouchedSound
<1>6. CASE mine[r] = b
  <2>1. r \in Holders(b) /\ admitted'[b] = admitted[b] + 1
    BY <1>1, <1>6 DEF Holders, Reserving, Pass, LimiterTypes
  <2>2. Unused(b)'
    BY <1>1, <1>6, Numbers DEF Unused, LimiterTypes
  <2>3. Owed(b)'
    BY <1>1, <1>3, <1>4 DEF Sound, Owed
  <2>4. Paid(b)'
    <3>1. ASSUME NEW t \in Nat, t >= now
          PROVE  admitted'[b] + Cardinality(Due(b, t)') = admitted[b] + Cardinality(Due(b, t))
      <4>1. Due(b, t)' = Due(b, t) \ {r} /\ r \in Due(b, t)
        BY <1>1, <1>3, <1>4, <2>1, <3>1, Numbers DEF Due
      <4>2. Cardinality(Due(b, t)') = Cardinality(Due(b, t)) - 1
        BY <4>1, DueCount, FS_RemoveElement
      <4>3. QED
        BY <2>1, <4>2, DueCount, Numbers
    <3>2. QED
      BY <1>1, <3>1 DEF Sound, Paid
  <2>5. OneDebt(b)'
    <3>1. SUFFICES ASSUME ~overlapped[b]
                   PROVE  OneDebt(b)'
      BY <1>1 DEF OneDebt
    <3>2. Holders(b) = {r} /\ Holders(b)' = {}
      BY <1>3, <2>1, <3>1 DEF Sound, OneDebt
    <3>3. bucket[b].tokens >= 0 \/ (bucket[b].tokens = -1 /\ timeToAct[r] = bucket[b].last + 1)
      BY <2>1, <3>1 DEF Sound, OneDebt
    <3>4. bucket[b].tokens + (now - bucket[b].last) >= 0
      BY <1>1, <3>3, Numbers DEF Sound
    <3>5. QED
      BY <1>1, <3>2, <3>4 DEF OneDebt
  <2>6. QED
    BY <1>1, <2>2, <2>3, <2>4, <2>5 DEF Sound
<1>7. QED
  BY <1>5, <1>6

LEMMA DelayedSound ==
  ASSUME LimiterInv, NEW r \in Requests, Delayed(r), NEW b \in Buckets
  PROVE  Sound(b)'
<1>1. Holders(b)' = Holders(b)
  BY DEF Delayed, Holders, Reserving, LimiterInv, LimiterTypes
<1>2. \A q \in Holders(b) : timeToAct'[q] = timeToAct[q] /\ (Waits(q)' => Waits(q))
  BY DEF Delayed, Waits, Holders, LimiterInv, LimiterTypes
<1>3. QED
  BY <1>1, <1>2, UntouchedSound DEF Delayed

LEMMA CancelSound ==
  ASSUME LimiterInv, NEW r \in Requests, Cancel(r), NEW b \in Buckets
  PROVE  Sound(b)'
<1> USE DEF LimiterInv
<1> DEFINE act == timeToAct[r]
<1>1. /\ now' = now /\ admitted' = admitted /\ overlapped' = overlapped /\ made' = made
      /\ pc[r] = "cancel" /\ pc'[r] = "idle" /\ mine[r] # NoBucket /\ act \in Nat
  BY DEF Cancel, LimiterTypes
<1>2. \A q \in Requests :
         q # r => timeToAct'[q] = timeToAct[q] /\ pc'[q] = pc[q] /\ mine'[q] = mine[q]
  BY DEF Cancel, LimiterTypes
<1>3. Holders(b)' = Holders(b) \ {r}
  BY <1>1, <1>2 DEF Holders, Reserving
<1>4. \A q \in Holders(b)' : timeToAct'[q] = timeToAct[q] /\ (Waits(q)' <=> Waits(q))
  BY <1>1, <1>2, <1>3 DEF Holders, Waits
<1>5. CASE mine[r] # b
  <2>1. r \notin Holders(b) /\ bucket'[b] = bucket[b]
    BY <1>5 DEF Holders, Cancel, LimiterTypes
  <2>2. QED
    BY <1>1, <1>3, <1>4, <2>1, UntouchedSound
<1>6. CASE mine[r] = b
  <2>1. r \in Holders(b) /\ bucket'[b] = Restored(b, act)
    BY <1>1, <1>6 DEF Holders, Reserving, Cancel, LimiterTypes
  <2>2. Unused(b)'
    BY <1>1 DEF Sound, Unused
  <2>3. \A t \in Nat :
          /\ Cardinality(Due(b, t)') = IF act <= t THEN Cardinality(Due(b, t)) - 1
                                                   ELSE Cardinality(Due(b, t))
          /\ Cardinality(Due(b, t)') \in Nat /\ Cardinality(Due(b, t)) \in Nat
    <3>1. ASSUME NEW t \in Nat
          PROVE  /\ Due(b, t)' = Due(b, t) \ {r}
                 /\ r \in Due(b, t) <=> act <= t
      BY <1>3, <1>4, <2>1 DEF Due
    <3>2. ASSUME NEW t \in Nat
          PROVE  Cardinality(Due(b, t)') = IF act <= t THEN Cardinality(Due(b, t)) - 1
                                                       ELSE Cardinality(Due(b, t))
      BY <3>1, DueCount, FS_RemoveElement
    <3>3. ASSUME NEW t \in Nat
          PROVE  Cardinality(Due(b, t)') \in Nat
      BY <3>1, Countable DEF Due, Holders
    <3>4. QED
      BY <3>2, <3>3, DueCount
  <2>4. CASE act < now \/ act # bucket[b].lastEvent
    <3>1. bucket'[b] = bucket[b]
      BY <2>1, <2>4 DEF Restored
    <3>2. Owed(b)'
      BY <1>1, <1>3, <1>4, <3>1 DEF Sound, Owed
    <3>3. Paid(b)'
      <4>1. ASSUME NEW t \in Nat, t >= now
            PROVE  Cardinality(Due(b, t)') <= Cardinality(Due(b, t))
        BY <2>3
      <4>2. QED
        BY <1>1, <2>3, <3>1, <4>1, Numbers DEF Sound, Paid
    <3>4. OneDebt(b)'
      <4>1. SUFFICES ASSUME ~overlapped[b]
                     PROVE  OneDebt(b)'
        BY <1>1 DEF OneDebt
      <4>2. /\ Holders(b)' = {} /\ act = bucket[b].lastEvent
            /\ bucket[b].tokens >= 0 \/ (bucket[b].tokens = -1 /\ act = bucket[b].last + 1)
        BY <1>3, <2>1, <4>1 DEF Sound, OneDebt
      <4>3. bucket[b].tokens + (now - bucket[b].last) >= 0
        BY <2>4, <4>2, Numbers DEF Sound
      <4>4. QED
        BY <1>1, <3>1, <4>2, <4>3 DEF OneDebt
    <3>5. QED
      BY <1>1, <2>2, <3>1, <3>2, <3>3, <3>4 DEF Sound
  <2>5. CASE act >= now /\ act = bucket[b].lastEvent
    <3>1. Waits(r)
      BY <1>1, <2>5 DEF Waits
    <3>2. bucket[b].tokens + (act - bucket[b].last) <= 0
      BY <2>1, <3>1 DEF Sound, Owed
    <3>3. TokensNow(b) = bucket[b].tokens + (now - bucket[b].last)
      BY <2>5, <3>2, Numbers DEF TokensNow, AtMost
    <3>4. TokensNow(b) \in Int /\ TokensNow(b) <= 0
      BY <2>5, <3>2, <3>3, Numbers
    <3>5. AtMost(TokensNow(b) + 1, Burst) = TokensNow(b) + 1
      BY <3>4, Numbers DEF AtMost
    <3>6. /\ bucket'[b].tokens = TokensNow(b) + 1 /\ bucket'[b].last = now
          /\ bucket'[b].born = bucket[b].born
          /\ bucket'[b].lastEvent = IF act - 1 >= now THEN act - 1 ELSE bucket[b].lastEvent
      BY <1>1, <2>1, <2>5, <3>5, Numbers DEF Restored, LimiterTypes, Bucket
    <3>7. Owed(b)'
      <4>1. ASSUME NEW q \in Holders(b)', Waits(q)'
            PROVE  timeToAct[q] \in Nat /\ timeToAct[q] >= now /\ timeToAct[q] <= act - 1
        <5>1. q \in Holders(b) /\ Waits(q) /\ q # r /\ timeToAct[q] \in Nat
          BY <1>3, <1>4, <4>1, Numbers DEF Holders
        <5>2. timeToAct[q] <= bucket[b].lastEvent /\ timeToAct[q] # act
          BY <2>1, <3>1, <5>1 DEF Sound, Owed
        <5>3. QED
          BY <1>1, <2>5, <5>1, <5>2 DEF Waits
      <4>2. ASSUME NEW q \in Holders(b)', Waits(q)'
            PROVE  /\ bucket'[b].tokens + (timeToAct'[q] - bucket'[b].last) <= 0
                   /\ timeToAct'[q] <= bucket'[b].lastEvent
        BY <1>1, <1>4, <2>5, <3>2, <3>3, <3>6, <4>1, <4>2, Numbers
      <4>3. ASSUME NEW p \in Holders(b)', NEW q \in Holders(b)', p # q, Waits(p)', Waits(q)'
            PROVE  timeToAct'[p] # timeToAct'[q]
        BY <1>3, <1>4, <4>3 DEF Sound, Owed
      <4>4. QED
        BY <4>2, <4>3 DEF Owed
    <3>8. Paid(b)'
      <4>1. ASSUME NEW t \in Nat, t >= now
            PROVE  /\ admitted[b] + Cardinality(Due(b, t)') <= Burst + (t - bucket[b].born)
                   /\ admitted[b] + Cardinality(Due(b, t)') + bucket'[b].tokens
                        <= Burst + (now - bucket[b].born)
        <5>1. /\ admitted[b] + Cardinality(Due(b, t)) <= Burst + (t - bucket[b].born)
              /\ admitted[b] + Cardinality(Due(b, t)) + bucket[b].tokens
                   <= Burst + (bucket[b].last - bucket[b].born)
          BY <4>1 DEF Sound, Paid
        <5>2. CASE act <= t
          BY <2>3, <3>3, <3>6, <5>1, <5>2, Numbers
        <5>3. CASE ~(act <= t)
          BY <1>1, <2>3, <3>2, <3>3, <3>6, <5>1, <5>3, Numbers
        <5>4. QED
          BY <5>2, <5>3
      <4>2. QED
        BY <1>1, <3>6, <4>1 DEF Paid
    <3>9. OneDebt(b)'
      <4>1. SUFFICES ASSUME ~overlapped[b]
                     PROVE  OneDebt(b)'
        BY <1>1 DEF OneDebt
      <4>2. /\ Holders(b)' = {}
            /\ bucket[b].tokens >= 0 \/ (bucket[b].tokens = -1 /\ act = bucket[b].last + 1)
        BY <1>3, <2>1, <4>1 DEF Sound, OneDebt
      <4>3. bucket'[b].tokens >= 0
        BY <3>3, <3>6, <4>2, Numbers DEF Sound
      <4>4. bucket'[b].tokens + (now - bucket'[b].last) >= 0
        BY <3>4, <3>6, <4>3, Numbers
      <4>5. QED
        BY <1>1, <4>2, <4>4 DEF OneDebt
    <3>10. QED
      BY <1>1, <2>2, <3>6, <3>7, <3>8, <3>9, Numbers DEF Sound
  <2>6. QED
    BY <1>1, <2>4, <2>5, Numbers
<1>7. QED
  BY <1>5, <1>6

LEMMA TickSound ==
  ASSUME LimiterInv, Tick, NEW b \in Buckets
  PROVE  Sound(b)'
<1> USE DEF LimiterInv
<1>1. /\ now' = now + 1 /\ now \in Nat /\ bucket' = bucket /\ made' = made /\ pc' = pc
      /\ mine' = mine /\ timeToAct' = timeToAct /\ admitted' = admitted
      /\ overlapped' = overlapped
  BY Numbers DEF Tick
<1>2. Holders(b)' = Holders(b)
  BY <1>1 DEF Holders, Reserving
<1>3. \A q \in Holders(b) : Waits(q)' => Waits(q)
  BY <1>1, Numbers DEF Waits, Holders
<1>4. \A t : Due(b, t)' = Due(b, t)
  BY <1>1, <1>2 DEF Due
<1>5. Owed(b)' /\ Unused(b)'
  BY <1>1, <1>2, <1>3 DEF Sound, Owed, Unused
<1>6. Paid(b)'
  <2>1. \A t \in Nat : t >= now + 1 => t >= now
    BY <1>1
  <2>2. QED
    BY <1>1, <1>4, <2>1 DEF Sound, Paid
<1>7. OneDebt(b)'
  BY <1>1, <1>2, Numbers DEF Sound, OneDebt
<1>8. QED
  BY <1>1, <1>5, <1>6, <1>7, Numbers DEF Sound

-----------------------------------------------------------------------------
(* The theorems *)

LEMMA InitLimiterTypes == LimiterInit => LimiterTypes
BY BurstAssumption, BoundsAssumption
DEF LimiterInit, LimiterTypes, Bucket, Fresh, Times, NoBucket

\* Nobody holds a token of a bucket that is as good as new.
LEMMA FreshSound ==
  ASSUME Burst \in Nat, now \in Nat, NEW b \in Buckets, bucket[b] = Fresh, admitted[b] = 0,
         \A r \in Requests : pc[r] = "idle"
  PROVE  Sound(b)
<1>1. Holders(b) = {} /\ \A t : Due(b, t) = {}
  BY DEF Holders, Reserving, Due
<1>2. bucket[b].tokens = Burst /\ bucket[b].last = 0 /\ bucket[b].born = 0
  BY DEF Fresh
<1>3. Paid(b)
  <2>1. Cardinality({}) = 0
    BY FS_EmptySet
  <2>2. QED
    BY <1>1, <1>2, <2>1 DEF Paid
<1>4. QED
  BY <1>1, <1>2, <1>3 DEF Sound, Unused, Owed, OneDebt

LEMMA InitLimiterInv == LimiterInit => LimiterInv
<1> SUFFICES ASSUME LimiterInit
             PROVE  LimiterInv
  OBVIOUS
<1>1. \A b \in Buckets : Sound(b)
  BY FreshSound, BurstAssumption DEF LimiterInit
<1>2. QED
  BY <1>1, InitLimiterTypes DEF LimiterInv

\* Every step of the limiter keeps the invariant ...
LEMMA LimiterStepInv ==
  ASSUME LimiterInv, NEW r \in Requests, LimiterStep(r)
  PROVE  LimiterInv'
<1>1. ASSUME NEW b \in Buckets
      PROVE  Sound(b)'
  <2>1. ASSUME NEW c \in Clients, Arrive(r, c)
        PROVE  Sound(b)'
    BY <2>1, ArriveSound
  <2>2. CASE Reserve(r)
    BY <2>2, ReserveSound
  <2>3. CASE Pass(r)
    BY <2>3, PassSound
  <2>4. CASE Delayed(r)
    BY <2>4, DelayedSound
  <2>5. CASE Cancel(r)
    BY <2>5, CancelSound
  <2>6. QED
    BY <2>1, <2>2, <2>3, <2>4, <2>5 DEF LimiterStep
<1>2. LimiterTypes'
  BY LimiterStepTypes DEF LimiterInv
<1>3. QED
  BY <1>1, <1>2 DEF LimiterInv

\* ... and so do the clock, the cleanup and the end of a request.
LEMMA TickInv ==
  ASSUME LimiterInv, Tick
  PROVE  LimiterInv'
<1>1. LimiterTypes'
  BY BoundsAssumption DEF LimiterInv, Tick, LimiterTypes, Times
<1>2. QED
  BY <1>1, TickSound DEF LimiterInv

LEMMA CleanupInv ==
  ASSUME LimiterInv, Cleanup
  PROVE  LimiterInv'
<1>1. LimiterTypes'
  BY BoundsAssumption DEF LimiterInv, Cleanup, LimiterTypes, NoBucket
<1>2. ASSUME NEW b \in Buckets
      PROVE  Sound(b)'
  BY UntouchedSound DEF Cleanup, Holders, Reserving, Waits
<1>3. QED
  BY <1>1, <1>2 DEF LimiterInv

LEMMA LeaveInv ==
  ASSUME LimiterInv, NEW r \in Requests, Leave(r)
  PROVE  LimiterInv'
<1>1. LimiterTypes'
  BY DEF LimiterInv, Leave, LimiterTypes
<1>2. ASSUME NEW b \in Buckets
      PROVE  Sound(b)'
  <2>1. Holders(b)' = Holders(b)
    BY DEF Leave, Holders, Reserving, LimiterInv, LimiterTypes
  <2>2. \A q \in Holders(b) : pc'[q] = pc[q]
    BY DEF Leave, Holders, Reserving, LimiterInv, LimiterTypes
  <2>3. \A q \in Holders(b) : Waits(q)' => Waits(q)
    BY <2>2 DEF Leave, Waits
  <2>4. QED
    BY <2>1, <2>3, UntouchedSound DEF Leave
<1>3. QED
  BY <1>1, <1>2 DEF LimiterInv

LEMMA UnchangedInv ==
  ASSUME LimiterInv, UNCHANGED limiterVars
  PROVE  LimiterInv'
<1>1. LimiterTypes'
  BY DEF LimiterInv, LimiterTypes, limiterVars
<1>2. ASSUME NEW b \in Buckets
      PROVE  Sound(b)'
  BY UntouchedSound DEF limiterVars, Holders, Reserving, Waits
<1>3. QED
  BY <1>1, <1>2 DEF LimiterInv

\* What the invariant means for a bucket.
LEMMA SoundIsFair ==
  LimiterInv => LimiterTypeOK /\ AdmittedWithinRate /\ RefusalLeavesNoDebt
<1> SUFFICES ASSUME LimiterInv
             PROVE  LimiterTypeOK /\ AdmittedWithinRate /\ RefusalLeavesNoDebt
  OBVIOUS
<1>1. LimiterTypeOK
  BY DEF LimiterInv, LimiterTypes, LimiterTypeOK, Bucket
<1>2. ASSUME NEW b \in Buckets
      PROVE  admitted[b] <= Burst + (now - bucket[b].born)
  <2>1. admitted[b] + Cardinality(Due(b, now)) <= Burst + (now - bucket[b].born)
    BY Numbers DEF LimiterInv, Sound, Paid
  <2>2. QED
    BY <2>1, DueCount, Numbers DEF LimiterInv
<1>3. ASSUME NEW b \in Buckets, ~overlapped[b],
             \A r \in Requests : Reserving(r) => mine[r] # b
      PROVE  TokensNow(b) >= 0
  <2>1. Holders(b) = {}
    BY <1>3 DEF Holders
  <2>2. bucket[b].tokens + (now - bucket[b].last) >= 0
    BY <1>3, <2>1 DEF LimiterInv, Sound, OneDebt
  <2>3. QED
    BY <2>2, Numbers DEF LimiterInv, TokensNow, AtMost
<1>4. QED
  BY <1>1, <1>2, <1>3 DEF AdmittedWithinRate, RefusalLeavesNoDebt

\* The invariant holds throughout, whatever surrounds the limiter.
THEOREM LimiterInvariant == LimiterSpec => []LimiterInv
<1>1. LimiterInv /\ [LimiterNext]_limiterVars => LimiterInv'
  BY LimiterStepInv, LeaveInv, CleanupInv, TickInv, UnchangedInv DEF LimiterNext
<1>2. QED
  BY <1>1, InitLimiterInv, PTL DEF LimiterSpec

\* A bucket lets no more requests pass than its burst and what has come since it
\* was made (middleware.go:109-130).
THEOREM LimitIsKept == LimiterSpec => []AdmittedWithinRate
<1>1. QED
  BY LimiterInvariant, SoundIsFair, PTL

\* A refused request leaves no debt to a client whose requests do not overlap
\* (middleware.go:118-119).
THEOREM RefusalsLeaveNoDebt == LimiterSpec => []RefusalLeavesNoDebt
<1>1. QED
  BY LimiterInvariant, SoundIsFair, PTL
=============================================================================
