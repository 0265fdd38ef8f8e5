------------------------------ MODULE RateLimiter ------------------------------
(***************************************************************************)
(* The per-client rate limiter of go/internal/httpx/middleware.go: a map   *)
(* from client address to token bucket, guarded by a mutex, emptied by a   *)
(* ticker.  The middleware takes the client's bucket, reserves a token,    *)
(* and if the token is not there yet cancels the reservation and answers   *)
(* 429.  The steps of two requests of one client interleave, with time     *)
(* passing and the map being emptied in between.                           *)
(*                                                                         *)
(* The bucket is golang.org/x/time/rate, an external library.  Time is     *)
(* counted in the time one token takes to come (1/rate), tokens are whole. *)
(* The routes behind the limiter are those of /api/orders (main.go:68-69), *)
(* so its exemption of /actuator/ is never taken; nor is the branch for a  *)
(* reservation that is not OK, which takes a burst of 0.                   *)
(***************************************************************************)
EXTENDS Integers, FiniteSets

CONSTANTS Clients,    \* the client addresses
          Requests,   \* the requests that may be in progress at once
          Burst,      \* the size of a bucket
          MaxBuckets, \* how many buckets are ever made (a bound)
          MaxTime,    \* when time stops (a bound)
          MaxDebt     \* how many tokens a bucket may owe (a bound)

ASSUME BurstAssumption == Burst \in Nat \ {0}
ASSUME RequestsAssumption == IsFiniteSet(Requests)
ASSUME BoundsAssumption == MaxBuckets \in Nat /\ MaxTime \in Nat /\ MaxDebt \in Nat

Buckets == 1..MaxBuckets
NoBucket == 0
Times == 0..MaxTime

VARIABLES
  now,         \* the clock
  visitors,    \* visitors[c]: the bucket of client c, NoBucket if c has none
  bucket,      \* bucket[b]: tokens, when they were counted, the last reserved time
  made,        \* how many buckets have been made
  pc,          \* pc[r]: where request r is in the middleware
  mine,        \* mine[r]: the bucket that limiterFor has returned to r
  timeToAct,   \* timeToAct[r]: when the token that r has reserved comes
  admitted,    \* history: admitted[b] requests have passed by bucket b
  overlapped   \* history: two requests have held reservations of b at once

limiterVars == <<now, visitors, bucket, made, pc, mine, timeToAct, admitted, overlapped>>

Fresh == [tokens |-> Burst, last |-> 0, lastEvent |-> 0, born |-> 0]

\* r has reserved a token and not yet used it or given it back.
Reserving(r) == pc[r] \in {"check", "cancel"}

\* Types; and a request in the middleware holds a bucket that was made.
LimiterTypeOK ==
  /\ now \in Times
  /\ visitors \in [Clients -> 0..made]
  /\ \A b \in Buckets :
       /\ bucket[b].tokens \in Int /\ bucket[b].tokens <= Burst
       /\ bucket[b].last \in Times /\ bucket[b].born \in Times
       /\ bucket[b].lastEvent \in Nat
  /\ made \in 0..MaxBuckets
  /\ pc \in [Requests -> {"idle", "reserve", "check", "cancel", "admitted"}]
  /\ mine \in [Requests -> 0..made]
  /\ timeToAct \in [Requests -> Nat]
  /\ admitted \in [Buckets -> Nat]
  /\ overlapped \in [Buckets -> BOOLEAN]
  /\ \A r \in Requests : pc[r] \in {"reserve", "check", "cancel"} => mine[r] # NoBucket

LimiterInit ==
  /\ now = 0
  /\ visitors = [c \in Clients |-> NoBucket]
  /\ bucket = [b \in Buckets |-> Fresh]
  /\ made = 0
  /\ pc = [r \in Requests |-> "idle"]
  /\ mine = [r \in Requests |-> NoBucket]
  /\ timeToAct = [r \in Requests |-> 0]
  /\ admitted = [b \in Buckets |-> 0]
  /\ overlapped = [b \in Buckets |-> FALSE]

-----------------------------------------------------------------------------
(* The token bucket *)

AtMost(n, bound) == IF n > bound THEN bound ELSE n

\* The tokens of b at this time.
TokensNow(b) == AtMost(bucket[b].tokens + (now - bucket[b].last), Burst)

\* One token is taken, if need be from the future; it comes at the new lastEvent.
Reserved(b) ==
  LET left == TokensNow(b) - 1
  IN [bucket[b] EXCEPT !.tokens = left, !.last = now,
                       !.lastEvent = IF left < 0 THEN now - left ELSE now]

\* Cancel gives back a token that has not come, unless one was reserved after it.
Restored(b, act) ==
  LET isLast == act = bucket[b].lastEvent
  IN IF act < now \/ ~isLast
     THEN bucket[b]
     ELSE [bucket[b] EXCEPT
             !.tokens = AtMost(TokensNow(b) + 1, Burst), !.last = now,
             !.lastEvent = IF act - 1 >= now THEN act - 1 ELSE @]

-----------------------------------------------------------------------------
(* The middleware *)

\* limiterFor: the client's bucket, made if there is none, under the mutex.
TakeBucket(c) ==
  IF visitors[c] # NoBucket
  THEN UNCHANGED <<visitors, bucket, made>>
  ELSE /\ made < MaxBuckets
       /\ made' = made + 1
       /\ visitors' = [visitors EXCEPT ![c] = made + 1]
       /\ bucket' = [bucket EXCEPT ![made + 1] = [Fresh EXCEPT !.last = now, !.born = now]]

Arrive(r, c) ==
  /\ pc[r] = "idle"
  /\ TakeBucket(c)
  /\ mine' = [mine EXCEPT ![r] = visitors'[c]]
  /\ pc' = [pc EXCEPT ![r] = "reserve"]
  /\ UNCHANGED <<now, timeToAct, admitted, overlapped>>

\* limiter.Reserve().  Only the model bounds the debt: in the code requests that
\* overlap can lose one token after the other (see RefusalLeavesNoDebt).
Reserve(r) ==
  LET b == mine[r]
  IN /\ pc[r] = "reserve"
     /\ Reserved(b).tokens >= -MaxDebt
     /\ bucket' = [bucket EXCEPT ![b] = Reserved(b)]
     /\ timeToAct' = [timeToAct EXCEPT ![r] = Reserved(b).lastEvent]
     /\ overlapped' = [overlapped EXCEPT
          ![b] = @ \/ \E q \in Requests : Reserving(q) /\ mine[q] = b]
     /\ pc' = [pc EXCEPT ![r] = "check"]
     /\ UNCHANGED <<now, visitors, made, mine, admitted>>

\* Mutant: a delay of one token is let pass.
Pass_ShortDelay(r) ==
  /\ pc[r] = "check"
  /\ timeToAct[r] <= now + 1
  /\ pc' = [pc EXCEPT ![r] = "admitted"]
  /\ admitted' = [admitted EXCEPT ![mine[r]] = @ + 1]
  /\ mine' = [mine EXCEPT ![r] = NoBucket]
  /\ timeToAct' = [timeToAct EXCEPT ![r] = 0]
  /\ UNCHANGED <<now, visitors, bucket, made, overlapped>>

\* reservation.Delay() is 0, perhaps only because r was slow to ask: c.Next().
Pass(r) ==
  /\ pc[r] = "check"
  /\ timeToAct[r] <= now
  /\ pc' = [pc EXCEPT ![r] = "admitted"]
  /\ admitted' = [admitted EXCEPT ![mine[r]] = @ + 1]
  /\ mine' = [mine EXCEPT ![r] = NoBucket]
  /\ timeToAct' = [timeToAct EXCEPT ![r] = 0]
  /\ UNCHANGED <<now, visitors, bucket, made, overlapped>>

\* The delay is positive ...
Delayed(r) ==
  /\ pc[r] = "check"
  /\ timeToAct[r] > now
  /\ pc' = [pc EXCEPT ![r] = "cancel"]
  /\ UNCHANGED <<now, visitors, bucket, made, mine, timeToAct, admitted, overlapped>>

\* Mutant: the reservation is not given back.
Cancel_Forgotten(r) ==
  /\ pc[r] = "cancel"
  /\ pc' = [pc EXCEPT ![r] = "idle"]
  /\ mine' = [mine EXCEPT ![r] = NoBucket]
  /\ timeToAct' = [timeToAct EXCEPT ![r] = 0]
  /\ UNCHANGED <<now, visitors, bucket, made, admitted, overlapped>>

\* ... and reservation.Cancel() follows and ends the request with a 429.
Cancel(r) ==
  /\ pc[r] = "cancel"
  /\ bucket' = [bucket EXCEPT ![mine[r]] = Restored(mine[r], timeToAct[r])]
  /\ pc' = [pc EXCEPT ![r] = "idle"]
  /\ mine' = [mine EXCEPT ![r] = NoBucket]
  /\ timeToAct' = [timeToAct EXCEPT ![r] = 0]
  /\ UNCHANGED <<now, visitors, made, admitted, overlapped>>

\* A request that has passed is answered.
Leave(r) ==
  /\ pc[r] = "admitted"
  /\ pc' = [pc EXCEPT ![r] = "idle"]
  /\ UNCHANGED <<now, visitors, bucket, made, mine, timeToAct, admitted, overlapped>>

\* cleanupLoop forgets every client, whatever its bucket holds.
Cleanup ==
  /\ \E c \in Clients : visitors[c] # NoBucket
  /\ visitors' = [c \in Clients |-> NoBucket]
  /\ UNCHANGED <<now, bucket, made, pc, mine, timeToAct, admitted, overlapped>>

Tick ==
  /\ now < MaxTime
  /\ now' = now + 1
  /\ UNCHANGED <<visitors, bucket, made, pc, mine, timeToAct, admitted, overlapped>>

LimiterStep(r) ==
  \/ \E c \in Clients : Arrive(r, c)
  \/ Reserve(r) \/ Pass(r) \/ Delayed(r) \/ Cancel(r)

LimiterNext ==
  \/ \E r \in Requests : LimiterStep(r) \/ Leave(r)
  \/ Cleanup
  \/ Tick

LimiterSpec == LimiterInit /\ [][LimiterNext]_limiterVars
-----------------------------------------------------------------------------
(* Properties *)

\* A bucket lets no more requests pass than its burst and what has come since it
\* was made, however reservations and cancellations interleave and however long
\* requests dawdle between them (middleware.go:109-130).
AdmittedWithinRate ==
  \A b \in Buckets : admitted[b] <= Burst + (now - bucket[b].born)

\* A refused request leaves its client no debt, as long as requests of the client
\* do not overlap: between requests the bucket holds no less than nothing, so that
\* the next token to come lets a request pass (middleware.go:118-119).  It may
\* cost a token: one that comes between Delay and Cancel is not given back.  When
\* requests overlap, a token is lost each time that the earlier reservation is
\* cancelled first.
RefusalLeavesNoDebt ==
  \A b \in Buckets :
    ~overlapped[b] /\ (\A r \in Requests : Reserving(r) => mine[r] # b)
      => TokensNow(b) >= 0
=============================================================================
