------------------------------- MODULE JwksCache -------------------------------
(***************************************************************************)
(* The request chain in front of the order API (go/cmd/server/main.go:      *)
(* 68-70): the rate limiter, then the authentication of go/internal/httpx/ *)
(* auth.go with the key cache of go/internal/auth/jwt.go.                  *)
(*                                                                         *)
(* A request brings a token signed with one of the issuer's keys.  The     *)
(* validator looks the key up, and when it does not know it fetches the    *)
(* issuer's current key set, adds it to the cache and looks again.  No     *)
(* lock is held from one of these steps to the next, so fetches overlap    *)
(* and their answers are applied in any order, while the issuer rotates    *)
(* its keys.  Only the end of the process, and with it of every request    *)
(* and bucket, empties the cache.                                          *)
(*                                                                         *)
(* The issuer is external.  A key is its id; what else may be wrong with a *)
(* token (no header, expired, another issuer or audience, no subject) is   *)
(* one refusal that changes nothing.                                       *)
(***************************************************************************)
EXTENDS RateLimiter

CONSTANTS Keys,    \* the keys the issuer may ever use
          NoKey    \* no key

ASSUME NoKeyAssumption == NoKey \notin Keys

VARIABLES
  keys,       \* v.keys: the cached keys
  issued,     \* the keys that the issuer publishes now
  stage,      \* stage[r]: where r is in AuthMiddleware
  kid,        \* kid[r]: the key of r's token
  answer,     \* answer[r]: the key set that r's fetch has returned
  steady,     \* history: the keys published all the time since r asked for its key
  withdrawn,  \* history: the keys the issuer has withdrawn (it never takes them back)
  seen        \* history: the keys that were published since the process started

authVars == <<keys, issued, stage, kid, answer, steady, withdrawn, seen>>

chainVars == <<now, visitors, bucket, made, pc, mine, timeToAct, admitted, overlapped,
               keys, issued, stage, kid, answer, steady, withdrawn, seen>>

Stages == {"none", "fetch", "merge", "again", "accepted", "unknown_key", "rejected"}

Over(r) == stage[r] \in {"accepted", "unknown_key", "rejected"}

\* Types; and only requests that the limiter has admitted are authenticated.
ChainTypeOK ==
  /\ LimiterTypeOK
  /\ keys \subseteq Keys
  /\ issued \subseteq Keys
  /\ stage \in [Requests -> Stages]
  /\ kid \in [Requests -> Keys \cup {NoKey}]
  /\ answer \in [Requests -> SUBSET Keys]
  /\ steady \in [Requests -> SUBSET Keys]
  /\ withdrawn \subseteq Keys \ issued
  /\ seen \subseteq Keys /\ issued \subseteq seen
  /\ \A r \in Requests : stage[r] # "none" => pc[r] = "admitted"

ChainInit ==
  /\ LimiterInit
  /\ keys = {}
  /\ \E k \in Keys : issued = {k}
  /\ stage = [r \in Requests |-> "none"]
  /\ kid = [r \in Requests |-> NoKey]
  /\ answer = [r \in Requests |-> {}]
  /\ steady = [r \in Requests |-> {}]
  /\ withdrawn = {}
  /\ seen = issued

-----------------------------------------------------------------------------
(* AuthMiddleware and getPublicKey *)

Enter(r, label) == stage' = [stage EXCEPT ![r] = label]

\* Mutant: authentication comes before the limiter.
AtAuth_First(r) == pc[r] \in {"reserve", "admitted"} /\ stage[r] = "none"

AtAuth(r) == pc[r] = "admitted" /\ stage[r] = "none"

\* The header, or the token but for its key, is refused.
RefuseToken(r) ==
  /\ AtAuth(r)
  /\ Enter(r, "rejected")
  /\ UNCHANGED <<keys, issued, kid, answer, steady, withdrawn, seen>>

\* getPublicKey finds the key in the cache, or it does not.
LookUp(r, k) ==
  /\ AtAuth(r)
  /\ kid' = [kid EXCEPT ![r] = k]
  /\ steady' = [steady EXCEPT ![r] = issued]
  /\ Enter(r, IF k \in keys THEN "accepted" ELSE "fetch")
  /\ UNCHANGED <<keys, issued, answer, withdrawn, seen>>

\* fetchJWKS: the issuer answers with the keys it has then.
Fetch(r) ==
  /\ stage[r] = "fetch"
  /\ answer' = [answer EXCEPT ![r] = issued]
  /\ Enter(r, "merge")
  /\ UNCHANGED <<keys, issued, kid, steady, withdrawn, seen>>

\* The issuer does not answer in 10 seconds, or with something else: 401.
FetchFails(r) ==
  /\ stage[r] = "fetch"
  /\ Enter(r, "rejected")
  /\ UNCHANGED <<keys, issued, kid, answer, steady, withdrawn, seen>>

\* Mutant: the cache is replaced by the answer.
Merged_Replaced(old, fetched) == fetched

\* The answer's keys are added, none is ever removed.
Merged(old, fetched) == old \cup fetched

Merge(r) ==
  /\ stage[r] = "merge"
  /\ keys' = Merged(keys, answer[r])
  /\ answer' = [answer EXCEPT ![r] = {}]
  /\ Enter(r, "again")
  /\ UNCHANGED <<issued, kid, steady, withdrawn, seen>>

\* Mutant: once the fetch has succeeded the key is taken for known.
LookAgain_Trusts(r) ==
  /\ stage[r] = "again"
  /\ Enter(r, "accepted")
  /\ UNCHANGED <<keys, issued, kid, answer, steady, withdrawn, seen>>

\* The second look into the cache decides.
LookAgain(r) ==
  /\ stage[r] = "again"
  /\ Enter(r, IF kid[r] \in keys THEN "accepted" ELSE "unknown_key")
  /\ UNCHANGED <<keys, issued, kid, answer, steady, withdrawn, seen>>

\* The request leaves the chain: to its handler, or with a 401.
Depart(r) ==
  /\ Over(r)
  /\ Leave(r)
  /\ Enter(r, "none")
  /\ kid' = [kid EXCEPT ![r] = NoKey]
  /\ steady' = [steady EXCEPT ![r] = {}]
  /\ UNCHANGED <<keys, issued, answer, withdrawn, seen>>

\* The issuer adds a key ...
Introduce(k) ==
  /\ k \notin issued \cup withdrawn
  /\ issued' = issued \cup {k}
  /\ seen' = seen \cup {k}
  /\ UNCHANGED limiterVars
  /\ UNCHANGED <<keys, stage, kid, answer, steady, withdrawn>>

\* ... or withdraws one for good.
Withdraw(k) ==
  /\ k \in issued
  /\ issued' = issued \ {k}
  /\ withdrawn' = withdrawn \cup {k}
  /\ steady' = [r \in Requests |-> steady[r] \ {k}]
  /\ UNCHANGED limiterVars
  /\ UNCHANGED <<keys, stage, kid, answer, seen>>

\* The process ends, with every request in it, and another one starts.
Restart ==
  /\ made > 0
  /\ visitors' = [c \in Clients |-> NoBucket]
  /\ pc' = [r \in Requests |-> "idle"]
  /\ mine' = [r \in Requests |-> NoBucket]
  /\ timeToAct' = [r \in Requests |-> 0]
  /\ keys' = {}
  /\ stage' = [r \in Requests |-> "none"]
  /\ kid' = [r \in Requests |-> NoKey]
  /\ answer' = [r \in Requests |-> {}]
  /\ steady' = [r \in Requests |-> {}]
  /\ seen' = issued
  /\ bucket' = [b \in Buckets |-> Fresh]
  /\ admitted' = [b \in Buckets |-> 0]
  /\ overlapped' = [b \in Buckets |-> FALSE]
  /\ UNCHANGED <<now, made, issued, withdrawn>>

AuthStep(r) ==
  \/ RefuseToken(r) \/ Fetch(r) \/ FetchFails(r) \/ Merge(r) \/ LookAgain(r)
  \/ \E k \in Keys : LookUp(r, k)

ChainNext ==
  \/ \E r \in Requests :
       \/ AuthStep(r) /\ UNCHANGED limiterVars
       \/ LimiterStep(r) /\ UNCHANGED authVars
       \/ Depart(r)
  \/ Cleanup /\ UNCHANGED authVars
  \/ Tick /\ UNCHANGED authVars
  \/ Restart
  \/ \E k \in Keys : Introduce(k) \/ Withdraw(k)

ChainSpec == ChainInit /\ [][ChainNext]_chainVars
-----------------------------------------------------------------------------
(* Properties *)

\* A token is not refused for an unknown key that the issuer published all the
\* time the key was being looked for, whichever fetches overlapped and in
\* whatever order their answers were applied (jwt.go:204-228, 270-286).
RejectedWasUnknown ==
  \A r \in Requests : stage[r] = "unknown_key" => kid[r] \notin steady[r]

\* A withdrawn key is trusted, for want of a removal, only by a process that
\* was running when it was still published (jwt.go:68, 204-228, 284).
TrustEndsWithProcess ==
  \A r \in Requests : stage[r] = "accepted" => kid[r] \in seen
=============================================================================
