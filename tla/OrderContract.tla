---------------------------- MODULE OrderContract ----------------------------
(***************************************************************************)
(* What the order service promises about every order, whatever its         *)
(* requests, database and broker do: an order is placed once, as PENDING;  *)
(* it changes status along CanTransitionTo; and an event announces a       *)
(* status that the order really has, or had.                               *)
(*                                                                         *)
(* Serial says how strong the promise is.  TRUE is the state machine of    *)
(* the documentation: a new status follows from the CURRENT one, and an    *)
(* event announces the current one, so that the events of an order come in *)
(* the order of its changes.  FALSE is what the code keeps when requests   *)
(* race: UpdateOrderStatus checks the transition against the row it READ   *)
(* and publishes after its commit, so the new status follows from one that *)
(* the order has held at some time, and so does the event.                 *)
(***************************************************************************)
EXTENDS OrderStatus

CONSTANTS Orders,    \* order identifiers
          Serial     \* a Boolean: is a step judged by the current status?

VARIABLES status,     \* status[o]: the stored status, NoStatus before the order exists
          held,       \* held[o]: every status that the order has held
          announced   \* announced[o]: the statuses that an event has announced

vars == <<status, held, announced>>

NoStatus == "NONE"

TypeOK ==
  /\ status \in [Orders -> Statuses \cup {NoStatus}]
  /\ held \in [Orders -> SUBSET Statuses]
  /\ announced \in [Orders -> SUBSET Statuses]

Init ==
  /\ status = [o \in Orders |-> NoStatus]
  /\ held = [o \in Orders |-> {}]
  /\ announced = [o \in Orders |-> {}]

SetStatus(o, s) ==
  /\ status' = [status EXCEPT ![o] = s]
  /\ held' = [held EXCEPT ![o] = @ \cup {s}]
  /\ UNCHANGED announced

Place(o) ==
  /\ status[o] = NoStatus
  /\ SetStatus(o, "PENDING")

\* The statuses that a step of o may be based on.
Bases(o) == IF Serial THEN {status[o]} ELSE held[o]

Advance(o, s) ==
  /\ status[o] # NoStatus
  /\ \E from \in Bases(o) : CanTransitionTo(from, s)
  /\ SetStatus(o, s)

Announce(o, s) ==
  /\ s \in Bases(o)
  /\ announced' = [announced EXCEPT ![o] = @ \cup {s}]
  /\ UNCHANGED <<status, held>>

Next ==
  \E o \in Orders :
    \/ Place(o)
    \/ \E s \in Statuses : Advance(o, s) \/ Announce(o, s)

Spec == Init /\ [][Next]_vars
=============================================================================
