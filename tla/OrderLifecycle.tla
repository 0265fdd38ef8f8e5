---------------------------- MODULE OrderLifecycle ----------------------------
(***************************************************************************)
(* The order service of go/internal/order: handler.go, service.go and      *)
(* store.go as one component.  The shared state is the orders table and    *)
(* the broker; every HTTP request in progress is one element of Requests,  *)
(* a goroutine that runs one service call from its first statement to the  *)
(* answer.                                                                 *)
(*                                                                         *)
(* A service call touches the shared state three times, and other requests *)
(* run in between: store.Get (a read outside any transaction), store.Create *)
(* or store.Update (one transaction that writes the WHOLE row it holds,    *)
(* with no check that the row is still the one it read), and               *)
(* publisher.Publish (after the commit, its error only logged).            *)
(*                                                                         *)
(* Of a row the model keeps the status and which of the four timestamps    *)
(* are set.  The other columns are written once, or with a timestamp       *)
(* (tracking number and carrier with shippedAt, the reason with            *)
(* cancelledAt).  Rows are never deleted, so the branch of Update for zero *)
(* affected rows (store.go:236) cannot be taken and has no action.         *)
(***************************************************************************)
EXTENDS OrderStatus, Naturals

CONSTANTS Orders,     \* the ids that uuid.New may return
          Requests,   \* the requests that may be in progress at once
          Faults,     \* may the database, the broker and the server fail?
          MaxCount    \* published[o][s] = MaxCount stands for "that many or more"

ASSUME FaultsAssumption == Faults \in BOOLEAN
ASSUME MaxCountAssumption == MaxCount \in Nat \ {0}

VARIABLES
  rows,        \* rows[o]: the stored row of o, NoRow before it is inserted
  pc,          \* pc[r]: where request r is in its service call
  call,        \* call[r]: what r asks for
  entity,      \* entity[r]: the *Order that r has edited and is about to write
  reply,       \* reply[r]: the answer r has computed
  committed,   \* history: committed[o] is every status ever committed for o
  published    \* published[o][s]: how many events announced that o became s

vars == <<rows, pc, call, entity, reply, committed, published>>

-----------------------------------------------------------------------------
(* Rows *)

Row == [status : Statuses,
        paidAt : BOOLEAN, shippedAt : BOOLEAN,
        completedAt : BOOLEAN, cancelledAt : BOOLEAN]

NoRow == [status |-> "NONE", paidAt |-> FALSE, shippedAt |-> FALSE,
          completedAt |-> FALSE, cancelledAt |-> FALSE]

\* Mutant: the status is left at its zero value.
NewOrder_NoStatus == [NoRow EXCEPT !.status = ""]

NewOrder == [NoRow EXCEPT !.status = "PENDING"]

\* UpdateOrderStatus assigns the status and, for three statuses, a timestamp.
Transitioned(row, s) ==
  [row EXCEPT !.status = s,
              !.paidAt = @ \/ s = "PAID",
              !.shippedAt = @ \/ s = "SHIPPED",
              !.completedAt = @ \/ s = "COMPLETED"]

\* CancelOrder assigns the status and cancelledAt.
Cancelled(row) == [row EXCEPT !.status = "CANCELLED", !.cancelledAt = TRUE]

-----------------------------------------------------------------------------
(* Service calls *)

Ops == {"create", "update", "cancel"}

Calls == [op : Ops, order : Orders, status : Statuses]

NoCall == [op |-> "none"]

CreateCall(o) == [op |-> "create", order |-> o, status |-> "PENDING"]

\* A status update may ask for any valid status, a cancellation for one.
EditCalls ==
  [op : {"update"}, order : Orders, status : Statuses] \cup
  [op : {"cancel"}, order : Orders, status : {"CANCELLED"}]

\* Mutant: CancelOrder no longer looks at the status.
Allowed_CancelAnything(c, row) ==
  IF c.op = "cancel" THEN TRUE ELSE CanTransitionTo(row.status, c.status)

\* CancelOrder refuses two statuses only: a CANCELLED order is cancelled again.
Allowed(c, row) ==
  IF c.op = "cancel" THEN row.status \notin {"SHIPPED", "COMPLETED"}
                     ELSE CanTransitionTo(row.status, c.status)

Edited(c, row) ==
  IF c.op = "cancel" THEN Cancelled(row) ELSE Transitioned(row, c.status)

\* Mutant: order.completed is forgotten.
Announces_NotCompleted(c) ==
  <<c.op, c.status>> \in { <<"create", "PENDING">>, <<"update", "PAID">>,
                           <<"update", "SHIPPED">>, <<"cancel", "CANCELLED">> }

\* The calls that publish: order.created, .paid, .shipped, .completed, .cancelled.
\* A status update to PROCESSING or to CANCELLED publishes nothing.
Announces(c) ==
  <<c.op, c.status>> \in { <<"create", "PENDING">>, <<"update", "PAID">>,
                           <<"update", "SHIPPED">>, <<"update", "COMPLETED">>,
                           <<"cancel", "CANCELLED">> }

-----------------------------------------------------------------------------
(* Types and the initial state *)

PCs == {"idle", "write", "publish", "done"}

Replies == {"none", "ok", "bad_request", "not_found", "invalid_state", "error"}

TypeOK ==
  /\ rows \in [Orders -> Row \cup {NoRow}]
  /\ pc \in [Requests -> PCs]
  /\ call \in [Requests -> Calls \cup {NoCall}]
  /\ entity \in [Requests -> Row \cup {NoRow}]
  /\ reply \in [Requests -> Replies]
  /\ committed \in [Orders -> SUBSET Statuses]
  /\ published \in [Orders -> [Statuses -> 0..MaxCount]]

Init ==
  /\ rows = [o \in Orders |-> NoRow]
  /\ pc = [r \in Requests |-> "idle"]
  /\ call = [r \in Requests |-> NoCall]
  /\ entity = [r \in Requests |-> NoRow]
  /\ reply = [r \in Requests |-> "none"]
  /\ committed = [o \in Orders |-> {}]
  /\ published = [o \in Orders |-> [s \in Statuses |-> 0]]

-----------------------------------------------------------------------------
(* The first part of a call: up to the write, or to an early return *)

\* r holds an entity that it is about to write.
Hold(r, c, e) ==
  /\ pc[r] = "idle"
  /\ pc' = [pc EXCEPT ![r] = "write"]
  /\ call' = [call EXCEPT ![r] = c]
  /\ entity' = [entity EXCEPT ![r] = e]
  /\ UNCHANGED <<rows, reply, committed, published>>

\* r returns early: it has written nothing.
Return(r, answer) ==
  /\ pc[r] = "idle"
  /\ pc' = [pc EXCEPT ![r] = "done"]
  /\ reply' = [reply EXCEPT ![r] = answer]
  /\ UNCHANGED call
  /\ UNCHANGED <<rows, entity, committed, published>>

\* uuid.New never returns an id that is stored or about to be.
Fresh(o) ==
  /\ rows[o] = NoRow
  /\ \A q \in Requests : ~(pc[q] = "write" /\ call[q] = CreateCall(o))

BeginCreate(r, o) ==
  /\ Fresh(o)
  /\ Hold(r, CreateCall(o), NewOrder)

\* Binding, parsing the id or Validate fails in the handler.
RejectRequest(r) == Return(r, "bad_request")

\* store.Get finds no row.
NotFound(r, c) ==
  /\ rows[c.order] = NoRow
  /\ Return(r, "not_found")

\* store.Get finds a row whose status does not allow the call.
Refuse(r, c) ==
  /\ rows[c.order] # NoRow
  /\ ~Allowed(c, rows[c.order])
  /\ Return(r, "invalid_state")

\* store.Get finds a row that does: the entity is edited in memory.
Prepare(r, c) ==
  /\ rows[c.order] # NoRow
  /\ Allowed(c, rows[c.order])
  /\ Hold(r, c, Edited(c, rows[c.order]))

\* store.Get fails.
LoadFails(r) ==
  /\ Faults
  /\ Return(r, "error")
-----------------------------------------------------------------------------
(* The transaction *)

\* Mutant: only the timestamps that the caller set are assigned, the others stay.
Stored_SetColumnsOnly(old, e) ==
  [e EXCEPT !.paidAt = @ \/ old.paidAt,
            !.shippedAt = @ \/ old.shippedAt,
            !.completedAt = @ \/ old.completedAt,
            !.cancelledAt = @ \/ old.cancelledAt]

\* INSERT and updateOrderSQL assign every column from the entity, whatever the
\* row has become since it was read.
Stored(old, e) == e

Commit(r) ==
  LET o == call[r].order
      new == Stored(rows[o], entity[r])
  IN /\ rows' = [rows EXCEPT ![o] = new]
     /\ committed' = [committed EXCEPT ![o] = @ \cup {new.status}]
     /\ entity' = [entity EXCEPT ![r] = NoRow]

\* The call returns the store's error.
Fail(r) ==
  /\ pc' = [pc EXCEPT ![r] = "done"]
  /\ call' = [call EXCEPT ![r] = NoCall]
  /\ reply' = [reply EXCEPT ![r] = "error"]

\* Mutant: the request is answered before the event is published.
Write_AnswersFirst(r) ==
  /\ pc[r] = "write"
  /\ Commit(r)
  /\ pc' = [pc EXCEPT ![r] = IF Announces(call[r]) THEN "publish" ELSE "done"]
  /\ reply' = [reply EXCEPT ![r] = "ok"]
  /\ UNCHANGED <<call, published>>

\* store.Create or store.Update commits and returns nil.
Write(r) ==
  /\ pc[r] = "write"
  /\ Commit(r)
  /\ IF Announces(call[r])
     THEN /\ pc' = [pc EXCEPT ![r] = "publish"]
          /\ UNCHANGED reply
     ELSE /\ pc' = [pc EXCEPT ![r] = "done"]
          /\ reply' = [reply EXCEPT ![r] = "ok"]
  /\ UNCHANGED <<call, published>>

\* Mutant: the error of the store is not returned, the call goes on to publish.
WriteFails_Ignored(r) ==
  /\ Faults
  /\ pc[r] = "write"
  /\ pc' = [pc EXCEPT ![r] = "publish"]
  /\ entity' = [entity EXCEPT ![r] = NoRow]
  /\ UNCHANGED <<rows, call, reply, committed, published>>

\* The transaction fails (or the client has gone and its context with it): it
\* is rolled back and the call returns the error.
WriteFails(r) ==
  /\ Faults
  /\ pc[r] = "write"
  /\ Fail(r)
  /\ entity' = [entity EXCEPT ![r] = NoRow]
  /\ UNCHANGED <<rows, committed, published>>

\* The transaction commits but its outcome does not reach the server:
\* tx.Commit returns an error and the call returns it.
WriteUnknown(r) ==
  /\ Faults
  /\ pc[r] = "write"
  /\ Commit(r)
  /\ Fail(r)
  /\ UNCHANGED published

-----------------------------------------------------------------------------
(* The event and the answer *)

Increment(n) == IF n < MaxCount THEN n + 1 ELSE n

Publish(r) ==
  /\ pc[r] = "publish"
  /\ published' = [published EXCEPT ![call[r].order][call[r].status] = Increment(@)]
  /\ pc' = [pc EXCEPT ![r] = "done"]
  /\ reply' = [reply EXCEPT ![r] = "ok"]
  /\ UNCHANGED <<rows, call, entity, committed>>

\* Publish returns an error, or the broker loses the message (there are no
\* publisher confirms): a warning is logged and the call succeeds.
PublishFails(r) ==
  /\ Faults
  /\ pc[r] = "publish"
  /\ pc' = [pc EXCEPT ![r] = "done"]
  /\ reply' = [reply EXCEPT ![r] = "ok"]
  /\ UNCHANGED <<rows, call, entity, committed, published>>

\* The handler writes the answer and the goroutine ends.
Respond(r) ==
  /\ pc[r] = "done"
  /\ pc' = [pc EXCEPT ![r] = "idle"]
  /\ call' = [call EXCEPT ![r] = NoCall]
  /\ reply' = [reply EXCEPT ![r] = "none"]
  /\ UNCHANGED <<rows, entity, committed, published>>

\* A server process dies with the requests it was serving; another one, or the
\* one started in its place, knows nothing of them.
Crash(lost) ==
  /\ Faults
  /\ pc' = [r \in Requests |-> IF r \in lost THEN "idle" ELSE pc[r]]
  /\ call' = [r \in Requests |-> IF r \in lost THEN NoCall ELSE call[r]]
  /\ entity' = [r \in Requests |-> IF r \in lost THEN NoRow ELSE entity[r]]
  /\ reply' = [r \in Requests |-> IF r \in lost THEN "none" ELSE reply[r]]
  /\ UNCHANGED <<rows, committed, published>>

Next ==
  \/ \E r \in Requests :
       \/ \E o \in Orders : BeginCreate(r, o)
       \/ RejectRequest(r)
       \/ \E c \in EditCalls :
            NotFound(r, c) \/ Refuse(r, c) \/ Prepare(r, c)
       \/ LoadFails(r)
       \/ Write(r) \/ WriteFails(r) \/ WriteUnknown(r)
       \/ Publish(r) \/ PublishFails(r)
       \/ Respond(r)
  \/ \E lost \in SUBSET Requests : Crash(lost)

Spec == Init /\ [][Next]_vars
-----------------------------------------------------------------------------
(* Properties *)

Exists(o) == rows[o] # NoRow

\* Which timestamps a status goes with, of a row or of an entity.
Consistent(row) ==
  /\ row.status \in {"PAID", "PROCESSING", "SHIPPED", "COMPLETED"} => row.paidAt
  /\ row.status = "PENDING" => ~row.paidAt
  /\ row.shippedAt <=> row.status \in {"SHIPPED", "COMPLETED"}
  /\ row.completedAt <=> row.status = "COMPLETED"
  /\ row.cancelledAt => row.status = "CANCELLED"

\* The timestamps of a stored row are those of its status, although updates
\* overwrite each other's rows: no SHIPPED order without paidAt, no CANCELLED
\* order with shippedAt (store.go:212 writes the row as a whole).
RowConsistent == \A o \in Orders : Exists(o) => Consistent(rows[o])

\* An order that was ever shipped was once paid and once in processing, and a
\* completed one was shipped: however requests race, no step of the path is
\* skipped over the life of the order (service.go:122 checks every update).
ShippedWasPaid ==
  \A o \in Orders :
    /\ "SHIPPED" \in committed[o] => {"PENDING", "PAID", "PROCESSING"} \subseteq committed[o]
    /\ "COMPLETED" \in committed[o] => "SHIPPED" \in committed[o]

\* An event announces only what was committed, whatever fails: the service
\* publishes after the transaction (service.go:72-76, 141-145, 233-237).
AnnouncedWasCommitted ==
  \A o \in Orders, s \in Statuses : published[o][s] > 0 => s \in committed[o]

\* A success answer means that the order did get the status, and, when nothing
\* fails, that the event of the call is out (service.go:141-210).
AnsweredIsDone ==
  \A r \in Requests :
    reply[r] = "ok" =>
      /\ call[r].status \in committed[call[r].order]
      /\ ~Faults /\ Announces(call[r]) => published[call[r].order][call[r].status] > 0

\* When nothing fails, no event is forgotten: as long as the event of a commit is
\* not out, some request is there to publish it, so that once the requests have
\* ended everything is announced (service.go:72-76, 146-200).
EventIsComing(o, s) ==
  \E r \in Requests : pc[r] = "publish" /\ call[r].order = o /\ call[r].status = s

NoEventIsForgotten ==
  ~Faults =>
    \A o \in Orders, s \in {"PENDING", "PAID", "SHIPPED", "COMPLETED"} :
      s \in committed[o] => published[o][s] > 0 \/ EventIsComing(o, s)

\* order.created, .paid, .shipped and .completed are published at most once for
\* an order. It takes requests that do not overlap: two updates to PAID that
\* both read PENDING both publish order.paid.
PublishedOnce ==
  \A o \in Orders, s \in {"PENDING", "PAID", "SHIPPED", "COMPLETED"} :
    published[o][s] <= 1

StatusOf(o) == rows[o].status

AnnouncedOf(o) == {s \in Statuses : published[o][s] > 0}

Weak == INSTANCE OrderContract WITH Serial <- FALSE,
  status <- [o \in Orders |-> StatusOf(o)],
  held <- committed,
  announced <- [o \in Orders |-> AnnouncedOf(o)]

Strict == INSTANCE OrderContract WITH Serial <- TRUE,
  status <- [o \in Orders |-> StatusOf(o)],
  held <- committed,
  announced <- [o \in Orders |-> AnnouncedOf(o)]

\* The service implements the weak contract under races and failures
\* (service.go:38-260 and store.go:53-246 together).
KeepsContract == Weak!Spec

\* It implements the documented state machine as long as requests on an order
\* do not overlap, whatever fails (model.go:42-57).
KeepsStateMachine == Strict!Spec

\* When nothing fails and goroutines that can run do, every commit of these
\* statuses is announced in the end (the publish switch of service.go:146-200).
CommitsAnnounced ==
  \A o \in Orders, s \in {"PENDING", "PAID", "SHIPPED", "COMPLETED"} :
    s \in committed[o] ~> published[o][s] > 0
-----------------------------------------------------------------------------
(* What the documentation says and the code does not do *)

\* COMPLETED and CANCELLED are final (memory-bank/systemPatterns.md:105-106).
\* They are not for requests that race: one that read the row before it became
\* final overwrites it (service.go:115 reads, store.go:212 writes unchecked).
FinalIsFinal ==
  [][\A o \in Orders : StatusOf(o) \in Terminal => StatusOf(o)' = StatusOf(o)]_vars

\* Every transition is stamped, the one to CANCELLED with cancelledAt, and
\* announced by an event (memory-bank/projectbrief.md:11, 13): once no request is
\* in progress, a CANCELLED order has both.  UpdateOrderStatus accepts CANCELLED,
\* stamps nothing and publishes nothing (service.go:130-146).
CancellationIsRecorded ==
  (\A r \in Requests : pc[r] = "idle") =>
    \A o \in Orders : StatusOf(o) = "CANCELLED" =>
      rows[o].cancelledAt /\ "CANCELLED" \in AnnouncedOf(o)
=============================================================================
