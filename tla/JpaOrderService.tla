---------------------------- MODULE JpaOrderService ----------------------------
(***************************************************************************)
(* The Java order service (src/main/java/com/shoppingcart/order), which the *)
(* Go service is a port of: OrderService.java with the entity Order.java,  *)
(* OrderEventPublisher.java and OrderController.java.                      *)
(*                                                                         *)
(* Every request is one @Transactional method.  It reads the row, edits    *)
(* the entity and hands the event to the broker; only then, when the       *)
(* method returns, does Hibernate write the row and the database commit.   *)
(* An exception anywhere rolls the transaction back, and takes no event    *)
(* back.  The entity has no version column: the UPDATE assigns every       *)
(* column of the entity and never finds the row changed.                   *)
(*                                                                         *)
(* Spring, Hibernate, the database and the broker are external.  The reads *)
(* change nothing and are left out; so is the money.                       *)
(***************************************************************************)
EXTENDS OrderStatus

CONSTANTS Orders,     \* the ids that Hibernate may generate
          Requests    \* the requests that may be in progress at once

VARIABLES
  rows,        \* rows[o]: the stored row of o, NoRow before it is inserted
  pc,          \* pc[r]: where the transaction of request r is
  call,        \* call[r]: what r asks for
  entity,      \* entity[r]: the managed entity of r's transaction
  reply,       \* reply[r]: the answer of r
  committed,   \* history: every status ever committed for o
  announced    \* history: every status that an event has announced for o

vars == <<rows, pc, call, entity, reply, committed, announced>>

-----------------------------------------------------------------------------
(* The entity and the calls *)

\* The statuses for which updateOrderStatus sets a timestamp and publishes.
Stamped == {"PAID", "SHIPPED", "COMPLETED"}

\* A row is its status and the statuses whose timestamp column is set.
Row == [status : Statuses, stamps : SUBSET (Stamped \cup {"CANCELLED"})]

NoRow == [status |-> "NONE", stamps |-> {}]

NewOrder == [status |-> "PENDING", stamps |-> {}]

Calls == [op : {"create", "update", "cancel"}, order : Orders, status : Statuses]

NoCall == [op |-> "none"]

CreateCall(o) == [op |-> "create", order |-> o, status |-> "PENDING"]

EditCalls ==
  [op : {"update"}, order : Orders, status : Statuses] \cup
  [op : {"cancel"}, order : Orders, status : {"CANCELLED"}]

\* Mutant: an order may be shipped as soon as it is placed.
Successors_SkipAhead ==
  [ PENDING    |-> {"PAID", "SHIPPED", "CANCELLED"},
    PAID       |-> {"PROCESSING", "CANCELLED"},
    PROCESSING |-> {"SHIPPED", "CANCELLED"},
    SHIPPED    |-> {"COMPLETED"},
    COMPLETED  |-> {},
    CANCELLED  |-> {} ]

\* validateStatusTransition.
Successors ==
  [ PENDING    |-> {"PAID", "CANCELLED"},
    PAID       |-> {"PROCESSING", "CANCELLED"},
    PROCESSING |-> {"SHIPPED", "CANCELLED"},
    SHIPPED    |-> {"COMPLETED"},
    COMPLETED  |-> {},
    CANCELLED  |-> {} ]

\* cancelOrder has a check of its own, which lets a CANCELLED order pass.
Allowed(c, row) ==
  IF c.op = "cancel" THEN row.status \notin {"SHIPPED", "COMPLETED"}
                     ELSE c.status \in Successors[row.status]

Edited(c, row) ==
  [ status |-> c.status,
    stamps |-> row.stamps \cup
               (IF c.op = "cancel" THEN {"CANCELLED"} ELSE {c.status} \cap Stamped) ]

\* The calls that publish.
Announces(c) == c.op # "update" \/ c.status \in Stamped

-----------------------------------------------------------------------------
(* Types and the initial state *)

\* Types; and only a transaction in progress has a call and an entity, and only
\* a call that has an event is about to publish.
TypeOK ==
  /\ rows \in [Orders -> Row \cup {NoRow}]
  /\ pc \in [Requests -> {"idle", "publish", "commit", "done"}]
  /\ call \in [Requests -> Calls \cup {NoCall}]
  /\ entity \in [Requests -> Row \cup {NoRow}]
  /\ reply \in [Requests -> {"none", "ok", "not_found", "invalid_state", "error"}]
  /\ committed \in [Orders -> SUBSET Statuses]
  /\ announced \in [Orders -> SUBSET Statuses]
  /\ \A r \in Requests :
       /\ (call[r] # NoCall) <=> pc[r] \in {"publish", "commit"}
       /\ (entity[r] # NoRow) <=> pc[r] \in {"publish", "commit"}
       /\ pc[r] = "publish" => Announces(call[r])

Init ==
  /\ rows = [o \in Orders |-> NoRow]
  /\ pc = [r \in Requests |-> "idle"]
  /\ call = [r \in Requests |-> NoCall]
  /\ entity = [r \in Requests |-> NoRow]
  /\ reply = [r \in Requests |-> "none"]
  /\ committed = [o \in Orders |-> {}]
  /\ announced = [o \in Orders |-> {}]

-----------------------------------------------------------------------------
(* The transaction *)

\* Mutant: the default branch of the switch publishes too.
Manage_AlwaysPublishes(r, c, e) ==
  /\ pc[r] = "idle"
  /\ pc' = [pc EXCEPT ![r] = "publish"]
  /\ call' = [call EXCEPT ![r] = c]
  /\ entity' = [entity EXCEPT ![r] = e]
  /\ UNCHANGED <<rows, reply, committed, announced>>

\* r has a managed entity; the event, if the call has one, comes next.
Manage(r, c, e) ==
  /\ pc[r] = "idle"
  /\ pc' = [pc EXCEPT ![r] = IF Announces(c) THEN "publish" ELSE "commit"]
  /\ call' = [call EXCEPT ![r] = c]
  /\ entity' = [entity EXCEPT ![r] = e]
  /\ UNCHANGED <<rows, reply, committed, announced>>

\* The transaction ends without a write and the controller answers.
End(r, answer) ==
  /\ pc' = [pc EXCEPT ![r] = "done"]
  /\ call' = [call EXCEPT ![r] = NoCall]
  /\ entity' = [entity EXCEPT ![r] = NoRow]
  /\ reply' = [reply EXCEPT ![r] = answer]

\* A generated id was never used before, nor in an event.
Fresh(o) ==
  /\ rows[o] = NoRow /\ announced[o] = {}
  /\ \A q \in Requests : call[q] # CreateCall(o)

\* createOrder: save only assigns the id, the INSERT waits for the commit.
BeginCreate(r, o) == Fresh(o) /\ Manage(r, CreateCall(o), NewOrder)

\* getOrder, called by updateOrderStatus and cancelOrder, finds nothing.
NotFound(r, c) ==
  /\ pc[r] = "idle"
  /\ rows[c.order] = NoRow
  /\ End(r, "not_found")
  /\ UNCHANGED <<rows, committed, announced>>

\* The status of the row that was read does not allow the call.
Refuse(r, c) ==
  /\ pc[r] = "idle"
  /\ rows[c.order] # NoRow
  /\ ~Allowed(c, rows[c.order])
  /\ End(r, "invalid_state")
  /\ UNCHANGED <<rows, committed, announced>>

\* It does: the entity is edited.
Edit(r, c) ==
  /\ rows[c.order] # NoRow
  /\ Allowed(c, rows[c.order])
  /\ Manage(r, c, Edited(c, rows[c.order]))

Publish(r) ==
  /\ pc[r] = "publish"
  /\ announced' = [announced EXCEPT ![call[r].order] = @ \cup {call[r].status}]
  /\ pc' = [pc EXCEPT ![r] = "commit"]
  /\ UNCHANGED <<rows, call, entity, reply, committed>>

\* Mutant: the exception of the publisher is caught and logged.
PublishFails_Caught(r) ==
  /\ pc[r] = "publish"
  /\ pc' = [pc EXCEPT ![r] = "commit"]
  /\ UNCHANGED <<rows, call, entity, reply, committed, announced>>

\* The publisher throws: nothing catches it, the transaction is rolled back.
PublishFails(r) ==
  /\ pc[r] = "publish"
  /\ End(r, "error")
  /\ UNCHANGED <<rows, committed, announced>>

\* Mutant: the UPDATE assigns the changed columns only (@DynamicUpdate).
Flushed_ChangedColumns(old, e) == [e EXCEPT !.stamps = @ \cup old.stamps]

\* The UPDATE assigns every column of the entity, whatever the row has become.
Flushed(old, e) == e

Write(r) ==
  LET o == call[r].order
      new == Flushed(rows[o], entity[r])
  IN /\ rows' = [rows EXCEPT ![o] = new]
     /\ committed' = [committed EXCEPT ![o] = @ \cup {new.status}]

\* The method has returned: Hibernate writes the entity and the database commits.
Commit(r) ==
  /\ pc[r] = "commit"
  /\ Write(r)
  /\ End(r, "ok")
  /\ UNCHANGED announced

\* Writing or committing fails and the transaction is rolled back.
CommitFails(r) ==
  /\ pc[r] = "commit"
  /\ End(r, "error")
  /\ UNCHANGED <<rows, committed, announced>>

\* The database commits but the service does not hear of it.
CommitUnknown(r) ==
  /\ pc[r] = "commit"
  /\ Write(r)
  /\ End(r, "error")
  /\ UNCHANGED announced

Respond(r) ==
  /\ pc[r] = "done"
  /\ pc' = [pc EXCEPT ![r] = "idle"]
  /\ reply' = [reply EXCEPT ![r] = "none"]
  /\ UNCHANGED <<rows, call, entity, committed, announced>>

\* A process dies with the requests it was serving; the database rolls their
\* transactions back.
Crash(lost) ==
  /\ pc' = [r \in Requests |-> IF r \in lost THEN "idle" ELSE pc[r]]
  /\ call' = [r \in Requests |-> IF r \in lost THEN NoCall ELSE call[r]]
  /\ entity' = [r \in Requests |-> IF r \in lost THEN NoRow ELSE entity[r]]
  /\ reply' = [r \in Requests |-> IF r \in lost THEN "none" ELSE reply[r]]
  /\ UNCHANGED <<rows, committed, announced>>

Next ==
  \/ \E r \in Requests :
       \/ \E o \in Orders : BeginCreate(r, o)
       \/ \E c \in EditCalls : NotFound(r, c) \/ Refuse(r, c) \/ Edit(r, c)
       \/ Publish(r) \/ PublishFails(r)
       \/ Commit(r) \/ CommitFails(r) \/ CommitUnknown(r)
       \/ Respond(r)
  \/ \E lost \in SUBSET Requests : Crash(lost)

Spec == Init /\ [][Next]_vars
-----------------------------------------------------------------------------
(* Properties *)

\* No status that has an event is committed without it, whatever fails: the
\* event is out before the commit, and a failure to publish rolls the
\* transaction back (OrderService.java:71, 108-126).  The Go service does not
\* keep this.
CommittedWasAnnounced ==
  \A o \in Orders : committed[o] \cap (Stamped \cup {"PENDING"}) \subseteq announced[o]

\* The timestamps of a stored row are those of its status, although transactions
\* overwrite each other's rows (Order.java has no version column).
RowConsistent ==
  \A o \in Orders : rows[o] # NoRow =>
    LET s == rows[o].status
        t == rows[o].stamps
    IN /\ s \in {"PAID", "PROCESSING", "SHIPPED", "COMPLETED"} => "PAID" \in t
       /\ s = "PENDING" => t = {}
       /\ "SHIPPED" \in t <=> s \in {"SHIPPED", "COMPLETED"}
       /\ "COMPLETED" \in t <=> s = "COMPLETED"
       /\ "CANCELLED" \in t => s = "CANCELLED"

Contract == INSTANCE OrderContract WITH Serial <- FALSE,
  status <- [o \in Orders |-> rows[o].status],
  held <- committed,
  announced <- [o \in Orders |-> {}]

\* Of the stored orders the Java service keeps the same promise as the Go
\* service: every new status follows, in the table of the Go service, from one
\* that the order has held (OrderService.java:96-174).  Events are left out:
\* they come before the commit.
KeepsContract == Contract!Spec

\* "Each transition ... atomically saves the entity and publishes the event
\* within the same database transaction" (memory-bank/systemPatterns.md:109): an
\* order that no transaction is working on has every status that was announced.
\* It does not when the commit fails after the event (OrderService.java:110).
AnnouncedWasCommitted ==
  \A o \in Orders :
    (\A r \in Requests : call[r] = NoCall) => announced[o] \subseteq committed[o]
=============================================================================
