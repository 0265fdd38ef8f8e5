------------------------- MODULE JpaOrderServiceProofs -------------------------
(***************************************************************************)
(* Proofs about JpaOrderService, for any number of orders and requests and *)
(* with every failure: its types, that stored rows are consistent, that no *)
(* status is committed before its event is out, and that the stored        *)
(* statuses keep the contract of the order service.                        *)
(*                                                                         *)
(* What a commit will write was decided when the row was read, so the      *)
(* invariant is about the transactions in progress: what their entity      *)
(* follows from, and which event is out by the time they commit.  The last *)
(* section proves that only a rollback after the event makes it untrue.    *)
(***************************************************************************)
EXTENDS JpaOrderService, TLAPS

\* The statuses whose commit has an event.
Eventful == Stamped \cup {"PENDING"}

\* The timestamps of a row are those of its status.
Consistent(row) ==
  LET s == row.status
      t == row.stamps
  IN /\ s \in {"PAID", "PROCESSING", "SHIPPED", "COMPLETED"} => "PAID" \in t
     /\ s = "PENDING" => t = {}
     /\ "SHIPPED" \in t <=> s \in {"SHIPPED", "COMPLETED"}
     /\ "COMPLETED" \in t <=> s = "COMPLETED"
     /\ "CANCELLED" \in t => s = "CANCELLED"

\* A transaction that inserts an order holds a new one, and is the only one.
Inserting(r) ==
  /\ call[r] = CreateCall(call[r].order)
  /\ entity[r] = NewOrder
  /\ rows[call[r].order] = NoRow
  /\ \A q \in Requests : q # r => call[q] # call[r]

\* A transaction that updates one holds a consistent row, with a status that
\* follows from one the order has held: the one that it read.
Updating(r) ==
  /\ call[r] \in EditCalls
  /\ Consistent(entity[r])
  /\ rows[call[r].order] # NoRow
  /\ \E from \in committed[call[r].order] : CanTransitionTo(from, call[r].status)

\* A transaction in progress, and the event that must be out before its commit.
WorkingOK(r) ==
  pc[r] \in {"publish", "commit"} =>
    /\ call[r] \in Calls /\ entity[r] \in Row /\ entity[r].status = call[r].status
    /\ Inserting(r) \/ Updating(r)
    /\ pc[r] = "commit" /\ call[r].status \in Eventful =>
         call[r].status \in announced[call[r].order]

\* A stored row is consistent, and its order was placed once.
RowOK(o) ==
  rows[o] # NoRow =>
    /\ Consistent(rows[o])
    /\ {rows[o].status, "PENDING"} \subseteq committed[o]

JInv ==
  /\ TypeOK
  /\ CommittedWasAnnounced
  /\ \A o \in Orders : RowOK(o)
  /\ \A r \in Requests : WorkingOK(r)

-----------------------------------------------------------------------------
(* Types *)

\* What distinguishes the values that stand for nothing.
LEMMA Nothing ==
  /\ NoCall \notin Calls /\ NoRow \notin Row
  /\ EditCalls \subseteq Calls
  /\ \A o \in Orders : CreateCall(o) \in Calls /\ CreateCall(o) # NoCall
  /\ NewOrder \in Row
<1>1. NoRow \notin Row
  BY DEF NoRow, Row, Statuses
<1>2. \A c \in Calls : c.op \in {"create", "update", "cancel"}
  BY DEF Calls
<1>3. NoCall.op = "none"
  BY DEF NoCall
<1>4. NoCall \notin Calls
  BY <1>2, <1>3
<1>5. EditCalls \subseteq Calls
  BY DEF EditCalls, Calls, Statuses
<1>6. \A o \in Orders : CreateCall(o) \in Calls
  BY DEF CreateCall, Calls, Statuses
<1>7. NewOrder \in Row
  BY DEF NewOrder, Row, Statuses
<1>8. QED
  BY <1>1, <1>4, <1>5, <1>6, <1>7

\* An edit of a row is a row, with the status that is asked for.
LEMMA EditedIsRow ==
  ASSUME NEW c \in EditCalls, NEW row \in Row
  PROVE  Edited(c, row) \in Row /\ Edited(c, row).status = c.status
<1>1. c.status \in Statuses
  BY DEF EditCalls, Statuses
<1>2. row.stamps \in SUBSET (Stamped \cup {"CANCELLED"})
  BY DEF Row
<1>3. QED
  BY <1>1, <1>2 DEF Edited, Row

\* An allowed edit of a consistent row is consistent.
LEMMA EditedIsConsistent ==
  ASSUME NEW c \in EditCalls, NEW row \in Row, Consistent(row), Allowed(c, row)
  PROVE  Consistent(Edited(c, row))
<1>1. row.status \in Statuses
  BY DEF Row
<1>2. CASE c.op = "cancel"
  <2>1. c.status = "CANCELLED" /\ row.status \in {"PENDING", "PAID", "PROCESSING", "CANCELLED"}
    BY <1>1, <1>2 DEF EditCalls, Allowed, Statuses
  <2>2. /\ Edited(c, row).status = "CANCELLED"
        /\ Edited(c, row).stamps = row.stamps \cup {"CANCELLED"}
    BY <1>2, <2>1 DEF Edited
  <2>3. QED
    BY <2>1, <2>2 DEF Consistent
<1>3. CASE c.op # "cancel"
  <2>1. c.status \in Successors[row.status]
    BY <1>3 DEF Allowed
  <2>2. /\ Edited(c, row).status = c.status
        /\ Edited(c, row).stamps = row.stamps \cup ({c.status} \cap Stamped)
    BY <1>3 DEF Edited
  <2>3. \A s \in Statuses :
          s \in Edited(c, row).stamps <=> s \in row.stamps \/ (s = c.status /\ s \in Stamped)
    BY <2>2
  <2>4. CASE row.status = "PENDING"
    <3>1. c.status \in {"PAID", "CANCELLED"} /\ row.stamps = {}
      BY <2>1, <2>4 DEF Successors, Consistent
    <3>2. QED
      BY <2>2, <2>3, <3>1 DEF Stamped, Consistent, Statuses
  <2>5. CASE row.status = "PAID"
    <3>1. c.status \in {"PROCESSING", "CANCELLED"}
      BY <2>1, <2>5 DEF Successors
    <3>2. QED
      BY <2>2, <2>3, <2>5, <3>1 DEF Stamped, Consistent, Statuses
  <2>6. CASE row.status = "PROCESSING"
    <3>1. c.status \in {"SHIPPED", "CANCELLED"}
      BY <2>1, <2>6 DEF Successors
    <3>2. QED
      BY <2>2, <2>3, <2>6, <3>1 DEF Stamped, Consistent, Statuses
  <2>7. CASE row.status = "SHIPPED"
    <3>1. c.status = "COMPLETED"
      BY <2>1, <2>7 DEF Successors
    <3>2. QED
      BY <2>2, <2>3, <2>7, <3>1 DEF Stamped, Consistent, Statuses
  <2>8. CASE row.status \in {"COMPLETED", "CANCELLED"}
    BY <2>1, <2>8 DEF Successors
  <2>9. QED
    BY <1>1, <2>4, <2>5, <2>6, <2>7, <2>8 DEF Statuses
<1>4. QED
  BY <1>2, <1>3

\* An allowed edit follows, in the table of the Go service, from a status that
\* the order has held; a second cancellation follows from PENDING.
LEMMA EditFollows ==
  ASSUME NEW c \in EditCalls, NEW row \in Row, Allowed(c, row),
         NEW past, {row.status, "PENDING"} \subseteq past
  PROVE  \E from \in past : CanTransitionTo(from, c.status)
<1>1. row.status \in Statuses
  BY DEF Row
<1>2. CASE c.op = "cancel"
  <2>1. c.status = "CANCELLED"
    BY <1>2 DEF EditCalls
  <2>2. QED
    BY <2>1 DEF CanTransitionTo, Transitions
<1>3. CASE c.op # "cancel"
  <2>1. c.status \in Successors[row.status]
    BY <1>3 DEF Allowed
  <2>2. CanTransitionTo(row.status, c.status)
    BY <1>1, <2>1 DEF Successors, Statuses, CanTransitionTo, Transitions
  <2>3. QED
    BY <2>2
<1>4. QED
  BY <1>2, <1>3

-----------------------------------------------------------------------------
(* The invariant *)

LEMMA InitJInv == Init => JInv
BY DEF Init, JInv, TypeOK, CommittedWasAnnounced, RowOK, WorkingOK

\* A transaction that nobody touches stays as it should be when the stored
\* orders stay, more is announced, and nobody starts to insert its order.
LEMMA WorkingStays ==
  ASSUME NEW r \in Requests, WorkingOK(r), TypeOK,
         pc'[r] = pc[r], call'[r] = call[r], entity'[r] = entity[r],
         UNCHANGED <<rows, committed>>,
         \A o \in Orders : announced[o] \subseteq announced'[o],
         \A q \in Requests : q # r => call'[q] = call[q] \/ call'[q] # call[r]
  PROVE  WorkingOK(r)'
<1> SUFFICES ASSUME pc[r] \in {"publish", "commit"}
             PROVE  WorkingOK(r)'
  BY DEF WorkingOK
<1>1. call[r] \in Calls /\ call[r].order \in Orders
  BY DEF WorkingOK, Calls
<1>2. Inserting(r) => Inserting(r)'
  BY DEF Inserting
<1>3. Updating(r) => Updating(r)'
  BY DEF Updating
<1>4. QED
  BY <1>1, <1>2, <1>3 DEF WorkingOK

\* Transactions end, and nothing is written or announced.
LEMMA EndJInv ==
  ASSUME JInv, TypeOK', UNCHANGED <<rows, committed, announced>>,
         \A r \in Requests :
           \/ pc'[r] = pc[r] /\ call'[r] = call[r] /\ entity'[r] = entity[r]
           \/ pc'[r] \notin {"publish", "commit"}
  PROVE  JInv'
<1>1. \A o \in Orders : RowOK(o)'
  BY DEF JInv, RowOK
<1>2. CommittedWasAnnounced'
  BY DEF JInv, CommittedWasAnnounced
<1>3. ASSUME NEW r \in Requests, pc[r] \in {"publish", "commit"},
             pc'[r] = pc[r], call'[r] = call[r], entity'[r] = entity[r]
      PROVE  WorkingOK(r)'
  <2>1. \A q \in Requests : call'[q] = call[q] \/ call'[q] = NoCall
    BY DEF JInv, TypeOK
  <2>2. call[r] # NoCall
    BY <1>3 DEF JInv, TypeOK
  <2>3. \A q \in Requests : q # r => call'[q] = call[q] \/ call'[q] # call[r]
    BY <2>1, <2>2
  <2>4. QED
    BY <1>3, <2>3, WorkingStays DEF JInv
<1>4. \A r \in Requests : WorkingOK(r)'
  BY <1>3 DEF WorkingOK
<1>5. QED
  BY <1>1, <1>2, <1>4 DEF JInv

\* A transaction begins: it holds an entity that is good for its call.
LEMMA ManageJInv ==
  ASSUME JInv, NEW r \in Requests, NEW c \in Calls, NEW e \in Row, Manage(r, c, e),
         e.status = c.status, (Inserting(r) \/ Updating(r))',
         \A q \in Requests : call[q] # c \/ c \in EditCalls,
         ~Announces(c) => c.status \notin Eventful
  PROVE  JInv'
<1>1. /\ pc[r] = "idle" /\ call[r] = NoCall
      /\ pc' = [pc EXCEPT ![r] = IF Announces(c) THEN "publish" ELSE "commit"]
      /\ call' = [call EXCEPT ![r] = c] /\ entity' = [entity EXCEPT ![r] = e]
      /\ UNCHANGED <<rows, reply, committed, announced>>
  BY DEF Manage, JInv, TypeOK
<1>2. TypeOK'
  BY <1>1, Nothing DEF JInv, TypeOK
<1>3. \A o \in Orders : RowOK(o)'
  BY <1>1 DEF JInv, RowOK
<1>4. CommittedWasAnnounced'
  BY <1>1 DEF JInv, CommittedWasAnnounced
<1>5. pc'[r] = (IF Announces(c) THEN "publish" ELSE "commit") /\ call'[r] = c /\ entity'[r] = e
  BY <1>1 DEF JInv, TypeOK
<1>6. WorkingOK(r)'
  BY <1>5 DEF WorkingOK
<1>7. ASSUME NEW q \in Requests, q # r
      PROVE  WorkingOK(q)'
  <2>1. pc'[q] = pc[q] /\ call'[q] = call[q] /\ entity'[q] = entity[q]
    BY <1>1, <1>7 DEF JInv, TypeOK
  <2>2. CASE pc[q] \notin {"publish", "commit"}
    BY <2>1, <2>2 DEF WorkingOK
  <2>3. CASE pc[q] \in {"publish", "commit"} /\ c # call[q]
    <3>1. \A p \in Requests : p # q => call'[p] = call[p] \/ call'[p] # call[q]
      BY <1>1, <2>3 DEF JInv, TypeOK
    <3>2. QED
      BY <1>1, <2>1, <3>1, WorkingStays DEF JInv
  <2>4. CASE pc[q] \in {"publish", "commit"} /\ c = call[q]
    <3>1. c \in EditCalls /\ c.op # "create"
      BY <2>4 DEF EditCalls
    <3>2. ~Inserting(q)
      BY <2>4, <3>1 DEF Inserting, CreateCall
    <3>3. Updating(q)
      BY <2>4, <3>2 DEF JInv, WorkingOK
    <3>4. Updating(q)'
      BY <1>1, <2>1, <3>3 DEF Updating
    <3>5. QED
      BY <1>1, <2>1, <3>4 DEF JInv, WorkingOK
  <2>5. QED
    BY <2>2, <2>3, <2>4
<1>8. QED
  BY <1>2, <1>3, <1>4, <1>6, <1>7 DEF JInv

LEMMA BeginCreateJInv ==
  ASSUME JInv, NEW r \in Requests, NEW o \in Orders, BeginCreate(r, o)
  PROVE  JInv'
<1> DEFINE c == CreateCall(o)
<1>1. c \in Calls /\ NewOrder \in Row /\ NewOrder.status = c.status /\ c.order = o
  BY Nothing DEF NewOrder, CreateCall
<1>2. Announces(c)
  BY DEF Announces, CreateCall
<1>3. \A q \in Requests : call[q] # c
  BY DEF BeginCreate, Fresh
<1>4. Inserting(r)'
  <2>1. call' = [call EXCEPT ![r] = c] /\ entity' = [entity EXCEPT ![r] = NewOrder]
    BY DEF BeginCreate, Manage
  <2>2. call'[r] = c /\ entity'[r] = NewOrder /\ \A q \in Requests : q # r => call'[q] = call[q]
    BY <2>1 DEF JInv, TypeOK
  <2>3. rows'[o] = NoRow
    BY DEF BeginCreate, Fresh, Manage
  <2>4. QED
    BY <1>1, <1>3, <2>2, <2>3 DEF Inserting
<1>5. QED
  BY <1>1, <1>2, <1>3, <1>4, ManageJInv DEF BeginCreate

LEMMA EditJInv ==
  ASSUME JInv, NEW r \in Requests, NEW c \in EditCalls, Edit(r, c)
  PROVE  JInv'
<1> DEFINE o == c.order
           e == Edited(c, rows[o])
<1>1. c \in Calls /\ o \in Orders
  BY Nothing DEF Calls
<1>2. rows[o] \in Row /\ rows[o] # NoRow /\ Allowed(c, rows[o]) /\ Manage(r, c, e)
  BY <1>1 DEF Edit, JInv, TypeOK
<1>3. Consistent(rows[o]) /\ {rows[o].status, "PENDING"} \subseteq committed[o]
  BY <1>1, <1>2 DEF JInv, RowOK
<1>4. e \in Row /\ e.status = c.status
  BY <1>2, EditedIsRow
<1>5. Consistent(e)
  BY <1>2, <1>3, EditedIsConsistent
<1>6. \E from \in committed[o] : CanTransitionTo(from, c.status)
  BY <1>2, <1>3, EditFollows
<1> HIDE DEF e
<1>7. Updating(r)'
  <2>1. call'[r] = c /\ entity'[r] = e /\ UNCHANGED <<rows, committed>>
    BY <1>2 DEF Manage, JInv, TypeOK
  <2>2. QED
    BY <1>2, <1>5, <1>6, <2>1 DEF Updating
<1>8. ~Announces(c) => c.status \notin Eventful
  BY <1>6 DEF Announces, Eventful, CanTransitionTo, Transitions
<1>9. QED
  BY <1>1, <1>2, <1>4, <1>7, <1>8, ManageJInv

\* The event goes out.
LEMMA PublishJInv ==
  ASSUME JInv, NEW r \in Requests, Publish(r)
  PROVE  JInv'
<1> DEFINE o == call[r].order
           s == call[r].status
<1>1. /\ pc[r] = "publish" /\ pc' = [pc EXCEPT ![r] = "commit"]
      /\ announced' = [announced EXCEPT ![o] = @ \cup {s}]
      /\ UNCHANGED <<rows, call, entity, reply, committed>>
  BY DEF Publish
<1>2. call[r] \in Calls /\ o \in Orders /\ s \in Statuses
  BY <1>1 DEF JInv, WorkingOK, Calls
<1>3. TypeOK'
  BY <1>1, <1>2 DEF JInv, TypeOK
<1>4. \A p \in Orders : announced[p] \subseteq announced'[p]
  BY <1>1 DEF JInv, TypeOK
<1>5. s \in announced'[o]
  BY <1>1, <1>2 DEF JInv, TypeOK
<1>6. CommittedWasAnnounced'
  BY <1>1, <1>4 DEF JInv, CommittedWasAnnounced
<1>7. \A p \in Orders : RowOK(p)'
  BY <1>1 DEF JInv, RowOK
<1>8. ASSUME NEW q \in Requests, q # r
      PROVE  WorkingOK(q)'
  <2>1. pc'[q] = pc[q]
    BY <1>1, <1>8 DEF JInv, TypeOK
  <2>2. QED
    BY <1>1, <1>4, <2>1, WorkingStays DEF JInv
<1>9. WorkingOK(r)'
  <2>1. Inserting(r) => Inserting(r)'
    BY <1>1 DEF Inserting
  <2>2. Updating(r) => Updating(r)'
    BY <1>1 DEF Updating
  <2>3. WorkingOK(r) /\ pc'[r] = "commit"
    BY <1>1 DEF JInv, TypeOK
  <2>4. QED
    BY <1>1, <1>2, <1>5, <2>1, <2>2, <2>3 DEF WorkingOK
<1>10. QED
  BY <1>3, <1>6, <1>7, <1>8, <1>9 DEF JInv

\* What a commit does.
LEMMA WriteEffect ==
  ASSUME JInv, NEW r \in Requests, pc[r] = "commit", Write(r)
  PROVE  /\ call[r] \in Calls /\ call[r].order \in Orders
         /\ entity[r] \in Row /\ entity[r].status = call[r].status
         /\ Inserting(r) \/ Updating(r)
         /\ rows' = [rows EXCEPT ![call[r].order] = entity[r]]
         /\ committed' = [committed EXCEPT ![call[r].order] = @ \cup {call[r].status}]
<1>1. /\ call[r] \in Calls /\ entity[r] \in Row /\ entity[r].status = call[r].status
      /\ Inserting(r) \/ Updating(r)
  BY DEF JInv, WorkingOK
<1>2. call[r].order \in Orders
  BY <1>1 DEF Calls
<1>3. QED
  BY <1>1, <1>2 DEF Write, Flushed

\* A commit leaves the other transactions good: those of an update stay
\* grounded, and nobody else was about to insert the same order.
LEMMA WriteOthers ==
  ASSUME JInv, NEW r \in Requests, pc[r] = "commit", Write(r),
         UNCHANGED announced, NEW q \in Requests, q # r, WorkingOK(q),
         pc'[q] = pc[q], call'[q] = call[q], entity'[q] = entity[q],
         \A p \in Requests : call'[p] = call[p] \/ call'[p] = NoCall
  PROVE  WorkingOK(q)'
<1> SUFFICES ASSUME pc[q] \in {"publish", "commit"}
             PROVE  WorkingOK(q)'
  BY DEF WorkingOK
<1> DEFINE o == call[r].order
           p == call[q].order
<1>1. call[q] \in Calls /\ p \in Orders /\ call[q] # NoCall
  BY Nothing DEF WorkingOK, Calls
<1>2. /\ o \in Orders /\ entity[r] \in Row /\ (Inserting(r) \/ Updating(r))
      /\ rows' = [rows EXCEPT ![o] = entity[r]] /\ rows \in [Orders -> Row \cup {NoRow}]
      /\ committed' = [committed EXCEPT ![o] = @ \cup {call[r].status}]
      /\ committed \in [Orders -> SUBSET Statuses]
  BY WriteEffect DEF JInv, TypeOK
<1>3. CASE Inserting(q)
  <2>1. o # p
    <3>1. CASE Inserting(r)
      BY <1>3, <3>1 DEF Inserting
    <3>2. CASE Updating(r)
      BY <1>3, <3>2 DEF Inserting, Updating
    <3>3. QED
      BY <1>2, <3>1, <3>2
  <2>2. rows'[p] = NoRow
    BY <1>1, <1>2, <1>3, <2>1 DEF Inserting
  <2>3. Inserting(q)'
    BY <1>1, <1>3, <2>2 DEF Inserting
  <2>4. QED
    BY <1>1, <2>3 DEF WorkingOK
<1>4. CASE Updating(q)
  <2>1. rows'[p] # NoRow
    BY <1>1, <1>2, <1>4, Nothing DEF Updating
  <2>2. committed[p] \subseteq committed'[p]
    BY <1>1, <1>2
  <2>3. Updating(q)'
    BY <1>4, <2>1, <2>2 DEF Updating
  <2>4. QED
    BY <1>1, <2>3 DEF WorkingOK
<1>5. QED
  BY <1>3, <1>4 DEF WorkingOK

LEMMA WriteJInv ==
  ASSUME JInv, NEW r \in Requests, NEW answer \in {"ok", "error"},
         pc[r] = "commit", Write(r), End(r, answer), UNCHANGED announced
  PROVE  JInv'
<1> DEFINE o == call[r].order
           s == call[r].status
<1>1. /\ o \in Orders /\ s \in Statuses /\ entity[r] \in Row /\ entity[r].status = s
      /\ rows' = [rows EXCEPT ![o] = entity[r]]
      /\ committed' = [committed EXCEPT ![o] = @ \cup {s}]
  BY WriteEffect DEF Calls
<1>2. /\ pc' = [pc EXCEPT ![r] = "done"] /\ call' = [call EXCEPT ![r] = NoCall]
      /\ entity' = [entity EXCEPT ![r] = NoRow] /\ reply' = [reply EXCEPT ![r] = answer]
  BY DEF End
<1>3. TypeOK'
  BY <1>1, <1>2 DEF JInv, TypeOK
<1>4. CommittedWasAnnounced'
  <2>1. s \in Eventful => s \in announced[o]
    BY DEF JInv, WorkingOK
  <2>2. \A p \in Orders : committed'[p] = committed[p] \cup (IF p = o THEN {s} ELSE {})
    BY <1>1 DEF JInv, TypeOK
  <2>3. QED
    BY <2>1, <2>2 DEF JInv, CommittedWasAnnounced, Eventful
<1>5. ASSUME NEW p \in Orders
      PROVE  RowOK(p)'
  <2>1. CASE p # o
    BY <1>1, <2>1 DEF JInv, TypeOK, RowOK
  <2>2. CASE p = o
    <3>1. rows'[o] = entity[r] /\ committed'[o] = committed[o] \cup {s}
      BY <1>1 DEF JInv, TypeOK
    <3>2. CASE Inserting(r)
      <4>1. s = "PENDING" /\ Consistent(entity[r])
        BY <3>2 DEF Inserting, CreateCall, NewOrder, Consistent
      <4>2. QED
        BY <1>1, <2>2, <3>1, <4>1 DEF RowOK
    <3>3. CASE Updating(r)
      BY <1>1, <2>2, <3>1, <3>3 DEF JInv, RowOK, Updating
    <3>4. QED
      BY <3>2, <3>3, WriteEffect
  <2>3. QED
    BY <2>1, <2>2
<1>6. ASSUME NEW q \in Requests
      PROVE  WorkingOK(q)'
  <2>1. CASE q = r
    BY <1>2, <2>1 DEF JInv, TypeOK, WorkingOK
  <2>2. CASE q # r
    <3>1. pc'[q] = pc[q] /\ call'[q] = call[q] /\ entity'[q] = entity[q]
      BY <1>2, <2>2 DEF JInv, TypeOK
    <3>2. \A p \in Requests : call'[p] = call[p] \/ call'[p] = NoCall
      BY <1>2 DEF JInv, TypeOK
    <3>3. QED
      BY <2>2, <3>1, <3>2, WriteOthers DEF JInv
  <2>3. QED
    BY <2>1, <2>2
<1>7. QED
  BY <1>3, <1>4, <1>5, <1>6 DEF JInv

\* Every step keeps the invariant.
LEMMA NextJInv == JInv /\ [Next]_vars => JInv'
<1> SUFFICES ASSUME JInv, [Next]_vars
             PROVE  JInv'
  OBVIOUS
<1>1. ASSUME NEW r \in Requests, NEW o \in Orders, BeginCreate(r, o)
      PROVE  JInv'
  BY <1>1, BeginCreateJInv
<1>2. ASSUME NEW r \in Requests, NEW c \in EditCalls, Edit(r, c)
      PROVE  JInv'
  BY <1>2, EditJInv
<1>3. ASSUME NEW r \in Requests, NEW answer \in {"not_found", "invalid_state", "error"},
             End(r, answer), UNCHANGED <<rows, committed, announced>>
      PROVE  JInv'
  <2>1. TypeOK'
    BY <1>3 DEF End, JInv, TypeOK
  <2>2. \A q \in Requests :
          \/ pc'[q] = pc[q] /\ call'[q] = call[q] /\ entity'[q] = entity[q]
          \/ pc'[q] \notin {"publish", "commit"}
    BY <1>3 DEF End, JInv, TypeOK
  <2>3. QED
    BY <1>3, <2>1, <2>2, EndJInv
<1>4. ASSUME NEW r \in Requests, NEW c \in EditCalls, NotFound(r, c) \/ Refuse(r, c)
      PROVE  JInv'
  BY <1>3, <1>4 DEF NotFound, Refuse
<1>5. ASSUME NEW r \in Requests, PublishFails(r) \/ CommitFails(r)
      PROVE  JInv'
  BY <1>3, <1>5 DEF PublishFails, CommitFails
<1>6. ASSUME NEW r \in Requests, Publish(r)
      PROVE  JInv'
  BY <1>6, PublishJInv
<1>7. ASSUME NEW r \in Requests, Commit(r) \/ CommitUnknown(r)
      PROVE  JInv'
  BY <1>7, WriteJInv DEF Commit, CommitUnknown
<1>8. ASSUME NEW r \in Requests, Respond(r)
      PROVE  JInv'
  <2>1. TypeOK'
    BY <1>8 DEF Respond, JInv, TypeOK
  <2>2. \A q \in Requests :
          \/ pc'[q] = pc[q] /\ call'[q] = call[q] /\ entity'[q] = entity[q]
          \/ pc'[q] \notin {"publish", "commit"}
    BY <1>8 DEF Respond, JInv, TypeOK
  <2>3. QED
    BY <1>8, <2>1, <2>2, EndJInv DEF Respond
<1>9. ASSUME NEW lost \in SUBSET Requests, Crash(lost)
      PROVE  JInv'
  <2>1. TypeOK'
    BY <1>9 DEF Crash, JInv, TypeOK
  <2>2. \A q \in Requests :
          \/ pc'[q] = pc[q] /\ call'[q] = call[q] /\ entity'[q] = entity[q]
          \/ pc'[q] \notin {"publish", "commit"}
    BY <1>9 DEF Crash
  <2>3. QED
    BY <1>9, <2>1, <2>2, EndJInv DEF Crash
<1>10. CASE UNCHANGED vars
  <2>1. TypeOK'
    BY <1>10 DEF vars, JInv, TypeOK
  <2>2. QED
    BY <1>10, <2>1, EndJInv DEF vars
<1>11. QED
  BY <1>1, <1>2, <1>4, <1>5, <1>6, <1>7, <1>8, <1>9, <1>10 DEF Next

\* The inductive invariant holds in every reachable state.
THEOREM JpaInvariant == Spec => []JInv
<1>1. QED
  BY InitJInv, NextJInv, PTL DEF Spec

\* Every variable keeps its type, and only a call that has an event is about to
\* publish (OrderService.java:108-127).
THEOREM JpaTypeCorrect == Spec => []TypeOK
<1>1. JInv => TypeOK
  BY DEF JInv
<1>2. QED
  BY <1>1, JpaInvariant, PTL

\* The timestamps of a stored row are those of its status, although transactions
\* overwrite each other's rows.
THEOREM JpaRowsAreConsistent == Spec => []RowConsistent
<1>1. JInv => RowConsistent
  BY DEF JInv, RowOK, Consistent, RowConsistent
<1>2. QED
  BY <1>1, JpaInvariant, PTL

\* No status that has an event is committed before the event is out, whatever
\* fails (OrderService.java:71, 108-127).
THEOREM EventsComeFirst == Spec => []CommittedWasAnnounced
<1>1. JInv => CommittedWasAnnounced
  BY DEF JInv
<1>2. QED
  BY <1>1, JpaInvariant, PTL

-----------------------------------------------------------------------------
(* The stored statuses keep the contract *)

LEMMA ContractInit == Init => Contract!Init
BY DEF Init, Contract!Init, Contract!NoStatus, NoRow

\* A commit places the order, or advances it from a status that it has held.
LEMMA WriteRefines ==
  ASSUME JInv, NEW r \in Requests, pc[r] = "commit", Write(r)
  PROVE  Contract!Next
<1> DEFINE s == call[r].status
<1>1. PICK o \in Orders : o = call[r].order
  BY WriteEffect
<1>2. /\ s \in Statuses /\ entity[r].status = s /\ (Inserting(r) \/ Updating(r))
      /\ rows' = [rows EXCEPT ![o] = entity[r]] /\ rows \in [Orders -> Row \cup {NoRow}]
      /\ committed' = [committed EXCEPT ![o] = @ \cup {s}]
  BY <1>1, WriteEffect DEF Calls, JInv, TypeOK
<1>3. Contract!SetStatus(o, s)
  <2>1. \A p \in Orders : rows'[p].status = IF p = o THEN s ELSE rows[p].status
    BY <1>2
  <2>2. [p \in Orders |-> rows[p].status]' = [[p \in Orders |-> rows[p].status] EXCEPT ![o] = s]
    BY <2>1
  <2>3. QED
    BY <1>2, <2>2 DEF Contract!SetStatus
<1>4. CASE Inserting(r)
  <2>1. s = "PENDING" /\ rows[o].status = "NONE"
    BY <1>1, <1>4 DEF Inserting, CreateCall, NoRow
  <2>2. Contract!SetStatus(o, "PENDING")
    BY <1>3, <2>1 DEF Contract!SetStatus
  <2>3. [p \in Orders |-> rows[p].status][o] = "NONE"
    BY <2>1
  <2>4. Contract!Place(o)
    BY <2>2, <2>3 DEF Contract!Place, Contract!NoStatus
  <2>5. QED
    BY <2>4 DEF Contract!Next
<1>5. CASE Updating(r)
  <2>1. rows[o].status # "NONE"
    BY <1>1, <1>2, <1>5 DEF Updating, Row, Statuses
  <2>2. \E from \in committed[o] : Contract!CanTransitionTo(from, s)
    BY <1>1, <1>5 DEF Updating, CanTransitionTo, Transitions,
       Contract!CanTransitionTo, Contract!Transitions
  <2>3. Contract!Advance(o, s)
    BY <1>3, <2>1, <2>2 DEF Contract!Advance, Contract!NoStatus, Contract!Bases
  <2>4. QED
    BY <1>2, <2>3 DEF Contract!Next, Contract!Statuses, Statuses
<1>6. QED
  BY <1>2, <1>4, <1>5

\* Every other step leaves the stored orders as they are.
LEMMA ContractStep == JInv /\ [Next]_vars => [Contract!Next]_Contract!vars
<1> SUFFICES ASSUME JInv, [Next]_vars
             PROVE  [Contract!Next]_Contract!vars
  OBVIOUS
<1>1. ASSUME NEW r \in Requests, Commit(r) \/ CommitUnknown(r)
      PROVE  Contract!Next
  BY <1>1, WriteRefines DEF Commit, CommitUnknown
<1>2. CASE UNCHANGED <<rows, committed>>
  BY <1>2 DEF Contract!vars
<1>3. ASSUME NEW r \in Requests, NEW o \in Orders, BeginCreate(r, o)
      PROVE  UNCHANGED <<rows, committed>>
  BY <1>3 DEF BeginCreate, Manage
<1>4. ASSUME NEW r \in Requests, NEW c \in EditCalls, NotFound(r, c) \/ Refuse(r, c) \/ Edit(r, c)
      PROVE  UNCHANGED <<rows, committed>>
  BY <1>4 DEF NotFound, Refuse, Edit, Manage
<1>5. ASSUME NEW r \in Requests, Publish(r) \/ PublishFails(r) \/ CommitFails(r) \/ Respond(r)
      PROVE  UNCHANGED <<rows, committed>>
  BY <1>5 DEF Publish, PublishFails, CommitFails, Respond
<1>6. ASSUME NEW lost \in SUBSET Requests, Crash(lost)
      PROVE  UNCHANGED <<rows, committed>>
  BY <1>6 DEF Crash
<1>7. CASE UNCHANGED vars
  BY <1>2, <1>7 DEF vars
<1>8. QED
  BY <1>1, <1>2, <1>3, <1>4, <1>5, <1>6, <1>7 DEF Next

\* The statuses that the Java service stores keep the weak contract, whatever
\* fails: every one follows, in the table of the Go service, from one that the
\* order has held.
THEOREM JpaKeepsContract == Spec => KeepsContract
<1>1. QED
  BY JpaInvariant, ContractInit, ContractStep, PTL DEF Spec, KeepsContract, Contract!Spec

-----------------------------------------------------------------------------
(* Without rollbacks after the event, no event is ahead of the table *)

\* A step that rolls no transaction back whose method has returned: one that is
\* about to commit goes on to do so, or its status is stored.
NoLateRollback ==
  \A r \in Requests : pc[r] = "commit" =>
    pc'[r] = "commit" \/ call[r].status \in committed'[call[r].order]

\* A transaction is about to commit s.
IsCommitting(o, s) ==
  \E r \in Requests : pc[r] = "commit" /\ call[r].order = o /\ call[r].status = s

EventsHoldInv ==
  \A o \in Orders : \A s \in announced[o] : s \in committed[o] \/ IsCommitting(o, s)

\* What a step may change of what EventsHoldInv speaks of: a transaction that
\* publishes is about to commit then, and nobody else about to commit changes.
LEMMA CommittersStay ==
  ASSUME JInv, [Next]_vars
  PROVE  /\ \A o \in Orders : committed[o] \subseteq committed'[o]
         /\ \A r \in Requests : pc[r] = "commit" /\ pc'[r] = "commit" => call'[r] = call[r]
         /\ \/ announced' = announced
            \/ \E r \in Requests : Publish(r)
<1>0. /\ pc \in [Requests -> {"idle", "publish", "commit", "done"}]
      /\ call \in [Requests -> Calls \cup {NoCall}] /\ committed \in [Orders -> SUBSET Statuses]
  BY DEF JInv, TypeOK
<1>1. ASSUME NEW r \in Requests, NEW c, NEW e, Manage(r, c, e)
      PROVE  /\ committed' = committed /\ announced' = announced
             /\ \A q \in Requests : pc[q] = "commit" /\ pc'[q] = "commit" => call'[q] = call[q]
  BY <1>0, <1>1 DEF Manage
<1>2. ASSUME NEW r \in Requests, NEW answer, End(r, answer)
      PROVE  \A q \in Requests : pc[q] = "commit" /\ pc'[q] = "commit" => call'[q] = call[q]
  BY <1>0, <1>2 DEF End
<1>3. ASSUME NEW r \in Requests, Commit(r) \/ CommitUnknown(r)
      PROVE  /\ \A o \in Orders : committed[o] \subseteq committed'[o]
             /\ announced' = announced
  BY <1>0, <1>3, WriteEffect DEF Commit, CommitUnknown
<1>4. ASSUME NEW r \in Requests, \/ PublishFails(r) \/ CommitFails(r) \/ Respond(r)
                               \/ \E c \in EditCalls : NotFound(r, c) \/ Refuse(r, c)
      PROVE  committed' = committed /\ announced' = announced
  BY <1>4 DEF PublishFails, CommitFails, Respond, NotFound, Refuse
<1>5. ASSUME NEW r \in Requests, Publish(r) \/ Respond(r)
      PROVE  committed' = committed /\ call' = call
  BY <1>5 DEF Publish, Respond
<1>6. ASSUME NEW lost \in SUBSET Requests, Crash(lost)
      PROVE  /\ committed' = committed /\ announced' = announced
             /\ \A q \in Requests : pc[q] = "commit" /\ pc'[q] = "commit" => call'[q] = call[q]
  BY <1>6 DEF Crash
<1>7. CASE UNCHANGED vars
  BY <1>7 DEF vars
<1>8. ASSUME NEW r \in Requests, (\E o \in Orders : BeginCreate(r, o)) \/ (\E c \in EditCalls : Edit(r, c))
      PROVE  \E c, e : Manage(r, c, e)
  BY <1>8 DEF BeginCreate, Edit
<1>9. ASSUME NEW r \in Requests, \/ PublishFails(r) \/ CommitFails(r) \/ Commit(r) \/ CommitUnknown(r)
                               \/ \E c \in EditCalls : NotFound(r, c) \/ Refuse(r, c)
      PROVE  \E answer : End(r, answer)
  BY <1>9 DEF PublishFails, CommitFails, Commit, CommitUnknown, NotFound, Refuse
<1>10. QED
  BY <1>1, <1>2, <1>3, <1>4, <1>5, <1>6, <1>7, <1>8, <1>9 DEF Next

LEMMA NextEventsHold == JInv /\ EventsHoldInv /\ [Next]_vars /\ NoLateRollback => EventsHoldInv'
<1> SUFFICES ASSUME JInv, EventsHoldInv, [Next]_vars, NoLateRollback,
                    NEW o \in Orders, NEW s \in announced'[o]
             PROVE  s \in committed'[o] \/ IsCommitting(o, s)'
  BY DEF EventsHoldInv
<1>1. CASE s \in announced[o] /\ s \in committed[o]
  BY <1>1, CommittersStay
<1>2. CASE s \in announced[o] /\ IsCommitting(o, s)
  <2>1. PICK r \in Requests : pc[r] = "commit" /\ call[r].order = o /\ call[r].status = s
    BY <1>2 DEF IsCommitting
  <2>2. CASE pc'[r] = "commit"
    BY <2>1, <2>2, CommittersStay DEF IsCommitting
  <2>3. CASE s \in committed'[o]
    BY <2>3
  <2>4. QED
    BY <2>1, <2>2, <2>3 DEF NoLateRollback
<1>3. CASE s \notin announced[o]
  <2>1. PICK r \in Requests : Publish(r)
    BY <1>3, CommittersStay
  <2>2. call[r].order = o /\ call[r].status = s
    BY <1>3, <2>1 DEF Publish, JInv, TypeOK
  <2>3. pc'[r] = "commit" /\ call' = call
    BY <2>1 DEF Publish, JInv, TypeOK
  <2>4. QED
    BY <2>2, <2>3 DEF IsCommitting
<1>4. QED
  BY <1>1, <1>2, <1>3 DEF EventsHoldInv

\* If no transaction is rolled back between its event and its commit, every status
\* that was announced is stored in the end, however transactions race: the
\* divergence from memory-bank/systemPatterns.md:109 is that window, and no other.
THEOREM EventsHoldWithoutRollback ==
  Spec /\ [][NoLateRollback]_vars => []AnnouncedWasCommitted
<1>1. Init => EventsHoldInv
  BY DEF Init, EventsHoldInv
<1>2. JInv /\ EventsHoldInv /\ [Next]_vars /\ [NoLateRollback]_vars => EventsHoldInv'
  <2>1. CASE UNCHANGED vars
    BY <2>1 DEF vars, EventsHoldInv, IsCommitting
  <2>2. QED
    BY <2>1, NextEventsHold
<1>3. JInv /\ EventsHoldInv => AnnouncedWasCommitted
  <2>1. JInv /\ (\A r \in Requests : call[r] = NoCall) => \A o \in Orders, s \in Statuses : ~IsCommitting(o, s)
    BY DEF JInv, TypeOK, IsCommitting
  <2>2. QED
    BY <2>1 DEF EventsHoldInv, AnnouncedWasCommitted, JInv, TypeOK
<1>4. QED
  BY <1>1, <1>2, <1>3, JpaInvariant, PTL DEF Spec
================================================================================
