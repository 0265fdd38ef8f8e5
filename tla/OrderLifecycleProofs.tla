------------------------- MODULE OrderLifecycleProofs -------------------------
(***************************************************************************)
(* Proofs about OrderLifecycle for any number of orders and requests, with *)
(* or without faults.  The invariants that TLC checks are not inductive: a *)
(* request that holds an edited entity decides what the next row will be.  *)
(* IInv says what such an entity must satisfy.                             *)
(*                                                                         *)
(* The last sections say under which hypothesis the stricter promises of   *)
(* the documentation hold: for requests that do not overlap, without       *)
(* faults, and when orders are cancelled through CancelOrder only.         *)
(***************************************************************************)
EXTENDS OrderLifecycle, TLAPS

\* Some status that o has held allows the transition to s.
Reachable(o, s) == \E from \in committed[o] : CanTransitionTo(from, s)

\* An order exists exactly if something was committed for it, and its row is
\* consistent and has a committed status.
RowsOK ==
  \A o \in Orders :
    \/ rows[o] = NoRow /\ committed[o] = {}
    \/ rows[o] # NoRow /\ Consistent(rows[o]) /\ rows[o].status \in committed[o]

\* Every status committed but the first follows from another committed one.
Grounded ==
  \A o \in Orders : \A s \in committed[o] : s = "PENDING" \/ Reachable(o, s)

\* A request about to insert holds a new order whose id nobody else has.
Inserting(r) ==
  /\ call[r] = CreateCall(call[r].order)
  /\ entity[r] = NewOrder
  /\ rows[call[r].order] = NoRow

\* A request about to update holds a row of an order that exists, with a status
\* that follows from one the order has held: the one it read.
Updating(r) ==
  /\ call[r].op # "create"
  /\ entity[r] \in Row
  /\ entity[r].status = call[r].status
  /\ Consistent(entity[r])
  /\ rows[call[r].order] # NoRow
  /\ Reachable(call[r].order, call[r].status)

WritersOK ==
  \A r \in Requests : pc[r] = "write" =>
    call[r] \in Calls /\ (Inserting(r) \/ Updating(r))

\* Two requests that are about to insert hold different ids.
FreshIds ==
  \A r, q \in Requests :
    /\ pc[r] = "write" /\ call[r].op = "create"
    /\ pc[q] = "write" /\ call[q].op = "create"
    /\ call[r].order = call[q].order
    => r = q

\* A request about to publish has committed the status that it announces.
PublishersOK ==
  \A r \in Requests : pc[r] = "publish" =>
    /\ call[r] \in Calls
    /\ call[r].status \in committed[call[r].order]

\* Only a request that is done has an answer, and a success answer is true.
AnswersOK ==
  \A r \in Requests :
    /\ pc[r] # "done" => reply[r] = "none"
    /\ reply[r] = "ok" =>
         /\ call[r] \in Calls
         /\ call[r].status \in committed[call[r].order]
         /\ ~Faults /\ Announces(call[r]) =>
              published[call[r].order][call[r].status] > 0

IInv ==
  /\ TypeOK
  /\ RowsOK
  /\ Grounded
  /\ WritersOK
  /\ FreshIds
  /\ PublishersOK
  /\ AnswersOK
  /\ AnnouncedWasCommitted

-----------------------------------------------------------------------------
(* The operators *)

\* CanTransitionTo's table, row by row (model.go:42-57).
LEMMA TransitionTable ==
  ASSUME NEW from, NEW to, CanTransitionTo(from, to)
  PROVE  /\ from \in Statuses /\ to \in Statuses
         /\ to # "PENDING"
         /\ to = "PAID" => from = "PENDING"
         /\ to = "PROCESSING" => from = "PAID"
         /\ to = "SHIPPED" => from = "PROCESSING"
         /\ to = "COMPLETED" => from = "SHIPPED"
         /\ to = "CANCELLED" => from \in {"PENDING", "PAID", "PROCESSING"}
BY DEF CanTransitionTo, Transitions, Statuses

\* The statuses that CancelOrder accepts, except CANCELLED itself, may be
\* cancelled by the table too.
LEMMA CancelTable ==
  ASSUME NEW from \in Statuses, from \notin {"SHIPPED", "COMPLETED", "CANCELLED"}
  PROVE  CanTransitionTo(from, "CANCELLED")
BY DEF CanTransitionTo, Transitions, Statuses

\* Editing a consistent row as the service does leaves it consistent: of the
\* entity that UpdateOrderStatus and CancelOrder write (service.go:126-139, 227-231).
LEMMA EditedConsistent ==
  ASSUME NEW c \in EditCalls, NEW row \in Row, Consistent(row), Allowed(c, row)
  PROVE  /\ Edited(c, row) \in Row
         /\ Edited(c, row).status = c.status
         /\ Consistent(Edited(c, row))
<1>1. CASE c.op = "cancel"
  <2>1. c.status = "CANCELLED"
    BY <1>1 DEF EditCalls
  <2>2. Edited(c, row) = Cancelled(row)
    BY <1>1 DEF Edited
  <2>3. row.status \notin {"SHIPPED", "COMPLETED"}
    BY <1>1 DEF Allowed
  <2> QED
    BY <2>1, <2>2, <2>3 DEF Cancelled, Row, Consistent, Statuses
<1>2. CASE c.op # "cancel"
  <2>1. Edited(c, row) = Transitioned(row, c.status)
    BY <1>2 DEF Edited
  <2>2. CanTransitionTo(row.status, c.status)
    BY <1>2 DEF Allowed
  <2>3. c.status \in Statuses
    BY DEF EditCalls, Statuses
  <2>4. Transitioned(row, c.status) \in Row
    BY <2>3 DEF Transitioned, Row
  <2>5. Transitioned(row, c.status).status = c.status
    BY DEF Transitioned, Row
  <2>6. Consistent(Transitioned(row, c.status))
    BY <2>2, <2>3, TransitionTable DEF Transitioned, Row, Consistent, Statuses
  <2> QED
    BY <2>1, <2>4, <2>5, <2>6
<1> QED
  BY <1>1, <1>2

\* NewOrder makes a consistent row (model.go:144-159).
LEMMA NewOrderRow ==
  /\ NewOrder \in Row
  /\ NewOrder.status = "PENDING"
  /\ Consistent(NewOrder)
BY DEF NewOrder, NoRow, Row, Consistent, Statuses

\* The saturating counter stays in its range and is positive once incremented.
LEMMA IncrementBound ==
  ASSUME NEW n \in 0..MaxCount
  PROVE  Increment(n) \in 1..MaxCount
BY MaxCountAssumption DEF Increment

-----------------------------------------------------------------------------
(* The inductive invariant *)

LEMMA InitIInv == Init => IInv
<1> SUFFICES ASSUME Init PROVE IInv
  OBVIOUS
<1>1. TypeOK
  BY MaxCountAssumption DEF Init, TypeOK, PCs, Replies
<1>2. RowsOK /\ Grounded /\ WritersOK /\ FreshIds /\ PublishersOK
  BY DEF Init, RowsOK, Grounded, WritersOK, FreshIds, PublishersOK
<1>3. AnswersOK /\ AnnouncedWasCommitted
  BY DEF Init, AnswersOK, AnnouncedWasCommitted
<1> QED
  BY <1>1, <1>2, <1>3 DEF IInv

\* A request that starts to hold an entity: only what is said of writers changes.
LEMMA HoldIInv ==
  ASSUME IInv, NEW r \in Requests, NEW c \in Calls, NEW e \in Row, Hold(r, c, e),
         \/ /\ c = CreateCall(c.order) /\ e = NewOrder /\ Fresh(c.order)
         \/ /\ c.op # "create" /\ e.status = c.status /\ Consistent(e)
            /\ rows[c.order] # NoRow /\ Reachable(c.order, c.status)
  PROVE  IInv'
<1>1. TypeOK'
  BY DEF IInv, TypeOK, Hold, PCs
<1>2. RowsOK' /\ Grounded' /\ AnnouncedWasCommitted'
  BY DEF IInv, Hold, RowsOK, Grounded, Reachable, AnnouncedWasCommitted
<1>3. WritersOK'
  BY DEF IInv, TypeOK, Hold, WritersOK, Inserting, Updating, Reachable, Fresh
<1>4. FreshIds'
  <2>1. ASSUME NEW q \in Requests, q # r, pc[q] = "write", call[q].op = "create",
               c.op = "create", call[q].order = c.order
        PROVE  FALSE
    <3>1. call[q] = CreateCall(c.order)
      BY <2>1 DEF IInv, WritersOK, Inserting, Updating
    <3> QED
      BY <2>1, <3>1 DEF Fresh
  <2> QED
    BY <2>1 DEF IInv, TypeOK, Hold, FreshIds
<1>5. PublishersOK' /\ AnswersOK'
  BY DEF IInv, TypeOK, Hold, PublishersOK, AnswersOK
<1> QED
  BY <1>1, <1>2, <1>3, <1>4, <1>5 DEF IInv

\* An early return changes nothing but the answer.
LEMMA ReturnIInv ==
  ASSUME IInv, NEW r \in Requests, NEW answer \in Replies \ {"ok"}, Return(r, answer)
  PROVE  IInv'
<1>1. TypeOK'
  BY DEF IInv, TypeOK, Return, PCs
<1>2. RowsOK' /\ Grounded' /\ AnnouncedWasCommitted'
  BY DEF IInv, Return, RowsOK, Grounded, Reachable, AnnouncedWasCommitted
<1>3. WritersOK' /\ FreshIds' /\ PublishersOK'
  BY DEF IInv, TypeOK, Return, WritersOK, Inserting, Updating, Reachable, FreshIds,
         PublishersOK
<1>4. AnswersOK'
  BY DEF IInv, TypeOK, Return, AnswersOK
<1> QED
  BY <1>1, <1>2, <1>3, <1>4 DEF IInv

\* What a commit does to the orders and to the other requests.  It is the same
\* for Write and WriteUnknown, which differ in what r does afterwards.
LEMMA CommitEffect ==
  ASSUME IInv, NEW r \in Requests, pc[r] = "write", Commit(r)
  PROVE  /\ call[r] \in Calls
         /\ rows' \in [Orders -> Row \cup {NoRow}]
         /\ rows' = [rows EXCEPT ![call[r].order] = entity[r]]
         /\ committed' \in [Orders -> SUBSET Statuses]
         /\ committed' = [committed EXCEPT ![call[r].order] = @ \cup {call[r].status}]
         /\ entity' = [entity EXCEPT ![r] = NoRow]
         /\ RowsOK'
         /\ Grounded'
         /\ \A o \in Orders : committed[o] \subseteq committed'[o]
         /\ \A o \in Orders, s \in Statuses : Reachable(o, s) => Reachable(o, s)'
<1> DEFINE o == call[r].order
           s == call[r].status
<1>1. /\ call[r] \in Calls
      /\ o \in Orders /\ s \in Statuses
      /\ Inserting(r) \/ Updating(r)
  BY DEF IInv, WritersOK, Calls
<1>2. /\ entity[r] \in Row
      /\ entity[r].status = s
      /\ Consistent(entity[r])
      /\ s = "PENDING" \/ Reachable(o, s)
  <2>1. CASE Inserting(r)
    <3>1. s = "PENDING"
      BY <2>1 DEF Inserting, CreateCall
    <3> QED
      BY <2>1, <3>1, NewOrderRow DEF Inserting
  <2>2. CASE Updating(r)
    BY <2>2 DEF Updating
  <2> QED
    BY <1>1, <2>1, <2>2
<1>3. rows' = [rows EXCEPT ![o] = entity[r]]
  BY DEF Commit, Stored
<1>4. committed' = [committed EXCEPT ![o] = @ \cup {s}]
  BY <1>2 DEF Commit, Stored
<1>5. entity' = [entity EXCEPT ![r] = NoRow]
  BY DEF Commit
<1>6. rows' \in [Orders -> Row \cup {NoRow}]
  BY <1>1, <1>2, <1>3 DEF IInv, TypeOK
<1>7. committed' \in [Orders -> SUBSET Statuses]
  BY <1>1, <1>4 DEF IInv, TypeOK
<1>8. \A p \in Orders : committed[p] \subseteq committed'[p]
  BY <1>1, <1>4 DEF IInv, TypeOK
<1>9. \A p \in Orders, t \in Statuses : Reachable(p, t) => Reachable(p, t)'
  BY <1>8 DEF Reachable
<1>10. entity[r] # NoRow
  BY <1>2 DEF Row, NoRow, Statuses
<1>11. RowsOK'
  BY <1>1, <1>2, <1>3, <1>4, <1>10 DEF IInv, TypeOK, RowsOK
<1>12. Grounded'
  BY <1>1, <1>2, <1>4, <1>9 DEF IInv, TypeOK, Grounded
<1> QED
  BY <1>1, <1>3, <1>4, <1>5, <1>6, <1>7, <1>8, <1>9, <1>11, <1>12

\* A commit leaves the other writers' entities good: those of an update stay
\* reachable, and nobody else was about to insert the same order.
LEMMA CommitWriters ==
  ASSUME IInv, NEW r \in Requests, pc[r] = "write", Commit(r),
         NEW q \in Requests, q # r, pc[q] = "write", call'[q] = call[q]
  PROVE  call'[q] \in Calls /\ (Inserting(q)' \/ Updating(q)')
<1>1. call[q] \in Calls /\ entity'[q] = entity[q]
  BY CommitEffect DEF IInv, TypeOK, WritersOK
<1>2. call[r] \in Calls /\ call[r].order \in Orders
  BY CommitEffect DEF Calls
<1>3. CASE Inserting(q)
  <2>1. call[r].order # call[q].order
    <3>1. call[q].op = "create"
      BY <1>3 DEF Inserting, CreateCall
    <3>2. CASE Inserting(r)
      BY <1>3, <3>1, <3>2 DEF IInv, FreshIds, Inserting, CreateCall
    <3>3. CASE Updating(r)
      BY <1>3, <3>3 DEF Inserting, Updating
    <3> QED
      BY <3>2, <3>3 DEF IInv, WritersOK
  <2>2. rows'[call[q].order] = rows[call[q].order]
    BY <1>1, <1>2, <2>1, CommitEffect DEF IInv, TypeOK, Calls
  <2> QED
    BY <1>1, <1>3, <2>2 DEF Inserting
<1>4. CASE Updating(q)
  <2>1. call[q].order \in Orders /\ call[q].status \in Statuses
    BY <1>1 DEF Calls
  <2>2. rows'[call[q].order] # NoRow
    <3>1. committed[call[q].order] # {}
      BY <1>4, <2>1 DEF IInv, RowsOK, Updating
    <3>2. committed'[call[q].order] # {}
      BY <2>1, <3>1, CommitEffect
    <3> QED
      BY <2>1, <3>2, CommitEffect DEF RowsOK
  <2>3. Reachable(call[q].order, call[q].status)'
    <3>1. Reachable(call[q].order, call[q].status)
      BY <1>4 DEF Updating
    <3>2. \E from \in committed'[call[q].order] : CanTransitionTo(from, call[q].status)
      BY <2>1, <3>1, CommitEffect DEF Reachable
    <3> QED
      BY <3>2 DEF Reachable
  <2> QED
    BY <1>1, <1>4, <2>2, <2>3 DEF Updating
<1> QED
  BY <1>3, <1>4 DEF IInv, WritersOK

\* A commit: afterwards r publishes, has its answer, or failed.
LEMMA CommitIInv ==
  ASSUME IInv, NEW r \in Requests, pc[r] = "write", Commit(r), UNCHANGED published,
         \/ /\ pc' = [pc EXCEPT ![r] = "publish"] /\ UNCHANGED <<call, reply>>
         \/ /\ pc' = [pc EXCEPT ![r] = "done"] /\ reply' = [reply EXCEPT ![r] = "ok"]
            /\ UNCHANGED call /\ ~Announces(call[r])
         \/ Fail(r)
  PROVE  IInv'
<1>1. TypeOK'
  <2>1. /\ pc' \in [Requests -> PCs]
        /\ call' \in [Requests -> Calls \cup {NoCall}]
        /\ reply' \in [Requests -> Replies]
    BY DEF IInv, TypeOK, Fail, PCs, Replies
  <2>2. entity' \in [Requests -> Row \cup {NoRow}]
    BY CommitEffect DEF IInv, TypeOK
  <2> QED
    BY <2>1, <2>2, CommitEffect DEF IInv, TypeOK
<1>2. RowsOK' /\ Grounded'
  BY CommitEffect
<1>3. \A q \in Requests : q # r => /\ pc'[q] = pc[q]
                                   /\ call'[q] = call[q]
                                   /\ reply'[q] = reply[q]
  BY DEF IInv, TypeOK, Fail
<1>4. pc'[r] \in {"publish", "done"}
  BY DEF IInv, TypeOK, Fail
<1>5. WritersOK'
  BY <1>3, <1>4, CommitWriters DEF WritersOK
<1>6. FreshIds'
  BY <1>3, <1>4 DEF IInv, FreshIds
<1>7. call[r].order \in Orders /\ call[r].status \in committed'[call[r].order]
  BY CommitEffect DEF IInv, TypeOK, Calls
<1>8. \A q \in Requests, s \in Statuses :
        call[q] \in Calls /\ s \in committed[call[q].order] => s \in committed'[call[q].order]
  BY CommitEffect DEF Calls
<1>9. PublishersOK'
  <2> SUFFICES ASSUME NEW q \in Requests, pc'[q] = "publish"
               PROVE  call'[q] \in Calls /\ call'[q].status \in committed'[call'[q].order]
    BY DEF PublishersOK
  <2>1. CASE q = r
    <3>1. call' = call
      BY <2>1 DEF IInv, TypeOK, Fail
    <3> QED
      BY <2>1, <3>1, <1>7, CommitEffect
  <2>2. CASE q # r
    BY <2>2, <1>3, <1>8 DEF IInv, PublishersOK, Calls
  <2> QED
    BY <2>1, <2>2
<1>10. AnswersOK'
  <2> SUFFICES ASSUME NEW q \in Requests
               PROVE  /\ pc'[q] # "done" => reply'[q] = "none"
                      /\ reply'[q] = "ok" =>
                           /\ call'[q] \in Calls
                           /\ call'[q].status \in committed'[call'[q].order]
                           /\ ~Faults /\ Announces(call'[q]) =>
                                published[call'[q].order][call'[q].status] > 0
    BY DEF AnswersOK, Announces
  <2>1. CASE q # r
    BY <2>1, <1>3, <1>8 DEF IInv, AnswersOK, Calls
  <2>2. CASE q = r
    BY <2>2, <1>7, CommitEffect DEF IInv, TypeOK, AnswersOK, Fail
  <2> QED
    BY <2>1, <2>2
<1>11. AnnouncedWasCommitted'
  BY CommitEffect DEF IInv, AnnouncedWasCommitted
<1> QED
  BY <1>1, <1>2, <1>5, <1>6, <1>9, <1>10, <1>11 DEF IInv

\* The steps after the write: no row changes any more.
LEMMA FinishIInv ==
  ASSUME IInv, NEW r \in Requests,
         WriteFails(r) \/ PublishFails(r) \/ Respond(r)
  PROVE  IInv'
<1>1. TypeOK'
  BY DEF IInv, TypeOK, WriteFails, Fail, PublishFails, Respond, PCs, Replies
<1>2. RowsOK' /\ Grounded' /\ AnnouncedWasCommitted'
  BY DEF IInv, WriteFails, PublishFails, Respond, RowsOK, Grounded, Reachable,
         AnnouncedWasCommitted
<1>3. /\ pc'[r] \in {"idle", "done"}
      /\ \A q \in Requests : q # r =>
           /\ pc'[q] = pc[q]
           /\ call'[q] = call[q]
           /\ entity'[q] = entity[q]
           /\ reply'[q] = reply[q]
  BY DEF IInv, TypeOK, WriteFails, Fail, PublishFails, Respond
<1>4. UNCHANGED <<rows, committed, published>>
  BY DEF WriteFails, PublishFails, Respond
<1>5. WritersOK' /\ FreshIds' /\ PublishersOK'
  BY <1>3, <1>4 DEF IInv, WritersOK, Inserting, Updating, Reachable, FreshIds, PublishersOK
<1>6. AnswersOK'
  <2>1. CASE PublishFails(r)
    BY <1>3, <1>4, <2>1 DEF IInv, TypeOK, PublishFails, AnswersOK, PublishersOK
  <2>2. CASE WriteFails(r)
    BY <1>3, <1>4, <2>2 DEF IInv, TypeOK, WriteFails, Fail, AnswersOK
  <2>3. CASE Respond(r)
    BY <1>3, <1>4, <2>3 DEF IInv, TypeOK, Respond, AnswersOK
  <2> QED
    BY <2>1, <2>2, <2>3
<1> QED
  BY <1>1, <1>2, <1>5, <1>6 DEF IInv

\* The counter of an event that r publishes goes up, every other one stays.
LEMMA PublishEffect ==
  ASSUME IInv, NEW r \in Requests, Publish(r)
  PROVE  /\ call[r].order \in Orders /\ call[r].status \in Statuses
         /\ call[r].status \in committed[call[r].order]
         /\ published' \in [Orders -> [Statuses -> 0..MaxCount]]
         /\ published'[call[r].order][call[r].status] > 0
         /\ \A o \in Orders, s \in Statuses :
              o # call[r].order \/ s # call[r].status => published'[o][s] = published[o][s]
<1> DEFINE o == call[r].order
           s == call[r].status
<1>1. o \in Orders /\ s \in Statuses /\ s \in committed[o]
  BY DEF IInv, PublishersOK, Publish, Calls
<1>2. published \in [Orders -> [Statuses -> 0..MaxCount]]
  BY DEF IInv, TypeOK
<1>3. published[o][s] \in 0..MaxCount
  BY <1>1, <1>2
<1>4. Increment(published[o][s]) \in 1..MaxCount
  BY <1>3, IncrementBound
<1>5. published' = [published EXCEPT ![o] = [published[o] EXCEPT ![s] = Increment(published[o][s])]]
  BY <1>1, <1>2 DEF Publish
<1>6. [published[o] EXCEPT ![s] = Increment(published[o][s])] \in [Statuses -> 0..MaxCount]
  BY <1>1, <1>2, <1>4
<1>7. published' \in [Orders -> [Statuses -> 0..MaxCount]]
  BY <1>1, <1>2, <1>5, <1>6
<1>8. published'[o][s] = Increment(published[o][s])
  BY <1>1, <1>2, <1>5
<1>9. \A p \in Orders, t \in Statuses : p # o \/ t # s => published'[p][t] = published[p][t]
  BY <1>1, <1>2, <1>5
<1> QED
  BY <1>1, <1>4, <1>7, <1>8, <1>9

LEMMA PublishIInv ==
  ASSUME IInv, NEW r \in Requests, Publish(r)
  PROVE  IInv'
<1>1. TypeOK'
  BY PublishEffect DEF IInv, TypeOK, Publish, PCs, Replies
<1>2. RowsOK' /\ Grounded'
  BY DEF IInv, Publish, RowsOK, Grounded, Reachable
<1>3. WritersOK' /\ FreshIds' /\ PublishersOK'
  BY DEF IInv, TypeOK, Publish, WritersOK, Inserting, Updating, Reachable, FreshIds,
         PublishersOK
<1>4. AnnouncedWasCommitted'
  <2> SUFFICES ASSUME NEW o \in Orders, NEW s \in Statuses, published'[o][s] > 0
               PROVE  s \in committed[o]
    BY DEF AnnouncedWasCommitted, Publish
  <2>1. CASE o = call[r].order /\ s = call[r].status
    BY <2>1, PublishEffect
  <2>2. CASE o # call[r].order \/ s # call[r].status
    <3>1. published[o][s] > 0
      BY <2>2, PublishEffect
    <3> QED
      BY <3>1 DEF IInv, AnnouncedWasCommitted
  <2> QED
    BY <2>1, <2>2
<1>5. \A o \in Orders, s \in Statuses : published[o][s] > 0 => published'[o][s] > 0
  BY PublishEffect
<1>6. call' = call /\ committed' = committed
  BY DEF Publish
<1>7. AnswersOK'
  <2> SUFFICES ASSUME NEW q \in Requests
               PROVE  /\ pc'[q] # "done" => reply'[q] = "none"
                      /\ reply'[q] = "ok" =>
                           /\ call[q] \in Calls
                           /\ call[q].status \in committed[call[q].order]
                           /\ ~Faults /\ Announces(call[q]) =>
                                published'[call[q].order][call[q].status] > 0
    BY <1>6 DEF AnswersOK, Announces
  <2>1. CASE q = r
    BY <2>1, PublishEffect DEF IInv, TypeOK, Publish, PublishersOK
  <2>2. CASE q # r
    BY <2>2, <1>5 DEF IInv, TypeOK, Publish, AnswersOK, Calls
  <2> QED
    BY <2>1, <2>2
<1> QED
  BY <1>1, <1>2, <1>3, <1>4, <1>7 DEF IInv

\* A crash forgets requests and leaves the table and the broker as they are.
LEMMA CrashIInv ==
  ASSUME IInv, NEW lost \in SUBSET Requests, Crash(lost)
  PROVE  IInv'
<1>1. TypeOK'
  BY DEF IInv, TypeOK, Crash, PCs, Replies
<1>2. RowsOK' /\ Grounded' /\ AnnouncedWasCommitted'
  BY DEF IInv, Crash, RowsOK, Grounded, Reachable, AnnouncedWasCommitted
<1>3. WritersOK' /\ FreshIds' /\ PublishersOK'
  BY DEF IInv, Crash, WritersOK, Inserting, Updating, Reachable, FreshIds, PublishersOK
<1>4. AnswersOK'
  BY DEF IInv, Crash, AnswersOK
<1> QED
  BY <1>1, <1>2, <1>3, <1>4 DEF IInv

-----------------------------------------------------------------------------
(* Every step preserves the invariant *)

\* store.Get and the check of the status leave an entity that fits the order.
LEMMA PrepareIInv ==
  ASSUME IInv, NEW r \in Requests, NEW c \in EditCalls, Prepare(r, c)
  PROVE  IInv'
<1> DEFINE o == c.order
           e == Edited(c, rows[o])
<1>1. c \in Calls /\ o \in Orders /\ c.op # "create"
  BY DEF EditCalls, Calls, Ops, Statuses
<1>2. rows[o] \in Row /\ Consistent(rows[o]) /\ rows[o].status \in committed[o]
  BY <1>1 DEF IInv, TypeOK, RowsOK, Prepare
<1>3. e \in Row /\ e.status = c.status /\ Consistent(e)
  BY <1>2, EditedConsistent DEF Prepare
<1>4. Reachable(o, c.status)
  <2>1. CASE c.op = "cancel"
    <3>1. c.status = "CANCELLED" /\ rows[o].status \notin {"SHIPPED", "COMPLETED"}
      BY <2>1 DEF EditCalls, Prepare, Allowed
    <3>2. CASE rows[o].status = "CANCELLED"
      BY <1>1, <1>2, <3>1, <3>2 DEF IInv, Grounded
    <3>3. CASE rows[o].status # "CANCELLED"
      BY <1>2, <3>1, <3>3, CancelTable DEF Reachable, Row
    <3> QED
      BY <3>2, <3>3
  <2>2. CASE c.op # "cancel"
    BY <1>2, <2>2 DEF Prepare, Allowed, Reachable
  <2> QED
    BY <2>1, <2>2
<1>5. Hold(r, c, e) /\ rows[o] # NoRow
  BY DEF Prepare
<1> QED
  BY <1>1, <1>3, <1>4, <1>5, HoldIInv

LEMMA NextIInv == IInv /\ [Next]_vars => IInv'
<1> SUFFICES ASSUME IInv, [Next]_vars PROVE IInv'
  OBVIOUS
<1>1. ASSUME NEW r \in Requests, NEW o \in Orders, BeginCreate(r, o) PROVE IInv'
  <2>1. CreateCall(o) \in Calls /\ CreateCall(o).order = o
    BY DEF CreateCall, Calls, Ops, Statuses
  <2> QED
    BY <1>1, <2>1, NewOrderRow, HoldIInv DEF BeginCreate
<1>2. ASSUME NEW r \in Requests, RejectRequest(r) \/ LoadFails(r) PROVE IInv'
  BY <1>2, ReturnIInv DEF RejectRequest, LoadFails, Replies
<1>3. ASSUME NEW r \in Requests, NEW c \in EditCalls, NotFound(r, c) \/ Refuse(r, c)
      PROVE IInv'
  BY <1>3, ReturnIInv DEF NotFound, Refuse, Replies
<1>4. ASSUME NEW r \in Requests, NEW c \in EditCalls, Prepare(r, c) PROVE IInv'
  BY <1>4, PrepareIInv
<1>5. ASSUME NEW r \in Requests, Write(r) PROVE IInv'
  BY <1>5, CommitIInv DEF Write
<1>6. ASSUME NEW r \in Requests, WriteUnknown(r) PROVE IInv'
  BY <1>6, CommitIInv DEF WriteUnknown
<1>7. ASSUME NEW r \in Requests, WriteFails(r) \/ PublishFails(r) \/ Respond(r) PROVE IInv'
  BY <1>7, FinishIInv
<1>8. ASSUME NEW r \in Requests, Publish(r) PROVE IInv'
  BY <1>8, PublishIInv
<1>9. ASSUME NEW lost \in SUBSET Requests, Crash(lost) PROVE IInv'
  BY <1>9, CrashIInv
<1>10. CASE UNCHANGED vars
  BY <1>10 DEF vars, IInv, TypeOK, RowsOK, Grounded, Reachable, WritersOK, Inserting,
     Updating, FreshIds, PublishersOK, AnswersOK, AnnouncedWasCommitted
<1> QED
  BY <1>1, <1>2, <1>3, <1>4, <1>5, <1>6, <1>7, <1>8, <1>9, <1>10 DEF Next

\* The inductive invariant holds in every reachable state, for any number of
\* racing requests and whatever fails.
THEOREM Invariant == Spec => []IInv
<1> QED
  BY InitIInv, NextIInv, PTL DEF Spec

\* Every variable keeps its type.
THEOREM TypeCorrect == Spec => []TypeOK
<1>1. IInv => TypeOK
  BY DEF IInv
<1> QED
  BY <1>1, Invariant, PTL

\* Racing requests overwrite each other's rows but never mix them: the stored
\* timestamps are those of the stored status.
THEOREM RowsAreConsistent == Spec => []RowConsistent
<1>1. IInv => RowConsistent
  BY DEF IInv, RowsOK, RowConsistent, Exists
<1> QED
  BY <1>1, Invariant, PTL

\* No order is ever shipped that was not paid and put in processing before,
\* nor completed without having been shipped.
THEOREM NothingIsSkipped == Spec => []ShippedWasPaid
<1>1. ASSUME IInv, NEW o \in Orders, NEW s \in committed[o], s # "PENDING"
      PROVE  \E from \in committed[o] : CanTransitionTo(from, s)
  BY <1>1 DEF IInv, Grounded, Reachable
<1>2. IInv => ShippedWasPaid
  <2> SUFFICES ASSUME IInv, NEW o \in Orders
               PROVE  /\ "SHIPPED" \in committed[o] =>
                           {"PENDING", "PAID", "PROCESSING"} \subseteq committed[o]
                      /\ "COMPLETED" \in committed[o] => "SHIPPED" \in committed[o]
    BY DEF ShippedWasPaid
  <2>1. "COMPLETED" \in committed[o] => "SHIPPED" \in committed[o]
    BY <1>1, TransitionTable
  <2>2. "SHIPPED" \in committed[o] => "PROCESSING" \in committed[o]
    BY <1>1, TransitionTable
  <2>3. "PROCESSING" \in committed[o] => "PAID" \in committed[o]
    BY <1>1, TransitionTable
  <2>4. "PAID" \in committed[o] => "PENDING" \in committed[o]
    BY <1>1, TransitionTable
  <2> QED
    BY <2>1, <2>2, <2>3, <2>4
<1> QED
  BY <1>2, Invariant, PTL

\* An event never announces a status that was not committed, whatever fails.
THEOREM EventsAreTrue == Spec => []AnnouncedWasCommitted
<1>1. IInv => AnnouncedWasCommitted
  BY DEF IInv
<1> QED
  BY <1>1, Invariant, PTL

\* A success answer is never wrong about the order, and, without faults, never
\* given before the event is out.
THEOREM AnswersAreTrue == Spec => []AnsweredIsDone
<1>1. IInv => AnsweredIsDone
  BY DEF IInv, AnswersOK, AnsweredIsDone
<1> QED
  BY <1>1, Invariant, PTL

-----------------------------------------------------------------------------
(* The service implements its contract *)

LEMMA WeakInit == Init => Weak!Init
BY DEF Init, Weak!Init, Weak!NoStatus, StatusOf, AnnouncedOf, NoRow

\* An existing row's status is not the one that stands for no row.
LEMMA ExistsStatus ==
  ASSUME IInv, NEW o \in Orders
  PROVE  rows[o] = NoRow <=> StatusOf(o) = "NONE"
BY DEF IInv, TypeOK, StatusOf, NoRow, Row, Statuses

\* A commit places the order or advances it from a status that it has held.
LEMMA CommitRefines ==
  ASSUME IInv, NEW r \in Requests, pc[r] = "write", Commit(r), UNCHANGED published
  PROVE  Weak!Next
<1> DEFINE o == call[r].order
           s == call[r].status
<1>1. o \in Orders /\ s \in Statuses
  BY CommitEffect DEF Calls
<1>2. entity[r].status = s /\ (Inserting(r) \/ Updating(r))
  BY NewOrderRow DEF IInv, WritersOK, Inserting, Updating, CreateCall
<1>3. Weak!SetStatus(o, s)
  <2>1. [p \in Orders |-> StatusOf(p)]' = [[p \in Orders |-> StatusOf(p)] EXCEPT ![o] = s]
    <3>1. rows \in [Orders -> Row \cup {NoRow}] /\ rows' = [rows EXCEPT ![o] = entity[r]]
      BY CommitEffect DEF IInv, TypeOK
    <3>2. \A p \in Orders : rows'[p] = IF p = o THEN entity[r] ELSE rows[p]
      BY <1>1, <3>1
    <3>3. \A p \in Orders : StatusOf(p)' = IF p = o THEN s ELSE StatusOf(p)
      BY <1>2, <3>2 DEF StatusOf
    <3> QED
      BY <1>1, <3>3
  <2>2. committed' = [committed EXCEPT ![o] = @ \cup {s}]
    BY CommitEffect
  <2>3. [p \in Orders |-> AnnouncedOf(p)]' = [p \in Orders |-> AnnouncedOf(p)]
    BY DEF AnnouncedOf
  <2> QED
    BY <2>1, <2>2, <2>3 DEF Weak!SetStatus
<1>4. CASE Inserting(r)
  <2>1. s = "PENDING"
    BY <1>4 DEF Inserting, CreateCall
  <2>2. Weak!Place(o)
    BY <1>1, <1>3, <1>4, <2>1, ExistsStatus DEF Weak!Place, Weak!NoStatus, Inserting
  <2> QED
    BY <1>1, <2>2 DEF Weak!Next
<1>5. CASE Updating(r)
  <2>1. \E from \in committed[o] : Weak!CanTransitionTo(from, s)
    BY <1>5 DEF Updating, Reachable, CanTransitionTo, Transitions,
       Weak!CanTransitionTo, Weak!Transitions
  <2>2. Weak!Advance(o, s)
    BY <1>1, <1>3, <1>5, <2>1, ExistsStatus DEF Weak!Advance, Weak!NoStatus, Weak!Bases, Updating
  <2> QED
    BY <1>1, <2>2 DEF Weak!Next, Weak!Statuses, Statuses
<1> QED
  BY <1>2, <1>4, <1>5

LEMMA PublishRefines ==
  ASSUME IInv, NEW r \in Requests, Publish(r)
  PROVE  Weak!Next
<1> DEFINE o == call[r].order
           s == call[r].status
<1>1. o \in Orders /\ s \in Statuses /\ s \in committed[o]
  BY PublishEffect
<1>2. \A p \in Orders : AnnouncedOf(p)' = IF p = o THEN AnnouncedOf(p) \cup {s} ELSE AnnouncedOf(p)
  BY <1>1, PublishEffect DEF AnnouncedOf
<1>3. [p \in Orders |-> AnnouncedOf(p)]' =
        [[p \in Orders |-> AnnouncedOf(p)] EXCEPT ![o] = @ \cup {s}]
  BY <1>1, <1>2
<1>4. [p \in Orders |-> StatusOf(p)]' = [p \in Orders |-> StatusOf(p)] /\ UNCHANGED committed
  BY DEF Publish, StatusOf
<1>5. Weak!Announce(o, s)
  BY <1>1, <1>3, <1>4 DEF Weak!Announce, Weak!Bases
<1> QED
  BY <1>1, <1>5 DEF Weak!Next, Weak!Statuses, Statuses

\* A step that leaves the table and the broker alone is a stutter.
LEMMA OtherRefines ==
  ASSUME UNCHANGED <<rows, committed, published>>
  PROVE  UNCHANGED Weak!vars
BY DEF Weak!vars, StatusOf, AnnouncedOf

LEMMA WeakStep == IInv /\ [Next]_vars => [Weak!Next]_Weak!vars
<1> SUFFICES ASSUME IInv, [Next]_vars PROVE [Weak!Next]_Weak!vars
  OBVIOUS
<1>1. ASSUME NEW r \in Requests, Write(r) \/ WriteUnknown(r) PROVE Weak!Next
  BY <1>1, CommitRefines DEF Write, WriteUnknown
<1>2. ASSUME NEW r \in Requests, Publish(r) PROVE Weak!Next
  BY <1>2, PublishRefines
<1>3. ASSUME NEW r \in Requests, NEW o \in Orders, BeginCreate(r, o)
      PROVE UNCHANGED Weak!vars
  BY <1>3, OtherRefines DEF BeginCreate, Hold
<1>4. ASSUME NEW r \in Requests, NEW c \in EditCalls,
             NotFound(r, c) \/ Refuse(r, c) \/ Prepare(r, c)
      PROVE UNCHANGED Weak!vars
  BY <1>4, OtherRefines DEF NotFound, Refuse, Prepare, Return, Hold
<1>5. ASSUME NEW r \in Requests, RejectRequest(r) \/ LoadFails(r) \/ WriteFails(r)
                                 \/ PublishFails(r) \/ Respond(r)
      PROVE UNCHANGED Weak!vars
  BY <1>5, OtherRefines DEF RejectRequest, LoadFails, Return, WriteFails, PublishFails, Respond
<1>6. ASSUME NEW lost \in SUBSET Requests, Crash(lost) PROVE UNCHANGED Weak!vars
  BY <1>6, OtherRefines DEF Crash
<1>7. CASE UNCHANGED vars
  BY <1>7, OtherRefines DEF vars
<1> QED
  BY <1>1, <1>2, <1>3, <1>4, <1>5, <1>6, <1>7 DEF Next

\* The service, with its races and its failures, implements the weak contract.
THEOREM ServiceKeepsContract == Spec => KeepsContract
<1> QED
  BY Invariant, WeakInit, WeakStep, PTL DEF Spec, KeepsContract, Weak!Spec

-----------------------------------------------------------------------------
(* Requests that do not overlap keep the documented state machine *)

\* No two requests are between the read and the event of the same order.
NoOverlap ==
  \A q, r \in Requests :
    q # r /\ pc[q] \in {"write", "publish"} /\ pc[r] \in {"write", "publish"}
      => call[q].order # call[r].order

\* The statuses that an order may have held, by the one that it has.
Past ==
  [ PENDING    |-> {"PENDING"},
    PAID       |-> {"PENDING", "PAID"},
    PROCESSING |-> {"PENDING", "PAID", "PROCESSING"},
    SHIPPED    |-> {"PENDING", "PAID", "PROCESSING", "SHIPPED"},
    COMPLETED  |-> {"PENDING", "PAID", "PROCESSING", "SHIPPED", "COMPLETED"},
    CANCELLED  |-> {"PENDING", "PAID", "PROCESSING", "CANCELLED"} ]

\* The status that r writes follows from the one that its order has.
FollowsRow(r) ==
  LET from == StatusOf(call[r].order)
  IN CanTransitionTo(from, call[r].status) \/ (from = "CANCELLED" /\ call[r].status = "CANCELLED")

\* What holds of requests that do not overlap: the row that one has read is still
\* the current one when it writes, and what it is about to announce is the
\* current status, and news.
SerialOK(r) ==
  /\ pc[r] = "write" /\ call[r].op # "create" => FollowsRow(r)
  /\ pc[r] = "publish" =>
       /\ StatusOf(call[r].order) = call[r].status
       /\ call[r].status # "CANCELLED" => published[call[r].order][call[r].status] = 0

OnceOK(o) ==
  /\ Exists(o) => committed[o] \subseteq Past[rows[o].status]
  /\ \A s \in Statuses : s # "CANCELLED" => published[o][s] <= 1

SerialInv ==
  /\ \A r \in Requests : SerialOK(r)
  /\ \A o \in Orders : OnceOK(o)

\* The past grows along the table, by a status that is new.
LEMMA PastGrows ==
  ASSUME NEW from \in Statuses, NEW to \in Statuses, CanTransitionTo(from, to)
  PROVE  Past[from] \cup {to} \subseteq Past[to] /\ to \notin Past[from]
BY DEF CanTransitionTo, Transitions, Past, Statuses

LEMMA InitSerialInv == Init => SerialInv
BY DEF Init, SerialInv, SerialOK, OnceOK, Exists

\* Requests that return, fail or end leave it all as it is.
LEMMA SerialStays ==
  ASSUME SerialInv, UNCHANGED <<rows, committed, published>>,
         \A r \in Requests :
           \/ pc'[r] = pc[r] /\ call'[r] = call[r]
           \/ pc'[r] \notin {"write", "publish"}
  PROVE  SerialInv'
<1>1. \A o \in Orders : OnceOK(o)'
  BY DEF SerialInv, OnceOK, Exists
<1>2. ASSUME NEW r \in Requests
      PROVE  SerialOK(r)'
  <2>1. CASE pc'[r] = pc[r] /\ call'[r] = call[r]
    BY <2>1 DEF SerialInv, SerialOK, FollowsRow, StatusOf
  <2>2. CASE pc'[r] \notin {"write", "publish"}
    BY <2>2 DEF SerialOK
  <2>3. QED
    BY <1>2, <2>1, <2>2
<1>3. QED
  BY <1>1, <1>2 DEF SerialInv

\* A request begins to hold an entity: of a new order, or of the row as it is.
LEMMA HoldSerial ==
  ASSUME IInv, SerialInv, NEW r \in Requests, NEW c, NEW e, Hold(r, c, e),
         \/ c.op = "create"
         \/ CanTransitionTo(StatusOf(c.order), c.status)
         \/ StatusOf(c.order) = "CANCELLED" /\ c.status = "CANCELLED"
  PROVE  SerialInv'
<1>1. /\ pc' = [pc EXCEPT ![r] = "write"] /\ call' = [call EXCEPT ![r] = c]
      /\ UNCHANGED <<rows, committed, published>>
  BY DEF Hold
<1>2. \A o \in Orders : OnceOK(o)'
  BY <1>1 DEF SerialInv, OnceOK, Exists
<1>3. pc'[r] = "write" /\ call'[r] = c
  BY <1>1 DEF IInv, TypeOK
<1>4. SerialOK(r)'
  BY <1>1, <1>3 DEF SerialOK, FollowsRow, StatusOf
<1>5. ASSUME NEW q \in Requests, q # r
      PROVE  SerialOK(q)'
  <2>1. pc'[q] = pc[q] /\ call'[q] = call[q]
    BY <1>1, <1>5 DEF IInv, TypeOK
  <2>2. QED
    BY <1>1, <2>1 DEF SerialInv, SerialOK, FollowsRow, StatusOf
<1>6. QED
  BY <1>2, <1>4, <1>5 DEF SerialInv

LEMMA PrepareSerial ==
  ASSUME IInv, SerialInv, NEW r \in Requests, NEW c \in EditCalls, Prepare(r, c)
  PROVE  SerialInv'
<1>1. /\ rows[c.order] # NoRow /\ Allowed(c, rows[c.order])
      /\ Hold(r, c, Edited(c, rows[c.order])) /\ c.order \in Orders
  BY DEF Prepare, EditCalls
<1>2. StatusOf(c.order) \in Statuses
  BY <1>1 DEF IInv, TypeOK, StatusOf, Row
<1>3. CASE c.op = "cancel"
  <2>1. c.status = "CANCELLED" /\ StatusOf(c.order) \notin {"SHIPPED", "COMPLETED"}
    BY <1>1, <1>3 DEF EditCalls, Allowed, StatusOf
  <2>2. \/ CanTransitionTo(StatusOf(c.order), c.status)
        \/ StatusOf(c.order) = "CANCELLED" /\ c.status = "CANCELLED"
    BY <1>2, <2>1, CancelTable
  <2>3. QED
    BY <1>1, <2>2, HoldSerial
<1>4. CASE c.op # "cancel"
  BY <1>1, <1>4, HoldSerial DEF Allowed, StatusOf
<1>5. QED
  BY <1>3, <1>4

\* What a commit does to the order when nobody else works on it: it is placed,
\* it advances from the status that it has, or it is cancelled once more.
LEMMA SerialCommit ==
  ASSUME IInv, SerialInv, NEW r \in Requests, pc[r] = "write", Commit(r),
         NEW o \in Orders, o = call[r].order, NEW s \in Statuses, s = call[r].status
  PROVE  /\ rows \in [Orders -> Row \cup {NoRow}] /\ rows' = [rows EXCEPT ![o] = entity[r]]
         /\ entity[r] \in Row /\ entity[r].status = s
         /\ committed' = [committed EXCEPT ![o] = @ \cup {s}]
         /\ \/ rows[o] = NoRow /\ committed[o] = {} /\ s = "PENDING"
            \/ /\ rows[o] # NoRow
               /\ \/ CanTransitionTo(rows[o].status, s)
                  \/ rows[o].status = "CANCELLED" /\ s = "CANCELLED"
<1>1. /\ call[r] \in Calls /\ s \in Statuses /\ (Inserting(r) \/ Updating(r))
      /\ rows \in [Orders -> Row \cup {NoRow}] /\ rows' = [rows EXCEPT ![o] = entity[r]]
      /\ committed' = [committed EXCEPT ![o] = @ \cup {s}]
  BY CommitEffect DEF IInv, TypeOK, WritersOK, Calls
<1>2. CASE Inserting(r)
  <2>1. s = "PENDING" /\ entity[r] \in Row /\ entity[r].status = "PENDING"
    BY <1>2, NewOrderRow DEF Inserting, CreateCall
  <2>2. rows[o] = NoRow /\ committed[o] = {}
    BY <1>2 DEF Inserting, IInv, RowsOK
  <2>3. QED
    BY <1>1, <2>1, <2>2
<1>3. CASE Updating(r)
  <2>1. FollowsRow(r)
    BY <1>3 DEF Updating, SerialInv, SerialOK
  <2>2. rows[o] # NoRow /\ entity[r] \in Row /\ entity[r].status = s
    BY <1>3 DEF Updating
  <2>3. QED
    BY <1>1, <2>1, <2>2 DEF FollowsRow, StatusOf
<1>4. QED
  BY <1>1, <1>2, <1>3

LEMMA WriteSerial ==
  ASSUME IInv, SerialInv, NoOverlap, NEW r \in Requests, Write(r) \/ WriteUnknown(r)
  PROVE  SerialInv'
<1>1. PICK o \in Orders : o = call[r].order
  BY CommitEffect DEF Write, WriteUnknown, Calls
<1>2. PICK s \in Statuses : s = call[r].status
  BY CommitEffect DEF Write, WriteUnknown, Calls
<1>3. /\ pc[r] = "write" /\ UNCHANGED published
      /\ rows \in [Orders -> Row \cup {NoRow}] /\ rows' = [rows EXCEPT ![o] = entity[r]]
      /\ entity[r] \in Row /\ entity[r].status = s
      /\ committed \in [Orders -> SUBSET Statuses]
      /\ committed' = [committed EXCEPT ![o] = @ \cup {s}]
      /\ \/ rows[o] = NoRow /\ committed[o] = {} /\ s = "PENDING"
         \/ /\ rows[o] # NoRow
            /\ \/ CanTransitionTo(rows[o].status, s)
               \/ rows[o].status = "CANCELLED" /\ s = "CANCELLED"
  <2>1. pc[r] = "write" /\ Commit(r) /\ UNCHANGED published
    BY DEF Write, WriteUnknown
  <2>2. committed \in [Orders -> SUBSET Statuses]
    BY DEF IInv, TypeOK
  <2>3. QED
    BY <1>1, <1>2, <2>1, <2>2, SerialCommit
<1>4. /\ rows'[o].status = s /\ committed'[o] = committed[o] \cup {s}
      /\ \A p \in Orders : p # o => rows'[p] = rows[p] /\ committed'[p] = committed[p]
  BY <1>3
<1>5. rows[o] # NoRow => rows[o].status \in Statuses /\ committed[o] \subseteq Past[rows[o].status]
  BY <1>3 DEF SerialInv, OnceOK, Exists, Row
<1>6. committed'[o] \subseteq Past[s] /\ (s # "CANCELLED" => s \notin committed[o])
  <2>1. CASE rows[o] = NoRow
    BY <1>3, <1>4, <2>1 DEF Past, NoRow
  <2>2. CASE rows[o] # NoRow /\ CanTransitionTo(rows[o].status, s)
    BY <1>4, <1>5, <2>2, PastGrows
  <2>3. CASE rows[o] # NoRow /\ rows[o].status = "CANCELLED" /\ s = "CANCELLED"
    BY <1>4, <1>5, <2>3 DEF Past
  <2>4. QED
    BY <1>3, <2>1, <2>2, <2>3
<1>7. \A p \in Orders : OnceOK(p)'
  <2>1. OnceOK(o)'
    BY <1>3, <1>4, <1>6 DEF SerialInv, OnceOK
  <2>2. \A p \in Orders : p # o => OnceOK(p)'
    BY <1>3, <1>4 DEF SerialInv, OnceOK, Exists
  <2>3. QED
    BY <2>1, <2>2
<1>8. SerialOK(r)'
  <2>1. CASE pc'[r] = "publish"
    <3>1. call'[r] = call[r]
      BY <2>1 DEF Write, WriteUnknown, Fail, IInv, TypeOK
    <3>2. s # "CANCELLED" => published[o][s] = 0
      <4>1. published[o][s] \in Nat /\ (published[o][s] > 0 => s \in committed[o])
        BY MaxCountAssumption DEF IInv, TypeOK, AnnouncedWasCommitted
      <4>2. QED
        BY <1>6, <4>1
    <3>3. QED
      BY <1>1, <1>2, <1>3, <1>4, <2>1, <3>1, <3>2 DEF SerialOK, StatusOf
  <2>2. CASE pc'[r] # "publish"
    <3>1. pc'[r] # "write"
      BY DEF Write, WriteUnknown, Fail, IInv, TypeOK
    <3>2. QED
      BY <2>2, <3>1 DEF SerialOK
  <2>3. QED
    BY <2>1, <2>2
<1>9. ASSUME NEW q \in Requests, q # r
      PROVE  SerialOK(q)'
  <2>1. pc'[q] = pc[q] /\ call'[q] = call[q]
    BY <1>9 DEF Write, WriteUnknown, Fail, IInv, TypeOK
  <2>2. CASE pc[q] \in {"write", "publish"}
    <3>1. call[q].order # o /\ call[q].order \in Orders
      BY <1>1, <1>3, <1>9, <2>2 DEF NoOverlap, IInv, WritersOK, PublishersOK, Calls
    <3>2. StatusOf(call[q].order)' = StatusOf(call[q].order)
      BY <1>4, <2>1, <3>1 DEF StatusOf
    <3>3. QED
      BY <1>3, <2>1, <3>2 DEF SerialInv, SerialOK, FollowsRow
  <2>3. CASE pc[q] \notin {"write", "publish"}
    BY <2>1, <2>3 DEF SerialOK
  <2>4. QED
    BY <2>2, <2>3
<1>10. QED
  BY <1>7, <1>8, <1>9 DEF SerialInv

LEMMA PublishSerial ==
  ASSUME IInv, SerialInv, NoOverlap, NEW r \in Requests, Publish(r)
  PROVE  SerialInv'
<1>1. PICK o \in Orders : o = call[r].order
  BY PublishEffect
<1>2. PICK s \in Statuses : s = call[r].status
  BY PublishEffect
<1>3. /\ pc[r] = "publish" /\ UNCHANGED <<rows, call, committed>>
      /\ pc' = [pc EXCEPT ![r] = "done"]
      /\ published' = [published EXCEPT ![o][s] = Increment(@)]
      /\ published \in [Orders -> [Statuses -> 0..MaxCount]]
  BY <1>1, <1>2 DEF Publish, IInv, TypeOK
<1>4. \A p \in Orders, t \in Statuses :
        published'[p][t] = IF p = o /\ t = s THEN Increment(published[p][t]) ELSE published[p][t]
  BY <1>3
<1>5. s # "CANCELLED" => published[o][s] = 0
  BY <1>1, <1>2, <1>3 DEF SerialInv, SerialOK
<1>6. Increment(0) = 1
  BY MaxCountAssumption DEF Increment
<1>7. ASSUME NEW p \in Orders
      PROVE  OnceOK(p)'
  BY <1>3, <1>4, <1>5, <1>6 DEF SerialInv, OnceOK, Exists
<1>8. SerialOK(r)'
  BY <1>3 DEF SerialOK, IInv, TypeOK
<1>9. ASSUME NEW q \in Requests, q # r
      PROVE  SerialOK(q)'
  <2>1. pc'[q] = pc[q] /\ call'[q] = call[q]
    BY <1>3, <1>9 DEF IInv, TypeOK
  <2>2. CASE pc[q] = "publish"
    <3>1. call[q].order # o /\ call[q].order \in Orders /\ call[q].status \in Statuses
      BY <1>1, <1>3, <1>9, <2>2 DEF NoOverlap, IInv, PublishersOK, Calls
    <3>2. published'[call[q].order][call[q].status] = published[call[q].order][call[q].status]
      BY <1>4, <3>1
    <3>3. QED
      BY <1>3, <2>1, <2>2, <3>2 DEF SerialInv, SerialOK, StatusOf
  <2>3. CASE pc[q] # "publish"
    BY <1>3, <2>1, <2>3 DEF SerialInv, SerialOK, FollowsRow, StatusOf
  <2>4. QED
    BY <2>2, <2>3
<1>10. QED
  BY <1>7, <1>8, <1>9 DEF SerialInv

LEMMA NextSerialInv == IInv /\ SerialInv /\ NoOverlap /\ [Next]_vars => SerialInv'
<1> SUFFICES ASSUME IInv, SerialInv, NoOverlap, [Next]_vars
             PROVE  SerialInv'
  OBVIOUS
<1>1. ASSUME NEW r \in Requests, NEW o \in Orders, BeginCreate(r, o)
      PROVE  SerialInv'
  <2>1. CreateCall(o).op = "create"
    BY DEF CreateCall
  <2>2. QED
    BY <1>1, <2>1, HoldSerial DEF BeginCreate
<1>2. ASSUME NEW r \in Requests, NEW c \in EditCalls, Prepare(r, c)
      PROVE  SerialInv'
  BY <1>2, PrepareSerial
<1>3. ASSUME NEW r \in Requests, NEW answer, Return(r, answer)
      PROVE  SerialInv'
  <2>1. \A q \in Requests :
          (pc'[q] = pc[q] /\ call'[q] = call[q]) \/ pc'[q] \notin {"write", "publish"}
    BY <1>3 DEF Return, IInv, TypeOK
  <2>2. QED
    BY <1>3, <2>1, SerialStays DEF Return
<1>4. ASSUME NEW r \in Requests, RejectRequest(r) \/ LoadFails(r)
      PROVE  SerialInv'
  BY <1>3, <1>4 DEF RejectRequest, LoadFails
<1>5. ASSUME NEW r \in Requests, NEW c \in EditCalls, NotFound(r, c) \/ Refuse(r, c)
      PROVE  SerialInv'
  BY <1>3, <1>5 DEF NotFound, Refuse
<1>6. ASSUME NEW r \in Requests, Write(r) \/ WriteUnknown(r)
      PROVE  SerialInv'
  BY <1>6, WriteSerial
<1>7. ASSUME NEW r \in Requests, Publish(r)
      PROVE  SerialInv'
  BY <1>7, PublishSerial
<1>8. ASSUME NEW r \in Requests, WriteFails(r) \/ PublishFails(r) \/ Respond(r)
      PROVE  SerialInv'
  <2>1. \A q \in Requests :
          (pc'[q] = pc[q] /\ call'[q] = call[q]) \/ pc'[q] \notin {"write", "publish"}
    BY <1>8 DEF WriteFails, PublishFails, Respond, Fail, IInv, TypeOK
  <2>2. UNCHANGED <<rows, committed, published>>
    BY <1>8 DEF WriteFails, PublishFails, Respond
  <2>3. QED
    BY <2>1, <2>2, SerialStays
<1>9. ASSUME NEW lost \in SUBSET Requests, Crash(lost)
      PROVE  SerialInv'
  <2>1. \A q \in Requests :
          (pc'[q] = pc[q] /\ call'[q] = call[q]) \/ pc'[q] \notin {"write", "publish"}
    BY <1>9 DEF Crash
  <2>2. QED
    BY <1>9, <2>1, SerialStays DEF Crash
<1>10. CASE UNCHANGED vars
  BY <1>10, SerialStays DEF vars
<1>11. QED
  BY <1>1, <1>2, <1>4, <1>5, <1>6, <1>7, <1>8, <1>9, <1>10 DEF Next

\* Requests that do not overlap on an order publish order.created, .paid,
\* .shipped and .completed at most once for it, whatever fails.
THEOREM SerialPublishesOnce == Spec /\ []NoOverlap => []PublishedOnce
<1>1. SerialInv => PublishedOnce
  BY DEF SerialInv, OnceOK, PublishedOnce, Statuses
<1>2. QED
  BY <1>1, Invariant, InitSerialInv, NextSerialInv, PTL DEF Spec

LEMMA StrictInit == Init => Strict!Init
BY DEF Init, Strict!Init, Strict!NoStatus, StatusOf, AnnouncedOf, NoRow

\* A commit places the order or advances it from its current status; one that
\* cancels it once more is a stutter.
LEMMA CommitStrict ==
  ASSUME IInv, SerialInv, NEW r \in Requests, pc[r] = "write", Commit(r), UNCHANGED published
  PROVE  Strict!Next \/ UNCHANGED Strict!vars
<1>1. PICK o \in Orders : o = call[r].order
  BY CommitEffect DEF Calls
<1>2. PICK s \in Statuses : s = call[r].status
  BY CommitEffect DEF Calls
<1>3. /\ rows \in [Orders -> Row \cup {NoRow}] /\ rows' = [rows EXCEPT ![o] = entity[r]]
      /\ entity[r] \in Row /\ entity[r].status = s
      /\ committed' = [committed EXCEPT ![o] = @ \cup {s}] /\ committed \in [Orders -> SUBSET Statuses]
      /\ \/ rows[o] = NoRow /\ s = "PENDING"
         \/ /\ rows[o] # NoRow
            /\ \/ CanTransitionTo(rows[o].status, s)
               \/ rows[o].status = "CANCELLED" /\ s = "CANCELLED"
  <2>1. committed \in [Orders -> SUBSET Statuses]
    BY DEF IInv, TypeOK
  <2>2. QED
    BY <1>1, <1>2, <2>1, SerialCommit
<1>4. \A p \in Orders : StatusOf(p)' = IF p = o THEN s ELSE StatusOf(p)
  BY <1>3 DEF StatusOf
<1>5. Strict!SetStatus(o, s)
  <2>1. [p \in Orders |-> StatusOf(p)]' = [[p \in Orders |-> StatusOf(p)] EXCEPT ![o] = s]
    BY <1>4
  <2>2. [p \in Orders |-> AnnouncedOf(p)]' = [p \in Orders |-> AnnouncedOf(p)]
    BY DEF AnnouncedOf
  <2>3. QED
    BY <1>3, <2>1, <2>2 DEF Strict!SetStatus
<1>6. CASE rows[o] = NoRow /\ s = "PENDING"
  <2>1. Strict!Place(o)
    BY <1>5, <1>6, ExistsStatus DEF Strict!Place, Strict!NoStatus
  <2>2. QED
    BY <2>1 DEF Strict!Next
<1>7. CASE rows[o] # NoRow /\ CanTransitionTo(rows[o].status, s)
  <2>1. Strict!CanTransitionTo(StatusOf(o), s)
    BY <1>7 DEF StatusOf, CanTransitionTo, Transitions, Strict!CanTransitionTo, Strict!Transitions
  <2>2. Strict!Advance(o, s)
    BY <1>5, <1>7, <2>1, ExistsStatus DEF Strict!Advance, Strict!NoStatus, Strict!Bases
  <2>3. QED
    BY <2>2 DEF Strict!Next, Strict!Statuses, Statuses
<1>8. CASE rows[o] # NoRow /\ rows[o].status = "CANCELLED" /\ s = "CANCELLED"
  <2>1. s \in committed[o]
    BY <1>8 DEF IInv, RowsOK
  <2>2. committed' = committed
    BY <1>3, <2>1
  <2>3. \A p \in Orders : StatusOf(p)' = StatusOf(p)
    BY <1>4, <1>8 DEF StatusOf
  <2>4. QED
    BY <2>2, <2>3 DEF Strict!vars, AnnouncedOf
<1>9. QED
  BY <1>3, <1>6, <1>7, <1>8

\* An event announces the current status.
LEMMA PublishStrict ==
  ASSUME IInv, SerialInv, NEW r \in Requests, Publish(r)
  PROVE  Strict!Next
<1>1. PICK o \in Orders : o = call[r].order
  BY PublishEffect
<1>2. PICK s \in Statuses : s = call[r].status
  BY PublishEffect
<1>3. \A p \in Orders : AnnouncedOf(p)' = IF p = o THEN AnnouncedOf(p) \cup {s} ELSE AnnouncedOf(p)
  BY <1>1, <1>2, PublishEffect DEF AnnouncedOf
<1>4. [p \in Orders |-> AnnouncedOf(p)]' =
        [[p \in Orders |-> AnnouncedOf(p)] EXCEPT ![o] = @ \cup {s}]
  BY <1>3
<1>5. [p \in Orders |-> StatusOf(p)]' = [p \in Orders |-> StatusOf(p)] /\ UNCHANGED committed
  BY DEF Publish, StatusOf
<1>6. StatusOf(o) = s
  BY <1>1, <1>2 DEF Publish, SerialInv, SerialOK
<1>7. Strict!Announce(o, s)
  BY <1>4, <1>5, <1>6 DEF Strict!Announce, Strict!Bases
<1>8. QED
  BY <1>7 DEF Strict!Next, Strict!Statuses, Statuses

LEMMA OtherStrict ==
  ASSUME UNCHANGED <<rows, committed, published>>
  PROVE  UNCHANGED Strict!vars
BY DEF Strict!vars, StatusOf, AnnouncedOf

LEMMA StrictStep == IInv /\ SerialInv /\ [Next]_vars => [Strict!Next]_Strict!vars
<1> SUFFICES ASSUME IInv, SerialInv, [Next]_vars
             PROVE  [Strict!Next]_Strict!vars
  OBVIOUS
<1>1. ASSUME NEW r \in Requests, Write(r) \/ WriteUnknown(r)
      PROVE  [Strict!Next]_Strict!vars
  BY <1>1, CommitStrict DEF Write, WriteUnknown
<1>2. ASSUME NEW r \in Requests, Publish(r)
      PROVE  Strict!Next
  BY <1>2, PublishStrict
<1>3. ASSUME NEW r \in Requests, NEW o \in Orders, BeginCreate(r, o)
      PROVE  UNCHANGED Strict!vars
  BY <1>3, OtherStrict DEF BeginCreate, Hold
<1>4. ASSUME NEW r \in Requests, NEW c \in EditCalls,
             NotFound(r, c) \/ Refuse(r, c) \/ Prepare(r, c)
      PROVE  UNCHANGED Strict!vars
  BY <1>4, OtherStrict DEF NotFound, Refuse, Prepare, Return, Hold
<1>5. ASSUME NEW r \in Requests, RejectRequest(r) \/ LoadFails(r) \/ WriteFails(r)
                                 \/ PublishFails(r) \/ Respond(r)
      PROVE  UNCHANGED Strict!vars
  BY <1>5, OtherStrict DEF RejectRequest, LoadFails, Return, WriteFails, PublishFails, Respond
<1>6. ASSUME NEW lost \in SUBSET Requests, Crash(lost)
      PROVE  UNCHANGED Strict!vars
  BY <1>6, OtherStrict DEF Crash
<1>7. CASE UNCHANGED vars
  BY <1>7, OtherStrict DEF vars
<1>8. QED
  BY <1>1, <1>2, <1>3, <1>4, <1>5, <1>6, <1>7 DEF Next

\* Requests that do not overlap on an order, any number of them, keep the state
\* machine of the documentation, whatever fails.
THEOREM SerialKeepsStateMachine == Spec /\ []NoOverlap => KeepsStateMachine
<1>1. QED
  BY Invariant, InitSerialInv, NextSerialInv, StrictInit, StrictStep, PTL
  DEF Spec, KeepsStateMachine, Strict!Spec

\* A status without successors is left alone: by a commit, which follows the row,
\* and by everything else, which writes no row.
LEMMA FinalStep ==
  ASSUME IInv, SerialInv, [Next]_vars, NEW o \in Orders, StatusOf(o) \in Terminal
  PROVE  StatusOf(o)' = StatusOf(o)
<1>1. ASSUME NEW r \in Requests, Write(r) \/ WriteUnknown(r)
      PROVE  StatusOf(o)' = StatusOf(o)
  <2>1. pc[r] = "write" /\ Commit(r)
    BY <1>1 DEF Write, WriteUnknown
  <2>2. PICK p \in Orders : p = call[r].order
    BY <2>1, CommitEffect DEF Calls
  <2>3. /\ rows' = [rows EXCEPT ![p] = entity[r]] /\ rows \in [Orders -> Row \cup {NoRow}]
        /\ entity[r].status = call[r].status
        /\ \/ rows[p] = NoRow
           \/ CanTransitionTo(rows[p].status, call[r].status)
           \/ rows[p].status = "CANCELLED" /\ call[r].status = "CANCELLED"
    <3>1. PICK s \in Statuses : s = call[r].status
      BY <2>1, CommitEffect DEF Calls
    <3>2. QED
      BY <2>1, <2>2, <3>1, SerialCommit
  <2>4. CASE p # o
    BY <2>3, <2>4 DEF StatusOf
  <2>5. CASE p = o
    <3>1. rows[o] # NoRow
      BY DEF StatusOf, NoRow, Terminal
    <3>2. ~CanTransitionTo(rows[o].status, call[r].status)
      BY DEF StatusOf, Terminal, CanTransitionTo, Transitions
    <3>3. QED
      BY <2>3, <2>5, <3>1, <3>2 DEF StatusOf
  <2>6. QED
    BY <2>4, <2>5
<1>2. UNCHANGED rows => StatusOf(o)' = StatusOf(o)
  BY DEF StatusOf
<1>3. ASSUME ~\E r \in Requests : Write(r) \/ WriteUnknown(r)
      PROVE  UNCHANGED rows
  BY <1>3 DEF Next, vars, BeginCreate, Hold, RejectRequest, Return, NotFound, Refuse, Prepare,
     LoadFails, WriteFails, Publish, PublishFails, Respond, Crash
<1>4. QED
  BY <1>1, <1>2, <1>3

\* COMPLETED and CANCELLED are final for requests that do not overlap on an
\* order, whatever fails: what memory-bank/systemPatterns.md:105-106 says of every
\* order fails only where one request writes what another has made out of date.
THEOREM SerialStatusesAreFinal == Spec /\ []NoOverlap => FinalIsFinal
<1>1. IInv /\ SerialInv /\ [Next]_vars
        => [\A o \in Orders : StatusOf(o) \in Terminal => StatusOf(o)' = StatusOf(o)]_vars
  BY FinalStep
<1>2. QED
  BY <1>1, Invariant, InitSerialInv, NextSerialInv, PTL DEF Spec, FinalIsFinal

-----------------------------------------------------------------------------
(* Without faults, every commit is announced *)

Eventful == {"PENDING", "PAID", "SHIPPED", "COMPLETED"}

\* A request asks for an order, for an edit of one, or for nothing yet.
CallsOK ==
  \A r \in Requests :
    call[r] = NoCall \/ call[r] \in EditCalls \/ \E o \in Orders : call[r] = CreateCall(o)

\* The event of a commit to s, if there was one, is out or on its way.
OutOrComing(o, s) == s \in committed[o] => published[o][s] > 0 \/ EventIsComing(o, s)

OwedInv ==
  /\ CallsOK
  /\ \A o \in Orders, s \in Eventful : OutOrComing(o, s)

LEMMA CallsStep == IInv /\ CallsOK /\ [Next]_vars => CallsOK'
<1> SUFFICES ASSUME IInv, CallsOK, [Next]_vars, NEW q \in Requests
             PROVE  call'[q] = NoCall \/ call'[q] \in EditCalls
                    \/ \E o \in Orders : call'[q] = CreateCall(o)
  BY DEF CallsOK, EditCalls, CreateCall, NoCall
<1>0. call \in [Requests -> Calls \cup {NoCall}]
  BY DEF IInv, TypeOK
<1>1. ASSUME NEW r \in Requests, NEW o \in Orders, BeginCreate(r, o)
      PROVE  call'[q] = call[q] \/ call'[q] = CreateCall(o)
  BY <1>0, <1>1 DEF BeginCreate, Hold
<1>2. ASSUME NEW r \in Requests, NEW c \in EditCalls, Prepare(r, c)
      PROVE  call'[q] = call[q] \/ call'[q] = c
  BY <1>0, <1>2 DEF Prepare, Hold
<1>3. ASSUME NEW r \in Requests, WriteFails(r) \/ WriteUnknown(r) \/ Respond(r)
      PROVE  call'[q] = call[q] \/ call'[q] = NoCall
  BY <1>0, <1>3 DEF WriteFails, WriteUnknown, Fail, Respond
<1>4. ASSUME NEW lost \in SUBSET Requests, Crash(lost)
      PROVE  call'[q] = call[q] \/ call'[q] = NoCall
  BY <1>4 DEF Crash
<1>5. ASSUME NEW r \in Requests,
             \/ RejectRequest(r) \/ LoadFails(r) \/ Write(r) \/ Publish(r) \/ PublishFails(r)
             \/ \E c \in EditCalls : NotFound(r, c) \/ Refuse(r, c)
      PROVE  call' = call
  BY <1>5 DEF RejectRequest, Return, NotFound, Refuse, LoadFails, Write, Publish, PublishFails
<1>6. CASE UNCHANGED vars
  BY <1>6 DEF vars, CallsOK
<1>7. call[q] = NoCall \/ call[q] \in EditCalls \/ \E o \in Orders : call[q] = CreateCall(o)
  BY DEF CallsOK
<1>8. QED
  BY <1>1, <1>2, <1>3, <1>4, <1>5, <1>6, <1>7 DEF Next

\* What was committed stays committed.
LEMMA HistoryGrows ==
  ASSUME IInv, [Next]_vars, NEW o \in Orders
  PROVE  committed[o] \subseteq committed'[o]
<1>1. ASSUME NEW r \in Requests, Write(r) \/ WriteUnknown(r)
      PROVE  committed[o] \subseteq committed'[o]
  BY <1>1, CommitEffect DEF Write, WriteUnknown
<1>2. ASSUME ~\E r \in Requests : Write(r) \/ WriteUnknown(r)
      PROVE  UNCHANGED committed
  BY <1>2 DEF Next, vars, BeginCreate, Hold, RejectRequest, Return, NotFound, Refuse, Prepare,
     LoadFails, WriteFails, Publish, PublishFails, Respond, Crash
<1>3. QED
  BY <1>1, <1>2

\* An event that is out stays out, and one that is coming comes: the request that
\* is about to publish it does nothing else first.
LEMMA ComingComes ==
  ASSUME IInv, ~Faults, [Next]_vars, NEW o \in Orders, NEW s \in Statuses,
         published[o][s] > 0 \/ EventIsComing(o, s)
  PROVE  published'[o][s] > 0 \/ EventIsComing(o, s)'
<1>1. ASSUME NEW r \in Requests, Publish(r)
      PROVE  /\ \A p \in Orders, t \in Statuses : published[p][t] > 0 => published'[p][t] > 0
             /\ published'[call[r].order][call[r].status] > 0
             /\ \A q \in Requests \ {r} : pc'[q] = pc[q] /\ call'[q] = call[q]
  BY <1>1, PublishEffect DEF IInv, TypeOK, Publish
<1>2. ASSUME ~\E r \in Requests : Publish(r)
      PROVE  /\ published' = published
             /\ \A q \in Requests : pc[q] = "publish" => pc'[q] = pc[q] /\ call'[q] = call[q]
  BY <1>2 DEF IInv, TypeOK, Next, vars, BeginCreate, Hold, RejectRequest, Return, NotFound, Refuse, Prepare,
     LoadFails, Write, WriteFails, WriteUnknown, PublishFails, Respond, Crash
<1>3. CASE published[o][s] > 0
  BY <1>1, <1>2, <1>3
<1>4. CASE EventIsComing(o, s)
  <2>1. PICK q \in Requests : pc[q] = "publish" /\ call[q].order = o /\ call[q].status = s
    BY <1>4 DEF EventIsComing
  <2>2. CASE Publish(q)
    BY <1>1, <2>1, <2>2
  <2>3. CASE ~Publish(q)
    <3>1. pc'[q] = "publish" /\ call'[q] = call[q]
      BY <1>1, <1>2, <2>1, <2>3
    <3>2. QED
      BY <2>1, <3>1 DEF EventIsComing
  <2>4. QED
    BY <2>2, <2>3
<1>5. QED
  BY <1>3, <1>4

\* A new status is committed by a request that, if its call has an event, is
\* about to publish it then.
LEMMA CommitIsComing ==
  ASSUME IInv, ~Faults, [Next]_vars, NEW o \in Orders, NEW s \in committed'[o], s \notin committed[o],
         \A r \in Requests : pc[r] = "write" /\ call[r].status = s => Announces(call[r])
  PROVE  EventIsComing(o, s)'
<1>1. PICK r \in Requests : Write(r)
  BY DEF Next, vars, BeginCreate, Hold, RejectRequest, Return, NotFound, Refuse, Prepare,
     LoadFails, WriteFails, WriteUnknown, Publish, PublishFails, Respond, Crash
<1>2. pc[r] = "write" /\ Commit(r)
  BY <1>1 DEF Write
<1>3. call[r] \in Calls /\ committed' = [committed EXCEPT ![call[r].order] = @ \cup {call[r].status}]
  BY <1>2, CommitEffect
<1>4. call[r].order = o /\ call[r].status = s
  BY <1>3 DEF IInv, TypeOK, Calls
<1>5. Announces(call[r])
  BY <1>2, <1>4
<1>6. pc'[r] = "publish" /\ call' = call
  BY <1>1, <1>5 DEF Write, IInv, TypeOK
<1>7. QED
  BY <1>4, <1>6 DEF EventIsComing

LEMMA OwedStep ==
  ASSUME IInv, ~Faults, [Next]_vars, NEW o \in Orders, NEW s \in Statuses, OutOrComing(o, s),
         \A r \in Requests : pc[r] = "write" /\ call[r].status = s => Announces(call[r])
  PROVE  OutOrComing(o, s)'
<1>1. CASE s \in committed[o]
  BY <1>1, ComingComes DEF OutOrComing
<1>2. CASE s \notin committed[o] /\ s \in committed'[o]
  BY <1>2, CommitIsComing DEF OutOrComing
<1>3. QED
  BY <1>1, <1>2 DEF OutOrComing

\* Whoever is about to write one of these statuses has an event to publish then.
LEMMA EventfulCalls ==
  ASSUME IInv, CallsOK, NEW r \in Requests, pc[r] = "write", call[r].status \in Eventful
  PROVE  Announces(call[r])
<1>1. call[r] \in Calls /\ (Inserting(r) \/ Updating(r))
  BY DEF IInv, WritersOK
<1>2. CASE Inserting(r)
  BY <1>2 DEF Inserting, CreateCall, Announces
<1>3. CASE Updating(r)
  <2>1. call[r] \in EditCalls
    <3>1. call[r].op \in {"update", "cancel"}
      BY <1>1, <1>3 DEF Updating, Calls, Ops
    <3>2. call[r] # NoCall /\ \A o \in Orders : call[r] # CreateCall(o)
      BY <3>1 DEF NoCall, CreateCall
    <3>3. QED
      BY <3>2 DEF CallsOK
  <2>2. call[r].status # "PENDING"
    BY <1>3, TransitionTable DEF Updating, Reachable
  <2>3. call[r].op = "update"
    BY <2>1 DEF EditCalls, Eventful
  <2>4. QED
    BY <2>2, <2>3 DEF Announces, Eventful
<1>4. QED
  BY <1>1, <1>2, <1>3

LEMMA NextOwedInv == IInv /\ ~Faults /\ OwedInv /\ [Next]_vars => OwedInv'
<1> SUFFICES ASSUME IInv, ~Faults, OwedInv, [Next]_vars
             PROVE  OwedInv'
  OBVIOUS
<1>1. CallsOK'
  BY CallsStep DEF OwedInv
<1>2. ASSUME NEW o \in Orders, NEW s \in Eventful
      PROVE  OutOrComing(o, s)'
  <2>1. s \in Statuses /\ OutOrComing(o, s)
    BY DEF OwedInv, Eventful, Statuses
  <2>2. \A r \in Requests : pc[r] = "write" /\ call[r].status = s => Announces(call[r])
    BY EventfulCalls DEF OwedInv
  <2>3. QED
    BY <2>1, <2>2, OwedStep
<1>3. QED
  BY <1>1, <1>2 DEF OwedInv

LEMMA InitOwedInv == Init => OwedInv
BY DEF Init, OwedInv, CallsOK, OutOrComing

\* When nothing fails, no event is forgotten, however requests race.
THEOREM EventsAreOwed == Spec => []NoEventIsForgotten
<1>1. OwedInv => NoEventIsForgotten
  BY DEF OwedInv, OutOrComing, NoEventIsForgotten, Eventful
<1>2. CASE Faults
  <2>1. NoEventIsForgotten
    BY <1>2 DEF NoEventIsForgotten
  <2>2. QED
    BY <2>1, PTL
<1>3. CASE ~Faults
  <2>1. IInv /\ OwedInv /\ [Next]_vars => OwedInv'
    BY <1>3, NextOwedInv
  <2>2. QED
    BY <1>1, <2>1, Invariant, InitOwedInv, PTL DEF Spec
<1>4. QED
  BY <1>2, <1>3

-----------------------------------------------------------------------------
(* A cancellation through CancelOrder is recorded *)

\* Orders are cancelled through CancelOrder only, not through a status update.
NobodyPatchesCancelled ==
  \A r \in Requests : ~(call[r].op = "update" /\ call[r].status = "CANCELLED")

RecordInv ==
  /\ CallsOK
  /\ \A o \in Orders : OutOrComing(o, "CANCELLED")
  /\ \A o \in Orders : StatusOf(o) = "CANCELLED" => rows[o].cancelledAt
  /\ \A r \in Requests : pc[r] = "write" /\ call[r].status = "CANCELLED" => entity[r].cancelledAt

\* Whoever is about to write CANCELLED then publishes order.cancelled.
LEMMA CancellersAnnounce ==
  ASSUME IInv, CallsOK, NobodyPatchesCancelled,
         NEW r \in Requests, pc[r] = "write", call[r].status = "CANCELLED"
  PROVE  Announces(call[r])
<1>1. call[r] \in Calls /\ (Inserting(r) \/ Updating(r))
  BY DEF IInv, WritersOK
<1>2. call[r].op = "cancel"
  BY <1>1 DEF Inserting, Updating, CreateCall, Calls, Ops, NobodyPatchesCancelled
<1>3. QED
  BY <1>2 DEF Announces

\* What a request is about to write was made by Cancelled, if it is CANCELLED.
LEMMA WritersRecord ==
  ASSUME IInv, RecordInv, NobodyPatchesCancelled', [Next]_vars,
         NEW q \in Requests, pc'[q] = "write", call'[q].status = "CANCELLED"
  PROVE  entity'[q].cancelledAt
<1>0. /\ pc \in [Requests -> PCs] /\ call \in [Requests -> Calls \cup {NoCall}]
      /\ entity \in [Requests -> Row \cup {NoRow}]
  BY DEF IInv, TypeOK
<1>1. ASSUME NEW r \in Requests, NEW o \in Orders, BeginCreate(r, o)
      PROVE  entity'[q].cancelledAt
  <2>1. call' = [call EXCEPT ![r] = CreateCall(o)] /\ pc' = [pc EXCEPT ![r] = "write"]
        /\ entity' = [entity EXCEPT ![r] = NewOrder]
    BY <1>1 DEF BeginCreate, Hold
  <2>2. CreateCall(o).status # "CANCELLED"
    BY DEF CreateCall
  <2>3. QED
    BY <1>0, <2>1, <2>2 DEF RecordInv
<1>2. ASSUME NEW r \in Requests, NEW c \in EditCalls, Prepare(r, c)
      PROVE  entity'[q].cancelledAt
  <2>1. call' = [call EXCEPT ![r] = c] /\ pc' = [pc EXCEPT ![r] = "write"]
        /\ entity' = [entity EXCEPT ![r] = Edited(c, rows[c.order])] /\ rows[c.order] # NoRow
    BY <1>2 DEF Prepare, Hold
  <2>2. CASE q = r
    <3>1. c.op = "cancel"
      BY <1>0, <2>1, <2>2 DEF EditCalls, NobodyPatchesCancelled
    <3>2. rows[c.order] \in Row
      BY <2>1 DEF IInv, TypeOK, EditCalls
    <3>3. Edited(c, rows[c.order]).cancelledAt
      BY <3>1, <3>2 DEF Edited, Cancelled, Row
    <3>4. QED
      BY <1>0, <2>1, <2>2, <3>3
  <2>3. CASE q # r
    BY <1>0, <2>1, <2>3 DEF RecordInv
  <2>4. QED
    BY <2>2, <2>3
<1>3. ASSUME NEW r \in Requests, Write(r) \/ WriteFails(r) \/ WriteUnknown(r)
      PROVE  entity'[q].cancelledAt
  BY <1>0, <1>3 DEF Write, WriteFails, WriteUnknown, Commit, Fail, RecordInv
<1>4. ASSUME NEW r \in Requests,
             \/ RejectRequest(r) \/ LoadFails(r) \/ Publish(r) \/ PublishFails(r) \/ Respond(r)
             \/ \E c \in EditCalls : NotFound(r, c) \/ Refuse(r, c)
      PROVE  entity'[q].cancelledAt
  BY <1>0, <1>4 DEF RejectRequest, Return, NotFound, Refuse, LoadFails, Publish, PublishFails, Respond, RecordInv
<1>5. ASSUME NEW lost \in SUBSET Requests, Crash(lost)
      PROVE  entity'[q].cancelledAt
  BY <1>5 DEF Crash, RecordInv
<1>6. CASE UNCHANGED vars
  BY <1>6 DEF vars, RecordInv
<1>7. QED
  BY <1>1, <1>2, <1>3, <1>4, <1>5, <1>6 DEF Next

\* So is what is in the table.
LEMMA RowsRecord ==
  ASSUME IInv, RecordInv, [Next]_vars, NEW o \in Orders, StatusOf(o)' = "CANCELLED"
  PROVE  rows'[o].cancelledAt
<1>1. ASSUME NEW r \in Requests, Write(r) \/ WriteUnknown(r)
      PROVE  rows'[o].cancelledAt
  <2>1. pc[r] = "write" /\ Commit(r)
    BY <1>1 DEF Write, WriteUnknown
  <2>2. /\ call[r] \in Calls /\ rows' = [rows EXCEPT ![call[r].order] = entity[r]]
        /\ rows \in [Orders -> Row \cup {NoRow}]
    BY <2>1, CommitEffect DEF IInv, TypeOK
  <2>3. CASE call[r].order = o
    <3>1. entity[r].status = "CANCELLED"
      BY <2>2, <2>3 DEF StatusOf
    <3>2. call[r].status = "CANCELLED"
      BY <2>1, <3>1 DEF IInv, WritersOK, Inserting, Updating, NewOrder, NoRow
    <3>3. QED
      BY <2>1, <2>2, <2>3, <3>2 DEF RecordInv
  <2>4. CASE call[r].order # o
    BY <2>2, <2>4 DEF StatusOf, RecordInv
  <2>5. QED
    BY <2>3, <2>4
<1>2. ASSUME ~\E r \in Requests : Write(r) \/ WriteUnknown(r)
      PROVE  UNCHANGED rows
  BY <1>2 DEF Next, vars, BeginCreate, Hold, RejectRequest, Return, NotFound, Refuse, Prepare,
     LoadFails, WriteFails, Publish, PublishFails, Respond, Crash
<1>3. QED
  BY <1>1, <1>2 DEF StatusOf, RecordInv

LEMMA NextRecordInv ==
  IInv /\ ~Faults /\ RecordInv /\ NobodyPatchesCancelled /\ NobodyPatchesCancelled' /\ [Next]_vars
    => RecordInv'
<1> SUFFICES ASSUME IInv, ~Faults, RecordInv, NobodyPatchesCancelled, NobodyPatchesCancelled', [Next]_vars
             PROVE  RecordInv'
  OBVIOUS
<1>1. CallsOK'
  BY CallsStep DEF RecordInv
<1>2. ASSUME NEW o \in Orders
      PROVE  OutOrComing(o, "CANCELLED")'
  <2>1. "CANCELLED" \in Statuses /\ OutOrComing(o, "CANCELLED")
    BY DEF RecordInv, Statuses
  <2>2. \A r \in Requests : pc[r] = "write" /\ call[r].status = "CANCELLED" => Announces(call[r])
    BY CancellersAnnounce DEF RecordInv
  <2>3. QED
    BY <2>1, <2>2, OwedStep
<1>3. QED
  BY <1>1, <1>2, WritersRecord, RowsRecord DEF RecordInv

LEMMA InitRecordInv == Init => RecordInv
BY DEF Init, RecordInv, CallsOK, OutOrComing, StatusOf, NoRow

\* When nothing fails and nobody asks PATCH /status for CANCELLED, a cancelled
\* order has cancelledAt and its event, however requests race: the divergence
\* from memory-bank/projectbrief.md:11 is that one way to cancel, and no other.
THEOREM CancelOrderIsRecorded ==
  ~Faults /\ Spec /\ []NobodyPatchesCancelled => []CancellationIsRecorded
<1>1. IInv /\ RecordInv => CancellationIsRecorded
  <2> SUFFICES ASSUME IInv, RecordInv, \A r \in Requests : pc[r] = "idle",
                      NEW o \in Orders, StatusOf(o) = "CANCELLED"
               PROVE  rows[o].cancelledAt /\ "CANCELLED" \in AnnouncedOf(o)
    BY DEF CancellationIsRecorded
  <2>1. rows[o] # NoRow
    BY DEF StatusOf, NoRow
  <2>2. "CANCELLED" \in committed[o]
    BY <2>1 DEF IInv, RowsOK, StatusOf
  <2>3. published[o]["CANCELLED"] > 0
    BY <2>2 DEF RecordInv, OutOrComing, EventIsComing
  <2>4. QED
    BY <2>3 DEF RecordInv, AnnouncedOf, Statuses
<1>2. CASE ~Faults
  <2>1. IInv /\ RecordInv /\ NobodyPatchesCancelled /\ NobodyPatchesCancelled' /\ [Next]_vars => RecordInv'
    BY <1>2, NextRecordInv
  <2>2. QED
    BY <1>1, <2>1, Invariant, InitRecordInv, PTL DEF Spec
<1>3. QED
  BY <1>2
=============================================================================
