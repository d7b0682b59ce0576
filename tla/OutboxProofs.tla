----------------------------- MODULE OutboxProofs -----------------------------
(***************************************************************************)
(* Theorems about Outbox, for every number of envelopes, subscribers and   *)
(* processes, every limit and every number of faults.                      *)
(***************************************************************************)
EXTENDS Outbox, TLAPS

USE EnvelopeAssumption, SubscriberAssumption, BoundAssumption

\* The steps of Next, with their parameters named once.
LEMMA NextCases ==
    ASSUME Next, NEW G,
           \A e \in Envelope : Publish(e) => G,
           \A e \in Envelope : PublisherCommits(e) => G,
           \A e \in Envelope : PublisherRollsBack(e) => G,
           \A p \in Process, s \in Subscriber : Subscribe(p, s) => G,
           \A p \in Process, s \in Subscriber : Unsubscribe(p, s) => G,
           \A p \in Process : StartBatch(p) => G,
           \A p \in Process, e \in Envelope : StartEnvelope(p, e) => G,
           \A p \in Process, s \in Subscriber : CallReturns(p, s) => G,
           \A p \in Process, s \in Subscriber : CallRaises(p, s) => G,
           \A p \in Process : MarkDispatched(p) => G,
           \A p \in Process : MarkRaises(p) => G,
           \A p \in Process : RecordFailure(p) => G,
           \A p \in Process : Abort(p) => G,
           \A p \in Process : Crash(p) => G
    PROVE  G
BY DEF Next, Dispatch

-------------------------------------------------------------------------------
(* Types, without the bounded counter.                                     *)

\* A process that is handing out an envelope has one.
HasCurrent ==
    \A p \in Process : pc[p] \in {"calling", "recording"} => current[p] \in Envelope

\* Initially the types are right and nobody works.
LEMMA InitTypes == Init => TypeOK /\ HasCurrent
BY DEF Init, TypeOK, Row, HasCurrent

\* Leaving an envelope keeps the types of the process.
LEMMA LeaveTypes ==
    ASSUME TypeOK, HasCurrent, NEW p \in Process, LeaveEnvelope(p)
    PROVE  /\ pc' \in [Process -> {"idle", "batch", "calling", "recording"}]
           /\ batch' \in [Process -> SUBSET Envelope]
           /\ current' \in [Process -> Envelope \cup {None}]
           /\ todo' \in [Process -> SUBSET Subscriber]
           /\ HasCurrent'
BY DEF TypeOK, HasCurrent, LeaveEnvelope

\* So does dropping the batch.
LEMMA DropTypes ==
    ASSUME TypeOK, HasCurrent, NEW p \in Process, DropBatch(p)
    PROVE  /\ pc' \in [Process -> {"idle", "batch", "calling", "recording"}]
           /\ batch' \in [Process -> SUBSET Envelope]
           /\ current' \in [Process -> Envelope \cup {None}]
           /\ todo' \in [Process -> SUBSET Subscriber]
           /\ HasCurrent'
BY DEF TypeOK, HasCurrent, DropBatch

\* Every step keeps the types.
LEMMA NextTypes == TypeOK /\ HasCurrent /\ [Next]_vars => TypeOK' /\ HasCurrent'
<1> SUFFICES ASSUME TypeOK, HasCurrent, [Next]_vars
             PROVE  TypeOK' /\ HasCurrent'
    OBVIOUS
<1>1. CASE UNCHANGED vars
    BY <1>1 DEF vars, TypeOK, HasCurrent
<1>2. CASE Next
    <2>1. \A e \in Envelope :
             Publish(e) \/ PublisherCommits(e) \/ PublisherRollsBack(e) => TypeOK' /\ HasCurrent'
        BY DEF Publish, PublisherCommits, PublisherRollsBack, MoveRow, TypeOK, HasCurrent, Row
    <2>2. \A p \in Process, s \in Subscriber :
             Subscribe(p, s) \/ Unsubscribe(p, s) => TypeOK' /\ HasCurrent'
        BY DEF Subscribe, Unsubscribe, TypeOK, HasCurrent
    <2>3. \A p \in Process : StartBatch(p) => TypeOK' /\ HasCurrent'
        BY DEF StartBatch, Pending, TypeOK, HasCurrent
    <2>4. \A p \in Process, e \in Envelope : StartEnvelope(p, e) => TypeOK' /\ HasCurrent'
        BY DEF StartEnvelope, TypeOK, HasCurrent
    <2>5. \A p \in Process, s \in Subscriber : CallReturns(p, s) => TypeOK' /\ HasCurrent'
        BY DEF CallReturns, TypeOK, HasCurrent
    <2>6. \A p \in Process, s \in Subscriber : CallRaises(p, s) => TypeOK' /\ HasCurrent'
        BY DEF CallRaises, Fault, TypeOK, HasCurrent
    <2>7. \A p \in Process : MarkDispatched(p) => TypeOK' /\ HasCurrent'
        BY LeaveTypes DEF MarkDispatched, TypeOK, Row
    <2>8. ASSUME NEW p \in Process, MarkRaises(p)
          PROVE  TypeOK' /\ HasCurrent'
        <3>1. row' \in [Envelope -> Row]
            BY <2>8 DEF MarkRaises, TypeOK, Row
        <3>2. QED
            BY <2>8, <3>1 DEF MarkRaises, Fault, TypeOK, HasCurrent
    <2>9. ASSUME NEW p \in Process, RecordFailure(p)
          PROVE  TypeOK' /\ HasCurrent'
        <3>1. failure' \in [Envelope -> BOOLEAN]
            <4>1. failure' = [failure EXCEPT ![current[p]] = TRUE]
                BY <2>9 DEF RecordFailure
            <4>2. failure \in [Envelope -> BOOLEAN]
                BY DEF TypeOK
            <4>3. QED
                BY ONLY <4>1, <4>2, Zenon
        <3>2. UNCHANGED <<row, bucket, handled, faults>> /\ LeaveEnvelope(p)
            BY <2>9 DEF RecordFailure
        <3>3. QED
            BY <3>1, <3>2, LeaveTypes DEF TypeOK
    <2>10. ASSUME NEW p \in Process, Abort(p)
          PROVE  TypeOK' /\ HasCurrent'
        <3>1. DropBatch(p) /\ UNCHANGED <<row, failure, handled>>
            BY <2>10 DEF Abort, DropBatch
        <3>2. faults' \in 0..MaxFaults
            BY <2>10 DEF Abort, Fault, TypeOK
        <3>3. bucket' \in [Process -> SUBSET Subscriber]
            BY <2>10 DEF Abort, TypeOK
        <3>4. QED
            BY <3>1, <3>2, <3>3, DropTypes DEF TypeOK
    <2>11. ASSUME NEW p \in Process, Crash(p)
          PROVE  TypeOK' /\ HasCurrent'
        <3>1. DropBatch(p) /\ UNCHANGED <<row, failure, handled>>
            BY <2>11 DEF Crash, DropBatch
        <3>2. faults' \in 0..MaxFaults
            BY <2>11 DEF Crash, Fault, TypeOK
        <3>3. bucket' \in [Process -> SUBSET Subscriber]
            BY <2>11 DEF Crash, TypeOK
        <3>4. QED
            BY <3>1, <3>2, <3>3, DropTypes DEF TypeOK
    <2>12. QED
        BY <1>2, <2>1, <2>2, <2>3, <2>4, <2>5, <2>6, <2>7, <2>8, <2>9, <2>10, <2>11, NextCases
<1>3. QED
    BY <1>1, <1>2

\* Every variable keeps its type.
THEOREM TypeCorrect == Spec => []TypeOK
<1>1. Init => TypeOK /\ HasCurrent
    BY InitTypes
<1>2. TypeOK /\ HasCurrent /\ [Next]_vars => (TypeOK /\ HasCurrent)'
    BY NextTypes
<1>3. QED
    BY <1>1, <1>2, PTL DEF Spec

-------------------------------------------------------------------------------
(* The invariant.                                                          *)

\* The parts of the invariant that say nothing of types.
Rest ==
    /\ NoPhantomEvent /\ DispatchedIsDelivered /\ WorkIsCommitted
    /\ SnapshotIsKept /\ SteadyIsRegistered /\ TodoListens

\* Initially everything holds.
LEMMA InitOInv == Init => OInv /\ HasCurrent
BY InitTypes DEF Init, OInv, NoPhantomEvent, DispatchedIsDelivered, WorkIsCommitted,
   SnapshotIsKept, SteadyIsRegistered, TodoListens, Committed

\* A row of the publisher's transaction was never handed out.
LEMMA MoveRowStep ==
    ASSUME OInv, NEW e \in Envelope, NEW from \in {"none", "uncommitted"},
           NEW to \in {"uncommitted", "pending", "discarded"}, MoveRow(e, from, to)
    PROVE  Rest'
<1>1. \A f \in Envelope : row'[f] = IF f = e THEN to ELSE row[f]
    BY DEF MoveRow, OInv, TypeOK
<1>2. row[e] = from /\ UNCHANGED <<bucket, pc, batch, current, todo, handled>>
    BY DEF MoveRow
<1>3. \A f \in Envelope : Committed(f) => Committed(f)'
    BY <1>1, <1>2 DEF Committed
<1>4. NoPhantomEvent' /\ WorkIsCommitted'
    BY <1>2, <1>3 DEF OInv, TypeOK, NoPhantomEvent, WorkIsCommitted
<1>5. DispatchedIsDelivered'
    BY <1>1, <1>2 DEF OInv, DispatchedIsDelivered
<1>6. SnapshotIsKept' /\ SteadyIsRegistered' /\ TodoListens'
    BY <1>2 DEF OInv, SnapshotIsKept, SteadyIsRegistered, TodoListens
<1>7. QED
    BY <1>4, <1>5, <1>6 DEF Rest

\* Plugins that come and go leave the steady subscribers in every bucket.
LEMMA BucketStep ==
    ASSUME OInv, NEW p \in Process, NEW s \in Subscriber, Subscribe(p, s) \/ Unsubscribe(p, s)
    PROVE  Rest'
<1>1. UNCHANGED <<row, pc, batch, current, todo, handled>>
    BY DEF Subscribe, Unsubscribe
<1>2. SteadyIsRegistered'
    BY DEF Subscribe, Unsubscribe, OInv, TypeOK, SteadyIsRegistered
<1>3. NoPhantomEvent' /\ DispatchedIsDelivered' /\ WorkIsCommitted'
    BY <1>1 DEF OInv, NoPhantomEvent, DispatchedIsDelivered, WorkIsCommitted, Committed
<1>4. SnapshotIsKept' /\ TodoListens'
    BY <1>1 DEF OInv, SnapshotIsKept, TodoListens
<1>5. QED
    BY <1>2, <1>3, <1>4 DEF Rest

\* A batch holds committed rows only.
LEMMA StartBatchStep ==
    ASSUME OInv, NEW p \in Process, StartBatch(p)
    PROVE  Rest'
<1>1. UNCHANGED <<row, bucket, current, todo, handled>>
    BY DEF StartBatch
<1>2. \A q \in Process : q # p => pc'[q] = pc[q] /\ batch'[q] = batch[q]
    BY DEF StartBatch, OInv, TypeOK
<1>3. pc'[p] = "batch" /\ batch'[p] = Pending
    BY DEF StartBatch, OInv, TypeOK
<1>4. WorkIsCommitted'
    <2> SUFFICES ASSUME NEW q \in Process
                 PROVE  /\ \A e \in batch'[q] : Committed(e)
                        /\ pc'[q] \in {"calling", "recording"} =>
                               current[q] \in Envelope /\ Committed(current[q])
        BY <1>1 DEF WorkIsCommitted, Committed
    <2>1. CASE q = p
        <3>1. \A e \in Pending : Committed(e)
            BY DEF Pending, Committed
        <3>2. QED
            BY <1>3, <2>1, <3>1
    <2>2. CASE q # p
        BY <1>2, <2>2 DEF OInv, WorkIsCommitted
    <2>3. QED
        BY <2>1, <2>2
<1>5. NoPhantomEvent' /\ DispatchedIsDelivered' /\ SteadyIsRegistered' /\ TodoListens'
    BY <1>1 DEF OInv, NoPhantomEvent, DispatchedIsDelivered, SteadyIsRegistered, TodoListens,
       Committed
<1>6. SnapshotIsKept'
    BY <1>1, <1>2, <1>3 DEF OInv, SnapshotIsKept
<1>7. QED
    BY <1>4, <1>5, <1>6 DEF Rest

\* The snapshot holds every steady subscriber that listens.
LEMMA StartEnvelopeStep ==
    ASSUME OInv, NEW p \in Process, NEW e \in Envelope, StartEnvelope(p, e)
    PROVE  Rest'
<1>1. UNCHANGED <<row, bucket, handled>> /\ e \in batch[p]
    BY DEF StartEnvelope
<1>2. \A q \in Process : q # p => /\ pc'[q] = pc[q] /\ batch'[q] = batch[q]
                                   /\ current'[q] = current[q] /\ todo'[q] = todo[q]
    BY DEF StartEnvelope, OInv, TypeOK
<1>3. /\ batch'[p] = batch[p] \ {e} /\ current'[p] = e
      /\ todo'[p] = {s \in bucket[p] : e \in Interest[s]}
    BY DEF StartEnvelope, OInv, TypeOK
<1>4. WorkIsCommitted'
    BY <1>1, <1>2, <1>3 DEF OInv, WorkIsCommitted, Committed
<1>5. NoPhantomEvent' /\ DispatchedIsDelivered' /\ SteadyIsRegistered'
    BY <1>1 DEF OInv, NoPhantomEvent, DispatchedIsDelivered, SteadyIsRegistered, Committed
<1>6. SnapshotIsKept'
    BY <1>1, <1>2, <1>3 DEF OInv, SnapshotIsKept, SteadyIsRegistered
<1>7. TodoListens'
    BY <1>2, <1>3 DEF OInv, TodoListens
<1>8. QED
    BY <1>4, <1>5, <1>6, <1>7 DEF Rest

\* Who leaves the snapshot by returning has handled the event.
LEMMA CallReturnsStep ==
    ASSUME OInv, NEW p \in Process, NEW s \in Subscriber, CallReturns(p, s)
    PROVE  Rest'
<1>1. UNCHANGED <<row, bucket, pc, batch, current>>
    BY DEF CallReturns
<1>2. handled' = handled \cup {<<s, current[p]>>}
    BY DEF CallReturns
<1>3. \A q \in Process : todo'[q] = IF q = p THEN todo[p] \ {s} ELSE todo[q]
    BY DEF CallReturns, OInv, TypeOK
<1>4. Committed(current[p]) /\ current[p] \in Envelope
    BY DEF CallReturns, OInv, WorkIsCommitted
<1>5. NoPhantomEvent'
    <2> SUFFICES ASSUME NEW q \in Subscriber, NEW e \in Envelope, <<q, e>> \in handled'
                 PROVE  Committed(e)
        BY <1>1 DEF NoPhantomEvent, Committed
    <2>1. <<q, e>> \in handled \/ e = current[p]
        BY <1>2
    <2>2. QED
        BY <1>4, <2>1 DEF OInv, NoPhantomEvent
<1>6. DispatchedIsDelivered'
    BY <1>1, <1>2 DEF OInv, DispatchedIsDelivered
<1>7. WorkIsCommitted' /\ SteadyIsRegistered'
    BY <1>1 DEF OInv, WorkIsCommitted, SteadyIsRegistered, Committed
<1>8. SnapshotIsKept'
    BY <1>1, <1>2, <1>3 DEF OInv, SnapshotIsKept
<1>9. TodoListens'
    BY <1>1, <1>3 DEF OInv, TodoListens
<1>10. QED
    BY <1>5, <1>6, <1>7, <1>8, <1>9 DEF Rest

\* When the snapshot is used up every steady subscriber has handled the event.
LEMMA UsedUp ==
    ASSUME OInv, NEW p \in Process, pc[p] = "calling", todo[p] = {}
    PROVE  /\ current[p] \in Envelope /\ Committed(current[p])
           /\ \A s \in Steady : current[p] \in Interest[s] => <<s, current[p]>> \in handled
BY DEF OInv, WorkIsCommitted, SnapshotIsKept

\* Closing a row whose snapshot is used up.
LEMMA CloseRow ==
    ASSUME OInv, NEW p \in Process, pc[p] = "calling", todo[p] = {},
           UNCHANGED handled,
           row' = [row EXCEPT ![current[p]] = "dispatched"]
    PROVE  /\ NoPhantomEvent' /\ DispatchedIsDelivered'
           /\ \A e \in Envelope : Committed(e) => Committed(e)'
<1>1. \A e \in Envelope : row'[e] = IF e = current[p] THEN "dispatched" ELSE row[e]
    BY DEF OInv, TypeOK
<1>2. \A e \in Envelope : Committed(e) => Committed(e)'
    BY <1>1 DEF Committed
<1>3. QED
    BY <1>1, <1>2, UsedUp DEF OInv, NoPhantomEvent, DispatchedIsDelivered

\* A process that stops working on its envelope, when rows at most advance.
LEMMA StopStep ==
    ASSUME OInv, NEW p \in Process,
           NoPhantomEvent', DispatchedIsDelivered', SteadyIsRegistered',
           \A e \in Envelope : Committed(e) => Committed(e)', UNCHANGED handled,
           \A q \in Process : q # p => /\ pc'[q] = pc[q] /\ batch'[q] = batch[q]
                                        /\ current'[q] = current[q] /\ todo'[q] = todo[q],
           batch'[p] \subseteq batch[p],
           \/ pc'[p] \in {"idle", "batch"} /\ todo'[p] = {}
           \/ /\ pc'[p] = "recording" /\ pc[p] = "calling"
              /\ current'[p] = current[p] /\ todo'[p] = todo[p]
    PROVE  Rest'
<1>1. WorkIsCommitted'
    BY DEF OInv, TypeOK, WorkIsCommitted
<1>2. SnapshotIsKept' /\ TodoListens'
    BY DEF OInv, SnapshotIsKept, TodoListens
<1>3. QED
    BY <1>1, <1>2 DEF Rest

\* What leaving an envelope and dropping a batch do to the processes.
LEMMA StopFrame ==
    ASSUME OInv, NEW p \in Process, LeaveEnvelope(p) \/ DropBatch(p)
    PROVE  /\ \A q \in Process : q # p => /\ pc'[q] = pc[q] /\ batch'[q] = batch[q]
                                           /\ current'[q] = current[q] /\ todo'[q] = todo[q]
           /\ batch'[p] \subseteq batch[p]
           /\ pc'[p] \in {"idle", "batch"} /\ todo'[p] = {}
BY DEF LeaveEnvelope, DropBatch, OInv, TypeOK

\* What a step that changes neither rows nor deliveries keeps.
LEMMA QuietFrame ==
    ASSUME OInv, UNCHANGED <<row, handled>>
    PROVE  /\ NoPhantomEvent' /\ DispatchedIsDelivered'
           /\ \A e \in Envelope : Committed(e) => Committed(e)'
BY DEF OInv, NoPhantomEvent, DispatchedIsDelivered, Committed

\* Every step keeps the invariant.
LEMMA NextOInv == OInv /\ HasCurrent /\ [Next]_vars => (OInv /\ HasCurrent)'
<1> SUFFICES ASSUME OInv, HasCurrent, [Next]_vars
             PROVE  OInv' /\ HasCurrent'
    OBVIOUS
<1>1. TypeOK' /\ HasCurrent'
    BY NextTypes DEF OInv
<1>2. CASE UNCHANGED vars
    <2>1. NoPhantomEvent' /\ DispatchedIsDelivered' /\ WorkIsCommitted'
        BY <1>2 DEF vars, OInv, NoPhantomEvent, DispatchedIsDelivered, WorkIsCommitted, Committed
    <2>2. SnapshotIsKept' /\ SteadyIsRegistered' /\ TodoListens'
        BY <1>2 DEF vars, OInv, SnapshotIsKept, SteadyIsRegistered, TodoListens
    <2>3. QED
        BY <1>1, <2>1, <2>2 DEF OInv
<1>3. CASE Next
    <2>1. \A e \in Envelope : Publish(e) => Rest'
        BY MoveRowStep DEF Publish
    <2>2. \A e \in Envelope : PublisherCommits(e) => Rest'
        BY MoveRowStep DEF PublisherCommits
    <2>3. \A e \in Envelope : PublisherRollsBack(e) => Rest'
        BY MoveRowStep DEF PublisherRollsBack
    <2>4. \A p \in Process, s \in Subscriber : Subscribe(p, s) => Rest'
        BY BucketStep
    <2>5. \A p \in Process, s \in Subscriber : Unsubscribe(p, s) => Rest'
        BY BucketStep
    <2>6. \A p \in Process : StartBatch(p) => Rest'
        BY StartBatchStep
    <2>7. \A p \in Process, e \in Envelope : StartEnvelope(p, e) => Rest'
        BY StartEnvelopeStep
    <2>8. \A p \in Process, s \in Subscriber : CallReturns(p, s) => Rest'
        BY CallReturnsStep
    <2>9. ASSUME NEW p \in Process, NEW s \in Subscriber, CallRaises(p, s)
          PROVE  Rest'
        <3>1. UNCHANGED <<row, bucket, batch, current, todo, handled>>
            BY <2>9 DEF CallRaises
        <3>2. pc[p] = "calling" /\ pc'[p] = "recording" /\ \A q \in Process : q # p => pc'[q] = pc[q]
            BY <2>9 DEF CallRaises, OInv, TypeOK
        <3>3. SteadyIsRegistered'
            BY <3>1 DEF OInv, SteadyIsRegistered
        <3>4. QED
            BY <3>1, <3>2, <3>3, QuietFrame, StopStep
    <2>10. ASSUME NEW p \in Process, MarkDispatched(p)
          PROVE  Rest'
        <3>1. NoPhantomEvent' /\ DispatchedIsDelivered' /\ \A e \in Envelope : Committed(e) => Committed(e)'
            BY <2>10, CloseRow DEF MarkDispatched
        <3>2. SteadyIsRegistered' /\ UNCHANGED handled
            BY <2>10 DEF MarkDispatched, OInv, SteadyIsRegistered
        <3>3. QED
            BY <2>10, <3>1, <3>2, StopFrame, StopStep DEF MarkDispatched
    <2>11. ASSUME NEW p \in Process, MarkRaises(p)
          PROVE  Rest'
        <3>1. UNCHANGED <<bucket, batch, current, todo, handled>>
            BY <2>11 DEF MarkRaises
        <3>2. pc[p] = "calling" /\ pc'[p] = "recording" /\ \A q \in Process : q # p => pc'[q] = pc[q]
            BY <2>11 DEF MarkRaises, OInv, TypeOK
        <3>3. NoPhantomEvent' /\ DispatchedIsDelivered' /\ \A e \in Envelope : Committed(e) => Committed(e)'
            BY <2>11, CloseRow, QuietFrame DEF MarkRaises
        <3>4. SteadyIsRegistered'
            BY <3>1 DEF OInv, SteadyIsRegistered
        <3>5. QED
            BY <3>1, <3>2, <3>3, <3>4, StopStep
    <2>12. ASSUME NEW p \in Process, RecordFailure(p)
          PROVE  Rest'
        <3>1. UNCHANGED <<row, bucket, handled>> /\ LeaveEnvelope(p)
            BY <2>12 DEF RecordFailure
        <3>2. SteadyIsRegistered'
            BY <3>1 DEF OInv, SteadyIsRegistered
        <3>3. QED
            BY <3>1, <3>2, StopFrame, QuietFrame, StopStep
    <2>13. ASSUME NEW p \in Process, Abort(p) \/ Crash(p)
          PROVE  Rest'
        <3>1. UNCHANGED <<row, handled>> /\ DropBatch(p)
            BY <2>13 DEF Abort, Crash, DropBatch
        <3>2. SteadyIsRegistered'
            BY <2>13 DEF Abort, Crash, OInv, TypeOK, SteadyIsRegistered
        <3>3. QED
            BY <3>1, <3>2, StopFrame, QuietFrame, StopStep
    <2>14. Rest'
        BY <1>3, <2>1, <2>2, <2>3, <2>4, <2>5, <2>6, <2>7, <2>8, <2>9, <2>10, <2>11,
           <2>12, <2>13, NextCases
    <2>15. QED
        BY <1>1, <2>14 DEF Rest, OInv
<1>4. QED
    BY <1>2, <1>3

\* The invariant of the outbox and its dispatchers in full.
THEOREM Invariance == Spec => []OInv
BY InitOInv, NextOInv, PTL DEF Spec

\* No subscriber ever gets an event of work that was not committed.
THEOREM NoPhantoms == Spec => []NoPhantomEvent
<1>1. OInv => NoPhantomEvent
    BY DEF OInv
<1>2. QED
    BY <1>1, InitOInv, NextOInv, PTL DEF Spec

\* At-least-once delivery: a closed row was handled by every steady subscriber.
THEOREM AtLeastOnce == Spec => []DispatchedIsDelivered
<1>1. OInv => DispatchedIsDelivered
    BY DEF OInv
<1>2. QED
    BY <1>1, InitOInv, NextOInv, PTL DEF Spec

-------------------------------------------------------------------------------
(* The dispatcher implements EventDelivery.                                *)

DStep == Delivery!Next \/ UNCHANGED Delivery!dvars

\* Every step of the outbox is a step of the abstract bus.
LEMMA StepRefines == OInv /\ HasCurrent /\ [Next]_vars => DStep
<1> SUFFICES ASSUME OInv, HasCurrent, [Next]_vars PROVE DStep
    OBVIOUS
<1>1. CASE UNCHANGED vars
    BY <1>1 DEF DStep, vars, Delivery!dvars
<1>2. CASE Next
    <2>1. ASSUME NEW e \in Envelope, Publish(e) \/ PublisherCommits(e) \/ PublisherRollsBack(e)
          PROVE  DStep
        <3>1. Delivery!Append(e) \/ Delivery!CommitWork(e) \/ Delivery!DropWork(e)
            BY <2>1 DEF Publish, PublisherCommits, PublisherRollsBack, MoveRow,
               Delivery!Append, Delivery!CommitWork, Delivery!DropWork, Delivery!Move
        <3>2. QED
            BY <3>1 DEF DStep, Delivery!Next
    <2>2. ASSUME NEW p \in Process, NEW s \in Subscriber, CallReturns(p, s)
          PROVE  DStep
        <3>1. current[p] \in Envelope /\ Committed(current[p]) /\ current[p] \in Interest[s]
            BY <2>2 DEF CallReturns, OInv, WorkIsCommitted, TodoListens
        <3>2. Delivery!Deliver(s, current[p])
            BY <2>2, <3>1 DEF CallReturns, Committed, Delivery!Deliver
        <3>3. QED
            BY <3>1, <3>2 DEF DStep, Delivery!Next
    <2>3. ASSUME NEW p \in Process, MarkDispatched(p) \/ MarkRaises(p)
          PROVE  DStep
        <3>1. CASE UNCHANGED row
            BY <2>3, <3>1 DEF MarkDispatched, MarkRaises, DStep, Delivery!dvars
        <3>2. CASE row' = [row EXCEPT ![current[p]] = "dispatched"]
            <4>1. pc[p] = "calling" /\ todo[p] = {} /\ UNCHANGED handled
                BY <2>3 DEF MarkDispatched, MarkRaises
            <4>2. Delivery!Close(current[p])
                BY <3>2, <4>1, UsedUp DEF Committed, Delivery!Close
            <4>3. QED
                BY <4>1, <4>2, UsedUp DEF DStep, Delivery!Next
        <3>3. QED
            BY <2>3, <3>1, <3>2 DEF MarkDispatched, MarkRaises
    <2>4. \A p \in Process, s \in Subscriber : Subscribe(p, s) \/ Unsubscribe(p, s) => DStep
        BY DEF Subscribe, Unsubscribe, DStep, Delivery!dvars
    <2>5. \A p \in Process, s \in Subscriber : CallRaises(p, s) => DStep
        BY DEF CallRaises, DStep, Delivery!dvars
    <2>6. \A p \in Process : StartBatch(p) => DStep
        BY DEF StartBatch, DStep, Delivery!dvars
    <2>7. \A p \in Process, e \in Envelope : StartEnvelope(p, e) => DStep
        BY DEF StartEnvelope, DStep, Delivery!dvars
    <2>8. \A p \in Process : RecordFailure(p) => DStep
        BY DEF RecordFailure, DStep, Delivery!dvars
    <2>9. \A p \in Process : Abort(p) \/ Crash(p) => DStep
        BY DEF Abort, Crash, DropBatch, DStep, Delivery!dvars
    <2>10. QED
        BY <1>2, <2>1, <2>2, <2>3, <2>4, <2>5, <2>6, <2>7, <2>8, <2>9, NextCases
<1>3. QED
    BY <1>1, <1>2

\* The outbox and its dispatchers are at-least-once delivery of committed work.
THEOREM Refinement == Spec => ImplementsEventDelivery
<1>1. Init => Delivery!Init
    BY DEF Init, Delivery!Init
<1>2. OInv /\ HasCurrent /\ [Next]_vars => [Delivery!Next]_(Delivery!dvars)
    BY StepRefines DEF DStep
<1>3. QED
    BY <1>1, <1>2, InitOInv, NextOInv, PTL DEF Spec, ImplementsEventDelivery, Delivery!Spec
===============================================================================
