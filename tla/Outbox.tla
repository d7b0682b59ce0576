-------------------------------- MODULE Outbox --------------------------------
(***************************************************************************)
(* The transactional outbox and its dispatchers.  Publishing appends a row *)
(* in the publisher's transaction; a process that calls dispatch_pending   *)
(* reads a batch of committed rows in one transaction and then hands out   *)
(* each envelope in a transaction of its own, while publishers, other      *)
(* processes and the enabling and disabling of plugins go on.              *)
(*                                                                         *)
(* Envelopes are numbered in the order of (created_at, envelope_id), which *)
(* is the time the event was made and not the time its row was committed:  *)
(* rows are committed in any order.  The bucket of an event id, a list     *)
(* without duplicates, is the set of its subscribers.                      *)
(***************************************************************************)
EXTENDS Naturals, FiniteSets

CONSTANTS
    Envelope,   \* the published envelopes, a set of numbers
    Subscriber, \* event handlers of plugins
    Steady,     \* the subscribers every process registers when it boots and keeps
    Interest,   \* Interest[s]: the envelopes of the event ids s listens to
    Bad,        \* the pairs <<s, e>> such that s raises whenever it gets e
    Process,    \* the processes that dispatch
    Limit,      \* the limit of dispatch_pending
    MaxFaults,  \* bound on transient failures, interrupts and process deaths
    None        \* no envelope

ASSUME EnvelopeAssumption == Envelope \subseteq Nat /\ None \notin Envelope
ASSUME SubscriberAssumption ==
    /\ Steady \subseteq Subscriber
    /\ Interest \in [Subscriber -> SUBSET Envelope]
ASSUME BoundAssumption == Limit \in Nat \ {0} /\ MaxFaults \in Nat

VARIABLES
    row,      \* row[e]: the row of e, "pending" while dispatched_at is null
    failure,  \* failure[e]: record_failure has set attempts and last_error
    bucket,   \* bucket[p]: EventDispatcher._subscribers of process p
    pc,       \* pc[p]: where p is in dispatch_pending
    batch,    \* batch[p]: the envelopes of the batch p has not come to
    current,  \* current[p]: the envelope p hands out
    todo,     \* todo[p]: the subscribers of its snapshot p has not called
    handled,  \* the pairs <<s, e>> such that s has handled e
    faults    \* transient faults so far

vars == <<row, failure, bucket, pc, batch, current, todo, handled, faults>>

Row == {"none", "uncommitted", "pending", "dispatched", "discarded"}
Committed(e) == row[e] \in {"pending", "dispatched"}

TypeOK ==
    /\ row \in [Envelope -> Row]
    /\ failure \in [Envelope -> BOOLEAN]
    /\ bucket \in [Process -> SUBSET Subscriber]
    /\ pc \in [Process -> {"idle", "batch", "calling", "recording"}]
    /\ batch \in [Process -> SUBSET Envelope]
    /\ current \in [Process -> Envelope \cup {None}]
    /\ todo \in [Process -> SUBSET Subscriber]
    /\ handled \in SUBSET (Subscriber \X Envelope)
    /\ faults \in 0..MaxFaults

Init ==
    /\ row = [e \in Envelope |-> "none"]
    /\ failure = [e \in Envelope |-> FALSE]
    /\ bucket = [p \in Process |-> Steady]
    /\ pc = [p \in Process |-> "idle"]
    /\ batch = [p \in Process |-> {}]
    /\ current = [p \in Process |-> None]
    /\ todo = [p \in Process |-> {}]
    /\ handled = {}
    /\ faults = 0

Fault == faults < MaxFaults /\ faults' = faults + 1

-------------------------------------------------------------------------------
(* Publishing and subscribing.                                             *)

MoveRow(e, from, to) ==
    /\ row[e] = from
    /\ row' = [row EXCEPT ![e] = to]
    /\ UNCHANGED <<failure, bucket, pc, batch, current, todo, handled, faults>>

\* publish(): the row joins the caller's transaction.
Publish(e) == MoveRow(e, "none", "uncommitted")

\* The end of that transaction.
PublisherCommits(e) == MoveRow(e, "uncommitted", "pending")
PublisherRollsBack(e) == MoveRow(e, "uncommitted", "discarded")

\* A plugin is enabled or disabled in process p, at any time.
Subscribe(p, s) ==
    /\ bucket' = [bucket EXCEPT ![p] = @ \cup {s}]
    /\ UNCHANGED <<row, failure, pc, batch, current, todo, handled, faults>>

Unsubscribe(p, s) ==
    /\ s \notin Steady
    /\ bucket' = [bucket EXCEPT ![p] = @ \ {s}]
    /\ UNCHANGED <<row, failure, pc, batch, current, todo, handled, faults>>

-------------------------------------------------------------------------------
(* Dispatching.                                                            *)

\* Slip: the batch is read in the publisher's session, its open work included.
PendingUncommitted ==
    LET waiting == {e \in Envelope : row[e] \in {"uncommitted", "pending"}} IN
    {e \in waiting : Cardinality({f \in waiting : f < e}) < Limit}

\* OutboxRepository.pending(limit): the oldest committed rows not dispatched.
Pending ==
    LET waiting == {e \in Envelope : row[e] = "pending"} IN
    {e \in waiting : Cardinality({f \in waiting : f < e}) < Limit}

\* dispatch_pending reads its batch; there is nothing to do for an empty one.
StartBatch(p) ==
    /\ pc[p] = "idle"
    /\ Pending # {}
    /\ pc' = [pc EXCEPT ![p] = "batch"]
    /\ batch' = [batch EXCEPT ![p] = Pending]
    /\ UNCHANGED <<row, failure, bucket, current, todo, handled, faults>>

\* _dispatch_one takes the next envelope of the batch, whatever became of its
\* row meanwhile, and a snapshot of the subscribers.
StartEnvelope(p, e) ==
    /\ pc[p] = "batch"
    /\ e \in batch[p]
    /\ \A f \in batch[p] : e <= f
    /\ pc' = [pc EXCEPT ![p] = "calling"]
    /\ batch' = [batch EXCEPT ![p] = @ \ {e}]
    /\ current' = [current EXCEPT ![p] = e]
    /\ todo' = [todo EXCEPT ![p] = {s \in bucket[p] : e \in Interest[s]}]
    /\ UNCHANGED <<row, failure, bucket, handled, faults>>

\* A subscriber returns.
CallReturns(p, s) ==
    /\ pc[p] = "calling"
    /\ s \in todo[p]
    /\ <<s, current[p]>> \notin Bad
    /\ todo' = [todo EXCEPT ![p] = @ \ {s}]
    /\ handled' = handled \cup {<<s, current[p]>>}
    /\ UNCHANGED <<row, failure, bucket, pc, batch, current, faults>>

\* The loop leaves the envelope for the next one of the batch, or ends.
LeaveEnvelope(p) ==
    /\ pc' = [pc EXCEPT ![p] = IF batch[p] = {} THEN "idle" ELSE "batch"]
    /\ current' = [current EXCEPT ![p] = None]
    /\ todo' = [todo EXCEPT ![p] = {}]
    /\ UNCHANGED batch

\* All subscribers returned: mark_dispatched and commit.
MarkDispatched(p) ==
    /\ pc[p] = "calling"
    /\ todo[p] = {}
    /\ row' = [row EXCEPT ![current[p]] = "dispatched"]
    /\ LeaveEnvelope(p)
    /\ UNCHANGED <<failure, bucket, handled, faults>>

\* Slip: the error of one subscriber is swallowed inside the loop.
CallRaisesSwallowed(p, s) ==
    /\ pc[p] = "calling"
    /\ s \in todo[p]
    /\ IF <<s, current[p]>> \in Bad THEN UNCHANGED faults ELSE Fault
    /\ todo' = [todo EXCEPT ![p] = @ \ {s}]
    /\ UNCHANGED <<row, failure, bucket, pc, batch, current, handled>>

\* Slip: the error of one subscriber leaves dispatch_pending.
CallRaisesThrough(p, s) ==
    /\ pc[p] = "calling"
    /\ s \in todo[p]
    /\ IF <<s, current[p]>> \in Bad THEN UNCHANGED faults ELSE Fault
    /\ pc' = [pc EXCEPT ![p] = "idle"]
    /\ batch' = [batch EXCEPT ![p] = {}]
    /\ current' = [current EXCEPT ![p] = None]
    /\ todo' = [todo EXCEPT ![p] = {}]
    /\ UNCHANGED <<row, failure, bucket, handled>>

\* A subscriber raises, always or this time: the transaction rolls back.
CallRaises(p, s) ==
    /\ pc[p] = "calling"
    /\ s \in todo[p]
    /\ IF <<s, current[p]>> \in Bad THEN UNCHANGED faults ELSE Fault
    /\ pc' = [pc EXCEPT ![p] = "recording"]
    /\ UNCHANGED <<row, failure, bucket, batch, current, todo, handled>>

\* The commit of mark_dispatched raises; the database may have taken it.
MarkRaises(p) ==
    /\ pc[p] = "calling"
    /\ todo[p] = {}
    /\ Fault
    /\ row' \in {row, [row EXCEPT ![current[p]] = "dispatched"]}
    /\ pc' = [pc EXCEPT ![p] = "recording"]
    /\ UNCHANGED <<failure, bucket, batch, current, todo, handled>>

\* record_failure commits, on whatever row is there by now.
RecordFailure(p) ==
    /\ pc[p] = "recording"
    /\ failure' = [failure EXCEPT ![current[p]] = TRUE]
    /\ LeaveEnvelope(p)
    /\ UNCHANGED <<row, bucket, handled, faults>>

\* What leaves dispatch_pending by an exception drops the rest of the batch.
DropBatch(p) ==
    /\ pc' = [pc EXCEPT ![p] = "idle"]
    /\ batch' = [batch EXCEPT ![p] = {}]
    /\ current' = [current EXCEPT ![p] = None]
    /\ todo' = [todo EXCEPT ![p] = {}]
    /\ UNCHANGED <<row, failure, handled>>

\* record_failure raises, or a subscriber raises what is no Exception.
Abort(p) ==
    /\ \/ pc[p] = "recording"
       \/ pc[p] = "calling" /\ todo[p] # {}
    /\ Fault
    /\ DropBatch(p)
    /\ UNCHANGED bucket

\* The process dies and boots again.
Crash(p) ==
    /\ Fault
    /\ DropBatch(p)
    /\ bucket' = [bucket EXCEPT ![p] = Steady]

-------------------------------------------------------------------------------
Dispatch(p) ==
    \/ StartBatch(p)
    \/ \E e \in Envelope : StartEnvelope(p, e)
    \/ \E s \in Subscriber : CallReturns(p, s)
    \/ MarkDispatched(p)
    \/ \E s \in Subscriber : <<s, current[p]>> \in Bad /\ CallRaises(p, s)
    \/ RecordFailure(p)

Next ==
    \/ \E e \in Envelope :
          Publish(e) \/ PublisherCommits(e) \/ PublisherRollsBack(e)
    \/ \E p \in Process, s \in Subscriber :
          Subscribe(p, s) \/ Unsubscribe(p, s) \/ CallRaises(p, s)
    \/ \E p \in Process : Dispatch(p) \/ MarkRaises(p) \/ Abort(p) \/ Crash(p)

Spec == Init /\ [][Next]_vars

\* dispatch_pending is called again and again, runs on, and each call of a
\* subscriber ends.
FairSpec == Spec /\ \A p \in Process : WF_vars(Dispatch(p))
-------------------------------------------------------------------------------
(* Properties.                                                             *)

\* No subscriber gets an event of a transaction that is open or rolled back
\* (OutboxRepository.pending reads committed rows of a fresh transaction).
NoPhantomEvent ==
    \A s \in Subscriber, e \in Envelope : <<s, e>> \in handled => Committed(e)

\* A row is closed only after every subscriber that was there all the time has
\* handled the event, however batches, failures, deaths, other processes and
\* plugins that come and go are interleaved: at-least-once delivery.
DispatchedIsDelivered ==
    \A s \in Steady, e \in Envelope :
        row[e] = "dispatched" /\ e \in Interest[s] => <<s, e>> \in handled

\* The outbox is at-least-once delivery of committed work.
Delivery == INSTANCE EventDelivery
ImplementsEventDelivery == Delivery!Spec

Deliverable(e) == \A s \in Subscriber : <<s, e>> \notin Bad

\* docs/EVENT_SPEC.md: a raising subscriber does not keep the other envelopes
\* from going out: one bad subscriber cannot block the bus.
GoodEnvelopesGoOut ==
    \A e \in Envelope :
        Deliverable(e) => (row[e] = "pending" ~> row[e] = "dispatched")

-------------------------------------------------------------------------------
(* The inductive invariant behind DispatchedIsDelivered.                   *)

\* What a process works on was committed when it read its batch.
WorkIsCommitted ==
    \A p \in Process :
        /\ \A e \in batch[p] : Committed(e)
        /\ pc[p] \in {"calling", "recording"} => current[p] \in Envelope /\ Committed(current[p])

\* A subscriber that is always there is in every snapshot until it has returned.
SnapshotIsKept ==
    \A p \in Process, s \in Steady :
        pc[p] = "calling" /\ current[p] \in Interest[s] =>
            s \in todo[p] \/ <<s, current[p]>> \in handled

SteadyIsRegistered == \A p \in Process : Steady \subseteq bucket[p]

TodoListens ==
    \A p \in Process : \A s \in todo[p] : current[p] \in Interest[s]

OInv ==
    /\ TypeOK /\ NoPhantomEvent /\ DispatchedIsDelivered
    /\ WorkIsCommitted /\ SnapshotIsKept /\ SteadyIsRegistered /\ TodoListens
===============================================================================
