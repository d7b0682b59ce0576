---------------------------- MODULE EventDelivery ----------------------------
(***************************************************************************)
(* What the event bus promises a subscriber, without saying how: an event  *)
(* is handed out only when the work it tells of is committed, and it is    *)
(* closed only when every subscriber that is always there has handled it.  *)
(***************************************************************************)
CONSTANTS
    Envelope,   \* published envelopes
    Subscriber, \* event handlers of plugins
    Steady,     \* the subscribers that every process keeps registered
    Interest    \* Interest[s]: the envelopes of the event ids s listens to

VARIABLES
    row,        \* row[e]: the outbox row of e
    handled     \* the pairs <<s, e>> such that s has handled e

dvars == <<row, handled>>

Init ==
    /\ row = [e \in Envelope |-> "none"]
    /\ handled = {}

Move(e, from, to) ==
    /\ row[e] = from
    /\ row' = [row EXCEPT ![e] = to]
    /\ UNCHANGED handled

Append(e) == Move(e, "none", "uncommitted")
CommitWork(e) == Move(e, "uncommitted", "pending")
DropWork(e) == Move(e, "uncommitted", "discarded")

\* An envelope may be handled any number of times, even after it was closed.
Deliver(s, e) ==
    /\ row[e] \in {"pending", "dispatched"}
    /\ e \in Interest[s]
    /\ handled' = handled \cup {<<s, e>>}
    /\ UNCHANGED row

Close(e) ==
    /\ row[e] \in {"pending", "dispatched"}
    /\ \A s \in Steady : e \in Interest[s] => <<s, e>> \in handled
    /\ row' = [row EXCEPT ![e] = "dispatched"]
    /\ UNCHANGED handled

Next ==
    \/ \E e \in Envelope : Append(e) \/ CommitWork(e) \/ DropWork(e) \/ Close(e)
    \/ \E s \in Subscriber, e \in Envelope : Deliver(s, e)

Spec == Init /\ [][Next]_dvars
===============================================================================
