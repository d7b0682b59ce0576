-------------------------- MODULE OneTimeConfirmation --------------------------
(***************************************************************************)
(* What a typed confirmation promises: it is issued once, for one actor,   *)
(* target and action, and spent in the same instant as the one change it   *)
(* confirms takes effect.                                                  *)
(***************************************************************************)
CONSTANTS
    Request,       \* requests
    Confirmation,  \* confirmation ids
    Binding,       \* what a confirmation can be bound to
    None           \* no confirmation

VARIABLES
    status,  \* status[c]: unissued, active or used
    boundTo, \* boundTo[c]: what c was issued for
    done,    \* the requests whose change took effect
    spent    \* spent[r]: the confirmation r's change has spent

vars == <<status, boundTo, done, spent>>

Init ==
    /\ status = [c \in Confirmation |-> "unissued"]
    /\ boundTo = [c \in Confirmation |-> None]
    /\ done = {}
    /\ spent = [r \in Request |-> None]

\* r issues c for b.
Issue(r, c, b) ==
    /\ r \notin done
    /\ status[c] = "unissued"
    /\ status' = [status EXCEPT ![c] = "active"]
    /\ boundTo' = [boundTo EXCEPT ![c] = b]
    /\ done' = done \cup {r}
    /\ UNCHANGED spent

\* r's change takes effect, needing no confirmation.
Effect(r) ==
    /\ r \notin done
    /\ done' = done \cup {r}
    /\ UNCHANGED <<status, boundTo, spent>>

\* r's change takes effect and spends c.
Spend(r, c) ==
    /\ r \notin done
    /\ status[c] = "active"
    /\ status' = [status EXCEPT ![c] = "used"]
    /\ spent' = [spent EXCEPT ![r] = c]
    /\ done' = done \cup {r}
    /\ UNCHANGED boundTo

Next == \E r \in Request :
    \/ Effect(r)
    \/ \E c \in Confirmation : Spend(r, c) \/ \E b \in Binding : Issue(r, c, b)

Spec == Init /\ [][Next]_vars
===============================================================================
