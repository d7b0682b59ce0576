--------------------------- MODULE AtomicOperations ---------------------------
(***************************************************************************)
(* What the platform promises a plugin about transactions, without saying  *)
(* how: every operation has a private buffer, and its writes reach the     *)
(* database in the one step that decides its outcome.                      *)
(***************************************************************************)
CONSTANTS
    Op,     \* instances of operations, each used once
    Part    \* the writes one operation may make

VARIABLES
    phase,    \* phase[o]: where operation o is in its life
    written,  \* written[o]: the private buffer of o
    durable   \* the writes a fresh transaction can read

avars == <<phase, written, durable>>

WritesOf(o) == {o} \X written[o]

Init ==
    /\ phase = [o \in Op |-> "idle"]
    /\ written = [o \in Op |-> {}]
    /\ durable = {}

Begin(o) ==
    /\ phase[o] = "idle"
    /\ phase' = [phase EXCEPT ![o] = "running"]
    /\ UNCHANGED <<written, durable>>

\* The unit of work would not even begin.
Refuse(o) ==
    /\ phase[o] = "idle"
    /\ phase' = [phase EXCEPT ![o] = "failed"]
    /\ UNCHANGED <<written, durable>>

Buffer(o, p) ==
    /\ phase[o] = "running"
    /\ written' = [written EXCEPT ![o] = @ \cup {p}]
    /\ UNCHANGED <<phase, durable>>

\* A success is reported exactly when every write of the operation is stored.
Succeed(o) ==
    /\ phase[o] = "running"
    /\ phase' = [phase EXCEPT ![o] = "ok"]
    /\ durable' = durable \cup WritesOf(o)
    /\ UNCHANGED written

\* A failure stores nothing, unless the database took the whole commit and
\* only its answer was lost.
Fail(o) ==
    /\ phase[o] = "running"
    /\ phase' = [phase EXCEPT ![o] = "failed"]
    /\ durable' \in {durable, durable \cup WritesOf(o)}
    /\ UNCHANGED written

\* The process dies: every operation in flight is lost with its buffer.
Die ==
    /\ phase' = [o \in Op |-> IF phase[o] = "running" THEN "failed" ELSE phase[o]]
    /\ UNCHANGED <<written, durable>>

Next ==
    \/ \E o \in Op : Begin(o) \/ Refuse(o) \/ Succeed(o) \/ Fail(o)
    \/ \E o \in Op, p \in Part : Buffer(o, p)
    \/ Die

Spec == Init /\ [][Next]_avars
===============================================================================
