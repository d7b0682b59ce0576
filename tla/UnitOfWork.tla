------------------------------ MODULE UnitOfWork ------------------------------
(***************************************************************************)
(* The platform-owned transaction: one cached SqlUnitOfWork per plugin,    *)
(* entered by SqlTransactionRunner.run, by AuthorizationService's          *)
(* _run_mutation and by the contract registry's _invoke_one, with the      *)
(* rollback failure that poisons it, and the death of the process.         *)
(*                                                                         *)
(* A write is a pair <<operation, part>>.  An operation that joins the     *)
(* transaction of an enclosing operation of its own thread leaves no trace *)
(* of its own: its writes are writes of the enclosing one.                 *)
(***************************************************************************)
CONSTANTS
    Op,            \* instances of operations, each used once (bounds a run)
    Part,          \* the writes one operation may make
    UoW,           \* the cached units of work
    Thread,        \* request threads
    None,          \* no caller, no unit of work, no thread
    HandlerWrites, \* may a contract handler write before its nested mutations?
    BareMutations, \* may _run_mutation be entered outside any operation?
    Shared,        \* may two threads use one unit of work at the same time?
    RollbackFails  \* may session.rollback() raise?

ASSUME NoneAssumption == None \notin Op \cup UoW \cup Thread
ASSUME SwitchAssumption ==
    {HandlerWrites, BareMutations, Shared, RollbackFails} \subseteq BOOLEAN

VARIABLES
    phase,    \* phase[o]: idle, running, or the outcome its caller was told
    written,  \* written[o]: the writes o made
    durable,  \* the committed writes
    kind,     \* kind[o]: the entry point o came in by
    home,     \* home[o]: the unit of work o runs on
    caller,   \* caller[o]: the operation that called o, None for a request
    thread,   \* thread[o]: the thread o runs on
    explicit, \* explicit[u]: SqlUnitOfWork._explicit_transaction
    poisoned, \* poisoned[u]: SqlUnitOfWork._poisoned
    pending   \* pending[u]: what u's session wrote and did not commit

opVars == <<phase, written, kind, home, caller, thread>>
uowVars == <<explicit, poisoned, pending>>
vars == <<phase, written, durable, kind, home, caller, thread,
          explicit, poisoned, pending>>

Kind == {"run", "mutation", "joined", "invoke"}
Phase == {"idle", "running", "ok", "failed"}
Write == Op \X Part

TypeOK ==
    /\ phase \in [Op -> Phase]
    /\ written \in [Op -> SUBSET Part]
    /\ durable \in SUBSET Write
    /\ kind \in [Op -> Kind]
    /\ home \in [Op -> UoW \cup {None}]
    /\ caller \in [Op -> Op \cup {None}]
    /\ thread \in [Op -> Thread \cup {None}]
    /\ explicit \in [UoW -> BOOLEAN]
    /\ poisoned \in [UoW -> BOOLEAN]
    /\ pending \in [UoW -> SUBSET Write]

Init ==
    /\ phase = [o \in Op |-> "idle"]
    /\ written = [o \in Op |-> {}]
    /\ durable = {}
    /\ kind = [o \in Op |-> "run"]
    /\ home = [o \in Op |-> None]
    /\ caller = [o \in Op |-> None]
    /\ thread = [o \in Op |-> None]
    /\ explicit = [u \in UoW |-> FALSE]
    /\ poisoned = [u \in UoW |-> FALSE]
    /\ pending = [u \in UoW |-> {}]

-------------------------------------------------------------------------------
(* Which operation a thread is in.                                         *)

Running(o) == phase[o] = "running"

\* o is executing itself, not waiting for an operation it called.
Innermost(o) == Running(o) /\ \A p \in Op : Running(p) => caller[p] # o

\* Thread t can make a call from c: from its innermost operation, or as a new
\* request when it has none.
CanCall(t, c) ==
    IF c = None THEN \A p \in Op : Running(p) => thread[p] # t
                ELSE Innermost(c) /\ thread[c] = t

\* No plugin calls back into its own unit of work, and only a shared unit of
\* work is used by another thread meanwhile.
Free(u, t) ==
    \A p \in Op : Running(p) /\ home[p] = u => Shared /\ thread[p] # t

Enter(o, k, u, t, c, outcome) ==
    /\ phase[o] = "idle"
    /\ phase' = [phase EXCEPT ![o] = outcome]
    /\ kind' = [kind EXCEPT ![o] = k]
    /\ home' = [home EXCEPT ![o] = u]
    /\ caller' = [caller EXCEPT ![o] = c]
    /\ thread' = [thread EXCEPT ![o] = t]
    /\ UNCHANGED <<written, durable>>

Finish(o, outcome) ==
    /\ phase' = [phase EXCEPT ![o] = outcome]
    /\ UNCHANGED <<written, kind, home, caller, thread>>

-------------------------------------------------------------------------------
(* The unit of work.                                                       *)

\* Slip: begin() forgets to raise the explicit flag.
BeginWithoutFlag(o, k, u, t, c) ==
    /\ Enter(o, k, u, t, c, IF poisoned[u] THEN "failed" ELSE "running")
    /\ UNCHANGED uowVars

\* begin(): joins a session that is already in a transaction, leftovers and
\* all; on a poisoned unit of work it raises, and so does the rollback of the
\* error path, which poisons again.
BeginOrRefuse(o, k, u, t, c) ==
    \/ /\ ~poisoned[u]
       /\ Enter(o, k, u, t, c, "running")
       /\ explicit' = [explicit EXCEPT ![u] = TRUE]
       /\ UNCHANGED <<poisoned, pending>>
    \/ /\ poisoned[u]
       /\ Enter(o, k, u, t, c, "failed")
       /\ UNCHANGED uowVars

\* Slip: the error of a failing rollback is noted and nothing is poisoned.
RollbackWithoutPoison(u) ==
    \/ /\ explicit' = [explicit EXCEPT ![u] = FALSE]
       /\ pending' = [pending EXCEPT ![u] = {}]
       /\ UNCHANGED poisoned
    \/ /\ RollbackFails
       /\ UNCHANGED uowVars

\* _rollback_preserving: the rollback either clears the session, or raises and
\* poisons; then nobody can say whether the session kept its writes, and the
\* explicit flag stays as it was.
RollbackPreserving(u) ==
    \/ /\ ~poisoned[u]
       /\ explicit' = [explicit EXCEPT ![u] = FALSE]
       /\ pending' = [pending EXCEPT ![u] = {}]
       /\ UNCHANGED poisoned
    \/ /\ poisoned[u] \/ RollbackFails
       /\ poisoned' = [poisoned EXCEPT ![u] = TRUE]
       /\ \E kept \in {pending[u], {}} : pending' = [pending EXCEPT ![u] = kept]
       /\ UNCHANGED explicit

-------------------------------------------------------------------------------
(* Entry points.                                                           *)

\* SqlTransactionRunner.run, and `with uow` of the unit of work itself.
StartRun(o, u, t, c) ==
    /\ CanCall(t, c)
    /\ Free(u, t)
    /\ BeginOrRefuse(o, "run", u, t, c)

\* InMemoryContractRegistry._invoke_one: the handler runs without a begin.
StartInvoke(o, u, t, c) ==
    /\ CanCall(t, c)
    /\ Free(u, t)
    /\ Enter(o, "invoke", u, t, c, "running")
    /\ UNCHANGED uowVars

\* AuthorizationService._run_mutation that finds no explicit transaction and
\* owns one: from a contract handler of the same plugin, or bare.
StartMutation(o, u, t, c) ==
    /\ CanCall(t, c)
    /\ ~explicit[u]
    /\ \/ c = None /\ BareMutations /\ Free(u, t)
       \/ c # None /\ kind[c] = "invoke" /\ home[c] = u
    /\ BeginOrRefuse(o, "mutation", u, t, c)

\* _run_mutation entered bare while `in_transaction` says there is a
\* transaction already: it runs the operation and leaves the commit to whoever
\* set the flag.
StartJoined(o, u, t) ==
    /\ CanCall(t, None)
    /\ BareMutations
    /\ explicit[u]
    /\ Free(u, t)
    /\ Enter(o, "joined", u, t, None, "running")
    /\ UNCHANGED uowVars

-------------------------------------------------------------------------------
(* The body of an operation.                                               *)

\* A write through the session, by the operation or by a mutation that joined
\* its transaction.  Neither repositories nor plugin persistence look at the
\* poison flag.
WriteThrough(o, p) ==
    /\ Innermost(o)
    /\ kind[o] = "invoke" => HandlerWrites \/ explicit[home[o]]
    /\ p \notin written[o]
    /\ written' = [written EXCEPT ![o] = @ \cup {p}]
    /\ pending' = [pending EXCEPT ![home[o]] = @ \cup {<<o, p>>}]
    /\ UNCHANGED <<phase, durable, kind, home, caller, thread, explicit, poisoned>>

\* Slip: finish_read() rolls back an explicit transaction too.
FinishAnyRead(o) ==
    /\ Innermost(o)
    /\ ~poisoned[home[o]]
    /\ pending' = [pending EXCEPT ![home[o]] = {}]
    /\ UNCHANGED <<opVars, durable, explicit, poisoned>>

\* finish_read(): outside an explicit transaction it rolls the session back to
\* end the read.
FinishRead(o) ==
    /\ Innermost(o)
    /\ ~poisoned[home[o]]
    /\ ~explicit[home[o]]
    /\ pending' = [pending EXCEPT ![home[o]] = {}]
    /\ UNCHANGED <<opVars, durable, explicit, poisoned>>

-------------------------------------------------------------------------------
(* The end of an operation.                                                *)

\* Slip: commit() does not look at the poison flag.
CommitPoisoned(o) ==
    LET u == home[o] IN
    /\ Innermost(o)
    /\ kind[o] # "joined"
    /\ durable' = durable \cup pending[u]
    /\ pending' = [pending EXCEPT ![u] = {}]
    /\ explicit' = [explicit EXCEPT ![u] = FALSE]
    /\ Finish(o, "ok")
    /\ UNCHANGED poisoned

\* The operation returned and its owner's commit succeeded.
Commit(o) ==
    LET u == home[o] IN
    /\ Innermost(o)
    /\ kind[o] # "joined"
    /\ ~poisoned[u]
    /\ durable' = durable \cup pending[u]
    /\ pending' = [pending EXCEPT ![u] = {}]
    /\ explicit' = [explicit EXCEPT ![u] = FALSE]
    /\ Finish(o, "ok")
    /\ UNCHANGED poisoned

\* The commit raised: refused by the poison flag, refused by the database, or
\* taken by the database with the answer lost.
CommitRaises(o) ==
    LET u == home[o] IN
    /\ Innermost(o)
    /\ kind[o] # "joined"
    /\ durable' \in {durable, IF poisoned[u] THEN durable ELSE durable \cup pending[u]}
    /\ RollbackPreserving(u)
    /\ Finish(o, "failed")

\* The operation raised, or a call it made raised and it let the error pass.
Raise(o) ==
    /\ Innermost(o)
    /\ kind[o] # "joined"
    /\ RollbackPreserving(home[o])
    /\ Finish(o, "failed")
    /\ UNCHANGED durable

\* A joined mutation ends without touching the transaction.
EndJoined(o) ==
    /\ Innermost(o)
    /\ kind[o] = "joined"
    /\ \E outcome \in {"ok", "failed"} : Finish(o, outcome)
    /\ UNCHANGED <<durable, explicit, poisoned, pending>>

\* The process dies and starts again with fresh units of work.
Crash ==
    /\ \E o \in Op : Running(o)
    /\ phase' = [o \in Op |-> IF Running(o) THEN "failed" ELSE phase[o]]
    /\ explicit' = [u \in UoW |-> FALSE]
    /\ poisoned' = [u \in UoW |-> FALSE]
    /\ pending' = [u \in UoW |-> {}]
    /\ UNCHANGED <<written, durable, kind, home, caller, thread>>

Next ==
    \/ \E o \in Op, u \in UoW, t \in Thread, c \in Op \cup {None} :
          \/ StartRun(o, u, t, c)
          \/ StartInvoke(o, u, t, c)
          \/ StartMutation(o, u, t, c)
    \/ \E o \in Op, u \in UoW, t \in Thread : StartJoined(o, u, t)
    \/ \E o \in Op, p \in Part : WriteThrough(o, p)
    \/ \E o \in Op :
          \/ FinishRead(o) \/ Commit(o) \/ CommitRaises(o) \/ Raise(o) \/ EndJoined(o)
    \/ Crash

Spec == Init /\ [][Next]_vars
-------------------------------------------------------------------------------
(* Properties.                                                             *)

Stored(o) == {p \in Part : <<o, p>> \in durable}

AllOrNothing(o) ==
    /\ phase[o] \in {"idle", "running"} => Stored(o) = {}
    /\ phase[o] = "ok" => Stored(o) = written[o]
    /\ phase[o] = "failed" => Stored(o) \in {{}, written[o]}

\* Nothing an operation wrote is readable before its outcome is decided, all of
\* it is when success was reported, and never a part of it: the promise of
\* transactions.run, over every nesting of calls into other units of work.
OperationsAtomic == \A o \in Op : AllOrNothing(o)

\* The operations that begin and commit a transaction of their own.
Owner(o) == kind[o] \in {"run", "mutation"}

\* The same promise for the operations that begin their transaction, whatever a
\* contract handler around them wrote first.
OwnersAtomic == \A o \in Op : Owner(o) => AllOrNothing(o)

\* What a failed or finished operation wrote never waits in a usable session
\* for the commit of the next operation: the reason a rollback failure poisons.
NoLeftovers ==
    \A u \in UoW, o \in Op, p \in Part :
        ~poisoned[u] /\ <<o, p>> \in pending[u] => Running(o)

\* After a rollback failure nothing written through that unit of work reaches
\* the database any more, by no entry point.
PoisonIsFinal ==
    [][\A o \in Op : home[o] \in UoW /\ poisoned[home[o]] => Stored(o)' = Stored(o)]_vars

\* The shared session behaves as if every operation had a private buffer that
\* its own outcome commits or drops.
Abstract == INSTANCE AtomicOperations
ImplementsAtomicOperations == Abstract!Spec

\* docs/ARCHITECTURE.md: the registry commits once, after a normal handler
\* return; so nothing of a handler is durable while it runs.
HandlerCommitsOnReturn ==
    \A o \in Op : Running(o) /\ kind[o] = "invoke" => Stored(o) = {}

\* docs/CORE_CONSTITUTION.md: after a rollback failure later work fails closed;
\* so no operation on a poisoned unit of work reports success.
PoisonFailsClosed ==
    [][\A o \in Op : Running(o) /\ phase'[o] = "ok" => ~poisoned[home[o]]]_vars

\* docs/PLUGIN_SDK.md: an operation commits on normal return; so what a
\* successful operation wrote is stored, or at worst still on its way.
NoReportedWriteIsLost ==
    \A o \in Op : phase[o] = "ok" =>
        \A p \in written[o] : <<o, p>> \in durable \cup pending[home[o]]

-------------------------------------------------------------------------------
(* The inductive invariant behind OwnersAtomic and NoLeftovers, whatever the *)
(* handlers write and the rollbacks do.                                    *)

\* An operation that started has a unit of work to run on.
HomeOK == \A o \in Op : phase[o] # "idle" => home[o] \in UoW

\* A pending write was made by an operation of that unit of work.
PendingIsOwn ==
    \A u \in UoW, o \in Op, p \in Part : <<o, p>> \in pending[u] =>
        home[o] = u /\ p \in written[o] /\ phase[o] # "idle"

\* Two operations are in one unit of work only as a handler and the mutation it
\* is waiting for.
OneWriter ==
    \A o, q \in Op : Running(o) /\ Running(q) /\ home[o] = home[q] /\ o # q =>
        \/ kind[o] = "invoke" /\ kind[q] = "mutation" /\ caller[q] = o
        \/ kind[q] = "invoke" /\ kind[o] = "mutation" /\ caller[o] = q

\* The flag of a usable unit of work is up exactly while its owner runs.
ExplicitHasOwner ==
    \A u \in UoW : ~poisoned[u] =>
        (explicit[u] <=> \E o \in Op : Running(o) /\ home[o] = u /\ Owner(o))

\* A usable session still holds all its running owner wrote.
OwnersComplete ==
    \A o \in Op : Running(o) /\ Owner(o) /\ ~poisoned[home[o]] =>
        \A p \in written[o] : <<o, p>> \in pending[home[o]]

\* The flag a bare mutation joins outlived its owner, on a poisoned unit of work.
JoinedIsPoisoned ==
    \A o \in Op : Running(o) /\ kind[o] = "joined" => poisoned[home[o]]

IdleIsClean == \A o \in Op : phase[o] = "idle" => written[o] = {} /\ Stored(o) = {}

OwnerInv ==
    /\ TypeOK /\ HomeOK /\ PendingIsOwn /\ OwnersAtomic /\ NoLeftovers
    /\ OneWriter /\ ExplicitHasOwner /\ OwnersComplete /\ JoinedIsPoisoned /\ IdleIsClean

-------------------------------------------------------------------------------
(* The inductive invariant behind OperationsAtomic.                        *)

\* A usable session still holds all its running operations wrote.
PendingIsComplete ==
    \A o \in Op : Running(o) /\ ~poisoned[home[o]] =>
        \A p \in written[o] : <<o, p>> \in pending[home[o]]

\* A handler of a usable unit of work wrote nothing itself.
HandlerIsClean ==
    \A o \in Op : Running(o) /\ kind[o] = "invoke" /\ ~poisoned[home[o]] => written[o] = {}

NeverJoined == \A o \in Op : kind[o] # "joined"
PoisonNeedsFailure == \A u \in UoW : poisoned[u] => RollbackFails

IInv ==
    /\ OwnerInv /\ OperationsAtomic /\ PendingIsComplete
    /\ HandlerIsClean /\ NeverJoined /\ PoisonNeedsFailure
===============================================================================
