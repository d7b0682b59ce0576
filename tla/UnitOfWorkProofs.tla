--------------------------- MODULE UnitOfWorkProofs ---------------------------
(***************************************************************************)
(* Theorems about UnitOfWork, for every number of operations, parts, units *)
(* of work and threads.                                                    *)
(***************************************************************************)
EXTENDS UnitOfWork, TLAPS

(* The discipline under which the shared session is a private buffer.      *)
Discipline == ~HandlerWrites /\ ~Shared /\ (BareMutations => ~RollbackFails)

\* The steps of Next, with their parameters named once.
LEMMA NextCases ==
    ASSUME Next, NEW G,
           \A o \in Op, u \in UoW, t \in Thread, c \in Op \cup {None} :
               StartRun(o, u, t, c) => G,
           \A o \in Op, u \in UoW, t \in Thread, c \in Op \cup {None} :
               StartInvoke(o, u, t, c) => G,
           \A o \in Op, u \in UoW, t \in Thread, c \in Op \cup {None} :
               StartMutation(o, u, t, c) => G,
           \A o \in Op, u \in UoW, t \in Thread : StartJoined(o, u, t) => G,
           \A o \in Op, p \in Part : WriteThrough(o, p) => G,
           \A o \in Op : FinishRead(o) => G,
           \A o \in Op : Commit(o) => G,
           \A o \in Op : CommitRaises(o) => G,
           \A o \in Op : Raise(o) => G,
           \A o \in Op : EndJoined(o) => G,
           Crash => G
    PROVE  G
BY DEF Next

-------------------------------------------------------------------------------
(* Types.                                                                  *)

\* Initially every variable has its type.
LEMMA InitTypes == Init => TypeOK /\ HomeOK
BY DEF Init, TypeOK, HomeOK, Phase, Kind, Write

\* Entering an operation keeps the types of the operation variables.
LEMMA EnterTypes ==
    ASSUME TypeOK, HomeOK, NEW o \in Op, NEW k \in Kind, NEW u \in UoW, NEW t \in Thread,
           NEW c \in Op \cup {None}, NEW outcome \in Phase, Enter(o, k, u, t, c, outcome)
    PROVE  /\ phase' \in [Op -> Phase]
           /\ written' \in [Op -> SUBSET Part]
           /\ durable' \in SUBSET Write
           /\ kind' \in [Op -> Kind]
           /\ home' \in [Op -> UoW \cup {None}]
           /\ caller' \in [Op -> Op \cup {None}]
           /\ thread' \in [Op -> Thread \cup {None}]
           /\ HomeOK'
BY DEF TypeOK, HomeOK, Enter

\* So does beginning, for the unit of work too.
LEMMA BeginTypes ==
    ASSUME TypeOK, HomeOK, NEW o \in Op, NEW k \in Kind, NEW u \in UoW, NEW t \in Thread,
           NEW c \in Op \cup {None}, BeginOrRefuse(o, k, u, t, c)
    PROVE  TypeOK' /\ HomeOK'
<1>1. CASE Enter(o, k, u, t, c, "running") /\ explicit' = [explicit EXCEPT ![u] = TRUE]
           /\ UNCHANGED <<poisoned, pending>>
    <2>1. explicit' \in [UoW -> BOOLEAN]
        BY <1>1 DEF TypeOK
    <2>2. "running" \in Phase
        BY DEF Phase
    <2>3. QED
        BY <1>1, <2>1, <2>2, EnterTypes DEF TypeOK
<1>2. CASE Enter(o, k, u, t, c, "failed") /\ UNCHANGED uowVars
    <2>1. "failed" \in Phase
        BY DEF Phase
    <2>2. QED
        BY <1>2, <2>1, EnterTypes DEF TypeOK, uowVars
<1>3. QED
    BY <1>1, <1>2 DEF BeginOrRefuse

\* The error path keeps the types of the unit of work.
LEMMA RollbackTypes ==
    ASSUME TypeOK, NEW u \in UoW, RollbackPreserving(u)
    PROVE  /\ explicit' \in [UoW -> BOOLEAN]
           /\ poisoned' \in [UoW -> BOOLEAN]
           /\ pending' \in [UoW -> SUBSET Write]
<1>1. CASE /\ explicit' = [explicit EXCEPT ![u] = FALSE]
           /\ pending' = [pending EXCEPT ![u] = {}]
           /\ UNCHANGED poisoned
    BY <1>1 DEF TypeOK
<1>2. CASE /\ poisoned' = [poisoned EXCEPT ![u] = TRUE]
           /\ \E kept \in {pending[u], {}} : pending' = [pending EXCEPT ![u] = kept]
           /\ UNCHANGED explicit
    <2>1. pending' \in [UoW -> SUBSET Write]
        BY <1>2 DEF TypeOK
    <2>2. poisoned' \in [UoW -> BOOLEAN]
        BY <1>2 DEF TypeOK
    <2>3. QED
        BY <1>2, <2>1, <2>2 DEF TypeOK
<1>3. QED
    BY <1>1, <1>2 DEF RollbackPreserving

\* Every step of the model keeps the types.
LEMMA NextTypes == TypeOK /\ HomeOK /\ [Next]_vars => TypeOK' /\ HomeOK'
<1> SUFFICES ASSUME TypeOK, HomeOK, [Next]_vars PROVE TypeOK' /\ HomeOK'
    OBVIOUS
<1>1. CASE UNCHANGED vars
    BY <1>1 DEF vars, TypeOK, HomeOK
<1>2. CASE Next
    <2>1. ASSUME NEW o \in Op, NEW u \in UoW, NEW t \in Thread,
                 NEW c \in Op \cup {None}, StartRun(o, u, t, c)
          PROVE  TypeOK' /\ HomeOK'
        <3>1. "run" \in Kind
            BY DEF Kind
        <3>2. QED
            BY <2>1, <3>1, BeginTypes DEF StartRun
    <2>2. ASSUME NEW o \in Op, NEW u \in UoW, NEW t \in Thread,
                 NEW c \in Op \cup {None}, StartInvoke(o, u, t, c)
          PROVE  TypeOK' /\ HomeOK'
        <3>1. "invoke" \in Kind /\ "running" \in Phase
            BY DEF Kind, Phase
        <3>2. QED
            BY <2>2, <3>1, EnterTypes DEF StartInvoke, uowVars, TypeOK
    <2>3. ASSUME NEW o \in Op, NEW u \in UoW, NEW t \in Thread,
                 NEW c \in Op \cup {None}, StartMutation(o, u, t, c)
          PROVE  TypeOK' /\ HomeOK'
        <3>1. "mutation" \in Kind
            BY DEF Kind
        <3>2. QED
            BY <2>3, <3>1, BeginTypes DEF StartMutation
    <2>4. ASSUME NEW o \in Op, NEW u \in UoW, NEW t \in Thread, StartJoined(o, u, t)
          PROVE  TypeOK' /\ HomeOK'
        <3>1. "joined" \in Kind /\ "running" \in Phase /\ None \in Op \cup {None}
            BY DEF Kind, Phase
        <3>2. QED
            BY <2>4, <3>1, EnterTypes DEF StartJoined, uowVars, TypeOK
    <2>5. ASSUME NEW o \in Op, NEW p \in Part, WriteThrough(o, p)
          PROVE  TypeOK' /\ HomeOK'
        <3>1. home[o] \in UoW
            BY <2>5 DEF WriteThrough, Innermost, Running, HomeOK
        <3>2. pending' \in [UoW -> SUBSET Write]
            BY <2>5, <3>1 DEF WriteThrough, TypeOK, Write
        <3>3. QED
            BY <2>5, <3>2 DEF WriteThrough, TypeOK, HomeOK
    <2>6. ASSUME NEW o \in Op, FinishRead(o)
          PROVE  TypeOK' /\ HomeOK'
        BY <2>6 DEF FinishRead, opVars, TypeOK, HomeOK
    <2>7. ASSUME NEW o \in Op, Commit(o)
          PROVE  TypeOK' /\ HomeOK'
        BY <2>7 DEF Commit, Finish, Innermost, Running, TypeOK, HomeOK, Phase
    <2>8. ASSUME NEW o \in Op, CommitRaises(o)
          PROVE  TypeOK' /\ HomeOK'
        <3>1. home[o] \in UoW
            BY <2>8 DEF CommitRaises, Innermost, Running, HomeOK
        <3>2. durable' \in SUBSET Write
            BY <2>8, <3>1 DEF CommitRaises, TypeOK
        <3>3. phase' \in [Op -> Phase] /\ HomeOK'
            BY <2>8, <3>1 DEF CommitRaises, Finish, TypeOK, HomeOK, Phase
        <3>4. QED
            BY <2>8, <3>1, <3>2, <3>3, RollbackTypes DEF CommitRaises, Finish, TypeOK
    <2>9. ASSUME NEW o \in Op, Raise(o)
          PROVE  TypeOK' /\ HomeOK'
        <3>1. home[o] \in UoW
            BY <2>9 DEF Raise, Innermost, Running, HomeOK
        <3>2. phase' \in [Op -> Phase] /\ HomeOK'
            BY <2>9, <3>1 DEF Raise, Finish, TypeOK, HomeOK, Phase
        <3>3. QED
            BY <2>9, <3>1, <3>2, RollbackTypes DEF Raise, Finish, TypeOK
    <2>10. ASSUME NEW o \in Op, EndJoined(o)
           PROVE  TypeOK' /\ HomeOK'
        BY <2>10 DEF EndJoined, Finish, Innermost, Running, TypeOK, HomeOK, Phase
    <2>11. ASSUME Crash
           PROVE  TypeOK' /\ HomeOK'
        BY <2>11 DEF Crash, Running, TypeOK, HomeOK, Phase
    <2>12. QED
        BY <1>2, <2>1, <2>2, <2>3, <2>4, <2>5, <2>6, <2>7, <2>8, <2>9, <2>10,
           <2>11, NextCases
<1>3. QED
    BY <1>1, <1>2

\* Every variable of the transaction model keeps its type.
THEOREM TypeCorrect == Spec => [](TypeOK /\ HomeOK)
<1>1. Init => TypeOK /\ HomeOK
    BY InitTypes
<1>2. TypeOK /\ HomeOK /\ [Next]_vars => (TypeOK /\ HomeOK)'
    BY NextTypes
<1>3. QED
    BY <1>1, <1>2, PTL DEF Spec

-------------------------------------------------------------------------------
(* Poison.                                                                 *)

\* The error path only ever drops pending writes.
LEMMA RollbackPending ==
    ASSUME TypeOK, NEW u \in UoW, RollbackPreserving(u), NEW v \in UoW
    PROVE  pending'[v] \subseteq pending[v] /\ (v # u => pending'[v] = pending[v])
BY DEF RollbackPreserving, TypeOK

\* Pending writes stay writes of operations of their own unit of work.
LEMMA NextPendingIsOwn ==
    ASSUME TypeOK, HomeOK, PendingIsOwn, [Next]_vars
    PROVE  PendingIsOwn'
<1> SUFFICES ASSUME NEW v \in UoW, NEW q \in Op, NEW r \in Part, <<q, r>> \in pending'[v]
             PROVE  home'[q] = v /\ r \in written'[q] /\ phase'[q] # "idle"
    BY DEF PendingIsOwn
<1> DEFINE Goal == home'[q] = v /\ r \in written'[q] /\ phase'[q] # "idle"
<1>1. <<q, r>> \in pending[v] => home[q] = v /\ r \in written[q] /\ phase[q] # "idle"
    BY DEF PendingIsOwn
<1>2. ASSUME NEW o \in Op, NEW k, NEW u, NEW t, NEW c, NEW outcome,
             Enter(o, k, u, t, c, outcome), pending' = pending
      PROVE  Goal
    BY <1>1, <1>2 DEF Enter, TypeOK
<1>3. ASSUME NEW o \in Op, NEW outcome \in {"ok", "failed"}, Finish(o, outcome),
             pending'[v] \subseteq pending[v]
      PROVE  Goal
    BY <1>1, <1>3 DEF Finish, TypeOK
<1>4. CASE UNCHANGED vars
    BY <1>1, <1>4 DEF vars
<1>5. CASE Next
    <2>1. \A o \in Op, u \in UoW, t \in Thread, c \in Op \cup {None} : StartRun(o, u, t, c) => Goal
        BY <1>2 DEF StartRun, BeginOrRefuse, uowVars
    <2>2. \A o \in Op, u \in UoW, t \in Thread, c \in Op \cup {None} : StartInvoke(o, u, t, c) => Goal
        BY <1>2 DEF StartInvoke, uowVars
    <2>3. \A o \in Op, u \in UoW, t \in Thread, c \in Op \cup {None} : StartMutation(o, u, t, c) => Goal
        BY <1>2 DEF StartMutation, BeginOrRefuse, uowVars
    <2>4. \A o \in Op, u \in UoW, t \in Thread : StartJoined(o, u, t) => Goal
        BY <1>2 DEF StartJoined, uowVars
    <2>5. ASSUME NEW o \in Op, NEW p \in Part, WriteThrough(o, p)
          PROVE  Goal
        <3>1. home[o] \in UoW /\ phase[o] # "idle"
            BY <2>5 DEF WriteThrough, Innermost, Running, HomeOK
        <3>2. CASE <<q, r>> \in pending[v]
            BY <1>1, <2>5, <3>2 DEF WriteThrough, TypeOK
        <3>3. CASE <<q, r>> \notin pending[v]
            <4>1. q = o /\ r = p /\ v = home[o]
                BY <2>5, <3>1, <3>3 DEF WriteThrough, TypeOK
            <4>2. QED
                BY <2>5, <3>1, <4>1 DEF WriteThrough, TypeOK
        <3>4. QED
            BY <3>2, <3>3
    <2>6. \A o \in Op : FinishRead(o) => Goal
        BY <1>1 DEF FinishRead, opVars, TypeOK
    <2>7. \A o \in Op : Commit(o) => Goal
        BY <1>3 DEF Commit, TypeOK
    <2>8. ASSUME NEW o \in Op, CommitRaises(o)
          PROVE  Goal
        <3>1. home[o] \in UoW
            BY <2>8 DEF CommitRaises, Innermost, Running, HomeOK
        <3>2. QED
            BY <1>3, <2>8, <3>1, RollbackPending DEF CommitRaises
    <2>9. ASSUME NEW o \in Op, Raise(o)
          PROVE  Goal
        <3>1. home[o] \in UoW
            BY <2>9 DEF Raise, Innermost, Running, HomeOK
        <3>2. QED
            BY <1>3, <2>9, <3>1, RollbackPending DEF Raise
    <2>10. \A o \in Op : EndJoined(o) => Goal
        BY <1>3 DEF EndJoined
    <2>11. Crash => Goal
        BY DEF Crash
    <2>12. QED
        BY <1>5, <2>1, <2>2, <2>3, <2>4, <2>5, <2>6, <2>7, <2>8, <2>9, <2>10,
           <2>11, NextCases
<1>6. QED
    BY <1>4, <1>5

\* A poisoned unit of work commits nothing.
LEMMA StepPoison ==
    ASSUME TypeOK, HomeOK, PendingIsOwn, [Next]_vars,
           NEW q \in Op, home[q] \in UoW, poisoned[home[q]]
    PROVE  Stored(q)' = Stored(q)
<1> DEFINE Goal == Stored(q)' = Stored(q)
<1>1. durable' = durable => Goal
    BY DEF Stored
<1>2. ASSUME NEW u \in UoW, ~poisoned[u], durable' = durable \cup pending[u]
      PROVE  Goal
    <2>1. \A r \in Part : <<q, r>> \notin pending[u]
        BY <1>2 DEF PendingIsOwn
    <2>2. QED
        BY <1>2, <2>1 DEF Stored
<1>3. CASE UNCHANGED vars
    BY <1>1, <1>3 DEF vars
<1>4. CASE Next
    <2>1. \A o \in Op, u \in UoW, t \in Thread, c \in Op \cup {None} : StartRun(o, u, t, c) => Goal
        BY <1>1 DEF StartRun, BeginOrRefuse, Enter
    <2>2. \A o \in Op, u \in UoW, t \in Thread, c \in Op \cup {None} : StartInvoke(o, u, t, c) => Goal
        BY <1>1 DEF StartInvoke, Enter
    <2>3. \A o \in Op, u \in UoW, t \in Thread, c \in Op \cup {None} : StartMutation(o, u, t, c) => Goal
        BY <1>1 DEF StartMutation, BeginOrRefuse, Enter
    <2>4. \A o \in Op, u \in UoW, t \in Thread : StartJoined(o, u, t) => Goal
        BY <1>1 DEF StartJoined, Enter
    <2>5. \A o \in Op, p \in Part : WriteThrough(o, p) => Goal
        BY <1>1 DEF WriteThrough
    <2>6. \A o \in Op : FinishRead(o) => Goal
        BY <1>1 DEF FinishRead
    <2>7. \A o \in Op : Commit(o) => Goal
        BY <1>2 DEF Commit, Innermost, Running, HomeOK
    <2>8. \A o \in Op : CommitRaises(o) => Goal
        BY <1>1, <1>2 DEF CommitRaises, Innermost, Running, HomeOK
    <2>9. \A o \in Op : Raise(o) => Goal
        BY <1>1 DEF Raise
    <2>10. \A o \in Op : EndJoined(o) => Goal
        BY <1>1 DEF EndJoined
    <2>11. Crash => Goal
        BY <1>1 DEF Crash
    <2>12. QED
        BY <1>4, <2>1, <2>2, <2>3, <2>4, <2>5, <2>6, <2>7, <2>8, <2>9, <2>10,
           <2>11, NextCases
<1>5. QED
    BY <1>3, <1>4

\* After a rollback failure no write of that unit of work becomes durable,
\* whatever the entry points, the nesting and the threads.
THEOREM PoisonFinality == Spec => PoisonIsFinal
<1> DEFINE Inv == TypeOK /\ HomeOK /\ PendingIsOwn
<1>1. Init => Inv
    BY InitTypes DEF Init, PendingIsOwn
<1>2. Inv /\ [Next]_vars => Inv'
    BY NextTypes, NextPendingIsOwn
<1>3. Inv /\ [Next]_vars =>
          [\A o \in Op : home[o] \in UoW /\ poisoned[home[o]] => Stored(o)' = Stored(o)]_vars
    BY StepPoison
<1>4. QED
    BY <1>1, <1>2, <1>3, PTL DEF Spec, PoisonIsFinal

-------------------------------------------------------------------------------
(* Atomicity of the owners, on units of work that no two threads share.    *)

\* The parts of OwnerInv that say nothing of types or of PendingIsOwn.
OwnerRest ==
    /\ OwnersAtomic /\ NoLeftovers /\ OneWriter /\ ExplicitHasOwner
    /\ OwnersComplete /\ JoinedIsPoisoned /\ IdleIsClean

\* Beside an innermost operation, only the handler it was called from can run
\* on the same unit of work.
LEMMA InnermostIsLast ==
    ASSUME OwnerInv, NEW o \in Op, Innermost(o), NEW q \in Op, Running(q), q # o,
           home[q] = home[o]
    PROVE  kind[q] = "invoke" /\ kind[o] = "mutation"
BY DEF OwnerInv, OneWriter, Innermost

\* An innermost operation runs, on a unit of work.
LEMMA InnermostRuns ==
    ASSUME OwnerInv, NEW o \in Op, Innermost(o)
    PROVE  Running(o) /\ phase[o] = "running" /\ home[o] \in UoW
BY DEF OwnerInv, HomeOK, Innermost, Running

\* A usable session holds writes of the innermost operation and of the handler
\* that called it.
LEMMA SessionHolds ==
    ASSUME OwnerInv, NEW o \in Op, Innermost(o), ~poisoned[home[o]],
           NEW q \in Op, NEW p \in Part, <<q, p>> \in pending[home[o]]
    PROVE  Running(q) /\ p \in written[q] /\ (q # o => kind[q] = "invoke")
<1>1. home[o] \in UoW
    BY InnermostRuns
<1>2. Running(q) /\ home[q] = home[o] /\ p \in written[q]
    BY <1>1 DEF OwnerInv, NoLeftovers, PendingIsOwn
<1>3. QED
    BY <1>2, InnermostIsLast

\* An operation that is not running leaves what is stored alone.
LEMMA EnterOwners ==
    ASSUME OwnerInv, NEW o \in Op, NEW k, NEW u, NEW t, NEW c,
           NEW outcome \in {"running", "failed"}, Enter(o, k, u, t, c, outcome)
    PROVE  OwnersAtomic' /\ IdleIsClean'
<1> SUFFICES ASSUME NEW q \in Op
             PROVE  /\ Owner(q)' => AllOrNothing(q)'
                    /\ phase'[q] = "idle" => written'[q] = {} /\ Stored(q)' = {}
    BY DEF OwnersAtomic, IdleIsClean
<1>1. Stored(q)' = Stored(q) /\ written' = written
    BY DEF Stored, Enter
<1>2. phase'[q] = IF q = o THEN outcome ELSE phase[q]
    BY DEF Enter, OwnerInv, TypeOK
<1>3. q # o => kind'[q] = kind[q]
    BY DEF Enter, OwnerInv, TypeOK
<1>4. /\ Owner(q) => AllOrNothing(q)
      /\ phase[q] = "idle" => written[q] = {} /\ Stored(q) = {}
    BY DEF OwnerInv, OwnersAtomic, IdleIsClean
<1>5. phase[o] = "idle"
    BY DEF Enter
<1>6. CASE q = o
    BY <1>1, <1>2, <1>4, <1>5, <1>6 DEF AllOrNothing
<1>7. CASE q # o
    BY <1>1, <1>2, <1>3, <1>4, <1>7 DEF AllOrNothing, Owner
<1>8. QED
    BY <1>6, <1>7

\* A new running operation on unit of work u, alone there or called from the
\* handler that waits for it.
LEMMA EnterRunning ==
    ASSUME OwnerInv, NEW o \in Op, NEW k \in Kind, NEW u \in UoW, NEW t, NEW c \in Op \cup {None},
           Enter(o, k, u, t, c, "running"),
           \A q \in Op : Running(q) /\ home[q] = u =>
               kind[q] = "invoke" /\ k = "mutation" /\ c = q,
           \/ k \in {"invoke", "joined"} /\ explicit' = explicit
           \/ k \in {"run", "mutation"} /\ explicit' = [explicit EXCEPT ![u] = TRUE],
           k = "joined" => poisoned[u],
           poisoned' = poisoned, pending' = pending
    PROVE  OwnerRest'
<1>1. OwnersAtomic' /\ IdleIsClean'
    BY EnterOwners
<1>2. \A q \in Op : q # o => phase'[q] = phase[q] /\ kind'[q] = kind[q]
                              /\ home'[q] = home[q] /\ caller'[q] = caller[q]
    BY DEF Enter, OwnerInv, TypeOK
<1>3. phase'[o] = "running" /\ kind'[o] = k /\ home'[o] = u /\ caller'[o] = c
    BY DEF Enter, OwnerInv, TypeOK
<1>4. phase[o] = "idle" /\ written' = written /\ written[o] = {}
    BY DEF Enter, OwnerInv, IdleIsClean
<1>5. NoLeftovers'
    BY <1>2, <1>3 DEF OwnerInv, NoLeftovers, Running
<1>6. OwnersComplete'
    BY <1>2, <1>3, <1>4 DEF OwnerInv, OwnersComplete, Running, Owner
<1>7. OneWriter'
    BY <1>2, <1>3, <1>4 DEF OwnerInv, OneWriter, Running
<1>8. ExplicitHasOwner'
    <2> SUFFICES ASSUME NEW v \in UoW, ~poisoned[v]
                 PROVE  explicit'[v] <=>
                            \E q \in Op : phase'[q] = "running" /\ home'[q] = v /\ kind'[q] \in {"run", "mutation"}
        BY DEF ExplicitHasOwner, Running, Owner
    <2>1. explicit[v] <=> \E q \in Op : Running(q) /\ home[q] = v /\ kind[q] \in {"run", "mutation"}
        BY DEF OwnerInv, ExplicitHasOwner, Owner
    <2>2. \A q \in Op : q # o =>
              (Running(q) /\ home[q] = v /\ kind[q] \in {"run", "mutation"} <=>
                   phase'[q] = "running" /\ home'[q] = v /\ kind'[q] \in {"run", "mutation"})
        BY <1>2 DEF Running
    <2>3. ~Running(o)
        BY <1>4 DEF Running
    <2>4. CASE v = u /\ k \in {"run", "mutation"}
        BY <1>3, <2>4 DEF OwnerInv, TypeOK
    <2>5. CASE ~(v = u /\ k \in {"run", "mutation"})
        <3>1. explicit'[v] = explicit[v]
            BY <2>5 DEF OwnerInv, TypeOK
        <3>2. ~(home'[o] = v /\ kind'[o] \in {"run", "mutation"})
            BY <1>3, <2>5
        <3>3. QED
            BY <2>1, <2>2, <2>3, <3>1, <3>2
    <2>6. QED
        BY <2>4, <2>5
<1>9. JoinedIsPoisoned'
    BY <1>2, <1>3 DEF OwnerInv, JoinedIsPoisoned, Running
<1>10. QED
    BY <1>1, <1>5, <1>6, <1>7, <1>8, <1>9 DEF OwnerRest

\* An operation refused by a poisoned unit of work.
LEMMA EnterRefused ==
    ASSUME OwnerInv, NEW o \in Op, NEW k, NEW u, NEW t, NEW c,
           Enter(o, k, u, t, c, "failed"), UNCHANGED uowVars
    PROVE  OwnerRest'
<1>1. OwnersAtomic' /\ IdleIsClean'
    BY EnterOwners
<1>2. \A q \in Op : q # o => phase'[q] = phase[q] /\ kind'[q] = kind[q]
                              /\ home'[q] = home[q] /\ caller'[q] = caller[q]
    BY DEF Enter, OwnerInv, TypeOK
<1>3. phase'[o] = "failed"
    BY DEF Enter, OwnerInv, TypeOK
<1>4. phase[o] = "idle" /\ written' = written
    BY DEF Enter
<1>5. NoLeftovers' /\ OwnersComplete' /\ JoinedIsPoisoned'
    BY <1>2, <1>3, <1>4 DEF OwnerInv, NoLeftovers, OwnersComplete, JoinedIsPoisoned, Running,
       Owner, uowVars
<1>6. OneWriter'
    BY <1>2, <1>3, <1>4 DEF OwnerInv, OneWriter, Running
<1>7. ExplicitHasOwner'
    BY <1>2, <1>3, <1>4 DEF OwnerInv, ExplicitHasOwner, Running, Owner, uowVars
<1>8. QED
    BY <1>1, <1>5, <1>6, <1>7 DEF OwnerRest

\* A write goes to the session and to nothing else.
LEMMA OwnerWriteStep ==
    ASSUME OwnerInv, NEW o \in Op, NEW p \in Part, WriteThrough(o, p)
    PROVE  OwnerRest'
<1> DEFINE u == home[o]
<1>1. Running(o) /\ phase[o] = "running" /\ u \in UoW /\ Innermost(o)
    BY InnermostRuns DEF WriteThrough
<1>2. UNCHANGED <<phase, durable, kind, home, caller, thread, explicit, poisoned>>
    BY DEF WriteThrough
<1>3. \A q \in Op : written'[q] = IF q = o THEN written[q] \cup {p} ELSE written[q]
    BY DEF WriteThrough, OwnerInv, TypeOK
<1>4. \A v \in UoW : pending'[v] = IF v = u THEN pending[v] \cup {<<o, p>>} ELSE pending[v]
    BY <1>1 DEF WriteThrough, OwnerInv, TypeOK
<1>5. OwnersAtomic' /\ IdleIsClean'
    <2> SUFFICES ASSUME NEW q \in Op
                 PROVE  /\ Owner(q) => AllOrNothing(q)'
                        /\ phase[q] = "idle" => written'[q] = {} /\ Stored(q)' = {}
        BY <1>2 DEF OwnersAtomic, IdleIsClean, Owner
    <2>1. Stored(q)' = Stored(q)
        BY <1>2 DEF Stored
    <2>2. /\ Owner(q) => AllOrNothing(q)
          /\ phase[q] = "idle" => written[q] = {} /\ Stored(q) = {}
        BY DEF OwnerInv, OwnersAtomic, IdleIsClean
    <2>3. CASE q = o
        BY <1>1, <1>2, <2>1, <2>2, <2>3 DEF AllOrNothing
    <2>4. CASE q # o
        BY <1>2, <1>3, <2>1, <2>2, <2>4 DEF AllOrNothing
    <2>5. QED
        BY <2>3, <2>4
<1>6. NoLeftovers'
    <2> SUFFICES ASSUME NEW v \in UoW, NEW q \in Op, NEW r \in Part, ~poisoned[v], <<q, r>> \in pending'[v]
                 PROVE  Running(q)
        BY <1>2 DEF NoLeftovers, Running
    <2>1. <<q, r>> \in pending[v] \/ <<q, r>> = <<o, p>>
        BY <1>4
    <2>2. <<q, r>> \in pending[v] \/ q = o
        BY <2>1
    <2>3. QED
        BY <1>1, <2>2 DEF OwnerInv, NoLeftovers
<1>7. OwnersComplete'
    <2> SUFFICES ASSUME NEW q \in Op, Running(q), Owner(q), ~poisoned[home[q]], NEW r \in written'[q]
                 PROVE  <<q, r>> \in pending'[home[q]]
        BY <1>2 DEF OwnersComplete, Running, Owner
    <2>1. home[q] \in UoW
        BY DEF OwnerInv, HomeOK, Running
    <2>2. \A x \in written[q] : <<q, x>> \in pending[home[q]]
        BY DEF OwnerInv, OwnersComplete
    <2>3. QED
        BY <1>3, <1>4, <2>1, <2>2
<1>8. OneWriter' /\ JoinedIsPoisoned'
    BY <1>2 DEF OwnerInv, OneWriter, JoinedIsPoisoned, Running
<1>9. ExplicitHasOwner'
    BY <1>2 DEF OwnerInv, ExplicitHasOwner, Running, Owner
<1>10. QED
    BY <1>5, <1>6, <1>7, <1>8, <1>9 DEF OwnerRest

\* Ending a read drops nothing of an owner: the flag is down only when none runs.
LEMMA OwnerReadStep ==
    ASSUME OwnerInv, NEW o \in Op, FinishRead(o)
    PROVE  OwnerRest'
<1> DEFINE u == home[o]
<1>1. u \in UoW /\ ~poisoned[u] /\ ~explicit[u]
    BY InnermostRuns DEF FinishRead
<1>2. UNCHANGED <<phase, written, kind, home, caller, thread, durable, explicit, poisoned>>
    BY DEF FinishRead, opVars
<1>3. \A v \in UoW : pending'[v] = IF v = u THEN {} ELSE pending[v]
    BY <1>1 DEF FinishRead, OwnerInv, TypeOK
<1>4. OwnersAtomic' /\ IdleIsClean'
    BY <1>2 DEF OwnerInv, OwnersAtomic, AllOrNothing, Stored, IdleIsClean, Owner
<1>5. NoLeftovers'
    BY <1>2, <1>3 DEF OwnerInv, NoLeftovers, Running
<1>6. OneWriter' /\ JoinedIsPoisoned'
    BY <1>2 DEF OwnerInv, OneWriter, JoinedIsPoisoned, Running
<1>7. ExplicitHasOwner'
    BY <1>2 DEF OwnerInv, ExplicitHasOwner, Running, Owner
<1>8. OwnersComplete'
    <2>1. \A q \in Op : Running(q) /\ Owner(q) => home[q] \in UoW /\ home[q] # u
        BY <1>1 DEF OwnerInv, ExplicitHasOwner, HomeOK, Running
    <2>2. QED
        BY <1>2, <1>3, <2>1 DEF OwnerInv, OwnersComplete, Running, Owner
<1>9. QED
    BY <1>4, <1>5, <1>6, <1>7, <1>8 DEF OwnerRest

\* An ending owner stores all it wrote or nothing, and an ending operation
\* touches nothing that an owner or an idle operation stored.
LEMMA EndOwners ==
    ASSUME OwnerInv, NEW o \in Op, Innermost(o), NEW outcome \in {"ok", "failed"},
           Finish(o, outcome),
           \/ durable' = durable /\ (outcome = "failed" \/ kind[o] = "joined")
           \/ durable' = durable \cup pending[home[o]] /\ ~poisoned[home[o]]
    PROVE  OwnersAtomic' /\ IdleIsClean'
<1> SUFFICES ASSUME NEW q \in Op
             PROVE  /\ Owner(q) => AllOrNothing(q)'
                    /\ phase'[q] = "idle" => written'[q] = {} /\ Stored(q)' = {}
    BY DEF OwnersAtomic, IdleIsClean, Owner, Finish
<1>1. phase'[q] = IF q = o THEN outcome ELSE phase[q]
    BY DEF Finish, OwnerInv, TypeOK
<1>2. written' = written
    BY DEF Finish
<1>3. /\ Owner(q) => AllOrNothing(q)
      /\ phase[q] = "idle" => written[q] = {} /\ Stored(q) = {}
    BY DEF OwnerInv, OwnersAtomic, IdleIsClean
<1>4. CASE q # o /\ (Owner(q) \/ phase[q] = "idle")
    <2>1. ~poisoned[home[o]] => \A p \in Part : <<q, p>> \notin pending[home[o]]
        BY <1>4, SessionHolds DEF Owner, Running
    <2>2. Stored(q)' = Stored(q)
        BY <2>1 DEF Stored
    <2>3. QED
        BY <1>1, <1>2, <1>3, <1>4, <2>2 DEF AllOrNothing
<1>5. CASE q = o /\ Owner(o)
    <2>1. Stored(o) = {}
        BY <1>3, <1>5, InnermostRuns DEF AllOrNothing
    <2>2. CASE durable' = durable /\ outcome = "failed"
        <3>1. Stored(o)' = {}
            BY <2>1, <2>2 DEF Stored
        <3>2. QED
            BY <1>1, <1>2, <1>5, <2>2, <3>1 DEF AllOrNothing
    <2>3. CASE durable' = durable \cup pending[home[o]] /\ ~poisoned[home[o]]
        <3>1. \A p \in Part : <<o, p>> \in pending[home[o]] => p \in written[o]
            BY <2>3, SessionHolds
        <3>2. \A p \in written[o] : <<o, p>> \in pending[home[o]]
            BY <1>5, <2>3, InnermostRuns DEF OwnerInv, OwnersComplete
        <3>3. Stored(o)' = written[o]
            BY <2>1, <2>3, <3>1, <3>2 DEF Stored, OwnerInv, TypeOK
        <3>4. QED
            BY <1>1, <1>2, <1>5, <3>3 DEF AllOrNothing
    <2>4. QED
        BY <1>5, <2>2, <2>3 DEF Owner
<1>6. QED
    BY <1>1, <1>4, <1>5

\* The unit of work was released: committed or rolled back.
LEMMA EndReleased ==
    ASSUME OwnerInv, NEW o \in Op, Innermost(o), NEW outcome, Finish(o, outcome),
           outcome \in {"ok", "failed"}, OwnersAtomic', IdleIsClean',
           ~poisoned[home[o]], poisoned' = poisoned,
           explicit' = [explicit EXCEPT ![home[o]] = FALSE],
           pending' = [pending EXCEPT ![home[o]] = {}]
    PROVE  OwnerRest'
<1> DEFINE u == home[o]
<1>1. u \in UoW
    BY InnermostRuns
<1>2. UNCHANGED <<written, kind, home, caller>>
    BY DEF Finish
<1>3. \A q \in Op : Running(q)' <=> Running(q) /\ q # o
    BY DEF Finish, OwnerInv, TypeOK, Running
<1>4. \A v \in UoW : pending'[v] = IF v = u THEN {} ELSE pending[v]
    BY <1>1 DEF OwnerInv, TypeOK
<1>5. \A q \in Op : Running(q) /\ q # o /\ home[q] = u => ~Owner(q)
    BY InnermostIsLast DEF Owner
<1>6. NoLeftovers'
    <2> SUFFICES ASSUME NEW v \in UoW, NEW q \in Op, NEW p \in Part, ~poisoned[v], <<q, p>> \in pending'[v]
                 PROVE  Running(q)'
        BY DEF NoLeftovers
    <2>1. v # u /\ <<q, p>> \in pending[v]
        BY <1>4
    <2>2. Running(q) /\ home[q] = v
        BY <2>1 DEF OwnerInv, NoLeftovers, PendingIsOwn
    <2>3. QED
        BY <1>3, <2>1, <2>2
<1>7. OwnersComplete'
    <2> SUFFICES ASSUME NEW q \in Op, Running(q), q # o, Owner(q), ~poisoned[home[q]],
                        NEW r \in written[q]
                 PROVE  <<q, r>> \in pending'[home[q]]
        BY <1>2, <1>3 DEF OwnersComplete, Owner
    <2>1. home[q] \in UoW /\ home[q] # u
        BY <1>5 DEF OwnerInv, HomeOK, Running
    <2>2. QED
        BY <1>4, <2>1 DEF OwnerInv, OwnersComplete
<1>8. OneWriter' /\ JoinedIsPoisoned'
    BY <1>2, <1>3 DEF OwnerInv, OneWriter, JoinedIsPoisoned
<1>9. ExplicitHasOwner'
    <2> SUFFICES ASSUME NEW v \in UoW, ~poisoned[v]
                 PROVE  explicit'[v] <=> \E q \in Op : Running(q) /\ q # o /\ home[q] = v /\ Owner(q)
        BY <1>2, <1>3 DEF ExplicitHasOwner, Owner
    <2>1. explicit[v] <=> \E q \in Op : Running(q) /\ home[q] = v /\ Owner(q)
        BY DEF OwnerInv, ExplicitHasOwner
    <2>2. CASE v = u
        <3>1. ~explicit'[v]
            BY <1>1, <2>2 DEF OwnerInv, TypeOK
        <3>2. QED
            BY <1>5, <2>2, <3>1
    <2>3. CASE v # u
        <3>1. explicit'[v] = explicit[v]
            BY <2>3 DEF OwnerInv, TypeOK
        <3>2. QED
            BY <2>1, <2>3, <3>1
    <2>4. QED
        BY <2>2, <2>3
<1>10. QED
    BY <1>6, <1>7, <1>8, <1>9 DEF OwnerRest

\* The unit of work is poisoned when its operation ended.
LEMMA EndPoisoned ==
    ASSUME OwnerInv, NEW o \in Op, Innermost(o), NEW outcome \in {"ok", "failed"},
           Finish(o, outcome), OwnersAtomic', IdleIsClean',
           poisoned' = [poisoned EXCEPT ![home[o]] = TRUE], explicit' = explicit,
           NEW kept \in {pending[home[o]], {}}, pending' = [pending EXCEPT ![home[o]] = kept]
    PROVE  OwnerRest'
<1> DEFINE u == home[o]
<1>1. u \in UoW
    BY InnermostRuns
<1>2. UNCHANGED <<written, kind, home, caller>>
    BY DEF Finish
<1>3. \A q \in Op : Running(q)' <=> Running(q) /\ q # o
    BY DEF Finish, OwnerInv, TypeOK, Running
<1>4. \A v \in UoW : v # u => pending'[v] = pending[v] /\ poisoned'[v] = poisoned[v]
    BY <1>1 DEF OwnerInv, TypeOK
<1>5. poisoned'[u]
    BY <1>1 DEF OwnerInv, TypeOK
<1>6. NoLeftovers'
    <2> SUFFICES ASSUME NEW v \in UoW, NEW q \in Op, NEW p \in Part, ~poisoned'[v], <<q, p>> \in pending'[v]
                 PROVE  Running(q)'
        BY DEF NoLeftovers
    <2>1. v # u /\ <<q, p>> \in pending[v] /\ ~poisoned[v]
        BY <1>4, <1>5
    <2>2. Running(q) /\ home[q] = v
        BY <2>1 DEF OwnerInv, NoLeftovers, PendingIsOwn
    <2>3. QED
        BY <1>3, <2>1, <2>2
<1>7. OwnersComplete'
    <2> SUFFICES ASSUME NEW q \in Op, Running(q), Owner(q), ~poisoned'[home[q]], NEW r \in written[q]
                 PROVE  <<q, r>> \in pending'[home[q]]
        BY <1>2, <1>3 DEF OwnersComplete, Owner
    <2>1. home[q] \in UoW /\ home[q] # u
        BY <1>5 DEF OwnerInv, HomeOK, Running
    <2>2. QED
        BY <1>4, <2>1 DEF OwnerInv, OwnersComplete
<1>8. OneWriter'
    BY <1>2, <1>3 DEF OwnerInv, OneWriter
<1>9. JoinedIsPoisoned'
    <2>1. \A q \in Op : Running(q) => home[q] \in UoW
        BY DEF OwnerInv, HomeOK, Running
    <2>2. QED
        BY <1>2, <1>3, <1>4, <1>5, <2>1 DEF OwnerInv, JoinedIsPoisoned
<1>10. ExplicitHasOwner'
    <2> SUFFICES ASSUME NEW v \in UoW, ~poisoned'[v]
                 PROVE  explicit[v] <=> \E q \in Op : Running(q) /\ q # o /\ home[q] = v /\ Owner(q)
        BY <1>2, <1>3 DEF ExplicitHasOwner, Owner
    <2>1. v # u /\ ~poisoned[v]
        BY <1>4, <1>5
    <2>2. QED
        BY <2>1 DEF OwnerInv, ExplicitHasOwner
<1>11. QED
    BY <1>6, <1>7, <1>8, <1>9, <1>10 DEF OwnerRest

\* An operation that raised, or whose commit did.
LEMMA OwnerFailingStep ==
    ASSUME OwnerInv, NEW o \in Op, Innermost(o), Finish(o, "failed"), RollbackPreserving(home[o]),
           \/ durable' = durable
           \/ durable' = durable \cup pending[home[o]] /\ ~poisoned[home[o]]
    PROVE  OwnerRest'
<1>1. OwnersAtomic' /\ IdleIsClean'
    BY EndOwners
<1>2. CASE /\ ~poisoned[home[o]]
           /\ explicit' = [explicit EXCEPT ![home[o]] = FALSE]
           /\ pending' = [pending EXCEPT ![home[o]] = {}]
           /\ UNCHANGED poisoned
    BY <1>1, <1>2, EndReleased
<1>3. CASE /\ poisoned' = [poisoned EXCEPT ![home[o]] = TRUE]
           /\ \E kept \in {pending[home[o]], {}} : pending' = [pending EXCEPT ![home[o]] = kept]
           /\ UNCHANGED explicit
    BY <1>1, <1>3, EndPoisoned
<1>4. QED
    BY <1>2, <1>3 DEF RollbackPreserving

\* A joined mutation ends on a poisoned unit of work, and leaves it so.
LEMMA OwnerEndJoinedStep ==
    ASSUME OwnerInv, NEW o \in Op, EndJoined(o)
    PROVE  OwnerRest'
<1>1. PICK outcome \in {"ok", "failed"} : Finish(o, outcome)
    BY DEF EndJoined
<1>2. Innermost(o) /\ kind[o] = "joined"
    BY DEF EndJoined
<1>3. durable' = durable /\ explicit' = explicit /\ poisoned' = poisoned /\ pending' = pending
    BY DEF EndJoined
<1>4. OwnersAtomic' /\ IdleIsClean'
    BY <1>1, <1>2, <1>3, EndOwners
<1>5. home[o] \in UoW /\ poisoned[home[o]]
    BY <1>2, InnermostRuns DEF OwnerInv, JoinedIsPoisoned
<1>6. poisoned' = [poisoned EXCEPT ![home[o]] = TRUE]
    BY <1>3, <1>5 DEF OwnerInv, TypeOK
<1>7. pending' = [pending EXCEPT ![home[o]] = pending[home[o]]]
    BY <1>3, <1>5 DEF OwnerInv, TypeOK
<1>8. QED
    BY <1>1, <1>2, <1>3, <1>4, <1>6, <1>7, EndPoisoned

\* The process restarts with fresh units of work.
LEMMA OwnerCrashStep ==
    ASSUME OwnerInv, Crash
    PROVE  OwnerRest'
<1>1. \A q \in Op : ~Running(q)' /\ (phase'[q] = IF Running(q) THEN "failed" ELSE phase[q])
    BY DEF Crash, Running
<1>2. UNCHANGED <<written, durable, kind>>
    BY DEF Crash
<1>3. \A u \in UoW : ~explicit'[u] /\ ~poisoned'[u] /\ pending'[u] = {}
    BY DEF Crash
<1>4. OwnersAtomic' /\ IdleIsClean'
    <2> SUFFICES ASSUME NEW q \in Op
                 PROVE  /\ Owner(q) => AllOrNothing(q)'
                        /\ phase'[q] = "idle" => written'[q] = {} /\ Stored(q)' = {}
        BY <1>2 DEF OwnersAtomic, IdleIsClean, Owner
    <2>1. Stored(q)' = Stored(q)
        BY <1>2 DEF Stored
    <2>2. /\ Owner(q) => AllOrNothing(q)
          /\ phase[q] = "idle" => written[q] = {} /\ Stored(q) = {}
        BY DEF OwnerInv, OwnersAtomic, IdleIsClean
    <2>3. QED
        BY <1>1, <1>2, <2>1, <2>2 DEF AllOrNothing, Running
<1>5. NoLeftovers' /\ OwnersComplete' /\ OneWriter' /\ ExplicitHasOwner' /\ JoinedIsPoisoned'
    BY <1>1, <1>3 DEF NoLeftovers, OwnersComplete, OneWriter, ExplicitHasOwner, JoinedIsPoisoned
<1>6. QED
    BY <1>4, <1>5 DEF OwnerRest

\* On an unshared unit of work a request finds nobody.
LEMMA FreeIsEmpty ==
    ASSUME ~Shared, NEW u, NEW t, Free(u, t)
    PROVE  \A q \in Op : Running(q) => home[q] # u
BY DEF Free

\* A mutation finds nobody, or the handler that calls it.
LEMMA MutationNeighbours ==
    ASSUME ~Shared, OwnerInv, NEW o, NEW u, NEW t, NEW c \in Op \cup {None},
           StartMutation(o, u, t, c)
    PROVE  \A q \in Op : Running(q) /\ home[q] = u => kind[q] = "invoke" /\ c = q
<1>1. CASE Free(u, t)
    BY <1>1, FreeIsEmpty
<1>2. CASE c # None /\ kind[c] = "invoke" /\ home[c] = u
    <2>1. c \in Op /\ Innermost(c)
        BY <1>2 DEF StartMutation, CanCall
    <2>2. QED
        BY <1>2, <2>1, InnermostIsLast
<1>3. QED
    BY <1>1, <1>2 DEF StartMutation

\* A bare mutation that finds the flag up finds it on a poisoned unit of work.
LEMMA JoinedFindsPoison ==
    ASSUME ~Shared, OwnerInv, NEW o, NEW u \in UoW, NEW t, StartJoined(o, u, t)
    PROVE  poisoned[u]
BY FreeIsEmpty DEF StartJoined, OwnerInv, ExplicitHasOwner

\* The owners' invariant is inductive when no two threads share a unit of work.
LEMMA NextOwnerInv ==
    ASSUME ~Shared, OwnerInv, [Next]_vars
    PROVE  OwnerInv'
<1>1. TypeOK' /\ HomeOK' /\ PendingIsOwn'
    BY NextTypes, NextPendingIsOwn DEF OwnerInv
<1>2. CASE UNCHANGED vars
    <2>1. OwnersAtomic' /\ NoLeftovers' /\ OwnersComplete' /\ OneWriter'
        BY <1>2 DEF OwnerInv, vars, OwnersAtomic, AllOrNothing, Stored, NoLeftovers,
           OwnersComplete, OneWriter, Running, Owner
    <2>2. ExplicitHasOwner' /\ JoinedIsPoisoned' /\ IdleIsClean'
        BY <1>2 DEF OwnerInv, vars, ExplicitHasOwner, JoinedIsPoisoned, IdleIsClean, Running,
           Owner, Stored
    <2>3. QED
        BY <1>1, <2>1, <2>2 DEF OwnerInv
<1>3. CASE Next
    <2>1. ASSUME NEW o \in Op, NEW u \in UoW, NEW t \in Thread,
                 NEW c \in Op \cup {None}, StartRun(o, u, t, c)
          PROVE  OwnerRest'
        <3>1. \A q \in Op : Running(q) => home[q] # u
            BY <2>1, FreeIsEmpty DEF StartRun
        <3>2. CASE Enter(o, "run", u, t, c, "running") /\ explicit' = [explicit EXCEPT ![u] = TRUE]
                   /\ UNCHANGED <<poisoned, pending>>
            BY <3>1, <3>2, EnterRunning DEF Kind
        <3>3. QED
            BY <2>1, <3>2, EnterRefused DEF StartRun, BeginOrRefuse
    <2>2. ASSUME NEW o \in Op, NEW u \in UoW, NEW t \in Thread,
                 NEW c \in Op \cup {None}, StartInvoke(o, u, t, c)
          PROVE  OwnerRest'
        <3>1. \A q \in Op : Running(q) => home[q] # u
            BY <2>2, FreeIsEmpty DEF StartInvoke
        <3>2. QED
            BY <2>2, <3>1, EnterRunning DEF StartInvoke, uowVars, Kind
    <2>3. ASSUME NEW o \in Op, NEW u \in UoW, NEW t \in Thread,
                 NEW c \in Op \cup {None}, StartMutation(o, u, t, c)
          PROVE  OwnerRest'
        <3>1. \A q \in Op : Running(q) /\ home[q] = u => kind[q] = "invoke" /\ c = q
            BY <2>3, MutationNeighbours
        <3>2. CASE Enter(o, "mutation", u, t, c, "running") /\ explicit' = [explicit EXCEPT ![u] = TRUE]
                   /\ UNCHANGED <<poisoned, pending>>
            <4>1. "mutation" \in Kind /\ poisoned' = poisoned /\ pending' = pending
                BY <3>2 DEF Kind
            <4>2. QED
                BY <3>1, <3>2, <4>1, EnterRunning
        <3>3. QED
            BY <2>3, <3>2, EnterRefused DEF StartMutation, BeginOrRefuse
    <2>4. ASSUME NEW o \in Op, NEW u \in UoW, NEW t \in Thread, StartJoined(o, u, t)
          PROVE  OwnerRest'
        <3>1. (\A q \in Op : Running(q) => home[q] # u) /\ poisoned[u]
            BY <2>4, FreeIsEmpty, JoinedFindsPoison DEF StartJoined
        <3>2. QED
            BY <2>4, <3>1, EnterRunning DEF StartJoined, uowVars, Kind
    <2>5. \A o \in Op, p \in Part : WriteThrough(o, p) => OwnerRest'
        BY OwnerWriteStep
    <2>6. \A o \in Op : FinishRead(o) => OwnerRest'
        BY OwnerReadStep
    <2>7. ASSUME NEW o \in Op, Commit(o)
          PROVE  OwnerRest'
        <3>1. OwnersAtomic' /\ IdleIsClean'
            BY <2>7, EndOwners DEF Commit
        <3>2. QED
            BY <2>7, <3>1, EndReleased DEF Commit
    <2>8. \A o \in Op : CommitRaises(o) => OwnerRest'
        BY OwnerFailingStep DEF CommitRaises
    <2>9. \A o \in Op : Raise(o) => OwnerRest'
        BY OwnerFailingStep DEF Raise
    <2>10. \A o \in Op : EndJoined(o) => OwnerRest'
        BY OwnerEndJoinedStep
    <2>11. Crash => OwnerRest'
        BY OwnerCrashStep
    <2>12. OwnerRest'
        BY <1>3, <2>1, <2>2, <2>3, <2>4, <2>5, <2>6, <2>7, <2>8, <2>9, <2>10,
           <2>11, NextCases
    <2>13. QED
        BY <1>1, <2>12 DEF OwnerRest, OwnerInv
<1>4. QED
    BY <1>2, <1>3

\* Initially everything holds.
LEMMA InitOwnerInv == Init => OwnerInv
BY InitTypes DEF Init, OwnerInv, OwnersAtomic, AllOrNothing, Stored, NoLeftovers, PendingIsOwn,
   OneWriter, ExplicitHasOwner, OwnersComplete, JoinedIsPoisoned, IdleIsClean, Running, Owner

\* On units of work that no two threads use at once the owners' invariant holds,
\* whatever the handlers write, the mutations join and the rollbacks do.
THEOREM OwnerInvariance ==
    ASSUME ~Shared
    PROVE  Spec => []OwnerInv
<1>1. Init => OwnerInv
    BY InitOwnerInv
<1>2. OwnerInv /\ [Next]_vars => OwnerInv'
    BY NextOwnerInv
<1>3. QED
    BY <1>1, <1>2, PTL DEF Spec

\* What an operation wrote that began its transaction is not readable before
\* its outcome, all of it is after success, and never a part of it, although
\* contract handlers write around it and rollbacks fail.
THEOREM OwnersAreAtomic ==
    ASSUME ~Shared
    PROVE  Spec => []OwnersAtomic
<1>1. Init => OwnerInv
    BY InitOwnerInv
<1>2. OwnerInv /\ [Next]_vars => OwnerInv'
    BY NextOwnerInv
<1>3. OwnerInv => OwnersAtomic
    BY DEF OwnerInv
<1>4. QED
    BY <1>1, <1>2, <1>3, PTL DEF Spec

\* What a finished operation wrote, handler or owner, never waits in a usable
\* session for the commit of the next one.
THEOREM NoLeftoverWrites ==
    ASSUME ~Shared
    PROVE  Spec => []NoLeftovers
<1>1. Init => OwnerInv
    BY InitOwnerInv
<1>2. OwnerInv /\ [Next]_vars => OwnerInv'
    BY NextOwnerInv
<1>3. OwnerInv => NoLeftovers
    BY DEF OwnerInv
<1>4. QED
    BY <1>1, <1>2, <1>3, PTL DEF Spec

-------------------------------------------------------------------------------
(* Atomicity of every operation, under the discipline.                     *)

\* What a usable session holds is exactly what the innermost operation wrote.
LEMMA SessionIsBuffer ==
    ASSUME IInv, NEW o \in Op, Innermost(o), ~poisoned[home[o]], NEW q \in Op, NEW p \in Part
    PROVE  <<q, p>> \in pending[home[o]] <=> q = o /\ p \in written[o]
<1>1. OwnerInv /\ Running(o)
    BY DEF IInv, Innermost
<1>2. ASSUME q = o, p \in written[o]
      PROVE  <<q, p>> \in pending[home[o]]
    BY <1>1, <1>2 DEF IInv, PendingIsComplete
<1>3. ASSUME <<q, p>> \in pending[home[o]]
      PROVE  q = o /\ p \in written[o]
    <2>1. Running(q) /\ p \in written[q] /\ home[q] = home[o]
        BY <1>1, <1>3, SessionHolds, InnermostRuns DEF OwnerInv, PendingIsOwn
    <2>2. CASE q # o
        BY <1>1, <2>1, <2>2, InnermostIsLast DEF IInv, HandlerIsClean
    <2>3. QED
        BY <2>1, <2>2
<1>4. QED
    BY <1>2, <1>3

\* Under the discipline a handler never sees the flag of a usable unit of work.
LEMMA HandlerIsImplicit ==
    ASSUME OwnerInv, NEW o \in Op, Innermost(o), kind[o] = "invoke", ~poisoned[home[o]]
    PROVE  ~explicit[home[o]]
<1> SUFFICES ASSUME explicit[home[o]] PROVE FALSE
    OBVIOUS
<1>1. PICK q \in Op : Running(q) /\ home[q] = home[o] /\ kind[q] \in {"run", "mutation"}
    BY InnermostRuns DEF OwnerInv, ExplicitHasOwner, Owner
<1>2. QED
    BY <1>1, InnermostIsLast

\* Initially everything holds.
LEMMA InitIInv == Init => IInv
BY InitOwnerInv DEF Init, IInv, OperationsAtomic, AllOrNothing, Stored, PendingIsComplete,
   HandlerIsClean, NeverJoined, PoisonNeedsFailure, Running

\* The parts of the invariant that the discipline adds.
Rest ==
    /\ OperationsAtomic /\ PendingIsComplete /\ HandlerIsClean
    /\ NeverJoined /\ PoisonNeedsFailure

\* A new operation, accepted or refused, wrote nothing yet.
LEMMA EnterStep ==
    ASSUME IInv, NEW o \in Op, NEW k \in {"run", "mutation", "invoke"}, NEW u, NEW t, NEW c,
           NEW outcome \in {"running", "failed"}, Enter(o, k, u, t, c, outcome),
           poisoned' = poisoned, pending' = pending
    PROVE  Rest'
<1>1. TypeOK
    BY DEF IInv, OwnerInv
<1>2. \A q \in Op : q # o => phase'[q] = phase[q] /\ kind'[q] = kind[q] /\ home'[q] = home[q]
    BY <1>1 DEF Enter, TypeOK
<1>3. phase'[o] = outcome /\ kind'[o] = k
    BY <1>1 DEF Enter, TypeOK
<1>4. phase[o] = "idle" /\ written' = written /\ durable' = durable
    BY DEF Enter
<1>5. written[o] = {} /\ Stored(o) = {}
    BY <1>4 DEF IInv, OwnerInv, IdleIsClean
<1>6. OperationsAtomic'
    <2> SUFFICES ASSUME NEW q \in Op PROVE AllOrNothing(q)'
        BY DEF OperationsAtomic
    <2>1. Stored(q)' = Stored(q)
        BY <1>4 DEF Stored
    <2>2. AllOrNothing(q)
        BY DEF IInv, OperationsAtomic
    <2>3. CASE q = o
        BY <1>3, <1>4, <1>5, <2>1, <2>3 DEF AllOrNothing
    <2>4. CASE q # o
        BY <1>2, <1>4, <2>1, <2>2, <2>4 DEF AllOrNothing
    <2>5. QED
        BY <2>3, <2>4
<1>7. PendingIsComplete' /\ HandlerIsClean'
    BY <1>2, <1>3, <1>4, <1>5 DEF IInv, PendingIsComplete, HandlerIsClean, Running
<1>8. NeverJoined' /\ PoisonNeedsFailure'
    BY <1>2, <1>3 DEF IInv, NeverJoined, PoisonNeedsFailure
<1>9. QED
    BY <1>6, <1>7, <1>8 DEF Rest

\* A write goes to the session and to nothing else.
LEMMA WriteStep ==
    ASSUME Discipline, IInv, NEW o \in Op, NEW p \in Part, WriteThrough(o, p)
    PROVE  Rest'
<1> DEFINE u == home[o]
<1>1. OwnerInv /\ TypeOK /\ Innermost(o)
    BY DEF IInv, OwnerInv, WriteThrough
<1>2. phase[o] = "running" /\ u \in UoW
    BY <1>1, InnermostRuns
<1>3. UNCHANGED <<phase, durable, kind, home, poisoned>>
    BY DEF WriteThrough
<1>4. \A q \in Op : written'[q] = IF q = o THEN written[q] \cup {p} ELSE written[q]
    BY <1>1 DEF WriteThrough, TypeOK
<1>5. \A v \in UoW : pending'[v] = IF v = u THEN pending[v] \cup {<<o, p>>} ELSE pending[v]
    BY <1>1, <1>2 DEF WriteThrough, TypeOK
<1>6. OperationsAtomic'
    <2> SUFFICES ASSUME NEW q \in Op PROVE AllOrNothing(q)'
        BY DEF OperationsAtomic
    <2>1. Stored(q)' = Stored(q) /\ AllOrNothing(q)
        BY <1>3 DEF Stored, IInv, OperationsAtomic
    <2>2. CASE q = o
        BY <1>2, <1>3, <2>1, <2>2 DEF AllOrNothing
    <2>3. CASE q # o
        BY <1>3, <1>4, <2>1, <2>3 DEF AllOrNothing
    <2>4. QED
        BY <2>2, <2>3
<1>7. PendingIsComplete'
    <2> SUFFICES ASSUME NEW q \in Op, Running(q), ~poisoned[home[q]], NEW r \in written'[q]
                 PROVE  <<q, r>> \in pending'[home[q]]
        BY <1>3 DEF PendingIsComplete, Running
    <2>1. home[q] \in UoW
        BY <1>1 DEF OwnerInv, HomeOK, Running
    <2>2. \A x \in written[q] : <<q, x>> \in pending[home[q]]
        BY DEF IInv, PendingIsComplete
    <2>3. QED
        BY <1>4, <1>5, <2>1, <2>2
<1>8. HandlerIsClean'
    <2>1. kind[o] = "invoke" => poisoned[u]
        BY <1>1, HandlerIsImplicit DEF WriteThrough, Discipline
    <2>2. QED
        BY <1>3, <1>4, <2>1 DEF IInv, HandlerIsClean, Running
<1>9. NeverJoined' /\ PoisonNeedsFailure'
    BY <1>3 DEF IInv, NeverJoined, PoisonNeedsFailure
<1>10. QED
    BY <1>6, <1>7, <1>8, <1>9 DEF Rest

\* Ending a read drops nothing: the session has nothing to drop.
LEMMA FinishReadStep ==
    ASSUME IInv, NEW o \in Op, FinishRead(o)
    PROVE  Rest'
<1> DEFINE u == home[o]
<1>1. OwnerInv /\ TypeOK /\ u \in UoW /\ ~poisoned[u] /\ ~explicit[u]
    BY InnermostRuns DEF FinishRead, IInv, OwnerInv
<1>2. UNCHANGED <<phase, written, kind, home, durable, poisoned>>
    BY DEF FinishRead, opVars
<1>3. \A v \in UoW : pending'[v] = IF v = u THEN {} ELSE pending[v]
    BY <1>1 DEF FinishRead, TypeOK
<1>4. OperationsAtomic' /\ HandlerIsClean' /\ NeverJoined' /\ PoisonNeedsFailure'
    BY <1>2 DEF IInv, OperationsAtomic, AllOrNothing, Stored, HandlerIsClean, NeverJoined,
       PoisonNeedsFailure, Running
<1>5. PendingIsComplete'
    <2>1. ASSUME NEW q \in Op, Running(q), home[q] = u
          PROVE  written[q] = {}
        <3>1. kind[q] \notin {"run", "mutation"}
            BY <1>1, <2>1 DEF OwnerInv, ExplicitHasOwner, Owner
        <3>2. kind[q] = "invoke"
            BY <1>1, <3>1 DEF IInv, NeverJoined, TypeOK, Kind
        <3>3. QED
            BY <1>1, <2>1, <3>2 DEF IInv, HandlerIsClean
    <2>2. \A q \in Op : Running(q) => home[q] \in UoW
        BY <1>1 DEF OwnerInv, HomeOK, Running
    <2>3. QED
        BY <1>2, <1>3, <2>1, <2>2 DEF IInv, PendingIsComplete, Running
<1>6. QED
    BY <1>4, <1>5 DEF Rest

\* An ending operation stores all it wrote or nothing, and touches nothing that
\* another operation stored.
LEMMA EndAtomic ==
    ASSUME IInv, NEW o \in Op, Innermost(o), NEW outcome \in {"ok", "failed"},
           Finish(o, outcome),
           \/ durable' = durable /\ outcome = "failed"
           \/ durable' = durable \cup pending[home[o]] /\ ~poisoned[home[o]]
    PROVE  OperationsAtomic'
<1> SUFFICES ASSUME NEW q \in Op PROVE AllOrNothing(q)'
    BY DEF OperationsAtomic
<1>1. TypeOK /\ phase[o] = "running"
    BY InnermostRuns DEF IInv, OwnerInv
<1>2. written' = written /\ phase'[q] = IF q = o THEN outcome ELSE phase[q]
    BY <1>1 DEF Finish, TypeOK
<1>3. AllOrNothing(q)
    BY DEF IInv, OperationsAtomic
<1>4. CASE q # o
    <2>1. Stored(q)' = Stored(q)
        BY <1>4, SessionIsBuffer DEF Stored
    <2>2. QED
        BY <1>2, <1>3, <1>4, <2>1 DEF AllOrNothing
<1>5. CASE q = o
    <2>1. Stored(o) = {}
        BY <1>1, <1>3, <1>5 DEF AllOrNothing
    <2>2. CASE durable' = durable /\ outcome = "failed"
        <3>1. Stored(o)' = {}
            BY <2>1, <2>2 DEF Stored
        <3>2. QED
            BY <1>2, <1>5, <2>2, <3>1 DEF AllOrNothing
    <2>3. CASE durable' = durable \cup pending[home[o]] /\ ~poisoned[home[o]]
        <3>1. \A p \in Part : <<o, p>> \in pending[home[o]] <=> p \in written[o]
            BY <2>3, SessionIsBuffer
        <3>2. Stored(o)' = written[o]
            BY <1>1, <2>1, <2>3, <3>1 DEF Stored, TypeOK
        <3>3. QED
            BY <1>2, <1>5, <3>2 DEF AllOrNothing
    <2>4. QED
        BY <2>2, <2>3
<1>6. QED
    BY <1>4, <1>5

\* An ending operation clears its own session or poisons it, and leaves every
\* other session alone.
LEMMA EndStep ==
    ASSUME IInv, NEW o \in Op, Innermost(o), NEW outcome \in {"ok", "failed"},
           Finish(o, outcome), OperationsAtomic',
           \A v \in UoW : v # home[o] => pending'[v] = pending[v] /\ poisoned'[v] = poisoned[v],
           \/ ~poisoned[home[o]] /\ poisoned' = poisoned
           \/ poisoned'[home[o]] /\ (poisoned[home[o]] \/ RollbackFails)
    PROVE  Rest'
<1> DEFINE u == home[o]
<1>1. OwnerInv /\ TypeOK /\ u \in UoW
    BY InnermostRuns DEF IInv, OwnerInv
<1>2. UNCHANGED <<written, kind, home>>
    BY DEF Finish
<1>3. \A q \in Op : Running(q)' <=> Running(q) /\ q # o
    BY <1>1 DEF Finish, TypeOK, Running
<1>4. ASSUME NEW q \in Op, Running(q), q # o, ~poisoned'[home[q]]
      PROVE  /\ \A r \in written[q] : <<q, r>> \in pending'[home[q]]
             /\ kind[q] = "invoke" => written[q] = {}
    <2>1. home[q] \in UoW
        BY <1>1, <1>4 DEF OwnerInv, HomeOK, Running
    <2>2. CASE home[q] = u
        <3>1. ~poisoned[u] /\ kind[q] = "invoke"
            BY <1>1, <1>4, <2>2, InnermostIsLast
        <3>2. QED
            BY <1>4, <2>2, <3>1 DEF IInv, HandlerIsClean
    <2>3. CASE home[q] # u
        BY <1>4, <2>1, <2>3 DEF IInv, PendingIsComplete, HandlerIsClean
    <2>4. QED
        BY <2>2, <2>3
<1>5. PendingIsComplete' /\ HandlerIsClean'
    BY <1>2, <1>3, <1>4 DEF PendingIsComplete, HandlerIsClean
<1>6. NeverJoined' /\ PoisonNeedsFailure'
    BY <1>1, <1>2 DEF IInv, NeverJoined, PoisonNeedsFailure
<1>7. QED
    BY <1>5, <1>6 DEF Rest

\* An operation that raised, or whose commit did.
LEMMA FailingStep ==
    ASSUME IInv, NEW o \in Op, Innermost(o), Finish(o, "failed"), RollbackPreserving(home[o]),
           \/ durable' = durable
           \/ durable' = durable \cup pending[home[o]] /\ ~poisoned[home[o]]
    PROVE  Rest'
<1>1. OperationsAtomic'
    BY EndAtomic
<1>2. TypeOK /\ home[o] \in UoW
    BY InnermostRuns DEF IInv, OwnerInv
<1>3. \A v \in UoW : v # home[o] => pending'[v] = pending[v] /\ poisoned'[v] = poisoned[v]
    BY <1>2 DEF RollbackPreserving, TypeOK
<1>4. \/ ~poisoned[home[o]] /\ poisoned' = poisoned
      \/ poisoned'[home[o]] /\ (poisoned[home[o]] \/ RollbackFails)
    BY <1>2 DEF RollbackPreserving, TypeOK
<1>5. QED
    BY <1>1, <1>3, <1>4, EndStep

\* The process restarts with fresh units of work.
LEMMA CrashStep ==
    ASSUME IInv, Crash
    PROVE  Rest'
<1>1. \A q \in Op : ~Running(q)' /\ (phase'[q] = IF Running(q) THEN "failed" ELSE phase[q])
    BY DEF Crash, Running
<1>2. UNCHANGED <<written, durable, kind>> /\ \A u \in UoW : ~poisoned'[u]
    BY DEF Crash
<1>3. OperationsAtomic'
    <2> SUFFICES ASSUME NEW q \in Op PROVE AllOrNothing(q)'
        BY DEF OperationsAtomic
    <2>1. Stored(q)' = Stored(q) /\ AllOrNothing(q)
        BY <1>2 DEF Stored, IInv, OperationsAtomic
    <2>2. QED
        BY <1>1, <1>2, <2>1 DEF AllOrNothing, Running
<1>4. PendingIsComplete' /\ HandlerIsClean'
    BY <1>1 DEF PendingIsComplete, HandlerIsClean
<1>5. NeverJoined' /\ PoisonNeedsFailure'
    BY <1>2 DEF IInv, NeverJoined, PoisonNeedsFailure
<1>6. QED
    BY <1>3, <1>4, <1>5 DEF Rest

\* Under the discipline no bare mutation joins: a flag that is up has an owner.
LEMMA NothingJoins ==
    ASSUME Discipline, IInv, NEW o, NEW u \in UoW, NEW t
    PROVE  ~StartJoined(o, u, t)
BY JoinedFindsPoison DEF StartJoined, Discipline, IInv, PoisonNeedsFailure

\* The invariant is inductive under the discipline.
LEMMA NextIInv ==
    ASSUME Discipline, IInv, [Next]_vars
    PROVE  IInv'
<1>1. OwnerInv'
    BY NextOwnerInv DEF IInv, Discipline
<1>2. CASE UNCHANGED vars
    BY <1>1, <1>2 DEF IInv, vars, OperationsAtomic, AllOrNothing, Stored, PendingIsComplete,
       HandlerIsClean, NeverJoined, PoisonNeedsFailure, Running
<1>3. CASE Next
    <2>1. \A o \in Op, u \in UoW, t \in Thread, c \in Op \cup {None} :
              StartRun(o, u, t, c) => Rest'
        BY EnterStep DEF StartRun, BeginOrRefuse, uowVars
    <2>2. \A o \in Op, u \in UoW, t \in Thread, c \in Op \cup {None} :
              StartInvoke(o, u, t, c) => Rest'
        BY EnterStep DEF StartInvoke, uowVars
    <2>3. \A o \in Op, u \in UoW, t \in Thread, c \in Op \cup {None} :
              StartMutation(o, u, t, c) => Rest'
        BY EnterStep DEF StartMutation, BeginOrRefuse, uowVars
    <2>4. \A o \in Op, u \in UoW, t \in Thread : StartJoined(o, u, t) => Rest'
        BY NothingJoins
    <2>5. \A o \in Op, p \in Part : WriteThrough(o, p) => Rest'
        BY WriteStep
    <2>6. \A o \in Op : FinishRead(o) => Rest'
        BY FinishReadStep
    <2>7. ASSUME NEW o \in Op, Commit(o)
          PROVE  Rest'
        <3>1. Innermost(o) /\ Finish(o, "ok") /\ ~poisoned[home[o]] /\ poisoned' = poisoned
            BY <2>7 DEF Commit
        <3>2. OperationsAtomic'
            BY <2>7, <3>1, EndAtomic DEF Commit
        <3>3. \A v \in UoW : v # home[o] => pending'[v] = pending[v]
            BY <2>7 DEF Commit, IInv, OwnerInv, TypeOK
        <3>4. QED
            BY <3>1, <3>2, <3>3, EndStep
    <2>8. \A o \in Op : CommitRaises(o) => Rest'
        BY FailingStep DEF CommitRaises
    <2>9. \A o \in Op : Raise(o) => Rest'
        BY FailingStep DEF Raise
    <2>10. \A o \in Op : EndJoined(o) => Rest'
        BY DEF EndJoined, IInv, NeverJoined
    <2>11. Crash => Rest'
        BY CrashStep
    <2>12. Rest'
        BY <1>3, <2>1, <2>2, <2>3, <2>4, <2>5, <2>6, <2>7, <2>8, <2>9, <2>10,
           <2>11, NextCases
    <2>13. QED
        BY <1>1, <2>12 DEF Rest, IInv
<1>4. QED
    BY <1>2, <1>3

\* Under the discipline the invariant holds in full.
THEOREM Invariance ==
    ASSUME Discipline
    PROVE  Spec => []IInv
<1>1. Init => IInv
    BY InitIInv
<1>2. IInv /\ [Next]_vars => IInv'
    BY NextIInv
<1>3. QED
    BY <1>1, <1>2, PTL DEF Spec

\* Under the discipline every operation is atomic: nothing of it is readable
\* before its outcome, all of it is after success, never a part of it.
THEOREM Atomicity ==
    ASSUME Discipline
    PROVE  Spec => []OperationsAtomic
<1>1. Init => IInv
    BY InitIInv
<1>2. IInv /\ [Next]_vars => IInv'
    BY NextIInv
<1>3. IInv => OperationsAtomic
    BY DEF IInv
<1>4. QED
    BY <1>1, <1>2, <1>3, PTL DEF Spec

-------------------------------------------------------------------------------
(* The shared session implements the private buffers of AtomicOperations.  *)

AStep == Abstract!Next \/ UNCHANGED Abstract!avars

\* Entering an operation begins or refuses it.
LEMMA EnterRefines ==
    ASSUME NEW o \in Op, NEW k, NEW u, NEW t, NEW c, NEW outcome \in {"running", "failed"},
           Enter(o, k, u, t, c, outcome)
    PROVE  AStep
<1>1. Abstract!Begin(o) \/ Abstract!Refuse(o)
    BY DEF Enter, Abstract!Begin, Abstract!Refuse
<1>2. QED
    BY <1>1 DEF AStep, Abstract!Next

\* What the owner's commit hands to the database is what the operation wrote.
LEMMA CommittedIsBuffered ==
    ASSUME IInv, NEW o \in Op, Innermost(o), ~poisoned[home[o]]
    PROVE  pending[home[o]] = Abstract!WritesOf(o)
<1>1. Running(o) /\ home[o] \in UoW
    BY InnermostRuns DEF IInv
<1>2. pending[home[o]] \subseteq Op \X Part /\ written[o] \subseteq Part
    BY <1>1 DEF IInv, OwnerInv, TypeOK, Write
<1>3. ASSUME NEW w, w \in pending[home[o]]
      PROVE  w \in {o} \X written[o]
    <2>1. PICK q \in Op, p \in Part : w = <<q, p>>
        BY <1>2, <1>3
    <2>2. q = o /\ p \in written[o]
        BY <1>3, <2>1, SessionIsBuffer
    <2>3. QED
        BY <2>1, <2>2
<1>4. ASSUME NEW w, w \in {o} \X written[o]
      PROVE  w \in pending[home[o]]
    <2>1. PICK p \in written[o] : w = <<o, p>>
        BY <1>4
    <2>2. <<o, p>> \in pending[home[o]]
        BY <1>2, SessionIsBuffer
    <2>3. QED
        BY <2>1, <2>2
<1>5. pending[home[o]] = {o} \X written[o]
    BY <1>3, <1>4
<1>6. QED
    BY <1>5 DEF Abstract!WritesOf

\* Every step of the unit of work is a step of the abstract operations.
LEMMA StepRefines ==
    ASSUME Discipline, IInv, [Next]_vars
    PROVE  AStep
<1>1. CASE UNCHANGED vars
    BY <1>1 DEF AStep, vars, Abstract!avars
<1>2. CASE Next
    <2>1. \A o \in Op, u \in UoW, t \in Thread, c \in Op \cup {None} :
             StartRun(o, u, t, c) => AStep
        BY EnterRefines DEF StartRun, BeginOrRefuse
    <2>2. \A o \in Op, u \in UoW, t \in Thread, c \in Op \cup {None} :
             StartInvoke(o, u, t, c) => AStep
        BY EnterRefines DEF StartInvoke
    <2>3. \A o \in Op, u \in UoW, t \in Thread, c \in Op \cup {None} :
             StartMutation(o, u, t, c) => AStep
        BY EnterRefines DEF StartMutation, BeginOrRefuse
    <2>4. \A o \in Op, u \in UoW, t \in Thread : StartJoined(o, u, t) => AStep
        BY EnterRefines DEF StartJoined
    <2>5. ASSUME NEW o \in Op, NEW p \in Part, WriteThrough(o, p)
          PROVE  AStep
        <3>1. Abstract!Buffer(o, p)
            BY <2>5 DEF WriteThrough, Innermost, Running, Abstract!Buffer
        <3>2. QED
            BY <3>1 DEF AStep, Abstract!Next
    <2>6. \A o \in Op : FinishRead(o) => AStep
        BY DEF FinishRead, opVars, AStep, Abstract!avars
    <2>7. ASSUME NEW o \in Op, Commit(o)
          PROVE  AStep
        <3>1. pending[home[o]] = Abstract!WritesOf(o)
            BY <2>7, CommittedIsBuffered DEF Commit
        <3>2. Abstract!Succeed(o)
            BY <2>7, <3>1 DEF Commit, Finish, Innermost, Running, Abstract!Succeed
        <3>3. QED
            BY <3>2 DEF AStep, Abstract!Next
    <2>8. ASSUME NEW o \in Op, CommitRaises(o)
          PROVE  AStep
        <3>1. durable' = durable \/ durable' = durable \cup Abstract!WritesOf(o)
            <4>1. CASE poisoned[home[o]]
                BY <2>8, <4>1 DEF CommitRaises
            <4>2. CASE ~poisoned[home[o]]
                <5>1. pending[home[o]] = Abstract!WritesOf(o)
                    BY <2>8, <4>2, CommittedIsBuffered DEF CommitRaises
                <5>2. QED
                    BY <2>8, <4>2, <5>1 DEF CommitRaises
            <4>3. QED
                BY <4>1, <4>2
        <3>2. Abstract!Fail(o)
            BY <2>8, <3>1 DEF CommitRaises, Finish, Innermost, Running, Abstract!Fail
        <3>3. QED
            BY <3>2 DEF AStep, Abstract!Next
    <2>9. ASSUME NEW o \in Op, Raise(o)
          PROVE  AStep
        <3>1. Abstract!Fail(o)
            BY <2>9 DEF Raise, Finish, Innermost, Running, Abstract!Fail
        <3>2. QED
            BY <3>1 DEF AStep, Abstract!Next
    <2>10. \A o \in Op : EndJoined(o) => AStep
        BY DEF EndJoined, IInv, NeverJoined
    <2>11. Crash => AStep
        BY DEF Crash, Running, AStep, Abstract!Next, Abstract!Die
    <2>12. QED
        BY <1>2, <2>1, <2>2, <2>3, <2>4, <2>5, <2>6, <2>7, <2>8, <2>9, <2>10,
           <2>11, NextCases
<1>3. QED
    BY <1>1, <1>2

\* Under the discipline the one session the plugins share cannot be told from
\* private buffers, each committed or dropped by its own operation.
THEOREM Refinement ==
    ASSUME Discipline
    PROVE  Spec => ImplementsAtomicOperations
<1>1. Init => IInv
    BY InitIInv
<1>2. IInv /\ [Next]_vars => IInv'
    BY NextIInv
<1>3. Init => Abstract!Init
    BY DEF Init, Abstract!Init
<1>4. IInv /\ [Next]_vars => [Abstract!Next]_(Abstract!avars)
    BY StepRefines DEF AStep
<1>5. QED
    BY <1>1, <1>2, <1>3, <1>4, PTL DEF Spec, ImplementsAtomicOperations, Abstract!Spec
===============================================================================
