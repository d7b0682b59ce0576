-------------------------- MODULE AuthorizationProofs --------------------------
(***************************************************************************)
(* What holds of Authorization for every set of requests, principals and   *)
(* confirmations: the types, that a confirmation is spent once and with    *)
(* its change, that whoever made a change was entitled to it, and that the *)
(* confirmations behave as OneTimeConfirmation promises.                   *)
(***************************************************************************)
EXTENDS Authorization, TLAPS

-------------------------------------------------------------------------------
(* The types.                                                              *)

\* Where a request can be.
Label == {"idle"} \cup Running \cup Ended

\* Noting the facts keeps ever a function to sets of facts.
LEMMA NoteType ==
    ASSUME TypeOK, NEW r \in Request \cup {None}, Note(r)
    PROVE  ever' \in [Request -> SUBSET Fact]
<1>1. \A q \in Request : FactsOf(q, active', grants', policy') \in SUBSET Fact
  BY DEF FactsOf
<1>2. \A q \in Request : ever[q] \in SUBSET Fact
  BY DEF TypeOK
<1>. QED BY <1>1, <1>2 DEF Note

\* A read keeps the types when the label it goes to is one.
LEMMA ReadsType ==
    ASSUME TypeOK, NEW r \in Request, NEW from, NEW l \in Label, Reads(r, from, l),
           decided' \in [Request -> BOOLEAN], seen' \in [Request -> Rule]
    PROVE  TypeOK'
BY DEF TypeOK, Reads, Goto, Label, requestVars, tableVars

\* So does a rollback.
LEMMA RollBackType ==
    ASSUME TypeOK, NEW r \in Request, NEW l \in Ended, RollBack(r, l)
    PROVE  TypeOK'
<1>1. lock' \in [Confirmation -> Request \cup {None}]
  BY DEF TypeOK, RollBack, Release
<1>. QED BY <1>1 DEF TypeOK, RollBack, Goto, requestVars, tableVars

\* A decision, a rollback or a body that is refused.
LEMMA ReadTypes ==
    ASSUME TypeOK, NEW r \in Request,
           Decide(r) \/ Body(r) \/ BodyRefused(r) \/ Fail(r)
    PROVE  TypeOK'
<1>1. \A l : l \in {"resolve", "policy", "active", "direct", "role", "token", "consume",
                    "body", "rows", "commit"} => l \in Label
  BY DEF Label, Running
<1>2. {"denied", "failed"} \subseteq Ended
  BY DEF Ended
<1>3. /\ UNCHANGED decided => decided' \in [Request -> BOOLEAN]
      /\ UNCHANGED seen => seen' \in [Request -> Rule]
  BY DEF TypeOK
<1>4. CASE IssueHandle(r)
  BY <1>1, <1>3, <1>4, ReadsType DEF IssueHandle
<1>5. CASE ResolveHandle(r)
  BY <1>1, <1>3, <1>5, ReadsType DEF ResolveHandle
<1>6. CASE RefreshPolicy(r)
  <2>1. seen' \in [Request -> Rule]
    BY <1>6 DEF RefreshPolicy, TypeOK
  <2>. QED BY <1>1, <1>3, <1>6, <2>1, ReadsType DEF RefreshPolicy
<1>7. CASE CheckActive(r)
  BY <1>1, <1>3, <1>7, ReadsType DEF CheckActive
<1>8. ASSUME NEW from, Permitted(r, from)
      PROVE  TypeOK'
  <2>1. decided' \in [Request -> BOOLEAN]
    BY <1>8, Zenon DEF Permitted, TypeOK
  <2>2. PICK l \in {"token", "resolve", "body"} : Reads(r, from, l)
    BY <1>8 DEF Permitted
  <2>3. UNCHANGED seen
    BY <1>8 DEF Permitted
  <2>. QED BY <1>1, <1>3, <2>1, <2>2, <2>3, ReadsType
<1>9. CASE CheckDirect(r)
  BY <1>1, <1>3, <1>8, <1>9, ReadsType DEF CheckDirect
<1>10. CASE CheckRole(r)
  BY <1>8, <1>10 DEF CheckRole
<1>11. CASE ReadConfirmation(r)
  BY <1>1, <1>3, <1>11, ReadsType DEF ReadConfirmation
<1>12. CASE Body(r)
  BY <1>1, <1>3, <1>12, ReadsType DEF Body
<1>13. CASE Consume(r)
  <2>1. token[r] \in Confirmation /\ lock' = [lock EXCEPT ![token[r]] = r]
    BY <1>13 DEF Consume, Usable, Bound, TypeOK
  <2>2. lock' \in [Confirmation -> Request \cup {None}]
    BY <2>1 DEF TypeOK
  <2>3. pc' \in [Request -> Label]
    BY <1>1, <1>13 DEF Consume, Goto, TypeOK, Label
  <2>. QED BY <1>13, <2>2, <2>3 DEF Consume, TypeOK, Label, requestVars, tableVars
<1>14. CASE IssueRefused(r) \/ CheckDenies(r) \/ ConfirmationRequired(r)
            \/ ConfirmationConsumed(r) \/ BodyRefused(r) \/ Fail(r)
  <2>1. \E l \in Ended : RollBack(r, l)
    BY <1>2, <1>14 DEF IssueRefused, CheckDenies, Deny, ConfirmationRequired,
       ConfirmationConsumed, BodyRefused, Fail
  <2>. QED BY <2>1, RollBackType
<1>. QED BY <1>4, <1>5, <1>6, <1>7, <1>9, <1>10, <1>11, <1>12, <1>13, <1>14 DEF Decide

\* The rows a request writes are rows.
LEMMA ChangeRowsType ==
    ASSUME TypeOK, NEW r \in Request, ChangeRows(r)
    PROVE  TypeOK'
<1>1. RowsOf(r) \in SUBSET Row
  BY DEF RowsOf, TypeOK
<1>2. op[r] \in Op /\ target[r] \in Principal
  BY DEF TypeOK
<1>3. op[r].table \in Table
  BY <1>2, TableAssumption DEF Op
<1>4. <<op[r].table, r, target[r]>> \in Row
  BY <1>2, <1>3 DEF Row
<1>5. writes' \in [Request -> SUBSET Row]
  BY <1>1, <1>4 DEF ChangeRows, TypeOK
<1>. QED BY <1>5 DEF ChangeRows, Goto, TypeOK, Running, requestVars, tableVars

\* So does a commit that has the confirmation it needs.
LEMMA CommitType ==
    ASSUME TypeOK, NEW r \in Request, Commit(r), Needs(r) => token[r] # None
    PROVE  TypeOK'
<1>1. ever' \in [Request -> SUBSET Fact]
  BY NoteType DEF Commit
<1>2. lock' \in [Confirmation -> Request \cup {None}]
  BY DEF TypeOK, Commit, Release
<1>3. pc' \in [Request -> {"idle"} \cup Running \cup Ended]
  BY DEF TypeOK, Commit, Goto, Ended
<1>4. writes[r] \in SUBSET Row /\ grants \in SUBSET Row
  BY DEF TypeOK
<1>5. CASE CommitChange(r)
  <2>1. Needs(r) => token[r] \in Confirmation
    BY DEF TypeOK
  <2>2. grants' \in SUBSET Row
    BY <1>4, <1>5 DEF CommitChange
  <2>3. status' \in [Confirmation -> {"unissued", "active", "used"}]
    BY <1>5, <2>1 DEF CommitChange, TypeOK
  <2>4. spent' \in [Request -> Confirmation \cup {None}]
    BY <1>5, <2>1 DEF CommitChange, TypeOK
  <2>. QED BY <1>1, <1>2, <1>3, <1>5, <2>2, <2>3, <2>4
        DEF Commit, CommitChange, TypeOK, requestVars
<1>6. CASE CommitConfirmation(r)
  <2>1. PICK c \in Confirmation :
            /\ status' = [status EXCEPT ![c] = "active"]
            /\ boundTo' = [boundTo EXCEPT ![c] = Bound(r)]
    BY <1>6 DEF CommitConfirmation
  <2>2. Bound(r) \in Binding
    BY DEF TypeOK, Binding, Bound, Op
  <2>3. boundTo' \in [Confirmation -> Binding \cup {None}]
    BY <2>1, <2>2 DEF TypeOK
  <2>4. status' \in [Confirmation -> {"unissued", "active", "used"}]
    BY <2>1 DEF TypeOK
  <2>. QED BY <1>1, <1>2, <1>3, <1>6, <2>3, <2>4
        DEF Commit, CommitConfirmation, TypeOK, requestVars
<1>. QED BY <1>5, <1>6 DEF Commit

\* A request begins with no confirmation or one that exists.
LEMMA BeginType ==
    ASSUME TypeOK, NEW r \in Request, Begin(r)
    PROVE  TypeOK'
<1>1. ever' \in [Request -> SUBSET Fact]
  BY NoteType DEF Begin
<1>2. token' \in [Request -> Confirmation \cup {None}]
  BY DEF Begin, TypeOK
<1>. QED BY <1>1, <1>2 DEF Begin, Goto, TypeOK, Running, tableVars

\* The tables other management calls write keep their types.
LEMMA AdministerType ==
    ASSUME TypeOK, NEW n \in Change, Administer(n)
    PROVE  TypeOK'
<1>1. ever' \in [Request -> SUBSET Fact]
  BY NoteType DEF Administer
<1>2. active' \in SUBSET Principal
  BY DEF Administer, TypeOK
<1>3. policy' \in Rule
  BY DEF Administer, TypeOK
<1>4. grants' \in SUBSET Row
  BY DEF Administer, TypeOK, Row
<1>. QED BY <1>1, <1>2, <1>3, <1>4 DEF Administer, TypeOK, requestVars

\* The initial tables and requests have their types.
LEMMA InitType == Init => TypeOK
<1>. SUFFICES ASSUME Init PROVE TypeOK
  OBVIOUS
<1>1. grants \in SUBSET Row
  BY TableAssumption DEF Init, Row
<1>2. policy \in Rule
  BY RuleAssumption DEF Init
<1>. QED BY <1>1, <1>2 DEF Init, TypeOK, Rule

-------------------------------------------------------------------------------
(* The inductive invariant: who holds a confirmation's row, what the       *)
(* committed requests have spent, and what every request has seen.         *)

Inside == {"body", "rows", "commit"}

\* A row is locked by the request that consumed it, which still runs.
LockHeld ==
    \A c \in Confirmation : lock[c] # None =>
        /\ pc[lock[c]] \in Inside
        /\ token[lock[c]] = c
        /\ Needs(lock[c])

\* A request that is about to consume has a confirmation it was told to bring.
Bringing ==
    \A r \in Request :
        /\ pc[r] \in {"token", "consume"} => Needs(r)
        /\ pc[r] = "consume" => token[r] # None

Locks == RowHeld /\ LockHeld /\ Bringing

\* Only requests that have ended have committed, and only those have spent.
OnlyEnded ==
    \A r \in Request :
        /\ r \in done => pc[r] \in Ended
        /\ spent[r] # None => r \in done

Ledger == OnlyEnded /\ SpentWithEffect /\ UsedOnce

\* What a request has seen is what was the case at some moment of it.
Noted == \A r \in Request : Pending(r) => FactsOf(r, active, grants, policy) \subseteq ever[r]

SeenAt(r, l, rule) ==
    /\ l \in {"active", "direct", "role", "token", "consume"} \cup Inside =>
           (rule # "confirm" => "lenient" \in ever[r])
    /\ l \in {"direct", "role", "token", "consume"} \cup Inside => "active" \in ever[r]
    /\ l \in {"token", "consume"} \cup Inside => "granted" \in ever[r]

Seen == \A r \in Request : SeenAt(r, pc[r], seen[r])

Evidence == Noted /\ Seen /\ ConfirmedEffects /\ EverAuthorized

IInv == TypeOK /\ Locks /\ Ledger /\ Evidence

\* What a read may do to the locks: it comes from outside of the part of a
\* request that holds a row, or stays in it.
LEMMA ReadsLocks ==
    ASSUME TypeOK, Locks, NEW r \in Request, NEW from, NEW l, Reads(r, from, l),
           \A q \in Request : q # r => seen'[q] = seen[q],
           \/ from \notin Inside /\ (l \in Inside => ~Needs(r)')
           \/ from \in Inside /\ l \in Inside /\ seen'[r] = seen[r],
           l \in {"token", "consume"} => Needs(r)',
           l = "consume" => token[r] # None
    PROVE  Locks'
<1>1. /\ pc[r] = from /\ pc' = [pc EXCEPT ![r] = l]
      /\ UNCHANGED <<lock, token, op, actor, target, status, boundTo>>
  BY DEF Reads, Goto, requestVars, tableVars
<1>2. pc'[r] = l /\ \A q \in Request : q # r => pc'[q] = pc[q]
  BY <1>1 DEF TypeOK
<1>3. \A q \in Request : q # r => (Needs(q)' <=> Needs(q)) /\ (Usable(q)' <=> Usable(q))
  BY <1>1 DEF Needs, Usable, Bound
<1>4. seen'[r] = seen[r] => (Needs(r)' <=> Needs(r)) /\ (Usable(r)' <=> Usable(r))
  BY <1>1 DEF Needs, Usable, Bound
<1>5. RowHeld'
  BY <1>1, <1>2, <1>3, <1>4 DEF Locks, RowHeld, Inside
<1>6. LockHeld'
  <2>. SUFFICES ASSUME NEW c \in Confirmation, lock[c] # None
                PROVE  pc'[lock[c]] \in Inside /\ token[lock[c]] = c /\ Needs(lock[c])'
    BY <1>1 DEF LockHeld
  <2>1. /\ lock[c] \in Request
        /\ pc[lock[c]] \in Inside /\ token[lock[c]] = c /\ Needs(lock[c])
    BY DEF Locks, LockHeld, TypeOK
  <2>2. CASE lock[c] = r
    BY <1>1, <1>2, <2>1, <2>2 DEF Needs
  <2>3. CASE lock[c] # r
    BY <1>1, <1>2, <2>1, <2>3 DEF Needs
  <2>. QED BY <2>2, <2>3
<1>7. Bringing'
  BY <1>1, <1>2, <1>3 DEF Locks, Bringing
<1>. QED BY <1>5, <1>6, <1>7 DEF Locks

\* A rollback gives back the rows of its own transaction only.
LEMMA RollBackLocks ==
    ASSUME TypeOK, Locks, NEW r \in Request, NEW l \in Ended, RollBack(r, l)
    PROVE  Locks'
<1>1. /\ pc' = [pc EXCEPT ![r] = l]
      /\ lock' = [c \in Confirmation |-> IF lock[c] = r THEN None ELSE lock[c]]
      /\ UNCHANGED <<seen, token, op, actor, target, status, boundTo>>
  BY DEF RollBack, Release, Goto, requestVars, tableVars
<1>2. pc'[r] = l /\ \A q \in Request : q # r => pc'[q] = pc[q]
  BY <1>1 DEF TypeOK
<1>3. l \notin Inside /\ l \notin {"token", "consume"}
  BY DEF Ended, Inside
<1>4. \A q \in Request : (Needs(q)' <=> Needs(q)) /\ (Usable(q)' <=> Usable(q))
  BY <1>1 DEF Needs, Usable, Bound
<1>5. RowHeld'
  <2>. SUFFICES ASSUME NEW q \in Request, pc'[q] \in Inside, Needs(q)
                PROVE  token[q] # None /\ lock'[token[q]] = q /\ Usable(q)
    BY <1>1, <1>4 DEF RowHeld, Inside
  <2>1. q # r /\ pc[q] \in Inside
    BY <1>2, <1>3
  <2>2. token[q] # None /\ lock[token[q]] = q /\ Usable(q)
    BY <2>1 DEF Locks, RowHeld, Inside
  <2>3. token[q] \in Confirmation
    BY <2>2 DEF TypeOK
  <2>. QED BY <1>1, <2>1, <2>2, <2>3
<1>6. LockHeld'
  BY <1>1, <1>2, <1>4 DEF Locks, LockHeld, TypeOK
<1>7. Bringing'
  BY <1>1, <1>2, <1>3, <1>4 DEF Locks, Bringing
<1>. QED BY <1>5, <1>6, <1>7 DEF Locks

\* Consuming takes a row nobody holds.
LEMMA ConsumeLocks ==
    ASSUME TypeOK, Locks, NEW r \in Request, Consume(r)
    PROVE  Locks'
<1>1. /\ pc[r] = "consume" /\ pc' = [pc EXCEPT ![r] = "body"]
      /\ lock[token[r]] = None /\ lock' = [lock EXCEPT ![token[r]] = r]
      /\ Usable(r)
      /\ UNCHANGED <<seen, token, op, actor, target, status, boundTo>>
  BY DEF Consume, Goto, requestVars, tableVars
<1>2. pc'[r] = "body" /\ \A q \in Request : q # r => pc'[q] = pc[q]
  BY <1>1 DEF TypeOK
<1>3. \A q \in Request : (Needs(q)' <=> Needs(q)) /\ (Usable(q)' <=> Usable(q))
  BY <1>1 DEF Needs, Usable, Bound
<1>4. token[r] \in Confirmation /\ Needs(r)
  BY <1>1 DEF Usable, Bound, TypeOK, Locks, Bringing
<1>5. \A c \in Confirmation : lock'[c] = IF c = token[r] THEN r ELSE lock[c]
  BY <1>1, <1>4 DEF TypeOK
<1>6. RowHeld'
  <2>. SUFFICES ASSUME NEW q \in Request, pc'[q] \in Inside, Needs(q)
                PROVE  token[q] # None /\ lock'[token[q]] = q /\ Usable(q)
    BY <1>1, <1>3 DEF RowHeld, Inside
  <2>1. CASE q = r
    BY <1>1, <1>4, <1>5, <2>1, NoneAssumption
  <2>2. CASE q # r
    <3>1. token[q] # None /\ lock[token[q]] = q /\ Usable(q)
      BY <1>2, <2>2 DEF Locks, RowHeld, Inside
    <3>. QED BY <1>1, <1>5, <3>1, NoneAssumption DEF TypeOK
  <2>. QED BY <2>1, <2>2
<1>7. LockHeld'
  <2>. SUFFICES ASSUME NEW c \in Confirmation, lock'[c] # None
                PROVE  pc'[lock'[c]] \in Inside /\ token[lock'[c]] = c /\ Needs(lock'[c])
    BY <1>1, <1>3, <1>5 DEF LockHeld, TypeOK
  <2>1. CASE c = token[r]
    BY <1>2, <1>4, <1>5, <2>1 DEF Inside
  <2>2. CASE c # token[r]
    BY <1>2, <1>5, <2>2 DEF Locks, LockHeld, TypeOK, Inside
  <2>. QED BY <2>1, <2>2
<1>8. Bringing'
  BY <1>1, <1>2, <1>3 DEF Locks, Bringing
<1>. QED BY <1>6, <1>7, <1>8 DEF Locks

\* A commit uses the row it holds, which is no other request's.
LEMMA CommitLocks ==
    ASSUME TypeOK, Locks, NEW r \in Request, Commit(r)
    PROVE  Locks'
<1>1. /\ pc[r] = "commit"
      /\ \E l \in Ended : pc' = [pc EXCEPT ![r] = l]
      /\ lock' = [c \in Confirmation |-> IF lock[c] = r THEN None ELSE lock[c]]
      /\ UNCHANGED <<seen, token, op, actor, target>>
  BY DEF Commit, CommitChange, CommitConfirmation, Release, Goto, requestVars, Ended
<1>2. pc'[r] \in Ended /\ \A q \in Request : q # r => pc'[q] = pc[q]
  BY <1>1 DEF TypeOK
<1>3. pc'[r] \notin Inside /\ pc'[r] \notin {"token", "consume"}
  BY <1>2 DEF Ended, Inside
<1>4. \A q \in Request : Needs(q)' <=> Needs(q)
  BY <1>1 DEF Needs
<1>5. \A c \in Confirmation : status[c] = "active" /\ (Needs(r) => c # token[r])
                              => status'[c] = "active" /\ boundTo'[c] = boundTo[c]
  BY DEF Commit, CommitChange, CommitConfirmation, TypeOK
<1>6. RowHeld'
  <2>. SUFFICES ASSUME NEW q \in Request, pc'[q] \in Inside, Needs(q)
                PROVE  token[q] # None /\ lock'[token[q]] = q /\ Usable(q)'
    BY <1>1, <1>4 DEF RowHeld, Inside
  <2>1. q # r /\ pc[q] \in Inside
    BY <1>2, <1>3
  <2>2. token[q] # None /\ lock[token[q]] = q /\ Usable(q)
    BY <2>1 DEF Locks, RowHeld, Inside
  <2>3. token[q] \in Confirmation
    BY <2>2 DEF TypeOK
  <2>4. Needs(r) => lock[token[r]] = r
    BY <1>1 DEF Locks, RowHeld, Inside
  <2>5. status'[token[q]] = "active" /\ boundTo'[token[q]] = boundTo[token[q]]
    BY <1>5, <2>1, <2>2, <2>3, <2>4 DEF Usable, Bound
  <2>. QED BY <1>1, <2>1, <2>2, <2>3, <2>5 DEF Usable, Bound
<1>7. LockHeld'
  BY <1>1, <1>2, <1>4 DEF Locks, LockHeld, TypeOK
<1>8. Bringing'
  BY <1>1, <1>2, <1>3, <1>4 DEF Locks, Bringing
<1>. QED BY <1>6, <1>7, <1>8 DEF Locks

\* The rows and labels of a step of one request, action by action.
LEMMA WorkLocks ==
    ASSUME TypeOK, Locks, NEW r \in Request, Work(r) \/ Fail(r)
    PROVE  Locks'
<1>1. /\ UNCHANGED seen => \A q \in Request : seen'[q] = seen[q]
      /\ {"denied", "failed"} \subseteq Ended
  BY DEF Ended
<1>2. CASE IssueHandle(r)
  BY <1>1, <1>2, ReadsLocks DEF IssueHandle, Inside
<1>3. CASE ResolveHandle(r)
  BY <1>1, <1>3, ReadsLocks DEF ResolveHandle, Inside
<1>4. CASE RefreshPolicy(r)
  <2>1. \A q \in Request : q # r => seen'[q] = seen[q]
    BY <1>4 DEF RefreshPolicy, TypeOK
  <2>. QED BY <1>4, <2>1, ReadsLocks DEF RefreshPolicy, Inside
<1>5. CASE CheckActive(r)
  BY <1>1, <1>5, ReadsLocks DEF CheckActive, Inside
<1>6. ASSUME NEW from \in {"direct", "role"}, Permitted(r, from)
      PROVE  Locks'
  <2>1. UNCHANGED seen /\ (Needs(r)' <=> Needs(r))
    BY <1>6 DEF Permitted, Reads, requestVars, Needs
  <2>2. CASE Needs(r)
    <3>1. Reads(r, from, "token")
      BY <1>6, <2>2 DEF Permitted, Needs
    <3>. QED BY <1>1, <2>1, <2>2, <3>1, ReadsLocks DEF Inside
  <2>3. CASE ~Needs(r)
    <3>1. PICK l \in {"resolve", "body"} : Reads(r, from, l)
      BY <1>6, <2>3 DEF Permitted
    <3>. QED BY <1>1, <2>1, <2>3, <3>1, ReadsLocks DEF Inside
  <2>. QED BY <2>2, <2>3
<1>7. CASE CheckDirect(r)
  BY <1>1, <1>6, <1>7, ReadsLocks DEF CheckDirect, Inside
<1>8. CASE CheckRole(r)
  BY <1>6, <1>8 DEF CheckRole
<1>9. CASE ReadConfirmation(r)
  <2>1. pc[r] = "token" /\ UNCHANGED seen /\ (Needs(r)' <=> Needs(r))
    BY <1>9 DEF ReadConfirmation, Reads, requestVars, Needs
  <2>2. Needs(r) /\ token[r] # None
    BY <1>9, <2>1 DEF ReadConfirmation, Usable, Bound, Locks, Bringing
  <2>. QED BY <1>1, <1>9, <2>1, <2>2, ReadsLocks DEF ReadConfirmation, Inside
<1>10. CASE Consume(r)
  BY <1>10, ConsumeLocks
<1>11. CASE Body(r)
  BY <1>1, <1>11, ReadsLocks DEF Body, Inside
<1>12. CASE ChangeRows(r)
  <2>1. /\ pc[r] = "rows" /\ pc' = [pc EXCEPT ![r] = "commit"]
        /\ UNCHANGED <<lock, seen, token, op, actor, target, status, boundTo>>
    BY <1>12 DEF ChangeRows, Goto, requestVars, tableVars
  <2>. QED BY <2>1 DEF Locks, RowHeld, LockHeld, Bringing, Needs, Usable, Bound, Inside, TypeOK
<1>13. CASE Commit(r)
  BY <1>13, CommitLocks
<1>14. CASE IssueRefused(r) \/ CheckDenies(r) \/ ConfirmationRequired(r)
            \/ ConfirmationConsumed(r) \/ BodyRefused(r) \/ Fail(r)
  <2>1. \E l \in Ended : RollBack(r, l)
    BY <1>1, <1>14 DEF IssueRefused, CheckDenies, Deny, ConfirmationRequired,
       ConfirmationConsumed, BodyRefused, Fail
  <2>. QED BY <2>1, RollBackLocks
<1>. QED BY <1>2, <1>3, <1>4, <1>5, <1>7, <1>8, <1>9, <1>10, <1>11, <1>12, <1>13, <1>14
      DEF Work, Decide

\* Beginning and other management calls touch no row.
LEMMA OtherLocks ==
    ASSUME TypeOK, Locks,
           (\E r \in Request : Begin(r)) \/ (\E n \in Change : Administer(n)) \/ UNCHANGED vars
    PROVE  Locks'
<1>1. CASE \E r \in Request : Begin(r)
  <2>1. PICK r \in Request : Begin(r)
    BY <1>1
  <2>2. /\ pc[r] = "idle" /\ pc' = [pc EXCEPT ![r] = "issue"]
        /\ \A q \in Request : q # r => token'[q] = token[q]
        /\ UNCHANGED <<lock, seen, op, actor, target, status, boundTo>>
    BY <2>1 DEF Begin, Goto, tableVars, TypeOK
  <2>3. pc'[r] = "issue" /\ \A q \in Request : q # r => pc'[q] = pc[q]
    BY <2>2 DEF TypeOK
  <2>4. RowHeld'
    <3>. SUFFICES ASSUME NEW q \in Request, pc'[q] \in Inside, Needs(q)'
                  PROVE  token'[q] # None /\ lock'[token'[q]] = q /\ Usable(q)'
      BY DEF RowHeld, Inside
    <3>1. q # r /\ pc[q] \in Inside /\ token'[q] = token[q]
      BY <2>2, <2>3 DEF Inside
    <3>2. Needs(q)
      BY <2>2 DEF Needs
    <3>3. token[q] # None /\ lock[token[q]] = q /\ Usable(q)
      BY <3>1, <3>2 DEF Locks, RowHeld, Inside
    <3>. QED BY <2>2, <3>1, <3>3 DEF Usable, Bound
  <2>5. LockHeld'
    BY <2>2, <2>3 DEF Locks, LockHeld, Needs, Inside, TypeOK
  <2>6. Bringing'
    BY <2>2, <2>3 DEF Locks, Bringing, Needs
  <2>. QED BY <2>4, <2>5, <2>6 DEF Locks
<1>2. CASE (\E n \in Change : Administer(n)) \/ UNCHANGED vars
  <2>1. UNCHANGED <<pc, lock, token, seen, op, actor, target, status, boundTo>>
    BY <1>2 DEF Administer, requestVars, vars
  <2>. QED BY <2>1 DEF Locks, RowHeld, LockHeld, Bringing, Needs, Usable, Bound, Inside
<1>. QED BY <1>1, <1>2

\* Every step of a request but its commit, and its beginning, leave the tables
\* of confirmations and what was committed alone.
LEMMA Frame ==
    ASSUME TypeOK, NEW r \in Request, Begin(r) \/ Work(r) \/ Fail(r), ~Commit(r)
    PROVE  /\ pc[r] \notin Ended
           /\ \A q \in Request : q # r => pc'[q] = pc[q]
           /\ UNCHANGED <<tableVars, done, spent, op, actor, target>>
<1>1. ASSUME NEW from, NEW l, Reads(r, from, l)
      PROVE  /\ pc[r] = from
             /\ \A q \in Request : q # r => pc'[q] = pc[q]
             /\ UNCHANGED <<tableVars, done, spent, op, actor, target>>
  BY <1>1 DEF Reads, Goto, requestVars, TypeOK
<1>2. ASSUME NEW l, RollBack(r, l)
      PROVE  /\ \A q \in Request : q # r => pc'[q] = pc[q]
             /\ UNCHANGED <<tableVars, done, spent, op, actor, target>>
  BY <1>2 DEF RollBack, Goto, requestVars, TypeOK
<1>3. CASE Begin(r) \/ Consume(r) \/ ChangeRows(r)
  BY <1>3 DEF Begin, Consume, ChangeRows, Goto, requestVars, Ended, TypeOK
<1>4. CASE IssueHandle(r) \/ ResolveHandle(r) \/ RefreshPolicy(r) \/ CheckActive(r)
           \/ CheckDirect(r) \/ CheckRole(r) \/ ReadConfirmation(r) \/ Body(r)
  <2>1. PICK from \in {"issue", "resolve", "policy", "active", "direct", "role", "token",
                       "body"} : \E l : Reads(r, from, l)
    BY <1>4 DEF IssueHandle, ResolveHandle, RefreshPolicy, CheckActive, CheckDirect,
       CheckRole, Permitted, ReadConfirmation, Body
  <2>. QED BY <1>1, <2>1 DEF Ended
<1>5. CASE IssueRefused(r) \/ CheckDenies(r) \/ ConfirmationRequired(r)
           \/ ConfirmationConsumed(r) \/ BodyRefused(r) \/ Fail(r)
  <2>1. pc[r] \notin Ended
    BY <1>5 DEF IssueRefused, CheckDenies, ConfirmationRequired, ConfirmationConsumed,
       BodyRefused, Fail, Running, Ended
  <2>2. \E l : RollBack(r, l)
    BY <1>5 DEF IssueRefused, CheckDenies, Deny, ConfirmationRequired,
       ConfirmationConsumed, BodyRefused, Fail
  <2>. QED BY <1>2, <2>1, <2>2
<1>. QED BY <1>3, <1>4, <1>5 DEF Work, Decide

-------------------------------------------------------------------------------
(* What is spent.                                                          *)

\* A commit takes effect: what it leaves alone, and what it spends or issues.
LEMMA CommitEffect ==
    ASSUME TypeOK, Locks, Ledger, NEW r \in Request, Commit(r)
    PROVE  /\ pc[r] = "commit" /\ pc'[r] \in Ended
           /\ r \notin done /\ done' = done \cup {r}
           /\ \A q \in Request : q # r => pc'[q] = pc[q] /\ spent'[q] = spent[q]
           /\ spent[r] = None /\ spent'[r] = IF Needs(r) THEN token[r] ELSE None
           /\ Needs(r) => /\ token[r] \in Confirmation
                          /\ status[token[r]] = "active"
                          /\ boundTo[token[r]] = Bound(r)
                          /\ \A c \in Confirmation :
                                status'[c] = IF c = token[r] THEN "used" ELSE status[c]
                          /\ UNCHANGED boundTo
           /\ \A c \in Confirmation : status[c] = "used" => boundTo'[c] = boundTo[c]
           /\ ~Needs(r) => \A c \in Confirmation : status'[c] = "used" <=> status[c] = "used"
<1>1. /\ pc[r] = "commit" /\ done' = done \cup {r}
      /\ \E l \in Ended : pc' = [pc EXCEPT ![r] = l]
  BY DEF Commit, CommitChange, CommitConfirmation, Goto, Ended
<1>2. pc'[r] \in Ended /\ \A q \in Request : q # r => pc'[q] = pc[q]
  BY <1>1 DEF TypeOK
<1>3. r \notin done /\ spent[r] = None
  BY <1>1 DEF Ledger, OnlyEnded, Ended
<1>4. Needs(r) => token[r] # None /\ Usable(r)
  BY <1>1 DEF Locks, RowHeld
<1>5. Needs(r) => token[r] \in Confirmation /\ CommitChange(r)
  BY <1>4 DEF TypeOK, Needs, Commit, CommitConfirmation
<1>6. ~Needs(r) => UNCHANGED spent
  BY DEF Commit, CommitChange, CommitConfirmation
<1>7. /\ \A q \in Request : q # r => spent'[q] = spent[q]
      /\ spent'[r] = IF Needs(r) THEN token[r] ELSE None
  BY <1>3, <1>5, <1>6 DEF CommitChange, TypeOK
<1>8. Needs(r) => /\ \A c \in Confirmation :
                        status'[c] = IF c = token[r] THEN "used" ELSE status[c]
                  /\ UNCHANGED boundTo
  BY <1>5 DEF CommitChange, TypeOK
<1>9. ~Needs(r) => \A c \in Confirmation : /\ status'[c] = "used" <=> status[c] = "used"
                                           /\ status[c] = "used" => boundTo'[c] = boundTo[c]
  BY DEF Commit, CommitChange, CommitConfirmation, TypeOK
<1>. QED BY <1>1, <1>2, <1>3, <1>4, <1>5, <1>7, <1>8, <1>9 DEF Usable, Bound

\* What a commit spends was spent by nobody before.
LEMMA CommitLedger ==
    ASSUME TypeOK, Locks, Ledger, NEW r \in Request, Commit(r)
    PROVE  Ledger'
<1>1. OnlyEnded'
  BY CommitEffect DEF Ledger, OnlyEnded
<1>2. Needs(r) => token[r] \in Confirmation /\ \A q \in done : spent[q] # token[r]
  BY CommitEffect DEF Ledger, SpentWithEffect
<1>3. UsedOnce'
  <2>. SUFFICES ASSUME NEW q \in done', NEW p \in done', spent'[q] = spent'[p],
                       spent'[p] # None
                PROVE  q = p
    BY DEF UsedOnce
  <2>1. q \in Request /\ p \in Request
    BY CommitEffect DEF TypeOK
  <2>2. CASE q # r /\ p # r
    BY <2>1, <2>2, CommitEffect DEF Ledger, UsedOnce
  <2>3. CASE q = r /\ p # r
    BY <1>2, <2>1, <2>3, CommitEffect
  <2>4. CASE q # r /\ p = r
    BY <1>2, <2>1, <2>4, CommitEffect
  <2>. QED BY <2>2, <2>3, <2>4
<1>4. SpentWithEffect'
  <2>. SUFFICES ASSUME NEW c \in Confirmation
                PROVE  status'[c] = "used" <=> \E q \in done' : spent'[q] = c
    BY DEF SpentWithEffect
  <2>1. done \subseteq Request
    BY DEF TypeOK
  <2>2. (\E q \in done' : spent'[q] = c) <=> spent'[r] = c \/ \E q \in done : spent[q] = c
    BY <2>1, CommitEffect
  <2>3. status[c] = "used" <=> \E q \in done : spent[q] = c
    BY DEF Ledger, SpentWithEffect
  <2>4. CASE Needs(r)
    BY <2>2, <2>3, <2>4, CommitEffect
  <2>5. CASE ~Needs(r)
    BY <2>2, <2>3, <2>5, CommitEffect, NoneAssumption
  <2>. QED BY <2>4, <2>5
<1>. QED BY <1>1, <1>3, <1>4 DEF Ledger

\* Nothing else commits or spends.
LEMMA OtherLedger ==
    ASSUME TypeOK, Ledger,
           \/ \E r \in Request : (Begin(r) \/ Work(r) \/ Fail(r)) /\ ~Commit(r)
           \/ \E n \in Change : Administer(n)
           \/ UNCHANGED vars
    PROVE  Ledger'
<1>1. CASE \E r \in Request : (Begin(r) \/ Work(r) \/ Fail(r)) /\ ~Commit(r)
  <2>1. PICK r \in Request : (Begin(r) \/ Work(r) \/ Fail(r)) /\ ~Commit(r)
    BY <1>1
  <2>2. /\ pc[r] \notin Ended
        /\ \A q \in Request : q # r => pc'[q] = pc[q]
        /\ UNCHANGED <<status, done, spent>>
    BY <2>1, Frame DEF tableVars
  <2>. QED BY <2>2 DEF Ledger, OnlyEnded, SpentWithEffect, UsedOnce
<1>2. CASE (\E n \in Change : Administer(n)) \/ UNCHANGED vars
  <2>1. UNCHANGED <<pc, status, done, spent>>
    BY <1>2 DEF Administer, vars
  <2>. QED BY <2>1 DEF Ledger, OnlyEnded, SpentWithEffect, UsedOnce
<1>. QED BY <1>1, <1>2

-------------------------------------------------------------------------------
(* What was the case.                                                      *)

\* A read keeps the evidence when it has what its new label stands for.
LEMMA ReadsEvidence ==
    ASSUME TypeOK, Ledger, Evidence, NEW r \in Request, NEW from \in Running,
           NEW l \in Running, Reads(r, from, l),
           \A q \in Request : q # r => seen'[q] = seen[q],
           SeenAt(r, l, seen'[r])
    PROVE  Evidence'
<1>1. /\ pc[r] = from /\ pc'[r] = l /\ \A q \in Request : q # r => pc'[q] = pc[q]
      /\ UNCHANGED <<active, grants, policy, boundTo, op, actor, target, done, spent, ever>>
  BY DEF Reads, Goto, requestVars, tableVars, TypeOK
<1>2. Noted'
  BY <1>1 DEF Evidence, Noted, Pending, FactsOf
<1>3. Seen'
  BY <1>1 DEF Evidence, Seen, SeenAt
<1>4. ConfirmedEffects' /\ EverAuthorized'
  BY <1>1 DEF Evidence, ConfirmedEffects, Bound, EverAuthorized
<1>. QED BY <1>2, <1>3, <1>4 DEF Evidence

\* A step that notes the facts only adds to them.
LEMMA NoteGrows ==
    ASSUME TypeOK, Noted, NEW r \in Request \cup {None}, Note(r),
           \A q \in Request : q # r /\ Pending(q)' => Pending(q),
           UNCHANGED actor
    PROVE  /\ Noted'
           /\ \A q \in Request : ever[q] \subseteq ever'[q]
<1>1. \A q \in Request : ever'[q] = IF Pending(q) \/ q = r
                                    THEN ever[q] \cup FactsOf(q, active', grants', policy')
                                    ELSE ever[q]
  BY DEF Note
<1>2. \A q \in Request : FactsOf(q, active', grants', policy') = FactsOf(q, active, grants, policy)'
  BY DEF FactsOf
<1>. QED BY <1>1, <1>2 DEF Noted

\* What r holds is in ever while it runs.
LEMMA HoldsIsSeen ==
    ASSUME Noted, NEW r \in Request, pc[r] \in Running
    PROVE  /\ actor[r] \in active => "active" \in ever[r]
           /\ Granted(actor[r], grants) => "granted" \in ever[r]
           /\ policy # "confirm" => "lenient" \in ever[r]
BY DEF Noted, Pending, FactsOf, Fact

\* A commit happens only with the evidence its request has gathered.
LEMMA CommitEvidence ==
    ASSUME TypeOK, Locks, Ledger, Evidence, NEW r \in Request, Commit(r)
    PROVE  Evidence'
<1>1. UNCHANGED <<seen, op, actor, target>> /\ Note(r)
  BY DEF Commit, requestVars
<1>2. \A q \in Request : q # r /\ Pending(q)' => Pending(q)
  BY CommitEffect DEF Pending
<1>3. Noted' /\ \A q \in Request : ever[q] \subseteq ever'[q]
  BY <1>1, <1>2, NoteGrows DEF Evidence
<1>4. Seen'
  BY <1>1, <1>3, CommitEffect DEF Evidence, Seen, SeenAt, Ended, Inside
<1>5. done \subseteq Request
  BY DEF TypeOK
<1>6. EverAuthorized'
  <2>1. {"active", "granted"} \subseteq ever[r]
    BY CommitEffect DEF Evidence, Seen, SeenAt, Inside
  <2>. QED BY <1>3, <1>5, <2>1, CommitEffect DEF Evidence, EverAuthorized
<1>7. ConfirmedEffects'
  <2>. SUFFICES ASSUME NEW q \in done', op[q].kind # "confirm"
                PROVE  /\ spent'[q] = None => "lenient" \in ever'[q]
                       /\ spent'[q] # None => boundTo'[spent'[q]] = Bound(q)
    BY <1>1 DEF ConfirmedEffects, Bound
  <2>1. CASE q = r
    <3>1. ~Needs(r) => "lenient" \in ever[r]
      BY <2>1, CommitEffect DEF Evidence, Seen, SeenAt, Inside, Needs
    <3>2. Needs(r) => token[r] # None
      BY CommitEffect, NoneAssumption
    <3>. QED BY <1>3, <2>1, <3>1, <3>2, CommitEffect
  <2>2. CASE q # r
    <3>1. q \in done /\ q \in Request /\ spent'[q] = spent[q]
      BY <1>5, <2>2, CommitEffect
    <3>2. spent[q] # None => spent[q] \in Confirmation /\ status[spent[q]] = "used"
      BY <3>1 DEF TypeOK, Ledger, SpentWithEffect
    <3>3. spent[q] # None => boundTo'[spent[q]] = boundTo[spent[q]]
      BY <3>2, CommitEffect
    <3>. QED BY <1>3, <3>1, <3>3 DEF Evidence, ConfirmedEffects, Bound
  <2>. QED BY <2>1, <2>2
<1>. QED BY <1>3, <1>4, <1>6, <1>7 DEF Evidence

\* Steps that note the facts and commit nothing.
LEMMA OtherEvidence ==
    ASSUME TypeOK, Ledger, Evidence,
           (\E r \in Request : Begin(r)) \/ (\E n \in Change : Administer(n)) \/ UNCHANGED vars
    PROVE  Evidence'
<1>1. ASSUME NEW r \in Request \cup {None}, Note(r),
             \A q \in Request : q # r => pc'[q] = pc[q],
             r \in Request => pc[r] = "idle" /\ pc'[r] = "issue",
             UNCHANGED <<boundTo, op, actor, target, seen, done, spent>>
      PROVE  Evidence'
  <2>1. Noted' /\ \A q \in Request : ever[q] \subseteq ever'[q]
    BY <1>1, NoteGrows DEF Evidence, Pending
  <2>2. Seen'
    BY <1>1, <2>1 DEF Evidence, Seen, SeenAt, Inside
  <2>3. done \subseteq Request
    BY DEF TypeOK
  <2>4. ConfirmedEffects' /\ EverAuthorized'
    BY <1>1, <2>1, <2>3 DEF Evidence, ConfirmedEffects, Bound, EverAuthorized
  <2>. QED BY <2>1, <2>2, <2>4 DEF Evidence
<1>2. CASE \E r \in Request : Begin(r)
  <2>1. PICK r \in Request : Begin(r)
    BY <1>2
  <2>2. /\ Note(r) /\ pc[r] = "idle" /\ pc'[r] = "issue"
        /\ \A q \in Request : q # r => pc'[q] = pc[q]
        /\ UNCHANGED <<boundTo, op, actor, target, seen, done, spent>>
    BY <2>1 DEF Begin, Goto, tableVars, TypeOK
  <2>. QED BY <1>1, <2>2
<1>3. CASE \E n \in Change : Administer(n)
  <2>1. /\ Note(None)
        /\ UNCHANGED <<pc, boundTo, op, actor, target, seen, done, spent>>
    BY <1>3 DEF Administer, requestVars
  <2>2. None \notin Request
    BY NoneAssumption
  <2>. QED BY <1>1, <2>1, <2>2
<1>4. CASE UNCHANGED vars
  BY <1>4 DEF vars, Evidence, Noted, Pending, FactsOf, Granted, Seen, SeenAt,
     ConfirmedEffects, Bound, EverAuthorized
<1>. QED BY <1>2, <1>3, <1>4

\* Every check of a request adds what its label stands for.
LEMMA WorkEvidence ==
    ASSUME TypeOK, Locks, Ledger, Evidence, NEW r \in Request, Work(r) \/ Fail(r)
    PROVE  Evidence'
<1>1. UNCHANGED seen => \A q \in Request : seen'[q] = seen[q]
  OBVIOUS
<1>2. SeenAt(r, pc[r], seen[r])
  BY DEF Evidence, Seen
<1>3. pc[r] \in Running => /\ actor[r] \in active => "active" \in ever[r]
                           /\ Granted(actor[r], grants) => "granted" \in ever[r]
                           /\ policy # "confirm" => "lenient" \in ever[r]
  BY HoldsIsSeen DEF Evidence
<1>4. CASE IssueHandle(r)
  BY <1>1, <1>4, ReadsEvidence DEF IssueHandle, SeenAt, Inside, Running
<1>5. CASE ResolveHandle(r)
  BY <1>1, <1>5, ReadsEvidence DEF ResolveHandle, SeenAt, Inside, Running
<1>6. CASE RefreshPolicy(r)
  <2>1. /\ Reads(r, "policy", "active") /\ pc[r] = "policy" /\ seen'[r] = policy
        /\ \A q \in Request : q # r => seen'[q] = seen[q]
    BY <1>6 DEF RefreshPolicy, Reads, TypeOK
  <2>2. SeenAt(r, "active", seen'[r])
    BY <1>3, <2>1 DEF SeenAt, Inside, Running
  <2>. QED BY <2>1, <2>2, ReadsEvidence DEF Running
<1>7. CASE CheckActive(r)
  <2>1. pc[r] = "active" /\ actor[r] \in active /\ UNCHANGED seen /\ Reads(r, "active", "direct")
    BY <1>7 DEF CheckActive, Reads
  <2>2. SeenAt(r, "direct", seen'[r])
    BY <1>2, <1>3, <2>1 DEF SeenAt, Inside, Running
  <2>. QED BY <1>1, <2>1, <2>2, ReadsEvidence DEF Running
<1>8. ASSUME NEW t \in Table, t \in {"direct", "role"}, Carried(r, t), Permitted(r, t)
      PROVE  Evidence'
  <2>1. PICK l \in {"token", "resolve", "body"} : Reads(r, t, l)
    BY <1>8 DEF Permitted
  <2>2. pc[r] = t /\ UNCHANGED seen
    BY <1>8 DEF Permitted, Reads
  <2>3. Granted(actor[r], grants)
    BY <1>8 DEF Carried, Granted
  <2>4. SeenAt(r, l, seen'[r])
    BY <1>2, <1>3, <1>8, <2>2, <2>3 DEF SeenAt, Inside, Running
  <2>. QED BY <1>1, <1>8, <2>1, <2>2, <2>4, ReadsEvidence DEF Running
<1>9. CASE CheckDirect(r)
  <2>1. CASE Carried(r, "direct") /\ Permitted(r, "direct")
    BY <1>8, <2>1, TableAssumption
  <2>2. CASE Reads(r, "direct", "role") /\ UNCHANGED seen
    <3>1. SeenAt(r, "role", seen'[r])
      BY <1>2, <2>2 DEF Reads, SeenAt, Inside
    <3>. QED BY <1>1, <2>2, <3>1, ReadsEvidence DEF Running
  <2>. QED BY <1>9, <2>1, <2>2 DEF CheckDirect
<1>10. CASE CheckRole(r)
  <2>1. PICK q \in Request \cup {None} : <<"role", q, actor[r]>> \in grants
    BY <1>10 DEF CheckRole, Carried
  <2>2. "role" \in Table
    BY <2>1 DEF TypeOK, Row
  <2>. QED BY <1>8, <1>10, <2>2 DEF CheckRole
<1>11. CASE ReadConfirmation(r)
  <2>1. pc[r] = "token" /\ UNCHANGED seen /\ Reads(r, "token", "consume")
    BY <1>11 DEF ReadConfirmation, Reads
  <2>2. SeenAt(r, "consume", seen'[r])
    BY <1>2, <2>1 DEF SeenAt, Inside
  <2>. QED BY <1>1, <2>1, <2>2, ReadsEvidence DEF Running
<1>12. CASE Body(r)
  <2>1. pc[r] = "body" /\ UNCHANGED seen /\ Reads(r, "body", "rows")
    BY <1>12 DEF Body, Reads
  <2>2. SeenAt(r, "rows", seen'[r])
    BY <1>2, <2>1 DEF SeenAt, Inside
  <2>. QED BY <1>1, <2>1, <2>2, ReadsEvidence DEF Running
<1>13. CASE Consume(r) \/ ChangeRows(r)
  <2>1. /\ pc[r] \in {"consume", "rows"} /\ pc'[r] \in {"body", "commit"}
        /\ \A q \in Request : q # r => pc'[q] = pc[q]
        /\ UNCHANGED <<active, grants, policy, boundTo, seen, op, actor, target, done, spent,
                       ever>>
    BY <1>13 DEF Consume, ChangeRows, Goto, requestVars, tableVars, TypeOK
  <2>2. SeenAt(r, pc'[r], seen[r])
    BY <1>2, <2>1 DEF SeenAt, Inside
  <2>3. Noted'
    BY <2>1 DEF Evidence, Noted, Pending, FactsOf, Running
  <2>4. Seen'
    BY <2>1, <2>2 DEF Evidence, Seen, SeenAt
  <2>5. ConfirmedEffects' /\ EverAuthorized'
    BY <2>1 DEF Evidence, ConfirmedEffects, Bound, EverAuthorized
  <2>. QED BY <2>3, <2>4, <2>5 DEF Evidence
<1>14. CASE Commit(r)
  BY <1>14, CommitEvidence
<1>15. CASE IssueRefused(r) \/ CheckDenies(r) \/ ConfirmationRequired(r)
            \/ ConfirmationConsumed(r) \/ BodyRefused(r) \/ Fail(r)
  <2>1. PICK l \in Ended : RollBack(r, l)
    BY <1>15 DEF IssueRefused, CheckDenies, Deny, ConfirmationRequired,
       ConfirmationConsumed, BodyRefused, Fail, Ended
  <2>2. /\ pc'[r] = l /\ \A q \in Request : q # r => pc'[q] = pc[q]
        /\ UNCHANGED <<active, grants, policy, boundTo, seen, op, actor, target, done, spent,
                       ever>>
    BY <2>1 DEF RollBack, Goto, requestVars, tableVars, TypeOK
  <2>3. l \notin Running /\ SeenAt(r, l, seen[r])
    BY DEF Ended, Running, SeenAt, Inside
  <2>4. Noted'
    BY <2>2, <2>3 DEF Evidence, Noted, Pending, FactsOf
  <2>5. Seen'
    BY <2>2, <2>3 DEF Evidence, Seen, SeenAt
  <2>6. ConfirmedEffects' /\ EverAuthorized'
    BY <2>2 DEF Evidence, ConfirmedEffects, Bound, EverAuthorized
  <2>. QED BY <2>4, <2>5, <2>6 DEF Evidence
<1>. QED BY <1>4, <1>5, <1>6, <1>7, <1>9, <1>10, <1>11, <1>12, <1>13, <1>14, <1>15
      DEF Work, Decide

-------------------------------------------------------------------------------
(* The theorems.                                                           *)

\* The invariant holds at first,
LEMMA InitIInv == Init => IInv
<1>. SUFFICES ASSUME Init PROVE IInv
  OBVIOUS
<1>1. \A r \in Request : pc[r] = "idle" /\ spent[r] = None
  BY DEF Init
<1>2. \A c \in Confirmation : status[c] = "unissued" /\ lock[c] = None
  BY DEF Init
<1>3. done = {}
  BY DEF Init
<1>4. Locks
  BY <1>1, <1>2 DEF Locks, RowHeld, LockHeld, Bringing
<1>5. Ledger
  BY <1>1, <1>2, <1>3 DEF Ledger, OnlyEnded, SpentWithEffect, UsedOnce
<1>6. Evidence
  BY <1>1, <1>3 DEF Evidence, Noted, Pending, Running, Seen, SeenAt, Inside,
     ConfirmedEffects, Bound, EverAuthorized
<1>. QED BY <1>4, <1>5, <1>6, InitType DEF IInv

\* and every step keeps it.
LEMMA NextIInv == IInv /\ [Next]_vars => IInv'
<1>. SUFFICES ASSUME IInv, [Next]_vars PROVE IInv'
  OBVIOUS
<1>. USE DEF IInv
<1>1. CASE \E r \in Request : Begin(r)
  <2>1. PICK r \in Request : Begin(r)
    BY <1>1
  <2>2. ~Commit(r)
    BY <2>1 DEF Begin, Commit, CommitChange, CommitConfirmation
  <2>. QED BY <1>1, <2>1, <2>2, BeginType, OtherLocks, OtherLedger, OtherEvidence
<1>2. CASE \E r \in Request : Work(r) \/ Fail(r)
  <2>1. PICK r \in Request : Work(r) \/ Fail(r)
    BY <1>2
  <2>2. TypeOK'
    <3>1. Commit(r) => (Needs(r) => token[r] # None)
      BY DEF Commit, CommitChange, CommitConfirmation, Locks, RowHeld
    <3>. QED BY <2>1, <3>1, ReadTypes, ChangeRowsType, CommitType DEF Work
  <2>3. Ledger'
    BY <2>1, CommitLedger, OtherLedger
  <2>. QED BY <2>1, <2>2, <2>3, WorkLocks, WorkEvidence
<1>3. CASE \E n \in Change : Administer(n)
  BY <1>3, AdministerType, OtherLocks, OtherLedger, OtherEvidence
<1>4. CASE UNCHANGED vars
  <2>1. TypeOK'
    BY <1>4 DEF vars, TypeOK
  <2>. QED BY <1>4, <2>1, OtherLocks, OtherLedger, OtherEvidence
<1>. QED BY <1>1, <1>2, <1>3, <1>4 DEF Next

\* The inductive invariant holds of every behaviour of WebAppService._authorized.
THEOREM Invariance == Spec => []IInv
BY InitIInv, NextIInv, PTL DEF Spec

\* Every variable keeps its type, and the row of a consumed confirmation is held
\* by the request that consumed it until that request ends.
THEOREM RowsAreHeld == Spec => []AInv
<1>1. IInv => AInv
  BY DEF IInv, Locks, AInv
<1>. QED BY Invariance, <1>1, PTL

\* A confirmation is spent by one request at most (consume_confirmation).
THEOREM ConfirmationsAreUsedOnce == Spec => []UsedOnce
<1>1. IInv => UsedOnce
  BY DEF IInv, Ledger
<1>. QED BY Invariance, <1>1, PTL

\* A confirmation is used exactly when a change it confirmed was committed: a
\* request that fails or is denied gives it back (WebAppService._authorized).
THEOREM ConfirmationsAreSpentWithTheirEffect == Spec => []SpentWithEffect
<1>1. IInv => SpentWithEffect
  BY DEF IInv, Ledger
<1>. QED BY Invariance, <1>1, PTL

\* No change that needs a confirmation is made without one of the same actor for
\* the same target and action (AuthorizationService.authorize).
THEOREM ChangesAreConfirmed == Spec => []ConfirmedEffects
<1>1. IInv => ConfirmedEffects
  BY DEF IInv, Evidence
<1>. QED BY Invariance, <1>1, PTL

\* Whoever made a change was active and entitled during the request.
THEOREM ChangesAreAuthorized == Spec => []EverAuthorized
<1>1. IInv => EverAuthorized
  BY DEF IInv, Evidence
<1>. QED BY Invariance, <1>1, PTL

-------------------------------------------------------------------------------
(* The refinement.                                                         *)

\* The tables start as OneTimeConfirmation starts,
LEMMA InitRefines == Init => Abstract!Init
BY DEF Init, Abstract!Init

\* and a commit is a step of it, every other step a stutter.
LEMMA NextRefines == IInv /\ [Next]_vars => [Abstract!Next]_Abstract!vars
<1>. SUFFICES ASSUME IInv, [Next]_vars PROVE [Abstract!Next]_Abstract!vars
  OBVIOUS
<1>1. CASE \E r \in Request : (Begin(r) \/ Work(r) \/ Fail(r)) /\ ~Commit(r)
  BY <1>1, Frame DEF IInv, Abstract!vars, tableVars
<1>2. CASE (\E n \in Change : Administer(n)) \/ UNCHANGED vars
  BY <1>2 DEF Administer, vars, Abstract!vars
<1>3. CASE \E r \in Request : Commit(r)
  <2>1. PICK r \in Request : Commit(r)
    BY <1>3
  <2>2. r \notin done /\ done' = done \cup {r}
    BY <2>1, CommitEffect DEF IInv
  <2>3. CASE CommitChange(r) /\ Needs(r)
    <3>1. token[r] \in Confirmation /\ status[token[r]] = "active"
      BY <2>1, <2>3, CommitEffect DEF IInv
    <3>2. Abstract!Spend(r, token[r])
      BY <2>2, <2>3, <3>1 DEF CommitChange, Abstract!Spend
    <3>. QED BY <3>1, <3>2 DEF Abstract!Next
  <2>4. CASE CommitChange(r) /\ ~Needs(r)
    <3>1. Abstract!Effect(r)
      BY <2>2, <2>4 DEF CommitChange, Abstract!Effect
    <3>. QED BY <3>1 DEF Abstract!Next
  <2>5. CASE CommitConfirmation(r)
    <3>1. PICK c \in Confirmation :
              /\ status[c] = "unissued"
              /\ status' = [status EXCEPT ![c] = "active"]
              /\ boundTo' = [boundTo EXCEPT ![c] = Bound(r)]
              /\ UNCHANGED spent
      BY <2>5 DEF CommitConfirmation
    <3>2. Bound(r) \in Binding
      BY DEF IInv, TypeOK, Binding, Bound, Op
    <3>3. Abstract!Issue(r, c, Bound(r))
      BY <2>2, <3>1 DEF Abstract!Issue
    <3>. QED BY <3>2, <3>3 DEF Abstract!Next
  <2>. QED BY <2>1, <2>3, <2>4, <2>5 DEF Commit
<1>. QED BY <1>1, <1>2, <1>3 DEF Next, Work

\* The confirmations behave as OneTimeConfirmation promises, for every number of
\* requests that race for them.
THEOREM Refinement == Spec => ImplementsOneTimeConfirmation
BY InitRefines, NextRefines, Invariance, PTL DEF Spec, ImplementsOneTimeConfirmation, Abstract!Spec

===============================================================================
