----------------------------- MODULE Authorization -----------------------------
(***************************************************************************)
(* One request of the management console after another, or at the same     *)
(* time: each runs in a unit of work of its own (WebAppService._authorized)*)
(* that issues its handle, has AuthorizationService decide, changes grants *)
(* or issues a confirmation, and commits.  Every read sees what is         *)
(* committed at that moment (READ COMMITTED); consuming a confirmation     *)
(* waits for its row lock.  Rules, grants and principals change meanwhile, *)
(* by other requests and by management calls outside of the console.       *)
(* One scope and one capability, authorization.manage: covers() and the    *)
(* sets of capabilities are left out.  Row locks of grants are not         *)
(* modelled: they are taken last, so nobody holding one waits for another. *)
(***************************************************************************)
EXTENDS Naturals, FiniteSets

CONSTANTS
    Request,      \* requests, each used once (bounds a run)
    Principal,    \* actors, and what they act on
    Confirmation, \* confirmation ids (bounds the confirmations issued)
    Change,       \* management calls outside of a request, each used once
    Table,        \* what carries a capability: direct grants, role assignments
    InitialRule,  \* the rules a run may start with
    None          \* no confirmation, no request, no principal

ASSUME NoneAssumption ==
    None \notin Request \cup Confirmation \cup (Principal \X Principal \X Table)
ASSUME TableAssumption == "direct" \in Table /\ Table \subseteq {"direct", "role"}

VARIABLES
    active,  \* the active principals
    grants,  \* the active rows that carry authorization.manage
    policy,  \* the rule in force for the management actions
    status,  \* status[c]: unissued, active or used
    boundTo, \* boundTo[c]: the actor, target and action c was issued for
    lock,    \* lock[c]: the transaction holding c's row, or None
    pc,      \* pc[r]: where the request is
    op,      \* op[r]: what the route does
    actor,   \* actor[r]: the principal of the session
    target,  \* target[r]: resource_id, the principal to change
    token,   \* token[r]: the confirmation_id of the request body
    decided, \* decided[r]: a decision of r has allowed it
    seen,    \* seen[r]: the rule r's decision read
    writes,  \* writes[r]: the grant rows r's transaction adds or deactivates
    done,    \* the requests whose transaction committed its change
    spent,   \* spent[r]: the confirmation r's committed transaction consumed
    ever,    \* ever[r]: what was the case at some moment since r began
    changed  \* the management calls so far

requestVars == <<op, actor, target, token>>
tableVars == <<active, grants, policy, status, boundTo>>
vars == <<active, grants, policy, status, boundTo, lock, pc, op, actor, target,
          token, decided, seen, writes, done, spent, ever, changed>>

Row == Table \X (Request \cup {None}) \X Principal
Binding == Principal \X Principal \X Table

\* add and remove: a checkbox of a capability or of a role, each an action of its
\* own; confirm: a confirmation of such an action.
Op == [kind : {"add", "remove", "confirm"}, table : Table]

Rule == {"deny", "allow", "confirm"}

ASSUME RuleAssumption == InitialRule \subseteq Rule

Running == {"issue", "resolve", "policy", "active", "direct", "role", "token",
            "consume", "body", "rows", "commit"}
Ended == {"denied", "failed", "committed"}
Fact == {"active", "granted", "lenient"}

TypeOK ==
    /\ active \in SUBSET Principal
    /\ grants \in SUBSET Row
    /\ policy \in Rule
    /\ status \in [Confirmation -> {"unissued", "active", "used"}]
    /\ boundTo \in [Confirmation -> Binding \cup {None}]
    /\ lock \in [Confirmation -> Request \cup {None}]
    /\ pc \in [Request -> {"idle"} \cup Running \cup Ended]
    /\ op \in [Request -> Op]
    /\ actor \in [Request -> Principal]
    /\ target \in [Request -> Principal]
    /\ token \in [Request -> Confirmation \cup {None}]
    /\ decided \in [Request -> BOOLEAN]
    /\ seen \in [Request -> Rule]
    /\ writes \in [Request -> SUBSET Row]
    /\ done \in SUBSET Request
    /\ spent \in [Request -> Confirmation \cup {None}]
    /\ ever \in [Request -> SUBSET Fact]
    /\ changed \in SUBSET Change

\* An operator was seeded with a direct grant.  No more requests than ids ask
\* for a confirmation.
Init ==
    /\ active = Principal
    /\ grants \in {{<<"direct", None, p>>} : p \in Principal}
    /\ policy \in InitialRule
    /\ status = [c \in Confirmation |-> "unissued"]
    /\ boundTo = [c \in Confirmation |-> None]
    /\ lock = [c \in Confirmation |-> None]
    /\ pc = [r \in Request |-> "idle"]
    /\ op \in [Request -> Op]
    /\ Cardinality({r \in Request : op[r].kind = "confirm"}) <= Cardinality(Confirmation)
    /\ actor \in [Request -> Principal]
    /\ target \in [Request -> Principal]
    /\ token = [r \in Request |-> None]
    /\ decided = [r \in Request |-> FALSE]
    /\ seen = [r \in Request |-> "deny"]
    /\ writes = [r \in Request |-> {}]
    /\ done = {}
    /\ spent = [r \in Request |-> None]
    /\ ever = [r \in Request |-> {}]
    /\ changed = {}

Granted(p, rows) == \E t \in Table, q \in Request \cup {None} : <<t, q, p>> \in rows
Pending(r) == pc[r] \in Running

\* What is the case for r in a state with these tables.
FactsOf(r, ac, rows, rule) ==
    {f \in Fact : \/ f = "active" /\ actor[r] \in ac
                  \/ f = "granted" /\ Granted(actor[r], rows)
                  \/ f = "lenient" /\ rule # "confirm"}

\* Every pending request, and r, notes what the tables now say.
Note(r) ==
    ever' = [q \in Request |->
                IF Pending(q) \/ q = r
                THEN ever[q] \cup FactsOf(q, active', grants', policy') ELSE ever[q]]

Goto(r, l) == pc' = [pc EXCEPT ![r] = l]

\* What r reads of its own is left alone.
Reads(r, from, l) ==
    /\ pc[r] = from
    /\ Goto(r, l)
    /\ UNCHANGED <<tableVars, lock, requestVars, writes, done, spent, ever, changed>>

\* The row locks of a transaction that ends are released.
Release(r) == lock' = [c \in Confirmation |-> IF lock[c] = r THEN None ELSE lock[c]]

\* Slip: a rollback leaves the confirmation used.
RollBackSpends(r, l) ==
    /\ Goto(r, l)
    /\ Release(r)
    /\ status' = [c \in Confirmation |-> IF lock[c] = r THEN "used" ELSE status[c]]
    /\ UNCHANGED <<active, grants, policy, boundTo, requestVars, decided, seen, writes,
                   done, spent, ever, changed>>

\* Slip: a request that fails leaves its transaction open.
RollBackForgotten(r, l) ==
    /\ Goto(r, l)
    /\ UNCHANGED <<tableVars, lock, requestVars, decided, seen, writes, done, spent, ever,
                   changed>>

\* The transaction of r rolls back and r ends at label l.
RollBack(r, l) ==
    /\ Goto(r, l)
    /\ Release(r)
    /\ UNCHANGED <<tableVars, requestVars, decided, seen, writes, done, spent, ever, changed>>

\* Core denies: its audit is written in another transaction, or that fails and
\* so does r.  A second denial is raised by confirm.
Deny(r) == RollBack(r, "failed") \/ (~decided[r] /\ RollBack(r, "denied"))

-------------------------------------------------------------------------------
(* The decision: issue_handle, then authorize, or twice                    *)
(* authorize_confirmation_request: once for the route, once by confirm.    *)

\* A request with token c comes; _authorized begins its transaction.
Begin(r) ==
    /\ pc[r] = "idle"
    /\ Goto(r, "issue")
    /\ \E c \in {d \in Confirmation : status[d] # "unissued"} \cup {None} :
          token' = [token EXCEPT ![r] = c]
    /\ UNCHANGED <<tableVars, lock, op, actor, target, decided, seen, writes, done, spent,
                   changed>>
    /\ Note(r)

IssueHandle(r) ==
    /\ actor[r] \in active
    /\ Reads(r, "issue", "resolve")
    /\ UNCHANGED <<decided, seen>>

\* ExecutionHandleIssuer.issue: an active Core principal is required.
IssueRefused(r) ==
    /\ pc[r] = "issue" /\ actor[r] \notin active
    /\ RollBack(r, "failed")

\* The handle is of this very transaction; its principal is read again.
ResolveHandle(r) ==
    /\ actor[r] \in active
    /\ Reads(r, "resolve", "policy")
    /\ UNCHANGED <<decided, seen>>

\* PolicyService.refresh, evaluate.
RefreshPolicy(r) ==
    /\ policy # "deny"
    /\ Reads(r, "policy", "active")
    /\ seen' = [seen EXCEPT ![r] = policy]
    /\ UNCHANGED decided

\* _check_unchecked reads the principal,
CheckActive(r) ==
    /\ actor[r] \in active
    /\ Reads(r, "active", "direct")
    /\ UNCHANGED <<decided, seen>>

Carried(r, t) == \E q \in Request \cup {None} : <<t, q, actor[r]>> \in grants

\* A change under a rule that demands a confirmation.
Needs(r) == seen[r] = "confirm" /\ op[r].kind # "confirm"

\* The capability is found: r goes on to its confirmation, its second decision
\* or its body.
Permitted(r, from) ==
    /\ Reads(r, from, CASE Needs(r) -> "token"
                        [] op[r].kind = "confirm" /\ ~decided[r] -> "resolve"
                        [] OTHER -> "body")
    /\ decided' = [decided EXCEPT ![r] = TRUE]
    /\ UNCHANGED seen

\* the direct grants,
CheckDirect(r) ==
    \/ Carried(r, "direct") /\ Permitted(r, "direct")
    \/ /\ ~Carried(r, "direct")
       /\ Reads(r, "direct", "role")
       /\ UNCHANGED <<decided, seen>>

\* Slip: any role will do.
CheckAnyRole(r) == Permitted(r, "role")

\* and the roles assigned.
CheckRole(r) == Carried(r, "role") /\ Permitted(r, "role")

\* The checks that deny.
CheckDenies(r) ==
    /\ \/ pc[r] = "resolve" /\ actor[r] \notin active
       \/ pc[r] = "policy" /\ policy = "deny"
       \/ pc[r] = "active" /\ actor[r] \notin active
       \/ pc[r] = "role" /\ ~Carried(r, "role")
    /\ Deny(r)

\* The facts of r's handle a confirmation is bound to.
Bound(r) == <<actor[r], target[r], op[r].table>>

\* Slip: a confirmation is not bound to its target.
UsableByActor(r) ==
    /\ token[r] # None
    /\ status[token[r]] = "active"
    /\ boundTo[token[r]][1] = actor[r]

\* _confirmation_record: active, and bound to what r's handle was issued for.
Usable(r) ==
    /\ token[r] # None
    /\ status[token[r]] = "active"
    /\ boundTo[token[r]] = Bound(r)

ReadConfirmation(r) ==
    /\ Usable(r)
    /\ Reads(r, "token", "consume")
    /\ UNCHANGED <<decided, seen>>

ConfirmationRequired(r) ==
    /\ pc[r] = "token" /\ ~Usable(r)
    /\ RollBack(r, "denied") \/ RollBack(r, "failed")

\* Slip: the row is read without its lock.
ConsumeUnlocked(r) ==
    /\ pc[r] = "consume"
    /\ Usable(r)
    /\ lock' = [lock EXCEPT ![token[r]] = r]
    /\ Goto(r, "body")
    /\ UNCHANGED <<tableVars, requestVars, decided, seen, writes, done, spent, ever, changed>>

\* consume_confirmation gets the row's lock and still finds it active.
Consume(r) ==
    /\ pc[r] = "consume"
    /\ lock[token[r]] = None
    /\ Usable(r)
    /\ lock' = [lock EXCEPT ![token[r]] = r]
    /\ Goto(r, "body")
    /\ UNCHANGED <<tableVars, requestVars, decided, seen, writes, done, spent, ever, changed>>

\* It was consumed by the transaction r waited for.
ConfirmationConsumed(r) ==
    /\ pc[r] = "consume"
    /\ lock[token[r]] = None
    /\ ~Usable(r)
    /\ RollBack(r, "denied") \/ RollBack(r, "failed")

-------------------------------------------------------------------------------
(* The body of the route and the end of its transaction.                   *)

\* grant_capability and assign_role require an active principal.
Body(r) ==
    /\ op[r].kind = "add" => target[r] \in active
    /\ Reads(r, "body", "rows")
    /\ UNCHANGED <<decided, seen>>

BodyRefused(r) ==
    /\ pc[r] = "body" /\ op[r].kind = "add" /\ target[r] \notin active
    /\ RollBack(r, "failed")

RowsOf(r) == {row \in grants : row[1] = op[r].table /\ row[3] = target[r]}

\* They add no row next to an active one; revoke_capability and revoke_role
\* deactivate the rows they find; confirm prepares a confirmation.
ChangeRows(r) ==
    /\ pc[r] = "rows"
    /\ writes' = [writes EXCEPT ![r] =
          CASE op[r].kind = "remove" -> RowsOf(r)
            [] op[r].kind = "add" /\ RowsOf(r) = {} -> {<<op[r].table, r, target[r]>>}
            [] OTHER -> {}]
    /\ Goto(r, "commit")
    /\ UNCHANGED <<tableVars, lock, requestVars, decided, seen, done, spent, ever, changed>>

\* The body or the commit raises, or the process dies.
Fail(r) ==
    /\ pc[r] \in Running
    /\ RollBack(r, "failed")

\* A change of grants commits, with the confirmation it consumed.
CommitChange(r) ==
    /\ pc[r] = "commit" /\ op[r].kind # "confirm"
    /\ grants' = IF op[r].kind = "add" THEN grants \cup writes[r] ELSE grants \ writes[r]
    /\ status' = IF Needs(r) THEN [status EXCEPT ![token[r]] = "used"] ELSE status
    /\ spent' = IF Needs(r) THEN [spent EXCEPT ![r] = token[r]] ELSE spent
    /\ UNCHANGED <<active, policy, boundTo>>

\* A confirmation is issued, for the facts of the handle.
CommitConfirmation(r) ==
    /\ pc[r] = "commit" /\ op[r].kind = "confirm"
    /\ \E c \in Confirmation :
          /\ status[c] = "unissued"
          /\ status' = [status EXCEPT ![c] = "active"]
          /\ boundTo' = [boundTo EXCEPT ![c] = Bound(r)]
    /\ UNCHANGED <<active, grants, policy, spent>>

\* The commit succeeds; its answer may be lost.
Commit(r) ==
    /\ CommitChange(r) \/ CommitConfirmation(r)
    /\ Release(r)
    /\ Goto(r, "committed") \/ Goto(r, "failed")
    /\ done' = done \cup {r}
    /\ UNCHANGED <<requestVars, decided, seen, writes, changed>>
    /\ Note(r)

-------------------------------------------------------------------------------
\* AuthorizationManagementService, called outside of a request: a principal is
\* switched, a rule registered, a grant made or withdrawn.
Administer(n) ==
    /\ n \notin changed
    /\ changed' = changed \cup {n}
    /\ \/ /\ \E p \in Principal : active' \in {active \ {p}, active \cup {p}}
          /\ UNCHANGED <<grants, policy>>
       \/ /\ policy' \in Rule
          /\ UNCHANGED <<active, grants>>
       \/ /\ \E t \in Table, p \in Principal :
                \/ p \in active /\ grants' = grants \cup {<<t, None, p>>}
                \/ grants' = {row \in grants : row[1] # t \/ row[3] # p}
          /\ UNCHANGED <<active, policy>>
    /\ UNCHANGED <<status, boundTo, lock, pc, requestVars, decided, seen, writes, done, spent>>
    /\ Note(None)

Decide(r) ==
    \/ IssueHandle(r) \/ IssueRefused(r) \/ ResolveHandle(r) \/ RefreshPolicy(r)
    \/ CheckActive(r) \/ CheckDirect(r) \/ CheckRole(r) \/ CheckDenies(r)
    \/ ReadConfirmation(r) \/ ConfirmationRequired(r)
    \/ Consume(r) \/ ConfirmationConsumed(r)

Work(r) == Decide(r) \/ Body(r) \/ BodyRefused(r) \/ ChangeRows(r) \/ Commit(r)

Next ==
    \/ \E r \in Request : Begin(r) \/ Work(r) \/ Fail(r)
    \/ \E n \in Change : Administer(n)

Spec == Init /\ [][Next]_vars

\* A thread serves each request as long as nothing it waits for stops it.
FairSpec == Spec /\ \A r \in Request : WF_vars(Work(r))
-------------------------------------------------------------------------------
(* Properties.                                                             *)

\* Whoever consumed a confirmation keeps its row until the commit, and it stays
\* active and bound to that request's facts until then.
RowHeld ==
    \A r \in Request : pc[r] \in {"body", "rows", "commit"} /\ Needs(r) =>
        /\ token[r] # None
        /\ lock[token[r]] = r
        /\ Usable(r)

AInv == TypeOK /\ RowHeld

\* contract.md 38.12: a confirmation is consumed at most once, however many
\* requests race for it.
UsedOnce ==
    \A q, r \in done : spent[q] = spent[r] /\ spent[r] # None => q = r

\* contract.md 38.11: the decision and the change share a transaction: a
\* confirmation is used exactly when the change it confirmed was committed.
SpentWithEffect ==
    \A c \in Confirmation : status[c] = "used" <=> \E r \in done : spent[r] = c

\* A change that was made while the rule demanded a confirmation all the time
\* has spent one that was issued to its actor for its target and action.
ConfirmedEffects ==
    \A r \in done : op[r].kind # "confirm" =>
        /\ spent[r] = None => "lenient" \in ever[r]
        /\ spent[r] # None => boundTo[spent[r]] = Bound(r)

\* Whoever made a change was active and was granted the capability at moments of
\* the request itself, not only before it: a revocation that committed before a
\* request began stops it.
EverAuthorized ==
    \A r \in done : {"active", "granted"} \subseteq ever[r]

\* Every request ends that has begun: it never waits for a confirmation's row
\* for ever, whatever becomes of the request that holds it.
RequestsEnd == \A r \in Request : pc[r] = "issue" ~> pc[r] \in Ended

\* The confirmations behave as OneTimeConfirmation promises.
Abstract == INSTANCE OneTimeConfirmation
ImplementsOneTimeConfirmation == Abstract!Spec
===============================================================================
