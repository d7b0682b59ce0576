---------------------------- MODULE Administration -----------------------------
(***************************************************************************)
(* Changes to principals, identities, grants and role assignments through  *)
(* AuthorizationManagementService: of the console, the command line and    *)
(* whatever else holds one.  A change reads before its transaction begins, *)
(* or in a transaction that others do not wait for, decides on what it     *)
(* read, and writes with its audit record.  Reads see what is committed at *)
(* that moment; an ORM object writes back the columns that differ from     *)
(* what it loaded.  One principal, one identity, and one capability, which *)
(* one role carries.  Principals and rows are never deleted.               *)
(***************************************************************************)
EXTENDS Naturals, Scopes

CONSTANTS
    Change,     \* changes, each made once (bounds a run)
    GrantScope, \* the scopes grants and assignments are made in
    Key,        \* keys of a principal's metadata
    Calls       \* who calls what: all combinations, or some (bounds a run)

ASSUME ScopeAssumption == GrantScope \subseteq Scope /\ \A s \in GrantScope : ~IsEmpty(s)
ASSUME NoneAssumption == None \notin Change \cup Key

VARIABLES
    principal, \* the committed row of the principal
    identity,  \* the committed row of the identity
    external,  \* the identity comes without a principal, as it has to on every
               \* channel but the console's own
    revoked,   \* the rows (named by the changes that made them) made inactive
    lock,      \* the link that holds the row lock of the identity, or None
    call,      \* call[c]: what the change does
    pc,        \* pc[c]: where the change is, or how it ended
    copy,      \* copy[c]: the principal as the change first read it
    loaded,    \* loaded[c]: the principal as its transaction loaded it
    bound,     \* bound[c]: the identity as its transaction loaded it
    found,     \* found[c]: the rows a revocation named in its audit
    now,       \* how many changes were committed
    read,      \* read[c]: now, when the change first read
    at         \* at[c]: the position of the change among those committed, or 0

rowVars == <<principal, identity, external, revoked>>
ownVars == <<copy, loaded, bound, found, read>>
vars == <<principal, identity, external, revoked, lock, call, pc, copy, loaded,
          bound, found, now, read, at>>

\* A metadata value is the change that wrote it.  NoRow: there is no such row.
Metadata == [Key -> Change \cup {None}]
NoRow == [row |-> FALSE, active |-> FALSE, metadata |-> [k \in Key |-> None]]
PrincipalRow == [row : BOOLEAN, active : BOOLEAN, metadata : Metadata]
Fresh == [row |-> TRUE, active |-> TRUE, metadata |-> [k \in Key |-> None]]

\* An identity is linked by the change that made it so, and trusted and active
\* as long as it is linked.
NoIdentity == [row |-> FALSE, link |-> None]
IdentityRow == [row : BOOLEAN, link : Change \cup {None}]

OnPrincipal == {"create", "activate", "deactivate"}
Giving == {"grant", "assign"}
Taking == {"revoke", "unassign"}

\* A preference of the console, which asks for no capability; a checkbox of it,
\* whose state says which call it makes; and whatever else management is asked.
Preference == [kind : {"prefer"}, scope : {EmptyScope}, key : Key]
Checkbox == [kind : Giving \cup Taking, scope : GrantScope, key : {None}]
Call ==
    [kind : OnPrincipal \cup {"register", "link"}, scope : {EmptyScope}, key : {None}]
        \cup Preference \cup Checkbox

ASSUME CallsAssumption == Calls \subseteq [Change -> Call]

Kind(c) == call[c].kind
Table(c) == IF Kind(c) \in {"grant", "revoke"} THEN "direct" ELSE "role"

\* The change writes the row of the principal.
OnRow(c) == Kind(c) \in OnPrincipal \cup {"prefer"}

\* Two changes are about rows of the same principal, table and exact scope.
Alike(c, d) == Table(c) = Table(d) /\ call[c].scope = call[d].scope

Running == {"rows", "identity", "load", "load_identity", "commit"}
Ended == {"kept", "refused", "failed", "done"}

TypeOK ==
    /\ principal \in PrincipalRow
    /\ identity \in IdentityRow
    /\ external \in BOOLEAN
    /\ revoked \in SUBSET Change
    /\ lock \in Change \cup {None}
    /\ call \in [Change -> Call]
    /\ pc \in [Change -> {"idle"} \cup Running \cup Ended]
    /\ copy \in [Change -> PrincipalRow]
    /\ loaded \in [Change -> PrincipalRow]
    /\ bound \in [Change -> IdentityRow]
    /\ found \in [Change -> SUBSET Change]
    /\ now \in Nat
    /\ read \in [Change -> Nat]
    /\ at \in [Change -> Nat]

Init ==
    /\ principal \in {NoRow, Fresh}
    /\ identity = NoIdentity
    /\ external \in BOOLEAN
    /\ revoked = {}
    /\ lock = None
    /\ call \in Calls
    /\ pc = [c \in Change |-> "idle"]
    /\ copy = [c \in Change |-> NoRow]
    /\ loaded = [c \in Change |-> NoRow]
    /\ bound = [c \in Change |-> NoIdentity]
    /\ found = [c \in Change |-> {}]
    /\ now = 0
    /\ read = [c \in Change |-> 0]
    /\ at = [c \in Change |-> 0]

Goto(c, l) == pc' = [pc EXCEPT ![c] = l]
Begins(c) == pc[c] = "idle" /\ read' = [read EXCEPT ![c] = now]

\* The rows of grants and assignments that are committed.
Made == {c \in Change : Kind(c) \in Giving /\ at[c] > 0}
ActiveRows == Made \ revoked

-------------------------------------------------------------------------------
(* The reads a change decides on.                                          *)

\* An existing principal is returned as it is.
ReadForCreate(c) ==
    /\ Kind(c) = "create" /\ Begins(c)
    /\ copy' = [copy EXCEPT ![c] = principal]
    /\ Goto(c, IF principal.row THEN "kept" ELSE "load")
    /\ UNCHANGED <<rowVars, lock, call, loaded, bound, found, now, at>>

\* set_principal_active and set_principal_metadata keep what they read.
ReadForUpdate(c) ==
    /\ Kind(c) \in {"activate", "deactivate", "prefer"} /\ Begins(c)
    /\ copy' = [copy EXCEPT ![c] = principal]
    /\ Goto(c, IF principal.row THEN "load" ELSE "refused")
    /\ UNCHANGED <<rowVars, lock, call, loaded, bound, found, now, at>>

\* Grants, assignments and links are for an active principal.
ReadActive(c) ==
    /\ Kind(c) \in Giving \cup {"link"} /\ Begins(c)
    /\ Goto(c, IF ~principal.active THEN "refused"
               ELSE IF Kind(c) = "link" THEN "identity" ELSE "rows")
    /\ UNCHANGED <<rowVars, lock, call, copy, loaded, bound, found, now, at>>

\* Slip: a row that was made inactive passes for a grant.
ReadAllRows(c) ==
    /\ pc[c] = "rows"
    /\ Goto(c, IF \E g \in Made : Alike(g, c) THEN "kept" ELSE "commit")
    /\ UNCHANGED <<rowVars, lock, call, ownVars, now, at>>

\* grants_for, assignments_for: an equal one is returned instead.
ReadRows(c) ==
    /\ pc[c] = "rows"
    /\ Goto(c, IF \E g \in ActiveRows : Alike(g, c) THEN "kept" ELSE "commit")
    /\ UNCHANGED <<rowVars, lock, call, ownVars, now, at>>

\* create_identity: an identity that comes linked is to a principal that is
\* active.
ReadIdentity(c) ==
    /\ Kind(c) = "register" /\ Begins(c)
    /\ Goto(c, IF identity.row THEN "kept"
               ELSE IF ~external /\ ~principal.active THEN "refused" ELSE "load_identity")
    /\ UNCHANGED <<rowVars, lock, call, copy, loaded, bound, found, now, at>>

-------------------------------------------------------------------------------
(* The transaction.                                                        *)

LoadPrincipal(c) ==
    /\ pc[c] = "load"
    /\ loaded' = [loaded EXCEPT ![c] = principal]
    /\ Goto(c, "commit")
    /\ UNCHANGED <<rowVars, lock, call, copy, bound, found, now, read, at>>

\* add_identity looks for the row it is about to write.
LoadIdentity(c) ==
    /\ pc[c] = "load_identity"
    /\ bound' = [bound EXCEPT ![c] = identity]
    /\ Goto(c, "commit")
    /\ UNCHANGED <<rowVars, lock, call, copy, loaded, found, now, read, at>>

\* Slip: the identity is read without its lock.
LinkUnlocked(c) ==
    /\ pc[c] = "identity"
    /\ Goto(c, IF identity.row /\ identity.link = None THEN "commit" ELSE "refused")
    /\ UNCHANGED <<rowVars, lock, call, ownVars, now, at>>

\* link_identity_once: SELECT FOR UPDATE waits for the holder of the row.
LockIdentity(c) ==
    /\ pc[c] = "identity" /\ lock = None
    /\ \/ /\ identity.row /\ identity.link = None
          /\ lock' = c
          /\ Goto(c, "commit")
       \/ /\ ~(identity.row /\ identity.link = None)
          /\ Goto(c, "refused")
          /\ UNCHANGED lock
    /\ UNCHANGED <<rowVars, call, ownVars, now, at>>

\* Slip: of equal rows, a revocation finds one.
SelectFirst(c) ==
    /\ Kind(c) \in Taking /\ Begins(c)
    /\ LET rows == {g \in ActiveRows : Alike(g, c)}
       IN  found' = [found EXCEPT ![c] = IF rows = {} THEN {} ELSE {CHOOSE g \in rows : TRUE}]
    /\ Goto(c, "commit")
    /\ UNCHANGED <<rowVars, lock, call, copy, loaded, bound, now, at>>

\* revoke_grant, revoke_assignment: every active row of exactly this scope.
SelectRows(c) ==
    /\ Kind(c) \in Taking /\ Begins(c)
    /\ found' = [found EXCEPT ![c] = {g \in ActiveRows : Alike(g, c)}]
    /\ Goto(c, "commit")
    /\ UNCHANGED <<rowVars, lock, call, copy, loaded, bound, now, at>>

NewActive(c) ==
    Kind(c) \in {"create", "activate"} \/ (Kind(c) = "prefer" /\ copy[c].active)

\* The principal the change wants: what it read with its own change in it, so
\* the row is there.
Intended(c) ==
    [row |-> TRUE, active |-> NewActive(c),
     metadata |-> [k \in Key |->
        IF Kind(c) = "prefer" /\ k = call[c].key THEN c
        ELSE IF Kind(c) = "create" THEN None ELSE copy[c].metadata[k]]]

\* Slip: every column is written.
ColumnAlways(new, old, current) == new

\* A column is written if it differs from what the transaction loaded.
Column(new, old, current) == IF new = old THEN current ELSE new

Written(c) ==
    IF ~loaded[c].row THEN Intended(c)
    ELSE [row |-> TRUE,
          active |-> Column(Intended(c).active, loaded[c].active, principal.active),
          metadata |-> Column(Intended(c).metadata, loaded[c].metadata, principal.metadata)]

\* The change is committed with its audit record.
Record(c) ==
    /\ pc[c] = "commit"
    /\ Goto(c, "done")
    /\ now' = now + 1
    /\ at' = [at EXCEPT ![c] = now + 1]

\* An insertion that meets the row of another fails.
CommitPrincipal(c) ==
    /\ OnRow(c)
    /\ Record(c)
    /\ principal.row => loaded[c].row
    /\ principal' = Written(c)
    /\ UNCHANGED <<identity, external, revoked, lock, call, ownVars>>

\* Registered over a row that its transaction found, an external identity loses
\* the link it was loaded with; over one that came later, the insertion fails.
\* The update waits for a link that holds the row.
CommitIdentity(c) ==
    /\ Kind(c) = "register"
    /\ Record(c)
    /\ lock = None /\ (identity.row => bound[c].row)
    /\ LET link == IF external THEN None ELSE c
       IN  identity' = [row |-> TRUE, link |-> Column(link, bound[c].link, identity.link)]
    /\ UNCHANGED <<principal, external, revoked, lock, call, ownVars>>

CommitLink(c) ==
    /\ Kind(c) = "link"
    /\ Record(c)
    /\ identity' = [identity EXCEPT !.link = c]
    /\ lock' = None
    /\ UNCHANGED <<principal, external, revoked, call, ownVars>>

CommitRow(c) ==
    /\ Kind(c) \in Giving
    /\ Record(c)
    /\ UNCHANGED <<rowVars, lock, call, ownVars>>

CommitRevocation(c) ==
    /\ Kind(c) \in Taking /\ found[c] # {}
    /\ Record(c)
    /\ revoked' = revoked \cup found[c]
    /\ UNCHANGED <<principal, identity, external, lock, call, ownVars>>

\* A revocation that found nothing writes nothing, and no audit record.
CommitNothing(c) ==
    /\ Kind(c) \in Taking /\ found[c] = {}
    /\ pc[c] = "commit"
    /\ Goto(c, "done")
    /\ UNCHANGED <<rowVars, lock, call, ownVars, now, at>>

\* A statement or the commit fails, and the transaction rolls back.
Fail(c) ==
    /\ pc[c] \in Running
    /\ Goto(c, "failed")
    /\ lock' = IF lock = c THEN None ELSE lock
    /\ UNCHANGED <<rowVars, call, ownVars, now, at>>

Step(c) ==
    \/ ReadForCreate(c) \/ ReadForUpdate(c) \/ ReadActive(c) \/ ReadRows(c)
    \/ ReadIdentity(c) \/ LoadPrincipal(c) \/ LoadIdentity(c) \/ LockIdentity(c)
    \/ SelectRows(c) \/ CommitPrincipal(c) \/ CommitIdentity(c) \/ CommitLink(c)
    \/ CommitRow(c) \/ CommitRevocation(c) \/ CommitNothing(c) \/ Fail(c)

Finished == (\A c \in Change : pc[c] \in Ended) /\ UNCHANGED vars

Next == (\E c \in Change : Step(c)) \/ Finished

Spec == Init /\ [][Next]_vars

-------------------------------------------------------------------------------
(* The three evaluators of a principal's permissions.                      *)

Direct(s) == \E g \in ActiveRows : Table(g) = "direct" /\ Covers(call[g].scope, s)
Assigned(s) == \E g \in ActiveRows : Table(g) = "role" /\ Covers(call[g].scope, s)

\* _check_unchecked: what a decision rests on.
Check(s) == principal.active /\ ~IsEmpty(s) /\ (Direct(s) \/ Assigned(s))

\* Slip: the permissions of a principal outlive its deactivation.
EffectiveOfAnyone(s) ==
    IF ~principal.row \/ IsEmpty(s) THEN {}
    ELSE {t \in {"direct", "role"} : IF t = "direct" THEN Direct(s) ELSE Assigned(s)}

\* effective_permissions: by what the capability is held.
Effective(s) ==
    IF ~principal.active \/ IsEmpty(s) THEN {}
    ELSE {t \in {"direct", "role"} : IF t = "direct" THEN Direct(s) ELSE Assigned(s)}

\* grant_state: what the console shows of a scope that is not empty.
GrantState(s) ==
    [direct |-> Direct(s),
     assigned |-> Assigned(s),
     effective |-> principal.active /\ (Direct(s) \/ Assigned(s))]

\* The scope a page reports on: of what the query names, and of no principal.
Reported(organization, workplace) ==
    [organization |-> organization, workplace |-> workplace, principal |-> None]

\* Two pages of the console on one principal, once the operator is authorized
\* in a scope of his own: the permissions, of no scope if the query names none,
\* and the checkboxes, which a query has to name a scope for.
PermissionsPage(s) ==
    IF ~principal.row THEN [status |-> "principal_unknown", held |-> FALSE]
    ELSE [status |-> "shown", held |-> Effective(s) # {}]

GrantsPage(s) ==
    IF IsEmpty(s) THEN [status |-> "scope_invalid", held |-> FALSE]
    ELSE IF ~principal.row THEN [status |-> "principal_unknown", held |-> FALSE]
    ELSE [status |-> "shown", held |-> GrantState(s).effective]

-------------------------------------------------------------------------------
(* Properties.                                                             *)

Committed(c) == at[c] > 0

\* Changes c and d of the principal overlapped.
Overlap(c, d) == OnRow(d) /\ read[d] < at[c] /\ read[c] < at[d]

\* Change d inserts the row, or wants another activity, other metadata, than its
\* transaction loaded.
WroteActive(d) == ~loaded[d].row \/ Intended(d).active # loaded[d].active
WroteMetadata(d) == ~loaded[d].row \/ Intended(d).metadata # loaded[d].metadata

\* The row p of the principal, as of time t, shows what was committed until
\* then, unless a later change was of the same thing, or one that overlapped
\* had found that column other than it wanted it.
Shows(p, t) ==
    \A c \in Change : Committed(c) /\ at[c] <= t =>
        /\ Kind(c) = "prefer" =>
              \/ p.metadata[call[c].key] = c
              \/ \E d \in Change :
                    /\ at[c] < at[d] /\ at[d] <= t
                    /\ \/ Overlap(c, d) /\ WroteMetadata(d)
                       \/ Kind(d) = "prefer" /\ call[d].key = call[c].key
        /\ Kind(c) \in {"activate", "deactivate"} =>
              \/ p.active = (Kind(c) = "activate")
              \/ \E d \in Change :
                    /\ d # c /\ Committed(d) /\ at[d] <= t
                    /\ \/ Overlap(c, d) /\ WroteActive(d)
                       \/ at[c] < at[d] /\ Kind(d) \in {"activate", "deactivate"}

\* What is known of changes on their way.
OnTheWay ==
    \A c \in Change :
        /\ at[c] <= now /\ read[c] <= now
        /\ Committed(c) => pc[c] = "done" /\ read[c] < at[c]
        /\ pc[c] = "idle" => read[c] = 0
        /\ pc[c] = "rows" => Kind(c) \in Giving
        /\ pc[c] = "load" => OnRow(c)
        /\ pc[c] = "identity" => Kind(c) = "link"
        /\ pc[c] = "load_identity" => Kind(c) = "register"
        /\ pc[c] = "commit" /\ OnRow(c) /\ loaded[c].row =>
              principal.row
        /\ pc[c] = "commit" /\ Kind(c) = "link" <=> lock = c

\* The copy a change is made from is of the principal when it was read.
CopiesShow ==
    \A c \in Change :
        pc[c] \in {"load", "commit"} /\ OnRow(c) /\ Kind(c) # "create" =>
            copy[c].row /\ Shows(copy[c], read[c])

\* The type invariant, and what the properties of changes rest on.
AdInv == TypeOK /\ OnTheWay /\ CopiesShow

\* After a revocation no row of its principal, table and exact scope is active
\* but one committed since the revocation looked: two administrators who gave
\* the same grant at once, which no unique key prevents, leave no row behind.
RevokedMeansRevoked ==
    \A v, g \in Change :
        /\ Kind(v) \in Taking /\ pc[v] = "done"
        /\ g \in ActiveRows /\ Alike(g, v)
        => at[g] > read[v]

\* Whoever was answered that a grant or an assignment exists may rely on it,
\* unless it was revoked since the change first looked.
GrantStands ==
    \A g \in Change :
        /\ Kind(g) \in Giving /\ pc[g] \in {"done", "kept"}
        => \/ principal.active => Check(call[g].scope)
           \/ \E v \in Change : Kind(v) \in Taking /\ Alike(v, g) /\ at[v] > read[g]

\* What was committed about the principal is lost only to a later change of
\* the same thing, or to one that had read the principal before it and whose
\* transaction found the column other than it then wanted it: a change that is
\* between its statements and its commit takes nothing back by the way.
LostOnlyToOverlap == Shows(principal, now)

\* The transaction of registration r found the identity linked, and takes that
\* link away.
Unlinks(r) == Kind(r) = "register" /\ external /\ bound[r].link # None

\* An identity is linked once: a second link gets through only if a registration
\* that had not seen the identity overwrote it, having found it linked.  One that
\* is already between its statements and its commit takes no link away.
LinkedOnce ==
    \A a, b \in Change :
        /\ Kind(a) = "link" /\ Kind(b) = "link"
        /\ Committed(a) /\ at[a] < at[b]
        => \E r \in Change : /\ Unlinks(r)
                             /\ read[r] < at[a] /\ at[a] < at[r] /\ at[r] < at[b]

\* The decision, the permissions and the console agree on every scope, and on
\* whatever organization and workplace a page is asked for: it shows what the
\* principal may do there, and refuses where there is nothing to be shown.
ViewsAgree ==
    /\ \A s \in GrantScope \cup {EmptyScope} :
          /\ Check(s) <=> Effective(s) # {}
          /\ ~IsEmpty(s) => (GrantState(s).effective <=> Check(s))
    /\ \A organization \in Organization \cup {None}, workplace \in Workplace \cup {None} :
          LET s == Reported(organization, workplace)
          IN  /\ PermissionsPage(s).held <=> Check(s)
              /\ GrantsPage(s).held <=> Check(s)

\* The docstring of set_principal_metadata: it writes one metadata entry, and
\* nothing else.  So it leaves the principal as active as it finds it.
PreferenceAloneIsWritten ==
    [][\A c \in Change : Kind(c) = "prefer" /\ at'[c] # at[c]
                             => principal'.active = principal.active]_vars
===============================================================================
