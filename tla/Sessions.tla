------------------------------- MODULE Sessions -------------------------------
(***************************************************************************)
(* Browser sessions of the web API (WebAppService) and the execution       *)
(* handles behind them.  A session is a record in the memory of the web    *)
(* process; its handle is a row of the database, which outlives the        *)
(* process.  Requests run in threads: each reads the record under the lock *)
(* and goes on without it, while others log out, time out and discard, and *)
(* while administrators deactivate the operator.  Every read of the        *)
(* database sees what is committed at that moment.  The decision of a      *)
(* request is module Authorization's; here it is the reads of the          *)
(* principal and the handle that it makes.  One operator, as configured.   *)
(***************************************************************************)
EXTENDS Naturals, FiniteSets

CONSTANTS
    Session, \* session ids, each given out once (bounds a run)
    Request  \* requests, each used once (bounds a run)

ASSUME HandleAssumption == Session \cap Request = {}

\* A session's handle and a request's own handle, named by whom they serve.
Handle == Session \cup Request

VARIABLES
    active,   \* the operator's principal is active
    web,      \* web[s]: the record in memory: none, live or tombstone
    login,    \* login[s]: how far the login that makes s is
    handle,   \* handle[h]: the committed row: none, live or revoked
    stale,    \* the handles past their expires_at
    over,     \* the sessions past their expires_at
    kind,     \* kind[r]: info, work (one transaction), plugin (two), logout
    cookie,   \* cookie[r]: the session id the request carries
    pc,       \* pc[r]: where the request is, or how it was answered
    early,    \* the requests whose session was honoured when they came
    noticed,  \* the requests since whose begin the operator was active
    out,      \* the sessions logged out of this process
    replay,   \* the requests that came after their session was logged out
    troubled  \* the sessions whose operator was inactive, or lost in a restart

sessionVars == <<web, login, over>>
ghostVars == <<early, noticed, out, replay, troubled>>
vars == <<active, web, login, handle, stale, over, kind, cookie, pc, early,
          noticed, out, replay, troubled>>

Kind == {"info", "work", "plugin", "logout"}
Pending == {"lookup", "expiry", "handle", "mark", "principal", "discard",
            "discard_expired", "issue", "decide", "plugin", "plugin_principal",
            "undo", "revoke"}
Refused == {"unknown", "revoked", "expired", "denied", "failed"}
Ended == Refused \cup {"served"}

TypeOK ==
    /\ active \in BOOLEAN
    /\ web \in [Session -> {"none", "live", "tombstone"}]
    /\ login \in [Session -> {"new", "checked", "issued", "in", "refused"}]
    /\ handle \in [Handle -> {"none", "live", "revoked"}]
    /\ stale \in SUBSET Handle
    /\ over \in SUBSET Session
    /\ kind \in [Request -> Kind]
    /\ cookie \in [Request -> Session]
    /\ pc \in [Request -> {"idle"} \cup Pending \cup Ended]
    /\ early \in SUBSET Request
    /\ noticed \in SUBSET Request
    /\ out \in SUBSET Session
    /\ replay \in SUBSET Request
    /\ troubled \in SUBSET Session

Init ==
    /\ active = TRUE
    /\ web = [s \in Session |-> "none"]
    /\ login = [s \in Session |-> "new"]
    /\ handle = [h \in Handle |-> "none"]
    /\ stale = {}
    /\ over = {}
    /\ kind \in [Request -> Kind]
    /\ cookie \in [Request -> Session]
    /\ pc = [r \in Request |-> "idle"]
    /\ early = {}
    /\ noticed = {}
    /\ out = {}
    /\ replay = {}
    /\ troubled = {}

Goto(r, l) == pc' = [pc EXCEPT ![r] = l]

\* The handle resolves: the row is neither revoked nor past its time.
Usable(h) == handle[h] = "live" /\ h \notin stale

\* A request that comes now finds the session in force.
Honoured(s) == web[s] = "live" /\ Usable(s)

InProgress == {r \in Request : pc[r] \in Pending}

-------------------------------------------------------------------------------
(* Logging in: three steps of one request, the record last.               *)

\* The operator's principal is read before anything is made.
CheckOperator(s) ==
    /\ login[s] = "new"
    /\ login' = [login EXCEPT ![s] = IF active THEN "checked" ELSE "refused"]
    /\ UNCHANGED <<active, web, handle, stale, over, kind, cookie, pc, ghostVars>>

\* The handle is issued and committed in a unit of work of its own, which
\* reads the principal again; it may fail.
IssueSessionHandle(s) ==
    /\ login[s] = "checked"
    /\ \/ /\ active
          /\ login' = [login EXCEPT ![s] = "issued"]
          /\ handle' = [handle EXCEPT ![s] = "live"]
       \/ /\ login' = [login EXCEPT ![s] = "refused"]
          /\ UNCHANGED handle
    /\ UNCHANGED <<active, web, stale, over, kind, cookie, pc, ghostVars>>

StoreSession(s) ==
    /\ login[s] = "issued"
    /\ login' = [login EXCEPT ![s] = "in"]
    /\ web' = [web EXCEPT ![s] = "live"]
    /\ troubled' = IF active THEN troubled ELSE troubled \cup {s}
    /\ UNCHANGED <<active, handle, stale, over, kind, cookie, pc, early, noticed,
                   out, replay>>

Login(s) == CheckOperator(s) \/ IssueSessionHandle(s) \/ StoreSession(s)

-------------------------------------------------------------------------------
(* A request.                                                              *)

\* A client names a session once it was given its id.
Arrive(r) ==
    /\ pc[r] = "idle"
    /\ login[cookie[r]] = "in"
    /\ Goto(r, "lookup")
    /\ early' = IF Honoured(cookie[r]) THEN early \cup {r} ELSE early
    /\ noticed' = IF active THEN noticed \cup {r} ELSE noticed
    /\ replay' = IF cookie[r] \in out THEN replay \cup {r} ELSE replay
    /\ UNCHANGED <<active, sessionVars, handle, stale, kind, cookie, out, troubled>>

\* Slip: a request waits for the logout of its session to end.
LookupWaits(r) ==
    /\ pc[r] = "lookup" /\ kind[r] # "logout"
    /\ web[cookie[r]] # "tombstone"
    /\ Goto(r, IF web[cookie[r]] = "none" THEN "unknown" ELSE "expiry")
    /\ UNCHANGED <<active, sessionVars, handle, stale, kind, cookie, ghostVars>>

\* The record is read under the lock, and used after it.
Lookup(r) ==
    /\ pc[r] = "lookup" /\ kind[r] # "logout"
    /\ Goto(r, CASE web[cookie[r]] = "none" -> "unknown"
                 [] web[cookie[r]] = "tombstone" -> "revoked"
                 [] OTHER -> "expiry")
    /\ UNCHANGED <<active, sessionVars, handle, stale, kind, cookie, ghostVars>>

CheckExpiry(r) ==
    /\ pc[r] = "expiry"
    /\ Goto(r, IF cookie[r] \in over THEN "discard_expired" ELSE "handle")
    /\ UNCHANGED <<active, sessionVars, handle, stale, kind, cookie, ghostVars>>

\* Slip: a handle is good until its row is marked, whatever the time.
ResolveByMark(r) ==
    /\ pc[r] = "handle"
    /\ Goto(r, IF handle[cookie[r]] = "live" THEN "principal" ELSE "discard")
    /\ UNCHANGED <<active, sessionVars, handle, stale, kind, cookie, ghostVars>>

\* The session's handle is resolved in a unit of work of its own.
ResolveSession(r) ==
    /\ pc[r] = "handle"
    /\ Goto(r, CASE Usable(cookie[r]) -> "principal"
                 [] handle[cookie[r]] = "revoked" -> "discard"
                 [] OTHER -> "mark")
    /\ UNCHANGED <<active, sessionVars, handle, stale, kind, cookie, ghostVars>>

\* No transaction is open there: the mark is committed at once.
MarkExpired(r) ==
    /\ pc[r] = "mark"
    /\ handle' = [handle EXCEPT ![cookie[r]] = "revoked"]
    /\ Goto(r, "discard")
    /\ UNCHANGED <<active, sessionVars, stale, kind, cookie, ghostVars>>

\* Slip: the handle alone vouches for the principal.
ResolveTrusting(r) ==
    /\ pc[r] = "principal"
    /\ Goto(r, IF kind[r] = "info" THEN "served" ELSE "issue")
    /\ UNCHANGED <<active, sessionVars, handle, stale, kind, cookie, ghostVars>>

ResolvePrincipal(r) ==
    /\ pc[r] = "principal"
    /\ Goto(r, IF ~active THEN "discard"
               ELSE IF kind[r] = "info" THEN "served" ELSE "issue")
    /\ UNCHANGED <<active, sessionVars, handle, stale, kind, cookie, ghostVars>>

\* Whatever record is there now is dropped, the tombstone of a logout too.
Discard(r) ==
    /\ pc[r] \in {"discard", "discard_expired"}
    /\ web' = [web EXCEPT ![cookie[r]] = "none"]
    /\ Goto(r, IF pc[r] = "discard" THEN "revoked" ELSE "expired")
    /\ UNCHANGED <<active, login, over, handle, stale, kind, cookie, ghostVars>>

\* The request's own handle, in its own transaction: nobody sees the row yet.
IssueOwn(r) ==
    /\ pc[r] = "issue"
    /\ Goto(r, IF active THEN "decide" ELSE "denied")
    /\ UNCHANGED <<active, sessionVars, handle, stale, kind, cookie, ghostVars>>

\* The decision resolves the own handle and reads the principal; a denial
\* rolls back, with the row and the mark of its expiry.  Allowed, a request
\* that changes by itself commits with its change; one of a plugin commits
\* before the plugin runs.
Decide(r) ==
    /\ pc[r] = "decide"
    /\ \/ /\ active /\ r \notin stale
          /\ handle' = [handle EXCEPT ![r] = "live"]
          /\ Goto(r, IF kind[r] = "plugin" THEN "plugin" ELSE "served")
       \/ Goto(r, "denied") /\ UNCHANGED handle
    /\ UNCHANGED <<active, sessionVars, stale, kind, cookie, ghostVars>>

\* The plugin resolves the handle again, inside its own transaction: an
\* expiry is marked there, and the refusal rolls the mark back.
PluginResolve(r) ==
    /\ pc[r] = "plugin"
    /\ Goto(r, CASE Usable(r) -> "plugin_principal"
                 [] handle[r] = "revoked" -> "denied"
                 [] OTHER -> "undo")
    /\ UNCHANGED <<active, sessionVars, handle, stale, kind, cookie, ghostVars>>

UndoMark(r) ==
    /\ pc[r] = "undo"
    /\ Goto(r, "denied")
    /\ UNCHANGED <<active, sessionVars, handle, stale, kind, cookie, ghostVars>>

PluginServes(r) ==
    /\ pc[r] = "plugin_principal"
    /\ Goto(r, IF active THEN "served" ELSE "denied")
    /\ UNCHANGED <<active, sessionVars, handle, stale, kind, cookie, ghostVars>>

\* Slip: any exception of the resolution discards the session.
FailDiscards(r) ==
    /\ pc[r] \in {"handle", "mark", "principal"}
    /\ Goto(r, "discard")
    /\ UNCHANGED <<active, sessionVars, handle, stale, kind, cookie, ghostVars>>

\* The database fails: the exception is none of those the session catches.
Fail(r) ==
    /\ pc[r] \in Pending \ {"lookup", "expiry", "discard", "discard_expired"}
    /\ Goto(r, "failed")
    /\ UNCHANGED <<active, sessionVars, handle, stale, kind, cookie, ghostVars>>

-------------------------------------------------------------------------------
(* Logging out: the tombstone under the lock, the handle after it.        *)

Entomb(r) ==
    /\ pc[r] = "lookup" /\ kind[r] = "logout"
    /\ \/ /\ web[cookie[r]] = "live"
          /\ web' = [web EXCEPT ![cookie[r]] = "tombstone"]
          /\ out' = out \cup {cookie[r]}
          /\ Goto(r, "revoke")
       \/ /\ web[cookie[r]] # "live"
          /\ Goto(r, IF web[cookie[r]] = "none" THEN "unknown" ELSE "revoked")
          /\ UNCHANGED <<web, out>>
    /\ UNCHANGED <<active, login, over, handle, stale, kind, cookie, early, noticed,
                   replay, troubled>>

\* Slip: the logout is answered before its handle is revoked for good.
RevokeStaged(r) ==
    /\ pc[r] = "revoke"
    /\ Goto(r, "served")
    /\ UNCHANGED <<active, sessionVars, handle, stale, kind, cookie, ghostVars>>

RevokeHandle(r) ==
    /\ pc[r] = "revoke"
    /\ handle' = [handle EXCEPT ![cookie[r]] = "revoked"]
    /\ Goto(r, "served")
    /\ UNCHANGED <<active, sessionVars, stale, kind, cookie, ghostVars>>

-------------------------------------------------------------------------------
(* Meanwhile.                                                              *)

\* An administrator deactivates or reactivates the operator.
SetActive ==
    /\ active' = ~active
    /\ noticed' = IF active' THEN noticed \cup InProgress ELSE noticed
    /\ troubled' = IF active' THEN troubled
                   ELSE troubled \cup {s \in Session : login[s] = "in"}
    /\ UNCHANGED <<sessionVars, handle, stale, kind, cookie, pc, early, out, replay>>

\* Time passes for a handle from its issue on; for a request's own, as long as
\* the request has still to resolve it.
HandleExpires(h) ==
    /\ h \notin stale
    /\ \/ h \in Session /\ handle[h] # "none"
       \/ h \in Request /\ pc[h] \in {"decide", "plugin"}
    /\ stale' = stale \cup {h}
    /\ UNCHANGED <<active, sessionVars, handle, kind, cookie, pc, ghostVars>>

\* A session's time is set after its handle's, and runs out after it.
SessionExpires(s) ==
    /\ s \in stale \ over
    /\ login[s] = "in"
    /\ over' = over \cup {s}
    /\ UNCHANGED <<active, web, login, handle, stale, kind, cookie, pc, ghostVars>>

\* expire_handles: what is past its time is revoked in one statement.
ExpireDue ==
    /\ \E h \in stale : handle[h] = "live"
    /\ handle' = [h \in Handle |->
                     IF h \in stale /\ handle[h] = "live" THEN "revoked" ELSE handle[h]]
    /\ UNCHANGED <<active, sessionVars, stale, kind, cookie, pc, ghostVars>>

\* The web process stops and starts again: its memory is gone.
Restart ==
    /\ \E s \in Session : web[s] # "none"
    /\ web' = [s \in Session |-> "none"]
    /\ login' = [s \in Session |->
                    IF login[s] \in {"checked", "issued"} THEN "refused" ELSE login[s]]
    /\ pc' = [r \in Request |-> IF pc[r] \in Pending THEN "failed" ELSE pc[r]]
    /\ out' = {}
    /\ replay' = {}
    /\ troubled' = Session
    /\ UNCHANGED <<active, handle, stale, over, kind, cookie, early, noticed>>

Serve(r) ==
    \/ Lookup(r) \/ CheckExpiry(r) \/ ResolveSession(r) \/ MarkExpired(r)
    \/ ResolvePrincipal(r) \/ Discard(r) \/ IssueOwn(r) \/ Decide(r)
    \/ PluginResolve(r) \/ UndoMark(r) \/ PluginServes(r)
    \/ Entomb(r) \/ RevokeHandle(r)

Next ==
    \/ \E s \in Session : Login(s) \/ SessionExpires(s)
    \/ \E r \in Request : Arrive(r) \/ Serve(r) \/ Fail(r)
    \/ \E h \in Handle : HandleExpires(h)
    \/ SetActive \/ ExpireDue \/ Restart

Spec == Init /\ [][Next]_vars

\* A thread that serves a request goes on with it.
FairSpec == Spec /\ \A r \in Request : WF_vars(Serve(r))

-------------------------------------------------------------------------------
(* Properties.                                                             *)

\* What may take a session from its user.
Cause(s) == s \in troubled \cup stale \cup out \/ handle[s] = "revoked"

\* What has to be known of the requests on their way: the session of one that
\* got past the resolution was honoured when the request came.
OnTheWay ==
    \A r \in Request :
        LET s == cookie[r]
        IN  /\ pc[r] = "lookup" /\ Honoured(s) => r \in early
            /\ pc[r] \in {"expiry", "handle"} /\ Usable(s) => r \in early
            /\ pc[r] \in {"principal", "issue", "decide", "plugin", "plugin_principal"}
                  => r \in early
            /\ pc[r] \in {"expiry", "handle", "mark", "principal", "discard",
                         "discard_expired", "issue", "decide", "plugin",
                         "plugin_principal", "undo"} => kind[r] # "logout"
            /\ pc[r] = "mark" => s \in stale
            /\ pc[r] \in {"discard", "discard_expired"} => Cause(s)
            /\ pc[r] = "revoke" \/ (pc[r] = "served" /\ kind[r] = "logout")
                  => kind[r] = "logout" /\ web[s] # "live"
            /\ pc[r] = "served" /\ kind[r] # "logout" => r \in early

Accounts ==
    /\ \A r \in Request : pc[r] \in Pending /\ active => r \in noticed
    /\ \A s \in Session : web[s] # "none" => login[s] = "in"
    /\ \A s \in Session : login[s] \in {"issued", "in"} => handle[s] # "none"
    /\ \A r \in Request : IF pc[r] = "idle" THEN r \notin early ELSE login[cookie[r]] = "in"
    /\ ~active => \A s \in Session : login[s] = "in" => s \in troubled
    /\ over \subseteq stale

\* The type invariant and what the session windows rest on: who may have read
\* what before a logout, an expiry or a restart.
SInv == TypeOK /\ OnTheWay /\ Accounts

\* _require_session re-reads the principal on every request: nobody is served by
\* a principal that was inactive from the moment the request came until its end.
ServedWhileActive ==
    \A r \in Request : pc[r] = "served" /\ kind[r] # "logout" => r \in noticed

\* A session is forgotten for a cause: it expired, it was logged out, the
\* operator was inactive or the process restarted.  No failure of the database
\* that hits a request takes the user's session with it.
ForgottenForCause ==
    \A s \in Session :
        login[s] = "in" /\ web[s] # "live" => Cause(s)

\* After a logout that was answered, neither the record nor the handle ever
\* authenticates again, whatever requests were on their way.
LoggedOutForGood ==
    \A r \in Request :
        pc[r] = "served" /\ kind[r] = "logout"
            => web[cookie[r]] # "live" /\ handle[cookie[r]] = "revoked"

\* Every request is answered, whatever becomes of its session meanwhile.
RequestsAnswered == \A r \in Request : pc[r] = "lookup" ~> pc[r] \in Ended

\* Sessions and their requests behave as SessionWindow promises.  A logout is
\* no request there: it is what shuts the window.
Window ==
    [s \in Session |-> IF login[s] # "in" THEN "new"
                       ELSE IF Honoured(s) THEN "open" ELSE "shut"]
Outcome ==
    [r \in Request |->
        IF kind[r] = "logout" \/ pc[r] = "idle" THEN "idle"
        ELSE IF pc[r] = "served" THEN "served"
        ELSE IF pc[r] \in Refused THEN "refused"
        ELSE IF r \in early THEN "early" ELSE "late"]
Promise == INSTANCE SessionWindow WITH window <- Window, request <- Outcome, cookie <- cookie
ImplementsSessionWindow == Promise!WindowSpec

\* The comment of _logout: a revoked session keeps its record so that a replayed
\* id is told the truth; so a replay is never told that its session is unknown.
ReplayIsToldTheTruth == \A r \in replay : pc[r] # "unknown"
===============================================================================
