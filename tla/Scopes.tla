------------------------------- MODULE Scopes ---------------------------------
(***************************************************************************)
(* The algebra of scopes: a scope names an organization, a workplace in it *)
(* and a principal, or leaves a dimension out.  The containment relation   *)
(* is written three times in the code, for decisions, for handles and for  *)
(* the guard of the plugin services.                                       *)
(***************************************************************************)
CONSTANTS
    Organization,
    Workplace,
    Principal,
    None \* a dimension left out

ASSUME DimensionAssumption == None \notin Organization \cup Workplace \cup Principal

Scope == [organization : Organization \cup {None},
          workplace : Workplace \cup {None},
          principal : Principal \cup {None}]

EmptyScope == [organization |-> None, workplace |-> None, principal |-> None]

\* A workplace alone is no scope either.
IsEmpty(s) == s.organization = None /\ s.principal = None

\* Slip: the self boundary holds one way only.
CoversOneWay(broader, narrower) ==
    /\ broader.principal \in {None, narrower.principal}
    /\ broader.organization = narrower.organization
    /\ broader.workplace \in {None, narrower.workplace}

\* What a grant in one scope lets its principal do in another.  A principal is
\* a self boundary: it has to be the same, and a self scope is never covered by
\* one without a principal.
Covers(broader, narrower) ==
    /\ broader.principal = narrower.principal
    /\ broader.organization = narrower.organization
    /\ broader.workplace \in {None, narrower.workplace}

\* The scope a request may use, of what its subject may see.
Narrow(requested, subject) ==
    IF ~IsEmpty(subject) /\ ~IsEmpty(requested) /\ Covers(subject, requested)
    THEN requested ELSE EmptyScope

Resolve(organization, workplace, principal) ==
    IF organization = None /\ principal = None THEN EmptyScope
    ELSE [organization |-> organization, workplace |-> workplace, principal |-> principal]

\* The scope a handle was issued for contains the scope of the request.
HandleContains(broader, narrower) ==
    /\ ~IsEmpty(broader) /\ ~IsEmpty(narrower)
    /\ ~(broader.principal # None /\ broader.principal # narrower.principal)
    /\ ~(narrower.principal # None /\ broader.principal = None)
    /\ broader.organization = narrower.organization
    /\ broader.workplace = None \/ broader.workplace = narrower.workplace

\* The same question, as the services of plugins ask it.
GuardContains(broader, narrower) ==
    /\ ~IsEmpty(broader) /\ ~IsEmpty(narrower)
    /\ broader.principal # None => broader.principal = narrower.principal
    /\ narrower.principal # None => broader.principal # None
    /\ broader.organization = narrower.organization
    /\ broader.workplace \in {None, narrower.workplace}
===============================================================================
