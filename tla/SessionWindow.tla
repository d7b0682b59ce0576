---------------------------- MODULE SessionWindow ------------------------------
(***************************************************************************)
(* What a browser session promises: it opens once, shuts for good, and a   *)
(* request is served only if the session was open when the request came.   *)
(***************************************************************************)
CONSTANTS Session, Request

VARIABLES
    window,  \* window[s]: new, open or shut
    request, \* request[r]: idle, early (s was open), late, served or refused
    cookie   \* cookie[r]: the session r names

windowVars == <<window, request, cookie>>

WindowInit ==
    /\ window = [s \in Session |-> "new"]
    /\ request = [r \in Request |-> "idle"]
    /\ cookie \in [Request -> Session]

Open(s) ==
    /\ window[s] = "new"
    /\ window' = [window EXCEPT ![s] = "open"]
    /\ UNCHANGED <<request, cookie>>

\* Sessions shut and requests are refused, of a restart all at once.
Shut(S, R) ==
    /\ \A r \in R : request[r] \in {"early", "late"}
    /\ window' = [s \in Session |-> IF s \in S THEN "shut" ELSE window[s]]
    /\ request' = [r \in Request |-> IF r \in R THEN "refused" ELSE request[r]]
    /\ UNCHANGED cookie

Ask(r) ==
    /\ request[r] = "idle"
    /\ request' = [request EXCEPT ![r] =
                      IF window[cookie[r]] = "open" THEN "early" ELSE "late"]
    /\ UNCHANGED <<window, cookie>>

Serve(r) ==
    /\ request[r] = "early"
    /\ request' = [request EXCEPT ![r] = "served"]
    /\ UNCHANGED <<window, cookie>>

WindowNext ==
    \/ \E s \in Session : Open(s)
    \/ \E S \in SUBSET Session, R \in SUBSET Request : Shut(S, R)
    \/ \E r \in Request : Ask(r) \/ Serve(r)

WindowSpec == WindowInit /\ [][WindowNext]_windowVars
===============================================================================
