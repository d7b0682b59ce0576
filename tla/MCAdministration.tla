--------------------------- MODULE MCAdministration ----------------------------
EXTENDS Administration, TLC

CONSTANTS o, w, p, also

whole == [organization |-> o, workplace |-> None, principal |-> None]
site == [organization |-> o, workplace |-> w, principal |-> None]
Scopes2 == {whole, site}

\* Three changes of any kind, and one besides: with those about the identity,
\* which no grant and no preference has to do with, a link; with those about
\* grants and preferences, the creation of their principal.
OfIdentity == {c \in Call : c.kind \in OnPrincipal \cup {"register", "link"}}
OfPrincipal == {c \in Call : c.kind \notin {"register", "link"}}
Besides(kind, calls) ==
    {[c \in Change |->
        IF c = also THEN [kind |-> kind, scope |-> EmptyScope, key |-> None] ELSE f[c]] :
            f \in [Change \ {also} -> calls]}
TheCalls == Besides("link", OfIdentity) \cup Besides("create", OfPrincipal)

Interchangeable == Permutations(Change \ {also})
===============================================================================
