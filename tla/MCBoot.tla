-------------------------------- MODULE MCBoot --------------------------------
EXTENDS Boot, TLC

CONSTANTS p1, p2, p3, c1, c2, core

\* Nobody provides anything; each its own; two contest one capability, and one of
\* them has another of which a third depends; one provides what the core owns.
Given(a, b, c) == p1 :> a @@ p2 :> b @@ p3 :> c
TheProvisions == {Given({}, {}, {}), Given({c1}, {c1, c2}, {c2}), Given({c1, core}, {c1}, {c2})}
===============================================================================
