------------------------------ MODULE MCRoster ---------------------------------
EXTENDS Roster, TLC

CONSTANTS acme, other, ann, bob, carl, zoe, yard, shop, lot, welder, today, present, absent

Shape(k, x, w, e, d, s) ==
    [kind |-> k, thing |-> x, workplace |-> w, employee |-> e, day |-> d, status |-> s]

\* bob and carl have the same number; zoe and the lot are of an organization
\* that is not there yet.
TheHome == [x \in Thing |-> IF x \in {other, zoe, lot} THEN other ELSE acme]
TheCode == [x \in Thing |-> IF x = carl THEN bob ELSE x]

\* One of each kind, or of each two that meet.
TheCalls ==
    {Shape("create", x, None, None, None, None) : x \in {bob, carl, lot, other}}
        \cup {Shape("assign", welder, None, zoe, None, None)}
        \cup {Shape("add", None, p[1], p[2], None, None) :
                 p \in {<<yard, ann>>, <<shop, ann>>, <<yard, zoe>>}}
        \cup {Shape("remove", None, yard, ann, None, None)}
        \cup {Shape("record", None, yard, ann, today, s) : s \in {present, absent}}
        \cup {Shape("dataset", x, None, None, None, None) : x \in {acme, None}}

Symmetry == Permutations(Op)
===============================================================================
