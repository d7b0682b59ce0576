SPECIFICATION FairSpec
CONSTANTS
    Process = {p1, p2}
    s1 = s1
    s2 = s2
    None = None
    Subscriber = {s1, s2}
    Steady = {s1}
    Envelope <- MCEnvelopes2
    Interest <- MCInterest
    Bad <- MCBad
    Limit = 2
    MaxFaults = 2
INVARIANTS DispatchedIsDelivered
PROPERTIES ImplementsEventDelivery GoodEnvelopesGoOut
CHECK_DEADLOCK FALSE
