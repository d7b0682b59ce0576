SPECIFICATION FairSpec
CONSTANTS
    p1 = p1
    p2 = p2
    p3 = p3
    c1 = c1
    c2 = c2
    core = core
    Plugin = {p1, p2, p3}
    Fault = {"none", "unloadable", "conflict", "invalid", "unregistrable"}
    MaxFaulty = 2
    Capability = {c1, c2, core}
    Provisions <- TheProvisions
    Core = Core
    Nobody = Nobody
    CoreCapability = {core}
    MaxBoots = 2
INVARIANTS RegistersResolvable FailsForCause CapabilitiesOwned
PROPERTIES BootEnds
CHECK_DEADLOCK FALSE
