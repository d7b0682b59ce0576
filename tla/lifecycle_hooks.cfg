SPECIFICATION LifecycleSpec
CONSTANTS
    Managed = {p1, p2, p3}
    None = None
    MaxInstances = 2
SYMMETRY MCSymmetry
INVARIANTS UpServes DownSilent EnableAllSettles
CHECK_DEADLOCK FALSE
