SPECIFICATION Spec
CONSTANTS
    None = None
    acme = acme
    other = other
    ann = ann
    bob = bob
    zoe = zoe
    yard = yard
    shop = shop
    carl = carl
    lot = lot
    welder = welder
    today = today
    present = present
    absent = absent
    Op = {o1, o2, o3, o4}
    Organization = {acme, other}
    Employee = {ann, bob, carl, zoe}
    Workplace = {yard, shop}
    Site = {lot}
    Job = {welder}
    Day = {today}
    Status = {present, absent}
    Home <- TheHome
    Code <- TheCode
    Calls <- TheCalls
SYMMETRY Symmetry
INVARIANTS EventsTellTheRoster RecordedWhileMember RemovedMeansRemoved SheetShowsTheRecorded DatasetIsOfItsTime
