SPECIFICATION Spec
CONSTANTS
    None = None
    Request = {r1}
    construct = construct
    work = work
    summary = summary
    self = self
    extern = extern
    daily = daily
    crew = crew
    monthly = monthly
    workforce = workforce
    people = people
    entries = entries
    ann = ann
    bob = bob
    acme = acme
    manage = manage
    render = render
    view = view
    read = read
    own = own
    Organization = {acme}
    Workplace = {}
    Principal = {ann, bob}
    Caller = ann
    Own = acme
    Plugin = {construct, work, summary, self, extern}
    Definition = {daily, crew, monthly}
    Dataset = {workforce, people, entries}
    Column = {"kind", "place", "name", "month", "principal"}
    Value = {"site", "office", "p1", "p2", "n1", "n2", "m1", "m2", ann, bob, None}
    Capability = {manage, render, view, read, own}
    Manage = manage
    Render = render
    SelfView = own
    Defines <- TheDefines
    Supplies <- TheSupplies
    Self = self
    Needs <- TheNeeds
    NeedsPerRow <- TheNeedsPerRow
    Columns <- TheColumns
    Parts <- TheParts
    Required <- TheRequired
    Filter <- TheFilter
    GroupBy <- TheGroupBy
    Detail <- TheDetail
    Operator <- TheOperator
    Grantable <- TheGrantable
    InitialBindings <- TheInitialBindings
    InitialRows <- TheRows
    NewRows <- TheNewRows
    MaxRows = 3
    MaxChanges = 2
INVARIANTS RpInv RowsWereAllowed AnswersAreCurrent RefusedForCause GroupsAreTheRows
CHECK_DEADLOCK FALSE
