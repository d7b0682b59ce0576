-------------------------------- MODULE Roster ---------------------------------
(***************************************************************************)
(* The records of people and where they work: the core's organizations,    *)
(* employees, jobs, workplaces and assignments, the workplaces and the     *)
(* workforce of Workplace Operations, and the attendance of Attendance     *)
(* Operations.  Every operation runs in the transaction of its caller or   *)
(* of its plugin: it reads what is committed, statement by statement,      *)
(* decides, and commits its row, its audit record and its event together.  *)
(* A recording reads the workforce through a contract, in the transaction  *)
(* of the other plugin.  An operation stands for one call by a thread or a *)
(* process of its own; a retry is another operation with the same call.    *)
(***************************************************************************)
EXTENDS Naturals

CONSTANTS
    Op,           \* operations, each made once (bounds a run)
    Organization,
    Employee,
    Workplace,    \* the places of Workplace Operations
    Site,         \* the core's own workplaces
    Job,
    Day, Status,
    Home,         \* Home[x]: the organization a thing is recorded under
    Code,         \* Code[x]: its number or code
    Calls,        \* the calls operations are made with
    None

Thing == Organization \cup Employee \cup Workplace \cup Site \cup Job
Call ==
    [kind : {"create"}, thing : Thing, workplace : {None}, employee : {None}, day : {None}, status : {None}]
        \cup [kind : {"assign"}, thing : Job, workplace : {None}, employee : Employee,
              day : {None}, status : {None}]
        \cup [kind : {"add", "remove"}, thing : {None}, workplace : Workplace, employee : Employee,
              day : {None}, status : {None}]
        \cup [kind : {"record"}, thing : {None}, workplace : Workplace, employee : Employee,
              day : Day, status : Status]
        \cup [kind : {"dataset"}, thing : Organization \cup {None}, workplace : {None},
              employee : {None}, day : {None}, status : {None}]

ASSUME HomeAssumption == Home \in [Thing -> Organization]
ASSUME CallsAssumption == Calls \subseteq Call
ASSUME NoneAssumption == None \notin Op \cup Status \cup Organization

VARIABLES
    there,  \* the things whose rows are committed
    member, \* the workforce memberships, named by the operations that added them
    sheet,  \* the attendance rows, named by the operations that inserted them
    status, \* status[r]: the status in row r
    call,   \* call[o]: what the operation does
    pc,     \* pc[o]: where the operation is, or how it ended
    seen,   \* seen[o]: the membership or the attendance row it found, or None
    was,    \* was[o]: the status it found there
    todo,   \* todo[o]: the workplaces a dataset has still to read
    got,    \* got[o]: the memberships a dataset has read
    now,    \* how many operations were committed
    read,   \* read[o]: now, when the operation first read
    at      \* at[o]: the position of the operation among those committed, or 0

tables == <<there, member, sheet, status>>
ownVars == <<seen, was, todo, got, read>>
vars == <<there, member, sheet, status, call, pc, seen, was, todo, got, now, read, at>>

Kind(o) == call[o].kind

\* Two operations are about the same person at the same workplace, and day.
SamePlace(o, p) ==
    call[o].workplace = call[p].workplace /\ call[o].employee = call[p].employee
SameKey(o, p) == SamePlace(o, p) /\ call[o].day = call[p].day

\* Two things that a unique constraint does not allow side by side.
Clash(x, y) ==
    /\ Code[x] = Code[y]
    /\ \/ x \in Organization /\ y \in Organization
       \/ x \in Employee /\ y \in Employee
       \/ x \in Workplace /\ y \in Workplace /\ Home[x] = Home[y]

Running == {"find", "list", "commit"}
Ended == {"refused", "failed", "done"}

TypeOK ==
    /\ there \in SUBSET Thing
    /\ member \in SUBSET Op
    /\ sheet \in SUBSET Op
    /\ status \in [Op -> Status \cup {None}]
    /\ call \in [Op -> Calls]
    /\ pc \in [Op -> {"idle"} \cup Running \cup Ended]
    /\ seen \in [Op -> Op \cup {None}]
    /\ was \in [Op -> Status \cup {None}]
    /\ todo \in [Op -> SUBSET Workplace]
    /\ got \in [Op -> SUBSET Op]
    /\ now \in Nat
    /\ read \in [Op -> Nat]
    /\ at \in [Op -> Nat]

\* What no call creates was there before.  An id is never made twice.
Init ==
    /\ call \in [Op -> Calls]
    /\ \A o, p \in Op : Kind(o) = "create" /\ Kind(p) = "create" /\ o # p
                            => call[o].thing # call[p].thing
    /\ there = {x \in Thing : \A c \in Calls : c.kind = "create" => c.thing # x}
    /\ \A x, y \in there : Clash(x, y) => x = y
    /\ member = {}
    /\ sheet = {}
    /\ status = [o \in Op |-> None]
    /\ pc = [o \in Op |-> "idle"]
    /\ seen = [o \in Op |-> None]
    /\ was = [o \in Op |-> None]
    /\ todo = [o \in Op |-> {}]
    /\ got = [o \in Op |-> {}]
    /\ now = 0
    /\ read = [o \in Op |-> 0]
    /\ at = [o \in Op |-> 0]

Goto(o, l) == pc' = [pc EXCEPT ![o] = l]
Begins(o, k) == Kind(o) = k /\ pc[o] = "idle" /\ read' = [read EXCEPT ![o] = now]

-------------------------------------------------------------------------------
(* What operations decide on.  Things are never deleted: that one exists   *)
(* may as well be read with the last statement before the commit.          *)

\* create_organization, create_employee, create_workplace: a code or a number
\* that is taken is refused.
OrganizationTaken(x) == x \in Organization /\ \E y \in there \cap Organization : Code[x] = Code[y]
EmployeeTaken(x) == x \in Employee /\ \E y \in there \cap Employee : Code[x] = Code[y]
WorkplaceTaken(x) ==
    x \in Workplace /\ \E y \in there \cap Workplace : Home[x] = Home[y] /\ Code[x] = Code[y]

\* add_workplace: a site is of an organization that exists.
SiteHomeless(x) == x \in Site /\ Home[x] \notin there

FindTaken(o) ==
    /\ Begins(o, "create")
    /\ LET x == call[o].thing
       IN  Goto(o, IF \/ OrganizationTaken(x) \/ EmployeeTaken(x) \/ WorkplaceTaken(x)
                      \/ SiteHomeless(x)
                   THEN "refused" ELSE "commit")
    /\ UNCHANGED <<tables, call, seen, was, todo, got, now, at>>

\* assign: the employee and the job exist.
FindJob(o) ==
    /\ Begins(o, "assign")
    /\ Goto(o, IF {call[o].employee, call[o].thing} \subseteq there THEN "commit" ELSE "refused")
    /\ UNCHANGED <<tables, call, seen, was, todo, got, now, at>>

\* add_workforce_member: an employee of the workplace's organization who is
\* not a member yet.
FindStranger(o) ==
    /\ Begins(o, "add")
    /\ Goto(o, IF /\ {call[o].workplace, call[o].employee} \subseteq there
                  /\ Home[call[o].workplace] = Home[call[o].employee]
                  /\ \A m \in member : ~SamePlace(m, o)
               THEN "commit" ELSE "refused")
    /\ UNCHANGED <<tables, call, seen, was, todo, got, now, at>>

\* remove_workforce_member keeps the membership that it found.
FindMember(o) ==
    /\ Begins(o, "remove")
    /\ \/ \E m \in member :
             /\ SamePlace(m, o)
             /\ seen' = [seen EXCEPT ![o] = m]
             /\ Goto(o, "commit")
       \/ /\ \A m \in member : ~SamePlace(m, o)
          /\ Goto(o, "refused")
          /\ UNCHANGED seen
    /\ UNCHANGED <<tables, call, was, todo, got, now, at>>

\* Slip: anyone's attendance can be recorded.
ReadNoWorkforce(o) ==
    /\ Begins(o, "record")
    /\ Goto(o, "find")
    /\ UNCHANGED <<tables, call, seen, was, todo, got, now, at>>

\* record_attendance: membership is proven by the contract workplace.workforce.
ReadWorkforce(o) ==
    /\ Begins(o, "record")
    /\ Goto(o, IF \E m \in member : SamePlace(m, o) THEN "find" ELSE "refused")
    /\ UNCHANGED <<tables, call, seen, was, todo, got, now, at>>

FindRow(o) ==
    /\ pc[o] = "find"
    /\ \/ \E r \in sheet :
             /\ SameKey(r, o)
             /\ seen' = [seen EXCEPT ![o] = r]
             /\ was' = [was EXCEPT ![o] = status[r]]
       \/ (\A r \in sheet : ~SameKey(r, o)) /\ UNCHANGED <<seen, was>>
    /\ Goto(o, "commit")
    /\ UNCHANGED <<tables, call, todo, got, now, read, at>>

\* workforce_dataset: the workplaces of the organization.  Without one the
\* scope is empty, in which nobody holds a capability.
ListWorkplaces(o) ==
    /\ Begins(o, "dataset")
    /\ todo' = [todo EXCEPT ![o] = {w \in there \cap Workplace : call[o].thing = Home[w]}]
    /\ Goto(o, IF call[o].thing = None THEN "refused" ELSE "list")
    /\ UNCHANGED <<tables, call, seen, was, got, now, at>>

MembersOf(w) == {m \in member : call[m].workplace = w}

\* Slip: the members of one workplace replace those of another.
ListLastWorkforce(o) ==
    /\ pc[o] = "list"
    /\ \E w \in todo[o] :
          /\ todo' = [todo EXCEPT ![o] = @ \ {w}]
          /\ got' = [got EXCEPT ![o] = MembersOf(w)]
    /\ UNCHANGED <<tables, call, pc, seen, was, now, read, at>>

\* list_workforce, of one workplace after the other.
ListWorkforce(o) ==
    /\ pc[o] = "list"
    /\ \E w \in todo[o] :
          /\ todo' = [todo EXCEPT ![o] = @ \ {w}]
          /\ got' = [got EXCEPT ![o] = @ \cup MembersOf(w)]
    /\ UNCHANGED <<tables, call, pc, seen, was, now, read, at>>

ListDone(o) ==
    /\ pc[o] = "list" /\ todo[o] = {}
    /\ Goto(o, "done")
    /\ UNCHANGED <<tables, call, ownVars, now, at>>

-------------------------------------------------------------------------------
(* The transaction ends.                                                   *)

\* Row, audit record and event are committed as one.
Record(o, k) ==
    /\ Kind(o) = k /\ pc[o] = "commit"
    /\ Goto(o, "done")
    /\ now' = now + 1
    /\ at' = [at EXCEPT ![o] = now + 1]

\* A row that a unique constraint does not allow is not inserted.
CommitCreate(o) ==
    /\ Record(o, "create")
    /\ \A y \in there : ~Clash(call[o].thing, y)
    /\ there' = there \cup {call[o].thing}
    /\ UNCHANGED <<member, sheet, status, call, ownVars>>

CommitAssign(o) ==
    /\ Record(o, "assign")
    /\ UNCHANGED <<tables, call, ownVars>>

\* Slip: a workforce without its unique constraint.
CommitAnyAdd(o) ==
    /\ Record(o, "add")
    /\ member' = member \cup {o}
    /\ UNCHANGED <<there, sheet, status, call, ownVars>>

CommitAdd(o) ==
    /\ Record(o, "add")
    /\ \A m \in member : ~SamePlace(m, o)
    /\ member' = member \cup {o}
    /\ UNCHANGED <<there, sheet, status, call, ownVars>>

\* Slip: whoever is a member there now is removed.
CommitRemoveAnyone(o) ==
    /\ Record(o, "remove")
    /\ member' = {m \in member : ~SamePlace(m, o)}
    /\ UNCHANGED <<there, sheet, status, call, ownVars>>

\* A membership that is gone already is removed again: the audit and the event
\* are written all the same.
CommitRemove(o) ==
    /\ Record(o, "remove")
    /\ member' = member \ {seen[o]}
    /\ UNCHANGED <<there, sheet, status, call, ownVars>>

\* Slip: attendance without its unique constraint.
CommitAnyRow(o) ==
    /\ Record(o, "record") /\ seen[o] = None
    /\ sheet' = sheet \cup {o}
    /\ status' = [status EXCEPT ![o] = call[o].status]
    /\ UNCHANGED <<there, member, call, ownVars>>

CommitNewRow(o) ==
    /\ Record(o, "record") /\ seen[o] = None
    /\ \A r \in sheet : ~SameKey(r, o)
    /\ sheet' = sheet \cup {o}
    /\ status' = [status EXCEPT ![o] = call[o].status]
    /\ UNCHANGED <<there, member, call, ownVars>>

\* The status is written if it differs from the one that was found.
CommitOldRow(o) ==
    /\ Record(o, "record") /\ seen[o] # None
    /\ status' = [status EXCEPT ![seen[o]] = IF call[o].status = was[o] THEN @ ELSE call[o].status]
    /\ UNCHANGED <<there, member, sheet, call, ownVars>>

\* A capability is denied, or a statement or the commit fails: the transaction
\* rolls back.
Fail(o) ==
    /\ pc[o] \in Running
    /\ Goto(o, "failed")
    /\ UNCHANGED <<tables, call, ownVars, now, at>>

Step(o) ==
    \/ FindTaken(o) \/ FindJob(o) \/ FindStranger(o) \/ FindMember(o)
    \/ ReadWorkforce(o) \/ FindRow(o) \/ ListWorkplaces(o) \/ ListWorkforce(o) \/ ListDone(o)
    \/ CommitCreate(o) \/ CommitAssign(o) \/ CommitAdd(o) \/ CommitRemove(o)
    \/ CommitNewRow(o) \/ CommitOldRow(o) \/ Fail(o)

Finished == (\A o \in Op : pc[o] \in Ended) /\ UNCHANGED vars

Next == (\E o \in Op : Step(o)) \/ Finished

Spec == Init /\ [][Next]_vars

-------------------------------------------------------------------------------
(* What readers see.                                                       *)

\* daily_summary: the rows of one workplace and day.
Summary(w, d) == {r \in sheet : call[r].workplace = w /\ call[r].day = d}

-------------------------------------------------------------------------------
(* Properties.                                                             *)

Committed(o) == at[o] > 0

\* Membership m was removed by v.
Removed(v, m) == Kind(v) = "remove" /\ Committed(v) /\ seen[v] = m

\* What is known of operations on their way.
OnTheWay ==
    \A o \in Op :
        /\ at[o] <= now /\ read[o] <= now
        /\ Committed(o) => pc[o] = "done" /\ read[o] < at[o]
        /\ pc[o] = "done" => Committed(o) \/ Kind(o) = "dataset"
        /\ pc[o] = "find" => Kind(o) = "record"
        /\ pc[o] = "list" => Kind(o) = "dataset"
        /\ pc[o] = "commit" => Kind(o) # "dataset"
        /\ pc[o] = "idle" => todo[o] = {} /\ got[o] = {}

\* Rows are those of committed operations, and operations found rows of theirs.
RowsAreMade ==
    /\ \A m \in member : Kind(m) = "add" /\ Committed(m)
    /\ \A r \in sheet : Kind(r) = "record" /\ Committed(r)
    /\ \A o \in Op :
          /\ pc[o] \in {"commit", "done"} /\ Kind(o) = "remove" =>
                seen[o] \in Op /\ Kind(seen[o]) = "add" /\ SamePlace(seen[o], o)
                    /\ 0 < at[seen[o]] /\ at[seen[o]] <= read[o]
          /\ Kind(o) = "record" /\ seen[o] # None => seen[o] \in sheet /\ SameKey(seen[o], o)
          /\ Kind(o) \notin {"remove", "record"} => seen[o] = None

\* A number, a code and a membership are unique, and a person has one line in
\* the summary of a day: a retry or a second recorder never adds another.
NothingTwice ==
    /\ \A x, y \in there : Clash(x, y) => x = y
    /\ \A m, n \in member : SamePlace(m, n) => m = n
    /\ \A w \in Workplace, d \in Day : \A q, r \in Summary(w, d) :
          call[q].employee = call[r].employee => q = r

\* The type invariant, what is known of operations, and the unique keys.
RoInv == TypeOK /\ OnTheWay /\ RowsAreMade /\ NothingTwice

\* Attendance is recorded of somebody who was a member of the workforce at a
\* moment of the operation, although the transaction that read the workforce
\* was over before the row was written.
RecordedWhileMember ==
    \A o \in Op : Kind(o) = "record" /\ Committed(o) =>
        \E m \in Op :
            /\ Kind(m) = "add" /\ SamePlace(m, o)
            /\ Committed(m) /\ at[m] < at[o]
            /\ \A v \in Op : Removed(v, m) => read[o] < at[v]

\* The events say who is a member: whose membership was announced and no event
\* named it as removed, in whatever order they are applied.  Of two removals
\* that found the same membership, the second takes no later one with it.
EventsTellTheRoster ==
    member = {m \in Op : Kind(m) = "add" /\ Committed(m) /\ \A v \in Op : ~Removed(v, m)}

\* After a removal nobody is a member there but by a membership that was
\* added since the removal looked.
RemovedMeansRemoved ==
    \A v \in Op : Kind(v) = "remove" /\ pc[v] = "done" =>
        \A m \in member : SamePlace(m, v) => read[v] < at[m]

\* A workforce is of one organization, and so is the attendance.
OneOrganization ==
    /\ \A m \in member : Home[call[m].workplace] = Home[call[m].employee]
    /\ \A r \in sheet : Home[call[r].workplace] = Home[call[r].employee]

\* A person whose attendance was recorded has one line in the summary of the
\* day, with the status recorded, unless it was recorded anew, or by operations
\* that overlapped.
SheetShowsTheRecorded ==
    \A o \in Op : Kind(o) = "record" /\ Committed(o) =>
        \E r \in sheet :
            /\ {q \in sheet : SameKey(q, o)} = {r}
            /\ \/ status[r] = call[o].status
               \/ \E p \in Op :
                     /\ p # o /\ Kind(p) = "record" /\ Committed(p) /\ SameKey(p, o)
                     /\ at[o] < at[p] \/ read[o] < at[p]

\* A dataset read workplace by workplace has everybody who was a member from
\* its first statement to its last, and nobody who was at no moment of it.
DatasetIsOfItsTime ==
    \A o \in Op : Kind(o) = "dataset" =>
        /\ pc[o] = "done" => \A m \in member :
              at[m] <= read[o] /\ call[o].thing = Home[call[m].workplace]
                  => m \in got[o]
        /\ \A m \in got[o] : Committed(m) /\ \A v \in Op : Removed(v, m) => read[o] < at[v]
===============================================================================
