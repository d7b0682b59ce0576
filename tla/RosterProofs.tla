------------------------------ MODULE RosterProofs -----------------------------
(***************************************************************************)
(* Proofs about Roster, for any number of operations, people and places.   *)
(***************************************************************************)
EXTENDS Roster, TLAPS

-------------------------------------------------------------------------------
(* The inductive invariant.                                                *)

\* A removal found every membership that was there when it looked.
Removals ==
    \A v \in Op : Kind(v) = "remove" /\ pc[v] \in {"commit", "done"} =>
        \A m \in member : SamePlace(m, v) /\ m # seen[v] => read[v] < at[m]

\* An addition is of an employee of the workplace's organization.
Additions ==
    \A a \in Op : Kind(a) = "add" /\ pc[a] \in {"commit", "done"} =>
        /\ call[a].workplace \in there
        /\ Home[call[a].workplace] = Home[call[a].employee]

\* A recording saw a membership that was not removed then.
Recordings ==
    \A o \in Op : Kind(o) = "record" /\ pc[o] \in {"find", "commit", "done"} =>
        \E m \in Op :
            /\ Kind(m) = "add" /\ SamePlace(m, o)
            /\ Committed(m) /\ at[m] <= read[o]
            /\ \A v \in Op : Removed(v, m) => read[o] < at[v]

\* The status a recording found changes only if another is committed.
Findings ==
    \A o \in Op :
        Kind(o) = "record" /\ pc[o] = "commit" /\ seen[o] # None /\ status[seen[o]] # was[o] =>
            \E p \in Op : /\ p # o /\ Kind(p) = "record" /\ Committed(p)
                          /\ SameKey(p, o) /\ read[o] < at[p]

\* A recorded status is in a row, or was recorded anew, or by overlap.
SheetHolds ==
    \A o \in Op : Kind(o) = "record" /\ Committed(o) =>
        \E r \in sheet :
            /\ SameKey(r, o)
            /\ \/ status[r] = call[o].status
               \/ \E p \in Op :
                     /\ p # o /\ Kind(p) = "record" /\ Committed(p) /\ SameKey(p, o)
                     /\ at[o] < at[p] \/ read[o] < at[p]

\* Who was a member when a dataset began is read, or in a workplace still to
\* be read.
Listings ==
    \A o \in Op : Kind(o) = "dataset" /\ pc[o] = "list" =>
        \A m \in member : at[m] <= read[o] /\ call[o].thing = Home[call[m].workplace]
            => m \in got[o] \/ call[m].workplace \in todo[o]

Sound ==
    /\ RoInv /\ Removals /\ Additions /\ Recordings /\ Findings /\ Listings
    /\ EventsTellTheRoster /\ SheetHolds /\ DatasetIsOfItsTime

LEMMA InitSound == Init => Sound
<1>. SUFFICES ASSUME Init PROVE Sound
  OBVIOUS
<1>1. TypeOK
  BY DEF Init, TypeOK
<1>. QED
  BY <1>1 DEF Init, Sound, RoInv, OnTheWay, RowsAreMade, NothingTwice, Removals, Additions,
     Recordings, Findings, Listings, EventsTellTheRoster, SheetHolds,
     DatasetIsOfItsTime, Summary, Committed, Removed

\* Calls name what their kind is about.
LEMMA CallType ==
    ASSUME TypeOK, NEW o \in Op
    PROVE  /\ Kind(o) = "create" => call[o].thing \in Thing
           /\ Kind(o) \in {"add", "remove", "record"} =>
                 call[o].workplace \in Workplace /\ call[o].employee \in Employee
           /\ Kind(o) = "record" => call[o].day \in Day /\ call[o].status \in Status
           /\ Kind(o) \in {"create", "assign", "add", "remove", "record", "dataset"}
<1>1. call[o] \in Call
  BY CallsAssumption DEF TypeOK
<1>. QED  BY <1>1 DEF Call, Kind

LEMMA FindTakenSound ==
    ASSUME Sound, NEW o \in Op, FindTaken(o)
    PROVE  Sound'
<1>. USE NoneAssumption
     DEF tables, ownVars, Goto, Begins, Record, Running, Ended, Kind, Committed
<1>1. TypeOK'
  BY SMTT(30) DEF FindTaken, Sound, RoInv, TypeOK
<1>2. OnTheWay'
  BY SMTT(30) DEF FindTaken, Sound, RoInv, TypeOK, OnTheWay
<1>3. RowsAreMade'
  BY SMTT(30) DEF FindTaken, Sound, RoInv, TypeOK, OnTheWay, RowsAreMade, SamePlace, SameKey
<1>4. NothingTwice'
  BY SMTT(30) DEF FindTaken, Sound, RoInv, TypeOK, OnTheWay, RowsAreMade, NothingTwice, Summary, SamePlace
<1>5. Removals'
  BY SMTT(30) DEF FindTaken, Sound, RoInv, TypeOK, OnTheWay, RowsAreMade, Removals, SamePlace
<1>6. Additions'
  BY SMTT(30) DEF FindTaken, Sound, RoInv, TypeOK, OnTheWay, Additions
<1>7. Recordings'
  BY SMTT(30) DEF FindTaken, Sound, RoInv, TypeOK, OnTheWay, RowsAreMade, Recordings, Removed, SamePlace
<1>8. Findings'
  BY SMTT(30) DEF FindTaken, Sound, RoInv, TypeOK, OnTheWay, RowsAreMade, Findings, SameKey, SamePlace
<1>9. Listings'
  BY SMTT(30) DEF FindTaken, Sound, RoInv, TypeOK, OnTheWay, RowsAreMade, Listings, Additions
<1>10. EventsTellTheRoster'
  BY SMTT(30) DEF FindTaken, Sound, RoInv, TypeOK, OnTheWay, RowsAreMade, EventsTellTheRoster, Removed
<1>11. SheetHolds'
  BY SMTT(30) DEF FindTaken, Sound, RoInv, TypeOK, OnTheWay, RowsAreMade, SheetHolds, SameKey, SamePlace
<1>12. DatasetIsOfItsTime'
  BY SMTT(30) DEF FindTaken, Sound, RoInv, TypeOK, OnTheWay, RowsAreMade, Listings, DatasetIsOfItsTime, Removed
<1>. QED  BY <1>1, <1>2, <1>3, <1>4, <1>5, <1>6, <1>7, <1>8, <1>9, <1>10, <1>11, <1>12 DEF Sound, RoInv

LEMMA FindJobSound ==
    ASSUME Sound, NEW o \in Op, FindJob(o)
    PROVE  Sound'
<1>. USE NoneAssumption
     DEF tables, ownVars, Goto, Begins, Record, Running, Ended, Kind, Committed
<1>1. TypeOK'
  BY SMTT(30) DEF FindJob, Sound, RoInv, TypeOK
<1>2. OnTheWay'
  BY SMTT(30) DEF FindJob, Sound, RoInv, TypeOK, OnTheWay
<1>3. RowsAreMade'
  BY SMTT(30) DEF FindJob, Sound, RoInv, TypeOK, OnTheWay, RowsAreMade, SamePlace, SameKey
<1>4. NothingTwice'
  BY SMTT(30) DEF FindJob, Sound, RoInv, TypeOK, OnTheWay, RowsAreMade, NothingTwice, Summary, SamePlace
<1>5. Removals'
  BY SMTT(30) DEF FindJob, Sound, RoInv, TypeOK, OnTheWay, RowsAreMade, Removals, SamePlace
<1>6. Additions'
  BY SMTT(30) DEF FindJob, Sound, RoInv, TypeOK, OnTheWay, Additions
<1>7. Recordings'
  BY SMTT(30) DEF FindJob, Sound, RoInv, TypeOK, OnTheWay, RowsAreMade, Recordings, Removed, SamePlace
<1>8. Findings'
  BY SMTT(30) DEF FindJob, Sound, RoInv, TypeOK, OnTheWay, RowsAreMade, Findings, SameKey, SamePlace
<1>9. Listings'
  BY SMTT(30) DEF FindJob, Sound, RoInv, TypeOK, OnTheWay, RowsAreMade, Listings, Additions
<1>10. EventsTellTheRoster'
  BY SMTT(30) DEF FindJob, Sound, RoInv, TypeOK, OnTheWay, RowsAreMade, EventsTellTheRoster, Removed
<1>11. SheetHolds'
  BY SMTT(30) DEF FindJob, Sound, RoInv, TypeOK, OnTheWay, RowsAreMade, SheetHolds, SameKey, SamePlace
<1>12. DatasetIsOfItsTime'
  BY SMTT(30) DEF FindJob, Sound, RoInv, TypeOK, OnTheWay, RowsAreMade, Listings, DatasetIsOfItsTime, Removed
<1>. QED  BY <1>1, <1>2, <1>3, <1>4, <1>5, <1>6, <1>7, <1>8, <1>9, <1>10, <1>11, <1>12 DEF Sound, RoInv

LEMMA FindStrangerSound ==
    ASSUME Sound, NEW o \in Op, FindStranger(o)
    PROVE  Sound'
<1>. USE NoneAssumption
     DEF tables, ownVars, Goto, Begins, Record, Running, Ended, Kind, Committed
<1>1. TypeOK'
  BY SMTT(30) DEF FindStranger, Sound, RoInv, TypeOK
<1>2. OnTheWay'
  BY SMTT(30) DEF FindStranger, Sound, RoInv, TypeOK, OnTheWay
<1>3. RowsAreMade'
  BY SMTT(30) DEF FindStranger, Sound, RoInv, TypeOK, OnTheWay, RowsAreMade, SamePlace, SameKey
<1>4. NothingTwice'
  BY SMTT(30) DEF FindStranger, Sound, RoInv, TypeOK, OnTheWay, RowsAreMade, NothingTwice, Summary, SamePlace
<1>5. Removals'
  BY SMTT(30) DEF FindStranger, Sound, RoInv, TypeOK, OnTheWay, RowsAreMade, Removals, SamePlace
<1>6. Additions'
  BY SMTT(30) DEF FindStranger, Sound, RoInv, TypeOK, OnTheWay, Additions
<1>7. Recordings'
  BY SMTT(30) DEF FindStranger, Sound, RoInv, TypeOK, OnTheWay, RowsAreMade, Recordings, Removed, SamePlace
<1>8. Findings'
  BY SMTT(30) DEF FindStranger, Sound, RoInv, TypeOK, OnTheWay, RowsAreMade, Findings, SameKey, SamePlace
<1>9. Listings'
  BY SMTT(30) DEF FindStranger, Sound, RoInv, TypeOK, OnTheWay, RowsAreMade, Listings, Additions
<1>10. EventsTellTheRoster'
  BY SMTT(30) DEF FindStranger, Sound, RoInv, TypeOK, OnTheWay, RowsAreMade, EventsTellTheRoster, Removed
<1>11. SheetHolds'
  BY SMTT(30) DEF FindStranger, Sound, RoInv, TypeOK, OnTheWay, RowsAreMade, SheetHolds, SameKey, SamePlace
<1>12. DatasetIsOfItsTime'
  BY SMTT(30) DEF FindStranger, Sound, RoInv, TypeOK, OnTheWay, RowsAreMade, Listings, DatasetIsOfItsTime, Removed
<1>. QED  BY <1>1, <1>2, <1>3, <1>4, <1>5, <1>6, <1>7, <1>8, <1>9, <1>10, <1>11, <1>12 DEF Sound, RoInv

LEMMA FindMemberSound ==
    ASSUME Sound, NEW o \in Op, FindMember(o)
    PROVE  Sound'
<1>. USE NoneAssumption
     DEF tables, ownVars, Goto, Begins, Record, Running, Ended, Kind, Committed
<1>1. TypeOK'
  BY SMTT(30) DEF FindMember, Sound, RoInv, TypeOK
<1>2. OnTheWay'
  BY SMTT(30) DEF FindMember, Sound, RoInv, TypeOK, OnTheWay
<1>3. RowsAreMade'
  BY SMTT(30) DEF FindMember, Sound, RoInv, TypeOK, OnTheWay, RowsAreMade, SamePlace, SameKey
<1>4. NothingTwice'
  BY SMTT(30) DEF FindMember, Sound, RoInv, TypeOK, OnTheWay, RowsAreMade, NothingTwice, Summary, SamePlace
<1>5. Removals'
  BY SMTT(30) DEF FindMember, Sound, RoInv, TypeOK, OnTheWay, RowsAreMade, NothingTwice, Removals, SamePlace
<1>6. Additions'
  BY SMTT(30) DEF FindMember, Sound, RoInv, TypeOK, OnTheWay, Additions
<1>7. Recordings'
  BY SMTT(30) DEF FindMember, Sound, RoInv, TypeOK, OnTheWay, RowsAreMade, Recordings, Removed, SamePlace
<1>8. Findings'
  BY SMTT(30) DEF FindMember, Sound, RoInv, TypeOK, OnTheWay, RowsAreMade, Findings, SameKey, SamePlace
<1>9. Listings'
  BY SMTT(30) DEF FindMember, Sound, RoInv, TypeOK, OnTheWay, RowsAreMade, Listings, Additions
<1>10. EventsTellTheRoster'
  BY SMTT(30) DEF FindMember, Sound, RoInv, TypeOK, OnTheWay, RowsAreMade, EventsTellTheRoster, Removed
<1>11. SheetHolds'
  BY SMTT(30) DEF FindMember, Sound, RoInv, TypeOK, OnTheWay, RowsAreMade, SheetHolds, SameKey, SamePlace
<1>12. DatasetIsOfItsTime'
  BY SMTT(30) DEF FindMember, Sound, RoInv, TypeOK, OnTheWay, RowsAreMade, Listings, DatasetIsOfItsTime, Removed
<1>. QED  BY <1>1, <1>2, <1>3, <1>4, <1>5, <1>6, <1>7, <1>8, <1>9, <1>10, <1>11, <1>12 DEF Sound, RoInv

LEMMA ReadWorkforceSound ==
    ASSUME Sound, NEW o \in Op, ReadWorkforce(o)
    PROVE  Sound'
<1>. USE NoneAssumption
     DEF tables, ownVars, Goto, Begins, Record, Running, Ended, Kind, Committed
<1>1. TypeOK'
  BY SMTT(30) DEF ReadWorkforce, Sound, RoInv, TypeOK
<1>2. OnTheWay'
  BY SMTT(30) DEF ReadWorkforce, Sound, RoInv, TypeOK, OnTheWay
<1>3. RowsAreMade'
  BY SMTT(30) DEF ReadWorkforce, Sound, RoInv, TypeOK, OnTheWay, RowsAreMade, SamePlace, SameKey
<1>4. NothingTwice'
  BY SMTT(30) DEF ReadWorkforce, Sound, RoInv, TypeOK, OnTheWay, RowsAreMade, NothingTwice, Summary, SamePlace
<1>5. Removals'
  BY SMTT(30) DEF ReadWorkforce, Sound, RoInv, TypeOK, OnTheWay, RowsAreMade, Removals, SamePlace
<1>6. Additions'
  BY SMTT(30) DEF ReadWorkforce, Sound, RoInv, TypeOK, OnTheWay, Additions
<1>7. Recordings'
  BY SMTT(30) DEF ReadWorkforce, Sound, RoInv, TypeOK, OnTheWay, RowsAreMade, EventsTellTheRoster, Recordings, Removed, SamePlace
<1>8. Findings'
  BY SMTT(30) DEF ReadWorkforce, Sound, RoInv, TypeOK, OnTheWay, RowsAreMade, Findings, SameKey, SamePlace
<1>9. Listings'
  BY SMTT(30) DEF ReadWorkforce, Sound, RoInv, TypeOK, OnTheWay, RowsAreMade, Listings, Additions
<1>10. EventsTellTheRoster'
  BY SMTT(30) DEF ReadWorkforce, Sound, RoInv, TypeOK, OnTheWay, RowsAreMade, EventsTellTheRoster, Removed
<1>11. SheetHolds'
  BY SMTT(30) DEF ReadWorkforce, Sound, RoInv, TypeOK, OnTheWay, RowsAreMade, SheetHolds, SameKey, SamePlace
<1>12. DatasetIsOfItsTime'
  BY SMTT(30) DEF ReadWorkforce, Sound, RoInv, TypeOK, OnTheWay, RowsAreMade, Listings, DatasetIsOfItsTime, Removed
<1>. QED  BY <1>1, <1>2, <1>3, <1>4, <1>5, <1>6, <1>7, <1>8, <1>9, <1>10, <1>11, <1>12 DEF Sound, RoInv

LEMMA FindRowSound ==
    ASSUME Sound, NEW o \in Op, FindRow(o)
    PROVE  Sound'
<1>. USE NoneAssumption
     DEF tables, ownVars, Goto, Begins, Record, Running, Ended, Kind, Committed
<1>1. TypeOK'
  BY SMTT(30) DEF FindRow, Sound, RoInv, TypeOK
<1>2. OnTheWay'
  BY SMTT(30) DEF FindRow, Sound, RoInv, TypeOK, OnTheWay
<1>3. RowsAreMade'
  BY SMTT(30) DEF FindRow, Sound, RoInv, TypeOK, OnTheWay, RowsAreMade, SamePlace, SameKey
<1>4. NothingTwice'
  BY SMTT(30) DEF FindRow, Sound, RoInv, TypeOK, OnTheWay, RowsAreMade, NothingTwice, Summary, SamePlace
<1>5. Removals'
  BY SMTT(30) DEF FindRow, Sound, RoInv, TypeOK, OnTheWay, RowsAreMade, Removals, SamePlace
<1>6. Additions'
  BY SMTT(30) DEF FindRow, Sound, RoInv, TypeOK, OnTheWay, Additions
<1>7. Recordings'
  BY SMTT(30) DEF FindRow, Sound, RoInv, TypeOK, OnTheWay, RowsAreMade, Recordings, Removed, SamePlace
<1>8. Findings'
  BY SMTT(30) DEF FindRow, Sound, RoInv, TypeOK, OnTheWay, RowsAreMade, Findings, SameKey, SamePlace
<1>9. Listings'
  BY SMTT(30) DEF FindRow, Sound, RoInv, TypeOK, OnTheWay, RowsAreMade, Listings, Additions
<1>10. EventsTellTheRoster'
  BY SMTT(30) DEF FindRow, Sound, RoInv, TypeOK, OnTheWay, RowsAreMade, EventsTellTheRoster, Removed
<1>11. SheetHolds'
  BY SMTT(30) DEF FindRow, Sound, RoInv, TypeOK, OnTheWay, RowsAreMade, SheetHolds, SameKey, SamePlace
<1>12. DatasetIsOfItsTime'
  BY SMTT(30) DEF FindRow, Sound, RoInv, TypeOK, OnTheWay, RowsAreMade, Listings, DatasetIsOfItsTime, Removed
<1>. QED  BY <1>1, <1>2, <1>3, <1>4, <1>5, <1>6, <1>7, <1>8, <1>9, <1>10, <1>11, <1>12 DEF Sound, RoInv

LEMMA ListWorkplacesSound ==
    ASSUME Sound, NEW o \in Op, ListWorkplaces(o)
    PROVE  Sound'
<1>. USE NoneAssumption
     DEF tables, ownVars, Goto, Begins, Record, Running, Ended, Kind, Committed
<1>1. TypeOK'
  BY SMTT(30) DEF ListWorkplaces, Sound, RoInv, TypeOK
<1>2. OnTheWay'
  BY SMTT(30) DEF ListWorkplaces, Sound, RoInv, TypeOK, OnTheWay
<1>3. RowsAreMade'
  BY SMTT(30) DEF ListWorkplaces, Sound, RoInv, TypeOK, OnTheWay, RowsAreMade, SamePlace, SameKey
<1>4. NothingTwice'
  BY SMTT(30) DEF ListWorkplaces, Sound, RoInv, TypeOK, OnTheWay, RowsAreMade, NothingTwice, Summary, SamePlace
<1>5. Removals'
  BY SMTT(30) DEF ListWorkplaces, Sound, RoInv, TypeOK, OnTheWay, RowsAreMade, Removals, SamePlace
<1>6. Additions'
  BY SMTT(30) DEF ListWorkplaces, Sound, RoInv, TypeOK, OnTheWay, Additions
<1>7. Recordings'
  BY SMTT(30) DEF ListWorkplaces, Sound, RoInv, TypeOK, OnTheWay, RowsAreMade, Recordings, Removed, SamePlace
<1>8. Findings'
  BY SMTT(30) DEF ListWorkplaces, Sound, RoInv, TypeOK, OnTheWay, RowsAreMade, Findings, SameKey, SamePlace
<1>9. Listings'
  <2>1. /\ UNCHANGED <<call, at, member>> /\ read'[o] = now /\ got' = got
        /\ todo'[o] = {w \in there \cap Workplace : call[o].thing = Home[w]}
        /\ \A p \in Op \ {o} : read'[p] = read[p] /\ pc'[p] = pc[p] /\ todo'[p] = todo[p]
    BY DEF ListWorkplaces, Sound, RoInv, TypeOK
  <2>2. \A m \in member : call[m].workplace \in there \cap Workplace
    BY CallType DEF Sound, RoInv, TypeOK, OnTheWay, RowsAreMade, Additions
  <2>. QED
    BY <2>1, <2>2 DEF Sound, Listings
<1>10. EventsTellTheRoster'
  BY SMTT(30) DEF ListWorkplaces, Sound, RoInv, TypeOK, OnTheWay, RowsAreMade, EventsTellTheRoster, Removed
<1>11. SheetHolds'
  BY SMTT(30) DEF ListWorkplaces, Sound, RoInv, TypeOK, OnTheWay, RowsAreMade, SheetHolds, SameKey, SamePlace
<1>12. DatasetIsOfItsTime'
  BY SMTT(30) DEF ListWorkplaces, Sound, RoInv, TypeOK, OnTheWay, DatasetIsOfItsTime, Removed
<1>. QED  BY <1>1, <1>2, <1>3, <1>4, <1>5, <1>6, <1>7, <1>8, <1>9, <1>10, <1>11, <1>12 DEF Sound, RoInv

LEMMA ListWorkforceSound ==
    ASSUME Sound, NEW o \in Op, ListWorkforce(o)
    PROVE  Sound'
<1>. USE NoneAssumption
     DEF tables, ownVars, Goto, Begins, Record, Running, Ended, Kind, Committed
<1>1. TypeOK'
  BY SMTT(30) DEF ListWorkforce, Sound, RoInv, TypeOK, MembersOf
<1>2. OnTheWay'
  BY SMTT(30) DEF ListWorkforce, Sound, RoInv, TypeOK, OnTheWay
<1>3. RowsAreMade'
  BY SMTT(30) DEF ListWorkforce, Sound, RoInv, TypeOK, OnTheWay, RowsAreMade, SamePlace, SameKey
<1>4. NothingTwice'
  BY SMTT(30) DEF ListWorkforce, Sound, RoInv, TypeOK, OnTheWay, RowsAreMade, NothingTwice, Summary, SamePlace
<1>5. Removals'
  BY SMTT(30) DEF ListWorkforce, Sound, RoInv, TypeOK, OnTheWay, RowsAreMade, Removals, SamePlace
<1>6. Additions'
  BY SMTT(30) DEF ListWorkforce, Sound, RoInv, TypeOK, OnTheWay, Additions
<1>7. Recordings'
  BY SMTT(30) DEF ListWorkforce, Sound, RoInv, TypeOK, OnTheWay, RowsAreMade, Recordings, Removed, SamePlace
<1>8. Findings'
  BY SMTT(30) DEF ListWorkforce, Sound, RoInv, TypeOK, OnTheWay, RowsAreMade, Findings, SameKey, SamePlace
<1>9. Listings'
  <2>1. PICK w \in todo[o] :
          /\ todo' = [todo EXCEPT ![o] = @ \ {w}]
          /\ got' = [got EXCEPT ![o] = @ \cup MembersOf(w)]
    BY DEF ListWorkforce
  <2>2. \A m \in member : call[m].workplace = w => m \in got'[o]
    BY <2>1 DEF MembersOf, Sound, RoInv, TypeOK
  <2>3. got[o] \subseteq got'[o] /\ todo'[o] = todo[o] \ {w}
        /\ \A p \in Op \ {o} : got'[p] = got[p] /\ todo'[p] = todo[p]
    BY <2>1 DEF ListWorkforce, Sound, RoInv, TypeOK
  <2>5. call' = call /\ at' = at /\ member' = member /\ pc' = pc /\ read' = read
    BY DEF ListWorkforce
  <2>. SUFFICES ASSUME NEW p \in Op, Kind(p) = "dataset", pc[p] = "list", NEW m \in member,
                       at[m] <= read[p], call[p].thing = Home[call[m].workplace]
                PROVE  m \in got'[p] \/ call[m].workplace \in todo'[p]
    BY <2>5, Zenon DEF Listings
  <2>4. m \in got[p] \/ call[m].workplace \in todo[p]
    BY DEF Sound, Listings
  <2>. QED  BY <2>2, <2>3, <2>4
<1>10. EventsTellTheRoster'
  BY SMTT(30) DEF ListWorkforce, Sound, RoInv, TypeOK, OnTheWay, RowsAreMade, EventsTellTheRoster, Removed
<1>11. SheetHolds'
  BY SMTT(30) DEF ListWorkforce, Sound, RoInv, TypeOK, OnTheWay, RowsAreMade, SheetHolds, SameKey, SamePlace
<1>12. DatasetIsOfItsTime'
  <2>1. PICK w \in todo[o] : got' = [got EXCEPT ![o] = @ \cup MembersOf(w)]
    BY DEF ListWorkforce
  <2>2. \A m \in MembersOf(w) : m \in Op /\ at[m] > 0 /\ \A v \in Op : ~Removed(v, m)
    BY DEF MembersOf, Sound, RoInv, TypeOK, RowsAreMade, EventsTellTheRoster
  <2>3. /\ \A m \in got'[o] : m \in got[o] \/ m \in MembersOf(w)
        /\ \A p \in Op \ {o} : got'[p] = got[p]
        /\ UNCHANGED <<call, at, member, pc, read, seen>>
        /\ pc[o] = "list"
    BY <2>1 DEF ListWorkforce, Sound, RoInv, TypeOK
  <2>. QED
    BY <2>2, <2>3 DEF Sound, DatasetIsOfItsTime, Removed
<1>. QED  BY <1>1, <1>2, <1>3, <1>4, <1>5, <1>6, <1>7, <1>8, <1>9, <1>10, <1>11, <1>12 DEF Sound, RoInv

LEMMA ListDoneSound ==
    ASSUME Sound, NEW o \in Op, ListDone(o)
    PROVE  Sound'
<1>. USE NoneAssumption
     DEF tables, ownVars, Goto, Begins, Record, Running, Ended, Kind, Committed
<1>1. TypeOK'
  BY SMTT(30) DEF ListDone, Sound, RoInv, TypeOK
<1>2. OnTheWay'
  BY SMTT(30) DEF ListDone, Sound, RoInv, TypeOK, OnTheWay
<1>3. RowsAreMade'
  BY SMTT(30) DEF ListDone, Sound, RoInv, TypeOK, OnTheWay, RowsAreMade, SamePlace, SameKey
<1>4. NothingTwice'
  BY SMTT(30) DEF ListDone, Sound, RoInv, TypeOK, OnTheWay, RowsAreMade, NothingTwice, Summary, SamePlace
<1>5. Removals'
  BY SMTT(30) DEF ListDone, Sound, RoInv, TypeOK, OnTheWay, RowsAreMade, Removals, SamePlace
<1>6. Additions'
  BY SMTT(30) DEF ListDone, Sound, RoInv, TypeOK, OnTheWay, Additions
<1>7. Recordings'
  BY SMTT(30) DEF ListDone, Sound, RoInv, TypeOK, OnTheWay, RowsAreMade, Recordings, Removed, SamePlace
<1>8. Findings'
  BY SMTT(30) DEF ListDone, Sound, RoInv, TypeOK, OnTheWay, RowsAreMade, Findings, SameKey, SamePlace
<1>9. Listings'
  BY SMTT(30) DEF ListDone, Sound, RoInv, TypeOK, OnTheWay, RowsAreMade, Listings, Additions
<1>10. EventsTellTheRoster'
  BY SMTT(30) DEF ListDone, Sound, RoInv, TypeOK, OnTheWay, RowsAreMade, EventsTellTheRoster, Removed
<1>11. SheetHolds'
  BY SMTT(30) DEF ListDone, Sound, RoInv, TypeOK, OnTheWay, RowsAreMade, SheetHolds, SameKey, SamePlace
<1>12. DatasetIsOfItsTime'
  BY SMTT(30) DEF ListDone, Sound, RoInv, TypeOK, OnTheWay, RowsAreMade, Listings, DatasetIsOfItsTime, Removed
<1>. QED  BY <1>1, <1>2, <1>3, <1>4, <1>5, <1>6, <1>7, <1>8, <1>9, <1>10, <1>11, <1>12 DEF Sound, RoInv

LEMMA CommitCreateSound ==
    ASSUME Sound, NEW o \in Op, CommitCreate(o)
    PROVE  Sound'
<1>. USE NoneAssumption
     DEF tables, ownVars, Goto, Begins, Record, Running, Ended, Kind, Committed
<1>1. TypeOK'
  BY CallType, SMTT(30) DEF CommitCreate, Sound, RoInv, TypeOK
<1>2. OnTheWay'
  BY SMTT(30) DEF CommitCreate, Sound, RoInv, TypeOK, OnTheWay
<1>3. RowsAreMade'
  BY SMTT(30) DEF CommitCreate, Sound, RoInv, TypeOK, OnTheWay, RowsAreMade, SamePlace, SameKey
<1>4. NothingTwice'
  <2>1. \A x, y \in there' : Clash(x, y) => x = y
    BY DEF CommitCreate, Sound, RoInv, NothingTwice, Clash
  <2>. QED
    BY <2>1 DEF CommitCreate, Sound, RoInv, NothingTwice, Summary, SamePlace
<1>5. Removals'
  BY SMTT(30) DEF CommitCreate, Sound, RoInv, TypeOK, OnTheWay, RowsAreMade, Removals, SamePlace
<1>6. Additions'
  BY SMTT(30) DEF CommitCreate, Sound, RoInv, TypeOK, OnTheWay, Additions
<1>7. Recordings'
  BY SMTT(30) DEF CommitCreate, Sound, RoInv, TypeOK, OnTheWay, RowsAreMade, Recordings, Removed, SamePlace
<1>8. Findings'
  BY SMTT(30) DEF CommitCreate, Sound, RoInv, TypeOK, OnTheWay, RowsAreMade, Findings, SameKey, SamePlace
<1>9. Listings'
  BY SMTT(30) DEF CommitCreate, Sound, RoInv, TypeOK, OnTheWay, RowsAreMade, Listings, Additions
<1>10. EventsTellTheRoster'
  BY SMTT(30) DEF CommitCreate, Sound, RoInv, TypeOK, OnTheWay, RowsAreMade, EventsTellTheRoster, Removed
<1>11. SheetHolds'
  BY SMTT(30) DEF CommitCreate, Sound, RoInv, TypeOK, OnTheWay, RowsAreMade, SheetHolds, SameKey, SamePlace
<1>12. DatasetIsOfItsTime'
  BY SMTT(30) DEF CommitCreate, Sound, RoInv, TypeOK, OnTheWay, RowsAreMade, Listings, DatasetIsOfItsTime, Removed
<1>. QED  BY <1>1, <1>2, <1>3, <1>4, <1>5, <1>6, <1>7, <1>8, <1>9, <1>10, <1>11, <1>12 DEF Sound, RoInv

LEMMA CommitAssignSound ==
    ASSUME Sound, NEW o \in Op, CommitAssign(o)
    PROVE  Sound'
<1>. USE NoneAssumption
     DEF tables, ownVars, Goto, Begins, Record, Running, Ended, Kind, Committed
<1>1. TypeOK'
  BY SMTT(30) DEF CommitAssign, Sound, RoInv, TypeOK
<1>2. OnTheWay'
  BY SMTT(30) DEF CommitAssign, Sound, RoInv, TypeOK, OnTheWay
<1>3. RowsAreMade'
  BY SMTT(30) DEF CommitAssign, Sound, RoInv, TypeOK, OnTheWay, RowsAreMade, SamePlace, SameKey
<1>4. NothingTwice'
  BY SMTT(30) DEF CommitAssign, Sound, RoInv, TypeOK, OnTheWay, RowsAreMade, NothingTwice, Summary, SamePlace
<1>5. Removals'
  BY SMTT(30) DEF CommitAssign, Sound, RoInv, TypeOK, OnTheWay, RowsAreMade, Removals, SamePlace
<1>6. Additions'
  BY SMTT(30) DEF CommitAssign, Sound, RoInv, TypeOK, OnTheWay, Additions
<1>7. Recordings'
  BY SMTT(30) DEF CommitAssign, Sound, RoInv, TypeOK, OnTheWay, RowsAreMade, Recordings, Removed, SamePlace
<1>8. Findings'
  BY SMTT(30) DEF CommitAssign, Sound, RoInv, TypeOK, OnTheWay, RowsAreMade, Findings, SameKey, SamePlace
<1>9. Listings'
  BY SMTT(30) DEF CommitAssign, Sound, RoInv, TypeOK, OnTheWay, RowsAreMade, Listings, Additions
<1>10. EventsTellTheRoster'
  BY SMTT(30) DEF CommitAssign, Sound, RoInv, TypeOK, OnTheWay, RowsAreMade, EventsTellTheRoster, Removed
<1>11. SheetHolds'
  BY SMTT(30) DEF CommitAssign, Sound, RoInv, TypeOK, OnTheWay, RowsAreMade, SheetHolds, SameKey, SamePlace
<1>12. DatasetIsOfItsTime'
  BY SMTT(30) DEF CommitAssign, Sound, RoInv, TypeOK, OnTheWay, RowsAreMade, Listings, DatasetIsOfItsTime, Removed
<1>. QED  BY <1>1, <1>2, <1>3, <1>4, <1>5, <1>6, <1>7, <1>8, <1>9, <1>10, <1>11, <1>12 DEF Sound, RoInv

LEMMA CommitAddSound ==
    ASSUME Sound, NEW o \in Op, CommitAdd(o)
    PROVE  Sound'
<1>. USE NoneAssumption
     DEF tables, ownVars, Goto, Begins, Record, Running, Ended, Kind, Committed
<1>1. TypeOK'
  BY SMTT(30) DEF CommitAdd, Sound, RoInv, TypeOK
<1>2. OnTheWay'
  BY SMTT(30) DEF CommitAdd, Sound, RoInv, TypeOK, OnTheWay
<1>3. RowsAreMade'
  BY SMTT(30) DEF CommitAdd, Sound, RoInv, TypeOK, OnTheWay, RowsAreMade, SamePlace, SameKey
<1>4. NothingTwice'
  BY SMTT(30) DEF CommitAdd, Sound, RoInv, TypeOK, OnTheWay, RowsAreMade, NothingTwice, Summary, SamePlace
<1>5. Removals'
  BY SMTT(30) DEF CommitAdd, Sound, RoInv, TypeOK, OnTheWay, RowsAreMade, Removals, SamePlace
<1>6. Additions'
  BY SMTT(30) DEF CommitAdd, Sound, RoInv, TypeOK, OnTheWay, Additions
<1>7. Recordings'
  BY SMTT(30) DEF CommitAdd, Sound, RoInv, TypeOK, OnTheWay, RowsAreMade, Recordings, Removed, SamePlace
<1>8. Findings'
  BY SMTT(30) DEF CommitAdd, Sound, RoInv, TypeOK, OnTheWay, RowsAreMade, Findings, SameKey, SamePlace
<1>9. Listings'
  BY SMTT(30) DEF CommitAdd, Sound, RoInv, TypeOK, OnTheWay, RowsAreMade, Listings, Additions
<1>10. EventsTellTheRoster'
  BY SMTT(30) DEF CommitAdd, Sound, RoInv, TypeOK, OnTheWay, RowsAreMade, EventsTellTheRoster, Removed
<1>11. SheetHolds'
  BY SMTT(30) DEF CommitAdd, Sound, RoInv, TypeOK, OnTheWay, RowsAreMade, SheetHolds, SameKey, SamePlace
<1>12. DatasetIsOfItsTime'
  BY SMTT(30) DEF CommitAdd, Sound, RoInv, TypeOK, OnTheWay, RowsAreMade, Listings, DatasetIsOfItsTime, Removed
<1>. QED  BY <1>1, <1>2, <1>3, <1>4, <1>5, <1>6, <1>7, <1>8, <1>9, <1>10, <1>11, <1>12 DEF Sound, RoInv

LEMMA CommitRemoveSound ==
    ASSUME Sound, NEW o \in Op, CommitRemove(o)
    PROVE  Sound'
<1>. USE NoneAssumption
     DEF tables, ownVars, Goto, Begins, Record, Running, Ended, Kind, Committed
<1>1. TypeOK'
  BY SMTT(30) DEF CommitRemove, Sound, RoInv, TypeOK
<1>2. OnTheWay'
  BY SMTT(30) DEF CommitRemove, Sound, RoInv, TypeOK, OnTheWay
<1>3. RowsAreMade'
  BY SMTT(30) DEF CommitRemove, Sound, RoInv, TypeOK, OnTheWay, RowsAreMade, SamePlace, SameKey
<1>4. NothingTwice'
  BY SMTT(30) DEF CommitRemove, Sound, RoInv, TypeOK, OnTheWay, RowsAreMade, NothingTwice, Summary, SamePlace
<1>5. Removals'
  BY SMTT(30) DEF CommitRemove, Sound, RoInv, TypeOK, OnTheWay, RowsAreMade, Removals, SamePlace
<1>6. Additions'
  BY SMTT(30) DEF CommitRemove, Sound, RoInv, TypeOK, OnTheWay, Additions
<1>7. Recordings'
  BY SMTT(30) DEF CommitRemove, Sound, RoInv, TypeOK, OnTheWay, RowsAreMade, Recordings, Removed, SamePlace
<1>8. Findings'
  BY SMTT(30) DEF CommitRemove, Sound, RoInv, TypeOK, OnTheWay, RowsAreMade, Findings, SameKey, SamePlace
<1>9. Listings'
  BY SMTT(30) DEF CommitRemove, Sound, RoInv, TypeOK, OnTheWay, RowsAreMade, Listings, Additions
<1>10. EventsTellTheRoster'
  BY SMTT(30) DEF CommitRemove, Sound, RoInv, TypeOK, OnTheWay, RowsAreMade, EventsTellTheRoster, Removed
<1>11. SheetHolds'
  <2>1. /\ UNCHANGED <<call, read>>
        /\ \A p \in Op \ {o} : at'[p] = at[p]
        /\ \A p \in Op : at[p] \in Nat /\ at[p] <= now /\ read[p] \in Nat /\ read[p] <= now
        /\ at[o] = 0 /\ at'[o] = now + 1 /\ now \in Nat
    BY DEF CommitRemove, Sound, RoInv, TypeOK, OnTheWay
  <2>. QED
    BY <2>1 DEF CommitRemove, Sound, SheetHolds, SameKey, SamePlace
<1>12. DatasetIsOfItsTime'
  BY SMTT(30) DEF CommitRemove, Sound, RoInv, TypeOK, OnTheWay, RowsAreMade, Listings, DatasetIsOfItsTime, Removed
<1>. QED  BY <1>1, <1>2, <1>3, <1>4, <1>5, <1>6, <1>7, <1>8, <1>9, <1>10, <1>11, <1>12 DEF Sound, RoInv

LEMMA CommitNewRowSound ==
    ASSUME Sound, NEW o \in Op, CommitNewRow(o)
    PROVE  Sound'
<1>. USE NoneAssumption
     DEF tables, ownVars, Goto, Begins, Record, Running, Ended, Kind, Committed
<1>1. TypeOK'
  BY CallType, SMTT(30) DEF CommitNewRow, Sound, RoInv, TypeOK
<1>2. OnTheWay'
  BY SMTT(30) DEF CommitNewRow, Sound, RoInv, TypeOK, OnTheWay
<1>3. RowsAreMade'
  BY SMTT(30) DEF CommitNewRow, Sound, RoInv, TypeOK, OnTheWay, RowsAreMade, SamePlace, SameKey
<1>4. NothingTwice'
  <2>1. /\ UNCHANGED <<call, there, member>> /\ sheet' = sheet \cup {o}
        /\ \A r \in sheet : ~SameKey(r, o)
    BY DEF CommitNewRow
  <2>2. ASSUME NEW q \in sheet', NEW r \in sheet', SameKey(q, r)
        PROVE  q = r
    <3>1. CASE q \in sheet /\ r \in sheet
      <4>1. /\ call[q].workplace \in Workplace /\ call[q].day \in Day
            /\ q \in Summary(call[q].workplace, call[q].day)
            /\ r \in Summary(call[q].workplace, call[q].day)
        BY <2>2, <3>1, CallType DEF Sound, RoInv, TypeOK, RowsAreMade, Summary, SameKey, SamePlace
      <4>. QED  BY <2>2, <4>1 DEF Sound, RoInv, NothingTwice, SameKey, SamePlace
    <3>2. CASE q = o \/ r = o
      BY <2>1, <2>2, <3>2 DEF SameKey, SamePlace
    <3>. QED  BY <2>1, <3>1, <3>2
  <2>. QED
    BY <2>1, <2>2 DEF Sound, RoInv, NothingTwice, Summary, SameKey, SamePlace
<1>5. Removals'
  BY SMTT(30) DEF CommitNewRow, Sound, RoInv, TypeOK, OnTheWay, RowsAreMade, Removals, SamePlace
<1>6. Additions'
  BY SMTT(30) DEF CommitNewRow, Sound, RoInv, TypeOK, OnTheWay, Additions
<1>7. Recordings'
  BY SMTT(30) DEF CommitNewRow, Sound, RoInv, TypeOK, OnTheWay, RowsAreMade, Recordings, Removed, SamePlace
<1>8. Findings'
  BY SMTT(30) DEF CommitNewRow, Sound, RoInv, TypeOK, OnTheWay, RowsAreMade, Findings, SameKey, SamePlace
<1>9. Listings'
  BY SMTT(30) DEF CommitNewRow, Sound, RoInv, TypeOK, OnTheWay, RowsAreMade, Listings, Additions
<1>10. EventsTellTheRoster'
  BY SMTT(30) DEF CommitNewRow, Sound, RoInv, TypeOK, OnTheWay, RowsAreMade, EventsTellTheRoster, Removed
<1>11. SheetHolds'
  BY SMTT(30) DEF CommitNewRow, Sound, RoInv, TypeOK, OnTheWay, RowsAreMade, SheetHolds, SameKey, SamePlace
<1>12. DatasetIsOfItsTime'
  BY SMTT(30) DEF CommitNewRow, Sound, RoInv, TypeOK, OnTheWay, RowsAreMade, Listings, DatasetIsOfItsTime, Removed
<1>. QED  BY <1>1, <1>2, <1>3, <1>4, <1>5, <1>6, <1>7, <1>8, <1>9, <1>10, <1>11, <1>12 DEF Sound, RoInv

LEMMA CommitOldRowSound ==
    ASSUME Sound, NEW o \in Op, CommitOldRow(o)
    PROVE  Sound'
<1>. USE NoneAssumption
     DEF tables, ownVars, Goto, Begins, Record, Running, Ended, Kind, Committed
<1>1. TypeOK'
  BY CallType, SMTT(30) DEF CommitOldRow, Sound, RoInv, TypeOK
<1>2. OnTheWay'
  BY SMTT(30) DEF CommitOldRow, Sound, RoInv, TypeOK, OnTheWay
<1>3. RowsAreMade'
  BY SMTT(30) DEF CommitOldRow, Sound, RoInv, TypeOK, OnTheWay, RowsAreMade, SamePlace, SameKey
<1>4. NothingTwice'
  BY SMTT(30) DEF CommitOldRow, Sound, RoInv, TypeOK, OnTheWay, RowsAreMade, NothingTwice, Summary, SamePlace
<1>5. Removals'
  BY SMTT(30) DEF CommitOldRow, Sound, RoInv, TypeOK, OnTheWay, RowsAreMade, Removals, SamePlace
<1>6. Additions'
  BY SMTT(30) DEF CommitOldRow, Sound, RoInv, TypeOK, OnTheWay, Additions
<1>7. Recordings'
  BY SMTT(30) DEF CommitOldRow, Sound, RoInv, TypeOK, OnTheWay, RowsAreMade, Recordings, Removed, SamePlace
<1>8. Findings'
  BY SMTT(30) DEF CommitOldRow, Sound, RoInv, TypeOK, OnTheWay, RowsAreMade, Findings, SameKey, SamePlace
<1>9. Listings'
  BY SMTT(30) DEF CommitOldRow, Sound, RoInv, TypeOK, OnTheWay, RowsAreMade, Listings, Additions
<1>10. EventsTellTheRoster'
  BY SMTT(30) DEF CommitOldRow, Sound, RoInv, TypeOK, OnTheWay, RowsAreMade, EventsTellTheRoster, Removed
<1>11. SheetHolds'
  <2>1. /\ UNCHANGED <<call, read>>
        /\ \A p \in Op \ {o} : at'[p] = at[p]
        /\ \A p \in Op : at[p] \in Nat /\ at[p] <= now /\ read[p] \in Nat /\ read[p] <= now
        /\ at[o] = 0 /\ at'[o] = now + 1 /\ now \in Nat
    BY DEF CommitOldRow, Sound, RoInv, TypeOK, OnTheWay
  <2>2. /\ seen[o] \in sheet /\ SameKey(seen[o], o) /\ sheet' = sheet
        /\ Kind(o) = "record" /\ pc[o] = "commit"
        /\ \A r \in Op \ {seen[o]} : status'[r] = status[r]
        /\ status'[seen[o]] = IF call[o].status = was[o] THEN status[seen[o]] ELSE call[o].status
    BY DEF CommitOldRow, Sound, RoInv, TypeOK, RowsAreMade
  <2>. SUFFICES ASSUME NEW x \in Op, Kind(x) = "record", at'[x] > 0
                PROVE  \E r \in sheet :
                  /\ SameKey(r, x)
                  /\ \/ status'[r] = call[x].status
                     \/ \E p \in Op :
                           /\ p # x /\ Kind(p) = "record" /\ at'[p] > 0 /\ SameKey(p, x)
                           /\ at'[x] < at'[p] \/ read[x] < at'[p]
    BY <2>1, <2>2 DEF SheetHolds, SameKey, SamePlace
  <2>3. CASE x = o
    <3>1. CASE status'[seen[o]] = call[o].status
      BY <2>2, <2>3, <3>1
    <3>2. CASE status'[seen[o]] # call[o].status
      <4>1. status[seen[o]] # was[o]
        BY <2>2, <3>2
      <4>2. PICK p \in Op : /\ p # o /\ Kind(p) = "record" /\ Committed(p)
                            /\ SameKey(p, o) /\ read[o] < at[p]
        BY <2>2, <4>1, NoneAssumption DEF Sound, RoInv, TypeOK, RowsAreMade, Findings
      <4>. QED  BY <2>1, <2>2, <2>3, <4>2
    <3>. QED  BY <3>1, <3>2
  <2>4. CASE x # o
    <3>1. PICK r \in sheet :
            /\ SameKey(r, x)
            /\ \/ status[r] = call[x].status
               \/ \E p \in Op :
                     /\ p # x /\ Kind(p) = "record" /\ at[p] > 0 /\ SameKey(p, x)
                     /\ at[x] < at[p] \/ read[x] < at[p]
      BY <2>1, <2>4 DEF Sound, SheetHolds
    <3>2. CASE r = seen[o]
      <4>1. SameKey(o, x) /\ at'[x] < at'[o] /\ at'[o] > 0
        BY <2>1, <2>2, <2>4, <3>1, <3>2 DEF SameKey, SamePlace
      <4>. QED  BY <2>2, <2>4, <3>1, <4>1
    <3>3. CASE r # seen[o] /\ status[r] = call[x].status
      <4>1. status'[r] = status[r]
        BY <2>2, <3>3 DEF Sound, RoInv, TypeOK
      <4>. QED  BY <3>1, <3>3, <4>1
    <3>4. CASE \E p \in Op :
                     /\ p # x /\ Kind(p) = "record" /\ at[p] > 0 /\ SameKey(p, x)
                     /\ at[x] < at[p] \/ read[x] < at[p]
      BY <2>1, <2>4, <3>1, <3>4
    <3>. QED  BY <3>1, <3>2, <3>3, <3>4
  <2>. QED  BY <2>3, <2>4
<1>12. DatasetIsOfItsTime'
  BY SMTT(30) DEF CommitOldRow, Sound, RoInv, TypeOK, OnTheWay, RowsAreMade, Listings, DatasetIsOfItsTime, Removed
<1>. QED  BY <1>1, <1>2, <1>3, <1>4, <1>5, <1>6, <1>7, <1>8, <1>9, <1>10, <1>11, <1>12 DEF Sound, RoInv

LEMMA FailSound ==
    ASSUME Sound, NEW o \in Op, Fail(o)
    PROVE  Sound'
<1>. USE NoneAssumption
     DEF tables, ownVars, Goto, Begins, Record, Running, Ended, Kind, Committed
<1>1. TypeOK'
  BY SMTT(30) DEF Fail, Sound, RoInv, TypeOK
<1>2. OnTheWay'
  BY SMTT(30) DEF Fail, Sound, RoInv, TypeOK, OnTheWay
<1>3. RowsAreMade'
  BY SMTT(30) DEF Fail, Sound, RoInv, TypeOK, OnTheWay, RowsAreMade, SamePlace, SameKey
<1>4. NothingTwice'
  BY SMTT(30) DEF Fail, Sound, RoInv, TypeOK, OnTheWay, RowsAreMade, NothingTwice, Summary, SamePlace
<1>5. Removals'
  BY SMTT(30) DEF Fail, Sound, RoInv, TypeOK, OnTheWay, RowsAreMade, Removals, SamePlace
<1>6. Additions'
  BY SMTT(30) DEF Fail, Sound, RoInv, TypeOK, OnTheWay, Additions
<1>7. Recordings'
  BY SMTT(30) DEF Fail, Sound, RoInv, TypeOK, OnTheWay, RowsAreMade, Recordings, Removed, SamePlace
<1>8. Findings'
  BY SMTT(30) DEF Fail, Sound, RoInv, TypeOK, OnTheWay, RowsAreMade, Findings, SameKey, SamePlace
<1>9. Listings'
  BY SMTT(30) DEF Fail, Sound, RoInv, TypeOK, OnTheWay, RowsAreMade, Listings, Additions
<1>10. EventsTellTheRoster'
  BY SMTT(30) DEF Fail, Sound, RoInv, TypeOK, OnTheWay, RowsAreMade, EventsTellTheRoster, Removed
<1>11. SheetHolds'
  BY SMTT(30) DEF Fail, Sound, RoInv, TypeOK, OnTheWay, RowsAreMade, SheetHolds, SameKey, SamePlace
<1>12. DatasetIsOfItsTime'
  BY SMTT(30) DEF Fail, Sound, RoInv, TypeOK, OnTheWay, RowsAreMade, Listings, DatasetIsOfItsTime, Removed
<1>. QED  BY <1>1, <1>2, <1>3, <1>4, <1>5, <1>6, <1>7, <1>8, <1>9, <1>10, <1>11, <1>12 DEF Sound, RoInv

-------------------------------------------------------------------------------
LEMMA StepSound ==
    ASSUME Sound, NEW o \in Op, Step(o)
    PROVE  Sound'
BY FindTakenSound, FindJobSound, FindStrangerSound, FindMemberSound, ReadWorkforceSound,
   FindRowSound, ListWorkplacesSound, ListWorkforceSound, ListDoneSound, CommitCreateSound,
   CommitAssignSound, CommitAddSound, CommitRemoveSound, CommitNewRowSound,
   CommitOldRowSound, FailSound DEF Step

LEMMA StutterSound == Sound /\ UNCHANGED vars => Sound'
<1>. SUFFICES ASSUME Sound, UNCHANGED vars PROVE Sound'
  OBVIOUS
<1>. USE DEF vars, Committed, Kind, SamePlace, SameKey, Removed
<1>1. RoInv'
  BY DEF Sound, RoInv, TypeOK, OnTheWay, RowsAreMade, NothingTwice, Summary
<1>2. Removals' /\ Additions' /\ Recordings' /\ Findings' /\ Listings'
  BY DEF Sound, Removals, Additions, Recordings, Findings, Listings
<1>3. EventsTellTheRoster' /\ SheetHolds' /\ DatasetIsOfItsTime'
  BY DEF Sound, EventsTellTheRoster, SheetHolds, DatasetIsOfItsTime
<1>. QED  BY <1>1, <1>2, <1>3 DEF Sound

THEOREM SoundTheorem == Spec => []Sound
<1>1. Sound /\ [Next]_vars => Sound'
  BY StepSound, StutterSound DEF Next, Finished
<1>. QED  BY InitSound, <1>1, PTL DEF Spec

\* Every variable of Roster keeps its type, and no number, code, membership or
\* line of a day's attendance is there twice.
THEOREM RosterIsTyped == Spec => []RoInv
<1>1. Sound => RoInv
  BY DEF Sound
<1>. QED  BY <1>1, SoundTheorem, PTL

\* Attendance is of those who were members at a moment of its recording.
THEOREM RecordedWhileMembers == Spec => []RecordedWhileMember
<1>1. Sound => RecordedWhileMember
  <2>. SUFFICES ASSUME Sound, NEW o \in Op, Kind(o) = "record", Committed(o)
                PROVE  \E m \in Op :
                         /\ Kind(m) = "add" /\ SamePlace(m, o)
                         /\ Committed(m) /\ at[m] < at[o]
                         /\ \A v \in Op : Removed(v, m) => read[o] < at[v]
    BY DEF RecordedWhileMember
  <2>1. pc[o] = "done" /\ read[o] < at[o]
    BY DEF Sound, RoInv, OnTheWay
  <2>2. PICK m \in Op :
            /\ Kind(m) = "add" /\ SamePlace(m, o)
            /\ Committed(m) /\ at[m] <= read[o]
            /\ \A v \in Op : Removed(v, m) => read[o] < at[v]
    BY <2>1 DEF Sound, Recordings
  <2>. QED  BY <2>1, <2>2 DEF Sound, RoInv, TypeOK
<1>. QED  BY <1>1, SoundTheorem, PTL

\* The events of additions and removals, in any order, tell who is a member.
THEOREM RosterIsTold == Spec => []EventsTellTheRoster
<1>1. Sound => EventsTellTheRoster
  BY DEF Sound
<1>. QED  BY <1>1, SoundTheorem, PTL

\* A removal leaves only memberships that were added since it looked.
THEOREM RemovalsAreComplete == Spec => []RemovedMeansRemoved
<1>1. Sound => RemovedMeansRemoved
  <2>. SUFFICES ASSUME Sound, NEW v \in Op, Kind(v) = "remove", pc[v] = "done",
                       NEW m \in member, SamePlace(m, v)
                PROVE  read[v] < at[m]
    BY DEF RemovedMeansRemoved
  <2>1. Committed(v)
    BY DEF Sound, RoInv, OnTheWay
  <2>2. m # seen[v]
    BY <2>1 DEF Sound, EventsTellTheRoster, Removed
  <2>. QED  BY <2>2 DEF Sound, Removals
<1>. QED  BY <1>1, SoundTheorem, PTL

\* Members and attendance are of the workplace's own organization.
THEOREM WorkforcesAreOfOneOrganization == Spec => []OneOrganization
<1>1. Sound => OneOrganization
  <2>. SUFFICES ASSUME Sound PROVE OneOrganization
    OBVIOUS
  <2>1. \A a \in Op : Kind(a) = "add" /\ Committed(a) =>
           Home[call[a].workplace] = Home[call[a].employee]
    BY DEF Sound, RoInv, OnTheWay, Additions
  <2>2. \A m \in member : m \in Op /\ Kind(m) = "add" /\ Committed(m)
    BY DEF Sound, RoInv, TypeOK, RowsAreMade
  <2>3. ASSUME NEW r \in sheet
        PROVE  Home[call[r].workplace] = Home[call[r].employee]
    <3>1. r \in Op /\ Kind(r) = "record" /\ pc[r] = "done"
      BY DEF Sound, RoInv, TypeOK, RowsAreMade, OnTheWay
    <3>2. PICK m \in Op : Kind(m) = "add" /\ SamePlace(m, r) /\ Committed(m)
      BY <3>1 DEF Sound, Recordings
    <3>. QED  BY <2>1, <3>2 DEF SamePlace
  <2>. QED  BY <2>1, <2>2, <2>3 DEF OneOrganization
<1>. QED  BY <1>1, SoundTheorem, PTL

\* Whose attendance was recorded has one line, with that status unless it was
\* recorded anew, or by overlap.
THEOREM SheetsShowTheRecorded == Spec => []SheetShowsTheRecorded
<1>1. Sound => SheetShowsTheRecorded
  <2>. SUFFICES ASSUME Sound, NEW o \in Op, Kind(o) = "record", Committed(o),
                       NEW r \in sheet, SameKey(r, o)
                PROVE  {q \in sheet : SameKey(q, o)} = {r}
    BY DEF Sound, SheetHolds, SheetShowsTheRecorded
  <2>1. call[o].workplace \in Workplace /\ call[o].day \in Day
    BY CallType DEF Sound, RoInv
  <2>2. ASSUME NEW q \in sheet, SameKey(q, o)
        PROVE  q = r
    <3>1. {q, r} \subseteq Summary(call[o].workplace, call[o].day)
      BY <2>2 DEF Summary, SameKey, SamePlace
    <3>2. call[q].employee = call[r].employee
      BY <2>2 DEF SameKey, SamePlace
    <3>. QED  BY <2>1, <3>1, <3>2 DEF Sound, RoInv, NothingTwice
  <2>. QED  BY <2>2
<1>. QED  BY <1>1, SoundTheorem, PTL

\* A dataset has who was a member throughout, and nobody who never was.
THEOREM DatasetsAreOfTheirTime == Spec => []DatasetIsOfItsTime
<1>1. Sound => DatasetIsOfItsTime
  BY DEF Sound
<1>. QED  BY <1>1, SoundTheorem, PTL
===============================================================================
