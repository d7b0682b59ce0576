-------------------------- MODULE AdministrationProofs -------------------------
(***************************************************************************)
(* Proofs about Scopes and Administration, for any number of changes,      *)
(* scopes and metadata keys.                                               *)
(***************************************************************************)
EXTENDS Administration, TLAPS

-------------------------------------------------------------------------------
(* Scopes.                                                                 *)

\* A grant of a grant: containment is transitive, for every three scopes.
THEOREM CoversTransitive ==
    ASSUME NEW a \in Scope, NEW b \in Scope, NEW c \in Scope,
           Covers(a, b), Covers(b, c)
    PROVE  Covers(a, c)
BY DEF Covers, Scope

\* Two scopes that cover each other are the same: a revocation of the exact
\* scope takes away what an equal grant gave.
THEOREM CoversAntisymmetric ==
    ASSUME NEW a \in Scope, NEW b \in Scope, Covers(a, b), Covers(b, a)
    PROVE  a = b
BY DEF Covers, Scope

\* What narrow leaves of a request is within what its subject may see, or empty.
THEOREM NarrowIsNeverWider ==
    ASSUME NEW requested \in Scope, NEW subject \in Scope
    PROVE  LET s == Narrow(requested, subject)
           IN  IsEmpty(s) \/ (Covers(subject, s) /\ s = requested)
BY DEF Narrow, Covers, IsEmpty, EmptyScope, Scope

\* The handle, the guard of the plugin services and the decision agree on every
\* pair of scopes that are not empty; the first two know no empty scope.
THEOREM ContainmentsAgree ==
    ASSUME NEW a \in Scope, NEW b \in Scope
    PROVE  /\ HandleContains(a, b) <=> GuardContains(a, b)
           /\ HandleContains(a, b) <=> ~IsEmpty(a) /\ ~IsEmpty(b) /\ Covers(a, b)
<1>1. HandleContains(a, b) <=> ~IsEmpty(a) /\ ~IsEmpty(b) /\ Covers(a, b)
  BY DEF HandleContains, Covers, IsEmpty, Scope
<1>2. GuardContains(a, b) <=> ~IsEmpty(a) /\ ~IsEmpty(b) /\ Covers(a, b)
  BY DEF GuardContains, Covers, IsEmpty, Scope
<1>. QED  BY <1>1, <1>2

-------------------------------------------------------------------------------
(* The inductive invariant.                                                *)

\* What a revocation found, and what it will not miss.
Findings ==
    /\ revoked \subseteq Made
    /\ \A v \in Change :
          /\ \A g \in found[v] : Kind(g) \in Giving /\ Committed(g) /\ Alike(g, v)
          /\ Kind(v) \in Taking /\ pc[v] = "commit" =>
                \A g \in ActiveRows : Alike(g, v) /\ at[g] <= read[v] => g \in found[v]

\* A grant that was answered has an active row, or was revoked meanwhile.
RowsStand ==
    \A g \in Change : Kind(g) \in Giving /\ pc[g] \in {"done", "kept"} =>
        \/ \E h \in ActiveRows : Alike(h, g)
        \/ \E v \in Change : Kind(v) \in Taking /\ Alike(v, g) /\ at[v] > read[g]

\* What is known of the row of the principal, and of the copies of it.
PrincipalKnown ==
    /\ \A x \in Change : OnRow(x) /\ Committed(x) => principal.row
    /\ \A c \in Change : Kind(c) = "create" /\ pc[c] \in {"load", "commit"} =>
          \A x \in Change : OnRow(x) /\ Committed(x) => read[c] < at[x]
    /\ \A k \in Key, d \in Change : principal.metadata[k] = d => Committed(d)
    /\ \A c, d \in Change, k \in Key : copy[c].metadata[k] = d => Committed(d)
    /\ \A c, d \in Change, k \in Key : loaded[c].metadata[k] = d => Committed(d)
    /\ \A c \in Change : OnRow(c) /\ pc[c] = "commit" /\ loaded[c].active # principal.active =>
          \E d \in Change : OnRow(d) /\ at[d] > read[c] /\ WroteActive(d)

\* What is known of the identity.
IdentityKnown ==
    /\ \A a \in Change : Kind(a) = "link" /\ Committed(a) =>
          /\ identity.row
          /\ \/ identity.link # None
             \/ \E r \in Change : Unlinks(r) /\ read[r] < at[a] /\ at[a] < at[r]
    /\ lock # None => identity.row /\ identity.link = None
    /\ \A r \in Change : Kind(r) = "register" /\ pc[r] \in {"load_identity", "commit"} =>
          \A a \in Change : Kind(a) = "link" /\ Committed(a) => read[r] < at[a]

Sound ==
    /\ AdInv /\ Findings /\ RowsStand /\ PrincipalKnown /\ IdentityKnown
    /\ RevokedMeansRevoked /\ LostOnlyToOverlap /\ LinkedOnce

LEMMA NoRowType == NoRow \in PrincipalRow /\ ~NoRow.row /\ Fresh \in PrincipalRow /\ Fresh.row
BY DEF NoRow, PrincipalRow, Fresh, Metadata

LEMMA CallType ==
    ASSUME TypeOK, NEW c \in Change
    PROVE  /\ Kind(c) = "prefer" => call[c].key \in Key
           /\ Kind(c) \in Giving \cup Taking => call[c].scope \in GrantScope
BY DEF TypeOK, Call, Preference, Checkbox, Kind, Giving, Taking, OnPrincipal

LEMMA IdentityType ==
    ASSUME TypeOK
    PROVE  /\ identity.link \in Change \cup {None}
           /\ \A x \in Change \cup {None} : [row |-> TRUE, link |-> x] \in IdentityRow
BY DEF TypeOK, IdentityRow, NoIdentity

\* The fields of what a change of the principal wants.
LEMMA IntendedFields ==
    ASSUME Sound, NEW c \in Change, OnRow(c), pc[c] = "commit"
    PROVE  /\ Intended(c) \in PrincipalRow /\ Intended(c).row
           /\ Kind(c) = "prefer" =>
                 /\ Intended(c).active = copy[c].active
                 /\ Intended(c).metadata[call[c].key] = c
                 /\ \A k \in Key \ {call[c].key} :
                       Intended(c).metadata[k] = copy[c].metadata[k]
           /\ Kind(c) \in {"activate", "deactivate"} =>
                 /\ Intended(c).active = (Kind(c) = "activate")
                 /\ Intended(c).metadata = copy[c].metadata
           /\ Kind(c) = "create" => Intended(c) = Fresh
<1>1. copy[c] \in PrincipalRow
  BY DEF Sound, AdInv, TypeOK
<1>2. Kind(c) = "prefer" => call[c].key \in Key
  BY CallType DEF Sound, AdInv
<1>3. NewActive(c) \in BOOLEAN
  BY <1>1 DEF NewActive, PrincipalRow
<1>4. Intended(c).metadata \in Metadata
  BY <1>1, <1>2 DEF Intended, PrincipalRow, Metadata
<1>5. Intended(c) \in PrincipalRow /\ Intended(c).row /\ Intended(c).active = NewActive(c)
  BY <1>3, <1>4 DEF Intended, PrincipalRow
<1>6. CASE Kind(c) = "create"
  BY <1>5, <1>6 DEF Intended, NewActive, Fresh
<1>7. CASE Kind(c) \in {"activate", "deactivate"}
  <2>1. Intended(c).metadata = copy[c].metadata
    BY <1>1, <1>7 DEF Intended, PrincipalRow, Metadata
  <2>. QED  BY <1>5, <1>7, <2>1 DEF NewActive
<1>8. CASE Kind(c) = "prefer"
  BY <1>1, <1>2, <1>5, <1>8 DEF Intended, NewActive, PrincipalRow
<1>. QED
  BY <1>5, <1>6, <1>7, <1>8 DEF OnRow, OnPrincipal

\* Each column is the intended one or left alone; a preference is written, and
\* an activity that is not was changed since the transaction loaded the row.
LEMMA WrittenFields ==
    ASSUME Sound, NEW c \in Change, CommitPrincipal(c)
    PROVE  /\ principal' \in PrincipalRow /\ principal'.row
           /\ principal'.active = Intended(c).active
                 \/ (principal.row /\ principal'.active = principal.active
                         /\ loaded[c].active # principal.active)
                 \/ (principal.row /\ principal'.active = principal.active
                         /\ Intended(c).active = principal.active)
           /\ principal'.metadata = Intended(c).metadata
                 \/ (principal.row /\ principal'.metadata = principal.metadata)
           /\ Kind(c) = "prefer" => principal'.metadata = Intended(c).metadata
           /\ ~WroteActive(c) => principal.row /\ principal'.active = principal.active
           /\ ~WroteMetadata(c) => principal.row /\ principal'.metadata = principal.metadata
<1>1. OnRow(c) /\ pc[c] = "commit" /\ principal' = Written(c)
  BY DEF CommitPrincipal, Record
<1>2. /\ Intended(c) \in PrincipalRow /\ Intended(c).row
      /\ Kind(c) = "prefer" => Intended(c).metadata[call[c].key] = c
  BY <1>1, IntendedFields
<1>3. loaded[c] \in PrincipalRow /\ principal \in PrincipalRow
  BY DEF Sound, AdInv, TypeOK
<1>4. CASE ~loaded[c].row
  BY <1>1, <1>2, <1>4 DEF Written, WroteActive, WroteMetadata
<1>5. CASE loaded[c].row
  <2>1. principal.row
    BY <1>1, <1>5 DEF Sound, AdInv, OnTheWay
  <2>2. Kind(c) = "prefer" => loaded[c].metadata # Intended(c).metadata
    <3>1. SUFFICES ASSUME Kind(c) = "prefer" PROVE loaded[c].metadata[call[c].key] # c
      BY <1>2
    <3>2. call[c].key \in Key
      BY <3>1, CallType DEF Sound, AdInv
    <3>. QED
      BY <1>1, <3>2 DEF Sound, PrincipalKnown, AdInv, OnTheWay
  <2>3. /\ principal'.row
        /\ principal'.active = Column(Intended(c).active, loaded[c].active, principal.active)
        /\ principal'.metadata = Column(Intended(c).metadata, loaded[c].metadata, principal.metadata)
        /\ principal' = [row |-> TRUE, active |-> principal'.active, metadata |-> principal'.metadata]
    BY <1>1, <1>5 DEF Written
  <2>4. /\ principal'.active \in {Intended(c).active, principal.active}
        /\ principal'.metadata \in {Intended(c).metadata, principal.metadata}
    BY <2>3 DEF Column
  <2>5. principal' \in PrincipalRow
    BY <1>2, <1>3, <2>1, <2>3, <2>4 DEF PrincipalRow, NoRow
  <2>. QED
    BY <1>5, <2>1, <2>2, <2>3, <2>4, <2>5 DEF Column, WroteActive, WroteMetadata
<1>. QED  BY <1>4, <1>5

LEMMA InitSound == Init => Sound
<1>. SUFFICES ASSUME Init PROVE Sound
  OBVIOUS
<1>1. TypeOK
  BY NoRowType, CallsAssumption DEF Init, TypeOK, IdentityRow, NoIdentity
<1>. QED
  BY <1>1, NoRowType, NoneAssumption DEF Init, Sound, AdInv, OnTheWay, CopiesShow, Findings,
     RowsStand, PrincipalKnown, IdentityKnown, RevokedMeansRevoked, LostOnlyToOverlap,
     LinkedOnce, Shows, Overlap, Committed, Made, ActiveRows, Kind, OnRow, NoRow, Fresh

\* What a committed change wanted and had found does not change any more.
Stays(d) ==
    /\ WroteActive(d)' <=> WroteActive(d)
    /\ WroteMetadata(d)' <=> WroteMetadata(d)
    /\ Unlinks(d)' <=> Unlinks(d)

LEMMA HistoryStays ==
    ASSUME Sound, NEW c \in Change, Step(c), NEW d \in Change, at'[d] > 0
    PROVE  Stays(d)
<1>1. call' = call /\ external' = external
  BY DEF Step, ReadForCreate, ReadForUpdate, ReadActive, ReadRows, ReadIdentity, LoadPrincipal,
     LoadIdentity, LockIdentity, SelectRows, CommitPrincipal, CommitIdentity, CommitLink,
     CommitRow, CommitRevocation, CommitNothing, Fail, rowVars
<1>2. copy'[d] = copy[d] /\ loaded'[d] = loaded[d] /\ bound'[d] = bound[d]
  <2>1. CASE pc[c] \in {"idle", "load", "load_identity"}
    <3>1. at' = at /\ d # c
      BY <2>1 DEF Step, ReadForCreate, ReadForUpdate, ReadActive, ReadRows, ReadIdentity,
         LoadPrincipal, LoadIdentity, LockIdentity, SelectRows, CommitPrincipal, CommitIdentity,
         CommitLink, CommitRow, CommitRevocation, CommitNothing, Fail, Record, Running,
         Sound, AdInv, OnTheWay, Committed
    <3>. QED
      BY <3>1 DEF Step, ReadForCreate, ReadForUpdate, ReadActive, ReadRows, ReadIdentity,
         LoadPrincipal, LoadIdentity, LockIdentity, SelectRows, CommitPrincipal, CommitIdentity,
         CommitLink, CommitRow, CommitRevocation, CommitNothing, Fail, ownVars,
         Sound, AdInv, TypeOK
  <2>2. CASE pc[c] \notin {"idle", "load", "load_identity"}
    BY <2>2 DEF Step, ReadForCreate, ReadForUpdate, ReadActive, ReadRows, ReadIdentity,
       LoadPrincipal, LoadIdentity, LockIdentity, SelectRows, CommitPrincipal, CommitIdentity,
       CommitLink, CommitRow, CommitRevocation, CommitNothing, Fail, Begins, ownVars
  <2>. QED  BY <2>1, <2>2
<1>. QED
  BY <1>1, <1>2 DEF Stays, WroteActive, WroteMetadata, Unlinks, Intended, NewActive, Kind

LEMMA ReadForCreateSound ==
    ASSUME Sound, NEW c \in Change, ReadForCreate(c)
    PROVE  Sound'
<1>. USE NoneAssumption
     DEF rowVars, ownVars, Goto, Begins, Record, Running, Ended, OnRow, Kind, Committed, Giving, Taking, OnPrincipal
<1>0. \A d \in Change : at'[d] > 0 => Stays(d)
  BY HistoryStays DEF Step
<1>1. TypeOK'
  BY SMTT(30) DEF ReadForCreate, Sound, AdInv, TypeOK
<1>2. OnTheWay'
  BY SMTT(30) DEF ReadForCreate, Sound, AdInv, TypeOK, OnTheWay, CopiesShow
<1>3. CopiesShow'
  BY <1>0, SMTT(30) DEF Stays, ReadForCreate, Sound, AdInv, TypeOK, OnTheWay, CopiesShow, LostOnlyToOverlap, Shows, Overlap
<1>4. Findings'
  BY SMTT(30) DEF ReadForCreate, Sound, AdInv, TypeOK, OnTheWay, Findings, Made, ActiveRows, Alike, Table
<1>5. RowsStand'
  <2>1. ActiveRows' = ActiveRows /\ at' = at /\ call' = call
    BY DEF ReadForCreate, ActiveRows, Made
  <2>2. \A g \in Change : Kind(g) \in Giving => pc'[g] = pc[g] /\ read'[g] = read[g]
    BY DEF ReadForCreate, Sound, AdInv, TypeOK
  <2>3. \A g, h \in Change : Alike(g, h)' = Alike(g, h)
    BY <2>1 DEF Alike, Table
  <2>4. ActiveRows \subseteq Change
    BY DEF ActiveRows, Made
  <2>. QED
    BY <2>1, <2>2, <2>3, <2>4 DEF Sound, RowsStand
<1>6. PrincipalKnown'
  BY <1>0, SMTT(30) DEF Stays, ReadForCreate, Sound, AdInv, TypeOK, OnTheWay, PrincipalKnown
<1>7. IdentityKnown'
  BY <1>0, SMTT(30) DEF Stays, ReadForCreate, Sound, AdInv, TypeOK, OnTheWay, IdentityKnown, IdentityRow, NoIdentity
<1>8. RevokedMeansRevoked'
  BY SMTT(30) DEF ReadForCreate, Sound, AdInv, TypeOK, OnTheWay, Findings, RevokedMeansRevoked, Made, ActiveRows, Alike, Table
<1>9. LostOnlyToOverlap'
  BY <1>0, SMTT(30) DEF Stays, ReadForCreate, Sound, AdInv, TypeOK, OnTheWay, PrincipalKnown, LostOnlyToOverlap, Shows, Overlap
<1>10. LinkedOnce'
  BY <1>0, SMTT(30) DEF Stays, ReadForCreate, Sound, AdInv, TypeOK, OnTheWay, IdentityKnown, LinkedOnce
<1>. QED  BY <1>1, <1>2, <1>3, <1>4, <1>5, <1>6, <1>7, <1>8, <1>9, <1>10 DEF Sound, AdInv

LEMMA ReadForUpdateSound ==
    ASSUME Sound, NEW c \in Change, ReadForUpdate(c)
    PROVE  Sound'
<1>. USE NoneAssumption
     DEF rowVars, ownVars, Goto, Begins, Record, Running, Ended, OnRow, Kind, Committed, Giving, Taking, OnPrincipal
<1>0. \A d \in Change : at'[d] > 0 => Stays(d)
  BY HistoryStays DEF Step
<1>1. TypeOK'
  BY SMTT(30) DEF ReadForUpdate, Sound, AdInv, TypeOK
<1>2. OnTheWay'
  BY SMTT(30) DEF ReadForUpdate, Sound, AdInv, TypeOK, OnTheWay, CopiesShow
<1>3. CopiesShow'
  BY <1>0, SMTT(30) DEF Stays, ReadForUpdate, Sound, AdInv, TypeOK, OnTheWay, CopiesShow, LostOnlyToOverlap, Shows, Overlap
<1>4. Findings'
  BY SMTT(30) DEF ReadForUpdate, Sound, AdInv, TypeOK, OnTheWay, Findings, Made, ActiveRows, Alike, Table
<1>5. RowsStand'
  BY SMTT(30) DEF ReadForUpdate, Sound, AdInv, TypeOK, OnTheWay, Findings, RowsStand, Made, ActiveRows, Alike, Table
<1>6. PrincipalKnown'
  BY <1>0, SMTT(30) DEF Stays, ReadForUpdate, Sound, AdInv, TypeOK, OnTheWay, PrincipalKnown
<1>7. IdentityKnown'
  BY <1>0, SMTT(30) DEF Stays, ReadForUpdate, Sound, AdInv, TypeOK, OnTheWay, IdentityKnown, IdentityRow, NoIdentity
<1>8. RevokedMeansRevoked'
  BY SMTT(30) DEF ReadForUpdate, Sound, AdInv, TypeOK, OnTheWay, Findings, RevokedMeansRevoked, Made, ActiveRows, Alike, Table
<1>9. LostOnlyToOverlap'
  BY <1>0, SMTT(30) DEF Stays, ReadForUpdate, Sound, AdInv, TypeOK, OnTheWay, PrincipalKnown, LostOnlyToOverlap, Shows, Overlap
<1>10. LinkedOnce'
  BY <1>0, SMTT(30) DEF Stays, ReadForUpdate, Sound, AdInv, TypeOK, OnTheWay, IdentityKnown, LinkedOnce
<1>. QED  BY <1>1, <1>2, <1>3, <1>4, <1>5, <1>6, <1>7, <1>8, <1>9, <1>10 DEF Sound, AdInv

LEMMA ReadActiveSound ==
    ASSUME Sound, NEW c \in Change, ReadActive(c)
    PROVE  Sound'
<1>. USE NoneAssumption
     DEF rowVars, ownVars, Goto, Begins, Record, Running, Ended, OnRow, Kind, Committed, Giving, Taking, OnPrincipal
<1>0. \A d \in Change : at'[d] > 0 => Stays(d)
  BY HistoryStays DEF Step
<1>1. TypeOK'
  BY SMTT(30) DEF ReadActive, Sound, AdInv, TypeOK
<1>2. OnTheWay'
  BY SMTT(30) DEF ReadActive, Sound, AdInv, TypeOK, OnTheWay, CopiesShow
<1>3. CopiesShow'
  BY <1>0, SMTT(30) DEF Stays, ReadActive, Sound, AdInv, TypeOK, OnTheWay, CopiesShow, LostOnlyToOverlap, Shows, Overlap
<1>4. Findings'
  BY SMTT(30) DEF ReadActive, Sound, AdInv, TypeOK, OnTheWay, Findings, Made, ActiveRows, Alike, Table
<1>5. RowsStand'
  BY SMTT(30) DEF ReadActive, Sound, AdInv, TypeOK, OnTheWay, Findings, RowsStand, Made, ActiveRows, Alike, Table
<1>6. PrincipalKnown'
  BY <1>0, SMTT(30) DEF Stays, ReadActive, Sound, AdInv, TypeOK, OnTheWay, PrincipalKnown
<1>7. IdentityKnown'
  BY <1>0, SMTT(30) DEF Stays, ReadActive, Sound, AdInv, TypeOK, OnTheWay, IdentityKnown, IdentityRow, NoIdentity
<1>8. RevokedMeansRevoked'
  BY SMTT(30) DEF ReadActive, Sound, AdInv, TypeOK, OnTheWay, Findings, RevokedMeansRevoked, Made, ActiveRows, Alike, Table
<1>9. LostOnlyToOverlap'
  BY <1>0, SMTT(30) DEF Stays, ReadActive, Sound, AdInv, TypeOK, OnTheWay, PrincipalKnown, LostOnlyToOverlap, Shows, Overlap
<1>10. LinkedOnce'
  BY <1>0, SMTT(30) DEF Stays, ReadActive, Sound, AdInv, TypeOK, OnTheWay, IdentityKnown, LinkedOnce
<1>. QED  BY <1>1, <1>2, <1>3, <1>4, <1>5, <1>6, <1>7, <1>8, <1>9, <1>10 DEF Sound, AdInv

LEMMA ReadRowsSound ==
    ASSUME Sound, NEW c \in Change, ReadRows(c)
    PROVE  Sound'
<1>. USE NoneAssumption
     DEF rowVars, ownVars, Goto, Begins, Record, Running, Ended, OnRow, Kind, Committed, Giving, Taking, OnPrincipal
<1>0. \A d \in Change : at'[d] > 0 => Stays(d)
  BY HistoryStays DEF Step
<1>1. TypeOK'
  BY SMTT(30) DEF ReadRows, Sound, AdInv, TypeOK
<1>2. OnTheWay'
  BY SMTT(30) DEF ReadRows, Sound, AdInv, TypeOK, OnTheWay, CopiesShow
<1>3. CopiesShow'
  BY <1>0, SMTT(30) DEF Stays, ReadRows, Sound, AdInv, TypeOK, OnTheWay, CopiesShow, LostOnlyToOverlap, Shows, Overlap
<1>4. Findings'
  BY SMTT(30) DEF ReadRows, Sound, AdInv, TypeOK, OnTheWay, Findings, Made, ActiveRows, Alike, Table
<1>5. RowsStand'
  BY SMTT(30) DEF ReadRows, Sound, AdInv, TypeOK, OnTheWay, Findings, RowsStand, Made, ActiveRows, Alike, Table
<1>6. PrincipalKnown'
  BY <1>0, SMTT(30) DEF Stays, ReadRows, Sound, AdInv, TypeOK, OnTheWay, PrincipalKnown
<1>7. IdentityKnown'
  BY <1>0, SMTT(30) DEF Stays, ReadRows, Sound, AdInv, TypeOK, OnTheWay, IdentityKnown, IdentityRow, NoIdentity
<1>8. RevokedMeansRevoked'
  BY SMTT(30) DEF ReadRows, Sound, AdInv, TypeOK, OnTheWay, Findings, RevokedMeansRevoked, Made, ActiveRows, Alike, Table
<1>9. LostOnlyToOverlap'
  BY <1>0, SMTT(30) DEF Stays, ReadRows, Sound, AdInv, TypeOK, OnTheWay, PrincipalKnown, LostOnlyToOverlap, Shows, Overlap
<1>10. LinkedOnce'
  BY <1>0, SMTT(30) DEF Stays, ReadRows, Sound, AdInv, TypeOK, OnTheWay, IdentityKnown, LinkedOnce
<1>. QED  BY <1>1, <1>2, <1>3, <1>4, <1>5, <1>6, <1>7, <1>8, <1>9, <1>10 DEF Sound, AdInv

LEMMA ReadIdentitySound ==
    ASSUME Sound, NEW c \in Change, ReadIdentity(c)
    PROVE  Sound'
<1>. USE NoneAssumption
     DEF rowVars, ownVars, Goto, Begins, Record, Running, Ended, OnRow, Kind, Committed, Giving, Taking, OnPrincipal
<1>0. \A d \in Change : at'[d] > 0 => Stays(d)
  BY HistoryStays DEF Step
<1>1. TypeOK'
  BY SMTT(30) DEF ReadIdentity, Sound, AdInv, TypeOK
<1>2. OnTheWay'
  BY SMTT(30) DEF ReadIdentity, Sound, AdInv, TypeOK, OnTheWay, CopiesShow
<1>3. CopiesShow'
  BY <1>0, SMTT(30) DEF Stays, ReadIdentity, Sound, AdInv, TypeOK, OnTheWay, CopiesShow, LostOnlyToOverlap, Shows, Overlap
<1>4. Findings'
  BY SMTT(30) DEF ReadIdentity, Sound, AdInv, TypeOK, OnTheWay, Findings, Made, ActiveRows, Alike, Table
<1>5. RowsStand'
  BY SMTT(30) DEF ReadIdentity, Sound, AdInv, TypeOK, OnTheWay, Findings, RowsStand, Made, ActiveRows, Alike, Table
<1>6. PrincipalKnown'
  BY <1>0, SMTT(30) DEF Stays, ReadIdentity, Sound, AdInv, TypeOK, OnTheWay, PrincipalKnown
<1>7. IdentityKnown'
  BY <1>0, SMTT(30) DEF Stays, ReadIdentity, Sound, AdInv, TypeOK, OnTheWay, IdentityKnown, IdentityRow, NoIdentity
<1>8. RevokedMeansRevoked'
  BY SMTT(30) DEF ReadIdentity, Sound, AdInv, TypeOK, OnTheWay, Findings, RevokedMeansRevoked, Made, ActiveRows, Alike, Table
<1>9. LostOnlyToOverlap'
  BY <1>0, SMTT(30) DEF Stays, ReadIdentity, Sound, AdInv, TypeOK, OnTheWay, PrincipalKnown, LostOnlyToOverlap, Shows, Overlap
<1>10. LinkedOnce'
  BY <1>0, SMTT(30) DEF Stays, ReadIdentity, Sound, AdInv, TypeOK, OnTheWay, IdentityKnown, LinkedOnce
<1>. QED  BY <1>1, <1>2, <1>3, <1>4, <1>5, <1>6, <1>7, <1>8, <1>9, <1>10 DEF Sound, AdInv

LEMMA LoadPrincipalSound ==
    ASSUME Sound, NEW c \in Change, LoadPrincipal(c)
    PROVE  Sound'
<1>. USE NoneAssumption
     DEF rowVars, ownVars, Goto, Begins, Record, Running, Ended, OnRow, Kind, Committed, Giving, Taking, OnPrincipal
<1>0. \A d \in Change : at'[d] > 0 => Stays(d)
  BY HistoryStays DEF Step
<1>1. TypeOK'
  BY SMTT(30) DEF LoadPrincipal, Sound, AdInv, TypeOK
<1>2. OnTheWay'
  BY SMTT(30) DEF LoadPrincipal, Sound, AdInv, TypeOK, OnTheWay, CopiesShow
<1>3. CopiesShow'
  BY <1>0, SMTT(30) DEF Stays, LoadPrincipal, Sound, AdInv, TypeOK, OnTheWay, CopiesShow, LostOnlyToOverlap, Shows, Overlap
<1>4. Findings'
  BY SMTT(30) DEF LoadPrincipal, Sound, AdInv, TypeOK, OnTheWay, Findings, Made, ActiveRows, Alike, Table
<1>5. RowsStand'
  BY SMTT(30) DEF LoadPrincipal, Sound, AdInv, TypeOK, OnTheWay, Findings, RowsStand, Made, ActiveRows, Alike, Table
<1>6. PrincipalKnown'
  BY <1>0, SMTT(30) DEF Stays, LoadPrincipal, Sound, AdInv, TypeOK, OnTheWay, PrincipalKnown
<1>7. IdentityKnown'
  BY <1>0, SMTT(30) DEF Stays, LoadPrincipal, Sound, AdInv, TypeOK, OnTheWay, IdentityKnown, IdentityRow, NoIdentity
<1>8. RevokedMeansRevoked'
  BY SMTT(30) DEF LoadPrincipal, Sound, AdInv, TypeOK, OnTheWay, Findings, RevokedMeansRevoked, Made, ActiveRows, Alike, Table
<1>9. LostOnlyToOverlap'
  BY <1>0, SMTT(30) DEF Stays, LoadPrincipal, Sound, AdInv, TypeOK, OnTheWay, PrincipalKnown, LostOnlyToOverlap, Shows, Overlap
<1>10. LinkedOnce'
  BY <1>0, SMTT(30) DEF Stays, LoadPrincipal, Sound, AdInv, TypeOK, OnTheWay, IdentityKnown, LinkedOnce
<1>. QED  BY <1>1, <1>2, <1>3, <1>4, <1>5, <1>6, <1>7, <1>8, <1>9, <1>10 DEF Sound, AdInv

LEMMA LoadIdentitySound ==
    ASSUME Sound, NEW c \in Change, LoadIdentity(c)
    PROVE  Sound'
<1>. USE NoneAssumption
     DEF rowVars, ownVars, Goto, Begins, Record, Running, Ended, OnRow, Kind, Committed, Giving, Taking, OnPrincipal
<1>0. \A d \in Change : at'[d] > 0 => Stays(d)
  BY HistoryStays DEF Step
<1>1. TypeOK'
  BY IdentityType DEF LoadIdentity, Sound, AdInv, TypeOK
<1>2. OnTheWay'
  BY SMTT(30) DEF LoadIdentity, Sound, AdInv, TypeOK, OnTheWay, CopiesShow
<1>3. CopiesShow'
  BY <1>0, SMTT(30) DEF Stays, LoadIdentity, Sound, AdInv, TypeOK, OnTheWay, CopiesShow, LostOnlyToOverlap, Shows, Overlap
<1>4. Findings'
  BY SMTT(30) DEF LoadIdentity, Sound, AdInv, TypeOK, OnTheWay, Findings, Made, ActiveRows, Alike, Table
<1>5. RowsStand'
  BY SMTT(30) DEF LoadIdentity, Sound, AdInv, TypeOK, OnTheWay, Findings, RowsStand, Made, ActiveRows, Alike, Table
<1>6. PrincipalKnown'
  BY <1>0, SMTT(30) DEF Stays, LoadIdentity, Sound, AdInv, TypeOK, OnTheWay, PrincipalKnown
<1>7. IdentityKnown'
  BY <1>0, SMTT(30) DEF Stays, LoadIdentity, Sound, AdInv, TypeOK, OnTheWay, IdentityKnown, IdentityRow, NoIdentity
<1>8. RevokedMeansRevoked'
  BY SMTT(30) DEF LoadIdentity, Sound, AdInv, TypeOK, OnTheWay, Findings, RevokedMeansRevoked, Made, ActiveRows, Alike, Table
<1>9. LostOnlyToOverlap'
  BY <1>0, SMTT(30) DEF Stays, LoadIdentity, Sound, AdInv, TypeOK, OnTheWay, PrincipalKnown, LostOnlyToOverlap, Shows, Overlap
<1>10. LinkedOnce'
  BY <1>0, SMTT(30) DEF Stays, LoadIdentity, Sound, AdInv, TypeOK, OnTheWay, IdentityKnown, LinkedOnce
<1>. QED  BY <1>1, <1>2, <1>3, <1>4, <1>5, <1>6, <1>7, <1>8, <1>9, <1>10 DEF Sound, AdInv

LEMMA LockIdentitySound ==
    ASSUME Sound, NEW c \in Change, LockIdentity(c)
    PROVE  Sound'
<1>. USE NoneAssumption
     DEF rowVars, ownVars, Goto, Begins, Record, Running, Ended, OnRow, Kind, Committed, Giving, Taking, OnPrincipal
<1>0. \A d \in Change : at'[d] > 0 => Stays(d)
  BY HistoryStays DEF Step
<1>1. TypeOK'
  BY SMTT(30) DEF LockIdentity, Sound, AdInv, TypeOK
<1>2. OnTheWay'
  BY SMTT(30) DEF LockIdentity, Sound, AdInv, TypeOK, OnTheWay, CopiesShow
<1>3. CopiesShow'
  BY <1>0, SMTT(30) DEF Stays, LockIdentity, Sound, AdInv, TypeOK, OnTheWay, CopiesShow, LostOnlyToOverlap, Shows, Overlap
<1>4. Findings'
  BY SMTT(30) DEF LockIdentity, Sound, AdInv, TypeOK, OnTheWay, Findings, Made, ActiveRows, Alike, Table
<1>5. RowsStand'
  BY SMTT(30) DEF LockIdentity, Sound, AdInv, TypeOK, OnTheWay, Findings, RowsStand, Made, ActiveRows, Alike, Table
<1>6. PrincipalKnown'
  BY <1>0, SMTT(30) DEF Stays, LockIdentity, Sound, AdInv, TypeOK, OnTheWay, PrincipalKnown
<1>7. IdentityKnown'
  BY <1>0, SMTT(30) DEF Stays, LockIdentity, Sound, AdInv, TypeOK, OnTheWay, IdentityKnown, IdentityRow, NoIdentity
<1>8. RevokedMeansRevoked'
  BY SMTT(30) DEF LockIdentity, Sound, AdInv, TypeOK, OnTheWay, Findings, RevokedMeansRevoked, Made, ActiveRows, Alike, Table
<1>9. LostOnlyToOverlap'
  BY <1>0, SMTT(30) DEF Stays, LockIdentity, Sound, AdInv, TypeOK, OnTheWay, PrincipalKnown, LostOnlyToOverlap, Shows, Overlap
<1>10. LinkedOnce'
  BY <1>0, SMTT(30) DEF Stays, LockIdentity, Sound, AdInv, TypeOK, OnTheWay, IdentityKnown, LinkedOnce
<1>. QED  BY <1>1, <1>2, <1>3, <1>4, <1>5, <1>6, <1>7, <1>8, <1>9, <1>10 DEF Sound, AdInv

LEMMA SelectRowsSound ==
    ASSUME Sound, NEW c \in Change, SelectRows(c)
    PROVE  Sound'
<1>. USE NoneAssumption
     DEF rowVars, ownVars, Goto, Begins, Record, Running, Ended, OnRow, Kind, Committed, Giving, Taking, OnPrincipal
<1>0. \A d \in Change : at'[d] > 0 => Stays(d)
  BY HistoryStays DEF Step
<1>1. TypeOK'
  BY SMTT(30) DEF SelectRows, Sound, AdInv, TypeOK, ActiveRows, Made
<1>2. OnTheWay'
  BY SMTT(30) DEF SelectRows, Sound, AdInv, TypeOK, OnTheWay, CopiesShow
<1>3. CopiesShow'
  BY <1>0, SMTT(30) DEF Stays, SelectRows, Sound, AdInv, TypeOK, OnTheWay, CopiesShow, LostOnlyToOverlap, Shows, Overlap
<1>4. Findings'
  BY SMTT(30) DEF SelectRows, Sound, AdInv, TypeOK, OnTheWay, Findings, Made, ActiveRows, Alike, Table
<1>5. RowsStand'
  <2>1. UNCHANGED <<at, call, revoked>> /\ pc'[c] = "commit"
    BY DEF SelectRows, Sound, AdInv, TypeOK
  <2>2. \A g \in Change : pc'[g] \in {"done", "kept"} => pc'[g] = pc[g] /\ read'[g] = read[g]
    BY <2>1 DEF SelectRows, Sound, AdInv, TypeOK
  <2>. QED
    BY <2>1, <2>2 DEF Sound, RowsStand, ActiveRows, Made, Alike, Table
<1>6. PrincipalKnown'
  BY <1>0, SMTT(30) DEF Stays, SelectRows, Sound, AdInv, TypeOK, OnTheWay, PrincipalKnown
<1>7. IdentityKnown'
  BY <1>0, SMTT(30) DEF Stays, SelectRows, Sound, AdInv, TypeOK, OnTheWay, IdentityKnown, IdentityRow, NoIdentity
<1>8. RevokedMeansRevoked'
  BY SMTT(30) DEF SelectRows, Sound, AdInv, TypeOK, OnTheWay, Findings, RevokedMeansRevoked, Made, ActiveRows, Alike, Table
<1>9. LostOnlyToOverlap'
  BY <1>0, SMTT(30) DEF Stays, SelectRows, Sound, AdInv, TypeOK, OnTheWay, PrincipalKnown, LostOnlyToOverlap, Shows, Overlap
<1>10. LinkedOnce'
  BY <1>0, SMTT(30) DEF Stays, SelectRows, Sound, AdInv, TypeOK, OnTheWay, IdentityKnown, LinkedOnce
<1>. QED  BY <1>1, <1>2, <1>3, <1>4, <1>5, <1>6, <1>7, <1>8, <1>9, <1>10 DEF Sound, AdInv

LEMMA CommitPrincipalSound ==
    ASSUME Sound, NEW c \in Change, CommitPrincipal(c)
    PROVE  Sound'
<1>. USE NoneAssumption
     DEF rowVars, ownVars, Goto, Begins, Record, Running, Ended, OnRow, Kind, Committed, Giving, Taking, OnPrincipal
<1>0. \A d \in Change : at'[d] > 0 => Stays(d)
  BY HistoryStays DEF Step
<1>1. TypeOK'
  <2>1. principal' \in PrincipalRow
    BY WrittenFields
  <2>. QED
    BY <2>1 DEF CommitPrincipal, Sound, AdInv, TypeOK
<1>2. OnTheWay'
  <2>1. principal'.row
    BY WrittenFields
  <2>. QED
    BY <2>1, SMTT(30) DEF CommitPrincipal, Sound, AdInv, TypeOK, OnTheWay
<1>3. CopiesShow'
  BY <1>0, SMTT(30) DEF Stays, CommitPrincipal, Written, Intended, Column, Fresh, NoRow, Sound, AdInv, TypeOK, OnTheWay, CopiesShow, LostOnlyToOverlap, Shows, Overlap
<1>4. Findings'
  BY SMTT(30) DEF CommitPrincipal, Written, Intended, Column, Fresh, NoRow, Sound, AdInv, TypeOK, OnTheWay, Findings, Made, ActiveRows, Alike, Table
<1>5. RowsStand'
  BY SMTT(30) DEF CommitPrincipal, Written, Intended, Column, Fresh, NoRow, Sound, AdInv, TypeOK, OnTheWay, Findings, RowsStand, Made, ActiveRows, Alike, Table
<1>6. PrincipalKnown'
  <2>1. /\ UNCHANGED <<call, copy, loaded, read>> /\ at'[c] = now + 1 /\ now' = now + 1
        /\ \A d \in Change \ {c} : at'[d] = at[d] /\ pc'[d] = pc[d]
        /\ \A d \in Change : at[d] \in Nat /\ at[d] <= now /\ read[d] \in Nat /\ read[d] <= now
        /\ at[c] = 0 /\ now \in Nat /\ OnRow(c) /\ pc[c] = "commit" /\ pc'[c] = "done"
        /\ \A d \in Change : Committed(d) => read[d] < at[d]
    BY DEF CommitPrincipal, Sound, AdInv, TypeOK, OnTheWay
  <2>2. principal'.row
    BY WrittenFields
  <2>3. \A k \in Key, d \in Change : principal'.metadata[k] = d => at'[d] > 0
    <3>1. SUFFICES ASSUME NEW k \in Key, NEW d \in Change, d # c, principal'.metadata[k] = d
                   PROVE  Committed(d)
      BY <2>1
    <3>2. CASE principal'.metadata = principal.metadata
      BY <3>1, <3>2 DEF Sound, PrincipalKnown
    <3>3. CASE principal'.metadata = Intended(c).metadata
      <4>1. Intended(c).metadata[k] # c => Intended(c).metadata[k] \in {None, copy[c].metadata[k]}
        BY DEF Intended
      <4>. QED  BY <3>1, <3>3, <4>1 DEF Sound, PrincipalKnown
    <3>. QED  BY <3>2, <3>3, WrittenFields
  <2>4. ASSUME NEW x \in Change, OnRow(x), pc'[x] = "commit", loaded[x].active # principal'.active
        PROVE  \E d \in Change : OnRow(d) /\ at'[d] > read[x] /\ WroteActive(d)'
    <3>1. x # c /\ pc[x] = "commit"
      BY <2>1, <2>4
    <3>2. CASE principal'.active = principal.active
      <4>1. PICK d \in Change : OnRow(d) /\ at[d] > read[x] /\ WroteActive(d)
        BY <2>4, <3>1, <3>2 DEF Sound, PrincipalKnown
      <4>2. d # c /\ at'[d] > 0
        BY <2>1, <4>1
      <4>. QED  BY <1>0, <2>1, <4>1, <4>2 DEF Stays
    <3>3. CASE principal'.active # principal.active
      <4>1. WroteActive(c)
        BY <3>3, WrittenFields
      <4>2. at'[c] > read[x] /\ at'[c] > 0
        BY <2>1
      <4>. QED  BY <1>0, <2>1, <4>1, <4>2 DEF Stays
    <3>. QED  BY <3>2, <3>3
  <2>. QED
    BY <2>1, <2>2, <2>3, <2>4 DEF Sound, PrincipalKnown
<1>7. IdentityKnown'
  BY <1>0, SMTT(30) DEF Stays, CommitPrincipal, Written, Intended, Column, Fresh, NoRow, Sound, AdInv, TypeOK, OnTheWay, IdentityKnown, IdentityRow, NoIdentity
<1>8. RevokedMeansRevoked'
  BY SMTT(30) DEF CommitPrincipal, Written, Intended, Column, Fresh, NoRow, Sound, AdInv, TypeOK, OnTheWay, Findings, RevokedMeansRevoked, Made, ActiveRows, Alike, Table
<1>9. LostOnlyToOverlap'
  <2>1. /\ UNCHANGED <<call, copy, loaded, read>> /\ at'[c] = now + 1 /\ now' = now + 1
        /\ \A d \in Change \ {c} : at'[d] = at[d] /\ pc'[d] = pc[d]
        /\ \A d \in Change : at[d] \in Nat /\ at[d] <= now /\ read[d] \in Nat /\ read[d] <= now
        /\ at[c] = 0 /\ now \in Nat /\ OnRow(c) /\ pc[c] = "commit" /\ pc'[c] = "done"
        /\ \A d \in Change : Committed(d) => read[d] < at[d]
    BY DEF CommitPrincipal, Sound, AdInv, TypeOK, OnTheWay
  <2>. SUFFICES ASSUME NEW x \in Change, at'[x] > 0
                PROVE
        /\ Kind(x) = "prefer" =>
              \/ principal'.metadata[call[x].key] = x
              \/ \E d \in Change :
                    /\ at'[x] < at'[d]
                    /\ \/ OnRow(d) /\ read[d] < at'[x] /\ read[x] < at'[d] /\ WroteMetadata(d)
                       \/ Kind(d) = "prefer" /\ call[d].key = call[x].key
        /\ Kind(x) \in {"activate", "deactivate"} =>
              \/ principal'.active = (Kind(x) = "activate")
              \/ \E d \in Change :
                    /\ d # x /\ at'[d] > 0
                    /\ \/ OnRow(d) /\ read[d] < at'[x] /\ read[x] < at'[d] /\ WroteActive(d)
                       \/ at'[x] < at'[d] /\ Kind(d) \in {"activate", "deactivate"}
    BY <1>0, <2>1 DEF LostOnlyToOverlap, Shows, Overlap, Stays
  <2>2. CASE x = c
    <3>1. Kind(c) = "prefer" => principal'.metadata[call[c].key] = c
      BY <2>1, IntendedFields, WrittenFields
    <3>2. ASSUME Kind(c) \in {"activate", "deactivate"},
                 principal'.active # (Kind(c) = "activate")
          PROVE  \E d \in Change : d # c /\ at'[d] > 0 /\ OnRow(d)
                                     /\ read[d] < at'[c] /\ read[c] < at'[d]
                                     /\ WroteActive(d)
      <4>1. Intended(c).active = (Kind(c) = "activate")
        BY <2>1, <3>2, IntendedFields
      <4>2. loaded[c].active # principal.active
        BY <3>2, <4>1, WrittenFields
      <4>3. PICK d \in Change : OnRow(d) /\ at[d] > read[c] /\ WroteActive(d)
        BY <2>1, <4>2 DEF Sound, PrincipalKnown
      <4>. QED  BY <2>1, <4>3
    <3>. QED  BY <2>2, <3>1, <3>2
  <2>3. CASE x # c /\ read[c] < at[x] /\ OnRow(x)
    <3>1. at'[x] = at[x] /\ Committed(x) /\ read[x] < at'[c]
      BY <2>1, <2>3
    <3>2. Shows(principal, now)
      BY DEF Sound, LostOnlyToOverlap
    <3>3. WroteMetadata(c) \/ principal'.metadata = principal.metadata
      BY WrittenFields
    <3>4. WroteActive(c) \/ principal'.active = principal.active
      BY WrittenFields
    <3>5. ASSUME Kind(x) = "prefer", principal'.metadata[call[x].key] # x
          PROVE  \E d \in Change :
                    /\ at'[x] < at'[d]
                    /\ \/ OnRow(d) /\ read[d] < at'[x] /\ read[x] < at'[d] /\ WroteMetadata(d)
                       \/ Kind(d) = "prefer" /\ call[d].key = call[x].key
      <4>1. CASE WroteMetadata(c)
        BY <2>1, <2>3, <3>1, <4>1
      <4>2. CASE principal'.metadata = principal.metadata
        BY <2>1, <3>1, <3>2, <3>5, <4>2 DEF Shows, Overlap
      <4>. QED  BY <3>3, <4>1, <4>2
    <3>6. ASSUME Kind(x) \in {"activate", "deactivate"}, principal'.active # (Kind(x) = "activate")
          PROVE  \E d \in Change :
                    /\ d # x /\ at'[d] > 0
                    /\ \/ OnRow(d) /\ read[d] < at'[x] /\ read[x] < at'[d] /\ WroteActive(d)
                       \/ at'[x] < at'[d] /\ Kind(d) \in {"activate", "deactivate"}
      <4>1. CASE WroteActive(c)
        BY <2>1, <2>3, <3>1, <4>1
      <4>2. CASE principal'.active = principal.active
        BY <2>1, <3>1, <3>2, <3>6, <4>2 DEF Shows, Overlap
      <4>. QED  BY <3>4, <4>1, <4>2
    <3>. QED  BY <3>5, <3>6
  <2>4. CASE x # c /\ at[x] <= read[c] /\ OnRow(x)
    <3>0. at'[x] = at[x] /\ Committed(x)
      BY <2>1, <2>4
    <3>1. Kind(c) # "create"
      BY <2>1, <2>4, <3>0 DEF Sound, PrincipalKnown
    <3>2. Shows(copy[c], read[c]) /\ Shows(principal, now)
      BY <2>1, <3>1 DEF Sound, AdInv, CopiesShow, LostOnlyToOverlap
    <3>3. ASSUME Kind(x) = "prefer", principal'.metadata[call[x].key] # x
          PROVE  \E d \in Change :
                    /\ at'[x] < at'[d]
                    /\ \/ OnRow(d) /\ read[d] < at'[x] /\ read[x] < at'[d] /\ WroteMetadata(d)
                       \/ Kind(d) = "prefer" /\ call[d].key = call[x].key
      <4>1. call[x].key \in Key
        BY <3>3, CallType DEF Sound, AdInv
      <4>2. CASE principal'.metadata = principal.metadata
        BY <2>1, <3>0, <3>2, <3>3, <4>2 DEF Shows, Overlap
      <4>3. CASE principal'.metadata = Intended(c).metadata /\ copy[c].metadata[call[x].key] # x
        BY <2>1, <2>4, <3>0, <3>2, <3>3, <4>3 DEF Shows, Overlap
      <4>4. CASE principal'.metadata = Intended(c).metadata /\ copy[c].metadata[call[x].key] = x
        <5>1. Kind(c) = "prefer" /\ call[c].key = call[x].key
          BY <2>1, <3>1, <3>3, <4>1, <4>4, IntendedFields DEF OnRow, OnPrincipal
        <5>. QED  BY <2>1, <3>0, <5>1
      <4>. QED  BY <4>2, <4>3, <4>4, WrittenFields
    <3>4. ASSUME Kind(x) \in {"activate", "deactivate"}, principal'.active # (Kind(x) = "activate")
          PROVE  \E d \in Change :
                    /\ d # x /\ at'[d] > 0
                    /\ \/ OnRow(d) /\ read[d] < at'[x] /\ read[x] < at'[d] /\ WroteActive(d)
                       \/ at'[x] < at'[d] /\ Kind(d) \in {"activate", "deactivate"}
      <4>1. CASE Kind(c) \in {"activate", "deactivate"}
        BY <2>1, <2>4, <3>0, <4>1
      <4>2. CASE Kind(c) = "prefer" /\ principal'.active = copy[c].active
        BY <2>1, <2>4, <3>0, <3>2, <3>4, <4>2 DEF Shows, Overlap
      <4>3. CASE principal'.active = principal.active
        BY <2>1, <2>4, <3>0, <3>2, <3>4, <4>3 DEF Shows, Overlap
      <4>. QED
        BY <2>1, <3>1, <4>1, <4>2, <4>3, WrittenFields, IntendedFields DEF OnRow, OnPrincipal
    <3>. QED  BY <3>3, <3>4
  <2>. QED
    BY <2>1, <2>2, <2>3, <2>4 DEF OnRow, OnPrincipal
<1>10. LinkedOnce'
  <2>1. /\ UNCHANGED <<call, read>> /\ Kind(c) # "link"
        /\ \A d \in Change \ {c} : at'[d] = at[d]
        /\ at[c] = 0
    BY DEF CommitPrincipal, Sound, AdInv, TypeOK, OnTheWay
  <2>. SUFFICES ASSUME NEW a \in Change, NEW b \in Change, Kind(a) = "link", Kind(b) = "link",
                       at'[a] > 0, at'[a] < at'[b]
                PROVE  \E r \in Change : /\ Unlinks(r)
                         /\ read[r] < at'[a] /\ at'[a] < at'[r] /\ at'[r] < at'[b]
    BY <1>0, <1>1, <2>1 DEF LinkedOnce, Stays, TypeOK
  <2>2. PICK r \in Change : /\ Unlinks(r) /\ read[r] < at[a]
                            /\ at[a] < at[r] /\ at[r] < at[b]
    BY <2>1 DEF Sound, LinkedOnce
  <2>. QED  BY <2>1, <2>2 DEF Sound, AdInv, TypeOK
<1>. QED  BY <1>1, <1>2, <1>3, <1>4, <1>5, <1>6, <1>7, <1>8, <1>9, <1>10 DEF Sound, AdInv

LEMMA CommitIdentitySound ==
    ASSUME Sound, NEW c \in Change, CommitIdentity(c)
    PROVE  Sound'
<1>. USE NoneAssumption
     DEF rowVars, ownVars, Goto, Begins, Record, Running, Ended, OnRow, Kind, Committed, Giving, Taking, OnPrincipal
<1>0. \A d \in Change : at'[d] > 0 => Stays(d)
  BY HistoryStays DEF Step
<1>1. TypeOK'
  <2>1. identity' \in IdentityRow
    BY IdentityType DEF CommitIdentity, Sound, AdInv, Column
  <2>. QED
    BY <2>1 DEF CommitIdentity, Sound, AdInv, TypeOK
<1>2. OnTheWay'
  BY SMTT(30) DEF CommitIdentity, Sound, AdInv, TypeOK, OnTheWay, CopiesShow
<1>3. CopiesShow'
  BY <1>0, SMTT(30) DEF Stays, CommitIdentity, Sound, AdInv, TypeOK, OnTheWay, CopiesShow, LostOnlyToOverlap, Shows, Overlap
<1>4. Findings'
  BY SMTT(30) DEF CommitIdentity, Sound, AdInv, TypeOK, OnTheWay, Findings, Made, ActiveRows, Alike, Table
<1>5. RowsStand'
  BY SMTT(30) DEF CommitIdentity, Sound, AdInv, TypeOK, OnTheWay, Findings, RowsStand, Made, ActiveRows, Alike, Table
<1>6. PrincipalKnown'
  BY <1>0, SMTT(30) DEF Stays, CommitIdentity, Sound, AdInv, TypeOK, OnTheWay, PrincipalKnown
<1>7. IdentityKnown'
  <2>1. /\ UNCHANGED <<call, read, lock, external, bound>> /\ at'[c] = now + 1
        /\ \A d \in Change \ {c} : at'[d] = at[d] /\ pc'[d] = pc[d]
        /\ \A d \in Change : at[d] \in Nat /\ at[d] <= now
        /\ at[c] = 0 /\ now \in Nat /\ Kind(c) = "register"
        /\ pc[c] = "commit" /\ pc'[c] = "done" /\ lock = None
    BY DEF CommitIdentity, Sound, AdInv, TypeOK, OnTheWay
  <2>2. identity'.row
    BY DEF CommitIdentity
  <2>3. identity.link # None /\ identity'.link = None => Unlinks(c)
    BY NoneAssumption DEF CommitIdentity, Column, Unlinks
  <2>4. ASSUME NEW a \in Change, Kind(a) = "link", at'[a] > 0, identity'.link = None
        PROVE  \E r \in Change : Unlinks(r)' /\ read[r] < at'[a] /\ at'[a] < at'[r]
    <3>1. a # c /\ at'[a] = at[a] /\ Committed(a)
      BY <2>1, <2>4
    <3>2. CASE identity.link # None
      <4>1. Unlinks(c)' /\ at[a] < at'[c]
        BY <1>0, <2>1, <2>3, <2>4, <3>1, <3>2 DEF Stays
      <4>2. read[c] < at[a]
        BY <2>1, <2>4, <3>1 DEF Sound, IdentityKnown
      <4>. QED  BY <3>1, <4>1, <4>2
    <3>3. CASE identity.link = None
      <4>1. PICK r \in Change : Unlinks(r) /\ read[r] < at[a] /\ at[a] < at[r]
        BY <2>4, <3>1, <3>3 DEF Sound, IdentityKnown
      <4>2. r # c /\ at'[r] > 0
        BY <2>1, <3>1, <4>1
      <4>. QED  BY <1>0, <2>1, <3>1, <4>1, <4>2 DEF Stays
    <3>. QED  BY <3>2, <3>3
  <2>5. ASSUME NEW r \in Change, Kind(r) = "register", pc'[r] \in {"load_identity", "commit"},
               NEW a \in Change, Kind(a) = "link", at'[a] > 0
        PROVE  read[r] < at'[a]
    BY <2>1, <2>5 DEF Sound, IdentityKnown
  <2>. QED
    BY <2>1, <2>2, <2>4, <2>5 DEF IdentityKnown
<1>8. RevokedMeansRevoked'
  BY SMTT(30) DEF CommitIdentity, Sound, AdInv, TypeOK, OnTheWay, Findings, RevokedMeansRevoked, Made, ActiveRows, Alike, Table
<1>9. LostOnlyToOverlap'
  BY <1>0, SMTT(30) DEF Stays, CommitIdentity, Sound, AdInv, TypeOK, OnTheWay, PrincipalKnown, LostOnlyToOverlap, Shows, Overlap
<1>10. LinkedOnce'
  <2>1. /\ UNCHANGED <<call, read>> /\ Kind(c) # "link"
        /\ \A d \in Change \ {c} : at'[d] = at[d]
        /\ at[c] = 0
    BY DEF CommitIdentity, Sound, AdInv, TypeOK, OnTheWay
  <2>. SUFFICES ASSUME NEW a \in Change, NEW b \in Change, Kind(a) = "link", Kind(b) = "link",
                       at'[a] > 0, at'[a] < at'[b]
                PROVE  \E r \in Change : /\ Unlinks(r)
                         /\ read[r] < at'[a] /\ at'[a] < at'[r] /\ at'[r] < at'[b]
    BY <1>0, <1>1, <2>1 DEF LinkedOnce, Stays, TypeOK
  <2>2. PICK r \in Change : /\ Unlinks(r) /\ read[r] < at[a]
                            /\ at[a] < at[r] /\ at[r] < at[b]
    BY <2>1 DEF Sound, LinkedOnce
  <2>. QED  BY <2>1, <2>2 DEF Sound, AdInv, TypeOK
<1>. QED  BY <1>1, <1>2, <1>3, <1>4, <1>5, <1>6, <1>7, <1>8, <1>9, <1>10 DEF Sound, AdInv

LEMMA CommitLinkSound ==
    ASSUME Sound, NEW c \in Change, CommitLink(c)
    PROVE  Sound'
<1>. USE NoneAssumption
     DEF rowVars, ownVars, Goto, Begins, Record, Running, Ended, OnRow, Kind, Committed, Giving, Taking, OnPrincipal
<1>0. \A d \in Change : at'[d] > 0 => Stays(d)
  BY HistoryStays DEF Step
<1>1. TypeOK'
  <2>1. identity' \in IdentityRow
    BY DEF CommitLink, Sound, AdInv, TypeOK, OnTheWay, IdentityKnown, IdentityRow, NoIdentity
  <2>. QED
    BY <2>1 DEF CommitLink, Sound, AdInv, TypeOK
<1>2. OnTheWay'
  BY SMTT(30) DEF CommitLink, Sound, AdInv, TypeOK, OnTheWay, CopiesShow
<1>3. CopiesShow'
  BY <1>0, SMTT(30) DEF Stays, CommitLink, Sound, AdInv, TypeOK, OnTheWay, CopiesShow, LostOnlyToOverlap, Shows, Overlap
<1>4. Findings'
  BY SMTT(30) DEF CommitLink, Sound, AdInv, TypeOK, OnTheWay, Findings, Made, ActiveRows, Alike, Table
<1>5. RowsStand'
  BY SMTT(30) DEF CommitLink, Sound, AdInv, TypeOK, OnTheWay, Findings, RowsStand, Made, ActiveRows, Alike, Table
<1>6. PrincipalKnown'
  BY <1>0, SMTT(30) DEF Stays, CommitLink, Sound, AdInv, TypeOK, OnTheWay, PrincipalKnown
<1>7. IdentityKnown'
  BY <1>0, SMTT(30) DEF Stays, CommitLink, Sound, AdInv, TypeOK, OnTheWay, IdentityKnown, IdentityRow, NoIdentity
<1>8. RevokedMeansRevoked'
  BY SMTT(30) DEF CommitLink, Sound, AdInv, TypeOK, OnTheWay, Findings, RevokedMeansRevoked, Made, ActiveRows, Alike, Table
<1>9. LostOnlyToOverlap'
  BY <1>0, SMTT(30) DEF Stays, CommitLink, Sound, AdInv, TypeOK, OnTheWay, PrincipalKnown, LostOnlyToOverlap, Shows, Overlap
<1>10. LinkedOnce'
  <2>1. /\ UNCHANGED <<call, read>> /\ at'[c] = now + 1
        /\ \A d \in Change \ {c} : at'[d] = at[d]
        /\ \A d \in Change : at[d] \in Nat /\ at[d] <= now
        /\ at[c] = 0 /\ now \in Nat
    BY DEF CommitLink, Sound, AdInv, TypeOK, OnTheWay
  <2>2. lock = c /\ identity.link = None
    BY DEF CommitLink, Sound, AdInv, TypeOK, OnTheWay, IdentityKnown
  <2>. SUFFICES ASSUME NEW a \in Change, NEW b \in Change, Kind(a) = "link", Kind(b) = "link",
                       at'[a] > 0, at'[a] < at'[b]
                PROVE  \E r \in Change : /\ Unlinks(r)
                         /\ read[r] < at'[a] /\ at'[a] < at'[r] /\ at'[r] < at'[b]
    BY <1>0, <1>1, <2>1 DEF LinkedOnce, Stays, TypeOK
  <2>3. a # c
    BY <2>1
  <2>4. CASE b = c
    <3>1. PICK r \in Change : Unlinks(r) /\ read[r] < at[a] /\ at[a] < at[r]
      BY <2>1, <2>2, <2>3 DEF Sound, IdentityKnown
    <3>. QED  BY <2>1, <2>3, <2>4, <3>1 DEF CommitLink
  <2>5. CASE b # c
    <3>1. PICK r \in Change : /\ Unlinks(r) /\ read[r] < at[a]
                              /\ at[a] < at[r] /\ at[r] < at[b]
      BY <2>1, <2>3, <2>5 DEF Sound, LinkedOnce
    <3>. QED  BY <2>1, <2>3, <2>5, <3>1 DEF CommitLink
  <2>. QED  BY <2>4, <2>5
<1>. QED  BY <1>1, <1>2, <1>3, <1>4, <1>5, <1>6, <1>7, <1>8, <1>9, <1>10 DEF Sound, AdInv

LEMMA CommitRowSound ==
    ASSUME Sound, NEW c \in Change, CommitRow(c)
    PROVE  Sound'
<1>. USE NoneAssumption
     DEF rowVars, ownVars, Goto, Begins, Record, Running, Ended, OnRow, Kind, Committed, Giving, Taking, OnPrincipal
<1>0. \A d \in Change : at'[d] > 0 => Stays(d)
  BY HistoryStays DEF Step
<1>1. TypeOK'
  BY SMTT(30) DEF CommitRow, Sound, AdInv, TypeOK
<1>2. OnTheWay'
  BY SMTT(30) DEF CommitRow, Sound, AdInv, TypeOK, OnTheWay, CopiesShow
<1>3. CopiesShow'
  BY <1>0, SMTT(30) DEF Stays, CommitRow, Sound, AdInv, TypeOK, OnTheWay, CopiesShow, LostOnlyToOverlap, Shows, Overlap
<1>4. Findings'
  BY SMTT(30) DEF CommitRow, Sound, AdInv, TypeOK, OnTheWay, Findings, Made, ActiveRows, Alike, Table
<1>5. RowsStand'
  <2>1. /\ UNCHANGED <<call, read, revoked>> /\ at'[c] > 0
        /\ \A d \in Change \ {c} : at'[d] = at[d] /\ pc'[d] = pc[d]
        /\ ~Committed(c)
    BY DEF CommitRow, Sound, AdInv, TypeOK, OnTheWay
  <2>2. ActiveRows' = ActiveRows \cup {c}
    BY <2>1 DEF CommitRow, Sound, Findings, ActiveRows, Made
  <2>. QED
    BY <2>1, <2>2 DEF CommitRow, Sound, RowsStand, Alike, Table
<1>6. PrincipalKnown'
  BY <1>0, SMTT(30) DEF Stays, CommitRow, Sound, AdInv, TypeOK, OnTheWay, PrincipalKnown
<1>7. IdentityKnown'
  BY <1>0, SMTT(30) DEF Stays, CommitRow, Sound, AdInv, TypeOK, OnTheWay, IdentityKnown, IdentityRow, NoIdentity
<1>8. RevokedMeansRevoked'
  BY SMTT(30) DEF CommitRow, Sound, AdInv, TypeOK, OnTheWay, Findings, RevokedMeansRevoked, Made, ActiveRows, Alike, Table
<1>9. LostOnlyToOverlap'
  BY <1>0, SMTT(30) DEF Stays, CommitRow, Sound, AdInv, TypeOK, OnTheWay, PrincipalKnown, LostOnlyToOverlap, Shows, Overlap
<1>10. LinkedOnce'
  BY <1>0, SMTT(30) DEF Stays, CommitRow, Sound, AdInv, TypeOK, OnTheWay, IdentityKnown, LinkedOnce
<1>. QED  BY <1>1, <1>2, <1>3, <1>4, <1>5, <1>6, <1>7, <1>8, <1>9, <1>10 DEF Sound, AdInv

LEMMA CommitRevocationSound ==
    ASSUME Sound, NEW c \in Change, CommitRevocation(c)
    PROVE  Sound'
<1>. USE NoneAssumption
     DEF rowVars, ownVars, Goto, Begins, Record, Running, Ended, OnRow, Kind, Committed, Giving, Taking, OnPrincipal
<1>0. \A d \in Change : at'[d] > 0 => Stays(d)
  BY HistoryStays DEF Step
<1>1. TypeOK'
  BY SMTT(30) DEF CommitRevocation, Sound, AdInv, TypeOK
<1>2. OnTheWay'
  BY SMTT(30) DEF CommitRevocation, Sound, AdInv, TypeOK, OnTheWay, CopiesShow
<1>3. CopiesShow'
  BY <1>0, SMTT(30) DEF Stays, CommitRevocation, Sound, AdInv, TypeOK, OnTheWay, CopiesShow, LostOnlyToOverlap, Shows, Overlap
<1>4. Findings'
  BY SMTT(30) DEF CommitRevocation, Sound, AdInv, TypeOK, OnTheWay, Findings, Made, ActiveRows, Alike, Table
<1>5. RowsStand'
  BY SMTT(30) DEF CommitRevocation, Sound, AdInv, TypeOK, OnTheWay, Findings, RowsStand, Made, ActiveRows, Alike, Table
<1>6. PrincipalKnown'
  BY <1>0, SMTT(30) DEF Stays, CommitRevocation, Sound, AdInv, TypeOK, OnTheWay, PrincipalKnown
<1>7. IdentityKnown'
  BY <1>0, SMTT(30) DEF Stays, CommitRevocation, Sound, AdInv, TypeOK, OnTheWay, IdentityKnown, IdentityRow, NoIdentity
<1>8. RevokedMeansRevoked'
  BY SMTT(30) DEF CommitRevocation, Sound, AdInv, TypeOK, OnTheWay, Findings, RevokedMeansRevoked, Made, ActiveRows, Alike, Table
<1>9. LostOnlyToOverlap'
  BY <1>0, SMTT(30) DEF Stays, CommitRevocation, Sound, AdInv, TypeOK, OnTheWay, PrincipalKnown, LostOnlyToOverlap, Shows, Overlap
<1>10. LinkedOnce'
  BY <1>0, SMTT(30) DEF Stays, CommitRevocation, Sound, AdInv, TypeOK, OnTheWay, IdentityKnown, LinkedOnce
<1>. QED  BY <1>1, <1>2, <1>3, <1>4, <1>5, <1>6, <1>7, <1>8, <1>9, <1>10 DEF Sound, AdInv

LEMMA CommitNothingSound ==
    ASSUME Sound, NEW c \in Change, CommitNothing(c)
    PROVE  Sound'
<1>. USE NoneAssumption
     DEF rowVars, ownVars, Goto, Begins, Record, Running, Ended, OnRow, Kind, Committed, Giving, Taking, OnPrincipal
<1>0. \A d \in Change : at'[d] > 0 => Stays(d)
  BY HistoryStays DEF Step
<1>1. TypeOK'
  BY SMTT(30) DEF CommitNothing, Sound, AdInv, TypeOK
<1>2. OnTheWay'
  BY SMTT(30) DEF CommitNothing, Sound, AdInv, TypeOK, OnTheWay, CopiesShow
<1>3. CopiesShow'
  BY <1>0, SMTT(30) DEF Stays, CommitNothing, Sound, AdInv, TypeOK, OnTheWay, CopiesShow, LostOnlyToOverlap, Shows, Overlap
<1>4. Findings'
  BY SMTT(30) DEF CommitNothing, Sound, AdInv, TypeOK, OnTheWay, Findings, Made, ActiveRows, Alike, Table
<1>5. RowsStand'
  BY SMTT(30) DEF CommitNothing, Sound, AdInv, TypeOK, OnTheWay, Findings, RowsStand, Made, ActiveRows, Alike, Table
<1>6. PrincipalKnown'
  BY <1>0, SMTT(30) DEF Stays, CommitNothing, Sound, AdInv, TypeOK, OnTheWay, PrincipalKnown
<1>7. IdentityKnown'
  BY <1>0, SMTT(30) DEF Stays, CommitNothing, Sound, AdInv, TypeOK, OnTheWay, IdentityKnown, IdentityRow, NoIdentity
<1>8. RevokedMeansRevoked'
  BY SMTT(30) DEF CommitNothing, Sound, AdInv, TypeOK, OnTheWay, Findings, RevokedMeansRevoked, Made, ActiveRows, Alike, Table
<1>9. LostOnlyToOverlap'
  BY <1>0, SMTT(30) DEF Stays, CommitNothing, Sound, AdInv, TypeOK, OnTheWay, PrincipalKnown, LostOnlyToOverlap, Shows, Overlap
<1>10. LinkedOnce'
  BY <1>0, SMTT(30) DEF Stays, CommitNothing, Sound, AdInv, TypeOK, OnTheWay, IdentityKnown, LinkedOnce
<1>. QED  BY <1>1, <1>2, <1>3, <1>4, <1>5, <1>6, <1>7, <1>8, <1>9, <1>10 DEF Sound, AdInv

LEMMA FailSound ==
    ASSUME Sound, NEW c \in Change, Fail(c)
    PROVE  Sound'
<1>. USE NoneAssumption
     DEF rowVars, ownVars, Goto, Begins, Record, Running, Ended, OnRow, Kind, Committed, Giving, Taking, OnPrincipal
<1>0. \A d \in Change : at'[d] > 0 => Stays(d)
  BY HistoryStays DEF Step
<1>1. TypeOK'
  BY SMTT(30) DEF Fail, Sound, AdInv, TypeOK
<1>2. OnTheWay'
  BY SMTT(30) DEF Fail, Sound, AdInv, TypeOK, OnTheWay, CopiesShow
<1>3. CopiesShow'
  BY <1>0, SMTT(30) DEF Stays, Fail, Sound, AdInv, TypeOK, OnTheWay, CopiesShow, LostOnlyToOverlap, Shows, Overlap
<1>4. Findings'
  BY SMTT(30) DEF Fail, Sound, AdInv, TypeOK, OnTheWay, Findings, Made, ActiveRows, Alike, Table
<1>5. RowsStand'
  BY SMTT(30) DEF Fail, Sound, AdInv, TypeOK, OnTheWay, Findings, RowsStand, Made, ActiveRows, Alike, Table
<1>6. PrincipalKnown'
  BY <1>0, SMTT(30) DEF Stays, Fail, Sound, AdInv, TypeOK, OnTheWay, PrincipalKnown
<1>7. IdentityKnown'
  BY <1>0, SMTT(30) DEF Stays, Fail, Sound, AdInv, TypeOK, OnTheWay, IdentityKnown, IdentityRow, NoIdentity
<1>8. RevokedMeansRevoked'
  BY SMTT(30) DEF Fail, Sound, AdInv, TypeOK, OnTheWay, Findings, RevokedMeansRevoked, Made, ActiveRows, Alike, Table
<1>9. LostOnlyToOverlap'
  BY <1>0, SMTT(30) DEF Stays, Fail, Sound, AdInv, TypeOK, OnTheWay, PrincipalKnown, LostOnlyToOverlap, Shows, Overlap
<1>10. LinkedOnce'
  BY <1>0, SMTT(30) DEF Stays, Fail, Sound, AdInv, TypeOK, OnTheWay, IdentityKnown, LinkedOnce
<1>. QED  BY <1>1, <1>2, <1>3, <1>4, <1>5, <1>6, <1>7, <1>8, <1>9, <1>10 DEF Sound, AdInv

-------------------------------------------------------------------------------
LEMMA StepSound ==
    ASSUME Sound, NEW c \in Change, Step(c)
    PROVE  Sound'
BY ReadForCreateSound, ReadForUpdateSound, ReadActiveSound, ReadRowsSound,
   ReadIdentitySound, LoadPrincipalSound, LoadIdentitySound, LockIdentitySound,
   SelectRowsSound, CommitPrincipalSound, CommitIdentitySound, CommitLinkSound,
   CommitRowSound, CommitRevocationSound, CommitNothingSound, FailSound DEF Step

LEMMA StutterSound == Sound /\ UNCHANGED vars => Sound'
<1>. SUFFICES ASSUME Sound, UNCHANGED vars PROVE Sound'
  OBVIOUS
<1>0. \A d \in Change : Stays(d)
  BY DEF vars, Stays, WroteActive, WroteMetadata, Intended, NewActive, Unlinks, Kind
<1>. USE DEF vars, Committed, Made, ActiveRows, Alike, Table, Kind, OnRow
<1>1. AdInv'
  <2>1. TypeOK' /\ OnTheWay'
    BY DEF Sound, AdInv, TypeOK, OnTheWay
  <2>2. CopiesShow'
    BY <1>0 DEF Sound, AdInv, CopiesShow, Shows, Overlap, Stays
  <2>. QED  BY <2>1, <2>2 DEF AdInv
<1>2. Findings' /\ RowsStand' /\ RevokedMeansRevoked'
  BY DEF Sound, Findings, RowsStand, RevokedMeansRevoked
<1>3. PrincipalKnown' /\ IdentityKnown' /\ LinkedOnce'
  BY <1>0 DEF Sound, PrincipalKnown, IdentityKnown, LinkedOnce, Stays
<1>4. LostOnlyToOverlap'
  BY <1>0 DEF Sound, LostOnlyToOverlap, Shows, Overlap, Stays
<1>. QED  BY <1>1, <1>2, <1>3, <1>4 DEF Sound

THEOREM SoundTheorem == Spec => []Sound
<1>1. Sound /\ [Next]_vars => Sound'
  BY StepSound, StutterSound DEF Next, Finished
<1>. QED  BY InitSound, <1>1, PTL DEF Spec

\* Every variable of Administration keeps its type, and each change on its way
\* knows of the rows what the properties below rest on.
THEOREM ChangesAreTyped == Spec => []AdInv
<1>1. Sound => AdInv
  BY DEF Sound
<1>. QED  BY <1>1, SoundTheorem, PTL

\* No row of the exact scope outlives a revocation, duplicates included, but
\* one committed since the revocation looked.
THEOREM RevocationsAreComplete == Spec => []RevokedMeansRevoked
<1>1. Sound => RevokedMeansRevoked
  BY DEF Sound
<1>. QED  BY <1>1, SoundTheorem, PTL

\* A grant that was answered is in force for an active principal, unless it was
\* revoked since the change first looked.
THEOREM GrantsStand == Spec => []GrantStands
<1>1. Sound => GrantStands
  <2>. SUFFICES ASSUME Sound, NEW g \in Change, Kind(g) \in Giving, pc[g] \in {"done", "kept"},
                       principal.active,
                       NEW h \in ActiveRows, Alike(h, g)
                PROVE  Check(call[g].scope)
    BY DEF Sound, RowsStand, GrantStands
  <2>1. call[g].scope \in GrantScope
    BY CallType DEF Sound, AdInv
  <2>2. ~IsEmpty(call[g].scope) /\ Covers(call[h].scope, call[g].scope)
    BY <2>1, ScopeAssumption DEF Alike, Covers
  <2>3. Table(h) \in {"direct", "role"}
    BY DEF Table
  <2>. QED  BY <2>2, <2>3 DEF Check, Direct, Assigned
<1>. QED  BY <1>1, SoundTheorem, PTL

\* What was committed about a principal is lost only to a later change of the
\* same thing, or to one that overlapped and found the column other than it
\* wanted it.
THEOREM PrincipalsKeepTheirChanges == Spec => []LostOnlyToOverlap
<1>1. Sound => LostOnlyToOverlap
  BY DEF Sound
<1>. QED  BY <1>1, SoundTheorem, PTL

\* A second link of an identity gets through only after a registration that had
\* not seen the identity, found it linked and took the link away.
THEOREM IdentitiesAreLinkedOnce == Spec => []LinkedOnce
<1>1. Sound => LinkedOnce
  BY DEF Sound
<1>. QED  BY <1>1, SoundTheorem, PTL

-------------------------------------------------------------------------------
(* The evaluators.                                                         *)

LEMMA EvaluatorsOfAScope ==
    ASSUME NEW s
    PROVE  /\ Check(s) <=> Effective(s) # {}
           /\ ~IsEmpty(s) => (GrantState(s).effective <=> Check(s))
<1>1. CASE ~principal.active \/ IsEmpty(s)
  BY <1>1 DEF Check, Effective, GrantState
<1>2. CASE principal.active /\ ~IsEmpty(s)
  <2>1. Direct(s) => "direct" \in Effective(s)
    BY <1>2 DEF Effective
  <2>2. Assigned(s) => "role" \in Effective(s)
    BY <1>2 DEF Effective
  <2>3. Effective(s) # {} => Direct(s) \/ Assigned(s)
    BY <1>2 DEF Effective
  <2>. QED  BY <1>2, <2>1, <2>2, <2>3 DEF Check, GrantState
<1>. QED  BY <1>1, <1>2

\* Only a row is active: a page that knows no row hides no permission.
OnlyRowsAreActive == principal.active => principal.row

LEMMA ActiveRowTheorem == Spec => []OnlyRowsAreActive
<1>1. Init => OnlyRowsAreActive
  BY DEF Init, OnlyRowsAreActive, NoRow, Fresh
<1>2. OnlyRowsAreActive /\ [Next]_vars => OnlyRowsAreActive'
  <2>. SUFFICES ASSUME OnlyRowsAreActive, [Next]_vars
                PROVE  OnlyRowsAreActive'
    OBVIOUS
  <2>1. CASE principal' = principal
    BY <2>1 DEF OnlyRowsAreActive
  <2>2. ASSUME NEW c \in Change, CommitPrincipal(c)
        PROVE  OnlyRowsAreActive'
    <3>1. Written(c).row
      BY DEF Written, Intended
    <3>. QED  BY <2>2, <3>1 DEF CommitPrincipal, OnlyRowsAreActive
  <2>3. ASSUME NEW c \in Change, Step(c), ~CommitPrincipal(c)
        PROVE  principal' = principal
    BY <2>3 DEF Step, ReadForCreate, ReadForUpdate, ReadActive, ReadRows, ReadIdentity,
       LoadPrincipal, LoadIdentity, LockIdentity, SelectRows, CommitIdentity, CommitLink,
       CommitRow, CommitRevocation, CommitNothing, Fail, rowVars
  <2>4. UNCHANGED vars => principal' = principal
    BY DEF vars
  <2>. QED  BY <2>1, <2>2, <2>3, <2>4 DEF Next, Finished
<1>. QED  BY <1>1, <1>2, PTL DEF Spec

\* The decision, the effective permissions and the console's grant state agree
\* on every scope, and the pages show them for every organization and workplace.
THEOREM EvaluatorsAgree == Spec => []ViewsAgree
<1>1. OnlyRowsAreActive => ViewsAgree
  <2>. HAVE OnlyRowsAreActive
  <2>1. ASSUME NEW s
        PROVE  /\ PermissionsPage(s).held <=> Check(s)
               /\ GrantsPage(s).held <=> Check(s)
    <3>1. Check(s) => principal.row /\ ~IsEmpty(s)
      BY DEF Check, OnlyRowsAreActive
    <3>2. /\ Check(s) <=> Effective(s) # {}
          /\ ~IsEmpty(s) => (GrantState(s).effective <=> Check(s))
      BY EvaluatorsOfAScope
    <3>3. PermissionsPage(s).held <=> principal.row /\ Effective(s) # {}
      BY DEF PermissionsPage
    <3>4. GrantsPage(s).held <=> principal.row /\ ~IsEmpty(s) /\ GrantState(s).effective
      BY DEF GrantsPage
    <3>. QED  BY <3>1, <3>2, <3>3, <3>4
  <2>. QED  BY <2>1, EvaluatorsOfAScope DEF ViewsAgree
<1>. QED  BY <1>1, ActiveRowTheorem, PTL
===============================================================================
