-------------------------------- MODULE Reports --------------------------------
(***************************************************************************)
(* Reports that no plugin makes alone.  Report Studio asks every enabled   *)
(* plugin for its report definition and for its dataset, each in a         *)
(* transaction of that plugin and under the decisions of Core, and shapes  *)
(* what it got.  The web console looks the definition up before, to issue  *)
(* a handle bound to the capabilities it declares; the command line has    *)
(* every dataset composed; a principal's own report asks no other plugin.  *)
(* Meanwhile plugins are enabled and disabled, grants and rows change.     *)
(* A decision of Core is one step here, and so are the rows a plugin       *)
(* selects: Authorization and Roster take these apart.                     *)
(***************************************************************************)
EXTENDS Scopes, SequencesExt

CONSTANTS
    Request,
    Caller, Own,  \* the principal that asks, the organization asked about
    Plugin, Definition, Dataset, Column, Value, Capability,
    Manage, Render, SelfView, \* capabilities with a part of their own
    Defines,      \* Defines[p]: the definition plugin p provides, or None
    Supplies,     \* Supplies[p]: its dataset, or None
    Self,         \* the plugin whose dataset is the caller's own
    Needs,        \* Needs[p]: what is decided before p reads
    NeedsPerRow,  \* NeedsPerRow[p]: what is decided for every row p read
    Columns,      \* Columns[d]: what dataset d publishes
    Parts,        \* Parts[f]: the datasets of definition f, in order
    Required,     \* Required[f]: the capabilities of its use case
    Filter, GroupBy, Detail, \* its shape
    Operator,     \* what the command line binds its handle to
    Grantable,    \* the grants there may be: pairs of a capability and a scope
    InitialBindings, \* what is bound at first, of plugins that are enabled
    InitialRows, NewRows, \* rows at first, and those that are added
    MaxRows, MaxChanges   \* bound a run

Kinds == {"catalogue", "definition", "compose", "self"}
Call == [kind : Kinds, definition : Definition \cup {None}]
Contract == {"definition", "dataset"}
Binding == Contract \X Plugin
Row == [Column -> Value]

\* Whether plugin p provides the contract k, and all it binds.
Provided(k, p) == (IF k = "definition" THEN Defines[p] ELSE Supplies[p]) # None
Offers(p) ==
    (IF Provided("definition", p) THEN <<<<"definition", p>>>> ELSE <<>>)
        \o (IF Provided("dataset", p) THEN <<<<"dataset", p>>>> ELSE <<>>)

ASSUME PluginAssumption ==
    /\ None \notin Plugin \cup Definition \cup Dataset
    /\ Defines \in [Plugin -> Definition \cup {None}]
    /\ Supplies \in [Plugin -> Dataset \cup {None}]
    /\ Self \in Plugin /\ Defines[Self] # None /\ Supplies[Self] # None
ASSUME ShapeAssumption ==
    /\ Parts \in [Definition -> Seq(Dataset)]
    /\ Filter \in [Definition -> SUBSET (Column \X Value)]
    /\ GroupBy \in [Definition -> Seq(Column)]
    /\ Detail \in [Definition -> Seq(Column)]
ASSUME CallerAssumption == Caller \in Principal /\ Own \in Organization
\* Nothing but the catalogue asks for authorization.manage.
ASSUME CapabilityAssumption ==
    /\ {Manage, Render, SelfView} \cup Operator \subseteq Capability
    /\ Manage \notin {Render, SelfView}
    /\ Needs \in [Plugin -> SUBSET (Capability \ {Manage})]
    /\ NeedsPerRow \in [Plugin -> SUBSET (Capability \ {Manage})]
    /\ Required \in [Definition -> SUBSET Capability]
ASSUME InitialAssumption ==
    /\ \A bs \in InitialBindings : bs \in Seq(Binding) /\ \A b \in ToSet(bs) : Provided(b[1], b[2])
    /\ InitialRows \in [Plugin -> Seq(Row)]
    /\ NewRows \in [Plugin -> SUBSET Row]
    /\ MaxChanges \in Nat

VARIABLES
    bindings, \* the contracts that are bound, <<contract, plugin>>, in their order
    owned,    \* the plugins that have a transaction owner
    granted,  \* what Core grants the caller
    rows,     \* rows[p]: the rows plugin p's dataset is made from
    changes,  \* how often anything of these was changed
    call,     \* call[r]: what is asked for
    pc,       \* pc[r]: where the request is, or how it ended
    caps,     \* caps[r]: the capabilities the handle is bound to
    queue,    \* queue[r]: the plugins still to be asked, listed by invoke_all
    wants,    \* wants[r]: what the plugin that is asked has to have decided
    found,    \* found[r]: the plugins whose definitions were answered
    answers,  \* answers[r]: the datasets answered, [by, rows], in their order
    report,   \* report[r]: the sections of the report that was committed
    moments   \* moments[r]: all that was the case since its last handle

shared == <<bindings, owned, granted, rows>>
vars == <<bindings, owned, granted, rows, changes, call, pc, caps, queue, wants, found,
          answers, report, moments>>

\* What of s is in S, in the order of s.
Only(s, S) ==
    LET upto[n \in 0 .. Len(s)] ==
            IF n = 0 THEN <<>>
            ELSE IF s[n] \in S THEN Append(upto[n - 1], s[n]) ELSE upto[n - 1]
    IN  upto[Len(s)]

\* The order of _bound: that of the bindings.
Bound(k) == LET of == Only(bindings, {k} \X Plugin)
            IN  [i \in DOMAIN of |-> of[i][2]]

Running == {"manage", "catalogue", "issue", "studio", "lookup", "dataset", "decide",
            "join", "compose", "own"}
Ended == {"listed", "unknown", "missing", "denied", "unowned", "failed", "done"}

\* A section of a report: groups of cells, or of a flat report the rows.
Groups == Seq([key : Seq(Value), rows : Seq(Seq(Value))])
Sections == [dataset : Dataset, by : Plugin \cup {None},
             state : {"not installed", "lacks columns", "shaped", "flat"},
             groups : Groups \cup Seq(Row)]
Moments == [bindings : Seq(Binding), owned : SUBSET Plugin, granted : SUBSET Grantable,
            rows : [Plugin -> Seq(Row)]]

TypeOK ==
    /\ bindings \in Seq(Binding)
    /\ owned \in SUBSET Plugin
    /\ granted \in SUBSET Grantable
    /\ rows \in [Plugin -> Seq(Row)]
    /\ changes \in 0 .. MaxChanges
    /\ call \in [Request -> Call]
    /\ pc \in [Request -> {"idle"} \cup Running \cup Ended]
    /\ caps \in [Request -> SUBSET Capability]
    /\ queue \in [Request -> Seq(Plugin)]
    /\ wants \in [Request -> SUBSET Capability]
    /\ found \in [Request -> Seq(Plugin)]
    /\ answers \in [Request -> Seq([by : Plugin, rows : Seq(Row)])]
    /\ report \in [Request -> Seq(Sections)]
    /\ moments \in [Request -> SUBSET Moments]

Init ==
    /\ bindings \in InitialBindings
    /\ owned = {b[2] : b \in ToSet(bindings)}
    /\ granted = Grantable
    /\ rows = InitialRows
    /\ changes = 0
    /\ call \in [Request -> {c \in Call : c.kind = "definition" <=> c.definition # None}]
    /\ pc = [r \in Request |-> "idle"]
    /\ caps = [r \in Request |-> {}]
    /\ queue = [r \in Request |-> <<>>]
    /\ wants = [r \in Request |-> {}]
    /\ found = [r \in Request |-> <<>>]
    /\ answers = [r \in Request |-> <<>>]
    /\ report = [r \in Request |-> <<>>]
    /\ moments = [r \in Request |-> {}]

Goto(r, l) == pc' = [pc EXCEPT ![r] = l]
Moment == [bindings |-> bindings, owned |-> owned, granted |-> granted, rows |-> rows]

-------------------------------------------------------------------------------
(* Shaping (atlas_sdk.reporting).                                          *)

Referenced(f) == {x[1] : x \in Filter[f]} \cup ToSet(GroupBy[f]) \cup ToSet(Detail[f])
Cells(row, names) == [i \in DOMAIN names |-> row[names[i]]]
Passes(row, f) == \A x \in Filter[f] : row[x[1]] = x[2]

\* Slip: a group is closed when another key follows.
AddAdjacent(groups, key, detail) ==
    IF groups # <<>> /\ Last(groups).key = key
    THEN [groups EXCEPT ![Len(groups)].rows = Append(@, detail)]
    ELSE Append(groups, [key |-> key, rows |-> <<detail>>])

\* A row joins the group of its key; groups keep the order of their first rows.
AddToGroup(groups, key, detail) ==
    IF \E i \in DOMAIN groups : groups[i].key = key
    THEN [i \in DOMAIN groups |->
             IF groups[i].key = key THEN [groups[i] EXCEPT !.rows = Append(@, detail)] ELSE groups[i]]
    ELSE Append(groups, [key |-> key, rows |-> <<detail>>])

Shape(of, f) ==
    LET upto[n \in 0 .. Len(of)] ==
            IF n = 0 THEN <<>>
            ELSE IF Passes(of[n], f)
            THEN AddToGroup(upto[n - 1], Cells(of[n], GroupBy[f]), Cells(of[n], Detail[f]))
            ELSE upto[n - 1]
    IN  upto[Len(of)]

-------------------------------------------------------------------------------
(* Decisions.                                                              *)

OrganizationScope == Resolve(Own, None, None)
SelfScope == Resolve(None, None, Caller)
HandleScope(what) == IF what.kind \in {"definition", "compose"} THEN OrganizationScope ELSE SelfScope

Permits(grants, c, scope) == \E g \in grants : g[1] = c /\ Covers(g[2], scope)
Decision(r, c, scope) ==
    HandleContains(HandleScope(call[r]), scope) /\ c \in caps[r] /\ Permits(granted, c, scope)

\* A handle is issued, bound to capabilities, and Core decides on the first.
Issue(r, bind, c, allowed, next) ==
    /\ caps' = [caps EXCEPT ![r] = bind]
    /\ moments' = [moments EXCEPT ![r] = {Moment}]
    /\ IF Permits(granted, c, HandleScope(call[r]))
       THEN allowed /\ Goto(r, next)
       ELSE Goto(r, "denied") /\ UNCHANGED queue
    /\ UNCHANGED <<shared, changes, call, wants, found, answers, report>>

List(r, k) == queue' = [queue EXCEPT ![r] = Bound(k)]

\* _reports, _render_report: the catalogue is read under authorization.manage.
BeginCatalogue(r) ==
    /\ pc[r] = "idle" /\ call[r].kind \in {"catalogue", "definition"}
    /\ Issue(r, {Manage}, Manage, List(r, "definition"), "catalogue")

\* The command line's report of every dataset.
BeginCompose(r) ==
    /\ pc[r] = "idle" /\ call[r].kind = "compose"
    /\ Issue(r, Operator, Render, UNCHANGED queue, "studio")

\* The caller's own report.
BeginSelf(r) ==
    /\ pc[r] = "idle" /\ call[r].kind = "self"
    /\ Issue(r, {SelfView}, SelfView, UNCHANGED queue, "own")

\* invoke_all calls the plugins it listed, whatever has become of them; without
\* a transaction owner the call raises.
Ask(r, from) ==
    /\ pc[r] = from /\ queue[r] # <<>>
    /\ Head(queue[r]) \in owned

AskUnowned(r) ==
    /\ pc[r] \in {"catalogue", "lookup", "dataset"} /\ queue[r] # <<>>
    /\ Head(queue[r]) \notin owned
    /\ Goto(r, "unowned")
    /\ UNCHANGED <<shared, changes, call, caps, queue, wants, found, answers, report, moments>>

\* A plugin answers with the one definition it owns.
AnswerDefinition(r) ==
    /\ Ask(r, "catalogue") \/ Ask(r, "lookup")
    /\ found' = [found EXCEPT ![r] = Append(@, Head(queue[r]))]
    /\ queue' = [queue EXCEPT ![r] = Tail(@)]
    /\ UNCHANGED <<shared, changes, call, pc, caps, wants, answers, report, moments>>

Known(r) == \E i \in DOMAIN found[r] : Defines[found[r][i]] = call[r].definition

\* The web console has the catalogue: it lists it, or goes on with a definition.
Catalogued(r) ==
    /\ pc[r] = "catalogue" /\ queue[r] = <<>>
    /\ Goto(r, IF call[r].kind = "catalogue" THEN "listed"
               ELSE IF Known(r) THEN "issue" ELSE "unknown")
    /\ found' = [found EXCEPT ![r] = <<>>]
    /\ UNCHANGED <<shared, changes, call, caps, queue, wants, answers, report, moments>>

\* A second handle, for report.render and what the use case requires.
IssueRender(r) ==
    /\ pc[r] = "issue"
    /\ Issue(r, {Render} \cup Required[call[r].definition], Render, UNCHANGED queue, "studio")

\* ReportStudioPlugin._authorized; then the definition is looked up again, or
\* every dataset is asked for.
Authorize(r) ==
    /\ pc[r] = "studio"
    /\ IF ~Decision(r, Render, OrganizationScope)
       THEN Goto(r, "denied") /\ UNCHANGED queue
       ELSE IF call[r].kind = "compose"
       THEN Goto(r, "dataset") /\ List(r, "dataset")
       ELSE Goto(r, "lookup") /\ List(r, "definition")
    /\ UNCHANGED <<shared, changes, call, caps, wants, found, answers, report, moments>>

\* _definition, then _installed_datasets.
LookedUp(r) ==
    /\ pc[r] = "lookup" /\ queue[r] = <<>>
    /\ IF Known(r)
       THEN Goto(r, "dataset") /\ List(r, "dataset")
       ELSE Goto(r, "missing") /\ UNCHANGED queue
    /\ UNCHANGED <<shared, changes, call, caps, wants, found, answers, report, moments>>

-------------------------------------------------------------------------------
(* A plugin supplies its dataset.                                          *)

AskDataset(r) ==
    /\ Ask(r, "dataset")
    /\ Goto(r, "decide")
    /\ wants' = [wants EXCEPT ![r] = Needs[Head(queue[r])]]
    /\ UNCHANGED <<shared, changes, call, caps, queue, found, answers, report, moments>>

\* Slip: whatever is bound to the handle is allowed.
DecideByHandle(r) ==
    /\ pc[r] \in {"decide", "join"} /\ Head(queue[r]) # Self
    /\ \E c \in wants[r] :
          IF c \in caps[r]
          THEN wants' = [wants EXCEPT ![r] = @ \ {c}] /\ UNCHANGED pc
          ELSE Goto(r, "denied") /\ UNCHANGED wants
    /\ UNCHANGED <<shared, changes, call, caps, queue, found, answers, report, moments>>

\* What a plugin needs is decided one after the other; a denial raises, through
\* invoke_all and the whole report.
Decide(r) ==
    /\ pc[r] \in {"decide", "join"} /\ Head(queue[r]) # Self
    /\ \E c \in wants[r] :
          IF Decision(r, c, OrganizationScope)
          THEN wants' = [wants EXCEPT ![r] = @ \ {c}] /\ UNCHANGED pc
          ELSE Goto(r, "denied") /\ UNCHANGED wants
    /\ UNCHANGED <<shared, changes, call, caps, queue, found, answers, report, moments>>

Answer(r, of) ==
    /\ answers' = [answers EXCEPT ![r] = Append(@, [by |-> Head(queue[r]), rows |-> of])]
    /\ UNCHANGED <<shared, changes, call, caps, queue, found, report, moments>>

ReadRows(r) ==
    /\ pc[r] = "decide" /\ wants[r] = {} /\ Head(queue[r]) # Self
    /\ LET p == Head(queue[r])
       IN  /\ Answer(r, rows[p])
           /\ wants' = [wants EXCEPT ![r] = IF rows[p] = <<>> THEN {} ELSE NeedsPerRow[p]]
    /\ Goto(r, "join")

\* The caller's own rows: who asks is what Core resolves from the handle.
OwnRows(of) == Only(of, {row \in Row : row["principal"] = Caller})

\* Slip: without a decision the dataset of the caller raises.
ReadOwnRowsOrRaise(r) ==
    /\ pc[r] = "decide" /\ Head(queue[r]) = Self
    /\ IF Decision(r, SelfView, Resolve(Own, None, Caller))
       THEN Answer(r, OwnRows(rows[Self])) /\ Goto(r, "join")
       ELSE Goto(r, "denied") /\ UNCHANGED <<shared, changes, call, caps, queue, found, answers,
                                             report, moments>>
    /\ wants' = [wants EXCEPT ![r] = {}]

\* SelfMonthlyDatasetContract: whoever may not see a self scope gets no rows.
ReadOwnRows(r) ==
    /\ pc[r] = "decide" /\ Head(queue[r]) = Self
    /\ Answer(r, IF Decision(r, SelfView, Resolve(Own, None, Caller)) THEN OwnRows(rows[Self]) ELSE <<>>)
    /\ wants' = [wants EXCEPT ![r] = {}]
    /\ Goto(r, "join")

\* The plugin's transaction commits.
Answered(r) ==
    /\ pc[r] = "join" /\ wants[r] = {}
    /\ queue' = [queue EXCEPT ![r] = Tail(@)]
    /\ Goto(r, "dataset")
    /\ UNCHANGED <<shared, changes, call, caps, wants, found, answers, report, moments>>

-------------------------------------------------------------------------------
(* The report.                                                             *)

\* The answer that is kept of a dataset: the last one.
Installed(of, d) == {i \in DOMAIN of : Supplies[of[i].by] = d}
Kept(of, d) == CHOOSE i \in Installed(of, d) : \A j \in Installed(of, d) : j <= i

Section(d, by, state, groups) == [dataset |-> d, by |-> by, state |-> state, groups |-> groups]

\* Slip: only what the first plugin answered is installed.
ShapedFirst(of, d, f) ==
    IF of = <<>> \/ Supplies[of[1].by] # d THEN Section(d, None, "not installed", <<>>)
    ELSE Section(d, of[1].by, "shaped", Shape(of[1].rows, f))

\* A dataset that nobody supplied, that lacks a column, or shaped.
Shaped(of, d, f) ==
    IF Installed(of, d) = {} THEN Section(d, None, "not installed", <<>>)
    ELSE LET a == of[Kept(of, d)]
         IN  IF Referenced(f) \subseteq Columns[d]
             THEN Section(d, a.by, "shaped", Shape(a.rows, f))
             ELSE Section(d, a.by, "lacks columns", <<>>)

\* The datasets in the order of their first answers.
Flat(of) ==
    LET firsts == Only([i \in DOMAIN of |-> i],
                       {i \in DOMAIN of : \A j \in 1 .. (i - 1) : Supplies[of[j].by] # Supplies[of[i].by]})
    IN  [n \in DOMAIN firsts |->
            LET d == Supplies[of[firsts[n]].by] a == of[Kept(of, d)]
            IN  Section(d, a.by, "flat", a.rows)]

\* Slip: a dataset that nobody supplied has no section.
ComposeInstalled(r) ==
    /\ pc[r] = "dataset" /\ queue[r] = <<>>
    /\ report' = [report EXCEPT ![r] =
          IF call[r].kind = "compose" THEN Flat(answers[r])
          ELSE LET f == call[r].definition
                   ds == SelectSeq(Parts[f], LAMBDA d : Installed(answers[r], d) # {})
               IN  [i \in DOMAIN ds |-> Shaped(answers[r], ds[i], f)]]
    /\ Goto(r, "compose")
    /\ UNCHANGED <<shared, changes, call, caps, queue, wants, found, answers, moments>>

\* A section for every dataset of the definition, or for every one answered.
Compose(r) ==
    /\ pc[r] = "dataset" /\ queue[r] = <<>>
    /\ report' = [report EXCEPT ![r] =
          IF call[r].kind = "compose" THEN Flat(answers[r])
          ELSE LET f == call[r].definition
               IN  [i \in DOMAIN Parts[f] |-> Shaped(answers[r], Parts[f][i], f)]]
    /\ Goto(r, "compose")
    /\ UNCHANGED <<shared, changes, call, caps, queue, wants, found, answers, moments>>

\* SelfReportingPlugin._render: the decision is the plugin's own, for the caller.
RenderOwn(r) ==
    /\ pc[r] = "own"
    /\ IF Decision(r, SelfView, SelfScope)
       THEN /\ report' = [report EXCEPT ![r] =
                   <<Section(Supplies[Self], Self, "shaped", Shape(OwnRows(rows[Self]), Defines[Self]))>>]
            /\ answers' = [answers EXCEPT ![r] = <<[by |-> Self, rows |-> OwnRows(rows[Self])]>>]
            /\ Goto(r, "compose")
       ELSE Goto(r, "denied") /\ UNCHANGED <<report, answers>>
    /\ UNCHANGED <<shared, changes, call, caps, queue, wants, found, moments>>

\* The report's transaction commits, with its audit record; Report Studio's with
\* its event.
Commit(r) ==
    /\ pc[r] = "compose"
    /\ Goto(r, "done")
    /\ UNCHANGED <<shared, changes, call, caps, queue, wants, found, answers, report, moments>>

\* The handle has expired or was revoked, or a statement or a commit fails.
Fail(r) ==
    /\ pc[r] \in Running
    /\ Goto(r, "failed")
    /\ report' = [report EXCEPT ![r] = <<>>]
    /\ UNCHANGED <<shared, changes, call, caps, queue, wants, found, answers, moments>>

-------------------------------------------------------------------------------
(* What changes meanwhile.                                                 *)

\* Requests note what is now the case.
Noted ==
    moments' = [r \in Request |-> IF pc[r] \in Running
                                  THEN moments[r] \cup {Moment'} ELSE moments[r]]
\* What changes when all requests have ended shows nothing more.
Changes ==
    /\ changes < MaxChanges /\ \E r \in Request : pc[r] \notin Ended
    /\ changes' = changes + 1
Elsewhere == UNCHANGED <<call, pc, caps, queue, wants, found, answers, report>>

IsBound(p, i) == \E n \in DOMAIN bindings : bindings[n] = Offers(p)[i]

\* enable: bind_contracts binds one contract after the other,
BindNext(p) ==
    /\ p \notin owned
    /\ \E i \in DOMAIN Offers(p) :
          /\ ~IsBound(p, i) /\ \A j \in 1 .. (i - 1) : IsBound(p, j)
          /\ bindings' = Append(bindings, Offers(p)[i])
          /\ IF i = 1 THEN Changes ELSE UNCHANGED changes
    /\ UNCHANGED <<owned, granted, rows>>
    /\ Elsewhere /\ Noted

\* and the transaction owner is registered after them.
RegisterOwner(p) ==
    /\ p \notin owned
    /\ \A i \in DOMAIN Offers(p) : IsBound(p, i)
    /\ owned' = owned \cup {p}
    /\ UNCHANGED <<bindings, granted, rows, changes>>
    /\ Elsewhere /\ Noted

\* disable: the bindings go,
Unbind(p) ==
    /\ p \in owned /\ \E i \in DOMAIN Offers(p) : IsBound(p, i)
    /\ Changes
    /\ bindings' = Only(bindings, Contract \X (Plugin \ {p}))
    /\ UNCHANGED <<owned, granted, rows>>
    /\ Elsewhere /\ Noted

\* and then the owner.
UnregisterOwner(p) ==
    /\ p \in owned /\ \A i \in DOMAIN Offers(p) : ~IsBound(p, i)
    /\ owned' = owned \ {p}
    /\ UNCHANGED <<bindings, granted, rows, changes>>
    /\ Elsewhere /\ Noted

\* An administrator withdraws a grant or gives it anew.
ChangeGrants ==
    /\ Changes
    /\ \E g \in Grantable : granted' \in {granted \cup {g}, granted \ {g}}
    /\ UNCHANGED <<bindings, owned, rows>>
    /\ Elsewhere /\ Noted

\* A plugin commits a row, or removes one.
ChangeRows(p) ==
    /\ Changes
    /\ \/ Len(rows[p]) < MaxRows
          /\ \E row \in NewRows[p] : rows' = [rows EXCEPT ![p] = Append(@, row)]
       \/ rows[p] # <<>> /\ rows' = [rows EXCEPT ![p] = Tail(@)]
    /\ UNCHANGED <<bindings, owned, granted>>
    /\ Elsewhere /\ Noted

Step(r) ==
    \/ BeginCatalogue(r) \/ BeginCompose(r) \/ BeginSelf(r) \/ AskUnowned(r) \/ AnswerDefinition(r) \/ Catalogued(r) \/ IssueRender(r)
    \/ Authorize(r) \/ LookedUp(r) \/ AskDataset(r) \/ Decide(r) \/ ReadRows(r)
    \/ ReadOwnRows(r) \/ Answered(r) \/ Compose(r) \/ RenderOwn(r) \/ Commit(r)

Next ==
    \/ \E r \in Request : Step(r) \/ Fail(r)
    \/ \E p \in Plugin : BindNext(p) \/ RegisterOwner(p) \/ Unbind(p) \/ UnregisterOwner(p)
                             \/ ChangeRows(p)
    \/ ChangeGrants

Spec == Init /\ [][Next]_vars

-------------------------------------------------------------------------------
(* Properties.                                                             *)

\* What plugin p has decided before it answers with rows.
Asked(p, of) == Needs[p] \cup (IF of = <<>> THEN {} ELSE NeedsPerRow[p])
Reported(r) == {report[r][i] : i \in DOMAIN report[r]}
AnswerOf(r, s) == answers[r][Kept(answers[r], s.dataset)].rows

\* The type invariant; a plugin is asked with its own needs and by the handle of
\* the use case, and a report has a section for every dataset of its definition.
RpInv ==
    /\ TypeOK
    /\ \A r \in Request :
          /\ pc[r] \in {"decide", "join"} =>
                queue[r] # <<>> /\ wants[r] \subseteq Asked(Head(queue[r]), <<0>>)
          /\ pc[r] \in {"issue", "dataset", "decide", "join", "compose"} /\ call[r].kind = "definition"
                => pc[r] = "issue" \/ {Render} \cup Required[call[r].definition] = caps[r]
          /\ pc[r] \in {"compose", "done"} =>
                call[r].kind # "definition" \/ Len(report[r]) = Len(Parts[call[r].definition])
          /\ pc[r] \in {"denied", "unowned", "missing", "failed", "listed", "unknown"} => report[r] = <<>>

\* Whose rows are in a report was enabled at a moment of the request, and what
\* that plugin asks for was bound to the request's last handle and granted at a
\* moment since: a revocation that was committed before stops it.  A principal's
\* own rows are in no report but its own, whatever the principal was granted:
\* not in that of an organization it belongs to.
RowsWereAllowed ==
    \A r \in Request : \A s \in Reported(r) :
        /\ s.by \notin {None, Self} =>
              /\ \E now \in moments[r] : s.by \in now.owned
              /\ \A c \in Asked(s.by, AnswerOf(r, s)) :
                    c \in caps[r] /\ \E now \in moments[r] : Permits(now.granted, c, OrganizationScope)
        /\ s.by = Self =>
              /\ call[r].kind # "self" => AnswerOf(r, s) = <<>>
              /\ \A i \in DOMAIN AnswerOf(r, s) : AnswerOf(r, s)[i]["principal"] = Caller

\* A report shows what was there: the rows of a dataset are those of one moment
\* since the handle, and of the plugin that is named for them; and where it says
\* "not installed", no plugin that supplies the dataset was enabled at a moment
\* of the request.
AnswersAreCurrent ==
    \A r \in Request : \A s \in Reported(r) :
        IF s.state = "not installed"
        THEN \E now \in moments[r] : \A n \in DOMAIN now.bindings :
                 now.bindings[n][1] = "dataset" => Supplies[now.bindings[n][2]] # s.dataset
        ELSE /\ Supplies[s.by] = s.dataset
             /\ \E now \in moments[r] :
                   \/ AnswerOf(r, s) = now.rows[s.by]
                   \/ /\ s.by = Self
                      /\ AnswerOf(r, s) \in {<<>>, OwnRows(now.rows[Self])}

\* What is asked of a request before it ends well.
Demanded(what) ==
    CASE what.kind = "self" -> {SelfView}
      [] what.kind = "catalogue" -> {Manage}
      [] OTHER -> {Manage, Render}
                      \cup UNION {Asked(p, <<0>>) : p \in {q \in Plugin : Supplies[q] # None} \ {Self}}

\* A request is refused for a cause: a grant was missing at a moment or is not
\* bound to the handle of a report, a definition was away, or a plugin was on its
\* way in or out.  In particular the caller's own dataset refuses no report.
RefusedForCause ==
    \A r \in Request :
        /\ pc[r] = "denied" => \E c \in Demanded(call[r]) :
              \/ \E now \in moments[r] : ~Permits(now.granted, c, HandleScope(call[r]))
              \/ c \notin caps[r] /\ c # Manage
        /\ pc[r] \in {"missing", "unknown"} => \E now \in moments[r] : \A p \in Plugin :
              Defines[p] = call[r].definition => <<"definition", p>> \notin ToSet(now.bindings)
        /\ pc[r] = "unowned" => \E p \in Plugin, now, then \in moments[r] :
              p \notin now.owned /\ Offers(p) # <<>> /\ ToSet(Offers(p)) \cap ToSet(then.bindings) # {}

\* The groups of a section are the rows that pass the filters, each once, in
\* the group of its key and in its order; no two groups have the same key, and
\* they come in the order of their first rows.
Regroups(groups, of, f) ==
    LET passed == Only(of, {row \in Row : Passes(row, f)})
        Key(i) == Cells(passed[i], GroupBy[f])
        Of(key) == LET rs == Only(of, {row \in Row : Passes(row, f) /\ Cells(row, GroupBy[f]) = key})
                   IN  [i \in DOMAIN rs |-> Cells(rs[i], Detail[f])]
    IN  /\ {groups[i].key : i \in DOMAIN groups} = {Key(i) : i \in DOMAIN passed}
        /\ \A i \in DOMAIN groups : groups[i].rows = Of(groups[i].key)
        /\ \A i, j \in DOMAIN groups : i < j =>
              \E n \in DOMAIN passed : /\ Key(n) = groups[i].key
                                      /\ \A m \in 1 .. n : Key(m) # groups[j].key

DefinitionOf(what) == IF what.kind = "self" THEN Defines[Self] ELSE what.definition
GroupsAreTheRows ==
    \A r \in Request : \A s \in Reported(r) : s.state = "shaped" =>
        Regroups(s.groups, AnswerOf(r, s), DefinitionOf(call[r]))

-------------------------------------------------------------------------------
(* The inductive invariant.  Its parts speak of one request by the values  *)
(* of its variables: what is asked for, where it is at, the capabilities   *)
(* that are bound, the plugins to be asked, the decisions that are wanted, *)
(* the answers and what was seen since the last handle.  As more is seen   *)
(* no part becomes false, so what changes meanwhile breaks none.           *)

\* Where a request of a kind can be, with which capabilities, and what is empty there.
Placed(what, at, bound, asked, wanted, of, made) ==
    /\ what.kind = "definition" => what.definition \in Definition
    /\ at = "catalogue" => what.kind \in {"catalogue", "definition"}
    /\ at \in {"issue", "lookup"} => what.kind = "definition"
    /\ at \in {"studio", "dataset", "decide", "join"} => what.kind \in {"definition", "compose"}
    /\ at = "own" => what.kind = "self" /\ bound = {SelfView}
    /\ at \in {"compose", "done"} => what.kind # "catalogue"
    /\ at \in {"studio", "lookup", "dataset", "decide", "join", "compose"} /\ what.kind = "definition"
          => bound = {Render} \cup Required[what.definition]
    /\ at \in {"idle", "catalogue", "issue", "studio", "lookup", "own"} => of = <<>>
    /\ at \notin {"compose", "done"} => made = <<>>
    /\ at \in {"compose", "done"} /\ what.kind = "definition" => Len(made) = Len(Parts[what.definition])
    /\ at \in {"decide", "join"} => asked # <<>>
    /\ at = "decide" => wanted \subseteq Needs[Head(asked)]
    /\ at = "join" => /\ of # <<>> /\ of[Len(of)].by = Head(asked)
                      /\ wanted \subseteq NeedsPerRow[Head(asked)]

\* invoke_all listed what was bound at one moment, and went through it.
Listed(k, asked, answered, seen) ==
    /\ \E now \in seen : \A p \in Plugin :
          <<k, p>> \in ToSet(now.bindings) => p \in ToSet(asked) \cup answered
    /\ \A p \in ToSet(asked) : Provided(k, p) /\ \E then \in seen : <<k, p>> \in ToSet(then.bindings)

Given(c, bound, seen) == c \in bound /\ \E now \in seen : Permits(now.granted, c, OrganizationScope)
WasOwned(p, seen) == \E now \in seen : p \in now.owned

\* The plugin that decides was enabled, and all that it wants no more is granted.
Deciding(p, wanted, bound, seen) ==
    p # Self => WasOwned(p, seen) /\ \A c \in Needs[p] \ wanted : Given(c, bound, seen)

\* An answer is of a plugin that was enabled, with rows it had, and all that it
\* asks for and wants no more is granted; that of the caller's own dataset holds
\* the caller's rows, and in a report of an organization none.
Vouched(a, wanted, what, bound, seen) ==
    /\ Supplies[a.by] # None
    /\ a.by # Self => /\ WasOwned(a.by, seen)
                      /\ \A c \in Asked(a.by, a.rows) \ wanted : Given(c, bound, seen)
                      /\ \E now \in seen : a.rows = now.rows[a.by]
    /\ a.by = Self => /\ what.kind # "self" => a.rows = <<>>
                      /\ \A i \in DOMAIN a.rows : a.rows[i]["principal"] = Caller
                      /\ \E now \in seen : a.rows \in {<<>>, OwnRows(now.rows[Self])}

\* A section is of the answer that is kept, or of a dataset that nobody supplied.
Told(s, what, of, seen) ==
    IF s.state = "not installed"
    THEN /\ s.by = None
         /\ \E now \in seen : \A p \in Plugin :
               <<"dataset", p>> \in ToSet(now.bindings) => Supplies[p] # s.dataset
    ELSE /\ Installed(of, s.dataset) # {} /\ s.by = of[Kept(of, s.dataset)].by
         /\ s.state = "shaped" =>
               what.kind # "compose" /\ s.groups = Shape(of[Kept(of, s.dataset)].rows, DefinitionOf(what))

\* What a refusal rests on.
Refused(what, at, bound, seen) ==
    /\ at = "denied" => \E c \in Demanded(what) :
          \/ \E now \in seen : ~Permits(now.granted, c, HandleScope(what))
          \/ c \notin bound /\ c # Manage
    /\ at \in {"missing", "unknown"} => \E now \in seen : \A p \in Plugin :
          Defines[p] = what.definition => <<"definition", p>> \notin ToSet(now.bindings)
    /\ at = "unowned" => \E p \in Plugin, now, then \in seen :
          p \notin now.owned /\ \E k \in Contract : Provided(k, p) /\ <<k, p>> \in ToSet(then.bindings)

\* The parts of one request.
Sound(what, at, bound, asked, wanted, names, of, made, seen) ==
    /\ Placed(what, at, bound, asked, wanted, of, made)
    /\ at \in {"catalogue", "lookup"} => Listed("definition", asked, ToSet(names), seen)
    /\ at \in {"dataset", "decide", "join"} =>
          Listed("dataset", asked, {of[i].by : i \in DOMAIN of}, seen)
    /\ at = "decide" => Deciding(Head(asked), wanted, bound, seen)
    /\ at \in {"dataset", "decide", "join", "compose", "done"} => \A i \in DOMAIN of :
          Vouched(of[i], IF at = "join" /\ i = Len(of) THEN wanted ELSE {}, what, bound, seen)
    /\ \A i \in DOMAIN made : Told(made[i], what, of, seen)
    /\ Refused(what, at, bound, seen)

\* Nothing is bound but what its plugin provides.
Offered == \A n \in DOMAIN bindings : Provided(bindings[n][1], bindings[n][2])

IInv ==
    /\ TypeOK
    /\ Offered
    /\ \A r \in Request :
          /\ pc[r] \in Running => Moment \in moments[r]
          /\ Sound(call[r], pc[r], caps[r], queue[r], wants[r], found[r], answers[r], report[r], moments[r])
===============================================================================
