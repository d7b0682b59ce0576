------------------------------ MODULE MCReports --------------------------------
EXTENDS Reports, TLC

CONSTANTS construct, work, summary, self, extern, \* plugins
          daily, crew, monthly,                   \* definitions
          workforce, people, entries,             \* datasets
          ann, bob, acme, manage, render, view, read, own

\* As the plugins of the repository do, and extern, that defines a report with
\* a use case over two datasets and supplies the workforce once more.
TheDefines == construct :> daily @@ work :> None @@ summary :> None @@ self :> monthly @@ extern :> crew
TheSupplies == construct :> None @@ work :> workforce @@ summary :> people @@ self :> entries
                  @@ extern :> workforce
TheNeeds == construct :> {} @@ work :> {view} @@ summary :> {render, read} @@ self :> {}
               @@ extern :> {render}
TheNeedsPerRow == [p \in Plugin |-> IF p = work THEN {read} ELSE {}]
TheColumns == workforce :> {"kind", "place", "name"} @@ people :> {"name"}
                 @@ entries :> {"month", "name"}
TheParts == daily :> <<workforce>> @@ crew :> <<workforce, people>> @@ monthly :> <<entries>>
TheRequired == daily :> {} @@ crew :> {view, read} @@ monthly :> {own}
TheFilter == daily :> {<<"kind", "site">>} @@ crew :> {} @@ monthly :> {}
TheGroupBy == daily :> <<"place">> @@ crew :> <<"place">> @@ monthly :> <<"month">>
TheDetail == [f \in Definition |-> <<"name">>]
TheOperator == {render, read, view}

Scoped(o, p) == [organization |-> o, workplace |-> None, principal |-> p]
TheGrantable == {<<manage, Scoped(acme, None)>>, <<manage, Scoped(None, ann)>>,
                 <<own, Scoped(acme, ann)>>, <<own, Scoped(None, ann)>>}
                    \cup {<<c, Scoped(acme, None)>> : c \in {render, view, read}}

Cells5(k, p, n, m, w) == "kind" :> k @@ "place" :> p @@ "name" :> n @@ "month" :> m @@ "principal" :> w
At(k, p, n) == Cells5(k, p, n, None, None)
Entry(m, n, w) == Cells5(None, None, n, m, w)
TheRows == construct :> <<>> @@ work :> <<At("site", "p1", "n1"), At("office", "p2", "n1"), At("site", "p1", "n2")>>
              @@ summary :> <<At(None, None, "n1")>>
              @@ self :> <<Entry("m1", "n1", ann), Entry("m1", "n1", bob)>>
              @@ extern :> <<>>
TheNewRows == construct :> {} @@ work :> {At("site", "p2", "n2")}
                 @@ summary :> {} @@ self :> {Entry("m2", "n2", ann)}
                 @@ extern :> {}
D(p) == <<"definition", p>>
S(p) == <<"dataset", p>>
TheInitialBindings == {<<D(construct), S(work), S(summary), D(self), S(self)>>,
                       <<D(self), S(self), D(extern), S(extern), S(work), S(summary)>>}
===============================================================================
