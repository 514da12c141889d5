---------------------------- MODULE MCCubeEdits ----------------------------
(***************************************************************************)
(* A cube of two dimensions.  Lines holds a leaf a under a consolidation t  *)
(* and may gain b; Measures holds numbers x and z and a text y.  A field of *)
(* two elements takes one bit, one of three takes two: keys of three bits   *)
(* are packed, b in Lines beside z in Measures makes four, which are not,   *)
(* and without b or z they are packed again, without both more narrowly.    *)
(* Ann owns what is saved at first; Bob does not; Eve is the administrator. *)
(***************************************************************************)
EXTENDS ModelText

MCElementNames == <<{"a", "b", "t"}, {"x", "y", "z"}>>
MCAttributes == [code |-> "Alias", label |-> "Alias", size |-> "Numeric"]
Text(t) == [type |-> "Text", v |-> t]
MCAttrValues == {Text("m"), Text("n")}
MCWeights == {1, -1}
MCBuiltFrom ==
  [elements |-> <<[d |-> 1, name |-> "a", kind |-> Leaf],
                  [d |-> 1, name |-> "t", kind |-> Consolidated],
                  [d |-> 2, name |-> "x", kind |-> Leaf],
                  [d |-> 2, name |-> "y", kind |-> Str],
                  [d |-> 2, name |-> "z", kind |-> Leaf]>>,
   edges |-> <<[d |-> 1, parent |-> "t", child |-> "a", weight |-> 1]>>,
   attributes |-> <<<<"code", "label">>, <<"size">>>>,
   values |-> <<<<[element |-> "a", attribute |-> "code", value |-> Text("m")],
                  [element |-> "a", attribute |-> "label", value |-> Text("m")]>>,
                <<[element |-> "x", attribute |-> "size", value |-> [type |-> "Numeric", v |-> -105]]>>>>]

Members(d, members) == [type |-> "members", dimension |-> d, members |-> members]
Subset(members) == [public |-> TRUE, kind |-> "static", members |-> members]
View(rows, columns, context) ==
  [public |-> FALSE, rows |-> rows, columns |-> columns, context |-> context,
   zeroRows |-> TRUE, zeroColumns |-> FALSE]
Cell(line, measure, v) == [coord |-> <<line, measure>>, value |-> v]
By(owner, body) == [owner |-> owner] @@ body

Lines == <<"subset", 1, "lines">>
Sheet == <<"view", "sheet">>
Check == <<"test", "check">>
Rules == <<"rules">>
Plan == <<"sandbox", "plan">>

OwnSheet == View(<<[type |-> "subset", dimension |-> 1, subset |-> "lines"]>>,
                 <<Members(2, <<"x">>)>>, <<>>)

\* Cells and edits alone.
Cells == [saved |-> NoFn, requests |-> {}, asks |-> 0, cells |-> 2, edits |-> 2, edited |-> {1, 2}]

\* A sandbox with values in it, staged to and committed while the schema moves.
WhatIf ==
  [saved |-> (Plan :> [owner |-> "ann", public |-> FALSE,
                       cells |-> (<<1, 1>> :> 5)]),
   requests |-> {[op |-> "stage", key |-> Plan, coord |-> <<"m", "x">>, value |-> 0, bound |-> TRUE],
                 [op |-> "stage", key |-> Plan, coord |-> <<"t", "x">>, value |-> 5, bound |-> FALSE],
                 [op |-> "commit", key |-> Plan], [op |-> "delete", key |-> Plan],
                 [op |-> "open", key |-> Plan]},
   asks |-> 2, cells |-> 0, edits |-> 1, edited |-> {1, 2}]

\* Subsets, views and tests, asked for by their owner, another and the
\* administrator, while an element goes.
Objects ==
  [saved |-> (Lines :> By("ann", Subset(<<"m", "t">>)))
             @@ (<<"subset", 2, "all">> :> [owner |-> "bob", public |-> FALSE, kind |-> "dynamic", mdx |-> "q"]) @@ (Sheet :> By("ann", OwnSheet))
             @@ (Check :> [fixtures |-> <<Cell("a", "x", 5)>>, assertions |-> <<Cell("t", "x", 5)>>]),
   requests |-> {[op |-> "replace", key |-> Lines, body |-> Subset(<<"a">>)],
                 [op |-> "delete", key |-> Lines], [op |-> "create", key |-> Lines, body |-> Subset(<<"t">>)],
                 [op |-> "create", key |-> Sheet,
                  body |-> View(<<Members(1, <<"a", "m">>)>>, <<>>, <<[dimension |-> 2, member |-> "x"]>>)],
                 [op |-> "replace", key |-> Sheet,
                  body |-> View(<<>>, <<Members(1, <<"a">>), Members(2, <<"x", "y">>)>>, <<>>)],
                 [op |-> "create", key |-> Sheet, body |-> View(<<Members(1, <<"a">>)>>, <<>>, <<>>)],
                 [op |-> "delete", key |-> Sheet],
                 [op |-> "define", key |-> Check,
                  body |-> [fixtures |-> <<>>, assertions |-> <<Cell("a", "y", 5)>>]],
                 [op |-> "delete", key |-> Check]},
   asks |-> 2, cells |-> 0, edits |-> 1, edited |-> {1, 2}]

\* Rules put while the schema moves under them.
RulePuts ==
  [saved |-> NoFn,
   requests |-> {[op |-> "put", key |-> Rules, body |-> [names |-> {<<1, "a">>, <<2, "x">>}]],
                 [op |-> "delete", key |-> Rules]},
   asks |-> 2, cells |-> 0, edits |-> 1, edited |-> {2}]

MCWorkloads == {Cells, WhatIf, Objects, RulePuts}
=============================================================================
