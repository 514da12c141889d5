--------------------------- MODULE MCRuleQueries ---------------------------
(***************************************************************************)
(* A cube Plan of two dimensions and a cube FX of one cell.  In Line, t    *)
(* reaches a directly and through u, with other weights; v has weights one.*)
(* Each plan is a list of rules chosen for what it makes happen: chains,   *)
(* cycles, overrides of consolidations, cells of the other cube, guarded   *)
(* divisions, a rule on a text element, rules that no longer compile.      *)
(***************************************************************************)
EXTENDS RuleQueries, Texts

(***************************************************************************)
(* The texts to read.  A formula is every short sequence of digits, minus  *)
(* signs, stars and parentheses, a condition every short sequence of       *)
(* comparisons, minus signs and connectives; documents, sets, queries and  *)
(* tables are put together from fragments chosen for what they make happen.*)
(***************************************************************************)

MCLetters ==
  {"a", "b", "t", "u", "v", "w", "x", "y", "z", "m", "n", "c", "k", "Line", "Measure", "Plan",
   "if", "then", "else", "value", "with", "and", "or", "not", "leaves", "of", "children", "consolidated", "all",
   "descendants", "attr", "undef", "select", "on", "columns", "rows", "from", "where", "filter", "order",
   "crossjoin", "members", "properties", "asc", "desc", "basc", "bdesc"}
MCBuiltIns == {<<"attr">>, <<"undef">>}
UpTo(S, n) == UNION {[1 .. k -> S] : k \in 1 .. n}
Spaced(chars) == FlattenSeq([i \in DOMAIN chars |-> <<chars[i], " ">>])
Q(name) == <<"'">> \o name \o <<"'">>

(* Rules.                                                                    *)
InX == <<"[">> \o Q(<<"a">>) \o <<":">> \o Q(<<"x">>) \o <<"]">>
Odd == Q(<<"'", "'", "x", "'", "'">>)   \* the name 'x'
Formulas ==
  {[lang |-> "formula", tier |-> 5, inner |-> f, text |-> InX \o <<"=">> \o Spaced(f) \o <<";">>] :
     f \in UpTo({"1", "-", "*", "(", ")"}, 5)}
Conditions ==
  {[lang |-> "formula", tier |-> 1, inner |-> FlattenSeq(c),
    text |-> InX \o <<"=", "if", " ">> \o Spaced(FlattenSeq(c)) \o <<"then", " ", "1", ";">>] :
     c \in UpTo({<<"1", "=", "1">>, <<"and">>, <<"or">>, <<"not">>, <<"-">>}, 5)}

FarRef == Q(<<"x">>) \o <<"!">> \o InX
Atoms ==
  {<<"1">>, <<"2", ".", "1">>, Odd, <<"value">>, <<"value">> \o InX,
   <<"[">> \o Q(<<"a">>) \o <<":", "!">> \o Odd \o <<"]">>, FarRef,
   FarRef \o <<"with", "(">> \o Q(<<"a">>) \o <<"-", ">">> \o Odd \o <<")">>,
   <<"undef", "(", ")">>, <<"attr", "(">> \o Q(<<"a">>) \o <<",">> \o Odd \o <<")">>,
   <<"attr", "(">> \o FarRef \o <<")">>, <<"x", "(", "1", ")">>}
When == <<"if", " ", "1", "<", ">", "-", "1", " ", "then", " ">>
Otherwise == <<" ", "else", " ">>
Bodies ==
  {When \o a \o Otherwise \o b : a, b \in Atoms} \cup {a \o <<"*">> \o b : a, b \in Atoms}
  \cup {<<"(">> \o When \o <<"1", ")">> \o after : after \in {<<"+", "1">>, <<"*", "2">>}}
  \cup {When \o <<"(">> \o When \o <<"1", ")">> \o Otherwise \o <<"2">>}
  \cup {FlattenSeq(f) : f \in UpTo({<<"1">>, <<"+">>, <<"-">>, <<"/">>, <<"(">>, <<")">>, When, Otherwise}, 4)}
Area(selectors) == <<"[">> \o selectors \o <<"]">>
Areas ==
  {InX, <<"n", ":">> \o InX, <<"c", ":">> \o InX, <<"c">> \o InX, <<"x", ":">> \o InX, <<"[", "]">>,
   Area(Q(<<"a">>) \o <<":", "@">> \o Odd \o <<">", "=", "2">>),
   Area(Q(<<"a">>) \o <<":", "@">> \o Odd \o <<"=">> \o Odd),
   Area(Q(<<"a">>) \o <<":", "{", "leaves", "}", ",">> \o Q(<<"x">>)
          \o <<":", "{", "children", "#", "'", "\n", "of">> \o Odd \o <<"}">>),
   Area(Q(<<"a">>) \o <<":", "{", "all", "}", ",">> \o Q(<<"a">>) \o <<":">> \o Odd),
   Area(Odd \o <<":", "{", "descendants", "/", "*", "*", "/", "of">> \o Odd \o <<"}">>),
   Area(Odd \o <<":", "/", "*", "*">>)}
Doc(text) == [lang |-> "rules", text |-> text]
Documents ==
  {Doc(<<>>), Doc(<<"$">>), Doc(<<"'">>)}
  \cup {Doc(InX \o <<"=">> \o b \o <<";">>) : b \in Bodies}
  \cup {Doc(p \o <<"=", "1", ";", "\n">> \o q \o <<"=", "2", ";">>) : p, q \in Areas}
  \cup {Doc(InX \o <<"=">> \o [i \in 1 .. 9 |-> c] \o <<"1", ";">>) : c \in {"-", "("}}

(* Sets over Line, whose b carries no w and whose t and u carry no attribute.*)
Ref(e) == <<"[", "Line", "]", ".", "[", e, "]">>
Commas(parts) == FlattenSeq([i \in DOMAIN parts |-> IF i = 1 THEN parts[i] ELSE <<",">> \o parts[i]])
Braced(parts) == <<"{">> \o Commas(parts) \o <<"}">>
Simple ==
  {<<"Line", ".", "members">>, Ref("t") \o <<".", "children">>, Ref("u") \o <<".", "descendants">>,
   <<"descendants", "(", "t", ")">>, <<"t">>, <<"[", "x", "]", "]", "]">>, <<"Line", ".", "t", ".", "a">>,
   <<"t", ".", "[", "members", "]">>, <<"{", "}">>, <<"k">>,
   Braced(<<Ref("v"), Ref("a"), <<"[", "b", "]">>, Ref("a"), Ref("u")>>)}
W == <<"properties", "(", "\"", "w", "\"", ")">>
N == <<"n", ".">> \o <<"properties", "(", "'", "n", "'", ")">>
Text(c) == <<"\"">> \o c \o <<"\"">>
Tests ==
  {W \o <<op>> \o r : op \in {"=", ">"}, r \in {<<"1">>, <<"-", "1">>, Text(<<"x">>), <<"1", ".", "2">>}}
  \cup {W \o <<"<", ">", "2">>, N \o <<"=">> \o Text(<<"x">>), Text(<<"x">>) \o <<"<">> \o N,
        N \o <<">", "=">> \o W, <<"w", "=", "1">>, <<"1", "=", "1">>, <<"1", "<", "=">> \o Text(<<"\"", "\"">>)}
Few == {W \o <<">", "1">>, N \o <<"=">> \o Text(<<"x">>), N \o <<"<", ">">> \o Text(<<"y">>)}
Predicates ==
  Tests \cup {<<"not", " ">> \o p : p \in Tests}
  \cup {<<"(">> \o p \o <<")", c, " ">> \o n \o q : p, q \in Few, c \in {"and", "or"}, n \in {<<>>, <<"not", " ">>}}
  \cup {p \o <<" ", "or", " ", "not", "(">> \o q \o <<" ", "and", " ">> \o r \o <<")">> : p, q, r \in Few}
Function(name, args) == <<name, "(">> \o Commas(args) \o <<")">>
Dirs == {<<"desc">>, <<"asc">>, <<"bdesc">>}
SetTexts ==
  Simple \cup {Function("filter", <<s, p>>) : s \in {<<"Line", ".", "members">>, <<"k">>}, p \in Predicates}
  \cup {Function("order", <<s, <<"w">>, d>>) : s \in Simple, d \in Dirs}
  \cup {Function("order", <<Function("filter", <<<<"Line", ".", "members">>, p>>), <<"\"", "n", "\"">>>>) : p \in Few}
  \cup {a \o <<"*">> \o b : a, b \in Simple} \cup {[i \in 1 .. 9 |-> "{"], <<"{", "t", "}", "}">>}
SetSources == {[lang |-> "set", text |-> s] : s \in SetTexts}

(* Queries over Plan.                                                        *)
LineSets == {<<"Line", ".", "members">>, Function("order", <<Braced(<<Ref("v"), Ref("t")>>), <<"w">>>>), Ref("k"), Ref("b")}
MeasureSets == {<<"Measure", ".", "m", ".", "children">>, Braced(<<<<"Measure", ".", "z">>, <<"x">>>>), <<"x">>}
Joined(parts) == IF Len(parts) = 1 THEN {Head(parts)}
                 ELSE {Function("crossjoin", parts), FlattenSeq([i \in DOMAIN parts |->
                                                       IF i = 1 THEN parts[i] ELSE <<"*">> \o parts[i]])}
OnAxis(set, axis) == set \o <<" ", "on", " ">> \o axis
Asking(rows, columns, axes, tail) ==
  [lang |-> "query", rows |-> rows, columns |-> columns,
   text |-> <<"select", " ">> \o Commas(axes) \o <<" ", "from", " ", "Plan", " ">> \o tail]
Crossed == {<<s, m>> : s \in LineSets, m \in MeasureSets} \cup {<<m, s, <<"t", ".", "[", "a", "]">>>> : s \in LineSets, m \in MeasureSets}
Where(members) == <<"where", "(">> \o Commas(members) \o <<")">>
Queries ==
  UNION {{Asking(c, <<>>, <<OnAxis(j, <<"rows">>)>>, <<>>) : j \in Joined(c)} : c \in Crossed}
  \cup {Asking(<<s>>, <<m>>, <<OnAxis(s, <<"1">>), OnAxis(m, a)>>, <<>>) :
          s \in LineSets, m \in MeasureSets, a \in {<<"columns">>, <<"0">>, <<"1">>, <<"2">>, <<"n">>}}
  \cup {Asking(<<>>, <<s>>, <<OnAxis(s, <<"columns">>)>>, Where(w)) : s \in LineSets,
          w \in {<<<<"Measure", ".", "x">>>>, <<<<"x">>>>, <<<<"Measure", ".", "x">>, <<"Measure", ".", "y">>>>}}
  \cup {[lang |-> "query", rows |-> <<>>, columns |-> <<>>, text |-> <<"select", " ", "from", " ", "Plan">>]}

(* CSV: tables written in every style.                                       *)
Fields == {<<>>, <<"a">>, <<"a", "\"">>, <<",", "\"", "\n">>}
Bare(field) == (field = <<>> \/ field[1] # "\"") /\ ToSet(field) \cap {",", "\n", "\r"} = {}
QuotedField(field) ==
  <<"\"">> \o FlattenSeq([i \in DOMAIN field |-> IF field[i] = "\"" THEN <<"\"", "\"">> ELSE <<field[i]>>]) \o <<"\"">>
Written(table, allQuoted, break, ended) ==
  LET field(f) == IF Bare(f) /\ ~allQuoted THEN f ELSE QuotedField(f)
      line(row) == Commas([c \in DOMAIN row |-> field(row[c])])
  IN FlattenSeq([r \in DOMAIN table |->
       IF r = Len(table) /\ ~ended THEN line(table[r]) ELSE line(table[r]) \o break])
Csvs ==
  {[lang |-> "csv", table |-> <<header>> \o rows, text |-> (IF bom THEN <<"bom">> ELSE <<>>) \o
      Written(<<header>> \o rows, allQuoted, break, ended)] :
     header \in {<<<<"a">>>>, <<<<"a">>, <<"b", "\"">>>>, <<<<"a">>, <<"a">>>>},
     rows \in {<<>>} \cup {<<<<f, g>>>> : f, g \in Fields} \cup {<<<<f>>, <<g, f, g>>>> : f, g \in Fields},
     allQuoted, ended, bom \in BOOLEAN, break \in {<<"\n">>, <<"\r">>, <<"\r", "\n">>}}
  \cup {[lang |-> "csv", table |-> <<>>, text |-> t] : t \in {<<>>, <<"\"">>, [i \in 1 .. 9 |-> "\n"]}}

Sources == Formulas \cup Conditions \cup Documents \cup SetSources \cup Queries \cup Csvs

-----------------------------------------------------------------------------

Num(n) == [op |-> "num", v |-> n]
Bin(op, a, b) == [op |-> op, left |-> a, right |-> b]
Read(at) == [op |-> "cell", cube |-> "Plan", at |-> at]
M(e) == Read([Measure |-> e])
FXRate == [op |-> "cell", cube |-> "FX", at |-> [Rate |-> "r"]]
If(c, a, b) == [op |-> "if", cond |-> c, then |-> a, else |-> b]
El(name) == [by |-> "element", name |-> name]
Rule(area, formula) == [area |-> area, scope |-> "", formula |-> formula]
COver(area, formula) == [area |-> area, scope |-> "C:", formula |-> formula]
On(e, formula) == Rule([Measure |-> El(e)], formula)

Grow(dim, elements) == FoldLeft(LAMBDA d, e : AddElement(d, e[1], e[2]), dim, elements)
Link(dim, edges) ==
  FoldLeft(LAMBDA d, e : AddChild(d, IndexOf(d, e[1]), IndexOf(d, e[2]), e[3]), dim, edges)

Line ==
  LET grown == Link(Grow(EmptyDimension, <<<<"a", Leaf>>, <<"b", Leaf>>, <<"u", Consolidated>>,
                                           <<"t", Consolidated>>, <<"v", Consolidated>>>>),
                    <<<<"u", "a", -1>>, <<"u", "b", 2>>, <<"t", "u", 1>>, <<"t", "a", 1>>,
                      <<"v", "a", 1>>, <<"v", "b", 1>>>>)
  IN SetAttribute(AddAttribute(grown, "w", "Numeric"), 1, "w", [type |-> "Numeric", v |-> 15])
Measure ==
  Link(Grow(EmptyDimension, <<<<"x", Leaf>>, <<"y", Leaf>>, <<"z", Leaf>>, <<"m", Consolidated>>, <<"s", Str>>>>),
       <<<<"m", "x", 1>>, <<"m", "y", 1>>>>)
Rate == Grow(EmptyDimension, <<<<"r", Leaf>>>>)

RuleLists ==
  {<<>>, <<On("y", M("x"))>>, <<On("z", M("y")), On("y", M("x"))>>,
   <<On("y", Bin("-", M("x"), FXRate))>>, <<On("y", FXRate), On("z", M("y"))>>,
   <<On("y", M("x")), On("x", M("y"))>>,
   <<On("y", If(Bin("and", Bin("<>", M("x"), Num(0)), Bin(">=", Bin("/", Num(10), M("x")), Num(10))),
                Bin("/", Num(5), M("x")), [op |-> "none"]))>>,
   <<COver([Line |-> El("t"), Measure |-> El("x")], Num(40)), On("y", Read([Line |-> "t", Measure |-> "x"]))>>,
   <<On("y", Bin("*", [op |-> "attr", dim |-> "Line", name |-> "w"], M("x")))>>,
   <<On("y", Bin("/", Num(10), M("x")))>>,
   <<Rule([Line |-> [by |-> "children", name |-> "u"], Measure |-> El("y")], [op |-> "neg", arg |-> M("x")])>>,
   <<On("s", Num(20)), On("y", M("s"))>>,
   <<COver([Measure |-> El("y")], Num(30)), On("z", Read([Line |-> "v", Measure |-> "y"]))>>,
   <<Rule([Line |-> [by |-> "attribute", name |-> "w", cmp |-> ">", value |-> [type |-> "Numeric", v |-> 0]],
           Measure |-> El("y")], Num(7)), On("y", Bin("+", M("x"), M("z")))>>,
   <<Rule([Line |-> El("a"), Measure |-> El("x")], Read([Line |-> "b"])),
     On("y", [op |-> "cell", cube |-> "Bad", at |-> [Rate |-> "r"]])>>,
   <<On("y", Bin("*", M("x"), Bin("*", M("x"), Num(900))))>>,
   <<On("y", M("gone"))>>}

\* Every ordered pair of these, the first to match winning.
Paired ==
  {On("y", M("x")), Rule([Line |-> El("a"), Measure |-> El("x")], M("y")),
   On("z", Read([Line |-> "v", Measure |-> "y"])),
   COver([Line |-> El("v"), Measure |-> El("y")], M("x")),
   On("y", If(Bin("or", Bin("=", M("x"), Num(10)), Bin(">", M("z"), Num(-5))), M("z"), M("x"))),
   Rule([Line |-> [by |-> "descendants", name |-> "u"]], Num(2))}

Numbers == {NoFn, (<<1, 1>> :> 10) @@ (<<2, 1>> :> 20),
            (<<1, 1>> :> -10) @@ (<<1, 2>> :> 5) @@ (<<2, 2>> :> 3) @@ (<<2, 3>> :> -5)}

One(name, rules, cellMap) ==
  [name |-> name, dimNames |-> <<"Rate">>, dims |-> <<Rate>>, cells |-> cellMap, texts |-> NoFn, rules |-> rules]
MCModels ==
  {<<[name |-> "Plan", dimNames |-> <<"Line", "Measure">>, dims |-> <<Line, Measure>>,
      cells |-> n, texts |-> (<<1, 5>> :> "note"), rules |-> r],
     One("FX", <<>>, <<1>> :> 15),
     One("Bad", <<Rule([Rate |-> El("gone")], Num(1))>>, NoFn)>> : n \in Numbers, r \in RuleLists \cup (Paired \X Paired)}

Sandboxed == [scope |-> 1, overlay |-> (<<1, 1>> :> 30), mask |-> {}, target |-> 1]
Masked == [scope |-> 0, overlay |-> NoFn, mask |-> {<<1, 2>>}, target |-> 1]

Axis(dim, members) == <<[dim |-> dim, members |-> members]>>
View(rows, columns, context) ==
  [rows |-> rows, columns |-> columns, context |-> context, zeroRows |-> TRUE, zeroColumns |-> TRUE]
MCRequests ==
  LET views == {View(Axis("Line", <<"a", "b", "t">>), Axis("Measure", <<"x", "y", "m">>), NoFn),
                View(Axis("Measure", <<"x", "y", "s">>), Axis("Line", <<"a", "a">>), NoFn),
                View(Axis("Line", <<"t", "v">>), <<>>, [Measure |-> "y"])}
      line == 1 .. 5
      test(v, e) == [fixtures |-> <<[at |-> <<2, 1>>, v |-> v]>>, at |-> <<4, 4>>, expect |-> e]
  IN [kind : {"view"}, engine : {BaseEngine, Sandboxed, Masked}, view : views, workers : {1, 3}]
     \cup [kind : {"explain"}, engine : {BaseEngine, Sandboxed, Masked}, depth : {3}, at : line \X line]
     \cup [kind : {"spread"}, engine : {BaseEngine, Sandboxed}, at : {<<5, 1>>, <<5, 4>>, <<1, 4>>, <<5, 2>>, <<4, 1>>},
           total : {11, -7}, method : {"equal", "proportional", "repeat", "clear"}]
     \cup {[kind |-> "tests", engine |-> BaseEngine, tests |-> <<test(30, 70), test(0, 10)>>],
           [kind |-> "diagnose", engine |-> BaseEngine]}

(* The episode of texts: nothing is asked of the cubes.                      *)
Full ==
  LET named == SetAttribute(AddAttribute(Line, "n", "Text"), 2, "n", [type |-> "Text", v |-> "x"])
  IN SetAttribute(named, 5, "w", [type |-> "Numeric", v |-> 15])
MCQueried == [name |-> "Plan", dimNames |-> <<"Line", "Measure">>, dims |-> <<Full, Measure>>]
MCNumbers == (<<"1">> :> 15) @@ (<<"2">> :> 20) @@ (<<"-", "1">> :> -15)
MCFillIns ==
  LET typed(kind, values) == [i \in DOMAIN values |-> [type |-> kind, v |-> values[i]]]
  IN [Numeric |-> typed("Numeric", <<-20, -15, 0, 15, 17, 20, 25>>), Text |-> typed("Text", <<"x", "y", "z">>)]
MCTextRank == [unknown |-> 0, x |-> 1, y |-> 2, z |-> 3]

Nothing == Registry(<<>>)
NoRequest == [kind |-> "none"]
NoSource == [lang |-> "none"]

MCInit ==
  \/ Init /\ TextInit({NoSource})
  \/ /\ TextInit(Sources)
     /\ registry = Nothing /\ request = NoRequest /\ grid = Err("no view") /\ cells = NoFn
     /\ next = NoFn /\ failed = NoFn /\ memos = NoFn /\ answer = NoAnswer
MCNext ==
  \/ request # NoRequest /\ Next /\ UNCHANGED textVars
  \/ request = NoRequest /\ ReadText /\ UNCHANGED vars
MCSpec == MCInit /\ [][MCNext]_<<vars, textVars>>
=============================================================================
