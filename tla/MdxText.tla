------------------------------ MODULE MdxText ------------------------------
(***************************************************************************)
(* The text of MDX: sets over one dimension and SELECT queries over a cube *)
(* (epiphany-mdx/src/parser.rs, lexer.rs) and their canonical printing     *)
(* (ast.rs).  A path is a list of names, a name a sequence of characters.  *)
(* No word is reserved: it is a keyword where the reader looks for one and *)
(* it is not in brackets.                                                  *)
(***************************************************************************)
EXTENDS RuleTokens, SequencesExt

CONSTANT MaxParseDepth   \* MAX_PARSE_DEPTH

Marks == {"{", "}", "(", ")", ",", ".", "*", "=", "<", ">"}
StringMarks == {"'", "\""}
Compare == {"=", "<>", "<", "<=", ">", ">="}

\* A number may carry a sign.
Signed(text) ==
  IF text[1] = "-"
  THEN Then(Number(Tail(text)), LAMBDA rest, n : Got(rest, Tok("number", <<"-">> \o n.v)))
  ELSE Number(text)

NextMdx(text) ==
  LET c == text[1]
      pair == FirstTwo(text)
      word == Run(text, Letters \cup Digits)
      quoted(kind, close) == Then(Quoted(close, Tail(text), <<>>), LAMBDA rest, v : Got(rest, Tok(kind, v)))
  IN CASE pair \in Doubled \ {<<"-", ">">>} -> Got(From(text, 3), Mark(Spelled[pair]))
       [] c \in Marks -> Got(Tail(text), Mark(c))
       [] c = "[" -> quoted("bracketed", "]")
       [] c \in StringMarks -> quoted("string", c)
       [] c \in Digits \/ (Len(pair) = 2 /\ c = "-" /\ pair[2] \in Digits) -> Signed(text)
       [] c \in Letters -> Got(From(text, word + 1), Tok("name", SubSeq(text, 1, word)))
       [] OTHER -> Refuse("unexpected character")

RECURSIVE LexMdx(_, _)
LexMdx(text, toks) ==
  CASE text = <<>> -> Got(<<>>, toks)
    [] text[1] \in Spaces -> LexMdx(Tail(text), toks)
    [] OTHER -> Then(NextMdx(text), LAMBDA rest, t : LexMdx(rest, Append(toks, t)))

At(toks, kind) == toks # <<>> /\ toks[1].kind = kind
AtName(toks) == At(toks, "name") \/ At(toks, "bracketed")
AtWord(toks, word) == At(toks, "name") /\ toks[1].v = <<word>>
AtOneOf(toks, words) == At(toks, "name") /\ \E w \in words : toks[1].v = <<w>>
Unexpected == Refuse("unexpected token")
Expect(toks, kind) == IF At(toks, kind) THEN Got(Tail(toks), toks[1].v) ELSE Unexpected
ExpectWord(toks, word) == IF AtWord(toks, word) THEN Got(Tail(toks), word) ELSE Unexpected
ExpectName(toks) == IF AtName(toks) THEN Got(Tail(toks), toks[1].v) ELSE Unexpected

(* Paths.                                                                    *)
RECURSIVE Path(_, _)
Path(toks, sofar) ==
  Then(ExpectName(toks), LAMBDA rest, name :
    IF At(rest, ".") /\ AtName(Tail(rest)) THEN Path(Tail(rest), Append(sofar, name))
    ELSE Got(rest, Append(sofar, name)))

PostfixWords == {"members", "children", "descendants"}
\* The names up to a postfix word, and what it makes of them.
RECURSIVE MemberOrPostfix(_, _)
MemberOrPostfix(toks, sofar) ==
  Then(ExpectName(toks), LAMBDA rest, name :
    LET path == Append(sofar, name)
        next == Tail(rest)
    IN IF ~At(rest, ".") THEN Got(rest, [op |-> "member", path |-> path])
       ELSE IF AtOneOf(next, PostfixWords) THEN Got(Tail(next), [op |-> next[1].v[1], path |-> path])
       ELSE MemberOrPostfix(next, path))

(* Predicates.                                                               *)
Operand(toks) ==
  CASE At(toks, "string") -> Got(Tail(toks), [op |-> "str", v |-> toks[1].v])
    [] At(toks, "number") -> Got(Tail(toks), [op |-> "num", v |-> toks[1].v])
    [] OTHER ->
         Then(Path(toks, <<>>), LAMBDA q, path :
           IF path[Len(path)] # <<"properties">> THEN Unexpected
           ELSE Then(Expect(q, "("), LAMBDA r, x :
                  Then(Expect(r, "string"), LAMBDA s, attr :
                    Then(Expect(s, ")"), LAMBDA rest, y : Got(rest, [op |-> "property", v |-> attr])))))

Comparison(toks) ==
  Then(Operand(toks), LAMBDA r, a :
    IF r = <<>> \/ r[1].kind \notin Compare THEN Unexpected
    ELSE Then(Operand(Tail(r)), LAMBDA rest, b : Got(rest, [op |-> r[1].kind, left |-> a, right |-> b])))

RECURSIVE Or(_, _), OrRest(_, _, _), And(_, _), AndRest(_, _, _), NotOr(_, _)
Or(toks, d) == Then(And(toks, d), LAMBDA r, p : OrRest(p, r, d))
OrRest(left, toks, d) ==
  IF AtWord(toks, "or")
  THEN Then(And(Tail(toks), d), LAMBDA r, p : OrRest([op |-> "or", left |-> left, right |-> p], r, d))
  ELSE Got(toks, left)
And(toks, d) == Then(NotOr(toks, d), LAMBDA r, p : AndRest(p, r, d))
AndRest(left, toks, d) ==
  IF AtWord(toks, "and")
  THEN Then(NotOr(Tail(toks), d), LAMBDA r, p : AndRest([op |-> "and", left |-> left, right |-> p], r, d))
  ELSE Got(toks, left)
NotOr(toks, d) ==
  CASE d >= MaxParseDepth -> Refuse("too deep")
    [] AtWord(toks, "not") ->
         Then(NotOr(Tail(toks), d + 1), LAMBDA rest, p : Got(rest, [op |-> "not", arg |-> p]))
    [] At(toks, "(") -> Then(Or(Tail(toks), d + 1), LAMBDA r, p :
                          Then(Expect(r, ")"), LAMBDA rest, x : Got(rest, p)))
    [] OTHER -> Comparison(toks)

(* Sets.                                                                     *)
Cross(a, b) == [op |-> "cross", left |-> a, right |-> b]
FunctionWords == {"filter", "order", "crossjoin", "descendants"}
Directions == {"asc", "desc", "basc", "bdesc"}

RECURSIVE Set(_, _), Times(_, _, _), Literal(_, _, _), CrossArgs(_, _, _)

OrderKey(toks) ==
  IF At(toks, "string") \/ AtName(toks) THEN Got(Tail(toks), toks[1].v) ELSE Unexpected
Direction(toks) ==
  IF ~At(toks, ",") THEN Got(toks, "asc")
  ELSE IF AtOneOf(Tail(toks), Directions) THEN Got(SubSeq(toks, 3, Len(toks)), toks[2].v[1])
  ELSE Unexpected

Closed(r) == Then(r, LAMBDA s, v : Then(Expect(s, ")"), LAMBDA rest, x : Got(rest, v)))
FuncBody(name, toks, d) ==
  CASE name = "filter" ->
         Closed(Then(Set(toks, d), LAMBDA q, set : Then(Expect(q, ","), LAMBDA r, x :
           Then(Or(r, d), LAMBDA rest, p : Got(rest, [op |-> "filter", set |-> set, pred |-> p])))))
    [] name = "order" ->
         Closed(Then(Set(toks, d), LAMBDA q, set : Then(Expect(q, ","), LAMBDA r, x :
           Then(OrderKey(r), LAMBDA s, attr : Then(Direction(s), LAMBDA rest, dir :
             Got(rest, [op |-> "order", set |-> set, attr |-> attr, dir |-> dir]))))))
    [] name = "crossjoin" ->
         Closed(Then(Set(toks, d), LAMBDA q, first : Then(Expect(q, ","), LAMBDA r, x : CrossArgs(first, r, d))))
    [] OTHER -> Closed(Then(Path(toks, <<>>), LAMBDA rest, path : Got(rest, [op |-> "descendants", path |-> path])))

CrossArgs(left, toks, d) ==
  Then(Set(toks, d), LAMBDA rest, set :
    IF At(rest, ",") THEN CrossArgs(Cross(left, set), Tail(rest), d) ELSE Got(rest, Cross(left, set)))

Literal(toks, sofar, d) ==
  Then(Set(toks, d), LAMBDA r, set :
    IF At(r, ",") THEN Literal(Tail(r), Append(sofar, set), d)
    ELSE Then(Expect(r, "}"), LAMBDA rest, x : Got(rest, [op |-> "set", items |-> Append(sofar, set)])))

PrimarySet(toks, d) ==
  CASE At(toks, "{") -> IF At(Tail(toks), "}") THEN Got(SubSeq(toks, 3, Len(toks)), [op |-> "set", items |-> <<>>])
                        ELSE Literal(Tail(toks), <<>>, d)
    [] AtOneOf(toks, FunctionWords) /\ At(Tail(toks), "(") -> FuncBody(toks[1].v[1], SubSeq(toks, 3, Len(toks)), d)
    [] OTHER -> MemberOrPostfix(toks, <<>>)

Times(left, toks, d) ==
  IF At(toks, "*") THEN Then(PrimarySet(Tail(toks), d), LAMBDA r, p : Times(Cross(left, p), r, d))
  ELSE Got(toks, left)
Set(toks, d) ==
  IF d >= MaxParseDepth THEN Refuse("too deep")
  ELSE Then(PrimarySet(toks, d + 1), LAMBDA r, p : Times(p, r, d + 1))

(* Queries.                                                                  *)
\* 0 and 1 are columns and rows; a larger number stays a number.
AxisName(toks) ==
  CASE At(toks, "number") -> IF \E i \in DOMAIN toks[1].v : toks[1].v[i] \notin Digits THEN Unexpected
                             ELSE Got(Tail(toks), CASE toks[1].v = <<"0">> -> <<"columns">>
                                                    [] toks[1].v = <<"1">> -> <<"rows">>
                                                    [] OTHER -> toks[1].v)
    [] AtOneOf(toks, {"columns", "column"}) -> Got(Tail(toks), <<"columns">>)
    [] AtOneOf(toks, {"rows", "row"}) -> Got(Tail(toks), <<"rows">>)
    [] OTHER -> Refuse("unknown axis")

RECURSIVE Axes(_, _)
Axes(toks, sofar) ==
  Then(Set(toks, 0), LAMBDA q, set : Then(ExpectWord(q, "on"), LAMBDA r, x :
    Then(AxisName(r), LAMBDA rest, axis :
      LET axes == Append(sofar, [axis |-> axis, set |-> set])
      IN IF \E i \in DOMAIN sofar : sofar[i].axis = axis THEN Refuse("duplicate axis")
         ELSE IF At(rest, ",") THEN Axes(Tail(rest), axes) ELSE Got(rest, axes))))

RECURSIVE Slicer(_, _)
Slicer(toks, sofar) ==
  Then(Path(toks, <<>>), LAMBDA rest, path :
    IF At(rest, ",") THEN Slicer(Tail(rest), Append(sofar, path)) ELSE Got(rest, Append(sofar, path)))

Query(toks) ==
  Then(ExpectWord(toks, "select"), LAMBDA q, w :
    IF AtWord(q, "from") THEN Refuse("no axis")
    ELSE Then(Axes(q, <<>>), LAMBDA r, axes : Then(ExpectWord(r, "from"), LAMBDA s, x :
           Then(ExpectName(s), LAMBDA t, cube :
             Then(IF AtWord(t, "where")
                  THEN Closed(Then(Expect(Tail(t), "("), LAMBDA u, y : Slicer(u, <<>>)))
                  ELSE Got(t, <<>>),
                  LAMBDA rest, slicer : Got(rest, [axes |-> axes, cube |-> cube, slicer |-> slicer]))))))

Whole(r) == Then(r, LAMBDA rest, v : IF rest = <<>> THEN r ELSE Refuse("trailing input"))
ParseSet(text) == Then(LexMdx(text, <<>>), LAMBDA rest, toks : Whole(Set(toks, 0)))
ParseQuery(text) == Then(LexMdx(text, <<>>), LAMBDA rest, toks : Whole(Query(toks)))

(* The printing: every name in brackets, every string in double quotes.      *)
Enclosed(open, close, name) ==
  <<open>> \o FlattenSeq([i \in DOMAIN name |-> IF name[i] = close THEN <<close, close>> ELSE <<name[i]>>]) \o <<close>>
\* Weakened: a closing bracket in a name is not doubled.
BracketAsIs(name) == <<"[">> \o name \o <<"]">>
Bracket(name) == Enclosed("[", "]", name)
Quote(s) == Enclosed("\"", "\"", s)
Join(parts, between) ==
  FlattenSeq([i \in DOMAIN parts |-> IF i = 1 THEN parts[i] ELSE between \o parts[i]])
Comma == <<",", " ">>
ShowPath(path) == Join([i \in DOMAIN path |-> Bracket(path[i])], <<".">>)
Spell(op) == IF op \in Marks THEN <<op>> ELSE CHOOSE pair \in Doubled : Spelled[pair] = op
ShowOperand(o) ==
  CASE o.op = "property" -> <<"properties", "(">> \o Quote(o.v) \o <<")">>
    [] o.op = "str" -> Quote(o.v)
    [] OTHER -> o.v

RECURSIVE ShowPred(_), ShowSet(_)
ShowPred(p) ==
  CASE p.op = "not" -> <<"(", "not", " ">> \o ShowPred(p.arg) \o <<")">>
    [] p.op \in {"and", "or"} -> <<"(">> \o ShowPred(p.left) \o <<" ", p.op, " ">> \o ShowPred(p.right) \o <<")">>
    [] OTHER -> ShowOperand(p.left) \o <<" ">> \o Spell(p.op) \o <<" ">> \o ShowOperand(p.right)
ShowSet(s) ==
  CASE s.op = "set" -> <<"{">> \o Join([i \in DOMAIN s.items |-> ShowSet(s.items[i])], Comma) \o <<"}">>
    [] s.op = "member" -> ShowPath(s.path)
    [] s.op \in {"members", "children"} -> ShowPath(s.path) \o <<".", s.op>>
    [] s.op = "descendants" -> <<"descendants", "(">> \o ShowPath(s.path) \o <<")">>
    [] s.op = "filter" -> <<"filter", "(">> \o ShowSet(s.set) \o Comma \o ShowPred(s.pred) \o <<")">>
    [] s.op = "order" -> <<"order", "(">> \o ShowSet(s.set) \o Comma \o Bracket(s.attr) \o Comma \o <<s.dir, ")">>
    [] OTHER -> <<"crossjoin", "(">> \o ShowSet(s.left) \o Comma \o ShowSet(s.right) \o <<")">>

ShowQuery(q) ==
  <<"select", "\n">>
  \o Join([i \in DOMAIN q.axes |-> ShowSet(q.axes[i].set) \o <<" ", "on", " ">> \o q.axes[i].axis], <<",", "\n">>)
  \o <<"\n", "from", " ">> \o Bracket(q.cube)
  \o (IF q.slicer = <<>> THEN <<>>
      ELSE <<"\n", "where", " ", "(", " ">> \o Join([i \in DOMAIN q.slicer |-> ShowPath(q.slicer[i])], Comma) \o <<" ", ")">>)
=============================================================================
