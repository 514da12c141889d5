------------------------------ MODULE RuleText ------------------------------
(***************************************************************************)
(* The text of rules: the recursive-descent reading of a document (rules/   *)
(* parser.rs) and its canonical printing (Display in rules/ast.rs).  A rule *)
(* is [scope, area, formula]; an expression or a condition is a record with *)
(* an op.  d is the nesting the reader is in.                               *)
(***************************************************************************)
EXTENDS RuleTokens, SequencesExt

CONSTANTS
  MaxParseDepth,   \* MAX_PARSE_DEPTH
  BuiltIns         \* the built-in functions' names

Compare == {"=", "<>", "<", "<=", ">", ">="}
\* The operators of each tier, and what its operands are.
Ops == [or |-> {<<"or">>}, and |-> {<<"and">>}, add |-> {"+", "-"}, mul |-> {"*", "/"}]

At(toks, kind) == toks # <<>> /\ toks[1].kind = kind
AtSecond(toks, kind) == Len(toks) > 1 /\ toks[2].kind = kind
AtWord(toks, word) == At(toks, "word") /\ toks[1].v = word
Expect(toks, kind) == IF At(toks, kind) THEN Got(Tail(toks), toks[1].v) ELSE Refuse("unexpected token")
ExpectWord(toks, word) == IF AtWord(toks, word) THEN Got(Tail(toks), word) ELSE Refuse("unexpected token")
CmpOp(toks) == IF toks # <<>> /\ toks[1].kind \in Compare THEN Got(Tail(toks), toks[1].kind)
               ELSE Refuse("unexpected token")
Literal(toks) == IF At(toks, "number") \/ At(toks, "quoted") THEN Got(Tail(toks), toks[1])
                 ELSE Refuse("unexpected token")

Bin(op, a, b) == [op |-> op, left |-> a, right |-> b]
IfThen(c, a) == [op |-> "if", cond |-> c, then |-> a]
IfElse(c, a, b) == [op |-> "if", cond |-> c, then |-> a, else |-> b]
HereCell(overrides) == [op |-> "cell", overrides |-> overrides]
FarCell(cube, overrides, mapping) == [op |-> "far", cube |-> cube, overrides |-> overrides, mapping |-> mapping]

(* The lists that hold no expression: the dimensions of an area, the         *)
(* overrides of a reference, its mapping of names.                           *)
Family(toks) ==
  LET of(word) == Then(ExpectWord(Tail(toks), <<"of">>), LAMBDA r, w :
                    Then(Expect(r, "quoted"), LAMBDA rest, name : Got(rest, [by |-> word[1], name |-> name])))
  IN CASE \E w \in {"leaves", "consolidated", "all"} : AtWord(toks, <<w>>) ->
            Got(Tail(toks), [by |-> toks[1].v[1]])
       [] AtWord(toks, <<"children">>) \/ AtWord(toks, <<"descendants">>) -> of(toks[1].v)
       [] OTHER -> Refuse("unexpected token")

Selector(toks) ==
  CASE At(toks, "@") ->
         Then(Expect(Tail(toks), "quoted"), LAMBDA r, name :
           Then(CmpOp(r), LAMBDA s, cmp :
             Then(Literal(s), LAMBDA rest, v :
               Got(rest, [by |-> "attribute", name |-> name, cmp |-> cmp, value |-> v]))))
    [] At(toks, "{") ->
         Then(Family(Tail(toks)), LAMBDA r, family : Then(Expect(r, "}"), LAMBDA rest, v : Got(rest, family)))
    [] OTHER -> Then(Expect(toks, "quoted"), LAMBDA rest, name : Got(rest, [by |-> "element", name |-> name]))

Member(toks) ==
  IF At(toks, "!")
  THEN Then(Expect(Tail(toks), "quoted"), LAMBDA rest, name : Got(rest, [by |-> "attribute", name |-> name]))
  ELSE Then(Expect(toks, "quoted"), LAMBDA rest, name : Got(rest, [by |-> "element", name |-> name]))

\* One item: a name, the mark, and what the mark is followed by.
Item(what, toks) ==
  Then(Expect(toks, "quoted"), LAMBDA r, name :
    Then(Expect(r, IF what = "mapping" THEN "->" ELSE ":"), LAMBDA s, v :
      Then(CASE what = "selector" -> Selector(s)
             [] what = "override" -> Member(s)
             [] OTHER -> Expect(s, "quoted"),
           LAMBDA rest, x : Got(rest, <<name, x>>))))

RECURSIVE Items(_, _, _, _)
Items(what, toks, sofar, close) ==
  Then(Item(what, toks), LAMBDA r, item :
    IF what = "selector" /\ \E i \in DOMAIN sofar : sofar[i][1] = item[1] THEN Refuse("duplicate dimension")
    ELSE IF At(r, ",") THEN Items(what, Tail(r), Append(sofar, item), close)
    ELSE Then(Expect(r, close), LAMBDA rest, v : Got(rest, Append(sofar, item))))

Overrides(toks) == Then(Expect(toks, "["), LAMBDA r, v : Items("override", r, <<>>, "]"))
Mapping(toks) ==
  IF AtWord(toks, <<"with">>)
  THEN Then(Expect(Tail(toks), "("), LAMBDA r, v : Items("mapping", r, <<>>, ")"))
  ELSE Got(toks, <<>>)

ValueRef(toks) ==
  IF At(Tail(toks), "[") THEN Then(Overrides(Tail(toks)), LAMBDA rest, os : Got(rest, HereCell(os)))
  ELSE Got(Tail(toks), HereCell(<<>>))
CrossCubeRef(toks) ==
  Then(Overrides(SubSeq(toks, 3, Len(toks))), LAMBDA r, os :
    Then(Mapping(r), LAMBDA rest, m : Got(rest, FarCell(toks[1].v, os, m))))

(* The expressions and the conditions.                                       *)
RECURSIVE Tier(_, _, _), Chain(_, _, _, _), Unary(_, _), Not(_, _), Args(_, _, _)

Expr(toks, d) == Tier("add", toks, d)
Condition(toks, d) == Tier("or", toks, d)
Operand(tier, toks, d) ==
  CASE tier = "or" -> Tier("and", toks, d)
    [] tier = "and" -> Not(toks, d)
    [] tier = "add" -> Tier("mul", toks, d)
    [] OTHER -> Unary(toks, d)

OpOf(tok) == IF tok.kind = "word" THEN tok.v[1] ELSE tok.kind
AtOp(toks, tier) ==
  /\ toks # <<>>
  /\ IF tier \in {"or", "and"} THEN toks[1].kind = "word" /\ toks[1].v \in Ops[tier]
     ELSE toks[1].kind \in Ops[tier]

Tier(tier, toks, d) == Then(Operand(tier, toks, d), LAMBDA r, first : Chain(tier, first, r, d))
\* Weakened: the right operand takes the rest of the chain.
ChainRight(tier, left, toks, d) ==
  IF AtOp(toks, tier)
  THEN Then(Tier(tier, Tail(toks), d), LAMBDA r, right : Got(r, Bin(OpOf(toks[1]), left, right)))
  ELSE Got(toks, left)
Chain(tier, left, toks, d) ==
  IF AtOp(toks, tier)
  THEN Then(Operand(tier, Tail(toks), d), LAMBDA r, right : Chain(tier, Bin(OpOf(toks[1]), left, right), r, d))
  ELSE Got(toks, left)

If(toks, d) ==
  Then(Condition(Tail(toks), d), LAMBDA r, c :
    Then(ExpectWord(r, <<"then">>), LAMBDA s, w :
      Then(Expr(s, d), LAMBDA rest, a :
        IF AtWord(rest, <<"else">>)
        THEN Then(Expr(Tail(rest), d), LAMBDA t, b : Got(t, IfElse(c, a, b)))
        ELSE Got(rest, IfThen(c, a)))))

\* An argument that is a quoted name, unless it names a cube.
Args(toks, sofar, d) ==
  Then(IF At(toks, "quoted") /\ ~AtSecond(toks, "!") THEN Got(Tail(toks), [op |-> "name", v |-> toks[1].v])
       ELSE Expr(toks, d),
       LAMBDA r, a :
         IF At(r, ",") THEN Args(Tail(r), Append(sofar, a), d)
         ELSE Then(Expect(r, ")"), LAMBDA rest, v : Got(rest, Append(sofar, a))))
Func(toks, d) ==
  LET inside == SubSeq(toks, 3, Len(toks))
      call(args) == [op |-> "func", func |-> toks[1].v, args |-> args]
  IN IF toks[1].v \notin BuiltIns THEN Refuse("unknown function")
     ELSE IF At(inside, ")") THEN Got(Tail(inside), call(<<>>))
     ELSE Then(Args(inside, <<>>, d), LAMBDA rest, args : Got(rest, call(args)))

Primary(toks, d) ==
  CASE At(toks, "number") -> Got(Tail(toks), [op |-> "num", v |-> toks[1].v])
    [] At(toks, "(") ->
         Then(Expr(Tail(toks), d), LAMBDA r, e : Then(Expect(r, ")"), LAMBDA rest, v : Got(rest, e)))
    [] At(toks, "[") -> Then(Overrides(toks), LAMBDA rest, os : Got(rest, HereCell(os)))
    [] At(toks, "quoted") /\ AtSecond(toks, "!") -> CrossCubeRef(toks)
    [] At(toks, "quoted") -> Got(Tail(toks), [op |-> "str", v |-> toks[1].v])
    [] AtWord(toks, <<"value">>) -> ValueRef(toks)
    [] AtWord(toks, <<"if">>) -> If(toks, d)
    [] At(toks, "word") /\ AtSecond(toks, "(") -> Func(toks, d)
    [] OTHER -> Refuse("unexpected token")

\* A level deeper: every expression passes Unary, every condition Not.
Entered(d) == d < MaxParseDepth
Unary(toks, d) ==
  IF ~Entered(d) THEN Refuse("too deep")
  ELSE IF At(toks, "-") THEN Then(Unary(Tail(toks), d + 1), LAMBDA rest, e : Got(rest, [op |-> "neg", arg |-> e]))
  ELSE Primary(toks, d + 1)
Not(toks, d) ==
  IF ~Entered(d) THEN Refuse("too deep")
  ELSE IF AtWord(toks, <<"not">>)
  THEN Then(Not(Tail(toks), d + 1), LAMBDA rest, c : Got(rest, [op |-> "not", arg |-> c]))
  ELSE Then(Expr(toks, d + 1), LAMBDA r, a :
         Then(CmpOp(r), LAMBDA s, cmp :
           Then(Expr(s, d + 1), LAMBDA rest, b : Got(rest, Bin(cmp, a, b)))))

(* Rules.                                                                    *)
\* A marker is N or C before a colon; another word is left where it is.
Scope(toks) ==
  IF AtSecond(toks, ":") /\ \E w \in {"n", "c"} : AtWord(toks, <<w>>)
  THEN Got(SubSeq(toks, 3, Len(toks)), toks[1].v) ELSE Got(toks, <<>>)

Rule(toks) ==
  Then(Scope(toks), LAMBDA q, scope :
    Then(Expect(q, "["), LAMBDA r, v :
      Then(Items("selector", r, <<>>, "]"), LAMBDA s, area :
        Then(Expect(s, "="), LAMBDA t, w :
          Then(Expr(t, 0), LAMBDA u, e :
            Then(Expect(u, ";"), LAMBDA rest, x :
              Got(rest, [scope |-> scope, area |-> area, formula |-> e])))))))

RECURSIVE Rules(_, _)
Rules(toks, sofar) ==
  IF toks = <<>> THEN Got(toks, sofar)
  ELSE Then(Rule(toks), LAMBDA rest, r : Rules(rest, Append(sofar, r)))

Parse(text) == Then(Lex(text, <<>>), LAMBDA rest, toks : Rules(toks, <<>>))

(* The printing, as characters.                                              *)
Quote(name) ==
  <<"'">> \o FlattenSeq([i \in DOMAIN name |-> IF name[i] = "'" THEN <<"'", "'">> ELSE <<name[i]>>]) \o <<"'">>
Spell(op) ==
  CASE op = "->" -> <<"-", ">">> [] op = "<>" -> <<"<", ">">>
    [] op = "<=" -> <<"<", "=">> [] op = ">=" -> <<">", "=">> [] OTHER -> <<op>>
Sp == <<" ">>
Join(parts, between) ==
  FlattenSeq([i \in DOMAIN parts |-> IF i = 1 THEN parts[i] ELSE between \o parts[i]])
Listed(parts) == Join(parts, <<",", " ">>)

ShowMember(m) == IF m.by = "attribute" THEN <<"!">> \o Quote(m.name) ELSE Quote(m.name)
ShowOverrides(os) ==
  IF os = <<>> THEN <<>>
  ELSE <<"[">> \o Listed([i \in DOMAIN os |-> Quote(os[i][1]) \o <<":", " ">> \o ShowMember(os[i][2])]) \o <<"]">>
ShowMapping(m) ==
  IF m = <<>> THEN <<>>
  ELSE <<" ", "with", " ", "(">>
       \o Listed([i \in DOMAIN m |-> Quote(m[i][1]) \o <<" ", "-", ">", " ">> \o Quote(m[i][2])]) \o <<")">>
ShowSelector(s) ==
  CASE s.by = "element" -> Quote(s.name)
    [] s.by = "attribute" ->
         <<"@">> \o Quote(s.name) \o Sp \o Spell(s.cmp) \o Sp
         \o (IF s.value.kind = "quoted" THEN Quote(s.value.v) ELSE s.value.v)
    [] s.by \in {"children", "descendants"} -> <<"{", s.by, " ", "of", " ">> \o Quote(s.name) \o <<"}">>
    [] OTHER -> <<"{", s.by, "}">>

RECURSIVE Show(_)
\* Weakened: an IF stands bare.
ShowIfBare(e) ==
  <<"if", " ">> \o Show(e.cond) \o <<" ", "then", " ">> \o Show(e.then)
  \o (IF "else" \in DOMAIN e THEN <<" ", "else", " ">> \o Show(e.else) ELSE <<>>)
ShowIf(e) ==
  <<"(", "if", " ">> \o Show(e.cond) \o <<" ", "then", " ">> \o Show(e.then)
  \o (IF "else" \in DOMAIN e THEN <<" ", "else", " ">> \o Show(e.else) ELSE <<>>) \o <<")">>
Between(e, op) == Show(e.left) \o Sp \o op \o Sp \o Show(e.right)
Show(e) ==
  CASE e.op = "num" -> e.v
    [] e.op \in {"str", "name"} -> Quote(e.v)
    [] e.op = "cell" -> <<"value">> \o ShowOverrides(e.overrides)
    [] e.op = "far" -> Quote(e.cube) \o <<"!">> \o ShowOverrides(e.overrides) \o ShowMapping(e.mapping)
    [] e.op = "neg" -> <<"-">> \o Show(e.arg)
    [] e.op = "if" -> ShowIf(e)
    [] e.op = "func" -> e.func \o <<"(">> \o Listed([i \in DOMAIN e.args |-> Show(e.args[i])]) \o <<")">>
    [] e.op = "not" -> <<"not", " ">> \o Show(e.arg)
    [] e.op \in {"and", "or"} -> Between(e, <<e.op>>)
    [] e.op \in Compare -> Between(e, Spell(e.op))
    [] OTHER -> <<"(">> \o Between(e, Spell(e.op)) \o <<")">>

ShowRule(r) ==
  r.scope \o (IF r.scope = <<>> THEN <<>> ELSE <<":">>)
  \o <<"[">> \o Listed([i \in DOMAIN r.area |-> Quote(r.area[i][1]) \o <<":", " ">> \o ShowSelector(r.area[i][2])])
  \o <<"]", " ", "=", " ">> \o Show(r.formula) \o <<";">>
ShowDoc(rules) == Join([i \in DOMAIN rules |-> ShowRule(rules[i])], <<"\n">>)
=============================================================================
