------------------------------ MODULE MdxSets ------------------------------
(***************************************************************************)
(* What an MDX set means over one dimension (epiphany-mdx/src/eval.rs) and *)
(* what view a query asks of a cube (view_from_mdx in query_routes.rs).    *)
(* Sets and queries are those of MdxText; a name of one character is the   *)
(* name an element may have, a longer one names nothing.                   *)
(***************************************************************************)
EXTENDS Dimension

CONSTANTS
  MaxDescendantsDepth,  \* MAX_DESCENDANTS_DEPTH
  NumberOf,             \* the value of each number's text that has one
  TextRank              \* the order of the texts

Value(v) == [ok |-> TRUE, v |-> v]
Error(why) == [ok |-> FALSE, why |-> why]
With(r, Next(_)) == IF r.ok THEN Next(r.v) ELSE r
WithBoth(a, b, Next(_, _)) == IF ~a.ok THEN a ELSE IF ~b.ok THEN b ELSE Next(a.v, b.v)

NameOf(name) == IF Len(name) = 1 THEN name[1] ELSE "unknown"
LastOf(path) == NameOf(path[Len(path)])
Dedup(elements) == FoldLeft(LAMBDA acc, e : IF Contains(acc, e) THEN acc ELSE Append(acc, e), <<>>, elements)

\* A path is a name, or a name after the dimension's.
Qualified(dimName, path) == Len(path) = 1 \/ (Len(path) = 2 /\ NameOf(path[1]) = dimName)

ResolveMember(dimName, dim, path) ==
  IF ~Qualified(dimName, path) THEN Error("dimension mismatch")
  ELSE IF ~Resolves(dim, LastOf(path)) THEN Error("unknown member")
  ELSE Value(Resolve(dim, LastOf(path)))

ChildrenOf(dim, e) == [i \in DOMAIN dim.children[e] |-> dim.children[e][i].child]

(* A depth-first walk with a stack of <<node, depth>>, its top last.         *)
RECURSIVE Walked(_, _, _)
\* Weakened: the children are pushed in the order they were authored.
WalkedBackwards(dim, stack, out) ==
  LET top == stack[Len(stack)]
      under == ChildrenOf(dim, top[1])
      rest == SubSeq(stack, 1, Len(stack) - 1)
  IN IF stack = <<>> THEN Value(out)
     ELSE IF Contains(out, top[1]) THEN Walked(dim, rest, out)
     ELSE IF top[2] > MaxDescendantsDepth THEN Error("too deep")
     ELSE Walked(dim, rest \o [i \in DOMAIN under |-> <<under[i], top[2] + 1>>], Append(out, top[1]))
Walked(dim, stack, out) ==
  LET top == stack[Len(stack)]
      under == Reverse(ChildrenOf(dim, top[1]))
      rest == SubSeq(stack, 1, Len(stack) - 1)
  IN IF stack = <<>> THEN Value(out)
     ELSE IF Contains(out, top[1]) THEN Walked(dim, rest, out)
     ELSE IF top[2] > MaxDescendantsDepth THEN Error("too deep")
     ELSE Walked(dim, rest \o [i \in DOMAIN under |-> <<under[i], top[2] + 1>>], Append(out, top[1]))

(* Predicates: three truths.                                                 *)
\* Weakened: what is not known is not so.
NegationOfTwo(t) == IF t = "true" THEN "false" ELSE "true"
Negation(t) == CASE t = "true" -> "false" [] t = "false" -> "true" [] OTHER -> "unknown"
Conjunction(a, b) ==
  IF "false" \in {a, b} THEN "false" ELSE IF a = "true" /\ b = "true" THEN "true" ELSE "unknown"
Disjunction(a, b) ==
  IF "true" \in {a, b} THEN "true" ELSE IF a = "false" /\ b = "false" THEN "false" ELSE "unknown"

Missing == [type |-> "Missing"]
Attribute(dim, e, attr) ==
  LET a == AttributeIndex(dim, attr)
  IN IF a = Gone THEN Error("unknown attribute")
     ELSE Value(IF a \in DOMAIN dim.values[e] THEN dim.values[e][a] ELSE Missing)

OperandValue(dim, e, o) ==
  CASE o.op = "property" -> Attribute(dim, e, NameOf(o.v))
    [] o.op = "str" -> Value([type |-> "Text", v |-> NameOf(o.v)])
    [] OTHER -> IF o.v \in DOMAIN NumberOf THEN Value([type |-> "Numeric", v |-> NumberOf[o.v]])
                ELSE Error("not a number")

Ranked(value) == IF value.type = "Numeric" THEN value.v ELSE TextRank[value.v]
Holds(a, op, b) ==
  CASE op = "=" -> a = b [] op = "<>" -> a # b [] op = "<" -> a < b
    [] op = "<=" -> a <= b [] op = ">" -> a > b [] OTHER -> a >= b
CompareValues(a, op, b) ==
  CASE Missing \in {a, b} -> Value("unknown")
    [] a.type # b.type -> Error("type mismatch")
    [] OTHER -> Value(IF Holds(Ranked(a), op, Ranked(b)) THEN "true" ELSE "false")

RECURSIVE Truth(_, _, _)
Truth(dim, e, p) ==
  CASE p.op = "not" -> With(Truth(dim, e, p.arg), LAMBDA t : Value(Negation(t)))
    [] p.op \in {"and", "or"} ->
         WithBoth(Truth(dim, e, p.left), Truth(dim, e, p.right),
                  LAMBDA a, b : Value(IF p.op = "and" THEN Conjunction(a, b) ELSE Disjunction(a, b)))
    [] OTHER -> WithBoth(OperandValue(dim, e, p.left), OperandValue(dim, e, p.right),
                         LAMBDA a, b : CompareValues(a, p.op, b))

FirstError(results) == results[Min({i \in DOMAIN results : ~results[i].ok})]
Filtered(dim, elements, pred) ==
  LET truths == [i \in DOMAIN elements |-> Truth(dim, elements[i], pred)]
      kept == SelectSeq([i \in DOMAIN elements |-> <<i, elements[i]>>],
                        LAMBDA x : truths[x[1]].v = "true")
  IN IF \E i \in DOMAIN truths : ~truths[i].ok THEN FirstError(truths)
     ELSE Value([i \in DOMAIN kept |-> kept[i][2]])

(* Order: a missing value before a number, a number before a text; equal     *)
(* keys keep the order they came in, in both directions.                     *)
KeyClass(value) == CASE value = Missing -> 0 [] value.type = "Numeric" -> 1 [] OTHER -> 2
KeyBefore(a, b) ==
  \/ KeyClass(a) < KeyClass(b)
  \/ KeyClass(a) = KeyClass(b) /\ a # Missing /\ Ranked(a) < Ranked(b)
Ordered(dim, elements, attr, dir) ==
  LET key(e) == Attribute(dim, e, attr).v
      before(a, b) == IF dir \in {"asc", "basc"} THEN KeyBefore(key(a), key(b)) ELSE KeyBefore(key(b), key(a))
      Put(sorted, e) ==
        LET later == {i \in DOMAIN sorted : before(e, sorted[i])}
        IN InsertAt(sorted, IF later = {} THEN Len(sorted) + 1 ELSE Min(later), e)
  IN IF AttributeIndex(dim, attr) = Gone THEN Error("unknown attribute")
     ELSE Value(FoldLeft(Put, <<>>, elements))

RECURSIVE EvalSet(_, _, _)
EvalSet(dimName, dim, s) ==
  CASE s.op = "set" ->
         LET parts == [i \in DOMAIN s.items |-> EvalSet(dimName, dim, s.items[i])]
         IN IF \E i \in DOMAIN parts : ~parts[i].ok THEN FirstError(parts)
            ELSE Value(Dedup(FlattenSeq([i \in DOMAIN parts |-> parts[i].v])))
    [] s.op = "member" -> With(ResolveMember(dimName, dim, s.path), LAMBDA e : Value(<<e>>))
    [] s.op = "members" -> IF ~Qualified(dimName, s.path) \/ LastOf(s.path) # dimName
                           THEN Error("dimension mismatch") ELSE Value([i \in 1 .. Size(dim) |-> i])
    [] s.op = "children" ->
         With(ResolveMember(dimName, dim, s.path), LAMBDA e : Value(Dedup(ChildrenOf(dim, e))))
    [] s.op = "descendants" ->
         With(ResolveMember(dimName, dim, s.path), LAMBDA e : Walked(dim, <<<<e, 0>>>>, <<>>))
    [] s.op = "filter" -> With(EvalSet(dimName, dim, s.set), LAMBDA es : Filtered(dim, es, s.pred))
    [] s.op = "order" -> With(EvalSet(dimName, dim, s.set), LAMBDA es : Ordered(dim, es, NameOf(s.attr), s.dir))
    [] OTHER -> Error("tuple set")

Evaluate(dimName, dim, s) == With(EvalSet(dimName, dim, s), LAMBDA es : Value(Dedup(es)))

(* A query as a view.                                                        *)
RECURSIVE Flat(_), AxisDimension(_)
\* Weakened: the right set first.
FlatRight(s) == IF s.op = "cross" THEN Flat(s.right) \o Flat(s.left) ELSE <<s>>
Flat(s) == IF s.op = "cross" THEN Flat(s.left) \o Flat(s.right) ELSE <<s>>

\* The dimension a set selects from: that of its first qualified member.
AxisDimension(s) ==
  CASE s.op = "members" -> {LastOf(s.path)}
    [] s.op \in {"member", "children", "descendants"} -> IF Len(s.path) >= 2 THEN {NameOf(s.path[1])} ELSE {}
    [] s.op = "set" ->
         LET named == {i \in DOMAIN s.items : AxisDimension(s.items[i]) # {}}
         IN IF named = {} THEN {} ELSE AxisDimension(s.items[Min(named)])
    [] s.op = "cross" -> AxisDimension(s.left)
    [] OTHER -> AxisDimension(s.set)

DimOf(cube, name) == CHOOSE i \in DOMAIN cube.dimNames : cube.dimNames[i] = name

Component(cube, s) ==
  IF AxisDimension(s) = {} THEN Error("no dimension")
  ELSE LET name == CHOOSE n \in AxisDimension(s) : TRUE
       IN IF ~Contains(cube.dimNames, name) THEN Error("unknown dimension")
          ELSE LET dim == cube.dims[DimOf(cube, name)]
               IN With(Evaluate(name, dim, s), LAMBDA es :
                    Value([dim |-> name, members |-> [i \in DOMAIN es |-> dim.elements[es[i]].name]]))

AxisOf(cube, axis) ==
  LET parts == Flat(axis.set)
      lists == [i \in DOMAIN parts |-> Component(cube, parts[i])]
  IN IF axis.axis \notin {<<"rows">>, <<"columns">>} THEN Error("unsupported axis")
     ELSE IF \E i \in DOMAIN lists : ~lists[i].ok THEN FirstError(lists)
     ELSE Value([i \in DOMAIN lists |-> lists[i].v])

\* A dimension named twice in the slicer is refused when the view is executed.
ContextOf(slicer) ==
  IF \E i \in DOMAIN slicer : Len(slicer[i]) < 2 THEN Error("unqualified slicer")
  ELSE IF ~IsInjective([i \in DOMAIN slicer |-> slicer[i][1]]) THEN Error("dimension coverage")
  ELSE Value([d \in {NameOf(slicer[i][1]) : i \in DOMAIN slicer} |->
                LastOf(slicer[CHOOSE i \in DOMAIN slicer : NameOf(slicer[i][1]) = d])])

ViewFrom(cube, cubeName, query) ==
  LET axes == [i \in DOMAIN query.axes |-> AxisOf(cube, query.axes[i])]
      on(word) == {i \in DOMAIN query.axes : query.axes[i].axis = <<word>>}
      sets(word) == IF on(word) = {} THEN <<>> ELSE axes[Min(on(word))].v
  IN IF NameOf(query.cube) # cubeName THEN Error("cube mismatch")
     ELSE IF \E i \in DOMAIN axes : ~axes[i].ok THEN FirstError(axes)
     ELSE With(ContextOf(query.slicer), LAMBDA context :
            Value([rows |-> sets("rows"), columns |-> sets("columns"), context |-> context,
                   zeroRows |-> FALSE, zeroColumns |-> FALSE]))
=============================================================================
