---------------------------- MODULE RuleQueries ----------------------------
(***************************************************************************)
(* Requests that read through the rules, each over one registry pinned     *)
(* when it starts: a view (execute_view in epiphany-core/src/query.rs, its *)
(* grid filled by workers over bands of rows, each with the memo of its    *)
(* thread, CalcCellResolver in epiphany-api/src/calc_factory.rs), an       *)
(* explanation, a spread, the rule tests of a cube and the feeder          *)
(* diagnostics.  Cube 1 is the one asked; engine is how it is read.        *)
(***************************************************************************)
EXTENDS ViewQuery

(***************************************************************************)
(* What a cube's rules mean, as the rules are written: every name is looked*)
(* up where it is used, nothing is compiled, nothing is remembered between *)
(* cells, and a consolidation is the weighted sum over all its leaves.  A  *)
(* chain of cells that returns to itself has no value.                     *)
(***************************************************************************)

Selects(dim, sel, e) ==
  LET named(name) == dim.elements[e].name = name
                     \/ \E a \in AliasAttributes(dim) : a \in DOMAIN dim.values[e]
                                                        /\ dim.values[e][a] = AsText(name)
      under(p) == \E i \in DOMAIN dim.children[p] : dim.children[p][i].child = e
  IN CASE sel.by = "element" -> named(sel.name)
       [] sel.by = "all" -> TRUE
       [] sel.by = "leaves" -> dim.elements[e].kind # Consolidated
       [] sel.by = "consolidated" -> dim.elements[e].kind = Consolidated
       [] sel.by = "children" -> under(Resolve(dim, sel.name))
       [] sel.by = "descendants" -> Reaches(dim.children, Resolve(dim, sel.name), e)
       [] sel.by = "attribute" -> AttrMatches(dim, e, AttributeIndex(dim, sel.name), sel)

Covers(cube, rule, coord) ==
  \A d \in DOMAIN coord :
    LET name == cube.dimNames[d]
    IN IF name \in DOMAIN rule.area THEN Selects(cube.dims[d], rule.area[name], coord[d])
       ELSE (cube.dims[d].elements[coord[d]].kind = Consolidated) = (rule.scope = "C:")

Governing(cube, coord) == {i \in DOMAIN cube.rules : Covers(cube, cube.rules[i], coord)}

(* The weight of a leaf under an element: that of the path with the fewest   *)
(* edges, and of those, of the one whose edges come first.                   *)
Extended(dim, path) ==
  {[edges |-> Append(path.edges, k), at |-> dim.children[path.at][k].child,
    weight |-> path.weight * dim.children[path.at][k].weight] : k \in DOMAIN dim.children[path.at]}

PathsFrom(dim, e) ==
  LET paths[n \in Nat] ==
        IF n = 0 THEN {[edges |-> <<>>, at |-> e, weight |-> 1]}
        ELSE UNION {Extended(dim, path) : path \in paths[n - 1]}
  IN UNION {paths[n] : n \in 0 .. Size(dim) - 1}

Before(p, q) ==
  \/ Len(p) < Len(q)
  \/ Len(p) = Len(q) /\ \E k \in DOMAIN p : p[k] < q[k] /\ \A j \in 1 .. k - 1 : p[j] = q[j]

NearestWeights(dim, e) ==
  LET paths == {path \in PathsFrom(dim, e) : dim.elements[path.at].kind = Leaf}
      first == {path \in paths : \A q \in paths : q.at = path.at => ~Before(q.edges, path.edges)}
      counted == {path \in first : path.weight # 0}
  IN [leaf \in {path.at : path \in counted} |-> (CHOOSE path \in counted : path.at = leaf).weight]

RECURSIVE Means(_, _, _, _, _), Says(_, _, _, _, _, _), Holds(_, _, _, _, _, _)

Rollup(cubes, eng, path, o, coord) ==
  LET weights == [d \in DOMAIN coord |-> NearestWeights(cubes[o].dims[d], coord[d])]
      leaves == Product([d \in DOMAIN weights |-> DOMAIN weights[d]])
      parts == [leaf \in leaves |-> Means(cubes, eng, path, o, leaf)]
  IN IF \E leaf \in leaves : ~parts[leaf].ok THEN Err("leaf")
     ELSE Checked(FoldSet(LAMBDA leaf, sum : sum + CellWeight(weights, leaf) * parts[leaf].v, 0, leaves))

Means(cubes, eng, path, o, coord) ==
  LET cube == cubes[o]
      deeper == path \cup {<<o, coord>>}
      rule == cube.rules[CHOOSE i \in Governing(cube, coord) :
                           \A j \in Governing(cube, coord) : i <= j]
  IN IF <<o, coord>> \in path THEN Err("Cycle")
     ELSE IF Denied(eng, o, coord) THEN Err("AccessDenied")
     ELSE IF RulesBroken(cubes, o) THEN Err("RulesFailed")
     ELSE IF Governing(cube, coord) # {} THEN Says(cubes, eng, deeper, o, coord, rule.formula)
     ELSE IF \E d \in DOMAIN coord : cube.dims[d].elements[coord[d]].kind = Consolidated
     THEN Rollup(cubes, eng, deeper, o, coord)
     ELSE IF o = eng.target /\ coord \in DOMAIN eng.overlay THEN Ok(eng.overlay[coord])
     ELSE Ok(Stored(cube, coord))

Then(a, b, combine(_, _)) == IF ~a.ok THEN a ELSE IF ~b.ok THEN b ELSE combine(a.v, b.v)

Addressed(cubes, o, coord, ref) ==
  LET cube == cubes[CubeNamed(cubes, ref.cube)]
  IN [d \in DOMAIN cube.dims |->
        IF cube.dimNames[d] \in DOMAIN ref.at THEN Resolve(cube.dims[d], ref.at[cube.dimNames[d]])
        ELSE coord[DimPosition(cubes[o], cube.dimNames[d])]]

Says(cubes, eng, path, o, coord, e) ==
  CASE e.op = "num" -> Ok(e.v)
    [] e.op \in {"undef", "none"} -> Ok(0)
    [] e.op = "attr" ->
         LET d == DimPosition(cubes[o], e.dim)
         IN Ok(AttrNumber(cubes[o], d, AttributeIndex(cubes[o].dims[d], e.name), coord))
    [] e.op = "cell" -> Means(cubes, eng, path, CubeNamed(cubes, e.cube), Addressed(cubes, o, coord, e))
    [] e.op = "neg" -> LET a == Says(cubes, eng, path, o, coord, e.arg)
                       IN IF a.ok THEN Checked(-a.v) ELSE a
    [] e.op = "if" -> LET c == Holds(cubes, eng, path, o, coord, e.cond)
                      IN IF ~c.ok THEN c
                         ELSE Says(cubes, eng, path, o, coord, IF c.v THEN e.then ELSE e.else)
    [] OTHER -> Then(Says(cubes, eng, path, o, coord, e.left),
                     Says(cubes, eng, path, o, coord, e.right), LAMBDA a, b : Arith(e.op, a, b))

Holds(cubes, eng, path, o, coord, c) ==
  CASE c.op \in {"and", "or"} ->
         LET a == Holds(cubes, eng, path, o, coord, c.left)
         IN IF a.ok /\ a.v = (c.op = "and") THEN Holds(cubes, eng, path, o, coord, c.right) ELSE a
    [] c.op = "not" -> LET a == Holds(cubes, eng, path, o, coord, c.arg)
                       IN IF a.ok THEN Ok(~a.v) ELSE a
    [] OTHER -> Then(Says(cubes, eng, path, o, coord, c.left),
                     Says(cubes, eng, path, o, coord, c.right),
                     LAMBDA a, b : Ok(Compares(a, c.op, b)))

Meaning(cubes, eng, o, coord) == Means(cubes, eng, {}, o, coord)

-----------------------------------------------------------------------------

(***************************************************************************)
(* What a value was computed from (epiphany-calc/src/provenance.rs).  A    *)
(* trace is [cube, coord, value, kind, inputs, truncated], the inputs      *)
(* being traces while the depth lasts; Explain returns it in place of the  *)
(* value, as [memo, r].                                                    *)
(***************************************************************************)

CONSTANT MaxExplainInputs  \* how many inputs a consolidation's trace lists
ASSUME ExplainAssumption == MaxExplainInputs \in Nat

\* Weakened: the cells that decided a branch are not consulted inputs.
NoCells(e) == <<>>

RECURSIVE AllCells(_), Consulted(_, _, _, _, _, _), Explain(_, _, _, _, _, _)

\* collect_condition_cells and collect_expr_cells: every cell, in source order
AllCells(e) ==
  CASE e.op = "cell" -> <<e>>
    [] e.op \in {"num", "attr", "undef", "none"} -> <<>>
    [] e.op \in {"neg", "not"} -> AllCells(e.arg)
    [] e.op = "if" -> AllCells(e.cond) \o AllCells(e.then) \o AllCells(e.else)
    [] OTHER -> AllCells(e.left) \o AllCells(e.right)

Preceding(cells, more) == IF more.r.ok THEN [more EXCEPT !.r.v = cells \o @] ELSE more

\* The cells the evaluation consulted; of an IF, the condition's and the taken branch's.
Consulted(reg, eng, memo, o, coord, e) ==
  CASE e.op = "cell" -> [memo |-> memo, r |-> Ok(<<e>>)]
    [] e.op \in {"num", "attr", "undef", "none"} -> [memo |-> memo, r |-> Ok(<<>>)]
    [] e.op = "neg" -> Consulted(reg, eng, memo, o, coord, e.arg)
    [] e.op = "if" ->
         LET branch(c) ==
               IF c.r.ok THEN Preceding(AllCells(e.cond),
                                     Consulted(reg, eng, c.memo, o, coord, IF c.r.v THEN e.then ELSE e.else))
               ELSE c
         IN branch(Cond(reg, eng, memo, o, coord, e.cond))
    [] OTHER ->
         LET after(a) == IF a.r.ok THEN Preceding(a.r.v, Consulted(reg, eng, a.memo, o, coord, e.right)) ELSE a
         IN after(Consulted(reg, eng, memo, o, coord, e.left))

Trace(o, coord, value, kind, inputs, truncated) ==
  [cube |-> o, coord |-> coord, value |-> value, kind |-> kind, inputs |-> inputs,
   truncated |-> truncated]

\* One more input explained, unless something failed already.
Listed(reg, eng, acc, o, coord, depth) ==
  LET with(got) == [memo |-> got.memo, truncated |-> acc.truncated,
                    r |-> IF got.r.ok THEN Ok(Append(acc.r.v, got.r.v)) ELSE got.r]
  IN IF acc.r.ok THEN with(Explain(reg, eng, acc.memo, o, coord, depth)) ELSE acc

\* A leaf of a consolidation: read, listed when not zero, until the list is full.
Contribution(reg, eng, acc, o, leaf, depth) ==
  LET with(read, r) ==
        IF ~r.ok THEN [read EXCEPT !.r = r]
        ELSE IF r.v = 0 THEN read
        ELSE IF Len(acc.r.v) = MaxExplainInputs THEN [read EXCEPT !.truncated = TRUE]
        ELSE Listed(reg, eng, read, o, leaf, depth)
      on(got) == with([acc EXCEPT !.memo = got.memo], got.r)
  IN IF ~acc.r.ok \/ acc.truncated THEN acc ELSE on(Value(reg, eng, acc.memo, o, leaf))

\* depth: how many levels of traces, this one included
Explain(reg, eng, memo, o, coord, depth) ==
  LET cube == reg.cubes[o]
      model == reg.models[o]
      derived == Matching(cube, model, coord) # {}
      outline(weights) == Walk([d \in DOMAIN weights |-> Ascending(DOMAIN weights[d])], FALSE)
      none(m) == [memo |-> m, r |-> Ok(<<>>), truncated |-> FALSE]
      each(cells) ==
        IF cells.r.ok
        THEN FoldLeft(LAMBDA acc, c : Listed(reg, eng, acc, c.cube, Target(c.addr, coord), depth - 1),
                      none(cells.memo), cells.r.v)
        ELSE [none(cells.memo) EXCEPT !.r = cells.r]
      inputs(m) ==
        IF depth <= 1 \/ (~derived /\ AllLeaf(cube, coord)) THEN none(m)
        ELSE IF derived
        THEN each(Consulted(reg, eng, m, o, coord, model[FirstMatch(cube, model, coord)].expr))
        ELSE FoldLeft(LAMBDA acc, leaf : Contribution(reg, eng, acc, o, leaf, depth - 1), none(m),
                      outline(Weights(cube, coord)))
      kind == IF derived THEN "rule" ELSE IF AllLeaf(cube, coord) THEN "stored" ELSE "consolidation"
      traced(v, from) ==
        [memo |-> from.memo,
         r |-> IF from.r.ok THEN Ok(Trace(o, coord, v, kind, from.r.v, from.truncated)) ELSE from.r]
      of(value) == IF value.r.ok THEN traced(value.r.v, inputs(value.memo)) ELSE value
  IN of(Value(reg, eng, memo, o, coord))

-----------------------------------------------------------------------------

CONSTANTS Models,     \* the lists of cubes to ask
          Requests    \* what to ask of them

VARIABLES registry,   \* the cubes, their compiled rules and fed sets
          request,    \* what is asked: [kind, engine, ...]
          grid,       \* a view's rows and columns, or why it is refused
          cells,      \* the grid cells read so far, by ordinal, row major
          next,       \* each worker's next ordinal
          failed,     \* each worker's first hard failure
          memos,      \* each worker's memo
          answer
vars == <<registry, request, grid, cells, next, failed, memos, answer>>

NoAnswer == [pending |-> TRUE]
NoFailure == [none |-> TRUE]
Target1 == 1

Cube == registry.cubes[Target1]

(* The bands.  A grid read by one worker is read serially.                   *)
Total == Len(grid.v.rows) * Len(grid.v.columns)
CeilDiv(a, b) == (a + b - 1) \div b
WorkersFor(total) == IF request.workers < total THEN request.workers ELSE total
BandCells == CeilDiv(Len(grid.v.rows), WorkersFor(Total)) * Len(grid.v.columns)
Bands == IF grid.ok /\ Total > 0 THEN 1 .. CeilDiv(Total, BandCells) ELSE {}
\* Weakened: every worker starts at the first cell.
BandStartFirst(b) == 1
BandStart(b) == (b - 1) * BandCells + 1
BandEnd(b) == IF b * BandCells < Total THEN b * BandCells ELSE Total

CoordAt(n) ==
  LET nc == Len(grid.v.columns)
  IN GridCoord(Cube, request.view, grid.v, ((n - 1) \div nc) + 1, ((n - 1) % nc) + 1)

Init ==
  /\ registry \in {Registry(cubes) : cubes \in Models}
  /\ request \in Requests
  /\ grid = IF request.kind = "view" THEN Prepared(request.engine, Cube, request.view) ELSE Err("no view")
  /\ cells = NoFn
  /\ next = [b \in Bands |-> BandStart(b)]
  /\ failed = [b \in Bands |-> NoFailure]
  /\ memos = [b \in Bands |-> NoFn]
  /\ answer = NoAnswer

\* One cell: through the text channel, or the rules and this thread's memo.
CellAt(memo, coord) ==
  IF IsTextCell(Cube, coord)
  THEN [memo |-> memo, r |-> StringValue(registry, request.engine, Target1, coord), text |-> TRUE]
  ELSE [text |-> FALSE] @@ Value(registry, request.engine, memo, Target1, coord)

FillCell(b) ==
  LET n == next[b]
      out == CellAt(memos[b], CoordAt(n))
      hard == ~out.r.ok /\ IsHard(out.r.why)
      serial == Cardinality(Bands) = 1
  IN /\ answer = NoAnswer /\ n <= BandEnd(b)
     /\ memos' = [memos EXCEPT ![b] = out.memo]
     /\ cells' = IF hard THEN cells
                 ELSE (n :> IF ~out.r.ok THEN ErrorCell(out.r.why)
                            ELSE IF out.text THEN TextCell(out.r.v) ELSE NumericCell(out.r.v)) @@ cells
     /\ failed' = IF hard /\ failed[b] = NoFailure
                  THEN [failed EXCEPT ![b] = [at |-> n, why |-> out.r.why]] ELSE failed
     /\ next' = [next EXCEPT ![b] = IF hard /\ serial THEN BandEnd(b) + 1 ELSE n + 1]
     /\ UNCHANGED <<registry, request, grid, answer>>

Failures == {failed[b] : b \in {c \in Bands : failed[c] # NoFailure}}

\* Weakened: whichever band failed, the last one's failure is the answer.
LastFailure == CHOOSE f \in Failures : \A g \in Failures : f.at >= g.at
LowestFailure == CHOOSE f \in Failures : \A g \in Failures : f.at <= g.at

AnswerView ==
  /\ request.kind = "view" /\ answer = NoAnswer
  /\ \A b \in Bands : next[b] > BandEnd(b)
  /\ answer' = IF ~grid.ok THEN grid
               ELSE IF Failures # {} THEN Err(LowestFailure.why)
               ELSE Ok(CellsetOf(request.view, grid.v, cells))
  /\ UNCHANGED <<registry, request, grid, cells, next, failed, memos>>

(* A rule test runs on a copy of the cube with its fixtures written, and     *)
(* consolidates densely; the first evaluation to fail ends the whole run.    *)
WithLeaf(cellMap, at, v) ==
  IF v = 0 THEN Restrict(cellMap, DOMAIN cellMap \ {at}) ELSE (at :> v) @@ cellMap
WithLeaves(cellMap, writes) == FoldLeft(LAMBDA m, w : WithLeaf(m, w.at, w.v), cellMap, writes)

FixtureRegistry(reg, test) ==
  [reg EXCEPT !.cubes[Target1].cells = WithLeaves(@, test.fixtures),
              !.fed = [o \in DOMAIN @ |-> NoFed]]

\* Weakened: a test inherits the fixtures of those before it.
RunTestsOnOneCube(reg, tests) ==
  LET all == FoldLeft(LAMBDA fixtures, t : fixtures \o t.fixtures, <<>>, tests)
      run(t) == Value(FixtureRegistry(reg, [fixtures |-> all]), BaseEngine, NoFn, Target1, t.at).r
  IN Ok([i \in DOMAIN tests |-> run(tests[i]) = Ok(tests[i].expect)])

RunTests(reg, tests) ==
  LET run(t) == Value(FixtureRegistry(reg, t), BaseEngine, NoFn, Target1, t.at).r
      with(acc, t, r) == IF r.ok THEN Ok(Append(acc.v, r.v = t.expect)) ELSE r
      one(acc, t) == IF acc.ok THEN with(acc, t, run(t)) ELSE acc
  IN IF reg.broken[Target1] THEN Err("RulesFailed") ELSE FoldLeft(one, Ok(<<>>), tests)

\* The feeder diagnostics of a cube whose rules compile.
Diagnosed(reg) ==
  LET found(inferred) == Ok([inferred |-> inferred, found |-> Validated(reg, Target1, inferred.fed)])
  IN IF reg.broken[Target1] THEN Err("RulesFailed")
     ELSE found(Inferred(reg.cubes[Target1], reg.models[Target1], Target1))

Answer(reg, req) ==
  CASE req.kind = "explain" -> Explain(reg, req.engine, NoFn, Target1, req.at, req.depth).r
    [] req.kind = "spread" -> SpreadLeaves(reg, req.engine, Target1, req.at, req.total, req.method)
    [] req.kind = "tests" -> RunTests(reg, req.tests)
    [] req.kind = "diagnose" -> Diagnosed(reg)

AnswerOther ==
  /\ request.kind # "view" /\ answer = NoAnswer
  /\ answer' = Answer(registry, request)
  /\ UNCHANGED <<registry, request, grid, cells, next, failed, memos>>

Next == (\E b \in Bands : FillCell(b)) \/ AnswerView \/ AnswerOther
Spec == Init /\ [][Next]_vars
-----------------------------------------------------------------------------
(* Properties.                                                               *)
Engine == request.engine
Said(coord) == Meaning(registry.cubes, Engine, Target1, coord)
Answered(kind) == request.kind = kind /\ answer # NoAnswer /\ answer.ok

\* The bands partition the grid, and a band's cells are those before its next.
TypeOK ==
  /\ DOMAIN next = Bands /\ DOMAIN failed = Bands /\ DOMAIN memos = Bands
  /\ \A b \in Bands : next[b] \in (b - 1) * BandCells + 1 .. BandEnd(b) + 1
  /\ \A b \in Bands : failed[b] = NoFailure =>
       \A n \in (b - 1) * BandCells + 1 .. BandEnd(b) : n \in DOMAIN cells <=> n < next[b]
  /\ answer # NoAnswer => answer.ok \in BOOLEAN

\* A number read through the compiled rules, the memo of a thread, the fed
\* leaves, a sandbox or a mask is what the rules, as written, say of the cell
\* (CalcEngine::value, consolidate_fed, leaf_weights); a cell without a value
\* is marked, never blank.
CellsMeanTheRules ==
  \A n \in DOMAIN cells :
    ~IsTextCell(Cube, CoordAt(n)) =>
      IF Said(CoordAt(n)).ok THEN cells[n] = NumericCell(Said(CoordAt(n)).v)
      ELSE cells[n].error # NoError

\* A view is answered as if one thread had read its cells in order: neither the
\* number of workers nor their interleaving shows, in the cells or in the
\* failure reported (fill_grid_parallel), and it fails exactly when the caller
\* may not read a cell of it or the rules are broken.
ReadInOrder(n, memo) == CellAt(memo, CoordAt(n)).r
AnswersIgnoreTheWorkers ==
  request.kind = "view" /\ answer # NoAnswer /\ grid.ok =>
    LET hard == {n \in 1 .. Total : LET r == ReadInOrder(n, NoFn) IN ~r.ok /\ IsHard(r.why)}
        first == CHOOSE n \in hard : \A k \in hard : n <= k
    IN IF hard = {} THEN answer.ok ELSE answer = Err(ReadInOrder(first, NoFn).why)

\* Zero suppression drops a line only when nothing on it would be seen: a
\* number that is not zero, a text or an error keeps its row and its column
\* (execute_view_with), though columns are judged on the rows left.
NothingSeenIsSuppressed ==
  Answered("view") =>
    \A n \in 1 .. Total :
      LET nc == Len(grid.v.columns)
          row == grid.v.rows[((n - 1) \div nc) + 1]
          column == grid.v.columns[((n - 1) % nc) + 1]
      IN cells[n] # NumericCell(0) => Contains(answer.v.rows, row) /\ Contains(answer.v.columns, column)

\* An explanation accounts for the value it explains: every traced value is
\* what the rules say, a rule's inputs are enough to compute it again, and a
\* consolidation's add up to it unless the list was cut (provenance.rs).
RECURSIVE FromInputs(_, _, _), Accounted(_, _)

FromInputs(t, e, coord) ==
  LET both(combine(_, _)) == Then(FromInputs(t, e.left, coord), FromInputs(t, e.right, coord), combine)
  IN CASE e.op = "num" -> Ok(e.v)
       [] e.op \in {"undef", "none"} -> Ok(0)
       [] e.op = "attr" -> Ok(AttrNumber(registry.cubes[t.cube], e.dim, e.attr, coord))
       [] e.op = "cell" ->
            LET listed == {i \in DOMAIN t.inputs : t.inputs[i].cube = e.cube
                                                    /\ t.inputs[i].coord = Target(e.addr, coord)}
            IN IF listed = {} THEN Err("not listed") ELSE Ok(t.inputs[CHOOSE i \in listed : TRUE].value)
       [] e.op = "neg" -> LET a == FromInputs(t, e.arg, coord) IN IF a.ok THEN Ok(-a.v) ELSE a
       [] e.op = "not" -> LET a == FromInputs(t, e.arg, coord) IN IF a.ok THEN Ok(~a.v) ELSE a
       [] e.op = "if" -> LET c == FromInputs(t, e.cond, coord)
                         IN IF ~c.ok THEN c ELSE FromInputs(t, IF c.v THEN e.then ELSE e.else, coord)
       [] e.op \in {"and", "or"} ->
            LET a == FromInputs(t, e.left, coord)
            IN IF a.ok /\ a.v = (e.op = "and") THEN FromInputs(t, e.right, coord) ELSE a
       [] e.op \in {"+", "-", "*", "/"} -> both(LAMBDA a, b : Arith(e.op, a, b))
       [] OTHER -> both(LAMBDA a, b : Ok(Compares(a, e.op, b)))

Accounted(t, depth) ==
  LET cube == registry.cubes[t.cube]
      model == registry.models[t.cube]
      weights == [d \in DOMAIN t.coord |-> NearestWeights(cube.dims[d], t.coord[d])]
      parts == [i \in DOMAIN t.inputs |-> CellWeight(weights, t.inputs[i].coord) * t.inputs[i].value]
  IN /\ Meaning(registry.cubes, Engine, t.cube, t.coord) = Ok(t.value)
     /\ depth > 1 =>
          CASE t.kind = "rule" ->
                 FromInputs(t, model[FirstMatch(cube, model, t.coord)].expr, t.coord) = Ok(t.value)
            [] t.kind = "stored" -> t.inputs = <<>>
            [] t.kind = "consolidation" ->
                 IF t.truncated THEN Len(t.inputs) = MaxExplainInputs ELSE SumOf(parts) = t.value
     /\ \A i \in DOMAIN t.inputs : Accounted(t.inputs[i], depth - 1)

ExplainAccountsForTheValue == Answered("explain") => Accounted(answer.v, request.depth)

\* An equal or proportional spread places exactly what was entered: read back
\* after the writes, a coordinate no rule overrides shows the entered value
\* beside what the rules give the leaves they fill, which got no share
\* (spread_leaves, RuleCoverage).
SpreadReadsBack ==
  Answered("spread") /\ request.method \in {"equal", "proportional"} /\ answer.v # <<>>
    /\ Governing(Cube, request.at) = {} =>
    LET sandbox == Engine.scope # 0
        after == IF sandbox THEN registry.cubes
                 ELSE [registry.cubes EXCEPT ![Target1].cells = WithLeaves(@, answer.v)]
        engine == IF sandbox THEN [Engine EXCEPT !.overlay = FoldLeft(
                                     LAMBDA m, w : (w.at :> w.v) @@ m, @, answer.v)] ELSE Engine
        leaves == Product([d \in DOMAIN request.at |-> DOMAIN NearestWeights(Cube.dims[d], request.at[d])])
        filled == {leaf \in leaves : Governing(Cube, leaf) # {}}
        reads(at) == Meaning(after, engine, Target1, at)
    IN reads(request.at).ok =>
         reads(request.at).v
           = request.total + FoldSet(LAMBDA leaf, sum : sum + reads(leaf).v, 0, filled)

\* A rule test sees its own fixtures over the cube, and no other test's
\* (run_one_cross_cube).
TestsSeeOnlyTheirFixtures ==
  Answered("tests") =>
    \A i \in DOMAIN answer.v :
      answer.v[i] = (Meaning(FixtureRegistry(registry, request.tests[i]).cubes, BaseEngine, Target1,
                             request.tests[i].at) = Ok(request.tests[i].expect))

\* Inference feeds every leaf an analyzable rule makes non-zero, rules that read
\* other rules' leaves, overrides and cells of other cubes included
\* (infer_feeders: "never under-feeds an analyzable rule"), provided each cell
\* it reads expands to some leaf.
ReadsSomeLeaf(rule, t) ==
  \A cell \in Inputs(rule, Target1) :
    \A d \in DOMAIN t : DOMAIN NearestWeights(Cube.dims[d], Target(cell.addr, t)[d]) # {}

AnalyzableRulesAreFed ==
  Answered("diagnose") =>
    LET model == registry.models[Target1]
        readable == \A i \in DOMAIN model : \A t \in Targets(Cube, model[i]) : ReadsSomeLeaf(model[i], t)
    IN readable => \A t \in answer.v.found.under : FirstMatch(Cube, model, t) \in answer.v.inferred.opaque

(* A cell has the value its rules give it, whichever way it is reached: in  *)
(* a consolidation that skips cells, or under a test's fixtures (the eval,  *)
(* sparse and feeders modules of epiphany-calc, run_rule_tests).            *)
ValuesMeanTheRules ==
  /\ CellsMeanTheRules
  /\ TestsSeeOnlyTheirFixtures
  /\ AnalyzableRulesAreFed

(* A grid is the same however many workers fill it, and what it suppresses  *)
(* is blank (execute_view).                                                 *)
ViewsShowWhatIsThere ==
  /\ TypeOK
  /\ AnswersIgnoreTheWorkers
  /\ NothingSeenIsSuppressed

(* What is shown of a total adds up to it, going down and coming back       *)
(* (explain_cell, spread_leaves).                                           *)
NumbersAddUp ==
  /\ ExplainAccountsForTheValue
  /\ SpreadReadsBack

=============================================================================
