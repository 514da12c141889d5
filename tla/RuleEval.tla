------------------------------ MODULE RuleEval ------------------------------
(***************************************************************************)
(* On-demand evaluation of compiled rules (epiphany-calc/src/eval.rs) over *)
(* a registry [cubes, broken, models, fed]                                 *)
(* (epiphany-api/src/calc_factory.rs), and the consolidations of           *)
(* epiphany-core/src/cube.rs it pulls leaves through.                      *)
(*                                                                         *)
(* An engine is [scope, overlay, mask, target]: the sandbox's scope id (0  *)
(* for base) and cells, the denied <<dimension, element>> pairs, and the   *)
(* cube both apply to.  The memo is a function on <<scope, cube, coord>>;  *)
(* every operator that may write it returns [memo, r], r being Ok or Err.  *)
(***************************************************************************)
EXTENDS Dimension

(***************************************************************************)
(* From a parsed rule set to its resolved form                             *)
(* (epiphany-calc/src/compile.rs): dimensions, members and attributes are  *)
(* looked up once, areas become sets of positions, and a cell reference    *)
(* becomes one slot per dimension.  A name that resolves nowhere, or a     *)
(* construct not supported, fails the whole rule set.                      *)
(*                                                                         *)
(* A cube is [name, dimNames, dims, cells, rules].  A rule is              *)
(* [area, scope, formula]; an area maps dimension names to selectors.      *)
(***************************************************************************)

Unconstrained == {Gone}  \* an area's dimension that no selector names
FromTarget == 0          \* an address slot; a pinned slot is its position

DimPosition(cube, name) == CHOOSE d \in DOMAIN cube.dimNames : cube.dimNames[d] = name
HasDim(cube, name) == name \in Range(cube.dimNames)
IsLeaf(dim, e) == dim.elements[e].kind # Consolidated

Compares(a, cmp, b) ==
  CASE cmp = "=" -> a = b [] cmp = "<>" -> a # b [] cmp = "<" -> a < b
    [] cmp = "<=" -> a <= b [] cmp = ">" -> a > b [] cmp = ">=" -> a >= b

\* A missing value, or one of the other type, matches nothing.
AttrMatches(dim, e, a, sel) ==
  /\ a \in DOMAIN dim.values[e]
  /\ dim.values[e][a].type = sel.value.type
  /\ Compares(dim.values[e][a].v, sel.cmp, sel.value.v)

SelectorResolves(dim, sel) ==
  CASE sel.by \in {"element", "children", "descendants"} -> Resolves(dim, sel.name)
    [] sel.by = "attribute" -> AttributeIndex(dim, sel.name) # Gone
    [] OTHER -> TRUE

Selected(dim, sel) ==
  LET all == DOMAIN dim.elements
  IN CASE sel.by = "element" -> {Resolve(dim, sel.name)}
       [] sel.by = "all" -> all
       [] sel.by = "leaves" -> {e \in all : IsLeaf(dim, e)}
       [] sel.by = "consolidated" -> {e \in all : ~IsLeaf(dim, e)}
       [] sel.by = "children" -> ChildSet(dim.children[Resolve(dim, sel.name)])
       [] sel.by = "descendants" -> Below(dim.children, Resolve(dim, sel.name))
       [] sel.by = "attribute" ->
            {e \in all : AttrMatches(dim, e, AttributeIndex(dim, sel.name), sel)}

AreaCompiles(cube, area) ==
  \A n \in DOMAIN area :
    HasDim(cube, n) /\ SelectorResolves(cube.dims[DimPosition(cube, n)], area[n])

\* scope "C:" makes an unconstrained dimension match consolidations
CompileArea(cube, rule) ==
  [consolidated |-> rule.scope = "C:",
   perDim |-> [d \in DOMAIN cube.dims |->
                 IF cube.dimNames[d] \in DOMAIN rule.area
                 THEN Selected(cube.dims[d], rule.area[cube.dimNames[d]]) ELSE Unconstrained]]

\* CompiledArea::matches
AreaMatches(cube, area, coord) ==
  \A d \in DOMAIN coord :
    IF area.perDim[d] = Unconstrained THEN IsLeaf(cube.dims[d], coord[d]) # area.consolidated
    ELSE coord[d] \in area.perDim[d]

(* Cell references.  A dimension not named copies the target's member, which *)
(* has a meaning in the target's own cube only.                              *)
CubeNamed(cubes, name) == CHOOSE o \in DOMAIN cubes : cubes[o].name = name

CellCompiles(cubes, target, ref) ==
  /\ ref.cube \in {cubes[o].name : o \in DOMAIN cubes}
  /\ LET cube == cubes[CubeNamed(cubes, ref.cube)]
     IN /\ \A n \in DOMAIN ref.at : HasDim(cube, n)
        /\ \A n \in DOMAIN ref.at : Resolves(cube.dims[DimPosition(cube, n)], ref.at[n])
        /\ cube.name # cubes[target].name => DOMAIN ref.at = Range(cube.dimNames)

LowerCell(cubes, ref) ==
  LET o == CubeNamed(cubes, ref.cube)
  IN [op |-> "cell", cube |-> o,
      addr |-> [d \in DOMAIN cubes[o].dims |->
                  IF cubes[o].dimNames[d] \in DOMAIN ref.at
                  THEN Resolve(cubes[o].dims[d], ref.at[cubes[o].dimNames[d]]) ELSE FromTarget]]

RECURSIVE Compiles(_, _, _), Lower(_, _, _)

\* Formulas and conditions alike; a text formula is not supported.
Compiles(cubes, t, e) ==
  CASE e.op \in {"num", "undef", "none"} -> TRUE
    [] e.op = "text" -> FALSE
    [] e.op = "attr" -> /\ HasDim(cubes[t], e.dim)
                        /\ AttributeIndex(cubes[t].dims[DimPosition(cubes[t], e.dim)], e.name) # Gone
    [] e.op = "cell" -> CellCompiles(cubes, t, e)
    [] e.op \in {"neg", "not"} -> Compiles(cubes, t, e.arg)
    [] e.op = "if" -> \A part \in {e.cond, e.then, e.else} : Compiles(cubes, t, part)
    [] OTHER -> Compiles(cubes, t, e.left) /\ Compiles(cubes, t, e.right)

Lower(cubes, t, e) ==
  CASE e.op \in {"num", "undef", "none"} -> e
    [] e.op = "attr" -> LET d == DimPosition(cubes[t], e.dim)
                        IN [op |-> "attr", dim |-> d, attr |-> AttributeIndex(cubes[t].dims[d], e.name)]
    [] e.op = "cell" -> LowerCell(cubes, e)
    [] e.op \in {"neg", "not"} -> [e EXCEPT !.arg = Lower(cubes, t, @)]
    [] e.op = "if" -> [e EXCEPT !.cond = Lower(cubes, t, @), !.then = Lower(cubes, t, @),
                                !.else = Lower(cubes, t, @)]
    [] OTHER -> [e EXCEPT !.left = Lower(cubes, t, @), !.right = Lower(cubes, t, @)]

RulesBroken(cubes, t) ==
  \E i \in DOMAIN cubes[t].rules :
    ~AreaCompiles(cubes[t], cubes[t].rules[i].area) \/ ~Compiles(cubes, t, cubes[t].rules[i].formula)

CompileRules(cubes, t) ==
  IF RulesBroken(cubes, t) THEN <<>>
  ELSE [i \in DOMAIN cubes[t].rules |->
          [area |-> CompileArea(cubes[t], cubes[t].rules[i]),
           expr |-> Lower(cubes, t, cubes[t].rules[i].formula)]]

\* matching_rule: the first rule in author order whose area holds the coordinate
Matching(cube, model, coord) == {i \in DOMAIN model : AreaMatches(cube, model[i].area, coord)}
FirstMatch(cube, model, coord) ==
  CHOOSE i \in Matching(cube, model, coord) :
    \A j \in Matching(cube, model, coord) : i <= j

-----------------------------------------------------------------------------

CONSTANTS Scale,      \* the fixed-point scale
          FixedMax    \* the largest scaled value
ASSUME ScaleAssumption == Scale \in Nat \ {0} /\ FixedMax \in Nat

NoFed == [sparse |-> FALSE, leaves |-> {}]
Computing == "computing"
Ok(v) == [ok |-> TRUE, v |-> v]
Err(why) == [ok |-> FALSE, why |-> why]
BaseEngine == [scope |-> 0, overlay |-> NoFn, mask |-> {}, target |-> 1]

(* Fixed-point arithmetic.                                                   *)
Checked(scaled) == IF scaled \in -(FixedMax + 1) .. FixedMax THEN Ok(scaled) ELSE Err("Overflow")

Sign(n) == IF n < 0 THEN -1 ELSE 1
\* num / den to the nearest integer, a tie to the even one
DivRoundHalfEven(num, den) ==
  LET n == Sign(num) * num
      d == Sign(den) * den
      away == 2 * (n % d) > d \/ (2 * (n % d) = d /\ (n \div d) % 2 = 1)
  IN Sign(num) * Sign(den) * ((n \div d) + (IF away THEN 1 ELSE 0))

Arith(op, a, b) ==
  CASE op = "+" -> Checked(a + b)
    [] op = "-" -> Checked(a - b)
    [] op = "*" -> Checked(DivRoundHalfEven(a * b, Scale))
    [] op = "/" -> IF b = 0 THEN Err("DivByZero") ELSE Checked(DivRoundHalfEven(a * Scale, b))

(* Coordinates.  Walk lists the product of per-dimension lists, the          *)
(* dimension varying fastest first or last.                                  *)
Walk(lists, firstFastest) ==
  LET rank == Len(lists)
      faster(d) == IF firstFastest THEN 1 .. d - 1 ELSE d + 1 .. rank
      combos(ds) == FoldSet(LAMBDA d, n : n * Len(lists[d]), 1, ds)
  IN [n \in 1 .. combos(1 .. rank) |->
        [d \in 1 .. rank |->
           lists[d][(((n - 1) \div combos(faster(d))) % Len(lists[d])) + 1]]]

Ascending(S) == [i \in 1 .. Cardinality(S) |-> CHOOSE x \in S : Cardinality({y \in S : y < x}) = i - 1]
AllLeaf(cube, coord) == \A d \in DOMAIN coord : IsLeaf(cube.dims[d], coord[d])
Weights(cube, coord) ==
  [d \in DOMAIN coord |-> LeafWeights(Kind(cube.dims[d]), cube.dims[d].children, coord[d])]
CellWeight(weights, leaf) ==
  FoldSet(LAMBDA d, w : w * weights[d][leaf[d]], 1, DOMAIN leaf)

DenseLeaves(weights) ==
  Walk([d \in DOMAIN weights |-> Ascending(DOMAIN weights[d])], TRUE)
\* the stored cells and the fed leaves under the coordinate, each once
FedLeaves(cube, weights, fed) ==
  SelectSeq(DenseLeaves(weights), LAMBDA leaf : leaf \in DOMAIN cube.cells \cup fed)

Stored(cube, coord) == IF coord \in DOMAIN cube.cells THEN cube.cells[coord] ELSE 0

\* Weakened: the fed leaves serve a what-if or a masked read too.
SparseAlways(reg, eng, o) == reg.fed[o].sparse
Sparse(reg, eng, o) == reg.fed[o].sparse /\ eng.scope = 0 /\ eng.mask = {}

Denied(eng, o, coord) == o = eng.target /\ \E d \in DOMAIN coord : <<d, coord[d]>> \in eng.mask
Target(addr, coord) == [d \in DOMAIN addr |-> IF addr[d] = FromTarget THEN coord[d] ELSE addr[d]]
AttrNumber(cube, d, a, coord) ==
  LET row == cube.dims[d].values[coord[d]]
  IN IF a \in DOMAIN row /\ row[a].type = "Numeric" THEN row[a].v ELSE 0

RECURSIVE Value(_, _, _, _, _), Expr(_, _, _, _, _, _), Cond(_, _, _, _, _, _)

\* A consolidation, pulling each leaf back through the engine; the first failure ends it.
Consolidate(reg, eng, memo, o, coord) ==
  LET cube == reg.cubes[o]
      plus(sum, weight, got) ==
        [got EXCEPT !.r = IF got.r.ok THEN Ok(sum + weight * got.r.v) ELSE got.r]
      pull(acc, weight, leaf) ==
        IF acc.r.ok THEN plus(acc.r.v, weight, Value(reg, eng, acc.memo, o, leaf)) ELSE acc
      checked(sum) == IF sum.r.ok THEN [sum EXCEPT !.r = Checked(sum.r.v)] ELSE sum
      over(weights, leaves) ==
        checked(FoldLeft(LAMBDA acc, leaf : pull(acc, CellWeight(weights, leaf), leaf),
                         [memo |-> memo, r |-> Ok(0)], leaves))
      by(weights) ==
        IF \E d \in DOMAIN weights : DOMAIN weights[d] = {} THEN [memo |-> memo, r |-> Ok(0)]
        ELSE over(weights, IF Sparse(reg, eng, o) THEN FedLeaves(cube, weights, reg.fed[o].leaves)
                           ELSE DenseLeaves(weights))
  IN by(Weights(cube, coord))

\* The mask first, then broken rules, then the first rule that matches, then
\* the overlay or the stored leaf, then the consolidation.
Compute(reg, eng, memo, o, coord) ==
  LET cube == reg.cubes[o]
      model == reg.models[o]
  IN IF Denied(eng, o, coord) THEN [memo |-> memo, r |-> Err("AccessDenied")]
     ELSE IF reg.broken[o] THEN [memo |-> memo, r |-> Err("RulesFailed")]
     ELSE IF Matching(cube, model, coord) # {}
     THEN Expr(reg, eng, memo, o, coord, model[FirstMatch(cube, model, coord)].expr)
     ELSE IF ~AllLeaf(cube, coord) THEN Consolidate(reg, eng, memo, o, coord)
     ELSE [memo |-> memo,
           r |-> Ok(IF o = eng.target /\ coord \in DOMAIN eng.overlay
                    THEN eng.overlay[coord] ELSE Stored(cube, coord))]

Value(reg, eng, memo, o, coord) ==
  LET key == <<eng.scope, o, coord>>
      kept(got) == IF got.r.ok THEN [got EXCEPT !.memo[key] = [state |-> "done", v |-> got.r.v]]
                   ELSE [got EXCEPT !.memo = Restrict(@, DOMAIN @ \ {key})]
  IN IF key \in DOMAIN memo
     THEN [memo |-> memo, r |-> IF memo[key] = [state |-> Computing] THEN Err("Cycle") ELSE Ok(memo[key].v)]
     ELSE kept(Compute(reg, eng, (key :> [state |-> Computing]) @@ memo, o, coord))

\* Left before right; a failure on the left ends it.
Both(reg, eng, memo, o, coord, left, right, then(_, _)) ==
  LET joined(a, b) == IF b.r.ok THEN [b EXCEPT !.r = then(a.r.v, b.r.v)] ELSE b
      after(a) == IF a.r.ok THEN joined(a, Expr(reg, eng, a.memo, o, coord, right)) ELSE a
  IN after(Expr(reg, eng, memo, o, coord, left))

Expr(reg, eng, memo, o, coord, e) ==
  CASE e.op = "num" -> [memo |-> memo, r |-> Ok(e.v)]
    [] e.op \in {"undef", "none"} -> [memo |-> memo, r |-> Ok(0)]
    [] e.op = "attr" -> [memo |-> memo, r |-> Ok(AttrNumber(reg.cubes[o], e.dim, e.attr, coord))]
    [] e.op = "cell" -> Value(reg, eng, memo, e.cube, Target(e.addr, coord))
    [] e.op = "neg" -> LET negated(a) == IF a.r.ok THEN [a EXCEPT !.r = Checked(-a.r.v)] ELSE a
                       IN negated(Expr(reg, eng, memo, o, coord, e.arg))
    [] e.op = "if" -> LET branch(c) == IF ~c.r.ok THEN c
                                       ELSE Expr(reg, eng, c.memo, o, coord, IF c.r.v THEN e.then ELSE e.else)
                      IN branch(Cond(reg, eng, memo, o, coord, e.cond))
    [] OTHER -> Both(reg, eng, memo, o, coord, e.left, e.right, LAMBDA a, b : Arith(e.op, a, b))

\* And, Or do not evaluate their right side when the left decides.
Cond(reg, eng, memo, o, coord, c) ==
  CASE c.op \in {"and", "or"} ->
         LET after(a) == IF a.r.ok /\ a.r.v = (c.op = "and")
                         THEN Cond(reg, eng, a.memo, o, coord, c.right) ELSE a
         IN after(Cond(reg, eng, memo, o, coord, c.left))
    [] c.op = "not" -> LET negated(a) == IF a.r.ok THEN [a EXCEPT !.r = Ok(~a.r.v)] ELSE a
                       IN negated(Cond(reg, eng, memo, o, coord, c.arg))
    [] OTHER -> Both(reg, eng, memo, o, coord, c.left, c.right,
                     LAMBDA a, b : Ok(Compares(a, c.op, b)))

-----------------------------------------------------------------------------

(***************************************************************************)
(* Which leaves a cube's rules may make non-zero                           *)
(* (epiphany-calc/src/feeders.rs): inference to a fixpoint, validation     *)
(* against the densely evaluated values, the gate that lets a cube         *)
(* consolidate over its stored and fed leaves only, and the registry built *)
(* with it (PinnedRegistry in epiphany-api/src/calc_factory.rs).           *)
(***************************************************************************)

RECURSIVE BasePotent(_, _), CellsOf(_), BasePotentSameCubeOnly(_, _)

\* Weakened: a cell of another cube is no base contribution.
BasePotentSameCubeOnly(e, o) ==
  CASE e.op = "num" -> e.v # 0
    [] e.op = "attr" -> TRUE
    [] e.op \in {"cell", "undef", "none"} -> FALSE
    [] e.op = "neg" -> BasePotentSameCubeOnly(e.arg, o)
    [] e.op \in {"+", "-"} -> BasePotentSameCubeOnly(e.left, o) \/ BasePotentSameCubeOnly(e.right, o)
    [] e.op = "*" -> BasePotentSameCubeOnly(e.left, o) /\ BasePotentSameCubeOnly(e.right, o)
    [] e.op = "/" -> BasePotentSameCubeOnly(e.left, o)
    [] e.op = "if" -> BasePotentSameCubeOnly(e.then, o) \/ BasePotentSameCubeOnly(e.else, o)

\* Can the formula be non-zero where every cell of its own cube is zero?
BasePotent(e, o) ==
  CASE e.op = "num" -> e.v # 0
    [] e.op = "attr" -> TRUE
    [] e.op = "cell" -> e.cube # o
    [] e.op \in {"undef", "none"} -> FALSE
    [] e.op = "neg" -> BasePotent(e.arg, o)
    [] e.op \in {"+", "-"} -> BasePotent(e.left, o) \/ BasePotent(e.right, o)
    [] e.op = "*" -> BasePotent(e.left, o) /\ BasePotent(e.right, o)
    [] e.op = "/" -> BasePotent(e.left, o)
    [] e.op = "if" -> BasePotent(e.then, o) \/ BasePotent(e.else, o)

\* collect_cells: the cells of the value, those of its conditions left out
CellsOf(e) ==
  CASE e.op = "cell" -> {e}
    [] e.op \in {"num", "attr", "undef", "none"} -> {}
    [] e.op = "neg" -> CellsOf(e.arg)
    [] e.op = "if" -> CellsOf(e.then) \cup CellsOf(e.else)
    [] OTHER -> CellsOf(e.left) \cup CellsOf(e.right)

Product(sets) == {c \in [DOMAIN sets -> UNION Range(sets)] : \A d \in DOMAIN sets : c[d] \in sets[d]}

\* area_leaf_dims and its product: the leaf coordinates an area selects
AreaLeaves(cube, area) ==
  Product([d \in DOMAIN cube.dims |->
             {e \in IF area.perDim[d] = Unconstrained THEN DOMAIN cube.dims[d].elements
                    ELSE area.perDim[d] : IsLeaf(cube.dims[d], e)}])

(* Inference.                                                                *)
Targets(cube, rule) == AreaLeaves(cube, rule.area)
Inputs(rule, o) == {c \in CellsOf(rule.expr) : c.cube = o}
IsOpaque(cube, rule, o) ==
  Targets(cube, rule) # {} /\ Inputs(rule, o) = {} /\ CellsOf(rule.expr) # {}

\* An input that is itself a consolidation some rule overrides counts, and so
\* does a leaf that an opaque rule fills.
InputPotent(cube, model, o, cell, target, potent) ==
  LET at == Target(cell.addr, target)
      weights == Weights(cube, at)
      leaves == Product([d \in DOMAIN weights |-> DOMAIN weights[d]])
  IN /\ \A d \in DOMAIN weights : DOMAIN weights[d] # {}
     /\ \/ ~AllLeaf(cube, at) /\ Matching(cube, model, at) # {}
        \/ leaves \cap potent # {}
        \/ \E i \in DOMAIN model : IsOpaque(cube, model[i], o)
                                   /\ \E leaf \in leaves : AreaMatches(cube, model[i].area, leaf)

FeedRound(cube, model, o, fed) ==
  fed \cup UNION {{t \in Targets(cube, model[i]) :
                     \/ BasePotent(model[i].expr, o)
                     \/ \E cell \in Inputs(model[i], o) :
                          InputPotent(cube, model, o, cell, t, DOMAIN cube.cells \cup fed)} :
                  i \in {j \in DOMAIN model : ~IsOpaque(cube, model[j], o)}}

Inferred(cube, model, o) ==
  LET targets == UNION {Targets(cube, model[i]) : i \in DOMAIN model}
      round[n \in Nat] == IF n = 0 THEN {} ELSE FeedRound(cube, model, o, round[n - 1])
  IN [fed |-> round[Cardinality(targets)],
      opaque |-> {i \in DOMAIN model : IsOpaque(cube, model[i], o)}]

(* Validation: every target and every fed leaf is evaluated in turn through  *)
(* one engine and its memo.                                                  *)
Validated(reg, o, fed) ==
  LET targets == UNION {Targets(reg.cubes[o], reg.models[o][i]) : i \in DOMAIN reg.models[o]}
      noted(acc, leaf, got) == [memo |-> got.memo, r |-> (leaf :> got.r) @@ acc.r]
      evaluate(acc, leaf) == noted(acc, leaf, Value(reg, BaseEngine, acc.memo, o, leaf))
      all == Walk([d \in DOMAIN reg.cubes[o].dims |-> Ascending(DOMAIN reg.cubes[o].dims[d].elements)], FALSE)
      judged(values) == [under |-> {t \in targets \ fed : values[t].ok /\ values[t].v # 0},
                         over |-> {t \in fed : values[t].ok /\ values[t].v = 0},
                         erroring |-> {t \in targets \cup fed : ~values[t].ok}]
  IN judged(FoldLeft(evaluate, [memo |-> NoFn, r |-> NoFn],
                     SelectSeq(all, LAMBDA leaf : leaf \in targets \cup fed)).r)

SafeFedSet(reg, o) ==
  LET gated(inferred, found) ==
        IF inferred.opaque = {} /\ found.under = {} /\ found.erroring = {}
        THEN [sparse |-> TRUE, leaves |-> inferred.fed] ELSE NoFed
      judged(inferred) == gated(inferred, Validated(reg, o, inferred.fed))
  IN IF reg.broken[o] THEN NoFed ELSE judged(Inferred(reg.cubes[o], reg.models[o], o))

\* The gate is decided on a registry that consolidates densely.
Registry(cubes) ==
  LET gated(dense) == [dense EXCEPT !.fed = [o \in DOMAIN cubes |-> SafeFedSet(dense, o)]]
  IN gated([cubes |-> cubes, broken |-> [o \in DOMAIN cubes |-> RulesBroken(cubes, o)],
            models |-> [o \in DOMAIN cubes |-> CompileRules(cubes, o)],
            fed |-> [o \in DOMAIN cubes |-> NoFed]])
=============================================================================
