----------------------------- MODULE ViewQuery -----------------------------
(***************************************************************************)
(* What a view asks of a cube and how its grid becomes a cellset           *)
(* (epiphany-core/src/query.rs, element_mask.rs); the cells themselves are *)
(* read one by one by the module that executes the view.                   *)
(*                                                                         *)
(* A view is [rows, columns, context, zeroRows, zeroColumns]: an axis is a *)
(* list of [dim, members], the context a function from dimension names to  *)
(* members, and the flags suppress all-blank lines.  A grid cell is        *)
(* [value, text, error].                                                   *)
(***************************************************************************)
EXTENDS RuleEval

CONSTANT MaxCellsetCells  \* the largest axis and the largest grid
ASSUME CellsetAssumption == MaxCellsetCells \in Nat

NoText == ""
NoError == "none"
NumericCell(v) == [value |-> v, text |-> NoText, error |-> NoError]
TextCell(t) == [value |-> 0, text |-> t, error |-> NoError]
ErrorCell(why) == [value |-> 0, text |-> NoText, error |-> why]

\* Weakened: an errored cell counts as blank.
IsBlankIfZero(cell) == cell.text = NoText /\ cell.value = 0
IsBlank(cell) == cell.error = NoError /\ cell.text = NoText /\ cell.value = 0

IsHard(why) == why \in {"AccessDenied", "RulesFailed"}

(* Axes.                                                                     *)
Placed(view) ==
  [i \in DOMAIN view.rows |-> view.rows[i].dim] \o [i \in DOMAIN view.columns |-> view.columns[i].dim]
    \o SetToSeq(DOMAIN view.context)

\* validate_coverage: every dimension on exactly one axis or in the context
CoversTheCube(cube, view) ==
  IsInjective(Placed(view)) /\ Range(Placed(view)) = Range(cube.dimNames)

AxisResolves(cube, axis) ==
  \A i \in DOMAIN axis : \A k \in DOMAIN axis[i].members :
    Resolves(cube.dims[DimPosition(cube, axis[i].dim)], axis[i].members[k])

\* names in author order, the first occurrence of an element kept
ResolveMembers(dim, names) ==
  LET at == [k \in DOMAIN names |-> Resolve(dim, names[k])]
  IN FoldLeft(LAMBDA acc, e : IF Contains(acc, e) THEN acc ELSE Append(acc, e), <<>>, at)

AxisLists(cube, axis) ==
  [i \in DOMAIN axis |-> ResolveMembers(cube.dims[DimPosition(cube, axis[i].dim)], axis[i].members)]

\* A crossjoin is refused as soon as a prefix of it is too large.
AxisProblem(cube, axis) ==
  IF ~AxisResolves(cube, axis) THEN "UnknownMember"
  ELSE LET lists == AxisLists(cube, axis)
       IN IF \E n \in DOMAIN lists : FoldSet(LAMBDA i, p : p * Len(lists[i]), 1, 1 .. n) > MaxCellsetCells
          THEN "CellsetTooLarge" ELSE NoError

AxisPositions(cube, axis) == [i \in DOMAIN axis |-> DimPosition(cube, axis[i].dim)]

(* The element mask.                                                         *)
MemberDenied(eng, cube, d, e) ==
  \/ <<d, e>> \in eng.mask
  \/ \E leaf \in DOMAIN LeafWeights(Kind(cube.dims[d]), cube.dims[d].children, e) : <<d, leaf>> \in eng.mask

VisibleTuples(eng, cube, axis) ==
  LET at == AxisPositions(cube, axis)
  IN SelectSeq(Walk(AxisLists(cube, axis), FALSE),
               LAMBDA t : \A i \in DOMAIN t : ~MemberDenied(eng, cube, at[i], t[i]))

ContextMember(cube, view, d) == Resolve(cube.dims[d], view.context[cube.dimNames[d]])
InContext(cube, view, d) == cube.dimNames[d] \in DOMAIN view.context

(* The grid: Ok([rows, columns]) or why the view is refused before any cell. *)
Prepared(eng, cube, view) ==
  LET rows == VisibleTuples(eng, cube, view.rows)
      columns == VisibleTuples(eng, cube, view.columns)
      pinned == {d \in DOMAIN cube.dims : InContext(cube, view, d)}
      known(d) == Resolves(cube.dims[d], view.context[cube.dimNames[d]])
  IN IF ~CoversTheCube(cube, view) THEN Err("DimensionCoverage")
     ELSE IF AxisProblem(cube, view.rows) # NoError THEN Err(AxisProblem(cube, view.rows))
     ELSE IF AxisProblem(cube, view.columns) # NoError THEN Err(AxisProblem(cube, view.columns))
     ELSE IF \E d \in pinned : ~known(d) THEN Err("UnknownMember")
     ELSE IF \E d \in pinned : MemberDenied(eng, cube, d, ContextMember(cube, view, d)) THEN Err("AccessDenied")
     ELSE IF Len(rows) * Len(columns) > MaxCellsetCells THEN Err("CellsetTooLarge")
     ELSE Ok([rows |-> rows, columns |-> columns])

GridCoord(cube, view, grid, r, c) ==
  LET on(axis) == AxisPositions(cube, axis)
  IN [d \in DOMAIN cube.dims |->
        IF InContext(cube, view, d) THEN ContextMember(cube, view, d)
        ELSE IF d \in Range(on(view.rows)) THEN grid.rows[r][CHOOSE i \in DOMAIN view.rows : on(view.rows)[i] = d]
        ELSE grid.columns[c][CHOOSE i \in DOMAIN view.columns : on(view.columns)[i] = d]]

IsTextCell(cube, coord) == \E d \in DOMAIN coord : cube.dims[d].elements[coord[d]].kind = Str

StringValue(reg, eng, o, coord) ==
  IF Denied(eng, o, coord) THEN Err("AccessDenied")
  ELSE Ok(IF coord \in DOMAIN reg.cubes[o].texts THEN reg.cubes[o].texts[coord] ELSE NoText)

(* Zero suppression: rows over every column, then columns over the rows left. *)
KeptRows(view, lines) ==
  {r \in DOMAIN lines :
     view.zeroRows /\ lines[r] # <<>> => \E c \in DOMAIN lines[r] : ~IsBlank(lines[r][c])}
KeptColumns(view, lines, rows, nc) ==
  {c \in 1 .. nc : view.zeroColumns /\ rows # {} => \E r \in rows : ~IsBlank(lines[r][c])}

Picked(tuples, kept) == [i \in 1 .. Cardinality(kept) |-> tuples[Ascending(kept)[i]]]

\* cell: the grid, row major
CellsetOf(view, grid, cells) ==
  LET nr == Len(grid.rows)
      nc == Len(grid.columns)
      lines == [r \in 1 .. nr |-> [c \in 1 .. nc |-> cells[(r - 1) * nc + c]]]
      rows == KeptRows(view, lines)
      columns == KeptColumns(view, lines, rows, nc)
  IN [rows |-> Picked(grid.rows, rows), columns |-> Picked(grid.columns, columns),
      suppressedRows |-> Picked(grid.rows, 1 .. nr \ rows),
      suppressedColumns |-> Picked(grid.columns, 1 .. nc \ columns),
      cells |-> [n \in 1 .. Cardinality(rows) * Cardinality(columns) |->
                   LET k == Cardinality(columns)
                   IN lines[Ascending(rows)[((n - 1) \div k) + 1]][Ascending(columns)[((n - 1) % k) + 1]]]]

-----------------------------------------------------------------------------

(***************************************************************************)
(* Data spreading (epiphany-core/src/spread.rs): a value entered at a      *)
(* consolidated coordinate becomes writes to its leaves.  Shares are in    *)
(* scaled units; division truncates toward zero, as the code's does.       *)
(***************************************************************************)

CONSTANT MaxSpreadLeaves  \* the largest expansion
ASSUME SpreadAssumption == MaxSpreadLeaves \in Nat

Truncated(num, den) == Sign(num) * Sign(den) * ((Sign(num) * num) \div (Sign(den) * den))
SumOf(shares) == FoldLeft(LAMBDA a, b : a + b, 0, shares)

\* Weakened: the units the division drops are nobody's.
ForgetRemainder(shares, remainder) == shares

\* One unit each to the leading leaves.
AllocateRemainder(shares, remainder) ==
  [i \in DOMAIN shares |->
     shares[i] + (IF i <= Sign(remainder) * remainder THEN Sign(remainder) ELSE 0)]

DistributeEqual(total, n) ==
  LET base == Truncated(total, n)
  IN AllocateRemainder([i \in 1 .. n |-> base], total - base * n)

\* No basis, or a share too large for its cell: equal shares instead.
DistributeProportional(total, basis) ==
  LET shares == [i \in DOMAIN basis |-> Truncated(total * basis[i], SumOf(basis))]
  IN IF \/ SumOf(basis) = 0
        \/ \E i \in DOMAIN shares : ~Checked(shares[i]).ok
     THEN DistributeEqual(total, Len(basis))
     ELSE AllocateRemainder(shares, total - SumOf(shares))

\* The current values a proportional spread reads, in order, through the resolver.
Basis(reg, eng, memo, o, leaves) ==
  LET with(acc, got) ==
        [memo |-> got.memo, r |-> IF got.r.ok THEN Ok(Append(acc.r.v, got.r.v)) ELSE got.r]
      read(acc, leaf) == IF acc.r.ok THEN with(acc, Value(reg, eng, acc.memo, o, leaf)) ELSE acc
  IN FoldLeft(read, [memo |-> memo, r |-> Ok(<<>>)], leaves).r

\* A leaf some rule fills takes no share.
Excluded(cube, model, leaf) == Matching(cube, model, leaf) # {}

\* Ok(writes), each [at, v]
SpreadLeaves(reg, eng, o, target, total, method) ==
  LET cube == reg.cubes[o]
      written(leaves, shares) == Ok([i \in DOMAIN leaves |-> [at |-> leaves[i], v |-> shares[i]]])
      proportional(leaves, basis) ==
        IF basis.ok THEN written(leaves, DistributeProportional(total, basis.v)) ELSE basis
      over(leaves) ==
        CASE leaves = <<>> -> Err("AllExcluded")
          [] leaves # <<>> /\ method = "repeat" -> written(leaves, [i \in DOMAIN leaves |-> total])
          [] leaves # <<>> /\ method = "clear" -> written(leaves, [i \in DOMAIN leaves |-> 0])
          [] leaves # <<>> /\ method = "equal" -> written(leaves, DistributeEqual(total, Len(leaves)))
          [] leaves # <<>> /\ method = "proportional" ->
               proportional(leaves, Basis(reg, eng, NoFn, o, leaves))
      among(all) ==
        IF all = <<>> THEN Ok(<<>>)
        ELSE IF Len(all) > MaxSpreadLeaves THEN Err("TooManyLeaves")
        ELSE over(SelectSeq(all, LAMBDA leaf : ~Excluded(cube, reg.models[o], leaf)))
      reached(weights, d) == \A before \in 1..(d - 1) : DOMAIN weights[before] # {}
      below(weights) ==
        IF \E d \in DOMAIN weights : reached(weights, d) /\ \E leaf \in DOMAIN weights[d] : weights[d][leaf] # 1
        THEN Err("WeightedConsolidation")
        ELSE among(Walk([d \in DOMAIN weights |-> Ascending(DOMAIN weights[d])], FALSE))
  IN below(Weights(cube, target))
=============================================================================
