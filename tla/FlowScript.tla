----------------------------- MODULE FlowScript -----------------------------
(***************************************************************************)
(* What one run of a flow stages (epiphany-flow/src/run.rs): the script is  *)
(* run over its inputs, stage by stage, and every call it makes to the host *)
(* adds to the changes planned for a cube or for a shared dimension.        *)
(* Nothing is applied here: the outcome of a run that ends well is a plan,  *)
(* and one that throws leaves nothing.  The script language is external: a  *)
(* script is the list of host calls each of its stage functions makes.      *)
(***************************************************************************)
EXTENDS Dimension, TLC

CONSTANTS
  MaxStaged,    \* the changes one run may stage (MAX_STAGED)
  MaxLogLines   \* the lines one run may log (MAX_LOG_LINES)

Blank == ""
Stages == <<"init", "schema", "rows", "finalize">>

\* A function laid over another.
LaidOver(f, g) == [x \in DOMAIN f \cup DOMAIN g |-> IF x \in DOMAIN f THEN f[x] ELSE g[x]]

\* The host calls of a script in the order they are made; a stage it does not
\* define is passed over.
Calls(script) ==
  FlattenSeq([i \in 1..4 |-> IF Stages[i] \in DOMAIN script THEN script[Stages[i]] ELSE <<>>])

NoChanges == [elements |-> <<>>, edges |-> <<>>, cells |-> <<>>]

\* The state of a run: what it has staged, logged and read, and its inputs.
Started(defaultCube, inputs) ==
  [cubes |-> NoFn, dimensions |-> NoFn, staged |-> 0, logs |-> 0,
   status |-> "running", defaultCube |-> defaultCube, inputs |-> inputs, lastRead |-> Blank]

Throw(s) == [s EXCEPT !.status = "threw"]

(* The staging calls.  An item with a blank field is skipped; the target is  *)
(* recorded even when every item was.  The budget is looked at after the     *)
(* items are staged.                                                         *)
WithTarget(changes, target) == LaidOver(changes, [t \in {target} |-> NoChanges])

Budgeted(s) == IF s.staged > MaxStaged THEN Throw(s) ELSE s

StageInto(s, where, target, field, items) ==
  LET changes == WithTarget(s[where], target)
  IN Budgeted([s EXCEPT ![where] = [changes EXCEPT ![target][field] = @ \o items],
                        !.staged = @ + Len(items)])

ParseKind(kind) == IF kind \in {Consolidated, Str} THEN kind ELSE Leaf

Elements(items) ==
  LET named == SelectSeq(items, LAMBDA el : el.d # Blank /\ el.name # Blank)
  IN [i \in DOMAIN named |-> [named[i] EXCEPT !.kind = ParseKind(@)]]

Edges(items) ==
  SelectSeq(items, LAMBDA e : e.d # Blank /\ e.parent # Blank /\ e.child # Blank)

Cells(items) == Those(items, {cell \in ToSet(items) : DOMAIN cell.coord # {}})

(* The inputs.  ctx.input() is the only source, or no rows when there is     *)
(* none; with several a source must be named, and exist.                     *)
SourceOf(s, name) ==
  IF name # Blank THEN name
  ELSE IF Cardinality(DOMAIN s.inputs) = 1 THEN CHOOSE a \in DOMAIN s.inputs : TRUE
  ELSE Blank

HasSource(s, name) ==
  IF name = Blank THEN Cardinality(DOMAIN s.inputs) <= 1 ELSE name \in DOMAIN s.inputs

RowsOf(s, name) ==
  IF SourceOf(s, name) = Blank THEN <<>> ELSE s.inputs[SourceOf(s, name)]

\* A script's usual loops: a member, or a cell, for each row of a source.
Loaded(s, call) ==
  LET rows == RowsOf(s, call.source)
  IN IF call.op = "loadElements"
     THEN [i \in DOMAIN rows |-> [d |-> call.d, name |-> rows[i][call.d], kind |-> Leaf]]
     ELSE [i \in DOMAIN rows |-> [coord |-> [d \in {call.d} |-> rows[i][d]], value |-> rows[i].value]]

(* One host call.  The calls without a cube go to the default cube, and      *)
(* throw when the flow has none; a null coordinate throws in __coord.        *)
TargetOf(s, call) == IF call.target = Blank THEN s.defaultCube ELSE call.target

NullMember == "null"
HasNull(items) == \E i \in DOMAIN items : NullMember \in Range(items[i].coord)

ReadBack(s, call) == <<[coord |-> call.into, value |-> s.lastRead]>>

HostCall(s, call) ==
  CASE call.op = "throw" -> Throw(s)
    [] call.op = "log" ->
         IF s.logs + 1 > MaxLogLines THEN Throw(s) ELSE [s EXCEPT !.logs = @ + 1]
    [] call.op = "dimElements" ->
         StageInto(s, "dimensions", call.target, "elements", Elements(call.items))
    [] call.op = "dimEdges" ->
         StageInto(s, "dimensions", call.target, "edges", Edges(call.items))
    [] OTHER ->
         LET cube == TargetOf(s, call)
         IN IF cube = Blank THEN Throw(s)
            ELSE CASE call.op = "elements" -> StageInto(s, "cubes", cube, "elements", Elements(call.items))
                   [] call.op = "edges" -> StageInto(s, "cubes", cube, "edges", Edges(call.items))
                   [] call.op = "cells" ->
                        IF HasNull(call.items) THEN Throw(s)
                        ELSE StageInto(s, "cubes", cube, "cells", Cells(call.items))
                   [] call.op = "writeRead" ->
                        StageInto(s, "cubes", cube, "cells", Cells(ReadBack(s, call)))
                   [] call.op = "loadElements" ->
                        IF ~HasSource(s, call.source) THEN Throw(s)
                        ELSE StageInto(s, "cubes", cube, "elements", Elements(Loaded(s, call)))
                   [] call.op = "loadCells" ->
                        IF ~HasSource(s, call.source) THEN Throw(s)
                        ELSE StageInto(s, "cubes", cube, "cells", Cells(Loaded(s, call)))

(* The outcome.  Of several specs of one thing the first is kept: an element *)
(* by dimension, name and kind, an edge also by its weight, so that two      *)
(* staged with different weights both reach the cube and conflict there.     *)
Dedup(specs) == FoldLeft(LAMBDA kept, e : IF e \in ToSet(kept) THEN kept ELSE Append(kept, e),
                         <<>>, specs)

DedupSpecs(changes) ==
  [t \in DOMAIN changes |->
     [changes[t] EXCEPT !.elements = Dedup(@), !.edges = Dedup(@)]]

OutcomeOf(s) == [cubes |-> DedupSpecs(s.cubes), dimensions |-> DedupSpecs(s.dimensions)]

(* A run without live reads, as the flow tests make it: a read throws.       *)
NullRead(s, call) ==
  IF s.status = "threw" THEN s ELSE IF call.op = "read" THEN Throw(s) ELSE HostCall(s, call)

RunWithoutReads(script, defaultCube, inputs) ==
  FoldLeft(NullRead, Started(defaultCube, inputs), Calls(script))

(* plan_import: the outcome of the guided CSV load of `rows` into one cube.  *)
(* Each mapped column gives members of its dimension; the value column gives *)
(* the cell, or none where it is blank.  fixed completes the coordinates.    *)
HasColumns(rows, columns, valueColumn) ==
  \A i \in DOMAIN rows : DOMAIN columns \cup {valueColumn} \subseteq DOMAIN rows[i]

MembersOfRow(row, columns) ==
  LET mapped == SetToSeq(DOMAIN columns)
  IN [i \in DOMAIN mapped |-> [d |-> columns[mapped[i]], name |-> row[mapped[i]], kind |-> Leaf]]

CoordOfRow(row, columns, fixed) ==
  LaidOver([d \in Range(columns) |-> row[CHOOSE c \in DOMAIN columns : columns[c] = d]], fixed)

PlanImport(cube, rows, columns, valueColumn, fixed) ==
  LET valued == Those(rows, {row \in ToSet(rows) : row[valueColumn] # Blank})
  IN [dimensions |-> NoFn,
      cubes |-> [t \in {cube} |->
        [elements |-> Dedup(FlattenSeq([i \in DOMAIN rows |-> MembersOfRow(rows[i], columns)])),
         edges |-> <<>>,
         cells |-> [i \in DOMAIN valued |->
                      [coord |-> CoordOfRow(valued[i], columns, fixed),
                       value |-> valued[i][valueColumn]]]]]]

=============================================================================
