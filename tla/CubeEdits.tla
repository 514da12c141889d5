----------------------------- MODULE CubeEdits -----------------------------
(***************************************************************************)
(* One cube under structural edits (epiphany-core/src/cube.rs): its         *)
(* dimensions, the packing of coordinates into keys, the numeric and the    *)
(* text cells stored under those keys, and the pool the text cells point    *)
(* into.  A name is an element's name; a cell is known by positions only,   *)
(* so an edit that moves positions moves every cell.  Each edit is staged   *)
(* on a clone and swapped in whole, or rejected with nothing changed (its   *)
(* guard here).                                                             *)
(***************************************************************************)
EXTENDS Dimension

CONSTANTS
  Rank,         \* the number of dimensions
  KeyBits,      \* the width of a packed key (64)
  Attributes,   \* attribute name -> its kind, those a client may define
  Empty,        \* the text that clears a cell
  BuiltFrom     \* the elements, edges and attributes the cube is built with

(* A cube is built from lists: of elements of the kinds there are and of     *)
(* edges, and for each dimension of attribute names, each once (declaring    *)
(* one again changes nothing), and of values.                                *)
ASSUME BuiltFromAssumption ==
  /\ Rank \in Nat
  /\ ASequence(BuiltFrom.elements) /\ ASequence(BuiltFrom.edges)
  /\ \A el \in Range(BuiltFrom.elements) : el.kind \in ElementKinds
  /\ \A d \in 1..Rank :
       /\ ASequence(BuiltFrom.attributes[d]) /\ ASequence(BuiltFrom.values[d])
       /\ \A i, j \in DOMAIN BuiltFrom.attributes[d] :
            BuiltFrom.attributes[d][i] = BuiltFrom.attributes[d][j] => i = j
       /\ \A v \in Range(BuiltFrom.values[d]) :
            v = [element |-> v.element, attribute |-> v.attribute, value |-> v.value]

VARIABLES dims, layout, cells, textCells, pool

cube == <<dims, layout, cells, textCells, pool>>

Positions(d) == DOMAIN dims[d].elements
Coords == {c \in [1..Rank -> UNION {Positions(d) : d \in 1..Rank}] :
             \A d \in 1..Rank : c[d] \in Positions(d)}

(* Keys.  Each dimension has a bit field sized to its element count, above   *)
(* the fields of the dimensions before it; a coordinate too wide to pack is  *)
(* its own key.                                                              *)
\* The sums of the first 0, 1, .. n numbers of a.
Sums(n, a) == LET sum[i \in 0..n] == IF i = 0 THEN 0 ELSE sum[i - 1] + a[i] IN sum
Pow2(n) == LET power[i \in 0..n] == IF i = 0 THEN 1 ELSE 2 * power[i - 1] IN power[n]

BitsFor(len) == CHOOSE w \in 1..(len + 1) : len <= Pow2(w) /\ (w = 1 \/ len > Pow2(w - 1))

LayoutOf(ds) ==
  LET width == [d \in 1..Rank |-> BitsFor(Size(ds[d]))]
      bits == Sums(Rank, width)
  IN [width |-> width, offset |-> [d \in 1..Rank |-> bits[d - 1]], narrow |-> bits[Rank] <= KeyBits]

Key(l, coord) ==
  IF ~l.narrow THEN coord
  ELSE <<Sums(Rank, [d \in 1..Rank |-> (coord[d] - 1) * Pow2(l.offset[d])])[Rank]>>

CoordOf(l, key) ==
  IF ~l.narrow THEN key
  ELSE [d \in 1..Rank |-> ((key[1] \div Pow2(l.offset[d])) % Pow2(l.width[d])) + 1]

Put(store, l, coord, v) == Bind(store, Key(l, coord), v)
Cleared(store, l, coord) == Restrict(store, DOMAIN store \ {Key(l, coord)})

(* rebuild_stores: every cell is read under the old packing and stored again *)
(* under the new one where `moved` sends it, or dropped where that has a     *)
(* component Gone.                                                           *)
Rebuilt(store, old, new, moved) ==
  LET source == {c \in {CoordOf(old, k) : k \in DOMAIN store} : Gone \notin Range(moved[c])}
  IN [k \in {Key(new, moved[c]) : c \in source} |->
        store[Key(old, CHOOSE c \in source : Key(new, moved[c]) = k)]]

Stay == [c \in Coords |-> c]

\* remap_cells_for_dimension, after dimension d has moved by toNew
RemapCells(d, to) ==
  LET moved == [c \in Coords |-> [c EXCEPT ![d] = to.toNew[@]]] IN
  /\ dims' = [dims EXCEPT ![d] = to.dim]
  /\ layout' = LayoutOf(dims')
  /\ cells' = Rebuilt(cells, layout, layout', moved)
  /\ textCells' = Rebuilt(textCells, layout, layout', moved)

\* Weakened: while keys stay packed the cells keep the ones they had.
RelayoutKeepingKeys ==
  /\ layout' = LayoutOf(dims')
  /\ cells' = IF layout'.narrow THEN cells ELSE Rebuilt(cells, layout, layout', Stay)
  /\ textCells' = IF layout'.narrow THEN textCells ELSE Rebuilt(textCells, layout, layout', Stay)

\* relayout: the packing is rebuilt when a dimension outgrew its bit field
Relayout ==
  /\ layout' = LayoutOf(dims')
  /\ cells' = IF layout' = layout THEN cells ELSE Rebuilt(cells, layout, layout', Stay)
  /\ textCells' = IF layout' = layout THEN textCells ELSE Rebuilt(textCells, layout, layout', Stay)

\* drop_cells_for_element on one store
Dropped(store, d, e) ==
  Rebuilt(store, layout, layout, [c \in Coords |-> IF c[d] = e THEN [c EXCEPT ![d] = Gone] ELSE c])

\* drop_sole_string_cells: the text cells of e that address no other text element
DroppedSole(d, e) ==
  Rebuilt(textCells, layout, layout, [c \in Coords |->
    IF c[d] = e /\ \A d2 \in 1..Rank \ {d} : dims[d2].elements[c[d2]].kind # Str
    THEN [c EXCEPT ![d] = Gone] ELSE c])

\* Values set one after the other; one that conflicts rejects them all.
SetOne(so, v) ==
  IF so.failed \/ ~CanSetAttribute(so.dim, v.element, v.attribute, v.value) THEN Failed
  ELSE [failed |-> FALSE, dim |-> SetAttribute(so.dim, v.element, v.attribute, v.value)]

SetInTurn(dim, values) == FoldLeft(SetOne, [failed |-> FALSE, dim |-> dim], values)

\* The dimension with attributes of these names, and of these kinds.
Declared(dim, names) ==
  [dim EXCEPT !.attributes = @ \o [i \in DOMAIN names |-> [name |-> names[i], kind |-> Attributes[names[i]]]]]

(* Cube::build: empty dimensions grown in one batch, then their attributes;  *)
(* what conflicts builds nothing.                                            *)
Built(d, dim) ==
  SetInTurn(Declared(dim, BuiltFrom.attributes[d]),
            [i \in DOMAIN BuiltFrom.values[d] |->
               [BuiltFrom.values[d][i] EXCEPT !.element = IndexOf(dim, @)]])

CubeInit ==
  /\ LET grown == ApplyGrowth([d \in 1..Rank |-> EmptyDimension],
                              BuiltFrom.elements, BuiltFrom.edges)
     IN /\ ~grown.failed
        /\ \A d \in 1..Rank :
             /\ \A v \in Range(BuiltFrom.values[d]) : v.element \in Names(grown.dims[d])
             /\ ~Built(d, grown.dims[d]).failed
        /\ dims = [d \in 1..Rank |-> Built(d, grown.dims[d]).dim]
  /\ layout = LayoutOf(dims)
  /\ cells = NoFn /\ textCells = NoFn
  /\ pool = <<>>

ExtendSchema(elements, edges) ==
  /\ LET grown == ApplyGrowth(dims, elements, edges)
     IN ~grown.failed /\ dims' = grown.dims
  /\ Relayout
  /\ UNCHANGED pool

(* Cells.                                                                    *)
KindsAt(coord) == {dims[d].elements[coord[d]].kind : d \in 1..Rank}
TakesNumber(coord) == KindsAt(coord) = {Leaf}
TakesText(coord) == Consolidated \notin KindsAt(coord) /\ Str \in KindsAt(coord)

SetLeaf(coord, v) ==
  /\ TakesNumber(coord)
  /\ cells' = IF v = 0 THEN Cleared(cells, layout, coord) ELSE Put(cells, layout, coord, v)
  /\ UNCHANGED <<dims, layout, textCells, pool>>

SetString(coord, text) ==
  /\ TakesText(coord)
  /\ IF text = Empty
     THEN textCells' = Cleared(textCells, layout, coord) /\ UNCHANGED pool
     ELSE /\ pool' = IF text \in Range(pool) THEN pool ELSE Append(pool, text)
          /\ textCells' = Put(textCells, layout, coord,
                              CHOOSE id \in DOMAIN pool' : pool'[id] = text)
  /\ UNCHANGED <<dims, layout, cells>>

\* compact_string_pool: the ids no cell holds are dropped, the others renumbered
CompactStringPool ==
  LET live == Range(textCells)
      kept == Those([id \in DOMAIN pool |-> id], live)
  IN /\ live # DOMAIN pool
     /\ pool' = [new \in DOMAIN kept |-> pool[kept[new]]]
     /\ textCells' = [k \in DOMAIN textCells |->
                        CHOOSE new \in DOMAIN kept : kept[new] = textCells[k]]
     /\ UNCHANGED <<dims, layout, cells>>

(* Attributes.                                                               *)
DefineAttribute(d, name) ==
  /\ AttributeIndex(dims[d], name) = Gone
  /\ dims' = [dims EXCEPT ![d] = AddAttribute(@, name, Attributes[name])]
  /\ UNCHANGED <<layout, cells, textCells, pool>>

SetAttributeValues(d, attribute, assigns) ==
  LET done == SetInTurn(dims[d], [i \in DOMAIN assigns |->
                [element |-> assigns[i].element, attribute |-> attribute, value |-> assigns[i].value]])
  IN /\ ~done.failed
     /\ dims' = [dims EXCEPT ![d] = done.dim]
     /\ UNCHANGED <<layout, cells, textCells, pool>>

(* Structural edits.                                                         *)
ReorderElements(d, order) ==
  /\ CanReorder(dims[d], order)
  /\ RemapCells(d, Reordered(dims[d], order))
  /\ UNCHANGED pool

DeleteElement(d, e) ==
  /\ CanDelete(dims[d], e)
  /\ RemapCells(d, Deleted(dims[d], e))
  /\ UNCHANGED pool

\* position: before an element, after one, or at the end
InsertElementAt(d, name, kind, position) ==
  /\ name \notin Names(dims[d])
  /\ RemapCells(d, Inserted(dims[d], name, kind, position))
  /\ UNCHANGED pool

\* A parent that held values of its own loses them on becoming a consolidation.
DropIfConverted(d, parent) ==
  LET converted == parent # Gone /\ dims[d].elements[parent].kind # Consolidated
  IN /\ cells' = IF converted THEN Dropped(cells, d, parent) ELSE cells
     /\ textCells' = IF converted THEN Dropped(textCells, d, parent) ELSE textCells

ReparentElement(d, child, parent, weight) ==
  /\ CanReparent(dims[d], child, parent)
  /\ dims' = [dims EXCEPT ![d] = Reparented(@, child, parent, weight)]
  /\ DropIfConverted(d, parent)
  /\ UNCHANGED <<layout, pool>>

AddChildElement(d, parent, child, weight) ==
  LET held == WithKind(dims[d], parent, Consolidated)
  IN /\ child \notin ChildSet(dims[d].children[parent])
     /\ CanAddChild(held, parent, child)
     /\ dims' = [dims EXCEPT ![d] = AddChild(held, parent, child, weight)]
     /\ DropIfConverted(d, parent)
     /\ UNCHANGED <<layout, pool>>

RemoveChildElement(d, parent, child) ==
  /\ dims' = [dims EXCEPT ![d] = RemoveChild(@, parent, child)]
  /\ UNCHANGED <<layout, cells, textCells, pool>>

PinElement(d, e, up) ==
  /\ dims' = [dims EXCEPT ![d] = Pinned(@, e, up)]
  /\ UNCHANGED <<layout, cells, textCells, pool>>

\* retype_cells_for_kind: no value is converted between the two stores
SetElementKind(d, e, kind) ==
  LET was == dims[d].elements[e].kind
  IN /\ CanSetKind(dims[d], e, kind)
     /\ dims' = [dims EXCEPT ![d] = WithKind(@, e, kind)]
     /\ cells' = IF was = Leaf /\ kind # Leaf THEN Dropped(cells, d, e) ELSE cells
     /\ textCells' = CASE was = Str /\ kind = Leaf -> DroppedSole(d, e)
                       [] was # Consolidated /\ kind = Consolidated -> Dropped(textCells, d, e)
                       [] OTHER -> textCells
     /\ UNCHANGED <<layout, pool>>

(* The state holds together: every edge and value is about elements and      *)
(* attributes that exist, and keys decode to coordinates.                    *)
DimensionsOK ==
  \A d \in 1..Rank :
    /\ Len(dims[d].children) = Size(dims[d]) /\ Len(dims[d].values) = Size(dims[d])
    /\ \A p \in Positions(d) : ChildSet(dims[d].children[p]) \subseteq Positions(d)
    /\ \A e \in Positions(d) : DOMAIN dims[d].values[e] \subseteq DOMAIN dims[d].attributes
    /\ Kind(dims[d]) \in [Positions(d) -> ElementKinds]

CubeOK ==
  /\ layout = LayoutOf(dims)
  /\ \A k \in DOMAIN cells : CoordOf(layout, k) \in Coords /\ TakesNumber(CoordOf(layout, k))
  /\ \A k \in DOMAIN textCells : CoordOf(layout, k) \in Coords /\ TakesText(CoordOf(layout, k))
  /\ Range(textCells) \subseteq DOMAIN pool

(* The cube as its users know it, by name.                                   *)
NameAt(d, e) == dims[d].elements[e].name
ByName(coord) == [d \in 1..Rank |-> NameAt(d, coord[d])]
CellsByName(store, value(_)) ==
  LET at == {CoordOf(layout, k) : k \in DOMAIN store}
  IN [n \in {ByName(c) : c \in at} |->
        value(store[Key(layout, CHOOSE c \in at : ByName(c) = n)])]
SchemaOf(dim) ==
  LET of(n, row) == row[IndexOf(dim, n)]
  IN [kind |-> [n \in Names(dim) |-> of(n, dim.elements).kind],
      children |-> [n \in Names(dim) |-> LET edges == of(n, dim.children)
        IN [i \in DOMAIN edges |-> [edges[i] EXCEPT !.child = dim.elements[@].name]]],
      pinned |-> {n \in Names(dim) : of(n, dim.elements).pinned},
      attributes |-> dim.attributes, values |-> [n \in Names(dim) |-> of(n, dim.values)]]

(* No sequence of edits makes an element its own ancestor, or lists a child  *)
(* twice under one parent: a leaf would be summed wrongly, or without end,   *)
(* by every reader of the rollup (dimension.rs:331-354, cube.rs:740-788).    *)
HierarchyIsADag ==
  \A d \in 1..Rank : \A p \in Positions(d) :
    /\ \A c \in ChildSet(dims[d].children[p]) : ~Reaches(dims[d].children, c, p)
    /\ Cardinality(ChildSet(dims[d].children[p])) = Len(dims[d].children[p])
    /\ dims[d].children[p] # <<>> => dims[d].elements[p].kind = Consolidated

(* The lookups kept step by step are what a rebuild, or a reload, would make *)
(* of the elements and the rows: an alias resolves exactly while some        *)
(* element carries it, and to that one (dimension.rs:236-276).               *)
LookupsAreRebuildable ==
  /\ \A d \in 1..Rank : dims[d] = Reindexed(dims[d])
  /\ Cardinality(Range(pool)) = Len(pool)

(* No alias is carried by two elements, by any attributes of theirs: resolve *)
(* would answer either (dimension.rs:225-234).                               *)
AliasesAreUnique ==
  \A d \in 1..Rank : \A e, f \in Positions(d) :
    AliasesOf(dims[d], e, {}) \cap AliasesOf(dims[d], f, {}) # {} => e = f
=============================================================================
