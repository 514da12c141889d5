------------------------------ MODULE ModelText ------------------------------
(***************************************************************************)
(* The model as text (epiphany-core/src/text.rs, value.rs): what a snapshot *)
(* file holds and what a restart loads.  The document names everything; a   *)
(* load replays it through the same builders a client's edits go through,   *)
(* and one step that fails fails the load.  A document is a record of the   *)
(* serialized blocks; an optional field is a sequence of at most one value. *)
(***************************************************************************)
EXTENDS SavedObjects

CONSTANT ScaleDecimals    \* the decimal places of a number (4)

Some(x) == <<x>>
Absent == <<>>

(* Numbers are scaled integers; the text shows the fraction's digits without *)
(* trailing zeros, and is read back digit by digit.                          *)
Scale == 10^ScaleDecimals
Abs(n) == IF n < 0 THEN -n ELSE n

NumberText(n) ==
  LET frac == Abs(n) % Scale
      digits == [i \in 1..ScaleDecimals |-> (frac \div 10^(ScaleDecimals - i)) % 10]
      last == CHOOSE i \in 0..ScaleDecimals : /\ i = 0 \/ digits[i] # 0
                                              /\ \A j \in (i + 1)..ScaleDecimals : digits[j] = 0
  IN [minus |-> n < 0, int |-> Abs(n) \div Scale, frac |-> SubSeq(digits, 1, last)]

ReadNumber(text) ==
  LET frac == FoldLeft(LAMBDA so, digit : 10 * so + digit, 0, text.frac)
      magnitude == text.int * Scale + frac * 10^(ScaleDecimals - Len(text.frac))
  IN IF text.minus THEN -magnitude ELSE magnitude

(* Dimensions.                                                               *)
\* Weakened: the edges of a parent in the order of their children.
EdgesByChild(dim, p) == SortSeq(dim.children[p], LAMBDA e, f : e.child < f.child)
EdgesOf(dim, p) == dim.children[p]

ValueText(value) == IF value.type = "Numeric" THEN NumberText(value.v) ELSE value.v

DimDoc(dim) ==
  LET name(e) == dim.elements[e].name
      edges(p) == [i \in DOMAIN EdgesOf(dim, p) |->
                     [parent |-> name(p), child |-> name(EdgesOf(dim, p)[i].child),
                      weight |-> EdgesOf(dim, p)[i].weight]]
      values(e) == LET set == SetToSortSeq(DOMAIN dim.values[e], <)
                   IN [i \in DOMAIN set |->
                         [element |-> name(e), attribute |-> dim.attributes[set[i]].name,
                          value |-> ValueText(dim.values[e][set[i]])]]
      rows(of(_)) == FlattenSeq([e \in 1..Size(dim) |-> of(e)])
  IN [elements |-> [e \in 1..Size(dim) |->
                      [name |-> name(e), kind |-> dim.elements[e].kind, topLevel |-> dim.elements[e].pinned]],
      edges |-> rows(edges), attributes |-> dim.attributes, values |-> rows(values)]

Then(so, can, dim) == IF so.failed \/ ~can THEN Failed ELSE [failed |-> FALSE, dim |-> dim]

LoadElement(so, el) ==
  LET added == AddElement(so.dim, el.name, el.kind)
  IN Then(so, TRUE, IF el.topLevel THEN Pinned(added, Size(added), TRUE) ELSE added)

LoadEdge(so, edge) ==
  IF so.failed \/ ~({edge.parent, edge.child} \subseteq Names(so.dim)) THEN Failed
  ELSE LET parent == IndexOf(so.dim, edge.parent)
           child == IndexOf(so.dim, edge.child)
       IN Then(so, CanAddChild(so.dim, parent, child), AddChild(so.dim, parent, child, edge.weight))

LoadAttribute(so, attr) == Then(so, TRUE, AddAttribute(so.dim, attr.name, attr.kind))

\* a value's type is its attribute's, not its text's
LoadValue(so, av) ==
  IF so.failed \/ av.element \notin Names(so.dim) \/ AttributeIndex(so.dim, av.attribute) = Gone
  THEN Failed
  ELSE LET e == IndexOf(so.dim, av.element)
           kind == so.dim.attributes[AttributeIndex(so.dim, av.attribute)].kind
           value == IF kind = "Numeric" THEN [type |-> "Numeric", v |-> ReadNumber(av.value)]
                    ELSE [type |-> "Text", v |-> av.value]
       IN Then(so, CanSetAttribute(so.dim, e, av.attribute, value),
               SetAttribute(so.dim, e, av.attribute, value))

BuildDimension(doc) ==
  LET elements == FoldLeft(LoadElement, [failed |-> FALSE, dim |-> EmptyDimension], doc.elements)
      edges == FoldLeft(LoadEdge, elements, doc.edges)
      attributes == FoldLeft(LoadAttribute, edges, doc.attributes)
  IN FoldLeft(LoadValue, attributes, doc.values)

(* Cells, by the names of their coordinates.                                 *)
CoordNames(coord) == [d \in 1..Rank |-> dims[d].elements[coord[d]].name]

\* resolve_coord: by name, never by alias
HasCoord(ds, names) == \A d \in 1..Rank : names[d] \in Names(ds[d])
ResolveCoord(ds, names) == [d \in 1..Rank |-> IndexOf(ds[d], names[d])]

KindsOf(ds, coord) == {ds[d].elements[coord[d]].kind : d \in 1..Rank}

CellDocs(texts) ==
  {[coord |-> CoordNames(CoordOf(layout, k)), value |-> texts[k]] : k \in DOMAIN texts}

(* Saved objects.                                                            *)
Visibility(object) == IF object.public THEN "public" ELSE "private"

SubsetDoc(k, s) ==
  [dimension |-> k[2], name |-> k[3], owner |-> s.owner, visibility |-> Visibility(s), kind |-> s.kind,
   members |-> IF s.kind = "static" THEN s.members ELSE <<>>,
   mdx |-> IF s.kind = "dynamic" THEN Some(s.mdx) ELSE Absent]

BuildSubset(doc) ==
  [owner |-> doc.owner, public |-> doc.visibility = "public", kind |-> doc.kind]
  @@ (IF doc.kind = "static" THEN [members |-> doc.members] ELSE [mdx |-> doc.mdx[1]])

AxisDoc(axis) ==
  [i \in DOMAIN axis |->
     [dimension |-> axis[i].dimension, type |-> axis[i].type,
      subset |-> IF axis[i].type = "subset" THEN Some(axis[i].subset) ELSE Absent,
      members |-> IF axis[i].type = "members" THEN axis[i].members ELSE <<>>]]

BuildAxis(docs) ==
  [i \in DOMAIN docs |->
     [dimension |-> docs[i].dimension, type |-> docs[i].type]
     @@ (IF docs[i].type = "subset" THEN [subset |-> docs[i].subset[1]] ELSE [members |-> docs[i].members])]

ViewDoc(k, v) ==
  [name |-> k[2], owner |-> v.owner, visibility |-> Visibility(v), rows |-> AxisDoc(v.rows),
   columns |-> AxisDoc(v.columns), context |-> v.context, zeroRows |-> v.zeroRows,
   zeroColumns |-> v.zeroColumns, zeros |-> Absent]

\* the flag of documents older than the split sets both
BuildView(doc) ==
  [owner |-> doc.owner, public |-> doc.visibility = "public", rows |-> BuildAxis(doc.rows),
   columns |-> BuildAxis(doc.columns), context |-> doc.context,
   zeroRows |-> IF doc.zeros = Absent THEN doc.zeroRows ELSE doc.zeros[1],
   zeroColumns |-> IF doc.zeros = Absent THEN doc.zeroColumns ELSE doc.zeros[1]]

TestCellDoc(cell) ==
  [coord |-> [d \in DOMAIN cell.coord |-> [dimension |-> d, member |-> cell.coord[d]]],
   value |-> cell.value]
BuildTestCell(doc) ==
  [coord |-> [d \in {doc.coord[i].dimension : i \in DOMAIN doc.coord} |->
                (CHOOSE c \in Range(doc.coord) : c.dimension = d).member],
   value |-> doc.value]

EachOf(s, of(_)) == [i \in DOMAIN s |-> of(s[i])]
RuleTestDoc(k, t) ==
  [name |-> k[2], fixtures |-> EachOf(t.fixtures, TestCellDoc), assertions |-> EachOf(t.assertions, TestCellDoc)]
BuildRuleTest(doc) ==
  [fixtures |-> EachOf(doc.fixtures, BuildTestCell), assertions |-> EachOf(doc.assertions, BuildTestCell)]

SandboxDoc(k, sb) ==
  [name |-> k[2], owner |-> sb.owner,
   cells |-> {[coord |-> CoordNames(c), value |-> NumberText(sb.cells[c])] : c \in DOMAIN sb.cells}]

BuildSandbox(ds, doc) ==
  [owner |-> doc.owner, public |-> FALSE,
   cells |-> [c \in {ResolveCoord(ds, cell.coord) : cell \in doc.cells} |->
                ReadNumber((CHOOSE cell \in doc.cells : ResolveCoord(ds, cell.coord) = c).value)]]

(* The whole document, and its load.                                         *)
ToModelText ==
  LET of(kind) == {k \in DOMAIN saved : k[1] = kind}
  IN [dimensions |-> [d \in 1..Rank |-> DimDoc(dims[d])],
      cells |-> CellDocs([k \in DOMAIN cells |-> NumberText(cells[k])]),
      stringCells |-> CellDocs([k \in DOMAIN textCells |-> pool[textCells[k]]]),
      subsets |-> {SubsetDoc(k, saved[k]) : k \in of("subset")},
      views |-> {ViewDoc(k, saved[k]) : k \in of("view")},
      rules |-> IF <<"rules">> \in DOMAIN saved THEN Some(saved[<<"rules">>]) ELSE Absent,
      tests |-> {RuleTestDoc(k, saved[k]) : k \in of("test")},
      sandboxes |-> {SandboxDoc(k, saved[k]) : k \in of("sandbox")}]

\* the cells of a document, set one by one on the cube it builds, which takes
\* them where the elements are of the given kinds
LoadCells(ds, docs, kinds) ==
  [failed |-> \E cell \in docs : ~HasCoord(ds, cell.coord)
                \/ KindsOf(ds, ResolveCoord(ds, cell.coord)) \notin kinds,
   cells |-> [c \in {ResolveCoord(ds, cell.coord) : cell \in {x \in docs : HasCoord(ds, x.coord)}} |->
                (CHOOSE cell \in docs : ResolveCoord(ds, cell.coord) = c).value]]

FromModelText(doc) ==
  LET built == [d \in 1..Rank |-> BuildDimension(doc.dimensions[d])]
      ds == [d \in 1..Rank |-> built[d].dim]
      numbers == LoadCells(ds, doc.cells, {{Leaf}})
      strings == LoadCells(ds, doc.stringCells, {{Str}, {Leaf, Str}})
      keyed(docs, key(_), build(_)) ==
        [k \in {key(o) : o \in docs} |-> build(CHOOSE o \in docs : key(o) = k)]
      objs == keyed(doc.subsets, LAMBDA o : <<"subset", o.dimension, o.name>>, BuildSubset)
              @@ keyed(doc.views, LAMBDA o : <<"view", o.name>>, BuildView)
              @@ keyed(doc.tests, LAMBDA o : <<"test", o.name>>, BuildRuleTest)
              @@ keyed(doc.sandboxes, LAMBDA o : <<"sandbox", o.name>>, LAMBDA o : BuildSandbox(ds, o))
              @@ (IF doc.rules = Absent THEN NoFn ELSE <<"rules">> :> doc.rules[1])
  IN IF \/ \E d \in 1..Rank : built[d].failed
     THEN Failed
     ELSE IF \/ numbers.failed \/ strings.failed
             \/ \E o \in doc.sandboxes : \E cell \in o.cells : ~HasCoord(ds, cell.coord)
     THEN Failed
     ELSE [failed |-> FALSE, dims |-> ds, cells |-> [c \in DOMAIN numbers.cells |-> ReadNumber(numbers.cells[c])],
           textCells |-> strings.cells, saved |-> objs]

(* Whatever clients have done, the snapshot written now is one a restart can *)
(* load, and loading it brings back the same model: every dimension with its *)
(* order of children, which breaks ties between equal paths, every cell,     *)
(* every saved object, every override (text.rs:1090-1110, 1345-1388).  One   *)
(* cell, edge or alias a load would refuse would cost the whole cube.        *)
TextBringsBack ==
  LET loaded == FromModelText(ToModelText)
      at(store) == [c \in {CoordOf(layout, k) : k \in DOMAIN store} |-> store[Key(layout, c)]]
  IN ~loaded.failed /\ loaded = [failed |-> FALSE, dims |-> dims, cells |-> at(cells),
                                textCells |-> LET t == at(textCells) IN [c \in DOMAIN t |-> pool[t[c]]],
                                saved |-> saved]

(* An edit breaks no rule and no saved object but those its caller was      *)
(* shown, no cell's key and no part of the snapshot that is written next     *)
(* (Model::delete_element, put_rules, Cube::relayout, Model::to_model_text). *)
NothingBreaksUnseen ==
  /\ BreaksAreListed
  /\ StoredRulesCompile
  /\ [](ModelTypeOK /\ TextBringsBack)

=============================================================================
