----------------------------- MODULE Dimension -----------------------------
(***************************************************************************)
(* A dimension and its edits (epiphany-core/src/dimension.rs).  Everything *)
(* inside a dimension is by element position: the edges of children, the   *)
(* rows of attribute values, and the two lookups byName and byAlias.  An   *)
(* edit that moves positions returns, beside the new dimension, the map    *)
(* from the old positions to the new ones, Gone for an element removed.    *)
(* A Can... operator is the edit's validation; the edit itself is defined  *)
(* where that holds, and the caller keeps the old dimension otherwise.     *)
(***************************************************************************)
EXTENDS Integers, Sequences, FiniteSets, FiniteSetsExt, SequencesExt, Functions

(***************************************************************************)
(* The consolidation hierarchy of one dimension                            *)
(* (epiphany-core/src/dimension.rs): elements are numbered by position     *)
(* (one up from the code's indices), children[p] is the list of weighted   *)
(* edges of p in declaration order.  What the cube edits and the readers   *)
(* both ask of a hierarchy is here.                                        *)
(***************************************************************************)

Leaf == "Leaf"
Str == "String"
Consolidated == "Consolidated"
ElementKinds == {Leaf, Str, Consolidated}

Edge(child, weight) == [child |-> child, weight |-> weight]

\* The children of p, a list of edges, as the set of their elements.
ChildSet(edges) == {edges[i].child : i \in DOMAIN edges}

\* Everything a walk down the child edges from `from` visits, itself included.
Below(children, from) ==
  FoldLeft(LAMBDA seen, edges : seen \cup UNION {ChildSet(children[p]) : p \in seen},
           {from}, children)

Reaches(children, from, to) == to \in Below(children, from)

EdgeCount(children) == MapThenSumSet(LAMBDA p : Len(children[p]), DOMAIN children)

(* leaf_weights: a breadth-first walk of <<node, weight>> pairs in which     *)
(* only the first arrival at a node counts; leaves record the weight they    *)
(* were reached with, text leaves nothing, and a zero weight is left out.    *)
WalkStep(kind, children, walk) ==
  LET node == Head(walk.queue)[1]
      weight == Head(walk.queue)[2]
      rest == Tail(walk.queue)
  IN IF node \in walk.visited THEN [walk EXCEPT !.queue = rest]
     ELSE [queue |-> IF kind[node] = Consolidated
                     THEN rest \o [i \in DOMAIN children[node] |->
                            <<children[node][i].child, weight * children[node][i].weight>>]
                     ELSE rest,
           visited |-> walk.visited \cup {node},
           leaves |-> IF kind[node] = Leaf
                      THEN walk.leaves \cup {<<node, weight>>} ELSE walk.leaves]

LeafWeights(kind, children, element) ==
  LET start == [queue |-> <<<<element, 1>>>>, visited |-> {}, leaves |-> {}]
      walk == FoldSet(LAMBDA step, so : IF so.queue = <<>> THEN so ELSE WalkStep(kind, children, so),
                      start, 0..EdgeCount(children))
      reached == {lw \in walk.leaves : lw[2] # 0}
  IN [leaf \in {lw[1] : lw \in reached} |->
        (CHOOSE lw \in reached : lw[1] = leaf)[2]]

-----------------------------------------------------------------------------

NoFn == [x \in {} |-> x]
Gone == 0

EmptyDimension ==
  [elements |-> <<>>, children |-> <<>>, attributes |-> <<>>, values |-> <<>>,
   byName |-> NoFn, byAlias |-> NoFn]

\* A sequence, of whatever it holds.
ASequence(s) == s \in Seq(Range(s))

\* The function f, with v at k.
Bind(f, k, v) == [x \in DOMAIN f \cup {k} |-> IF x = k THEN v ELSE f[x]]

\* The items of a sequence that are among `kept`.
Those(items, kept) ==
  FlattenSeq([i \in DOMAIN items |-> IF items[i] \in kept THEN <<items[i]>> ELSE <<>>])

\* The edges that do not lead to child.
Without(edges, child) == Those(edges, {e \in Range(edges) : e.child # child})

Size(dim) == Len(dim.elements)
Names(dim) == DOMAIN dim.byName
IndexOf(dim, name) == dim.byName[name]
Kind(dim) == [i \in DOMAIN dim.elements |-> dim.elements[i].kind]

AddElement(dim, name, kind) ==
  [dim EXCEPT !.elements = Append(@, [name |-> name, kind |-> kind, pinned |-> FALSE]),
              !.children = Append(@, <<>>),
              !.values = Append(@, NoFn),
              !.byName = Bind(@, name, Size(dim) + 1)]

(* Edges.  A parent's own list is searched; add_child refuses what would     *)
(* close a cycle.                                                            *)
CanAddChild(dim, parent, child) ==
  /\ dim.elements[parent].kind = Consolidated
  /\ child # parent
  /\ ~Reaches(dim.children, child, parent)

AddChild(dim, parent, child, weight) ==
  [dim EXCEPT !.children[parent] = Append(@, Edge(child, weight))]

RemoveChild(dim, parent, child) ==
  [dim EXCEPT !.children[parent] = Without(@, child)]

\* Weakened: only a self-parent is refused.
CanReparentSelfOnly(dim, child, parent) == child # parent

CanReparent(dim, child, parent) ==
  parent # Gone => child # parent /\ ~Reaches(dim.children, child, parent)

\* parent = Gone detaches the child to a root.
Reparented(dim, child, parent, weight) ==
  LET kept == [p \in DOMAIN dim.children |-> Without(dim.children[p], child)]
  IN IF parent = Gone THEN [dim EXCEPT !.children = kept]
     ELSE [dim EXCEPT !.elements[parent].kind = Consolidated,
                      !.children = [kept EXCEPT ![parent] = Append(@, Edge(child, weight))]]

Pinned(dim, element, up) == [dim EXCEPT !.elements[element].pinned = up]

CanSetKind(dim, element, kind) ==
  \/ dim.elements[element].kind = kind
  \/ dim.elements[element].kind # Consolidated
  \/ dim.children[element] = <<>>

WithKind(dim, element, kind) == [dim EXCEPT !.elements[element].kind = kind]

(* Attributes: values[e][a] is element e's value of attribute a.             *)
AttributeIndex(dim, name) ==
  IF \E a \in DOMAIN dim.attributes : dim.attributes[a].name = name
  THEN CHOOSE a \in DOMAIN dim.attributes : dim.attributes[a].name = name ELSE Gone

AddAttribute(dim, name, kind) ==
  [dim EXCEPT !.attributes = Append(@, [name |-> name, kind |-> kind])]

AliasAttributes(dim) == {a \in DOMAIN dim.attributes : dim.attributes[a].kind = "Alias"}

\* The aliases element e carries, over all its alias attributes but those in `except`.
AliasesOf(dim, e, except) ==
  {dim.values[e][a] : a \in (DOMAIN dim.values[e] \cap AliasAttributes(dim)) \ except}

\* Weakened: the alias may be another element's.
CanSetAttributeOfAny(dim, e, attribute, value) ==
  LET a == AttributeIndex(dim, attribute)
  IN a # Gone /\ ((dim.attributes[a].kind = "Numeric") <=> (value.type = "Numeric"))

CanSetAttribute(dim, e, attribute, value) ==
  LET a == AttributeIndex(dim, attribute)
  IN /\ a # Gone
     /\ (dim.attributes[a].kind = "Numeric") <=> (value.type = "Numeric")
     /\ (dim.attributes[a].kind = "Alias" /\ value \in DOMAIN dim.byAlias)
          => dim.byAlias[value] = e

\* Weakened: a reassigned alias stops resolving, whoever else carries it.
SetAttributeForgetting(dim, e, attribute, value) ==
  LET a == AttributeIndex(dim, attribute)
      stale == {old \in AliasesOf(dim, e, {b \in DOMAIN dim.attributes : b # a}) : old # value}
  IN [dim EXCEPT !.values[e] = Bind(@, a, value),
                 !.byAlias = Bind(Restrict(@, DOMAIN @ \ stale), value, e)]

\* A reassigned alias stops resolving, unless another alias attribute of the
\* same element still carries that text.
SetAttribute(dim, e, attribute, value) ==
  LET a == AttributeIndex(dim, attribute)
      stale == {old \in AliasesOf(dim, e, {b \in DOMAIN dim.attributes : b # a}) :
                  /\ old # value /\ old \in DOMAIN dim.byAlias /\ dim.byAlias[old] = e
                  /\ old \notin AliasesOf(dim, e, {a})}
  IN [dim EXCEPT !.values[e] = Bind(@, a, value),
                 !.byAlias = IF a \in AliasAttributes(dim)
                             THEN Bind(Restrict(@, DOMAIN @ \ stale), value, e) ELSE @]

(* Names.  An element is addressed by its name or else by an alias, which is *)
(* kept as the attribute value it is.                                        *)
AsText(name) == [type |-> "Text", v |-> name]
Resolves(dim, name) == name \in Names(dim) \/ AsText(name) \in DOMAIN dim.byAlias
Resolve(dim, name) ==
  IF name \in Names(dim) THEN IndexOf(dim, name) ELSE dim.byAlias[AsText(name)]

(* Positions.  reindex_names rebuilds both lookups from the elements and the *)
(* rows, after the elements have moved.                                      *)
Reindexed(dim) ==
  [dim EXCEPT
     !.byName = [name \in {dim.elements[i].name : i \in DOMAIN dim.elements} |->
                   CHOOSE i \in DOMAIN dim.elements : dim.elements[i].name = name],
     !.byAlias = [alias \in UNION {AliasesOf(dim, e, {}) : e \in DOMAIN dim.elements} |->
                   CHOOSE e \in DOMAIN dim.elements : alias \in AliasesOf(dim, e, {})]]

Moved(edges, toNew) == [i \in DOMAIN edges |-> [edges[i] EXCEPT !.child = toNew[@]]]

CanReorder(dim, order) == Len(order) = Size(dim) /\ ToSet(order) = Names(dim)

Reordered(dim, order) ==
  LET from == [new \in DOMAIN order |-> IndexOf(dim, order[new])]
      toNew == [old \in DOMAIN order |-> CHOOSE new \in DOMAIN order : from[new] = old]
  IN [toNew |-> toNew,
      dim |-> Reindexed([dim EXCEPT
                !.elements = [new \in DOMAIN order |-> dim.elements[from[new]]],
                !.values = [new \in DOMAIN order |-> dim.values[from[new]]],
                !.children = [new \in DOMAIN order |-> Moved(dim.children[from[new]], toNew)]])]

CanDelete(dim, e) == dim.children[e] = <<>>

\* Weakened: the edges to the removed element stay.
DeletedKeepingEdges(dim, e) ==
  LET toNew == [old \in DOMAIN dim.elements |->
                  IF old < e THEN old ELSE IF old = e THEN Gone ELSE old - 1]
      children == RemoveAt(dim.children, e)
  IN [toNew |-> toNew,
      dim |-> Reindexed([dim EXCEPT
                !.elements = RemoveAt(@, e),
                !.values = RemoveAt(@, e),
                !.children = [p \in DOMAIN children |-> Moved(children[p], toNew)]])]

Deleted(dim, e) ==
  LET toNew == [old \in DOMAIN dim.elements |->
                  IF old < e THEN old ELSE IF old = e THEN Gone ELSE old - 1]
      spared(edges) == Moved(Without(edges, e), toNew)
      children == RemoveAt(dim.children, e)
  IN [toNew |-> toNew,
      dim |-> Reindexed([dim EXCEPT
                !.elements = RemoveAt(@, e),
                !.values = RemoveAt(@, e),
                !.children = [p \in DOMAIN children |-> spared(children[p])]])]

Inserted(dim, name, kind, position) ==
  LET toNew == [old \in DOMAIN dim.elements |-> IF old < position THEN old ELSE old + 1]
      children == InsertAt(dim.children, position, <<>>)
  IN [toNew |-> toNew,
      dim |-> Reindexed([dim EXCEPT
                !.elements = InsertAt(@, position, [name |-> name, kind |-> kind, pinned |-> FALSE]),
                !.values = InsertAt(@, position, NoFn),
                !.children = [p \in DOMAIN children |-> Moved(children[p], toNew)]])]

(* Growth.  A batch of elements and then of edges, applied in turn to a      *)
(* clone of the dimensions ds; one that conflicts rejects the batch.         *)
Failed == [failed |-> TRUE]
Grown(ds) == [failed |-> FALSE, dims |-> ds]

\* Weakened: an element there already is refuses the batch.
GrowNewElement(so, el) ==
  IF so.failed \/ el.d \notin DOMAIN so.dims THEN Failed
  ELSE IF el.name \in Names(so.dims[el.d]) THEN Failed
  ELSE Grown([so.dims EXCEPT ![el.d] = AddElement(so.dims[el.d], el.name, el.kind)])

GrowElement(so, el) ==
  IF so.failed \/ el.d \notin DOMAIN so.dims THEN Failed
  ELSE LET dim == so.dims[el.d]
       IN IF el.name \notin Names(dim)
          THEN Grown([so.dims EXCEPT ![el.d] = AddElement(dim, el.name, el.kind)])
          ELSE IF dim.elements[IndexOf(dim, el.name)].kind = el.kind THEN so ELSE Failed

GrowEdge(so, edge) ==
  IF so.failed \/ edge.d \notin DOMAIN so.dims THEN Failed
  ELSE IF ~({edge.parent, edge.child} \subseteq Names(so.dims[edge.d])) THEN Failed
  ELSE LET dim == so.dims[edge.d]
           parent == IndexOf(dim, edge.parent)
           child == IndexOf(dim, edge.child)
           has == {e \in ToSet(dim.children[parent]) : e.child = child}
       IN IF has # {} THEN IF \E e \in has : e.weight = edge.weight THEN so ELSE Failed
          ELSE IF CanAddChild(dim, parent, child)
               THEN Grown([so.dims EXCEPT ![edge.d] = AddChild(dim, parent, child, edge.weight)])
               ELSE Failed

ApplyGrowth(ds, elements, edges) ==
  FoldLeft(GrowEdge, FoldLeft(GrowElement, Grown(ds), elements), edges)
=============================================================================
