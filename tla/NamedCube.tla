----------------------------- MODULE NamedCube -----------------------------
(***************************************************************************)
(* What a cube under edit promises its users, who know elements by name    *)
(* and never see a position: an edit of the schema changes what it names   *)
(* and nothing else, in particular not the order in which a parent lists   *)
(* its children; and a stored value stays with its names for exactly as    *)
(* long as a value could still be written there.                           *)
(* So does a sandbox's what-if value, until it is committed or discarded.  *)
(***************************************************************************)
EXTENDS Dimension

CONSTANT Rank    \* the number of dimensions

VARIABLES schema,    \* per dimension: kind, children, pinned and values by name
          numbers,   \* the numeric cells, by name
          strings,   \* the text cells, by name
          whatif     \* the overrides of each sandbox, by name

namedVars == <<schema, numbers, strings, whatif>>

NamesOf(s) == DOMAIN s.kind

HoldsNumber(sch, c) ==
  \A d \in 1..Rank : c[d] \in NamesOf(sch[d]) /\ sch[d].kind[c[d]] = Leaf

HoldsText(sch, c) ==
  /\ \A d \in 1..Rank : c[d] \in NamesOf(sch[d]) /\ sch[d].kind[c[d]] # Consolidated
  /\ \E d \in 1..Rank : sch[d].kind[c[d]] = Str

\* The cells follow the schema: none is lost that could still be written.
CellsFollow ==
  /\ numbers' = Restrict(numbers, {c \in DOMAIN numbers : HoldsNumber(schema', c)})
  /\ strings' = Restrict(strings, {c \in DOMAIN strings : HoldsText(schema', c)})
  /\ whatif' = [k \in DOMAIN whatif |->
                  Restrict(whatif[k], {c \in DOMAIN whatif[k] : HoldsNumber(schema', c)})]

(* New names, unpinned and without values, and new edges at the end of their *)
(* parent's list, in any number.                                             *)
Grows(s, t) ==
  /\ s.pinned = t.pinned /\ s.attributes = t.attributes
  /\ NamesOf(s) \subseteq NamesOf(t)
  /\ \A n \in NamesOf(s) : /\ t.kind[n] = s.kind[n] /\ t.values[n] = s.values[n]
                           /\ IsPrefix(s.children[n], t.children[n])
  /\ \A n \in NamesOf(t) \ NamesOf(s) : DOMAIN t.values[n] = {}

(* One attribute declared, or given values.                                  *)
Annotates(s, t) ==
  \/ /\ IsPrefix(s.attributes, t.attributes) /\ Len(t.attributes) = Len(s.attributes) + 1
     /\ t = [s EXCEPT !.attributes = t.attributes]
  \/ /\ t = [s EXCEPT !.values = t.values]
     /\ \E a \in DOMAIN s.attributes : \A n \in NamesOf(s) :
          /\ DOMAIN s.values[n] \subseteq DOMAIN t.values[n]
          /\ DOMAIN t.values[n] \subseteq DOMAIN s.values[n] \cup {a}
          /\ \A b \in DOMAIN s.values[n] \ {a} : t.values[n][b] = s.values[n][b]

(* A child under one parent, under one parent more, or under one fewer.      *)
Reparents(s, t) ==
  NamesOf(t) = NamesOf(s) /\ \E c \in NamesOf(s) :
    LET kept == [n \in NamesOf(s) |-> Without(s.children[n], c)]
    IN \/ t = [s EXCEPT !.children = kept]
       \/ \E p \in NamesOf(s) \ {c} : \E e \in ToSet(t.children[p]) :
            /\ e.child = c
            /\ t = [s EXCEPT !.kind[p] = Consolidated,
                             !.children = [kept EXCEPT ![p] = Append(@, e)]]

AddsChild(s, t) ==
  NamesOf(t) = NamesOf(s) /\ \E p \in NamesOf(s) : \E e \in ToSet(t.children[p]) :
    /\ e.child \notin {p} \cup ChildSet(s.children[p])
    /\ t = [s EXCEPT !.kind[p] = Consolidated, !.children[p] = Append(@, e)]

RemovesChild(s, t) ==
  \E p, c \in NamesOf(s) : t = [s EXCEPT !.children[p] = Without(@, c)]

Pins(s, t) == \E e \in NamesOf(s) : \E pin \in BOOLEAN :
                t = [s EXCEPT !.pinned = IF pin THEN @ \cup {e} ELSE @ \ {e}]

\* Only what has no children stops being a consolidation.
Retypes(s, t) == \E e \in NamesOf(s), k \in ElementKinds :
  /\ s.kind[e] = Consolidated => s.children[e] = <<>>
  /\ t = [s EXCEPT !.kind[e] = k]

\* Only what has no children goes, and its place under its parents with it.
Deletes(s, t) == \E e \in NamesOf(s) :
  /\ s.children[e] = <<>>
  /\ LET left == NamesOf(s) \ {e}
     IN t = [s EXCEPT !.kind = Restrict(@, left),
                      !.children = [n \in left |-> Without(@[n], e)],
                      !.pinned = @ \ {e},
                      !.values = Restrict(@, left)]

EditsOneDimension ==
  \E d \in 1..Rank :
    /\ \A other \in 1..Rank \ {d} : schema'[other] = schema[other]
    /\ \/ Annotates(schema[d], schema'[d])    \/ Reparents(schema[d], schema'[d])
       \/ AddsChild(schema[d], schema'[d])    \/ RemovesChild(schema[d], schema'[d])
       \/ Pins(schema[d], schema'[d])         \/ Retypes(schema[d], schema'[d])
       \/ Deletes(schema[d], schema'[d])

WritesACell ==
  /\ UNCHANGED <<schema, whatif>>
  /\ \/ \E c \in DOMAIN numbers \cup DOMAIN numbers' :
          /\ HoldsNumber(schema, c) /\ UNCHANGED strings
          /\ Restrict(numbers', DOMAIN numbers' \ {c}) = Restrict(numbers, DOMAIN numbers \ {c})
     \/ \E c \in DOMAIN strings \cup DOMAIN strings' :
          /\ HoldsText(schema, c) /\ UNCHANGED numbers
          /\ Restrict(strings', DOMAIN strings' \ {c}) = Restrict(strings, DOMAIN strings \ {c})

None == [c \in {} |-> c]
Over(f, g) == [c \in DOMAIN f \cup DOMAIN g |-> IF c \in DOMAIN f THEN f[c] ELSE g[c]]

\* A sandbox appears empty, goes, takes a value, or gives all its values to
\* the cube, where a zero clears the cell.
UsesASandbox ==
  /\ UNCHANGED <<schema, strings>>
  /\ \/ \E k \in DOMAIN whatif' \ DOMAIN whatif : whatif' = Bind(whatif, k, None) /\ UNCHANGED numbers
     \/ \E k \in DOMAIN whatif : \/ /\ whatif' = Restrict(whatif, DOMAIN whatif \ {k})
                                  /\ UNCHANGED numbers
                               \/ /\ k \in DOMAIN whatif' /\ UNCHANGED numbers
                                  /\ \E c \in DOMAIN whatif'[k] :
                                       /\ HoldsNumber(schema, c)
                                       /\ whatif' = [whatif EXCEPT ![k] = Bind(@, c, whatif'[k][c])]
                               \/ LET merged == Over(whatif[k], numbers)
                                  IN /\ numbers' = Restrict(merged, {c \in DOMAIN merged : merged[c] # 0})
                                     /\ whatif' = [whatif EXCEPT ![k] = None]

NamedInit == numbers = None /\ strings = None

NamedNext ==
  \/ WritesACell \/ UsesASandbox
  \/ CellsFollow /\ (EditsOneDimension \/ \A d \in 1..Rank : Grows(schema[d], schema'[d]))

NamedSpec == NamedInit /\ [][NamedNext]_namedVars
=============================================================================
