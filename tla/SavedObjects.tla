---------------------------- MODULE SavedObjects ----------------------------
(***************************************************************************)
(* A model: the cube and what users save beside it (query.rs Model) --      *)
(* subsets, views, rules, rule tests and what-if sandboxes -- with the      *)
(* handlers that change them (query_routes.rs, rule_routes.rs,              *)
(* sandbox_routes.rs).  A handler checks a request on a snapshot, and       *)
(* commits it later through the store, which validates it again against     *)
(* the model of that moment: between the two, any other commit may land.    *)
(* Subsets, views, rules and tests name elements; a sandbox holds           *)
(* positions, like the cube's own cells, and follows its schema edits.      *)
(***************************************************************************)
EXTENDS CubeEdits

CONSTANTS
  Users,        \* the users with write access to the cube
  Admins,       \* the administrators among them
  RetryLimit,   \* attempts of a handler that binds its commit to a version
  ElementNames, \* ElementNames[d]: the names dimension d may be given
  AttrValues,   \* the values a client may set
  Numbers,      \* the numbers a client may write, 0 to clear
  Texts,        \* the texts a client may write, Empty to clear
  Weights,      \* the weights a client may give an edge
  Workloads     \* what clients may do: the objects the model is loaded with,
                \* the requests, and the bounds on cells, edits and requests

IsSandbox(s) ==
  /\ s = [owner |-> s.owner, public |-> s.public, cells |-> s.cells]
  /\ s.cells = [c \in DOMAIN s.cells |-> s.cells[c]]

\* What the handlers of each kind of object take.
Operations ==
  [subset |-> {"create", "replace", "delete"}, view |-> {"create", "replace", "delete"},
   sandbox |-> {"open", "stage", "commit", "delete"}, test |-> {"define", "delete"},
   rules |-> {"put", "delete"}]

\* What is saved under a key: a subset of a dimension there is, the three lists
\* of a view, the two of a test.
IsObject(k, object) ==
  /\ k[1] \in DOMAIN Operations
  /\ k[1] = "subset" => k[2] \in 1..Rank
  /\ k[1] = "view" =>
       /\ \A f \in {"rows", "columns", "context"} : f \in DOMAIN object /\ ASequence(object[f])
       /\ \A s \in Range(object.rows) \cup Range(object.columns) : s.type \in {"members", "subset"}
       /\ \A c \in Range(object.context) : c = [dimension |-> c.dimension, member |-> c.member]
  /\ k[1] = "test" => {"fixtures", "assertions"} \subseteq DOMAIN object

ASSUME WorkloadsAssumption ==
  \A w \in Workloads :
    /\ w.edited \subseteq 1..Rank
    /\ \A req \in w.requests :
         /\ req.key[1] \in DOMAIN Operations /\ req.op \in Operations[req.key[1]]
         /\ req.op \in {"create", "replace", "define", "put"} => IsObject(req.key, req.body)
    /\ w.saved = [k \in DOMAIN w.saved |-> w.saved[k]]
    /\ \A k \in DOMAIN w.saved : /\ IsObject(k, w.saved[k])
                                 /\ k[1] = "sandbox" => IsSandbox(w.saved[k])

VARIABLES saved,    \* the saved objects, by <<kind, name>> or <<"subset", d, name>>
          flights,  \* each user's request in flight, or NoFlight
          workload, \* the workload of this behaviour
          edits,    \* the edits of the schema so far
          asked     \* the requests so far

objects == <<saved, flights>>
modelVars == <<cube, objects, workload, edits, asked>>

SandboxKeys == {k \in DOMAIN saved : k[1] = "sandbox"}

(* Sandboxes under a schema edit.                                            *)
Remapped(map, d, to) ==
  LET kept == {c \in DOMAIN map : to[c[d]] # Gone}
      moved(c) == [c EXCEPT ![d] = to[@]]
  IN [new \in {moved(c) : c \in kept} |-> map[CHOOSE c \in kept : moved(c) = new]]

\* permutation_by_name: where each old position of d went
PermutationByName(d) ==
  [old \in Positions(d) |-> LET name == dims[d].elements[old].name
                            IN IF name \in Names(dims'[d]) THEN IndexOf(dims'[d], name) ELSE Gone]

WithSandboxes(change(_)) ==
  saved' = [k \in DOMAIN saved |->
              IF k \in SandboxKeys THEN [saved[k] EXCEPT !.cells = change(@)] ELSE saved[k]]

RemapSandboxes(d) ==
  LET to == PermutationByName(d) IN WithSandboxes(LAMBDA map : Remapped(map, d, to))

PruneSandboxes(d, e) ==
  WithSandboxes(LAMBDA map : Restrict(map, {c \in DOMAIN map : c[d] # e}))

\* Weakened: an override of what has become a consolidation stays.
ConversionsKeepOverrides(d, parent) == UNCHANGED saved

PruneIfConverted(d, parent) ==
  IF parent # Gone /\ dims[d].elements[parent].kind # Consolidated
  THEN PruneSandboxes(d, parent) ELSE UNCHANGED saved

(* What a saved object names, and whether it holds together.                 *)
SubsetSound(ds, d, body) ==
  body.kind = "static" => \A i \in DOMAIN body.members : Resolves(ds[d], body.members[i])

Specs(body) == Range(body.rows) \cup Range(body.columns)

AxisSound(ds, objs, spec) ==
  IF spec.type = "subset" THEN <<"subset", spec.dimension, spec.subset>> \in DOMAIN objs
  ELSE \A i \in DOMAIN spec.members : Resolves(ds[spec.dimension], spec.members[i])

\* validate_coverage: each dimension on exactly one axis or in the context
Placed(body) ==
  LET of(s) == [i \in DOMAIN s |-> s[i].dimension]
  IN of(body.rows) \o of(body.columns) \o of(body.context)
CoversEachOnce(body) == Len(Placed(body)) = Rank /\ Range(Placed(body)) = 1..Rank

ViewSound(ds, objs, body) ==
  /\ CoversEachOnce(body)
  /\ \A spec \in Specs(body) : AxisSound(ds, objs, spec)
  /\ \A c \in Range(body.context) : Resolves(ds[c.dimension], c.member)

\* the rules compile: each element they name is found
Compiles(ds, rules) == \A n \in rules.names : Resolves(ds[n[1]], n[2])

(* references_to_member: the places that name element m of dimension d.      *)
Axis(body, d, m) ==
  \E s \in Range(body) : s.type = "members" /\ s.dimension = d /\ m \in Range(s.members)
Tested(tests, d, m) == \E t \in Range(tests) : t.coord[d] = m

\* Weakened: only the subsets that list it.
ReferencesInSubsets(objs, d, m) ==
  {<<k, "member">> : k \in {j \in DOMAIN objs : j[1] = "subset" /\ j[2] = d
                             /\ objs[j].kind = "static" /\ m \in Range(objs[j].members)}}

ReferencesToMember(objs, d, m) ==
  LET sites(kind, test(_)) == {k \in DOMAIN objs : k[1] = kind /\ test(objs[k])}
      at(site, keys) == {<<k, site>> : k \in keys}
  IN at("member", {k \in sites("subset", LAMBDA s : s.kind = "static" /\ m \in Range(s.members)) : k[2] = d})
     \cup at("context", sites("view", LAMBDA v : [dimension |-> d, member |-> m] \in Range(v.context)))
     \cup at("rows", sites("view", LAMBDA v : Axis(v.rows, d, m)))
     \cup at("columns", sites("view", LAMBDA v : Axis(v.columns, d, m)))
     \cup at("fixture", sites("test", LAMBDA t : Tested(t.fixtures, d, m)))
     \cup at("assertion", sites("test", LAMBDA t : Tested(t.assertions, d, m)))

(* Requests in flight.                                                       *)
NoFlight == [op |-> "none"]

Owned(key) == key[1] \in {"subset", "view", "sandbox"}

CanRead(u, object) == object.public \/ u \in Admins \/ object.owner = u
CanModify(u, object) == u \in Admins \/ object.owner = u

Resolvable(ds, coord) == \A d \in 1..Rank : Resolves(ds[d], coord[d])
ResolvedAt(ds, coord) == [d \in 1..Rank |-> Resolve(ds[d], coord[d])]

(* What a handler checks on its snapshot.  A subset is also resolved there;  *)
(* a view is validated only by its commit.                                   *)
HasRight(u, key) == key \in DOMAIN saved /\ CanRead(u, saved[key]) /\ CanModify(u, saved[key])

SubsetAdmitted(u, req) ==
  /\ IF req.op = "create" THEN req.key \notin DOMAIN saved ELSE HasRight(u, req.key)
  /\ req.op # "delete" => SubsetSound(dims, req.key[2], req.body)

ViewAdmitted(u, req) ==
  IF req.op = "create" THEN req.key \notin DOMAIN saved ELSE HasRight(u, req.key)

SandboxAdmitted(u, req) ==
  /\ IF req.op = "open" THEN req.key \notin DOMAIN saved ELSE HasRight(u, req.key)
  /\ req.op = "stage" => Resolvable(dims, req.coord)

Admitted(u, req) ==
  /\ req.key[1] = "subset" => SubsetAdmitted(u, req)
  /\ req.key[1] = "view" => ViewAdmitted(u, req)
  /\ req.key[1] = "sandbox" => SandboxAdmitted(u, req)

\* Weakened: a replaced object passes to whoever replaces it.
FlightTaking(u, req, tries) ==
  [op |-> req.op, req |-> req, stale |-> FALSE, overtaken |-> FALSE, compiled |-> FALSE,
   tries |-> tries, owner |-> u,
   at |-> IF req.op = "stage" THEN ResolvedAt(dims, req.coord) ELSE <<>>]

\* The request as the snapshot resolves it: the owner to keep or to set, and
\* the positions to stage at.
Flight(u, req, tries) ==
  [op |-> req.op, req |-> req, stale |-> FALSE, overtaken |-> FALSE, compiled |-> FALSE,
   tries |-> tries,
   owner |-> IF req.op = "replace" THEN saved[req.key].owner ELSE u,
   at |-> IF req.op = "stage" THEN ResolvedAt(dims, req.coord) ELSE <<>>]

Ask(u) ==
  /\ flights[u] = NoFlight /\ asked < workload.asks
  /\ \E req \in workload.requests :
       Admitted(u, req) /\ flights' = [flights EXCEPT ![u] = Flight(u, req, 1)]
  /\ asked' = asked + 1
  /\ UNCHANGED <<cube, saved, workload, edits>>

\* put_rules compiles on the model it finds after having read the version.
Compile(u) ==
  LET f == flights[u]
  IN /\ f.op = "put" /\ ~f.compiled
     /\ flights' = [flights EXCEPT ![u] =
          IF Compiles(dims, f.req.body) THEN [f EXCEPT !.compiled = TRUE] ELSE NoFlight]
     /\ UNCHANGED <<cube, saved, workload, edits, asked>>

Bound(f) == f.op = "put" \/ (f.op = "stage" /\ f.req.bound)

\* Weakened: the rules are committed whatever the version has become.
ConflictsWhenStaged(f) == f.op = "stage" /\ Bound(f) /\ f.stale

\* A commit that finds the version it is bound to moved.
Conflicts(f) == Bound(f) /\ f.stale

\* The overrides of a sandbox are all where a number can be written.
Committable(key) == \A c \in DOMAIN saved[key].cells : c \in Coords /\ TakesNumber(c)

\* What the store, or the engine around it, checks under the writer lock.
Accepted(f) ==
  LET key == f.req.key
  IN /\ ~Conflicts(f)
     /\ f.op \in {"create", "replace", "define"} =>
          /\ key[1] = "subset" => SubsetSound(dims, key[2], f.req.body)
          /\ key[1] = "view" => ViewSound(dims, saved, f.req.body)
     /\ f.op \in {"delete", "stage", "commit"} => key \in DOMAIN saved
     /\ f.op = "open" => key \notin DOMAIN saved
     /\ f.op = "stage" => f.at \in Coords /\ TakesNumber(f.at)
     /\ f.op = "commit" => Committable(key)

\* A commit makes the others' snapshots stale.
Ended(u, key) ==
  [v \in Users |->
     IF v = u \/ flights[v] = NoFlight THEN NoFlight
     ELSE [flights[v] EXCEPT !.stale = TRUE, !.overtaken = @ \/ flights[v].req.key = key]]

\* commit_sandbox merges the overrides into the cells, an explicit 0 clearing one
CommitSandbox(key) ==
  LET sandbox == saved[key].cells
      at == [k \in {Key(layout, c) : c \in DOMAIN sandbox} |-> sandbox[CoordOf(layout, k)]]
      merged == [k \in DOMAIN at \cup DOMAIN cells |-> IF k \in DOMAIN at THEN at[k] ELSE cells[k]]
  IN /\ cells' = Restrict(merged, {k \in DOMAIN merged : merged[k] # 0})
     /\ saved' = [saved EXCEPT ![key].cells = NoFn]
     /\ UNCHANGED <<dims, layout, textCells, pool>>

Store(f) ==
  LET key == f.req.key
  IN \/ /\ f.op \in {"create", "replace"}
        /\ saved' = Bind(saved, key, Bind(f.req.body, "owner", f.owner))
        /\ UNCHANGED cube
     \/ /\ f.op \in {"define", "put"}
        /\ saved' = Bind(saved, key, f.req.body)
        /\ UNCHANGED cube
     \/ /\ f.op = "open"
        /\ saved' = Bind(saved, key, [owner |-> f.owner, public |-> FALSE, cells |-> NoFn])
        /\ UNCHANGED cube
     \/ /\ f.op = "delete"
        /\ saved' = Restrict(saved, DOMAIN saved \ {key})
        /\ UNCHANGED cube
     \/ /\ f.op = "stage"
        /\ saved' = [saved EXCEPT ![key].cells = Bind(@, f.at, f.req.value)]
        /\ UNCHANGED cube
     \/ /\ f.op = "commit"
        /\ CommitSandbox(key)

Finish(u) ==
  LET f == flights[u]
  IN /\ f # NoFlight /\ (f.op = "put" => f.compiled)
     /\ \/ Accepted(f) /\ Store(f) /\ flights' = Ended(u, f.req.key)
        \/ /\ ~Accepted(f)
           /\ flights' = [flights EXCEPT ![u] =
                IF Conflicts(f) /\ f.tries < RetryLimit /\ Admitted(u, f.req)
                THEN Flight(u, f.req, f.tries + 1) ELSE NoFlight]
           /\ UNCHANGED <<cube, saved>>
     /\ UNCHANGED <<workload, edits, asked>>

(* Edits of the schema, with the sandboxes, and writes of base cells.        *)
AnElement(d) == [d : {d}, name : ElementNames[d], kind : ElementKinds]
AnEdge(d) == [d : {d}, parent : ElementNames[d], child : ElementNames[d], weight : Weights]
OneOrNone(S) == {<<>>} \cup {<<x>> : x \in S}

\* model.reorder_elements, insert_element_at and delete_element
MovesPositions(d) ==
  /\ \/ \E order \in [Positions(d) -> ElementNames[d]] : ReorderElements(d, order)
     \/ \E name \in ElementNames[d], kind \in ElementKinds, at \in 1..(Size(dims[d]) + 1) :
          InsertElementAt(d, name, kind, at)
     \/ \E e \in Positions(d) : DeleteElement(d, e)
  /\ RemapSandboxes(d)

\* model.reparent_element, add_child_element and set_element_kind; a sandbox
\* holds no text, so what a text element becomes leaves it alone.
MakesConsolidations(d) ==
  \E e \in Positions(d), w \in Weights :
    \/ \E parent \in Positions(d) \cup {Gone} :
         ReparentElement(d, e, parent, w) /\ PruneIfConverted(d, parent)
    \/ \E parent \in Positions(d) :
         AddChildElement(d, parent, e, w) /\ PruneIfConverted(d, parent)

RetypesAnElement(d) ==
  \E e \in Positions(d), kind \in ElementKinds :
    /\ SetElementKind(d, e, kind)
    /\ LET was == dims[d].elements[e].kind
       IN IF (was = Leaf /\ kind # Leaf) \/ (was = Str /\ kind = Consolidated)
          THEN PruneSandboxes(d, e) ELSE UNCHANGED saved

SparesSandboxes(d) ==
  /\ \/ \E elements \in OneOrNone(AnElement(d)), edges \in OneOrNone(AnEdge(d)) :
          ExtendSchema(elements, edges)
     \/ \E name \in DOMAIN Attributes : DefineAttribute(d, name)
     \/ \E name \in DOMAIN Attributes, e, f \in Positions(d), v, w \in AttrValues :
          SetAttributeValues(d, name, <<[element |-> e, value |-> v], [element |-> f, value |-> w]>>)
     \/ \E e \in Positions(d), up \in BOOLEAN : PinElement(d, e, up)
     \/ \E parent, child \in Positions(d) : RemoveChildElement(d, parent, child)
  /\ UNCHANGED saved

Staled == [u \in Users |->
             IF flights[u] = NoFlight THEN NoFlight ELSE [flights[u] EXCEPT !.stale = TRUE]]

SchemaEdit ==
  /\ edits < workload.edits
  /\ \E d \in workload.edited :
       MovesPositions(d) \/ MakesConsolidations(d) \/ RetypesAnElement(d) \/ SparesSandboxes(d)
  /\ edits' = IF dims' = dims THEN edits ELSE edits + 1
  /\ flights' = Staled
  /\ UNCHANGED <<workload, asked>>

CellWrite ==
  /\ workload.cells > 0
  /\ \/ \E c \in Coords : /\ \/ \E v \in Numbers : SetLeaf(c, v)
                             \/ \E t \in Texts : SetString(c, t)
                          /\ Cardinality(DOMAIN cells') + Cardinality(DOMAIN textCells') <= workload.cells
     \/ CompactStringPool
  /\ flights' = Staled
  /\ UNCHANGED <<saved, workload, edits, asked>>

ModelInit ==
  /\ CubeInit
  /\ workload \in Workloads
  /\ saved = workload.saved
  /\ \A k \in SandboxKeys : Committable(k)
  /\ flights = [u \in Users |-> NoFlight]
  /\ edits = 0 /\ asked = 0

ModelNext == SchemaEdit \/ CellWrite \/ \E u \in Users : Ask(u) \/ Compile(u) \/ Finish(u)

ModelSpec == ModelInit /\ [][ModelNext]_modelVars

(* The requests keep to their bounds.                                        *)
ModelTypeOK ==
  /\ \A u \in Users : flights[u] # NoFlight => flights[u].tries \in 1..RetryLimit
  /\ edits \in 0..workload.edits /\ asked \in 0..workload.asks

(* The model as its users know it, by name.                                  *)
Schema == [d \in 1..Rank |-> SchemaOf(dims[d])]
NumbersByName == CellsByName(cells, LAMBDA v : v)
TextsByName == CellsByName(textCells, LAMBDA id : pool[id])
OverridesByName ==
  [k \in SandboxKeys |->
     LET map == saved[k].cells
     IN [n \in {ByName(c) : c \in DOMAIN map} |-> map[CHOOSE c \in DOMAIN map : ByName(c) = n]]]

(* Every edit keeps the promise of the names: what a user knows by name, the *)
(* cells of the cube and of every sandbox, stays with its names across any   *)
(* reorder, growth, repacking and retyping (cube.rs:586-660,                 *)
(* query.rs:1567-1615).                                                      *)
Named == INSTANCE NamedCube WITH
  schema <- Schema, numbers <- NumbersByName, strings <- TextsByName, whatif <- OverridesByName
KeepsTheNames == Named!NamedSpec

(* A sandbox can always be committed whole: no override is left where no     *)
(* number can be written, which no read would show and which would make      *)
(* every later commit of that sandbox fail (query.rs:1608-1615).             *)
SandboxesCanCommit == \A k \in SandboxKeys : Committable(k)

(* After every edit the model is one: a hierarchy to consolidate, lookups    *)
(* that agree with what they index, no value left where none could be        *)
(* written, and sandboxes that still apply (Dimension, Cube, Model).         *)
ModelIsSound ==
  /\ DimensionsOK
  /\ CubeOK
  /\ HierarchyIsADag
  /\ LookupsAreRebuildable
  /\ AliasesAreUnique
  /\ SandboxesCanCommit

(* A saved object is replaced or deleted by its owner or an administrator,   *)
(* and keeps its owner, unless the object of that name changed between the   *)
(* request's check and its commit, which go under no common lock             *)
(* (query_routes.rs:330-375, 640-685; sandbox_routes.rs:155-190).            *)
ObjectsKeepTheirOwners ==
  [][\A k \in DOMAIN saved : Owned(k) /\ dims' = dims =>
       \/ k \in DOMAIN saved' /\ saved'[k] = saved[k]
       \/ \E u \in Users :
            /\ flights[u] # NoFlight /\ flights'[u] = NoFlight
            /\ \/ flights[u].overtaken
               \/ /\ CanModify(u, saved[k])
                  /\ k \in DOMAIN saved' => saved'[k].owner = saved[k].owner]_modelVars

(* What an edit breaks, the dry run had listed: a saved object stops holding *)
(* together only because an element it names was deleted, and then           *)
(* references_to_member told of it; or because of what that list leaves      *)
(* out, an alias it uses or the subset a view's axis takes                   *)
(* (query.rs:928-1055).                                                      *)
Sound(ds, objs, k) ==
  CASE k[1] = "subset" -> SubsetSound(ds, k[2], objs[k])
    [] k[1] = "view" -> ViewSound(ds, objs, objs[k])
    [] k[1] = "test" -> \A t \in Range(objs[k].fixtures) \cup Range(objs[k].assertions) :
                          Resolvable(ds, t.coord)
    [] k[1] = "rules" -> TRUE
    [] k[1] = "sandbox" -> TRUE

NamesOf(object, d) ==
  LET in(f) == IF f \in DOMAIN object THEN Range(object[f]) ELSE {}
  IN (UNION {Range(s.members) : s \in {s \in in("rows") \cup in("columns") :
                                         s.type = "members" /\ s.dimension = d}})
     \cup {c.member : c \in {c \in in("context") : c.dimension = d}}
     \cup {t.coord[d] : t \in in("fixtures") \cup in("assertions")}

BreaksAreListed ==
  [][\A k \in DOMAIN saved \cap DOMAIN saved' :
       (saved'[k] = saved[k] /\ Sound(dims, saved, k) /\ ~Sound(dims', saved', k)) =>
         \/ DOMAIN saved \ DOMAIN saved' # {}
         \/ \E d \in 1..Rank : \E m \in Names(dims[d]) \ Names(dims'[d]) :
              k \in {site[1] : site \in ReferencesToMember(saved, d, m)}
         \/ \E d \in 1..Rank :
              ~(NamesOf(saved[k], d) \cup (IF k[1] = "subset" /\ k[2] = d THEN Range(saved[k].members) ELSE {})
                  \subseteq Names(dims[d]))]_modelVars

(* Rules are stored only where they compile: an element deleted between the  *)
(* compilation and the commit makes the handler compile again                *)
(* (rule_routes.rs:104-135).                                                 *)
StoredRulesCompile ==
  [][\A k \in DOMAIN saved' : k[1] = "rules" /\ (k \in DOMAIN saved => saved'[k] # saved[k])
       => Compiles(dims', saved'[k])]_modelVars
=============================================================================
