-------------------------- MODULE DimensionLibrary --------------------------
(***************************************************************************)
(* The shared-dimension library (epiphany-engine/src/dimensions.rs, the     *)
(* registry operations of epiphany-engine/src/lib.rs and their persistence  *)
(* in epiphany-persist/src/registry.rs): a registry of dimensions on disk,  *)
(* the copies that referencing cubes own, the fan-out that keeps the copies *)
(* in step, and the boot that reconciles them.                              *)
(*                                                                          *)
(* A dimension is the sequence of its members, each a name and a kind; the  *)
(* edges of its hierarchy follow the same paths and are left out.  All      *)
(* dimensions here have one name, so a cube holds at most one of them and   *)
(* is a referrer of at most one.  A change of one cube is atomic and        *)
(* durable: CubeEngine models what stands behind it.                        *)
(***************************************************************************)
EXTENDS Naturals, Sequences, FiniteSets, SequencesExt, FiniteSetsExt

CONSTANTS
    Cubes,          \* numbers: a fan-out visits referrers in name order
    Ids,            \* the dimension ids that may be minted, 1..n
    Names,          \* member names
    Kinds,          \* element kinds
    First,          \* the one member of a freshly defined dimension, a leaf
    MaxRequests,    \* bound on the requests served
    MaxFaults       \* bound on the saves that fail and the crashes

ASSUME NumbersAssumption ==
    Cubes \subseteq Nat /\ IsFiniteSet(Ids) /\ Ids = 1 .. Cardinality(Ids) /\ 1 \in Ids
ASSUME SeedAssumption == First \in Names /\ "leaf" \in Kinds
ASSUME BoundsAssumption == MaxRequests \in Nat /\ MaxFaults \in Nat

Seed == <<[name |-> First, kind |-> "leaf"]>>

VARIABLES
    library,    \* Engine.dimensions: the published registry
    nextId,     \* Engine.next_dim_id
    copy,       \* each cube's own copy of the dimension
    bodies,     \* the <id>.model files
    index,      \* index.toml
    topo,       \* what the holder of dim_topology is doing
    editor,     \* what the holder of registry_edit is doing
    handler,    \* a cube-local growth between its backing check and its commit
    status,     \* "up", "down", or "refused": the boot gave up
    drift,      \* ghost: why a copy may differ from the library
    requests,   \* the requests served so far
    faults      \* the faults met so far

diskVars == <<bodies, index>>
bounds == <<requests, faults>>
vars == <<library, nextId, copy, diskVars, topo, editor, handler, status, drift, bounds>>

Member == [name : Names, kind : Kinds]
None == <<>>
NoCube == [live |-> FALSE, members |-> <<>>]
Live(c) == copy[c].live
Free == [op |-> "free"]
Idle == [pc |-> "idle"]

NamesOf(members) == {members[i].name : i \in DOMAIN members}
NamesOnce(members) == \A i, j \in DOMAIN members : members[i].name = members[j].name => i = j
KindIn(members, name) == (CHOOSE m \in ToSet(members) : m.name = name).kind

\* The id counter of a boot: one past the greatest stored id.
NextId(reg) == Max({0} \cup DOMAIN reg) + 1

Dim(gen, members, refs) == [gen |-> gen, members |-> members, refs |-> refs]
IndexOf(reg) == [id \in DOMAIN reg |-> [gen |-> reg[id].gen, refs |-> reg[id].refs]]
BodiesOf(reg) == [id \in DOMAIN reg |-> reg[id].members]

\* A server that has been brought up over an empty directory, or over one
\* dimension with any referrers among the cubes it has.
Init ==
    /\ \E refs \in SUBSET Cubes : library \in {<<>>, [id \in {1} |-> Dim(0, Seed, refs)]}
    /\ \E live \in SUBSET Cubes :
          /\ \A id \in DOMAIN library : library[id].refs \subseteq live
          /\ copy = [c \in Cubes |-> IF c \in live THEN [live |-> TRUE, members |-> Seed] ELSE NoCube]
    /\ nextId = NextId(library)
    /\ bodies = BodiesOf(library)
    /\ index = IndexOf(library)
    /\ topo = Free
    /\ editor = Idle
    /\ handler = None
    /\ status = "up"
    /\ drift = [torn |-> {}, stray |-> {}, behind |-> {}, ahead |-> {}]
    /\ requests = 0
    /\ faults = 0

-----------------------------------------------------------------------------
(* What growing and editing do to a sequence of members.                     *)

Conflicts(members, m) == m.name \in NamesOf(members) /\ KindIn(members, m.name) # m.kind

\* SharedDimension::grown and Cube::apply_growth append what is missing
Grown(members, m) == IF m.name \in NamesOf(members) THEN members ELSE Append(members, m)

\* DimensionEdit: a deletion, an insertion before the first member, a change
\* of kind and a reversal stand for the edits that are not appends.
Edits == [do : {"delete"}, name : Names]
    \cup [do : {"insert", "setKind"}, name : Names, kind : Kinds]
    \cup [do : {"reverse"}]

EditRefused(members, e) ==
    \/ e.do \in {"delete", "setKind"} /\ e.name \notin NamesOf(members)
    \/ e.do = "insert" /\ e.name \in NamesOf(members)

PositionOf(members, name) == CHOOSE i \in DOMAIN members : members[i].name = name

Edited(members, e) ==
    CASE e.do = "delete" -> RemoveAt(members, PositionOf(members, e.name))
      [] e.do = "insert" -> <<[name |-> e.name, kind |-> e.kind]>> \o members
      [] e.do = "setKind" ->
            [i \in DOMAIN members |->
                IF members[i].name = e.name THEN [members[i] EXCEPT !.kind = e.kind] ELSE members[i]]
      [] e.do = "reverse" -> Reverse(members)

\* One change as the registry and each referring cube apply it
Refused(members, change) ==
    IF change.how = "grow" THEN Conflicts(members, change.what)
    ELSE EditRefused(members, change.what)
Changed(members, change) ==
    IF change.how = "grow" THEN Grown(members, change.what) ELSE Edited(members, change.what)

\* define_elements with the whole library dimension, as a boot does it
ReconcileConflicts(members, libraryMembers) == \E m \in ToSet(libraryMembers) : Conflicts(members, m)

\* Weakened: only what the last append added.
ReconciledNewest(members, libraryMembers) ==
    IF libraryMembers = <<>> THEN members ELSE Grown(members, Last(libraryMembers))

Reconciled(members, libraryMembers) == FoldLeft(Grown, members, libraryMembers)

-----------------------------------------------------------------------------
(* The registry: DimensionRegistry.                                          *)

Backings(c) == {id \in DOMAIN library : c \in library[id].refs}
Backed(c) == Backings(c) # {}
Put(reg, id, dim) == [i \in DOMAIN reg \cup {id} |-> IF i = id THEN dim ELSE reg[i]]
Attached(reg, id, c) == [reg EXCEPT ![id].refs = @ \cup {c}]
Removed(reg, id) == [i \in DOMAIN reg \ {id} |-> reg[i]]

\* The holder of dim_topology starts saving the registry it has staged.
Save(op, next) ==
    topo' = [op |-> op, next |-> next, todo |-> DOMAIN next, indexed |-> FALSE]

Serving == status = "up"

\* The server takes another request.
Request ==
    /\ Serving
    /\ requests < MaxRequests
    /\ requests' = requests + 1
    /\ UNCHANGED faults

Fault ==
    /\ faults < MaxFaults
    /\ faults' = faults + 1
    /\ UNCHANGED requests

\* register_dimension mints the id before it saves
Register ==
    /\ Request
    /\ topo = Free
    /\ nextId \in Ids
    /\ Save("register", Put(library, nextId, Dim(0, Seed, {})))
    /\ nextId' = nextId + 1
    /\ UNCHANGED <<library, copy, diskVars, editor, handler, status, drift>>

\* delete_dimension refuses while a cube refers to it
Delete(id) ==
    /\ Request
    /\ topo = Free
    /\ id \in DOMAIN library
    /\ library[id].refs = {}
    /\ Save("delete", Removed(library, id))
    /\ UNCHANGED <<library, nextId, copy, diskVars, editor, handler, status, drift>>

\* Weakened: a dimension that is already global is promoted again.
PromoteAgain(c) ==
    /\ Request
    /\ topo = Free
    /\ nextId \in Ids
    /\ Live(c)
    /\ Save("promote", Put(library, nextId, Dim(0, copy[c].members, {c})))
    /\ nextId' = nextId + 1
    /\ UNCHANGED <<library, copy, diskVars, editor, handler, status, drift>>

\* promote_cube_dimension copies the cube's published dimension; it takes
\* neither registry_edit nor the cube's writer lock
Promote(c) ==
    /\ Request
    /\ topo = Free
    /\ nextId \in Ids
    /\ Live(c)
    /\ ~Backed(c)
    /\ Save("promote", Put(library, nextId, Dim(0, copy[c].members, {c})))
    /\ nextId' = nextId + 1
    /\ UNCHANGED <<library, copy, diskVars, editor, handler, status, drift>>

\* create_cube with the dimension given inline: no reference, no registry
CreateInline(c) ==
    /\ Request
    /\ ~Live(c)
    /\ copy' = [copy EXCEPT ![c] = [live |-> TRUE, members |-> Seed]]
    /\ UNCHANGED <<library, nextId, diskVars, topo, editor, handler, status, drift>>

\* Weakened: dim_topology is taken for the reference only, not for the copy, so
\* a change that is being saved is missed by both.
CreateWithRefEarly(c, id) ==
    /\ Request
    /\ topo # Free /\ id \in DOMAIN topo.next /\ ~topo.indexed
    /\ ~Live(c)
    /\ id \in DOMAIN library
    /\ copy' = [copy EXCEPT ![c] = [live |-> TRUE, members |-> library[id].members]]
    /\ topo' = [topo EXCEPT !.next = Attached(@, id, c)]
    /\ UNCHANGED <<library, nextId, diskVars, editor, handler, status, drift>>

\* create_cube_with_refs: the cube is durable before the reference is saved
CreateWithRef(c, id) ==
    /\ Request
    /\ topo = Free
    /\ ~Live(c)
    /\ id \in DOMAIN library
    /\ copy' = [copy EXCEPT ![c] = [live |-> TRUE, members |-> library[id].members]]
    /\ Save("attach", Attached(library, id, c))
    /\ UNCHANGED <<library, nextId, diskVars, editor, handler, status, drift>>

-----------------------------------------------------------------------------
(* Growing and editing: registry_edit is held throughout, dim_topology only  *)
(* until the new registry is published.                                      *)

Bumped(dim, change) ==
    LET members == Changed(dim.members, change)
    IN [dim EXCEPT !.members = members,
                   !.gen = IF change.how = "grow" /\ members = dim.members THEN @ ELSE @ + 1]

\* Weakened: the referrers are looked up where nothing refers to the dimension.
StageChangeAlone(id, change) ==
    /\ ~Refused(library[id].members, change)
    /\ editor' = [pc |-> "saving", id |-> id, change |-> change, todo |-> {}]
    /\ Save("change", [library EXCEPT ![id] = Bumped(library[id], change)])
    /\ UNCHANGED <<library, nextId, copy, diskVars, handler, status, drift>>

StageChange(id, change) ==
    /\ ~Refused(library[id].members, change)
    /\ editor' = [pc |-> "saving", id |-> id, change |-> change, todo |-> library[id].refs]
    /\ Save("change", [library EXCEPT ![id] = Bumped(library[id], change)])
    /\ UNCHANGED <<library, nextId, copy, diskVars, handler, status, drift>>

Grow(id, m) ==
    /\ Request
    /\ editor = Idle /\ topo = Free
    /\ id \in DOMAIN library
    /\ StageChange(id, [how |-> "grow", what |-> m])

\* edit_dimension of a dimension the registry backs in the named cube
EditShared(c, e) ==
    /\ Request
    /\ editor = Idle /\ topo = Free
    /\ \E id \in Backings(c) : StageChange(id, [how |-> "edit", what |-> e])

\* edit_dimension of a dimension found not to be backed: the cube is edited
\* later, under registry_edit but without dim_topology
EditEmbedded(c, e) ==
    /\ Request
    /\ editor = Idle /\ topo = Free
    /\ Live(c) /\ ~Backed(c)
    /\ editor' = [pc |-> "embedded", cube |-> c, edit |-> e]
    /\ UNCHANGED <<library, nextId, copy, diskVars, topo, handler, status, drift>>

\* Whether c is, or is about to be, a referrer
Claimed(c) ==
    \/ Backed(c)
    \/ topo # Free /\ \E id \in DOMAIN topo.next : c \in topo.next[id].refs

\* A copy that changes outside the library while the library claims it strays.
Strays(c, members) == IF Claimed(c) /\ members # copy[c].members THEN {c} ELSE {}

ApplyLocally(c, members) ==
    /\ copy' = [copy EXCEPT ![c].members = members]
    /\ drift' = [drift EXCEPT !.stray = @ \cup Strays(c, members)]

ApplyEmbedded ==
    /\ editor.pc = "embedded"
    /\ LET c == editor.cube
       IN IF EditRefused(copy[c].members, editor.edit)
          THEN UNCHANGED <<copy, drift>>
          ELSE ApplyLocally(c, Edited(copy[c].members, editor.edit))
    /\ editor' = Idle
    /\ UNCHANGED <<library, nextId, diskVars, topo, handler, status, bounds>>

\* What an abandoned fan-out leaves undone: an append can be made up for at
\* the next boot, an edit cannot.
LeftBehind(change, cubes) ==
    IF change.how = "grow" THEN [drift EXCEPT !.behind = @ \cup cubes]
    ELSE [drift EXCEPT !.torn = @ \cup cubes]

FanOutTo(c) ==
    /\ ~Refused(copy[c].members, editor.change)
    /\ copy' = [copy EXCEPT ![c].members = Changed(@, editor.change)]
    /\ editor' = [editor EXCEPT !.todo = @ \ {c}]
    /\ UNCHANGED <<drift, bounds>>

\* the first error ends the fan-out; cubes already changed stay changed
FanOutStops(c) ==
    /\ IF Refused(copy[c].members, editor.change) THEN UNCHANGED bounds ELSE Fault
    /\ editor' = Idle
    /\ drift' = LeftBehind(editor.change, editor.todo)
    /\ UNCHANGED copy

FanOut ==
    /\ editor.pc = "fanout"
    /\ editor.todo # {}
    /\ LET c == Min(editor.todo) IN FanOutTo(c) \/ FanOutStops(c)
    /\ UNCHANGED <<library, nextId, diskVars, topo, handler, status>>

FannedOut ==
    /\ editor.pc = "fanout"
    /\ editor.todo = {}
    /\ editor' = Idle
    /\ UNCHANGED <<library, nextId, copy, diskVars, topo, handler, status, drift, bounds>>

-----------------------------------------------------------------------------
(* save_registry: every body, then the index, then the sweep of bodies the   *)
(* index no longer lists.                                                    *)

\* Weakened: bodies the registry no longer has are swept as the bodies are written.
SaveBodySweeping ==
    /\ topo # Free
    /\ topo.todo # {}
    /\ LET id == Min(topo.todo)
       IN /\ bodies' = [i \in (DOMAIN bodies \cap DOMAIN topo.next) \cup {id} |->
                           IF i = id THEN topo.next[id].members ELSE bodies[i]]
          /\ topo' = [topo EXCEPT !.todo = @ \ {id}]
    /\ UNCHANGED <<library, nextId, copy, index, editor, handler, status, drift, bounds>>

SaveBody ==
    /\ topo # Free
    /\ topo.todo # {}
    /\ LET id == Min(topo.todo)
       IN /\ bodies' = Put(bodies, id, topo.next[id].members)
          /\ topo' = [topo EXCEPT !.todo = @ \ {id}]
    /\ UNCHANGED <<library, nextId, copy, index, editor, handler, status, drift, bounds>>

\* Weakened: the references written are those of the published registry.
SaveIndexStale ==
    /\ topo # Free
    /\ topo.todo = {}
    /\ ~topo.indexed
    /\ index' = [id \in DOMAIN topo.next |->
                    [gen |-> topo.next[id].gen,
                     refs |-> IF id \in DOMAIN library THEN library[id].refs ELSE {}]]
    /\ topo' = [topo EXCEPT !.indexed = TRUE]
    /\ UNCHANGED <<library, nextId, copy, bodies, editor, handler, status, drift, bounds>>

SaveIndex ==
    /\ topo # Free
    /\ topo.todo = {}
    /\ ~topo.indexed
    /\ index' = IndexOf(topo.next)
    /\ topo' = [topo EXCEPT !.indexed = TRUE]
    /\ UNCHANGED <<library, nextId, copy, bodies, editor, handler, status, drift, bounds>>

\* A sweep cannot fail the save: its errors are dropped.
Swept(reg) == [id \in DOMAIN bodies \cap DOMAIN reg |-> bodies[id]]

\* the save returns, the registry is published and dim_topology released
Publish ==
    /\ topo # Free
    /\ topo.indexed
    /\ bodies' \in {bodies, Swept(topo.next)}
    /\ library' = topo.next
    /\ topo' = Free
    /\ editor' = IF topo.op = "change" THEN [editor EXCEPT !.pc = "fanout"] ELSE editor
    /\ drift' = [drift EXCEPT !.ahead = {}]
    /\ UNCHANGED <<nextId, copy, index, handler, status, bounds>>

\* The dimension whose body a save cut short has already replaced by an
\* edited one, while the registry that is still published has the old one.
Ahead ==
    IF topo.op = "change" /\ editor.change.how = "edit" /\ editor.id \notin topo.todo
    THEN {editor.id} ELSE {}

SaveFails ==
    /\ Fault
    /\ topo # Free
    /\ ~topo.indexed
    /\ topo' = Free
    /\ editor' = IF topo.op = "change" THEN Idle ELSE editor
    /\ drift' = [drift EXCEPT !.ahead = @ \cup Ahead]
    /\ UNCHANGED <<library, nextId, copy, diskVars, handler, status>>

-----------------------------------------------------------------------------
(* Growth of one cube that does not go through the library.                  *)

Handling(c, m) == [cube |-> c, member |-> m]

\* define_elements' handler: refused while the registry backs the dimension
CheckBacking(c, m) ==
    /\ Request
    /\ handler = None
    /\ Live(c) /\ ~Backed(c)
    /\ handler' = Handling(c, m)
    /\ UNCHANGED <<library, nextId, copy, diskVars, topo, editor, status, drift>>

GrowLocally(c, m) ==
    IF Conflicts(copy[c].members, m) THEN UNCHANGED <<copy, drift>>
    ELSE ApplyLocally(c, Grown(copy[c].members, m))

\* and the commit that follows, whatever has been published since
GrowChecked ==
    /\ handler # None
    /\ GrowLocally(handler.cube, handler.member)
    /\ handler' = None
    /\ UNCHANGED <<library, nextId, diskVars, topo, editor, status, bounds>>

\* apply_outcome grows the cube a flow targets without looking at the registry
GrowByFlow(c, m) ==
    /\ Request
    /\ Live(c)
    /\ GrowLocally(c, m)
    /\ UNCHANGED <<library, nextId, diskVars, topo, editor, handler, status>>

-----------------------------------------------------------------------------
(* Crash and boot.                                                           *)

\* What a crash leaves undone: the cubes a fan-out has not reached, all of
\* them when the new body is already on disk.
CutShort ==
    IF editor.pc = "fanout" THEN LeftBehind(editor.change, editor.todo)
    ELSE [drift EXCEPT !.ahead = @ \cup Ahead]

Crash ==
    /\ Fault
    /\ Serving
    /\ status' = "down"
    /\ topo' = Free
    /\ editor' = Idle
    /\ handler' = None
    /\ drift' = CutShort
    /\ UNCHANGED <<library, nextId, copy, diskVars>>

\* load_registry: the index says which dimensions there are, the bodies what
\* they hold
Loaded == [id \in DOMAIN index |-> Dim(index[id].gen, bodies[id], index[id].refs)]

Referrers == UNION {index[id].refs : id \in DOMAIN index}
TheirLibrary(c) == Loaded[CHOOSE id \in DOMAIN index : c \in index[id].refs].members
Unreconcilable == {c \in Referrers : ReconcileConflicts(copy[c].members, TheirLibrary(c))}

\* The referrers of a dimension whose body was replaced ahead of its cubes.
TornAtBoot == UNION {index[id].refs : id \in drift.ahead \cap DOMAIN index}

\* try_with_dimensions_dir brings every referrer forward or gives the boot up
Boot ==
    /\ status = "down"
    /\ library' = Loaded
    /\ nextId' = NextId(index)
    /\ drift' = [drift EXCEPT !.torn = @ \cup TornAtBoot, !.ahead = {}]
    /\ IF Unreconcilable = {}
       THEN /\ status' = "up"
            /\ copy' = [c \in Cubes |->
                   IF c \in Referrers
                   THEN [copy[c] EXCEPT !.members = Reconciled(@, TheirLibrary(c))]
                   ELSE copy[c]]
       ELSE /\ status' = "refused"
            /\ UNCHANGED copy
    /\ UNCHANGED <<diskVars, topo, editor, handler, bounds>>

Next ==
    \/ Register
    \/ \E id \in Ids : Delete(id)
    \/ \E c \in Cubes : Promote(c) \/ CreateInline(c)
    \/ \E c \in Cubes, id \in Ids : CreateWithRef(c, id)
    \/ \E id \in Ids, m \in Member : Grow(id, m)
    \/ \E c \in Cubes, e \in Edits : EditShared(c, e) \/ EditEmbedded(c, e)
    \/ ApplyEmbedded
    \/ FanOut
    \/ FannedOut
    \/ SaveBody
    \/ SaveIndex
    \/ Publish
    \/ SaveFails
    \/ \E c \in Cubes, m \in Member : CheckBacking(c, m) \/ GrowByFlow(c, m)
    \/ GrowChecked
    \/ Crash
    \/ Boot

Spec == Init /\ [][Next]_vars

-----------------------------------------------------------------------------
(* Properties.                                                               *)

IsSeqOfMembers(s) == \A i \in DOMAIN s : s[i] \in Member
IsRegistry(reg) ==
    /\ DOMAIN reg \subseteq Ids
    /\ \A id \in DOMAIN reg :
          /\ reg[id].gen \in Nat
          /\ IsSeqOfMembers(reg[id].members) /\ NamesOnce(reg[id].members)
          /\ reg[id].refs \subseteq Cubes

\* The types, with what every path keeps: member names are unique, a cube
\* refers to at most one dimension, only live cubes are referrers.
TypeOK ==
    /\ IsRegistry(library)
    /\ nextId \in Nat
    /\ \A c \in Cubes : IsSeqOfMembers(copy[c].members) /\ NamesOnce(copy[c].members)
    /\ \A c \in Cubes : Cardinality(Backings(c)) <= 1 /\ (Backed(c) => Live(c))
    /\ topo # Free => IsRegistry(topo.next)
    /\ status \in {"up", "down", "refused"}

Pending == IF editor.pc = "fanout" THEN editor.todo ELSE {}

\* try_with_dimensions_dir and edit_dimension: a referring cube that no
\* fan-out is still on its way to holds exactly the library's members, and in
\* the library's order unless an append once missed it, for as long as nothing
\* but the library changed its copy and no structural edit was cut short.
CopiesKeepInStep ==
    status = "up" =>
        \A id \in DOMAIN library :
            \A c \in library[id].refs \ (drift.torn \cup drift.stray \cup Pending) :
                IF c \in drift.behind
                THEN ToSet(copy[c].members) \subseteq ToSet(library[id].members)
                ELSE copy[c].members = library[id].members

\* The boot fails loudly only for a copy the library itself let go: an append
\* that was cut short anywhere never keeps the server from starting.
OnlyDriftStopsABoot == status = "refused" => drift.torn \cup drift.stray # {}

\* The boot's append-only reconcile makes up for every append that missed a
\* cube: after it no referring cube lacks a member of the library.
BootBringsForward ==
    [][Boot => (status' = "up" =>
          \A id \in DOMAIN library' : \A c \in library'[id].refs :
              ToSet(library'[id].members) \subseteq ToSet(copy'[c].members))]_vars

\* registry.rs: "recovery always sees an index whose every listed body still
\* exists", and what it would load of a dimension is what is published, or
\* what the save that did not return was about to publish.
DiskIsReadable ==
    /\ DOMAIN index \subseteq DOMAIN bodies
    /\ status # "refused" => \A id \in DOMAIN index \cap DOMAIN library :
           \/ bodies[id] = library[id].members
           \/ id \in drift.ahead
           \/ topo # Free /\ id \in DOMAIN topo.next /\ bodies[id] = topo.next[id].members
           \/ \E m \in Member : bodies[id] = Grown(library[id].members, m)

\* A reference that has been published is in every later registry that still
\* has the dimension, whatever saves failed and whatever crashed in between:
\* a lost one would silently end the fan-out to that cube.
ReferencesSurvive ==
    [][\A id \in DOMAIN library \cap DOMAIN library' : library[id].refs \subseteq library'[id].refs]_vars

\* model_routes.rs blocks cube-local growth of a shared dimension because it
\* "would let one cube's copy drift from the library and every other
\* referencing cube": with no save failed and no crash, the copies no fan-out
\* is on its way to are the library's.  A flow's growth goes around the library,
\* so this does not hold (README, section 5); no run checks it.
CopiesMatchTheLibrary ==
    faults = 0 =>
        \A id \in DOMAIN library : \A c \in library[id].refs \ Pending :
            copy[c].members = library[id].members

\* lib.rs: the id counter is seeded "past the max stored id (so new ids never
\* collide across restarts)": no id that has been published is minted again.
\* The largest id may have been deleted, or never saved, so this does not hold
\* either (README, section 5); no run checks it.
IdsAreNotReissued ==
    [][Boot => \A id \in DOMAIN library : nextId' > id]_vars

(* However far an edit of a shared dimension came, what is on disk boots,   *)
(* and the cubes that serve have the dimension they name (save_registry,    *)
(* Engine::edit_dimension, try_with_dimensions_dir).                        *)
LibraryIsSound ==
  /\ TypeOK
  /\ CopiesKeepInStep
  /\ OnlyDriftStopsABoot
  /\ DiskIsReadable

(* What an edit was acknowledged for outlives a crash, and so does what a   *)
(* cube names (the reconcile loop of a boot, create_cube_with_refs).        *)
NothingIsForgotten ==
  /\ BootBringsForward
  /\ ReferencesSurvive

=============================================================================
