------------------------------- MODULE Flows -------------------------------
(***************************************************************************)
(* Flow runs over a live model (epiphany-api/src/flow_routes.rs,            *)
(* flow_reader.rs and the run step of scheduler.rs): a request takes a copy *)
(* of the flow, fetches its sources, runs the script on a thread of its own *)
(* under a deadline, has what the script staged authorized as the runner,   *)
(* and applies it target by target, while other requests run flows, write,  *)
(* and change rights.  A commit of one cube is atomic: CubeEngine models    *)
(* what stands behind it.  Cells are kept by position, as the engine keeps  *)
(* them; members are never deleted here, see CellWrites for that.           *)
(***************************************************************************)
EXTENDS FlowScript, Automation

CONSTANTS
  Requests,     \* the requests that run flows
  Scripts,      \* what each source text stages: a script for each source
  Feeds,        \* the row sets a fetch may bring
  Numbers,      \* the values that parse as numbers; "0" is no value
  MaxFaults,    \* bound on the commits that fail
  MaxEdits      \* bound on what others change

VARIABLES
  cubes,      \* each cube: its dimensions by name, its cells by position
  shared,     \* the dimension library: each dimension and its referrers
  rights,     \* what each user has been granted, as sets of needs
  denied,     \* the members whose cells a user may neither see nor write
  runs,       \* the requests in progress; some of a run's fields are ghosts
  faults,     \* the commits that failed so far
  edits       \* the changes others made so far

modelVars == <<cubes, shared>>
rightsVars == <<rights, denied>>
flowVars == <<modelVars, rightsVars, runs, faults, edits>>

(* What it takes to do a thing: a kind of access, and where.                 *)
RunFlows == <<"flow", "">>
ReadConnections == <<"connection", "">>
ReadCube(c) == <<"read", c>>
WriteCube(c) == <<"write", c>>
EditCube(c) == <<"dimension", c>>
EditLibrary == <<"dimension", "">>
Reach(member) == <<"member", member>>

RightsNow == [rights |-> rights, denied |-> denied]

HoldsIn(moment, user, need) ==
  \/ user \in Admins
  \/ need[1] # "member" /\ need \in moment.rights[user]
  \/ need[1] = "member" /\ need[2] \notin moment.denied[user]

Holds(user, need) == HoldsIn(RightsNow, user, need)

(* A coordinate of names in a cube's dimensions ds.  The live paths want     *)
(* exactly the cube's dimensions and element names; positions come out.      *)
Addressed(ds, coord) ==
  DOMAIN coord = DOMAIN ds /\ \A d \in DOMAIN ds : coord[d] \in Names(ds[d])

At(ds, coord) == [d \in DOMAIN ds |-> IndexOf(ds[d], coord[d])]
KindAt(ds, at, d) == ds[d].elements[at[d]].kind
IsText(ds, at) == \E d \in DOMAIN ds : KindAt(ds, at, d) = Str
IsWritable(ds, at) == \A d \in DOMAIN ds : KindAt(ds, at, d) # Consolidated
NamesAt(ds, at) == [d \in DOMAIN ds |-> ds[d].elements[at[d]].name]

ValueAt(cells, at) == IF at \in DOMAIN cells THEN cells[at] ELSE "0"

\* Of several writes of a cell the last counts.
WriteCells(cells, writes) ==
  LET last(at) == Max({i \in DOMAIN writes : writes[i].at = at})
      written == LaidOver([at \in {writes[i].at : i \in DOMAIN writes} |-> writes[last(at)].value], cells)
  IN Restrict(written, {at \in DOMAIN written : written[at] # "0"})

-----------------------------------------------------------------------------
(* A request.                                                                *)

Idle == [pc |-> "idle", answer |-> "none"]
Run(c) == runs[c]
To(c, run) == runs' = [runs EXCEPT ![c] = run]

AnswerWith(c, run, answer) == To(c, [run EXCEPT !.pc = "done", !.answer = answer])

Quiet == UNCHANGED <<modelVars, rightsVars, faults, edits>>

Model == [cubes |-> cubes, shared |-> shared]
Moment == [cubes |-> cubes, rights |-> rights, denied |-> denied]

UsesGlobal(flow) == \E i \in DOMAIN flow.inputs : flow.inputs[i].scope = "global"
LegacyKey(flow) == IF flow.inputs = <<>> THEN "data" ELSE Address(flow.inputs[1])

\* What the request has yet to fetch: the connection of its body, then the
\* declared inputs, each with the address its rows get.
Fetches(flow, body) ==
  LET declared == [i \in DOMAIN flow.inputs |-> [input |-> flow.inputs[i], at |-> Address(flow.inputs[i])]]
      named == SetToSeq({[input |-> Global(n), at |-> LegacyKey(flow)] : n \in body.connection})
  IN named \o declared

NoLook == [at |-> "start"]

\* Ghosts: before is the model the run found, alone whether nobody else has
\* changed it since; moments, what its script could have seen, in their order;
\* could, the rights there were during its authorization; faulted and overtaken, whether a commit
\* failed and whether another's growth moved in under the planned cells.
Begun(user, flow, body) ==
  [pc |-> "fetching", answer |-> "none", user |-> user, flow |-> flow, body |-> body,
   fetches |-> Fetches(flow, body), fetched |-> NoFn,
   script |-> Started(Blank, NoFn), calls |-> <<>>, look |-> NoLook, views |-> NoFn, reads |-> <<>>,
   needs |-> <<>>, outcome |-> [cubes |-> NoFn, dimensions |-> NoFn],
   targets |-> <<>>, writes |-> <<>>, added |-> 0, written |-> 0,
   before |-> Model, alone |-> TRUE, moments |-> <<>>, could |-> {},
   faulted |-> FALSE, overtaken |-> FALSE]

MaySource(user, flow, body) ==
  (UsesGlobal(flow) \/ body.connection # {}) => Holds(user, ReadConnections)

\* run_flow_handler up to its first fetch.
RunFlow(c, user, name, body) ==
  /\ Run(c).pc = "idle"
  /\ Holds(user, RunFlows)
  /\ name \in DOMAIN automation.flows
  /\ LET flow == automation.flows[name]
     IN /\ flow.inputs # <<>> => body.input = {} /\ body.connection = {}
        /\ MaySource(user, flow, body)
        /\ To(c, Begun(user, flow, body))
  /\ Quiet

\* A step of a scheduled job runs as the flow's owner; a flow without one
\* does not run.
NoBody == [connection |-> {}, input |-> {}, inputs |-> NoFn]

RunScheduled(c, name) ==
  /\ Run(c).pc = "idle"
  /\ \E job \in DOMAIN automation.jobs : automation.jobs[job].enabled /\ name \in ToSet(automation.jobs[job].steps)
  /\ name \in DOMAIN automation.flows
  /\ \E owner \in automation.flows[name].owner :
       /\ MaySource(owner, automation.flows[name], NoBody)
       /\ To(c, Begun(owner, automation.flows[name], NoBody))
  /\ Quiet

\* fetch_connection_rows: a global input is looked up now, not when the flow
\* was read; what the connector itself does is Connector's.
SpecsOf(input) ==
  IF input.scope = "local" THEN input.spec
  ELSE {automation.connections[n] : n \in {input.name} \cap DOMAIN automation.connections}

Fetch(c) ==
  LET run == Run(c)
      next == Head(run.fetches)
  IN /\ run.pc = "fetching" /\ run.fetches # <<>>
     /\ \/ \E spec \in SpecsOf(next.input), rows \in Feeds :
             /\ MayFetch(spec, secrets)
             /\ To(c, [run EXCEPT !.fetches = Tail(@), !.fetched = Put(@, next.at, rows)])
        \/ AnswerWith(c, run, "no rows")
     /\ Quiet

\* Rows of the body replace fetched ones at their address, the rows of the
\* single legacy source all others at its.
InputsOf(run) ==
  LET key == LegacyKey(run.flow)
      legacy == IF run.body.connection # {} THEN {run.fetched[k] : k \in {key} \cap DOMAIN run.fetched}
                ELSE run.body.input
  IN LaidOver([k \in {key : rows \in legacy} |-> CHOOSE rows \in legacy : TRUE],
              LaidOver(run.body.inputs, run.fetched))

\* The watchdog's thread starts with the inputs and the flow's own script.
StartScript(c) ==
  LET run == Run(c)
      cube == IF run.flow.defaultCube = {} THEN Blank ELSE CHOOSE d \in run.flow.defaultCube : TRUE
  IN /\ run.pc = "fetching" /\ run.fetches = <<>>
     /\ To(c, [run EXCEPT !.pc = "running", !.script = Started(cube, InputsOf(run)),
                          !.calls = Calls(Scripts[run.flow.source]), !.moments = <<Moment>>])
     /\ Quiet

-----------------------------------------------------------------------------
(* What others do meanwhile, and the ghosts that follow it.                  *)

\* Every run sees that the model or the rights have changed; c is the one
\* that changed the model, if a run did.
Witnessed(all, c) ==
  [r \in Requests |->
     IF all[r].pc = "idle" THEN all[r]
     ELSE [all[r] EXCEPT !.alone = @ /\ (r = c \/ modelVars' = modelVars),
                         !.moments = IF all[r].pc = "running" THEN Append(@, Moment') ELSE <<>>,
                         !.could = IF all[r].pc = "authorizing" THEN @ \cup {RightsNow'}
                                   ELSE IF all[r].pc = "done" THEN {} ELSE @]]

Others == "nobody"
Witness(c, run) == runs' = Witnessed([runs EXCEPT ![c] = run], c)

Edit == edits < MaxEdits /\ edits' = edits + 1

\* Another request writes one cell, adds one member, or changes one right.
WriteBatch(cube, coord, value) ==
  /\ Edit
  /\ Addressed(cubes[cube].dims, coord) /\ IsWritable(cubes[cube].dims, At(cubes[cube].dims, coord))
  /\ cubes' = [cubes EXCEPT ![cube].cells =
                 WriteCells(@, <<[at |-> At(cubes[cube].dims, coord), value |-> value]>>)]
  /\ UNCHANGED <<shared, rightsVars, faults>>
  /\ runs' = Witnessed(runs, Others)

DefineElement(cube, el) ==
  LET grown == ApplyGrowth(cubes[cube].dims, <<el>>, <<>>)
  IN /\ Edit
     /\ ~grown.failed
     /\ cubes' = [cubes EXCEPT ![cube].dims = grown.dims]
     /\ UNCHANGED <<shared, rightsVars, faults>>
     /\ runs' = Witnessed(runs, Others)

ChangeGrants(user, need) ==
  /\ Edit
  /\ rights' = [rights EXCEPT ![user] = SymDiff(@, {need})]
  /\ UNCHANGED <<modelVars, denied, faults>>
  /\ runs' = Witnessed(runs, Others)

ChangeMask(user, member) ==
  /\ Edit
  /\ denied' = [denied EXCEPT ![user] = SymDiff(@, {member})]
  /\ UNCHANGED <<modelVars, rights, faults>>
  /\ runs' = Witnessed(runs, Others)

-----------------------------------------------------------------------------
(* Live reads (with_view).  The first read of a cube asks for Cube:Read,     *)
(* then pins the cube, then takes the runner's mask: three looks, between    *)
(* which others may commit.  What they make, the view, is kept for the rest  *)
(* of the run.  Cells are read as stored; what rules and consolidations make *)
(* of a pinned cube is RuleQuery's.                                          *)

Threaded(run) == run.pc = "running" \/ (run.pc = "done" /\ run.answer = "timed out")
Calling(run) == Threaded(run) /\ run.calls # <<>> /\ run.script.status = "running"
NextCall(run) == Head(run.calls)

Looks(run) == /\ NextCall(run).op \in {"read", "copyMembers"}
              /\ NextCall(run).target \notin DOMAIN run.views

LookUp(c) ==
  LET run == Run(c)
      cube == NextCall(run).target
  IN /\ Calling(run) /\ Looks(run) /\ run.look = NoLook
     /\ To(c, IF Holds(run.user, ReadCube(cube)) THEN [run EXCEPT !.look = [at |-> "allowed", cube |-> cube]]
              ELSE [run EXCEPT !.script = Throw(@)])
     /\ Quiet

PinCube(c) ==
  LET run == Run(c)
      cube == run.look.cube
  IN /\ Calling(run) /\ run.look.at = "allowed"
     /\ To(c, IF cube \in DOMAIN cubes
              THEN [run EXCEPT !.look = [at |-> "pinned", cube |-> cube, snapshot |-> cubes[cube]]]
              ELSE [run EXCEPT !.script = Throw(@)])
     /\ Quiet

View(snapshot, masked) == [dims |-> snapshot.dims, cells |-> snapshot.cells, masked |-> masked]
MaskFor(user) == IF user \in Admins THEN {} ELSE denied[user]

CaptureMask(c) ==
  LET run == Run(c)
  IN /\ Calling(run) /\ run.look.at = "pinned"
     /\ To(c, [run EXCEPT !.look = NoLook,
                          !.views = Put(@, run.look.cube, View(run.look.snapshot, MaskFor(run.user)))])
     /\ Quiet

\* A cell of a view: text or number, or a throw for one that is masked or
\* does not resolve.
Readable1(view, coord) ==
  Addressed(view.dims, coord) /\ \A d \in DOMAIN coord : coord[d] \notin view.masked

VisibleMembers(view, d) ==
  SelectSeq([i \in DOMAIN view.dims[d].elements |-> view.dims[d].elements[i].name],
            LAMBDA n : n \notin view.masked)

MembersAsSpecs(d, names) == [i \in DOMAIN names |-> [d |-> d, name |-> names[i], kind |-> Leaf]]

\* Weakened: a read is of the cube as it now is, under the mask of the first.
ReadCellAnew(run, call) ==
  LET view == run.views[call.target]
      value == ValueAt(cubes[call.target].cells, At(view.dims, call.coord))
  IN IF ~Readable1(view, call.coord) THEN [run EXCEPT !.script = Throw(@)]
     ELSE [run EXCEPT !.script.lastRead = value,
                      !.reads = Append(@, [cube |-> call.target, coord |-> call.coord, value |-> value])]

\* The read of one call, of a cube the run has a view of, and what the script
\* goes on with.
ReadCell(run, call) ==
  LET view == run.views[call.target]
      value == ValueAt(view.cells, At(view.dims, call.coord))
  IN IF ~Readable1(view, call.coord) THEN [run EXCEPT !.script = Throw(@)]
     ELSE [run EXCEPT !.script.lastRead = value,
                      !.reads = Append(@, [cube |-> call.target, coord |-> call.coord, value |-> value])]

CopyMembers(run, call) ==
  IF call.d \notin DOMAIN run.views[call.target].dims THEN [run EXCEPT !.script = Throw(@)]
  ELSE [run EXCEPT !.script = StageInto(@, "cubes", call.into, "elements",
          MembersAsSpecs(call.d, VisibleMembers(run.views[call.target], call.d)))]

\* The library's members are for administrators.
CopyShared(run, call) ==
  IF run.user \notin Admins \/ call.d \notin DOMAIN shared THEN [run EXCEPT !.script = Throw(@)]
  ELSE [run EXCEPT !.script = StageInto(@, "cubes", call.into, "elements",
          MembersAsSpecs(call.d, [i \in DOMAIN shared[call.d].dim.elements |->
                                    shared[call.d].dim.elements[i].name]))]

Called(run, call) ==
  CASE call.op = "read" -> ReadCell(run, call)
    [] call.op = "copyMembers" -> CopyMembers(run, call)
    [] call.op = "copyShared" -> CopyShared(run, call)
    [] OTHER -> [run EXCEPT !.script = HostCall(@, call)]

\* The thread makes its next call; a wedged script never comes to one.
HostStep(c) ==
  LET run == Run(c)
  IN /\ Calling(run) /\ ~Looks(run)
     /\ NextCall(run).op \notin {"loop", "panic"}
     /\ To(c, [Called(run, NextCall(run)) EXCEPT !.calls = Tail(@)])
     /\ Quiet

(* The end of the thread.  The outcome goes to the request if it still       *)
(* waits, and nowhere otherwise.                                             *)
CubeNeeds(cube, changes) ==
  (IF changes.elements # <<>> \/ changes.edges # <<>> THEN <<EditCube(cube)>> ELSE <<>>)
  \o (IF changes.cells = <<>> THEN <<>>
      ELSE <<WriteCube(cube)>> \o
           SetToSeq({Reach(m) : m \in UNION {Range(changes.cells[i].coord) : i \in DOMAIN changes.cells}}))

\* Weakened: new members are not an effect on a cube.
NeedsOfCells(outcome) ==
  LET names == InNameOrder(DOMAIN outcome.cubes)
  IN FlattenSeq([i \in DOMAIN names |->
       CubeNeeds(names[i], [outcome.cubes[names[i]] EXCEPT !.elements = <<>>, !.edges = <<>>])])

Needs(outcome) ==
  LET names == InNameOrder(DOMAIN outcome.cubes)
  IN FlattenSeq([i \in DOMAIN names |-> CubeNeeds(names[i], outcome.cubes[names[i]])])
     \o (IF DOMAIN outcome.dimensions = {} THEN <<>> ELSE <<EditLibrary>>)

\* The targets as they are applied: the library's dimensions, then the cubes.
Targets(outcome) ==
  LET dimensions == InNameOrder(DOMAIN outcome.dimensions)
      names == InNameOrder(DOMAIN outcome.cubes)
  IN [i \in DOMAIN dimensions |-> [to |-> "dimension", name |-> dimensions[i]]]
     \o [i \in DOMAIN names |-> [to |-> "cube", name |-> names[i]]]

Delivered(run) ==
  LET outcome == OutcomeOf(run.script)
  IN IF run.script.status = "threw" THEN [run EXCEPT !.pc = "done", !.answer = "threw"]
     ELSE [run EXCEPT !.pc = "authorizing", !.outcome = outcome, !.moments = <<>>,
                      !.could = {RightsNow},
                      !.needs = Needs(outcome), !.targets = Targets(outcome)]

\* Weakened: a result that comes late is used all the same.
StillWaiting(run) == run.pc = "running" \/ run.answer = "timed out"
Waiting(run) == run.pc = "running"

ScriptOver(run) == run.calls = <<>> \/ run.script.status = "threw"

ScriptEnds(c) ==
  LET run == Run(c)
  IN /\ Threaded(run) /\ run.script.status # "over" /\ ScriptOver(run)
     /\ LET ended == IF Waiting(run) THEN Delivered(run) ELSE run
        IN To(c, [ended EXCEPT !.script.status = "over", !.calls = <<>>])
     /\ Quiet

Panic(c) ==
  LET run == Run(c)
  IN /\ run.pc = "running" /\ run.calls # <<>> /\ Head(run.calls).op = "panic"
     /\ AnswerWith(c, run, "failed")
     /\ Quiet

\* Weakened: the deadline is looked at between host calls.
TimeOutAtCalls(c) ==
  /\ Run(c).pc = "running" /\ ~ScriptOver(Run(c)) /\ Head(Run(c).calls).op # "loop"
  /\ AnswerWith(c, Run(c), "timed out")
  /\ Quiet

\* The deadline passes first; the thread goes on, its value is dropped.
TimeOut(c) ==
  /\ Run(c).pc = "running"
  /\ AnswerWith(c, Run(c), "timed out")
  /\ Quiet

-----------------------------------------------------------------------------
(* Authorization, each need looked up in its turn, and the apply.            *)

Authorize(c) ==
  LET run == Run(c)
  IN /\ run.pc = "authorizing"
     /\ IF run.needs = <<>> THEN To(c, [run EXCEPT !.pc = "applying", !.before = Model, !.alone = TRUE])
        ELSE IF Holds(run.user, Head(run.needs)) THEN To(c, [run EXCEPT !.needs = Tail(@)])
        ELSE AnswerWith(c, run, "refused")
     /\ Quiet

Next_(run) == [run EXCEPT !.pc = "applying", !.targets = Tail(@)]
Failing(run) == [run EXCEPT !.pc = "done", !.answer = "failed"]
Faulty(run) == [Failing(run) EXCEPT !.faulted = TRUE]

Fault(c) ==
  /\ faults < MaxFaults /\ faults' = faults + 1
  /\ UNCHANGED <<modelVars, rightsVars, edits>>
  /\ To(c, Faulty(Run(c)))

\* A grown dimension reaches the cubes that use it one after the other, up to
\* the first that refuses.
GrowReferrers(all, referrers, elements, edges) ==
  LET grown == [i \in DOMAIN referrers |-> ApplyGrowth(all[referrers[i]].dims, elements, edges)]
      reached == {i \in DOMAIN referrers : \A j \in 1..i : ~grown[j].failed}
  IN [failed |-> reached # DOMAIN referrers,
      cubes |-> LaidOver([c \in {referrers[i] : i \in reached} |->
                            [all[c] EXCEPT !.dims = grown[CHOOSE i \in reached : referrers[i] = c].dims]], all)]

GrowShared(model, d, changes) ==
  LET grown == ApplyGrowth(d :> model.shared[d].dim, changes.elements, changes.edges)
      fanned == GrowReferrers(model.cubes, model.shared[d].referrers, changes.elements, changes.edges)
  IN IF grown.failed THEN [failed |-> TRUE, model |-> model]
     ELSE [failed |-> fanned.failed,
           model |-> [cubes |-> fanned.cubes, shared |-> [model.shared EXCEPT ![d].dim = grown.dims[d]]]]

\* The library's save, its publication and the commits of the referrers are
\* taken as one step, and a fault as one before all of them: DimensionLibrary
\* has them one by one.
ApplyDimension(c) ==
  LET run == Run(c)
      d == Head(run.targets).name
      changes == run.outcome.dimensions[d]
      grown == GrowShared(Model, d, changes)
  IN /\ run.pc = "applying" /\ run.targets # <<>> /\ Head(run.targets).to = "dimension"
     /\ IF d \notin DOMAIN shared THEN To(c, Failing(run)) /\ Quiet
        ELSE IF changes.elements = <<>> /\ changes.edges = <<>> THEN To(c, Next_(run)) /\ Quiet
        ELSE \/ /\ cubes' = grown.model.cubes /\ shared' = grown.model.shared
                /\ UNCHANGED <<rightsVars, faults, edits>>
                /\ Witness(c, IF grown.failed THEN Failing(run)
                              ELSE [Next_(run) EXCEPT !.added = @ + Len(changes.elements)])
             \/ Fault(c)

\* Weakened: a cell given no value is not a write.
WritesOfValues(dims, changes) ==
  LET writes == [i \in DOMAIN changes.cells |->
                   [at |-> At(dims, changes.cells[i].coord), value |-> changes.cells[i].value]]
  IN SelectSeq(writes, LAMBDA w : w.value # "0")

Writes(dims, changes) ==
  [i \in DOMAIN changes.cells |->
     [at |-> At(dims, changes.cells[i].coord), value |-> changes.cells[i].value]]

Takes(dims, cell) ==
  /\ Addressed(dims, cell.coord)
  /\ IsWritable(dims, At(dims, cell.coord))
  /\ IsText(dims, At(dims, cell.coord)) \/ cell.value \in Numbers

Refused == [failed |-> TRUE, writes |-> <<>>]

Plan(dims, changes) ==
  LET grown == ApplyGrowth(dims, changes.elements, changes.edges)
  IN IF grown.failed THEN Refused
     ELSE IF \E i \in DOMAIN changes.cells : ~Takes(grown.dims, changes.cells[i]) THEN Refused
     ELSE [failed |-> FALSE, writes |-> Writes(grown.dims, changes)]

\* Everything a cube is to get is tried on a copy first.
\* Weakened: but what the trial says of the cells is not looked at.
PreviewGrowth(c) ==
  LET run == Run(c)
      cube == Head(run.targets).name
  IN /\ run.pc = "applying" /\ run.targets # <<>> /\ Head(run.targets).to = "cube"
     /\ To(c, IF cube \notin DOMAIN cubes THEN Failing(run)
              ELSE [run EXCEPT !.pc = "growing",
                               !.writes = Plan(cubes[cube].dims, run.outcome.cubes[cube]).writes])
     /\ Quiet

PreviewCube(c) ==
  LET run == Run(c)
      cube == Head(run.targets).name
      plan == Plan(cubes[cube].dims, run.outcome.cubes[cube])
  IN /\ run.pc = "applying" /\ run.targets # <<>> /\ Head(run.targets).to = "cube"
     /\ To(c, IF cube \notin DOMAIN cubes \/ plan.failed THEN Failing(run)
              ELSE [run EXCEPT !.pc = "growing", !.writes = plan.writes])
     /\ Quiet

MemberCount(dims) == FoldFunction(LAMBDA dim, n : Size(dim) + n, 0, dims)

\* The growth is made again, of the cube as it now is.
GrowCube(c) ==
  LET run == Run(c)
      cube == Head(run.targets).name
      changes == run.outcome.cubes[cube]
      grown == ApplyGrowth(cubes[cube].dims, changes.elements, changes.edges)
  IN /\ run.pc = "growing"
     /\ IF changes.elements = <<>> /\ changes.edges = <<>>
        THEN To(c, [run EXCEPT !.pc = "committing"]) /\ Quiet
        ELSE IF grown.failed THEN To(c, [Failing(run) EXCEPT !.overtaken = TRUE]) /\ Quiet
        ELSE \/ /\ cubes' = [cubes EXCEPT ![cube].dims = grown.dims]
                /\ UNCHANGED <<shared, rightsVars, faults, edits>>
                /\ Witness(c, [run EXCEPT !.pc = "committing",
                                 !.added = @ + MemberCount(grown.dims) - MemberCount(cubes[cube].dims)])
             \/ Fault(c)

\* The batch is by position, and checked only for the kind of its cells.
Lands(dims, write, cell) == NamesAt(dims, write.at) = cell.coord

BatchTaken(dims, writes) ==
  \A i \in DOMAIN writes : IsWritable(dims, writes[i].at)
                           /\ (IsText(dims, writes[i].at) \/ writes[i].value \in Numbers)

CommitCells(c) ==
  LET run == Run(c)
      cube == Head(run.targets).name
      dims == cubes[cube].dims
      astray == \E i \in DOMAIN run.writes :
                  \A j \in DOMAIN run.outcome.cubes[cube].cells :
                    ~Lands(dims, run.writes[i], run.outcome.cubes[cube].cells[j])
  IN /\ run.pc = "committing"
     /\ IF run.writes = <<>> THEN To(c, Next_(run)) /\ Quiet
        ELSE IF ~BatchTaken(dims, run.writes) THEN To(c, [Failing(run) EXCEPT !.overtaken = TRUE]) /\ Quiet
        ELSE \/ /\ cubes' = [cubes EXCEPT ![cube].cells = WriteCells(@, run.writes)]
                /\ UNCHANGED <<shared, rightsVars, faults, edits>>
                /\ Witness(c, [Next_(run) EXCEPT !.written = @ + Len(run.writes),
                                                !.overtaken = @ \/ astray, !.writes = <<>>])
             \/ Fault(c)

Finish(c) ==
  /\ Run(c).pc = "applying" /\ Run(c).targets = <<>>
  /\ AnswerWith(c, Run(c), "ok")
  /\ Quiet

(* import_csv: the plan of a CSV body, authorized and applied in the same    *)
(* way; no script runs.                                                      *)
ImportCsv(c, user, cube, rows, columns, valueColumn, fixed) ==
  LET outcome == PlanImport(cube, rows, columns, valueColumn, fixed)
      run == Begun(user, [inputs |-> <<>>], NoBody)
  IN /\ Run(c).pc = "idle"
     /\ DOMAIN columns # {} /\ HasColumns(rows, columns, valueColumn)
     /\ To(c, [run EXCEPT !.pc = "authorizing", !.outcome = outcome, !.script.status = "over",
                          !.could = {RightsNow}, !.needs = Needs(outcome), !.targets = Targets(outcome)])
     /\ Quiet

RunStep(c) ==
  \/ Fetch(c) \/ StartScript(c) \/ LookUp(c) \/ PinCube(c) \/ CaptureMask(c)
  \/ HostStep(c) \/ ScriptEnds(c) \/ Panic(c)
  \/ Authorize(c) \/ ApplyDimension(c) \/ PreviewCube(c) \/ GrowCube(c)
  \/ CommitCells(c) \/ Finish(c)

-----------------------------------------------------------------------------
(* Any requests, and any changes by others, whatever the automation model    *)
(* becomes meanwhile.  A configuration chooses among them.                   *)
HostCalls == {"throw", "log", "dimElements", "dimEdges", "elements", "edges", "cells", "writeRead",
              "loadElements", "loadCells", "read", "copyMembers", "copyShared", "loop", "panic"}

ACall(call) ==
  /\ call.op \in HostCalls
  /\ call.op = "cells" =>
       ASequence(call.items) /\ \A i \in DOMAIN call.items : IsFiniteSet(DOMAIN call.items[i].coord)
  /\ call.op = "writeRead" => IsFiniteSet(DOMAIN call.into)

ASSUME ScriptsAssumption ==
  \A source \in DOMAIN Scripts :
    LET calls == Calls(Scripts[source])
    IN ASequence(calls) /\ \A i \in DOMAIN calls : ACall(calls[i])
ASSUME FeedsAssumption == \A rows \in Feeds : ASequence(rows)
ASSUME NamesAssumption == ASequence(NameOrder)

ABody(body) ==
  /\ \A rows \in body.input : ASequence(rows)
  /\ \A k \in DOMAIN body.inputs : ASequence(body.inputs[k])

AnImport(rows, columns, fixed) ==
  ASequence(rows) /\ IsFiniteSet(DOMAIN columns) /\ IsFiniteSet(DOMAIN fixed)

HasScript(name) == automation.flows[name].source \in DOMAIN Scripts

FlowInit ==
  /\ \A cube \in DOMAIN cubes : DOMAIN cubes[cube] = {"dims", "cells"}
  /\ \A d \in DOMAIN shared : DOMAIN shared[d] = {"dim", "referrers"} /\ Range(shared[d].referrers) \subseteq DOMAIN cubes
  /\ runs = [c \in Requests |-> Idle]
  /\ faults = 0 /\ edits = 0

FlowNext ==
  \/ \E c \in Requests :
       \/ \E user, name, body : ABody(body) /\ HasScript(name) /\ RunFlow(c, user, name, body)
       \/ \E name : HasScript(name) /\ RunScheduled(c, name)
       \/ \E user, cube, rows, columns, valueColumn, fixed :
            AnImport(rows, columns, fixed) /\ ImportCsv(c, user, cube, rows, columns, valueColumn, fixed)
       \/ RunStep(c) \/ TimeOut(c)
  \/ \E cube, coord, value : WriteBatch(cube, coord, value)
  \/ \E cube, el : DefineElement(cube, el)
  \/ \E user, need : ChangeGrants(user, need)
  \/ \E user, member : ChangeMask(user, member)

FlowSpec == FlowInit /\ [][FlowNext]_flowVars

-----------------------------------------------------------------------------
(* The flow tests (epiphany-flow/src/testing.rs), over a copy of the cubes   *)
(* `all`.  Only what a flow stages for the test's own cube is applied; a     *)
(* coordinate may say more than the cube's dimensions, and may use aliases.  *)
TestTarget(test, flow) == IF test.cube # {} THEN test.cube ELSE flow.defaultCube

TestInputs(test, flow) ==
  IF test.inputs # NoFn THEN test.inputs
  ELSE [k \in {LegacyKey(flow) : rows \in test.input} |-> CHOOSE rows \in test.input : TRUE]

ResolvesAll(dims, coord) == \A d \in DOMAIN dims : d \in DOMAIN coord /\ Resolves(dims[d], coord[d])
ResolvedAt(dims, coord) == [d \in DOMAIN dims |-> Resolve(dims[d], coord[d])]

TestWrites(dims, changes) ==
  [i \in DOMAIN changes.cells |->
     [at |-> ResolvedAt(dims, changes.cells[i].coord), value |-> changes.cells[i].value]]

TestTakes(dims, cell) ==
  /\ ResolvesAll(dims, cell.coord)
  /\ IsWritable(dims, ResolvedAt(dims, cell.coord))
  /\ IsText(dims, ResolvedAt(dims, cell.coord)) \/ cell.value \in Numbers

ApplyToCopy(cube, changes) ==
  LET grown == ApplyGrowth(cube.dims, changes.elements, changes.edges)
  IN IF grown.failed THEN Failed
     ELSE IF \E i \in DOMAIN changes.cells : ~TestTakes(grown.dims, changes.cells[i]) THEN Failed
     ELSE [failed |-> FALSE, dims |-> grown.dims,
           cells |-> WriteCells(cube.cells, TestWrites(grown.dims, changes))]

AssertionHolds(cube, assertion) ==
  ValueAt(cube.cells, ResolvedAt(cube.dims, assertion.coord)) = assertion.value

\* What a test of a flow says of the cubes: malformed, failed or passed.
RunTest(all, flow, test) ==
  LET target == CHOOSE t \in TestTarget(test, flow) : TRUE
      script == RunWithoutReads(Scripts[flow.source], target, TestInputs(test, flow))
      changes == IF target \in DOMAIN script.cubes THEN OutcomeOf(script).cubes[target] ELSE NoChanges
      copy == ApplyToCopy(all[target], changes)
  IN IF TestTarget(test, flow) \cap DOMAIN all = {} THEN "malformed"
     ELSE IF script.status = "threw" THEN "malformed"
     ELSE IF copy.failed THEN "malformed"
     ELSE IF \E a \in ToSet(test.assertions) : ~ResolvesAll(copy.dims, a.coord) THEN "malformed"
     ELSE IF \A a \in ToSet(test.assertions) : AssertionHolds(copy, a) THEN "passed" ELSE "failed"

-----------------------------------------------------------------------------
(* Properties.                                                               *)

\* What applying the targets of an outcome to a model at one go makes of it.
ApplyTarget(so, target, outcome) ==
  IF so.failed THEN so
  ELSE IF target.to = "dimension"
  THEN LET changes == outcome.dimensions[target.name]
           grown == GrowShared(so.model, target.name, changes)
       IN IF target.name \notin DOMAIN so.model.shared THEN [so EXCEPT !.failed = TRUE]
          ELSE [so EXCEPT !.failed = grown.failed, !.model = grown.model,
                          !.added = @ + Len(changes.elements)]
  ELSE LET changes == outcome.cubes[target.name]
           dims == so.model.cubes[target.name].dims
           plan == Plan(dims, changes)
           grown == ApplyGrowth(dims, changes.elements, changes.edges)
       IN IF target.name \notin DOMAIN so.model.cubes \/ plan.failed THEN [so EXCEPT !.failed = TRUE]
          ELSE [so EXCEPT !.model.cubes[target.name] =
                            [dims |-> grown.dims, cells |-> WriteCells(@.cells, plan.writes)],
                          !.added = @ + MemberCount(grown.dims) - MemberCount(dims),
                          !.written = @ + Len(plan.writes)]

Applied(model, outcome, targets) ==
  FoldLeft(LAMBDA so, target : ApplyTarget(so, target, outcome),
           [failed |-> FALSE, model |-> model, added |-> 0, written |-> 0], targets)

ApplyAll(model, outcome) == Applied(model, outcome, Targets(outcome))

Over(c) == Run(c).pc = "done"

\* apply_outcome, run_with_deadline: a run nobody else wrote beside answers
\* what it did.  Answered ok, the model is the one all its changes at one go
\* would have made, and the counts are theirs.  Answered that a cube cannot
\* take its changes, that cube has none of them.  Answered otherwise, nothing
\* has changed.
AnswersMatchEffects ==
  \A c \in Requests : Over(c) /\ Run(c).alone =>
    LET run == Run(c)
        all == ApplyAll(run.before, run.outcome)
        done == SubSeq(Targets(run.outcome), 1, Len(Targets(run.outcome)) - Len(run.targets))
    IN CASE run.answer = "ok" ->
              /\ ~all.failed /\ Model = all.model
              /\ run.added = all.added /\ run.written = all.written
         [] run.answer = "failed" /\ run.targets # <<>> ->
              ~run.faulted /\ Head(run.targets).to = "cube" =>
                Model = Applied(run.before, run.outcome, done).model
         [] OTHER -> Model = run.before

\* A run that failed on the way has applied some of its targets.  Running the
\* same outcome again, as a retry of a job's run does, then makes what one
\* whole run would have made: growth and writes are repeatable.
RetriesConverge ==
  \A c \in Requests : Over(c) /\ Run(c).alone /\ Run(c).answer = "failed" =>
    LET again == ApplyAll(Model, Run(c).outcome)
        first == ApplyAll(Run(c).before, Run(c).outcome)
    IN again.failed = first.failed /\ again.model = first.model

\* run_with_deadline: whatever the script's thread brings after its request
\* was answered, a timed out run included, is never applied.
AnswersAreFinal ==
  [][\A c \in Requests : Over(c) /\ runs'[c].pc # "idle" =>
       runs'[c].pc = "done" /\ runs'[c].answer = runs[c].answer]_flowVars

\* authorize_outcome: a flow does nothing its runner could not do by hand.
\* Each change a run makes to a cell, a cube's members or the library takes a
\* right its runner had while it was authorized.  A batch by position whose
\* cells another's growth has moved is the exception.
Does(c) ==
  /\ runs[c].pc \in {"applying", "growing", "committing"}
  /\ <<runs'[c].pc, runs'[c].targets>> # <<runs[c].pc, runs[c].targets>>

Had(run, need) == \E m \in run.could : HoldsIn(m, run.user, need)

EffectsAreAuthorized ==
  [][\A c \in Requests : Does(c) =>
       /\ shared' # shared => Had(runs[c], EditLibrary)
       /\ \A cube \in DOMAIN cubes :
            /\ cubes'[cube].dims # cubes[cube].dims =>
                 Had(runs[c], IF Head(runs[c].targets).to = "cube" THEN EditCube(cube) ELSE EditLibrary)
            /\ \A at \in DOMAIN cubes[cube].cells \cup DOMAIN cubes'[cube].cells :
                 (ValueAt(cubes[cube].cells, at) # ValueAt(cubes'[cube].cells, at) /\ ~runs'[c].overtaken) =>
                   /\ Had(runs[c], WriteCube(cube))
                   /\ \A member \in Range(NamesAt(cubes[cube].dims, at)) : Had(runs[c], Reach(member))]_flowVars

\* flow_reader.rs, "reads are deterministic within a run and never expose
\* masked cells": all a run has read of a cube was there at one moment of the
\* run, whatever was written between the reads.  Its runner could read the cube
\* then or before, and see the members then or later: with_view asks for the
\* right first and takes the mask last, and no one moment need have all three.
ReadsAgree ==
  \A c \in Requests : Run(c).pc = "running" =>
    \A cube \in DOMAIN cubes :
      LET reads == {r \in ToSet(Run(c).reads) : r.cube = cube}
          moments == Run(c).moments
      IN reads # {} =>
           \E i, j, k \in DOMAIN moments :
             /\ i <= j /\ j <= k
             /\ HoldsIn(moments[i], Run(c).user, ReadCube(cube))
             /\ \A r \in reads :
                  /\ Addressed(moments[j].cubes[cube].dims, r.coord)
                  /\ ValueAt(moments[j].cubes[cube].cells, At(moments[j].cubes[cube].dims, r.coord)) = r.value
                  /\ \A member \in Range(r.coord) : HoldsIn(moments[k], Run(c).user, Reach(member))

\* testing.rs against apply_outcome: where a flow's test on its default cube
\* passes over the cubes a run found, and the run had the test's inputs and
\* answers ok, the run leaves what the test asserts.
ReadsNothing(flow) ==
  \A i \in DOMAIN Calls(Scripts[flow.source]) :
    Calls(Scripts[flow.source])[i].op \notin {"read", "copyMembers", "copyShared"}

TestsPredictRuns ==
  \A c \in Requests, t \in DOMAIN automation.flowTests :
    LET run == Run(c)
        test == automation.flowTests[t]
        predicts == /\ run.flow = automation.flows[test.flow]
                    /\ test.cube \in {{}, run.flow.defaultCube}
                    /\ TestInputs(test, run.flow) = run.script.inputs
                    /\ ReadsNothing(run.flow)
                    /\ RunTest(run.before.cubes, run.flow, test) = "passed"
    IN (/\ Over(c) /\ run.answer = "ok" /\ run.alone
        /\ test.flow \in DOMAIN automation.flows /\ predicts)
         => \A cube \in run.flow.defaultCube : \A a \in ToSet(test.assertions) :
                 AssertionHolds(cubes[cube], a)

\* The deadline: whatever the script does, a request that has its rows is
\* answered.
EveryRunIsAnswered ==
  \A c \in Requests : (Run(c).pc = "fetching") ~> Over(c)

(* What a run answers is what it did; doing it again, or trying it first as *)
(* a test, comes to the same (apply_outcome, run_flow_tests_handler).       *)
RunsDoWhatTheySay ==
  /\ AnswersMatchEffects
  /\ RetriesConverge
  /\ TestsPredictRuns

(* A run changes what its actor may change and then no more                 *)
(* (authorize_outcome, run_with_deadline).                                  *)
OnlyAuthorizedOutcomesLand ==
  /\ EffectsAreAuthorized
  /\ AnswersAreFinal

=============================================================================
