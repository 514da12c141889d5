------------------------------ MODULE MCFlows ------------------------------
(***************************************************************************)
(* A cube Cost of two dimensions and a cube Size of one, which share the   *)
(* dimension m.  Ann is the administrator; Bob may do most things and Eve  *)
(* little; Dan may read Cost, but at first not its member q.  An episode   *)
(* says what each of two requests runs and what others may change          *)
(* meanwhile; in the last one the automation model itself is edited        *)
(* instead, and in the ones after it servers boot over the data directory  *)
(* of an older release.                                                    *)
(***************************************************************************)
EXTENDS Flows, DataDirectory

VARIABLE episode

MCNameOrder == <<"!B", "B?", "Co", "Cost", "Size", "c-!o", "f", "feed", "g", "job", "k", "m", "nowhere", "t">>
MCNumbers == {"0", "1", "2", "5"}

El(d, name, kind) == [d |-> d, name |-> name, kind |-> kind]
Edge1(d, parent, child, weight) == [d |-> d, parent |-> parent, child |-> child, weight |-> weight]
Cell(coord, value) == [coord |-> coord, value |-> value]
In(m, k) == [m |-> m, k |-> k]
Of(m) == [m |-> m]

Lines == [elements |-> <<El("m", "x", Leaf), El("m", "n", Consolidated)>>,
          edges |-> <<Edge1("m", "n", "x", 1)>>]
Kinds == <<El("k", "q", Leaf), El("k", "w", Str)>>

Built(dims, growth) == ApplyGrowth(dims, growth.elements, growth.edges).dims
Dims == Built(("m" :> EmptyDimension) @@ ("k" :> EmptyDimension),
              [Lines EXCEPT !.elements = @ \o Kinds])
JustLines == Built("m" :> EmptyDimension, Lines)

InitialCubes ==
  ("Cost" :> [dims |-> Dims, cells |-> (At(Dims, In("x", "q")) :> "1")])
  @@ ("Size" :> [dims |-> JustLines, cells |-> (At(JustLines, Of("x")) :> "2")])
InitialShared == "m" :> [dim |-> JustLines["m"], referrers |-> <<"Cost", "Size">>]

(* What the sources stage.                                                   *)
Call(op, target, items) == [op |-> op, target |-> target, items |-> items]
ReadCall(cube, coord) == [op |-> "read", target |-> cube, coord |-> coord]
KeepRead(cube, coord) == [op |-> "writeRead", target |-> cube, into |-> coord]

MCScripts ==
  [load |-> [schema |-> <<[op |-> "loadElements", target |-> "", source |-> "", d |-> "m"]>>,
             rows |-> <<[op |-> "loadCells", target |-> "", source |-> "feed", d |-> "m"]>>],
   spread |-> [schema |-> <<Call("dimElements", "m", <<El("m", "y", "none"), El("m", "", Leaf)>>),
                            Call("dimEdges", "m", <<Edge1("m", "n", "y", 1), Edge1("m", "", "y", 1)>>)>>,
               finalize |-> <<Call("cells", "Cost", <<Cell(In("y", "q"), "5"), Cell(In("x", "w"), "note"),
                                                      Cell(NoFn, "5")>>),
                              Call("cells", "Size", <<Cell(Of("y"), "2"), Cell(Of("x"), "0")>>)>>],
   copy |-> [rows |-> <<ReadCall("Cost", In("x", "q")), KeepRead("Size", Of("x")),
                        ReadCall("Cost", In("x", "q")), KeepRead("Size", Of("x"))>>],
   members |-> [init |-> <<[op |-> "log"]>>,
                schema |-> <<[op |-> "copyMembers", target |-> "Cost", d |-> "m", into |-> "Size"],
                             [op |-> "copyShared", d |-> "m", into |-> "Size"]>>],
   half |-> [schema |-> <<Call("elements", "Cost", <<El("m", "y", Leaf), El("m", "y", Leaf)>>),
                          Call("edges", "Cost", <<Edge1("m", "n", "y", 1), Edge1("m", "n", "y", 1)>>)>>,
             finalize |-> <<Call("cells", "Cost", <<Cell(In("y", "q"), "1")>>),
                            Call("cells", "Size", <<Cell(Of("n"), "5")>>)>>],
   weights |-> [schema |-> <<Call("edges", "Size", <<Edge1("m", "n", "x", 1), Edge1("m", "n", "x", -1)>>)>>],
   words |-> [finalize |-> <<Call("elements", "Size", <<El("m", "y", Leaf)>>),
                             Call("cells", "Size", <<Cell(Of("y"), "many")>>)>>],
   add |-> [finalize |-> <<Call("elements", "Size", <<El("m", "y", Leaf)>>),
                           Call("cells", "Size", <<Cell(Of("y"), "5")>>)>>],
   lost |-> [finalize |-> <<Call("cells", "nowhere", <<Cell(Of("x"), "1")>>)>>],
   astray |-> [init |-> <<ReadCall("nowhere", Of("x"))>>],
   unshared |-> [schema |-> <<Call("dimElements", "nowhere", <<El("nowhere", "x", Leaf)>>)>>],
   empty |-> [schema |-> <<Call("dimElements", "m", <<El("m", "", Leaf)>>)>>],
   clash |-> [schema |-> <<Call("dimElements", "m", <<El("m", "y", Leaf)>>)>>],
   chatty |-> [init |-> <<[op |-> "log"], [op |-> "log"], [op |-> "log"]>>],
   greedy |-> [init |-> <<Call("cells", "Size", [i \in 1..7 |-> Cell(Of("x"), "1")])>>],
   null |-> [init |-> <<Call("cells", "Size", <<Cell(Of("null"), "1")>>)>>],
   loop |-> [rows |-> <<Call("cells", "Size", <<Cell(Of("x"), "5")>>), [op |-> "loop"]>>],
   slow |-> [rows |-> <<Call("cells", "Size", <<Cell(Of("x"), "5")>>)>>],
   panic |-> [rows |-> <<[op |-> "panic"]>>],
   throw |-> [rows |-> <<Call("cells", "Size", <<Cell(Of("x"), "5")>>), [op |-> "throw"]>>]]

MCFeeds == {<<[m |-> "x", value |-> "0"], [m |-> "y", value |-> "5"]>>, <<>>}

Feed == [kind |-> "command", program |-> "p", args |-> <<>>, format |-> "csv", jsonPath |-> {},
         timeout |-> 30, workingDir |-> {}]
Flow(source, cube, inputs) ==
  [source |-> source, owner |-> {"bob"}, defaultCube |-> cube, inputs |-> inputs]

FlowOf(source) ==
  CASE source = "load" -> Flow(source, {"Size"}, <<Global("feed")>>)
    [] OTHER -> Flow(source, {}, <<>>)

LoadTest ==
  [flow |-> "load", input |-> {}, inputs |-> ("feed" :> <<[m |-> "x", value |-> "0"], [m |-> "y", value |-> "5"]>>),
   cube |-> {}, params |-> NoFn,
   assertions |-> <<[coord |-> Of("x"), value |-> "0"], [coord |-> Of("y") @@ In("y", "q"), value |-> "5"]>>]

RunAutomation ==
  [flows |-> [s \in DOMAIN MCScripts |-> FlowOf(s)],
   flowTests |-> ("t" :> LoadTest),
   connections |-> ("feed" :> Feed),
   jobs |-> ("job" :> [steps |-> <<"spread">>, enabled |-> TRUE, every |-> 1])]

(* The episodes of runs.                                                     *)
Rights ==
  [ann |-> {}, eve |-> {RunFlows, WriteCube("Size")}, dan |-> {RunFlows, ReadCube("Cost")},
   bob |-> {RunFlows, ReadConnections, EditLibrary} \cup UNION {{ReadCube(c), WriteCube(c), EditCube(c)} : c \in {"Cost", "Size"}}]

Denied == [u \in DOMAIN Rights |-> IF u = "dan" THEN {"q"} ELSE {}]

By(user, flow) == [how |-> "run", user |-> user, flow |-> flow, body |-> NoBody]
ByHand(user, flow, body) == [By(user, flow) EXCEPT !.body = body]
Timer(flow) == [how |-> "timer", flow |-> flow]
Import(user, rows, columns) == [how |-> "import", user |-> user, rows |-> rows, columns |-> columns]
Nothing == [how |-> "nothing"]

Write(cube, coord, value) == [op |-> "write", cube |-> cube, coord |-> coord, value |-> value]
Add(cube, el) == [op |-> "add", cube |-> cube, el |-> el]
Grant(user, need) == [op |-> "grant", user |-> user, need |-> need]
Mask(user, member) == [op |-> "mask", user |-> user, member |-> member]
DropFeed == [op |-> "drop"]

Rows == <<[item |-> "y", amount |-> "5"], [item |-> "x", amount |-> ""]>>
Inline == [NoBody EXCEPT !.input = {<<[m |-> "x", value |-> "5"]>>}]
Overriding == [NoBody EXCEPT !.inputs = ("feed" :> <<[m |-> "x", value |-> "5"]>>)]
Connected == [NoBody EXCEPT !.connection = {"feed"}]

Casts ==
  {[one |-> By("bob", "load"), other |-> Nothing, edits |-> {DropFeed, Write("Size", Of("x"), "5")}],
   [one |-> ByHand("bob", "load", Overriding), other |-> Nothing, edits |-> {}],
   [one |-> ByHand("eve", "slow", Inline), other |-> Nothing, edits |-> {}],
   [one |-> ByHand("bob", "slow", Connected), other |-> Nothing, edits |-> {Grant("bob", ReadConnections)}],
   [one |-> Timer("spread"), other |-> By("bob", "half"), edits |-> {}],
   [one |-> By("bob", "spread"), other |-> Nothing,
    edits |-> {Grant("bob", EditLibrary), Mask("bob", "y"), Add("Size", El("m", "y", Consolidated))}],
   [one |-> By("bob", "copy"), other |-> Nothing,
    edits |-> {Write("Cost", In("x", "q"), "5"), Mask("bob", "x"), Grant("bob", ReadCube("Cost"))}],
   [one |-> By("dan", "copy"), other |-> Nothing, edits |-> {Write("Cost", In("x", "q"), "5"), Mask("dan", "q")}],
   [one |-> By("ann", "members"), other |-> Nothing, edits |-> {Add("Cost", El("m", "z", Leaf))}],
   [one |-> By("bob", "members"), other |-> By("bob", "lost"), edits |-> {}],
   [one |-> By("bob", "half"), other |-> Nothing,
    edits |-> {Add("Cost", El("m", "z", Consolidated)), Add("Cost", El("m", "z", Leaf)), Mask("bob", "x")}],
   [one |-> By("bob", "weights"), other |-> By("bob", "unshared"), edits |-> {}],
   [one |-> By("ann", "words"), other |-> By("eve", "add"), edits |-> {Grant("eve", EditCube("Size"))}],
   [one |-> Nothing, other |-> By("eve", "add"), edits |-> {Grant("eve", EditCube("Size")), Mask("eve", "y")}],
   [one |-> By("ann", "empty"), other |-> By("ann", "astray"), edits |-> {}],
   [one |-> By("bob", "clash"), other |-> Nothing, edits |-> {Add("Cost", El("m", "y", Consolidated))}],
   [one |-> By("bob", "chatty"), other |-> By("bob", "greedy"), edits |-> {}],
   [one |-> By("bob", "null"), other |-> By("ann", "throw"), edits |-> {}],
   [one |-> By("bob", "loop"), other |-> By("bob", "slow"), edits |-> {Write("Size", Of("x"), "1")}],
   [one |-> By("bob", "panic"), other |-> Nothing, edits |-> {}],
   [one |-> Import("bob", Rows, [item |-> "m"]), other |-> Nothing, edits |-> {Mask("bob", "y")}],
   [one |-> Import("ann", Rows, NoFn), other |-> Nothing, edits |-> {}]}

Begin(c, part) ==
  CASE part.how = "run" -> RunFlow(c, part.user, part.flow, part.body)
    [] part.how = "timer" -> RunScheduled(c, part.flow)
    [] part.how = "import" -> ImportCsv(c, part.user, "Cost", part.rows, part.columns, "amount", [k |-> "q"])
    [] OTHER -> FALSE

Do(edit) ==
  CASE edit.op = "write" -> WriteBatch(edit.cube, edit.coord, edit.value) /\ UNCHANGED docVars
    [] edit.op = "add" -> DefineElement(edit.cube, edit.el) /\ UNCHANGED docVars
    [] edit.op = "grant" -> ChangeGrants(edit.user, edit.need) /\ UNCHANGED docVars
    [] edit.op = "mask" -> ChangeMask(edit.user, edit.member) /\ UNCHANGED docVars
    [] OTHER -> DeleteConnection("feed") /\ writer' = "ann" /\ UNCHANGED flowVars

RunsNext ==
  \/ (Begin("one", episode.one) \/ Begin("other", episode.other)) /\ UNCHANGED docVars
  \/ \E c \in Requests : (RunStep(c) \/ TimeOut(c)) /\ UNCHANGED docVars
  \/ \E edit \in episode.edits : Do(edit)

(* The episode of edits to the automation model.                             *)
Command == Connection(Feed)
Http == Connection([kind |-> "http", url |-> "h", headers |-> <<"a">>,
                    auth |-> {[kind |-> "basic", secret |-> "s"]}, format |-> "json",
                    jsonPath |-> {"p"}, timeout |-> 5])
Sql == [Flat EXCEPT !.kind = "sql", !.host = "h", !.database = "d", !.query = "q", !.engine = "mariadb",
                    !.passwordSecret = {"s"}, !.sslMode = "disable"]
Bodies == {Command, [Command EXCEPT !.workingDir = {"/.."}, !.timeout = 0], Http,
           [Http EXCEPT !.format = "xml"], Sql, [Sql EXCEPT !.host = "elsewhere"]}

Draft(owner, inputs) == [source |-> "load", owner |-> owner, defaultCube |-> {}, inputs |-> inputs]
Input(scope, connection) == [name |-> "feed", scope |-> scope, connection |-> connection]
Drafts == {Draft({}, <<Input("global", {})>>), Draft({"eve"}, <<>>), Draft({}, <<Input("local", {})>>)}
          \cup {Draft({}, <<Input("local", {dto})>>) : dto \in {Sql, Command}}

Again(user) == {FlowDto(automation.flows[n], user \in Admins) : n \in DOMAIN automation.flows}
ConnectionsAgain(user) == {ToDto(automation.connections[n], user \in Admins) : n \in DOMAIN automation.connections}

DocsNext ==
  /\ UNCHANGED flowVars
  /\ \/ Reopen /\ writer' = ""
     \/ \E user \in {"ann", "bob"} :
          /\ \/ \E draft \in Drafts \cup Again(user) : PutFlow(user, "f", draft)
             \/ \E dto \in Bodies \cup ConnectionsAgain(user) : PutConnection("feed", dto)
             \/ DeleteFlow("f") \/ DeleteConnection("feed")
             \/ PutFlowTest("t", [LoadTest EXCEPT !.flow = "f"]) \/ DeleteFlowTest("t")
             \/ PutJob("job", [steps |-> <<"f">>, enabled |-> FALSE, every |-> 5]) \/ DeleteJob("job")
             \/ PutSecret("s") \/ DeleteSecret("s")
          /\ writer' = user

(* The episodes of boots.  Co and B? carry automation of the same names; B?  *)
(* and !B have one slug.                                                     *)
MCSpelling == ("B?" :> <<"B", "?">>) @@ ("!B" :> <<"!", "B">>) @@ ("Co" :> <<"C", "o">>)
              @@ ("c-!o" :> <<"c", "-", "!", "o">>)
MCLowerOf == ("B" :> "b") @@ ("C" :> "c")
FolderB == <<"B", "?">>
MCFolderOrder ==
  <<<<".", "m", "-", "b">>, <<".", "m", "-", "c", "o">>, FolderB, <<"C", "o">>, <<"b">>, <<"c", "-", "o">>, <<"c", "o">>>>

OldFlow(source) == [Flow(source, {}, <<>>) EXCEPT !.owner = {}]
Legacy(source) ==
  [flows |-> "f" :> OldFlow(source), flowTests |-> "t" :> [LoadTest EXCEPT !.flow = "f"],
   connections |-> "feed" :> [Feed EXCEPT !.program = source],
   jobs |-> "job" :> [steps |-> <<"f">>, enabled |-> TRUE, every |-> 1]]

Old(name, data, legacy) == [Cube(name, data) EXCEPT !.legacy = legacy]
OldCo == Old("Co", "1", Legacy("load"))
OldB == Old("B?", "2", Legacy("slow"))
Directories ==
  {<<>>,
   (<<"C", "o">> :> OldCo) @@ (FolderB :> OldB),
   (<<"C", "o">> :> OldCo) @@ (<<"b">> :> OldB) @@ (FolderB :> Old("!B", "3", NoObjects)),
   (<<"c", "o">> :> [OldCo EXCEPT !.shared = TRUE]) @@ (<<"c", "-", "o">> :> Old("c-!o", "3", Legacy("slow"))),
   (<<"b">> :> OldB) @@ (<<".", "m", "-", "b">> :> Old("B?", "3", NoObjects))}

BootsNext ==
  /\ \/ BootStep \/ Crash
     \/ \E c \in {"c-!o", "Co", "!B"} : CreateCube(c)
     \/ \E c \in {"Co", "B?"} : CheckpointCube(c)
     \/ DefineFlow("g", OldFlow("g"))
  /\ UNCHANGED <<flowVars, docVars>>

Docs == [one |-> Nothing, other |-> Nothing, edits |-> {"docs"}]
Boots == [one |-> Nothing, other |-> Nothing, edits |-> {"boots"}]

Init ==
  /\ cubes = InitialCubes /\ shared = InitialShared
  /\ rights = Rights /\ denied = Denied
  /\ runs = [c \in Requests |-> Idle]
  /\ faults = 0 /\ edits = 0
  /\ episode \in Casts \cup {Docs, Boots}
  /\ DocInit(IF episode = Docs THEN NoObjects ELSE RunAutomation)
  /\ IF episode = Boots THEN \E folders \in Directories : DirInit(folders)
     ELSE DirInit(<<>>) /\ ~caseless

vars == <<flowVars, docVars, dirVars, episode>>
Next ==
  /\ UNCHANGED episode
  /\ CASE episode = Docs -> DocsNext /\ UNCHANGED dirVars
       [] episode = Boots -> BootsNext
       [] OTHER -> RunsNext /\ UNCHANGED dirVars
Spec == Init /\ [][Next]_vars
             /\ \A c \in Requests : WF_vars((RunStep(c) \/ TimeOut(c)) /\ UNCHANGED <<docVars, dirVars, episode>>)

=============================================================================
