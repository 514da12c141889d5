----------------------------- MODULE MCScheduler -----------------------------
(***************************************************************************)
(* The server as a process.  In the first episode two jobs of one step run *)
(* over a ledger that keeps one run; in the second, a connector runs a     *)
(* program or fetches a page.                                              *)
(***************************************************************************)
EXTENDS Scheduler, Connector

VARIABLE episode

(* Programs that end and programs that do not,  *)
(* with more output than a pipe holds or the caller keeps, and with workers. *)
Says(n) == [out |-> n, err |-> 0]
Scalar(text) == [kind |-> "scalar", text |-> text]
Object(fields) == [kind |-> "object", fields |-> fields, text |-> "{}"]
Array(items) == [kind |-> "array", items |-> items, text |-> "[]"]
Json(root, path) == [kind |-> "json", root |-> root, path |-> path]
CsvRows == [kind |-> "csv", rows |-> <<[item |-> "y"]>>]
TwoRecords == Array(<<Object([a |-> Scalar("1"), b |-> [kind |-> "null"]]), Object([c |-> Array(<<>>)])>>)

Single == [child |-> Says(2), worker |-> Says(0), forks |-> "no", inherits |-> FALSE,
           status |-> 0, ends |-> {"child", "worker"}, text |-> CsvRows]
Forking(how, inherits, ends) ==
  [Single EXCEPT !.child = Says(1), !.worker = Says(IF inherits THEN 2 ELSE 0), !.forks = how,
                 !.inherits = inherits, !.ends = ends]

Commands ==
  {Single, [Single EXCEPT !.child = Says(3)], [Single EXCEPT !.child = Says(4)], [Single EXCEPT !.ends = {}],
   [Single EXCEPT !.child = [out |-> 1, err |-> 3], !.status = 1],
   [Single EXCEPT !.child = Says(0), !.text = [kind |-> "blank"]],
   [Single EXCEPT !.child = Says(1), !.text = [kind |-> "binary"]]}
  \cup {Forking(how, inherits, ends) : how \in {"group", "detached"}, inherits \in BOOLEAN,
                                       ends \in {{"child"}, {"child", "worker"}}}

Page == [body |-> 3, fails |-> FALSE, status |-> 200, text |-> Json(TwoRecords, <<>>)]
Pages ==
  {Page, [Page EXCEPT !.fails = TRUE], [Page EXCEPT !.status = 301], [Page EXCEPT !.status = 404],
   [Page EXCEPT !.body = 5],
   [Page EXCEPT !.text = Json(Object([list |-> TwoRecords]), <<"list">>)],
   [Page EXCEPT !.text = Json(Object([list |-> TwoRecords]), <<"none">>)],
   [Page EXCEPT !.text = Json(TwoRecords, <<"list">>)], [Page EXCEPT !.text = Json(Scalar("1"), <<>>)],
   [Page EXCEPT !.text = Json(Array(<<Scalar("1")>>), <<>>)],
   [Page EXCEPT !.text = Json(Array([i \in 1..4 |-> Object(<<>>)]), <<>>)]}

ASSUME ProgramsAssumption == \A program \in Commands : IsProgram(program)

MCInit == episode \in {"jobs", "connectors"} /\ Init /\ CommandInit

mcVars == <<vars, commandVars, episode>>
MCNext ==
  /\ UNCHANGED episode
  /\ \/ episode = "jobs" /\ Next /\ UNCHANGED commandVars
     \/ episode = "connectors" /\ CommandNext(Commands, Pages) /\ UNCHANGED vars

MCSpec == MCInit /\ [][MCNext]_mcVars /\ Fairness /\ CommandFairness

=============================================================================
