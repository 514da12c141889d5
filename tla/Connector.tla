------------------------------ MODULE Connector ------------------------------
(***************************************************************************)
(* The command and HTTP connectors (epiphany-connect/src/lib.rs, http.rs).  *)
(* A command runs as a child process that may fork a worker; two detached   *)
(* threads drain its pipes while the caller polls for its exit, collects    *)
(* what the threads read, and past the deadline kills the process group.    *)
(* An HTTP fetch is one call with a cap on the body.  Output is counted in  *)
(* bytes; what it parses to is part of the program.  Unix processes only:   *)
(* on Windows the tree is ended by taskkill.                                *)
(***************************************************************************)
EXTENDS Naturals, Sequences, FiniteSetsExt

CONSTANTS
  PipeSize,            \* what a pipe holds before its writer waits
  OutputCap,           \* what is kept of a standard output or a response body
  ErrorCap,            \* what is kept of a standard error
  MaxRecords,          \* what a JSON array may hold
  MaxConnectorFaults   \* bound on the failures of the system's calls

ASSUME CapAssumption == OutputCap \in Nat /\ ErrorCap \in Nat

VARIABLES
  command,          \* the program that runs
  processes,        \* its processes: how each stands, what each has yet to write
  pipes,            \* the bytes in each pipe
  readers,          \* the two threads: what each has kept and read, whether it is done
  late,              \* whether the deadline has passed
  caller,           \* where the caller stands and what it answers
  connectorFaults

commandVars == <<command, processes, pipes, readers, late, caller, connectorFaults>>

Streams == {"out", "err"}
CapOf(s) == IF s = "out" THEN OutputCap ELSE ErrorCap
NothingKept == [kept |-> 0, read |-> 0, sent |-> FALSE, failed |-> FALSE]
Resting == [pc |-> "resting", heard |-> {}, answer |-> "none", rows |-> <<>>, signalled |-> FALSE]

CommandInit ==
  /\ command = [none |-> TRUE] /\ late = FALSE /\ connectorFaults = 0
  /\ processes = [p \in {"child", "worker"} |-> [state |-> "none", left |-> [s \in Streams |-> 0]]]
  /\ pipes = [s \in Streams |-> 0] /\ readers = [s \in Streams |-> NothingKept]
  /\ caller = Resting

Faulting == connectorFaults < MaxConnectorFaults /\ connectorFaults' = connectorFaults + 1
Goes(pc) == caller' = [caller EXCEPT !.pc = pc]
AnswersWith(answer) == caller' = [caller EXCEPT !.pc = "answered", !.answer = answer]

(* What an output parses to: rows, or a refusal.  A JSON value is an object, *)
(* an array, null or a scalar with its text.                                 *)
Refuse == [rows |-> <<>>, bad |-> TRUE]
Parses(rows) == [rows |-> rows, bad |-> FALSE]
JsonScalar(value) == IF value.kind = "null" THEN "" ELSE value.text
JsonRow(object) == [key \in DOMAIN object.fields |-> JsonScalar(object.fields[key])]

Navigated(root, path) ==
  LET step[i \in 0..Len(path)] ==
        IF i = 0 THEN {root}
        ELSE {node.fields[path[i]] :
                node \in {n \in step[i - 1] : n.kind = "object" /\ path[i] \in DOMAIN n.fields}}
  IN step[Len(path)]

ParseJson(root, path) ==
  LET found == {n \in Navigated(root, path) : n.kind = "array"}
      records == (CHOOSE n \in found : TRUE).items
  IN IF found # {} /\ Len(records) <= MaxRecords /\ \A i \in DOMAIN records : records[i].kind = "object"
     THEN Parses([i \in DOMAIN records |-> JsonRow(records[i])])
     ELSE Refuse

ParseOutput(text) ==
  CASE text.kind = "binary" -> Refuse
    [] text.kind = "blank" -> Parses(<<>>)
    [] text.kind = "csv" -> Parses(text.rows)
    [] OTHER -> ParseJson(text.root, text.path)

(* A text that was cut short is not the text its program wrote.              *)
CutShort == [kind |-> "csv", rows |-> <<[cut |-> "short"]>>]

(***************************************************************************)
(* The child and its worker, as the system runs them.                      *)
(***************************************************************************)
\* A worker that is not forked, or that inherited no pipe, writes to none.  A
\* worker writes nothing to the standard error: where that pipe's reader fails,
\* the write would end it, which the status of the child does not tell.
IsProgram(p) ==
  /\ p.child \in [Streams -> Nat] /\ p.worker \in [Streams -> Nat]
  /\ p.forks \in {"no", "group", "detached"} /\ p.inherits \in BOOLEAN
  /\ p.forks = "no" \/ ~p.inherits => p.worker["out"] = 0
  /\ p.worker["err"] = 0

Running(p) == processes[p].state = "running"
HoldsPipe(p) == Running(p) /\ (p = "child" \/ command.inherits)
Ended(all, p) == [all EXCEPT ![p].state = IF p = "child" THEN "zombie" ELSE "gone"]
Broken(s) == readers[s].failed

Spawn(program) ==
  /\ caller.pc = "resting"
  /\ command' = program
  /\ \/ /\ Goes("polling")
        /\ processes' = [processes EXCEPT !["child"] = [state |-> "running", left |-> program.child]]
        /\ UNCHANGED connectorFaults
     \/ Faulting /\ AnswersWith("spawn") /\ UNCHANGED processes
  /\ UNCHANGED <<pipes, readers, late>>

Forks ==
  /\ Running("child") /\ command.forks # "no" /\ processes["worker"].state = "none"
  /\ processes' = [processes EXCEPT !["worker"] = [state |-> "running", left |-> command.worker]]
  /\ UNCHANGED <<command, pipes, readers, late, caller, connectorFaults>>

WritesByte(p, s) ==
  /\ HoldsPipe(p) /\ processes[p].left[s] > 0
  /\ IF Broken(s) THEN processes' = Ended(processes, p) /\ UNCHANGED pipes
     ELSE /\ pipes[s] < PipeSize
          /\ pipes' = [pipes EXCEPT ![s] = @ + 1]
          /\ processes' = [processes EXCEPT ![p].left[s] = @ - 1]
  /\ UNCHANGED <<command, readers, late, caller, connectorFaults>>

Exits(p) ==
  /\ Running(p) /\ p \in command.ends /\ \A s \in Streams : processes[p].left[s] = 0
  /\ p = "child" /\ command.forks # "no" => processes["worker"].state # "none"
  /\ processes' = Ended(processes, p)
  /\ UNCHANGED <<command, pipes, readers, late, caller, connectorFaults>>

(* A child that was ended by a signal has not succeeded.                     *)
Succeeded == command.status = 0 /\ \A s \in Streams : processes["child"].left[s] = 0

(***************************************************************************)
(* The readers.  Past the cap a reader still reads, and drops what it read. *)
(***************************************************************************)
\* Weakened: a reader stops at the cap.
ReadsBelowCap(s) == pipes[s] > 0 /\ readers[s].kept < CapOf(s)
ReadsAt(s) == pipes[s] > 0

ReaderReads(s) ==
  /\ ~readers[s].sent /\ ReadsAt(s)
  /\ \E n \in 1..pipes[s] :
       /\ pipes' = [pipes EXCEPT ![s] = @ - n]
       /\ readers' = [readers EXCEPT ![s].read = @ + n, ![s].kept = Min({@ + n, CapOf(s)})]
  /\ UNCHANGED <<command, processes, late, caller, connectorFaults>>

ReaderEnds(s) ==
  /\ ~readers[s].sent /\ caller.pc # "resting"
  /\ \/ /\ pipes[s] = 0 /\ ~\E p \in DOMAIN processes : HoldsPipe(p)
        /\ processes["child"].state # "none"
        /\ readers' = [readers EXCEPT ![s].sent = TRUE] /\ UNCHANGED connectorFaults
     \/ Faulting /\ Running("child") /\ readers' = [readers EXCEPT ![s].sent = TRUE, ![s].failed = TRUE]
  /\ UNCHANGED <<command, processes, pipes, late, caller>>

Overflowed(s) == readers[s].read > CapOf(s)

(***************************************************************************)
(* The caller.                                                             *)
(***************************************************************************)
Deadline ==
  /\ caller.pc \in {"polling", "out", "err"} /\ ~late /\ late' = TRUE
  /\ UNCHANGED <<command, processes, pipes, readers, caller, connectorFaults>>

Reaped(all) == [all EXCEPT !["child"].state = IF @ = "none" THEN @ ELSE "reaped"]

\* Weakened: the poll takes no notice of the deadline.
PollSeesNoTime(child, isLate) == IF child = "zombie" THEN "out" ELSE "polling"

PollSees(child, isLate) ==
  CASE child = "zombie" -> "out"
    [] child = "running" /\ isLate -> "timeout"
    [] OTHER -> "polling"

Poll ==
  /\ caller.pc = "polling"
  /\ \/ /\ PollSees(processes["child"].state, late) # "polling"
        /\ Goes(PollSees(processes["child"].state, late))
        /\ processes' = IF processes["child"].state = "zombie" THEN Reaped(processes) ELSE processes
        /\ UNCHANGED connectorFaults
     \/ Faulting /\ Goes("lost") /\ UNCHANGED processes
  /\ UNCHANGED <<command, pipes, readers, late>>

(* A wait that began before the deadline returns what came meanwhile; one    *)
(* that begins after it hears nothing.  Both readers are asked.              *)
Receive(s) ==
  /\ caller.pc = s
  /\ \E heard \in (IF readers[s].sent THEN {{s}} ELSE {}) \cup (IF late THEN {{}} ELSE {}) :
       caller' = [caller EXCEPT !.heard = @ \cup heard, !.pc = IF s = "out" THEN "err" ELSE "judge"]
  /\ UNCHANGED <<command, processes, pipes, readers, late, connectorFaults>>

WrittenBy(program) ==
  program.child["out"] + program.worker["out"]
Parsed == ParseOutput(IF readers["out"].kept = WrittenBy(command) THEN command.text ELSE CutShort)

\* Weakened: the cap is forgotten.
VerdictOfStatus(out) ==
  CASE ~Succeeded -> "non-zero exit"
    [] out.bad -> "bad output"
    [] OTHER -> "rows"

Verdict(out) ==
  CASE Overflowed("out") -> "too large"
    [] ~Succeeded -> "non-zero exit"
    [] out.bad -> "bad output"
    [] OTHER -> "rows"

Judge ==
  /\ caller.pc = "judge"
  /\ IF caller.heard # Streams THEN Goes("timeout")
     ELSE LET verdict == Verdict(Parsed)
          IN caller' = [caller EXCEPT !.pc = "answered", !.answer = verdict,
                                      !.rows = IF verdict = "rows" THEN Parsed.rows ELSE <<>>]
  /\ UNCHANGED <<command, processes, pipes, readers, late, connectorFaults>>

(* Kill the group through the kill utility, then the child, then reap it     *)
(* within a bound.                                                           *)
\* Weakened: only the child is signalled.
JustTheChild(p) == p = "child"
InGroup(p) == p = "child" \/ command.forks = "group"

Signalled(all) ==
  [p \in DOMAIN all |-> IF InGroup(p) /\ all[p].state = "running" THEN Ended(all, p)[p] ELSE all[p]]

KillsNext == IF caller.pc = "lost" THEN "kill lost" ELSE "kill"

KillTree ==
  /\ caller.pc \in {"timeout", "lost"}
  /\ \/ /\ processes' = Signalled(processes) /\ UNCHANGED connectorFaults
        /\ caller' = [caller EXCEPT !.signalled = TRUE, !.pc = KillsNext]
     \/ Faulting /\ Goes(KillsNext) /\ UNCHANGED processes
  /\ UNCHANGED <<command, pipes, readers, late>>

KillChild ==
  /\ caller.pc \in {"kill", "kill lost"}
  /\ processes' = IF Running("child") THEN Ended(processes, "child") ELSE processes
  /\ Goes(IF caller.pc = "kill" THEN "reap" ELSE "reap lost")
  /\ UNCHANGED <<command, pipes, readers, late, connectorFaults>>

Reap ==
  /\ caller.pc \in {"reap", "reap lost"}
  /\ processes' \in {processes, Reaped(processes)}
  /\ AnswersWith(IF caller.pc = "reap" THEN "timeout" ELSE "spawn")
  /\ UNCHANGED <<command, pipes, readers, late, connectorFaults>>

(***************************************************************************)
(* An HTTP fetch: only a success of the configured host is parsed, and only *)
(* if no more than the cap came.                                            *)
(***************************************************************************)
TakenOf(body) == Min({body, OutputCap + 1})

FetchHttp(server) ==
  LET taken == TakenOf(server.body)
      answer ==
        CASE server.fails -> "http"
          [] server.status \notin 200..299 -> "http status"
          [] taken > OutputCap -> "too large"
          [] ParseOutput(server.text).bad -> "bad output"
          [] OTHER -> "rows"
  IN /\ caller.pc = "resting" /\ command' = server
     /\ caller' = [caller EXCEPT !.pc = "answered", !.answer = answer,
                     !.rows = IF answer = "rows" THEN ParseOutput(server.text).rows ELSE <<>>]
     /\ UNCHANGED <<processes, pipes, readers, late, connectorFaults>>

CallerStep == Poll \/ (\E s \in Streams : Receive(s)) \/ Judge \/ KillTree \/ KillChild \/ Reap
ReaderStep(s) == ReaderReads(s) \/ ReaderEnds(s)
TreeStep == Forks \/ (\E p \in DOMAIN processes : Exits(p) \/ \E s \in Streams : WritesByte(p, s))

CommandNext(programs, servers) ==
  \/ \E program \in programs : Spawn(program)
  \/ \E server \in servers : FetchHttp(server)
  \/ CallerStep \/ (\E s \in Streams : ReaderStep(s)) \/ TreeStep \/ Deadline

\* The threads of the server run, and its clock; its programs need not.
CommandFairness ==
  /\ WF_commandVars(CallerStep) /\ WF_commandVars(Deadline)
  /\ \A s \in Streams : WF_commandVars(ReaderStep(s))

(***************************************************************************)
(* Properties.                                                             *)
(***************************************************************************)
(* Rows are handed on only for an output that was read to its end, from      *)
(* every process that held the pipe, of a program that succeeded: never for  *)
(* one that the cap or the deadline cut short (run_command_capped's order of *)
(* checks).  A reader whose read fails ends as if the pipe had ended.        *)
RowsAreTheWholeOutput ==
  caller.answer = "rows" =>
    /\ ~readers["out"].failed => Parses(caller.rows) = ParseOutput(command.text)
    /\ processes["child"].state # "none" => Succeeded /\ processes["child"].state = "reaped"

(* Once a caller has been told of the timeout, and the kill utility could be *)
(* started, nothing of the program runs but a worker that left the group     *)
(* (kill_and_reap, kill_tree).                                               *)
DeadlinesEndTheTree ==
  caller.pc = "answered" /\ caller.signalled =>
    ~Running("child") /\ (Running("worker") => command.forks = "detached")

(* A caller is answered whatever its program does: it may run for ever, wait *)
(* on a full pipe, or leave a worker that keeps a pipe open (the deadline    *)
(* bounds the poll and both waits, and the reaping is bounded).              *)
CallersAreAnswered == (caller.pc # "resting") ~> (caller.pc = "answered")

(* The pipes are drained, past the cap too and after the caller has gone     *)
(* (spawn_reader), so no program waits for ever to write.                    *)
PipesNeverStayFull == []<>(\A s \in Streams : pipes[s] < PipeSize \/ Broken(s))

(* A connector answers with all a program said and leaves no part of it     *)
(* running past its deadline (run_command_capped, kill_tree).               *)
ProgramsAreContained ==
  /\ RowsAreTheWholeOutput
  /\ DeadlinesEndTheTree

(* Neither the caller nor the program waits for the other for ever          *)
(* (run_command_capped and the two threads of spawn_reader).                *)
NobodyIsLeftWaiting ==
  /\ CallersAreAnswered
  /\ PipesNeverStayFull

=============================================================================
