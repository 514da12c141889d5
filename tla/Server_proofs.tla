---------------------------- MODULE Server_proofs ----------------------------
(***************************************************************************)
(* Proofs about the server as a process.  DirectoryLock: one server owns    *)
(* the data directory.  Connector: what a connector answers is what its     *)
(* program wrote, and a deadline ends the program.  Scheduler, for any      *)
(* jobs, retention, interval, number of steps, clock and number of events:  *)
(* what the ledger says of a run is what the run did, and a run it shows as *)
(* active is being executed, after any crash, recovery and compaction; and  *)
(* while no two kicks of a job share a run id, no success is forgotten.     *)
(* ViewCache, for any cubes, rules, readers, commits and budgets: an answer *)
(* is of the request's cubes, no older than its start, and the pools' books *)
(* balance.                                                                 *)
(***************************************************************************)
EXTENDS Scheduler, Connector, DirectoryLock, ViewCache, FiniteSetTheorems, WellFoundedInduction, SequenceTheorems, TLAPS

-----------------------------------------------------------------------------

(***************************************************************************)
(* For any number of servers and operators: no two servers own the         *)
(* directory, and every refusal has a reason.  The inductive invariant says *)
(* what the lock is on each system: on Windows the servers with the handle  *)
(* are those that run, on Unix a server that runs has its file, as long as  *)
(* none started under an operator about to remove it.                       *)
(***************************************************************************)

LockTypeOK ==
  /\ unix \in BOOLEAN /\ lockFile \in BOOLEAN /\ leftOver \in BOOLEAN /\ overtaken \in BOOLEAN
  /\ serverState \in [Servers -> {"down", "up", "refused", "failed", "over"}]

HandlesAreHeld == ~unix => handle = UpNow
FilesAreLocks == unix /\ ~overtaken /\ UpNow # {} => lockFile
NoServerWhileSure == ~overtaken /\ sure # {} => UpNow = {}
AtMostOne == ~overtaken => \A s, t \in UpNow : s = t
FilesOutliveServers == unix /\ lockFile /\ UpNow = {} => leftOver

LockInv ==
  /\ LockTypeOK
  /\ HandlesAreHeld /\ FilesAreLocks /\ NoServerWhileSure /\ AtMostOne /\ FilesOutliveServers

LEMMA LockInitInv == LockInit => LockInv
BY DEF LockInit, LockInv, LockTypeOK, HandlesAreHeld, FilesAreLocks, NoServerWhileSure, AtMostOne,
       FilesOutliveServers, UpNow

\* What an action does to the servers that run.
LEMMA UpAfter ==
  ASSUME LockTypeOK, NEW s \in Servers, NEW state \in {"up", "refused", "failed", "over"}, Becomes(s, state)
  PROVE  /\ LockTypeOK' <=> (unix' \in BOOLEAN /\ lockFile' \in BOOLEAN /\ leftOver' \in BOOLEAN /\ overtaken' \in BOOLEAN)
         /\ UpNow' = IF state = "up" THEN UpNow \cup {s} ELSE UpNow \ {s}
BY DEF LockTypeOK, Becomes, UpNow

LEMMA LockInvInductive == LockInv /\ [LockNext]_lockVars => LockInv'
<1> SUFFICES ASSUME LockInv, [LockNext]_lockVars PROVE LockInv'
  OBVIOUS
<1> USE DEF LockInv, HandlesAreHeld, FilesAreLocks, NoServerWhileSure, AtMostOne, FilesOutliveServers
<1>1. ASSUME NEW s \in Servers, Acquire(s) PROVE LockInv'
  <2>0. serverState[s] = "down" /\ s \notin UpNow
    BY <1>1 DEF Acquire, UpNow
  <2>1. CASE /\ Opens(unix) /\ Becomes(s, "up") /\ lockFile' = TRUE
             /\ handle' = handle \cup (IF unix THEN {} ELSE {s})
             /\ overtaken' = (overtaken \/ sure # {})
    <3>1. UpNow' = UpNow \cup {s} /\ LockTypeOK'
      BY <1>1, <2>1, UpAfter DEF Acquire, LockTypeOK
    <3>2. ~overtaken => UpNow = {}
      BY <2>1 DEF Opens
    <3> QED BY <1>1, <2>1, <3>1, <3>2 DEF Acquire
  <2>2. CASE /\ Becomes(s, "refused") \/ Becomes(s, "failed")
             /\ UNCHANGED <<lockFile, handle, overtaken>>
    <3>1. UpNow' = UpNow /\ LockTypeOK'
      BY <1>1, <2>0, <2>2, UpAfter DEF Acquire, LockTypeOK
    <3> QED BY <1>1, <2>2, <3>1 DEF Acquire
  <2> QED BY <1>1, <2>1, <2>2 DEF Acquire
<1>2. ASSUME NEW s \in Servers, StopCleanly(s) PROVE LockInv'
  <2>1. UpNow' = UpNow \ {s} /\ LockTypeOK' /\ s \in UpNow
    BY <1>2, UpAfter DEF StopCleanly, Removes, LockTypeOK, UpNow
  <2> QED BY <1>2, <2>1 DEF StopCleanly, Removes
<1>3. ASSUME NEW s \in Servers, CrashServer(s) PROVE LockInv'
  <2>1. UpNow' = UpNow \ {s} /\ LockTypeOK'
    BY <1>3, UpAfter DEF CrashServer, LockTypeOK
  <2> QED BY <1>3, <2>1 DEF CrashServer
<1>4. ASSUME NEW o \in Operators, FindNoServer(o) \/ RemoveStaleLock(o) PROVE LockInv'
  BY <1>4 DEF FindNoServer, RemoveStaleLock, LockTypeOK, UpNow
<1>5. CASE UNCHANGED lockVars
  BY <1>5 DEF lockVars, LockTypeOK, UpNow
<1> QED BY <1>1, <1>2, <1>3, <1>4, <1>5 DEF LockNext

\* No two servers own the directory, unless one started while an operator was
\* still about to remove a lock that another had removed (acquire, Drop).
THEOREM OneServer == LockSpec => []OneServerAtATime
<1>1. LockInv => OneServerAtATime
  <2> SUFFICES ASSUME LockInv, ~overtaken PROVE Cardinality(UpNow) <= 1
    BY DEF OneServerAtATime
  <2>1. CASE UpNow = {}
    BY <2>1, FS_EmptySet
  <2>2. CASE UpNow # {}
    <3>1. PICK s : UpNow = {s}
      BY <2>2 DEF LockInv, AtMostOne
    <3> QED BY SMTT(30), <3>1, FS_Singleton
  <2> QED BY <2>1, <2>2
<1> QED BY <1>1, LockInitInv, LockInvInductive, PTL DEF LockSpec

\* A server is refused only by one that runs or, on Unix, by a file that a crash
\* or a failed removal left (acquire_locked_file).
THEOREM Refusals == LockSpec => RefusalsHaveAReason
<1> DEFINE Step == \A s \in Servers : serverState[s] # "refused" /\ serverState'[s] = "refused" =>
                     UpNow # {} \/ (unix /\ leftOver)
<1>1. LockInv /\ [LockNext]_lockVars => [Step]_lockVars
  <2> SUFFICES ASSUME LockInv, LockNext, NEW s \in Servers, serverState[s] # "refused", serverState'[s] = "refused"
               PROVE  UpNow # {} \/ (unix /\ leftOver)
    OBVIOUS
  <2>1. ~Opens(unix)
    BY DEF LockNext, Acquire, StopCleanly, CrashServer, FindNoServer, RemoveStaleLock, Becomes, LockInv, LockTypeOK
  <2> QED BY <2>1 DEF Opens, LockInv, LockTypeOK, HandlesAreHeld, FilesOutliveServers
<1> QED BY <1>1, LockInitInv, LockInvInductive, PTL DEF LockSpec, RefusalsHaveAReason

-----------------------------------------------------------------------------
(* Connectors: the inductive invariant.                                     *)

Output == [Streams -> Nat]

Killing == {"kill", "kill lost", "reap", "reap lost"}
CallerStates == {"resting", "polling", "out", "err", "judge", "timeout", "lost", "answered"} \cup Killing
ChildLeft(s) == processes["child"].left[s]
WorkerLeft(s) == processes["worker"].left[s]
Started == processes["child"].state # "none"
Forked == processes["worker"].state # "none"

ProcessesInv ==
    /\ DOMAIN processes = {"child", "worker"}
    /\ processes["child"] \in [state : {"none", "running", "zombie", "reaped"}, left : Output]
    /\ processes["worker"] \in [state : {"none", "running", "gone"}, left : Output]
    /\ ~Started => ~Forked /\ caller.pc \in {"resting", "answered"}
    /\ Started => IsProgram(command)
    /\ Forked => command.forks # "no" /\ WorkerLeft("err") = 0
    /\ Forked /\ ~command.inherits => WorkerLeft("out") = 0

CallerInv ==
    /\ DOMAIN caller = {"pc", "heard", "answer", "rows", "signalled"} /\ caller.pc \in CallerStates
    /\ caller.heard \subseteq Streams /\ \A s \in caller.heard : readers[s].sent
    /\ caller.signalled \in BOOLEAN
    /\ caller.pc = "resting" => ~Started
    /\ caller.pc \in {"out", "err", "judge"} => processes["child"].state = "reaped"
    /\ caller.signalled => /\ caller.pc \in Killing \cup {"answered"}
                           /\ ~Running("child")
                           /\ Running("worker") => command.forks = "detached"
    /\ caller.answer = "rows" => caller.pc = "answered"

\* No byte is lost between a process and the reader of its pipe.
BytesInv ==
    /\ pipes \in Output
    /\ readers \in [Streams -> [kept : Nat, read : Nat, sent : BOOLEAN, failed : BOOLEAN]]
    /\ readers["out"].kept = Min({readers["out"].read, OutputCap})
    /\ ~Started => readers["out"].read = 0 /\ pipes["out"] = 0
    /\ Started /\ ~Forked => readers["out"].read + pipes["out"] + ChildLeft("out") = command.child["out"]
    /\ Started /\ Forked =>
          readers["out"].read + pipes["out"] + ChildLeft("out") + WorkerLeft("out")
             = command.child["out"] + command.worker["out"]

\* A process that has ended has written all, but for a reader that failed or a
\* signal; what a reader has read to the end of is written to no more.
EndsInv ==
    /\ processes["worker"].state = "gone" =>
          WorkerLeft("out") = 0 \/ readers["out"].failed \/ caller.signalled
    /\ Started /\ ~Running("child") /\ ~Forked /\ command.forks # "no" =>
          ChildLeft("out") > 0 \/ ChildLeft("err") > 0 \/ caller.pc \in Killing \cup {"answered"}
    /\ readers["out"].sent /\ ~readers["out"].failed =>
          Started /\ pipes["out"] = 0 /\ ~HoldsPipe("child") /\ ~HoldsPipe("worker")

ConnectorInv == ProcessesInv /\ CallerInv /\ BytesInv /\ EndsInv /\ RowsAreTheWholeOutput

\* What SMT needs of the least of two numbers.
LEMMA LeastOfTwo ==
  ASSUME NEW a \in Nat, NEW b \in Nat
  PROVE  Min({a, b}) = IF a <= b THEN a ELSE b
<1>1. CASE a <= b
  <2>1. a \in {a, b} /\ \A y \in {a, b} : a =< y
    BY <1>1
  <2>2. \A x \in {a, b} : (\A y \in {a, b} : x =< y) => x = a
    BY <1>1
  <2> QED BY <1>1, <2>1, <2>2 DEF Min
<1>2. CASE ~(a <= b)
  <2>1. b \in {a, b} /\ \A y \in {a, b} : b =< y
    BY <1>2
  <2>2. \A x \in {a, b} : (\A y \in {a, b} : x =< y) => x = b
    BY <1>2
  <2> QED BY <1>2, <2>1, <2>2 DEF Min
<1> QED BY <1>1, <1>2

\* An output parses to rows, or is refused.
LEMMA ParsesOrRefuses ==
  ASSUME NEW text
  PROVE  ParseOutput(text) = Parses(ParseOutput(text).rows) \/ ParseOutput(text).bad
<1>1. \A root, path : ParseJson(root, path) = Refuse \/ \E rows : ParseJson(root, path) = Parses(rows)
  BY DEF ParseJson
<1>2. ParseOutput(text) = Refuse \/ \E rows : ParseOutput(text) = Parses(rows)
  <2>1. CASE text.kind = "binary"
    BY <2>1 DEF ParseOutput
  <2>2. CASE text.kind = "blank"
    BY <2>2 DEF ParseOutput
  <2>3. CASE text.kind = "csv"
    BY <2>3 DEF ParseOutput
  <2>4. CASE text.kind \notin {"binary", "blank", "csv"}
    <3>1. ParseOutput(text) = ParseJson(text.root, text.path)
      BY <2>4 DEF ParseOutput
    <3> QED BY <3>1, <1>1
  <2> QED BY <2>1, <2>2, <2>3, <2>4
<1>3. CASE ParseOutput(text) = Refuse
  BY <1>3 DEF Refuse
<1>4. CASE \E rows : ParseOutput(text) = Parses(rows)
  BY <1>4 DEF Parses
<1> QED BY <1>2, <1>3, <1>4

-----------------------------------------------------------------------------
(* Connectors: the steps.                                                   *)

LEMMA ConnectorStarts == CommandInit => ConnectorInv
<1> SUFFICES ASSUME CommandInit PROVE ConnectorInv
  OBVIOUS
<1>1. ProcessesInv
  BY DEF CommandInit, ProcessesInv, Started, Forked, Output, Resting
<1>2. CallerInv
  BY DEF CommandInit, CallerInv, CallerStates, Started, Resting
<1>3. BytesInv
  <2>1. Min({0, OutputCap}) = 0
    BY LeastOfTwo, CapAssumption
  <2> QED BY <2>1 DEF CommandInit, BytesInv, NothingKept, Started, Output, Streams
<1>4. EndsInv
  BY DEF CommandInit, EndsInv, Started, Forked, Running, HoldsPipe, NothingKept, Streams
<1>5. RowsAreTheWholeOutput
  BY DEF CommandInit, RowsAreTheWholeOutput, Resting
<1> QED BY <1>1, <1>2, <1>3, <1>4, <1>5 DEF ConnectorInv

LEMMA SpawnStep ==
  ASSUME ConnectorInv, NEW program, IsProgram(program), Spawn(program)
  PROVE  ConnectorInv'
<1>1. /\ caller.pc = "resting" /\ command' = program
      /\ UNCHANGED <<pipes, readers, late>> /\ ~Started /\ ~Forked
  BY DEF Spawn, ConnectorInv, CallerInv, ProcessesInv
<1> USE DEF ConnectorInv
<1>2. CASE caller' = [caller EXCEPT !.pc = "polling"]
           /\ processes' = [processes EXCEPT !["child"] = [state |-> "running", left |-> program.child]]
  <2>1. ProcessesInv'
    BY <1>1, <1>2 DEF ProcessesInv, Started, Forked, IsProgram, Output
  <2>2. CallerInv'
    BY <1>1, <1>2 DEF CallerInv, CallerStates, Started, Killing
  <2>3. BytesInv'
    <3>1. program.child["out"] \in Nat
      BY DEF IsProgram, Output, Streams
    <3>2. readers["out"].read = 0 /\ pipes["out"] = 0
      BY <1>1 DEF BytesInv
    <3>3. Started' /\ ~Forked' /\ ChildLeft("out")' = program.child["out"]
      BY <1>1, <1>2 DEF ProcessesInv, Started, Forked, ChildLeft
    <3>4. readers["out"].read + pipes["out"] + ChildLeft("out")' = command'.child["out"]
      BY <1>1, <3>1, <3>2, <3>3
    <3> QED BY <1>1, <3>3, <3>4 DEF BytesInv
  <2>4. EndsInv'
    BY <1>1, <1>2 DEF EndsInv, Started, Forked, ProcessesInv, Running
  <2>5. RowsAreTheWholeOutput'
    BY <1>1, <1>2 DEF RowsAreTheWholeOutput, CallerInv
  <2> QED BY <2>1, <2>2, <2>3, <2>4, <2>5
<1>3. CASE caller' = [caller EXCEPT !.pc = "answered", !.answer = "spawn"] /\ UNCHANGED processes
  <2>1. ProcessesInv'
    BY <1>1, <1>3 DEF ProcessesInv, Started, Forked
  <2>2. CallerInv'
    BY <1>1, <1>3 DEF CallerInv, CallerStates, Started, Killing, Running
  <2>3. BytesInv'
    BY <1>1, <1>3 DEF BytesInv, Started, Forked
  <2>4. EndsInv'
    BY <1>1, <1>3 DEF EndsInv, Started, Forked, Running, ProcessesInv, HoldsPipe
  <2>5. RowsAreTheWholeOutput'
    BY <1>1, <1>3 DEF RowsAreTheWholeOutput
  <2> QED BY <2>1, <2>2, <2>3, <2>4, <2>5
<1> QED BY <1>2, <1>3 DEF Spawn, Goes, AnswersWith

\* What the invariant says of a byte count, a reader and a process.
LEMMA Counts ==
  ASSUME ConnectorInv, NEW s \in Streams
  PROVE  /\ pipes[s] \in Nat /\ readers[s] \in [kept : Nat, read : Nat, sent : BOOLEAN, failed : BOOLEAN]
         /\ ChildLeft(s) \in Nat /\ WorkerLeft(s) \in Nat
         /\ Started => command.child[s] \in Nat /\ command.worker[s] \in Nat
<1>1. pipes[s] \in Nat /\ readers[s] \in [kept : Nat, read : Nat, sent : BOOLEAN, failed : BOOLEAN]
  BY DEF ConnectorInv, BytesInv, Output
<1>2. ChildLeft(s) \in Nat /\ WorkerLeft(s) \in Nat
  BY DEF ConnectorInv, ProcessesInv, Output, ChildLeft, WorkerLeft
<1>3. Started => command.child[s] \in Nat /\ command.worker[s] \in Nat
  BY DEF ConnectorInv, ProcessesInv, IsProgram, Output
<1> QED BY <1>1, <1>2, <1>3

LEMMA ForksStep ==
  ASSUME ConnectorInv, Forks
  PROVE  ConnectorInv'
<1>1. /\ Running("child") /\ command.forks # "no" /\ ~Forked
      /\ processes' = [processes EXCEPT !["worker"] = [state |-> "running", left |-> command.worker]]
      /\ UNCHANGED <<command, pipes, readers, late, caller>>
  BY DEF Forks, Forked
<1>2. /\ processes'["child"] = processes["child"] /\ DOMAIN processes' = {"child", "worker"}
      /\ processes'["worker"] = [state |-> "running", left |-> command.worker]
      /\ Started /\ Started' /\ Forked' /\ IsProgram(command)
  BY <1>1 DEF ConnectorInv, ProcessesInv, Started, Forked, Running
<1>3. ProcessesInv'
  BY <1>1, <1>2 DEF ConnectorInv, ProcessesInv, IsProgram, WorkerLeft, Output
<1>4. CallerInv'
  BY <1>1, <1>2 DEF ConnectorInv, CallerInv, Running
<1>5. BytesInv'
  <2>1. readers["out"].read + pipes["out"] + ChildLeft("out") = command.child["out"]
    BY <1>1, <1>2 DEF ConnectorInv, BytesInv
  <2>2. ChildLeft("out")' = ChildLeft("out") /\ WorkerLeft("out")' = command.worker["out"]
    BY <1>2 DEF ChildLeft, WorkerLeft
  <2>3. "out" \in Streams /\ command.worker["out"] \in Nat /\ command.child["out"] \in Nat
    BY <1>2, Counts DEF Streams
  <2>4. readers["out"].read + pipes["out"] + ChildLeft("out")' + WorkerLeft("out")'
          = command.child["out"] + command.worker["out"]
    BY <2>1, <2>2, <2>3
  <2> QED BY <1>1, <1>2, <2>4 DEF ConnectorInv, BytesInv
<1>6. EndsInv'
  <2>1. Running("child") /\ Running("child")' /\ HoldsPipe("child")
    BY <1>1, <1>2 DEF Running, HoldsPipe
  <2>2. ~(readers["out"].sent /\ ~readers["out"].failed)
    BY <2>1 DEF ConnectorInv, EndsInv
  <2> QED BY <1>1, <1>2, <2>1, <2>2 DEF EndsInv
<1>7. RowsAreTheWholeOutput'
  BY <1>1, <1>2 DEF ConnectorInv, RowsAreTheWholeOutput, Succeeded
<1> QED BY <1>3, <1>4, <1>5, <1>6, <1>7 DEF ConnectorInv

\* Processes end, and nothing else changes: none starts, and what each had yet
\* to write stays as it was.
Quieter(all, later) ==
    /\ DOMAIN later = DOMAIN all
    /\ later["child"] \in [state : {"none", "running", "zombie", "reaped"}, left : Output]
    /\ later["worker"] \in [state : {"none", "running", "gone"}, left : Output]
    /\ \A p \in {"child", "worker"} : /\ later[p].left = all[p].left
                                      /\ later[p].state = "none" <=> all[p].state = "none"
                                      /\ later[p].state = "running" => all[p].state = "running"

LEMMA EndedIsQuieter ==
  ASSUME ConnectorInv, NEW p \in {"child", "worker"}, Running(p)
  PROVE  /\ Quieter(processes, Ended(processes, p))
         /\ Ended(processes, p)["child"].state = IF p = "child" THEN "zombie" ELSE processes["child"].state
         /\ Ended(processes, p)["worker"].state = IF p = "child" THEN processes["worker"].state ELSE "gone"
<1>1. /\ DOMAIN processes = {"child", "worker"} /\ processes[p].state = "running"
      /\ processes["child"] \in [state : {"none", "running", "zombie", "reaped"}, left : Output]
      /\ processes["worker"] \in [state : {"none", "running", "gone"}, left : Output]
  BY DEF ConnectorInv, ProcessesInv, Running
<1>2. CASE p = "child"
  <2>1. Ended(processes, p) = [processes EXCEPT !["child"].state = "zombie"]
    BY <1>2 DEF Ended
  <2> QED BY <1>1, <1>2, <2>1 DEF Quieter
<1>3. CASE p = "worker"
  <2>1. Ended(processes, p) = [processes EXCEPT !["worker"].state = "gone"]
    BY <1>3 DEF Ended
  <2> QED BY <1>1, <1>3, <2>1 DEF Quieter
<1> QED BY <1>2, <1>3

LEMMA QuietKeeps ==
  ASSUME ConnectorInv, Quieter(processes, processes'), UNCHANGED <<command, pipes, readers>>
  PROVE  /\ Started' = Started /\ Forked' = Forked
         /\ \A s \in Streams : ChildLeft(s)' = ChildLeft(s) /\ WorkerLeft(s)' = WorkerLeft(s)
         /\ \A p \in {"child", "worker"} : /\ Running(p)' => Running(p)
                                           /\ HoldsPipe(p)' => HoldsPipe(p)
         /\ Succeeded' = Succeeded
         /\ BytesInv'
<1>1. Started' = Started /\ Forked' = Forked
  BY DEF Quieter, Started, Forked
<1>2. \A s \in Streams : ChildLeft(s)' = ChildLeft(s) /\ WorkerLeft(s)' = WorkerLeft(s)
  BY DEF Quieter, ChildLeft, WorkerLeft
<1>3. \A p \in {"child", "worker"} : (Running(p)' => Running(p)) /\ (HoldsPipe(p)' => HoldsPipe(p))
  BY DEF Quieter, Running, HoldsPipe
<1>4. Succeeded' = Succeeded
  BY <1>2 DEF Succeeded, ChildLeft
<1>5. BytesInv'
  <2>1. ChildLeft("out")' = ChildLeft("out") /\ WorkerLeft("out")' = WorkerLeft("out")
    BY <1>2 DEF Streams
  <2> QED BY <1>1, <2>1 DEF ConnectorInv, BytesInv
<1> QED BY <1>1, <1>2, <1>3, <1>4, <1>5

LEMMA EndedStep ==
  ASSUME ConnectorInv, NEW p \in {"child", "worker"}, Running(p),
         processes' = Ended(processes, p), UNCHANGED <<command, pipes, readers, late, caller>>,
         p = "worker" => WorkerLeft("out") = 0 \/ readers["out"].failed,
         p = "child" /\ ~Forked /\ command.forks # "no" => ChildLeft("out") > 0 \/ ChildLeft("err") > 0
  PROVE  ConnectorInv'
<1>1. Quieter(processes, processes')
  BY EndedIsQuieter
<1>2. /\ Started' = Started /\ Forked' = Forked
      /\ \A s \in Streams : ChildLeft(s)' = ChildLeft(s) /\ WorkerLeft(s)' = WorkerLeft(s)
      /\ \A q \in {"child", "worker"} : (Running(q)' => Running(q)) /\ (HoldsPipe(q)' => HoldsPipe(q))
      /\ Succeeded' = Succeeded /\ BytesInv'
  BY <1>1, QuietKeeps
<1>3. ProcessesInv'
  <2>1. WorkerLeft("err")' = WorkerLeft("err") /\ WorkerLeft("out")' = WorkerLeft("out")
    BY <1>2 DEF Streams
  <2> QED BY <1>1, <1>2, <2>1 DEF ConnectorInv, ProcessesInv, Quieter
<1>4. processes["child"].state = "reaped" => processes'["child"].state = "reaped"
  BY EndedIsQuieter DEF Running
<1>5. CallerInv'
  BY <1>2, <1>4 DEF ConnectorInv, CallerInv
<1>6. EndsInv'
  <2>1. processes'["worker"].state = "gone" =>
            WorkerLeft("out")' = 0 \/ readers'["out"].failed \/ caller'.signalled
    <3>1. WorkerLeft("out")' = WorkerLeft("out")
      BY <1>2 DEF Streams
    <3> QED BY <3>1, EndedIsQuieter DEF ConnectorInv, EndsInv
  <2>2. Started' /\ ~Running("child")' /\ ~Forked' /\ command'.forks # "no" =>
            ChildLeft("out")' > 0 \/ ChildLeft("err")' > 0 \/ caller'.pc \in Killing \cup {"answered"}
    <3>1. ChildLeft("out")' = ChildLeft("out") /\ ChildLeft("err")' = ChildLeft("err")
      BY <1>2 DEF Streams
    <3>2. p # "child" => Running("child")' = Running("child")
      BY EndedIsQuieter DEF Running
    <3> QED BY <1>2, <3>1, <3>2 DEF ConnectorInv, EndsInv
  <2> QED BY <1>2, <2>1, <2>2 DEF ConnectorInv, EndsInv
<1>7. RowsAreTheWholeOutput'
  BY <1>1, <1>2, <1>4 DEF ConnectorInv, RowsAreTheWholeOutput, Quieter
<1> QED BY <1>2, <1>3, <1>5, <1>6, <1>7 DEF ConnectorInv

LEMMA ExitsStep ==
  ASSUME ConnectorInv, NEW p \in DOMAIN processes, Exits(p)
  PROVE  ConnectorInv'
<1>1. p \in {"child", "worker"}
  BY DEF ConnectorInv, ProcessesInv
<1>2. /\ Running(p) /\ \A s \in Streams : processes[p].left[s] = 0
      /\ p = "child" /\ command.forks # "no" => Forked
      /\ processes' = Ended(processes, p) /\ UNCHANGED <<command, pipes, readers, late, caller>>
  BY DEF Exits, Forked
<1>3. p = "worker" => WorkerLeft("out") = 0
  BY <1>2 DEF WorkerLeft, Streams
<1> QED BY <1>1, <1>2, <1>3, EndedStep

LEMMA WritesStep ==
  ASSUME ConnectorInv, NEW p \in DOMAIN processes, NEW s \in Streams, WritesByte(p, s)
  PROVE  ConnectorInv'
<1>1. /\ p \in {"child", "worker"} /\ HoldsPipe(p) /\ Running(p) /\ processes[p].left[s] > 0
      /\ UNCHANGED <<command, readers, late, caller>>
  BY DEF WritesByte, ConnectorInv, ProcessesInv, HoldsPipe
<1>2. CASE processes' = Ended(processes, p) /\ UNCHANGED pipes /\ Broken(s)
  <2>1. p = "worker" => s = "out"
    BY <1>1 DEF ConnectorInv, ProcessesInv, Forked, Running, WorkerLeft, Streams
  <2>2. p = "worker" => readers["out"].failed
    BY <1>2, <2>1 DEF Broken
  <2>3. p = "child" => ChildLeft("out") > 0 \/ ChildLeft("err") > 0
    BY <1>1 DEF ChildLeft, Streams
  <2> QED BY <1>1, <1>2, <2>2, <2>3, EndedStep
<1>3. CASE /\ ~Broken(s) /\ pipes' = [pipes EXCEPT ![s] = @ + 1]
           /\ processes' = [processes EXCEPT ![p].left[s] = @ - 1]
  <2>1. /\ processes[p].left[s] \in Nat /\ processes[p].left[s] - 1 \in Nat
        /\ DOMAIN processes = {"child", "worker"} /\ pipes \in Output
        /\ processes["child"] \in [state : {"none", "running", "zombie", "reaped"}, left : Output]
        /\ processes["worker"] \in [state : {"none", "running", "gone"}, left : Output]
    BY <1>1, Counts DEF ChildLeft, WorkerLeft, ConnectorInv, ProcessesInv, BytesInv
  <2>2. /\ DOMAIN processes' = {"child", "worker"}
        /\ \A q \in {"child", "worker"} : processes'[q].state = processes[q].state
        /\ \A q \in {"child", "worker"}, t \in Streams :
              processes'[q].left[t] = IF q = p /\ t = s THEN processes[q].left[t] - 1 ELSE processes[q].left[t]
        /\ processes'["child"] \in [state : {"none", "running", "zombie", "reaped"}, left : Output]
        /\ processes'["worker"] \in [state : {"none", "running", "gone"}, left : Output]
    BY <1>1, <1>3, <2>1 DEF Output
  <2>3. /\ Started' = Started /\ Forked' = Forked
        /\ \A q \in {"child", "worker"} : Running(q)' = Running(q) /\ HoldsPipe(q)' = HoldsPipe(q)
    BY <1>1, <2>2 DEF Started, Forked, Running, HoldsPipe
  <2>4. ProcessesInv'
    <3>1. processes["worker"].left["err"] = 0 /\ Forked => processes'["worker"].left["err"] = 0
      <4>1. processes["worker"].left["err"] = 0 => ~(p = "worker" /\ s = "err")
        BY <1>1
      <4> QED BY <2>2, <4>1 DEF Streams
    <3>2. Forked /\ ~command.inherits => p # "worker" /\ WorkerLeft("out")' = WorkerLeft("out")
      <4>1. ~command.inherits => p # "worker"
        BY <1>1 DEF HoldsPipe
      <4> QED BY <2>2, <4>1 DEF Streams, WorkerLeft
    <3> QED BY <1>1, <2>2, <2>3, <3>1, <3>2 DEF ConnectorInv, ProcessesInv, WorkerLeft
  <2>5. CallerInv'
    BY <1>1, <2>2, <2>3 DEF ConnectorInv, CallerInv
  <2>6. BytesInv'
    <3>1. pipes' \in Output
      BY <1>3, <2>1 DEF Output
    <3>2. Started /\ (p = "worker" => Forked)
      BY <1>1 DEF ConnectorInv, ProcessesInv, Started, Forked, Running
    <3>3. CASE s = "err"
      <4>1. pipes'["out"] = pipes["out"] /\ ChildLeft("out")' = ChildLeft("out") /\ WorkerLeft("out")' = WorkerLeft("out")
        BY <1>3, <2>1, <2>2, <3>3 DEF ChildLeft, WorkerLeft, Output, Streams
      <4> QED BY <1>1, <2>3, <3>1, <4>1 DEF ConnectorInv, BytesInv
    <3>4. CASE s = "out" /\ p = "child"
      <4>1. pipes'["out"] = pipes["out"] + 1 /\ ChildLeft("out")' = ChildLeft("out") - 1 /\ WorkerLeft("out")' = WorkerLeft("out")
        BY <1>3, <2>1, <2>2, <3>4 DEF ChildLeft, WorkerLeft, Output, Streams
      <4>2. "out" \in Streams
        BY DEF Streams
      <4> QED BY <1>1, <2>3, <3>1, <3>2, <4>1, <4>2, Counts DEF ConnectorInv, BytesInv
    <3>5. CASE s = "out" /\ p = "worker"
      <4>1. pipes'["out"] = pipes["out"] + 1 /\ ChildLeft("out")' = ChildLeft("out") /\ WorkerLeft("out")' = WorkerLeft("out") - 1
        BY <1>3, <2>1, <2>2, <3>5 DEF ChildLeft, WorkerLeft, Output, Streams
      <4>2. "out" \in Streams
        BY DEF Streams
      <4> QED BY <1>1, <2>3, <3>1, <3>2, <3>5, <4>1, <4>2, Counts DEF ConnectorInv, BytesInv
    <3> QED BY <1>1, <3>3, <3>4, <3>5 DEF Streams
  <2>7. EndsInv'
    <3>1. processes'["worker"].state = "gone" => WorkerLeft("out")' = WorkerLeft("out")
      BY <1>1, <2>2 DEF WorkerLeft, Running, Streams
    <3>2. ~Running("child") => ChildLeft("out")' = ChildLeft("out") /\ ChildLeft("err")' = ChildLeft("err")
      BY <1>1, <2>2 DEF ChildLeft, Streams
    <3>3. readers["out"].sent /\ ~readers["out"].failed => FALSE
      BY <1>1 DEF ConnectorInv, EndsInv
    <3> QED BY <1>1, <2>2, <2>3, <3>1, <3>2, <3>3 DEF ConnectorInv, EndsInv
  <2>8. RowsAreTheWholeOutput'
    <3>1. caller.answer = "rows" /\ Started => ~Running("child")
      BY DEF ConnectorInv, RowsAreTheWholeOutput, Started, Running
    <3>2. ~Running("child") => Succeeded' = Succeeded
      BY <1>1, <2>2 DEF Succeeded
    <3> QED BY <1>1, <2>2, <3>1, <3>2 DEF ConnectorInv, RowsAreTheWholeOutput, Started
  <2> QED BY <2>4, <2>5, <2>6, <2>7, <2>8 DEF ConnectorInv
<1> QED BY <1>2, <1>3 DEF WritesByte

LEMMA ReadsStep ==
  ASSUME ConnectorInv, NEW s \in Streams, ReaderReads(s)
  PROVE  ConnectorInv'
<1>1. PICK n \in 1..pipes[s] :
         /\ pipes' = [pipes EXCEPT ![s] = @ - n]
         /\ readers' = [readers EXCEPT ![s].read = @ + n, ![s].kept = Min({@ + n, CapOf(s)})]
  BY DEF ReaderReads
<1>2. ~readers[s].sent /\ UNCHANGED <<command, processes, late, caller>>
  BY DEF ReaderReads
<1>3. /\ pipes[s] \in Nat /\ n \in Nat /\ pipes[s] - n \in Nat /\ pipes \in Output
      /\ readers[s] \in [kept : Nat, read : Nat, sent : BOOLEAN, failed : BOOLEAN]
      /\ readers \in [Streams -> [kept : Nat, read : Nat, sent : BOOLEAN, failed : BOOLEAN]]
  BY Counts DEF ConnectorInv, BytesInv
<1>4. /\ readers'[s].read = readers[s].read + n /\ readers'[s].kept = Min({readers[s].kept + n, CapOf(s)})
      /\ readers'[s].sent = readers[s].sent /\ readers'[s].failed = readers[s].failed
      /\ DOMAIN readers' = Streams /\ \A t \in Streams : t # s => readers'[t] = readers[t]
      /\ DOMAIN readers'[s] = {"kept", "read", "sent", "failed"}
  <2>1. PICK middle : middle = [readers EXCEPT ![s].read = @ + n]
    OBVIOUS
  <2>2. /\ middle[s] = [readers[s] EXCEPT !.read = @ + n] /\ DOMAIN middle = Streams
        /\ \A t \in Streams : t # s => middle[t] = readers[t]
    BY <1>3, <2>1
  <2>3. readers' = [middle EXCEPT ![s].kept = Min({@ + n, CapOf(s)})]
    BY <1>1, <2>1
  <2>4. /\ readers'[s] = [middle[s] EXCEPT !.kept = Min({@ + n, CapOf(s)})] /\ DOMAIN readers' = Streams
        /\ \A t \in Streams : t # s => readers'[t] = middle[t]
    BY <2>2, <2>3
  <2>5. /\ middle[s].read = readers[s].read + n /\ middle[s].kept = readers[s].kept
        /\ middle[s].sent = readers[s].sent /\ middle[s].failed = readers[s].failed
        /\ DOMAIN middle[s] = {"kept", "read", "sent", "failed"}
    BY <1>3, <2>2
  <2>6. /\ readers'[s].read = middle[s].read /\ readers'[s].kept = Min({middle[s].kept + n, CapOf(s)})
        /\ readers'[s].sent = middle[s].sent /\ readers'[s].failed = middle[s].failed
        /\ DOMAIN readers'[s] = {"kept", "read", "sent", "failed"}
    BY <2>4, <2>5
  <2> QED BY <2>2, <2>4, <2>5, <2>6
<1>5. ProcessesInv'
  BY <1>2 DEF ConnectorInv, ProcessesInv, Started, Forked, WorkerLeft
<1>6. CallerInv'
  BY <1>2, <1>4 DEF ConnectorInv, CallerInv, Started, Running
<1>7. readers' \in [Streams -> [kept : Nat, read : Nat, sent : BOOLEAN, failed : BOOLEAN]]
  <2>1. CapOf(s) \in Nat /\ readers[s].kept + n \in Nat
    BY <1>3, CapAssumption DEF CapOf
  <2>2. readers'[s].kept \in Nat /\ readers'[s].read \in Nat
    <3>1. PICK kept, cap : kept = readers[s].kept + n /\ cap = CapOf(s)
      OBVIOUS
    <3>2. Min({kept, cap}) \in Nat
      BY <2>1, <3>1, LeastOfTwo
    <3>3. readers'[s].kept = Min({kept, cap})
      BY <1>4, <3>1
    <3>4. readers'[s].read \in Nat
      BY <1>3, <1>4
    <3> QED BY <3>2, <3>3, <3>4
  <2>3. readers'[s] \in [kept : Nat, read : Nat, sent : BOOLEAN, failed : BOOLEAN]
    <3>1. readers'[s] = [kept |-> readers'[s].kept, read |-> readers'[s].read,
                         sent |-> readers'[s].sent, failed |-> readers'[s].failed]
      BY <1>1, <1>3, <1>4
    <3> QED BY <1>3, <1>4, <2>2, <3>1
  <2> QED BY <1>1, <1>3, <1>4, <2>3
<1>8. BytesInv'
  <2>1. pipes' \in Output
    BY <1>1, <1>3 DEF Output
  <2>2. CASE s = "err"
    <3>1. readers'["out"] = readers["out"] /\ pipes'["out"] = pipes["out"]
      BY <1>1, <1>3, <1>4, <2>2 DEF Streams, Output
    <3> QED BY <1>2, <1>7, <2>1, <3>1 DEF ConnectorInv, BytesInv, Started, Forked, ChildLeft, WorkerLeft
  <2>3. CASE s = "out"
    <3>1. pipes'["out"] = pipes["out"] - n /\ readers'["out"].read = readers["out"].read + n
      BY <1>1, <1>3, <1>4, <2>3 DEF Output
    <3>2. readers'["out"].kept = Min({readers'["out"].read, OutputCap})
      <4>1. readers["out"].kept = Min({readers["out"].read, OutputCap})
        BY DEF ConnectorInv, BytesInv
      <4>2. readers'["out"].kept = Min({readers["out"].kept + n, OutputCap})
        BY <1>4, <2>3 DEF CapOf
      <4>3. readers["out"].read \in Nat /\ readers["out"].kept \in Nat
        BY <1>3, <2>3
      <4>4. readers["out"].kept = IF readers["out"].read <= OutputCap THEN readers["out"].read ELSE OutputCap
        BY <4>1, <4>3, LeastOfTwo, CapAssumption
      <4>5. readers'["out"].kept = IF readers["out"].kept + n <= OutputCap THEN readers["out"].kept + n ELSE OutputCap
        <5>1. readers["out"].kept + n \in Nat
          BY <1>3, <4>3
        <5> QED BY <4>2, <5>1, LeastOfTwo, CapAssumption
      <4>6. readers["out"].read + n \in Nat
        BY <1>3, <4>3
      <4>7. Min({readers["out"].read + n, OutputCap})
              = IF readers["out"].read + n <= OutputCap THEN readers["out"].read + n ELSE OutputCap
        BY <4>6, LeastOfTwo, CapAssumption
      <4> QED BY <1>3, <3>1, <4>3, <4>4, <4>5, <4>7, CapAssumption
    <3>3. readers'["out"].read + pipes'["out"] = readers["out"].read + pipes["out"]
      BY <1>3, <2>3, <3>1
    <3>4. pipes["out"] # 0
      BY <1>3, <2>3
    <3>5. Started' = Started /\ Forked' = Forked
      BY <1>2 DEF Started, Forked
    <3>6. ChildLeft("out")' = ChildLeft("out") /\ WorkerLeft("out")' = WorkerLeft("out")
      BY <1>2 DEF ChildLeft, WorkerLeft
    <3> QED BY <1>2, <1>7, <2>1, <3>2, <3>3, <3>4, <3>5, <3>6 DEF ConnectorInv, BytesInv
  <2> QED BY <2>2, <2>3 DEF Streams
<1>9. EndsInv'
  <2>1. readers'["out"].failed = readers["out"].failed
    BY <1>4 DEF Streams
  <2>2. readers'["out"].sent => readers["out"].sent /\ pipes'["out"] = pipes["out"]
    BY <1>1, <1>2, <1>3, <1>4 DEF Streams, Output
  <2> QED BY <1>2, <2>1, <2>2 DEF ConnectorInv, EndsInv, Started, Forked, Running, HoldsPipe, ChildLeft, WorkerLeft
<1>10. RowsAreTheWholeOutput'
  <2>1. readers'["out"].failed = readers["out"].failed
    BY <1>4 DEF Streams
  <2> QED BY <1>2, <2>1 DEF ConnectorInv, RowsAreTheWholeOutput, Succeeded
<1> QED BY <1>5, <1>6, <1>8, <1>9, <1>10 DEF ConnectorInv

LEMMA ReaderEndsStep ==
  ASSUME ConnectorInv, NEW s \in Streams, ReaderEnds(s)
  PROVE  ConnectorInv'
<1>1. /\ UNCHANGED <<command, processes, pipes, late, caller>>
      /\ readers \in [Streams -> [kept : Nat, read : Nat, sent : BOOLEAN, failed : BOOLEAN]]
  BY DEF ReaderEnds, ConnectorInv, BytesInv
<1>2. PICK after \in [kept : Nat, read : Nat, sent : BOOLEAN, failed : BOOLEAN] :
         /\ readers' = [readers EXCEPT ![s] = after]
         /\ after.kept = readers[s].kept /\ after.read = readers[s].read /\ after.sent
         /\ readers[s].failed => after.failed
         /\ ~after.failed => /\ pipes[s] = 0 /\ ~\E p \in DOMAIN processes : HoldsPipe(p)
                             /\ Started
  <2>1. CASE /\ pipes[s] = 0 /\ ~\E p \in DOMAIN processes : HoldsPipe(p)
             /\ processes["child"].state # "none"
             /\ readers' = [readers EXCEPT ![s].sent = TRUE]
    <3>1. PICK after : after = [readers[s] EXCEPT !.sent = TRUE]
      OBVIOUS
    <3>2. after \in [kept : Nat, read : Nat, sent : BOOLEAN, failed : BOOLEAN] /\ after.sent
      BY <1>1, <3>1
    <3>3. after.kept = readers[s].kept /\ after.read = readers[s].read /\ after.failed = readers[s].failed
      BY <1>1, <3>1
    <3>4. readers' = [readers EXCEPT ![s] = after]
      BY <1>1, <2>1, <3>1
    <3> QED BY <2>1, <3>2, <3>3, <3>4 DEF Started
  <2>2. CASE readers' = [readers EXCEPT ![s].sent = TRUE, ![s].failed = TRUE]
    <3>1. PICK after : after = [readers[s] EXCEPT !.sent = TRUE, !.failed = TRUE]
      OBVIOUS
    <3>2. after \in [kept : Nat, read : Nat, sent : BOOLEAN, failed : BOOLEAN] /\ after.sent /\ after.failed
      BY <1>1, <3>1
    <3>3. after.kept = readers[s].kept /\ after.read = readers[s].read
      BY <1>1, <3>1
    <3>4. readers' = [readers EXCEPT ![s] = after]
      BY <1>1, <2>2, <3>1
    <3> QED BY <3>2, <3>3, <3>4
  <2> QED BY <2>1, <2>2 DEF ReaderEnds
<1>3. /\ readers' \in [Streams -> [kept : Nat, read : Nat, sent : BOOLEAN, failed : BOOLEAN]]
      /\ \A t \in Streams : /\ readers'[t].kept = readers[t].kept /\ readers'[t].read = readers[t].read
                            /\ readers[t].sent => readers'[t].sent
                            /\ readers[t].failed => readers'[t].failed
  BY <1>1, <1>2
<1>4. ProcessesInv'
  BY <1>1 DEF ConnectorInv, ProcessesInv, Started, Forked, WorkerLeft
<1>5. CallerInv'
  BY <1>1, <1>3 DEF ConnectorInv, CallerInv, Started, Running
<1>6. BytesInv'
  <2>1. readers'["out"].kept = readers["out"].kept /\ readers'["out"].read = readers["out"].read
    BY <1>3 DEF Streams
  <2> QED BY <1>1, <1>3, <2>1 DEF ConnectorInv, BytesInv, Started, Forked, ChildLeft, WorkerLeft
<1>7. EndsInv'
  <2>1. readers["out"].failed => readers'["out"].failed
    BY <1>3 DEF Streams
  <2>2. readers'["out"].sent /\ ~readers'["out"].failed =>
           Started /\ pipes["out"] = 0 /\ ~HoldsPipe("child") /\ ~HoldsPipe("worker")
    <3>1. CASE s = "out"
      <4>1. readers'["out"] = after
        BY <1>1, <1>2, <3>1
      <4> QED BY <1>2, <3>1, <4>1 DEF ConnectorInv, ProcessesInv
    <3>2. CASE s # "out"
      <4>1. readers'["out"] = readers["out"]
        BY <1>1, <1>2, <3>2 DEF Streams
      <4> QED BY <4>1 DEF ConnectorInv, EndsInv
    <3> QED BY <3>1, <3>2
  <2> QED BY <1>1, <2>1, <2>2 DEF ConnectorInv, EndsInv, Started, Forked, Running, HoldsPipe, ChildLeft, WorkerLeft
<1>8. RowsAreTheWholeOutput'
  <2>1. readers["out"].failed => readers'["out"].failed
    BY <1>3 DEF Streams
  <2> QED BY <1>1, <2>1 DEF ConnectorInv, RowsAreTheWholeOutput, Succeeded
<1> QED BY <1>4, <1>5, <1>6, <1>7, <1>8 DEF ConnectorInv

\* A step that changes nothing but where the caller stands.
LEMMA CallerMoves ==
  ASSUME ConnectorInv, UNCHANGED <<command, processes, pipes, readers>>, CallerInv', RowsAreTheWholeOutput',
         Started => caller'.pc \in Killing \cup {"answered"} \/ caller.pc \notin Killing \cup {"answered"},
         ~Started => caller'.pc \in {"resting", "answered"},
         caller.signalled => caller'.signalled
  PROVE  ConnectorInv'
<1>1. ProcessesInv'
  BY DEF ConnectorInv, ProcessesInv, Started, Forked, WorkerLeft
<1>2. BytesInv'
  BY DEF ConnectorInv, BytesInv, Started, Forked, ChildLeft, WorkerLeft
<1>3. EndsInv'
  BY DEF ConnectorInv, EndsInv, Started, Forked, Running, HoldsPipe, ChildLeft, WorkerLeft
<1> QED BY <1>1, <1>2, <1>3 DEF ConnectorInv

LEMMA ReceiveStep ==
  ASSUME ConnectorInv, NEW s \in Streams, Receive(s)
  PROVE  ConnectorInv'
<1>1. /\ caller.pc = s /\ UNCHANGED <<command, processes, pipes, readers, late>>
      /\ \E heard \in (IF readers[s].sent THEN {{s}} ELSE {}) \cup (IF late THEN {{}} ELSE {}) :
           caller' = [caller EXCEPT !.heard = @ \cup heard, !.pc = IF s = "out" THEN "err" ELSE "judge"]
  BY DEF Receive
<1>2. PICK heard \in (IF readers[s].sent THEN {{s}} ELSE {}) \cup (IF late THEN {{}} ELSE {}) :
         caller' = [caller EXCEPT !.heard = @ \cup heard, !.pc = IF s = "out" THEN "err" ELSE "judge"]
  BY <1>1
<1>3. heard \subseteq Streams /\ \A t \in heard : readers[t].sent
  BY <1>2
<1>4. /\ caller'.heard = caller.heard \cup heard /\ caller'.pc \in {"err", "judge"}
      /\ caller'.answer = caller.answer /\ caller'.signalled = caller.signalled
      /\ DOMAIN caller' = {"pc", "heard", "answer", "rows", "signalled"}
  BY <1>2 DEF ConnectorInv, CallerInv
<1>5. processes["child"].state = "reaped" /\ Started /\ ~caller.signalled /\ caller.answer # "rows"
  BY <1>1 DEF ConnectorInv, CallerInv, Streams, Started, Killing
<1>6. CallerInv'
  BY <1>1, <1>3, <1>4, <1>5 DEF ConnectorInv, CallerInv, CallerStates, Started, Running
<1>7. RowsAreTheWholeOutput'
  BY <1>4, <1>5 DEF RowsAreTheWholeOutput
<1> QED BY <1>1, <1>4, <1>5, <1>6, <1>7, CallerMoves DEF Streams, Killing

LEMMA DeadlineStep ==
  ASSUME ConnectorInv, Deadline
  PROVE  ConnectorInv'
<1>1. UNCHANGED <<command, processes, pipes, readers, caller>>
  BY DEF Deadline
<1>2. CallerInv'
  BY <1>1 DEF ConnectorInv, CallerInv, Started, Running
<1>3. RowsAreTheWholeOutput'
  BY <1>1 DEF ConnectorInv, RowsAreTheWholeOutput, Succeeded
<1> QED BY <1>1, <1>2, <1>3, CallerMoves DEF ConnectorInv, ProcessesInv

\* Rows that are answered are what the whole output parses to.
LEMMA JudgedRows ==
  ASSUME ConnectorInv, caller.pc = "judge", caller.heard = Streams, Verdict(Parsed) = "rows"
  PROVE  /\ ~readers["out"].failed => Parses(Parsed.rows) = ParseOutput(command.text)
         /\ Succeeded
<1>1. ~Overflowed("out") /\ Succeeded /\ ~Parsed.bad
  BY DEF Verdict
<1>2. ASSUME ~readers["out"].failed
      PROVE  Parses(Parsed.rows) = ParseOutput(command.text)
  <2>1. /\ processes["child"].state = "reaped" /\ Started /\ ~Running("child") /\ ~caller.signalled
        /\ readers["out"].sent /\ IsProgram(command)
    BY DEF ConnectorInv, CallerInv, ProcessesInv, Started, Running, Killing, Streams
  <2>2. pipes["out"] = 0 /\ ~HoldsPipe("worker")
    BY <1>2, <2>1 DEF ConnectorInv, EndsInv
  <2>3. ChildLeft("out") = 0 /\ ChildLeft("err") = 0
    BY <1>1 DEF Succeeded, ChildLeft, Streams
  <2>4. "out" \in Streams
    BY DEF Streams
  <2>5. readers["out"].read = WrittenBy(command)
    <3>1. CASE ~Forked
      <4>1. command.forks = "no"
        BY <2>1, <2>3, <3>1 DEF ConnectorInv, EndsInv, Killing
      <4>2. command.worker["out"] = 0
        BY <2>1, <4>1 DEF IsProgram
      <4>3. readers["out"].read + pipes["out"] + ChildLeft("out") = command.child["out"]
        BY <2>1, <3>1 DEF ConnectorInv, BytesInv
      <4> QED BY <2>1, <2>2, <2>3, <2>4, <4>2, <4>3, Counts DEF WrittenBy
    <3>2. CASE Forked
      <4>1. WorkerLeft("out") = 0
        <5>1. CASE ~command.inherits
          BY <3>2, <5>1 DEF ConnectorInv, ProcessesInv
        <5>2. CASE command.inherits
          <6>1. ~Running("worker")
            BY <2>2, <5>2 DEF HoldsPipe
          <6>2. processes["worker"].state = "gone"
            BY <3>2, <6>1 DEF ConnectorInv, ProcessesInv, Forked, Running
          <6> QED BY <1>2, <2>1, <6>2 DEF ConnectorInv, EndsInv
        <5> QED BY <5>1, <5>2
      <4>2. readers["out"].read + pipes["out"] + ChildLeft("out") + WorkerLeft("out")
               = command.child["out"] + command.worker["out"]
        BY <2>1, <3>2 DEF ConnectorInv, BytesInv
      <4> QED BY <2>1, <2>2, <2>3, <2>4, <4>1, <4>2, Counts DEF WrittenBy
    <3> QED BY <3>1, <3>2
  <2>6. readers["out"].kept = WrittenBy(command)
    <3>1. readers["out"].read \in Nat
      BY <2>4, Counts
    <3>2. readers["out"].kept = IF readers["out"].read <= OutputCap THEN readers["out"].read ELSE OutputCap
      BY <3>1, LeastOfTwo, CapAssumption DEF ConnectorInv, BytesInv
    <3>3. ~(readers["out"].read > OutputCap)
      BY <1>1 DEF Overflowed, CapOf
    <3> QED BY <2>5, <3>1, <3>2, <3>3, CapAssumption
  <2>7. Parsed = ParseOutput(command.text)
    BY <2>6 DEF Parsed
  <2> QED BY <1>1, <2>7, ParsesOrRefuses
<1> QED BY <1>1, <1>2

LEMMA JudgeStep ==
  ASSUME ConnectorInv, Judge
  PROVE  ConnectorInv'
<1>1. /\ caller.pc = "judge" /\ UNCHANGED <<command, processes, pipes, readers, late>>
      /\ processes["child"].state = "reaped" /\ Started /\ ~caller.signalled /\ caller.answer # "rows"
  BY DEF Judge, ConnectorInv, CallerInv, Started, Killing
<1>2. CASE caller' = [caller EXCEPT !.pc = "timeout"]
  <2>1. CallerInv'
    BY <1>1, <1>2 DEF ConnectorInv, CallerInv, CallerStates, Started
  <2>2. RowsAreTheWholeOutput'
    BY <1>1, <1>2 DEF RowsAreTheWholeOutput, ConnectorInv, CallerInv
  <2>3. caller'.signalled = caller.signalled
    BY <1>2 DEF ConnectorInv, CallerInv
  <2> QED BY <1>1, <2>1, <2>2, <2>3, CallerMoves DEF Killing
<1>3. CASE /\ caller.heard = Streams
           /\ caller' = [caller EXCEPT !.pc = "answered", !.answer = Verdict(Parsed),
                                       !.rows = IF Verdict(Parsed) = "rows" THEN Parsed.rows ELSE <<>>]
  <2>1. /\ caller'.pc = "answered" /\ caller'.answer = Verdict(Parsed) /\ caller'.heard = caller.heard
        /\ caller'.signalled = caller.signalled /\ DOMAIN caller' = {"pc", "heard", "answer", "rows", "signalled"}
        /\ Verdict(Parsed) = "rows" => caller'.rows = Parsed.rows
    BY <1>3 DEF ConnectorInv, CallerInv
  <2>2. CallerInv'
    BY <1>1, <2>1 DEF ConnectorInv, CallerInv, CallerStates, Started
  <2>3. RowsAreTheWholeOutput'
    <3>1. SUFFICES ASSUME Verdict(Parsed) = "rows" PROVE RowsAreTheWholeOutput'
      BY <2>1 DEF RowsAreTheWholeOutput
    <3>2. /\ ~readers["out"].failed => Parses(Parsed.rows) = ParseOutput(command.text)
          /\ Succeeded
      BY <1>1, <1>3, <3>1, JudgedRows
    <3>3. Succeeded'
      BY <1>1, <3>2 DEF Succeeded
    <3> QED BY <1>1, <2>1, <3>1, <3>2, <3>3 DEF RowsAreTheWholeOutput
  <2> QED BY <1>1, <2>1, <2>2, <2>3, CallerMoves
<1> QED BY <1>2, <1>3 DEF Judge, Goes

\* A step of the caller that ends processes.
LEMMA CallerEnds ==
  ASSUME ConnectorInv, Quieter(processes, processes'), UNCHANGED <<command, pipes, readers>>,
         CallerInv', Started, caller'.pc \notin {"resting"},
         caller.answer # "rows", caller'.answer # "rows",
         caller.signalled => caller'.signalled,
         processes'["worker"].state = "gone" => processes["worker"].state = "gone" \/ caller'.signalled,
         ~Running("child")' => caller'.pc \in Killing \cup {"answered"}
                               \/ (~Running("child") /\ caller.pc \notin Killing \cup {"answered"})
                               \/ command.forks = "no" \/ Forked \/ ChildLeft("out") > 0 \/ ChildLeft("err") > 0
  PROVE  ConnectorInv'
<1>1. /\ Started' = Started /\ Forked' = Forked
      /\ \A s \in Streams : ChildLeft(s)' = ChildLeft(s) /\ WorkerLeft(s)' = WorkerLeft(s)
      /\ \A q \in {"child", "worker"} : (Running(q)' => Running(q)) /\ (HoldsPipe(q)' => HoldsPipe(q))
      /\ BytesInv'
  BY QuietKeeps
<1>2. ChildLeft("err")' = ChildLeft("err") /\ ChildLeft("out")' = ChildLeft("out")
      /\ WorkerLeft("err")' = WorkerLeft("err") /\ WorkerLeft("out")' = WorkerLeft("out")
  BY <1>1 DEF Streams
<1>3. ProcessesInv'
  BY <1>1, <1>2 DEF ConnectorInv, ProcessesInv, Quieter
<1>4. EndsInv'
  <2>1. readers["out"].sent /\ ~readers["out"].failed =>
           Started /\ pipes["out"] = 0 /\ ~HoldsPipe("child") /\ ~HoldsPipe("worker")
    BY DEF ConnectorInv, EndsInv
  <2>2. processes'["worker"].state = "gone" => WorkerLeft("out") = 0 \/ readers["out"].failed \/ caller'.signalled
    BY DEF ConnectorInv, EndsInv
  <2>3. ~Running("child")' /\ ~Forked /\ command.forks # "no" =>
            ChildLeft("out") > 0 \/ ChildLeft("err") > 0 \/ caller'.pc \in Killing \cup {"answered"}
    BY DEF ConnectorInv, EndsInv
  <2> QED BY <1>1, <1>2, <2>1, <2>2, <2>3 DEF EndsInv
<1>5. RowsAreTheWholeOutput'
  BY DEF RowsAreTheWholeOutput
<1> QED BY <1>1, <1>3, <1>4, <1>5 DEF ConnectorInv

LEMMA SamePeace ==
  ASSUME ConnectorInv
  PROVE  Quieter(processes, processes)
BY DEF ConnectorInv, ProcessesInv, Quieter

LEMMA ReapedIsQuieter ==
  ASSUME ConnectorInv, Started
  PROVE  /\ Quieter(processes, Reaped(processes))
         /\ Reaped(processes)["child"].state = "reaped"
         /\ Reaped(processes)["worker"] = processes["worker"]
<1>1. Reaped(processes) = [processes EXCEPT !["child"].state = "reaped"]
  BY DEF Reaped, Started, ConnectorInv, ProcessesInv
<1> QED BY <1>1 DEF ConnectorInv, ProcessesInv, Quieter, Started

LEMMA PollStep ==
  ASSUME ConnectorInv, Poll
  PROVE  ConnectorInv'
<1>1. /\ caller.pc = "polling" /\ UNCHANGED <<command, pipes, readers, late>>
      /\ Started /\ ~caller.signalled /\ caller.answer # "rows"
  BY DEF Poll, ConnectorInv, CallerInv, ProcessesInv, Killing
<1>2. CASE caller' = [caller EXCEPT !.pc = "lost"] /\ UNCHANGED processes
  <2>1. /\ caller'.pc = "lost" /\ caller'.signalled = caller.signalled /\ caller'.answer = caller.answer
        /\ caller'.heard = caller.heard /\ DOMAIN caller' = {"pc", "heard", "answer", "rows", "signalled"}
    BY <1>2 DEF ConnectorInv, CallerInv
  <2>2. CallerInv'
    BY <1>1, <1>2, <2>1 DEF ConnectorInv, CallerInv, CallerStates
  <2>3. RowsAreTheWholeOutput'
    BY <1>1, <2>1 DEF RowsAreTheWholeOutput
  <2> QED BY <1>1, <1>2, <2>1, <2>2, <2>3, CallerMoves DEF Killing
<1>3. CASE processes["child"].state = "zombie" /\ caller' = [caller EXCEPT !.pc = "out"]
           /\ processes' = Reaped(processes)
  <2>1. /\ caller'.pc = "out" /\ caller'.signalled = caller.signalled /\ caller'.answer = caller.answer
        /\ caller'.heard = caller.heard /\ DOMAIN caller' = {"pc", "heard", "answer", "rows", "signalled"}
    BY <1>3 DEF ConnectorInv, CallerInv
  <2>2. /\ Quieter(processes, processes') /\ processes'["child"].state = "reaped"
        /\ processes'["worker"] = processes["worker"]
    BY <1>1, <1>3, ReapedIsQuieter
  <2>3. CallerInv'
    BY <1>1, <2>1, <2>2 DEF ConnectorInv, CallerInv, CallerStates, Started
  <2>4. ~Running("child") /\ caller.pc \notin Killing \cup {"answered"}
    BY <1>1, <1>3 DEF Running, Killing
  <2> QED BY <1>1, <2>1, <2>2, <2>3, <2>4, CallerEnds
<1>4. CASE processes["child"].state = "running" /\ caller' = [caller EXCEPT !.pc = "timeout"]
           /\ UNCHANGED processes
  <2>1. /\ caller'.pc = "timeout" /\ caller'.signalled = caller.signalled /\ caller'.answer = caller.answer
        /\ caller'.heard = caller.heard /\ DOMAIN caller' = {"pc", "heard", "answer", "rows", "signalled"}
    BY <1>4 DEF ConnectorInv, CallerInv
  <2>2. CallerInv'
    BY <1>1, <1>4, <2>1 DEF ConnectorInv, CallerInv, CallerStates
  <2>3. RowsAreTheWholeOutput'
    BY <1>1, <2>1 DEF RowsAreTheWholeOutput
  <2> QED BY <1>1, <1>4, <2>1, <2>2, <2>3, CallerMoves DEF Killing
<1>5. PollSees(processes["child"].state, late) \in {"polling", "out", "timeout"}
      /\ (PollSees(processes["child"].state, late) = "out" <=> processes["child"].state = "zombie")
      /\ (PollSees(processes["child"].state, late) = "timeout" => processes["child"].state = "running")
  <2>1. CASE processes["child"].state = "zombie"
    BY <2>1 DEF PollSees
  <2>2. CASE processes["child"].state = "running" /\ late
    BY <2>2 DEF PollSees
  <2>3. CASE processes["child"].state # "zombie" /\ ~(processes["child"].state = "running" /\ late)
    BY <2>3 DEF PollSees
  <2> QED BY <2>1, <2>2, <2>3
<1>6. \/ caller' = [caller EXCEPT !.pc = "lost"] /\ UNCHANGED processes
      \/ /\ PollSees(processes["child"].state, late) # "polling"
         /\ caller' = [caller EXCEPT !.pc = PollSees(processes["child"].state, late)]
         /\ processes' = IF processes["child"].state = "zombie" THEN Reaped(processes) ELSE processes
  BY DEF Poll, Goes
<1> QED BY <1>2, <1>3, <1>4, <1>5, <1>6

LEMMA KillTreeStep ==
  ASSUME ConnectorInv, KillTree
  PROVE  ConnectorInv'
<1>1. /\ caller.pc \in {"timeout", "lost"} /\ UNCHANGED <<command, pipes, readers, late>>
      /\ Started /\ ~caller.signalled /\ caller.answer # "rows" /\ KillsNext \in {"kill", "kill lost"}
  BY DEF KillTree, ConnectorInv, CallerInv, ProcessesInv, Killing, KillsNext
<1>2. CASE caller' = [caller EXCEPT !.pc = KillsNext] /\ UNCHANGED processes
  <2>1. /\ caller'.pc = KillsNext /\ caller'.signalled = caller.signalled /\ caller'.answer = caller.answer
        /\ caller'.heard = caller.heard /\ DOMAIN caller' = {"pc", "heard", "answer", "rows", "signalled"}
    BY <1>2 DEF ConnectorInv, CallerInv
  <2>2. CallerInv'
    BY <1>1, <1>2, <2>1 DEF ConnectorInv, CallerInv, CallerStates, Killing
  <2>3. RowsAreTheWholeOutput'
    BY <1>1, <2>1 DEF RowsAreTheWholeOutput
  <2> QED BY <1>1, <1>2, <2>1, <2>2, <2>3, CallerMoves DEF Killing
<1>3. CASE caller' = [caller EXCEPT !.signalled = TRUE, !.pc = KillsNext] /\ processes' = Signalled(processes)
  <2>1. /\ caller'.pc = KillsNext /\ caller'.signalled = TRUE /\ caller'.answer = caller.answer
        /\ caller'.heard = caller.heard /\ DOMAIN caller' = {"pc", "heard", "answer", "rows", "signalled"}
    BY <1>3 DEF ConnectorInv, CallerInv
  <2>2. /\ DOMAIN processes = {"child", "worker"} /\ DOMAIN processes' = {"child", "worker"}
        /\ \A p \in {"child", "worker"} :
              processes'[p] = IF InGroup(p) /\ processes[p].state = "running" THEN Ended(processes, p)[p]
                              ELSE processes[p]
    BY <1>3 DEF Signalled, ConnectorInv, ProcessesInv
  <2>3. \A p \in {"child", "worker"} : processes[p].state = "running" => Quieter(processes, Ended(processes, p))
    BY EndedIsQuieter DEF Running
  <2>4. Quieter(processes, processes)
    BY SamePeace
  <2>5. Quieter(processes, processes')
    BY <2>2, <2>3, <2>4 DEF Quieter
  <2>6. ~Running("child")'
    <3>1. InGroup("child")
      BY DEF InGroup
    <3>2. Running("child") => Ended(processes, "child")["child"].state = "zombie"
      BY EndedIsQuieter
    <3> QED BY <2>2, <3>1, <3>2 DEF Running
  <2>7. Running("worker")' => command'.forks = "detached"
    <3>1. Running("worker") => Ended(processes, "worker")["worker"].state = "gone"
      BY EndedIsQuieter
    <3>2. Running("worker")' => Running("worker") /\ ~InGroup("worker")
      BY <2>2, <3>1 DEF Running
    <3>3. Running("worker") => command.forks \in {"group", "detached"}
      BY DEF ConnectorInv, ProcessesInv, IsProgram, Started, Forked, Running
    <3> QED BY <1>1, <3>2, <3>3 DEF InGroup
  <2>8. CallerInv'
    BY <1>1, <2>1, <2>6, <2>7 DEF ConnectorInv, CallerInv, CallerStates, Killing
  <2> QED BY <1>1, <2>1, <2>5, <2>8, CallerEnds DEF Killing
<1> QED BY <1>2, <1>3 DEF KillTree, Goes

LEMMA KillChildStep ==
  ASSUME ConnectorInv, KillChild
  PROVE  ConnectorInv'
<1>1. /\ caller.pc \in {"kill", "kill lost"} /\ UNCHANGED <<command, pipes, readers, late>>
      /\ Started /\ caller.answer # "rows"
      /\ processes' = IF Running("child") THEN Ended(processes, "child") ELSE processes
  BY DEF KillChild, ConnectorInv, CallerInv, ProcessesInv
<1>2. /\ caller'.pc \in {"reap", "reap lost"} /\ caller'.signalled = caller.signalled
      /\ caller'.answer = caller.answer /\ caller'.heard = caller.heard
      /\ DOMAIN caller' = {"pc", "heard", "answer", "rows", "signalled"}
  BY DEF KillChild, Goes, ConnectorInv, CallerInv
<1>3. Quieter(processes, processes') /\ processes'["worker"].state = processes["worker"].state
  BY <1>1, EndedIsQuieter, SamePeace
<1>4. (Running("child")' => Running("child")) /\ (Running("worker")' => Running("worker"))
  BY <1>1, <1>3, QuietKeeps
<1>5. CallerInv'
  BY <1>1, <1>2, <1>4 DEF ConnectorInv, CallerInv, CallerStates, Killing
<1> QED BY <1>1, <1>2, <1>3, <1>5, CallerEnds DEF Killing

LEMMA ReapStep ==
  ASSUME ConnectorInv, Reap
  PROVE  ConnectorInv'
<1>1. /\ caller.pc \in {"reap", "reap lost"} /\ UNCHANGED <<command, pipes, readers, late>>
      /\ Started /\ caller.answer # "rows" /\ processes' \in {processes, Reaped(processes)}
  BY DEF Reap, ConnectorInv, CallerInv, ProcessesInv
<1>2. /\ caller'.pc = "answered" /\ caller'.signalled = caller.signalled
      /\ caller'.answer \in {"timeout", "spawn"} /\ caller'.heard = caller.heard
      /\ DOMAIN caller' = {"pc", "heard", "answer", "rows", "signalled"}
  BY DEF Reap, AnswersWith, ConnectorInv, CallerInv
<1>3. Quieter(processes, processes') /\ processes'["worker"] = processes["worker"]
  BY <1>1, SamePeace, ReapedIsQuieter
<1>4. (Running("child")' => Running("child")) /\ (Running("worker")' => Running("worker"))
  BY <1>1, <1>3, QuietKeeps
<1>5. CallerInv'
  BY <1>1, <1>2, <1>4 DEF ConnectorInv, CallerInv, CallerStates, Killing
<1> QED BY <1>1, <1>2, <1>3, <1>5, CallerEnds

LEMMA FetchStep ==
  ASSUME ConnectorInv, NEW server, FetchHttp(server)
  PROVE  ConnectorInv'
<1>1. /\ caller.pc = "resting" /\ command' = server /\ UNCHANGED <<processes, pipes, readers, late>>
      /\ ~Started /\ ~Forked /\ ~caller.signalled
  BY SMTT(30) DEF FetchHttp, ConnectorInv, CallerInv, ProcessesInv, Killing
<1>2. PICK answer :
        /\ caller' = [caller EXCEPT !.pc = "answered", !.answer = answer,
                          !.rows = IF answer = "rows" THEN ParseOutput(server.text).rows ELSE <<>>]
        /\ answer = "rows" => ~ParseOutput(server.text).bad
  <2>1. PICK answer :
          /\ answer = CASE server.fails -> "http"
                        [] server.status \notin 200..299 -> "http status"
                        [] TakenOf(server.body) > OutputCap -> "too large"
                        [] ParseOutput(server.text).bad -> "bad output"
                        [] OTHER -> "rows"
          /\ caller' = [caller EXCEPT !.pc = "answered", !.answer = answer,
                            !.rows = IF answer = "rows" THEN ParseOutput(server.text).rows ELSE <<>>]
    BY ZenonT(40) DEF FetchHttp
  <2>2. answer = "rows" => ~ParseOutput(server.text).bad
    BY <2>1
  <2> QED BY ZenonT(40), <2>1, <2>2
<1>3. /\ caller'.pc = "answered" /\ caller'.answer = answer /\ caller'.heard = caller.heard
      /\ caller'.signalled = caller.signalled /\ DOMAIN caller' = {"pc", "heard", "answer", "rows", "signalled"}
      /\ answer = "rows" => caller'.rows = ParseOutput(server.text).rows
  BY <1>2 DEF ConnectorInv, CallerInv
<1>4. ~Started' /\ ~Forked'
  BY <1>1 DEF Started, Forked
<1>5. ProcessesInv'
  BY <1>1, <1>3, <1>4 DEF ConnectorInv, ProcessesInv
<1>6. CallerInv'
  BY <1>1, <1>3, <1>4 DEF ConnectorInv, CallerInv, CallerStates, Running
<1>7. BytesInv'
  BY <1>1, <1>4 DEF ConnectorInv, BytesInv
<1>8. EndsInv'
  <2>1. processes["worker"].state # "gone"
    BY <1>1 DEF Forked
  <2>2. ~(readers["out"].sent /\ ~readers["out"].failed)
    BY <1>1 DEF ConnectorInv, EndsInv
  <2> QED BY <1>1, <1>4, <2>1, <2>2 DEF EndsInv
<1>9. RowsAreTheWholeOutput'
  <2>1. answer = "rows" => Parses(ParseOutput(server.text).rows) = ParseOutput(server.text)
    BY <1>2, ParsesOrRefuses
  <2> QED BY <1>1, <1>3, <1>4, <2>1 DEF RowsAreTheWholeOutput, Started
<1> QED BY <1>5, <1>6, <1>7, <1>8, <1>9 DEF ConnectorInv

LEMMA ConnectorSteps ==
  ASSUME NEW Commands, NEW Hosts, \A p \in Commands : IsProgram(p),
         ConnectorInv, [CommandNext(Commands, Hosts)]_commandVars
  PROVE  ConnectorInv'
<1>1. CASE \E program \in Commands : Spawn(program)
  BY <1>1, SpawnStep
<1>2. CASE \E server \in Hosts : FetchHttp(server)
  BY <1>2, FetchStep
<1>3. CASE CallerStep
  <2>1. CASE Poll
    BY <2>1, PollStep
  <2>2. CASE \E s \in Streams : Receive(s)
    BY <2>2, ReceiveStep
  <2>3. CASE Judge
    BY <2>3, JudgeStep
  <2>4. CASE KillTree
    BY <2>4, KillTreeStep
  <2>5. CASE KillChild
    BY <2>5, KillChildStep
  <2>6. CASE Reap
    BY <2>6, ReapStep
  <2> QED BY <1>3, <2>1, <2>2, <2>3, <2>4, <2>5, <2>6 DEF CallerStep
<1>4. CASE \E s \in Streams : ReaderStep(s)
  BY <1>4, ReadsStep, ReaderEndsStep DEF ReaderStep
<1>5. CASE TreeStep
  <2>1. CASE Forks
    BY <2>1, ForksStep
  <2>2. CASE \E p \in DOMAIN processes : Exits(p)
    BY <2>2, ExitsStep
  <2>3. CASE \E p \in DOMAIN processes : \E s \in Streams : WritesByte(p, s)
    BY <2>3, WritesStep
  <2> QED BY <1>5, <2>1, <2>2, <2>3 DEF TreeStep
<1>6. CASE Deadline
  BY <1>6, DeadlineStep
<1>7. CASE UNCHANGED commandVars
  <2>1. UNCHANGED <<command, processes, pipes, readers, late, caller>>
    BY <1>7 DEF commandVars
  <2>2. CallerInv'
    BY <2>1 DEF ConnectorInv, CallerInv, Started, Running
  <2>3. RowsAreTheWholeOutput'
    BY <2>1 DEF ConnectorInv, RowsAreTheWholeOutput, Succeeded
  <2> QED BY <2>1, <2>2, <2>3, CallerMoves DEF ConnectorInv, ProcessesInv
<1> QED BY <1>1, <1>2, <1>3, <1>4, <1>5, <1>6, <1>7 DEF CommandNext

\* A connector answers with all a program wrote and leaves no part of it running
\* past its deadline, for every set of programs, servers, caps and pipe sizes
\* (run_command_capped, spawn_reader, kill_tree).
THEOREM ConnectorContains ==
  ASSUME NEW Commands, NEW Hosts, \A p \in Commands : IsProgram(p)
  PROVE  CommandInit /\ [][CommandNext(Commands, Hosts)]_commandVars => []ProgramsAreContained
<1>1. CommandInit => ConnectorInv
  BY ConnectorStarts
<1>2. ConnectorInv /\ [CommandNext(Commands, Hosts)]_commandVars => ConnectorInv'
  BY ConnectorSteps
<1>3. ConnectorInv => ProgramsAreContained
  BY DEF ConnectorInv, CallerInv, ProgramsAreContained, DeadlinesEndTheTree
<1> QED BY <1>1, <1>2, <1>3, PTL

-----------------------------------------------------------------------------
(* The run ledger: the inductive invariant.                                  *)

Rec == [id : Ids, state : States]
Final == {"succeeded", "failed"}

AppliedIn(eff, id) == IF id \in DOMAIN eff THEN eff[id] ELSE 0

\* What a record says of its run's end is what the run did.
TellsTruth(r, eff) ==
    /\ r.state = "succeeded" => AppliedIn(eff, r.id) = Steps
    /\ r.state = "failed" => AppliedIn(eff, r.id) < Steps \/ Steps = 0

NoFinal(log, id) == \A i \in DOMAIN log : log[i].id = id => log[i].state \notin Final
FinalsLast(log) ==
    \A i, l \in DOMAIN log : log[i].state \in Final /\ log[l].id = log[i].id => l <= i
FinalsCounted(log, eff) == \A i \in DOMAIN log : log[i].state \in Final => log[i].id \in DOMAIN eff

\* A success of a job no older than the time given.
Recalls(log, job, fire) ==
    \E i \in DOMAIN log : /\ log[i].id.job = job
                          /\ log[i].state = "succeeded"
                          /\ log[i].id.fire >= fire
Remembers(log, kn) == \A j \in Jobs : kn[j] = 0 \/ Recalls(log, j, kn[j])

LogInv(log, eff, kn) ==
    /\ log \in Seq(Rec)
    /\ \A r \in LatestRecords(log) : TellsTruth(r, eff)
    /\ ~SameMillis => FinalsLast(log) /\ FinalsCounted(log, eff) /\ Remembers(log, kn)

Stages == {"queued", "running", "look", "step", "succeeded", "failed"}
Runner(runner) == IF runner = "timer" THEN Scheduled ELSE Manual

\* What a runner executes, against a ledger and the steps applied.
RunnerOK(r, runner, log, eff) ==
    /\ r \in {NoRun} \cup [pc : Stages, id : Ids, step : Nat]
    /\ r # NoRun =>
          /\ r.id.how = Runner(runner)
          /\ r.pc \in {"queued", "running", "look"} => r.step = 0
          /\ r.pc \in {"step", "succeeded", "failed"} => r.id \in DOMAIN eff
          /\ r.pc = "step" => r.step < Steps /\ eff[r.id] = r.step
          /\ r.pc = "succeeded" => eff[r.id] = Steps
          /\ r.pc = "failed" => eff[r.id] < Steps \/ Steps = 0
          /\ r.pc # "queued" => \A s \in LatestRecords(log) : s.id = r.id => s.state \in Active
          /\ ~SameMillis => NoFinal(log, r.id)

\* A run that a ledger shows as active is being executed.
Executed(log, rn) ==
    \A r \in LatestRecords(log) :
        r.state \in Active => \E runner \in Runners : rn[runner] # NoRun /\ rn[runner].id = r.id

StateInv ==
    /\ clock \in 1..MaxClock
    /\ jobs \in [Jobs -> {"enabled", "disabled", "absent"}]
    /\ status \in {"up", "down"}
    /\ DOMAIN effects \subseteq Ids
    /\ known \in [Jobs -> Nat]
    /\ due \in Seq([id : {id \in Ids : id.how = Scheduled}, coalesced : BOOLEAN])
    /\ DOMAIN run = Runners

IInv ==
    /\ StateInv
    /\ LogInv(records, effects, known)
    /\ status = "up" => frames = records /\ Executed(records, run)
    /\ status = "down" => /\ LogInv(Replayed(frames), effects, known)
                          /\ due = <<>>
                          /\ \A runner \in Runners : run[runner] = NoRun
    /\ \A runner \in Runners : RunnerOK(run[runner], runner, records, effects)

-----------------------------------------------------------------------------
(* Induction over the numbers, and a finite set in the order of a strict    *)
(* total order.                                                             *)

\* A set that holds 0 and the successor of what it holds has every number.
LEMMA AllNumbers ==
  ASSUME NEW S, 0 \in S, \A n \in Nat : n \in S => n + 1 \in S
  PROVE  Nat \subseteq S
<1> SUFFICES ASSUME Nat \ S # {} PROVE FALSE
  OBVIOUS
<1> DEFINE Below == {1 .. n : n \in Nat \ S}
<1>1. Below # {} /\ Below \subseteq FiniteSubsetsOf(Nat)
  <2>1. \A n \in Nat : 1 .. n \in FiniteSubsetsOf(Nat)
    BY SMTT(30), FS_Interval DEF FiniteSubsetsOf
  <2> QED BY <2>1
<1>2. PICK B \in Below : \A C \in Below : <<C, B>> \notin StrictSubsetOrdering(Nat)
  <2> HIDE DEF Below
  <2> QED BY <1>1, FS_StrictSubsetOrderingWellFounded, WFMin
<1>3. PICK x \in Nat \ S : B = 1 .. x
  OBVIOUS
<1>4. x - 1 \in Nat /\ x - 1 \notin S
  OBVIOUS
<1>5. 1 .. (x - 1) \in SUBSET (1 .. x) /\ x \notin 1 .. (x - 1) /\ x \in 1 .. x
  BY <1>4
<1>6. 1 .. (x - 1) \subseteq Nat /\ 1 .. x \subseteq Nat
  OBVIOUS
<1>7. <<1 .. (x - 1), 1 .. x>> \in StrictSubsetOrdering(Nat)
  BY <1>5, <1>6 DEF StrictSubsetOrdering
<1> QED BY <1>2, <1>3, <1>4, <1>7

StrictTotal(R, S) ==
    /\ \A a \in S : <<a, a>> \notin R
    /\ \A a, b \in S : a # b => <<a, b>> \in R \/ <<b, a>> \in R
    /\ \A a, b, c \in S : <<a, b>> \in R /\ <<b, c>> \in R => <<a, c>> \in R

Rank(R, S, r) == Cardinality({s \in S : <<s, r>> \in R})

\* In a finite set each place is that of exactly one member.
LEMMA Ranks ==
  ASSUME NEW S, IsFiniteSet(S), NEW R, StrictTotal(R, S)
  PROVE  /\ Cardinality(S) \in Nat
         /\ \A r \in S : Rank(R, S, r) \in 0 .. (Cardinality(S) - 1)
         /\ \A a, b \in S : Rank(R, S, a) = Rank(R, S, b) => a = b
         /\ \A i \in 1 .. Cardinality(S) : \E r \in S : Rank(R, S, r) = i - 1
<1> DEFINE Before(r) == {s \in S : <<s, r>> \in R}
<1>1. Cardinality(S) \in Nat
  BY FS_CardinalityType
<1>2. \A r \in S : IsFiniteSet(Before(r)) /\ Rank(R, S, r) = Cardinality(Before(r))
  BY FS_Subset DEF Rank
<1>3. \A r \in S : Cardinality(Before(r)) \in 0 .. (Cardinality(S) - 1)
  <2> SUFFICES ASSUME NEW r \in S PROVE Cardinality(Before(r)) \in 0 .. (Cardinality(S) - 1)
    OBVIOUS
  <2>1. Before(r) \in SUBSET (S \ {r})
    BY DEF StrictTotal
  <2>2. IsFiniteSet(S \ {r}) /\ Cardinality(S \ {r}) = Cardinality(S) - 1
    BY FS_RemoveElement
  <2>3. Cardinality(Before(r)) <= Cardinality(S) - 1 /\ Cardinality(Before(r)) \in Nat
    BY <2>1, <2>2, <1>2, FS_Subset, FS_CardinalityType
  <2> QED BY <2>3, <1>1
<1>4. \A a, b \in S : <<a, b>> \in R => Cardinality(Before(a)) # Cardinality(Before(b))
  <2> SUFFICES ASSUME NEW a \in S, NEW b \in S, <<a, b>> \in R,
                      Cardinality(Before(a)) = Cardinality(Before(b))
               PROVE  FALSE
    OBVIOUS
  <2>1. Before(a) \in SUBSET Before(b)
    BY DEF StrictTotal
  <2>2. a \in Before(b) /\ a \notin Before(a)
    BY DEF StrictTotal
  <2>3. Before(a) = Before(b)
    <3> HIDE DEF Before
    <3> QED BY <2>1, <1>2, FS_Subset
  <2> QED BY <2>2, <2>3
<1>5. \A a, b \in S : Rank(R, S, a) = Rank(R, S, b) => a = b
  <2> HIDE DEF Before
  <2> QED BY <1>2, <1>4 DEF StrictTotal
<1> DEFINE rank == [r \in S |-> Rank(R, S, r)]
           Places == 0 .. (Cardinality(S) - 1)
<1>6. rank \in Injection(S, Places)
  <2>1. rank \in [S -> Places]
    <3> HIDE DEF Before
    <3> QED BY <1>2, <1>3
  <2> QED BY <2>1, <1>5 DEF Injection, IsInjective
<1>7. IsFiniteSet(Places) /\ Cardinality(Places) = Cardinality(S)
  BY SMTT(30), <1>1, FS_Interval
<1>8. rank \in Surjection(S, Places)
  <2> HIDE DEF rank, Places
  <2> QED BY <1>6, <1>7, FS_Injection
<1>9. \A i \in 1 .. Cardinality(S) : \E r \in S : rank[r] = i - 1
  <2>1. \A p \in Places : \E r \in S : rank[r] = p
    <3> HIDE DEF rank, Places
    <3> QED BY <1>8 DEF Surjection
  <2>2. \A i \in 1 .. Cardinality(S) : i - 1 \in Places
    BY <1>1
  <2> HIDE DEF rank, Places
  <2> QED BY <2>1, <2>2
<1>10. \A r \in S : Rank(R, S, r) \in 0 .. (Cardinality(S) - 1)
  <2> HIDE DEF Before
  <2> QED BY <1>2, <1>3
<1> HIDE DEF Before
<1> QED BY <1>1, <1>10, <1>5, <1>9

\* A sequence that has each member of a set once.
Lists(q, S) ==
    /\ q \in Seq(S)
    /\ \A r \in S : \E i \in DOMAIN q : q[i] = r
    /\ \A i, l \in DOMAIN q : q[i] = q[l] => i = l

LEMMA Listing ==
  ASSUME NEW S, IsFiniteSet(S), NEW R, StrictTotal(R, S),
         NEW q \in [1 .. Cardinality(S) -> S],
         \A i \in 1 .. Cardinality(S) : Rank(R, S, q[i]) = i - 1
  PROVE  Lists(q, S)
<1> DEFINE n == Cardinality(S)
<1>1. /\ n \in Nat
      /\ \A r \in S : Rank(R, S, r) \in 0 .. (n - 1)
      /\ \A a, b \in S : Rank(R, S, a) = Rank(R, S, b) => a = b
      /\ \A i \in 1 .. n : \E r \in S : Rank(R, S, r) = i - 1
  BY Ranks
<1> HIDE DEF n
<1>2. q \in [1 .. n -> S]
  BY DEF n
<1>3. \A i \in 1 .. n : q[i] \in S /\ Rank(R, S, q[i]) = i - 1
  BY <1>2 DEF n
<1>4. q \in Seq(S) /\ DOMAIN q = 1 .. n
  <2>1. q \in [1 .. n -> S]
    BY <1>2, <1>3
  <2>2. n \in Nat
    BY <1>1
  <2>3. DOMAIN q = 1 .. n
    BY <2>1
  <2>4. q \in Seq(S)
    BY ONLY <2>1, <2>2
  <2> QED BY <2>3, <2>4
<1>5. \A r \in S : \E i \in 1 .. n : q[i] = r
  <2> SUFFICES ASSUME NEW r \in S PROVE \E i \in 1 .. n : q[i] = r
    OBVIOUS
  <2>1. Rank(R, S, r) + 1 \in 1 .. n /\ Rank(R, S, r) \in Nat
    BY <1>1
  <2>2. Rank(R, S, q[Rank(R, S, r) + 1]) = Rank(R, S, r) /\ q[Rank(R, S, r) + 1] \in S
    BY <2>1, <1>3
  <2> QED BY <2>1, <2>2, <1>1
<1>6. \A i, l \in 1 .. n : q[i] = q[l] => i = l
  BY <1>1, <1>3
<1> QED BY <1>4, <1>5, <1>6 DEF Lists

\* Ids, and the records of runs, as the orders of the ledger compare them.
LEMMA IdFields ==
  /\ \A id \in Ids : id.how \in {0, 1} /\ id.job \in Jobs /\ id.fire \in 1 .. MaxClock
  /\ \A a, b \in Ids : a.how = b.how /\ a.job = b.job /\ a.fire = b.fire => a = b
BY DEF Ids, Manual, Scheduled

DistinctRuns(S) ==
    /\ S \subseteq Rec
    /\ IsFiniteSet(S)
    /\ \A a, b \in S : a.id = b.id => a = b

Older(S) == {p \in S \X S : OldestFirst(p[1], p[2])}

\* The ledger's order of records is total where each is of another run.
LEMMA OldestFirstIsTotal ==
  ASSUME NEW S, DistinctRuns(S)
  PROVE  /\ StrictTotal(Older(S), S)
         /\ \A a, b \in S : <<a, b>> \in Older(S) <=> OldestFirst(a, b)
<1> DEFINE R == Older(S)
<1>1. \A a, b \in S : <<a, b>> \in R <=> OldestFirst(a, b)
  BY DEF Older
<1>2. \A a \in S : /\ a.id.how \in Int /\ a.id.job \in Int /\ a.id.fire \in Int
                   /\ \A b \in S : (a.id.how = b.id.how /\ a.id.job = b.id.job /\ a.id.fire = b.id.fire)
                                      => a = b
  <2>1. \A a \in S : a.id \in Ids
    BY DEF Rec, DistinctRuns
  <2>2. \A id \in Ids : id.how \in Int /\ id.job \in Int /\ id.fire \in Int
    <3>1. \A id \in Ids : id.how \in {0, 1} /\ id.job \in Jobs /\ id.fire \in 1 .. MaxClock
      BY IdFields
    <3>2. Jobs \subseteq Int /\ 1 .. MaxClock \subseteq Int /\ {0, 1} \subseteq Int
      BY JobsAssumption, TimesAssumption
    <3> QED BY ONLY <3>1, <3>2
  <2> QED BY <2>1, <2>2, IdFields DEF DistinctRuns
<1> HIDE DEF R
<1>3. StrictTotal(R, S)
  <2>1. \A a \in S : <<a, a>> \notin R
    BY <1>1, <1>2 DEF OldestFirst, IdBelow
  <2>2. \A a, b \in S : a # b => <<a, b>> \in R \/ <<b, a>> \in R
    BY <1>1, <1>2 DEF OldestFirst, IdBelow
  <2>3. \A a, b, c \in S : <<a, b>> \in R /\ <<b, c>> \in R => <<a, c>> \in R
    <3> SUFFICES ASSUME NEW a \in S, NEW b \in S, NEW c \in S, <<a, b>> \in R, <<b, c>> \in R
                 PROVE  OldestFirst(a, c)
      BY <1>1
    <3>1. OldestFirst(a, b) /\ OldestFirst(b, c)
      BY <1>1
    <3> QED BY <3>1, <1>2 DEF OldestFirst, IdBelow
  <2> QED BY <2>1, <2>2, <2>3 DEF StrictTotal
<1> QED BY <1>1, <1>3 DEF R

\* Records of different runs, from the oldest.
LEMMA OldestFirstLists ==
  ASSUME NEW S, DistinctRuns(S)
  PROVE  Lists(InOrder(S, OldestFirst), S)
<1> DEFINE R == Older(S)
           q == InOrder(S, OldestFirst)
<1>1. \A a, b \in S : <<a, b>> \in R <=> OldestFirst(a, b)
  BY OldestFirstIsTotal
<1>2. IsFiniteSet(S)
  BY DEF DistinctRuns
<1>3. StrictTotal(R, S)
  BY OldestFirstIsTotal
<1> HIDE DEF R
<1>4. \A r \in S : Rank(R, S, r) = Cardinality({s \in S : OldestFirst(s, r)})
  <2> SUFFICES ASSUME NEW r \in S
               PROVE  {s \in S : <<s, r>> \in R} = {s \in S : OldestFirst(s, r)}
    BY DEF Rank
  <2> QED BY <1>1
<1>5. \A i \in 1 .. Cardinality(S) : \E r \in S : Cardinality({s \in S : OldestFirst(s, r)}) = i - 1
  BY <1>2, <1>3, <1>4, Ranks
<1>6. \A i \in 1 .. Cardinality(S) : q[i] \in S /\ Cardinality({s \in S : OldestFirst(s, q[i])}) = i - 1
  <2> SUFFICES ASSUME NEW i \in 1 .. Cardinality(S)
               PROVE  q[i] \in S /\ Cardinality({s \in S : OldestFirst(s, q[i])}) = i - 1
    OBVIOUS
  <2>1. q[i] = CHOOSE r \in S : Cardinality({s \in S : OldestFirst(s, r)}) = i - 1
    BY DEF InOrder
  <2> QED BY ONLY <2>1, <1>5
<1>7. q \in [1 .. Cardinality(S) -> S]
  BY <1>6 DEF InOrder
<1>8. \A i \in 1 .. Cardinality(S) : Rank(R, S, q[i]) = i - 1
  <2> HIDE DEF q
  <2> QED BY <1>4, <1>6
<1> HIDE DEF q
<1>9. Lists(q, S)
  BY <1>2, <1>3, <1>7, <1>8, Listing
<1> QED BY <1>9 DEF q

\* One of them is the newest.
LEMMA NewestRecord ==
  ASSUME NEW S, DistinctRuns(S), S # {}
  PROVE  \E m \in S : \A s \in S : s # m => OldestFirst(s, m)
<1> DEFINE R == Older(S)
<1>1. \A a, b \in S : <<a, b>> \in R <=> OldestFirst(a, b)
  BY OldestFirstIsTotal
<1>2. IsFiniteSet(S)
  BY DEF DistinctRuns
<1>3. StrictTotal(R, S)
  BY OldestFirstIsTotal
<1> HIDE DEF R
<1>4. Cardinality(S) \in Nat \ {0}
  BY <1>2, FS_CardinalityType, FS_EmptySet
<1>5. PICK m \in S : Rank(R, S, m) = Cardinality(S) - 1
  <2>1. Cardinality(S) \in 1 .. Cardinality(S)
    BY <1>4
  <2> QED BY <2>1, <1>2, <1>3, Ranks
<1> DEFINE Before == {s \in S : <<s, m>> \in R}
           Others == S \ {m}
<1>6. Before \in SUBSET Others
  BY <1>3 DEF StrictTotal
<1>7. IsFiniteSet(Others) /\ Cardinality(Others) = Cardinality(S) - 1
  BY <1>2, FS_RemoveElement
<1>8. Cardinality(Before) = Cardinality(S) - 1
  BY <1>5 DEF Rank
<1>9. Before = Others
  <2> HIDE DEF Before, Others
  <2> QED BY <1>6, <1>7, <1>8, FS_Subset
<1> QED BY <1>1, <1>9

-----------------------------------------------------------------------------
(* What a ledger holds, and what retention and the next record make of it.  *)

\* The last record of each run is one of the ledger's.
LEMMA Latest ==
  ASSUME NEW log \in Seq(Rec)
  PROVE  /\ DOMAIN log = 1 .. Len(log) /\ Len(log) \in Nat
         /\ \A i \in DOMAIN log : log[i] \in Rec
         /\ DistinctRuns(LatestRecords(log))
         /\ \A r \in LatestRecords(log) : \E i \in DOMAIN log : log[i] = r
<1> DEFINE K == {k \in DOMAIN log : \A l \in (k + 1) .. Len(log) : log[l].id # log[k].id}
           f == [k \in K |-> log[k]]
           L == LatestRecords(log)
<1>1. DOMAIN log = 1 .. Len(log) /\ Len(log) \in Nat /\ \A i \in DOMAIN log : log[i] \in Rec
  OBVIOUS
<1>2. L = {log[i] : i \in K}
  BY DEF LatestRecords
<1>3. IsFiniteSet(K)
  <2>1. K \in SUBSET (1 .. Len(log)) /\ IsFiniteSet(1 .. Len(log))
    BY <1>1, FS_Interval
  <2> HIDE DEF K
  <2> QED BY <2>1, FS_Subset
<1>4. IsFiniteSet(L)
  <2> HIDE DEF K, L
  <2>1. f \in Surjection(K, L)
    BY <1>2 DEF Surjection
  <2> HIDE DEF f
  <2> QED BY <2>1, <1>3, FS_Surjection
<1>5. \A r \in L : \E i \in K : log[i] = r
  BY <1>2
<1>6. \A i, l \in K : log[i].id = log[l].id => i = l
  <2> SUFFICES ASSUME NEW i \in K, NEW l \in K, i < l PROVE log[i].id # log[l].id
    BY <1>1
  <2> QED BY <1>1
<1> HIDE DEF L
<1>7. \A a, b \in L : a.id = b.id => a = b
  <2> HIDE DEF K
  <2> QED BY <1>5, <1>6
<1>8. L \subseteq Rec /\ \A r \in L : \E i \in DOMAIN log : log[i] = r
  BY <1>1, <1>5
<1> QED BY <1>1, <1>4, <1>7, <1>8 DEF L, DistinctRuns

\* The new ledger keeps of the old what recovery and the due-scan look for.
Kept(old, new) ==
    /\ new \in Seq(Rec)
    /\ LatestRecords(new) \subseteq LatestRecords(old)
    /\ \A i \in DOMAIN new : \E k \in DOMAIN old : old[k] = new[i]
    /\ FinalsLast(old) =>
          /\ FinalsLast(new)
          /\ \A j \in Jobs, fire \in Nat : Recalls(old, j, fire) => Recalls(new, j, fire)

LEMMA RetainedIsKept ==
  ASSUME NEW log \in Seq(Rec)
  PROVE  Kept(log, Retained(log))
<1> DEFINE L == LatestRecords(log)
           S == BestSuccesses(L) \cup Newest(L)
           q == Retained(log)
<1>1. DistinctRuns(L) /\ DOMAIN log = 1 .. Len(log) /\ Len(log) \in Nat
  BY Latest
<1>2. DistinctRuns(S) /\ S \subseteq L
  <2>1. S \in SUBSET L
    BY DEF BestSuccesses, Newest
  <2>2. IsFiniteSet(S)
    <3> HIDE DEF S, L
    <3> QED BY <1>1, <2>1, FS_Subset DEF DistinctRuns
  <2> HIDE DEF S, L
  <2> QED BY <1>1, <2>1, <2>2 DEF DistinctRuns
<1>3. Lists(q, S)
  BY <1>2, OldestFirstLists DEF Retained
<1>4. q \in Seq(Rec) /\ \A i \in DOMAIN q : q[i] \in S
  <2> HIDE DEF S, q
  <2>1. q \in Seq(S) /\ S \subseteq Rec
    BY <1>2, <1>3 DEF Lists, DistinctRuns
  <2> QED BY <2>1
<1>5. \A i, l \in DOMAIN q : q[i].id = q[l].id => i = l
  <2> HIDE DEF S, q
  <2> QED BY <1>2, <1>3, <1>4 DEF Lists, DistinctRuns
<1>6. LatestRecords(q) \subseteq L
  <2> HIDE DEF S, q
  <2>1. \A r \in LatestRecords(q) : \E i \in DOMAIN q : q[i] = r
    BY <1>4, Latest
  <2> QED BY <2>1, <1>4, <1>2
<1>7. \A i \in DOMAIN q : \E k \in DOMAIN log : log[k] = q[i]
  <2>1. \A r \in L : \E k \in DOMAIN log : log[k] = r
    BY Latest
  <2> HIDE DEF S, q, L
  <2> QED BY <1>2, <1>4, <2>1
<1>8. ASSUME FinalsLast(log)
      PROVE  \A j \in Jobs, fire \in Nat : Recalls(log, j, fire) => Recalls(q, j, fire)
  <2> SUFFICES ASSUME NEW j \in Jobs, NEW fire \in Nat, Recalls(log, j, fire)
               PROVE  Recalls(q, j, fire)
    OBVIOUS
  <2>1. PICK k \in DOMAIN log : /\ log[k].id.job = j
                                /\ log[k].state = "succeeded"
                                /\ log[k].id.fire >= fire
    BY DEF Recalls
  <2>2. log[k] \in L
    <3>1. \A l \in (k + 1) .. Len(log) : log[l].id # log[k].id
      BY <1>1, <1>8, <2>1 DEF FinalsLast, Final
    <3> QED BY <3>1 DEF LatestRecords
  <2> DEFINE T == {r \in L : r.state = "succeeded" /\ r.id.job = j}
  <2>3. log[k] \in T
    BY <2>1, <2>2
  <2>4. DistinctRuns(T)
    <3>1. T \in SUBSET L
      OBVIOUS
    <3> HIDE DEF T, L
    <3>2. IsFiniteSet(T)
      BY <1>1, <3>1, FS_Subset DEF DistinctRuns
    <3> QED BY <1>1, <3>1, <3>2 DEF DistinctRuns
  <2>5. PICK m \in T : \A s \in T : s # m => OldestFirst(s, m)
    <3> HIDE DEF T
    <3> QED BY <2>3, <2>4, NewestRecord
  <2>6. m \in BestSuccesses(L)
    BY <2>5 DEF BestSuccesses
  <2>7. m.id.fire >= log[k].id.fire
    <3>1. m = log[k] \/ OldestFirst(log[k], m)
      BY <2>3, <2>5
    <3>2. m.id.fire \in Int /\ log[k].id.fire \in Int
      <4>1. m \in Rec /\ log[k] \in Rec
        <5> HIDE DEF T
        <5> QED BY <2>3, <2>4, <2>5 DEF DistinctRuns
      <4> QED BY <4>1, IdFields, TimesAssumption DEF Rec
    <3> QED BY <3>1, <3>2 DEF OldestFirst
  <2>8. PICK i \in DOMAIN q : q[i] = m
    <3> HIDE DEF q
    <3> QED BY <1>3, <2>6 DEF Lists
  <2>9. m.id.fire \in Int /\ log[k].id.fire \in Int
    <3>1. m \in Rec /\ log[k] \in Rec
      <4> HIDE DEF T
      <4> QED BY <2>3, <2>4, <2>5 DEF DistinctRuns
    <3> QED BY <3>1, IdFields, TimesAssumption DEF Rec
  <2>10. m.id.fire >= fire
    BY <2>1, <2>7, <2>9
  <2>11. m.state = "succeeded" /\ m.id.job = j
    BY <2>5
  <2> HIDE DEF q
  <2> QED BY <2>8, <2>10, <2>11 DEF Recalls
<1>9. FinalsLast(q)
  <2> HIDE DEF q
  <2>1. DOMAIN q = 1 .. Len(q) /\ Len(q) \in Nat
    BY <1>4
  <2> QED BY <2>1, <1>5 DEF FinalsLast
<1> HIDE DEF q
<1>10. Kept(log, q)
  BY <1>4, <1>6, <1>7, <1>8, <1>9 DEF Kept
<1> QED BY <1>10 DEF q

LEMMA BoundedIsKept ==
  ASSUME NEW log \in Seq(Rec)
  PROVE  Kept(log, Bounded(log))
<1>1. CASE Compacts(log)
  BY <1>1, RetainedIsKept DEF Bounded
<1>2. CASE ~Compacts(log)
  <2>1. Bounded(log) = log
    BY <1>2 DEF Bounded
  <2>2. Kept(log, log)
    BY DEF Kept
  <2> QED BY <2>1, <2>2
<1> QED BY <1>1, <1>2

\* The new ledger is the old with one more record, compacted or not.
Extended(old, r, new) ==
    /\ new \in Seq(Rec)
    /\ \A s \in LatestRecords(new) : (s \in LatestRecords(old) /\ s.id # r.id) \/ s = r
    /\ \A i \in DOMAIN new : new[i] = r \/ \E k \in DOMAIN old : old[k] = new[i]
    /\ FinalsLast(old) /\ NoFinal(old, r.id) =>
          /\ FinalsLast(new)
          /\ \A j \in Jobs, fire \in Nat :
                (Recalls(old, j, fire) \/ (r.state = "succeeded" /\ r.id.job = j /\ r.id.fire >= fire))
                   => Recalls(new, j, fire)

LEMMA AppendExtends ==
  ASSUME NEW log \in Seq(Rec), NEW r \in Rec
  PROVE  Extended(log, r, Append(log, r))
<1> DEFINE n == Len(log)
           new == Append(log, r)
<1>1. /\ n \in Nat /\ new \in Seq(Rec) /\ Len(new) = n + 1
      /\ DOMAIN new = 1 .. (n + 1) /\ DOMAIN log = 1 .. n
      /\ new[n + 1] = r /\ \A i \in 1 .. n : new[i] = log[i]
  OBVIOUS
<1> HIDE DEF new
<1>2. \A s \in LatestRecords(new) : (s \in LatestRecords(log) /\ s.id # r.id) \/ s = r
  <2> SUFFICES ASSUME NEW s \in LatestRecords(new), s # r
               PROVE  s \in LatestRecords(log) /\ s.id # r.id
    OBVIOUS
  <2>1. PICK k \in 1 .. (n + 1) : new[k] = s /\ \A l \in (k + 1) .. (n + 1) : new[l].id # new[k].id
    BY <1>1 DEF LatestRecords
  <2>2. k \in 1 .. n /\ log[k] = s
    BY <2>1, <1>1
  <2>3. s.id # r.id
    BY <2>1, <2>2, <1>1
  <2>4. \A l \in (k + 1) .. n : log[l].id # log[k].id
    BY <2>1, <2>2, <1>1
  <2>5. s \in LatestRecords(log)
    BY <2>2, <2>4, <1>1 DEF LatestRecords
  <2> QED BY <2>3, <2>5
<1>3. \A i \in DOMAIN new : new[i] = r \/ \E k \in DOMAIN log : log[k] = new[i]
  BY <1>1
<1>4. ASSUME FinalsLast(log), NoFinal(log, r.id) PROVE FinalsLast(new)
  <2> SUFFICES ASSUME NEW i \in 1 .. (n + 1), NEW l \in 1 .. (n + 1),
                      new[i].state \in Final, new[l].id = new[i].id
               PROVE  l <= i
    BY <1>1 DEF FinalsLast
  <2>1. CASE i = n + 1
    BY <2>1, <1>1
  <2>2. CASE i # n + 1 /\ l # n + 1
    BY SMTT(30), <2>2, <1>1, <1>4 DEF FinalsLast
  <2>3. CASE i # n + 1 /\ l = n + 1
    BY <2>3, <1>1, <1>4 DEF NoFinal
  <2> QED BY <2>1, <2>2, <2>3
<1>5. ASSUME NEW j \in Jobs, NEW fire \in Nat,
             Recalls(log, j, fire) \/ (r.state = "succeeded" /\ r.id.job = j /\ r.id.fire >= fire)
      PROVE  Recalls(new, j, fire)
  <2>1. CASE Recalls(log, j, fire)
    BY <2>1, <1>1 DEF Recalls
  <2>2. CASE ~Recalls(log, j, fire)
    BY <2>2, <1>1, <1>5 DEF Recalls
  <2> QED BY <2>1, <2>2
<1>6. Extended(log, r, new)
  BY <1>1, <1>2, <1>3, <1>4, <1>5 DEF Extended
<1> QED BY <1>6 DEF new

LEMMA AppendedExtends ==
  ASSUME NEW log \in Seq(Rec), NEW r \in Rec
  PROVE  Extended(log, r, Appended(log, r))
<1> DEFINE mid == Append(log, r)
           new == Bounded(mid)
<1>1. mid \in Seq(Rec) /\ Extended(log, r, mid)
  BY AppendExtends
<1>2. Kept(mid, new)
  BY <1>1, BoundedIsKept
<1> HIDE DEF mid, new
<1>3. /\ new \in Seq(Rec)
      /\ \A s \in LatestRecords(new) : (s \in LatestRecords(log) /\ s.id # r.id) \/ s = r
      /\ \A i \in DOMAIN new : new[i] = r \/ \E k \in DOMAIN log : log[k] = new[i]
  <2>1. \A i \in DOMAIN new : \E k \in DOMAIN mid : mid[k] = new[i]
    BY <1>2 DEF Kept
  <2>2. \A i \in DOMAIN mid : mid[i] = r \/ \E k \in DOMAIN log : log[k] = mid[i]
    BY <1>1 DEF Extended
  <2> QED BY <1>1, <1>2, <2>1, <2>2 DEF Kept, Extended
<1>4. ASSUME FinalsLast(log), NoFinal(log, r.id)
      PROVE  /\ FinalsLast(new)
             /\ \A j \in Jobs, fire \in Nat :
                (Recalls(log, j, fire) \/ (r.state = "succeeded" /\ r.id.job = j /\ r.id.fire >= fire))
                   => Recalls(new, j, fire)
  <2>1. /\ FinalsLast(mid)
        /\ \A j \in Jobs, fire \in Nat :
              (Recalls(log, j, fire) \/ (r.state = "succeeded" /\ r.id.job = j /\ r.id.fire >= fire))
                 => Recalls(mid, j, fire)
    BY <1>1, <1>4 DEF Extended
  <2>2. /\ FinalsLast(new)
        /\ \A j \in Jobs, fire \in Nat : Recalls(mid, j, fire) => Recalls(new, j, fire)
    BY <1>2, <2>1 DEF Kept
  <2> QED BY <2>1, <2>2
<1>5. Extended(log, r, new)
  BY <1>3, <1>4 DEF Extended
<1> QED BY <1>5 DEF new, mid, Appended

\* A recovery is a sequence of ledgers: each has one more of the records.
IsRecovery(stages, log, ints) ==
    /\ stages[0] = log
    /\ \A k \in 0 .. (Len(ints) - 1) : stages[k + 1] = Appended(stages[k], ints[k + 1])

LEMMA GreatestNumber ==
  ASSUME NEW n \in Nat, NEW S \in SUBSET (0 .. n), S # {}
  PROVE  Max(S) \in S /\ \A x \in S : Max(S) >= x
<1> DEFINE HasOne(T) == \E x \in T : \A y \in T : x >= y
           U == {m \in Nat : \A T \in SUBSET (0 .. m) : T # {} => HasOne(T)}
<1>1. 0 \in U
  <2> SUFFICES ASSUME NEW T \in SUBSET (0 .. 0), T # {} PROVE HasOne(T)
    OBVIOUS
  <2>1. 0 .. 0 = {0}
    OBVIOUS
  <2>2. \A x \in T : x = 0
    BY <2>1
  <2>3. PICK x \in T : TRUE
    OBVIOUS
  <2>4. \A y \in T : x >= y
    BY <2>2
  <2> QED BY <2>4
<1>2. ASSUME NEW m \in Nat, m \in U PROVE m + 1 \in U
  <2> SUFFICES ASSUME NEW T \in SUBSET (0 .. (m + 1)), T # {} PROVE HasOne(T)
    OBVIOUS
  <2>1. CASE m + 1 \in T
    BY <2>1
  <2>2. CASE m + 1 \notin T
    <3>1. T \in SUBSET (0 .. m)
      BY <2>2
    <3> QED BY <3>1, <1>2
  <2> QED BY <2>1, <2>2
<1> HIDE DEF HasOne
<1>3. Nat \subseteq U
  <2> HIDE DEF U
  <2> QED BY <1>1, <1>2, AllNumbers
<1>4. HasOne(S)
  BY <1>3
<1>5. \E x \in S : \A y \in S : x >= y
  BY <1>4 DEF HasOne
<1> QED BY <1>5 DEF Max

LEMMA RecoveryByStages ==
  ASSUME NEW log \in Seq(Rec), NEW ints \in Seq(Rec)
  PROVE  \E stages : IsRecovery(stages, log, ints)
                     /\ FoldLeft(Appended, log, ints) = stages[Len(ints)]
<1> DEFINE n == Len(ints)
           D == DOMAIN ints
           Body(it, s) == IF s = {} THEN log ELSE Appended(it[s \ {Max(s)}], ints[Max(s)])
           Solves(it, m) == \A s \in SUBSET D : Cardinality(s) <= m => it[s] = Body(it, s)
           M == {m \in Nat : \E it : Solves(it, m)}
<1>1. n \in Nat /\ D = 1 .. n /\ IsFiniteSet(D) /\ Cardinality(D) = n
  <2>1. n \in Nat /\ D = 1 .. n
    OBVIOUS
  <2> HIDE DEF n, D
  <2>3. IsFiniteSet(1 .. n) /\ Cardinality(1 .. n) = IF 1 > n THEN 0 ELSE n - 1 + 1
    BY <2>1, FS_Interval
  <2> QED BY <2>1, <2>3
<1>2. \A s \in SUBSET D : s # {} => Max(s) \in s
  <2> SUFFICES ASSUME NEW s \in SUBSET D, s # {} PROVE Max(s) \in s
    OBVIOUS
  <2>1. s \in SUBSET (0 .. n)
    BY <1>1
  <2> QED BY <1>1, <2>1, GreatestNumber
<1>3. \A s \in SUBSET D : IsFiniteSet(s) /\ Cardinality(s) \in Nat /\ Cardinality(s) <= n
                          /\ (Cardinality(s) = 0 => s = {})
  <2> HIDE DEF D, n
  <2> SUFFICES ASSUME NEW s \in SUBSET D
               PROVE  IsFiniteSet(s) /\ Cardinality(s) \in Nat /\ Cardinality(s) <= n
                      /\ (Cardinality(s) = 0 => s = {})
    OBVIOUS
  <2>1. IsFiniteSet(s) /\ Cardinality(s) <= n
    BY <1>1, FS_Subset
  <2>2. Cardinality(s) \in Nat
    BY <2>1, FS_CardinalityType
  <2> QED BY <2>1, <2>2, FS_EmptySet
<1>4. \A s \in SUBSET D : s # {} => Cardinality(s \ {Max(s)}) = Cardinality(s) - 1
  <2> HIDE DEF D, n
  <2> QED BY <1>2, <1>3, FS_RemoveElement
<1> HIDE DEF D, n
<1>5. 0 \in M
  <2> DEFINE it == [s \in SUBSET D |-> log]
  <2>1. Solves(it, 0)
    <3> SUFFICES ASSUME NEW s \in SUBSET D, Cardinality(s) <= 0 PROVE it[s] = Body(it, s)
      OBVIOUS
    <3>1. s = {}
      BY <1>3
    <3> QED BY <3>1
  <2> HIDE DEF it, Solves
  <2> QED BY <2>1
<1>6. ASSUME NEW m \in Nat, m \in M PROVE m + 1 \in M
  <2>1. PICK it : Solves(it, m)
    BY <1>6
  <2> DEFINE next == [s \in SUBSET D |-> Body(it, s)]
  <2>2. \A s \in SUBSET D : next[s] = Body(it, s)
    OBVIOUS
  <2> HIDE DEF next
  <2>3. Solves(next, m + 1)
    <3> SUFFICES ASSUME NEW s \in SUBSET D, Cardinality(s) <= m + 1 PROVE next[s] = Body(next, s)
      OBVIOUS
    <3>1. CASE s = {}
      BY <3>1, <2>2
    <3>2. CASE s # {}
      <4> DEFINE t == s \ {Max(s)}
      <4>1. t \in SUBSET D /\ Cardinality(t) <= m
        BY <3>2, <1>3, <1>4
      <4>2. it[t] = Body(it, t)
        BY <4>1, <2>1
      <4>3. next[t] = it[t]
        BY <4>1, <4>2, <2>2
      <4>4. next[s] = Appended(it[t], ints[Max(s)])
        BY <3>2, <2>2
      <4> QED BY <3>2, <4>3, <4>4
    <3> QED BY <3>1, <3>2
  <2> HIDE DEF Solves
  <2> QED BY <2>3
<1>7. PICK some : Solves(some, n)
  <2>1. Nat \subseteq M
    <3> HIDE DEF M
    <3> QED BY <1>5, <1>6, AllNumbers
  <2> HIDE DEF Solves
  <2> QED BY <2>1, <1>1
<1> DEFINE fold == [s \in SUBSET D |-> some[s]]
           iter == CHOOSE it : it = [s \in SUBSET D |-> Body(it, s)]
<1>8. fold = [s \in SUBSET D |-> Body(fold, s)]
  <2>1. \A s \in SUBSET D : some[s] = Body(some, s)
    BY <1>3, <1>7
  <2>2. \A s \in SUBSET D : Body(some, s) = Body(fold, s)
    OBVIOUS
  <2> QED BY <2>1, <2>2
<1>9. iter = [s \in SUBSET D |-> Body(iter, s)]
  <2> HIDE DEF fold, Body
  <2> QED BY <1>8
<1>10. FoldLeft(Appended, log, ints) = iter[D]
  BY DEF FoldLeft, MapThenFoldSet, D
<1> HIDE DEF iter
<1>11. iter[{}] = log
  BY <1>9
<1>12. ASSUME NEW k \in 0 .. (n - 1)
       PROVE  iter[1 .. (k + 1)] = Appended(iter[1 .. k], ints[k + 1])
  <2> DEFINE s == 1 .. (k + 1)
  <2>1. k \in Nat /\ s \in SUBSET D /\ s # {} /\ s \in SUBSET (0 .. n)
    <3>1. k \in Nat /\ k + 1 \in s /\ k + 1 <= n
      BY <1>1
    <3>2. s \subseteq 1 .. n
      BY <1>1, <3>1
    <3>3. 1 .. n \subseteq 0 .. n
      BY <1>1
    <3> QED BY <1>1, <3>1, <3>2, <3>3
  <2>2. Max(s) = k + 1
    <3>1. Max(s) \in s /\ \A x \in s : Max(s) >= x
      <4> HIDE DEF s
      <4> QED BY <1>1, <2>1, GreatestNumber
    <3> QED BY <2>1, <3>1
  <2>3. s \ {k + 1} = 1 .. k
    BY <2>1
  <2> HIDE DEF s
  <2>4. iter[s] = Body(iter, s)
    <3> HIDE DEF Body
    <3> QED BY <1>9, <2>1
  <2> QED BY <2>1, <2>2, <2>3, <2>4 DEF s
<1> DEFINE stages == [k \in 0 .. n |-> iter[1 .. k]]
<1>13. 1 .. 0 = {}
  OBVIOUS
<1>14. IsRecovery(stages, log, ints)
  <2>1. stages[0] = log
    BY <1>1, <1>11, <1>13
  <2>2. \A k \in 0 .. (n - 1) : stages[k + 1] = Appended(stages[k], ints[k + 1])
    BY <1>1, <1>12
  <2> HIDE DEF stages
  <2> QED BY <2>1, <2>2 DEF IsRecovery, n
<1>15. FoldLeft(Appended, log, ints) = stages[n]
  BY <1>1, <1>10
<1> QED BY <1>14, <1>15 DEF n

-----------------------------------------------------------------------------
(* The ledger's part of the invariant.                                      *)

\* A record that tells the truth of its run can be added.
Addable(log, r, eff) ==
    /\ r \in Rec
    /\ TellsTruth(r, eff)
    /\ ~SameMillis => NoFinal(log, r.id) /\ (r.state \in Final => r.id \in DOMAIN eff)

LEMMA LogGrows ==
  ASSUME NEW log, NEW new, NEW r, NEW eff, NEW kn \in [Jobs -> Nat],
         LogInv(log, eff, kn), Extended(log, r, new), Addable(log, r, eff)
  PROVE  /\ LogInv(new, eff, kn)
         /\ \A kn2 \in [Jobs -> Nat] :
               /\ r.state = "succeeded"
               /\ \A j \in Jobs : kn2[j] = kn[j] \/ (j = r.id.job /\ kn2[j] = r.id.fire)
               => LogInv(new, eff, kn2)
<1>1. new \in Seq(Rec) /\ \A s \in LatestRecords(new) : TellsTruth(s, eff)
  BY DEF LogInv, Extended, Addable
<1>2. ASSUME ~SameMillis PROVE FinalsLast(new) /\ FinalsCounted(new, eff)
  <2>1. FinalsLast(new)
    BY <1>2 DEF LogInv, Extended, Addable
  <2>2. FinalsCounted(new, eff)
    BY <1>2 DEF LogInv, Extended, Addable, FinalsCounted
  <2> QED BY <2>1, <2>2
<1>3. ASSUME ~SameMillis,
             NEW kn2 \in [Jobs -> Nat],
             \A j \in Jobs : \/ kn2[j] = kn[j]
                             \/ r.state = "succeeded" /\ j = r.id.job /\ kn2[j] = r.id.fire
      PROVE  Remembers(new, kn2)
  <2> SUFFICES ASSUME NEW j \in Jobs, kn2[j] # 0 PROVE Recalls(new, j, kn2[j])
    BY DEF Remembers
  <2>1. \A fire \in Nat :
           (Recalls(log, j, fire) \/ (r.state = "succeeded" /\ r.id.job = j /\ r.id.fire >= fire))
              => Recalls(new, j, fire)
    BY <1>3 DEF LogInv, Extended, Addable
  <2>2. CASE kn2[j] = kn[j]
    <3>1. Recalls(log, j, kn[j])
      BY <1>3, <2>2 DEF LogInv, Remembers
    <3> QED BY <2>1, <2>2, <3>1
  <2>3. CASE r.state = "succeeded" /\ j = r.id.job /\ kn2[j] = r.id.fire
    <3>1. r.id.fire >= kn2[j]
      BY <2>3
    <3> QED BY <2>1, <2>3, <3>1
  <2> QED BY <1>3, <2>2, <2>3
<1>4. LogInv(new, eff, kn)
  BY <1>1, <1>2, <1>3 DEF LogInv
<1>5. ASSUME NEW kn2 \in [Jobs -> Nat], r.state = "succeeded",
             \A j \in Jobs : kn2[j] = kn[j] \/ (j = r.id.job /\ kn2[j] = r.id.fire)
      PROVE  LogInv(new, eff, kn2)
  BY <1>1, <1>2, <1>3, <1>5 DEF LogInv
<1> QED BY <1>4, <1>5

LEMMA LogBounded ==
  ASSUME NEW log, NEW eff, NEW kn \in [Jobs -> Nat], LogInv(log, eff, kn)
  PROVE  LogInv(Bounded(log), eff, kn)
<1> DEFINE new == Bounded(log)
<1>1. Kept(log, new)
  BY BoundedIsKept DEF LogInv
<1> HIDE DEF new
<1>2. new \in Seq(Rec) /\ \A s \in LatestRecords(new) : TellsTruth(s, eff)
  BY <1>1 DEF LogInv, Kept
<1>3. ASSUME ~SameMillis PROVE FinalsLast(new) /\ FinalsCounted(new, eff) /\ Remembers(new, kn)
  <2>1. FinalsLast(new)
    BY <1>1, <1>3 DEF LogInv, Kept
  <2>2. FinalsCounted(new, eff)
    BY <1>1, <1>3 DEF LogInv, Kept, FinalsCounted
  <2>3. Remembers(new, kn)
    BY <1>1, <1>3 DEF LogInv, Kept, Remembers
  <2> QED BY <2>1, <2>2, <2>3
<1>4. LogInv(new, eff, kn)
  BY <1>2, <1>3 DEF LogInv
<1> QED BY <1>4 DEF new

-----------------------------------------------------------------------------
(* Opening a ledger.                                                        *)

\* recover_interrupted lists the runs that were active, each once.
LEMMA InterruptionsFacts ==
  ASSUME NEW log, NEW eff, NEW kn, LogInv(log, eff, kn)
  PROVE  /\ Interruptions(log) \in Seq(Rec)
         /\ \A k \in 1 .. Len(Interruptions(log)) : Interruptions(log)[k].state = "interrupted"
         /\ \A r \in LatestRecords(log) : r.state \in Active =>
               \E k \in 1 .. Len(Interruptions(log)) : Interruptions(log)[k].id = r.id
         /\ ~SameMillis => \A k \in 1 .. Len(Interruptions(log)) : NoFinal(log, Interruptions(log)[k].id)
<1> DEFINE L == LatestRecords(log)
           A == {r \in L : r.state \in Active}
           S == {Record(r.id, "interrupted") : r \in A}
           ints == Interruptions(log)
           f == [r \in A |-> Record(r.id, "interrupted")]
<1>1. log \in Seq(Rec) /\ DistinctRuns(L)
  BY Latest DEF LogInv
<1>2. IsFiniteSet(A)
  <2>1. A \in SUBSET L
    OBVIOUS
  <2> HIDE DEF A, L
  <2> QED BY <1>1, <2>1, FS_Subset DEF DistinctRuns
<1>3. f \in Surjection(A, S)
  BY DEF Surjection
<1>4. IsFiniteSet(S)
  <2> HIDE DEF f, A, S
  <2> QED BY <1>2, <1>3, FS_Surjection
<1>5. \A s \in S : s \in Rec /\ s.state = "interrupted" /\ \E r \in A : r.id = s.id /\ s = Record(r.id, "interrupted")
  BY <1>1 DEF DistinctRuns, Rec, Record, States
<1>6. DistinctRuns(S)
  <2> HIDE DEF S, A
  <2> QED BY <1>4, <1>5 DEF DistinctRuns
<1>7. Lists(ints, S)
  BY <1>6, OldestFirstLists DEF Interruptions
<1>8. \A r \in A : Record(r.id, "interrupted") \in S /\ Record(r.id, "interrupted").id = r.id
  BY DEF Record
<1> HIDE DEF ints, S
<1>9. ints \in Seq(S) /\ DOMAIN ints = 1 .. Len(ints) /\ \A k \in 1 .. Len(ints) : ints[k] \in S
  BY <1>7 DEF Lists
<1>10. ints \in Seq(Rec)
  <2>1. S \subseteq Rec
    BY <1>6 DEF DistinctRuns
  <2> QED BY <1>9, <2>1
<1>11. \A k \in 1 .. Len(ints) : ints[k].state = "interrupted"
  BY <1>5, <1>9
<1>12. \A r \in A : \E k \in 1 .. Len(ints) : ints[k].id = r.id
  <2> SUFFICES ASSUME NEW r \in A PROVE \E k \in 1 .. Len(ints) : ints[k].id = r.id
    OBVIOUS
  <2>1. PICK k \in 1 .. Len(ints) : ints[k] = Record(r.id, "interrupted")
    BY <1>7, <1>8, <1>9 DEF Lists
  <2> QED BY <1>8, <2>1
<1>13. ASSUME ~SameMillis, NEW k \in 1 .. Len(ints) PROVE NoFinal(log, ints[k].id)
  <2>1. PICK r \in A : r.id = ints[k].id
    BY <1>5, <1>9
  <2>2. PICK i \in DOMAIN log : log[i] = r /\ \A l \in (i + 1) .. Len(log) : log[l].id # log[i].id
    BY DEF LatestRecords
  <2>3. FinalsLast(log)
    BY <1>13 DEF LogInv
  <2>4. DOMAIN log = 1 .. Len(log) /\ Len(log) \in Nat
    BY <1>1
  <2>5. r.state \notin Final
    BY DEF Active, Final
  <2> SUFFICES ASSUME NEW l \in DOMAIN log, log[l].id = r.id, log[l].state \in Final
               PROVE  FALSE
    BY <2>1 DEF NoFinal
  <2>6. i <= l
    BY <2>2, <2>3 DEF FinalsLast
  <2>7. l # i
    BY <2>2, <2>5
  <2>8. l \in (i + 1) .. Len(log)
    BY <2>4, <2>6, <2>7
  <2> QED BY <2>2, <2>8
<1> QED BY <1>10, <1>11, <1>12, <1>13 DEF ints

\* A run that was active is recorded as interrupted, whatever is compacted away
\* between two such records.
LEMMA Recovering ==
  ASSUME NEW log, NEW eff, NEW kn \in [Jobs -> Nat], LogInv(log, eff, kn)
  PROVE  /\ LogInv(Recovered(log), eff, kn)
         /\ \A r \in LatestRecords(Recovered(log)) : r.state \notin Active
<1> DEFINE ints == Interruptions(log)
           n == Len(ints)
<1>1. /\ ints \in Seq(Rec)
      /\ \A k \in 1 .. n : ints[k].state = "interrupted"
      /\ \A r \in LatestRecords(log) : r.state \in Active => \E k \in 1 .. n : ints[k].id = r.id
      /\ ~SameMillis => \A k \in 1 .. n : NoFinal(log, ints[k].id)
  BY InterruptionsFacts
<1>2. log \in Seq(Rec)
  BY DEF LogInv
<1> HIDE DEF ints
<1>3. PICK stages : IsRecovery(stages, log, ints) /\ FoldLeft(Appended, log, ints) = stages[n]
  BY <1>1, <1>2, RecoveryByStages
<1>4. n \in Nat /\ \A k \in 1 .. n : ints[k] \in Rec
  BY <1>1
<1> DEFINE Good(k) == /\ LogInv(stages[k], eff, kn)
                      /\ \A r \in LatestRecords(stages[k]) :
                            r.state \in Active => \E l \in (k + 1) .. n : ints[l].id = r.id
                      /\ ~SameMillis => \A l \in 1 .. n : NoFinal(stages[k], ints[l].id)
           U == {k \in Nat : k <= n => Good(k)}
<1>5. 0 \in U
  <2>1. stages[0] = log
    BY <1>3 DEF IsRecovery
  <2>2. Good(0)
    BY <1>1, <2>1
  <2> QED BY <2>2
<1>6. ASSUME NEW k \in Nat, k \in U PROVE k + 1 \in U
  <2> SUFFICES ASSUME k + 1 <= n PROVE Good(k + 1)
    OBVIOUS
  <2> DEFINE old == stages[k]
             new == stages[k + 1]
             r == ints[k + 1]
  <2>1. k \in 0 .. (n - 1) /\ k + 1 \in 1 .. n /\ k <= n
    BY <1>4
  <2>2. Good(k)
    BY <1>6, <2>1
  <2>3. new = Appended(old, r)
    BY <1>3, <2>1 DEF IsRecovery
  <2>4. r \in Rec /\ r.state = "interrupted"
    BY <1>1, <1>4, <2>1
  <2>5. Extended(old, r, new)
    BY <2>2, <2>3, <2>4, AppendedExtends DEF LogInv
  <2>6. Addable(old, r, eff)
    BY <2>1, <2>2, <2>4 DEF Addable, TellsTruth, Final
  <2>7. LogInv(new, eff, kn)
    <3> HIDE DEF old, new, r
    <3>1. LogInv(old, eff, kn)
      BY <2>2 DEF old
    <3> QED BY <2>5, <2>6, <3>1, LogGrows
  <2>8. ASSUME NEW s \in LatestRecords(new), s.state \in Active
        PROVE  \E l \in (k + 2) .. n : ints[l].id = s.id
    <3>1. s \in LatestRecords(old) /\ s.id # r.id
      BY <2>4, <2>5, <2>8 DEF Extended, Active
    <3>2. PICK l \in (k + 1) .. n : ints[l].id = s.id
      BY <2>2, <2>8, <3>1
    <3>3. l \in (k + 2) .. n
      BY <3>1, <3>2
    <3> QED BY <3>2, <3>3
  <2>9. ASSUME ~SameMillis, NEW l \in 1 .. n PROVE NoFinal(new, ints[l].id)
    BY SMTT(30), <2>2, <2>4, <2>5, <2>9 DEF Extended, NoFinal, Final
  <2>10. (k + 1) + 1 = k + 2
    OBVIOUS
  <2> HIDE DEF new
  <2>11. Good(k + 1)
    BY <2>7, <2>8, <2>9, <2>10 DEF new
  <2> QED BY <2>11
<1>7. Good(n)
  <2>1. Nat \subseteq U
    <3> HIDE DEF U
    <3> QED BY <1>5, <1>6, AllNumbers
  <2> HIDE DEF Good
  <2> QED BY <2>1, <1>4
<1>8. Recovered(log) = stages[n]
  BY <1>3 DEF Recovered, ints
<1>9. /\ LogInv(Recovered(log), eff, kn)
      /\ \A r \in LatestRecords(Recovered(log)) : r.state \notin Active
  BY <1>4, <1>7, <1>8
<1> QED BY <1>9

LEMMA Opening ==
  ASSUME NEW file, NEW eff, NEW kn \in [Jobs -> Nat], LogInv(Replayed(file), eff, kn)
  PROVE  /\ LogInv(Opened(file), eff, kn)
         /\ \A r \in LatestRecords(Opened(file)) : r.state \notin Active
<1> DEFINE log == Recovered(Replayed(file))
<1>1. LogInv(log, eff, kn) /\ \A r \in LatestRecords(log) : r.state \notin Active
  BY Recovering
<1> HIDE DEF log
<1>2. LogInv(Bounded(log), eff, kn)
  BY <1>1, LogBounded
<1>3. LatestRecords(Bounded(log)) \subseteq LatestRecords(log)
  BY <1>1, BoundedIsKept DEF LogInv, Kept
<1> QED BY <1>1, <1>2, <1>3 DEF Opened, log

\* Replay reads whole frames as they are, and stops at a torn one.
LEMMA Replay ==
  ASSUME NEW log \in Seq(Rec)
  PROVE  Replayed(log) = log /\ Replayed(Append(log, Torn)) = log
<1> DEFINE n == Len(log)
           file == Append(log, Torn)
           torn == {i \in DOMAIN file : file[i] = Torn}
<1>1. n \in Nat /\ DOMAIN log = 1 .. n /\ \A i \in 1 .. n : log[i] # Torn
  BY DEF Rec, Torn, States, Active
<1>2. /\ DOMAIN file = 1 .. (n + 1) /\ file[n + 1] = Torn
      /\ \A i \in 1 .. n : file[i] = log[i]
  OBVIOUS
<1>3. Replayed(log) = log
  BY <1>1 DEF Replayed
<1> HIDE DEF n, file
<1>4. torn = {n + 1}
  BY <1>1, <1>2
<1>5. Min(torn) = n + 1
  BY <1>1, <1>4 DEF Min
<1>6. SubSeq(file, 1, n) = log
  BY <1>1 DEF n, file
<1>7. Replayed(file) = SubSeq(file, 1, Min(torn) - 1)
  BY <1>4 DEF Replayed
<1>8. Min(torn) - 1 = n
  BY <1>1, <1>5
<1> HIDE DEF torn
<1> QED BY <1>3, <1>6, <1>7, <1>8 DEF file

-----------------------------------------------------------------------------
(* The steps.                                                               *)

\* A run of another id is not disturbed by a record.
LEMMA OtherRunner ==
  ASSUME NEW r, NEW runner, NEW log, NEW eff, NEW rec, NEW new,
         RunnerOK(r, runner, log, eff), Extended(log, rec, new),
         r # NoRun => r.id # rec.id
  PROVE  RunnerOK(r, runner, new, eff)
<1>1. ASSUME r # NoRun, NEW s \in LatestRecords(new), s.id = r.id PROVE s \in LatestRecords(log)
  BY <1>1 DEF Extended
<1>2. ASSUME r # NoRun, NoFinal(log, r.id) PROVE NoFinal(new, r.id)
  BY <1>2 DEF Extended, NoFinal
<1> QED BY <1>1, <1>2 DEF RunnerOK

\* Only the count of one run's steps has changed.
Counted(eff, eff2, id) ==
    /\ DOMAIN eff2 = DOMAIN eff \cup {id}
    /\ \A i \in DOMAIN eff2 : i # id => eff2[i] = eff[i]

\* Nor is it by the steps that are counted for another.
LEMMA OtherCount ==
  ASSUME NEW r, NEW runner, NEW log, NEW eff, NEW eff2, NEW id,
         RunnerOK(r, runner, log, eff),
         Counted(eff, eff2, id),
         r # NoRun => r.id # id
  PROVE  RunnerOK(r, runner, log, eff2)
BY DEF RunnerOK, Counted

LEMMA Counting ==
  ASSUME NEW log, NEW eff, NEW kn, NEW eff2, NEW id,
         LogInv(log, eff, kn),
         Counted(eff, eff2, id),
         \A s \in LatestRecords(log) : s.id = id => s.state \in Active
  PROVE  LogInv(log, eff2, kn)
<1>1. ASSUME NEW r \in LatestRecords(log) PROVE TellsTruth(r, eff2)
  <2>1. TellsTruth(r, eff)
    BY DEF LogInv
  <2>2. CASE r.id = id
    <3>1. r.state \in Active
      BY <2>2
    <3> QED BY <3>1 DEF TellsTruth, Active
  <2>3. CASE r.id # id
    BY <2>1, <2>3 DEF TellsTruth, AppliedIn, Counted
  <2> QED BY <2>2, <2>3
<1>2. ~SameMillis => FinalsCounted(log, eff2)
  BY DEF LogInv, FinalsCounted, Counted
<1> QED BY <1>1, <1>2 DEF LogInv

\* While a run is executed the server is up, and the other's run is another.
LEMMA Executing ==
  ASSUME IInv, NEW runner \in Runners, run[runner].pc \in Stages
  PROVE  /\ status = "up" /\ frames = records /\ Executed(records, run)
         /\ run[runner] # NoRun
         /\ run[runner] \in [pc : Stages, id : Ids, step : Nat]
         /\ \A other \in Runners : (other # runner /\ run[other] # NoRun) => run[other].id # run[runner].id
<1>1. run[runner] # NoRun
  BY DEF NoRun, Stages
<1>2. status = "up"
  BY <1>1 DEF IInv, StateInv
<1>3. \A other \in Runners : run[other] # NoRun => run[other].id.how = Runner(other)
  BY DEF IInv, RunnerOK
<1>4. \A other \in Runners : other # runner => Runner(other) # Runner(runner)
  BY DEF Runners, Runner, Manual, Scheduled
<1>5. run[runner] \in [pc : Stages, id : Ids, step : Nat]
  BY <1>1 DEF IInv, RunnerOK
<1> QED BY <1>1, <1>2, <1>3, <1>4, <1>5 DEF IInv

Logged == {"queued", "running", "succeeded", "failed"}

\* What a runner records of its run is true, and the first end it records.
LEMMA RecordsAreTrue ==
  ASSUME IInv, NEW runner \in Runners, run[runner].pc \in Logged
  PROVE  Addable(records, Record(run[runner].id, run[runner].pc), effects)
<1> DEFINE r == Record(run[runner].id, run[runner].pc)
<1>1. run[runner] # NoRun /\ run[runner] \in [pc : Stages, id : Ids, step : Nat]
  BY Executing DEF Logged, Stages
<1>2. RunnerOK(run[runner], runner, records, effects)
  BY DEF IInv
<1>3. r \in Rec /\ r.id = run[runner].id /\ r.state = run[runner].pc
  BY <1>1 DEF Rec, Record, Logged, States, Active
<1>4. TellsTruth(r, effects)
  BY <1>1, <1>2, <1>3 DEF TellsTruth, AppliedIn, RunnerOK
<1>5. ~SameMillis => NoFinal(records, r.id) /\ (r.state \in Final => r.id \in DOMAIN effects)
  BY <1>1, <1>2, <1>3 DEF RunnerOK, Final
<1> HIDE DEF r
<1>6. Addable(records, r, effects)
  BY <1>3, <1>4, <1>5 DEF Addable
<1> QED BY <1>6 DEF r

\* RunLedger::append leaves the file and the index with the same records.
LEMMA Logging ==
  ASSUME IInv, NEW runner \in Runners, run[runner].pc \in Logged,
         Log(run[runner].id, run[runner].pc)
  PROVE  /\ frames' = records'
         /\ Extended(records, Record(run[runner].id, run[runner].pc), records')
         /\ LogInv(records', effects, known)
<1> DEFINE r == Record(run[runner].id, run[runner].pc)
           next == Append(records, r)
<1>1. frames = records
  BY Executing DEF Logged, Stages
<1>2. Addable(records, r, effects)
  BY RecordsAreTrue
<1>3. LogInv(records, effects, known) /\ known \in [Jobs -> Nat]
  BY DEF IInv, StateInv
<1>4. records' = Bounded(next) /\ frames' = IF Compacts(next) THEN Bounded(next) ELSE Append(frames, r)
  BY DEF Log
<1> HIDE DEF r
<1>5. frames' = records'
  BY <1>1, <1>4 DEF Bounded
<1>6. Extended(records, r, records')
  BY <1>2, <1>3, <1>4, AppendedExtends DEF Appended, Addable, LogInv
<1>7. LogInv(records', effects, known)
  <2>1. PICK new : new = records'
    OBVIOUS
  <2>2. LogInv(new, effects, known)
    BY <1>2, <1>3, <1>6, <2>1, LogGrows
  <2> QED BY <2>1, <2>2
<1> QED BY <1>5, <1>6, <1>7 DEF r

LEMMA InitInv == Init => IInv
<1> SUFFICES ASSUME Init PROVE IInv
  OBVIOUS
<1>1. StateInv
  <2>1. 1 \in 1 .. MaxClock
    BY TimesAssumption
  <2> QED BY <2>1 DEF Init, StateInv
<1>2. records = <<>> /\ frames = <<>> /\ LatestRecords(records) = {} /\ DOMAIN records = {}
  BY DEF Init, LatestRecords
<1>3. LogInv(records, effects, known)
  BY <1>2 DEF Init, LogInv, FinalsLast, FinalsCounted, Remembers
<1>4. Executed(records, run)
  BY <1>2 DEF Executed
<1>5. \A runner \in Runners : RunnerOK(run[runner], runner, records, effects)
  BY DEF Init, RunnerOK
<1>6. status = "up"
  BY DEF Init
<1> QED BY <1>1, <1>2, <1>3, <1>4, <1>5, <1>6 DEF IInv

LEMMA ClockStep == ASSUME IInv, ClockAdvances PROVE IInv'
<1>1. StateInv'
  <2>1. clock' \in 1 .. MaxClock
    BY TimesAssumption DEF IInv, StateInv, ClockAdvances
  <2> QED BY <2>1 DEF IInv, StateInv, ClockAdvances, ledger, ghosts
<1>2. UNCHANGED <<records, frames, due, run, status, effects, known>>
  BY DEF ClockAdvances, ledger, ghosts
<1> QED BY <1>1, <1>2 DEF IInv

LEMMA EditStep == ASSUME IInv, NEW j \in Jobs, EditJob(j) PROVE IInv'
<1>1. PICK s \in {"enabled", "disabled", "absent"} : jobs' = [jobs EXCEPT ![j] = s]
  BY DEF EditJob
<1>3. StateInv'
  <2>1. jobs' \in [Jobs -> {"enabled", "disabled", "absent"}]
    BY <1>1 DEF IInv, StateInv
  <2> QED BY <2>1 DEF IInv, StateInv, EditJob, ledger, ghosts
<1>2. UNCHANGED <<records, frames, due, run, status, effects, known>>
  BY DEF EditJob, ledger, ghosts
<1> QED BY <1>2, <1>3 DEF IInv

\* The tick lists the due jobs by the time they fall due.
LEMMA DueJobsTyped ==
  ASSUME IInv
  PROVE  DueJobs \in Seq(Jobs)
<1> DEFINE S == {j \in Jobs : jobs[j] = "enabled" /\ NextDue(j) <= clock}
           R == {p \in S \X S : DueFirst(p[1], p[2])}
           q == DueJobs
<1>1. \A j \in Jobs : NextDue(j) \in Nat
  <2> SUFFICES ASSUME NEW j \in Jobs PROVE NextDue(j) \in Nat
    OBVIOUS
  <2> DEFINE F == {0} \cup {r.id.fire : r \in Successes(records, j)}
  <2>1. \A r \in Successes(records, j) : r.id.fire \in 1 .. MaxClock
    <3>1. records \in Seq(Rec)
      BY DEF IInv, LogInv
    <3>2. \A r \in Successes(records, j) : r \in Rec
      BY <3>1 DEF Successes, ToSet
    <3> QED BY <3>2, IdFields DEF Rec
  <2>2. F \in SUBSET (0 .. MaxClock) /\ F # {} /\ MaxClock \in Nat
    BY <2>1, TimesAssumption
  <2>3. Max(F) \in F
    <3> HIDE DEF F
    <3> QED BY <2>2, GreatestNumber
  <2>4. LastSucceeded(records, j) \in Nat
    <3>1. LastSucceeded(records, j) = Max(F)
      BY DEF LastSucceeded
    <3> HIDE DEF F
    <3>2. Max(F) \in 0 .. MaxClock
      BY <2>2, <2>3
    <3> QED BY <3>1, <3>2, TimesAssumption
  <2> QED BY <2>4, TimesAssumption DEF NextDue
<1>2. IsFiniteSet(S)
  <2>1. S \in SUBSET Jobs
    OBVIOUS
  <2> HIDE DEF S
  <2> QED BY <2>1, JobsAssumption, FS_Subset
<1>3. \A a, b \in S : <<a, b>> \in R <=> DueFirst(a, b)
  OBVIOUS
<1>4. \A a \in S : a \in Nat /\ NextDue(a) \in Nat /\ a \in Jobs
  BY <1>1, JobsAssumption
<1>5. q = InOrder(S, DueFirst)
  BY DEF DueJobs
<1> HIDE DEF S, R
<1>6. StrictTotal(R, S)
  <2>1. \A a \in S : <<a, a>> \notin R
    BY <1>3, <1>4 DEF DueFirst
  <2>2. \A a, b \in S : a # b => <<a, b>> \in R \/ <<b, a>> \in R
    BY <1>3, <1>4 DEF DueFirst
  <2>3. \A a, b, c \in S : <<a, b>> \in R /\ <<b, c>> \in R => <<a, c>> \in R
    <3> SUFFICES ASSUME NEW a \in S, NEW b \in S, NEW c \in S, <<a, b>> \in R, <<b, c>> \in R
                 PROVE  DueFirst(a, c)
      BY <1>3
    <3>1. DueFirst(a, b) /\ DueFirst(b, c)
      BY <1>3
    <3> QED BY <3>1, <1>4 DEF DueFirst
  <2> QED BY <2>1, <2>2, <2>3 DEF StrictTotal
<1>7. \A r \in S : Rank(R, S, r) = Cardinality({s \in S : DueFirst(s, r)})
  <2> SUFFICES ASSUME NEW r \in S
               PROVE  {s \in S : <<s, r>> \in R} = {s \in S : DueFirst(s, r)}
    BY DEF Rank
  <2> QED BY <1>3
<1>8. \A i \in 1 .. Cardinality(S) : \E r \in S : Cardinality({s \in S : DueFirst(s, r)}) = i - 1
  BY <1>2, <1>6, <1>7, Ranks
<1>9. \A i \in 1 .. Cardinality(S) : q[i] \in Jobs
  <2> SUFFICES ASSUME NEW i \in 1 .. Cardinality(S) PROVE q[i] \in S
    BY <1>4
  <2>1. q[i] = CHOOSE r \in S : Cardinality({s \in S : DueFirst(s, r)}) = i - 1
    BY <1>5 DEF InOrder
  <2> QED BY ONLY <2>1, <1>8
<1>10. q \in [1 .. Cardinality(S) -> Jobs]
  BY <1>5, <1>9 DEF InOrder
<1>11. Cardinality(S) \in Nat
  BY <1>2, FS_CardinalityType
<1> HIDE DEF q
<1>12. q \in Seq(Jobs)
  BY ONLY <1>10, <1>11
<1> QED BY <1>12 DEF q

Firings == [id : {id \in Ids : id.how = Scheduled}, coalesced : BOOLEAN]

LEMMA TickStep == ASSUME IInv, Tick PROVE IInv'
<1>1. DueJobs \in Seq(Jobs) /\ clock \in 1 .. MaxClock
  BY DueJobsTyped DEF IInv, StateInv
<1>2. \A i \in DOMAIN DueJobs : DueFirings[i] \in Firings
  <2> SUFFICES ASSUME NEW i \in DOMAIN DueJobs PROVE DueFirings[i] \in Firings
    OBVIOUS
  <2>1. DueJobs[i] \in Jobs
    BY <1>1
  <2>2. RunId(Scheduled, DueJobs[i], clock) \in Ids
    BY <1>1, <2>1 DEF RunId, Ids
  <2>3. RunId(Scheduled, DueJobs[i], clock).how = Scheduled
    BY DEF RunId
  <2>4. InFlight(records, DueJobs[i]) \in BOOLEAN
    BY DEF InFlight
  <2>5. DueFirings[i] = Firing(RunId(Scheduled, DueJobs[i], clock), InFlight(records, DueJobs[i]))
    BY DEF DueFirings
  <2> QED BY <2>2, <2>3, <2>4, <2>5 DEF Firing, Firings
<1>3. DueFirings \in Seq(Firings)
  <2>1. DOMAIN DueJobs = 1 .. Len(DueJobs) /\ Len(DueJobs) \in Nat
    BY <1>1
  <2>2. DueFirings \in [1 .. Len(DueJobs) -> Firings]
    BY <2>1, <1>2 DEF DueFirings
  <2> QED BY ONLY <2>1, <2>2
<1>4. StateInv'
  BY <1>3 DEF IInv, StateInv, Tick, ledger, ghosts, Firings
<1>5. status = "up" /\ UNCHANGED <<records, frames, run, status, effects, known>>
  BY DEF Tick, ledger, ghosts, Up
<1> QED BY <1>4, <1>5 DEF IInv

LEMMA DispatchStep == ASSUME IInv, Dispatch PROVE IInv'
<1>1. due \in Seq(Firings) /\ due # <<>> /\ due' = Tail(due)
  BY DEF IInv, StateInv, Dispatch, Firings
<1>2. Head(due) \in Firings /\ due' \in Seq(Firings)
  BY <1>1, HeadTailProperties
<1>3. status = "up" /\ UNCHANGED <<clock, jobs, records, frames, status, effects, known>>
  BY DEF Dispatch, ledger, ghosts, Up
<1>4. CASE UNCHANGED run
  <2>1. StateInv'
    BY <1>2, <1>3, <1>4 DEF IInv, StateInv, Firings
  <2> QED BY <1>3, <1>4, <2>1 DEF IInv
<1>5. CASE ~UNCHANGED run
  <2> DEFINE id == Head(due).id
             r == [pc |-> "queued", id |-> id, step |-> 0]
  <2>1. id \in Ids /\ id.how = Scheduled
    BY <1>2 DEF Firings
  <2>2. id \notin Runs(records) /\ run' = [run EXCEPT !["timer"] = r] /\ run["timer"] = NoRun
    BY <1>5 DEF Dispatch, Start
  <2>3. DOMAIN run = Runners /\ "timer" \in Runners
    BY DEF IInv, StateInv, Runners
  <2>4. run'["timer"] = r /\ \A other \in Runners : other # "timer" => run'[other] = run[other]
    BY <2>2, <2>3
  <2>5. RunnerOK(r, "timer", records, effects)
    <3>1. NoFinal(records, id)
      BY <2>2 DEF NoFinal, Runs
    <3>2. r \in [pc : Stages, id : Ids, step : Nat]
      BY <2>1 DEF Stages
    <3> QED BY <2>1, <3>1, <3>2 DEF RunnerOK, Runner
  <2> HIDE DEF r, id
  <2>6. \A runner \in Runners : RunnerOK(run'[runner], runner, records', effects')
    BY <1>3, <2>4, <2>5 DEF IInv
  <2>7. Executed(records', run')
    BY <1>3, <2>2, <2>4 DEF IInv, Executed
  <2>8. StateInv'
    <3>1. DOMAIN run' = Runners
      BY <2>2, <2>3
    <3> QED BY <1>2, <1>3, <3>1 DEF IInv, StateInv, Firings
  <2> QED BY <1>3, <2>6, <2>7, <2>8 DEF IInv
<1> QED BY <1>4, <1>5

LEMMA KickStep == ASSUME IInv, NEW j \in Jobs, Kick(j) PROVE IInv'
<1>1. /\ status = "up" /\ UNCHANGED <<clock, jobs, records, frames, due, status, effects, known>>
      /\ run["kick"] = NoRun
  BY DEF Kick, ledger, ghosts, Up
<1> DEFINE id == RunId(Manual, j, clock)
           r == [pc |-> "queued", id |-> id, step |-> 0]
<1>2. id \in Ids /\ id.how = Manual
  BY DEF IInv, StateInv, RunId, Ids
<1>3. run' = [run EXCEPT !["kick"] = r] /\ (~SameMillis => id \notin DOMAIN effects)
  BY DEF Kick, Start
<1>4. DOMAIN run = Runners /\ "kick" \in Runners
  BY DEF IInv, StateInv, Runners
<1>5. run'["kick"] = r /\ \A other \in Runners : other # "kick" => run'[other] = run[other]
  BY <1>3, <1>4
<1>6. RunnerOK(r, "kick", records, effects)
  <2>1. ~SameMillis => NoFinal(records, id)
    BY <1>3 DEF IInv, LogInv, FinalsCounted, NoFinal
  <2>2. r \in [pc : Stages, id : Ids, step : Nat]
    BY <1>2 DEF Stages
  <2> QED BY <1>2, <2>1, <2>2 DEF RunnerOK, Runner
<1> HIDE DEF r, id
<1>7. \A runner \in Runners : RunnerOK(run'[runner], runner, records', effects')
  BY <1>1, <1>5, <1>6 DEF IInv
<1>8. Executed(records', run')
  BY <1>1, <1>5 DEF IInv, Executed
<1>9. StateInv'
  <2>1. DOMAIN run' = Runners
    BY <1>3, <1>4
  <2> QED BY <1>1, <2>1 DEF IInv, StateInv
<1> QED BY <1>1, <1>7, <1>8, <1>9 DEF IInv

\* A runner that goes on with its run after it recorded that it was queued or
\* running.
LEMMA LogStep ==
  ASSUME IInv, NEW runner \in Runners, NEW pc \in {"running", "look"},
         run[runner].pc \in {"queued", "running"},
         Log(run[runner].id, run[runner].pc), Goto(runner, pc),
         UNCHANGED <<clock, jobs, due, status, ghosts, events>>
  PROVE  IInv'
<1> DEFINE rec == Record(run[runner].id, run[runner].pc)
           r == [run[runner] EXCEPT !.pc = pc]
<1>1. /\ status = "up" /\ Executed(records, run) /\ run[runner] # NoRun
      /\ run[runner] \in [pc : Stages, id : Ids, step : Nat]
      /\ \A other \in Runners : (other # runner /\ run[other] # NoRun) => run[other].id # run[runner].id
  BY Executing DEF Stages
<1>2. frames' = records' /\ Extended(records, rec, records') /\ LogInv(records', effects, known)
  BY Logging DEF Logged
<1>3. rec.id = run[runner].id /\ rec.state = run[runner].pc
  BY DEF Record
<1>4. /\ run' = [run EXCEPT ![runner] = r] /\ DOMAIN run = Runners
      /\ UNCHANGED <<clock, jobs, due, status, effects, known>>
  BY DEF Goto, IInv, StateInv, ghosts
<1>5. run'[runner] = r /\ \A other \in Runners : other # runner => run'[other] = run[other]
  BY <1>4
<1>6. r.id = run[runner].id /\ r.pc = pc /\ r \in [pc : Stages, id : Ids, step : Nat] /\ r # NoRun
  BY <1>1 DEF Stages, NoRun
<1> HIDE DEF rec, r
<1>7. PICK new : new = records'
  OBVIOUS
<1>8. RunnerOK(r, runner, new, effects)
  <2>1. r.id.how = Runner(runner) /\ r.step = 0 /\ (~SameMillis => NoFinal(records, r.id))
    <3>1. RunnerOK(run[runner], runner, records, effects) /\ r.step = run[runner].step
      BY <1>1 DEF IInv, r
    <3> QED BY <1>1, <1>6, <3>1 DEF RunnerOK
  <2>2. ~SameMillis => NoFinal(new, r.id)
    BY <1>2, <1>3, <1>6, <1>7, <2>1 DEF Extended, NoFinal, Final
  <2>3. \A s \in LatestRecords(new) : s.id = r.id => s.state \in Active
    BY <1>2, <1>3, <1>6, <1>7 DEF Extended, Active
  <2> QED BY <1>6, <2>1, <2>2, <2>3 DEF RunnerOK
<1>9. ASSUME NEW other \in Runners, other # runner
      PROVE  RunnerOK(run[other], other, new, effects)
  BY <1>1, <1>2, <1>3, <1>7, <1>9, OtherRunner DEF IInv
<1>10. \A other \in Runners : RunnerOK(run'[other], other, records', effects')
  BY <1>4, <1>5, <1>7, <1>8, <1>9
<1>11. Executed(records', run')
  <2> SUFFICES ASSUME NEW s \in LatestRecords(new), s.state \in Active
               PROVE  \E other \in Runners : run'[other] # NoRun /\ run'[other].id = s.id
    BY <1>7 DEF Executed
  <2>1. CASE s = rec
    BY <2>1, <1>3, <1>5, <1>6
  <2>2. CASE s # rec
    <3>1. s \in LatestRecords(records)
      BY <1>2, <1>7, <2>2 DEF Extended
    <3>2. PICK other \in Runners : run[other] # NoRun /\ run[other].id = s.id
      BY <1>1, <3>1 DEF Executed
    <3> QED BY <1>5, <1>6, <3>2
  <2> QED BY <2>1, <2>2
<1>12. StateInv'
  <2>1. DOMAIN run' = Runners
    BY <1>4
  <2> QED BY <1>4, <2>1 DEF IInv, StateInv
<1> QED BY <1>1, <1>2, <1>4, <1>10, <1>11, <1>12 DEF IInv

\* A runner that goes on without a record, its steps counted.
LEMMA CountStep ==
  ASSUME IInv, NEW runner \in Runners, run[runner].pc \in {"look", "step"},
         NEW r, r \in [pc : Stages, id : Ids, step : Nat], r.id = run[runner].id,
         run' = [run EXCEPT ![runner] = r],
         NEW eff2, effects' = eff2, Counted(effects, eff2, r.id),
         RunnerOK(r, runner, records, eff2),
         UNCHANGED <<clock, jobs, records, frames, due, status, known>>
  PROVE  IInv'
<1>1. /\ status = "up" /\ Executed(records, run) /\ run[runner] # NoRun
      /\ \A other \in Runners : (other # runner /\ run[other] # NoRun) => run[other].id # run[runner].id
  BY Executing DEF Stages
<1>2. DOMAIN run = Runners
  BY DEF IInv, StateInv
<1>3. run'[runner] = r /\ \A other \in Runners : other # runner => run'[other] = run[other]
  BY <1>2
<1>4. \A s \in LatestRecords(records) : s.id = r.id => s.state \in Active
  BY <1>1 DEF IInv, RunnerOK
<1>5. LogInv(records, eff2, known)
  BY <1>4, Counting DEF IInv
<1>6. ASSUME NEW other \in Runners, other # runner
      PROVE  RunnerOK(run[other], other, records, eff2)
  BY <1>1, <1>6, OtherCount DEF IInv
<1>7. \A other \in Runners : RunnerOK(run'[other], other, records', effects')
  BY <1>3, <1>6
<1>8. Executed(records', run')
  <2> SUFFICES ASSUME NEW s \in LatestRecords(records), s.state \in Active
               PROVE  \E other \in Runners : run'[other] # NoRun /\ run'[other].id = s.id
    BY DEF Executed
  <2>1. PICK other \in Runners : run[other] # NoRun /\ run[other].id = s.id
    BY <1>1 DEF Executed
  <2>2. r # NoRun
    BY DEF NoRun
  <2> QED BY <1>3, <2>1, <2>2
<1>9. StateInv'
  <2>1. DOMAIN run' = Runners
    BY <1>2
  <2>2. DOMAIN effects' \subseteq Ids
    BY DEF IInv, StateInv, Counted
  <2> QED BY <2>1, <2>2 DEF IInv, StateInv
<1>10. LogInv(records', effects', known')
  BY <1>5
<1> QED BY <1>1, <1>7, <1>8, <1>9, <1>10 DEF IInv

LEMMA ReadJobStep == ASSUME IInv, NEW runner \in Runners, ReadJob(runner) PROVE IInv'
<1> DEFINE id == run[runner].id
           pc == IF jobs[id.job] = "absent" THEN "failed" ELSE IF Steps = 0 THEN "succeeded" ELSE "step"
           r == [run[runner] EXCEPT !.pc = pc]
           eff2 == [i \in DOMAIN effects \cup {id} |-> IF i = id THEN 0 ELSE effects[i]]
<1>1. /\ run[runner].pc = "look" /\ run[runner] # NoRun
      /\ run[runner] \in [pc : Stages, id : Ids, step : Nat]
      /\ RunnerOK(run[runner], runner, records, effects)
  BY Executing DEF ReadJob, Stages, IInv
<1>2. /\ run' = [run EXCEPT ![runner] = r] /\ effects' = eff2
      /\ UNCHANGED <<clock, jobs, records, frames, due, status, known>>
  BY DEF ReadJob, Goto, Count, ledger
<1>3. pc \in {"failed", "succeeded", "step"} /\ (pc = "succeeded" => Steps = 0) /\ (pc = "step" => Steps # 0)
  OBVIOUS
<1> HIDE DEF pc
<1>4. r \in [pc : Stages, id : Ids, step : Nat] /\ r.id = id /\ r.pc = pc /\ r.step = 0
  BY <1>1, <1>3 DEF Stages, RunnerOK
<1>5. eff2[id] = 0 /\ id \in DOMAIN eff2 /\ Counted(effects, eff2, id)
  BY DEF Counted
<1> HIDE DEF r, eff2
<1>6. RunnerOK(r, runner, records, eff2)
  <2>1. /\ r.id.how = Runner(runner)
        /\ \A s \in LatestRecords(records) : s.id = r.id => s.state \in Active
        /\ ~SameMillis => NoFinal(records, r.id)
    BY <1>1, <1>4 DEF RunnerOK
  <2>2. /\ pc = "step" => 0 < Steps
        /\ pc = "failed" => 0 < Steps \/ Steps = 0
    BY <1>3, CountsAssumption
  <2> QED BY <1>3, <1>4, <1>5, <2>1, <2>2 DEF RunnerOK
<1> HIDE DEF id
<1>7. id = run[runner].id
  BY DEF id
<1> QED BY <1>1, <1>2, <1>4, <1>5, <1>6, <1>7, CountStep

LEMMA ApplyStepStep == ASSUME IInv, NEW runner \in Runners, ApplyStep(runner) PROVE IInv'
<1> DEFINE id == run[runner].id
           n == run[runner].step
           pc == IF n + 1 = Steps THEN "succeeded" ELSE "step"
           r == [run[runner] EXCEPT !.step = n + 1, !.pc = pc]
           eff2 == [i \in DOMAIN effects \cup {id} |-> IF i = id THEN Applied(id) + 1 ELSE effects[i]]
<1>1. /\ run[runner].pc = "step" /\ run[runner] # NoRun
      /\ run[runner] \in [pc : Stages, id : Ids, step : Nat]
      /\ RunnerOK(run[runner], runner, records, effects)
  BY Executing DEF ApplyStep, Stages, IInv
<1>2. /\ run' = [run EXCEPT ![runner] = r] /\ effects' = eff2
      /\ UNCHANGED <<clock, jobs, records, frames, due, status, known>>
  <2>1. /\ effects' = eff2
        /\ UNCHANGED <<clock, jobs, records, frames, due, status, known>>
    BY DEF ApplyStep, Count, ledger
  <2>2. run' = [run EXCEPT ![runner].step = n + 1, ![runner].pc = pc]
    BY DEF ApplyStep
  <2>3. run' = [run EXCEPT ![runner] = r]
    BY <1>1, <2>2 DEF IInv, StateInv
  <2> QED BY <2>1, <2>3
<1>3. id \in DOMAIN effects /\ effects[id] = n /\ n < Steps /\ n \in Nat /\ Applied(id) = n
  BY <1>1 DEF RunnerOK, Applied
<1>4. /\ pc \in {"succeeded", "step"} /\ (pc = "succeeded" => n + 1 = Steps)
      /\ (pc = "step" => n + 1 < Steps)
  BY <1>3, CountsAssumption
<1> HIDE DEF pc
<1>5. r \in [pc : Stages, id : Ids, step : Nat] /\ r.id = id /\ r.pc = pc /\ r.step = n + 1
  <2>1. n + 1 \in Nat /\ pc \in Stages
    BY <1>3, <1>4 DEF Stages
  <2> HIDE DEF n
  <2>2. PICK m \in Nat : m = n + 1
    BY <2>1
  <2>3. r = [run[runner] EXCEPT !.step = m, !.pc = pc]
    BY <2>2
  <2> QED BY ONLY <1>1, <2>1, <2>2, <2>3 DEF id
<1>6. eff2[id] = n + 1 /\ id \in DOMAIN eff2 /\ Counted(effects, eff2, id)
  BY <1>3 DEF Counted
<1> HIDE DEF r, eff2
<1>7. RunnerOK(r, runner, records, eff2)
  <2>1. /\ r.id.how = Runner(runner)
        /\ \A s \in LatestRecords(records) : s.id = r.id => s.state \in Active
        /\ ~SameMillis => NoFinal(records, r.id)
    BY <1>1, <1>5 DEF RunnerOK
  <2> QED BY <1>4, <1>5, <1>6, <2>1 DEF RunnerOK
<1> HIDE DEF id, n
<1>8. id = run[runner].id
  BY DEF id
<1> QED BY <1>1, <1>2, <1>5, <1>6, <1>7, <1>8, CountStep

LEMMA FailStepStep == ASSUME IInv, NEW runner \in Runners, FailStep(runner) PROVE IInv'
<1> DEFINE id == run[runner].id
           r == [run[runner] EXCEPT !.pc = "failed"]
<1>1. /\ run[runner].pc = "step" /\ run[runner] # NoRun
      /\ run[runner] \in [pc : Stages, id : Ids, step : Nat]
      /\ RunnerOK(run[runner], runner, records, effects)
  BY Executing DEF FailStep, Stages, IInv
<1>2. /\ run' = [run EXCEPT ![runner] = r]
      /\ UNCHANGED <<clock, jobs, records, frames, due, status, effects, known>>
  BY DEF FailStep, Goto, ledger, ghosts
<1>3. id \in DOMAIN effects /\ effects[id] < Steps
  BY <1>1 DEF RunnerOK
<1>4. r \in [pc : Stages, id : Ids, step : Nat] /\ r.id = id /\ r.pc = "failed"
  BY <1>1 DEF Stages
<1>5. Counted(effects, effects, id)
  BY <1>3 DEF Counted
<1> HIDE DEF r
<1>6. RunnerOK(r, runner, records, effects)
  <2>1. /\ r.id.how = Runner(runner)
        /\ \A s \in LatestRecords(records) : s.id = r.id => s.state \in Active
        /\ ~SameMillis => NoFinal(records, r.id)
    BY <1>1, <1>4 DEF RunnerOK
  <2> QED BY <1>3, <1>4, <2>1 DEF RunnerOK
<1> HIDE DEF id
<1>7. effects' = effects
  BY <1>2
<1>8. id = run[runner].id
  BY DEF id
<1> QED BY <1>1, <1>2, <1>4, <1>5, <1>6, <1>7, <1>8, CountStep

\* The end of a run is recorded, and a success is known from then on.
LEMMA EndRunStep == ASSUME IInv, NEW runner \in Runners, EndRun(runner) PROVE IInv'
<1> DEFINE id == run[runner].id
           pc == run[runner].pc
           rec == Record(id, pc)
<1>1. pc \in {"succeeded", "failed"} /\ Log(id, pc)
  BY DEF EndRun
<1>2. /\ status = "up" /\ Executed(records, run) /\ run[runner] # NoRun
      /\ run[runner] \in [pc : Stages, id : Ids, step : Nat]
      /\ \A other \in Runners : (other # runner /\ run[other] # NoRun) => run[other].id # id
  BY <1>1, Executing DEF Stages
<1>3. frames' = records' /\ Extended(records, rec, records') /\ LogInv(records', effects, known)
  BY <1>1, Logging DEF Logged
<1>4. Addable(records, rec, effects)
  BY <1>1, RecordsAreTrue DEF Logged
<1>5. /\ run' = [run EXCEPT ![runner] = NoRun] /\ DOMAIN run = Runners
      /\ UNCHANGED <<clock, jobs, due, status, effects>>
  BY DEF EndRun, IInv, StateInv
<1>6. run'[runner] = NoRun /\ \A other \in Runners : other # runner => run'[other] = run[other]
  BY <1>5
<1>7. rec.id = id /\ rec.state = pc /\ id \in Ids
  BY <1>2 DEF Record
<1>8. /\ known' = IF pc = "succeeded" THEN [known EXCEPT ![id.job] = Max({@, id.fire})] ELSE known
      /\ known \in [Jobs -> Nat]
  BY DEF EndRun, IInv, StateInv
<1> HIDE DEF id, pc, rec
<1>9. id.job \in Jobs /\ id.fire \in Nat
  BY <1>7, IdFields, TimesAssumption
<1>10. Max({known[id.job], id.fire}) \in {known[id.job], id.fire}
  <2> DEFINE S == {known[id.job], id.fire}
             n == known[id.job] + id.fire
  <2>1. known[id.job] \in Nat
    BY <1>8, <1>9
  <2>2. n \in Nat /\ S \in SUBSET (0 .. n) /\ S # {}
    BY <1>9, <2>1
  <2>3. Max(S) \in S
    <3> HIDE DEF S, n
    <3> QED BY <2>2, GreatestNumber
  <2> QED BY <2>3
<1>11. PICK kn2 : kn2 = known'
  OBVIOUS
<1>12. PICK new : new = records'
  OBVIOUS
<1>13. kn2 \in [Jobs -> Nat] /\ LogInv(new, effects, kn2)
  <2>1. CASE pc # "succeeded"
    BY <2>1, <1>3, <1>8, <1>11, <1>12
  <2>2. CASE pc = "succeeded"
    <3>1. kn2 = [known EXCEPT ![id.job] = Max({known[id.job], id.fire})]
      BY <2>2, <1>8, <1>11
    <3>2. kn2 \in [Jobs -> Nat]
      BY <3>1, <1>8, <1>9, <1>10
    <3>3. \A j \in Jobs : kn2[j] = known[j] \/ (j = id.job /\ kn2[j] = id.fire)
      BY <3>1, <1>8, <1>9, <1>10
    <3>4. LogInv(records, effects, known)
      BY DEF IInv
    <3> QED BY <2>2, <3>2, <3>3, <3>4, <1>3, <1>4, <1>7, <1>8, <1>12, LogGrows
  <2> QED BY <2>1, <2>2
<1>14. ASSUME NEW other \in Runners, other # runner
       PROVE  RunnerOK(run[other], other, new, effects)
  BY <1>2, <1>3, <1>7, <1>12, <1>14, OtherRunner DEF IInv
<1>15. \A other \in Runners : RunnerOK(run'[other], other, records', effects')
  <2>1. RunnerOK(NoRun, runner, new, effects)
    BY DEF RunnerOK
  <2> QED BY <1>5, <1>6, <1>12, <1>14, <2>1
<1>16. Executed(records', run')
  <2> SUFFICES ASSUME NEW s \in LatestRecords(new), s.state \in Active
               PROVE  \E other \in Runners : run'[other] # NoRun /\ run'[other].id = s.id
    BY <1>12 DEF Executed
  <2>1. s # rec
    BY <1>1, <1>7 DEF Active, pc
  <2>2. s \in LatestRecords(records) /\ s.id # id
    BY <1>3, <1>7, <1>12, <2>1 DEF Extended
  <2>3. PICK other \in Runners : run[other] # NoRun /\ run[other].id = s.id
    BY <1>2, <2>2 DEF Executed
  <2>4. other # runner
    BY <2>2, <2>3 DEF id
  <2> QED BY <1>6, <2>3, <2>4
<1>17. StateInv'
  <2>1. DOMAIN run' = Runners
    BY <1>5
  <2>2. known' \in [Jobs -> Nat]
    BY <1>11, <1>13
  <2> QED BY <1>5, <2>1, <2>2 DEF IInv, StateInv
<1>18. LogInv(records', effects', known')
  BY <1>5, <1>11, <1>12, <1>13
<1> QED BY <1>2, <1>3, <1>5, <1>15, <1>16, <1>17, <1>18 DEF IInv

\* A crash leaves the file as it was, or with the record being written whole,
\* torn, or compacted with the rest.
LEMMA CrashStep == ASSUME IInv, Crash PROVE IInv'
<1> DEFINE next == UNION {NextRecord(runner) : runner \in Runners}
           runs == [r \in Runners |-> NoRun]
<1>1. /\ status = "up" /\ status' = "down" /\ run' = runs /\ due' = <<>>
      /\ UNCHANGED <<clock, jobs, records, effects, known>>
  BY DEF Crash, Up, ghosts
<1>2. frames = records /\ LogInv(records, effects, known) /\ known \in [Jobs -> Nat] /\ records \in Seq(Rec)
  BY <1>1 DEF IInv, StateInv, LogInv
<1>3. ASSUME NEW r \in next PROVE Addable(records, r, effects)
  <2>1. PICK runner \in Runners : r \in NextRecord(runner)
    OBVIOUS
  <2>2. run[runner].pc \in Logged /\ r = Record(run[runner].id, run[runner].pc)
    BY <2>1 DEF NextRecord, Logged
  <2> QED BY <2>2, RecordsAreTrue
<1>4. frames' \in {frames, Append(frames, Torn)}
                     \cup {Append(frames, r) : r \in next} \cup {Appended(frames, r) : r \in next}
  BY DEF Crash
<1> HIDE DEF next
<1>5. LogInv(Replayed(frames'), effects, known)
  <2>1. ASSUME NEW new, NEW r \in next, Extended(records, r, new) PROVE LogInv(Replayed(new), effects, known)
    <3>1. Addable(records, r, effects)
      BY <1>3
    <3>2. LogInv(new, effects, known)
      BY <1>2, <2>1, <3>1, LogGrows
    <3>3. Replayed(new) = new
      BY <3>2, Replay DEF LogInv
    <3> QED BY <3>2, <3>3
  <2>2. CASE frames' \in {frames, Append(frames, Torn)}
    BY <2>2, <1>2, Replay
  <2>3. CASE \E r \in next : frames' = Append(frames, r)
    <3>1. PICK r \in next : frames' = Append(frames, r)
      BY <2>3
    <3>2. Extended(records, r, Append(records, r))
      BY <1>2, <1>3, AppendExtends DEF Addable
    <3> QED BY <1>2, <2>1, <3>1, <3>2
  <2>4. CASE \E r \in next : frames' = Appended(frames, r)
    <3>1. PICK r \in next : frames' = Appended(frames, r)
      BY <2>4
    <3>2. Extended(records, r, Appended(records, r))
      BY <1>2, <1>3, AppendedExtends DEF Addable
    <3> QED BY <1>2, <2>1, <3>1, <3>2
  <2> QED BY <1>4, <2>2, <2>3, <2>4
<1>6. DOMAIN run' = Runners /\ \A runner \in Runners : run'[runner] = NoRun
  BY <1>1
<1> HIDE DEF runs
<1>7. \A runner \in Runners : RunnerOK(run'[runner], runner, records', effects')
  BY <1>6 DEF RunnerOK
<1>8. StateInv'
  BY <1>1, <1>6 DEF IInv, StateInv
<1>9. LogInv(Replayed(frames'), effects', known') /\ LogInv(records', effects', known')
  BY <1>1, <1>2, <1>5
<1> QED BY <1>1, <1>6, <1>7, <1>8, <1>9 DEF IInv

LEMMA BootStep == ASSUME IInv, Boot PROVE IInv'
<1> DEFINE opened == Opened(frames)
<1>1. /\ status = "down" /\ status' = "up" /\ records' = opened /\ frames' = opened
      /\ UNCHANGED <<clock, jobs, due, run, effects, known>>
  BY DEF Boot, ghosts
<1>2. /\ LogInv(Replayed(frames), effects, known) /\ known \in [Jobs -> Nat]
      /\ \A runner \in Runners : run[runner] = NoRun
  BY <1>1 DEF IInv, StateInv
<1>3. LogInv(opened, effects, known) /\ \A r \in LatestRecords(opened) : r.state \notin Active
  BY <1>2, Opening
<1> HIDE DEF opened
<1>4. Executed(records', run')
  BY <1>1, <1>3 DEF Executed
<1>5. \A runner \in Runners : RunnerOK(run'[runner], runner, records', effects')
  BY <1>1, <1>2 DEF RunnerOK
<1>6. StateInv'
  BY <1>1 DEF IInv, StateInv
<1>7. LogInv(records', effects', known')
  BY <1>1, <1>3
<1> QED BY <1>1, <1>4, <1>5, <1>6, <1>7 DEF IInv

LEMMA StutterStep == ASSUME IInv, UNCHANGED vars PROVE IInv'
<1>1. UNCHANGED <<clock, jobs, records, frames, due, run, status, effects, known>>
  BY DEF vars, ledger, ghosts
<1>2. StateInv'
  BY <1>1 DEF IInv, StateInv
<1> QED BY <1>1, <1>2 DEF IInv

(* Every step of the scheduler, every crash and every boot keeps IInv.      *)
THEOREM LedgerInvariance == Spec => []IInv
<1>1. Init => IInv
  BY InitInv
<1>2. IInv /\ [Next]_vars => IInv'
  <2> SUFFICES ASSUME IInv, [Next]_vars PROVE IInv'
    OBVIOUS
  <2>1. CASE ClockAdvances
    BY <2>1, ClockStep
  <2>2. CASE \E j \in Jobs : EditJob(j)
    BY <2>2, EditStep
  <2>3. CASE Tick
    BY <2>3, TickStep
  <2>4. CASE Dispatch
    BY <2>4, DispatchStep
  <2>5. CASE \E j \in Jobs : Kick(j)
    BY <2>5, KickStep
  <2>6. ASSUME NEW runner \in Runners, Execute(runner) PROVE IInv'
    <3>1. CASE LogQueued(runner)
      <4>1. /\ run[runner].pc = "queued" /\ Log(run[runner].id, run[runner].pc) /\ Goto(runner, "running")
            /\ UNCHANGED <<clock, jobs, due, status, ghosts, events>>
        BY <3>1 DEF LogQueued
      <4> QED BY <4>1, LogStep
    <3>2. CASE LogRunning(runner)
      <4>1. /\ run[runner].pc = "running" /\ Log(run[runner].id, run[runner].pc) /\ Goto(runner, "look")
            /\ UNCHANGED <<clock, jobs, due, status, ghosts, events>>
        BY <3>2 DEF LogRunning
      <4> QED BY <4>1, LogStep
    <3>3. CASE ReadJob(runner)
      BY <3>3, ReadJobStep
    <3>4. CASE ApplyStep(runner)
      BY <3>4, ApplyStepStep
    <3>5. CASE FailStep(runner)
      BY <3>5, FailStepStep
    <3>6. CASE EndRun(runner)
      BY <3>6, EndRunStep
    <3> QED BY <2>6, <3>1, <3>2, <3>3, <3>4, <3>5, <3>6 DEF Execute
  <2>7. CASE Crash
    BY <2>7, CrashStep
  <2>8. CASE Boot
    BY <2>8, BootStep
  <2>9. CASE UNCHANGED vars
    BY <2>9, StutterStep
  <2> QED BY <2>1, <2>2, <2>3, <2>4, <2>5, <2>6, <2>7, <2>8, <2>9 DEF Next
<1> QED BY <1>1, <1>2, PTL DEF Spec

-----------------------------------------------------------------------------
(* What the ledger tells.                                                   *)

LEMMA TellsTypes == IInv => TypeOK
<1> SUFFICES ASSUME IInv PROVE TypeOK
  OBVIOUS
<1>1. records \in Seq(Rec)
  BY DEF IInv, LogInv
<1>2. IsLog(records)
  <2>1. \A i \in DOMAIN records : records[i] \in Rec
    BY <1>1
  <2> QED BY <2>1 DEF IsLog, Rec
<1> QED BY <1>2 DEF IInv, StateInv, TypeOK

LEMMA TellsActive == IInv => ActiveRunsAreExecuted
BY DEF IInv, Executed, ActiveRunsAreExecuted, Up

LEMMA TellsOutcomes == IInv => OutcomeMatchesEffects
BY DEF IInv, LogInv, TellsTruth, AppliedIn, Applied, OutcomeMatchesEffects

LEMMA TellsSuccesses == ASSUME ~SameMillis PROVE IInv => SuccessesSurvive
<1> SUFFICES ASSUME IInv, NEW j \in Jobs PROVE LastSucceeded(records, j) >= known[j]
  BY DEF SuccessesSurvive
<1>1. records \in Seq(Rec) /\ Remembers(records, known) /\ known[j] \in Nat
  BY DEF IInv, LogInv, StateInv
<1> DEFINE F == {0} \cup {r.id.fire : r \in Successes(records, j)}
<1>2. \A r \in Successes(records, j) : r.id.fire \in 1 .. MaxClock
  <2>1. \A r \in Successes(records, j) : r \in Rec
    BY <1>1 DEF Successes, ToSet
  <2> QED BY <2>1, IdFields DEF Rec
<1>3. F \in SUBSET (0 .. MaxClock) /\ F # {} /\ MaxClock \in Nat
  BY <1>2, TimesAssumption
<1>4. Max(F) \in F /\ \A x \in F : Max(F) >= x
  <2> HIDE DEF F
  <2> QED BY <1>3, GreatestNumber
<1>5. LastSucceeded(records, j) = Max(F)
  BY DEF LastSucceeded
<1>6. \E x \in F : x >= known[j]
  <2>1. CASE known[j] = 0
    BY <2>1
  <2>2. CASE known[j] # 0
    <3>1. PICK i \in DOMAIN records : /\ records[i].id.job = j
                                      /\ records[i].state = "succeeded"
                                      /\ records[i].id.fire >= known[j]
      BY <1>1, <2>2 DEF Remembers, Recalls
    <3>2. records[i] \in Successes(records, j)
      BY <3>1 DEF Successes, ToSet
    <3> QED BY <3>1, <3>2
  <2> QED BY <2>1, <2>2
<1> HIDE DEF F
<1>7. PICK x \in F : x >= known[j]
  BY <1>6
<1>8. x \in Int /\ Max(F) \in Int /\ Max(F) >= x
  <2>1. x \in 0 .. MaxClock /\ Max(F) \in 0 .. MaxClock
    BY <1>3, <1>4, <1>7
  <2> QED BY <1>3, <1>4, <1>7, <2>1
<1> QED BY <1>1, <1>5, <1>7, <1>8

(* Whatever crashes, is compacted away or is recovered, the file and the    *)
(* index agree, a run shown as active is being executed, and a run's        *)
(* recorded end is what it did (RunLedger::append, open, enforce_retention, *)
(* recover_interrupted, Scheduler::execute).                                *)
THEOREM EndsAreTrue == Spec => [](TypeOK /\ ActiveRunsAreExecuted /\ OutcomeMatchesEffects)
<1>1. IInv => TypeOK /\ ActiveRunsAreExecuted /\ OutcomeMatchesEffects
  BY TellsTypes, TellsActive, TellsOutcomes
<1> QED BY <1>1, LedgerInvariance, PTL

(* While kicks of a job fall in different milliseconds, no compaction and   *)
(* no recovery makes the ledger forget the time of a recorded success: the  *)
(* run's property LedgerTellsTheRuns holds as a whole.                      *)
THEOREM LedgerTells ==
  ASSUME ~SameMillis
  PROVE  Spec => []LedgerTellsTheRuns
<1>1. IInv => LedgerTellsTheRuns
  BY TellsTypes, TellsActive, TellsOutcomes, TellsSuccesses DEF LedgerTellsTheRuns
<1> QED BY <1>1, LedgerInvariance, PTL

-----------------------------------------------------------------------------
(* The view cache.  The books of a pool (the lemmas from UnitsOfEntry to      *)
(* InsertedIs): bytes are counted as the units of the entries, which keys     *)
(* keep apart, so what leaves a pool gives back exactly what its insertion    *)
(* charged.                                                                   *)
(*                                                                            *)
(* Freshness: every version a request in flight or an entry holds lies        *)
(* between what was published when the request began and what is published    *)
(* now, and an entry's values are no older than the versions its key names    *)
(* (HeadInv, PinInv, EntryInv).  A hit serves an entry whose key equals the   *)
(* request's, so the entry's values are no older than the request's own       *)
(* reads, which are no older than its start.  That the key names every cube   *)
(* a value comes from is where RulesReadOneLevel is used, and nowhere else.   *)

\* Every set of numbers that is not empty has a least one.
LEMMA LeastNumber ==
  ASSUME NEW S \in SUBSET Nat, S # {}
  PROVE  Min(S) \in S /\ \A n \in S : Min(S) <= n
<1> DEFINE Below == {1 .. n : n \in S}
<1>1. IsWellFoundedOn(StrictSubsetOrdering(Nat), FiniteSubsetsOf(Nat))
  BY FS_StrictSubsetOrderingWellFounded
<1>2. \A n \in S : IsFiniteSet(1 .. n)
  BY FS_Interval
<1>3. Below \subseteq FiniteSubsetsOf(Nat) /\ Below # {}
  <2>1. \A n \in S : 1 .. n \in FiniteSubsetsOf(Nat)
    BY <1>2 DEF FiniteSubsetsOf
  <2> QED BY <2>1
<1>4. PICK B \in Below : \A C \in Below : <<C, B>> \notin StrictSubsetOrdering(Nat)
  <2> HIDE DEF Below
  <2> QED BY <1>1, <1>3, WFMin
<1>5. PICK x \in S : B = 1 .. x
  OBVIOUS
<1>6. \A n \in S : x <= n
  <2> SUFFICES ASSUME NEW n \in S, n < x PROVE FALSE
    OBVIOUS
  <2>1. 1 .. n \in SUBSET (1 .. x) /\ x \notin 1 .. n /\ x \in 1 .. x
    OBVIOUS
  <2>2. 1 .. n \subseteq Nat /\ 1 .. x \subseteq Nat
    OBVIOUS
  <2>3. <<1 .. n, 1 .. x>> \in StrictSubsetOrdering(Nat)
    BY <2>1, <2>2 DEF StrictSubsetOrdering
  <2> QED BY <1>4, <1>5, <2>3
<1> QED BY <1>6 DEF Min

\* A cube whose version is still to be read is found by its name's place.
LEMMA FirstIsIn ==
  ASSUME NEW S \in SUBSET Cubes, S # {}
  PROVE  FirstOf(S) \in S
<1> DEFINE places == {i \in DOMAIN Names : Names[i] \in S}
<1>1. places \in SUBSET Nat /\ places # {}
  BY RulesAssumption DEF Cubes, Range
<1> QED BY <1>1, LeastNumber DEF FirstOf

\* Removing one place of a sequence leaves the others, in order.
LEMMA Removed ==
  ASSUME NEW S, NEW s \in Seq(S), NEW i \in DOMAIN s
  PROVE  /\ RemoveAt(s, i) \in Seq(S)
         /\ Len(RemoveAt(s, i)) = Len(s) - 1
         /\ \A j \in 1 .. Len(s) - 1 : RemoveAt(s, i)[j] = IF j < i THEN s[j] ELSE s[j + 1]
<1> DEFINE a == SubSeq(s, 1, i - 1)
           b == SubSeq(s, i + 1, Len(s))
<1>1. a \in Seq(S) /\ Len(a) = i - 1 /\ \A j \in 1 .. i - 1 : a[j] = s[j]
  OBVIOUS
<1>2. b \in Seq(S) /\ Len(b) = Len(s) - i /\ \A j \in 1 .. Len(s) - i : b[j] = s[i + j]
  OBVIOUS
<1>3. RemoveAt(s, i) = a \o b
  BY DEF RemoveAt
<1> HIDE DEF a, b
<1>4. Len(a \o b) = Len(s) - 1 /\ a \o b \in Seq(S)
  BY <1>1, <1>2
<1>5. \A j \in 1 .. Len(s) - 1 : (a \o b)[j] = IF j < i THEN s[j] ELSE s[j + 1]
  BY <1>1, <1>2
<1> QED BY <1>3, <1>4, <1>5

-----------------------------------------------------------------------------
(* The inductive invariant: what each variable holds, that nothing is newer *)
(* than what is published, and the books of the pools.                      *)

Views == {q.view : q \in Requests}
Contexts == {q.ctx : q \in Requests}
Partial == UNION {[S -> Nat] : S \in SUBSET Cubes}
Snapshot == [version : Nat, refs : SUBSET Cubes]
PinSets == UNION {[S -> Snapshot] : S \in SUBSET Cubes}
Cells == [view : Views, ctx : Contexts, from : Partial]
Keys == [cube : Cubes, version : Nat, deps : Seq(Cubes \X Nat), view : Views, ctx : Contexts]
Entry == [key : Keys, cells : Cells, bytes : Sizes]

Reading ==
  {Idle}
  \cup [pc : {"deps"}, req : Requests, start : [Cubes -> Nat], snap : Snapshot,
        deps : Seq(Cubes \X Nat), todo : SUBSET Cubes]
  \cup [pc : {"pin"}, req : Requests, start : [Cubes -> Nat], snap : Snapshot,
        deps : Seq(Cubes \X Nat), pins : PinSets, todo : SUBSET Cubes]
  \cup [pc : {"answered"}, req : Requests, version : Nat, cells : Cells, start : Partial]

TypeInv ==
  /\ commits \in Nat
  /\ published \in [Cubes -> Snapshot]
  /\ pools \in [Kinds -> [lru : Seq(Entry), bytes : Nat]]
  /\ reading \in [Readers -> Reading]

\* Rules whose references are closed: what a cube read by a rule's cube reads,
\* the rule's cube reads itself, or is.
RulesReadOneLevel ==
  \A c \in Cubes : \A R \in RuleSets[c] : \A d \in R : \A S \in RuleSets[d] : S \subseteq R \cup {c}

DepNames(deps) == {deps[j][1] : j \in DOMAIN deps}

\* Values a reader may hold: of published versions at most.
Behind(from) == \A d \in DOMAIN from : from[d] <= published[d].version

Sourced(cells, view, ctx, cube, version) ==
  cells.view = view /\ cells.ctx = ctx /\ cube \in DOMAIN cells.from /\ cells.from[cube] = version

\* An entry answers its key, from no version older than those in the key.
EntryInv(e) ==
  /\ Sourced(e.cells, e.key.view, e.key.ctx, e.key.cube, e.key.version)
  /\ Behind(e.cells.from)
  /\ \A j \in DOMAIN e.key.deps : e.key.deps[j][1] \in DOMAIN e.cells.from =>
       e.key.deps[j][2] <= e.cells.from[e.key.deps[j][1]]
  /\ RulesReadOneLevel => DOMAIN e.cells.from \subseteq {e.key.cube} \cup DepNames(e.key.deps)

\* What a request in flight has read is as new as its start, and no newer than
\* what is published.
HeadInv(rd) ==
  /\ Behind(rd.start)
  /\ rd.snap.version = rd.start[rd.req.cube]
  /\ rd.snap.refs \in RuleSets[rd.req.cube]
  /\ \A j \in DOMAIN rd.deps : /\ rd.start[rd.deps[j][1]] <= rd.deps[j][2]
                               /\ rd.deps[j][2] <= published[rd.deps[j][1]].version

DepsInv(rd) == HeadInv(rd) /\ DepNames(rd.deps) \cup rd.todo = rd.snap.refs

PinInv(rd) ==
  /\ HeadInv(rd) /\ DepNames(rd.deps) = rd.snap.refs
  /\ DOMAIN rd.pins = Cubes \ rd.todo
  /\ rd.req.cube \notin rd.todo /\ rd.pins[rd.req.cube] = rd.snap
  /\ \A d \in DOMAIN rd.pins : /\ rd.pins[d] \in Snapshot /\ rd.pins[d].refs \in RuleSets[d]
                               /\ rd.start[d] <= rd.pins[d].version
                               /\ rd.pins[d].version <= published[d].version
  /\ \A j \in DOMAIN rd.deps : rd.deps[j][1] \in DOMAIN rd.pins =>
       rd.deps[j][2] <= rd.pins[rd.deps[j][1]].version

AnswerInv(rd) ==
  /\ Sourced(rd.cells, rd.req.view, rd.req.ctx, rd.req.cube, rd.version)
  /\ Behind(rd.cells.from)
  /\ RulesReadOneLevel => \A d \in DOMAIN rd.cells.from : rd.start[d] <= rd.cells.from[d]

ReadInv(rd) ==
  /\ rd.pc = "deps" => DepsInv(rd)
  /\ rd.pc = "pin" => PinInv(rd)
  /\ rd.pc = "answered" => AnswerInv(rd)

SourceInv ==
  /\ \A c \in Cubes : published[c].version <= commits /\ published[c].refs \in RuleSets[c]
  /\ \A k \in Kinds : \A i \in DOMAIN pools[k].lru : EntryInv(pools[k].lru[i])
  /\ \A r \in Readers : ReadInv(reading[r])

Unique(lru) == \A i, j \in DOMAIN lru : lru[i].key = lru[j].key => i = j

WithinBudget(k, pool) ==
  /\ Len(pool.lru) <= Cap(k)
  /\ IsFiniteSet(Units(pool.lru)) /\ pool.bytes = BytesOf(pool.lru)
  /\ pool.bytes <= Budget(k) \/ Len(pool.lru) = 1
  /\ Unique(pool.lru)

PoolInv == \A k \in Kinds : WithinBudget(k, pools[k])

CacheInv == TypeInv /\ SourceInv /\ PoolInv

-----------------------------------------------------------------------------
(* The books of a pool.                                                     *)

\* An entry counts as many units as it has bytes.
LEMMA UnitsOfEntry ==
  ASSUME NEW e \in Entry
  PROVE  IsFiniteSet(UnitsOf(e)) /\ Cardinality(UnitsOf(e)) = e.bytes
<1>1. e.bytes \in Nat
  BY PoolAssumption DEF Entry
<1> DEFINE f == [b \in 1 .. e.bytes |-> <<e.key, b>>]
<1>2. f \in Bijection(1 .. e.bytes, UnitsOf(e))
  BY DEF Bijection, Injection, Surjection, IsInjective, UnitsOf
<1>3. ExistsBijection(1 .. e.bytes, UnitsOf(e))
  BY <1>2 DEF ExistsBijection
<1> QED BY <1>1, <1>3, FS_NatBijection, FS_CountingElements

\* Entries of different keys share no unit.
LEMMA UnitsAreApart ==
  ASSUME NEW e, NEW lru, \A i \in DOMAIN lru : lru[i].key # e.key
  PROVE  UnitsOf(e) \cap Units(lru) = {}
  BY DEF UnitsOf, Units

\* One more entry adds its bytes.
LEMMA Charged ==
  ASSUME NEW lru \in Seq(Entry), IsFiniteSet(Units(lru)), NEW e \in Entry,
         \A i \in DOMAIN lru : lru[i].key # e.key
  PROVE  /\ IsFiniteSet(Units(Append(lru, e)))
         /\ BytesOf(Append(lru, e)) = BytesOf(lru) + e.bytes
<1>1. Units(Append(lru, e)) = Units(lru) \cup UnitsOf(e)
  BY DEF Units
<1>2. Units(lru) \cap UnitsOf(e) = {}
  BY UnitsAreApart
<1>3. IsFiniteSet(UnitsOf(e)) /\ Cardinality(UnitsOf(e)) = e.bytes
  BY UnitsOfEntry
<1>4. /\ IsFiniteSet(Units(lru) \cup UnitsOf(e))
      /\ Cardinality(Units(lru) \cup UnitsOf(e)) = Cardinality(Units(lru)) + Cardinality(UnitsOf(e)) - 0
  BY <1>2, <1>3, FS_Union, FS_EmptySet
<1>5. Cardinality(Units(lru)) \in Nat /\ e.bytes \in Nat
  BY FS_CardinalityType, PoolAssumption DEF Entry
<1> QED BY <1>1, <1>3, <1>4, <1>5 DEF BytesOf

\* One entry less gives its bytes back; the other entries keep their keys.
LEMMA GivenBack ==
  ASSUME NEW lru \in Seq(Entry), IsFiniteSet(Units(lru)), Unique(lru), NEW p \in DOMAIN lru
  PROVE  /\ RemoveAt(lru, p) \in Seq(Entry)
         /\ Len(RemoveAt(lru, p)) = Len(lru) - 1
         /\ Unique(RemoveAt(lru, p))
         /\ \A i \in DOMAIN RemoveAt(lru, p) : RemoveAt(lru, p)[i].key # lru[p].key
         /\ \A i \in DOMAIN lru : i # p => \E j \in DOMAIN RemoveAt(lru, p) : RemoveAt(lru, p)[j] = lru[i]
         /\ \A j \in DOMAIN RemoveAt(lru, p) : \E i \in DOMAIN lru : RemoveAt(lru, p)[j] = lru[i]
         /\ IsFiniteSet(Units(RemoveAt(lru, p)))
         /\ BytesOf(RemoveAt(lru, p)) = BytesOf(lru) - lru[p].bytes
<1> DEFINE rest == RemoveAt(lru, p)
<1>1. /\ rest \in Seq(Entry) /\ Len(rest) = Len(lru) - 1
      /\ \A j \in 1 .. Len(lru) - 1 : rest[j] = IF j < p THEN lru[j] ELSE lru[j + 1]
  BY Removed
<1> HIDE DEF rest
<1>2. DOMAIN rest = 1 .. Len(lru) - 1 /\ DOMAIN lru = 1 .. Len(lru) /\ Len(lru) \in Nat
  BY <1>1
<1>3. Unique(rest) /\ \A i \in DOMAIN rest : rest[i].key # lru[p].key
  <2>1. \A i \in DOMAIN rest : rest[i] = lru[IF i < p THEN i ELSE i + 1]
    BY <1>1, <1>2
  <2>2. \A i \in DOMAIN rest : (IF i < p THEN i ELSE i + 1) \in DOMAIN lru \ {p}
    BY <1>2
  <2> QED BY <1>2, <2>1, <2>2 DEF Unique
<1>4. \A i \in DOMAIN lru : i # p => \E j \in DOMAIN rest : rest[j] = lru[i]
  <2> SUFFICES ASSUME NEW i \in DOMAIN lru, i # p PROVE \E j \in DOMAIN rest : rest[j] = lru[i]
    OBVIOUS
  <2>1. CASE i < p
    BY <1>1, <1>2, <2>1
  <2>2. CASE i > p
    <3>1. i - 1 \in DOMAIN rest /\ rest[i - 1] = lru[i]
      BY <1>1, <1>2, <2>2
    <3> QED BY <3>1
  <2> QED BY <2>1, <2>2, <1>2
<1>5. \A j \in DOMAIN rest : \E i \in DOMAIN lru : rest[j] = lru[i]
  BY SMTT(30), <1>1, <1>2
<1>6. Units(rest) \subseteq Units(lru) /\ Units(lru) = Units(rest) \cup UnitsOf(lru[p])
  BY <1>4, <1>5 DEF Units
<1>7. IsFiniteSet(Units(rest))
  BY <1>6, FS_Subset
<1>8. Units(rest) \cap UnitsOf(lru[p]) = {}
  BY <1>3, UnitsAreApart
<1>9. IsFiniteSet(UnitsOf(lru[p])) /\ Cardinality(UnitsOf(lru[p])) = lru[p].bytes /\ lru[p].bytes \in Nat
  <2>1. lru[p] \in Entry
    OBVIOUS
  <2> QED BY <2>1, UnitsOfEntry, PoolAssumption DEF Entry
<1>10. Cardinality(Units(lru)) = Cardinality(Units(rest)) + Cardinality(UnitsOf(lru[p])) - 0
  BY <1>6, <1>7, <1>8, <1>9, FS_Union, FS_EmptySet
<1>11. BytesOf(rest) = BytesOf(lru) - lru[p].bytes
  <2>1. Cardinality(Units(rest)) \in Nat
    BY <1>7, FS_CardinalityType
  <2> QED BY <1>9, <1>10, <2>1 DEF BytesOf
<1> QED BY <1>1, <1>3, <1>4, <1>5, <1>7, <1>11 DEF rest

\* The first entries and the others share out the bytes.
LEMMA SharedOut ==
  ASSUME NEW lru \in Seq(Entry), IsFiniteSet(Units(lru)), Unique(lru), NEW n \in 0 .. Len(lru)
  PROVE  LET first == SubSeq(lru, 1, n)
             rest  == SubSeq(lru, n + 1, Len(lru))
         IN  /\ rest \in Seq(Entry) /\ Len(rest) = Len(lru) - n
             /\ Unique(rest) /\ IsFiniteSet(Units(rest))
             /\ \A j \in DOMAIN rest : rest[j] = lru[n + j]
             /\ BytesOf(rest) = BytesOf(lru) - BytesOf(first)
<1> DEFINE first == SubSeq(lru, 1, n)
           rest == SubSeq(lru, n + 1, Len(lru))
<1>1. /\ rest \in Seq(Entry) /\ Len(rest) = Len(lru) - n
      /\ \A j \in 1 .. Len(lru) - n : rest[j] = lru[n + j]
  OBVIOUS
<1>2. first \in Seq(Entry) /\ Len(first) = n /\ \A j \in 1 .. n : first[j] = lru[j]
  OBVIOUS
<1> HIDE DEF first, rest
<1>3. /\ DOMAIN rest = 1 .. Len(lru) - n /\ DOMAIN first = 1 .. n
      /\ DOMAIN lru = 1 .. Len(lru) /\ Len(lru) \in Nat
  BY <1>1, <1>2
<1>4. Unique(rest)
  <2> SUFFICES ASSUME NEW i \in DOMAIN rest, NEW j \in DOMAIN rest, rest[i].key = rest[j].key
               PROVE  i = j
    BY DEF Unique
  <2>1. n + i \in DOMAIN lru /\ n + j \in DOMAIN lru /\ lru[n + i].key = lru[n + j].key
    BY SMTT(30), <1>1, <1>3
  <2>2. n + i = n + j
    BY <2>1 DEF Unique
  <2> QED BY <1>3, <2>2
<1>5. \A i \in DOMAIN lru : \/ \E j \in DOMAIN first : first[j] = lru[i]
                            \/ \E j \in DOMAIN rest : rest[j] = lru[i]
  <2> SUFFICES ASSUME NEW i \in DOMAIN lru
               PROVE  \/ \E j \in DOMAIN first : first[j] = lru[i]
                      \/ \E j \in DOMAIN rest : rest[j] = lru[i]
    OBVIOUS
  <2>1. CASE i <= n
    BY <1>2, <1>3, <2>1
  <2>2. CASE i > n
    <3>1. i - n \in DOMAIN rest /\ rest[i - n] = lru[i]
      BY <1>1, <1>3, <2>2
    <3> QED BY <3>1
  <2> QED BY <2>1, <2>2, <1>3
<1>6. /\ \A j \in DOMAIN first : first[j] = lru[j] /\ j \in DOMAIN lru
      /\ \A j \in DOMAIN rest : rest[j] = lru[n + j] /\ n + j \in DOMAIN lru
  BY SMTT(30), <1>1, <1>2, <1>3
<1>7. Units(lru) = Units(first) \cup Units(rest)
  BY <1>5, <1>6 DEF Units
<1>8. \A i \in DOMAIN first, j \in DOMAIN rest : first[i].key # rest[j].key
  BY <1>3, <1>6 DEF Unique
<1>9. Units(first) \cap Units(rest) = {}
  BY <1>8 DEF Units, UnitsOf
<1>10. IsFiniteSet(Units(first)) /\ IsFiniteSet(Units(rest))
  BY <1>7, FS_Subset
<1>11. Cardinality(Units(lru)) = Cardinality(Units(first)) + Cardinality(Units(rest)) - 0
  BY <1>7, <1>9, <1>10, FS_Union, FS_EmptySet
<1>12. Cardinality(Units(first)) \in Nat /\ Cardinality(Units(rest)) \in Nat
  BY <1>10, FS_CardinalityType
<1>13. BytesOf(rest) = BytesOf(lru) - BytesOf(first)
  BY <1>11, <1>12 DEF BytesOf
<1> QED BY <1>1, <1>3, <1>4, <1>10, <1>13 DEF first, rest

-----------------------------------------------------------------------------
(* What the pool's operations keep.                                         *)

Pool == [lru : Seq(Entry), bytes : Nat]

\* The entry of a key the pool holds.
LEMMA Found ==
  ASSUME NEW pool, NEW key, Holds(pool, key)
  PROVE  PlaceOf(pool, key) \in DOMAIN pool.lru /\ EntryOf(pool, key).key = key
  BY DEF Holds, PlaceOf, EntryOf

\* A hit moves an entry and nothing else.
LEMMA Touched ==
  ASSUME NEW k \in Kinds, NEW pool \in Pool, WithinBudget(k, pool), NEW key, Holds(pool, key)
  PROVE  /\ Touch(pool, key) \in Pool /\ WithinBudget(k, Touch(pool, key))
         /\ \A j \in DOMAIN Touch(pool, key).lru :
              \E i \in DOMAIN pool.lru : Touch(pool, key).lru[j] = pool.lru[i]
         /\ \A i \in DOMAIN pool.lru :
              \E j \in DOMAIN Touch(pool, key).lru : Touch(pool, key).lru[j] = pool.lru[i]
<1> DEFINE p == PlaceOf(pool, key)
           rest == RemoveAt(pool.lru, p)
           lru == Append(rest, pool.lru[p])
<1>1. p \in DOMAIN pool.lru /\ pool.lru \in Seq(Entry) /\ pool.bytes \in Nat
  BY Found DEF Pool
<1>2. Touch(pool, key) = [lru |-> lru, bytes |-> pool.bytes]
  BY DEF Touch, EntryOf, Pool
<1>3. /\ rest \in Seq(Entry) /\ Len(rest) = Len(pool.lru) - 1 /\ Unique(rest)
      /\ \A i \in DOMAIN rest : rest[i].key # pool.lru[p].key
      /\ \A i \in DOMAIN pool.lru : i # p => \E j \in DOMAIN rest : rest[j] = pool.lru[i]
      /\ \A j \in DOMAIN rest : \E i \in DOMAIN pool.lru : rest[j] = pool.lru[i]
      /\ IsFiniteSet(Units(rest))
      /\ BytesOf(rest) = BytesOf(pool.lru) - pool.lru[p].bytes
  BY <1>1, GivenBack DEF WithinBudget
<1> HIDE DEF p, rest
<1>4. pool.lru[p] \in Entry
  BY <1>1
<1>5. /\ lru \in Seq(Entry) /\ Len(lru) = Len(pool.lru)
      /\ \A j \in DOMAIN rest : j \in DOMAIN lru /\ lru[j] = rest[j]
      /\ Len(lru) \in DOMAIN lru /\ lru[Len(lru)] = pool.lru[p]
      /\ \A j \in DOMAIN lru : j \in DOMAIN rest \/ j = Len(lru)
  BY <1>1, <1>3, <1>4
<1>6. IsFiniteSet(Units(lru)) /\ BytesOf(lru) = BytesOf(rest) + pool.lru[p].bytes
  BY <1>3, <1>4, Charged
<1> HIDE DEF lru
<1>7. BytesOf(lru) = pool.bytes
  <2>1. pool.lru[p].bytes \in Nat
    BY <1>4, PoolAssumption DEF Entry
  <2> QED BY <1>1, <1>3, <1>6, <2>1 DEF WithinBudget
<1>8. Unique(lru)
  BY <1>3, <1>5 DEF Unique
<1>9. \A j \in DOMAIN lru : \E i \in DOMAIN pool.lru : lru[j] = pool.lru[i]
  BY <1>1, <1>3, <1>5
<1>10. \A i \in DOMAIN pool.lru : \E j \in DOMAIN lru : lru[j] = pool.lru[i]
  BY <1>3, <1>5
<1> QED BY <1>1, <1>2, <1>5, <1>6, <1>7, <1>8, <1>9, <1>10 DEF WithinBudget, Pool

\* Dropping a key leaves the other entries and the books in order.
LEMMA DroppedIs ==
  ASSUME NEW k \in Kinds, NEW pool \in Pool, WithinBudget(k, pool), NEW key
  PROVE  LET kept == Dropped(pool, key)
         IN  /\ kept \in Pool /\ Unique(kept.lru) /\ IsFiniteSet(Units(kept.lru))
             /\ Len(kept.lru) <= Len(pool.lru) /\ kept.bytes = BytesOf(kept.lru)
             /\ \A j \in DOMAIN kept.lru : /\ kept.lru[j].key # key
                                           /\ \E i \in DOMAIN pool.lru : kept.lru[j] = pool.lru[i]
<1>1. pool.lru \in Seq(Entry) /\ pool.bytes \in Nat
  BY DEF Pool
<1>2. CASE ~Holds(pool, key)
  BY <1>1, <1>2 DEF Dropped, Holds, WithinBudget
<1>3. CASE Holds(pool, key)
  <2> DEFINE p == PlaceOf(pool, key)
             rest == RemoveAt(pool.lru, p)
  <2>1. p \in DOMAIN pool.lru /\ pool.lru[p].key = key
    BY <1>3, Found DEF EntryOf
  <2>2. Dropped(pool, key) = [lru |-> rest, bytes |-> pool.bytes - pool.lru[p].bytes]
    BY <1>3 DEF Dropped, EntryOf
  <2>3. /\ rest \in Seq(Entry) /\ Len(rest) = Len(pool.lru) - 1 /\ Unique(rest)
        /\ \A i \in DOMAIN rest : rest[i].key # pool.lru[p].key
        /\ \A j \in DOMAIN rest : \E i \in DOMAIN pool.lru : rest[j] = pool.lru[i]
        /\ IsFiniteSet(Units(rest))
        /\ BytesOf(rest) = BytesOf(pool.lru) - pool.lru[p].bytes
    BY <1>1, <2>1, GivenBack DEF WithinBudget
  <2>4. BytesOf(rest) \in Nat
    BY <2>3, FS_CardinalityType DEF BytesOf
  <2> HIDE DEF p, rest
  <2>5. /\ Dropped(pool, key).lru = rest
        /\ Dropped(pool, key).bytes = pool.bytes - pool.lru[p].bytes
    BY <2>2
  <2>6. Dropped(pool, key).bytes = BytesOf(rest)
    BY <2>3, <2>5 DEF WithinBudget
  <2>7. Dropped(pool, key) \in Pool
    BY <2>2, <2>3, <2>4, <2>5, <2>6 DEF Pool
  <2> QED BY <1>1, <2>1, <2>3, <2>5, <2>6, <2>7
<1> QED BY <1>2, <1>3

\* An insertion evicts until there is room, and adds the entry.
LEMMA InsertedIs ==
  ASSUME NEW k \in Kinds, NEW pool \in Pool, WithinBudget(k, pool), NEW e \in Entry,
         Cap(k) \in Nat \ {0}, Budget(k) \in Nat
  PROVE  /\ Inserted(k, pool, e) \in Pool /\ WithinBudget(k, Inserted(k, pool, e))
         /\ Holds(Inserted(k, pool, e), e.key)
         /\ \A j \in DOMAIN Inserted(k, pool, e).lru :
              \/ Inserted(k, pool, e).lru[j] = e
              \/ \E i \in DOMAIN pool.lru : Inserted(k, pool, e).lru[j] = pool.lru[i]
<1> DEFINE kept == Dropped(pool, e.key)
           stops == {i \in 0 .. Len(kept.lru) : HasRoom(k, Evicted(kept, i), e.bytes)}
           n == Min(stops)
           roomy == Evicted(kept, n)
           lru == Append(roomy.lru, e)
<1>1. Inserted(k, pool, e) = [lru |-> lru, bytes |-> roomy.bytes + e.bytes]
  BY DEF Inserted
<1>2. /\ kept.lru \in Seq(Entry) /\ Unique(kept.lru) /\ IsFiniteSet(Units(kept.lru))
      /\ kept.bytes = BytesOf(kept.lru)
      /\ \A j \in DOMAIN kept.lru : /\ kept.lru[j].key # e.key
                                    /\ \E i \in DOMAIN pool.lru : kept.lru[j] = pool.lru[i]
  BY DroppedIs DEF Pool
<1> HIDE DEF kept
<1>3. \A i \in 0 .. Len(kept.lru) :
        /\ Evicted(kept, i).lru \in Seq(Entry) /\ Len(Evicted(kept, i).lru) = Len(kept.lru) - i
        /\ Unique(Evicted(kept, i).lru) /\ IsFiniteSet(Units(Evicted(kept, i).lru))
        /\ \A j \in DOMAIN Evicted(kept, i).lru : Evicted(kept, i).lru[j] = kept.lru[i + j]
        /\ Evicted(kept, i).bytes = BytesOf(Evicted(kept, i).lru)
  BY SMTT(30), <1>2, SharedOut DEF Evicted
<1>4. n \in 0 .. Len(kept.lru) /\ HasRoom(k, roomy, e.bytes)
  <2>1. Len(kept.lru) \in 0 .. Len(kept.lru) /\ Evicted(kept, Len(kept.lru)).lru = <<>>
    BY <1>2, <1>3
  <2>2. stops \in SUBSET Nat /\ stops # {}
    BY <1>2, <2>1 DEF HasRoom
  <2>3. n \in stops
    BY <2>2, LeastNumber
  <2> QED BY <2>3
<1> HIDE DEF n
<1>5. /\ roomy.lru \in Seq(Entry) /\ Unique(roomy.lru) /\ IsFiniteSet(Units(roomy.lru))
      /\ roomy.bytes = BytesOf(roomy.lru)
      /\ Len(roomy.lru) = Len(kept.lru) - n
      /\ \A j \in DOMAIN roomy.lru : roomy.lru[j] = kept.lru[n + j]
  BY <1>3, <1>4
<1>6. \A j \in DOMAIN roomy.lru : /\ roomy.lru[j].key # e.key
                                  /\ \E i \in DOMAIN pool.lru : roomy.lru[j] = pool.lru[i]
  <2> SUFFICES ASSUME NEW j \in DOMAIN roomy.lru
               PROVE  /\ roomy.lru[j].key # e.key
                      /\ \E i \in DOMAIN pool.lru : roomy.lru[j] = pool.lru[i]
    OBVIOUS
  <2>1. roomy.lru[j] = kept.lru[n + j] /\ n + j \in DOMAIN kept.lru
    <3> HIDE DEF roomy
    <3> QED BY <1>2, <1>4, <1>5
  <2> HIDE DEF roomy
  <2> QED BY <1>2, <2>1
<1> HIDE DEF roomy
<1>7. roomy.bytes \in Nat /\ e.bytes \in Nat
  BY <1>5, FS_CardinalityType, PoolAssumption DEF BytesOf, Entry
<1>8. IsFiniteSet(Units(lru)) /\ BytesOf(lru) = roomy.bytes + e.bytes
  BY <1>5, <1>6, Charged
<1>9. /\ lru \in Seq(Entry) /\ Len(lru) = Len(roomy.lru) + 1
      /\ \A j \in DOMAIN roomy.lru : j \in DOMAIN lru /\ lru[j] = roomy.lru[j]
      /\ Len(lru) \in DOMAIN lru /\ lru[Len(lru)] = e
      /\ \A j \in DOMAIN lru : j \in DOMAIN roomy.lru \/ j = Len(lru)
  BY <1>5
<1> HIDE DEF lru
<1>10. Unique(lru)
  BY <1>5, <1>6, <1>9 DEF Unique
<1>11. Len(lru) <= Cap(k) /\ (roomy.bytes + e.bytes <= Budget(k) \/ Len(lru) = 1)
  BY SMTT(30), <1>4, <1>5, <1>7, <1>9 DEF HasRoom
<1>12. \A j \in DOMAIN lru : lru[j] = e \/ \E i \in DOMAIN pool.lru : lru[j] = pool.lru[i]
  BY <1>6, <1>9
<1>13. \E j \in DOMAIN lru : lru[j].key = e.key
  BY <1>9
<1>14. Inserted(k, pool, e).lru = lru /\ Inserted(k, pool, e).bytes = roomy.bytes + e.bytes
  BY <1>1
<1>15. Inserted(k, pool, e) \in Pool
  BY <1>1, <1>7, <1>9 DEF Pool
<1>16. WithinBudget(k, Inserted(k, pool, e))
  BY <1>8, <1>10, <1>11, <1>14 DEF WithinBudget
<1>17. Holds(Inserted(k, pool, e), e.key)
  BY <1>13, <1>14 DEF Holds
<1> QED BY <1>12, <1>14, <1>15, <1>16, <1>17

-----------------------------------------------------------------------------
(* What a value is computed from.                                           *)

\* The cube asked for always, and with rules one level deep the cubes its rules
\* name besides.
LEMMA Used ==
  ASSUME NEW c \in Cubes, NEW pins
  PROVE  /\ c \in UsedFrom(pins, c) /\ UsedFrom(pins, c) \in SUBSET Cubes
         /\ RulesReadOneLevel /\ (\A d \in Cubes : pins[d].refs \in RuleSets[d]) =>
              UsedFrom(pins, c) \subseteq {c} \cup pins[c].refs
<1>1. c \in UsedFrom(pins, c) /\ UsedFrom(pins, c) \in SUBSET Cubes
  BY DEF UsedFrom
<1>2. ASSUME RulesReadOneLevel, \A d \in Cubes : pins[d].refs \in RuleSets[d]
      PROVE  UsedFrom(pins, c) \subseteq {c} \cup pins[c].refs
  <2> DEFINE S == {c} \cup pins[c].refs
  <2>1. S \in SUBSET Cubes
    BY <1>2, RulesAssumption
  <2>2. \A d \in S : pins[d].refs \subseteq S
    BY <1>2, <2>1 DEF RulesReadOneLevel
  <2> QED BY <2>1, <2>2 DEF UsedFrom
<1> QED BY <1>1, <1>2

\* A request names a cube, a view and a context.
LEMMA Asked ==
  ASSUME NEW q \in Requests
  PROVE  q.cube \in Cubes /\ q.kind \in Kinds /\ q.view \in Views /\ q.ctx \in Contexts
  BY RulesAssumption DEF Kinds, Views, Contexts

-----------------------------------------------------------------------------
(* Steps.                                                                   *)

\* A snapshot is among those rules and versions allow.
LEMMA PublishedIs ==
  ASSUME TypeInv, SourceInv, NEW c \in Cubes
  PROVE  /\ published[c] \in Snapshot /\ published[c].version \in Nat
         /\ published[c].refs \in SUBSET Cubes /\ published[c].refs \in RuleSets[c]
         /\ c \notin published[c].refs
  BY RulesAssumption DEF TypeInv, SourceInv, Snapshot

\* What was no newer than the published versions stays so when they grow.
LEMMA OlderStays ==
  ASSUME TypeInv, TypeInv', \A d \in Cubes : published[d].version <= published'[d].version
  PROVE  /\ \A f : (\A d \in DOMAIN f : f[d] \in Nat /\ d \in Cubes) /\ Behind(f) => Behind(f)'
         /\ \A e \in Entry : EntryInv(e) => EntryInv(e)'
         /\ \A rd \in Reading : ReadInv(rd) => ReadInv(rd)'
<1>1. \A d \in Cubes : published[d].version \in Nat /\ published'[d].version \in Nat
  BY DEF TypeInv, Snapshot
<1>2. ASSUME NEW f, \A d \in DOMAIN f : f[d] \in Nat /\ d \in Cubes, Behind(f)
      PROVE  Behind(f)'
  BY <1>1, <1>2 DEF Behind
<1>3. ASSUME NEW e \in Entry, EntryInv(e)
      PROVE  EntryInv(e)'
  <2>1. \A d \in DOMAIN e.cells.from : e.cells.from[d] \in Nat /\ d \in Cubes
    BY DEF Entry, Cells, Partial
  <2> QED BY <1>2, <1>3, <2>1 DEF EntryInv
<1>4. ASSUME NEW rd \in Reading, ReadInv(rd)
      PROVE  ReadInv(rd)'
  <2>1. rd.pc \in {"deps", "pin"} => rd.start \in [Cubes -> Nat] /\ rd.deps \in Seq(Cubes \X Nat)
    BY DEF Reading, Idle
  <2>2. ASSUME rd.pc \in {"deps", "pin"}, HeadInv(rd) PROVE HeadInv(rd)'
    <3>1. Behind(rd.start)'
      BY <1>2, <2>1, <2>2 DEF HeadInv
    <3>2. \A j \in DOMAIN rd.deps : rd.deps[j][1] \in Cubes /\ rd.deps[j][2] \in Nat
      BY <2>1, <2>2
    <3>3. \A j \in DOMAIN rd.deps : rd.deps[j][2] <= published'[rd.deps[j][1]].version
      BY <1>1, <2>2, <3>2 DEF HeadInv
    <3> QED BY <2>2, <3>1, <3>3 DEF HeadInv
  <2>3. CASE rd.pc = "deps"
    BY <1>4, <2>2, <2>3 DEF ReadInv, DepsInv
  <2>4. CASE rd.pc = "pin"
    <3>1. PinInv(rd) /\ HeadInv(rd)'
      BY <1>4, <2>2, <2>4 DEF ReadInv, PinInv
    <3>2. \A d \in DOMAIN rd.pins : rd.pins[d].version <= published'[d].version
      BY <1>1, <3>1 DEF PinInv, Snapshot
    <3> QED BY <2>4, <3>1, <3>2 DEF ReadInv, PinInv
  <2>5. CASE rd.pc = "answered"
    <3>1. \A d \in DOMAIN rd.cells.from : rd.cells.from[d] \in Nat /\ d \in Cubes
      BY <2>5 DEF Reading, Idle, Cells, Partial
    <3> QED BY <1>2, <1>4, <2>5, <3>1 DEF ReadInv, AnswerInv
  <2>6. CASE rd.pc = "idle"
    BY <2>6 DEF ReadInv
  <2> QED BY <2>3, <2>4, <2>5, <2>6 DEF Reading, Idle
<1> QED BY <1>2, <1>3, <1>4

\* A commit publishes a newer version and leaves the cache alone.
LEMMA CommitKeeps ==
  ASSUME CacheInv, NEW c \in Cubes, CommitCells(c) \/ CommitRules(c)
  PROVE  CacheInv'
<1> USE DEF CacheInv
<1>1. PICK p \in Snapshot : /\ published' = [published EXCEPT ![c] = p]
                            /\ p.version = commits + 1 /\ p.refs \in RuleSets[c]
  <2>1. CASE CommitCells(c)
    <3>1. [published[c] EXCEPT !.version = commits + 1] \in Snapshot
      <4>1. published[c] \in Snapshot /\ commits + 1 \in Nat
        BY PublishedIs DEF TypeInv
      <4> QED BY <4>1 DEF Snapshot
    <3>2. published' = [published EXCEPT ![c] = [published[c] EXCEPT !.version = commits + 1]]
      BY <2>1 DEF CommitCells
    <3> QED BY <3>1, <3>2, PublishedIs DEF Snapshot
  <2>2. CASE CommitRules(c)
    <3>1. PICK R \in RuleSets[c] : published' = [published EXCEPT ![c] = [version |-> commits + 1, refs |-> R]]
      BY <2>2 DEF CommitRules
    <3>2. [version |-> commits + 1, refs |-> R] \in Snapshot
      BY RulesAssumption DEF Snapshot, TypeInv
    <3> QED BY <3>1, <3>2
  <2> QED BY <2>1, <2>2
<1>2. commits' = commits + 1 /\ UNCHANGED <<pools, reading>>
  BY DEF CommitCells, CommitRules
<1>3. TypeInv'
  BY <1>1, <1>2 DEF TypeInv
<1>4. \A d \in Cubes : /\ published[d].version <= published'[d].version
                       /\ published'[d].version <= commits' /\ published'[d].refs \in RuleSets[d]
  BY <1>1, <1>2 DEF TypeInv, SourceInv, Snapshot
<1>5. SourceInv'
  <2>1. \A k \in Kinds : \A i \in DOMAIN pools[k].lru : pools[k].lru[i] \in Entry
    BY DEF TypeInv
  <2>2. \A k \in Kinds : \A i \in DOMAIN pools[k].lru : EntryInv(pools[k].lru[i])'
    BY <1>2, <1>3, <1>4, <2>1, OlderStays DEF SourceInv
  <2>3. \A r \in Readers : ReadInv(reading[r])'
    BY <1>2, <1>3, <1>4, OlderStays DEF SourceInv, TypeInv
  <2> QED BY <1>2, <1>4, <2>2, <2>3 DEF SourceInv
<1>6. PoolInv'
  BY <1>2 DEF PoolInv
<1> QED BY <1>3, <1>5, <1>6

\* A request moves on, and the pools still answer their keys.
LEMMA MoveKeeps ==
  ASSUME CacheInv, NEW r \in Readers, NEW rd \in Reading, ReadInv(rd),
         reading' = [reading EXCEPT ![r] = rd], UNCHANGED <<published, commits>>,
         pools' \in [Kinds -> Pool],
         \A k \in Kinds : /\ WithinBudget(k, pools'[k])
                          /\ \A i \in DOMAIN pools'[k].lru : EntryInv(pools'[k].lru[i])
  PROVE  CacheInv'
<1>1. TypeInv'
  BY DEF CacheInv, TypeInv, Pool
<1>2. \A d \in Cubes : published[d].version <= published'[d].version
  BY DEF CacheInv, TypeInv, Snapshot
<1>3. \A q \in Readers : ReadInv(reading'[q]) /\ reading'[q] \in Reading
  BY DEF CacheInv, TypeInv, SourceInv
<1>4. \A q \in Readers : ReadInv(reading[q])'
  BY <1>1, <1>2, <1>3, OlderStays DEF CacheInv
<1>5. \A k \in Kinds : \A i \in DOMAIN pools'[k].lru : pools'[k].lru[i] \in Entry
  BY DEF Pool
<1>6. \A k \in Kinds : \A i \in DOMAIN pools'[k].lru : EntryInv(pools[k].lru[i])'
  BY <1>1, <1>2, <1>5, OlderStays DEF CacheInv
<1>7. SourceInv'
  BY <1>4, <1>6 DEF CacheInv, SourceInv
<1>8. PoolInv'
  BY DEF PoolInv
<1> QED BY <1>1, <1>7, <1>8 DEF CacheInv

\* The pools as the invariant has them.
LEMMA PoolsStay ==
  ASSUME CacheInv
  PROVE  /\ pools \in [Kinds -> Pool]
         /\ \A k \in Kinds : /\ WithinBudget(k, pools[k])
                             /\ \A i \in DOMAIN pools[k].lru : EntryInv(pools[k].lru[i])
  BY DEF CacheInv, TypeInv, SourceInv, PoolInv, Pool

LEMMA BeginKeeps ==
  ASSUME CacheInv, NEW r \in Readers, Begin(r)
  PROVE  CacheInv'
<1>1. PICK q \in Requests : reading' = [reading EXCEPT ![r] =
           [pc |-> "deps", req |-> q,
            start |-> [d \in Cubes |-> published[d].version],
            snap |-> published[q.cube],
            deps |-> <<>>, todo |-> published[q.cube].refs]]
  BY DEF Begin
<1> DEFINE rd == [pc |-> "deps", req |-> q,
                  start |-> [d \in Cubes |-> published[d].version],
                  snap |-> published[q.cube],
                  deps |-> <<>>, todo |-> published[q.cube].refs]
<1>2. /\ q.cube \in Cubes /\ \A d \in Cubes : published[d].version \in Nat
      /\ published[q.cube] \in Snapshot /\ published[q.cube].refs \in SUBSET Cubes
      /\ published[q.cube].refs \in RuleSets[q.cube]
  BY Asked, PublishedIs DEF CacheInv
<1>3. rd \in Reading
  <2>1. [d \in Cubes |-> published[d].version] \in [Cubes -> Nat]
    BY <1>2
  <2>2. <<>> \in Seq(Cubes \X Nat)
    OBVIOUS
  <2> QED BY <1>2, <2>1, <2>2 DEF Reading
<1>4. ReadInv(rd)
  BY <1>2 DEF ReadInv, DepsInv, HeadInv, Behind, DepNames
<1>5. UNCHANGED <<published, commits, pools>>
  BY DEF Begin
<1> HIDE DEF rd
<1>6. reading' = [reading EXCEPT ![r] = rd]
  BY <1>1 DEF rd
<1> QED BY <1>3, <1>4, <1>5, <1>6, MoveKeeps, PoolsStay

\* A request whose dependencies are being read, and one that pins.
LEMMA InDeps ==
  ASSUME CacheInv, NEW r \in Readers, reading[r].pc = "deps"
  PROVE  /\ reading[r] \in [pc : {"deps"}, req : Requests, start : [Cubes -> Nat], snap : Snapshot,
                            deps : Seq(Cubes \X Nat), todo : SUBSET Cubes]
         /\ DepsInv(reading[r]) /\ HeadInv(reading[r])
<1>1. reading[r] \in Reading /\ ReadInv(reading[r])
  BY DEF CacheInv, TypeInv, SourceInv
<1>2. DepsInv(reading[r]) /\ HeadInv(reading[r])
  BY <1>1 DEF ReadInv, DepsInv
<1> QED BY <1>1, <1>2 DEF Reading, Idle

LEMMA InPin ==
  ASSUME CacheInv, NEW r \in Readers, reading[r].pc = "pin"
  PROVE  /\ reading[r] \in [pc : {"pin"}, req : Requests, start : [Cubes -> Nat], snap : Snapshot,
                            deps : Seq(Cubes \X Nat), pins : PinSets, todo : SUBSET Cubes]
         /\ PinInv(reading[r]) /\ HeadInv(reading[r])
<1>1. reading[r] \in Reading /\ ReadInv(reading[r])
  BY DEF CacheInv, TypeInv, SourceInv
<1>2. PinInv(reading[r]) /\ HeadInv(reading[r])
  BY <1>1 DEF ReadInv, PinInv
<1> QED BY <1>1, <1>2 DEF Reading, Idle

LEMMA ReadDepVersionKeeps ==
  ASSUME CacheInv, NEW r \in Readers, ReadDepVersion(r)
  PROVE  CacheInv'
<1> DEFINE old == reading[r]
           d == FirstOf(old.todo)
           new == Append(old.deps, <<d, published[d].version>>)
           rd == [old EXCEPT !.deps = new, !.todo = old.todo \ {d}]
<1>1. /\ old \in [pc : {"deps"}, req : Requests, start : [Cubes -> Nat], snap : Snapshot,
                  deps : Seq(Cubes \X Nat), todo : SUBSET Cubes]
      /\ DepsInv(old) /\ HeadInv(old) /\ old.todo # {}
  BY InDeps DEF ReadDepVersion
<1>2. d \in old.todo /\ d \in Cubes
  BY <1>1, FirstIsIn
<1>3. reading' = [reading EXCEPT ![r] = rd] /\ UNCHANGED <<published, commits, pools>>
  BY DEF ReadDepVersion, CacheInv, TypeInv
<1> HIDE DEF old, d
<1>4. published[d].version \in Nat
  BY <1>2, PublishedIs DEF CacheInv
<1>5. /\ new \in Seq(Cubes \X Nat) /\ Len(new) = Len(old.deps) + 1
      /\ \A j \in DOMAIN old.deps : j \in DOMAIN new /\ new[j] = old.deps[j]
      /\ Len(new) \in DOMAIN new /\ new[Len(new)] = <<d, published[d].version>>
      /\ \A j \in DOMAIN new : j \in DOMAIN old.deps \/ j = Len(new)
  BY <1>1, <1>2, <1>4
<1> HIDE DEF new
<1>6. /\ rd \in [pc : {"deps"}, req : Requests, start : [Cubes -> Nat], snap : Snapshot,
                 deps : Seq(Cubes \X Nat), todo : SUBSET Cubes]
      /\ rd.pc = "deps" /\ rd.req = old.req /\ rd.start = old.start /\ rd.snap = old.snap
      /\ rd.deps = new /\ rd.todo = old.todo \ {d}
  BY <1>1, <1>5
<1> HIDE DEF rd
<1>7. HeadInv(rd)
  <2>1. old.start[d] <= published[d].version
    BY <1>1, <1>2 DEF HeadInv, Behind
  <2>2. \A j \in DOMAIN new : /\ old.start[new[j][1]] <= new[j][2]
                              /\ new[j][2] <= published[new[j][1]].version
    <3> SUFFICES ASSUME NEW j \in DOMAIN new
                 PROVE  /\ old.start[new[j][1]] <= new[j][2]
                        /\ new[j][2] <= published[new[j][1]].version
      OBVIOUS
    <3>1. CASE j \in DOMAIN old.deps
      BY <1>1, <1>5, <3>1 DEF HeadInv
    <3>2. CASE j = Len(new)
      <4>1. new[j][1] = d /\ new[j][2] = published[d].version
        BY <1>5, <3>2
      <4> QED BY <1>4, <2>1, <4>1
    <3> QED BY <1>5, <3>1, <3>2
  <2> QED BY <1>1, <1>6, <2>2 DEF HeadInv
<1>8. DepNames(new) \cup (old.todo \ {d}) = old.snap.refs
  <2>1. DepNames(new) = DepNames(old.deps) \cup {d}
    BY SMTT(30), <1>5 DEF DepNames
  <2> QED BY <1>1, <1>2, <2>1 DEF DepsInv
<1>9. ReadInv(rd)
  BY <1>6, <1>7, <1>8 DEF ReadInv, DepsInv
<1>10. rd \in Reading
  BY <1>6 DEF Reading
<1> QED BY <1>3, <1>9, <1>10, MoveKeeps, PoolsStay

LEMMA MissKeeps ==
  ASSUME CacheInv, NEW r \in Readers, Miss(r)
  PROVE  CacheInv'
<1> DEFINE old == reading[r]
           pins == [c \in {old.req.cube} |-> old.snap]
           rd == [pc |-> "pin", req |-> old.req, start |-> old.start, snap |-> old.snap,
                  deps |-> old.deps, pins |-> pins, todo |-> Cubes \ {old.req.cube}]
<1>1. /\ old \in [pc : {"deps"}, req : Requests, start : [Cubes -> Nat], snap : Snapshot,
                  deps : Seq(Cubes \X Nat), todo : SUBSET Cubes]
      /\ DepsInv(old) /\ HeadInv(old) /\ old.todo = {}
  BY InDeps DEF Miss
<1>2. reading' = [reading EXCEPT ![r] = rd] /\ UNCHANGED <<published, commits, pools>>
  BY DEF Miss
<1> HIDE DEF old
<1>3. old.req.cube \in Cubes
  BY <1>1, Asked
<1>4. pins \in PinSets
  <2>1. pins \in [{old.req.cube} -> Snapshot] /\ {old.req.cube} \in SUBSET Cubes
    BY <1>1, <1>3
  <2> QED BY <2>1 DEF PinSets
<1>5. rd \in Reading
  BY <1>1, <1>4 DEF Reading
<1>6. HeadInv(rd)
  BY <1>1 DEF HeadInv
<1>7. old.req.cube \notin DepNames(old.deps)
  BY <1>1, <1>3, RulesAssumption DEF DepsInv, HeadInv
<1>8. \A j \in DOMAIN old.deps : old.deps[j][1] # old.req.cube
  BY <1>7 DEF DepNames
<1>9. /\ old.start[old.req.cube] <= old.snap.version
      /\ old.snap.version <= published[old.req.cube].version
      /\ old.snap.version \in Nat
  BY <1>1, <1>3 DEF HeadInv, Behind, Snapshot
<1>10. PinInv(rd)
  BY <1>1, <1>3, <1>6, <1>8, <1>9 DEF PinInv, DepsInv, HeadInv
<1>11. ReadInv(rd)
  BY <1>10 DEF ReadInv
<1> HIDE DEF rd
<1> QED BY <1>2, <1>5, <1>11, MoveKeeps, PoolsStay

LEMMA PinSiblingKeeps ==
  ASSUME CacheInv, NEW r \in Readers, PinSibling(r)
  PROVE  CacheInv'
<1> DEFINE old == reading[r]
           d == FirstOf(old.todo)
           pins == [c \in DOMAIN old.pins \cup {d} |-> IF c = d THEN published[d] ELSE old.pins[c]]
           rd == [old EXCEPT !.pins = pins, !.todo = old.todo \ {d}]
<1>1. /\ old \in [pc : {"pin"}, req : Requests, start : [Cubes -> Nat], snap : Snapshot,
                  deps : Seq(Cubes \X Nat), pins : PinSets, todo : SUBSET Cubes]
      /\ PinInv(old) /\ HeadInv(old) /\ old.todo # {}
  BY InPin DEF PinSibling
<1>2. d \in old.todo /\ d \in Cubes
  BY <1>1, FirstIsIn
<1>3. reading' = [reading EXCEPT ![r] = rd] /\ UNCHANGED <<published, commits, pools>>
  BY DEF PinSibling, CacheInv, TypeInv
<1> HIDE DEF old, d
<1>4. /\ published[d] \in Snapshot /\ published[d].refs \in RuleSets[d]
      /\ old.start[d] <= published[d].version /\ published[d].version <= published[d].version
  BY <1>1, <1>2, PublishedIs DEF CacheInv, HeadInv, Behind
<1>5. pins \in PinSets
  <2>1. DOMAIN old.pins \cup {d} \in SUBSET Cubes
    BY <1>1, <1>2 DEF PinInv
  <2>2. \A c \in DOMAIN old.pins : old.pins[c] \in Snapshot
    BY <1>1 DEF PinInv
  <2>3. pins \in [DOMAIN old.pins \cup {d} -> Snapshot]
    BY <1>4, <2>2
  <2> QED BY <2>1, <2>3 DEF PinSets
<1>6. /\ rd \in [pc : {"pin"}, req : Requests, start : [Cubes -> Nat], snap : Snapshot,
                 deps : Seq(Cubes \X Nat), pins : PinSets, todo : SUBSET Cubes]
      /\ rd.pc = "pin" /\ rd.req = old.req /\ rd.start = old.start /\ rd.snap = old.snap
      /\ rd.deps = old.deps /\ rd.pins = pins /\ rd.todo = old.todo \ {d}
  <2> HIDE DEF pins
  <2> QED BY <1>1, <1>5
<1>7. /\ DOMAIN pins = DOMAIN old.pins \cup {d} /\ pins[d] = published[d]
      /\ \A c \in DOMAIN old.pins : c # d => pins[c] = old.pins[c]
  OBVIOUS
<1> HIDE DEF rd, pins
<1>8. HeadInv(rd)
  BY <1>1, <1>6 DEF HeadInv
<1>9. \A j \in DOMAIN old.deps : old.deps[j][1] \in DOMAIN pins =>
        old.deps[j][2] <= pins[old.deps[j][1]].version
  BY <1>1, <1>7 DEF PinInv, HeadInv
<1>10. \A c \in DOMAIN pins : /\ pins[c] \in Snapshot /\ pins[c].refs \in RuleSets[c]
                              /\ old.start[c] <= pins[c].version
                              /\ pins[c].version <= published[c].version
  BY <1>1, <1>4, <1>7 DEF PinInv
<1>11. DOMAIN pins = Cubes \ (old.todo \ {d}) /\ old.req.cube # d
  BY <1>1, <1>2, <1>7 DEF PinInv
<1>12. old.req.cube \in DOMAIN old.pins
  BY <1>1, Asked DEF PinInv
<1>13. PinInv(rd)
  BY <1>1, <1>6, <1>7, <1>8, <1>9, <1>10, <1>11, <1>12 DEF PinInv
<1>14. ReadInv(rd) /\ rd \in Reading
  BY <1>6, <1>13 DEF ReadInv, Reading
<1> QED BY <1>3, <1>14, MoveKeeps, PoolsStay

LEMMA HitKeeps ==
  ASSUME CacheInv, NEW r \in Readers, Hit(r)
  PROVE  /\ CacheInv'
         /\ \A k \in Kinds : \A i \in DOMAIN pools[k].lru : Holds(pools'[k], pools[k].lru[i].key)
<1> DEFINE old == reading[r]
           k == old.req.kind
           key == Key(old)
           pool == Touch(pools[k], key)
           entry == EntryOf(pools[k], key)
           rd == Answered(old, entry.cells)
<1>1. /\ old \in [pc : {"deps"}, req : Requests, start : [Cubes -> Nat], snap : Snapshot,
                  deps : Seq(Cubes \X Nat), todo : SUBSET Cubes]
      /\ DepsInv(old) /\ HeadInv(old) /\ old.todo = {}
  BY InDeps DEF Hit
<1>2. /\ reading' = [reading EXCEPT ![r] = rd] /\ UNCHANGED <<published, commits>>
      /\ pools' = [pools EXCEPT ![k] = pool] /\ Holds(pools[k], key)
  BY DEF Hit
<1>3. /\ key.cube = old.req.cube /\ key.version = old.snap.version /\ key.deps = old.deps
      /\ key.view = old.req.view /\ key.ctx = old.req.ctx
  BY DEF Key
<1> HIDE DEF old, key
<1>4. k \in Kinds /\ old.req.cube \in Cubes
  BY <1>1, Asked
<1>5. /\ pools \in [Kinds -> Pool] /\ pools[k] \in Pool /\ WithinBudget(k, pools[k])
      /\ \A i \in DOMAIN pools[k].lru : EntryInv(pools[k].lru[i])
  BY <1>4, PoolsStay
<1>6. entry \in Entry /\ EntryInv(entry) /\ entry.key = key
  <2>1. PlaceOf(pools[k], key) \in DOMAIN pools[k].lru /\ entry.key = key
    BY <1>2, Found
  <2> QED BY <1>5, <2>1 DEF EntryOf, Pool
<1>7. /\ pool \in Pool /\ WithinBudget(k, pool)
      /\ \A j \in DOMAIN pool.lru : \E i \in DOMAIN pools[k].lru : pool.lru[j] = pools[k].lru[i]
      /\ \A i \in DOMAIN pools[k].lru : \E j \in DOMAIN pool.lru : pool.lru[j] = pools[k].lru[i]
  BY <1>2, <1>4, <1>5, Touched
<1> HIDE DEF k, pool, entry
<1>8. /\ pools' \in [Kinds -> Pool]
      /\ \A q \in Kinds : /\ WithinBudget(q, pools'[q])
                          /\ \A i \in DOMAIN pools'[q].lru : EntryInv(pools'[q].lru[i])
  <2>1. \A j \in DOMAIN pool.lru : EntryInv(pool.lru[j])
    BY <1>5, <1>7
  <2> QED BY <1>2, <1>4, <1>7, <2>1, PoolsStay
<1>9. /\ rd.pc = "answered" /\ rd.req = old.req /\ rd.version = old.snap.version
      /\ rd.cells = entry.cells /\ rd.start = Restrict(old.start, DOMAIN entry.cells.from)
  BY DEF Answered
<1>10. /\ DOMAIN entry.cells.from \in SUBSET Cubes
       /\ \A d \in DOMAIN entry.cells.from : entry.cells.from[d] \in Nat
  BY <1>6 DEF Entry, Cells, Partial
<1>11. /\ rd.start \in Partial
       /\ \A d \in DOMAIN entry.cells.from : rd.start[d] = old.start[d]
  <2>1. rd.start = [d \in DOMAIN entry.cells.from |-> old.start[d]]
    BY <1>1, <1>9, <1>10 DEF Restrict
  <2>2. rd.start \in [DOMAIN entry.cells.from -> Nat]
    BY <1>1, <1>10, <2>1
  <2> QED BY <1>10, <2>1, <2>2 DEF Partial
<1>12. rd \in Reading
  <2>1. entry.cells \in Cells /\ old.snap.version \in Nat /\ old.req \in Requests
    BY <1>1, <1>6 DEF Entry, Snapshot
  <2>2. rd = [pc |-> "answered", req |-> old.req, version |-> old.snap.version,
              cells |-> entry.cells, start |-> rd.start]
    BY DEF Answered
  <2> HIDE DEF rd
  <2>3. rd \in [pc : {"answered"}, req : Requests, version : Nat, cells : Cells, start : Partial]
    BY <1>11, <2>1, <2>2
  <2> QED BY <2>3 DEF Reading
<1> HIDE DEF rd
<1>13. AnswerInv(rd)
  <2>1. Sourced(rd.cells, rd.req.view, rd.req.ctx, rd.req.cube, rd.version)
    BY <1>3, <1>6, <1>9 DEF EntryInv
  <2>2. Behind(rd.cells.from)
    BY <1>6, <1>9 DEF EntryInv
  <2>3. ASSUME RulesReadOneLevel, NEW d \in DOMAIN entry.cells.from
        PROVE  old.start[d] <= entry.cells.from[d]
    <3>1. CASE d = old.req.cube
      <4>1. entry.cells.from[d] = old.snap.version /\ old.start[d] = old.snap.version
        BY <1>1, <1>3, <1>6, <3>1 DEF EntryInv, Sourced, HeadInv
      <4>2. old.start[d] \in Nat
        BY <1>1, <1>4, <3>1
      <4> QED BY <4>1, <4>2
    <3>2. CASE d \in DepNames(old.deps)
      <4>1. PICK j \in DOMAIN old.deps : old.deps[j][1] = d
        BY <3>2 DEF DepNames
      <4>2. old.start[d] <= old.deps[j][2]
        BY <1>1, <4>1 DEF HeadInv
      <4>3. old.deps[j][2] <= entry.cells.from[d]
        BY <1>3, <1>6, <4>1 DEF EntryInv
      <4>4. old.deps[j][2] \in Nat /\ old.start[d] \in Nat /\ entry.cells.from[d] \in Nat
        BY <1>1, <1>10
      <4> QED BY <4>2, <4>3, <4>4
    <3> QED BY <1>3, <1>6, <2>3, <3>1, <3>2 DEF EntryInv
  <2> QED BY <1>9, <1>11, <2>1, <2>2, <2>3 DEF AnswerInv
<1>14. ReadInv(rd)
  BY <1>9, <1>13 DEF ReadInv
<1>15. CacheInv'
  BY <1>2, <1>8, <1>12, <1>14, MoveKeeps
<1>16. \A q \in Kinds : \A i \in DOMAIN pools[q].lru : Holds(pools'[q], pools[q].lru[i].key)
  <2> SUFFICES ASSUME NEW q \in Kinds, NEW i \in DOMAIN pools[q].lru
               PROVE  Holds(pools'[q], pools[q].lru[i].key)
    OBVIOUS
  <2>1. CASE q = k
    BY <1>2, <1>4, <1>5, <1>7, <2>1 DEF Holds
  <2>2. CASE q # k
    BY <1>2, <1>4, <1>5, <2>2 DEF Holds
  <2> QED BY <2>1, <2>2
<1> QED BY <1>15, <1>16

LEMMA ComputeKeeps ==
  ASSUME CacheInv, NEW r \in Readers, Compute(r)
  PROVE  /\ CacheInv'
         /\ \A k \in Kinds : pools'[k] # pools[k] =>
              k = reading[r].req.kind /\ Holds(pools'[k], Key(reading[r]))
<1> DEFINE old == reading[r]
           k == old.req.kind
           key == Key(old)
           cells == Computed(old)
           rd == Answered(old, cells)
           entry(size) == [key |-> key, cells |-> cells, bytes |-> size]
<1>1. /\ old \in [pc : {"pin"}, req : Requests, start : [Cubes -> Nat], snap : Snapshot,
                  deps : Seq(Cubes \X Nat), pins : PinSets, todo : SUBSET Cubes]
      /\ PinInv(old) /\ HeadInv(old) /\ old.todo = {}
  BY InPin DEF Compute
<1>2. /\ reading' = [reading EXCEPT ![r] = rd] /\ UNCHANGED <<published, commits>>
      /\ \E size \in Sizes :
           \/ Entries > 0 /\ pools' = [pools EXCEPT ![k] = Inserted(k, pools[k], entry(size))]
           \/ pools' = pools
  BY DEF Compute
<1>3. key = [cube |-> old.req.cube, version |-> old.snap.version, deps |-> old.deps,
             view |-> old.req.view, ctx |-> old.req.ctx]
  BY DEF Key
<1>4. cells = [view |-> old.req.view, ctx |-> old.req.ctx,
               from |-> [c \in UsedFrom(old.pins, old.req.cube) |-> old.pins[c].version]]
  BY DEF Computed
<1>5. rd = [pc |-> "answered", req |-> old.req, version |-> old.snap.version, cells |-> cells,
            start |-> Restrict(old.start, DOMAIN cells.from)]
  BY DEF Answered
<1> HIDE DEF old, key, cells
<1>6. k \in Kinds /\ old.req.cube \in Cubes /\ old.req.view \in Views /\ old.req.ctx \in Contexts
  BY <1>1, Asked
<1>7. DOMAIN old.pins = Cubes /\ \A d \in Cubes : /\ old.pins[d] \in Snapshot
                                                 /\ old.pins[d].version \in Nat
                                                 /\ old.pins[d].refs \in RuleSets[d]
                                                 /\ old.start[d] <= old.pins[d].version
                                                 /\ old.pins[d].version <= published[d].version
  BY <1>1 DEF PinInv, Snapshot
<1>8. /\ cells.view = old.req.view /\ cells.ctx = old.req.ctx
      /\ DOMAIN cells.from = UsedFrom(old.pins, old.req.cube)
      /\ DOMAIN cells.from \in SUBSET Cubes /\ old.req.cube \in DOMAIN cells.from
      /\ \A d \in DOMAIN cells.from : cells.from[d] = old.pins[d].version
      /\ RulesReadOneLevel => DOMAIN cells.from \subseteq {old.req.cube} \cup old.pins[old.req.cube].refs
  BY <1>4, <1>6, <1>7, Used
<1>9. cells \in Cells
  <2>1. [c \in UsedFrom(old.pins, old.req.cube) |-> old.pins[c].version]
          \in [UsedFrom(old.pins, old.req.cube) -> Nat]
    BY <1>7, <1>8
  <2>2. [c \in UsedFrom(old.pins, old.req.cube) |-> old.pins[c].version] \in Partial
    BY <1>8, <2>1 DEF Partial
  <2> QED BY <1>4, <1>6, <2>2 DEF Cells
<1>10. key \in Keys
  BY <1>1, <1>3, <1>6 DEF Keys, Snapshot
<1>11. \A size \in Sizes : entry(size) \in Entry
  BY <1>9, <1>10 DEF Entry
<1>12. /\ Sourced(cells, old.req.view, old.req.ctx, old.req.cube, old.snap.version)
       /\ Behind(cells.from)
       /\ \A d \in DOMAIN cells.from : old.start[d] <= cells.from[d]
  <2>1. old.pins[old.req.cube].version = old.snap.version
    BY <1>1 DEF PinInv
  <2> QED BY <1>7, <1>8, <2>1 DEF Sourced, Behind
<1>13. \A size \in Sizes : EntryInv(entry(size))
  <2> SUFFICES ASSUME NEW size \in Sizes PROVE EntryInv(entry(size))
    OBVIOUS
  <2>1. /\ key.cube = old.req.cube /\ key.version = old.snap.version /\ key.deps = old.deps
        /\ key.view = old.req.view /\ key.ctx = old.req.ctx
    BY <1>3
  <2>2. \A j \in DOMAIN old.deps : old.deps[j][1] \in DOMAIN cells.from =>
          old.deps[j][2] <= cells.from[old.deps[j][1]]
    BY <1>1, <1>7, <1>8 DEF PinInv
  <2>3. RulesReadOneLevel => DOMAIN cells.from \subseteq {old.req.cube} \cup DepNames(old.deps)
    BY <1>1, <1>8 DEF PinInv
  <2>4. entry(size).key = key /\ entry(size).cells = cells
    OBVIOUS
  <2> QED BY <1>12, <2>1, <2>2, <2>3, <2>4 DEF EntryInv
<1>14. rd \in Reading /\ ReadInv(rd)
  <2> DEFINE start == Restrict(old.start, DOMAIN cells.from)
  <2>1. start = [d \in DOMAIN cells.from |-> old.start[d]]
    BY <1>1, <1>8 DEF Restrict
  <2>2. start \in [DOMAIN cells.from -> Nat]
    BY <1>1, <1>8, <2>1
  <2>3. start \in Partial /\ \A d \in DOMAIN cells.from : start[d] = old.start[d]
    BY <1>8, <2>1, <2>2 DEF Partial
  <2> HIDE DEF start
  <2>4. old.snap.version \in Nat /\ old.req \in Requests
    BY <1>1 DEF Snapshot
  <2>5. rd = [pc |-> "answered", req |-> old.req, version |-> old.snap.version, cells |-> cells,
              start |-> start]
    BY <1>5 DEF start
  <2> HIDE DEF rd
  <2>6. rd \in [pc : {"answered"}, req : Requests, version : Nat, cells : Cells, start : Partial]
    BY <1>9, <2>3, <2>4, <2>5
  <2>7. /\ rd.pc = "answered" /\ rd.req = old.req /\ rd.version = old.snap.version
        /\ rd.cells = cells /\ rd.start = start
    BY <2>5
  <2>8. AnswerInv(rd)
    BY <1>12, <2>3, <2>7 DEF AnswerInv
  <2> QED BY <2>6, <2>7, <2>8 DEF Reading, ReadInv
<1> HIDE DEF rd, k
<1>15. CASE pools' = pools
  BY <1>2, <1>14, <1>15, MoveKeeps, PoolsStay
<1>16. CASE Entries > 0 /\ \E size \in Sizes :
              pools' = [pools EXCEPT ![k] = Inserted(k, pools[k], entry(size))]
  <2>1. PICK size \in Sizes : pools' = [pools EXCEPT ![k] = Inserted(k, pools[k], entry(size))]
    BY <1>16
  <2> DEFINE pool == Inserted(k, pools[k], entry(size))
  <2>2. Cap(k) \in Nat \ {0} /\ Budget(k) \in Nat
    BY <1>16, PoolAssumption DEF Cap, Budget
  <2>3. /\ pools \in [Kinds -> Pool] /\ pools[k] \in Pool /\ WithinBudget(k, pools[k])
        /\ \A i \in DOMAIN pools[k].lru : EntryInv(pools[k].lru[i])
    BY <1>6, PoolsStay
  <2>4. entry(size) \in Entry /\ EntryInv(entry(size)) /\ entry(size).key = key
    BY <1>11, <1>13
  <2> HIDE DEF entry
  <2>5. /\ pool \in Pool /\ WithinBudget(k, pool) /\ Holds(pool, key)
        /\ \A j \in DOMAIN pool.lru : \/ pool.lru[j] = entry(size)
                                      \/ \E i \in DOMAIN pools[k].lru : pool.lru[j] = pools[k].lru[i]
    BY <1>6, <2>2, <2>3, <2>4, InsertedIs
  <2>6. \A j \in DOMAIN pool.lru : EntryInv(pool.lru[j])
    BY <2>3, <2>4, <2>5
  <2> HIDE DEF pool
  <2>7. /\ pools' \in [Kinds -> Pool]
        /\ \A q \in Kinds : /\ WithinBudget(q, pools'[q])
                            /\ \A i \in DOMAIN pools'[q].lru : EntryInv(pools'[q].lru[i])
    BY <1>6, <2>1, <2>5, <2>6, PoolsStay DEF pool
  <2>8. \A q \in Kinds : pools'[q] # pools[q] => q = k /\ Holds(pools'[q], key)
    BY <1>6, <2>1, <2>3, <2>5 DEF pool
  <2> QED BY <1>2, <1>14, <2>7, <2>8, MoveKeeps DEF old, k, key
<1> QED BY <1>2, <1>15, <1>16

LEMMA ComputeFailsKeeps ==
  ASSUME CacheInv, NEW r \in Readers, ComputeFails(r)
  PROVE  CacheInv'
<1>1. Idle \in Reading /\ ReadInv(Idle)
  BY DEF Reading, ReadInv, Idle
<1>2. reading' = [reading EXCEPT ![r] = Idle] /\ UNCHANGED <<published, commits, pools>>
  BY DEF ComputeFails
<1> QED BY <1>1, <1>2, MoveKeeps, PoolsStay

LEMMA InitHolds ==
  ASSUME CacheInit
  PROVE  CacheInv
<1>1. TypeInv
  <2>1. published \in [Cubes -> Snapshot]
    BY DEF CacheInit, Snapshot
  <2>2. <<>> \in Seq(Entry)
    OBVIOUS
  <2>3. [lru |-> <<>>, bytes |-> 0] \in [lru : Seq(Entry), bytes : Nat]
    BY <2>2
  <2>4. pools \in [Kinds -> [lru : Seq(Entry), bytes : Nat]]
    BY <2>3 DEF CacheInit, EmptyPools
  <2>5. reading \in [Readers -> Reading]
    BY DEF CacheInit, Reading
  <2> QED BY <2>1, <2>4, <2>5 DEF CacheInit, TypeInv
<1>2. SourceInv
  BY DEF CacheInit, SourceInv, EmptyPools, ReadInv, Idle
<1>3. PoolInv
  <2>1. Units(<<>>) = {}
    BY DEF Units
  <2>2. IsFiniteSet(Units(<<>>)) /\ BytesOf(<<>>) = 0
    BY <2>1, FS_EmptySet DEF BytesOf
  <2>3. \A k \in Kinds : Cap(k) \in Nat /\ Budget(k) \in Nat
    BY PoolAssumption DEF Cap, Budget
  <2>4. \A k \in Kinds : pools[k].lru = <<>> /\ pools[k].bytes = 0
    BY DEF CacheInit, EmptyPools
  <2> QED BY <2>2, <2>3, <2>4 DEF PoolInv, WithinBudget, Unique
<1> QED BY <1>1, <1>2, <1>3 DEF CacheInv

LEMMA NextKeeps ==
  ASSUME CacheInv, [CacheNext]_cacheVars
  PROVE  CacheInv'
<1>1. ASSUME NEW c \in Cubes, CommitCells(c) \/ CommitRules(c) PROVE CacheInv'
  BY <1>1, CommitKeeps
<1>2. ASSUME NEW r \in Readers,
             \/ Begin(r) \/ ReadDepVersion(r) \/ Hit(r) \/ Miss(r)
             \/ PinSibling(r) \/ Compute(r) \/ ComputeFails(r)
      PROVE  CacheInv'
  BY <1>2, BeginKeeps, ReadDepVersionKeeps, HitKeeps, MissKeeps, PinSiblingKeeps,
     ComputeKeeps, ComputeFailsKeeps
<1>3. CASE UNCHANGED cacheVars
  <2>1. TypeInv' /\ PoolInv'
    BY <1>3 DEF cacheVars, CacheInv, TypeInv, PoolInv
  <2>2. \A d \in Cubes : published[d].version <= published'[d].version
    BY <1>3 DEF cacheVars, CacheInv, TypeInv, Snapshot
  <2>3. \A k \in Kinds : \A i \in DOMAIN pools[k].lru : EntryInv(pools[k].lru[i])'
    BY <1>3, <2>1, <2>2, OlderStays DEF cacheVars, CacheInv, TypeInv, SourceInv
  <2>4. \A r \in Readers : ReadInv(reading[r])'
    BY <1>3, <2>1, <2>2, OlderStays DEF cacheVars, CacheInv, TypeInv, SourceInv
  <2> QED BY <1>3, <2>1, <2>3, <2>4 DEF cacheVars, CacheInv, SourceInv
<1> QED BY <1>1, <1>2, <1>3 DEF CacheNext

\* The strengthened invariant of the cache holds in every reachable state.
THEOREM CacheInvariance == CacheSpec => []CacheInv
<1>1. CacheInit => CacheInv
  BY InitHolds
<1>2. CacheInv /\ [CacheNext]_cacheVars => CacheInv'
  BY NextKeeps
<1> QED BY <1>1, <1>2, PTL DEF CacheSpec

\* The type of every variable (published, commits, the pools of
\* view_cache.rs and the requests of query_routes.rs), for any number of cubes,
\* readers, commits and any budgets.
LEMMA TypeFollows ==
  ASSUME CacheInv
  PROVE  CacheTypeOK
<1>1. \A d \in Cubes : published[d].version \in 0 .. commits
  BY DEF CacheInv, TypeInv, SourceInv, Snapshot
<1>2. \A cells \in Cells : Behind(cells.from) => cells \in CellsType
  <2> SUFFICES ASSUME NEW cells \in Cells, Behind(cells.from) PROVE cells \in CellsType
    OBVIOUS
  <2>1. PICK S \in SUBSET Cubes : cells.from \in [S -> Nat]
    BY DEF Cells, Partial
  <2>2. \A d \in S : cells.from[d] \in 0 .. commits
    BY <1>1, <2>1 DEF Behind, CacheInv, TypeInv
  <2>3. cells.from \in [S -> 0 .. commits]
    BY <2>1, <2>2
  <2>4. cells = [view |-> cells.view, ctx |-> cells.ctx, from |-> cells.from]
    BY DEF Cells
  <2>5. cells.view \in Views /\ cells.ctx \in Contexts
    BY DEF Cells
  <2> HIDE DEF Views, Contexts
  <2> QED BY <2>3, <2>4, <2>5 DEF CellsType, Views, Contexts
<1>3. published \in [Cubes -> [version : 0 .. commits, refs : SUBSET Cubes]]
  BY <1>1 DEF CacheInv, TypeInv, Snapshot
<1>4. \A k \in Kinds : /\ pools[k].bytes \in Nat
                       /\ \A i \in DOMAIN pools[k].lru : /\ pools[k].lru[i].cells \in CellsType
                                                         /\ pools[k].lru[i].bytes \in Sizes
  <2>1. \A k \in Kinds : \A i \in DOMAIN pools[k].lru : pools[k].lru[i] \in Entry
    BY SMTT(30) DEF CacheInv, TypeInv
  <2>2. \A k \in Kinds : \A i \in DOMAIN pools[k].lru :
          pools[k].lru[i].cells \in Cells /\ Behind(pools[k].lru[i].cells.from)
    BY <2>1 DEF CacheInv, SourceInv, EntryInv, Entry
  <2> QED BY <1>2, <2>1, <2>2 DEF CacheInv, TypeInv, Entry
<1>5. \A r \in Readers : /\ reading[r].pc \in {"idle", "deps", "pin", "answered"}
                         /\ reading[r].pc = "answered" => reading[r].cells \in CellsType
  <2> SUFFICES ASSUME NEW r \in Readers
               PROVE  /\ reading[r].pc \in {"idle", "deps", "pin", "answered"}
                      /\ reading[r].pc = "answered" => reading[r].cells \in CellsType
    OBVIOUS
  <2>1. reading[r] \in Reading
    BY DEF CacheInv, TypeInv
  <2>2. reading[r].pc = "answered" => reading[r].cells \in Cells /\ Behind(reading[r].cells.from)
    BY <2>1 DEF CacheInv, SourceInv, ReadInv, AnswerInv, Reading, Idle
  <2> QED BY <1>2, <2>1, <2>2 DEF Reading, Idle
<1> QED BY <1>3, <1>4, <1>5 DEF CacheTypeOK, CacheInv, TypeInv

\* A response is the view asked for, in its context, at the version it reports
\* (execute_saved_view, execute_adhoc_view), whatever the rules read.
THEOREM AnswersAreTheRequests == CacheSpec => []AnswersTheRequest
<1>1. CacheInv => AnswersTheRequest
  BY DEF CacheInv, SourceInv, ReadInv, AnswerInv, Sourced, AnswersTheRequest
<1> QED BY <1>1, CacheInvariance, PTL

\* A read begun after a commit answers with values at least as new
\* (cross_cube_dep_versions), provided the rules of a cube name every cube
\* that the rules of the cubes they name read.
THEOREM AnswersStayCurrent ==
  ASSUME RulesReadOneLevel
  PROVE  CacheSpec => []AnswersAreCurrent
<1>1. CacheInv => AnswersTheRequest
  BY DEF CacheInv, SourceInv, ReadInv, AnswerInv, Sourced, AnswersTheRequest
<1>2. CacheInv => NeverStale
  BY DEF CacheInv, SourceInv, ReadInv, AnswerInv, NeverStale
<1>3. CacheInv => AnswersAreCurrent
  BY <1>1, <1>2 DEF AnswersAreCurrent
<1> QED BY <1>3, CacheInvariance, PTL

\* The two pools keep their books and their budgets whatever reads race, and
\* only a saved read takes an entry from the saved pool (Pool::insert,
\* evict_one and Pool::get).
THEOREM PoolsKeepTheirBooks == CacheSpec => PoolsAreSound
<1>1. CacheInv => CacheTypeOK /\ PoolsAreBounded
  <2>1. CacheInv => PoolsAreBounded
    BY DEF CacheInv, PoolInv, WithinBudget, Unique, PoolsAreBounded
  <2> QED BY <2>1, TypeFollows
<1> DEFINE SavedLeaveForSaved ==
      \A i \in DOMAIN pools["saved"].lru :
        LET key == pools["saved"].lru[i].key IN
        ~Holds(pools'["saved"], key) =>
          \E r \in Readers : /\ reading[r].pc = "pin" /\ reading[r].req.kind = "saved"
                             /\ Holds(pools'["saved"], Key(reading[r]))
<1>2. CacheInv /\ [CacheNext]_cacheVars => [SavedLeaveForSaved]_cacheVars
  <2> SUFFICES ASSUME CacheInv, CacheNext, NEW i \in DOMAIN pools["saved"].lru,
                      ~Holds(pools'["saved"], pools["saved"].lru[i].key)
               PROVE  \E r \in Readers : /\ reading[r].pc = "pin" /\ reading[r].req.kind = "saved"
                                         /\ Holds(pools'["saved"], Key(reading[r]))
    OBVIOUS
  <2>1. "saved" \in Kinds
    BY DEF Kinds
  <2>2. pools' # pools
    BY SMTT(30) DEF Holds
  <2>3. PICK r \in Readers : Hit(r) \/ Compute(r)
    BY <2>2 DEF CacheNext, CommitCells, CommitRules, Begin, ReadDepVersion, Miss, PinSibling, ComputeFails
  <2>4. ~Hit(r)
    BY <2>1, HitKeeps
  <2>5. Compute(r) /\ reading[r].pc = "pin"
    BY <2>3, <2>4 DEF Compute
  <2>6. pools'["saved"] # pools["saved"]
    BY DEF Holds
  <2> QED BY <2>1, <2>5, <2>6, ComputeKeeps
<1>3. CacheSpec => [](CacheTypeOK /\ PoolsAreBounded)
  BY <1>1, CacheInvariance, PTL
<1>4. CacheSpec => [][SavedLeaveForSaved]_cacheVars
  <2> HIDE DEF SavedLeaveForSaved
  <2> QED BY <1>2, CacheInvariance, PTL DEF CacheSpec
<1>5. CacheSpec => OnlySavedEvictsSaved
  BY <1>4 DEF OnlySavedEvictsSaved
<1> QED BY <1>3, <1>5 DEF PoolsAreSound

==============================================================================
