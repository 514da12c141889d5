------------------------------ MODULE Scheduler ------------------------------
(***************************************************************************)
(* The job scheduler (epiphany-api/src/scheduler.rs, job_routes.rs and the  *)
(* due-scan of epiphany-flow/src/scheduler.rs) over the run ledger: a timer *)
(* that scans for due jobs and executes them one after another, manual      *)
(* kicks that execute beside it, jobs that are defined, switched off and    *)
(* deleted meanwhile, and a server that crashes between any two steps.      *)
(*                                                                          *)
(* A run's effects are counted, not modelled: CellWrites has what a step    *)
(* does to a cube.                                                          *)
(***************************************************************************)
EXTENDS Naturals, Sequences, FiniteSets, SequencesExt, FiniteSetsExt

(***************************************************************************)
(* The durable run ledger (epiphany-flow/src/ledger.rs): an append-only log *)
(* of run records, its replay up to the first torn frame, the recovery of   *)
(* interrupted runs, and the retention that rewrites it.  What a ledger     *)
(* holds is a sequence of records; the operators here are what its methods  *)
(* make of one.                                                             *)
(***************************************************************************)

CONSTANTS
    Jobs,       \* numbers, in the order of the job names
    MaxRuns     \* RunRetention.max_runs, at least 1

ASSUME JobsAssumption == Jobs \subseteq Nat /\ IsFiniteSet(Jobs)
ASSUME RetentionAssumption == MaxRuns \in Nat \ {0}

\* A run id is "manual:<job>:<fire>" or "sched::<job>:<fire>".
Manual == 0
Scheduled == 1
RunId(how, job, fire) == [how |-> how, job |-> job, fire |-> fire]

Active == {"queued", "running"}
States == Active \cup {"succeeded", "failed", "interrupted"}
Record(id, state) == [id |-> id, state |-> state]

\* A frame that was not written whole.
Torn == [id |-> RunId(Manual, 0, 0), state |-> "torn"]

-----------------------------------------------------------------------------
(* Reading a ledger.                                                         *)

Runs(records) == {records[i].id : i \in DOMAIN records}

\* RunLedger.latest: the last record of each run
LatestRecords(records) ==
    {records[i] : i \in {k \in DOMAIN records :
                            \A l \in (k + 1)..Len(records) : records[l].id # records[k].id}}

\* last_succeeded_fire looks at every record, superseded ones too; 0 is never
Successes(records, job) ==
    {r \in ToSet(records) : r.id.job = job /\ r.state = "succeeded"}
LastSucceeded(records, job) == Max({0} \cup {r.id.fire : r \in Successes(records, job)})

InFlight(records, job) == \E r \in LatestRecords(records) : r.id.job = job /\ r.state \in Active

-----------------------------------------------------------------------------
(* Retention: enforce_retention.                                             *)

IdBelow(a, b) ==
    \/ a.how < b.how
    \/ a.how = b.how /\ a.job < b.job
    \/ a.how = b.how /\ a.job = b.job /\ a.fire < b.fire

OldestFirst(a, b) == a.id.fire < b.id.fire \/ (a.id.fire = b.id.fire /\ IdBelow(a.id, b.id))
NewestFirst(a, b) == a.id.fire > b.id.fire \/ (a.id.fire = b.id.fire /\ IdBelow(a.id, b.id))

InOrder(S, Before(_, _)) ==
    [i \in 1..Cardinality(S) |-> CHOOSE r \in S : Cardinality({s \in S : Before(s, r)}) = i - 1]

Overgrown(records) ==
    LET distinct == Cardinality(Runs(records))
    IN \/ distinct >= 2 * MaxRuns
       \/ Len(records) >= 2 * Max({distinct, MaxRuns})

\* Each job's latest successful run, judged by the runs' latest records.
BestSuccesses(latest) ==
    {r \in latest :
        /\ r.state = "succeeded"
        /\ \A s \in latest : s.state = "succeeded" /\ s.id.job = r.id.job /\ s # r => OldestFirst(s, r)}

Newest(latest) == {r \in latest : Cardinality({s \in latest : NewestFirst(s, r)}) < MaxRuns}

\* Weakened: a success is kept only while it is among the newest runs.
RetainedNewest(records) == InOrder(Newest(LatestRecords(records)), OldestFirst)

Retained(records) ==
    LET latest == LatestRecords(records)
    IN InOrder(BestSuccesses(latest) \cup Newest(latest), OldestFirst)

\* Whether an append, or an open, rewrites the file
Compacts(records) == Overgrown(records) /\ Len(Retained(records)) # Len(records)
Bounded(records) == IF Compacts(records) THEN Retained(records) ELSE records

-----------------------------------------------------------------------------
(* Opening a ledger.                                                         *)

\* Weakened: a torn frame is read as a record.
ReplayedTorn(frames) == frames

\* replay stops at the first frame that is not whole and truncates there
Replayed(frames) ==
    LET torn == {i \in DOMAIN frames : frames[i] = Torn}
    IN IF torn = {} THEN frames ELSE SubSeq(frames, 1, Min(torn) - 1)

Appended(records, record) == Bounded(Append(records, record))

\* recover_interrupted appends a record for every run that was active
Interruptions(records) ==
    InOrder({Record(r.id, "interrupted") : r \in {s \in LatestRecords(records) : s.state \in Active}},
            OldestFirst)

\* Weakened: only the newest interrupted run is recorded.
RecoveredNewest(records) ==
    IF Interruptions(records) = <<>> THEN records
    ELSE Appended(records, Last(Interruptions(records)))

Recovered(records) == FoldLeft(Appended, records, Interruptions(records))

\* open_with_policy
Opened(frames) == Bounded(Recovered(Replayed(frames)))

-----------------------------------------------------------------------------

CONSTANTS
    Every,          \* the interval of every job
    Steps,          \* how many flows a job runs
    MaxClock,       \* bound on the clock, in milliseconds
    MaxEvents,      \* bound on kicks, edits of definitions and crashes together
    SameMillis,     \* two kicks of a job may fall in one millisecond
    StepsFail       \* a step may fail

ASSUME TimesAssumption == Every \in Nat \ {0} /\ MaxClock \in Nat \ {0}
ASSUME CountsAssumption == Steps \in Nat /\ MaxEvents \in Nat
ASSUME ChoicesAssumption == SameMillis \in BOOLEAN /\ StepsFail \in BOOLEAN

VARIABLES
    clock,      \* the injected clock
    jobs,       \* the automation store: "enabled", "disabled" or "absent"
    records,    \* RunLedger.records
    frames,     \* what the ledger file holds
    due,        \* the firings the tick has yet to look at
    run,        \* what each of the timer and the kick handler executes
    status,     \* "up" or "down"
    effects,    \* ghost: the steps each run has applied
    known,      \* ghost: the fire time of each job's last recorded success
    events      \* the kicks, edits and crashes so far

ledger == <<records, frames>>
ghosts == <<effects, known>>
vars == <<clock, jobs, ledger, due, run, status, ghosts, events>>

Runners == {"timer", "kick"}
NoRun == [pc |-> "none"]
Firing(id, coalesced) == [id |-> id, coalesced |-> coalesced]

Init ==
    /\ clock = 1
    /\ jobs = [j \in Jobs |-> "enabled"]
    /\ records = <<>>
    /\ frames = <<>>
    /\ due = <<>>
    /\ run = [r \in Runners |-> NoRun]
    /\ status = "up"
    /\ effects = <<>>
    /\ known = [j \in Jobs |-> 0]
    /\ events = 0

Up == status = "up"
Event == events < MaxEvents /\ events' = events + 1

ClockAdvances ==
    /\ clock < MaxClock
    /\ clock' = clock + 1
    /\ UNCHANGED <<jobs, ledger, due, run, status, ghosts, events>>

\* put_job and delete_job, while runs of the job may be in flight
EditJob(j) ==
    /\ Up
    /\ Event
    /\ jobs' \in {[jobs EXCEPT ![j] = s] : s \in {"enabled", "disabled", "absent"} \ {jobs[j]}}
    /\ UNCHANGED <<clock, ledger, due, run, status, ghosts>>

-----------------------------------------------------------------------------
(* The due-scan: due_firings and Trigger::next_due.                          *)

NextDue(j) ==
    IF Successes(records, j) = {} THEN 0 ELSE LastSucceeded(records, j) + Every

DueFirst(a, b) == NextDue(a) < NextDue(b) \/ (NextDue(a) = NextDue(b) /\ a < b)
DueJobs == InOrder({j \in Jobs : jobs[j] = "enabled" /\ NextDue(j) <= clock}, DueFirst)

DueFirings ==
    [i \in DOMAIN DueJobs |->
        Firing(RunId(Scheduled, DueJobs[i], clock), InFlight(records, DueJobs[i]))]

\* tick reads the clock once; the next tick waits for this one to return
Tick ==
    /\ Up
    /\ due = <<>>
    /\ run["timer"] = NoRun
    /\ DueFirings # <<>>
    /\ due' = DueFirings
    /\ UNCHANGED <<clock, jobs, ledger, run, status, ghosts, events>>

Start(runner, id) == run' = [run EXCEPT ![runner] = [pc |-> "queued", id |-> id, step |-> 0]]

\* The tick's next firing: skipped when it was coalesced or its id is known.
Dispatch ==
    /\ Up
    /\ due # <<>>
    /\ run["timer"] = NoRun
    /\ due' = Tail(due)
    /\ IF Head(due).coalesced \/ Head(due).id \in Runs(records)
       THEN UNCHANGED run
       ELSE Start("timer", Head(due).id)
    /\ UNCHANGED <<clock, jobs, ledger, status, ghosts, events>>

\* run_job: a manual kick looks neither at runs in flight nor at its own id
Kick(j) ==
    /\ Up
    /\ Event
    /\ run["kick"] = NoRun
    /\ jobs[j] # "absent"
    /\ SameMillis \/ RunId(Manual, j, clock) \notin DOMAIN effects
    /\ Start("kick", RunId(Manual, j, clock))
    /\ UNCHANGED <<clock, jobs, ledger, due, status, ghosts>>

-----------------------------------------------------------------------------
(* Executing a run: Scheduler::execute.                                      *)

\* RunLedger::append: framed, synced, indexed, and compacted when overgrown
Log(id, state) ==
    LET next == Append(records, Record(id, state))
    IN /\ records' = Bounded(next)
       /\ frames' = IF Compacts(next) THEN Bounded(next) ELSE Append(frames, Record(id, state))

Goto(runner, pc) == run' = [run EXCEPT ![runner].pc = pc]
Applied(id) == IF id \in DOMAIN effects THEN effects[id] ELSE 0
Count(id, n) == effects' = [i \in DOMAIN effects \cup {id} |-> IF i = id THEN n ELSE effects[i]]

LogQueued(runner) ==
    /\ run[runner].pc = "queued"
    /\ Log(run[runner].id, "queued")
    /\ Goto(runner, "running")
    /\ UNCHANGED <<clock, jobs, due, status, ghosts, events>>

LogRunning(runner) ==
    /\ run[runner].pc = "running"
    /\ Log(run[runner].id, "running")
    /\ Goto(runner, "look")
    /\ UNCHANGED <<clock, jobs, due, status, ghosts, events>>

\* The job is read once, after the run has been recorded.
ReadJob(runner) ==
    /\ run[runner].pc = "look"
    /\ Goto(runner, IF jobs[run[runner].id.job] = "absent" THEN "failed"
                    ELSE IF Steps = 0 THEN "succeeded" ELSE "step")
    /\ Count(run[runner].id, 0)
    /\ UNCHANGED <<clock, jobs, ledger, due, status, known, events>>

\* A step resolves its flow, runs it, authorizes and applies its outcome.
ApplyStep(runner) ==
    /\ run[runner].pc = "step"
    /\ LET done == run[runner].step + 1
       IN run' = [run EXCEPT ![runner].step = done,
                             ![runner].pc = IF done = Steps THEN "succeeded" ELSE "step"]
    /\ Count(run[runner].id, Applied(run[runner].id) + 1)
    /\ UNCHANGED <<clock, jobs, ledger, due, status, known, events>>

\* Weakened: a failed step is skipped and the run goes on.
FailStepGoesOn(runner) ==
    /\ StepsFail
    /\ run[runner].pc = "step"
    /\ LET done == run[runner].step + 1
       IN run' = [run EXCEPT ![runner].step = done,
                             ![runner].pc = IF done = Steps THEN "succeeded" ELSE "step"]
    /\ UNCHANGED <<clock, jobs, ledger, due, status, ghosts, events>>

\* The first step that fails ends the run; what earlier steps applied stays.
FailStep(runner) ==
    /\ StepsFail
    /\ run[runner].pc = "step"
    /\ Goto(runner, "failed")
    /\ UNCHANGED <<clock, jobs, ledger, due, status, ghosts, events>>

\* Weakened: a failure is reported to the caller but not recorded.
EndRunUnrecorded(runner) ==
    /\ run[runner].pc \in {"succeeded", "failed"}
    /\ IF run[runner].pc = "failed" THEN UNCHANGED ledger ELSE Log(run[runner].id, "succeeded")
    /\ run' = [run EXCEPT ![runner] = NoRun]
    /\ UNCHANGED <<clock, jobs, due, status, ghosts, events>>

EndRun(runner) ==
    LET id == run[runner].id
        state == run[runner].pc
    IN /\ state \in {"succeeded", "failed"}
       /\ Log(id, state)
       /\ known' = IF state = "succeeded" THEN [known EXCEPT ![id.job] = Max({@, id.fire})] ELSE known
       /\ run' = [run EXCEPT ![runner] = NoRun]
       /\ UNCHANGED <<clock, jobs, due, status, effects, events>>

-----------------------------------------------------------------------------
(* Crash and boot.                                                           *)

\* A record that is being appended when the server dies is whole, torn or
\* missing; a compaction it causes is in the file whole or not at all.
NextRecord(runner) ==
    CASE run[runner].pc = "queued" -> {Record(run[runner].id, "queued")}
      [] run[runner].pc = "running" -> {Record(run[runner].id, "running")}
      [] run[runner].pc \in {"succeeded", "failed"} -> {Record(run[runner].id, run[runner].pc)}
      [] OTHER -> {}

Crash ==
    /\ Up
    /\ Event
    /\ status' = "down"
    /\ LET next == UNION {NextRecord(runner) : runner \in Runners}
       IN frames' \in {frames, Append(frames, Torn)}
                       \cup {Append(frames, r) : r \in next} \cup {Appended(frames, r) : r \in next}
    /\ run' = [r \in Runners |-> NoRun]
    /\ due' = <<>>
    /\ UNCHANGED <<clock, jobs, records, ghosts>>

Boot ==
    /\ status = "down"
    /\ status' = "up"
    /\ records' = Opened(frames)
    /\ frames' = Opened(frames)
    /\ UNCHANGED <<clock, jobs, due, run, ghosts, events>>

ComesUp == ~Up /\ status' = "up"

Execute(runner) ==
    \/ LogQueued(runner) \/ LogRunning(runner) \/ ReadJob(runner)
    \/ ApplyStep(runner) \/ FailStep(runner) \/ EndRun(runner)

Next ==
    \/ ClockAdvances
    \/ \E j \in Jobs : EditJob(j)
    \/ Tick
    \/ Dispatch
    \/ \E j \in Jobs : Kick(j)
    \/ \E runner \in Runners : Execute(runner)
    \/ Crash
    \/ Boot

\* A server that is down is started again, and a run in progress goes on: the
\* second conjunct is WF_vars(Execute(runner)), which is enabled just while the
\* runner has a run.
Fairness ==
    /\ WF_status(ComesUp)
    /\ \A runner \in Runners :
          []<>(run[runner] = NoRun) \/ []<><<Execute(runner)>>_vars

Spec == Init /\ [][Next]_vars /\ Fairness

-----------------------------------------------------------------------------
(* Properties.                                                               *)

Ids == [how : {Manual, Scheduled}, job : Jobs, fire : 1..MaxClock]
IsLog(log) == \A i \in DOMAIN log : log[i].id \in Ids /\ log[i].state \in States

\* The types, with what the ledger's file and its memory have in common: they
\* hold the same records whenever the server is up.
TypeOK ==
    /\ clock \in 1..MaxClock
    /\ jobs \in [Jobs -> {"enabled", "disabled", "absent"}]
    /\ IsLog(records)
    /\ status = "up" => frames = records
    /\ DOMAIN effects \subseteq Ids

\* ledger.rs: compaction keeps "each job's latest successful run so
\* last_succeeded_fire never regresses and re-fires a job whose history was
\* trimmed".  No crash, recovery or retention makes the ledger forget the time
\* of a success it has recorded.
SuccessesSurvive == Up => \A j \in Jobs : LastSucceeded(records, j) >= known[j]

\* A run the ledger shows as active is being executed: nothing else would ever
\* end it, and the single-flight test would keep its job from firing again.
ActiveRunsAreExecuted ==
    Up => \A r \in LatestRecords(records) :
              r.state \in Active => \E runner \in Runners : run[runner] # NoRun /\ run[runner].id = r.id

\* What the ledger says of a run's end is what the run did: one that succeeded
\* applied all its steps, and one that failed stopped before the last.
OutcomeMatchesEffects ==
    \A r \in LatestRecords(records) :
        /\ r.state = "succeeded" => Applied(r.id) = Steps
        /\ r.state = "failed" => Applied(r.id) < Steps \/ Steps = 0

\* Single flight cannot starve a job: a job that is in flight stops being so.
FlightsEnd == \A j \in Jobs : InFlight(records, j) ~> ~InFlight(records, j)

(* The run ledger agrees with what the scheduler did, after any crash and   *)
(* any rotation (RunLedger::open and recover_interrupted, execute).         *)
LedgerTellsTheRuns ==
  /\ TypeOK
  /\ ActiveRunsAreExecuted
  /\ OutcomeMatchesEffects
  /\ SuccessesSurvive

=============================================================================
