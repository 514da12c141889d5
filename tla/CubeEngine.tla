----------------------------- MODULE CubeEngine -----------------------------
(***************************************************************************)
(* One cube of the engine (epiphany-engine/src/lib.rs) over its store: the  *)
(* serialized writer, the published immutable model that readers load       *)
(* without a lock, and what the writer does when an operation of the store  *)
(* fails.  At most one operation runs at a time (the writer mutex); readers *)
(* may observe pub, and a crash may come, between any two of its steps.     *)
(***************************************************************************)
EXTENDS CubeStore

CONSTANTS
    Ops,        \* the operations clients submit
    MaxUnits    \* bound on the units in the log

\* The operations that commit; a checkpoint changes nothing readers see.
ClientKinds == {"batch", "pin", "sandboxSet", "commitSandbox", "view", "edit"}

ASSUME OpsAssumption == Ops \subseteq Operation

VARIABLES
    pub,            \* the published model
    failStopped,    \* the writer rejects every write
    lockPoisoned,   \* an operation panicked while it held the writer lock
    pending,        \* ghost: the outcomes of the operation in progress
    doubt           \* ghost: what a crash may legitimately recover

engineVars == <<pub, failStopped, lockPoisoned, pending, doubt>>
vars == <<storeVars, engineVars>>

Init ==
    /\ StoreInit
    /\ pub = mem
    /\ failStopped = FALSE
    /\ lockPoisoned = FALSE
    /\ pending = {}
    /\ doubt = {mem}

-----------------------------------------------------------------------------
(* The commit path: apply_batch, define_with_sandbox and checkpoint.        *)

\* The re-checkpoint of the restored model, after a failed definition or
\* when lock_writer recovers a poisoned lock.
Repair == [kind |-> "repair"]

IsClientOp == op.kind \in ClientKinds

\* Weakened: a fail-stopped writer takes writes.
SubmitWhileFailStopped(o) ==
    /\ ~lockPoisoned
    /\ Appends(o) => Len(wal.units) < MaxUnits /\ good < MaxUnits
    /\ Start(o)
    /\ pending' = IF o.kind = "checkpoint" THEN {}
                                           ELSE UNION {Outcomes(o, d) : d \in doubt}
    /\ UNCHANGED <<diskVars, good, mem, poisoned, pub, failStopped, lockPoisoned, doubt>>

Submit(o) ==
    /\ ~lockPoisoned
    /\ o.kind # "checkpoint" => ~failStopped
    /\ Appends(o) => Len(wal.units) < MaxUnits /\ good < MaxUnits
    /\ Start(o)
    /\ pending' = IF o.kind = "checkpoint" THEN {}
                                           ELSE UNION {Outcomes(o, d) : d \in doubt}
    /\ UNCHANGED <<diskVars, good, mem, poisoned, pub, failStopped, lockPoisoned, doubt>>

Return ==
    /\ io' = "idle"
    /\ op' = NoOp
    /\ pending' = {}
    /\ UNCHANGED <<todo, staged, result, diskVars, good, poisoned>>

\* Weakened: the published model is not restored.
StartRepairOfMemory ==
    /\ op' = Repair
    /\ todo' = <<"checkpoint">>
    /\ io' = "start"
    /\ result' = "ok"
    /\ UNCHANGED <<mem, staged, diskVars, good, poisoned>>

StartRepair ==
    /\ op' = Repair
    /\ todo' = <<"checkpoint">>
    /\ io' = "start"
    /\ result' = "ok"
    /\ mem' = pub
    /\ UNCHANGED <<staged, diskVars, good, poisoned>>

\* The store succeeded: record the version's high-water mark, then publish.
\* When the mark cannot be recorded the caller gets an error and nothing is
\* published, but the store keeps the change.
Publish ==
    /\ At("done") /\ IsClientOp /\ result = "ok"
    /\ Return
    /\ \/ pub' = mem /\ doubt' = {mem}
       \/ Faulty("watermark") /\ doubt' = doubt \cup pending /\ UNCHANGED pub
    /\ UNCHANGED <<mem, failStopped, lockPoisoned>>

\* The model rejected the operation: a batch left memory alone, a
\* definition is reverted to the published model in memory only.
Reject ==
    /\ At("done") /\ IsClientOp /\ result = "Rejected"
    /\ Return
    /\ mem' = IF op.kind = "batch" THEN mem ELSE pub
    /\ UNCHANGED <<pub, failStopped, lockPoisoned, doubt>>

Attempted == IF result = "Poisoned" THEN {} ELSE pending

\* apply_batch returns a durability error as it is.
FailBatch ==
    /\ At("done") /\ op.kind = "batch" /\ result \in {"Io", "Poisoned"}
    /\ Return
    /\ doubt' = doubt \cup Attempted
    /\ UNCHANGED <<mem, pub, failStopped, lockPoisoned>>

\* A definition restores the published model and checkpoints it.
FailDefinition ==
    /\ At("done") /\ IsClientOp /\ op.kind # "batch" /\ result \in {"Io", "Poisoned"}
    /\ StartRepair
    /\ doubt' = doubt \cup Attempted
    /\ pending' = {}
    /\ UNCHANGED <<pub, failStopped, lockPoisoned>>

FinishRepair ==
    /\ At("done") /\ op.kind = "repair"
    /\ Return
    /\ IF result = "ok" THEN doubt' = {pub} /\ UNCHANGED failStopped
                        ELSE failStopped' = TRUE /\ UNCHANGED doubt
    /\ UNCHANGED <<mem, pub, lockPoisoned>>

\* Engine::checkpoint: a success heals a fail-stopped writer.
FinishCheckpoint ==
    /\ At("done") /\ op.kind = "checkpoint"
    /\ Return
    /\ failStopped' = (failStopped /\ result # "ok")
    /\ UNCHANGED <<mem, pub, lockPoisoned, doubt>>

\* A panic while the lock is held: in the closure of a definition, or between
\* a batch's append and its application to memory.
Panic ==
    /\ Faulty("panic")
    /\ IsClientOp
    /\ \/ InStage("define") /\ UNCHANGED <<walDisk, good>>
       \/ At("sync") /\ op.kind # "pin" /\ walDisk' = {wal} /\ good' = good + 1
    /\ lockPoisoned' = TRUE
    /\ doubt' = doubt \cup pending
    /\ io' = "idle" /\ op' = NoOp /\ todo' = <<>> /\ staged' = NoModel /\ pending' = {}
    /\ UNCHANGED <<snap, snapDisk, wal, mem, poisoned, result, pub, failStopped>>

\* lock_writer: the next caller finds the lock poisoned and resynchronizes.
RecoverLock ==
    /\ Idle /\ lockPoisoned
    /\ StartRepair
    /\ lockPoisoned' = FALSE
    /\ UNCHANGED <<pub, failStopped, pending, doubt>>

EngineStep ==
    \/ \E o \in Ops : Submit(o)
    \/ Publish \/ Reject \/ FailBatch \/ FailDefinition \/ FinishRepair
    \/ FinishCheckpoint \/ Panic \/ RecoverLock

\* The process dies.  The ghosts note what the next boot will find.
CrashEngine ==
    /\ Crash
    /\ pub' = Recover(snap', wal')
    /\ doubt' = {pub'}
    /\ pending' = {}
    /\ failStopped' = FALSE
    /\ lockPoisoned' = FALSE

\* Store::open, then Engine::from_stores publishes what it recovered.
Boot == OpenStore /\ UNCHANGED engineVars

Next == (StoreStep /\ UNCHANGED engineVars) \/ EngineStep \/ CrashEngine \/ Boot

Spec == Init /\ [][Next]_vars

-----------------------------------------------------------------------------
(* Properties.                                                              *)

\* Every variable keeps its type; the writer's ghosts exist only while the
\* operation they describe does.
TypeOK ==
    /\ snap \in Model /\ snapDisk \subseteq Model /\ snap \in snapDisk
    /\ wal.hdr \in BOOLEAN /\ wal \in walDisk
    /\ good \in Nat
    /\ mem \in Model \cup {NoModel}
    /\ staged \in Model \cup {NoModel}
    /\ pub \in Model \cup {NoModel}
    /\ doubt \subseteq Model \cup {NoModel}
    /\ Idle => pending = {} /\ staged = NoModel /\ todo = <<>>
    /\ Running => mem \in Model /\ pub \in Model

\* Durability (Store, Engine::apply_batch and define): at every moment,
\* whatever a crash makes of the unsynced parts of the two files, recovery
\* returns the published model, or a change that was in progress or whose
\* caller got a durability error since; never a refusal to open, never a
\* mixture, and never a model older than an acknowledged change.
CrashRecoversPublished ==
    Running => \A s \in snapDisk, w \in walDisk : Recover(s, w) \in doubt \cup pending

\* What was published is what a crash recovers (Store::append_wal,
\* Store::checkpoint, Engine::apply_batch).
PublishedIsKept == TypeOK /\ CrashRecoversPublished

\* A rejected or failed operation leaves no trace for the next one to carry
\* out: between operations the writer's model is the published one, unless the
\* lock is still to be recovered.
MemoryIsPublished == Idle /\ ~lockPoisoned => mem = pub

\* Engine::checkpoint may heal a fail-stopped writer because its memory still
\* equals the published model.
FailStoppedIsPublished == failStopped => mem = pub

\* Readers: what they see changes only by an operation that returns Ok.
OnlyOkPublishes ==
    [][Running /\ Running' /\ pub' # pub => op # NoOp /\ result = "ok" /\ pub' \in pending]_vars

\* The engine implements the register clients rely on.
Abstract == INSTANCE AbstractCube
              WITH Contents <- Model, val <- pub, maybe <- doubt \cup pending
ImplementsAbstractCube == Abstract!AbsSpec

=============================================================================
