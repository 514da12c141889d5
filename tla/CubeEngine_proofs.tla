------------------------- MODULE CubeEngine_proofs -------------------------
(***************************************************************************)
(* Proofs about CubeEngine, for any members, values, operations, faults and *)
(* checkpoint threshold: readers see only the outcomes of operations that   *)
(* returned Ok, a fail-stopped writer holds what readers see, and without a *)
(* fault of the high-water mark, and with no automatic checkpoint that      *)
(* fails, it always does.  Then, under the assumption Recoverable: what was *)
(* published is what a crash recovers, and the engine implements the        *)
(* register of AbstractCube, because every intact log acts on the models of *)
(* one shape (member order and leaves) as one overlay of cells and pins, so *)
(* replaying it again over its own result changes nothing, and it leaves    *)
(* the sandbox overrides alone.                                             *)
(***************************************************************************)
EXTENDS CubeEngine, FiniteSetTheorems, WellFoundedInduction, SequenceTheorems, TLAPS

-----------------------------------------------------------------------------
(* The inductive invariant.                                                 *)

Checkpointing == {"snapshot", "dirsync", "truncate", "header", "walsync"}
Appending     == {"write", "sync", "rollback"}
Resting       == {"idle", "down", "refused"}

HasBatch(o) == o.kind \in {"batch", "pin", "commitSandbox"}
Defines(o)  == o.kind \in {"sandboxSet", "commitSandbox", "view", "edit"}

\* What an operation makes of model d up to the end of its append.
Batched(o, d) == IF HasBatch(o) THEN ApplyUnit(d, UnitOf(o, d)) ELSE d

\* The stage an operation is in, from the stages it has left.
AppendLeft == \/ HasBatch(op) /\ ~Defines(op) /\ todo = <<"append", "auto">>
              \/ HasBatch(op) /\ Defines(op) /\ todo = <<"append", "auto", "define">>
AutoLeft   == \/ HasBatch(op) /\ ~Defines(op) /\ todo = <<"auto">>
              \/ HasBatch(op) /\ Defines(op) /\ todo = <<"auto", "define">>
FlushLeft  == ~HasBatch(op) /\ Defines(op) /\ todo = <<"checkpoint", "define">>
DefineLeft == Defines(op) /\ todo = <<"define">>

\* How far a client's operation has come from model d.
FromModel(d) ==
    \/ /\ io = "start" /\ AppendLeft
       /\ mem = d
    \/ /\ io \in Appending /\ AppendLeft
       /\ Batched(op, d) # NoModel
       /\ mem = IF op.kind = "pin" THEN Batched(op, d) ELSE d
    \/ /\ io \in {"start"} \cup Checkpointing /\ AutoLeft
       /\ mem = Batched(op, d)
       /\ io \in Checkpointing => staged = mem
    \/ /\ io \in {"start"} \cup Checkpointing /\ FlushLeft
       /\ mem = d
       /\ io \in Checkpointing => staged = mem
    \/ /\ io \in {"start"} \cup Checkpointing /\ DefineLeft
       /\ mem = Batched(op, d)
       /\ io \in Checkpointing => staged = Defined(op, mem) /\ staged # NoModel
    \/ /\ io = "done"
       /\ result = "ok" => mem \in Outcomes(op, d)
       /\ op.kind = "batch" => mem \in {d} \cup Outcomes(op, d)
       /\ op.kind = "batch" /\ result \in {"Rejected", "Poisoned"} => mem = d

\* An operation runs exactly while the store is not at rest, and a checkpoint
\* writes the model it found.
OpInv ==
    /\ op.kind \in ClientKinds \cup {"checkpoint", "repair", "none"}
    /\ op.kind = "none" <=> io \in Resting
    /\ op.kind \in {"checkpoint", "repair"} =>
         \/ io = "start" /\ todo = <<"checkpoint">>
         \/ io \in Checkpointing /\ todo = <<"checkpoint">> /\ staged = mem
         \/ io = "done"
    /\ lockPoisoned => io = "idle"

\* A writer fail-stops only on a repair, which starts from the published
\* model, and takes no operation that could leave it.
HealInv ==
    /\ failStopped => op.kind \notin ClientKinds /\ mem = pub /\ io \notin {"down", "refused"}
    /\ op.kind = "repair" => mem = pub

\* What memory and the disk hold is owed to somebody.
OwedInv ==
    /\ pub \in doubt
    /\ io \notin {"down", "refused"} => mem # NoModel /\ pub # NoModel
    /\ io = "down" => pub = Recover(snap, wal)
    /\ io = "idle" /\ ~lockPoisoned => mem \in doubt
    /\ op.kind = "checkpoint" => mem \in doubt
    /\ IsClientOp => \E d \in doubt : /\ d # NoModel
                                      /\ Outcomes(op, d) \subseteq pending
                                      /\ FromModel(d)

IInv == OpInv /\ HealInv /\ OwedInv

-----------------------------------------------------------------------------
(* Facts about the operators.                                               *)

\* The stages of each kind of operation.
LEMMA StagesOf ==
  ASSUME NEW o
  PROVE  /\ o.kind \in {"batch", "pin"} => Stages(o) = <<"append", "auto">>
         /\ o.kind = "commitSandbox" => Stages(o) = <<"append", "auto", "define">>
         /\ o.kind \in {"sandboxSet", "view"} => Stages(o) = <<"define">>
         /\ o.kind = "edit" => Stages(o) = <<"checkpoint", "define">>
         /\ o.kind = "checkpoint" => Stages(o) = <<"checkpoint">>
  BY DEF Stages

\* The stage at the front, and what is left after it.
LEMMA StageTails ==
  /\ Tail(<<"append", "auto", "define">>) = <<"auto", "define">>
  /\ Tail(<<"append", "auto">>) = <<"auto">>
  /\ Tail(<<"auto", "define">>) = <<"define">>
  /\ Tail(<<"checkpoint", "define">>) = <<"define">>
  /\ \A y : Tail(<<y>>) = <<>>
  /\ \A x, y, z : Head(<<x, y, z>>) = x /\ Len(<<x, y, z>>) # 1
  /\ \A x, y : Head(<<x, y>>) = x /\ Len(<<x, y>>) # 1
  /\ \A x : Head(<<x>>) = x /\ Len(<<x>>) = 1
<1>1. /\ Tail(<<"append", "auto">>) = <<"auto">>
      /\ Tail(<<"auto", "define">>) = <<"define">>
      /\ Tail(<<"checkpoint", "define">>) = <<"define">>
  OBVIOUS
<1>2. Tail(<<"append", "auto", "define">>) = <<"auto", "define">>
  OBVIOUS
<1>3. \A y : Tail(<<y>>) = <<>>
  OBVIOUS
<1>4. \A x, y, z : Head(<<x, y, z>>) = x /\ Len(<<x, y, z>>) # 1
  OBVIOUS
<1>5. \A x, y : Head(<<x, y>>) = x /\ Len(<<x, y>>) # 1
  OBVIOUS
<1>6. \A x : Head(<<x>>) = x /\ Len(<<x>>) = 1
  OBVIOUS
<1> QED BY <1>1, <1>2, <1>3, <1>4, <1>5, <1>6, Zenon

\* The complete result of an operation, and for a sandbox commit its batch
\* alone, are among its outcomes.
LEMMA AreOutcomes ==
  ASSUME NEW o, NEW d, Batched(o, d) # NoModel
  PROVE  /\ Batched(o, d) \in Outcomes(o, d)
         /\ Defines(o) /\ Defined(o, Batched(o, d)) # NoModel =>
              Defined(o, Batched(o, d)) \in Outcomes(o, d)
  BY DEF Outcomes, Batched, HasBatch, Defines

-----------------------------------------------------------------------------
(* Steps of the store: the operation moves on from the model it came from.  *)

CheckpointShape ==
    op.kind \in {"checkpoint", "repair"} =>
      \/ io = "start" /\ todo = <<"checkpoint">>
      \/ io \in Checkpointing /\ todo = <<"checkpoint">> /\ staged = mem
      \/ io = "done"

\* A step of the operation in progress that keeps what the invariant says.
Moves ==
    /\ io \notin Resting /\ io' \notin Resting
    /\ op' = op
    /\ IsClientOp \/ mem' = mem
    /\ CheckpointShape'
    /\ \A d : IsClientOp /\ d # NoModel /\ mem # NoModel /\ FromModel(d) =>
              FromModel(d)' /\ mem' # NoModel

LEMMA MovesIInv ==
  ASSUME IInv, Moves, UNCHANGED engineVars
  PROVE  IInv'
<1> USE DEF IInv, Moves, engineVars
<1>1. OpInv'
  BY DEF OpInv, CheckpointShape, Resting
<1>2. HealInv'
  BY DEF HealInv, IsClientOp, ClientKinds, Resting
<1>3. OwedInv'
  <2>1. pub' \in doubt' /\ io' \notin {"idle", "down", "refused"}
    BY DEF OwedInv, Resting
  <2>2. mem # NoModel /\ pub # NoModel
    BY DEF OwedInv, Resting
  <2>3. CASE IsClientOp
    <3>1. PICK d \in doubt : d # NoModel /\ Outcomes(op, d) \subseteq pending /\ FromModel(d)
      BY <2>3 DEF OwedInv
    <3>2. FromModel(d)' /\ mem' # NoModel
      BY <2>2, <2>3, <3>1
    <3>3. op'.kind # "checkpoint"
      BY <2>3 DEF IsClientOp, ClientKinds
    <3> QED BY <2>1, <2>2, <3>1, <3>2, <3>3 DEF OwedInv
  <2>4. CASE ~IsClientOp
    <3>1. mem' = mem /\ ~IsClientOp'
      BY <2>4 DEF IsClientOp
    <3> QED BY <2>1, <2>2, <3>1 DEF OwedInv
  <2> QED BY <2>3, <2>4
<1> QED BY <1>1, <1>2, <1>3

\* The stage that starts tells how far a client's operation has come.
LEMMA StageOf ==
  ASSUME NEW d, FromModel(d)
  PROVE  /\ InStage("append") => AppendLeft /\ mem = d
         /\ InStage("auto") => AutoLeft /\ mem = Batched(op, d)
         /\ InStage("checkpoint") => FlushLeft /\ mem = d
         /\ InStage("define") => DefineLeft /\ mem = Batched(op, d)
<1> USE StageTails DEF FromModel, InStage, Appending, Checkpointing
<1>1. AppendLeft => Head(todo) = "append"
  BY DEF AppendLeft
<1>2. AutoLeft => Head(todo) = "auto"
  BY DEF AutoLeft
<1>3. FlushLeft => Head(todo) = "checkpoint"
  BY DEF FlushLeft
<1>4. DefineLeft => Head(todo) = "define"
  BY DEF DefineLeft
<1> QED BY <1>1, <1>2, <1>3, <1>4

\* A checkpoint has no other stage.
LEMMA CheckpointStage ==
  ASSUME OpInv, op.kind \in {"checkpoint", "repair"}, NEW stage, InStage(stage)
  PROVE  stage = "checkpoint" /\ todo = <<"checkpoint">>
  BY StageTails DEF OpInv, InStage, Checkpointing

\* The operations in progress.
LEMMA Kinds ==
  ASSUME OpInv, io \notin Resting
  PROVE  IsClientOp \/ op.kind \in {"checkpoint", "repair"}
  BY DEF OpInv, IsClientOp

\* Where an operation goes when a stage ends.
LEMMA AfterStage ==
  ASSUME NextStage
  PROVE  /\ AppendLeft => io' = "start" /\ AutoLeft'
         /\ AutoLeft /\ Defines(op) => io' = "start" /\ DefineLeft'
         /\ AutoLeft /\ ~Defines(op) => io' = "done" /\ result' = "ok"
         /\ FlushLeft => io' = "start" /\ DefineLeft'
         /\ DefineLeft => io' = "done" /\ result' = "ok"
         /\ todo = <<"checkpoint">> => io' = "done"
<1> USE StageTails DEF NextStage
<1>1. AppendLeft => io' = "start" /\ AutoLeft'
  BY DEF AppendLeft, AutoLeft
<1>2. AutoLeft => IF Defines(op) THEN io' = "start" /\ DefineLeft'
                                 ELSE io' = "done" /\ result' = "ok"
  BY DEF AutoLeft, DefineLeft
<1>3. FlushLeft => io' = "start" /\ DefineLeft'
  BY DEF FlushLeft, DefineLeft
<1>4. DefineLeft => io' = "done" /\ result' = "ok"
  BY DEF DefineLeft
<1>5. todo = <<"checkpoint">> => io' = "done"
  OBVIOUS
<1> QED BY <1>1, <1>2, <1>3, <1>4, <1>5

LEMMA StartAppendMoves == ASSUME OpInv, StartAppend PROVE Moves
<1> io = "start" /\ op' = op
  BY DEF StartAppend, InStage, Step, Fail
<1>1. IsClientOp
  BY Kinds, CheckpointStage DEF StartAppend, Resting
<1>2. ~(op.kind \in {"checkpoint", "repair"})
  BY <1>1 DEF IsClientOp, ClientKinds
<1>3. io' \notin Resting
  BY DEF StartAppend, Step, Fail, Resting
<1>4. ASSUME NEW d, d # NoModel, mem # NoModel, FromModel(d)
      PROVE  FromModel(d)' /\ mem' # NoModel
  <2>1. AppendLeft /\ mem = d
    BY <1>4, StageOf DEF StartAppend
  <2>2. HasBatch(op)
    BY <2>1 DEF AppendLeft
  <2>3. CASE Fail("Poisoned") /\ UNCHANGED mem
    BY <1>4, <2>1, <2>3 DEF Fail, FromModel, Appending, Checkpointing
  <2>4. CASE Fail("Rejected") /\ UNCHANGED mem
    BY <1>4, <2>1, <2>4 DEF Fail, FromModel, Appending, Checkpointing
  <2>5. CASE /\ Step("write")
             /\ ApplyUnit(mem, UnitOf(op, mem)) # NoModel
             /\ mem' = IF op.kind = "pin" THEN ApplyUnit(mem, UnitOf(op, mem)) ELSE mem
    <3>1. Batched(op, d) = ApplyUnit(mem, UnitOf(op, mem))
      BY <2>1, <2>2 DEF Batched
    <3>2. AppendLeft'
      BY <2>1, <2>5 DEF Step, AppendLeft
    <3> QED BY <1>4, <2>1, <2>5, <3>1, <3>2 DEF Step, FromModel, Appending
  <2> QED BY <2>3, <2>4, <2>5 DEF StartAppend
<1> QED BY <1>1, <1>2, <1>3, <1>4 DEF Moves, CheckpointShape, Resting

LEMMA WriteMoves == ASSUME OpInv, Write PROVE Moves
<1> /\ io = "write" /\ io' \in {"sync", "rollback"}
    /\ UNCHANGED <<op, todo, result, mem>>
  BY DEF Write, At, Step
<1>1. IsClientOp /\ ~(op.kind \in {"checkpoint", "repair"})
  BY Kinds DEF OpInv, Resting, IsClientOp, ClientKinds, Checkpointing
<1>2. ASSUME NEW d, FromModel(d) PROVE FromModel(d)'
  BY <1>2 DEF FromModel, AppendLeft, Appending, Checkpointing
<1> QED BY <1>1, <1>2 DEF Moves, CheckpointShape, Resting

LEMMA SyncMoves == ASSUME OpInv, Sync PROVE Moves
<1> io = "sync" /\ io' \notin Resting /\ op' = op
  BY DEF Sync, At, Step, NextStage, Resting
<1>1. IsClientOp /\ ~(op.kind \in {"checkpoint", "repair"})
  BY Kinds DEF OpInv, Resting, IsClientOp, ClientKinds, Checkpointing
<1>2. ASSUME NEW d, d # NoModel, mem # NoModel, FromModel(d)
      PROVE  FromModel(d)' /\ mem' # NoModel
  <2>1. /\ AppendLeft
        /\ Batched(op, d) # NoModel
        /\ mem = IF op.kind = "pin" THEN Batched(op, d) ELSE d
    BY <1>2 DEF FromModel, Appending, Checkpointing
  <2>2. CASE Step("rollback") /\ UNCHANGED mem
    BY <1>2, <2>1, <2>2 DEF Step, FromModel, AppendLeft, Appending
  <2>3. CASE /\ NextStage
             /\ mem' = IF op.kind = "pin" THEN mem ELSE ApplyUnit(mem, UnitOf(op, mem))
    <3>1. mem' = Batched(op, d)
      BY <2>1, <2>3 DEF Batched, AppendLeft
    <3>2. io' = "start" /\ AutoLeft'
      BY <2>1, <2>3, AfterStage
    <3> QED BY <2>1, <3>1, <3>2 DEF FromModel, Checkpointing
  <2> QED BY <2>2, <2>3 DEF Sync
<1> QED BY <1>1, <1>2 DEF Moves, CheckpointShape, Resting

LEMMA PoisonWalMoves == ASSUME OpInv, PoisonWal PROVE Moves
<1> /\ io = "rollback" /\ io' = "done" /\ result' = "Io"
    /\ UNCHANGED <<op, mem>>
  BY DEF PoisonWal, At, Fail
<1>1. IsClientOp /\ ~(op.kind \in {"checkpoint", "repair"})
  BY Kinds DEF OpInv, Resting, IsClientOp, ClientKinds, Checkpointing
<1>2. ASSUME NEW d, FromModel(d) PROVE FromModel(d)'
  BY <1>2 DEF FromModel, Appending, Checkpointing
<1> QED BY <1>1, <1>2 DEF Moves, CheckpointShape, Resting

LEMMA StartAutoMoves == ASSUME OpInv, StartAuto PROVE Moves
<1> io = "start" /\ io' \notin Resting /\ UNCHANGED <<op, mem>>
  BY DEF StartAuto, InStage, Step, NextStage, Resting
<1>1. IsClientOp /\ ~(op.kind \in {"checkpoint", "repair"})
  BY Kinds, CheckpointStage DEF StartAuto, Resting, IsClientOp, ClientKinds
<1>2. ASSUME NEW d, d # NoModel, mem # NoModel, FromModel(d) PROVE FromModel(d)'
  <2>1. AutoLeft /\ mem = Batched(op, d)
    BY <1>2, StageOf DEF StartAuto
  <2>2. CASE staged' = mem /\ Step("snapshot")
    BY <2>1, <2>2 DEF Step, FromModel, AutoLeft, Checkpointing
  <2>3. CASE NextStage /\ Defines(op)
    BY <2>1, <2>3, AfterStage DEF FromModel, Checkpointing
  <2>4. CASE NextStage /\ ~Defines(op)
    <3>1. io' = "done" /\ result' = "ok"
      BY <2>1, <2>4, AfterStage
    <3>2. mem \in Outcomes(op, d)
      BY <1>2, <2>1, AreOutcomes
    <3> QED BY <3>1, <3>2 DEF FromModel
  <2> QED BY <2>2, <2>3, <2>4 DEF StartAuto
<1> QED BY <1>1, <1>2 DEF Moves, CheckpointShape, Resting

LEMMA StartCheckpointMoves == ASSUME OpInv, StartCheckpoint PROVE Moves
<1> io = "start" /\ io' \notin Resting /\ UNCHANGED <<op, mem>>
  BY DEF StartCheckpoint, InStage, Step, Fail, Resting
<1>1. IsClientOp \/ todo = <<"checkpoint">>
  BY Kinds, CheckpointStage DEF StartCheckpoint, Resting
<1>2. CheckpointShape'
  BY <1>1 DEF StartCheckpoint, Step, Fail, CheckpointShape, Checkpointing, IsClientOp, ClientKinds
<1>3. ASSUME NEW d, d # NoModel, mem # NoModel, FromModel(d) PROVE FromModel(d)'
  <2>1. FlushLeft /\ mem = d
    BY <1>3, StageOf DEF StartCheckpoint
  <2>2. CASE Fail("Poisoned")
    BY <2>1, <2>2 DEF Fail, FromModel, FlushLeft, HasBatch
  <2>3. CASE staged' = mem /\ Step("snapshot")
    BY <2>1, <2>3 DEF Step, FromModel, FlushLeft, Checkpointing
  <2> QED BY <2>2, <2>3 DEF StartCheckpoint
<1> QED BY <1>2, <1>3 DEF Moves, Resting

LEMMA StartDefineMoves == ASSUME OpInv, StartDefine PROVE Moves
<1> io = "start" /\ io' \notin Resting /\ UNCHANGED <<op, mem>>
  BY DEF StartDefine, InStage, Step, Fail, Resting
<1>1. IsClientOp /\ ~(op.kind \in {"checkpoint", "repair"})
  BY Kinds, CheckpointStage DEF StartDefine, Resting, IsClientOp, ClientKinds
<1>2. ASSUME NEW d, d # NoModel, mem # NoModel, FromModel(d) PROVE FromModel(d)'
  <2>1. DefineLeft /\ mem = Batched(op, d)
    BY <1>2, StageOf DEF StartDefine
  <2>2. op.kind # "batch"
    BY <2>1 DEF DefineLeft, Defines
  <2>3. CASE Fail("Poisoned") \/ Fail("Rejected")
    BY <2>2, <2>3 DEF Fail, FromModel
  <2>4. CASE /\ Defined(op, mem) # NoModel
             /\ staged' = Defined(op, mem) /\ Step("snapshot")
    BY <2>1, <2>4 DEF Step, FromModel, DefineLeft, Checkpointing
  <2> QED BY <2>3, <2>4 DEF StartDefine
<1> QED BY <1>1, <1>2 DEF Moves, CheckpointShape, Resting

\* The file operations of a checkpoint before its last.
CheckpointIO ==
    /\ io \in {"snapshot", "dirsync", "truncate", "header"}
    /\ \/ io' \in Checkpointing /\ UNCHANGED <<op, todo, result, staged>>
       \/ Fail("Io")
    /\ UNCHANGED mem

LEMMA CheckpointIOMoves == ASSUME OpInv, CheckpointIO PROVE Moves
<1> io \in Checkpointing /\ io' \notin Resting /\ UNCHANGED <<op, mem>>
  BY DEF CheckpointIO, Checkpointing, Fail, Resting
<1>1. CheckpointShape'
  BY DEF OpInv, CheckpointIO, CheckpointShape, Checkpointing, Fail
<1>2. ASSUME NEW d, d # NoModel, mem # NoModel, FromModel(d) PROVE FromModel(d)'
  <2>1. CASE io' \in Checkpointing /\ UNCHANGED <<op, todo, result, staged>>
    BY <1>2, <2>1 DEF FromModel, AutoLeft, FlushLeft, DefineLeft, Appending, Checkpointing
  <2>2. CASE Fail("Io")
    <3>1. op.kind = "batch" => AutoLeft /\ mem = Batched(op, d)
      BY <1>2 DEF FromModel, FlushLeft, DefineLeft, HasBatch, Defines, Appending, Checkpointing
    <3>2. op.kind = "batch" => mem \in Outcomes(op, d)
      BY <1>2, <3>1, AreOutcomes
    <3> QED BY <2>2, <3>2 DEF Fail, FromModel
  <2> QED BY <2>1, <2>2 DEF CheckpointIO
<1> QED BY <1>1, <1>2 DEF Moves, Checkpointing, Resting

LEMMA WriteSnapshotMoves == ASSUME OpInv, WriteSnapshot PROVE Moves
  BY CheckpointIOMoves DEF WriteSnapshot, CheckpointIO, At, Step, Checkpointing

LEMMA SyncDirMoves == ASSUME OpInv, SyncDir PROVE Moves
  BY CheckpointIOMoves DEF SyncDir, CheckpointIO, At, Step, Checkpointing

LEMMA TruncateMoves == ASSUME OpInv, Truncate PROVE Moves
  BY CheckpointIOMoves DEF Truncate, CheckpointIO, At, Step, Checkpointing

LEMMA WriteHeaderMoves == ASSUME OpInv, WriteHeader PROVE Moves
  BY CheckpointIOMoves DEF WriteHeader, CheckpointIO, At, Step, Checkpointing

\* The last one makes the staged model the live one.
LEMMA SyncWalMoves == ASSUME OpInv, SyncWal PROVE Moves
<1> io = "walsync" /\ io' \notin Resting /\ op' = op
  BY DEF SyncWal, At, NextStage, Fail, Resting
<1>1. CASE op.kind \in {"checkpoint", "repair"}
  <2>1. todo = <<"checkpoint">> /\ staged = mem
    BY <1>1 DEF OpInv, Checkpointing
  <2>2. io' = "done" /\ mem' = mem
    BY <2>1, AfterStage DEF SyncWal, Fail
  <2>3. ~IsClientOp
    BY <1>1 DEF IsClientOp, ClientKinds
  <2> QED BY <2>2, <2>3 DEF Moves, CheckpointShape, Resting
<1>2. CASE IsClientOp /\ ~(op.kind \in {"checkpoint", "repair"})
  <2>1. ASSUME NEW d, d # NoModel, mem # NoModel, FromModel(d)
        PROVE  FromModel(d)' /\ mem' # NoModel
    <3>1. \/ AutoLeft /\ mem = Batched(op, d) /\ staged = mem
          \/ FlushLeft /\ mem = d /\ staged = mem
          \/ /\ DefineLeft /\ mem = Batched(op, d)
             /\ staged = Defined(op, mem) /\ staged # NoModel
      BY <2>1 DEF FromModel, Appending, Checkpointing
    <3>2. mem \in {d, Batched(op, d)}
      BY <3>1
    <3>3. CASE Fail("Io") /\ UNCHANGED mem
      <4>1. op.kind = "batch" => mem = Batched(op, d)
        BY <3>1 DEF FlushLeft, HasBatch
      <4>2. op.kind = "batch" => mem \in Outcomes(op, d)
        BY <2>1, <4>1, AreOutcomes
      <4> QED BY <2>1, <3>3, <4>2 DEF Fail, FromModel
    <3>4. CASE mem' = staged /\ NextStage
      <4>1. CASE AutoLeft /\ mem = Batched(op, d) /\ staged = mem
        <5>1. mem \in Outcomes(op, d)
          BY <2>1, <4>1, AreOutcomes
        <5> QED BY <2>1, <3>4, <4>1, <5>1, AfterStage DEF FromModel, Checkpointing
      <4>2. CASE FlushLeft /\ mem = d /\ staged = mem
        BY <2>1, <3>4, <4>2, AfterStage DEF FromModel, FlushLeft, Batched, Checkpointing
      <4>3. CASE /\ DefineLeft /\ mem = Batched(op, d)
                 /\ staged = Defined(op, mem) /\ staged # NoModel
        <5>1. staged \in Outcomes(op, d)
          BY <2>1, <4>3, AreOutcomes DEF DefineLeft
        <5> QED BY <3>4, <4>3, <5>1, AfterStage DEF FromModel
      <4> QED BY <3>1, <4>1, <4>2, <4>3
    <3> QED BY <3>3, <3>4 DEF SyncWal
  <2> QED BY <1>2, <2>1 DEF Moves, CheckpointShape, Resting
<1> QED BY <1>1, <1>2, Kinds DEF Resting, IsClientOp, ClientKinds

LEMMA StoreMoves == ASSUME OpInv, StoreStep PROVE Moves
  BY StartAppendMoves, WriteMoves, SyncMoves, PoisonWalMoves, StartAutoMoves,
     StartCheckpointMoves, StartDefineMoves, WriteSnapshotMoves, SyncDirMoves, TruncateMoves,
     WriteHeaderMoves, SyncWalMoves
  DEF StoreStep

LEMMA StoreIInv == ASSUME IInv, StoreStep, UNCHANGED engineVars PROVE IInv'
  BY StoreMoves, MovesIInv DEF IInv

-----------------------------------------------------------------------------
(* Steps of the engine.                                                     *)

LEMMA InitIInv == Init => IInv
<1> SUFFICES ASSUME Init PROVE IInv
  OBVIOUS
<1>1. mem \in Model
  BY CubeModelAssumption DEF Init, StoreInit, FreshModel, Model, Order
<1>2. mem # NoModel
  BY <1>1, NoModelAssumption
<1> QED BY <1>2 DEF Init, StoreInit, NoOp, IInv, OpInv, HealInv, OwedInv, Resting, ClientKinds, IsClientOp

LEMMA SubmitIInv == ASSUME IInv, NEW o \in Ops, Submit(o) PROVE IInv'
<1> USE DEF IInv, Submit, Start, Idle
<1>1. /\ io = "idle" /\ ~lockPoisoned
      /\ io' = "start" /\ op' = o /\ todo' = Stages(o)
      /\ UNCHANGED <<mem, pub, failStopped, lockPoisoned, doubt>>
  OBVIOUS
<1>2. o.kind \in ClientKinds \cup {"checkpoint"}
  BY OpsAssumption DEF Operation, ClientKinds, CommitSandbox, InvalidView, Checkpoint
<1>3. OpInv'
  BY <1>1, <1>2, StagesOf DEF OpInv, Resting, ClientKinds
<1>4. HealInv'
  BY <1>1, <1>2 DEF HealInv, ClientKinds
<1>5. mem \in doubt /\ mem # NoModel /\ pub \in doubt /\ pub # NoModel
  BY <1>1 DEF OwedInv
<1>6. CASE o.kind = "checkpoint"
  BY <1>1, <1>3, <1>4, <1>5, <1>6 DEF OwedInv, IsClientOp, ClientKinds
<1>7. CASE o.kind \in ClientKinds
  <2>1. Outcomes(o, mem) \subseteq pending'
    BY <1>5, <1>7 DEF ClientKinds
  <2>2. CASE o.kind \in {"batch", "pin", "commitSandbox"}
    <3>1. AppendLeft'
      BY <1>1, <2>2, StagesOf DEF AppendLeft, HasBatch, Defines
    <3> QED BY <1>1, <1>5, <1>7, <2>1, <3>1, <1>3, <1>4 DEF OwedInv, FromModel, ClientKinds
  <2>3. CASE o.kind = "edit"
    <3>1. FlushLeft'
      BY <1>1, <2>3, StagesOf DEF FlushLeft, HasBatch, Defines
    <3> QED BY <1>1, <1>5, <1>7, <2>1, <3>1, <1>3, <1>4 DEF OwedInv, FromModel, ClientKinds, Checkpointing
  <2>4. CASE o.kind \in {"sandboxSet", "view"}
    <3>1. DefineLeft'
      BY <1>1, <2>4, StagesOf DEF DefineLeft, Defines
    <3>2. mem = Batched(o, mem)
      BY <2>4 DEF Batched, HasBatch
    <3> QED BY <1>1, <1>5, <1>7, <2>1, <3>1, <3>2, <1>3, <1>4 DEF OwedInv, FromModel, ClientKinds, Checkpointing
  <2> QED BY <1>7, <2>2, <2>3, <2>4 DEF ClientKinds
<1> QED BY <1>2, <1>3, <1>4, <1>6, <1>7

\* When a client's operation is over, memory holds one of its outcomes if it
\* returned Ok, and what is owed otherwise.
LEMMA DoneOwed ==
  ASSUME IInv, At("done"), IsClientOp
  PROVE  /\ ~failStopped /\ ~lockPoisoned /\ mem # NoModel /\ pub # NoModel
         /\ result = "ok" => mem \in pending
         /\ op.kind = "batch" => mem \in doubt \cup pending
         /\ op.kind = "batch" /\ result \in {"Rejected", "Poisoned"} => mem \in doubt
<1> USE DEF IInv, At
<1>1. PICK d \in doubt : Outcomes(op, d) \subseteq pending /\ FromModel(d)
  BY DEF OwedInv
<1>2. ~failStopped /\ ~lockPoisoned /\ mem # NoModel /\ pub # NoModel
  BY DEF OpInv, HealInv, OwedInv, IsClientOp
<1> QED BY <1>1, <1>2 DEF FromModel, Appending, Checkpointing

\* An operation returns with memory owed and nothing in progress.
LEMMA ReturnIInv ==
  ASSUME Return, ~lockPoisoned', pub' \in doubt', pub' # NoModel, mem' # NoModel,
         mem' \in doubt', failStopped' => mem' = pub'
  PROVE  IInv'
  BY DEF Return, IInv, OpInv, HealInv, OwedInv, NoOp, Resting, IsClientOp, ClientKinds

LEMMA PublishIInv == ASSUME IInv, Publish PROVE IInv'
<1>1. ~failStopped /\ ~lockPoisoned /\ mem # NoModel /\ pub # NoModel /\ mem \in pending
  BY DoneOwed DEF Publish
<1>2. pub \in doubt
  BY DEF IInv, OwedInv
<1> QED BY <1>1, <1>2, ReturnIInv DEF Publish

LEMMA RejectIInv == ASSUME IInv, Reject PROVE IInv'
<1>1. ~failStopped /\ ~lockPoisoned /\ mem # NoModel /\ pub # NoModel
  BY DoneOwed DEF Reject
<1>2. op.kind = "batch" => mem \in doubt
  BY DoneOwed DEF Reject
<1>3. pub \in doubt
  BY DEF IInv, OwedInv
<1> QED BY <1>1, <1>2, <1>3, ReturnIInv DEF Reject

LEMMA FailBatchIInv == ASSUME IInv, FailBatch PROVE IInv'
<1> IsClientOp
  BY DEF FailBatch, IsClientOp, ClientKinds
<1>1. ~failStopped /\ ~lockPoisoned /\ mem # NoModel /\ pub # NoModel
  BY DoneOwed DEF FailBatch
<1>2. mem \in doubt \cup Attempted
  BY DoneOwed DEF FailBatch, Attempted
<1>3. pub \in doubt
  BY DEF IInv, OwedInv
<1> QED BY <1>1, <1>2, <1>3, ReturnIInv DEF FailBatch

\* A repair begins with the published model in memory.
LEMMA StartRepairIInv ==
  ASSUME IInv, io \notin {"down", "refused"}, StartRepair, ~lockPoisoned',
         UNCHANGED <<pub, failStopped>>, doubt \subseteq doubt'
  PROVE  IInv'
<1>1. pub \in doubt' /\ pub # NoModel
  BY DEF IInv, OwedInv
<1> QED
  BY <1>1 DEF StartRepair, Repair, IInv, OpInv, HealInv, OwedInv, Resting, IsClientOp, ClientKinds

LEMMA FailDefinitionIInv == ASSUME IInv, FailDefinition PROVE IInv'
<1>1. ~lockPoisoned
  BY DoneOwed DEF FailDefinition
<1> QED BY <1>1, StartRepairIInv DEF FailDefinition, At

LEMMA RecoverLockIInv == ASSUME IInv, RecoverLock PROVE IInv'
  BY StartRepairIInv DEF RecoverLock, Idle

LEMMA FinishRepairIInv == ASSUME IInv, FinishRepair PROVE IInv'
<1>1. mem = pub /\ pub \in doubt /\ pub # NoModel /\ ~lockPoisoned
  BY DEF IInv, FinishRepair, At, OpInv, HealInv, OwedInv
<1> QED BY <1>1, ReturnIInv DEF FinishRepair

LEMMA FinishCheckpointIInv == ASSUME IInv, FinishCheckpoint PROVE IInv'
<1>1. /\ mem \in doubt /\ pub \in doubt /\ mem # NoModel /\ pub # NoModel
      /\ ~lockPoisoned
      /\ failStopped => mem = pub
  BY DEF IInv, FinishCheckpoint, At, OpInv, HealInv, OwedInv
<1> QED BY <1>1, ReturnIInv DEF FinishCheckpoint

LEMMA PanicIInv == ASSUME IInv, Panic PROVE IInv'
<1>1. ~failStopped /\ pub \in doubt /\ mem # NoModel /\ pub # NoModel
  BY DEF IInv, Panic, InStage, At, HealInv, OwedInv, IsClientOp
<1> QED
  BY <1>1 DEF Panic, NoOp, IInv, OpInv, HealInv, OwedInv, Resting, IsClientOp, ClientKinds

LEMMA CrashIInv == ASSUME CrashEngine PROVE IInv'
  BY DEF CrashEngine, Crash, NoOp, IInv, OpInv, HealInv, OwedInv, Resting, IsClientOp, ClientKinds

LEMMA BootIInv == ASSUME IInv, Boot PROVE IInv'
  BY DEF Boot, OpenStore, At, engineVars, IInv, OpInv, HealInv, OwedInv, Resting, IsClientOp, ClientKinds

LEMMA StutterIInv == ASSUME IInv, UNCHANGED vars PROVE IInv'
<1> USE DEF vars, storeVars, diskVars, runVars, engineVars
<1>1. OpInv' /\ HealInv'
  BY DEF IInv, OpInv, HealInv
<1>2. ASSUME NEW d, FromModel(d) PROVE FromModel(d)'
  BY <1>2 DEF FromModel, AppendLeft, AutoLeft, FlushLeft, DefineLeft
<1>3. OwedInv'
  BY <1>2 DEF IInv, OwedInv, IsClientOp
<1> QED BY <1>1, <1>3 DEF IInv

\* A step of the system keeps the invariant.
LEMMA NextIInv == ASSUME IInv, [Next]_vars PROVE IInv'
  BY StoreIInv, SubmitIInv, PublishIInv, RejectIInv, FailBatchIInv, FailDefinitionIInv,
     FinishRepairIInv, FinishCheckpointIInv, PanicIInv, RecoverLockIInv, CrashIInv, BootIInv,
     StutterIInv
  DEF Next, EngineStep

\* The commit path of CubeEngine keeps, between any two of its steps, what the
\* theorems below conclude from.
THEOREM Invariance == Spec => []IInv
<1>1. IInv /\ [Next]_vars => IInv'
  BY NextIInv
<1> QED BY InitIInv, <1>1, PTL DEF Spec

-----------------------------------------------------------------------------
(* The theorems.                                                            *)

\* Engine::checkpoint heals a fail-stopped writer by writing its memory to
\* disk: at that moment, and whatever failed before, its memory is the
\* published model.
THEOREM HealingIsSound == Spec => []FailStoppedIsPublished
<1>1. IInv => FailStoppedIsPublished
  BY DEF IInv, HealInv, FailStoppedIsPublished
<1> QED BY <1>1, Invariance, PTL

\* Only Publish, Boot and a crash change what readers see.
LEMMA OnlyPublishChanges ==
  ASSUME Next, Running, Running', pub' # pub
  PROVE  Publish
<1>1. ~(\E o \in Ops : Submit(o))
  BY DEF Submit
<1>2. ~Reject /\ ~FailBatch /\ ~FailDefinition /\ ~FinishRepair /\ ~FinishCheckpoint
  BY DEF Reject, FailBatch, FailDefinition, FinishRepair, FinishCheckpoint
<1>3. ~Panic /\ ~RecoverLock /\ ~Boot /\ ~(UNCHANGED engineVars)
  BY DEF Panic, RecoverLock, Boot, engineVars
<1>4. ~CrashEngine
  BY DEF CrashEngine, Crash, Running
<1> QED BY <1>1, <1>2, <1>3, <1>4 DEF Next, EngineStep

\* What readers see changes, while the process runs, only to an outcome of an
\* operation that returned Ok, whatever fails and whatever the operations are.
THEOREM OkPublishes == Spec => OnlyOkPublishes
<1> DEFINE Good == Running /\ Running' /\ pub' # pub =>
                     op # NoOp /\ result = "ok" /\ pub' \in pending
<1>1. IInv /\ [Next]_vars => [Good]_vars
  <2> SUFFICES ASSUME IInv, Next, Running, Running', pub' # pub
               PROVE  op # NoOp /\ result = "ok" /\ pub' \in pending
    OBVIOUS
  <2>1. Publish
    BY OnlyPublishChanges
  <2>2. mem \in pending
    BY <2>1, DoneOwed DEF Publish
  <2>3. op # NoOp
    BY <2>1 DEF Publish, IsClientOp, ClientKinds, NoOp
  <2> QED BY <2>1, <2>2, <2>3 DEF Publish
<1> QED BY <1>1, Invariance, PTL DEF Spec, OnlyOkPublishes

-----------------------------------------------------------------------------
(* When every change that reaches the log is published - the high-water     *)
(* mark does not fail, and no automatic checkpoint runs or none fails - a   *)
(* failed operation leaves no trace in memory.                              *)

NothingUnpublished ==
    "watermark" \notin Faults /\ (Threshold = 0 \/ Faults \cap Checkpointing = {})

\* A batch on its way through the automatic checkpoint, which cannot fail.
BatchFlushes == io \in Checkpointing /\ AutoLeft /\ Threshold # 0

\* A batch changes memory only when it is durable, and then it returns Ok.
BatchUnapplied ==
    \/ io = "start" /\ AppendLeft
    \/ io \in Appending /\ AppendLeft
    \/ io = "done" /\ result # "ok"

MemInv ==
    /\ io = "idle" /\ ~lockPoisoned => mem = pub
    /\ op.kind = "checkpoint" => mem = pub
    /\ op.kind = "batch" =>
         \/ BatchUnapplied /\ mem = pub
         \/ io = "start" /\ AutoLeft
         \/ BatchFlushes
         \/ io = "done" /\ result = "ok"

\* A batch applies its writes in the step that makes them durable, and has
\* nothing after it that could fail.
LEMMA StoreMemInv ==
  ASSUME NothingUnpublished, IInv, MemInv, StoreStep, UNCHANGED engineVars
  PROVE  MemInv'
<1>1. /\ io \notin Resting /\ io' \notin Resting /\ op' = op
      /\ IsClientOp \/ mem' = mem
  BY StoreMoves DEF IInv, Moves
<1>2. CASE op.kind # "batch"
  <2>1. op.kind = "checkpoint" => mem' = mem
    BY <1>1 DEF IsClientOp, ClientKinds
  <2> QED BY <1>1, <1>2, <2>1 DEF MemInv, engineVars, Resting
<1>3. CASE op.kind = "batch"
  <2> HasBatch(op) /\ ~Defines(op)
    BY <1>3 DEF HasBatch, Defines
  <2> DEFINE Good == \/ BatchUnapplied /\ mem = pub
                     \/ io = "start" /\ AutoLeft
                     \/ BatchFlushes
                     \/ io = "done" /\ result = "ok"
  <2> SUFFICES Good'
    BY <1>1, <1>3 DEF MemInv, Resting
  <2>1. CASE StartAppend
    <3>1. Head(todo) = "append" /\ io = "start"
      BY <2>1 DEF StartAppend, InStage
    <3>2. AppendLeft /\ mem = pub
      BY <1>3, <3>1, StageTails DEF MemInv, BatchUnapplied, BatchFlushes, AutoLeft, Appending, Checkpointing
    <3>3. mem' = mem /\ pub' = pub
      BY <1>3, <2>1 DEF StartAppend, engineVars
    <3>4. CASE Fail("Poisoned") \/ Fail("Rejected")
      BY <3>2, <3>3, <3>4 DEF Fail, BatchUnapplied
    <3>5. CASE Step("write")
      BY <3>2, <3>3, <3>5 DEF Step, BatchUnapplied, AppendLeft, Appending
    <3> QED BY <2>1, <3>4, <3>5 DEF StartAppend
  <2>2. CASE Write
    BY <1>3, <2>2 DEF Write, At, Step, MemInv, BatchUnapplied, BatchFlushes, AppendLeft, Appending,
                Checkpointing, engineVars
  <2>3. CASE Sync
    <3>1. AppendLeft /\ mem = pub
      BY <1>3, <2>3 DEF Sync, At, MemInv, BatchUnapplied, BatchFlushes, Checkpointing
    <3>2. CASE NextStage
      BY <3>1, <3>2, AfterStage
    <3>3. CASE Step("rollback") /\ UNCHANGED mem
      BY <3>1, <3>3 DEF Step, BatchUnapplied, AppendLeft, Appending, engineVars
    <3> QED BY <2>3, <3>2, <3>3 DEF Sync
  <2>4. CASE PoisonWal
    BY <1>3, <2>4 DEF PoisonWal, At, Fail, MemInv, BatchUnapplied, BatchFlushes, Checkpointing, engineVars
  <2>5. CASE StartAuto
    <3>1. Head(todo) = "auto" /\ io = "start"
      BY <2>5 DEF StartAuto, InStage
    <3>2. AutoLeft
      BY <1>3, <3>1, StageTails
      DEF MemInv, BatchUnapplied, BatchFlushes, AppendLeft, Appending, Checkpointing
    <3>3. CASE NextStage
      BY <3>2, <3>3, AfterStage
    <3>4. CASE Threshold # 0 /\ Step("snapshot")
      BY <3>2, <3>4 DEF Step, BatchFlushes, AutoLeft, Checkpointing
    <3> QED BY <2>5, <3>3, <3>4 DEF StartAuto
  <2>6. CASE StartCheckpoint \/ StartDefine
    <3>1. Head(todo) \in {"checkpoint", "define"} /\ io = "start"
      BY <2>6 DEF StartCheckpoint, StartDefine, InStage
    <3> QED BY <1>3, <3>1, StageTails
      DEF MemInv, BatchUnapplied, BatchFlushes, AppendLeft, AutoLeft, Appending, Checkpointing
  <2>7. CASE WriteSnapshot \/ SyncDir \/ Truncate \/ WriteHeader \/ SyncWal
    <3>1. io \in Checkpointing
      BY <2>7 DEF WriteSnapshot, SyncDir, Truncate, WriteHeader, SyncWal, At, Checkpointing
    <3>2. AutoLeft /\ Threshold # 0 /\ \A step \in Checkpointing : ~Faulty(step)
      BY <1>3, <3>1
      DEF MemInv, BatchUnapplied, BatchFlushes, Appending, Checkpointing, NothingUnpublished, Faulty
    <3>3. \/ Step("dirsync") \/ Step("truncate") \/ Step("header") \/ Step("walsync")
          \/ NextStage
      BY <2>7, <3>2
      DEF WriteSnapshot, SyncDir, Truncate, WriteHeader, SyncWal, Checkpointing
    <3>4. CASE NextStage
      BY <3>2, <3>4, AfterStage
    <3>5. CASE Step("dirsync") \/ Step("truncate") \/ Step("header") \/ Step("walsync")
      BY <3>2, <3>5 DEF Step, BatchFlushes, AutoLeft, Checkpointing
    <3> QED BY <3>3, <3>4, <3>5
  <2> QED BY <2>1, <2>2, <2>3, <2>4, <2>5, <2>6, <2>7 DEF StoreStep
<1> QED BY <1>2, <1>3

\* The engine's returns restore, keep or publish memory.
LEMMA EngineMemInv ==
  ASSUME NothingUnpublished, IInv, MemInv, EngineStep
  PROVE  MemInv'
<1>1. ASSUME NEW o \in Ops, Submit(o) PROVE MemInv'
  <2>1. mem' = pub' /\ io' = "start" /\ op' = o /\ todo' = Stages(o)
    BY <1>1 DEF Submit, Start, Idle, MemInv
  <2>2. o.kind = "batch" => AppendLeft'
    BY <2>1, StagesOf DEF AppendLeft, HasBatch, Defines
  <2> QED BY <2>1, <2>2 DEF MemInv, BatchUnapplied
<1>2. CASE Publish
  BY <1>2 DEF Publish, Return, NothingUnpublished, Faulty, NoOp, MemInv
<1>3. CASE Reject
  BY <1>3 DEF Reject, Return, NoOp, MemInv, BatchUnapplied, BatchFlushes, At, Appending, Checkpointing
<1>4. CASE FailBatch
  BY <1>4 DEF FailBatch, Return, NoOp, MemInv, BatchUnapplied, BatchFlushes, At, Appending,
              Checkpointing
<1>5. CASE FailDefinition \/ RecoverLock
  BY <1>5 DEF FailDefinition, RecoverLock, StartRepair, Repair, MemInv
<1>6. CASE FinishRepair
  BY <1>6 DEF FinishRepair, Return, NoOp, MemInv, IInv, HealInv
<1>7. CASE FinishCheckpoint
  BY <1>7 DEF FinishCheckpoint, Return, NoOp, MemInv
<1>8. CASE Panic
  BY <1>8 DEF Panic, NoOp, MemInv
<1> QED BY <1>1, <1>2, <1>3, <1>4, <1>5, <1>6, <1>7, <1>8 DEF EngineStep

LEMMA InitMemInv == ASSUME Init PROVE MemInv
  BY DEF Init, StoreInit, NoOp, MemInv

LEMMA NextMemInv == ASSUME NothingUnpublished, IInv, MemInv, [Next]_vars PROVE MemInv'
<1>1. CASE StoreStep /\ UNCHANGED engineVars
  BY <1>1, StoreMemInv
<1>2. CASE EngineStep
  BY <1>2, EngineMemInv
<1>3. CASE CrashEngine
  BY <1>3 DEF CrashEngine, Crash, NoOp, MemInv
<1>4. CASE Boot
  BY <1>4 DEF Boot, OpenStore, At, engineVars, MemInv, IInv, OpInv, OwedInv, Resting
<1>5. CASE UNCHANGED vars
  BY <1>5 DEF vars, storeVars, diskVars, runVars, engineVars, MemInv, BatchUnapplied,
              BatchFlushes, AppendLeft, AutoLeft
<1> QED BY <1>1, <1>2, <1>3, <1>4, <1>5 DEF Next

\* When every change that reaches the log is published, memory is what readers
\* see whenever no operation is in progress: a rejected or failed operation
\* leaves nothing for the next one to carry out.
THEOREM NoTraceInMemory == ASSUME NothingUnpublished PROVE Spec => []MemoryIsPublished
<1>1. IInv /\ MemInv /\ [Next]_vars => MemInv'
  BY NextMemInv
<1>2. MemInv => MemoryIsPublished
  BY DEF MemInv, MemoryIsPublished, Idle
<1> QED BY InitMemInv, <1>1, <1>2, Invariance, PTL DEF Spec

-----------------------------------------------------------------------------
(* Induction over the numbers and over the sequences of a set.              *)

\* A set that holds 0 and the successor of what it holds has every number.
LEMMA AllNumbers ==
  ASSUME NEW S, 0 \in S, \A n \in Nat : n \in S => n + 1 \in S
  PROVE  Nat \subseteq S
<1> SUFFICES ASSUME Nat \ S # {} PROVE FALSE
  OBVIOUS
<1> DEFINE Below == {1 .. n : n \in Nat \ S}
<1>1. Below # {} /\ Below \subseteq FiniteSubsetsOf(Nat)
  <2>1. \A n \in Nat : 1 .. n \in FiniteSubsetsOf(Nat)
    BY SMTT(30), FS_Interval DEF FiniteSubsetsOf
  <2> QED BY <2>1
<1>2. PICK B \in Below : \A C \in Below : <<C, B>> \notin StrictSubsetOrdering(Nat)
  <2> HIDE DEF Below
  <2> QED BY <1>1, FS_StrictSubsetOrderingWellFounded, WFMin
<1>3. PICK x \in Nat \ S : B = 1 .. x
  OBVIOUS
<1>4. x - 1 \in Nat /\ x - 1 \notin S
  OBVIOUS
<1>5. 1 .. (x - 1) \in SUBSET (1 .. x) /\ x \notin 1 .. (x - 1) /\ x \in 1 .. x
  BY <1>4
<1>6. 1 .. (x - 1) \subseteq Nat /\ 1 .. x \subseteq Nat
  OBVIOUS
<1>7. <<1 .. (x - 1), 1 .. x>> \in StrictSubsetOrdering(Nat)
  BY <1>5, <1>6 DEF StrictSubsetOrdering
<1> QED BY <1>2, <1>3, <1>4, <1>7

\* Every set of numbers that is not empty has a least one.
LEMMA LeastNumber ==
  ASSUME NEW S \in SUBSET Nat, S # {}
  PROVE  \E x \in S : \A n \in S : x <= n
<1> SUFFICES ASSUME \A x \in S : \E n \in S : n < x PROVE FALSE
  OBVIOUS
<1> DEFINE T == {n \in Nat : \A k \in 0 .. n : k \notin S}
<1>1. 0 \in T
  OBVIOUS
<1>2. \A n \in Nat : n \in T => n + 1 \in T
  <2> SUFFICES ASSUME NEW n \in Nat, n \in T, n + 1 \in S PROVE FALSE
    <3>1. \A n \in Nat : \A k \in 0 .. n + 1 : k \in 0 .. n \/ k = n + 1
      OBVIOUS
    <3> QED BY <3>1
  <2>1. PICK k \in S : k < n + 1
    OBVIOUS
  <2> QED BY <2>1
<1> HIDE DEF T
<1>3. Nat \subseteq T
  BY <1>1, <1>2, AllNumbers
<1>4. PICK x \in S : x \in T
  BY <1>3
<1> QED BY <1>4 DEF T

\* A set that holds the empty sequence and every extension of what it holds
\* has every sequence.
LEMMA AllSequences ==
  ASSUME NEW X, NEW G, <<>> \in G,
         \A V \in Seq(X), x \in X : V \in G => Append(V, x) \in G
  PROVE  Seq(X) \subseteq G
<1> DEFINE S == {n \in Nat : \A U \in Seq(X) : Len(U) = n => U \in G}
<1>1. 0 \in S
  <2>1. \A U \in Seq(X) : Len(U) = 0 => U = <<>>
    OBVIOUS
  <2> QED BY <2>1
<1>2. ASSUME NEW n \in Nat, n \in S PROVE n + 1 \in S
  <2> SUFFICES ASSUME NEW U \in Seq(X), Len(U) = n + 1 PROVE U \in G
    OBVIOUS
  <2> DEFINE V == SubSeq(U, 1, n)
  <2>1. V \in Seq(X) /\ Len(V) = n /\ U[n + 1] \in X
    OBVIOUS
  <2>2. Append(V, U[n + 1]) = U
    <3>1. Append(V, U[n + 1]) \in Seq(X) /\ Len(Append(V, U[n + 1])) = n + 1
      BY <2>1
    <3>2. \A i \in 1 .. n + 1 : Append(V, U[n + 1])[i] = U[i]
      BY <2>1
    <3> HIDE DEF V
    <3> QED BY <3>1, <3>2, SeqEqual
  <2> HIDE DEF V
  <2> QED BY <1>2, <2>1, <2>2
<1> HIDE DEF S
<1>3. Nat \subseteq S
  BY <1>1, <1>2, AllNumbers
<1> QED
  <2> SUFFICES ASSUME NEW U \in Seq(X) PROVE U \in G
    OBVIOUS
  <2>1. Len(U) \in S
    BY <1>3
  <2> QED BY <2>1 DEF S

-----------------------------------------------------------------------------
(* Replay, unit by unit.                                                    *)

\* f[n] is what the first n units of U make of model.
Run(model, U, f) ==
    f = [n \in 0 .. Len(U) |-> IF n = 0 THEN model ELSE ReplayUnit(f[n - 1], U[n])]

LEMMA RunValues ==
  ASSUME NEW X, NEW U \in Seq(X), NEW model, NEW f, Run(model, U, f)
  PROVE  /\ f[0] = model
         /\ \A n \in 1 .. Len(U) : f[n] = ReplayUnit(f[n - 1], U[n])
  BY DEF Run

\* One run at most: each of its values follows from the one before.
LEMMA OneRun ==
  ASSUME NEW X, NEW U \in Seq(X), NEW model, NEW f, Run(model, U, f), NEW g, Run(model, U, g)
  PROVE  f[Len(U)] = g[Len(U)]
<1> DEFINE S == {n \in Nat : n <= Len(U) => f[n] = g[n]}
<1>1. /\ f[0] = model /\ \A n \in 1 .. Len(U) : f[n] = ReplayUnit(f[n - 1], U[n])
      /\ g[0] = model /\ \A n \in 1 .. Len(U) : g[n] = ReplayUnit(g[n - 1], U[n])
  BY RunValues
<1>2. 0 \in S
  BY <1>1
<1>3. ASSUME NEW n \in Nat, n \in S PROVE n + 1 \in S
  <2> SUFFICES ASSUME n + 1 <= Len(U) PROVE f[n + 1] = g[n + 1]
    OBVIOUS
  <2>1. n + 1 \in 1 .. Len(U) /\ (n + 1) - 1 = n /\ n <= Len(U)
    OBVIOUS
  <2>2. f[n] = g[n]
    BY <1>3, <2>1
  <2> QED BY <1>1, <2>1, <2>2
<1> HIDE DEF S
<1>4. Nat \subseteq S
  BY <1>2, <1>3, AllNumbers
<1>5. Len(U) \in S
  BY <1>4
<1> QED BY <1>5 DEF S

\* A run of a log is extended by the next unit.
LEMMA RunOn ==
  ASSUME NEW X, NEW U \in Seq(X), NEW x \in X, NEW model, NEW f, Run(model, U, f)
  PROVE  \E g : Run(model, Append(U, x), g) /\ g[Len(U) + 1] = ReplayUnit(f[Len(U)], x)
<1> DEFINE W == Append(U, x)
           g == [n \in 0 .. Len(U) + 1 |->
                   IF n = Len(U) + 1 THEN ReplayUnit(f[Len(U)], x) ELSE f[n]]
<1>1. Len(U) \in Nat /\ Len(W) = Len(U) + 1 /\ W[Len(U) + 1] = x
  OBVIOUS
<1>2. \A n \in 1 .. Len(U) : W[n] = U[n]
  OBVIOUS
<1>3. f[0] = model /\ \A n \in 1 .. Len(U) : f[n] = ReplayUnit(f[n - 1], U[n])
  BY RunValues
<1> HIDE DEF W
<1>4. g[0] = model
  BY <1>1, <1>3
<1>5. ASSUME NEW n \in 1 .. Len(W) PROVE g[n] = ReplayUnit(g[n - 1], W[n])
  <2>1. CASE n = Len(U) + 1
    <3>1. n - 1 = Len(U) /\ n - 1 \in 0 .. Len(U) + 1 /\ n - 1 # Len(U) + 1
      BY <1>1, <2>1
    <3>2. g[n - 1] = f[Len(U)]
      BY <3>1
    <3>3. g[n] = ReplayUnit(f[Len(U)], x)
      BY <1>1, <2>1
    <3> QED BY <1>1, <2>1, <3>2, <3>3
  <2>2. CASE n # Len(U) + 1
    <3>1. n \in 1 .. Len(U) /\ n - 1 \in 0 .. Len(U) + 1 /\ n - 1 # Len(U) + 1
      BY <1>1, <2>2
    <3>2. g[n - 1] = f[n - 1] /\ g[n] = f[n]
      BY <1>1, <2>2, <3>1
    <3> QED BY <1>2, <1>3, <3>1, <3>2
  <2> QED BY <2>1, <2>2
<1>6. g = [n \in 0 .. Len(W) |-> IF n = 0 THEN model ELSE ReplayUnit(g[n - 1], W[n])]
  <2>1. \A n \in 0 .. Len(W) : n = 0 \/ n \in 1 .. Len(W)
    BY <1>1
  <2>2. DOMAIN g = 0 .. Len(W)
    BY <1>1
  <2>3. g = [n \in 0 .. Len(W) |-> g[n]]
    BY <2>2
  <2> HIDE DEF g
  <2> QED BY <1>4, <1>5, <2>1, <2>3
<1>7. g[Len(U) + 1] = ReplayUnit(f[Len(U)], x)
  BY <1>1
<1> QED BY <1>6, <1>7 DEF Run, W

\* Every log has a run.
LEMMA RunExists ==
  ASSUME NEW X, NEW U \in Seq(X), NEW model
  PROVE  \E f : Run(model, U, f)
<1> DEFINE G == {V \in Seq(X) : \E f : Run(model, V, f)}
<1>1. <<>> \in G
  <2> DEFINE f == [n \in 0 .. 0 |-> model]
  <2>1. Run(model, <<>>, f)
    BY DEF Run
  <2> QED BY <2>1
<1>2. ASSUME NEW V \in Seq(X), NEW x \in X, V \in G PROVE Append(V, x) \in G
  <2>1. PICK f : Run(model, V, f)
    BY <1>2
  <2>2. \E g : Run(model, Append(V, x), g)
    BY <2>1, RunOn
  <2> QED BY <2>2
<1> HIDE DEF G
<1>3. Seq(X) \subseteq G
  BY <1>1, <1>2, AllSequences
<1> QED BY <1>3 DEF G

LEMMA ReplayIsRun ==
  ASSUME NEW X, NEW U \in Seq(X), NEW model, NEW f, Run(model, U, f)
  PROVE  Replay(model, U) = f[Len(U)]
<1> DEFINE g == CHOOSE h : Run(model, U, h)
<1>1. Run(model, U, g)
  OBVIOUS
<1>2. Replay(model, U) = g[Len(U)]
  BY DEF Replay, Run
<1> HIDE DEF g
<1> QED BY <1>1, <1>2, OneRun

\* The empty log leaves the snapshot, and a further unit is applied last.
LEMMA ReplayNone == ASSUME NEW model PROVE Replay(model, <<>>) = model
<1> DEFINE f == [n \in 0 .. 0 |-> model]
<1>1. Run(model, <<>>, f)
  BY DEF Run
<1>2. <<>> \in Seq({})
  OBVIOUS
<1>3. Replay(model, <<>>) = f[Len(<<>>)]
  BY <1>1, <1>2, ReplayIsRun
<1> QED BY <1>3

LEMMA ReplayAppend ==
  ASSUME NEW X, NEW U \in Seq(X), NEW x \in X, NEW model
  PROVE  Replay(model, Append(U, x)) = ReplayUnit(Replay(model, U), x)
<1>1. PICK f : Run(model, U, f)
  BY RunExists
<1>2. PICK g : Run(model, Append(U, x), g) /\ g[Len(U) + 1] = ReplayUnit(f[Len(U)], x)
  BY <1>1, RunOn
<1>3. Append(U, x) \in Seq(X) /\ Len(Append(U, x)) = Len(U) + 1
  OBVIOUS
<1>4. Replay(model, U) = f[Len(U)]
  BY <1>1, ReplayIsRun
<1>5. Replay(model, Append(U, x)) = g[Len(U) + 1]
  BY <1>2, <1>3, ReplayIsRun
<1> QED BY <1>2, <1>4, <1>5

-----------------------------------------------------------------------------
(* A log is an overlay: on the models of one shape it replaces the cells of *)
(* some members and sets or clears some pins.                               *)

Overlays == [D : SUBSET Members, cell : [Members -> Values],
             on : SUBSET Members, off : SUBSET Members]

Overlaid(model, v) ==
    [ order   |-> model.order,
      leaf    |-> model.leaf,
      cell    |-> [m \in Members |-> IF m \in v.D THEN v.cell[m] ELSE model.cell[m]],
      pinned  |-> (model.pinned \cup v.on) \ v.off,
      sandbox |-> model.sandbox ]

Shaped(order, leaf) == {x \in Model : x.order = order /\ x.leaf = leaf}

LEMMA OverlaidShape ==
  ASSUME NEW order, NEW leaf, NEW x \in Shaped(order, leaf), NEW v \in Overlays
  PROVE  Overlaid(x, v) \in Shaped(order, leaf)
  BY DEF Overlaid, Overlays, Shaped, Model

\* One overlay over another is an overlay.
LEMMA OverlaysCompose ==
  ASSUME NEW v \in Overlays, NEW w \in Overlays
  PROVE  \E z \in Overlays : \A x \in Model : Overlaid(Overlaid(x, v), w) = Overlaid(x, z)
<1> DEFINE z == [ D    |-> v.D \cup w.D,
                  cell |-> [m \in Members |-> IF m \in w.D THEN w.cell[m] ELSE v.cell[m]],
                  on   |-> v.on \cup w.on,
                  off  |-> (v.off \ w.on) \cup w.off ]
<1>1. z \in Overlays
  BY DEF Overlays
<1>2. ASSUME NEW x \in Model PROVE Overlaid(Overlaid(x, v), w) = Overlaid(x, z)
  <2> DEFINE y == Overlaid(x, v)
  <2>1. /\ y.order = x.order /\ y.leaf = x.leaf /\ y.sandbox = x.sandbox
        /\ y.cell = [m \in Members |-> IF m \in v.D THEN v.cell[m] ELSE x.cell[m]]
        /\ y.pinned = (x.pinned \cup v.on) \ v.off
    BY DEF Overlaid
  <2> HIDE DEF y
  <2>2. (y.pinned \cup w.on) \ w.off = (x.pinned \cup z.on) \ z.off
    BY <2>1
  <2>3. [m \in Members |-> IF m \in w.D THEN w.cell[m] ELSE y.cell[m]]
          = [m \in Members |-> IF m \in z.D THEN z.cell[m] ELSE x.cell[m]]
    BY <2>1
  <2>4. Overlaid(y, w) = Overlaid(x, z)
    BY <2>1, <2>2, <2>3 DEF Overlaid
  <2> QED BY <2>4 DEF y
<1> HIDE DEF z
<1> QED BY <1>1, <1>2

\* A second application of an overlay changes nothing.
LEMMA OverlayTwice ==
  ASSUME NEW v \in Overlays, NEW x \in Model
  PROVE  Overlaid(Overlaid(x, v), v) = Overlaid(x, v)
<1> DEFINE y == Overlaid(x, v)
<1>1. /\ y.cell = [m \in Members |-> IF m \in v.D THEN v.cell[m] ELSE x.cell[m]]
      /\ y.pinned = (x.pinned \cup v.on) \ v.off
      /\ y = [order |-> y.order, leaf |-> y.leaf, cell |-> y.cell, pinned |-> y.pinned,
              sandbox |-> y.sandbox]
  BY DEF Overlaid
<1> HIDE DEF y
<1>2. (y.pinned \cup v.on) \ v.off = y.pinned
  BY <1>1
<1>3. [m \in Members |-> IF m \in v.D THEN v.cell[m] ELSE y.cell[m]] = y.cell
  BY <1>1
<1>4. Overlaid(y, v) = y
  BY <1>1, <1>2, <1>3 DEF Overlaid
<1> QED BY <1>4 DEF y

\* What one unit does: it is rejected, or it is an overlay.
LEMMA UnitEffect ==
  ASSUME NEW order \in Order, NEW leaf, NEW u \in Unit
  PROVE  \/ \A x \in Shaped(order, leaf) : ApplyUnit(x, u) = NoModel
         \/ \E v \in Overlays : \A x \in Shaped(order, leaf) : ApplyUnit(x, u) = Overlaid(x, v)
<1> PICK any \in Values : TRUE
  BY CubeModelAssumption
<1>1. CASE u \in CellUnits
  <2>1. PICK P \in SUBSET Position : \E w \in [P -> Values] : u = CellUnit(w)
    BY <1>1 DEF CellUnits
  <2>2. PICK w \in [P -> Values] : u = CellUnit(w)
    BY <2>1
  <2>3. u.op = "cells" /\ u.writes = w /\ DOMAIN w = P
    BY <2>2 DEF CellUnit
  <2> DEFINE targets == {order[p] : p \in P}
             place(m) == CHOOSE p \in Position : order[p] = m
  <2>4. CASE ~(targets \subseteq leaf)
    <3>1. \A x \in Shaped(order, leaf) : ApplyUnit(x, u) = NoModel
      BY <2>3, <2>4 DEF ApplyUnit, Shaped
    <3> QED BY <3>1
  <2>5. CASE targets \subseteq leaf
    <3>1. targets \subseteq Members
      BY DEF Order
    <3>2. \A m \in targets : place(m) \in P
      <4> SUFFICES ASSUME NEW p \in P PROVE place(order[p]) \in P
        OBVIOUS
      <4>1. place(order[p]) \in Position /\ order[place(order[p])] = order[p]
        OBVIOUS
      <4>2. place(order[p]) = p
        BY <4>1 DEF Order
      <4> QED BY <4>2
    <3> DEFINE v == [ D |-> targets, on |-> {}, off |-> {},
                      cell |-> [m \in Members |-> IF m \in targets THEN w[place(m)] ELSE any] ]
    <3>3. v \in Overlays
      <4>1. v.cell \in [Members -> Values]
        BY <3>2
      <4> QED BY <3>1, <4>1 DEF Overlays
    <3>4. ASSUME NEW x \in Shaped(order, leaf) PROVE ApplyUnit(x, u) = Overlaid(x, v)
      <4>1. x.order = order /\ x.leaf = leaf /\ x \in Model
        BY DEF Shaped
      <4>2. \A m : PositionOf(x, m) = place(m)
        BY <4>1 DEF PositionOf
      <4>3. ApplyUnit(x, u) = [x EXCEPT !.cell = [m \in Members |->
                    IF m \in targets THEN w[place(m)] ELSE x.cell[m]]]
        BY <2>3, <2>5, <4>1, <4>2 DEF ApplyUnit
      <4>4. [m \in Members |-> IF m \in targets THEN w[place(m)] ELSE x.cell[m]]
              = [m \in Members |-> IF m \in v.D THEN v.cell[m] ELSE x.cell[m]]
        OBVIOUS
      <4>5. (x.pinned \cup v.on) \ v.off = x.pinned
        OBVIOUS
      <4> HIDE DEF v, targets, place
      <4> QED BY <4>1, <4>3, <4>4, <4>5 DEF Overlaid, Model
    <3> HIDE DEF v
    <3> QED BY <3>3, <3>4
  <2> QED BY <2>4, <2>5
<1>2. CASE u \in PinUnits
  <2>1. PICK m \in Members, on \in BOOLEAN : u = PinUnit(m, on)
    BY <1>2 DEF PinUnits
  <2> DEFINE v == [ D |-> {}, cell |-> [n \in Members |-> any],
                    on |-> IF on THEN {m} ELSE {}, off |-> IF on THEN {} ELSE {m} ]
  <2>2. v \in Overlays
    BY DEF Overlays
  <2>3. ASSUME NEW x \in Shaped(order, leaf) PROVE ApplyUnit(x, u) = Overlaid(x, v)
    <3>1. x \in Model
      BY DEF Shaped
    <3>2. ApplyUnit(x, u) = [x EXCEPT !.pinned = IF on THEN @ \cup {m} ELSE @ \ {m}]
      BY <2>1 DEF ApplyUnit, PinUnit
    <3>3. (x.pinned \cup v.on) \ v.off = IF on THEN x.pinned \cup {m} ELSE x.pinned \ {m}
      OBVIOUS
    <3>4. [n \in Members |-> IF n \in v.D THEN v.cell[n] ELSE x.cell[n]] = x.cell
      BY <3>1 DEF Model
    <3> HIDE DEF v
    <3> QED BY <3>1, <3>2, <3>3, <3>4 DEF Overlaid, Model
  <2> HIDE DEF v
  <2> QED BY <2>2, <2>3
<1> QED BY <1>1, <1>2 DEF Unit

\* What a log does.
LEMMA LogEffect ==
  ASSUME NEW order \in Order, NEW leaf, NEW U \in Seq(Unit)
  PROVE  \/ \A x \in Shaped(order, leaf) : Replay(x, U) = NoModel
         \/ \E v \in Overlays : \A x \in Shaped(order, leaf) : Replay(x, U) = Overlaid(x, v)
<1> DEFINE Rejects(V) == \A x \in Shaped(order, leaf) : Replay(x, V) = NoModel
           Acts(V, v) == \A x \in Shaped(order, leaf) : Replay(x, V) = Overlaid(x, v)
           G == {V \in Seq(Unit) : Rejects(V) \/ \E v \in Overlays : Acts(V, v)}
<1>1. <<>> \in G
  <2> PICK any \in Values : TRUE
    BY CubeModelAssumption
  <2> DEFINE v == [D |-> {}, cell |-> [m \in Members |-> any], on |-> {}, off |-> {}]
  <2>1. v \in Overlays
    BY DEF Overlays
  <2>2. ASSUME NEW x \in Shaped(order, leaf) PROVE Overlaid(x, v) = x
    <3>1. x \in Model
      BY DEF Shaped
    <3>2. [n \in Members |-> IF n \in v.D THEN v.cell[n] ELSE x.cell[n]] = x.cell
      BY <3>1 DEF Model
    <3>3. (x.pinned \cup v.on) \ v.off = x.pinned
      OBVIOUS
    <3> HIDE DEF v
    <3> QED BY <3>1, <3>2, <3>3 DEF Overlaid, Model
  <2>3. Acts(<<>>, v)
    BY <2>2, ReplayNone
  <2>4. <<>> \in Seq(Unit)
    OBVIOUS
  <2> HIDE DEF v
  <2> QED BY <2>1, <2>3, <2>4
<1>2. ASSUME NEW V \in Seq(Unit), NEW u \in Unit, V \in G PROVE Append(V, u) \in G
  <2>1. \A x : Replay(x, Append(V, u)) = ReplayUnit(Replay(x, V), u)
    BY ReplayAppend
  <2>2. CASE Rejects(V)
    BY <2>1, <2>2 DEF ReplayUnit
  <2>3. CASE \E v \in Overlays : Acts(V, v)
    <3>1. PICK v \in Overlays : Acts(V, v)
      BY <2>3
    <3>2. \A x \in Shaped(order, leaf) : /\ Overlaid(x, v) \in Shaped(order, leaf)
                                         /\ Overlaid(x, v) # NoModel
      BY OverlaidShape, NoModelAssumption DEF Shaped
    <3>3. \A x \in Shaped(order, leaf) : Replay(x, Append(V, u)) = ApplyUnit(Overlaid(x, v), u)
      BY <2>1, <3>1, <3>2 DEF ReplayUnit
    <3>4. CASE \A x \in Shaped(order, leaf) : ApplyUnit(x, u) = NoModel
      BY <3>2, <3>3, <3>4
    <3>5. CASE \E w \in Overlays : \A x \in Shaped(order, leaf) : ApplyUnit(x, u) = Overlaid(x, w)
      <4>1. PICK w \in Overlays : \A x \in Shaped(order, leaf) : ApplyUnit(x, u) = Overlaid(x, w)
        BY <3>5
      <4>2. PICK z \in Overlays : \A x \in Model : Overlaid(Overlaid(x, v), w) = Overlaid(x, z)
        BY OverlaysCompose
      <4>3. Acts(Append(V, u), z)
        BY <3>2, <3>3, <4>1, <4>2 DEF Shaped
      <4> QED BY <4>3
    <3> QED BY <3>4, <3>5, UnitEffect
  <2> QED BY <1>2, <2>2, <2>3
<1> HIDE DEF G
<1>3. Seq(Unit) \subseteq G
  BY <1>1, <1>2, AllSequences
<1> QED BY <1>3 DEF G

\* What replay makes of a model is a model or a rejection; replayed over its
\* own result it changes nothing, whatever the sandbox holds by then.
SameBase(x, y) ==
    x.order = y.order /\ x.leaf = y.leaf /\ x.cell = y.cell /\ x.pinned = y.pinned

LEMMA ReplayIsIdempotent ==
  ASSUME NEW U \in Seq(Unit), NEW x \in Model
  PROVE  /\ Replay(x, U) \in Model \cup {NoModel}
         /\ Replay(x, U) \in Model =>
              \A y \in Model : SameBase(y, Replay(x, U)) => Replay(y, U) = y
<1>1. x.order \in Order /\ x \in Shaped(x.order, x.leaf)
  BY DEF Model, Shaped
<1>2. CASE \A y \in Shaped(x.order, x.leaf) : Replay(y, U) = NoModel
  BY <1>1, <1>2, NoModelAssumption
<1>3. CASE \E v \in Overlays : \A y \in Shaped(x.order, x.leaf) : Replay(y, U) = Overlaid(y, v)
  <2>1. PICK v \in Overlays : \A y \in Shaped(x.order, x.leaf) : Replay(y, U) = Overlaid(y, v)
    BY <1>3
  <2> DEFINE z == Overlaid(x, v)
  <2>2. Replay(x, U) = z /\ z \in Shaped(x.order, x.leaf)
    BY <1>1, <2>1, OverlaidShape
  <2>3. Overlaid(z, v) = z
    BY OverlayTwice
  <2> HIDE DEF z
  <2>4. ASSUME NEW y \in Model, SameBase(y, z) PROVE Replay(y, U) = y
    <3>1. y \in Shaped(x.order, x.leaf)
      BY <2>2, <2>4 DEF SameBase, Shaped
    <3>2. /\ z.cell = [m \in Members |-> IF m \in v.D THEN v.cell[m] ELSE z.cell[m]]
          /\ z.pinned = (z.pinned \cup v.on) \ v.off
      BY <2>3 DEF Overlaid
    <3>3. Overlaid(y, v) = y
      BY <2>4, <3>2 DEF SameBase, Overlaid, Model
    <3> QED BY <2>1, <3>1, <3>3
  <2>5. z \in Model
    BY <2>2 DEF Shaped
  <2> QED BY <2>2, <2>4, <2>5
<1> QED BY <1>1, <1>2, <1>3, LogEffect

-----------------------------------------------------------------------------
(* Recovery reads the log up to its first torn record.                      *)

Logs == [hdr : BOOLEAN, units : Seq(Unit \cup {Torn})]

LEMMA TornIsNoUnit == Torn \notin Unit
<1>1. \A u \in CellUnits : u.op = "cells"
  BY DEF CellUnits, CellUnit
<1>2. \A u \in PinUnits : u.op = "pin"
  BY DEF PinUnits, PinUnit
<1>3. Torn.op = "torn"
  BY DEF Torn
<1> QED BY <1>1, <1>2, <1>3 DEF Unit

LEMMA IntactBounds ==
  ASSUME NEW units \in Seq(Unit \cup {Torn})
  PROVE  /\ IntactLen(units) \in 0 .. Len(units)
         /\ \A i \in 1 .. IntactLen(units) : units[i] # Torn
         /\ IntactLen(units) < Len(units) => units[IntactLen(units) + 1] = Torn
<1> DEFINE I == {i \in 1 .. Len(units) : units[i] = Torn}
<1>1. ToSet(units) = {units[i] : i \in 1 .. Len(units)}
  BY DEF ToSet
<1>2. CASE I = {}
  <2>1. IntactLen(units) = Len(units)
    BY <1>1, <1>2 DEF IntactLen
  <2>2. \A i \in 1 .. Len(units) : units[i] # Torn
    BY <1>2
  <2>3. Len(units) \in Nat
    OBVIOUS
  <2> HIDE DEF I
  <2> QED BY <2>1, <2>2, <2>3
<1>3. CASE I # {}
  <2>1. Torn \in ToSet(units)
    BY <1>1, <1>3
  <2>2. SelectInSeq(units, LAMBDA u : u = Torn) = Min(I)
    BY <1>3 DEF SelectInSeq
  <2>3. I \in SUBSET Nat
    OBVIOUS
  <2> HIDE DEF I
  <2>4. Min(I) \in I /\ \A n \in I : Min(I) <= n
    BY <1>3, <2>3, LeastNumber DEF Min
  <2>5. IntactLen(units) = Min(I) - 1
    BY <2>1, <2>2 DEF IntactLen
  <2> DEFINE m == Min(I)
  <2> HIDE DEF m
  <2>6. m \in 1 .. Len(units) /\ units[m] = Torn /\ \A i \in 1 .. m - 1 : units[i] # Torn
    <3>1. m \in I /\ \A n \in I : m <= n
      BY <2>4 DEF m
    <3>2. m \in 1 .. Len(units) /\ units[m] = Torn
      BY <3>1 DEF I
    <3>3. ASSUME NEW i \in 1 .. m - 1, units[i] = Torn PROVE FALSE
      <4>1. i \in I
        BY <3>2, <3>3 DEF I
      <4> QED BY <3>1, <3>2, <3>3, <4>1
    <3> QED BY <3>2, <3>3
  <2>7. IntactLen(units) = m - 1 /\ Len(units) \in Nat
    BY <2>5 DEF m
  <2> QED BY <2>6, <2>7
<1> QED BY <1>2, <1>3

LEMMA IntactUnits ==
  ASSUME NEW units \in Seq(Unit \cup {Torn})
  PROVE  /\ Intact(units) \in Seq(Unit)
         /\ Len(Intact(units)) = IntactLen(units)
         /\ \A i \in 1 .. IntactLen(units) : Intact(units)[i] = units[i]
<1> DEFINE n == IntactLen(units)
<1>1. n \in 0 .. Len(units) /\ \A i \in 1 .. n : units[i] \in Unit
  BY IntactBounds
<1> HIDE DEF n
<1>2. /\ SubSeq(units, 1, n) \in Seq(Unit)
      /\ Len(SubSeq(units, 1, n)) = n
      /\ \A i \in 1 .. n : SubSeq(units, 1, n)[i] = units[i]
  BY <1>1, SubSeqProperties
<1> QED BY <1>2 DEF n, Intact

\* The records of V, and torn ones after them.
TornAfter(units, V) ==
    /\ Len(V) <= Len(units)
    /\ \A i \in 1 .. Len(units) : units[i] = IF i <= Len(V) THEN V[i] ELSE Torn

LEMMA RecoverTorn ==
  ASSUME NEW w \in Logs, w.hdr, NEW V \in Seq(Unit), TornAfter(w.units, V)
  PROVE  \A s : Recover(s, w) = Replay(s, V)
<1> DEFINE U == w.units
           n == IntactLen(U)
<1>1. U \in Seq(Unit \cup {Torn})
  BY DEF Logs
<1> HIDE DEF U
<1>2. /\ n \in 0 .. Len(U)
      /\ \A i \in 1 .. n : U[i] # Torn
      /\ n < Len(U) => U[n + 1] = Torn
  BY <1>1, IntactBounds
<1> HIDE DEF n
<1>3. /\ Len(V) <= Len(U) /\ Len(V) \in Nat /\ Len(U) \in Nat
      /\ \A i \in 1 .. Len(U) : U[i] = IF i <= Len(V) THEN V[i] ELSE Torn
      /\ \A i \in 1 .. Len(V) : V[i] # Torn
  BY <1>1, TornIsNoUnit DEF TornAfter, U
<1>4. n = Len(V)
  <2>1. CASE n < Len(V)
    <3>1. n + 1 \in 1 .. Len(V) /\ n + 1 \in 1 .. Len(U) /\ n < Len(U)
      BY <1>2, <1>3, <2>1
    <3> QED BY <1>2, <1>3, <3>1
  <2>2. CASE n > Len(V)
    <3>1. n \in 1 .. n /\ n \in 1 .. Len(U) /\ ~(n <= Len(V))
      BY <1>2, <1>3, <2>2
    <3> QED BY <1>2, <1>3, <3>1
  <2> QED BY <1>2, <1>3, <2>1, <2>2
<1>5. ~Unreadable(w)
  BY <1>1, <1>3, <1>4 DEF Unreadable, n, U
<1>6. Intact(U) = V
  <2>1. /\ Intact(U) \in Seq(Unit) /\ Len(Intact(U)) = Len(V)
        /\ \A i \in 1 .. Len(V) : Intact(U)[i] = U[i]
    BY <1>1, <1>4, IntactUnits DEF n
  <2>2. \A i \in 1 .. Len(V) : Intact(U)[i] = V[i]
    BY <1>3, <2>1
  <2> QED BY <2>1, <2>2, SeqEqual
<1> QED BY <1>5, <1>6 DEF Recover, U

\* A log is refused whatever the snapshot, or replayed as its intact part.
LEMMA RecoverShape ==
  ASSUME NEW w \in Logs
  PROVE  /\ Intact(w.units) \in Seq(Unit)
         /\ \/ \A s : Recover(s, w) = NoModel
            \/ \A s : Recover(s, w) = Replay(s, Intact(w.units))
  BY IntactUnits DEF Recover, Logs

LEMMA RecoverIsIdempotent ==
  ASSUME NEW w \in Logs, NEW x \in Model
  PROVE  /\ Recover(x, w) \in Model \cup {NoModel}
         /\ Recover(x, w) \in Model =>
              \A y \in Model : SameBase(y, Recover(x, w)) => Recover(y, w) = y
  BY RecoverShape, ReplayIsIdempotent, NoModelAssumption

\* A whole log, alone and followed by one more unit, whole or torn.
LEMMA RecoverWhole ==
  ASSUME NEW w \in Logs, w.hdr, w.units \in Seq(Unit)
  PROVE  /\ \A s : Recover(s, w) = Replay(s, w.units)
         /\ \A u \in Unit : \A s :
              Recover(s, [w EXCEPT !.units = Append(@, u)]) = ReplayUnit(Recover(s, w), u)
<1> DEFINE V == w.units
<1>1. ASSUME NEW z \in Logs, z.hdr, z.units \in Seq(Unit), NEW s
      PROVE  Recover(s, z) = Replay(s, z.units)
  <2>1. TornAfter(z.units, z.units)
    BY <1>1 DEF TornAfter
  <2> QED BY <1>1, <2>1, RecoverTorn
<1>2. ASSUME NEW u \in Unit, NEW s
      PROVE  Recover(s, [w EXCEPT !.units = Append(@, u)]) = ReplayUnit(Recover(s, w), u)
  <2> DEFINE z == [w EXCEPT !.units = Append(@, u)]
  <2>1. Append(V, u) \in Seq(Unit) /\ Append(V, u) \in Seq(Unit \cup {Torn})
    OBVIOUS
  <2>2. z \in Logs /\ z.hdr /\ z.units = Append(V, u)
    BY <2>1 DEF Logs
  <2> HIDE DEF z
  <2>3. Recover(s, z) = Replay(s, Append(V, u))
    BY <1>1, <2>1, <2>2
  <2>4. Recover(s, w) = Replay(s, V)
    BY <1>1
  <2> QED BY <2>3, <2>4, ReplayAppend DEF z
<1> QED BY <1>1, <1>2

LEMMA RecoverEmpty ==
  /\ EmptyWal \in Logs /\ NoWal \in Logs
  /\ \A s : Recover(s, EmptyWal) = s /\ Recover(s, NoWal) = s
<1>1. EmptyWal \in Logs /\ NoWal \in Logs
  BY DEF EmptyWal, NoWal, Logs
<1>2. Intact(<<>>) = <<>> /\ IntactLen(<<>>) = 0
  <2>1. <<>> \in Seq(Unit \cup {Torn}) /\ Len(<<>>) = 0
    OBVIOUS
  <2>2. IntactLen(<<>>) = 0
    <3>1. IntactLen(<<>>) \in 0 .. Len(<<>>)
      BY <2>1, IntactBounds
    <3> QED BY <2>1, <3>1
  <2> QED BY <2>2 DEF Intact
<1>3. ~Unreadable(EmptyWal) /\ ~Unreadable(NoWal)
  BY DEF Unreadable, EmptyWal, NoWal
<1> QED BY <1>1, <1>2, <1>3, ReplayNone DEF Recover, EmptyWal, NoWal

\* What Store::open keeps of a log it can read recovers the same models.
LEMMA RecoverKept ==
  ASSUME NEW w \in Logs, ~Unreadable(w)
  PROVE  LET z == [hdr |-> TRUE, units |-> Intact(w.units)] IN
         /\ z \in Logs /\ z.units \in Seq(Unit)
         /\ \A s : Recover(s, z) = Recover(s, w)
<1> DEFINE z == [hdr |-> TRUE, units |-> Intact(w.units)]
<1>1. Intact(w.units) \in Seq(Unit) /\ Intact(w.units) \in Seq(Unit \cup {Torn})
  BY RecoverShape
<1>2. z \in Logs /\ z.hdr /\ z.units = Intact(w.units)
  BY <1>1 DEF Logs
<1> HIDE DEF z
<1>3. \A s : Recover(s, z) = Replay(s, Intact(w.units))
  BY <1>1, <1>2, RecoverWhole
<1> QED BY <1>1, <1>2, <1>3 DEF Recover, z

-----------------------------------------------------------------------------
(* Operations make models of models.                                        *)

LEMMA ApplyUnitModel ==
  ASSUME NEW x \in Model, NEW u \in Unit
  PROVE  ApplyUnit(x, u) \in Model \cup {NoModel}
<1>1. x.order \in Order /\ x \in Shaped(x.order, x.leaf)
  BY DEF Model, Shaped
<1>2. CASE \A y \in Shaped(x.order, x.leaf) : ApplyUnit(y, u) = NoModel
  BY <1>1, <1>2
<1>3. CASE \E v \in Overlays : \A y \in Shaped(x.order, x.leaf) : ApplyUnit(y, u) = Overlaid(y, v)
  <2>1. PICK v \in Overlays : \A y \in Shaped(x.order, x.leaf) : ApplyUnit(y, u) = Overlaid(y, v)
    BY <1>3
  <2>2. Overlaid(x, v) \in Shaped(x.order, x.leaf)
    BY <1>1, OverlaidShape
  <2> QED BY <1>1, <2>1, <2>2 DEF Shaped
<1> QED BY <1>1, <1>2, <1>3, UnitEffect

LEMMA UnitOfOperation ==
  ASSUME NEW o \in Operation, o.kind \in {"batch", "pin", "commitSandbox"}, NEW x \in Model
  PROVE  UnitOf(o, x) \in Unit
<1>1. CASE o.kind \in {"batch", "pin"}
  <2>1. o.unit \in CellUnits \cup PinUnits
    BY <1>1 DEF Operation, CommitSandbox, InvalidView, Checkpoint
  <2> QED BY <1>1, <2>1 DEF UnitOf, Unit
<1>2. CASE o.kind = "commitSandbox"
  <2> DEFINE P == {q \in Position : x.sandbox[x.order[q]] # NoValue}
  <2>1. \A p \in P : x.sandbox[x.order[p]] \in Values
    BY DEF Model, Order
  <2>2. [p \in P |-> x.sandbox[x.order[p]]] \in [P -> Values]
    BY <2>1
  <2>3. P \in SUBSET Position
    OBVIOUS
  <2>4. SandboxUnit(x) = CellUnit([p \in P |-> x.sandbox[x.order[p]]])
    BY DEF SandboxUnit
  <2> HIDE DEF P
  <2>5. [p \in P |-> x.sandbox[x.order[p]]] \in UNION {[Q -> Values] : Q \in SUBSET Position}
    BY <2>2, <2>3
  <2>6. SandboxUnit(x) \in CellUnits
    BY <2>4, <2>5 DEF CellUnits
  <2> QED BY <1>2, <2>6 DEF UnitOf, Unit
<1> QED BY <1>1, <1>2

\* Other leaves, cells and overrides make another model.
LEMMA EditedModel ==
  ASSUME NEW x \in Model, NEW m, NEW c \in [Members -> Values],
         NEW s \in [Members -> Values \cup {NoValue}]
  PROVE  [x EXCEPT !.leaf = x.leaf \ {m}, !.cell = c, !.sandbox = s] \in Model
BY DEF Model

\* A change to the sandbox leaves the rest of the model as it was.
LEMMA DefinedModel ==
  ASSUME NEW o \in Operation, o.kind \in {"sandboxSet", "commitSandbox", "view", "edit"},
         NEW x \in Model
  PROVE  /\ Defined(o, x) \in Model \cup {NoModel}
         /\ o.kind # "edit" /\ Defined(o, x) # NoModel => SameBase(Defined(o, x), x)
         /\ o.kind = "commitSandbox" => Defined(o, x) # NoModel
<1>1. CASE o.kind = "sandboxSet"
  <2>1. o.member \in Members /\ o.value \in Values
    BY <1>1 DEF Operation, CommitSandbox, InvalidView, Checkpoint
  <2>2. Defined(o, x) = SandboxSet(x, o.member, o.value)
    BY <1>1 DEF Defined
  <2> QED BY <1>1, <2>1, <2>2 DEF SandboxSet, Model, SameBase
<1>2. CASE o.kind = "commitSandbox"
  <2>1. Defined(o, x) = SandboxClear(x)
    BY <1>2 DEF Defined
  <2>2. SandboxClear(x) \in Model /\ SameBase(SandboxClear(x), x)
    BY DEF SandboxClear, Model, SameBase
  <2> QED BY <2>1, <2>2, NoModelAssumption
<1>3. CASE o.kind = "view"
  BY <1>3 DEF Defined
<1>4. CASE o.kind = "edit"
  <2>1. \/ o.edit \in {"consolidate", "leaf", "invalid"} /\ o.arg \in Members
        \/ o.edit = "reorder" /\ o.arg \in Order
    BY <1>4 DEF Operation, CommitSandbox, InvalidView, Checkpoint
  <2>2. CASE o.edit = "consolidate"
    <3>1. Defined(o, x) = Consolidate(x, o.arg)
      BY <1>4, <2>2 DEF Defined
    <3>2. /\ o.arg \in Members
          /\ [x.cell EXCEPT ![o.arg] = Empty] \in [Members -> Values]
          /\ [x.sandbox EXCEPT ![o.arg] = NoValue] \in [Members -> Values \cup {NoValue}]
      BY <1>4, <2>1, <2>2, CubeModelAssumption DEF Model
    <3>3. Consolidate(x, o.arg) =
            [x EXCEPT !.leaf = x.leaf \ {o.arg}, !.cell = [x.cell EXCEPT ![o.arg] = Empty],
                      !.sandbox = [x.sandbox EXCEPT ![o.arg] = NoValue]]
      BY DEF Consolidate, Model
    <3>4. Consolidate(x, o.arg) \in Model
      <4> DEFINE c == [x.cell EXCEPT ![o.arg] = Empty]
                 s == [x.sandbox EXCEPT ![o.arg] = NoValue]
      <4>1. c \in [Members -> Values] /\ s \in [Members -> Values \cup {NoValue}]
        BY <3>2
      <4>2. Consolidate(x, o.arg) = [x EXCEPT !.leaf = x.leaf \ {o.arg}, !.cell = c, !.sandbox = s]
        BY <3>3
      <4> HIDE DEF c, s
      <4>3. [x EXCEPT !.leaf = x.leaf \ {o.arg}, !.cell = c, !.sandbox = s] \in Model
        BY <4>1, EditedModel
      <4> QED BY <4>2, <4>3
    <3> QED BY <1>4, <3>1, <3>4
  <2>3. CASE o.edit = "leaf"
    <3>1. Defined(o, x) = MakeLeaf(x, o.arg)
      BY <1>4, <2>3 DEF Defined
    <3> QED BY <1>4, <2>1, <2>3, <3>1 DEF MakeLeaf, Model
  <2>4. CASE o.edit = "reorder"
    <3>1. Defined(o, x) = Reorder(x, o.arg)
      BY <1>4, <2>4 DEF Defined
    <3> QED BY <1>4, <2>1, <2>4, <3>1 DEF Reorder, Model
  <2>5. CASE o.edit = "invalid"
    BY <1>4, <2>5 DEF Defined
  <2> QED BY <1>4, <2>1, <2>2, <2>3, <2>4, <2>5
<1> QED BY <1>1, <1>2, <1>3, <1>4

LEMMA OutcomesModels ==
  ASSUME NEW o \in Operation, NEW x \in Model
  PROVE  Outcomes(o, x) \subseteq Model
<1> DEFINE batched == IF o.kind \in {"batch", "pin", "commitSandbox"}
                      THEN ApplyUnit(x, UnitOf(o, x)) ELSE x
<1>1. batched \in Model \cup {NoModel}
  BY UnitOfOperation, ApplyUnitModel
<1> HIDE DEF batched
<1>2. batched # NoModel /\ o.kind \in {"sandboxSet", "commitSandbox", "view", "edit"} =>
        Defined(o, batched) \in Model \cup {NoModel}
  BY <1>1, DefinedModel
<1>3. Outcomes(o, x) = {batched,
        IF o.kind \in {"sandboxSet", "commitSandbox", "view", "edit"} /\ batched # NoModel
        THEN Defined(o, batched) ELSE batched} \ {NoModel}
  BY DEF Outcomes, batched
<1> QED BY <1>1, <1>2, <1>3

-----------------------------------------------------------------------------
(* Appending to a whole log, and cutting it to a length again.              *)

CutTo(w, n) ==
    [ hdr   |-> w.hdr,
      units |-> IF Len(w.units) >= n THEN SubSeq(w.units, 1, n) ELSE Append(w.units, Torn) ]


LEMMA CutIsExcept ==
  ASSUME NEW w \in Logs, NEW n
  PROVE  CutTo(w, n) =
           [w EXCEPT !.units = IF Len(@) >= n THEN SubSeq(@, 1, n) ELSE Append(@, Torn)]
<1> DEFINE units == IF Len(w.units) >= n THEN SubSeq(w.units, 1, n) ELSE Append(w.units, Torn)
<1>1. CutTo(w, n) = [hdr |-> w.hdr, units |-> units]
  BY DEF CutTo
<1>2. [w EXCEPT !.units = units] = [hdr |-> w.hdr, units |-> units]
  <2> HIDE DEF units
  <2> QED BY DEF Logs
<1> QED BY <1>1, <1>2, Zenon

\* A cut that keeps the records of V leaves nothing but torn ones after them.
LEMMA CutKeeps ==
  ASSUME NEW z \in Logs, z.hdr, NEW V \in Seq(Unit), TornAfter(z.units, V),
         NEW n \in Nat, n >= Len(V)
  PROVE  CutTo(z, n) \in Logs /\ \A s : Recover(s, CutTo(z, n)) = Replay(s, V)
<1> DEFINE U == z.units
           W == IF Len(U) >= n THEN SubSeq(U, 1, n) ELSE Append(U, Torn)
<1>1. U \in Seq(Unit \cup {Torn}) /\ Len(U) \in Nat /\ Len(V) \in Nat
  BY DEF Logs
<1>2. /\ Len(V) <= Len(U)
      /\ \A i \in 1 .. Len(U) : U[i] = IF i <= Len(V) THEN V[i] ELSE Torn
  BY DEF TornAfter
<1>3. CutTo(z, n).hdr /\ CutTo(z, n).units = W /\ CutTo(z, n) = [hdr |-> z.hdr, units |-> W]
  BY DEF CutTo
<1> HIDE DEF U
<1>4. W \in Seq(Unit \cup {Torn}) /\ TornAfter(W, V)
  <2>1. CASE Len(U) >= n
    <3>1. /\ W = SubSeq(U, 1, n) /\ W \in Seq(Unit \cup {Torn}) /\ Len(W) = n
          /\ \A i \in 1 .. n : W[i] = U[i]
      BY <1>1, <2>1
    <3> HIDE DEF W
    <3> QED BY <1>1, <1>2, <2>1, <3>1 DEF TornAfter
  <2>2. CASE ~(Len(U) >= n)
    <3>1. /\ W = Append(U, Torn) /\ W \in Seq(Unit \cup {Torn}) /\ Len(W) = Len(U) + 1
          /\ W[Len(U) + 1] = Torn
          /\ \A i \in 1 .. Len(U) : W[i] = U[i]
      BY <1>1, <2>2
    <3> HIDE DEF W
    <3>2. ASSUME NEW i \in 1 .. Len(W) PROVE W[i] = IF i <= Len(V) THEN V[i] ELSE Torn
      <4>1. CASE i = Len(U) + 1
        BY <1>1, <1>2, <3>1, <4>1
      <4>2. CASE i # Len(U) + 1
        <5>1. i \in 1 .. Len(U)
          BY <1>1, <3>1, <4>2
        <5> QED BY <1>2, <3>1, <5>1
      <4> QED BY <4>1, <4>2
    <3> QED BY <1>1, <1>2, <3>1, <3>2 DEF TornAfter
  <2> QED BY <2>1, <2>2
<1> HIDE DEF W
<1>5. CutTo(z, n) \in Logs /\ CutTo(z, n).hdr /\ CutTo(z, n).units = W
  BY <1>3, <1>4 DEF Logs
<1> QED BY <1>4, <1>5, RecoverTorn

\* A torn record appended to a whole log, and the log cut to its length or
\* more with or without it, recover what the log does.
LEMMA TornAppend ==
  ASSUME NEW w \in Logs, w.hdr, w.units \in Seq(Unit), NEW n \in Nat, n >= Len(w.units),
         NEW torn, torn = [w EXCEPT !.units = Append(@, Torn)]
  PROVE  /\ torn \in Logs /\ CutTo(w, n) \in Logs /\ CutTo(torn, n) \in Logs
         /\ \A s : /\ Recover(s, torn) = Recover(s, w)
                   /\ Recover(s, CutTo(w, n)) = Recover(s, w)
                   /\ Recover(s, CutTo(torn, n)) = Recover(s, w)
<1> DEFINE U == w.units
<1>1. /\ Append(U, Torn) \in Seq(Unit \cup {Torn}) /\ Len(Append(U, Torn)) = Len(U) + 1
      /\ \A i \in 1 .. Len(U) : Append(U, Torn)[i] = U[i]
      /\ Append(U, Torn)[Len(U) + 1] = Torn /\ Len(U) \in Nat
  OBVIOUS
<1>2. torn \in Logs /\ torn.hdr /\ torn.units = Append(U, Torn)
  BY <1>1 DEF Logs
<1>3. TornAfter(U, U)
  BY DEF TornAfter
<1>4. TornAfter(torn.units, U)
  <2> DEFINE T == torn.units
  <2>1. /\ Len(T) = Len(U) + 1 /\ Len(U) \in Nat /\ T[Len(U) + 1] = Torn
        /\ \A i \in 1 .. Len(U) : T[i] = U[i]
    BY <1>1, <1>2
  <2> HIDE DEF T, U
  <2>2. \A i \in 1 .. Len(T) : T[i] = IF i <= Len(U) THEN U[i] ELSE Torn
    <3> SUFFICES ASSUME NEW i \in 1 .. Len(T)
                 PROVE  T[i] = IF i <= Len(U) THEN U[i] ELSE Torn
      OBVIOUS
    <3>1. i = Len(U) + 1 \/ i \in 1 .. Len(U)
      BY <2>1
    <3> QED BY <2>1, <3>1
  <2>3. TornAfter(T, U)
    BY <2>1, <2>2 DEF TornAfter
  <2> QED BY <2>3 DEF T
<1>5. \A s : Recover(s, w) = Replay(s, U) /\ Recover(s, torn) = Replay(s, U)
  BY ZenonT(40), <1>2, <1>3, <1>4, RecoverTorn
<1>6. /\ CutTo(w, n) \in Logs /\ \A s : Recover(s, CutTo(w, n)) = Replay(s, U)
      /\ CutTo(torn, n) \in Logs /\ \A s : Recover(s, CutTo(torn, n)) = Replay(s, U)
  BY <1>2, <1>3, <1>4, CutKeeps
<1> QED BY <1>2, <1>5, <1>6

\* A whole record appended to a whole log, and then the log cut to what it was
\* or more, recover what the log does, with the record or without.
LEMMA WholeAppend ==
  ASSUME NEW w \in Logs, w.hdr, w.units \in Seq(Unit), NEW n \in Nat, n >= Len(w.units),
         NEW u \in Unit, NEW more, more = [w EXCEPT !.units = Append(@, u)]
  PROVE  /\ more \in Logs /\ more.hdr /\ more.units \in Seq(Unit) /\ n + 1 >= Len(more.units)
         /\ CutTo(more, n) \in Logs
         /\ \A s : /\ Recover(s, more) = ReplayUnit(Recover(s, w), u)
                   /\ Recover(s, CutTo(more, n)) \in {Recover(s, w), Recover(s, more)}
<1> DEFINE U == w.units
           V == Append(U, u)
<1>1. /\ V \in Seq(Unit) /\ V \in Seq(Unit \cup {Torn}) /\ Len(V) = Len(U) + 1
      /\ \A i \in 1 .. Len(U) : V[i] = U[i]
      /\ Len(U) \in Nat /\ U \in Seq(Unit) /\ n >= Len(U)
  OBVIOUS
<1>2. more \in Logs /\ more.hdr /\ more.units = V /\ more = [hdr |-> w.hdr, units |-> V]
  BY <1>1 DEF Logs
<1>3. \A s : Recover(s, more) = ReplayUnit(Recover(s, w), u)
  BY RecoverWhole
<1>4. w = [hdr |-> w.hdr, units |-> U]
  BY DEF Logs
<1>5. \A s : Recover(s, w) = Replay(s, U) /\ Recover(s, more) = Replay(s, V)
  BY <1>1, <1>2, RecoverWhole
<1> HIDE DEF U, V
<1>6. n + 1 >= Len(more.units) /\ more.units \in Seq(Unit)
  BY <1>1, <1>2
<1>7. CASE n >= Len(V)
  <2>1. TornAfter(V, V)
    BY <1>1 DEF TornAfter
  <2>2. CutTo(more, n) \in Logs /\ \A s : Recover(s, CutTo(more, n)) = Replay(s, V)
    BY ZenonT(40), <1>1, <1>2, <1>7, <2>1, CutKeeps
  <2> QED BY ZenonT(40), <1>2, <1>3, <1>5, <1>6, <2>2
<1>8. CASE n = Len(U)
  <2>1. /\ SubSeq(V, 1, n) \in Seq(Unit) /\ Len(SubSeq(V, 1, n)) = n
        /\ \A i \in 1 .. n : SubSeq(V, 1, n)[i] = V[i]
    BY <1>1, <1>8
  <2>2. SubSeq(V, 1, n) = U
    BY <1>1, <1>8, <2>1, SeqEqual
  <2>3. Len(V) >= n
    BY <1>1, <1>8
  <2>4. CutTo(more, n) = [hdr |-> w.hdr, units |-> U]
    BY <1>2, <2>2, <2>3 DEF CutTo
  <2> QED BY <1>2, <1>3, <1>4, <1>6, <2>4
<1>9. n >= Len(V) \/ n = Len(U)
  BY <1>1
<1> QED BY <1>7, <1>8, <1>9

-----------------------------------------------------------------------------
(* What is published is what a crash recovers.                              *)

\* What the store needs to keep its promise.  Every change that reaches the
\* log is published (CubeEngine_proofs); and an explicit checkpoint, whose
\* failure stops nobody, cannot fail between truncating the log and writing
\* its header, where later appends would go to a log recovery refuses.
Recoverable ==
    /\ NothingUnpublished
    /\ "header" \notin Faults \/ \A o \in Ops : o.kind # "checkpoint"

-----------------------------------------------------------------------------
(* The inductive invariant.                                                 *)

\* Every recovery from these snapshots and logs is one of these models.
Gives(S, L, T) == \A s \in S, w \in L : Recover(s, w) \in T

Owed == doubt \cup pending
\* The snapshots a crash may leave, and the one a repair would write.
Base == snapDisk \cup {pub}

TypeInv ==
    /\ snapDisk \subseteq Model /\ snap \in snapDisk
    /\ walDisk \subseteq Logs /\ wal \in walDisk
    /\ good \in Nat /\ poisoned \in BOOLEAN
    /\ mem \in Model \cup {NoModel} /\ staged \in Model \cup {NoModel}
    /\ pub \in Model /\ doubt \subseteq Model /\ pending \subseteq Model
    /\ op \in Operation \cup {NoOp, Repair}
    /\ io \in {"idle", "down", "start", "done"} \cup Appending \cup Checkpointing
    /\ io # "down" => mem \in Model
    /\ io \in Checkpointing <=> staged # NoModel
    /\ io \in {"idle", "down", "done"} => todo = <<>>
    /\ ~IsClientOp => pending = {}
    /\ op.kind = "checkpoint" => "header" \notin Faults

\* A client's operation started from the published model.
ClientInv == IsClientOp => FromModel(pub) /\ Outcomes(op, pub) \subseteq pending

\* A crash leaves what readers see or what an unanswered change made of it.
CrashInv ==
    /\ Gives(Base, walDisk, Owed)
    /\ io = "down" => doubt = {pub}

\* After a failed append nothing is written until the store is reopened.
PoisonInv ==
    poisoned =>
      /\ io \in {"idle", "start", "done"}
      /\ io = "start" => ~AutoLeft
      /\ io = "done" => result \in {"Io", "Poisoned"}
      /\ Gives(Base, walDisk,
               doubt \cup (IF io = "done" /\ result = "Io" THEN pending ELSE {}))

\* What is on disk is what is in memory, whatever a crash makes of the files.
Exact == Gives(snapDisk, walDisk, {mem})

\* The log has whole records only and good_len is not short of it.
Tidy == wal.hdr /\ wal.units \in Seq(Unit) /\ good >= Len(wal.units)

Settled == \/ io = "idle" /\ ~failStopped /\ ~lockPoisoned
           \/ io = "done" /\ IsClientOp /\ result \in {"ok", "Rejected"}
           \/ io = "done" /\ ~IsClientOp /\ result = "ok"
           \/ io = "start" /\ IsClientOp

Matched == \/ Settled
           \/ io = "snapshot" /\ IsClientOp
           \/ op.kind = "checkpoint" /\ ~failStopped

Ordered == \/ Settled
           \/ op.kind = "checkpoint" /\ ~failStopped /\ io # "header"

ExactInv ==
    ~poisoned =>
      /\ Matched => Exact
      /\ Ordered => Tidy
      /\ io = "done" => /\ result \in {"ok", "Rejected", "Io"}
                        /\ op.kind = "batch" => result # "Io"
                        /\ result = "Rejected" => mem = pub

\* While a unit is appended, with and without it the log recovers.
AppendInv ==
    /\ io = "write" => Gives(Base, walDisk, {pub}) /\ Tidy
    /\ io \in {"sync", "rollback"} =>
         Resized(good) \in Logs /\ Gives(Base, {Resized(good)}, Owed)
    /\ io = "sync" => /\ Gives(Base, {wal}, {Batched(op, pub)})
                      /\ wal.hdr /\ wal.units \in Seq(Unit) /\ good + 1 >= Len(wal.units)

\* While a model is checkpointed, it is owed, with the old log and without.
StageInv ==
    /\ io \in Checkpointing => staged \in Owed
    /\ io = "snapshot" => Gives({staged}, walDisk, Owed)
    /\ io = "dirsync" => snap = staged
    /\ io \in {"truncate", "header", "walsync"} => snapDisk = {staged}
    /\ io = "header" => wal = NoWal
    /\ io = "walsync" => wal = EmptyWal
    /\ AutoLeft /\ io \in Checkpointing => Faults \cap Checkpointing = {}
    /\ ~poisoned /\ op.kind = "edit" /\ io = "start" /\ DefineLeft => walDisk = {EmptyWal}

DInv == /\ TypeInv /\ ClientInv /\ CrashInv /\ PoisonInv /\ ExactInv
        /\ AppendInv /\ StageInv

\* Everything a step starts from.
AllInv == Recoverable /\ IInv /\ MemInv /\ DInv

-----------------------------------------------------------------------------
(* Recovery from what is on disk.                                           *)

\* When every recovery is one model, replaying the logs over it, or over what
\* a change of the sandbox makes of it, changes nothing.
LEMMA Settles ==
  ASSUME TypeInv, NEW m \in Model, Gives(snapDisk, walDisk, {m})
  PROVE  /\ \A y \in Model : SameBase(y, m) => Gives({y}, walDisk, {y})
         /\ Gives({m}, walDisk, {m})
<1>1. ASSUME NEW y \in Model, SameBase(y, m), NEW w \in walDisk PROVE Recover(y, w) = y
  <2>1. w \in Logs /\ snap \in Model /\ Recover(snap, w) = m
    BY DEF TypeInv, Gives
  <2> QED BY <1>1, <2>1, RecoverIsIdempotent
<1>2. SameBase(m, m)
  BY DEF SameBase
<1> QED BY <1>1, <1>2 DEF Gives

\* The steps of the store keep the model a client's operation started from.
LEMMA StoreClientInv ==
  ASSUME AllInv, StoreStep, UNCHANGED engineVars
  PROVE  ClientInv'
<1>1. Moves
  BY StoreMoves DEF AllInv, IInv
<1>2. pub # NoModel /\ mem # NoModel
  BY <1>1, NoModelAssumption DEF AllInv, DInv, TypeInv, Moves, Resting, IInv, OwedInv
<1>3. IsClientOp' <=> IsClientOp
  BY <1>1 DEF Moves, IsClientOp
<1> SUFFICES ASSUME IsClientOp PROVE FromModel(pub)' /\ Outcomes(op, pub)' \subseteq pending'
  BY <1>3 DEF ClientInv
<1>4. FromModel(pub) /\ Outcomes(op, pub) \subseteq pending
  BY DEF AllInv, DInv, ClientInv
<1>5. \A d : d = pub => FromModel(d)'
  BY <1>1, <1>2, <1>4 DEF Moves
<1>6. pub' = pub /\ pending' = pending /\ op' = op
  BY <1>1 DEF Moves, engineVars
<1>7. FromModel(pub)' /\ Outcomes(op', pub') \subseteq pending'
  BY <1>4, <1>5, <1>6 DEF FromModel
<1> QED BY <1>7

\* What a client's operation starts a stage with.
LEMMA ClientStage ==
  ASSUME AllInv, IsClientOp
  PROVE  /\ InStage("append") => AppendLeft /\ mem = pub
         /\ InStage("auto") => AutoLeft /\ mem = Batched(op, pub)
         /\ InStage("checkpoint") => FlushLeft /\ mem = pub
         /\ InStage("define") => DefineLeft /\ mem = Batched(op, pub)
  BY StageOf DEF AllInv, DInv, ClientInv

-----------------------------------------------------------------------------
(* Steps of an append.                                                      *)

\* A step that leaves the files and what is owed alone.
StillDisk == UNCHANGED <<snap, snapDisk, wal, walDisk, good, poisoned, pub, doubt, pending>>

LEMMA StillCrashInv ==
  ASSUME DInv, StillDisk, io \notin {"down"}, io' \notin {"down"}
  PROVE  CrashInv'
  BY DEF DInv, CrashInv, StillDisk, Gives, Base, Owed

LEMMA StartAppendDInv == ASSUME AllInv, StartAppend, UNCHANGED engineVars PROVE DInv'
<1> USE DEF AllInv
<1>1. /\ io = "start" /\ op' = op /\ StillDisk
      /\ UNCHANGED <<failStopped, lockPoisoned>>
  BY DEF StartAppend, InStage, Step, Fail, diskVars, engineVars, StillDisk
<1>2. IsClientOp /\ IsClientOp'
  BY <1>1, Kinds, CheckpointStage DEF StartAppend, Resting, IInv, IsClientOp
<1>3. AppendLeft /\ mem = pub /\ mem \in Model
  BY <1>1, <1>2, ClientStage DEF StartAppend, DInv, TypeInv
<1>4. HasBatch(op) /\ op \in Operation /\ op.kind \in {"batch", "pin", "commitSandbox"}
  BY <1>2, <1>3
  DEF AppendLeft, HasBatch, DInv, TypeInv, IsClientOp, ClientKinds, NoOp, Repair
<1> DEFINE b == ApplyUnit(mem, UnitOf(op, mem))
<1>5. b \in Model \cup {NoModel}
  BY <1>3, <1>4, UnitOfOperation, ApplyUnitModel
<1>6. \/ /\ io' = "write" /\ todo' = todo /\ result' = result /\ staged' = staged
         /\ b # NoModel /\ ~poisoned
         /\ mem' = IF op.kind = "pin" THEN b ELSE mem
      \/ /\ io' = "done" /\ todo' = <<>> /\ staged' = NoModel /\ mem' = mem
         /\ \/ result' = "Poisoned" /\ poisoned
            \/ result' = "Rejected" /\ ~poisoned
  BY <1>1 DEF StartAppend, Step, Fail
<1> HIDE DEF b
<1>7. TypeInv'
  BY <1>1, <1>2, <1>3, <1>5, <1>6
  DEF DInv, TypeInv, StillDisk, Appending, Checkpointing
<1>8. ClientInv'
  BY StoreClientInv DEF StoreStep
<1>9. CrashInv'
  BY <1>1, <1>6, StillCrashInv
<1>10. PoisonInv'
  BY <1>1, <1>6 DEF DInv, PoisonInv, StillDisk, Gives, Base
<1>11. ~poisoned => Exact /\ Tidy
  BY <1>1, <1>2 DEF DInv, ExactInv, Matched, Ordered, Settled
<1>12. ExactInv'
  <2>1. CASE io' = "write"
    BY <1>1, <1>2, <2>1 DEF ExactInv, Matched, Ordered, Settled, IsClientOp, ClientKinds
  <2>2. CASE io' = "done"
    <3>1. mem' = mem /\ (~poisoned' => result' = "Rejected")
      BY <1>1, <1>6, <2>2 DEF StillDisk
    <3> QED BY <1>1, <1>3, <1>11, <2>2, <3>1 DEF ExactInv, Exact, Tidy, StillDisk, Gives
  <2> QED BY <1>6, <2>1, <2>2
<1>13. AppendInv'
  <2>1. CASE io' = "write"
    <3>1. Gives(Base, walDisk, {pub}) /\ Tidy
      BY <1>3, <1>6, <1>11, <2>1, Settles DEF DInv, Exact, Gives, Base
    <3> QED BY <1>1, <2>1, <3>1 DEF AppendInv, StillDisk, Gives, Base, Tidy
  <2>2. CASE io' = "done"
    BY <2>2 DEF AppendInv
  <2> QED BY <1>6, <2>1, <2>2
<1>14. StageInv'
  BY <1>1, <1>6 DEF StageInv, Checkpointing
<1> QED BY <1>7, <1>8, <1>9, <1>10, <1>12, <1>13, <1>14 DEF DInv

\* The model a unit being appended is applied to, and what it makes of it.
LEMMA Appended ==
  ASSUME AllInv, io \in Appending
  PROVE  LET unit == UnitOf(op, mem) IN
         /\ IsClientOp /\ AppendLeft
         /\ unit \in Unit /\ Batched(op, pub) = ApplyUnit(pub, unit)
         /\ Batched(op, pub) \in Model /\ Batched(op, pub) \in pending
         /\ mem = IF op.kind = "pin" THEN Batched(op, pub) ELSE pub
<1> USE DEF AllInv
<1>1. IsClientOp
  BY Kinds DEF IInv, OpInv, Appending, Checkpointing, Resting, IsClientOp
<1>2. /\ AppendLeft /\ Batched(op, pub) # NoModel
      /\ mem = IF op.kind = "pin" THEN Batched(op, pub) ELSE pub
      /\ Outcomes(op, pub) \subseteq pending
  BY <1>1 DEF DInv, ClientInv, FromModel, Appending, Checkpointing
<1>3. HasBatch(op) /\ op \in Operation /\ op.kind \in {"batch", "pin", "commitSandbox"}
  BY <1>1, <1>2 DEF AppendLeft, HasBatch, DInv, TypeInv, IsClientOp, ClientKinds, NoOp, Repair
<1>4. UnitOf(op, mem) = UnitOf(op, pub)
  BY <1>2, <1>3 DEF UnitOf
<1>5. UnitOf(op, pub) \in Unit /\ pub \in Model
  BY <1>3, UnitOfOperation DEF DInv, TypeInv
<1>6. Batched(op, pub) = ApplyUnit(pub, UnitOf(op, mem))
  BY <1>3, <1>4 DEF Batched
<1>7. Batched(op, pub) \in Model
  BY <1>2, <1>4, <1>5, <1>6, ApplyUnitModel
<1>8. Batched(op, pub) \in Outcomes(op, pub)
  BY <1>2, AreOutcomes
<1> QED BY <1>1, <1>2, <1>4, <1>5, <1>6, <1>7, <1>8

LEMMA WriteDInv == ASSUME AllInv, Write, UNCHANGED engineVars PROVE DInv'
<1> USE DEF AllInv
<1> DEFINE unit == UnitOf(op, mem)
           b == Batched(op, pub)
           torn == WithUnit(Torn)
           more == WithUnit(unit)
<1>1. /\ io = "write" /\ op' = op /\ todo' = todo /\ result' = result /\ staged' = staged
      /\ mem' = mem /\ good' = good /\ poisoned' = poisoned /\ snap' = snap
      /\ snapDisk' = snapDisk /\ pub' = pub /\ doubt' = doubt /\ pending' = pending
      /\ failStopped' = failStopped /\ lockPoisoned' = lockPoisoned
  BY DEF Write, At, Step, engineVars
<1>2. /\ IsClientOp /\ IsClientOp' /\ unit \in Unit /\ b = ApplyUnit(pub, unit)
      /\ b \in Model /\ b \in pending
  BY <1>1, Appended DEF Appending, IsClientOp
<1>3. /\ \/ wal' = more /\ walDisk' = walDisk \cup {torn, more} /\ io' = "sync"
         \/ wal' \in {wal, torn} /\ walDisk' = walDisk \cup {wal'} /\ io' = "rollback"
  BY DEF Write, Step
<1>4. /\ wal \in Logs /\ wal.hdr /\ wal.units \in Seq(Unit) /\ good >= Len(wal.units)
      /\ good \in Nat /\ wal \in walDisk
      /\ Gives(Base, walDisk, {pub})
  BY <1>1 DEF DInv, AppendInv, Tidy, TypeInv
<1>5. \A s \in Base : Recover(s, wal) = pub
  BY <1>4 DEF Gives
<1>6. /\ torn \in Logs /\ CutTo(wal, good) \in Logs /\ CutTo(torn, good) \in Logs
      /\ \A s : /\ Recover(s, torn) = Recover(s, wal)
                /\ Recover(s, CutTo(wal, good)) = Recover(s, wal)
                /\ Recover(s, CutTo(torn, good)) = Recover(s, wal)
  BY SMTT(30), <1>4, TornAppend DEF WithUnit
<1>7. /\ more \in Logs /\ more.hdr /\ more.units \in Seq(Unit) /\ good + 1 >= Len(more.units)
      /\ CutTo(more, good) \in Logs
      /\ \A s : /\ Recover(s, more) = ReplayUnit(Recover(s, wal), unit)
                /\ Recover(s, CutTo(more, good)) \in {Recover(s, wal), Recover(s, more)}
  BY <1>2, <1>4, WholeAppend DEF WithUnit
<1> HIDE DEF torn, more, unit, b
<1>8. ReplayUnit(pub, unit) = b /\ pub \in doubt
  BY <1>2, NoModelAssumption DEF ReplayUnit, DInv, TypeInv, IInv, OwedInv
<1>9. \A s \in Base : /\ Recover(s, torn) = pub
                      /\ Recover(s, more) = b
                      /\ Recover(s, CutTo(wal, good)) = pub
                      /\ Recover(s, CutTo(torn, good)) = pub
                      /\ Recover(s, CutTo(more, good)) \in {pub, b}
  BY <1>5, <1>6, <1>7, <1>8
<1>10. wal' \in {wal, torn, more} /\ wal' \in Logs
       /\ walDisk' \subseteq walDisk \cup {torn, more} /\ wal' \in walDisk'
       /\ walDisk' \subseteq Logs
  BY <1>3, <1>4, <1>6, <1>7 DEF DInv, TypeInv
<1>11. TypeInv'
  BY <1>1, <1>2, <1>3, <1>10 DEF DInv, TypeInv, Appending, Checkpointing
<1>12. ClientInv'
  BY StoreClientInv DEF StoreStep
<1>13. Base' = Base /\ Owed' = Owed
  BY <1>1 DEF Base, Owed
<1>14. CrashInv'
  BY <1>1, <1>2, <1>3, <1>4, <1>8, <1>9, <1>10, <1>13 DEF CrashInv, Gives, Owed
<1>15. ~poisoned
  BY <1>1 DEF DInv, PoisonInv
<1>16. PoisonInv' /\ ExactInv'
  BY <1>1, <1>2, <1>3, <1>15
  DEF PoisonInv, ExactInv, Matched, Ordered, Settled, IsClientOp, ClientKinds
<1>17. AppendInv'
  <2>1. Resized(good)' = CutTo(wal', good)
    BY <1>1, <1>10, CutIsExcept DEF Resized
  <2>2. Resized(good)' \in Logs /\ Gives(Base', {Resized(good)'}, Owed')
    BY <1>2, <1>6, <1>7, <1>8, <1>9, <1>10, <1>13, <2>1 DEF Gives, Owed
  <2>3. CASE io' = "rollback"
    BY <2>2, <2>3 DEF AppendInv, Gives, Base, Owed
  <2>4. CASE io' = "sync"
    <3>1. wal' = more
      BY <1>3, <2>4
    <3>2. Batched(op, pub)' = b
      BY <1>1 DEF Batched, b, HasBatch, UnitOf, SandboxUnit, ApplyUnit
    <3>3. Gives(Base', {wal'}, {Batched(op, pub)'})
      BY <1>9, <1>13, <3>1, <3>2 DEF Gives
    <3>4. wal'.hdr /\ wal'.units \in Seq(Unit) /\ good' + 1 >= Len(wal'.units)
      BY <1>1, <1>7, <3>1
    <3> QED BY <2>2, <2>4, <3>3, <3>4 DEF AppendInv, Gives, Base, Owed
  <2> QED BY <1>3, <2>3, <2>4
<1>18. StageInv'
  BY <1>3 DEF StageInv, Checkpointing
<1> QED BY <1>11, <1>12, <1>14, <1>16, <1>17, <1>18 DEF DInv

LEMMA SyncDInv == ASSUME AllInv, Sync, UNCHANGED engineVars PROVE DInv'
<1> USE DEF AllInv
<1> DEFINE b == Batched(op, pub)
<1>1. /\ io = "sync" /\ op' = op /\ staged' = staged /\ wal' = wal
      /\ poisoned' = poisoned /\ snap' = snap
      /\ snapDisk' = snapDisk /\ pub' = pub /\ doubt' = doubt /\ pending' = pending
      /\ failStopped' = failStopped /\ lockPoisoned' = lockPoisoned
  BY DEF Sync, At, Step, NextStage, engineVars
<1>2. /\ IsClientOp /\ IsClientOp' /\ AppendLeft
      /\ b = ApplyUnit(pub, UnitOf(op, mem)) /\ b \in Model /\ b \in pending
      /\ mem = IF op.kind = "pin" THEN b ELSE pub
  BY <1>1, Appended DEF Appending, IsClientOp
<1>3. \/ /\ walDisk' = {wal} /\ good' = good + 1 /\ NextStage
         /\ mem' = IF op.kind = "pin" THEN mem ELSE ApplyUnit(mem, UnitOf(op, mem))
      \/ /\ walDisk' = walDisk /\ good' = good /\ mem' = mem
         /\ io' = "rollback" /\ todo' = todo /\ result' = result
  BY DEF Sync, Step
<1>4. ClientInv'
  BY StoreClientInv DEF StoreStep
<1>5. ~poisoned /\ good \in Nat /\ wal \in Logs /\ wal \in walDisk /\ walDisk \subseteq Logs
  BY <1>1 DEF DInv, PoisonInv, TypeInv
<1>6. CASE NextStage /\ walDisk' = {wal} /\ good' = good + 1 /\ mem' = b
  <2>1. io' = "start" /\ AutoLeft'
    BY <1>2, <1>6, AfterStage
  <2>2. /\ Gives(Base, {wal}, {b})
        /\ wal.hdr /\ wal.units \in Seq(Unit) /\ good + 1 >= Len(wal.units)
    BY <1>1 DEF DInv, AppendInv
  <2>3. TypeInv'
    <3>1. mem' \in Model /\ good' \in Nat /\ walDisk' \subseteq Logs /\ wal' \in walDisk'
      <4> HIDE DEF b
      <4>1. good' \in Nat
        BY <1>5, <1>6
      <4>2. mem' \in Model
        BY <1>2, <1>6
      <4>3. walDisk' \subseteq Logs /\ wal' \in walDisk'
        BY <1>1, <1>5, <1>6
      <4> QED BY <4>1, <4>2, <4>3
    <3> HIDE DEF b
    <3> QED BY <1>1, <1>2, <2>1, <3>1 DEF DInv, TypeInv, Checkpointing
  <2>4. CrashInv'
    BY <1>1, <1>2, <1>6, <2>1, <2>2 DEF CrashInv, Gives, Base, Owed
  <2>5. Exact' /\ Tidy'
    BY <1>1, <1>6, <2>2 DEF Exact, Tidy, Gives, Base
  <2>6. PoisonInv' /\ ExactInv'
    BY <1>1, <1>5, <2>1, <2>5 DEF PoisonInv, ExactInv
  <2>7. AppendInv'
    BY <2>1 DEF AppendInv
  <2>8. StageInv'
    <3>1. op.kind # "edit"
      BY <1>2 DEF AppendLeft, HasBatch
    <3> QED BY <1>1, <2>1, <3>1 DEF StageInv, Checkpointing
  <2> QED BY <1>4, <2>3, <2>4, <2>6, <2>7, <2>8 DEF DInv
<1>7. CASE walDisk' = walDisk /\ good' = good /\ mem' = mem /\ io' = "rollback" /\ todo' = todo
  <2>1. TypeInv'
    BY <1>1, <1>2, <1>7 DEF DInv, TypeInv, Appending, Checkpointing
  <2>2. StillDisk
    BY <1>1, <1>7 DEF StillDisk
  <2>3. CrashInv'
    BY <1>1, <1>7, <2>2, StillCrashInv
  <2>4. PoisonInv' /\ ExactInv'
    BY <1>1, <1>2, <1>5, <1>7
    DEF PoisonInv, ExactInv, Matched, Ordered, Settled, IsClientOp, ClientKinds
  <2>5. AppendInv'
    BY <1>1, <1>7, <2>2 DEF DInv, AppendInv, Resized, StillDisk, Gives, Base, Owed
  <2>6. StageInv'
    BY <1>7 DEF StageInv, Checkpointing
  <2> QED BY <1>4, <2>1, <2>3, <2>4, <2>5, <2>6 DEF DInv
<1>8. NextStage => mem' = b \/ (mem' = mem /\ io' = "rollback")
  BY <1>2, <1>3
<1> HIDE DEF b
<1> QED BY <1>2, <1>3, <1>6, <1>7

LEMMA PoisonWalDInv == ASSUME AllInv, PoisonWal, UNCHANGED engineVars PROVE DInv'
<1> USE DEF AllInv
<1>1. /\ io = "rollback" /\ io' = "done" /\ result' = "Io" /\ todo' = <<>>
      /\ staged' = NoModel /\ op' = op /\ poisoned' /\ poisoned' \in BOOLEAN
      /\ UNCHANGED <<snap, snapDisk, good, mem, pub, doubt, pending>>
      /\ \/ wal' = Resized(good) /\ walDisk' = walDisk \cup {wal'}
         \/ wal' = wal /\ walDisk' = walDisk
  BY DEF PoisonWal, At, Fail, engineVars
<1>2. IsClientOp /\ IsClientOp' /\ mem \in Model
  BY <1>1, Appended DEF Appending, IsClientOp, DInv, TypeInv
<1>3. Resized(good) \in Logs /\ Gives(Base, {Resized(good)}, Owed)
  BY <1>1 DEF DInv, AppendInv
<1>4. Gives(Base, walDisk, Owed)
  BY DEF DInv, CrashInv
<1>5. walDisk' \subseteq walDisk \cup {Resized(good)} /\ wal' \in walDisk' /\ walDisk' \subseteq Logs
  BY <1>1, <1>3 DEF DInv, TypeInv
<1>6. TypeInv'
  BY <1>1, <1>2, <1>5 DEF DInv, TypeInv, Checkpointing
<1>7. Gives(Base', walDisk', Owed')
  BY <1>1, <1>3, <1>4, <1>5 DEF Gives, Base, Owed
<1>8. CrashInv' /\ PoisonInv' /\ ExactInv'
  BY <1>1, <1>7 DEF CrashInv, PoisonInv, ExactInv, Owed, Gives, Base
<1>9. AppendInv' /\ StageInv'
  BY <1>1 DEF AppendInv, StageInv, Checkpointing
<1>10. ClientInv'
  BY StoreClientInv DEF StoreStep
<1> QED BY <1>6, <1>8, <1>9, <1>10 DEF DInv

-----------------------------------------------------------------------------
(* Steps that start or skip a checkpoint.                                   *)

\* A client's operation that starts a stage finds on disk what it has in
\* memory, unless the store is poisoned.
LEMMA StartsExact ==
  ASSUME AllInv, io = "start", IsClientOp
  PROVE  (~poisoned => Exact /\ Tidy) /\ mem \in Model
  BY DEF AllInv, DInv, ExactInv, Matched, Ordered, Settled, TypeInv

\* A checkpoint of model f begins: f is owed, and the old log recovers f or
\* what is owed from it.
LEMMA SnapshotStarts ==
  ASSUME AllInv, NEW f \in Model, f \in Owed, ~poisoned, io = "start",
         StillDisk, UNCHANGED <<mem, failStopped, lockPoisoned>>,
         staged' = f, Step("snapshot"),
         Gives({f}, walDisk, Owed),
         ClientInv',
         AutoLeft => Threshold # 0
  PROVE  DInv'
<1> USE DEF AllInv
<1>1. io' = "snapshot" /\ op' = op /\ todo' = todo /\ f # NoModel /\ (IsClientOp' <=> IsClientOp)
  BY NoModelAssumption DEF Step, IsClientOp
<1>2. TypeInv'
  BY <1>1 DEF DInv, TypeInv, StillDisk, Checkpointing
<1>3. CrashInv'
  BY <1>1, StillCrashInv
<1>4. PoisonInv'
  BY DEF PoisonInv, StillDisk
<1>5. ExactInv'
  <2>1. Matched' => Matched
    BY <1>1 DEF Matched, Settled
  <2>2. Ordered' => Ordered
    BY <1>1 DEF Ordered, Settled
  <2>3. Exact' = Exact /\ Tidy' = Tidy
    BY DEF Exact, Tidy, StillDisk, Gives
  <2> QED BY <1>1, <2>1, <2>2, <2>3 DEF DInv, ExactInv
<1>6. AppendInv'
  BY <1>1 DEF AppendInv
<1>7. StageInv'
  <2>1. AutoLeft' <=> AutoLeft
    BY <1>1 DEF AutoLeft, HasBatch, Defines
  <2>2. AutoLeft => Faults \cap Checkpointing = {}
    BY DEF Recoverable, NothingUnpublished
  <2> QED BY <1>1, <2>1, <2>2 DEF StageInv, StillDisk, Gives, Owed
<1> QED BY <1>2, <1>3, <1>4, <1>5, <1>6, <1>7 DEF DInv

LEMMA StartAutoDInv == ASSUME AllInv, StartAuto, UNCHANGED engineVars PROVE DInv'
<1> USE DEF AllInv
<1>1. /\ io = "start" /\ op' = op /\ StillDisk
      /\ UNCHANGED <<mem, failStopped, lockPoisoned>>
  BY DEF StartAuto, InStage, Step, NextStage, diskVars, engineVars, StillDisk
<1>2. IsClientOp /\ IsClientOp'
  BY <1>1, Kinds, CheckpointStage DEF StartAuto, Resting, IInv, IsClientOp
<1>3. AutoLeft /\ mem = Batched(op, pub)
  BY <1>2, ClientStage DEF StartAuto
<1>4. ~poisoned
  BY <1>1, <1>3 DEF DInv, PoisonInv
<1>5. Exact /\ Tidy /\ mem \in Model /\ mem # NoModel
  BY <1>1, <1>2, <1>4, StartsExact, NoModelAssumption
<1>6. mem \in pending
  BY <1>2, <1>3, <1>5, AreOutcomes DEF DInv, ClientInv
<1>7. ClientInv'
  BY StoreClientInv DEF StoreStep
<1>8. CASE staged' = mem /\ Step("snapshot") /\ Threshold # 0
  <2>1. Gives({mem}, walDisk, {mem})
    BY <1>5, Settles DEF DInv, Exact
  <2>2. Gives({mem}, walDisk, Owed) /\ mem \in Owed
    BY <1>6, <2>1 DEF Gives, Owed
  <2> QED BY <1>1, <1>4, <1>5, <1>7, <1>8, <2>2, SnapshotStarts
<1>9. CASE NextStage /\ staged' = staged
  <2>1. \/ io' = "start" /\ DefineLeft' /\ Defines(op)
        \/ io' = "done" /\ todo' = <<>> /\ result' = "ok"
    <3>1. ~Defines(op) => todo' = <<>>
      BY <1>3, <1>9, StageTails DEF NextStage, AutoLeft
    <3> QED BY <1>3, <1>9, <3>1, AfterStage
  <2>2. TypeInv'
    BY <1>1, <1>2, <2>1, <1>9 DEF DInv, TypeInv, StillDisk, Checkpointing
  <2>3. CrashInv'
    BY <1>1, <2>1, StillCrashInv
  <2>4. PoisonInv'
    BY <1>1, <1>4 DEF PoisonInv, StillDisk
  <2>5. ExactInv'
    BY <1>1, <1>5, <2>1 DEF ExactInv, Exact, Tidy, StillDisk, Gives
  <2>6. AppendInv' 
    BY <2>1 DEF AppendInv
  <2>7. StageInv'
    <3>1. op'.kind # "edit"
      BY <1>1, <1>3 DEF AutoLeft, HasBatch
    <3> QED BY <2>1, <3>1 DEF StageInv, Checkpointing
  <2> QED BY <1>7, <2>2, <2>3, <2>4, <2>5, <2>6, <2>7 DEF DInv
<1> QED BY <1>8, <1>9 DEF StartAuto

\* A stage refused by a poisoned store.
LEMMA RefusedDInv ==
  ASSUME AllInv, io = "start", poisoned, StillDisk, UNCHANGED <<mem, failStopped, lockPoisoned>>,
         Fail("Poisoned"), ClientInv'
  PROVE  DInv'
<1> USE DEF AllInv
<1>1. /\ io' = "done" /\ todo' = <<>> /\ result' = "Poisoned" /\ op' = op /\ staged' = NoModel
      /\ (IsClientOp' <=> IsClientOp)
  BY DEF Fail, IsClientOp
<1>2. TypeInv'
  BY <1>1 DEF DInv, TypeInv, StillDisk, Checkpointing
<1>3. CrashInv'
  BY <1>1, StillCrashInv
<1>4. PoisonInv'
  BY <1>1 DEF DInv, PoisonInv, StillDisk, Gives, Base
<1>5. ExactInv'
  BY DEF ExactInv, StillDisk
<1>6. AppendInv' /\ StageInv'
  BY <1>1 DEF AppendInv, StageInv, Checkpointing
<1> QED BY <1>2, <1>3, <1>4, <1>5, <1>6 DEF DInv

LEMMA StartCheckpointDInv == ASSUME AllInv, StartCheckpoint, UNCHANGED engineVars PROVE DInv'
<1> USE DEF AllInv
<1>1. /\ io = "start" /\ op' = op /\ StillDisk
      /\ UNCHANGED <<mem, failStopped, lockPoisoned>>
  BY DEF StartCheckpoint, InStage, Step, Fail, diskVars, engineVars, StillDisk
<1>2. mem = pub /\ pub \in doubt /\ ~AutoLeft
  <2>1. CASE IsClientOp
    <3>1. FlushLeft /\ mem = pub
      BY <2>1, ClientStage DEF StartCheckpoint
    <3> QED BY <3>1 DEF FlushLeft, AutoLeft, IInv, OwedInv
  <2>2. CASE op.kind \in {"checkpoint", "repair"}
    BY <2>2 DEF MemInv, IInv, HealInv, OwedInv, AutoLeft, HasBatch
  <2> QED BY <1>1, <2>1, <2>2, Kinds DEF IInv, Resting
<1>3. ClientInv'
  BY StoreClientInv DEF StoreStep
<1>4. CASE poisoned /\ Fail("Poisoned")
  BY <1>1, <1>3, <1>4, RefusedDInv
<1>5. CASE ~poisoned /\ staged' = mem /\ Step("snapshot")
  <2>1. Gives({pub}, walDisk, Owed) /\ pub \in Owed /\ pub \in Model
    BY <1>2 DEF DInv, CrashInv, TypeInv, Gives, Base, Owed
  <2> QED BY <1>1, <1>2, <1>3, <1>5, <2>1, SnapshotStarts
<1> QED BY <1>4, <1>5 DEF StartCheckpoint

LEMMA StartDefineDInv == ASSUME AllInv, StartDefine, UNCHANGED engineVars PROVE DInv'
<1> USE DEF AllInv
<1>1. /\ io = "start" /\ op' = op /\ StillDisk
      /\ UNCHANGED <<mem, failStopped, lockPoisoned>>
  BY DEF StartDefine, InStage, Step, Fail, diskVars, engineVars, StillDisk
<1>2. IsClientOp /\ IsClientOp'
  BY <1>1, Kinds, CheckpointStage DEF StartDefine, Resting, IInv, IsClientOp
<1>3. DefineLeft /\ Defines(op) /\ mem = Batched(op, pub) /\ mem \in Model
  BY <1>1, <1>2, ClientStage, StartsExact DEF StartDefine, DefineLeft
<1>4. /\ op \in Operation /\ op.kind \in {"sandboxSet", "commitSandbox", "view", "edit"}
      /\ ~AutoLeft
  BY <1>2, <1>3
  DEF Defines, DInv, TypeInv, IsClientOp, ClientKinds, NoOp, Repair, DefineLeft, AutoLeft
<1>5. ClientInv'
  BY StoreClientInv DEF StoreStep
<1> DEFINE f == Defined(op, mem)
<1>6. /\ f \in Model \cup {NoModel}
      /\ op.kind # "edit" /\ f # NoModel => SameBase(f, mem)
      /\ op.kind = "commitSandbox" => f # NoModel
  BY <1>3, <1>4, DefinedModel
<1>7. f # NoModel => f \in pending
  BY <1>2, <1>3, AreOutcomes, NoModelAssumption DEF DInv, ClientInv
<1>8. \/ poisoned /\ Fail("Poisoned")
      \/ ~poisoned /\ f = NoModel /\ Fail("Rejected")
      \/ ~poisoned /\ f # NoModel /\ staged' = f /\ Step("snapshot")
  BY DEF StartDefine
<1> HIDE DEF f
<1>9. CASE poisoned /\ Fail("Poisoned")
  BY <1>1, <1>5, <1>9, RefusedDInv
<1>10. CASE ~poisoned /\ f = NoModel /\ Fail("Rejected")
  <2>1. /\ io' = "done" /\ todo' = <<>> /\ result' = "Rejected" /\ op' = op /\ staged' = NoModel
    BY <1>10 DEF Fail
  <2>2. mem = pub /\ op.kind # "batch"
    BY <1>3, <1>4, <1>6, <1>10 DEF Batched, HasBatch
  <2>3. Exact /\ Tidy
    BY <1>1, <1>2, <1>10, StartsExact
  <2>4. TypeInv'
    BY <1>1, <1>2, <2>1 DEF DInv, TypeInv, StillDisk, Checkpointing
  <2>5. CrashInv'
    BY <1>1, <2>1, StillCrashInv
  <2>6. PoisonInv'
    BY <1>1, <1>10 DEF PoisonInv, StillDisk
  <2>7. ExactInv'
    BY <1>1, <2>1, <2>2, <2>3 DEF ExactInv, Exact, Tidy, StillDisk, Gives
  <2>8. AppendInv' /\ StageInv'
    BY <2>1 DEF AppendInv, StageInv, Checkpointing
  <2> QED BY <1>5, <2>4, <2>5, <2>6, <2>7, <2>8 DEF DInv
<1>11. CASE ~poisoned /\ f # NoModel /\ staged' = f /\ Step("snapshot")
  <2>1. f \in Model /\ f \in Owed
    BY <1>6, <1>7, <1>11 DEF Owed
  <2>2. Gives({f}, walDisk, {f})
    <3>1. CASE op.kind = "edit"
      <4>1. walDisk = {EmptyWal}
        BY <1>1, <1>3, <1>11, <3>1 DEF DInv, StageInv
      <4> QED BY <4>1, RecoverEmpty DEF Gives
    <3>2. CASE op.kind # "edit"
      <4>1. Exact
        BY <1>1, <1>2, <1>11, StartsExact
      <4> QED BY <1>3, <1>6, <1>11, <2>1, <3>2, <4>1, Settles DEF DInv, Exact
    <3> QED BY <3>1, <3>2
  <2>3. Gives({f}, walDisk, Owed)
    BY <2>1, <2>2 DEF Gives
  <2> QED BY <1>1, <1>4, <1>5, <1>11, <2>1, <2>3, SnapshotStarts
<1> QED BY <1>8, <1>9, <1>10, <1>11

-----------------------------------------------------------------------------
(* Steps of a checkpoint.                                                   *)

\* A checkpoint's file operation fails: the files are as they were, and it was
\* not on the way of a batch.
LEMMA FailedIODInv ==
  ASSUME AllInv, io \in Checkpointing, Faulty(io), Fail("Io"), StillDisk,
         UNCHANGED <<mem, failStopped, lockPoisoned>>, ClientInv'
  PROVE  DInv'
<1> USE DEF AllInv
<1>1. /\ io' = "done" /\ todo' = <<>> /\ result' = "Io" /\ op' = op /\ staged' = NoModel
      /\ (IsClientOp' <=> IsClientOp)
  BY DEF Fail, IsClientOp
<1>2. ~poisoned
  BY DEF DInv, PoisonInv, Checkpointing
<1>3. op.kind # "batch"
  <2> SUFFICES ASSUME op.kind = "batch" PROVE FALSE
    OBVIOUS
  <2>1. AutoLeft
    BY DEF IsClientOp, ClientKinds, DInv, ClientInv, FromModel, FlushLeft, DefineLeft, HasBatch,
           Defines, Appending, Checkpointing
  <2> QED BY <2>1 DEF DInv, StageInv, Faulty
<1>4. op.kind = "checkpoint" => io # "header"
  BY DEF DInv, TypeInv, Faulty
<1>5. TypeInv'
  BY <1>1 DEF DInv, TypeInv, StillDisk, Checkpointing
<1>6. CrashInv'
  BY <1>1, StillCrashInv DEF Checkpointing
<1>7. PoisonInv'
  BY <1>2 DEF PoisonInv, StillDisk
<1>8. ExactInv'
  <2>1. (Matched' => Matched) /\ (Ordered' => Ordered)
    BY <1>1, <1>4 DEF Matched, Ordered, Settled
  <2>2. Exact' = Exact /\ Tidy' = Tidy
    BY DEF Exact, Tidy, StillDisk, Gives
  <2> QED BY <1>1, <1>2, <1>3, <2>1, <2>2 DEF DInv, ExactInv
<1>9. AppendInv' /\ StageInv'
  BY <1>1 DEF AppendInv, StageInv, Checkpointing
<1> QED BY <1>5, <1>6, <1>7, <1>8, <1>9 DEF DInv

\* A checkpoint's file operation succeeds.
LEMMA CheckpointGoesOn ==
  ASSUME AllInv, io \in Checkpointing, io' \in Checkpointing, io' # "snapshot",
         UNCHANGED <<op, todo, result, staged, mem, good, poisoned, engineVars>>, ClientInv',
         snapDisk' \subseteq Model, snap' \in snapDisk', walDisk' \subseteq Logs, wal' \in walDisk',
         Gives(Base', walDisk', Owed),
         op.kind = "checkpoint" /\ ~failStopped =>
           Gives(snapDisk', walDisk', {mem}) /\ (io' = "header" \/ Tidy'),
         io' = "dirsync" => snap' = staged,
         io' \in {"truncate", "header", "walsync"} => snapDisk' = {staged},
         io' = "header" => wal' = NoWal,
         io' = "walsync" => wal' = EmptyWal
  PROVE  DInv'
<1> USE DEF AllInv
<1>1. /\ (IsClientOp' <=> IsClientOp) /\ (AutoLeft' <=> AutoLeft)
      /\ pub' = pub /\ doubt' = doubt /\ pending' = pending
      /\ failStopped' = failStopped /\ lockPoisoned' = lockPoisoned
  BY DEF IsClientOp, AutoLeft, HasBatch, Defines, engineVars
<1>2. TypeInv'
  BY <1>1 DEF DInv, TypeInv, Checkpointing
<1>3. CrashInv'
  BY <1>1 DEF CrashInv, Gives, Base, Owed, Checkpointing
<1>4. PoisonInv'
  BY DEF DInv, PoisonInv, Checkpointing
<1>5. ExactInv'
  <2>1. Matched' \/ Ordered' => op.kind = "checkpoint" /\ ~failStopped
    BY <1>1 DEF Matched, Ordered, Settled, Checkpointing
  <2>2. Ordered' => io' # "header"
    BY <1>1 DEF Ordered, Settled, Checkpointing
  <2>3. io' # "done"
    BY DEF Checkpointing
  <2> QED BY <2>1, <2>2, <2>3 DEF ExactInv, Exact, Gives
<1>6. AppendInv'
  BY DEF AppendInv, Checkpointing
<1>7. StageInv'
  BY <1>1 DEF DInv, StageInv, Checkpointing, Owed
<1> QED BY <1>2, <1>3, <1>4, <1>5, <1>6, <1>7 DEF DInv

\* What a checkpoint stages, and what it knows of the disk.
LEMMA Staged ==
  ASSUME AllInv, io \in Checkpointing
  PROVE  /\ staged \in Model /\ staged \in Owed /\ pub \in Model /\ pub \in Owed /\ snap \in Model
         /\ Gives(Base, walDisk, Owed)
         /\ snapDisk \subseteq Model /\ snap \in snapDisk
         /\ walDisk \subseteq Logs /\ wal \in walDisk /\ wal \in Logs
         /\ op.kind = "checkpoint" => staged = mem
         /\ op.kind = "checkpoint" /\ ~failStopped =>
              Exact /\ (io = "header" \/ Tidy) /\ Gives({staged}, walDisk, {mem})
<1> USE DEF AllInv
<1>1. staged \in Model /\ staged \in Owed /\ pub \in Model /\ snap \in Model
  BY DEF DInv, TypeInv, StageInv
<1>2. pub \in Owed
  BY DEF IInv, OwedInv, Owed
<1>3. op.kind = "checkpoint" => staged = mem
  BY DEF IInv, OpInv, Checkpointing
<1>4. ~poisoned
  BY DEF DInv, PoisonInv, Checkpointing
<1>5. op.kind = "checkpoint" /\ ~failStopped => Exact /\ (io = "header" \/ Tidy)
  BY <1>4 DEF DInv, ExactInv, Matched, Ordered
<1>6. op.kind = "checkpoint" /\ ~failStopped => Gives({staged}, walDisk, {mem})
  BY <1>1, <1>3, <1>5, Settles DEF DInv, Exact
<1> QED BY <1>1, <1>2, <1>3, <1>5, <1>6 DEF DInv, TypeInv, CrashInv

LEMMA WriteSnapshotDInv == ASSUME AllInv, WriteSnapshot, UNCHANGED engineVars PROVE DInv'
<1> USE DEF AllInv
<1>1. /\ io = "snapshot" /\ io \in Checkpointing /\ UNCHANGED <<op, mem, good, poisoned, wal, walDisk>>
  BY DEF WriteSnapshot, At, Step, Fail, Checkpointing
<1>2. ClientInv'
  BY StoreClientInv DEF StoreStep
<1>3. CASE Faulty("snapshot") /\ Fail("Io") /\ UNCHANGED <<snap, snapDisk>>
  BY <1>1, <1>2, <1>3, FailedIODInv DEF StillDisk, engineVars
<1>4. CASE snap' = staged /\ snapDisk' = snapDisk \cup {staged} /\ Step("dirsync")
           /\ UNCHANGED staged
  <2>1. io' = "dirsync" /\ UNCHANGED <<op, todo, result, staged, mem, good, poisoned, engineVars>>
    BY <1>1, <1>4 DEF Step
  <2>2. Gives({staged}, walDisk, Owed)
    BY <1>1 DEF DInv, StageInv
  <2>3. Gives(Base', walDisk', Owed)
    BY <1>1, <1>4, <2>1, <2>2, Staged DEF Gives, Base, engineVars
  <2>4. op.kind = "checkpoint" /\ ~failStopped =>
           Gives(snapDisk', walDisk', {mem}) /\ Tidy'
    BY <1>1, <1>4, <2>1, Staged DEF Gives, Exact, Tidy
  <2> QED BY <1>1, <1>2, <1>4, <2>1, <2>3, <2>4, Staged, CheckpointGoesOn DEF Checkpointing
<1> QED BY <1>3, <1>4 DEF WriteSnapshot

LEMMA SyncDirDInv == ASSUME AllInv, SyncDir, UNCHANGED engineVars PROVE DInv'
<1> USE DEF AllInv
<1>1. /\ io = "dirsync" /\ io \in Checkpointing
      /\ UNCHANGED <<op, mem, good, poisoned, snap, wal, walDisk>>
  BY DEF SyncDir, At, Step, Fail, Checkpointing
<1>2. ClientInv'
  BY StoreClientInv DEF StoreStep
<1>3. CASE Faulty("dirsync") /\ Fail("Io") /\ UNCHANGED snapDisk
  BY <1>1, <1>2, <1>3, FailedIODInv DEF StillDisk, engineVars
<1>4. CASE snapDisk' = {snap} /\ Step("truncate") /\ UNCHANGED staged
  <2>1. io' = "truncate" /\ UNCHANGED <<op, todo, result, staged, mem, good, poisoned, engineVars>>
    BY <1>1, <1>4 DEF Step
  <2>2. snap = staged
    BY <1>1 DEF DInv, StageInv
  <2>3. Gives(Base', walDisk', Owed)
    BY <1>1, <1>4, <2>1, Staged DEF Gives, Base, engineVars
  <2>4. op.kind = "checkpoint" /\ ~failStopped =>
           Gives(snapDisk', walDisk', {mem}) /\ Tidy'
    BY <1>1, <1>4, <2>1, Staged DEF Gives, Exact, Tidy
  <2> QED BY <1>1, <1>2, <1>4, <2>1, <2>2, <2>3, <2>4, Staged, CheckpointGoesOn DEF Checkpointing
<1> QED BY <1>3, <1>4 DEF SyncDir

LEMMA TruncateDInv == ASSUME AllInv, Truncate, UNCHANGED engineVars PROVE DInv'
<1> USE DEF AllInv
<1>1. /\ io = "truncate" /\ io \in Checkpointing
      /\ UNCHANGED <<op, mem, good, poisoned, snap, snapDisk>>
  BY DEF Truncate, At, Step, Fail, Checkpointing
<1>2. ClientInv'
  BY StoreClientInv DEF StoreStep
<1>3. CASE Faulty("truncate") /\ Fail("Io") /\ UNCHANGED <<wal, walDisk>>
  BY <1>1, <1>2, <1>3, FailedIODInv DEF StillDisk, engineVars
<1>4. CASE wal' = NoWal /\ walDisk' = walDisk \cup {NoWal} /\ Step("header") /\ UNCHANGED staged
  <2>1. io' = "header" /\ UNCHANGED <<op, todo, result, staged, mem, good, poisoned, engineVars>>
    BY <1>1, <1>4 DEF Step
  <2>2. snapDisk = {staged}
    BY <1>1 DEF DInv, StageInv
  <2>3. Gives(Base', walDisk', Owed)
    BY <1>1, <1>4, <2>1, <2>2, Staged, RecoverEmpty DEF Gives, Base, engineVars
  <2>4. op.kind = "checkpoint" /\ ~failStopped => Gives(snapDisk', walDisk', {mem})
    BY <1>1, <1>4, <2>1, <2>2, Staged, RecoverEmpty DEF Gives, Exact
  <2> QED BY <1>1, <1>2, <1>4, <2>1, <2>2, <2>3, <2>4, Staged, RecoverEmpty, CheckpointGoesOn
          DEF Checkpointing
<1> QED BY <1>3, <1>4 DEF Truncate

LEMMA WriteHeaderDInv == ASSUME AllInv, WriteHeader, UNCHANGED engineVars PROVE DInv'
<1> USE DEF AllInv
<1>1. /\ io = "header" /\ io \in Checkpointing
      /\ UNCHANGED <<op, mem, good, poisoned, snap, snapDisk>>
  BY DEF WriteHeader, At, Step, Fail, Checkpointing
<1>2. ClientInv'
  BY StoreClientInv DEF StoreStep
<1>3. CASE Faulty("header") /\ Fail("Io") /\ UNCHANGED <<wal, walDisk>>
  BY <1>1, <1>2, <1>3, FailedIODInv DEF StillDisk, engineVars
<1>4. CASE wal' = EmptyWal /\ walDisk' = walDisk \cup {EmptyWal} /\ Step("walsync")
           /\ UNCHANGED staged
  <2>1. io' = "walsync" /\ UNCHANGED <<op, todo, result, staged, mem, good, poisoned, engineVars>>
    BY <1>1, <1>4 DEF Step
  <2>2. snapDisk = {staged}
    BY <1>1 DEF DInv, StageInv
  <2>3. Gives(Base', walDisk', Owed)
    BY <1>1, <1>4, <2>1, <2>2, Staged, RecoverEmpty DEF Gives, Base, engineVars
  <2>4. op.kind = "checkpoint" /\ ~failStopped => Gives(snapDisk', walDisk', {mem})
    BY <1>1, <1>4, <2>1, <2>2, Staged, RecoverEmpty DEF Gives, Exact
  <2>5. Tidy'
    BY <1>4, <2>1 DEF Tidy, EmptyWal, DInv, TypeInv
  <2> QED BY <1>1, <1>2, <1>4, <2>1, <2>2, <2>3, <2>4, <2>5, Staged, RecoverEmpty, CheckpointGoesOn
          DEF Checkpointing
<1> QED BY <1>3, <1>4 DEF WriteHeader

LEMMA SyncWalDInv == ASSUME AllInv, SyncWal, UNCHANGED engineVars PROVE DInv'
<1> USE DEF AllInv
<1>1. /\ io = "walsync" /\ io \in Checkpointing
      /\ UNCHANGED <<op, poisoned, snap, snapDisk, wal>>
  BY DEF SyncWal, At, Step, Fail, NextStage, Checkpointing
<1>2. ClientInv'
  BY StoreClientInv DEF StoreStep
<1>3. CASE Faulty("walsync") /\ Fail("Io") /\ UNCHANGED <<walDisk, good, mem>>
  BY <1>1, <1>2, <1>3, FailedIODInv DEF StillDisk, engineVars
<1>4. CASE /\ walDisk' = {wal} /\ good' = 0 /\ mem' = staged /\ staged' = NoModel
           /\ NextStage
  <2>1. wal = EmptyWal /\ snapDisk = {staged} /\ ~poisoned
    BY <1>1 DEF DInv, StageInv, PoisonInv, Checkpointing
  <2>2. \/ io' = "start"
        \/ io' = "done" /\ result' = "ok" /\ todo' = <<>>
    <3>1. CASE IsClientOp
      <4>1. AutoLeft \/ FlushLeft \/ DefineLeft
        BY <1>1, <3>1 DEF DInv, ClientInv, FromModel, Appending
      <4>2. AutoLeft => Defines(op) \/ todo = <<"auto">>
        BY DEF AutoLeft
      <4> QED BY <1>4, <4>1, <4>2, StageTails DEF NextStage, AutoLeft, FlushLeft, DefineLeft
    <3>2. CASE op.kind \in {"checkpoint", "repair"}
      <4>1. todo = <<"checkpoint">>
        BY <1>1, <3>2 DEF IInv, OpInv, Checkpointing
      <4> QED BY <1>4, <4>1, StageTails DEF NextStage
    <3> QED BY <1>1, <3>1, <3>2, Kinds DEF IInv, Resting, Checkpointing
  <2>3. UNCHANGED <<pub, doubt, pending, failStopped, lockPoisoned>> /\ (IsClientOp' <=> IsClientOp)
    BY <1>1 DEF engineVars, IsClientOp
  <2>4. TypeInv'
    BY <1>1, <1>4, <2>1, <2>2, <2>3, Staged, RecoverEmpty DEF DInv, TypeInv, Checkpointing
  <2>5. CrashInv'
    BY <1>1, <1>4, <2>1, <2>2, <2>3, Staged, RecoverEmpty DEF CrashInv, Gives, Base, Owed
  <2>6. PoisonInv'
    BY <1>1, <2>1 DEF PoisonInv
  <2>7. Exact' /\ Tidy'
    BY <1>1, <1>4, <2>1, RecoverEmpty DEF Exact, Gives, Tidy, EmptyWal
  <2>8. ExactInv'
    BY <2>2, <2>7 DEF ExactInv
  <2>9. AppendInv' /\ StageInv'
    BY <1>1, <1>4, <2>1, <2>2 DEF AppendInv, StageInv, Checkpointing
  <2> QED BY <1>2, <2>4, <2>5, <2>6, <2>8, <2>9 DEF DInv
<1> QED BY <1>3, <1>4 DEF SyncWal

LEMMA StoreDInv == ASSUME AllInv, StoreStep, UNCHANGED engineVars PROVE DInv'
  BY StartAppendDInv, WriteDInv, SyncDInv, PoisonWalDInv, StartAutoDInv, StartCheckpointDInv,
     StartDefineDInv, WriteSnapshotDInv, SyncDirDInv, TruncateDInv, WriteHeaderDInv, SyncWalDInv
  DEF StoreStep

-----------------------------------------------------------------------------
(* Steps of the engine.                                                     *)

\* An operation starts from the published model, which is on disk.
LEMMA SubmitDInv == ASSUME AllInv, NEW o \in Ops, Submit(o) PROVE DInv'
<1> USE DEF AllInv
<1>1. /\ io = "idle" /\ io' = "start" /\ op' = o /\ todo' = Stages(o) /\ ~lockPoisoned
      /\ UNCHANGED <<snap, snapDisk, wal, walDisk, good, poisoned>>
      /\ UNCHANGED <<mem, staged, pub, failStopped, lockPoisoned, doubt>>
      /\ o.kind # "checkpoint" => ~failStopped
  BY DEF Submit, Start, Idle, diskVars
<1>2. o \in Operation /\ o.kind \in ClientKinds \cup {"checkpoint"}
  BY OpsAssumption DEF Operation, ClientKinds, CommitSandbox, InvalidView, Checkpoint
<1>3. /\ mem = pub /\ mem \in Model /\ pub \in doubt /\ ~IsClientOp /\ pending = {}
      /\ staged = NoModel
  BY <1>1
  DEF MemInv, IInv, OwedInv, OpInv, Resting, DInv, TypeInv, IsClientOp, ClientKinds, Checkpointing
<1>4. pending' \subseteq Model
  <2>1. \A d \in doubt : Outcomes(o, d) \subseteq Model
    BY <1>2, OutcomesModels DEF DInv, TypeInv
  <2> QED BY <2>1 DEF Submit
<1>5. IsClientOp' => Outcomes(o, pub) \subseteq pending'
  BY <1>1, <1>3 DEF Submit, IsClientOp, ClientKinds
<1>6. ~IsClientOp' => pending' = {}
  BY <1>1, <1>2 DEF Submit, IsClientOp
<1>7. TypeInv'
  BY <1>1, <1>2, <1>3, <1>4, <1>6
  DEF DInv, TypeInv, Recoverable, Appending, Checkpointing
<1>8. todo' = <<"auto">> \/ todo' = <<"auto", "define">> => FALSE
  BY <1>1, <1>2, StagesOf DEF ClientKinds
<1>9. ClientInv'
  <2> SUFFICES ASSUME IsClientOp' PROVE FromModel(pub)'
    BY <1>1, <1>5 DEF ClientInv
  <2>1. CASE o.kind \in {"batch", "pin", "commitSandbox"}
    <3>1. AppendLeft'
      BY <1>1, <2>1, StagesOf DEF AppendLeft, HasBatch, Defines
    <3> QED BY <1>1, <1>3, <3>1 DEF FromModel
  <2>2. CASE o.kind = "edit"
    <3>1. FlushLeft'
      BY <1>1, <2>2, StagesOf DEF FlushLeft, HasBatch, Defines
    <3> QED BY <1>1, <1>3, <3>1 DEF FromModel, Checkpointing
  <2>3. CASE o.kind \in {"sandboxSet", "view"}
    <3>1. DefineLeft'
      BY <1>1, <2>3, StagesOf DEF DefineLeft, Defines
    <3>2. pub = Batched(o, pub)
      BY <2>3 DEF Batched, HasBatch
    <3>3. Batched(op', pub') = pub'
      BY <1>1, <2>3 DEF Batched, HasBatch
    <3> QED BY <1>1, <1>3, <3>1, <3>3 DEF FromModel, Checkpointing
  <2> QED BY <1>1, <2>1, <2>2, <2>3 DEF IsClientOp, ClientKinds
<1>10. CrashInv'
  BY <1>1, <1>3 DEF DInv, CrashInv, Gives, Base, Owed
<1>11. PoisonInv'
  <2>1. ~AutoLeft'
    BY <1>8 DEF AutoLeft
  <2> QED BY <1>1, <2>1 DEF DInv, PoisonInv, Gives, Base
<1>12. ExactInv'
  <2>1. Matched' \/ Ordered' => ~failStopped
    BY <1>1 DEF Matched, Ordered, Settled, IsClientOp, ClientKinds
  <2>2. ~poisoned /\ ~failStopped => Exact /\ Tidy
    BY <1>1 DEF DInv, ExactInv, Matched, Ordered, Settled
  <2> QED BY <1>1, <2>1, <2>2 DEF ExactInv, Exact, Tidy, Gives
<1>13. AppendInv'
  BY <1>1 DEF AppendInv
<1>14. StageInv'
  <2>1. op'.kind = "edit" => ~DefineLeft'
    <3>1. o.kind = "edit" => todo' = <<"checkpoint", "define">>
      BY <1>1, StagesOf
    <3>2. <<"checkpoint", "define">> # <<"define">>
      BY StageTails
    <3> QED BY <1>1, <3>1, <3>2 DEF DefineLeft
  <2> QED BY <1>1, <2>1 DEF StageInv, Checkpointing
<1> QED BY <1>7, <1>9, <1>10, <1>11, <1>12, <1>13, <1>14 DEF DInv

\* An operation returns: what recovery finds is still owed, and unless the
\* writer stays stopped it is what is in memory.
LEMMA ReturnDInv ==
  ASSUME AllInv, At("done"), Return, mem' \in Model, pub' \in Model, doubt' \subseteq Model,
         Gives(Base', walDisk, doubt'),
         ~poisoned /\ ~failStopped' => Exact' /\ Tidy
  PROVE  DInv'
<1> USE DEF AllInv
<1>1. /\ io = "done" /\ io' = "idle" /\ op' = NoOp /\ pending' = {} /\ staged' = NoModel
      /\ todo' = <<>>
      /\ UNCHANGED <<snap, snapDisk, wal, walDisk, good, poisoned>>
  BY DEF At, Return, diskVars, DInv, TypeInv, Checkpointing
<1>2. ~IsClientOp' /\ op'.kind = "none"
  BY <1>1 DEF IsClientOp, ClientKinds, NoOp
<1>3. TypeInv' /\ ClientInv'
  BY <1>1, <1>2 DEF DInv, TypeInv, ClientInv, Checkpointing
<1>4. CrashInv' /\ PoisonInv'
  BY <1>1 DEF CrashInv, PoisonInv, Gives, Base, Owed
<1>5. ExactInv'
  BY <1>1, <1>2 DEF ExactInv, Matched, Ordered, Settled, Tidy
<1>6. AppendInv' /\ StageInv'
  BY <1>1, <1>2 DEF AppendInv, StageInv, Checkpointing
<1> QED BY <1>3, <1>4, <1>5, <1>6 DEF DInv

\* What is on disk is what readers are to see from now on.
LEMMA ExactGives ==
  ASSUME DInv, Exact, mem \in Model
  PROVE  Gives(snapDisk \cup {mem}, walDisk, {mem})
<1>1. Gives({mem}, walDisk, {mem})
  BY Settles DEF DInv, Exact
<1> QED BY <1>1 DEF Exact, Gives

LEMMA PublishDInv == ASSUME AllInv, Publish PROVE DInv'
<1> USE DEF AllInv
<1>1. /\ At("done") /\ io = "done" /\ IsClientOp /\ result = "ok" /\ Return /\ mem' = mem
      /\ pub' = mem /\ doubt' = {mem} /\ snapDisk' = snapDisk /\ walDisk' = walDisk
  BY DEF Publish, At, Recoverable, NothingUnpublished, Faulty, Return, diskVars
<1>2. ~poisoned /\ mem \in Model
  BY <1>1 DEF DInv, PoisonInv, TypeInv
<1>3. Exact /\ Tidy
  BY <1>1, <1>2 DEF DInv, ExactInv, Matched, Ordered, Settled
<1>4. Gives(Base', walDisk, doubt')
  BY <1>1, <1>2, <1>3, ExactGives DEF Base
<1>5. Exact'
  BY <1>1, <1>3 DEF Exact, Gives
<1> QED BY <1>1, <1>2, <1>3, <1>4, <1>5, ReturnDInv

LEMMA RejectDInv == ASSUME AllInv, Reject PROVE DInv'
<1> USE DEF AllInv
<1>1. /\ At("done") /\ io = "done" /\ IsClientOp /\ result = "Rejected" /\ Return
      /\ mem' \in {mem, pub} /\ UNCHANGED <<pub, doubt, snapDisk, walDisk>>
  BY DEF Reject, At, Return, diskVars
<1>2. ~poisoned /\ mem \in Model
  BY <1>1 DEF DInv, PoisonInv, TypeInv
<1>3. Exact /\ Tidy /\ mem = pub /\ pub \in doubt
  BY <1>1, <1>2 DEF DInv, ExactInv, Matched, Ordered, Settled, IInv, OwedInv
<1>4. Gives(Base', walDisk, doubt')
  BY <1>1, <1>2, <1>3, ExactGives DEF Base, Gives
<1>5. Exact' /\ mem' = mem
  BY <1>1, <1>3 DEF Exact, Gives
<1> QED BY <1>1, <1>2, <1>3, <1>4, <1>5, ReturnDInv DEF DInv, TypeInv

\* After a failure: what an operation that failed may have left is owed.
LEMMA FailedGives ==
  ASSUME AllInv, At("done"), result \in {"Io", "Poisoned"}
  PROVE  Gives(Base, walDisk, doubt \cup Attempted)
<1> USE DEF AllInv
<1>1. result = "Poisoned" => poisoned
  BY DEF At, DInv, ExactInv
<1>2. CASE poisoned
  BY <1>2 DEF At, DInv, PoisonInv, Attempted, Gives
<1>3. CASE ~poisoned
  BY <1>1, <1>3 DEF DInv, CrashInv, Attempted, Gives, Owed
<1> QED BY <1>2, <1>3

\* A batch that failed has poisoned the store.
LEMMA FailBatchDInv == ASSUME AllInv, FailBatch PROVE DInv'
<1> USE DEF AllInv
<1>1. /\ At("done") /\ io = "done" /\ op.kind = "batch" /\ result \in {"Io", "Poisoned"} /\ Return
      /\ doubt' = doubt \cup Attempted /\ UNCHANGED <<mem, pub, snapDisk, walDisk>>
  BY DEF FailBatch, At, Return, diskVars
<1>2. poisoned /\ mem \in Model /\ pub \in Model /\ doubt' \subseteq Model
  BY <1>1 DEF DInv, ExactInv, TypeInv, Attempted
<1>3. Gives(Base', walDisk, doubt')
  BY <1>1, FailedGives DEF Base
<1> QED BY <1>1, <1>2, <1>3, ReturnDInv

LEMMA FinishRepairDInv == ASSUME AllInv, FinishRepair PROVE DInv'
<1> USE DEF AllInv
<1>1. /\ At("done") /\ io = "done" /\ op.kind = "repair" /\ ~IsClientOp /\ Return
      /\ UNCHANGED <<mem, pub, snapDisk, walDisk>>
      /\ IF result = "ok" THEN doubt' = {pub} ELSE failStopped' /\ doubt' = doubt
  BY DEF FinishRepair, At, Return, diskVars, IsClientOp, ClientKinds
<1>2. mem = pub /\ mem \in Model /\ pub \in Model /\ pending = {} /\ doubt \subseteq Model
  BY <1>1 DEF IInv, HealInv, DInv, TypeInv
<1>3. CASE result = "ok"
  <2>1. ~poisoned
    BY <1>1, <1>3 DEF DInv, PoisonInv
  <2>2. Exact /\ Tidy
    BY <1>1, <1>3, <2>1 DEF DInv, ExactInv, Matched, Ordered, Settled
  <2>3. Gives(Base', walDisk, doubt')
    BY <1>1, <1>2, <1>3, <2>2, ExactGives DEF Base
  <2>4. Exact'
    BY <1>1, <2>2 DEF Exact, Gives
  <2> QED BY <1>1, <1>2, <1>3, <2>2, <2>3, <2>4, ReturnDInv
<1>4. CASE result # "ok"
  <2>1. Gives(Base', walDisk, doubt')
    BY <1>1, <1>2, <1>4 DEF DInv, CrashInv, Gives, Base, Owed
  <2> QED BY <1>1, <1>2, <1>4, <2>1, ReturnDInv
<1> QED BY <1>3, <1>4

LEMMA FinishCheckpointDInv == ASSUME AllInv, FinishCheckpoint PROVE DInv'
<1> USE DEF AllInv
<1>1. /\ At("done") /\ io = "done" /\ op.kind = "checkpoint" /\ ~IsClientOp /\ Return
      /\ UNCHANGED <<mem, pub, doubt, snapDisk, walDisk>>
      /\ failStopped' = (failStopped /\ result # "ok")
  BY DEF FinishCheckpoint, At, Return, diskVars, IsClientOp, ClientKinds
<1>2. mem \in Model /\ pub \in Model /\ doubt \subseteq Model /\ pending = {}
  BY <1>1 DEF DInv, TypeInv
<1>3. Gives(Base', walDisk, doubt')
  BY <1>1, <1>2 DEF DInv, CrashInv, Gives, Base, Owed
<1>4. ~poisoned /\ ~failStopped' => Exact' /\ Tidy
  <2>1. ~poisoned /\ ~failStopped' => Exact /\ Tidy
    BY <1>1 DEF DInv, ExactInv, Matched, Ordered, Settled
  <2> QED BY <1>1, <2>1 DEF Exact, Gives
<1> QED BY <1>1, <1>2, <1>3, <1>4, ReturnDInv

\* A repair begins with the published model in memory.
LEMMA RepairDInv ==
  ASSUME AllInv, io \in {"idle", "done"}, StartRepair, UNCHANGED <<pub, failStopped>>,
         doubt' \subseteq Model, pending' = {}, Gives(Base, walDisk, doubt')
  PROVE  DInv'
<1> USE DEF AllInv
<1>1. /\ io' = "start" /\ op' = Repair /\ todo' = <<"checkpoint">> /\ mem' = pub
      /\ staged' = NoModel
      /\ UNCHANGED <<snap, snapDisk, wal, walDisk, good, poisoned>>
  BY DEF StartRepair, diskVars, DInv, TypeInv, Checkpointing
<1>2. ~IsClientOp' /\ op'.kind = "repair"
  BY <1>1 DEF IsClientOp, ClientKinds, Repair
<1>3. TypeInv' /\ ClientInv'
  BY <1>1, <1>2 DEF DInv, TypeInv, ClientInv, Checkpointing
<1>4. ~AutoLeft'
  BY <1>1, <1>2 DEF AutoLeft, HasBatch
<1>5. CrashInv' /\ PoisonInv'
  BY <1>1, <1>4 DEF CrashInv, PoisonInv, Gives, Base, Owed
<1>6. ExactInv'
  BY <1>1, <1>2 DEF ExactInv, Matched, Ordered, Settled
<1>7. AppendInv' /\ StageInv'
  BY <1>1, <1>2 DEF AppendInv, StageInv, Checkpointing
<1> QED BY <1>3, <1>5, <1>6, <1>7 DEF DInv

LEMMA FailDefinitionDInv == ASSUME AllInv, FailDefinition PROVE DInv'
<1>1. doubt' = doubt \cup Attempted /\ doubt' \subseteq Model
  BY DEF FailDefinition, Attempted, AllInv, DInv, TypeInv
<1> QED BY <1>1, FailedGives, RepairDInv DEF FailDefinition, At

LEMMA RecoverLockDInv == ASSUME AllInv, RecoverLock PROVE DInv'
<1> USE DEF AllInv
<1>1. io = "idle" /\ StartRepair /\ UNCHANGED <<pub, failStopped, pending, doubt>>
  BY DEF RecoverLock, Idle
<1>2. pending = {} /\ doubt \subseteq Model
  BY <1>1 DEF IInv, OpInv, Resting, DInv, TypeInv, IsClientOp, ClientKinds
<1>3. Gives(Base, walDisk, doubt')
  BY <1>1, <1>2 DEF DInv, CrashInv, Gives, Owed
<1> QED BY <1>1, <1>2, <1>3, RepairDInv

LEMMA PanicDInv == ASSUME AllInv, Panic PROVE DInv'
<1> USE DEF AllInv
<1>1. /\ io \in {"start", "sync"} /\ io' = "idle" /\ op' = NoOp /\ todo' = <<>>
      /\ staged' = NoModel /\ pending' = {} /\ doubt' = doubt \cup pending /\ lockPoisoned'
      /\ UNCHANGED <<snap, snapDisk, wal, mem, poisoned, pub>>
      /\ walDisk' \in {walDisk, {wal}} /\ good' \in {good, good + 1}
  BY DEF Panic, InStage, At
<1>2. ~IsClientOp' /\ op'.kind = "none"
  BY <1>1 DEF IsClientOp, ClientKinds, NoOp
<1>3. walDisk' \subseteq walDisk /\ wal' \in walDisk' /\ good' \in Nat
  <2>1. good' \in Nat
    BY <1>1 DEF DInv, TypeInv
  <2> QED BY <1>1, <2>1 DEF DInv, TypeInv
<1>4. TypeInv' /\ ClientInv'
  BY <1>1, <1>2, <1>3 DEF DInv, TypeInv, ClientInv, Checkpointing
<1>5. CrashInv' /\ PoisonInv'
  BY <1>1, <1>3 DEF DInv, CrashInv, PoisonInv, Gives, Base, Owed
<1>6. ExactInv'
  BY <1>1, <1>2 DEF ExactInv, Matched, Ordered, Settled
<1>7. AppendInv' /\ StageInv'
  BY <1>1, <1>2 DEF AppendInv, StageInv, Checkpointing
<1> QED BY <1>4, <1>5, <1>6, <1>7 DEF DInv

-----------------------------------------------------------------------------
(* Crash, boot and the first state.                                         *)

\* What recovery makes of the files a crash left, it makes again.
LEMMA CrashDInv == ASSUME AllInv, CrashEngine PROVE DInv' /\ pub' \in Owed
<1> USE DEF AllInv
<1>1. /\ snap' \in snapDisk /\ wal' \in walDisk /\ snapDisk' = {snap'} /\ walDisk' = {wal'}
      /\ good' = 0 /\ mem' = NoModel /\ poisoned' = FALSE /\ op' = NoOp /\ todo' = <<>>
      /\ io' = "down" /\ staged' = NoModel /\ pub' = Recover(snap', wal')
      /\ doubt' = {pub'} /\ pending' = {}
  BY DEF CrashEngine, Crash
<1>2. snap' \in Model /\ wal' \in Logs /\ pub' \in Owed /\ pub' \in Model
  BY <1>1 DEF DInv, TypeInv, CrashInv, Gives, Base, Owed
<1>3. Recover(pub', wal') = pub'
  BY <1>1, <1>2, RecoverIsIdempotent DEF SameBase
<1>4. ~IsClientOp' /\ op'.kind = "none"
  BY <1>1 DEF IsClientOp, ClientKinds, NoOp
<1>5. TypeInv' /\ ClientInv'
  BY <1>1, <1>2, <1>4 DEF TypeInv, ClientInv, Checkpointing
<1>6. CrashInv' /\ PoisonInv'
  BY <1>1, <1>3 DEF CrashInv, PoisonInv, Gives, Base, Owed
<1>7. ExactInv'
  BY <1>1, <1>4 DEF ExactInv, Matched, Ordered, Settled
<1>8. AppendInv' /\ StageInv'
  BY <1>1, <1>4 DEF AppendInv, StageInv, Checkpointing
<1> QED BY <1>2, <1>5, <1>6, <1>7, <1>8 DEF DInv

\* The store opens, and every later crash recovers what it opened with.
LEMMA BootDInv == ASSUME AllInv, Boot PROVE DInv'
<1> USE DEF AllInv
<1>1. io = "down" /\ Recover(snap, wal) = pub /\ pub \in Model /\ pub # NoModel
  BY NoModelAssumption DEF Boot, OpenStore, At, IInv, OwedInv, DInv, TypeInv
<1>2. /\ io' = "idle" /\ mem' = pub
      /\ wal' = [hdr |-> TRUE, units |-> Intact(wal.units)]
      /\ walDisk' = walDisk \cup {wal'} /\ good' = Len(wal'.units)
      /\ UNCHANGED <<snap, snapDisk, poisoned, op, todo, staged, result>>
      /\ UNCHANGED <<pub, failStopped, lockPoisoned, pending, doubt>>
  BY <1>1 DEF Boot, OpenStore, engineVars
<1>3. wal \in Logs /\ ~Unreadable(wal)
  BY <1>1 DEF DInv, TypeInv, Recover
<1>4. wal' \in Logs /\ wal'.units \in Seq(Unit) /\ \A s : Recover(s, wal') = Recover(s, wal)
  BY <1>2, <1>3, RecoverKept
<1>5. ~IsClientOp /\ ~IsClientOp' /\ op'.kind = "none" /\ pending = {} /\ doubt = {pub} /\ ~poisoned
  BY <1>1, <1>2
  DEF IInv, OpInv, Resting, DInv, TypeInv, CrashInv, PoisonInv, IsClientOp, ClientKinds
<1>6. TypeInv' /\ ClientInv'
  <2>1. good' \in Nat
    BY <1>2, <1>4
  <2> QED BY <1>1, <1>2, <1>4, <1>5, <2>1 DEF DInv, TypeInv, ClientInv, Checkpointing
<1>7. Gives(Base, walDisk, {pub}) /\ wal \in walDisk
  BY <1>5 DEF DInv, CrashInv, TypeInv, Gives, Owed
<1>8. Gives(Base', walDisk', {pub})
  BY ZenonT(40), <1>2, <1>4, <1>7 DEF Gives, Base
<1>9. CrashInv' /\ PoisonInv'
  BY <1>2, <1>5, <1>8 DEF CrashInv, PoisonInv, Gives, Owed
<1>10. Exact' /\ Tidy'
  <2>1. wal'.hdr /\ good' >= Len(wal'.units)
    <3>1. Len(wal'.units) \in Nat
      BY <1>4
    <3> QED BY <1>2, <3>1
  <2> QED BY <1>2, <1>4, <1>8, <2>1 DEF Exact, Tidy, Gives, Base
<1>11. ExactInv'
  BY <1>2, <1>10 DEF ExactInv
<1>12. AppendInv' /\ StageInv'
  BY <1>2, <1>5 DEF AppendInv, StageInv, Checkpointing
<1> QED BY <1>6, <1>9, <1>11, <1>12 DEF DInv

LEMMA InitDInv == ASSUME Init PROVE DInv
<1>1. PICK order \in Order : snap = FreshModel(order)
  BY DEF Init, StoreInit
<1>2. snap \in Model
  BY <1>1, CubeModelAssumption DEF FreshModel, Model
<1>3. /\ snapDisk = {snap} /\ wal = EmptyWal /\ walDisk = {EmptyWal} /\ good = 0 /\ mem = snap
      /\ pub = mem /\ doubt = {mem} /\ pending = {} /\ poisoned = FALSE /\ op = NoOp
      /\ todo = <<>> /\ io = "idle" /\ staged = NoModel
  BY DEF Init, StoreInit
<1>4. ~IsClientOp /\ op.kind = "none"
  BY <1>3 DEF IsClientOp, ClientKinds, NoOp
<1>5. TypeInv /\ ClientInv
  BY <1>2, <1>3, <1>4, RecoverEmpty DEF TypeInv, ClientInv, Checkpointing
<1>6. CrashInv /\ PoisonInv /\ Exact
  BY <1>3, RecoverEmpty DEF CrashInv, PoisonInv, Exact, Gives, Base, Owed
<1>7. Tidy
  BY <1>3 DEF Tidy, EmptyWal
<1>8. ExactInv /\ AppendInv /\ StageInv
  BY <1>3, <1>4, <1>6, <1>7 DEF ExactInv, AppendInv, StageInv, Checkpointing
<1> QED BY <1>5, <1>6, <1>8 DEF DInv

LEMMA StutterDInv == ASSUME DInv, UNCHANGED vars PROVE DInv'
<1> USE DEF vars, storeVars, diskVars, runVars, engineVars
<1>1. TypeInv'
  BY DEF DInv, TypeInv, IsClientOp
<1>2. ClientInv'
  BY DEF DInv, ClientInv, IsClientOp, FromModel, AppendLeft, AutoLeft, FlushLeft, DefineLeft
<1>3. CrashInv' /\ PoisonInv'
  BY DEF DInv, CrashInv, PoisonInv, Gives, Base, Owed, AutoLeft
<1>4. ExactInv'
  BY DEF DInv, ExactInv, Matched, Ordered, Settled, Exact, Tidy, Gives, IsClientOp
<1>5. AppendInv'
  BY DEF DInv, AppendInv, Tidy, Gives, Base, Owed, Resized
<1>6. StageInv'
  BY DEF DInv, StageInv, Gives, Owed, AutoLeft, DefineLeft
<1> QED BY <1>1, <1>2, <1>3, <1>4, <1>5, <1>6 DEF DInv

-----------------------------------------------------------------------------
(* The theorems.                                                            *)

LEMMA NextDInv == ASSUME AllInv, [Next]_vars PROVE DInv'
<1>1. CASE StoreStep /\ UNCHANGED engineVars
  BY <1>1, StoreDInv
<1>2. CASE EngineStep
  BY <1>2, SubmitDInv, PublishDInv, RejectDInv, FailBatchDInv, FailDefinitionDInv,
     FinishRepairDInv, FinishCheckpointDInv, PanicDInv, RecoverLockDInv DEF EngineStep
<1>3. CASE CrashEngine
  BY <1>3, CrashDInv
<1>4. CASE Boot
  BY <1>4, BootDInv
<1>5. CASE UNCHANGED vars
  BY <1>5, StutterDInv DEF AllInv
<1> QED BY <1>1, <1>2, <1>3, <1>4, <1>5 DEF Next

\* Where the store can keep its promise, the files, the memory and the ghosts
\* stay in step through every operation, failure, crash and boot.
THEOREM DurableInvariance == ASSUME Recoverable PROVE Spec => [](IInv /\ MemInv /\ DInv)
<1>1. Init => IInv /\ MemInv /\ DInv
  BY InitIInv, InitMemInv, InitDInv
<1>2. IInv /\ MemInv /\ DInv /\ [Next]_vars => (IInv /\ MemInv /\ DInv)'
  BY NextIInv, NextMemInv, NextDInv DEF AllInv, Recoverable
<1> QED BY <1>1, <1>2, PTL DEF Spec

\* Store::append_wal, Store::checkpoint, Engine::apply_batch: whatever a crash
\* makes of the files, recovery finds the published model or a change that was
\* in progress or failed, never a refusal to open.
THEOREM PublishedSurvives == ASSUME Recoverable PROVE Spec => []PublishedIsKept
<1>1. IInv /\ MemInv /\ DInv => PublishedIsKept
  <2> SUFFICES ASSUME IInv, MemInv, DInv PROVE PublishedIsKept
    OBVIOUS
  <2>1. Idle => pending = {}
    BY DEF Idle, IInv, OpInv, Resting, DInv, TypeInv, IsClientOp, ClientKinds
  <2>2. Idle => staged = NoModel
    BY DEF Idle, DInv, TypeInv, Checkpointing
  <2>3. TypeOK
    BY <2>1, <2>2 DEF TypeOK, DInv, TypeInv, Logs, Idle, Running
  <2>4. CrashRecoversPublished
    BY DEF CrashRecoversPublished, DInv, CrashInv, Gives, Base, Owed
  <2> QED BY <2>3, <2>4 DEF PublishedIsKept
<1> QED BY <1>1, DurableInvariance, PTL

\* Every step of the engine is a step of the register or leaves it alone.
LEMMA StepsOfTheRegister ==
  ASSUME AllInv, DInv', [Next]_vars
  PROVE  [Abstract!AbsNext]_(Abstract!absVars)
<1> USE DEF AllInv, Abstract!absVars
<1>1. /\ pub \in doubt /\ (~IsClientOp => pending = {})
      /\ doubt' \cup pending' \subseteq Model
  BY DEF IInv, OwedInv, DInv, TypeInv
<1>2. CASE UNCHANGED engineVars \/ UNCHANGED vars
  BY <1>2 DEF engineVars, vars
<1>3. ASSUME NEW o \in Ops, Submit(o) PROVE Abstract!Attempt
  <2>1. pending = {} /\ doubt' = doubt /\ pub' = pub
    BY <1>1, <1>3 DEF Submit, Start, Idle, IInv, OpInv, Resting, IsClientOp, ClientKinds
  <2> QED BY <1>1, <2>1 DEF Abstract!Attempt
<1>4. CASE Publish
  <2>1. mem \in pending /\ pub' = mem /\ doubt' = {mem} /\ pending' = {}
    BY <1>4, DoneOwed DEF Publish, Return, Recoverable, NothingUnpublished, Faulty
  <2> QED BY <2>1 DEF Abstract!AbsNext, Abstract!Settle
<1>5. CASE Reject \/ FailBatch \/ FailDefinition \/ FinishRepair \/ FinishCheckpoint
  <2>1. /\ pub' = pub /\ pending' = {} /\ pub \in doubt'
        /\ doubt' \subseteq doubt \cup pending
    BY <1>1, <1>5 DEF Reject, FailBatch, FailDefinition, FinishRepair, FinishCheckpoint,
                      Return, Attempted
  <2> QED BY <2>1 DEF Abstract!AbsNext, Abstract!Discard
<1>6. CASE Panic
  BY <1>6 DEF Panic
<1>7. CASE RecoverLock
  BY <1>7 DEF RecoverLock
<1>8. CASE CrashEngine
  <2>1. pub' \in Owed /\ doubt' = {pub'} /\ pending' = {}
    BY <1>8, CrashDInv DEF CrashEngine
  <2> QED BY <2>1 DEF Abstract!AbsNext, Abstract!Settle, Owed
<1>9. CASE Boot
  BY <1>9 DEF Boot, engineVars
<1> QED BY <1>2, <1>3, <1>4, <1>5, <1>6, <1>7, <1>8, <1>9 DEF Next, EngineStep, Abstract!AbsNext

\* The engine over its store implements the register clients rely on: what
\* readers see changes to an outcome of an attempted change only, and a crash
\* leaves it or such an outcome.
THEOREM Implements == ASSUME Recoverable PROVE Spec => ImplementsAbstractCube
<1>1. Init => Abstract!AbsInit
  BY InitDInv DEF Init, DInv, TypeInv, Abstract!AbsInit
<1>2. (IInv /\ MemInv /\ DInv) /\ DInv' /\ [Next]_vars => [Abstract!AbsNext]_(Abstract!absVars)
  BY StepsOfTheRegister DEF AllInv
<1> QED BY <1>1, <1>2, DurableInvariance, PTL DEF Spec, ImplementsAbstractCube, Abstract!AbsSpec

=============================================================================
