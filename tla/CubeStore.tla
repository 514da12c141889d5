----------------------------- MODULE CubeStore -----------------------------
(***************************************************************************)
(* The durable store of one cube, epiphany-persist/src/store.rs: a snapshot *)
(* file, a write-ahead log and the model in memory, changed by operations   *)
(* that are sequences of file operations, each of which can fail, with a    *)
(* crash possible between any two.                                          *)
(*                                                                          *)
(* A file operation changes what the process sees at once; what a crash     *)
(* leaves is one of the contents the file has had since its last fsync,     *)
(* so the durable side of each file is the SET of contents it may have.     *)
(***************************************************************************)
EXTENDS Naturals, Sequences, SequencesExt

(***************************************************************************)
(* The durable content of one cube and what recovery makes of a snapshot    *)
(* and a log.  A model (epiphany-core Model) is reduced to what durability  *)
(* can get wrong: the member order of one dimension (a log record names a   *)
(* cell by member INDEX), which members are leaves (a cell write to         *)
(* anything else is rejected), the stored cells, the top-level pins (their  *)
(* log record names the member by NAME) and the overrides of one sandbox    *)
(* (which only a snapshot stores).                                          *)
(***************************************************************************)

CONSTANTS
    Members,    \* the members of the dimension
    Values,     \* cell values
    Empty,      \* the value of a cell that is not stored
    NoValue,    \* no sandbox override
    NoModel     \* a rejected change, or a store that refuses to open

ASSUME CubeModelAssumption == Empty \in Values /\ NoValue \notin Values

Position == 1 .. Cardinality(Members)
Order == {o \in [Position -> Members] : \A p, q \in Position : o[p] = o[q] => p = q}

Model == [ order   : Order,
           leaf    : SUBSET Members,
           cell    : [Members -> Values],
           pinned  : SUBSET Members,
           sandbox : [Members -> Values \cup {NoValue}] ]

ASSUME NoModelAssumption == NoModel \notin Model

FreshModel(order) ==
    [ order   |-> order,
      leaf    |-> Members,
      cell    |-> [m \in Members |-> Empty],
      pinned  |-> {},
      sandbox |-> [m \in Members |-> NoValue] ]

PositionOf(model, m) == CHOOSE p \in Position : model.order[p] = m

-----------------------------------------------------------------------------
(* Log units.  One append is one unit (WalLog shows that a unit is replayed *)
(* whole or not at all); a unit of cell writes maps positions to values.    *)

CellUnit(writes) == [op |-> "cells", writes |-> writes]
PinUnit(m, on)   == [op |-> "pin", member |-> m, on |-> on]
Torn == [op |-> "torn"]

CellUnits == {CellUnit(w) : w \in UNION {[P -> Values] : P \in SUBSET Position}}
PinUnits  == {PinUnit(m, on) : m \in Members, on \in BOOLEAN}
Unit == CellUnits \cup PinUnits

\* Cube::set_leaf and its siblings over a unit; NoModel when it is rejected
ApplyUnit(model, u) ==
    CASE u.op = "cells" ->
           LET targets == {model.order[p] : p \in DOMAIN u.writes} IN
           IF targets \subseteq model.leaf
           THEN [model EXCEPT !.cell = [m \in Members |->
                    IF m \in targets THEN u.writes[PositionOf(model, m)] ELSE @[m]]]
           ELSE NoModel
      [] u.op = "pin" ->
           [model EXCEPT !.pinned = IF u.on THEN @ \cup {u.member} ELSE @ \ {u.member}]

-----------------------------------------------------------------------------
(* Definition changes and structural edits, each on the whole model.        *)

\* Model::set_element_kind, add_child_element, reparent_element: the member
\* becomes a consolidation, its cell and its sandbox override are dropped
Consolidate(model, m) ==
    [model EXCEPT !.leaf = @ \ {m}, !.cell[m] = Empty, !.sandbox[m] = NoValue]

\* Model::set_element_kind back to a leaf: it starts empty
MakeLeaf(model, m) == [model EXCEPT !.leaf = @ \cup {m}]

\* Model::reorder_elements: cells and overrides follow their member
Reorder(model, order) == [model EXCEPT !.order = order]

\* Store::sandbox_set_cells: validated like a batch, recorded in the overlay
SandboxSet(model, m, v) ==
    IF m \in model.leaf THEN [model EXCEPT !.sandbox[m] = v] ELSE NoModel

SandboxClear(model) == [model EXCEPT !.sandbox = [m \in Members |-> NoValue]]

\* The batch Store::commit_sandbox applies to the base cube
SandboxUnit(model) ==
    CellUnit([p \in {q \in Position : model.sandbox[model.order[q]] # NoValue} |->
                model.sandbox[model.order[p]]])

-----------------------------------------------------------------------------
(* What Store::open recovers from a snapshot and a log file.                *)

\* hdr: the 8-byte header is complete
EmptyWal == [hdr |-> TRUE, units |-> <<>>]
NoWal    == [hdr |-> FALSE, units |-> <<>>]

IntactLen(units) ==
    IF Torn \in ToSet(units) THEN SelectInSeq(units, LAMBDA u : u = Torn) - 1 ELSE Len(units)

\* wal::replay refuses a file without a header, and one with an intact
\* frame after a bad one
Unreadable(w) ==
    \/ ~w.hdr /\ w.units # <<>>
    \/ \E i \in DOMAIN w.units : i > IntactLen(w.units) /\ w.units[i] # Torn

ReplayUnit(model, u) == IF model = NoModel THEN NoModel ELSE ApplyUnit(model, u)

Replay(model, units) ==
    LET after[n \in 0 .. Len(units)] ==
          IF n = 0 THEN model ELSE ReplayUnit(after[n - 1], units[n])
    IN  after[Len(units)]

Intact(units) == SubSeq(units, 1, IntactLen(units))

Recover(snapshot, w) ==
    IF Unreadable(w) THEN NoModel ELSE Replay(snapshot, Intact(w.units))

-----------------------------------------------------------------------------

CONSTANTS
    Faults,     \* the file operations that may fail
    Threshold   \* wal_checkpoint_threshold, in units; 0 disables it

VARIABLES
    snap,       \* the snapshot file as the process sees it
    snapDisk,   \* the contents a crash may leave in it
    wal,        \* the log file as the process sees it
    walDisk,    \* the contents a crash may leave in it
    good,       \* good_len, in units past the header
    mem,        \* the model in memory
    poisoned,   \* no append or checkpoint until reopened
    op,         \* the operation in progress
    todo,       \* its stages still to run
    io,         \* the next file operation of the current stage
    staged,     \* the model being checkpointed
    result      \* "ok", or the class of the error the operation returns

diskVars  == <<snap, snapDisk, wal, walDisk>>
runVars   == <<op, todo, io, staged, result>>
storeVars == <<diskVars, good, mem, poisoned, runVars>>

-----------------------------------------------------------------------------
(* Operations and their stages.                                             *)

Batch(writes)     == [kind |-> "batch", unit |-> CellUnit(writes)]
Pin(m, on)        == [kind |-> "pin", unit |-> PinUnit(m, on)]
SandboxWrite(m, v) == [kind |-> "sandboxSet", member |-> m, value |-> v]
CommitSandbox     == [kind |-> "commitSandbox"]
Edit(e, arg)      == [kind |-> "edit", edit |-> e, arg |-> arg]
InvalidView       == [kind |-> "view"]
Checkpoint        == [kind |-> "checkpoint"]
NoOp              == [kind |-> "none"]

\* What a client may submit; a batch comes with the positions it resolved to.
Operation ==
    [kind : {"batch"}, unit : CellUnits] \cup [kind : {"pin"}, unit : PinUnits]
    \cup [kind : {"sandboxSet"}, member : Members, value : Values]
    \cup [kind : {"edit"}, edit : {"consolidate", "leaf", "invalid"}, arg : Members]
    \cup [kind : {"edit"}, edit : {"reorder"}, arg : Order]
    \cup {CommitSandbox, InvalidView, Checkpoint}

\* The unit an operation appends to the log.
UnitOf(o, model) ==
    IF o.kind = "commitSandbox" THEN SandboxUnit(model) ELSE o.unit

\* The model a staged definition change makes of the current one.
Defined(o, model) ==
    CASE o.kind = "sandboxSet"    -> SandboxSet(model, o.member, o.value)
      [] o.kind = "commitSandbox" -> SandboxClear(model)
      [] o.kind = "view"          -> NoModel
      [] o.kind = "edit" ->
           CASE o.edit = "consolidate" -> Consolidate(model, o.arg)
             [] o.edit = "leaf"        -> MakeLeaf(model, o.arg)
             [] o.edit = "reorder"     -> Reorder(model, o.arg)
             [] o.edit = "invalid"     -> NoModel

\* Weakened: an edit is staged while the log still holds records.
StagesUnflushed(o) ==
    CASE o.kind \in {"batch", "pin"} -> <<"append", "auto">>
      [] o.kind = "commitSandbox"    -> <<"append", "auto", "define">>
      [] o.kind = "checkpoint"       -> <<"checkpoint">>
      [] OTHER                       -> <<"define">>

\* The stages of each operation, in the order the code runs them.  A
\* reindexing or retyping edit checkpoints before it stages the edit.
Stages(o) ==
    CASE o.kind = "batch"         -> <<"append", "auto">>
      [] o.kind = "pin"           -> <<"append", "auto">>
      [] o.kind = "sandboxSet"    -> <<"define">>
      [] o.kind = "commitSandbox" -> <<"append", "auto", "define">>
      [] o.kind = "view"          -> <<"define">>
      [] o.kind = "edit"          -> <<"checkpoint", "define">>
      [] o.kind = "checkpoint"    -> <<"checkpoint">>

Appends(o) == "append" \in ToSet(Stages(o))

\* The models an operation may leave durable when it starts from model: the
\* complete result, and for a sandbox commit also the merged batch alone.
Outcomes(o, model) ==
    LET batched == IF o.kind \in {"batch", "pin", "commitSandbox"}
                   THEN ApplyUnit(model, UnitOf(o, model)) ELSE model
        final == IF o.kind \in {"sandboxSet", "commitSandbox", "view", "edit"} /\ batched # NoModel
                 THEN Defined(o, batched) ELSE batched
    IN {batched, final} \ {NoModel}

-----------------------------------------------------------------------------
(* The control of an operation.                                             *)

Idle == io = "idle"
At(step) == io = step
InStage(stage) == io = "start" /\ todo # <<>> /\ Head(todo) = stage

\* The operation goes on with its next stage, or returns Ok.
NextStage ==
    /\ todo' = Tail(todo)
    /\ IF Len(todo) = 1 THEN io' = "done" /\ result' = "ok"
                        ELSE io' = "start" /\ UNCHANGED result
    /\ UNCHANGED op

\* Weakened: a failed operation keeps the model it staged.
FailKeepingStaged(class) ==
    /\ io' = "done"
    /\ result' = class
    /\ todo' = <<>>
    /\ UNCHANGED <<op, staged>>

Fail(class) ==
    /\ io' = "done"
    /\ result' = class
    /\ todo' = <<>>
    /\ staged' = NoModel
    /\ UNCHANGED op

Step(next) == io' = next /\ UNCHANGED <<op, todo, result>>

Start(o) ==
    /\ Idle
    /\ op' = o
    /\ todo' = Stages(o)
    /\ io' = "start"
    /\ result' = "ok"
    /\ UNCHANGED staged

Faulty(step) == step \in Faults

-----------------------------------------------------------------------------
(* append_wal.                                                              *)

\* set_batch validates before the append; set_pin changes memory before it.
StartAppend ==
    LET unit == UnitOf(op, mem) IN
    /\ InStage("append")
    /\ IF poisoned THEN Fail("Poisoned") /\ UNCHANGED mem
       ELSE IF ApplyUnit(mem, unit) = NoModel THEN Fail("Rejected") /\ UNCHANGED mem
       ELSE /\ Step("write")
            /\ mem' = IF op.kind = "pin" THEN ApplyUnit(mem, unit) ELSE mem
            /\ UNCHANGED staged
    /\ UNCHANGED <<diskVars, good, poisoned>>

WithUnit(u) == [wal EXCEPT !.units = Append(@, u)]

Write ==
    LET unit == UnitOf(op, mem) IN
    /\ At("write")
    /\ \/ /\ wal' = WithUnit(unit)
          /\ walDisk' = walDisk \cup {WithUnit(Torn), WithUnit(unit)}
          /\ Step("sync")
       \/ /\ Faulty("append")
          /\ wal' \in {wal, WithUnit(Torn)}
          /\ walDisk' = walDisk \cup {wal'}
          /\ Step("rollback")
    /\ UNCHANGED <<snap, snapDisk, good, mem, poisoned, staged>>

\* Once the log is durable, set_batch applies the writes to memory.
Sync ==
    /\ At("sync")
    /\ \/ /\ walDisk' = {wal}
          /\ good' = good + 1
          /\ mem' = IF op.kind = "pin" THEN mem ELSE ApplyUnit(mem, UnitOf(op, mem))
          /\ NextStage
       \/ /\ Faulty("sync")
          /\ Step("rollback")
          /\ UNCHANGED <<walDisk, good, mem>>
    /\ UNCHANGED <<snap, snapDisk, wal, poisoned, staged>>

\* set_len(n): a longer file is cut, a shorter one grows by bytes no frame is in
Resized(n) ==
    [wal EXCEPT !.units = IF Len(@) >= n THEN SubSeq(@, 1, n) ELSE Append(@, Torn)]

\* poison_wal: the roll back to good_len is best-effort
PoisonWal ==
    /\ At("rollback")
    /\ poisoned' = TRUE
    /\ \/ wal' = Resized(good) /\ walDisk' = walDisk \cup {wal'}
       \/ Faulty("rollback") /\ UNCHANGED <<wal, walDisk>>
    /\ Fail("Io")
    /\ UNCHANGED <<snap, snapDisk, good, mem>>

-----------------------------------------------------------------------------
(* checkpoint, staged_define and checkpoint_model.                          *)

StartAuto ==
    /\ InStage("auto")
    /\ IF Threshold # 0 /\ ~poisoned /\ good > Threshold
       THEN staged' = mem /\ Step("snapshot")
       ELSE NextStage /\ UNCHANGED staged
    /\ UNCHANGED <<diskVars, good, mem, poisoned>>

StartCheckpoint ==
    /\ InStage("checkpoint")
    /\ IF poisoned THEN Fail("Poisoned")
       ELSE staged' = mem /\ Step("snapshot")
    /\ UNCHANGED <<diskVars, good, mem, poisoned>>

StartDefine ==
    /\ InStage("define")
    /\ IF poisoned THEN Fail("Poisoned")
       ELSE IF Defined(op, mem) = NoModel THEN Fail("Rejected")
       ELSE staged' = Defined(op, mem) /\ Step("snapshot")
    /\ UNCHANGED <<diskVars, good, mem, poisoned>>

\* write_snapshot: a fsynced temporary file is renamed over the snapshot ...
WriteSnapshot ==
    /\ At("snapshot")
    /\ \/ /\ snap' = staged
          /\ snapDisk' = snapDisk \cup {staged}
          /\ Step("dirsync")
          /\ UNCHANGED staged
       \/ Faulty("snapshot") /\ Fail("Io") /\ UNCHANGED <<snap, snapDisk>>
    /\ UNCHANGED <<wal, walDisk, good, mem, poisoned>>

\* Weakened: the log is truncated before the rename is durable.
SyncDirSkipped ==
    /\ At("dirsync")
    /\ Step("truncate")
    /\ UNCHANGED <<snap, snapDisk, wal, walDisk, good, mem, poisoned, staged>>

\* ... and the rename made durable
SyncDir ==
    /\ At("dirsync")
    /\ \/ snapDisk' = {snap} /\ Step("truncate") /\ UNCHANGED staged
       \/ Faulty("dirsync") /\ Fail("Io") /\ UNCHANGED snapDisk
    /\ UNCHANGED <<snap, wal, walDisk, good, mem, poisoned>>

Truncate ==
    /\ At("truncate")
    /\ \/ /\ wal' = NoWal
          /\ walDisk' = walDisk \cup {NoWal}
          /\ Step("header")
          /\ UNCHANGED staged
       \/ Faulty("truncate") /\ Fail("Io") /\ UNCHANGED <<wal, walDisk>>
    /\ UNCHANGED <<snap, snapDisk, good, mem, poisoned>>

WriteHeader ==
    /\ At("header")
    /\ \/ /\ wal' = EmptyWal
          /\ walDisk' = walDisk \cup {EmptyWal}
          /\ Step("walsync")
          /\ UNCHANGED staged
       \/ Faulty("header") /\ Fail("Io") /\ UNCHANGED <<wal, walDisk>>
    /\ UNCHANGED <<snap, snapDisk, good, mem, poisoned>>

\* The staged model becomes the live one only here.
SyncWal ==
    /\ At("walsync")
    /\ \/ /\ walDisk' = {wal}
          /\ good' = 0
          /\ mem' = staged
          /\ staged' = NoModel
          /\ NextStage
       \/ Faulty("walsync") /\ Fail("Io") /\ UNCHANGED <<walDisk, good, mem>>
    /\ UNCHANGED <<snap, snapDisk, wal, poisoned>>

StoreStep ==
    \/ StartAppend \/ Write \/ Sync \/ PoisonWal
    \/ StartAuto \/ StartCheckpoint \/ StartDefine
    \/ WriteSnapshot \/ SyncDir \/ Truncate \/ WriteHeader \/ SyncWal

-----------------------------------------------------------------------------
(* Crash and recovery.                                                      *)

Running == io \notin {"down", "refused"}

Crash ==
    /\ Running
    /\ snap' \in snapDisk
    /\ wal' \in walDisk
    /\ snapDisk' = {snap'}
    /\ walDisk' = {wal'}
    /\ good' = 0
    /\ mem' = NoModel
    /\ poisoned' = FALSE
    /\ op' = NoOp
    /\ todo' = <<>>
    /\ io' = "down"
    /\ staged' = NoModel
    /\ result' = "ok"

\* Store::open; a log shorter than its header is started afresh
OpenStore ==
    LET recovered == Recover(snap, wal) IN
    /\ At("down")
    /\ IF recovered = NoModel
       THEN io' = "refused" /\ UNCHANGED <<wal, walDisk, good, mem>>
       ELSE /\ io' = "idle"
            /\ mem' = recovered
            /\ wal' = [hdr |-> TRUE, units |-> Intact(wal.units)]
            /\ walDisk' = walDisk \cup {wal'}
            /\ good' = Len(wal'.units)
    /\ UNCHANGED <<snap, snapDisk, poisoned, op, todo, staged, result>>

\* Store::create
StoreInit ==
    \E order \in Order :
        /\ snap = FreshModel(order)
        /\ snapDisk = {snap}
        /\ wal = EmptyWal
        /\ walDisk = {EmptyWal}
        /\ good = 0
        /\ mem = snap
        /\ poisoned = FALSE
        /\ op = NoOp
        /\ todo = <<>>
        /\ io = "idle"
        /\ staged = NoModel
        /\ result = "ok"
=============================================================================
