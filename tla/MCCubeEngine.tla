---------------------------- MODULE MCCubeEngine ----------------------------
(* CubeEngine on one dimension of two members, so that a reorder moves a cell *)
(* under a log record, and two values.                                        *)
EXTENDS CubeEngine, TLC

CONSTANTS a, b

MCMembers == {a, b}
Pins == {Pin(a, on) : on \in BOOLEAN}
Sandboxing == {SandboxWrite(a, 1), CommitSandbox}
Reorders == {Edit("reorder", o) : o \in Order}
Retypes == {Edit("consolidate", a), Edit("leaf", a)}
Invalid == {Edit("invalid", a), InvalidView}

Writes == {Batch((1 :> 1)), Batch((1 :> 0))}
Pair   == {Batch((1 :> 1) @@ (2 :> 1))}

\* Every kind of operation; some of them are rejected by the model.
AllOps == Writes \cup Pair \cup Pins \cup Sandboxing \cup Reorders \cup Retypes \cup Invalid
\* No operation is rejected and none reindexes.
PlainOps == Writes \cup Sandboxing \cup {Pin(a, TRUE), Checkpoint}
AllFaults == {"append", "sync", "rollback", "snapshot", "dirsync", "truncate",
              "header", "walsync", "panic"}
PublishFaults == (AllFaults \ {"header", "panic"}) \cup {"watermark"}

(***************************************************************************)
(* Two settings.  "mixed": every operation and every fault of the store,    *)
(* with explicit checkpoints left out.  "unpublished": operations the model *)
(* accepts, the automatic checkpoint after the second append, and a mark    *)
(* that cannot be recorded, so that a logged commit stays unpublished.      *)
(***************************************************************************)
VARIABLE setting

Unpublished == INSTANCE CubeEngine
                 WITH Faults <- PublishFaults, Threshold <- 1, Ops <- PlainOps

MCInit == Init /\ setting \in {"mixed", "unpublished"}

MCNext ==
    /\ \/ setting = "mixed" /\ Next
       \/ setting = "unpublished" /\ Unpublished!Next
    /\ UNCHANGED setting

MCSpec == MCInit /\ [][MCNext]_<<vars, setting>>

=============================================================================
