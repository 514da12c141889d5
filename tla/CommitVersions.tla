--------------------------- MODULE CommitVersions ---------------------------
(***************************************************************************)
(* Commit versions across cubes and restarts: the shared counter every      *)
(* commit mints from (epiphany-determinism IdGen), the durable high-water   *)
(* mark it is seeded past at boot (epiphany-persist/src/watermark.rs) and   *)
(* the order in which Engine::apply_batch, define_with_sandbox and          *)
(* create_cube mint, record and publish.  Cubes commit concurrently, each   *)
(* under its own writer lock; the mark file has a lock of its own.          *)
(*                                                                          *)
(* What a cube holds is reduced to how many changes its store has made      *)
(* durable (CubeEngine models that part), which tells two commits apart.    *)
(***************************************************************************)
EXTENDS Naturals

CONSTANTS
    Cubes,
    NoCube,         \* the mark lock is free
    MarkFaults,     \* the steps on the mark file that may fail: "read",
                    \* "write" (the temporary file or its rename), "dirsync"
    MaxVersion,     \* bound on the versions minted
    MaxRev          \* bound on the changes of one cube

ASSUME NoCubeAssumption == NoCube \notin Cubes
ASSUME BoundsAssumption == MaxVersion \in Nat /\ MaxRev \in Nat

VARIABLES
    nextId,     \* IdGen.next
    mark,       \* commit-watermark as the process reads it
    markDisk,   \* the marks a crash may leave
    markLock,   \* commit_watermark_lock: the cube that holds it
    pc,         \* each cube's commit
    minted,     \* the version that commit minted
    version,    \* the version readers see, also the writer's CAS base
    rev,        \* the changes the cube's store holds
    shown,      \* the changes readers see
    history     \* ghost: every version a client has been shown, and of what

cubeVars == <<version, rev, shown, history>>
markVars == <<mark, markDisk>>
vars == <<nextId, markVars, markLock, pc, minted, cubeVars>>

Seen(c, v, r) == [cube |-> c, ver |-> v, rev |-> r]

\* Engine::from_stores publishes every recovered cube as version 0.
Init ==
    /\ nextId = 1
    /\ mark = 0
    /\ markDisk = {0}
    /\ markLock = NoCube
    /\ pc = [c \in Cubes |-> "idle"]
    /\ minted = [c \in Cubes |-> 0]
    /\ version = [c \in Cubes |-> 0]
    /\ rev = [c \in Cubes |-> 0]
    /\ shown = [c \in Cubes |-> 0]
    /\ history = {Seen(c, 0, 0) : c \in Cubes}

Faulty(step) == step \in MarkFaults

\* read_commit_watermark: a mark that cannot be read counts as none
ReadMark == {mark} \cup (IF Faulty("read") THEN {0} ELSE {})

Goto(c, label) == pc' = [pc EXCEPT ![c] = label]

-----------------------------------------------------------------------------
(* A commit of cube c.                                                      *)

\* The optimistic check of a commit that names the version it was made from.
CasAccepts(c, base) == base.cube = c /\ base.ver = version[c]

\* The store makes the change durable.  A commit without a base is accepted
\* whatever the version, so a conflict changes nothing that is modelled.
Change(c) ==
    /\ pc[c] = "idle"
    /\ rev[c] < MaxRev
    /\ rev' = [rev EXCEPT ![c] = @ + 1]
    /\ Goto(c, "changed")
    /\ UNCHANGED <<nextId, markVars, markLock, minted, version, shown, history>>

\* Weakened: the counter is read and advanced in two steps.
MintTorn(c) ==
    /\ pc[c] = "changed"
    /\ nextId <= MaxVersion
    /\ minted' = [minted EXCEPT ![c] = nextId]
    /\ nextId' \in {nextId, nextId + 1}
    /\ Goto(c, "minted")
    /\ UNCHANGED <<markVars, markLock, cubeVars>>

\* IdGen::next_id is one atomic step.
Mint(c) ==
    /\ pc[c] = "changed"
    /\ nextId <= MaxVersion
    /\ minted' = [minted EXCEPT ![c] = nextId]
    /\ nextId' = nextId + 1
    /\ Goto(c, "minted")
    /\ UNCHANGED <<markVars, markLock, cubeVars>>

LockMark(c) ==
    /\ pc[c] = "minted"
    /\ markLock = NoCube
    /\ markLock' = c
    /\ Goto(c, "marking")
    /\ UNCHANGED <<nextId, markVars, minted, cubeVars>>

\* write_commit_watermark has nothing to do: the mark is already higher.
MarkIsHigher(c) ==
    /\ pc[c] = "marking"
    /\ \E read \in ReadMark : minted[c] <= read
    /\ markLock' = NoCube
    /\ Goto(c, "recorded")
    /\ UNCHANGED <<nextId, markVars, minted, cubeVars>>

\* A fsynced temporary file is renamed over the mark ...
RenameMark(c) ==
    /\ pc[c] = "marking"
    /\ \E read \in ReadMark : minted[c] > read
    /\ mark' = minted[c]
    /\ markDisk' = markDisk \cup {minted[c]}
    /\ Goto(c, "renamed")
    /\ UNCHANGED <<nextId, markLock, minted, cubeVars>>

\* Weakened: the rename is never made durable.
SyncMarkSkipped(c) ==
    /\ pc[c] = "renamed"
    /\ markLock' = NoCube
    /\ Goto(c, "recorded")
    /\ UNCHANGED <<nextId, markVars, minted, cubeVars>>

\* ... and the rename made durable.
SyncMark(c) ==
    /\ pc[c] = "renamed"
    /\ markDisk' = {mark}
    /\ markLock' = NoCube
    /\ Goto(c, "recorded")
    /\ UNCHANGED <<nextId, mark, minted, cubeVars>>

\* The mark could not be recorded: the caller gets an error, the version is
\* skipped, and the store keeps the change.
MarkFails(c) ==
    /\ \/ pc[c] = "marking" /\ Faulty("write")
       \/ pc[c] = "renamed" /\ Faulty("dirsync")
    /\ markLock' = NoCube
    /\ Goto(c, "idle")
    /\ UNCHANGED <<nextId, markVars, minted, cubeVars>>

Publish(c) ==
    /\ pc[c] = "recorded"
    /\ version' = [version EXCEPT ![c] = minted[c]]
    /\ shown' = [shown EXCEPT ![c] = rev[c]]
    /\ history' = history \cup {Seen(c, minted[c], rev[c])}
    /\ Goto(c, "idle")
    /\ UNCHANGED <<nextId, markVars, markLock, minted, rev>>

\* Weakened: the counter restarts with the process.
RestartUnseeded ==
    /\ mark' \in markDisk
    /\ markDisk' = {mark'}
    /\ nextId' = 1
    /\ markLock' = NoCube
    /\ pc' = [c \in Cubes |-> "idle"]
    /\ minted' = [c \in Cubes |-> 0]
    /\ version' = [c \in Cubes |-> 0]
    /\ shown' = rev
    /\ history' = history \cup {Seen(c, 0, rev[c]) : c \in Cubes}
    /\ UNCHANGED rev

\* The process dies and boots: the counter is seeded past the mark it reads,
\* and every cube is published as version 0 with all its store holds.
Restart ==
    /\ \E left \in markDisk :
          /\ mark' = left
          /\ markDisk' = {left}
          /\ \/ nextId' = left + 1
             \/ Faulty("read") /\ nextId' = 1
    /\ markLock' = NoCube
    /\ pc' = [c \in Cubes |-> "idle"]
    /\ minted' = [c \in Cubes |-> 0]
    /\ version' = [c \in Cubes |-> 0]
    /\ shown' = rev
    /\ history' = history \cup {Seen(c, 0, rev[c]) : c \in Cubes}
    /\ UNCHANGED rev

CommitStep(c) ==
    \/ Change(c) \/ Mint(c) \/ LockMark(c) \/ MarkIsHigher(c)
    \/ RenameMark(c) \/ SyncMark(c) \/ MarkFails(c) \/ Publish(c)

Next == (\E c \in Cubes : CommitStep(c)) \/ Restart

Spec == Init /\ [][Next]_vars

-----------------------------------------------------------------------------
(* Properties.                                                              *)

Label == {"idle", "changed", "minted", "marking", "renamed", "recorded"}

\* Every variable keeps its type, and the mark lock belongs to exactly the
\* commit that is inside write_commit_watermark.
TypeOK ==
    /\ nextId \in Nat
    /\ mark \in Nat
    /\ markDisk \subseteq Nat
    /\ mark \in markDisk
    /\ markLock \in Cubes \cup {NoCube}
    /\ pc \in [Cubes -> Label]
    /\ minted \in [Cubes -> Nat]
    /\ version \in [Cubes -> Nat]
    /\ rev \in [Cubes -> Nat]
    /\ shown \in [Cubes -> Nat]
    /\ history \subseteq [cube : Cubes, ver : Nat, rev : Nat]
    /\ \A c \in Cubes : pc[c] \in {"marking", "renamed"} <=> markLock = c

\* record_commit_version: at every moment, whichever mark a crash leaves, it
\* is at least every version any client has ever been shown, so the counter
\* seeded past it cannot hand one out again.
PublishedBelowMark == \A m \in markDisk : \A h \in history : h.ver <= m

\* Versions order the commits of a cube for good: a published version is
\* larger than every version that cube was ever seen at, in this boot or an
\* earlier one, and no other cube was ever seen at it.
VersionsIncrease ==
    [][\A c \in Cubes : version'[c] \notin {version[c], 0} =>
          \A h \in history : /\ h.ver # version'[c]
                             /\ h.cube = c => h.ver < version'[c]]_vars

\* The optimistic check of apply_batch: a client whose base version (other
\* than 0, which every boot publishes) is accepted has seen what the cube
\* shows now, however many commits, failures and restarts came between.
CasBaseIsCurrent ==
    \A c \in Cubes : \A base \in history :
        CasAccepts(c, base) /\ base.ver # 0 => base.rev = shown[c]

\* lib.rs:419-422 promises of every base version what CasBaseIsCurrent says:
\* "a restart seeds the version counter past it and versions strictly increase
\* across restarts (no ABA reuse of a base_version/cache key)".  Version 0 is
\* reused by every boot (README, section 5); no run checks this one.
AnyCasBaseIsCurrent ==
    \A c \in Cubes : \A base \in history : CasAccepts(c, base) => base.rev = shown[c]

=============================================================================
