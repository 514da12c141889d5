------------------------------- MODULE WalLog -------------------------------
(***************************************************************************)
(* The write-ahead log of one cube: the framing epiphany-persist/src/wal.rs *)
(* writes and the scan its recovery runs over whatever a crash, a failed    *)
(* append or bit rot left in the file.                                      *)
(*                                                                          *)
(* A file is a sequence of frames.  A frame stands for                      *)
(* [len][payload][crc]; its bytes are abstracted to what the scan tells     *)
(* apart: a cell record, a batch's begin or end marker, or a frame whose    *)
(* length, checksum or opcode is not intact.  Byte offsets become frame     *)
(* counts, so good_len is a number of frames.                               *)
(***************************************************************************)
EXTENDS Naturals, Sequences, SequencesExt

CONSTANTS
    Cells,      \* the cell records (SetLeaf, SetString, SetPin)
    MaxBatch,   \* bound on the records of a batch
    MaxFrames   \* bound on the length of the file

ASSUME MaxFramesAssumption == MaxBatch \in Nat /\ MaxFrames \in Nat

VARIABLES
    log,          \* the frames in the file
    acked,        \* the units whose append was acknowledged, in order
    doubtful,     \* the unit of the last append that did not return Ok, if any
    rotten,       \* the frame bit rot hit, or 0
    storeStatus   \* the store: "open", "poisoned", "closed" or "refused"

logVars == <<log, acked, doubtful, rotten, storeStatus>>

-----------------------------------------------------------------------------
(* Frames and units.                                                        *)

CellFrame(c) == [op |-> "cell", rec |-> c]
Begin == [op |-> "begin"]
End   == [op |-> "end"]
Bad   == [op |-> "bad"]

Frame == {CellFrame(c) : c \in Cells} \cup {Begin, End, Bad}

\* A unit is what one append_wal call writes: one bare record or one batch.
Bare(c)   == [batch |-> FALSE, recs |-> <<c>>]
Batch(cs) == [batch |-> TRUE, recs |-> cs]
Unit == {Bare(c) : c \in Cells} \cup {Batch(cs) : cs \in BoundedSeq(Cells, MaxBatch)}

CellFrames(recs) == [i \in DOMAIN recs |-> CellFrame(recs[i])]

\* encode, and the framing set_batch gives a batch
Encode(u) ==
    IF u.batch THEN <<Begin>> \o CellFrames(u.recs) \o <<End>>
               ELSE CellFrames(u.recs)

Records(units) == FlattenSeq([i \in DOMAIN units |-> units[i].recs])

-----------------------------------------------------------------------------
(* Recovery's scan.                                                         *)

NoBatch == [open |-> FALSE, recs |-> <<>>]

ScanStart == [records |-> <<>>, batch |-> NoBatch, good |-> 0, pos |-> 0, broken |-> FALSE]

\* Weakened: the records of an open batch are not held back.
ScanFrameEager(s, f) ==
    CASE s.broken -> s
      [] ~s.broken /\ f.op = "bad" -> [s EXCEPT !.broken = TRUE]
      [] ~s.broken /\ f.op \in {"begin", "end"} -> [s EXCEPT !.good = @ + 1, !.pos = @ + 1]
      [] ~s.broken /\ f.op = "cell" ->
            [s EXCEPT !.records = Append(@, f.rec), !.good = @ + 1, !.pos = @ + 1]

\* One round of the loop: s.pos frames were read, f is the next one.
ScanFrame(s, f) ==
    LET next == s.pos + 1 IN
    CASE s.broken -> s
      [] ~s.broken /\ f.op = "bad" -> [s EXCEPT !.broken = TRUE]
      [] ~s.broken /\ f.op = "begin" ->
            [s EXCEPT !.batch = [open |-> TRUE, recs |-> <<>>], !.pos = next]
      [] ~s.broken /\ f.op = "end" /\ s.batch.open ->
            [s EXCEPT !.records = @ \o s.batch.recs, !.batch = NoBatch,
                      !.good = next, !.pos = next]
      [] ~s.broken /\ f.op = "end" /\ ~s.batch.open -> [s EXCEPT !.broken = TRUE]
      [] ~s.broken /\ f.op = "cell" /\ s.batch.open ->
            [s EXCEPT !.batch.recs = Append(@, f.rec), !.pos = next]
      [] ~s.broken /\ f.op = "cell" /\ ~s.batch.open ->
            [s EXCEPT !.records = Append(@, f.rec), !.good = next, !.pos = next]

Scan(file) == FoldLeft(ScanFrame, ScanStart, file)

HasIntactFrameAfter(file, breakPos) ==
    \E i \in breakPos + 2 .. Len(file) : file[i] # Bad

\* Weakened: every break is taken for a torn tail.
ReplayTruncating(file) ==
    LET s == Scan(file) IN
    [records |-> s.records, good |-> s.good, corruptWithValidTail |-> FALSE]

Replay(file) ==
    LET s == Scan(file) IN
    [ records |-> s.records,
      good    |-> s.good,
      corruptWithValidTail |-> s.broken /\ HasIntactFrameAfter(file, s.pos) ]

-----------------------------------------------------------------------------
(* The writer, the failures and recovery.                                   *)

LogInit ==
    /\ log = <<>>
    /\ acked = <<>>
    /\ doubtful = <<>>
    /\ rotten = 0
    /\ storeStatus = "open"

\* What a write_all of the frames fs may leave behind: some whole frames,
\* and possibly a torn one.
Partial(fs) ==
    {SubSeq(fs, 1, k) : k \in 0 .. Len(fs)}
        \cup {SubSeq(fs, 1, k) \o <<Bad>> : k \in 0 .. Len(fs) - 1}

AppendWal(u) ==
    /\ storeStatus = "open"
    /\ Len(log) + Len(Encode(u)) <= MaxFrames
    /\ log' = log \o Encode(u)
    /\ acked' = Append(acked, u)
    /\ UNCHANGED <<doubtful, rotten, storeStatus>>

\* Weakened: a failed append leaves the store writable.
AppendWalFailsOpen(u) ==
    /\ storeStatus = "open"
    /\ Len(log) + Len(Encode(u)) <= MaxFrames
    /\ \E left \in Partial(Encode(u)) : log' = log \o left
    /\ doubtful' = <<u>>
    /\ UNCHANGED <<acked, rotten, storeStatus>>

\* write_all or sync_data fails: poison_wal cuts the file back to the last
\* good offset, best-effort, and no append follows until a reopen.
AppendWalFails(u) ==
    /\ storeStatus = "open"
    /\ Len(log) + Len(Encode(u)) <= MaxFrames
    /\ \E left \in Partial(Encode(u)) : log' = log \o left
    /\ doubtful' = <<u>>
    /\ storeStatus' = "poisoned"
    /\ UNCHANGED <<acked, rotten>>

\* The process dies inside write_all or before sync_data returned.
CrashInAppend(u) ==
    /\ storeStatus = "open"
    /\ Len(log) + Len(Encode(u)) <= MaxFrames
    /\ \E left \in Partial(Encode(u)) : log' = log \o left
    /\ doubtful' = <<u>>
    /\ storeStatus' = "closed"
    /\ UNCHANGED <<acked, rotten>>

Stop ==
    /\ storeStatus \in {"open", "poisoned"}
    /\ storeStatus' = "closed"
    /\ UNCHANGED <<log, acked, doubtful, rotten>>

\* A bad sector damages one frame of the file at rest.
Rot(i) ==
    /\ storeStatus = "closed"
    /\ rotten = 0
    /\ log[i] # Bad
    /\ log' = [log EXCEPT ![i] = Bad]
    /\ rotten' = i
    /\ UNCHANGED <<acked, doubtful, storeStatus>>

\* How many of the units, written one after the other, fit in n frames.
UnitsIn(units, n) ==
    Max({k \in 0 .. Len(units) :
           Len(FlattenSeq([i \in 1 .. k |-> Encode(units[i])])) <= n})

\* Store::open: refuse a corrupt middle (the file is set aside as
\* wal.log.corrupt), else cut the torn tail off and go on from there.
Open ==
    LET r == Replay(log)
        units == acked \o doubtful
    IN
    /\ storeStatus = "closed"
    /\ IF r.corruptWithValidTail
       THEN /\ storeStatus' = "refused"
            /\ UNCHANGED <<log, acked, doubtful, rotten>>
       ELSE /\ storeStatus' = "open"
            /\ log' = SubSeq(log, 1, r.good)
            /\ acked' = SubSeq(units, 1, UnitsIn(units, r.good))
            /\ doubtful' = <<>>
            /\ rotten' = 0

\* The next start after a refusal: wal.log was renamed away, so the store
\* opens on the snapshot alone with a fresh log.
OpenFresh ==
    /\ storeStatus = "refused"
    /\ storeStatus' = "open"
    /\ log' = <<>>
    /\ acked' = <<>>
    /\ doubtful' = <<>>
    /\ rotten' = 0

LogNext ==
    \/ \E u \in Unit : AppendWal(u) \/ AppendWalFails(u) \/ CrashInAppend(u)
    \/ Stop
    \/ \E i \in DOMAIN log : Rot(i)
    \/ Open
    \/ OpenFresh

LogSpec == LogInit /\ [][LogNext]_logVars

-----------------------------------------------------------------------------
(* Properties.                                                              *)

\* The log, its ghosts and the store storeStatus keep their types; a store that is
\* writable has no append in doubt (append_wal poisons on every failure).
LogTypeOK ==
    /\ log \in Seq(Frame)
    /\ Len(log) <= MaxFrames + 1
    /\ acked \in Seq(Unit)
    /\ doubtful \in Seq(Unit) /\ Len(doubtful) <= 1
    /\ rotten \in 0 .. MaxFrames + 1
    /\ storeStatus \in {"open", "poisoned", "closed", "refused"}
    /\ storeStatus = "open" => doubtful = <<>>

\* wal::replay over whatever a crash or a failed append left (no bit rot):
\* the records it returns are those of exactly the acknowledged units, or of
\* these and the one unit whose append did not return; a batch never comes
\* back in part, and a torn tail is never taken for corruption.
CrashRecoversWholeUnits ==
    rotten = 0 =>
        /\ ~Replay(log).corruptWithValidTail
        /\ Replay(log).records \in {Records(acked), Records(acked \o doubtful)}

\* wal::replay over a damaged file: what it returns is still a whole number of
\* units from the front, never half a batch and never a unit behind a gap.
RotRecoversAPrefix ==
    \E n \in 0 .. Len(acked \o doubtful) :
        Replay(log).records = Records(SubSeq(acked \o doubtful, 1, n))

\* The frame positions of unit n of the acknowledged units.
Span(n) ==
    LET before == Len(FlattenSeq([i \in 1 .. n - 1 |-> Encode(acked[i])]))
    IN before + 1 .. before + Len(Encode(acked[n]))

IntactUnits == {n \in DOMAIN acked : \A i \in Span(n) : log[i] # Bad}

\* Store::open on a file it can read: it never truncates an acknowledged unit
\* whose frames are all intact; a file that would need it is refused.
OpenKeepsIntactUnits ==
    [][storeStatus = "closed" /\ storeStatus' = "open" =>
         \A n \in IntactUnits : n \in DOMAIN acked' /\ acked'[n] = acked[n]]_logVars

\* store.rs:194-199 says a corrupt middle is preserved and refused "so an
\* operator can inspect it rather than lose data unseen": whenever the store
\* comes up, every acknowledged unit whose frames were intact is served.  The
\* refused log is renamed away, so this does not hold (README, section 5); no
\* run checks it.
IntactUnitsSurviveRestart ==
    [][storeStatus # "open" /\ storeStatus' = "open" =>
         \A n \in IntactUnits : n \in DOMAIN acked' /\ acked'[n] = acked[n]]_logVars

(* Whatever tears, rots or is half done, an open reads back whole units,    *)
(* and the ones in front of the damage (the log of wal.rs and the replay of *)
(* Store::open).                                                            *)
RecoversWholeUnits ==
  /\ LogTypeOK
  /\ CrashRecoversWholeUnits
  /\ RotRecoversAPrefix

=============================================================================
