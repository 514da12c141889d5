---------------------------- MODULE SecurityStore ----------------------------
(***************************************************************************)
(* The security store (epiphany-security/src/store.rs, acl.rs): users,      *)
(* groups, grants per scope and object kind, access lists of single         *)
(* elements, the document they are saved as, and what a principal may do.   *)
(* A store is a record; the operators here are what the methods make of     *)
(* one.  Access drives them.  Passwords are in Sessions.                    *)
(***************************************************************************)
EXTENDS Naturals, FiniteSets, FiniteSetsExt, Functions, Integers, Sequences, SequencesExt

CONSTANTS
    Users, Groups, Cubes,
    Kinds,          \* the grantable kinds; "cube" is one, the rest are cube-scoped
    Elements        \* the elements of the cubes that may be given an access list

\* Access levels, in their order.
None == 0
Read == 1
Write == 2
Admin == 3
Levels == None..Admin

Global == "global"
Scopes == {Global} \cup Cubes
User(u) == <<"user", u>>
Group(g) == <<"group", g>>
Subjects == {User(u) : u \in Users} \cup {Group(g) : g \in Groups}
GrantKeys == Scopes \X Kinds
ElementKeys == Cubes \X Elements

\* A store nobody has changed: open_or_bootstrap over an empty directory.
Account(admin, groups) == [admin |-> admin, groups |-> groups]
Bootstrap(first) ==
    [users |-> [u \in {first} |-> Account(TRUE, {})], groups |-> {}, grants |-> <<>>, acls |-> <<>>]

Admins(store) == {u \in DOMAIN store.users : store.users[u].admin}

-----------------------------------------------------------------------------
(* Access lists: the level each listed subject has.  A list with nobody on   *)
(* it is not kept: on an element it would shut everyone out.                 *)

Entry(lists, key) == IF key \in DOMAIN lists THEN lists[key] ELSE <<>>
Without(f, x) == [y \in DOMAIN f \ {x} |-> f[y]]
With(f, x, v) == [y \in DOMAIN f \cup {x} |-> IF y = x THEN v ELSE f[y]]

\* AccessList::set
SetLevel(list, subject, level) ==
    IF level = None THEN Without(list, subject) ELSE With(list, subject, level)

SetIn(lists, key, subject, level) ==
    LET list == SetLevel(Entry(lists, key), subject, level)
    IN IF list = <<>> THEN Without(lists, key) ELSE With(lists, key, list)

Purged(lists, subject) ==
    LET left == {key \in DOMAIN lists : Without(lists[key], subject) # <<>>}
    IN [key \in left |-> Without(lists[key], subject)]

\* Weakened: deleting a subject forgets the access lists of elements.
PurgeGrantsOnly(store, subject) == [store EXCEPT !.grants = Purged(@, subject)]

\* purge_subject
Purge(store, subject) ==
    [store EXCEPT !.grants = Purged(@, subject), !.acls = Purged(@, subject)]

-----------------------------------------------------------------------------
(* The changes.  Each is the set of stores the change may leave: empty when  *)
(* it is refused, the store itself when there is nothing to do.              *)

CreateUser(store, u, admin, groups) ==
    IF u \in DOMAIN store.users THEN {}
    ELSE {[store EXCEPT !.users = With(@, u, Account(admin, groups)), !.groups = @ \cup groups]}

LastAdmin(store, u) == u \in Admins(store) /\ Cardinality(Admins(store)) = 1

DeleteUser(store, u) ==
    IF u \notin DOMAIN store.users \/ LastAdmin(store, u) THEN {}
    ELSE {Purge([store EXCEPT !.users = Without(@, u)], User(u))}

\* Weakened: any administrator can be demoted, the last one too.
SetUserAdminAny(store, u, admin) ==
    IF u \notin DOMAIN store.users THEN {} ELSE {[store EXCEPT !.users[u].admin = admin]}

SetUserAdmin(store, u, admin) ==
    IF u \notin DOMAIN store.users \/ (~admin /\ LastAdmin(store, u)) THEN {}
    ELSE {[store EXCEPT !.users[u].admin = admin]}

SetUserGroups(store, u, groups) ==
    IF u \notin DOMAIN store.users THEN {}
    ELSE {[store EXCEPT !.users[u].groups = groups, !.groups = @ \cup groups]}

CreateGroup(store, g) == {[store EXCEPT !.groups = @ \cup {g}]}

\* Weakened: the users of a deleted group stay in it.
DeleteGroupOnly(store, g) ==
    IF g \notin store.groups THEN {} ELSE {Purge([store EXCEPT !.groups = @ \ {g}], Group(g))}

\* the users of a group leave it when it goes
Ungrouped(users, g) == [u \in DOMAIN users |-> [users[u] EXCEPT !.groups = @ \ {g}]]
DeleteGroup(store, g) ==
    IF g \notin store.groups THEN {}
    ELSE {Purge([store EXCEPT !.groups = @ \ {g}, !.users = Ungrouped(@, g)], Group(g))}

SetGrant(store, subject, key, level) ==
    {[store EXCEPT !.grants = SetIn(@, key, subject, level)]}
SetElementAccess(store, subject, key, level) ==
    {[store EXCEPT !.acls = SetIn(@, key, subject, level)]}

-----------------------------------------------------------------------------
(* The document: one row per subject of a list.                              *)

Rows(lists) == UNION {{<<key, s, lists[key][s]>> : s \in DOMAIN lists[key]} : key \in DOMAIN lists}
ListsOf(rows) ==
    [key \in {r[1] : r \in rows} |->
        [s \in {r[2] : r \in {q \in rows : q[1] = key}} |->
            (CHOOSE r \in rows : r[1] = key /\ r[2] = s)[3]]]

\* to_model_text and from_model_text
Saved(store) ==
    [users |-> store.users, groups |-> store.groups,
     grants |-> Rows(store.grants), acls |-> Rows(store.acls)]
Loaded(doc) ==
    [users |-> doc.users, groups |-> doc.groups,
     grants |-> ListsOf(doc.grants), acls |-> ListsOf(doc.acls)]

-----------------------------------------------------------------------------
(* What a user may do, resolved on the store as it is.                       *)

\* AccessList::level_for
LevelFor(store, list, u) ==
    Max({None} \cup {list[s] : s \in DOMAIN list \cap
                                  ({User(u)} \cup {Group(g) : g \in store.users[u].groups})})

GrantLevel(store, u, scope, kind) == LevelFor(store, Entry(store.grants, <<scope, kind>>), u)

\* effective: administrators may do everything, a user who is gone nothing, and
\* an administrator of a cube may write what is in it.
Effective(store, u, kind, cube) ==
    LET granted(k) == Max({GrantLevel(store, u, s, k) : s \in {Global, cube}})
    IN CASE u \notin DOMAIN store.users -> None
         [] u \in Admins(store) -> Admin
         [] kind # "cube" /\ granted("cube") = Admin -> Max({Write, granted(kind)})
         [] OTHER -> granted(kind)

CanManageCubes(store, u) ==
    \/ u \in Admins(store)
    \/ u \in DOMAIN store.users /\ GrantLevel(store, u, Global, "cube") = Admin

\* element_access: an element without a list is open to all who reach the cube
ElementLevel(store, u, key) ==
    CASE u \notin DOMAIN store.users -> None
      [] u \in Admins(store) \/ key \notin DOMAIN store.acls -> Admin
      [] OTHER -> LevelFor(store, store.acls[key], u)

\* The elements a user's reads are masked on: element_mask_for
Masked(store, u) == {key \in ElementKeys : ElementLevel(store, u, key) < Read}

-----------------------------------------------------------------------------

(***************************************************************************)
(* The audit log (epiphany-security/src/audit.rs): a file of framed records *)
(* that is rewritten when it has grown to twice its bound, and beside it a  *)
(* file with the next sequence number, so that a log that lost its records  *)
(* does not issue a number again.  A record is its sequence number here.    *)
(* The bound on age is left out: it drops records from the same end.        *)
(***************************************************************************)

CONSTANT
    MaxRecords  \* RetentionPolicy.max_records, 0 when there is no bound

ASSUME MaxRecordsAssumption == MaxRecords \in Nat

Torn == -1                   \* a frame that was not written whole
Unreadable == -1            \* a sequence file that is missing or cut short

\* What is in memory, and what is on disk.  A handle that is not attached writes
\* to the file a compaction has replaced, where no restart looks.
Log(records, next, attached) == [records |-> records, next |-> next, attached |-> attached]
Files(header, frames, mark) == [header |-> header, frames |-> frames, mark |-> mark]
NewLog == Log(<<>>, 0, TRUE)
NewFiles == Files(TRUE, <<>>, 0)

\* enforce_retention: what is left of the records
Kept(records) ==
    IF MaxRecords # 0 /\ Len(records) >= 2 * MaxRecords
    THEN SubSeq(records, Len(records) - MaxRecords + 1, Len(records)) ELSE records

Recorded(log) == Append(log.records, log.next)
Written(log, files) == IF log.attached THEN Append(files.frames, log.next) ELSE files.frames

\* The state after a record was written and counted, and retention came this far.
Left(log, files, records, attached, frames, mark) ==
    [log |-> Log(records, log.next + 1, attached), files |-> Files(files.header, frames, mark)]

\* An append that succeeds: record, sequence file, retention.
Compacted(log, files, mark) ==
    LET records == Recorded(log)
    IN IF Kept(records) = records
       THEN Left(log, files, records, log.attached, Written(log, files), mark)
       ELSE Left(log, files, Kept(records), TRUE, Kept(records), mark)
Appended(log, files) == Compacted(log, files, log.next + 1)

\* Weakened: a record is counted when retention is through.
NotCompactedUncounted(log, files, mark) ==
    IF Kept(Recorded(log)) = Recorded(log) THEN {}
    ELSE {[Left(log, files, Recorded(log), log.attached, Written(log, files), mark) EXCEPT !.log.next = @ - 1]}

\* A compaction that fails trims nothing in memory: before its rename the file
\* is the old one, after it the new one, which could not be opened.
NotCompacted(log, files, mark) ==
    LET records == Recorded(log)
    IN IF Kept(records) = records THEN {}
       ELSE {Left(log, files, records, log.attached, Written(log, files), mark),
             Left(log, files, records, FALSE, Kept(records), mark)}

\* What of a frame can be in the file: nothing, part of it, all of it.
PartlyWritten(log, files) ==
    {files.frames, Written(log, files)} \cup
    (IF log.attached THEN {Append(files.frames, Torn)} ELSE {})

\* One in which calls fail.  When the write or its sync does, nothing is counted,
\* also with the whole frame in the file; what comes after them fails alone: the
\* sequence file, whose old number is truncated first, and retention.
AppendFails(log, files) ==
    LET marks == {files.mark, Unreadable, log.next + 1}
    IN {[log |-> log, files |-> [files EXCEPT !.frames = frames]] : frames \in PartlyWritten(log, files)}
       \cup {Compacted(log, files, mark) : mark \in marks \ {log.next + 1}}
       \cup UNION {NotCompacted(log, files, mark) : mark \in marks}

\* The number an append leaves in the file when nothing but its sync failed.
Unsynced(log, files, left) ==
    IF left = [log |-> log, files |-> [files EXCEPT !.frames = Append(@, log.next)]] THEN {log.next} ELSE {}

\* One that a crash interrupts: before, in or after the write of the record, while
\* the sequence file is rewritten, or when the compacted file is in its place.
AppendInterrupted(log, files) ==
    {[files EXCEPT !.frames = frames] : frames \in PartlyWritten(log, files)}
    \cup {Files(files.header, Written(log, files), mark) : mark \in {Unreadable, log.next + 1}}
    \cup {Appended(log, files).files}

\* replay: the records before the first frame that does not parse
Replayed(frames) ==
    IF Torn \in ToSet(frames)
    THEN SubSeq(frames, 1, Min({i \in DOMAIN frames : frames[i] = Torn}) - 1) ELSE frames

NextOf(records) == Max({0} \cup {r + 1 : r \in ToSet(records)})

\* What a log that continues at a number is opened as.
OpenedAt(records, next) == [log |-> Log(Kept(records), next, TRUE), files |-> Files(TRUE, Kept(records), next)]
Recovered(files) == IF files.header THEN Replayed(files.frames) ELSE <<>>
Marked(files) == IF files.mark = Unreadable THEN 0 ELSE files.mark

\* Weakened: the next number is taken from the records alone, or the mark alone.
OpenedByRecords(files) == OpenedAt(Recovered(files), NextOf(Recovered(files)))
OpenedByMark(files) == OpenedAt(Recovered(files), Marked(files))

\* open_with_policy: a file whose header does not parse is set aside
Opened(files) == OpenedAt(Recovered(files), Max({NextOf(Recovered(files)), Marked(files)}))
=============================================================================
