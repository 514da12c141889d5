-------------------------------- MODULE Access --------------------------------
(***************************************************************************)
(* The administration of users, groups, grants and access lists             *)
(* (epiphany-api/src/security_routes.rs, auth.rs, authz.rs) over the        *)
(* security store and the audit log: requests of several clients that pass  *)
(* the gate, change the store, end sessions and write the audit record in   *)
(* steps of their own, saves that fail, and a server that crashes and is    *)
(* started again.  How a login verifies a password is in Sessions.          *)
(***************************************************************************)
EXTENDS SecurityStore, TLC

CONSTANTS
    Clients,        \* each holds at most one session
    First,          \* the user a new store begins with
    GrantLevels,    \* the levels the requests grant
    MaxRequests,    \* bound on the requests received
    MaxFaults       \* bound on failed saves and appends, crashes and rotten audit files

ASSUME FirstAssumption == First \in Users
ASSUME RequestsAssumption == GrantLevels \subseteq Levels /\ MaxRequests \in Nat /\ MaxFaults \in Nat

VARIABLES
    store,      \* SecurityStore, in memory
    disk,       \* the security document
    previous,   \* the document its last rename replaced, which a crash may bring back
    sessions,   \* the session of each client: whose it is, and the flag it cached
    req,        \* what each client's request is about to do
    log,        \* AuditLog, in memory
    files,      \* the audit file and its sequence file
    status,     \* "up" or "down"
    named,      \* ghost: subjects that were listed while they did not exist
    issued,     \* ghost: one past the greatest number of a record that was counted
    unsynced,   \* ghost: numbers of frames that are whole though their sync failed
    requests,   \* the requests so far
    faults      \* the faults so far

storeVars == <<store, disk, previous, named>>
auditVars == <<log, files, issued, unsynced>>
bounds == <<requests, faults>>
vars == <<storeVars, sessions, req, auditVars, status, bounds>>

NoSession == [user |-> "nobody"]
Idle == [pc |-> "idle"]
Up == status = "up"
Fault == faults < MaxFaults /\ faults' = faults + 1

Exists(s, subject) ==
    IF subject[1] = "user" THEN subject[2] \in DOMAIN s.users ELSE subject[2] \in s.groups
Listed(s) == (UNION {DOMAIN s.grants[key] : key \in DOMAIN s.grants})
             \cup (UNION {DOMAIN s.acls[key] : key \in DOMAIN s.acls})
Strangers(s) == {subject \in Listed(s) : ~Exists(s, subject)}

\* A new store, or one in which every user is an administrator.
Init ==
    /\ store \in {Bootstrap(First), [Bootstrap(First) EXCEPT !.users = [u \in Users |-> Account(TRUE, {})]]}
    /\ disk = Saved(store)
    /\ previous = Saved(store)
    /\ sessions = [c \in Clients |-> NoSession]
    /\ req = [c \in Clients |-> Idle]
    /\ log = NewLog
    /\ files = NewFiles
    /\ status = "up"
    /\ named = {}
    /\ issued = 0
    /\ unsynced = {}
    /\ requests = 0
    /\ faults = 0

-----------------------------------------------------------------------------
(* The requests: the changes a handler commits one by one under one hold of  *)
(* the security lock, whose sessions it ends, and what it names.             *)

Op(changes, ends) == [changes |-> changes, ends |-> ends]
Change(what, args) == [what |-> what, args |-> args]

\* patch_user; one that also sets a password ends the user's sessions
Patches ==
    {Op(<<Change("set_admin", <<p[1], p[2]>>), Change("set_groups", <<p[1], p[3]>>)>>,
        IF p[4] THEN {p[1]} ELSE {}) : p \in Users \X BOOLEAN \X (SUBSET Groups) \X BOOLEAN}

Requests ==
    Patches
    \cup {Op(<<Change("create_user", args)>>, {}) : args \in Users \X BOOLEAN \X (SUBSET Groups)}
    \cup {Op(<<Change("delete_user", <<u>>)>>, {u}) : u \in Users}
    \cup {Op(<<Change("create_group", <<g>>)>>, {}) : g \in Groups}
    \cup {Op(<<Change("delete_group", <<g>>)>>, {}) : g \in Groups}
    \cup {Op(<<Change("set_grant", args)>>, {}) : args \in Subjects \X GrantKeys \X GrantLevels}
    \cup {Op(<<Change("set_acl", args)>>, {}) : args \in Subjects \X ElementKeys \X GrantLevels}

Outcomes(change) ==
    LET a == change.args
    IN CASE change.what = "create_user" -> CreateUser(store, a[1], a[2], a[3])
         [] change.what = "set_admin" -> SetUserAdmin(store, a[1], a[2])
         [] change.what = "set_groups" -> SetUserGroups(store, a[1], a[2])
         [] change.what = "delete_user" -> DeleteUser(store, a[1])
         [] change.what = "create_group" -> CreateGroup(store, a[1])
         [] change.what = "delete_group" -> DeleteGroup(store, a[1])
         [] change.what = "set_grant" -> SetGrant(store, a[1], a[2], a[3])
         [] change.what = "set_acl" -> SetElementAccess(store, a[1], a[2], a[3])

\* The security lock is held between the changes of one patch.
LockFree == \A c \in Clients : req[c].pc # "patching"

Become(c, r) == req' = [req EXCEPT ![c] = r]
Finish(c) == Become(c, Idle)

\* The session extractor
Receive(c, op) ==
    /\ Up /\ req[c] = Idle /\ sessions[c] # NoSession
    /\ requests < MaxRequests
    /\ requests' = requests + 1
    /\ Become(c, [pc |-> "gate", actor |-> sessions[c].user, op |-> op])
    /\ UNCHANGED <<storeVars, sessions, auditVars, status, faults>>

\* Weakened: the gate believes the flag the session was created with.
GateBySession(c) ==
    /\ req[c].pc = "gate" /\ LockFree
    /\ Become(c, [req[c] EXCEPT !.pc =
                    IF sessions[c] # NoSession /\ sessions[c].admin THEN "change" ELSE "audit"])
    /\ UNCHANGED <<storeVars, sessions, auditVars, status, bounds>>

\* require_admin resolves the actor on the store as it is now.
Gate(c) ==
    /\ req[c].pc = "gate" /\ LockFree
    /\ Become(c, [req[c] EXCEPT !.pc = IF req[c].actor \in Admins(store) THEN "change" ELSE "audit"])
    /\ UNCHANGED <<storeVars, sessions, auditVars, status, bounds>>

-----------------------------------------------------------------------------
(* SecurityStore::commit: change in memory, save, or restore.                *)

Changing(c) == \/ req[c].pc = "change" /\ LockFree
               \/ req[c].pc = "patching"
Pending(c) == Head(req[c].op.changes)

\* What the next change of the request, saved, leads to.
NextChange(c) ==
    LET rest == Tail(req[c].op.changes)
    IN Become(c, [req[c] EXCEPT !.op.changes = rest,
                                !.pc = IF rest # <<>> THEN "patching"
                                       ELSE IF req[c].op.ends # {} THEN "revoke" ELSE "audit"])

Commit(c) ==
    /\ Changing(c)
    /\ \E s \in Outcomes(Pending(c)) :
          /\ store' = s
          /\ disk' = Saved(s)
          /\ previous' = disk
          /\ named' = {x \in named : ~Exists(s, x)} \cup
                        (IF Pending(c).what \in {"set_grant", "set_acl"}
                         THEN {Pending(c).args[1]} \ {x \in Subjects : Exists(s, x)} ELSE {})
    /\ NextChange(c)
    /\ UNCHANGED <<sessions, auditVars, status, bounds>>

\* A change that is refused ends the request; what a patch saved before it stays.
Refuse(c) ==
    /\ Changing(c)
    /\ Outcomes(Pending(c)) = {}
    /\ Finish(c)
    /\ UNCHANGED <<storeVars, sessions, auditVars, status, bounds>>

\* Weakened: the change stays in memory when it could not be saved.
SaveFailsUnrestored(c) ==
    /\ Changing(c)
    /\ Outcomes(Pending(c)) # {}
    /\ Fault
    /\ Finish(c)
    /\ store' \in Outcomes(Pending(c))
    /\ UNCHANGED <<disk, previous, named, sessions, auditVars, status, requests>>

SaveFails(c) ==
    /\ Changing(c)
    /\ Outcomes(Pending(c)) # {}
    /\ Fault
    /\ Finish(c)
    /\ UNCHANGED <<storeVars, sessions, auditVars, status, requests>>

-----------------------------------------------------------------------------
(* What follows the change, and sessions.                                    *)

\* revoke_user
Revoke(c) ==
    /\ req[c].pc = "revoke"
    /\ sessions' = [d \in Clients |-> IF sessions[d].user \in req[c].op.ends THEN NoSession ELSE sessions[d]]
    /\ Become(c, [req[c] EXCEPT !.pc = "audit"])
    /\ UNCHANGED <<storeVars, auditVars, status, bounds>>

\* audit_at: best effort, under the log's own lock
Record(c) ==
    /\ req[c].pc = "audit"
    /\ LET done == Appended(log, files)
       IN /\ log' = done.log
          /\ files' = done.files
          /\ issued' = log.next + 1
    /\ Finish(c)
    /\ UNCHANGED <<storeVars, unsynced, sessions, status, bounds>>

RecordFails(c) ==
    /\ req[c].pc = "audit"
    /\ Fault
    /\ \E left \in AppendFails(log, files) :
          /\ log' = left.log
          /\ files' = left.files
          /\ issued' = IF left.log = log THEN issued ELSE log.next + 1
          /\ unsynced' = unsynced \cup Unsynced(log, files, left)
    /\ Finish(c)
    /\ UNCHANGED <<storeVars, sessions, status, requests>>

\* A login that has been verified: the principal is resolved, then cached.
Login(c, u) ==
    /\ Up /\ req[c] = Idle /\ sessions[c] = NoSession /\ LockFree
    /\ requests < MaxRequests
    /\ requests' = requests + 1
    /\ u \in DOMAIN store.users
    /\ sessions' = [sessions EXCEPT ![c] = [user |-> u, admin |-> u \in Admins(store)]]
    /\ Become(c, [pc |-> "audit"])
    /\ UNCHANGED <<storeVars, auditVars, status, faults>>

Logout(c) ==
    /\ Up /\ req[c] = Idle /\ sessions[c] # NoSession
    /\ sessions' = [sessions EXCEPT ![c] = NoSession]
    /\ Become(c, [pc |-> "audit"])
    /\ UNCHANGED <<storeVars, auditVars, status, bounds>>

-----------------------------------------------------------------------------
(* Crash and boot.                                                           *)

\* The documents a crash may leave: the rename is in the directory or not, and
\* a save in progress may have got as far as its rename.
Survivors ==
    {disk, previous} \cup
    UNION {{Saved(s) : s \in Outcomes(Pending(c))} : c \in {d \in Clients : Changing(d)}}
AuditSurvivors ==
    {files} \cup IF \E c \in Clients : req[c].pc = "audit" THEN AppendInterrupted(log, files) ELSE {}

Crash ==
    /\ Up
    /\ Fault
    /\ status' = "down"
    /\ disk' \in Survivors
    /\ previous' = disk'
    /\ files' \in AuditSurvivors
    /\ sessions' = [c \in Clients |-> NoSession]
    /\ req' = [c \in Clients |-> Idle]
    /\ UNCHANGED <<store, named, log, issued, unsynced, requests>>

\* A stop that drains the requests: what was renamed has reached the directory.
Shutdown ==
    /\ Up
    /\ \A c \in Clients : req[c] = Idle
    /\ status' = "down"
    /\ previous' = disk
    /\ sessions' = [c \in Clients |-> NoSession]
    /\ UNCHANGED <<store, disk, named, req, auditVars, bounds>>

\* The audit file is damaged while the server is down, or its sequence file lost.
Rot ==
    /\ ~Up
    /\ Fault
    /\ \/ files' = [files EXCEPT !.header = FALSE]
       \/ files' = [files EXCEPT !.mark = Unreadable]
    /\ UNCHANGED <<storeVars, sessions, req, log, issued, unsynced, status, requests>>

Boot ==
    /\ ~Up
    /\ status' = "up"
    /\ store' = Loaded(disk)
    /\ named' = Strangers(Loaded(disk))
    /\ log' = Opened(files).log
    /\ files' = Opened(files).files
    /\ UNCHANGED <<disk, previous, sessions, req, issued, unsynced, bounds>>

Next ==
    \/ \E c \in Clients, op \in Requests : Receive(c, op)
    \/ \E c \in Clients :
          Gate(c) \/ Commit(c) \/ Refuse(c) \/ SaveFails(c) \/ Revoke(c) \/ Record(c) \/ RecordFails(c)
    \/ \E c \in Clients, u \in Users : Login(c, u)
    \/ \E c \in Clients : Logout(c)
    \/ Crash \/ Shutdown \/ Rot \/ Boot

Spec == Init /\ [][Next]_vars

\* The clients are alike.
ClientSymmetry == Permutations(Clients)

-----------------------------------------------------------------------------
(* Properties.                                                               *)

IsStore(s) ==
    /\ DOMAIN s.users \subseteq Users
    /\ s.groups \subseteq Groups
    /\ DOMAIN s.grants \subseteq GrantKeys /\ DOMAIN s.acls \subseteq ElementKeys
    /\ \A key \in DOMAIN s.grants : s.grants[key] # <<>> /\ DOMAIN s.grants[key] \subseteq Subjects

\* The types, with what the store's parts owe each other: every group a user is
\* in exists, also after groups were deleted and patches half applied.
TypeOK ==
    /\ IsStore(store)
    /\ \A u \in DOMAIN store.users : store.users[u].groups \subseteq store.groups
    /\ \A c \in Clients : sessions[c] = NoSession \/ sessions[c].user \in Users
    /\ log.next \in Nat

\* store.rs: deleting or demoting "the last admin" is refused.  There is one in
\* memory and in every document a crash may leave, whatever was refused, half
\* applied or not saved.
SomeAdmin == \A s \in {store, Loaded(disk), Loaded(previous)} : Admins(s) # {}

\* SecurityStore::commit undoes what it could not save: while the server is up
\* a restart gives every user the rights they have now, no more and no less.
RightsSurviveRestart ==
    Up => LET again == Loaded(disk)
          IN \A u \in Users :
                /\ u \in Admins(again) <=> u \in Admins(store)
                /\ \A kind \in Kinds, cube \in Cubes :
                      Effective(again, u, kind, cube) = Effective(store, u, kind, cube)
                /\ CanManageCubes(again, u) <=> CanManageCubes(store, u)
                /\ Masked(again, u) = Masked(store, u)

\* purge_subject: a user or group created under the name of a deleted one
\* inherits nothing; only what was listed while it did not exist awaits it.
NothingInherited == Up => Strangers(store) \subseteq named

\* The numbers of a sequence of records grow, but for those in again.
InOrder(records, again) ==
    \A i, j \in DOMAIN records :
        i < j => records[i] <= records[j] /\ (records[i] = records[j] => records[i] \in again)

\* audit.rs keeps a high-water mark so that no number a record was given is given
\* to another, after trimming, a torn tail or a lost header: the next number is
\* past every record that was counted, and no two records in memory, or of those
\* a restart would find, have the same one.  The exception is the append whose
\* frame was written and whose sync failed (AuditLog::append): it is refused, its
\* frame stays, and the next record has its number too.
NumbersIssuedOnce ==
    Up => /\ log.next >= issued
          /\ InOrder(log.records, unsynced)
          /\ InOrder(Replayed(files.frames), unsynced)

\* authz.rs: every request is decided on the store as it is, so a session that
\* was opened by an administrator passes no gate once its user is not one.
GatesAreLive ==
    [][\A c \in Clients : req[c].pc = "gate" /\ req[c]'.pc = "change" =>
          req[c].actor \in Admins(store)]_vars

(* Rights are the ones last given: to somebody, to nobody by accident, and  *)
(* the same after a restart (SecurityStore::commit and purge_subject,       *)
(* require_admin).                                                          *)
RightsAreAsGiven ==
  /\ [](TypeOK /\ SomeAdmin /\ RightsSurviveRestart /\ NothingInherited)
  /\ GatesAreLive

=============================================================================
