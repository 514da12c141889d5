---------------------------- MODULE DirectoryLock ----------------------------
(***************************************************************************)
(* The lock on the data directory (epiphany-server/src/lock.rs): a server   *)
(* takes it before it touches the directory and holds it until it ends.  On *)
(* Unix the lock is the file, which a crash leaves behind for an operator   *)
(* to remove; on Windows it is the open handle.  A server that cannot take  *)
(* it does not start (main.rs); DataDirectory models the one that does.     *)
(***************************************************************************)
EXTENDS Naturals, FiniteSets

CONSTANTS
  Servers,        \* the server processes that are started
  Operators,      \* the people and scripts that may remove a stale lock
  MaxLockFaults   \* bound on the calls of the file system that fail

VARIABLES
  unix,        \* the system the servers were built for
  lockFile,    \* whether the file lock exists
  handle,      \* on Windows, the servers that have it open: none may share it
  serverState, \* "down", "up", "refused", "failed" or "over" for each server
  sure,        \* the operators who have found no server running
  leftOver,    \* a ghost: the file outlived its server
  overtaken,   \* a ghost: a server started between the finding and the removal
  lockFaults

lockVars == <<unix, lockFile, handle, serverState, sure, leftOver, overtaken, lockFaults>>

UpNow == {s \in Servers : serverState[s] = "up"}

LockInit ==
  /\ unix \in BOOLEAN /\ lockFile = FALSE /\ handle = {}
  /\ serverState = [s \in Servers |-> "down"]
  /\ sure = {} /\ leftOver = FALSE /\ overtaken = FALSE /\ lockFaults = 0

LockFault == lockFaults < MaxLockFaults /\ lockFaults' = lockFaults + 1
Becomes(s, state) == serverState' = [serverState EXCEPT ![s] = state]

\* Weakened: the file is opened, or created if it is not there, and shared.
OpensShared(onUnix) == TRUE
Opens(onUnix) == IF onUnix THEN ~lockFile ELSE handle = {}

Acquire(s) ==
  /\ serverState[s] = "down"
  /\ \/ /\ Opens(unix) /\ Becomes(s, "up") /\ lockFile' = TRUE
        /\ handle' = handle \cup (IF unix THEN {} ELSE {s})
        /\ overtaken' = (overtaken \/ sure # {})
        /\ UNCHANGED lockFaults
     \/ ~Opens(unix) /\ Becomes(s, "refused") /\ UNCHANGED <<lockFile, handle, overtaken, lockFaults>>
     \/ LockFault /\ Becomes(s, "failed") /\ UNCHANGED <<lockFile, handle, overtaken>>
  /\ UNCHANGED <<unix, sure, leftOver>>

(* A server that stops drops its lock: the file is removed by its name, which *)
(* Windows refuses while the handle is open, and a failure is ignored; then   *)
(* the handle closes.                                                         *)
Removes(file) == file /\ ~unix

StopCleanly(s) ==
  /\ serverState[s] = "up" /\ Becomes(s, "over")
  /\ \/ lockFile' = Removes(lockFile) /\ UNCHANGED <<leftOver, lockFaults>>
     \/ LockFault /\ leftOver' = TRUE /\ UNCHANGED lockFile
  /\ handle' = handle \ {s}
  /\ UNCHANGED <<unix, sure, overtaken>>

CrashServer(s) ==
  /\ serverState[s] = "up" /\ Becomes(s, "over")
  /\ handle' = handle \ {s} /\ leftOver' = TRUE
  /\ UNCHANGED <<unix, lockFile, sure, overtaken, lockFaults>>

(* What the message of AlreadyHeld asks of an operator: to remove the file    *)
(* after finding that no server runs.                                         *)
FindNoServer(o) ==
  /\ unix /\ lockFile /\ UpNow = {} /\ sure' = sure \cup {o}
  /\ UNCHANGED <<unix, lockFile, handle, serverState, leftOver, overtaken, lockFaults>>
RemoveStaleLock(o) ==
  /\ o \in sure /\ sure' = sure \ {o} /\ lockFile' = FALSE /\ leftOver' = FALSE
  /\ UNCHANGED <<unix, handle, serverState, overtaken, lockFaults>>

LockNext ==
  \/ \E s \in Servers : Acquire(s) \/ StopCleanly(s) \/ CrashServer(s)
  \/ \E o \in Operators : FindNoServer(o) \/ RemoveStaleLock(o)

LockSpec == LockInit /\ [][LockNext]_lockVars

(* No two servers own the directory, whatever order they start, stop and      *)
(* crash in, unless one started while some operator was still about to remove *)
(* a lock found stale before, which another had removed already (acquire,     *)
(* Drop; "only one server may own a data directory").                         *)
OneServerAtATime == ~overtaken => Cardinality(UpNow) <= 1

(* A server is refused the directory only by another that runs or, on Unix,   *)
(* by a file that outlived its server: a crash, or a removal that failed; on  *)
(* Windows the lock heals itself (lock.rs, "self-healing").                   *)
RefusalsHaveAReason ==
  [][\A s \in Servers : serverState[s] # "refused" /\ serverState'[s] = "refused" =>
       UpNow # {} \/ (unix /\ leftOver)]_lockVars

==============================================================================
