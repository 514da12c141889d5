----------------------------- MODULE CellWrites -----------------------------
(***************************************************************************)
(* How a write that names members reaches cells that are stored by member   *)
(* INDEX (epiphany-api routes.rs and flow_routes.rs, over apply_batch and   *)
(* define_elements of the engine): a handler resolves the names against a   *)
(* snapshot and applies indices under the writer lock later, while other    *)
(* clients write, restructure the dimension and change the rules.           *)
(*                                                                          *)
(* One action is one engine call: the writer lock serializes them, and a    *)
(* snapshot is one load of the published model.                             *)
(***************************************************************************)
EXTENDS Naturals, Sequences, FiniteSets

CONSTANTS
    Clients,
    Members,
    Nobody,         \* the value of a cell nobody has written
    Absent,         \* no base version
    RetryLimit,     \* RESOLVE_RETRY_LIMIT
    MaxVersion      \* bound on the commits of others

ASSUME RetryAssumption == RetryLimit \in Nat \ {0}
ASSUME SentinelAssumption == Nobody \notin Clients /\ Absent \notin Nat

VARIABLES
    version,    \* the published version
    order,      \* the members of the dimension by index
    covered,    \* the members whose cell a rule computes
    cell,       \* who wrote the cell of each member
    request     \* each client's request

vars == <<version, order, covered, cell, request>>

\* commit_resolved: write_cell and spread_cells bind the version of the
\* snapshot they resolved on, and retry; batch_write passes on the base of its
\* client; apply_outcome of a flow, an import or a job step binds none and
\* grows the dimension first.
Kinds == {"resolved", "batch", "guarded", "flow"}

Injective(f) == \A i, j \in DOMAIN f : f[i] = f[j] => i = j
Orders == {o \in UNION {[1 .. n -> Members] : n \in 0 .. Cardinality(Members)} : Injective(o)}

Present == {order[i] : i \in DOMAIN order}
IndexIn(o, m) == CHOOSE i \in DOMAIN o : o[i] = m

NoRequest == [state |-> "none", kind |-> "none", names |-> {}, indices |-> {},
              base |-> Absent, tries |-> 0, grow |-> <<>>]

Init ==
    /\ version = 0
    /\ order \in Orders
    /\ covered = {}
    /\ cell = [m \in Members |-> Nobody]
    /\ request = [c \in Clients |-> NoRequest]

In(c, state) == request[c].state = state
Answer(c, a) == request' = [request EXCEPT ![c].state = a]

-----------------------------------------------------------------------------
(* The handlers.                                                            *)

\* A guarded batch names a version its client has seen.
Send(c, kind, names) ==
    /\ In(c, "none")
    /\ \E base \in IF kind = "guarded" THEN 0 .. version ELSE {Absent} :
          request' = [request EXCEPT ![c] = [NoRequest EXCEPT
                         !.state = "resolve", !.kind = kind, !.names = names, !.base = base]]
    /\ UNCHANGED <<version, order, covered, cell>>

IndicesIn(o, names) == {IndexIn(o, m) : m \in names}

\* Weakened: the version of the snapshot is not bound.
ResolveUnbound(c) ==
    LET r == request[c] IN
    /\ In(c, "resolve") /\ r.kind # "flow"
    /\ IF r.names \subseteq Present \ covered
       THEN request' = [request EXCEPT ![c].state = "apply",
                                       ![c].indices = IndicesIn(order, r.names)]
       ELSE Answer(c, "error")
    /\ UNCHANGED <<version, order, covered, cell>>

\* build_write and reject_rule_covered_writes on one snapshot.
ResolveNames(c) ==
    LET r == request[c] IN
    /\ In(c, "resolve") /\ r.kind # "flow"
    /\ IF r.names \subseteq Present \ covered
       THEN request' = [request EXCEPT ![c].state = "apply",
               ![c].indices = IndicesIn(order, r.names),
               ![c].base = IF r.kind = "resolved" THEN version ELSE @]
       ELSE Answer(c, "error")
    /\ UNCHANGED <<version, order, covered, cell>>

\* apply_batch's optimistic check under the writer lock.
Conflicts(c) == request[c].base \notin {Absent, version}

\* Weakened: a conflict is always retried.
ApplyConflictForever(c) ==
    /\ In(c, "apply")
    /\ Conflicts(c)
    /\ Answer(c, "resolve")
    /\ UNCHANGED <<version, order, covered, cell>>

\* A retry goes back to resolve; the last one surfaces the conflict.
ApplyConflict(c) ==
    LET r == request[c] IN
    /\ In(c, "apply")
    /\ Conflicts(c)
    /\ IF r.kind = "resolved" /\ r.tries + 1 < RetryLimit
       THEN request' = [request EXCEPT ![c].state = "resolve", ![c].tries = @ + 1]
       ELSE Answer(c, "conflict")
    /\ UNCHANGED <<version, order, covered, cell>>

\* Cube::validate_batch: an index the dimension no longer has.
ApplyRejected(c) ==
    /\ In(c, "apply")
    /\ ~Conflicts(c)
    /\ ~(request[c].indices \subseteq DOMAIN order)
    /\ Answer(c, "error")
    /\ UNCHANGED <<version, order, covered, cell>>

Apply(c) ==
    LET targets == {order[i] : i \in request[c].indices} IN
    /\ In(c, "apply")
    /\ ~Conflicts(c)
    /\ request[c].indices \subseteq DOMAIN order
    /\ cell' = [m \in Members |-> IF m \in targets THEN c ELSE cell[m]]
    /\ version' = version + 1
    /\ Answer(c, "ok")
    /\ UNCHANGED <<order, covered>>

\* apply_outcome: cells are resolved against a preview of the cube grown by
\* the flow's new members, in any order the flow staged them.
PreviewFlow(c) ==
    LET r == request[c] IN
    /\ In(c, "resolve") /\ r.kind = "flow"
    /\ \E new \in {o \in Orders : {o[i] : i \in DOMAIN o} = r.names \ Present} :
          request' = [request EXCEPT
              ![c].state = IF new = <<>> THEN "apply" ELSE "grow",
              ![c].indices = IndicesIn(order \o new, r.names),
              ![c].grow = new]
    /\ UNCHANGED <<version, order, covered, cell>>

\* define_elements appends the members that are still missing, and commits.
GrowFlow(c) ==
    LET missing(m) == m \notin Present IN
    /\ In(c, "grow")
    /\ order' = order \o SelectSeq(request[c].grow, missing)
    /\ version' = version + 1
    /\ Answer(c, "apply")
    /\ UNCHANGED <<covered, cell>>

Handle(c) ==
    \/ ResolveNames(c) \/ ApplyConflict(c) \/ ApplyRejected(c) \/ Apply(c)
    \/ PreviewFlow(c) \/ GrowFlow(c)

-----------------------------------------------------------------------------
(* What other clients commit meanwhile.                                     *)

Commit == version < MaxVersion /\ version' = version + 1

\* Reorder, insert and delete: cells follow their member, a deleted member's
\* cell is gone.  No mark fails here; where one does (lib.rs:1642) the layout is
\* the writer's and a write resolved on the old one passes the check of its base.
Restructure ==
    /\ Commit
    /\ order' \in Orders \ {order}
    /\ cell' = [m \in Members |->
                  IF m \in {order'[i] : i \in DOMAIN order'} THEN cell[m] ELSE Nobody]
    /\ UNCHANGED <<covered, request>>

\* define_rules and other definitions.
DefineRules ==
    /\ Commit
    /\ covered' \in SUBSET Members
    /\ UNCHANGED <<order, cell, request>>

Next ==
    \/ \E c \in Clients :
          \/ \E kind \in Kinds, names \in (SUBSET Members) \ {{}} : Send(c, kind, names)
          \/ Handle(c)
    \/ Restructure
    \/ DefineRules

\* The runtime runs every handler that has been started to its answer.
Fairness == \A c \in Clients : WF_vars(Handle(c))

Spec == Init /\ [][Next]_vars
LiveSpec == Spec /\ Fairness

-----------------------------------------------------------------------------
(* Properties.                                                              *)

\* The requests that are bound to a version.
Bound(c) == request[c].kind \in {"resolved", "guarded"}
Commits(c) == ~In(c, "ok") /\ In(c, "ok")'

State == {"none", "resolve", "grow", "apply", "ok", "conflict", "error"}

\* Every variable keeps its type, and a request that is being applied has as
\* many indices as it has names.
TypeOK ==
    /\ version \in Nat
    /\ order \in Orders
    /\ covered \subseteq Members
    /\ cell \in [Members -> Clients \cup {Nobody}]
    /\ \A c \in Clients :
          /\ request[c].state \in State
          /\ request[c].names \subseteq Members
          /\ request[c].base \in Nat \cup {Absent}
          /\ request[c].tries \in 0 .. RetryLimit - 1
          /\ In(c, "apply") => Cardinality(request[c].indices) = Cardinality(request[c].names)

LandsOnNames(c) ==
    \A m \in Members : cell'[m] = IF m \in request[c].names THEN c ELSE cell[m]

\* write_cell, spread_cells and guarded batches ("so the write always lands on
\* the element the caller named"): an acknowledged request changed the cells of
\* exactly the members it names, whatever was committed since its snapshot.
WritesLandOnNames == [][\A c \in Clients : Commits(c) /\ Bound(c) => LandsOnNames(c)]_vars

\* The same of every request.  commit_resolved says of an index-addressed batch
\* submitted with no base that "this closes the versionless-write race"; it
\* does not hold (README, section 5) and no run checks it.
AllWritesLandOnNames == [][\A c \in Clients : Commits(c) => LandsOnNames(c)]_vars

\* reject_rule_covered_writes ("so it cannot race a concurrent rule change"): a
\* bound request never stores a value under a rule that shadows it.
NoWriteUnderARule ==
    [][\A c \in Clients : Commits(c) /\ Bound(c) => request[c].names \cap covered = {}]_vars

\* RESOLVE_RETRY_LIMIT: every request is answered, however busy the cube is.
Answered(c) == request[c].state \in {"ok", "conflict", "error"}
EveryRequestIsAnswered == \A c \in Clients : In(c, "resolve") ~> Answered(c)
=============================================================================
