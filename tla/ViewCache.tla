------------------------------ MODULE ViewCache ------------------------------
(* The cache of executed views (crates/epiphany-api/src/view_cache.rs) and    *)
(* the two handlers that read through it (query_routes.rs: execute_saved_view *)
(* and execute_adhoc_view), interleaved with commits to the cubes.            *)
(*                                                                            *)
(* A read is not one step. It pins a snapshot of its cube, reads the version  *)
(* of every other cube the pinned rules name, one atomic load each, looks the *)
(* key up under the pool's lock, and on a miss pins every other cube, again   *)
(* one at a time and later, computes without any lock and inserts. Commits of *)
(* any cube fall between any two of those steps.                              *)
(*                                                                            *)
(* A cellset is abstracted to what it was computed from: the view and context *)
(* it answers and the version of every cube whose data or rules it used. The  *)
(* context stands for the sandbox scope and the element mask together, both   *)
(* of which the key holds exactly. Recency ticks are abstracted to the order  *)
(* they induce: a pool's entries are a sequence, least recently used first.   *)
EXTENDS Naturals, Sequences, FiniteSets, SequencesExt, FiniteSetsExt, Functions

CONSTANTS
    Names,        \* every cube's name, in the order of the engine's sorted map
    RuleSets,     \* cube -> the sets of other cubes its rule source may read
    Requests,     \* what clients ask: a cube, a view shape, the context (sandbox
                  \* scope and deny mask) and the kind, a saved or an ad-hoc view
    Readers,      \* requests in flight
    Sizes,        \* sizes a computed cellset may have
    MaxCells,     \* a larger cellset is never cached
    Entries,      \* cap of the saved pool (0 turns the cache off)
    AdhocEntries, \* cap of the ad-hoc pool
    ByteBudget,   \* byte budget of the saved pool
    AdhocBudget,  \* byte budget of the ad-hoc pool
    MaxCommits    \* bound on commits

Cubes == Range(Names)

ASSUME RulesAssumption ==
    /\ Names \in Seq(Cubes) /\ IsInjective(Names)
    /\ RuleSets \in [Cubes -> SUBSET SUBSET Cubes]
    /\ \A q \in Requests : /\ DOMAIN q = {"cube", "view", "ctx", "kind"}
                          /\ q.cube \in Cubes /\ q.kind \in {"saved", "adhoc"}
    /\ \A c \in Cubes : RuleSets[c] # {} /\ \A R \in RuleSets[c] : c \notin R

ASSUME PoolAssumption ==
    /\ Entries \in Nat /\ AdhocEntries \in Nat
    /\ (Entries = 0) <=> (AdhocEntries = 0)
    /\ ByteBudget \in Nat /\ AdhocBudget \in Nat
    /\ Sizes \subseteq Nat \ {0} /\ MaxCells \in Nat

Kinds == {"saved", "adhoc"}

VARIABLES
    published,    \* cube -> the version and the rule references readers can pin
    commits,      \* the commit counter all cubes share
    pools,        \* kind -> the entries, least recently used first, and the byte sum
    reading       \* reader -> its request

cacheVars == <<published, commits, pools, reading>>

Idle == [pc |-> "idle"]

(* with_budget: both pools start empty.                                       *)
EmptyPools == [k \in Kinds |-> [lru |-> <<>>, bytes |-> 0]]

Cap(k)    == IF k = "saved" THEN Entries ELSE AdhocEntries
Budget(k) == IF k = "saved" THEN ByteBudget ELSE AdhocBudget

(* A process that has just booted: every cube at version 0 with stored rules. *)
CacheInit ==
    /\ published \in {f \in [Cubes -> [version : {0}, refs : SUBSET Cubes]] :
                        \A c \in Cubes : f[c].refs \in RuleSets[c]}
    /\ commits = 0
    /\ pools = EmptyPools
    /\ reading = [r \in Readers |-> Idle]

-----------------------------------------------------------------------------
(* Commits, of which the cache sees only what a snapshot shows.               *)

(* A batch of cell writes published on a cube.                                *)
CommitCells(c) ==
    /\ commits < MaxCommits
    /\ commits' = commits + 1
    /\ published' = [published EXCEPT ![c].version = commits + 1]
    /\ UNCHANGED <<pools, reading>>

(* New rules published on a cube.                                             *)
CommitRules(c) ==
    /\ commits < MaxCommits
    /\ \E R \in RuleSets[c] \ {published[c].refs} :
         published' = [published EXCEPT ![c] = [version |-> commits + 1, refs |-> R]]
    /\ commits' = commits + 1
    /\ UNCHANGED <<pools, reading>>

-----------------------------------------------------------------------------
(* The pool.                                                                  *)

(* A bug: the versions of referenced cubes are left out of the key.          *)
KeyWithoutDeps(rd) == [cube |-> rd.req.cube, version |-> rd.snap.version, deps |-> <<>>,
                       view |-> rd.req.view, ctx |-> rd.req.ctx]

(* A bug: the sandbox scope and the mask are left out of the key.            *)
KeyWithoutContext(rd) == [cube |-> rd.req.cube, version |-> rd.snap.version,
                          deps |-> rd.deps, view |-> rd.req.view, ctx |-> {}]

(* build_key: equality of keys is equality of everything in them.             *)
Key(rd) == [cube |-> rd.req.cube, version |-> rd.snap.version, deps |-> rd.deps,
            view |-> rd.req.view, ctx |-> rd.req.ctx]

Holds(pool, key) == \E i \in DOMAIN pool.lru : pool.lru[i].key = key
PlaceOf(pool, key) == CHOOSE i \in DOMAIN pool.lru : pool.lru[i].key = key
EntryOf(pool, key) == pool.lru[PlaceOf(pool, key)]

(* The bytes of a pool's entries, each byte counted once.                     *)
UnitsOf(entry) == {entry.key} \X (1 .. entry.bytes)
Units(lru) == UNION {UnitsOf(lru[i]) : i \in DOMAIN lru}
BytesOf(lru) == Cardinality(Units(lru))

(* A bug: replacing an entry forgets to give its bytes back.                 *)
DroppedStillCharged(pool, key) ==
    IF Holds(pool, key) THEN [pool EXCEPT !.lru = RemoveAt(@, PlaceOf(pool, key))] ELSE pool

(* Pool::remove: the entry goes, and its bytes leave the running sum.         *)
Dropped(pool, key) ==
    IF Holds(pool, key)
      THEN [lru   |-> RemoveAt(pool.lru, PlaceOf(pool, key)),
            bytes |-> pool.bytes - EntryOf(pool, key).bytes]
      ELSE pool

(* Pool::get on a hit: the entry becomes the most recent.                     *)
Touch(pool, key) ==
    [lru   |-> Append(RemoveAt(pool.lru, PlaceOf(pool, key)), EntryOf(pool, key)),
     bytes |-> pool.bytes]

(* A bug: an evicted entry is charged back twice.                            *)
EvictedTwiceCredited(pool, n) ==
    [lru   |-> SubSeq(pool.lru, n + 1, Len(pool.lru)),
     bytes |-> pool.bytes - 2 * BytesOf(SubSeq(pool.lru, 1, n))]

(* The pool after evict_one has run n times.                                  *)
Evicted(pool, n) ==
    [lru   |-> SubSeq(pool.lru, n + 1, Len(pool.lru)),
     bytes |-> pool.bytes - BytesOf(SubSeq(pool.lru, 1, n))]

(* insert's loop condition, negated: it stops here.                           *)
HasRoom(k, pool, bytes) ==
    \/ Len(pool.lru) + 1 <= Cap(k) /\ pool.bytes + bytes <= Budget(k)
    \/ pool.lru = <<>>

(* Pool::insert: replace, evict the least recent until both bounds hold, add. *)
Inserted(k, pool, entry) ==
    LET kept  == Dropped(pool, entry.key)
        n     == Min({i \in 0..Len(kept.lru) : HasRoom(k, Evicted(kept, i), entry.bytes)})
        roomy == Evicted(kept, n)
    IN  [lru |-> Append(roomy.lru, entry), bytes |-> roomy.bytes + entry.bytes]

-----------------------------------------------------------------------------
(* A request.                                                                 *)

(* The first cube of a set in name order.                                     *)
FirstOf(S) == Names[Min({i \in DOMAIN Names : Names[i] \in S})]

(* The handler pins its cube. `start' records what was published when the     *)
(* request began.                                                             *)
Begin(r) ==
    /\ reading[r].pc \in {"idle", "answered"}
    /\ \E q \in Requests :
         reading' = [reading EXCEPT ![r] =
           [pc |-> "deps", req |-> q,
            start |-> [d \in Cubes |-> published[d].version],
            snap |-> published[q.cube],
            deps |-> <<>>, todo |-> published[q.cube].refs]]
    /\ UNCHANGED <<published, commits, pools>>

(* cross_cube_dep_versions: engine.version of the next cube the pinned rules  *)
(* of the target name.                                                        *)
ReadDepVersion(r) ==
    /\ reading[r].pc = "deps"
    /\ reading[r].todo # {}
    /\ LET d == FirstOf(reading[r].todo) IN
         reading' = [reading EXCEPT ![r].deps = Append(@, <<d, published[d].version>>),
                                    ![r].todo = @ \ {d}]
    /\ UNCHANGED <<published, commits, pools>>

Answered(rd, cells) ==
    [pc |-> "answered", req |-> rd.req, version |-> rd.snap.version, cells |-> cells,
     start |-> Restrict(rd.start, DOMAIN cells.from)]

(* get_or_compute finds the key.                                              *)
Hit(r) ==
    LET rd == reading[r] IN
    /\ rd.pc = "deps" /\ rd.todo = {}
    /\ Entries > 0 /\ Holds(pools[rd.req.kind], Key(rd))
    /\ reading' = [reading EXCEPT ![r] =
                     Answered(rd, EntryOf(pools[rd.req.kind], Key(rd)).cells)]
    /\ pools' = [pools EXCEPT ![rd.req.kind] = Touch(@, Key(rd))]
    /\ UNCHANGED <<published, commits>>

(* A bug: the resolver takes its own snapshot of the target.                 *)
MissResnapshots(r) ==
    LET rd == reading[r] IN
    /\ rd.pc = "deps" /\ rd.todo = {}
    /\ Entries = 0 \/ ~Holds(pools[rd.req.kind], Key(rd))
    /\ reading' = [reading EXCEPT ![r] =
         [pc |-> "pin", req |-> rd.req, start |-> rd.start, snap |-> rd.snap,
          deps |-> rd.deps, pins |-> [c \in {rd.req.cube} |-> published[c]],
          todo |-> Cubes \ {rd.req.cube}]]
    /\ UNCHANGED <<published, commits, pools>>

(* get_or_compute misses, or the cache is off: the resolver is built. It      *)
(* keeps the caller's snapshot of the target.                                 *)
Miss(r) ==
    LET rd == reading[r] IN
    /\ rd.pc = "deps" /\ rd.todo = {}
    /\ Entries = 0 \/ ~Holds(pools[rd.req.kind], Key(rd))
    /\ reading' = [reading EXCEPT ![r] =
         [pc |-> "pin", req |-> rd.req, start |-> rd.start, snap |-> rd.snap,
          deps |-> rd.deps, pins |-> [c \in {rd.req.cube} |-> rd.snap],
          todo |-> Cubes \ {rd.req.cube}]]
    /\ UNCHANGED <<published, commits, pools>>

(* build_pinned: a fresh snapshot of the next other cube.                     *)
PinSibling(r) ==
    /\ reading[r].pc = "pin"
    /\ reading[r].todo # {}
    /\ LET d == FirstOf(reading[r].todo) IN
         reading' = [reading EXCEPT
           ![r].pins = [c \in DOMAIN @ \cup {d} |->
                          IF c = d THEN published[d] ELSE @[c]],
           ![r].todo = @ \ {d}]
    /\ UNCHANGED <<published, commits, pools>>

(* The cubes a value of c is computed from, over a registry of pinned cubes:  *)
(* a rule that reads a cell of another cube evaluates that cube's rules, so   *)
(* they are in every set that holds c and what the rules of its cubes name.   *)
UsedFrom(pins, c) ==
    LET closed == {S \in SUBSET Cubes : c \in S /\ \A d \in S : pins[d].refs \subseteq S}
    IN  {d \in Cubes : \A S \in closed : d \in S}

(* execute_view over the resolver: a cellset of the pinned versions.          *)
Computed(rd) ==
    [view |-> rd.req.view, ctx |-> rd.req.ctx,
     from |-> [c \in UsedFrom(rd.pins, rd.req.cube) |-> rd.pins[c].version]]

(* A bug: ad-hoc reads share the saved pool.                                 *)
ComputeIntoOnePool(r) ==
    LET rd == reading[r] IN
    /\ rd.pc = "pin" /\ rd.todo = {}
    /\ \E size \in Sizes :
         pools' = [pools EXCEPT !["saved"] = Inserted("saved", @,
                     [key |-> Key(rd), cells |-> Computed(rd), bytes |-> size])]
    /\ reading' = [reading EXCEPT ![r] = Answered(rd, Computed(rd))]
    /\ UNCHANGED <<published, commits>>

(* The computation succeeds; get_or_compute stores the cellset unless the     *)
(* cache is off or the cellset is too large.                                  *)
Compute(r) ==
    LET rd == reading[r] IN
    /\ rd.pc = "pin" /\ rd.todo = {}
    /\ \E size \in Sizes :
         pools' = IF Entries > 0 /\ size <= MaxCells
                    THEN [pools EXCEPT ![rd.req.kind] = Inserted(rd.req.kind, @,
                            [key |-> Key(rd), cells |-> Computed(rd), bytes |-> size])]
                    ELSE pools
    /\ reading' = [reading EXCEPT ![r] = Answered(rd, Computed(rd))]
    /\ UNCHANGED <<published, commits>>

(* The computation fails (a rule that no longer compiles, an unknown member): *)
(* nothing is stored and the request ends in an error.                        *)
ComputeFails(r) ==
    /\ reading[r].pc = "pin" /\ reading[r].todo = {}
    /\ reading' = [reading EXCEPT ![r] = Idle]
    /\ UNCHANGED <<published, commits, pools>>

CacheNext ==
    \/ \E c \in Cubes : CommitCells(c) \/ CommitRules(c)
    \/ \E r \in Readers : \/ Begin(r) \/ ReadDepVersion(r) \/ Hit(r) \/ Miss(r)
                          \/ PinSibling(r) \/ Compute(r) \/ ComputeFails(r)

CacheSpec == CacheInit /\ [][CacheNext]_cacheVars

-----------------------------------------------------------------------------
(* Properties.                                                                *)

(* The type of every variable: what a pool, an entry and a request may hold.  *)
CellsType == [view : {q.view : q \in Requests}, ctx : {q.ctx : q \in Requests},
              from : UNION {[S -> 0..commits] : S \in SUBSET Cubes}]
CacheTypeOK ==
    /\ published \in [Cubes -> [version : 0..commits, refs : SUBSET Cubes]]
    /\ commits \in Nat
    /\ DOMAIN pools = Kinds
    /\ \A k \in Kinds : /\ pools[k].bytes \in Nat
                        /\ \A i \in DOMAIN pools[k].lru :
                             /\ pools[k].lru[i].cells \in CellsType
                             /\ pools[k].lru[i].bytes \in Sizes
    /\ \A r \in Readers : /\ reading[r].pc \in {"idle", "deps", "pin", "answered"}
                          /\ reading[r].pc = "answered" => reading[r].cells \in CellsType

(* "a cached entry is only ever served for an identical read": an answer is   *)
(* the view of the request, in its sandbox and under its mask, with the       *)
(* target's values of exactly the version the response reports.               *)
AnswersTheRequest ==
    \A r \in Readers : reading[r].pc = "answered" =>
        LET rd == reading[r] IN
        /\ rd.cells.view = rd.req.view /\ rd.cells.ctx = rd.req.ctx
        /\ rd.cells.from[rd.req.cube] = rd.version

(* "a stale entry can never be hit": a read begun after a commit answers with *)
(* values at least as new as that commit, for the target and for every other  *)
(* cube the values were computed from.                                        *)
NeverStale ==
    \A r \in Readers : reading[r].pc = "answered" =>
        \A d \in DOMAIN reading[r].cells.from :
            reading[r].start[d] <= reading[r].cells.from[d]

(* Both bounds of a pool hold whatever reads race, and the byte count the     *)
(* bound is tested on is the true one: two misses of the same key insert      *)
(* twice and must be charged once.                                            *)
PoolsAreBounded ==
    \A k \in Kinds :
        LET lru == pools[k].lru IN
        /\ Len(lru) <= Cap(k)
        /\ pools[k].bytes = BytesOf(lru)
        /\ pools[k].bytes <= Budget(k) \/ Len(lru) = 1
        /\ \A i, j \in DOMAIN lru : lru[i].key = lru[j].key => i = j

(* "a client minting unbounded distinct ad-hoc shapes can only evict ad-hoc   *)
(* entries": an entry leaves the saved pool only for one a saved read adds.   *)
OnlySavedEvictsSaved ==
    [][ \A i \in DOMAIN pools["saved"].lru :
          LET key == pools["saved"].lru[i].key IN
          ~Holds(pools'["saved"], key) =>
            \E r \in Readers : /\ reading[r].pc = "pin" /\ reading[r].req.kind = "saved"
                               /\ Holds(pools'["saved"], Key(reading[r])) ]_cacheVars

(* A response is the view asked for, at the versions a reader could see     *)
(* (execute_saved_view and cross_cube_dep_versions).                       *)
AnswersAreCurrent ==
  /\ AnswersTheRequest
  /\ NeverStale

(* The two pools keep their books and their budgets, and neither takes from *)
(* the other (Pool::insert and evict_one).                                  *)
PoolsAreSound ==
  /\ [](CacheTypeOK /\ PoolsAreBounded)
  /\ OnlySavedEvictsSaved

==============================================================================
