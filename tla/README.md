# Epiphany: a TLA+ development

Epiphany is an in-memory OLAP server: cubes of cells addressed by members of
dimensions, rules that compute cells, saved views, sandboxes, data-loading flows
and scheduled jobs, kept durable by a snapshot and a write-ahead log per cube.
This directory holds TLA+ models of the parts of it where order, failure and
concurrency decide whether it is correct, TLC runs over them, and proofs.

Paths below are relative to `src/`; `persist`, `engine`, `api` and `flow` stand
for `crates/epiphany-persist/src` and so on.

Run a model with `tlc -workers 2 -config WalLog.cfg MCWalLog`, check a proof with
`tlapm Store_proofs.tla`. PROJECT.json lists the runs, which definition
models which lines, the hazards, the theorems and, for each property, a plausible
bug in the code that breaks it (the definitions marked "Weakened:"). A small helper
whose lines the definition that uses it already names has no entry of its own.

## 1. The system

| Part | State | Operations | Hard behaviour | Correct when |
|---|---|---|---|---|
| Write-ahead log, `persist/wal.rs` | a file of `[len][payload][crc]` frames | append a record or a framed batch, replay | torn writes, failed appends, bit rot | replay returns whole units, in order, and refuses to truncate intact ones |
| Cube store, `persist/store.rs` | snapshot, log, model in memory, `good_len`, `poisoned` | batch, pin, definitions, structural edits, sandbox writes and commit, checkpoint, restore, open | every operation is several file operations, each may fail, a crash may come between any two; log records name members by index | a crash recovers what was acknowledged, or a change still in doubt |
| Engine, `engine/lib.rs` | per cube: writer lock, published model, `fail_stopped`; shared: `IdGen`, high-water mark | `apply_batch`, `define*`, `checkpoint`, `create_cube`, `snapshot` | readers never lock; a failure leaves memory, log and published model to be reconciled; a panic under the lock | what readers see, what memory holds and what a crash recovers agree |
| High-water mark, `persist/watermark.rs` | one file | read, raise | rename made durable later; two cubes racing | no version is ever shown twice |
| Cell-write handlers, `api/routes.rs`, `api/flow_routes.rs` | none between steps | resolve names, apply indices, retry | the layout and the rules change between resolve and apply | a write lands on the member the caller named |
| View cache, `api/view_cache.rs`, `api/query_routes.rs` | two LRU pools | read through, insert, evict | versions are read, looked up and pinned one at a time, between commits | an answer is the right view, in the right context, and not stale |
| Shared dimensions, `engine` and `persist/registry.rs` | library, `dims_referenced` index, a copy in each cube | edit and fan out, create with references, reconcile at boot | one edit spans many cubes and can stop half way | every referencing cube ends with the library's members |
| Run ledger and scheduler, `flow/ledger.rs`, `api/scheduler.rs` | append-only runs, flights | fire, record, recover, retain | crashes between a run's records, manual kicks, retention | the ledger tells what was applied, nothing stays active |
| Change feed, `api/ws.rs` | broadcast channel, subscriptions | publish on commit, deliver | lagging subscribers, authority read at delivery | nobody sees what they may not; commits of a cube in order |
| Sessions and lockout, `api/auth.rs`, `session.rs`, `login_guard.rs` | token table, failure counters | login, change and reset of a password, revoke, expire | each table has a lock of its own and handlers interleave between them | a session was earned with the password that holds |
| Security store, audit log, `crates/epiphany-security` | users, groups, grants, access lists; a sequence of records | mutate with save or restore, append, retain | a save fails after memory changed; several commits make a request | memory equals the file; an administrator remains; numbers are not reused |
| Core data, `crates/epiphany-core` | members, edges, aliases, packed keys, cells, sandboxes, saved objects, the model text | schema edits, cell writes, text read back | positions and key widths change under stored cells | names keep their values; the text brings back the model |
| Calculation, `crates/epiphany-calc`, `core/query.rs`, `spread.rs` | memo, grid, caches | evaluate, consolidate, fill a view, explain, spread | sparse consolidation by feeders, a memo shared over scopes, parallel workers | a cell is what the rules as written mean |
| Texts: rules, MDX, CSV | none | tokenize, parse, print, evaluate sets | precedence, quoting, three-valued predicates | what is printed reads back |
| Flows, `crates/epiphany-flow`, `api/flow_routes.rs` | runs, staged changes | run, import, test, apply | deadline, authorization and application at different moments | answers say what was applied |
| Automation store, `persist/automation.rs` | flows, tests, jobs, connections and their text | put, delete, load | memory changes before the file does | an acknowledged document survives |
| Connectors, `crates/epiphany-connect` | a child process, two pipes, two threads | run, collect, kill | pipes that fill, forked workers, a deadline | no caller waits for ever, no part passes for the whole |
| Boot and lock, `crates/epiphany-server` | data directory, lock file | migrate, lock, open all stores | a crash half way through a migration; a stale lock file | one server per directory; a migration loses nothing |

Not modelled: the server shell (configuration, TLS, service wrapper), password
hashing (a policy check and a library call; verification is equality here), the web
interface and the spreadsheet add-in (clients of the REST interface). PROJECT.json
says of every part what is left out of it.

Interactions. A handler takes a snapshot of the engine (one atomic load), resolves
names on it and calls the engine; the engine takes the cube's writer lock, lets the
store validate, log and apply the change, mints a version from the shared counter,
raises the shared mark and only then publishes the new model; a commit observer
tells the change feed. Reads never take the writer lock: they load the published
model, and the view cache keys what they compute by the versions they read. At boot
every store is opened (snapshot, then log), the counter is seeded past the mark and
every cube is published at version 0.

## 2. The modules

| Module | Models | Built on |
|---|---|---|
| `WalLog` | the log's frames, the scan, crashes, failed appends, bit rot, refusal | - |
| `CubeStore` | what a cube keeps, what recovery makes of snapshot and log, and the store's operations as sequences of file operations | - |
| `CubeEngine` | one cube's writer, publication, fail-stop, panics, boot | `CubeStore` |
| `AbstractCube` | what a cube promises: a register with changes in doubt | - |
| `CommitVersions` | version minting and the mark, across cubes and restarts | - |
| `CellWrites` | resolve, apply and retry against concurrent edits | - |
| `ViewCache` | the cache and the readers | - |
| `DimensionLibrary` | registry, copies, fan-out, save order, reconcile | - |
| `Scheduler` | timer, kicks, flights and the run ledger | - |
| `Connector` | a connector's child process, pipes, deadline | - |
| `SecurityStore`, `Access` | the store and the audit log; the administration handlers over them | `Access` on `SecurityStore` |
| `Sessions` | logins, sessions, the lockout guard, change streams | - |
| `Dimension`, `CubeEdits` | members and hierarchy; a cube's keys, cells and schema edits | `CubeEdits` on `Dimension` |
| `NamedCube` | what a cube promises: cells, edges and attributes by NAME | - |
| `SavedObjects`, `ModelText` | subsets, views, rules, tests, sandboxes; the model as text | `CubeEdits` |
| `RuleEval`, `ViewQuery`, `RuleQueries` | compiled rules, memo and feeders; views and spreads; requests, workers, and what the rules mean | `Dimension` |
| `RuleTokens`, `RuleText`, `MdxText`, `MdxSets`, `Texts` | the texts users write, read and printed | `Dimension` |
| `FlowScript`, `Flows` | what a script stages; runs, imports, tests | `Dimension`, `Automation` |
| `Automation` | documents, their text, the store and its handlers | - |
| `DataDirectory` | a boot over the data directory | `Automation` |
| `DirectoryLock` | the lock file, its servers and operators | - |
| `MC*` | instances for TLC; a run may hold several modules as episodes | their modules |
| `Dimension_proofs` | lemmas on one dimension, its tree and each edit of it | `CubeEdits`, TLAPS |
| `Store_proofs` | the theorems on what a store keeps: versions and model | `CommitVersions`, `SavedObjects`, `Dimension_proofs` |
| `Disk_proofs` | the theorems on what is kept in files: the library and the log | `DimensionLibrary`, `WalLog`, TLAPS |
| `CubeEngine_proofs`, `Sessions_proofs`, `Access_proofs` | the theorems | their modules, TLAPS |
| `Writes_proofs` | the theorems on requests that write | `CellWrites`, `Flows`, TLAPS |
| `Server_proofs` | the theorems on the server as a process | `Scheduler`, `Connector`, `DirectoryLock`, `ViewCache`, TLAPS |

The models meet at stated interfaces. `WalLog` shows that one append is replayed
whole or not at all, so `CubeStore` makes it one unit. `CubeEngine` shows that a
commit of one cube is atomic to readers and survives, so `CommitVersions` reduces a
cube to the number of its changes, and `CellWrites`, `DimensionLibrary`, `Flows` and
`SavedObjects` make an engine call one action. `CommitVersions` shows that a version
names one content within a boot, so `ViewCache` treats versions as contents.
`CubeEdits` shows that names keep their values while positions move, so
`RuleQueries` reads a fixed layout.

### WalLog (`persist/wal.rs`; `append_wal`, `poison_wal`, `open` in `store.rs`)
`log` is the file, in frames. A frame keeps what the scan distinguishes: a cell
record, a batch marker, or one that fails length, checksum or opcode (`Bad`).
`Scan` is `replay`'s loop as a fold, with the held-back open batch and the good
offset; `HasIntactFrameAfter` is the test that tells a corrupt middle from a torn
tail. `Partial` gives everything an interrupted `write_all` may leave. `acked` and
`doubtful` are ghosts: the units acknowledged, and the one whose append did not
return Ok. After a failed append the rollback to `good_len` is best-effort, so the
model keeps the outcome in which it does not happen (`store.rs:405-413`).

### CubeStore (`persist/store.rs`)
A model is a member order, the set of leaves, cells, pins and one sandbox: what
durability can get wrong. A log record of a cell names a POSITION and one of a pin
names a member, as in the code; this is why a reorder must not leave records behind.
All content a definition can change other than these (subsets, views, rules) behaves
as the sandbox does: it is written by the snapshot alone. Inserting and deleting
members belongs to the reorder class: it renumbers and goes through the same flush.

`todo` holds the stages of the operation (`append`, `auto`, `checkpoint`, `define`;
`Stages` gives the order for each operation) and `io` the next file operation.
Every file has two states: what the process sees, and the set of contents a crash
may leave (everything since its last fsync; a rename is undurable until the
directory is synced). The order is the code's: `set_batch` validates, writes, syncs,
then applies to memory (450-503); `set_pin` applies first and relies on the caller
to undo it; `checkpoint_model` writes a temporary file, renames, syncs the
directory, truncates the log, writes its header and syncs (521-542, 1187-1267), and
the staged model becomes the live one only after that; structural edits flush the
log first (1116-1155).

### CubeEngine, AbstractCube (`engine/lib.rs`)
`pub` is the model readers load. `Publish`, `Reject`, `FailBatch`,
`FailDefinition` are the returns of `apply_batch` (1117-1186) and
`define_with_sandbox` (1565-1654); a definition that fails on I/O restores the
published model and checkpoints it (`StartRepair`), and fail-stops when that fails
too; `Engine::checkpoint` heals a fail-stopped cube (1656-1669); `Panic` poisons the
writer lock and `RecoverLock` is `lock_writer` (330-357). `CrashEngine` picks one
content per file from what a crash may leave; `Boot` is `Store::open` and
`from_stores`.

The ghosts say what is owed. `pending` holds the outcomes of the operation in
progress, `doubt` the published model and the outcomes of operations that were
answered with a durability error and not undone since. A change that was answered
Ok, or restored by a successful repair, empties `doubt` of everything else. A
rejected change is never added: a client who was told its input is invalid must
never find it applied after a crash.

`AbstractCube` is the register clients rely on: attempts add possible outcomes, one
of them settles, or they are discarded. `CubeEngine` implements it with
`val <- pub, maybe <- doubt \cup pending` (a crash is a `Settle`).

### CommitVersions (`engine/lib.rs:601-616`, `persist/watermark.rs`, `boot.rs:61-69`)
Two commits run through `Change` (the store has it), `Mint`, `LockMark`,
`MarkIsHigher` or `RenameMark` and `SyncMark`, `Publish`, or `MarkFails`; `Restart`
takes any mark a crash may leave, seeds the counter past it and publishes every
cube at version 0. `history` is every (cube, version, content) a client was shown.

### CellWrites (`api/routes.rs:292-345, 479-566`, `flow_routes.rs:247-289`)
A request is `resolved` (`write_cell`, `spread_cells`: bound to the version they
resolved on, retried up to `RESOLVE_RETRY_LIMIT`), `guarded` (a batch with the
client's base), `batch` (a batch without one) or `flow` (previews the grown cube,
grows it, applies with no base). `Restructure` and `DefineRules` are what others
commit. `cell` records who wrote each member's cell, so that a misplaced write shows.

### ViewCache (`api/view_cache.rs`, `query_routes.rs:65-90, 718-834`, `calc_factory.rs:126-139`)
A request pins its cube (`Begin`), reads the version of each cube the pinned rules
name, one load each (`ReadDepVersion`), looks the key up (`Hit`, `Miss`), on a miss
pins every other cube one by one (`PinSibling`) and computes (`Compute`,
`ComputeFails`). A cellset is abstracted to what it was computed from: view, context
and the version of every cube used, where a rule that reads a cell of another cube
evaluates that cube's rules (`UsedFrom`; `eval.rs:377-463`). A pool is its entries in
recency order and its running byte sum; `Inserted` replaces, evicts and adds as
`Pool::insert` does.

### DimensionLibrary (`engine/dimensions.rs`, `engine/lib.rs`, `persist/registry.rs`)
`library` is the registry in memory, `copy` what each referencing cube holds,
`bodies` and `index` the files. An edit runs `EditShared`, `SaveBody` for each dimension,
`SaveIndex` and `Publish`, then `FanOut` cube by cube, and any of them may be the last before
`SaveFails` or `Crash`; `Boot` loads the index, refuses a body it cannot match, and
appends to lagging copies. `drift` is a ghost: why a copy
may differ from the library.

### Scheduler (`api/scheduler.rs`, `flow/scheduler.rs`, `flow/ledger.rs`)
`Tick` scans for due jobs from the latest successes in `records`, `Dispatch` starts
the next, `Kick` starts one beside it, `Execute` runs its steps, each of which may
fail, and appends the outcome; `frames` is the file, with the retention that rewrites
it; `Crash` and `Boot` fail what was active. `effects` and `known` are ghosts: the
steps each run applied, and when each job's last recorded success fired.

### SecurityStore, Access (`crates/epiphany-security/src`, `api/security_routes.rs`)
`store` is memory, `disk` the document and `previous` the one its last rename
replaced, which a crash may bring back.
A request is received, gated on the live store, committed step by step (`Commit`,
`SaveFails`), revokes sessions (`Revoke`) and is recorded (`Record`, `RecordFails`).
`log` and `files` are the audit log and its sequence file with retention; `Rot`
damages a header. `named` and `issued` are ghosts: subjects listed while they did
not exist, and one more than the greatest audit number a record was counted under.
`unsynced` holds the numbers of frames that were written whole and whose sync failed.

### Sessions (`api/auth.rs`, `session.rs`, `login_guard.rs`, `ws.rs`)
A handler is a sequence of the locks it takes: a login checks the guard, copies the
hash, verifies outside any lock, resolves the principal and clears the guard, and
creates the session, with the time it captured at its start; a password change does
the same, verifies again under the store's lock, then clears the guard and ends the
other sessions one lock later. The administrator's reset and deletion change the
store, and end the sessions in a second step (`ending`). `feed` is the broadcast
channel, `unsent` what a commit has published under its writer lock and not yet
announced; a stream reads the session, the flag and the rights in three steps per
event. The ghost keeps, of each user, the failures since the last success, of each
token the password last proved with it and when it was last presented, and of each
event who could have been shown it since it was published.

### Dimension, CubeEdits, SavedObjects, ModelText (`crates/epiphany-core/src`)
`dims` holds members, edges, aliases and attributes; `layout` the bit widths of a
key, which is packed while they fit and is re-packed, unpacked and packed again as the
cube's dimensions grow and shrink; `cells` and
`textCells` are keyed by positions and `pool` interns texts. Every schema edit moves
or drops them as `cube.rs` does, on a clone that is swapped in whole. `NamedCube`
knows names only and is what the edits implement (`KeepsTheNames`). `SavedObjects`
adds what users save and the flights of their handlers: a check on a snapshot, then a
commit on a later model. `ModelText` writes a model as text and loads it through the
same builders.

### RuleEval, ViewQuery, RuleQueries (`crates/epiphany-calc/src`, `core/query.rs`, `spread.rs`)
`RuleEval` compiles rules, infers feeders and evaluates a cell with memo, cycle
detection, overlay, mask and fed set; `ViewQuery` turns a view into a grid and a
grid into a cellset, and spreads; `RuleQueries` runs a request with its workers, and
states in `Meaning` what the rules mean as they are written, uncompiled, without
memo and over all leaves.

### RuleTokens, RuleText, MdxText, MdxSets, Texts
The tokenizers, recursive-descent parsers and printers of rules and MDX, the
evaluator of sets over a dimension, the CSV reader. Characters matter only where the
code looks at them: a name is one letter.

### FlowScript, Flows, Automation, DataDirectory
A script is the sequence of host calls it makes (the JavaScript engine is external).
`Flows` runs it under a deadline, authorizes what it staged as the runner, and
applies it target by target against other writers. A script's first read of a cube
looks three times, as `with_view` does, while others commit and are granted or denied
things: `LookUp` at the right, `PinCube` at the engine, `CaptureMask` at the mask; from
then on the run reads that `View`. `Automation` keeps documents in
memory before it writes them, with their text and the lift of the legacy form. `DataDirectory` boots over misnamed folders and legacy snapshots.

### DirectoryLock, Connector
`DirectoryLock` models both forms of the lock: on Unix a file's existence, on Windows
a handle. `Connector` is a command's child and its forked worker, two pipes of
`PipeSize`, the reader threads and the caller with its deadline.

## 3. The runs

| Run | Question | Instance |
|---|---|---|
| `wal_log` | Does the scan recover whole units from every file a crash, a failed append or one damaged frame leaves? Does one server at a time own the directory? | 2 records, batches of up to two, 7 frames; 3 servers, 2 operators, 1 failed call of the file system |
| `cube_engine` | With any file operation failing, panics and crashes anywhere, is what recovery returns owed to somebody, and is the cube a register? | 2 members, 2 values, 2 units in the log; setting "mixed": every operation, every fault but the mark's, no automatic checkpoint; setting "unpublished": the mark may fail after the store has the change and every write checkpoints, over operations the model does not reject and that do not reindex |
| `commit_versions` | Do versions grow and name one content, over racing cubes, a failing mark and restarts? | 2 cubes, 4 versions, 3 changes each |
| `cell_writes` | Do bound requests write what they name, and is every request answered? | 2 clients, 2 members, 2 commits of others, 2 tries |
| `view_cache` | Are answers right, not stale, and pools bounded, when rules read one cube deep? | 2 cubes, 2 readers, a saved view in two contexts and an ad-hoc view, pools of 2, budgets 3 and 1, 2 commits |
| `dimension_library` | Do copies follow the library whatever stops half way? | 2 cubes, 2 ids, 2 names, 2 kinds, 3 requests, 2 faults or crashes |
| `job_scheduler` | Does the ledger tell what ran, and does every flight end? Do connectors end and tell the whole? | 2 jobs, retention of 1 run, clock to 2, 2 events; pipes of 2, caps 3 and 1, 3 records, 1 fault |
| `access_changes` | Are rights as given, gates live, audit numbers used once? | 2 users, a group, a cube, an element, 2 interchangeable clients, 4 requests, 2 records kept, 1 fault |
| `cube_edits` | Do names keep their values, and what users save its meaning and owner? | 2 dimensions of 2 and 3 members with 3 names each, packed keys of up to 3 bits, 3 users; one workload for each kind of object |
| `rule_queries` | Are values what the rules mean, whatever the path? Do texts read back? | a list of small models and requests; texts up to the depth and lengths of the lists in `MCRuleQueries` |
| `sessions` | Was every session earned, and does a stream tell what may be seen, in order, to the end? | 1 user, 2 possible owners, 2 clients, lockout after 2 for 1, life 3, idle 1, channel of 1, clock to 3, 3 arrivals |
| `flows` | Do answers say what was applied, with the right to it? Do documents and migrations survive? | 2 clients, 6 staged changes, 2 log lines, one fault of each kind, 2 edits, 2 crashes |

A run with several modules runs each as an episode of its own: the initial state
chooses one, and the others stand still.

Properties. Each of them is a conjunction of named parts, so that a run asks one
question of one subject; the parts say the following.

- `RecoversWholeUnits`: the types; replay after a crash gives the acknowledged units,
  or these and the one in doubt, and never reports corruption
  (`CrashRecoversWholeUnits`); after damage it gives whole units from the front
  (`RotRecoversAPrefix`). `OpenKeepsIntactUnits`: opening never truncates an intact
  acknowledged unit; it refuses instead. `OneServerAtATime`: two servers never own the
  directory, unless one started while an operator was about to remove a lock file that
  another operator had already removed.
- `PublishedIsKept`: the types; after a crash at any moment recovery opens and returns
  the published model, or what an unanswered or failed change made of it
  (`CrashRecoversPublished`). `FailStoppedIsPublished`: while a writer is fail-stopped,
  memory is what readers see, which makes the healing checkpoint sound.
  `ImplementsAbstractCube`: the refinement.
- `PublishedBelowMark`: every mark a crash can leave covers every version shown.
  `VersionsIncrease`: versions of a cube only grow and no two commits share one.
  `CasBaseIsCurrent`: an accepted base other than 0 was read from what the cube shows.
- `WritesLandOnNames`, `NoWriteUnderARule`: a request bound to a version writes the
  members it names, never under a rule. `EveryRequestIsAnswered`.
- `AnswersAreCurrent`: an answer is the view asked for, in the caller's context, at the
  version the response reports (`AnswersTheRequest`), computed from nothing older than
  what was published when the request began (`NeverStale`). `PoolsAreSound`: caps,
  budgets and byte sums of both pools hold, and an ad-hoc read never evicts a saved view.
- `LibraryIsSound`: a copy follows the library but for the reasons `drift` names, a boot
  stops only for these, and the files always load. `NothingIsForgotten`: a boot brings
  appends forward, and a published reference survives.
- `LedgerTellsTheRuns`: an active run is being executed, an outcome says what was
  applied, and a recorded success survives retention and recovery. `FlightsEnd`.
  `ProgramsAreContained`: rows are the whole output, and past the deadline no process of
  the group runs. `NobodyIsLeftWaiting`: the caller is answered, pipes do not stay full.
- `RightsAreAsGiven`: an administrator remains in memory and in every document a crash
  can leave, a restart gives the same rights, a name used again inherits nothing, and a
  gate decides on the store as it is (`GatesAreLive`). `NumbersIssuedOnce`: the next audit
  number is past every record counted, and no two records, in memory or as a restart
  would find them, have one number, unless the first was refused because its sync failed.
- `ModelIsSound`: the hierarchy is acyclic, derived lookups are those a rebuild gives,
  aliases are unique, every key decodes to a cell that takes a value of its kind, and
  every sandbox can be committed whole. `KeepsTheNames`:
  refinement of `NamedCube`. `ObjectsKeepTheirOwners`: only its owner or an
  administrator replaces or deletes an object, and it keeps its owner, unless another
  request for it landed in between. `NothingBreaksUnseen`: what an edit breaks is listed
  by the warning, stored rules compile, and the text brings back the model.
- `ValuesMeanTheRules`: cells are what the rules as written mean, tests see their fixtures
  only, analyzable rules are fed. `ViewsShowWhatIsThere`: answers do not depend on the
  workers, suppression hides nothing that has a value or an error. `NumbersAddUp`: an
  explanation adds up to the value, a spread reads back. `TextsReadBack`,
  `TextsMeanWhatTheySay`: printed texts parse to the same tree, precedence is the
  grammar's, sets keep the authored order, filters drop only what is certainly out.
- `LoginsAreEarned`: a session's password is its user's, unless a handler is about to end
  it or its login was overtaken (`SessionsMatchPasswords`); of changes verified on one
  password one succeeds (`ChangesProveThePassword`); only requests keep a session alive;
  a lockout took its failures and lasts no longer than it should.
  `StreamsTellWhatMayBeSeen`: what is about to be sent could be seen by the stream's user
  at some time since it was published, and the token stood then. `SubscribersFollow`:
  events in commit order (`EventsInCommitOrder`), and a subscriber hears of what it may
  see or lagged.
- `RunsDoWhatTheySay`: answers match effects, a repeated run converges, tests predict
  runs. `ReadsAgree`: all a run reads of a cube was there at one moment, its right
  to read the cube then or before, its sight of the members then or later. `OnlyAuthorizedOutcomesLand`:
  nothing is applied without the right to it, and an answer is final.
  `EveryRunIsAnswered`. `DocumentsSurvive`: documents read back from their text,
  acknowledged ones survive restarts, a redaction is never stored, owners stay.
  `UpgradesLoseNothing`: folders come to their slugs, the lift loses no automation, no
  folder is overwritten.

Why the bounds are enough. `wal_log`: seven frames hold a bare record, a batch of
two, and a third unit torn or damaged, so a break can fall before, inside and after
a batch with intact frames behind it; three servers are one that crashed, one that
runs and one that starts. `cube_engine`: two members are the fewest a
reorder can permute, and two units the fewest that replay can apply in the wrong
order or in part; a checkpoint resets them, so runs are unbounded in length.
`commit_versions`: with two cubes every order of mint, lock and publish occurs, and
four versions allow a commit, a failed mark, a restart and a commit after it.
`cell_writes`: one edit between resolve and apply suffices for every race, the
second lets the retry conflict as well. `view_cache`: two readers race on one key;
sizes 1 and 3 make one cellset cacheable and one too large (`MaxCells` 2); pools of
two entries evict. `dimension_library`: two cubes are the fewest a fan-out can stop
between, three requests are an edit, a second one that meets what the first left, and
a creation. `job_scheduler`: one retained run makes every append trim. `access_changes`:
four requests are a login and three changes, enough to take a name away, reuse it and
read it; keeping two records makes the fourth append trim. `cube_edits`: a cube of 2 lines by
3 measures has keys of three bits; a third line makes it unpacked, removing a member of
either dimension then packs it again, and removing a measure of the packed cube makes
its keys narrower.
`sessions`: two clients are the fewest of which one overtakes the other; the channel of
one event lags after two. `flows`: two clients race on one target; two edits by others are the
fewest that come between two pairs of looks, a write and a denial or its withdrawal, and
one user is denied a member at the start, so that lifting it takes one edit; a crash may
interrupt the boot that recovers from a crash. Symmetry is used only over model values and only
in runs without liveness.

Deadlock is checked in `cube_engine`, `commit_versions` and `view_cache`. The others
bound what arrives, so they stop when it is used up, and say `CHECK_DEADLOCK FALSE`.

Fairness. `cell_writes`: weak fairness of each client's own handler, because the
asynchronous runtime runs a started handler to its answer; no fairness between
requests is assumed, and the bound on retries is what makes the property true. A
client that disconnects may cancel its handler; the commit already spawned continues,
and the client then expects no answer. `job_scheduler`: a server that is down comes up
(the service file restarts it), and a runner that can execute does; in the connector's
episode the caller's next step, the deadline and each reader thread, which the
operating system runs. `sessions`: the stream's task and the announcement that a commit
owes. `flows`: each client's next step or its deadline. Nothing is assumed of clients,
operators, crashes, or the child process of a connector.

## 4. The proofs

TLAPS checks each of these for every value of the constants that the named
assumptions and hypotheses admit.

| Module | Theorems (the property of a run they state) | Hypothesis |
|---|---|---|
| `CubeEngine_proofs` | `PublishedSurvives` (`PublishedIsKept`), `Implements` (`ImplementsAbstractCube`), `DurableInvariance` | `Recoverable` |
| | `HealingIsSound` (`FailStoppedIsPublished`), `OkPublishes` (readers see an operation that returned Ok, and nothing else), `NoTraceInMemory` (between operations memory is what readers see), `Invariance` | `NothingUnpublished` for `NoTraceInMemory` |
| `Store_proofs` | `ModelStaysSound` (`ModelIsSound`), `OwnersAreKept` (`ObjectsKeepTheirOwners`), `RulesStoredCompile` and `BreaksWereListed` (`StoredRulesCompile` and `BreaksAreListed`, parts of `NothingBreaksUnseen`), `ModelInvariance` | - |
| | `CellsFollowTheirNames`, `WritesAreByName` (of `KeepsTheNames`, all but which edits of the schema there are) | - |
| | `MarkCoversPublished` (`PublishedBelowMark`), `NoForeignBase` (`CasBaseIsCurrent`), `Increasing` (`VersionsIncrease`), `TypeCorrect`, `Invariance` | `OnlyWriteFails` |
| `Writes_proofs` | `LandOnNames` (`WritesLandOnNames`), `NeverUnderARule` (`NoWriteUnderARule`), `Invariance` | - |
| | `RunsLandAsAuthorized` (`OnlyAuthorizedOutcomesLand`), `ReadsAreOfOneMoment` (`ReadsAgree`), `FlowInvariance` | - |
| `Disk_proofs` | `RecoveredInWholeUnits` (`RecoversWholeUnits`), `IntactUnitsAreKept` (`OpenKeepsIntactUnits`), `LogInvariance` | - |
| | `LibrarySound` (`LibraryIsSound`), `NothingForgotten` (`NothingIsForgotten`), `LibraryInvariance` | - |
| `Server_proofs` | `OneServer` (`OneServerAtATime`), `Refusals` (a server is refused only by one that runs or a file left over) | - |
| | `ConnectorContains` (`ProgramsAreContained`) | `IsProgram` of each program |
| | `LedgerTells` (`LedgerTellsTheRuns`) | `~SameMillis` |
| | `EndsAreTrue` (what the ledger says of active runs and of ends), `LedgerInvariance` | - |
| | `AnswersAreTheRequests`, `AnswersStayCurrent` (`AnswersAreCurrent`), `PoolsKeepTheirBooks` (`PoolsAreSound`), `CacheInvariance` | `RulesReadOneLevel` for `AnswersStayCurrent` |
| `Sessions_proofs` | `SessionsAreEarned` (`LoginsAreEarned`), `StreamsTellTheirUsers` (`StreamsTellWhatMayBeSeen`), `SentInCommitOrder` (the safety half of `SubscribersFollow`), `Invariance` | - |
| `Access_proofs` | `RightsAsGiven` (`RightsAreAsGiven`), `IssuedOnce` (`NumbersIssuedOnce`), `Invariance` | `MaxFaults <= 1` for `IssuedOnce` (the order of the records, in `Invariance`, for any number of faults) |

The constants' own assumptions are those the modules state: sentinels are not values,
bounds are numbers, the jobs are finitely many, a channel keeps at least one event, the sandbox's owner is among
those who can own one.

**The log.** What is on disk is related to what was written, not to what a scan makes
of it. `WalInv` says that the file holds the frames of the units written, acknowledged
ones first, up to a point no earlier than the last acknowledged frame, then at most one
torn frame, with the one frame bit rot hit damaged (`Torn`); and that a store which
accepts writes has a file of whole units. From it the part in front of the damage is
known (`Intact`), and `ReplayIntact` says what a replay makes of such a file: the
records of `UnitsIn` units, their end as the good offset, and a refusal exactly if a
readable frame is behind the damage. The scan is a fold of any length and so is
`FlattenSeq`; the library's induction theorems cannot be used, so `AllNumbers` derives
induction over the numbers for a SET from a well-founded ordering, `FlattenByStages`
and `ScanByStages` unroll the folds, and `ScanInUnit` is the step: inside a unit the
scan stays in it or delivers it whole. An intact unit behind the cut would be a readable
frame behind the damage, so the open refuses (`IntactUnitBehindTheCut`).

**Versions.** `PublishedBelowMark` is not inductive: nothing in it says that the commit
about to publish has a durable mark above its version. `IInv` adds `MarkInv` (no
durable mark is above the one read; the counter is above it; the file has an
undurable content only between a rename and its sync, under the mark lock, so a
commit that is `recorded` is covered by every mark a crash may leave), `MintInv`
(versions in flight are distinct, below the counter, never shown, and above all
their cube has shown) and `HistoryInv` (a shown version other than 0 names one
content). `VersionsIncrease` follows from `MintInv` at the step that publishes. The
hypothesis `OnlyWriteFails`, `MarkFaults \subseteq {"write"}`, cannot be dropped: with
a failing directory sync `PublishedBelowMark` is false, because the renamed but
undurable mark satisfies later commits; with an unreadable mark `VersionsIncrease` is
false, because `read_commit_watermark` takes it for 0. Both are seen by adding
`"dirsync"` or `"read"` to `MarkFaults` in `CommitVersions.cfg`.

**The model under edits.** `ModelIsSound` holds of a dimension only because every kind
of edit keeps several maps in step, most of them incrementally. `DimOK` says of one
dimension, field by field, what they keep: elements and rows of one length; edges to
positions that exist, no child twice and no cycle (`TreeOK`); a parent of children
consolidates; the name map and the alias map are exactly the inverses of the names and
of the alias values (`NamesFound`, `AliasesFound`), which is what makes a rebuild give
the same ones, since an element carries each alias in one place. That no cycle closes is stated without the walk of the code:
every child is in a set closed under the edges that its parent is not in (`Apart`,
`Dag`). The walk, a fold of as many rounds as there are members, finds exactly what no
such set holds it off from, so the guards of the edits keep `Dag`. A reorder, insertion
or deletion renumbers, and carries the sets, the maps and the rows along the permutation. Growth and the values of
attributes are folds, followed by stages like the log's scan. `DimsHold` is `DimOK` of
every dimension, with no string twice in the pool. `SavedOK` says that sandboxes hold
leaf cells of the dimensions as they are: an edit either leaves every leaf a leaf
(`KindsStay`), and then nothing has to be done, or prunes what it converts, or carries
the cells by name (`Follower`), and then a cell that is left is a leaf under its new
position. For owners, `FlightsHold`: a request that was not overtaken names an object
that its user may still modify, with the owner it will write back, or a name that is
still free (`Entitled`); only the landing of another request on that very name ends
this, and marks it. `RulesHold` says that rules which were compiled, on a snapshot that
is not stale, still compile: every commit of another makes the snapshot stale, and then
the check counts for nothing. What breaks is listed because every name a check resolves
is held where `references_to_member` looks (`Listed`), for objects of the form of their
kind (`ObjectsOK`). That cells stay where a value of their kind can be written rests on the
packing being invertible: a dimension's field is wide enough for its positions and lies
above the fields before it, so a key decodes to the one coordinate it was packed from
(`KeyDecodes`). An edit then carries each cell to the cell with its names, or drops it
where there is none that takes its kind (`CellsCarried`), whether the keys were rebuilt
under a new layout, the positions renumbered, or an element retyped.
`CellsFollowTheirNames` says the same without keys and positions: read by names
(`NumbersByName`, `TextsByName`, `OverridesByName`), what a cube and its sandboxes hold
after an edit is what they held before it, without the cells whose names no longer name
a cell of their kind. Cells of different coordinates have different names (`NamesApart`), so a
map that is carried cell by cell to the cells of the same names (`MapCarried`) is, by
name, the map there was, where the names still name a cell (`NumbersFollow`,
`TextsFollow`). `WritesAreByName` takes every other step of `SavedObjects` and finds the
step of `NamedCube` it is: a write of the one cell at its address, or a use of one
sandbox, whose commit is a merge that names commute with. `BuiltFromAssumption` says that a cube is built from
finite lists, which name an attribute once, `WorkloadsAssumption` that requests are
operations their kind of object has, and that what is saved or loaded has the form of
its kind; TLC evaluates both.

**Cell writes.** `BoundInv` says that while nothing was committed since a bound
request's base its indices are those of its names and no rule covers them; the
optimistic check makes base and version equal at the step that applies.

**Flows.** `FlowSpec` has any requests, users, bodies, imports, scripts and edits by
others, and says nothing of what the automation documents become meanwhile; every step
of `MCFlows` is one of its steps or changes nothing a flow depends on. Neither property
is inductive. `OnlyAuthorizedOutcomesLand` compares one step with the rights there were
some time before it, and the needs are consumed one by one while the targets stay: with
`LandingInv` every target still to be applied claims only what the run's user had at a
moment of its authorization, or what is still on the list of needs (`Claims`,
`NeedsCoverTargets`: the needs computed from an outcome contain all that its targets
can change, through `FlattenSeq` over cubes in name order). What a target changes is
then followed through the plan, the growth, which may move positions under planned
cells, and the commit: a cell that changes has the address of a planned one, so the
members it names were authorized, unless the run was overtaken by another's growth
(`overtaken`), where the code commits by position (section 5). `StagingInv` says what
of a staged script that depends on: it stages sequences of cells with finitely many
names. `ReadsAgree` needs `ReadingInv`: the right to each cube the script looked at, the
cube and the mask are of three moments since it started, in this order (`Viewed`), a look
under way has found as much as it has come to (`Looked`), and each value read is of its
view (`Saw`). The moments only grow, and a look finds what the latest one holds
(`MomentAdded`). `FetchingInv` and `ModelShape` carry the shape of
inputs and cubes there. `ScriptsAssumption`, `FeedsAssumption` and `NamesAssumption`
say that scripts, fetched rows and the order of names are finite sequences and a call
addresses finitely many members.

**The engine.** `FailStoppedIsPublished` says nothing of how memory came to be
published. `IInv` adds `OpInv` (an operation runs exactly while the store is not at
rest, and a checkpoint writes the model it found), `HealInv` (a writer fail-stops
only at the end of a repair, which starts from the published model, and then takes no
operation but checkpoints, which keep memory) and `OwedInv` (whatever a client's
operation has done so far derives, stage by stage, from a model in `doubt`, so its
result is among the outcomes it announced in `pending`: `FromModel`). `OkPublishes` is
`OwedInv` at the step that publishes. `NoTraceInMemory` adds `MemInv`: between
operations, and in a checkpoint, memory is the published model, and a batch that has
changed memory can only return Ok. It needs `NothingUnpublished`: the mark does not
fail, and writes do not checkpoint on their way or no file operation of a checkpoint
fails. Without it the statement is false: a batch whose mark fails, or whose automatic
checkpoint fails after the append, is in memory and not published.

**Durability.** Recovery applies the log over the snapshot, and a crash may leave a new
snapshot with an old log. The proof never unfolds a log: the lemmas on `CubeStore` treat
what a log does as an overlay (`Replay` takes for each cell and pin its last unit), so
that replaying a log over a model it has already produced, or over one that differs
only in what the snapshot alone carries, changes nothing (`RecoverIsIdempotent`), and a
unit more is a write more. `DInv` then says, for every stage of an operation, what
every recovery from every content of the two files gives: the published model or an
outcome in doubt (`CrashInv`), exactly memory when the store is settled (`ExactInv`),
with and without the unit being appended (`AppendInv`), the staged model with the old
log and without (`StageInv`), and the same still after a poisoned append, when nothing
more is written (`PoisonInv`). One lemma for each file operation shows that it keeps
`DInv`, one each that crash and boot do; the theorem combines them. `Implements` takes
the same cases and names the step of `AbstractCube` each is: an attempt, a settlement,
a discard or a stutter. The hypothesis `Recoverable` is `NothingUnpublished`, and that
explicit checkpoints are not submitted or the write of a new log's header does not
fail. It is not an assumption of convenience: in the full generality of the code the
property is false, in the ways section 5 lists. The server's default (threshold 8 MiB,
`store.rs`) is in the second of `NothingUnpublished`'s two regimes, a store that never
checkpoints on its way in the first. The run's setting "mixed" satisfies
`Recoverable`; its setting "unpublished" is outside, and TLC alone checks it.

**Shared dimensions.** The properties speak of what is published; a change lives before
that in a staged registry and in files, and after that in copies it has yet to reach.
`StagedInv` says what the staged registry is: the published one with references added,
and with one dimension changed when a change is being saved. `DiskInv` gives index and
bodies for each step of `save_registry`: a body already written holds what is staged,
any other what is published or one append more (`NearTo`), and the index turns from one
registry to the other in one step. `StepInv` says of each copy that it has the
library's members, in their order, or the members the fan-out on its way will change to
these (`WasInStep`), or some of them when a boot had to bring it forward. `DownInv` is
what is left after a crash: every copy is one append at most from the body that a boot
will load (`Reachable`), so reconciling it meets no conflict and brings it to that body;
what cannot be promised of a copy is named in `drift`. That `define_elements` with the
whole library dimension comes to this is a fold of `Grown` over a sequence,
which is followed by stages and induction over their numbers as sets (`AllNumbers`).
The assumptions are that ids count from 1, that names and kinds are not empty, and that
cubes are numbered, as the code's ids and a first member are.

**The view cache.** `SourceInv` says of every cellset, cached or in flight, that it is of
the view and context its key names, and of versions at least those the key names; a
request's own dependency versions are at least what was published when it began. A hit
therefore serves nothing older than the request, if the key names every cube the
cellset used: this is `RulesReadOneLevel`, which says that the rules of a cube name
every cube that the rules of the cubes they name read. Without it the property is false
(section 5). `PoolInv` keeps each pool's byte sum equal to the bytes of what it holds,
by counting the units of entries as a set, and within its budget.

**The directory lock.** `LockInv`: a running server's handle is held and its file is a
lock (`HandlesAreHeld`, `FilesAreLocks`), no server runs while an operator is sure that
none does (`NoServerWhileSure`), files outlive the servers that made them.

**The run ledger.** The log is a sequence of records that appends extend, compaction
rewrites and a boot completes with interrupted runs; runs are known only by what a
fold makes of it. `LogInv` says of the log itself: every record of an end tells what
the run did (`TellsTruth`), an end is the last record of its run (`FinalsLast`), and a
success that was seen is remembered (`Remembers`). `RunnerOK` says what the record
of a runner's flight, which is logged in steps, must be at each of them, and
`Executed` that an unfinished run in the log has a runner or the server is down. What an
append does is one predicate (`Extended`), and what retention keeps another (`Kept`):
records are dropped oldest first, of runs that ended, and the newest success of each
job survives. Both rest on lemmas on the model's operators: `InOrder` lists a finite set
by any strict total order without repeating (`Ranks`, `Listing`, `OldestFirstLists`),
and the fold that a boot runs over the log is, record by record, a recovery by stages
(`RecoveryByStages`, by induction over the numbers as well-founded sets).
`SuccessesSurvive` alone needs `~SameMillis`: two kicks of a job in one millisecond
share a run id, and the second's records make the first's success the older state of one
run, which the next compaction drops (section 5). `EndsAreTrue` is what remains.

**Connectors.** `RowsAreTheWholeOutput` compares what is parsed with what was written by
two processes through a pipe. `BytesInv` counts: what the reader has read, what is in
the pipe and what each process has yet to write make up the output of the program; what
the reader kept is the lesser of what it read and the cap. `EndsInv` says when nothing
more can come: a reader that saw the end of its pipe, without a failure, saw it
empty and held by nobody, and a process that ended by itself had written all. `CallerInv`
orders the caller's steps: the verdict comes after the child was reaped, and once the
group was signalled only a worker that left it runs. Processes only end (`Quieter`), so
the steps of the system and of the caller's kill are proved alike (`QuietKeeps`,
`CallerEnds`). `IsProgram` is what the system guarantees of a program (a worker without
a pipe writes to none), and one restriction: a worker writes nothing to the standard
error (section 5). The run's programs satisfy it (`ProgramsAssumption`).

**Sessions.** `SessionsMatchPasswords` is not inductive, for three reasons TLC gave one
after the other while `SInv` was strengthened. A login in flight will open a session
with the password it read: `LoginsInv` says that it is the user's, or the login is
marked as overtaken, or somebody is about to end that user's sessions and mark it. A
password change that is about to end the others keeps its own session:
`ChangersInv` says that among the changes of a user that are still to do so, one keeps
a session opened with the password as it is, unless an administrator ends them all. And
that needs two requests admitted with one token to be of one user, which `RequestInv`
adds, with the times requests took from the clock and the tokens they carry. The guard's
part is `GuardInv` (it never counts more failures than there were, and no lockout ends
later than the last of them allows), the table's `TableInv`. For streams, `FeedInv`
says that every event kept, or published and not yet announced, has its place in the
order, that whoever can see it now is among those who could (`may`), and that a token
that opened nothing when it was published opens nothing; `StreamInv` carries this
through the three looks of the pump. The proof of a step splits requests by what
happened to them (`Moved`: nothing a later step depends on; `Replaces`: the password
changed; `ChangeRevoke`: the others ended), so that the password invariants are proved
once for all steps that change none of these and once for each of the others.

**Rights.** `RightsAreAsGiven` speaks of what a user may do, which says little about
the store it is resolved on. `StoreInv` says what a store is: accounts of known users in
groups that exist, lists with somebody on each, an administrator; that both documents a
crash may leave are such a store saved; and that while the server is up the document is
the store in memory, and whoever is listed and does not exist was named by a request.
`RequestInv` gives what is left of each request the shape its handler needs. One lemma
per change of the store (`CreateUserFollows` ... `SetElementAccessFollows`) shows that
it leaves a store and lists nobody new but the subject of a grant; the last
administrator needs that a set of which one member is not all has another
(`AnotherAdmin`). `RoundTrip` shows that the rows a store is saved as are read back as
the same lists, which is where "a list with nobody on it is not kept" is used.

**The audit log.** `LogInv` says that the numbers of the records, in memory and in the
file up to its first torn frame, behind which replay sees nothing, never fall, and repeat
only those in `unsynced`, the numbers of appends whose frame was written whole and whose
sync failed (`InOrder`, `Ordered`); and that while the server runs the next number is
above all of them, or is one of these (`Fits`). It holds whatever fails, crashes or rots.
`IssueInv` adds what a restart can find of the numbers issued (`Covers`): in the sequence
file or in a frame before the first torn one; and, as long as nothing went wrong, that
it finds both (`Sound`). `IssuedOnce` supposes one fault at most, as the run does: with
two, the sequence file lost in a crash and the records behind a rotten header, numbering
starts again (section 5).

Checked by TLC only: liveness under fairness (`EveryRequestIsAnswered`, `FlightsEnd`,
`NobodyIsLeftWaiting`, `SubscribersCatchUp`, `EveryRunIsAnswered`); what recursion
computes for inputs of any size (`RuleEval`, the parsers), which needs induction over
data; `cube_engine` outside
`Recoverable`; of `KeepsTheNames` that an edit of the schema is one of the edits `NamedCube`
lists; of `NothingBreaksUnseen` the model's text; `Automation`,
`DataDirectory`, and of `Flows` those that say what a run computes
(`RunsDoWhatTheySay`); and the programs of a connector whose workers write to the
standard error.

## 5. What the models leave out, and what was seen on the way

Where the code does something else than a comment says, or than one would expect, the
properties are stated with the exception, and it can be seen as follows.

| What | Seen by |
|---|---|
| `Store::open` renames a corrupt log away before it refuses, so the next start (the service file restarts on failure) serves the snapshot without any record of the log (`store.rs:194-201`) | the invariant `IntactUnitsSurviveRestart` with `WalLog.cfg` |
| a checkpoint that truncates the log and fails on the header returns an error and leaves the store appending to a headerless file, which the next open refuses (`store.rs:1257`) | `CubeEngine.cfg` with `Faults = {"header"}` and cell batches and checkpoints for `Ops` |
| after a commit failed on the mark, or on its automatic checkpoint, a rejected definition restores memory but not the log; a crash recovers the failed change under a later acknowledged one (`engine/lib.rs:1613`) | the same with `Faults = {"watermark"}` and batches, a pin and an invalid view |
| every boot shows every cube at version 0, so a base version 0 read before a restart is accepted after it (`engine/lib.rs:459`) | `AnyCasBaseIsCurrent` with `CommitVersions.cfg` |
| a batch without a base, and a flow, apply indices resolved on an older layout: the write lands on another member and is answered Ok (`routes.rs:329`) | `AllWritesLandOnNames` with `CellWrites.cfg` |
| a schema edit or a rules definition whose mark write fails stays in the writer's memory at an unchanged version (`engine/lib.rs:1642-1643`): a write bound to that version passes the base check, against a layout it was not resolved on | not in `cell_writes`, which has no faults; the failed mark is a fault of `CubeEngine`, `Faults = {"watermark"}` |
| the cache's key holds the cubes the target's rules name, not those that THEIR rules name: with Sales reading FX and FX reading Costs, a write to Costs leaves the old cellset served (`query_routes.rs:65`) | `ViewCache.cfg` with `ThreeCubes` and `TwoDeep` |
| a flow grows a cube's copy of a shared dimension without the library | `CopiesMatchTheLibrary` with `DimensionLibrary.cfg` |
| ids of dimensions are taken from the greatest stored one, so define, delete and restart reissue an id | `IdsAreNotReissued` with the same |
| two manual kicks of a job in one millisecond share a run id (`job_routes.rs:208-211`); the later run's records supersede a success, and compaction forgets it | `Scheduler.cfg` with `SameMillis = TRUE` |
| a read error on the standard error ends its reader, which closes the pipe; a worker that writes there is ended by the signal, and rows are answered for what it wrote before (`epiphany-connect/src/lib.rs:243-268`) | `RowsAreTheWholeOutput` with `Scheduler.cfg`, without `ProgramsAssumption`, and a worker of one byte on each stream |
| an audit header damaged and a sequence file lost: numbering starts again, a documented fallback | `Access.cfg` with `MaxFaults = 2` |
| an audit append whose write succeeds and whose sync fails is refused, but its whole frame stays and the number is not used up (`audit.rs:291-296`): the next record has the same number, and a restart shows both, the refused one among the records | `NumbersIssuedOnce` with `{}` for `unsynced`, with `Access.cfg` |
| the right to read a cube, the cube and the mask of a flow's read are loaded one after another (`flow_reader.rs:76`, `79`, `84`): a cube may be read as it was after the right was taken away, or with a member that was denied when it was so | `ReadsAgree` with `i = j`, and with `j = k`, with `Flows.cfg` |

Storage. `poison_wal` may fail to cut a failed append off, so a change whose caller got
an error may be recovered: the models allow it (`doubt`), as the code does. The comment
at `lib.rs:88` ("the cube is left unchanged") is true of readers only. `open_fresh_wal`
syncs the log, not its directory entry. Legacy snapshot formats are left out.

Reads and writes. Only `routes.rs` rejects writes to cells a rule covers; a flow's
writes are not checked. Named subsets are resolved for the caller and their resolution
is not in the view cache's key; `ViewCache` has no subsets. Since siblings are pinned one
by one, a cellset may combine versions that never coexisted; `NeverStale` asks only that
none be older than the request.

Shared dimensions. The names of global dimensions are not kept unique by
`register_dimension`; a `SetKind` edit cut short makes the next boot refuse;
`attach_dimension` and `compact_string_pool` are used by tests only.

Scheduler, access. The rename that ends a compaction of the audit log is taken as
durable, though its directory is not synced (`rewrite_file`); what a failed sync
leaves in the file is decided when it fails; opening the audit log does not fail. Failed ledger appends are ignored by the code and left out, as are a
panicking step and a crash inside recovery. At-most-once execution (ADR-0013) does not
hold across a crash between a step's effect and its success record. `patch_user` commits
its fields one by one.

Sessions. A login that verified the old password before a change ended the others opens
a session that outlives it (`overtaken`). A request's captured time may be older than
the last seen, and move it back; a failure recorded with such a time may shorten a
lockout. A subscriber that lags when nothing kept was for it hears nothing. One cube and
one stream are modelled; password hashing is external.

Core data and saved objects. The warning of what an edit breaks compares member names,
though subsets and views resolve names or aliases; an inserted element may take another's
alias as its name and shadow it; deleting a subset leaves the views that use it; unbound
staging into a sandbox may land on another name. Dynamic subsets are opaque in
`SavedObjects`; `i64::MIN` scaled, saturating weights and overflow inside a remainder are
left out.

Calculation. The claim that feeders never under-feed an analyzable rule
(`feeders.rs:9-11`) fails for a rule that reads a coordinate of its own cube which
expands to no leaf; `validate_feeders` reports it, and the gate then reads densely.
An explanation collects the cells of all conditions, so it can fail where the value does
not. A spread reads back exactly when the leaves it excludes are zero. String rules, the
cap on an explanation's expansion and its redaction are left out.

Texts. The printers add parentheses and nesting, so a chain of more than `MaxParseDepth`
operators parses and its printed form does not (`ast.rs:7`); the last record of a CSV
without a line end is not counted against the cap. Names of several characters name
nothing in the model.

Flows and automation. Application across targets is sequential, as documented;
`put_flow` keeps the owner when someone who is not an administrator replaces it; the
store does not sync its file; deleting a flow leaves tests and jobs that name it; growth
by another between a run's preview and its batch shifts positions (`overtaken` in
`Flows`). A timed-out script's thread runs on and its value is dropped.
`ReadCell` reads stored cells: a read of a cell under a rule goes through the resolver,
which `RuleQueries` models, and pins the cubes it reads when it comes to them.
`ApplyDimension` is one step that fails whole; the fan-out over the referring cubes and
its failures are those of `DimensionLibrary`, and no property of `flows` says anything of
them. The preview endpoint, which validates a source, is left out.

Boot. The lift at the first boot drops the legacy automation of a cube whose shared
dimension lags (`engine/lib.rs:562-571`); a key made unique by a prefix may itself be
taken; a failed migration followed by a PUT hides the legacy documents for good; two
cubes of one slug read each other's snapshots; a temporary folder of a boot that died
between its renames is taken for a cube by the next. `UpgradesLoseNothing` excepts these.

Connectors. A clean exit whose output was read may be answered as a timeout when the
deadline passes before the receive; a read error on a pipe counts as its end. After the
child was reaped its number may be another's, which is not modelled, nor are Windows
process trees, SQL drivers and the encryption of secrets.

## 6. The plan

Done: every part of section 1 modelled as PROJECT.json says, and the proofs of section
4. Left, in this order:

1. The rest of `KeepsTheNames`: that the schema, by names, changes as `NamedCube` says,
   edit by edit, over `DimsHold`.
2. `Automation`: the owners of documents, as those of saved objects.
