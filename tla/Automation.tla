----------------------------- MODULE Automation -----------------------------
(***************************************************************************)
(* The server-global automation model, its flows, flow tests, connections   *)
(* and jobs by name: its text (epiphany-core/src/text.rs), how a boot lifts *)
(* into it the automation that old cube models still carry                  *)
(* (epiphany-server/src/boot.rs), its store                                 *)
(* (epiphany-persist/src/automation.rs), the secrets beside it              *)
(* (epiphany-security/src/secret.rs), and the handlers that change them.    *)
(* The script of a flow is opaque here, the content of a source is a row    *)
(* set.  A change is made in memory and then the whole model is written to  *)
(* a temporary file that replaces the stored one; a write that fails is     *)
(* answered with an error, and memory keeps the change.                     *)
(***************************************************************************)
EXTENDS Naturals, Sequences, FiniteSets, SequencesExt, Functions, TLC


(***************************************************************************)
(* The forms a data-source connection takes: the spec in memory, one set of *)
(* fields for each kind (epiphany-core/src/query.rs); the flat record that  *)
(* both the model text (epiphany-core/src/text.rs) and the REST body        *)
(* (epiphany-api/src/connection_routes.rs) are; what a caller may see of    *)
(* it; and what a body must satisfy to become a spec again.                 *)
(* An optional field is a set of at most one value.                         *)
(***************************************************************************)

CONSTANTS
  EnabledKinds,   \* the kinds of connection the operator has opted in to
  AllowedHosts,   \* the hosts http and sql connections may name
  BadPaths        \* working directories that are relative or step upwards

(* A connection without a value in any field: ConnectionDoc's defaults.      *)
Flat ==
  [kind |-> "", program |-> "", args |-> <<>>, format |-> "", jsonPath |-> {}, timeout |-> 0,
   workingDir |-> {}, url |-> "", headers |-> <<>>, auth |-> {}, engine |-> "", host |-> "",
   port |-> 0, database |-> "", user |-> "", passwordSecret |-> {}, query |-> "", sslMode |-> ""]

FieldsOf(kind) ==
  CASE kind = "http" -> {"url", "headers", "auth", "format", "jsonPath", "timeout"}
    [] kind = "sql" -> {"engine", "host", "port", "database", "user", "passwordSecret",
                        "query", "sslMode", "timeout"}
    [] OTHER -> {"program", "args", "format", "jsonPath", "timeout", "workingDir"}

Connection(spec) == spec @@ Flat

(* The model text.  A field with no value is left out of it, the format and  *)
(* the timeout excepted; what is absent reads back as the default.  A token  *)
(* nobody knows reads back as the default of its kind.                       *)
\* Weakened: the timeout is not written.
WrittenNoTimeout(doc) ==
  Restrict(doc, {f \in DOMAIN doc : f = "kind" \/ (f # "timeout" /\ doc[f] # Flat[f])})

Written(doc) ==
  Restrict(doc, {f \in DOMAIN doc : f \in {"kind", "format", "timeout"} \/ doc[f] # Flat[f]})

KnownOr(token, known, default) == IF token \in known THEN token ELSE default

ReadTokens(doc) ==
  [doc EXCEPT !.format = KnownOr(@, {"json"}, "csv"),
              !.engine = IF @ \in {"mysql", "mariadb"} THEN "mysql" ELSE "postgres",
              !.sslMode = KnownOr(@, {"require", "disable"}, "verify-full"),
              !.auth = {[a EXCEPT !.kind = KnownOr(@, {"basic"}, "bearer")] : a \in @}]

\* build_connection: any kind but http and sql is a command.
BuildConnection(text) ==
  LET doc == ReadTokens(text @@ Flat)
      kind == KnownOr(doc.kind, {"http", "sql"}, "command")
  IN ("kind" :> kind) @@ Restrict(doc, FieldsOf(kind))

(* The REST body.  The target of a connection, where it goes and what it     *)
(* asks there, is blank for all but administrators.                          *)
Target(kind) ==
  CASE kind = "command" -> {"program", "args", "jsonPath", "workingDir"}
    [] kind = "http" -> {"url", "headers"}
    [] kind = "sql" -> {"host", "database", "user", "query"}

ToDto(spec, isAdmin) ==
  IF isAdmin THEN Connection(spec)
  ELSE Restrict(Flat, Target(spec.kind)) @@ Connection(spec)

DefaultTimeout == 30

KnownSecrets(names, secrets) == \A n \in names : n \in secrets

\* Weakened: a body is taken back whatever it leaves blank.
AcceptsBlank(dto, secrets) == dto.kind \in EnabledKinds

\* spec_from_dto's refusals.
Accepts(dto, secrets) ==
  /\ dto.kind \in EnabledKinds \cap {"command", "http", "sql"}
  /\ CASE dto.kind = "command" ->
            /\ dto.program # ""
            /\ dto.workingDir \cap BadPaths = {}
       [] dto.kind = "http" ->
            /\ dto.url # "" /\ dto.url \in AllowedHosts
            /\ \A a \in dto.auth : a.kind \in {"bearer", "basic"} /\ a.secret # ""
                                   /\ a.secret \in secrets
       [] dto.kind = "sql" ->
            /\ "" \notin {dto.host, dto.database, dto.query}
            /\ dto.host \in AllowedHosts
            /\ KnownSecrets(dto.passwordSecret \ {""}, secrets)
            /\ dto.engine \in {"postgres", "postgresql", "mysql", "mariadb", ""}
            /\ dto.sslMode \in {"verify-full", "require", "disable", ""}
  /\ dto.kind # "sql" => dto.format \in {"csv", "json", ""}

SpecFromDto(dto) ==
  LET doc == ReadTokens(dto)
      full == [doc EXCEPT !.timeout = IF @ = 0 THEN DefaultTimeout ELSE @,
                          !.workingDir = @ \ {""}, !.passwordSecret = @ \ {""}]
  IN ("kind" :> dto.kind) @@ Restrict(full, FieldsOf(dto.kind))

\* What a fetch asks for again, since the settings, the secrets and the model
\* file may all have changed: a command, only that commands are enabled.
MayFetch(spec, secrets) ==
  /\ spec.kind \in EnabledKinds
  /\ spec.kind = "http" => spec.url \in AllowedHosts /\ \A a \in spec.auth : a.secret \in secrets
  /\ spec.kind = "sql" => spec.host \in AllowedHosts /\ spec.passwordSecret \subseteq secrets

-----------------------------------------------------------------------------

CONSTANT NameOrder    \* the names of objects, in the order of a map

NoObjects == [flows |-> <<>>, flowTests |-> <<>>, connections |-> <<>>, jobs |-> <<>>]
Collections == DOMAIN NoObjects

\* Objects are kept by name; a name's object replaces the one there was.
Put(objects, name, object) ==
  [n \in DOMAIN objects \cup {name} |-> IF n = name THEN object ELSE objects[n]]
Drop(objects, name) == Restrict(objects, DOMAIN objects \ {name})

(* The inputs of a flow: a global one names a connection, a local one is     *)
(* a connection of the flow's own.                                           *)
Global(name) == [name |-> name, scope |-> "global", spec |-> {}]
Local(name, spec) == [name |-> name, scope |-> "local", spec |-> {spec}]
Address(input) == IF input.scope = "local" THEN "local." \o input.name ELSE input.name

InputDoc(input) ==
  [name |-> input.name, scope |-> input.scope,
   connection |-> {Written(Connection(spec)) : spec \in input.spec}]

\* Any scope but local is global; a local input without a connection gets an
\* empty command.
BuildInput(doc) ==
  IF doc.scope # "local" THEN Global(doc.name)
  ELSE Local(doc.name, IF doc.connection = {} THEN BuildConnection(Written(Flat))
                       ELSE BuildConnection(CHOOSE c \in doc.connection : TRUE))

FlowDoc(flow) == [flow EXCEPT !.inputs = [i \in DOMAIN @ |-> InputDoc(@[i])]]
BuildFlow(doc) == [doc EXCEPT !.inputs = [i \in DOMAIN @ |-> BuildInput(@[i])]]

(* The text.  Its blocks carry their names; a test and a job are written     *)
(* field by field.                                                           *)
FormatTag == "epiphany-automation/v0"

Named(objects, doc(_)) == {[name |-> n, doc |-> doc(objects[n])] : n \in DOMAIN objects}
ByName(blocks, build(_)) ==
  [n \in {b.name : b \in blocks} |-> build((CHOOSE b \in blocks : b.name = n).doc)]

Same(doc) == doc
ConnectionDoc(spec) == Written(Connection(spec))

ToText(a) ==
  [format |-> FormatTag,
   flows |-> Named(a.flows, FlowDoc), flowTests |-> Named(a.flowTests, Same),
   connections |-> Named(a.connections, ConnectionDoc), jobs |-> Named(a.jobs, Same)]

FromDocs(text) ==
  [flows |-> ByName(text.flows, BuildFlow), flowTests |-> ByName(text.flowTests, Same),
   connections |-> ByName(text.connections, BuildConnection), jobs |-> ByName(text.jobs, Same)]

\* A text of another format is refused by the load.
Readable(text) == text.format = FormatTag

(* The lift.  A cube's objects join the merged model under their own names,  *)
(* or under the cube's where the name is taken; its tests and jobs follow    *)
(* its flows.  A flow's defaults are the cube it came from and the first     *)
(* administrator.                                                            *)
KeyIn(objects, name, cube) == IF name \in DOMAIN objects THEN cube \o "_" \o name ELSE name

InNameOrder(names) ==
  FlattenSeq([i \in DOMAIN NameOrder |-> IF NameOrder[i] \in names THEN <<NameOrder[i]>> ELSE <<>>])

\* Each of a cube's objects in turn, as the merged ones then are.
Lifted(objects, legacy, cube, adapt(_)) ==
  FoldLeft(LAMBDA merged, n : Put(merged, KeyIn(merged, n, cube), adapt(legacy[n])),
           objects, InNameOrder(DOMAIN legacy))

\* The keys the cube's flows got.
FlowKeys(objects, legacy, cube) ==
  FoldLeft(LAMBDA so, n : [merged |-> Put(so.merged, KeyIn(so.merged, n, cube), legacy[n]),
                           keys |-> Put(so.keys, n, KeyIn(so.merged, n, cube))],
           [merged |-> objects, keys |-> <<>>], InNameOrder(DOMAIN legacy)).keys

Follow(keys, name) == IF name \in DOMAIN keys THEN keys[name] ELSE name

\* Weakened: a test keeps naming the flow as its cube did.
MergeLegacyTestsStay(merged, legacy, cube, admin) ==
  LET keys == FlowKeys(merged.flows, legacy.flows, cube)
      orElse(option, value) == IF option = {} THEN value ELSE option
  IN [flows |-> Lifted(merged.flows, legacy.flows, cube,
                       LAMBDA f : [f EXCEPT !.defaultCube = orElse(@, {cube}), !.owner = orElse(@, admin)]),
      flowTests |-> Lifted(merged.flowTests, legacy.flowTests, cube, Same),
      connections |-> Lifted(merged.connections, legacy.connections, cube, Same),
      jobs |-> Lifted(merged.jobs, legacy.jobs, cube,
                      LAMBDA j : [j EXCEPT !.steps = [i \in DOMAIN @ |-> Follow(keys, @[i])]])]

MergeLegacy(merged, legacy, cube, admin) ==
  LET keys == FlowKeys(merged.flows, legacy.flows, cube)
      orElse(option, value) == IF option = {} THEN value ELSE option
  IN [flows |-> Lifted(merged.flows, legacy.flows, cube,
                       LAMBDA f : [f EXCEPT !.defaultCube = orElse(@, {cube}), !.owner = orElse(@, admin)]),
      flowTests |-> Lifted(merged.flowTests, legacy.flowTests, cube,
                           LAMBDA t : [t EXCEPT !.flow = Follow(keys, @)]),
      connections |-> Lifted(merged.connections, legacy.connections, cube, Same),
      jobs |-> Lifted(merged.jobs, legacy.jobs, cube,
                      LAMBDA j : [j EXCEPT !.steps = [i \in DOMAIN @ |-> Follow(keys, @[i])]])]

-----------------------------------------------------------------------------
CONSTANTS
  Admins,         \* the administrators among the users
  MaxDocFaults    \* bound on the writes of the two files that fail

VARIABLES
  automation,     \* AutomationStore.automation
  saved,          \* automation.model
  secrets,        \* the names in SecretStore.secrets
  savedSecrets,   \* the names in its file
  unsaved,        \* ghost: what was last changed under an error
  docFaults,      \* the writes that failed so far
  writer          \* ghost: who made the last change

docVars == <<automation, saved, secrets, savedSecrets, unsaved, docFaults, writer>>

DocInit(a) ==
  /\ automation = a
  /\ saved = ToText(a)
  /\ secrets = {} /\ savedSecrets = {}
  /\ unsaved = {}
  /\ docFaults = 0
  /\ writer = ""

DocFault == docFaults < MaxDocFaults /\ docFaults' = docFaults + 1

(* persist.  The whole model is rewritten, so a write that succeeds also     *)
(* saves what earlier ones left behind.                                      *)
SecretsIn(changes) == {w \in changes : w[1] = "secrets"}

\* Weakened: a deletion is not written.
StoreUnwritten(next, what) ==
  /\ automation' = next
  /\ IF \E k \in Collections : DOMAIN next[k] # DOMAIN automation[k] /\ DOMAIN next[k] \subseteq DOMAIN automation[k]
     THEN UNCHANGED <<saved, unsaved, docFaults>>
     ELSE saved' = ToText(next) /\ unsaved' = SecretsIn(unsaved) /\ UNCHANGED docFaults
  /\ UNCHANGED <<secrets, savedSecrets>>

Store(next, what) ==
  /\ automation' = next
  /\ \/ saved' = ToText(next) /\ unsaved' = SecretsIn(unsaved) /\ UNCHANGED docFaults
     \/ DocFault /\ unsaved' = unsaved \cup {what} /\ UNCHANGED saved
  /\ UNCHANGED <<secrets, savedSecrets>>

Define(kind, name, object) ==
  Store([automation EXCEPT ![kind] = Put(@, name, object)], <<kind, name>>)

\* Nothing is written when there was nothing to delete.
DeleteObject(kind, name) ==
  /\ name \in DOMAIN automation[kind]
  /\ Store([automation EXCEPT ![kind] = Drop(@, name)], <<kind, name>>)

(* Flows.  A body's inputs become bindings when each local one carries a     *)
(* connection this server accepts.                                           *)
AcceptsInput(dto) ==
  dto.scope = "global" \/ (dto.scope = "local" /\ dto.connection # {}
                           /\ \A c \in dto.connection : Accepts(c, secrets))

BindInput(dto) ==
  IF dto.scope = "global" THEN Global(dto.name)
  ELSE Local(dto.name, SpecFromDto(CHOOSE c \in dto.connection : TRUE))

InputDto(input, isAdmin) ==
  [name |-> input.name, scope |-> input.scope,
   connection |-> {ToDto(spec, isAdmin) : spec \in input.spec}]

\* What a GET answers: a flow with its inputs as bodies.
FlowDto(flow, isAdmin) ==
  [flow EXCEPT !.inputs = [i \in DOMAIN @ |-> InputDto(@[i], isAdmin)]]

OwnerOf(name) == IF name \in DOMAIN automation.flows THEN automation.flows[name].owner ELSE {}

\* Weakened: the owner is whoever wrote the flow last.
LastWriterOwns(user, name, asked) == {user}

\* The owner survives a replacement; only an administrator may name another.
NewOwner(user, name, asked) ==
  IF user \in Admins /\ asked # {} THEN asked
  ELSE IF OwnerOf(name) # {} THEN OwnerOf(name) ELSE {user}

PutFlow(user, name, body) ==
  /\ body.source # ""
  /\ \A i \in DOMAIN body.inputs : AcceptsInput(body.inputs[i])
  /\ Define("flows", name,
            [body EXCEPT !.owner = NewOwner(user, name, @),
                         !.inputs = [i \in DOMAIN @ |-> BindInput(@[i])]])

\* Nothing looks for the tests and the jobs that name the flow.
DeleteFlow(name) == DeleteObject("flows", name)

\* A test names a flow there is, a job's every step does.
PutFlowTest(name, test) ==
  /\ name # "" /\ test.flow \in DOMAIN automation.flows
  /\ Define("flowTests", name, test)

DeleteFlowTest(name) == DeleteObject("flowTests", name)

PutJob(name, job) ==
  /\ ToSet(job.steps) \subseteq DOMAIN automation.flows
  /\ Define("jobs", name, job)

DeleteJob(name) == DeleteObject("jobs", name)

(* Connections and secrets.                                                  *)
PutConnection(name, dto) ==
  /\ Accepts(dto, secrets)
  /\ Define("connections", name, SpecFromDto(dto))

DeleteConnection(name) == DeleteObject("connections", name)

StoreSecrets(next, name) ==
  /\ secrets' = next
  /\ \/ savedSecrets' = next /\ unsaved' = unsaved \ SecretsIn(unsaved) /\ UNCHANGED docFaults
     \/ DocFault /\ unsaved' = unsaved \cup {<<"secrets", name>>} /\ UNCHANGED savedSecrets
  /\ UNCHANGED <<automation, saved>>

PutSecret(name) == StoreSecrets(secrets \cup {name}, name)
DeleteSecret(name) == name \in secrets /\ StoreSecrets(secrets \ {name}, name)

\* Open after a crash: what the files hold.
Reopen ==
  /\ Readable(saved)
  /\ automation' = FromDocs(saved)
  /\ secrets' = savedSecrets
  /\ unsaved' = {}
  /\ UNCHANGED <<saved, savedSecrets, docFaults>>

-----------------------------------------------------------------------------
(* Properties.                                                               *)

\* automation.rs, "a crash between writes leaves the previous consistent
\* file": a restart brings back every object as it was, and no other, except
\* those whose last change was answered with an error.
AcknowledgedDocsSurvive ==
  [][Reopen =>
       /\ \A k \in Collections : \A n \in DOMAIN automation[k] \cup DOMAIN automation'[k] :
            <<k, n>> \notin unsaved =>
              /\ n \in DOMAIN automation[k] /\ n \in DOMAIN automation'[k]
              /\ automation'[k][n] = automation[k][n]
       /\ \A n \in secrets \cup secrets' :
            <<"secrets", n>> \notin unsaved => n \in secrets /\ n \in secrets']_docVars

\* put_flow: a flow that stays keeps its owner through every write but an
\* administrator's, so a job never comes to run under rights nobody handed to
\* it.  A restart may bring an older owner back.
OwnersStay ==
  [][\A n \in DOMAIN automation.flows \cap DOMAIN automation'.flows :
       automation'.flows[n].owner # automation.flows[n].owner /\ OwnerOf(n) # {} =>
         Reopen \/ writer' \in Admins]_docVars

\* text.rs: the text of the automation model reads back as that model.
TextBringsBackAutomation == FromDocs(ToText(automation)) = automation

\* to_dto and spec_from_dto: what a GET shows can be PUT back.  Shown to an
\* administrator, a connection comes back as it was, where the server takes it;
\* shown to anyone else, with its target blanked, it is refused, by itself and
\* inside a flow, so that nobody's edit of a flow empties its connections.
Shown == Range(automation.connections)
         \cup UNION {UNION {i.spec : i \in Range(f.inputs)} : f \in Range(automation.flows)}

RedactionIsNeverStored ==
  \A spec \in Shown :
    /\ Accepts(ToDto(spec, TRUE), secrets) => SpecFromDto(ToDto(spec, TRUE)) = spec
    /\ ~Accepts(ToDto(spec, FALSE), secrets)

(* Saved flows, connections and jobs survive restarts, edits by others and  *)
(* their own redacted form (AutomationStore::persist, put_flow,             *)
(* put_connection).                                                         *)
DocumentsSurvive ==
  /\ [](TextBringsBackAutomation /\ RedactionIsNeverStored)
  /\ AcknowledgedDocsSurvive
  /\ OwnersStay

=============================================================================
