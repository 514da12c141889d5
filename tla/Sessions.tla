------------------------------ MODULE Sessions ------------------------------
(***************************************************************************)
(* Logins, sessions and change streams (epiphany-api/src/auth.rs, ws.rs,   *)
(* security_routes.rs): every handler takes the security store, the login  *)
(* guard and the session table one lock at a time, and other handlers run  *)
(* in between; a stream outlives the request that opened it.  A password   *)
(* is a number: each change gives one never used before.                   *)
(***************************************************************************)
EXTENDS Naturals, Sequences, FiniteSets, Functions

\* A function with one argument, new or not, given a value.
With(f, x, v) == [y \in DOMAIN f \cup {x} |-> IF y = x THEN v ELSE f[y]]

(***************************************************************************)
(* The lockout of a name after consecutive failed logins                   *)
(* (epiphany-api/src/login_guard.rs).  A guard maps names to               *)
(* [failures, until, seen]; the caller passes the time.                    *)
(***************************************************************************)

CONSTANTS MaxFailures,    \* consecutive failures that lock a name; 0 disables
          LockoutMillis   \* for how long; 0 disables

ASSUME GuardAssumption == MaxFailures \in Nat /\ LockoutMillis \in Nat

Disabled == MaxFailures = 0 \/ LockoutMillis = 0

IsLocked(guard, name, now) ==
    ~Disabled /\ name \in DOMAIN guard /\ now < guard[name].until

\* Entries neither locked nor recently active are dropped.
Prune(guard, now) ==
    Restrict(guard, {n \in DOMAIN guard : now < guard[n].until \/ now < guard[n].seen + LockoutMillis})

\* An entry whose lockout was served starts again.
Attempts(guard, name, now) ==
    IF name \notin DOMAIN guard \/ (guard[name].until # 0 /\ now >= guard[name].until)
    THEN [failures |-> 0, until |-> 0, seen |-> now]
    ELSE guard[name]

RecordFailure(guard, name, now) ==
    LET kept == Prune(guard, now)
        old == Attempts(kept, name, now)
        entry == [failures |-> old.failures + 1, seen |-> now,
                  until |-> IF old.failures + 1 >= MaxFailures THEN now + LockoutMillis ELSE old.until]
    IN IF Disabled THEN guard
       ELSE With(kept, name, entry)

\* Weakened: the failures before a success still count.
ForgetNothing(guard, name) == guard

RecordSuccess(guard, name) == Restrict(guard, DOMAIN guard \ {name})

-----------------------------------------------------------------------------

(***************************************************************************)
(* Session tokens (epiphany-api/src/session.rs): a table from tokens to    *)
(* [user, expires, seen], in memory only.                                  *)
(***************************************************************************)
CONSTANTS TtlMillis,     \* a session's life
          IdleMillis     \* how long one lives without a request; 0 disables

ASSUME SessionAssumption == TtlMillis \in Nat /\ IdleMillis \in Nat

Create(table, token, user, now) ==
    With(table, token, [user |-> user, expires |-> now + TtlMillis, seen |-> now])

\* The difference saturates: a request may carry a time before the last seen.
Expired(s, now) ==
    \/ now >= s.expires
    \/ IdleMillis # 0 /\ now > s.seen + IdleMillis

IsValid(table, token, now) == token \in DOMAIN table /\ ~Expired(table[token], now)

Revoke(table, token) == Restrict(table, DOMAIN table \ {token})

\* The table after the lookup of a token: pruned, or seen now.
Touched(table, token, now) ==
    IF token \notin DOMAIN table THEN table
    ELSE IF IsValid(table, token, now) THEN [table EXCEPT ![token].seen = now]
    ELSE Revoke(table, token)

RevokeUser(table, user) ==
    Restrict(table, {t \in DOMAIN table : table[t].user # user})

\* Weakened: the caller's own session is all that is ended.
RevokeOnlyThis(table, user, keep) == Revoke(table, keep)

RevokeUserExcept(table, user, keep) ==
    Restrict(table, {t \in DOMAIN table : table[t].user # user \/ t = keep})

-----------------------------------------------------------------------------

(***************************************************************************)
(* The change feed (epiphany-api/src/ws.rs): commits of a cube broadcast   *)
(* to subscribers through a channel that keeps the last Capacity events    *)
(* (tokio's broadcast).  An event is [version, sandbox, ...]; what its     *)
(* subscriber may see is decided when it is delivered.                     *)
(***************************************************************************)

CONSTANT Capacity   \* events the channel keeps for a subscriber that lags
ASSUME CapacityAssumption == Capacity \in Nat \ {0}

NoSandbox == "none"
Nobody == "nobody"

\* The oldest event the channel still holds.
Oldest(feed) == IF Len(feed) > Capacity THEN Len(feed) - Capacity + 1 ELSE 1

Lags(feed, cursor) == cursor < Oldest(feed)

\* delivery_for: a sandbox's event for its owner as of now and for
\* administrators, a base event for the readers of the cube.
Deliverable(event, user, isAdmin, readers, owner) ==
    \/ isAdmin
    \/ event.sandbox # NoSandbox /\ owner = user
    \/ event.sandbox = NoSandbox /\ user \in readers

-----------------------------------------------------------------------------

CONSTANTS Users, Clients,
          Owners,         \* who may own the sandbox: Users, and others
          MaxTime,        \* bound on the clock
          Watched,        \* the versions SubscribersCatchUp follows
          MaxArrivals     \* bound on what comes from outside: requests, changes, commits

ASSUME BoundsAssumption == Users \subseteq Owners /\ Nobody \notin Owners /\ MaxTime \in Nat /\ MaxArrivals \in Nat

VARIABLES
    clock,
    password,   \* of each user, Gone when there is no such user
    temporary,  \* users who must change it
    latest,     \* the last password made
    guard,      \* the login guard
    sessions,   \* the session table
    tokens,     \* how many were issued
    req,        \* the request of each client
    ending,     \* the user whose sessions the administrator's handler ends next
    readers, admins, owner,   \* who reads the cube, who administers, whose sandbox it has
    feed,       \* the events broadcast
    unsent,     \* published under the writer lock, not broadcast yet
    stream,     \* a change stream
    arrivals,   \* requests, changes and commits so far
    ghost       \* what the properties speak of
authVars == <<password, temporary, latest, guard>>
tableVars == <<sessions, tokens>>
rightVars == <<readers, admins, owner>>
feedVars == <<feed, unsent>>
vars == <<clock, authVars, tableVars, req, ending, rightVars, feedVars, stream, arrivals, ghost>>

Gone == 0
Wrong == 99
Idle == [pc |-> "idle"]
Closed == [pc |-> "closed"]
Nothing == [x \in {} |-> x]

Max2(a, b) == IF a > b THEN a ELSE b

\* Of each user, the failures since the last success; of each token, the password
\* last proved with it and when it was last presented; the tokens that outlived a
\* change of the password, and the changes made by users.
NoHistory ==
    [failed |-> [u \in Users |-> [n |-> 0, last |-> 0]],
     proved |-> Nothing, active |-> Nothing, overtaken |-> {}, changes |-> {}]

Opened(user, token) ==
    [pc |-> "open", user |-> user, token |-> token, next |-> Len(feed) + 1,
     isAdmin |-> user \in admins, last |-> 0, lost |-> 0]

\* A server nobody has signed in to, or one user has one millisecond ago, with a
\* stream or without.
Init ==
    /\ clock = 1
    /\ password = [u \in Users |-> 1] /\ latest = 1 /\ temporary = {}
    /\ guard = Nothing
    /\ readers = Users /\ admins = Users /\ owner \in Owners \ Users
    /\ feed = <<>> /\ unsent = {}
    /\ \E u \in Users, start \in {"empty", "signed in", "streaming"} :
          LET some == start # "empty"
          IN /\ tokens = IF some THEN 1 ELSE 0
             /\ sessions = IF some THEN Create(Nothing, 1, u, 0) ELSE Nothing
             /\ ghost = IF some THEN [NoHistory EXCEPT !.proved = [t \in {1} |-> 1], !.active = [t \in {1} |-> 0]] ELSE NoHistory
             /\ stream = IF start = "streaming" THEN Opened(u, 1) ELSE Closed
    /\ req = [c \in Clients |-> Idle] /\ ending = Nobody
    /\ arrivals = 0

Arrival == arrivals < MaxArrivals /\ arrivals' = arrivals + 1
Become(c, r) == req' = [req EXCEPT ![c] = r]
Goto(c, pc) == Become(c, [req[c] EXCEPT !.pc = pc])
Finish(c) == Become(c, Idle)

Tick ==
    /\ clock < MaxTime
    /\ clock' = clock + 1
    /\ UNCHANGED <<authVars, tableVars, req, ending, rightVars, feedVars, stream, arrivals, ghost>>

-----------------------------------------------------------------------------
(* The login guard, from the two handlers that verify a password.            *)

Succeed(u) ==
    /\ guard' = RecordSuccess(guard, u)
    /\ ghost' = [ghost EXCEPT !.failed[u] = [n |-> 0, last |-> 0]]

Fail(u, now) ==
    /\ guard' = RecordFailure(guard, u, now)
    /\ ghost' = [ghost EXCEPT !.failed[u] = [n |-> @.n + 1, last |-> Max2(@.last, now)]]

\* is_locked, then the hash is copied out; the two locks are taken one by one.
Unlocked(c, next) ==
    /\ IF IsLocked(guard, req[c].user, req[c].now) THEN Finish(c) ELSE Goto(c, next)
    /\ UNCHANGED <<clock, authVars, tableVars, ending, rightVars, feedVars, stream, arrivals, ghost>>

CopyHash(c, next) ==
    /\ Become(c, [req[c] EXCEPT !.pc = next, !.hash = password[req[c].user]])
    /\ UNCHANGED <<clock, authVars, tableVars, ending, rightVars, feedVars, stream, arrivals, ghost>>

Verified(c) == req[c].hash # Gone /\ req[c].given = req[c].hash

-----------------------------------------------------------------------------
(* login                                                                     *)

Login(c, u, given) ==
    /\ req[c] = Idle /\ Arrival
    /\ Become(c, [pc |-> "login", user |-> u, given |-> given, now |-> clock, hash |-> Gone, overtaken |-> FALSE])
    /\ UNCHANGED <<clock, authVars, tableVars, ending, rightVars, feedVars, stream, ghost>>

LoginUnlocked(c) == req[c].pc = "login" /\ Unlocked(c, "login hash")
LoginHash(c) == req[c].pc = "login hash" /\ CopyHash(c, "login verify")

\* The principal is resolved on the store as it is now: the user may be gone.
LoginVerify(c) ==
    /\ req[c].pc = "login verify"
    /\ IF Verified(c) /\ password[req[c].user] # Gone
       THEN Succeed(req[c].user) /\ Goto(c, "login create")
       ELSE Fail(req[c].user, req[c].now) /\ Finish(c)
    /\ UNCHANGED <<clock, password, temporary, latest, tableVars, ending, rightVars, feedVars, stream, arrivals>>

LoginCreate(c) ==
    /\ req[c].pc = "login create"
    /\ tokens' = tokens + 1
    /\ sessions' = Create(sessions, tokens', req[c].user, req[c].now)
    /\ ghost' = [ghost EXCEPT !.proved = With(@, tokens', req[c].given),
                              !.active = With(@, tokens', req[c].now),
                              !.overtaken = IF req[c].overtaken THEN @ \cup {tokens'} ELSE @]
    /\ Finish(c)
    /\ UNCHANGED <<clock, authVars, ending, rightVars, feedVars, stream, arrivals>>

-----------------------------------------------------------------------------
(* Requests that carry a token.                                              *)

Present(c, token, kind, given) ==
    /\ req[c] = Idle /\ Arrival
    /\ Become(c, [pc |-> "admit", token |-> token, kind |-> kind, given |-> given, now |-> clock,
                  user |-> Nobody, hash |-> Gone, overtaken |-> FALSE])
    /\ UNCHANGED <<clock, authVars, tableVars, ending, rightVars, feedVars, stream, ghost>>

\* The extractor: lookup, then the gate of a pending password change.
Admit(c) ==
    LET r == req[c]
        valid == IsValid(sessions, r.token, r.now)
        user == sessions[r.token].user
        through == r.kind \in {"logout", "password"} \/ user \notin temporary
    IN /\ r.pc = "admit"
       /\ sessions' = Touched(sessions, r.token, r.now)
       /\ IF valid /\ through /\ r.kind # "read"
          THEN Become(c, [r EXCEPT !.pc = r.kind, !.user = user])
          ELSE Finish(c)
       /\ ghost' = IF valid THEN [ghost EXCEPT !.active[r.token] = Max2(@, r.now)] ELSE ghost
       /\ UNCHANGED <<clock, authVars, tokens, ending, rightVars, feedVars, stream, arrivals>>

Logout(c) ==
    /\ req[c].pc = "logout"
    /\ sessions' = Revoke(sessions, req[c].token)
    /\ Finish(c)
    /\ UNCHANGED <<clock, authVars, tokens, ending, rightVars, feedVars, stream, arrivals, ghost>>

(* change_password                                                           *)
ChangeBegin(c) ==
    /\ req[c].pc = "password"
    /\ Become(c, [req[c] EXCEPT !.pc = "change", !.now = clock])
    /\ UNCHANGED <<clock, authVars, tableVars, ending, rightVars, feedVars, stream, arrivals, ghost>>

ChangeUnlocked(c) == req[c].pc = "change" /\ Unlocked(c, "change hash")
ChangeHash(c) == req[c].pc = "change hash" /\ CopyHash(c, "change verify")

ChangeVerify(c) ==
    /\ req[c].pc = "change verify"
    /\ IF Verified(c)
       THEN Goto(c, "change store") /\ UNCHANGED <<guard, ghost>>
       ELSE Fail(req[c].user, req[c].now) /\ Finish(c)
    /\ UNCHANGED <<clock, password, temporary, latest, tableVars, ending, rightVars, feedVars, stream, arrivals>>

\* Weakened: what was verified off the lock is enough.
VerifiedBefore(c) == TRUE
\* SecurityStore::change_password verifies again, under the lock it commits in.
Reverified(c) == req[c].given = password[req[c].user]

ChangeStore(c) ==
    LET u == req[c].user
    IN /\ req[c].pc = "change store"
       /\ \/ /\ password[u] # Gone /\ Reverified(c)
             /\ latest' = latest + 1
             /\ password' = [password EXCEPT ![u] = latest']
             /\ temporary' = temporary \ {u}
             /\ ghost' = [ghost EXCEPT !.changes = @ \cup {[given |-> req[c].given, replaced |-> password[u]]},
                                       !.proved[req[c].token] = latest']
             /\ Goto(c, "change success")
             /\ UNCHANGED guard
          \/ /\ password[u] # Gone /\ ~Reverified(c)
             /\ Fail(u, req[c].now) /\ Finish(c)
             /\ UNCHANGED <<password, temporary, latest>>
          \/ /\ password[u] = Gone
             /\ Finish(c) /\ UNCHANGED <<authVars, ghost>>
       /\ UNCHANGED <<clock, tableVars, ending, rightVars, feedVars, stream, arrivals>>

ChangeSuccess(c) ==
    /\ req[c].pc = "change success"
    /\ Succeed(req[c].user)
    /\ Goto(c, "change revoke")
    /\ UNCHANGED <<clock, password, temporary, latest, tableVars, ending, rightVars, feedVars, stream, arrivals>>

\* Logins in flight that proved a password replaced since.
Overtaken(u) ==
    [d \in Clients |->
        IF req[d].pc \in {"login verify", "login create"} /\ req[d].user = u /\ req[d].hash # password[u]
        THEN [req[d] EXCEPT !.overtaken = TRUE] ELSE req[d]]

ChangeRevoke(c) ==
    /\ req[c].pc = "change revoke"
    /\ sessions' = RevokeUserExcept(sessions, req[c].user, req[c].token)
    /\ req' = [Overtaken(req[c].user) EXCEPT ![c] = Idle]
    /\ UNCHANGED <<clock, authVars, tokens, ending, rightVars, feedVars, stream, arrivals, ghost>>

-----------------------------------------------------------------------------
(* The administrator: the store first, the sessions of the user after.       *)

ResetPassword(u) ==
    /\ ending = Nobody /\ Arrival /\ password[u] # Gone
    /\ latest' = latest + 1
    /\ password' = [password EXCEPT ![u] = latest']
    /\ temporary' = temporary \cup {u}
    /\ ending' = u
    /\ UNCHANGED <<clock, guard, tableVars, req, rightVars, feedVars, stream, ghost>>

\* Weakened: what the user was granted stays.
DeleteUserOnly(u) ==
    /\ ending = Nobody /\ Arrival /\ password[u] # Gone
    /\ password' = [password EXCEPT ![u] = Gone]
    /\ temporary' = temporary \ {u}
    /\ ending' = u
    /\ UNCHANGED <<clock, latest, guard, tableVars, req, rightVars, feedVars, stream, ghost>>
DeleteUser(u) ==
    /\ ending = Nobody /\ Arrival /\ password[u] # Gone
    /\ password' = [password EXCEPT ![u] = Gone]
    /\ temporary' = temporary \ {u}
    /\ readers' = readers \ {u} /\ admins' = admins \ {u}
    /\ ending' = u
    /\ UNCHANGED <<clock, latest, guard, tableVars, req, owner, feedVars, stream, ghost>>

CreateUser(u) ==
    /\ ending = Nobody /\ Arrival /\ password[u] = Gone
    /\ latest' = latest + 1
    /\ password' = [password EXCEPT ![u] = latest']
    /\ UNCHANGED <<clock, temporary, guard, tableVars, req, ending, rightVars, feedVars, stream, ghost>>

EndSessions ==
    /\ ending # Nobody
    /\ sessions' = RevokeUser(sessions, ending)
    /\ req' = Overtaken(ending)
    /\ ending' = Nobody
    /\ UNCHANGED <<clock, authVars, tokens, rightVars, feedVars, stream, arrivals, ghost>>

-----------------------------------------------------------------------------
(* The cube's commits and who may see them.  may is a ghost: the users who   *)
(* could have been shown the event at some time since it was published, and  *)
(* ended the tokens that no longer opened anything by then.                  *)

MaySee(event, rs, as, o) == {u \in Users : Deliverable(event, u, u \in as, rs, o)}
Widen(events, rs, as, o) == [i \in DOMAIN events |-> [events[i] EXCEPT !.may = @ \cup MaySee(events[i], rs, as, o)]]

SetRights(rs, as, o) ==
    /\ Arrival
    /\ readers' = rs /\ admins' = as /\ owner' = o
    /\ feed' = Widen(feed, rs, as, o)
    /\ unsent' = {[e EXCEPT !.may = @ \cup MaySee(e, rs, as, o)] : e \in unsent}
    /\ UNCHANGED <<clock, authVars, tableVars, req, ending, stream, ghost>>

Existing == {u \in Users : password[u] # Gone}
ChangeRights ==
    \/ \E u \in Existing : \/ SetRights((readers \ {u}) \cup ({u} \ readers), admins, owner)
                           \/ SetRights(readers, (admins \ {u}) \cup ({u} \ admins), owner)
    \/ \E o \in (Owners \cup {Nobody}) \ {owner} : SetRights(readers, admins, o)

Published == Len(feed) + Cardinality(unsent)
Event(sandbox) ==
    [version |-> Published + 1, sandbox |-> sandbox,
     may |-> MaySee([sandbox |-> sandbox], readers, admins, owner),
     ended |-> {t \in 1 .. tokens : t \notin DOMAIN sessions \/ clock >= sessions[t].expires}]

\* Weakened: handlers announce their commits after the writer lock.
WriterNeverLocked == TRUE
WriterFree == unsent = {}

\* Engine: a version is published and announced under the cube's writer lock.
Publish(sandbox) ==
    /\ WriterFree /\ Arrival
    /\ sandbox # NoSandbox => owner # Nobody
    /\ unsent' = unsent \cup {Event(sandbox)}
    /\ UNCHANGED <<clock, authVars, tableVars, req, ending, rightVars, feed, stream, ghost>>

Announce ==
    /\ \E e \in unsent : feed' = Append(feed, e) /\ unsent' = unsent \ {e}
    /\ UNCHANGED <<clock, authVars, tableVars, req, ending, rightVars, stream, arrivals, ghost>>

-----------------------------------------------------------------------------
(* A stream: opened by a request, it takes one event at a time and decides   *)
(* on the session and the rights as they are, one lock at a time.            *)

OpenStream(c) ==
    /\ req[c].pc = "stream" /\ stream = Closed
    /\ stream' = Opened(req[c].user, req[c].token)
    /\ Finish(c)
    /\ UNCHANGED <<clock, authVars, tableVars, ending, rightVars, feedVars, arrivals, ghost>>

Pump(to) ==
    /\ stream' = to
    /\ UNCHANGED <<clock, authVars, tableVars, req, ending, rightVars, feedVars, arrivals, ghost>>
Skip == [stream EXCEPT !.pc = "open", !.next = @ + 1]

\* A subscriber that lagged is told so, and goes on with the oldest event kept.
Lag ==
    /\ stream.pc = "open" /\ Lags(feed, stream.next)
    /\ Pump([stream EXCEPT !.next = Oldest(feed), !.lost = Oldest(feed) - 1])
\* Weakened: the newest event waits for the one after it.
ReceiveIfMore ==
    /\ stream.pc = "open" /\ ~Lags(feed, stream.next) /\ stream.next < Len(feed)
    /\ Pump([stream EXCEPT !.pc = "validate"])
Receive ==
    /\ stream.pc = "open" /\ ~Lags(feed, stream.next) /\ stream.next <= Len(feed)
    /\ Pump([stream EXCEPT !.pc = "validate"])

\* Weakened: the check counts as the session's activity.
LooksUp ==
    /\ stream.pc = "validate"
    /\ sessions' = Touched(sessions, stream.token, clock)
    /\ stream' = IF IsValid(sessions, stream.token, clock) THEN [stream EXCEPT !.pc = "authorize"] ELSE Closed
    /\ UNCHANGED <<clock, authVars, tokens, req, ending, rightVars, feedVars, arrivals, ghost>>
Validate ==
    /\ stream.pc = "validate"
    /\ Pump(IF IsValid(sessions, stream.token, clock) THEN [stream EXCEPT !.pc = "authorize"] ELSE Closed)

\* Weakened: the flag the stream was opened with.
AuthorizedAtUpgrade == stream.pc = "authorize" /\ Pump([stream EXCEPT !.pc = "decide"])
Authorize ==
    /\ stream.pc = "authorize"
    /\ Pump([stream EXCEPT !.pc = "decide", !.isAdmin = stream.user \in admins])

Decide ==
    /\ stream.pc = "decide"
    /\ Pump(IF Deliverable(feed[stream.next], stream.user, stream.isAdmin, readers, owner)
            THEN [stream EXCEPT !.pc = "send"] ELSE Skip)
Send ==
    /\ stream.pc = "send"
    /\ Pump([Skip EXCEPT !.last = feed[stream.next].version])
\* The client closes, or the socket fails.
Hangup == stream.pc \in {"open", "send"} /\ Pump(Closed)

-----------------------------------------------------------------------------
Step(c) ==
    \/ LoginUnlocked(c) \/ LoginHash(c) \/ LoginVerify(c) \/ LoginCreate(c)
    \/ Admit(c) \/ Logout(c) \/ OpenStream(c)
    \/ ChangeBegin(c) \/ ChangeUnlocked(c) \/ ChangeHash(c) \/ ChangeVerify(c)
    \/ ChangeStore(c) \/ ChangeSuccess(c) \/ ChangeRevoke(c)
Relay == Lag \/ Receive \/ Validate \/ Authorize \/ Decide \/ Send

Arrive(c) ==
    \/ \E u \in Users, given \in {latest, Wrong} : Login(c, u, given)
    \/ \E t \in 1 .. tokens : \/ \E kind \in {"read", "logout", "stream"} : Present(c, t, kind, Wrong)
                              \/ \E given \in {latest, Wrong} : Present(c, t, "password", given)

Next ==
    \/ Tick
    \/ \E c \in Clients : Arrive(c) \/ Step(c)
    \/ \E u \in Users : ResetPassword(u) \/ DeleteUser(u) \/ CreateUser(u)
    \/ EndSessions
    \/ ChangeRights \/ (\E sandbox \in {NoSandbox, "what-if"} : Publish(sandbox)) \/ Announce
    \/ Relay \/ Hangup

\* The runtime runs a task that can go on: a subscriber's and a commit's.
Spec == Init /\ [][Next]_vars /\ WF_vars(Relay) /\ WF_vars(Announce)

-----------------------------------------------------------------------------
(* Properties.                                                               *)

\* The types; a session's user is one the code knows, and no token is reissued.
TypeOK ==
    /\ DOMAIN sessions \subseteq 1 .. tokens
    /\ \A t \in DOMAIN sessions : sessions[t].user \in Users /\ sessions[t].seen <= clock
    /\ DOMAIN guard \subseteq Users /\ \A u \in DOMAIN guard : guard[u].failures \in 1 .. ghost.failed[u].n
    /\ temporary \cup readers \cup admins \subseteq Existing
    /\ stream # Closed => stream.token \in 1 .. tokens /\ stream.next \in 1 .. Len(feed) + 1

\* auth.rs: "a password change invalidates every token issued before it".  A
\* session that still answers was opened, or kept by its own change, with the
\* password as it is, unless a handler is about to end it or its login had
\* verified the old password before the change ended the others.
SessionsMatchPasswords ==
    \A t \in DOMAIN sessions :
        LET u == sessions[t].user
        IN \/ ghost.proved[t] = password[u]
           \/ ending = u
           \/ \E c \in Clients : req[c].pc \in {"change success", "change revoke"} /\ req[c].user = u
           \/ t \in ghost.overtaken

\* store.rs change_password: "re-verifies for atomicity".  Of changes that
\* verified one password at the same time, one succeeds.
ChangesProveThePassword == \A change \in ghost.changes : change.given = change.replaced

\* login_guard.rs: a name is locked after MaxFailures consecutive failures, and
\* for LockoutMillis after the last, however logins and password changes that
\* passed the guard before overlap; "a success clears it".
LockoutsAreEarned ==
    \A u \in Users : IsLocked(guard, u, clock) =>
        ghost.failed[u].n >= MaxFailures /\ clock < ghost.failed[u].last + LockoutMillis

\* session.rs is_valid: a stream that delivers other users' commits does not
\* keep its session alive; only requests that present the token do.
OnlyRequestsKeepASessionAlive ==
    \A t \in DOMAIN sessions : IsValid(sessions, t, clock) =>
        IdleMillis = 0 \/ clock <= ghost.active[t] + IdleMillis

\* ws.rs: "the stream stays authorized for its whole life".  What is about to
\* be sent was published while the stream's token still stood, and could be
\* seen by its user at some time since, though session, flag and rights are
\* read one after the other while logouts, changes and commits go on.
StreamsTellWhatMayBeSeen ==
    stream.pc = "send" =>
        stream.user \in feed[stream.next].may /\ stream.token \notin feed[stream.next].ended

\* ws.rs: the feed is "monotonic per cube", for a subscriber that lags too.
EventsInCommitOrder ==
    [][stream.pc = "send" /\ stream'.pc = "open" => stream'.last > stream.last]_vars

\* Clients refetch on any event: a commit a subscriber may see, as a reader of
\* the cube or as the sandbox's owner, is followed by an event it is sent while
\* its stream is open and that is so, or else it lagged and nothing the channel
\* kept was for it.
ForIt(v) == v \in DOMAIN feed /\ Deliverable(feed[v], stream.user, FALSE, readers, owner)
Awaits(v) == stream # Closed /\ stream.next <= v /\ ForIt(v)
Heard(v) == \/ stream = Closed \/ stream.last >= v \/ ~ForIt(v)
            \/ stream.lost >= v /\ \A w \in stream.lost + 1 .. Len(feed) : ~ForIt(w)
SubscribersCatchUp == \A v \in Watched : Awaits(v) ~> Heard(v)

(* Who is logged in has proved the password that holds, and who is locked   *)
(* out has failed to (login, change_password, SessionStore, LoginGuard).    *)
LoginsAreEarned ==
  /\ TypeOK
  /\ SessionsMatchPasswords
  /\ ChangesProveThePassword
  /\ OnlyRequestsKeepASessionAlive
  /\ LockoutsAreEarned

(* A subscriber that reads on hears every event it may see, in the order of *)
(* the commits (on_commit, pump).                                           *)
SubscribersFollow ==
  /\ EventsInCommitOrder
  /\ SubscribersCatchUp

=============================================================================
