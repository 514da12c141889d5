---------------------------- MODULE Sessions_proofs ----------------------------
(***************************************************************************)
(* Proofs about Sessions, for any users, clients, owners, limits and        *)
(* timeouts: a session that answers was earned with the password that       *)
(* holds, a lockout with failures, and a stream tells its user what the     *)
(* user could see since it happened, in the order it happened.              *)
(***************************************************************************)
EXTENDS Sessions, FiniteSetTheorems, TLAPS

-----------------------------------------------------------------------------
(* The inductive invariant.                                                 *)

Sandboxes == {NoSandbox, "what-if"}
Kinds == {"read", "logout", "stream", "password"}

\* The requests by how far they have come.
LoginReq ==
    [ pc : {"login", "login hash", "login verify", "login create"}, user : Users,
      given : Nat \ {0}, now : Nat, hash : Nat, overtaken : BOOLEAN ]
AdmitReq ==
    [ pc : {"admit"}, user : {Nobody}, token : Nat, kind : Kinds,
      given : Nat \ {0}, now : Nat, hash : Nat, overtaken : BOOLEAN ]
TokenPcs == {"logout", "stream", "password", "change", "change hash", "change verify",
             "change store", "change success", "change revoke"}
TokenReq ==
    [ pc : TokenPcs, user : Users, token : Nat, kind : Kinds,
      given : Nat \ {0}, now : Nat, hash : Nat, overtaken : BOOLEAN ]
Request == {Idle} \cup LoginReq \cup AdmitReq \cup TokenReq

Entry   == [failures : Nat \ {0}, until : Nat, seen : Nat]
Session == [user : Users, expires : Nat, seen : Nat]
EventRecord == [version : Nat, sandbox : Sandboxes, may : SUBSET Users, ended : SUBSET Nat]
Subscriber ==
    [ pc : {"open", "validate", "authorize", "decide", "send"}, user : Users, token : Nat,
      next : Nat, isAdmin : BOOLEAN, last : Nat, lost : Nat ]
Change == [given : Nat, replaced : Nat]
History(n) ==
    [ failed : [Users -> [n : Nat, last : Nat]],
      proved : [1 .. n -> Nat \ {0}], active : [1 .. n -> Nat],
      overtaken : SUBSET Nat, changes : SUBSET Change ]

TypeInv ==
    /\ clock \in Nat /\ latest \in Nat \ {0} /\ tokens \in Nat
    /\ password \in [Users -> Nat]
    /\ temporary \subseteq Existing /\ readers \subseteq Existing /\ admins \subseteq Existing
    /\ DOMAIN guard \subseteq Users /\ guard \in [DOMAIN guard -> Entry]
    /\ DOMAIN sessions \subseteq 1 .. tokens /\ sessions \in [DOMAIN sessions -> Session]
    /\ req \in [Clients -> Request]
    /\ ending \in Users \cup {Nobody}
    /\ feed \in Seq(EventRecord) /\ unsent \subseteq EventRecord
    /\ stream \in {Closed} \cup Subscriber
    /\ ghost \in History(tokens)

\* A request took its time from the clock; the token it carries was issued, and
\* when its session is still there it is the user's; a login that opens a
\* session gave the password it read.
RequestAt(r, now, issued, table) ==
    /\ r # Idle => r.now <= now
    /\ r.pc \in {"admit"} \cup TokenPcs => r.token \in 1 .. issued
    /\ r.pc \in TokenPcs /\ r.token \in DOMAIN table => table[r.token].user = r.user
    /\ r.pc = "login create" => r.given = r.hash
RequestOK(r) == RequestAt(r, clock, tokens, sessions)

\* Two requests admitted with one token are of one user.
RequestInv ==
    /\ \A c \in Clients : RequestOK(req[c])
    /\ \A c, d \in Clients :
          req[c].pc \in TokenPcs /\ req[d].pc \in TokenPcs /\ req[c].token = req[d].token =>
              req[c].user = req[d].user

\* A session was last seen when its token was last presented, or before.
TableInv ==
    \A t \in DOMAIN sessions : sessions[t].seen <= clock /\ sessions[t].seen <= ghost.active[t]

\* The guard counts no failure that did not happen.
GuardInv ==
    \A u \in DOMAIN guard :
        /\ guard[u].failures <= ghost.failed[u].n
        /\ guard[u].until # 0 => /\ guard[u].failures >= MaxFailures
                                 /\ guard[u].until <= ghost.failed[u].last + LockoutMillis

\* The client's handler has changed a password and has not ended the others.
Changing(r) == r.pc \in {"change success", "change revoke"}
\* The client's login succeeds if it gives the password it read.
Proving(r) == (r.pc = "login verify" /\ r.hash # Gone) \/ r.pc = "login create"

\* Handlers that have changed u's password and not ended u's other sessions.
Changers(u) == {c \in Clients : Changing(req[c]) /\ req[c].user = u}

\* A handler that ends u's other sessions next leaves a session opened with the
\* password as it is, unless somebody ends that too.
ChangersInv ==
    \A u \in Users : \A c \in Changers(u) :
        req[c].token \in DOMAIN sessions =>
            \/ ghost.proved[req[c].token] = password[u]
            \/ ending = u
            \/ \E d \in Changers(u) : ghost.proved[req[d].token] = password[u]

\* A login that will succeed has the password as it is, or is going to be marked.
ProvesNow(c) ==
    \/ req[c].hash = password[req[c].user]
    \/ req[c].overtaken
    \/ ending = req[c].user
    \/ Changers(req[c].user) # {}
LoginsInv == \A c \in Clients : Proving(req[c]) => ProvesNow(c)

\* Whoever can see an event is among those who could, and a token that opened
\* nothing when it was published opens nothing.
EventOK(e, rs, as, o, issued, table, now) ==
    /\ MaySee(e, rs, as, o) \subseteq e.may
    /\ \A t \in e.ended : t <= issued /\ (t \in DOMAIN table => now >= table[t].expires)
EventInv(e) == EventOK(e, readers, admins, owner, tokens, sessions, clock)

FeedInv ==
    /\ \A i \in DOMAIN feed : feed[i].version = i /\ EventInv(feed[i])
    /\ \A e \in unsent : unsent = {e} /\ e.version = Len(feed) + 1 /\ EventInv(e)

SubscriberOK(s) ==
    /\ s.token \in 1 .. tokens
    /\ s.next \in 1 .. Len(feed) + 1
    /\ s.last < s.next
    /\ s.pc # "open" => s.next <= Len(feed)
    /\ s.pc \in {"authorize", "decide", "send"} => s.token \notin feed[s.next].ended
    /\ s.pc = "decide" /\ s.isAdmin => s.user \in feed[s.next].may
    /\ s.pc = "send" => s.user \in feed[s.next].may
StreamInv == stream # Closed => SubscriberOK(stream)

SInv ==
    /\ TypeInv /\ RequestInv /\ TableInv /\ GuardInv
    /\ SessionsMatchPasswords /\ ChangersInv /\ LoginsInv /\ ChangesProveThePassword
    /\ FeedInv /\ StreamInv

-----------------------------------------------------------------------------
(* Facts about the operators.                                               *)

\* A request in a state between two steps.
LEMMA RequestOf ==
  ASSUME TypeInv, NEW c \in Clients
  PROVE  /\ req[c] \in Request
         /\ req[c].pc \in {"login", "login hash", "login verify", "login create"} =>
              req[c] \in LoginReq
         /\ req[c].pc = "admit" => req[c] \in AdmitReq
         /\ req[c].pc \in TokenPcs => req[c] \in TokenReq
         /\ req[c].pc = "idle" => req[c] = Idle
<1>1. req[c] \in Request
  BY DEF TypeInv
<1>2. CASE req[c] = Idle
  BY <1>1, <1>2 DEF Idle, TokenPcs
<1>3. CASE req[c] \in LoginReq
  BY <1>1, <1>3 DEF LoginReq, TokenPcs
<1>4. CASE req[c] \in AdmitReq
  BY <1>1, <1>4 DEF AdmitReq, TokenPcs
<1>5. CASE req[c] \in TokenReq
  BY <1>1, <1>5 DEF TokenReq, TokenPcs
<1> QED BY <1>1, <1>2, <1>3, <1>4, <1>5 DEF Request

\* The guard after a failure: the entries it had, some dropped, and the name's.
LEMMA AfterFailure ==
  ASSUME NEW g, DOMAIN g \subseteq Users, g \in [DOMAIN g -> Entry],
         NEW u \in Users, NEW now \in Nat
  PROVE  LET h == RecordFailure(g, u, now) IN
         /\ DOMAIN h \subseteq Users /\ h \in [DOMAIN h -> Entry]
         /\ \A v \in DOMAIN h : v # u => v \in DOMAIN g /\ h[v] = g[v]
         /\ u \in DOMAIN h =>
              \/ u \in DOMAIN g /\ h[u] = g[u] /\ Disabled
              \/ /\ \/ h[u].failures = 1
                    \/ u \in DOMAIN g /\ h[u].failures = g[u].failures + 1
                 /\ \/ h[u].failures >= MaxFailures /\ h[u].until = now + LockoutMillis
                    \/ h[u].until = 0
                    \/ /\ u \in DOMAIN g /\ h[u].until = g[u].until
                       /\ h[u].failures = g[u].failures + 1
<1> DEFINE kept == Prune(g, now)
           old == Attempts(kept, u, now)
           entry == [failures |-> old.failures + 1, seen |-> now,
                     until |-> IF old.failures + 1 >= MaxFailures THEN now + LockoutMillis
                                                                  ELSE old.until]
<1>1. /\ DOMAIN kept \subseteq DOMAIN g
      /\ \A v \in DOMAIN kept : kept[v] = g[v]
  BY DEF Prune, Restrict
<1>2. \/ old.failures = 0 /\ old.until = 0
      \/ u \in DOMAIN g /\ old = g[u]
  BY <1>1 DEF Attempts
<1>3. old.failures \in Nat /\ old.until \in Nat
  BY <1>2 DEF Entry
<1>4. LockoutMillis \in Nat
  BY GuardAssumption
<1> HIDE DEF kept, old
<1>5. entry \in Entry
  BY <1>3, <1>4 DEF Entry
<1>6. RecordFailure(g, u, now) = IF Disabled THEN g ELSE With(kept, u, entry)
  BY DEF RecordFailure, kept, old
<1>7. CASE Disabled
  BY <1>6, <1>7
<1>8. CASE ~Disabled
  <2> DEFINE h == With(kept, u, entry)
  <2>1. /\ DOMAIN h = DOMAIN kept \cup {u} /\ h[u] = entry
        /\ \A v \in DOMAIN h : v # u => v \in DOMAIN kept /\ h[v] = kept[v]
        /\ h = [v \in DOMAIN h |-> h[v]]
    BY DEF With
  <2> HIDE DEF h
  <2>2. DOMAIN h \subseteq Users /\ h \in [DOMAIN h -> Entry]
    <3>1. \A v \in DOMAIN h : h[v] \in Entry /\ v \in Users
      BY <1>1, <1>5, <2>1
    <3> QED BY <2>1, <3>1
  <2>3. /\ entry.failures = old.failures + 1
        /\ entry.until = IF old.failures + 1 >= MaxFailures THEN now + LockoutMillis ELSE old.until
    OBVIOUS
  <2> QED BY <1>1, <1>2, <1>3, <1>6, <1>8, <2>1, <2>2, <2>3 DEF h
<1> QED BY <1>7, <1>8

\* The guard after a success.
LEMMA AfterSuccess ==
  ASSUME NEW g, DOMAIN g \subseteq Users, g \in [DOMAIN g -> Entry], NEW u
  PROVE  LET h == RecordSuccess(g, u) IN
         /\ DOMAIN h = DOMAIN g \ {u} /\ h \in [DOMAIN h -> Entry]
         /\ \A v \in DOMAIN h : h[v] = g[v]
  BY DEF RecordSuccess, Restrict

\* What the handlers note of the past.
LEMMA Noted ==
  ASSUME NEW n \in Nat, NEW g \in History(n), NEW u \in Users, NEW x \in [n : Nat, last : Nat]
  PROVE  LET h == [g EXCEPT !.failed[u] = x] IN
         /\ h \in History(n) /\ h.proved = g.proved /\ h.active = g.active
         /\ h.overtaken = g.overtaken /\ h.changes = g.changes
         /\ h.failed[u] = x /\ \A v \in Users : v # u => h.failed[v] = g.failed[v]
  BY DEF History

LEMMA NotedActive ==
  ASSUME NEW n \in Nat, NEW g \in History(n), NEW t \in 1 .. n, NEW x \in Nat
  PROVE  LET h == [g EXCEPT !.active[t] = x] IN
         /\ h \in History(n) /\ h.proved = g.proved /\ h.failed = g.failed
         /\ h.overtaken = g.overtaken /\ h.changes = g.changes
         /\ h.active[t] = x /\ \A v \in 1 .. n : v # t => h.active[v] = g.active[v]
  BY DEF History

AfterChange(g, t, x, change) == [g EXCEPT !.changes = @ \cup {change}, !.proved[t] = x]

\* A token is issued.
AfterLogin(g, t, p, now, late) ==
    [g EXCEPT !.proved = With(@, t, p), !.active = With(@, t, now), !.overtaken = late]

LEMMA NotedLogin ==
  ASSUME NEW n \in Nat, NEW g \in History(n), NEW p \in Nat \ {0}, NEW now \in Nat,
         NEW late \in SUBSET Nat, NEW h,
         h = AfterLogin(g, n + 1, p, now, late)
  PROVE  /\ h \in History(n + 1) /\ h.failed = g.failed /\ h.changes = g.changes
         /\ h.overtaken = late /\ h.proved[n + 1] = p /\ h.active[n + 1] = now
         /\ \A v \in 1 .. n : h.proved[v] = g.proved[v] /\ h.active[v] = g.active[v]
<1>1. 1 .. n + 1 = 1 .. n \cup {n + 1} /\ n + 1 \notin 1 .. n
  OBVIOUS
<1>2. /\ g.proved \in [1 .. n -> Nat \ {0}] /\ g.active \in [1 .. n -> Nat]
  BY DEF History
<1>3. /\ With(g.proved, n + 1, p) \in [1 .. n + 1 -> Nat \ {0}]
      /\ With(g.proved, n + 1, p)[n + 1] = p
      /\ \A v \in 1 .. n : With(g.proved, n + 1, p)[v] = g.proved[v]
  BY <1>1, <1>2 DEF With
<1>4. /\ With(g.active, n + 1, now) \in [1 .. n + 1 -> Nat]
      /\ With(g.active, n + 1, now)[n + 1] = now
      /\ \A v \in 1 .. n : With(g.active, n + 1, now)[v] = g.active[v]
  BY <1>1, <1>2 DEF With
<1> QED BY <1>3, <1>4 DEF History, AfterLogin

\* Sessions ended, and nothing else of the table.
Ends(table, less) ==
    /\ DOMAIN less \subseteq DOMAIN table
    /\ less = [t \in DOMAIN less |-> table[t]]

LEMMA Revoked ==
  ASSUME NEW table, NEW token, NEW user
  PROVE  /\ Ends(table, Revoke(table, token)) /\ token \notin DOMAIN Revoke(table, token)
         /\ Ends(table, RevokeUser(table, user))
         /\ \A t \in DOMAIN RevokeUser(table, user) : table[t].user # user
         /\ Ends(table, RevokeUserExcept(table, user, token))
         /\ \A t \in DOMAIN RevokeUserExcept(table, user, token) :
              table[t].user # user \/ t = token
  BY DEF Revoke, RevokeUser, RevokeUserExcept, Restrict, Ends

\* The lookup of a token ends its session or notes the time.
LEMMA Looked ==
  ASSUME NEW table, table \in [DOMAIN table -> Session], NEW token, NEW now \in Nat
  PROVE  LET after == Touched(table, token, now) IN
         /\ DOMAIN after \subseteq DOMAIN table /\ after \in [DOMAIN after -> Session]
         /\ \A t \in DOMAIN after :
              /\ after[t].user = table[t].user /\ after[t].expires = table[t].expires
              /\ after[t].seen = IF t = token THEN now ELSE table[t].seen
         /\ token \in DOMAIN after => IsValid(table, token, now)
<1>1. CASE token \notin DOMAIN table
  BY <1>1 DEF Touched
<1>2. CASE token \in DOMAIN table /\ IsValid(table, token, now)
  BY <1>2 DEF Touched, Session
<1>3. CASE token \in DOMAIN table /\ ~IsValid(table, token, now)
  BY <1>3 DEF Touched, Revoke, Restrict
<1> QED BY <1>1, <1>2, <1>3

\* A client's request moves.
LEMMA Becomes ==
  ASSUME TypeInv, NEW c \in Clients, NEW r \in Request, Become(c, r)
  PROVE  /\ req' \in [Clients -> Request]
         /\ req'[c] = r /\ \A d \in Clients : d # c => req'[d] = req[d]
  BY DEF TypeInv, Become

\* A request reaches the next state of its handler.
LEMMA GoesOn ==
  ASSUME NEW r, NEW pc
  PROVE  /\ r \in LoginReq /\ pc \in {"login", "login hash", "login verify", "login create"} =>
              [r EXCEPT !.pc = pc] \in LoginReq
         /\ r \in TokenReq /\ pc \in TokenPcs => [r EXCEPT !.pc = pc] \in TokenReq
         /\ r \in LoginReq \cup TokenReq =>
              /\ [r EXCEPT !.pc = pc].pc = pc /\ [r EXCEPT !.pc = pc].user = r.user
              /\ [r EXCEPT !.pc = pc].now = r.now /\ [r EXCEPT !.pc = pc].hash = r.hash
              /\ [r EXCEPT !.pc = pc].given = r.given
              /\ [r EXCEPT !.pc = pc].overtaken = r.overtaken
         /\ r \in TokenReq => [r EXCEPT !.pc = pc].token = r.token
  BY DEF LoginReq, TokenReq

\* Logins in flight are marked, and nothing else of the requests changes.
LEMMA Marks ==
  ASSUME TypeInv, NEW u
  PROVE  /\ Overtaken(u) \in [Clients -> Request]
         /\ \A d \in Clients :
              \/ Overtaken(u)[d] = req[d]
              \/ /\ req[d] \in LoginReq /\ Overtaken(u)[d] \in LoginReq
                 /\ Overtaken(u)[d] = [req[d] EXCEPT !.overtaken = TRUE]
         /\ \A d \in Clients :
              req[d].pc \in {"login verify", "login create"} /\ req[d].user = u =>
                  Overtaken(u)[d].overtaken \/ req[d].hash = password[u]
<1>1. \A d \in Clients : req[d] \in Request /\ (req[d].pc \in {"login verify", "login create"} => req[d] \in LoginReq)
  BY RequestOf
<1>2. \A r \in LoginReq : [r EXCEPT !.overtaken = TRUE] \in LoginReq /\ [r EXCEPT !.overtaken = TRUE].overtaken
  BY DEF LoginReq
<1>3. \A r \in LoginReq : r \in Request
  BY DEF Request
<1> QED BY <1>1, <1>2, <1>3 DEF Overtaken

\* What a failure or a success leaves of the guard and of the past.
LEMMA FailTyped ==
  ASSUME TypeInv, NEW u \in Users, NEW now \in Nat, Fail(u, now)
  PROVE  /\ DOMAIN guard' \subseteq Users /\ guard' \in [DOMAIN guard' -> Entry]
         /\ ghost' \in History(tokens) /\ ghost'.proved = ghost.proved
         /\ ghost'.active = ghost.active /\ ghost'.overtaken = ghost.overtaken
         /\ ghost'.changes = ghost.changes
         /\ ghost'.failed[u] = [n |-> ghost.failed[u].n + 1, last |-> Max2(ghost.failed[u].last, now)]
         /\ \A v \in Users : v # u => ghost'.failed[v] = ghost.failed[v]
<1>1. DOMAIN guard' \subseteq Users /\ guard' \in [DOMAIN guard' -> Entry]
  BY AfterFailure DEF TypeInv, Fail
<1>2. ghost.failed[u] \in [n : Nat, last : Nat] /\ ghost \in History(tokens) /\ tokens \in Nat
  BY DEF TypeInv, History
<1> DEFINE x == [n |-> ghost.failed[u].n + 1, last |-> Max2(ghost.failed[u].last, now)]
<1>3. x \in [n : Nat, last : Nat]
  BY <1>2 DEF Max2
<1>4. ghost' = [ghost EXCEPT !.failed[u] = x]
  BY <1>2 DEF Fail, History
<1> HIDE DEF x
<1>5. /\ ghost' \in History(tokens) /\ ghost'.proved = ghost.proved
      /\ ghost'.active = ghost.active /\ ghost'.overtaken = ghost.overtaken
      /\ ghost'.changes = ghost.changes
      /\ ghost'.failed[u] = x /\ \A v \in Users : v # u => ghost'.failed[v] = ghost.failed[v]
  BY <1>2, <1>3, <1>4, Noted
<1> QED BY <1>1, <1>5 DEF x

LEMMA SucceedTyped ==
  ASSUME TypeInv, NEW u \in Users, Succeed(u)
  PROVE  /\ DOMAIN guard' = DOMAIN guard \ {u} /\ guard' \in [DOMAIN guard' -> Entry]
         /\ \A v \in DOMAIN guard' : guard'[v] = guard[v]
         /\ ghost' \in History(tokens) /\ ghost'.proved = ghost.proved
         /\ ghost'.active = ghost.active /\ ghost'.overtaken = ghost.overtaken
         /\ ghost'.changes = ghost.changes
         /\ \A v \in Users : v # u => ghost'.failed[v] = ghost.failed[v]
<1>1. DOMAIN guard' = DOMAIN guard \ {u} /\ guard' \in [DOMAIN guard' -> Entry]
      /\ \A v \in DOMAIN guard' : guard'[v] = guard[v]
  BY AfterSuccess DEF TypeInv, Succeed
<1> DEFINE x == [n |-> 0, last |-> 0]
<1>2. x \in [n : Nat, last : Nat] /\ ghost \in History(tokens) /\ tokens \in Nat
  BY DEF TypeInv
<1>3. ghost' = [ghost EXCEPT !.failed[u] = x]
  BY DEF Succeed
<1> HIDE DEF x
<1>4. /\ ghost' \in History(tokens) /\ ghost'.proved = ghost.proved
      /\ ghost'.active = ghost.active /\ ghost'.overtaken = ghost.overtaken
      /\ ghost'.changes = ghost.changes
      /\ \A v \in Users : v # u => ghost'.failed[v] = ghost.failed[v]
  BY <1>2, <1>3, Noted
<1> QED BY <1>1, <1>4

\* The steps that touch neither who is signed in nor a request.
Outside ==
    \/ Tick \/ ChangeRights \/ (\E sandbox \in Sandboxes : Publish(sandbox)) \/ Announce
    \/ Relay \/ Hangup

LEMMA OutsideFrame ==
  ASSUME TypeInv, Outside
  PROVE  /\ clock' \in Nat /\ clock' >= clock
         /\ UNCHANGED <<authVars, tableVars, req, ending, ghost>>
<1>0. clock \in Nat
  BY DEF TypeInv
<1>1. CASE Tick
  <2>1. clock' = clock + 1
    BY <1>1 DEF Tick
  <2>2. UNCHANGED <<authVars, tableVars, req, ending, ghost>>
    BY <1>1 DEF Tick
  <2>3. clock' \in Nat /\ clock' >= clock
    BY <1>0, <2>1
  <2> QED BY <2>2, <2>3
<1>2. CASE ChangeRights
  <2>1. \A rs, as, o : SetRights(rs, as, o) => UNCHANGED <<clock, authVars, tableVars, req, ending, ghost>>
    BY DEF SetRights
  <2>2. UNCHANGED <<clock, authVars, tableVars, req, ending, ghost>>
    BY <1>2, <2>1 DEF ChangeRights
  <2> QED BY <1>0, <2>2
<1>3. CASE (\E sandbox \in Sandboxes : Publish(sandbox)) \/ Announce
  BY <1>0, <1>3 DEF Publish, Announce
<1>4. CASE Relay \/ Hangup
  BY <1>0, <1>4 DEF Relay, Hangup, Lag, Receive, Validate, Authorize, Decide, Send, Pump
<1> QED BY <1>1, <1>2, <1>3, <1>4 DEF Outside

\* What the handlers leave alone.
LEMMA HandlerFrame ==
  ASSUME TypeInv, NEW c \in Clients, Arrive(c) \/ Step(c)
  PROVE  /\ UNCHANGED <<clock, ending, rightVars, feedVars>>
         /\ ~OpenStream(c) => UNCHANGED stream
         /\ ~ChangeStore(c) => UNCHANGED <<password, temporary, latest>>
  BY DEF Arrive, Login, Present, Step, LoginUnlocked, LoginHash, LoginVerify, LoginCreate, Admit,
         Logout, OpenStream, ChangeBegin, ChangeUnlocked, ChangeHash, ChangeVerify, ChangeStore,
         ChangeSuccess, ChangeRevoke, Unlocked, CopyHash, authVars, tableVars

\* Cases of a step.
LEMMA StepCases ==
  ASSUME Next
  PROVE  \/ Outside
         \/ \E c \in Clients : Arrive(c) \/ Step(c)
         \/ \E u \in Users : ResetPassword(u) \/ DeleteUser(u) \/ CreateUser(u)
         \/ EndSessions
  BY DEF Next, Outside, Sandboxes

-----------------------------------------------------------------------------
(* The requests, as every step leaves them.                                 *)

LEMMA RequestsTyped ==
  ASSUME SInv, Next
  PROVE  req' \in [Clients -> Request]
<1> USE DEF SInv
<1>0. TypeInv /\ req \in [Clients -> Request] /\ clock \in Nat /\ latest \in Nat \ {0} /\ tokens \in Nat
  BY DEF TypeInv
<1>1. CASE Outside
  BY <1>0, <1>1, OutsideFrame
<1>2. ASSUME NEW c \in Clients, Arrive(c)
      PROVE  \E r \in Request : Become(c, r)
  <2>1. Wrong \in Nat \ {0} /\ Gone \in Nat
    BY DEF Wrong, Gone
  <2>2. ASSUME NEW u \in Users, NEW given \in {latest, Wrong}, Login(c, u, given)
        PROVE  \E r \in Request : Become(c, r)
    <3>1. [pc |-> "login", user |-> u, given |-> given, now |-> clock, hash |-> Gone, overtaken |-> FALSE]
              \in LoginReq
      BY <1>0, <2>1 DEF LoginReq
    <3> QED BY <2>2, <3>1 DEF Login, Request
  <2>3. ASSUME NEW t \in 1 .. tokens, NEW given \in {latest, Wrong}, NEW kind \in Kinds,
               Present(c, t, kind, given)
        PROVE  \E r \in Request : Become(c, r)
    <3>1. [pc |-> "admit", token |-> t, kind |-> kind, given |-> given, now |-> clock,
           user |-> Nobody, hash |-> Gone, overtaken |-> FALSE] \in AdmitReq
      BY <1>0, <2>1 DEF AdmitReq
    <3> QED BY <2>3, <3>1 DEF Present, Request
  <2>4. CASE \E u \in Users, given \in {latest, Wrong} : Login(c, u, given)
    BY <2>2, <2>4
  <2>5. CASE \E t \in 1 .. tokens : \E kind \in {"read", "logout", "stream"} : Present(c, t, kind, Wrong)
    BY <2>3, <2>5 DEF Kinds
  <2>6. CASE \E t \in 1 .. tokens : \E given \in {latest, Wrong} : Present(c, t, "password", given)
    BY <2>3, <2>6 DEF Kinds
  <2> QED BY <1>2, <2>4, <2>5, <2>6 DEF Arrive
<1>3. ASSUME NEW c \in Clients, Step(c), ~ChangeRevoke(c)
      PROVE  \E r \in Request : Become(c, r)
  <2>0. Idle \in Request /\ LoginReq \subseteq Request /\ TokenReq \subseteq Request
    BY DEF Request
  <2>1. req[c].pc \in {"login", "login hash", "login verify", "login create"} => req[c] \in LoginReq
    BY RequestOf
  <2>2. req[c].pc \in TokenPcs => req[c] \in TokenReq
    BY RequestOf
  <2>3. req[c].pc = "admit" => req[c] \in AdmitReq
    BY RequestOf
  <2>4. CASE LoginUnlocked(c) \/ LoginVerify(c) \/ LoginCreate(c)
    BY <2>0, <2>1, <2>4, GoesOn DEF LoginUnlocked, LoginVerify, LoginCreate, Unlocked, Goto, Finish
  <2>5. CASE LoginHash(c) \/ ChangeHash(c)
    <3>1. \A h \in Nat : \A r \in LoginReq : [r EXCEPT !.pc = "login verify", !.hash = h] \in LoginReq
      BY DEF LoginReq
    <3>2. \A h \in Nat : \A r \in TokenReq : [r EXCEPT !.pc = "change verify", !.hash = h] \in TokenReq
      BY DEF TokenReq, TokenPcs
    <3>3. \A r \in LoginReq \cup TokenReq : r.user \in Users
      BY DEF LoginReq, TokenReq
    <3>4. \A u \in Users : password[u] \in Nat
      BY DEF TypeInv
    <3>5. CASE LoginHash(c)
      BY <2>0, <2>1, <3>1, <3>3, <3>4, <3>5 DEF LoginHash, CopyHash
    <3>6. CASE ChangeHash(c)
      BY <2>0, <2>2, <3>2, <3>3, <3>4, <3>6 DEF ChangeHash, CopyHash, TokenPcs
    <3> QED BY <2>5, <3>5, <3>6
  <2>6. CASE Admit(c)
    <3>1. CASE Finish(c)
      BY <2>0, <3>1 DEF Finish
    <3>2. CASE ~Finish(c)
      <4>1. /\ req[c] \in AdmitReq /\ req[c].kind # "read"
            /\ IsValid(sessions, req[c].token, req[c].now)
            /\ Become(c, [req[c] EXCEPT !.pc = req[c].kind, !.user = sessions[req[c].token].user])
        BY <2>3, <2>6, <3>2 DEF Admit
      <4>2. sessions[req[c].token].user \in Users
        BY <4>1 DEF IsValid, TypeInv, Session
      <4>3. [req[c] EXCEPT !.pc = req[c].kind, !.user = sessions[req[c].token].user] \in TokenReq
        BY <4>1, <4>2 DEF AdmitReq, TokenReq, TokenPcs, Kinds
      <4> QED BY <2>0, <4>1, <4>3
    <3> QED BY <3>1, <3>2
  <2>7. CASE ChangeBegin(c)
    <3>1. req[c] \in TokenReq
      BY <2>2, <2>7 DEF ChangeBegin, TokenPcs
    <3>2. [req[c] EXCEPT !.pc = "change", !.now = clock] \in TokenReq
      BY <1>0, <3>1 DEF TokenReq, TokenPcs
    <3> QED BY <2>0, <2>7, <3>2 DEF ChangeBegin
  <2>8. CASE ChangeUnlocked(c) \/ ChangeVerify(c) \/ ChangeStore(c) \/ ChangeSuccess(c)
    BY <2>0, <2>2, <2>8, GoesOn
       DEF ChangeUnlocked, ChangeVerify, ChangeStore, ChangeSuccess, Unlocked, Goto, Finish, TokenPcs
  <2>9. CASE Logout(c) \/ OpenStream(c)
    BY <2>0, <2>9 DEF Logout, OpenStream, Finish
  <2> QED BY <1>3, <2>4, <2>5, <2>6, <2>7, <2>8, <2>9 DEF Step
<1>4. ASSUME NEW c \in Clients, ChangeRevoke(c)
      PROVE  req' \in [Clients -> Request]
  BY <1>0, <1>4, Marks DEF ChangeRevoke, Request
<1>5. CASE EndSessions
  BY <1>0, <1>5, Marks DEF EndSessions
<1>6. ASSUME NEW u \in Users, ResetPassword(u) \/ DeleteUser(u) \/ CreateUser(u)
      PROVE  req' = req
  BY <1>6 DEF ResetPassword, DeleteUser, CreateUser
<1> QED BY <1>0, <1>1, <1>2, <1>3, <1>4, <1>5, <1>6, Becomes, StepCases

-----------------------------------------------------------------------------
(* The session table and what is noted of the tokens.                       *)

\* A step issues the next token or none, and ends sessions or keeps them whose
\* they are and as long as they are.
TableStep ==
    /\ tokens' \in Nat /\ tokens' >= tokens
    /\ DOMAIN sessions' \subseteq 1 .. tokens' /\ sessions' \in [DOMAIN sessions' -> Session]
    /\ ghost' \in History(tokens')
    /\ \A t \in DOMAIN sessions' : t <= tokens =>
          /\ t \in DOMAIN sessions /\ sessions'[t].user = sessions[t].user
          /\ sessions'[t].expires = sessions[t].expires
    /\ \A t \in 1 .. tokens : ghost'.active[t] >= ghost.active[t]
    /\ \A t \in DOMAIN sessions' :
          \/ t \in DOMAIN sessions /\ sessions'[t].seen = sessions[t].seen
          \/ sessions'[t].seen <= clock /\ sessions'[t].seen <= ghost'.active[t]

\* A step that ends sessions, or none.
LEMMA EndsSessions ==
  ASSUME TypeInv, Ends(sessions, sessions'), UNCHANGED <<tokens, ghost>>
  PROVE  /\ TableStep
         /\ \A t \in DOMAIN sessions' : sessions'[t] = sessions[t]
<1>1. /\ tokens \in Nat /\ DOMAIN sessions \subseteq 1 .. tokens
      /\ sessions \in [DOMAIN sessions -> Session] /\ ghost \in History(tokens)
      /\ ghost.active \in [1 .. tokens -> Nat]
  BY DEF TypeInv, History
<1>2. \A t \in DOMAIN sessions' : t \in DOMAIN sessions /\ sessions'[t] = sessions[t]
  BY DEF Ends
<1>3. sessions' \in [DOMAIN sessions' -> Session]
  BY <1>1, <1>2 DEF Ends
<1>4. \A t \in DOMAIN sessions' : sessions'[t].seen = sessions[t].seen
  BY <1>2
<1> QED BY <1>1, <1>2, <1>3, <1>4 DEF TableStep

\* A step that leaves the table as it is.
LEMMA SameTable ==
  ASSUME TypeInv, UNCHANGED <<tokens, sessions>>, ghost' \in History(tokens),
         ghost'.active = ghost.active
  PROVE  TableStep
<1>1. ghost.active \in [1 .. tokens -> Nat]
  BY DEF TypeInv, History
<1> QED BY <1>1 DEF TypeInv, TableStep

LEMMA TookItsTime ==
  ASSUME SInv, NEW c \in Clients, req[c].pc # "idle"
  PROVE  req[c].now <= clock
<1>1. req[c] # Idle
  BY DEF Idle
<1>2. RequestOK(req[c])
  BY DEF SInv, RequestInv
<1> QED BY <1>1, <1>2 DEF RequestOK, RequestAt

LEMMA Creates ==
  ASSUME SInv, NEW c \in Clients, LoginCreate(c)
  PROVE  /\ TableStep
         /\ req[c] \in LoginReq /\ tokens' = tokens + 1
         /\ DOMAIN sessions' = DOMAIN sessions \cup {tokens'}
         /\ sessions'[tokens'] = [user |-> req[c].user, expires |-> req[c].now + TtlMillis,
                                  seen |-> req[c].now]
         /\ \A t \in DOMAIN sessions : t # tokens' /\ sessions'[t] = sessions[t]
         /\ ghost'.proved[tokens'] = req[c].given /\ ghost'.active[tokens'] = req[c].now
         /\ \A t \in 1 .. tokens : /\ ghost'.proved[t] = ghost.proved[t]
                                   /\ ghost'.active[t] = ghost.active[t]
         /\ ghost'.overtaken = IF req[c].overtaken THEN ghost.overtaken \cup {tokens'}
                                                  ELSE ghost.overtaken
         /\ ghost'.failed = ghost.failed /\ ghost'.changes = ghost.changes
<1>1. /\ tokens \in Nat /\ DOMAIN sessions \subseteq 1 .. tokens
      /\ sessions \in [DOMAIN sessions -> Session] /\ ghost \in History(tokens)
      /\ ghost.overtaken \in SUBSET Nat /\ ghost.active \in [1 .. tokens -> Nat]
  BY DEF SInv, TypeInv, History
<1>2. /\ req[c] \in LoginReq /\ req[c].user \in Users /\ req[c].now \in Nat
      /\ req[c].given \in Nat \ {0}
  BY RequestOf DEF SInv, LoginCreate, LoginReq
<1>3. tokens' = tokens + 1 /\ tokens' \in Nat /\ tokens' \notin DOMAIN sessions
  <2>1. tokens' = tokens + 1
    BY DEF LoginCreate
  <2> QED BY <1>1, <2>1
<1> DEFINE fresh == [user |-> req[c].user, expires |-> req[c].now + TtlMillis, seen |-> req[c].now]
           late == IF req[c].overtaken THEN ghost.overtaken \cup {tokens + 1} ELSE ghost.overtaken
<1>4. fresh \in Session
  BY <1>2, SessionAssumption DEF Session
<1>5. sessions' = With(sessions, tokens + 1, fresh)
  BY <1>3 DEF LoginCreate, Create
<1> HIDE DEF fresh
<1>6. /\ DOMAIN sessions' = DOMAIN sessions \cup {tokens'}
      /\ sessions'[tokens'] = fresh
      /\ \A t \in DOMAIN sessions : t # tokens' /\ sessions'[t] = sessions[t]
      /\ sessions' \in [DOMAIN sessions' -> Session]
  BY <1>1, <1>3, <1>4, <1>5 DEF With
<1>7. late \in SUBSET Nat
  BY <1>1
<1>8. ghost' = AfterLogin(ghost, tokens + 1, req[c].given, req[c].now, late)
  BY <1>1, <1>3 DEF LoginCreate, History, AfterLogin
<1>9. late = IF req[c].overtaken THEN ghost.overtaken \cup {tokens'} ELSE ghost.overtaken
  BY <1>3
<1> HIDE DEF late
<1>10. /\ ghost' \in History(tokens + 1) /\ ghost'.failed = ghost.failed
       /\ ghost'.changes = ghost.changes /\ ghost'.overtaken = late
       /\ ghost'.proved[tokens + 1] = req[c].given /\ ghost'.active[tokens + 1] = req[c].now
       /\ \A v \in 1 .. tokens : ghost'.proved[v] = ghost.proved[v] /\ ghost'.active[v] = ghost.active[v]
  BY <1>1, <1>2, <1>7, <1>8, NotedLogin
<1>11. DOMAIN sessions' \subseteq 1 .. tokens'
  BY <1>1, <1>3, <1>6
<1>12. \A t \in DOMAIN sessions' : t <= tokens => t \in DOMAIN sessions
  BY <1>1, <1>3, <1>6
<1>13. TableStep
  <2>1. req[c].now <= clock
    BY TookItsTime DEF LoginCreate
  <2>2. sessions'[tokens'].seen <= clock /\ sessions'[tokens'].seen <= ghost'.active[tokens']
    BY <1>2, <1>3, <1>6, <1>10, <2>1 DEF fresh
  <2>3. \A t \in DOMAIN sessions' : t # tokens' => t \in DOMAIN sessions /\ sessions'[t].seen = sessions[t].seen
    BY <1>6
  <2>4. \A t \in 1 .. tokens : ghost'.active[t] >= ghost.active[t]
    BY <1>1, <1>10
  <2> QED BY <1>1, <1>3, <1>6, <1>10, <1>11, <1>12, <2>2, <2>3, <2>4 DEF TableStep
<1> QED BY <1>2, <1>3, <1>6, <1>9, <1>10, <1>13 DEF fresh

\* The lookup of a token.
LEMMA Admits ==
  ASSUME SInv, NEW c \in Clients, Admit(c)
  PROVE  /\ TableStep
         /\ req[c] \in AdmitReq /\ UNCHANGED <<tokens, authVars>>
         /\ ghost'.failed = ghost.failed /\ ghost'.changes = ghost.changes
         /\ ghost'.proved = ghost.proved /\ ghost'.overtaken = ghost.overtaken
         /\ \A t \in DOMAIN sessions' :
              \/ sessions'[t].seen = sessions[t].seen
              \/ t = req[c].token /\ sessions'[t].seen = req[c].now /\ ghost'.active[t] >= req[c].now
<1>1. /\ tokens \in Nat /\ DOMAIN sessions \subseteq 1 .. tokens
      /\ sessions \in [DOMAIN sessions -> Session] /\ ghost \in History(tokens)
      /\ ghost.active \in [1 .. tokens -> Nat]
  BY DEF SInv, TypeInv, History
<1>2. req[c] \in AdmitReq /\ req[c].now \in Nat /\ req[c].token \in 1 .. tokens
  BY RequestOf DEF SInv, Admit, AdmitReq, RequestInv, RequestOK, RequestAt
<1> DEFINE token == req[c].token
           now == req[c].now
           x == Max2(ghost.active[token], now)
<1>3. /\ DOMAIN sessions' \subseteq DOMAIN sessions /\ sessions' \in [DOMAIN sessions' -> Session]
      /\ \A t \in DOMAIN sessions' :
           /\ sessions'[t].user = sessions[t].user /\ sessions'[t].expires = sessions[t].expires
           /\ sessions'[t].seen = IF t = token THEN now ELSE sessions[t].seen
      /\ token \in DOMAIN sessions' => IsValid(sessions, token, now)
  BY <1>1, <1>2, Looked DEF Admit
<1>4. x \in Nat /\ x >= ghost.active[token] /\ x >= now
  BY <1>1, <1>2 DEF Max2
<1>5. ghost' = IF IsValid(sessions, token, now) THEN [ghost EXCEPT !.active[token] = x] ELSE ghost
  BY <1>1, <1>2 DEF Admit, History
<1>9. now <= clock
  BY TookItsTime DEF Admit
<1> HIDE DEF x, token, now
<1>6. token \in 1 .. tokens /\ now \in Nat
  BY <1>2 DEF token, now
<1>7. CASE IsValid(sessions, token, now)
  <2>1. /\ ghost' \in History(tokens) /\ ghost'.proved = ghost.proved /\ ghost'.failed = ghost.failed
        /\ ghost'.overtaken = ghost.overtaken /\ ghost'.changes = ghost.changes
        /\ ghost'.active[token] = x
        /\ \A v \in 1 .. tokens : v # token => ghost'.active[v] = ghost.active[v]
    BY <1>1, <1>4, <1>5, <1>6, <1>7, NotedActive
  <2>3. \A t \in DOMAIN sessions' :
          \/ t \in DOMAIN sessions /\ sessions'[t].seen = sessions[t].seen
          \/ sessions'[t].seen <= clock /\ sessions'[t].seen <= ghost'.active[t]
    BY <1>3, <1>4, <1>6, <1>9, <2>1
  <2>4. \A v \in 1 .. tokens : ghost'.active[v] >= ghost.active[v]
    BY <1>1, <1>4, <2>1
  <2>2. TableStep
    <3>1. tokens' = tokens /\ DOMAIN sessions' \subseteq 1 .. tokens
      BY <1>1, <1>3 DEF Admit
    <3>2. /\ tokens' \in Nat /\ tokens' >= tokens /\ ghost' \in History(tokens')
          /\ DOMAIN sessions' \subseteq 1 .. tokens'
      BY <1>1, <2>1, <3>1
    <3>3. \A t \in DOMAIN sessions' :
             /\ t \in DOMAIN sessions /\ sessions'[t].user = sessions[t].user
             /\ sessions'[t].expires = sessions[t].expires
      BY <1>3
    <3> QED BY <1>3, <2>3, <2>4, <3>2, <3>3 DEF TableStep
  <2> QED BY <1>2, <1>3, <1>4, <2>1, <2>2 DEF Admit, token, now
<1>8. CASE ~IsValid(sessions, token, now)
  <2>1. ghost' = ghost /\ tokens' = tokens
    BY <1>5, <1>8 DEF Admit
  <2>2. \A t \in DOMAIN sessions' :
             /\ t \in DOMAIN sessions /\ sessions'[t].user = sessions[t].user
             /\ sessions'[t].expires = sessions[t].expires /\ sessions'[t].seen = sessions[t].seen
    BY <1>3, <1>8
  <2>3. \A v \in 1 .. tokens : ghost'.active[v] >= ghost.active[v]
    BY <1>1, <2>1
  <2>4. TableStep
    BY SMTT(30), <1>1, <1>3, <2>1, <2>2, <2>3 DEF TableStep
  <2> QED BY <1>2, <1>3, <1>8, <2>1, <2>2, <2>4 DEF Admit, token, now
<1> QED BY <1>7, <1>8

\* The password is changed: the token has proved the new one.
Replaces(c) == ChangeStore(c) /\ password[req[c].user] # Gone /\ Reverified(c)

LEMMA Stores ==
  ASSUME SInv, NEW c \in Clients, Replaces(c)
  PROVE  /\ TableStep /\ UNCHANGED <<tokens, sessions, guard>>
         /\ req[c] \in TokenReq /\ latest' = latest + 1
         /\ password' = [password EXCEPT ![req[c].user] = latest']
         /\ temporary' = temporary \ {req[c].user}
         /\ ghost'.failed = ghost.failed /\ ghost'.overtaken = ghost.overtaken
         /\ ghost'.changes = ghost.changes \cup {[given |-> req[c].given, replaced |-> password[req[c].user]]}
         /\ ghost'.proved[req[c].token] = latest'
         /\ \A t \in 1 .. tokens : t # req[c].token => ghost'.proved[t] = ghost.proved[t]
         /\ Become(c, [req[c] EXCEPT !.pc = "change success"])
<1>1. /\ tokens \in Nat /\ ghost \in History(tokens) /\ latest \in Nat /\ password \in [Users -> Nat]
      /\ ghost.proved \in [1 .. tokens -> Nat \ {0}]
  BY DEF SInv, TypeInv, History
<1>2. /\ req[c] \in TokenReq /\ req[c].token \in 1 .. tokens /\ req[c].user \in Users
      /\ req[c].given \in Nat
  BY RequestOf DEF Replaces, ChangeStore, SInv, TokenReq, TokenPcs, RequestInv, RequestOK, RequestAt
<1> DEFINE change == [given |-> req[c].given, replaced |-> password[req[c].user]]
<1>3. /\ latest' = latest + 1 /\ password' = [password EXCEPT ![req[c].user] = latest']
      /\ temporary' = temporary \ {req[c].user}
      /\ ghost' = AfterChange(ghost, req[c].token, latest', change)
      /\ Goto(c, "change success") /\ UNCHANGED guard /\ UNCHANGED <<tokens, sessions>>
  BY DEF Replaces, ChangeStore, tableVars, AfterChange
<1>4. change \in Change
  <2>1. password[req[c].user] \in Nat
    BY <1>1, <1>2
  <2> QED BY <1>2, <2>1 DEF Change
<1>a. \A n \in Nat : n + 1 \in Nat /\ n + 1 # 0
  OBVIOUS
<1> DEFINE x == latest'
           t == req[c].token
<1>b. /\ tokens \in Nat /\ ghost \in History(tokens) /\ t \in 1 .. tokens
      /\ x \in Nat \ {0} /\ ghost' = AfterChange(ghost, t, x, change)
  BY <1>1, <1>2, <1>3, <1>a
<1> HIDE DEF change, x, t
<1>5. /\ ghost' \in History(tokens) /\ ghost'.failed = ghost.failed /\ ghost'.active = ghost.active
      /\ ghost'.overtaken = ghost.overtaken /\ ghost'.changes = ghost.changes \cup {change}
      /\ ghost'.proved[t] = x
      /\ \A v \in 1 .. tokens : v # t => ghost'.proved[v] = ghost.proved[v]
  BY <1>4, <1>b DEF AfterChange, History
<1>6. TableStep
  BY <1>3, <1>5, SameTable DEF SInv
<1> QED BY <1>2, <1>3, <1>5, <1>6 DEF change, x, t, Goto

\* A handler that neither issues nor ends a session.
LEMMA Others ==
  ASSUME SInv, NEW c \in Clients, Arrive(c) \/ Step(c),
         ~LoginCreate(c), ~Admit(c), ~Replaces(c), ~Logout(c), ~ChangeRevoke(c)
  PROVE  /\ UNCHANGED <<sessions, tokens, password, temporary, latest>>
         /\ ghost' \in History(tokens) /\ ghost'.proved = ghost.proved
         /\ ghost'.active = ghost.active /\ ghost'.overtaken = ghost.overtaken
         /\ ghost'.changes = ghost.changes
         /\ \/ UNCHANGED <<guard, ghost>>
            \/ Fail(req[c].user, req[c].now) /\ req[c].user \in Users /\ req[c].now \in Nat
            \/ Succeed(req[c].user) /\ req[c].user \in Users
<1>1. ghost \in History(tokens) /\ TypeInv
  BY DEF SInv, TypeInv
<1>2. CASE \/ Arrive(c) \/ LoginUnlocked(c) \/ LoginHash(c) \/ OpenStream(c)
           \/ ChangeBegin(c) \/ ChangeUnlocked(c) \/ ChangeHash(c)
  <2>1. UNCHANGED <<authVars, tableVars, ghost>>
    BY <1>2 DEF Arrive, Login, Present, LoginUnlocked, LoginHash, OpenStream, ChangeBegin,
                ChangeUnlocked, ChangeHash, Unlocked, CopyHash
  <2> QED BY <1>1, <2>1 DEF authVars, tableVars
<1>3. CASE LoginVerify(c) \/ ChangeVerify(c) \/ ChangeSuccess(c) \/ ChangeStore(c)
  <2>1. UNCHANGED <<sessions, tokens, password, temporary, latest>>
    BY <1>3 DEF LoginVerify, ChangeVerify, ChangeSuccess, ChangeStore, Replaces, authVars, tableVars
  <2>2. req[c].user \in Users /\ req[c].now \in Nat
    <3>1. req[c] \in LoginReq \cup TokenReq
      BY <1>1, <1>3, RequestOf DEF LoginVerify, ChangeVerify, ChangeSuccess, ChangeStore, TokenPcs
    <3> QED BY <3>1 DEF LoginReq, TokenReq
  <2>3. \/ UNCHANGED <<guard, ghost>>
        \/ Fail(req[c].user, req[c].now)
        \/ Succeed(req[c].user)
    BY <1>3 DEF LoginVerify, ChangeVerify, ChangeSuccess, ChangeStore, Replaces, authVars
  <2> QED BY <1>1, <2>1, <2>2, <2>3, FailTyped, SucceedTyped
<1> QED BY <1>2, <1>3 DEF Step

\* A handler that ends sessions, and those of whom.
LEMMA Ending ==
  ASSUME SInv,
         EndSessions \/ (\E c \in Clients : Logout(c) \/ ChangeRevoke(c))
  PROVE  /\ TableStep /\ UNCHANGED <<authVars, tokens, ghost>>
         /\ \A t \in DOMAIN sessions' : t \in DOMAIN sessions /\ sessions'[t] = sessions[t]
<1>1. UNCHANGED <<authVars, tokens, ghost>>
  BY DEF EndSessions, Logout, ChangeRevoke
<1>2. Ends(sessions, sessions')
  <2>1. CASE EndSessions
    BY <2>1, Revoked DEF EndSessions
  <2>2. ASSUME NEW c \in Clients, Logout(c)
        PROVE  Ends(sessions, sessions')
    <3>1. sessions' = Revoke(sessions, req[c].token)
      BY <2>2 DEF Logout
    <3> QED BY <3>1, Revoked
  <2>3. ASSUME NEW c \in Clients, ChangeRevoke(c)
        PROVE  Ends(sessions, sessions')
    <3>1. sessions' = RevokeUserExcept(sessions, req[c].user, req[c].token)
      BY <2>3 DEF ChangeRevoke
    <3> QED BY <3>1, Revoked
  <2> QED BY <2>1, <2>2, <2>3
<1> QED BY <1>1, <1>2, EndsSessions DEF SInv, Ends

LEMMA Tables ==
  ASSUME SInv, Next
  PROVE  TableStep
<1>1. ghost \in History(tokens) /\ TypeInv
  BY DEF SInv, TypeInv
<1>2. CASE Outside
  BY <1>1, <1>2, OutsideFrame, SameTable DEF tableVars
<1>3. ASSUME NEW c \in Clients, Arrive(c) \/ Step(c)
      PROVE  TableStep
  <2>1. CASE LoginCreate(c)
    BY <2>1, Creates
  <2>2. CASE Admit(c)
    BY <2>2, Admits
  <2>3. CASE Replaces(c)
    BY <2>3, Stores
  <2>4. CASE Logout(c) \/ ChangeRevoke(c)
    BY <2>4, Ending
  <2>5. CASE ~LoginCreate(c) /\ ~Admit(c) /\ ~Replaces(c) /\ ~Logout(c) /\ ~ChangeRevoke(c)
    BY <1>1, <1>3, <2>5, Others, SameTable
  <2> QED BY <2>1, <2>2, <2>3, <2>4, <2>5
<1>4. ASSUME NEW u \in Users, ResetPassword(u) \/ DeleteUser(u) \/ CreateUser(u)
      PROVE  TableStep
  <2>1. UNCHANGED <<tokens, sessions, ghost>>
    BY <1>4 DEF ResetPassword, DeleteUser, CreateUser, tableVars
  <2> QED BY <1>1, <2>1, SameTable
<1>5. CASE EndSessions
  BY <1>5, Ending
<1> QED BY <1>2, <1>3, <1>4, <1>5, StepCases

-----------------------------------------------------------------------------
(* The types.                                                               *)

\* Passwords and rights are of users that exist.
LEMMA AuthTyped ==
  ASSUME SInv, Next
  PROVE  /\ latest' \in Nat \ {0} /\ password' \in [Users -> Nat]
         /\ temporary' \subseteq Existing' /\ readers' \subseteq Existing' /\ admins' \subseteq Existing'
         /\ ending' \in Users \cup {Nobody}
<1>0. /\ TypeInv /\ latest \in Nat \ {0} /\ password \in [Users -> Nat] /\ ending \in Users \cup {Nobody}
      /\ temporary \subseteq Existing /\ readers \subseteq Existing /\ admins \subseteq Existing
  BY DEF SInv, TypeInv
<1>a. \A n \in Nat : n + 1 \in Nat \ {0} /\ n + 1 # Gone
  BY DEF Gone
<1>1. CASE Outside /\ ~ChangeRights
  <2>1. UNCHANGED <<password, temporary, latest, ending>>
    BY <1>0, <1>1, OutsideFrame DEF authVars
  <2>2. UNCHANGED <<readers, admins>>
    BY <1>1 DEF Outside, Tick, Publish, Announce, Relay, Hangup, Lag, Receive, Validate, Authorize,
                Decide, Send, Pump, rightVars
  <2> QED BY <1>0, <2>1, <2>2 DEF Existing
<1>2. CASE ChangeRights
  <2>1. UNCHANGED <<password, temporary, latest, ending>>
    BY <1>0, <1>2, OutsideFrame DEF authVars, Outside
  <2>2. readers' \subseteq Existing /\ admins' \subseteq Existing
    BY <1>0, <1>2 DEF ChangeRights, SetRights
  <2> QED BY <1>0, <2>1, <2>2 DEF Existing
<1>3. ASSUME NEW c \in Clients, Arrive(c) \/ Step(c), ~ChangeStore(c)
      PROVE  UNCHANGED <<password, temporary, latest, ending, readers, admins>>
  BY <1>0, <1>3, HandlerFrame DEF rightVars
<1>4. ASSUME NEW c \in Clients, ChangeStore(c)
      PROVE  /\ UNCHANGED <<ending, readers, admins>>
             /\ \/ UNCHANGED <<password, temporary, latest>>
                \/ \E u \in Users : /\ latest' = latest + 1 /\ password' = [password EXCEPT ![u] = latest']
                                    /\ temporary' = temporary \ {u}
  <2>1. UNCHANGED <<ending, readers, admins>>
    BY <1>4 DEF ChangeStore, rightVars
  <2>2. CASE Replaces(c)
    <3>1. req[c].user \in Users
      BY <2>2, Stores DEF TokenReq
    <3> QED BY <2>1, <2>2, <3>1, Stores
  <2>3. CASE ~Replaces(c)
    BY <1>4, <2>1, <2>3 DEF ChangeStore, Replaces, authVars
  <2> QED BY <2>2, <2>3
<1>5. ASSUME NEW u \in Users, latest' = latest + 1, password' = [password EXCEPT ![u] = latest'],
             temporary' \subseteq temporary \cup {u}, readers' = readers, admins' = admins
      PROVE  /\ latest' \in Nat \ {0} /\ password' \in [Users -> Nat]
             /\ temporary' \subseteq Existing' /\ readers' \subseteq Existing' /\ admins' \subseteq Existing'
  <2>1. latest' \in Nat \ {0} /\ latest' # Gone
    BY <1>0, <1>5, <1>a
  <2>2. password' \in [Users -> Nat] /\ Existing \cup {u} \subseteq Existing'
    BY <1>0, <1>5, <2>1 DEF Existing
  <2> QED BY <1>0, <1>5, <2>1, <2>2
<1>6. ASSUME NEW u \in Users, ResetPassword(u) \/ CreateUser(u)
      PROVE  /\ latest' = latest + 1 /\ password' = [password EXCEPT ![u] = latest']
             /\ temporary' \subseteq temporary \cup {u} /\ UNCHANGED <<readers, admins>>
             /\ ending' \in Users \cup {Nobody}
  BY <1>0, <1>6 DEF ResetPassword, CreateUser, rightVars
<1>7. ASSUME NEW u \in Users, DeleteUser(u)
      PROVE  /\ latest' \in Nat \ {0} /\ password' \in [Users -> Nat]
             /\ temporary' \subseteq Existing' /\ readers' \subseteq Existing' /\ admins' \subseteq Existing'
             /\ ending' \in Users \cup {Nobody}
  <2>1. /\ latest' = latest /\ password' = [password EXCEPT ![u] = Gone] /\ ending' = u
        /\ temporary' = temporary \ {u} /\ readers' = readers \ {u} /\ admins' = admins \ {u}
    BY <1>7 DEF DeleteUser
  <2>2. password' \in [Users -> Nat] /\ Existing \ {u} \subseteq Existing'
    BY <1>0, <2>1 DEF Existing, Gone
  <2> QED BY <1>0, <2>1, <2>2
<1>8. CASE EndSessions
  <2>1. UNCHANGED <<password, temporary, latest, readers, admins>> /\ ending' = Nobody
    BY <1>8 DEF EndSessions, authVars, rightVars
  <2> QED BY <1>0, <2>1 DEF Existing
<1>9. ASSUME UNCHANGED <<password, temporary, latest, ending, readers, admins>>
      PROVE  /\ latest' \in Nat \ {0} /\ password' \in [Users -> Nat]
             /\ temporary' \subseteq Existing' /\ readers' \subseteq Existing' /\ admins' \subseteq Existing'
             /\ ending' \in Users \cup {Nobody}
  BY <1>0, <1>9 DEF Existing
<1> QED BY <1>0, <1>1, <1>2, <1>3, <1>4, <1>5, <1>6, <1>7, <1>8, <1>9, StepCases

LEMMA GuardTyped ==
  ASSUME SInv, Next
  PROVE  DOMAIN guard' \subseteq Users /\ guard' \in [DOMAIN guard' -> Entry]
<1>0. TypeInv /\ DOMAIN guard \subseteq Users /\ guard \in [DOMAIN guard -> Entry]
  BY DEF SInv, TypeInv
<1>1. CASE Outside
  BY <1>0, <1>1, OutsideFrame DEF authVars
<1>2. ASSUME NEW c \in Clients, Arrive(c) \/ Step(c)
      PROVE  DOMAIN guard' \subseteq Users /\ guard' \in [DOMAIN guard' -> Entry]
  <2>1. CASE LoginCreate(c) \/ Admit(c) \/ Logout(c) \/ ChangeRevoke(c)
    BY <1>0, <2>1 DEF LoginCreate, Admit, Logout, ChangeRevoke, authVars
  <2>2. CASE Replaces(c)
    BY <1>0, <2>2, Stores
  <2>3. CASE ~LoginCreate(c) /\ ~Admit(c) /\ ~Replaces(c) /\ ~Logout(c) /\ ~ChangeRevoke(c)
    BY <1>0, <1>2, <2>3, Others, FailTyped, SucceedTyped
  <2> QED BY <2>1, <2>2, <2>3
<1>3. ASSUME NEW u \in Users, ResetPassword(u) \/ DeleteUser(u) \/ CreateUser(u)
      PROVE  guard' = guard
  BY <1>3 DEF ResetPassword, DeleteUser, CreateUser
<1>4. CASE EndSessions
  BY <1>0, <1>4 DEF EndSessions, authVars
<1> QED BY <1>0, <1>1, <1>2, <1>3, <1>4, StepCases

-----------------------------------------------------------------------------
(* The feed.                                                                *)

\* What a change of the rights does to an event.
Widened(e) == [e EXCEPT !.may = @ \cup MaySee(e, readers', admins', owner')]

LEMMA Widens ==
  ASSUME NEW e \in EventRecord
  PROVE  /\ Widened(e) \in EventRecord /\ Widened(e).version = e.version
         /\ Widened(e).ended = e.ended /\ Widened(e).sandbox = e.sandbox
         /\ e.may \subseteq Widened(e).may
         /\ MaySee(Widened(e), readers', admins', owner') \subseteq Widened(e).may
  BY DEF Widened, EventRecord, MaySee, Deliverable

LEMMA RightsChange ==
  ASSUME TypeInv, ChangeRights
  PROVE  /\ feed' = [i \in DOMAIN feed |-> Widened(feed[i])]
         /\ unsent' = {Widened(e) : e \in unsent}
         /\ UNCHANGED <<clock, tableVars, stream>>
<1>1. ASSUME NEW rs, NEW as, NEW o, SetRights(rs, as, o)
      PROVE  /\ feed' = [i \in DOMAIN feed |-> Widened(feed[i])]
             /\ unsent' = {Widened(e) : e \in unsent}
             /\ UNCHANGED <<clock, tableVars, stream>>
  BY <1>1 DEF SetRights, Widen, Widened
<1> QED BY <1>1 DEF ChangeRights

\* Every other step that is not the engine's leaves the feed as it is.
LEMMA FeedFrame ==
  ASSUME SInv, Next, ~ChangeRights, ~Announce, ~(\E sandbox \in Sandboxes : Publish(sandbox))
  PROVE  UNCHANGED feedVars
<1>1. TypeInv
  BY DEF SInv
<1>2. CASE Outside
  BY <1>2 DEF Outside, Tick, Relay, Hangup, Lag, Receive, Validate, Authorize, Decide, Send, Pump
<1>3. CASE EndSessions \/ \E u \in Users : ResetPassword(u) \/ DeleteUser(u) \/ CreateUser(u)
  BY <1>3 DEF EndSessions, ResetPassword, DeleteUser, CreateUser
<1> QED BY <1>1, <1>2, <1>3, HandlerFrame, StepCases

\* The event of the next version.
LEMMA EventTyped ==
  ASSUME SInv, NEW sandbox \in Sandboxes, Publish(sandbox)
  PROVE  /\ unsent' = {Event(sandbox)} /\ Event(sandbox) \in EventRecord
         /\ Event(sandbox).version = Len(feed) + 1
         /\ UNCHANGED <<clock, tableVars, feed, rightVars, stream>>
<1>1. unsent = {} /\ unsent' = {Event(sandbox)} /\ UNCHANGED <<clock, tableVars, feed, rightVars, stream>>
  BY DEF Publish, WriterFree
<1>2. Len(feed) \in Nat /\ tokens \in Nat
  BY DEF SInv, TypeInv
<1>3. Published = Len(feed)
  BY <1>1, <1>2, FS_EmptySet DEF Published
<1>4. MaySee([sandbox |-> sandbox], readers, admins, owner) \in SUBSET Users
  BY DEF MaySee
<1>5. {t \in 1 .. tokens : t \notin DOMAIN sessions \/ clock >= sessions[t].expires} \in SUBSET Nat
  BY <1>2
<1>6. Published + 1 = Len(feed) + 1 /\ Published + 1 \in Nat
  BY <1>2, <1>3
<1> QED BY <1>1, <1>4, <1>5, <1>6 DEF Event, EventRecord

LEMMA FeedTyped ==
  ASSUME SInv, Next
  PROVE  feed' \in Seq(EventRecord) /\ unsent' \subseteq EventRecord
<1>0. TypeInv /\ feed \in Seq(EventRecord) /\ unsent \subseteq EventRecord
  BY DEF SInv, TypeInv
<1>1. CASE ChangeRights
  <2>1. \A i \in DOMAIN feed : feed[i] \in EventRecord
    BY <1>0
  <2>2. DOMAIN feed = 1 .. Len(feed) /\ Len(feed) \in Nat
    BY <1>0
  <2>3. feed' \in [1 .. Len(feed) -> EventRecord]
    BY <1>0, <1>1, <2>1, <2>2, RightsChange, Widens
  <2>4. feed' \in Seq(EventRecord)
    BY <2>2, <2>3
  <2> QED BY <1>0, <1>1, <2>4, RightsChange, Widens
<1>2. CASE Announce
  BY <1>0, <1>2 DEF Announce
<1>3. CASE \E sandbox \in Sandboxes : Publish(sandbox)
  BY <1>0, <1>3, EventTyped
<1> QED BY <1>0, <1>1, <1>2, <1>3, FeedFrame DEF feedVars

\* Events are never lost; they keep their versions and the tokens ended before
\* them, and more users may see them.
FeedStep ==
    /\ Len(feed') >= Len(feed)
    /\ \A i \in DOMAIN feed : /\ feed'[i].version = feed[i].version
                              /\ feed'[i].ended = feed[i].ended
                              /\ feed[i].may \subseteq feed'[i].may

LEMMA FeedSteps ==
  ASSUME SInv, Next
  PROVE  FeedStep
<1>0. TypeInv /\ feed \in Seq(EventRecord) /\ unsent \subseteq EventRecord /\ Len(feed) \in Nat
  BY DEF SInv, TypeInv
<1>1. CASE ChangeRights
  <2>1. \A i \in DOMAIN feed : feed[i] \in EventRecord
    BY <1>0
  <2>2. Len(feed') = Len(feed)
    <3>1. feed' \in Seq(EventRecord) /\ DOMAIN feed' = DOMAIN feed
      BY <1>0, <1>1, RightsChange, FeedTyped
    <3> QED BY <1>0, <3>1
  <2>3. \A i \in DOMAIN feed : feed'[i] = Widened(feed[i])
    BY <1>0, <1>1, RightsChange
  <2> QED BY <1>0, <2>1, <2>2, <2>3, Widens DEF FeedStep
<1>2. CASE Announce
  <2>1. PICK e \in unsent : feed' = Append(feed, e)
    BY <1>2 DEF Announce
  <2> QED BY <1>0, <2>1 DEF FeedStep
<1>3. CASE \E sandbox \in Sandboxes : Publish(sandbox)
  <2>1. feed' = feed
    BY <1>3, EventTyped
  <2> QED BY <1>0, <2>1 DEF FeedStep
<1>4. CASE ~ChangeRights /\ ~Announce /\ ~(\E sandbox \in Sandboxes : Publish(sandbox))
  <2>1. feed' = feed
    BY <1>4, FeedFrame DEF feedVars
  <2> QED BY <1>0, <2>1 DEF FeedStep
<1> QED BY <1>1, <1>2, <1>3, <1>4

-----------------------------------------------------------------------------
(* The stream.                                                              *)

\* What the subscriber does of its own.
LEMMA StreamFrame ==
  ASSUME SInv, Next, ~Relay, ~Hangup, \A c \in Clients : ~OpenStream(c)
  PROVE  UNCHANGED stream
<1>1. TypeInv
  BY DEF SInv
<1>2. CASE Outside
  <2>1. \A rs, as, o : SetRights(rs, as, o) => UNCHANGED stream
    BY DEF SetRights
  <2>2. ChangeRights => UNCHANGED stream
    BY <2>1 DEF ChangeRights
  <2> QED BY <1>2, <2>2 DEF Outside, Tick, Publish, Announce
<1>3. CASE EndSessions \/ \E u \in Users : ResetPassword(u) \/ DeleteUser(u) \/ CreateUser(u)
  BY <1>3 DEF EndSessions, ResetPassword, DeleteUser, CreateUser
<1> QED BY <1>1, <1>2, <1>3, HandlerFrame, StepCases

\* The subscriber's steps: nothing else changes, and its session and its user
\* stay.
LEMMA RelayFrame ==
  ASSUME SInv, Relay \/ Hangup
  PROVE  UNCHANGED <<clock, tableVars, rightVars, feedVars>> /\ stream \in Subscriber
<1>1. UNCHANGED <<clock, tableVars, rightVars, feedVars>>
  BY DEF Relay, Hangup, Lag, Receive, Validate, Authorize, Decide, Send, Pump
<1>2. stream # Closed
  BY DEF Relay, Hangup, Lag, Receive, Validate, Authorize, Decide, Send, Closed
<1> QED BY <1>1, <1>2 DEF SInv, TypeInv

LEMMA StreamStays ==
  ASSUME SInv, Next, UNCHANGED stream
  PROVE  stream' \in {Closed} \cup Subscriber /\ StreamInv'
<1>1. /\ stream \in {Closed} \cup Subscriber /\ StreamInv
      /\ feed \in Seq(EventRecord) /\ Len(feed) \in Nat /\ DOMAIN feed = 1 .. Len(feed) /\ tokens \in Nat
  BY DEF SInv, TypeInv
<1>2. tokens' \in Nat /\ tokens' >= tokens
  BY Tables DEF TableStep
<1>3. FeedStep /\ feed' \in Seq(EventRecord) /\ Len(feed') \in Nat
  BY FeedSteps, FeedTyped
<1>4. CASE stream = Closed
  BY <1>4 DEF StreamInv
<1>5. CASE stream \in Subscriber
  <2>1. /\ stream.token \in Nat /\ stream.next \in Nat
    BY <1>5 DEF Subscriber
  <2>2. /\ stream.token \in 1 .. tokens /\ stream.next \in 1 .. Len(feed) + 1
        /\ stream.last < stream.next
        /\ stream.pc # "open" => stream.next <= Len(feed)
    BY <1>1, <1>5 DEF StreamInv, SubscriberOK, Subscriber, Closed
  <2>3. stream.token \in 1 .. tokens' /\ stream.next \in 1 .. Len(feed') + 1
    BY <1>1, <1>2, <1>3, <2>1, <2>2 DEF FeedStep
  <2>4. stream.pc # "open" => stream.next <= Len(feed') /\ stream.next \in DOMAIN feed
    BY <1>1, <1>3, <2>1, <2>2 DEF FeedStep
  <2>5. stream.pc # "open" => /\ feed'[stream.next].ended = feed[stream.next].ended
                              /\ feed[stream.next].may \subseteq feed'[stream.next].may
    BY <1>3, <2>4 DEF FeedStep
  <2> QED BY <1>1, <1>5, <2>2, <2>3, <2>4, <2>5 DEF StreamInv, SubscriberOK, Subscriber, Closed
<1> QED BY <1>1, <1>4, <1>5

\* A token that is valid now opened something when the event was published.
LEMMA ValidNotEnded ==
  ASSUME SInv, NEW token, IsValid(sessions, token, clock), NEW i \in DOMAIN feed
  PROVE  token \notin feed[i].ended
<1>1. token \in DOMAIN sessions /\ clock < sessions[token].expires
  <2>1. token \in DOMAIN sessions /\ ~Expired(sessions[token], clock)
    BY DEF IsValid
  <2>2. sessions[token] \in Session /\ clock \in Nat
    BY <2>1 DEF SInv, TypeInv
  <2> QED BY <2>1, <2>2 DEF Expired, Session
<1>2. token \in feed[i].ended => clock >= sessions[token].expires
  BY <1>1 DEF SInv, FeedInv, EventInv, EventOK
<1>3. sessions[token].expires \in Nat /\ clock \in Nat
  BY <1>1 DEF SInv, TypeInv, Session
<1> QED BY <1>1, <1>2, <1>3

\* Who is told of an event now may see it.
LEMMA DeliverableMay ==
  ASSUME SInv, NEW i \in DOMAIN feed, NEW u \in Users, NEW isAdmin \in BOOLEAN,
         Deliverable(feed[i], u, isAdmin, readers, owner), isAdmin => u \in feed[i].may
  PROVE  u \in feed[i].may
<1>1. MaySee(feed[i], readers, admins, owner) \subseteq feed[i].may
  BY DEF SInv, FeedInv, EventInv, EventOK
<1>2. ~isAdmin => u \in MaySee(feed[i], readers, admins, owner)
  BY DEF MaySee, Deliverable
<1> QED BY <1>1, <1>2

LEMMA OldestIsThere ==
  ASSUME NEW s \in Seq(EventRecord)
  PROVE  Oldest(s) \in Nat /\ Oldest(s) >= 1 /\ Oldest(s) <= Len(s) + 1
  BY CapacityAssumption DEF Oldest

LEMMA RelaySteps ==
  ASSUME SInv, Relay
  PROVE  stream' = Closed \/ (stream' \in Subscriber /\ SubscriberOK(stream'))
<1>1. /\ feed \in Seq(EventRecord) /\ Len(feed) \in Nat /\ DOMAIN feed = 1 .. Len(feed)
      /\ tokens \in Nat
  BY DEF SInv, TypeInv
<1>2. stream \in Subscriber /\ SubscriberOK(stream)
  <2>1. stream \in Subscriber
    BY RelayFrame
  <2> QED BY <2>1 DEF SInv, StreamInv, Subscriber, Closed
<1>3. /\ stream.token \in Nat /\ stream.next \in Nat /\ stream.last \in Nat /\ stream.lost \in Nat
      /\ stream.user \in Users /\ stream.isAdmin \in BOOLEAN
  BY <1>2 DEF Subscriber
<1>4. CASE Lag
  <2>1. stream' = [stream EXCEPT !.next = Oldest(feed), !.lost = Oldest(feed) - 1]
        /\ stream.pc = "open" /\ stream.next < Oldest(feed)
    BY <1>4 DEF Lag, Pump, Lags
  <2>2. Oldest(feed) \in Nat /\ Oldest(feed) - 1 \in Nat /\ Oldest(feed) \in 1 .. Len(feed) + 1
    BY <1>1, OldestIsThere
  <2>3. stream' \in Subscriber /\ stream'.pc = "open" /\ stream'.token = stream.token
        /\ stream'.next = Oldest(feed) /\ stream'.last = stream.last
    BY <1>2, <2>1, <2>2 DEF Subscriber
  <2>4. stream.last < Oldest(feed)
    BY <1>2, <1>3, <2>1, <2>2 DEF SubscriberOK
  <2> QED BY <1>2, <2>2, <2>3, <2>4 DEF SubscriberOK
<1>5. CASE Receive
  <2>1. stream' = [stream EXCEPT !.pc = "validate"] /\ stream.next <= Len(feed)
    BY <1>5 DEF Receive, Pump
  <2>2. stream' \in Subscriber /\ stream'.pc = "validate" /\ stream'.token = stream.token
        /\ stream'.next = stream.next /\ stream'.last = stream.last
    BY <1>2, <2>1 DEF Subscriber
  <2> QED BY <1>2, <2>1, <2>2 DEF SubscriberOK
<1>6. CASE Validate
  <2>1. CASE ~IsValid(sessions, stream.token, clock)
    BY <1>6, <2>1 DEF Validate, Pump
  <2>2. CASE IsValid(sessions, stream.token, clock)
    <3>1. stream' = [stream EXCEPT !.pc = "authorize"] /\ stream.pc = "validate"
      BY <1>6, <2>2 DEF Validate, Pump
    <3>2. stream' \in Subscriber /\ stream'.pc = "authorize" /\ stream'.token = stream.token
          /\ stream'.next = stream.next /\ stream'.last = stream.last
      BY <1>2, <3>1 DEF Subscriber
    <3>3. stream.next <= Len(feed) /\ stream.next \in DOMAIN feed
      BY <1>1, <1>2, <1>3, <3>1 DEF SubscriberOK
    <3>4. stream.token \notin feed[stream.next].ended
      BY <2>2, <3>3, ValidNotEnded
    <3> QED BY <1>2, <3>2, <3>3, <3>4 DEF SubscriberOK
  <2> QED BY <2>1, <2>2
<1>7. CASE Authorize
  <2>1. stream' = [stream EXCEPT !.pc = "decide", !.isAdmin = (stream.user \in admins)]
        /\ stream.pc = "authorize"
    BY <1>7 DEF Authorize, Pump
  <2>2. stream' \in Subscriber /\ stream'.pc = "decide" /\ stream'.token = stream.token
        /\ stream'.next = stream.next /\ stream'.last = stream.last /\ stream'.user = stream.user
        /\ (stream'.isAdmin <=> stream.user \in admins)
    <3> DEFINE flag == stream.user \in admins
    <3>1. flag \in BOOLEAN
      OBVIOUS
    <3>2. stream' = [stream EXCEPT !.pc = "decide", !.isAdmin = flag]
      BY <2>1
    <3> HIDE DEF flag
    <3>3. stream' \in Subscriber /\ stream'.pc = "decide" /\ stream'.token = stream.token
          /\ stream'.next = stream.next /\ stream'.last = stream.last /\ stream'.user = stream.user
          /\ stream'.isAdmin = flag
      BY <1>2, <3>1, <3>2 DEF Subscriber
    <3> QED BY <3>1, <3>3 DEF flag
  <2>3. /\ stream.next <= Len(feed) /\ stream.next \in DOMAIN feed
        /\ stream.token \notin feed[stream.next].ended
    BY <1>1, <1>2, <1>3, <2>1 DEF SubscriberOK
  <2>4. stream.user \in admins => stream.user \in feed[stream.next].may
    <3>1. stream.user \in admins => stream.user \in MaySee(feed[stream.next], readers, admins, owner)
      BY <1>3 DEF MaySee, Deliverable
    <3> QED BY <2>3, <3>1 DEF SInv, FeedInv, EventInv, EventOK
  <2> QED BY <1>2, <2>2, <2>3, <2>4 DEF SubscriberOK
<1>8. CASE Decide
  <2>0. /\ stream.pc = "decide" /\ stream.next <= Len(feed) /\ stream.next \in DOMAIN feed
        /\ stream.token \notin feed[stream.next].ended
        /\ stream.isAdmin => stream.user \in feed[stream.next].may
    <3>1. stream.pc = "decide"
      BY <1>8 DEF Decide
    <3> QED BY <1>1, <1>2, <1>3, <3>1 DEF SubscriberOK
  <2>1. CASE Deliverable(feed[stream.next], stream.user, stream.isAdmin, readers, owner)
    <3>1. stream' = [stream EXCEPT !.pc = "send"]
      BY <1>8, <2>1 DEF Decide, Pump
    <3>2. stream' \in Subscriber /\ stream'.pc = "send" /\ stream'.token = stream.token
          /\ stream'.next = stream.next /\ stream'.last = stream.last /\ stream'.user = stream.user
      BY <1>2, <3>1 DEF Subscriber
    <3>3. stream.user \in feed[stream.next].may
      BY <1>3, <2>0, <2>1, DeliverableMay
    <3> QED BY <1>2, <2>0, <3>2, <3>3 DEF SubscriberOK
  <2>2. CASE ~Deliverable(feed[stream.next], stream.user, stream.isAdmin, readers, owner)
    <3>1. stream' = [stream EXCEPT !.pc = "open", !.next = stream.next + 1]
      BY <1>8, <1>2, <2>2 DEF Decide, Pump, Skip, Subscriber
    <3>2. stream.next + 1 \in Nat
      BY <1>3
    <3>3. stream' \in Subscriber /\ stream'.pc = "open" /\ stream'.token = stream.token
          /\ stream'.next = stream.next + 1 /\ stream'.last = stream.last
      BY <1>2, <3>1, <3>2 DEF Subscriber
    <3>4. stream.next + 1 \in 1 .. Len(feed) + 1 /\ stream.last < stream.next + 1
      BY <1>1, <1>2, <1>3, <2>0 DEF SubscriberOK
    <3> QED BY <1>2, <3>3, <3>4 DEF SubscriberOK
  <2> QED BY <2>1, <2>2
<1>9. CASE Send
  <2>0. stream.pc = "send"
    BY <1>9 DEF Send
  <2>1. stream.next <= Len(feed) /\ stream.next \in DOMAIN feed
    BY <1>1, <1>2, <1>3, <2>0 DEF SubscriberOK
  <2>2. feed[stream.next].version = stream.next
    BY <2>1 DEF SInv, FeedInv
  <2>3. stream' = [stream EXCEPT !.pc = "open", !.next = stream.next + 1, !.last = stream.next]
    BY <1>2, <1>9, <2>2 DEF Send, Pump, Skip, Subscriber
  <2>4. stream.next + 1 \in Nat
    BY <1>3
  <2>5. stream' \in Subscriber /\ stream'.pc = "open" /\ stream'.token = stream.token
        /\ stream'.next = stream.next + 1 /\ stream'.last = stream.next
    BY <1>2, <1>3, <2>3, <2>4 DEF Subscriber
  <2>6. stream.next + 1 \in 1 .. Len(feed) + 1 /\ stream.next < stream.next + 1
    BY <1>1, <1>3, <2>1
  <2> QED BY <1>2, <2>5, <2>6 DEF SubscriberOK
<1> QED BY <1>4, <1>5, <1>6, <1>7, <1>8, <1>9 DEF Relay

LEMMA StreamSteps ==
  ASSUME SInv, Next
  PROVE  stream' \in {Closed} \cup Subscriber /\ StreamInv'
<1>0. /\ TypeInv /\ feed \in Seq(EventRecord) /\ Len(feed) \in Nat /\ tokens \in Nat
  BY DEF SInv, TypeInv
<1>1. ASSUME NEW c \in Clients, OpenStream(c)
      PROVE  stream' \in {Closed} \cup Subscriber /\ StreamInv'
  <2>1. /\ stream' = Opened(req[c].user, req[c].token) /\ UNCHANGED <<tokens, feed>>
        /\ req[c] \in TokenReq /\ req[c].token \in 1 .. tokens
    BY <1>0, <1>1, RequestOf DEF OpenStream, TokenPcs, tableVars, feedVars, SInv, RequestInv, RequestOK, RequestAt
  <2>2. req[c].user \in Users /\ req[c].token \in Nat
    BY <2>1 DEF TokenReq
  <2>3. stream' \in Subscriber
    BY <1>0, <2>1, <2>2 DEF Opened, Subscriber
  <2>4. /\ stream'.pc = "open" /\ stream'.token \in 1 .. tokens' /\ stream'.last = 0
        /\ stream'.next = Len(feed') + 1
    BY <2>1 DEF Opened
  <2>5. stream'.next \in 1 .. Len(feed') + 1 /\ stream'.last < stream'.next
    BY <1>0, <2>1, <2>4
  <2> QED BY <2>3, <2>4, <2>5 DEF StreamInv, SubscriberOK
<1>2. CASE Hangup
  BY <1>2 DEF Hangup, Pump, StreamInv
<1>3. CASE Relay
  <2>1. UNCHANGED <<tokens, feed>>
    BY <1>3, RelayFrame DEF tableVars, feedVars
  <2> QED BY <1>3, <2>1, RelaySteps DEF StreamInv, SubscriberOK
<1>4. CASE ~Relay /\ ~Hangup /\ \A c \in Clients : ~OpenStream(c)
  BY <1>4, StreamFrame, StreamStays
<1> QED BY <1>1, <1>2, <1>3, <1>4

-----------------------------------------------------------------------------
(* Who may see an event, and who no longer could.                           *)

LEMMA ClockGrows ==
  ASSUME SInv, Next
  PROVE  clock \in Nat /\ clock' \in Nat /\ clock' >= clock
<1>1. TypeInv /\ clock \in Nat
  BY DEF SInv, TypeInv
<1>2. CASE EndSessions \/ \E u \in Users : ResetPassword(u) \/ DeleteUser(u) \/ CreateUser(u)
  <2>1. clock' = clock
    BY <1>2 DEF EndSessions, ResetPassword, DeleteUser, CreateUser
  <2> QED BY <1>1, <2>1
<1>3. ASSUME NEW c \in Clients, Arrive(c) \/ Step(c)
      PROVE  clock' \in Nat /\ clock' >= clock
  <2>1. clock' = clock
    BY <1>1, <1>3, HandlerFrame
  <2> QED BY <1>1, <2>1
<1> QED BY <1>1, <1>2, <1>3, OutsideFrame, StepCases

\* A token that opened nothing opens nothing.
LEMMA EndedStays ==
  ASSUME SInv, Next, NEW t \in Nat, t <= tokens,
         t \in DOMAIN sessions => clock >= sessions[t].expires
  PROVE  t <= tokens' /\ (t \in DOMAIN sessions' => clock' >= sessions'[t].expires)
<1>1. /\ tokens \in Nat /\ tokens' \in Nat /\ tokens' >= tokens
      /\ t \in DOMAIN sessions' => t \in DOMAIN sessions /\ sessions'[t].expires = sessions[t].expires
  BY Tables DEF TableStep, SInv, TypeInv
<1>2. clock \in Nat /\ clock' \in Nat /\ clock' >= clock
  BY ClockGrows
<1>3. t \in DOMAIN sessions => sessions[t].expires \in Nat
  BY DEF SInv, TypeInv, Session
<1> QED BY <1>1, <1>2, <1>3

Later(e) == EventOK(e, readers', admins', owner', tokens', sessions', clock')

LEMMA LaterFeed ==
  ASSUME \A i \in DOMAIN feed' : feed'[i].version = i /\ Later(feed'[i]),
         \A e \in unsent' : unsent' = {e} /\ e.version = Len(feed') + 1 /\ Later(e)
  PROVE  FeedInv'
  BY DEF FeedInv, EventInv, Later

LEMMA EventStays ==
  ASSUME SInv, Next, NEW e \in EventRecord, EventInv(e),
         readers' \subseteq readers, admins' \subseteq admins, owner' = owner
  PROVE  Later(e)
<1>1. MaySee(e, readers', admins', owner') \subseteq e.may
  BY DEF EventInv, EventOK, MaySee, Deliverable
<1>2. \A t \in e.ended : t \in Nat /\ t <= tokens' /\ (t \in DOMAIN sessions' => clock' >= sessions'[t].expires)
  BY EndedStays DEF EventInv, EventOK, EventRecord
<1> QED BY <1>1, <1>2 DEF Later, EventOK

LEMMA FeedStays ==
  ASSUME SInv, Next
  PROVE  FeedInv'
<1>0. /\ TypeInv /\ FeedInv /\ feed \in Seq(EventRecord) /\ unsent \subseteq EventRecord
      /\ Len(feed) \in Nat /\ DOMAIN feed = 1 .. Len(feed)
      /\ \A i \in DOMAIN feed : feed[i] \in EventRecord
  BY DEF SInv, TypeInv
<1>1. CASE ChangeRights
  <2>1. \A e \in EventRecord : EventInv(e) => Later(Widened(e))
    <3>1. SUFFICES ASSUME NEW e \in EventRecord, EventInv(e)
                   PROVE  Later(Widened(e))
      OBVIOUS
    <3>2. UNCHANGED <<clock, tableVars>>
      BY <1>0, <1>1, RightsChange
    <3>3. MaySee(Widened(e), readers', admins', owner') \subseteq Widened(e).may /\ Widened(e).ended = e.ended
      BY Widens
    <3>4. \A t \in e.ended : t <= tokens' /\ (t \in DOMAIN sessions' => clock' >= sessions'[t].expires)
      BY <3>1, <3>2 DEF EventInv, EventOK, tableVars
    <3> QED BY <3>3, <3>4 DEF Later, EventOK
  <2>2. DOMAIN feed' = DOMAIN feed /\ (\A i \in DOMAIN feed : feed'[i] = Widened(feed[i]))
        /\ unsent' = {Widened(e) : e \in unsent}
    BY <1>0, <1>1, RightsChange
  <2>3. Len(feed') = Len(feed)
    <3>1. feed' \in Seq(EventRecord)
      BY FeedTyped
    <3> QED BY <1>0, <2>2, <3>1
  <2>4. \A i \in DOMAIN feed' : feed'[i].version = i /\ Later(feed'[i])
    BY <1>0, <2>1, <2>2, Widens DEF FeedInv
  <2>5. \A e \in unsent' : unsent' = {e} /\ e.version = Len(feed') + 1 /\ Later(e)
    BY <1>0, <2>1, <2>2, <2>3, Widens DEF FeedInv
  <2> QED BY <2>4, <2>5, LaterFeed
<1>2. CASE Announce
  <2>1. PICK e \in unsent : feed' = Append(feed, e) /\ unsent' = unsent \ {e}
    BY <1>2 DEF Announce
  <2>2. unsent' = {} /\ e.version = Len(feed) + 1 /\ EventInv(e) /\ e \in EventRecord
    BY <1>0, <2>1 DEF FeedInv
  <2>3. /\ DOMAIN feed' = 1 .. Len(feed) + 1 /\ feed'[Len(feed) + 1] = e
        /\ \A i \in 1 .. Len(feed) : feed'[i] = feed[i]
    BY <1>0, <2>1
  <2>4. UNCHANGED rightVars
    BY <1>2 DEF Announce
  <2>5. \A i \in 1 .. Len(feed) : feed[i].version = i /\ Later(feed[i])
    BY <1>0, <2>4, EventStays DEF FeedInv, rightVars
  <2>6. Later(e)
    BY <2>2, <2>4, EventStays DEF rightVars
  <2>7. \A i \in DOMAIN feed' : feed'[i].version = i /\ Later(feed'[i])
    BY <1>0, <2>2, <2>3, <2>5, <2>6
  <2> QED BY <2>2, <2>7, LaterFeed
<1>3. ASSUME NEW sandbox \in Sandboxes, Publish(sandbox)
      PROVE  FeedInv'
  <2>1. /\ unsent' = {Event(sandbox)} /\ Event(sandbox) \in EventRecord
        /\ Event(sandbox).version = Len(feed) + 1
        /\ UNCHANGED <<clock, tableVars, feed, rightVars>>
    BY <1>3, EventTyped
  <2>2. MaySee(Event(sandbox), readers, admins, owner) \subseteq Event(sandbox).may
    <3>1. Event(sandbox).may = MaySee([sandbox |-> sandbox], readers, admins, owner)
          /\ Event(sandbox).sandbox = sandbox
      BY DEF Event
    <3> QED BY <3>1 DEF MaySee, Deliverable
  <2>3. \A t \in Event(sandbox).ended : t <= tokens /\ (t \in DOMAIN sessions => clock >= sessions[t].expires)
    BY <1>0 DEF Event, TypeInv
  <2>4. Later(Event(sandbox))
    <3>1. UNCHANGED <<clock, tokens, sessions, readers, admins, owner>>
      BY <2>1 DEF tableVars, rightVars
    <3> DEFINE e == Event(sandbox)
    <3>2. /\ MaySee(e, readers', admins', owner') \subseteq e.may
          /\ \A t \in e.ended : t <= tokens' /\ (t \in DOMAIN sessions' => clock' >= sessions'[t].expires)
      BY <2>2, <2>3, <3>1
    <3> QED BY <3>2 DEF Later, EventOK
  <2>5. UNCHANGED rightVars /\ UNCHANGED feed
    BY <2>1
  <2>6. \A i \in DOMAIN feed' : feed'[i].version = i /\ Later(feed'[i])
    BY <1>0, <2>5, EventStays DEF FeedInv, rightVars
  <2>7. \A e \in unsent' : unsent' = {e} /\ e.version = Len(feed') + 1 /\ Later(e)
    BY <2>1, <2>4
  <2> QED BY <2>6, <2>7, LaterFeed
<1>4. ASSUME readers' \subseteq readers, admins' \subseteq admins, owner' = owner, UNCHANGED feedVars
      PROVE  FeedInv'
  <2>1. UNCHANGED <<feed, unsent>>
    BY <1>4 DEF feedVars
  <2>2. \A i \in DOMAIN feed' : feed'[i].version = i /\ Later(feed'[i])
    BY <1>0, <1>4, <2>1, EventStays DEF FeedInv
  <2>3. \A e \in unsent' : unsent' = {e} /\ e.version = Len(feed') + 1 /\ Later(e)
    BY <1>0, <1>4, <2>1, EventStays DEF FeedInv
  <2> QED BY <2>2, <2>3, LaterFeed
<1>5. CASE ~ChangeRights /\ ~Announce /\ ~(\E sandbox \in Sandboxes : Publish(sandbox))
  <2>1. UNCHANGED feedVars
    BY <1>5, FeedFrame
  <2>2. CASE Outside
    <3>1. UNCHANGED rightVars
      BY <1>5, <2>2 DEF Outside, Tick, Relay, Hangup, Lag, Receive, Validate, Authorize, Decide, Send, Pump
    <3> QED BY <1>4, <2>1, <3>1 DEF rightVars
  <2>3. ASSUME NEW c \in Clients, Arrive(c) \/ Step(c)
        PROVE  FeedInv'
    <3>1. UNCHANGED rightVars
      BY <1>0, <2>3, HandlerFrame
    <3> QED BY <1>4, <2>1, <3>1 DEF rightVars
  <2>4. ASSUME NEW u \in Users, ResetPassword(u) \/ DeleteUser(u) \/ CreateUser(u)
        PROVE  readers' \subseteq readers /\ admins' \subseteq admins /\ owner' = owner
    BY <2>4 DEF ResetPassword, DeleteUser, CreateUser, rightVars
  <2>5. CASE EndSessions
    <3>1. UNCHANGED rightVars
      BY <2>5 DEF EndSessions
    <3> QED BY <1>4, <2>1, <3>1 DEF rightVars
  <2> QED BY <1>4, <2>1, <2>2, <2>3, <2>4, <2>5, StepCases
<1> QED BY <1>1, <1>2, <1>3, <1>5

LEMMA TypeStays ==
  ASSUME SInv, Next
  PROVE  TypeInv'
<1>1. /\ tokens' \in Nat /\ DOMAIN sessions' \subseteq 1 .. tokens'
      /\ sessions' \in [DOMAIN sessions' -> Session] /\ ghost' \in History(tokens')
  BY Tables DEF TableStep
<1> QED BY <1>1, ClockGrows, AuthTyped, GuardTyped, RequestsTyped, FeedTyped, StreamSteps DEF TypeInv

LEMMA TableStays ==
  ASSUME SInv, Next
  PROVE  TableInv'
<1>1. TableStep /\ clock \in Nat /\ clock' \in Nat /\ clock' >= clock /\ tokens \in Nat
  BY Tables, ClockGrows DEF SInv, TypeInv
<1>2. SUFFICES ASSUME NEW t \in DOMAIN sessions'
               PROVE  sessions'[t].seen <= clock' /\ sessions'[t].seen <= ghost'.active[t]
  BY DEF TableInv
<1>3. sessions'[t].seen \in Nat /\ ghost'.active[t] \in Nat
  BY <1>1 DEF TableStep, Session, History
<1>4. CASE t \in DOMAIN sessions /\ sessions'[t].seen = sessions[t].seen
  <2>1. sessions[t].seen <= clock /\ sessions[t].seen <= ghost.active[t]
    BY <1>4 DEF SInv, TableInv
  <2>2. t \in 1 .. tokens /\ ghost.active[t] \in Nat
    BY <1>4 DEF SInv, TypeInv, History
  <2>3. ghost'.active[t] >= ghost.active[t]
    BY <1>1, <2>2 DEF TableStep
  <2> QED BY <1>1, <1>3, <1>4, <2>1, <2>2, <2>3
<1>5. CASE sessions'[t].seen <= clock /\ sessions'[t].seen <= ghost'.active[t]
  BY <1>1, <1>3, <1>5
<1> QED BY <1>1, <1>4, <1>5 DEF TableStep

-----------------------------------------------------------------------------
(* The guard counts what failed.                                            *)

LEMMA GuardStays ==
  ASSUME SInv, Next
  PROVE  GuardInv'
<1>0. /\ TypeInv /\ GuardInv /\ DOMAIN guard \subseteq Users /\ guard \in [DOMAIN guard -> Entry]
      /\ ghost \in History(tokens) /\ tokens \in Nat
      /\ ghost.failed \in [Users -> [n : Nat, last : Nat]]
  BY DEF SInv, TypeInv, History
<1>1. ASSUME UNCHANGED guard, ghost'.failed = ghost.failed
      PROVE  GuardInv'
  BY <1>0, <1>1 DEF GuardInv
<1>2. CASE Outside
  BY <1>0, <1>1, <1>2, OutsideFrame DEF authVars
<1>3. CASE EndSessions \/ \E u \in Users : ResetPassword(u) \/ DeleteUser(u) \/ CreateUser(u)
  BY <1>1, <1>3 DEF EndSessions, ResetPassword, DeleteUser, CreateUser, authVars
<1>4. ASSUME NEW u \in Users, NEW now \in Nat, Fail(u, now)
      PROVE  GuardInv'
  <2>1. /\ ghost'.failed[u] = [n |-> ghost.failed[u].n + 1, last |-> Max2(ghost.failed[u].last, now)]
        /\ \A v \in Users : v # u => ghost'.failed[v] = ghost.failed[v]
    BY <1>0, <1>4, FailTyped
  <2> DEFINE h == RecordFailure(guard, u, now)
  <2>2. guard' = h
    BY <1>4 DEF Fail
  <2>3. /\ DOMAIN h \subseteq Users
        /\ \A v \in DOMAIN h : v # u => v \in DOMAIN guard /\ h[v] = guard[v]
        /\ u \in DOMAIN h =>
             \/ u \in DOMAIN guard /\ h[u] = guard[u] /\ Disabled
             \/ /\ \/ h[u].failures = 1
                   \/ u \in DOMAIN guard /\ h[u].failures = guard[u].failures + 1
                /\ \/ h[u].failures >= MaxFailures /\ h[u].until = now + LockoutMillis
                   \/ h[u].until = 0
                   \/ /\ u \in DOMAIN guard /\ h[u].until = guard[u].until
                      /\ h[u].failures = guard[u].failures + 1
    BY <1>0, <1>4, AfterFailure
  <2> HIDE DEF h
  <2>4. ASSUME NEW v \in DOMAIN h, v # u
        PROVE  /\ h[v].failures <= ghost'.failed[v].n
               /\ h[v].until # 0 => /\ h[v].failures >= MaxFailures
                                    /\ h[v].until <= ghost'.failed[v].last + LockoutMillis
    BY <1>0, <2>1, <2>3, <2>4 DEF GuardInv
  <2>5. ASSUME u \in DOMAIN h
        PROVE  /\ h[u].failures <= ghost'.failed[u].n
               /\ h[u].until # 0 => /\ h[u].failures >= MaxFailures
                                    /\ h[u].until <= ghost'.failed[u].last + LockoutMillis
    <3>1. /\ ghost.failed[u].n \in Nat /\ ghost.failed[u].last \in Nat
          /\ u \in DOMAIN guard => guard[u].failures \in Nat /\ guard[u].until \in Nat
          /\ LockoutMillis \in Nat /\ MaxFailures \in Nat
      BY <1>0, GuardAssumption DEF Entry
    <3>2. /\ ghost'.failed[u].n = ghost.failed[u].n + 1
          /\ ghost'.failed[u].last \in Nat /\ ghost'.failed[u].last >= ghost.failed[u].last
          /\ ghost'.failed[u].last >= now
      BY <1>4, <2>1, <3>1 DEF Max2
    <3>3. u \in DOMAIN guard => /\ guard[u].failures <= ghost.failed[u].n
                                /\ guard[u].until # 0 => /\ guard[u].failures >= MaxFailures
                                                         /\ guard[u].until <= ghost.failed[u].last + LockoutMillis
      BY <1>0 DEF GuardInv
    <3>4. h[u].failures <= ghost'.failed[u].n
      BY <2>3, <2>5, <3>1, <3>2, <3>3
    <3>5. h[u].until # 0 => h[u].failures >= MaxFailures
      BY <2>3, <2>5, <3>1, <3>3
    <3>6. h[u].until # 0 => h[u].until <= ghost'.failed[u].last + LockoutMillis
      BY <1>4, <2>3, <2>5, <3>1, <3>2, <3>3
    <3> QED BY <3>4, <3>5, <3>6
  <2> QED BY <2>2, <2>4, <2>5 DEF GuardInv
<1>5. ASSUME NEW u \in Users, Succeed(u)
      PROVE  GuardInv'
  <2>1. /\ DOMAIN guard' = DOMAIN guard \ {u}
        /\ \A v \in DOMAIN guard' : guard'[v] = guard[v]
        /\ \A v \in Users : v # u => ghost'.failed[v] = ghost.failed[v]
    BY <1>0, <1>5, SucceedTyped
  <2> QED BY <1>0, <2>1 DEF GuardInv
<1>6. ASSUME NEW c \in Clients, Arrive(c) \/ Step(c)
      PROVE  GuardInv'
  <2>1. CASE LoginCreate(c)
    <3>1. UNCHANGED guard /\ ghost'.failed = ghost.failed
      BY <2>1, Creates DEF LoginCreate, authVars
    <3> QED BY <1>1, <3>1
  <2>2. CASE Admit(c)
    BY <1>1, <2>2, Admits DEF authVars
  <2>3. CASE Logout(c) \/ ChangeRevoke(c)
    BY <1>1, <2>3 DEF Logout, ChangeRevoke, authVars
  <2>4. CASE Replaces(c)
    BY <1>1, <2>4, Stores
  <2>5. CASE ~LoginCreate(c) /\ ~Admit(c) /\ ~Replaces(c) /\ ~Logout(c) /\ ~ChangeRevoke(c)
    BY <1>1, <1>4, <1>5, <1>6, <2>5, Others
  <2> QED BY <2>1, <2>2, <2>3, <2>4, <2>5
<1> QED BY <1>2, <1>3, <1>6, StepCases

-----------------------------------------------------------------------------
(* How a step moves a request.                                              *)

Moved(r, s) ==
    /\ RequestOK(s)
    /\ s.pc \in TokenPcs =>
          \/ r.pc \in TokenPcs /\ s.token = r.token /\ s.user = r.user
          \/ s.token \in DOMAIN sessions /\ s.user = sessions[s.token].user
    /\ Changing(s) => Changing(r) /\ s.token = r.token /\ s.user = r.user
    /\ Changing(r) => Changing(s) /\ s.token = r.token /\ s.user = r.user
    /\ Proving(s) =>
          \/ Proving(r) /\ s.user = r.user /\ s.hash = r.hash /\ (r.overtaken => s.overtaken)
          \/ s.hash = password[s.user]

LEMMA NotIdle ==
  ASSUME NEW r \in LoginReq \cup TokenReq
  PROVE  r # Idle
<1>1. r.pc # "idle"
  BY DEF LoginReq, TokenReq, TokenPcs
<1> QED BY <1>1 DEF Idle

LEMMA MovedSame ==
  ASSUME SInv, NEW d \in Clients
  PROVE  Moved(req[d], req[d])
<1>1. RequestOK(req[d])
  BY DEF SInv, RequestInv
<1> QED BY <1>1 DEF Moved, Changing, TokenPcs

LEMMA MovedMarked ==
  ASSUME SInv, NEW d \in Clients, NEW u
  PROVE  /\ Moved(req[d], Overtaken(u)[d])
         /\ Proving(Overtaken(u)[d]) /\ Overtaken(u)[d].user = u =>
               Overtaken(u)[d].overtaken \/ Overtaken(u)[d].hash = password[u]
<1>0. TypeInv /\ RequestOK(req[d])
  BY DEF SInv, RequestInv
<1> DEFINE s == Overtaken(u)[d]
<1>1. \/ s = req[d]
      \/ req[d] \in LoginReq /\ s = [req[d] EXCEPT !.overtaken = TRUE]
  BY <1>0, Marks
<1>2. req[d].pc \in {"login verify", "login create"} /\ req[d].user = u =>
          s.overtaken \/ req[d].hash = password[u]
  BY <1>0, Marks
<1> HIDE DEF s
<1>3. CASE s = req[d]
  BY <1>2, <1>3, MovedSame DEF s, Proving
<1>4. CASE req[d] \in LoginReq /\ s = [req[d] EXCEPT !.overtaken = TRUE]
  <2>1. /\ s.pc = req[d].pc /\ s.user = req[d].user /\ s.hash = req[d].hash /\ s.given = req[d].given
        /\ s.now = req[d].now /\ s.overtaken
        /\ s.pc \in {"login", "login hash", "login verify", "login create"}
    BY <1>4 DEF LoginReq
  <2>2. req[d] # Idle
    BY <1>4, NotIdle
  <2>3. RequestOK(s)
    BY <1>0, <2>1, <2>2 DEF RequestOK, RequestAt, TokenPcs
  <2>4. Moved(req[d], s)
    BY <2>1, <2>3 DEF Moved, Changing, Proving, TokenPcs
  <2> QED BY <2>1, <2>4 DEF s
<1> QED BY <1>1, <1>3, <1>4

LEMMA MovedIdle ==
  ASSUME SInv, NEW r, ~Changing(r)
  PROVE  Moved(r, Idle)
  BY DEF Moved, Changing, Proving, RequestOK, RequestAt, TokenPcs, Idle

\* A handler that goes on to its next state with what it carries.
LEMMA MovedOn ==
  ASSUME SInv, NEW c \in Clients, req[c] \in LoginReq \cup TokenReq, NEW s, NEW pc,
         s = [req[c] EXCEPT !.pc = pc],
         \/ req[c] \in LoginReq /\ pc \in {"login", "login hash"}
         \/ req[c] \in LoginReq /\ pc = "login create" /\ Proving(req[c]) /\ req[c].given = req[c].hash
         \/ req[c] \in TokenReq /\ pc \in TokenPcs /\ (pc \in {"change success", "change revoke"} <=> Changing(req[c]))
  PROVE  Moved(req[c], s)
<1>1. RequestOK(req[c])
  BY DEF SInv, RequestInv
<1>2. req[c] # Idle
  BY NotIdle
<1>3. CASE req[c] \in LoginReq
  <2>1. /\ s.pc = pc /\ s.user = req[c].user /\ s.hash = req[c].hash /\ s.given = req[c].given
        /\ s.now = req[c].now /\ s.overtaken = req[c].overtaken
        /\ req[c].pc \in {"login", "login hash", "login verify", "login create"}
    BY <1>3 DEF LoginReq
  <2>2. \/ pc \in {"login", "login hash"}
        \/ pc = "login create" /\ Proving(req[c]) /\ req[c].given = req[c].hash
    BY <1>3 DEF LoginReq, TokenReq, TokenPcs
  <2>3. RequestOK(s)
    BY <1>1, <1>2, <2>1, <2>2 DEF RequestOK, RequestAt, TokenPcs
  <2> QED BY <2>1, <2>2, <2>3 DEF Moved, Changing, Proving, TokenPcs
<1>4. CASE req[c] \in TokenReq
  <2>1. /\ s.pc = pc /\ s.user = req[c].user /\ s.hash = req[c].hash /\ s.given = req[c].given
        /\ s.now = req[c].now /\ s.token = req[c].token
        /\ req[c].pc \in TokenPcs
    BY <1>4 DEF TokenReq
  <2>2. pc \in TokenPcs /\ (pc \in {"change success", "change revoke"} <=> Changing(req[c]))
    BY <1>4 DEF LoginReq, TokenReq, TokenPcs
  <2>3. RequestOK(s)
    BY <1>1, <1>2, <2>1, <2>2 DEF RequestOK, RequestAt, TokenPcs
  <2> QED BY <2>1, <2>2, <2>3 DEF Moved, Changing, Proving, TokenPcs
<1> QED BY <1>3, <1>4

\* Every client's request, but one that just replaced a password and one that
\* just ended the other sessions.
LEMMA RequestMoves ==
  ASSUME SInv, Next, NEW d \in Clients
  PROVE  \/ Moved(req[d], req'[d])
         \/ /\ Replaces(d) /\ RequestOK(req'[d]) /\ Changing(req'[d])
            /\ req'[d].token = req[d].token /\ req'[d].user = req[d].user /\ req[d].pc \in TokenPcs
         \/ ChangeRevoke(d) /\ req'[d] = Idle
<1>0. TypeInv /\ req \in [Clients -> Request] /\ clock \in Nat /\ DOMAIN sessions \subseteq 1 .. tokens
  BY DEF SInv, TypeInv
<1>1. CASE req'[d] = req[d]
  BY <1>1, MovedSame
<1>2. CASE Outside
  BY <1>0, <1>1, <1>2, OutsideFrame
<1>3. CASE EndSessions
  BY <1>3, MovedMarked DEF EndSessions
<1>4. ASSUME NEW u \in Users, ResetPassword(u) \/ DeleteUser(u) \/ CreateUser(u)
      PROVE  req'[d] = req[d]
  BY <1>4 DEF ResetPassword, DeleteUser, CreateUser
<1>5. ASSUME NEW c \in Clients, c # d, Arrive(c) \/ Step(c), ~ChangeRevoke(c)
      PROVE  req'[d] = req[d]
  BY <1>0, <1>5 DEF Arrive, Login, Present, Step, LoginUnlocked, LoginHash, LoginVerify, LoginCreate,
         Admit, Logout, OpenStream, ChangeBegin, ChangeUnlocked, ChangeHash, ChangeVerify, ChangeStore,
         ChangeSuccess, Unlocked, CopyHash, Finish, Goto, Become
<1>6. ASSUME NEW c \in Clients, c # d, ChangeRevoke(c)
      PROVE  Moved(req[d], req'[d])
  <2>1. req'[d] = Overtaken(req[c].user)[d]
    BY <1>0, <1>6, Marks DEF ChangeRevoke
  <2> QED BY <2>1, MovedMarked
<1>7. CASE ChangeRevoke(d)
  <2>1. req'[d] = Idle
    BY <1>0, <1>7, Marks DEF ChangeRevoke
  <2> QED BY <1>7, <2>1
<1>8. CASE Arrive(d)
  <2>1. ASSUME NEW u \in Users, NEW given, Login(d, u, given)
        PROVE  Moved(req[d], req'[d])
    <3>1. req[d] = Idle /\ req'[d] = [pc |-> "login", user |-> u, given |-> given, now |-> clock, hash |-> Gone, overtaken |-> FALSE]
      BY <1>0, <2>1 DEF Login, Become
    <3> QED BY <1>0, <3>1 DEF Moved, Changing, Proving, RequestOK, RequestAt, TokenPcs, Idle
  <2>2. ASSUME NEW t \in 1 .. tokens, NEW kind, NEW given, Present(d, t, kind, given)
        PROVE  Moved(req[d], req'[d])
    <3>1. req[d] = Idle /\ req'[d] = [pc |-> "admit", token |-> t, kind |-> kind, given |-> given, now |-> clock,
                                      user |-> Nobody, hash |-> Gone, overtaken |-> FALSE]
      BY <1>0, <2>2 DEF Present, Become
    <3> QED BY <1>0, <3>1 DEF Moved, Changing, Proving, RequestOK, RequestAt, TokenPcs, Idle
  <2> QED BY <1>8, <2>1, <2>2 DEF Arrive
<1>9. CASE Step(d) /\ ~ChangeRevoke(d)
  <2>0. \A r : Become(d, r) => req'[d] = r
    BY <1>0 DEF Become
  <2>1. req[d].pc \in {"login", "login hash", "login verify", "login create"} => req[d] \in LoginReq
    BY <1>0, RequestOf
  <2>2. req[d].pc \in TokenPcs => req[d] \in TokenReq
    BY <1>0, RequestOf
  <2>3. req[d].pc = "admit" => req[d] \in AdmitReq
    BY <1>0, RequestOf
  <2>4. CASE Finish(d) /\ ~Changing(req[d])
    BY <2>0, <2>4, MovedIdle DEF Finish
  <2>5. CASE LoginUnlocked(d)
    <3>1. req[d].pc = "login" /\ (Finish(d) \/ Goto(d, "login hash"))
      BY <2>5 DEF LoginUnlocked, Unlocked
    <3> QED BY <2>0, <2>1, <2>4, <3>1, MovedOn DEF Goto, Changing
  <2>6. CASE LoginHash(d)
    <3>1. req[d] \in LoginReq /\ req'[d] = [req[d] EXCEPT !.pc = "login verify", !.hash = password[req[d].user]]
      BY <2>0, <2>1, <2>6 DEF LoginHash, CopyHash
    <3>2. /\ req'[d].pc = "login verify" /\ req'[d].hash = password[req'[d].user]
          /\ req'[d].now = req[d].now
      BY <3>1 DEF LoginReq
    <3>3. req[d].pc = "login hash" /\ req[d].now <= clock
      BY <2>6, TookItsTime DEF LoginHash
    <3> QED BY <3>2, <3>3 DEF Moved, Changing, Proving, RequestOK, RequestAt, TokenPcs
  <2>7. CASE LoginVerify(d)
    <3>1. /\ req[d].pc = "login verify"
          /\ Finish(d) \/ (Verified(d) /\ Goto(d, "login create"))
      BY <2>7 DEF LoginVerify
    <3> QED BY <2>0, <2>1, <2>4, <3>1, MovedOn DEF Goto, Changing, Verified, Proving
  <2>8. CASE LoginCreate(d)
    BY <2>4, <2>8 DEF LoginCreate, Changing
  <2>9. CASE Admit(d)
    <3>0. req[d].pc = "admit" /\ ~Changing(req[d])
      BY <2>9 DEF Admit, Changing
    <3>1. CASE ~Finish(d)
      <4>1. /\ req[d] \in AdmitReq /\ req[d].kind # "read"
            /\ req[d].token \in DOMAIN sessions
            /\ req'[d] = [req[d] EXCEPT !.pc = req[d].kind, !.user = sessions[req[d].token].user]
        BY <2>0, <2>3, <2>9, <3>0, <3>1 DEF Admit, IsValid
      <4>2. /\ req'[d].pc = req[d].kind /\ req'[d].user = sessions[req[d].token].user
            /\ req'[d].token = req[d].token /\ req'[d].now = req[d].now
            /\ req[d].kind \in {"logout", "stream", "password"}
        BY <4>1 DEF AdmitReq, Kinds
      <4>3. req[d].now <= clock /\ req[d].token \in 1 .. tokens
        BY <1>0, <3>0, <4>1, TookItsTime
      <4> QED BY <4>1, <4>2, <4>3, <3>0 DEF Moved, Changing, Proving, RequestOK, RequestAt, TokenPcs
    <3> QED BY <2>4, <3>0, <3>1
  <2>10. CASE Logout(d) \/ OpenStream(d)
    BY <2>4, <2>10 DEF Logout, OpenStream, Changing
  <2>11. CASE ChangeBegin(d)
    <3>1. req[d] \in TokenReq /\ req'[d] = [req[d] EXCEPT !.pc = "change", !.now = clock]
          /\ req[d].pc = "password"
      BY <2>0, <2>2, <2>11 DEF ChangeBegin, TokenPcs
    <3>2. req'[d].pc = "change" /\ req'[d].now = clock /\ req'[d].token = req[d].token /\ req'[d].user = req[d].user
      BY <3>1 DEF TokenReq
    <3>3. RequestOK(req[d])
      BY DEF SInv, RequestInv
    <3> QED BY <1>0, <3>1, <3>2, <3>3 DEF Moved, Changing, Proving, RequestOK, RequestAt, TokenPcs
  <2>12. CASE ChangeUnlocked(d)
    <3>1. req[d].pc = "change" /\ (Finish(d) \/ Goto(d, "change hash"))
      BY <2>12 DEF ChangeUnlocked, Unlocked
    <3> QED BY <2>0, <2>2, <2>4, <3>1, MovedOn DEF Goto, Changing, TokenPcs
  <2>13. CASE ChangeHash(d)
    <3>1. req[d] \in TokenReq /\ req'[d] = [req[d] EXCEPT !.pc = "change verify", !.hash = password[req[d].user]]
          /\ req[d].pc = "change hash"
      BY <2>0, <2>2, <2>13 DEF ChangeHash, CopyHash, TokenPcs
    <3>2. req'[d].pc = "change verify" /\ req'[d].now = req[d].now /\ req'[d].token = req[d].token
          /\ req'[d].user = req[d].user
      BY <3>1 DEF TokenReq
    <3>3. RequestOK(req[d]) /\ req[d].now <= clock
      BY <3>1, TookItsTime DEF SInv, RequestInv
    <3> QED BY <3>1, <3>2, <3>3 DEF Moved, Changing, Proving, RequestOK, RequestAt, TokenPcs
  <2>14. CASE ChangeVerify(d)
    <3>1. req[d].pc = "change verify" /\ (Finish(d) \/ Goto(d, "change store"))
      BY <2>14 DEF ChangeVerify
    <3> QED BY <2>0, <2>2, <2>4, <3>1, MovedOn DEF Goto, Changing, TokenPcs
  <2>15. CASE ChangeStore(d) /\ ~Replaces(d)
    <3>1. req[d].pc = "change store" /\ Finish(d)
      BY <2>15 DEF ChangeStore, Replaces
    <3> QED BY <2>4, <3>1 DEF Changing
  <2>16. CASE Replaces(d)
    <3>1. req[d] \in TokenReq /\ req'[d] = [req[d] EXCEPT !.pc = "change success"]
          /\ req[d].pc = "change store"
      BY <2>0, <2>16, Stores DEF Replaces, ChangeStore
    <3>2. req'[d].pc = "change success" /\ req'[d].now = req[d].now /\ req'[d].token = req[d].token
          /\ req'[d].user = req[d].user
      BY <3>1 DEF TokenReq
    <3>3. RequestOK(req[d]) /\ req[d].now <= clock
      BY <3>1, TookItsTime DEF SInv, RequestInv
    <3>4. RequestOK(req'[d]) /\ Changing(req'[d])
      BY <3>1, <3>2, <3>3 DEF Changing, RequestOK, RequestAt, TokenPcs
    <3> QED BY <2>16, <3>1, <3>2, <3>4 DEF TokenPcs
  <2>17. CASE ChangeSuccess(d)
    <3>1. req[d].pc = "change success" /\ Goto(d, "change revoke")
      BY <2>17 DEF ChangeSuccess
    <3> QED BY <2>0, <2>2, <3>1, MovedOn DEF Goto, Changing, TokenPcs
  <2> QED BY <1>9, <2>5, <2>6, <2>7, <2>8, <2>9, <2>10, <2>11, <2>12, <2>13, <2>14, <2>15, <2>16, <2>17 DEF Step
<1> QED BY <1>1, <1>2, <1>3, <1>4, <1>5, <1>6, <1>7, <1>8, <1>9, StepCases

\* Some time later the request is as consistent as it was.
LEMMA RequestTimes ==
  ASSUME NEW r \in Request
  PROVE  /\ r # Idle => r.now \in Nat
         /\ r.pc \in {"admit"} \cup TokenPcs => r.token \in Nat
<1>1. CASE r = Idle
  BY <1>1 DEF TokenPcs, Idle
<1>2. CASE r \in LoginReq
  BY <1>2 DEF LoginReq, TokenPcs
<1>3. CASE r \in AdmitReq
  BY <1>3 DEF AdmitReq
<1>4. CASE r \in TokenReq
  BY <1>4 DEF TokenReq
<1> QED BY <1>1, <1>2, <1>3, <1>4 DEF Request

LEMMA RequestLater ==
  ASSUME SInv, Next, NEW r \in Request, RequestOK(r)
  PROVE  RequestAt(r, clock', tokens', sessions')
<1>1. tokens \in Nat /\ tokens' \in Nat /\ tokens' >= tokens
  BY Tables DEF TableStep, SInv, TypeInv
<1>2. \A t \in DOMAIN sessions' : t <= tokens =>
            t \in DOMAIN sessions /\ sessions'[t].user = sessions[t].user
  BY Tables DEF TableStep
<1>3. r # Idle => r.now <= clock'
  <2>1. SUFFICES ASSUME r # Idle PROVE r.now <= clock'
    OBVIOUS
  <2>2. r.now \in Nat
    BY <2>1, RequestTimes
  <2>3. r.now <= clock
    BY <2>1 DEF RequestOK, RequestAt
  <2> QED BY <2>2, <2>3, ClockGrows
<1>4. r.pc \in {"admit"} \cup TokenPcs => r.token <= tokens /\ r.token \in 1 .. tokens'
  <2>1. SUFFICES ASSUME r.pc \in {"admit"} \cup TokenPcs
                 PROVE  r.token <= tokens /\ r.token \in 1 .. tokens'
    OBVIOUS
  <2>2. r.token \in 1 .. tokens
    BY <2>1 DEF RequestOK, RequestAt
  <2> QED BY <1>1, <2>2
<1>5. /\ r.pc \in TokenPcs /\ r.token \in DOMAIN sessions => sessions[r.token].user = r.user
      /\ r.pc = "login create" => r.given = r.hash
  BY DEF RequestOK, RequestAt
<1> QED BY <1>2, <1>3, <1>4, <1>5 DEF RequestAt

LEMMA RequestStays ==
  ASSUME SInv, Next
  PROVE  RequestInv'
<1>1. ASSUME NEW d \in Clients
      PROVE  RequestOK(req[d])'
  <2> DEFINE s == req'[d]
  <2>1. RequestOK(Idle)
    BY DEF RequestOK, RequestAt, TokenPcs, Idle
  <2>2. RequestOK(s)
    BY <2>1, RequestMoves DEF Moved
  <2>3. s \in Request
    BY RequestsTyped
  <2>4. RequestAt(s, clock', tokens', sessions')
    BY <2>2, <2>3, RequestLater
  <2> QED BY <2>4 DEF RequestOK
<1>2. ASSUME NEW d \in Clients, req'[d].pc \in TokenPcs
      PROVE  \/ req[d].pc \in TokenPcs /\ req'[d].token = req[d].token /\ req'[d].user = req[d].user
             \/ req'[d].token \in DOMAIN sessions /\ req'[d].user = sessions[req'[d].token].user
  <2>1. req'[d] # Idle
    <3>1. req'[d].pc # "idle"
      BY <1>2 DEF TokenPcs
    <3> QED BY <3>1 DEF Idle
  <2> QED BY <1>2, <2>1, RequestMoves DEF Moved
<1>3. \A d \in Clients : req[d].pc \in TokenPcs /\ req[d].token \in DOMAIN sessions =>
          sessions[req[d].token].user = req[d].user
  BY DEF SInv, RequestInv, RequestOK, RequestAt
<1>4. \A d, e \in Clients :
          req'[d].pc \in TokenPcs /\ req'[e].pc \in TokenPcs /\ req'[d].token = req'[e].token =>
              req'[d].user = req'[e].user
  BY <1>2, <1>3 DEF SInv, RequestInv
<1> QED BY <1>1, <1>4 DEF RequestInv

-----------------------------------------------------------------------------
(* Sessions and logins follow the passwords.                                *)

\* Nobody just changed a password or ended the other sessions.
LEMMA ChangersSame ==
  ASSUME SInv, Next, \A d \in Clients : Moved(req[d], req'[d]), NEW u
  PROVE  /\ Changers(u)' = Changers(u)
         /\ \A c \in Changers(u) : req'[c].token = req[c].token
         /\ \A c \in Clients : Proving(req'[c]) =>
              \/ req'[c].hash = password[req'[c].user]
              \/ /\ req'[c].user = req[c].user /\ req'[c].hash = req[c].hash
                 /\ Proving(req[c]) /\ ProvesNow(c) /\ (req[c].overtaken => req'[c].overtaken)
  BY DEF Changers, Moved, SInv, LoginsInv

\* The user of a request is that of its token's session.
LEMMA TokensUser ==
  ASSUME SInv, Next, NEW c \in Clients, Changing(req'[c]), req'[c].token \in DOMAIN sessions'
  PROVE  sessions'[req'[c].token].user = req'[c].user /\ req'[c].token \in 1 .. tokens'
  BY RequestStays DEF RequestInv, RequestOK, RequestAt, Changing, TokenPcs

\* What the sessions' tokens proved.
PasswordsOK == SessionsMatchPasswords /\ ChangersInv /\ LoginsInv

Quiet ==
    /\ UNCHANGED <<password, ending, tokens>>
    /\ ghost'.proved = ghost.proved /\ ghost'.overtaken = ghost.overtaken
    /\ ghost'.changes = ghost.changes

\* The other steps.
LEMMA QuietSteps ==
  ASSUME SInv, Next, ~EndSessions, \A u \in Users : ~ResetPassword(u) /\ ~DeleteUser(u) /\ ~CreateUser(u),
         \A c \in Clients : ~Replaces(c) /\ ~LoginCreate(c)
  PROVE  Quiet
<1>0. TypeInv
  BY DEF SInv
<1>1. CASE Outside
  BY <1>0, <1>1, OutsideFrame DEF Quiet, authVars, tableVars
<1>2. ASSUME NEW c \in Clients, Arrive(c) \/ Step(c)
      PROVE  Quiet
  <2>0. ending' = ending
    BY <1>0, <1>2, HandlerFrame
  <2>1. CASE Admit(c)
    BY <2>0, <2>1, Admits DEF Quiet, authVars
  <2>2. CASE Logout(c) \/ ChangeRevoke(c)
    BY <2>0, <2>2 DEF Logout, ChangeRevoke, Quiet, authVars
  <2>3. CASE ~Admit(c) /\ ~Logout(c) /\ ~ChangeRevoke(c)
    BY <1>2, <2>0, <2>3, Others DEF Quiet
  <2> QED BY <2>1, <2>2, <2>3
<1> QED BY <1>1, <1>2, StepCases

\* A session that is still there was there, whose it is.
LEMMA StillThere ==
  ASSUME SInv, Next, tokens' = tokens, NEW t \in DOMAIN sessions'
  PROVE  t \in DOMAIN sessions /\ sessions'[t].user = sessions[t].user
         /\ sessions[t].user \in Users /\ t \in 1 .. tokens
<1>1. TableStep
  BY Tables
<1>2. t \in 1 .. tokens
  BY <1>1 DEF TableStep
<1>3. t <= tokens
  BY <1>2
<1>4. t \in DOMAIN sessions /\ sessions'[t].user = sessions[t].user
  BY <1>1, <1>3 DEF TableStep
<1> QED BY <1>2, <1>4 DEF SInv, TypeInv, Session

\* The three facts of the later state, said of one session, changer or login.
LEMMA PasswordsLater ==
  ASSUME \A t \in DOMAIN sessions', u \in Users : sessions'[t].user = u =>
             \/ ghost'.proved[t] = password'[u] \/ ending' = u \/ Changers(u)' # {} \/ t \in ghost'.overtaken,
         \A t \in DOMAIN sessions' : sessions'[t].user \in Users,
         \A u \in Users : \A c \in Changers(u)' : req'[c].token \in DOMAIN sessions' =>
             \/ ghost'.proved[req'[c].token] = password'[u]
             \/ ending' = u
             \/ \E d \in Changers(u)' : ghost'.proved[req'[d].token] = password'[u],
         \A c \in Clients : \A u : Proving(req'[c]) /\ req'[c].user = u =>
             req'[c].hash = password'[u] \/ req'[c].overtaken \/ ending' = u \/ Changers(u)' # {}
  PROVE  PasswordsOK'
<1>1. SessionsMatchPasswords'
  <2>1. SUFFICES ASSUME NEW t \in DOMAIN sessions', NEW u \in Users, u = sessions'[t].user
                 PROVE  \/ ghost'.proved[t] = password'[u] \/ ending' = u \/ t \in ghost'.overtaken
                        \/ \E c \in Clients : req'[c].pc \in {"change success", "change revoke"} /\ req'[c].user = u
    BY DEF SessionsMatchPasswords
  <2>2. Changers(u)' # {} =>
            \E c \in Clients : req'[c].pc \in {"change success", "change revoke"} /\ req'[c].user = u
    BY ZenonT(40) DEF Changers, Changing
  <2> QED BY <2>1, <2>2
<1>2. ChangersInv'
  BY DEF ChangersInv
<1>3. LoginsInv'
  BY DEF LoginsInv, ProvesNow
<1> QED BY <1>1, <1>2, <1>3 DEF PasswordsOK

\* The same of the present one.
LEMMA PasswordsNow ==
  ASSUME SInv
  PROVE  /\ \A t \in DOMAIN sessions : \A u : sessions[t].user = u =>
               \/ ghost.proved[t] = password[u] \/ ending = u \/ Changers(u) # {} \/ t \in ghost.overtaken
         /\ \A u \in Users : \A c \in Changers(u) : req[c].token \in DOMAIN sessions =>
               \/ ghost.proved[req[c].token] = password[u]
               \/ ending = u
               \/ \E d \in Changers(u) : ghost.proved[req[d].token] = password[u]
         /\ \A c \in Clients : \A u : Proving(req[c]) /\ req[c].user = u =>
               req[c].hash = password[u] \/ req[c].overtaken \/ ending = u \/ Changers(u) # {}
<1>1. ASSUME NEW t \in DOMAIN sessions, NEW u, sessions[t].user = u
      PROVE  \/ ghost.proved[t] = password[u] \/ ending = u \/ Changers(u) # {} \/ t \in ghost.overtaken
  BY <1>1 DEF SInv, SessionsMatchPasswords, Changers, Changing
<1>2. \A u \in Users : \A c \in Changers(u) : req[c].token \in DOMAIN sessions =>
         \/ ghost.proved[req[c].token] = password[u]
         \/ ending = u
         \/ \E d \in Changers(u) : ghost.proved[req[d].token] = password[u]
  BY DEF SInv, ChangersInv
<1>3. ASSUME NEW c \in Clients, NEW u, Proving(req[c]), req[c].user = u
      PROVE  req[c].hash = password[u] \/ req[c].overtaken \/ ending = u \/ Changers(u) # {}
  BY <1>3 DEF SInv, LoginsInv, ProvesNow
<1> QED BY <1>1, <1>2, <1>3

LEMMA QuietPasswords ==
  ASSUME SInv, Next, Quiet, \A d \in Clients : Moved(req[d], req'[d])
  PROVE  PasswordsOK'
<1>0. \A u : Changers(u)' = Changers(u) /\ \A c \in Changers(u) : req'[c].token = req[c].token
  BY ChangersSame
<1>1. ASSUME NEW t \in DOMAIN sessions', NEW u \in Users, sessions'[t].user = u
      PROVE  \/ ghost'.proved[t] = password'[u] \/ ending' = u \/ Changers(u)' # {} \/ t \in ghost'.overtaken
  <2>1. t \in DOMAIN sessions /\ sessions[t].user = u
    BY <1>1, StillThere DEF Quiet
  <2> QED BY <1>0, <2>1, PasswordsNow DEF Quiet
<1>2. ASSUME NEW u \in Users, NEW c \in Changers(u)', req'[c].token \in DOMAIN sessions'
      PROVE  \/ ghost'.proved[req'[c].token] = password'[u]
             \/ ending' = u
             \/ \E d \in Changers(u)' : ghost'.proved[req'[d].token] = password'[u]
  <2>1. c \in Changers(u) /\ req'[c].token = req[c].token
    BY <1>0
  <2>2. req[c].token \in DOMAIN sessions
    BY <1>2, <2>1, StillThere DEF Quiet
  <2> QED BY <1>0, <2>1, <2>2, PasswordsNow DEF Quiet
<1>3. ASSUME NEW c \in Clients, NEW u, Proving(req'[c]), req'[c].user = u
      PROVE  req'[c].hash = password'[u] \/ req'[c].overtaken \/ ending' = u \/ Changers(u)' # {}
  BY <1>0, <1>3, ChangersSame DEF ProvesNow, Quiet
<1>4. \A t \in DOMAIN sessions' : sessions'[t].user \in Users
  BY StillThere DEF Quiet
<1> QED BY <1>1, <1>2, <1>3, <1>4, PasswordsLater

\* The administrator's handler ends the sessions of the user it changed.
LEMMA EndPasswords ==
  ASSUME SInv, Next, EndSessions, \A d \in Clients : Moved(req[d], req'[d])
  PROVE  PasswordsOK'
<1> DEFINE gone == ending
<1>0. /\ \A u : Changers(u)' = Changers(u) /\ \A c \in Changers(u) : req'[c].token = req[c].token
      /\ tokens' = tokens /\ password' = password /\ ghost' = ghost
      /\ sessions' = RevokeUser(sessions, gone) /\ req' = Overtaken(gone)
  BY ChangersSame DEF EndSessions, authVars
<1>1. \A t \in DOMAIN sessions' : sessions'[t].user # gone
  <2>1. \A t \in DOMAIN sessions' : sessions[t].user # gone
    BY <1>0, Revoked
  <2> QED BY <1>0, <2>1, StillThere
<1> HIDE DEF gone
<1>2. ASSUME NEW t \in DOMAIN sessions', NEW u \in Users, sessions'[t].user = u
      PROVE  \/ ghost'.proved[t] = password'[u] \/ ending' = u \/ Changers(u)' # {} \/ t \in ghost'.overtaken
  <2>1. t \in DOMAIN sessions /\ sessions[t].user = u /\ gone # u
    BY <1>0, <1>1, <1>2, StillThere
  <2>2. ending # u
    BY <2>1 DEF gone
  <2> QED BY <1>0, <2>1, <2>2, PasswordsNow
<1>3. ASSUME NEW u \in Users, NEW c \in Changers(u)', req'[c].token \in DOMAIN sessions'
      PROVE  \/ ghost'.proved[req'[c].token] = password'[u]
             \/ ending' = u
             \/ \E d \in Changers(u)' : ghost'.proved[req'[d].token] = password'[u]
  <2>1. c \in Changers(u) /\ req'[c].token = req[c].token
    BY <1>0
  <2>2. req[c].token \in DOMAIN sessions
    BY <1>0, <1>3, <2>1, StillThere
  <2>3. sessions'[req'[c].token].user = u
    BY <1>3, TokensUser DEF Changers
  <2>4. ending # u
    BY <1>1, <1>3, <2>3 DEF gone
  <2> QED BY <1>0, <2>1, <2>2, <2>4, PasswordsNow
<1>4. ASSUME NEW c \in Clients, NEW u, Proving(req'[c]), req'[c].user = u
      PROVE  req'[c].hash = password'[u] \/ req'[c].overtaken \/ ending' = u \/ Changers(u)' # {}
  <2>1. CASE gone = u
    BY <1>0, <1>4, <2>1, MovedMarked
  <2>2. CASE gone # u
    BY <1>0, <1>4, <2>2, ChangersSame DEF ProvesNow, gone
  <2> QED BY <2>1, <2>2
<1>5. \A t \in DOMAIN sessions' : sessions'[t].user \in Users
  BY <1>0, StillThere
<1> QED BY <1>2, <1>3, <1>4, <1>5, PasswordsLater

\* The administrator's handler changes a user's password, or the user.
LEMMA AdminPasswords ==
  ASSUME SInv, Next, NEW who \in Users, ResetPassword(who) \/ DeleteUser(who) \/ CreateUser(who),
         \A d \in Clients : Moved(req[d], req'[d])
  PROVE  PasswordsOK'
<1>0. /\ \A u : Changers(u)' = Changers(u) /\ \A c \in Changers(u) : req'[c].token = req[c].token
      /\ tokens' = tokens /\ ghost' = ghost /\ sessions' = sessions /\ req' = req
      /\ ending = Nobody
  BY ChangersSame DEF ResetPassword, DeleteUser, CreateUser, tableVars
<1>1. password \in [Users -> Nat] /\ ghost.proved \in [1 .. tokens -> Nat \ {0}]
  BY DEF SInv, TypeInv, History
<1>2. \A u \in Users : u # who => password'[u] = password[u]
  BY <1>1 DEF ResetPassword, DeleteUser, CreateUser
<1>3. ending' = who \/ (ending' = Nobody /\ password[who] = Gone)
  BY DEF ResetPassword, DeleteUser, CreateUser
<1>4. \A u \in Users : ending # u
  BY <1>0, BoundsAssumption
<1>5. ASSUME NEW t \in DOMAIN sessions', NEW u \in Users, sessions'[t].user = u
      PROVE  \/ ghost'.proved[t] = password'[u] \/ ending' = u \/ Changers(u)' # {} \/ t \in ghost'.overtaken
  <2>1. t \in 1 .. tokens
    BY <1>0, StillThere
  <2>2. ghost.proved[t] # Gone
    BY <1>1, <2>1 DEF Gone
  <2> QED BY <1>0, <1>2, <1>3, <1>4, <1>5, <2>2, PasswordsNow
<1>6. ASSUME NEW u \in Users, NEW c \in Changers(u)', req'[c].token \in DOMAIN sessions'
      PROVE  \/ ghost'.proved[req'[c].token] = password'[u]
             \/ ending' = u
             \/ \E d \in Changers(u)' : ghost'.proved[req'[d].token] = password'[u]
  <2>1. c \in Changers(u) /\ req'[c] = req[c] /\ req[c].token \in DOMAIN sessions
    BY <1>0, <1>6
  <2>2. \/ ghost.proved[req[c].token] = password[u]
        \/ \E d \in Changers(u) : ghost.proved[req[d].token] = password[u]
    BY <1>4, <2>1, PasswordsNow
  <2>3. \A d \in Changers(u) : req[d].token \in 1 .. tokens
    BY DEF Changers, Changing, SInv, RequestInv, RequestOK, RequestAt, TokenPcs
  <2>4. \A d \in Changers(u) : ghost.proved[req[d].token] # Gone
    BY <1>1, <2>3 DEF Gone
  <2> QED BY <1>0, <1>2, <1>3, <2>1, <2>2, <2>4
<1>7. ASSUME NEW c \in Clients, NEW u, Proving(req'[c]), req'[c].user = u
      PROVE  req'[c].hash = password'[u] \/ req'[c].overtaken \/ ending' = u \/ Changers(u)' # {}
  <2>0. TypeInv
    BY DEF SInv
  <2>1. req[c] \in LoginReq /\ u \in Users /\ Proving(req[c])
    BY <1>0, <1>7, <2>0, RequestOf DEF Proving, LoginReq
  <2>2. req[c].hash # Gone
    <3>1. CASE req[c].pc = "login verify"
      BY <2>1, <3>1 DEF Proving
    <3>2. CASE req[c].pc = "login create"
      <4>1. req[c].given = req[c].hash
        BY <3>2 DEF SInv, RequestInv, RequestOK, RequestAt
      <4> QED BY <2>1, <4>1 DEF LoginReq, Gone
    <3> QED BY <2>1, <3>1, <3>2 DEF Proving
  <2>3. req[c].hash = password[u] \/ req[c].overtaken \/ Changers(u) # {}
    BY <1>0, <1>4, <1>7, <2>1, PasswordsNow
  <2> QED BY <1>0, <1>2, <1>3, <2>1, <2>2, <2>3
<1>8. \A t \in DOMAIN sessions' : sessions'[t].user \in Users
  BY <1>0, StillThere
<1> QED BY <1>5, <1>6, <1>7, <1>8, PasswordsLater

\* A login opens a session.
LEMMA LoginPasswords ==
  ASSUME SInv, Next, NEW who \in Clients, LoginCreate(who), \A d \in Clients : Moved(req[d], req'[d])
  PROVE  PasswordsOK'
<1>0. /\ \A u : Changers(u)' = Changers(u) /\ \A c \in Changers(u) : req'[c].token = req[c].token
      /\ password' = password /\ ending' = ending /\ req[who].pc = "login create"
  BY ChangersSame DEF LoginCreate, authVars
<1>1. /\ req[who] \in LoginReq /\ tokens' = tokens + 1
      /\ DOMAIN sessions' = DOMAIN sessions \cup {tokens'}
      /\ \A t \in DOMAIN sessions : t # tokens' /\ sessions'[t] = sessions[t]
      /\ ghost'.proved[tokens'] = req[who].given
      /\ \A t \in 1 .. tokens : ghost'.proved[t] = ghost.proved[t]
      /\ ghost'.overtaken = IF req[who].overtaken THEN ghost.overtaken \cup {tokens'} ELSE ghost.overtaken
  BY Creates
<1>a. sessions'[tokens'].user = req[who].user
  <2>1. sessions'[tokens'] = [user |-> req[who].user, expires |-> req[who].now + TtlMillis,
                              seen |-> req[who].now]
    BY Creates
  <2> QED BY <2>1
<1>b. tokens \in Nat /\ tokens' \notin 1 .. tokens
  <2>1. tokens \in Nat
    BY DEF SInv, TypeInv
  <2> QED BY <1>1, <2>1
<1>c. ghost.overtaken \subseteq ghost'.overtaken /\ (req[who].overtaken => tokens' \in ghost'.overtaken)
  BY <1>1
<1>2. DOMAIN sessions \subseteq 1 .. tokens /\ \A t \in DOMAIN sessions : sessions[t].user \in Users
  BY DEF SInv, TypeInv, Session
<1>3. ASSUME NEW t \in DOMAIN sessions', NEW u \in Users, sessions'[t].user = u
      PROVE  \/ ghost'.proved[t] = password'[u] \/ ending' = u \/ Changers(u)' # {} \/ t \in ghost'.overtaken
  <2>1. CASE t \in DOMAIN sessions
    <3>1. sessions[t].user = u /\ t \in 1 .. tokens
      BY <1>1, <1>2, <1>3, <2>1
    <3>2. ghost'.proved[t] = ghost.proved[t]
      BY <1>1, <3>1
    <3> QED BY <1>0, <1>c, <2>1, <3>1, <3>2, PasswordsNow
  <2>2. CASE t = tokens'
    <3>1. req[who].user = u /\ Proving(req[who])
      BY <1>0, <1>a, <1>3, <2>2 DEF Proving
    <3>2. req[who].given = req[who].hash
      BY <1>0 DEF SInv, RequestInv, RequestOK, RequestAt
    <3>3. req[who].hash = password[u] \/ req[who].overtaken \/ ending = u \/ Changers(u) # {}
      BY <3>1, PasswordsNow
    <3> QED BY <1>0, <1>1, <1>c, <2>2, <3>2, <3>3
  <2> QED BY <1>1, <2>1, <2>2
<1>4. ASSUME NEW u \in Users, NEW c \in Changers(u)', req'[c].token \in DOMAIN sessions'
      PROVE  \/ ghost'.proved[req'[c].token] = password'[u]
             \/ ending' = u
             \/ \E d \in Changers(u)' : ghost'.proved[req'[d].token] = password'[u]
  <2>1. c \in Changers(u) /\ req'[c].token = req[c].token
    BY <1>0
  <2>2. \A d \in Changers(u) : req[d].token \in 1 .. tokens
    BY DEF Changers, Changing, SInv, RequestInv, RequestOK, RequestAt, TokenPcs
  <2>3. req[c].token \in DOMAIN sessions
    <3>1. req[c].token # tokens'
      BY <1>b, <2>1, <2>2
    <3> QED BY <1>1, <1>4, <2>1, <3>1
  <2>4. \/ ghost.proved[req[c].token] = password[u]
        \/ ending = u
        \/ \E d \in Changers(u) : ghost.proved[req[d].token] = password[u]
    BY <2>1, <2>3, PasswordsNow
  <2> QED BY ZenonT(40), <1>0, <1>1, <2>1, <2>2, <2>4
<1>5. ASSUME NEW c \in Clients, NEW u, Proving(req'[c]), req'[c].user = u
      PROVE  req'[c].hash = password'[u] \/ req'[c].overtaken \/ ending' = u \/ Changers(u)' # {}
  BY <1>0, <1>5, ChangersSame DEF ProvesNow
<1>6. \A t \in DOMAIN sessions' : sessions'[t].user \in Users
  BY <1>1, <1>a, <1>2 DEF LoginReq
<1> QED BY <1>3, <1>4, <1>5, <1>6, PasswordsLater

\* A user's own change: its token proves the new password.
LEMMA ChangePasswords ==
  ASSUME SInv, Next, NEW who \in Clients, Replaces(who)
  PROVE  PasswordsOK' /\ ChangesProveThePassword'
<1>0. TypeInv /\ req \in [Clients -> Request] /\ password \in [Users -> Nat]
  BY DEF SInv, TypeInv
<1>w. PICK w, k : w = req[who].user /\ k = req[who].token
  OBVIOUS
<1>a. /\ UNCHANGED <<tokens, sessions>> /\ req[who] \in TokenReq
      /\ password' = [password EXCEPT ![w] = latest']
      /\ Become(who, [req[who] EXCEPT !.pc = "change success"])
  BY <1>w, Stores
<1>b. ghost'.changes = ghost.changes \cup {[given |-> req[who].given, replaced |-> password[w]]}
  BY <1>w, Stores
<1>1. /\ tokens' = tokens /\ sessions' = sessions
      /\ ghost'.overtaken = ghost.overtaken /\ ghost'.proved[k] = latest'
      /\ \A t \in 1 .. tokens : t # k => ghost'.proved[t] = ghost.proved[t]
  BY <1>w, Stores
<1>2. ending' = ending /\ req[who].pc = "change store" /\ req[who].given = password[w]
  BY <1>w DEF Replaces, ChangeStore, Reverified
<1>3. /\ w \in Users /\ req'[who] = [req[who] EXCEPT !.pc = "change success"]
      /\ \A d \in Clients : d # who => req'[d] = req[d]
  BY <1>w, <1>0, <1>a DEF TokenReq, Become
<1>4. Changing(req'[who]) /\ req'[who].user = w /\ req'[who].token = k
  BY <1>w, <1>a, <1>3 DEF TokenReq, Changing
<1>5. password'[w] = latest' /\ \A u \in Users : u # w => password'[u] = password[u]
  BY <1>0, <1>a, <1>3
<1>6. who \in Changers(w)' /\ \A u : u # w => Changers(u)' = Changers(u)
  BY <1>2, <1>3, <1>4 DEF Changers, Changing
<1>7. k \in 1 .. tokens /\ (k \in DOMAIN sessions => sessions[k].user = w)
  BY <1>w, <1>2 DEF SInv, RequestInv, RequestOK, RequestAt, TokenPcs
<1>8. \A d \in Clients : Changing(req[d]) /\ req[d].token = k => req[d].user = w
  BY <1>w, <1>2 DEF SInv, RequestInv, TokenPcs, Changing
<1>9. ASSUME NEW t \in DOMAIN sessions', NEW u \in Users, sessions'[t].user = u
      PROVE  \/ ghost'.proved[t] = password'[u] \/ ending' = u \/ Changers(u)' # {} \/ t \in ghost'.overtaken
  <2>1. CASE u = w
    BY <1>6, <2>1
  <2>2. CASE u # w
    <3>1. t \in DOMAIN sessions /\ sessions[t].user = u /\ t \in 1 .. tokens
      BY <1>1, <1>9, StillThere
    <3>2. t # k
      BY <1>7, <2>2, <3>1
    <3> QED BY ZenonT(40), <1>1, <1>2, <1>5, <1>6, <2>2, <3>1, <3>2, PasswordsNow
  <2> QED BY <2>1, <2>2
<1>10. ASSUME NEW u \in Users, NEW c \in Changers(u)', req'[c].token \in DOMAIN sessions'
       PROVE  \/ ghost'.proved[req'[c].token] = password'[u]
              \/ ending' = u
              \/ \E d \in Changers(u)' : ghost'.proved[req'[d].token] = password'[u]
  <2>1. CASE u = w
    BY <1>1, <1>4, <1>5, <1>6, <2>1
  <2>2. CASE u # w
    <3>1. \A d \in Changers(u) : /\ d # who /\ req'[d] = req[d]
                                 /\ req[d].token # k /\ req[d].token \in 1 .. tokens
      <4>1. \A d \in Changers(u) : d # who /\ d \in Clients /\ req[d].user = u /\ Changing(req[d])
        BY <1>w, <2>2 DEF Changers
      <4>3. \A d \in Changers(u) : req'[d] = req[d]
        BY <1>3, <4>1
      <4>4. \A d \in Changers(u) : req[d].token # k
        BY <1>8, <2>2, <4>1
      <4>2. \A d \in Changers(u) : req[d].token \in 1 .. tokens
        BY DEF Changers, Changing, SInv, RequestInv, RequestOK, RequestAt, TokenPcs
      <4> QED BY <4>1, <4>2, <4>3, <4>4
    <3>2. c \in Changers(u) /\ req[c].token \in DOMAIN sessions
      BY <1>1, <1>6, <1>10, <2>2, <3>1
    <3>3. \/ ghost.proved[req[c].token] = password[u]
          \/ ending = u
          \/ \E d \in Changers(u) : ghost.proved[req[d].token] = password[u]
      BY <3>2, PasswordsNow
    <3>4. Changers(u)' = Changers(u)
      BY <1>6, <2>2
    <3>5. password'[u] = password[u]
      BY <1>5, <2>2
    <3>6. \A d \in Changers(u) : ghost'.proved[req'[d].token] = ghost.proved[req[d].token]
      BY <1>1, <3>1
    <3> QED BY <1>2, <3>2, <3>3, <3>4, <3>5, <3>6
  <2> QED BY <2>1, <2>2
<1>11. ASSUME NEW c \in Clients, NEW u, Proving(req'[c]), req'[c].user = u
       PROVE  req'[c].hash = password'[u] \/ req'[c].overtaken \/ ending' = u \/ Changers(u)' # {}
  <2>1. CASE u = w
    BY <1>6, <2>1
  <2>2. CASE u # w
    <3>1. c # who
      BY <1>4, <1>11, <2>2
    <3>2. req'[c] = req[c] /\ u \in Users
      <4>1. req'[c] = req[c]
        BY <1>3, <3>1
      <4>2. req[c] \in LoginReq
        BY <1>0, <1>11, <4>1, RequestOf DEF Proving
      <4> QED BY <1>11, <4>1, <4>2 DEF LoginReq
    <3> QED BY <1>2, <1>5, <1>6, <1>11, <2>2, <3>2, PasswordsNow
  <2> QED BY <2>1, <2>2
<1>12. \A t \in DOMAIN sessions' : sessions'[t].user \in Users
  BY <1>1, StillThere
<1>13. ChangesProveThePassword'
  <2> DEFINE change == [given |-> req[who].given, replaced |-> password[w]]
  <2>1. change.given = change.replaced
    BY <1>2
  <2> HIDE DEF change
  <2>2. ghost'.changes = ghost.changes \cup {change}
    BY <1>b DEF change
  <2> QED BY <2>1, <2>2 DEF SInv, ChangesProveThePassword
<1> QED BY <1>9, <1>10, <1>11, <1>12, <1>13, PasswordsLater

\* The change ends the user's other sessions, and marks the logins it overtook.
LEMMA RevokePasswords ==
  ASSUME SInv, Next, NEW who \in Clients, ChangeRevoke(who)
  PROVE  PasswordsOK'
<1>0. TypeInv /\ req \in [Clients -> Request]
  BY DEF SInv, TypeInv
<1> DEFINE w == req[who].user
           k == req[who].token
<1>1. /\ sessions' = RevokeUserExcept(sessions, w, k) /\ req[who].pc = "change revoke"
      /\ req' = [Overtaken(w) EXCEPT ![who] = Idle]
      /\ password' = password /\ tokens' = tokens /\ ending' = ending /\ ghost' = ghost
  BY DEF ChangeRevoke, authVars
<1>2. /\ req'[who] = Idle
      /\ \A d \in Clients : d # who => req'[d] = Overtaken(w)[d]
  BY <1>0, <1>1, Marks
<1>3. /\ \A d \in Clients : d # who => Moved(req[d], req'[d])
      /\ \A d \in Clients : d # who /\ Proving(req'[d]) /\ req'[d].user = w =>
            req'[d].overtaken \/ req'[d].hash = password[w]
  BY <1>2, MovedMarked
<1>4. ~Changing(req'[who]) /\ ~Proving(req'[who]) /\ Changing(req[who]) /\ who \in Changers(w)
  <2>1. ~Changing(Idle) /\ ~Proving(Idle)
    BY DEF Changing, Proving, Idle
  <2>2. Changing(req[who]) /\ who \in Changers(w)
    BY <1>1 DEF Changing, Changers
  <2> QED BY <1>2, <2>1, <2>2
<1>5. \A u : Changers(u)' = Changers(u) \ {who}
  BY <1>3, <1>4 DEF Changers, Moved
<1>6. \A u : \A d \in Changers(u)' : req'[d].token = req[d].token
  BY <1>3, <1>5 DEF Changers, Moved
<1>7. \A t \in DOMAIN sessions' : sessions'[t].user = w => t = k
  <2>1. \A t \in DOMAIN sessions' : sessions[t].user # w \/ t = k
    BY <1>1, Revoked
  <2> QED BY <1>1, <2>1, StillThere
<1>8. w \in Users
  BY <1>0, <1>1, RequestOf DEF TokenPcs, TokenReq
<1> HIDE DEF w, k
<1>9. ASSUME NEW t \in DOMAIN sessions', NEW u \in Users, sessions'[t].user = u
      PROVE  \/ ghost'.proved[t] = password'[u] \/ ending' = u \/ Changers(u)' # {} \/ t \in ghost'.overtaken
  <2>1. t \in DOMAIN sessions /\ sessions[t].user = u
    BY <1>1, <1>9, StillThere
  <2>2. CASE u = w
    <3>1. t = k
      BY <1>7, <1>9, <2>2
    <3>2. \/ ghost.proved[k] = password[u] \/ ending = u
          \/ \E d \in Changers(u) : ghost.proved[req[d].token] = password[u]
      BY <1>4, <2>1, <2>2, <3>1, PasswordsNow DEF k
    <3>3. \A d \in Changers(u) : d = who \/ d \in Changers(u)'
      BY <1>5
    <3> QED BY <1>1, <3>1, <3>2, <3>3 DEF k
  <2>3. CASE u # w
    <3>1. Changers(u)' = Changers(u)
      BY <1>5, <2>3 DEF Changers, w
    <3> QED BY <1>1, <2>1, <3>1, PasswordsNow
  <2> QED BY <2>2, <2>3
<1>10. ASSUME NEW u \in Users, NEW c \in Changers(u)', req'[c].token \in DOMAIN sessions'
       PROVE  \/ ghost'.proved[req'[c].token] = password'[u]
              \/ ending' = u
              \/ \E d \in Changers(u)' : ghost'.proved[req'[d].token] = password'[u]
  <2>1. /\ c \in Changers(u) /\ req'[c].token = req[c].token /\ req[c].token \in DOMAIN sessions
        /\ sessions'[req'[c].token].user = u
    <3>1. c \in Changers(u) /\ req'[c].token = req[c].token
      BY <1>5, <1>6, <1>10
    <3>2. req[c].token \in DOMAIN sessions
      BY <1>1, <1>10, <3>1, StillThere
    <3>3. c \in Clients /\ Changing(req'[c]) /\ req'[c].user = u
      BY DEF Changers
    <3>4. sessions'[req'[c].token].user = u
      BY <1>10, <3>3, TokensUser
    <3> QED BY <3>1, <3>2, <3>4
  <2>2. \/ ghost.proved[req[c].token] = password[u]
        \/ ending = u
        \/ \E d \in Changers(u) : ghost.proved[req[d].token] = password[u]
    BY <2>1, PasswordsNow
  <2>3. CASE u = w
    <3>1. req[c].token = k
      BY <1>7, <1>10, <2>1, <2>3
    <3>2. \A d \in Changers(u) : (d = who /\ req[d].token = req[c].token) \/ d \in Changers(u)'
      BY <1>5, <3>1 DEF k
    <3> QED BY ZenonT(40), <1>1, <1>6, <2>1, <2>2, <3>2
  <2>4. CASE u # w
    <3>1. Changers(u)' = Changers(u)
      BY <1>5, <2>4 DEF Changers, w
    <3> QED BY ZenonT(40), <1>1, <1>6, <2>1, <2>2, <3>1
  <2> QED BY <2>3, <2>4
<1>11. ASSUME NEW c \in Clients, NEW u, Proving(req'[c]), req'[c].user = u
       PROVE  req'[c].hash = password'[u] \/ req'[c].overtaken \/ ending' = u \/ Changers(u)' # {}
  <2>1. c # who /\ Moved(req[c], req'[c])
    BY <1>3, <1>4, <1>11
  <2>2. CASE u = w
    BY <1>1, <1>3, <1>11, <2>1, <2>2
  <2>3. CASE u # w
    <3>1. Changers(u)' = Changers(u)
      BY <1>5, <2>3 DEF Changers, w
    <3>2. \/ req'[c].hash = password[u]
          \/ Proving(req[c]) /\ req[c].user = u /\ req'[c].hash = req[c].hash
             /\ (req[c].overtaken => req'[c].overtaken)
      BY <1>11, <2>1 DEF Moved
    <3> QED BY <1>1, <3>1, <3>2, PasswordsNow
  <2> QED BY <2>2, <2>3
<1>12. \A t \in DOMAIN sessions' : sessions'[t].user \in Users
  BY <1>1, StillThere
<1> QED BY <1>9, <1>10, <1>11, <1>12, PasswordsLater

\* The steps of the requests' handlers, and of the others, one kind at a time.
LEMMA PasswordsStay ==
  ASSUME SInv, Next
  PROVE  PasswordsOK'
<1>1. CASE \E c \in Clients : Replaces(c)
  BY <1>1, ChangePasswords
<1>2. CASE \E c \in Clients : ChangeRevoke(c)
  BY <1>2, RevokePasswords
<1>3. CASE \A c \in Clients : ~Replaces(c) /\ ~ChangeRevoke(c)
  <2>1. \A d \in Clients : Moved(req[d], req'[d])
    BY <1>3, RequestMoves
  <2>2. CASE EndSessions
    BY <2>1, <2>2, EndPasswords
  <2>3. CASE \E u \in Users : ResetPassword(u) \/ DeleteUser(u) \/ CreateUser(u)
    BY <2>1, <2>3, AdminPasswords
  <2>4. CASE \E c \in Clients : LoginCreate(c)
    BY <2>1, <2>4, LoginPasswords
  <2>5. CASE /\ ~EndSessions
             /\ \A u \in Users : ~ResetPassword(u) /\ ~DeleteUser(u) /\ ~CreateUser(u)
             /\ \A c \in Clients : ~LoginCreate(c)
    BY <1>3, <2>1, <2>5, QuietSteps, QuietPasswords
  <2> QED BY <2>2, <2>3, <2>4, <2>5
<1> QED BY <1>1, <1>2, <1>3

\* The changes users made grow by a verified one only.
LEMMA ChangesStay ==
  ASSUME SInv, Next
  PROVE  ChangesProveThePassword'
<1>0. TypeInv /\ ChangesProveThePassword
  BY DEF SInv
<1>1. ghost'.changes = ghost.changes \/ \E c \in Clients : Replaces(c)
  <2>1. CASE Outside
    BY <1>0, <2>1, OutsideFrame
  <2>2. CASE EndSessions
    BY <2>2 DEF EndSessions
  <2>3. CASE \E u \in Users : ResetPassword(u) \/ DeleteUser(u) \/ CreateUser(u)
    BY <2>3 DEF ResetPassword, DeleteUser, CreateUser
  <2>4. ASSUME NEW c \in Clients, Arrive(c) \/ Step(c), ~Replaces(c)
        PROVE  ghost'.changes = ghost.changes
    <3>1. CASE LoginCreate(c)
      BY <3>1, Creates
    <3>2. CASE Admit(c)
      BY <3>2, Admits
    <3>3. CASE Logout(c) \/ ChangeRevoke(c)
      BY <3>3, Ending
    <3>4. CASE ~LoginCreate(c) /\ ~Admit(c) /\ ~Logout(c) /\ ~ChangeRevoke(c)
      BY <2>4, <3>4, Others
    <3> QED BY <3>1, <3>2, <3>3, <3>4
  <2> QED BY <2>1, <2>2, <2>3, <2>4, StepCases
<1> QED BY <1>0, <1>1, ChangePasswords DEF ChangesProveThePassword

\* Nothing happens.
LEMMA NothingMoves ==
  ASSUME SInv, UNCHANGED vars
  PROVE  SInv'
<1>1. /\ UNCHANGED <<clock, password, temporary, latest, guard, sessions, tokens, req, ending>>
      /\ UNCHANGED <<readers, admins, owner, feed, unsent, stream, ghost>>
  BY DEF vars, authVars, tableVars, rightVars, feedVars
<1>2. TypeInv'
  BY <1>1 DEF SInv, TypeInv, Existing
<1>3. RequestInv' /\ TableInv' /\ GuardInv'
  BY <1>1 DEF SInv, RequestInv, RequestOK, TableInv, GuardInv
<1>4. \A u : Changers(u)' = Changers(u)
  BY <1>1 DEF Changers
<1>5. SessionsMatchPasswords' /\ ChangesProveThePassword'
  BY <1>1 DEF SInv, SessionsMatchPasswords, ChangesProveThePassword
<1>6. ChangersInv'
  BY <1>1, <1>4 DEF SInv, ChangersInv
<1>7. LoginsInv'
  BY <1>1, <1>4 DEF SInv, LoginsInv, ProvesNow
<1>8. FeedInv'
  BY <1>1 DEF SInv, FeedInv, EventInv
<1>9. StreamInv'
  BY <1>1 DEF SInv, StreamInv, SubscriberOK
<1> QED BY <1>2, <1>3, <1>5, <1>6, <1>7, <1>8, <1>9 DEF SInv

LEMMA NextSInv ==
  ASSUME SInv, [Next]_vars
  PROVE  SInv'
<1>1. CASE Next
  BY <1>1, TypeStays, RequestStays, TableStays, GuardStays, PasswordsStay, ChangesStay, FeedStays,
     StreamSteps DEF SInv, PasswordsOK
<1> QED BY <1>1, NothingMoves

\* A server just started, or one a user has signed in to.
LEMMA InitSInv ==
  ASSUME Init
  PROVE  SInv
<1>1. /\ clock = 1 /\ password = [u \in Users |-> 1] /\ latest = 1 /\ temporary = {}
      /\ guard = Nothing /\ readers = Users /\ admins = Users
      /\ feed = <<>> /\ unsent = {} /\ ending = Nobody
      /\ req = [c \in Clients |-> Idle]
  BY DEF Init
<1>2. PICK u \in Users, some \in BOOLEAN :
        /\ tokens = IF some THEN 1 ELSE 0
        /\ sessions = IF some THEN Create(Nothing, 1, u, 0) ELSE Nothing
        /\ ghost = IF some THEN [NoHistory EXCEPT !.proved = [t \in {1} |-> 1], !.active = [t \in {1} |-> 0]]
                           ELSE NoHistory
        /\ stream = Closed \/ (some /\ stream = Opened(u, 1))
  BY DEF Init
<1>3. /\ tokens \in Nat
      /\ some => 1 .. tokens = {1}
      /\ ~some => 1 .. tokens = {}
  <2>1. some => tokens = 1
    BY <1>2
  <2>2. ~some => tokens = 0
    BY <1>2
  <2>3. 1 .. 1 = {1} /\ 1 .. 0 = {}
    OBVIOUS
  <2> QED BY <2>1, <2>2, <2>3
<1>4. /\ DOMAIN sessions = 1 .. tokens
      /\ \A t \in DOMAIN sessions : t = 1 /\ sessions[t] = [user |-> u, expires |-> 0 + TtlMillis, seen |-> 0]
      /\ sessions = [t \in DOMAIN sessions |-> sessions[t]]
  BY <1>2, <1>3 DEF Create, With, Nothing
<1>5. sessions \in [DOMAIN sessions -> Session]
  <2>1. \A t \in DOMAIN sessions : sessions[t] \in Session
    BY <1>4, SessionAssumption DEF Session
  <2> QED BY <1>4, <2>1
<1>6. /\ ghost.failed = [v \in Users |-> [n |-> 0, last |-> 0]]
      /\ ghost.overtaken = {} /\ ghost.changes = {}
      /\ \A t \in 1 .. tokens : ghost.proved[t] = 1 /\ ghost.active[t] = 0
      /\ ghost \in History(tokens)
  <2> DEFINE none == [v \in Users |-> [n |-> 0, last |-> 0]]
  <2>0. none \in [Users -> [n : Nat, last : Nat]]
    OBVIOUS
  <2>1. CASE some
    <3>1. ghost = [failed |-> none, proved |-> [t \in {1} |-> 1], active |-> [t \in {1} |-> 0],
                   overtaken |-> {}, changes |-> {}]
      BY <1>2, <2>1 DEF NoHistory
    <3>2. 1 .. tokens = {1}
      BY <1>3, <2>1
    <3>3. [t \in {1} |-> 1] \in [1 .. tokens -> Nat \ {0}] /\ [t \in {1} |-> 0] \in [1 .. tokens -> Nat]
      BY <3>2
    <3> QED BY <2>0, <3>1, <3>2, <3>3 DEF History
  <2>2. CASE ~some
    <3>1. ghost = [failed |-> none, proved |-> Nothing, active |-> Nothing,
                   overtaken |-> {}, changes |-> {}]
      BY <1>2, <2>2 DEF NoHistory
    <3>2. 1 .. tokens = {}
      BY <1>3, <2>2
    <3>3. Nothing \in [1 .. tokens -> Nat \ {0}] /\ Nothing \in [1 .. tokens -> Nat]
      BY <3>2 DEF Nothing
    <3> QED BY <2>0, <3>1, <3>2, <3>3 DEF History
  <2> QED BY <2>1, <2>2
<1>7. Len(feed) = 0 /\ DOMAIN feed = {} /\ feed \in Seq(EventRecord)
  BY <1>1
<1>8. stream \in {Closed} \cup Subscriber
  <2>1. CASE stream = Opened(u, 1)
    <3>1. stream = [pc |-> "open", user |-> u, token |-> 1, next |-> 1, isAdmin |-> u \in admins,
                    last |-> 0, lost |-> 0]
      BY <1>7, <2>1 DEF Opened
    <3>2. (u \in admins) \in BOOLEAN
      OBVIOUS
    <3> QED BY <3>1, <3>2 DEF Subscriber
  <2> QED BY <1>2, <2>1
<1>9. Existing = Users
  BY <1>1 DEF Existing, Gone
<1>10. TypeInv
  <2>1. guard \in [DOMAIN guard -> Entry] /\ DOMAIN guard = {}
    BY <1>1 DEF Nothing
  <2>2. req \in [Clients -> Request] /\ password \in [Users -> Nat]
    BY <1>1 DEF Request
  <2> QED BY <1>1, <1>3, <1>4, <1>5, <1>6, <1>7, <1>8, <1>9, <2>1, <2>2 DEF TypeInv
<1>11. \A c \in Clients : req[c].pc = "idle" /\ req[c] = Idle
  BY <1>1 DEF Idle
<1>12. \A v : Changers(v) = {}
  BY <1>11 DEF Changers, Changing
<1>13. RequestInv
  BY <1>11 DEF RequestInv, RequestOK, RequestAt, TokenPcs
<1>14. TableInv
  BY <1>1, <1>4, <1>6 DEF TableInv
<1>15. GuardInv
  BY <1>1 DEF GuardInv, Nothing
<1>16. SessionsMatchPasswords
  <2>1. \A t \in DOMAIN sessions : ghost.proved[t] = 1 /\ sessions[t].user \in Users
    BY <1>4, <1>6
  <2>2. \A v \in Users : password[v] = 1
    BY <1>1
  <2> QED BY <2>1, <2>2 DEF SessionsMatchPasswords
<1>17. ChangersInv /\ LoginsInv
  BY <1>11, <1>12 DEF ChangersInv, LoginsInv, Proving
<1>18. ChangesProveThePassword
  BY <1>6 DEF ChangesProveThePassword
<1>19. FeedInv
  BY <1>1, <1>7 DEF FeedInv
<1>20. StreamInv
  <2>1. SUFFICES ASSUME stream # Closed
                 PROVE  SubscriberOK(stream)
    BY DEF StreamInv
  <2>2. some /\ stream = Opened(u, 1)
    BY <1>2, <2>1
  <2>3. /\ stream.pc = "open" /\ stream.token = 1 /\ stream.next = Len(feed) + 1 /\ stream.last = 0
    BY <2>2 DEF Opened
  <2> QED BY <1>3, <1>7, <2>2, <2>3 DEF SubscriberOK
<1> QED BY <1>10, <1>13, <1>14, <1>15, <1>16, <1>17, <1>18, <1>19, <1>20 DEF SInv

-----------------------------------------------------------------------------
(* What it says of logins, lockouts and streams.                            *)

LEMMA SInvTypes ==
  ASSUME SInv
  PROVE  TypeOK
<1>1. TypeInv /\ TableInv /\ GuardInv /\ StreamInv
  BY DEF SInv
<1>2. \A u \in DOMAIN guard : guard[u].failures \in 1 .. ghost.failed[u].n
  <2>1. SUFFICES ASSUME NEW u \in DOMAIN guard
                 PROVE  guard[u].failures \in 1 .. ghost.failed[u].n
    OBVIOUS
  <2>2. guard[u].failures \in Nat \ {0} /\ ghost.failed[u].n \in Nat
    BY <1>1 DEF TypeInv, Entry, History
  <2>3. guard[u].failures <= ghost.failed[u].n
    BY <1>1 DEF GuardInv
  <2> QED BY <2>2, <2>3
<1>3. \A t \in DOMAIN sessions : sessions[t].user \in Users /\ sessions[t].seen <= clock
  BY <1>1 DEF TypeInv, Session, TableInv
<1>4. stream # Closed => stream.token \in 1 .. tokens /\ stream.next \in 1 .. Len(feed) + 1
  BY <1>1 DEF StreamInv, SubscriberOK
<1> QED BY <1>1, <1>2, <1>3, <1>4 DEF TypeInv, TypeOK

LEMMA SInvIdle ==
  ASSUME SInv
  PROVE  OnlyRequestsKeepASessionAlive
<1>1. SUFFICES ASSUME NEW t \in DOMAIN sessions, IsValid(sessions, t, clock), IdleMillis # 0
               PROVE  clock <= ghost.active[t] + IdleMillis
  BY DEF OnlyRequestsKeepASessionAlive
<1>2. /\ clock \in Nat /\ sessions[t].seen \in Nat /\ ghost.active[t] \in Nat
      /\ sessions[t].seen <= ghost.active[t]
  BY DEF SInv, TypeInv, Session, History, TableInv
<1>3. ~(clock > sessions[t].seen + IdleMillis)
  BY <1>1 DEF IsValid, Expired
<1> QED BY <1>2, <1>3, SessionAssumption

LEMMA SInvLockouts ==
  ASSUME SInv
  PROVE  LockoutsAreEarned
<1>1. SUFFICES ASSUME NEW u \in Users, IsLocked(guard, u, clock)
               PROVE  /\ ghost.failed[u].n >= MaxFailures
                      /\ clock < ghost.failed[u].last + LockoutMillis
  BY DEF LockoutsAreEarned
<1>2. u \in DOMAIN guard /\ clock < guard[u].until
  BY <1>1 DEF IsLocked
<1>3. /\ clock \in Nat /\ guard[u].until \in Nat /\ guard[u].failures \in Nat
      /\ ghost.failed[u].n \in Nat /\ ghost.failed[u].last \in Nat
  BY <1>2 DEF SInv, TypeInv, Entry, History
<1>4. guard[u].until # 0
  BY <1>2, <1>3
<1>5. /\ guard[u].failures <= ghost.failed[u].n /\ guard[u].failures >= MaxFailures
      /\ guard[u].until <= ghost.failed[u].last + LockoutMillis
  BY <1>2, <1>4 DEF SInv, GuardInv
<1> QED BY <1>2, <1>3, <1>5, GuardAssumption

\* What is sent is what was published after the event sent before.
LEMMA SentInOrder ==
  ASSUME SInv, [Next]_vars, stream.pc = "send", stream'.pc = "open"
  PROVE  stream'.last > stream.last
<1>1. stream # Closed /\ stream'.pc # "closed" /\ stream' # Closed /\ stream' # stream
  BY DEF Closed
<1>2. stream \in Subscriber /\ SubscriberOK(stream)
  BY <1>1 DEF SInv, TypeInv, StreamInv
<1>3. Send
  <2>1. Next
    BY <1>1 DEF vars
  <2>2. \A c \in Clients : ~OpenStream(c)
    BY <1>1 DEF OpenStream
  <2>3. Relay \/ Hangup
    BY <1>1, <2>1, <2>2, StreamFrame
  <2>4. ~Hangup
    BY <1>1 DEF Hangup, Pump
  <2> QED BY <2>3, <2>4 DEF Relay, Lag, Receive, Validate, Authorize, Decide
<1>4. stream.next \in DOMAIN feed /\ feed[stream.next].version = stream.next
  <2>1. stream.next \in 1 .. Len(feed) + 1 /\ stream.next <= Len(feed)
    BY <1>2 DEF SubscriberOK
  <2>2. feed \in Seq(EventRecord)
    BY DEF SInv, TypeInv
  <2>3. stream.next \in DOMAIN feed
    BY <2>1, <2>2
  <2> QED BY <2>3 DEF SInv, FeedInv
<1>5. stream'.last = stream.next
  BY <1>2, <1>3, <1>4 DEF Send, Pump, Skip, Subscriber
<1>6. stream.last < stream.next /\ stream.last \in Nat /\ stream.next \in Nat
  BY <1>2 DEF SubscriberOK, Subscriber
<1> QED BY <1>5, <1>6

\* The invariant the theorems below rest on holds in every state the handlers,
\* the administrator and the streams can reach together.
THEOREM Invariance == Spec => []SInv
<1>1. Init => SInv
  BY InitSInv
<1>2. SInv /\ [Next]_vars => SInv'
  BY NextSInv
<1> QED BY <1>1, <1>2, PTL DEF Spec

\* However logins, password changes, resets and logouts overlap, a session that
\* is there was opened, or kept, with its user's password as it is, is being
\* ended, or outlived a change its login had overtaken; two changes never both
\* succeed on one password; a lockout takes MaxFailures failures in a row; and
\* only requests keep a session from idling out (auth.rs, login_guard.rs,
\* session.rs).
THEOREM SessionsAreEarned == Spec => []LoginsAreEarned
<1>1. SInv => LoginsAreEarned
  BY SInvTypes, SInvIdle, SInvLockouts DEF LoginsAreEarned, SInv
<1> QED BY <1>1, Invariance, PTL

\* However session, flag and rights change between the three looks the pump
\* takes, an event it is about to send could be seen by the stream's user at
\* some time since it was published, and the stream's token still stood then
\* (ws.rs pump, delivery_for).
THEOREM StreamsTellTheirUsers == Spec => []StreamsTellWhatMayBeSeen
<1>1. SInv => StreamsTellWhatMayBeSeen
  <2>1. SUFFICES ASSUME SInv, stream.pc = "send"
                 PROVE  /\ stream.user \in feed[stream.next].may
                        /\ stream.token \notin feed[stream.next].ended
    BY DEF StreamsTellWhatMayBeSeen
  <2>2. stream # Closed
    BY <2>1 DEF Closed
  <2> QED BY <2>1, <2>2 DEF SInv, StreamInv, SubscriberOK
<1> QED BY <1>1, Invariance, PTL

\* A subscriber is sent events in the order of their commits, each once, for any
\* capacity of the channel and wherever it lags (ws.rs: the feed is "monotonic
\* per cube").
THEOREM SentInCommitOrder == Spec => EventsInCommitOrder
<1>1. SInv /\ [Next]_vars => [stream.pc = "send" /\ stream'.pc = "open" => stream'.last > stream.last]_vars
  BY SentInOrder
<1> QED BY <1>1, Invariance, PTL DEF Spec, EventsInCommitOrder

=============================================================================
