---------------------------- MODULE Access_proofs ----------------------------
(***************************************************************************)
(* Proofs about Access for any users, groups, cubes, clients and bounds:    *)
(* that rights are as they were last given (RightsAreAsGiven) and that an   *)
(* audit number is issued once when at most one append, crash or rot goes   *)
(* wrong.  Two break the second: a crash while the sequence file is         *)
(* rewritten and a header that rots leave nothing that tells the number.    *)
(***************************************************************************)
EXTENDS Access, FiniteSetTheorems, WellFoundedInduction, SequenceTheorems, TLAPS

-----------------------------------------------------------------------------
(* The inductive invariant.                                                 *)

IsFcn(f) == f = [x \in DOMAIN f |-> f[x]]

\* Access lists as the store keeps them: of known keys, with somebody on each.
ListsOK(lists, keys) ==
    /\ DOMAIN lists \subseteq keys
    /\ IsFcn(lists)
    /\ \A key \in DOMAIN lists :
          /\ DOMAIN lists[key] \subseteq Subjects /\ DOMAIN lists[key] # {}
          /\ IsFcn(lists[key])

AccountsOK(users, groups) ==
    /\ DOMAIN users \subseteq Users
    /\ IsFcn(users)
    /\ \A u \in DOMAIN users : users[u] \in [admin : BOOLEAN, groups : SUBSET groups]

StoreOK(s) ==
    /\ s = [users |-> s.users, groups |-> s.groups, grants |-> s.grants, acls |-> s.acls]
    /\ s.groups \subseteq Groups
    /\ AccountsOK(s.users, s.groups)
    /\ ListsOK(s.grants, GrantKeys)
    /\ ListsOK(s.acls, ElementKeys)
    /\ Admins(s) # {}

\* A document is what a good store is saved as.
DocOK(doc) == StoreOK(Loaded(doc)) /\ doc = Saved(Loaded(doc))

\* The changes of a request, whole or what is left of them.
ChangeOK(change) ==
    \/ \E u \in Users, admin \in BOOLEAN, groups \in SUBSET Groups :
          change = Change("create_user", <<u, admin, groups>>)
    \/ \E u \in Users, admin \in BOOLEAN : change = Change("set_admin", <<u, admin>>)
    \/ \E u \in Users, groups \in SUBSET Groups : change = Change("set_groups", <<u, groups>>)
    \/ \E u \in Users : change = Change("delete_user", <<u>>)
    \/ \E g \in Groups : change \in {Change("create_group", <<g>>), Change("delete_group", <<g>>)}
    \/ \E s \in Subjects, key \in GrantKeys, level \in GrantLevels :
          change = Change("set_grant", <<s, key, level>>)
    \/ \E s \in Subjects, key \in ElementKeys, level \in GrantLevels :
          change = Change("set_acl", <<s, key, level>>)

ChangesOK(s) ==
    \/ s = <<>>
    \/ s = <<s[1]>> /\ ChangeOK(s[1])
    \/ s = <<s[1], s[2]>> /\ ChangeOK(s[1]) /\ ChangeOK(s[2])

\* A request that only has its audit record to write may have had no change.
PlainRequest(r) == r = Idle \/ r = [pc |-> "audit"]
ActiveRequest(r) ==
    /\ r = [pc |-> r.pc, actor |-> r.actor, op |-> [changes |-> r.op.changes, ends |-> r.op.ends]]
    /\ r.pc \in {"gate", "change", "patching", "revoke", "audit"}
    /\ r.pc \in {"gate", "change", "patching"} => r.op.changes # <<>>
    /\ ChangesOK(r.op.changes)
RequestOK(r) == PlainRequest(r) \/ ActiveRequest(r)
RequestsOK(q) == DOMAIN q = Clients /\ \A c \in Clients : RequestOK(q[c])

SessionOK(s) == s = NoSession \/ s.user \in Users
SessionsOK(ss) == DOMAIN ss = Clients /\ \A c \in Clients : SessionOK(ss[c])

StoreInv ==
    /\ StoreOK(store) /\ DocOK(disk) /\ DocOK(previous)
    /\ Up => (disk = Saved(store) /\ Strangers(store) \subseteq named)

RequestInv ==
    /\ RequestsOK(req) /\ SessionsOK(sessions)
    /\ status \in {"up", "down"}
    /\ Up \/ \A c \in Clients : req[c] = Idle

\* The frames that replay finds, in order: their numbers grow, but for those in
\* again; and the frames after which a frame with this number is in order.
Whole(frames, i) == \A j \in 1 .. i : frames[j] # Torn
Ordered(frames, again) ==
    \A i, j \in DOMAIN frames :
        i < j /\ Whole(frames, j) =>
            frames[i] <= frames[j] /\ (frames[i] = frames[j] => frames[i] \in again)
Fits(frames, n, again) ==
    \A i \in DOMAIN frames : Whole(frames, i) => frames[i] < n \/ (frames[i] = n /\ n \in again)

\* Records with numbers that have been issued, or frames that hold them.
Below(records, n) == \A i \in DOMAIN records : records[i] < n

LogOK(l, again) ==
    /\ l = Log(l.records, l.next, l.attached) /\ l.attached \in BOOLEAN
    /\ l.records \in Seq(Nat) /\ l.next \in Nat
    /\ InOrder(l.records, again) /\ Below(l.records, l.next)

FilesOK(f, again) ==
    /\ f = Files(f.header, f.frames, f.mark) /\ f.header \in BOOLEAN
    /\ f.frames \in Seq(Nat \cup {Torn}) /\ f.mark \in Nat \cup {Unreadable}
    /\ Ordered(f.frames, again)

\* The numbers that may be repeated are those of the frames a failed sync left.
LogInv ==
    /\ LogOK(log, unsynced)
    /\ FilesOK(files, unsynced)
    /\ Up => Fits(files.frames, log.next, unsynced)

IInv == StoreInv /\ RequestInv /\ LogInv

(* What a restart finds of the numbers issued: in the sequence file, or in  *)
(* a record it replays.                                                     *)
Found(f, n) == f.header = TRUE /\ \E i \in DOMAIN f.frames : Whole(f.frames, i) /\ f.frames[i] + 1 >= n
Covers(f, n) == n = 0 \/ (f.mark # Unreadable /\ f.mark >= n) \/ Found(f, n)

\* Files nothing happened to: whole, and ending with the number issued last.
Clean(f) == Torn \notin ToSet(f.frames)
EndsBefore(frames, n) == frames # <<>> /\ frames[Len(frames)] = n - 1
Sound(f, n) ==
    /\ f.header = TRUE /\ f.mark = n /\ Clean(f) /\ Below(f.frames, n)
    /\ n = 0 \/ EndsBefore(f.frames, n)

IssueInv ==
    /\ issued \in Nat /\ faults \in 0 .. MaxFaults
    /\ Covers(files, issued)
    /\ Up => log.next >= issued
    /\ faults = 0 => Sound(files, log.next) /\ log.next >= issued /\ log.attached = TRUE

-----------------------------------------------------------------------------
(* Numbers and sequences of numbers.                                        *)

\* Every set of numbers that is not empty has a least one.
LEMMA LeastNumber ==
  ASSUME NEW S \in SUBSET Nat, S # {}
  PROVE  Min(S) \in S /\ \A n \in S : Min(S) <= n
<1> DEFINE below == {1 .. n : n \in S}
<1>1. IsWellFoundedOn(StrictSubsetOrdering(Nat), FiniteSubsetsOf(Nat))
  BY FS_StrictSubsetOrderingWellFounded
<1>2. \A n \in S : IsFiniteSet(1 .. n)
  BY FS_Interval
<1>3. below \subseteq FiniteSubsetsOf(Nat) /\ below # {}
  <2>1. \A n \in S : 1 .. n \in FiniteSubsetsOf(Nat)
    BY <1>2 DEF FiniteSubsetsOf
  <2> QED BY <2>1
<1>4. PICK B \in below : \A C \in below : <<C, B>> \notin StrictSubsetOrdering(Nat)
  <2> HIDE DEF below
  <2> QED BY <1>1, <1>3, WFMin
<1>5. PICK x \in S : B = 1 .. x
  OBVIOUS
<1>6. \A n \in S : x <= n
  <2> SUFFICES ASSUME NEW n \in S, n < x PROVE FALSE
    OBVIOUS
  <2>1. 1 .. n \in SUBSET (1 .. x) /\ x \notin 1 .. n /\ x \in 1 .. x
    OBVIOUS
  <2>2. 1 .. n \subseteq Nat /\ 1 .. x \subseteq Nat
    OBVIOUS
  <2>3. <<1 .. n, 1 .. x>> \in StrictSubsetOrdering(Nat)
    BY <2>1, <2>2 DEF StrictSubsetOrdering
  <2> QED BY <1>4, <1>5, <2>3
<1> QED BY <1>6 DEF Min

\* Numbers with an upper bound have a greatest one.
LEMMA GreatestNumber ==
  ASSUME NEW S \in SUBSET Nat, S # {}, NEW m \in Nat, \A n \in S : n <= m
  PROVE  Max(S) \in S /\ \A n \in S : n <= Max(S)
<1> DEFINE bounds_ == {b \in Nat : \A n \in S : n <= b}
           x == Min(bounds_)
<1>1. x \in bounds_ /\ \A b \in bounds_ : x <= b
  <2>1. bounds_ \in SUBSET Nat /\ bounds_ # {}
    OBVIOUS
  <2> HIDE DEF bounds_
  <2> QED BY <2>1, LeastNumber
<1>2. x \in Nat /\ \A n \in S : n <= x
  BY <1>1
<1>3. x \in S
  <2> SUFFICES ASSUME x \notin S PROVE FALSE
    OBVIOUS
  <2>1. \A n \in S : n <= x - 1
    <3> HIDE DEF x
    <3> QED BY <1>2
  <2>2. x - 1 \in Nat
    <3>1. PICK n \in S : TRUE
      OBVIOUS
    <3> HIDE DEF x
    <3> QED BY <2>1, <3>1, <1>2
  <2>3. x - 1 \in bounds_
    <3> HIDE DEF x
    <3> QED BY <2>1, <2>2
  <2> HIDE DEF x, bounds_
  <2> QED BY <1>1, <1>2, <2>3
<1> HIDE DEF x
<1>4. \E y \in S : \A n \in S : y >= n
  BY <1>2, <1>3
<1>5. Max(S) \in S /\ \A n \in S : Max(S) >= n
  BY <1>4 DEF Max
<1> QED BY <1>5

\* A sequence of numbers has an upper bound.
Bounded(R, n) == \E m \in Nat : \A i \in 1 .. n : R[i] < m

LEMMA BoundStep ==
  ASSUME NEW R \in Seq(Nat), NEW n \in 1 .. Len(R), Bounded(R, n - 1)
  PROVE  Bounded(R, n)
<1>1. PICK m \in Nat : \A i \in 1 .. n - 1 : R[i] < m
  BY DEF Bounded
<1>2. R[n] \in Nat
  OBVIOUS
<1>3. PICK k \in Nat : k >= m /\ k > R[n]
  <2>1. CASE m > R[n]
    BY <2>1
  <2>2. CASE ~(m > R[n])
    <3>1. R[n] + 1 \in Nat /\ R[n] + 1 >= m /\ R[n] + 1 > R[n]
      BY <1>2, <2>2
    <3> QED BY <3>1
  <2> QED BY <2>1, <2>2
<1>4. ASSUME NEW i \in 1 .. n PROVE R[i] < k
  <2>1. i \in 1 .. n - 1 \/ i = n
    OBVIOUS
  <2>2. R[i] \in Nat
    OBVIOUS
  <2> QED BY <1>1, <1>3, <2>1, <2>2
<1> QED BY <1>4 DEF Bounded

LEMMA SequenceBounded ==
  ASSUME NEW R \in Seq(Nat)
  PROVE  Bounded(R, Len(R))
<1> DEFINE bad == {n \in 0 .. Len(R) : ~Bounded(R, n)}
<1> SUFFICES ASSUME bad # {} PROVE FALSE
  OBVIOUS
<1>1. bad \in SUBSET Nat
  OBVIOUS
<1>2. PICK n \in bad : \A k \in bad : n <= k
  <2> HIDE DEF bad
  <2> QED BY <1>1, LeastNumber
<1>3. n \in 0 .. Len(R) /\ ~Bounded(R, n)
  OBVIOUS
<1>4. n # 0
  <2>1. 0 \in Nat /\ \A i \in 1 .. 0 : R[i] < 0
    OBVIOUS
  <2>2. Bounded(R, 0)
    BY <2>1 DEF Bounded
  <2> QED BY <1>3, <2>2
<1>5. n \in 1 .. Len(R) /\ n - 1 \in 0 .. Len(R) /\ ~(n <= n - 1)
  BY <1>3, <1>4
<1>6. Bounded(R, n - 1)
  BY <1>2, <1>5
<1> QED BY <1>3, <1>5, <1>6, BoundStep

-----------------------------------------------------------------------------
(* Access lists.                                                            *)

\* A list is the empty one when nobody is on it.
LEMMA EmptyList ==
  ASSUME NEW f, IsFcn(f)
  PROVE  f = <<>> <=> DOMAIN f = {}
<1>1. DOMAIN <<>> = {}
  OBVIOUS
<1>2. <<>> = [x \in {} |-> f[x]]
  OBVIOUS
<1> QED BY <1>1, <1>2 DEF IsFcn

ListedIn(lists) == UNION {DOMAIN lists[key] : key \in DOMAIN lists}

LEMMA ListedParts ==
  ASSUME NEW s
  PROVE  Listed(s) = ListedIn(s.grants) \cup ListedIn(s.acls)
<1>1. Listed(s) = (UNION {DOMAIN s.grants[key] : key \in DOMAIN s.grants})
                  \cup (UNION {DOMAIN s.acls[key] : key \in DOMAIN s.acls})
  BY DEF Listed
<1> QED BY <1>1 DEF ListedIn

\* What Without and With make of a function.
IsWithout(g, f, x) == DOMAIN g = DOMAIN f \ {x} /\ IsFcn(g) /\ \A y \in DOMAIN g : g[y] = f[y]
IsWith(g, f, x, v) ==
    /\ DOMAIN g = DOMAIN f \cup {x} /\ IsFcn(g)
    /\ g[x] = v /\ \A y \in DOMAIN f : y # x => g[y] = f[y]

LEMMA WithoutIs ==
  ASSUME NEW f, NEW x
  PROVE  IsWithout(Without(f, x), f, x)
  BY DEF Without, IsWithout, IsFcn

LEMMA WithIs ==
  ASSUME NEW f, NEW x, NEW v
  PROVE  IsWith(With(f, x, v), f, x, v)
  BY DEF With, IsWith, IsFcn

\* A purge keeps the lists in order and the subject off all of them.
LEMMA PurgedLists ==
  ASSUME NEW lists, NEW keys, ListsOK(lists, keys), NEW x
  PROVE  /\ ListsOK(Purged(lists, x), keys)
         /\ ListedIn(Purged(lists, x)) \subseteq ListedIn(lists) \ {x}
<1> DEFINE left == {key \in DOMAIN lists : Without(lists[key], x) # <<>>}
           P == Purged(lists, x)
<1>1. P = [key \in left |-> Without(lists[key], x)]
  BY DEF Purged
<1>2. /\ DOMAIN P = left /\ left \subseteq DOMAIN lists
      /\ \A key \in left : P[key] = Without(lists[key], x)
  BY <1>1
<1>3. IsFcn(P)
  BY <1>1 DEF IsFcn
<1>4. ASSUME NEW key \in left
      PROVE  DOMAIN P[key] = DOMAIN lists[key] \ {x} /\ IsFcn(P[key])
  <2>1. P[key] = Without(lists[key], x)
    BY <1>2
  <2>2. IsWithout(P[key], lists[key], x)
    BY <2>1, WithoutIs
  <2> HIDE DEF P
  <2> QED BY <2>2 DEF IsWithout
<1>5. \A key \in left : DOMAIN P[key] # {}
  <2> SUFFICES ASSUME NEW key \in left PROVE DOMAIN P[key] # {}
    OBVIOUS
  <2>1. P[key] # <<>>
    BY <1>2
  <2> HIDE DEF P, left
  <2> QED BY <2>1, <1>4, EmptyList
<1> HIDE DEF P, left
<1>6. ListsOK(P, keys)
  BY <1>2, <1>3, <1>4, <1>5 DEF ListsOK
<1>7. ListedIn(P) \subseteq ListedIn(lists) \ {x}
  BY <1>2, <1>4 DEF ListedIn
<1> QED BY <1>6, <1>7 DEF P

\* Setting a level keeps the lists in order and lists nobody else.
LEMMA SetInLists ==
  ASSUME NEW lists, NEW keys, ListsOK(lists, keys), NEW key \in keys,
         NEW x \in Subjects, NEW level
  PROVE  /\ ListsOK(SetIn(lists, key, x, level), keys)
         /\ ListedIn(SetIn(lists, key, x, level)) \subseteq ListedIn(lists) \cup {x}
<1> DEFINE E == Entry(lists, key)
           L == SetLevel(E, x, level)
           R == SetIn(lists, key, x, level)
<1>1. E = <<>> \/ (key \in DOMAIN lists /\ E = lists[key])
  BY DEF Entry
<1>2. DOMAIN E \subseteq Subjects /\ DOMAIN E \subseteq ListedIn(lists)
  <2>1. CASE E = <<>>
    BY <2>1
  <2>2. CASE key \in DOMAIN lists /\ E = lists[key]
    BY <2>2 DEF ListsOK, ListedIn
  <2> QED BY <1>1, <2>1, <2>2
<1> HIDE DEF E
<1>3. L = Without(E, x) \/ L = With(E, x, level)
  BY DEF SetLevel
<1> HIDE DEF L
<1>4. /\ DOMAIN L \subseteq Subjects /\ DOMAIN L \subseteq ListedIn(lists) \cup {x}
      /\ IsFcn(L)
  <2>1. CASE L = Without(E, x)
    <3>1. IsWithout(L, E, x)
      BY <2>1, WithoutIs
    <3> QED BY <3>1, <1>2 DEF IsWithout
  <2>2. CASE L = With(E, x, level)
    <3>1. IsWith(L, E, x, level)
      BY <2>2, WithIs
    <3> QED BY <3>1, <1>2 DEF IsWith
  <2> QED BY <1>3, <2>1, <2>2
<1>5. CASE L = <<>>
  <2>1. R = Without(lists, key)
    BY <1>5 DEF SetIn, L, E
  <2> HIDE DEF R
  <2>2. /\ DOMAIN R = DOMAIN lists \ {key} /\ IsFcn(R)
        /\ \A k \in DOMAIN R : R[k] = lists[k]
    <3>1. IsWithout(R, lists, key)
      BY <2>1, WithoutIs
    <3> QED BY <3>1 DEF IsWithout
  <2>3. ListsOK(R, keys)
    BY <2>2 DEF ListsOK
  <2>4. ListedIn(R) \subseteq ListedIn(lists)
    BY <2>2 DEF ListedIn
  <2> QED BY <2>3, <2>4 DEF R
<1>6. CASE L # <<>>
  <2>1. R = With(lists, key, L)
    BY <1>6 DEF SetIn, L, E
  <2> HIDE DEF R
  <2>2. /\ DOMAIN R = DOMAIN lists \cup {key} /\ IsFcn(R)
        /\ R[key] = L /\ \A k \in DOMAIN lists : k # key => R[k] = lists[k]
    <3>1. IsWith(R, lists, key, L)
      BY <2>1, WithIs
    <3> QED BY <3>1 DEF IsWith
  <2>3. DOMAIN L # {}
    BY <1>4, <1>6, EmptyList
  <2>4. ListsOK(R, keys)
    BY <2>2, <2>3, <1>4 DEF ListsOK
  <2>5. ListedIn(R) \subseteq ListedIn(lists) \cup {x}
    BY <2>2, <1>4 DEF ListedIn
  <2> QED BY <2>4, <2>5 DEF R
<1> QED BY <1>5, <1>6

-----------------------------------------------------------------------------
(* The document gives back what was saved.                                  *)

LEMMA RowsAre ==
  ASSUME NEW lists
  PROVE  \A r : r \in Rows(lists) <=>
             \E key \in DOMAIN lists : \E s \in DOMAIN lists[key] : r = <<key, s, lists[key][s]>>
  BY DEF Rows

LEMMA RoundTrip ==
  ASSUME NEW lists, NEW keys, ListsOK(lists, keys)
  PROVE  ListsOf(Rows(lists)) = lists
<1> DEFINE rows == Rows(lists)
           back == ListsOf(rows)
           subjects(key) == {r[2] : r \in {q \in rows : q[1] = key}}
           row(key, s) == CHOOSE r \in rows : r[1] = key /\ r[2] = s
<1>1. \A r : r \in rows <=>
          \E key \in DOMAIN lists : \E s \in DOMAIN lists[key] : r = <<key, s, lists[key][s]>>
  BY RowsAre
<1>2. back = [key \in {r[1] : r \in rows} |-> [s \in subjects(key) |-> row(key, s)[3]]]
  BY DEF ListsOf
<1> HIDE DEF rows, back
<1>3. {r[1] : r \in rows} = DOMAIN lists
  <2>1. \A r \in rows : r[1] \in DOMAIN lists
    BY <1>1
  <2>2. ASSUME NEW key \in DOMAIN lists PROVE \E r \in rows : r[1] = key
    <3>1. PICK s : s \in DOMAIN lists[key]
      BY DEF ListsOK
    <3> DEFINE r == <<key, s, lists[key][s]>>
    <3>2. r \in rows /\ r[1] = key
      BY <1>1, <3>1
    <3> QED BY <3>2
  <2> QED BY <2>1, <2>2
<1>4. ASSUME NEW key \in DOMAIN lists
      PROVE  subjects(key) = DOMAIN lists[key]
  <2>1. \A r \in rows : r[1] = key => r[2] \in DOMAIN lists[key]
    BY <1>1
  <2>2. ASSUME NEW s \in DOMAIN lists[key] PROVE \E r \in rows : r[1] = key /\ r[2] = s
    <3> DEFINE r == <<key, s, lists[key][s]>>
    <3>1. r \in rows /\ r[1] = key /\ r[2] = s
      BY <1>1
    <3> QED BY <3>1
  <2> QED BY <2>1, <2>2
<1>5. ASSUME NEW key \in DOMAIN lists, NEW s \in DOMAIN lists[key]
      PROVE  row(key, s)[3] = lists[key][s]
  <2> DEFINE own == <<key, s, lists[key][s]>>
  <2>1. own \in rows /\ own[1] = key /\ own[2] = s
    BY <1>1
  <2>2. row(key, s) \in rows /\ row(key, s)[1] = key /\ row(key, s)[2] = s
    BY <2>1
  <2> HIDE DEF row
  <2> QED BY <1>1, <2>2
<1> HIDE DEF subjects, row
<1>6. DOMAIN back = DOMAIN lists /\ IsFcn(back)
  BY <1>2, <1>3 DEF IsFcn
<1>7. ASSUME NEW key \in DOMAIN lists PROVE back[key] = lists[key]
  <2>1. back[key] = [s \in DOMAIN lists[key] |-> row(key, s)[3]]
    BY <1>2, <1>3, <1>4
  <2>2. back[key] = [s \in DOMAIN lists[key] |-> lists[key][s]]
    BY <2>1, <1>5
  <2>3. IsFcn(lists[key])
    BY DEF ListsOK
  <2> QED BY <2>2, <2>3 DEF IsFcn
<1>8. back = lists
  <2>1. IsFcn(lists)
    BY DEF ListsOK
  <2> QED BY <1>6, <1>7, <2>1 DEF IsFcn
<1> QED BY <1>8 DEF back, rows

LEMMA SavedIsLoaded ==
  ASSUME NEW s, StoreOK(s)
  PROVE  Loaded(Saved(s)) = s /\ DocOK(Saved(s))
<1>1. ListsOf(Rows(s.grants)) = s.grants /\ ListsOf(Rows(s.acls)) = s.acls
  BY RoundTrip DEF StoreOK
<1>2. Loaded(Saved(s)) = s
  BY <1>1 DEF Loaded, Saved, StoreOK
<1> QED BY <1>2 DEF DocOK

-----------------------------------------------------------------------------
(* The changes: a good store stays one, and nobody comes to be listed who   *)
(* does not exist, but the subject of a grant.                              *)

IsRecord(s) == s = [users |-> s.users, groups |-> s.groups, grants |-> s.grants, acls |-> s.acls]
Follows(t, s, given) == StoreOK(t) /\ Strangers(t) \subseteq Strangers(s) \cup given

LEMMA RecordParts ==
  ASSUME NEW users, NEW groups, NEW grants, NEW acls, NEW t,
         t = [users |-> users, groups |-> groups, grants |-> grants, acls |-> acls]
  PROVE  IsRecord(t) /\ t.users = users /\ t.groups = groups /\ t.grants = grants /\ t.acls = acls
  BY DEF IsRecord

LEMMA ListedSubjects ==
  ASSUME NEW s, StoreOK(s)
  PROVE  Listed(s) \subseteq Subjects
<1>1. ListedIn(s.grants) \subseteq Subjects /\ ListedIn(s.acls) \subseteq Subjects
  BY DEF StoreOK, ListsOK, ListedIn
<1> QED BY <1>1, ListedParts

\* Changes of users and groups that remove none of them.
LEMMA UsersGrow ==
  ASSUME NEW s, StoreOK(s), NEW t, IsRecord(t), t.grants = s.grants, t.acls = s.acls,
         t.groups \subseteq Groups, s.groups \subseteq t.groups,
         AccountsOK(t.users, t.groups), DOMAIN s.users \subseteq DOMAIN t.users, Admins(t) # {}
  PROVE  Follows(t, s, {})
<1>1. StoreOK(t)
  BY DEF StoreOK, IsRecord
<1>2. Listed(t) = Listed(s)
  BY ListedParts
<1>3. \A x : Exists(s, x) => Exists(t, x)
  BY DEF Exists
<1> QED BY <1>1, <1>2, <1>3 DEF Follows, Strangers

LEMMA CreateUserFollows ==
  ASSUME NEW s, StoreOK(s), NEW u \in Users, NEW admin \in BOOLEAN, NEW groups \in SUBSET Groups,
         NEW t \in CreateUser(s, u, admin, groups)
  PROVE  Follows(t, s, {})
<1> DEFINE account == Account(admin, groups)
           users == With(s.users, u, account)
<1>1. /\ u \notin DOMAIN s.users
      /\ t = [s EXCEPT !.users = users, !.groups = s.groups \cup groups]
  BY DEF CreateUser, StoreOK
<1>2. IsWith(users, s.users, u, account)
  BY WithIs
<1>3. account \in [admin : BOOLEAN, groups : SUBSET (s.groups \cup groups)]
  BY DEF Account
<1> HIDE DEF users, account
<1>4. /\ t = [users |-> users, groups |-> s.groups \cup groups, grants |-> s.grants, acls |-> s.acls]
  BY <1>1 DEF StoreOK
<1>5. /\ IsRecord(t) /\ t.grants = s.grants /\ t.acls = s.acls
      /\ t.groups = s.groups \cup groups /\ t.users = users
  BY <1>4 DEF IsRecord
<1>6. DOMAIN s.users \subseteq DOMAIN users
  BY <1>2 DEF IsWith
<1>7. AccountsOK(users, s.groups \cup groups)
  <2>1. DOMAIN users \subseteq Users /\ IsFcn(users)
    BY <1>2 DEF IsWith, StoreOK, AccountsOK
  <2>2. ASSUME NEW v \in DOMAIN users
        PROVE  users[v] \in [admin : BOOLEAN, groups : SUBSET (s.groups \cup groups)]
    <3>1. CASE v = u
      BY <3>1, <1>2, <1>3 DEF IsWith
    <3>2. CASE v # u
      <4>1. v \in DOMAIN s.users /\ users[v] = s.users[v]
        BY <3>2, <1>2 DEF IsWith
      <4>2. s.users[v] \in [admin : BOOLEAN, groups : SUBSET s.groups]
        BY <4>1 DEF StoreOK, AccountsOK
      <4> QED BY <4>1, <4>2
    <3> QED BY <3>1, <3>2
  <2> QED BY <2>1, <2>2 DEF AccountsOK
<1>8. Admins(s) \subseteq Admins(t)
  <2>1. ASSUME NEW v \in Admins(s) PROVE v \in Admins(t)
    BY <1>1, <1>2, <1>5 DEF Admins, IsWith
  <2> QED BY <2>1
<1>9. Admins(t) # {} /\ t.groups \subseteq Groups
  BY <1>5, <1>8 DEF StoreOK
<1> QED BY <1>5, <1>6, <1>7, <1>9, UsersGrow

\* Somebody else is an administrator when this one is not the last.
LEMMA AnotherAdmin ==
  ASSUME NEW s, StoreOK(s), NEW u, ~LastAdmin(s, u)
  PROVE  \E v \in Admins(s) : v # u
<1>1. Admins(s) # {u}
  <2>1. Cardinality({u}) = 1
    BY FS_Singleton
  <2> QED BY <2>1 DEF LastAdmin
<1> QED BY <1>1 DEF StoreOK

\* One account changes.
Patched(s, u, account, more) ==
    [s EXCEPT !.users = [s.users EXCEPT ![u] = account], !.groups = s.groups \cup more]

LEMMA AccountFollows ==
  ASSUME NEW s, StoreOK(s), NEW u \in DOMAIN s.users, NEW more \in SUBSET Groups,
         NEW account \in [admin : BOOLEAN, groups : SUBSET (s.groups \cup more)],
         NEW t, t = Patched(s, u, account, more),
         account.admin \/ \E v \in Admins(s) : v # u
  PROVE  Follows(t, s, {})
<1> DEFINE users == [s.users EXCEPT ![u] = account]
<1>1. /\ DOMAIN users = DOMAIN s.users /\ IsFcn(users)
      /\ users[u] = account /\ \A v \in DOMAIN s.users : v # u => users[v] = s.users[v]
  BY DEF StoreOK, AccountsOK, IsFcn
<1> HIDE DEF users
<1>2. t = [users |-> users, groups |-> s.groups \cup more, grants |-> s.grants, acls |-> s.acls]
  BY DEF StoreOK, users, Patched
<1>3. /\ IsRecord(t) /\ t.grants = s.grants /\ t.acls = s.acls
      /\ t.groups = s.groups \cup more /\ t.users = users
  BY <1>2, RecordParts
<1>4. AccountsOK(users, s.groups \cup more)
  <2>1. ASSUME NEW v \in DOMAIN users
        PROVE  users[v] \in [admin : BOOLEAN, groups : SUBSET (s.groups \cup more)]
    <3>1. CASE v = u
      BY <3>1, <1>1
    <3>2. CASE v # u
      <4>1. v \in DOMAIN s.users /\ users[v] = s.users[v]
        BY <3>2, <1>1
      <4>2. s.users[v] \in [admin : BOOLEAN, groups : SUBSET s.groups]
        BY <4>1 DEF StoreOK, AccountsOK
      <4> QED BY <4>1, <4>2
    <3> QED BY <3>1, <3>2
  <2> QED BY <1>1, <2>1 DEF AccountsOK, StoreOK
<1>5. Admins(t) # {}
  <2>1. CASE account.admin
    BY <2>1, <1>1, <1>3 DEF Admins
  <2>2. ASSUME NEW v \in Admins(s), v # u PROVE v \in Admins(t)
    BY <2>2, <1>1, <1>3 DEF Admins
  <2> QED BY <2>1, <2>2
<1>6. t.groups \subseteq Groups
  BY <1>3 DEF StoreOK
<1> QED BY <1>1, <1>3, <1>4, <1>5, <1>6, UsersGrow

LEMMA SetUserAdminFollows ==
  ASSUME NEW s, StoreOK(s), NEW u \in Users, NEW admin \in BOOLEAN,
         NEW t \in SetUserAdmin(s, u, admin)
  PROVE  Follows(t, s, {})
<1> DEFINE account == [s.users[u] EXCEPT !.admin = admin]
<1>1. /\ u \in DOMAIN s.users /\ (admin \/ ~LastAdmin(s, u))
      /\ t = [s EXCEPT !.users[u].admin = admin]
  BY DEF SetUserAdmin
<1>2. s.users[u] \in [admin : BOOLEAN, groups : SUBSET s.groups]
  BY <1>1 DEF StoreOK, AccountsOK
<1>3. account \in [admin : BOOLEAN, groups : SUBSET (s.groups \cup {})] /\ account.admin = admin
  BY <1>2
<1>4. t = Patched(s, u, account, {})
  BY <1>1 DEF StoreOK, Patched
<1> HIDE DEF account
<1>5. account.admin \/ \E v \in Admins(s) : v # u
  BY <1>1, <1>3, AnotherAdmin
<1> QED BY <1>1, <1>3, <1>4, <1>5, AccountFollows

LEMMA SetUserGroupsFollows ==
  ASSUME NEW s, StoreOK(s), NEW u \in Users, NEW groups \in SUBSET Groups,
         NEW t \in SetUserGroups(s, u, groups)
  PROVE  Follows(t, s, {})
<1> DEFINE account == [s.users[u] EXCEPT !.groups = groups]
<1>1. /\ u \in DOMAIN s.users
      /\ t = [s EXCEPT !.users[u].groups = groups, !.groups = s.groups \cup groups]
  BY DEF SetUserGroups
<1>2. s.users[u] \in [admin : BOOLEAN, groups : SUBSET s.groups]
  BY <1>1 DEF StoreOK, AccountsOK
<1>3. account \in [admin : BOOLEAN, groups : SUBSET (s.groups \cup groups)]
      /\ account.admin = s.users[u].admin
  BY <1>2
<1>4. t = Patched(s, u, account, groups)
  BY <1>1 DEF StoreOK, Patched
<1> HIDE DEF account
<1>5. account.admin \/ \E v \in Admins(s) : v # u
  BY <1>1, <1>3 DEF Admins, StoreOK
<1> QED BY <1>1, <1>3, <1>4, <1>5, AccountFollows

LEMMA CreateGroupFollows ==
  ASSUME NEW s, StoreOK(s), NEW g \in Groups, NEW t \in CreateGroup(s, g)
  PROVE  Follows(t, s, {})
<1>1. t = [users |-> s.users, groups |-> s.groups \cup {g}, grants |-> s.grants, acls |-> s.acls]
  BY DEF CreateGroup, StoreOK
<1>2. /\ IsRecord(t) /\ t.grants = s.grants /\ t.acls = s.acls
      /\ t.groups = s.groups \cup {g} /\ t.users = s.users
  BY <1>1 DEF IsRecord
<1>3. AccountsOK(t.users, t.groups)
  <2>1. \A v \in DOMAIN s.users : s.users[v] \in [admin : BOOLEAN, groups : SUBSET (s.groups \cup {g})]
    BY DEF StoreOK, AccountsOK
  <2> QED BY <1>2, <2>1 DEF AccountsOK, StoreOK
<1>4. Admins(t) = Admins(s)
  BY <1>2 DEF Admins
<1> QED BY <1>2, <1>3, <1>4, UsersGrow DEF StoreOK

\* A subject goes, and with it every mention of it.
LEMMA PurgeFollows ==
  ASSUME NEW s, StoreOK(s), NEW r, IsRecord(r), r.grants = s.grants, r.acls = s.acls,
         r.groups \subseteq Groups, AccountsOK(r.users, r.groups), Admins(r) # {},
         NEW x, \A y \in Subjects : y # x /\ Exists(s, y) => Exists(r, y),
         NEW t, t = Purge(r, x)
  PROVE  Follows(t, s, {})
<1> DEFINE grants == Purged(s.grants, x)
           acls == Purged(s.acls, x)
<1>1. t = [users |-> r.users, groups |-> r.groups, grants |-> grants, acls |-> acls]
  BY DEF Purge, IsRecord
<1>2. /\ ListsOK(grants, GrantKeys) /\ ListedIn(grants) \subseteq ListedIn(s.grants) \ {x}
      /\ ListsOK(acls, ElementKeys) /\ ListedIn(acls) \subseteq ListedIn(s.acls) \ {x}
  BY PurgedLists DEF StoreOK
<1> HIDE DEF grants, acls
<1>3. /\ IsRecord(t) /\ t.users = r.users /\ t.groups = r.groups
      /\ t.grants = grants /\ t.acls = acls
  BY <1>1, RecordParts
<1>4. Admins(t) # {}
  BY <1>3 DEF Admins
<1>5. StoreOK(t)
  BY <1>2, <1>3, <1>4 DEF StoreOK, IsRecord
<1>6. Listed(t) \subseteq Listed(s) \ {x} /\ Listed(s) \subseteq Subjects
  BY <1>2, <1>3, ListedParts, ListedSubjects
<1>7. \A y : Exists(r, y) => Exists(t, y)
  BY <1>3 DEF Exists
<1>8. Strangers(t) \subseteq Strangers(s)
  <2>1. ASSUME NEW y \in Strangers(t) PROVE y \in Strangers(s)
    <3>1. y \in Listed(t) /\ ~Exists(t, y)
      BY DEF Strangers
    <3>2. y \in Subjects /\ y # x /\ y \in Listed(s)
      BY <3>1, <1>6
    <3>3. ~Exists(s, y)
      BY <3>1, <3>2, <1>7
    <3> QED BY <3>2, <3>3 DEF Strangers
  <2> QED BY <2>1
<1> QED BY <1>5, <1>8 DEF Follows

LEMMA DeleteUserFollows ==
  ASSUME NEW s, StoreOK(s), NEW u \in Users, NEW t \in DeleteUser(s, u)
  PROVE  Follows(t, s, {})
<1> DEFINE users == Without(s.users, u)
           r == [s EXCEPT !.users = users]
<1>1. u \in DOMAIN s.users /\ ~LastAdmin(s, u) /\ t = Purge(r, User(u))
  BY DEF DeleteUser
<1>2. IsWithout(users, s.users, u)
  BY WithoutIs
<1>3. r = [users |-> users, groups |-> s.groups, grants |-> s.grants, acls |-> s.acls]
  BY DEF StoreOK
<1> HIDE DEF users, r
<1>4. /\ IsRecord(r) /\ r.users = users /\ r.groups = s.groups
      /\ r.grants = s.grants /\ r.acls = s.acls
  BY <1>3, RecordParts
<1>5. AccountsOK(users, s.groups)
  <2>1. \A v \in DOMAIN users : v \in DOMAIN s.users /\ users[v] = s.users[v]
    BY <1>2 DEF IsWithout
  <2> QED BY <1>2, <2>1 DEF AccountsOK, IsWithout, StoreOK
<1>6. Admins(r) # {}
  <2>1. PICK v \in Admins(s) : v # u
    BY <1>1, AnotherAdmin
  <2>2. v \in Admins(r)
    BY <1>2, <1>4, <2>1 DEF Admins, IsWithout
  <2> QED BY <2>2
<1>7. ASSUME NEW y \in Subjects, y # User(u), Exists(s, y) PROVE Exists(r, y)
  <2>1. CASE \E v \in Users : y = User(v)
    BY <2>1, <1>2, <1>4, <1>7 DEF User, Exists, IsWithout
  <2>2. CASE \E g \in Groups : y = Group(g)
    BY <2>2, <1>4, <1>7 DEF Group, Exists
  <2> QED BY <2>1, <2>2 DEF Subjects
<1>8. r.groups \subseteq Groups
  BY <1>4 DEF StoreOK
<1> QED BY <1>1, <1>4, <1>5, <1>6, <1>7, <1>8, PurgeFollows

LEMMA DeleteGroupFollows ==
  ASSUME NEW s, StoreOK(s), NEW g \in Groups, NEW t \in DeleteGroup(s, g)
  PROVE  Follows(t, s, {})
<1> DEFINE users == Ungrouped(s.users, g)
           r == [s EXCEPT !.groups = s.groups \ {g}, !.users = users]
<1>1. t = Purge(r, Group(g))
  BY DEF DeleteGroup
<1>2. /\ DOMAIN users = DOMAIN s.users /\ IsFcn(users)
      /\ \A v \in DOMAIN users :
            users[v] = [s.users[v] EXCEPT !.groups = s.users[v].groups \ {g}]
  BY DEF IsFcn, Ungrouped
<1>3. r = [users |-> users, groups |-> s.groups \ {g}, grants |-> s.grants, acls |-> s.acls]
  <2>1. PICK U, G, L, A : s = [users |-> U, groups |-> G, grants |-> L, acls |-> A]
    BY DEF StoreOK
  <2> HIDE DEF users
  <2>2. PICK q : q = [s EXCEPT !.groups = s.groups \ {g}]
    OBVIOUS
  <2>3. q = [users |-> U, groups |-> G \ {g}, grants |-> L, acls |-> A]
    BY <2>1, <2>2
  <2>4. [q EXCEPT !.users = users] = [users |-> users, groups |-> G \ {g}, grants |-> L, acls |-> A]
    BY <2>3
  <2> QED BY <2>1, <2>2, <2>4
<1> HIDE DEF users, r
<1>4. /\ IsRecord(r) /\ r.users = users /\ r.groups = s.groups \ {g}
      /\ r.grants = s.grants /\ r.acls = s.acls
  BY <1>3, RecordParts
<1>5. ASSUME NEW v \in DOMAIN users
      PROVE  /\ users[v] \in [admin : BOOLEAN, groups : SUBSET (s.groups \ {g})]
             /\ users[v].admin = s.users[v].admin
  <2>1. s.users[v] \in [admin : BOOLEAN, groups : SUBSET s.groups]
    BY <1>2 DEF StoreOK, AccountsOK
  <2>2. users[v] = [s.users[v] EXCEPT !.groups = s.users[v].groups \ {g}]
    BY <1>2
  <2> QED BY <2>1, <2>2
<1>6. AccountsOK(users, s.groups \ {g})
  BY <1>2, <1>5 DEF AccountsOK, StoreOK
<1>7. Admins(r) = Admins(s)
  BY <1>2, <1>4, <1>5 DEF Admins
<1>8. ASSUME NEW y \in Subjects, y # Group(g), Exists(s, y) PROVE Exists(r, y)
  <2>1. CASE \E v \in Users : y = User(v)
    BY <2>1, <1>2, <1>4, <1>8 DEF User, Exists
  <2>2. CASE \E h \in Groups : y = Group(h)
    BY <2>2, <1>4, <1>8 DEF Group, Exists
  <2> QED BY <2>1, <2>2 DEF Subjects
<1>9. r.groups \subseteq Groups /\ Admins(r) # {}
  BY <1>4, <1>7 DEF StoreOK
<1> QED BY <1>1, <1>4, <1>6, <1>8, <1>9, PurgeFollows

LEMMA SetGrantFollows ==
  ASSUME NEW s, StoreOK(s), NEW x \in Subjects, NEW key \in GrantKeys, NEW level,
         NEW t \in SetGrant(s, x, key, level)
  PROVE  Follows(t, s, {x})
<1> DEFINE grants == SetIn(s.grants, key, x, level)
<1>1. t = [users |-> s.users, groups |-> s.groups, grants |-> grants, acls |-> s.acls]
  BY DEF SetGrant, StoreOK
<1>2. ListsOK(grants, GrantKeys) /\ ListedIn(grants) \subseteq ListedIn(s.grants) \cup {x}
  BY SetInLists DEF StoreOK
<1> HIDE DEF grants
<1>3. /\ IsRecord(t) /\ t.users = s.users /\ t.groups = s.groups
      /\ t.grants = grants /\ t.acls = s.acls
  BY <1>1, RecordParts
<1>4. StoreOK(t)
  BY <1>2, <1>3 DEF StoreOK, IsRecord, Admins
<1>5. Listed(t) \subseteq Listed(s) \cup {x}
  BY <1>2, <1>3, ListedParts
<1>6. \A y : Exists(s, y) => Exists(t, y)
  BY <1>3 DEF Exists
<1> QED BY <1>4, <1>5, <1>6 DEF Follows, Strangers

LEMMA SetElementAccessFollows ==
  ASSUME NEW s, StoreOK(s), NEW x \in Subjects, NEW key \in ElementKeys, NEW level,
         NEW t \in SetElementAccess(s, x, key, level)
  PROVE  Follows(t, s, {x})
<1> DEFINE acls == SetIn(s.acls, key, x, level)
<1>1. t = [users |-> s.users, groups |-> s.groups, grants |-> s.grants, acls |-> acls]
  BY DEF SetElementAccess, StoreOK
<1>2. ListsOK(acls, ElementKeys) /\ ListedIn(acls) \subseteq ListedIn(s.acls) \cup {x}
  BY SetInLists DEF StoreOK
<1> HIDE DEF acls
<1>3. /\ IsRecord(t) /\ t.users = s.users /\ t.groups = s.groups
      /\ t.grants = s.grants /\ t.acls = acls
  BY <1>1, RecordParts
<1>4. StoreOK(t)
  BY <1>2, <1>3 DEF StoreOK, IsRecord, Admins
<1>5. Listed(t) \subseteq Listed(s) \cup {x}
  BY <1>2, <1>3, ListedParts
<1>6. \A y : Exists(s, y) => Exists(t, y)
  BY <1>3 DEF Exists
<1> QED BY <1>4, <1>5, <1>6 DEF Follows, Strangers

Given(change) == IF change.what \in {"set_grant", "set_acl"} THEN {change.args[1]} ELSE {}

LEMMA OutcomeFollows ==
  ASSUME StoreOK(store), NEW change, ChangeOK(change), NEW t \in Outcomes(change)
  PROVE  Follows(t, store, Given(change))
<1>1. ASSUME NEW u \in Users, NEW admin \in BOOLEAN, NEW groups \in SUBSET Groups,
             change = Change("create_user", <<u, admin, groups>>)
      PROVE  Follows(t, store, Given(change))
  <2>1. t \in CreateUser(store, u, admin, groups) /\ Given(change) = {}
    BY <1>1 DEF Outcomes, Change, Given
  <2> QED BY <2>1, CreateUserFollows
<1>2. ASSUME NEW u \in Users, NEW admin \in BOOLEAN, change = Change("set_admin", <<u, admin>>)
      PROVE  Follows(t, store, Given(change))
  <2>1. t \in SetUserAdmin(store, u, admin) /\ Given(change) = {}
    BY <1>2 DEF Outcomes, Change, Given
  <2> QED BY <2>1, SetUserAdminFollows
<1>3. ASSUME NEW u \in Users, NEW groups \in SUBSET Groups, change = Change("set_groups", <<u, groups>>)
      PROVE  Follows(t, store, Given(change))
  <2>1. t \in SetUserGroups(store, u, groups) /\ Given(change) = {}
    BY <1>3 DEF Outcomes, Change, Given
  <2> QED BY <2>1, SetUserGroupsFollows
<1>4. ASSUME NEW u \in Users, change = Change("delete_user", <<u>>)
      PROVE  Follows(t, store, Given(change))
  <2>1. t \in DeleteUser(store, u) /\ Given(change) = {}
    BY <1>4 DEF Outcomes, Change, Given
  <2> QED BY <2>1, DeleteUserFollows
<1>5. ASSUME NEW g \in Groups, change = Change("create_group", <<g>>)
      PROVE  Follows(t, store, Given(change))
  <2>1. t \in CreateGroup(store, g) /\ Given(change) = {}
    BY <1>5 DEF Outcomes, Change, Given
  <2> QED BY <2>1, CreateGroupFollows
<1>6. ASSUME NEW g \in Groups, change = Change("delete_group", <<g>>)
      PROVE  Follows(t, store, Given(change))
  <2>1. t \in DeleteGroup(store, g) /\ Given(change) = {}
    BY <1>6 DEF Outcomes, Change, Given
  <2> QED BY <2>1, DeleteGroupFollows
<1>7. ASSUME NEW x \in Subjects, NEW key \in GrantKeys, NEW level \in GrantLevels,
             change = Change("set_grant", <<x, key, level>>)
      PROVE  Follows(t, store, Given(change))
  <2>1. t \in SetGrant(store, x, key, level) /\ Given(change) = {x}
    BY <1>7 DEF Outcomes, Change, Given
  <2> QED BY <2>1, SetGrantFollows
<1>8. ASSUME NEW x \in Subjects, NEW key \in ElementKeys, NEW level \in GrantLevels,
             change = Change("set_acl", <<x, key, level>>)
      PROVE  Follows(t, store, Given(change))
  <2>1. t \in SetElementAccess(store, x, key, level) /\ Given(change) = {x}
    BY <1>8 DEF Outcomes, Change, Given
  <2> QED BY <2>1, SetElementAccessFollows
<1> QED BY <1>1, <1>2, <1>3, <1>4, <1>5, <1>6, <1>7, <1>8 DEF ChangeOK

-----------------------------------------------------------------------------
(* Requests.                                                                *)

\* What a request still has to do, of a request that is about to do it.
LEMMA PendingOK ==
  ASSUME RequestInv, NEW c \in Clients, Changing(c)
  PROVE  /\ ActiveRequest(req[c]) /\ ChangeOK(Pending(c)) /\ req[c].op.changes # <<>>
         /\ req[c].pc \in {"change", "patching"} /\ Up
<1>1. RequestOK(req[c])
  BY DEF RequestInv, RequestsOK
<1>2. req[c].pc \in {"change", "patching"}
  BY DEF Changing
<1>3. ActiveRequest(req[c]) /\ req[c] # Idle
  BY <1>1, <1>2 DEF RequestOK, PlainRequest, Idle
<1>4. Up
  BY <1>3 DEF RequestInv
<1>5. req[c].op.changes # <<>> /\ ChangesOK(req[c].op.changes)
  BY <1>2, <1>3 DEF ActiveRequest
<1>6. ChangeOK(Pending(c))
  <2>1. PICK s : s = req[c].op.changes
    OBVIOUS
  <2>2. ChangeOK(Head(s))
    BY <1>5, <2>1 DEF ChangesOK
  <2> QED BY <2>1, <2>2 DEF Pending
<1> QED BY <1>2, <1>3, <1>4, <1>5, <1>6

\* The request a client sends is in order.
OpOK(op) ==
    /\ op = [changes |-> op.changes, ends |-> op.ends]
    /\ op.changes # <<>> /\ ChangesOK(op.changes)

LEMMA OneChange ==
  ASSUME NEW change, ChangeOK(change), NEW ends
  PROVE  OpOK(Op(<<change>>, ends))
  BY DEF OpOK, Op, ChangesOK

LEMMA TwoChanges ==
  ASSUME NEW x, ChangeOK(x), NEW y, ChangeOK(y), NEW ends
  PROVE  OpOK(Op(<<x, y>>, ends))
  BY DEF OpOK, Op, ChangesOK

LEMMA ReceivedOK ==
  ASSUME NEW op \in Requests
  PROVE  OpOK(op)
<1> DEFINE
      creates == {Op(<<Change("create_user", args)>>, {}) : args \in Users \X BOOLEAN \X (SUBSET Groups)}
      deletes == {Op(<<Change("delete_user", <<u>>)>>, {u}) : u \in Users}
      groupings == {Op(<<Change("create_group", <<g>>)>>, {}) : g \in Groups}
      ungroupings == {Op(<<Change("delete_group", <<g>>)>>, {}) : g \in Groups}
      grants == {Op(<<Change("set_grant", args)>>, {}) : args \in Subjects \X GrantKeys \X GrantLevels}
      acls == {Op(<<Change("set_acl", args)>>, {}) : args \in Subjects \X ElementKeys \X GrantLevels}
<1>1. Requests = Patches \cup creates \cup deletes \cup groupings \cup ungroupings \cup grants \cup acls
  BY DEF Requests
<1>2. ASSUME op \in creates PROVE OpOK(op)
  <2>1. PICK args \in Users \X BOOLEAN \X (SUBSET Groups) : op = Op(<<Change("create_user", args)>>, {})
    BY <1>2
  <2>2. PICK u \in Users, admin \in BOOLEAN, groups \in SUBSET Groups : args = <<u, admin, groups>>
    OBVIOUS
  <2>3. ChangeOK(Change("create_user", args))
    BY <2>2 DEF ChangeOK
  <2> QED BY <2>1, <2>3, OneChange
<1>3. ASSUME op \in Patches PROVE OpOK(op)
  <2>1. PICK p \in Users \X BOOLEAN \X (SUBSET Groups) \X BOOLEAN :
            op = Op(<<Change("set_admin", <<p[1], p[2]>>), Change("set_groups", <<p[1], p[3]>>)>>,
                    IF p[4] THEN {p[1]} ELSE {})
    BY <1>3 DEF Patches
  <2>2. p[1] \in Users /\ p[2] \in BOOLEAN /\ p[3] \in SUBSET Groups
    OBVIOUS
  <2>3. ChangeOK(Change("set_admin", <<p[1], p[2]>>)) /\ ChangeOK(Change("set_groups", <<p[1], p[3]>>))
    BY <2>2 DEF ChangeOK
  <2> QED BY <2>1, <2>3, TwoChanges
<1>4. ASSUME op \in deletes PROVE OpOK(op)
  <2>1. PICK u \in Users : op = Op(<<Change("delete_user", <<u>>)>>, {u})
    BY <1>4
  <2>2. ChangeOK(Change("delete_user", <<u>>))
    BY DEF ChangeOK
  <2> QED BY <2>1, <2>2, OneChange
<1>5. ASSUME op \in groupings PROVE OpOK(op)
  <2>1. PICK g \in Groups : op = Op(<<Change("create_group", <<g>>)>>, {})
    BY <1>5
  <2>2. ChangeOK(Change("create_group", <<g>>))
    BY DEF ChangeOK
  <2> QED BY <2>1, <2>2, OneChange
<1>6. ASSUME op \in ungroupings PROVE OpOK(op)
  <2>1. PICK g \in Groups : op = Op(<<Change("delete_group", <<g>>)>>, {})
    BY <1>6
  <2>2. ChangeOK(Change("delete_group", <<g>>))
    BY DEF ChangeOK
  <2> QED BY <2>1, <2>2, OneChange
<1>7. ASSUME op \in grants PROVE OpOK(op)
  <2>1. PICK args \in Subjects \X GrantKeys \X GrantLevels : op = Op(<<Change("set_grant", args)>>, {})
    BY <1>7
  <2>2. PICK x \in Subjects, key \in GrantKeys, level \in GrantLevels : args = <<x, key, level>>
    OBVIOUS
  <2>3. ChangeOK(Change("set_grant", args))
    BY <2>2 DEF ChangeOK
  <2> QED BY <2>1, <2>3, OneChange
<1>8. ASSUME op \in acls PROVE OpOK(op)
  <2>1. PICK args \in Subjects \X ElementKeys \X GrantLevels : op = Op(<<Change("set_acl", args)>>, {})
    BY <1>8
  <2>2. PICK x \in Subjects, key \in ElementKeys, level \in GrantLevels : args = <<x, key, level>>
    OBVIOUS
  <2>3. ChangeOK(Change("set_acl", args))
    BY <2>2 DEF ChangeOK
  <2> QED BY <2>1, <2>3, OneChange
<1> HIDE DEF creates, deletes, groupings, ungroupings, grants, acls
<1> QED BY <1>1, <1>2, <1>3, <1>4, <1>5, <1>6, <1>7, <1>8

\* What becomes of a request.
LEMMA ChangesLeft ==
  ASSUME NEW s, ChangesOK(s), s # <<>>
  PROVE  ChangesOK(Tail(s))
<1>1. CASE s = <<s[1]>>
  <2>1. PICK x : x = s[1]
    OBVIOUS
  <2>2. Tail(<<x>>) = <<>>
    OBVIOUS
  <2>3. Tail(s) = <<>>
    BY <1>1, <2>1, <2>2
  <2> QED BY <2>3 DEF ChangesOK
<1>2. CASE s = <<s[1], s[2]>> /\ ChangeOK(s[2])
  <2>1. PICK x : x = s[2]
    OBVIOUS
  <2>2. Tail(s) = <<x>>
    <3>1. PICK y : y = s[1]
      OBVIOUS
    <3>2. Tail(<<y, x>>) = <<x>>
      OBVIOUS
    <3>3. s = <<y, x>>
      BY <1>2, <2>1, <3>1
    <3> QED BY <3>2, <3>3
  <2>3. PICK r : r = Tail(s)
    OBVIOUS
  <2>4. r = <<r[1]>> /\ ChangeOK(r[1])
    BY <1>2, <2>1, <2>2, <2>3
  <2> QED BY <2>3, <2>4 DEF ChangesOK
<1> QED BY <1>1, <1>2 DEF ChangesOK

LEMMA StepOn ==
  ASSUME NEW r, ActiveRequest(r), NEW pc \in {"gate", "change", "patching", "revoke", "audit"},
         pc \in {"gate", "change", "patching"} => r.op.changes # <<>>
  PROVE  RequestOK([r EXCEPT !.pc = pc])
<1>1. PICK q : q = [r EXCEPT !.pc = pc]
  OBVIOUS
<1>2. PICK actor, changes, ends : actor = r.actor /\ changes = r.op.changes /\ ends = r.op.ends
  OBVIOUS
<1>3. r = [pc |-> r.pc, actor |-> actor, op |-> [changes |-> changes, ends |-> ends]]
  BY <1>2 DEF ActiveRequest
<1>4. q = [pc |-> pc, actor |-> actor, op |-> [changes |-> changes, ends |-> ends]]
  BY <1>1, <1>3
<1>5. ActiveRequest(q)
  BY <1>2, <1>4 DEF ActiveRequest
<1> QED BY <1>1, <1>5 DEF RequestOK

Replaced(r, s, p) == [r EXCEPT !.op.changes = s, !.pc = p]

LEMMA ChangesReplaced ==
  ASSUME NEW a, NEW b, NEW c, NEW d, NEW s, NEW p, NEW r,
         r = [pc |-> a, actor |-> b, op |-> [changes |-> c, ends |-> d]]
  PROVE  Replaced(r, s, p) = [pc |-> p, actor |-> b, op |-> [changes |-> s, ends |-> d]]
<1>1. PICK k : k = [r EXCEPT !.op.changes = s]
  OBVIOUS
<1>2. k = [pc |-> a, actor |-> b, op |-> [changes |-> s, ends |-> d]]
  BY <1>1
<1>3. [k EXCEPT !.pc = p] = [pc |-> p, actor |-> b, op |-> [changes |-> s, ends |-> d]]
  BY <1>2
<1>4. [r EXCEPT !.op.changes = s, !.pc = p] = [k EXCEPT !.pc = p]
  BY <1>1
<1> QED BY <1>3, <1>4 DEF Replaced

LEMMA NextStep ==
  ASSUME NEW r, ActiveRequest(r), r.op.changes # <<>>, NEW pc,
         pc = IF Tail(r.op.changes) # <<>> THEN "patching" ELSE IF r.op.ends # {} THEN "revoke" ELSE "audit"
  PROVE  RequestOK(Replaced(r, Tail(r.op.changes), pc))
<1>2. PICK actor, changes, ends : actor = r.actor /\ changes = r.op.changes /\ ends = r.op.ends
  OBVIOUS
<1>3. r = [pc |-> r.pc, actor |-> actor, op |-> [changes |-> changes, ends |-> ends]]
  BY <1>2 DEF ActiveRequest
<1>4. PICK rest : rest = Tail(changes)
  OBVIOUS
<1>5. ChangesOK(rest)
  BY <1>2, <1>4, ChangesLeft DEF ActiveRequest
<1>1. PICK q : q = [pc |-> pc, actor |-> actor, op |-> [changes |-> rest, ends |-> ends]]
  OBVIOUS
<1>6. Replaced(r, rest, pc) = q
  BY <1>1, <1>3, ChangesReplaced
<1>7. ActiveRequest(q)
  BY <1>1, <1>2, <1>4, <1>5 DEF ActiveRequest
<1> QED BY <1>2, <1>4, <1>6, <1>7 DEF RequestOK

LEMMA PlainRequests ==
  RequestOK(Idle) /\ RequestOK([pc |-> "audit"])
  BY DEF RequestOK, PlainRequest

-----------------------------------------------------------------------------
(* The audit log.                                                           *)

\* The part of a sequence retention keeps is in the order of the whole.
LEMMA KeptIs ==
  ASSUME NEW R \in Seq(Nat), NEW u, InOrder(R, u), NEW n, Below(R, n)
  PROVE  /\ Kept(R) \in Seq(Nat) /\ InOrder(Kept(R), u) /\ Below(Kept(R), n)
         /\ R # <<>> => Kept(R) # <<>> /\ Kept(R)[Len(Kept(R))] = R[Len(R)]
<1>1. CASE MaxRecords # 0 /\ Len(R) >= 2 * MaxRecords
  <2> DEFINE d == Len(R) - MaxRecords
             K == SubSeq(R, d + 1, Len(R))
  <2>1. Kept(R) = K
    BY <1>1 DEF Kept
  <2>2. MaxRecords \in Nat \ {0} /\ d \in Nat /\ d + MaxRecords = Len(R) /\ MaxRecords <= d
    BY <1>1, MaxRecordsAssumption
  <2>3. /\ K \in Seq(Nat) /\ Len(K) = MaxRecords /\ DOMAIN K = 1 .. MaxRecords
        /\ \A i \in 1 .. MaxRecords : K[i] = R[d + i]
    <3>1. \A i \in d + 1 .. Len(R) : R[i] \in Nat
      BY <2>2
    <3> HIDE DEF d
    <3> QED BY <2>2, <3>1, SubSeqProperties
  <2> HIDE DEF K, d
  <2>4. \A i \in 1 .. MaxRecords : d + i \in DOMAIN R
    BY <2>2
  <2>5. InOrder(K, u)
    <3> SUFFICES ASSUME NEW i \in 1 .. MaxRecords, NEW j \in 1 .. MaxRecords, i < j
                 PROVE  K[i] <= K[j] /\ (K[i] = K[j] => K[i] \in u)
      BY <2>3 DEF InOrder
    <3>1. PICK a, b : a = d + i /\ b = d + j
      OBVIOUS
    <3>2. a \in DOMAIN R /\ b \in DOMAIN R /\ a < b
      BY <2>2, <2>4, <3>1
    <3>3. R[a] <= R[b] /\ (R[a] = R[b] => R[a] \in u)
      BY <3>2 DEF InOrder
    <3> QED BY <2>3, <3>1, <3>3
  <2>6. Below(K, n)
    <3> SUFFICES ASSUME NEW i \in 1 .. MaxRecords PROVE K[i] < n
      BY <2>3 DEF Below
    <3>1. PICK a : a = d + i
      OBVIOUS
    <3> QED BY <2>3, <2>4, <3>1 DEF Below
  <2>7. K[Len(K)] = R[Len(R)] /\ K # <<>>
    BY SMTT(30), <2>2, <2>3
  <2> QED BY <2>1, <2>3, <2>5, <2>6, <2>7
<1>2. CASE ~(MaxRecords # 0 /\ Len(R) >= 2 * MaxRecords)
  BY <1>2, MaxRecordsAssumption DEF Kept
<1> QED BY <1>1, <1>2

\* The next number after these records.
LEMMA NextOfIs ==
  ASSUME NEW R \in Seq(Nat)
  PROVE  /\ NextOf(R) \in Nat /\ \A i \in DOMAIN R : R[i] + 1 <= NextOf(R)
         /\ NextOf(R) = 0 \/ \E i \in DOMAIN R : NextOf(R) = R[i] + 1
<1> DEFINE S == {0} \cup {r + 1 : r \in ToSet(R)}
<1>1. PICK m \in Nat : \A i \in 1 .. Len(R) : R[i] < m
  BY SequenceBounded DEF Bounded
<1>2. \A i \in DOMAIN R : R[i] \in Nat /\ R[i] + 1 \in S
  BY DEF ToSet
<1>3. \A n \in S : n = 0 \/ \E i \in DOMAIN R : n = R[i] + 1
  BY DEF ToSet
<1> HIDE DEF S
<1>4. S \in SUBSET Nat
  BY <1>2, <1>3
<1>5. \A n \in S : n <= m
  <2>1. \A i \in DOMAIN R : R[i] + 1 <= m
    BY <1>1, <1>2
  <2> QED BY <1>3, <2>1
<1>6. 0 \in S
  BY DEF S
<1>7. Max(S) \in S /\ \A n \in S : n <= Max(S)
  BY <1>4, <1>5, <1>6, GreatestNumber
<1>8. NextOf(R) = Max(S)
  BY DEF NextOf, S
<1> QED BY <1>2, <1>3, <1>4, <1>7, <1>8

\* What replay takes: the frames before the first that is torn.
LEMMA ReplayedIs ==
  ASSUME NEW F \in Seq(Nat \cup {Torn})
  PROVE  /\ Replayed(F) \in Seq(Nat) /\ Len(Replayed(F)) <= Len(F)
         /\ \A i \in 1 .. Len(Replayed(F)) : Replayed(F)[i] = F[i] /\ Whole(F, i)
         /\ \A i \in DOMAIN F : Whole(F, i) => i <= Len(Replayed(F))
<1>1. CASE Torn \in ToSet(F)
  <2> DEFINE torn == {i \in DOMAIN F : F[i] = Torn}
             m == Min(torn)
             R == SubSeq(F, 1, m - 1)
  <2>1. m \in torn /\ \A i \in torn : m <= i
    <3>1. torn \in SUBSET Nat /\ torn # {}
      BY <1>1 DEF ToSet
    <3> HIDE DEF torn
    <3> QED BY <3>1, LeastNumber
  <2>2. m \in 1 .. Len(F) /\ F[m] = Torn /\ \A i \in 1 .. m - 1 : F[i] # Torn
    <3> HIDE DEF m
    <3> QED BY <2>1
  <2> HIDE DEF m, torn
  <2>3. \A i \in 1 .. m - 1 : F[i] \in Nat
    BY <2>2
  <2>4. R \in Seq(Nat) /\ Len(R) = m - 1 /\ \A i \in 1 .. m - 1 : R[i] = F[i]
    BY <2>2, <2>3, SubSeqProperties
  <2>5. Replayed(F) = R
    BY <1>1 DEF Replayed, m, torn
  <2> HIDE DEF R
  <2>6. \A i \in 1 .. m - 1 : Whole(F, i)
    BY <2>2 DEF Whole
  <2>7. \A i \in DOMAIN F : Whole(F, i) => i <= m - 1
    BY <2>2 DEF Whole
  <2> QED BY <2>2, <2>4, <2>5, <2>6, <2>7
<1>2. CASE Torn \notin ToSet(F)
  <2>1. Replayed(F) = F
    BY <1>2 DEF Replayed
  <2>2. \A i \in DOMAIN F : F[i] # Torn
    BY <1>2 DEF ToSet
  <2>3. F \in Seq(Nat)
    BY <2>2
  <2>4. \A i \in DOMAIN F : Whole(F, i)
    BY <2>2 DEF Whole
  <2> QED BY <2>1, <2>3, <2>4
<1> QED BY <1>1, <1>2

\* What replay takes is in the order of the frames.
LEMMA ReplayedInOrder ==
  ASSUME NEW F \in Seq(Nat \cup {Torn}), NEW u, Ordered(F, u)
  PROVE  InOrder(Replayed(F), u)
<1>1. PICK R : R = Replayed(F)
  OBVIOUS
<1>2. /\ R \in Seq(Nat) /\ Len(R) <= Len(F)
      /\ \A i \in 1 .. Len(R) : R[i] = F[i] /\ Whole(F, i)
  BY <1>1, ReplayedIs
<1>3. DOMAIN R = 1 .. Len(R) /\ \A i \in DOMAIN R : i \in DOMAIN F
  BY <1>2
<1>4. SUFFICES ASSUME NEW i \in DOMAIN R, NEW j \in DOMAIN R, i < j
               PROVE  R[i] <= R[j] /\ (R[i] = R[j] => R[i] \in u)
  BY <1>1 DEF InOrder
<1> QED BY <1>2, <1>3, <1>4 DEF Ordered

\* More numbers may be repeated: what was in order is.
LEMMA MoreAgain ==
  ASSUME NEW l, NEW f, NEW F, NEW n, NEW u, NEW v, u \subseteq v
  PROVE  /\ LogOK(l, u) => LogOK(l, v)
         /\ FilesOK(f, u) => FilesOK(f, v)
         /\ Fits(F, n, u) => Fits(F, n, v)
<1>1. LogOK(l, u) => LogOK(l, v)
  BY DEF LogOK, InOrder
<1>2. FilesOK(f, u) => FilesOK(f, v)
  BY DEF FilesOK, Ordered
<1>3. Fits(F, n, u) => Fits(F, n, v)
  BY DEF Fits
<1> QED BY <1>1, <1>2, <1>3

IsOneMore(G, F, n, u) ==
    /\ G \in Seq(Nat \cup {Torn}) /\ Ordered(G, u)
    /\ DOMAIN G = 1 .. Len(F) + 1 /\ Len(G) = Len(F) + 1 /\ G[Len(F) + 1] = n
    /\ \A i \in DOMAIN F : G[i] = F[i] /\ i \in DOMAIN G /\ (Whole(F, i) <=> Whole(G, i))
    /\ Whole(G, Len(F) + 1) => n # Torn
    /\ Torn \notin ToSet(F) /\ n # Torn => Torn \notin ToSet(G)

\* One more frame at the end of the file: torn, or with a number that fits.
LEMMA OneMoreFrame ==
  ASSUME NEW F \in Seq(Nat \cup {Torn}), NEW u, Ordered(F, u), NEW n \in Nat \cup {Torn},
         n = Torn \/ Fits(F, n, u)
  PROVE  IsOneMore(Append(F, n), F, n, u)
<1> DEFINE G == Append(F, n)
<1>1. /\ G \in Seq(Nat \cup {Torn}) /\ Len(G) = Len(F) + 1 /\ Len(F) \in Nat
      /\ \A i \in 1 .. Len(F) : G[i] = F[i]
      /\ G[Len(F) + 1] = n /\ DOMAIN G = 1 .. Len(F) + 1 /\ DOMAIN F = 1 .. Len(F)
  OBVIOUS
<1> HIDE DEF G
<1>2. \A i \in 1 .. Len(F) : Whole(F, i) <=> Whole(G, i)
  BY <1>1 DEF Whole
<1>3. Whole(G, Len(F) + 1) => n # Torn /\ \A i \in 1 .. Len(F) : Whole(F, i)
  BY <1>1 DEF Whole
<1>4. ASSUME Torn \notin ToSet(F), n # Torn PROVE Torn \notin ToSet(G)
  <2>1. \A j \in 1 .. Len(F) : F[j] # Torn
    BY <1>1, <1>4 DEF ToSet
  <2>2. \A j \in 1 .. Len(F) + 1 : j \in 1 .. Len(F) \/ j = Len(F) + 1
    BY <1>1
  <2>3. \A j \in 1 .. Len(F) + 1 : G[j] # Torn
    BY <1>1, <1>4, <2>1, <2>2
  <2> QED BY <1>1, <2>3 DEF ToSet
<1>5. Ordered(G, u)
  <2> SUFFICES ASSUME NEW i \in 1 .. Len(F) + 1, NEW j \in 1 .. Len(F) + 1, i < j, Whole(G, j)
               PROVE  G[i] <= G[j] /\ (G[i] = G[j] => G[i] \in u)
    BY <1>1 DEF Ordered
  <2>1. i \in 1 .. Len(F)
    BY <1>1
  <2>2. CASE j \in 1 .. Len(F)
    BY <1>1, <1>2, <2>1, <2>2 DEF Ordered
  <2>3. CASE j = Len(F) + 1
    <3>1. n # Torn /\ Whole(F, i) /\ F[i] = G[i] /\ G[j] = n
      BY <1>1, <1>3, <2>1, <2>3
    <3>2. F[i] < n \/ (F[i] = n /\ n \in u)
      BY <1>1, <2>1, <3>1 DEF Fits
    <3>3. F[i] \in Int /\ n \in Int
      BY <1>1, <2>1 DEF Torn
    <3> QED BY <3>1, <3>2, <3>3
  <2> QED BY <1>1, <2>2, <2>3
<1>6. \A i \in DOMAIN F : i \in DOMAIN G
  BY <1>1
<1> QED BY <1>1, <1>2, <1>3, <1>4, <1>5, <1>6 DEF IsOneMore, G

\* Records as they are written to a file: every frame is whole.
LEMMA FramesOfRecords ==
  ASSUME NEW R \in Seq(Nat), NEW u, InOrder(R, u), NEW n, Below(R, n)
  PROVE  R \in Seq(Nat \cup {Torn}) /\ Ordered(R, u) /\ Fits(R, n, u) /\ Torn \notin ToSet(R)
<1>1. R \in Seq(Nat \cup {Torn}) /\ \A i \in DOMAIN R : R[i] \in Nat
  OBVIOUS
<1>2. Torn \notin Nat
  BY DEF Torn
<1>3. Torn \notin ToSet(R)
  BY <1>1, <1>2 DEF ToSet
<1> QED BY <1>1, <1>3 DEF Ordered, InOrder, Fits, Below

LEMMA RecordedIs ==
  ASSUME NEW l, NEW u, LogOK(l, u), NEW R, R = Recorded(l)
  PROVE  /\ R \in Seq(Nat) /\ R # <<>> /\ R[Len(R)] = l.next
         /\ InOrder(R, u) /\ Below(R, l.next + 1)
<1>1. PICK Q, n : Q = l.records /\ n = l.next
  OBVIOUS
<1>2. Q \in Seq(Nat) /\ n \in Nat /\ Below(Q, n) /\ InOrder(Q, u) /\ R = Append(Q, n)
  BY <1>1 DEF LogOK, Recorded
<1>3. /\ R \in Seq(Nat) /\ Len(R) = Len(Q) + 1 /\ R[Len(Q) + 1] = n /\ Len(Q) \in Nat
      /\ DOMAIN R = 1 .. Len(Q) + 1 /\ DOMAIN Q = 1 .. Len(Q)
      /\ \A i \in 1 .. Len(Q) : R[i] = Q[i] /\ Q[i] \in Nat
  BY <1>2
<1>4. \A i \in 1 .. Len(Q) : R[i] < n /\ R[i] \in Nat
  BY <1>2, <1>3 DEF Below
<1>5. Below(R, n + 1)
  <2>1. ASSUME NEW i \in 1 .. Len(Q) + 1 PROVE R[i] < n + 1
    <3>1. CASE i \in 1 .. Len(Q)
      BY <1>2, <1>4, <3>1
    <3>2. CASE i = Len(Q) + 1
      BY <1>2, <1>3, <3>2
    <3> QED BY <1>3, <3>1, <3>2
  <2> QED BY <1>3, <2>1 DEF Below
<1>6. InOrder(R, u)
  <2> SUFFICES ASSUME NEW i \in 1 .. Len(Q) + 1, NEW j \in 1 .. Len(Q) + 1, i < j
               PROVE  R[i] <= R[j] /\ (R[i] = R[j] => R[i] \in u)
    BY <1>3 DEF InOrder
  <2>1. i \in 1 .. Len(Q)
    BY <1>3
  <2>2. CASE j \in 1 .. Len(Q)
    BY <1>2, <1>3, <2>1, <2>2 DEF InOrder
  <2>3. CASE j = Len(Q) + 1
    BY <1>2, <1>3, <1>4, <2>1, <2>3
  <2> QED BY <1>3, <2>2, <2>3
<1>7. R # <<>> /\ R[Len(R)] = n
  BY <1>3
<1> QED BY <1>1, <1>3, <1>5, <1>6, <1>7

LEMMA WrittenIs ==
  ASSUME NEW l, NEW f, NEW u, LogOK(l, u), FilesOK(f, u), Fits(f.frames, l.next, u),
         NEW W, W = Written(l, f)
  PROVE  /\ W \in Seq(Nat \cup {Torn}) /\ Ordered(W, u) /\ Fits(W, l.next + 1, u)
         /\ l.attached = TRUE =>
               /\ EndsBefore(W, l.next + 1)
               /\ Clean(f) => Torn \notin ToSet(W)
               /\ Below(f.frames, l.next) => Below(W, l.next + 1)
<1>1. PICK F, n : F = f.frames /\ n = l.next
  OBVIOUS
<1>2. /\ F \in Seq(Nat \cup {Torn}) /\ Ordered(F, u) /\ Fits(F, n, u) /\ n \in Nat
      /\ l.attached \in BOOLEAN
  BY <1>1 DEF LogOK, FilesOK
<1>3. \A i \in 1 .. Len(F) : F[i] \in Int
  BY <1>2 DEF Torn
<1>4. \A i \in DOMAIN F : Whole(F, i) => F[i] < n + 1
  BY <1>2, <1>3 DEF Fits
<1>5. CASE l.attached = FALSE
  <2>1. W = F
    BY <1>1, <1>5 DEF Written
  <2> QED BY <1>1, <1>2, <1>4, <1>5, <2>1 DEF Fits
<1>6. CASE l.attached = TRUE
  <2>1. W = Append(F, n)
    BY <1>1, <1>6 DEF Written
  <2>2. n \in Nat \cup {Torn} /\ n # Torn
    BY <1>2 DEF Torn
  <2>3. IsOneMore(W, F, n, u)
    <3>1. IsOneMore(Append(F, n), F, n, u)
      BY <1>2, <2>2, OneMoreFrame
    <3> QED BY <2>1, <3>1
  <2>4. DOMAIN F = 1 .. Len(F) /\ Len(F) \in Nat
    BY <1>2
  <2>5. \A i \in 1 .. Len(F) + 1 : i \in DOMAIN F \/ i = Len(F) + 1
    BY <2>4
  <2>6. n < n + 1 /\ n = (n + 1) - 1
    BY <1>2
  <2>7. Fits(W, n + 1, u)
    <3> SUFFICES ASSUME NEW i \in 1 .. Len(F) + 1, Whole(W, i) PROVE W[i] < n + 1
      BY <2>3 DEF Fits, IsOneMore
    <3> QED BY <1>4, <2>3, <2>5, <2>6 DEF IsOneMore
  <2>8. ASSUME Below(F, n) PROVE Below(W, n + 1)
    <3> SUFFICES ASSUME NEW i \in 1 .. Len(F) + 1 PROVE W[i] < n + 1
      BY <2>3 DEF Below, IsOneMore
    <3>1. CASE i \in DOMAIN F
      <4>1. F[i] < n /\ F[i] \in Int
        BY <1>3, <2>4, <2>8, <3>1 DEF Below
      <4> QED BY <1>2, <2>3, <3>1, <4>1 DEF IsOneMore
    <3> QED BY <2>3, <2>5, <2>6, <3>1 DEF IsOneMore
  <2>9. EndsBefore(W, n + 1)
    BY <2>3, <2>4, <2>6 DEF EndsBefore, IsOneMore
  <2> QED BY <1>1, <2>2, <2>3, <2>7, <2>8, <2>9 DEF Clean, IsOneMore
<1> QED BY <1>2, <1>5, <1>6

\* What an append leaves when its record is written and counted.
IsLeft(d, l, u, mark) ==
    /\ LogOK(d.log, u) /\ FilesOK(d.files, u) /\ Fits(d.files.frames, l.next + 1, u)
    /\ d.log.next = l.next + 1 /\ d.files.mark = mark

\* The files are whole if they were, and end with the record.
EndsWell(d, l, f) ==
    /\ d.files.header = f.header /\ EndsBefore(d.files.frames, l.next + 1)
    /\ Clean(f) => Clean(d.files)
    /\ Below(f.frames, l.next) => Below(d.files.frames, l.next + 1)

IsLeftWith(d, l, f, u, attached, G, mark) ==
    /\ IsLeft(d, l, u, mark) /\ d.log.attached = attached
    /\ d.files.frames = G /\ d.files.header = f.header

LEMMA LeftIs ==
  ASSUME NEW l, NEW f, NEW u, l.next \in Nat, f.header \in BOOLEAN,
         NEW R \in Seq(Nat), InOrder(R, u), Below(R, l.next + 1),
         NEW G \in Seq(Nat \cup {Torn}), Ordered(G, u), Fits(G, l.next + 1, u),
         NEW attached \in BOOLEAN, NEW mark \in Nat \cup {Unreadable}
  PROVE  IsLeftWith(Left(l, f, R, attached, G, mark), l, f, u, attached, G, mark)
<1> DEFINE d == Left(l, f, R, attached, G, mark)
<1>1. PICK n, h : n = l.next + 1 /\ h = f.header
  OBVIOUS
<1>2. d = [log |-> Log(R, n, attached), files |-> Files(h, G, mark)]
  BY <1>1 DEF Left
<1>3. /\ d.log.records = R /\ d.log.next = n /\ d.log.attached = attached
      /\ d.log = Log(d.log.records, d.log.next, d.log.attached)
      /\ d.files.header = h /\ d.files.frames = G /\ d.files.mark = mark
      /\ d.files = Files(d.files.header, d.files.frames, d.files.mark)
  BY <1>2 DEF Log, Files
<1>4. n \in Nat /\ h \in BOOLEAN
  BY <1>1
<1>5. LogOK(d.log, u)
  BY <1>1, <1>3, <1>4 DEF LogOK
<1>6. FilesOK(d.files, u)
  BY <1>3, <1>4 DEF FilesOK
<1> HIDE DEF d
<1> QED BY <1>1, <1>3, <1>5, <1>6 DEF IsLeft, IsLeftWith, d

\* A record that is counted, with retention done.
LEMMA CompactedIs ==
  ASSUME NEW l, NEW f, NEW u, LogOK(l, u), FilesOK(f, u), Fits(f.frames, l.next, u),
         NEW mark \in Nat \cup {Unreadable}, NEW d, d = Compacted(l, f, mark)
  PROVE  /\ IsLeft(d, l, u, mark)
         /\ l.attached = TRUE => d.log.attached = TRUE /\ EndsWell(d, l, f)
<1>1. PICK R, K, W : R = Recorded(l) /\ K = Kept(R) /\ W = Written(l, f)
  OBVIOUS
<1>2. l.next \in Nat /\ l.attached \in BOOLEAN /\ f.header \in BOOLEAN
  BY DEF LogOK, FilesOK
<1>3. /\ R \in Seq(Nat) /\ R # <<>> /\ R[Len(R)] = l.next
      /\ InOrder(R, u) /\ Below(R, l.next + 1)
  BY <1>1, RecordedIs
<1>4. /\ K \in Seq(Nat) /\ InOrder(K, u) /\ Below(K, l.next + 1)
      /\ K # <<>> /\ K[Len(K)] = l.next
  BY <1>1, <1>3, KeptIs
<1>5. /\ W \in Seq(Nat \cup {Torn}) /\ Ordered(W, u) /\ Fits(W, l.next + 1, u)
      /\ l.attached = TRUE =>
            /\ EndsBefore(W, l.next + 1)
            /\ Clean(f) => Torn \notin ToSet(W)
            /\ Below(f.frames, l.next) => Below(W, l.next + 1)
  BY <1>1, WrittenIs
<1>6. CASE K = R
  <2>1. d = Left(l, f, R, l.attached, W, mark)
    BY <1>1, <1>6 DEF Compacted
  <2>2. IsLeftWith(Left(l, f, R, l.attached, W, mark), l, f, u, l.attached, W, mark)
    BY <1>2, <1>3, <1>5, LeftIs
  <2> QED BY <1>5, <2>1, <2>2 DEF EndsWell, Clean, IsLeftWith
<1>7. CASE K # R
  <2>1. d = Left(l, f, K, TRUE, K, mark)
    BY <1>1, <1>7 DEF Compacted
  <2>2. /\ K \in Seq(Nat \cup {Torn}) /\ Ordered(K, u) /\ Fits(K, l.next + 1, u) /\ Torn \notin ToSet(K)
    BY <1>4, FramesOfRecords
  <2>3. IsLeftWith(Left(l, f, K, TRUE, K, mark), l, f, u, TRUE, K, mark)
    BY <1>2, <1>4, <2>2, LeftIs
  <2>4. l.next = (l.next + 1) - 1
    BY <1>2
  <2> QED BY <1>3, <1>4, <2>1, <2>2, <2>3, <2>4 DEF EndsWell, EndsBefore, Clean, IsLeftWith
<1> QED BY <1>6, <1>7

\* A record that is counted, with retention not done.
LEMMA NotCompactedIs ==
  ASSUME NEW l, NEW f, NEW u, LogOK(l, u), FilesOK(f, u), Fits(f.frames, l.next, u),
         NEW mark \in Nat \cup {Unreadable}, NEW d \in NotCompacted(l, f, mark)
  PROVE  /\ IsLeft(d, l, u, mark)
         /\ l.attached = TRUE => EndsWell(d, l, f)
<1>1. PICK R, K, W : R = Recorded(l) /\ K = Kept(R) /\ W = Written(l, f)
  OBVIOUS
<1>2. l.next \in Nat /\ l.attached \in BOOLEAN /\ f.header \in BOOLEAN
  BY DEF LogOK, FilesOK
<1>3. /\ R \in Seq(Nat) /\ R # <<>> /\ R[Len(R)] = l.next
      /\ InOrder(R, u) /\ Below(R, l.next + 1)
  BY <1>1, RecordedIs
<1>4. /\ K \in Seq(Nat) /\ InOrder(K, u) /\ Below(K, l.next + 1)
      /\ K # <<>> /\ K[Len(K)] = l.next
  BY <1>1, <1>3, KeptIs
<1>5. d \in {Left(l, f, R, l.attached, W, mark), Left(l, f, R, FALSE, K, mark)}
  BY <1>1 DEF NotCompacted
<1>6. CASE d = Left(l, f, R, l.attached, W, mark)
  <2>1. /\ W \in Seq(Nat \cup {Torn}) /\ Ordered(W, u) /\ Fits(W, l.next + 1, u)
        /\ l.attached = TRUE =>
              /\ EndsBefore(W, l.next + 1)
              /\ Clean(f) => Torn \notin ToSet(W)
              /\ Below(f.frames, l.next) => Below(W, l.next + 1)
    BY <1>1, WrittenIs
  <2>2. IsLeftWith(Left(l, f, R, l.attached, W, mark), l, f, u, l.attached, W, mark)
    BY <1>2, <1>3, <2>1, LeftIs
  <2> QED BY <1>6, <2>1, <2>2 DEF EndsWell, Clean, IsLeftWith
<1>7. CASE d = Left(l, f, R, FALSE, K, mark)
  <2>1. /\ K \in Seq(Nat \cup {Torn}) /\ Ordered(K, u) /\ Fits(K, l.next + 1, u) /\ Torn \notin ToSet(K)
    BY <1>4, FramesOfRecords
  <2>2. IsLeftWith(Left(l, f, R, FALSE, K, mark), l, f, u, FALSE, K, mark)
    BY <1>2, <1>3, <1>4, <2>1, LeftIs
  <2>3. l.next = (l.next + 1) - 1
    BY <1>2
  <2> QED BY <1>4, <1>7, <2>1, <2>2, <2>3 DEF EndsWell, EndsBefore, Clean, IsLeftWith
<1> QED BY <1>5, <1>6, <1>7

\* A whole file tells the number its last frame has.
LEMMA LastIsFound ==
  ASSUME NEW f, f.frames \in Seq(Nat \cup {Torn}), f.header = TRUE, Clean(f),
         NEW n \in Nat, EndsBefore(f.frames, n), NEW m \in 0 .. n
  PROVE  Covers(f, m)
<1>1. PICK F : F = f.frames
  OBVIOUS
<1>2. F \in Seq(Nat \cup {Torn}) /\ F # <<>> /\ F[Len(F)] = n - 1
  BY <1>1 DEF EndsBefore
<1>3. Len(F) \in DOMAIN F
  BY <1>2
<1>4. Whole(F, Len(F))
  <2>1. \A i \in 1 .. Len(F) : F[i] # Torn
    BY <1>1, <1>2 DEF Clean, ToSet
  <2> QED BY <2>1 DEF Whole
<1>5. F[Len(F)] + 1 >= m
  BY <1>2
<1> QED BY <1>1, <1>3, <1>4, <1>5 DEF Found, Covers

IsFilesWith(g, f, F, mark) ==
    /\ g.frames = F /\ g.header = f.header /\ g.mark = mark
    /\ g = Files(g.header, g.frames, g.mark)

\* The files with other frames, and with another mark too.
LEMMA FilesWith ==
  ASSUME NEW f, NEW u, FilesOK(f, u), NEW F, NEW mark
  PROVE  /\ IsFilesWith([f EXCEPT !.frames = F], f, F, f.mark)
         /\ IsFilesWith(Files(f.header, F, mark), f, F, mark)
<1>1. PICK h, fs, m : h = f.header /\ fs = f.frames /\ m = f.mark
  OBVIOUS
<1>2. f = [header |-> h, frames |-> fs, mark |-> m]
  BY <1>1 DEF FilesOK, Files
<1>3. [f EXCEPT !.frames = F] = [header |-> h, frames |-> F, mark |-> m]
  BY ONLY <1>2
<1>4. ASSUME NEW g, NEW k, g = [header |-> h, frames |-> F, mark |-> k] PROVE IsFilesWith(g, f, F, k)
  <2>1. g.header = h /\ g.frames = F /\ g.mark = k
    BY ONLY <1>4
  <2> QED BY <1>1, <1>4, <2>1 DEF IsFilesWith, Files
<1>5. PICK g1, g2 : g1 = [f EXCEPT !.frames = F] /\ g2 = Files(f.header, F, mark)
  OBVIOUS
<1>6. g2 = [header |-> h, frames |-> F, mark |-> mark]
  BY <1>1, <1>5 DEF Files
<1>7. IsFilesWith(g1, f, F, m) /\ IsFilesWith(g2, f, F, mark)
  BY <1>3, <1>4, <1>5, <1>6
<1> QED BY <1>1, <1>5, <1>7

\* What can be in the file of a frame keeps the order, and all a restart finds.
LEMMA PartlyWrittenIs ==
  ASSUME NEW l, NEW f, NEW u, LogOK(l, u), FilesOK(f, u), Fits(f.frames, l.next, u),
         NEW F \in PartlyWritten(l, f)
  PROVE  /\ F \in Seq(Nat \cup {Torn}) /\ Ordered(F, u)
         /\ Fits(F, l.next, u) \/ (l.attached = TRUE /\ F = Append(f.frames, l.next))
         /\ Fits(F, l.next, u \cup {l.next})
         /\ \A i \in DOMAIN f.frames : /\ i \in DOMAIN F /\ F[i] = f.frames[i]
                                       /\ Whole(f.frames, i) <=> Whole(F, i)
<1>1. PICK G, n : G = f.frames /\ n = l.next
  OBVIOUS
<1>2. /\ G \in Seq(Nat \cup {Torn}) /\ Ordered(G, u) /\ Fits(G, n, u) /\ n \in Nat
      /\ l.attached \in BOOLEAN
  BY <1>1 DEF LogOK, FilesOK
<1>3. \/ F = G
      \/ l.attached = TRUE /\ F \in {Append(G, n), Append(G, Torn)}
  BY <1>1, <1>2 DEF PartlyWritten, Written
<1>4. CASE F = G
  <2>1. Fits(F, n, u \cup {n})
    BY <1>2, <1>4 DEF Fits
  <2> QED BY <1>1, <1>2, <1>4, <2>1
<1>5. CASE l.attached = TRUE /\ F \in {Append(G, n), Append(G, Torn)}
  <2>1. PICK x \in {n, Torn} : F = Append(G, x)
    BY <1>5
  <2>2. x \in Nat \cup {Torn} /\ (x = Torn \/ Fits(G, x, u)) /\ DOMAIN G = 1 .. Len(G) /\ Len(G) \in Nat
    BY <1>2, <2>1
  <2>3. /\ F \in Seq(Nat \cup {Torn}) /\ Ordered(F, u)
        /\ DOMAIN F = 1 .. Len(G) + 1 /\ F[Len(G) + 1] = x
        /\ \A i \in DOMAIN G : F[i] = G[i] /\ i \in DOMAIN F /\ (Whole(G, i) <=> Whole(F, i))
        /\ Whole(F, Len(G) + 1) => x # Torn
    <3>1. IsOneMore(Append(G, x), G, x, u)
      BY <1>2, <2>2, OneMoreFrame
    <3> QED BY <2>1, <3>1 DEF IsOneMore
  <2>4. \A i \in DOMAIN F : i \in DOMAIN G \/ i = Len(G) + 1
    BY <2>2, <2>3
  <2>5. Fits(F, n, u \cup {n})
    BY <1>2, <2>1, <2>3, <2>4 DEF Fits
  <2>6. Fits(F, n, u) \/ F = Append(G, n)
    <3>1. CASE x = n
      BY <2>1, <3>1
    <3>2. CASE x = Torn
      BY <1>2, <2>3, <2>4, <3>2 DEF Fits
    <3> QED BY <2>1, <3>1, <3>2
  <2> QED BY <1>1, <1>5, <2>3, <2>5, <2>6
<1> QED BY <1>3, <1>4, <1>5

LEMMA AppendedOK ==
  ASSUME NEW l, NEW f, NEW u, LogOK(l, u), FilesOK(f, u), Fits(f.frames, l.next, u),
         NEW d, d = Appended(l, f)
  PROVE  /\ IsLeft(d, l, u, l.next + 1)
         /\ l.attached = TRUE => d.log.attached = TRUE /\ EndsWell(d, l, f)
<1>1. l.next + 1 \in Nat \cup {Unreadable}
  BY DEF LogOK
<1>2. d = Compacted(l, f, l.next + 1)
  BY DEF Appended
<1> QED BY <1>1, <1>2, CompactedIs

\* An append in which calls fail leaves the number that is next in order, after
\* the frame its sync may have failed for, and takes nothing a restart finds.
LEMMA AppendFailsOK ==
  ASSUME NEW l, NEW f, NEW u, LogOK(l, u), FilesOK(f, u), Fits(f.frames, l.next, u),
         NEW left \in AppendFails(l, f), NEW v, v = u \cup Unsynced(l, f, left)
  PROVE  /\ LogOK(left.log, v) /\ FilesOK(left.files, v) /\ Fits(left.files.frames, left.log.next, v)
         /\ left.log = l => \A m \in Nat : Covers(f, m) => Covers(left.files, m)
         /\ left.log # l => /\ left.log.next = l.next + 1
                            /\ l.attached = TRUE => EndsWell(left, l, f)
<1>1. u \subseteq v /\ l.next \in Nat /\ f.mark \in Nat \cup {Unreadable}
  BY DEF LogOK, FilesOK
<1>2. CASE \E mark \in Nat \cup {Unreadable} :
              left = Compacted(l, f, mark) \/ left \in NotCompacted(l, f, mark)
  <2>1. PICK mark \in Nat \cup {Unreadable} :
              left = Compacted(l, f, mark) \/ left \in NotCompacted(l, f, mark)
    BY <1>2
  <2>2. IsLeft(left, l, u, mark) /\ (l.attached = TRUE => EndsWell(left, l, f))
    BY <2>1, CompactedIs, NotCompactedIs
  <2>3. left.log # l
    BY <1>1, <2>2 DEF IsLeft
  <2>4. /\ LogOK(left.log, v) /\ FilesOK(left.files, v) /\ Fits(left.files.frames, left.log.next, v)
    <3>1. /\ LogOK(left.log, u) /\ FilesOK(left.files, u) /\ Fits(left.files.frames, left.log.next, u)
      BY <2>2 DEF IsLeft
    <3> QED BY <1>1, <3>1, MoreAgain
  <2> QED BY <2>2, <2>3, <2>4 DEF IsLeft
<1>3. CASE left \in {[log |-> l, files |-> [f EXCEPT !.frames = frames]] : frames \in PartlyWritten(l, f)}
  <2>1. PICK F \in PartlyWritten(l, f) : left = [log |-> l, files |-> [f EXCEPT !.frames = F]]
    BY <1>3
  <2>2. PICK g : g = [f EXCEPT !.frames = F]
    OBVIOUS
  <2>3. left.log = l /\ left.files = g
    BY <2>1, <2>2
  <2>4. g.frames = F /\ g.header = f.header /\ g.mark = f.mark /\ g = Files(g.header, g.frames, g.mark)
    <3>1. IsFilesWith([f EXCEPT !.frames = F], f, F, f.mark)
      BY FilesWith
    <3> QED BY <2>2, <3>1 DEF IsFilesWith
  <2>5. /\ F \in Seq(Nat \cup {Torn}) /\ Ordered(F, u)
        /\ Fits(F, l.next, u) \/ (l.attached = TRUE /\ F = Append(f.frames, l.next))
        /\ Fits(F, l.next, u \cup {l.next})
        /\ \A i \in DOMAIN f.frames : /\ i \in DOMAIN F /\ F[i] = f.frames[i]
                                      /\ Whole(f.frames, i) <=> Whole(F, i)
    BY PartlyWrittenIs
  <2>6. FilesOK(g, u)
    BY <1>1, <2>4, <2>5 DEF FilesOK
  <2>7. Fits(F, l.next, v)
    <3>1. CASE Fits(F, l.next, u)
      BY <1>1, <3>1, MoreAgain
    <3>2. CASE F = Append(f.frames, l.next)
      <4>1. left = [log |-> l, files |-> [f EXCEPT !.frames = Append(@, l.next)]]
        BY <2>1, <3>2
      <4>2. v = u \cup {l.next}
        BY <4>1 DEF Unsynced
      <4> QED BY <2>5, <4>2
    <3> QED BY <2>5, <3>1, <3>2
  <2>8. ASSUME NEW m \in Nat, Covers(f, m) PROVE Covers(g, m)
    <3>1. CASE Found(f, m)
      <4>1. f.header = TRUE /\ \E i \in DOMAIN f.frames : Whole(f.frames, i) /\ f.frames[i] + 1 >= m
        BY <3>1 DEF Found
      <4>2. PICK i \in DOMAIN f.frames : Whole(f.frames, i) /\ f.frames[i] + 1 >= m
        BY <4>1
      <4>3. Whole(F, i) /\ F[i] + 1 >= m /\ i \in DOMAIN F
        BY <2>5, <4>2
      <4> QED BY <2>4, <4>1, <4>3 DEF Found, Covers
    <3> QED BY <2>4, <2>8, <3>1 DEF Covers
  <2>9. LogOK(l, v) /\ FilesOK(g, v)
    BY <1>1, <2>6, MoreAgain
  <2> QED BY <2>3, <2>4, <2>7, <2>8, <2>9
<1>4. \A mark \in {f.mark, Unreadable, l.next + 1} : mark \in Nat \cup {Unreadable}
  BY <1>1
<1>5. \/ left \in {[log |-> l, files |-> [f EXCEPT !.frames = frames]] : frames \in PartlyWritten(l, f)}
      \/ \E mark \in {f.mark, Unreadable, l.next + 1} :
            left = Compacted(l, f, mark) \/ left \in NotCompacted(l, f, mark)
  BY DEF AppendFails
<1> QED BY <1>2, <1>3, <1>4, <1>5

\* A crash in an append of sound files leaves the numbers issued to be found.
LEMMA InterruptedOK ==
  ASSUME NEW l, NEW f, NEW u, LogOK(l, u), FilesOK(f, u), Fits(f.frames, l.next, u),
         NEW g \in AppendInterrupted(l, f)
  PROVE  /\ FilesOK(g, u)
         /\ \A m \in 0 .. l.next : Sound(f, l.next) /\ l.attached = TRUE => Covers(g, m)
<1>1. l.next \in Nat /\ l.next + 1 \in Nat /\ f.mark \in Nat \cup {Unreadable} /\ f.header \in BOOLEAN
  BY DEF LogOK, FilesOK
<1>2. CASE \E F \in PartlyWritten(l, f) : g = [f EXCEPT !.frames = F]
  <2>1. PICK F \in PartlyWritten(l, f) : g = [f EXCEPT !.frames = F]
    BY <1>2
  <2>2. g.frames = F /\ g.header = f.header /\ g.mark = f.mark /\ g = Files(g.header, g.frames, g.mark)
    <3>1. IsFilesWith([f EXCEPT !.frames = F], f, F, f.mark)
      BY FilesWith
    <3> QED BY <2>1, <3>1 DEF IsFilesWith
  <2>3. F \in Seq(Nat \cup {Torn}) /\ Ordered(F, u)
    BY PartlyWrittenIs
  <2>4. FilesOK(g, u)
    BY <1>1, <2>2, <2>3 DEF FilesOK
  <2>5. ASSUME NEW m \in 0 .. l.next, Sound(f, l.next) PROVE Covers(g, m)
    <3>1. g.mark = l.next
      BY <2>2, <2>5 DEF Sound
    <3> QED BY <1>1, <3>1 DEF Covers, Unreadable
  <2> QED BY <2>4, <2>5
<1>3. CASE \E mark \in {Unreadable, l.next + 1} : g = Files(f.header, Written(l, f), mark)
  <2>1. PICK W : W = Written(l, f)
    OBVIOUS
  <2>2. PICK mark \in {Unreadable, l.next + 1} : g = Files(f.header, W, mark)
    BY <1>3, <2>1
  <2>3. g.frames = W /\ g.header = f.header /\ g.mark = mark /\ g = Files(g.header, g.frames, g.mark)
    <3>1. IsFilesWith(Files(f.header, W, mark), f, W, mark)
      BY FilesWith
    <3> QED BY <2>2, <3>1 DEF IsFilesWith
  <2>4. /\ W \in Seq(Nat \cup {Torn}) /\ Ordered(W, u)
        /\ l.attached = TRUE =>
              /\ EndsBefore(W, l.next + 1)
              /\ Clean(f) => Torn \notin ToSet(W)
    BY <2>1, WrittenIs
  <2>5. FilesOK(g, u)
    BY <1>1, <2>3, <2>4 DEF FilesOK
  <2>6. ASSUME NEW m \in 0 .. l.next, Sound(f, l.next), l.attached = TRUE PROVE Covers(g, m)
    <3>1. g.header = TRUE /\ Clean(g) /\ EndsBefore(g.frames, l.next + 1) /\ g.frames \in Seq(Nat \cup {Torn})
      BY <2>3, <2>4, <2>6 DEF Sound, Clean
    <3>2. m \in 0 .. l.next + 1
      BY <1>1
    <3> QED BY <1>1, <3>1, <3>2, LastIsFound
  <2> QED BY <2>5, <2>6
<1>4. CASE g = Appended(l, f).files
  <2>1. PICK d : d = Appended(l, f)
    OBVIOUS
  <2>2. FilesOK(d.files, u) /\ d.files.mark = l.next + 1
    BY <2>1, AppendedOK DEF IsLeft
  <2>3. \A m \in 0 .. l.next : Covers(d.files, m)
    BY <1>1, <2>2 DEF Covers, Unreadable
  <2> QED BY <1>4, <2>1, <2>2, <2>3
<1> QED BY <1>2, <1>3, <1>4 DEF AppendInterrupted

\* What a restart makes of the files: the next number is past those they hold.
LEMMA OpenedOK ==
  ASSUME NEW f, NEW u, FilesOK(f, u), NEW d, d = Opened(f)
  PROVE  /\ LogOK(d.log, u) /\ FilesOK(d.files, u) /\ Fits(d.files.frames, d.log.next, u)
         /\ d.log.attached = TRUE /\ d.files.mark = d.log.next
         /\ \A m \in Nat : Covers(f, m) => d.log.next >= m
         /\ \A n \in Nat : Sound(f, n) => d.log.next = n /\ Sound(d.files, n)
<1>1. /\ f.frames \in Seq(Nat \cup {Torn}) /\ Ordered(f.frames, u) /\ f.header \in BOOLEAN
      /\ f.mark \in Nat \cup {Unreadable}
  BY DEF FilesOK
<1>2. PICK R, mark : R = Recovered(f) /\ mark = Marked(f)
  OBVIOUS
<1>3. /\ R \in Seq(Nat) /\ Len(R) <= Len(f.frames)
      /\ \A i \in 1 .. Len(R) : R[i] = f.frames[i] /\ Whole(f.frames, i)
      /\ f.header = TRUE => \A i \in DOMAIN f.frames : Whole(f.frames, i) => i <= Len(R)
  <2>1. CASE f.header = TRUE
    <3>1. R = Replayed(f.frames)
      BY <1>2, <2>1 DEF Recovered
    <3> QED BY <1>1, <3>1, ReplayedIs
  <2>2. CASE f.header = FALSE
    <3>1. R = <<>>
      BY <1>2, <2>2 DEF Recovered
    <3>2. f.frames \in Seq(Nat \cup {Torn})
      BY <1>1
    <3>3. Len(f.frames) \in Nat /\ Len(f.frames) >= 0
      BY <3>2
    <3>4. R \in Seq(Nat) /\ Len(R) = 0
      BY <3>1
    <3> QED BY <2>2, <3>3, <3>4
  <2> QED BY <1>1, <2>1, <2>2
<1>4. mark \in Nat /\ (f.mark # Unreadable => mark = f.mark)
  BY <1>1, <1>2 DEF Marked
<1>5. /\ NextOf(R) \in Nat /\ \A i \in DOMAIN R : R[i] + 1 <= NextOf(R)
      /\ NextOf(R) = 0 \/ \E i \in DOMAIN R : NextOf(R) = R[i] + 1
  BY <1>3, NextOfIs
<1>6. PICK n : n = Max({NextOf(R), mark})
  OBVIOUS
<1>7. n \in Nat /\ NextOf(R) <= n /\ mark <= n /\ n \in {NextOf(R), mark}
  <2> DEFINE S == {NextOf(R), mark}
  <2>1. S \in SUBSET Nat /\ S # {} /\ \A x \in S : x <= NextOf(R) + mark
    BY <1>4, <1>5
  <2>2. NextOf(R) + mark \in Nat
    BY <1>4, <1>5
  <2> HIDE DEF S
  <2>3. Max(S) \in S /\ \A x \in S : x <= Max(S)
    BY <2>1, <2>2, GreatestNumber
  <2> QED BY <1>6, <2>1, <2>3 DEF S
<1>8. DOMAIN R = 1 .. Len(R) /\ Len(R) \in Nat /\ \A i \in 1 .. Len(R) : R[i] \in Nat
  BY <1>3
<1>9. InOrder(R, u)
  <2> SUFFICES ASSUME NEW i \in 1 .. Len(R), NEW j \in 1 .. Len(R), i < j
               PROVE  R[i] <= R[j] /\ (R[i] = R[j] => R[i] \in u)
    BY <1>8 DEF InOrder
  <2>1. i \in DOMAIN f.frames /\ j \in DOMAIN f.frames /\ Whole(f.frames, j)
    BY <1>1, <1>3, <1>8
  <2>2. f.frames[i] <= f.frames[j] /\ (f.frames[i] = f.frames[j] => f.frames[i] \in u)
    BY <1>1, <2>1 DEF Ordered
  <2> QED BY <1>3, <2>2
<1>10. Below(R, n)
  <2> SUFFICES ASSUME NEW i \in 1 .. Len(R) PROVE R[i] < n
    BY <1>8 DEF Below
  <2>1. R[i] \in Nat /\ R[i] + 1 <= NextOf(R)
    BY <1>5, <1>8
  <2> QED BY <1>5, <1>7, <2>1
<1>11. PICK K : K = Kept(R)
  OBVIOUS
<1>12. /\ K \in Seq(Nat) /\ InOrder(K, u) /\ Below(K, n)
       /\ R # <<>> => K # <<>> /\ K[Len(K)] = R[Len(R)]
  BY <1>3, <1>9, <1>10, <1>11, KeptIs
<1>13. K \in Seq(Nat \cup {Torn}) /\ Ordered(K, u) /\ Fits(K, n, u) /\ Torn \notin ToSet(K)
  BY <1>12, FramesOfRecords
<1>14. d = [log |-> Log(K, n, TRUE), files |-> Files(TRUE, K, n)]
  BY <1>2, <1>6, <1>11 DEF Opened, OpenedAt
<1>15. /\ d.log.records = K /\ d.log.next = n /\ d.log.attached = TRUE
       /\ d.log = Log(d.log.records, d.log.next, d.log.attached)
       /\ d.files.header = TRUE /\ d.files.frames = K /\ d.files.mark = n
       /\ d.files = Files(d.files.header, d.files.frames, d.files.mark)
  BY <1>14 DEF Log, Files
<1>16. LogOK(d.log, u)
  BY <1>7, <1>12, <1>15 DEF LogOK
<1>17. FilesOK(d.files, u)
  BY <1>7, <1>13, <1>15 DEF FilesOK
<1>19. ASSUME NEW m \in Nat, Covers(f, m) PROVE n >= m
  <2>1. CASE m = 0
    BY <1>7, <2>1
  <2>2. CASE f.mark # Unreadable /\ f.mark >= m
    BY <1>1, <1>4, <1>7, <2>2
  <2>3. CASE Found(f, m)
    <3>1. PICK i \in DOMAIN f.frames : Whole(f.frames, i) /\ f.frames[i] + 1 >= m
      BY <2>3 DEF Found
    <3>2. i \in 1 .. Len(R)
      <4>1. f.header = TRUE
        BY <2>3 DEF Found
      <4>2. i <= Len(R)
        BY <1>3, <3>1, <4>1
      <4>3. i \in Nat /\ i >= 1
        BY <1>1
      <4> QED BY <1>8, <4>2, <4>3
    <3>3. R[i] = f.frames[i] /\ R[i] \in Nat /\ R[i] + 1 <= NextOf(R)
      BY <1>3, <1>5, <1>8, <3>2
    <3> QED BY <1>5, <1>7, <3>1, <3>3
  <2> QED BY <1>19, <2>1, <2>2, <2>3 DEF Covers
<1>20. ASSUME NEW m \in Nat, Sound(f, m) PROVE n = m /\ Sound(d.files, m)
  <2>1. /\ f.header = TRUE /\ f.mark = m /\ Clean(f) /\ Below(f.frames, m)
        /\ m = 0 \/ EndsBefore(f.frames, m)
    BY <1>20 DEF Sound
  <2>2. mark = m
    BY <1>1, <1>4, <2>1 DEF Unreadable
  <2>3. \A i \in DOMAIN f.frames : Whole(f.frames, i)
    <3>1. \A i \in 1 .. Len(f.frames) : f.frames[i] # Torn
      BY <1>1, <2>1 DEF Clean, ToSet
    <3> QED BY <1>1, <3>1 DEF Whole
  <2>4. Len(R) = Len(f.frames)
    <3>1. Len(f.frames) \in Nat /\ DOMAIN f.frames = 1 .. Len(f.frames)
      BY <1>1
    <3>2. CASE Len(f.frames) = 0
      BY <1>3, <1>8, <3>1, <3>2
    <3>3. CASE Len(f.frames) # 0
      <4>1. Len(f.frames) \in DOMAIN f.frames
        BY <3>1, <3>3
      <4>2. Len(f.frames) <= Len(R)
        BY <1>3, <2>1, <2>3, <4>1
      <4> QED BY <1>3, <1>8, <3>1, <4>2
    <3> QED BY <3>2, <3>3
  <2>5. NextOf(R) <= m
    <3>1. CASE NextOf(R) = 0
      BY <3>1
    <3>2. ASSUME NEW i \in DOMAIN R, NextOf(R) = R[i] + 1 PROVE NextOf(R) <= m
      <4>1. R[i] \in Nat /\ R[i] = f.frames[i] /\ i \in DOMAIN f.frames
        BY <1>1, <1>3, <1>8, <2>4
      <4>2. f.frames[i] < m
        BY <2>1, <4>1 DEF Below
      <4> QED BY <3>2, <4>1, <4>2
    <3> QED BY <1>5, <3>1, <3>2
  <2>6. n = m
    BY <1>5, <1>7, <2>2, <2>5
  <2>7. m = 0 \/ EndsBefore(K, m)
    <3>1. SUFFICES ASSUME EndsBefore(f.frames, m) PROVE EndsBefore(K, m)
      BY <2>1
    <3>2. f.frames # <<>> /\ f.frames[Len(f.frames)] = m - 1
      BY <3>1 DEF EndsBefore
    <3>3. Len(R) # 0 /\ Len(R) \in 1 .. Len(R)
      BY <1>1, <1>8, <2>4, <3>2
    <3>4. R # <<>> /\ R[Len(R)] = m - 1
      BY <1>3, <1>8, <2>4, <3>2, <3>3
    <3> QED BY <1>12, <3>4 DEF EndsBefore
  <2> QED BY <1>12, <1>13, <1>15, <2>6, <2>7 DEF Sound, Clean
<1> QED BY <1>13, <1>15, <1>16, <1>17, <1>19, <1>20

-----------------------------------------------------------------------------
(* The invariant is inductive.                                              *)

LEMMA NewStoreOK ==
  ASSUME NEW users, AccountsOK(users, {}), NEW first \in DOMAIN users, users[first].admin,
         NEW s, s = [users |-> users, groups |-> {}, grants |-> <<>>, acls |-> <<>>]
  PROVE  StoreOK(s) /\ s.grants = <<>> /\ s.acls = <<>>
<1>1. /\ s.users = users /\ s.groups = {} /\ s.grants = <<>> /\ s.acls = <<>>
      /\ s = [users |-> s.users, groups |-> s.groups, grants |-> s.grants, acls |-> s.acls]
  OBVIOUS
<1>2. DOMAIN <<>> = {} /\ <<>> = [x \in {} |-> <<>>[x]]
  OBVIOUS
<1>3. ListsOK(<<>>, GrantKeys) /\ ListsOK(<<>>, ElementKeys)
  BY <1>2, EmptyList DEF ListsOK, IsFcn
<1>4. Admins(s) # {}
  BY <1>1 DEF Admins
<1> QED BY <1>1, <1>3, <1>4 DEF StoreOK

LEMMA InitInv == Init => IInv
<1> SUFFICES ASSUME Init PROVE IInv
  OBVIOUS
<1>1. StoreOK(store) /\ store.grants = <<>> /\ store.acls = <<>>
  <2>1. CASE store = Bootstrap(First)
    <3>1. PICK users : users = [u \in {First} |-> Account(TRUE, {})]
      OBVIOUS
    <3>2. store = [users |-> users, groups |-> {}, grants |-> <<>>, acls |-> <<>>]
      BY <2>1, <3>1 DEF Bootstrap
    <3>3. AccountsOK(users, {}) /\ First \in DOMAIN users /\ users[First].admin
      BY <3>1, FirstAssumption DEF AccountsOK, IsFcn, Account
    <3> QED BY <3>2, <3>3, NewStoreOK
  <2>2. CASE store = [Bootstrap(First) EXCEPT !.users = [u \in Users |-> Account(TRUE, {})]]
    <3>1. PICK users : users = [u \in Users |-> Account(TRUE, {})]
      OBVIOUS
    <3>2. store = [users |-> users, groups |-> {}, grants |-> <<>>, acls |-> <<>>]
      BY <2>2, <3>1 DEF Bootstrap
    <3>3. AccountsOK(users, {}) /\ First \in DOMAIN users /\ users[First].admin
      BY <3>1, FirstAssumption DEF AccountsOK, IsFcn, Account
    <3> QED BY <3>2, <3>3, NewStoreOK
  <2> QED BY <2>1, <2>2 DEF Init
<1>2. Strangers(store) = {}
  <2>1. Listed(store) = {}
    BY <1>1, ListedParts DEF ListedIn
  <2> QED BY <2>1 DEF Strangers
<1>3. DocOK(Saved(store))
  BY <1>1, SavedIsLoaded
<1>4. StoreInv
  BY <1>1, <1>2, <1>3 DEF StoreInv, Init
<1>5. RequestInv
  <2>1. \A c \in Clients : sessions[c] = NoSession /\ req[c] = Idle
    BY DEF Init
  <2>2. DOMAIN sessions = Clients /\ DOMAIN req = Clients /\ status = "up"
    BY DEF Init
  <2> QED BY <2>1, <2>2, PlainRequests DEF RequestInv, RequestsOK, SessionsOK, SessionOK, Up
<1>6. LogInv
  <2>1. log = Log(<<>>, 0, TRUE) /\ files = Files(TRUE, <<>>, 0)
    BY DEF Init, NewLog, NewFiles
  <2>2. /\ log.records = <<>> /\ log.next = 0 /\ log.attached = TRUE
        /\ log = Log(log.records, log.next, log.attached)
        /\ files.header = TRUE /\ files.frames = <<>> /\ files.mark = 0
        /\ files = Files(files.header, files.frames, files.mark)
    BY <2>1 DEF Log, Files
  <2>3. /\ <<>> \in Seq(Nat) /\ <<>> \in Seq(Nat \cup {Torn})
        /\ InOrder(<<>>, unsynced) /\ Below(<<>>, 0)
        /\ Ordered(<<>>, unsynced) /\ Fits(<<>>, 0, unsynced)
    BY DEF InOrder, Below, Ordered, Fits
  <2>4. LogOK(log, unsynced)
    <3>1. log.records \in Seq(Nat) /\ InOrder(log.records, unsynced) /\ Below(log.records, log.next)
      BY ONLY <2>2, <2>3
    <3>2. log.next \in Nat
      BY ONLY <2>2
    <3>3. log.attached \in BOOLEAN
      BY ONLY <2>2
    <3> QED BY ONLY <2>2, <3>1, <3>2, <3>3 DEF LogOK
  <2>5. FilesOK(files, unsynced)
    <3>1. files.frames \in Seq(Nat \cup {Torn}) /\ Ordered(files.frames, unsynced)
      BY ONLY <2>2, <2>3
    <3>2. files.header \in BOOLEAN
      BY ONLY <2>2
    <3>3. files.mark \in Nat \cup {Unreadable}
      BY ONLY <2>2
    <3> QED BY ONLY <2>2, <3>1, <3>2, <3>3 DEF FilesOK
  <2>6. Fits(files.frames, log.next, unsynced)
    BY ONLY <2>2, <2>3
  <2> QED BY <2>4, <2>5, <2>6 DEF LogInv
<1> QED BY <1>4, <1>5, <1>6 DEF IInv

\* What a step leaves alone.
LEMMA SameStore ==
  ASSUME StoreInv, UNCHANGED storeVars, Up' => Up
  PROVE  StoreInv'
<1>1. store' = store /\ disk' = disk /\ previous' = previous /\ named' = named
  BY DEF storeVars
<1> QED BY <1>1 DEF StoreInv

LEMMA SameLog ==
  ASSUME LogInv, log' = log, files' = files, unsynced' = unsynced, Up' => Up
  PROVE  LogInv'
  BY DEF LogInv

\* A step of a request leaves every other one alone.
LEMMA RequestStep ==
  ASSUME RequestInv, NEW c \in Clients, NEW r, RequestOK(r), Become(c, r), Up, status' = status,
         SessionsOK(sessions')
  PROVE  RequestInv' /\ Up' /\ req'[c] = r /\ \A d \in Clients : d # c => req'[d] = req[d]
<1>1. RequestsOK(req)
  BY DEF RequestInv
<1>2. req' = [req EXCEPT ![c] = r]
  BY DEF Become
<1>3. RequestsOK(req') /\ req'[c] = r /\ \A d \in Clients : d # c => req'[d] = req[d]
  BY <1>1, <1>2 DEF RequestsOK
<1>4. Up' /\ status' \in {"up", "down"}
  BY DEF Up
<1> QED BY <1>3, <1>4 DEF RequestInv

\* A request that has been received runs while the server does.
LEMMA Running ==
  ASSUME RequestInv, NEW c \in Clients, req[c].pc \in {"gate", "revoke", "audit"}
  PROVE  /\ Up /\ req[c] # Idle
         /\ req[c].pc \in {"gate", "revoke"} => ActiveRequest(req[c])
<1>1. RequestOK(req[c])
  BY DEF RequestInv, RequestsOK
<1>2. req[c] # Idle
  BY DEF Idle
<1>3. Up
  BY <1>2 DEF RequestInv
<1>4. req[c].pc \in {"gate", "revoke"} => ActiveRequest(req[c])
  BY <1>1, <1>2 DEF RequestOK, PlainRequest
<1> QED BY <1>2, <1>3, <1>4

LEMMA ReceiveStep ==
  ASSUME IInv, NEW c \in Clients, NEW op \in Requests, Receive(c, op)
  PROVE  IInv'
<1> DEFINE r == [pc |-> "gate", actor |-> sessions[c].user, op |-> op]
<1>1. /\ Up /\ Become(c, r) /\ UNCHANGED storeVars /\ sessions' = sessions
      /\ log' = log /\ files' = files /\ unsynced' = unsynced /\ status' = status
  BY DEF Receive, auditVars
<1>2. OpOK(op)
  BY ReceivedOK
<1>3. RequestOK(r)
  <2>1. PICK actor, changes, ends : actor = sessions[c].user /\ changes = op.changes /\ ends = op.ends
    OBVIOUS
  <2>2. PICK q : q = [pc |-> "gate", actor |-> actor, op |-> [changes |-> changes, ends |-> ends]]
    OBVIOUS
  <2>3. r = q
    BY <1>2, <2>1, <2>2 DEF OpOK
  <2>4. ActiveRequest(q)
    BY <1>2, <2>1, <2>2 DEF ActiveRequest, OpOK
  <2> QED BY <2>3, <2>4 DEF RequestOK
<1> HIDE DEF r
<1>4. RequestInv'
  BY <1>1, <1>3, RequestStep DEF IInv, RequestInv
<1>5. StoreInv' /\ LogInv'
  BY <1>1, SameStore, SameLog DEF IInv
<1> QED BY <1>4, <1>5 DEF IInv

LEMMA GateStep ==
  ASSUME IInv, NEW c \in Clients, Gate(c)
  PROVE  IInv'
<1>1. PICK pc \in {"change", "audit"} : Become(c, [req[c] EXCEPT !.pc = pc])
  BY DEF Gate
<1>2. /\ req[c].pc = "gate" /\ UNCHANGED storeVars /\ sessions' = sessions
      /\ log' = log /\ files' = files /\ unsynced' = unsynced /\ status' = status
  BY DEF Gate, auditVars
<1>3. Up /\ ActiveRequest(req[c])
  BY <1>2, Running DEF IInv
<1>4. RequestOK([req[c] EXCEPT !.pc = pc])
  <2>1. req[c].op.changes # <<>>
    BY <1>2, <1>3 DEF ActiveRequest
  <2> QED BY <1>3, <2>1, StepOn
<1>5. RequestInv' /\ Up'
  BY <1>1, <1>2, <1>3, <1>4, RequestStep DEF IInv, RequestInv
<1>6. StoreInv' /\ LogInv'
  BY <1>2, <1>3, SameStore, SameLog DEF IInv
<1> QED BY <1>5, <1>6 DEF IInv

LEMMA RevokeStep ==
  ASSUME IInv, NEW c \in Clients, Revoke(c)
  PROVE  IInv'
<1>1. /\ req[c].pc = "revoke" /\ UNCHANGED storeVars /\ log' = log /\ files' = files /\ unsynced' = unsynced
      /\ status' = status /\ Become(c, [req[c] EXCEPT !.pc = "audit"])
  BY DEF Revoke, auditVars
<1>2. Up /\ ActiveRequest(req[c])
  BY <1>1, Running DEF IInv
<1>3. RequestOK([req[c] EXCEPT !.pc = "audit"])
  BY <1>2, StepOn
<1>4. SessionsOK(sessions')
  <2>1. /\ DOMAIN sessions' = Clients
        /\ \A d \in Clients : sessions'[d] \in {NoSession, sessions[d]}
    BY DEF Revoke
  <2>2. \A d \in Clients : SessionOK(sessions[d])
    BY DEF IInv, RequestInv, SessionsOK
  <2> QED BY <2>1, <2>2 DEF SessionsOK, SessionOK
<1>5. RequestInv'
  BY <1>1, <1>2, <1>3, <1>4, RequestStep DEF IInv
<1>6. StoreInv' /\ LogInv'
  BY <1>1, <1>2, SameStore, SameLog DEF IInv
<1> QED BY <1>5, <1>6 DEF IInv

LEMMA RefuseStep ==
  ASSUME IInv, NEW c \in Clients, Refuse(c) \/ SaveFails(c)
  PROVE  IInv'
<1>1. /\ Changing(c) /\ UNCHANGED storeVars /\ sessions' = sessions /\ log' = log /\ files' = files
      /\ unsynced' = unsynced /\ status' = status /\ Become(c, Idle)
  BY DEF Refuse, SaveFails, auditVars, Finish
<1>2. Up
  BY <1>1, PendingOK DEF IInv
<1>3. RequestInv'
  BY <1>1, <1>2, PlainRequests, RequestStep DEF IInv, RequestInv
<1>4. StoreInv' /\ LogInv'
  BY <1>1, <1>2, SameStore, SameLog DEF IInv
<1> QED BY <1>3, <1>4 DEF IInv

LEMMA CommitStep ==
  ASSUME IInv, NEW c \in Clients, Commit(c)
  PROVE  IInv'
<1> DEFINE change == Pending(c)
           listed == IF change.what \in {"set_grant", "set_acl"} THEN {change.args[1]} ELSE {}
<1>1. PICK s \in Outcomes(change) :
        /\ store' = s /\ disk' = Saved(s) /\ previous' = disk
        /\ named' = {x \in named : ~Exists(s, x)} \cup
                      (IF change.what \in {"set_grant", "set_acl"}
                       THEN {change.args[1]} \ {x \in Subjects : Exists(s, x)} ELSE {})
  BY DEF Commit
<1>2. /\ Changing(c) /\ NextChange(c) /\ sessions' = sessions /\ log' = log /\ files' = files
      /\ unsynced' = unsynced /\ status' = status
  BY DEF Commit, auditVars
<1>3. /\ ActiveRequest(req[c]) /\ ChangeOK(change) /\ req[c].op.changes # <<>> /\ Up
  BY <1>2, PendingOK DEF IInv
<1> HIDE DEF change
<1>4. StoreOK(store) /\ DocOK(disk) /\ Strangers(store) \subseteq named
  BY <1>3 DEF IInv, StoreInv
<1>5. StoreOK(s) /\ Strangers(s) \subseteq Strangers(store) \cup Given(change)
  BY <1>1, <1>3, <1>4, OutcomeFollows DEF Follows
<1>6. Strangers(s) \subseteq named'
  <2> SUFFICES ASSUME NEW x \in Strangers(s) PROVE x \in named'
    OBVIOUS
  <2>1. ~Exists(s, x)
    BY DEF Strangers
  <2>2. CASE x \in Strangers(store)
    BY <1>1, <1>4, <2>1, <2>2
  <2>3. CASE x \in Given(change)
    <3>1. change.what \in {"set_grant", "set_acl"} /\ x = change.args[1]
      BY <2>3 DEF Given
    <3> QED BY <1>1, <2>1, <3>1
  <2> QED BY <1>5, <2>2, <2>3
<1>7. StoreInv'
  <2>1. DocOK(Saved(s))
    BY <1>5, SavedIsLoaded
  <2> QED BY <1>1, <1>4, <1>5, <1>6, <2>1 DEF StoreInv
<1>8. RequestInv' /\ Up'
  <2> DEFINE rest == Tail(req[c].op.changes)
             pc == IF rest # <<>> THEN "patching" ELSE IF req[c].op.ends # {} THEN "revoke" ELSE "audit"
  <2>1. Become(c, Replaced(req[c], rest, pc))
    BY <1>2 DEF NextChange, Replaced
  <2>2. RequestOK(Replaced(req[c], rest, pc))
    BY <1>3, NextStep
  <2> HIDE DEF rest, pc
  <2> QED BY <1>2, <1>3, <2>1, <2>2, RequestStep DEF IInv, RequestInv
<1>9. LogInv'
  BY <1>2, <1>3, SameLog DEF IInv
<1> QED BY <1>7, <1>8, <1>9 DEF IInv

LEMMA RecordStep ==
  ASSUME IInv, NEW c \in Clients, Record(c)
  PROVE  IInv'
<1>1. /\ req[c].pc = "audit" /\ UNCHANGED storeVars /\ sessions' = sessions
      /\ status' = status /\ Become(c, Idle)
      /\ log' = Appended(log, files).log /\ files' = Appended(log, files).files /\ unsynced' = unsynced
  BY DEF Record, Finish
<1>2. Up
  BY <1>1, Running DEF IInv
<1>3. RequestInv'
  BY <1>1, <1>2, PlainRequests, RequestStep DEF IInv, RequestInv
<1>4. StoreInv'
  BY <1>1, <1>2, SameStore DEF IInv
<1>5. LogInv'
  <2>1. PICK d : d = Appended(log, files)
    OBVIOUS
  <2>2. LogOK(log, unsynced) /\ FilesOK(files, unsynced) /\ Fits(files.frames, log.next, unsynced)
    BY <1>2 DEF IInv, LogInv
  <2>3. /\ LogOK(d.log, unsynced) /\ FilesOK(d.files, unsynced)
        /\ Fits(d.files.frames, d.log.next, unsynced)
    BY <2>1, <2>2, AppendedOK DEF IsLeft
  <2> QED BY <1>1, <2>1, <2>3 DEF LogInv
<1> QED BY <1>3, <1>4, <1>5 DEF IInv

LEMMA RecordFailsStep ==
  ASSUME IInv, NEW c \in Clients, RecordFails(c)
  PROVE  IInv'
<1>1. /\ req[c].pc = "audit" /\ UNCHANGED storeVars /\ sessions' = sessions
      /\ status' = status /\ Become(c, Idle)
  BY DEF RecordFails, Finish
<1>2. PICK left \in AppendFails(log, files) :
         log' = left.log /\ files' = left.files /\ unsynced' = unsynced \cup Unsynced(log, files, left)
  BY DEF RecordFails
<1>3. Up
  BY <1>1, Running DEF IInv
<1>4. RequestInv'
  BY <1>1, <1>3, PlainRequests, RequestStep DEF IInv, RequestInv
<1>5. StoreInv'
  BY <1>1, <1>3, SameStore DEF IInv
<1>6. LogInv'
  <2>1. LogOK(log, unsynced) /\ FilesOK(files, unsynced) /\ Fits(files.frames, log.next, unsynced)
    BY <1>3 DEF IInv, LogInv
  <2>2. PICK v : v = unsynced \cup Unsynced(log, files, left)
    OBVIOUS
  <2>3. LogOK(left.log, v) /\ FilesOK(left.files, v) /\ Fits(left.files.frames, left.log.next, v)
    BY <2>1, <2>2, AppendFailsOK
  <2> QED BY <1>2, <2>2, <2>3 DEF LogInv
<1> QED BY <1>4, <1>5, <1>6 DEF IInv

LEMMA SessionStep ==
  ASSUME IInv, NEW c \in Clients,
         Logout(c) \/ \E u \in Users : Login(c, u)
  PROVE  IInv'
<1>1. /\ Up /\ UNCHANGED storeVars /\ log' = log /\ files' = files /\ unsynced' = unsynced
      /\ status' = status /\ Become(c, [pc |-> "audit"])
  BY DEF Logout, Login, auditVars
<1>2. SessionsOK(sessions')
  <2>1. SessionsOK(sessions)
    BY DEF IInv, RequestInv
  <2>2. PICK s : sessions' = [sessions EXCEPT ![c] = s] /\ SessionOK(s)
    <3>1. CASE Logout(c)
      BY <3>1 DEF Logout, SessionOK
    <3>2. CASE \E u \in Users : Login(c, u)
      <4>1. PICK u \in Users : sessions' = [sessions EXCEPT ![c] = [user |-> u, admin |-> u \in Admins(store)]]
        BY <3>2 DEF Login
      <4>2. PICK s : s = [user |-> u, admin |-> u \in Admins(store)]
        OBVIOUS
      <4>3. SessionOK(s)
        BY <4>2 DEF SessionOK
      <4> QED BY <4>1, <4>2, <4>3
    <3> QED BY <3>1, <3>2
  <2> QED BY <2>1, <2>2 DEF SessionsOK
<1>3. RequestInv'
  BY <1>1, <1>2, PlainRequests, RequestStep DEF IInv
<1>4. StoreInv' /\ LogInv'
  BY <1>1, SameStore, SameLog DEF IInv
<1> QED BY <1>3, <1>4 DEF IInv

\* When the server goes down no request is left, and no session.
LEMMA DownOK ==
  ASSUME RequestInv, status' = "down", req' = [c \in Clients |-> Idle],
         sessions' = [c \in Clients |-> NoSession]
  PROVE  RequestInv' /\ ~Up'
  BY PlainRequests DEF RequestInv, RequestsOK, SessionsOK, SessionOK, Up

LEMMA CrashStep ==
  ASSUME IInv, Crash
  PROVE  IInv'
<1>1. /\ Up /\ status' = "down" /\ disk' \in Survivors /\ previous' = disk' /\ files' \in AuditSurvivors
      /\ sessions' = [c \in Clients |-> NoSession] /\ req' = [c \in Clients |-> Idle]
      /\ store' = store /\ named' = named /\ log' = log /\ unsynced' = unsynced
  BY DEF Crash
<1>2. RequestInv' /\ ~Up'
  BY <1>1, DownOK DEF IInv
<1>3. StoreOK(store) /\ DocOK(disk) /\ DocOK(previous)
  BY DEF IInv, StoreInv
<1>4. DocOK(disk')
  <2>1. CASE disk' \in {disk, previous}
    BY <1>3, <2>1
  <2>2. CASE disk' \in UNION {{Saved(s) : s \in Outcomes(Pending(c))} : c \in {d \in Clients : Changing(d)}}
    <3>1. PICK c \in Clients : Changing(c) /\ disk' \in {Saved(s) : s \in Outcomes(Pending(c))}
      BY <2>2
    <3>2. PICK s \in Outcomes(Pending(c)) : disk' = Saved(s)
      BY <3>1
    <3>3. ChangeOK(Pending(c))
      BY <3>1, PendingOK DEF IInv
    <3>4. StoreOK(s)
      BY <1>3, <3>2, <3>3, OutcomeFollows DEF Follows
    <3> QED BY <3>2, <3>4, SavedIsLoaded
  <2> QED BY <1>1, <2>1, <2>2 DEF Survivors
<1>5. StoreInv'
  BY <1>1, <1>2, <1>3, <1>4 DEF StoreInv
<1>6. LogOK(log, unsynced) /\ FilesOK(files, unsynced) /\ Fits(files.frames, log.next, unsynced)
  BY <1>1 DEF IInv, LogInv
<1>7. FilesOK(files', unsynced)
  <2>1. files' = files \/ files' \in AppendInterrupted(log, files)
    BY <1>1 DEF AuditSurvivors
  <2> QED BY <1>6, <2>1, InterruptedOK
<1>8. LogInv'
  BY <1>1, <1>2, <1>6, <1>7 DEF LogInv
<1> QED BY <1>2, <1>5, <1>8 DEF IInv

LEMMA ShutdownStep ==
  ASSUME IInv, Shutdown
  PROVE  IInv'
<1>1. /\ Up /\ \A c \in Clients : req[c] = Idle
      /\ status' = "down" /\ previous' = disk /\ sessions' = [c \in Clients |-> NoSession]
      /\ store' = store /\ disk' = disk /\ named' = named /\ req' = req
      /\ log' = log /\ files' = files /\ unsynced' = unsynced
  BY DEF Shutdown, auditVars
<1>2. RequestInv' /\ ~Up'
  BY <1>1 DEF IInv, RequestInv, SessionsOK, SessionOK, Up
<1>3. StoreInv' /\ LogInv'
  BY <1>1, <1>2 DEF IInv, StoreInv, LogInv
<1> QED BY <1>2, <1>3 DEF IInv

LEMMA RottenOK ==
  ASSUME NEW f, NEW u, FilesOK(f, u), NEW g,
         g \in {[f EXCEPT !.header = FALSE], [f EXCEPT !.mark = Unreadable]}
  PROVE  /\ FilesOK(g, u) /\ g.frames = f.frames
         /\ \/ g.header = FALSE /\ g.mark = f.mark
            \/ g.header = f.header /\ g.mark = Unreadable
<1>1. PICK h, frames, mark : h = f.header /\ frames = f.frames /\ mark = f.mark
  OBVIOUS
<1>2. f = [header |-> h, frames |-> frames, mark |-> mark]
  BY <1>1 DEF FilesOK, Files
<1>3. \/ g = [header |-> FALSE, frames |-> frames, mark |-> mark]
      \/ g = [header |-> h, frames |-> frames, mark |-> Unreadable]
  BY <1>2
<1>4. h \in BOOLEAN /\ frames \in Seq(Nat \cup {Torn}) /\ mark \in Nat \cup {Unreadable} /\ Ordered(frames, u)
  BY <1>1 DEF FilesOK
<1>5. PICK hg \in {FALSE, h}, mg \in {mark, Unreadable} :
        /\ g = Files(hg, frames, mg)
        /\ (hg = FALSE /\ mg = mark) \/ (hg = h /\ mg = Unreadable)
  BY <1>3 DEF Files
<1>6. g.header = hg /\ g.frames = frames /\ g.mark = mg
  BY ONLY <1>5 DEF Files
<1> QED BY <1>1, <1>4, <1>5, <1>6 DEF FilesOK

LEMMA RotStep ==
  ASSUME IInv, Rot
  PROVE  IInv'
<1>1. /\ ~Up /\ UNCHANGED storeVars /\ sessions' = sessions /\ req' = req /\ log' = log /\ unsynced' = unsynced
      /\ status' = status
      /\ \/ files' = [files EXCEPT !.header = FALSE]
         \/ files' = [files EXCEPT !.mark = Unreadable]
  BY DEF Rot
<1>2. RequestInv' /\ ~Up'
  BY <1>1 DEF IInv, RequestInv, Up
<1>3. StoreInv'
  BY <1>1, SameStore DEF IInv, Up
<1>4. FilesOK(files', unsynced)
  <2>1. FilesOK(files, unsynced)
    BY DEF IInv, LogInv
  <2> QED BY <1>1, <2>1, RottenOK
<1>5. LogInv'
  BY <1>1, <1>2, <1>4 DEF IInv, LogInv
<1> QED BY <1>2, <1>3, <1>5 DEF IInv

LEMMA BootStep ==
  ASSUME IInv, Boot
  PROVE  IInv'
<1>1. /\ ~Up /\ status' = "up" /\ store' = Loaded(disk) /\ named' = Strangers(Loaded(disk))
      /\ log' = Opened(files).log /\ files' = Opened(files).files
      /\ disk' = disk /\ previous' = previous /\ sessions' = sessions /\ req' = req
      /\ unsynced' = unsynced
  BY DEF Boot
<1>2. RequestInv'
  BY <1>1 DEF IInv, RequestInv, Up
<1>3. DocOK(disk) /\ DocOK(previous)
  BY DEF IInv, StoreInv
<1>4. StoreInv'
  <2>1. StoreOK(Loaded(disk)) /\ disk = Saved(Loaded(disk))
    BY <1>3 DEF DocOK
  <2>2. store' = Loaded(disk) /\ named' = Strangers(store')
    BY <1>1
  <2> QED BY <1>1, <1>3, <2>1, <2>2 DEF StoreInv
<1>5. LogInv'
  <2>1. PICK d : d = Opened(files)
    OBVIOUS
  <2>2. FilesOK(files, unsynced)
    BY DEF IInv, LogInv
  <2>3. /\ LogOK(d.log, unsynced) /\ FilesOK(d.files, unsynced)
        /\ Fits(d.files.frames, d.log.next, unsynced)
    BY <2>1, <2>2, OpenedOK
  <2> QED BY <1>1, <2>1, <2>3 DEF LogInv
<1> QED BY <1>2, <1>4, <1>5 DEF IInv

LEMMA NextInv == IInv /\ [Next]_vars => IInv'
<1> SUFFICES ASSUME IInv, [Next]_vars PROVE IInv'
  OBVIOUS
<1>1. ASSUME NEW c \in Clients, NEW op \in Requests, Receive(c, op) PROVE IInv'
  BY <1>1, ReceiveStep
<1>2. ASSUME NEW c \in Clients,
             Gate(c) \/ Commit(c) \/ Refuse(c) \/ SaveFails(c) \/ Revoke(c) \/ Record(c) \/ RecordFails(c)
      PROVE  IInv'
  BY <1>2, GateStep, CommitStep, RefuseStep, RevokeStep, RecordStep, RecordFailsStep
<1>3. ASSUME NEW c \in Clients, NEW u \in Users, Login(c, u) PROVE IInv'
  BY <1>3, SessionStep
<1>4. ASSUME NEW c \in Clients, Logout(c) PROVE IInv'
  BY <1>4, SessionStep
<1>5. ASSUME Crash \/ Shutdown \/ Rot \/ Boot PROVE IInv'
  BY <1>5, CrashStep, ShutdownStep, RotStep, BootStep
<1>6. ASSUME UNCHANGED vars PROVE IInv'
  <2>1. /\ UNCHANGED storeVars /\ log' = log /\ files' = files /\ unsynced' = unsynced /\ status' = status
        /\ req' = req /\ sessions' = sessions
    BY <1>6 DEF vars, auditVars
  <2>2. StoreInv' /\ LogInv'
    BY <2>1, SameStore, SameLog DEF IInv, Up
  <2>3. RequestInv'
    BY <2>1 DEF IInv, RequestInv, Up
  <2> QED BY <2>2, <2>3 DEF IInv
<1> QED BY <1>1, <1>2, <1>3, <1>4, <1>5, <1>6 DEF Next

\* In every reachable state the store and its documents are ones the changes can
\* leave, the requests are in order, and the numbers of the audit records never
\* fall, in memory and in the file, and repeat only after a sync that failed.
THEOREM Invariance == Spec => []IInv
  BY InitInv, NextInv, PTL DEF Spec

-----------------------------------------------------------------------------
(* Rights are as they were given.                                           *)

LEMMA InvTypes == IInv => TypeOK
<1> SUFFICES ASSUME IInv PROVE TypeOK
  OBVIOUS
<1>1. StoreOK(store)
  BY DEF IInv, StoreInv
<1>2. IsStore(store)
  <2>1. ListsOK(store.grants, GrantKeys) /\ ListsOK(store.acls, ElementKeys)
    BY <1>1 DEF StoreOK
  <2>2. DOMAIN store.users \subseteq Users /\ store.groups \subseteq Groups
    BY <1>1 DEF StoreOK, AccountsOK
  <2>3. ASSUME NEW key \in DOMAIN store.grants
        PROVE  store.grants[key] # <<>> /\ DOMAIN store.grants[key] \subseteq Subjects
    <3>1. /\ DOMAIN store.grants[key] \subseteq Subjects /\ DOMAIN store.grants[key] # {}
          /\ IsFcn(store.grants[key])
      BY <2>1 DEF ListsOK
    <3> QED BY <3>1, EmptyList
  <2> QED BY <2>1, <2>2, <2>3 DEF IsStore, ListsOK
<1>3. \A u \in DOMAIN store.users : store.users[u].groups \subseteq store.groups
  BY <1>1 DEF StoreOK, AccountsOK
<1>4. \A c \in Clients : sessions[c] = NoSession \/ sessions[c].user \in Users
  BY DEF IInv, RequestInv, SessionsOK, SessionOK
<1>5. log.next \in Nat
  BY DEF IInv, LogInv, LogOK
<1> QED BY <1>2, <1>3, <1>4, <1>5 DEF TypeOK

LEMMA InvRights == IInv => SomeAdmin /\ RightsSurviveRestart /\ NothingInherited
<1> SUFFICES ASSUME IInv PROVE SomeAdmin /\ RightsSurviveRestart /\ NothingInherited
  OBVIOUS
<1>1. StoreOK(store) /\ StoreOK(Loaded(disk)) /\ StoreOK(Loaded(previous))
  BY DEF IInv, StoreInv, DocOK
<1>2. SomeAdmin
  BY <1>1 DEF SomeAdmin, StoreOK
<1>3. RightsSurviveRestart
  <2>1. Up => Loaded(disk) = store
    BY <1>1, SavedIsLoaded DEF IInv, StoreInv
  <2> QED BY <2>1 DEF RightsSurviveRestart
<1>4. NothingInherited
  BY DEF IInv, StoreInv, NothingInherited
<1> QED BY <1>2, <1>3, <1>4

\* A step by which a request passes its gate is the step of Gate.
LEMMA GateOnly ==
  ASSUME IInv, [Next]_vars, NEW c \in Clients, req[c].pc = "gate", req'[c].pc = "change"
  PROVE  Gate(c)
<1>1. DOMAIN req = Clients
  BY DEF IInv, RequestInv, RequestsOK
<1>2. req[c] # Idle
  BY DEF Idle
<1>3. ASSUME NEW d \in Clients, NEW r, Become(d, r), d # c \/ r \in {Idle, [pc |-> "audit"]}
      PROVE  FALSE
  <2>1. req' = [req EXCEPT ![d] = r]
    BY <1>3 DEF Become
  <2>2. CASE d # c
    BY <1>1, <2>1, <2>2
  <2>3. CASE r \in {Idle, [pc |-> "audit"]} /\ d = c
    <3>1. req'[c] = r
      BY <1>1, <2>1, <2>3
    <3> QED BY <2>3, <3>1 DEF Idle
  <2> QED BY <1>3, <2>2, <2>3
<1>4. ASSUME NEW d \in Clients, NEW op \in Requests, Receive(d, op) PROVE FALSE
  <2>1. req[d] = Idle
    BY <1>4 DEF Receive
  <2> QED BY <1>2, <1>3, <1>4, <2>1 DEF Receive
<1>5. ASSUME NEW d \in Clients, Gate(d) PROVE Gate(c)
  <2>1. PICK r : Become(d, r)
    BY <1>5 DEF Gate
  <2> QED BY <1>3, <1>5, <2>1
<1>6. ASSUME NEW d \in Clients, Commit(d) PROVE FALSE
  <2>1. PICK r : Become(d, r)
    BY <1>6 DEF Commit, NextChange
  <2>2. d # c
    BY <1>6 DEF Commit, Changing
  <2> QED BY <1>3, <2>1, <2>2
<1>7. ASSUME NEW d \in Clients, Refuse(d) \/ SaveFails(d) \/ Record(d) \/ RecordFails(d) PROVE FALSE
  <2>1. Become(d, Idle)
    BY <1>7 DEF Refuse, SaveFails, Record, RecordFails, Finish
  <2> QED BY <1>3, <2>1
<1>8. ASSUME NEW d \in Clients, Revoke(d) PROVE FALSE
  <2>1. PICK r : Become(d, r)
    BY <1>8 DEF Revoke
  <2>2. d # c
    BY <1>8 DEF Revoke
  <2> QED BY <1>3, <2>1, <2>2
<1>9. ASSUME NEW d \in Clients, Logout(d) \/ \E u \in Users : Login(d, u) PROVE FALSE
  <2>1. Become(d, [pc |-> "audit"])
    BY <1>9 DEF Logout, Login
  <2> QED BY <1>3, <2>1
<1>10. ASSUME Crash \/ Shutdown \/ Rot \/ Boot PROVE FALSE
  <2>1. req' = req \/ req' = [d \in Clients |-> Idle]
    BY <1>10 DEF Crash, Shutdown, Rot, Boot
  <2>2. req'[c] = req[c] \/ req'[c] = Idle
    BY <2>1
  <2> QED BY <2>2 DEF Idle
<1>11. ASSUME UNCHANGED vars PROVE FALSE
  BY <1>11 DEF vars
<1> QED BY <1>4, <1>5, <1>6, <1>7, <1>8, <1>9, <1>10, <1>11 DEF Next

\* Rights are the ones last given, in memory and in every document a crash may
\* leave, a name that is used again inherits none, and a gate is passed on the
\* store as it is: RightsAreAsGiven, for any store and any number of faults
\* (SecurityStore::commit, purge_subject, require_admin).
THEOREM RightsAsGiven == Spec => RightsAreAsGiven
<1>1. IInv => TypeOK /\ SomeAdmin /\ RightsSurviveRestart /\ NothingInherited
  BY InvTypes, InvRights
<1> DEFINE LiveGate == \A c \in Clients : req[c].pc = "gate" /\ req[c]'.pc = "change" =>
                          req[c].actor \in Admins(store)
<1>2. IInv /\ [Next]_vars => LiveGate
  <2> SUFFICES ASSUME IInv, [Next]_vars, NEW c \in Clients, req[c].pc = "gate", req'[c].pc = "change"
               PROVE  req[c].actor \in Admins(store)
    OBVIOUS
  <2>1. Gate(c)
    BY GateOnly
  <2>2. /\ req' = [req EXCEPT ![c] = [req[c] EXCEPT !.pc =
                    IF req[c].actor \in Admins(store) THEN "change" ELSE "audit"]]
    BY <2>1 DEF Gate, Become
  <2>3. ActiveRequest(req[c]) /\ DOMAIN req = Clients
    BY Running DEF IInv, RequestInv, RequestsOK
  <2>4. req'[c].pc = IF req[c].actor \in Admins(store) THEN "change" ELSE "audit"
    BY <2>2, <2>3 DEF ActiveRequest
  <2> QED BY <2>4
<1> HIDE DEF LiveGate
<1>3. Spec => [][LiveGate]_vars
  BY <1>2, Invariance, PTL DEF Spec
<1>4. Spec => [](TypeOK /\ SomeAdmin /\ RightsSurviveRestart /\ NothingInherited)
  BY <1>1, Invariance, PTL
<1>5. [][LiveGate]_vars => GatesAreLive
  BY PTL DEF GatesAreLive, LiveGate
<1> QED BY <1>3, <1>4, <1>5 DEF RightsAreAsGiven

-----------------------------------------------------------------------------
(* A number is issued once.                                                 *)

LEMMA InitIssue == Init => IssueInv
<1> SUFFICES ASSUME Init PROVE IssueInv
  OBVIOUS
<1>1. /\ issued = 0 /\ faults = 0 /\ log = Log(<<>>, 0, TRUE) /\ files = Files(TRUE, <<>>, 0)
  BY DEF Init, NewLog, NewFiles
<1>2. log.next = 0 /\ log.attached = TRUE /\ files.header = TRUE /\ files.frames = <<>> /\ files.mark = 0
  BY <1>1 DEF Log, Files
<1>3. Sound(files, log.next)
  BY <1>2 DEF Sound, Clean, Below, ToSet
<1>4. faults \in 0 .. MaxFaults
  BY <1>1, RequestsAssumption
<1>5. Covers(files, issued)
  BY <1>1 DEF Covers
<1>6. issued \in Nat /\ log.next >= issued
  <2>1. issued = 0
    BY DEF Init
  <2> QED BY ONLY <1>2, <2>1
<1> QED BY <1>2, <1>3, <1>4, <1>5, <1>6 DEF IssueInv

\* What most steps do to the numbers: nothing.
LEMMA SameIssue ==
  ASSUME IssueInv, files' = files, log' = log, issued' = issued, Up' => Up,
         faults' \in 0 .. MaxFaults, faults' = 0 => faults = 0
  PROVE  IssueInv'
  BY DEF IssueInv

\* With one fault at most, a fault finds the files as they were written.
LEMMA OneFault ==
  ASSUME MaxFaults <= 1, IssueInv, Fault
  PROVE  /\ faults' \in 0 .. MaxFaults /\ faults' # 0 /\ Sound(files, log.next) /\ issued \in 0 .. log.next
         /\ log.attached = TRUE
<1>1. faults < MaxFaults /\ faults' = faults + 1 /\ faults \in 0 .. MaxFaults /\ MaxFaults \in Nat
  BY RequestsAssumption DEF Fault, IssueInv
<1>2. faults = 0
  BY <1>1
<1>3. Sound(files, log.next) /\ log.next >= issued /\ issued \in Nat /\ log.attached = TRUE
  BY <1>2 DEF IssueInv
<1>4. faults' \in 0 .. MaxFaults /\ faults' # 0
  BY <1>1, <1>2
<1> QED BY <1>3, <1>4

LEMMA RecordIssue ==
  ASSUME IInv, IssueInv, NEW c \in Clients, Record(c)
  PROVE  IssueInv'
<1>1. /\ req[c].pc = "audit" /\ status' = status /\ faults' = faults
      /\ log' = Appended(log, files).log /\ files' = Appended(log, files).files
      /\ issued' = log.next + 1
  BY DEF Record, bounds
<1>2. Up
  BY <1>1, Running DEF IInv
<1>3. LogOK(log, unsynced) /\ FilesOK(files, unsynced) /\ Fits(files.frames, log.next, unsynced)
  BY <1>2 DEF IInv, LogInv
<1>4. PICK d : d = Appended(log, files)
  OBVIOUS
<1>5. /\ d.log.next = log.next + 1 /\ d.files.mark = log.next + 1
      /\ log.attached = TRUE => d.log.attached = TRUE /\ EndsWell(d, log, files)
  BY <1>3, <1>4, AppendedOK DEF IsLeft
<1>6. log.next \in Nat
  BY <1>3 DEF LogOK
<1>7. log' = d.log /\ files' = d.files
  BY <1>1, <1>4
<1>8. Covers(d.files, log.next + 1)
  BY <1>5, <1>6 DEF Covers, Unreadable
<1>9. ASSUME faults = 0 PROVE Sound(d.files, log.next + 1) /\ d.log.attached = TRUE
  <2>1. Sound(files, log.next) /\ log.attached = TRUE
    BY <1>9 DEF IssueInv
  <2> QED BY <1>5, <2>1 DEF Sound, EndsWell
<1>10. log.next + 1 \in Nat /\ log.next + 1 >= log.next + 1
  BY <1>6
<1>11. faults \in 0 .. MaxFaults
  BY DEF IssueInv
<1> QED BY <1>1, <1>5, <1>7, <1>8, <1>9, <1>10, <1>11 DEF IssueInv

LEMMA RecordFailsIssue ==
  ASSUME MaxFaults <= 1, IInv, IssueInv, NEW c \in Clients, RecordFails(c)
  PROVE  IssueInv'
<1>1. req[c].pc = "audit" /\ status' = status /\ Fault
  BY DEF RecordFails
<1>2. PICK left \in AppendFails(log, files) :
        /\ log' = left.log /\ files' = left.files
        /\ issued' = IF left.log = log THEN issued ELSE log.next + 1
  BY DEF RecordFails
<1>3. Up
  BY <1>1, Running DEF IInv
<1>4. LogOK(log, unsynced) /\ FilesOK(files, unsynced) /\ Fits(files.frames, log.next, unsynced)
  BY <1>3 DEF IInv, LogInv
<1>5. PICK v : v = unsynced \cup Unsynced(log, files, left)
  OBVIOUS
<1>6. /\ FilesOK(left.files, v)
      /\ left.log = log => \A m \in Nat : Covers(files, m) => Covers(left.files, m)
      /\ left.log # log => /\ left.log.next = log.next + 1
                           /\ log.attached = TRUE => EndsWell(left, log, files)
  BY <1>4, <1>5, AppendFailsOK
<1>7. /\ faults' \in 0 .. MaxFaults /\ faults' # 0 /\ Sound(files, log.next) /\ issued \in 0 .. log.next
      /\ log.attached = TRUE
  BY <1>1, OneFault
<1>8. log.next \in Nat /\ log.next + 1 \in Nat
  BY <1>4 DEF LogOK
<1>9. CASE left.log = log
  <2>1. issued \in Nat /\ Covers(files, issued) /\ log.next >= issued
    BY <1>7, <1>8 DEF IssueInv
  <2> QED BY <1>2, <1>3, <1>6, <1>7, <1>9, <2>1 DEF IssueInv
<1>10. CASE left.log # log
  <2>1. /\ left.files.header = TRUE /\ Clean(left.files) /\ EndsBefore(left.files.frames, log.next + 1)
        /\ left.files.frames \in Seq(Nat \cup {Torn})
    BY <1>6, <1>7, <1>10 DEF EndsWell, Sound, FilesOK
  <2>2. log.next + 1 \in 0 .. log.next + 1
    BY <1>8
  <2>3. Covers(left.files, log.next + 1)
    BY <1>8, <2>1, <2>2, LastIsFound
  <2>4. issued' = log.next + 1 /\ log'.next = log.next + 1 /\ log.next + 1 >= log.next + 1
    BY <1>2, <1>6, <1>8, <1>10
  <2> QED BY <1>2, <1>7, <1>8, <2>3, <2>4 DEF IssueInv
<1> QED BY <1>9, <1>10

LEMMA CrashIssue ==
  ASSUME MaxFaults <= 1, IInv, IssueInv, Crash
  PROVE  IssueInv'
<1>1. /\ Up /\ Fault /\ status' = "down" /\ files' \in AuditSurvivors /\ log' = log /\ issued' = issued
  BY DEF Crash
<1>2. ~Up'
  BY <1>1 DEF Up
<1>3. /\ faults' \in 0 .. MaxFaults /\ faults' # 0 /\ Sound(files, log.next) /\ issued \in 0 .. log.next
      /\ log.attached = TRUE
  BY <1>1, OneFault
<1>4. Covers(files', issued)
  <2>1. CASE files' = files
    BY <2>1 DEF IssueInv
  <2>2. CASE files' \in AppendInterrupted(log, files)
    <3>1. LogOK(log, unsynced) /\ FilesOK(files, unsynced) /\ Fits(files.frames, log.next, unsynced)
      BY <1>1 DEF IInv, LogInv
    <3> QED BY <1>3, <2>2, <3>1, InterruptedOK
  <2> QED BY <1>1, <2>1, <2>2 DEF AuditSurvivors
<1> QED BY <1>1, <1>2, <1>3, <1>4 DEF IssueInv

\* Files that were whole still tell the last number when one of them is lost.
LEMMA RotIssue ==
  ASSUME MaxFaults <= 1, IInv, IssueInv, Rot
  PROVE  IssueInv'
<1>1. /\ ~Up /\ Fault /\ log' = log /\ issued' = issued /\ status' = status
      /\ \/ files' = [files EXCEPT !.header = FALSE]
         \/ files' = [files EXCEPT !.mark = Unreadable]
  BY DEF Rot
<1>2. ~Up'
  BY <1>1 DEF Up
<1>3. faults' \in 0 .. MaxFaults /\ faults' # 0 /\ Sound(files, log.next) /\ issued \in 0 .. log.next
  BY <1>1, OneFault
<1>4. log.next \in Nat /\ FilesOK(files, unsynced)
  BY DEF IInv, LogInv, LogOK
<1>5. /\ files'.frames = files.frames
      /\ \/ files'.header = FALSE /\ files'.mark = files.mark
         \/ files'.header = files.header /\ files'.mark = Unreadable
  BY <1>1, <1>4, RottenOK
<1>6. /\ files.header = TRUE /\ files.mark = log.next /\ Clean(files)
      /\ log.next = 0 \/ EndsBefore(files.frames, log.next)
  BY <1>3 DEF Sound
<1>7. Covers(files', issued)
  <2>1. CASE files'.mark = files.mark
    BY <1>3, <1>4, <1>6, <2>1 DEF Covers, Unreadable
  <2>2. CASE log.next = 0
    BY <1>3, <2>2 DEF Covers
  <2>3. CASE files'.header = files.header /\ EndsBefore(files.frames, log.next)
    <3>1. /\ files'.header = TRUE /\ Clean(files') /\ EndsBefore(files'.frames, log.next)
          /\ files'.frames \in Seq(Nat \cup {Torn})
      BY <1>4, <1>5, <1>6, <2>3 DEF Clean, FilesOK
    <3> QED BY <1>3, <1>4, <3>1, LastIsFound
  <2> QED BY <1>5, <1>6, <2>1, <2>2, <2>3
<1> QED BY <1>1, <1>2, <1>3, <1>7 DEF IssueInv

LEMMA BootIssue ==
  ASSUME IInv, IssueInv, Boot
  PROVE  IssueInv'
<1>1. /\ log' = Opened(files).log /\ files' = Opened(files).files /\ issued' = issued
      /\ faults' = faults
  BY DEF Boot, bounds
<1>2. PICK d : d = Opened(files)
  OBVIOUS
<1>3. FilesOK(files, unsynced) /\ log.next \in Nat
  BY DEF IInv, LogInv, LogOK
<1>4. /\ LogOK(d.log, unsynced) /\ FilesOK(d.files, unsynced) /\ d.files.mark = d.log.next
      /\ d.log.attached = TRUE
      /\ \A m \in Nat : Covers(files, m) => d.log.next >= m
      /\ \A n \in Nat : Sound(files, n) => d.log.next = n /\ Sound(d.files, n)
  BY <1>2, <1>3, OpenedOK
<1>5. issued \in Nat /\ Covers(files, issued) /\ faults \in 0 .. MaxFaults
  BY DEF IssueInv
<1>6. d.log.next >= issued
  BY <1>4, <1>5
<1>7. Covers(d.files, issued)
  <2>1. d.log.next \in Nat
    BY <1>4 DEF LogOK
  <2> QED BY <1>4, <1>6, <2>1 DEF Covers, Unreadable
<1>8. ASSUME faults = 0 PROVE Sound(d.files, d.log.next)
  <2>1. Sound(files, log.next)
    BY <1>8 DEF IssueInv
  <2> QED BY <1>3, <1>4, <2>1
<1>9. log' = d.log /\ files' = d.files
  BY <1>1, <1>2
<1> QED BY <1>1, <1>4, <1>5, <1>6, <1>7, <1>8, <1>9 DEF IssueInv

LEMMA NextIssue ==
  ASSUME MaxFaults <= 1
  PROVE  IInv /\ IssueInv /\ [Next]_vars => IssueInv'
<1> SUFFICES ASSUME IInv, IssueInv, [Next]_vars PROVE IssueInv'
  OBVIOUS
<1>1. faults \in 0 .. MaxFaults
  BY DEF IssueInv
<1>2. ASSUME UNCHANGED auditVars, UNCHANGED status, UNCHANGED faults PROVE IssueInv'
  BY <1>1, <1>2, SameIssue DEF auditVars, Up
<1>3. ASSUME NEW c \in Clients, NEW op \in Requests, Receive(c, op) PROVE IssueInv'
  BY <1>2, <1>3 DEF Receive
<1>4. ASSUME NEW c \in Clients, Gate(c) \/ Commit(c) \/ Refuse(c) \/ Revoke(c) PROVE IssueInv'
  BY <1>2, <1>4 DEF Gate, Commit, Refuse, Revoke, bounds
<1>5. ASSUME NEW c \in Clients, SaveFails(c) PROVE IssueInv'
  <2>1. Fault /\ UNCHANGED auditVars /\ status' = status
    BY <1>5 DEF SaveFails
  <2>2. faults' \in 0 .. MaxFaults /\ faults' # 0
    BY <2>1, OneFault
  <2> QED BY <2>1, <2>2, SameIssue DEF auditVars, Up
<1>6. ASSUME NEW c \in Clients, Record(c) \/ RecordFails(c) PROVE IssueInv'
  BY <1>6, RecordIssue, RecordFailsIssue
<1>7. ASSUME NEW c \in Clients, Logout(c) \/ \E u \in Users : Login(c, u) PROVE IssueInv'
  BY <1>2, <1>7 DEF Logout, Login, bounds
<1>8. ASSUME Shutdown PROVE IssueInv'
  <2>1. UNCHANGED auditVars /\ faults' = faults /\ ~Up'
    BY <1>8 DEF Shutdown, bounds, Up
  <2> QED BY <1>1, <2>1, SameIssue DEF auditVars
<1>9. ASSUME Crash \/ Rot \/ Boot PROVE IssueInv'
  BY <1>9, CrashIssue, RotIssue, BootIssue
<1>10. ASSUME UNCHANGED vars PROVE IssueInv'
  BY <1>2, <1>10 DEF vars, bounds
<1> QED BY <1>3, <1>4, <1>5, <1>6, <1>7, <1>8, <1>9, <1>10 DEF Next

\* While the server is up the next audit number is past every record that was
\* counted, and no two records have one number unless the first was refused by its
\* sync: NumbersIssuedOnce, for any retention bound and any length of run in which
\* at most one append, crash or rot goes wrong (AuditLog::open_with_policy, append).
\* Two are too many: a crash can lose the sequence file and a rotten header the
\* records.  The order of the records holds for any number of faults.
THEOREM IssuedOnce ==
  ASSUME MaxFaults <= 1
  PROVE  Spec => []NumbersIssuedOnce
<1>1. Init => IInv /\ IssueInv
  BY InitInv, InitIssue
<1>2. IInv /\ IssueInv /\ [Next]_vars => (IInv /\ IssueInv)'
  BY NextInv, NextIssue
<1>3. IInv /\ IssueInv => NumbersIssuedOnce
  <2> SUFFICES ASSUME IInv, IssueInv, Up PROVE NumbersIssuedOnce
    BY DEF NumbersIssuedOnce
  <2>1. LogOK(log, unsynced) /\ FilesOK(files, unsynced)
    BY DEF IInv, LogInv
  <2>2. InOrder(log.records, unsynced)
    BY <2>1 DEF LogOK
  <2>3. InOrder(Replayed(files.frames), unsynced)
    BY <2>1, ReplayedInOrder DEF FilesOK
  <2> QED BY <2>2, <2>3 DEF IssueInv, NumbersIssuedOnce
<1> QED BY <1>1, <1>2, <1>3, PTL DEF Spec

=============================================================================
