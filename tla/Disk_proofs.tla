----------------------------- MODULE Disk_proofs -----------------------------
(***************************************************************************)
(* Proofs about what is kept in files: the library of shared dimensions of  *)
(* DimensionLibrary and the log of WalLog, each for any value of its        *)
(* constants.                                                               *)
(*                                                                          *)
(* The library.  For any cubes, ids, names, kinds and numbers of requests   *)
(* and faults: the copies of a shared dimension keep in step with the       *)
(* library, what is on disk boots, and no reference and no appended member  *)
(* is forgotten.                                                            *)
(*                                                                          *)
(* The log.  Any cells, batches and files of any length, any number of      *)
(* crashes, failed appends and damaged frames, one at a time between two    *)
(* opens.  The scan is a fold: it and FlattenSeq are unrolled into stages,  *)
(* one for each frame or unit, by induction over the numbers (AllNumbers).  *)
(***************************************************************************)
EXTENDS DimensionLibrary, WalLog, FiniteSetTheorems, WellFoundedInduction, SequenceTheorems, TLAPS

-----------------------------------------------------------------------------
(* The inductive invariant.                                                 *)

Changes == [how : {"grow"}, what : Member] \cup [how : {"edit"}, what : Edits]
IsDimension(members) == members \in Seq(Member) /\ NamesOnce(members)

\* A registry is well formed, no cube refers to two of its dimensions, and
\* the cubes that refer to one are there.
OneEach(reg) == \A i, j \in DOMAIN reg : reg[i].refs \cap reg[j].refs # {} => i = j
IsLibrary(reg, bound, alive) ==
    /\ DOMAIN reg \subseteq Ids
    /\ \A id \in DOMAIN reg :
          /\ reg[id] \in [gen : Nat, members : Seq(Member), refs : SUBSET alive]
          /\ NamesOnce(reg[id].members)
          /\ id < bound
    /\ OneEach(reg)

IsIndex(idx, files, alive) ==
    /\ idx \in [DOMAIN idx -> [gen : Nat, refs : SUBSET alive]]
    /\ DOMAIN idx \subseteq DOMAIN files
    /\ OneEach(idx)

IsBodies(files) == DOMAIN files \subseteq Ids /\ \A id \in DOMAIN files : IsDimension(files[id])

IsCopies(copies) ==
    /\ copies \in [Cubes -> [live : BOOLEAN, members : Seq(Member)]]
    /\ \A c \in Cubes : NamesOnce(copies[c].members)

IsSaving(saving, bound, alive) ==
    saving # Free =>
        /\ DOMAIN saving = {"op", "next", "todo", "indexed"}
        /\ saving.op # "free" /\ saving.indexed \in BOOLEAN
        /\ IsLibrary(saving.next, bound, alive)
        /\ saving.todo \subseteq DOMAIN saving.next

IsEditing(editing) ==
    /\ editing.pc \in {"idle", "embedded", "saving", "fanout"}
    /\ editing.pc = "idle" => editing = Idle
    /\ editing.pc = "embedded" => editing.cube \in Cubes /\ editing.edit \in Edits
    /\ editing.pc \in {"saving", "fanout"} =>
          /\ DOMAIN editing = {"pc", "id", "change", "todo"}
          /\ editing.id \in Ids /\ editing.change \in Changes /\ editing.todo \subseteq Cubes

IsDrift(apart) ==
    apart \in [torn : SUBSET Cubes, stray : SUBSET Cubes, behind : SUBSET Cubes, ahead : SUBSET Ids]

Alive == {c \in Cubes : Live(c)}

TypesInv ==
    /\ IsLibrary(library, nextId, Alive) /\ nextId \in Nat
    /\ IsCopies(copy)
    /\ IsBodies(bodies)
    /\ IsIndex(index, bodies, Alive)
    /\ IsSaving(topo, nextId, Alive)
    /\ IsEditing(editor)
    /\ handler # None => handler.cube \in Cubes /\ handler.member \in Member
    /\ IsDrift(drift)
    /\ status \in {"up", "down", "refused"}
    /\ status # "up" => topo = Free /\ editor = Idle /\ handler = None

\* What is staged follows what is published.
Staged == topo # Free
RefsFollow(reg, later) ==
    \A id \in DOMAIN reg : id \in DOMAIN later \/ reg[id].refs = {}
RefsGrow(reg, later) ==
    \A id \in DOMAIN reg \cap DOMAIN later : reg[id].refs \subseteq later[id].refs
MembersFollow(reg, later) ==
    \A id \in DOMAIN reg \cap DOMAIN later : later[id].members = reg[id].members

\* What an edit has staged: one dimension changed, the references kept.
Changing(reg, later, editing) ==
    /\ DOMAIN later = DOMAIN reg /\ editing.id \in DOMAIN reg
    /\ \A id \in DOMAIN reg :
          /\ later[id].refs = reg[id].refs
          /\ id # editing.id => later[id].members = reg[id].members
    /\ ~Refused(reg[editing.id].members, editing.change)
    /\ later[editing.id].members = Changed(reg[editing.id].members, editing.change)
    /\ editing.todo = reg[editing.id].refs

StagedInv ==
    /\ topo.op = "change" <=> editor.pc = "saving"
    /\ Staged => RefsFollow(library, topo.next) /\ RefsGrow(library, topo.next)
    /\ Staged /\ topo.op # "change" => MembersFollow(library, topo.next)
    /\ editor.pc = "saving" => Changing(library, topo.next, editor)

Exempt == drift.torn \cup drift.stray
InStep(c, mine, theirs, behind) ==
    IF c \in behind THEN ToSet(mine) \subseteq ToSet(theirs) ELSE mine = theirs
AllInStep(reg, copies, but, behind) ==
    \A id \in DOMAIN reg : \A c \in reg[id].refs \ but :
        InStep(c, copies[c].members, reg[id].members, behind)

\* A copy a fan-out has yet to reach is in step with what the library had.
WasInStep(c, mine, theirs, change, behind) ==
    \E old \in Seq(Member) :
        /\ NamesOnce(old) /\ ~Refused(old, change)
        /\ theirs = Changed(old, change)
        /\ InStep(c, mine, old, behind)
Lagging(reg, copies, editing, but, behind) ==
    /\ editing.todo # {} => editing.id \in DOMAIN reg /\ editing.todo \subseteq reg[editing.id].refs
    /\ \A c \in editing.todo \ but :
          WasInStep(c, copies[c].members, reg[editing.id].members, editing.change, behind)

StepInv ==
    status = "up" =>
        /\ AllInStep(library, copy, Exempt \cup Pending, drift.behind)
        /\ editor.pc = "fanout" => Lagging(library, copy, editor, Exempt, drift.behind)
        /\ Staged /\ topo.op # "change" => AllInStep(topo.next, copy, Exempt \cup Pending, drift.behind)

\* What the body of a dimension may hold when its last save did not return.
NearTo(body, members) == body = members \/ \E m \in Member : body = Grown(members, m)
AllNear(reg, files, ids, ahead) ==
    \A id \in ids : id \in DOMAIN files /\ (id \in ahead \/ NearTo(files[id], reg[id].members))
AllSaved(reg, files, ids) == \A id \in ids : id \in DOMAIN files /\ files[id] = reg[id].members

SavedIds == IF Staged THEN DOMAIN topo.next \ topo.todo ELSE {}

DiskInv ==
    status = "up" =>
        /\ index = IF Staged /\ topo.indexed THEN IndexOf(topo.next) ELSE IndexOf(library)
        /\ Staged /\ topo.indexed => topo.todo = {}
        /\ AllSaved(topo.next, bodies, SavedIds)
        /\ AllNear(library, bodies, DOMAIN library \ SavedIds, drift.ahead)

\* A copy from which a boot can make the body.
Reachable(c, mine, body, behind) ==
    IF c \in behind THEN ToSet(mine) \subseteq ToSet(body) ELSE NearTo(body, mine)
AllReachable(idx, files, copies, ids, but, behind) ==
    \A id \in ids : \A c \in idx[id].refs \ but : Reachable(c, copies[c].members, files[id], behind)

DownInv ==
    status = "down" =>
        /\ AllNear(library, bodies, DOMAIN index \cap DOMAIN library, drift.ahead)
        /\ RefsGrow(library, index)
        /\ AllReachable(index, bodies, copy, DOMAIN index \ drift.ahead, Exempt, drift.behind)

IInv == TypesInv /\ StagedInv /\ StepInv /\ DiskInv /\ DownInv /\ OnlyDriftStopsABoot

-----------------------------------------------------------------------------
(* Induction over the numbers, and the least and greatest of some.          *)

\* A set that holds 0 and the successor of what it holds has every number.
LEMMA AllNumbers ==
  ASSUME NEW S, 0 \in S, \A n \in Nat : n \in S => n + 1 \in S
  PROVE  Nat \subseteq S
<1> SUFFICES ASSUME Nat \ S # {} PROVE FALSE
  OBVIOUS
<1> DEFINE Below == {1 .. n : n \in Nat \ S}
<1>1. Below # {} /\ Below \subseteq FiniteSubsetsOf(Nat)
  <2>1. \A n \in Nat : 1 .. n \in FiniteSubsetsOf(Nat)
    BY SMTT(30), FS_Interval DEF FiniteSubsetsOf
  <2> QED BY <2>1
<1>2. PICK B \in Below : \A C \in Below : <<C, B>> \notin StrictSubsetOrdering(Nat)
  <2> HIDE DEF Below
  <2> QED BY <1>1, FS_StrictSubsetOrderingWellFounded, WFMin
<1>3. PICK x \in Nat \ S : B = 1 .. x
  OBVIOUS
<1>4. x - 1 \in Nat /\ x - 1 \notin S
  OBVIOUS
<1>5. 1 .. (x - 1) \in SUBSET (1 .. x) /\ x \notin 1 .. (x - 1) /\ x \in 1 .. x
  BY <1>4
<1>6. 1 .. (x - 1) \subseteq Nat /\ 1 .. x \subseteq Nat
  OBVIOUS
<1>7. <<1 .. (x - 1), 1 .. x>> \in StrictSubsetOrdering(Nat)
  BY <1>5, <1>6 DEF StrictSubsetOrdering
<1> QED BY <1>2, <1>3, <1>4, <1>7

LEMMA GreatestNumber ==
  ASSUME NEW n \in Nat, NEW S \in SUBSET (0 .. n), S # {}
  PROVE  Max(S) \in S /\ \A x \in S : Max(S) >= x
<1> DEFINE HasOne(T) == \E x \in T : \A y \in T : x >= y
           U == {m \in Nat : \A T \in SUBSET (0 .. m) : T # {} => HasOne(T)}
<1>1. 0 \in U
  <2> SUFFICES ASSUME NEW T \in SUBSET (0 .. 0), T # {} PROVE HasOne(T)
    OBVIOUS
  <2>1. 0 .. 0 = {0}
    OBVIOUS
  <2>2. \A x \in T : x = 0
    BY <2>1
  <2>3. PICK x \in T : TRUE
    OBVIOUS
  <2>4. \A y \in T : x >= y
    BY <2>2
  <2> QED BY <2>4
<1>2. ASSUME NEW m \in Nat, m \in U PROVE m + 1 \in U
  <2> SUFFICES ASSUME NEW T \in SUBSET (0 .. (m + 1)), T # {} PROVE HasOne(T)
    OBVIOUS
  <2>1. CASE m + 1 \in T
    BY <2>1
  <2>2. CASE m + 1 \notin T
    <3>1. T \in SUBSET (0 .. m)
      BY <2>2
    <3> QED BY <3>1, <1>2
  <2> QED BY <2>1, <2>2
<1> HIDE DEF HasOne
<1>3. Nat \subseteq U
  <2> HIDE DEF U
  <2> QED BY <1>1, <1>2, AllNumbers
<1>4. HasOne(S)
  BY <1>3
<1>5. \E x \in S : \A y \in S : x >= y
  BY <1>4 DEF HasOne
<1> QED BY <1>5 DEF Max

\* A set of numbers has a least one.
LEMMA LeastNumber ==
  ASSUME NEW S \in SUBSET Nat, S # {}
  PROVE  Min(S) \in S
<1> DEFINE U == {m \in Nat : m \in S => \E x \in S : \A y \in S : x <= y}
           V == {m \in Nat : \A k \in 0 .. m : k \in U}
<1>1. 0 \in V
  <2>1. \A k \in 0 .. 0 : k = 0
    OBVIOUS
  <2> QED BY <2>1
<1>2. ASSUME NEW m \in Nat, m \in V PROVE m + 1 \in V
  <2> SUFFICES m + 1 \in U
    BY <1>2
  <2> SUFFICES ASSUME m + 1 \in S PROVE \E x \in S : \A y \in S : x <= y
    OBVIOUS
  <2>1. CASE \E y \in S : y <= m
    BY <1>2, <2>1
  <2>2. CASE ~\E y \in S : y <= m
    BY <2>2
  <2> QED BY <2>1, <2>2
<1>3. Nat \subseteq V
  <2> HIDE DEF V
  <2> QED BY <1>1, <1>2, AllNumbers
<1>4. PICK s \in S : s \in V
  BY <1>3
<1>5. s \in U
  BY <1>4
<1>6. \E x \in S : \A y \in S : x <= y
  BY <1>5
<1> QED BY <1>6 DEF Min

-----------------------------------------------------------------------------
(* What growing, editing and reconciling make of the members.               *)

\* The stages of a fold of Grown over a sequence of members.
IsReconcile(stages, s0, ints) ==
    /\ stages[0] = s0
    /\ \A k \in 0 .. (Len(ints) - 1) : stages[k + 1] = Grown(stages[k], ints[k + 1])

LEMMA ReconcileByStages ==
  ASSUME NEW s0 \in Seq(Member), NEW ints \in Seq(Member)
  PROVE  \E stages : IsReconcile(stages, s0, ints)
                     /\ FoldLeft(Grown, s0, ints) = stages[Len(ints)]
<1> DEFINE n == Len(ints)
           D == DOMAIN ints
           Body(it, s) == IF s = {} THEN s0 ELSE Grown(it[s \ {Max(s)}], ints[Max(s)])
           Solves(it, m) == \A s \in SUBSET D : Cardinality(s) <= m => it[s] = Body(it, s)
           M == {m \in Nat : \E it : Solves(it, m)}
<1>1. n \in Nat /\ D = 1 .. n /\ IsFiniteSet(D) /\ Cardinality(D) = n
  <2>1. n \in Nat /\ D = 1 .. n
    OBVIOUS
  <2> HIDE DEF n, D
  <2>3. IsFiniteSet(1 .. n) /\ Cardinality(1 .. n) = IF 1 > n THEN 0 ELSE n - 1 + 1
    BY <2>1, FS_Interval
  <2> QED BY <2>1, <2>3
<1>2. \A s \in SUBSET D : s # {} => Max(s) \in s
  <2> SUFFICES ASSUME NEW s \in SUBSET D, s # {} PROVE Max(s) \in s
    OBVIOUS
  <2>1. s \in SUBSET (0 .. n)
    BY <1>1
  <2> QED BY <1>1, <2>1, GreatestNumber
<1>3. \A s \in SUBSET D : IsFiniteSet(s) /\ Cardinality(s) \in Nat /\ Cardinality(s) <= n
                          /\ (Cardinality(s) = 0 => s = {})
  <2> HIDE DEF D, n
  <2> SUFFICES ASSUME NEW s \in SUBSET D
               PROVE  IsFiniteSet(s) /\ Cardinality(s) \in Nat /\ Cardinality(s) <= n
                      /\ (Cardinality(s) = 0 => s = {})
    OBVIOUS
  <2>1. IsFiniteSet(s) /\ Cardinality(s) <= n
    BY <1>1, FS_Subset
  <2>2. Cardinality(s) \in Nat
    BY <2>1, FS_CardinalityType
  <2> QED BY <2>1, <2>2, FS_EmptySet
<1>4. \A s \in SUBSET D : s # {} => Cardinality(s \ {Max(s)}) = Cardinality(s) - 1
  <2> HIDE DEF D, n
  <2> QED BY <1>2, <1>3, FS_RemoveElement
<1> HIDE DEF D, n
<1>5. 0 \in M
  <2> DEFINE it == [s \in SUBSET D |-> s0]
  <2>1. Solves(it, 0)
    <3> SUFFICES ASSUME NEW s \in SUBSET D, Cardinality(s) <= 0 PROVE it[s] = Body(it, s)
      OBVIOUS
    <3>1. s = {}
      BY <1>3
    <3> QED BY <3>1
  <2> HIDE DEF it, Solves
  <2> QED BY <2>1
<1>6. ASSUME NEW m \in Nat, m \in M PROVE m + 1 \in M
  <2>1. PICK it : Solves(it, m)
    BY <1>6
  <2> DEFINE next == [s \in SUBSET D |-> Body(it, s)]
  <2>2. \A s \in SUBSET D : next[s] = Body(it, s)
    OBVIOUS
  <2> HIDE DEF next
  <2>3. Solves(next, m + 1)
    <3> SUFFICES ASSUME NEW s \in SUBSET D, Cardinality(s) <= m + 1 PROVE next[s] = Body(next, s)
      OBVIOUS
    <3>1. CASE s = {}
      BY <3>1, <2>2
    <3>2. CASE s # {}
      <4> DEFINE t == s \ {Max(s)}
      <4>1. t \in SUBSET D /\ Cardinality(t) <= m
        BY <3>2, <1>3, <1>4
      <4>2. it[t] = Body(it, t)
        BY <4>1, <2>1
      <4>3. next[t] = it[t]
        BY <4>1, <4>2, <2>2
      <4>4. next[s] = Grown(it[t], ints[Max(s)])
        BY <3>2, <2>2
      <4> QED BY <3>2, <4>3, <4>4
    <3> QED BY <3>1, <3>2
  <2> HIDE DEF Solves
  <2> QED BY <2>3
<1>7. PICK some : Solves(some, n)
  <2>1. Nat \subseteq M
    <3> HIDE DEF M
    <3> QED BY <1>5, <1>6, AllNumbers
  <2> HIDE DEF Solves
  <2> QED BY <2>1, <1>1
<1> DEFINE fold == [s \in SUBSET D |-> some[s]]
           iter == CHOOSE it : it = [s \in SUBSET D |-> Body(it, s)]
<1>8. fold = [s \in SUBSET D |-> Body(fold, s)]
  <2>1. \A s \in SUBSET D : some[s] = Body(some, s)
    BY <1>3, <1>7
  <2>2. \A s \in SUBSET D : Body(some, s) = Body(fold, s)
    OBVIOUS
  <2> QED BY <2>1, <2>2
<1>9. iter = [s \in SUBSET D |-> Body(iter, s)]
  <2> HIDE DEF fold, Body
  <2> QED BY <1>8
<1>10. FoldLeft(Grown, s0, ints) = iter[D]
  BY DEF FoldLeft, MapThenFoldSet, D
<1> HIDE DEF iter
<1>11. iter[{}] = s0
  BY <1>9
<1>12. ASSUME NEW k \in 0 .. (n - 1)
       PROVE  iter[1 .. (k + 1)] = Grown(iter[1 .. k], ints[k + 1])
  <2> DEFINE s == 1 .. (k + 1)
  <2>1. k \in Nat /\ s \in SUBSET D /\ s # {} /\ s \in SUBSET (0 .. n)
    <3>1. k \in Nat /\ k + 1 \in s /\ k + 1 <= n
      BY <1>1
    <3>2. s \subseteq 1 .. n
      BY <1>1, <3>1
    <3>3. 1 .. n \subseteq 0 .. n
      BY <1>1
    <3> QED BY <1>1, <3>1, <3>2, <3>3
  <2>2. Max(s) = k + 1
    <3>1. Max(s) \in s /\ \A x \in s : Max(s) >= x
      <4> HIDE DEF s
      <4> QED BY <1>1, <2>1, GreatestNumber
    <3> QED BY <2>1, <3>1
  <2>3. s \ {k + 1} = 1 .. k
    BY <2>1
  <2> HIDE DEF s
  <2>4. iter[s] = Body(iter, s)
    <3> HIDE DEF Body
    <3> QED BY <1>9, <2>1
  <2> QED BY <2>1, <2>2, <2>3, <2>4 DEF s
<1> DEFINE stages == [k \in 0 .. n |-> iter[1 .. k]]
<1>13. 1 .. 0 = {}
  OBVIOUS
<1>14. IsReconcile(stages, s0, ints)
  <2>1. stages[0] = s0
    BY <1>1, <1>11, <1>13
  <2>2. \A k \in 0 .. (n - 1) : stages[k + 1] = Grown(stages[k], ints[k + 1])
    BY <1>1, <1>12
  <2> HIDE DEF stages
  <2> QED BY <2>1, <2>2 DEF IsReconcile, n
<1>15. FoldLeft(Grown, s0, ints) = stages[n]
  BY <1>1, <1>10
<1> QED BY <1>14, <1>15 DEF n

LEMMA MemberFields == ASSUME NEW m \in Member PROVE m = [name |-> m.name, kind |-> m.kind] /\ m.name \in Names /\ m.kind \in Kinds
BY DEF Member

\* A member of a dimension is known by its name.
LEMMA NamedOnce ==
  ASSUME NEW s, IsDimension(s), NEW m \in ToSet(s), NEW l \in ToSet(s), m.name = l.name
  PROVE  m = l
BY DEF IsDimension, NamesOnce, ToSet

LEMMA SetOfMembers ==
  ASSUME NEW s, s \in Seq(Member)
  PROVE  /\ ToSet(s) \subseteq Member
         /\ NamesOf(s) = {m.name : m \in ToSet(s)}
         /\ \A i \in DOMAIN s : s[i] \in ToSet(s)
BY DEF ToSet, NamesOf

LEMMA KindsKnown ==
  ASSUME NEW s, IsDimension(s), NEW m \in Member
  PROVE  Conflicts(s, m) <=> m.name \in NamesOf(s) /\ m \notin ToSet(s)
<1>1. CASE m.name \in NamesOf(s)
  <2>1. PICK l \in ToSet(s) : l.name = m.name
    BY <1>1 DEF NamesOf, ToSet
  <2>2. \A k \in ToSet(s) : k.name = m.name => k = l
    BY <2>1, NamedOnce
  <2>3. (CHOOSE k \in ToSet(s) : k.name = m.name) = l
    BY <2>1, <2>2
  <2>4. KindIn(s, m.name) = l.kind
    BY <2>3 DEF KindIn
  <2>5. l \in Member
    BY SetOfMembers DEF IsDimension
  <2>6. l.kind = m.kind <=> m \in ToSet(s)
    BY <2>1, <2>2, <2>5, MemberFields
  <2> QED BY <1>1, <2>4, <2>6 DEF Conflicts
<1>2. CASE m.name \notin NamesOf(s)
  BY <1>2 DEF Conflicts
<1> QED BY <1>1, <1>2

LEMMA GrownFacts ==
  ASSUME NEW s, IsDimension(s), NEW m \in Member
  PROVE  /\ IsDimension(Grown(s, m))
         /\ ToSet(Grown(s, m)) = IF m.name \in NamesOf(s) THEN ToSet(s) ELSE ToSet(s) \cup {m}
<1>1. CASE m.name \in NamesOf(s)
  BY <1>1 DEF Grown
<1>2. CASE m.name \notin NamesOf(s)
  <2> DEFINE t == Append(s, m)
             n == Len(s)
  <2>1. s \in Seq(Member) /\ t \in Seq(Member) /\ n \in Nat
    BY DEF IsDimension
  <2>2. /\ DOMAIN s = 1 .. n /\ DOMAIN t = 1 .. (n + 1) /\ t[n + 1] = m
        /\ \A i \in 1 .. n : t[i] = s[i]
    BY <2>1
  <2>3. \A i \in 1 .. n : s[i].name # m.name
    BY <1>2, <2>2 DEF NamesOf
  <2> HIDE DEF t, n
  <2>4. \A i \in 1 .. (n + 1) : i = n + 1 \/ i \in 1 .. n
    BY <2>1
  <2>5. NamesOnce(t)
    BY <2>2, <2>3, <2>4 DEF NamesOnce, IsDimension
  <2>6. ToSet(t) = ToSet(s) \cup {m}
    <3>1. 1 .. n \subseteq 1 .. (n + 1) /\ n + 1 \in 1 .. (n + 1)
      BY <2>1
    <3> QED BY <2>2, <2>4, <3>1 DEF ToSet
  <2>7. Grown(s, m) = t
    BY <1>2 DEF Grown, t
  <2> QED BY <1>2, <2>1, <2>5, <2>6, <2>7 DEF IsDimension
<1> QED BY <1>1, <1>2

\* What an edit makes of the set of the members.
SetEdited(members, e) ==
    CASE e.do = "delete" -> {m \in members : m.name # e.name}
      [] e.do = "insert" -> members \cup {[name |-> e.name, kind |-> e.kind]}
      [] e.do = "setKind" -> {m \in members : m.name # e.name} \cup
                             {[name |-> e.name, kind |-> e.kind] : m \in {l \in members : l.name = e.name}}
      [] e.do = "reverse" -> members

LEMMA EditFields ==
  ASSUME NEW e \in Edits
  PROVE  /\ e.do \in {"delete", "insert", "setKind", "reverse"}
         /\ e.do \in {"delete", "insert", "setKind"} => e.name \in Names
         /\ e.do \in {"insert", "setKind"} => e.kind \in Kinds
BY DEF Edits

LEMMA DeletedFacts ==
  ASSUME NEW s, IsDimension(s), NEW name, name \in NamesOf(s)
  PROVE  /\ IsDimension(RemoveAt(s, PositionOf(s, name)))
         /\ ToSet(RemoveAt(s, PositionOf(s, name))) = {m \in ToSet(s) : m.name # name}
<1> DEFINE p == PositionOf(s, name)
           n == Len(s)
           t == RemoveAt(s, p)
<1>1. s \in Seq(Member) /\ n \in Nat /\ DOMAIN s = 1 .. n
  BY DEF IsDimension
<1>2. p \in 1 .. n /\ s[p].name = name
  BY <1>1 DEF PositionOf, NamesOf
<1>3. \A i \in 1 .. n : s[i].name = name => i = p
  BY <1>1, <1>2 DEF IsDimension, NamesOnce
<1> HIDE DEF p, n
<1>4. /\ t \in Seq(Member) /\ DOMAIN t = 1 .. (n - 1)
      /\ \A i \in 1 .. (n - 1) : t[i] = IF i < p THEN s[i] ELSE s[i + 1]
  <2> DEFINE before == SubSeq(s, 1, p - 1)
             after == SubSeq(s, p + 1, n)
  <2>1. /\ before \in Seq(Member) /\ Len(before) = p - 1
        /\ \A i \in 1 .. (p - 1) : before[i] = s[i]
    BY <1>1, <1>2 DEF n
  <2>2. /\ after \in Seq(Member) /\ Len(after) = n - p
        /\ \A i \in 1 .. (n - p) : after[i] = s[p + i]
    <3>1. p + 1 \in 1 .. (Len(s) + 1) /\ n \in (p + 1) - 1 .. Len(s)
      BY <1>1, <1>2 DEF n
    <3>2. /\ after \in Seq(Member) /\ Len(after) = n - (p + 1) + 1
          /\ \A i \in 1 .. (n - (p + 1) + 1) : after[i] = s[(p + 1) + i - 1]
      BY <1>1, <3>1, SubSeqProperties
    <3>3. n - (p + 1) + 1 = n - p
      BY <1>1, <1>2
    <3>4. \A i \in 1 .. (n - p) : (p + 1) + i - 1 = p + i
      BY <1>1, <1>2
    <3> QED BY <3>2, <3>3, <3>4
  <2>3. t = before \o after
    BY DEF RemoveAt, n
  <2> HIDE DEF before, after
  <2>4. t \in Seq(Member) /\ Len(t) = n - 1
    BY <1>1, <1>2, <2>1, <2>2, <2>3
  <2>5. ASSUME NEW i \in 1 .. (n - 1) PROVE t[i] = IF i < p THEN s[i] ELSE s[i + 1]
    <3>1. CASE i < p
      BY <1>1, <1>2, <2>1, <2>2, <2>3, <3>1
    <3>2. CASE ~(i < p)
      <4>1. t[i] = after[i - (p - 1)] /\ i - (p - 1) \in 1 .. (n - p)
        BY <1>1, <1>2, <2>1, <2>2, <2>3, <3>2
      <4>2. p + (i - (p - 1)) = i + 1
        BY <1>1, <1>2
      <4> QED BY <2>2, <3>2, <4>1, <4>2
    <3> QED BY <3>1, <3>2
  <2> QED BY <2>4, <2>5
<1> HIDE DEF t
<1>5. NamesOnce(t)
  <2> SUFFICES ASSUME NEW i \in 1 .. (n - 1), NEW j \in 1 .. (n - 1), t[i].name = t[j].name PROVE i = j
    BY <1>4 DEF NamesOnce
  <2> DEFINE a == IF i < p THEN i ELSE i + 1
             b == IF j < p THEN j ELSE j + 1
  <2>1. a \in 1 .. n /\ b \in 1 .. n /\ t[i] = s[a] /\ t[j] = s[b]
    BY <1>1, <1>2, <1>4
  <2>2. a = b
    <3> HIDE DEF a, b
    <3> QED BY <1>1, <2>1 DEF IsDimension, NamesOnce
  <2> QED BY <1>1, <1>2, <2>2
<1>6. ToSet(t) = {m \in ToSet(s) : m.name # name}
  <2>1. ASSUME NEW m \in ToSet(t) PROVE m \in ToSet(s) /\ m.name # name
    <3>1. PICK i \in 1 .. (n - 1) : m = t[i]
      BY <1>4 DEF ToSet
    <3>2. PICK a \in 1 .. n : a # p /\ m = s[a]
      <4>1. CASE i < p
        BY <1>1, <1>2, <1>4, <3>1, <4>1
      <4>2. CASE ~(i < p)
        <5>1. i + 1 \in 1 .. n /\ i + 1 # p
          BY <1>1, <1>2, <4>2
        <5> QED BY <1>4, <3>1, <4>2, <5>1
      <4> QED BY <4>1, <4>2
    <3> QED BY <1>1, <1>3, <3>2 DEF ToSet
  <2>2. ASSUME NEW m \in ToSet(s), m.name # name PROVE m \in ToSet(t)
    <3>1. PICK a \in 1 .. n : m = s[a]
      BY <1>1 DEF ToSet
    <3>2. a # p
      BY <1>2, <2>2, <3>1
    <3>3. CASE a < p
      <4>1. a \in 1 .. (n - 1) /\ t[a] = m
        BY <1>1, <1>2, <1>4, <3>1, <3>3
      <4> QED BY <1>4, <4>1 DEF ToSet
    <3>4. CASE a > p
      <4>1. a - 1 \in 1 .. (n - 1) /\ ~(a - 1 < p) /\ (a - 1) + 1 = a
        BY <1>1, <1>2, <3>4
      <4>2. t[a - 1] = m
        BY <1>4, <3>1, <4>1
      <4> QED BY <1>4, <4>1, <4>2 DEF ToSet
    <3> QED BY <1>1, <1>2, <3>2, <3>3, <3>4
  <2> QED BY <2>1, <2>2
<1> QED BY <1>4, <1>5, <1>6 DEF IsDimension, t, p

LEMMA InsertedFacts ==
  ASSUME NEW s, IsDimension(s), NEW m \in Member, m.name \notin NamesOf(s)
  PROVE  IsDimension(<<m>> \o s) /\ ToSet(<<m>> \o s) = ToSet(s) \cup {m}
<1> DEFINE t == <<m>> \o s
           n == Len(s)
<1>1. s \in Seq(Member) /\ n \in Nat /\ DOMAIN s = 1 .. n
  BY DEF IsDimension
<1>2. /\ t \in Seq(Member) /\ DOMAIN t = 1 .. (n + 1) /\ t[1] = m
      /\ \A i \in 1 .. (n + 1) : i # 1 => t[i] = s[i - 1]
  BY <1>1
<1> HIDE DEF t, n
<1>3. \A i \in 1 .. (n + 1) : i # 1 => i - 1 \in 1 .. n
  BY <1>1
<1>4. \A i \in 1 .. n : i + 1 \in 1 .. (n + 1) /\ i + 1 # 1 /\ (i + 1) - 1 = i
  BY <1>1
<1>5. \A i \in 1 .. n : s[i].name # m.name
  BY <1>1 DEF NamesOf
<1>6. NamesOnce(t)
  <2> SUFFICES ASSUME NEW i \in 1 .. (n + 1), NEW j \in 1 .. (n + 1), t[i].name = t[j].name PROVE i = j
    BY <1>2 DEF NamesOnce
  <2>1. CASE i = 1 \/ j = 1
    BY <1>2, <1>3, <1>5, <2>1
  <2>2. CASE i # 1 /\ j # 1
    <3>1. i - 1 \in 1 .. n /\ j - 1 \in 1 .. n /\ s[i - 1].name = s[j - 1].name
      BY <1>2, <1>3, <2>2
    <3>2. i - 1 = j - 1
      BY <1>1, <3>1 DEF IsDimension, NamesOnce
    <3> QED BY <1>1, <3>2
  <2> QED BY <2>1, <2>2
<1>7. ToSet(t) = ToSet(s) \cup {m}
  <2>1. 1 \in 1 .. (n + 1)
    BY <1>1
  <2>2. ASSUME NEW l \in ToSet(t) PROVE l \in ToSet(s) \cup {m}
    <3>1. PICK i \in 1 .. (n + 1) : l = t[i]
      BY <1>2 DEF ToSet
    <3>2. i # 1 => l = s[i - 1] /\ i - 1 \in DOMAIN s
      BY <1>1, <1>2, <1>3, <3>1
    <3> QED BY <1>2, <3>1, <3>2 DEF ToSet
  <2>3. ASSUME NEW l \in ToSet(s) PROVE l \in ToSet(t)
    <3>1. PICK i \in 1 .. n : l = s[i]
      BY <1>1 DEF ToSet
    <3>2. l = t[i + 1] /\ i + 1 \in DOMAIN t
      BY <1>2, <1>4, <3>1
    <3> QED BY <3>2 DEF ToSet
  <2>4. m \in ToSet(t)
    BY <1>2, <2>1 DEF ToSet
  <2> QED BY <2>2, <2>3, <2>4
<1> QED BY <1>2, <1>6, <1>7 DEF IsDimension, t

LEMMA RekindedFacts ==
  ASSUME NEW s, IsDimension(s), NEW e \in Edits, e.do = "setKind"
  PROVE  IsDimension(Edited(s, e)) /\ ToSet(Edited(s, e)) = SetEdited(ToSet(s), e)
<1> DEFINE new == [name |-> e.name, kind |-> e.kind]
           t == Edited(s, e)
           n == Len(s)
<1>1. s \in Seq(Member) /\ n \in Nat /\ DOMAIN s = 1 .. n /\ \A i \in 1 .. n : s[i] \in Member
  BY DEF IsDimension
<1>2. new \in Member /\ new.name = e.name
  BY EditFields DEF Member
<1>3. \A i \in 1 .. n : s[i].name = e.name => [s[i] EXCEPT !.kind = e.kind] = new
  BY <1>1 DEF Member
<1>4. t = [i \in 1 .. n |-> IF s[i].name = e.name THEN new ELSE s[i]]
  BY <1>1, <1>3 DEF Edited
<1> HIDE DEF t, n, new
<1>5. t \in Seq(Member)
  BY <1>1, <1>2, <1>4
<1>6. DOMAIN t = 1 .. n /\ \A i \in 1 .. n : t[i] = IF s[i].name = e.name THEN new ELSE s[i]
  BY <1>4
<1>7. \A i \in 1 .. n : t[i].name = s[i].name
  BY <1>2, <1>6
<1>8. NamesOnce(t)
  BY <1>1, <1>6, <1>7 DEF IsDimension, NamesOnce
<1>9. ToSet(t) = {m \in ToSet(s) : m.name # e.name} \cup {new : m \in {l \in ToSet(s) : l.name = e.name}}
  <2>1. ASSUME NEW l \in ToSet(t)
        PROVE  l \in {m \in ToSet(s) : m.name # e.name} \cup {new : m \in {l1 \in ToSet(s) : l1.name = e.name}}
    <3>1. PICK i \in 1 .. n : l = t[i]
      BY <1>6 DEF ToSet
    <3>2. s[i] \in ToSet(s)
      BY <1>1 DEF ToSet
    <3> QED BY <1>6, <3>1, <3>2
  <2>2. ASSUME NEW m \in ToSet(s) PROVE (IF m.name = e.name THEN new ELSE m) \in ToSet(t)
    <3>1. PICK i \in 1 .. n : m = s[i]
      BY <1>1 DEF ToSet
    <3>2. (IF m.name = e.name THEN new ELSE m) = t[i]
      BY <1>6, <3>1
    <3> QED BY <1>6, <3>2 DEF ToSet
  <2> QED BY <2>1, <2>2
<1> QED BY <1>5, <1>8, <1>9 DEF IsDimension, SetEdited, t, new

LEMMA ReversedFacts ==
  ASSUME NEW s, IsDimension(s)
  PROVE  IsDimension(Reverse(s)) /\ ToSet(Reverse(s)) = ToSet(s)
<1> DEFINE n == Len(s)
           t == Reverse(s)
<1>1. s \in Seq(Member) /\ n \in Nat /\ DOMAIN s = 1 .. n
  BY DEF IsDimension
<1>2. \A i \in 1 .. n : (n - i) + 1 \in 1 .. n /\ (n - ((n - i) + 1)) + 1 = i
  BY <1>1
<1>3. t = [i \in 1 .. n |-> s[(n - i) + 1]]
  BY DEF Reverse
<1> HIDE DEF n, t
<1>4. t \in Seq(Member) /\ DOMAIN t = 1 .. n /\ \A i \in 1 .. n : t[i] = s[(n - i) + 1]
  BY <1>1, <1>2, <1>3
<1>5. NamesOnce(t)
  <2> SUFFICES ASSUME NEW i \in 1 .. n, NEW j \in 1 .. n, t[i].name = t[j].name PROVE i = j
    BY <1>4 DEF NamesOnce
  <2>1. PICK a, b : a = (n - i) + 1 /\ b = (n - j) + 1 /\ a \in 1 .. n /\ b \in 1 .. n
    BY <1>2
  <2>2. s[a].name = s[b].name
    BY <1>4, <2>1
  <2>3. a = b
    BY <1>1, <2>1, <2>2 DEF IsDimension, NamesOnce
  <2> QED BY <1>1, <2>1, <2>3
<1>6. ToSet(t) = ToSet(s)
  <2>1. ASSUME NEW l \in ToSet(t) PROVE l \in ToSet(s)
    BY <1>1, <1>2, <1>4 DEF ToSet
  <2>2. ASSUME NEW l \in ToSet(s) PROVE l \in ToSet(t)
    <3>1. PICK i \in 1 .. n : l = s[i]
      BY <1>1 DEF ToSet
    <3>2. l = t[(n - i) + 1]
      BY <1>2, <1>4, <3>1
    <3> QED BY <1>2, <1>4, <3>2 DEF ToSet
  <2> QED BY <2>1, <2>2
<1> QED BY <1>4, <1>5, <1>6 DEF IsDimension, t

LEMMA EditedFacts ==
  ASSUME NEW s, IsDimension(s), NEW e \in Edits, ~EditRefused(s, e)
  PROVE  IsDimension(Edited(s, e)) /\ ToSet(Edited(s, e)) = SetEdited(ToSet(s), e)
<1>1. CASE e.do = "delete"
  <2>1. e.name \in NamesOf(s)
    BY <1>1 DEF EditRefused
  <2>2. Edited(s, e) = RemoveAt(s, PositionOf(s, e.name))
    BY <1>1 DEF Edited
  <2> QED BY <1>1, <2>1, <2>2, DeletedFacts DEF SetEdited
<1>2. CASE e.do = "insert"
  <2> DEFINE m == [name |-> e.name, kind |-> e.kind]
  <2>1. m.name \notin NamesOf(s) /\ m \in Member
    BY <1>2, EditFields DEF EditRefused, Member
  <2>2. Edited(s, e) = <<m>> \o s /\ SetEdited(ToSet(s), e) = ToSet(s) \cup {m}
    BY <1>2 DEF Edited, SetEdited
  <2> HIDE DEF m
  <2> QED BY <2>1, <2>2, InsertedFacts
<1>3. CASE e.do = "setKind"
  BY <1>3, RekindedFacts
<1>4. CASE e.do = "reverse"
  <2>1. Edited(s, e) = Reverse(s) /\ SetEdited(ToSet(s), e) = ToSet(s)
    BY <1>4 DEF Edited, SetEdited
  <2> QED BY <2>1, ReversedFacts
<1> QED BY <1>1, <1>2, <1>3, <1>4, EditFields

LEMMA ChangeFields ==
  ASSUME NEW change \in Changes
  PROVE  \/ change.how = "grow" /\ change.what \in Member
         \/ change.how = "edit" /\ change.what \in Edits
BY DEF Changes

LEMMA ChangedIsDimension ==
  ASSUME NEW s, IsDimension(s), NEW change \in Changes, ~Refused(s, change)
  PROVE  IsDimension(Changed(s, change))
BY ChangeFields, GrownFacts, EditedFacts DEF Refused, Changed

\* A change of more members gives more members.
LEMMA ChangesKeepOrder ==
  ASSUME NEW s, IsDimension(s), NEW t, IsDimension(t), ToSet(s) \subseteq ToSet(t),
         NEW change \in Changes, ~Refused(s, change), ~Refused(t, change)
  PROVE  ToSet(Changed(s, change)) \subseteq ToSet(Changed(t, change))
<1>1. CASE change.how = "grow"
  <2> DEFINE m == change.what
  <2>1. m \in Member /\ ~Conflicts(s, m) /\ ~Conflicts(t, m)
    BY <1>1, ChangeFields DEF Refused
  <2>2. Changed(s, change) = Grown(s, m) /\ Changed(t, change) = Grown(t, m)
    BY <1>1 DEF Changed
  <2> HIDE DEF m
  <2>3. m.name \in NamesOf(t) => m \in ToSet(t)
    BY <2>1, KindsKnown
  <2> QED BY <2>1, <2>2, <2>3, GrownFacts
<1>2. CASE change.how = "edit"
  <2> DEFINE e == change.what
  <2>1. e \in Edits /\ ~EditRefused(s, e) /\ ~EditRefused(t, e)
    BY <1>2, ChangeFields DEF Refused
  <2>2. Changed(s, change) = Edited(s, e) /\ Changed(t, change) = Edited(t, e)
    BY <1>2 DEF Changed
  <2> HIDE DEF e
  <2>3. SetEdited(ToSet(s), e) \subseteq SetEdited(ToSet(t), e)
    BY <2>1, EditFields DEF SetEdited
  <2> QED BY <2>1, <2>2, <2>3, EditedFacts
<1> QED BY <1>1, <1>2, ChangeFields

\* Reconciling appends what the copy lacks and nothing else.
LEMMA ReconciledFacts ==
  ASSUME NEW s, IsDimension(s), NEW t, IsDimension(t)
  PROVE  /\ IsDimension(Reconciled(s, t))
         /\ ToSet(Reconciled(s, t)) \subseteq ToSet(s) \cup ToSet(t)
         /\ ~ReconcileConflicts(s, t) => ToSet(t) \subseteq ToSet(Reconciled(s, t))
<1> DEFINE n == Len(t)
<1>1. s \in Seq(Member) /\ t \in Seq(Member) /\ n \in Nat /\ DOMAIN t = 1 .. n
  BY DEF IsDimension
<1>2. PICK stages : IsReconcile(stages, s, t) /\ Reconciled(s, t) = stages[n]
  BY <1>1, ReconcileByStages DEF Reconciled
<1> HIDE DEF n
<1>3. stages[0] = s /\ \A k \in 0 .. (n - 1) : stages[k + 1] = Grown(stages[k], t[k + 1])
  BY <1>2 DEF IsReconcile, n
<1> DEFINE Good(k) ==
             /\ IsDimension(stages[k])
             /\ ToSet(s) \subseteq ToSet(stages[k])
             /\ ToSet(stages[k]) \subseteq ToSet(s) \cup ToSet(t)
             /\ ~ReconcileConflicts(s, t) => \A i \in 1 .. k : t[i] \in ToSet(stages[k])
           U == {k \in Nat : k <= n => Good(k)}
<1>4. 0 \in U
  <2>1. 1 .. 0 = {}
    OBVIOUS
  <2> QED BY <1>3, <2>1
<1>5. ASSUME NEW k \in Nat, k \in U PROVE k + 1 \in U
  <2> SUFFICES ASSUME k + 1 <= n PROVE Good(k + 1)
    OBVIOUS
  <2> DEFINE m == t[k + 1]
             old == stages[k]
             new == stages[k + 1]
  <2>1. k \in 0 .. (n - 1) /\ k + 1 \in 1 .. n /\ k <= n
    BY <1>1
  <2>2. Good(k)
    BY <1>5, <2>1
  <2>3. m \in Member /\ m \in ToSet(t)
    BY <1>1, <2>1 DEF ToSet
  <2>4. new = Grown(old, m)
    BY <1>3, <2>1
  <2>5. /\ IsDimension(new)
        /\ ToSet(new) = IF m.name \in NamesOf(old) THEN ToSet(old) ELSE ToSet(old) \cup {m}
    <3>1. IsDimension(old)
      BY <2>2
    <3> HIDE DEF old, m, new
    <3> QED BY <2>3, <2>4, <3>1, GrownFacts
  <2>6. ASSUME ~ReconcileConflicts(s, t) PROVE m \in ToSet(new)
    <3>1. CASE m.name \in NamesOf(old)
      <4>1. PICK l \in ToSet(old) : l.name = m.name
        BY <3>1 DEF NamesOf, ToSet
      <4>2. CASE l \in ToSet(t)
        <5>1. l = m
          BY <2>3, <4>1, <4>2, NamedOnce
        <5> QED BY <2>5, <3>1, <4>1, <5>1
      <4>3. CASE l \in ToSet(s)
        <5>1. m.name \in NamesOf(s)
          BY <4>1, <4>3 DEF NamesOf, ToSet
        <5>2. ~Conflicts(s, m)
          BY <2>3, <2>6 DEF ReconcileConflicts
        <5>3. m \in ToSet(s)
          BY <2>3, <5>1, <5>2, KindsKnown
        <5> QED BY <2>2, <2>5, <3>1, <5>3
      <4> QED BY <2>2, <4>1, <4>2, <4>3
    <3>2. CASE m.name \notin NamesOf(old)
      BY <2>5, <3>2
    <3> QED BY <3>1, <3>2
  <2>7. ToSet(s) \subseteq ToSet(new) /\ ToSet(old) \subseteq ToSet(new) /\ ToSet(new) \subseteq ToSet(s) \cup ToSet(t)
    BY <2>2, <2>3, <2>5
  <2>8. ASSUME ~ReconcileConflicts(s, t), NEW i \in 1 .. (k + 1) PROVE t[i] \in ToSet(new)
    <3>1. CASE i = k + 1
      BY <2>6, <2>8, <3>1
    <3>2. CASE i # k + 1
      <4>1. i \in 1 .. k
        BY <3>2
      <4> QED BY <2>2, <2>7, <2>8, <4>1
    <3> QED BY <3>1, <3>2
  <2> QED BY <2>5, <2>7, <2>8
<1>6. Good(n)
  <2>1. Nat \subseteq U
    <3> HIDE DEF U
    <3> QED BY <1>4, <1>5, AllNumbers
  <2> HIDE DEF Good
  <2> QED BY <1>1, <2>1
<1>7. ASSUME \A i \in 1 .. n : t[i] \in ToSet(stages[n]) PROVE ToSet(t) \subseteq ToSet(stages[n])
  BY <1>1, <1>7 DEF ToSet
<1> QED BY <1>2, <1>6, <1>7

\* A copy that has nothing the library lacks does not conflict with it.
LEMMA SubsetsReconcile ==
  ASSUME NEW s, IsDimension(s), NEW t, IsDimension(t), ToSet(s) \subseteq ToSet(t)
  PROVE  ~ReconcileConflicts(s, t)
<1> SUFFICES ASSUME NEW m \in ToSet(t) PROVE ~Conflicts(s, m)
  BY DEF ReconcileConflicts
<1>1. m \in Member
  BY SetOfMembers DEF IsDimension
<1>2. ASSUME m.name \in NamesOf(s) PROVE m \in ToSet(s)
  <2>1. PICK l \in ToSet(s) : l.name = m.name
    BY <1>2 DEF NamesOf, ToSet
  <2>2. l = m
    BY <2>1, NamedOnce
  <2> QED BY <2>1, <2>2
<1> QED BY <1>1, <1>2, KindsKnown

\* A copy that is up to date, or that lacks only the newest member, becomes
\* the library's.
LEMMA ReconciledUpTo ==
  ASSUME NEW s, IsDimension(s), NEW t, IsDimension(t), NEW k \in Nat,
         NEW stages, IsReconcile(stages, s, t),
         k <= Len(s), k <= Len(t), \A i \in 1 .. k : t[i] = s[i]
  PROVE  stages[k] = s
<1> DEFINE U == {j \in Nat : j <= k => stages[j] = s}
<1>1. 0 \in U
  BY DEF IsReconcile
<1>2. ASSUME NEW j \in Nat, j \in U PROVE j + 1 \in U
  <2> SUFFICES ASSUME j + 1 <= k PROVE stages[j + 1] = s
    OBVIOUS
  <2>1. Len(t) \in Nat /\ Len(s) \in Nat /\ DOMAIN s = 1 .. Len(s)
    BY DEF IsDimension
  <2>2. j \in 0 .. (Len(t) - 1) /\ j + 1 \in 1 .. k /\ j + 1 \in DOMAIN s /\ j <= k
    BY <2>1
  <2>3. stages[j + 1] = Grown(s, s[j + 1])
    BY <1>2, <2>2 DEF IsReconcile
  <2>4. s[j + 1].name \in NamesOf(s)
    BY <2>2 DEF NamesOf
  <2> QED BY <2>3, <2>4 DEF Grown
<1>3. Nat \subseteq U
  <2> HIDE DEF U
  <2> QED BY <1>1, <1>2, AllNumbers
<1> QED BY <1>3

LEMMA ReconciledForward ==
  ASSUME NEW s, IsDimension(s), NEW t, IsDimension(t),
         t = s \/ \E m \in Member : t = Grown(s, m)
  PROVE  Reconciled(s, t) = t
<1>1. s \in Seq(Member) /\ t \in Seq(Member) /\ Len(s) \in Nat /\ Len(t) \in Nat /\ DOMAIN s = 1 .. Len(s)
  BY DEF IsDimension
<1>2. PICK stages : IsReconcile(stages, s, t) /\ Reconciled(s, t) = stages[Len(t)]
  BY <1>1, ReconcileByStages DEF Reconciled
<1>3. CASE t = s
  <2>1. stages[Len(s)] = s
    BY <1>1, <1>2, <1>3, ReconciledUpTo
  <2> QED BY <1>2, <1>3, <2>1
<1>4. CASE t # s
  <2>1. PICK m \in Member : t = Append(s, m)
    BY <1>4 DEF Grown
  <2>2. Len(t) = Len(s) + 1 /\ t[Len(s) + 1] = m /\ \A i \in 1 .. Len(s) : t[i] = s[i]
    <3>1. \A l \in Member : LET u == Append(s, l)
                            IN Len(u) = Len(s) + 1 /\ u[Len(s) + 1] = l /\ \A i \in 1 .. Len(s) : u[i] = s[i]
      BY <1>1
    <3> QED BY <2>1, <3>1
  <2>3. stages[Len(s)] = s
    BY <1>1, <1>2, <2>2, ReconciledUpTo
  <2>4. stages[Len(s) + 1] = Grown(s, m)
    <3>1. Len(s) \in 0 .. (Len(t) - 1)
      BY <1>1, <2>2
    <3> QED BY <1>2, <2>2, <2>3, <3>1 DEF IsReconcile
  <2>5. m.name \notin NamesOf(s)
    <3> SUFFICES ASSUME NEW i \in 1 .. Len(s), s[i].name = m.name PROVE FALSE
      BY <1>1 DEF NamesOf
    <3>1. DOMAIN t = 1 .. (Len(s) + 1)
      BY <1>1, <2>2
    <3>2. i \in DOMAIN t /\ Len(s) + 1 \in DOMAIN t /\ t[i].name = t[Len(s) + 1].name
      BY <1>1, <2>2, <3>1
    <3>3. i = Len(s) + 1
      BY <3>2 DEF IsDimension, NamesOnce
    <3> QED BY <1>1, <3>3
  <2> QED BY <1>2, <2>1, <2>2, <2>4, <2>5 DEF Grown
<1> QED BY <1>3, <1>4

-----------------------------------------------------------------------------
(* What the parts of the invariant keep.                                    *)

LEMMA IdsAreNumbers == Ids \subseteq Nat
<1>1. Cardinality(Ids) \in Nat
  BY NumbersAssumption, FS_CardinalityType
<1> QED BY <1>1, NumbersAssumption

LEMMA LibraryLater ==
  ASSUME NEW reg, NEW bound \in Nat, NEW alive, IsLibrary(reg, bound, alive),
         NEW later \in Nat, bound <= later, NEW more, alive \subseteq more
  PROVE  IsLibrary(reg, later, more)
<1>1. \A id \in DOMAIN reg : id \in Nat
  BY IdsAreNumbers DEF IsLibrary
<1>2. ASSUME NEW id \in DOMAIN reg PROVE id < later
  BY <1>1, <1>2 DEF IsLibrary
<1>3. [gen : Nat, members : Seq(Member), refs : SUBSET alive]
          \subseteq [gen : Nat, members : Seq(Member), refs : SUBSET more]
  OBVIOUS
<1> QED BY <1>2, <1>3 DEF IsLibrary

LEMMA IndexLater ==
  ASSUME NEW idx, NEW files, NEW alive, IsIndex(idx, files, alive),
         NEW later, DOMAIN idx \subseteq DOMAIN later, NEW more, alive \subseteq more
  PROVE  IsIndex(idx, later, more)
<1>1. [gen : Nat, refs : SUBSET alive] \subseteq [gen : Nat, refs : SUBSET more]
  OBVIOUS
<1>2. idx \in [DOMAIN idx -> [gen : Nat, refs : SUBSET more]]
  BY <1>1 DEF IsIndex
<1> QED BY <1>2 DEF IsIndex

LEMMA IndexAlive ==
  ASSUME NEW idx, NEW files, NEW alive, IsIndex(idx, files, alive), NEW more, alive \subseteq more
  PROVE  IsIndex(idx, files, more)
<1>1. DOMAIN idx \subseteq DOMAIN files
  BY DEF IsIndex
<1> QED BY <1>1, IndexLater

LEMMA SavingLater ==
  ASSUME NEW saving, NEW bound \in Nat, NEW alive, IsSaving(saving, bound, alive),
         NEW later \in Nat, bound <= later, NEW more, alive \subseteq more
  PROVE  IsSaving(saving, later, more)
BY LibraryLater DEF IsSaving

LEMMA LibraryFields ==
  ASSUME NEW reg, NEW bound, NEW alive, IsLibrary(reg, bound, alive), NEW id \in DOMAIN reg
  PROVE  /\ id \in Ids /\ id \in Nat
         /\ reg[id].gen \in Nat /\ IsDimension(reg[id].members) /\ reg[id].refs \subseteq alive
         /\ \A j \in DOMAIN reg : \A c \in reg[id].refs : c \in reg[j].refs => id = j
<1>1. reg[id] \in [gen : Nat, members : Seq(Member), refs : SUBSET alive] /\ NamesOnce(reg[id].members)
  BY DEF IsLibrary
<1>2. reg[id].gen \in Nat /\ reg[id].members \in Seq(Member) /\ reg[id].refs \subseteq alive
  BY <1>1
<1>3. id \in Ids /\ id \in Nat
  BY IdsAreNumbers DEF IsLibrary
<1>4. \A j \in DOMAIN reg : \A c \in reg[id].refs : c \in reg[j].refs => id = j
  BY DEF IsLibrary, OneEach
<1> QED BY <1>1, <1>2, <1>3, <1>4 DEF IsDimension

LEMMA CopyFields ==
  ASSUME NEW copies, IsCopies(copies), NEW c \in Cubes
  PROVE  IsDimension(copies[c].members) /\ copies[c].live \in BOOLEAN
BY DEF IsCopies, IsDimension

\* Copies that are kept, and cubes that are let go, leave the rest in step.
LEMMA InStepKept ==
  ASSUME NEW reg, NEW copies, NEW but, NEW behind, AllInStep(reg, copies, but, behind),
         NEW later, NEW less, but \subseteq less,
         \A id \in DOMAIN reg : \A c \in reg[id].refs \ less : later[c].members = copies[c].members
  PROVE  AllInStep(reg, later, less, behind)
BY DEF AllInStep

LEMMA LaggingKept ==
  ASSUME NEW reg, NEW copies, NEW editing, NEW but, NEW behind, Lagging(reg, copies, editing, but, behind),
         NEW later, NEW less, but \subseteq less,
         \A id \in DOMAIN reg : \A c \in reg[id].refs \ less : later[c].members = copies[c].members
  PROVE  Lagging(reg, later, editing, less, behind)
<1>1. ASSUME NEW c \in editing.todo \ less PROVE later[c].members = copies[c].members
  BY <1>1 DEF Lagging
<1>2. ASSUME NEW c \in editing.todo \ less
      PROVE  WasInStep(c, later[c].members, reg[editing.id].members, editing.change, behind)
  BY <1>1, <1>2 DEF Lagging
<1> QED BY <1>2 DEF Lagging

-----------------------------------------------------------------------------
(* Requests that stage a registry, and what changes one cube only.          *)

LEMMA StageStep ==
  ASSUME IInv, status = "up", topo = Free,
         NEW op, NEW next, op \notin {"free", "change"},
         topo' = [op |-> op, next |-> next, todo |-> DOMAIN next, indexed |-> FALSE],
         UNCHANGED <<library, bodies, index, editor, handler, status, drift>>,
         nextId' \in Nat, nextId <= nextId', Alive \subseteq Alive', IsLibrary(next, nextId', Alive'),
         IsCopies(copy'), \A c \in Alive : copy'[c] = copy[c],
         RefsFollow(library, next), RefsGrow(library, next), MembersFollow(library, next),
         AllInStep(next, copy', Exempt \cup Pending, drift.behind)
  PROVE  IInv'
<1>1. topo' # Free /\ topo'.op = op /\ topo'.next = next /\ topo'.todo = DOMAIN next /\ topo'.indexed = FALSE
  BY DEF Free
<1>2. DOMAIN topo' = {"op", "next", "todo", "indexed"}
  OBVIOUS
<1>3. TypesInv'
  <2>1. IsLibrary(library, nextId', Alive') /\ IsIndex(index, bodies, Alive')
    BY LibraryLater, IndexAlive DEF IInv, TypesInv
  <2>2. IsSaving(topo', nextId', Alive')
    BY <1>1, <1>2 DEF IsSaving
  <2> QED BY <2>1, <2>2 DEF IInv, TypesInv
<1>4. StagedInv'
  <2>1. topo.op # "change" /\ editor.pc # "saving"
    BY DEF Free, IInv, StagedInv
  <2> QED BY <1>1, <2>1 DEF StagedInv, Staged
<1>5. StepInv'
  <2>1. Exempt' = Exempt /\ Pending' = Pending
    BY DEF Exempt, Pending
  <2>2. \A id \in DOMAIN library : \A c \in library[id].refs : copy'[c].members = copy[c].members
    BY LibraryFields DEF IInv, TypesInv
  <2>3. AllInStep(library, copy', Exempt \cup Pending, drift.behind)
    BY <2>2, InStepKept DEF IInv, StepInv
  <2>4. editor.pc = "fanout" => Lagging(library, copy', editor, Exempt, drift.behind)
    BY <2>2, LaggingKept DEF IInv, StepInv
  <2> QED BY <1>1, <2>1, <2>3, <2>4 DEF StepInv, Staged
<1>6. DiskInv'
  <2>1. SavedIds = {} /\ SavedIds' = {}
    BY <1>1 DEF SavedIds, Staged
  <2> QED BY <1>1, <2>1 DEF IInv, DiskInv, Staged, AllSaved
<1>7. DownInv' /\ OnlyDriftStopsABoot'
  BY DEF DownInv, OnlyDriftStopsABoot
<1> QED BY <1>3, <1>4, <1>5, <1>6, <1>7 DEF IInv

LEMMA LocalStep ==
  ASSUME IInv, status = "up",
         UNCHANGED <<library, nextId, bodies, index, topo, status>>,
         IsCopies(copy'), Alive \subseteq Alive', IsEditing(editor'),
         handler' # None => handler'.cube \in Cubes /\ handler'.member \in Member,
         \/ editor' = editor
         \/ editor.pc \in {"idle", "embedded"} /\ editor'.pc \in {"idle", "embedded"},
         IsDrift(drift'), drift'.torn = drift.torn, drift'.behind = drift.behind, drift'.ahead = drift.ahead,
         drift.stray \subseteq drift'.stray,
         \A c \in Cubes : Claimed(c) => copy'[c].members = copy[c].members \/ c \in drift'.stray
  PROVE  IInv'
<1>1. TypesInv'
  <2>1. nextId \in Nat /\ nextId <= nextId
    BY DEF IInv, TypesInv
  <2>2. IsLibrary(library, nextId, Alive')
    BY <2>1, LibraryLater DEF IInv, TypesInv
  <2>3. IsIndex(index, bodies, Alive')
    BY IndexAlive DEF IInv, TypesInv
  <2>4. IsSaving(topo, nextId, Alive')
    BY <2>1, SavingLater DEF IInv, TypesInv
  <2> QED BY <2>2, <2>3, <2>4 DEF IInv, TypesInv
<1>2. StagedInv'
  BY DEF IInv, StagedInv, Staged
<1>3. StepInv'
  <2>1. Exempt \subseteq Exempt' /\ Pending' = Pending
    BY DEF Exempt, Pending
  <2>2. ASSUME NEW id \in DOMAIN library, NEW c \in library[id].refs, c \notin Exempt'
        PROVE  copy'[c].members = copy[c].members
    <3>1. Claimed(c)
      BY <2>2 DEF Claimed, Backed, Backings
    <3>2. c \in Cubes
      BY LibraryFields DEF IInv, TypesInv, Alive
    <3> QED BY <2>2, <3>1, <3>2 DEF Exempt
  <2>3. ASSUME Staged, NEW id \in DOMAIN topo.next, NEW c \in topo.next[id].refs, c \notin Exempt'
        PROVE  copy'[c].members = copy[c].members
    <3>1. Claimed(c)
      BY <2>3 DEF Claimed, Staged
    <3>2. IsLibrary(topo.next, nextId, Alive)
      BY <2>3 DEF IInv, TypesInv, IsSaving, Staged
    <3>3. c \in Cubes
      BY <2>3, <3>2, LibraryFields DEF Alive
    <3> QED BY <2>3, <3>1, <3>3 DEF Exempt
  <2>4. Exempt \cup Pending \subseteq Exempt' \cup Pending
    BY <2>1
  <2>5. AllInStep(library, copy', Exempt' \cup Pending, drift.behind)
    BY <2>2, <2>4, InStepKept DEF IInv, StepInv
  <2>6. editor.pc = "fanout" => Lagging(library, copy', editor, Exempt', drift.behind)
    BY <2>1, <2>2, LaggingKept DEF IInv, StepInv
  <2>7. Staged /\ topo.op # "change" => AllInStep(topo.next, copy', Exempt' \cup Pending, drift.behind)
    BY <2>3, <2>4, InStepKept DEF IInv, StepInv
  <2>8. editor'.pc = "fanout" => editor' = editor
    OBVIOUS
  <2> QED BY <2>1, <2>5, <2>6, <2>7, <2>8 DEF StepInv, Staged
<1>4. DiskInv'
  <2>1. SavedIds' = SavedIds
    BY DEF SavedIds, Staged
  <2> QED BY <2>1 DEF IInv, DiskInv, Staged
<1>5. DownInv' /\ OnlyDriftStopsABoot'
  BY DEF DownInv, OnlyDriftStopsABoot
<1> QED BY <1>1, <1>2, <1>3, <1>4, <1>5 DEF IInv

LEMMA SeedIsDimension == IsDimension(Seed)
<1>1. [name |-> First, kind |-> "leaf"] \in Member
  BY SeedAssumption DEF Member
<1> QED BY <1>1 DEF IsDimension, Seed, NamesOnce

\* A registry with one dimension more, under an id that was never used.
IsPut(next, reg, id, members, refs) == next = Put(reg, id, Dim(0, members, refs))
Enlarged(next, reg, id, members, refs, alive) ==
    /\ IsLibrary(next, id + 1, alive)
    /\ RefsFollow(reg, next) /\ RefsGrow(reg, next) /\ MembersFollow(reg, next)
    /\ DOMAIN next = DOMAIN reg \cup {id} /\ \A i \in DOMAIN reg : next[i] = reg[i]
    /\ next[id].refs = refs /\ next[id].members = members

LEMMA PutFacts ==
  ASSUME NEW reg, NEW id \in Ids, NEW alive, IsLibrary(reg, id, alive),
         NEW members, IsDimension(members), NEW refs \in SUBSET alive,
         \A i \in DOMAIN reg : refs \cap reg[i].refs = {},
         NEW next, IsPut(next, reg, id, members, refs)
  PROVE  Enlarged(next, reg, id, members, refs, alive)
<1> DEFINE dim == Dim(0, members, refs)
<1>1. id \in Nat /\ id \notin DOMAIN reg
  <2>1. id \in Nat
    BY IdsAreNumbers
  <2>2. id \in DOMAIN reg => id < id
    BY DEF IsLibrary
  <2> QED BY <2>1, <2>2
<1>2. /\ DOMAIN next = DOMAIN reg \cup {id} /\ next[id] = dim
      /\ \A i \in DOMAIN reg : next[i] = reg[i]
  BY <1>1 DEF IsPut, Put
<1>3. /\ dim \in [gen : Nat, members : Seq(Member), refs : SUBSET alive] /\ NamesOnce(dim.members)
      /\ dim.refs = refs /\ dim.members = members
  BY DEF Dim, IsDimension
<1> HIDE DEF dim
<1>4. IsLibrary(reg, id + 1, alive)
  <2>1. id + 1 \in Nat /\ id <= id + 1
    BY <1>1
  <2> QED BY <1>1, <2>1, LibraryLater
<1>5. id < id + 1
  BY <1>1
<1>6. OneEach(next)
  <2> SUFFICES ASSUME NEW i \in DOMAIN next, NEW j \in DOMAIN next, next[i].refs \cap next[j].refs # {}
               PROVE  i = j
    BY DEF OneEach
  <2>1. CASE i = id \/ j = id
    BY <1>2, <1>3, <2>1
  <2>2. CASE i # id /\ j # id
    BY <1>2, <2>2 DEF IsLibrary, OneEach
  <2> QED BY <2>1, <2>2
<1>7. IsLibrary(next, id + 1, alive)
  <2>1. DOMAIN next \subseteq Ids
    BY <1>2 DEF IsLibrary
  <2>2. ASSUME NEW i \in DOMAIN next
        PROVE  /\ next[i] \in [gen : Nat, members : Seq(Member), refs : SUBSET alive]
               /\ NamesOnce(next[i].members) /\ i < id + 1
    <3>1. CASE i = id
      BY <1>2, <1>3, <1>5, <3>1
    <3>2. CASE i # id
      <4>1. i \in DOMAIN reg /\ next[i] = reg[i]
        BY <1>2, <2>2, <3>2
      <4> QED BY <1>4, <4>1 DEF IsLibrary
    <3> QED BY <3>1, <3>2
  <2> QED BY <1>6, <2>1, <2>2 DEF IsLibrary
<1>8. RefsFollow(reg, next) /\ RefsGrow(reg, next) /\ MembersFollow(reg, next)
  BY <1>2 DEF RefsFollow, RefsGrow, MembersFollow
<1> QED BY <1>2, <1>3, <1>7, <1>8 DEF Enlarged

LEMMA RequestRuns == ASSUME Request PROVE status = "up"
BY DEF Request, Serving

LEMMA RegisterStep == ASSUME IInv, Register PROVE IInv'
<1>1. status = "up" /\ topo = Free /\ nextId \in Ids /\ nextId' = nextId + 1
  BY RequestRuns DEF Register
<1>2. UNCHANGED <<library, copy, bodies, index, editor, handler, status, drift>>
  BY DEF Register, diskVars
<1>3. PICK next : IsPut(next, library, nextId, Seed, {})
  BY DEF IsPut
<1>4. topo' = [op |-> "register", next |-> next, todo |-> DOMAIN next, indexed |-> FALSE]
  BY <1>3 DEF Register, Save, IsPut
<1>5. nextId \in Nat /\ nextId' \in Nat /\ nextId <= nextId'
  BY <1>1 DEF IInv, TypesInv
<1>6. Alive' = Alive /\ IsCopies(copy) /\ IsLibrary(library, nextId, Alive)
  BY <1>2 DEF Alive, Live, IInv, TypesInv
<1>7. /\ IsLibrary(next, nextId + 1, Alive)
      /\ RefsFollow(library, next) /\ RefsGrow(library, next) /\ MembersFollow(library, next)
      /\ DOMAIN next = DOMAIN library \cup {nextId} /\ \A i \in DOMAIN library : next[i] = library[i]
      /\ next[nextId].refs = {}
  <2>1. {} \in SUBSET Alive /\ \A i \in DOMAIN library : {} \cap library[i].refs = {}
    OBVIOUS
  <2>2. Enlarged(next, library, nextId, Seed, {}, Alive)
    BY ONLY <1>1, <1>3, <1>6, <2>1, PutFacts, SeedIsDimension
  <2> QED BY <2>2 DEF Enlarged
<1>8. AllInStep(next, copy, Exempt \cup Pending, drift.behind)
  <2>1. AllInStep(library, copy, Exempt \cup Pending, drift.behind)
    BY <1>1 DEF IInv, StepInv
  <2> QED BY <1>7, <2>1 DEF AllInStep
<1>9. /\ IsLibrary(next, nextId', Alive') /\ IsCopies(copy') /\ Alive \subseteq Alive'
      /\ \A d \in Alive : copy'[d] = copy[d]
      /\ AllInStep(next, copy', Exempt \cup Pending, drift.behind)
  BY <1>1, <1>2, <1>6, <1>7, <1>8
<1>10. RefsFollow(library, next) /\ RefsGrow(library, next) /\ MembersFollow(library, next)
  BY <1>7
<1>11. status = "up" /\ topo = Free /\ IInv
  BY <1>1
<1> QED BY ONLY SMTT(30), <1>2, <1>4, <1>5, <1>9, <1>10, <1>11, StageStep

LEMMA DeleteStep == ASSUME IInv, NEW id \in Ids, Delete(id) PROVE IInv'
<1>1. status = "up" /\ topo = Free /\ id \in DOMAIN library /\ library[id].refs = {}
  BY RequestRuns DEF Delete
<1>2. UNCHANGED <<library, nextId, copy, bodies, index, editor, handler, status, drift>>
  BY DEF Delete, diskVars
<1>3. PICK next : next = Removed(library, id)
  OBVIOUS
<1>4. topo' = [op |-> "delete", next |-> next, todo |-> DOMAIN next, indexed |-> FALSE]
  BY <1>3 DEF Delete, Save
<1>5. DOMAIN next = DOMAIN library \ {id} /\ \A i \in DOMAIN next : next[i] = library[i]
  BY <1>3 DEF Removed
<1>6. nextId \in Nat /\ nextId <= nextId /\ Alive' = Alive /\ IsCopies(copy) /\ IsLibrary(library, nextId, Alive)
  BY <1>2 DEF Alive, Live, IInv, TypesInv
<1>7. IsLibrary(next, nextId, Alive)
  BY <1>5, <1>6 DEF IsLibrary, OneEach
<1>8. RefsFollow(library, next) /\ RefsGrow(library, next) /\ MembersFollow(library, next)
  BY <1>1, <1>5 DEF RefsFollow, RefsGrow, MembersFollow
<1>9. AllInStep(next, copy, Exempt \cup Pending, drift.behind)
  <2>1. AllInStep(library, copy, Exempt \cup Pending, drift.behind)
    BY <1>1 DEF IInv, StepInv
  <2> QED BY <1>5, <2>1 DEF AllInStep
<1> QED BY <1>1, <1>2, <1>4, <1>6, <1>7, <1>8, <1>9, StageStep

LEMMA PromoteStep == ASSUME IInv, NEW c \in Cubes, Promote(c) PROVE IInv'
<1>1. status = "up" /\ topo = Free /\ nextId \in Ids /\ nextId' = nextId + 1 /\ Live(c) /\ ~Backed(c)
  BY RequestRuns DEF Promote
<1>2. UNCHANGED <<library, copy, bodies, index, editor, handler, status, drift>>
  BY DEF Promote, diskVars
<1>3. PICK next : IsPut(next, library, nextId, copy[c].members, {c})
  BY DEF IsPut
<1>4. topo' = [op |-> "promote", next |-> next, todo |-> DOMAIN next, indexed |-> FALSE]
  BY <1>3 DEF Promote, Save, IsPut
<1>5. nextId \in Nat /\ nextId' \in Nat /\ nextId <= nextId'
  BY <1>1 DEF IInv, TypesInv
<1>6. Alive' = Alive /\ IsCopies(copy) /\ IsLibrary(library, nextId, Alive) /\ IsDimension(copy[c].members)
  BY <1>2, CopyFields DEF Alive, Live, IInv, TypesInv
<1>7. /\ IsLibrary(next, nextId + 1, Alive)
      /\ RefsFollow(library, next) /\ RefsGrow(library, next) /\ MembersFollow(library, next)
      /\ DOMAIN next = DOMAIN library \cup {nextId} /\ \A i \in DOMAIN library : next[i] = library[i]
      /\ next[nextId].refs = {c} /\ next[nextId].members = copy[c].members
  <2>1. {c} \in SUBSET Alive /\ \A i \in DOMAIN library : {c} \cap library[i].refs = {}
    BY <1>1 DEF Alive, Backed, Backings
  <2>2. Enlarged(next, library, nextId, copy[c].members, {c}, Alive)
    BY ONLY <1>1, <1>3, <1>6, <2>1, PutFacts
  <2> QED BY <2>2 DEF Enlarged
<1>8. AllInStep(next, copy, Exempt \cup Pending, drift.behind)
  <2>1. AllInStep(library, copy, Exempt \cup Pending, drift.behind)
    BY <1>1 DEF IInv, StepInv
  <2> QED BY <1>7, <2>1 DEF AllInStep, InStep
<1>9. /\ IsLibrary(next, nextId', Alive') /\ IsCopies(copy') /\ Alive \subseteq Alive'
      /\ \A d \in Alive : copy'[d] = copy[d]
      /\ AllInStep(next, copy', Exempt \cup Pending, drift.behind)
  BY <1>1, <1>2, <1>6, <1>7, <1>8
<1>10. RefsFollow(library, next) /\ RefsGrow(library, next) /\ MembersFollow(library, next)
  BY <1>7
<1>11. status = "up" /\ topo = Free /\ IInv
  BY <1>1
<1> QED BY ONLY <1>2, <1>4, <1>5, <1>9, <1>10, <1>11, StageStep

\* A cube is created with its members, and no other cube changes.
IsMade(later, copies, c, members) == later = [copies EXCEPT ![c] = [live |-> TRUE, members |-> members]]
Made(later, copies, c, members) ==
    /\ IsCopies(later) /\ later[c].live = TRUE /\ later[c].members = members
    /\ \A d \in Cubes : d # c => later[d] = copies[d]

LEMMA CopyMade ==
  ASSUME NEW copies, IsCopies(copies), NEW c \in Cubes, NEW members, IsDimension(members),
         NEW later, IsMade(later, copies, c, members)
  PROVE  Made(later, copies, c, members)
<1>1. later \in [Cubes -> [live : BOOLEAN, members : Seq(Member)]]
  BY DEF IsMade, IsCopies, IsDimension
<1>2. /\ later[c] = [live |-> TRUE, members |-> members]
      /\ \A d \in Cubes : d # c => later[d] = copies[d]
  BY DEF IsMade, IsCopies
<1>3. \A d \in Cubes : NamesOnce(later[d].members)
  BY <1>2 DEF IsCopies, IsDimension
<1> QED BY <1>1, <1>2, <1>3 DEF IsCopies, Made

LEMMA CreateWithRefStep == ASSUME IInv, NEW c \in Cubes, NEW id \in Ids, CreateWithRef(c, id) PROVE IInv'
<1>1. status = "up" /\ topo = Free /\ ~Live(c) /\ id \in DOMAIN library
  BY RequestRuns DEF CreateWithRef
<1>2. UNCHANGED <<library, nextId, bodies, index, editor, handler, status, drift>>
  BY DEF CreateWithRef, diskVars
<1>3. PICK next : next = Attached(library, id, c)
  OBVIOUS
<1>4. topo' = [op |-> "attach", next |-> next, todo |-> DOMAIN next, indexed |-> FALSE]
  BY <1>3 DEF CreateWithRef, Save
<1>5. nextId \in Nat /\ nextId <= nextId /\ IsCopies(copy) /\ IsLibrary(library, nextId, Alive)
  BY DEF IInv, TypesInv
<1> DEFINE dim == library[id]
<1>6. dim \in [gen : Nat, members : Seq(Member), refs : SUBSET Alive] /\ IsDimension(dim.members)
  BY <1>1, <1>5 DEF IsLibrary, IsDimension
<1>7. /\ DOMAIN next = DOMAIN library /\ \A i \in DOMAIN library : i # id => next[i] = library[i]
      /\ next[id] = [dim EXCEPT !.refs = @ \cup {c}]
  BY <1>1, <1>3 DEF Attached
<1>8. /\ next[id].gen = dim.gen /\ next[id].members = dim.members /\ next[id].refs = dim.refs \cup {c}
      /\ next[id] \in [gen : Nat, members : Seq(Member), refs : SUBSET (Alive \cup {c})]
  BY <1>6, <1>7
<1>9. /\ IsCopies(copy') /\ copy'[c].live = TRUE /\ copy'[c].members = dim.members
      /\ \A d \in Cubes : d # c => copy'[d] = copy[d]
  <2>1. IsMade(copy', copy, c, dim.members)
    BY DEF CreateWithRef, IsMade
  <2> HIDE DEF dim
  <2>2. Made(copy', copy, c, dim.members)
    BY ONLY <1>5, <1>6, <2>1, CopyMade
  <2> QED BY <2>2 DEF Made
<1>10. Alive' = Alive \cup {c} /\ c \notin Alive
  BY <1>1, <1>9 DEF Alive, Live
<1>11. \A d \in Alive : copy'[d] = copy[d]
  BY <1>9, <1>10 DEF Alive
<1> HIDE DEF dim
<1>12. \A i \in DOMAIN library : c \notin library[i].refs
  BY <1>5, <1>10, LibraryFields
<1>13. IsLibrary(next, nextId, Alive')
  <2>1. IsLibrary(library, nextId, Alive')
    BY <1>5, <1>10, LibraryLater
  <2>2. ASSUME NEW i \in DOMAIN next
        PROVE  /\ next[i] \in [gen : Nat, members : Seq(Member), refs : SUBSET Alive']
               /\ NamesOnce(next[i].members) /\ i < nextId /\ i \in Ids
    <3>1. i \in DOMAIN library /\ i < nextId /\ i \in Ids
      BY <1>7, <2>1 DEF IsLibrary
    <3>2. CASE i = id
      BY <1>6, <1>8, <1>10, <3>1, <3>2 DEF IsDimension
    <3>3. CASE i # id
      BY <1>7, <2>1, <3>1, <3>3 DEF IsLibrary
    <3> QED BY <3>1, <3>2, <3>3
  <2>3. OneEach(next)
    <3>1. \A i \in DOMAIN library : next[i].refs \subseteq library[i].refs \cup (IF i = id THEN {c} ELSE {})
      BY <1>7, <1>8 DEF dim
    <3>2. OneEach(library)
      BY <1>5 DEF IsLibrary
    <3> QED BY <1>7, <1>12, <3>1, <3>2 DEF OneEach
  <2> QED BY <2>2, <2>3 DEF IsLibrary
<1>14. RefsFollow(library, next) /\ RefsGrow(library, next) /\ MembersFollow(library, next)
  BY <1>7, <1>8 DEF RefsFollow, RefsGrow, MembersFollow, dim
<1>15. AllInStep(next, copy', Exempt \cup Pending, drift.behind)
  <2>1. AllInStep(library, copy, Exempt \cup Pending, drift.behind)
    BY <1>1 DEF IInv, StepInv
  <2> SUFFICES ASSUME NEW i \in DOMAIN library, NEW d \in next[i].refs \ (Exempt \cup Pending)
               PROVE  InStep(d, copy'[d].members, next[i].members, drift.behind)
    BY <1>7 DEF AllInStep
  <2>2. CASE d = c
    <3>1. i = id
      BY <1>7, <1>12, <2>2
    <3> QED BY <1>8, <1>9, <2>2, <3>1 DEF InStep
  <2>3. CASE d # c
    <3>1. d \in library[i].refs /\ next[i].members = library[i].members
      BY <1>7, <1>8, <2>3 DEF dim
    <3>2. copy'[d] = copy[d]
      BY <1>5, <1>11, <3>1, LibraryFields
    <3> QED BY <2>1, <3>1, <3>2 DEF AllInStep
  <2> QED BY <2>2, <2>3
<1>16. /\ IsLibrary(next, nextId', Alive') /\ nextId' \in Nat /\ nextId <= nextId'
       /\ IsCopies(copy') /\ Alive \subseteq Alive'
  BY <1>2, <1>5, <1>9, <1>10, <1>13
<1> QED BY <1>1, <1>2, <1>4, <1>11, <1>14, <1>15, <1>16, StageStep

\* What a change of one copy leaves: it is a copy, and it strays if the
\* library claims it.
LocallyChanged ==
    /\ IsCopies(copy') /\ Alive' = Alive
    /\ IsDrift(drift') /\ drift'.torn = drift.torn /\ drift'.behind = drift.behind
    /\ drift'.ahead = drift.ahead /\ drift.stray \subseteq drift'.stray
    /\ \A c \in Cubes : Claimed(c) => copy'[c].members = copy[c].members \/ c \in drift'.stray

LEMMA NothingChanged == ASSUME IInv, UNCHANGED <<copy, drift>> PROVE LocallyChanged
BY DEF LocallyChanged, IInv, TypesInv, Alive, Live

LEMMA ChangedLocally ==
  ASSUME IInv, NEW c \in Cubes, NEW members, IsDimension(members), ApplyLocally(c, members)
  PROVE  LocallyChanged
<1>1. IsCopies(copy) /\ IsDrift(drift)
  BY DEF IInv, TypesInv
<1>2. copy \in [Cubes -> [live : BOOLEAN, members : Seq(Member)]]
  BY <1>1 DEF IsCopies
<1>3. copy' = [copy EXCEPT ![c].members = members]
  BY DEF ApplyLocally
<1>4. /\ copy'[c].members = members /\ copy'[c].live = copy[c].live
      /\ \A d \in Cubes : d # c => copy'[d] = copy[d]
  BY <1>2, <1>3
<1>5. copy' \in [Cubes -> [live : BOOLEAN, members : Seq(Member)]]
  BY <1>2, <1>3 DEF IsDimension
<1>6. IsCopies(copy')
  <2>1. \A d \in Cubes : NamesOnce(copy'[d].members)
    BY <1>1, <1>4 DEF IsCopies, IsDimension
  <2> QED BY <1>5, <2>1 DEF IsCopies
<1>7. Alive' = Alive
  BY <1>4 DEF Alive, Live
<1>8. PICK strays : strays = Strays(c, members)
  OBVIOUS
<1>9. strays \subseteq {c} /\ (Claimed(c) /\ members # copy[c].members => c \in strays)
  BY <1>8 DEF Strays
<1>10. drift' = [drift EXCEPT !.stray = @ \cup strays]
  BY <1>8 DEF ApplyLocally
<1>11. /\ drift'.torn = drift.torn /\ drift'.behind = drift.behind /\ drift'.ahead = drift.ahead
       /\ drift'.stray = drift.stray \cup strays /\ IsDrift(drift')
  BY <1>1, <1>9, <1>10 DEF IsDrift
<1>12. \A d \in Cubes : Claimed(d) => copy'[d].members = copy[d].members \/ d \in drift'.stray
  BY <1>4, <1>9, <1>11
<1> QED BY <1>6, <1>7, <1>11, <1>12 DEF LocallyChanged

LEMMA LocalChange ==
  ASSUME IInv, status = "up", UNCHANGED <<library, nextId, bodies, index, topo, status>>,
         LocallyChanged, IsEditing(editor'),
         \/ editor' = editor
         \/ editor.pc \in {"idle", "embedded"} /\ editor'.pc \in {"idle", "embedded"},
         handler' # None => handler'.cube \in Cubes /\ handler'.member \in Member
  PROVE  IInv'
<1>1. /\ IsCopies(copy') /\ Alive \subseteq Alive'
      /\ IsDrift(drift') /\ drift'.torn = drift.torn /\ drift'.behind = drift.behind
      /\ drift'.ahead = drift.ahead /\ drift.stray \subseteq drift'.stray
      /\ \A c \in Cubes : Claimed(c) => copy'[c].members = copy[c].members \/ c \in drift'.stray
  BY DEF LocallyChanged
<1> QED BY ONLY <1>1, IInv, status = "up", UNCHANGED <<library, nextId, bodies, index, topo, status>>,
             IsEditing(editor'),
             editor' = editor \/ (editor.pc \in {"idle", "embedded"} /\ editor'.pc \in {"idle", "embedded"}),
             handler' # None => handler'.cube \in Cubes /\ handler'.member \in Member, LocalStep

LEMMA IdleEditor == IsEditing(Idle) /\ Idle.pc = "idle"
BY DEF IsEditing, Idle

LEMMA CreateInlineStep == ASSUME IInv, NEW c \in Cubes, CreateInline(c) PROVE IInv'
<1>1. status = "up" /\ ~Live(c) /\ UNCHANGED <<library, nextId, bodies, index, topo, status, editor, handler, drift>>
  BY RequestRuns DEF CreateInline, diskVars
<1>2. IsCopies(copy) /\ IsLibrary(library, nextId, Alive) /\ IsSaving(topo, nextId, Alive) /\ IsDrift(drift)
      /\ IsEditing(editor) /\ (handler # None => handler.cube \in Cubes /\ handler.member \in Member)
  BY DEF IInv, TypesInv
<1>3. IsMade(copy', copy, c, Seed)
  BY DEF CreateInline, IsMade
<1>4. Made(copy', copy, c, Seed)
  BY ONLY <1>2, <1>3, c \in Cubes, CopyMade, SeedIsDimension
<1>5. IsCopies(copy') /\ copy'[c].live = TRUE /\ \A d \in Cubes : d # c => copy'[d] = copy[d]
  BY <1>4 DEF Made
<1>6. Alive \subseteq Alive' /\ c \notin Alive
  BY <1>1, <1>5 DEF Alive, Live
<1>7. ~Claimed(c)
  <2>1. ~Backed(c)
    BY <1>2, <1>6, LibraryFields DEF Backed, Backings
  <2>2. ASSUME topo # Free, NEW id \in DOMAIN topo.next PROVE c \notin topo.next[id].refs
    <3>1. IsLibrary(topo.next, nextId, Alive)
      BY <1>2, <2>2 DEF IsSaving
    <3> QED BY <1>6, <2>2, <3>1, LibraryFields
  <2> QED BY <2>1, <2>2 DEF Claimed
<1>8. \A d \in Cubes : Claimed(d) => copy'[d].members = copy[d].members \/ d \in drift'.stray
  BY <1>5, <1>7
<1>9. drift'.torn = drift.torn /\ drift'.behind = drift.behind /\ drift'.ahead = drift.ahead
      /\ drift.stray \subseteq drift'.stray /\ IsDrift(drift')
  BY <1>1, <1>2
<1>10. IsEditing(editor') /\ editor' = editor
       /\ (handler' # None => handler'.cube \in Cubes /\ handler'.member \in Member)
  BY <1>1, <1>2
<1> QED BY ONLY <1>1, <1>5, <1>6, <1>8, <1>9, <1>10, IInv, LocalStep

LEMMA EditEmbeddedStep == ASSUME IInv, NEW c \in Cubes, NEW e \in Edits, EditEmbedded(c, e) PROVE IInv'
<1>1. status = "up" /\ editor = Idle
      /\ UNCHANGED <<library, nextId, copy, bodies, index, topo, status, handler, drift>>
  BY RequestRuns DEF EditEmbedded, diskVars
<1>2. LocallyChanged
  BY <1>1, NothingChanged
<1>3. editor' = [pc |-> "embedded", cube |-> c, edit |-> e]
  BY DEF EditEmbedded
<1>4. IsEditing(editor') /\ editor.pc \in {"idle", "embedded"} /\ editor'.pc \in {"idle", "embedded"}
  BY <1>1, <1>3 DEF IsEditing, Idle
<1>5. handler' # None => handler'.cube \in Cubes /\ handler'.member \in Member
  BY <1>1 DEF IInv, TypesInv
<1> QED BY <1>1, <1>2, <1>4, <1>5, LocalChange

LEMMA BusyIsUp == ASSUME IInv, editor # Idle \/ topo # Free \/ handler # None PROVE status = "up"
BY DEF IInv, TypesInv

LEMMA ApplyEmbeddedStep == ASSUME IInv, ApplyEmbedded PROVE IInv'
<1>1. editor.pc = "embedded" /\ editor' = Idle /\ UNCHANGED <<library, nextId, bodies, index, topo, status, handler>>
  BY DEF ApplyEmbedded, diskVars
<1>2. status = "up" /\ editor.cube \in Cubes /\ editor.edit \in Edits
  BY <1>1, BusyIsUp DEF IInv, TypesInv, IsEditing, Idle
<1>3. PICK c \in Cubes : c = editor.cube
  BY <1>2
<1>4. LocallyChanged
  <2>1. CASE EditRefused(copy[c].members, editor.edit)
    BY <1>3, <2>1, NothingChanged DEF ApplyEmbedded
  <2>2. CASE ~EditRefused(copy[c].members, editor.edit)
    <3>1. PICK members : members = Edited(copy[c].members, editor.edit)
      OBVIOUS
    <3>2. IsDimension(members)
      BY <1>2, <2>2, <3>1, CopyFields, EditedFacts DEF IInv, TypesInv
    <3>3. ApplyLocally(c, members)
      BY <1>3, <2>2, <3>1 DEF ApplyEmbedded
    <3> QED BY <3>2, <3>3, ChangedLocally
  <2> QED BY <2>1, <2>2
<1>5. handler' # None => handler'.cube \in Cubes /\ handler'.member \in Member
  BY <1>1 DEF IInv, TypesInv
<1> QED BY <1>1, <1>2, <1>4, <1>5, IdleEditor, LocalChange

LEMMA CheckBackingStep == ASSUME IInv, NEW c \in Cubes, NEW m \in Member, CheckBacking(c, m) PROVE IInv'
<1>1. status = "up" /\ UNCHANGED <<library, nextId, copy, bodies, index, topo, status, editor, drift>>
  BY RequestRuns DEF CheckBacking, diskVars
<1>2. handler'.cube \in Cubes /\ handler'.member \in Member
  BY DEF CheckBacking, Handling
<1>3. LocallyChanged /\ IsEditing(editor') /\ editor' = editor
  BY <1>1, NothingChanged DEF IInv, TypesInv
<1> QED BY <1>1, <1>2, <1>3, LocalChange

LEMMA GrownLocally ==
  ASSUME IInv, NEW c \in Cubes, NEW m \in Member, GrowLocally(c, m)
  PROVE  LocallyChanged
<1>1. CASE Conflicts(copy[c].members, m)
  BY <1>1, NothingChanged DEF GrowLocally
<1>2. CASE ~Conflicts(copy[c].members, m)
  <2>1. PICK members : members = Grown(copy[c].members, m)
    OBVIOUS
  <2>2. IsDimension(members)
    BY <2>1, CopyFields, GrownFacts DEF IInv, TypesInv
  <2>3. ApplyLocally(c, members)
    BY <1>2, <2>1 DEF GrowLocally
  <2> QED BY <2>2, <2>3, ChangedLocally
<1> QED BY <1>1, <1>2

LEMMA GrowByFlowStep == ASSUME IInv, NEW c \in Cubes, NEW m \in Member, GrowByFlow(c, m) PROVE IInv'
<1>1. status = "up" /\ UNCHANGED <<library, nextId, bodies, index, topo, status, editor, handler>>
  BY RequestRuns DEF GrowByFlow, diskVars
<1>2. LocallyChanged
  BY GrownLocally DEF GrowByFlow
<1>3. IsEditing(editor') /\ editor' = editor
      /\ (handler' # None => handler'.cube \in Cubes /\ handler'.member \in Member)
  BY <1>1 DEF IInv, TypesInv
<1> QED BY <1>1, <1>2, <1>3, LocalChange

LEMMA GrowCheckedStep == ASSUME IInv, GrowChecked PROVE IInv'
<1>1. handler # None /\ handler' = None /\ UNCHANGED <<library, nextId, bodies, index, topo, status, editor>>
  BY DEF GrowChecked, diskVars
<1>2. status = "up" /\ handler.cube \in Cubes /\ handler.member \in Member
  BY <1>1, BusyIsUp DEF IInv, TypesInv
<1>3. PICK c \in Cubes, m \in Member : c = handler.cube /\ m = handler.member
  BY <1>2
<1>4. LocallyChanged
  BY <1>3, GrownLocally DEF GrowChecked
<1>5. IsEditing(editor') /\ editor' = editor
  BY <1>1 DEF IInv, TypesInv
<1> QED BY <1>1, <1>2, <1>4, <1>5, LocalChange

-----------------------------------------------------------------------------
(* Edits of a shared dimension, up to the publication of what they stage.   *)

LEMMA BumpedFacts ==
  ASSUME NEW dim, NEW alive, dim \in [gen : Nat, members : Seq(Member), refs : SUBSET alive], NamesOnce(dim.members),
         NEW change \in Changes, ~Refused(dim.members, change), NEW bumped, bumped = Bumped(dim, change)
  PROVE  /\ bumped \in [gen : Nat, members : Seq(Member), refs : SUBSET alive]
         /\ NamesOnce(bumped.members)
         /\ bumped.members = Changed(dim.members, change) /\ bumped.refs = dim.refs
<1>1. PICK members : members = Changed(dim.members, change)
  OBVIOUS
<1>2. IsDimension(members)
  BY <1>1, ChangedIsDimension DEF IsDimension
<1>3. PICK gen : gen = IF change.how = "grow" /\ members = dim.members THEN dim.gen ELSE dim.gen + 1
  OBVIOUS
<1>4. gen \in Nat
  BY <1>3
<1>5. bumped = [dim EXCEPT !.members = members, !.gen = gen]
  BY <1>1, <1>3 DEF Bumped
<1>6. PICK middle : middle = [dim EXCEPT !.members = members]
  OBVIOUS
<1>7. middle \in [gen : Nat, members : Seq(Member), refs : SUBSET alive] /\ middle.members = members /\ middle.refs = dim.refs
  BY <1>2, <1>6 DEF IsDimension
<1>8. bumped = [middle EXCEPT !.gen = gen]
  BY <1>5, <1>6
<1>9. /\ bumped \in [gen : Nat, members : Seq(Member), refs : SUBSET alive]
      /\ bumped.members = members /\ bumped.refs = dim.refs
  BY <1>4, <1>7, <1>8
<1> QED BY <1>1, <1>2, <1>9 DEF IsDimension

LEMMA StageChangeStep ==
  ASSUME IInv, status = "up", status' = status, editor = Idle, topo = Free,
         NEW id \in DOMAIN library, NEW change \in Changes, StageChange(id, change)
  PROVE  IInv'
<1>1. ~Refused(library[id].members, change)
      /\ UNCHANGED <<library, nextId, copy, bodies, index, handler, status, drift>>
  BY DEF StageChange, diskVars
<1>2. editor' = [pc |-> "saving", id |-> id, change |-> change, todo |-> library[id].refs]
  BY DEF StageChange
<1>3. PICK bumped : bumped = Bumped(library[id], change)
  OBVIOUS
<1>4. PICK next : next = [library EXCEPT ![id] = bumped]
  OBVIOUS
<1>5. topo' = [op |-> "change", next |-> next, todo |-> DOMAIN next, indexed |-> FALSE]
  BY <1>3, <1>4 DEF StageChange, Save
<1>6. DOMAIN next = DOMAIN library /\ next[id] = bumped /\ \A i \in DOMAIN library : i # id => next[i] = library[i]
  BY <1>4
<1>7. IsLibrary(library, nextId, Alive)
  BY DEF IInv, TypesInv
<1>8. /\ bumped \in [gen : Nat, members : Seq(Member), refs : SUBSET Alive]
      /\ NamesOnce(bumped.members)
      /\ bumped.members = Changed(library[id].members, change) /\ bumped.refs = library[id].refs
  <2>1. library[id] \in [gen : Nat, members : Seq(Member), refs : SUBSET Alive] /\ NamesOnce(library[id].members)
    BY <1>7 DEF IsLibrary
  <2> QED BY SMTT(30), <1>1, <1>3, <2>1, BumpedFacts
<1>9. \A i \in DOMAIN library : next[i].refs = library[i].refs
  BY <1>6, <1>8
<1>10. IsLibrary(next, nextId, Alive)
  <2>1. OneEach(next)
    BY <1>6, <1>7, <1>9 DEF IsLibrary, OneEach
  <2> QED BY <1>6, <1>7, <1>8, <2>1 DEF IsLibrary
<1>11. Alive' = Alive
  BY <1>1 DEF Alive, Live
<1>12. /\ topo' # Free /\ topo'.op = "change" /\ topo'.next = next /\ topo'.todo = DOMAIN next
       /\ topo'.indexed = FALSE /\ DOMAIN topo' = {"op", "next", "todo", "indexed"}
  BY <1>5 DEF Free
<1>13. /\ editor'.pc = "saving" /\ editor'.id = id /\ editor'.change = change /\ editor'.todo = library[id].refs
       /\ DOMAIN editor' = {"pc", "id", "change", "todo"}
  BY <1>2
<1>14. TypesInv'
  <2>1. IsSaving(topo', nextId, Alive)
    BY <1>10, <1>12 DEF IsSaving
  <2>2. IsEditing(editor')
    <3>1. id \in Ids /\ library[id].refs \subseteq Cubes
      BY <1>7, LibraryFields DEF Alive
    <3> QED BY <1>13, <3>1 DEF IsEditing
  <2> QED BY <1>1, <1>11, <2>1, <2>2 DEF IInv, TypesInv
<1>15. StagedInv'
  <2>1. RefsFollow(library, next) /\ RefsGrow(library, next)
    BY <1>6, <1>9 DEF RefsFollow, RefsGrow
  <2>2. Changing(library, next, editor')
    BY <1>1, <1>6, <1>8, <1>9, <1>13 DEF Changing
  <2> QED BY <1>1, <1>12, <1>13, <2>1, <2>2 DEF StagedInv, Staged
<1>16. StepInv'
  <2>1. Exempt' = Exempt /\ Pending' = Pending
    BY <1>1, <1>13 DEF Exempt, Pending, Idle
  <2> QED BY <1>1, <1>12, <1>13, <2>1 DEF IInv, StepInv, Staged
<1>17. DiskInv'
  <2>1. SavedIds = {} /\ SavedIds' = {}
    BY <1>12 DEF SavedIds, Staged
  <2> QED BY <1>1, <1>12, <2>1 DEF IInv, DiskInv, Staged, AllSaved
<1>18. DownInv' /\ OnlyDriftStopsABoot'
  BY <1>1 DEF DownInv, OnlyDriftStopsABoot
<1> QED BY <1>14, <1>15, <1>16, <1>17, <1>18 DEF IInv

LEMMA GrowStep == ASSUME IInv, NEW id \in Ids, NEW m \in Member, Grow(id, m) PROVE IInv'
<1>1. PICK change : change = [how |-> "grow", what |-> m]
  OBVIOUS
<1>2. change \in Changes
  BY <1>1 DEF Changes
<1>3. /\ status = "up" /\ editor = Idle /\ topo = Free /\ id \in DOMAIN library
      /\ StageChange(id, change)
  BY <1>1, RequestRuns DEF Grow
<1>4. status' = status
  BY <1>3 DEF StageChange
<1> QED BY <1>2, <1>3, <1>4, StageChangeStep

LEMMA EditSharedStep == ASSUME IInv, NEW c \in Cubes, NEW e \in Edits, EditShared(c, e) PROVE IInv'
<1>1. PICK change : change = [how |-> "edit", what |-> e]
  OBVIOUS
<1>2. change \in Changes
  BY <1>1 DEF Changes
<1>3. status = "up" /\ editor = Idle /\ topo = Free
  BY RequestRuns DEF EditShared
<1>4. PICK id \in DOMAIN library : StageChange(id, change)
  BY <1>1 DEF EditShared, Backings
<1>5. status' = status
  BY <1>4 DEF StageChange
<1> QED BY <1>2, <1>3, <1>4, <1>5, StageChangeStep

LEMMA SaveBodyStep == ASSUME IInv, SaveBody PROVE IInv'
<1>1. /\ topo # Free /\ topo.todo # {}
      /\ UNCHANGED <<library, nextId, copy, index, editor, handler, status, drift>>
  BY DEF SaveBody
<1>2. status = "up"
  BY <1>1, BusyIsUp
<1>3. /\ DOMAIN topo = {"op", "next", "todo", "indexed"} /\ topo.op # "free" /\ topo.indexed \in BOOLEAN
      /\ IsLibrary(topo.next, nextId, Alive) /\ topo.todo \subseteq DOMAIN topo.next
  BY <1>1 DEF IInv, TypesInv, IsSaving
<1>4. PICK id : id = Min(topo.todo)
  OBVIOUS
<1>5. id \in topo.todo
  <2>1. topo.todo \in SUBSET Nat
    BY <1>3, IdsAreNumbers DEF IsLibrary
  <2> QED BY <1>1, <1>4, <2>1, LeastNumber
<1>6. bodies' = Put(bodies, id, topo.next[id].members) /\ topo' = [topo EXCEPT !.todo = @ \ {id}]
  BY <1>4 DEF SaveBody
<1>7. /\ DOMAIN bodies' = DOMAIN bodies \cup {id} /\ bodies'[id] = topo.next[id].members
      /\ \A i \in DOMAIN bodies : i # id => bodies'[i] = bodies[i]
  BY <1>6 DEF Put
<1>8. /\ DOMAIN topo' = {"op", "next", "todo", "indexed"} /\ topo'.op = topo.op /\ topo'.next = topo.next
      /\ topo'.todo = topo.todo \ {id} /\ topo'.indexed = topo.indexed
  BY <1>3, <1>6
<1>9. topo' # Free
  BY <1>3, <1>8 DEF Free
<1>10. Alive' = Alive /\ Exempt' = Exempt /\ Pending' = Pending
  BY <1>1 DEF Alive, Live, Exempt, Pending
<1>11. id \in Ids /\ IsDimension(topo.next[id].members)
  BY <1>3, <1>5, LibraryFields
<1>12. TypesInv'
  <2>1. IsBodies(bodies')
    BY <1>7, <1>11 DEF IInv, TypesInv, IsBodies
  <2>2. IsIndex(index, bodies', Alive)
    <3>1. DOMAIN index \subseteq DOMAIN bodies'
      BY <1>7 DEF IInv, TypesInv, IsIndex
    <3> QED BY <3>1, IndexLater DEF IInv, TypesInv
  <2>3. IsSaving(topo', nextId, Alive)
    BY <1>3, <1>8 DEF IsSaving
  <2> QED BY <1>1, <1>2, <1>10, <2>1, <2>2, <2>3 DEF IInv, TypesInv
<1>13. StagedInv'
  BY <1>1, <1>8, <1>9 DEF IInv, StagedInv, Staged
<1>14. StepInv'
  BY <1>1, <1>8, <1>9, <1>10 DEF IInv, StepInv, Staged
<1>15. DiskInv'
  <2>1. topo.indexed = FALSE
    BY <1>1, <1>2, <1>3 DEF IInv, DiskInv, Staged
  <2>2. SavedIds = DOMAIN topo.next \ topo.todo /\ SavedIds' = SavedIds \cup {id}
    BY <1>1, <1>3, <1>5, <1>8, <1>9 DEF SavedIds, Staged
  <2>3. AllSaved(topo.next, bodies', SavedIds \cup {id})
    <3>1. AllSaved(topo.next, bodies, SavedIds)
      BY <1>2 DEF IInv, DiskInv
    <3> QED BY <1>7, <3>1 DEF AllSaved
  <2>4. AllNear(library, bodies', DOMAIN library \ (SavedIds \cup {id}), drift.ahead)
    <3>1. AllNear(library, bodies, DOMAIN library \ SavedIds, drift.ahead)
      BY <1>2 DEF IInv, DiskInv
    <3> QED BY <1>7, <3>1 DEF AllNear
  <2> QED BY <1>1, <1>2, <1>8, <1>9, <2>1, <2>2, <2>3, <2>4 DEF IInv, DiskInv, Staged
<1>16. DownInv' /\ OnlyDriftStopsABoot'
  BY <1>1, <1>2 DEF DownInv, OnlyDriftStopsABoot
<1> QED BY <1>12, <1>13, <1>14, <1>15, <1>16 DEF IInv

\* The index of a registry whose bodies are on disk.
LEMMA IndexFacts ==
  ASSUME NEW reg, NEW bound, NEW alive, IsLibrary(reg, bound, alive), NEW files, DOMAIN reg \subseteq DOMAIN files,
         NEW idx, idx = IndexOf(reg)
  PROVE  IsIndex(idx, files, alive)
<1>1. DOMAIN idx = DOMAIN reg
      /\ \A id \in DOMAIN reg : idx[id] = [gen |-> reg[id].gen, refs |-> reg[id].refs]
  BY DEF IndexOf
<1>2. \A id \in DOMAIN reg : reg[id].gen \in Nat /\ reg[id].refs \in SUBSET alive
  BY LibraryFields
<1>3. idx \in [DOMAIN idx -> [gen : Nat, refs : SUBSET alive]]
  BY <1>1, <1>2 DEF IndexOf
<1>4. OneEach(idx)
  BY <1>1 DEF OneEach, IsLibrary
<1> QED BY <1>1, <1>3, <1>4 DEF IsIndex

LEMMA SaveIndexStep == ASSUME IInv, SaveIndex PROVE IInv'
<1>1. /\ topo # Free /\ topo.todo = {} /\ index' = IndexOf(topo.next)
      /\ UNCHANGED <<library, nextId, copy, bodies, editor, handler, status, drift>>
  BY DEF SaveIndex
<1>2. status = "up"
  BY <1>1, BusyIsUp
<1>3. /\ DOMAIN topo = {"op", "next", "todo", "indexed"} /\ topo.op # "free"
      /\ IsLibrary(topo.next, nextId, Alive)
  BY <1>1 DEF IInv, TypesInv, IsSaving
<1>4. topo' = [topo EXCEPT !.indexed = TRUE]
  BY DEF SaveIndex
<1>5. /\ DOMAIN topo' = {"op", "next", "todo", "indexed"} /\ topo'.op = topo.op /\ topo'.next = topo.next
      /\ topo'.todo = topo.todo /\ topo'.indexed = TRUE
  BY <1>3, <1>4
<1>6. topo' # Free
  BY <1>3, <1>5 DEF Free
<1>7. Alive' = Alive /\ Exempt' = Exempt /\ Pending' = Pending
  BY <1>1 DEF Alive, Live, Exempt, Pending
<1>8. SavedIds = DOMAIN topo.next /\ SavedIds' = SavedIds
  BY <1>1, <1>5, <1>6 DEF SavedIds, Staged
<1>9. AllSaved(topo.next, bodies, DOMAIN topo.next)
  BY <1>2, <1>8 DEF IInv, DiskInv
<1>10. TypesInv'
  <2>1. IsIndex(index', bodies, Alive)
    <3>1. DOMAIN topo.next \subseteq DOMAIN bodies
      BY <1>9 DEF AllSaved
    <3> QED BY <1>1, <1>3, <3>1, IndexFacts
  <2>2. IsSaving(topo', nextId, Alive)
    BY <1>1, <1>3, <1>5 DEF IsSaving
  <2> QED BY <1>1, <1>2, <1>7, <2>1, <2>2 DEF IInv, TypesInv
<1>11. StagedInv'
  BY <1>1, <1>5, <1>6 DEF IInv, StagedInv, Staged
<1>12. StepInv'
  BY <1>1, <1>5, <1>6, <1>7 DEF IInv, StepInv, Staged
<1>13. DiskInv'
  BY <1>1, <1>2, <1>5, <1>6, <1>8, <1>9 DEF IInv, DiskInv, Staged
<1>14. DownInv' /\ OnlyDriftStopsABoot'
  BY <1>1, <1>2 DEF DownInv, OnlyDriftStopsABoot
<1> QED BY <1>10, <1>11, <1>12, <1>13, <1>14 DEF IInv

LEMMA PublishStep == ASSUME IInv, Publish PROVE IInv'
<1>1. /\ topo # Free /\ topo.indexed /\ library' = topo.next /\ topo' = Free
      /\ UNCHANGED <<nextId, copy, index, handler, status>>
  BY DEF Publish
<1>2. status = "up"
  BY <1>1, BusyIsUp
<1>3. IsLibrary(topo.next, nextId, Alive)
  BY <1>1 DEF IInv, TypesInv, IsSaving
<1>4. Alive' = Alive
  BY <1>1 DEF Alive, Live
<1>5. /\ RefsFollow(library, topo.next) /\ RefsGrow(library, topo.next)
      /\ topo.op # "change" => MembersFollow(library, topo.next)
      /\ topo.op = "change" <=> editor.pc = "saving"
      /\ topo.op = "change" => Changing(library, topo.next, editor)
  BY <1>1 DEF IInv, StagedInv, Staged
<1>6. /\ drift' = [drift EXCEPT !.ahead = {}] /\ IsDrift(drift)
      /\ drift'.torn = drift.torn /\ drift'.stray = drift.stray /\ drift'.behind = drift.behind
      /\ drift'.ahead = {} /\ IsDrift(drift')
  <2>1. drift' = [drift EXCEPT !.ahead = {}] /\ IsDrift(drift)
    BY DEF Publish, IInv, TypesInv
  <2> QED BY <2>1 DEF IsDrift
<1>7. Exempt' = Exempt
  BY <1>6 DEF Exempt
<1>8. /\ IsEditing(editor) /\ IsEditing(editor') /\ editor'.pc # "saving"
      /\ topo.op = "change" => /\ editor'.pc = "fanout" /\ editor'.id = editor.id
                               /\ editor'.change = editor.change /\ editor'.todo = editor.todo
      /\ topo.op # "change" => editor' = editor
  <2>1. IsEditing(editor)
    BY DEF IInv, TypesInv
  <2>2. CASE topo.op = "change"
    <3>1. editor' = [editor EXCEPT !.pc = "fanout"]
      BY <2>2 DEF Publish
    <3>2. editor.pc = "saving" /\ DOMAIN editor = {"pc", "id", "change", "todo"}
      BY <1>5, <2>1, <2>2 DEF IsEditing
    <3>3. /\ editor'.pc = "fanout" /\ editor'.id = editor.id /\ editor'.change = editor.change
          /\ editor'.todo = editor.todo /\ DOMAIN editor' = DOMAIN editor
      BY <3>1, <3>2
    <3> QED BY <2>1, <2>2, <3>2, <3>3 DEF IsEditing
  <2>3. CASE topo.op # "change"
    BY <1>5, <2>1, <2>3 DEF Publish
  <2> QED BY <2>1, <2>2, <2>3
<1>9. index = IndexOf(topo.next) /\ AllSaved(topo.next, bodies, DOMAIN topo.next) /\ DOMAIN index = DOMAIN topo.next
  <2>1. topo.todo = {} /\ index = IndexOf(topo.next) /\ AllSaved(topo.next, bodies, SavedIds)
    BY <1>1, <1>2 DEF IInv, DiskInv, Staged
  <2>2. SavedIds = DOMAIN topo.next
    BY <1>1, <2>1 DEF SavedIds, Staged
  <2> QED BY <2>1, <2>2 DEF IndexOf
<1>10. /\ IsBodies(bodies') /\ DOMAIN topo.next \subseteq DOMAIN bodies'
       /\ \A id \in DOMAIN topo.next : bodies'[id] = topo.next[id].members
  <2>1. IsBodies(bodies)
    BY DEF IInv, TypesInv
  <2>2. CASE bodies' = bodies
    BY <1>9, <2>1, <2>2 DEF AllSaved
  <2>3. CASE bodies' = Swept(topo.next)
    BY <1>9, <2>1, <2>3 DEF AllSaved, Swept, IsBodies
  <2> QED BY <2>2, <2>3 DEF Publish
<1>11. TypesInv'
  <2>1. IsIndex(index, bodies', Alive)
    BY <1>9, <1>10, IndexLater DEF IInv, TypesInv
  <2>2. IsSaving(Free, nextId, Alive)
    BY DEF IsSaving
  <2> QED BY <1>1, <1>2, <1>3, <1>4, <1>6, <1>8, <1>10, <2>1, <2>2 DEF IInv, TypesInv
<1>12. StagedInv'
  BY <1>1, <1>8 DEF StagedInv, Staged, Free
<1>13. StepInv'
  <2>1. AllInStep(library, copy, Exempt \cup Pending, drift.behind)
        /\ (editor.pc = "fanout" => Lagging(library, copy, editor, Exempt, drift.behind))
        /\ (topo.op # "change" => AllInStep(topo.next, copy, Exempt \cup Pending, drift.behind))
    BY <1>1, <1>2 DEF IInv, StepInv, Staged
  <2>2. CASE topo.op # "change"
    <3>1. Pending' = Pending /\ editor' = editor
      BY <1>8, <2>2 DEF Pending
    <3>2. editor.pc = "fanout" => Lagging(topo.next, copy, editor, Exempt, drift.behind)
      <4> SUFFICES ASSUME editor.pc = "fanout", editor.todo # {}
                   PROVE  Lagging(topo.next, copy, editor, Exempt, drift.behind)
        BY DEF Lagging
      <4>1. Lagging(library, copy, editor, Exempt, drift.behind) /\ editor.id \in DOMAIN library
            /\ editor.todo \subseteq library[editor.id].refs
        BY <2>1 DEF Lagging
      <4>2. /\ editor.id \in DOMAIN topo.next /\ editor.todo \subseteq topo.next[editor.id].refs
            /\ topo.next[editor.id].members = library[editor.id].members
        BY <1>5, <2>2, <4>1 DEF RefsFollow, RefsGrow, MembersFollow
      <4> QED BY <4>1, <4>2 DEF Lagging
    <3> QED BY <1>1, <1>6, <1>7, <2>1, <2>2, <3>1, <3>2 DEF StepInv, Staged
  <2>3. CASE topo.op = "change"
    <3>1. Changing(library, topo.next, editor) /\ editor.pc = "saving"
      BY <1>5, <2>3
    <3>2. Pending = {} /\ Pending' = editor.todo
      BY <1>8, <2>3, <3>1 DEF Pending
    <3>3. AllInStep(library, copy, Exempt, drift.behind)
      BY <2>1, <3>2
    <3>4. AllInStep(topo.next, copy, Exempt \cup editor.todo, drift.behind)
      <4> SUFFICES ASSUME NEW id \in DOMAIN topo.next, NEW c \in topo.next[id].refs \ (Exempt \cup editor.todo)
                   PROVE  InStep(c, copy[c].members, topo.next[id].members, drift.behind)
        BY DEF AllInStep
      <4>1. id \in DOMAIN library /\ c \in library[id].refs /\ id # editor.id
        BY <3>1 DEF Changing
      <4>2. topo.next[id].members = library[id].members
        BY <3>1, <4>1 DEF Changing
      <4> QED BY <3>3, <4>1, <4>2 DEF AllInStep
    <3>5. Lagging(topo.next, copy, editor, Exempt, drift.behind)
      <4>1. editor.id \in DOMAIN library /\ editor.id \in DOMAIN topo.next
            /\ editor.todo = library[editor.id].refs /\ editor.todo = topo.next[editor.id].refs
        BY <3>1 DEF Changing
      <4>2. ASSUME NEW c \in editor.todo \ Exempt
            PROVE  WasInStep(c, copy[c].members, topo.next[editor.id].members, editor.change, drift.behind)
        <5> DEFINE old == library[editor.id].members
        <5>1. old \in Seq(Member) /\ NamesOnce(old)
          BY <4>1, LibraryFields DEF IsDimension, IInv, TypesInv
        <5>2. ~Refused(old, editor.change) /\ topo.next[editor.id].members = Changed(old, editor.change)
          BY <3>1 DEF Changing
        <5>3. InStep(c, copy[c].members, old, drift.behind)
          BY <3>3, <4>1, <4>2 DEF AllInStep
        <5> QED BY <5>1, <5>2, <5>3 DEF WasInStep
      <4> QED BY <4>1, <4>2 DEF Lagging
    <3>6. Lagging(topo.next, copy, editor', Exempt, drift.behind)
      BY <1>8, <2>3, <3>5 DEF Lagging
    <3> QED BY <1>1, <1>6, <1>7, <3>2, <3>4, <3>6 DEF StepInv, Staged
  <2> QED BY <2>2, <2>3
<1>14. DiskInv'
  <2>1. SavedIds' = {}
    BY <1>1 DEF SavedIds, Staged
  <2>2. AllNear(topo.next, bodies', DOMAIN topo.next, {})
    BY <1>10 DEF AllNear, NearTo
  <2> QED BY <1>1, <1>6, <1>9, <2>1, <2>2 DEF DiskInv, Staged, AllSaved
<1>15. DownInv' /\ OnlyDriftStopsABoot'
  BY <1>1, <1>2 DEF DownInv, OnlyDriftStopsABoot
<1> QED BY <1>11, <1>12, <1>13, <1>14, <1>15 DEF IInv

-----------------------------------------------------------------------------
(* Saves that fail, and the fan-out.                                        *)

\* What a save that stops leaves on disk: each body is near the published one
\* or the dimension's cubes are known to be torn.
LEMMA NearAfter ==
  ASSUME IInv, status = "up"
  PROVE  AllNear(library, bodies, DOMAIN library, drift.ahead \cup Ahead)
<1>1. AllSaved(topo.next, bodies, SavedIds) /\ AllNear(library, bodies, DOMAIN library \ SavedIds, drift.ahead)
  BY DEF IInv, DiskInv
<1> SUFFICES ASSUME NEW id \in DOMAIN library
             PROVE  id \in DOMAIN bodies /\ (id \in drift.ahead \cup Ahead \/ NearTo(bodies[id], library[id].members))
  BY DEF AllNear
<1>2. CASE id \notin SavedIds
  BY <1>1, <1>2 DEF AllNear
<1>3. CASE id \in SavedIds
  <2>1. Staged /\ id \in DOMAIN topo.next /\ id \notin topo.todo
    BY <1>3 DEF SavedIds
  <2>2. id \in DOMAIN bodies /\ bodies[id] = topo.next[id].members
    BY <1>1, <1>3 DEF AllSaved
  <2>3. CASE topo.op # "change"
    <3>1. topo.next[id].members = library[id].members
      BY <2>1, <2>3 DEF IInv, StagedInv, MembersFollow
    <3> QED BY <2>2, <3>1 DEF NearTo
  <2>4. CASE topo.op = "change"
    <3>1. editor.pc = "saving" /\ Changing(library, topo.next, editor)
      BY <2>4 DEF IInv, StagedInv
    <3>2. CASE id # editor.id
      BY <2>2, <3>1, <3>2 DEF NearTo, Changing
    <3>3. CASE id = editor.id
      <4>1. editor.change \in Changes
        BY <3>1 DEF IInv, TypesInv, IsEditing
      <4>2. topo.next[id].members = Changed(library[id].members, editor.change)
        BY <3>1, <3>3 DEF Changing
      <4>3. CASE editor.change.how = "grow"
        <5>1. editor.change.what \in Member
          BY <4>1, <4>3, ChangeFields
        <5>2. bodies[id] = Grown(library[id].members, editor.change.what)
          BY <2>2, <4>2, <4>3 DEF Changed
        <5> QED BY <2>2, <5>1, <5>2 DEF NearTo
      <4>4. CASE editor.change.how = "edit"
        <5>1. id \in Ahead
          BY <2>1, <2>4, <3>3, <4>4 DEF Ahead
        <5> QED BY <2>2, <5>1
      <4> QED BY <4>1, <4>3, <4>4, ChangeFields
    <3> QED BY <3>2, <3>3
  <2> QED BY <2>3, <2>4
<1> QED BY <1>2, <1>3

LEMMA AheadIsTyped == ASSUME IInv PROVE Ahead \subseteq Ids
<1>1. CASE topo.op = "change"
  <2>1. editor.id \in Ids
    BY <1>1 DEF IInv, StagedInv, TypesInv, IsEditing
  <2> QED BY <2>1 DEF Ahead
<1>2. CASE topo.op # "change"
  BY <1>2 DEF Ahead
<1> QED BY <1>1, <1>2

\* What a change of the ghosts of a drift leaves of it.
LEMMA DriftAhead ==
  ASSUME NEW apart, IsDrift(apart), NEW ids, ids \subseteq Ids,
         NEW later, later = [apart EXCEPT !.ahead = @ \cup ids]
  PROVE  /\ later.torn = apart.torn /\ later.stray = apart.stray /\ later.behind = apart.behind
         /\ later.ahead = apart.ahead \cup ids /\ IsDrift(later)
BY DEF IsDrift

LEMMA SaveFailsStep == ASSUME IInv, SaveFails PROVE IInv'
<1>1. /\ topo # Free /\ topo.indexed # TRUE /\ topo' = Free
      /\ UNCHANGED <<library, nextId, copy, bodies, index, handler, status>>
  BY DEF SaveFails, diskVars
<1>2. status = "up"
  BY <1>1, BusyIsUp
<1>3. /\ drift'.torn = drift.torn /\ drift'.stray = drift.stray /\ drift'.behind = drift.behind
      /\ drift'.ahead = drift.ahead \cup Ahead /\ IsDrift(drift')
  <2>1. PICK ids : ids = Ahead
    OBVIOUS
  <2>2. drift' = [drift EXCEPT !.ahead = @ \cup ids] /\ IsDrift(drift) /\ ids \subseteq Ids
    BY <2>1, AheadIsTyped DEF SaveFails, IInv, TypesInv
  <2> QED BY <2>1, <2>2, DriftAhead
<1>4. topo.op = "change" <=> editor.pc = "saving"
  BY DEF IInv, StagedInv
<1>5. IsEditing(editor') /\ editor'.pc # "saving" /\ (editor' = editor \/ (editor' = Idle /\ editor.pc = "saving"))
  BY <1>4, IdleEditor DEF SaveFails, IInv, TypesInv
<1>6. Alive' = Alive /\ Exempt' = Exempt /\ Pending' = Pending
  BY <1>1, <1>3, <1>5, IdleEditor DEF Alive, Live, Exempt, Pending
<1>7. TypesInv'
  <2>1. IsSaving(Free, nextId, Alive)
    BY DEF IsSaving
  <2> QED BY <1>1, <1>2, <1>3, <1>5, <1>6, <2>1 DEF IInv, TypesInv
<1>8. StagedInv'
  BY <1>1, <1>5 DEF StagedInv, Staged, Free
<1>9. StepInv'
  <2>1. editor'.pc = "fanout" => editor' = editor
    BY <1>5, IdleEditor
  <2> QED BY <1>1, <1>3, <1>6, <2>1 DEF IInv, StepInv, Staged
<1>10. DiskInv'
  <2>1. index = IndexOf(library)
    BY <1>1, <1>2 DEF IInv, DiskInv
  <2>2. SavedIds' = {}
    BY <1>1 DEF SavedIds, Staged
  <2>3. AllNear(library, bodies, DOMAIN library, drift.ahead \cup Ahead)
    BY <1>2, NearAfter
  <2> QED BY <1>1, <1>3, <2>1, <2>2, <2>3 DEF DiskInv, Staged, AllSaved
<1>11. DownInv' /\ OnlyDriftStopsABoot'
  BY <1>1, <1>2 DEF DownInv, OnlyDriftStopsABoot
<1> QED BY <1>7, <1>8, <1>9, <1>10, <1>11 DEF IInv

\* A cube the fan-out has not reached has no member the library lacks, if what
\* is fanned out is an append.
LEMMA PendingIsBehind ==
  ASSUME IInv, status = "up", editor.pc = "fanout", editor.change.how = "grow",
         NEW c \in editor.todo, c \notin Exempt
  PROVE  ToSet(copy[c].members) \subseteq ToSet(library[editor.id].members)
<1>1. Lagging(library, copy, editor, Exempt, drift.behind) /\ editor.change \in Changes /\ c \in Cubes
  BY DEF IInv, StepInv, TypesInv, IsEditing
<1>2. WasInStep(c, copy[c].members, library[editor.id].members, editor.change, drift.behind)
  BY <1>1 DEF Lagging
<1>3. PICK old \in Seq(Member) : /\ NamesOnce(old)
                                 /\ library[editor.id].members = Changed(old, editor.change)
                                 /\ InStep(c, copy[c].members, old, drift.behind)
  BY <1>2 DEF WasInStep
<1>4. ToSet(copy[c].members) \subseteq ToSet(old)
  BY <1>3 DEF InStep
<1>5. library[editor.id].members = Grown(old, editor.change.what) /\ editor.change.what \in Member
  BY <1>1, <1>3, ChangeFields DEF Changed
<1>6. ToSet(old) \subseteq ToSet(Grown(old, editor.change.what))
  <2>1. IsDimension(old)
    BY <1>3 DEF IsDimension
  <2> QED BY <1>5, <2>1, GrownFacts
<1> QED BY <1>4, <1>5, <1>6

\* A cube that a fan-out has yet to reach refers to the dimension it is for, in
\* whatever registry is being saved.
LEMMA PendingRefers ==
  ASSUME IInv, status = "up", editor.pc = "fanout", NEW c \in editor.todo
  PROVE  /\ editor.id \in DOMAIN library /\ c \in library[editor.id].refs
         /\ \A id \in DOMAIN library : c \in library[id].refs => id = editor.id
         /\ Staged => /\ editor.id \in DOMAIN topo.next
                      /\ topo.next[editor.id].members = library[editor.id].members
                      /\ \A id \in DOMAIN topo.next : c \in topo.next[id].refs => id = editor.id
<1>1. editor.id \in DOMAIN library /\ c \in library[editor.id].refs
  BY DEF IInv, StepInv, Lagging
<1>2. IsLibrary(library, nextId, Alive) /\ (Staged => IsLibrary(topo.next, nextId, Alive))
  BY DEF IInv, TypesInv, IsSaving, Staged
<1>3. \A id \in DOMAIN library : c \in library[id].refs => id = editor.id
  BY <1>1, <1>2, LibraryFields
<1>4. ASSUME Staged
      PROVE  /\ editor.id \in DOMAIN topo.next
             /\ topo.next[editor.id].members = library[editor.id].members
             /\ \A id \in DOMAIN topo.next : c \in topo.next[id].refs => id = editor.id
  <2>1. topo.op # "change" /\ RefsFollow(library, topo.next) /\ RefsGrow(library, topo.next)
        /\ MembersFollow(library, topo.next)
    BY <1>4 DEF IInv, StagedInv
  <2>2. editor.id \in DOMAIN topo.next
    BY <1>1, <2>1 DEF RefsFollow
  <2>3. c \in topo.next[editor.id].refs /\ topo.next[editor.id].members = library[editor.id].members
    BY <1>1, <2>1, <2>2 DEF RefsGrow, MembersFollow
  <2> QED BY <1>2, <1>4, <2>2, <2>3, LibraryFields
<1> QED BY <1>1, <1>3, <1>4

\* What a fan-out leaves when it stops: an append it missed can be made up
\* for, an edit cannot.
Left(left) ==
    /\ IsDrift(left) /\ left.stray = drift.stray /\ left.ahead = drift.ahead
    /\ IF editor.change.how = "grow"
       THEN left.torn = drift.torn /\ left.behind = drift.behind \cup editor.todo
       ELSE left.torn = drift.torn \cup editor.todo /\ left.behind = drift.behind

LEMMA LeftFacts ==
  ASSUME IInv, editor.pc = "fanout", NEW left, left = LeftBehind(editor.change, editor.todo)
  PROVE  Left(left)
<1>1. IsDrift(drift) /\ editor.todo \subseteq Cubes
  BY DEF IInv, TypesInv, IsEditing
<1>2. PICK todo : todo = editor.todo
  OBVIOUS
<1>3. CASE editor.change.how = "grow"
  <2>1. left = [drift EXCEPT !.behind = @ \cup todo]
    BY <1>2, <1>3 DEF LeftBehind
  <2> QED BY <1>1, <1>2, <1>3, <2>1 DEF Left, IsDrift
<1>4. CASE editor.change.how # "grow"
  <2>1. left = [drift EXCEPT !.torn = @ \cup todo]
    BY <1>2, <1>4 DEF LeftBehind
  <2> QED BY <1>1, <1>2, <1>4, <2>1 DEF Left, IsDrift
<1> QED BY <1>3, <1>4

LEMMA LeftInStep ==
  ASSUME IInv, status = "up", editor.pc = "fanout", NEW left, Left(left)
  PROVE  /\ AllInStep(library, copy, left.torn \cup left.stray, left.behind)
         /\ Staged => AllInStep(topo.next, copy, left.torn \cup left.stray, left.behind)
<1> DEFINE but == left.torn \cup left.stray
<1>1. Exempt \subseteq but /\ Pending = editor.todo
  BY DEF Left, Exempt, Pending
<1>2. topo.op # "change"
  BY DEF IInv, StagedInv
<1>3. /\ AllInStep(library, copy, Exempt \cup Pending, drift.behind)
      /\ Staged => AllInStep(topo.next, copy, Exempt \cup Pending, drift.behind)
  BY <1>2 DEF IInv, StepInv
<1>4. ASSUME NEW c \in editor.todo, c \notin but
      PROVE  c \in left.behind /\ ToSet(copy[c].members) \subseteq ToSet(library[editor.id].members)
  <2>1. editor.change.how = "grow" /\ c \in left.behind /\ c \notin Exempt
    BY <1>1, <1>4 DEF Left
  <2> QED BY <1>4, <2>1, PendingIsBehind
<1>5. ASSUME NEW c, c \notin editor.todo PROVE c \in left.behind <=> c \in drift.behind
  BY <1>5 DEF Left
<1> HIDE DEF but
<1>6. ASSUME NEW id \in DOMAIN library, NEW c \in library[id].refs \ but
      PROVE  InStep(c, copy[c].members, library[id].members, left.behind)
  <2>1. CASE c \in editor.todo
    BY <1>4, <1>6, <2>1, PendingRefers DEF InStep
  <2>2. CASE c \notin editor.todo
    <3>1. InStep(c, copy[c].members, library[id].members, drift.behind)
      BY <1>1, <1>3, <1>6, <2>2 DEF AllInStep
    <3> QED BY <1>5, <2>2, <3>1 DEF InStep
  <2> QED BY <2>1, <2>2
<1>7. ASSUME Staged, NEW id \in DOMAIN topo.next, NEW c \in topo.next[id].refs \ but
      PROVE  InStep(c, copy[c].members, topo.next[id].members, left.behind)
  <2>1. CASE c \in editor.todo
    BY <1>4, <1>7, <2>1, PendingRefers DEF InStep
  <2>2. CASE c \notin editor.todo
    <3>1. InStep(c, copy[c].members, topo.next[id].members, drift.behind)
      BY <1>1, <1>3, <1>7, <2>2 DEF AllInStep
    <3> QED BY <1>5, <2>2, <3>1 DEF InStep
  <2> QED BY <2>1, <2>2
<1> QED BY <1>6, <1>7 DEF AllInStep, but

LEMMA FannedOutStep == ASSUME IInv, FannedOut PROVE IInv'
<1>1. /\ editor.pc = "fanout" /\ editor.todo = {} /\ editor' = Idle
      /\ UNCHANGED <<library, nextId, copy, bodies, index, topo, handler, status, drift>>
  BY DEF FannedOut, diskVars
<1>2. Alive' = Alive /\ Exempt' = Exempt /\ Pending' = Pending
  BY <1>1, IdleEditor DEF Alive, Live, Exempt, Pending
<1>3. status = "up"
  BY <1>1, IdleEditor, BusyIsUp
<1>4. TypesInv'
  BY <1>1, <1>2, <1>3, IdleEditor DEF IInv, TypesInv
<1>5. StagedInv'
  BY <1>1, IdleEditor DEF IInv, StagedInv, Staged
<1>6. StepInv'
  BY <1>1, <1>2, IdleEditor DEF IInv, StepInv, Staged
<1>7. DiskInv'
  <2>1. SavedIds' = SavedIds
    BY <1>1 DEF SavedIds, Staged
  <2> QED BY <1>1, <2>1 DEF IInv, DiskInv, Staged
<1>8. DownInv' /\ OnlyDriftStopsABoot'
  BY <1>1, <1>3 DEF DownInv, OnlyDriftStopsABoot
<1> QED BY <1>4, <1>5, <1>6, <1>7, <1>8 DEF IInv

LEMMA FanOutStopsStep ==
  ASSUME IInv, editor.pc = "fanout", NEW c, FanOutStops(c),
         UNCHANGED <<library, nextId, diskVars, topo, handler, status>>
  PROVE  IInv'
<1>1. UNCHANGED <<library, nextId, copy, bodies, index, topo, handler, status>> /\ editor' = Idle
  BY DEF FanOutStops, diskVars
<1>2. status = "up"
  BY IdleEditor, BusyIsUp
<1>3. PICK left : left = drift'
  OBVIOUS
<1>4. Left(left)
  BY <1>3, LeftFacts DEF FanOutStops
<1>5. /\ AllInStep(library, copy, left.torn \cup left.stray, left.behind)
      /\ Staged => AllInStep(topo.next, copy, left.torn \cup left.stray, left.behind)
  BY <1>2, <1>4, LeftInStep
<1>6. Alive' = Alive /\ Exempt' = left.torn \cup left.stray /\ Pending' = {}
  BY <1>1, <1>3, IdleEditor DEF Alive, Live, Exempt, Pending
<1>7. TypesInv'
  <2>1. IsDrift(drift')
    BY <1>3, <1>4 DEF Left
  <2> QED BY <1>1, <1>2, <1>6, <2>1, IdleEditor DEF IInv, TypesInv
<1>8. StagedInv'
  BY <1>1, IdleEditor DEF IInv, StagedInv, Staged
<1>9. StepInv'
  <2>1. (left.torn \cup left.stray) \cup {} = left.torn \cup left.stray
    OBVIOUS
  <2> QED BY <1>1, <1>3, <1>5, <1>6, <2>1, IdleEditor DEF StepInv, Staged
<1>10. DiskInv'
  <2>1. SavedIds' = SavedIds /\ drift'.ahead = drift.ahead
    BY <1>1, <1>3, <1>4 DEF SavedIds, Staged, Left
  <2> QED BY <1>1, <2>1 DEF IInv, DiskInv, Staged
<1>11. DownInv' /\ OnlyDriftStopsABoot'
  BY <1>1, <1>2 DEF DownInv, OnlyDriftStopsABoot
<1> QED BY <1>7, <1>8, <1>9, <1>10, <1>11 DEF IInv

\* A copy the fan-out reaches is in step with what the library has.
LEMMA ChangesKeepStep ==
  ASSUME NEW c, NEW mine, IsDimension(mine), NEW theirs, NEW change \in Changes, NEW behind,
         WasInStep(c, mine, theirs, change, behind), ~Refused(mine, change)
  PROVE  InStep(c, Changed(mine, change), theirs, behind)
<1>1. PICK old \in Seq(Member) : /\ NamesOnce(old) /\ ~Refused(old, change)
                                 /\ theirs = Changed(old, change) /\ InStep(c, mine, old, behind)
  BY DEF WasInStep
<1>2. IsDimension(old)
  BY <1>1 DEF IsDimension
<1>3. CASE c \in behind
  <2>1. ToSet(mine) \subseteq ToSet(old)
    BY <1>1, <1>3 DEF InStep
  <2> QED BY <1>1, <1>2, <1>3, <2>1, ChangesKeepOrder DEF InStep
<1>4. CASE c \notin behind
  BY <1>1, <1>4 DEF InStep
<1> QED BY <1>3, <1>4

LEMMA FanOutToStep ==
  ASSUME IInv, editor.pc = "fanout", NEW c \in editor.todo, FanOutTo(c),
         UNCHANGED <<library, nextId, diskVars, topo, handler, status>>
  PROVE  IInv'
<1>1. UNCHANGED <<library, nextId, bodies, index, topo, handler, status, drift>>
  BY DEF FanOutTo, diskVars
<1>2. status = "up"
  BY IdleEditor, BusyIsUp
<1>3. /\ IsEditing(editor) /\ DOMAIN editor = {"pc", "id", "change", "todo"} /\ editor.id \in Ids
      /\ editor.change \in Changes /\ editor.todo \subseteq Cubes /\ c \in Cubes
  BY DEF IInv, TypesInv, IsEditing
<1>4. /\ editor'.pc = "fanout" /\ editor'.id = editor.id /\ editor'.change = editor.change
      /\ editor'.todo = editor.todo \ {c} /\ DOMAIN editor' = {"pc", "id", "change", "todo"}
  <2>1. editor' = [editor EXCEPT !.todo = @ \ {c}]
    BY DEF FanOutTo
  <2> QED BY <1>3, <2>1
<1>5. ~Refused(copy[c].members, editor.change) /\ IsCopies(copy) /\ IsDimension(copy[c].members)
  BY <1>3, CopyFields DEF FanOutTo, IInv, TypesInv
<1>6. PICK members : members = Changed(copy[c].members, editor.change)
  OBVIOUS
<1>7. IsDimension(members)
  BY <1>3, <1>5, <1>6, ChangedIsDimension
<1>8. copy' = [copy EXCEPT ![c].members = members]
  BY <1>6 DEF FanOutTo
<1>9. copy \in [Cubes -> [live : BOOLEAN, members : Seq(Member)]]
  BY <1>5 DEF IsCopies
<1>10. /\ copy'[c].members = members /\ copy'[c].live = copy[c].live
       /\ \A d \in Cubes : d # c => copy'[d] = copy[d]
  BY <1>3, <1>8, <1>9
<1>11. IsCopies(copy')
  <2>1. copy' \in [Cubes -> [live : BOOLEAN, members : Seq(Member)]]
    BY <1>3, <1>7, <1>8, <1>9 DEF IsDimension
  <2>2. \A d \in Cubes : NamesOnce(copy'[d].members)
    BY <1>5, <1>7, <1>10 DEF IsCopies, IsDimension
  <2> QED BY <2>1, <2>2 DEF IsCopies
<1>12. Alive' = Alive /\ Exempt' = Exempt /\ Pending = editor.todo /\ Pending' = editor.todo \ {c}
  BY <1>1, <1>4, <1>10 DEF Alive, Live, Exempt, Pending
<1>13. c \notin Exempt => InStep(c, members, library[editor.id].members, drift.behind)
  <2>1. Lagging(library, copy, editor, Exempt, drift.behind)
    BY <1>2 DEF IInv, StepInv
  <2>2. c \notin Exempt =>
           WasInStep(c, copy[c].members, library[editor.id].members, editor.change, drift.behind)
    BY <2>1 DEF Lagging
  <2> QED BY <1>3, <1>5, <1>6, <2>2, ChangesKeepStep
<1>14. TypesInv'
  <2>1. IsEditing(editor')
    BY <1>3, <1>4 DEF IsEditing
  <2> QED BY <1>1, <1>2, <1>11, <1>12, <2>1 DEF IInv, TypesInv
<1>15. StagedInv'
  BY <1>1, <1>4 DEF IInv, StagedInv, Staged
<1>16. StepInv'
  <2>1. topo.op # "change"
    BY DEF IInv, StagedInv
  <2>2. /\ AllInStep(library, copy, Exempt \cup editor.todo, drift.behind)
        /\ Lagging(library, copy, editor, Exempt, drift.behind)
        /\ Staged => AllInStep(topo.next, copy, Exempt \cup editor.todo, drift.behind)
    BY <1>2, <1>12, <2>1 DEF IInv, StepInv
  <2>3. IsLibrary(library, nextId, Alive) /\ (Staged => IsLibrary(topo.next, nextId, Alive))
    BY DEF IInv, TypesInv, IsSaving, Staged
  <2>4. AllInStep(library, copy', Exempt \cup (editor.todo \ {c}), drift.behind)
    <3> SUFFICES ASSUME NEW id \in DOMAIN library, NEW d \in library[id].refs \ (Exempt \cup (editor.todo \ {c}))
                 PROVE  InStep(d, copy'[d].members, library[id].members, drift.behind)
      BY DEF AllInStep
    <3>1. CASE d = c
      BY <1>2, <1>10, <1>13, <3>1, PendingRefers
    <3>2. CASE d # c
      <4>1. d \in Cubes /\ d \notin editor.todo
        BY <2>3, <3>2, LibraryFields DEF Alive
      <4> QED BY <1>10, <2>2, <3>2, <4>1 DEF AllInStep
    <3> QED BY <3>1, <3>2
  <2>5. Staged => AllInStep(topo.next, copy', Exempt \cup (editor.todo \ {c}), drift.behind)
    <3> SUFFICES ASSUME Staged, NEW id \in DOMAIN topo.next,
                        NEW d \in topo.next[id].refs \ (Exempt \cup (editor.todo \ {c}))
                 PROVE  InStep(d, copy'[d].members, topo.next[id].members, drift.behind)
      BY DEF AllInStep
    <3>1. CASE d = c
      BY <1>2, <1>10, <1>13, <3>1, PendingRefers
    <3>2. CASE d # c
      <4>1. d \in Cubes /\ d \notin editor.todo
        BY <2>3, <3>2, LibraryFields DEF Alive
      <4> QED BY <1>10, <2>2, <3>2, <4>1 DEF AllInStep
    <3> QED BY <3>1, <3>2
  <2>6. Lagging(library, copy', editor', Exempt, drift.behind)
    <3>1. ASSUME NEW d \in editor.todo \ {c} PROVE copy'[d] = copy[d]
      BY <1>3, <1>10
    <3> QED BY <1>4, <2>2, <3>1 DEF Lagging
  <2> QED BY <1>1, <1>4, <1>12, <2>4, <2>5, <2>6 DEF StepInv, Staged
<1>17. DiskInv'
  <2>1. SavedIds' = SavedIds
    BY <1>1 DEF SavedIds, Staged
  <2> QED BY <1>1, <2>1 DEF IInv, DiskInv, Staged
<1>18. DownInv' /\ OnlyDriftStopsABoot'
  BY <1>1, <1>2 DEF DownInv, OnlyDriftStopsABoot
<1> QED BY <1>14, <1>15, <1>16, <1>17, <1>18 DEF IInv

LEMMA FanOutStep == ASSUME IInv, FanOut PROVE IInv'
<1>1. editor.pc = "fanout" /\ editor.todo # {} /\ UNCHANGED <<library, nextId, diskVars, topo, handler, status>>
  BY DEF FanOut
<1>2. PICK c : c = Min(editor.todo)
  OBVIOUS
<1>3. c \in editor.todo
  <2>1. editor.todo \in SUBSET Nat
    BY <1>1, NumbersAssumption DEF IInv, TypesInv, IsEditing
  <2> QED BY <1>1, <1>2, <2>1, LeastNumber
<1>4. FanOutTo(c) \/ FanOutStops(c)
  BY <1>2 DEF FanOut
<1> QED BY <1>1, <1>3, <1>4, FanOutToStep, FanOutStopsStep

-----------------------------------------------------------------------------
(* Crash and boot.                                                          *)

LEMMA ReachableNear ==
  ASSUME NEW c, NEW mine, NEW theirs, IsDimension(theirs), NEW behind, InStep(c, mine, theirs, behind),
         NEW body, NearTo(body, theirs)
  PROVE  Reachable(c, mine, body, behind)
<1>1. CASE c \in behind
  <2>1. ToSet(theirs) \subseteq ToSet(body)
    BY GrownFacts DEF NearTo
  <2> QED BY <1>1, <2>1 DEF Reachable, InStep
<1>2. CASE c \notin behind
  BY <1>2 DEF Reachable, InStep
<1> QED BY <1>1, <1>2

\* What a crash makes of the drift.
LEMMA CutShortFacts ==
  ASSUME IInv, status = "up", NEW left, left = CutShort
  PROVE  /\ IsDrift(left) /\ drift.ahead \cup Ahead \subseteq left.ahead
         /\ AllInStep(library, copy, left.torn \cup left.stray, left.behind)
         /\ Staged /\ topo.op # "change" => AllInStep(topo.next, copy, left.torn \cup left.stray, left.behind)
<1>1. topo.op = "change" <=> editor.pc = "saving"
  BY DEF IInv, StagedInv
<1>2. IsDrift(drift) /\ Ahead \subseteq Ids
  BY AheadIsTyped DEF IInv, TypesInv
<1>3. CASE editor.pc = "fanout"
  <2>1. left = LeftBehind(editor.change, editor.todo)
    BY <1>3 DEF CutShort
  <2>2. Left(left)
    BY <1>3, <2>1, LeftFacts
  <2>3. Ahead = {}
    BY <1>1, <1>3 DEF Ahead
  <2> QED BY <1>3, <2>2, <2>3, LeftInStep DEF Left
<1>4. CASE editor.pc # "fanout"
  <2>1. /\ left.torn = drift.torn /\ left.stray = drift.stray /\ left.behind = drift.behind
        /\ IsDrift(left) /\ drift.ahead \cup Ahead \subseteq left.ahead
    <3>1. PICK ids : ids = Ahead
      OBVIOUS
    <3>2. left = [drift EXCEPT !.ahead = @ \cup ids]
      BY <1>4, <3>1 DEF CutShort
    <3> QED BY <1>2, <3>1, <3>2, DriftAhead
  <2>2. Exempt \cup Pending = left.torn \cup left.stray
    BY <1>4, <2>1 DEF Exempt, Pending
  <2> QED BY <2>1, <2>2 DEF IInv, StepInv
<1> QED BY <1>3, <1>4

LEMMA CrashStep == ASSUME IInv, Crash PROVE IInv'
<1>1. /\ status = "up" /\ status' = "down" /\ topo' = Free /\ editor' = Idle /\ handler' = None
      /\ UNCHANGED <<library, nextId, copy, bodies, index>>
  BY DEF Crash, Serving, diskVars
<1>2. PICK left : left = drift' /\ left = CutShort
  BY DEF Crash
<1>3. /\ IsDrift(left) /\ drift.ahead \cup Ahead \subseteq left.ahead
      /\ AllInStep(library, copy, left.torn \cup left.stray, left.behind)
      /\ Staged /\ topo.op # "change" => AllInStep(topo.next, copy, left.torn \cup left.stray, left.behind)
  BY <1>1, <1>2, CutShortFacts
<1>4. Alive' = Alive /\ Exempt' = left.torn \cup left.stray
  BY <1>1, <1>2 DEF Alive, Live, Exempt
<1>5. TypesInv'
  <2>1. IsSaving(Free, nextId, Alive)
    BY DEF IsSaving
  <2> QED BY <1>1, <1>2, <1>3, <1>4, <2>1, IdleEditor DEF IInv, TypesInv
<1>6. StagedInv' /\ StepInv' /\ DiskInv' /\ OnlyDriftStopsABoot'
  BY <1>1 DEF StagedInv, Staged, StepInv, DiskInv, OnlyDriftStopsABoot, Free, Idle
<1>7. DownInv'
  <2>1. AllNear(library, bodies, DOMAIN library, left.ahead)
    <3>1. AllNear(library, bodies, DOMAIN library, drift.ahead \cup Ahead)
      BY <1>1, NearAfter
    <3> QED BY <1>3, <3>1 DEF AllNear
  <2>2. /\ index = IF Staged /\ topo.indexed THEN IndexOf(topo.next) ELSE IndexOf(library)
        /\ Staged /\ topo.indexed => topo.todo = {}
        /\ AllSaved(topo.next, bodies, SavedIds)
    BY <1>1 DEF IInv, DiskInv
  <2>3. IsLibrary(library, nextId, Alive)
    BY DEF IInv, TypesInv
  <2>4. ASSUME NEW id \in DOMAIN library \ left.ahead, NEW c \in library[id].refs \ (left.torn \cup left.stray)
        PROVE  Reachable(c, copy[c].members, bodies[id], left.behind)
    <3>1. InStep(c, copy[c].members, library[id].members, left.behind)
      BY <1>3, <2>4 DEF AllInStep
    <3>2. NearTo(bodies[id], library[id].members)
      BY <2>1, <2>4 DEF AllNear
    <3>3. IsDimension(library[id].members)
      BY <2>3, <2>4, LibraryFields
    <3> QED BY <3>1, <3>2, <3>3, ReachableNear
  <2>5. CASE ~(Staged /\ topo.indexed)
    <3>1. DOMAIN index = DOMAIN library /\ \A id \in DOMAIN library : index[id].refs = library[id].refs
      BY <2>2, <2>5 DEF IndexOf
    <3>2. RefsGrow(library, index)
      BY <3>1 DEF RefsGrow
    <3>3. AllReachable(index, bodies, copy, DOMAIN index \ left.ahead, left.torn \cup left.stray, left.behind)
      BY <2>4, <3>1 DEF AllReachable
    <3>4. AllNear(library, bodies, DOMAIN index \cap DOMAIN library, left.ahead)
      BY <2>1, <3>1
    <3> QED BY <1>1, <1>2, <1>4, <3>2, <3>3, <3>4 DEF DownInv
  <2>6. CASE Staged /\ topo.indexed
    <3>1. DOMAIN index = DOMAIN topo.next /\ \A id \in DOMAIN topo.next : index[id].refs = topo.next[id].refs
      BY <2>2, <2>6 DEF IndexOf
    <3>2. AllSaved(topo.next, bodies, DOMAIN topo.next)
      BY <2>2, <2>6 DEF SavedIds
    <3>3. RefsGrow(library, index)
      <4>1. RefsGrow(library, topo.next)
        BY <2>6 DEF IInv, StagedInv
      <4> QED BY <3>1, <4>1 DEF RefsGrow
    <3>4. AllNear(library, bodies, DOMAIN index \cap DOMAIN library, left.ahead)
      BY <2>1 DEF AllNear
    <3>5. ASSUME NEW id \in DOMAIN index \ left.ahead, NEW c \in index[id].refs \ (left.torn \cup left.stray)
          PROVE  Reachable(c, copy[c].members, bodies[id], left.behind)
      <4>1. id \in DOMAIN topo.next /\ c \in topo.next[id].refs
        BY <3>1, <3>5
      <4>2. CASE topo.op = "change"
        <5>1. Changing(library, topo.next, editor)
          BY <4>2 DEF IInv, StagedInv
        <5>2. id \in DOMAIN library /\ c \in library[id].refs
          BY <4>1, <5>1 DEF Changing
        <5> QED BY <2>4, <3>5, <5>2
      <4>3. CASE topo.op # "change"
        <5>1. InStep(c, copy[c].members, topo.next[id].members, left.behind)
          BY <1>3, <2>6, <3>5, <4>1, <4>3 DEF AllInStep
        <5>2. bodies[id] = topo.next[id].members
          BY <3>2, <4>1 DEF AllSaved
        <5> QED BY <5>1, <5>2 DEF InStep, Reachable, NearTo
      <4> QED BY <4>2, <4>3
    <3>6. AllReachable(index, bodies, copy, DOMAIN index \ left.ahead, left.torn \cup left.stray, left.behind)
      BY <3>5 DEF AllReachable
    <3> QED BY <1>1, <1>2, <1>4, <3>3, <3>4, <3>6 DEF DownInv
  <2> QED BY <2>5, <2>6
<1> QED BY <1>5, <1>6, <1>7 DEF IInv

\* Reconciling a copy from which the body can be made makes it.
LEMMA ReachedFacts ==
  ASSUME NEW c, NEW mine, IsDimension(mine), NEW body, IsDimension(body), NEW behind,
         Reachable(c, mine, body, behind)
  PROVE  ~ReconcileConflicts(mine, body) /\ InStep(c, Reconciled(mine, body), body, behind)
<1>1. CASE c \in behind
  <2>1. ToSet(mine) \subseteq ToSet(body)
    BY <1>1 DEF Reachable
  <2>2. ToSet(Reconciled(mine, body)) \subseteq ToSet(body)
    BY <2>1, ReconciledFacts
  <2> QED BY <1>1, <2>1, <2>2, SubsetsReconcile DEF InStep
<1>2. CASE c \notin behind
  <2>1. NearTo(body, mine)
    BY <1>2 DEF Reachable
  <2>2. Reconciled(mine, body) = body
    BY <2>1, ReconciledForward DEF NearTo
  <2>3. ToSet(mine) \subseteq ToSet(body)
    BY <2>1, GrownFacts DEF NearTo
  <2> QED BY <1>2, <2>2, <2>3, SubsetsReconcile DEF InStep
<1> QED BY <1>1, <1>2

LEMMA TheirBody ==
  ASSUME IInv, NEW id \in DOMAIN index, NEW c \in index[id].refs
  PROVE  TheirLibrary(c) = bodies[id] /\ c \in Referrers /\ c \in Cubes /\ IsDimension(bodies[id])
<1>1. IsIndex(index, bodies, Alive) /\ IsBodies(bodies)
  BY DEF IInv, TypesInv
<1>2. \A j \in DOMAIN index : c \in index[j].refs => j = id
  BY <1>1 DEF IsIndex, OneEach
<1>3. (CHOOSE j \in DOMAIN index : c \in index[j].refs) = id
  BY <1>2
<1>4. TheirLibrary(c) = bodies[id]
  BY <1>3 DEF TheirLibrary, Loaded, Dim
<1>5. c \in Cubes /\ IsDimension(bodies[id])
  <2>1. index[id] \in [gen : Nat, refs : SUBSET Alive]
    BY <1>1 DEF IsIndex
  <2> QED BY <1>1, <2>1 DEF IsIndex, IsBodies, Alive
<1> QED BY <1>4, <1>5 DEF Referrers

\* What a boot brings up: the library the index and the bodies give, and every
\* copy brought forward unless one conflicts.
LEMMA BootFacts ==
  ASSUME IInv, Boot
  PROVE  /\ \A id \in DOMAIN index : library'[id].members = bodies[id] /\ library'[id].refs = index[id].refs
         /\ DOMAIN library' = DOMAIN index
         /\ \A id \in DOMAIN index : \A c \in index[id].refs :
               status' = "up" => copy'[c].members = Reconciled(copy[c].members, bodies[id])
         /\ status' = "up" => \A id \in DOMAIN index : \A c \in index[id].refs :
               ~ReconcileConflicts(copy[c].members, bodies[id])
<1>1. DOMAIN library' = DOMAIN index
      /\ \A id \in DOMAIN index : library'[id].members = bodies[id] /\ library'[id].refs = index[id].refs
  BY DEF Boot, Loaded, Dim
<1>2. copy \in [Cubes -> [live : BOOLEAN, members : Seq(Member)]]
  BY DEF IInv, TypesInv, IsCopies
<1>3. ASSUME status' = "up", NEW id \in DOMAIN index, NEW c \in index[id].refs
      PROVE  /\ copy'[c].members = Reconciled(copy[c].members, bodies[id])
             /\ ~ReconcileConflicts(copy[c].members, bodies[id])
  <2>1. Unreconcilable = {}
    BY <1>3 DEF Boot
  <2>2. TheirLibrary(c) = bodies[id] /\ c \in Referrers /\ c \in Cubes
    BY <1>3, TheirBody
  <2>3. ~ReconcileConflicts(copy[c].members, bodies[id])
    BY <2>1, <2>2 DEF Unreconcilable
  <2>4. copy'[c] = [copy[c] EXCEPT !.members = Reconciled(@, TheirLibrary(c))]
    BY <2>1, <2>2 DEF Boot
  <2>5. PICK members : members = Reconciled(copy[c].members, bodies[id])
    OBVIOUS
  <2>6. copy'[c] = [copy[c] EXCEPT !.members = members]
    BY <2>2, <2>4, <2>5
  <2>7. copy'[c].members = members
    BY <1>2, <2>2, <2>6
  <2> QED BY <2>3, <2>5, <2>7
<1> QED BY <1>1, <1>3

LEMMA NextIdFacts ==
  ASSUME NEW reg, DOMAIN reg \subseteq Ids
  PROVE  NextId(reg) \in Nat /\ \A id \in DOMAIN reg : id < NextId(reg)
<1> DEFINE n == Cardinality(Ids)
           S == {0} \cup DOMAIN reg
<1>1. n \in Nat /\ Ids = 1 .. n
  BY NumbersAssumption, FS_CardinalityType
<1> HIDE DEF n
<1>2. S \in SUBSET (0 .. n) /\ S # {}
  BY <1>1
<1>3. Max(S) \in S /\ \A x \in S : Max(S) >= x
  <2> HIDE DEF S
  <2> QED BY <1>1, <1>2, GreatestNumber
<1>4. Max(S) \in Nat /\ S \subseteq Nat /\ DOMAIN reg \subseteq S /\ NextId(reg) = Max(S) + 1
  BY <1>1, <1>2, <1>3 DEF NextId
<1> HIDE DEF S
<1>5. PICK m \in Nat : m = Max(S)
  BY <1>4
<1>6. ASSUME NEW id \in DOMAIN reg PROVE id < NextId(reg)
  <2>1. id \in Nat /\ m >= id /\ NextId(reg) = m + 1
    BY <1>3, <1>4, <1>5, <1>6
  <2> QED BY <2>1
<1> QED BY <1>4, <1>5, <1>6

LEMMA BootStep == ASSUME IInv, Boot PROVE IInv'
<1>1. /\ status = "down" /\ status' \in {"up", "refused"} /\ nextId' = NextId(index)
      /\ UNCHANGED <<bodies, index, topo, editor, handler>> /\ library' = Loaded
  BY DEF Boot, diskVars
<1>2. topo = Free /\ editor = Idle /\ handler = None
  BY <1>1 DEF IInv, TypesInv
<1>3. IsIndex(index, bodies, Alive) /\ IsBodies(bodies) /\ IsCopies(copy) /\ IsDrift(drift)
  BY DEF IInv, TypesInv
<1>4. TornAtBoot \subseteq Cubes
  <2>1. \A id \in DOMAIN index : index[id].refs \subseteq Cubes
    BY <1>3 DEF IsIndex, Alive
  <2> QED BY <2>1 DEF TornAtBoot
<1>5. /\ drift'.torn = drift.torn \cup TornAtBoot /\ drift'.stray = drift.stray /\ drift'.behind = drift.behind
      /\ drift'.ahead = {} /\ IsDrift(drift')
  <2>1. PICK torn : torn = TornAtBoot
    OBVIOUS
  <2>2. PICK middle : middle = [drift EXCEPT !.torn = @ \cup torn]
    OBVIOUS
  <2>3. drift' = [middle EXCEPT !.ahead = {}]
    BY <2>1, <2>2 DEF Boot
  <2>4. /\ middle.torn = drift.torn \cup torn /\ middle.stray = drift.stray /\ middle.behind = drift.behind
        /\ IsDrift(middle)
    BY <1>3, <1>4, <2>1, <2>2 DEF IsDrift
  <2> QED BY <2>1, <2>3, <2>4 DEF IsDrift
<1>6. /\ DOMAIN library' = DOMAIN index
      /\ \A id \in DOMAIN index : library'[id].members = bodies[id] /\ library'[id].refs = index[id].refs
  BY BootFacts
<1>7. \A c \in Cubes : copy'[c].live = copy[c].live /\ IsDimension(copy'[c].members)
  <2> SUFFICES ASSUME NEW c \in Cubes PROVE copy'[c].live = copy[c].live /\ IsDimension(copy'[c].members)
    OBVIOUS
  <2>1. copy[c] \in [live : BOOLEAN, members : Seq(Member)] /\ IsDimension(copy[c].members)
    BY <1>3 DEF IsCopies, IsDimension
  <2>2. CASE copy' = copy
    BY <2>1, <2>2
  <2>3. CASE c \notin Referrers
    BY <2>1, <2>3 DEF Boot
  <2>4. CASE copy' # copy /\ c \in Referrers
    <3>1. PICK id \in DOMAIN index : c \in index[id].refs
      BY <2>4 DEF Referrers
    <3>2. TheirLibrary(c) = bodies[id] /\ IsDimension(bodies[id])
      BY <3>1, TheirBody
    <3>3. PICK members : members = Reconciled(copy[c].members, bodies[id])
      OBVIOUS
    <3>4. copy'[c] = [copy[c] EXCEPT !.members = members]
      BY <2>4, <3>2, <3>3 DEF Boot
    <3>5. IsDimension(members)
      BY <2>1, <3>2, <3>3, ReconciledFacts
    <3> QED BY <2>1, <3>4, <3>5
  <2> QED BY <2>2, <2>3, <2>4
<1>8. Alive' = Alive
  BY <1>7 DEF Alive, Live
<1>9. IsCopies(copy')
  <2>1. CASE copy' = copy
    BY <1>3, <2>1
  <2>2. CASE copy' # copy
    <3>1. DOMAIN copy' = Cubes /\ copy' = [c \in Cubes |-> copy'[c]]
      BY <2>2 DEF Boot
    <3>2. \A c \in Cubes : copy'[c] \in [live : BOOLEAN, members : Seq(Member)]
      <4> SUFFICES ASSUME NEW c \in Cubes PROVE copy'[c] \in [live : BOOLEAN, members : Seq(Member)]
        OBVIOUS
      <4>1. copy[c] \in [live : BOOLEAN, members : Seq(Member)]
        BY <1>3 DEF IsCopies
      <4>2. CASE c \notin Referrers
        BY <2>2, <4>1, <4>2 DEF Boot
      <4>3. CASE c \in Referrers
        <5>1. PICK members : members = Reconciled(copy[c].members, TheirLibrary(c))
          OBVIOUS
        <5>2. copy'[c] = [copy[c] EXCEPT !.members = members]
          BY <2>2, <4>3, <5>1 DEF Boot
        <5>3. copy'[c].members = members
          BY <4>1, <5>2
        <5>4. members \in Seq(Member)
          BY <1>7, <5>3 DEF IsDimension
        <5> QED BY <4>1, <5>2, <5>4
      <4> QED BY <4>2, <4>3
    <3> QED BY <1>7, <3>1, <3>2 DEF IsCopies, IsDimension
  <2> QED BY <2>1, <2>2
<1>10. NextId(index) \in Nat /\ \A id \in DOMAIN index : id < NextId(index)
  <2>1. DOMAIN index \subseteq Ids
    BY <1>3 DEF IsIndex, IsBodies
  <2> QED BY <2>1, NextIdFacts
<1>11. IsLibrary(library', nextId', Alive)
  <2>1. ASSUME NEW id \in DOMAIN index
        PROVE  /\ library'[id] \in [gen : Nat, members : Seq(Member), refs : SUBSET Alive]
               /\ NamesOnce(library'[id].members) /\ id < nextId' /\ id \in Ids
    <3>1. index[id] \in [gen : Nat, refs : SUBSET Alive] /\ id \in DOMAIN bodies
      BY <1>3, <2>1 DEF IsIndex
    <3>2. library'[id] = [gen |-> index[id].gen, members |-> bodies[id], refs |-> index[id].refs]
      BY <1>1, <2>1 DEF Loaded, Dim
    <3>3. bodies[id] \in Seq(Member) /\ NamesOnce(bodies[id]) /\ id \in Ids
      BY <1>3, <3>1 DEF IsBodies, IsDimension
    <3>4. library'[id] \in [gen : Nat, members : Seq(Member), refs : SUBSET Alive]
      BY <3>1, <3>2, <3>3
    <3> QED BY <1>1, <1>10, <2>1, <3>2, <3>3, <3>4
  <2>2. OneEach(library')
    BY <1>3, <1>6 DEF OneEach, IsIndex
  <2> QED BY <1>6, <2>1, <2>2 DEF IsLibrary
<1>12. TypesInv'
  <2>1. IsSaving(Free, nextId', Alive)
    BY DEF IsSaving
  <2>2. status' \in {"up", "down", "refused"}
    BY <1>1
  <2> QED BY <1>1, <1>2, <1>3, <1>5, <1>8, <1>9, <1>10, <1>11, <2>1, <2>2, IdleEditor DEF TypesInv
<1>13. StagedInv'
  BY <1>1, <1>2 DEF StagedInv, Staged, Free, Idle
<1>14. ASSUME NEW id \in DOMAIN index, NEW c \in index[id].refs, c \notin Exempt'
       PROVE  /\ ~ReconcileConflicts(copy[c].members, bodies[id])
              /\ InStep(c, Reconciled(copy[c].members, bodies[id]), bodies[id], drift.behind)
  <2>1. c \notin Exempt /\ id \notin drift.ahead
    BY <1>5, <1>14 DEF Exempt, TornAtBoot
  <2>2. Reachable(c, copy[c].members, bodies[id], drift.behind)
    BY <1>1, <1>14, <2>1 DEF IInv, DownInv, AllReachable
  <2>3. IsDimension(copy[c].members) /\ IsDimension(bodies[id])
    BY <1>3, <1>14, TheirBody, CopyFields
  <2> QED BY <2>2, <2>3, ReachedFacts
<1>15. StepInv'
  <2> SUFFICES ASSUME status' = "up" PROVE AllInStep(library', copy', Exempt' \cup Pending', drift'.behind)
    BY <1>1, <1>2 DEF StepInv, Staged, Idle
  <2> SUFFICES ASSUME NEW id \in DOMAIN index, NEW c \in index[id].refs, c \notin Exempt'
               PROVE  InStep(c, copy'[c].members, bodies[id], drift.behind)
    BY <1>5, <1>6 DEF AllInStep
  <2>1. copy'[c].members = Reconciled(copy[c].members, bodies[id])
    BY BootFacts
  <2> QED BY <1>14, <2>1
<1>16. DiskInv'
  <2>1. index = IndexOf(library')
    <3>1. \A id \in DOMAIN index : index[id] = [gen |-> index[id].gen, refs |-> index[id].refs]
      BY <1>3 DEF IsIndex
    <3>2. \A id \in DOMAIN index : library'[id].gen = index[id].gen
      BY <1>1 DEF Loaded, Dim
    <3>3. index = [id \in DOMAIN index |-> index[id]]
      BY <1>3 DEF IsIndex
    <3> QED BY <1>6, <3>1, <3>2, <3>3 DEF IndexOf
  <2>2. SavedIds' = {}
    BY <1>1, <1>2 DEF SavedIds, Staged
  <2>3. AllNear(library', bodies, DOMAIN library', {})
    BY <1>3, <1>6 DEF AllNear, NearTo, IsIndex
  <2> QED BY <1>1, <1>2, <1>5, <2>1, <2>2, <2>3 DEF DiskInv, Staged, AllSaved
<1>17. DownInv'
  BY <1>1 DEF DownInv
<1>18. OnlyDriftStopsABoot'
  <2> SUFFICES ASSUME status' = "refused" PROVE Exempt' # {}
    BY DEF OnlyDriftStopsABoot, Exempt
  <2>1. PICK c \in Referrers : ReconcileConflicts(copy[c].members, TheirLibrary(c))
    BY DEF Boot, Unreconcilable
  <2>2. PICK id \in DOMAIN index : c \in index[id].refs
    BY DEF Referrers
  <2>3. TheirLibrary(c) = bodies[id]
    BY <2>2, TheirBody
  <2> QED BY <1>14, <2>1, <2>2, <2>3
<1> QED BY <1>12, <1>13, <1>15, <1>16, <1>17, <1>18 DEF IInv

-----------------------------------------------------------------------------
(* The invariant, and the theorems.                                         *)

LEMMA InitHolds == ASSUME Init PROVE IInv
<1>1. PICK refs \in SUBSET Cubes : library \in {<<>>, [id \in {1} |-> Dim(0, Seed, refs)]}
  BY DEF Init
<1>2. PICK live \in SUBSET Cubes :
         /\ \A id \in DOMAIN library : library[id].refs \subseteq live
         /\ copy = [c \in Cubes |-> IF c \in live THEN [live |-> TRUE, members |-> Seed] ELSE NoCube]
  BY DEF Init
<1>3. /\ nextId = NextId(library) /\ bodies = BodiesOf(library) /\ index = IndexOf(library)
      /\ topo = Free /\ editor = Idle /\ handler = None /\ status = "up"
      /\ drift = [torn |-> {}, stray |-> {}, behind |-> {}, ahead |-> {}]
  BY DEF Init
<1>4. DOMAIN library \subseteq {1} /\ \A id \in DOMAIN library : library[id] = Dim(0, Seed, refs)
  <2>1. CASE library = <<>>
    BY <2>1
  <2>2. CASE library = [id \in {1} |-> Dim(0, Seed, refs)]
    BY <2>2
  <2> QED BY <1>1, <2>1, <2>2
<1>5. \A c \in live : copy[c] = [live |-> TRUE, members |-> Seed]
  BY <1>2
<1>6. \A c \in Cubes : copy[c] \in [live : BOOLEAN, members : Seq(Member)] /\ NamesOnce(copy[c].members)
  <2>1. IsDimension(<<>>)
    BY DEF IsDimension, NamesOnce
  <2>2. ASSUME NEW c \in Cubes
        PROVE  copy[c] \in [live : BOOLEAN, members : Seq(Member)] /\ NamesOnce(copy[c].members)
    <3>1. CASE c \in live
      <4>1. copy[c] = [live |-> TRUE, members |-> Seed]
        BY <1>5, <3>1
      <4> QED BY <4>1, SeedIsDimension DEF IsDimension
    <3>2. CASE c \notin live
      <4>1. copy[c] = [live |-> FALSE, members |-> <<>>]
        BY <1>2, <3>2 DEF NoCube
      <4> QED BY <2>1, <4>1 DEF IsDimension
    <3> QED BY <3>1, <3>2
  <2> QED BY <2>2
<1>7. IsCopies(copy)
  BY <1>2, <1>6 DEF IsCopies
<1>8. live \subseteq Alive
  BY <1>5 DEF Alive, Live
<1>9. DOMAIN library \subseteq Ids
  BY <1>4, NumbersAssumption
<1>10. nextId \in Nat /\ \A id \in DOMAIN library : id < nextId
  BY <1>3, <1>9, NextIdFacts
<1>11. IsLibrary(library, nextId, Alive)
  <2>1. ASSUME NEW id \in DOMAIN library
        PROVE  library[id] \in [gen : Nat, members : Seq(Member), refs : SUBSET Alive] /\ NamesOnce(library[id].members)
    <3>1. library[id] = [gen |-> 0, members |-> Seed, refs |-> refs]
      BY <1>4, <2>1 DEF Dim
    <3>2. refs \subseteq Alive
      BY <1>2, <1>8, <2>1, <3>1
    <3> QED BY <3>1, <3>2, SeedIsDimension DEF IsDimension
  <2>2. OneEach(library)
    BY <1>4 DEF OneEach
  <2> QED BY <1>9, <1>10, <2>1, <2>2 DEF IsLibrary
<1>12. DOMAIN bodies = DOMAIN library /\ \A id \in DOMAIN library : bodies[id] = library[id].members
  BY <1>3 DEF BodiesOf
<1>13. TypesInv
  <2>1. IsBodies(bodies)
    BY <1>9, <1>11, <1>12, LibraryFields DEF IsBodies
  <2>2. IsIndex(index, bodies, Alive)
    BY <1>3, <1>11, <1>12, IndexFacts
  <2>3. IsDrift(drift)
    BY <1>3 DEF IsDrift
  <2>4. IsSaving(topo, nextId, Alive)
    BY <1>3 DEF IsSaving
  <2> QED BY <1>3, <1>7, <1>10, <1>11, <2>1, <2>2, <2>3, <2>4, IdleEditor DEF TypesInv
<1>14. StagedInv
  BY <1>3 DEF StagedInv, Staged, Free, Idle
<1>15. StepInv
  <2>1. AllInStep(library, copy, Exempt \cup Pending, drift.behind)
    <3> SUFFICES ASSUME NEW id \in DOMAIN library, NEW c \in library[id].refs
                 PROVE  InStep(c, copy[c].members, library[id].members, drift.behind)
      BY DEF AllInStep
    <3>1. copy[c].members = Seed
      BY <1>2, <1>5
    <3>2. library[id].members = Seed
      BY <1>4 DEF Dim
    <3> QED BY <3>1, <3>2 DEF InStep
  <2> QED BY <1>3, <2>1 DEF StepInv, Staged, Idle
<1>16. DiskInv
  <2>1. SavedIds = {}
    BY <1>3 DEF SavedIds, Staged
  <2> QED BY <1>3, <1>12, <2>1 DEF DiskInv, Staged, AllSaved, AllNear, NearTo
<1>17. DownInv /\ OnlyDriftStopsABoot
  BY <1>3 DEF DownInv, OnlyDriftStopsABoot
<1> QED BY <1>13, <1>14, <1>15, <1>16, <1>17 DEF IInv

LEMMA StutterStep == ASSUME IInv, UNCHANGED vars PROVE IInv'
<1>1. UNCHANGED <<library, nextId, copy, bodies, index, topo, editor, handler, status, drift>>
  BY DEF vars, diskVars
<1>2. Alive' = Alive /\ Exempt' = Exempt /\ Pending' = Pending /\ SavedIds' = SavedIds
  BY <1>1 DEF Alive, Live, Exempt, Pending, SavedIds, Staged
<1>3. TypesInv' /\ StagedInv'
  BY <1>1, <1>2 DEF IInv, TypesInv, StagedInv, Staged
<1>4. StepInv'
  BY <1>1, <1>2 DEF IInv, StepInv, Staged
<1>5. DiskInv' /\ DownInv' /\ OnlyDriftStopsABoot'
  BY <1>1, <1>2 DEF IInv, DiskInv, Staged, DownInv, OnlyDriftStopsABoot
<1> QED BY <1>3, <1>4, <1>5 DEF IInv

LEMMA NextKeeps == ASSUME IInv, Next PROVE IInv'
BY RegisterStep, DeleteStep, PromoteStep, CreateInlineStep, CreateWithRefStep, GrowStep, EditSharedStep,
   EditEmbeddedStep, ApplyEmbeddedStep, FanOutStep, FannedOutStep, SaveBodyStep, SaveIndexStep, PublishStep,
   SaveFailsStep, CheckBackingStep, GrowByFlowStep, GrowCheckedStep, CrashStep, BootStep
DEF Next

\* The inductive invariant, with each part of the engine's state in it
\* (dim_topology, registry_edit, the copies, the files and the boot).
THEOREM LibraryInvariance == Spec => []IInv
<1>1. Init => IInv
  BY InitHolds
<1>2. IInv /\ [Next]_vars => IInv'
  BY NextKeeps, StutterStep
<1> QED BY <1>1, <1>2, PTL DEF Spec

LEMMA SoundTypes == ASSUME IInv PROVE TypeOK
<1>1. IsLibrary(library, nextId, Alive) /\ (topo # Free => IsLibrary(topo.next, nextId, Alive))
      /\ nextId \in Nat /\ IsCopies(copy) /\ status \in {"up", "down", "refused"}
  BY DEF IInv, TypesInv, IsSaving
<1>2. ASSUME NEW reg, IsLibrary(reg, nextId, Alive) PROVE IsRegistry(reg)
  <2>1. ASSUME NEW id \in DOMAIN reg
        PROVE  reg[id].gen \in Nat /\ IsSeqOfMembers(reg[id].members) /\ NamesOnce(reg[id].members)
               /\ reg[id].refs \subseteq Cubes
    BY <1>2, <2>1, LibraryFields DEF IsDimension, IsSeqOfMembers, Alive
  <2> QED BY <1>2, <2>1 DEF IsRegistry, IsLibrary
<1>3. \A c \in Cubes : IsSeqOfMembers(copy[c].members) /\ NamesOnce(copy[c].members)
  BY <1>1, CopyFields DEF IsDimension, IsSeqOfMembers
<1>4. ASSUME NEW c \in Cubes PROVE Cardinality(Backings(c)) <= 1 /\ (Backed(c) => Live(c))
  <2>1. ASSUME NEW i \in Backings(c), NEW j \in Backings(c) PROVE i = j
    BY <1>1, <2>1, LibraryFields DEF Backings
  <2>2. CASE Backings(c) = {}
    BY <2>2, FS_EmptySet DEF Backed
  <2>3. CASE Backings(c) # {}
    <3>1. PICK id \in Backings(c) : TRUE
      BY <2>3
    <3>2. Backings(c) = {id}
      BY <2>1, <3>1
    <3>3. Cardinality(Backings(c)) = 1
      BY <3>2, FS_Singleton
    <3>4. Live(c)
      <4>1. c \in library[id].refs /\ id \in DOMAIN library
        BY <3>1 DEF Backings
      <4> QED BY <1>1, <4>1, LibraryFields DEF Alive
    <3> QED BY <3>3, <3>4
  <2> QED BY <2>2, <2>3
<1> QED BY <1>1, <1>2, <1>3, <1>4 DEF TypeOK

LEMMA SoundDisk == ASSUME IInv PROVE DiskIsReadable
<1>1. DOMAIN index \subseteq DOMAIN bodies
  BY DEF IInv, TypesInv, IsIndex
<1>2. ASSUME NEW id \in DOMAIN library, NearTo(bodies[id], library[id].members)
      PROVE  bodies[id] = library[id].members \/ \E m \in Member : bodies[id] = Grown(library[id].members, m)
  BY <1>2 DEF NearTo
<1>3. CASE status = "up"
  <2>1. AllSaved(topo.next, bodies, SavedIds) /\ AllNear(library, bodies, DOMAIN library \ SavedIds, drift.ahead)
    BY <1>3 DEF IInv, DiskInv
  <2>2. ASSUME NEW id \in DOMAIN library, id \in SavedIds
        PROVE  topo # Free /\ id \in DOMAIN topo.next /\ bodies[id] = topo.next[id].members
    BY <2>1, <2>2 DEF AllSaved, SavedIds, Staged
  <2>3. ASSUME NEW id \in DOMAIN library, id \notin SavedIds
        PROVE  id \in drift.ahead \/ NearTo(bodies[id], library[id].members)
    BY <2>1, <2>3 DEF AllNear
  <2> QED BY <1>1, <1>2, <2>2, <2>3 DEF DiskIsReadable
<1>4. CASE status = "down"
  <2>1. ASSUME NEW id \in DOMAIN index \cap DOMAIN library
        PROVE  id \in drift.ahead \/ NearTo(bodies[id], library[id].members)
    BY <1>4, <2>1 DEF IInv, DownInv, AllNear
  <2> QED BY <1>1, <1>2, <2>1 DEF DiskIsReadable
<1>5. CASE status = "refused"
  BY <1>1, <1>5 DEF DiskIsReadable
<1> QED BY <1>3, <1>4, <1>5 DEF IInv, TypesInv

\* Copies in step with the library, a registry on disk that loads, and a boot
\* that only a torn or a stray copy stops, whatever fails and whenever the
\* server crashes (save_registry, Engine::edit_dimension, try_with_dimensions_dir).
THEOREM LibrarySound == Spec => []LibraryIsSound
<1>1. ASSUME IInv PROVE LibraryIsSound
  <2>1. CopiesKeepInStep
    <3>1. drift.torn \cup drift.stray \cup Pending = Exempt \cup Pending
      BY DEF Exempt
    <3> QED BY <1>1, <3>1 DEF CopiesKeepInStep, IInv, StepInv, AllInStep, InStep
  <2> QED BY <1>1, <2>1, SoundTypes, SoundDisk DEF LibraryIsSound, IInv
<1> QED BY <1>1, LibraryInvariance, PTL

LEMMA LibraryMoves == ASSUME Next PROVE library' = library \/ Publish \/ Boot
<1>1. Register \/ (\E id \in Ids : Delete(id)) \/ (\E c \in Cubes : Promote(c) \/ CreateInline(c))
      \/ (\E c \in Cubes, id \in Ids : CreateWithRef(c, id)) => library' = library
  BY DEF Register, Delete, Promote, CreateInline, CreateWithRef
<1>2. (\E id \in Ids, m \in Member : Grow(id, m)) \/ (\E c \in Cubes, e \in Edits : EditShared(c, e) \/ EditEmbedded(c, e))
      => library' = library
  BY DEF Grow, EditShared, EditEmbedded, StageChange
<1>3. ApplyEmbedded \/ FanOut \/ FannedOut \/ SaveBody \/ SaveIndex \/ SaveFails \/ GrowChecked \/ Crash => library' = library
  BY DEF ApplyEmbedded, FanOut, FannedOut, SaveBody, SaveIndex, SaveFails, GrowChecked, Crash
<1>4. (\E c \in Cubes, m \in Member : CheckBacking(c, m) \/ GrowByFlow(c, m)) => library' = library
  BY DEF CheckBacking, GrowByFlow
<1> QED BY <1>1, <1>2, <1>3, <1>4 DEF Next

LEMMA ReferencesStep == ASSUME IInv, [Next]_vars PROVE RefsGrow(library, library')
<1>1. CASE library' = library
  BY <1>1 DEF RefsGrow
<1>2. CASE Publish
  BY <1>2 DEF Publish, IInv, StagedInv, Staged
<1>3. CASE Boot
  <2>1. RefsGrow(library, index)
    BY <1>3 DEF Boot, IInv, DownInv
  <2> QED BY <1>3, <2>1, BootFacts DEF RefsGrow
<1> QED BY <1>1, <1>2, <1>3, LibraryMoves DEF vars

\* What an append acknowledged reaches every cube by the next boot, and a
\* reference that was published is never lost while the dimension is there
\* (the reconcile loop of try_with_dimensions_dir, create_cube_with_refs).
THEOREM NothingForgotten == Spec => NothingIsForgotten
<1>1. ASSUME IInv, Boot, status' = "up", NEW id \in DOMAIN library', NEW c \in library'[id].refs
      PROVE  ToSet(library'[id].members) \subseteq ToSet(copy'[c].members)
  <2>1. id \in DOMAIN index /\ c \in index[id].refs /\ library'[id].members = bodies[id]
    BY <1>1, BootFacts
  <2>2. /\ copy'[c].members = Reconciled(copy[c].members, bodies[id])
        /\ ~ReconcileConflicts(copy[c].members, bodies[id])
    BY <1>1, <2>1, BootFacts
  <2>3. IsDimension(copy[c].members) /\ IsDimension(bodies[id])
    BY <1>1, <2>1, TheirBody, CopyFields DEF IInv, TypesInv
  <2> QED BY <2>1, <2>2, <2>3, ReconciledFacts
<1>2. IInv /\ [Next]_vars => [Boot => (status' = "up" =>
          \A id \in DOMAIN library' : \A c \in library'[id].refs :
              ToSet(library'[id].members) \subseteq ToSet(copy'[c].members))]_vars
  BY <1>1
<1>3. IInv /\ [Next]_vars =>
        [\A id \in DOMAIN library \cap DOMAIN library' : library[id].refs \subseteq library'[id].refs]_vars
  BY ReferencesStep DEF RefsGrow
<1> QED BY <1>2, <1>3, LibraryInvariance, PTL DEF Spec, NothingIsForgotten, BootBringsForward, ReferencesSurvive

-----------------------------------------------------------------------------
(* What lies in a sequence of sequences laid end to end.                     *)

IsFlattening(stages, seqs) ==
    /\ stages[0] = <<>>
    /\ \A k \in 0 .. (Len(seqs) - 1) : stages[k + 1] = stages[k] \o seqs[k + 1]

\* The recursion of FlattenSeq is its stages, one for each sequence.
LEMMA FlattenByStages ==
  ASSUME NEW T, NEW seqs \in Seq(Seq(T))
  PROVE  \E stages : IsFlattening(stages, seqs) /\ FlattenSeq(seqs) = stages[Len(seqs)]
<1> DEFINE n == Len(seqs)
           Body(f, i) == IF i = 1 THEN seqs[i] ELSE f[i - 1] \o seqs[i]
           Solves(f, m) == \A i \in 1 .. n : i <= m => f[i] = Body(f, i)
           M == {m \in Nat : \E f : Solves(f, m)}
<1>1. n \in Nat
  OBVIOUS
<1>2. CASE n = 0
  <2> DEFINE none == [k \in 0 .. 0 |-> <<>>]
  <2>1. IsFlattening(none, seqs)
    BY <1>2 DEF IsFlattening
  <2>2. seqs = <<>>
    BY <1>2
  <2>3. FlattenSeq(seqs) = none[Len(seqs)]
    BY <2>2 DEF FlattenSeq
  <2> QED BY <2>1, <2>3
<1>3. CASE n # 0
  <2> HIDE DEF n
  <2>1. 0 \in M
    <3>1. Solves([i \in 1 .. n |-> <<>>], 0)
      OBVIOUS
    <3> HIDE DEF Solves
    <3> QED BY <3>1
  <2>2. ASSUME NEW m \in Nat, m \in M PROVE m + 1 \in M
    <3>1. PICK f : Solves(f, m)
      BY <2>2
    <3> DEFINE next == [i \in 1 .. n |-> Body(f, i)]
    <3>2. \A i \in 1 .. n : next[i] = Body(f, i)
      OBVIOUS
    <3> HIDE DEF next
    <3>3. Solves(next, m + 1)
      <4> SUFFICES ASSUME NEW i \in 1 .. n, i <= m + 1 PROVE next[i] = Body(next, i)
        OBVIOUS
      <4>1. CASE i = 1
        BY <4>1, <3>2
      <4>2. CASE i # 1
        <5>1. i - 1 \in 1 .. n /\ i - 1 <= m
          BY <4>2, <1>1
        <5>2. next[i - 1] = f[i - 1]
          BY <5>1, <3>1, <3>2
        <5>3. next[i] = f[i - 1] \o seqs[i]
          BY <4>2, <3>2
        <5> QED BY <4>2, <5>2, <5>3
      <4> QED BY <4>1, <4>2
    <3> HIDE DEF Solves
    <3> QED BY <3>3
  <2>3. PICK some : Solves(some, n)
    <3>1. Nat \subseteq M
      <4> HIDE DEF M
      <4> QED BY <2>1, <2>2, AllNumbers
    <3> HIDE DEF Solves
    <3> QED BY <3>1, <1>1
  <2> DEFINE flat == [i \in 1 .. n |-> some[i]]
             flatten == CHOOSE f : f = [i \in 1 .. n |-> Body(f, i)]
  <2>4. flat = [i \in 1 .. n |-> Body(flat, i)]
    <3>1. \A i \in 1 .. n : some[i] = Body(some, i)
      BY <2>3, <1>1
    <3>2. \A i \in 1 .. n : Body(some, i) = Body(flat, i)
      <4> SUFFICES ASSUME NEW i \in 1 .. n PROVE Body(some, i) = Body(flat, i)
        OBVIOUS
      <4>1. CASE i = 1
        BY <4>1
      <4>2. CASE i # 1
        <5>1. i - 1 \in 1 .. n
          BY <4>2, <1>1
        <5> QED BY <5>1
      <4> QED BY <4>1, <4>2
    <3> QED BY <3>1, <3>2
  <2>5. flatten = [i \in 1 .. n |-> Body(flatten, i)]
    <3> HIDE DEF flat, Body
    <3> QED BY <2>4
  <2>6. FlattenSeq(seqs) = flatten[n]
    BY <1>3 DEF FlattenSeq, n
  <2> HIDE DEF flatten
  <2> DEFINE stages == [k \in 0 .. n |-> IF k = 0 THEN <<>> ELSE flatten[k]]
  <2>7. stages[0] = <<>> /\ stages[n] = flatten[n]
    BY <1>1, <1>3
  <2>8. ASSUME NEW k \in 0 .. (n - 1) PROVE stages[k + 1] = stages[k] \o seqs[k + 1]
    <3>1. k + 1 \in 1 .. n /\ k \in 0 .. n /\ k + 1 \in 0 .. n
      BY <1>1
    <3>2. stages[k + 1] = Body(flatten, k + 1)
      <4>1. stages[k + 1] = flatten[k + 1]
        BY <3>1
      <4>2. flatten[k + 1] = Body(flatten, k + 1)
        <5> HIDE DEF Body, stages
        <5> QED BY <3>1, <2>5
      <4> QED BY <4>1, <4>2
    <3>3. CASE k = 0
      <4>1. seqs[k + 1] \in Seq(T)
        BY <3>1 DEF n
      <4> QED BY <3>1, <3>2, <3>3, <4>1
    <3>4. CASE k # 0
      <4>1. stages[k] = flatten[k]
        BY <3>1, <3>4
      <4>2. k + 1 # 1 /\ (k + 1) - 1 = k
        BY <3>1, <3>4
      <4> HIDE DEF stages
      <4> QED BY <3>2, <4>1, <4>2
    <3> QED BY <3>3, <3>4
  <2>9. IsFlattening(stages, seqs)
    <3> HIDE DEF stages
    <3> QED BY <2>7, <2>8 DEF IsFlattening, n
  <2> QED BY <2>6, <2>7, <2>9 DEF n
<1> QED BY <1>2, <1>3

\* Nothing laid end to end.
LEMMA FlattenNothing == FlattenSeq(<<>>) = <<>>
BY DEF FlattenSeq

\* One sequence more is laid behind the others.
LEMMA FlattenMore ==
  ASSUME NEW T, NEW n \in Nat, NEW seqs \in Seq(Seq(T)), Len(seqs) = n + 1,
         NEW front, front = [i \in 1 .. n |-> seqs[i]]
  PROVE  FlattenSeq(seqs) = FlattenSeq(front) \o seqs[n + 1]
<1>1. front \in Seq(Seq(T)) /\ Len(front) = n
  OBVIOUS
<1>2. PICK all : IsFlattening(all, seqs) /\ FlattenSeq(seqs) = all[Len(seqs)]
  BY FlattenByStages
<1>3. PICK most : IsFlattening(most, front) /\ FlattenSeq(front) = most[Len(front)]
  BY <1>1, FlattenByStages
<1> DEFINE U == {k \in Nat : k <= n => all[k] = most[k]}
<1>4. 0 \in U
  BY <1>2, <1>3 DEF IsFlattening
<1>5. ASSUME NEW k \in Nat, k \in U PROVE k + 1 \in U
  <2> SUFFICES ASSUME k + 1 <= n PROVE all[k + 1] = most[k + 1]
    OBVIOUS
  <2>1. k \in 0 .. (Len(seqs) - 1) /\ k \in 0 .. (Len(front) - 1) /\ front[k + 1] = seqs[k + 1]
    BY <1>1
  <2>2. all[k] = most[k]
    BY <1>5
  <2> QED BY <2>1, <2>2, <1>2, <1>3 DEF IsFlattening
<1>6. Nat \subseteq U
  <2> HIDE DEF U
  <2> QED BY <1>4, <1>5, AllNumbers
<1>7. all[n] = most[n]
  BY <1>6
<1>8. all[n + 1] = all[n] \o seqs[n + 1]
  <2>1. n \in 0 .. (Len(seqs) - 1)
    OBVIOUS
  <2> QED BY <2>1, <1>2 DEF IsFlattening
<1> QED BY <1>1, <1>2, <1>3, <1>7, <1>8

\* What is laid end to end is a sequence of the same things.
LEMMA FlattenIsSeq ==
  ASSUME NEW T, NEW seqs \in Seq(Seq(T))
  PROVE  FlattenSeq(seqs) \in Seq(T)
<1>1. PICK stages : IsFlattening(stages, seqs) /\ FlattenSeq(seqs) = stages[Len(seqs)]
  BY FlattenByStages
<1> DEFINE U == {k \in Nat : k <= Len(seqs) => stages[k] \in Seq(T)}
<1>2. 0 \in U
  <2>1. stages[0] = <<>> /\ <<>> \in Seq(T)
    BY <1>1 DEF IsFlattening
  <2> QED BY <2>1
<1>3. ASSUME NEW k \in Nat, k \in U PROVE k + 1 \in U
  <2> SUFFICES ASSUME k + 1 <= Len(seqs) PROVE stages[k + 1] \in Seq(T)
    OBVIOUS
  <2>1. k \in 0 .. (Len(seqs) - 1) /\ seqs[k + 1] \in Seq(T) /\ stages[k] \in Seq(T)
    BY <1>3
  <2>2. stages[k + 1] = stages[k] \o seqs[k + 1]
    BY <2>1, <1>1 DEF IsFlattening
  <2> QED BY <2>1, <2>2
<1>4. Nat \subseteq U
  <2> HIDE DEF U
  <2> QED BY <1>2, <1>3, AllNumbers
<1> QED BY <1>1, <1>4

-----------------------------------------------------------------------------
(* What a unit is written as, and units one after the other.                 *)

\* A bare record is one frame.
LEMMA BareUnit ==
  ASSUME NEW u \in Unit, ~u.batch
  PROVE  /\ u.recs \in Seq(Cells) /\ Len(u.recs) = 1
         /\ Encode(u) = <<CellFrame(u.recs[1])>> /\ Encode(u) \in Seq(Frame)
<1>1. PICK c \in Cells : u = Bare(c)
  BY DEF Unit, Batch
<1>2. u.recs = <<c>>
  BY <1>1 DEF Bare
<1>3. Encode(u) = <<CellFrame(c)>>
  BY <1>2 DEF Encode, CellFrames
<1> QED BY <1>2, <1>3 DEF Frame

\* A batch is its records between a begin and an end frame.
LEMMA BatchUnit ==
  ASSUME NEW u \in Unit, u.batch
  PROVE  /\ u.recs \in Seq(Cells) /\ Len(u.recs) \in Nat /\ Encode(u) \in Seq(Frame)
         /\ Len(Encode(u)) = Len(u.recs) + 2
         /\ Encode(u)[1] = Begin /\ Encode(u)[Len(u.recs) + 2] = End
         /\ \A j \in 1 .. Len(u.recs) : Encode(u)[j + 1] = CellFrame(u.recs[j])
<1>1. PICK cs \in BoundedSeq(Cells, MaxBatch) : u = Batch(cs)
  BY DEF Unit, Bare
<1>2. u.recs = cs
  BY <1>1 DEF Batch
<1>3. cs \in Seq(Cells) /\ Len(cs) \in Nat
  <2>1. PICK m \in 0 .. MaxBatch : cs \in [1 .. m -> Cells]
    BY DEF BoundedSeq, SeqOf
  <2> QED BY <2>1, MaxFramesAssumption
<1> DEFINE mid == CellFrames(cs)
<1>4. mid \in Seq(Frame) /\ Len(mid) = Len(cs) /\ \A j \in 1 .. Len(cs) : mid[j] = CellFrame(cs[j])
  BY <1>3 DEF CellFrames, Frame
<1>5. Encode(u) = <<Begin>> \o mid \o <<End>>
  BY <1>2 DEF Encode
<1>6. <<Begin>> \in Seq(Frame) /\ <<End>> \in Seq(Frame)
  BY DEF Frame
<1> HIDE DEF mid
<1> QED BY <1>2, <1>3, <1>4, <1>5, <1>6

\* append_wal writes no damaged frame, and never nothing.
LEMMA NoneBad ==
  ASSUME NEW u \in Unit
  PROVE  /\ Encode(u) \in Seq(Frame) /\ Len(Encode(u)) \in Nat \ {0}
         /\ u.recs \in Seq(Cells)
         /\ \A j \in 1 .. Len(Encode(u)) : Encode(u)[j] # Bad
<1>1. CASE ~u.batch
  BY <1>1, BareUnit DEF Bad, CellFrame
<1>2. CASE u.batch
  <2>1. Len(Encode(u)) = Len(u.recs) + 2 /\ Len(u.recs) \in Nat
    BY <1>2, BatchUnit
  <2>2. ASSUME NEW j \in 1 .. Len(Encode(u)) PROVE Encode(u)[j] # Bad
    <3>1. CASE j = 1
      BY <3>1, <1>2, BatchUnit DEF Bad, Begin
    <3>2. CASE j = Len(u.recs) + 2
      BY <3>2, <1>2, BatchUnit DEF Bad, End
    <3>3. CASE j # 1 /\ j # Len(u.recs) + 2
      <4>1. j - 1 \in 1 .. Len(u.recs) /\ (j - 1) + 1 = j
        BY <2>1, <3>3
      <4>2. Encode(u)[j] = CellFrame(u.recs[j - 1])
        BY <1>2, <4>1, BatchUnit
      <4> QED BY <4>2 DEF Bad, CellFrame
    <3> QED BY <3>1, <3>2, <3>3
  <2> QED BY <1>2, <2>1, <2>2, BatchUnit
<1>3. u.batch \in BOOLEAN
  <2>1. \A c : Bare(c).batch = FALSE /\ Batch(c).batch = TRUE
    BY DEF Bare, Batch
  <2> QED BY <2>1 DEF Unit
<1> QED BY <1>1, <1>2, <1>3

\* The first n units as they are in the file, and how far they reach.
Enc(us, n) == FlattenSeq([i \in 1 .. n |-> Encode(us[i])])
Off(us, n) == Len(Enc(us, n))

\* The units written are frames.
LEMMA EncIs ==
  ASSUME NEW us \in Seq(Unit), NEW n \in 0 .. Len(us)
  PROVE  Enc(us, n) \in Seq(Frame) /\ Off(us, n) \in Nat
<1>1. [i \in 1 .. n |-> Encode(us[i])] \in Seq(Seq(Frame))
  <2>1. \A i \in 1 .. n : Encode(us[i]) \in Seq(Frame)
    BY NoneBad
  <2> QED BY <2>1
<1>2. Enc(us, n) \in Seq(Frame)
  BY <1>1, FlattenIsSeq DEF Enc
<1> QED BY <1>2 DEF Off

\* No unit, no frame.
LEMMA EncNone ==
  ASSUME NEW us
  PROVE  Enc(us, 0) = <<>> /\ Off(us, 0) = 0
<1>1. [i \in 1 .. 0 |-> Encode(us[i])] = <<>>
  OBVIOUS
<1> QED BY <1>1, FlattenNothing DEF Enc, Off

\* One more unit is written behind those in front of it.
LEMMA EncMore ==
  ASSUME NEW us \in Seq(Unit), NEW n \in 0 .. (Len(us) - 1)
  PROVE  /\ Enc(us, n + 1) = Enc(us, n) \o Encode(us[n + 1])
         /\ Off(us, n + 1) = Off(us, n) + Len(Encode(us[n + 1]))
<1> DEFINE all == [i \in 1 .. (n + 1) |-> Encode(us[i])]
           most == [i \in 1 .. n |-> Encode(us[i])]
<1>1. all \in Seq(Seq(Frame)) /\ Len(all) = n + 1
  <2>1. \A i \in 1 .. (n + 1) : Encode(us[i]) \in Seq(Frame)
    BY NoneBad
  <2> QED BY <2>1
<1>2. most = [i \in 1 .. n |-> all[i]] /\ all[n + 1] = Encode(us[n + 1]) /\ n \in Nat
  OBVIOUS
<1>3. Enc(us, n + 1) = FlattenSeq(all) /\ Enc(us, n) = FlattenSeq(most)
  BY DEF Enc
<1>4. Enc(us, n + 1) = Enc(us, n) \o Encode(us[n + 1])
  <2> HIDE DEF all, most
  <2> QED BY <1>1, <1>2, <1>3, FlattenMore
<1>5. Enc(us, n) \in Seq(Frame) /\ Encode(us[n + 1]) \in Seq(Frame)
  BY EncIs, NoneBad
<1> QED BY <1>4, <1>5 DEF Off

\* More units reach further, and leave what is in front of them as it is.
LEMMA EncGrows ==
  ASSUME NEW us \in Seq(Unit), NEW m \in Nat, NEW n \in 0 .. Len(us), m <= n
  PROVE  /\ Off(us, m) <= Off(us, n) /\ (m < n => Off(us, m) < Off(us, n))
         /\ \A i \in 1 .. Off(us, m) : Enc(us, n)[i] = Enc(us, m)[i]
<1> DEFINE Good(k) ==
              /\ Off(us, m) <= Off(us, m + k) /\ (0 < k => Off(us, m) < Off(us, m + k))
              /\ \A i \in 1 .. Off(us, m) : Enc(us, m + k)[i] = Enc(us, m)[i]
           U == {k \in Nat : m + k <= Len(us) => Good(k)}
<1>1. 0 \in U
  <2>1. Off(us, m) \in Nat
    BY EncIs
  <2> QED BY <2>1
<1>2. ASSUME NEW k \in Nat, k \in U PROVE k + 1 \in U
  <2> SUFFICES ASSUME m + (k + 1) <= Len(us) PROVE Good(k + 1)
    OBVIOUS
  <2>1. m + k \in 0 .. (Len(us) - 1) /\ m + k \in 0 .. Len(us) /\ (m + k) + 1 = m + (k + 1) /\ m \in 0 .. Len(us)
    OBVIOUS
  <2>2. Enc(us, m + (k + 1)) = Enc(us, m + k) \o Encode(us[m + k + 1])
        /\ Off(us, m + (k + 1)) = Off(us, m + k) + Len(Encode(us[m + k + 1]))
    BY <2>1, EncMore
  <2>3. Len(Encode(us[m + k + 1])) \in Nat \ {0} /\ Encode(us[m + k + 1]) \in Seq(Frame)
    BY SMTT(30), <2>1, NoneBad
  <2>4. Enc(us, m + k) \in Seq(Frame) /\ Off(us, m + k) \in Nat /\ Off(us, m) \in Nat
    BY <2>1, EncIs
  <2>5. Good(k)
    BY <1>2
  <2>6. \A i \in 1 .. Off(us, m + k) : Enc(us, m + (k + 1))[i] = Enc(us, m + k)[i]
    BY <2>2, <2>3, <2>4 DEF Off
  <2>7. \A i \in 1 .. Off(us, m) : Enc(us, m + (k + 1))[i] = Enc(us, m)[i]
    <3> HIDE DEF Enc, Off
    <3> QED BY <2>4, <2>5, <2>6
  <2>8. Off(us, m) <= Off(us, m + (k + 1)) /\ Off(us, m) < Off(us, m + (k + 1))
    BY <2>2, <2>3, <2>4, <2>5
  <2> QED BY <2>7, <2>8
<1>3. Nat \subseteq U
  <2> HIDE DEF U
  <2> QED BY <1>1, <1>2, AllNumbers
<1> HIDE DEF Good
<1>4. PICK k \in Nat : m + k = n /\ (m < n => 0 < k)
  <2>1. n - m \in Nat /\ m + (n - m) = n /\ (m < n => 0 < n - m)
    OBVIOUS
  <2> QED BY <2>1
<1>5. Good(k)
  BY <1>3, <1>4
<1> QED BY <1>4, <1>5 DEF Good

\* The frames of one unit among those of others.
LEMMA EncAt ==
  ASSUME NEW us \in Seq(Unit), NEW m \in 0 .. (Len(us) - 1), NEW n \in 0 .. Len(us), m < n,
         NEW j \in 1 .. Len(Encode(us[m + 1]))
  PROVE  Enc(us, n)[Off(us, m) + j] = Encode(us[m + 1])[j]
<1>1. m + 1 \in Nat /\ m + 1 <= n /\ m \in 0 .. Len(us) /\ m + 1 \in 1 .. Len(us)
  OBVIOUS
<1>2. Enc(us, m + 1) = Enc(us, m) \o Encode(us[m + 1])
      /\ Off(us, m + 1) = Off(us, m) + Len(Encode(us[m + 1]))
  BY EncMore
<1>3. Enc(us, m) \in Seq(Frame) /\ Off(us, m) \in Nat /\ Encode(us[m + 1]) \in Seq(Frame)
  BY SMTT(30), <1>1, EncIs, NoneBad
<1>4. Enc(us, m + 1)[Off(us, m) + j] = Encode(us[m + 1])[j]
  BY <1>2, <1>3 DEF Off
<1>5. Off(us, m) + j \in 1 .. Off(us, m + 1)
  BY <1>2, <1>3
<1> QED BY <1>1, <1>4, <1>5, EncGrows

\* The same units are the same frames.
LEMMA EncSame ==
  ASSUME NEW us, NEW vs, NEW n \in Nat, \A i \in 1 .. n : us[i] = vs[i]
  PROVE  Enc(us, n) = Enc(vs, n) /\ Off(us, n) = Off(vs, n)
<1>1. [i \in 1 .. n |-> Encode(us[i])] = [i \in 1 .. n |-> Encode(vs[i])]
  OBVIOUS
<1> QED BY <1>1 DEF Enc, Off

\* The number of units that fit is the number that fit whole.
LEMMA UnitsInIs ==
  ASSUME NEW us \in Seq(Unit), NEW q \in Nat
  PROVE  /\ UnitsIn(us, q) \in 0 .. Len(us)
         /\ Off(us, UnitsIn(us, q)) <= q
         /\ \A n \in 0 .. Len(us) : Off(us, n) <= q => n <= UnitsIn(us, q)
<1> DEFINE S == {k \in 0 .. Len(us) : Off(us, k) <= q}
<1>1. UnitsIn(us, q) = Max(S)
  BY DEF UnitsIn, Off, Enc
<1>2. 0 \in S /\ S \in SUBSET (0 .. Len(us)) /\ Len(us) \in Nat
  BY EncNone
<1>3. Max(S) \in S /\ \A x \in S : Max(S) >= x
  <2> HIDE DEF S
  <2> QED BY <1>2, GreatestNumber
<1> QED BY <1>1, <1>3

\* Every position in front of the end is in one unit.
LEMMA UnitAfter ==
  ASSUME NEW us \in Seq(Unit), NEW q \in Nat, UnitsIn(us, q) < Len(us)
  PROVE  q < Off(us, UnitsIn(us, q) + 1)
<1>1. UnitsIn(us, q) \in 0 .. Len(us)
  BY UnitsInIs
<1>2. UnitsIn(us, q) + 1 \in 0 .. Len(us)
  BY <1>1
<1>3. Off(us, UnitsIn(us, q) + 1) \in Nat
  BY <1>2, EncIs
<1>4. ~(Off(us, UnitsIn(us, q) + 1) <= q)
  <2>1. \A n \in 0 .. Len(us) : Off(us, n) <= q => n <= UnitsIn(us, q)
    BY UnitsInIs
  <2> QED BY <2>1, <1>1, <1>2
<1> QED BY <1>3, <1>4

(* The records of the first n units.                                         *)
Recs(us, n) == Records(SubSeq(us, 1, n))

LEMMA RecsNone ==
  ASSUME NEW us \in Seq(Unit)
  PROVE  Recs(us, 0) = <<>>
<1>1. SubSeq(us, 1, 0) = <<>>
  OBVIOUS
<1>2. [i \in DOMAIN SubSeq(us, 1, 0) |-> SubSeq(us, 1, 0)[i].recs] = <<>>
  BY <1>1
<1> QED BY <1>2, FlattenNothing DEF Recs, Records

\* One more unit adds its records.
LEMMA RecsMore ==
  ASSUME NEW us \in Seq(Unit), NEW n \in 0 .. (Len(us) - 1)
  PROVE  Recs(us, n + 1) = Recs(us, n) \o us[n + 1].recs
<1> DEFINE all == [i \in DOMAIN SubSeq(us, 1, n + 1) |-> SubSeq(us, 1, n + 1)[i].recs]
           most == [i \in DOMAIN SubSeq(us, 1, n) |-> SubSeq(us, 1, n)[i].recs]
<1>1. all = [i \in 1 .. (n + 1) |-> us[i].recs] /\ most = [i \in 1 .. n |-> us[i].recs]
  OBVIOUS
<1>2. \A i \in 1 .. (n + 1) : us[i].recs \in Seq(Cells)
  BY NoneBad
<1>3. Recs(us, n + 1) = FlattenSeq(all) /\ Recs(us, n) = FlattenSeq(most)
  BY DEF Recs, Records
<1> HIDE DEF all, most
<1>4. all \in Seq(Seq(Cells)) /\ Len(all) = n + 1 /\ all[n + 1] = us[n + 1].recs
  BY <1>1, <1>2
<1>5. most = [i \in 1 .. n |-> all[i]] /\ n \in Nat
  BY <1>1
<1> QED BY <1>3, <1>4, <1>5, FlattenMore

LEMMA RecsIs ==
  ASSUME NEW us \in Seq(Unit), NEW n \in 0 .. Len(us)
  PROVE  Recs(us, n) \in Seq(Cells)
<1> DEFINE most == [i \in DOMAIN SubSeq(us, 1, n) |-> SubSeq(us, 1, n)[i].recs]
<1>1. most = [i \in 1 .. n |-> us[i].recs]
  OBVIOUS
<1>2. \A i \in 1 .. n : us[i].recs \in Seq(Cells)
  BY NoneBad
<1>3. Recs(us, n) = FlattenSeq(most)
  BY DEF Recs, Records
<1> HIDE DEF most
<1>4. most \in Seq(Seq(Cells))
  BY <1>1, <1>2
<1> QED BY <1>3, <1>4, FlattenIsSeq

-----------------------------------------------------------------------------
(* The scan.                                                                 *)

IsScan(stages, file) ==
    /\ stages[0] = ScanStart
    /\ \A k \in 0 .. (Len(file) - 1) : stages[k + 1] = ScanFrame(stages[k], file[k + 1])

\* The fold over the file is its stages, one for each frame.
LEMMA ScanByStages ==
  ASSUME NEW file \in Seq(Frame)
  PROVE  \E stages : IsScan(stages, file)
                     /\ Scan(file) = stages[Len(file)]
<1> DEFINE n == Len(file)
           D == DOMAIN file
           Body(it, s) == IF s = {} THEN ScanStart ELSE ScanFrame(it[s \ {Max(s)}], file[Max(s)])
           Solves(it, m) == \A s \in SUBSET D : Cardinality(s) <= m => it[s] = Body(it, s)
           M == {m \in Nat : \E it : Solves(it, m)}
<1>1. n \in Nat /\ D = 1 .. n /\ IsFiniteSet(D) /\ Cardinality(D) = n
  <2>1. n \in Nat /\ D = 1 .. n
    OBVIOUS
  <2> HIDE DEF n, D
  <2>3. IsFiniteSet(1 .. n) /\ Cardinality(1 .. n) = IF 1 > n THEN 0 ELSE n - 1 + 1
    BY <2>1, FS_Interval
  <2> QED BY <2>1, <2>3
<1>2. \A s \in SUBSET D : s # {} => Max(s) \in s
  <2> SUFFICES ASSUME NEW s \in SUBSET D, s # {} PROVE Max(s) \in s
    OBVIOUS
  <2>1. s \in SUBSET (0 .. n)
    BY <1>1
  <2> QED BY <1>1, <2>1, GreatestNumber
<1>3. \A s \in SUBSET D : IsFiniteSet(s) /\ Cardinality(s) \in Nat /\ Cardinality(s) <= n
                          /\ (Cardinality(s) = 0 => s = {})
  <2> HIDE DEF D, n
  <2> SUFFICES ASSUME NEW s \in SUBSET D
               PROVE  IsFiniteSet(s) /\ Cardinality(s) \in Nat /\ Cardinality(s) <= n
                      /\ (Cardinality(s) = 0 => s = {})
    OBVIOUS
  <2>1. IsFiniteSet(s) /\ Cardinality(s) <= n
    BY <1>1, FS_Subset
  <2>2. Cardinality(s) \in Nat
    BY <2>1, FS_CardinalityType
  <2> QED BY <2>1, <2>2, FS_EmptySet
<1>4. \A s \in SUBSET D : s # {} => Cardinality(s \ {Max(s)}) = Cardinality(s) - 1
  <2> HIDE DEF D, n
  <2> QED BY <1>2, <1>3, FS_RemoveElement
<1> HIDE DEF D, n
<1>5. 0 \in M
  <2> DEFINE it == [s \in SUBSET D |-> ScanStart]
  <2>1. Solves(it, 0)
    <3> SUFFICES ASSUME NEW s \in SUBSET D, Cardinality(s) <= 0 PROVE it[s] = Body(it, s)
      OBVIOUS
    <3>1. s = {}
      BY <1>3
    <3> QED BY <3>1
  <2> HIDE DEF it, Solves
  <2> QED BY <2>1
<1>6. ASSUME NEW m \in Nat, m \in M PROVE m + 1 \in M
  <2>1. PICK it : Solves(it, m)
    BY <1>6
  <2> DEFINE next == [s \in SUBSET D |-> Body(it, s)]
  <2>2. \A s \in SUBSET D : next[s] = Body(it, s)
    OBVIOUS
  <2> HIDE DEF next
  <2>3. Solves(next, m + 1)
    <3> SUFFICES ASSUME NEW s \in SUBSET D, Cardinality(s) <= m + 1 PROVE next[s] = Body(next, s)
      OBVIOUS
    <3>1. CASE s = {}
      BY <3>1, <2>2
    <3>2. CASE s # {}
      <4> DEFINE t == s \ {Max(s)}
      <4>1. t \in SUBSET D /\ Cardinality(t) <= m
        BY <3>2, <1>3, <1>4
      <4>2. it[t] = Body(it, t)
        BY <4>1, <2>1
      <4>3. next[t] = it[t]
        BY <4>1, <4>2, <2>2
      <4>4. next[s] = ScanFrame(it[t], file[Max(s)])
        BY <3>2, <2>2
      <4> QED BY <3>2, <4>3, <4>4
    <3> QED BY <3>1, <3>2
  <2> HIDE DEF Solves
  <2> QED BY <2>3
<1>7. PICK some : Solves(some, n)
  <2>1. Nat \subseteq M
    <3> HIDE DEF M
    <3> QED BY <1>5, <1>6, AllNumbers
  <2> HIDE DEF Solves
  <2> QED BY <2>1, <1>1
<1> DEFINE fold == [s \in SUBSET D |-> some[s]]
           iter == CHOOSE it : it = [s \in SUBSET D |-> Body(it, s)]
<1>8. fold = [s \in SUBSET D |-> Body(fold, s)]
  <2>1. \A s \in SUBSET D : some[s] = Body(some, s)
    BY <1>3, <1>7
  <2>2. \A s \in SUBSET D : Body(some, s) = Body(fold, s)
    OBVIOUS
  <2> QED BY <2>1, <2>2
<1>9. iter = [s \in SUBSET D |-> Body(iter, s)]
  <2> HIDE DEF fold, Body
  <2> QED BY <1>8
<1>10. Scan(file) = iter[D]
  BY DEF Scan, FoldLeft, MapThenFoldSet, D
<1> HIDE DEF iter
<1>11. iter[{}] = ScanStart
  BY <1>9
<1>12. ASSUME NEW k \in 0 .. (n - 1)
       PROVE  iter[1 .. (k + 1)] = ScanFrame(iter[1 .. k], file[k + 1])
  <2> DEFINE s == 1 .. (k + 1)
  <2>1. k \in Nat /\ s \in SUBSET D /\ s # {} /\ s \in SUBSET (0 .. n)
    <3>1. k \in Nat /\ k + 1 \in s /\ k + 1 <= n
      BY <1>1
    <3>2. s \subseteq 1 .. n
      BY <1>1, <3>1
    <3>3. 1 .. n \subseteq 0 .. n
      BY <1>1
    <3> QED BY <1>1, <3>1, <3>2, <3>3
  <2>2. Max(s) = k + 1
    <3>1. Max(s) \in s /\ \A x \in s : Max(s) >= x
      <4> HIDE DEF s
      <4> QED BY <1>1, <2>1, GreatestNumber
    <3> QED BY <2>1, <3>1
  <2>3. s \ {k + 1} = 1 .. k
    BY <2>1
  <2> HIDE DEF s
  <2>4. iter[s] = Body(iter, s)
    <3> HIDE DEF Body
    <3> QED BY <1>9, <2>1
  <2> QED BY <2>1, <2>2, <2>3, <2>4 DEF s
<1> DEFINE stages == [k \in 0 .. n |-> iter[1 .. k]]
<1>13. 1 .. 0 = {}
  OBVIOUS
<1>14. IsScan(stages, file)
  <2>1. stages[0] = ScanStart
    BY <1>1, <1>11, <1>13
  <2>2. \A k \in 0 .. (n - 1) : stages[k + 1] = ScanFrame(stages[k], file[k + 1])
    BY <1>1, <1>12
  <2> HIDE DEF stages
  <2> QED BY <2>1, <2>2 DEF IsScan, n
<1>15. Scan(file) = stages[n]
  BY <1>1, <1>10
<1> QED BY <1>14, <1>15 DEF n


\* The scan within a good part: r, b, g and p are what it has so far.
So(r, b, g, p) == [records |-> r, batch |-> b, good |-> g, pos |-> p, broken |-> FALSE]

LEMMA ScanBegin ==
  ASSUME NEW r, NEW b, NEW g, NEW p
  PROVE  ScanFrame(So(r, b, g, p), Begin) = So(r, [open |-> TRUE, recs |-> <<>>], g, p + 1)
BY DEF ScanFrame, So, Begin

LEMMA ScanEnd ==
  ASSUME NEW r, NEW cs, NEW g, NEW p
  PROVE  ScanFrame(So(r, [open |-> TRUE, recs |-> cs], g, p), End) = So(r \o cs, NoBatch, p + 1, p + 1)
BY DEF ScanFrame, So, End, NoBatch

LEMMA ScanBare ==
  ASSUME NEW r, NEW g, NEW p, NEW c
  PROVE  ScanFrame(So(r, NoBatch, g, p), CellFrame(c)) = So(Append(r, c), NoBatch, p + 1, p + 1)
BY DEF ScanFrame, So, CellFrame, NoBatch

LEMMA ScanBatched ==
  ASSUME NEW r, NEW cs, NEW g, NEW p, NEW c
  PROVE  ScanFrame(So(r, [open |-> TRUE, recs |-> cs], g, p), CellFrame(c))
           = So(r, [open |-> TRUE, recs |-> Append(cs, c)], g, p + 1)
BY DEF ScanFrame, So, CellFrame

\* Where the scan stands after k frames when n units are whole: the records of
\* these, and those of the batch that is open.
InBatch(us, n, k) ==
    IF k = Off(us, n) THEN NoBatch
    ELSE [open |-> TRUE, recs |-> SubSeq(us[n + 1].recs, 1, k - Off(us, n) - 1)]
Mid(us, n, k) == So(Recs(us, n), InBatch(us, n, k), Off(us, n), k)

\* One round of the scan inside unit n + 1: it stays in the unit, or ends it and
\* delivers its records (replay holds the records of an open batch back).
LEMMA ScanInUnit ==
  ASSUME NEW us \in Seq(Unit), NEW n \in 0 .. (Len(us) - 1),
         NEW k \in Nat, Off(us, n) <= k, k < Off(us, n + 1)
  PROVE  ScanFrame(Mid(us, n, k), Encode(us[n + 1])[k + 1 - Off(us, n)])
           = IF k + 1 = Off(us, n + 1) THEN Mid(us, n + 1, k + 1) ELSE Mid(us, n, k + 1)
<1> DEFINE u == us[n + 1]
           next == ScanFrame(Mid(us, n, k), Encode(u)[k + 1 - Off(us, n)])
<1>1. u \in Unit /\ n \in 0 .. Len(us) /\ n + 1 \in 0 .. Len(us)
  OBVIOUS
<1>2. Off(us, n) \in Nat /\ Off(us, n + 1) = Off(us, n) + Len(Encode(u))
  BY <1>1, EncIs, EncMore
<1>3. Recs(us, n + 1) = Recs(us, n) \o u.recs /\ Recs(us, n) \in Seq(Cells)
  BY <1>1, RecsMore, RecsIs
<1>4. PICK o : o = Off(us, n)
  OBVIOUS
<1>5. PICK r : r = Recs(us, n)
  OBVIOUS
<1> HIDE DEF u
<1>6. CASE ~u.batch
  <2>1. u.recs \in Seq(Cells) /\ Len(u.recs) = 1 /\ Encode(u) = <<CellFrame(u.recs[1])>>
    BY <1>1, <1>6, BareUnit
  <2>2. k = o /\ k + 1 = Off(us, n + 1)
    BY <1>2, <1>4, <2>1
  <2>3. Encode(u)[k + 1 - Off(us, n)] = CellFrame(u.recs[1])
    BY <1>2, <1>4, <2>1, <2>2
  <2>4. Mid(us, n, k) = So(r, NoBatch, o, k)
    BY <2>2, <1>4, <1>5 DEF Mid, InBatch
  <2>5. Mid(us, n + 1, k + 1) = So(r \o u.recs, NoBatch, k + 1, k + 1)
    BY <2>2, <1>3, <1>5 DEF Mid, InBatch
  <2>6. r \o u.recs = Append(r, u.recs[1])
    <3>1. PICK c \in Cells : u.recs = <<c>>
      BY <2>1
    <3>2. r \in Seq(Cells)
      BY <1>3, <1>5
    <3> QED BY <3>1, <3>2
  <2> QED BY <2>2, <2>3, <2>4, <2>5, <2>6, ScanBare DEF u
<1>7. CASE u.batch
  <2>1. /\ u.recs \in Seq(Cells) /\ Len(u.recs) \in Nat /\ Len(Encode(u)) = Len(u.recs) + 2
        /\ Encode(u)[1] = Begin /\ Encode(u)[Len(u.recs) + 2] = End
        /\ \A j \in 1 .. Len(u.recs) : Encode(u)[j + 1] = CellFrame(u.recs[j])
    BY <1>1, <1>7, BatchUnit
  <2>2. PICK j \in Nat : k = o + j /\ j <= Len(u.recs) + 1
    <3>1. k - o \in Nat /\ k = o + (k - o) /\ k - o <= Len(u.recs) + 1
      BY SMTT(30), <1>2, <1>4, <2>1
    <3> QED BY <3>1
  <2>3. k + 1 - o = j + 1 /\ o \in Nat
    BY <2>2, <1>2, <1>4
  <2> DEFINE part(i) == SubSeq(u.recs, 1, i)
  <2>4. j # 0 => InBatch(us, n, k) = [open |-> TRUE, recs |-> part(j - 1)]
    <3>1. j # 0 => k # o
      BY <2>2, <2>3
    <3>2. k - o - 1 = j - 1
      BY <2>2, <2>3
    <3> QED BY <3>1, <3>2, <1>4 DEF InBatch, u
  <2>5. InBatch(us, n, k + 1) = [open |-> TRUE, recs |-> part(j)]
    <3>1. k + 1 # Off(us, n) /\ (k + 1) - Off(us, n) - 1 = j
      <4>1. k + 1 # o /\ (k + 1) - o - 1 = j
        BY <2>2, <2>3
      <4> QED BY ONLY <4>1, <1>4
    <3>2. InBatch(us, n, k + 1) = [open |-> TRUE, recs |-> SubSeq(us[n + 1].recs, 1, (k + 1) - Off(us, n) - 1)]
      BY ONLY <3>1 DEF InBatch
    <3> QED BY ONLY <3>1, <3>2 DEF u
  <2>6. CASE j = 0
    <3>1. Mid(us, n, k) = So(r, NoBatch, o, k)
      BY <2>2, <2>3, <2>6, <1>4, <1>5 DEF Mid, InBatch
    <3>2. part(0) = <<>>
      BY <2>1
    <3>3. Mid(us, n, k + 1) = So(r, [open |-> TRUE, recs |-> <<>>], o, k + 1)
      BY <2>5, <2>6, <3>2, <1>4, <1>5 DEF Mid
    <3>4. Encode(u)[k + 1 - Off(us, n)] = Begin /\ k + 1 # Off(us, n + 1)
      BY SMTT(30), <2>1, <2>2, <2>3, <2>6, <1>2, <1>4
    <3> QED BY <3>1, <3>3, <3>4, ScanBegin DEF u
  <2>7. CASE j \in 1 .. Len(u.recs)
    <3>1. Mid(us, n, k) = So(r, [open |-> TRUE, recs |-> part(j - 1)], o, k)
      <4>1. j # 0
        BY <2>7
      <4> QED BY <4>1, <2>4, <1>4, <1>5 DEF Mid
    <3>2. part(j) = Append(part(j - 1), u.recs[j])
      <4>1. PICK rs \in Seq(Cells) : rs = u.recs
        BY <2>1
      <4>2. j \in 1 .. Len(rs)
        BY <4>1, <2>7
      <4>3. SubSeq(rs, 1, j) = Append(SubSeq(rs, 1, j - 1), rs[j])
        BY ONLY <4>2, SMTT(30)
      <4> QED BY ONLY <4>1, <4>3
    <3>3. Mid(us, n, k + 1) = So(r, [open |-> TRUE, recs |-> part(j)], o, k + 1)
      BY <2>5, <1>4, <1>5 DEF Mid
    <3>4. Encode(u)[k + 1 - Off(us, n)] = CellFrame(u.recs[j]) /\ k + 1 # Off(us, n + 1)
      <4>1. Encode(u)[j + 1] = CellFrame(u.recs[j])
        BY <2>1, <2>7
      <4>2. k + 1 # o + (Len(u.recs) + 2)
        BY <2>1, <2>2, <2>3, <2>7
      <4> QED BY <4>1, <4>2, <2>1, <2>3, <1>2, <1>4
    <3> HIDE DEF part
    <3>5. ScanFrame(Mid(us, n, k), CellFrame(u.recs[j])) = Mid(us, n, k + 1)
      <4>1. ScanFrame(So(r, [open |-> TRUE, recs |-> part(j - 1)], o, k), CellFrame(u.recs[j]))
              = So(r, [open |-> TRUE, recs |-> Append(part(j - 1), u.recs[j])], o, k + 1)
        BY ScanBatched
      <4> QED BY ONLY <4>1, <3>1, <3>2, <3>3
    <3> QED BY <3>4, <3>5 DEF u
  <2>8. CASE j = Len(u.recs) + 1
    <3>1. part(j - 1) = u.recs
      BY <2>1, <2>8
    <3>2. Mid(us, n, k) = So(r, [open |-> TRUE, recs |-> u.recs], o, k)
      <4>1. j # 0
        BY <2>1, <2>8
      <4> QED BY <4>1, <2>4, <3>1, <1>4, <1>5 DEF Mid
    <3>3. Encode(u)[k + 1 - Off(us, n)] = End /\ k + 1 = Off(us, n + 1)
      <4>1. PICK l \in Nat : l = Len(u.recs)
        BY <2>1
      <4>2. k + 1 - o = l + 2 /\ k + 1 = o + (l + 2)
        BY ONLY <4>1, <2>2, <2>3, <2>8, k \in Nat
      <4>3. Off(us, n + 1) = o + (l + 2)
        BY <4>1, <2>1, <1>2, <1>4
      <4> QED BY ONLY <4>1, <4>2, <4>3, <2>1, <1>4
    <3>4. Mid(us, n + 1, k + 1) = So(r \o u.recs, NoBatch, k + 1, k + 1)
      BY <3>3, <1>3, <1>5 DEF Mid, InBatch
    <3>5. ScanFrame(Mid(us, n, k), End) = Mid(us, n + 1, k + 1)
      BY <3>2, <3>4, ScanEnd
    <3> QED BY <3>3, <3>5 DEF u
  <2>9. j = 0 \/ j \in 1 .. Len(u.recs) \/ j = Len(u.recs) + 1
    BY <2>1, <2>2
  <2> QED BY <2>9, <2>6, <2>7, <2>8
<1>8. u.batch \in BOOLEAN
  <2>1. \A c : Bare(c).batch = FALSE /\ Batch(c).batch = TRUE
    BY DEF Bare, Batch
  <2> QED BY <1>1, <2>1 DEF Unit
<1> QED BY <1>6, <1>7, <1>8

\* Between two unit boundaries, the number of whole units is known.
LEMMA UnitsInAt ==
  ASSUME NEW us \in Seq(Unit), NEW q \in Nat, NEW n \in 0 .. Len(us),
         Off(us, n) <= q, n < Len(us) => q < Off(us, n + 1)
  PROVE  UnitsIn(us, q) = n
<1>1. PICK m : m = UnitsIn(us, q)
  OBVIOUS
<1>2. m \in 0 .. Len(us) /\ Off(us, m) <= q /\ n <= m
  BY <1>1, UnitsInIs
<1>3. ~(n < m)
  <2> SUFFICES ASSUME n < m PROVE FALSE
    OBVIOUS
  <2>1. n + 1 \in Nat /\ n + 1 <= m /\ n < Len(us) /\ n + 1 \in 0 .. Len(us)
    BY <1>2
  <2>2. Off(us, n + 1) <= Off(us, m)
    BY <1>2, <2>1, EncGrows
  <2>3. Off(us, m) \in Nat /\ Off(us, n + 1) \in Nat
    BY <1>2, <2>1, EncIs
  <2> QED BY <1>2, <2>1, <2>2, <2>3
<1> QED BY <1>1, <1>2, <1>3

\* A file that holds the first q frames of the units, and then either ends or
\* has a frame that is not intact.
Intact(file, us, q) ==
    /\ q \in 0 .. Off(us, Len(us)) /\ q <= Len(file)
    /\ \A i \in 1 .. q : file[i] = Enc(us, Len(us))[i]
    /\ q < Len(file) => file[q + 1] = Bad

\* Over the intact part of a file the scan stands where Mid says.
LEMMA ScanIntact ==
  ASSUME NEW us \in Seq(Unit), NEW file \in Seq(Frame), NEW q, Intact(file, us, q),
         NEW stages, IsScan(stages, file), NEW k \in 0 .. q
  PROVE  stages[k] = Mid(us, UnitsIn(us, k), k)
<1> DEFINE U == {i \in Nat : i <= q => stages[i] = Mid(us, UnitsIn(us, i), i)}
<1>1. q \in Nat /\ q <= Off(us, Len(us)) /\ q <= Len(file) /\ Len(us) \in 0 .. Len(us) /\ Off(us, Len(us)) \in Nat
  <2>1. Len(us) \in 0 .. Len(us) /\ Off(us, Len(us)) \in Nat
    BY EncIs
  <2> QED BY <2>1 DEF Intact
<1>2. 0 \in U
  <2>1. UnitsIn(us, 0) = 0
    <3>1. Off(us, 0) = 0 /\ 0 \in 0 .. Len(us)
      BY EncNone
    <3>2. 0 < Len(us) => 0 < Off(us, 0 + 1)
      <4> SUFFICES ASSUME 0 < Len(us) PROVE 0 < Off(us, 1)
        OBVIOUS
      <4>1. 0 \in Nat /\ 1 \in 0 .. Len(us) /\ 0 <= 1
        OBVIOUS
      <4>2. Off(us, 0) < Off(us, 1)
        BY <4>1, EncGrows
      <4> QED BY <3>1, <4>2
    <3> QED BY <3>1, <3>2, UnitsInAt
  <2>2. Mid(us, 0, 0) = ScanStart
    BY EncNone, RecsNone DEF Mid, So, InBatch, ScanStart
  <2> QED BY <2>1, <2>2 DEF IsScan
<1>3. ASSUME NEW i \in Nat, i \in U PROVE i + 1 \in U
  <2> SUFFICES ASSUME i + 1 <= q PROVE stages[i + 1] = Mid(us, UnitsIn(us, i + 1), i + 1)
    OBVIOUS
  <2>1. PICK n : n = UnitsIn(us, i)
    OBVIOUS
  <2>2. n \in 0 .. Len(us) /\ Off(us, n) <= i /\ Off(us, n) \in Nat
    BY <2>1, UnitsInIs, EncIs
  <2>3. n < Len(us)
    BY <1>1, <2>2
  <2>4. n \in 0 .. (Len(us) - 1) /\ i < Off(us, n + 1) /\ n + 1 \in 0 .. Len(us)
    BY <2>1, <2>2, <2>3, UnitAfter
  <2>5. Off(us, n + 1) = Off(us, n) + Len(Encode(us[n + 1])) /\ Off(us, n + 1) \in Nat
        /\ Len(Encode(us[n + 1])) \in Nat
    BY <2>2, <2>4, EncMore, EncIs, NoneBad
  <2>6. PICK j \in 1 .. Len(Encode(us[n + 1])) : j = i + 1 - Off(us, n) /\ i + 1 = Off(us, n) + j
    <3>1. i + 1 - Off(us, n) \in 1 .. Len(Encode(us[n + 1])) /\ i + 1 = Off(us, n) + (i + 1 - Off(us, n))
      BY SMTT(30), <2>2, <2>4, <2>5
    <3> QED BY <3>1
  <2>7. file[i + 1] = Encode(us[n + 1])[j]
    <3>1. file[i + 1] = Enc(us, Len(us))[i + 1]
      BY <1>1 DEF Intact
    <3> QED BY SMTT(30), <3>1, <2>3, <2>4, <2>6, <1>1, EncAt
  <2>8. stages[i + 1] = ScanFrame(Mid(us, n, i), Encode(us[n + 1])[i + 1 - Off(us, n)])
    <3>1. i \in 0 .. (Len(file) - 1)
      BY <1>1
    <3>2. stages[i] = Mid(us, n, i)
      <4>1. i <= q
        BY <1>1
      <4> QED BY <4>1, <1>3, <2>1
    <3> QED BY <3>1, <3>2, <2>6, <2>7 DEF IsScan
  <2>9. CASE i + 1 = Off(us, n + 1)
    <3>1. n + 1 < Len(us) => i + 1 < Off(us, (n + 1) + 1)
      <4> SUFFICES ASSUME n + 1 < Len(us) PROVE Off(us, n + 1) < Off(us, (n + 1) + 1)
        BY <2>9
      <4>1. n + 1 \in Nat /\ (n + 1) + 1 \in 0 .. Len(us) /\ n + 1 <= (n + 1) + 1 /\ n + 1 < (n + 1) + 1
        BY <2>4
      <4> QED BY <4>1, EncGrows
    <3>2. Off(us, n + 1) <= i + 1
      BY <2>5, <2>9
    <3>3. UnitsIn(us, i + 1) = n + 1
      BY <2>4, <3>1, <3>2, UnitsInAt
    <3> QED BY <2>4, <2>2, <2>8, <2>9, <3>3, ScanInUnit
  <2>10. CASE i + 1 # Off(us, n + 1)
    <3>1. i + 1 < Off(us, n + 1) /\ Off(us, n) <= i + 1
      BY SMTT(30), <2>2, <2>4, <2>5, <2>10
    <3>2. UnitsIn(us, i + 1) = n
      BY <2>2, <3>1, UnitsInAt
    <3> QED BY <2>4, <2>2, <2>8, <2>10, <3>2, ScanInUnit
  <2> QED BY <2>9, <2>10
<1>4. Nat \subseteq U
  <2> HIDE DEF U
  <2> QED BY <1>2, <1>3, AllNumbers
<1> QED BY <1>1, <1>4

\* Behind a frame that is not intact nothing is read.
LEMMA ScanStops ==
  ASSUME NEW file \in Seq(Frame), NEW stages, IsScan(stages, file),
         NEW q \in 0 .. (Len(file) - 1), file[q + 1] = Bad,
         NEW r, NEW b, NEW g, NEW p, stages[q] = So(r, b, g, p)
  PROVE  stages[Len(file)] = [So(r, b, g, p) EXCEPT !.broken = TRUE]
<1> DEFINE stopped == [So(r, b, g, p) EXCEPT !.broken = TRUE]
           U == {k \in Nat : q + 1 + k <= Len(file) => stages[q + 1 + k] = stopped}
<1>1. 0 \in U
  <2>1. stages[q + 1] = ScanFrame(So(r, b, g, p), Bad)
    BY DEF IsScan
  <2>2. ScanFrame(So(r, b, g, p), Bad) = stopped
    BY DEF ScanFrame, So, Bad
  <2> QED BY <2>1, <2>2
<1>2. ASSUME NEW k \in Nat, k \in U PROVE k + 1 \in U
  <2> SUFFICES ASSUME q + 1 + (k + 1) <= Len(file) PROVE stages[q + 1 + (k + 1)] = stopped
    OBVIOUS
  <2>1. q + 1 + k \in 0 .. (Len(file) - 1) /\ q + 1 + (k + 1) = (q + 1 + k) + 1
    OBVIOUS
  <2>2. stages[q + 1 + k] = stopped
    BY <2>1, <1>2
  <2>3. stages[q + 1 + (k + 1)] = ScanFrame(stopped, file[(q + 1 + k) + 1])
    BY <2>1, <2>2 DEF IsScan
  <2>4. \A f : ScanFrame(stopped, f) = stopped
    <3>1. stopped.broken = TRUE
      BY DEF So
    <3> HIDE DEF stopped
    <3> QED BY <3>1 DEF ScanFrame
  <2> QED BY <2>3, <2>4
<1>3. Nat \subseteq U
  <2> HIDE DEF U
  <2> QED BY <1>1, <1>2, AllNumbers
<1>4. PICK k \in Nat : q + 1 + k = Len(file)
  <2>1. Len(file) - (q + 1) \in Nat /\ q + 1 + (Len(file) - (q + 1)) = Len(file)
    OBVIOUS
  <2> QED BY <2>1
<1>5. stages[q + 1 + k] = stopped
  <2>1. k \in U
    <3> HIDE DEF U
    <3> QED BY <1>3
  <2>2. q + 1 + k <= Len(file)
    BY <1>4
  <2> HIDE DEF stopped
  <2> QED BY <2>1, <2>2
<1> QED BY <1>4, <1>5

\* What a replay makes of such a file: the units that are whole in the part
\* that is intact, and a refusal if anything readable is behind the damage.
ReplaysTo(file, us, q) ==
    /\ Replay(file).records = Recs(us, UnitsIn(us, q))
    /\ Replay(file).good = Off(us, UnitsIn(us, q))
    /\ Replay(file).corruptWithValidTail <=> \E i \in q + 2 .. Len(file) : file[i] # Bad

LEMMA ReplayIntact ==
  ASSUME NEW us \in Seq(Unit), NEW file \in Seq(Frame), NEW q, Intact(file, us, q)
  PROVE  ReplaysTo(file, us, q)
<1> SUFFICES /\ Replay(file).records = Recs(us, UnitsIn(us, q))
             /\ Replay(file).good = Off(us, UnitsIn(us, q))
             /\ Replay(file).corruptWithValidTail <=> \E i \in q + 2 .. Len(file) : file[i] # Bad
  BY DEF ReplaysTo
<1>1. PICK stages : IsScan(stages, file) /\ Scan(file) = stages[Len(file)]
  BY ScanByStages
<1>2. PICK n : n = UnitsIn(us, q)
  OBVIOUS
<1>3. q \in Nat /\ q <= Len(file) /\ Len(file) \in Nat
  <2>1. Len(us) \in 0 .. Len(us) /\ Off(us, Len(us)) \in Nat
    BY EncIs
  <2> QED BY <2>1 DEF Intact
<1>4. stages[q] = Mid(us, n, q)
  BY <1>1, <1>2, <1>3, ScanIntact
<1>5. CASE q = Len(file)
  <2>1. Scan(file) = Mid(us, n, q)
    BY <1>1, <1>4, <1>5
  <2>2. q + 2 .. Len(file) = {}
    BY <1>3, <1>5
  <2>3. /\ Scan(file).records = Recs(us, n) /\ Scan(file).good = Off(us, n)
        /\ Scan(file).broken = FALSE
    BY <2>1 DEF Mid, So
  <2> QED BY <1>2, <2>2, <2>3 DEF Replay
<1>6. CASE q # Len(file)
  <2>1. q \in 0 .. (Len(file) - 1) /\ file[q + 1] = Bad
    BY <1>3, <1>6 DEF Intact
  <2>2. Scan(file) = [Mid(us, n, q) EXCEPT !.broken = TRUE]
    BY <1>1, <1>4, <2>1, ScanStops DEF Mid
  <2>3. /\ Scan(file).records = Recs(us, n) /\ Scan(file).good = Off(us, n)
        /\ Scan(file).broken = TRUE /\ Scan(file).pos = q
    BY <2>2 DEF Mid, So
  <2> QED BY <1>2, <2>3 DEF Replay, HasIntactFrameAfter
<1> QED BY <1>5, <1>6

-----------------------------------------------------------------------------
(* The invariant: what the file holds of the units.                          *)

\* The file holds the first q frames of the units, the first `whole` units at
\* least, then at most one torn frame; and the frame that was hit is damaged.
Torn(file, us, whole, hit) ==
    \E q \in Off(us, whole) .. Off(us, Len(us)) :
        /\ Len(file) \in {q, q + 1} /\ hit <= q
        /\ q < Len(file) => file[q + 1] = Bad
        /\ \A i \in 1 .. q : file[i] = IF i = hit THEN Bad ELSE Enc(us, Len(us))[i]

FileInv ==
    /\ Torn(log, acked \o doubtful, Len(acked), rotten)
    /\ storeStatus = "open" => rotten = 0 /\ log = Enc(acked, Len(acked))
    /\ storeStatus = "poisoned" => rotten = 0

WalInv == LogTypeOK /\ FileInv

\* None of the frames that were written is a damaged one.
LEMMA EncTotal ==
  ASSUME NEW us \in Seq(Unit)
  PROVE  /\ Enc(us, Len(us)) \in Seq(Frame) /\ Off(us, Len(us)) \in Nat
         /\ \A i \in 1 .. Off(us, Len(us)) : Enc(us, Len(us))[i] # Bad
<1>1. Len(us) \in 0 .. Len(us)
  OBVIOUS
<1>2. Enc(us, Len(us)) \in Seq(Frame) /\ Off(us, Len(us)) \in Nat
  BY <1>1, EncIs
<1>3. ASSUME NEW i \in 1 .. Off(us, Len(us)) PROVE Enc(us, Len(us))[i] # Bad
  <2>1. i - 1 \in Nat /\ i - 1 < Off(us, Len(us))
    BY <1>2
  <2>2. PICK n : n = UnitsIn(us, i - 1)
    OBVIOUS
  <2>3. n \in 0 .. Len(us) /\ Off(us, n) <= i - 1
    BY <2>1, <2>2, UnitsInIs
  <2>4. n < Len(us)
    BY <2>1, <2>3, <1>2
  <2>5. n \in 0 .. (Len(us) - 1) /\ n + 1 \in 0 .. Len(us) /\ i - 1 < Off(us, n + 1)
    BY <2>1, <2>2, <2>3, <2>4, UnitAfter
  <2>6. Off(us, n + 1) = Off(us, n) + Len(Encode(us[n + 1])) /\ Off(us, n) \in Nat
        /\ Len(Encode(us[n + 1])) \in Nat
    BY <2>3, <2>5, EncMore, EncIs, NoneBad
  <2>7. PICK j \in 1 .. Len(Encode(us[n + 1])) : i = Off(us, n) + j
    <3>1. i - Off(us, n) \in 1 .. Len(Encode(us[n + 1])) /\ i = Off(us, n) + (i - Off(us, n))
      BY <2>3, <2>5, <2>6
    <3> QED BY <3>1
  <2>8. Enc(us, Len(us))[i] = Encode(us[n + 1])[j]
    BY <1>1, <2>4, <2>5, <2>7, EncAt
  <2> QED BY <2>5, <2>8, NoneBad
<1> QED BY <1>2, <1>3

\* What a torn or damaged file holds intact.
LEMMA TornIsIntact ==
  ASSUME NEW us \in Seq(Unit), NEW file \in Seq(Frame), NEW whole \in 0 .. Len(us),
         NEW hit \in Nat, Torn(file, us, whole, hit)
  PROVE  /\ Off(us, whole) <= Len(file)
         /\ \E q \in Nat :
               /\ Intact(file, us, q)
               /\ hit = 0 => Off(us, whole) <= q /\ Len(file) <= q + 1
               /\ hit # 0 => q = hit - 1
<1>1. PICK q \in Off(us, whole) .. Off(us, Len(us)) :
        /\ Len(file) \in {q, q + 1} /\ hit <= q
        /\ q < Len(file) => file[q + 1] = Bad
        /\ \A i \in 1 .. q : file[i] = IF i = hit THEN Bad ELSE Enc(us, Len(us))[i]
  BY DEF Torn
<1>2. Off(us, whole) \in Nat /\ Off(us, Len(us)) \in Nat /\ q \in Nat /\ Len(file) \in Nat
  BY EncIs, EncTotal
<1>3. CASE hit = 0
  <2>1. Intact(file, us, q)
    BY <1>1, <1>2, <1>3 DEF Intact
  <2> QED BY SMTT(30), <1>1, <1>2, <1>3, <2>1
<1>4. CASE hit # 0
  <2> DEFINE p == hit - 1
  <2>1. p \in Nat /\ p + 1 = hit /\ p + 1 \in 1 .. q
    BY <1>1, <1>2, <1>4
  <2>2. file[p + 1] = Bad
    BY <1>1, <2>1
  <2>3. \A i \in 1 .. p : i \in 1 .. q /\ i # hit
    BY <2>1, <1>2
  <2>4. \A i \in 1 .. p : file[i] = Enc(us, Len(us))[i]
    BY <2>3, <1>1
  <2>5. p \in 0 .. Off(us, Len(us)) /\ p <= Len(file)
    BY <1>1, <1>2, <2>1
  <2>6. Intact(file, us, p)
    <3> HIDE DEF p
    <3> QED BY <2>2, <2>4, <2>5 DEF Intact
  <2> QED BY <1>1, <1>2, <1>4, <2>1, <2>6
<1> QED BY <1>3, <1>4

\* Units all written, and nothing else.
LEMMA WholeIsTorn ==
  ASSUME NEW us \in Seq(Unit)
  PROVE  Torn(Enc(us, Len(us)), us, Len(us), 0)
<1>1. Off(us, Len(us)) = Len(Enc(us, Len(us))) /\ Off(us, Len(us)) \in Nat
  BY EncTotal DEF Off
<1>2. Off(us, Len(us)) \in Off(us, Len(us)) .. Off(us, Len(us))
  BY <1>1
<1>3. \A i \in 1 .. Off(us, Len(us)) : i # 0
  BY <1>1
<1> QED BY <1>1, <1>2, <1>3 DEF Torn

\* One more unit.
LEMMA EncAppend ==
  ASSUME NEW us \in Seq(Unit), NEW u \in Unit, NEW more, more = us \o <<u>>
  PROVE  /\ more \in Seq(Unit) /\ Len(more) = Len(us) + 1
         /\ Enc(more, Len(us)) = Enc(us, Len(us)) /\ Off(more, Len(us)) = Off(us, Len(us))
         /\ Enc(more, Len(more)) = Enc(us, Len(us)) \o Encode(u)
         /\ Off(more, Len(more)) = Off(us, Len(us)) + Len(Encode(u))
<1>1. more \in Seq(Unit) /\ Len(more) = Len(us) + 1 /\ more[Len(us) + 1] = u
      /\ \A i \in 1 .. Len(us) : more[i] = us[i]
  OBVIOUS
<1>2. Enc(more, Len(us)) = Enc(us, Len(us)) /\ Off(more, Len(us)) = Off(us, Len(us))
  <2>1. PICK n \in Nat : n = Len(us)
    OBVIOUS
  <2>2. \A i \in 1 .. n : more[i] = us[i]
    BY <1>1, <2>1
  <2>3. Enc(more, n) = Enc(us, n) /\ Off(more, n) = Off(us, n)
    BY ONLY <2>2, EncSame
  <2> QED BY <2>1, <2>3
<1>3. Len(us) \in 0 .. (Len(more) - 1)
  BY <1>1
<1> QED BY <1>1, <1>2, <1>3, EncMore

\* What a write that stopped leaves: the first frames, then at most a torn one.
LEMMA PartialIs ==
  ASSUME NEW fs \in Seq(Frame), NEW left \in Partial(fs)
  PROVE  /\ left \in Seq(Frame) /\ Len(left) <= Len(fs)
         /\ \E k \in 0 .. Len(fs) :
               /\ Len(left) \in {k, k + 1}
               /\ k < Len(left) => left[k + 1] = Bad
               /\ \A i \in 1 .. k : left[i] = fs[i]
<1>1. CASE \E k \in 0 .. Len(fs) : left = SubSeq(fs, 1, k)
  <2>1. PICK k \in 0 .. Len(fs) : left = SubSeq(fs, 1, k)
    BY <1>1
  <2>2. left \in Seq(Frame) /\ Len(left) = k /\ \A i \in 1 .. k : left[i] = fs[i]
    BY <2>1
  <2> QED BY <2>2
<1>2. CASE \E k \in 0 .. (Len(fs) - 1) : left = SubSeq(fs, 1, k) \o <<Bad>>
  <2>1. PICK k \in 0 .. (Len(fs) - 1) : left = SubSeq(fs, 1, k) \o <<Bad>>
    BY <1>2
  <2> DEFINE front == SubSeq(fs, 1, k)
  <2>2. front \in Seq(Frame) /\ Len(front) = k /\ \A i \in 1 .. k : front[i] = fs[i]
    OBVIOUS
  <2>3. Bad \in Frame
    BY DEF Frame
  <2> HIDE DEF front
  <2>4. left = front \o <<Bad>>
    BY <2>1 DEF front
  <2>5. left \in Seq(Frame) /\ Len(left) = k + 1 /\ left[k + 1] = Bad
    <3>1. <<Bad>> \in Seq(Frame) /\ Len(<<Bad>>) = 1 /\ <<Bad>>[1] = Bad
      BY <2>3
    <3>2. PICK last : last = <<Bad>>
      OBVIOUS
    <3>3. front \o last \in Seq(Frame) /\ Len(front \o last) = k + 1 /\ (front \o last)[k + 1] = Bad
      BY <3>1, <3>2, <2>2, ConcatProperties
    <3> QED BY <3>2, <3>3, <2>4
  <2>6. ASSUME NEW i \in 1 .. k PROVE left[i] = fs[i]
    <3>1. (front \o <<Bad>>)[i] = front[i]
      BY <2>2, <2>3
    <3> QED BY <3>1, <2>2, <2>4
  <2>7. k \in 0 .. Len(fs) /\ k + 1 <= Len(fs)
    OBVIOUS
  <2> QED BY <2>5, <2>6, <2>7
<1> QED BY <1>1, <1>2 DEF Partial

\* A write that stopped on the way leaves its unit in doubt.
LEMMA TearLeavesTorn ==
  ASSUME NEW us \in Seq(Unit), NEW u \in Unit, NEW left \in Partial(Encode(u))
  PROVE  Torn(Enc(us, Len(us)) \o left, us \o <<u>>, Len(us), 0)
<1> DEFINE fs == Encode(u)
<1>1. fs \in Seq(Frame)
  BY NoneBad
<1> HIDE DEF fs
<1>2. left \in Seq(Frame) /\ left \in Partial(fs)
  BY <1>1, PartialIs DEF fs
<1>3. PICK k \in 0 .. Len(fs) :
        /\ Len(left) \in {k, k + 1}
        /\ k < Len(left) => left[k + 1] = Bad
        /\ \A i \in 1 .. k : left[i] = fs[i]
  BY <1>1, <1>2, PartialIs
<1>4. PICK more : more = us \o <<u>>
  OBVIOUS
<1>5. PICK e : e = Enc(us, Len(us))
  OBVIOUS
<1>6. e \in Seq(Frame) /\ Len(e) = Off(us, Len(us)) /\ Len(e) \in Nat
  BY <1>5, EncTotal DEF Off
<1>7. /\ more \in Seq(Unit) /\ Off(more, Len(us)) = Len(e)
      /\ Enc(more, Len(more)) = e \o fs /\ Off(more, Len(more)) = Len(e) + Len(fs)
  BY ZenonT(40), <1>4, <1>5, <1>6, EncAppend DEF fs
<1> DEFINE file == e \o left
           q == Len(e) + k
<1>8. Len(file) = Len(e) + Len(left) /\ Len(left) \in Nat /\ k \in Nat /\ Len(fs) \in Nat
  <2>1. Len(left) \in Nat /\ k \in Nat /\ Len(fs) \in Nat
    BY <1>1, <1>2
  <2>2. Len(e \o left) = Len(e) + Len(left)
    BY <1>2, <1>6, ConcatProperties
  <2> QED BY <2>1, <2>2
<1>9. q \in Off(more, Len(us)) .. Off(more, Len(more)) /\ Len(file) \in {q, q + 1}
  <2>1. PICK a, f, l : a = Len(e) /\ f = Len(fs) /\ l = Len(left)
    OBVIOUS
  <2>2. a \in Nat /\ f \in Nat /\ l \in {k, k + 1} /\ k \in 0 .. f
    BY <2>1, <1>3, <1>6, <1>8
  <2>3. a + k \in a .. a + f /\ a + l \in {a + k, a + k + 1}
    BY ONLY <2>2
  <2> QED BY <2>1, <2>3, <1>7, <1>8
<1>10. q < Len(file) => file[q + 1] = Bad
  <2> SUFFICES ASSUME q < Len(file) PROVE file[q + 1] = Bad
    OBVIOUS
  <2>1. Len(left) = k + 1 /\ left[k + 1] = Bad
    BY <1>3, <1>6, <1>8
  <2>2. file[Len(e) + (k + 1)] = left[k + 1]
    BY SMTT(30), <2>1, <1>2, <1>6, <1>8
  <2>3. Len(e) + (k + 1) = q + 1
    BY <1>6, <1>8
  <2> HIDE DEF file, q
  <2> QED BY <2>1, <2>2, <2>3
<1>11. ASSUME NEW i \in 1 .. q PROVE file[i] = Enc(more, Len(more))[i]
  <2>1. CASE i <= Len(e)
    <3>1. i \in 1 .. Len(e)
      BY <2>1, <1>6, <1>8
    <3>2. (e \o left)[i] = e[i] /\ (e \o fs)[i] = e[i]
      BY ONLY <3>1, <1>1, <1>2, <1>6
    <3> QED BY <3>2, <1>7
  <2>2. CASE Len(e) < i
    <3>1. PICK j \in 1 .. k : i = Len(e) + j
      <4>1. i - Len(e) \in 1 .. k /\ i = Len(e) + (i - Len(e))
        BY <2>2, <1>6, <1>8
      <4> QED BY <4>1
    <3>2. j \in 1 .. Len(left) /\ j \in 1 .. Len(fs)
      BY <1>3, <1>8
    <3>3. (e \o left)[i] = left[j] /\ (e \o fs)[i] = fs[j]
      BY SMTT(30), <3>1, <3>2, <1>1, <1>2, <1>6
    <3> QED BY <3>3, <1>3, <1>7
  <2>3. i \in Nat /\ Len(e) \in Nat
    BY <1>6, <1>8
  <2>4. i <= Len(e) \/ Len(e) < i
    BY ONLY <2>3
  <2> HIDE DEF file, q
  <2> QED BY <2>1, <2>2, <2>4
<1>12. \A i \in 1 .. q : i # 0 /\ 0 <= q
  BY <1>6, <1>8
<1>13. 0 <= q
  BY <1>6, <1>8
<1> HIDE DEF file, q
<1>14. Torn(file, more, Len(us), 0)
  BY <1>9, <1>10, <1>11, <1>12, <1>13 DEF Torn
<1> QED BY <1>14, <1>4, <1>5 DEF file

\* Bit rot: the frame that is hit holds a unit, not the torn end.
LEMMA RotLeavesTorn ==
  ASSUME NEW us \in Seq(Unit), NEW file \in Seq(Frame), NEW whole \in 0 .. Len(us),
         Torn(file, us, whole, 0), NEW i \in DOMAIN file, file[i] # Bad
  PROVE  Torn([file EXCEPT ![i] = Bad], us, whole, i)
<1>1. PICK q \in Off(us, whole) .. Off(us, Len(us)) :
        /\ Len(file) \in {q, q + 1} /\ 0 <= q
        /\ q < Len(file) => file[q + 1] = Bad
        /\ \A j \in 1 .. q : file[j] = IF j = 0 THEN Bad ELSE Enc(us, Len(us))[j]
  BY DEF Torn
<1>2. Off(us, whole) \in Nat /\ Off(us, Len(us)) \in Nat /\ q \in Nat /\ Len(file) \in Nat
  BY SMTT(30), EncIs, EncTotal
<1>3. i \in 1 .. Len(file)
  OBVIOUS
<1>4. i <= q
  BY <1>1, <1>2, <1>3
<1>5. PICK next : next = [file EXCEPT ![i] = Bad]
  OBVIOUS
<1>6. /\ Len(next) = Len(file) /\ next[i] = Bad
      /\ \A j \in 1 .. Len(file) : j # i => next[j] = file[j]
  BY <1>3, <1>5
<1>7. q < Len(next) => next[q + 1] = Bad
  BY <1>1, <1>2, <1>4, <1>6
<1>8. ASSUME NEW j \in 1 .. q PROVE next[j] = IF j = i THEN Bad ELSE Enc(us, Len(us))[j]
  <2>1. j \in 1 .. Len(file) /\ j # 0
    BY <1>1, <1>2
  <2> QED BY <2>1, <1>1, <1>6
<1>9. Torn(next, us, whole, i)
  BY <1>1, <1>4, <1>6, <1>7, <1>8 DEF Torn
<1> QED BY <1>5, <1>9

\* The first units of some, as units and as frames.
LEMMA FirstUnits ==
  ASSUME NEW us \in Seq(Unit), NEW n \in 0 .. Len(us), NEW some, some = SubSeq(us, 1, n)
  PROVE  /\ some \in Seq(Unit) /\ Len(some) = n /\ \A i \in 1 .. n : some[i] = us[i]
         /\ Enc(some, n) = Enc(us, n)
<1>1. some \in Seq(Unit) /\ Len(some) = n /\ \A i \in 1 .. n : some[i] = us[i]
  OBVIOUS
<1>2. n \in Nat
  OBVIOUS
<1>3. Enc(some, n) = Enc(us, n)
  BY ONLY <1>1, <1>2, EncSame
<1> QED BY <1>1, <1>3

\* Cutting a file behind its last whole intact unit leaves these units.
LEMMA CutIsWhole ==
  ASSUME NEW us \in Seq(Unit), NEW file \in Seq(Frame), NEW q, Intact(file, us, q),
         NEW n, n = UnitsIn(us, q)
  PROVE  /\ n \in 0 .. Len(us) /\ UnitsIn(us, Off(us, n)) = n
         /\ Off(us, n) \in Nat /\ Off(us, n) <= Len(file)
         /\ SubSeq(file, 1, Off(us, n)) = Enc(SubSeq(us, 1, n), n)
<1>1. q \in Nat /\ q <= Len(file) /\ Len(us) \in 0 .. Len(us) /\ Len(file) \in Nat
  <2>1. Len(us) \in 0 .. Len(us) /\ Off(us, Len(us)) \in Nat
    BY EncTotal
  <2> QED BY <2>1 DEF Intact
<1>2. n \in 0 .. Len(us) /\ Off(us, n) <= q /\ Off(us, n) \in Nat
  BY <1>1, UnitsInIs, EncIs
<1>3. UnitsIn(us, Off(us, n)) = n
  <2>1. n < Len(us) => Off(us, n) < Off(us, n + 1)
    <3> SUFFICES ASSUME n < Len(us) PROVE Off(us, n) < Off(us, n + 1)
      OBVIOUS
    <3>1. n \in Nat /\ n + 1 \in 0 .. Len(us) /\ n <= n + 1 /\ n < n + 1
      BY <1>2
    <3> QED BY <3>1, EncGrows
  <2>2. Off(us, n) <= Off(us, n)
    BY <1>2
  <2> QED BY <1>2, <2>1, <2>2, UnitsInAt
<1>4. PICK e : e = Enc(us, n)
  OBVIOUS
<1>5. e \in Seq(Frame) /\ Len(e) = Off(us, n)
  BY <1>2, <1>4, EncIs DEF Off
<1>6. ASSUME NEW i \in 1 .. Off(us, n) PROVE file[i] = e[i]
  <2>1. i \in 1 .. q
    BY <1>1, <1>2
  <2>2. n \in Nat /\ n <= Len(us)
    BY <1>2
  <2>3. Enc(us, Len(us))[i] = Enc(us, n)[i]
    BY <2>2, <1>1, EncGrows
  <2> QED BY <2>1, <2>3, <1>4 DEF Intact
<1>7. SubSeq(file, 1, Off(us, n)) = e
  <2>1. PICK m \in Nat : m = Off(us, n)
    BY <1>2
  <2>2. m <= Len(file) /\ Len(e) = m /\ \A i \in 1 .. m : file[i] = e[i]
    BY <2>1, <1>1, <1>2, <1>5, <1>6
  <2>3. SubSeq(file, 1, m) = e
    BY ONLY <2>2, <1>5, file \in Seq(Frame)
  <2> QED BY <2>1, <2>3
<1>8. Enc(SubSeq(us, 1, n), n) = Enc(us, n)
  BY <1>2, FirstUnits
<1>9. Off(us, n) <= Len(file)
  BY <1>1, <1>2
<1> QED BY <1>2, <1>3, <1>4, <1>7, <1>8, <1>9

-----------------------------------------------------------------------------
(* The invariant is one.                                                     *)

\* The units of a state, and what a write adds to them.
LEMMA UnitsOf ==
  ASSUME LogTypeOK
  PROVE  /\ acked \o doubtful \in Seq(Unit) /\ Len(acked) \in 0 .. Len(acked \o doubtful)
         /\ log \in Seq(Frame) /\ acked \in Seq(Unit) /\ rotten \in Nat /\ Len(log) \in Nat
         /\ doubtful = <<>> => acked \o doubtful = acked
<1>1. acked \in Seq(Unit) /\ doubtful \in Seq(Unit) /\ log \in Seq(Frame) /\ rotten \in Nat
  BY MaxFramesAssumption DEF LogTypeOK
<1>2. acked \o doubtful \in Seq(Unit) /\ Len(acked \o doubtful) = Len(acked) + Len(doubtful)
  BY <1>1, ConcatProperties
<1>3. Len(acked) \in Nat /\ Len(doubtful) \in Nat /\ Len(log) \in Nat
  BY <1>1
<1>4. doubtful = <<>> => acked \o doubtful = acked
  BY <1>1
<1> QED BY <1>1, <1>2, <1>3, <1>4

\* The invariant at the start, and whenever a store comes up on whole units.
LEMMA WholeFile ==
  ASSUME NEW units \in Seq(Unit), NEW file, file = Enc(units, Len(units))
  PROVE  /\ file \in Seq(Frame)
         /\ \A none : none = <<>> => Torn(file, units \o none, Len(units), 0)
<1>1. file \in Seq(Frame)
  BY EncTotal
<1>2. Torn(file, units, Len(units), 0)
  BY WholeIsTorn
<1>3. \A none : none = <<>> => units \o none = units
  OBVIOUS
<1> QED BY <1>1, <1>2, <1>3

LEMMA LogInitInv == LogInit => WalInv
<1> SUFFICES ASSUME LogInit PROVE WalInv
  OBVIOUS
<1>1. log = <<>> /\ acked = <<>> /\ doubtful = <<>> /\ rotten = 0 /\ storeStatus = "open"
  BY DEF LogInit
<1>2. <<>> \in Seq(Unit) /\ Len(<<>>) = 0 /\ <<>> \in Seq(Frame)
  OBVIOUS
<1>3. LogTypeOK
  BY <1>1, <1>2, MaxFramesAssumption DEF LogTypeOK
<1>4. log = Enc(acked, Len(acked))
  BY <1>1, <1>2, EncNone
<1>5. Torn(log, acked \o doubtful, Len(acked), 0)
  BY <1>1, <1>2, <1>4, WholeFile
<1> QED BY <1>1, <1>3, <1>4, <1>5 DEF WalInv, FileInv

\* An acknowledged append.
LEMMA AppendInv ==
  ASSUME WalInv, NEW u \in Unit, AppendWal(u)
  PROVE  WalInv'
<1>1. /\ storeStatus = "open" /\ doubtful = <<>> /\ rotten = 0 /\ log = Enc(acked, Len(acked))
      /\ acked \in Seq(Unit) /\ log \in Seq(Frame)
  BY DEF AppendWal, WalInv, LogTypeOK, FileInv
<1>2. /\ log' = log \o Encode(u) /\ acked' = Append(acked, u)
      /\ doubtful' = <<>> /\ rotten' = 0 /\ storeStatus' = "open"
      /\ Len(log) + Len(Encode(u)) <= MaxFrames
  BY <1>1 DEF AppendWal
<1>3. acked' = acked \o <<u>>
  BY <1>1, <1>2
<1>4. acked' \in Seq(Unit) /\ log' = Enc(acked', Len(acked'))
  BY <1>1, <1>2, <1>3, EncAppend
<1>5. log' \in Seq(Frame) /\ Torn(log', acked' \o doubtful', Len(acked'), 0)
  BY <1>2, <1>4, WholeFile
<1>6. Len(log') <= MaxFrames + 1
  <2>1. Encode(u) \in Seq(Frame) /\ Len(Encode(u)) \in Nat
    BY NoneBad
  <2>2. Len(log') = Len(log) + Len(Encode(u)) /\ Len(log) \in Nat
    BY <1>1, <1>2, <2>1, ConcatProperties
  <2> QED BY <1>2, <2>1, <2>2, MaxFramesAssumption
<1>7. LogTypeOK'
  BY <1>2, <1>4, <1>5, <1>6, MaxFramesAssumption DEF LogTypeOK
<1> QED BY <1>2, <1>4, <1>5, <1>7 DEF WalInv, FileInv

\* A write that did not return: a failed one or a crash.
LEMMA TearInv ==
  ASSUME WalInv, NEW u \in Unit, NEW left \in Partial(Encode(u)),
         storeStatus = "open", Len(log) + Len(Encode(u)) <= MaxFrames, log' = log \o left,
         doubtful' = <<u>>, acked' = acked, rotten' = rotten, storeStatus' \in {"poisoned", "closed"}
  PROVE  WalInv'
<1>1. /\ rotten = 0 /\ log = Enc(acked, Len(acked))
      /\ acked \in Seq(Unit) /\ log \in Seq(Frame)
  BY DEF WalInv, LogTypeOK, FileInv
<1>2. Encode(u) \in Seq(Frame) /\ Len(Encode(u)) \in Nat
  BY NoneBad
<1>3. left \in Seq(Frame) /\ Len(left) <= Len(Encode(u)) /\ Len(left) \in Nat
  BY <1>2, PartialIs
<1>4. log' \in Seq(Frame) /\ Len(log') = Len(log) + Len(left) /\ Len(log) \in Nat
  BY <1>1, <1>3, ConcatProperties
<1>5. Len(log') <= MaxFrames + 1
  BY <1>2, <1>3, <1>4, MaxFramesAssumption
<1>6. <<u>> \in Seq(Unit) /\ Len(<<u>>) = 1
  OBVIOUS
<1>7. LogTypeOK'
  BY <1>1, <1>4, <1>5, <1>6, MaxFramesAssumption DEF LogTypeOK
<1>8. Torn(log', acked' \o doubtful', Len(acked'), 0)
  BY <1>1, TearLeavesTorn
<1> QED BY <1>1, <1>7, <1>8 DEF WalInv, FileInv

\* A damaged frame at rest.
LEMMA RotInv ==
  ASSUME WalInv, NEW i \in DOMAIN log, Rot(i)
  PROVE  WalInv'
<1>1. /\ storeStatus = "closed" /\ storeStatus' = "closed" /\ rotten = 0 /\ rotten' = i /\ log[i] # Bad
      /\ log' = [log EXCEPT ![i] = Bad] /\ acked' = acked /\ doubtful' = doubtful
  BY DEF Rot
<1>2. LogTypeOK /\ Torn(log, acked \o doubtful, Len(acked), 0)
  BY <1>1 DEF WalInv, FileInv
<1>3. Torn(log', acked' \o doubtful', Len(acked'), i)
  BY <1>1, <1>2, UnitsOf, RotLeavesTorn
<1>4. log' \in Seq(Frame) /\ Len(log') = Len(log)
  <2>1. Bad \in Frame
    BY DEF Frame
  <2> QED BY <1>1, <1>2, <2>1, UnitsOf
<1>5. i \in 0 .. MaxFrames + 1
  BY <1>2, UnitsOf, MaxFramesAssumption DEF LogTypeOK
<1>6. LogTypeOK'
  BY <1>1, <1>2, <1>4, <1>5 DEF LogTypeOK
<1> QED BY <1>1, <1>3, <1>6 DEF WalInv, FileInv

\* Where an open cuts: behind n whole units of the q frames that are intact.
CutsAt(file, us, whole, hit, q, n) ==
    /\ q \in Nat /\ Intact(file, us, q) /\ n = UnitsIn(us, q)
    /\ ReplaysTo(file, us, q) /\ Off(us, whole) <= Len(file)
    /\ hit = 0 => Off(us, whole) <= q /\ Len(file) <= q + 1
    /\ hit # 0 => q = hit - 1

\* Every file of the invariant is cut at some place.
LEMMA OpenCuts ==
  ASSUME NEW us \in Seq(Unit), NEW file \in Seq(Frame), NEW whole \in 0 .. Len(us),
         NEW hit \in Nat, Torn(file, us, whole, hit)
  PROVE  \E q, n : CutsAt(file, us, whole, hit, q, n)
<1>1. PICK q \in Nat :
        /\ Intact(file, us, q)
        /\ hit = 0 => Off(us, whole) <= q /\ Len(file) <= q + 1
        /\ hit # 0 => q = hit - 1
  BY TornIsIntact
<1>2. Off(us, whole) <= Len(file)
  BY TornIsIntact
<1>3. PICK n : n = UnitsIn(us, q)
  OBVIOUS
<1>4. ReplaysTo(file, us, q)
  BY <1>1, ReplayIntact
<1>5. CutsAt(file, us, whole, hit, q, n)
  BY <1>1, <1>2, <1>3, <1>4 DEF CutsAt
<1> QED BY <1>5

\* Store::open, which refuses or truncates.
LEMMA OpenInv ==
  ASSUME WalInv, Open
  PROVE  WalInv'
<1>1. LogTypeOK /\ storeStatus = "closed"
  BY DEF WalInv, Open
<1>2. PICK us \in Seq(Unit) : us = acked \o doubtful
  BY <1>1, UnitsOf
<1>3. log \in Seq(Frame)
  BY <1>1, UnitsOf
<1>4. CASE Replay(log).corruptWithValidTail
  <2>1. /\ storeStatus' = "refused" /\ log' = log /\ acked' = acked
        /\ doubtful' = doubtful /\ rotten' = rotten
    BY <1>4 DEF Open
  <2>2. LogTypeOK'
    BY <1>1, <2>1 DEF LogTypeOK
  <2>3. Torn(log', acked' \o doubtful', Len(acked'), rotten')
    BY <2>1 DEF WalInv, FileInv
  <2> QED BY <2>1, <2>2, <2>3 DEF WalInv, FileInv
<1>5. CASE ~Replay(log).corruptWithValidTail
  <2>1. PICK q, n : Intact(log, us, q) /\ n = UnitsIn(us, q) /\ Replay(log).good = Off(us, n)
    <3>1. Torn(log, us, Len(acked), rotten) /\ Len(acked) \in 0 .. Len(us) /\ rotten \in Nat
      BY <1>1, <1>2, UnitsOf DEF WalInv, FileInv
    <3>2. PICK q, n : CutsAt(log, us, Len(acked), rotten, q, n)
      BY <1>3, <3>1, OpenCuts
    <3> QED BY <3>2 DEF CutsAt, ReplaysTo
  <2>2. /\ n \in 0 .. Len(us) /\ UnitsIn(us, Off(us, n)) = n
        /\ Off(us, n) \in Nat /\ Off(us, n) <= Len(log)
        /\ SubSeq(log, 1, Off(us, n)) = Enc(SubSeq(us, 1, n), n)
    BY <1>3, <2>1, CutIsWhole
  <2>3. /\ storeStatus' = "open" /\ doubtful' = <<>> /\ rotten' = 0
        /\ log' = SubSeq(log, 1, Off(us, n)) /\ acked' = SubSeq(us, 1, UnitsIn(us, Off(us, n)))
    BY <1>2, <1>5, <2>1 DEF Open
  <2>4. acked' = SubSeq(us, 1, n) /\ log' = Enc(SubSeq(us, 1, n), n)
    BY <2>2, <2>3
  <2>5. acked' \in Seq(Unit) /\ Len(acked') = n
    BY <2>2, <2>4, FirstUnits
  <2>6. log' = Enc(acked', Len(acked'))
    BY <2>4, <2>5
  <2>7. log' \in Seq(Frame) /\ Torn(log', acked' \o doubtful', Len(acked'), 0)
    BY <2>3, <2>5, <2>6, WholeFile
  <2>8. Len(log') <= MaxFrames + 1
    <3>1. Len(log) <= MaxFrames + 1 /\ Len(log) \in Nat
      BY <1>1, UnitsOf DEF LogTypeOK
    <3>2. Len(log') = Off(us, n)
      BY <1>3, <2>2, <2>3
    <3> QED BY <2>2, <3>1, <3>2, MaxFramesAssumption
  <2>9. LogTypeOK'
    <3>1. doubtful' \in Seq(Unit) /\ Len(doubtful') = 0
      BY <2>3
    <3>2. rotten' \in 0 .. MaxFrames + 1
      BY <2>3, MaxFramesAssumption
    <3> QED BY <2>3, <2>5, <2>7, <2>8, <3>1, <3>2 DEF LogTypeOK
  <2> QED BY <2>3, <2>6, <2>7, <2>9 DEF WalInv, FileInv
<1> QED BY <1>4, <1>5

\* The start after a refusal.
LEMMA OpenFreshInv ==
  ASSUME WalInv, OpenFresh
  PROVE  WalInv'
<1>1. log' = <<>> /\ acked' = <<>> /\ doubtful' = <<>> /\ rotten' = 0 /\ storeStatus' = "open"
  BY DEF OpenFresh
<1>2. <<>> \in Seq(Unit) /\ Len(<<>>) = 0 /\ <<>> \in Seq(Frame)
  OBVIOUS
<1>3. LogTypeOK'
  BY <1>1, <1>2, MaxFramesAssumption DEF LogTypeOK
<1>4. log' = Enc(acked', Len(acked'))
  BY <1>1, <1>2, EncNone
<1>5. Torn(log', acked' \o doubtful', Len(acked'), 0)
  BY <1>1, <1>2, <1>4, WholeFile
<1> QED BY <1>1, <1>3, <1>4, <1>5 DEF WalInv, FileInv

\* A stop, and a step that changes nothing.
LEMMA StutterInv ==
  ASSUME WalInv, UNCHANGED <<log, acked, doubtful, rotten>>,
         storeStatus' = storeStatus \/ storeStatus' = "closed" 
  PROVE  WalInv'
<1>1. log' = log /\ acked' = acked /\ doubtful' = doubtful /\ rotten' = rotten
  OBVIOUS
<1>2. LogTypeOK'
  BY <1>1 DEF WalInv, LogTypeOK
<1>3. Torn(log', acked' \o doubtful', Len(acked'), rotten')
  BY <1>1 DEF WalInv, FileInv
<1> QED BY <1>1, <1>2, <1>3 DEF WalInv, FileInv

\* Every step keeps the invariant.
LEMMA LogStepInv == WalInv /\ [LogNext]_logVars => WalInv'
<1> SUFFICES ASSUME WalInv, [LogNext]_logVars PROVE WalInv'
  OBVIOUS
<1>1. ASSUME NEW u \in Unit, AppendWal(u) PROVE WalInv'
  BY <1>1, AppendInv
<1>2. ASSUME NEW u \in Unit, AppendWalFails(u) PROVE WalInv'
  BY <1>2, TearInv DEF AppendWalFails
<1>3. ASSUME NEW u \in Unit, CrashInAppend(u) PROVE WalInv'
  BY <1>3, TearInv DEF CrashInAppend
<1>4. CASE Stop
  BY <1>4, StutterInv DEF Stop
<1>5. ASSUME NEW i \in DOMAIN log, Rot(i) PROVE WalInv'
  BY <1>5, RotInv
<1>6. CASE Open
  BY <1>6, OpenInv
<1>7. CASE OpenFresh
  BY <1>7, OpenFreshInv
<1>8. CASE UNCHANGED logVars
  BY SMTT(30), <1>8, StutterInv DEF logVars
<1> QED BY <1>1, <1>2, <1>3, <1>4, <1>5, <1>6, <1>7, <1>8 DEF LogNext

-----------------------------------------------------------------------------
(* What a replay and an open make of it.                                     *)

\* The acknowledged units are the first of those that were written.
LEMMA AckedFirst ==
  ASSUME LogTypeOK, NEW us, us = acked \o doubtful
  PROVE  /\ SubSeq(us, 1, Len(acked)) = acked /\ SubSeq(us, 1, Len(us)) = us
         /\ Len(us) \in {Len(acked), Len(acked) + 1}
<1>1. acked \in Seq(Unit) /\ doubtful \in Seq(Unit) /\ Len(doubtful) <= 1
  BY DEF LogTypeOK
<1>2. Len(acked) \in Nat /\ Len(doubtful) \in Nat
  BY <1>1
<1>3. us \in Seq(Unit) /\ Len(us) = Len(acked) + Len(doubtful)
      /\ \A i \in 1 .. Len(acked) : us[i] = acked[i]
  BY <1>1
<1>4. Len(us) \in {Len(acked), Len(acked) + 1}
  <2>1. PICK d \in Nat : d = Len(doubtful)
    BY <1>2
  <2>2. d \in {0, 1}
    BY <1>1, <2>1
  <2>3. PICK a \in Nat : a = Len(acked)
    BY <1>2
  <2>4. a + d \in {a, a + 1}
    BY ONLY <2>2
  <2> QED BY <2>1, <2>3, <2>4, <1>3
<1>5. SubSeq(us, 1, Len(acked)) = acked
  BY <1>1, <1>2, <1>3
<1>6. SubSeq(us, 1, Len(us)) = us
  BY <1>3
<1> QED BY ONLY <1>4, <1>5, <1>6

LEMMA CutOfLog ==
  ASSUME WalInv
  PROVE  \E q, n : CutsAt(log, acked \o doubtful, Len(acked), rotten, q, n)
<1>1. LogTypeOK /\ Torn(log, acked \o doubtful, Len(acked), rotten)
  BY DEF WalInv, FileInv
<1>2. /\ acked \o doubtful \in Seq(Unit) /\ log \in Seq(Frame) /\ rotten \in Nat
      /\ Len(acked) \in 0 .. Len(acked \o doubtful)
  BY <1>1, UnitsOf
<1> QED BY <1>1, <1>2, OpenCuts

\* The invariant gives what the replay promises.
LEMMA WholeUnits == WalInv => RecoversWholeUnits
<1> SUFFICES ASSUME WalInv PROVE RecoversWholeUnits
  OBVIOUS
<1>1. LogTypeOK
  BY DEF WalInv
<1>2. PICK us : us = acked \o doubtful
  OBVIOUS
<1>3. PICK q, n : CutsAt(log, us, Len(acked), rotten, q, n)
  BY <1>2, CutOfLog
<1>4. us \in Seq(Unit) /\ Len(acked) \in 0 .. Len(us) /\ Len(log) \in Nat
  BY <1>1, <1>2, UnitsOf
<1>5. q \in Nat /\ n = UnitsIn(us, q) /\ Replay(log).records = Recs(us, n)
  BY <1>3 DEF CutsAt, ReplaysTo
<1>6. n \in 0 .. Len(us)
  BY <1>4, <1>5, UnitsInIs
<1>7. RotRecoversAPrefix
  BY <1>2, <1>5, <1>6 DEF RotRecoversAPrefix, Recs
<1>8. ASSUME rotten = 0
      PROVE  /\ ~Replay(log).corruptWithValidTail
             /\ Replay(log).records \in {Records(acked), Records(acked \o doubtful)}
  <2>1. Off(us, Len(acked)) <= q /\ Len(log) <= q + 1
        /\ (Replay(log).corruptWithValidTail <=> \E i \in q + 2 .. Len(log) : log[i] # Bad)
    BY <1>3, <1>8 DEF CutsAt, ReplaysTo
  <2>2. q + 2 .. Len(log) = {}
    BY <2>1, <1>4, <1>5
  <2>3. ~Replay(log).corruptWithValidTail
    BY <2>1, <2>2
  <2>4. Len(acked) <= n
    BY <1>4, <1>5, <2>1, UnitsInIs
  <2>5. Len(us) \in {Len(acked), Len(acked) + 1} /\ Len(acked) \in Nat /\ Len(us) \in Nat
    <3>1. Len(us) \in {Len(acked), Len(acked) + 1}
      BY <1>1, <1>2, AckedFirst
    <3> QED BY <3>1, <1>4
  <2>6. n = Len(acked) \/ n = Len(us)
    BY <1>6, <2>4, <2>5
  <2>7. Recs(us, Len(acked)) = Records(acked) /\ Recs(us, Len(us)) = Records(us)
    <3>1. SubSeq(us, 1, Len(acked)) = acked /\ SubSeq(us, 1, Len(us)) = us
      BY <1>1, <1>2, AckedFirst
    <3> QED BY <3>1 DEF Recs
  <2> QED BY <1>2, <1>5, <2>3, <2>6, <2>7
<1>9. CrashRecoversWholeUnits
  BY <1>8 DEF CrashRecoversWholeUnits
<1> QED BY <1>1, <1>7, <1>9 DEF RecoversWholeUnits

\* A unit behind the cut whose frames are all intact shows that the damage is
\* in the middle.
LEMMA IntactUnitBehindTheCut ==
  ASSUME WalInv, ~Replay(log).corruptWithValidTail,
         NEW us, us = acked \o doubtful,
         NEW q, NEW n, CutsAt(log, us, Len(acked), rotten, q, n), NEW m \in IntactUnits
  PROVE  m <= n
<1>1. LogTypeOK
  BY DEF WalInv
<1>2. us \in Seq(Unit) /\ Len(acked) \in 0 .. Len(us) /\ Len(log) \in Nat /\ acked \in Seq(Unit)
  BY <1>1, UnitsOf
<1>3. /\ q \in Nat /\ Intact(log, us, q) /\ n = UnitsIn(us, q) /\ Off(us, Len(acked)) <= Len(log)
      /\ ~\E i \in q + 2 .. Len(log) : log[i] # Bad
  BY DEF CutsAt, ReplaysTo
<1>4. n \in 0 .. Len(us) /\ n \in Nat /\ Len(us) \in Nat /\ Len(acked) \in Nat
  <2>1. n \in 0 .. Len(us)
    <3>1. UnitsIn(us, q) \in 0 .. Len(us)
      BY <1>2, <1>3, UnitsInIs
    <3> QED BY ONLY <3>1, <1>3
  <2> QED BY <2>1, <1>2
<1>5. m \in 1 .. Len(acked) /\ \A i \in Span(m) : log[i] # Bad
  BY <1>2 DEF IntactUnits
<1>6. PICK k \in Nat : k + 1 = m
  <2>1. m - 1 \in Nat /\ (m - 1) + 1 = m
    BY <1>5
  <2> QED BY <2>1
<1>7. k \in 0 .. (Len(acked) - 1) /\ k \in 0 .. (Len(us) - 1) /\ m \in 0 .. Len(us) /\ m \in Nat
      /\ m <= Len(acked)
  BY <1>2, <1>5, <1>6
<1>8. \A i \in 1 .. Len(acked) : us[i] = acked[i]
  <2>1. SubSeq(us, 1, Len(acked)) = acked
    BY <1>1, AckedFirst
  <2> QED BY <2>1, <1>2, <1>4
<1>9. Off(acked, k) = Off(us, k) /\ acked[m] = us[m]
  <2>1. \A i \in 1 .. k : acked[i] = us[i]
    BY <1>7, <1>8, <1>2
  <2> QED BY <2>1, <1>5, <1>8, EncSame
<1>10. Off(us, m) = Off(us, k) + Len(Encode(us[m])) /\ Len(Encode(us[m])) \in Nat \ {0}
       /\ Off(us, k) \in Nat /\ Off(us, m) \in Nat
  <2>1. Off(us, k + 1) = Off(us, k) + Len(Encode(us[k + 1]))
    BY <1>2, <1>7, EncMore
  <2>2. us[m] \in Unit
    BY <1>2, <1>4, <1>5, <1>6, <1>7
  <2>3. Len(Encode(us[m])) \in Nat \ {0}
    BY <2>2, NoneBad
  <2>4. k \in 0 .. Len(us)
    BY <1>4, <1>7
  <2>5. Off(us, k) \in Nat /\ Off(us, m) \in Nat
    BY <2>4, <1>2, <1>7, EncIs
  <2> QED BY <2>1, <2>3, <2>5, <1>6
<1>11. Span(m) = Off(us, k) + 1 .. Off(us, m)
  <2>1. m - 1 = k
    BY <1>6
  <2> QED BY <2>1, <1>9, <1>10 DEF Span, Off, Enc
<1>12. Off(us, m) \in Span(m)
  <2>1. Off(us, m) \in Off(us, k) + 1 .. Off(us, m)
    BY ONLY <1>10
  <2> QED BY <2>1, <1>11
<1>13. log[Off(us, m)] # Bad
  BY <1>5, <1>12
<1> SUFFICES ASSUME n < m PROVE FALSE
  BY <1>4, <1>7
<1>14. n < Len(us) /\ n + 1 \in Nat /\ n + 1 <= m /\ n + 1 \in 0 .. Len(us)
  BY <1>4, <1>7
<1>15. q < Off(us, n + 1) /\ Off(us, n + 1) \in Nat
  BY <1>2, <1>3, <1>14, UnitAfter, EncIs
<1>16. Off(us, n + 1) <= Off(us, m)
  BY <1>2, <1>7, <1>14, EncGrows
<1>17. Off(us, m) <= Off(us, Len(acked)) /\ Off(us, Len(acked)) \in Nat
  BY <1>2, <1>7, EncGrows, EncIs
<1>18. q < Off(us, m) /\ Off(us, m) <= Len(log)
  <2>1. PICK a, b, c, l : /\ a = Off(us, m) /\ b = Off(us, n + 1)
                           /\ c = Off(us, Len(acked)) /\ l = Len(log)
    OBVIOUS
  <2>2. a \in Nat /\ b \in Nat /\ c \in Nat /\ l \in Nat /\ q \in Nat
    BY <2>1, <1>2, <1>3, <1>10, <1>15, <1>17
  <2>3. q < b /\ b <= a /\ a <= c /\ c <= l
    BY <2>1, <1>3, <1>15, <1>16, <1>17
  <2>4. q < a /\ a <= l
    BY ONLY <2>2, <2>3
  <2> QED BY <2>1, <2>4
<1>19. log[q + 1] = Bad
  <2>1. q < Len(log)
    BY ONLY <1>2, <1>3, <1>10, <1>18
  <2> QED BY <2>1, <1>3 DEF Intact
<1>20. Off(us, m) \in q + 2 .. Len(log)
  <2>1. Off(us, m) # q + 1
    BY <1>13, <1>19
  <2>2. PICK a, l : a = Off(us, m) /\ l = Len(log)
    OBVIOUS
  <2>3. a \in Nat /\ l \in Nat /\ q \in Nat /\ q < a /\ a <= l /\ a # q + 1
    BY <2>1, <2>2, <1>2, <1>3, <1>10, <1>18
  <2>4. a \in q + 2 .. l
    BY ONLY <2>3
  <2> QED BY <2>2, <2>4
<1> QED BY <1>3, <1>13, <1>20

\* An open that truncates keeps every intact acknowledged unit.
LEMMA KeepsIntactUnits ==
  ASSUME WalInv, [LogNext]_logVars, storeStatus = "closed", storeStatus' = "open"
  PROVE  \A m \in IntactUnits : m \in DOMAIN acked' /\ acked'[m] = acked[m]
<1>1. Open
  BY DEF LogNext, logVars, AppendWal, AppendWalFails, CrashInAppend, Stop, Rot, OpenFresh
<1>2. PICK us : us = acked \o doubtful
  OBVIOUS
<1>3. /\ ~Replay(log).corruptWithValidTail
      /\ acked' = SubSeq(us, 1, UnitsIn(us, Replay(log).good))
  BY <1>1, <1>2 DEF Open
<1>4. PICK q, n : CutsAt(log, us, Len(acked), rotten, q, n)
  BY <1>2, CutOfLog
<1>5. LogTypeOK
  BY DEF WalInv
<1>6. us \in Seq(Unit) /\ log \in Seq(Frame) /\ Len(acked) \in 0 .. Len(us) /\ acked \in Seq(Unit)
  BY <1>2, <1>5, UnitsOf
<1>7. Intact(log, us, q) /\ n = UnitsIn(us, q) /\ Replay(log).good = Off(us, n)
  BY <1>4 DEF CutsAt, ReplaysTo
<1>8. acked' = SubSeq(us, 1, n) /\ n \in 0 .. Len(us)
  BY <1>3, <1>6, <1>7, CutIsWhole
<1>9. acked' \in Seq(Unit) /\ Len(acked') = n /\ \A i \in 1 .. n : acked'[i] = us[i]
  BY <1>6, <1>8, FirstUnits
<1>10. \A i \in 1 .. Len(acked) : us[i] = acked[i]
  <2>1. SubSeq(us, 1, Len(acked)) = acked
    BY <1>2, <1>5, AckedFirst
  <2> QED BY <2>1, <1>6
<1>11. TAKE m \in IntactUnits
<1>12. m <= n
  BY <1>2, <1>3, <1>4, IntactUnitBehindTheCut
<1>13. m \in 1 .. Len(acked) /\ m \in 1 .. n
  <2>1. m \in 1 .. Len(acked)
    BY <1>6 DEF IntactUnits
  <2> QED BY <2>1, <1>8, <1>12
<1> QED BY <1>9, <1>10, <1>13

-----------------------------------------------------------------------------
(* The theorems.                                                             *)

\* The log file always holds the units written, in order, up to at most one
\* torn or damaged frame (append_wal, poison_wal and Store::open).
THEOREM LogInvariance == LogSpec => []WalInv
<1> QED BY LogInitInv, LogStepInv, PTL DEF LogSpec

\* Whatever a crash, a failed append or a damaged frame left in the file,
\* wal::replay returns whole units from the front; without damage, all that
\* were acknowledged and at most the one whose append did not return.
THEOREM RecoveredInWholeUnits == LogSpec => []RecoversWholeUnits
<1> QED BY LogInvariance, WholeUnits, PTL

\* Store::open never truncates an acknowledged unit whose frames are intact.
THEOREM IntactUnitsAreKept == LogSpec => OpenKeepsIntactUnits
<1>1. WalInv /\ [LogNext]_logVars
        => [storeStatus = "closed" /\ storeStatus' = "open" =>
              \A n \in IntactUnits : n \in DOMAIN acked' /\ acked'[n] = acked[n]]_logVars
  BY KeepsIntactUnits
<1> QED BY <1>1, LogInvariance, PTL DEF LogSpec, OpenKeepsIntactUnits
=============================================================================
