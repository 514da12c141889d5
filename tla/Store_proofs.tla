---------------------------- MODULE Store_proofs ----------------------------
(***************************************************************************)
(* Proofs about what a store keeps: the version mark of CommitVersions and  *)
(* the model of SavedObjects, each for any value of its constants.          *)
(*                                                                          *)
(* The mark.  One assumption on MarkFaults says where the promise of the    *)
(* code ends: a directory fsync failing after the rename, and a mark that   *)
(* cannot be read, each break it (TLC shows how with MarkFaults =           *)
(* {"dirsync"} or {"read"}).  A failing write of the mark is allowed.       *)
(*                                                                          *)
(* The model.  Any dimensions, elements, attributes and users, any edits    *)
(* and requests.  From one dimension and its edits (Dimension_proofs), to   *)
(* the dimensions, their pool and the sandboxes over them; then the cells:  *)
(* that keys decode, and that an edit carries each cell to the cell of the  *)
(* same names; then all of it by name, as NamedCube has it.                 *)
(***************************************************************************)
EXTENDS CommitVersions, SavedObjects, Dimension_proofs

\* In flight: the version is minted and the commit not answered yet.
InFlight(c) == pc[c] \in {"minted", "marking", "renamed", "recorded"}

\* The mark and the counter: no durable mark is above the mark the process
\* reads, which is below the counter; the file has an undurable content only
\* while some commit holds the lock after its rename.
MarkInv ==
    /\ \A m \in markDisk : m <= mark
    /\ mark < nextId
    /\ (\A c \in Cubes : pc[c] # "renamed") => markDisk = {mark}
    /\ \A c \in Cubes : pc[c] = "renamed" => mark = minted[c]
    /\ \A c \in Cubes : pc[c] = "recorded" => \A m \in markDisk : minted[c] <= m

\* The versions in flight: below the counter, never shown, all different, and
\* above everything their cube has shown.
MintInv ==
    \A c \in Cubes : InFlight(c) =>
        /\ minted[c] < nextId
        /\ minted[c] > 0
        /\ \A h \in history : h.ver # minted[c] /\ (h.cube = c => h.ver < minted[c])
        /\ \A d \in Cubes : d # c /\ InFlight(d) => minted[d] # minted[c]

\* What was shown: a version other than 0 names one content of its cube, and
\* what the cube shows now is part of it.
HistoryInv ==
    /\ \A g, h \in history : g.cube = h.cube /\ g.ver = h.ver /\ g.ver # 0 => g.rev = h.rev
    /\ \A c \in Cubes : Seen(c, version[c], shown[c]) \in history

\* The inductive invariant.
IInv == TypeOK /\ MarkInv /\ PublishedBelowMark /\ MintInv /\ HistoryInv

\* The steps on the mark file that may fail for the theorems to hold.
OnlyWriteFails == MarkFaults \subseteq {"write"}

-----------------------------------------------------------------------------

LEMMA InitIInv == Init => IInv
<1> SUFFICES ASSUME Init PROVE IInv
  OBVIOUS
<1>1. TypeOK
  BY NoCubeAssumption DEF Init, TypeOK, Label, Seen
<1>2. MarkInv
  BY DEF Init, MarkInv
<1>3. PublishedBelowMark
  BY DEF Init, PublishedBelowMark, Seen
<1>4. MintInv
  BY DEF Init, MintInv, InFlight
<1>5. HistoryInv
  <2>1. \A h \in history : h.ver = 0
    BY DEF Init, Seen
  <2>2. ASSUME NEW c \in Cubes PROVE Seen(c, version[c], shown[c]) \in history
    <3>1. version[c] = 0 /\ shown[c] = 0
      BY DEF Init
    <3>2. Seen(c, 0, 0) \in history
      BY DEF Init
    <3> QED BY ONLY <3>1, <3>2
  <2> QED BY <2>1, <2>2 DEF HistoryInv
<1> QED BY <1>1, <1>2, <1>3, <1>4, <1>5 DEF IInv

\* A store change and a mint touch neither the mark nor what was shown.
LEMMA ChangeIInv == ASSUME IInv, NEW c \in Cubes, Change(c) PROVE IInv'
<1> USE DEF IInv, cubeVars, markVars, Goto
<1>1. TypeOK'
  BY DEF TypeOK, Change, Label
<1>2. MarkInv'
  BY DEF TypeOK, MarkInv, Change
<1>3. PublishedBelowMark'
  BY DEF PublishedBelowMark, Change
<1>4. MintInv'
  BY DEF TypeOK, MintInv, InFlight, Change
<1>5. HistoryInv'
  BY DEF HistoryInv, Change, Seen
<1> QED BY <1>1, <1>2, <1>3, <1>4, <1>5

LEMMA MintIInv == ASSUME IInv, NEW c \in Cubes, Mint(c) PROVE IInv'
<1> USE DEF IInv, cubeVars, markVars, Goto
<1>1. TypeOK'
  BY DEF TypeOK, Mint, Label
<1>2. MarkInv'
  BY DEF TypeOK, MarkInv, Mint
<1>3. PublishedBelowMark'
  BY DEF PublishedBelowMark, Mint
<1>4. MintInv'
  <2>1. \A h \in history : h.ver < nextId
    BY DEF TypeOK, PublishedBelowMark, MarkInv
  <2>2. \A d \in Cubes : InFlight(d) => minted[d] < nextId /\ minted[d] \in Nat
    BY DEF TypeOK, MintInv
  <2> QED BY <2>1, <2>2 DEF TypeOK, MintInv, MarkInv, InFlight, Mint
<1>5. HistoryInv'
  BY DEF HistoryInv, Mint, Seen
<1> QED BY <1>1, <1>2, <1>3, <1>4, <1>5

LEMMA LockMarkIInv == ASSUME IInv, NEW c \in Cubes, LockMark(c) PROVE IInv'
<1> USE DEF IInv, cubeVars, markVars, Goto
<1>1. TypeOK'
  BY NoCubeAssumption DEF TypeOK, LockMark, Label
<1>2. MarkInv'
  BY DEF TypeOK, MarkInv, LockMark
<1>3. PublishedBelowMark'
  BY DEF PublishedBelowMark, LockMark
<1>4. MintInv'
  BY DEF TypeOK, MintInv, InFlight, LockMark
<1>5. HistoryInv'
  BY DEF HistoryInv, LockMark, Seen
<1> QED BY <1>1, <1>2, <1>3, <1>4, <1>5

\* The commit that holds the lock before its rename is the only one inside
\* write_commit_watermark, so the file has no undurable content.
LEMMA MarkIsSynced ==
  ASSUME IInv, NEW c \in Cubes, pc[c] = "marking"
  PROVE  markDisk = {mark}
<1>1. \A d \in Cubes : pc[d] # "renamed"
  BY DEF IInv, TypeOK
<1> QED BY <1>1 DEF IInv, MarkInv

LEMMA MarkIsHigherIInv ==
  ASSUME OnlyWriteFails, IInv, NEW c \in Cubes, MarkIsHigher(c) PROVE IInv'
<1> USE DEF IInv, cubeVars, markVars, Goto
<1>1. markDisk = {mark} /\ minted[c] <= mark
  BY MarkIsSynced DEF MarkIsHigher, ReadMark, Faulty, OnlyWriteFails
<1>2. TypeOK'
  BY NoCubeAssumption DEF TypeOK, MarkIsHigher, Label
<1>3. MarkInv'
  BY <1>1 DEF TypeOK, MarkInv, MarkIsHigher
<1>4. PublishedBelowMark'
  BY DEF PublishedBelowMark, MarkIsHigher
<1>5. MintInv'
  BY DEF TypeOK, MintInv, InFlight, MarkIsHigher
<1>6. HistoryInv'
  BY DEF HistoryInv, MarkIsHigher, Seen
<1> QED BY <1>2, <1>3, <1>4, <1>5, <1>6

LEMMA RenameMarkIInv ==
  ASSUME OnlyWriteFails, IInv, NEW c \in Cubes, RenameMark(c) PROVE IInv'
<1> USE DEF IInv, cubeVars, markVars, Goto
<1>1. markDisk = {mark} /\ minted[c] > mark
  BY MarkIsSynced DEF RenameMark, ReadMark, Faulty, OnlyWriteFails
<1>2. TypeOK'
  BY NoCubeAssumption DEF TypeOK, RenameMark, Label
<1>3. MarkInv'
  <2>1. \A d \in Cubes : pc'[d] = "renamed" => d = c
    BY DEF TypeOK, RenameMark
  <2>2. minted[c] < nextId
    BY DEF MintInv, InFlight, RenameMark
  <2> QED BY <1>1, <2>1, <2>2 DEF TypeOK, MarkInv, RenameMark
<1>4. PublishedBelowMark'
  BY <1>1 DEF TypeOK, PublishedBelowMark, RenameMark
<1>5. MintInv'
  BY DEF TypeOK, MintInv, InFlight, RenameMark
<1>6. HistoryInv'
  BY DEF HistoryInv, RenameMark, Seen
<1> QED BY <1>2, <1>3, <1>4, <1>5, <1>6

LEMMA SyncMarkIInv == ASSUME IInv, NEW c \in Cubes, SyncMark(c) PROVE IInv'
<1> USE DEF IInv, cubeVars, markVars, Goto
<1>1. TypeOK'
  BY NoCubeAssumption DEF TypeOK, SyncMark, Label
<1>2. MarkInv'
  BY DEF TypeOK, MarkInv, SyncMark
<1>3. PublishedBelowMark'
  BY DEF TypeOK, PublishedBelowMark, SyncMark
<1>4. MintInv'
  BY DEF TypeOK, MintInv, InFlight, SyncMark
<1>5. HistoryInv'
  BY DEF HistoryInv, SyncMark, Seen
<1> QED BY <1>1, <1>2, <1>3, <1>4, <1>5

LEMMA MarkFailsIInv ==
  ASSUME OnlyWriteFails, IInv, NEW c \in Cubes, MarkFails(c) PROVE IInv'
<1> USE DEF IInv, cubeVars, markVars, Goto
<1>1. pc[c] = "marking"
  BY DEF MarkFails, Faulty, OnlyWriteFails
<1>2. TypeOK'
  BY NoCubeAssumption DEF TypeOK, MarkFails, Label
<1>3. MarkInv'
  BY <1>1, MarkIsSynced DEF TypeOK, MarkInv, MarkFails
<1>4. PublishedBelowMark'
  BY DEF PublishedBelowMark, MarkFails
<1>5. MintInv'
  BY DEF TypeOK, MintInv, InFlight, MarkFails
<1>6. HistoryInv'
  BY DEF HistoryInv, MarkFails, Seen
<1> QED BY <1>2, <1>3, <1>4, <1>5, <1>6

\* The one step that adds to what was shown: the new version is recorded, and
\* its cube was never seen at it.
LEMMA PublishIInv == ASSUME IInv, NEW c \in Cubes, Publish(c) PROVE IInv'
<1> USE DEF IInv, cubeVars, markVars, Goto
<1> DEFINE new == Seen(c, minted[c], rev[c])
<1>1. /\ new.cube = c /\ new.ver = minted[c] /\ new.rev = rev[c]
      /\ history' = history \cup {new}
  BY DEF Publish, Seen
<1>2. \A h \in history : h.ver # minted[c]
  BY DEF MintInv, InFlight, Publish
<1>3. TypeOK'
  BY DEF TypeOK, Publish, Label, Seen
<1>4. MarkInv'
  BY DEF TypeOK, MarkInv, Publish
<1>5. PublishedBelowMark'
  BY <1>1 DEF TypeOK, MarkInv, PublishedBelowMark, Publish
<1>6. MintInv'
  <2>1. ASSUME NEW d \in Cubes, InFlight(d)' PROVE d # c /\ InFlight(d)
    BY <2>1 DEF TypeOK, InFlight, Publish
  <2>2. \A d \in Cubes : InFlight(d) /\ d # c => minted[d] # minted[c]
    BY DEF MintInv, InFlight, Publish
  <2> QED BY <1>1, <2>1, <2>2 DEF TypeOK, MintInv, Publish
<1>7. HistoryInv'
  <2>1. \A d \in Cubes : Seen(d, version'[d], shown'[d]) \in history'
    BY <1>1 DEF TypeOK, HistoryInv, Publish
  <2>2. \A g, h \in history' :
            g.cube = h.cube /\ g.ver = h.ver /\ g.ver # 0 => g.rev = h.rev
    BY <1>1, <1>2 DEF HistoryInv
  <2> QED BY <2>1, <2>2 DEF HistoryInv
<1> QED BY <1>3, <1>4, <1>5, <1>6, <1>7

\* A restart forgets everything but the mark, the stores and what clients saw.
LEMMA RestartIInv == ASSUME OnlyWriteFails, IInv, Restart PROVE IInv'
<1> USE DEF IInv
<1> DEFINE new == {Seen(c, 0, rev[c]) : c \in Cubes}
<1>1. /\ \A h \in new : h.ver = 0 /\ h \in [cube : Cubes, ver : Nat, rev : Nat]
      /\ history' = history \cup new
  BY DEF TypeOK, Restart, Seen
<1>2. PICK left \in markDisk : mark' = left /\ markDisk' = {left} /\ nextId' = left + 1
  BY DEF Restart, Faulty, OnlyWriteFails
<1>3. left \in Nat
  BY DEF TypeOK
<1>4. \A c \in Cubes : pc'[c] = "idle"
  BY DEF Restart
<1>5. TypeOK'
  <2>1. nextId' \in Nat
    BY <1>2, <1>3
  <2>2. mark' \in Nat /\ markDisk' \subseteq Nat /\ mark' \in markDisk'
    BY <1>2, <1>3
  <2>3. history' \subseteq [cube : Cubes, ver : Nat, rev : Nat]
    BY <1>1 DEF TypeOK
  <2>4. /\ markLock' = NoCube
        /\ pc' \in [Cubes -> Label] /\ minted' \in [Cubes -> Nat]
        /\ version' \in [Cubes -> Nat] /\ shown' \in [Cubes -> Nat]
        /\ rev' \in [Cubes -> Nat]
    BY DEF TypeOK, Restart, Label
  <2>5. \A c \in Cubes : pc'[c] \in {"marking", "renamed"} <=> markLock' = c
    BY <1>4, <2>4, NoCubeAssumption
  <2> QED BY <2>1, <2>2, <2>3, <2>4, <2>5 DEF TypeOK
<1>6. MarkInv'
  <2>1. (\A m \in markDisk' : m <= mark') /\ mark' < nextId'
    BY <1>2, <1>3
  <2>2. \A c \in Cubes : pc'[c] # "renamed" /\ pc'[c] # "recorded"
    BY <1>4
  <2> QED BY <1>2, <2>1, <2>2 DEF MarkInv
<1>7. PublishedBelowMark'
  BY <1>1, <1>2, <1>3 DEF PublishedBelowMark
<1>8. MintInv'
  BY <1>4 DEF MintInv, InFlight
<1>9. HistoryInv'
  <2>1. \A c \in Cubes : Seen(c, version'[c], shown'[c]) \in history'
    BY <1>1 DEF TypeOK, Restart
  <2>2. \A g, h \in history' :
            g.cube = h.cube /\ g.ver = h.ver /\ g.ver # 0 => g.rev = h.rev
    BY <1>1 DEF HistoryInv
  <2> QED BY <2>1, <2>2 DEF HistoryInv
<1> QED BY <1>5, <1>6, <1>7, <1>8, <1>9

-----------------------------------------------------------------------------

LEMMA StepIInv == ASSUME OnlyWriteFails, IInv, [Next]_vars PROVE IInv'
<1>1. ASSUME NEW c \in Cubes, CommitStep(c) PROVE IInv'
  BY <1>1, ChangeIInv, MintIInv, LockMarkIInv, MarkIsHigherIInv, RenameMarkIInv,
     SyncMarkIInv, MarkFailsIInv, PublishIInv DEF CommitStep
<1>2. CASE Restart
  BY <1>2, RestartIInv
<1>3. CASE UNCHANGED vars
  BY <1>3 DEF vars, cubeVars, markVars, IInv, TypeOK, MarkInv, PublishedBelowMark,
              MintInv, InFlight, HistoryInv
<1> QED BY <1>1, <1>2, <1>3 DEF Next

\* The inductive invariant holds in every behaviour of the commit protocol
\* (record_commit_version between mint and publish, boot seeding past the mark).
THEOREM Invariance == ASSUME OnlyWriteFails PROVE Spec => []IInv
<1>1. Init => IInv
  BY InitIInv
<1>2. IInv /\ [Next]_vars => IInv'
  BY StepIInv
<1> QED BY <1>1, <1>2, PTL DEF Spec

\* Types, and the mark lock held exactly inside write_commit_watermark.
THEOREM TypeCorrect == ASSUME OnlyWriteFails PROVE Spec => []TypeOK
<1>1. IInv => TypeOK
  BY DEF IInv
<1> QED BY <1>1, Invariance, PTL

\* Whatever mark a crash leaves, no client was ever shown a larger version.
THEOREM MarkCoversPublished == ASSUME OnlyWriteFails PROVE Spec => []PublishedBelowMark
<1>1. IInv => PublishedBelowMark
  BY DEF IInv
<1> QED BY <1>1, Invariance, PTL

\* apply_batch's optimistic check never accepts a base version other than 0
\* from a client that saw another content, across any number of restarts.
THEOREM NoForeignBase == ASSUME OnlyWriteFails PROVE Spec => []CasBaseIsCurrent
<1>1. IInv => CasBaseIsCurrent
  <2> SUFFICES ASSUME IInv, NEW c \in Cubes, NEW base \in history,
                      CasAccepts(c, base), base.ver # 0
               PROVE  base.rev = shown[c]
    BY DEF CasBaseIsCurrent
  <2> DEFINE now == Seen(c, version[c], shown[c])
  <2>1. now \in history /\ now.cube = c /\ now.ver = version[c] /\ now.rev = shown[c]
    BY DEF IInv, HistoryInv, Seen
  <2>2. base.cube = now.cube /\ base.ver = now.ver
    BY <2>1 DEF CasAccepts
  <2> QED BY <2>1, <2>2 DEF IInv, HistoryInv
<1> QED BY <1>1, Invariance, PTL

\* Published versions of a cube only grow, across restarts, and no two commits
\* of the system share one.
THEOREM Increasing == ASSUME OnlyWriteFails PROVE Spec => VersionsIncrease
<1> DEFINE Grows == \A c \in Cubes : version'[c] \notin {version[c], 0} =>
                      \A h \in history : /\ h.ver # version'[c]
                                         /\ h.cube = c => h.ver < version'[c]
<1>1. IInv /\ [Next]_vars => [Grows]_vars
  <2> SUFFICES ASSUME IInv, Next PROVE Grows
    OBVIOUS
  <2>1. ASSUME NEW d \in Cubes, Publish(d) PROVE Grows
    <3>1. \A c \in Cubes : version'[c] # version[c] => c = d /\ version'[c] = minted[d]
      BY <2>1 DEF IInv, TypeOK, Publish
    <3>2. \A h \in history : h.ver # minted[d] /\ (h.cube = d => h.ver < minted[d])
      BY <2>1 DEF IInv, MintInv, InFlight, Publish
    <3> QED BY <3>1, <3>2
  <2>2. ASSUME NEW d \in Cubes, CommitStep(d), ~Publish(d) PROVE UNCHANGED version
    BY <2>2 DEF CommitStep, Change, Mint, LockMark, MarkIsHigher, RenameMark,
                SyncMark, MarkFails, cubeVars
  <2>3. CASE Restart
    BY <2>3 DEF Restart
  <2> QED BY <2>1, <2>2, <2>3 DEF Next
<1> QED BY <1>1, Invariance, PTL DEF Spec, VersionsIncrease

-----------------------------------------------------------------------------
(* The cube as it is built.                                                  *)
\* The columns there were, and more after them.
Columns(more, attrs) ==
  /\ ASequence(more) /\ DOMAIN attrs \subseteq DOMAIN more /\ \A a \in DOMAIN attrs : more[a] = attrs[a]

LEMMA ColumnsAre ==
  ASSUME NEW attrs, ASequence(attrs), NEW new, ASequence(new)
  PROVE  Columns(attrs \o new, attrs)
<1> DEFINE T == Range(attrs) \cup Range(new)
<1>3. attrs \in Seq(T) /\ new \in Seq(T)
  <2>1. \A i \in 1 .. Len(attrs) : attrs[i] \in T
    BY SeqIs DEF Range
  <2>2. \A i \in 1 .. Len(new) : new[i] \in T
    BY SeqIs DEF Range
  <2> HIDE DEF T
  <2> QED BY <2>1, <2>2, SeqIs
<1> HIDE DEF T
<1>4. PICK more : more = attrs \o new
  BY ONLY TRUE
<1>5. more \in Seq(T) /\ Len(more) = Len(attrs) + Len(new) /\ \A i \in 1 .. Len(attrs) : more[i] = attrs[i]
  BY <1>3, <1>4
<1>6. ASequence(more)
  BY ONLY <1>5, SeqIsSeq
<1>7. DOMAIN attrs = 1 .. Len(attrs) /\ Len(attrs) \in Nat /\ Len(new) \in Nat /\ DOMAIN more = 1 .. Len(more)
  BY <1>6, SeqIs
<1>8. Columns(more, attrs)
  BY <1>5, <1>6, <1>7 DEF Columns
<1> QED BY ONLY <1>4, <1>8

LEMMA DeclaredOK ==
  ASSUME NEW dim, DimOK(dim), NEW names, ASequence(names)
  PROVE  DimOK(Declared(dim, names)) /\ Declared(dim, names).elements = dim.elements
<1>1. PICK new : new = [i \in DOMAIN names |-> [name |-> names[i], kind |-> Attributes[names[i]]]]
  BY ONLY TRUE
<1>2. ASequence(new)
  <2>1. DOMAIN names = 1 .. Len(names) /\ Len(names) \in Nat
    BY SeqIs
  <2>2. new = [i \in 1 .. Len(names) |-> new[i]]
    BY <1>1, <2>1
  <2> QED BY ONLY <2>1, <2>2, ListIsSeq
<1>3. PICK attrs : attrs = dim.attributes \o new /\ Columns(attrs, dim.attributes)
  <2>1. PICK was : was = dim.attributes
    BY ONLY TRUE
  <2>2. ASequence(was)
    BY <2>1, DimFacts
  <2>3. Columns(was \o new, was)
    BY ONLY <2>2, <1>2, ColumnsAre
  <2> QED BY <2>1, <2>3
<1>4. Declared(dim, names) = WithAttributes(dim, attrs)
  BY <1>1, <1>3 DEF Declared, WithAttributes
<1>5. ASequence(attrs) /\ DOMAIN dim.attributes \subseteq DOMAIN attrs /\ \A a \in DOMAIN dim.attributes : attrs[a] = dim.attributes[a]
  BY <1>3 DEF Columns
<1> QED BY ONLY <1>4, <1>5, DimOK(dim), WithAttributesOK

LEMMA BuiltOK ==
  ASSUME NEW d \in 1 .. Rank, NEW dim, DimOK(dim), \A v \in Range(BuiltFrom.values[d]) : v.element \in Names(dim),
         ~Built(d, dim).failed
  PROVE  DimOK(Built(d, dim).dim)
<1>1. PICK values, names : values = BuiltFrom.values[d] /\ names = BuiltFrom.attributes[d]
  BY ONLY TRUE
<1>2. ASequence(values) /\ ASequence(names)
      /\ \A v \in Range(values) : v = [element |-> v.element, attribute |-> v.attribute, value |-> v.value]
  BY <1>1, BuiltFromAssumption
<1>3. PICK items : items = [i \in DOMAIN values |-> [values[i] EXCEPT !.element = IndexOf(dim, @)]]
  BY ONLY TRUE
<1>4. PICK declared : declared = Declared(dim, names)
  BY ONLY TRUE
<1>5. DimOK(declared) /\ declared.elements = dim.elements
  BY <1>2, <1>4, DeclaredOK
<1>6. ASequence(items) /\ DOMAIN items = DOMAIN values
  <2>1. PICK n \in Nat : DOMAIN values = 1 .. n
    BY <1>2, SeqIs
  <2>2. items = [i \in 1 .. n |-> items[i]]
    BY <1>3, <2>1
  <2> QED BY ONLY <2>1, <2>2, ListIsSeq
<1>7. ASSUME NEW i \in DOMAIN items PROVE items[i].element \in DOMAIN declared.elements
  <2>1. values[i] \in Range(values)
    BY <1>6 DEF Range
  <2>2. PICK v : v = values[i] /\ v = [element |-> v.element, attribute |-> v.attribute, value |-> v.value]
    BY <2>1, <1>2
  <2>3. v.element \in Names(dim)
    BY <1>1, <2>1, <2>2
  <2>4. items[i] = [v EXCEPT !.element = IndexOf(dim, @)]
    BY <1>3, <1>6, <2>2
  <2>5. items[i].element = IndexOf(dim, v.element)
    BY <2>2, <2>4
  <2>6. IndexOf(dim, v.element) \in DOMAIN dim.elements
    BY <2>3, NamedOnes
  <2> QED BY <1>5, <2>5, <2>6
<1>8. Built(d, dim) = SetInTurn(declared, items)
  BY ONLY <1>1, <1>3, <1>4 DEF Built
<1>9. SettingOK(SetInTurn(declared, items), declared.elements)
  BY ONLY <1>5, <1>6, <1>7, SettingInTurnOK
<1> QED BY <1>8, <1>9 DEF SettingOK

\* The pool holds each text once.
PoolOK == ASequence(pool) /\ \A i, j \in DOMAIN pool : pool[i] = pool[j] => i = j

LEMMA BuildsOK == CubeInit => DimsOK(dims) /\ PoolOK
<1> SUFFICES ASSUME CubeInit PROVE DimsOK(dims) /\ PoolOK
  OBVIOUS
<1>1. PICK none : none = [d \in 1 .. Rank |-> EmptyDimension]
  BY ONLY TRUE
<1>2. DimsOK(none)
  <2>1. \A d \in 1 .. Rank : none[d] = EmptyDimension
    BY <1>1
  <2>2. none = [d \in 1 .. Rank |-> none[d]]
    BY <1>1
  <2> QED BY ONLY <2>1, <2>2, EmptyIsOK DEF DimsOK
<1>3. PICK elements, edges : elements = BuiltFrom.elements /\ edges = BuiltFrom.edges
  BY ONLY TRUE
<1>4. ASequence(elements) /\ ASequence(edges) /\ \A i \in DOMAIN elements : elements[i].kind \in ElementKinds
  BY <1>3, BuiltFromAssumption DEF Range
<1>5. PICK grown : grown = ApplyGrowth(none, elements, edges)
  BY ONLY TRUE
<1>6. BatchOK(grown, none)
  BY ONLY <1>2, <1>4, <1>5, GrowthOK
<1>7. /\ ~grown.failed
      /\ \A d \in 1 .. Rank : /\ \A v \in Range(BuiltFrom.values[d]) : v.element \in Names(grown.dims[d])
                              /\ ~Built(d, grown.dims[d]).failed
      /\ dims = [d \in 1 .. Rank |-> Built(d, grown.dims[d]).dim]
  BY <1>1, <1>3, <1>5 DEF CubeInit
<1>8. \A d \in 1 .. Rank : DimOK(dims[d])
  <2> SUFFICES ASSUME NEW d \in 1 .. Rank PROVE DimOK(dims[d])
    OBVIOUS
  <2>1. PICK dim : dim = grown.dims[d]
    BY ONLY TRUE
  <2>2. DimOK(dim)
    BY <1>6, <1>7, <2>1 DEF BatchOK, DimsOK
  <2>3. (\A v \in Range(BuiltFrom.values[d]) : v.element \in Names(dim)) /\ ~Built(d, dim).failed
    BY <1>7, <2>1
  <2>4. DimOK(Built(d, dim).dim)
    BY ONLY <2>2, <2>3, BuiltOK
  <2>5. dims[d] = Built(d, dim).dim
    BY <1>7, <2>1
  <2> QED BY ONLY <2>4, <2>5
<1>9. dims = [d \in 1 .. Rank |-> dims[d]]
  BY <1>7
<1>10. PoolOK
  <2>1. pool = <<>>
    BY DEF CubeInit
  <2> QED BY <2>1 DEF PoolOK, ASequence, Range
<1> QED BY <1>8, <1>9, <1>10 DEF DimsOK

-----------------------------------------------------------------------------
(* Each edit of the schema, and each write of a cell.                        *)
DimsHold == DimsOK(dims) /\ PoolOK

LEMMA DimsDimOK ==
  ASSUME DimsOK(dims), NEW d \in 1 .. Rank
  PROVE  DimOK(dims[d]) /\ Positions(d) = DOMAIN dims[d].elements
BY DEF DimsOK, Positions

LEMMA OneDimEdited ==
  ASSUME DimsOK(dims), NEW d \in 1 .. Rank, NEW dim, DimOK(dim), dims' = [dims EXCEPT ![d] = dim]
  PROVE  DimsOK(dims')
<1>1. PICK ds, new : ds = dims /\ new = dims'
  BY ONLY TRUE
<1>2. DimsOK(ds) /\ new = [ds EXCEPT ![d] = dim]
  BY <1>1
<1>3. DimsOK(new)
  BY ONLY <1>2, d \in 1 .. Rank, DimOK(dim), OneDimChanged
<1> QED BY ONLY <1>1, <1>3

\* Dimension d has another form: one in which the names keep their kinds wherever
\* they went, and the cells with them; or one in which only e may have another kind.
MovedDim(d) == \E to : MovesTo(to, dims[d]) /\ RemapCells(d, to)
RetypedDim(d, e) ==
  \E new : /\ DimOK(new) /\ PlacesStay(new, dims[d], e) /\ SamePlaces(new, dims[d])
           /\ dims' = [dims EXCEPT ![d] = new]
SameSizes(ds2, ds) == \A x \in 1 .. Rank : Size(ds2[x]) = Size(ds[x])
Unmoved == UNCHANGED <<layout, cells, textCells>> /\ SameSizes(dims', dims)

LEMMA MovesKeep ==
  ASSUME DimsHold, NEW d \in 1 .. Rank, MovesPositions(d)
  PROVE  DimsHold' /\ MovedDim(d)
<1>1. DimsOK(dims) /\ PoolOK /\ DimOK(dims[d]) /\ Positions(d) = DOMAIN dims[d].elements
  BY DimsDimOK DEF DimsHold
<1>2. PICK dim : dim = dims[d] /\ DimOK(dim)
  BY <1>1
<1>3. ASSUME NEW to, RemapCells(d, to), MovesTo(to, dim), UNCHANGED pool
      PROVE  DimsHold' /\ MovedDim(d)
  <2>1. PICK new : new = to.dim /\ DimOK(new)
    BY <1>3 DEF MovesTo
  <2>2. dims' = [dims EXCEPT ![d] = new]
    BY <1>3, <2>1 DEF RemapCells
  <2>3. DimsOK(dims')
    BY ONLY <1>1, <2>1, <2>2, d \in 1 .. Rank, OneDimEdited
  <2> QED BY <1>1, <1>2, <1>3, <2>1, <2>2, <2>3 DEF DimsHold, PoolOK, MovedDim
<1>4. ASSUME NEW order \in [Positions(d) -> ElementNames[d]], ReorderElements(d, order)
      PROVE  DimsHold' /\ MovedDim(d)
  <2>1. PICK n \in Nat : DOMAIN dim.elements = 1 .. n
    BY <1>2, DimFacts
  <2>2. order = [i \in 1 .. n |-> order[i]]
    BY <1>1, <1>2, <1>4, <2>1
  <2>3. ASequence(order)
    BY ONLY <2>1, <2>2, ListIsSeq
  <2>4. CanReorder(dim, order) /\ RemapCells(d, Reordered(dim, order)) /\ UNCHANGED pool
    BY <1>2, <1>4 DEF ReorderElements
  <2>5. MovesTo(Reordered(dim, order), dim)
    BY ONLY <1>2, <2>3, <2>4, ReorderedOK
  <2> QED BY ONLY <1>3, <2>4, <2>5
<1>5. ASSUME NEW name, NEW kind \in ElementKinds, NEW at \in 1 .. (Size(dims[d]) + 1), InsertElementAt(d, name, kind, at)
      PROVE  DimsHold' /\ MovedDim(d)
  <2>1. name \notin Names(dim) /\ RemapCells(d, Inserted(dim, name, kind, at)) /\ UNCHANGED pool /\ at \in 1 .. (Size(dim) + 1)
    BY <1>2, <1>5 DEF InsertElementAt
  <2>2. MovesTo(Inserted(dim, name, kind, at), dim)
    BY ONLY <1>2, <1>5, <2>1, InsertedOK
  <2> QED BY ONLY <1>3, <2>1, <2>2
<1>6. ASSUME NEW e \in Positions(d), DeleteElement(d, e)
      PROVE  DimsHold' /\ MovedDim(d)
  <2>1. CanDelete(dim, e) /\ RemapCells(d, Deleted(dim, e)) /\ UNCHANGED pool /\ e \in DOMAIN dim.elements
    BY <1>1, <1>2, <1>6 DEF DeleteElement
  <2>2. MovesTo(Deleted(dim, e), dim)
    BY ONLY <1>2, <2>1, DeletedOK
  <2> QED BY ONLY <1>3, <2>1, <2>2
<1> QED BY <1>4, <1>5, <1>6 DEF MovesPositions

LEMMA ReparentingKeeps ==
  ASSUME DimsHold, NEW d \in 1 .. Rank, NEW e \in Positions(d), NEW w, NEW parent \in Positions(d) \cup {Gone},
         ReparentElement(d, e, parent, w)
  PROVE  /\ DimsHold' /\ RetypedDim(d, parent)
         /\ parent # Gone => dims'[d].elements[parent].kind = Consolidated
<1>1. DimsOK(dims) /\ PoolOK /\ DimOK(dims[d]) /\ Positions(d) = DOMAIN dims[d].elements
  BY DimsDimOK DEF DimsHold
<1>2. PICK dim : dim = dims[d] /\ DimOK(dim)
  BY <1>1
<1>3. PICK new : new = Reparented(dim, e, parent, w)
  BY ONLY TRUE
<1>4. CanReparent(dim, e, parent) /\ UNCHANGED pool /\ e \in DOMAIN dim.elements /\ parent \in DOMAIN dim.elements \cup {Gone}
  BY <1>1, <1>2 DEF ReparentElement
<1>5. dims' = [dims EXCEPT ![d] = new]
  BY <1>2, <1>3 DEF ReparentElement
<1>6. /\ DimOK(new) /\ PlacesStay(new, dim, parent) /\ SamePlaces(new, dim)
      /\ parent # Gone => new.elements[parent].kind = Consolidated
  BY ONLY <1>2, <1>3, <1>4, ReparentedOK
<1>7. DimsOK(dims')
  BY ONLY <1>1, <1>5, <1>6, d \in 1 .. Rank, OneDimEdited
<1>8. dims'[d] = new
  BY <1>1, <1>5 DEF DimsOK
<1> QED BY <1>1, <1>2, <1>4, <1>5, <1>6, <1>7, <1>8 DEF DimsHold, PoolOK, RetypedDim

LEMMA AddingKeeps ==
  ASSUME DimsHold, NEW d \in 1 .. Rank, NEW e \in Positions(d), NEW w, NEW parent \in Positions(d),
         AddChildElement(d, parent, e, w)
  PROVE  DimsHold' /\ RetypedDim(d, parent) /\ dims'[d].elements[parent].kind = Consolidated
<1>1. DimsOK(dims) /\ PoolOK /\ DimOK(dims[d]) /\ Positions(d) = DOMAIN dims[d].elements
  BY DimsDimOK DEF DimsHold
<1>2. PICK dim : dim = dims[d] /\ DimOK(dim)
  BY <1>1
<1>3. PICK held : held = WithKind(dim, parent, Consolidated)
  BY ONLY TRUE
<1>4. PICK new : new = AddChild(held, parent, e, w)
  BY ONLY TRUE
<1>5. /\ e \notin ChildSet(dim.children[parent]) /\ CanAddChild(held, parent, e) /\ UNCHANGED pool
      /\ dims' = [dims EXCEPT ![d] = new]
  BY <1>2, <1>3, <1>4 DEF AddChildElement
<1>6. parent \in DOMAIN dim.elements /\ e \in DOMAIN dim.elements /\ Consolidated \in ElementKinds
  BY <1>1, <1>2 DEF ElementKinds
<1>7. /\ DimOK(held) /\ DOMAIN held.elements = DOMAIN dim.elements /\ held.children = dim.children
      /\ PlacesStay(held, dim, parent) /\ held.elements[parent].kind = Consolidated
  BY ONLY <1>2, <1>3, <1>6, WithKindOK
<1>8. parent \in DOMAIN held.elements /\ e \in DOMAIN held.elements /\ e \notin ChildSet(held.children[parent])
  BY ONLY <1>5, <1>6, <1>7
<1>9. DimOK(new) /\ new.elements = held.elements
  BY ONLY <1>4, <1>5, <1>7, <1>8, AddChildOK
<1>10. PlacesStay(new, dim, parent) /\ SamePlaces(new, dim)
  BY ONLY <1>7, <1>9 DEF PlacesStay, SamePlaces
<1>11. DimsOK(dims')
  BY ONLY <1>1, <1>5, <1>9, d \in 1 .. Rank, OneDimEdited
<1>12. dims'[d] = new
  BY <1>1, <1>5 DEF DimsOK
<1> QED BY <1>1, <1>2, <1>5, <1>7, <1>9, <1>10, <1>11, <1>12 DEF DimsHold, PoolOK, RetypedDim

LEMMA RetypingKeeps ==
  ASSUME DimsHold, NEW d \in 1 .. Rank, NEW e \in Positions(d), NEW kind \in ElementKinds, SetElementKind(d, e, kind)
  PROVE  DimsHold' /\ RetypedDim(d, e) /\ dims'[d].elements[e].kind = kind
<1>1. DimsOK(dims) /\ PoolOK /\ DimOK(dims[d]) /\ Positions(d) = DOMAIN dims[d].elements
  BY DimsDimOK DEF DimsHold
<1>2. PICK dim : dim = dims[d] /\ DimOK(dim)
  BY <1>1
<1>3. PICK new : new = WithKind(dim, e, kind)
  BY ONLY TRUE
<1>4. CanSetKind(dim, e, kind) /\ dims' = [dims EXCEPT ![d] = new] /\ UNCHANGED pool /\ e \in DOMAIN dim.elements
  BY <1>1, <1>2, <1>3 DEF SetElementKind
<1>5. DimOK(new) /\ PlacesStay(new, dim, e) /\ new.elements[e].kind = kind /\ SamePlaces(new, dim)
  BY ONLY <1>2, <1>3, <1>4, kind \in ElementKinds, WithKindOK DEF SamePlaces
<1>6. DimsOK(dims')
  BY ONLY <1>1, <1>4, <1>5, d \in 1 .. Rank, OneDimEdited
<1>7. dims'[d] = new
  BY <1>1, <1>4 DEF DimsOK
<1> QED BY <1>1, <1>2, <1>4, <1>5, <1>6, <1>7 DEF DimsHold, PoolOK, RetypedDim

LEMMA OneOrNoneIs ==
  ASSUME NEW S, NEW items \in OneOrNone(S)
  PROVE  ASequence(items) /\ \A i \in DOMAIN items : items[i] \in S
<1>1. CASE items = <<>>
  BY <1>1 DEF ASequence, Range
<1>2. ASSUME NEW x \in S, items = <<x>> PROVE ASequence(items) /\ \A i \in DOMAIN items : items[i] \in S
  <2>1. items \in Seq({x}) /\ DOMAIN items = {1} /\ items[1] = x
    BY <1>2
  <2>2. ASequence(items)
    BY ONLY <2>1, SeqIsSeq
  <2> QED BY <2>1, <2>2
<1> QED BY <1>1, <1>2 DEF OneOrNone

LEMMA SparingKeeps ==
  ASSUME DimsHold, NEW d \in 1 .. Rank, SparesSandboxes(d)
  PROVE  DimsHold' /\ Follows(dims', dims) /\ (Relayout \/ Unmoved)
<1>1. DimsOK(dims) /\ PoolOK /\ DimOK(dims[d]) /\ Positions(d) = DOMAIN dims[d].elements
  BY DimsDimOK DEF DimsHold
<1>2. PICK dim : dim = dims[d] /\ DimOK(dim)
  BY <1>1
<1>3. ASSUME NEW new, DimOK(new), PlacesStay(new, dim, Gone), SamePlaces(new, dim), dims' = [dims EXCEPT ![d] = new],
             UNCHANGED <<layout, cells, textCells, pool>>
      PROVE  DimsHold' /\ Follows(dims', dims) /\ Unmoved
  <2>1. DimsOK(dims')
    BY ONLY <1>1, <1>3, d \in 1 .. Rank, OneDimEdited
  <2>2. Follows(dims', dims)
    <3>1. PICK ds : ds = dims /\ DimsOK(ds) /\ Follows(ds, ds) /\ PlacesStay(new, ds[d], Gone) /\ dims' = [ds EXCEPT ![d] = new]
      BY <1>1, <1>2, <1>3, FollowsItself
    <3>2. Follows([ds EXCEPT ![d] = new], ds)
      BY ONLY <3>1, d \in 1 .. Rank, OneDimFollows
    <3> QED BY ONLY <3>1, <3>2
  <2>3. SameSizes(dims', dims)
    <3>1. PICK ds, ds2 : ds = dims /\ ds2 = dims' /\ DimsOK(ds) /\ ds2 = [ds EXCEPT ![d] = new] /\ dim = ds[d]
      BY <1>1, <1>2, <1>3
    <3>2. ds2[d] = new /\ \A x \in 1 .. Rank : x # d => ds2[x] = ds[x]
      BY <3>1 DEF DimsOK
    <3>3. Len(new.elements) = Len(dim.elements)
      BY <1>2, <1>3, DimFacts DEF SamePlaces
    <3>4. SameSizes(ds2, ds)
      BY ONLY <3>1, <3>2, <3>3 DEF SameSizes, Size
    <3> QED BY ONLY <3>1, <3>4
  <2> QED BY <1>1, <1>3, <2>1, <2>2, <2>3 DEF DimsHold, PoolOK, Unmoved
<1>4. ASSUME NEW elements \in OneOrNone(AnElement(d)), NEW edges \in OneOrNone(AnEdge(d)), ExtendSchema(elements, edges)
      PROVE  DimsHold' /\ Follows(dims', dims) /\ (Relayout \/ Unmoved)
  <2>1. ASequence(elements) /\ \A i \in DOMAIN elements : elements[i] \in AnElement(d)
    BY OneOrNoneIs
  <2>2. ASequence(edges)
    BY OneOrNoneIs
  <2>3. \A i \in DOMAIN elements : elements[i].kind \in ElementKinds
    BY <2>1 DEF AnElement
  <2>4. PICK grown, ds : grown = ApplyGrowth(dims, elements, edges) /\ ds = dims
    BY ONLY TRUE
  <2>5. BatchOK(grown, ds)
    <3>1. DimsOK(ds) /\ grown = ApplyGrowth(ds, elements, edges)
      BY <1>1, <2>4
    <3> QED BY ONLY <2>1, <2>2, <2>3, <3>1, GrowthOK
  <2>6. ~grown.failed /\ dims' = grown.dims /\ pool' = pool /\ Relayout
    BY <1>4, <2>4 DEF ExtendSchema
  <2>7. DimsOK(dims') /\ Follows(dims', dims)
    BY ONLY <2>4, <2>5, <2>6 DEF BatchOK
  <2> QED BY <1>1, <2>6, <2>7 DEF DimsHold, PoolOK
<1>5. ASSUME NEW name, DefineAttribute(d, name)
      PROVE  DimsHold' /\ Follows(dims', dims) /\ (Relayout \/ Unmoved)
  <2>1. PICK new : new = AddAttribute(dim, name, Attributes[name])
    BY ONLY TRUE
  <2>2. dims' = [dims EXCEPT ![d] = new] /\ UNCHANGED <<layout, cells, textCells, pool>>
    BY <1>2, <1>5, <2>1 DEF DefineAttribute
  <2>3. DimOK(new) /\ PlacesStay(new, dim, Gone) /\ SamePlaces(new, dim)
    BY ONLY <1>2, <2>1, AddAttributeOK, SameElements
  <2> QED BY ONLY <1>3, <2>2, <2>3
<1>6. ASSUME NEW name, NEW e \in Positions(d), NEW f \in Positions(d), NEW v, NEW w,
             SetAttributeValues(d, name, <<[element |-> e, value |-> v], [element |-> f, value |-> w]>>)
      PROVE  DimsHold' /\ Follows(dims', dims) /\ (Relayout \/ Unmoved)
  <2>1. PICK assigns : assigns = <<[element |-> e, value |-> v], [element |-> f, value |-> w]>>
    BY ONLY TRUE
  <2>2. PICK values : values = [i \in DOMAIN assigns |->
                         [element |-> assigns[i].element, attribute |-> name, value |-> assigns[i].value]]
    BY ONLY TRUE
  <2>3. DOMAIN assigns = 1 .. 2 /\ assigns[1].element = e /\ assigns[2].element = f
    BY <2>1
  <2>4. values = [i \in 1 .. 2 |-> values[i]] /\ DOMAIN values = 1 .. 2
    BY <2>2, <2>3
  <2>5. ASequence(values)
    BY <2>4, ListIsSeq
  <2>6. \A i \in DOMAIN values : values[i].element \in DOMAIN dim.elements
    <3>1. \A i \in 1 .. 2 : values[i].element = assigns[i].element
      BY <2>2, <2>3
    <3>2. \A i \in 1 .. 2 : assigns[i].element \in Positions(d)
      <4>1. \A i \in 1 .. 2 : i = 1 \/ i = 2
        OBVIOUS
      <4> QED BY <2>3, <4>1
    <3> QED BY <1>1, <1>2, <2>4, <3>1, <3>2
  <2>7. PICK done : done = SetInTurn(dim, values)
    BY ONLY TRUE
  <2>8. SettingOK(done, dim.elements)
    BY ONLY <1>2, <2>5, <2>6, <2>7, SettingInTurnOK
  <2>9. ~done.failed /\ dims' = [dims EXCEPT ![d] = done.dim] /\ UNCHANGED <<layout, cells, textCells, pool>>
    BY <1>2, <1>6, <2>1, <2>2, <2>7 DEF SetAttributeValues
  <2>10. PICK new : new = done.dim
    BY ONLY TRUE
  <2>11. DimOK(new) /\ new.elements = dim.elements
    BY <2>8, <2>9, <2>10 DEF SettingOK
  <2>12. PlacesStay(new, dim, Gone) /\ SamePlaces(new, dim)
    BY ONLY <2>11, SameElements
  <2> QED BY ONLY <1>3, <2>9, <2>10, <2>11, <2>12
<1>7. ASSUME NEW e \in Positions(d), NEW up, PinElement(d, e, up)
      PROVE  DimsHold' /\ Follows(dims', dims) /\ (Relayout \/ Unmoved)
  <2>1. PICK new : new = Pinned(dim, e, up)
    BY ONLY TRUE
  <2>2. dims' = [dims EXCEPT ![d] = new] /\ UNCHANGED <<layout, cells, textCells, pool>> /\ e \in DOMAIN dim.elements
    BY <1>1, <1>2, <1>7, <2>1 DEF PinElement
  <2>3. DimOK(new) /\ PlacesStay(new, dim, Gone) /\ SamePlaces(new, dim)
    BY ONLY <1>2, <2>1, <2>2, PinnedOK
  <2> QED BY ONLY <1>3, <2>2, <2>3
<1>8. ASSUME NEW parent \in Positions(d), NEW child \in Positions(d), RemoveChildElement(d, parent, child)
      PROVE  DimsHold' /\ Follows(dims', dims) /\ (Relayout \/ Unmoved)
  <2>1. PICK new : new = RemoveChild(dim, parent, child)
    BY ONLY TRUE
  <2>2. dims' = [dims EXCEPT ![d] = new] /\ UNCHANGED <<layout, cells, textCells, pool>> /\ parent \in DOMAIN dim.elements
    BY <1>1, <1>2, <1>8, <2>1 DEF RemoveChildElement
  <2>3. DimOK(new) /\ new.elements = dim.elements
    BY ONLY <1>2, <2>1, <2>2, RemoveChildOK
  <2>4. PlacesStay(new, dim, Gone) /\ SamePlaces(new, dim)
    BY ONLY <2>3, SameElements
  <2> QED BY ONLY <1>3, <2>2, <2>3, <2>4
<1> QED BY <1>4, <1>5, <1>6, <1>7, <1>8 DEF SparesSandboxes

\* The pool, with a text more or with the ids nothing holds taken out.
LEMMA TextAdded ==
  ASSUME PoolOK, NEW text, text \notin Range(pool), pool' = Append(pool, text)
  PROVE  PoolOK'
<1>1. PICK p, q : p = pool /\ q = pool'
  BY ONLY TRUE
<1>2. ASequence(p) /\ q = Append(p, text) /\ \A i, j \in DOMAIN p : p[i] = p[j] => i = j
  BY <1>1 DEF PoolOK
<1>3. /\ ASequence(q) /\ DOMAIN q = 1 .. (Len(p) + 1) /\ q[Len(p) + 1] = text /\ \A i \in 1 .. Len(p) : q[i] = p[i]
      /\ DOMAIN p = 1 .. Len(p) /\ Len(p) \in Nat
  BY ONLY <1>2, AppendIs, SeqIs
<1>4. \A i \in DOMAIN p : p[i] # text
  BY <1>1 DEF Range
<1>5. ASSUME NEW i \in DOMAIN q, NEW j \in DOMAIN q, q[i] = q[j] PROVE i = j
  <2>1. (i \in 1 .. Len(p) \/ i = Len(p) + 1) /\ (j \in 1 .. Len(p) \/ j = Len(p) + 1)
    BY <1>3
  <2> QED BY <1>2, <1>3, <1>4, <1>5, <2>1
<1> QED BY <1>1, <1>3, <1>5 DEF PoolOK

LEMMA PoolCompacted ==
  ASSUME PoolOK, CompactStringPool
  PROVE  PoolOK'
<1>1. PICK p, q, ids, live : p = pool /\ q = pool' /\ ids = [id \in DOMAIN pool |-> id] /\ live = Range(textCells)
  BY ONLY TRUE
<1>2. PICK kept : kept = Those(ids, live)
  BY ONLY TRUE
<1>3. q = [new \in DOMAIN kept |-> p[kept[new]]]
  BY <1>1, <1>2 DEF CompactStringPool
<1>4. PICK n \in Nat : DOMAIN p = 1 .. n
  BY <1>1, SeqIs DEF PoolOK
<1>5. ids = [i \in 1 .. n |-> ids[i]] /\ \A i \in 1 .. n : ids[i] = i
  BY <1>1, <1>4
<1>6. ASequence(ids) /\ Len(ids) = n
  BY ONLY <1>4, <1>5, ListIsSeq
<1>7. PICK m \in Nat : \E pos : Picks(pos, m, ids, live, n) /\ kept = [i \in 1 .. m |-> ids[pos[i]]]
  BY ONLY <1>2, <1>6, ThoseArePicked
<1>8. PICK pos : Picks(pos, m, ids, live, n) /\ kept = [i \in 1 .. m |-> ids[pos[i]]]
  BY <1>7
<1>9. pos \in [1 .. m -> 1 .. n] /\ \A i, j \in 1 .. m : pos[i] = pos[j] => i = j
  BY <1>8 DEF Picks
<1>10. DOMAIN kept = 1 .. m /\ \A i \in 1 .. m : kept[i] = pos[i] /\ kept[i] \in 1 .. n
  BY <1>5, <1>8, <1>9
<1>11. q = [i \in 1 .. m |-> q[i]] /\ \A i \in 1 .. m : q[i] = p[pos[i]]
  BY <1>3, <1>10
<1>12. ASequence(q) /\ DOMAIN q = 1 .. m
  BY ONLY <1>7, <1>11, ListIsSeq
<1>13. \A i, j \in DOMAIN p : p[i] = p[j] => i = j
  BY <1>1 DEF PoolOK
<1>14. ASSUME NEW i \in DOMAIN q, NEW j \in DOMAIN q, q[i] = q[j] PROVE i = j
  <2>1. p[pos[i]] = p[pos[j]] /\ pos[i] \in DOMAIN p /\ pos[j] \in DOMAIN p
    BY <1>4, <1>9, <1>11, <1>12, <1>14
  <2>2. pos[i] = pos[j]
    BY <1>13, <2>1
  <2> QED BY <1>9, <1>12, <2>2
<1> QED BY <1>1, <1>12, <1>14 DEF PoolOK

LEMMA WritesKeep ==
  ASSUME DimsHold, CellWrite
  PROVE  DimsHold'
<1>1. DimsOK(dims) /\ PoolOK
  BY DEF DimsHold
<1>2. ASSUME dims' = dims, PoolOK' PROVE DimsHold'
  BY <1>1, <1>2 DEF DimsHold
<1>3. ASSUME NEW c, NEW v, SetLeaf(c, v) PROVE DimsHold'
  <2>1. dims' = dims /\ pool' = pool
    BY <1>3 DEF SetLeaf
  <2> QED BY <1>1, <1>2, <2>1 DEF PoolOK
<1>4. ASSUME NEW c, NEW t, SetString(c, t) PROVE DimsHold'
  <2>1. dims' = dims /\ (pool' = pool \/ (t \notin Range(pool) /\ pool' = Append(pool, t)))
    BY <1>4 DEF SetString
  <2>2. PoolOK'
    <3>1. CASE pool' = pool
      BY <1>1, <3>1 DEF PoolOK
    <3>2. CASE t \notin Range(pool) /\ pool' = Append(pool, t)
      BY ONLY <1>1, <3>2, TextAdded
    <3> QED BY ONLY <2>1, <3>1, <3>2
  <2> QED BY ONLY <1>2, <2>1, <2>2
<1>5. ASSUME CompactStringPool PROVE DimsHold'
  <2>1. dims' = dims
    BY <1>5 DEF CompactStringPool
  <2>2. PoolOK'
    BY ONLY <1>1, <1>5, PoolCompacted
  <2> QED BY ONLY <1>2, <2>1, <2>2
<1> QED BY <1>3, <1>4, <1>5 DEF CellWrite

LEMMA StoringKeeps ==
  ASSUME DimsHold, NEW u, Ask(u) \/ Compile(u) \/ Finish(u)
  PROVE  DimsHold'
<1>1. dims' = dims /\ pool' = pool
  <2>1. CASE Ask(u) \/ Compile(u)
    BY <2>1 DEF Ask, Compile, cube
  <2>2. CASE Finish(u)
    <3>1. PICK f : f = flights[u]
      BY ONLY TRUE
    <3>2. Store(f) \/ UNCHANGED <<cube, saved>>
      BY SMTT(30), <2>2, <3>1 DEF Finish
    <3>3. CASE Store(f)
      BY <3>3 DEF Store, CommitSandbox, cube
    <3> QED BY <3>2, <3>3 DEF cube
  <2> QED BY <2>1, <2>2
<1> QED BY <1>1 DEF DimsHold, DimsOK, PoolOK

-----------------------------------------------------------------------------
(* The sandboxes.  A cell where a number can be written, and a sandbox of    *)
(* such cells.                                                               *)
LeafCell(ds, c) ==
  /\ c = [d \in 1 .. Rank |-> c[d]] /\ 1 .. Rank # {}
  /\ \A d \in 1 .. Rank : c[d] \in DOMAIN ds[d].elements /\ ds[d].elements[c[d]].kind = Leaf

LeafCells(ds, map) == IsMap(map) /\ \A c \in DOMAIN map : LeafCell(ds, c)
SandboxOK(ds, s) == IsSandbox(s) /\ LeafCells(ds, s.cells)
SavedOK(ds, objs) == IsMap(objs) /\ \A k \in DOMAIN objs : k[1] = "sandbox" => SandboxOK(ds, objs[k])

LEMMA LeafCellsAre ==
  ASSUME NEW c
  PROVE  LeafCell(dims, c) <=> c \in Coords /\ TakesNumber(c)
<1> DEFINE All == UNION {Positions(d) : d \in 1 .. Rank}
<1>1. c \in Coords <=> c \in [1 .. Rank -> All] /\ \A d \in 1 .. Rank : c[d] \in DOMAIN dims[d].elements
  BY DEF Coords, Positions
<1>2. TakesNumber(c) <=> 1 .. Rank # {} /\ \A d \in 1 .. Rank : dims[d].elements[c[d]].kind = Leaf
  <2>1. TakesNumber(c) <=> {dims[d].elements[c[d]].kind : d \in 1 .. Rank} = {Leaf}
    BY DEF TakesNumber, KindsAt
  <2> DEFINE kinds == {dims[d].elements[c[d]].kind : d \in 1 .. Rank}
  <2>2. kinds = {Leaf} => 1 .. Rank # {} /\ \A d \in 1 .. Rank : dims[d].elements[c[d]].kind = Leaf
    <3> SUFFICES ASSUME kinds = {Leaf} PROVE 1 .. Rank # {} /\ \A d \in 1 .. Rank : dims[d].elements[c[d]].kind = Leaf
      OBVIOUS
    <3>1. \A d \in 1 .. Rank : dims[d].elements[c[d]].kind \in kinds
      OBVIOUS
    <3>2. 1 .. Rank # {}
      <4>1. Leaf \in kinds
        OBVIOUS
      <4> QED BY <4>1
    <3> HIDE DEF kinds
    <3> QED BY <3>1, <3>2
  <2>3. 1 .. Rank # {} /\ (\A d \in 1 .. Rank : dims[d].elements[c[d]].kind = Leaf) => kinds = {Leaf}
    OBVIOUS
  <2> QED BY <2>1, <2>2, <2>3
<1>3. (\A d \in 1 .. Rank : c[d] \in DOMAIN dims[d].elements) => \A d \in 1 .. Rank : c[d] \in All
  BY DEF Positions
<1>4. c \in [1 .. Rank -> All] => c = [d \in 1 .. Rank |-> c[d]]
  OBVIOUS
<1>5. c = [d \in 1 .. Rank |-> c[d]] /\ (\A d \in 1 .. Rank : c[d] \in All) => c \in [1 .. Rank -> All]
  OBVIOUS
<1> HIDE DEF All
<1> QED BY <1>1, <1>2, <1>3, <1>4, <1>5 DEF LeafCell

\* A sandbox with other cells in it.
LEMMA SandboxWith ==
  ASSUME NEW s, IsSandbox(s), NEW map, IsMap(map)
  PROVE  /\ IsSandbox([s EXCEPT !.cells = map]) /\ [s EXCEPT !.cells = map].cells = map
         /\ [s EXCEPT !.cells = map].owner = s.owner
<1>1. PICK new : new = [s EXCEPT !.cells = map]
  BY ONLY TRUE
<1>2. new = [owner |-> s.owner, public |-> s.public, cells |-> map]
  BY <1>1 DEF IsSandbox
<1>3. new.owner = s.owner /\ new.public = s.public /\ new.cells = map
  BY ONLY <1>2
<1>4. IsSandbox(new)
  BY ONLY <1>2, <1>3, IsMap(map) DEF IsSandbox, IsMap
<1> QED BY ONLY <1>1, <1>3, <1>4

\* What each of the sandboxes keeps, when some of them change.
SandboxesKeep(objs2, objs, ds) ==
  /\ IsMap(objs2) /\ DOMAIN objs2 = DOMAIN objs
  /\ \A k \in DOMAIN objs : k[1] # "sandbox" => objs2[k] = objs[k]
  /\ \A k \in DOMAIN objs : k[1] = "sandbox" => SandboxOK(ds, objs2[k]) /\ objs2[k].owner = objs[k].owner

LEMMA SandboxesKept ==
  ASSUME NEW objs2, NEW objs, NEW ds, NEW old, SavedOK(old, objs), SandboxesKeep(objs2, objs, ds)
  PROVE  /\ SavedOK(ds, objs2) /\ DOMAIN objs2 = DOMAIN objs
         /\ \A k \in DOMAIN objs : Owned(k) => objs2[k].owner = objs[k].owner
BY DEF SavedOK, SandboxesKeep, Owned

LEMMA SameSandboxes ==
  ASSUME NEW objs, NEW ds, NEW old, SavedOK(old, objs), \A c : LeafCell(old, c) => LeafCell(ds, c)
  PROVE  SandboxesKeep(objs, objs, ds)
BY DEF SavedOK, SandboxesKeep, SandboxOK, LeafCells

\* One of the dimensions, replaced.
Replaced(ds2, ds, d, new) == ds2 = [ds EXCEPT ![d] = new]

\* The cells of a sandbox, moved with the positions of dimension d.
LEMMA RemappedOK ==
  ASSUME NEW ds, DimsOK(ds), NEW d \in 1 .. Rank, NEW new, DimOK(new), FollowsNames(new, ds[d]),
         NEW ds2, Replaced(ds2, ds, d, new), NEW to, Follower(to, ds[d], new),
         NEW map, LeafCells(ds, map)
  PROVE  LeafCells(ds2, Remapped(map, d, to))
<1>1. PICK after : after = Remapped(map, d, to)
  BY ONLY TRUE
<1>2. DOMAIN ds = 1 .. Rank /\ DimOK(ds[d])
  BY DEF DimsOK
<1>3. ds2[d] = new /\ \A x \in 1 .. Rank : x # d => ds2[x] = ds[x]
  BY <1>2 DEF Replaced
<1> DEFINE kept == {c \in DOMAIN map : to[c[d]] # Gone}
<1>4. IsMap(after) /\ DOMAIN after = {[c EXCEPT ![d] = to[@]] : c \in kept}
  BY <1>1 DEF Remapped, IsMap
<1>5. ASSUME NEW c \in kept, NEW c2, c2 = [c EXCEPT ![d] = to[@]]
      PROVE  LeafCell(ds2, c2)
  <2>1. LeafCell(ds, c) /\ to[c[d]] # Gone
    BY DEF LeafCells
  <2>2. /\ c = [x \in 1 .. Rank |-> c[x]] /\ 1 .. Rank # {}
        /\ \A x \in 1 .. Rank : c[x] \in DOMAIN ds[x].elements /\ ds[x].elements[c[x]].kind = Leaf
    BY <2>1 DEF LeafCell
  <2>3. c2 = [x \in 1 .. Rank |-> c2[x]] /\ c2[d] = to[c[d]] /\ \A x \in 1 .. Rank : x # d => c2[x] = c[x]
    BY ONLY <1>5, <2>2, d \in 1 .. Rank
  <2>4. PICK old, was : old = c[d] /\ was = ds[d] /\ old \in DOMAIN was.elements /\ was.elements[old].kind = Leaf
    BY <2>2
  <2>5. Follower(to, was, new) /\ to[old] # Gone /\ FollowsNames(new, was)
    BY <2>1, <2>4
  <2>6. was.elements[old].name \in Names(new) /\ to[old] = IndexOf(new, was.elements[old].name)
    BY <2>4, <2>5 DEF Follower
  <2>7. to[old] \in DOMAIN new.elements /\ new.elements[to[old]].name = was.elements[old].name
    BY <2>6, NamedOnes
  <2>8. new.elements[to[old]].kind = Leaf
    BY <2>4, <2>5, <2>7 DEF FollowsNames
  <2>9. \A x \in 1 .. Rank : c2[x] \in DOMAIN ds2[x].elements /\ ds2[x].elements[c2[x]].kind = Leaf
    BY ONLY <1>3, <2>2, <2>3, <2>4, <2>7, <2>8
  <2> QED BY ONLY <2>2, <2>3, <2>9 DEF LeafCell
<1>6. \A c \in DOMAIN after : LeafCell(ds2, c)
  BY <1>4, <1>5
<1>7. LeafCells(ds2, after)
  BY ONLY <1>4, <1>6 DEF LeafCells
<1> QED BY ONLY <1>1, <1>7

\* Where nothing moves, nothing is remapped.
LEMMA RemappedStays ==
  ASSUME NEW ds, DimsOK(ds), NEW d \in 1 .. Rank, NEW to, Follower(to, ds[d], ds[d]), NEW map, LeafCells(ds, map)
  PROVE  Remapped(map, d, to) = map
<1>1. PICK was : was = ds[d] /\ DimOK(was) /\ Follower(to, was, was)
  BY DEF DimsOK
<1>2. \A old \in DOMAIN was.elements : to[old] = old /\ old # Gone
  <2>1. \A old \in DOMAIN was.elements : was.elements[old].name \in Names(was) /\ IndexOf(was, was.elements[old].name) = old
    BY <1>1 DEF DimOK, NamesFound, Names, IndexOf
  <2> QED BY <1>1, <2>1, GoneIsNowhere DEF Follower
<1>3. ASSUME NEW c \in DOMAIN map PROVE to[c[d]] # Gone /\ [c EXCEPT ![d] = to[@]] = c
  <2>1. c = [x \in 1 .. Rank |-> c[x]] /\ c[d] \in DOMAIN was.elements
    BY <1>1 DEF LeafCells, LeafCell
  <2>2. to[c[d]] = c[d] /\ to[c[d]] # Gone
    BY <1>2, <2>1
  <2> QED BY ONLY <2>1, <2>2
<1> DEFINE kept == {c \in DOMAIN map : to[c[d]] # Gone}
<1>4. kept = DOMAIN map
  BY <1>3
<1> DEFINE moved == {[c EXCEPT ![d] = to[@]] : c \in kept}
           from(new) == CHOOSE c \in kept : [c EXCEPT ![d] = to[@]] = new
<1>5. PICK f : f = Remapped(map, d, to) /\ f = [new \in moved |-> map[from(new)]]
  BY DEF Remapped
<1>6. moved = DOMAIN map
  <2>1. ASSUME NEW x \in moved PROVE x \in DOMAIN map
    <3>1. PICK c \in kept : x = [c EXCEPT ![d] = to[@]]
      OBVIOUS
    <3>2. c \in DOMAIN map
      OBVIOUS
    <3> QED BY ONLY <3>1, <3>2, <1>3
  <2>2. ASSUME NEW x \in DOMAIN map PROVE x \in moved
    <3>1. x \in kept /\ [x EXCEPT ![d] = to[@]] = x
      BY <1>3, <1>4
    <3> QED BY <3>1
  <2> HIDE DEF moved
  <2> QED BY <2>1, <2>2
<1>7. \A new \in DOMAIN map : from(new) = new
  BY <1>3, <1>4
<1> HIDE DEF moved, from, kept
<1>8. DOMAIN f = DOMAIN map /\ \A new \in DOMAIN map : f[new] = map[new]
  BY <1>5, <1>6, <1>7
<1>9. f = [new \in DOMAIN f |-> f[new]] /\ map = [new \in DOMAIN map |-> map[new]]
  BY <1>5 DEF LeafCells, IsMap
<1> QED BY <1>5, <1>8, <1>9

\* The sandboxes under each edit of the schema.
Sandboxed == SavedOK(dims, saved)
SandboxesFollow == SandboxesKeep(saved', saved, dims') /\ (dims' = dims => saved' = saved)

\* A cell that is not at the element e, unless e takes numbers.
Beside(c, d, e, new) == c[d] # e \/ new.elements[e].kind = Leaf
\* The cells of a sandbox, without those at the element e.
Pruned(after, map, d, e) == after = Restrict(map, {c \in DOMAIN map : c[d] # e})

LEMMA LeafCellStays ==
  ASSUME NEW ds, DimsOK(ds), NEW d \in 1 .. Rank, NEW new, NEW e, PlacesStay(new, ds[d], e),
         NEW ds2, Replaced(ds2, ds, d, new), NEW c, LeafCell(ds, c), Beside(c, d, e, new)
  PROVE  LeafCell(ds2, c)
<1>1. DOMAIN ds = 1 .. Rank
  BY DEF DimsOK
<1>2. ds2[d] = new /\ \A x \in 1 .. Rank : x # d => ds2[x] = ds[x]
  BY <1>1 DEF Replaced
<1>3. c[d] \in DOMAIN new.elements /\ new.elements[c[d]].kind = Leaf
  BY DEF PlacesStay, LeafCell, Beside
<1> QED BY <1>2, <1>3 DEF LeafCell

LEMMA PrunedIs ==
  ASSUME NEW ds, DimsOK(ds), NEW d \in 1 .. Rank, NEW new, NEW e, PlacesStay(new, ds[d], e),
         NEW ds2, Replaced(ds2, ds, d, new), NEW map, LeafCells(ds, map), NEW after, Pruned(after, map, d, e)
  PROVE  LeafCells(ds2, after)
<1>1. IsMap(after) /\ DOMAIN after = {c \in DOMAIN map : c[d] # e}
  BY DEF Restrict, IsMap, Pruned
<1>2. ASSUME NEW c \in DOMAIN map, c[d] # e PROVE LeafCell(ds2, c)
  <2>1. LeafCell(ds, c) /\ Beside(c, d, e, new)
    BY <1>2 DEF LeafCells, Beside
  <2> QED BY <2>1, LeafCellStays
<1> QED BY <1>1, <1>2 DEF LeafCells

LEMMA RemappingKeeps ==
  ASSUME DimsHold, Sandboxed, NEW d \in 1 .. Rank, MovedDim(d), RemapSandboxes(d)
  PROVE  SandboxesFollow
<1>1. PICK new : DimOK(new) /\ FollowsNames(new, dims[d]) /\ dims' = [dims EXCEPT ![d] = new]
  BY DEF MovedDim, MovesTo, RemapCells
<1>2. PICK ds, ds2, to : ds = dims /\ ds2 = dims' /\ to = PermutationByName(d)
  BY ONLY TRUE
<1>3. DimsOK(ds) /\ FollowsNames(new, ds[d]) /\ Replaced(ds2, ds, d, new) /\ DimOK(new)
  BY <1>1, <1>2 DEF DimsHold, Replaced
<1>4. ds2[d] = new
  BY <1>3 DEF DimsOK, Replaced
<1>5. Follower(to, ds[d], new)
  BY <1>2, <1>4 DEF PermutationByName, Positions, Follower
<1>6. /\ saved' = [k \in DOMAIN saved |-> saved'[k]]
      /\ \A k \in DOMAIN saved : k[1] # "sandbox" => saved'[k] = saved[k]
      /\ \A k \in DOMAIN saved : k[1] = "sandbox" =>
           saved'[k] = [saved[k] EXCEPT !.cells = Remapped(saved[k].cells, d, to)]
  BY <1>2 DEF RemapSandboxes, WithSandboxes, SandboxKeys
<1>7. ASSUME NEW k \in DOMAIN saved, k[1] = "sandbox"
      PROVE  /\ SandboxOK(ds2, saved'[k]) /\ saved'[k].owner = saved[k].owner
             /\ ds2 = ds => saved'[k] = saved[k]
  <2>1. PICK s, map : s = saved[k] /\ map = s.cells /\ IsSandbox(s) /\ LeafCells(ds, map)
    BY <1>2, <1>7 DEF Sandboxed, SavedOK, SandboxOK
  <2>2. PICK after : after = Remapped(map, d, to)
    BY ONLY TRUE
  <2>3. LeafCells(ds2, after)
    BY ONLY d \in 1 .. Rank, <1>3, <1>5, <2>1, <2>2, RemappedOK
  <2>4. saved'[k] = [s EXCEPT !.cells = after]
    BY <1>6, <1>7, <2>1, <2>2
  <2>5. IsMap(after)
    BY <2>3 DEF LeafCells
  <2>6. IsSandbox(saved'[k]) /\ saved'[k].cells = after /\ saved'[k].owner = s.owner
    BY ONLY <2>1, <2>4, <2>5, SandboxWith
  <2>7. ASSUME ds2 = ds PROVE saved'[k] = s
    <3>1. Follower(to, ds[d], ds[d])
      BY <1>4, <1>5, <2>7
    <3>2. after = map
      BY ONLY d \in 1 .. Rank, <1>3, <2>1, <2>2, <3>1, RemappedStays
    <3>3. [s EXCEPT !.cells = map] = s
      <4>1. s = [owner |-> s.owner, public |-> s.public, cells |-> s.cells] /\ map = s.cells
        BY <2>1 DEF IsSandbox
      <4> QED BY ONLY <4>1
    <3> QED BY ONLY <2>4, <3>2, <3>3
  <2> QED BY <2>1, <2>3, <2>6, <2>7 DEF SandboxOK
<1>8. SandboxesKeep(saved', saved, ds2)
  BY <1>6, <1>7 DEF SandboxesKeep, IsMap
<1>9. ASSUME ds2 = ds PROVE saved' = saved
  <2>1. saved = [k \in DOMAIN saved |-> saved[k]]
    BY DEF Sandboxed, SavedOK, IsMap
  <2>2. \A k \in DOMAIN saved : saved'[k] = saved[k]
    BY <1>6, <1>7, <1>9
  <2> QED BY <1>6, <2>1, <2>2
<1> QED BY <1>2, <1>8, <1>9 DEF SandboxesFollow

LEMMA PruningKeeps ==
  ASSUME DimsHold, Sandboxed, NEW d \in 1 .. Rank, NEW e, RetypedDim(d, e), PruneSandboxes(d, e)
  PROVE  SandboxesKeep(saved', saved, dims')
<1>1. PICK new : DimOK(new) /\ PlacesStay(new, dims[d], e) /\ dims' = [dims EXCEPT ![d] = new]
  BY DEF RetypedDim
<1>2. PICK ds, ds2 : ds = dims /\ ds2 = dims'
  BY ONLY TRUE
<1>3. DimsOK(ds) /\ PlacesStay(new, ds[d], e) /\ Replaced(ds2, ds, d, new)
  BY <1>1, <1>2 DEF DimsHold, Replaced
<1>4. /\ saved' = [k \in DOMAIN saved |-> saved'[k]]
      /\ \A k \in DOMAIN saved : k[1] # "sandbox" => saved'[k] = saved[k]
      /\ \A k \in DOMAIN saved : k[1] = "sandbox" =>
           saved'[k] = [saved[k] EXCEPT !.cells = Restrict(saved[k].cells, {c \in DOMAIN saved[k].cells : c[d] # e})]
  BY DEF PruneSandboxes, WithSandboxes, SandboxKeys
<1>5. ASSUME NEW k \in DOMAIN saved, k[1] = "sandbox"
      PROVE  SandboxOK(ds2, saved'[k]) /\ saved'[k].owner = saved[k].owner
  <2>1. PICK s, map : s = saved[k] /\ map = s.cells /\ IsSandbox(s) /\ LeafCells(ds, map)
    BY <1>2, <1>5 DEF Sandboxed, SavedOK, SandboxOK
  <2>2. PICK after : Pruned(after, map, d, e)
    BY DEF Pruned
  <2>3. LeafCells(ds2, after)
    BY ONLY d \in 1 .. Rank, <1>3, <2>1, <2>2, PrunedIs
  <2>4. saved'[k] = [s EXCEPT !.cells = after]
    BY <1>4, <1>5, <2>1, <2>2 DEF Pruned
  <2>5. IsMap(after)
    BY <2>3 DEF LeafCells
  <2>6. IsSandbox(saved'[k]) /\ saved'[k].cells = after /\ saved'[k].owner = s.owner
    BY ONLY <2>1, <2>4, <2>5, SandboxWith
  <2> QED BY <2>1, <2>3, <2>6 DEF SandboxOK
<1> QED BY <1>2, <1>4, <1>5 DEF SandboxesKeep, IsMap

\* Where no sandbox holds a cell at e that it should lose.
LEMMA SparedSandboxes ==
  ASSUME DimsHold, Sandboxed, NEW d \in 1 .. Rank, NEW e, RetypedDim(d, e), UNCHANGED saved,
         e = Gone \/ dims[d].elements[e].kind # Leaf \/ dims'[d].elements[e].kind = Leaf
  PROVE  SandboxesKeep(saved', saved, dims')
<1>1. PICK new : DimOK(new) /\ PlacesStay(new, dims[d], e) /\ dims' = [dims EXCEPT ![d] = new]
  BY DEF RetypedDim
<1>2. PICK ds, ds2 : ds = dims /\ ds2 = dims'
  BY ONLY TRUE
<1>3. DimsOK(ds) /\ PlacesStay(new, ds[d], e) /\ Replaced(ds2, ds, d, new) /\ DimOK(ds[d])
  BY <1>1, <1>2 DEF DimsHold, DimsOK, Replaced
<1>4. ds2[d] = new
  BY <1>3 DEF DimsOK, Replaced
<1>5. ASSUME NEW c, LeafCell(ds, c) PROVE LeafCell(ds2, c)
  <2>1. Beside(c, d, e, new)
    <3>1. c[d] \in DOMAIN ds[d].elements /\ ds[d].elements[c[d]].kind = Leaf
      BY <1>5 DEF LeafCell
    <3>2. Gone \notin DOMAIN ds[d].elements
      BY <1>3, GoneIsNowhere
    <3> QED BY <1>2, <1>4, <3>1, <3>2 DEF Beside
  <2> QED BY ONLY d \in 1 .. Rank, <1>3, <1>5, <2>1, LeafCellStays
<1>6. SandboxesKeep(saved, saved, ds2)
  BY <1>2, <1>5, SameSandboxes DEF Sandboxed
<1> QED BY <1>2, <1>6

LEMMA ConvertingKeeps ==
  ASSUME DimsHold, Sandboxed, NEW d \in 1 .. Rank, NEW e, RetypedDim(d, e), PruneIfConverted(d, e),
         e # Gone => dims'[d].elements[e].kind = Consolidated
  PROVE  SandboxesFollow
<1>1. CASE e # Gone /\ dims[d].elements[e].kind # Consolidated
  <2>1. PruneSandboxes(d, e)
    BY <1>1 DEF PruneIfConverted
  <2>2. dims' # dims
    BY <1>1
  <2> QED BY <2>1, <2>2, PruningKeeps DEF SandboxesFollow
<1>2. CASE ~(e # Gone /\ dims[d].elements[e].kind # Consolidated)
  <2>1. UNCHANGED saved /\ (e = Gone \/ dims[d].elements[e].kind # Leaf)
    BY <1>2 DEF PruneIfConverted, Consolidated, Leaf
  <2> QED BY <2>1, SparedSandboxes DEF SandboxesFollow
<1> QED BY <1>1, <1>2

LEMMA RetypingFollows ==
  ASSUME DimsHold, Sandboxed, NEW d \in 1 .. Rank, RetypesAnElement(d)
  PROVE  DimsHold' /\ SandboxesFollow
<1>1. PICK e \in Positions(d), kind \in ElementKinds :
        /\ SetElementKind(d, e, kind)
        /\ LET was == dims[d].elements[e].kind
           IN IF (was = Leaf /\ kind # Leaf) \/ (was = Str /\ kind = Consolidated)
              THEN PruneSandboxes(d, e) ELSE UNCHANGED saved
  BY DEF RetypesAnElement
<1>2. DimsHold' /\ RetypedDim(d, e) /\ dims'[d].elements[e].kind = kind
  BY <1>1, RetypingKeeps
<1>3. PICK was : was = dims[d].elements[e].kind
  BY ONLY TRUE
<1>4. CASE (was = Leaf /\ kind # Leaf) \/ (was = Str /\ kind = Consolidated)
  <2>1. PruneSandboxes(d, e)
    BY <1>1, <1>3, <1>4
  <2>2. dims' # dims
    <3>1. was # kind
      BY <1>4 DEF Str, Consolidated
    <3> QED BY <1>2, <1>3, <3>1
  <2> QED BY <1>2, <2>1, <2>2, PruningKeeps DEF SandboxesFollow
<1>5. CASE ~((was = Leaf /\ kind # Leaf) \/ (was = Str /\ kind = Consolidated))
  <2>1. UNCHANGED saved /\ (was # Leaf \/ kind = Leaf)
    BY <1>1, <1>3, <1>5
  <2> QED BY <1>2, <1>3, <2>1, SparedSandboxes DEF SandboxesFollow
<1> QED BY <1>4, <1>5

LEMMA SparingFollows ==
  ASSUME DimsHold, Sandboxed, NEW d \in 1 .. Rank, SparesSandboxes(d)
  PROVE  DimsHold' /\ SandboxesFollow
<1>1. DimsHold' /\ Follows(dims', dims) /\ UNCHANGED saved
  BY SparingKeeps DEF SparesSandboxes
<1>2. PICK ds, ds2 : ds = dims /\ ds2 = dims'
  BY ONLY TRUE
<1>3. DimsOK(ds) /\ Follows(ds2, ds)
  BY <1>1, <1>2 DEF DimsHold
<1>4. ASSUME NEW c, LeafCell(ds, c) PROVE LeafCell(ds2, c)
  <2>1. \A x \in 1 .. Rank : PlacesStay(ds2[x], ds[x], Gone) /\ Gone \notin DOMAIN ds[x].elements
    BY <1>3, GoneIsNowhere DEF Follows, DimsOK
  <2> QED BY <1>4, <2>1 DEF LeafCell, PlacesStay
<1>5. SandboxesKeep(saved, saved, ds2)
  BY <1>2, <1>4, SameSandboxes DEF Sandboxed
<1> QED BY <1>1, <1>2, <1>5 DEF SandboxesFollow

LEMMA ConsolidatingFollows ==
  ASSUME DimsHold, Sandboxed, NEW d \in 1 .. Rank, MakesConsolidations(d)
  PROVE  DimsHold' /\ SandboxesFollow
<1>1. PICK e \in Positions(d), w \in Weights :
        \/ \E parent \in Positions(d) \cup {Gone} : ReparentElement(d, e, parent, w) /\ PruneIfConverted(d, parent)
        \/ \E parent \in Positions(d) : AddChildElement(d, parent, e, w) /\ PruneIfConverted(d, parent)
  BY DEF MakesConsolidations
<1>2. ASSUME NEW parent \in Positions(d) \cup {Gone}, ReparentElement(d, e, parent, w), PruneIfConverted(d, parent)
      PROVE  DimsHold' /\ SandboxesFollow
  BY <1>2, ReparentingKeeps, ConvertingKeeps
<1>3. ASSUME NEW parent \in Positions(d), AddChildElement(d, parent, e, w), PruneIfConverted(d, parent)
      PROVE  DimsHold' /\ SandboxesFollow
  BY <1>3, AddingKeeps, ConvertingKeeps
<1> QED BY <1>1, <1>2, <1>3

LEMMA MovingFollows ==
  ASSUME DimsHold, Sandboxed, NEW d \in 1 .. Rank, MovesPositions(d)
  PROVE  DimsHold' /\ SandboxesFollow
<1>1. RemapSandboxes(d)
  BY DEF MovesPositions
<1> QED BY <1>1, MovesKeep, RemappingKeeps

-----------------------------------------------------------------------------
(* The requests in flight: what their handler checked still holds of the     *)
(* object they name, until another request for it lands.                     *)
Entitled(f, u, objs) ==
  Owned(f.req.key) =>
    IF f.op \in {"create", "open"} THEN f.req.key \notin DOMAIN objs
    ELSE /\ f.req.key \in DOMAIN objs /\ CanModify(u, objs[f.req.key])
         /\ f.op = "replace" => f.owner = objs[f.req.key].owner

IsFlight(f) ==
  f = [op |-> f.op, req |-> f.req, stale |-> f.stale, overtaken |-> f.overtaken, compiled |-> f.compiled,
       tries |-> f.tries, owner |-> f.owner, at |-> f.at]

FlightOK(f, u, objs, reqs) ==
  /\ IsFlight(f) /\ f.req \in reqs /\ f.op = f.req.op
  /\ ~f.overtaken => Entitled(f, u, objs)

FlightsOK(fs, objs, reqs) ==
  /\ fs = [u \in Users |-> fs[u]]
  /\ \A u \in Users : fs[u] # NoFlight => FlightOK(fs[u], u, objs, reqs)

\* What a request may be: an operation its kind of object takes.
IsRequest(req) == req.key[1] \in DOMAIN Operations /\ req.op \in Operations[req.key[1]]

LEMMA OperationsAre ==
  ASSUME NEW req, IsRequest(req)
  PROVE  /\ req.op \in {"create", "replace"} => req.key[1] \in {"subset", "view"}
         /\ req.op \in {"open", "stage", "commit"} <=> req.key[1] = "sandbox" /\ req.op # "delete"
         /\ req.op \in {"define", "put"} => ~Owned(req.key) /\ req.key[1] # "sandbox"
BY DEF IsRequest, Operations, Owned

\* What landing a request does to the objects.
LandsOn(objs2, objs, f) ==
  /\ \A k : k # f.req.key => (k \in DOMAIN objs2 <=> k \in DOMAIN objs)
  /\ \A k \in DOMAIN objs : k # f.req.key => objs2[k] = objs[k]
  /\ f.req.key \in DOMAIN objs2 /\ f.op = "replace" => objs2[f.req.key].owner = f.owner
  /\ f.req.key \in DOMAIN objs2 => f.op # "delete"
  /\ f.op \in {"stage", "commit"} => objs2[f.req.key].owner = objs[f.req.key].owner

LEMMA BoundLands ==
  ASSUME NEW objs, NEW ds, SavedOK(ds, objs), NEW f, NEW object, NEW objs2, Binds(objs2, objs, f.req.key, object),
         f.req.key[1] = "sandbox" => SandboxOK(ds, object),
         f.op \in {"create", "replace", "define", "put", "open"},
         f.op = "replace" => object.owner = f.owner
  PROVE  SavedOK(ds, objs2) /\ LandsOn(objs2, objs, f)
<1>1. IsMap(objs2) /\ DOMAIN objs2 = DOMAIN objs \cup {f.req.key} /\ objs2[f.req.key] = object
      /\ \A k \in DOMAIN objs : k # f.req.key => objs2[k] = objs[k]
  BY DEF Binds, IsMap
<1>2. SavedOK(ds, objs2)
  BY <1>1 DEF SavedOK
<1>3. LandsOn(objs2, objs, f)
  BY <1>1 DEF LandsOn
<1> QED BY <1>2, <1>3

LEMMA RestrictedLands ==
  ASSUME NEW objs, NEW ds, SavedOK(ds, objs), NEW f, f.op = "delete"
  PROVE  /\ SavedOK(ds, Restrict(objs, DOMAIN objs \ {f.req.key}))
         /\ LandsOn(Restrict(objs, DOMAIN objs \ {f.req.key}), objs, f)
<1>1. PICK objs2 : objs2 = Restrict(objs, DOMAIN objs \ {f.req.key})
  BY ONLY TRUE
<1>2. IsMap(objs2) /\ DOMAIN objs2 = DOMAIN objs \ {f.req.key} /\ \A k \in DOMAIN objs2 : objs2[k] = objs[k]
  BY <1>1 DEF Restrict, IsMap
<1>3. SavedOK(ds, objs2)
  BY <1>2 DEF SavedOK
<1>4. LandsOn(objs2, objs, f)
  BY <1>2 DEF LandsOn
<1> QED BY <1>1, <1>3, <1>4

\* The object of a sandbox, with other cells in it, put back.
CellsPut(objs2, objs, key, map) == objs2 = [objs EXCEPT ![key] = [@ EXCEPT !.cells = map]]

LEMMA CommittingPuts ==
  ASSUME NEW key, CommitSandbox(key)
  PROVE  CellsPut(saved', saved, key, NoFn)
<1>1. saved' = [saved EXCEPT ![key].cells = NoFn]
  BY ONLY CommitSandbox(key) DEF CommitSandbox
<1>2. PICK none : none = NoFn
  BY ONLY TRUE
<1>3. saved' = [saved EXCEPT ![key].cells = none]
  BY ONLY <1>1, <1>2
<1> QED BY ONLY <1>2, <1>3 DEF CellsPut

LEMMA StagedLands ==
  ASSUME NEW objs, NEW ds, SavedOK(ds, objs), NEW f, f.op \in {"stage", "commit"}, f.req.key \in DOMAIN objs,
         f.req.key[1] = "sandbox", NEW map, LeafCells(ds, map), NEW objs2, CellsPut(objs2, objs, f.req.key, map)
  PROVE  SavedOK(ds, objs2) /\ LandsOn(objs2, objs, f)
<1>1. PICK s, s2 : s = objs[f.req.key] /\ s2 = [s EXCEPT !.cells = map]
  BY ONLY TRUE
<1>2. IsMap(objs) /\ IsSandbox(s) /\ IsMap(map)
  BY <1>1 DEF SavedOK, SandboxOK, LeafCells
<1>3. IsSandbox(s2) /\ s2.cells = map /\ s2.owner = s.owner
  BY ONLY <1>1, <1>2, SandboxWith
<1>4. IsMap(objs2) /\ DOMAIN objs2 = DOMAIN objs /\ objs2[f.req.key] = s2
      /\ \A k \in DOMAIN objs : k # f.req.key => objs2[k] = objs[k]
  BY <1>1, <1>2 DEF IsMap, CellsPut
<1>5. SandboxOK(ds, s2)
  BY <1>3 DEF SandboxOK
<1>6. SavedOK(ds, objs2)
  BY <1>4, <1>5 DEF SavedOK
<1>7. LandsOn(objs2, objs, f)
  BY <1>1, <1>3, <1>4 DEF LandsOn
<1> QED BY <1>6, <1>7

LEMMA StoringLands ==
  ASSUME Sandboxed, NEW f, f.op = f.req.op, IsRequest(f.req), Accepted(f), Store(f)
  PROVE  dims' = dims /\ Sandboxed' /\ LandsOn(saved', saved, f)
<1>1. PICK key, ds, objs, objs2 : key = f.req.key /\ ds = dims /\ objs = saved /\ objs2 = saved'
  BY ONLY TRUE, ZenonT(40)
<1>2. dims' = dims
  BY ONLY Store(f) DEF Store, CommitSandbox, cube
<1>3. SavedOK(ds, objs) /\ key = f.req.key
  BY <1>1 DEF Sandboxed
<1>4. /\ f.op \in {"create", "replace"} => f.req.key[1] # "sandbox"
      /\ f.op \in {"open", "stage", "commit"} => f.req.key[1] = "sandbox"
      /\ f.op \in {"define", "put"} => f.req.key[1] # "sandbox"
  BY OperationsAre
<1>5. LeafCells(ds, NoFn)
  BY DEF LeafCells, NoFn, IsMap
<1>6. CASE f.op \in {"create", "replace"} /\ saved' = Bind(saved, key, Bind(f.req.body, "owner", f.owner))
  <2>1. PICK object : object = Bind(f.req.body, "owner", f.owner)
    BY ONLY TRUE
  <2>2. object.owner = f.owner
    BY <2>1 DEF Bind
  <2>3. Binds(objs2, objs, f.req.key, object)
    BY ONLY <1>1, <1>6, <2>1, BindIs
  <2>4. SavedOK(ds, objs2) /\ LandsOn(objs2, objs, f)
    BY ONLY <1>3, <1>4, <1>6, <2>2, <2>3, BoundLands
  <2> QED BY <1>1, <1>2, <2>4 DEF Sandboxed
<1>7. CASE f.op \in {"define", "put"} /\ saved' = Bind(saved, key, f.req.body)
  <2>1. PICK object : object = f.req.body
    BY ONLY TRUE
  <2>2. Binds(objs2, objs, f.req.key, object)
    BY ONLY <1>1, <1>7, <2>1, BindIs
  <2>3. SavedOK(ds, objs2) /\ LandsOn(objs2, objs, f)
    BY ONLY <1>3, <1>4, <1>7, <2>2, BoundLands
  <2> QED BY <1>1, <1>2, <2>3 DEF Sandboxed
<1>8. CASE f.op = "open" /\ saved' = Bind(saved, key, [owner |-> f.owner, public |-> FALSE, cells |-> NoFn])
  <2>1. PICK object : object = [owner |-> f.owner, public |-> FALSE, cells |-> NoFn]
    BY ONLY TRUE
  <2>2. SandboxOK(ds, object)
    BY <1>5, <2>1 DEF SandboxOK, IsSandbox, LeafCells, IsMap
  <2>3. Binds(objs2, objs, f.req.key, object)
    BY ONLY <1>1, <1>8, <2>1, BindIs
  <2>4. SavedOK(ds, objs2) /\ LandsOn(objs2, objs, f)
    BY ONLY <1>3, <1>4, <1>8, <2>2, <2>3, BoundLands
  <2> QED BY <1>1, <1>2, <2>4 DEF Sandboxed
<1>9. CASE f.op = "delete" /\ saved' = Restrict(saved, DOMAIN saved \ {key})
  <2>1. SavedOK(ds, objs2) /\ LandsOn(objs2, objs, f)
    <3>1. objs2 = Restrict(objs, DOMAIN objs \ {f.req.key})
      BY ONLY <1>1, <1>9
    <3> QED BY ONLY <1>3, <1>9, <3>1, RestrictedLands
  <2> QED BY <1>1, <1>2, <2>1 DEF Sandboxed
<1>10. CASE f.op = "stage" /\ saved' = [saved EXCEPT ![key].cells = Bind(@, f.at, f.req.value)]
  <2>1. PICK map : map = saved[key].cells
    BY ONLY TRUE
  <2>2. PICK map2 : map2 = Bind(map, f.at, f.req.value)
    BY ONLY TRUE
  <2>3. key \in DOMAIN objs /\ LeafCell(ds, f.at)
    BY <1>1, <1>10, LeafCellsAre DEF Accepted
  <2>4. LeafCells(ds, map)
    BY <1>1, <1>3, <1>4, <1>10, <2>1, <2>3 DEF SavedOK, SandboxOK
  <2>5. Binds(map2, map, f.at, f.req.value)
    BY ONLY <2>2, BindIs
  <2>6. LeafCells(ds, map2)
    BY <2>3, <2>4, <2>5 DEF LeafCells, Binds, IsMap
  <2>7. CellsPut(objs2, objs, f.req.key, map2)
    BY ONLY <1>1, <1>10, <2>1, <2>2 DEF CellsPut
  <2>8. SavedOK(ds, objs2) /\ LandsOn(objs2, objs, f)
    BY ONLY <1>1, <1>3, <1>4, <1>10, <2>3, <2>6, <2>7, StagedLands
  <2> QED BY <1>1, <1>2, <2>8 DEF Sandboxed
<1>11. CASE f.op = "commit" /\ CommitSandbox(key)
  <2>1. key \in DOMAIN objs
    BY SMTT(30), <1>1, <1>11 DEF Accepted
  <2>2. CellsPut(objs2, objs, f.req.key, NoFn)
    BY ONLY <1>1, <1>11, CommittingPuts
  <2>3. SavedOK(ds, objs2) /\ LandsOn(objs2, objs, f)
    BY ONLY <1>1, <1>3, <1>4, <1>5, <1>11, <2>1, <2>2, StagedLands
  <2> QED BY <1>1, <1>2, <2>3 DEF Sandboxed
<1> QED BY SMTT(30), <1>1, <1>6, <1>7, <1>8, <1>9, <1>10, <1>11 DEF Store

\* The requests of the others, when one lands or the model moves under them.
LEMMA StillEntitled ==
  ASSUME NEW f, NEW u, NEW objs, Entitled(f, u, objs), NEW objs2, f.req.key \in DOMAIN objs2 <=> f.req.key \in DOMAIN objs,
         f.req.key \in DOMAIN objs /\ Owned(f.req.key) => objs2[f.req.key].owner = objs[f.req.key].owner
  PROVE  Entitled(f, u, objs2)
BY DEF Entitled, CanModify

\* A flight the model moved under, and perhaps its own object.
Passed(f2, f, key) ==
  f2 = [f EXCEPT !.stale = TRUE, !.overtaken = @ \/ f.req.key = key]

LEMMA PassedIs ==
  ASSUME NEW f, IsFlight(f), NEW key, NEW f2, Passed(f2, f, key)
  PROVE  /\ IsFlight(f2) /\ f2.req = f.req /\ f2.op = f.op /\ f2.owner = f.owner
         /\ ~f2.overtaken => ~f.overtaken /\ f.req.key # key
<1>1. PICK o : o = (f.overtaken \/ f.req.key = key)
  BY ONLY TRUE
<1>2. f2 = [op |-> f.op, req |-> f.req, stale |-> TRUE, overtaken |-> o, compiled |-> f.compiled,
            tries |-> f.tries, owner |-> f.owner, at |-> f.at]
  BY <1>1 DEF IsFlight, Passed
<1>3. /\ f2.op = f.op /\ f2.req = f.req /\ f2.stale = TRUE /\ f2.overtaken = o /\ f2.compiled = f.compiled
      /\ f2.tries = f.tries /\ f2.owner = f.owner /\ f2.at = f.at
  BY ONLY <1>2
<1>4. IsFlight(f2)
  BY ONLY <1>2, <1>3 DEF IsFlight
<1> QED BY <1>1, <1>3, <1>4

\* A flight the model moved under.
Stalled(f2, f) == f2 = [f EXCEPT !.stale = TRUE]

LEMMA StalledIs ==
  ASSUME NEW f, IsFlight(f), NEW f2, Stalled(f2, f)
  PROVE  IsFlight(f2) /\ f2.req = f.req /\ f2.op = f.op /\ f2.owner = f.owner /\ f2.overtaken = f.overtaken
<1>1. f2 = [op |-> f.op, req |-> f.req, stale |-> TRUE, overtaken |-> f.overtaken, compiled |-> f.compiled,
            tries |-> f.tries, owner |-> f.owner, at |-> f.at]
  BY DEF IsFlight, Stalled
<1>2. /\ f2.op = f.op /\ f2.req = f.req /\ f2.stale = TRUE /\ f2.overtaken = f.overtaken
      /\ f2.compiled = f.compiled /\ f2.tries = f.tries /\ f2.owner = f.owner /\ f2.at = f.at
  BY ONLY <1>1
<1> QED BY ONLY <1>1, <1>2 DEF IsFlight

FlightsHold == FlightsOK(flights, saved, workload.requests)

LEMMA StalingKeeps ==
  ASSUME FlightsHold, DOMAIN saved' = DOMAIN saved, workload' = workload, flights' = Staled,
         \A k \in DOMAIN saved : Owned(k) => saved'[k].owner = saved[k].owner
  PROVE  FlightsHold'
<1>1. PICK reqs, objs, objs2 : reqs = workload.requests /\ objs = saved /\ objs2 = saved'
  BY ONLY TRUE
<1>2. flights' = [u \in Users |-> flights'[u]]
  BY DEF Staled
<1>3. ASSUME NEW u \in Users, flights'[u] # NoFlight
      PROVE  FlightOK(flights'[u], u, saved', reqs)
  <2>1. PICK f, f2 : f = flights[u] /\ f2 = flights'[u]
    BY ONLY TRUE
  <2>2. f # NoFlight /\ Stalled(f2, f)
    BY <1>3, <2>1 DEF Staled, Stalled
  <2>3. FlightOK(f, u, objs, reqs)
    BY <1>1, <2>1, <2>2 DEF FlightsHold, FlightsOK
  <2>4. IsFlight(f2) /\ f2.req = f.req /\ f2.op = f.op /\ f2.owner = f.owner /\ f2.overtaken = f.overtaken
    BY ONLY <2>2, <2>3, StalledIs DEF FlightOK
  <2>5. ~f.overtaken => Entitled(f, u, objs2)
    <3>1. SUFFICES ASSUME ~f.overtaken PROVE Entitled(f, u, objs2)
      OBVIOUS
    <3>2. Entitled(f, u, objs)
      BY <2>3, <3>1 DEF FlightOK
    <3>3. /\ f.req.key \in DOMAIN objs2 <=> f.req.key \in DOMAIN objs
          /\ f.req.key \in DOMAIN objs /\ Owned(f.req.key) => objs2[f.req.key].owner = objs[f.req.key].owner
      BY <1>1
    <3> QED BY ONLY <3>2, <3>3, StillEntitled
  <2>6. ~f2.overtaken => Entitled(f2, u, objs2)
    BY <2>4, <2>5 DEF Entitled
  <2>7. FlightOK(f2, u, objs2, reqs)
    BY ONLY <2>3, <2>4, <2>6 DEF FlightOK
  <2> QED BY ONLY <1>1, <2>1, <2>7
<1> QED BY <1>1, <1>2, <1>3 DEF FlightsHold, FlightsOK

\* A request as its handler takes it off.
LEMMA TakenOff ==
  ASSUME NEW u \in Users, NEW req \in workload.requests, IsRequest(req), Admitted(u, req), NEW tries
  PROVE  FlightOK(Flight(u, req, tries), u, saved, workload.requests)
<1>1. PICK f, objs, at, owner :
        /\ f = Flight(u, req, tries) /\ objs = saved
        /\ at = IF req.op = "stage" THEN ResolvedAt(dims, req.coord) ELSE <<>>
        /\ owner = IF req.op = "replace" THEN saved[req.key].owner ELSE u
  BY ONLY TRUE
<1>2. f = [op |-> req.op, req |-> req, stale |-> FALSE, overtaken |-> FALSE, compiled |-> FALSE,
           tries |-> tries, owner |-> owner, at |-> at]
  BY <1>1 DEF Flight
<1>3. /\ f.op = req.op /\ f.req = req /\ f.stale = FALSE /\ f.overtaken = FALSE /\ f.compiled = FALSE
      /\ f.tries = tries /\ f.owner = owner /\ f.at = at
  BY ONLY <1>2
<1>4. IsFlight(f)
  BY ONLY <1>2, <1>3 DEF IsFlight
<1>5. ASSUME Owned(req.key)
      PROVE  IF req.op \in {"create", "open"} THEN req.key \notin DOMAIN saved ELSE HasRight(u, req.key)
  <2>1. /\ req.op = "open" => req.key[1] = "sandbox"
        /\ req.op = "create" => req.key[1] \in {"subset", "view"}
    BY OperationsAre
  <2> QED BY <1>5, <2>1 DEF Owned, Admitted, SubsetAdmitted, ViewAdmitted, SandboxAdmitted
<1>6. Entitled(f, u, objs)
  BY <1>1, <1>3, <1>5 DEF Entitled, HasRight
<1> QED BY <1>1, <1>3, <1>4, <1>6 DEF FlightOK

LEMMA LandingKeeps ==
  ASSUME FlightsHold, NEW u \in Users, workload' = workload, NEW key, LandsOn(saved', saved, flights[u]),
         key = flights[u].req.key, flights' = Ended(u, key)
  PROVE  FlightsHold'
<1>1. PICK reqs, objs, objs2 : reqs = workload.requests /\ objs = saved /\ objs2 = saved'
  BY ONLY TRUE
<1>2. flights' = [v \in Users |-> flights'[v]]
  BY ONLY flights' = Ended(u, key), Zenon DEF Ended
<1>3. ASSUME NEW v \in Users, flights'[v] # NoFlight
      PROVE  FlightOK(flights'[v], v, saved', reqs)
  <2>1. PICK f, f2, mine : f = flights[v] /\ f2 = flights'[v] /\ mine = flights[u]
    BY ONLY TRUE
  <2>2. f # NoFlight /\ Passed(f2, f, key)
    <3>1. flights'[v] = IF v = u \/ flights[v] = NoFlight THEN NoFlight
                        ELSE [flights[v] EXCEPT !.stale = TRUE, !.overtaken = @ \/ flights[v].req.key = key]
      BY ONLY v \in Users, flights' = Ended(u, key), Zenon DEF Ended
    <3> QED BY ONLY <1>3, <2>1, <3>1 DEF Passed
  <2>3. FlightOK(f, v, objs, reqs)
    BY <1>1, <2>1, <2>2 DEF FlightsHold, FlightsOK
  <2>4. /\ IsFlight(f2) /\ f2.req = f.req /\ f2.op = f.op /\ f2.owner = f.owner
        /\ ~f2.overtaken => ~f.overtaken /\ f.req.key # key
    BY ONLY <2>2, <2>3, PassedIs DEF FlightOK
  <2>5. ASSUME ~f2.overtaken PROVE Entitled(f2, v, objs2)
    <3>1. Entitled(f, v, objs) /\ f.req.key # key
      BY <2>3, <2>4, <2>5 DEF FlightOK
    <3>2. LandsOn(objs2, objs, mine) /\ key = mine.req.key
      BY <1>1, <2>1
    <3>3. /\ f.req.key \in DOMAIN objs2 <=> f.req.key \in DOMAIN objs
          /\ f.req.key \in DOMAIN objs /\ Owned(f.req.key) => objs2[f.req.key].owner = objs[f.req.key].owner
      BY ONLY <3>1, <3>2 DEF LandsOn
    <3>4. Entitled(f, v, objs2)
      BY ONLY <3>1, <3>3, StillEntitled
    <3> QED BY ONLY <2>4, <3>4 DEF Entitled
  <2>6. FlightOK(f2, v, objs2, reqs)
    BY ONLY <2>3, <2>4, <2>5 DEF FlightOK
  <2> QED BY ONLY <1>1, <2>1, <2>6
<1> QED BY <1>1, <1>2, <1>3 DEF FlightsHold, FlightsOK

\* A flight taken off, taken further or given up; the objects stay.
LEMMA FlyingKeeps ==
  ASSUME FlightsHold, NEW u \in Users, saved' = saved, workload' = workload, NEW f, flights' = [flights EXCEPT ![u] = f],
         f # NoFlight => FlightOK(f, u, saved, workload.requests)
  PROVE  FlightsHold'
<1>1. flights' = [v \in Users |-> flights'[v]] /\ flights'[u] = f /\ \A v \in Users : v # u => flights'[v] = flights[v]
  BY DEF FlightsHold, FlightsOK
<1> QED BY <1>1 DEF FlightsHold, FlightsOK

-----------------------------------------------------------------------------
(* The whole model under any edits, writes and requests.                     *)
ModelInv ==
  /\ DimsHold
  /\ Sandboxed
  /\ workload \in Workloads
  /\ FlightsHold

LEMMA ModelBegins == ModelInit => ModelInv
<1> SUFFICES ASSUME ModelInit PROVE ModelInv
  OBVIOUS
<1>1. DimsHold
  BY BuildsOK DEF ModelInit, DimsHold
<1>2. workload \in Workloads /\ saved = workload.saved /\ \A k \in SandboxKeys : Committable(k)
  BY DEF ModelInit
<1>3. IsMap(saved) /\ \A k \in DOMAIN saved : k[1] = "sandbox" => IsSandbox(saved[k])
  BY <1>2, WorkloadsAssumption DEF IsMap
<1>4. ASSUME NEW k \in DOMAIN saved, k[1] = "sandbox" PROVE SandboxOK(dims, saved[k])
  <2>1. PICK map : map = saved[k].cells /\ IsSandbox(saved[k]) /\ IsMap(map)
    BY <1>3, <1>4 DEF IsSandbox, IsMap
  <2>2. \A c \in DOMAIN map : c \in Coords /\ TakesNumber(c)
    BY <1>2, <1>4, <2>1 DEF SandboxKeys, Committable
  <2>3. \A c \in DOMAIN map : LeafCell(dims, c)
    BY ONLY <2>2, LeafCellsAre
  <2> QED BY <2>1, <2>3 DEF SandboxOK, LeafCells
<1>5. Sandboxed
  BY <1>3, <1>4 DEF Sandboxed, SavedOK
<1>6. FlightsHold
  BY DEF ModelInit, FlightsHold, FlightsOK
<1> QED BY <1>1, <1>2, <1>5, <1>6 DEF ModelInv

\* What a workload asks for, and where it edits.
LEMMA AskedAre ==
  ASSUME workload \in Workloads
  PROVE  workload.edited \subseteq 1 .. Rank /\ \A req \in workload.requests : IsRequest(req)
BY WorkloadsAssumption DEF IsRequest

LEMMA EditingKeeps ==
  ASSUME ModelInv, SchemaEdit
  PROVE  ModelInv' /\ SandboxesFollow
<1>1. DimsHold /\ Sandboxed /\ workload \in Workloads /\ FlightsHold /\ workload' = workload /\ flights' = Staled
  BY DEF ModelInv, SchemaEdit
<1>2. PICK d \in workload.edited :
        MovesPositions(d) \/ MakesConsolidations(d) \/ RetypesAnElement(d) \/ SparesSandboxes(d)
  BY DEF SchemaEdit
<1>3. d \in 1 .. Rank
  BY <1>1, <1>2, AskedAre
<1>4. DimsHold' /\ SandboxesFollow
  BY ONLY <1>1, <1>2, <1>3, MovingFollows, ConsolidatingFollows, RetypingFollows, SparingFollows
<1>5. PICK ds, ds2, objs, objs2 : ds = dims /\ ds2 = dims' /\ objs = saved /\ objs2 = saved'
  BY ONLY TRUE
<1>6. SavedOK(ds, objs) /\ SandboxesKeep(objs2, objs, ds2)
  BY <1>1, <1>4, <1>5 DEF Sandboxed, SandboxesFollow
<1>7. SavedOK(ds2, objs2) /\ DOMAIN objs2 = DOMAIN objs
      /\ \A k \in DOMAIN objs : Owned(k) => objs2[k].owner = objs[k].owner
  BY ONLY <1>6, SandboxesKept
<1>8. Sandboxed'
  BY <1>5, <1>7 DEF Sandboxed
<1>9. FlightsHold'
  BY <1>1, <1>5, <1>7, StalingKeeps
<1> QED BY <1>1, <1>4, <1>8, <1>9 DEF ModelInv

LEMMA WritingKeeps ==
  ASSUME ModelInv, CellWrite
  PROVE  ModelInv' /\ saved' = saved
<1>1. DimsHold /\ Sandboxed /\ workload \in Workloads /\ FlightsHold /\ workload' = workload /\ flights' = Staled
      /\ saved' = saved
  BY DEF ModelInv, CellWrite
<1>2. dims' = dims
  BY DEF CellWrite, SetLeaf, SetString, CompactStringPool
<1>3. DimsHold'
  BY <1>1, WritesKeep
<1>4. Sandboxed'
  BY <1>1, <1>2 DEF Sandboxed
<1>5. FlightsHold'
  BY <1>1, StalingKeeps
<1>6. workload' \in Workloads /\ saved' = saved
  BY ONLY <1>1
<1> QED BY ONLY <1>3, <1>4, <1>5, <1>6 DEF ModelInv

\* A request on its way, and where the model moved under it, not landed.
LEMMA AskingKeeps ==
  ASSUME ModelInv, NEW u \in Users, Ask(u) \/ Compile(u)
  PROVE  ModelInv' /\ saved' = saved
<1>1. DimsHold /\ Sandboxed /\ workload \in Workloads /\ FlightsHold
  BY DEF ModelInv
<1>2. workload' = workload /\ saved' = saved /\ dims' = dims
  BY DEF Ask, Compile, cube
<1>3. DimsHold'
  BY <1>1, StoringKeeps
<1>4. Sandboxed'
  BY <1>1, <1>2 DEF Sandboxed
<1>5. ASSUME Ask(u) PROVE FlightsHold'
  <2>1. PICK req \in workload.requests : Admitted(u, req) /\ flights' = [flights EXCEPT ![u] = Flight(u, req, 1)]
    BY <1>5 DEF Ask
  <2>2. FlightOK(Flight(u, req, 1), u, saved, workload.requests)
    BY <1>1, <2>1, AskedAre, TakenOff
  <2>3. PICK f : f = Flight(u, req, 1)
    BY ONLY TRUE
  <2> QED BY ONLY <1>1, <1>2, <2>1, <2>2, <2>3, u \in Users, FlyingKeeps
<1>6. ASSUME Compile(u) PROVE FlightsHold'
  <2>1. PICK f, f2 :
          /\ f = flights[u] /\ f2 = IF Compiles(dims, f.req.body) THEN [f EXCEPT !.compiled = TRUE] ELSE NoFlight
    BY ONLY TRUE
  <2>2. f.op = "put" /\ flights' = [flights EXCEPT ![u] = f2]
    BY <1>6, <2>1 DEF Compile
  <2>3. f # NoFlight
    BY <2>2 DEF NoFlight
  <2>4. FlightOK(f, u, saved, workload.requests)
    BY <1>1, <2>1, <2>3 DEF FlightsHold, FlightsOK
  <2>5. ASSUME f2 # NoFlight PROVE FlightOK(f2, u, saved, workload.requests)
    <3>1. f2 = [f EXCEPT !.compiled = TRUE]
      BY <2>1, <2>5
    <3>2. f2 = [op |-> f.op, req |-> f.req, stale |-> f.stale, overtaken |-> f.overtaken, compiled |-> TRUE,
                tries |-> f.tries, owner |-> f.owner, at |-> f.at]
      BY <2>4, <3>1 DEF FlightOK, IsFlight
    <3>3. /\ f2.op = f.op /\ f2.req = f.req /\ f2.stale = f.stale /\ f2.overtaken = f.overtaken
          /\ f2.compiled = TRUE /\ f2.tries = f.tries /\ f2.owner = f.owner /\ f2.at = f.at
      BY ONLY <3>2
    <3>4. IsFlight(f2)
      BY ONLY <3>2, <3>3 DEF IsFlight
    <3> QED BY <2>4, <3>3, <3>4 DEF FlightOK, Entitled
  <2> QED BY ONLY <1>1, <1>2, <2>2, <2>5, u \in Users, FlyingKeeps
<1>7. FlightsHold' /\ workload' \in Workloads /\ saved' = saved
  BY ONLY <1>1, <1>2, <1>5, <1>6, Ask(u) \/ Compile(u)
<1> QED BY ONLY <1>3, <1>4, <1>7 DEF ModelInv

\* A request that ends: landed as its handler had checked it, or not at all.
LEMMA FinishingKeeps ==
  ASSUME ModelInv, NEW u \in Users, Finish(u)
  PROVE  /\ ModelInv'
         /\ \/ saved' = saved
            \/ /\ flights[u] # NoFlight /\ flights'[u] = NoFlight
               /\ IsRequest(flights[u].req) /\ FlightOK(flights[u], u, saved, workload.requests)
               /\ LandsOn(saved', saved, flights[u])
<1>1. DimsHold /\ Sandboxed /\ workload \in Workloads /\ FlightsHold /\ workload' = workload
  BY DEF ModelInv, Finish
<1>2. DimsHold'
  BY <1>1, StoringKeeps
<1>3. PICK f : f = flights[u]
  BY ONLY TRUE
<1>4. f # NoFlight /\ FlightOK(f, u, saved, workload.requests) /\ IsRequest(f.req)
  BY <1>1, <1>3, AskedAre DEF Finish, FlightsHold, FlightsOK, FlightOK
<1>5. CASE Accepted(f) /\ Store(f) /\ flights' = Ended(u, f.req.key)
  <2>1. Sandboxed' /\ LandsOn(saved', saved, f)
    BY <1>1, <1>4, <1>5, StoringLands DEF FlightOK
  <2>2. FlightsHold'
    BY <1>1, <1>3, <1>5, <2>1, LandingKeeps
  <2>3. flights'[u] = NoFlight
    BY ONLY u \in Users, <1>5, Zenon DEF Ended
  <2> QED BY <1>1, <1>2, <1>3, <1>4, <2>1, <2>2, <2>3 DEF ModelInv
<1>6. CASE /\ UNCHANGED <<cube, saved>>
           /\ flights' = [flights EXCEPT ![u] =
                IF Conflicts(f) /\ f.tries < RetryLimit /\ Admitted(u, f.req)
                THEN Flight(u, f.req, f.tries + 1) ELSE NoFlight]
  <2>1. saved' = saved /\ dims' = dims
    BY <1>6 DEF cube
  <2>2. Sandboxed'
    BY <1>1, <2>1 DEF Sandboxed
  <2>3. PICK tries, f2 :
          /\ tries = f.tries + 1
          /\ f2 = IF Conflicts(f) /\ f.tries < RetryLimit /\ Admitted(u, f.req) THEN Flight(u, f.req, tries) ELSE NoFlight
    OBVIOUS
  <2>4. flights' = [flights EXCEPT ![u] = f2]
    BY <1>6, <2>3
  <2>5. ASSUME f2 # NoFlight PROVE FlightOK(f2, u, saved, workload.requests)
    <3>1. Admitted(u, f.req) /\ f2 = Flight(u, f.req, tries)
      BY <2>3, <2>5
    <3>2. f.req \in workload.requests
      BY <1>4 DEF FlightOK
    <3>3. FlightOK(Flight(u, f.req, tries), u, saved, workload.requests)
      BY ONLY u \in Users, <1>4, <3>1, <3>2, TakenOff
    <3> QED BY <3>1, <3>3
  <2>6. FlightsHold'
    BY ONLY <1>1, <2>1, <2>4, <2>5, u \in Users, FlyingKeeps
  <2> QED BY <1>1, <1>2, <2>1, <2>2, <2>6 DEF ModelInv
<1> QED BY <1>3, <1>5, <1>6 DEF Finish

LEMMA ModelSteps == ModelInv /\ [ModelNext]_modelVars => ModelInv'
<1> SUFFICES ASSUME ModelInv, [ModelNext]_modelVars PROVE ModelInv'
  OBVIOUS
<1>1. CASE UNCHANGED modelVars
  BY <1>1 DEF modelVars, cube, objects, ModelInv, DimsHold, DimsOK, PoolOK, Sandboxed, FlightsHold, FlightsOK, FlightOK, Entitled
<1>2. CASE SchemaEdit
  BY <1>2, EditingKeeps
<1>3. CASE CellWrite
  BY <1>3, WritingKeeps
<1>4. CASE \E u \in Users : Ask(u) \/ Compile(u) \/ Finish(u)
  BY <1>4, AskingKeeps, FinishingKeeps
<1> QED BY <1>1, <1>2, <1>3, <1>4 DEF ModelNext

(* The inductive invariant of the model: every dimension whole and its       *)
(* lookups true, every sandbox of leaf cells, and every request in flight    *)
(* entitled to what it names until another lands there (cube.rs:586-660,     *)
(* query.rs:1567-1615).                                                      *)
THEOREM ModelInvariance == ModelSpec => []ModelInv
<1>1. ModelInit => ModelInv
  BY ModelBegins
<1>2. ModelInv /\ [ModelNext]_modelVars => ModelInv'
  BY ModelSteps
<1> QED BY <1>1, <1>2, PTL DEF ModelSpec

LEMMA SoundDims ==
  ASSUME DimsHold
  PROVE  DimensionsOK /\ HierarchyIsADag /\ LookupsAreRebuildable /\ AliasesAreUnique
<1>1. \A d \in 1 .. Rank : DimOK(dims[d]) /\ Positions(d) = DOMAIN dims[d].elements
  BY DimsDimOK DEF DimsHold
<1>2. HierarchyIsADag
  BY <1>1, DimIsSound DEF HierarchyIsADag
<1>3. LookupsAreRebuildable
  <2>1. \A d \in 1 .. Rank : dims[d] = Reindexed(dims[d])
    BY <1>1, DimIsSound
  <2>2. Cardinality(Range(pool)) = Len(pool)
    <3>1. PICK p : p = pool /\ ASequence(p) /\ \A i, j \in DOMAIN p : p[i] = p[j] => i = j
      BY DEF DimsHold, PoolOK
    <3>2. PICK n \in Nat : n = Len(p) /\ DOMAIN p = 1 .. n /\ p = [i \in 1 .. n |-> p[i]]
      BY <3>1, SeqIs
    <3>3. p \in Bijection(1 .. n, Range(p))
      BY ZenonT(40), <3>1, <3>2 DEF Bijection, Injection, Surjection, IsInjective, Range
    <3>4. IsFiniteSet(1 .. n) /\ Cardinality(1 .. n) = n
      BY <3>2, FS_Interval
    <3>5. Cardinality(Range(p)) = n
      BY <3>3, <3>4, FS_Bijection DEF ExistsBijection
    <3> QED BY <3>1, <3>2, <3>5
  <2> QED BY <2>1, <2>2 DEF LookupsAreRebuildable
<1>4. AliasesAreUnique
  BY <1>1, DimIsSound DEF AliasesAreUnique
<1>5. DimensionsOK
  <2> SUFFICES ASSUME NEW d \in 1 .. Rank
               PROVE  /\ Len(dims[d].children) = Size(dims[d]) /\ Len(dims[d].values) = Size(dims[d])
                      /\ \A p \in Positions(d) : ChildSet(dims[d].children[p]) \subseteq Positions(d)
                      /\ \A e \in Positions(d) : DOMAIN dims[d].values[e] \subseteq DOMAIN dims[d].attributes
                      /\ Kind(dims[d]) \in [Positions(d) -> ElementKinds]
    BY DEF DimensionsOK
  <2>1. PICK dim : dim = dims[d] /\ DimOK(dim) /\ Positions(d) = DOMAIN dim.elements
    BY <1>1
  <2>2. Len(dim.children) = Size(dim) /\ Len(dim.values) = Size(dim)
        /\ \A p \in DOMAIN dim.elements : ChildSet(dim.children[p]) \subseteq DOMAIN dim.elements
    BY ZenonT(40), <2>1, DimFacts DEF Size
  <2>3. \A e \in DOMAIN dim.elements : DOMAIN dim.values[e] \subseteq DOMAIN dim.attributes
    BY <2>1, DimFacts DEF DimOK, RowsOK
  <2>4. Kind(dim) \in [DOMAIN dim.elements -> ElementKinds]
    BY <2>1 DEF Kind, DimOK, ElementsOK
  <2> QED BY ONLY <2>1, <2>2, <2>3, <2>4
<1> QED BY <1>2, <1>3, <1>4, <1>5

(* A saved object is replaced or deleted by its owner or an administrator,   *)
(* and keeps its owner, for any users and requests: a handler that was       *)
(* checked and not overtaken lands on the very object it checked             *)
(* (query_routes.rs:330-375, 640-685; sandbox_routes.rs:155-190).            *)
THEOREM OwnersAreKept == ModelSpec => ObjectsKeepTheirOwners
<1> DEFINE Kept(k) ==
      \/ k \in DOMAIN saved' /\ saved'[k] = saved[k]
      \/ \E u \in Users :
           /\ flights[u] # NoFlight /\ flights'[u] = NoFlight
           /\ \/ flights[u].overtaken
              \/ /\ CanModify(u, saved[k])
                 /\ k \in DOMAIN saved' => saved'[k].owner = saved[k].owner
<1>1. ASSUME ModelInv, ModelNext, dims' = dims, NEW k \in DOMAIN saved, Owned(k)
      PROVE  Kept(k)
  <2>1. CASE SchemaEdit
    BY <1>1, <2>1, EditingKeeps DEF SandboxesFollow
  <2>2. CASE CellWrite
    BY <1>1, <2>2, WritingKeeps
  <2>3. CASE \E u \in Users : Ask(u) \/ Compile(u)
    BY <1>1, <2>3, AskingKeeps
  <2>4. ASSUME NEW u \in Users, Finish(u) PROVE Kept(k)
    <3>1. CASE saved' = saved
      BY <3>1
    <3>2. CASE saved' # saved
      <4>1. /\ flights[u] # NoFlight /\ flights'[u] = NoFlight
            /\ IsRequest(flights[u].req) /\ FlightOK(flights[u], u, saved, workload.requests)
            /\ LandsOn(saved', saved, flights[u])
        BY <1>1, <2>4, <3>2, FinishingKeeps
      <4>2. PICK f, key, objs, objs2 : f = flights[u] /\ key = f.req.key /\ objs = saved /\ objs2 = saved'
        BY ONLY TRUE
      <4>3. CASE k # key
        BY <1>1, <4>1, <4>2, <4>3 DEF LandsOn
      <4>4. CASE k = key /\ f.overtaken
        BY <4>1, <4>2, <4>4
      <4>5. CASE k = key /\ ~f.overtaken
        <5>1. Entitled(f, u, objs) /\ f.op \in Operations[key[1]] /\ key[1] \in DOMAIN Operations /\ LandsOn(objs2, objs, f)
          BY <4>1, <4>2, <4>5 DEF FlightOK, IsRequest
        <5>2. /\ f.op \notin {"create", "open"} /\ CanModify(u, objs[key])
              /\ f.op = "replace" => f.owner = objs[key].owner
          BY <1>1, <4>2, <4>5, <5>1 DEF Entitled
        <5>3. f.op \in {"replace", "delete", "stage", "commit"}
          BY <1>1, <4>5, <5>1, <5>2 DEF Operations, Owned
        <5>4. key \in DOMAIN objs2 => objs2[key].owner = objs[key].owner
          BY <4>2, <5>1, <5>2, <5>3 DEF LandsOn
        <5> QED BY <4>1, <4>2, <4>5, <5>2, <5>4
      <4> QED BY <4>3, <4>4, <4>5
    <3> QED BY <3>1, <3>2
  <2> QED BY <1>1, <2>1, <2>2, <2>3, <2>4 DEF ModelNext
<1> HIDE DEF Kept
<1>2. ModelInv /\ [ModelNext]_modelVars
        => [\A k \in DOMAIN saved : Owned(k) /\ dims' = dims => Kept(k)]_modelVars
  BY <1>1
<1>3. ModelInv /\ [ModelNext]_modelVars
        => [\A k \in DOMAIN saved : Owned(k) /\ dims' = dims =>
              \/ k \in DOMAIN saved' /\ saved'[k] = saved[k]
              \/ \E u \in Users :
                   /\ flights[u] # NoFlight /\ flights'[u] = NoFlight
                   /\ \/ flights[u].overtaken
                      \/ /\ CanModify(u, saved[k])
                         /\ k \in DOMAIN saved' => saved'[k].owner = saved[k].owner]_modelVars
  BY ONLY <1>2 DEF Kept
<1> QED BY <1>3, ModelInvariance, PTL DEF ModelSpec, ObjectsKeepTheirOwners

-----------------------------------------------------------------------------
(* The rules that are stored.                                                *)
Checked(f) == f.op = "put" /\ f.compiled /\ ~f.stale
RulesHold == \A u \in Users : flights[u] # NoFlight /\ Checked(flights[u]) => Compiles(dims, flights[u].req.body)

\* Where everybody else's snapshot went stale, nobody's check counts.
LEMMA StaleKeepsRules ==
  ASSUME \A u \in Users : flights'[u] # NoFlight => flights'[u].stale
  PROVE  RulesHold'
BY DEF RulesHold, Checked

LEMMA TakenUnchecked ==
  ASSUME NEW u, NEW req, NEW tries
  PROVE  ~Checked(Flight(u, req, tries))
<1>1. PICK owner, at :
        /\ owner = IF req.op = "replace" THEN saved[req.key].owner ELSE u
        /\ at = IF req.op = "stage" THEN ResolvedAt(dims, req.coord) ELSE <<>>
  BY ONLY TRUE
<1>2. Flight(u, req, tries) = [op |-> req.op, req |-> req, stale |-> FALSE, overtaken |-> FALSE, compiled |-> FALSE,
                               tries |-> tries, owner |-> owner, at |-> at]
  BY <1>1 DEF Flight
<1> QED BY <1>2 DEF Checked

\* A flight taken off, taken further or given up, over the same dimensions.
LEMMA FlyingKeepsRules ==
  ASSUME RulesHold, FlightsHold, NEW u \in Users, dims' = dims, NEW f, flights' = [flights EXCEPT ![u] = f],
         f # NoFlight /\ Checked(f) => Compiles(dims, f.req.body)
  PROVE  RulesHold'
<1>1. flights'[u] = f /\ \A v \in Users : v # u => flights'[v] = flights[v]
  BY DEF FlightsHold, FlightsOK
<1>2. ASSUME NEW v \in Users, flights'[v] # NoFlight, Checked(flights'[v])
      PROVE  Compiles(dims, flights'[v].req.body)
  BY <1>1, <1>2 DEF RulesHold
<1> QED BY <1>2 DEF RulesHold, Compiles

LEMMA RulesSteps ==
  ASSUME ModelInv, RulesHold, ModelNext
  PROVE  RulesHold'
<1>1. FlightsHold
  BY DEF ModelInv
<1>2. CASE SchemaEdit \/ CellWrite
  <2>1. flights' = Staled
    BY <1>2 DEF SchemaEdit, CellWrite
  <2>2. ASSUME NEW u \in Users, flights'[u] # NoFlight PROVE flights'[u].stale
    <3>1. PICK f, f2 : f = flights[u] /\ f2 = flights'[u]
      BY ONLY TRUE
    <3>2. f # NoFlight /\ Stalled(f2, f)
      BY <2>1, <2>2, <3>1 DEF Staled, Stalled
    <3>3. IsFlight(f)
      BY <1>1, <3>1, <3>2 DEF FlightsHold, FlightsOK, FlightOK
    <3>4. f2.stale = TRUE
      BY ONLY <3>2, <3>3 DEF Stalled, IsFlight
    <3> QED BY <3>1, <3>4
  <2> QED BY <2>2, StaleKeepsRules
<1>3. ASSUME NEW u \in Users, Ask(u) PROVE RulesHold'
  <2>1. PICK req : flights' = [flights EXCEPT ![u] = Flight(u, req, 1)]
    BY <1>3 DEF Ask
  <2>2. PICK f : f = Flight(u, req, 1)
    BY ONLY TRUE
  <2>3. ~Checked(f)
    BY <2>2, TakenUnchecked
  <2>4. dims' = dims
    BY <1>3 DEF Ask, cube
  <2> QED BY <1>1, <2>1, <2>2, <2>3, <2>4, FlyingKeepsRules
<1>4. ASSUME NEW u \in Users, Compile(u) PROVE RulesHold'
  <2>1. PICK f, f2 :
          /\ f = flights[u] /\ f2 = IF Compiles(dims, f.req.body) THEN [f EXCEPT !.compiled = TRUE] ELSE NoFlight
    BY ONLY TRUE
  <2>2. f.op = "put" /\ flights' = [flights EXCEPT ![u] = f2] /\ dims' = dims
    BY <1>4, <2>1 DEF Compile, cube
  <2>3. IsFlight(f)
    BY <1>1, <2>1, <2>2 DEF FlightsHold, FlightsOK, FlightOK, NoFlight
  <2>4. ASSUME f2 # NoFlight PROVE Compiles(dims, f2.req.body)
    <3>1. f2 = [f EXCEPT !.compiled = TRUE] /\ Compiles(dims, f.req.body)
      BY <2>1, <2>4
    <3>2. f2.req = f.req
      BY ONLY <2>3, <3>1 DEF IsFlight
    <3> QED BY <3>1, <3>2
  <2> QED BY <1>1, <2>2, <2>4, FlyingKeepsRules
<1>5. ASSUME NEW u \in Users, Finish(u) PROVE RulesHold'
  <2>1. PICK f : f = flights[u]
    BY ONLY TRUE
  <2>2. CASE flights' = Ended(u, f.req.key)
    <3>1. ASSUME NEW v \in Users, flights'[v] # NoFlight PROVE flights'[v].stale
      <4>1. PICK g, g2 : g = flights[v] /\ g2 = flights'[v]
        BY ONLY TRUE
      <4>2. flights'[v] = IF v = u \/ flights[v] = NoFlight THEN NoFlight
                          ELSE [flights[v] EXCEPT !.stale = TRUE, !.overtaken = @ \/ flights[v].req.key = f.req.key]
        BY ONLY v \in Users, <2>2, Zenon DEF Ended
      <4>3. g # NoFlight /\ Passed(g2, g, f.req.key)
        BY ONLY <3>1, <4>1, <4>2 DEF Passed
      <4>4. IsFlight(g)
        BY <1>1, <4>1, <4>3 DEF FlightsHold, FlightsOK, FlightOK
      <4>5. g2.stale = TRUE
        <5>1. PICK o : o = (g.overtaken \/ g.req.key = f.req.key)
          BY ONLY TRUE
        <5>2. g2 = [g EXCEPT !.stale = TRUE, !.overtaken = o]
          BY ONLY <4>3, <5>1 DEF Passed
        <5> QED BY ONLY <4>4, <5>2 DEF IsFlight
      <4> QED BY <4>1, <4>5
    <3> QED BY <3>1, StaleKeepsRules
  <2>3. CASE /\ UNCHANGED <<cube, saved>>
             /\ flights' = [flights EXCEPT ![u] =
                  IF Conflicts(f) /\ f.tries < RetryLimit /\ Admitted(u, f.req)
                  THEN Flight(u, f.req, f.tries + 1) ELSE NoFlight]
    <3>1. PICK tries, f2 :
            /\ tries = f.tries + 1
            /\ f2 = IF Conflicts(f) /\ f.tries < RetryLimit /\ Admitted(u, f.req) THEN Flight(u, f.req, tries) ELSE NoFlight
      OBVIOUS
    <3>2. flights' = [flights EXCEPT ![u] = f2] /\ dims' = dims
      BY <2>3, <3>1 DEF cube
    <3>3. f2 # NoFlight => ~Checked(f2)
      BY <3>1, TakenUnchecked
    <3> QED BY <1>1, <3>2, <3>3, FlyingKeepsRules
  <2> QED BY <1>5, <2>1, <2>2, <2>3 DEF Finish
<1> QED BY <1>2, <1>3, <1>4, <1>5 DEF ModelNext

(* Rules are stored only where they compile, for any rules, edits and users: *)
(* what was compiled on an older model is committed nowhere                  *)
(* (rule_routes.rs:104-135).                                                 *)
THEOREM RulesStoredCompile == ModelSpec => StoredRulesCompile
<1> DEFINE Stored(k) == k[1] = "rules" /\ (k \in DOMAIN saved => saved'[k] # saved[k])
                          => Compiles(dims', saved'[k])
<1>1. ModelInit => RulesHold
  BY DEF ModelInit, RulesHold
<1>2. ModelInv /\ RulesHold /\ [ModelNext]_modelVars => RulesHold'
  <2>1. ASSUME UNCHANGED modelVars, RulesHold PROVE RulesHold'
    BY <2>1 DEF modelVars, cube, objects, RulesHold, Compiles
  <2> QED BY <2>1, RulesSteps
<1>3. ASSUME ModelInv, RulesHold, ModelNext, NEW k \in DOMAIN saved' PROVE Stored(k)
  <2>1. CASE SchemaEdit
    BY <1>3, <2>1, EditingKeeps DEF SandboxesFollow, SandboxesKeep
  <2>2. CASE CellWrite
    BY <1>3, <2>2, WritingKeeps
  <2>3. CASE \E u \in Users : Ask(u) \/ Compile(u)
    BY <1>3, <2>3, AskingKeeps
  <2>4. ASSUME NEW u \in Users, Finish(u), saved' # saved PROVE Stored(k)
    <3>1. /\ flights[u] # NoFlight /\ IsRequest(flights[u].req)
          /\ FlightOK(flights[u], u, saved, workload.requests) /\ LandsOn(saved', saved, flights[u])
      BY <1>3, <2>4, FinishingKeeps
    <3>2. PICK f, key : f = flights[u] /\ key = f.req.key
      BY ONLY TRUE
    <3>3. Accepted(f) /\ Store(f) /\ (f.op = "put" => f.compiled)
      BY <2>4, <3>2 DEF Finish
    <3>4. CASE k # key
      BY <3>1, <3>2, <3>4 DEF LandsOn
    <3>5. CASE k = key /\ key[1] = "rules"
      <4>1. f.op \in {"put", "delete"}
        BY <3>1, <3>2, <3>5 DEF FlightOK, IsRequest, Operations
      <4>2. f.op = "put"
        BY <1>3, <3>1, <3>2, <3>5, <4>1 DEF LandsOn
      <4>3. saved' = Bind(saved, key, f.req.body) /\ dims' = dims
        BY ONLY <3>2, <3>3, <4>2 DEF Store, cube
      <4>4. saved'[key] = f.req.body
        BY ONLY <4>3 DEF Bind
      <4>5. Checked(f)
        BY <3>3, <4>2 DEF Checked, Accepted, Conflicts, Bound
      <4>6. Compiles(dims, f.req.body)
        BY <1>3, <3>1, <3>2, <4>5 DEF RulesHold
      <4>7. Compiles(dims', saved'[k])
        BY ONLY <3>5, <4>3, <4>4, <4>6
      <4> QED BY <4>7
    <3>6. CASE key[1] # "rules"
      BY <3>4, <3>6
    <3> QED BY <3>4, <3>5, <3>6
  <2> QED BY <1>3, <2>1, <2>2, <2>3, <2>4 DEF ModelNext
<1> HIDE DEF Stored
<1>4. ModelInv /\ RulesHold /\ [ModelNext]_modelVars => [\A k \in DOMAIN saved' : Stored(k)]_modelVars
  BY <1>3
<1>5. ModelInv /\ RulesHold /\ [ModelNext]_modelVars
        => [\A k \in DOMAIN saved' : k[1] = "rules" /\ (k \in DOMAIN saved => saved'[k] # saved[k])
              => Compiles(dims', saved'[k])]_modelVars
  BY ONLY <1>4 DEF Stored
<1> QED BY <1>1, <1>2, <1>5, ModelInvariance, PTL DEF ModelSpec, StoredRulesCompile

-----------------------------------------------------------------------------
(* What an edit breaks.                                                      *)
ObjectsOK(objs) == \A k \in DOMAIN objs : IsObject(k, objs[k])
Shaped == ObjectsOK(saved)

\* The body that a request saves under its key, for those that save one.
Lands(objs2, objs, key, object) ==
  /\ key \in DOMAIN objs2 => objs2[key] = object
  /\ \A k \in DOMAIN objs2 : k # key => k \in DOMAIN objs /\ objs2[k] = objs[k]

LEMMA LandedShapes ==
  ASSUME NEW objs, ObjectsOK(objs), NEW key, NEW object, NEW objs2, Lands(objs2, objs, key, object),
         key \in DOMAIN objs2 => IsObject(key, object)
  PROVE  ObjectsOK(objs2)
BY DEF ObjectsOK, Lands

LEMMA OwnedShape ==
  ASSUME NEW k, NEW body, IsObject(k, body), NEW owner
  PROVE  IsObject(k, Bind(body, "owner", owner))
<1>1. PICK object : object = Bind(body, "owner", owner)
  BY ONLY TRUE
<1>2. /\ DOMAIN body \subseteq DOMAIN object
      /\ \A f \in DOMAIN body : f # "owner" => object[f] = body[f]
  BY <1>1 DEF Bind
<1>3. IsObject(k, object)
  <2>1. CASE k[1] = "view"
    <3>1. object.rows = body.rows /\ object.columns = body.columns /\ object.context = body.context
      BY <1>2, <2>1 DEF IsObject
    <3>2. \A f \in {"rows", "columns", "context"} : f \in DOMAIN object /\ ASequence(object[f])
      BY <1>2, <2>1 DEF IsObject
    <3> QED BY <2>1, <3>1, <3>2 DEF IsObject
  <2>2. CASE k[1] # "view"
    BY <1>2, <2>2 DEF IsObject
  <2> QED BY <2>1, <2>2
<1> QED BY <1>1, <1>3

LEMMA ShapesStored ==
  ASSUME Shaped, NEW f, f.op = f.req.op, IsRequest(f.req), Store(f), Accepted(f),
         f.op \in {"create", "replace", "define", "put"} => IsObject(f.req.key, f.req.body)
  PROVE  Shaped'
<1>1. PICK key, objs, objs2 : key = f.req.key /\ objs = saved /\ objs2 = saved'
  BY ONLY TRUE
<1>2. ObjectsOK(objs)
  BY <1>1 DEF Shaped
<1>3. f.op \in {"open", "stage", "commit"} => key[1] = "sandbox"
  BY <1>1, OperationsAre
<1>4. ASSUME key[1] = "sandbox" PROVE \A object : IsObject(key, object)
  BY <1>4 DEF IsObject, Operations
<1>5. ASSUME NEW object, key \in DOMAIN objs2 => IsObject(key, object), Lands(objs2, objs, key, object)
      PROVE  Shaped'
  BY <1>1, <1>2, <1>5, LandedShapes DEF Shaped
<1>6. CASE f.op \in {"create", "replace"} /\ saved' = Bind(saved, key, Bind(f.req.body, "owner", f.owner))
  <2>1. PICK object : object = Bind(f.req.body, "owner", f.owner)
    BY ONLY TRUE
  <2>2. IsObject(key, object)
    BY <1>1, <1>6, <2>1, OwnedShape
  <2>3. Lands(objs2, objs, key, object)
    BY ONLY <1>1, <1>6, <2>1 DEF Lands, Bind
  <2> QED BY <1>5, <2>2, <2>3
<1>7. CASE f.op \in {"define", "put"} /\ saved' = Bind(saved, key, f.req.body)
  <2>1. PICK object : object = f.req.body
    BY ONLY TRUE
  <2>2. Lands(objs2, objs, key, object)
    BY ONLY <1>1, <1>7, <2>1 DEF Lands, Bind
  <2> QED BY <1>1, <1>5, <1>7, <2>1, <2>2
<1>8. CASE f.op = "delete" /\ saved' = Restrict(saved, DOMAIN saved \ {key})
  <2>1. PICK object : object = f
    BY ONLY TRUE
  <2>2. key \notin DOMAIN objs2 /\ Lands(objs2, objs, key, object)
    BY ONLY <1>1, <1>8 DEF Lands, Restrict
  <2> QED BY <1>5, <2>2
<1>9. ASSUME key[1] = "sandbox", NEW object, Lands(objs2, objs, key, object) PROVE Shaped'
  BY <1>4, <1>5, <1>9
<1>10. CASE f.op = "open" /\ saved' = Bind(saved, key, [owner |-> f.owner, public |-> FALSE, cells |-> NoFn])
  <2>1. PICK object : object = [owner |-> f.owner, public |-> FALSE, cells |-> NoFn]
    BY ONLY TRUE
  <2>2. Lands(objs2, objs, key, object)
    BY ONLY <1>1, <1>10, <2>1 DEF Lands, Bind
  <2> QED BY <1>3, <1>9, <1>10, <2>2
<1>11. ASSUME f.op \in {"stage", "commit"}, NEW map, CellsPut(objs2, objs, key, map) PROVE Shaped'
  <2>1. PICK object : object = objs2[key]
    BY ONLY TRUE
  <2>2. Lands(objs2, objs, key, object)
    BY ONLY <1>11, <2>1 DEF Lands, CellsPut
  <2> QED BY <1>3, <1>9, <1>11, <2>2
<1>12. CASE f.op = "stage" /\ saved' = [saved EXCEPT ![key].cells = Bind(@, f.at, f.req.value)]
  <2>1. PICK map : map = Bind(saved[key].cells, f.at, f.req.value)
    BY ONLY TRUE
  <2>2. CellsPut(objs2, objs, key, map)
    BY ONLY <1>1, <1>12, <2>1 DEF CellsPut
  <2> QED BY <1>11, <1>12, <2>2
<1>13. CASE f.op = "commit" /\ CommitSandbox(key)
  <2>1. CellsPut(objs2, objs, key, NoFn)
    BY ONLY <1>1, <1>13, CommittingPuts
  <2> QED BY <1>11, <1>13, <2>1
<1> QED BY <1>1, <1>6, <1>7, <1>8, <1>10, <1>12, <1>13 DEF Store

LEMMA ShapesSteps ==
  ASSUME ModelInv, Shaped, ModelNext
  PROVE  Shaped'
<1>1. CASE CellWrite \/ \E u \in Users : Ask(u) \/ Compile(u)
  BY <1>1, WritingKeeps, AskingKeeps DEF Shaped
<1>2. CASE SchemaEdit
  <2>1. PICK objs, objs2, ds2 : objs = saved /\ objs2 = saved' /\ ds2 = dims'
    BY ONLY TRUE
  <2>2. SandboxesKeep(objs2, objs, ds2) /\ ObjectsOK(objs)
    BY <1>2, <2>1, EditingKeeps DEF SandboxesFollow, Shaped
  <2>3. ObjectsOK(objs2)
    BY ONLY <2>2 DEF SandboxesKeep, ObjectsOK, IsObject
  <2> QED BY <2>1, <2>3 DEF Shaped
<1>3. ASSUME NEW u \in Users, Finish(u) PROVE Shaped'
  <2>1. PICK f : f = flights[u]
    BY ONLY TRUE
  <2>2. CASE Accepted(f) /\ Store(f)
    <3>1. f # NoFlight
      BY <1>3, <2>1 DEF Finish
    <3>2. f.req \in workload.requests /\ f.op = f.req.op /\ workload \in Workloads
      BY <2>1, <3>1 DEF ModelInv, FlightsHold, FlightsOK, FlightOK
    <3>3. IsRequest(f.req)
      BY <3>2, AskedAre
    <3>4. f.op \in {"create", "replace", "define", "put"} => IsObject(f.req.key, f.req.body)
      BY <3>2, WorkloadsAssumption
    <3> QED BY <2>2, <3>2, <3>3, <3>4, ShapesStored
  <2>3. CASE UNCHANGED <<cube, saved>>
    BY <2>3 DEF Shaped
  <2> QED BY <1>3, <2>1, <2>2, <2>3 DEF Finish
<1> QED BY <1>1, <1>2, <1>3 DEF ModelNext

\* The names an object holds of dimension d.
HeldNames(k, object, d) ==
  NamesOf(object, d) \cup (IF k[1] = "subset" /\ k[2] = d THEN Range(object.members) ELSE {})

\* A name that is held, and was found only by itself, and is found no more.
Lost(k, objs, ds, ds2) ==
  \E d \in 1 .. Rank : \E m :
    /\ Resolves(ds[d], m) /\ ~Resolves(ds2[d], m)
    /\ m \in HeldNames(k, objs[k], d) /\ k \in {site[1] : site \in ReferencesToMember(objs, d, m)}

LEMMA LostIsListed ==
  ASSUME NEW k, NEW objs, NEW ds, NEW ds2, Lost(k, objs, ds, ds2)
  PROVE  \/ \E d \in 1 .. Rank : \E m \in Names(ds[d]) \ Names(ds2[d]) :
              k \in {site[1] : site \in ReferencesToMember(objs, d, m)}
         \/ \E d \in 1 .. Rank : ~(HeldNames(k, objs[k], d) \subseteq Names(ds[d]))
BY DEF Lost, Resolves

\* Where references_to_member looks.
LEMMA Listed ==
  ASSUME NEW objs, NEW k \in DOMAIN objs, IsObject(k, objs[k]), NEW d \in 1 .. Rank, NEW m,
         \/ k[1] = "subset" /\ k[2] = d /\ objs[k].kind = "static" /\ m \in Range(objs[k].members)
         \/ k[1] = "view" /\ [dimension |-> d, member |-> m] \in Range(objs[k].context)
         \/ k[1] = "view" /\ (Axis(objs[k].rows, d, m) \/ Axis(objs[k].columns, d, m))
         \/ k[1] = "test" /\ (Tested(objs[k].fixtures, d, m) \/ Tested(objs[k].assertions, d, m))
  PROVE  k \in {site[1] : site \in ReferencesToMember(objs, d, m)}
<1>1. \E s : <<k, s>> \in ReferencesToMember(objs, d, m)
  BY DEF ReferencesToMember
<1> QED BY <1>1

Held(object, f) == IF f \in DOMAIN object THEN Range(object[f]) ELSE {}
Members(in, d) == UNION {Range(s.members) : s \in {s \in in : s.type = "members" /\ s.dimension = d}}
Contexts(in, d) == {c.member : c \in {c \in in : c.dimension = d}}
Tests(in, d) == {t.coord[d] : t \in in}

LEMMA NamesOfIs ==
  ASSUME NEW object, NEW d
  PROVE  NamesOf(object, d) = Members(Held(object, "rows") \cup Held(object, "columns"), d)
                              \cup Contexts(Held(object, "context"), d)
                              \cup Tests(Held(object, "fixtures") \cup Held(object, "assertions"), d)
BY Zenon DEF NamesOf, Held, Members, Contexts, Tests

\* Where the names of an object are.
LEMMA NamesAreThere ==
  ASSUME NEW k, NEW object, IsObject(k, object), NEW d, NEW m,
         \/ k[1] = "subset" /\ k[2] = d /\ m \in Range(object.members)
         \/ k[1] = "view" /\ [dimension |-> d, member |-> m] \in Range(object.context)
         \/ k[1] = "view" /\ (Axis(object.rows, d, m) \/ Axis(object.columns, d, m))
         \/ k[1] = "test" /\ \E t \in Range(object.fixtures) \cup Range(object.assertions) : t.coord[d] = m
  PROVE  m \in HeldNames(k, object, d)
<1>1. CASE k[1] = "subset"
  BY <1>1 DEF HeldNames
<1>2. CASE k[1] = "view" /\ [dimension |-> d, member |-> m] \in Range(object.context)
  <2>1. PICK in : in = Range(object.context) /\ "context" \in DOMAIN object
    BY <1>2 DEF IsObject
  <2>2. PICK c : c \in in /\ c.dimension = d /\ c.member = m
    BY <1>2, <2>1
  <2>3. in = Held(object, "context") /\ m \in Contexts(in, d)
    BY <2>1, <2>2 DEF Held, Contexts
  <2> QED BY ONLY <2>3, NamesOfIs DEF HeldNames
<1>3. CASE k[1] = "view" /\ (Axis(object.rows, d, m) \/ Axis(object.columns, d, m))
  <2>1. PICK in : /\ in = Range(object.rows) \cup Range(object.columns)
                  /\ "rows" \in DOMAIN object /\ "columns" \in DOMAIN object
    BY <1>3 DEF IsObject
  <2>2. PICK s \in in : s.type = "members" /\ s.dimension = d /\ m \in Range(s.members)
    BY <1>3, <2>1 DEF Axis
  <2>3. in = Held(object, "rows") \cup Held(object, "columns") /\ m \in Members(in, d)
    BY <2>1, <2>2 DEF Held, Members
  <2> QED BY ONLY <2>3, NamesOfIs DEF HeldNames
<1>4. CASE k[1] = "test" /\ \E t \in Range(object.fixtures) \cup Range(object.assertions) : t.coord[d] = m
  <2>1. PICK in : /\ in = Range(object.fixtures) \cup Range(object.assertions)
                  /\ "fixtures" \in DOMAIN object /\ "assertions" \in DOMAIN object
    BY <1>4 DEF IsObject
  <2>2. in = Held(object, "fixtures") \cup Held(object, "assertions") /\ m \in Tests(in, d)
    BY <1>4, <2>1 DEF Held, Tests
  <2> QED BY ONLY <2>2, NamesOfIs DEF HeldNames
<1> QED BY <1>1, <1>2, <1>3, <1>4

\* Where a view has its dimensions.
LEMMA PlacedDimensions ==
  ASSUME NEW body, ASequence(body.rows), ASequence(body.columns), ASequence(body.context), CoversEachOnce(body)
  PROVE  /\ \A s \in Specs(body) : s.dimension \in 1 .. Rank
         /\ \A c \in Range(body.context) : c.dimension \in 1 .. Rank
<1> DEFINE of(s) == [i \in DOMAIN s |-> s[i].dimension]
<1>1. ASSUME NEW a, ASequence(a) PROVE ASequence(of(a)) /\ \A x \in Range(a) : x.dimension \in Range(of(a))
  BY SMTT(30), <1>1 DEF ASequence, Range
<1>2. PICK a, b, c : /\ a = of(body.rows) /\ b = of(body.columns) /\ c = of(body.context)
                     /\ ASequence(a) /\ ASequence(b) /\ ASequence(c)
  BY <1>1
<1>3. Range(a \o b \o c) = 1 .. Rank
  BY <1>2 DEF CoversEachOnce, Placed
<1>4. ASSUME NEW s, ASequence(s), NEW t, ASequence(t)
      PROVE  ASequence(s \o t) /\ Range(s) \subseteq Range(s \o t) /\ Range(t) \subseteq Range(s \o t)
  <2>1. \A i \in DOMAIN t : (s \o t)[Len(s) + i] = t[i] /\ Len(s) + i \in DOMAIN (s \o t)
    BY <1>4 DEF ASequence
  <2>2. \A i \in DOMAIN s : (s \o t)[i] = s[i] /\ i \in DOMAIN (s \o t)
    BY <1>4 DEF ASequence
  <2>3. PICK u : u = s \o t
    BY ONLY TRUE
  <2>4. u \in Seq(Range(s) \cup Range(t))
    BY <1>4, <2>3 DEF ASequence
  <2>5. u \in Seq(Range(u))
    BY ONLY <2>4 DEF Range
  <2> QED BY <2>1, <2>2, <2>3, <2>5 DEF ASequence, Range
<1>5. Range(a) \cup Range(b) \cup Range(c) \subseteq 1 .. Rank
  BY <1>2, <1>3, <1>4
<1> QED BY <1>1, <1>2, <1>5 DEF Specs

LEMMA BreaksLoseANames ==
  ASSUME NEW objs, ObjectsOK(objs), NEW objs2, DOMAIN objs \subseteq DOMAIN objs2,
         NEW k \in DOMAIN objs, objs2[k] = objs[k], NEW ds, NEW ds2, Sound(ds, objs, k), ~Sound(ds2, objs2, k)
  PROVE  Lost(k, objs, ds, ds2)
<1>1. PICK object : object = objs[k] /\ object = objs2[k]
  OBVIOUS
<1>2. IsObject(k, object)
  BY <1>1 DEF ObjectsOK
<1>3. ASSUME NEW d \in 1 .. Rank, NEW m, Resolves(ds[d], m), ~Resolves(ds2[d], m),
         \/ k[1] = "subset" /\ k[2] = d /\ object.kind = "static" /\ m \in Range(object.members)
         \/ k[1] = "view" /\ [dimension |-> d, member |-> m] \in Range(object.context)
         \/ k[1] = "view" /\ (Axis(object.rows, d, m) \/ Axis(object.columns, d, m))
         \/ k[1] = "test" /\ \E t \in Range(object.fixtures) \cup Range(object.assertions) : t.coord[d] = m
      PROVE  Lost(k, objs, ds, ds2)
  <2>1. m \in HeldNames(k, object, d)
    BY ONLY <1>2, <1>3, NamesAreThere
  <2>2. k[1] = "test" /\ (\E t \in Range(object.fixtures) \cup Range(object.assertions) : t.coord[d] = m)
          => Tested(object.fixtures, d, m) \/ Tested(object.assertions, d, m)
    BY DEF Tested
  <2>3. k \in {site[1] : site \in ReferencesToMember(objs, d, m)}
    BY <1>1, <1>2, <1>3, <2>2, Listed
  <2> QED BY <1>1, <1>3, <2>1, <2>3 DEF Lost
<1>4. CASE k[1] = "subset"
  <2>1. SubsetSound(ds, k[2], object) /\ ~SubsetSound(ds2, k[2], object)
    BY <1>1, <1>4 DEF Sound
  <2>2. PICK i \in DOMAIN object.members :
          object.kind = "static" /\ Resolves(ds[k[2]], object.members[i]) /\ ~Resolves(ds2[k[2]], object.members[i])
    BY <2>1 DEF SubsetSound
  <2>3. k[2] \in 1 .. Rank /\ object.members[i] \in Range(object.members)
    BY <1>2, <1>4 DEF IsObject, Range
  <2> QED BY <1>3, <1>4, <2>2, <2>3
<1>5. CASE k[1] = "view"
  <2>1. ViewSound(ds, objs, object) /\ ~ViewSound(ds2, objs2, object)
    BY <1>1, <1>5 DEF Sound
  <2>2. /\ \A s \in Specs(object) : s.dimension \in 1 .. Rank
        /\ \A c \in Range(object.context) : c.dimension \in 1 .. Rank
    BY <1>2, <1>5, <2>1, PlacedDimensions DEF ViewSound, IsObject
  <2>3. ASSUME NEW spec \in Specs(object), AxisSound(ds, objs, spec), ~AxisSound(ds2, objs2, spec)
        PROVE  Lost(k, objs, ds, ds2)
    <3>1. spec.type \in {"members", "subset"}
      BY <1>2, <1>5, <2>3 DEF IsObject, Specs
    <3>2. spec.type # "subset"
      BY <2>3 DEF AxisSound
    <3>3. PICK i \in DOMAIN spec.members :
            Resolves(ds[spec.dimension], spec.members[i]) /\ ~Resolves(ds2[spec.dimension], spec.members[i])
      BY <2>3, <3>2 DEF AxisSound
    <3>4. Axis(object.rows, spec.dimension, spec.members[i]) \/ Axis(object.columns, spec.dimension, spec.members[i])
      BY <2>3, <3>1, <3>2 DEF Axis, Specs, Range
    <3> QED BY <1>3, <1>5, <2>2, <2>3, <3>3, <3>4
  <2>4. ASSUME NEW c \in Range(object.context), Resolves(ds[c.dimension], c.member), ~Resolves(ds2[c.dimension], c.member)
        PROVE  Lost(k, objs, ds, ds2)
    <3>1. c = [dimension |-> c.dimension, member |-> c.member]
      BY <1>2, <1>5, <2>4 DEF IsObject
    <3>2. [dimension |-> c.dimension, member |-> c.member] \in Range(object.context)
      BY ONLY <2>4, <3>1
    <3> QED BY <1>3, <1>5, <2>2, <2>4, <3>2
  <2> QED BY <2>1, <2>3, <2>4 DEF ViewSound
<1>6. CASE k[1] = "test"
  <2>1. PICK t \in Range(object.fixtures) \cup Range(object.assertions) :
          Resolvable(ds, t.coord) /\ ~Resolvable(ds2, t.coord)
    BY <1>1, <1>6 DEF Sound
  <2>2. PICK d \in 1 .. Rank : Resolves(ds[d], t.coord[d]) /\ ~Resolves(ds2[d], t.coord[d])
    BY <2>1 DEF Resolvable
  <2> QED BY <1>3, <1>6, <2>1, <2>2
<1>7. CASE k[1] \in {"rules", "sandbox"}
  BY <1>7 DEF Sound
<1> QED BY <1>2, <1>4, <1>5, <1>6, <1>7 DEF IsObject, Operations

(* What an edit breaks, the warning had listed, for any dimensions, objects  *)
(* and edits: references_to_member looks everywhere a check looks, but for   *)
(* aliases and for the subsets of a view's axes (query.rs:928-1055).         *)
THEOREM BreaksWereListed == ModelSpec => BreaksAreListed
<1>1. ModelInit => Shaped
  <2>1. ASSUME NEW w \in Workloads PROVE ObjectsOK(w.saved)
    <3>1. \A k \in DOMAIN w.saved : IsObject(k, w.saved[k])
      BY WorkloadsAssumption
    <3> QED BY ONLY <3>1 DEF ObjectsOK
  <2> QED BY <2>1 DEF ModelInit, Shaped
<1>2. ModelInv /\ Shaped /\ [ModelNext]_modelVars => Shaped'
  BY ShapesSteps DEF modelVars, objects, Shaped
<1> DEFINE Listing(k) ==
      (saved'[k] = saved[k] /\ Sound(dims, saved, k) /\ ~Sound(dims', saved', k)) =>
         \/ DOMAIN saved \ DOMAIN saved' # {}
         \/ \E d \in 1..Rank : \E m \in Names(dims[d]) \ Names(dims'[d]) :
              k \in {site[1] : site \in ReferencesToMember(saved, d, m)}
         \/ \E d \in 1..Rank :
              ~(NamesOf(saved[k], d) \cup (IF k[1] = "subset" /\ k[2] = d THEN Range(saved[k].members) ELSE {})
                  \subseteq Names(dims[d]))
<1>3. ASSUME Shaped, NEW k \in DOMAIN saved \cap DOMAIN saved' PROVE Listing(k)
  <2>1. ASSUME saved'[k] = saved[k], Sound(dims, saved, k), ~Sound(dims', saved', k), DOMAIN saved \subseteq DOMAIN saved'
        PROVE  \/ \E d \in 1..Rank : \E m \in Names(dims[d]) \ Names(dims'[d]) :
                    k \in {site[1] : site \in ReferencesToMember(saved, d, m)}
               \/ \E d \in 1..Rank : ~(HeldNames(k, saved[k], d) \subseteq Names(dims[d]))
    <3>1. PICK objs, objs2, ds, ds2 : objs = saved /\ objs2 = saved' /\ ds = dims /\ ds2 = dims'
      BY ONLY TRUE
    <3>2. Sound(ds, objs, k) /\ ~Sound(ds2, objs2, k)
      BY <2>1, <3>1
    <3>3. Lost(k, objs, ds, ds2)
      BY <1>3, <2>1, <3>1, <3>2, BreaksLoseANames DEF Shaped
    <3> QED BY <3>1, <3>3, LostIsListed
  <2> QED BY <2>1 DEF HeldNames
<1>4. Shaped => \A k \in DOMAIN saved \cap DOMAIN saved' : Listing(k)
  BY <1>3
<1>5. ModelInv /\ Shaped /\ [ModelNext]_modelVars => [\A k \in DOMAIN saved \cap DOMAIN saved' : Listing(k)]_modelVars
  BY <1>4
<1> QED BY <1>1, <1>2, <1>5, ModelInvariance, PTL DEF ModelSpec, BreaksAreListed

-----------------------------------------------------------------------------
(* Keys.  The sums and the powers of two are recursive functions: each is    *)
(* built number by number (Chains).                                          *)
\* p starts with x0 and goes on with F of the step and of what comes before.
IsChain(p, n, x0, F, X) ==
  /\ p = [i \in 0 .. n |-> p[i]] /\ p[0] = x0
  /\ \A i \in 1 .. n : p[i] = F[<<i, p[i - 1]>>]
  /\ \A i \in 0 .. n : p[i] \in X

LEMMA Chains ==
  ASSUME NEW n \in Nat, NEW X, NEW x0 \in X, NEW F, \A i \in Nat : \A x \in X : F[<<i, x>>] \in X
  PROVE  \E p : IsChain(p, n, x0, F, X)
<1> DEFINE S == {m \in Nat : \E p : IsChain(p, m, x0, F, X)}
<1>1. 0 \in S
  <2>1. PICK p : p = [i \in 0 .. 0 |-> x0]
    BY ONLY TRUE
  <2>2. IsChain(p, 0, x0, F, X)
    BY <2>1 DEF IsChain
  <2> QED BY <2>2
<1>2. ASSUME NEW m \in Nat, m \in S PROVE m + 1 \in S
  <2>1. PICK p : IsChain(p, m, x0, F, X)
    BY <1>2
  <2>2. PICK q : q = [i \in 0 .. (m + 1) |-> IF i <= m THEN p[i] ELSE F[<<m + 1, p[m]>>]]
    BY ONLY TRUE
  <2>3. /\ \A i \in 0 .. m : q[i] = p[i]
        /\ q[m + 1] = F[<<m + 1, p[m]>>]
        /\ q = [i \in 0 .. (m + 1) |-> q[i]]
    BY <2>2
  <2>4. \A i \in 1 .. m : i - 1 \in 0 .. m /\ i \in 0 .. m
    OBVIOUS
  <2>5. \A i \in 1 .. (m + 1) : q[i] = F[<<i, q[i - 1]>>]
    <3>1. ASSUME NEW i \in 1 .. (m + 1) PROVE q[i] = F[<<i, q[i - 1]>>]
      <4>1. CASE i = m + 1
        <5>1. i - 1 = m /\ m \in 0 .. m
          BY ONLY m \in Nat, <4>1
        <5> QED BY <2>3, <4>1, <5>1
      <4>2. CASE i \in 1 .. m
        BY <2>1, <2>3, <2>4, <4>2 DEF IsChain
      <4> QED BY <4>1, <4>2
    <3> QED BY <3>1
  <2>6. \A i \in 0 .. (m + 1) : q[i] \in X
    <3>1. \A i \in 0 .. m : q[i] \in X
      BY <2>1, <2>3 DEF IsChain
    <3>2. p[m] \in X /\ m + 1 \in Nat
      BY <2>1 DEF IsChain
    <3>3. q[m + 1] \in X
      BY <2>3, <3>2
    <3> QED BY <3>1, <3>3
  <2>7. q[0] = x0
    <3>1. 0 \in 0 .. m
      OBVIOUS
    <3> QED BY <2>1, <2>3, <3>1 DEF IsChain
  <2>8. IsChain(q, m + 1, x0, F, X)
    BY ONLY <2>3, <2>5, <2>6, <2>7 DEF IsChain
  <2> QED BY <2>8
<1> HIDE DEF S
<1>3. n \in S
  BY <1>1, <1>2, AllNumbers
<1> QED BY <1>3 DEF S

LEMMA SumsAre ==
  ASSUME NEW n \in Nat, NEW a, \A i \in 1 .. n : a[i] \in Int
  PROVE  /\ Sums(n, a)[0] = 0
         /\ \A i \in 1 .. n : Sums(n, a)[i] = Sums(n, a)[i - 1] + a[i]
         /\ \A i \in 0 .. n : Sums(n, a)[i] \in Int
<1> DEFINE Body(sum, i) == IF i = 0 THEN 0 ELSE sum[i - 1] + a[i]
           sums == CHOOSE sum : sum = [i \in 0 .. n |-> Body(sum, i)]
           F == [ix \in Nat \X Int |-> IF ix[1] \in 1 .. n THEN ix[2] + a[ix[1]] ELSE 0]
<1>1. \A i \in Nat : \A x \in Int : F[<<i, x>>] \in Int
  OBVIOUS
<1>2. \A i \in 1 .. n : \A x \in Int : F[<<i, x>>] = x + a[i]
  OBVIOUS
<1>3. PICK p : IsChain(p, n, 0, F, Int)
  <2> HIDE DEF F
  <2>1. PICK X : X = Int /\ 0 \in X
    OBVIOUS
  <2>2. \A i \in Nat : \A x \in X : F[<<i, x>>] \in X
    BY ONLY <1>1, <2>1, Zenon
  <2>3. \E p : IsChain(p, n, 0, F, X)
    BY ONLY n \in Nat, <2>1, <2>2, Chains
  <2> QED BY <2>1, <2>3
<1>4. p = [i \in 0 .. n |-> Body(p, i)]
  <2> HIDE DEF F
  <2>1. ASSUME NEW i \in 0 .. n PROVE p[i] = Body(p, i)
    <3>1. CASE i = 0
      BY <1>3, <3>1 DEF IsChain
    <3>2. CASE i # 0
      <4>1. i \in 1 .. n /\ i - 1 \in 0 .. n
        BY <3>2
      <4> QED BY <1>2, <1>3, <3>2, <4>1 DEF IsChain
    <3> QED BY <3>1, <3>2
  <2>2. p = [i \in 0 .. n |-> p[i]]
    BY <1>3 DEF IsChain
  <2> HIDE DEF Body
  <2> QED BY <2>1, <2>2
<1>5. sums = [i \in 0 .. n |-> Body(sums, i)]
  <2> HIDE DEF Body
  <2> QED BY <1>4
<1>6. Sums(n, a) = sums
  BY DEF Sums
<1> HIDE DEF sums, F
<1>7. sums[0] = 0 /\ \A i \in 1 .. n : sums[i] = sums[i - 1] + a[i]
  <2>1. ASSUME NEW i \in 0 .. n PROVE sums[i] = Body(sums, i)
    <3> HIDE DEF Body
    <3> QED BY <1>5
  <2> QED BY <2>1
<1> DEFINE S == {m \in Nat : m <= n => sums[m] \in Int}
<1>8. Nat \subseteq S
  <2>1. 0 \in S
    BY <1>7
  <2>2. ASSUME NEW m \in Nat, m \in S PROVE m + 1 \in S
    <3>1. CASE m + 1 <= n
      <4>1. m + 1 \in 1 .. n /\ (m + 1) - 1 = m /\ sums[m] \in Int
        BY <2>2, <3>1
      <4> QED BY <1>7, <4>1
    <3>2. CASE ~(m + 1 <= n)
      BY <3>2
    <3> QED BY <3>1, <3>2
  <2> HIDE DEF S
  <2> QED BY <2>1, <2>2, AllNumbers
<1> QED BY <1>6, <1>7, <1>8

LEMMA Pow2Is ==
  ASSUME NEW n \in Nat
  PROVE  Pow2(0) = 1 /\ Pow2(n + 1) = 2 * Pow2(n) /\ Pow2(n) \in Nat /\ Pow2(n) > 0
<1> DEFINE Body(power, i) == IF i = 0 THEN 1 ELSE 2 * power[i - 1]
           powers(m) == CHOOSE power : power = [i \in 0 .. m |-> Body(power, i)]
           F == [ix \in Nat \X Nat |-> 2 * ix[2]]
<1>1. ASSUME NEW m \in Nat PROVE powers(m) = [i \in 0 .. m |-> Body(powers(m), i)]
  <2>1. \A i \in Nat : \A x \in Nat : F[<<i, x>>] \in Nat /\ F[<<i, x>>] = 2 * x
    OBVIOUS
  <2>2. PICK p : IsChain(p, m, 1, F, Nat)
    <3> HIDE DEF F
    <3> QED BY <2>1, Chains
  <2>3. p = [i \in 0 .. m |-> Body(p, i)]
    <3> HIDE DEF F
    <3>1. ASSUME NEW i \in 0 .. m PROVE p[i] = Body(p, i)
      <4>1. CASE i = 0
        BY <2>2, <4>1 DEF IsChain
      <4>2. CASE i # 0
        <5>1. i \in 1 .. m /\ i - 1 \in 0 .. m /\ i \in Nat
          BY <4>2
        <5> QED BY <2>1, <2>2, <4>2, <5>1 DEF IsChain
      <4> QED BY <4>1, <4>2
    <3>2. p = [i \in 0 .. m |-> p[i]]
      BY <2>2 DEF IsChain
    <3> HIDE DEF Body
    <3> QED BY <3>1, <3>2
  <2> HIDE DEF Body
  <2> QED BY <2>3
<1>2. ASSUME NEW m \in Nat PROVE Pow2(m) = powers(m)[m]
  BY DEF Pow2
<1> HIDE DEF powers
<1>3. ASSUME NEW m \in Nat, NEW i \in 0 .. m PROVE powers(m)[i] = Body(powers(m), i)
  <2> HIDE DEF Body
  <2> QED BY <1>1, <1>3
<1> DEFINE Same == {i \in Nat : \A m, k \in Nat : i <= m /\ i <= k => /\ powers(m)[i] = powers(k)[i]
                                                                      /\ powers(m)[i] \in Nat /\ powers(m)[i] > 0}
<1>4. Nat \subseteq Same
  <2>1. 0 \in Same
    <3>1. \A m \in Nat : powers(m)[0] = 1
      BY <1>3
    <3> QED BY <3>1
  <2>2. ASSUME NEW i \in Nat, i \in Same PROVE i + 1 \in Same
    <3>1. ASSUME NEW m \in Nat, i + 1 <= m PROVE powers(m)[i + 1] = 2 * powers(m)[i] /\ i <= m
      <4>1. i + 1 \in 0 .. m /\ i + 1 # 0 /\ (i + 1) - 1 = i
        BY <3>1
      <4> QED BY <1>3, <3>1, <4>1
    <3>2. ASSUME NEW m \in Nat, NEW k \in Nat, i + 1 <= m, i + 1 <= k
          PROVE  powers(m)[i + 1] = powers(k)[i + 1] /\ powers(m)[i + 1] \in Nat /\ powers(m)[i + 1] > 0
      BY <2>2, <3>1, <3>2
    <3> QED BY <3>2
  <2> HIDE DEF Same
  <2> QED BY <2>1, <2>2, AllNumbers
<1>5. Pow2(0) = 1
  BY <1>2, <1>3
<1>6. Pow2(n + 1) = 2 * Pow2(n)
  <2>1. n + 1 \in Nat /\ n + 1 \in 0 .. (n + 1) /\ n + 1 # 0 /\ (n + 1) - 1 = n
    OBVIOUS
  <2>2. powers(n + 1)[n + 1] = 2 * powers(n + 1)[n]
    BY <1>3, <2>1
  <2>3. powers(n + 1)[n] = powers(n)[n]
    BY <1>4
  <2> QED BY <1>2, <2>1, <2>2, <2>3
<1>7. Pow2(n) \in Nat /\ Pow2(n) > 0
  BY <1>2, <1>4
<1> QED BY <1>5, <1>6, <1>7

LEMMA Pow2Adds ==
  ASSUME NEW a \in Nat, NEW b \in Nat
  PROVE  Pow2(a + b) = Pow2(a) * Pow2(b)
<1> DEFINE S == {n \in Nat : Pow2(a + n) = Pow2(a) * Pow2(n)}
<1>1. 0 \in S
  BY Pow2Is
<1>2. ASSUME NEW n \in Nat, n \in S PROVE n + 1 \in S
  <2>1. PICK x, y, z : x = Pow2(a) /\ y = Pow2(n) /\ z = Pow2(a + n) /\ x \in Nat /\ y \in Nat /\ z \in Nat
    BY Pow2Is
  <2>2. Pow2(n + 1) = 2 * y /\ Pow2(a + (n + 1)) = 2 * z
    <3>1. a + n \in Nat /\ a + (n + 1) = (a + n) + 1
      OBVIOUS
    <3> QED BY <2>1, <3>1, Pow2Is
  <2>3. z = x * y
    BY <1>2, <2>1
  <2>4. 2 * z = x * (2 * y)
    BY ONLY <2>1, <2>3
  <2> QED BY <2>1, <2>2, <2>4
<1> HIDE DEF S
<1>3. b \in S
  BY <1>1, <1>2, AllNumbers
<1> QED BY <1>3 DEF S

\* A field is wide enough for what it counts.
LEMMA FieldsFit ==
  ASSUME NEW len \in Nat
  PROVE  BitsFor(len) \in Nat /\ BitsFor(len) > 0 /\ len <= Pow2(BitsFor(len))
<1> DEFINE Fits(w) == len <= Pow2(w) /\ (w = 1 \/ len > Pow2(w - 1))
<1>1. \E w \in 1 .. (len + 1) : Fits(w)
  <2> SUFFICES ASSUME \A w \in 1 .. (len + 1) : ~Fits(w) PROVE FALSE
    OBVIOUS
  <2> DEFINE S == {n \in Nat : n < len + 1 => len > Pow2(n + 1) /\ Pow2(n + 1) > n + 1}
  <2>1. 0 \in S
    <3>1. Pow2(0 + 1) = 2
      BY Pow2Is
    <3> QED BY <3>1
  <2>2. ASSUME NEW n \in Nat, n \in S PROVE n + 1 \in S
    <3>1. CASE n + 1 < len + 1
      <4>1. len > Pow2(n + 1) /\ Pow2(n + 1) > n + 1 /\ Pow2(n + 1) \in Nat /\ Pow2((n + 1) + 1) = 2 * Pow2(n + 1)
        BY <2>2, <3>1, Pow2Is
      <4>2. ~Fits((n + 1) + 1) /\ ((n + 1) + 1) - 1 = n + 1
        BY <3>1
      <4> QED BY <4>1, <4>2
    <3>2. CASE ~(n + 1 < len + 1)
      BY <3>2
    <3> QED BY <3>1, <3>2
  <2>3. len \in S
    <3> HIDE DEF S, Fits
    <3> QED BY <2>1, <2>2, AllNumbers
  <2> QED BY <2>3, Pow2Is
<1>2. BitsFor(len) \in 1 .. (len + 1) /\ Fits(BitsFor(len))
  <2>1. BitsFor(len) = CHOOSE w \in 1 .. (len + 1) : Fits(w)
    BY DEF BitsFor
  <2> HIDE DEF Fits
  <2> QED BY <1>1, <2>1
<1> QED BY <1>2

\* Digits x of the widths W, at the places P, and the sums s of what they stand for.
IsRadix(n, x, P, W, s) ==
  /\ \A d \in 1 .. n : P[d] \in Nat /\ P[d] > 0 /\ W[d] \in Nat /\ x[d] \in Nat /\ x[d] < W[d]
  /\ \A d \in 1 .. n : d + 1 \in 1 .. n => P[d + 1] = P[d] * W[d]
  /\ s[0] = 0 /\ \A d \in 1 .. n : s[d] = s[d - 1] + x[d] * P[d]

LEMMA DigitBelow ==
  ASSUME NEW p \in Nat, p > 0, NEW w \in Nat, NEW x \in Nat, x < w, NEW s \in Nat, s < p
  PROVE  s + x * p \in Nat /\ s + x * p < p * w
<1>1. w = (x + 1) + (w - x - 1) /\ w - x - 1 \in Nat
  OBVIOUS
<1>2. PICK r \in Nat : r = w - x - 1
  BY <1>1
<1>3. p * w = (x * p + p) + p * r /\ p * r \in Nat /\ x * p \in Nat
  BY <1>1, <1>2
<1> QED BY <1>3

LEMMA RadixBelow ==
  ASSUME NEW n \in Nat, NEW x, NEW P, NEW W, NEW s, IsRadix(n, x, P, W, s)
  PROVE  \A d \in 1 .. n : s[d - 1] \in Nat /\ s[d - 1] < P[d] /\ s[d] \in Nat
<1> DEFINE S == {m \in Nat : m + 1 \in 1 .. n => s[m] \in Nat /\ s[m] < P[m + 1] /\ s[m + 1] \in Nat}
<1>1. ASSUME NEW d \in 1 .. n, s[d - 1] \in Nat, s[d - 1] < P[d] PROVE s[d] \in Nat /\ s[d] < P[d] * W[d]
  <2>1. P[d] \in Nat /\ P[d] > 0 /\ W[d] \in Nat /\ x[d] \in Nat /\ x[d] < W[d] /\ s[d] = s[d - 1] + x[d] * P[d]
    BY DEF IsRadix
  <2> QED BY ONLY <1>1, <2>1, DigitBelow
<1>2. 0 \in S
  <2>1. CASE 1 \in 1 .. n
    <3>1. s[0] = 0 /\ P[1] \in Nat /\ P[1] > 0 /\ 0 + 1 = 1 /\ 1 - 1 = 0
      BY <2>1 DEF IsRadix
    <3>2. s[1] \in Nat
      BY <1>1, <2>1, <3>1
    <3> QED BY <3>1, <3>2
  <2> QED BY <2>1
<1>3. ASSUME NEW m \in Nat, m \in S PROVE m + 1 \in S
  <2>1. CASE (m + 1) + 1 \in 1 .. n
    <3>1. m + 1 \in 1 .. n /\ (m + 1) - 1 = m /\ ((m + 1) + 1) - 1 = m + 1
      BY <2>1
    <3>2. s[m + 1] \in Nat /\ s[m + 1] < P[m + 1] * W[m + 1]
      BY <1>1, <1>3, <3>1
    <3>3. P[(m + 1) + 1] = P[m + 1] * W[m + 1]
      BY <2>1, <3>1 DEF IsRadix
    <3>4. s[(m + 1) + 1] \in Nat
      BY <1>1, <2>1, <3>1, <3>2, <3>3
    <3> QED BY <3>2, <3>3, <3>4
  <2> QED BY <2>1
<1>4. Nat \subseteq S
  <2> HIDE DEF S
  <2> QED BY <1>2, <1>3, AllNumbers
<1>5. ASSUME NEW d \in 1 .. n PROVE s[d - 1] \in Nat /\ s[d - 1] < P[d] /\ s[d] \in Nat
  <2>1. d - 1 \in Nat /\ (d - 1) + 1 = d
    OBVIOUS
  <2>2. d - 1 \in S
    BY <1>4, <2>1
  <2> QED BY <2>1, <2>2
<1> QED BY <1>5

\* All is low, a digit x at the place p * w, and h times what the next place, w2 digits on, is.
TwoDigits(p, w, x, w2, h, low, all) ==
  /\ p \in Nat /\ w \in Nat /\ x \in Nat /\ w2 \in Nat /\ h \in Nat /\ low \in Nat
  /\ all = (low + x * (p * w)) + ((p * w) * w2) * h

LEMMA DigitsAbove ==
  ASSUME NEW p, NEW w, NEW x, NEW w2, NEW h, NEW low, NEW all, TwoDigits(p, w, x, w2, h, low, all)
  PROVE  \E g \in Nat : all = low + (p * w) * g
<1> PICK p2 : p2 = p * w
  BY ONLY TRUE
<1> USE DEF TwoDigits
<1>1. PICK g : g = x + w2 * h /\ g \in Nat
  OBVIOUS
<1>2. p2 \in Nat
  OBVIOUS
<1>3. (p2 * w2) * h = p2 * (w2 * h)
  BY ONLY <1>2, w2 \in Nat, h \in Nat
<1>4. p2 * g = x * p2 + p2 * (w2 * h)
  <2>1. PICK k \in Nat : k = w2 * h
    OBVIOUS
  <2> QED BY ONLY <1>1, <1>2, <2>1, x \in Nat
<1>5. p2 * g \in Nat /\ x * p2 \in Nat /\ p2 * (w2 * h) \in Nat
  BY <1>1, <1>2
<1> QED BY <1>1, <1>3, <1>4, <1>5

LEMMA RadixAbove ==
  ASSUME NEW n \in Nat, NEW x, NEW P, NEW W, NEW s, IsRadix(n, x, P, W, s)
  PROVE  \A d \in 1 .. n : \E h \in Nat : s[n] = s[d] + (P[d] * W[d]) * h
<1> DEFINE S == {m \in Nat : n - m \in 1 .. n => \E h \in Nat : s[n] = s[n - m] + (P[n - m] * W[n - m]) * h}
<1>1. \A d \in 1 .. n : s[d] \in Nat /\ P[d] \in Nat /\ W[d] \in Nat /\ x[d] \in Nat
  <2>1. \A d \in 1 .. n : s[d] \in Nat
    BY RadixBelow
  <2>2. \A d \in 1 .. n : P[d] \in Nat /\ W[d] \in Nat /\ x[d] \in Nat
    BY DEF IsRadix
  <2> QED BY <2>1, <2>2
<1>2. 0 \in S
  <2>1. ASSUME n - 0 \in 1 .. n PROVE s[n] = s[n - 0] + (P[n - 0] * W[n - 0]) * 0
    <3>1. n - 0 = n /\ n \in 1 .. n
      BY <2>1
    <3> QED BY <1>1, <3>1
  <2> QED BY <2>1
<1>3. ASSUME NEW m \in Nat, m \in S PROVE m + 1 \in S
  <2>1. ASSUME n - (m + 1) \in 1 .. n
        PROVE  \E h \in Nat : s[n] = s[n - (m + 1)] + (P[n - (m + 1)] * W[n - (m + 1)]) * h
    <3>1. PICK d \in 1 .. n : d = n - (m + 1)
      BY <2>1
    <3>2. d + 1 \in 1 .. n /\ d + 1 = n - m /\ (d + 1) - 1 = d
      BY <3>1
    <3>3. PICK h \in Nat : s[n] = s[d + 1] + (P[d + 1] * W[d + 1]) * h
      BY <1>3, <3>2
    <3>4. s[d + 1] = s[d] + x[d + 1] * P[d + 1] /\ P[d + 1] = P[d] * W[d]
      BY <3>2 DEF IsRadix
    <3>5. s[n] = (s[d] + x[d + 1] * P[d + 1]) + (P[d + 1] * W[d + 1]) * h
      BY <3>3, <3>4
    <3>6. /\ P[d] \in Nat /\ W[d] \in Nat /\ x[d + 1] \in Nat /\ W[d + 1] \in Nat /\ s[d] \in Nat
      BY <1>1, <3>2
    <3>7. \E g \in Nat : s[n] = s[d] + (P[d] * W[d]) * g
      <4>1. PICK p, w, y, w2, low, p2, all :
              p = P[d] /\ w = W[d] /\ y = x[d + 1] /\ w2 = W[d + 1] /\ low = s[d] /\ p2 = P[d + 1] /\ all = s[n]
        BY ONLY TRUE
      <4>2. p \in Nat /\ w \in Nat /\ y \in Nat /\ w2 \in Nat /\ low \in Nat /\ p2 = p * w
        BY ONLY <3>4, <3>6, <4>1
      <4>3. all = (low + y * p2) + (p2 * w2) * h
        BY ONLY <3>5, <4>1
      <4>4. TwoDigits(p, w, y, w2, h, low, all)
        BY ONLY h \in Nat, <4>2, <4>3 DEF TwoDigits
      <4>5. \E g \in Nat : all = low + (p * w) * g
        BY ONLY <4>4, DigitsAbove
      <4> QED BY ONLY <4>1, <4>5
    <3> QED BY <3>1, <3>7
  <2> QED BY <2>1
<1>4. Nat \subseteq S
  <2> HIDE DEF S
  <2> QED BY <1>2, <1>3, AllNumbers
<1>5. ASSUME NEW d \in 1 .. n PROVE \E h \in Nat : s[n] = s[d] + (P[d] * W[d]) * h
  <2>1. PICK m \in Nat : n - m = d
    <3>1. n - d \in Nat /\ n - (n - d) = d
      OBVIOUS
    <3> QED BY <3>1
  <2>2. m \in S
    BY <1>4
  <2> QED BY <2>1, <2>2
<1> QED BY <1>5

\* All is less than p, a digit x of w at the place p, and h times what the next place is.
OneDigit(p, w, x, h, low, all) ==
  /\ p \in Nat /\ p > 0 /\ w \in Nat /\ x \in Nat /\ x < w /\ low \in Nat /\ low < p /\ h \in Nat
  /\ all = (low + x * p) + (p * w) * h

LEMMA DigitRead ==
  ASSUME NEW p, NEW w, NEW x, NEW h, NEW low, NEW all, OneDigit(p, w, x, h, low, all)
  PROVE  (all \div p) % w = x
<1> USE DEF OneDigit
<1>1. PICK q \in Nat : q = x + w * h
  OBVIOUS
<1>2. (p * w) * h = p * (w * h) /\ w * h \in Nat
  BY ONLY p \in Nat, w \in Nat, h \in Nat
<1>3. p * q = x * p + p * (w * h)
  <2>1. PICK k \in Nat : k = w * h
    OBVIOUS
  <2> QED BY ONLY <1>1, <2>1, p \in Nat, x \in Nat
<1>4. all = low + p * q
  <2>1. x * p \in Nat /\ p * (w * h) \in Nat
    BY <1>2
  <2> QED BY ONLY <1>2, <1>3, <2>1, low \in Nat, all = (low + x * p) + (p * w) * h
<1>5. all \div p = q
  BY ONLY <1>4, q \in Nat, p \in Nat, p > 0, low \in Nat, low < p
<1>6. q % w = x
  BY ONLY <1>1, x \in Nat, w \in Nat, x < w, h \in Nat
<1> QED BY <1>5, <1>6

LEMMA RadixRead ==
  ASSUME NEW n \in Nat, NEW x, NEW P, NEW W, NEW s, IsRadix(n, x, P, W, s), NEW d \in 1 .. n
  PROVE  (s[n] \div P[d]) % W[d] = x[d]
<1>1. PICK h \in Nat : s[n] = s[d] + (P[d] * W[d]) * h
  BY RadixAbove
<1>2. P[d] \in Nat /\ P[d] > 0 /\ W[d] \in Nat /\ x[d] \in Nat /\ x[d] < W[d] /\ s[d] = s[d - 1] + x[d] * P[d]
  BY DEF IsRadix
<1>3. s[d - 1] \in Nat /\ s[d - 1] < P[d]
  BY RadixBelow
<1>4. s[n] = (s[d - 1] + x[d] * P[d]) + (P[d] * W[d]) * h
  BY <1>1, <1>2
<1>5. PICK p, w, y, low, all : p = P[d] /\ w = W[d] /\ y = x[d] /\ low = s[d - 1] /\ all = s[n]
  BY ONLY TRUE
<1>6. p \in Nat /\ p > 0 /\ w \in Nat /\ y \in Nat /\ y < w /\ low \in Nat /\ low < p
  BY ONLY <1>2, <1>3, <1>5
<1>7. all = (low + y * p) + (p * w) * h
  BY ONLY <1>4, <1>5
<1>8. OneDigit(p, w, y, h, low, all)
  BY ONLY h \in Nat, <1>6, <1>7 DEF OneDigit
<1>9. (all \div p) % w = y
  BY ONLY <1>8, DigitRead
<1> QED BY ONLY <1>5, <1>9

\* The packing of dimensions: each field wide enough for the positions of its
\* dimension, and above the fields before it.
IsLayout(l, ds) ==
  /\ \A d \in 1 .. Rank : /\ l.offset[d] \in Nat /\ l.width[d] \in Nat /\ l.width[d] > 0
                          /\ Size(ds[d]) <= Pow2(l.width[d])
  /\ \A d \in 1 .. Rank : d + 1 \in 1 .. Rank => l.offset[d + 1] = l.offset[d] + l.width[d]

LEMMA LayoutIs ==
  ASSUME NEW ds, DimsOK(ds)
  PROVE  IsLayout(LayoutOf(ds), ds)
<1>1. PICK width : width = [d \in 1 .. Rank |-> BitsFor(Size(ds[d]))]
  BY ONLY TRUE
<1>2. \A d \in 1 .. Rank : width[d] \in Nat /\ width[d] > 0 /\ Size(ds[d]) <= Pow2(width[d])
  <2>1. \A d \in 1 .. Rank : Size(ds[d]) \in Nat
    BY DimFacts DEF DimsOK, Size
  <2> QED BY <1>1, <2>1, FieldsFit
<1>3. PICK bits, n : bits = Sums(n, width) /\ n = Rank /\ n \in Nat
  BY BuiltFromAssumption
<1>4. /\ bits[0] = 0 /\ (\A i \in 1 .. n : bits[i] = bits[i - 1] + width[i])
      /\ \A i \in 0 .. n : bits[i] \in Int
  <2>1. \A i \in 1 .. n : width[i] \in Int
    BY <1>2, <1>3
  <2> QED BY ONLY <1>3, <2>1, SumsAre
<1>5. PICK l : /\ l = LayoutOf(ds)
               /\ \A d \in 1 .. n : l.width[d] = width[d] /\ l.offset[d] = bits[d - 1]
  <2>1. LayoutOf(ds) = [width |-> width, offset |-> [d \in 1 .. Rank |-> bits[d - 1]], narrow |-> bits[Rank] <= KeyBits]
    BY <1>1, <1>3 DEF LayoutOf
  <2>2. PICK offset : offset = [d \in 1 .. n |-> bits[d - 1]]
    BY ONLY TRUE
  <2>3. \A d \in 1 .. n : offset[d] = bits[d - 1]
    BY <2>2
  <2>4. LayoutOf(ds).width = width /\ LayoutOf(ds).offset = offset
    BY ONLY <1>3, <2>1, <2>2
  <2> QED BY <2>3, <2>4
<1> DEFINE S == {m \in Nat : m + 1 \in 1 .. n => bits[m] \in Nat}
<1>6. Nat \subseteq S
  <2>1. 0 \in S
    BY <1>4
  <2>2. ASSUME NEW m \in Nat, m \in S PROVE m + 1 \in S
    <3>1. CASE (m + 1) + 1 \in 1 .. n
      <4>1. m + 1 \in 1 .. n /\ (m + 1) - 1 = m
        BY ONLY <1>3, m \in Nat, <3>1
      <4>3. bits[m] \in Nat
        BY ONLY <2>2, <4>1
      <4>2. bits[m + 1] = bits[m] + width[m + 1] /\ width[m + 1] \in Nat
        BY <1>2, <1>3, <1>4, <4>1
      <4> QED BY ONLY m \in Nat, <4>3, <4>2
    <3>2. CASE ~((m + 1) + 1 \in 1 .. n)
      BY ONLY m \in Nat, <3>2
    <3> QED BY <3>1, <3>2
  <2> HIDE DEF S
  <2> QED BY <2>1, <2>2, AllNumbers
<1>7. ASSUME NEW d \in 1 .. n PROVE l.offset[d] \in Nat /\ (d + 1 \in 1 .. n => l.offset[d + 1] = l.offset[d] + l.width[d])
  <2>1. d - 1 \in Nat /\ (d - 1) + 1 = d /\ (d + 1) - 1 = d
    OBVIOUS
  <2>2. d - 1 \in S
    BY <1>6, <2>1
  <2>3. bits[d - 1] \in Nat
    BY <2>1, <2>2
  <2> QED BY <1>4, <1>5, <2>1, <2>3
<1> QED BY <1>2, <1>3, <1>5, <1>7 DEF IsLayout

LEMMA SameLayout ==
  ASSUME NEW ds, NEW ds2, SameSizes(ds2, ds)
  PROVE  LayoutOf(ds2) = LayoutOf(ds)
<1>1. [d \in 1 .. Rank |-> BitsFor(Size(ds2[d]))] = [d \in 1 .. Rank |-> BitsFor(Size(ds[d]))]
  BY DEF SameSizes
<1>2. PICK width, width2 : /\ width = [d \in 1 .. Rank |-> BitsFor(Size(ds[d]))]
                           /\ width2 = [d \in 1 .. Rank |-> BitsFor(Size(ds2[d]))]
  BY ONLY TRUE
<1>3. width2 = width
  BY <1>1, <1>2
<1> QED BY <1>2, <1>3 DEF LayoutOf

\* A coordinate of dimensions, and the key it has under their packing.
IsCoord(ds, c) == c = [d \in 1 .. Rank |-> c[d]] /\ \A d \in 1 .. Rank : c[d] \in DOMAIN ds[d].elements

LEMMA KeyDecodes ==
  ASSUME NEW ds, DimsOK(ds), NEW l, IsLayout(l, ds), NEW c, IsCoord(ds, c)
  PROVE  CoordOf(l, Key(l, c)) = c
<1>1. PICK key : key = Key(l, c)
  BY ONLY TRUE
<1>2. CASE ~l.narrow
  BY <1>2 DEF Key, CoordOf
<1>3. CASE l.narrow
  <2>1. PICK n \in Nat : n = Rank
    BY BuiltFromAssumption
  <2>2. PICK x, P, W : /\ x = [d \in 1 .. n |-> c[d] - 1]
                       /\ P = [d \in 1 .. n |-> Pow2(l.offset[d])] /\ W = [d \in 1 .. n |-> Pow2(l.width[d])]
    BY ONLY TRUE
  <2>3. \A d \in 1 .. n : l.offset[d] \in Nat /\ l.width[d] \in Nat
    BY <2>1 DEF IsLayout
  <2>4. \A d \in 1 .. n : P[d] \in Nat /\ P[d] > 0 /\ W[d] \in Nat
    BY <2>2, <2>3, Pow2Is
  <2>5. \A d \in 1 .. n : x[d] \in Nat /\ x[d] < W[d] /\ c[d] = x[d] + 1
    <3>1. ASSUME NEW d \in 1 .. n PROVE x[d] \in Nat /\ x[d] < W[d] /\ c[d] = x[d] + 1
      <4>1. c[d] \in 1 .. Len(ds[d].elements) /\ Len(ds[d].elements) \in Nat
        BY <2>1, DimFacts DEF IsCoord, DimsOK
      <4>2. Len(ds[d].elements) <= W[d]
        BY <2>1, <2>2 DEF IsLayout, Size
      <4>3. x[d] = c[d] - 1 /\ W[d] \in Nat
        BY <2>2, <2>4
      <4>4. PICK e, y, w, len : e = c[d] /\ y = x[d] /\ w = W[d] /\ len = Len(ds[d].elements)
        BY ONLY TRUE
      <4>5. y \in Nat /\ y < w /\ e = y + 1
        <5>1. e \in 1 .. len /\ len \in Nat /\ len <= w /\ y = e - 1 /\ w \in Nat
          BY ONLY <4>1, <4>2, <4>3, <4>4
        <5> QED BY ONLY <5>1
      <4> QED BY ONLY <4>4, <4>5
    <3> QED BY <3>1
  <2>6. \A d \in 1 .. n : d + 1 \in 1 .. n => P[d + 1] = P[d] * W[d]
    <3>1. ASSUME NEW d \in 1 .. n, d + 1 \in 1 .. n PROVE P[d + 1] = P[d] * W[d]
      <4>1. PICK a, b : a = l.offset[d] /\ b = l.width[d] /\ a \in Nat /\ b \in Nat
        BY <2>3
      <4>2. l.offset[d + 1] = a + b
        BY <2>1, <3>1, <4>1 DEF IsLayout
      <4>3. Pow2(a + b) = Pow2(a) * Pow2(b)
        BY ONLY <4>1, Pow2Adds
      <4> QED BY <2>2, <3>1, <4>1, <4>2, <4>3
    <3> QED BY <3>1
  <2>7. PICK a, s : a = [d \in 1 .. n |-> (c[d] - 1) * Pow2(l.offset[d])] /\ s = Sums(n, a)
    BY ONLY TRUE
  <2>8. \A d \in 1 .. n : a[d] = x[d] * P[d] /\ a[d] \in Int
    <3>1. ASSUME NEW d \in 1 .. n PROVE a[d] = x[d] * P[d] /\ a[d] \in Int
      <4>1. a[d] = x[d] * P[d]
        BY <2>2, <2>7
      <4>2. x[d] \in Nat /\ P[d] \in Nat
        BY <2>4, <2>5
      <4>3. PICK y, p : y = x[d] /\ p = P[d]
        BY ONLY TRUE
      <4>4. y * p \in Int
        BY ONLY <4>2, <4>3
      <4> QED BY <4>1, <4>3, <4>4
    <3> QED BY <3>1
  <2>9. s[0] = 0 /\ \A d \in 1 .. n : s[d] = s[d - 1] + a[d]
    <3>1. \A d \in 1 .. n : a[d] \in Int
      BY <2>8
    <3> QED BY ONLY n \in Nat, <2>7, <3>1, SumsAre
  <2>10. IsRadix(n, x, P, W, s)
    BY <2>4, <2>5, <2>6, <2>8, <2>9 DEF IsRadix
  <2>11. \A d \in 1 .. n : (s[n] \div P[d]) % W[d] = x[d]
    BY <2>10, RadixRead
  <2>12. key = <<s[n]>>
    <3>1. Sums(Rank, [d \in 1 .. Rank |-> (c[d] - 1) * Pow2(l.offset[d])])[Rank] = s[n]
      BY <2>1, <2>7
    <3> QED BY <1>1, <1>3, <3>1 DEF Key
  <2>13. CoordOf(l, key) = [d \in 1 .. n |-> ((s[n] \div P[d]) % W[d]) + 1]
    <3>1. key[1] = s[n]
      BY <2>12
    <3>2. CoordOf(l, key) = [d \in 1 .. Rank |-> ((key[1] \div Pow2(l.offset[d])) % Pow2(l.width[d])) + 1]
      BY <1>3 DEF CoordOf
    <3> QED BY <2>1, <2>2, <3>1, <3>2
  <2>14. \A d \in 1 .. n : CoordOf(l, key)[d] = c[d]
    BY <2>5, <2>11, <2>13
  <2>15. CoordOf(l, key) = [d \in 1 .. n |-> CoordOf(l, key)[d]] /\ c = [d \in 1 .. n |-> c[d]]
    BY <2>1, <2>13 DEF IsCoord
  <2> QED BY <1>1, <2>14, <2>15
<1> QED BY <1>2, <1>3

-----------------------------------------------------------------------------
(* The stores of cells: where in the dimensions a number and where a text    *)
(* can be written, and what moves the cells of a store.                      *)
TextCell(ds, c) ==
  /\ IsCoord(ds, c)
  /\ \A d \in 1 .. Rank : ds[d].elements[c[d]].kind # Consolidated
  /\ \E d \in 1 .. Rank : ds[d].elements[c[d]].kind = Str

CoordsOf(ds) == {c \in [1 .. Rank -> Nat] : IsCoord(ds, c)}
NumberCells(ds) == {c \in CoordsOf(ds) : LeafCell(ds, c)}
TextCells(ds) == {c \in CoordsOf(ds) : TextCell(ds, c)}

LEMMA CellsAre ==
  ASSUME NEW ds, DimsOK(ds), NEW c
  PROVE  /\ c \in CoordsOf(ds) <=> IsCoord(ds, c)
         /\ c \in NumberCells(ds) <=> LeafCell(ds, c)
         /\ c \in TextCells(ds) <=> TextCell(ds, c)
<1>1. ASSUME IsCoord(ds, c) PROVE c \in CoordsOf(ds)
  <2>1. \A d \in 1 .. Rank : c[d] \in Nat
    <3>1. ASSUME NEW d \in 1 .. Rank PROVE c[d] \in Nat
      <4>1. DimOK(ds[d]) /\ c[d] \in DOMAIN ds[d].elements
        BY <1>1 DEF DimsOK, IsCoord
      <4>2. PICK n \in Nat : DOMAIN ds[d].elements = 1 .. n
        BY <4>1, DimFacts
      <4>3. c[d] \in 1 .. n
        BY <4>1, <4>2
      <4> QED BY <4>3
    <3> QED BY <3>1
  <2>2. c \in [1 .. Rank -> Nat]
    BY <1>1, <2>1 DEF IsCoord
  <2> QED BY <1>1, <2>2 DEF CoordsOf
<1>2. c \in CoordsOf(ds) <=> IsCoord(ds, c)
  BY <1>1 DEF CoordsOf
<1>3. LeafCell(ds, c) => IsCoord(ds, c)
  BY DEF LeafCell, IsCoord
<1>4. TextCell(ds, c) => IsCoord(ds, c)
  BY DEF TextCell
<1> QED BY <1>2, <1>3, <1>4 DEF NumberCells, TextCells

\* Every coordinate has its key.
Decodes(l, C) == \A c \in C : CoordOf(l, Key(l, c)) = c

LEMMA AllDecode ==
  ASSUME NEW ds, DimsOK(ds), NEW l, l = LayoutOf(ds)
  PROVE  Decodes(l, CoordsOf(ds))
<1>1. IsLayout(l, ds)
  BY LayoutIs
<1>2. ASSUME NEW c \in CoordsOf(ds) PROVE CoordOf(l, Key(l, c)) = c
  <2>1. IsCoord(ds, c)
    BY CellsAre
  <2> QED BY <1>1, <2>1, KeyDecodes
<1> QED BY <1>2 DEF Decodes

\* A store of cells at coordinates of C, under the keys of l.
StoredAt(store, l, C) == IsMap(store) /\ \A k \in DOMAIN store : \E c \in C : k = Key(l, c)

\* The cell of c is carried to where c moves.
Goes(moved, c) == Gone \notin Range(moved[c])
Moves(moved, C, C2) == \A c \in C : Goes(moved, c) => moved[c] \in C2
IsRebuilt(after, store, old, new, moved, C) ==
  /\ IsMap(after)
  /\ \A k \in DOMAIN after : \E c \in C : /\ Goes(moved, c) /\ Key(old, c) \in DOMAIN store
                                          /\ k = Key(new, moved[c]) /\ after[k] = store[Key(old, c)]
  /\ \A c \in C : Goes(moved, c) /\ Key(old, c) \in DOMAIN store => Key(new, moved[c]) \in DOMAIN after

LEMMA RebuiltIs ==
  ASSUME NEW store, NEW old, NEW new, NEW moved, NEW C, NEW after,
         StoredAt(store, old, C), Decodes(old, C), after = Rebuilt(store, old, new, moved)
  PROVE  IsRebuilt(after, store, old, new, moved, C)
<1> DEFINE read == {CoordOf(old, k) : k \in DOMAIN store}
           source == {c \in read : Gone \notin Range(moved[c])}
           at == {Key(new, moved[c]) : c \in source}
           from(k) == CHOOSE c \in source : Key(new, moved[c]) = k
<1>1. after = [k \in at |-> store[Key(old, from(k))]]
  BY DEF Rebuilt
<1>2. \A c \in C : Key(old, c) \in DOMAIN store => c \in read
  BY DEF Decodes
<1>3. ASSUME NEW c \in read PROVE c \in C /\ Key(old, c) \in DOMAIN store
  <2>1. PICK k \in DOMAIN store : c = CoordOf(old, k)
    OBVIOUS
  <2>2. PICK e \in C : k = Key(old, e)
    BY <2>1 DEF StoredAt
  <2>3. c = e
    BY <2>1, <2>2 DEF Decodes
  <2> QED BY <2>1, <2>2, <2>3
<1>4. \A c : c \in source <=> c \in C /\ Key(old, c) \in DOMAIN store /\ Goes(moved, c)
  <2>1. \A c : c \in source <=> c \in read /\ Goes(moved, c)
    BY DEF Goes
  <2> HIDE DEF read, source
  <2> QED BY <1>2, <1>3, <2>1
<1> HIDE DEF source
<1>5. \A k \in at : from(k) \in source /\ Key(new, moved[from(k)]) = k
  OBVIOUS
<1> HIDE DEF from
<1>6. DOMAIN after = at /\ \A k \in at : after[k] = store[Key(old, from(k))]
  BY <1>1
<1>7. after = [k \in DOMAIN after |-> after[k]]
  BY <1>1
<1>8. \A k \in DOMAIN after : \E c \in C : /\ Goes(moved, c) /\ Key(old, c) \in DOMAIN store
                                          /\ k = Key(new, moved[c]) /\ after[k] = store[Key(old, c)]
  BY <1>4, <1>5, <1>6
<1>9. \A c \in C : Goes(moved, c) /\ Key(old, c) \in DOMAIN store => Key(new, moved[c]) \in DOMAIN after
  BY <1>4, <1>6
<1> QED BY <1>7, <1>8, <1>9 DEF IsRebuilt, IsMap

LEMMA RebuiltAt ==
  ASSUME NEW store, NEW old, NEW new, NEW moved, NEW C, NEW after, IsRebuilt(after, store, old, new, moved, C),
         NEW C2, Moves(moved, C, C2)
  PROVE  StoredAt(after, new, C2) /\ Range(after) \subseteq Range(store)
BY DEF IsRebuilt, Moves, StoredAt, Range

\* The same cell in both, by its names; a place of the one with these names.
SameNames(ds, c, ds2, c2) == \A d \in 1 .. Rank : ds2[d].elements[c2[d]].name = ds[d].elements[c[d]].name
\* Each cell of C goes to the one of C2 with its names, or is gone where there is none.
Carries(moved, ds, C, ds2, C2) ==
  /\ \A c \in C : Goes(moved, c) => moved[c] \in C2 /\ SameNames(ds, c, ds2, moved[c])
  /\ \A c \in C, c2 \in C2 : SameNames(ds, c, ds2, c2) => Goes(moved, c)
\* A store of cells after its cells went so.
CellsCarried(after, l2, ds2, C2, store, l, ds, C) ==
  \E moved : Carries(moved, ds, C, ds2, C2) /\ IsRebuilt(after, store, l, l2, moved, C)

LEMMA CarriedStand ==
  ASSUME NEW after, NEW l2, NEW ds2, NEW C2, NEW store, NEW l, NEW ds, NEW C,
         CellsCarried(after, l2, ds2, C2, store, l, ds, C)
  PROVE  StoredAt(after, l2, C2) /\ Range(after) \subseteq Range(store)
<1>1. PICK moved : Carries(moved, ds, C, ds2, C2) /\ IsRebuilt(after, store, l, l2, moved, C)
  BY DEF CellsCarried
<1>2. Moves(moved, C, C2)
  BY <1>1 DEF Moves, Carries
<1> QED BY <1>1, <1>2, RebuiltAt

LEMMA CoordsAre ==
  ASSUME NEW c
  PROVE  c \in Coords <=> IsCoord(dims, c)
<1> DEFINE All == UNION {Positions(d) : d \in 1 .. Rank}
<1>1. c \in Coords <=> c \in [1 .. Rank -> All] /\ \A d \in 1 .. Rank : c[d] \in DOMAIN dims[d].elements
  BY DEF Coords, Positions
<1>2. (\A d \in 1 .. Rank : c[d] \in DOMAIN dims[d].elements) => \A d \in 1 .. Rank : c[d] \in All
  BY DEF Positions
<1>3. c \in [1 .. Rank -> All] => c = [d \in 1 .. Rank |-> c[d]]
  OBVIOUS
<1>4. c = [d \in 1 .. Rank |-> c[d]] /\ (\A d \in 1 .. Rank : c[d] \in All) => c \in [1 .. Rank -> All]
  OBVIOUS
<1> HIDE DEF All
<1> QED BY <1>1, <1>2, <1>3, <1>4 DEF IsCoord

LEMMA TextCellsAre ==
  ASSUME NEW c, c \in Coords
  PROVE  TextCell(dims, c) <=> TakesText(c)
<1>1. IsCoord(dims, c)
  BY CoordsAre
<1> QED BY <1>1 DEF TextCell, TakesText, KindsAt

\* A coordinate is all of it in the dimensions.
LEMMA CoordsStay ==
  ASSUME NEW ds, DimsOK(ds), NEW c, IsCoord(ds, c)
  PROVE  Gone \notin Range(c) /\ DOMAIN c = 1 .. Rank
<1>1. c = [d \in 1 .. Rank |-> c[d]] /\ \A d \in 1 .. Rank : c[d] \in DOMAIN ds[d].elements
  BY DEF IsCoord
<1>2. DOMAIN c = 1 .. Rank
  BY ONLY <1>1
<1>3. \A d \in 1 .. Rank : c[d] # Gone
  BY <1>1, GoneIsNowhere DEF DimsOK
<1> QED BY <1>2, <1>3 DEF Range

\* Dimensions in which each place of the old ones is a place of the same name.
NamesStay(ds2, ds) ==
  \A d \in 1 .. Rank : \A i \in DOMAIN ds[d].elements :
    i \in DOMAIN ds2[d].elements /\ ds2[d].elements[i].name = ds[d].elements[i].name

LEMMA SameNamesSamePlace ==
  ASSUME NEW ds, NEW ds2, DimsOK(ds2), NamesStay(ds2, ds), NEW c, IsCoord(ds, c), NEW c2, IsCoord(ds2, c2),
         SameNames(ds, c, ds2, c2)
  PROVE  c2 = c
<1>1. ASSUME NEW d \in 1 .. Rank PROVE c2[d] = c[d]
  <2>1. PICK new : new = ds2[d] /\ DimOK(new)
    BY DEF DimsOK
  <2>2. c[d] \in DOMAIN new.elements /\ c2[d] \in DOMAIN new.elements /\ new.elements[c2[d]].name = new.elements[c[d]].name
    BY <2>1 DEF NamesStay, IsCoord, SameNames
  <2>3. \A i \in DOMAIN new.elements : new.byName[new.elements[i].name] = i
    BY <2>1 DEF DimOK, NamesFound
  <2> QED BY <2>2, <2>3
<1>2. c = [d \in 1 .. Rank |-> c[d]] /\ c2 = [d \in 1 .. Rank |-> c2[d]]
  BY DEF IsCoord
<1> QED BY ONLY <1>1, <1>2

\* Each cell stays where it is, or is gone where it is no more.
Settles(moved, C, C2) == \A c \in C : IF c \in C2 THEN moved[c] = c ELSE ~Goes(moved, c)

LEMMA SettledCarries ==
  ASSUME NEW ds, DimsOK(ds), NEW ds2, DimsOK(ds2), NamesStay(ds2, ds), NEW C, NEW C2, NEW moved,
         C \subseteq CoordsOf(ds), C2 \subseteq CoordsOf(ds2), Settles(moved, C, C2)
  PROVE  Carries(moved, ds, C, ds2, C2)
<1>1. ASSUME NEW c \in C, Goes(moved, c) PROVE moved[c] \in C2 /\ SameNames(ds, c, ds2, moved[c])
  <2>1. c \in C2 /\ moved[c] = c
    BY <1>1 DEF Settles
  <2>2. IsCoord(ds, c)
    BY DEF CoordsOf
  <2>3. SameNames(ds, c, ds2, c)
    BY <2>2 DEF SameNames, NamesStay, IsCoord
  <2> QED BY <2>1, <2>3
<1>2. ASSUME NEW c \in C, NEW c2 \in C2, SameNames(ds, c, ds2, c2) PROVE Goes(moved, c)
  <2>1. IsCoord(ds, c) /\ IsCoord(ds2, c2)
    BY DEF CoordsOf
  <2>2. c2 = c
    BY <1>2, <2>1, SameNamesSamePlace
  <2>3. moved[c] = c
    BY <2>2 DEF Settles
  <2> QED BY <2>1, <2>3, CoordsStay DEF Goes
<1> QED BY <1>1, <1>2 DEF Carries

LEMMA StayingCarries ==
  ASSUME NEW ds, DimsOK(ds), NEW ds2, DimsOK(ds2), NamesStay(ds2, ds), NEW C, NEW C2,
         C \subseteq CoordsOf(ds), C2 \subseteq CoordsOf(ds2), C \subseteq C2,
         NEW store, NEW l, StoredAt(store, l, C)
  PROVE  CellsCarried(store, l, ds2, C2, store, l, ds, C)
<1>1. PICK moved : moved = [c \in C |-> c]
  BY ONLY TRUE
<1>2. \A c \in C : moved[c] = c
  BY <1>1
<1>3. Settles(moved, C, C2)
  BY <1>2 DEF Settles
<1>4. Carries(moved, ds, C, ds2, C2)
  BY <1>3, SettledCarries
<1>5. \A c \in C : Goes(moved, c)
  BY <1>2, CoordsStay DEF Goes, CoordsOf
<1>6. IsRebuilt(store, store, l, l, moved, C)
  BY <1>2, <1>5 DEF IsRebuilt, StoredAt
<1> QED BY <1>4, <1>6 DEF CellsCarried

LEMMA RebuildingCarries ==
  ASSUME NEW ds, NEW ds2, NEW C, NEW C2, NEW moved, Carries(moved, ds, C, ds2, C2),
         NEW store, NEW l, StoredAt(store, l, C), Decodes(l, C), NEW l2, NEW after, after = Rebuilt(store, l, l2, moved)
  PROVE  CellsCarried(after, l2, ds2, C2, store, l, ds, C)
BY RebuiltIs DEF CellsCarried

\* Cells of the same kinds.
SameKinds(ds, c, ds2, c2) == \A d \in 1 .. Rank : ds2[d].elements[c2[d]].kind = ds[d].elements[c[d]].kind

LEMMA SameCell ==
  ASSUME NEW ds, NEW c, IsCoord(ds, c), NEW ds2, NEW c2, IsCoord(ds2, c2), SameKinds(ds, c, ds2, c2)
  PROVE  (LeafCell(ds, c) => LeafCell(ds2, c2)) /\ (TextCell(ds, c) => TextCell(ds2, c2))
<1>1. LeafCell(ds, c) => LeafCell(ds2, c2)
  BY DEF LeafCell, IsCoord, SameKinds
<1>2. TextCell(ds, c) => TextCell(ds2, c2)
  BY DEF TextCell, SameKinds
<1> QED BY <1>1, <1>2

\* Cells moved with dimension d.
IsMoving(moved, ds, d, to) == \A c \in CoordsOf(ds) : moved[c] = [c EXCEPT ![d] = to[@]]

LEMMA MovingCarries ==
  ASSUME NEW ds, DimsOK(ds), NEW d \in 1 .. Rank, NEW new, DimOK(new), FollowsNames(new, ds[d]),
         NEW ds2, DimsOK(ds2), Replaced(ds2, ds, d, new), NEW to, Follower(to, ds[d], new), NEW moved, IsMoving(moved, ds, d, to)
  PROVE  /\ Carries(moved, ds, NumberCells(ds), ds2, NumberCells(ds2))
         /\ Carries(moved, ds, TextCells(ds), ds2, TextCells(ds2))
<1>1. DOMAIN ds = 1 .. Rank /\ DimOK(ds[d])
  BY DEF DimsOK
<1>2. ds2[d] = new /\ \A x \in 1 .. Rank : x # d => ds2[x] = ds[x]
  BY <1>1 DEF Replaced
<1>3. PICK was : was = ds[d]
  BY ONLY TRUE
<1>4. Follower(to, was, new) /\ FollowsNames(new, was)
  BY <1>3
<1>5. ASSUME NEW c, IsCoord(ds, c)
      PROVE  /\ Goes(moved, c) <=> to[c[d]] # Gone
             /\ to[c[d]] # Gone => /\ IsCoord(ds2, moved[c]) /\ SameNames(ds, c, ds2, moved[c])
                                   /\ SameKinds(ds, c, ds2, moved[c])
  <2>1. c \in CoordsOf(ds)
    BY <1>5, CellsAre
  <2>2. PICK c2 : c2 = moved[c] /\ c2 = [c EXCEPT ![d] = to[@]]
    BY <2>1 DEF IsMoving
  <2>3. c = [x \in 1 .. Rank |-> c[x]] /\ \A x \in 1 .. Rank : c[x] \in DOMAIN ds[x].elements
    BY <1>5 DEF IsCoord
  <2>4. c2 = [x \in 1 .. Rank |-> c2[x]] /\ c2[d] = to[c[d]] /\ \A x \in 1 .. Rank : x # d => c2[x] = c[x]
    BY ONLY <2>2, <2>3, d \in 1 .. Rank
  <2>5. \A x \in 1 .. Rank : c[x] # Gone
    BY <2>3, GoneIsNowhere DEF DimsOK
  <2>6. DOMAIN c2 = 1 .. Rank
    BY ONLY <2>4
  <2>7. Goes(moved, c) <=> to[c[d]] # Gone
    BY <2>2, <2>4, <2>5, <2>6 DEF Goes, Range
  <2>8. ASSUME to[c[d]] # Gone PROVE IsCoord(ds2, c2) /\ SameNames(ds, c, ds2, c2) /\ SameKinds(ds, c, ds2, c2)
    <3>1. PICK old : old = c[d] /\ old \in DOMAIN was.elements
      BY <1>3, <2>3
    <3>2. was.elements[old].name \in Names(new) /\ to[old] = IndexOf(new, was.elements[old].name)
      BY <1>4, <2>8, <3>1 DEF Follower
    <3>3. to[old] \in DOMAIN new.elements /\ new.elements[to[old]].name = was.elements[old].name
      BY <3>2, NamedOnes
    <3>4. new.elements[to[old]].kind = was.elements[old].kind
      BY <1>4, <3>1, <3>3 DEF FollowsNames
    <3>5. \A x \in 1 .. Rank : c2[x] \in DOMAIN ds2[x].elements
      BY ONLY <1>2, <2>3, <2>4, <3>1, <3>3
    <3>6. \A x \in 1 .. Rank : /\ ds2[x].elements[c2[x]].name = ds[x].elements[c[x]].name
                               /\ ds2[x].elements[c2[x]].kind = ds[x].elements[c[x]].kind
      BY ONLY <1>2, <1>3, <2>4, <3>1, <3>3, <3>4
    <3> QED BY ONLY <2>4, <3>5, <3>6 DEF IsCoord, SameNames, SameKinds
  <2> QED BY ONLY <2>2, <2>7, <2>8
<1>6. ASSUME NEW c, IsCoord(ds, c), NEW c2, IsCoord(ds2, c2), SameNames(ds, c, ds2, c2) PROVE Goes(moved, c)
  <2>1. PICK old, at : old = c[d] /\ at = c2[d] /\ old \in DOMAIN was.elements /\ at \in DOMAIN new.elements
    BY <1>2, <1>3, <1>6 DEF IsCoord
  <2>2. new.elements[at].name = was.elements[old].name
    BY <1>2, <1>3, <1>6, <2>1 DEF SameNames
  <2>3. was.elements[old].name \in Names(new)
    BY <2>1, <2>2 DEF DimOK, NamesFound, Names
  <2>4. to[old] \in DOMAIN new.elements
    BY <1>4, <2>1, <2>3, NamedOnes DEF Follower
  <2> QED BY <1>5, <1>6, <2>1, <2>4, GoneIsNowhere
<1>7. \A c : (c \in NumberCells(ds) <=> LeafCell(ds, c)) /\ (c \in TextCells(ds) <=> TextCell(ds, c))
             /\ (c \in NumberCells(ds2) <=> LeafCell(ds2, c)) /\ (c \in TextCells(ds2) <=> TextCell(ds2, c))
  BY CellsAre
<1>8. /\ \A c : LeafCell(ds, c) \/ TextCell(ds, c) => IsCoord(ds, c)
      /\ \A c : LeafCell(ds2, c) \/ TextCell(ds2, c) => IsCoord(ds2, c)
  BY DEF LeafCell, TextCell, IsCoord
<1>9. Carries(moved, ds, NumberCells(ds), ds2, NumberCells(ds2))
  <2>1. ASSUME NEW c, LeafCell(ds, c), Goes(moved, c) PROVE LeafCell(ds2, moved[c]) /\ SameNames(ds, c, ds2, moved[c])
    BY <1>5, <1>8, <2>1, SameCell
  <2> QED BY <1>6, <1>7, <1>8, <2>1 DEF Carries
<1>10. Carries(moved, ds, TextCells(ds), ds2, TextCells(ds2))
  <2>1. ASSUME NEW c, TextCell(ds, c), Goes(moved, c) PROVE TextCell(ds2, moved[c]) /\ SameNames(ds, c, ds2, moved[c])
    BY <1>5, <1>8, <2>1, SameCell
  <2> QED BY <1>6, <1>7, <1>8, <2>1 DEF Carries
<1> QED BY <1>9, <1>10

\* Dimensions of the same places, where only e of dimension d may have another kind.
Retyped(ds2, ds, d, e) ==
  /\ NamesStay(ds2, ds) /\ SameSizes(ds2, ds)
  /\ \A x \in 1 .. Rank : \A i \in DOMAIN ds[x].elements :
       x # d \/ i # e => ds2[x].elements[i].kind = ds[x].elements[i].kind

LEMMA RetypedIs ==
  ASSUME NEW ds, DimsOK(ds), NEW d \in 1 .. Rank, NEW new, DimOK(new), NEW e, PlacesStay(new, ds[d], e),
         SamePlaces(new, ds[d]), NEW ds2, Replaced(ds2, ds, d, new)
  PROVE  Retyped(ds2, ds, d, e)
<1>1. DOMAIN ds = 1 .. Rank /\ DimOK(ds[d])
  BY DEF DimsOK
<1>2. ds2[d] = new /\ \A x \in 1 .. Rank : x # d => ds2[x] = ds[x]
  BY <1>1 DEF Replaced
<1>3. PICK was : was = ds[d] /\ DimOK(was) /\ PlacesStay(new, was, e) /\ SamePlaces(new, was)
  BY <1>1
<1>4. Len(new.elements) = Len(was.elements)
  BY <1>3, DimFacts DEF SamePlaces
<1>5. SameSizes(ds2, ds)
  BY ONLY <1>2, <1>3, <1>4 DEF SameSizes, Size
<1>6. NamesStay(ds2, ds)
  BY ONLY <1>2, <1>3 DEF NamesStay, PlacesStay
<1>7. \A x \in 1 .. Rank : \A i \in DOMAIN ds[x].elements :
        x # d \/ i # e => ds2[x].elements[i].kind = ds[x].elements[i].kind
  BY ONLY <1>2, <1>3 DEF PlacesStay
<1> QED BY <1>5, <1>6, <1>7 DEF Retyped

\* A coordinate stays, and so do its kinds beside e.
StaysBeside(ds2, ds, d, e, c) ==
  /\ IsCoord(ds2, c)
  /\ \A x \in 1 .. Rank : x # d => ds2[x].elements[c[x]].kind = ds[x].elements[c[x]].kind
  /\ c[d] # e => SameKinds(ds, c, ds2, c)

LEMMA RetypedCoord ==
  ASSUME NEW ds, NEW ds2, NEW d \in 1 .. Rank, NEW e, Retyped(ds2, ds, d, e), NEW c, IsCoord(ds, c)
  PROVE  StaysBeside(ds2, ds, d, e, c)
BY DEF Retyped, NamesStay, IsCoord, SameKinds, StaysBeside

\* The cells at e are dropped; or those among them that are at no other text.
Drops(moved, ds, d, e) ==
  \A c \in CoordsOf(ds) : moved[c] = IF c[d] = e THEN [c EXCEPT ![d] = Gone] ELSE c
DropsSole(moved, ds, d, e) ==
  \A c \in CoordsOf(ds) :
    moved[c] = IF c[d] = e /\ \A x \in 1 .. Rank \ {d} : ds[x].elements[c[x]].kind # Str
               THEN [c EXCEPT ![d] = Gone] ELSE c

LEMMA DroppedGoes ==
  ASSUME NEW ds, NEW d \in 1 .. Rank, NEW c, IsCoord(ds, c), NEW moved, moved[c] = [c EXCEPT ![d] = Gone]
  PROVE  ~Goes(moved, c)
<1>1. PICK c2 : c2 = [c EXCEPT ![d] = Gone]
  BY ONLY TRUE
<1>2. c = [x \in 1 .. Rank |-> c[x]]
  BY DEF IsCoord
<1>3. d \in DOMAIN c2 /\ c2[d] = Gone
  BY ONLY <1>1, <1>2, d \in 1 .. Rank
<1> QED BY <1>1, <1>3 DEF Goes, Range

LEMMA DroppedNumbers ==
  ASSUME NEW ds, DimsOK(ds), NEW ds2, DimsOK(ds2), NEW d \in 1 .. Rank, NEW e, Retyped(ds2, ds, d, e),
         ds2[d].elements[e].kind # Leaf, NEW moved, Drops(moved, ds, d, e)
  PROVE  Settles(moved, NumberCells(ds), NumberCells(ds2))
<1> SUFFICES ASSUME NEW c \in NumberCells(ds)
             PROVE  IF c \in NumberCells(ds2) THEN moved[c] = c ELSE ~Goes(moved, c)
  BY DEF Settles
<1>1. LeafCell(ds, c) /\ c \in CoordsOf(ds) /\ IsCoord(ds, c)
  BY DEF NumberCells, CoordsOf
<1>2. CASE c[d] = e
  <2>1. c \notin NumberCells(ds2)
    BY <1>2 DEF NumberCells, LeafCell
  <2> QED BY <1>1, <1>2, <2>1, DroppedGoes DEF Drops
<1>3. CASE c[d] # e
  <2>1. IsCoord(ds2, c) /\ LeafCell(ds2, c)
    BY <1>1, <1>3, RetypedCoord, SameCell DEF StaysBeside
  <2> QED BY <1>1, <1>3, <2>1, CellsAre DEF Drops
<1> QED BY <1>2, <1>3

LEMMA DroppedTexts ==
  ASSUME NEW ds, DimsOK(ds), NEW ds2, DimsOK(ds2), NEW d \in 1 .. Rank, NEW e, Retyped(ds2, ds, d, e),
         ds2[d].elements[e].kind = Consolidated, NEW moved, Drops(moved, ds, d, e)
  PROVE  Settles(moved, TextCells(ds), TextCells(ds2))
<1> SUFFICES ASSUME NEW c \in TextCells(ds)
             PROVE  IF c \in TextCells(ds2) THEN moved[c] = c ELSE ~Goes(moved, c)
  BY DEF Settles
<1>1. TextCell(ds, c) /\ c \in CoordsOf(ds) /\ IsCoord(ds, c)
  BY DEF TextCells, CoordsOf
<1>2. CASE c[d] = e
  <2>1. c \notin TextCells(ds2)
    BY <1>2 DEF TextCells, TextCell
  <2> QED BY <1>1, <1>2, <2>1, DroppedGoes DEF Drops
<1>3. CASE c[d] # e
  <2>1. IsCoord(ds2, c) /\ TextCell(ds2, c)
    BY <1>1, <1>3, RetypedCoord, SameCell DEF StaysBeside
  <2> QED BY <1>1, <1>3, <2>1, CellsAre DEF Drops
<1> QED BY <1>2, <1>3

LEMMA DroppedSoleTexts ==
  ASSUME NEW ds, DimsOK(ds), NEW ds2, DimsOK(ds2), NEW d \in 1 .. Rank, NEW e, Retyped(ds2, ds, d, e),
         ds2[d].elements[e].kind = Leaf, NEW moved, DropsSole(moved, ds, d, e)
  PROVE  Settles(moved, TextCells(ds), TextCells(ds2))
<1> SUFFICES ASSUME NEW c \in TextCells(ds)
             PROVE  IF c \in TextCells(ds2) THEN moved[c] = c ELSE ~Goes(moved, c)
  BY DEF Settles
<1>1. TextCell(ds, c) /\ c \in CoordsOf(ds) /\ IsCoord(ds, c)
  BY DEF TextCells, CoordsOf
<1>2. /\ IsCoord(ds2, c)
      /\ \A x \in 1 .. Rank : x # d => ds2[x].elements[c[x]].kind = ds[x].elements[c[x]].kind
  BY <1>1, RetypedCoord DEF StaysBeside
<1>3. CASE c[d] = e /\ \A x \in 1 .. Rank \ {d} : ds[x].elements[c[x]].kind # Str
  <2>1. \A x \in 1 .. Rank : ds2[x].elements[c[x]].kind # Str
    BY <1>2, <1>3 DEF Leaf, Str
  <2>2. c \notin TextCells(ds2)
    BY <2>1 DEF TextCells, TextCell
  <2> QED BY <1>1, <1>3, <2>2, DroppedGoes DEF DropsSole
<1>4. CASE c[d] # e
  <2>1. TextCell(ds2, c)
    BY <1>1, <1>2, <1>4, RetypedCoord, SameCell DEF StaysBeside
  <2> QED BY <1>1, <1>4, <2>1, CellsAre DEF DropsSole
<1>5. CASE c[d] = e /\ ~\A x \in 1 .. Rank \ {d} : ds[x].elements[c[x]].kind # Str
  <2>1. \E x \in 1 .. Rank : ds2[x].elements[c[x]].kind = Str
    BY <1>2, <1>5
  <2>2. \A x \in 1 .. Rank : ds2[x].elements[c[x]].kind # Consolidated
    BY <1>1, <1>2, <1>5 DEF TextCell, Leaf, Consolidated
  <2>3. TextCell(ds2, c)
    BY <1>2, <2>1, <2>2 DEF TextCell
  <2> QED BY <1>1, <1>5, <2>3, CellsAre DEF DropsSole
<1> QED BY <1>3, <1>4, <1>5

\* What the stores hold, where it can be: in dimensions ds, under the layout l.
StoresOK(l, ds, nums, texts) ==
  /\ l = LayoutOf(ds)
  /\ StoredAt(nums, l, NumberCells(ds)) /\ StoredAt(texts, l, TextCells(ds))
CellsStored == StoresOK(layout, dims, cells, textCells)

\* An edit that carries the cells of both stores with their names.
BothCarried(nums2, texts2, l2, ds2, nums, texts, l, ds) ==
  /\ l2 = LayoutOf(ds2)
  /\ CellsCarried(nums2, l2, ds2, NumberCells(ds2), nums, l, ds, NumberCells(ds))
  /\ CellsCarried(texts2, l2, ds2, TextCells(ds2), texts, l, ds, TextCells(ds))
CellsMove == BothCarried(cells', textCells', layout', dims', cells, textCells, layout, dims)

LEMMA CellsIn ==
  ASSUME NEW ds
  PROVE  NumberCells(ds) \subseteq CoordsOf(ds) /\ TextCells(ds) \subseteq CoordsOf(ds)
BY DEF NumberCells, TextCells

LEMMA DecodesIn ==
  ASSUME NEW ds, DimsOK(ds), NEW l, l = LayoutOf(ds)
  PROVE  Decodes(l, NumberCells(ds)) /\ Decodes(l, TextCells(ds))
BY AllDecode, CellsIn DEF Decodes

LEMMA MovingMoves ==
  ASSUME DimsHold, DimsHold', CellsStored, NEW d \in 1 .. Rank, MovedDim(d)
  PROVE  CellsMove
<1>1. PICK to : MovesTo(to, dims[d]) /\ RemapCells(d, to)
  BY DEF MovedDim
<1>2. PICK ds, ds2, l, l2, nums, nums2, texts, texts2 :
        /\ ds = dims /\ ds2 = dims' /\ l = layout /\ l2 = layout' /\ nums = cells /\ nums2 = cells'
        /\ texts = textCells /\ texts2 = textCells'
  BY ONLY TRUE
<1>3. PICK new, t : new = to.dim /\ t = to.toNew
  BY ONLY TRUE
<1>4. PICK moved : moved = [c \in Coords |-> [c EXCEPT ![d] = to.toNew[@]]]
  BY ONLY TRUE
<1>5. /\ ds2 = [ds EXCEPT ![d] = new] /\ l2 = LayoutOf(ds2)
      /\ nums2 = Rebuilt(nums, l, l2, moved) /\ texts2 = Rebuilt(texts, l, l2, moved)
  BY <1>1, <1>2, <1>3, <1>4 DEF RemapCells
<1>6. IsMoving(moved, ds, d, t)
  <2>1. ASSUME NEW c \in CoordsOf(ds) PROVE moved[c] = [c EXCEPT ![d] = t[@]]
    <3>1. c \in Coords
      BY <1>2, CoordsAre DEF CoordsOf
    <3> QED BY <1>3, <1>4, <3>1
  <2> QED BY <2>1 DEF IsMoving
<1>7. DimsOK(ds) /\ DimsOK(ds2) /\ DimOK(new) /\ FollowsNames(new, ds[d]) /\ Follower(t, ds[d], new) /\ Replaced(ds2, ds, d, new)
  BY <1>1, <1>2, <1>3, <1>5 DEF DimsHold, MovesTo, Replaced
<1>8. /\ Carries(moved, ds, NumberCells(ds), ds2, NumberCells(ds2))
      /\ Carries(moved, ds, TextCells(ds), ds2, TextCells(ds2))
  BY ONLY d \in 1 .. Rank, <1>6, <1>7, MovingCarries
<1>9. StoresOK(l, ds, nums, texts)
  BY <1>2 DEF CellsStored
<1>10. Decodes(l, NumberCells(ds)) /\ Decodes(l, TextCells(ds))
  BY <1>7, <1>9, DecodesIn DEF StoresOK
<1>11. BothCarried(nums2, texts2, l2, ds2, nums, texts, l, ds)
  BY ONLY <1>5, <1>8, <1>9, <1>10, RebuildingCarries DEF StoresOK, BothCarried
<1> QED BY ONLY <1>2, <1>11 DEF CellsMove

\* Where every cell stays a cell, and a store is as it was or is rebuilt where it stands.
LEMMA StoreStays ==
  ASSUME NEW ds, DimsOK(ds), NEW ds2, DimsOK(ds2), NamesStay(ds2, ds), NEW C, NEW C2,
         C \subseteq CoordsOf(ds), C2 \subseteq CoordsOf(ds2), C \subseteq C2,
         NEW store, NEW l, StoredAt(store, l, C), Decodes(l, C), NEW l2, NEW after, NEW moved,
         \A c \in C : moved[c] = c, after = IF l2 = l THEN store ELSE Rebuilt(store, l, l2, moved)
  PROVE  CellsCarried(after, l2, ds2, C2, store, l, ds, C)
<1>1. CASE l2 = l
  BY <1>1, StayingCarries
<1>2. CASE l2 # l
  <2>1. Settles(moved, C, C2)
    BY DEF Settles
  <2>2. Carries(moved, ds, C, ds2, C2)
    BY <2>1, SettledCarries
  <2> QED BY <1>2, <2>2, RebuildingCarries
<1> QED BY <1>1, <1>2

LEMMA FollowingKinds ==
  ASSUME NEW ds, DimsOK(ds), NEW ds2, DimsOK(ds2), Follows(ds2, ds)
  PROVE  /\ NamesStay(ds2, ds)
         /\ NumberCells(ds) \subseteq NumberCells(ds2) /\ TextCells(ds) \subseteq TextCells(ds2)
<1>1. \A x \in 1 .. Rank : PlacesStay(ds2[x], ds[x], Gone) /\ Gone \notin DOMAIN ds[x].elements
  BY GoneIsNowhere DEF Follows, DimsOK
<1>2. NamesStay(ds2, ds)
  BY <1>1 DEF NamesStay, PlacesStay
<1>3. ASSUME NEW c, IsCoord(ds, c) PROVE IsCoord(ds2, c) /\ SameKinds(ds, c, ds2, c)
  BY <1>1, <1>3 DEF IsCoord, SameKinds, PlacesStay
<1>4. ASSUME NEW c \in NumberCells(ds) PROVE c \in NumberCells(ds2)
  BY <1>3, CellsAre, SameCell DEF NumberCells, CoordsOf
<1>5. ASSUME NEW c \in TextCells(ds) PROVE c \in TextCells(ds2)
  BY <1>3, CellsAre, SameCell DEF TextCells, CoordsOf
<1> QED BY <1>2, <1>4, <1>5

LEMMA SparingMoves ==
  ASSUME DimsHold, DimsHold', CellsStored, Follows(dims', dims), Relayout \/ Unmoved
  PROVE  CellsMove
<1>1. PICK ds, ds2, l, l2, nums, nums2, texts, texts2 :
        /\ ds = dims /\ ds2 = dims' /\ l = layout /\ l2 = layout' /\ nums = cells /\ nums2 = cells'
        /\ texts = textCells /\ texts2 = textCells'
  BY ONLY TRUE
<1>2. DimsOK(ds) /\ DimsOK(ds2) /\ Follows(ds2, ds) /\ StoresOK(l, ds, nums, texts)
  BY <1>1 DEF DimsHold, CellsStored
<1>3. PICK moved : moved = Stay
  BY ONLY TRUE
<1>4. \A c \in CoordsOf(ds) : moved[c] = c
  BY <1>1, <1>3, CoordsAre DEF Stay, CoordsOf
<1>5. /\ l2 = LayoutOf(ds2)
      /\ nums2 = IF l2 = l THEN nums ELSE Rebuilt(nums, l, l2, moved)
      /\ texts2 = IF l2 = l THEN texts ELSE Rebuilt(texts, l, l2, moved)
  <2>1. CASE Relayout
    BY <1>1, <1>3, <2>1 DEF Relayout
  <2>2. CASE Unmoved
    <3>1. l2 = l /\ nums2 = nums /\ texts2 = texts /\ SameSizes(ds2, ds)
      BY <1>1, <2>2 DEF Unmoved
    <3> QED BY <1>2, <3>1, SameLayout DEF StoresOK
  <2> QED BY <2>1, <2>2
<1>6. /\ NamesStay(ds2, ds)
      /\ NumberCells(ds) \subseteq NumberCells(ds2) /\ TextCells(ds) \subseteq TextCells(ds2)
  BY ONLY <1>2, FollowingKinds
<1>7. /\ NumberCells(ds) \subseteq CoordsOf(ds) /\ TextCells(ds) \subseteq CoordsOf(ds)
      /\ NumberCells(ds2) \subseteq CoordsOf(ds2) /\ TextCells(ds2) \subseteq CoordsOf(ds2)
  BY CellsIn
<1>8. Decodes(l, NumberCells(ds)) /\ Decodes(l, TextCells(ds))
  BY <1>2, DecodesIn DEF StoresOK
<1>9. CellsCarried(nums2, l2, ds2, NumberCells(ds2), nums, l, ds, NumberCells(ds))
  <2>1. StoredAt(nums, l, NumberCells(ds)) /\ \A c \in NumberCells(ds) : moved[c] = c
    BY <1>2, <1>4, <1>7 DEF StoresOK
  <2> QED BY ONLY <1>2, <1>5, <1>6, <1>7, <1>8, <2>1, StoreStays
<1>10. CellsCarried(texts2, l2, ds2, TextCells(ds2), texts, l, ds, TextCells(ds))
  <2>1. StoredAt(texts, l, TextCells(ds)) /\ \A c \in TextCells(ds) : moved[c] = c
    BY <1>2, <1>4, <1>7 DEF StoresOK
  <2> QED BY ONLY <1>2, <1>5, <1>6, <1>7, <1>8, <2>1, StoreStays
<1> QED BY ONLY <1>1, <1>5, <1>9, <1>10 DEF CellsMove, BothCarried

\* A store where it stands: as it was where its cells all stay, or rebuilt without the others.
StoreRetyped(after, store, l, C, C2) ==
  \/ after = store /\ C \subseteq C2
  \/ \E moved : Settles(moved, C, C2) /\ after = Rebuilt(store, l, l, moved)

LEMMA StoreRetypedCarries ==
  ASSUME NEW ds, DimsOK(ds), NEW ds2, DimsOK(ds2), NamesStay(ds2, ds), NEW C, NEW C2,
         C \subseteq CoordsOf(ds), C2 \subseteq CoordsOf(ds2), NEW store, NEW l, StoredAt(store, l, C), Decodes(l, C),
         NEW after, StoreRetyped(after, store, l, C, C2)
  PROVE  CellsCarried(after, l, ds2, C2, store, l, ds, C)
<1>1. CASE after = store /\ C \subseteq C2
  BY <1>1, StayingCarries
<1>2. ASSUME NEW moved, Settles(moved, C, C2), after = Rebuilt(store, l, l, moved)
      PROVE  CellsCarried(after, l, ds2, C2, store, l, ds, C)
  <2>1. Carries(moved, ds, C, ds2, C2)
    BY <1>2, SettledCarries
  <2> QED BY <1>2, <2>1, RebuildingCarries
<1> QED BY <1>1, <1>2 DEF StoreRetyped

LEMMA KeptNumbers ==
  ASSUME NEW ds, DimsOK(ds), NEW ds2, DimsOK(ds2), NEW d \in 1 .. Rank, NEW e, Retyped(ds2, ds, d, e),
         e = Gone \/ ds[d].elements[e].kind # Leaf \/ ds2[d].elements[e].kind = Leaf
  PROVE  NumberCells(ds) \subseteq NumberCells(ds2)
<1> SUFFICES ASSUME NEW c \in NumberCells(ds) PROVE c \in NumberCells(ds2)
  OBVIOUS
<1>1. LeafCell(ds, c) /\ IsCoord(ds, c)
  BY DEF NumberCells, CoordsOf
<1>2. /\ IsCoord(ds2, c) /\ (c[d] # e => SameKinds(ds, c, ds2, c))
      /\ \A x \in 1 .. Rank : x # d => ds2[x].elements[c[x]].kind = ds[x].elements[c[x]].kind
  <2>1. StaysBeside(ds2, ds, d, e, c)
    BY <1>1, RetypedCoord
  <2> QED BY <2>1 DEF StaysBeside
<1>3. CASE c[d] # e
  BY <1>1, <1>2, <1>3, SameCell, CellsAre
<1>4. CASE c[d] = e
  <2>1. e # Gone /\ ds[d].elements[e].kind = Leaf
    BY <1>1, <1>4, GoneIsNowhere DEF LeafCell, DimsOK
  <2>2. LeafCell(ds2, c)
    BY <1>1, <1>2, <1>4, <2>1 DEF LeafCell, IsCoord
  <2> QED BY <2>2, CellsAre
<1> QED BY <1>3, <1>4

LEMMA KeptTexts ==
  ASSUME NEW ds, DimsOK(ds), NEW ds2, DimsOK(ds2), NEW d \in 1 .. Rank, NEW e, Retyped(ds2, ds, d, e),
         \/ e = Gone \/ ds[d].elements[e].kind = Consolidated \/ ds2[d].elements[e].kind = Str
         \/ ds[d].elements[e].kind = Leaf /\ ds2[d].elements[e].kind # Consolidated
  PROVE  TextCells(ds) \subseteq TextCells(ds2)
<1> SUFFICES ASSUME NEW c \in TextCells(ds) PROVE c \in TextCells(ds2)
  OBVIOUS
<1>1. TextCell(ds, c) /\ IsCoord(ds, c)
  BY DEF TextCells, CoordsOf
<1>2. /\ IsCoord(ds2, c) /\ (c[d] # e => SameKinds(ds, c, ds2, c))
      /\ \A x \in 1 .. Rank : x # d => ds2[x].elements[c[x]].kind = ds[x].elements[c[x]].kind
  <2>1. StaysBeside(ds2, ds, d, e, c)
    BY <1>1, RetypedCoord
  <2> QED BY <2>1 DEF StaysBeside
<1>3. CASE c[d] # e
  BY <1>1, <1>2, <1>3, SameCell, CellsAre
<1>4. CASE c[d] = e
  <2>1. e # Gone /\ ds[d].elements[e].kind # Consolidated
    BY <1>1, <1>4, GoneIsNowhere DEF TextCell, IsCoord, DimsOK
  <2>2. ds2[d].elements[e].kind # Consolidated
    BY <2>1 DEF Str, Consolidated
  <2>3. \A x \in 1 .. Rank : ds2[x].elements[c[x]].kind # Consolidated
    BY <1>1, <1>2, <1>4, <2>2 DEF TextCell
  <2>4. \E x \in 1 .. Rank : ds2[x].elements[c[x]].kind = Str
    <3>1. CASE ds2[d].elements[e].kind = Str
      BY <1>4, <3>1
    <3>2. CASE ds2[d].elements[e].kind # Str
      <4>1. ds[d].elements[c[d]].kind = Leaf
        BY <1>4, <2>1, <3>2
      <4> QED BY <1>1, <1>2, <4>1 DEF TextCell, Leaf, Str
    <3> QED BY <3>1, <3>2
  <2>5. TextCell(ds2, c)
    BY <1>2, <2>3, <2>4 DEF TextCell
  <2> QED BY <2>5, CellsAre
<1> QED BY <1>3, <1>4

LEMMA DropIs ==
  ASSUME NEW d, NEW e, NEW store, NEW after, after = Dropped(store, d, e)
  PROVE  \E moved : Drops(moved, dims, d, e) /\ after = Rebuilt(store, layout, layout, moved)
<1>1. PICK moved : moved = [c \in Coords |-> IF c[d] = e THEN [c EXCEPT ![d] = Gone] ELSE c]
  BY ONLY TRUE
<1>2. Drops(moved, dims, d, e)
  <2>1. \A c \in CoordsOf(dims) : c \in Coords
    BY CoordsAre DEF CoordsOf
  <2> QED BY <1>1, <2>1 DEF Drops
<1> QED BY <1>1, <1>2 DEF Dropped

LEMMA DropSoleIs ==
  ASSUME NEW d, NEW e, NEW after, after = DroppedSole(d, e)
  PROVE  \E moved : DropsSole(moved, dims, d, e) /\ after = Rebuilt(textCells, layout, layout, moved)
<1>1. PICK moved : moved = [c \in Coords |->
                     IF c[d] = e /\ \A d2 \in 1 .. Rank \ {d} : dims[d2].elements[c[d2]].kind # Str
                     THEN [c EXCEPT ![d] = Gone] ELSE c]
  BY ONLY TRUE
<1>2. DropsSole(moved, dims, d, e)
  <2>1. \A c \in CoordsOf(dims) : c \in Coords
    BY CoordsAre DEF CoordsOf
  <2> QED BY <1>1, <2>1 DEF DropsSole
<1> QED BY <1>1, <1>2 DEF DroppedSole

\* An edit after which only e of dimension d may have another kind.
RetypesOnly(d, e) == Retyped(dims', dims, d, e) /\ DimsOK(dims) /\ DimsOK(dims')
StoresRetyped ==
  /\ StoreRetyped(cells', cells, layout, NumberCells(dims), NumberCells(dims'))
  /\ StoreRetyped(textCells', textCells, layout, TextCells(dims), TextCells(dims'))

LEMMA RetypedOnly ==
  ASSUME DimsHold, DimsHold', NEW d \in 1 .. Rank, NEW e, RetypedDim(d, e)
  PROVE  RetypesOnly(d, e)
<1>1. PICK new : /\ DimOK(new) /\ PlacesStay(new, dims[d], e) /\ SamePlaces(new, dims[d])
                 /\ dims' = [dims EXCEPT ![d] = new]
  BY DEF RetypedDim
<1>2. PICK ds, ds2 : ds = dims /\ ds2 = dims'
  BY ONLY TRUE
<1>3. /\ DimsOK(ds) /\ DimsOK(ds2) /\ PlacesStay(new, ds[d], e) /\ SamePlaces(new, ds[d])
      /\ Replaced(ds2, ds, d, new) /\ DimOK(new)
  BY <1>1, <1>2 DEF DimsHold, Replaced
<1>4. Retyped(ds2, ds, d, e)
  BY ONLY d \in 1 .. Rank, <1>3, RetypedIs
<1> QED BY <1>2, <1>3, <1>4 DEF RetypesOnly

LEMMA RetypedMoves ==
  ASSUME CellsStored, NEW d \in 1 .. Rank, NEW e, RetypesOnly(d, e), layout' = layout, StoresRetyped
  PROVE  CellsMove
<1>1. PICK ds, ds2, l, nums, nums2, texts, texts2 :
        /\ ds = dims /\ ds2 = dims' /\ l = layout /\ nums = cells /\ nums2 = cells'
        /\ texts = textCells /\ texts2 = textCells'
  BY ONLY TRUE
<1>2. DimsOK(ds) /\ DimsOK(ds2) /\ Retyped(ds2, ds, d, e) /\ StoresOK(l, ds, nums, texts)
  BY <1>1 DEF CellsStored, RetypesOnly
<1>3. /\ StoreRetyped(nums2, nums, l, NumberCells(ds), NumberCells(ds2))
      /\ StoreRetyped(texts2, texts, l, TextCells(ds), TextCells(ds2))
  BY <1>1 DEF StoresRetyped
<1>4. /\ NumberCells(ds) \subseteq CoordsOf(ds) /\ TextCells(ds) \subseteq CoordsOf(ds)
      /\ NumberCells(ds2) \subseteq CoordsOf(ds2) /\ TextCells(ds2) \subseteq CoordsOf(ds2)
  BY CellsIn
<1>5. Decodes(l, NumberCells(ds)) /\ Decodes(l, TextCells(ds))
  BY <1>2, DecodesIn DEF StoresOK
<1>6. NamesStay(ds2, ds) /\ StoredAt(nums, l, NumberCells(ds)) /\ StoredAt(texts, l, TextCells(ds)) /\ l = LayoutOf(ds2)
  BY <1>2, SameLayout DEF Retyped, StoresOK
<1>7. CellsCarried(nums2, l, ds2, NumberCells(ds2), nums, l, ds, NumberCells(ds))
  BY ONLY <1>2, <1>3, <1>4, <1>5, <1>6, StoreRetypedCarries
<1>8. CellsCarried(texts2, l, ds2, TextCells(ds2), texts, l, ds, TextCells(ds))
  BY ONLY <1>2, <1>3, <1>4, <1>5, <1>6, StoreRetypedCarries
<1> QED BY <1>1, <1>6, <1>7, <1>8 DEF CellsMove, BothCarried

LEMMA ConvertedStores ==
  ASSUME NEW d \in 1 .. Rank, NEW e, RetypesOnly(d, e), DropIfConverted(d, e),
         e # Gone => dims'[d].elements[e].kind = Consolidated
  PROVE  StoresRetyped
<1>1. PICK ds, ds2 : ds = dims /\ ds2 = dims' /\ Retyped(ds2, ds, d, e) /\ DimsOK(ds) /\ DimsOK(ds2)
  BY DEF RetypesOnly
<1>2. CASE e # Gone /\ dims[d].elements[e].kind # Consolidated
  <2>1. cells' = Dropped(cells, d, e) /\ textCells' = Dropped(textCells, d, e)
    BY <1>2 DEF DropIfConverted
  <2>2. PICK moved : Drops(moved, ds, d, e) /\ cells' = Rebuilt(cells, layout, layout, moved)
    BY <1>1, <2>1, DropIs
  <2>3. PICK moved2 : Drops(moved2, ds, d, e) /\ textCells' = Rebuilt(textCells, layout, layout, moved2)
    BY <1>1, <2>1, DropIs
  <2>4. ds2[d].elements[e].kind = Consolidated /\ ds2[d].elements[e].kind # Leaf
    BY <1>1, <1>2 DEF Leaf, Consolidated
  <2>5. Settles(moved, NumberCells(ds), NumberCells(ds2))
    BY <1>1, <2>2, <2>4, DroppedNumbers
  <2>6. Settles(moved2, TextCells(ds), TextCells(ds2))
    BY <1>1, <2>3, <2>4, DroppedTexts
  <2> QED BY <1>1, <2>2, <2>3, <2>5, <2>6 DEF StoresRetyped, StoreRetyped
<1>3. CASE ~(e # Gone /\ dims[d].elements[e].kind # Consolidated)
  <2>1. cells' = cells /\ textCells' = textCells
    BY <1>3 DEF DropIfConverted
  <2>2. e = Gone \/ (ds[d].elements[e].kind = Consolidated /\ ds[d].elements[e].kind # Leaf)
    BY <1>1, <1>3 DEF Leaf, Consolidated
  <2>3. NumberCells(ds) \subseteq NumberCells(ds2) /\ TextCells(ds) \subseteq TextCells(ds2)
    BY <1>1, <2>2, KeptNumbers, KeptTexts
  <2> QED BY <1>1, <2>1, <2>3 DEF StoresRetyped, StoreRetyped
<1> QED BY <1>2, <1>3

LEMMA RetypedStores ==
  ASSUME NEW d \in 1 .. Rank, NEW e, RetypesOnly(d, e), NEW kind \in ElementKinds, SetElementKind(d, e, kind),
         dims'[d].elements[e].kind = kind, dims[d].elements[e].kind \in ElementKinds
  PROVE  StoresRetyped
<1>1. PICK ds, ds2 : ds = dims /\ ds2 = dims' /\ Retyped(ds2, ds, d, e) /\ DimsOK(ds) /\ DimsOK(ds2)
  BY DEF RetypesOnly
<1>2. PICK was : was = ds[d].elements[e].kind /\ was \in ElementKinds
  BY <1>1
<1>3. ds2[d].elements[e].kind = kind
  BY <1>1
<1>4. /\ Leaf # Str /\ Leaf # Consolidated /\ Str # Consolidated
      /\ was \in {Leaf, Str, Consolidated} /\ kind \in {Leaf, Str, Consolidated}
  BY <1>2 DEF Leaf, Str, Consolidated, ElementKinds
<1>5. StoreRetyped(cells', cells, layout, NumberCells(ds), NumberCells(ds2))
  <2>1. CASE was = Leaf /\ kind # Leaf
    <3>1. cells' = Dropped(cells, d, e)
      BY <1>1, <1>2, <2>1 DEF SetElementKind
    <3>2. PICK moved : Drops(moved, ds, d, e) /\ cells' = Rebuilt(cells, layout, layout, moved)
      BY <1>1, <3>1, DropIs
    <3>3. Settles(moved, NumberCells(ds), NumberCells(ds2))
      BY <1>1, <1>3, <2>1, <3>2, DroppedNumbers
    <3> QED BY <3>2, <3>3 DEF StoreRetyped
  <2>2. CASE ~(was = Leaf /\ kind # Leaf)
    <3>1. cells' = cells
      BY <1>1, <1>2, <2>2 DEF SetElementKind
    <3>2. NumberCells(ds) \subseteq NumberCells(ds2)
      BY <1>1, <1>2, <1>3, <2>2, KeptNumbers
    <3> QED BY <3>1, <3>2 DEF StoreRetyped
  <2> QED BY <2>1, <2>2
<1>6. StoreRetyped(textCells', textCells, layout, TextCells(ds), TextCells(ds2))
  <2>1. CASE was = Str /\ kind = Leaf
    <3>1. textCells' = DroppedSole(d, e)
      BY <1>1, <1>2, <1>4, <2>1 DEF SetElementKind
    <3>2. PICK moved : DropsSole(moved, ds, d, e) /\ textCells' = Rebuilt(textCells, layout, layout, moved)
      BY <1>1, <3>1, DropSoleIs
    <3>3. Settles(moved, TextCells(ds), TextCells(ds2))
      BY <1>1, <1>3, <2>1, <3>2, DroppedSoleTexts
    <3> QED BY <3>2, <3>3 DEF StoreRetyped
  <2>2. CASE was # Consolidated /\ kind = Consolidated
    <3>1. textCells' = Dropped(textCells, d, e)
      BY <1>1, <1>2, <1>4, <2>2 DEF SetElementKind
    <3>2. PICK moved : Drops(moved, ds, d, e) /\ textCells' = Rebuilt(textCells, layout, layout, moved)
      BY <1>1, <3>1, DropIs
    <3>3. Settles(moved, TextCells(ds), TextCells(ds2))
      BY <1>1, <1>3, <2>2, <3>2, DroppedTexts
    <3> QED BY <3>2, <3>3 DEF StoreRetyped
  <2>3. CASE ~(was = Str /\ kind = Leaf) /\ ~(was # Consolidated /\ kind = Consolidated)
    <3>1. textCells' = textCells
      BY <1>1, <1>2, <2>3 DEF SetElementKind
    <3>2. was = Consolidated \/ kind = Str \/ (was = Leaf /\ kind # Consolidated)
      BY ONLY <1>4, <2>3
    <3>3. TextCells(ds) \subseteq TextCells(ds2)
      BY <1>1, <1>2, <1>3, <3>2, KeptTexts
    <3> QED BY <3>1, <3>3 DEF StoreRetyped
  <2> QED BY <2>1, <2>2, <2>3
<1> QED BY <1>1, <1>5, <1>6 DEF StoresRetyped

\* The cells where they can be, and the texts in the pool.
CellsHold == CellsStored /\ Range(textCells) \subseteq DOMAIN pool

LEMMA StartedCells ==
  ASSUME CubeInit
  PROVE  CellsHold
<1>1. layout = LayoutOf(dims) /\ cells = NoFn /\ textCells = NoFn
  BY DEF CubeInit
<1>2. IsMap(NoFn) /\ DOMAIN NoFn = {}
  BY DEF NoFn, IsMap
<1> QED BY <1>1, <1>2 DEF CellsHold, CellsStored, StoresOK, StoredAt, Range

\* A cell written, and a cell cleared.
LEMMA PutIs ==
  ASSUME NEW store, NEW l, NEW C, StoredAt(store, l, C), NEW c \in C, NEW v
  PROVE  StoredAt(Put(store, l, c, v), l, C) /\ Range(Put(store, l, c, v)) \subseteq Range(store) \cup {v}
<1>1. PICK k, after : k = Key(l, c) /\ after = Put(store, l, c, v)
  BY ONLY TRUE
<1>2. after = [x \in DOMAIN store \cup {k} |-> IF x = k THEN v ELSE store[x]]
  BY <1>1 DEF Put, Bind
<1>3. /\ after = [x \in DOMAIN after |-> after[x]] /\ DOMAIN after = DOMAIN store \cup {k}
      /\ after[k] = v /\ \A x \in DOMAIN after : x # k => after[x] = store[x] /\ x \in DOMAIN store
  BY ONLY <1>2
<1>4. StoredAt(after, l, C)
  BY <1>1, <1>3 DEF StoredAt, IsMap
<1>5. Range(after) \subseteq Range(store) \cup {v}
  BY <1>3 DEF Range
<1> QED BY ONLY <1>1, <1>4, <1>5

LEMMA ClearedIs ==
  ASSUME NEW store, NEW l, NEW C, StoredAt(store, l, C), NEW S
  PROVE  StoredAt(Restrict(store, DOMAIN store \ S), l, C) /\ Range(Restrict(store, DOMAIN store \ S)) \subseteq Range(store)
<1>1. PICK after : after = Restrict(store, DOMAIN store \ S)
  BY ONLY TRUE
<1>2. after = [x \in DOMAIN store \ S |-> store[x]]
  BY <1>1 DEF Restrict
<1>3. after = [x \in DOMAIN after |-> after[x]] /\ DOMAIN after \subseteq DOMAIN store /\ \A x \in DOMAIN after : after[x] = store[x]
  BY ONLY <1>2
<1>4. StoredAt(after, l, C)
  BY <1>3 DEF StoredAt, IsMap
<1>5. Range(after) \subseteq Range(store)
  BY <1>3 DEF Range
<1> QED BY ONLY <1>1, <1>4, <1>5

\* A write of one store leaves the other and what they stand on.
LEMMA NumberWritten ==
  ASSUME DimsOK(dims), CellsHold, NEW c \in Coords, NEW v, SetLeaf(c, v)
  PROVE  CellsHold'
<1>1. PICK ds, l, nums, nums2 : ds = dims /\ l = layout /\ nums = cells /\ nums2 = cells' /\ DimsOK(ds)
  OBVIOUS
<1>2. TakesNumber(c) /\ UNCHANGED <<dims, layout, textCells, pool>>
  BY DEF SetLeaf
<1>3. c \in NumberCells(ds)
  BY <1>1, <1>2, LeafCellsAre, CellsAre
<1>4. StoredAt(nums, l, NumberCells(ds))
  BY <1>1 DEF CellsHold, CellsStored, StoresOK
<1>5. StoredAt(nums2, l, NumberCells(ds))
  <2>1. nums2 = Restrict(nums, DOMAIN nums \ {Key(l, c)}) \/ nums2 = Put(nums, l, c, v)
    BY <1>1 DEF SetLeaf, Cleared
  <2>2. CASE nums2 = Restrict(nums, DOMAIN nums \ {Key(l, c)})
    BY <1>4, <2>2, ClearedIs
  <2>3. CASE nums2 = Put(nums, l, c, v)
    BY <1>3, <1>4, <2>3, PutIs
  <2> QED BY ONLY <2>1, <2>2, <2>3
<1> QED BY <1>1, <1>2, <1>5 DEF CellsHold, CellsStored, StoresOK

LEMMA TextWritten ==
  ASSUME DimsOK(dims), PoolOK, CellsHold, NEW c \in Coords, NEW t, SetString(c, t)
  PROVE  CellsHold'
<1>1. PICK ds, l, texts, texts2 : ds = dims /\ l = layout /\ texts = textCells /\ texts2 = textCells' /\ DimsOK(ds)
  OBVIOUS
<1>2. TakesText(c) /\ UNCHANGED <<dims, layout, cells>>
  BY DEF SetString
<1>3. c \in TextCells(ds)
  BY <1>1, <1>2, TextCellsAre, CellsAre
<1>4. StoredAt(texts, l, TextCells(ds)) /\ Range(texts) \subseteq DOMAIN pool
  BY <1>1 DEF CellsHold, CellsStored, StoresOK
<1>5. CASE t = Empty
  <2>1. texts2 = Restrict(texts, DOMAIN texts \ {Key(l, c)}) /\ pool' = pool
    BY <1>1, <1>5 DEF SetString, Cleared
  <2>2. StoredAt(texts2, l, TextCells(ds)) /\ Range(texts2) \subseteq Range(texts)
    BY <1>4, <2>1, ClearedIs
  <2> QED BY <1>1, <1>2, <1>4, <2>1, <2>2 DEF CellsHold, CellsStored, StoresOK
<1>6. CASE t # Empty
  <2>1. PICK id : id = CHOOSE i \in DOMAIN pool' : pool'[i] = t
    BY ONLY TRUE
  <2>2. texts2 = Put(texts, l, c, id) /\ pool' = IF t \in Range(pool) THEN pool ELSE Append(pool, t)
    BY <1>1, <1>6, <2>1 DEF SetString
  <2>3. DOMAIN pool \subseteq DOMAIN pool' /\ \E i \in DOMAIN pool' : pool'[i] = t
    <3>1. CASE t \in Range(pool)
      BY <2>2, <3>1 DEF Range
    <3>2. CASE t \notin Range(pool)
      <4>1. PICK p, q : p = pool /\ q = pool' /\ ASequence(p) /\ q = Append(p, t)
        BY <2>2, <3>2 DEF PoolOK
      <4>2. DOMAIN q = 1 .. (Len(p) + 1) /\ q[Len(p) + 1] = t /\ DOMAIN p = 1 .. Len(p) /\ Len(p) \in Nat
        BY ONLY <4>1, AppendIs, SeqIs
      <4> QED BY <4>1, <4>2
    <3> QED BY <3>1, <3>2
  <2>4. id \in DOMAIN pool'
    BY <2>1, <2>3
  <2>5. StoredAt(texts2, l, TextCells(ds)) /\ Range(texts2) \subseteq Range(texts) \cup {id}
    BY <1>3, <1>4, <2>2, PutIs
  <2>6. Range(texts2) \subseteq DOMAIN pool'
    BY <1>4, <2>3, <2>4, <2>5
  <2> QED BY <1>1, <1>2, <2>5, <2>6 DEF CellsHold, CellsStored, StoresOK
<1> QED BY <1>5, <1>6

LEMMA PoolWritten ==
  ASSUME PoolOK, CellsHold, CompactStringPool
  PROVE  CellsHold'
<1>1. PICK p, ids, live : p = pool /\ ids = [id \in DOMAIN pool |-> id] /\ live = Range(textCells)
  BY ONLY TRUE
<1>2. PICK kept : kept = Those(ids, live)
  BY ONLY TRUE
<1>3. /\ pool' = [new \in DOMAIN kept |-> pool[kept[new]]]
      /\ textCells' = [k \in DOMAIN textCells |-> CHOOSE new \in DOMAIN kept : kept[new] = textCells[k]]
      /\ UNCHANGED <<dims, layout, cells>>
  BY <1>1, <1>2 DEF CompactStringPool
<1>4. PICK n \in Nat : DOMAIN p = 1 .. n
  BY <1>1, SeqIs DEF PoolOK
<1>5. ids = [i \in 1 .. n |-> ids[i]] /\ \A i \in 1 .. n : ids[i] = i
  BY <1>1, <1>4
<1>6. ASequence(ids) /\ Len(ids) = n
  BY ONLY <1>4, <1>5, ListIsSeq
<1>7. PICK m, pos : m \in Nat /\ Picks(pos, m, ids, live, n) /\ kept = [i \in 1 .. m |-> ids[pos[i]]]
  BY ONLY <1>2, <1>6, ThoseArePicked
<1>8. \A id \in live : \E i \in DOMAIN kept : kept[i] = id
  <2>1. live \subseteq 1 .. n
    BY <1>1, <1>4 DEF CellsHold
  <2> QED BY <1>5, <1>7, <2>1 DEF Picks
<1>9. \A k \in DOMAIN textCells : textCells'[k] \in DOMAIN kept
  <2>1. \A k \in DOMAIN textCells : textCells[k] \in live
    BY <1>1 DEF Range
  <2> QED BY <1>3, <1>8, <2>1
<1>10. DOMAIN pool' = DOMAIN kept /\ DOMAIN textCells' = DOMAIN textCells /\ IsMap(textCells')
  BY <1>3 DEF IsMap
<1>11. Range(textCells') \subseteq DOMAIN pool'
  BY <1>9, <1>10 DEF Range
<1> QED BY <1>3, <1>10, <1>11 DEF CellsHold, CellsStored, StoresOK, StoredAt

LEMMA SandboxCommitted ==
  ASSUME DimsOK(dims), CellsHold, Sandboxed, NEW key \in DOMAIN saved, key[1] = "sandbox", CommitSandbox(key)
  PROVE  CellsHold'
<1>1. PICK ds, l, nums, nums2, sandbox : /\ ds = dims /\ l = layout /\ nums = cells /\ nums2 = cells'
                                         /\ sandbox = saved[key].cells /\ DimsOK(ds)
  OBVIOUS
<1>2. PICK at : at = [k \in {Key(layout, c) : c \in DOMAIN sandbox} |-> sandbox[CoordOf(layout, k)]]
  BY ONLY TRUE
<1>3. PICK merged : merged = [k \in DOMAIN at \cup DOMAIN nums |-> IF k \in DOMAIN at THEN at[k] ELSE nums[k]]
  BY ONLY TRUE
<1>4. /\ nums2 = Restrict(merged, {k \in DOMAIN merged : merged[k] # 0})
      /\ UNCHANGED <<dims, layout, textCells, pool>>
  BY <1>1, <1>2, <1>3 DEF CommitSandbox
<1>5. \A c \in DOMAIN sandbox : c \in NumberCells(ds)
  BY <1>1, CellsAre DEF Sandboxed, SavedOK, SandboxOK, LeafCells
<1>6. StoredAt(nums, l, NumberCells(ds))
  BY <1>1 DEF CellsHold, CellsStored, StoresOK
<1>7. DOMAIN merged = {Key(l, c) : c \in DOMAIN sandbox} \cup DOMAIN nums
  <2>1. DOMAIN at = {Key(l, c) : c \in DOMAIN sandbox}
    BY <1>1, <1>2
  <2> QED BY ONLY <1>3, <2>1
<1>8. \A k \in DOMAIN merged : \E c \in NumberCells(ds) : k = Key(l, c)
  BY <1>5, <1>6, <1>7 DEF StoredAt
<1>9. IsMap(nums2) /\ DOMAIN nums2 \subseteq DOMAIN merged
  <2>1. PICK S : S = {k \in DOMAIN merged : merged[k] # 0}
    BY ONLY TRUE
  <2>2. nums2 = [k \in S |-> merged[k]] /\ S \subseteq DOMAIN merged
    BY <1>4, <2>1 DEF Restrict
  <2> QED BY ONLY <2>2 DEF IsMap
<1>10. StoredAt(nums2, l, NumberCells(ds))
  BY <1>8, <1>9 DEF StoredAt
<1> QED BY <1>1, <1>4, <1>10 DEF CellsHold, CellsStored, StoresOK

\* Every edit of the schema carries the cells with their names.
LEMMA EditsMoveCells ==
  ASSUME DimsHold, CellsStored, NEW d \in 1 .. Rank,
         MovesPositions(d) \/ MakesConsolidations(d) \/ RetypesAnElement(d) \/ SparesSandboxes(d)
  PROVE  CellsMove /\ pool' = pool
<1>1. CASE MovesPositions(d)
  <2>1. DimsHold' /\ MovedDim(d)
    BY <1>1, MovesKeep
  <2>2. pool' = pool
    BY <1>1 DEF MovesPositions, ReorderElements, InsertElementAt, DeleteElement
  <2> QED BY <2>1, <2>2, MovingMoves
<1>2. CASE MakesConsolidations(d)
  <2>1. ASSUME NEW e, DimsHold', RetypedDim(d, e), e # Gone => dims'[d].elements[e].kind = Consolidated,
               DropIfConverted(d, e), UNCHANGED <<layout, pool>>
        PROVE  CellsMove /\ pool' = pool
    <3>1. RetypesOnly(d, e)
      BY <2>1, RetypedOnly
    <3>2. StoresRetyped
      BY ONLY d \in 1 .. Rank, <2>1, <3>1, ConvertedStores
    <3> QED BY <2>1, <3>1, <3>2, RetypedMoves
  <2>2. PICK e \in Positions(d), w \in Weights :
          \/ \E parent \in Positions(d) \cup {Gone} : ReparentElement(d, e, parent, w)
          \/ \E parent \in Positions(d) : AddChildElement(d, parent, e, w)
    BY <1>2 DEF MakesConsolidations
  <2>3. ASSUME NEW parent \in Positions(d) \cup {Gone}, ReparentElement(d, e, parent, w)
        PROVE  CellsMove /\ pool' = pool
    <3>1. DropIfConverted(d, parent) /\ UNCHANGED <<layout, pool>>
      BY <2>3 DEF ReparentElement
    <3> QED BY <2>1, <2>3, <3>1, ReparentingKeeps
  <2>4. ASSUME NEW parent \in Positions(d), AddChildElement(d, parent, e, w)
        PROVE  CellsMove /\ pool' = pool
    <3>1. DropIfConverted(d, parent) /\ UNCHANGED <<layout, pool>>
      BY <2>4 DEF AddChildElement
    <3> QED BY <2>1, <2>4, <3>1, AddingKeeps
  <2> QED BY <2>2, <2>3, <2>4
<1>3. CASE RetypesAnElement(d)
  <2>1. PICK e \in Positions(d), kind \in ElementKinds : SetElementKind(d, e, kind)
    BY <1>3 DEF RetypesAnElement
  <2>2. DimsHold' /\ RetypedDim(d, e) /\ dims'[d].elements[e].kind = kind
    BY <2>1, RetypingKeeps
  <2>3. UNCHANGED <<layout, pool>>
    BY <2>1 DEF SetElementKind
  <2>4. RetypesOnly(d, e)
    BY <2>2, RetypedOnly
  <2>5. dims[d].elements[e].kind \in ElementKinds
    <3>1. DimOK(dims[d]) /\ e \in DOMAIN dims[d].elements
      BY DimsDimOK DEF DimsHold
    <3> QED BY <3>1 DEF DimOK, ElementsOK
  <2>6. StoresRetyped
    BY ONLY d \in 1 .. Rank, kind \in ElementKinds, <2>1, <2>2, <2>4, <2>5, RetypedStores
  <2> QED BY <2>3, <2>4, <2>6, RetypedMoves
<1>4. CASE SparesSandboxes(d)
  <2>1. DimsHold' /\ Follows(dims', dims) /\ (Relayout \/ Unmoved)
    BY <1>4, SparingKeeps
  <2>2. pool' = pool
    BY <1>4 DEF SparesSandboxes, ExtendSchema, DefineAttribute, SetAttributeValues, PinElement, RemoveChildElement
  <2> QED BY <2>1, <2>2, SparingMoves
<1> QED BY <1>1, <1>2, <1>3, <1>4

LEMMA EditedCells ==
  ASSUME ModelInv, CellsHold, SchemaEdit
  PROVE  CellsHold' /\ CellsMove
<1>1. PICK d \in workload.edited :
        MovesPositions(d) \/ MakesConsolidations(d) \/ RetypesAnElement(d) \/ SparesSandboxes(d)
  BY DEF SchemaEdit
<1>2. d \in 1 .. Rank /\ DimsHold /\ CellsStored
  BY <1>1, AskedAre DEF ModelInv, CellsHold
<1>3. CellsMove /\ pool' = pool
  BY ONLY <1>1, <1>2, EditsMoveCells
<1>4. PICK ds, ds2, l, l2, nums, nums2, texts, texts2 :
        /\ ds = dims /\ ds2 = dims' /\ l = layout /\ l2 = layout' /\ nums = cells /\ nums2 = cells'
        /\ texts = textCells /\ texts2 = textCells'
  BY ONLY TRUE
<1>5. /\ l2 = LayoutOf(ds2)
      /\ CellsCarried(nums2, l2, ds2, NumberCells(ds2), nums, l, ds, NumberCells(ds))
      /\ CellsCarried(texts2, l2, ds2, TextCells(ds2), texts, l, ds, TextCells(ds))
  BY <1>3, <1>4 DEF CellsMove, BothCarried
<1>6. StoredAt(nums2, l2, NumberCells(ds2))
  BY ONLY <1>5, CarriedStand
<1>7. StoredAt(texts2, l2, TextCells(ds2)) /\ Range(texts2) \subseteq Range(texts)
  BY ONLY <1>5, CarriedStand
<1>8. StoresOK(l2, ds2, nums2, texts2)
  BY ONLY <1>5, <1>6, <1>7 DEF StoresOK
<1> QED BY <1>3, <1>4, <1>7, <1>8 DEF CellsHold, CellsStored

LEMMA CellsStep == ModelInv /\ CellsHold /\ [ModelNext]_modelVars => CellsHold'
<1> SUFFICES ASSUME ModelInv, CellsHold, [ModelNext]_modelVars PROVE CellsHold'
  OBVIOUS
<1>1. DimsOK(dims) /\ PoolOK /\ Sandboxed
  BY DEF ModelInv, DimsHold
<1>2. ASSUME UNCHANGED cube PROVE CellsHold'
  BY <1>2 DEF cube, CellsHold, CellsStored
<1>3. CASE UNCHANGED modelVars
  BY <1>2, <1>3 DEF modelVars
<1>4. CASE SchemaEdit
  BY <1>4, EditedCells
<1>5. CASE CellWrite
  <2>1. PICK c : \/ c \in Coords /\ \/ \E v \in Numbers : SetLeaf(c, v)
                                    \/ \E t \in Texts : SetString(c, t)
                 \/ CompactStringPool
    BY <1>5 DEF CellWrite
  <2> QED BY <1>1, <2>1, NumberWritten, TextWritten, PoolWritten
<1>6. ASSUME NEW u \in Users, Ask(u) \/ Compile(u) \/ Finish(u) PROVE CellsHold'
  <2>1. CASE Ask(u) \/ Compile(u)
    BY <1>2, <2>1 DEF Ask, Compile
  <2>2. CASE Finish(u)
    <3>1. PICK f : f = flights[u]
      BY ONLY TRUE
    <3>2. (Accepted(f) /\ Store(f)) \/ UNCHANGED <<cube, saved>>
      BY <2>2, <3>1 DEF Finish
    <3>3. FlightOK(f, u, saved, workload.requests) /\ IsRequest(f.req)
      BY <2>2, <3>1, AskedAre DEF Finish, ModelInv, FlightsHold, FlightsOK, FlightOK
    <3>4. CASE Accepted(f) /\ Store(f)
      <4>1. UNCHANGED cube \/ (f.op = "commit" /\ CommitSandbox(f.req.key))
        BY <3>4 DEF Store
      <4>2. ASSUME f.op = "commit", CommitSandbox(f.req.key) PROVE CellsHold'
        <5>1. PICK key : key = f.req.key
          BY ONLY TRUE
        <5>2. key \in DOMAIN saved
          BY <3>4, <4>2, <5>1 DEF Accepted
        <5>3. key[1] = "sandbox"
          BY <3>3, <4>2, <5>1, OperationsAre DEF FlightOK
        <5> QED BY <1>1, <4>2, <5>1, <5>2, <5>3, SandboxCommitted
      <4> QED BY <1>2, <4>1, <4>2
    <3> QED BY <1>2, <3>2, <3>4
  <2> QED BY <1>6, <2>1, <2>2
<1> QED BY <1>3, <1>4, <1>5, <1>6 DEF ModelNext

LEMMA CellsAreWhereTheyCanBe ==
  ASSUME DimsHold, CellsHold
  PROVE  CubeOK
<1>1. PICK ds, l : ds = dims /\ l = layout /\ DimsOK(ds) /\ l = LayoutOf(ds)
  BY DEF DimsHold, CellsHold, CellsStored, StoresOK
<1>2. Decodes(l, NumberCells(ds)) /\ Decodes(l, TextCells(ds))
  BY <1>1, DecodesIn
<1>3. ASSUME NEW k \in DOMAIN cells PROVE CoordOf(layout, k) \in Coords /\ TakesNumber(CoordOf(layout, k))
  <2>1. PICK c \in NumberCells(ds) : k = Key(l, c)
    BY <1>1 DEF CellsHold, CellsStored, StoresOK, StoredAt
  <2>2. CoordOf(layout, k) = c
    BY <1>1, <1>2, <2>1 DEF Decodes
  <2>3. LeafCell(dims, c)
    BY <1>1, <2>1 DEF NumberCells
  <2> QED BY <2>2, <2>3, LeafCellsAre
<1>4. ASSUME NEW k \in DOMAIN textCells PROVE CoordOf(layout, k) \in Coords /\ TakesText(CoordOf(layout, k))
  <2>1. PICK c \in TextCells(ds) : k = Key(l, c)
    BY <1>1 DEF CellsHold, CellsStored, StoresOK, StoredAt
  <2>2. CoordOf(layout, k) = c
    BY <1>1, <1>2, <2>1 DEF Decodes
  <2>3. TextCell(dims, c) /\ IsCoord(dims, c)
    BY <1>1, <2>1 DEF TextCells, TextCell
  <2> QED BY <2>2, <2>3, CoordsAre, TextCellsAre
<1> QED BY <1>1, <1>3, <1>4 DEF CubeOK, CellsHold

-----------------------------------------------------------------------------
\* The cells through every run, where keys lead back to them.
LEMMA CellsInvariance == ModelSpec => []CellsHold
<1>1. ModelInit => CellsHold
  BY StartedCells DEF ModelInit
<1>2. ModelInv /\ CellsHold /\ [ModelNext]_modelVars => CellsHold'
  BY CellsStep
<1> QED BY <1>1, <1>2, ModelInvariance, PTL DEF ModelSpec

(* After any edits, of any schema by any users, the model is one: the        *)
(* hierarchy is a DAG whose parents consolidate, the name and alias lookups  *)
(* are those a rebuild would give, no string is pooled twice, every key      *)
(* decodes to a cell where a value of its kind can be written, whatever was  *)
(* moved, repacked or retyped, and every sandbox can be committed whole      *)
(* (dimension.rs, cube.rs:586-660, query.rs:1567-1615).                      *)
THEOREM ModelStaysSound == ModelSpec => []ModelIsSound
<1>1. ASSUME ModelInv PROVE SandboxesCanCommit
  <2>1. ASSUME NEW k \in SandboxKeys PROVE Committable(k)
    <3>1. PICK map : map = saved[k].cells /\ LeafCells(dims, map)
      BY <1>1, <2>1 DEF SandboxKeys, ModelInv, Sandboxed, SavedOK, SandboxOK
    <3>2. \A c \in DOMAIN map : LeafCell(dims, c)
      BY <3>1 DEF LeafCells
    <3>3. \A c \in DOMAIN map : c \in Coords /\ TakesNumber(c)
      BY ONLY <3>2, LeafCellsAre
    <3> QED BY <3>1, <3>3 DEF Committable
  <2> QED BY <2>1 DEF SandboxesCanCommit
<1>2. ModelInv /\ CellsHold => ModelIsSound
  BY <1>1, SoundDims, CellsAreWhereTheyCanBe DEF ModelInv, ModelIsSound
<1> QED BY <1>2, ModelInvariance, CellsInvariance, PTL

-----------------------------------------------------------------------------
(* Cells by name.  Of an edit its users see what it makes of the cells by    *)
(* the names of their elements.                                              *)
NamesIn(ds, c) == [d \in 1 .. Rank |-> ds[d].elements[c[d]].name]
\* The cells of map, at coordinates of ds, by name.
NamedMap(ds, map) ==
  [n \in {NamesIn(ds, c) : c \in DOMAIN map} |-> map[CHOOSE c \in DOMAIN map : NamesIn(ds, c) = n]]
IsNamed(m, ds, map) ==
  /\ IsMap(m)
  /\ \A c \in DOMAIN map : NamesIn(ds, c) \in DOMAIN m /\ m[NamesIn(ds, c)] = map[c]
  /\ \A n \in DOMAIN m : \E c \in DOMAIN map : n = NamesIn(ds, c)
\* The cells of a store, by their coordinates.
AtCoords(l, store) == [c \in {CoordOf(l, k) : k \in DOMAIN store} |-> store[Key(l, c)]]
IsAt(map, l, store, C) ==
  /\ DOMAIN map \subseteq C
  /\ \A c \in C : c \in DOMAIN map <=> Key(l, c) \in DOMAIN store
  /\ \A c \in DOMAIN map : map[c] = store[Key(l, c)]
\* The cells of map go to those of C2 with their names, or are gone.
MapCarried(map2, ds2, C2, map, ds) ==
  /\ \A c2 \in DOMAIN map2 : c2 \in C2 /\ \E c \in DOMAIN map : SameNames(ds, c, ds2, c2) /\ map2[c2] = map[c]
  /\ \A c \in DOMAIN map, c2 \in C2 : SameNames(ds, c, ds2, c2) => c2 \in DOMAIN map2

LEMMA NamesAre ==
  ASSUME NEW ds, NEW c, NEW ds2, NEW c2
  PROVE  SameNames(ds, c, ds2, c2) <=> NamesIn(ds2, c2) = NamesIn(ds, c)
<1>1. PICK n, n2 : n = NamesIn(ds, c) /\ n2 = NamesIn(ds2, c2)
  BY ONLY TRUE
<1>2. /\ n = [d \in 1 .. Rank |-> n[d]] /\ \A d \in 1 .. Rank : n[d] = ds[d].elements[c[d]].name
      /\ n2 = [d \in 1 .. Rank |-> n2[d]] /\ \A d \in 1 .. Rank : n2[d] = ds2[d].elements[c2[d]].name
  BY <1>1 DEF NamesIn
<1>3. (\A d \in 1 .. Rank : n2[d] = n[d]) => n2 = n
  BY ONLY <1>2
<1> QED BY <1>1, <1>2, <1>3 DEF SameNames

LEMMA NamesApart ==
  ASSUME NEW ds, DimsOK(ds), NEW c \in CoordsOf(ds), NEW e \in CoordsOf(ds), NamesIn(ds, c) = NamesIn(ds, e)
  PROVE  c = e
<1>1. SameNames(ds, e, ds, c)
  BY NamesAre
<1>2. IsCoord(ds, c) /\ IsCoord(ds, e) /\ NamesStay(ds, ds)
  BY DEF CoordsOf, NamesStay
<1> QED BY <1>1, <1>2, SameNamesSamePlace

LEMMA NamedIs ==
  ASSUME NEW ds, DimsOK(ds), NEW map, DOMAIN map \subseteq CoordsOf(ds), NEW m, m = NamedMap(ds, map)
  PROVE  IsNamed(m, ds, map)
<1> DEFINE at == {NamesIn(ds, c) : c \in DOMAIN map}
           from(n) == CHOOSE c \in DOMAIN map : NamesIn(ds, c) = n
<1>1. m = [n \in at |-> map[from(n)]]
  BY DEF NamedMap
<1>2. ASSUME NEW c \in DOMAIN map PROVE from(NamesIn(ds, c)) = c
  <2>1. PICK n : n = NamesIn(ds, c)
    BY ONLY TRUE
  <2>2. from(n) \in DOMAIN map /\ NamesIn(ds, from(n)) = n
    BY <2>1
  <2> HIDE DEF from
  <2> QED BY <2>1, <2>2, NamesApart
<1> HIDE DEF from
<1> QED BY <1>1, <1>2 DEF IsNamed, IsMap

LEMMA KeptByName ==
  ASSUME NEW ds, NEW map, NEW m, IsNamed(m, ds, map), NEW ds2, NEW map2, NEW m2, IsNamed(m2, ds2, map2),
         NEW C2, MapCarried(map2, ds2, C2, map, ds), NEW S, S = {n \in DOMAIN m : \E c2 \in C2 : n = NamesIn(ds2, c2)}
  PROVE  m2 = Restrict(m, S)
<1>1. ASSUME NEW n \in DOMAIN m2 PROVE n \in S /\ m2[n] = m[n]
  <2>1. PICK c2 \in DOMAIN map2 : n = NamesIn(ds2, c2)
    BY DEF IsNamed
  <2>2. PICK c \in DOMAIN map : SameNames(ds, c, ds2, c2) /\ map2[c2] = map[c] /\ c2 \in C2
    BY DEF MapCarried
  <2>3. NamesIn(ds, c) = n
    BY <2>1, <2>2, NamesAre
  <2> QED BY <2>1, <2>2, <2>3 DEF IsNamed
<1>2. ASSUME NEW n \in S PROVE n \in DOMAIN m2
  <2>1. PICK c \in DOMAIN map : n = NamesIn(ds, c)
    BY DEF IsNamed
  <2>2. PICK c2 \in C2 : n = NamesIn(ds2, c2)
    OBVIOUS
  <2>3. c2 \in DOMAIN map2
    BY <2>1, <2>2, NamesAre DEF MapCarried
  <2> QED BY <2>2, <2>3 DEF IsNamed
<1>3. DOMAIN m2 = S /\ m2 = [n \in DOMAIN m2 |-> m2[n]]
  BY <1>1, <1>2 DEF IsNamed, IsMap
<1>4. m2 = [n \in S |-> m[n]]
  BY ONLY <1>1, <1>3
<1> QED BY <1>4 DEF Restrict

LEMMA CoordsAt ==
  ASSUME NEW l, NEW store, NEW C, StoredAt(store, l, C), Decodes(l, C), NEW map, map = AtCoords(l, store)
  PROVE  IsAt(map, l, store, C)
<1>1. DOMAIN map = {CoordOf(l, k) : k \in DOMAIN store} /\ \A c \in DOMAIN map : map[c] = store[Key(l, c)]
  BY DEF AtCoords
<1>2. \A k \in DOMAIN store : \E c \in C : k = Key(l, c) /\ CoordOf(l, k) = c
  BY DEF StoredAt, Decodes
<1> QED BY <1>1, <1>2 DEF IsAt, Decodes

LEMMA CarriedAt ==
  ASSUME NEW l, NEW store, NEW ds, NEW C, NEW map, IsAt(map, l, store, C),
         NEW l2, NEW after, NEW ds2, NEW C2, NEW map2, IsAt(map2, l2, after, C2), Decodes(l2, C2),
         CellsCarried(after, l2, ds2, C2, store, l, ds, C), DimsOK(ds2), C2 \subseteq CoordsOf(ds2)
  PROVE  MapCarried(map2, ds2, C2, map, ds)
<1>1. PICK moved : Carries(moved, ds, C, ds2, C2) /\ IsRebuilt(after, store, l, l2, moved, C)
  BY DEF CellsCarried
<1>2. ASSUME NEW c2 \in DOMAIN map2
      PROVE  c2 \in C2 /\ \E c \in DOMAIN map : SameNames(ds, c, ds2, c2) /\ map2[c2] = map[c]
  <2>1. c2 \in C2 /\ Key(l2, c2) \in DOMAIN after /\ map2[c2] = after[Key(l2, c2)]
    BY DEF IsAt
  <2>2. PICK c \in C : /\ Goes(moved, c) /\ Key(l, c) \in DOMAIN store
                       /\ Key(l2, c2) = Key(l2, moved[c]) /\ after[Key(l2, c2)] = store[Key(l, c)]
    BY <1>1, <2>1 DEF IsRebuilt
  <2>3. moved[c] \in C2 /\ SameNames(ds, c, ds2, moved[c])
    BY <1>1, <2>2 DEF Carries
  <2>4. moved[c] = c2
    BY <2>1, <2>2, <2>3 DEF Decodes
  <2>5. c \in DOMAIN map /\ map[c] = store[Key(l, c)]
    BY <2>2 DEF IsAt
  <2> QED BY <2>1, <2>2, <2>3, <2>4, <2>5
<1>3. ASSUME NEW c \in DOMAIN map, NEW c2 \in C2, SameNames(ds, c, ds2, c2) PROVE c2 \in DOMAIN map2
  <2>1. c \in C /\ Key(l, c) \in DOMAIN store
    BY DEF IsAt
  <2>2. Goes(moved, c) /\ moved[c] \in C2 /\ SameNames(ds, c, ds2, moved[c])
    BY <1>1, <1>3, <2>1 DEF Carries
  <2>3. moved[c] = c2
    <3>1. NamesIn(ds2, moved[c]) = NamesIn(ds2, c2)
      BY <1>3, <2>2, NamesAre
    <3> QED BY <2>2, <3>1, NamesApart
  <2>4. Key(l2, c2) \in DOMAIN after
    BY <1>1, <2>1, <2>2, <2>3 DEF IsRebuilt
  <2> QED BY <2>4 DEF IsAt
<1> QED BY <1>2, <1>3 DEF MapCarried

\* What sch says of the kinds, by name, is what ds says of them.
KindsNamed(sch, ds) ==
  \A d \in 1 .. Rank :
    /\ DOMAIN sch[d].kind = Names(ds[d])
    /\ \A n \in Names(ds[d]) : sch[d].kind[n] = ds[d].elements[IndexOf(ds[d], n)].kind

LEMMA KindsAreNamed ==
  ASSUME NEW ds, NEW sch, sch = [d \in 1 .. Rank |-> SchemaOf(ds[d])]
  PROVE  KindsNamed(sch, ds)
<1>1. ASSUME NEW dim, NEW s, s = SchemaOf(dim)
      PROVE  DOMAIN s.kind = Names(dim) /\ \A n \in Names(dim) : s.kind[n] = dim.elements[IndexOf(dim, n)].kind
  BY <1>1 DEF SchemaOf
<1>2. ASSUME NEW d \in 1 .. Rank
      PROVE  /\ DOMAIN sch[d].kind = Names(ds[d])
             /\ \A n \in Names(ds[d]) : sch[d].kind[n] = ds[d].elements[IndexOf(ds[d], n)].kind
  <2>1. PICK dim, s : dim = ds[d] /\ s = sch[d] /\ s = SchemaOf(dim)
    OBVIOUS
  <2> QED BY <1>1, <2>1
<1> QED BY SMTT(30), <1>2 DEF KindsNamed

\* One name for each dimension; and the cell that they lead to.
IsTuple(n) == n = [d \in 1 .. Rank |-> n[d]]
AreNames(n, ds) == IsTuple(n) /\ \A d \in 1 .. Rank : n[d] \in Names(ds[d])
LeadTo(n, ds, c) == \A d \in 1 .. Rank : n[d] \in Names(ds[d]) /\ IndexOf(ds[d], n[d]) = c[d]

LEMMA CellOfNames ==
  ASSUME NEW ds, DimsOK(ds), NEW n, AreNames(n, ds)
  PROVE  \E c : IsCoord(ds, c) /\ NamesIn(ds, c) = n /\ LeadTo(n, ds, c)
<1> USE DEF AreNames
<1>1. PICK c : c = [d \in 1 .. Rank |-> IndexOf(ds[d], n[d])]
  BY ONLY TRUE
<1>2. ASSUME NEW d \in 1 .. Rank
      PROVE  c[d] = IndexOf(ds[d], n[d]) /\ c[d] \in DOMAIN ds[d].elements /\ ds[d].elements[c[d]].name = n[d]
  <2>1. PICK dim, name : dim = ds[d] /\ DimOK(dim) /\ name = n[d] /\ name \in Names(dim)
    BY DEF DimsOK
  <2>2. IndexOf(dim, name) \in DOMAIN dim.elements /\ dim.elements[IndexOf(dim, name)].name = name
    BY <2>1, NamedOnes
  <2> QED BY <1>1, <2>1, <2>2
<1>3. c = [d \in 1 .. Rank |-> c[d]]
  BY <1>1
<1>4. PICK m : m = NamesIn(ds, c)
  BY ONLY TRUE
<1>5. m = [d \in 1 .. Rank |-> m[d]] /\ \A d \in 1 .. Rank : m[d] = n[d]
  BY <1>2, <1>4 DEF NamesIn
<1>6. m = n
  BY ONLY <1>5, IsTuple(n) DEF IsTuple
<1>7. LeadTo(n, ds, c)
  BY <1>2 DEF LeadTo
<1> QED BY <1>2, <1>3, <1>4, <1>6, <1>7 DEF IsCoord

LEMMA NamesLead ==
  ASSUME NEW ds, DimsOK(ds), NEW c, IsCoord(ds, c)
  PROVE  LeadTo(NamesIn(ds, c), ds, c)
<1> SUFFICES ASSUME NEW d \in 1 .. Rank, NEW n, n = NamesIn(ds, c)
             PROVE  n[d] \in Names(ds[d]) /\ IndexOf(ds[d], n[d]) = c[d]
  BY DEF LeadTo
<1>1. PICK dim, i : dim = ds[d] /\ i = c[d] /\ DimOK(dim) /\ i \in DOMAIN dim.elements
  BY DEF DimsOK, IsCoord
<1>2. n[d] = dim.elements[i].name
  BY <1>1 DEF NamesIn
<1>3. dim.elements[i].name \in Names(dim) /\ IndexOf(dim, dim.elements[i].name) = i
  BY <1>1 DEF DimOK, NamesFound, Names, IndexOf
<1> QED BY <1>1, <1>2, <1>3

LEMMA NumbersHeld ==
  ASSUME NEW ds, DimsOK(ds), NEW sch, KindsNamed(sch, ds), NEW n, IsTuple(n), 1 .. Rank # {}
  PROVE  Named!HoldsNumber(sch, n) <=> \E c \in NumberCells(ds) : n = NamesIn(ds, c)
<1>1. ASSUME Named!HoldsNumber(sch, n) PROVE \E c \in NumberCells(ds) : n = NamesIn(ds, c)
  <2>1. \A d \in 1 .. Rank : n[d] \in Names(ds[d]) /\ ds[d].elements[IndexOf(ds[d], n[d])].kind = Leaf
    BY <1>1 DEF Named!HoldsNumber, Named!NamesOf, Named!Leaf, KindsNamed, Leaf
  <2>2. PICK c : IsCoord(ds, c) /\ NamesIn(ds, c) = n /\ LeadTo(n, ds, c)
    BY <2>1, CellOfNames DEF AreNames
  <2>3. LeafCell(ds, c)
    BY <2>1, <2>2 DEF LeafCell, IsCoord, LeadTo
  <2> QED BY <2>2, <2>3, CellsAre
<1>2. ASSUME NEW c \in NumberCells(ds), n = NamesIn(ds, c) PROVE Named!HoldsNumber(sch, n)
  <2>1. IsCoord(ds, c) /\ LeafCell(ds, c)
    BY DEF NumberCells, CoordsOf
  <2>2. \A d \in 1 .. Rank : n[d] \in Names(ds[d]) /\ IndexOf(ds[d], n[d]) = c[d]
    BY <1>2, <2>1, NamesLead DEF LeadTo
  <2>3. \A d \in 1 .. Rank : n[d] \in DOMAIN sch[d].kind /\ sch[d].kind[n[d]] = Leaf
    BY <2>1, <2>2 DEF LeafCell, KindsNamed
  <2> QED BY <2>3 DEF Named!HoldsNumber, Named!NamesOf, Named!Leaf, Leaf
<1> QED BY <1>1, <1>2

LEMMA TextsHeld ==
  ASSUME NEW ds, DimsOK(ds), NEW sch, KindsNamed(sch, ds), NEW n, IsTuple(n)
  PROVE  Named!HoldsText(sch, n) <=> \E c \in TextCells(ds) : n = NamesIn(ds, c)
<1>1. ASSUME Named!HoldsText(sch, n) PROVE \E c \in TextCells(ds) : n = NamesIn(ds, c)
  <2>1. /\ \A d \in 1 .. Rank : n[d] \in Names(ds[d]) /\ ds[d].elements[IndexOf(ds[d], n[d])].kind # Consolidated
        /\ \E d \in 1 .. Rank : ds[d].elements[IndexOf(ds[d], n[d])].kind = Str
    BY <1>1 DEF Named!HoldsText, Named!NamesOf, Named!Str, Named!Consolidated, KindsNamed, Str, Consolidated
  <2>2. PICK c : IsCoord(ds, c) /\ NamesIn(ds, c) = n /\ LeadTo(n, ds, c)
    BY <2>1, CellOfNames DEF AreNames
  <2>3. TextCell(ds, c)
    BY <2>1, <2>2 DEF TextCell, LeadTo
  <2> QED BY <2>2, <2>3, CellsAre
<1>2. ASSUME NEW c \in TextCells(ds), n = NamesIn(ds, c) PROVE Named!HoldsText(sch, n)
  <2>1. IsCoord(ds, c) /\ TextCell(ds, c)
    BY DEF TextCells, CoordsOf
  <2>2. \A d \in 1 .. Rank : n[d] \in Names(ds[d]) /\ IndexOf(ds[d], n[d]) = c[d]
    BY <1>2, <2>1, NamesLead DEF LeadTo
  <2>3. /\ \A d \in 1 .. Rank : n[d] \in DOMAIN sch[d].kind /\ sch[d].kind[n[d]] # Consolidated
        /\ \E d \in 1 .. Rank : sch[d].kind[n[d]] = Str
    BY <2>1, <2>2 DEF TextCell, KindsNamed
  <2> QED BY <2>3 DEF Named!HoldsText, Named!NamesOf, Named!Str, Named!Consolidated, Str, Consolidated
<1> QED BY <1>1, <1>2

\* The overrides of a sandbox by name, under each edit.
LEMMA RemappedCarries ==
  ASSUME NEW ds, DimsOK(ds), NEW d \in 1 .. Rank, NEW new, DimOK(new), FollowsNames(new, ds[d]),
         NEW ds2, DimsOK(ds2), Replaced(ds2, ds, d, new), NEW to, Follower(to, ds[d], new),
         NEW map, LeafCells(ds, map), NEW after, after = Remapped(map, d, to)
  PROVE  MapCarried(after, ds2, NumberCells(ds2), map, ds)
<1> DEFINE kept == {c \in DOMAIN map : to[c[d]] # Gone}
           at(c) == [c EXCEPT ![d] = to[@]]
           from(n) == CHOOSE c \in kept : at(c) = n
<1>1. PICK moved : moved = [c \in CoordsOf(ds) |-> at(c)]
  BY ONLY TRUE
<1>2. \A c \in CoordsOf(ds) : moved[c] = at(c)
  BY <1>1
<1>3. Carries(moved, ds, NumberCells(ds), ds2, NumberCells(ds2))
  <2>1. IsMoving(moved, ds, d, to)
    BY <1>2 DEF IsMoving
  <2> QED BY <2>1, MovingCarries
<1>4. after = [n \in {at(c) : c \in kept} |-> map[from(n)]]
  BY DEF Remapped
<1>5. \A c \in DOMAIN map : c \in NumberCells(ds) /\ c \in CoordsOf(ds) /\ IsCoord(ds, c)
  BY CellsAre DEF LeafCells, LeafCell, IsCoord
<1>6. \A n \in DOMAIN after : n \in NumberCells(ds2) /\ IsCoord(ds2, n)
  <2>1. LeafCells(ds2, after)
    BY RemappedOK
  <2> QED BY <2>1, CellsAre DEF LeafCells, LeafCell, IsCoord
<1>7. ASSUME NEW n \in DOMAIN after
      PROVE  n \in NumberCells(ds2) /\ \E c \in DOMAIN map : SameNames(ds, c, ds2, n) /\ after[n] = map[c]
  <2>1. PICK c : c = from(n) /\ c \in kept /\ at(c) = n
    BY <1>4
  <2>2. moved[c] = n /\ c \in NumberCells(ds) /\ c \in DOMAIN map
    BY <1>2, <1>5, <2>1
  <2>3. Goes(moved, c)
    BY <1>6, <2>2, CoordsStay DEF Goes
  <2>4. SameNames(ds, c, ds2, n)
    BY <1>3, <2>2, <2>3 DEF Carries
  <2>5. after[n] = map[c]
    BY <1>4, <2>1
  <2> QED BY <1>6, <2>2, <2>4, <2>5
<1>8. ASSUME NEW c \in DOMAIN map, NEW c2 \in NumberCells(ds2), SameNames(ds, c, ds2, c2) PROVE c2 \in DOMAIN after
  <2>1. Goes(moved, c) /\ moved[c] \in NumberCells(ds2) /\ SameNames(ds, c, ds2, moved[c])
    BY <1>3, <1>5, <1>8 DEF Carries
  <2>2. moved[c] = c2
    <3>1. NamesIn(ds2, moved[c]) = NamesIn(ds2, c2)
      BY <1>8, <2>1, NamesAre
    <3>2. moved[c] \in CoordsOf(ds2) /\ c2 \in CoordsOf(ds2)
      BY <2>1, CellsIn
    <3> QED BY <3>1, <3>2, NamesApart
  <2>3. IsCoord(ds2, c2) /\ c2 = at(c)
    <3>1. IsCoord(ds2, c2)
      BY CellsIn, CellsAre
    <3> QED BY <1>2, <1>5, <2>2, <3>1
  <2>4. to[c[d]] # Gone
    <3>1. c = [x \in 1 .. Rank |-> c[x]]
      BY <1>5 DEF IsCoord
    <3>2. c2[d] = to[c[d]]
      BY ONLY <2>3, <3>1, d \in 1 .. Rank
    <3>3. c2[d] \in DOMAIN ds2[d].elements /\ Gone \notin DOMAIN ds2[d].elements
      BY <2>3, GoneIsNowhere DEF IsCoord, DimsOK
    <3> QED BY <3>2, <3>3
  <2> QED BY <1>4, <2>3, <2>4
<1> HIDE DEF kept, at, from
<1> QED BY <1>7, <1>8 DEF MapCarried

LEMMA PrunedCarries ==
  ASSUME NEW ds, DimsOK(ds), NEW ds2, DimsOK(ds2), NEW d \in 1 .. Rank, NEW e, Retyped(ds2, ds, d, e),
         ds2[d].elements[e].kind # Leaf, NEW map, LeafCells(ds, map), NEW after, Pruned(after, map, d, e)
  PROVE  MapCarried(after, ds2, NumberCells(ds2), map, ds)
<1>1. DOMAIN after = {c \in DOMAIN map : c[d] # e} /\ \A c \in DOMAIN after : after[c] = map[c]
  BY DEF Pruned, Restrict
<1>2. \A c \in DOMAIN map : LeafCell(ds, c) /\ IsCoord(ds, c)
  BY DEF LeafCells, LeafCell, IsCoord
<1>3. ASSUME NEW c \in DOMAIN after PROVE c \in NumberCells(ds2) /\ SameNames(ds, c, ds2, c)
  <2>1. LeafCell(ds, c) /\ IsCoord(ds, c) /\ c[d] # e
    BY <1>1, <1>2
  <2>2. IsCoord(ds2, c) /\ SameKinds(ds, c, ds2, c)
    BY <2>1, RetypedCoord DEF StaysBeside
  <2>3. LeafCell(ds2, c)
    BY <2>1, <2>2, SameCell
  <2>4. SameNames(ds, c, ds2, c)
    BY <2>1 DEF SameNames, Retyped, NamesStay, IsCoord
  <2> QED BY <2>3, <2>4, CellsAre
<1>4. ASSUME NEW c \in DOMAIN map, NEW c2 \in NumberCells(ds2), SameNames(ds, c, ds2, c2) PROVE c2 \in DOMAIN after
  <2>1. LeafCell(ds2, c2) /\ IsCoord(ds2, c2) /\ IsCoord(ds, c) /\ NamesStay(ds2, ds)
    BY <1>2, CellsAre DEF Retyped, LeafCell, IsCoord
  <2>2. c2 = c
    BY <1>4, <2>1, SameNamesSamePlace
  <2>3. c2[d] # e
    BY <2>1 DEF LeafCell
  <2> QED BY <1>1, <2>2, <2>3
<1> QED BY <1>1, <1>3, <1>4 DEF MapCarried

LEMMA StayingMap ==
  ASSUME NEW ds, DimsOK(ds), NEW ds2, DimsOK(ds2), NamesStay(ds2, ds), NumberCells(ds) \subseteq NumberCells(ds2),
         NEW map, LeafCells(ds, map)
  PROVE  MapCarried(map, ds2, NumberCells(ds2), map, ds)
<1>1. \A c \in DOMAIN map : c \in NumberCells(ds) /\ IsCoord(ds, c)
  BY CellsAre DEF LeafCells, LeafCell, IsCoord
<1>2. \A c \in DOMAIN map : SameNames(ds, c, ds2, c)
  BY <1>1 DEF SameNames, NamesStay, IsCoord
<1>3. ASSUME NEW c \in DOMAIN map, NEW c2 \in NumberCells(ds2), SameNames(ds, c, ds2, c2) PROVE c2 \in DOMAIN map
  <2>1. IsCoord(ds2, c2) /\ IsCoord(ds, c)
    BY <1>1, CellsIn, CellsAre
  <2> QED BY <1>3, <2>1, SameNamesSamePlace
<1> QED BY <1>1, <1>2, <1>3 DEF MapCarried

OverridesMove ==
  \A k \in SandboxKeys : MapCarried(saved'[k].cells, dims', NumberCells(dims'), saved[k].cells, dims)

LEMMA MovedOverrides ==
  ASSUME DimsHold, DimsHold', Sandboxed, NEW d \in 1 .. Rank, MovedDim(d), RemapSandboxes(d)
  PROVE  OverridesMove
<1>1. PICK new : DimOK(new) /\ FollowsNames(new, dims[d]) /\ dims' = [dims EXCEPT ![d] = new]
  BY DEF MovedDim, MovesTo, RemapCells
<1>2. PICK ds, ds2, to : ds = dims /\ ds2 = dims' /\ to = PermutationByName(d)
  BY ONLY TRUE
<1>3. DimsOK(ds) /\ DimsOK(ds2) /\ FollowsNames(new, ds[d]) /\ Replaced(ds2, ds, d, new) /\ DimOK(new)
  BY <1>1, <1>2 DEF DimsHold, Replaced
<1>4. ds2[d] = new
  BY <1>3 DEF DimsOK, Replaced
<1>5. Follower(to, ds[d], new)
  BY <1>2, <1>4 DEF PermutationByName, Positions, Follower
<1>6. ASSUME NEW k \in SandboxKeys PROVE MapCarried(saved'[k].cells, ds2, NumberCells(ds2), saved[k].cells, ds)
  <2>1. PICK s, map : s = saved[k] /\ map = s.cells /\ IsSandbox(s) /\ LeafCells(ds, map)
    BY <1>2, <1>6 DEF Sandboxed, SavedOK, SandboxOK, SandboxKeys
  <2>2. PICK after : after = Remapped(map, d, to)
    BY ONLY TRUE
  <2>3. MapCarried(after, ds2, NumberCells(ds2), map, ds)
    BY ONLY d \in 1 .. Rank, <1>3, <1>5, <2>1, <2>2, RemappedCarries
  <2>4. saved'[k] = [s EXCEPT !.cells = after]
    BY <1>2, <1>6, <2>1, <2>2 DEF RemapSandboxes, WithSandboxes, SandboxKeys
  <2>5. saved'[k].cells = after
    BY <2>1, <2>4 DEF IsSandbox
  <2> QED BY <2>1, <2>3, <2>5
<1> QED BY <1>2, <1>6 DEF OverridesMove

LEMMA PrunedOverrides ==
  ASSUME Sandboxed, NEW d \in 1 .. Rank, NEW e, RetypesOnly(d, e), PruneSandboxes(d, e), dims'[d].elements[e].kind # Leaf
  PROVE  OverridesMove
<1>1. PICK ds, ds2 : ds = dims /\ ds2 = dims' /\ Retyped(ds2, ds, d, e) /\ DimsOK(ds) /\ DimsOK(ds2)
  BY DEF RetypesOnly
<1>2. ASSUME NEW k \in SandboxKeys PROVE MapCarried(saved'[k].cells, ds2, NumberCells(ds2), saved[k].cells, ds)
  <2>1. PICK s, map : s = saved[k] /\ map = s.cells /\ IsSandbox(s) /\ LeafCells(ds, map)
    BY <1>1, <1>2 DEF Sandboxed, SavedOK, SandboxOK, SandboxKeys
  <2>2. PICK after : Pruned(after, map, d, e)
    BY DEF Pruned
  <2>3. MapCarried(after, ds2, NumberCells(ds2), map, ds)
    BY <1>1, <2>1, <2>2, PrunedCarries
  <2>4. saved'[k] = [s EXCEPT !.cells = after]
    BY <1>2, <2>1, <2>2 DEF PruneSandboxes, WithSandboxes, SandboxKeys, Pruned
  <2>5. saved'[k].cells = after
    BY <2>1, <2>4 DEF IsSandbox
  <2> QED BY <2>1, <2>3, <2>5
<1> QED BY <1>1, <1>2 DEF OverridesMove

LEMMA SparedOverrides ==
  ASSUME Sandboxed, saved' = saved, DimsOK(dims), DimsOK(dims'), NamesStay(dims', dims),
         NumberCells(dims) \subseteq NumberCells(dims')
  PROVE  OverridesMove
<1>1. PICK ds, ds2 : ds = dims /\ ds2 = dims' /\ DimsOK(ds) /\ DimsOK(ds2) /\ NamesStay(ds2, ds)
                     /\ NumberCells(ds) \subseteq NumberCells(ds2)
  OBVIOUS
<1>2. ASSUME NEW k \in SandboxKeys PROVE MapCarried(saved[k].cells, ds2, NumberCells(ds2), saved[k].cells, ds)
  <2>1. PICK map : map = saved[k].cells /\ LeafCells(ds, map)
    BY <1>1, <1>2 DEF Sandboxed, SavedOK, SandboxOK, SandboxKeys
  <2> QED BY <1>1, <2>1, StayingMap
<1> QED BY <1>1, <1>2 DEF OverridesMove

LEMMA KeptOverrides ==
  ASSUME Sandboxed, NEW d \in 1 .. Rank, NEW e, RetypesOnly(d, e), UNCHANGED saved,
         e = Gone \/ dims[d].elements[e].kind # Leaf \/ dims'[d].elements[e].kind = Leaf
  PROVE  OverridesMove
<1>1. PICK ds, ds2 : ds = dims /\ ds2 = dims' /\ Retyped(ds2, ds, d, e) /\ DimsOK(ds) /\ DimsOK(ds2)
  BY DEF RetypesOnly
<1>2. NumberCells(ds) \subseteq NumberCells(ds2) /\ NamesStay(ds2, ds)
  BY <1>1, KeptNumbers DEF Retyped
<1> QED BY <1>1, <1>2, SparedOverrides

LEMMA ConvertedOverrides ==
  ASSUME Sandboxed, NEW d \in 1 .. Rank, NEW e, RetypesOnly(d, e), PruneIfConverted(d, e),
         e # Gone => dims'[d].elements[e].kind = Consolidated
  PROVE  OverridesMove
<1>1. CASE e # Gone /\ dims[d].elements[e].kind # Consolidated
  <2>1. PruneSandboxes(d, e) /\ dims'[d].elements[e].kind # Leaf
    BY <1>1 DEF PruneIfConverted, Consolidated, Leaf
  <2> QED BY <2>1, PrunedOverrides
<1>2. CASE ~(e # Gone /\ dims[d].elements[e].kind # Consolidated)
  <2>1. UNCHANGED saved /\ (e = Gone \/ dims[d].elements[e].kind # Leaf)
    BY <1>2 DEF PruneIfConverted, Consolidated, Leaf
  <2> QED BY <2>1, KeptOverrides
<1> QED BY <1>1, <1>2

\* Every edit of the schema carries the overrides with their names.
LEMMA EditsMoveOverrides ==
  ASSUME DimsHold, Sandboxed, NEW d \in 1 .. Rank,
         MovesPositions(d) \/ MakesConsolidations(d) \/ RetypesAnElement(d) \/ SparesSandboxes(d)
  PROVE  OverridesMove
<1>1. CASE MovesPositions(d)
  <2>1. DimsHold' /\ MovedDim(d) /\ RemapSandboxes(d)
    BY <1>1, MovesKeep DEF MovesPositions
  <2> QED BY <2>1, MovedOverrides
<1>2. CASE MakesConsolidations(d)
  <2>1. ASSUME NEW e, DimsHold', RetypedDim(d, e), e # Gone => dims'[d].elements[e].kind = Consolidated,
               PruneIfConverted(d, e)
        PROVE  OverridesMove
    BY <2>1, RetypedOnly, ConvertedOverrides
  <2>2. PICK e \in Positions(d), w \in Weights :
          \/ \E parent \in Positions(d) \cup {Gone} : ReparentElement(d, e, parent, w) /\ PruneIfConverted(d, parent)
          \/ \E parent \in Positions(d) : AddChildElement(d, parent, e, w) /\ PruneIfConverted(d, parent)
    BY <1>2 DEF MakesConsolidations
  <2>3. ASSUME NEW parent \in Positions(d) \cup {Gone}, ReparentElement(d, e, parent, w), PruneIfConverted(d, parent)
        PROVE  OverridesMove
    BY <2>1, <2>3, ReparentingKeeps
  <2>4. ASSUME NEW parent \in Positions(d), AddChildElement(d, parent, e, w), PruneIfConverted(d, parent)
        PROVE  OverridesMove
    BY <2>1, <2>4, AddingKeeps
  <2> QED BY <2>2, <2>3, <2>4
<1>3. CASE RetypesAnElement(d)
  <2>1. PICK e \in Positions(d), kind \in ElementKinds :
          /\ SetElementKind(d, e, kind)
          /\ LET was == dims[d].elements[e].kind
             IN IF (was = Leaf /\ kind # Leaf) \/ (was = Str /\ kind = Consolidated)
                THEN PruneSandboxes(d, e) ELSE UNCHANGED saved
    BY <1>3 DEF RetypesAnElement
  <2>2. DimsHold' /\ RetypedDim(d, e) /\ dims'[d].elements[e].kind = kind
    BY <2>1, RetypingKeeps
  <2>3. RetypesOnly(d, e)
    BY <2>2, RetypedOnly
  <2>4. PICK was : was = dims[d].elements[e].kind
    BY ONLY TRUE
  <2>5. CASE (was = Leaf /\ kind # Leaf) \/ (was = Str /\ kind = Consolidated)
    <3>1. PruneSandboxes(d, e) /\ kind # Leaf
      BY <2>1, <2>4, <2>5 DEF Consolidated, Leaf
    <3> QED BY <2>2, <2>3, <3>1, PrunedOverrides
  <2>6. CASE ~((was = Leaf /\ kind # Leaf) \/ (was = Str /\ kind = Consolidated))
    <3>1. UNCHANGED saved /\ (was # Leaf \/ kind = Leaf)
      BY <2>1, <2>4, <2>6
    <3> QED BY <2>2, <2>3, <2>4, <3>1, KeptOverrides
  <2> QED BY <2>5, <2>6
<1>4. CASE SparesSandboxes(d)
  <2>1. DimsHold' /\ Follows(dims', dims) /\ UNCHANGED saved
    BY <1>4, SparingKeeps DEF SparesSandboxes
  <2>2. PICK ds, ds2 : ds = dims /\ ds2 = dims' /\ DimsOK(ds) /\ DimsOK(ds2) /\ Follows(ds2, ds)
    BY <2>1 DEF DimsHold
  <2>3. NamesStay(ds2, ds) /\ NumberCells(ds) \subseteq NumberCells(ds2)
    BY ONLY <2>2, FollowingKinds
  <2> QED BY <2>1, <2>2, <2>3, SparedOverrides
<1> QED BY <1>1, <1>2, <1>3, <1>4

\* The texts by name, as the pool spells them.
TextsIn(ds, l, store, p) ==
  LET at == {CoordOf(l, k) : k \in DOMAIN store}
  IN [n \in {NamesIn(ds, c) : c \in at} |-> p[store[Key(l, CHOOSE c \in at : NamesIn(ds, c) = n)]]]
Spelled(map, p) == [c \in DOMAIN map |-> p[map[c]]]

LEMMA TextsNamed ==
  ASSUME NEW ds, DimsOK(ds), NEW l, NEW store, NEW p, NEW map, map = AtCoords(l, store),
         DOMAIN map \subseteq CoordsOf(ds), NEW m, m = TextsIn(ds, l, store, p)
  PROVE  IsNamed(m, ds, Spelled(map, p))
<1> DEFINE from(n) == CHOOSE c \in DOMAIN map : NamesIn(ds, c) = n
<1>1. DOMAIN map = {CoordOf(l, k) : k \in DOMAIN store} /\ \A c \in DOMAIN map : map[c] = store[Key(l, c)]
  BY DEF AtCoords
<1>2. m = [n \in {NamesIn(ds, c) : c \in DOMAIN map} |-> p[store[Key(l, from(n))]]]
  BY <1>1 DEF TextsIn
<1>3. ASSUME NEW c \in DOMAIN map PROVE from(NamesIn(ds, c)) = c
  <2>1. PICK n : n = NamesIn(ds, c)
    BY ONLY TRUE
  <2>2. from(n) \in DOMAIN map /\ NamesIn(ds, from(n)) = n
    BY <2>1
  <2> HIDE DEF from
  <2> QED BY <2>1, <2>2, NamesApart
<1>4. PICK spelled : spelled = Spelled(map, p)
  BY ONLY TRUE
<1>5. DOMAIN spelled = DOMAIN map /\ \A c \in DOMAIN map : spelled[c] = p[map[c]]
  BY <1>4 DEF Spelled
<1> HIDE DEF from
<1>6. IsNamed(m, ds, spelled)
  BY <1>1, <1>2, <1>3, <1>5 DEF IsNamed, IsMap
<1> QED BY <1>4, <1>6

LEMMA SpelledCarried ==
  ASSUME NEW map2, NEW ds2, NEW C2, NEW map, NEW ds, MapCarried(map2, ds2, C2, map, ds), NEW p
  PROVE  MapCarried(Spelled(map2, p), ds2, C2, Spelled(map, p), ds)
<1>1. PICK s, s2 : s = Spelled(map, p) /\ s2 = Spelled(map2, p)
  BY ONLY TRUE
<1>2. /\ DOMAIN s = DOMAIN map /\ \A c \in DOMAIN map : s[c] = p[map[c]]
      /\ DOMAIN s2 = DOMAIN map2 /\ \A c \in DOMAIN map2 : s2[c] = p[map2[c]]
  BY <1>1 DEF Spelled
<1>3. MapCarried(s2, ds2, C2, s, ds)
  BY <1>2 DEF MapCarried
<1> QED BY <1>1, <1>3

\* What is carried follows the names.
LEMMA NumbersFollow ==
  ASSUME NEW ds, NEW ds2, DimsOK(ds2), NEW sch, KindsNamed(sch, ds2),
         NEW map, \A c \in DOMAIN map : LeafCell(ds, c), NEW map2, MapCarried(map2, ds2, NumberCells(ds2), map, ds),
         NEW m, IsNamed(m, ds, map), NEW m2, IsNamed(m2, ds2, map2)
  PROVE  m2 = Restrict(m, {n \in DOMAIN m : Named!HoldsNumber(sch, n)})
<1>1. PICK S : S = {n \in DOMAIN m : \E c2 \in NumberCells(ds2) : n = NamesIn(ds2, c2)}
  BY ONLY TRUE
<1>2. m2 = Restrict(m, S)
  BY <1>1, KeptByName
<1>3. ASSUME NEW n \in DOMAIN m PROVE Named!HoldsNumber(sch, n) <=> \E c2 \in NumberCells(ds2) : n = NamesIn(ds2, c2)
  <2>1. PICK c \in DOMAIN map : n = NamesIn(ds, c)
    BY DEF IsNamed
  <2>2. IsTuple(n) /\ 1 .. Rank # {}
    BY <2>1 DEF NamesIn, LeafCell, IsTuple
  <2> QED BY <2>2, NumbersHeld
<1>4. S = {n \in DOMAIN m : Named!HoldsNumber(sch, n)}
  BY <1>1, <1>3
<1> QED BY <1>2, <1>4

LEMMA TextsFollow ==
  ASSUME NEW ds, NEW ds2, DimsOK(ds2), NEW sch, KindsNamed(sch, ds2),
         NEW map, NEW map2, MapCarried(map2, ds2, TextCells(ds2), map, ds),
         NEW m, IsNamed(m, ds, map), NEW m2, IsNamed(m2, ds2, map2)
  PROVE  m2 = Restrict(m, {n \in DOMAIN m : Named!HoldsText(sch, n)})
<1>1. PICK S : S = {n \in DOMAIN m : \E c2 \in TextCells(ds2) : n = NamesIn(ds2, c2)}
  BY ONLY TRUE
<1>2. m2 = Restrict(m, S)
  BY <1>1, KeptByName
<1>3. ASSUME NEW n \in DOMAIN m PROVE Named!HoldsText(sch, n) <=> \E c2 \in TextCells(ds2) : n = NamesIn(ds2, c2)
  <2>1. PICK c \in DOMAIN map : n = NamesIn(ds, c)
    BY DEF IsNamed
  <2>2. IsTuple(n)
    BY <2>1 DEF NamesIn, IsTuple
  <2> QED BY <2>2, TextsHeld
<1>4. S = {n \in DOMAIN m : Named!HoldsText(sch, n)}
  BY <1>1, <1>3
<1> QED BY <1>2, <1>4

\* A store by coordinates, carried as the store is.
LEMMA StoreByCoords ==
  ASSUME NEW ds, NEW ds2, DimsOK(ds2), NEW C, NEW C2, C2 \subseteq CoordsOf(ds2),
         NEW l, NEW store, StoredAt(store, l, C), Decodes(l, C),
         NEW l2, NEW after, Decodes(l2, C2), CellsCarried(after, l2, ds2, C2, store, l, ds, C),
         NEW map, map = AtCoords(l, store), NEW map2, map2 = AtCoords(l2, after)
  PROVE  MapCarried(map2, ds2, C2, map, ds) /\ DOMAIN map \subseteq C /\ DOMAIN map2 \subseteq C2
<1>1. StoredAt(after, l2, C2)
  BY CarriedStand
<1>2. IsAt(map, l, store, C) /\ IsAt(map2, l2, after, C2)
  BY <1>1, CoordsAt
<1>3. MapCarried(map2, ds2, C2, map, ds)
  BY ONLY <1>2, CarriedAt, DimsOK(ds2), C2 \subseteq CoordsOf(ds2), Decodes(l2, C2),
          CellsCarried(after, l2, ds2, C2, store, l, ds, C)
<1> QED BY <1>2, <1>3 DEF IsAt

\* What the model says by name, of its dimensions, stores and sandboxes.
SaidByName ==
  /\ NumbersByName = NamedMap(dims, AtCoords(layout, cells))
  /\ TextsByName = TextsIn(dims, layout, textCells, pool)
  /\ OverridesByName = [k \in SandboxKeys |-> NamedMap(dims, saved[k].cells)]

LEMMA SaysByName == SaidByName
<1>1. NumbersByName = NamedMap(dims, AtCoords(layout, cells))
  BY DEF NumbersByName, CellsByName, NamedMap, AtCoords, ByName, NameAt, NamesIn
<1>2. TextsByName = TextsIn(dims, layout, textCells, pool)
  BY DEF TextsByName, CellsByName, TextsIn, ByName, NameAt, NamesIn
<1>3. OverridesByName = [k \in SandboxKeys |-> NamedMap(dims, saved[k].cells)]
  BY DEF OverridesByName, NamedMap, ByName, NameAt, NamesIn
<1> QED BY <1>1, <1>2, <1>3 DEF SaidByName

LEMMA EditedNumbers ==
  ASSUME DimsHold, DimsHold', CellsStored, CellsMove
  PROVE  NumbersByName' = Restrict(NumbersByName, {n \in DOMAIN NumbersByName : Named!HoldsNumber(Schema', n)})
<1>1. SaidByName /\ SaidByName'
  BY SaysByName, PTL
<1>2. PICK ds, ds2, l, l2, nums, nums2, map, map2, sch :
        /\ ds = dims /\ ds2 = dims' /\ l = layout /\ l2 = layout' /\ nums = cells /\ nums2 = cells'
        /\ map = AtCoords(l, nums) /\ map2 = AtCoords(l2, nums2) /\ sch = Schema'
  BY ONLY TRUE
<1>3. /\ DimsOK(ds) /\ DimsOK(ds2) /\ l = LayoutOf(ds) /\ l2 = LayoutOf(ds2) /\ StoredAt(nums, l, NumberCells(ds))
      /\ CellsCarried(nums2, l2, ds2, NumberCells(ds2), nums, l, ds, NumberCells(ds))
  BY <1>2 DEF DimsHold, CellsStored, StoresOK, CellsMove, BothCarried
<1>4. Decodes(l, NumberCells(ds)) /\ Decodes(l2, NumberCells(ds2))
  BY <1>3, DecodesIn
<1>5. /\ MapCarried(map2, ds2, NumberCells(ds2), map, ds)
      /\ DOMAIN map \subseteq NumberCells(ds) /\ DOMAIN map2 \subseteq NumberCells(ds2)
  BY ONLY <1>2, <1>3, <1>4, StoreByCoords, CellsIn
<1>6. PICK m, m2 : m = NumbersByName /\ m2 = NumbersByName' /\ m = NamedMap(ds, map) /\ m2 = NamedMap(ds2, map2)
  BY <1>1, <1>2 DEF SaidByName
<1>7. IsNamed(m, ds, map) /\ IsNamed(m2, ds2, map2)
  BY <1>3, <1>5, <1>6, NamedIs, CellsIn
<1>8. KindsNamed(sch, ds2)
  BY <1>2, KindsAreNamed DEF Schema
<1>9. \A c \in DOMAIN map : LeafCell(ds, c)
  BY <1>5 DEF NumberCells
<1>10. m2 = Restrict(m, {n \in DOMAIN m : Named!HoldsNumber(sch, n)})
  BY ONLY <1>3, <1>5, <1>7, <1>8, <1>9, NumbersFollow
<1> QED BY <1>2, <1>6, <1>10

LEMMA EditedTexts ==
  ASSUME DimsHold, DimsHold', CellsStored, CellsMove, pool' = pool
  PROVE  TextsByName' = Restrict(TextsByName, {n \in DOMAIN TextsByName : Named!HoldsText(Schema', n)})
<1>1. SaidByName /\ SaidByName'
  BY SaysByName, PTL
<1>2. PICK ds, ds2, l, l2, texts, texts2, map, map2, sch, p :
        /\ ds = dims /\ ds2 = dims' /\ l = layout /\ l2 = layout' /\ texts = textCells /\ texts2 = textCells'
        /\ map = AtCoords(l, texts) /\ map2 = AtCoords(l2, texts2) /\ sch = Schema' /\ p = pool
  BY ONLY TRUE
<1>3. /\ DimsOK(ds) /\ DimsOK(ds2) /\ l = LayoutOf(ds) /\ l2 = LayoutOf(ds2) /\ StoredAt(texts, l, TextCells(ds))
      /\ CellsCarried(texts2, l2, ds2, TextCells(ds2), texts, l, ds, TextCells(ds))
  BY <1>2 DEF DimsHold, CellsStored, StoresOK, CellsMove, BothCarried
<1>4. Decodes(l, TextCells(ds)) /\ Decodes(l2, TextCells(ds2))
  BY <1>3, DecodesIn
<1>5. /\ MapCarried(map2, ds2, TextCells(ds2), map, ds)
      /\ DOMAIN map \subseteq TextCells(ds) /\ DOMAIN map2 \subseteq TextCells(ds2)
  BY ONLY <1>2, <1>3, <1>4, StoreByCoords, CellsIn
<1>6. PICK m, m2 : m = TextsByName /\ m2 = TextsByName' /\ m = TextsIn(ds, l, texts, p) /\ m2 = TextsIn(ds2, l2, texts2, p)
  BY <1>1, <1>2 DEF SaidByName
<1>7. IsNamed(m, ds, Spelled(map, p)) /\ IsNamed(m2, ds2, Spelled(map2, p))
  BY <1>2, <1>3, <1>5, <1>6, TextsNamed, CellsIn
<1>8. KindsNamed(sch, ds2)
  BY <1>2, KindsAreNamed DEF Schema
<1>9. MapCarried(Spelled(map2, p), ds2, TextCells(ds2), Spelled(map, p), ds)
  BY <1>5, SpelledCarried
<1>10. m2 = Restrict(m, {n \in DOMAIN m : Named!HoldsText(sch, n)})
  BY ONLY <1>3, <1>7, <1>8, <1>9, TextsFollow
<1> QED BY <1>2, <1>6, <1>10

LEMMA EditedOverrides ==
  ASSUME DimsHold, DimsHold', Sandboxed, Sandboxed', SandboxKeys' = SandboxKeys, OverridesMove
  PROVE  OverridesByName' = [k \in DOMAIN OverridesByName |->
           Restrict(OverridesByName[k], {n \in DOMAIN OverridesByName[k] : Named!HoldsNumber(Schema', n)})]
<1>1. SaidByName /\ SaidByName'
  BY SaysByName, PTL
<1>2. PICK ds, ds2, sch, keys, w, w2 :
        /\ ds = dims /\ ds2 = dims' /\ sch = Schema' /\ keys = SandboxKeys
        /\ w = OverridesByName /\ w2 = OverridesByName' /\ DimsOK(ds) /\ DimsOK(ds2)
  BY DEF DimsHold
<1>3. /\ w = [k \in keys |-> NamedMap(ds, saved[k].cells)]
      /\ w2 = [k \in keys |-> NamedMap(ds2, saved'[k].cells)]
  BY <1>1, <1>2 DEF SaidByName
<1>4. KindsNamed(sch, ds2)
  BY <1>2, KindsAreNamed DEF Schema
<1>5. ASSUME NEW k \in keys PROVE w2[k] = Restrict(w[k], {n \in DOMAIN w[k] : Named!HoldsNumber(sch, n)})
  <2>1. PICK map, map2, m, m2 : /\ map = saved[k].cells /\ map2 = saved'[k].cells /\ m = w[k] /\ m2 = w2[k]
                                /\ m = NamedMap(ds, map) /\ m2 = NamedMap(ds2, map2)
    BY <1>3, <1>5
  <2>2. MapCarried(map2, ds2, NumberCells(ds2), map, ds)
    BY <1>2, <1>5, <2>1 DEF OverridesMove
  <2>3. LeafCells(ds, map)
    BY <1>2, <1>5, <2>1 DEF Sandboxed, SavedOK, SandboxOK, SandboxKeys
  <2>4. LeafCells(ds2, map2)
    BY <1>2, <1>5, <2>1 DEF Sandboxed, SavedOK, SandboxOK, SandboxKeys
  <2>5. DOMAIN map \subseteq CoordsOf(ds) /\ DOMAIN map2 \subseteq CoordsOf(ds2) /\ \A c \in DOMAIN map : LeafCell(ds, c)
    <3>1. \A c \in DOMAIN map : LeafCell(ds, c)
      BY <2>3 DEF LeafCells
    <3>2. \A c \in DOMAIN map2 : LeafCell(ds2, c)
      BY <2>4 DEF LeafCells
    <3> QED BY <1>2, <3>1, <3>2, CellsAre, CellsIn
  <2>6. IsNamed(m, ds, map) /\ IsNamed(m2, ds2, map2)
    BY <1>2, <2>1, <2>5, NamedIs
  <2>7. m2 = Restrict(m, {n \in DOMAIN m : Named!HoldsNumber(sch, n)})
    BY ONLY <1>2, <1>4, <2>2, <2>5, <2>6, NumbersFollow
  <2> QED BY <2>1, <2>7
<1>6. DOMAIN w = keys /\ w2 = [k \in keys |-> w2[k]]
  BY <1>3
<1>7. w2 = [k \in keys |-> Restrict(w[k], {n \in DOMAIN w[k] : Named!HoldsNumber(sch, n)})]
  BY ONLY <1>5, <1>6
<1> QED BY <1>2, <1>6, <1>7

(* An edit of the schema, by any user, in whatever order they come, keeps    *)
(* every cell with its names: the numbers and the texts of the cube, and     *)
(* each override of each sandbox, are after it those whose names still name  *)
(* a cell of their kind, with the values they had, though positions moved,   *)
(* keys were repacked and kinds changed (cube.rs:586-660,                    *)
(* query.rs:1567-1615).                                                      *)
THEOREM CellsFollowTheirNames == ModelSpec => [][SchemaEdit => Named!CellsFollow]_modelVars
<1>1. ASSUME ModelInv, ModelInv', CellsHold, SchemaEdit PROVE Named!CellsFollow
  <2>1. PICK d \in workload.edited :
          MovesPositions(d) \/ MakesConsolidations(d) \/ RetypesAnElement(d) \/ SparesSandboxes(d)
    BY <1>1 DEF SchemaEdit
  <2>2. d \in 1 .. Rank /\ DimsHold /\ DimsHold' /\ CellsStored /\ Sandboxed /\ Sandboxed'
    BY <1>1, <2>1, AskedAre DEF ModelInv, CellsHold
  <2>3. CellsMove /\ pool' = pool
    BY ONLY <2>1, <2>2, EditsMoveCells
  <2>4. OverridesMove
    BY ONLY <2>1, <2>2, EditsMoveOverrides
  <2>5. SandboxesFollow
    BY <2>1, <2>2, MovingFollows, ConsolidatingFollows, RetypingFollows, SparingFollows
  <2>6. SandboxKeys' = SandboxKeys
    BY <2>5 DEF SandboxesFollow, SandboxesKeep, SandboxKeys
  <2>7. /\ NumbersByName' = Restrict(NumbersByName, {n \in DOMAIN NumbersByName : Named!HoldsNumber(Schema', n)})
        /\ TextsByName' = Restrict(TextsByName, {n \in DOMAIN TextsByName : Named!HoldsText(Schema', n)})
    BY <2>2, <2>3, EditedNumbers, EditedTexts
  <2>8. OverridesByName' = [k \in DOMAIN OverridesByName |->
          Restrict(OverridesByName[k], {n \in DOMAIN OverridesByName[k] : Named!HoldsNumber(Schema', n)})]
    BY <2>2, <2>4, <2>6, EditedOverrides
  <2> QED BY <2>7, <2>8 DEF Named!CellsFollow, Named!Restrict, Restrict
<1> QED BY <1>1, ModelInvariance, CellsInvariance, PTL

-----------------------------------------------------------------------------
(* Writes and sandboxes by name.                                             *)
\* Maps that differ at c alone.
OneApart(map2, map, c) ==
  \A x : x # c => /\ x \in DOMAIN map2 <=> x \in DOMAIN map
                  /\ x \in DOMAIN map => map2[x] = map[x]

LEMMA OneNameApart ==
  ASSUME NEW ds, DimsOK(ds), NEW map, DOMAIN map \subseteq CoordsOf(ds), NEW map2, DOMAIN map2 \subseteq CoordsOf(ds),
         NEW c \in CoordsOf(ds), OneApart(map2, map, c), NEW m, IsNamed(m, ds, map), NEW m2, IsNamed(m2, ds, map2)
  PROVE  /\ OneApart(m2, m, NamesIn(ds, c))
         /\ NamesIn(ds, c) \in DOMAIN m <=> c \in DOMAIN map
         /\ NamesIn(ds, c) \in DOMAIN m2 <=> c \in DOMAIN map2
<1>1. PICK n : n = NamesIn(ds, c)
  BY ONLY TRUE
<1>2. ASSUME NEW x \in DOMAIN m, x # n PROVE x \in DOMAIN m2 /\ m2[x] = m[x]
  <2>1. PICK y \in DOMAIN map : x = NamesIn(ds, y)
    BY DEF IsNamed
  <2>2. y \in DOMAIN map2 /\ map2[y] = map[y]
    BY <1>1, <1>2, <2>1 DEF OneApart
  <2> QED BY <2>1, <2>2 DEF IsNamed
<1>3. ASSUME NEW x \in DOMAIN m2, x # n PROVE x \in DOMAIN m
  <2>1. PICK y \in DOMAIN map2 : x = NamesIn(ds, y)
    BY DEF IsNamed
  <2>2. y \in DOMAIN map
    BY <1>1, <1>3, <2>1 DEF OneApart
  <2> QED BY <2>1, <2>2 DEF IsNamed
<1>4. n \in DOMAIN m <=> c \in DOMAIN map
  BY <1>1, NamesApart DEF IsNamed
<1>5. n \in DOMAIN m2 <=> c \in DOMAIN map2
  BY <1>1, NamesApart DEF IsNamed
<1> QED BY <1>1, <1>2, <1>3, <1>4, <1>5 DEF OneApart

\* What that says of the maps.
LEMMA ApartMaps ==
  ASSUME NEW m, IsMap(m), NEW m2, IsMap(m2), NEW n, OneApart(m2, m, n)
  PROVE  /\ Restrict(m2, DOMAIN m2 \ {n}) = Restrict(m, DOMAIN m \ {n})
         /\ n \notin DOMAIN m /\ n \notin DOMAIN m2 => m2 = m
         /\ n \in DOMAIN m2 => m2 = Bind(m, n, m2[n])
<1>1. m = [x \in DOMAIN m |-> m[x]] /\ m2 = [x \in DOMAIN m2 |-> m2[x]]
  BY DEF IsMap
<1>2. DOMAIN m2 \ {n} = DOMAIN m \ {n} /\ \A x \in DOMAIN m \ {n} : m2[x] = m[x]
  BY DEF OneApart
<1>3. PICK S : S = DOMAIN m \ {n} /\ S = DOMAIN m2 \ {n} /\ \A x \in S : m2[x] = m[x]
  BY <1>2
<1>4. [x \in S |-> m2[x]] = [x \in S |-> m[x]]
  BY <1>3
<1>5. n \notin DOMAIN m /\ n \notin DOMAIN m2 => DOMAIN m = S /\ DOMAIN m2 = S
  BY <1>3
<1>6. ASSUME n \in DOMAIN m2 PROVE m2 = Bind(m, n, m2[n])
  <2>1. PICK b : b = Bind(m, n, m2[n])
    BY ONLY TRUE
  <2>2. b = [x \in DOMAIN m \cup {n} |-> IF x = n THEN m2[n] ELSE m[x]]
    BY <2>1 DEF Bind
  <2>3. b = [x \in DOMAIN b |-> b[x]] /\ DOMAIN b = DOMAIN m2
    BY <1>3, <1>6, <2>2
  <2>4. \A x \in DOMAIN b : b[x] = m2[x]
    BY <1>3, <2>2
  <2> QED BY ONLY <1>1, <2>1, <2>3, <2>4
<1> QED BY ONLY <1>1, <1>3, <1>4, <1>5, <1>6 DEF Restrict

LEMMA NamedOnce ==
  ASSUME NEW ds, NEW map, NEW map2, DOMAIN map2 = DOMAIN map, \A c \in DOMAIN map : map2[c] = map[c],
         NEW m, IsNamed(m, ds, map), NEW m2, IsNamed(m2, ds, map2)
  PROVE  m2 = m
<1>1. DOMAIN m2 = DOMAIN m /\ \A n \in DOMAIN m : m2[n] = m[n]
  BY DEF IsNamed
<1>2. m = [x \in DOMAIN m |-> m[x]] /\ m2 = [x \in DOMAIN m2 |-> m2[x]]
  BY DEF IsNamed, IsMap
<1> QED BY ONLY <1>1, <1>2

\* One cell written, or cleared.
LEMMA OneWritten ==
  ASSUME NEW l, NEW C, Decodes(l, C), NEW c \in C, NEW store, NEW v, NEW after,
         after = Put(store, l, c, v) \/ after = Restrict(store, DOMAIN store \ {Key(l, c)}),
         NEW map, IsAt(map, l, store, C), NEW map2, IsAt(map2, l, after, C)
  PROVE  OneApart(map2, map, c) /\ (c \in DOMAIN map2 => after = Put(store, l, c, v) /\ map2[c] = v)
<1>1. PICK k : k = Key(l, c)
  BY ONLY TRUE
<1>2. /\ OneApart(after, store, k)
      /\ k \in DOMAIN after => after = Put(store, l, c, v) /\ after[k] = v
  <2>1. CASE after = Put(store, l, c, v)
    <3>1. after = [x \in DOMAIN store \cup {k} |-> IF x = k THEN v ELSE store[x]]
      BY <1>1, <2>1 DEF Put, Bind
    <3>2. /\ DOMAIN after = DOMAIN store \cup {k}
          /\ after[k] = v /\ \A x \in DOMAIN store : x # k => after[x] = store[x]
      BY ONLY <3>1
    <3> QED BY <2>1, <3>2 DEF OneApart
  <2>2. CASE after = Restrict(store, DOMAIN store \ {k})
    <3>1. DOMAIN after = DOMAIN store \ {k} /\ \A x \in DOMAIN after : after[x] = store[x]
      BY <2>2 DEF Restrict
    <3> QED BY <3>1 DEF OneApart
  <2> QED BY <1>1, <2>1, <2>2
<1>3. \A x \in C : x # c => Key(l, x) # k
  BY <1>1 DEF Decodes
<1>4. ASSUME NEW x, x # c PROVE (x \in DOMAIN map2 <=> x \in DOMAIN map) /\ (x \in DOMAIN map => map2[x] = map[x])
  <2>1. CASE x \notin C
    BY <2>1 DEF IsAt
  <2>2. CASE x \in C
    <3>1. Key(l, x) \in DOMAIN after <=> Key(l, x) \in DOMAIN store
      BY <1>2, <1>3, <1>4, <2>2 DEF OneApart
    <3>2. Key(l, x) \in DOMAIN store => after[Key(l, x)] = store[Key(l, x)]
      BY <1>2, <1>3, <1>4, <2>2 DEF OneApart
    <3> QED BY <2>2, <3>1, <3>2 DEF IsAt
  <2> QED BY <2>1, <2>2
<1>5. c \in DOMAIN map2 => after = Put(store, l, c, v) /\ map2[c] = v
  BY <1>1, <1>2 DEF IsAt
<1> QED BY <1>4, <1>5 DEF OneApart

\* What stays, by name, where the dimensions and the sandboxes do.
LEMMA SameByName ==
  /\ UNCHANGED dims => UNCHANGED Schema
  /\ UNCHANGED <<dims, saved>> => UNCHANGED OverridesByName
  /\ UNCHANGED <<dims, layout, cells>> => UNCHANGED NumbersByName
  /\ UNCHANGED <<dims, layout, textCells, pool>> => UNCHANGED TextsByName
<1>1. SaidByName /\ SaidByName'
  BY SaysByName, PTL
<1>2. UNCHANGED dims => UNCHANGED Schema
  BY DEF Schema
<1>3. UNCHANGED <<dims, saved>> => UNCHANGED OverridesByName
  BY <1>1 DEF SaidByName, SandboxKeys
<1>4. UNCHANGED <<dims, layout, cells>> => UNCHANGED NumbersByName
  BY <1>1 DEF SaidByName
<1>5. UNCHANGED <<dims, layout, textCells, pool>> => UNCHANGED TextsByName
  BY <1>1 DEF SaidByName
<1> QED BY <1>2, <1>3, <1>4, <1>5

\* A step that only the numbers, or only the texts, can tell.
NumberStep ==
  \/ UNCHANGED NumbersByName
  \/ \E n \in DOMAIN NumbersByName \cup DOMAIN NumbersByName' :
       /\ Named!HoldsNumber(Schema, n)
       /\ Restrict(NumbersByName', DOMAIN NumbersByName' \ {n}) = Restrict(NumbersByName, DOMAIN NumbersByName \ {n})
TextStep ==
  \/ UNCHANGED TextsByName
  \/ \E n \in DOMAIN TextsByName \cup DOMAIN TextsByName' :
       /\ Named!HoldsText(Schema, n)
       /\ Restrict(TextsByName', DOMAIN TextsByName' \ {n}) = Restrict(TextsByName, DOMAIN TextsByName \ {n})

LEMMA NumberWrittenByName ==
  ASSUME DimsOK(dims), CellsHold, CellsHold', NEW c \in Coords, NEW v, SetLeaf(c, v)
  PROVE  NumberStep
<1>1. SaidByName /\ SaidByName'
  BY SaysByName, PTL
<1>2. TakesNumber(c) /\ UNCHANGED <<dims, layout, textCells, pool>>
  BY DEF SetLeaf
<1>3. PICK ds, l, nums, nums2, map, map2, sch :
        /\ ds = dims /\ l = layout /\ nums = cells /\ nums2 = cells' /\ sch = Schema
        /\ map = AtCoords(l, nums) /\ map2 = AtCoords(l, nums2) /\ DimsOK(ds)
  OBVIOUS
<1>4. c \in NumberCells(ds) /\ c \in CoordsOf(ds) /\ LeafCell(ds, c)
  BY <1>2, <1>3, LeafCellsAre, CellsAre, CellsIn
<1>5. StoredAt(nums, l, NumberCells(ds)) /\ StoredAt(nums2, l, NumberCells(ds)) /\ l = LayoutOf(ds)
  BY <1>2, <1>3 DEF CellsHold, CellsStored, StoresOK
<1>6. Decodes(l, NumberCells(ds))
  BY <1>3, <1>5, DecodesIn
<1>7. IsAt(map, l, nums, NumberCells(ds)) /\ IsAt(map2, l, nums2, NumberCells(ds))
  BY <1>3, <1>5, <1>6, CoordsAt
<1>8. nums2 = Put(nums, l, c, v) \/ nums2 = Restrict(nums, DOMAIN nums \ {Key(l, c)})
  BY <1>3 DEF SetLeaf, Cleared
<1>9. OneApart(map2, map, c)
  BY ONLY <1>4, <1>6, <1>7, <1>8, OneWritten
<1>10. DOMAIN map \subseteq CoordsOf(ds) /\ DOMAIN map2 \subseteq CoordsOf(ds)
  BY <1>7, CellsIn DEF IsAt
<1>11. PICK m, m2, n : m = NumbersByName /\ m2 = NumbersByName' /\ n = NamesIn(ds, c) /\ m = NamedMap(ds, map) /\ m2 = NamedMap(ds, map2)
  BY <1>1, <1>2, <1>3 DEF SaidByName
<1>12. IsNamed(m, ds, map) /\ IsNamed(m2, ds, map2)
  BY <1>3, <1>10, <1>11, NamedIs
<1>13. OneApart(m2, m, n)
  BY <1>3, <1>4, <1>9, <1>10, <1>11, <1>12, OneNameApart
<1>14. Named!HoldsNumber(sch, n)
  <2>1. KindsNamed(sch, ds)
    BY <1>3, KindsAreNamed DEF Schema
  <2>2. IsTuple(n) /\ 1 .. Rank # {}
    BY <1>4, <1>11 DEF NamesIn, IsTuple, LeafCell
  <2> QED BY <1>3, <1>4, <1>11, <2>1, <2>2, NumbersHeld
<1>15. /\ Restrict(m2, DOMAIN m2 \ {n}) = Restrict(m, DOMAIN m \ {n})
       /\ n \notin DOMAIN m /\ n \notin DOMAIN m2 => m2 = m
  BY <1>12, <1>13, ApartMaps DEF IsNamed
<1>16. m2 = m \/ \E x \in DOMAIN m \cup DOMAIN m2 :
         Named!HoldsNumber(sch, x) /\ Restrict(m2, DOMAIN m2 \ {x}) = Restrict(m, DOMAIN m \ {x})
  BY <1>14, <1>15
<1> QED BY <1>3, <1>11, <1>16 DEF NumberStep

\* The texts where the pool grows, or where it is compacted.
LEMMA SpelledApart ==
  ASSUME NEW map, NEW map2, NEW c, OneApart(map2, map, c), NEW p, NEW p2, \A i \in DOMAIN p : p2[i] = p[i],
         \A x \in DOMAIN map : map[x] \in DOMAIN p
  PROVE  OneApart(Spelled(map2, p2), Spelled(map, p), c)
BY DEF OneApart, Spelled

LEMMA TextWrittenByName ==
  ASSUME DimsOK(dims), PoolOK, CellsHold, CellsHold', NEW c \in Coords, NEW t, SetString(c, t)
  PROVE  TextStep
<1>1. SaidByName /\ SaidByName'
  BY SaysByName, PTL
<1>2. TakesText(c) /\ UNCHANGED <<dims, layout, cells>>
  BY DEF SetString
<1>3. PICK ds, l, texts, texts2, map, map2, sch, p, p2 :
        /\ ds = dims /\ l = layout /\ texts = textCells /\ texts2 = textCells' /\ sch = Schema /\ p = pool /\ p2 = pool'
        /\ map = AtCoords(l, texts) /\ map2 = AtCoords(l, texts2) /\ DimsOK(ds)
  OBVIOUS
<1>4. c \in TextCells(ds) /\ c \in CoordsOf(ds)
  BY <1>2, <1>3, TextCellsAre, CellsAre, CellsIn
<1>5. /\ StoredAt(texts, l, TextCells(ds)) /\ StoredAt(texts2, l, TextCells(ds)) /\ l = LayoutOf(ds)
      /\ Range(texts) \subseteq DOMAIN p
  BY <1>2, <1>3 DEF CellsHold, CellsStored, StoresOK
<1>6. Decodes(l, TextCells(ds))
  BY <1>3, <1>5, DecodesIn
<1>7. IsAt(map, l, texts, TextCells(ds)) /\ IsAt(map2, l, texts2, TextCells(ds))
  BY <1>3, <1>5, <1>6, CoordsAt
<1>8. PICK id : texts2 = Put(texts, l, c, id) \/ texts2 = Restrict(texts, DOMAIN texts \ {Key(l, c)})
  BY <1>3 DEF SetString, Cleared
<1>9. OneApart(map2, map, c)
  BY ONLY <1>4, <1>6, <1>7, <1>8, OneWritten
<1>10. \A i \in DOMAIN p : p2[i] = p[i]
  <2>1. p2 = p \/ p2 = Append(p, t)
    BY <1>3 DEF SetString
  <2>2. ASequence(p)
    BY <1>3 DEF PoolOK
  <2> QED BY ONLY <2>1, <2>2, AppendIs, SeqIs
<1>11. \A x \in DOMAIN map : map[x] \in DOMAIN p
  BY <1>5, <1>7 DEF IsAt, Range
<1>12. PICK s, s2 : s = Spelled(map, p) /\ s2 = Spelled(map2, p2)
  BY ONLY TRUE
<1>13. OneApart(s2, s, c)
  BY ONLY <1>9, <1>10, <1>11, <1>12, SpelledApart
<1>14. /\ DOMAIN map \subseteq CoordsOf(ds) /\ DOMAIN map2 \subseteq CoordsOf(ds)
       /\ DOMAIN s \subseteq CoordsOf(ds) /\ DOMAIN s2 \subseteq CoordsOf(ds)
  BY <1>7, <1>12, CellsIn DEF IsAt, Spelled
<1>15. PICK m, m2, n : m = TextsByName /\ m2 = TextsByName' /\ n = NamesIn(ds, c) /\ m = TextsIn(ds, l, texts, p) /\ m2 = TextsIn(ds, l, texts2, p2)
  BY <1>1, <1>2, <1>3 DEF SaidByName
<1>16. IsNamed(m, ds, s) /\ IsNamed(m2, ds, s2)
  BY <1>3, <1>12, <1>14, <1>15, TextsNamed
<1>17. OneApart(m2, m, n)
  BY <1>3, <1>4, <1>13, <1>14, <1>15, <1>16, OneNameApart
<1>18. Named!HoldsText(sch, n)
  <2>1. KindsNamed(sch, ds)
    BY <1>3, KindsAreNamed DEF Schema
  <2>2. IsTuple(n)
    BY <1>15 DEF NamesIn, IsTuple
  <2> QED BY <1>3, <1>4, <1>15, <2>1, <2>2, TextsHeld
<1>19. /\ Restrict(m2, DOMAIN m2 \ {n}) = Restrict(m, DOMAIN m \ {n})
       /\ n \notin DOMAIN m /\ n \notin DOMAIN m2 => m2 = m
  <2>1. IsMap(m) /\ IsMap(m2)
    BY <1>16 DEF IsNamed
  <2> QED BY ONLY <1>17, <2>1, ApartMaps
<1>20. m2 = m \/ \E x \in DOMAIN m \cup DOMAIN m2 :
         Named!HoldsText(sch, x) /\ Restrict(m2, DOMAIN m2 \ {x}) = Restrict(m, DOMAIN m \ {x})
  BY <1>18, <1>19
<1> QED BY <1>3, <1>15, <1>20 DEF TextStep

\* The pool compacted: every cell keeps its text.
LEMMA TextsCompacted ==
  ASSUME DimsOK(dims), PoolOK, CellsHold, CompactStringPool
  PROVE  \A k \in DOMAIN textCells : pool'[textCells'[k]] = pool[textCells[k]]
<1>1. PICK p, ids, live : p = pool /\ ids = [id \in DOMAIN pool |-> id] /\ live = Range(textCells)
  BY ONLY TRUE
<1>2. PICK kept : kept = Those(ids, live)
  BY ONLY TRUE
<1>3. /\ pool' = [new \in DOMAIN kept |-> pool[kept[new]]]
      /\ textCells' = [k \in DOMAIN textCells |-> CHOOSE new \in DOMAIN kept : kept[new] = textCells[k]]
  BY <1>1, <1>2 DEF CompactStringPool
<1>4. PICK n \in Nat : DOMAIN p = 1 .. n
  BY <1>1, SeqIs DEF PoolOK
<1>5. ids = [i \in 1 .. n |-> ids[i]] /\ \A i \in 1 .. n : ids[i] = i
  BY <1>1, <1>4
<1>6. ASequence(ids) /\ Len(ids) = n
  BY ONLY <1>4, <1>5, ListIsSeq
<1>7. PICK m, pos : m \in Nat /\ Picks(pos, m, ids, live, n) /\ kept = [i \in 1 .. m |-> ids[pos[i]]]
  BY ONLY <1>2, <1>6, ThoseArePicked
<1>8. \A id \in live : \E i \in DOMAIN kept : kept[i] = id
  <2>1. live \subseteq 1 .. n
    BY <1>1, <1>4 DEF CellsHold
  <2> QED BY <1>5, <1>7, <2>1 DEF Picks
<1>9. ASSUME NEW k \in DOMAIN textCells PROVE pool'[textCells'[k]] = pool[textCells[k]]
  <2>1. PICK id, new : id = textCells[k] /\ new = CHOOSE i \in DOMAIN kept : kept[i] = id
    BY ONLY TRUE
  <2>2. textCells'[k] = new
    BY <1>3, <1>9, <2>1
  <2>3. new \in DOMAIN kept /\ kept[new] = id
    BY <1>1, <1>8, <1>9, <2>1 DEF Range
  <2> QED BY <1>3, <2>1, <2>2, <2>3
<1> QED BY <1>9

LEMMA CompactedByName ==
  ASSUME DimsOK(dims), PoolOK, CellsHold, CellsHold', CompactStringPool
  PROVE  UNCHANGED TextsByName
<1>1. SaidByName /\ SaidByName'
  BY SaysByName, PTL
<1>2. UNCHANGED <<dims, layout>> /\ DOMAIN textCells' = DOMAIN textCells
  BY DEF CompactStringPool
<1>3. PICK ds, l, texts, texts2, map, map2, p, p2 :
        /\ ds = dims /\ l = layout /\ texts = textCells /\ texts2 = textCells' /\ p = pool /\ p2 = pool'
        /\ map = AtCoords(l, texts) /\ map2 = AtCoords(l, texts2) /\ DimsOK(ds)
  OBVIOUS
<1>4. DOMAIN texts2 = DOMAIN texts /\ \A k \in DOMAIN texts : p2[texts2[k]] = p[texts[k]]
  BY <1>2, <1>3, TextsCompacted
<1>5. StoredAt(texts, l, TextCells(ds)) /\ StoredAt(texts2, l, TextCells(ds)) /\ l = LayoutOf(ds)
  BY <1>2, <1>3 DEF CellsHold, CellsStored, StoresOK
<1>6. Decodes(l, TextCells(ds))
  BY <1>3, <1>5, DecodesIn
<1>7. IsAt(map, l, texts, TextCells(ds)) /\ IsAt(map2, l, texts2, TextCells(ds))
  BY <1>3, <1>5, <1>6, CoordsAt
<1>8. PICK s, s2 : s = Spelled(map, p) /\ s2 = Spelled(map2, p2)
  BY ONLY TRUE
<1>9. DOMAIN s2 = DOMAIN s /\ \A c \in DOMAIN s : s2[c] = s[c]
  BY <1>4, <1>7, <1>8 DEF Spelled, IsAt
<1>10. DOMAIN map \subseteq CoordsOf(ds) /\ DOMAIN map2 \subseteq CoordsOf(ds)
  BY <1>7, CellsIn DEF IsAt
<1>11. PICK m, m2 : m = TextsByName /\ m2 = TextsByName' /\ m = TextsIn(ds, l, texts, p) /\ m2 = TextsIn(ds, l, texts2, p2)
  BY <1>1, <1>2, <1>3 DEF SaidByName
<1>12. IsNamed(m, ds, s) /\ IsNamed(m2, ds, s2)
  BY <1>3, <1>8, <1>10, <1>11, TextsNamed
<1>13. m2 = m
  BY ONLY <1>9, <1>12, NamedOnce
<1> QED BY <1>11, <1>13

\* A sandbox committed: its values over those of the cube, and no zero.
Merges(m2, s, m) ==
  /\ \A x \in DOMAIN s : (x \in DOMAIN m2 <=> s[x] # 0) /\ (x \in DOMAIN m2 => m2[x] = s[x])
  /\ \A x : x \notin DOMAIN s => /\ x \in DOMAIN m2 <=> x \in DOMAIN m /\ m[x] # 0
                                 /\ x \in DOMAIN m2 => m2[x] = m[x]

LEMMA MergesIs ==
  ASSUME NEW m2, IsMap(m2), NEW s, NEW m, Merges(m2, s, m), NEW over, over = Named!Over(s, m)
  PROVE  m2 = Restrict(over, {c \in DOMAIN over : over[c] # 0})
<1>1. over = [c \in DOMAIN s \cup DOMAIN m |-> IF c \in DOMAIN s THEN s[c] ELSE m[c]]
  BY DEF Named!Over
<1>2. PICK S : S = {c \in DOMAIN over : over[c] # 0}
  BY ONLY TRUE
<1>3. \A c : c \in S <=> c \in DOMAIN m2
  BY <1>1, <1>2 DEF Merges
<1>4. \A c \in DOMAIN m2 : m2[c] = over[c]
  BY <1>1 DEF Merges
<1>5. S = DOMAIN m2 /\ m2 = [c \in DOMAIN m2 |-> m2[c]]
  BY <1>3 DEF IsMap
<1>6. m2 = [c \in S |-> over[c]]
  BY ONLY <1>4, <1>5
<1> QED BY <1>2, <1>6 DEF Restrict

LEMMA MergedNames ==
  ASSUME NEW ds, DimsOK(ds), NEW map, NEW map2, NEW box, Merges(map2, box, map),
         DOMAIN map \subseteq CoordsOf(ds), DOMAIN map2 \subseteq CoordsOf(ds), DOMAIN box \subseteq CoordsOf(ds),
         NEW m, IsNamed(m, ds, map), NEW m2, IsNamed(m2, ds, map2), NEW s, IsNamed(s, ds, box)
  PROVE  Merges(m2, s, m)
<1>1. ASSUME NEW x \in DOMAIN s PROVE (x \in DOMAIN m2 <=> s[x] # 0) /\ (x \in DOMAIN m2 => m2[x] = s[x])
  <2>1. PICK c \in DOMAIN box : x = NamesIn(ds, c) /\ s[x] = box[c]
    BY DEF IsNamed
  <2>2. x \in DOMAIN m2 <=> c \in DOMAIN map2
    BY <2>1, NamesApart DEF IsNamed
  <2>3. c \in DOMAIN map2 => m2[x] = map2[c]
    BY <2>1 DEF IsNamed
  <2> QED BY <2>1, <2>2, <2>3 DEF Merges
<1>2. ASSUME NEW x, x \notin DOMAIN s
      PROVE  (x \in DOMAIN m2 <=> x \in DOMAIN m /\ m[x] # 0) /\ (x \in DOMAIN m2 => m2[x] = m[x])
  <2>1. ASSUME x \in DOMAIN m2 PROVE x \in DOMAIN m /\ m[x] # 0 /\ m2[x] = m[x]
    <3>1. PICK c \in DOMAIN map2 : x = NamesIn(ds, c) /\ m2[x] = map2[c]
      BY <2>1 DEF IsNamed
    <3>2. c \notin DOMAIN box
      BY <1>2, <3>1 DEF IsNamed
    <3>3. c \in DOMAIN map /\ map[c] # 0 /\ map2[c] = map[c]
      BY <3>2 DEF Merges
    <3> QED BY <3>1, <3>3 DEF IsNamed
  <2>2. ASSUME x \in DOMAIN m, m[x] # 0 PROVE x \in DOMAIN m2
    <3>1. PICK c \in DOMAIN map : x = NamesIn(ds, c) /\ m[x] = map[c]
      BY <2>2 DEF IsNamed
    <3>2. c \notin DOMAIN box
      BY <1>2, <3>1 DEF IsNamed
    <3>3. c \in DOMAIN map2
      BY <2>2, <3>1, <3>2 DEF Merges
    <3> QED BY <3>1, <3>3 DEF IsNamed
  <2> QED BY <2>1, <2>2
<1> QED BY <1>1, <1>2 DEF Merges

CommittedOver(after, l, box, store) ==
  LET at == [k \in {Key(l, c) : c \in DOMAIN box} |-> box[CoordOf(l, k)]]
      merged == [k \in DOMAIN at \cup DOMAIN store |-> IF k \in DOMAIN at THEN at[k] ELSE store[k]]
  IN after = Restrict(merged, {k \in DOMAIN merged : merged[k] # 0})

LEMMA MergedStores ==
  ASSUME NEW l, NEW C, Decodes(l, C), NEW box, DOMAIN box \subseteq C, NEW store, NEW after, CommittedOver(after, l, box, store),
         NEW map, IsAt(map, l, store, C), NEW map2, IsAt(map2, l, after, C)
  PROVE  Merges(map2, box, map)
<1>1. PICK at : at = [k \in {Key(l, c) : c \in DOMAIN box} |-> box[CoordOf(l, k)]]
  BY ONLY TRUE
<1>2. PICK merged : merged = [k \in DOMAIN at \cup DOMAIN store |-> IF k \in DOMAIN at THEN at[k] ELSE store[k]]
  BY ONLY TRUE
<1>3. after = Restrict(merged, {k \in DOMAIN merged : merged[k] # 0})
  BY <1>1, <1>2 DEF CommittedOver
<1>4. \A c \in C : Key(l, c) \in DOMAIN at <=> c \in DOMAIN box
  BY <1>1 DEF Decodes
<1>5. \A c \in DOMAIN box : at[Key(l, c)] = box[c]
  BY <1>4, <1>1 DEF Decodes
<1>6. /\ \A k \in DOMAIN after : k \in DOMAIN merged /\ after[k] = merged[k] /\ merged[k] # 0
      /\ \A k \in DOMAIN merged : merged[k] # 0 => k \in DOMAIN after
  BY <1>3 DEF Restrict
<1>7. ASSUME NEW c \in C
      PROVE  \E k : /\ k = Key(l, c) /\ (c \in DOMAIN map2 <=> k \in DOMAIN after) /\ (c \in DOMAIN map <=> k \in DOMAIN store)
                    /\ (c \in DOMAIN map2 => map2[c] = after[k]) /\ (c \in DOMAIN map => map[c] = store[k])
  BY DEF IsAt
<1>8. ASSUME NEW c \in DOMAIN box PROVE (c \in DOMAIN map2 <=> box[c] # 0) /\ (c \in DOMAIN map2 => map2[c] = box[c])
  <2>1. PICK k : k = Key(l, c) /\ (c \in DOMAIN map2 <=> k \in DOMAIN after) /\ (c \in DOMAIN map2 => map2[c] = after[k])
    BY <1>7
  <2>2. k \in DOMAIN merged /\ merged[k] = box[c]
    BY <1>4, <1>5, <1>2, <2>1
  <2> QED BY ONLY <1>6, <2>1, <2>2
<1>9. ASSUME NEW c, c \notin DOMAIN box
      PROVE  (c \in DOMAIN map2 <=> c \in DOMAIN map /\ map[c] # 0) /\ (c \in DOMAIN map2 => map2[c] = map[c])
  <2>1. CASE c \notin C
    BY <2>1 DEF IsAt
  <2>2. CASE c \in C
    <3>1. PICK k : /\ k = Key(l, c) /\ (c \in DOMAIN map2 <=> k \in DOMAIN after) /\ (c \in DOMAIN map <=> k \in DOMAIN store)
                   /\ (c \in DOMAIN map2 => map2[c] = after[k]) /\ (c \in DOMAIN map => map[c] = store[k])
      BY <1>7, <2>2
    <3>2. (k \in DOMAIN merged <=> k \in DOMAIN store) /\ (k \in DOMAIN store => merged[k] = store[k])
      BY <1>4, <1>9, <1>2, <2>2, <3>1
    <3> QED BY ONLY <1>6, <3>1, <3>2
  <2> QED BY <2>1, <2>2
<1> QED BY <1>8, <1>9 DEF Merges

\* The sandboxes of objs, by name.
AreWhatIfs(w, ds, objs) ==
  /\ IsMap(w) /\ \A k : k \in DOMAIN w <=> k \in DOMAIN objs /\ k[1] = "sandbox"
  /\ \A k \in DOMAIN w : w[k] = NamedMap(ds, objs[k].cells)

LEMMA SandboxNamed ==
  ASSUME NEW ds, DimsOK(ds), NEW objs, SavedOK(ds, objs), NEW w, AreWhatIfs(w, ds, objs), NEW k \in DOMAIN w
  PROVE  IsNamed(w[k], ds, objs[k].cells) /\ DOMAIN objs[k].cells \subseteq CoordsOf(ds)
<1>1. PICK map, m : map = objs[k].cells /\ m = w[k] /\ m = NamedMap(ds, map)
  BY DEF AreWhatIfs
<1>2. LeafCells(ds, map)
  BY <1>1 DEF AreWhatIfs, SavedOK, SandboxOK
<1>3. DOMAIN map \subseteq CoordsOf(ds)
  <2>1. \A c \in DOMAIN map : LeafCell(ds, c)
    BY <1>2 DEF LeafCells
  <2> QED BY <2>1, CellsAre, CellsIn
<1> QED BY <1>1, <1>3, NamedIs

\* A request lands on the sandbox it is about, or on none.
LandedWhatIf(w2, w, key) ==
  /\ key[1] # "sandbox" => w2 = w
  /\ key \in DOMAIN w2 => w2 = Bind(w, key, w2[key])
  /\ key \in DOMAIN w2 /\ key \in DOMAIN w => w2 = [w EXCEPT ![key] = w2[key]]
  /\ key \notin DOMAIN w2 => w2 = Restrict(w, DOMAIN w \ {key})

LEMMA LandsByName ==
  ASSUME NEW ds, NEW objs, NEW objs2, NEW f, LandsOn(objs2, objs, f),
         NEW w, AreWhatIfs(w, ds, objs), NEW w2, AreWhatIfs(w2, ds, objs2), NEW key, key = f.req.key
  PROVE  LandedWhatIf(w2, w, key)
<1>1. OneApart(w2, w, key)
  BY DEF LandsOn, AreWhatIfs, OneApart
<1>2. IsMap(w) /\ IsMap(w2) /\ (key[1] # "sandbox" => key \notin DOMAIN w /\ key \notin DOMAIN w2)
  BY DEF AreWhatIfs
<1>3. /\ Restrict(w2, DOMAIN w2 \ {key}) = Restrict(w, DOMAIN w \ {key})
      /\ key \notin DOMAIN w /\ key \notin DOMAIN w2 => w2 = w
      /\ key \in DOMAIN w2 => w2 = Bind(w, key, w2[key])
  BY ONLY <1>1, <1>2, ApartMaps
<1>4. ASSUME key \in DOMAIN w2, key \in DOMAIN w PROVE w2 = [w EXCEPT ![key] = w2[key]]
  <2>1. PICK b : b = [w EXCEPT ![key] = w2[key]]
    BY ONLY TRUE
  <2>2. DOMAIN b = DOMAIN w /\ b = [x \in DOMAIN w |-> b[x]] /\ \A x \in DOMAIN w : b[x] = IF x = key THEN w2[key] ELSE w[x]
    BY <2>1
  <2>3. DOMAIN w2 = DOMAIN w /\ \A x \in DOMAIN w : x # key => w2[x] = w[x]
    BY <1>1, <1>4 DEF OneApart
  <2>4. w2 = [x \in DOMAIN w2 |-> w2[x]]
    BY <1>2 DEF IsMap
  <2>5. \A x \in DOMAIN w : b[x] = w2[x]
    BY <2>2, <2>3
  <2> QED BY ONLY <2>1, <2>2, <2>3, <2>4, <2>5
<1>5. ASSUME key \notin DOMAIN w2 PROVE w2 = Restrict(w2, DOMAIN w2 \ {key})
  <2>1. DOMAIN w2 \ {key} = DOMAIN w2 /\ w2 = [x \in DOMAIN w2 |-> w2[x]]
    BY <1>2, <1>5 DEF IsMap
  <2> QED BY ONLY <2>1 DEF Restrict
<1> QED BY <1>2, <1>3, <1>4, <1>5 DEF LandedWhatIf

\* What has no values says nothing; a value more says it of its name.
LEMMA NothingNamed ==
  ASSUME NEW ds, NEW m, IsNamed(m, ds, NoFn)
  PROVE  m = Named!None
<1>1. DOMAIN m = {} /\ m = [x \in DOMAIN m |-> m[x]]
  BY DEF IsNamed, IsMap, NoFn
<1> QED BY <1>1 DEF Named!None

LEMMA StagedByName ==
  ASSUME NEW ds, DimsOK(ds), NEW map, DOMAIN map \subseteq CoordsOf(ds), NEW c \in CoordsOf(ds), NEW v, NEW map2,
         Binds(map2, map, c, v), NEW m, IsNamed(m, ds, map), NEW m2, IsNamed(m2, ds, map2), NEW n, n = NamesIn(ds, c)
  PROVE  n \in DOMAIN m2 /\ m2 = Bind(m, n, m2[n])
<1>1. DOMAIN map2 \subseteq CoordsOf(ds) /\ OneApart(map2, map, c) /\ c \in DOMAIN map2
  BY DEF Binds, OneApart
<1>2. OneApart(m2, m, n) /\ n \in DOMAIN m2
  BY <1>1, OneNameApart
<1>3. IsMap(m) /\ IsMap(m2)
  BY DEF IsNamed
<1> QED BY ONLY <1>2, <1>3, ApartMaps

LEMMA OpenedByName ==
  ASSUME NEW ds, DimsOK(ds), NEW objs, NEW objs2, SavedOK(ds, objs2), NEW f, LandsOn(objs2, objs, f),
         NEW w, AreWhatIfs(w, ds, objs), NEW w2, AreWhatIfs(w2, ds, objs2), NEW key, key = f.req.key,
         key[1] = "sandbox", NEW object, Binds(objs2, objs, key, object), object.cells = NoFn
  PROVE  key \in DOMAIN w2 /\ w2 = Bind(w, key, Named!None)
<1>1. key \in DOMAIN w2 /\ objs2[key].cells = NoFn
  BY DEF AreWhatIfs, Binds
<1>2. IsNamed(w2[key], ds, NoFn)
  BY <1>1, SandboxNamed
<1>3. w2[key] = Named!None
  BY <1>2, NothingNamed
<1>4. w2 = Bind(w, key, w2[key])
  <2>1. LandedWhatIf(w2, w, key)
    BY LandsByName
  <2> QED BY ONLY <1>1, <2>1 DEF LandedWhatIf
<1> QED BY ONLY <1>1, <1>3, <1>4

LEMMA EmptiedByName ==
  ASSUME NEW ds, DimsOK(ds), NEW objs, NEW objs2, SavedOK(ds, objs2), NEW f, LandsOn(objs2, objs, f),
         NEW w, AreWhatIfs(w, ds, objs), NEW w2, AreWhatIfs(w2, ds, objs2), NEW key, key = f.req.key,
         key[1] = "sandbox", key \in DOMAIN objs, DOMAIN objs2 = DOMAIN objs, objs2[key].cells = NoFn
  PROVE  key \in DOMAIN w /\ w2 = [w EXCEPT ![key] = Named!None]
<1>1. key \in DOMAIN w2 /\ key \in DOMAIN w
  BY DEF AreWhatIfs
<1>2. IsNamed(w2[key], ds, NoFn)
  BY <1>1, SandboxNamed
<1>3. w2[key] = Named!None
  BY <1>2, NothingNamed
<1>4. w2 = [w EXCEPT ![key] = w2[key]]
  <2>1. LandedWhatIf(w2, w, key)
    BY LandsByName
  <2> QED BY ONLY <1>1, <2>1 DEF LandedWhatIf
<1> QED BY ONLY <1>1, <1>3, <1>4

LEMMA TakenByName ==
  ASSUME NEW ds, DimsOK(ds), NEW objs, SavedOK(ds, objs), NEW objs2, SavedOK(ds, objs2), NEW f, LandsOn(objs2, objs, f),
         NEW w, AreWhatIfs(w, ds, objs), NEW w2, AreWhatIfs(w2, ds, objs2), NEW key, key = f.req.key,
         key[1] = "sandbox", key \in DOMAIN objs, DOMAIN objs2 = DOMAIN objs, NEW c, LeafCell(ds, c), NEW v,
         Binds(objs2[key].cells, objs[key].cells, c, v), NEW sch, KindsNamed(sch, ds)
  PROVE  /\ key \in DOMAIN w /\ key \in DOMAIN w2
         /\ \E n \in DOMAIN w2[key] : Named!HoldsNumber(sch, n) /\ w2 = [w EXCEPT ![key] = Bind(w[key], n, w2[key][n])]
<1>1. key \in DOMAIN w2 /\ key \in DOMAIN w
  BY DEF AreWhatIfs
<1>2. PICK m, m2, map, map2, n : m = w[key] /\ m2 = w2[key] /\ map = objs[key].cells /\ map2 = objs2[key].cells /\ n = NamesIn(ds, c)
  BY ONLY TRUE
<1>3. IsNamed(m, ds, map) /\ DOMAIN map \subseteq CoordsOf(ds) /\ IsNamed(m2, ds, map2)
  BY <1>1, <1>2, SandboxNamed
<1>4. c \in NumberCells(ds) /\ c \in CoordsOf(ds)
  BY CellsAre, CellsIn
<1>5. Binds(map2, map, c, v)
  BY <1>2
<1>6. n \in DOMAIN m2 /\ m2 = Bind(m, n, m2[n])
  BY ONLY DimsOK(ds), <1>2, <1>3, <1>4, <1>5, StagedByName
<1>7. Named!HoldsNumber(sch, n)
  <2>1. IsTuple(n) /\ 1 .. Rank # {}
    BY <1>2 DEF NamesIn, IsTuple, LeafCell
  <2> QED BY <1>2, <1>4, <2>1, NumbersHeld
<1>8. w2 = [w EXCEPT ![key] = w2[key]]
  <2>1. LandedWhatIf(w2, w, key)
    BY LandsByName
  <2> QED BY ONLY <1>1, <2>1 DEF LandedWhatIf
<1>9. w2 = [w EXCEPT ![key] = m2]
  BY ONLY <1>2, <1>8
<1>10. PICK b : b = Bind(m, n, m2[n])
  BY ONLY TRUE
<1>11. w2 = [w EXCEPT ![key] = b]
  BY ONLY <1>6, <1>9, <1>10
<1> QED BY ONLY <1>1, <1>2, <1>6, <1>7, <1>10, <1>11

LEMMA GoneByName ==
  ASSUME NEW ds, NEW objs, NEW objs2, NEW f, LandsOn(objs2, objs, f),
         NEW w, AreWhatIfs(w, ds, objs), NEW w2, AreWhatIfs(w2, ds, objs2), NEW key, key = f.req.key,
         key[1] = "sandbox", key \in DOMAIN objs, key \notin DOMAIN objs2
  PROVE  key \in DOMAIN w /\ w2 = Restrict(w, DOMAIN w \ {key})
<1>1. key \notin DOMAIN w2 /\ key \in DOMAIN w
  BY DEF AreWhatIfs
<1>2. LandedWhatIf(w2, w, key)
  BY LandsByName
<1> QED BY ONLY <1>1, <1>2 DEF LandedWhatIf

\* The numbers of the cube, when a sandbox is committed to it.
LEMMA CommittedByName ==
  ASSUME DimsOK(dims), CellsHold, CellsHold', Sandboxed, NEW key \in DOMAIN saved, key[1] = "sandbox", CommitSandbox(key),
         NEW over, over = Named!Over(OverridesByName[key], NumbersByName)
  PROVE  NumbersByName' = Restrict(over, {c \in DOMAIN over : over[c] # 0})
<1>1. SaidByName /\ SaidByName'
  BY SaysByName, PTL
<1>2. PICK ds, l, nums, nums2, box, map, map2 :
        /\ ds = dims /\ l = layout /\ nums = cells /\ nums2 = cells' /\ box = saved[key].cells
        /\ map = AtCoords(l, nums) /\ map2 = AtCoords(l, nums2) /\ DimsOK(ds)
  OBVIOUS
<1>3. PICK at : at = [k \in {Key(l, c) : c \in DOMAIN box} |-> box[CoordOf(l, k)]]
  BY ONLY TRUE
<1>4. PICK merged : merged = [k \in DOMAIN at \cup DOMAIN nums |-> IF k \in DOMAIN at THEN at[k] ELSE nums[k]]
  BY ONLY TRUE
<1>5. UNCHANGED <<dims, layout, textCells, pool>>
  BY DEF CommitSandbox
<1>6. nums2 = Restrict(merged, {k \in DOMAIN merged : merged[k] # 0})
  BY <1>2, <1>3, <1>4 DEF CommitSandbox
<1>7. StoredAt(nums, l, NumberCells(ds)) /\ StoredAt(nums2, l, NumberCells(ds)) /\ l = LayoutOf(ds)
  BY <1>2, <1>5 DEF CellsHold, CellsStored, StoresOK
<1>8. Decodes(l, NumberCells(ds))
  BY <1>2, <1>7, DecodesIn
<1>9. IsAt(map, l, nums, NumberCells(ds)) /\ IsAt(map2, l, nums2, NumberCells(ds))
  BY <1>2, <1>7, <1>8, CoordsAt
<1>10. \A c \in DOMAIN box : c \in NumberCells(ds)
  BY <1>2, CellsAre DEF Sandboxed, SavedOK, SandboxOK, LeafCells
<1>11. Merges(map2, box, map)
  <2>1. CommittedOver(nums2, l, box, nums)
    BY ONLY <1>3, <1>4, <1>6 DEF CommittedOver
  <2> QED BY <1>8, <1>9, <1>10, <2>1, MergedStores
<1>12. DOMAIN map \subseteq CoordsOf(ds) /\ DOMAIN map2 \subseteq CoordsOf(ds) /\ DOMAIN box \subseteq CoordsOf(ds)
  BY <1>9, <1>10, CellsIn DEF IsAt
<1>13. PICK m, m2, s : /\ m = NumbersByName /\ m2 = NumbersByName' /\ s = OverridesByName[key]
                       /\ m = NamedMap(ds, map) /\ m2 = NamedMap(ds, map2) /\ s = NamedMap(ds, box)
  BY <1>1, <1>2, <1>5 DEF SaidByName, SandboxKeys
<1>14. IsNamed(m, ds, map) /\ IsNamed(m2, ds, map2) /\ IsNamed(s, ds, box)
  BY <1>2, <1>12, <1>13, NamedIs
<1>15. Merges(m2, s, m) /\ IsMap(m2)
  BY <1>2, <1>11, <1>12, <1>14, MergedNames DEF IsNamed
<1>16. over = Named!Over(s, m)
  BY <1>13
<1>17. m2 = Restrict(over, {c \in DOMAIN over : over[c] # 0})
  BY ONLY <1>15, <1>16, MergesIs
<1> QED BY <1>13, <1>17

LEMMA NamedOperators ==
  (\A f, S : Named!Restrict(f, S) = Restrict(f, S)) /\ (\A f, k, v : Named!Bind(f, k, v) = Bind(f, k, v))
BY DEF Named!Restrict, Restrict, Named!Bind, Bind

\* A request landed: on a sandbox, or beside all that has a name.
LEMMA StoringByName ==
  ASSUME DimsOK(dims), Sandboxed, CellsHold, CellsHold', NEW f, f.op = f.req.op, IsRequest(f.req), Accepted(f), Store(f)
  PROVE  Named!UsesASandbox \/ UNCHANGED <<Schema, NumbersByName, TextsByName, OverridesByName>>
<1>1. dims' = dims /\ Sandboxed' /\ LandsOn(saved', saved, f)
  BY StoringLands
<1>2. SaidByName /\ SaidByName'
  BY SaysByName, PTL
<1>3. PICK key, ds, objs, objs2, w, w2, sch : /\ key = f.req.key /\ ds = dims /\ objs = saved /\ objs2 = saved' /\ sch = Schema
                                              /\ w = OverridesByName /\ w2 = OverridesByName' /\ DimsOK(ds)
  OBVIOUS
<1>4. SavedOK(ds, objs) /\ SavedOK(ds, objs2) /\ LandsOn(objs2, objs, f) /\ key = f.req.key
  BY <1>1, <1>3 DEF Sandboxed
<1>5. AreWhatIfs(w, ds, objs) /\ AreWhatIfs(w2, ds, objs2)
  <2>1. w = [k \in SandboxKeys |-> NamedMap(ds, objs[k].cells)]
    BY <1>2, <1>3 DEF SaidByName
  <2>2. w2 = [k \in SandboxKeys' |-> NamedMap(ds, objs2[k].cells)]
    BY <1>1, <1>2, <1>3 DEF SaidByName
  <2>3. SandboxKeys = {k \in DOMAIN objs : k[1] = "sandbox"} /\ SandboxKeys' = {k \in DOMAIN objs2 : k[1] = "sandbox"}
    BY <1>3 DEF SandboxKeys
  <2> QED BY ONLY <2>1, <2>2, <2>3 DEF AreWhatIfs, IsMap
<1>6. KindsNamed(sch, ds)
  BY <1>3, KindsAreNamed DEF Schema
<1>7. /\ f.op \in {"open", "stage", "commit"} => key[1] = "sandbox"
      /\ key[1] = "sandbox" => f.op \in {"open", "stage", "commit", "delete"}
  <2>1. /\ f.op \in {"create", "replace"} => key[1] # "sandbox"
        /\ f.op \in {"open", "stage", "commit"} <=> key[1] = "sandbox" /\ f.op # "delete"
    BY <1>3, OperationsAre
  <2> QED BY <2>1
<1>8. ASSUME f.op # "commit" PROVE UNCHANGED cube
  BY <1>8 DEF Store
<1>9. ASSUME UNCHANGED cube PROVE UNCHANGED <<Schema, NumbersByName, TextsByName>>
  BY <1>9, SameByName DEF cube
<1>10. CASE key[1] # "sandbox"
  <2>1. LandedWhatIf(w2, w, key)
    BY ONLY <1>4, <1>5, LandsByName
  <2>2. w2 = w
    BY <1>10, <2>1 DEF LandedWhatIf
  <2> QED BY <1>3, <1>7, <1>8, <1>9, <1>10, <2>2
<1>11. CASE key[1] = "sandbox"
  <2>1. CASE f.op = "open"
    <3>1. key \notin DOMAIN objs
      BY <1>3, <2>1 DEF Accepted
    <3>2. PICK object : object = [owner |-> f.owner, public |-> FALSE, cells |-> NoFn]
      BY ONLY TRUE
    <3>3. Binds(objs2, objs, key, object) /\ object.cells = NoFn
      <4>1. objs2 = Bind(objs, key, object)
        BY <1>3, <2>1, <3>2 DEF Store
      <4> QED BY <3>2, <4>1, BindIs
    <3>4. key \in DOMAIN w2 /\ w2 = Bind(w, key, Named!None)
      BY <1>3, <1>4, <1>5, <1>11, <3>3, OpenedByName
    <3>5. key \in DOMAIN w2 \ DOMAIN w
      BY <1>5, <3>1, <3>4 DEF AreWhatIfs
    <3>6. UNCHANGED <<Schema, NumbersByName, TextsByName>>
      BY <1>8, <1>9, <2>1
    <3>7. OverridesByName' = Named!Bind(OverridesByName, key, Named!None)
      BY <1>3, <3>4, NamedOperators
    <3> QED BY <1>3, <3>5, <3>6, <3>7 DEF Named!UsesASandbox
  <2>2. CASE f.op = "stage"
    <3>1. key \in DOMAIN objs /\ LeafCell(ds, f.at)
      BY <1>3, <2>2, LeafCellsAre DEF Accepted
    <3>2. PICK map, map2, c, v : map = objs[key].cells /\ map2 = Bind(map, f.at, f.req.value) /\ c = f.at /\ v = f.req.value
      BY ONLY TRUE
    <3>3. DOMAIN objs2 = DOMAIN objs /\ Binds(objs2[key].cells, objs[key].cells, c, v)
      <4>1. CellsPut(objs2, objs, key, map2)
        BY <1>3, <2>2, <3>2 DEF Store, CellsPut
      <4>2. Binds(map2, map, c, v)
        BY <3>2, BindIs
      <4>3. PICK s, s2 : s = objs[key] /\ s2 = [s EXCEPT !.cells = map2]
        BY ONLY TRUE
      <4>4. IsMap(objs) /\ IsSandbox(s)
        BY <1>4, <1>11, <3>1, <4>3 DEF SavedOK, SandboxOK
      <4>5. s2.cells = map2
        BY ONLY <4>3, <4>4 DEF IsSandbox
      <4>6. DOMAIN objs2 = DOMAIN objs /\ objs2[key] = s2
        BY <3>1, <4>1, <4>3, <4>4 DEF CellsPut, IsMap
      <4> QED BY <3>2, <4>2, <4>5, <4>6
    <3>4. /\ key \in DOMAIN w /\ key \in DOMAIN w2
          /\ \E n \in DOMAIN w2[key] : Named!HoldsNumber(sch, n) /\ w2 = [w EXCEPT ![key] = Bind(w[key], n, w2[key][n])]
      BY ONLY <1>3, <1>4, <1>5, <1>6, <1>11, <3>1, <3>2, <3>3, TakenByName
    <3>5. UNCHANGED <<Schema, NumbersByName, TextsByName>>
      BY <1>8, <1>9, <2>2
    <3>6. PICK n : /\ n \in DOMAIN w2[key] /\ Named!HoldsNumber(sch, n)
                   /\ w2 = [w EXCEPT ![key] = Named!Bind(w[key], n, w2[key][n])]
      BY <3>4, NamedOperators
    <3> QED BY <1>3, <3>4, <3>5, <3>6 DEF Named!UsesASandbox
  <2>3. CASE f.op = "delete"
    <3>1. key \in DOMAIN objs
      BY <1>3, <2>3 DEF Accepted
    <3>2. key \notin DOMAIN objs2
      BY <1>4, <2>3 DEF LandsOn
    <3>3. key \in DOMAIN w /\ w2 = Restrict(w, DOMAIN w \ {key})
      BY ONLY <1>3, <1>4, <1>5, <1>11, <3>1, <3>2, GoneByName
    <3>4. UNCHANGED <<Schema, NumbersByName, TextsByName>>
      BY <1>8, <1>9, <2>3
    <3>5. OverridesByName' = Named!Restrict(OverridesByName, DOMAIN OverridesByName \ {key})
      BY <1>3, <3>3, NamedOperators
    <3> QED BY <1>3, <3>3, <3>4, <3>5 DEF Named!UsesASandbox
  <2>4. CASE f.op = "commit"
    <3>1. key \in DOMAIN objs
      BY <1>3, <2>4 DEF Accepted
    <3>2. CommitSandbox(key)
      BY <1>3, <2>4 DEF Store
    <3>3. DOMAIN objs2 = DOMAIN objs /\ objs2[key].cells = NoFn
      <4>1. CellsPut(objs2, objs, key, NoFn)
        BY ONLY <1>3, <3>2, CommittingPuts
      <4>2. PICK s, s2 : s = objs[key] /\ s2 = [s EXCEPT !.cells = NoFn]
        BY ONLY TRUE
      <4>3. IsMap(objs) /\ IsSandbox(s)
        BY <1>4, <1>11, <3>1, <4>2 DEF SavedOK, SandboxOK
      <4>4. s2.cells = NoFn
        BY ONLY <4>2, <4>3 DEF IsSandbox
      <4>5. DOMAIN objs2 = DOMAIN objs /\ objs2[key] = s2
        BY <3>1, <4>1, <4>2, <4>3 DEF CellsPut, IsMap
      <4> QED BY <4>4, <4>5
    <3>4. key \in DOMAIN w /\ w2 = [w EXCEPT ![key] = Named!None]
      BY ONLY <1>3, <1>4, <1>5, <1>11, <3>1, <3>3, EmptiedByName
    <3>5. PICK over : over = Named!Over(OverridesByName[key], NumbersByName)
      BY ONLY TRUE
    <3>6. NumbersByName' = Restrict(over, {c \in DOMAIN over : over[c] # 0})
      BY <1>3, <1>11, <3>1, <3>2, <3>5, CommittedByName
    <3>7. UNCHANGED <<Schema, TextsByName>>
      <4>1. UNCHANGED <<dims, layout, textCells, pool>>
        BY <3>2 DEF CommitSandbox
      <4> QED BY <4>1, SameByName
    <3>8. NumbersByName' = Named!Restrict(over, {c \in DOMAIN over : over[c] # 0})
      BY <3>6, NamedOperators
    <3> QED BY <1>3, <3>4, <3>5, <3>7, <3>8 DEF Named!UsesASandbox
  <2> QED BY <1>7, <1>11, <2>1, <2>2, <2>3, <2>4
<1> QED BY <1>10, <1>11

\* What a step that edits no schema does by name.
NamedWrite ==
  \/ Named!WritesACell \/ Named!UsesASandbox
  \/ UNCHANGED <<Schema, NumbersByName, TextsByName, OverridesByName>>

LEMMA OthersByName ==
  ASSUME ModelInv, CellsHold, CellsHold', CellWrite \/ \E u \in Users : Ask(u) \/ Compile(u) \/ Finish(u)
  PROVE  NamedWrite
<1>1. DimsOK(dims) /\ PoolOK /\ Sandboxed
  BY DEF ModelInv, DimsHold
<1>2. ASSUME NEW c \in Coords, NEW v, SetLeaf(c, v), UNCHANGED saved PROVE NamedWrite
  <2>1. NumberStep
    BY <1>1, <1>2, NumberWrittenByName
  <2>2. UNCHANGED <<Schema, OverridesByName, TextsByName>>
    BY <1>2, SameByName DEF SetLeaf
  <2> QED BY <2>1, <2>2 DEF NumberStep, NamedWrite, Named!WritesACell, Named!Restrict, Restrict
<1>3. ASSUME NEW c \in Coords, NEW t, SetString(c, t), UNCHANGED saved PROVE NamedWrite
  <2>1. TextStep
    BY <1>1, <1>3, TextWrittenByName
  <2>2. UNCHANGED <<Schema, OverridesByName, NumbersByName>>
    BY <1>3, SameByName DEF SetString
  <2> QED BY <2>1, <2>2 DEF TextStep, NamedWrite, Named!WritesACell, Named!Restrict, Restrict
<1>4. ASSUME CompactStringPool, UNCHANGED saved PROVE NamedWrite
  <2>1. UNCHANGED TextsByName
    BY <1>1, <1>4, CompactedByName
  <2>2. UNCHANGED <<Schema, OverridesByName, NumbersByName>>
    BY <1>4, SameByName DEF CompactStringPool
  <2> QED BY <2>1, <2>2 DEF NamedWrite
<1>5. ASSUME UNCHANGED <<cube, saved>> PROVE NamedWrite
  BY <1>5, SameByName DEF NamedWrite, cube
<1>6. CASE CellWrite
  <2>1. UNCHANGED saved /\ \/ \E c \in Coords : \/ \E v \in Numbers : SetLeaf(c, v)
                                               \/ \E t \in Texts : SetString(c, t)
                           \/ CompactStringPool
    BY <1>6 DEF CellWrite
  <2> QED BY <1>2, <1>3, <1>4, <2>1
<1>7. ASSUME NEW u \in Users, Ask(u) \/ Compile(u) \/ Finish(u) PROVE NamedWrite
  <2>1. CASE Ask(u) \/ Compile(u)
    BY <1>5, <2>1 DEF Ask, Compile
  <2>2. CASE Finish(u)
    <3>1. PICK f : f = flights[u]
      BY ONLY TRUE
    <3>2. (Accepted(f) /\ Store(f)) \/ UNCHANGED <<cube, saved>>
      BY <2>2, <3>1 DEF Finish
    <3>3. f.op = f.req.op /\ IsRequest(f.req)
      BY <2>2, <3>1, AskedAre DEF Finish, ModelInv, FlightsHold, FlightsOK, FlightOK
    <3> QED BY <1>1, <1>5, <3>2, <3>3, StoringByName DEF NamedWrite
  <2> QED BY <1>7, <2>1, <2>2
<1> QED BY <1>6, <1>7

(* Writes, compactions and requests are what they are by name: a step that   *)
(* edits no schema writes or clears one cell that its names can hold, or     *)
(* opens, stages in, commits or discards one sandbox, or changes nothing     *)
(* that has a name (cube.rs:330-420, sandbox_routes.rs:60-260).              *)
THEOREM WritesAreByName ==
  ModelSpec => [][~SchemaEdit => [Named!WritesACell \/ Named!UsesASandbox]_<<Schema, NumbersByName, TextsByName, OverridesByName>>]_modelVars
<1>1. ASSUME ModelInv, CellsHold, CellsHold', ModelNext, ~SchemaEdit
      PROVE  [Named!WritesACell \/ Named!UsesASandbox]_<<Schema, NumbersByName, TextsByName, OverridesByName>>
  BY <1>1, OthersByName DEF ModelNext, NamedWrite
<1> QED BY <1>1, ModelInvariance, CellsInvariance, PTL DEF ModelSpec
=============================================================================
