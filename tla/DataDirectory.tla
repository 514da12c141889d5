--------------------------- MODULE DataDirectory ---------------------------
(***************************************************************************)
(* A boot over the data directory (epiphany-server/src/boot.rs): cube       *)
(* folders are renamed to the slugs of their cubes' names, every folder is  *)
(* opened under its cube's name, cubes that lag their shared dimensions are *)
(* brought forward, and the automation that old cube models still carry is  *)
(* lifted into the global file.  Any step but the load may fail, and the    *)
(* process may die between any two.  What is in a folder is its cube's      *)
(* name, its data and its legacy blocks; CubeStore says what opens.         *)
(***************************************************************************)
EXTENDS Automation

CONSTANTS
  Spelling,       \* the characters of each cube name
  LowerOf,        \* the lower case of each upper-case letter
  Kept,           \* the characters a slug keeps
  FolderOrder,    \* the folders, in the order of their paths
  DemoCube,       \* the cube of a first boot
  FirstAdmin,     \* the first administrator, or none
  MaxDiskFaults,  \* bound on the renames and writes that fail
  MaxCrashes      \* bound on the crashes

VARIABLES
  disk,       \* the cube folders, as sequences of characters
  caseless,   \* whether the file system takes two cases of a name for one
  globalFile, \* automation.model, or none
  boot,       \* the boot under way, or the server it became
  served,     \* AutomationStore.automation of the server
  crashes, diskFaults,
  old         \* ghost: the folders before the first boot

dirVars == <<disk, caseless, globalFile, boot, served, crashes, diskFaults, old>>

(* slug: lower case, everything but the kept characters a dash, no two       *)
(* dashes in a row and none at either end.                                   *)
Lower(ch) == IF ch \in DOMAIN LowerOf THEN LowerOf[ch] ELSE ch
Slugged(ch) == IF Lower(ch) \in Kept THEN Lower(ch) ELSE "-"

Slug(name) ==
  LET dashed == FoldLeft(LAMBDA out, ch : IF Slugged(ch) = "-" /\ out # <<>> /\ Last(out) = "-"
                                          THEN out ELSE Append(out, Slugged(ch)), <<>>, name)
      led == IF dashed # <<>> /\ Head(dashed) = "-" THEN Tail(dashed) ELSE dashed
      trimmed == IF led # <<>> /\ Last(led) = "-" THEN Front(led) ELSE led
  IN IF trimmed = <<>> THEN <<"u", "n", "n", "a", "m", "e", "d">> ELSE trimmed

SlugOf(cube) == Slug(Spelling[cube])

Folded(folder) == [i \in DOMAIN folder |-> Lower(folder[i])]
SameFolder(f, g) == f = g \/ (caseless /\ Folded(f) = Folded(g))

\* The folders a path leads to: at most one.
At_(path) == {f \in DOMAIN disk : SameFolder(f, path)}
InPathOrder(folders) == SelectSeq(FolderOrder, LAMBDA f : f \in folders)

DirInit(folders) ==
  /\ disk = folders /\ old = folders
  /\ caseless \in BOOLEAN
  /\ globalFile = {}
  /\ boot = [pc |-> "down"]
  /\ served = NoObjects
  /\ crashes = 0 /\ diskFaults = 0

DiskFault == diskFaults < MaxDiskFaults /\ diskFaults' = diskFaults + 1

Start ==
  /\ boot.pc = "down"
  /\ boot' = [pc |-> "migrating", todo |-> InPathOrder(DOMAIN disk)]
  /\ UNCHANGED <<disk, caseless, globalFile, served, crashes, diskFaults, old>>

(* migrate_cube_dirs, one folder at a time.  A rename to another case of the *)
(* same name goes through a temporary folder.                                *)
Renamed(from, to) == [f \in (DOMAIN disk \ {from}) \cup {to} |-> IF f = to THEN disk[from] ELSE disk[f]]

Temporary(target) == <<".", "m", "-">> \o target
Passed == [boot EXCEPT !.todo = Tail(@)]

\* Weakened: a folder that is there is in the way, whichever it is.
CaseOnlyNever(folder, target) == FALSE
CaseOnly(folder, target) == At_(target) = {folder}

MigrateFolder ==
  LET folder == Head(boot.todo)
      target == SlugOf(disk[folder].name)
      free == IF CaseOnly(folder, target) THEN At_(Temporary(target)) = {} ELSE At_(target) = {}
  IN /\ boot.pc = "migrating" /\ boot.todo # <<>>
     /\ \/ /\ folder = target \/ ~free
           /\ boot' = Passed /\ UNCHANGED <<disk, diskFaults>>
        \/ /\ folder # target /\ free
           /\ DiskFault /\ boot' = Passed /\ UNCHANGED disk
        \/ /\ folder # target /\ free
           /\ UNCHANGED diskFaults
           /\ IF CaseOnly(folder, target)
              THEN /\ disk' = Renamed(folder, Temporary(target))
                   /\ boot' = [boot EXCEPT !.pc = "halfway"]
              ELSE disk' = Renamed(folder, target) /\ boot' = Passed
     /\ UNCHANGED <<caseless, globalFile, served, crashes, old>>

FinishRename ==
  LET target == Folded(Head(boot.todo))
  IN /\ boot.pc = "halfway"
     /\ boot' = [Passed EXCEPT !.pc = "migrating"]
     /\ \/ disk' = Renamed(Temporary(target), target) /\ UNCHANGED diskFaults
        \/ DiskFault /\ UNCHANGED disk
     /\ UNCHANGED <<caseless, globalFile, served, crashes, old>>

(* load_or_init: each cube under its own name, of two of one name the later  *)
(* folder's; the demo model where there is none.                             *)
Cube(name, data) == [name |-> name, data |-> data, legacy |-> NoObjects, shared |-> FALSE]

StoresOf(folders) ==
  FoldLeft(LAMBDA so, f : Put(so, folders[f].name, f), <<>>, InPathOrder(DOMAIN folders))

Load ==
  LET found == IF DOMAIN disk = {} THEN SlugOf(DemoCube) :> Cube(DemoCube, "demo") ELSE disk
      stores == StoresOf(found)
  IN /\ boot.pc = "migrating" /\ boot.todo = <<>>
     /\ disk' = found
     /\ boot' = [pc |-> "reconciling", stores |-> stores,
                 todo |-> InNameOrder({c \in DOMAIN stores : found[stores[c]].shared})]
     /\ UNCHANGED <<caseless, globalFile, served, crashes, diskFaults, old>>

\* A checkpoint writes the snapshot anew, without its legacy blocks.
CheckpointOf(cube) == [disk EXCEPT ![boot.stores[cube]].legacy = NoObjects]

\* with_dimensions_dir: every cube of a shared dimension has its members
\* defined again, which checkpoints it; a failure ends the boot.
Reconcile ==
  /\ boot.pc = "reconciling" /\ boot.todo # <<>>
  /\ \/ disk' = CheckpointOf(Head(boot.todo)) /\ boot' = Passed /\ UNCHANGED diskFaults
     \/ DiskFault /\ boot' = [pc |-> "down"] /\ UNCHANGED disk
  /\ UNCHANGED <<caseless, globalFile, served, crashes, old>>

(* load_automation.  The snapshots are scanned only where there is no global *)
(* file yet, each at its cube's slug.                                        *)
LegacyOf(cube) == {disk[f].legacy : f \in At_(SlugOf(cube))} \ {NoObjects}
Carriers == {c \in DOMAIN boot.stores : LegacyOf(c) # {}}

Merged ==
  FoldLeft(LAMBDA merged, c : MergeLegacy(merged, CHOOSE l \in LegacyOf(c) : TRUE, c, FirstAdmin),
           NoObjects, InNameOrder(Carriers))

Up == [boot EXCEPT !.pc = "up", !.todo = <<>>]

ScanLegacy ==
  /\ boot.pc = "reconciling" /\ boot.todo = <<>>
  /\ IF globalFile # {} \/ Carriers = {}
     THEN boot' = Up /\ served' = (IF globalFile = {} THEN NoObjects
                                   ELSE FromDocs(CHOOSE text \in globalFile : TRUE))
     ELSE boot' = [boot EXCEPT !.pc = "lifting", !.todo = InNameOrder(Carriers)] /\ served' = Merged
  /\ UNCHANGED <<disk, caseless, globalFile, crashes, diskFaults, old>>

WriteLifted ==
  /\ boot.pc = "lifting"
  /\ \/ /\ globalFile' = {ToText(served)} /\ boot' = [boot EXCEPT !.pc = "dropping"]
        /\ UNCHANGED <<served, diskFaults>>
     \/ DiskFault /\ boot' = Up /\ served' = NoObjects /\ UNCHANGED globalFile
  /\ UNCHANGED <<disk, caseless, crashes, old>>

DropBlocks ==
  /\ boot.pc = "dropping"
  /\ IF boot.todo = <<>> THEN boot' = Up /\ UNCHANGED <<disk, diskFaults>>
     ELSE /\ boot' = Passed
          /\ \/ disk' = CheckpointOf(Head(boot.todo)) /\ UNCHANGED diskFaults
             \/ DiskFault /\ UNCHANGED disk
  /\ UNCHANGED <<caseless, globalFile, served, crashes, old>>

(* The server.  create_cube makes a folder at the slug of the new name, and  *)
(* replaces what is there.                                                   *)
\* Weakened: only the same name is a duplicate.
FreeName(name) == name \notin DOMAIN boot.stores

FreeSlug(name) ==
  /\ \A c \in DOMAIN boot.stores : SlugOf(c) # SlugOf(name)
  /\ At_(SlugOf(name)) = {}

CreateCube(name) ==
  LET folder == IF At_(SlugOf(name)) = {} THEN SlugOf(name) ELSE CHOOSE f \in At_(SlugOf(name)) : TRUE
  IN /\ boot.pc = "up"
     /\ FreeSlug(name)
     /\ disk' = Put(disk, folder, Cube(name, "new"))
     /\ boot' = [boot EXCEPT !.stores = Put(@, name, folder)]
     /\ UNCHANGED <<caseless, globalFile, served, crashes, diskFaults, old>>

CheckpointCube(cube) ==
  /\ boot.pc = "up" /\ cube \in DOMAIN boot.stores
  /\ disk' = CheckpointOf(cube)
  /\ UNCHANGED <<caseless, globalFile, boot, served, crashes, diskFaults, old>>

DefineFlow(name, flow) ==
  /\ boot.pc = "up"
  /\ served' = [served EXCEPT !.flows = Put(@, name, flow)]
  /\ \/ globalFile' = {ToText(served')} /\ UNCHANGED diskFaults
     \/ DiskFault /\ UNCHANGED globalFile
  /\ UNCHANGED <<disk, caseless, boot, crashes, old>>

Crash ==
  /\ crashes < MaxCrashes /\ crashes' = crashes + 1
  /\ boot.pc # "down"
  /\ boot' = [pc |-> "down"] /\ served' = NoObjects
  /\ UNCHANGED <<disk, caseless, globalFile, diskFaults, old>>

BootStep == Start \/ MigrateFolder \/ FinishRename \/ Load \/ Reconcile
            \/ ScanLegacy \/ WriteLifted \/ DropBlocks

-----------------------------------------------------------------------------
(* Properties.                                                               *)

\* migrate_cube_dirs, "never deletes, merges, or overwrites a user's data",
\* and create_cube: whatever fails and wherever the process dies, the data of
\* every cube stays in a folder.
FoldersAreNeverClobbered ==
  [][{disk[f].data : f \in DOMAIN disk} \subseteq {disk'[f].data : f \in DOMAIN disk'}]_dirVars

\* A folder whose slug and name no other cube shares.
Alone(f) == \A g \in DOMAIN old \ {f} :
              old[g].name # old[f].name /\ SlugOf(old[g].name) # SlugOf(old[f].name)

\* Where no rename or write has failed, a server that is up has its cubes at
\* their slugs, whatever case the folders had and wherever earlier boots died.
CubesAreAtTheirSlugs ==
  boot.pc = "up" /\ diskFaults = 0 =>
    \A f \in DOMAIN old : Alone(f) =>
      \E g \in DOMAIN disk : g = SlugOf(old[f].name) /\ disk[g].data = old[f].data

\* load_automation, "best-effort, loss-proof": where no write has failed, the
\* automation an old cube carried is still in its snapshot, for the next boot
\* to find, or all of it is in the global file, each test and job step naming
\* the flow it named.  Cubes that share a dimension, a name or a slug with
\* another are the exceptions, and names that collide once prefixed.
Keys(cube, name) == {name, cube \o "_" \o name}

Carried(objects, cube, name, Is(_)) ==
  \E k \in Keys(cube, name) \cap DOMAIN objects : Is(objects[k])

NamesFlow(a, flow, wanted) == flow \in DOMAIN a.flows /\ a.flows[flow].source = wanted.source

IsLifted(a, cube, legacy) ==
  /\ \A n \in DOMAIN legacy.flows :
       Carried(a.flows, cube, n, LAMBDA f : f.source = legacy.flows[n].source
                                            /\ f.defaultCube # {} /\ f.owner # {})
  /\ \A n \in DOMAIN legacy.flowTests :
       Carried(a.flowTests, cube, n,
               LAMBDA t : NamesFlow(a, t.flow, legacy.flows[legacy.flowTests[n].flow]))
  /\ \A n \in DOMAIN legacy.connections :
       Carried(a.connections, cube, n, LAMBDA c : c = legacy.connections[n])
  /\ \A n \in DOMAIN legacy.jobs :
       Carried(a.jobs, cube, n,
               LAMBDA j : \A i \in DOMAIN j.steps :
                            NamesFlow(a, j.steps[i], legacy.flows[legacy.jobs[n].steps[i]]))

MigrationLosesNothing ==
  diskFaults = 0 =>
    \A f \in DOMAIN old : (Alone(f) /\ ~old[f].shared) =>
      \/ globalFile = {} /\ \E g \in DOMAIN disk : disk[g] = old[f]
      \/ \E text \in globalFile : IsLifted(FromDocs(text), old[f].name, old[f].legacy)
      \/ old[f].legacy = NoObjects

(* A boot over an older directory puts every cube and all its automation    *)
(* where the program looks for it, over nobody else's                       *)
(* (migrate_cube_dirs, load_automation).                                    *)
UpgradesLoseNothing ==
  /\ [](CubesAreAtTheirSlugs /\ MigrationLosesNothing)
  /\ FoldersAreNeverClobbered

=============================================================================
