--------------------------- MODULE SnapshotDirectories ---------------------------
(***************************************************************************)
(* How an imported snapshot reaches the artifact root                        *)
(* (build_snapshot_payload, src/ekt/data/snapshot.py).  Its directory is     *)
(* named by the digest of the sources and the mapping, filled under a        *)
(* temporary name in the same parent and renamed.  The worker, the import    *)
(* assessment and scripts/build_snapshot.py may build the same snapshot at   *)
(* the same time, be killed, and be run again.                               *)
(*                                                                           *)
(* Two builds of one identity need not produce the same tables: the identity *)
(* names the sources, not the release of the program that reads them.        *)
(***************************************************************************)
EXTENDS Naturals, FiniteSets

CONSTANTS
    Importers,   \* processes that import data
    Ids,        \* snapshot ids
    Contents,   \* what a build makes of the sources of an id
    Tables,     \* tables of a snapshot, the quarantine included
    Absent      \* no directory under that name

\* A directory: the tables written to it, and the manifest once it is there.
EmptyDirectory == [tables |-> [t \in Tables |-> Absent], manifest |-> Absent]
WholeDirectory(content) == [tables |-> [t \in Tables |-> content], manifest |-> content]

\* No table is the value that stands for absence, and neither is a directory; a snapshot
\* has a fixed list of tables.
ASSUME DirectoryAssumption ==
    /\ IsFiniteSet(Tables)
    /\ Absent \notin Contents
    /\ \A content \in Contents : WholeDirectory(content) # Absent

VARIABLES
    final,      \* root/snapshots/<id>
    stages,     \* the stage directory of each running build, a temporary name of its own
    builds,     \* what each build is doing
    returned    \* HISTORY: manifests handed to a caller, [id, content]

directoryVars == <<final, stages, builds, returned>>

Idle == [step |-> "idle"]
Build(step, id, content) == [step |-> step, id |-> id, content |-> content]
Failed(code) == [step |-> "failed", code |-> code]

DirectoryInit ==
    /\ final = [id \in Ids |-> Absent]
    /\ stages = [b \in Importers |-> Absent]
    /\ builds = [b \in Importers |-> Idle]
    /\ returned = {}

\* Sources are read and normalised in memory.
Start(b, id, content) ==
    /\ builds[b] = Idle
    /\ builds' = [builds EXCEPT ![b] = Build("look", id, content)]
    /\ UNCHANGED <<final, stages, returned>>

At(b, step) == builds[b].step = step
Id(b) == builds[b].id
Content(b) == builds[b].content
MovesTo(b, step) == builds' = [builds EXCEPT ![b] = Build(step, Id(b), Content(b))]

\* final_dir.exists()
LookFound(b) ==
    /\ At(b, "look") /\ final[Id(b)] # Absent
    /\ MovesTo(b, "verify")
    /\ UNCHANGED <<final, stages, returned>>

\* Nothing there yet: mkdtemp next to it.
LookMissed(b) ==
    /\ At(b, "look") /\ final[Id(b)] = Absent
    /\ MovesTo(b, "fill")
    /\ stages' = [stages EXCEPT ![b] = EmptyDirectory]
    /\ UNCHANGED <<final, returned>>

\* read_table checks every table against the checksum in the manifest.
TablesMatch(directory) == \A t \in Tables : directory.tables[t] = directory.manifest
Intact(directory) == directory.manifest # Absent /\ TablesMatch(directory)

\* A directory without a manifest, or with other tables than it lists, is refused.
Verified(directory) ==
    CASE directory.manifest = Absent -> Failed("INCOMPLETE_SNAPSHOT")
      [] ~ TablesMatch(directory) -> Failed("ARTIFACT_CHECKSUM_MISMATCH")
      [] OTHER -> Idle

\* Faulty variant: the build returns what it has just read from the sources.
OwnManifest(b) == Content(b)

\* The snapshot that is there is returned.
ExistingManifest(b) == final[Id(b)].manifest

Verify(b) ==
    /\ At(b, "verify")
    /\ builds' = [builds EXCEPT ![b] = Verified(final[Id(b)])]
    /\ returned' = IF Intact(final[Id(b)])
                   THEN returned \cup {[id |-> Id(b), content |-> ExistingManifest(b)]} ELSE returned
    /\ UNCHANGED <<final, stages>>

WriteTable(b, t) ==
    /\ At(b, "fill") /\ stages[b].tables[t] = Absent
    /\ stages' = [stages EXCEPT ![b].tables[t] = Content(b)]
    /\ UNCHANGED <<final, builds, returned>>

\* Faulty variant: the manifest may be written before the last table.
SomethingStaged(directory) == \E t \in Tables : directory.tables[t] # Absent

AllTablesStaged(directory) == \A t \in Tables : directory.tables[t] # Absent

WriteManifest(b) ==
    /\ At(b, "fill") /\ AllTablesStaged(stages[b])
    /\ stages' = [stages EXCEPT ![b].manifest = Content(b)]
    /\ MovesTo(b, "rename")
    /\ UNCHANGED <<final, returned>>

\* rename(2) does not replace a directory that holds files.
Rename(b) ==
    /\ At(b, "rename") /\ final[Id(b)] = Absent
    /\ final' = [final EXCEPT ![Id(b)] = stages[b]]
    /\ stages' = [stages EXCEPT ![b] = Absent]
    /\ returned' = returned \cup {[id |-> Id(b), content |-> Content(b)]}
    /\ builds' = [builds EXCEPT ![b] = Idle]

\* Faulty variant: every failed rename starts the build again.
EveryFailureRetries(b) == Build("look", Id(b), Content(b))

\* os.rename raised OSError, because another build was first or for a reason of the file
\* system: with a manifest in place the build starts again (and finds it), otherwise the
\* error is raised.
AfterFailedRename(b) ==
    IF final[Id(b)] # Absent /\ final[Id(b)].manifest # Absent
    THEN Build("look", Id(b), Content(b)) ELSE Failed("OSError")

\* Either way the stage is removed.
RenameFails(b) ==
    /\ At(b, "rename")
    /\ stages' = [stages EXCEPT ![b] = Absent]
    /\ builds' = [builds EXCEPT ![b] = AfterFailedRename(b)]
    /\ UNCHANGED <<final, returned>>

\* An error while the stage is filled: the finally clause removes it.
FillFails(b) ==
    /\ At(b, "fill")
    /\ stages' = [stages EXCEPT ![b] = Absent]
    /\ builds' = [builds EXCEPT ![b] = Failed("OSError")]
    /\ UNCHANGED <<final, returned>>

\* The caller sees the error; the same import may be started again.
Report(b) ==
    /\ At(b, "failed")
    /\ builds' = [builds EXCEPT ![b] = Idle]
    /\ UNCHANGED <<final, stages, returned>>

\* The process dies; a stage left behind keeps a name nobody uses again.
Crash(b) ==
    /\ builds[b] # Idle
    /\ builds' = [builds EXCEPT ![b] = Idle]
    /\ stages' = [stages EXCEPT ![b] = Absent]
    /\ UNCHANGED <<final, returned>>

Step(b) ==
    \/ LookFound(b) \/ LookMissed(b) \/ Verify(b)
    \/ \E t \in Tables : WriteTable(b, t)
    \/ WriteManifest(b) \/ Rename(b)
    \/ FillFails(b) \/ RenameFails(b) \/ Report(b)

DirectoryNext ==
    \E b \in Importers :
        \/ \E id \in Ids, content \in Contents : Start(b, id, content)
        \/ Step(b) \/ Crash(b)

DirectorySpec == DirectoryInit /\ [][DirectoryNext]_directoryVars

\* A running build takes its next step; nothing makes a failing file system recover.
FairDirectorySpec == DirectorySpec /\ \A b \in Importers : WF_directoryVars(Step(b))
--------------------------------------------------------------------------------

DirectoriesOnce == INSTANCE WriteOnce WITH
    Places <- Ids, Empty <- Absent, published <- final,
    Values <- {WholeDirectory(content) : content \in Contents}

\* A snapshot appears under its id complete, all tables and the manifest from one build,
\* and never changes: whatever builds of the same id run, fail, die or run again.
SnapshotsAppearWholeAndStay == DirectoriesOnce!Spec

\* Whatever manifest a build returned is the one its id has on disk, so that runs and the
\* command line that imported the same data work with the same tables.
ReturnedSnapshotIsStored ==
    \A manifest \in returned : final[manifest.id] = WholeDirectory(manifest.content)

\* Starting a build again inside a build comes to an end, also when the file system keeps
\* refusing to rename.
BuildsEnd == \A b \in Importers : builds[b] # Idle ~> builds[b] = Idle

================================================================================
