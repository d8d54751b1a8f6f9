------------------------------ MODULE ArtifactProofs ------------------------------
(***************************************************************************)
(* The files under the artifact root, proved for any number of builders,    *)
(* imports, requests and contents: the files of a forecast, the directory   *)
(* of an imported snapshot and the files of a prepared one.                 *)
(*                                                                         *)
(* Forecasts: a published file never changes, and forecast.json is found     *)
(* only with all the files of one computation.  A builder's progress         *)
(* carries the proof: the files before its next one are its own, whoever     *)
(* published them.  Imports: a stage is only ever filled by its own build,   *)
(* so what is renamed is whole.  Preparations: rows and files agree although *)
(* files outlive the transaction that writes them; the invariant says what   *)
(* an open transaction may rely on.                                          *)
(***************************************************************************)
EXTENDS ForecastFiles, SnapshotDirectories, BuyerPreparation, SequenceTheorems, FiniteSetTheorems, TLAPS

--------------------------------------------------------------------------------
(* The files of a forecast.                                                 *)

\* The files that a builder has passed hold what it computed.
Progress(state) ==
    state.step = "publish" =>
        /\ state.result \in Results
        /\ state.next \in 1 .. 6
        /\ \A i \in 1 .. 5 : i < state.next => disk[Files[i]] = Bytes(state.result, Files[i])

FilesInv ==
    /\ disk \in [FileNames -> {NoFile} \cup {Bytes(result, f) : result \in Results, f \in FileNames}]
    /\ DOMAIN builders = Builders
    /\ \A b \in Builders : Progress(builders[b])
    /\ returnedForecasts \subseteq Results
    /\ SealedForecastIsWhole
    /\ ReturnedForecastsStay

\* Five names in order, no name twice.
LEMMA FileNumbers ==
    /\ Len(Files) = 5
    /\ \A i \in 1 .. 5 : Files[i] \in FileNames
    /\ \A f \in FileNames : \E i \in 1 .. 5 : f = Files[i]
    /\ \A i, j \in 1 .. 5 : Files[i] = Files[j] => i = j
    /\ "forecast" \in FileNames /\ Files[5] = "forecast"
PROOF BY DEF Files, FileNames

LEMMA FilesInvInit == ForecastInit => FilesInv
PROOF BY FileNumbers DEF ForecastInit, FilesInv, Progress, NotBuilding, SealedForecastIsWhole, ReturnedForecastsStay

\* A builder that steps somewhere else without touching a file keeps the invariant
\* as soon as its own new state does.
LEMMA QuietFileStep ==
    ASSUME FilesInv, NEW b \in Builders, NEW state, Progress(state), UNCHANGED disk,
           builders' = [builders EXCEPT ![b] = state],
           returnedForecasts' \subseteq Results, \A result \in returnedForecasts' : WrittenBy(result)
    PROVE  FilesInv'
<1>1. \A c \in Builders : Progress(builders'[c])
    BY DEF FilesInv
<1>2. \A result \in Results : WrittenBy(result) => WrittenBy(result)'
    BY DEF WrittenBy
<1>3. (\A c \in Builders : Progress(builders[c]))'
    BY <1>1 DEF Progress
<1>4. SealedForecastIsWhole' /\ ReturnedForecastsStay'
    BY DEF FilesInv, SealedForecastIsWhole, ReturnedForecastsStay, WrittenBy
<1> QED BY <1>3, <1>4 DEF FilesInv

\* Publishing under a free name disturbs no file that anyone relies on.
LEMMA LinkStep ==
    ASSUME FilesInv, NEW b \in Builders, Link(b)
    PROVE  FilesInv'
<1> DEFINE s == builders[b]
<1> DEFINE n == s.next
<1>1. s.step = "publish" /\ s.result \in Results /\ n \in 1 .. 5
    BY FileNumbers DEF FilesInv, Link, Publishing, Progress
<1>2. Files[n] \in FileNames /\ disk[Files[n]] = NoFile
      /\ disk' = [disk EXCEPT ![Files[n]] = Bytes(s.result, Files[n])]
    BY <1>1, FileNumbers DEF Link, MayLink, NextFile, NextBytes
<1>3. \A f \in FileNames : disk[f] # NoFile => disk'[f] = disk[f]
    BY <1>2 DEF FilesInv
<1>4. disk' \in [FileNames -> {NoFile} \cup {Bytes(result, f) : result \in Results, f \in FileNames}]
    BY <1>1, <1>2 DEF FilesInv
<1>5. builders' = [builders EXCEPT ![b] = AtFile(s.result, n + 1)] /\ DOMAIN builders' = Builders
    BY DEF Link, FilesInv
<1>6. \A c \in Builders : Progress(builders[c])'
    <2> SUFFICES ASSUME NEW c \in Builders, builders'[c].step = "publish"
                 PROVE  /\ builders'[c].result \in Results
                        /\ builders'[c].next \in 1 .. 6
                        /\ \A i \in 1 .. 5 : i < builders'[c].next
                                => disk'[Files[i]] = Bytes(builders'[c].result, Files[i])
        BY DEF Progress
    <2>1. CASE c = b
        <3>1. builders'[c].result = s.result /\ builders'[c].next = n + 1
            BY <1>5, <2>1 DEF FilesInv, AtFile
        <3>2. \A i \in 1 .. 5 : i < n => disk[Files[i]] = Bytes(s.result, Files[i])
            BY <1>1 DEF FilesInv, Progress
        <3>3. \A i \in 1 .. 5 : i < n => disk'[Files[i]] = Bytes(s.result, Files[i])
            BY <1>1, <1>3, <3>2, FileNumbers, AbsentIsNoFile
        <3>4. disk'[Files[n]] = Bytes(s.result, Files[n])
            BY <1>2 DEF FilesInv
        <3> QED BY <1>1, <3>1, <3>3, <3>4
    <2>2. CASE c # b
        <3>1. builders'[c] = builders[c]
            BY <1>5, <2>2 DEF FilesInv
        <3>2. \A i \in 1 .. 5 : i < builders[c].next => disk[Files[i]] # NoFile
            BY <3>1, FileNumbers, AbsentIsNoFile DEF FilesInv, Progress
        <3> QED BY <3>1, <3>2, <1>3, FileNumbers DEF FilesInv, Progress
    <2> QED BY <2>1, <2>2
<1>7. \A result \in Results : WrittenBy(result) => WrittenBy(result)'
    BY <1>3, AbsentIsNoFile DEF WrittenBy
<1>8. ReturnedForecastsStay' /\ returnedForecasts' \subseteq Results
    BY <1>7 DEF Link, FilesInv, ReturnedForecastsStay
<1>9. SealedForecastIsWhole'
    <2>1. CASE n = 5
        <3>1. \A i \in 1 .. 5 : disk'[Files[i]] = Bytes(s.result, Files[i])
            BY <1>1, <1>2, <1>3, <2>1, FileNumbers, AbsentIsNoFile DEF FilesInv, Progress
        <3>2. PICK result \in Results : result = s.result
            BY <1>1
        <3>3. WrittenBy(result)'
            BY <3>1, <3>2, FileNumbers DEF WrittenBy
        <3> QED BY <3>3 DEF SealedForecastIsWhole
    <2>2. CASE n # 5
        <3>1. disk'["forecast"] = disk["forecast"]
            BY <1>1, <1>2, <2>2, FileNumbers DEF FilesInv
        <3> QED BY <1>7, <3>1 DEF FilesInv, SealedForecastIsWhole
    <2> QED BY <2>1, <2>2
<1> QED BY <1>4, <1>5, <1>6, <1>8, <1>9 DEF FilesInv

\* A name that is taken by the same bytes counts as published.
LEMMA FindSameStep ==
    ASSUME FilesInv, NEW b \in Builders, FindSame(b)
    PROVE  FilesInv'
<1> DEFINE s == builders[b]
<1> DEFINE n == s.next
<1>1. s.step = "publish" /\ s.result \in Results /\ n \in 1 .. 5
      /\ \A i \in 1 .. 5 : i < n => disk[Files[i]] = Bytes(s.result, Files[i])
    BY FileNumbers DEF FilesInv, FindSame, Publishing, Progress
<1>2. disk[Files[n]] = Bytes(s.result, Files[n])
    BY DEF FindSame, Matches, NextFile, NextBytes
<1>3. Progress(AtFile(s.result, n + 1))
    BY <1>1, <1>2 DEF Progress, AtFile
<1>4. builders' = [builders EXCEPT ![b] = AtFile(s.result, n + 1)] /\ UNCHANGED <<disk, returnedForecasts>>
    BY DEF FindSame
<1>5. \A result \in returnedForecasts' : WrittenBy(result)
    BY <1>4 DEF FilesInv, ReturnedForecastsStay
<1>6. returnedForecasts' \subseteq Results
    BY <1>4 DEF FilesInv
<1> QED BY <1>3, <1>4, <1>5, <1>6, QuietFileStep

\* A builder that has passed all five names returns references to its own files.
LEMMA ReturnStep ==
    ASSUME FilesInv, NEW b \in Builders, Return(b)
    PROVE  FilesInv'
<1> DEFINE s == builders[b]
<1>1. s.result \in Results /\ \A i \in 1 .. 5 : disk[Files[i]] = Bytes(s.result, Files[i])
    BY FileNumbers DEF FilesInv, Return, Progress
<1>2. WrittenBy(s.result)
    BY <1>1, FileNumbers DEF WrittenBy
<1>3. returnedForecasts' \subseteq Results /\ \A result \in returnedForecasts' : WrittenBy(result)
    BY <1>1, <1>2 DEF Return, FilesInv, ReturnedForecastsStay
<1>4. Progress(NotBuilding)
    BY DEF Progress, NotBuilding
<1> QED BY <1>3, <1>4, QuietFileStep DEF Return

LEMMA ComputeStep ==
    ASSUME FilesInv, NEW b \in Builders, NEW result \in Results, Compute(b, result)
    PROVE  FilesInv'
<1>1. Progress(AtFile(result, 1))
    BY DEF Progress, AtFile
<1>2. builders' = [builders EXCEPT ![b] = AtFile(result, 1)] /\ UNCHANGED <<disk, returnedForecasts>>
    BY DEF Compute
<1>3. \A other \in returnedForecasts' : WrittenBy(other)
    BY <1>2 DEF FilesInv, ReturnedForecastsStay
<1>4. returnedForecasts' \subseteq Results
    BY <1>2 DEF FilesInv
<1> QED BY <1>1, <1>2, <1>3, <1>4, QuietFileStep

\* Conflicts, reports and kills only change what a builder is doing.
LEMMA EndStep ==
    ASSUME FilesInv, NEW b \in Builders, FindOther(b) \/ ReportConflict(b) \/ Stop(b)
    PROVE  FilesInv'
<1>1. Progress(NotBuilding) /\ Progress(Refused(builders[b].result, NextFile(b)))
    BY DEF Progress, NotBuilding, Refused
<1>2. UNCHANGED <<disk, returnedForecasts>>
    BY DEF FindOther, ReportConflict, Stop
<1>3. \A result \in returnedForecasts' : WrittenBy(result)
    BY <1>2 DEF FilesInv, ReturnedForecastsStay
<1>4. \/ builders' = [builders EXCEPT ![b] = NotBuilding]
      \/ builders' = [builders EXCEPT ![b] = Refused(builders[b].result, NextFile(b))]
    BY DEF FindOther, ReportConflict, Stop
<1> QED BY <1>1, <1>2, <1>3, <1>4, QuietFileStep DEF FilesInv

LEMMA FilesInvKept == FilesInv /\ [ForecastNext]_fileVars => FilesInv'
<1> SUFFICES ASSUME FilesInv, [ForecastNext]_fileVars PROVE FilesInv'
    OBVIOUS
<1>1. CASE UNCHANGED fileVars
    BY <1>1 DEF fileVars, FilesInv, Progress, SealedForecastIsWhole, ReturnedForecastsStay, WrittenBy
<1>2. CASE ForecastNext
    BY <1>2, ComputeStep, LinkStep, FindSameStep, ReturnStep, EndStep DEF ForecastNext
<1> QED BY <1>1, <1>2

\* IInv holds in every reachable state.
THEOREM FilesInvariant == ForecastSpec => []FilesInv
PROOF BY FilesInvInit, FilesInvKept, PTL DEF ForecastSpec

\* Whoever finds forecast.json finds the complete files of one computation.
THEOREM SealedIsWhole == ForecastSpec => []SealedForecastIsWhole
<1>1. FilesInv => SealedForecastIsWhole
    BY DEF FilesInv
<1> QED BY <1>1, FilesInvariant, PTL

\* The references of a forecast that was returned stay good for ever.
THEOREM ReturnedStay == ForecastSpec => []ReturnedForecastsStay
<1>1. FilesInv => ReturnedForecastsStay
    BY DEF FilesInv
<1> QED BY <1>1, FilesInvariant, PTL

\* A step publishes one value under one free name, or nothing.
LEMMA StepPublishesOnce == FilesInv /\ [ForecastNext]_fileVars => [FilesOnce!Next]_disk
<1> SUFFICES ASSUME FilesInv, [ForecastNext]_fileVars, disk' # disk PROVE FilesOnce!Next
    OBVIOUS
<1>1. PICK b \in Builders : Link(b)
    BY DEF ForecastNext, fileVars, Compute, FindSame, FindOther, Return, ReportConflict, Stop
<1>2. builders[b].result \in Results /\ builders[b].next \in 1 .. 5
    BY <1>1, FileNumbers DEF FilesInv, Link, Publishing, Progress
<1>3. NextFile(b) \in FileNames /\ FilesOnce!Publish(NextFile(b), NextBytes(b))
    BY <1>1, <1>2, FileNumbers DEF Link, MayLink, NextFile, FilesOnce!Publish
<1>4. NextBytes(b) \in {Bytes(result, f) : result \in Results, f \in FileNames}
    BY <1>2, <1>3 DEF NextBytes
<1> QED BY <1>3, <1>4 DEF FilesOnce!Next

\* The directory of a forecast implements write-once publication.
THEOREM FilesAreWrittenOnce == ForecastSpec => ImplementsWriteOnce
<1>1. ForecastInit => FilesOnce!Init
    BY DEF ForecastInit, FilesOnce!Init
<1> QED BY <1>1, StepPublishesOnce, FilesInvariant, PTL DEF ForecastSpec, ImplementsWriteOnce, FilesOnce!Spec

--------------------------------------------------------------------------------
(* The directories of imported snapshots.                                   *)

Wholes == {WholeDirectory(content) : content \in Contents}
Steps == {"look", "verify", "fill", "rename"}
Codes == {"INCOMPLETE_SNAPSHOT", "ARTIFACT_CHECKSUM_MISMATCH", "OSError"}
Builds == {Idle} \cup [step : Steps, id : Ids, content : Contents]
              \cup [step : {"failed"}, code : Codes]
Directories == [tables : [Tables -> Contents \cup {Absent}], manifest : Contents \cup {Absent}]

DirectoryShapes ==
    /\ final \in [Ids -> Wholes \cup {Absent}]
    /\ stages \in [Importers -> Directories \cup {Absent}]
    /\ builds \in [Importers -> Builds]

\* A stage that is being filled holds tables of its own build and no manifest; one that
\* is about to be renamed is whole.
StagesAreOwn ==
    \A b \in Importers :
        /\ At(b, "fill") =>
              /\ stages[b] \in Directories
              /\ \A t \in Tables : stages[b].tables[t] \in {Absent, Content(b)}
        /\ At(b, "rename") => stages[b] = WholeDirectory(Content(b))

\* A build that found a directory finds it again: nothing is ever removed.
FoundIsThere == \A b \in Importers : At(b, "verify") => final[Id(b)] # Absent

ReturnedInvariant ==
    \A manifest \in returned :
        /\ manifest.id \in Ids
        /\ final[manifest.id] = WholeDirectory(manifest.content)

DirectoriesInv == DirectoryShapes /\ StagesAreOwn /\ FoundIsThere /\ ReturnedInvariant
     /\ \A manifest \in returned : manifest.content \in Contents

LEMMA DirectoriesInvInit == DirectoryInit => DirectoriesInv
PROOF BY DEF DirectoryInit, DirectoriesInv, DirectoryShapes, StagesAreOwn, FoundIsThere, ReturnedInvariant, At, Builds, Idle

\* What a step that publishes nothing has to show of the build that takes it.
LEMMA QuietBuildStep ==
    ASSUME DirectoriesInv, NEW b \in Importers, UNCHANGED <<final, returned>>,
           NEW build \in Builds, NEW stage \in Directories \cup {Absent},
           builds' = [builds EXCEPT ![b] = build], stages' = [stages EXCEPT ![b] = stage],
           build.step = "fill" =>
              stage \in Directories /\ \A t \in Tables : stage.tables[t] \in {Absent, build.content},
           build.step = "rename" => stage = WholeDirectory(build.content),
           build.step = "verify" => final[build.id] # Absent
    PROVE  DirectoriesInv'
<1>1. DirectoryShapes'
    BY DEF DirectoriesInv, DirectoryShapes
<1>2. builds'[b] = build /\ stages'[b] = stage
    BY DEF DirectoriesInv, DirectoryShapes
<1>3. \A a \in Importers \ {b} : builds'[a] = builds[a] /\ stages'[a] = stages[a]
    BY DEF DirectoriesInv, DirectoryShapes
<1>4. StagesAreOwn'
    BY <1>2, <1>3 DEF DirectoriesInv, StagesAreOwn, At, Content
<1>5. FoundIsThere'
    BY <1>2, <1>3 DEF DirectoriesInv, FoundIsThere, At, Id
<1>6. ReturnedInvariant' /\ \A manifest \in returned' : manifest.content \in Contents
    BY DEF DirectoriesInv, ReturnedInvariant
<1> QED BY <1>1, <1>4, <1>5, <1>6 DEF DirectoriesInv

\* A build that is at a step of its own knows its id and content.
LEMMA Working ==
    ASSUME DirectoriesInv, NEW b \in Importers, NEW step \in Steps, At(b, step)
    PROVE  /\ Id(b) \in Ids /\ Content(b) \in Contents
           /\ builds[b] = Build(step, Id(b), Content(b))
           /\ \A next \in Steps : Build(next, Id(b), Content(b)) \in Builds
<1>1. builds[b] \in Builds
    BY DEF DirectoriesInv, DirectoryShapes
<1>2. builds[b] \in [step : Steps, id : Ids, content : Contents]
    BY <1>1 DEF Builds, At, Steps, Idle
<1> QED BY <1>2 DEF At, Id, Content, Build, Builds

LEMMA FailedBuild == Failed("OSError") \in Builds /\ Failed("OSError").step = "failed"
PROOF BY DEF Failed, Builds, Codes

LEMMA IdleBuild == Idle \in Builds /\ Idle.step = "idle"
PROOF BY DEF Idle, Builds

--------------------------------------------------------------------------------
(* One lemma per kind of step.                                              *)

LEMMA StartKeeps ==
    ASSUME DirectoriesInv, NEW b \in Importers, NEW id \in Ids, NEW content \in Contents, Start(b, id, content)
    PROVE  DirectoriesInv'
<1> DEFINE build == Build("look", id, content)
<1>1. build \in Builds /\ build.step = "look"
    BY DEF Build, Builds, Steps
<1>2. stages' = [stages EXCEPT ![b] = stages[b]] /\ stages[b] \in Directories \cup {Absent}
    BY DEF Start, DirectoriesInv, DirectoryShapes
<1> QED BY <1>1, <1>2, QuietBuildStep DEF Start

LEMMA LookKeeps ==
    ASSUME DirectoriesInv, NEW b \in Importers, LookFound(b) \/ LookMissed(b)
    PROVE  DirectoriesInv'
<1>1. /\ Id(b) \in Ids /\ Content(b) \in Contents
      /\ \A next \in Steps : Build(next, Id(b), Content(b)) \in Builds
    BY Working DEF LookFound, LookMissed, Steps
<1>2. CASE LookFound(b)
    <2> DEFINE build == Build("verify", Id(b), Content(b))
    <2>1. build \in Builds /\ build.step = "verify" /\ build.id = Id(b)
        BY <1>1 DEF Build, Steps
    <2>2. stages' = [stages EXCEPT ![b] = stages[b]] /\ stages[b] \in Directories \cup {Absent}
        BY <1>2 DEF LookFound, DirectoriesInv, DirectoryShapes
    <2> QED BY <1>2, <2>1, <2>2, QuietBuildStep DEF LookFound, MovesTo
<1>3. CASE LookMissed(b)
    <2> DEFINE build == Build("fill", Id(b), Content(b))
    <2>1. build \in Builds /\ build.step = "fill"
        BY <1>1 DEF Build, Steps
    <2>2. EmptyDirectory \in Directories /\ \A t \in Tables : EmptyDirectory.tables[t] = Absent
        BY DEF EmptyDirectory, Directories
    <2> QED BY <1>3, <2>1, <2>2, QuietBuildStep DEF LookMissed, MovesTo
<1> QED BY <1>2, <1>3

LEMMA WholeIsIntact ==
    ASSUME NEW content \in Contents
    PROVE  /\ Intact(WholeDirectory(content)) /\ Verified(WholeDirectory(content)) = Idle
           /\ WholeDirectory(content).manifest = content
PROOF BY DirectoryAssumption DEF WholeDirectory, Intact, TablesMatch, Verified

\* What is found under a final name passes the verification and is returned as it is.
LEMMA VerifyKeeps == ASSUME DirectoriesInv, NEW b \in Importers, Verify(b) PROVE DirectoriesInv'
<1>1. Id(b) \in Ids
    BY Working DEF Verify, Steps
<1>2. PICK content \in Contents : final[Id(b)] = WholeDirectory(content)
    BY <1>1 DEF DirectoriesInv, DirectoryShapes, FoundIsThere, Wholes, Verify
<1>3. /\ returned' = returned \cup {[id |-> Id(b), content |-> content]}
      /\ builds' = [builds EXCEPT ![b] = Idle]
    BY <1>2, WholeIsIntact DEF Verify, ExistingManifest
<1>4. UNCHANGED <<final, stages>>
    BY DEF Verify
<1>5. DirectoryShapes' /\ StagesAreOwn' /\ FoundIsThere'
    BY <1>3, <1>4, IdleBuild DEF DirectoriesInv, DirectoryShapes, StagesAreOwn, FoundIsThere, At, Id, Content
<1>6. ReturnedInvariant' /\ \A manifest \in returned' : manifest.content \in Contents
    BY <1>1, <1>2, <1>3, <1>4 DEF DirectoriesInv, ReturnedInvariant
<1> QED BY <1>5, <1>6 DEF DirectoriesInv

LEMMA WriteTableKeeps ==
    ASSUME DirectoriesInv, NEW b \in Importers, NEW t \in Tables, WriteTable(b, t)
    PROVE  DirectoriesInv'
<1>1. /\ Content(b) \in Contents /\ builds[b] = Build("fill", Id(b), Content(b))
      /\ builds[b] \in Builds
    BY Working DEF WriteTable, Steps, DirectoriesInv, DirectoryShapes
<1>2. stages[b] \in Directories /\ \A u \in Tables : stages[b].tables[u] \in {Absent, Content(b)}
    BY DEF WriteTable, DirectoriesInv, StagesAreOwn
<1> DEFINE stage == [stages[b] EXCEPT !.tables[t] = Content(b)]
<1>3. stage \in Directories /\ \A u \in Tables : stage.tables[u] \in {Absent, Content(b)}
    BY <1>1, <1>2 DEF Directories
<1>4. stages' = [stages EXCEPT ![b] = stage] /\ builds' = [builds EXCEPT ![b] = builds[b]]
    BY DEF WriteTable, DirectoriesInv, DirectoryShapes
<1>5. builds[b].step = "fill" /\ builds[b].content = Content(b)
    BY DEF WriteTable, At, Content
<1>6. UNCHANGED <<final, returned>>
    BY DEF WriteTable
<1> HIDE DEF stage
<1> QED BY <1>1, <1>3, <1>4, <1>5, <1>6, QuietBuildStep

\* The last file makes the stage whole.
LEMMA WriteManifestKeeps == ASSUME DirectoriesInv, NEW b \in Importers, WriteManifest(b) PROVE DirectoriesInv'
<1>1. /\ Content(b) \in Contents
      /\ \A next \in Steps : Build(next, Id(b), Content(b)) \in Builds
    BY Working DEF WriteManifest, Steps
<1>2. stages[b] \in Directories /\ \A u \in Tables : stages[b].tables[u] \in {Absent, Content(b)}
    BY DEF WriteManifest, DirectoriesInv, StagesAreOwn
<1> DEFINE stage == [stages[b] EXCEPT !.manifest = Content(b)]
           build == Build("rename", Id(b), Content(b))
<1>3. stage \in Directories
    BY <1>1, <1>2 DEF Directories
<1>4. \A u \in Tables : stages[b].tables[u] = Content(b)
    BY <1>2 DEF WriteManifest, AllTablesStaged
<1>5. stages[b].tables = [u \in Tables |-> Content(b)]
    BY <1>2, <1>4 DEF Directories
<1>6. stage = WholeDirectory(Content(b))
    BY <1>2, <1>5 DEF Directories, WholeDirectory
<1>7. stages' = [stages EXCEPT ![b] = stage]
    BY DEF WriteManifest, DirectoriesInv, DirectoryShapes
<1>8. build \in Builds /\ build.step = "rename" /\ build.content = Content(b)
    BY <1>1 DEF Build, Steps
<1> QED BY <1>3, <1>6, <1>7, <1>8, QuietBuildStep DEF WriteManifest, MovesTo

\* The only step that changes a final name fills an empty one with a whole directory.
LEMMA RenameShape ==
    ASSUME DirectoriesInv, NEW b \in Importers, Rename(b)
    PROVE  /\ Id(b) \in Ids /\ Content(b) \in Contents /\ final[Id(b)] = Absent
           /\ final' = [final EXCEPT ![Id(b)] = WholeDirectory(Content(b))]
PROOF BY Working DEF Rename, Steps, DirectoriesInv, StagesAreOwn

LEMMA RenameKeeps == ASSUME DirectoriesInv, NEW b \in Importers, Rename(b) PROVE DirectoriesInv'
<1>1. /\ Id(b) \in Ids /\ Content(b) \in Contents /\ final[Id(b)] = Absent
      /\ final' = [final EXCEPT ![Id(b)] = WholeDirectory(Content(b))]
    BY RenameShape
<1>2. /\ builds' = [builds EXCEPT ![b] = Idle] /\ stages' = [stages EXCEPT ![b] = Absent]
      /\ returned' = returned \cup {[id |-> Id(b), content |-> Content(b)]}
    BY DEF Rename
<1>3. DirectoryShapes'
    BY <1>1, <1>2, IdleBuild DEF DirectoriesInv, DirectoryShapes, Wholes
<1>4. builds'[b] = Idle /\ \A a \in Importers \ {b} : builds'[a] = builds[a] /\ stages'[a] = stages[a]
    BY <1>2 DEF DirectoriesInv, DirectoryShapes
<1>5. StagesAreOwn'
    BY <1>4, IdleBuild DEF DirectoriesInv, StagesAreOwn, At, Content
<1>6. WholeDirectory(Content(b)) # Absent
    BY <1>1, DirectoryAssumption
<1>7. \A id \in Ids : final[id] # Absent => final'[id] = final[id]
    BY <1>1 DEF DirectoriesInv, DirectoryShapes
<1>8. FoundIsThere'
    <2> SUFFICES ASSUME NEW a \in Importers, At(a, "verify")' PROVE (final[Id(a)] # Absent)'
        BY DEF FoundIsThere
    <2>1. a # b /\ At(a, "verify") /\ Id(a)' = Id(a)
        BY <1>4, IdleBuild DEF At, Id
    <2>2. final[Id(a)] # Absent /\ Id(a) \in Ids
        BY <2>1, Working DEF DirectoriesInv, FoundIsThere, Steps
    <2> QED BY <1>7, <2>1, <2>2
<1>9. ReturnedInvariant' /\ \A manifest \in returned' : manifest.content \in Contents
    <2>1. final'[Id(b)] = WholeDirectory(Content(b))
        BY <1>1 DEF DirectoriesInv, DirectoryShapes
    <2>2. \A manifest \in returned : final[manifest.id] # Absent
        BY DirectoryAssumption DEF DirectoriesInv, ReturnedInvariant
    <2>3. \A manifest \in returned : final'[manifest.id] = final[manifest.id]
        BY <1>7, <2>2 DEF DirectoriesInv, ReturnedInvariant
    <2> QED BY <1>1, <1>2, <2>1, <2>3 DEF DirectoriesInv, ReturnedInvariant
<1> QED BY <1>3, <1>5, <1>8, <1>9 DEF DirectoriesInv

\* Errors, reports and kills: the stage is gone, the build has failed, ended or starts again.
LEMMA LeavingKeeps ==
    ASSUME DirectoriesInv, NEW b \in Importers, RenameFails(b) \/ FillFails(b) \/ Report(b) \/ Crash(b)
    PROVE  DirectoriesInv'
<1>1. CASE RenameFails(b)
    <2>1. AfterFailedRename(b) \in Builds /\ AfterFailedRename(b).step \in {"look", "failed"}
        <3>1. \A next \in Steps : Build(next, Id(b), Content(b)) \in Builds
            BY <1>1, Working DEF RenameFails, Steps
        <3> QED BY <3>1, FailedBuild DEF AfterFailedRename, Build, Steps
    <2> QED BY <1>1, <2>1, QuietBuildStep DEF RenameFails
<1>2. CASE FillFails(b)
    BY <1>2, FailedBuild, QuietBuildStep DEF FillFails
<1>3. CASE Report(b)
    <2>1. stages' = [stages EXCEPT ![b] = stages[b]] /\ stages[b] \in Directories \cup {Absent}
        BY <1>3 DEF Report, DirectoriesInv, DirectoryShapes
    <2> QED BY <1>3, <2>1, IdleBuild, QuietBuildStep DEF Report
<1>4. CASE Crash(b)
    BY <1>4, IdleBuild, QuietBuildStep DEF Crash
<1> QED BY <1>1, <1>2, <1>3, <1>4

LEMMA DirectoriesInvKept == ASSUME DirectoriesInv, [DirectoryNext]_directoryVars PROVE DirectoriesInv'
<1>1. CASE UNCHANGED directoryVars
    BY <1>1 DEF directoryVars, DirectoriesInv, DirectoryShapes, StagesAreOwn, FoundIsThere, ReturnedInvariant, At, Id, Content
<1>2. CASE DirectoryNext
    <2>1. PICK b \in Importers :
             (\E id \in Ids, content \in Contents : Start(b, id, content)) \/ Step(b) \/ Crash(b)
        BY <1>2 DEF DirectoryNext
    <2>2. CASE \E id \in Ids, content \in Contents : Start(b, id, content)
        BY <2>2, StartKeeps
    <2>3. CASE Step(b)
        BY <2>3, LookKeeps, VerifyKeeps, WriteTableKeeps, WriteManifestKeeps, RenameKeeps, LeavingKeeps
           DEF Step
    <2>4. CASE Crash(b)
        BY <2>4, LeavingKeeps
    <2> QED BY <2>1, <2>2, <2>3, <2>4
<1> QED BY <1>1, <1>2

--------------------------------------------------------------------------------
(* Theorems.                                                                *)

\* The invariant above holds in every reachable state, for any builders, snapshots,
\* tables and results (build_snapshot_payload).
THEOREM BuildsInvariant == DirectorySpec => []DirectoriesInv
<1> QED BY DirectoriesInvInit, DirectoriesInvKept, PTL DEF DirectorySpec

\* Two imports of the same data get the same tables: the one that loses the race for the
\* name returns what the winner stored, and what was returned is never replaced.
THEOREM ReturnedIsStored == DirectorySpec => []ReturnedSnapshotIsStored
<1>1. DirectoriesInv => ReturnedSnapshotIsStored
    BY DEF DirectoriesInv, ReturnedInvariant, ReturnedSnapshotIsStored
<1> QED BY <1>1, BuildsInvariant, PTL

\* The artifact root refines write-once publication: a directory appears under its final
\* name whole, with tables and manifest of one build, and is never changed.
THEOREM DirectoriesAreWrittenOnce == DirectorySpec => SnapshotsAppearWholeAndStay
<1>1. DirectoryInit => DirectoriesOnce!Init
    BY DEF DirectoryInit, DirectoriesOnce!Init
<1>2. DirectoriesInv /\ [DirectoryNext]_directoryVars => [DirectoriesOnce!Next]_final
    <2> SUFFICES ASSUME DirectoriesInv, [DirectoryNext]_directoryVars, final' # final PROVE DirectoriesOnce!Next
        OBVIOUS
    <2>1. PICK b \in Importers : Rename(b)
        BY DEF DirectoryNext, Step, directoryVars, Start, LookFound, LookMissed, Verify, WriteTable, WriteManifest,
               RenameFails, FillFails, Report, Crash
    <2>2. DirectoriesOnce!Publish(Id(b), WholeDirectory(Content(b)))
        BY <2>1, RenameShape DEF DirectoriesOnce!Publish
    <2> QED BY <2>1, <2>2, RenameShape DEF DirectoriesOnce!Next
<1> QED BY <1>1, <1>2, BuildsInvariant, PTL DEF DirectorySpec, SnapshotsAppearWholeAndStay, DirectoriesOnce!Spec

--------------------------------------------------------------------------------
(* Why builds end.                                                          *)

\* The tables a stage still lacks.
Blank(stage) == {t \in Tables : stage.tables[t] = Absent}

\* The steps a build may still take.  Starting again after a failed rename is not far,
\* because the directory that stands under the name is found then.
Distance(b) ==
    CASE At(b, "idle") -> 0
      [] At(b, "failed") -> 1
      [] At(b, "verify") -> 2
      [] At(b, "look") -> IF final[Id(b)] # Absent THEN 3 ELSE Cardinality(Tables) + 6
      [] At(b, "rename") -> 4
      [] At(b, "fill") -> 5 + Cardinality(Blank(stages[b]))

\* What the distance is at each step of a build.
LEMMA DistanceAtStep ==
    ASSUME NEW b \in Importers
    PROVE  /\ At(b, "idle") => Distance(b) = 0
           /\ At(b, "failed") => Distance(b) = 1
           /\ At(b, "verify") => Distance(b) = 2
           /\ At(b, "look") => Distance(b) = IF final[Id(b)] # Absent THEN 3 ELSE Cardinality(Tables) + 6
           /\ At(b, "rename") => Distance(b) = 4
           /\ At(b, "fill") => Distance(b) = 5 + Cardinality(Blank(stages[b]))
PROOF BY DEF Distance, At

\* The same of the next state.
LEMMA DistanceNext ==
    ASSUME NEW b \in Importers
    PROVE  /\ builds'[b].step = "idle" => Distance(b)' = 0
           /\ builds'[b].step = "failed" => Distance(b)' = 1
           /\ builds'[b].step = "verify" => Distance(b)' = 2
           /\ builds'[b].step = "look" =>
                 Distance(b)' = IF final'[builds'[b].id] # Absent THEN 3 ELSE Cardinality(Tables) + 6
           /\ builds'[b].step = "rename" => Distance(b)' = 4
           /\ builds'[b].step = "fill" => Distance(b)' = 5 + Cardinality(Blank(stages'[b]))
PROOF BY DEF Distance, At, Id

\* A build is idle, failed or at one of its steps.
LEMMA SomeStep ==
    ASSUME DirectoriesInv, NEW b \in Importers
    PROVE  /\ At(b, "idle") \/ At(b, "failed") \/ \E step \in Steps : At(b, step)
           /\ At(b, "idle") <=> builds[b] = Idle
PROOF BY DEF DirectoriesInv, DirectoryShapes, Builds, At, Idle, Steps

\* The tables that are not written yet can be counted.
LEMMA BlankCounts ==
    ASSUME NEW stage
    PROVE  /\ IsFiniteSet(Blank(stage)) /\ Cardinality(Tables) \in Nat
           /\ Cardinality(Blank(stage)) \in Nat /\ Cardinality(Blank(stage)) <= Cardinality(Tables)
<1>1. Blank(stage) \in SUBSET Tables
    BY DEF Blank
<1> QED BY <1>1, DirectoryAssumption, FS_Subset, FS_CardinalityType

\* The distance is a natural number, and 0 when there is nothing to do.
LEMMA DistanceIsNatural ==
    ASSUME DirectoriesInv, NEW b \in Importers
    PROVE  Distance(b) \in Nat /\ (Distance(b) = 0 <=> builds[b] = Idle)
<1>1. Cardinality(Blank(stages[b])) \in Nat /\ Cardinality(Tables) \in Nat
    BY BlankCounts
<1> QED BY <1>1, SomeStep, DistanceAtStep DEF Steps

\* A table that is written leaves one fewer to write.
LEMMA WritingIsNearer ==
    ASSUME DirectoriesInv, NEW b \in Importers, NEW t \in Tables, WriteTable(b, t)
    PROVE  Distance(b)' < Distance(b)
<1>1. Content(b) \in Contents /\ Content(b) # Absent
    BY Working, DirectoryAssumption DEF WriteTable, Steps
<1>2. stages[b] \in Directories
    BY DEF WriteTable, DirectoriesInv, StagesAreOwn
<1>3. stages'[b] = [stages[b] EXCEPT !.tables[t] = Content(b)]
    BY DEF WriteTable, DirectoriesInv, DirectoryShapes
<1>4. Blank(stages'[b]) = Blank(stages[b]) \ {t}
    BY <1>1, <1>2, <1>3 DEF Blank, Directories
<1>5. t \in Blank(stages[b])
    BY DEF WriteTable, Blank
<1>6. Cardinality(Blank(stages[b]) \ {t}) = Cardinality(Blank(stages[b])) - 1
    BY <1>5, BlankCounts, FS_RemoveElement
<1>7. Distance(b)' = 5 + Cardinality(Blank(stages'[b]))
    BY DistanceNext DEF WriteTable, At
<1>8. Distance(b) = 5 + Cardinality(Blank(stages[b])) /\ Cardinality(Blank(stages[b])) \in Nat
    BY DistanceAtStep, BlankCounts DEF WriteTable
<1> QED BY <1>4, <1>6, <1>7, <1>8

\* A failed rename leads back to a look that finds the directory, or to an error.
LEMMA RetryIsNearer ==
    ASSUME DirectoriesInv, NEW b \in Importers, RenameFails(b)
    PROVE  Distance(b)' < Distance(b)
<1>1. builds'[b] = AfterFailedRename(b) /\ final' = final
    BY DEF RenameFails, DirectoriesInv, DirectoryShapes
<1>2. Distance(b) = 4
    BY DistanceAtStep DEF RenameFails
<1>3. CASE AfterFailedRename(b) = Failed("OSError")
    BY <1>1, <1>2, <1>3, FailedBuild, DistanceNext
<1>4. CASE AfterFailedRename(b) = Build("look", Id(b), Content(b)) /\ final[Id(b)] # Absent
    <2>1. Distance(b)' = 3
        BY <1>1, <1>4, DistanceNext DEF Build
    <2> QED BY <2>1, <1>2
<1> QED BY <1>3, <1>4 DEF AfterFailedRename

\* Every step of a build brings it nearer to its end.
LEMMA StepIsNearer ==
    ASSUME DirectoriesInv, NEW b \in Importers, Step(b)
    PROVE  Distance(b)' < Distance(b)
<1>1. DOMAIN builds = Importers /\ DOMAIN stages = Importers
    BY DEF DirectoriesInv, DirectoryShapes
<1>2. CASE LookFound(b)
    BY <1>1, <1>2, DistanceAtStep, DistanceNext DEF LookFound, MovesTo, Build
<1>3. CASE LookMissed(b)
    <2>1. builds'[b].step = "fill"
        BY <1>1, <1>3 DEF LookMissed, MovesTo, Build
    <2>2. Distance(b)' <= 5 + Cardinality(Tables) /\ Distance(b)' \in Nat
        BY <2>1, DistanceNext, BlankCounts
    <2>3. Distance(b) = Cardinality(Tables) + 6 /\ Cardinality(Tables) \in Nat
        BY <1>3, DistanceAtStep, BlankCounts DEF LookMissed
    <2> QED BY <2>2, <2>3
<1>4. CASE Verify(b)
    <2>1. builds'[b].step \in {"failed", "idle"}
        BY <1>1, <1>4 DEF Verify, Verified, Failed, Idle
    <2> QED BY <2>1, <1>4, DistanceAtStep, DistanceNext DEF Verify
<1>5. CASE \E t \in Tables : WriteTable(b, t)
    BY <1>5, WritingIsNearer
<1>6. CASE WriteManifest(b)
    <2>1. builds'[b].step = "rename"
        BY <1>1, <1>6 DEF WriteManifest, MovesTo, Build
    <2>2. Distance(b) >= 5 /\ Distance(b) \in Nat
        BY <1>6, DistanceAtStep, BlankCounts DEF WriteManifest
    <2> QED BY <2>1, <2>2, DistanceNext
<1>7. CASE Rename(b) \/ Report(b)
    <2>1. builds'[b].step = "idle"
        BY <1>1, <1>7, IdleBuild DEF Rename, Report
    <2> QED BY <2>1, <1>7, DistanceAtStep, DistanceNext DEF Rename, Report
<1>8. CASE FillFails(b)
    <2>1. builds'[b].step = "failed"
        BY <1>1, <1>8, FailedBuild DEF FillFails
    <2>2. Distance(b) >= 5 /\ Distance(b) \in Nat
        BY <1>8, DistanceAtStep, BlankCounts DEF FillFails
    <2> QED BY <2>1, <2>2, DistanceNext
<1>9. CASE RenameFails(b)
    BY <1>9, RetryIsNearer
<1> QED BY <1>2, <1>3, <1>4, <1>5, <1>6, <1>7, <1>8, <1>9 DEF Step

\* What other builds do never takes a build further from its end: a directory that is
\* there stays there.
LEMMA OthersDoNotDelay ==
    ASSUME DirectoriesInv, NEW b \in Importers, builds'[b] = builds[b], stages'[b] = stages[b],
           \A id \in Ids : final[id] # Absent => final'[id] = final[id]
    PROVE  Distance(b)' <= Distance(b)
<1>1. CASE At(b, "look")
    <2>1. Id(b) \in Ids
        BY <1>1, Working DEF Steps
    <2>2. Distance(b)' = IF final'[Id(b)] # Absent THEN 3 ELSE Cardinality(Tables) + 6
        BY <1>1, DistanceNext DEF At, Id
    <2> QED BY <1>1, <2>1, <2>2, DistanceAtStep, BlankCounts
<1>2. CASE ~ At(b, "look")
    <2>1. Distance(b)' = Distance(b)
        BY <1>2 DEF Distance, At
    <2> QED BY <2>1, DistanceIsNatural
<1> QED BY <1>1, <1>2

\* A directory that is there stays as it is.
LEMMA DirectoriesStay ==
    ASSUME DirectoriesInv, [DirectoryNext]_directoryVars
    PROVE  \A id \in Ids : final[id] # Absent => final'[id] = final[id]
<1>1. CASE \E b \in Importers : Rename(b)
    BY <1>1, RenameShape DEF DirectoriesInv, DirectoryShapes
<1>2. CASE ~ \E b \in Importers : Rename(b)
    BY <1>2 DEF DirectoryNext, Step, directoryVars, Start, LookFound, LookMissed, Verify, WriteTable,
                WriteManifest, RenameFails, FillFails, Report, Crash
<1> QED BY <1>1, <1>2

\* The reason why builds end (BuildsEnd): a step of a build brings it nearer to its end, the
\* new start after a failed rename included, and no other build can ever push it back
\* (build_snapshot_payload and its recursion).
THEOREM BuildsComeNearer ==
    DirectorySpec =>
        [][\A b \in Importers :
              /\ Distance(b) \in Nat
              /\ Step(b) => Distance(b)' < Distance(b)
              /\ builds[b] # Idle => Distance(b)' <= Distance(b)]_directoryVars
<1>1. ASSUME DirectoriesInv, [DirectoryNext]_directoryVars, NEW b \in Importers, builds[b] # Idle
      PROVE  Distance(b)' <= Distance(b)
    <2>1. CASE Step(b)
        <3>1. Distance(b)' < Distance(b) /\ Distance(b) \in Nat
            BY <2>1, <1>1, StepIsNearer, DistanceIsNatural
        <3>2. builds'[b] \in Builds
            BY <1>1, DirectoriesInvKept DEF DirectoriesInv, DirectoryShapes
        <3>3. builds'[b].step \in {"idle", "failed"} \cup Steps
            BY <3>2 DEF Builds, Idle
        <3>4. Distance(b)' \in Nat
            BY <3>3, DistanceNext, BlankCounts DEF Steps
        <3> QED BY <3>1, <3>4
    <2>2. CASE Crash(b)
        <3>1. builds'[b].step = "idle"
            BY <2>2, <1>1, IdleBuild DEF Crash, DirectoriesInv, DirectoryShapes
        <3>2. Distance(b)' = 0
            BY <3>1, DistanceNext
        <3> QED BY <3>2, <1>1, DistanceIsNatural
    <2>3. CASE ~ Step(b) /\ ~ Crash(b)
        <3>1. builds'[b] = builds[b] /\ stages'[b] = stages[b]
            BY <2>3, <1>1 DEF DirectoryNext, Step, directoryVars, Start, LookFound, LookMissed, Verify, WriteTable,
                   WriteManifest, Rename, RenameFails, FillFails, Report, Crash, MovesTo,
                   DirectoriesInv, DirectoryShapes
        <3> QED BY <3>1, <1>1, DirectoriesStay, OthersDoNotDelay
    <2> QED BY <2>1, <2>2, <2>3
<1>2. DirectoriesInv /\ [DirectoryNext]_directoryVars =>
          [\A b \in Importers :
              /\ Distance(b) \in Nat
              /\ Step(b) => Distance(b)' < Distance(b)
              /\ builds[b] # Idle => Distance(b)' <= Distance(b)]_directoryVars
    BY <1>1, StepIsNearer, DistanceIsNatural
<1> QED BY <1>2, BuildsInvariant, PTL DEF DirectorySpec

--------------------------------------------------------------------------------
(* The files of prepared snapshots.                                         *)

Transactions ==
    {NoTransaction} \cup [step : {"reserve", "write", "file"}, key : Keys, input : BuyerInputs, next : Nat \ {0}]

Building == transaction.step \in {"write", "file"}

PreparationShapes ==
    /\ transaction \in Transactions
    /\ snapshots \subseteq BuyerInputs
    /\ files \in [BuyerInputs -> [TableNames -> {"absent", "partial", "whole"}]]
    /\ audit \in Seq(BuyerInputs)

\* While a snapshot is built its key and its row are free, since nobody else writes rows.
BuildIsAlone ==
    Building => transaction.input \notin snapshots /\ Unused(transaction.key)

\* The files passed so far are whole, but for the one that is open.
FilesPassed ==
    /\ transaction.step = "reserve" => transaction.next = 1
    /\ Building =>
        /\ transaction.next <= Len(DerivedTables) + 1
        /\ transaction.step = "file" => transaction.next <= Len(DerivedTables)
        /\ \A j \in 1..(transaction.next - 1) :
              \/ files[transaction.input][DerivedTables[j]] = "whole"
              \/ transaction.step = "file" /\ DerivedTables[j] = DerivedTables[transaction.next]

AuditsStored == \A n \in DOMAIN audit : audit[n] \in snapshots

PreparationInv ==
    /\ PreparationShapes /\ BuildIsAlone /\ FilesPassed /\ AuditsStored
    /\ StoredSnapshotsAreWhole /\ KeysNameStoredSnapshots

LEMMA TableIndex == Len(DerivedTables) \in Nat /\ \A i \in Nat \ {0} : i <= Len(DerivedTables) => DerivedTables[i] \in TableNames
PROOF BY TablesAssumption DEF TableNames

LEMMA PreparationInvInit == PreparationInit => PreparationInv
PROOF BY EmptySeq DEF PreparationInit, PreparationInv, PreparationShapes, BuildIsAlone, FilesPassed, AuditsStored, Building, Transactions,
    NoTransaction, StoredSnapshotsAreWhole, KeysNameStoredSnapshots

\* A step that changes no row: the files must still be whole where it matters.
LEMMA SameRows ==
    ASSUME PreparationInv, UNCHANGED rows, PreparationShapes', BuildIsAlone', FilesPassed',
           \A input \in snapshots : files'[input] = files[input]
    PROVE  PreparationInv'
PROOF BY DEF PreparationInv, rows, AuditsStored, StoredSnapshotsAreWhole, KeysNameStoredSnapshots

\* The end of a transaction leaves nothing to rely on.
LEMMA Ended == ASSUME End PROVE ~ Building' /\ transaction'.step = "none" /\ transaction' \in Transactions
PROOF BY DEF End, Building, NoTransaction, Transactions

LEMMA BeginKeeps ==
    ASSUME PreparationInv, NEW h \in Handlers, NEW key \in Keys, NEW input \in BuyerInputs, Begin(h, key, input)
    PROVE  PreparationInv'
<1>1. /\ UNCHANGED <<rows, files>> /\ ~ Building' /\ transaction' \in Transactions
      /\ transaction'.next = 1
    BY DEF Begin, Building, Transactions
<1> QED BY <1>1, SameRows DEF PreparationInv, PreparationShapes, BuildIsAlone, FilesPassed, rows

LEMMA ReplayKeeps == ASSUME PreparationInv, NEW h \in Handlers, Replay(h) PROVE PreparationInv'
PROOF BY Ended, SameRows DEF Replay, PreparationInv, PreparationShapes, BuildIsAlone, FilesPassed, rows

LEMMA RaiseKeeps == ASSUME PreparationInv, NEW h \in Handlers, Raise(h) PROVE PreparationInv'
PROOF BY Ended, SameRows DEF Raise, RollBack, PreparationInv, PreparationShapes, BuildIsAlone, FilesPassed, rows

LEMMA KilledKeeps == ASSUME PreparationInv, Killed PROVE PreparationInv'
PROOF BY Ended, SameRows DEF Killed, PreparationInv, PreparationShapes, BuildIsAlone, FilesPassed, rows

LEMMA ReuseKeeps == ASSUME PreparationInv, NEW h \in Handlers, Reuse(h) PROVE PreparationInv'
<1>1. transaction.input \in snapshots /\ Unused(transaction.key)
    BY DEF Reuse, Stored
<1>2. ~ Building' /\ transaction'.step = "none" /\ transaction' \in Transactions
    BY Ended DEF Reuse
<1>3. KeysNameStoredSnapshots'
    BY <1>1 DEF Reuse, PreparationInv, KeysNameStoredSnapshots, Reservation, Unused
<1> QED BY <1>2, <1>3 DEF Reuse, PreparationInv, PreparationShapes, BuildIsAlone, FilesPassed, AuditsStored, StoredSnapshotsAreWhole

\* What a transaction that has begun knows of itself.
LEMMA Open ==
    ASSUME PreparationInv, NEW h \in Handlers, NEW step \in {"reserve", "write", "file"}, In(h, step)
    PROVE  transaction \in [step : {"reserve", "write", "file"}, key : Keys, input : BuyerInputs, next : Nat \ {0}]
PROOF BY DEF PreparationInv, PreparationShapes, Transactions, NoTransaction, In

LEMMA StartBuildKeeps == ASSUME PreparationInv, NEW h \in Handlers, StartBuild(h) PROVE PreparationInv'
<1>1. /\ transaction \in [step : {"reserve", "write", "file"}, key : Keys, input : BuyerInputs, next : Nat \ {0}]
      /\ transaction' = [transaction EXCEPT !.step = "write"] /\ UNCHANGED <<rows, files>>
    BY Open DEF StartBuild
<1>2. transaction.next = 1
    BY DEF StartBuild, In, PreparationInv, FilesPassed
<1>3. PreparationShapes'
    BY <1>1 DEF PreparationInv, PreparationShapes, Transactions, rows
<1>4. BuildIsAlone'
    BY <1>1 DEF StartBuild, Stored, BuildIsAlone, Unused, rows
<1>5. FilesPassed'
    BY <1>1, <1>2, TableIndex DEF FilesPassed
<1> QED BY <1>1, <1>3, <1>4, <1>5, SameRows

LEMMA OpenFileKeeps == ASSUME PreparationInv, NEW h \in Handlers, OpenFile(h) PROVE PreparationInv'
<1> DEFINE input == transaction.input
           name == DerivedTables[transaction.next]
<1>1. /\ transaction \in [step : {"reserve", "write", "file"}, key : Keys, input : BuyerInputs, next : Nat \ {0}]
      /\ transaction' = [transaction EXCEPT !.step = "file"] /\ UNCHANGED rows
      /\ transaction.step = "write" /\ transaction.next <= Len(DerivedTables)
    BY Open DEF OpenFile, In
<1>2. name \in TableNames /\ input \in BuyerInputs /\ input \notin snapshots
    BY <1>1, TableIndex DEF PreparationInv, BuildIsAlone, Building
<1>3. files' = [files EXCEPT ![input][name] = "partial"]
    BY DEF OpenFile
<1>4. PreparationShapes'
    BY <1>1, <1>2, <1>3 DEF PreparationInv, PreparationShapes, Transactions, rows
<1>5. BuildIsAlone'
    BY <1>1, <1>2 DEF PreparationInv, BuildIsAlone, Building, Unused, rows
<1>6. \A j \in 1..(transaction.next - 1) :
         files'[input][DerivedTables[j]] = "whole" \/ DerivedTables[j] = DerivedTables[transaction.next]
    <2> TAKE j \in 1..(transaction.next - 1)
    <2>1. DerivedTables[j] \in TableNames
        BY <1>1, TableIndex
    <2>2. files[input][DerivedTables[j]] = "whole"
        BY <1>1 DEF PreparationInv, FilesPassed, Building
    <2> QED BY <1>2, <1>3, <2>1, <2>2 DEF PreparationInv, PreparationShapes
<1>7. FilesPassed'
    BY <1>1, <1>6, TableIndex DEF FilesPassed
<1>8. \A other \in snapshots : files'[other] = files[other]
    BY <1>2, <1>3 DEF PreparationInv, PreparationShapes
<1> QED BY <1>1, <1>4, <1>5, <1>7, <1>8, SameRows

LEMMA CloseFileKeeps == ASSUME PreparationInv, NEW h \in Handlers, CloseFile(h) PROVE PreparationInv'
<1> DEFINE input == transaction.input
           name == DerivedTables[transaction.next]
<1>1. /\ transaction \in [step : {"reserve", "write", "file"}, key : Keys, input : BuyerInputs, next : Nat \ {0}]
      /\ transaction' = [transaction EXCEPT !.step = "write", !.next = @ + 1] /\ UNCHANGED rows
      /\ transaction.step = "file"
    BY Open DEF CloseFile, In
<1>2. /\ transaction.next <= Len(DerivedTables) /\ name \in TableNames
      /\ input \in BuyerInputs /\ input \notin snapshots
    BY <1>1, TableIndex DEF PreparationInv, BuildIsAlone, FilesPassed, Building
<1>3. files' = [files EXCEPT ![input][name] = "whole"]
    BY DEF CloseFile
<1>4. PreparationShapes'
    <2>1. transaction' \in Transactions
        <3>1. transaction.next + 1 \in Nat \ {0}
            BY <1>1
        <3>2. transaction' = [step |-> "write", key |-> transaction.key, input |-> input,
                              next |-> transaction.next + 1]
            BY <1>1
        <3> QED BY <1>1, <3>1, <3>2 DEF Transactions
    <2>2. files' \in [BuyerInputs -> [TableNames -> {"absent", "partial", "whole"}]]
        BY <1>2, <1>3 DEF PreparationInv, PreparationShapes
    <2> QED BY <1>1, <2>1, <2>2 DEF PreparationInv, PreparationShapes, rows
<1>5. BuildIsAlone'
    BY <1>1, <1>2 DEF PreparationInv, BuildIsAlone, Building, Unused, rows
<1>6. \A j \in 1..transaction.next : files'[input][DerivedTables[j]] = "whole"
    <2> TAKE j \in 1..transaction.next
    <2>1. DerivedTables[j] \in TableNames
        BY <1>1, <1>2, TableIndex
    <2>2. files[input][DerivedTables[j]] = "whole" \/ DerivedTables[j] = name
        BY <1>1 DEF PreparationInv, FilesPassed, Building
    <2> QED BY <1>2, <1>3, <2>1, <2>2 DEF PreparationInv, PreparationShapes
<1>7. FilesPassed'
    BY <1>1, <1>2, <1>6, TableIndex DEF FilesPassed
<1>8. \A other \in snapshots : files'[other] = files[other]
    BY <1>2, <1>3 DEF PreparationInv, PreparationShapes
<1> QED BY <1>1, <1>4, <1>5, <1>7, <1>8, SameRows

\* The row appears when the last file is closed, with its key and one audit event.
LEMMA CommitKeeps == ASSUME PreparationInv, NEW h \in Handlers, Commit(h) PROVE PreparationInv'
<1> DEFINE input == transaction.input
<1>1. /\ transaction \in [step : {"reserve", "write", "file"}, key : Keys, input : BuyerInputs, next : Nat \ {0}]
      /\ transaction.step = "write" /\ transaction.next > Len(DerivedTables)
      /\ snapshots' = snapshots \cup {input} /\ audit' = Append(audit, input) /\ UNCHANGED files
      /\ reservations' = reservations \cup {Reservation(transaction.key, input)}
    BY Open DEF Commit, In, EveryTableWritten
<1>2. input \in BuyerInputs /\ input \notin snapshots /\ Unused(transaction.key)
    BY <1>1 DEF PreparationInv, BuildIsAlone, Building
<1>3. ~ Building' /\ transaction'.step = "none" /\ transaction' \in Transactions
    BY Ended DEF Commit
<1>4. PreparationShapes' /\ BuildIsAlone' /\ FilesPassed'
    BY <1>1, <1>2, <1>3 DEF PreparationInv, PreparationShapes, BuildIsAlone, FilesPassed
<1>5. StoredSnapshotsAreWhole'
    <2>1. \A t \in TableNames : files[input][t] = "whole"
        <3> SUFFICES ASSUME NEW t \in TableNames PROVE files[input][t] = "whole"
            OBVIOUS
        <3>1. PICK i \in DOMAIN DerivedTables : t = DerivedTables[i]
            BY DEF TableNames
        <3>2. i \in 1..(transaction.next - 1)
            BY <1>1, TableIndex, TablesAssumption
        <3> QED BY <1>1, <3>1, <3>2 DEF PreparationInv, FilesPassed, Building
    <2> QED BY <1>1, <2>1 DEF PreparationInv, StoredSnapshotsAreWhole
<1>6. /\ audit \in Seq(BuyerInputs) /\ Len(audit) \in Nat /\ DOMAIN audit' = 1..(Len(audit) + 1)
      /\ DOMAIN audit = 1..Len(audit) /\ audit'[Len(audit) + 1] = input
      /\ \A n \in DOMAIN audit : audit'[n] = audit[n]
    BY <1>1, <1>2 DEF PreparationInv, PreparationShapes
<1>7. AuditsStored'
    BY <1>1, <1>6 DEF PreparationInv, AuditsStored
<1>8. /\ \A r \in reservations' : r.input \in snapshots'
      /\ \A r, s \in reservations' : r.key = s.key => r = s
    BY <1>1, <1>2 DEF PreparationInv, KeysNameStoredSnapshots, Reservation, Unused
<1>9. \A stored \in snapshots' : \E n \in DOMAIN audit' : audit'[n] = stored
    BY <1>1, <1>6 DEF PreparationInv, KeysNameStoredSnapshots
<1>10. \A m, n \in DOMAIN audit' : audit'[m] = audit'[n] => m = n
    BY <1>2, <1>6 DEF PreparationInv, KeysNameStoredSnapshots, AuditsStored
<1>11. KeysNameStoredSnapshots'
    BY <1>8, <1>9, <1>10 DEF KeysNameStoredSnapshots
<1> QED BY <1>4, <1>5, <1>7, <1>11 DEF PreparationInv

LEMMA PreparationInvKept == ASSUME PreparationInv, [PreparationNext]_preparationVars PROVE PreparationInv'
<1>1. CASE UNCHANGED preparationVars
    BY <1>1, SameRows DEF preparationVars, rows, PreparationInv, PreparationShapes, BuildIsAlone, FilesPassed, Building, Unused
<1>2. CASE PreparationNext
    BY <1>2, BeginKeeps, ReplayKeeps, ReuseKeeps, StartBuildKeeps, OpenFileKeeps, CloseFileKeeps, RaiseKeeps,
       CommitKeeps, KilledKeeps DEF PreparationNext
<1> QED BY <1>1, <1>2

--------------------------------------------------------------------------------
(* Theorems.                                                                *)

\* The invariant above holds in every reachable state, for any threads, keys, inputs and
\* tables (prepare).
THEOREM PreparationInvariant == PreparationSpec => []PreparationInv
<1> QED BY PreparationInvInit, PreparationInvKept, PTL DEF PreparationSpec

\* Whatever attempts failed or died before, a stored snapshot has all its files, complete.
THEOREM SnapshotsAreWhole == PreparationSpec => []StoredSnapshotsAreWhole
<1>1. PreparationInv => StoredSnapshotsAreWhole
    BY DEF PreparationInv
<1> QED BY <1>1, PreparationInvariant, PTL

\* A used key names one stored snapshot, never one that was rolled back, and each stored
\* snapshot was audited once.
THEOREM KeysNameSnapshots == PreparationSpec => []KeysNameStoredSnapshots
<1>1. PreparationInv => KeysNameStoredSnapshots
    BY DEF PreparationInv
<1> QED BY <1>1, PreparationInvariant, PTL

\* No request writes to the files of a stored snapshot, which a run may be reading.
THEOREM FilesAreNeverRewritten == PreparationSpec => StoredFilesAreNeverRewritten
<1>1. PreparationInv /\ [PreparationNext]_preparationVars => [\A input \in snapshots : files'[input] = files[input]]_preparationVars
    <2> SUFFICES ASSUME PreparationInv, PreparationNext, NEW input \in snapshots PROVE files'[input] = files[input]
        BY DEF preparationVars
    <2>1. CASE UNCHANGED files
        BY <2>1
    <2>2. CASE files' # files
        <3>1. PICK h \in Handlers : OpenFile(h) \/ CloseFile(h)
            BY <2>2 DEF PreparationNext, Begin, Replay, Reuse, StartBuild, Raise, Commit, Killed, rows
        <3>2. transaction.input \notin snapshots
            BY <3>1 DEF PreparationInv, BuildIsAlone, Building, OpenFile, CloseFile, In
        <3> QED BY <3>1, <3>2 DEF PreparationInv, PreparationShapes, OpenFile, CloseFile
    <2> QED BY <2>1, <2>2
<1> QED BY <1>1, PreparationInvariant, PTL DEF PreparationSpec, StoredFilesAreNeverRewritten

================================================================================
