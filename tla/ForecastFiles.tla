------------------------------ MODULE ForecastFiles ------------------------------
(***************************************************************************)
(* The files of one forecast (build_forecast_payload, write_records and     *)
(* _publish_json).  A forecast is named by its input without the run, so    *)
(* several runs, the command line of ekt.forecast and every retry publish   *)
(* into the same directory.  Each file is written to a temporary name and   *)
(* linked to its final name, which fails if the name is taken; then the     *)
(* contents are compared.  The last file, forecast.json, seals the set.     *)
(*                                                                         *)
(* A Parquet file holds its records as one release of pyarrow encodes them  *)
(* (pyproject.toml allows >=17,<24; the release is part of the bytes).      *)
(* What the records are is the free choice of the builder: a later release  *)
(* of the program may compute other values for the same identity.           *)
(***************************************************************************)
EXTENDS Naturals, Sequences

CONSTANTS
    Builders,       \* processes that compute this forecast
    Classes,        \* values of the classification tables
    Demands,        \* values of the corrected demand table
    Series,         \* values of the forecast series and their quality
    Encoders,       \* releases of pyarrow
    NoFile          \* no file under that name

Files == <<"classifications", "signed_classifications", "corrected_demand",
           "artifact_refs", "forecast">>
FileNames == {Files[i] : i \in DOMAIN Files}

\* What one builder computes, and the release of the encoder it runs with.
Results == [classes : Classes, demand : Demands, series : Series, encoder : Encoders]

VARIABLES
    disk,           \* final names -> bytes
    builders,       \* what each builder computed and the next file it publishes
    returnedForecasts        \* HISTORY: forecasts handed back to a caller

fileVars == <<disk, builders, returnedForecasts>>

NotBuilding == [step |-> "idle"]
AtFile(result, number) == [step |-> "publish", result |-> result, next |-> number]
Refused(result, file) == [step |-> "conflict", result |-> result, file |-> file]

\* Tables are encoded; the sidecar lists checksums of encoded tables; forecast.json
\* names its tables by path and holds the rest.
Bytes(result, file) ==
    CASE file \in {"classifications", "signed_classifications"} ->
            <<file, result.classes, result.encoder>>
      [] file = "corrected_demand" -> <<file, result.demand, result.encoder>>
      [] file = "artifact_refs" -> <<file, result.classes, result.demand, result.encoder>>
      [] OTHER -> <<file, result.series>>

\* A file is never mistaken for the absence of one.
ASSUME AbsentIsNoFile == \A r \in Results : \A f \in FileNames : Bytes(r, f) # NoFile

ForecastInit ==
    /\ disk = [f \in FileNames |-> NoFile]
    /\ builders = [b \in Builders |-> NotBuilding]
    /\ returnedForecasts = {}

\* The tables and the forecast are computed in memory, before any file is touched.
Compute(b, result) ==
    /\ builders[b] = NotBuilding
    /\ builders' = [builders EXCEPT ![b] = AtFile(result, 1)]
    /\ UNCHANGED <<disk, returnedForecasts>>

Publishing(b) == builders[b].step = "publish" /\ builders[b].next <= Len(Files)
NextFile(b) == Files[builders[b].next]
NextBytes(b) == Bytes(builders[b].result, NextFile(b))

\* Faulty variant: os.replace instead of os.link.
MayReplace(file) == TRUE

\* os.link fails when the name exists.
MayLink(file) == disk[file] = NoFile

\* The complete temporary file gets its final name in one step.
Link(b) ==
    /\ Publishing(b) /\ MayLink(NextFile(b))
    /\ disk' = [disk EXCEPT ![NextFile(b)] = NextBytes(b)]
    /\ builders' = [builders EXCEPT ![b] = AtFile(@.result, @.next + 1)]
    /\ UNCHANGED returnedForecasts

\* Faulty variant: whatever is there is taken for one's own.
AnythingMatches(file, bytes) == TRUE

\* FileExistsError: the checksum (or text) of the published file is compared.
Matches(file, bytes) == disk[file] = bytes

FindSame(b) ==
    /\ Publishing(b) /\ disk[NextFile(b)] # NoFile /\ Matches(NextFile(b), NextBytes(b))
    /\ builders' = [builders EXCEPT ![b] = AtFile(@.result, @.next + 1)]
    /\ UNCHANGED <<disk, returnedForecasts>>

\* ARTIFACT_CONFLICT: the build ends, files it already published stay.
FindOther(b) ==
    /\ Publishing(b) /\ disk[NextFile(b)] # NoFile /\ ~ Matches(NextFile(b), NextBytes(b))
    /\ builders' = [builders EXCEPT ![b] = Refused(@.result, NextFile(b))]
    /\ UNCHANGED <<disk, returnedForecasts>>

Return(b) ==
    /\ builders[b].step = "publish" /\ builders[b].next > Len(Files)
    /\ returnedForecasts' = returnedForecasts \cup {builders[b].result}
    /\ builders' = [builders EXCEPT ![b] = NotBuilding]
    /\ UNCHANGED disk

\* The caller learns of the conflict and may try again.
ReportConflict(b) ==
    /\ builders[b].step = "conflict"
    /\ builders' = [builders EXCEPT ![b] = NotBuilding]
    /\ UNCHANGED <<disk, returnedForecasts>>

\* A kill, or an I/O error while a temporary file is written: published files stay.
Stop(b) ==
    /\ builders[b].step = "publish"
    /\ builders' = [builders EXCEPT ![b] = NotBuilding]
    /\ UNCHANGED <<disk, returnedForecasts>>

ForecastNext ==
    \E b \in Builders :
        \/ \E result \in Results : Compute(b, result)
        \/ Link(b) \/ FindSame(b) \/ FindOther(b)
        \/ Return(b) \/ ReportConflict(b) \/ Stop(b)

ForecastSpec == ForecastInit /\ [][ForecastNext]_fileVars

--------------------------------------------------------------------------------

\* All files on disk are those of one computation with one encoder.
WrittenBy(result) == \A f \in FileNames : disk[f] = Bytes(result, f)

\* Whoever finds forecast.json (last to be published) finds the complete files of a
\* single computation, however many builders with different results, kills and retries
\* took part in publishing them.
SealedForecastIsWhole == disk["forecast"] # NoFile => \E result \in Results : WrittenBy(result)

\* A forecast that was handed to a run keeps every file its references name.
ReturnedForecastsStay == \A result \in returnedForecasts : WrittenBy(result)

FilesOnce == INSTANCE WriteOnce WITH
    Places <- FileNames, Empty <- NoFile, published <- disk,
    Values <- {Bytes(result, f) : result \in Results, f \in FileNames}

\* The files implement write-once publication: no name ever changes its bytes.
ImplementsWriteOnce == FilesOnce!Spec

\* artifacts.py:46 says of write_records "Reusing a path with identical records is safe;
\* different contents is an error": a conflict over a table means that its records differ.
TableFiles == {"classifications", "signed_classifications", "corrected_demand"}
SameRecords(result, file, bytes) ==
    \E encoder \in Encoders : Bytes([result EXCEPT !.encoder = encoder], file) = bytes
IdenticalRecordsAreSafe ==
    \A b \in Builders :
        builders[b].step = "conflict" /\ builders[b].file \in TableFiles
            => ~ SameRecords(builders[b].result, builders[b].file, disk[builders[b].file])

================================================================================
