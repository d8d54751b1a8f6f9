SPECIFICATION FairDirectorySpec
CONSTANTS
    Importers = {worker, cli}
    Ids = {id1, id2}
    Contents = {old, new}
    Tables = {sales, quarantine}
    Absent = Absent
INVARIANT ReturnedSnapshotIsStored
PROPERTIES SnapshotsAppearWholeAndStay BuildsEnd
