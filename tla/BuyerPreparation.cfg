SPECIFICATION PreparationSpec
CONSTANTS
    Handlers = {h1, h2}
    Keys = {k1, k2, k3}
    BuyerInputs = {i1, i2, i3}
    DerivedTables <- TwoTables
    Free = Free
SYMMETRY Symmetry
INVARIANTS StoredSnapshotsAreWhole KeysNameStoredSnapshots
PROPERTY StoredFilesAreNeverRewritten
