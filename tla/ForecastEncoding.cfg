SPECIFICATION ForecastSpec
CONSTANTS
    Builders = {worker, cli}
    Classes = {c1}
    Demands = {d1}
    Series = {s1}
    Encoders = {v17, v23}
    NoFile = NoFile
SYMMETRY BuilderSymmetry
INVARIANT IdenticalRecordsAreSafe
