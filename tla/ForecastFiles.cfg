SPECIFICATION ForecastSpec
CONSTANTS
    Builders = {worker, cli}
    Classes = {c1, c2}
    Demands = {d1, d2}
    Series = {s1, s2}
    Encoders = {v17, v23}
    NoFile = NoFile
SYMMETRY BuilderSymmetry
INVARIANT SealedForecastIsWhole
PROPERTY ImplementsWriteOnce
