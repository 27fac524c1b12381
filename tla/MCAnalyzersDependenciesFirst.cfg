SPECIFICATION Spec
CONSTANTS
    Monitors = {m1}
    Nobody = nobody
    Tops <- MCManager
    Kpis <- MCSharing
    MaxAnalyzers = 4
    MaxSettings = 3
    MaxEvents = 0
    MaxBatch = 0
INVARIANTS
    DependenciesFirst
CHECK_DEADLOCK FALSE
