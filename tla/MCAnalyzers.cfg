SPECIFICATION Spec
CONSTANTS
    Monitors = {m1, m2}
    Nobody = nobody
    Tops <- MCTops
    Kpis <- MCKpis
    MaxAnalyzers = 5
    MaxSettings = 2
    MaxEvents = 2
    MaxBatch = 2
SYMMETRY Symmetry
INVARIANTS
    TypeOK
    LinksAgree
    HeardOnceInOrder
    TopHearsLast
    FollowsPhone
CHECK_DEADLOCK FALSE
