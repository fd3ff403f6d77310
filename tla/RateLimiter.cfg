SPECIFICATION Spec
CONSTANTS
    Groups = {g1, g2, g3}
    Ordered = {g1, g2}
    Throughput = 3
    BatchSize = 3
    MaxPolls = 2
INVARIANTS
    TypeOK
    DebtIsQueue
    BurstBound
