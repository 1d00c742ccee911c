SPECIFICATION FairSpec
CONSTANTS
    Writers = {w1, w2}
    Readers = {r1}
    Gens = {g1, g2}
    NoGen = NoGen
    Nobody = Nobody
    MaxStops = 2
    MaxBadChecks = 1
INVARIANTS TypeOK Recoverable ReadersSeeCurrent
PROPERTIES Linearizable AdvanceResolves
