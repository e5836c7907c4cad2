CONSTANTS
    Ids <- MCThreeIds
    Clients = {c1}
    Assignments <- MCWeights
    Bodies <- MCWeightBodies
    Patches <- MCPatches
    FirstRows <- MCFirstRows
    MaxVersion = 2
    Skenarios = {1, 2}
    SumTarget = 2
SPECIFICATION Spec
INVARIANTS
    ActiveWeightsAddUp
CHECK_DEADLOCK FALSE
