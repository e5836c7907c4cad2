CONSTANTS
    Ids <- MCIds
    Clients = {c1, c2}
    Assignments <- MCAssignments
    Bodies <- MCAllBodies
    Patches <- MCAllPatches
    FirstRows <- MCFirstRows
    MaxVersion = 2
    Skenarios = {1, 2}
    SumTarget = 2
SYMMETRY MCSymmetry
SPECIFICATION Spec
INVARIANTS
    TypeOK
    PdSingleCurve
    WeightsAddUp
    NaturalKeysUnique
    ReferencesResolve
    MergedValid
    RatingCacheFresh
PROPERTIES
    BodyFrozen
CHECK_DEADLOCK FALSE
