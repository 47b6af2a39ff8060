SPECIFICATION Spec
CONSTANTS
    Corpora <- MCCorpora
    TrackLimits = {5, 6, 7}
    Days = {1, 2, 3}
    MaxGenerations = 2
INVARIANTS
    StatesShowChange
    ManifestIsLast
    PlanIsStable
