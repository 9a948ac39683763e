SPECIFICATION Spec
CONSTANTS
    Keys = {k1, k2}
    Tags = {}
    Readers = {r1, r2}
    Setups <- AllSetups
    TriggerSets <- AtMostOne
    Nil = Nil
    MaxStores = 3
    MaxRises = 1
    MaxTime = 1
SYMMETRY Symmetry
INVARIANTS
    IndexesAgree
    WithinLimit
    FoundEntriesStay
    GenerationIdentifiesContent
PROPERTY
    ImplementsContract
