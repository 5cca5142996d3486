\* Bounds: as in MCPrograms.cfg; numbers up to 50 over a sieve of 6: 14 has one
\* factor beyond it, 49 two.
CONSTANTS
    RingValues = {a, b}
    MaxCapacity = 6
    MaxDue = 6
    ListValues = {0, 1, 2}
    MaxCount = 5
    EntryKeys <- MCEntryKeys
    Matrices <- MCMatrices
    MaxTerms = 5
    Inputs <- MCInputs
    Sieved = 6
    MaxTyped = 2
    MaxLit = 2
    MaxLine = 2
    Leftovers = {"?", "x"}
    PBound = 2
    Chunks = 2
    MaxPKeys = 3
    MaxDropped = 1
SPECIFICATION Spec
INVARIANT
    DecompositionPrinted
CHECK_DEADLOCK FALSE
