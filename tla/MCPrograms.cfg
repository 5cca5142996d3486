\* Bounds: a ring of up to 6 elements, lists of up to 5 nodes, expressions of
\* up to 5 matrices, primes up to 6, a composite number as N is.  With threads:
\* a handful of keys, a queue of two events (a full one is reached within the
\* keys), one signal of two chunks at a time.
CONSTANTS
    RingValues = {a, b}
    MaxCapacity = 6
    MaxDue = 6
    ListValues = {0, 1, 2}
    MaxCount = 5
    EntryKeys <- MCEntryKeys
    Matrices <- MCMatrices
    MaxTerms = 5
    Inputs <- MCInputs
    Sieved = 6
    MaxTyped = 2
    MaxLit = 2
    MaxLine = 2
    Leftovers = {"?", "x"}
    PBound = 2
    Chunks = 2
    MaxPKeys = 3
    MaxDropped = 1
SPECIFICATION Spec
INVARIANTS
    RingIsFifo
    InsertSorts
    EntriesOwnedOnce
    CalcIsArithmetic
    AnswersSound
    LightsCountedOnce
    PlotIsOneSignal
PROPERTIES
    IsIntList
    DrainReachesEnd
    CounterQuitEnds
    LedQuitEnds
    PipeQuitEnds
CHECK_DEADLOCK FALSE
