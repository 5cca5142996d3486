\* Bounds: for the computation a small image cut into 2 x 2 chunks; for the
\* sizes those of the code, with 8 steps of 20 pixels as one; for the board
\* two messages on the way.
CONSTANTS
    Divide = 2
    Width = 6
    Height = 4
    Step = 2
    MaxWidth = 8
    InitialWidth = 640
    InitialHeight = 480
    PixelChange = 160
    DivideConstant = 10
    MaxChange = 640
    MaxC = 1
    MaxImageWidth = 2800
    Chunks <- MCChunks
    Parameters = {p1}
    NoParameters = NoParameters
    MaxOnTheWay = 2
SPECIFICATION PartsSpec
INVARIANTS
    CursorMatchesCid
    StoredInPlace
    SizesAgree
    NothingCarriedOver
    ChunksTile
    PixelsInOrder
PROPERTY ReportsEnd
