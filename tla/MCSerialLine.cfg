SPECIFICATION LineSpec
CONSTANTS
    BufSize = 3
    Lengths = {2, 3}
    MaxMessages = 2
    MaxOnWire = 1
    MaxLost = 1
    MaxOrders = 2
INVARIANTS
    StreamIntact
    TransmitterOn
    OrdersIntact
PROPERTIES
    LinkSpec
    BoardLinkSpec
CHECK_DEADLOCK FALSE
