CONSTANTS
    MaxBytes = 2
    BufSize = 2
    SniBuf = 2
    SniRead = 2
SPECIFICATION FairSpec
INVARIANTS BytesCounted
PROPERTIES BothPipes OneEndsBoth SocketsClosed CancelReturns
