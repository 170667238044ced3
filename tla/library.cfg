SPECIFICATION LibrarySpec
CONSTANTS
    Delays = {0, 1, 2}
    MaxTimers = 2
    MaxClock = 4
    MaxNonce = 2
    MaxTexts = 4
    MaxDamage = 1
    GroupBits = 2
    Width = 3
    MaxBuffer = 5
    ByteRadix = 5
    TextRadix = 3
    Header <- MCHeader
    KeyLength = 1
    MaxText = 6
    IdBits = 3
    LocalId = 5
    MaxPeers = 4
INVARIANTS
    OneShotOnce
    SameChannel
    PeerAuthentic
    FailureHasCause
    NonceOnce
    ParsersAgree
    PeerIdCanonical
    ClosestAreNearest
PROPERTIES
    SpanStable
CHECK_DEADLOCK FALSE
