\* One daemon whose socket is lost or superseded, over a store that may fail:
\* mail still gets through unless the store failed under an open socket,
\* goroutines end, and a revoked device is cut off.
SPECIFICATION FairSpec
CONSTANTS
    Device = {laptop}
    Conn = {c1, c2}
    Message = {m1}
    None = None
    MaxFaults = 1
    MaxStoreErrors = 1
PROPERTIES
    EventuallySettled
    RevokedIsSevered
    GoroutinesEnd
