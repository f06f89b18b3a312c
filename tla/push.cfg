\* One daemon, two sockets, two messages: superseded and dropped connections,
\* stalled writes, restarts, and a store that fails to read the inbox or to
\* record an acknowledgement, in every order.
SPECIFICATION Spec
CONSTANTS
    Device = {laptop}
    Conn = {c1, c2}
    Message = {m1, m2}
    None = None
    MaxFaults = 1
    MaxStoreErrors = 1
SYMMETRY MCSymmetry
INVARIANTS
    TypeOK
    NoLostWakeup
    NoDeafSocket
PROPERTIES
    ImplementsDelivery
