\* The long poll reports activity that check_inbox does not show.
SPECIFICATION RelaySpec
CONSTANTS
    alice = alice
    bob = bob
    carol = carol
    laptop = laptop
    phone = phone
    Person = {alice, bob}
    Device = {}
    Owner <- MCOwner
    ThreadId = {t1}
    Id = {m1, m2}
    PeerId = {}
    Body = {b1}
    Sec = 1
    MaxAge = 1
    MaxSkew = 0
    AckGrace = 3
    HardTTL = 3
    MaxLag = 0
    MaxClock = 1
    GrantAsked = {}
INVARIANT ActivityMeansWork
