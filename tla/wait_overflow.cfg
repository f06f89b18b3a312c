\* A timeout whose product leaves the machine word.
SPECIFICATION ToolsSpec
CONSTANTS
    alice = alice
    bob = bob
    Person = {alice, bob}
    Device = {}
    Owner <- MCOwner
    ThreadId = {t1}
    Id = {m1}
    PeerId = {}
    Body = {b1}
    Sec = 3
    MaxAge = 3
    MaxSkew = 0
    AckGrace = 3
    HardTTL = 3
    MaxLag = 0
    MaxClock = 2
    GrantAsked = {"outbound"}
    Call = {c1, c2}
    MaxWaits = 1
    ClientType = {"claude.ai", "chatgpt"}
    Cap <- MCCap
    HalfWord = 4
    WaitAsked <- MCAsked
INVARIANT LongWaitsGetTheCap
