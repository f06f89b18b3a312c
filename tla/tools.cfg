\* Two tool calls at a time: sending in three transactions, and waiting.
SPECIFICATION FairToolsSpec
CONSTANTS
    alice = alice
    bob = bob
    Person = {alice, bob}
    Device = {}
    Owner <- MCOwner
    ThreadId = {t1}
    Id = {m1}
    PeerId = {}
    Body = {b1}
    Sec = 2
    MaxAge = 4
    MaxSkew = 0
    AckGrace = 2
    HardTTL = 2
    MaxLag = 0
    MaxClock = 2
    GrantAsked = {"outbound"}
    Call = {c1, c2}
    MaxWaits = 1
    ClientType = {"claude.ai", "chatgpt"}
    Cap <- MCCap
    HalfWord = 4
    WaitAsked <- MCFewAsked
INVARIANTS
    ToolsTypeOK
    AnswersAreTrue
    SlotsAreHeldByWaits
    WaitsWithinProfile
PROPERTY WaitsEnd
