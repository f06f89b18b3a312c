\* Signed envelopes from anyone to anyone, copies of everything that was ever
\* ingested, three people so that a stranger to a thread exists, and every method
\* the store exports, on a clock of half-second ticks that its callers may have
\* read a tick before they commit.
SPECIFICATION Spec
CONSTANTS
    alice = alice
    bob = bob
    carol = carol
    laptop = laptop
    phone = phone
    Person = {alice, bob, carol}
    Device = {laptop}
    Owner <- MCOwner
    ThreadId = {t1}
    Id = {m1, m2}
    PeerId = {m1}
    Body = {b1}
    Sec = 2
    MaxAge = 1
    MaxSkew = 1
    AckGrace = 2
    HardTTL = 2
    MaxLag = 1
    MaxClock = 3
    GrantAsked = {"inbound"}
SYMMETRY MCSymmetry
INVARIANTS
    TombstoneCoversWindow
    MailStaysBetweenParties
    SurfacedIffActionable
PROPERTY ArrivesOnceUnlessLate
