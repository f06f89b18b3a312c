\* One message through the outbound gate, delivered to two devices and swept, by
\* callers whose clock readings lag behind the commit.
SPECIFICATION FairSpec
CONSTANTS
    alice = alice
    bob = bob
    carol = carol
    laptop = laptop
    phone = phone
    Person = {alice, bob}
    Device = {laptop, phone}
    Owner <- MCOwner
    ThreadId = {t1}
    Id = {m1}
    PeerId = {}
    Body = {b1, b2}
    Sec = 1
    MaxAge = 1
    MaxSkew = 0
    AckGrace = 1
    HardTTL = 2
    MaxLag = 1
    MaxClock = 4
    GrantAsked = {"outbound"}
INVARIANTS
    TypeOK
    SentAsReviewed
PROPERTIES
    ImplementsGatedMail
    PendingIsNeverSwept
    UnackedIsKept
    MailExpires
