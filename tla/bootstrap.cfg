\* Two processes of two versions that start, race, crash and enroll devices.
SPECIFICATION Spec
CONSTANTS
    Proc = {p1, p2}
    Binary = {1, 2}
    Email = {e1, e2}
    PubKey = {k1, k2}
    MaxInvites = 2
    MaxKeys = 2
SYMMETRY MCSymmetry
INVARIANTS
    TypeOK
    CredentialsSurvive
    RosterIsConsistent
    StoreIsMigrated
