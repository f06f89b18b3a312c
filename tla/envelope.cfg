\* Pairs of documents, and envelopes that are signed, changed and verified.
SPECIFICATION Spec
CONSTANTS
    Scalar <- MCScalar
    Name <- MCName
    Small <- MCSmall
    MaxMembers = 2
    Key = {k1, k2}
    Text <- MCText
    VersionSeen = {1, 2}
    Moment <- MCMoment
    MaxSignatures = 1
    MaxBodyBytes = 4
    MaxWireBytes = 50
    MaxParts = 2
\* Documents are finished at some length.
CHECK_DEADLOCK FALSE
INVARIANTS
    CanonicalIffEqual
    MembersInUTF16Order
    VerifiedIsSigned
    SignedVerifies
