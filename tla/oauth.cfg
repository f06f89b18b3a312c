\* Two requests at a time over two codes and the tokens rotated out of them,
\* for a registered client and for one that is hosted under its own URL.
SPECIFICATION Spec
CONSTANTS
    alice = alice
    Device = {laptop}
    Owner <- MCOwner
    Client = {app}
    Hosted <- MCHosted
    Redirect <- MCRedirect
    Verifier = {v1}
    Request = {r1, r2}
    CodeTTL = 1
    RefreshTTL = 2
    AccessTTL = 1
    ClientTTL = 1
    MaxCodes = 2
    MaxTokens = 2
    MaxClock = 2
SYMMETRY MCSymmetry
INVARIANTS
    TypeOK
    AccessEndsAfterRevocation
    ClientInUseIsRegistered
PROPERTIES
    SpentByItsClient
    ImplementsBaton
