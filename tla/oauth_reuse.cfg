\* A reuse is detected while another request is rotating the same chain.
SPECIFICATION Spec
CONSTANTS
    alice = alice
    Device = {laptop}
    Owner <- MCOwner
    Client = {app}
    Hosted = {}
    Redirect <- MCRedirect
    Verifier = {v1}
    Request = {r1, r2}
    CodeTTL = 1
    RefreshTTL = 2
    AccessTTL = 1
    ClientTTL = 1
    MaxCodes = 2
    MaxTokens = 2
    MaxClock = 2
INVARIANT ReuseForcesReauth
