-------------------------------- MODULE OAuth --------------------------------
(***************************************************************************)
(* The relay as an OAuth authorization server: oauth_authorize.go,         *)
(* oauth_token.go, oauth_dcr.go and the tables of store/oauth.go.          *)
(*                                                                         *)
(* Every store method is atomic; a handler is not.  It makes several store *)
(* calls, carrying what the earlier ones returned and one reading of the   *)
(* clock, and other handlers, the sweeper and the administrator run        *)
(* between any two of them.  Each request therefore has a stage, and each  *)
(* store call is an action from one stage to the next.  A refusal of the   *)
(* first call of a request is the absence of a step; a later refusal, a    *)
(* failing call and a restart of the process send the request to "idle".   *)
(*                                                                         *)
(* Codes and refresh tokens are 256-bit random strings: they are numbered  *)
(* in the order they are made.  A chain is what grows out of one code: the *)
(* code, the tokens rotated out of it and the requests in between.  Its    *)
(* number (that of the code) is carried along for the properties only.     *)
(*                                                                         *)
(* Left out: the form's constant fields, the resource indicator, scopes,   *)
(* the client type, error texts and the login page.                        *)
(***************************************************************************)
EXTENDS Integers, FiniteSets

CONSTANTS
    Device,       \* enrolled devices
    Owner,        \* Owner[d]: the person behind device d
    Client,       \* the client ids registration hands out
    Hosted,       \* client ids that are https URLs (CIMD), as Url records
    Redirect,     \* the redirect URIs requests name, as Url records
    Verifier,     \* PKCE code verifiers
    Request,      \* handlers running at the same time
    CodeTTL, RefreshTTL, AccessTTL, ClientTTL,   \* in clock ticks
    MaxCodes, MaxTokens, MaxClock                \* bounds

ASSUME OwnerIsTotal == DOMAIN Owner = Device
ASSUME TTLAssumption ==
    /\ CodeTTL \in Nat /\ RefreshTTL \in Nat
    /\ AccessTTL \in Nat /\ ClientTTL \in Nat
ASSUME BoundAssumption == MaxCodes \in Nat /\ MaxTokens \in Nat /\ MaxClock \in Nat

VARIABLES
    clock,
    revokedAt,    \* revokedAt[d]: when device d was revoked, or Never
    clients,      \* rows of oauth_clients
    codes,        \* rows of oauth_codes
    tokens,       \* rows of oauth_refresh_tokens
    req,          \* req[r]: the stage request r is in and what it carries
    registered,   \* history: the client ids handed out
    lastCode,     \* history: codes made so far
    lastToken,    \* history: refresh tokens made so far
    accessUntil,  \* history: when the last access token of a device expires
    condemned,    \* history: the chains a request was carrying when a reuse
                  \*   revoked their family (the others are over by then)
    stranded      \* history: the clients a sweep removed between two tokens

tables == <<revokedAt, clients, codes, tokens>>
history == <<registered, lastCode, lastToken, accessUntil, condemned, stranded>>
vars == <<clock, tables, req, history>>

Never == -1
Idle == [stage |-> "idle"]

Time == 0 .. MaxClock
ChainId == 1 .. MaxCodes
Person == {Owner[d] : d \in Device}
ClientId == Client \cup Hosted

-----------------------------------------------------------------------------
(* Rows, and what a request carries from one store call to the next.        *)

\* base64url(sha256(verifier)); a challenge is compared, never inverted.
S256(v) == [s256 |-> v]

\* oauth.VerifyPKCE
VerifyPKCE(challenge, verifier) == challenge = S256(verifier)

ClientRow == [id: Client, uris: SUBSET Redirect, createdAt: Time]

\* store.AuthCode: what a code is bound to.
Binding == [client: ClientId, redirect: Redirect,
            challenge: {S256(v) : v \in Verifier}, device: Device]

CodeRow == [id: ChainId, binding: Binding, expires: Nat, consumed: BOOLEAN]

\* store.RefreshGrant: what a refresh token is bound to.
Grant == [client: ClientId, device: Device, chain: ChainId]

TokenRow == [id: 1 .. MaxTokens, grant: Grant, expires: Nat, consumed: BOOLEAN]

RequestState ==
    {Idle}
    \cup [stage: {"vetting", "granting"}, binding: Binding, now: Time]
    \cup [stage: {"claiming"}, code: ChainId, binding: Binding,
          presented: Binding, now: Time]
    \cup [stage: {"issuing", "storing"}, grant: Grant, now: Time]

Active(d) == revokedAt[d] = Never

\* The requests that go on with a chain's grant.
Carriers(k) ==
    {r \in Request : /\ req[r].stage \in {"issuing", "storing"}
                     /\ req[r].grant.chain = k}

Goto(r, state) == req' = [req EXCEPT ![r] = state]

Init ==
    /\ clock = 0
    /\ revokedAt = [d \in Device |-> Never]
    /\ clients = {}
    /\ codes = {}
    /\ tokens = {}
    /\ req = [r \in Request |-> Idle]
    /\ registered = {}
    /\ lastCode = 0
    /\ lastToken = 0
    /\ accessUntil = [d \in Device |-> 0]
    /\ condemned = {}
    /\ stranded = {}

-----------------------------------------------------------------------------
(* oauth_dcr.go: dynamic registration.                                      *)

\* Absolute, https or loopback http, no fragment.  Url.host of an https URL
\* is "" when it has none.
ValidRedirectURI(u) ==
    /\ ~u.fragment
    /\ \/ u.scheme = "https" /\ u.host # ""
       \/ u.scheme = "http" /\ u.host \in {"localhost", "127.0.0.1", "::1"}

\* handleRegister and store.RegisterClient: one write, under a fresh id.
Register(c, uris) ==
    /\ c \notin registered
    /\ uris # {}
    /\ \A u \in uris : ValidRedirectURI(u)
    /\ clients' = clients \cup {[id |-> c, uris |-> uris, createdAt |-> clock]}
    /\ registered' = registered \cup {c}
    /\ UNCHANGED <<clock, revokedAt, codes, tokens, req, lastCode, lastToken,
                   accessUntil, condemned, stranded>>

-----------------------------------------------------------------------------
(* oauth_authorize.go: from a device credential to a code.                  *)

\* An https client id vouches for redirects of its own origin, any other must
\* be registered with exactly this redirect.
ResolveClient(c, u) ==
    \/ c \in Hosted /\ u.scheme = c.scheme /\ u.host = c.host
    \/ \E row \in clients : row.id = c /\ u \in row.uris

\* handleAuthorizeSubmit up to the credential: the client is resolved, the
\* clock is read, and the pasted credential of device d verifies.
Authorize(r, c, u, v, d) ==
    /\ req[r] = Idle
    /\ ResolveClient(c, u)
    /\ Goto(r, [stage |-> "vetting", now |-> clock,
                binding |-> [client |-> c, redirect |-> u,
                             challenge |-> S256(v), device |-> d]])
    /\ UNCHANGED <<clock, tables, history>>

\* ActiveDeviceByID
VetDevice(r) ==
    /\ req[r].stage = "vetting"
    /\ Goto(r, IF Active(req[r].binding.device)
                 THEN [req[r] EXCEPT !.stage = "granting"] ELSE Idle)
    /\ UNCHANGED <<clock, tables, history>>

\* CreateAuthCode, and the redirect that carries the code back.
CreateAuthCode(r) ==
    /\ req[r].stage = "granting"
    /\ lastCode < MaxCodes
    /\ lastCode' = lastCode + 1
    /\ codes' = codes \cup
         {[id |-> lastCode', binding |-> req[r].binding,
           expires |-> req[r].now + CodeTTL, consumed |-> FALSE]}
    /\ Goto(r, Idle)
    /\ UNCHANGED <<clock, revokedAt, clients, tokens, registered, lastToken,
                   accessUntil, condemned, stranded>>

-----------------------------------------------------------------------------
(* oauth_token.go, tokenFromCode.                                           *)

\* WHERE consumed_at IS NULL AND expires_at > now
Live(row, now) == ~row.consumed /\ row.expires > now

Consumed(row) == [row EXCEPT !.consumed = TRUE]

\* Variant: the client is not compared.
ClientIgnored(b, presented, verifier) ==
    /\ b.redirect = presented.redirect
    /\ VerifyPKCE(b.challenge, verifier)

\* The code is bound to the client and the redirect it was issued for, and to
\* the challenge whose verifier only that client holds.
BindingMatches(b, presented, verifier) ==
    /\ b.client = presented.client
    /\ b.redirect = presented.redirect
    /\ VerifyPKCE(b.challenge, verifier)

\* AuthCodeByCode, without consuming, and the comparison with what the caller
\* presents: a mismatch leaves the code as it is.
ReadCode(r, id, c, u, v) ==
    \E row \in codes :
        LET presented == [client |-> c, redirect |-> u, challenge |-> S256(v),
                          device |-> row.binding.device]
        IN  /\ req[r] = Idle
            /\ row.id = id /\ Live(row, clock)
            /\ BindingMatches(row.binding, presented, v)
            /\ Goto(r, [stage |-> "claiming", code |-> id, now |-> clock,
                        binding |-> row.binding, presented |-> presented])
            /\ UNCHANGED <<clock, tables, history>>

\* Variant: the claim relies on the read that came before it.
ClaimUnguarded(id, now) ==
    \E row \in codes :
        /\ row.id = id
        /\ codes' = (codes \ {row}) \cup {Consumed(row)}

\* store.ConsumeAuthCode, the conditional UPDATE: one caller affects the row.
ConsumeAuthCode(id, now) ==
    \E row \in codes :
        /\ row.id = id /\ Live(row, now)
        /\ codes' = (codes \ {row}) \cup {Consumed(row)}

ClaimCode(r) ==
    /\ req[r].stage = "claiming"
    /\ ConsumeAuthCode(req[r].code, req[r].now)
    /\ Goto(r, [stage |-> "issuing", now |-> req[r].now,
                grant |-> [client |-> req[r].binding.client,
                           device |-> req[r].binding.device,
                           chain |-> req[r].code]])
    /\ UNCHANGED <<clock, revokedAt, clients, tokens, history>>

\* The claim was lost to another request, or to an expiry since the read.
LoseClaim(r) ==
    /\ req[r].stage = "claiming"
    /\ \A row \in codes : row.id = req[r].code => ~Live(row, req[r].now)
    /\ Goto(r, Idle)
    /\ UNCHANGED <<clock, tables, history>>

-----------------------------------------------------------------------------
(* oauth_token.go, tokenFromRefresh, and store.ConsumeRefreshToken.         *)

\* The rows of the person and the client that row belongs to.
Family(row) ==
    {t \in tokens : /\ Owner[t.grant.device] = Owner[row.grant.device]
                    /\ t.grant.client = row.grant.client}

\* A live token is consumed and its grant returned.  A client id that does not
\* match is refused after that: the token is spent all the same.
ConsumeRefreshToken(r, id, c) ==
    \E row \in tokens :
        /\ req[r] = Idle
        /\ row.id = id /\ Live(row, clock)
        /\ tokens' = (tokens \ {row}) \cup {Consumed(row)}
        /\ IF c = row.grant.client
             THEN Goto(r, [stage |-> "issuing", grant |-> row.grant,
                           now |-> clock])
             ELSE UNCHANGED req
        /\ UNCHANGED <<clock, revokedAt, clients, codes, history>>

\* A consumed token comes again: every unconsumed token of its family is
\* revoked, which commits, and the request is refused.
DetectReuse(r, id) ==
    \E row \in tokens :
        LET revoked == {t \in Family(row) : ~t.consumed}
        IN  /\ req[r] = Idle
            /\ row.id = id /\ row.consumed
            /\ tokens' = (tokens \ revoked) \cup {Consumed(t) : t \in revoked}
            /\ condemned' = condemned \cup
                 {t.grant.chain : t \in {x \in Family(row) :
                                            Carriers(x.grant.chain) # {}}}
            /\ UNCHANGED <<clock, revokedAt, clients, codes, req, registered,
                           lastCode, lastToken, accessUntil, stranded>>

-----------------------------------------------------------------------------
(* oauth_token.go, issueTokens: the shared tail of both grants.             *)

\* Variant: a token that was rotated is not looked at again.
DeviceTrusted(r) ==
    /\ req[r].stage = "issuing"
    /\ Goto(r, [req[r] EXCEPT !.stage = "storing"])
    /\ UNCHANGED <<clock, tables, history>>

\* ActiveDeviceByID, again
RecheckDevice(r) ==
    /\ req[r].stage = "issuing"
    /\ Goto(r, IF Active(req[r].grant.device)
                 THEN [req[r] EXCEPT !.stage = "storing"] ELSE Idle)
    /\ UNCHANGED <<clock, tables, history>>

Latest(a, b) == IF a > b THEN a ELSE b

\* Variant: a cutoff is stored in the place of the expiry.
StoreCutoff(r) ==
    /\ req[r].stage = "storing"
    /\ lastToken < MaxTokens
    /\ lastToken' = lastToken + 1
    /\ tokens' = tokens \cup
         {[id |-> lastToken', grant |-> req[r].grant,
           expires |-> req[r].now - RefreshTTL, consumed |-> FALSE]}
    /\ accessUntil' =
         [accessUntil EXCEPT ![req[r].grant.device] =
            Latest(@, req[r].now + AccessTTL)]
    /\ Goto(r, Idle)
    /\ UNCHANGED <<clock, revokedAt, clients, codes, registered, lastCode,
                   condemned, stranded>>

\* CreateRefreshToken, and the answer with both tokens.
StoreTokens(r) ==
    /\ req[r].stage = "storing"
    /\ lastToken < MaxTokens
    /\ lastToken' = lastToken + 1
    /\ tokens' = tokens \cup
         {[id |-> lastToken', grant |-> req[r].grant,
           expires |-> req[r].now + RefreshTTL, consumed |-> FALSE]}
    /\ accessUntil' =
         [accessUntil EXCEPT ![req[r].grant.device] =
            Latest(@, req[r].now + AccessTTL)]
    /\ Goto(r, Idle)
    /\ UNCHANGED <<clock, revokedAt, clients, codes, registered, lastCode,
                   condemned, stranded>>

-----------------------------------------------------------------------------
(* Failures, time, the administrator and the sweeper.                       *)

\* A store call, the random source or the signer fails: the request is
\* answered with an error, and what it did before stays done.
Fail(r) ==
    /\ req[r] # Idle
    /\ Goto(r, Idle)
    /\ UNCHANGED <<clock, tables, history>>

\* The process stops and starts: the tables survive, the requests do not.
Restart ==
    /\ req' = [r \in Request |-> Idle]
    /\ UNCHANGED <<clock, tables, history>>

RevokeDevice(d) ==
    /\ Active(d)
    /\ revokedAt' = [revokedAt EXCEPT ![d] = clock]
    /\ UNCHANGED <<clock, clients, codes, tokens, req, history>>

\* A request in this state goes on for client c.
WorksFor(state, c) ==
    \/ /\ state.stage \in {"vetting", "granting", "claiming"}
       /\ state.binding.client = c
    \/ /\ state.stage \in {"issuing", "storing"}
       /\ state.grant.client = c

\* Client c is between two tokens: a request or an unspent code stands for it.
Pending(c) ==
    \/ \E r \in Request : WorksFor(req[r], c)
    \/ \E row \in codes : row.binding.client = c /\ Live(row, clock)

\* Variant: only tokens that can still be used keep their client.
PruneSpent(kept, now) ==
    {row \in clients :
        \/ row.createdAt > now - ClientTTL
        \/ \E t \in kept : t.grant.client = row.id /\ ~t.consumed}

\* The clients that stay: young ones, and those that any refresh token names.
ClientsKept(kept, now) ==
    {row \in clients :
        \/ row.createdAt > now - ClientTTL
        \/ \E t \in kept : t.grant.client = row.id}

\* store.SweepOAuth: expired codes, expired tokens, then abandoned clients.
\* (A sweep that waited for the lock deletes less than one reading the clock
\* as it commits; the next one makes up for it.)
SweepOAuth(now) ==
    LET kept == {t \in tokens : t.expires > now}
    IN  /\ codes' = {row \in codes : row.expires > now}
        /\ tokens' = kept
        /\ clients' = ClientsKept(kept, now)
        /\ stranded' = stranded \cup
             {c \in {row.id : row \in clients \ clients'} :
                 Pending(c) /\ \A t \in kept : t.grant.client # c}
        /\ UNCHANGED <<clock, revokedAt, req, registered, lastCode, lastToken,
                       accessUntil, condemned>>

Tick ==
    /\ clock < MaxClock
    /\ clock' = clock + 1
    /\ UNCHANGED <<tables, req, history>>

Next ==
    \/ Tick
    \/ Restart
    \/ \E d \in Device : RevokeDevice(d)
    \/ SweepOAuth(clock)
    \/ \E c \in Client, uris \in SUBSET Redirect : Register(c, uris)
    \/ \E r \in Request :
         \/ \E c \in ClientId, u \in Redirect, v \in Verifier :
              \/ \E d \in Device : Authorize(r, c, u, v, d)
              \/ \E id \in ChainId : ReadCode(r, id, c, u, v)
         \/ VetDevice(r) \/ CreateAuthCode(r)
         \/ ClaimCode(r) \/ LoseClaim(r)
         \/ \E id \in 1 .. MaxTokens :
              \/ \E c \in ClientId : ConsumeRefreshToken(r, id, c)
              \/ DetectReuse(r, id)
         \/ RecheckDevice(r) \/ StoreTokens(r)
         \/ Fail(r)

Spec == Init /\ [][Next]_vars

-----------------------------------------------------------------------------
(* Correctness.                                                             *)

TypeOK ==
    /\ clock \in Time
    /\ revokedAt \in [Device -> Time \cup {Never}]
    /\ clients \subseteq ClientRow
    /\ codes \subseteq CodeRow
    /\ tokens \subseteq TokenRow
    /\ req \in [Request -> RequestState]
    /\ registered \subseteq Client
    /\ lastCode \in 0 .. MaxCodes
    /\ lastToken \in 0 .. MaxTokens
    /\ accessUntil \in [Device -> Nat]
    /\ condemned \subseteq ChainId
    /\ stranded \subseteq Client

\* Revoking a device ends its sessions: whatever requests were under way, no
\* access token of a revoked device is valid for longer than one access-token
\* lifetime after the revocation (oauth/token.go:31-36, oauth_token.go:12-14).
AccessEndsAfterRevocation ==
    \A d \in Device :
        revokedAt[d] # Never => accessUntil[d] <= revokedAt[d] + AccessTTL

\* A code is spent only by a request that presents the client, the redirect
\* and the verifier it is bound to; any other attempt leaves it to the client
\* it belongs to (oauth_token.go:59-62).
SpentByItsClient ==
    [][\A row \in codes : ~row.consumed /\ Consumed(row) \in codes' =>
         \E r \in Request : /\ req[r].stage = "claiming"
                            /\ req[r].code = row.id
                            /\ req[r].presented = row.binding
                            /\ req'[r].stage = "issuing"]_vars

InUse(c) ==
    Pending(c) \/ \E t \in tokens : t.grant.client = c /\ Live(t, clock)

\* A client in active use has its registration, however old it is: one with a
\* usable refresh token or an unspent code, and one a request is authorizing,
\* exchanging or rotating for (store/oauth.go:238-242, 265-268).  The exception
\* is a sweep between two tokens: when the last stored token of the client
\* expires while its rotation, or a new authorization, is under way, nothing
\* but the request or the code stands for the client, and the sweep sees
\* neither.
ClientInUseIsRegistered ==
    \A c \in Client \ Hosted :
        InUse(c) => c \in stranded \/ \E row \in clients : row.id = c

-----------------------------------------------------------------------------
(* The abstract promise, module Baton: a chain is in one hand at a time.    *)

HeldByCode(k) == \E row \in codes : row.id = k /\ ~row.consumed

LiveTokens(k) == {t \in tokens : t.grant.chain = k /\ ~t.consumed}

\* Everything from which the chain can go on.
HandsOf(k) ==
    (IF HeldByCode(k) THEN {"code"} ELSE {})
        \cup {<<"request", r>> : r \in Carriers(k)}
        \cup {<<"token", t.id>> : t \in LiveTokens(k)}

HolderOf(k) ==
    IF k > lastCode THEN "unborn"
    ELSE IF Cardinality(HandsOf(k)) > 1 THEN "forked"
    ELSE IF HeldByCode(k) THEN "code"
    ELSE IF Carriers(k) # {} THEN "request"
    ELSE IF LiveTokens(k) # {} THEN "token" ELSE "dead"

Chains == INSTANCE Baton WITH Chain <- ChainId,
                              holder <- [k \in ChainId |-> HolderOf(k)]

\* Concurrent exchanges, retries, reuse, failures, restarts and sweeps
\* included, a code gives rise to one line of tokens, of which at most one can
\* be used, and a line that has ended never comes back.
ImplementsBaton == Chains!Spec

-----------------------------------------------------------------------------
(* What a comment of the code says and the code does not do.                *)

\* store/oauth.go:217-218, "Reuse forces full re-auth for that person on that
\* client": once a reuse was detected no token of a chain of that family can
\* be used again, a chain that was being rotated at that moment included.
ReuseForcesReauth == \A k \in condemned : LiveTokens(k) = {}

=============================================================================
