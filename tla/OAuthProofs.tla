----------------------------- MODULE OAuthProofs -----------------------------
(***************************************************************************)
(* Theorems about module OAuth, for all devices and their owners, clients, *)
(* redirects, verifiers, numbers of concurrent requests and lifetimes.     *)
(***************************************************************************)
EXTENDS OAuth, TLAPS

-----------------------------------------------------------------------------
(* Requests. *)

\* A request's stage tells what it carries.
LEMMA StageTells ==
    ASSUME req \in [Request -> RequestState], NEW r \in Request
    PROVE  /\ req[r].stage \in {"vetting", "granting"} =>
                req[r] \in [stage: {"vetting", "granting"}, binding: Binding,
                            now: Time]
           /\ req[r].stage = "claiming" =>
                req[r] \in [stage: {"claiming"}, code: ChainId, binding: Binding,
                            presented: Binding, now: Time]
           /\ req[r].stage \in {"issuing", "storing"} =>
                req[r] \in [stage: {"issuing", "storing"}, grant: Grant, now: Time]
  BY DEF RequestState, Idle

\* A request that goes on is well-formed again if its new state is.
LEMMA GotoType ==
    ASSUME req \in [Request -> RequestState], NEW r \in Request,
           NEW state \in RequestState, Goto(r, state)
    PROVE  req' \in [Request -> RequestState]
  BY DEF Goto

LEMMA IdleType == Idle \in RequestState
  BY DEF RequestState

-----------------------------------------------------------------------------
(* Type correctness. *)

LEMMA InitType == Init => TypeOK
  BY BoundAssumption, IdleType DEF Init, TypeOK, Time

\* Consuming is the only change to a row, and keeps it well-formed.
LEMMA ConsumedType ==
    /\ \A row \in CodeRow : Consumed(row) \in CodeRow
    /\ \A row \in TokenRow : Consumed(row) \in TokenRow
  BY DEF Consumed, CodeRow, TokenRow

LEMMA NextType == TypeOK /\ [Next]_vars => TypeOK'
<1> SUFFICES ASSUME TypeOK, [Next]_vars
             PROVE  TypeOK'
  OBVIOUS
<1> USE DEF TypeOK
<1>1. CASE Tick
  BY <1>1, BoundAssumption DEF Tick, tables, history, Time
<1>2. CASE Restart
  BY <1>2, IdleType DEF Restart, tables, history
<1>3. ASSUME NEW d \in Device, RevokeDevice(d)
      PROVE  TypeOK'
  BY <1>3 DEF RevokeDevice, history
<1>4. CASE SweepOAuth(clock)
  <2>1. /\ codes' \subseteq codes /\ tokens' \subseteq tokens
        /\ clients' \subseteq clients
        /\ UNCHANGED <<clock, revokedAt, req, registered, lastCode, lastToken,
                       accessUntil, condemned>>
    BY <1>4 DEF SweepOAuth, ClientsKept
  <2>2. \A row \in clients : row.id \in Client
    BY DEF ClientRow
  <2>3. stranded' \subseteq Client
    BY <1>4, <2>2 DEF SweepOAuth
  <2>4. QED
    BY <2>1, <2>3
<1>5. ASSUME NEW c \in Client, NEW uris \in SUBSET Redirect, Register(c, uris)
      PROVE  TypeOK'
  <2>1. [id |-> c, uris |-> uris, createdAt |-> clock] \in ClientRow
    BY DEF ClientRow
  <2>2. QED
    BY <1>5, <2>1 DEF Register
<1>6. ASSUME NEW r \in Request, NEW c \in ClientId, NEW u \in Redirect,
             NEW v \in Verifier, NEW d \in Device, Authorize(r, c, u, v, d)
      PROVE  TypeOK'
  <2>1. [client |-> c, redirect |-> u, challenge |-> S256(v), device |-> d]
          \in Binding
    BY DEF Binding
  <2>2. [stage |-> "vetting", now |-> clock,
         binding |-> [client |-> c, redirect |-> u, challenge |-> S256(v),
                      device |-> d]] \in RequestState
    BY <2>1 DEF RequestState
  <2>3. QED
    BY <1>6, <2>2, GotoType DEF Authorize, tables, history
<1>7. ASSUME NEW r \in Request, NEW c \in ClientId, NEW u \in Redirect,
             NEW v \in Verifier, NEW id \in ChainId, ReadCode(r, id, c, u, v)
      PROVE  TypeOK'
  <2>1. PICK row \in codes :
          /\ Goto(r, [stage |-> "claiming", code |-> id, now |-> clock,
                      binding |-> row.binding,
                      presented |-> [client |-> c, redirect |-> u,
                                     challenge |-> S256(v),
                                     device |-> row.binding.device]])
          /\ UNCHANGED <<clock, tables, history>>
    BY <1>7 DEF ReadCode
  <2>2. row.binding \in Binding /\ row.binding.device \in Device
    BY DEF CodeRow, Binding
  <2>3. [client |-> c, redirect |-> u, challenge |-> S256(v),
         device |-> row.binding.device] \in Binding
    BY <2>2 DEF Binding
  <2>4. QED
    BY <2>1, <2>2, <2>3, GotoType DEF RequestState, tables, history
<1>8. ASSUME NEW r \in Request, VetDevice(r)
      PROVE  TypeOK'
  <2>1. [req[r] EXCEPT !.stage = "granting"] \in RequestState
    BY <1>8, StageTells DEF VetDevice, RequestState
  <2>2. QED
    BY <1>8, <2>1, IdleType, GotoType DEF VetDevice, tables, history
<1>9. ASSUME NEW r \in Request, CreateAuthCode(r)
      PROVE  TypeOK'
  <2>1. /\ req[r].binding \in Binding /\ req[r].now \in Time
        /\ lastCode' \in ChainId /\ lastCode' \in 0 .. MaxCodes
    BY <1>9, StageTells, BoundAssumption DEF CreateAuthCode, ChainId
  <2>2. req[r].now + CodeTTL \in Nat
    BY <2>1, TTLAssumption, BoundAssumption DEF Time
  <2>3. [id |-> lastCode', binding |-> req[r].binding,
         expires |-> req[r].now + CodeTTL, consumed |-> FALSE] \in CodeRow
    BY <2>1, <2>2 DEF CodeRow
  <2>4. QED
    BY <1>9, <2>1, <2>3, IdleType, GotoType DEF CreateAuthCode
<1>10. ASSUME NEW r \in Request, ClaimCode(r)
       PROVE  TypeOK'
  <2>1. /\ req[r].binding \in Binding /\ req[r].now \in Time
        /\ req[r].code \in ChainId
    BY <1>10, StageTells DEF ClaimCode
  <2>2. [client |-> req[r].binding.client, device |-> req[r].binding.device,
         chain |-> req[r].code] \in Grant
    BY <2>1 DEF Binding, Grant
  <2>3. [stage |-> "issuing", now |-> req[r].now,
         grant |-> [client |-> req[r].binding.client,
                    device |-> req[r].binding.device,
                    chain |-> req[r].code]] \in RequestState
    BY <2>1, <2>2 DEF RequestState
  <2>4. codes' \subseteq CodeRow
    BY <1>10, ConsumedType DEF ClaimCode, ConsumeAuthCode
  <2>5. QED
    BY <1>10, <2>3, <2>4, GotoType DEF ClaimCode, history
<1>11. ASSUME NEW r \in Request, LoseClaim(r) \/ Fail(r)
       PROVE  TypeOK'
  BY <1>11, IdleType, GotoType DEF LoseClaim, Fail, tables, history
<1>12. ASSUME NEW r \in Request, NEW id \in 1 .. MaxTokens, NEW c \in ClientId,
              ConsumeRefreshToken(r, id, c)
       PROVE  TypeOK'
  <2>1. PICK row \in tokens :
          /\ tokens' = (tokens \ {row}) \cup {Consumed(row)}
          /\ IF c = row.grant.client
               THEN Goto(r, [stage |-> "issuing", grant |-> row.grant,
                             now |-> clock])
               ELSE UNCHANGED req
          /\ UNCHANGED <<clock, revokedAt, clients, codes, history>>
    BY <1>12 DEF ConsumeRefreshToken
  <2>2. row.grant \in Grant
    BY DEF TokenRow
  <2>3. [stage |-> "issuing", grant |-> row.grant, now |-> clock] \in RequestState
    BY <2>2 DEF RequestState
  <2>4. req' \in [Request -> RequestState]
    BY <2>1, <2>3, GotoType
  <2>5. QED
    BY <2>1, <2>4, ConsumedType DEF history
<1>13. ASSUME NEW r \in Request, NEW id \in 1 .. MaxTokens, DetectReuse(r, id)
       PROVE  TypeOK'
  <2>1. PICK row \in tokens :
          LET revoked == {t \in Family(row) : ~t.consumed}
          IN  /\ tokens' = (tokens \ revoked) \cup {Consumed(t) : t \in revoked}
              /\ condemned' = condemned \cup
                   {t.grant.chain : t \in {x \in Family(row) :
                                              Carriers(x.grant.chain) # {}}}
              /\ UNCHANGED <<clock, revokedAt, clients, codes, req, registered,
                             lastCode, lastToken, accessUntil, stranded>>
    BY <1>13 DEF DetectReuse
  <2>2. Family(row) \subseteq tokens
    BY DEF Family
  <2>3. tokens' \subseteq TokenRow
    BY <2>1, <2>2, ConsumedType
  <2>4. \A t \in Family(row) : t.grant.chain \in ChainId
    BY <2>2 DEF TokenRow, Grant
  <2>5. condemned' \subseteq ChainId
    BY <2>1, <2>4
  <2>6. QED
    BY <2>1, <2>3, <2>5
<1>14. ASSUME NEW r \in Request, RecheckDevice(r)
       PROVE  TypeOK'
  <2>1. [req[r] EXCEPT !.stage = "storing"] \in RequestState
    BY <1>14, StageTells DEF RecheckDevice, RequestState
  <2>2. QED
    BY <1>14, <2>1, IdleType, GotoType DEF RecheckDevice, tables, history
<1>15. ASSUME NEW r \in Request, StoreTokens(r)
       PROVE  TypeOK'
  <2>1. /\ req[r].grant \in Grant /\ req[r].now \in Time
        /\ lastToken' \in 1 .. MaxTokens /\ lastToken' \in 0 .. MaxTokens
    BY <1>15, StageTells, BoundAssumption DEF StoreTokens
  <2>2. req[r].now + RefreshTTL \in Nat /\ req[r].now + AccessTTL \in Nat
    BY <2>1, TTLAssumption, BoundAssumption DEF Time
  <2>3. [id |-> lastToken', grant |-> req[r].grant,
         expires |-> req[r].now + RefreshTTL, consumed |-> FALSE] \in TokenRow
    BY <2>1, <2>2 DEF TokenRow
  <2>4. accessUntil' \in [Device -> Nat]
    BY <1>15, <2>1, <2>2 DEF StoreTokens, Latest, Grant
  <2>5. tokens' \subseteq TokenRow
    BY <1>15, <2>3 DEF StoreTokens
  <2>6. req' \in [Request -> RequestState]
    BY <1>15, IdleType, GotoType DEF StoreTokens
  <2>7. QED
    BY <1>15, <2>1, <2>4, <2>5, <2>6 DEF StoreTokens
<1>16. CASE UNCHANGED vars
  BY <1>16 DEF vars, tables, history
<1>17. QED
  BY <1>1, <1>2, <1>3, <1>4, <1>5, <1>6, <1>7, <1>8, <1>9, <1>10, <1>11, <1>12,
     <1>13, <1>14, <1>15, <1>16 DEF Next

\* Every reachable state of the server is well-formed, whatever requests it is
\* interrupted in: the STRICT tables never stop a handler.
THEOREM TypeCorrect == Spec => []TypeOK
  BY InitType, NextType, PTL DEF Spec

-----------------------------------------------------------------------------
(* Access ends after a revocation. *)

\* A request carries a reading of the clock from before, and one that is about
\* to store tokens took its reading before its device was revoked, if it is
\* revoked by now.
AccessInv ==
    /\ \A d \in Device : revokedAt[d] # Never => revokedAt[d] <= clock
    /\ \A r \in Request : req[r] # Idle => req[r].now <= clock
    /\ \A r \in Request :
         /\ req[r].stage = "storing"
         /\ revokedAt[req[r].grant.device] # Never
         => req[r].now <= revokedAt[req[r].grant.device]
    /\ \A d \in Device : accessUntil[d] <= clock + AccessTTL
    /\ AccessEndsAfterRevocation

\* One request moves; clock, revocations and what was issued stay.
LEMMA AccessMove ==
    ASSUME TypeOK, AccessInv, UNCHANGED <<clock, revokedAt, accessUntil>>,
           NEW r \in Request, NEW state, Goto(r, state),
           state # Idle => state.now <= clock,
           state.stage = "storing" /\ revokedAt[state.grant.device] # Never
             => state.now <= revokedAt[state.grant.device]
    PROVE  AccessInv'
<1>1. \A s \in Request : req'[s] = IF s = r THEN state ELSE req[s]
  BY DEF Goto, TypeOK
<1>2. QED
  BY <1>1 DEF AccessInv, AccessEndsAfterRevocation

LEMMA AccessIdle ==
    ASSUME TypeOK, AccessInv, UNCHANGED <<clock, revokedAt, accessUntil>>,
           NEW r \in Request, Goto(r, Idle)
    PROVE  AccessInv'
<1>1. Idle.stage # "storing"
  BY DEF Idle
<1>2. QED
  BY <1>1, AccessMove

LEMMA AccessStays ==
    ASSUME AccessInv, UNCHANGED <<clock, revokedAt, accessUntil, req>>
    PROVE  AccessInv'
  BY DEF AccessInv, AccessEndsAfterRevocation

LEMMA InitAccess == Init => AccessInv
  BY TTLAssumption DEF Init, AccessInv, AccessEndsAfterRevocation, Idle, Never

LEMMA RecheckKeepsAccess ==
    ASSUME TypeOK, AccessInv, NEW r \in Request, RecheckDevice(r)
    PROVE  AccessInv'
<1>1. UNCHANGED <<clock, revokedAt, accessUntil>>
  BY DEF RecheckDevice, tables, history
<1>2. CASE Active(req[r].grant.device)
  <2> DEFINE state == [req[r] EXCEPT !.stage = "storing"]
  <2>1. Goto(r, state)
    BY <1>2 DEF RecheckDevice
  <2>2. /\ req[r] # Idle /\ state.stage = "storing"
        /\ state.now = req[r].now /\ state.grant = req[r].grant
    BY StageTells DEF RecheckDevice, TypeOK, Idle
  <2>3. state.now <= clock /\ revokedAt[state.grant.device] = Never
    BY <1>2, <2>2 DEF AccessInv, Active
  <2> HIDE DEF state
  <2>4. QED
    BY <1>1, <2>1, <2>3, AccessMove
<1>3. CASE ~Active(req[r].grant.device)
  BY <1>1, <1>3, AccessIdle DEF RecheckDevice
<1>4. QED
  BY <1>2, <1>3

LEMMA StoreKeepsAccess ==
    ASSUME TypeOK, AccessInv, NEW r \in Request, StoreTokens(r)
    PROVE  AccessInv'
<1> DEFINE dev == req[r].grant.device
           new == req[r].now + AccessTTL
<1>1. dev \in Device /\ req[r].now \in Time /\ req[r] # Idle
  BY StageTells DEF StoreTokens, TypeOK, Grant, Idle
<1>2. req[r].now <= clock /\ clock \in Int /\ req[r].now \in Int
  BY <1>1 DEF AccessInv, TypeOK, Time
<1>3. \A d \in Device :
         accessUntil'[d] = IF d = dev THEN Latest(accessUntil[d], new)
                                      ELSE accessUntil[d]
  BY <1>1 DEF StoreTokens, TypeOK
<1>4. UNCHANGED <<clock, revokedAt>> /\ Goto(r, Idle)
  BY DEF StoreTokens
<1>5. \A s \in Request : req'[s] = IF s = r THEN Idle ELSE req[s]
  BY <1>4 DEF Goto, TypeOK
<1>6. new <= clock + AccessTTL
  BY <1>2, TTLAssumption
<1>7. revokedAt[dev] # Never => new <= revokedAt[dev] + AccessTTL
  <2>1. revokedAt[dev] # Never => req[r].now <= revokedAt[dev]
    BY DEF AccessInv, StoreTokens
  <2>2. revokedAt[dev] \in Int
    BY <1>1 DEF TypeOK, Time, Never
  <2>3. QED
    BY <1>2, <2>1, <2>2, TTLAssumption
<1>8. \A d \in Device : accessUntil'[d] <= clock + AccessTTL
  BY <1>3, <1>6 DEF AccessInv, Latest
<1>9. \A d \in Device :
         revokedAt[d] # Never => accessUntil'[d] <= revokedAt[d] + AccessTTL
  BY <1>3, <1>7 DEF AccessInv, AccessEndsAfterRevocation, Latest
<1>10. Idle.stage # "storing"
  BY DEF Idle
<1> HIDE DEF dev, new
<1>11. QED
  BY <1>4, <1>5, <1>8, <1>9, <1>10 DEF AccessInv, AccessEndsAfterRevocation

LEMMA RevokeKeepsAccess ==
    ASSUME TypeOK, AccessInv, NEW d \in Device, RevokeDevice(d)
    PROVE  AccessInv'
<1>1. UNCHANGED <<clock, req, accessUntil>>
  BY DEF RevokeDevice, history
<1>2. \A e \in Device : revokedAt'[e] = IF e = d THEN clock ELSE revokedAt[e]
  BY DEF RevokeDevice, TypeOK
<1>3. \A r \in Request : req[r].stage = "storing" =>
                             req[r].grant.device \in Device /\ req[r] # Idle
  BY StageTells DEF TypeOK, Grant, Idle
<1>4. clock \in Int
  BY DEF TypeOK, Time
<1>5. QED
  BY <1>1, <1>2, <1>3, <1>4 DEF AccessInv, AccessEndsAfterRevocation

LEMMA NextAccess == TypeOK /\ AccessInv /\ [Next]_vars => AccessInv'
<1> SUFFICES ASSUME TypeOK, AccessInv, [Next]_vars
             PROVE  AccessInv'
  OBVIOUS
<1>1. CASE Tick
  <2>1. /\ clock' = clock + 1 /\ UNCHANGED <<revokedAt, req, accessUntil>>
        /\ clock \in Int
    BY <1>1 DEF Tick, tables, history, TypeOK, Time
  <2>2. /\ \A d \in Device : revokedAt[d] \in Int /\ accessUntil[d] \in Int
        /\ \A r \in Request : req[r] # Idle => req[r].now \in Int
    BY DEF TypeOK, Time, Never, RequestState
  <2>3. QED
    BY <2>1, <2>2, TTLAssumption DEF AccessInv, AccessEndsAfterRevocation
<1>2. CASE Restart
  BY <1>2 DEF Restart, tables, history, AccessInv, AccessEndsAfterRevocation, Idle
<1>3. ASSUME NEW d \in Device, RevokeDevice(d)
      PROVE  AccessInv'
  BY <1>3, RevokeKeepsAccess
<1>4. CASE SweepOAuth(clock)
  BY <1>4, AccessStays DEF SweepOAuth, history
<1>5. ASSUME NEW c \in Client, NEW uris \in SUBSET Redirect, Register(c, uris)
      PROVE  AccessInv'
  BY <1>5, AccessStays DEF Register
<1>6. ASSUME NEW r \in Request, NEW c \in ClientId, NEW u \in Redirect,
             NEW v \in Verifier, NEW d \in Device, Authorize(r, c, u, v, d)
      PROVE  AccessInv'
  <2> DEFINE state == [stage |-> "vetting", now |-> clock,
                       binding |-> [client |-> c, redirect |-> u,
                                    challenge |-> S256(v), device |-> d]]
  <2>1. state.now <= clock /\ state.stage # "storing"
    BY DEF TypeOK, Time
  <2>2. Goto(r, state) /\ UNCHANGED <<clock, revokedAt, accessUntil>>
    BY <1>6 DEF Authorize, tables, history
  <2> HIDE DEF state
  <2>3. QED
    BY <2>1, <2>2, AccessMove
<1>7. ASSUME NEW r \in Request, NEW c \in ClientId, NEW u \in Redirect,
             NEW v \in Verifier, NEW id \in ChainId, ReadCode(r, id, c, u, v)
      PROVE  AccessInv'
  <2>1. PICK row \in codes :
          /\ Goto(r, [stage |-> "claiming", code |-> id, now |-> clock,
                      binding |-> row.binding,
                      presented |-> [client |-> c, redirect |-> u,
                                     challenge |-> S256(v),
                                     device |-> row.binding.device]])
          /\ UNCHANGED <<clock, tables, history>>
    BY <1>7 DEF ReadCode
  <2> DEFINE state == [stage |-> "claiming", code |-> id, now |-> clock,
                       binding |-> row.binding,
                       presented |-> [client |-> c, redirect |-> u,
                                      challenge |-> S256(v),
                                      device |-> row.binding.device]]
  <2>2. state.now <= clock /\ state.stage # "storing"
    BY DEF TypeOK, Time
  <2>3. Goto(r, state) /\ UNCHANGED <<clock, revokedAt, accessUntil>>
    BY <2>1 DEF tables, history
  <2> HIDE DEF state
  <2>4. QED
    BY <2>2, <2>3, AccessMove
<1>8. ASSUME NEW r \in Request, VetDevice(r)
      PROVE  AccessInv'
  <2> DEFINE state == [req[r] EXCEPT !.stage = "granting"]
  <2>1. UNCHANGED <<clock, revokedAt, accessUntil>>
    BY <1>8 DEF VetDevice, tables, history
  <2>2. /\ req[r] # Idle /\ state.stage = "granting"
        /\ state.now = req[r].now
    BY <1>8, StageTells DEF VetDevice, TypeOK, Idle
  <2>3. state.now <= clock /\ state.stage # "storing"
    BY <2>2 DEF AccessInv
  <2>4. Goto(r, state) \/ Goto(r, Idle)
    BY <1>8 DEF VetDevice
  <2> HIDE DEF state
  <2>5. QED
    BY <2>1, <2>3, <2>4, AccessMove, AccessIdle
<1>9. ASSUME NEW r \in Request, CreateAuthCode(r)
      PROVE  AccessInv'
  BY <1>9, AccessIdle DEF CreateAuthCode
<1>10. ASSUME NEW r \in Request, ClaimCode(r)
       PROVE  AccessInv'
  <2> DEFINE state == [stage |-> "issuing", now |-> req[r].now,
                       grant |-> [client |-> req[r].binding.client,
                                  device |-> req[r].binding.device,
                                  chain |-> req[r].code]]
  <2>1. Goto(r, state) /\ UNCHANGED <<clock, revokedAt, accessUntil>>
    BY <1>10 DEF ClaimCode, history
  <2>2. state.now <= clock /\ state.stage # "storing"
    BY <1>10 DEF ClaimCode, AccessInv, Idle
  <2> HIDE DEF state
  <2>3. QED
    BY <2>1, <2>2, AccessMove
<1>11. ASSUME NEW r \in Request, LoseClaim(r) \/ Fail(r)
       PROVE  AccessInv'
  BY <1>11, AccessIdle DEF LoseClaim, Fail, tables, history
<1>12. ASSUME NEW r \in Request, NEW id \in 1 .. MaxTokens, NEW c \in ClientId,
              ConsumeRefreshToken(r, id, c)
       PROVE  AccessInv'
  <2>1. PICK row \in tokens :
          /\ \/ Goto(r, [stage |-> "issuing", grant |-> row.grant, now |-> clock])
             \/ UNCHANGED req
          /\ UNCHANGED <<clock, revokedAt, accessUntil>>
    BY <1>12 DEF ConsumeRefreshToken, history
  <2> DEFINE state == [stage |-> "issuing", grant |-> row.grant, now |-> clock]
  <2>2. state.now <= clock /\ state.stage # "storing"
    BY DEF TypeOK, Time
  <2>3. CASE Goto(r, state)
    <3> HIDE DEF state
    <3>1. QED
      BY <2>1, <2>2, <2>3, AccessMove
  <2>4. CASE UNCHANGED req
    BY <2>1, <2>4, AccessStays
  <2>5. QED
    BY <2>1, <2>3, <2>4
<1>13. ASSUME NEW r \in Request, NEW id \in 1 .. MaxTokens, DetectReuse(r, id)
       PROVE  AccessInv'
  BY <1>13, AccessStays DEF DetectReuse
<1>14. ASSUME NEW r \in Request, RecheckDevice(r)
       PROVE  AccessInv'
  BY <1>14, RecheckKeepsAccess
<1>15. ASSUME NEW r \in Request, StoreTokens(r)
       PROVE  AccessInv'
  BY <1>15, StoreKeepsAccess
<1>16. CASE UNCHANGED vars
  BY <1>16, AccessStays DEF vars, tables, history
<1>17. QED
  BY <1>1, <1>2, <1>3, <1>4, <1>5, <1>6, <1>7, <1>8, <1>9, <1>10, <1>11, <1>12,
     <1>13, <1>14, <1>15, <1>16 DEF Next

\* Whatever requests were under way when a device was revoked, no access token
\* of it is valid for longer than one lifetime after the revocation: the second
\* look at the device comes after the clock reading that dates the token.
THEOREM AccessCorrect == Spec => []AccessEndsAfterRevocation
<1>1. AccessInv => AccessEndsAfterRevocation
  BY DEF AccessInv
<1>2. QED
  BY <1>1, InitType, NextType, InitAccess, NextAccess, PTL DEF Spec

-----------------------------------------------------------------------------
(* A code is spent by its own client. *)

\* Code rows are unique and come from the codes made so far; a request that is
\* about to claim a code presents what the code is bound to.
CodesKeyed == \A a, b \in codes : a.id = b.id => a = b

CodesMinted == \A row \in codes : row.id <= lastCode

ClaimsMatch ==
    \A r \in Request :
        req[r].stage = "claiming" =>
            /\ req[r].presented = req[r].binding
            /\ req[r].code <= lastCode
            /\ \A row \in codes :
                 row.id = req[r].code => row.binding = req[r].binding

CodeInv == CodesKeyed /\ CodesMinted /\ ClaimsMatch

\* A code is made by one action, consumed by one and dropped by one.
LEMMA CodeSteps ==
    ASSUME [Next]_vars
    PROVE  \/ UNCHANGED <<codes, lastCode>>
           \/ \E r \in Request : CreateAuthCode(r)
           \/ \E r \in Request : ClaimCode(r)
           \/ SweepOAuth(clock)
<1>1. CASE \E r \in Request, id \in 1 .. MaxTokens, c \in ClientId :
              ConsumeRefreshToken(r, id, c)
  BY <1>1 DEF ConsumeRefreshToken, history
<1>2. CASE \E r \in Request, id \in 1 .. MaxTokens : DetectReuse(r, id)
  BY <1>2 DEF DetectReuse
<1>3. CASE \E r \in Request, id \in ChainId, c \in ClientId, u \in Redirect,
              v \in Verifier : ReadCode(r, id, c, u, v)
  BY <1>3 DEF ReadCode, tables, history
<1>4. CASE \E r \in Request : \/ VetDevice(r) \/ LoseClaim(r) \/ Fail(r)
                              \/ RecheckDevice(r) \/ StoreTokens(r)
  BY <1>4 DEF VetDevice, LoseClaim, Fail, RecheckDevice, StoreTokens, tables,
     history
<1>5. CASE \/ Tick \/ Restart \/ \E d \in Device : RevokeDevice(d)
           \/ \E c \in Client, uris \in SUBSET Redirect : Register(c, uris)
           \/ UNCHANGED vars
  BY <1>5 DEF Tick, Restart, RevokeDevice, Register, vars, tables, history
<1>6. CASE \E r \in Request, c \in ClientId, u \in Redirect, v \in Verifier,
              d \in Device : Authorize(r, c, u, v, d)
  BY <1>6 DEF Authorize, tables, history
<1>7. QED
  BY <1>1, <1>2, <1>3, <1>4, <1>5, <1>6 DEF Next

\* The rows only change by being consumed or dropped, and no request starts to
\* claim.
LEMMA CodesFollow ==
    ASSUME CodeInv, lastCode' = lastCode,
           \A a, b \in codes' : a.id = b.id => a = b,
           \A new \in codes' : \E row \in codes : /\ new.id = row.id
                                                  /\ new.binding = row.binding,
           \A r \in Request : req'[r].stage = "claiming" => req'[r] = req[r]
    PROVE  CodeInv'
  BY DEF CodeInv, CodesKeyed, CodesMinted, ClaimsMatch

LEMMA CodesStay ==
    ASSUME CodeInv, UNCHANGED <<codes, lastCode>>,
           \A r \in Request : req'[r].stage = "claiming" => req'[r] = req[r]
    PROVE  CodeInv'
  BY DEF CodeInv, CodesKeyed, CodesMinted, ClaimsMatch

\* One request moves to a stage that claims nothing.
LEMMA MoveClaimsNothing ==
    ASSUME TypeOK, NEW r \in Request, NEW state, Goto(r, state),
           state.stage # "claiming"
    PROVE  \A s \in Request : req'[s].stage = "claiming" => req'[s] = req[s]
  BY DEF Goto, TypeOK

LEMMA InitCodes == Init => CodeInv
  BY DEF Init, CodeInv, CodesKeyed, CodesMinted, ClaimsMatch, Idle

LEMMA NextCodes == TypeOK /\ CodeInv /\ [Next]_vars => CodeInv'
<1> SUFFICES ASSUME TypeOK, CodeInv, [Next]_vars
             PROVE  CodeInv'
  OBVIOUS
<1>0. Idle.stage # "claiming"
  BY DEF Idle
<1>1. CASE Tick \/ \E d \in Device : RevokeDevice(d)
  BY <1>1, CodesStay DEF Tick, RevokeDevice, tables, history
<1>2. CASE Restart
  BY <1>0, <1>2, CodesStay DEF Restart, tables, history
<1>3. CASE \E c \in Client, uris \in SUBSET Redirect : Register(c, uris)
  BY <1>3, CodesStay DEF Register
<1>4. CASE SweepOAuth(clock)
  BY <1>4, CodesFollow DEF SweepOAuth, history, CodeInv, CodesKeyed
<1>5. ASSUME NEW r \in Request, NEW c \in ClientId, NEW u \in Redirect,
             NEW v \in Verifier, NEW d \in Device, Authorize(r, c, u, v, d)
      PROVE  CodeInv'
  BY <1>5, CodesStay, MoveClaimsNothing DEF Authorize, tables, history
<1>6. ASSUME NEW r \in Request, NEW c \in ClientId, NEW u \in Redirect,
             NEW v \in Verifier, NEW id \in ChainId, ReadCode(r, id, c, u, v)
      PROVE  CodeInv'
  <2>1. PICK row \in codes :
          LET presented == [client |-> c, redirect |-> u,
                            challenge |-> S256(v),
                            device |-> row.binding.device]
          IN  /\ row.id = id
              /\ BindingMatches(row.binding, presented, v)
              /\ Goto(r, [stage |-> "claiming", code |-> id, now |-> clock,
                          binding |-> row.binding, presented |-> presented])
              /\ UNCHANGED <<clock, tables, history>>
    BY <1>6 DEF ReadCode
  <2> DEFINE presented == [client |-> c, redirect |-> u, challenge |-> S256(v),
                           device |-> row.binding.device]
             state == [stage |-> "claiming", code |-> id, now |-> clock,
                       binding |-> row.binding, presented |-> presented]
  <2>2. presented = row.binding
    <3>1. row.binding \in Binding
      BY DEF TypeOK, CodeRow
    <3>2. /\ row.binding.client = c /\ row.binding.redirect = u
          /\ row.binding.challenge = S256(v)
      BY <2>1 DEF BindingMatches, VerifyPKCE
    <3>3. QED
      BY <3>1, <3>2 DEF Binding
  <2>3. \A s \in Request : req'[s] = IF s = r THEN state ELSE req[s]
    BY <2>1 DEF Goto, TypeOK
  <2>4. state.presented = state.binding /\ state.code = row.id
        /\ state.binding = row.binding
    BY <2>1, <2>2
  <2>5. UNCHANGED <<codes, lastCode>>
    BY <2>1 DEF tables, history
  <2> HIDE DEF state
  <2>6. QED
    BY <2>3, <2>4, <2>5 DEF CodeInv, CodesKeyed, CodesMinted, ClaimsMatch
<1>7. ASSUME NEW r \in Request, VetDevice(r) \/ RecheckDevice(r)
      PROVE  CodeInv'
  <2>1. \A s \in Request : req'[s].stage = "claiming" => req'[s] = req[s]
    <3>1. /\ [req[r] EXCEPT !.stage = "granting"].stage # "claiming"
          /\ [req[r] EXCEPT !.stage = "storing"].stage # "claiming"
      BY <1>7, StageTells DEF TypeOK, VetDevice, RecheckDevice
    <3>2. QED
      BY <1>0, <1>7, <3>1, MoveClaimsNothing DEF VetDevice, RecheckDevice
  <2>2. QED
    BY <1>7, <2>1, CodesStay DEF VetDevice, RecheckDevice, tables, history
<1>8. ASSUME NEW r \in Request, CreateAuthCode(r)
      PROVE  CodeInv'
  <2>1. \A s \in Request : req'[s].stage = "claiming" => req'[s] = req[s]
    BY <1>0, <1>8, MoveClaimsNothing DEF CreateAuthCode
  <2> DEFINE row == [id |-> lastCode', binding |-> req[r].binding,
                     expires |-> req[r].now + CodeTTL, consumed |-> FALSE]
  <2>2. /\ codes' = codes \cup {row} /\ row.id = lastCode'
        /\ lastCode' = lastCode + 1 /\ lastCode \in Int
    BY <1>8 DEF CreateAuthCode, TypeOK
  <2>3. /\ \A old \in codes : old.id \in Int
        /\ \A s \in Request : req[s].stage = "claiming" => req[s].code \in Int
    BY StageTells DEF TypeOK, CodeRow, ChainId
  <2> HIDE DEF row
  <2>4. CodesKeyed' /\ CodesMinted'
    BY <2>2, <2>3 DEF CodeInv, CodesKeyed, CodesMinted
  <2>5. ClaimsMatch'
    BY <2>1, <2>2, <2>3 DEF CodeInv, ClaimsMatch
  <2>6. QED
    BY <2>4, <2>5 DEF CodeInv
<1>9. ASSUME NEW r \in Request, ClaimCode(r)
      PROVE  CodeInv'
  <2>1. \A s \in Request : req'[s].stage = "claiming" => req'[s] = req[s]
    BY <1>9, MoveClaimsNothing DEF ClaimCode
  <2>2. PICK row \in codes : codes' = (codes \ {row}) \cup {Consumed(row)}
    BY <1>9 DEF ClaimCode, ConsumeAuthCode
  <2>3. Consumed(row).id = row.id /\ Consumed(row).binding = row.binding
    BY DEF Consumed, TypeOK, CodeRow
  <2>4. QED
    BY <1>9, <2>1, <2>2, <2>3, CodesFollow
       DEF ClaimCode, history, CodeInv, CodesKeyed
<1>10. ASSUME NEW r \in Request,
              LoseClaim(r) \/ Fail(r) \/ StoreTokens(r)
       PROVE  CodeInv'
  BY <1>0, <1>10, CodesStay, MoveClaimsNothing
     DEF LoseClaim, Fail, StoreTokens, tables, history
<1>11. ASSUME NEW r \in Request, NEW id \in 1 .. MaxTokens, NEW c \in ClientId,
              ConsumeRefreshToken(r, id, c)
       PROVE  CodeInv'
  BY <1>11, CodesStay, MoveClaimsNothing DEF ConsumeRefreshToken, history
<1>12. ASSUME NEW r \in Request, NEW id \in 1 .. MaxTokens, DetectReuse(r, id)
       PROVE  CodeInv'
  BY <1>12, CodesStay DEF DetectReuse
<1>13. CASE UNCHANGED vars
  BY <1>13, CodesStay DEF vars, tables, history
<1>14. QED
  BY <1>1, <1>2, <1>3, <1>4, <1>5, <1>6, <1>7, <1>8, <1>9, <1>10, <1>11, <1>12,
     <1>13 DEF Next

LEMMA StepSpends ==
    ASSUME TypeOK, CodeInv, [Next]_vars, NEW row \in codes, ~row.consumed,
           Consumed(row) \in codes'
    PROVE  \E r \in Request : /\ req[r].stage = "claiming"
                              /\ req[r].code = row.id
                              /\ req[r].presented = row.binding
                              /\ req'[r].stage = "issuing"
<1>1. /\ Consumed(row).id = row.id /\ Consumed(row).consumed
      /\ Consumed(row) # row
  BY DEF Consumed, TypeOK, CodeRow
<1>2. Consumed(row) \notin codes
  BY <1>1 DEF CodeInv, CodesKeyed
<1>3. PICK r \in Request : ClaimCode(r)
  BY <1>1, <1>2, CodeSteps DEF CreateAuthCode, SweepOAuth
<1>4. PICK old \in codes : /\ old.id = req[r].code
                           /\ codes' = (codes \ {old}) \cup {Consumed(old)}
  BY <1>3 DEF ClaimCode, ConsumeAuthCode
<1>5. Consumed(old).id = old.id
  BY DEF Consumed, TypeOK, CodeRow
<1>6. old = row
  BY <1>1, <1>2, <1>4, <1>5 DEF CodeInv, CodesKeyed
<1>7. req'[r].stage = "issuing"
  BY <1>3 DEF ClaimCode, Goto, TypeOK
<1>8. req[r].stage = "claiming"
  BY <1>3 DEF ClaimCode
<1>9. req[r].presented = row.binding
  BY <1>4, <1>6, <1>8 DEF CodeInv, ClaimsMatch
<1>10. QED
  BY <1>4, <1>6, <1>7, <1>8, <1>9

\* A code is spent only by a request that presents the client, the redirect and
\* the verifier it is bound to, although the comparison and the conditional
\* UPDATE are two store calls between which anything may happen.
THEOREM SpentByItsClientCorrect == Spec => SpentByItsClient
<1>1. TypeOK /\ CodeInv /\ [Next]_vars =>
        [\A row \in codes : ~row.consumed /\ Consumed(row) \in codes' =>
           \E r \in Request : /\ req[r].stage = "claiming"
                              /\ req[r].code = row.id
                              /\ req[r].presented = row.binding
                              /\ req'[r].stage = "issuing"]_vars
  BY StepSpends
<1>2. QED
  BY <1>1, InitType, NextType, InitCodes, NextCodes, PTL
     DEF Spec, SpentByItsClient

-----------------------------------------------------------------------------
(* A client in use has its registration. *)

\* Nothing comes into use with a step that lets requests go on, codes be
\* written and tokens be stored for clients in use only.
LEMMA UseFalls ==
    ASSUME NEW c,
           \A r \in Request : WorksFor(req'[r], c) => InUse(c),
           \A row \in codes' : row.binding.client = c /\ Live(row, clock') => InUse(c),
           \A t \in tokens' : t.grant.client = c /\ Live(t, clock') => InUse(c)
    PROVE  InUse(c)' => InUse(c)
  BY DEF InUse, Pending

\* One request moves.
LEMMA MoveKeepsUse ==
    ASSUME TypeOK, NEW c, NEW r \in Request, NEW state, Goto(r, state),
           WorksFor(state, c) => InUse(c)
    PROVE  \A s \in Request : WorksFor(req'[s], c) => InUse(c)
<1>1. \A s \in Request : req'[s] = IF s = r THEN state ELSE req[s]
  BY DEF Goto, TypeOK
<1>2. \A s \in Request : WorksFor(req[s], c) => InUse(c)
  BY DEF InUse, Pending
<1>3. QED
  BY <1>1, <1>2

LEMMA IdleWorksForNobody == \A c : ~WorksFor(Idle, c)
  BY DEF WorksFor, Idle

\* A row that was consumed is not live.
LEMMA ConsumedIsSpent ==
    /\ \A row \in CodeRow : \A now : ~Live(Consumed(row), now)
    /\ \A row \in TokenRow : \A now : ~Live(Consumed(row), now)
  BY DEF Live, Consumed, CodeRow, TokenRow

LEMMA RowsStandForClients ==
    ASSUME NEW c
    PROVE  /\ \A row \in codes : row.binding.client = c /\ Live(row, clock) => InUse(c)
           /\ \A t \in tokens : t.grant.client = c /\ Live(t, clock) => InUse(c)
           /\ \A r \in Request : WorksFor(req[r], c) => InUse(c)
  BY DEF InUse, Pending

\* The steps that neither let a client in nor drop rows.
LEMMA StepKeepsUse ==
    ASSUME TypeOK, [Next]_vars, ~SweepOAuth(clock), NEW c,
           ~\E r \in Request, u \in Redirect, v \in Verifier, d \in Device :
              Authorize(r, c, u, v, d)
    PROVE  InUse(c)' => InUse(c)
<1>0. /\ codes \subseteq CodeRow /\ tokens \subseteq TokenRow
      /\ \A row \in codes : row.binding.client = c /\ Live(row, clock) => InUse(c)
      /\ \A t \in tokens : t.grant.client = c /\ Live(t, clock) => InUse(c)
      /\ \A r \in Request : WorksFor(req[r], c) => InUse(c)
  BY RowsStandForClients DEF TypeOK
<1>1. CASE Tick
  <2>1. clock' = clock + 1 /\ UNCHANGED <<codes, tokens, req>> /\ clock \in Int
    BY <1>1 DEF Tick, tables, TypeOK, Time
  <2>2. /\ \A row \in codes : Live(row, clock') => Live(row, clock)
        /\ \A t \in tokens : Live(t, clock') => Live(t, clock)
    BY <1>0, <2>1 DEF Live, CodeRow, TokenRow
  <2>3. QED
    BY <1>0, <2>1, <2>2, UseFalls
<1>2. CASE Restart
  <2>1. UNCHANGED <<clock, codes, tokens>> /\ \A r \in Request : req'[r] = Idle
    BY <1>2 DEF Restart, tables
  <2>2. QED
    BY <1>0, <2>1, IdleWorksForNobody, UseFalls
<1>3. CASE \/ \E d \in Device : RevokeDevice(d)
           \/ \E a \in Client, uris \in SUBSET Redirect : Register(a, uris)
           \/ UNCHANGED vars
  <2>1. UNCHANGED <<clock, codes, tokens, req>>
    BY <1>3 DEF RevokeDevice, Register, vars, tables
  <2>2. QED
    BY <1>0, <2>1, UseFalls
<1>4. ASSUME NEW r \in Request, NEW a \in ClientId, NEW u \in Redirect,
             NEW v \in Verifier, NEW d \in Device, Authorize(r, a, u, v, d)
      PROVE  InUse(c)' => InUse(c)
  <2> DEFINE state == [stage |-> "vetting", now |-> clock,
                       binding |-> [client |-> a, redirect |-> u,
                                    challenge |-> S256(v), device |-> d]]
  <2>1. Goto(r, state) /\ UNCHANGED <<clock, codes, tokens>> /\ a # c
    BY <1>4 DEF Authorize, tables
  <2>2. ~WorksFor(state, c)
    BY <2>1 DEF WorksFor
  <2> HIDE DEF state
  <2>3. QED
    BY <1>0, <2>1, <2>2, MoveKeepsUse, UseFalls
<1>5. ASSUME NEW r \in Request, NEW a \in ClientId, NEW u \in Redirect,
             NEW v \in Verifier, NEW id \in ChainId, ReadCode(r, id, a, u, v)
      PROVE  InUse(c)' => InUse(c)
  <2>1. PICK row \in codes :
          /\ Live(row, clock)
          /\ Goto(r, [stage |-> "claiming", code |-> id, now |-> clock,
                      binding |-> row.binding,
                      presented |-> [client |-> a, redirect |-> u,
                                     challenge |-> S256(v),
                                     device |-> row.binding.device]])
          /\ UNCHANGED <<clock, tables, history>>
    BY <1>5 DEF ReadCode
  <2> DEFINE state == [stage |-> "claiming", code |-> id, now |-> clock,
                       binding |-> row.binding,
                       presented |-> [client |-> a, redirect |-> u,
                                      challenge |-> S256(v),
                                      device |-> row.binding.device]]
  <2>2. WorksFor(state, c) => InUse(c)
    BY <1>0, <2>1 DEF WorksFor
  <2>3. Goto(r, state) /\ UNCHANGED <<clock, codes, tokens>>
    BY <2>1 DEF tables
  <2> HIDE DEF state
  <2>4. QED
    BY <1>0, <2>2, <2>3, MoveKeepsUse, UseFalls
<1>6. ASSUME NEW r \in Request,
             VetDevice(r) \/ RecheckDevice(r) \/ LoseClaim(r) \/ Fail(r)
      PROVE  InUse(c)' => InUse(c)
  <2>1. UNCHANGED <<clock, codes, tokens>>
    BY <1>6 DEF VetDevice, RecheckDevice, LoseClaim, Fail, tables
  <2>2. PICK state : Goto(r, state) /\ (WorksFor(state, c) => WorksFor(req[r], c))
    <3>1. CASE Goto(r, Idle)
      BY <3>1, IdleWorksForNobody
    <3>2. CASE /\ Goto(r, [req[r] EXCEPT !.stage = "granting"])
               /\ req[r].stage = "vetting"
      <4> DEFINE state == [req[r] EXCEPT !.stage = "granting"]
      <4>1. state.stage = "granting" /\ state.binding = req[r].binding
        BY <3>2, StageTells DEF TypeOK
      <4>2. WorksFor(state, c) => WorksFor(req[r], c)
        BY <3>2, <4>1 DEF WorksFor
      <4>3. QED
        BY <3>2, <4>2
    <3>3. CASE /\ Goto(r, [req[r] EXCEPT !.stage = "storing"])
               /\ req[r].stage = "issuing"
      <4> DEFINE state == [req[r] EXCEPT !.stage = "storing"]
      <4>1. state.stage = "storing" /\ state.grant = req[r].grant
        BY <3>3, StageTells DEF TypeOK
      <4>2. WorksFor(state, c) => WorksFor(req[r], c)
        BY <3>3, <4>1 DEF WorksFor
      <4>3. QED
        BY <3>3, <4>2
    <3>4. QED
      BY <1>6, <3>1, <3>2, <3>3 DEF VetDevice, RecheckDevice, LoseClaim, Fail
  <2>3. QED
    BY <1>0, <2>1, <2>2, MoveKeepsUse, UseFalls
<1>7. ASSUME NEW r \in Request, CreateAuthCode(r)
      PROVE  InUse(c)' => InUse(c)
  <2>1. /\ Goto(r, Idle) /\ UNCHANGED <<clock, tokens>>
        /\ \A row \in codes' : row \in codes \/ row.binding = req[r].binding
        /\ req[r].stage = "granting"
    BY <1>7 DEF CreateAuthCode
  <2>2. req[r].binding.client = c => InUse(c)
    BY <1>0, <2>1 DEF WorksFor
  <2>3. \A row \in codes' : row.binding.client = c /\ Live(row, clock) => InUse(c)
    BY <1>0, <2>1, <2>2
  <2>4. QED
    BY <1>0, <2>1, <2>3, IdleWorksForNobody, MoveKeepsUse, UseFalls
<1>8. ASSUME NEW r \in Request, ClaimCode(r)
      PROVE  InUse(c)' => InUse(c)
  <2> DEFINE state == [stage |-> "issuing", now |-> req[r].now,
                       grant |-> [client |-> req[r].binding.client,
                                  device |-> req[r].binding.device,
                                  chain |-> req[r].code]]
  <2>1. /\ Goto(r, state) /\ UNCHANGED <<clock, tokens>>
        /\ req[r].stage = "claiming"
    BY <1>8 DEF ClaimCode, history
  <2>2. WorksFor(state, c) => InUse(c)
    BY <1>0, <2>1 DEF WorksFor
  <2> HIDE DEF state
  <2>3. \A row \in codes' : Live(row, clock) => row \in codes
    BY <1>0, <1>8, ConsumedIsSpent DEF ClaimCode, ConsumeAuthCode
  <2>4. QED
    BY <1>0, <2>1, <2>2, <2>3, MoveKeepsUse, UseFalls
<1>9. ASSUME NEW r \in Request, NEW id \in 1 .. MaxTokens, NEW a \in ClientId,
             ConsumeRefreshToken(r, id, a)
      PROVE  InUse(c)' => InUse(c)
  <2>1. PICK row \in tokens :
          /\ Live(row, clock)
          /\ tokens' = (tokens \ {row}) \cup {Consumed(row)}
          /\ \/ Goto(r, [stage |-> "issuing", grant |-> row.grant, now |-> clock])
             \/ UNCHANGED req
          /\ UNCHANGED <<clock, codes>>
    BY <1>9 DEF ConsumeRefreshToken
  <2> DEFINE state == [stage |-> "issuing", grant |-> row.grant, now |-> clock]
  <2>2. WorksFor(state, c) => InUse(c)
    BY <1>0, <2>1 DEF WorksFor
  <2>3. \A t \in tokens' : Live(t, clock) => t \in tokens
    BY <1>0, <2>1, ConsumedIsSpent
  <2>4. Goto(r, state) \/ UNCHANGED req
    BY <2>1
  <2> HIDE DEF state
  <2>5. \A s \in Request : WorksFor(req'[s], c) => InUse(c)
    BY <1>0, <2>2, <2>4, MoveKeepsUse
  <2>6. QED
    BY <1>0, <2>1, <2>3, <2>5, UseFalls
<1>10. ASSUME NEW r \in Request, NEW id \in 1 .. MaxTokens, DetectReuse(r, id)
       PROVE  InUse(c)' => InUse(c)
  <2>1. PICK row \in tokens :
          LET revoked == {t \in Family(row) : ~t.consumed}
          IN  /\ tokens' = (tokens \ revoked) \cup {Consumed(t) : t \in revoked}
              /\ UNCHANGED <<clock, codes, req>>
    BY <1>10 DEF DetectReuse
  <2>2. \A t \in tokens' : Live(t, clock) => t \in tokens
    BY <1>0, <2>1, ConsumedIsSpent DEF Family
  <2>3. QED
    BY <1>0, <2>1, <2>2, UseFalls
<1>11. ASSUME NEW r \in Request, StoreTokens(r)
       PROVE  InUse(c)' => InUse(c)
  <2>1. /\ Goto(r, Idle) /\ UNCHANGED <<clock, codes>>
        /\ \A t \in tokens' : t \in tokens \/ t.grant = req[r].grant
        /\ req[r].stage = "storing"
    BY <1>11 DEF StoreTokens
  <2>2. req[r].grant.client = c => InUse(c)
    BY <1>0, <2>1 DEF WorksFor
  <2>3. \A t \in tokens' : t.grant.client = c /\ Live(t, clock) => InUse(c)
    BY <1>0, <2>1, <2>2
  <2>4. QED
    BY <1>0, <2>1, <2>3, IdleWorksForNobody, MoveKeepsUse, UseFalls
<1>12. QED
  BY <1>1, <1>2, <1>3, <1>4, <1>5, <1>6, <1>7, <1>8, <1>9, <1>10, <1>11 DEF Next

\* Only the sweep takes registrations away, and only it strands a client.
LEMMA StepKeepsClients ==
    ASSUME [Next]_vars, ~SweepOAuth(clock)
    PROVE  clients \subseteq clients' /\ stranded' = stranded
<1>1. CASE \/ Tick \/ Restart \/ \E d \in Device : RevokeDevice(d)
           \/ UNCHANGED vars
  BY <1>1 DEF Tick, Restart, RevokeDevice, vars, tables, history
<1>2. CASE \E c \in Client, uris \in SUBSET Redirect : Register(c, uris)
  BY <1>2 DEF Register
<1>3. CASE \E r \in Request, c \in ClientId, u \in Redirect, v \in Verifier :
              \E d \in Device : Authorize(r, c, u, v, d)
  BY <1>3 DEF Authorize, tables, history
<1>4. CASE \E r \in Request, c \in ClientId, u \in Redirect, v \in Verifier :
              \E id \in ChainId : ReadCode(r, id, c, u, v)
  BY <1>4 DEF ReadCode, tables, history
<1>5. CASE \E r \in Request : \/ VetDevice(r) \/ CreateAuthCode(r)
                              \/ ClaimCode(r) \/ LoseClaim(r)
                              \/ RecheckDevice(r) \/ StoreTokens(r) \/ Fail(r)
  BY <1>5 DEF VetDevice, CreateAuthCode, ClaimCode, LoseClaim, RecheckDevice,
     StoreTokens, Fail, tables, history
<1>6. CASE \E r \in Request, id \in 1 .. MaxTokens :
              \/ \E c \in ClientId : ConsumeRefreshToken(r, id, c)
              \/ DetectReuse(r, id)
  BY <1>6 DEF ConsumeRefreshToken, DetectReuse, history
<1>7. QED
  BY <1>1, <1>2, <1>3, <1>4, <1>5, <1>6 DEF Next

\* What a sweep leaves of a client: its row, or a token that keeps it, or
\* nothing but the request or the code that make it stranded.
LEMMA SweepKeepsUse ==
    ASSUME TypeOK, ClientInUseIsRegistered, SweepOAuth(clock)
    PROVE  ClientInUseIsRegistered'
<1> DEFINE kept == {t \in tokens : t.expires > clock}
<1>1. /\ UNCHANGED <<clock, req>>
      /\ codes' \subseteq codes /\ tokens' = kept
      /\ clients' = ClientsKept(kept, clock)
      /\ stranded' = stranded \cup
           {c \in {row.id : row \in clients \ clients'} :
              Pending(c) /\ \A t \in kept : t.grant.client # c}
  BY DEF SweepOAuth
<1> SUFFICES ASSUME NEW c \in Client \ Hosted, InUse(c)', c \notin stranded',
                    ~\E row \in clients' : row.id = c
             PROVE  FALSE
  BY DEF ClientInUseIsRegistered
<1>2. InUse(c)
  BY <1>1 DEF InUse, Pending
<1>3. PICK row \in clients : row.id = c
  BY <1>1, <1>2 DEF ClientInUseIsRegistered
<1>4. row \notin clients'
  BY <1>3
<1>5. \A t \in kept : t.grant.client # c
  BY <1>1, <1>3, <1>4 DEF ClientsKept
<1>6. Pending(c)'
  BY <1>1, <1>5 DEF InUse
<1>7. Pending(c)
  BY <1>1, <1>6 DEF Pending
<1>8. QED
  BY <1>1, <1>3, <1>4, <1>5, <1>7

LEMMA NextUse ==
    TypeOK /\ ClientInUseIsRegistered /\ [Next]_vars => ClientInUseIsRegistered'
<1> SUFFICES ASSUME TypeOK, ClientInUseIsRegistered, [Next]_vars
             PROVE  ClientInUseIsRegistered'
  OBVIOUS
<1>1. CASE SweepOAuth(clock)
  BY <1>1, SweepKeepsUse
<1>2. CASE ~SweepOAuth(clock)
  <2> SUFFICES ASSUME NEW c \in Client \ Hosted, InUse(c)'
               PROVE  c \in stranded' \/ \E row \in clients' : row.id = c
    BY DEF ClientInUseIsRegistered
  <2>1. clients \subseteq clients' /\ stranded' = stranded
    BY <1>2, StepKeepsClients
  <2>2. CASE \E r \in Request, u \in Redirect, v \in Verifier, d \in Device :
               Authorize(r, c, u, v, d)
    <3>1. \E row \in clients : row.id = c
      BY <2>2 DEF Authorize, ResolveClient
    <3>2. QED
      BY <2>1, <3>1
  <2>3. CASE ~\E r \in Request, u \in Redirect, v \in Verifier, d \in Device :
                Authorize(r, c, u, v, d)
    <3>1. InUse(c)
      BY <1>2, <2>3, StepKeepsUse
    <3>2. QED
      BY <2>1, <3>1 DEF ClientInUseIsRegistered
  <2>4. QED
    BY <2>2, <2>3
<1>3. QED
  BY <1>1, <1>2

LEMMA InitUse == Init => ClientInUseIsRegistered
  BY IdleWorksForNobody DEF Init, ClientInUseIsRegistered, InUse, Pending

\* A client that can refresh, or that is in the middle of an authorization, an
\* exchange or a rotation, has its registration, whatever else sweeps, expires
\* and fails around it; the one way to lose it is the sweep that finds the last
\* token expired while only a request or a code stands for the client.
THEOREM ClientInUseCorrect == Spec => []ClientInUseIsRegistered
  BY InitType, NextType, InitUse, NextUse, PTL DEF Spec

=============================================================================
