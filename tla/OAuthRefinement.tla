--------------------------- MODULE OAuthRefinement ---------------------------
(***************************************************************************)
(* The authorization server implements the promise of module Baton, for    *)
(* every value of the constants: a code gives rise to one line of tokens.  *)
(*                                                                         *)
(* The step simulation needs to know that a chain is never in two hands,   *)
(* which no single store call checks: that is the invariant HandsInv.      *)
(***************************************************************************)
EXTENDS OAuthProofs, FiniteSetTheorems

\* Token rows are unique and belong to the codes and tokens made so far.
TokensKeyed == \A s, t \in tokens : s.id = t.id => s = t

TokensMinted ==
    \A t \in tokens : t.id <= lastToken /\ t.grant.chain <= lastCode

CarriersMinted == \A k \in ChainId : Carriers(k) # {} => k <= lastCode

\* A chain is in one hand.
OneHand ==
    \A k \in ChainId :
        /\ HeldByCode(k) => k <= lastCode /\ Carriers(k) = {} /\ LiveTokens(k) = {}
        /\ Carriers(k) # {} => LiveTokens(k) = {}
        /\ \A r, s \in Carriers(k) : r = s
        /\ \A s, t \in LiveTokens(k) : s = t

HandsInv == TokensKeyed /\ TokensMinted /\ CarriersMinted /\ OneHand

\* The holder of a chain that is not forked.
Holding(k) ==
    IF k > lastCode THEN "unborn"
    ELSE IF HeldByCode(k) THEN "code"
    ELSE IF Carriers(k) # {} THEN "request"
    ELSE IF LiveTokens(k) # {} THEN "token" ELSE "dead"

LEMMA NotForked == OneHand => \A k \in ChainId : HolderOf(k) = Holding(k)
<1> SUFFICES ASSUME OneHand, NEW k \in ChainId
             PROVE  HolderOf(k) = Holding(k)
  OBVIOUS
<1>1. HandsOf(k) = {} \/ \E x : HandsOf(k) = {x}
  <2>1. CASE HeldByCode(k)
    <3>1. HandsOf(k) = {"code"}
      BY <2>1 DEF OneHand, HandsOf
    <3>2. QED
      BY <3>1
  <2>2. CASE ~HeldByCode(k) /\ Carriers(k) # {}
    <3>1. PICK r \in Carriers(k) : Carriers(k) = {r}
      BY <2>2 DEF OneHand
    <3>2. LiveTokens(k) = {}
      BY <2>2 DEF OneHand
    <3>3. HandsOf(k) = {<<"request", r>>}
      BY <2>2, <3>1, <3>2 DEF HandsOf
    <3>4. QED
      BY <3>3
  <2>3. CASE ~HeldByCode(k) /\ Carriers(k) = {} /\ LiveTokens(k) # {}
    <3>1. PICK t \in LiveTokens(k) : LiveTokens(k) = {t}
      BY <2>3 DEF OneHand
    <3>2. HandsOf(k) = {<<"token", t.id>>}
      BY <2>3, <3>1 DEF HandsOf
    <3>3. QED
      BY <3>2
  <2>4. CASE ~HeldByCode(k) /\ Carriers(k) = {} /\ LiveTokens(k) = {}
    BY <2>4 DEF HandsOf
  <2>5. QED
    BY <2>1, <2>2, <2>3, <2>4
<1>2. Cardinality(HandsOf(k)) \in {0, 1}
  BY <1>1, FS_EmptySet, FS_Singleton
<1>3. ~(Cardinality(HandsOf(k)) > 1)
  BY <1>2
<1>4. QED
  BY <1>3 DEF HolderOf, Holding

-----------------------------------------------------------------------------
(* Steps of Baton, in terms of Holding. *)

BatonStep ==
    /\ \A k \in ChainId :
         \/ Holding(k)' = Holding(k)
         \/ Chains!Passes(Holding(k), Holding(k)')
    /\ \A j, k \in ChainId :
         /\ j # k
         /\ Holding(j)' # Holding(j) /\ Holding(j)' # "dead"
         => Holding(k)' = Holding(k)

LEMMA BatonSteps ==
    ASSUME OneHand, OneHand', BatonStep
    PROVE  Chains!Next
<1>1. \A k \in ChainId : HolderOf(k) = Holding(k)
  BY NotForked
<1>2. OneHand' => (\A k \in ChainId : HolderOf(k) = Holding(k))'
  BY NotForked, PTL
<1>3. \A k \in ChainId : HolderOf(k)' = Holding(k)'
  BY <1>2
<1>4. \A k \in ChainId : Holding(k)' \in Chains!Holder
  BY DEF Holding, Chains!Holder
<1>5. QED
  BY <1>1, <1>3, <1>4 DEF BatonStep, Chains!Next

\* Chains are only dropped.
LEMMA ChainsShrink ==
    ASSUME HandsInv, lastCode' = lastCode, TokensKeyed', TokensMinted',
           \A k \in ChainId : /\ HeldByCode(k)' => HeldByCode(k)
                              /\ Carriers(k)' \subseteq Carriers(k)
                              /\ LiveTokens(k)' \subseteq LiveTokens(k)
    PROVE  HandsInv' /\ BatonStep
<1>1. OneHand' /\ CarriersMinted'
  BY DEF HandsInv, OneHand, CarriersMinted
<1>2. \A k \in ChainId :
         \/ Holding(k)' = Holding(k)
         \/ Holding(k) # "unborn" /\ Holding(k)' = "dead"
  BY DEF HandsInv, OneHand, Holding
<1>3. BatonStep
  BY <1>2 DEF BatonStep, Chains!Passes
<1>4. QED
  BY <1>1, <1>3 DEF HandsInv

\* One chain is passed on.
LEMMA ChainPasses ==
    ASSUME NEW k \in ChainId, Chains!Passes(Holding(k), Holding(k)'),
           \A j \in ChainId \ {k} : Holding(j)' = Holding(j)
    PROVE  BatonStep
  BY DEF BatonStep

-----------------------------------------------------------------------------
(* Who carries what after a step. *)

Carrying(state) == state.stage \in {"issuing", "storing"}

LEMMA CarriersMove ==
    ASSUME TypeOK, NEW r \in Request, NEW state, Goto(r, state)
    PROVE  \A k \in ChainId :
             Carriers(k)' =
               IF Carrying(state) /\ state.grant.chain = k
                 THEN Carriers(k) \cup {r} ELSE Carriers(k) \ {r}
<1>1. \A s \in Request : req'[s] = IF s = r THEN state ELSE req[s]
  BY DEF Goto, TypeOK
<1>2. QED
  BY <1>1 DEF Carriers, Carrying

\* Tables and counters stay, and requests at most drop what they carry.
LEMMA QuietStep ==
    ASSUME HandsInv, UNCHANGED <<codes, tokens, lastCode, lastToken>>,
           \A k \in ChainId : Carriers(k)' \subseteq Carriers(k)
    PROVE  HandsInv' /\ BatonStep
<1>1. TokensKeyed' /\ TokensMinted'
  BY DEF HandsInv, TokensKeyed, TokensMinted
<1>2. \A k \in ChainId : /\ HeldByCode(k)' <=> HeldByCode(k)
                         /\ LiveTokens(k)' = LiveTokens(k)
  BY DEF HeldByCode, LiveTokens
<1>3. QED
  BY <1>1, <1>2, ChainsShrink

\* A request moves on without carrying a chain.
LEMMA QuietMove ==
    ASSUME TypeOK, HandsInv, UNCHANGED <<codes, tokens, lastCode, lastToken>>,
           NEW r \in Request, NEW state, Goto(r, state), ~Carrying(state)
    PROVE  HandsInv' /\ BatonStep
  BY CarriersMove, QuietStep

LEMMA IdleCarriesNothing == ~Carrying(Idle)
  BY DEF Carrying, Idle

-----------------------------------------------------------------------------
(* The invariant and the simulation, action by action. *)

LEMMA RestartStep ==
    ASSUME HandsInv, Restart
    PROVE  HandsInv' /\ BatonStep
<1>1. \A k \in ChainId : Carriers(k)' = {}
  BY DEF Restart, Carriers, Idle
<1>2. QED
  BY <1>1, QuietStep DEF Restart, tables, history

LEMMA RecheckStep ==
    ASSUME TypeOK, HandsInv, NEW r \in Request, RecheckDevice(r)
    PROVE  HandsInv' /\ BatonStep
<1>1. UNCHANGED <<codes, tokens, lastCode, lastToken>>
  BY DEF RecheckDevice, tables, history
<1>2. CASE Goto(r, Idle)
  BY <1>1, <1>2, QuietMove, IdleCarriesNothing
<1>3. CASE Goto(r, [req[r] EXCEPT !.stage = "storing"])
  <2>1. [req[r] EXCEPT !.stage = "storing"].grant = req[r].grant
    BY StageTells DEF TypeOK, RecheckDevice
  <2>2. \A k \in ChainId : Carriers(k)' \subseteq Carriers(k)
    <3>1. \A s \in Request :
             req'[s] = IF s = r THEN [req[r] EXCEPT !.stage = "storing"] ELSE req[s]
      BY <1>3 DEF Goto, TypeOK
    <3>2. req[r].stage = "issuing"
      BY DEF RecheckDevice
    <3>3. QED
      BY <2>1, <3>1, <3>2 DEF Carriers
  <2>3. QED
    BY <1>1, <2>2, QuietStep
<1>4. QED
  BY <1>2, <1>3 DEF RecheckDevice

LEMMA SweepStep ==
    ASSUME HandsInv, SweepOAuth(clock)
    PROVE  HandsInv' /\ BatonStep
<1>1. /\ codes' \subseteq codes /\ tokens' \subseteq tokens
      /\ UNCHANGED <<req, lastCode, lastToken>>
  BY DEF SweepOAuth, history
<1>2. TokensKeyed' /\ TokensMinted'
  BY <1>1 DEF HandsInv, TokensKeyed, TokensMinted
<1>3. \A k \in ChainId : /\ HeldByCode(k)' => HeldByCode(k)
                         /\ Carriers(k)' = Carriers(k)
                         /\ LiveTokens(k)' \subseteq LiveTokens(k)
  BY <1>1 DEF HeldByCode, Carriers, LiveTokens
<1>4. QED
  BY <1>1, <1>2, <1>3, ChainsShrink

\* Consumed rows are the old ones, but dead.
LEMMA ConsumedRow ==
    ASSUME TypeOK
    PROVE  /\ \A row \in codes : /\ Consumed(row).id = row.id
                                 /\ Consumed(row).consumed
           /\ \A row \in tokens : /\ Consumed(row).id = row.id
                                  /\ Consumed(row).grant = row.grant
                                  /\ Consumed(row).consumed
  BY DEF TypeOK, Consumed, CodeRow, TokenRow

\* Consuming any token rows.
LEMMA ConsumeTokens ==
    ASSUME TypeOK, HandsInv, NEW S \in SUBSET tokens,
           tokens' = (tokens \ S) \cup {Consumed(t) : t \in S},
           UNCHANGED <<lastCode, lastToken>>
    PROVE  /\ TokensKeyed' /\ TokensMinted'
           /\ \A k \in ChainId : LiveTokens(k)' = LiveTokens(k) \ S
<1>1. TokensKeyed'
  BY ConsumedRow DEF HandsInv, TokensKeyed
<1>2. TokensMinted'
  BY ConsumedRow DEF HandsInv, TokensMinted
<1>3. \A k \in ChainId : LiveTokens(k)' = LiveTokens(k) \ S
  BY ConsumedRow DEF LiveTokens
<1>4. QED
  BY <1>1, <1>2, <1>3

LEMMA ReuseStep ==
    ASSUME TypeOK, HandsInv, NEW r \in Request, NEW id \in 1 .. MaxTokens,
           DetectReuse(r, id)
    PROVE  HandsInv' /\ BatonStep
<1>1. PICK row \in tokens :
        LET revoked == {t \in Family(row) : ~t.consumed}
        IN  tokens' = (tokens \ revoked) \cup {Consumed(t) : t \in revoked}
  BY DEF DetectReuse
<1> DEFINE revoked == {t \in Family(row) : ~t.consumed}
<1>2. revoked \in SUBSET tokens
  BY DEF Family
<1>3. UNCHANGED <<codes, req, lastCode, lastToken>>
  BY DEF DetectReuse
<1> HIDE DEF revoked
<1>4. /\ TokensKeyed' /\ TokensMinted'
      /\ \A k \in ChainId : LiveTokens(k)' = LiveTokens(k) \ revoked
  BY <1>1, <1>2, <1>3, ConsumeTokens DEF revoked
<1>5. \A k \in ChainId : /\ HeldByCode(k)' => HeldByCode(k)
                         /\ Carriers(k)' = Carriers(k)
  BY <1>3 DEF HeldByCode, Carriers
<1>6. QED
  BY <1>3, <1>4, <1>5, ChainsShrink

LEMMA CreateStep ==
    ASSUME TypeOK, HandsInv, NEW r \in Request, CreateAuthCode(r)
    PROVE  HandsInv' /\ BatonStep
<1>0. PICK k0 \in ChainId : k0 = lastCode + 1
  BY BoundAssumption DEF CreateAuthCode, TypeOK, ChainId
<1>1. /\ k0 = lastCode + 1 /\ lastCode' = k0 /\ lastCode \in Nat
      /\ UNCHANGED <<tokens, lastToken>>
  BY <1>0, BoundAssumption DEF CreateAuthCode, TypeOK
<1>2. \A k \in ChainId : k \in Int
  BY DEF ChainId
<1>3. \A k \in ChainId : HeldByCode(k)' <=> HeldByCode(k) \/ k = k0
  <2> DEFINE row == [id |-> lastCode', binding |-> req[r].binding,
                     expires |-> req[r].now + CodeTTL, consumed |-> FALSE]
  <2>1. codes' = codes \cup {row} /\ row.id = k0 /\ ~row.consumed
    BY <1>1 DEF CreateAuthCode
  <2> HIDE DEF row
  <2>2. QED
    BY <2>1 DEF HeldByCode
<1>4. \A k \in ChainId : Carriers(k)' = Carriers(k)
  <2>1. \A k \in ChainId : r \notin Carriers(k)
    BY DEF CreateAuthCode, Carriers
  <2>2. \A k \in ChainId : Carriers(k)' = Carriers(k) \ {r}
    BY CarriersMove, IdleCarriesNothing DEF CreateAuthCode
  <2>3. QED
    BY <2>1, <2>2
<1>5. \A k \in ChainId : LiveTokens(k)' = LiveTokens(k)
  BY <1>1 DEF LiveTokens
<1>6. Carriers(k0) = {} /\ LiveTokens(k0) = {} /\ ~HeldByCode(k0)
  BY <1>1 DEF HandsInv, CarriersMinted, TokensMinted, OneHand, LiveTokens
<1>7. TokensKeyed' /\ TokensMinted'
  <2>1. \A t \in tokens : t.grant.chain \in Int
    BY DEF TypeOK, TokenRow, Grant, ChainId
  <2>2. QED
    BY <1>1, <2>1 DEF HandsInv, TokensKeyed, TokensMinted
<1>9. CarriersMinted'
  BY <1>1, <1>2, <1>4 DEF HandsInv, CarriersMinted
<1>10. OneHand'
  BY <1>1, <1>2, <1>3, <1>4, <1>5, <1>6 DEF HandsInv, OneHand
<1>11. Holding(k0) = "unborn" /\ Holding(k0)' = "code"
  BY <1>1, <1>2, <1>3 DEF Holding
<1>12. \A j \in ChainId \ {k0} : Holding(j)' = Holding(j)
  BY <1>1, <1>2, <1>3, <1>4, <1>5 DEF Holding
<1>13. BatonStep
  BY <1>11, <1>12, ChainPasses DEF Chains!Passes
<1>14. QED
  BY <1>7, <1>9, <1>10, <1>13 DEF HandsInv

LEMMA ClaimStep ==
    ASSUME TypeOK, CodeInv, HandsInv, NEW r \in Request, ClaimCode(r)
    PROVE  HandsInv' /\ BatonStep
<1> DEFINE state == [stage |-> "issuing", now |-> req[r].now,
                     grant |-> [client |-> req[r].binding.client,
                                device |-> req[r].binding.device,
                                chain |-> req[r].code]]
<1>1. PICK row \in codes : /\ row.id = req[r].code /\ ~row.consumed
                           /\ codes' = (codes \ {row}) \cup {Consumed(row)}
  BY DEF ClaimCode, ConsumeAuthCode, Live
<1>2. PICK k0 \in ChainId : k0 = row.id
  BY DEF TypeOK, CodeRow
<1>3. Goto(r, state) /\ UNCHANGED <<tokens, lastCode, lastToken>>
  BY DEF ClaimCode, history
<1>4. Carrying(state) /\ state.grant.chain = k0
  BY <1>1, <1>2 DEF Carrying
<1> HIDE DEF state
<1>5. \A k \in ChainId : HeldByCode(k)' <=> HeldByCode(k) /\ k # k0
  BY <1>1, <1>2, ConsumedRow DEF HeldByCode, CodeInv, CodesKeyed
<1>6. HeldByCode(k0)
  BY <1>1, <1>2 DEF HeldByCode
<1>7. k0 <= lastCode /\ Carriers(k0) = {} /\ LiveTokens(k0) = {}
  BY <1>6 DEF HandsInv, OneHand
<1>8. \A k \in ChainId :
         Carriers(k)' = IF k = k0 THEN {r} ELSE Carriers(k)
  <2>1. \A k \in ChainId : r \notin Carriers(k)
    BY DEF ClaimCode, Carriers
  <2>2. QED
    BY <1>3, <1>4, <1>7, <2>1, CarriersMove
<1>9. \A k \in ChainId : LiveTokens(k)' = LiveTokens(k)
  BY <1>3 DEF LiveTokens
<1>10. TokensKeyed' /\ TokensMinted' /\ CarriersMinted'
  BY <1>3, <1>7, <1>8 DEF HandsInv, TokensKeyed, TokensMinted, CarriersMinted
<1>11. OneHand'
  BY <1>3, <1>5, <1>7, <1>8, <1>9 DEF HandsInv, OneHand
<1>12. Holding(k0) = "code" /\ Holding(k0)' = "request"
  <2>1. ~(k0 > lastCode)
    BY <1>7 DEF ChainId, TypeOK
  <2>2. QED
    BY <1>3, <1>5, <1>6, <1>8, <2>1 DEF Holding
<1>13. \A k \in ChainId \ {k0} : Holding(k)' = Holding(k)
  BY <1>3, <1>5, <1>8, <1>9 DEF Holding
<1>14. BatonStep
  BY <1>12, <1>13, ChainPasses DEF Chains!Passes
<1>15. QED
  BY <1>10, <1>11, <1>14 DEF HandsInv

LEMMA ConsumeStep ==
    ASSUME TypeOK, HandsInv, NEW r \in Request, NEW id \in 1 .. MaxTokens,
           NEW c \in ClientId, ConsumeRefreshToken(r, id, c)
    PROVE  HandsInv' /\ BatonStep
<1>1. PICK row \in tokens :
        /\ req[r] = Idle /\ ~row.consumed
        /\ tokens' = (tokens \ {row}) \cup {Consumed(row)}
        /\ \/ Goto(r, [stage |-> "issuing", grant |-> row.grant, now |-> clock])
           \/ UNCHANGED req
        /\ UNCHANGED <<codes, lastCode, lastToken>>
  BY DEF ConsumeRefreshToken, Live, history
<1>2. PICK k0 \in ChainId : k0 = row.grant.chain
  BY DEF TypeOK, TokenRow, Grant
<1>3. /\ TokensKeyed' /\ TokensMinted'
      /\ \A k \in ChainId : LiveTokens(k)' = LiveTokens(k) \ {row}
  <2>1. {Consumed(t) : t \in {row}} = {Consumed(row)}
    OBVIOUS
  <2>2. QED
    BY <1>1, <2>1, ConsumeTokens
<1>4. \A k \in ChainId : HeldByCode(k)' <=> HeldByCode(k)
  BY <1>1 DEF HeldByCode
<1>5. row \in LiveTokens(k0)
  BY <1>1, <1>2 DEF LiveTokens
<1>6. /\ k0 <= lastCode /\ ~HeldByCode(k0) /\ Carriers(k0) = {}
      /\ LiveTokens(k0)' = {}
  BY <1>2, <1>3, <1>5 DEF HandsInv, OneHand, TokensMinted
<1>7. CASE UNCHANGED req
  <2>1. \A k \in ChainId : Carriers(k)' = Carriers(k)
    BY <1>7 DEF Carriers
  <2>2. QED
    BY <1>1, <1>3, <1>4, <2>1, ChainsShrink
<1>8. CASE Goto(r, [stage |-> "issuing", grant |-> row.grant, now |-> clock])
  <2> DEFINE state == [stage |-> "issuing", grant |-> row.grant, now |-> clock]
  <2>1. Carrying(state) /\ state.grant.chain = k0
    BY <1>2 DEF Carrying
  <2>2. Goto(r, state)
    BY <1>8
  <2> HIDE DEF state
  <2>3. \A k \in ChainId : Carriers(k)' = IF k = k0 THEN {r} ELSE Carriers(k)
    <3>1. \A k \in ChainId : r \notin Carriers(k)
      BY <1>1 DEF Carriers, Idle
    <3>2. QED
      BY <1>6, <2>1, <2>2, <3>1, CarriersMove
  <2>4. \A k \in ChainId \ {k0} : LiveTokens(k)' = LiveTokens(k)
    BY <1>2, <1>3 DEF LiveTokens
  <2>5. CarriersMinted'
    BY <1>1, <1>6, <2>3 DEF HandsInv, CarriersMinted
  <2>6. OneHand'
    BY <1>1, <1>4, <1>6, <2>3, <2>4 DEF HandsInv, OneHand
  <2>7. Holding(k0) = "token" /\ Holding(k0)' = "request"
    <3>1. ~(k0 > lastCode)
      BY <1>6 DEF ChainId, TypeOK
    <3>2. QED
      BY <1>1, <1>4, <1>5, <1>6, <2>3, <3>1 DEF Holding
  <2>8. \A k \in ChainId \ {k0} : Holding(k)' = Holding(k)
    BY <1>1, <1>4, <2>3, <2>4 DEF Holding
  <2>9. BatonStep
    BY <2>7, <2>8, ChainPasses DEF Chains!Passes
  <2>10. QED
    BY <1>3, <2>5, <2>6, <2>9 DEF HandsInv
<1>9. QED
  BY <1>1, <1>7, <1>8

LEMMA StoreStep ==
    ASSUME TypeOK, HandsInv, NEW r \in Request, StoreTokens(r)
    PROVE  HandsInv' /\ BatonStep
<1> DEFINE new == [id |-> lastToken', grant |-> req[r].grant,
                   expires |-> req[r].now + RefreshTTL, consumed |-> FALSE]
<1>1. PICK k0 \in ChainId : k0 = req[r].grant.chain
  BY StageTells DEF StoreTokens, TypeOK, Grant
<1>2. /\ tokens' = tokens \cup {new} /\ new.id = lastToken'
      /\ lastToken' = lastToken + 1 /\ lastToken \in Int
      /\ new.grant.chain = k0 /\ ~new.consumed
  BY <1>1 DEF StoreTokens, TypeOK
<1>3. Goto(r, Idle) /\ UNCHANGED <<codes, lastCode>>
  BY DEF StoreTokens
<1> HIDE DEF new
<1>4. r \in Carriers(k0)
  BY <1>1 DEF StoreTokens, Carriers
<1>5. /\ k0 <= lastCode /\ ~HeldByCode(k0) /\ Carriers(k0) = {r}
      /\ LiveTokens(k0) = {}
  BY <1>4 DEF HandsInv, OneHand, CarriersMinted
<1>6. \A k \in ChainId : Carriers(k)' = IF k = k0 THEN {} ELSE Carriers(k)
  <2>1. \A k \in ChainId \ {k0} : r \notin Carriers(k)
    BY <1>1 DEF Carriers
  <2>2. \A k \in ChainId : Carriers(k)' = Carriers(k) \ {r}
    BY <1>3, CarriersMove, IdleCarriesNothing
  <2>3. QED
    BY <1>5, <2>1, <2>2
<1>7. \A k \in ChainId :
         LiveTokens(k)' = IF k = k0 THEN {new} ELSE LiveTokens(k)
  BY <1>2, <1>5 DEF LiveTokens
<1>8. \A k \in ChainId : HeldByCode(k)' <=> HeldByCode(k)
  BY <1>3 DEF HeldByCode
<1>9. TokensKeyed' /\ TokensMinted'
  <2>1. \A t \in tokens : t.id \in Int
    BY DEF TypeOK, TokenRow
  <2>2. QED
    BY <1>2, <1>3, <1>5, <2>1 DEF HandsInv, TokensKeyed, TokensMinted
<1>10. CarriersMinted'
  BY <1>3, <1>6 DEF HandsInv, CarriersMinted
<1>11. OneHand'
  BY <1>3, <1>5, <1>6, <1>7, <1>8 DEF HandsInv, OneHand
<1>12. Holding(k0) = "request" /\ Holding(k0)' = "token"
  <2>1. ~(k0 > lastCode)
    BY <1>5 DEF ChainId, TypeOK
  <2>2. QED
    BY <1>3, <1>5, <1>6, <1>7, <1>8, <2>1 DEF Holding
<1>13. \A k \in ChainId \ {k0} : Holding(k)' = Holding(k)
  BY <1>3, <1>6, <1>7, <1>8 DEF Holding
<1>14. BatonStep
  BY <1>12, <1>13, ChainPasses DEF Chains!Passes
<1>15. QED
  BY <1>9, <1>10, <1>11, <1>14 DEF HandsInv

-----------------------------------------------------------------------------
(* The simulation. *)

LEMMA InitHands == Init => HandsInv
  BY DEF Init, HandsInv, TokensKeyed, TokensMinted, CarriersMinted, OneHand,
     Carriers, HeldByCode, LiveTokens, Idle

LEMMA InitBaton == Init => Chains!Init
<1> SUFFICES ASSUME Init
             PROVE  Chains!Init
  OBVIOUS
<1>1. \A k \in ChainId : HolderOf(k) = "unborn"
  BY BoundAssumption DEF Init, HolderOf, ChainId
<1>2. QED
  BY <1>1 DEF Chains!Init

LEMMA NextHands ==
    TypeOK /\ CodeInv /\ HandsInv /\ [Next]_vars => HandsInv' /\ BatonStep
<1> SUFFICES ASSUME TypeOK, CodeInv, HandsInv, [Next]_vars
             PROVE  HandsInv' /\ BatonStep
  OBVIOUS
<1>1. CASE \/ Tick \/ UNCHANGED vars
           \/ \E d \in Device : RevokeDevice(d)
           \/ \E c \in Client, uris \in SUBSET Redirect : Register(c, uris)
  <2>1. UNCHANGED <<codes, tokens, req, lastCode, lastToken>>
    BY <1>1 DEF Tick, RevokeDevice, Register, vars, tables, history
  <2>2. \A k \in ChainId : Carriers(k)' = Carriers(k)
    BY <2>1 DEF Carriers
  <2>3. QED
    BY <2>1, <2>2, QuietStep
<1>2. CASE Restart
  BY <1>2, RestartStep
<1>3. CASE SweepOAuth(clock)
  BY <1>3, SweepStep
<1>4. ASSUME NEW r \in Request, NEW c \in ClientId, NEW u \in Redirect,
             NEW v \in Verifier, NEW d \in Device, Authorize(r, c, u, v, d)
      PROVE  HandsInv' /\ BatonStep
  <2> DEFINE state == [stage |-> "vetting", now |-> clock,
                       binding |-> [client |-> c, redirect |-> u,
                                    challenge |-> S256(v), device |-> d]]
  <2>1. Goto(r, state) /\ ~Carrying(state)
    BY <1>4 DEF Authorize, Carrying
  <2>2. UNCHANGED <<codes, tokens, lastCode, lastToken>>
    BY <1>4 DEF Authorize, tables, history
  <2> HIDE DEF state
  <2>3. QED
    BY <2>1, <2>2, QuietMove
<1>5. ASSUME NEW r \in Request, NEW c \in ClientId, NEW u \in Redirect,
             NEW v \in Verifier, NEW id \in ChainId, ReadCode(r, id, c, u, v)
      PROVE  HandsInv' /\ BatonStep
  <2>1. PICK state : Goto(r, state) /\ ~Carrying(state)
    BY <1>5 DEF ReadCode, Carrying
  <2>2. UNCHANGED <<codes, tokens, lastCode, lastToken>>
    BY <1>5 DEF ReadCode, tables, history
  <2>3. QED
    BY <2>1, <2>2, QuietMove
<1>6. ASSUME NEW r \in Request, VetDevice(r) \/ LoseClaim(r) \/ Fail(r)
      PROVE  HandsInv' /\ BatonStep
  <2>1. PICK state : Goto(r, state) /\ ~Carrying(state)
    <3>1. VetDevice(r) => [req[r] EXCEPT !.stage = "granting"].stage = "granting"
      BY StageTells DEF VetDevice, TypeOK
    <3>2. VetDevice(r) => ~Carrying([req[r] EXCEPT !.stage = "granting"])
      BY <3>1 DEF Carrying
    <3>3. QED
      BY <1>6, <3>2, IdleCarriesNothing DEF VetDevice, LoseClaim, Fail
  <2>2. UNCHANGED <<codes, tokens, lastCode, lastToken>>
    BY <1>6 DEF VetDevice, LoseClaim, Fail, tables, history
  <2>3. QED
    BY <2>1, <2>2, QuietMove
<1>7. ASSUME NEW r \in Request,
             \/ CreateAuthCode(r) \/ ClaimCode(r)
             \/ RecheckDevice(r) \/ StoreTokens(r)
      PROVE  HandsInv' /\ BatonStep
  BY <1>7, CreateStep, ClaimStep, RecheckStep, StoreStep
<1>8. ASSUME NEW r \in Request, NEW id \in 1 .. MaxTokens,
             \/ \E c \in ClientId : ConsumeRefreshToken(r, id, c)
             \/ DetectReuse(r, id)
      PROVE  HandsInv' /\ BatonStep
  BY <1>8, ConsumeStep, ReuseStep
<1>9. QED
  BY <1>1, <1>2, <1>3, <1>4, <1>5, <1>6, <1>7, <1>8 DEF Next

LEMMA HandsCorrect == Spec => [](TypeOK /\ CodeInv /\ HandsInv)
  BY InitType, NextType, InitCodes, NextCodes, InitHands, NextHands, PTL DEF Spec

\* Whatever exchanges, retries, reuse, failures, restarts, revocations and
\* sweeps interleave, a code gives rise to one line of tokens, of which at most
\* one can be used, and a line that has ended never comes back.
THEOREM BatonImplemented == Spec => ImplementsBaton
<1>1. TypeOK /\ CodeInv /\ HandsInv /\ [Next]_vars
        => [Chains!Next]_([k \in ChainId |-> HolderOf(k)])
  <2>1. HandsInv => OneHand
    BY DEF HandsInv
  <2>2. HandsInv' => OneHand'
    BY DEF HandsInv
  <2>3. QED
    BY <2>1, <2>2, NextHands, BatonSteps
<1>2. QED
  BY <1>1, InitBaton, HandsCorrect, PTL DEF Spec, ImplementsBaton, Chains!Spec

=============================================================================
