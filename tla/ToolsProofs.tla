----------------------------- MODULE ToolsProofs -----------------------------
(***************************************************************************)
(* Theorems about module Tools, for any number of tool calls at the same   *)
(* time, any roster, slots, profile caps and requested timeouts, and any   *)
(* width of the machine word.                                              *)
(***************************************************************************)
EXTENDS Tools, MailboxRefinement, FiniteSetTheorems

-----------------------------------------------------------------------------
(* Timeouts. *)

\* A request becomes a positive time within the profile's cap, whatever its
\* product with the second wraps to (wait.go, EffectiveTimeout).
LEMMA TimeoutWithinCap ==
    ASSUME NEW secs \in Int, NEW ct
    PROVE  EffectiveTimeout(secs, ct) \in 1 .. ProfileCap(ct)
<1>1. ProfileCap(ct) \in Nat \ {0}
  BY CapAssumption DEF ProfileCap
<1>2. Wrap(secs * Sec) \in Int
  BY WaitAssumption, SecAssumption DEF Wrap
<1>3. QED
  BY <1>1, <1>2 DEF EffectiveTimeout

-----------------------------------------------------------------------------
(* Calls. *)

CallState == {Idle} \cup Sending \cup Waiting

\* A call's stage tells what it carries.
LEMMA StageTells ==
    ASSUME call \in [Call -> CallState], NEW c \in Call
    PROVE  /\ call[c].stage = "starting" =>
                call[c] \in [stage: {"starting"}, person: Person, to: Person,
                             body: Body]
           /\ call[c].stage = "drafting" =>
                call[c] \in [stage: {"drafting"}, person: Person, to: Person,
                             body: Body, thread: ThreadId]
           /\ call[c].stage = "releasing" =>
                call[c] \in [stage: {"releasing"}, person: Person, id: Id]
           /\ call[c].stage \in {"polling", "polled"} =>
                call[c] \in [stage: {"polling", "polled"}, person: Person,
                             client: ClientType, asked: Int, since: Nat]
           /\ call[c].stage = "sleeping" =>
                call[c] \in [stage: {"sleeping"}, person: Person,
                             client: ClientType, asked: Int, since: Nat,
                             until: Nat]
  BY DEF CallState, Sending, Waiting, Idle

\* What a call that waits carries through all of it.
LEMMA WaitCarries ==
    ASSUME call \in [Call -> CallState], NEW c \in Call, IsWaiting(c)
    PROVE  /\ call[c].person \in Person /\ call[c].client \in ClientType
           /\ call[c].asked \in Int /\ call[c].since \in Nat
  BY StageTells DEF IsWaiting

LEMMA GotoType ==
    ASSUME call \in [Call -> CallState], NEW c \in Call,
           NEW state \in CallState, Goto(c, state)
    PROVE  call' \in [Call -> CallState]
  BY DEF Goto

LEMMA GotoMoves ==
    ASSUME call \in [Call -> CallState], NEW c \in Call, NEW state, Goto(c, state)
    PROVE  \A b \in Call : call'[b] = IF b = c THEN state ELSE call[b]
  BY DEF Goto

LEMMA IdleType == Idle \in CallState
  BY DEF CallState

\* The deadline of a wait is a time.
LEMMA DeadlineType ==
    ASSUME NEW w, w.since \in Nat, w.asked \in Int
    PROVE  Deadline(w) \in Nat
<1>1. EffectiveTimeout(w.asked, w.client) \in Nat
  <2>1. ProfileCap(w.client) \in Nat
    BY CapAssumption DEF ProfileCap
  <2>2. QED
    BY <2>1, TimeoutWithinCap
<1>2. QED
  BY <1>1 DEF Deadline

-----------------------------------------------------------------------------
(* The tools do to the store what the relay's callers do.                   *)

\* A call that is under way reads the clock no earlier than now.
LEMMA ClockIsNow ==
    ASSUME clock \in 0 .. MaxClock
    PROVE  clock \in Now
  BY ClockAssumption DEF Now

LEMMA SendSteps ==
    ASSUME ToolsTypeOK, NEW c \in Call,
           \/ SendStart(c) \/ SendDraft(c) \/ SendRelease(c)
    PROVE  [RelayNext]_vars
<1>1. call \in [Call -> CallState]
  BY DEF ToolsTypeOK, CallState
<1>2. CASE SendStart(c)
  <2>1. call[c].person \in Person /\ call[c].to \in Person
    BY <1>1, <1>2, StageTells DEF SendStart
  <2>2. QED
    BY <1>2, <2>1 DEF SendStart, RelayNext
<1>3. CASE SendDraft(c)
  <2>1. /\ call[c].person \in Person /\ call[c].to \in Person
        /\ call[c].thread \in ThreadId /\ call[c].body \in Body
    BY <1>1, <1>3, StageTells DEF SendDraft
  <2>2. QED
    BY <1>3, <2>1 DEF SendDraft, RelayNext
<1>4. CASE SendRelease(c)
  <2>1. call[c].person \in Person /\ call[c].id \in Id
    BY <1>1, <1>4, StageTells DEF SendRelease
  <2>2. QED
    BY <1>4, <2>1 DEF SendRelease, RelayNext
<1>5. QED
  BY <1>2, <1>3, <1>4

LEMMA OtherSteps ==
    ASSUME ToolsTypeOK, OtherNext
    PROVE  RelayNext
<1>1. clock \in Now
  BY ClockIsNow DEF ToolsTypeOK, TypeOK
<1>2. QED
  BY <1>1 DEF OtherNext, RelayNext

\* The calls that stay in memory.
LEMMA MemorySteps ==
    ASSUME NEW c \in Call,
           \/ \E p, q \in Person, b \in Body : SendMessage(c, p, q, b)
           \/ SendFails(c) \/ WaitStep(c) \/ Cancel(c)
           \/ \E p \in Person, ct \in ClientType : \E secs \in WaitAsked[p] :
                WaitStart(c, p, ct, secs)
    PROVE  UNCHANGED vars
  BY DEF SendMessage, SendFails, WaitStep, Poll, CheckDeadline, Wake, Cancel,
         WaitStart, WaitEnd

LEMMA ToolsStep == ToolsTypeOK /\ [ToolsNext]_<<vars, toolVars>> => [RelayNext]_vars
  BY SendSteps, OtherSteps, MemorySteps DEF ToolsNext, Restart

-----------------------------------------------------------------------------
(* Type correctness. *)

LEMMA ToolsInitType == ToolsInit => ToolsTypeOK
  BY InitType, IdleType DEF ToolsInit, ToolsTypeOK, CallState

\* One call moves, or none.
LEMMA CallType ==
    ASSUME ToolsTypeOK, TypeOK', NEW c \in Call, NEW state \in CallState,
           Goto(c, state), waiting' \in [Person -> Nat],
           toldSent' \subseteq Id, toldError' \subseteq Id
    PROVE  ToolsTypeOK'
  BY GotoType DEF ToolsTypeOK, CallState

LEMMA WaitEndType ==
    ASSUME ToolsTypeOK, TypeOK', NEW c \in Call, IsWaiting(c), WaitEnd(c)
    PROVE  ToolsTypeOK'
<1>1. waiting' \in [Person -> Nat]
  <2>1. call[c].person \in Person
    BY WaitCarries DEF ToolsTypeOK, CallState
  <2>2. (IF waiting[call[c].person] > 0
           THEN waiting[call[c].person] - 1 ELSE 0) \in Nat
    BY <2>1 DEF ToolsTypeOK
  <2>3. QED
    BY <2>1, <2>2 DEF WaitEnd, ToolsTypeOK
<1>2. QED
  BY <1>1, IdleType, CallType DEF WaitEnd, ToolsTypeOK

LEMMA ToolsNextType ==
    ToolsTypeOK /\ [ToolsNext]_<<vars, toolVars>> => ToolsTypeOK'
<1> SUFFICES ASSUME ToolsTypeOK, [ToolsNext]_<<vars, toolVars>>
             PROVE  ToolsTypeOK'
  OBVIOUS
<1>0. TypeOK'
  <2>1. [RelayNext]_vars => [Next]_vars
    BY DEF Next
  <2>2. QED
    BY <2>1, ToolsStep, NextType DEF ToolsTypeOK
<1>t. /\ call \in [Call -> CallState] /\ waiting \in [Person -> Nat]
      /\ toldSent \subseteq Id /\ toldError \subseteq Id
      /\ clock \in Nat
  BY ClockAssumption DEF ToolsTypeOK, CallState, TypeOK
<1>1. CASE OtherNext \/ UNCHANGED <<vars, toolVars>>
  BY <1>0, <1>1 DEF OtherNext, toolVars, ToolsTypeOK
<1>2. CASE Restart
  BY <1>0, <1>2, <1>t, IdleType DEF Restart, ToolsTypeOK, CallState
<1>3. ASSUME NEW c \in Call, NEW p \in Person, NEW q \in Person, NEW b \in Body,
             SendMessage(c, p, q, b)
      PROVE  ToolsTypeOK'
  <2>1. PICK state \in CallState : Goto(c, state)
    <3>1. [stage |-> "starting", person |-> p, to |-> q, body |-> b] \in CallState
      BY DEF CallState, Sending
    <3>2. \A t \in ThreadId : [stage |-> "drafting", person |-> p, to |-> q,
                               body |-> b, thread |-> t] \in CallState
      BY DEF CallState, Sending
    <3>3. QED
      BY <1>3, <3>1, <3>2 DEF SendMessage
  <2>2. QED
    BY <1>0, <1>3, <1>t, <2>1, CallType DEF SendMessage
<1>4. ASSUME NEW c \in Call, SendStart(c)
      PROVE  ToolsTypeOK'
  <2>1. PICK t \in ThreadId :
          Goto(c, [stage |-> "drafting", person |-> call[c].person,
                   to |-> call[c].to, body |-> call[c].body, thread |-> t])
    BY <1>4 DEF SendStart
  <2>2. [stage |-> "drafting", person |-> call[c].person, to |-> call[c].to,
         body |-> call[c].body, thread |-> t] \in CallState
    BY <1>4, <1>t, StageTells DEF SendStart, CallState, Sending
  <2>3. QED
    BY <1>0, <1>4, <1>t, <2>1, <2>2, CallType DEF SendStart
<1>5. ASSUME NEW c \in Call, SendDraft(c)
      PROVE  ToolsTypeOK'
  <2>1. PICK id \in Id :
          Goto(c, [stage |-> "releasing", person |-> call[c].person, id |-> id])
    BY <1>5 DEF SendDraft
  <2>2. [stage |-> "releasing", person |-> call[c].person, id |-> id] \in CallState
    BY <1>5, <1>t, StageTells DEF SendDraft, CallState, Sending
  <2>3. QED
    BY <1>0, <1>5, <1>t, <2>1, <2>2, CallType DEF SendDraft
<1>6. ASSUME NEW c \in Call, SendRelease(c) \/ SendFails(c)
      PROVE  ToolsTypeOK'
  <2>1. call[c].stage = "releasing" => call[c].id \in Id
    BY <1>t, StageTells
  <2>2. /\ toldSent' \subseteq Id /\ toldError' \subseteq Id
        /\ Goto(c, Idle) /\ UNCHANGED waiting
    BY <1>6, <1>t, <2>1 DEF SendRelease, SendFails
  <2>3. QED
    BY <1>0, <1>t, <2>2, IdleType, CallType
<1>7. ASSUME NEW c \in Call, NEW p \in Person, NEW ct \in ClientType,
             NEW secs \in WaitAsked[p], WaitStart(c, p, ct, secs)
      PROVE  ToolsTypeOK'
  <2>1. [stage |-> "polling", person |-> p, client |-> ct, asked |-> secs,
         since |-> clock] \in CallState
    BY <1>t, AskedAssumption DEF CallState, Waiting
  <2>2. waiting' \in [Person -> Nat]
    BY <1>7, <1>t DEF WaitStart
  <2>3. QED
    BY <1>0, <1>7, <1>t, <2>1, <2>2, CallType DEF WaitStart
<1>8. ASSUME NEW c \in Call, Poll(c)
      PROVE  ToolsTypeOK'
  <2>1. [call[c] EXCEPT !.stage = "polled"] \in CallState
    BY <1>8, <1>t, StageTells DEF Poll, CallState, Waiting
  <2>2. IsWaiting(c)
    BY <1>8 DEF Poll, IsWaiting
  <2>3. QED
    BY <1>0, <1>8, <1>t, <2>1, <2>2, WaitEndType, CallType DEF Poll
<1>9. ASSUME NEW c \in Call, CheckDeadline(c)
      PROVE  ToolsTypeOK'
  <2>1. IsWaiting(c)
    BY <1>9 DEF CheckDeadline, IsWaiting
  <2>2. Sooner(clock + Sec, Deadline(call[c])) \in Nat
    BY <1>t, <2>1, WaitCarries, DeadlineType, SecAssumption DEF Sooner
  <2>3. [stage |-> "sleeping", person |-> call[c].person,
         client |-> call[c].client, asked |-> call[c].asked,
         since |-> call[c].since,
         until |-> Sooner(clock + Sec, Deadline(call[c]))] \in CallState
    BY <1>t, <2>1, <2>2, WaitCarries DEF CallState, Waiting
  <2>4. QED
    BY <1>0, <1>9, <1>t, <2>1, <2>3, WaitEndType, CallType DEF CheckDeadline
<1>10. ASSUME NEW c \in Call, Wake(c)
       PROVE  ToolsTypeOK'
  <2>1. IsWaiting(c)
    BY <1>10 DEF Wake, IsWaiting
  <2>2. [stage |-> "polling", person |-> call[c].person,
         client |-> call[c].client, asked |-> call[c].asked,
         since |-> call[c].since] \in CallState
    BY <1>t, <2>1, WaitCarries DEF CallState, Waiting
  <2>3. QED
    BY <1>0, <1>10, <1>t, <2>2, CallType DEF Wake
<1>11. ASSUME NEW c \in Call, Cancel(c)
       PROVE  ToolsTypeOK'
  BY <1>0, <1>11, WaitEndType DEF Cancel, IsWaiting
<1>12. QED
  BY <1>1, <1>2, <1>3, <1>4, <1>5, <1>6, <1>7, <1>8, <1>9, <1>10, <1>11
     DEF ToolsNext, WaitStep

\* Calls, slots and tables are well-formed in every reachable state.
THEOREM ToolsTypeCorrect == ToolsSpec => []ToolsTypeOK
  BY ToolsInitType, ToolsNextType, PTL DEF ToolsSpec

\* A tool call is nothing to the store but a sequence of its methods, each
\* given the time of the moment or an older one.
LEMMA ToolsAreCallers == ToolsSpec => RelaySpec
<1>1. ToolsInit => Init
  BY DEF ToolsInit
<1>2. QED
  BY <1>1, ToolsStep, ToolsTypeCorrect, PTL DEF ToolsSpec, RelaySpec

\* So the store under concurrent tool calls, of which some are made of several
\* transactions and may stop between any two, keeps the promise of GatedMail.
THEOREM ToolsImplement == ToolsSpec => ImplementsGatedMail
  BY ToolsAreCallers, RelayImplements, PTL

\* No wait ends before it began or outlasts the profile of its client.
THEOREM WaitsCorrect == ToolsSpec => []WaitsWithinProfile
<1>1. ToolsTypeOK => WaitsWithinProfile
  <2> SUFFICES ASSUME ToolsTypeOK, NEW c \in Call, IsWaiting(c)
               PROVE  /\ Deadline(call[c]) > call[c].since
                      /\ Deadline(call[c])
                           <= call[c].since + ProfileCap(call[c].client)
    BY DEF WaitsWithinProfile
  <2>1. call[c].asked \in Int /\ call[c].since \in Nat
    BY WaitCarries DEF ToolsTypeOK, CallState
  <2>2. EffectiveTimeout(call[c].asked, call[c].client)
          \in 1 .. ProfileCap(call[c].client)
    BY <2>1, TimeoutWithinCap
  <2>3. ProfileCap(call[c].client) \in Nat
    BY CapAssumption DEF ProfileCap
  <2>4. QED
    BY <2>1, <2>2, <2>3 DEF Deadline
<1>2. QED
  BY <1>1, ToolsTypeCorrect, PTL

-----------------------------------------------------------------------------
(* Wait slots. *)

Waiters(p) == {c \in Call : IsWaiting(c) /\ call[c].person = p}

\* Each person's slots are counted right; the set of the waits is finite, since
\* it grows by one call at a time.
SlotInv ==
    \A p \in Person :
        /\ IsFiniteSet(Waiters(p))
        /\ waiting[p] = Cardinality(Waiters(p))
        /\ waiting[p] <= MaxWaits

LEMMA SlotsStay ==
    ASSUME SlotInv, UNCHANGED waiting,
           \A p \in Person : Waiters(p)' = Waiters(p)
    PROVE  SlotInv'
  BY DEF SlotInv

\* A call that moves on keeps its slot, if it has one.
LEMMA SlotsMove ==
    ASSUME ToolsTypeOK, SlotInv, UNCHANGED waiting,
           NEW c \in Call, NEW state, Goto(c, state),
           \/ /\ ~IsWaiting(c)
              /\ state.stage \notin {"polling", "polled", "sleeping"}
           \/ /\ IsWaiting(c) /\ state.person = call[c].person
              /\ state.stage \in {"polling", "polled", "sleeping"}
    PROVE  SlotInv'
<1>1. \A b \in Call : call'[b] = IF b = c THEN state ELSE call[b]
  BY GotoMoves DEF ToolsTypeOK, CallState
<1>2. \A p \in Person : Waiters(p)' = Waiters(p)
  BY <1>1 DEF Waiters, IsWaiting
<1>3. QED
  BY <1>2, SlotsStay

LEMMA SlotTaken ==
    ASSUME ToolsTypeOK, SlotInv, NEW c \in Call, NEW p \in Person, NEW ct,
           NEW secs, WaitStart(c, p, ct, secs)
    PROVE  SlotInv'
<1> DEFINE w == [stage |-> "polling", person |-> p, client |-> ct,
                 asked |-> secs, since |-> clock]
<1>1. /\ call[c] = Idle /\ waiting[p] < MaxWaits /\ Goto(c, w)
      /\ waiting' = [waiting EXCEPT ![p] = @ + 1]
  BY DEF WaitStart
<1>2. w.stage = "polling" /\ w.person = p
  OBVIOUS
<1> HIDE DEF w
<1>3. \A b \in Call : call'[b] = IF b = c THEN w ELSE call[b]
  BY <1>1, GotoMoves DEF ToolsTypeOK, CallState
<1>4. ~IsWaiting(c)
  BY <1>1 DEF IsWaiting, Idle
<1>5. \A q \in Person : Waiters(q)' = IF q = p THEN Waiters(q) \cup {c} ELSE Waiters(q)
  BY <1>2, <1>3, <1>4 DEF Waiters, IsWaiting
<1>6. c \notin Waiters(p)
  BY <1>4 DEF Waiters
<1>7. \A q \in Person : waiting'[q] = IF q = p THEN waiting[q] + 1 ELSE waiting[q]
  BY <1>1 DEF ToolsTypeOK
<1>8. /\ IsFiniteSet(Waiters(p) \cup {c})
      /\ Cardinality(Waiters(p) \cup {c}) = Cardinality(Waiters(p)) + 1
  BY <1>6, FS_AddElement DEF SlotInv
<1>9. waiting[p] \in Nat /\ MaxWaits \in Nat
  BY WaitAssumption DEF ToolsTypeOK
<1>10. QED
  BY <1>1, <1>5, <1>7, <1>8, <1>9 DEF SlotInv

LEMMA SlotGivenBack ==
    ASSUME ToolsTypeOK, SlotInv, NEW c \in Call, IsWaiting(c), WaitEnd(c)
    PROVE  SlotInv'
<1>1. PICK p \in Person : p = call[c].person
  BY WaitCarries DEF ToolsTypeOK, CallState
<1>2. \A b \in Call : call'[b] = IF b = c THEN Idle ELSE call[b]
  BY GotoMoves DEF WaitEnd, ToolsTypeOK, CallState
<1>3. \A q \in Person : Waiters(q)' = IF q = p THEN Waiters(q) \ {c} ELSE Waiters(q)
  BY <1>1, <1>2 DEF Waiters, IsWaiting, Idle
<1>4. c \in Waiters(p)
  BY <1>1 DEF Waiters
<1>5. /\ IsFiniteSet(Waiters(p) \ {c})
      /\ Cardinality(Waiters(p) \ {c}) = Cardinality(Waiters(p)) - 1
  BY <1>4, FS_RemoveElement DEF SlotInv
<1>6. Cardinality(Waiters(p)) \in Nat /\ Cardinality(Waiters(p)) # 0
  BY <1>4, FS_CardinalityType, FS_EmptySet DEF SlotInv
<1>7. \A q \in Person :
         waiting'[q] = IF q = p THEN (IF waiting[q] > 0 THEN waiting[q] - 1 ELSE 0)
                                ELSE waiting[q]
  BY <1>1 DEF WaitEnd, ToolsTypeOK
<1>8. waiting[p] = Cardinality(Waiters(p)) /\ waiting[p] <= MaxWaits
  BY DEF SlotInv
<1>9. waiting'[p] = Cardinality(Waiters(p)) - 1 /\ waiting'[p] <= MaxWaits
  BY <1>6, <1>7, <1>8, WaitAssumption
<1>10. QED
  BY <1>3, <1>5, <1>7, <1>9 DEF SlotInv

\* Where the steps of send_message leave the call.
LEMMA SendMoves ==
    ASSUME NEW c \in Call
    PROVE  /\ SendStart(c) \/ (\E p, q \in Person, b \in Body :
                                SendMessage(c, p, q, b))
                => \E state : /\ Goto(c, state)
                              /\ state.stage \in {"starting", "drafting"}
           /\ SendDraft(c)
                => \E state : Goto(c, state) /\ state.stage = "releasing"
<1>1. ASSUME NEW t, SendStart(c),
             Goto(c, [stage |-> "drafting", person |-> call[c].person,
                      to |-> call[c].to, body |-> call[c].body, thread |-> t])
      PROVE  \E state : Goto(c, state) /\ state.stage \in {"starting", "drafting"}
  <2> DEFINE state == [stage |-> "drafting", person |-> call[c].person,
                       to |-> call[c].to, body |-> call[c].body, thread |-> t]
  <2>1. Goto(c, state) /\ state.stage = "drafting"
    BY <1>1
  <2> HIDE DEF state
  <2>2. QED
    BY <2>1
<1>2. ASSUME NEW p, NEW q, NEW b, SendMessage(c, p, q, b)
      PROVE  \E state : Goto(c, state) /\ state.stage \in {"starting", "drafting"}
  <2>1. CASE Goto(c, [stage |-> "starting", person |-> p, to |-> q, body |-> b])
    <3> DEFINE state == [stage |-> "starting", person |-> p, to |-> q, body |-> b]
    <3>1. Goto(c, state) /\ state.stage = "starting"
      BY <2>1
    <3> HIDE DEF state
    <3>2. QED
      BY <3>1
  <2>2. ASSUME NEW t, Goto(c, [stage |-> "drafting", person |-> p, to |-> q,
                               body |-> b, thread |-> t])
        PROVE  \E state : Goto(c, state) /\ state.stage \in {"starting", "drafting"}
    <3> DEFINE state == [stage |-> "drafting", person |-> p, to |-> q,
                         body |-> b, thread |-> t]
    <3>1. Goto(c, state) /\ state.stage = "drafting"
      BY <2>2
    <3> HIDE DEF state
    <3>2. QED
      BY <3>1
  <2>3. QED
    BY <1>2, <2>1, <2>2 DEF SendMessage
<1>3. ASSUME NEW id,
             Goto(c, [stage |-> "releasing", person |-> call[c].person, id |-> id])
      PROVE  \E state : Goto(c, state) /\ state.stage = "releasing"
  <2> DEFINE state == [stage |-> "releasing", person |-> call[c].person, id |-> id]
  <2>1. Goto(c, state) /\ state.stage = "releasing"
    BY <1>3
  <2> HIDE DEF state
  <2>2. QED
    BY <2>1
<1>4. SendStart(c) => \E state : Goto(c, state) /\ state.stage \in {"starting", "drafting"}
  BY <1>1 DEF SendStart
<1>5. SendDraft(c) => \E state : Goto(c, state) /\ state.stage = "releasing"
  BY <1>3 DEF SendDraft
<1>6. QED
  BY <1>2, <1>4, <1>5

LEMMA NextSlots ==
    ToolsTypeOK /\ SlotInv /\ [ToolsNext]_<<vars, toolVars>> => SlotInv'
<1> SUFFICES ASSUME ToolsTypeOK, SlotInv, [ToolsNext]_<<vars, toolVars>>
             PROVE  SlotInv'
  OBVIOUS
<1>0. Idle.stage \notin {"polling", "polled", "sleeping"}
  BY DEF Idle
<1>1. CASE OtherNext \/ UNCHANGED <<vars, toolVars>>
  <2>1. UNCHANGED <<call, waiting>>
    BY <1>1 DEF OtherNext, toolVars
  <2>2. \A p \in Person : Waiters(p)' = Waiters(p)
    BY <2>1 DEF Waiters, IsWaiting
  <2>3. QED
    BY <2>1, <2>2, SlotsStay
<1>2. CASE Restart
  <2>1. \A p \in Person : Waiters(p)' = {} /\ waiting'[p] = 0
    BY <1>0, <1>2 DEF Restart, Waiters, IsWaiting
  <2>2. QED
    BY <2>1, FS_EmptySet, WaitAssumption DEF SlotInv
<1>3. ASSUME NEW c \in Call,
             \/ \E p, q \in Person, b \in Body : SendMessage(c, p, q, b)
             \/ SendStart(c) \/ SendDraft(c) \/ SendRelease(c) \/ SendFails(c)
      PROVE  SlotInv'
  <2>1. ~IsWaiting(c) /\ UNCHANGED waiting
    <3>1. CASE \E p, q \in Person, b \in Body : SendMessage(c, p, q, b)
      BY <1>0, <3>1 DEF SendMessage, IsWaiting
    <3>2. CASE SendStart(c) \/ SendDraft(c) \/ SendRelease(c) \/ SendFails(c)
      BY <3>2 DEF SendStart, SendDraft, SendRelease, SendFails, IsWaiting
    <3>3. QED
      BY <1>3, <3>1, <3>2
  <2>2. PICK state : /\ Goto(c, state)
                     /\ state.stage \notin {"polling", "polled", "sleeping"}
    <3>1. CASE \E p, q \in Person, b \in Body : SendMessage(c, p, q, b)
      BY <3>1, SendMoves
    <3>2. CASE SendStart(c) \/ SendDraft(c)
      BY <3>2, SendMoves
    <3>3. CASE SendRelease(c) \/ SendFails(c)
      BY <1>0, <3>3 DEF SendRelease, SendFails
    <3>4. QED
      BY <1>3, <3>1, <3>2, <3>3
  <2>3. QED
    BY <2>1, <2>2, SlotsMove
<1>4. ASSUME NEW c \in Call, NEW p \in Person, NEW ct \in ClientType,
             NEW secs \in WaitAsked[p], WaitStart(c, p, ct, secs)
      PROVE  SlotInv'
  BY <1>4, SlotTaken
<1>5. ASSUME NEW c \in Call, WaitStep(c) \/ Cancel(c)
      PROVE  SlotInv'
  <2>1. IsWaiting(c)
    BY <1>5 DEF WaitStep, Poll, CheckDeadline, Wake, Cancel, IsWaiting
  <2>2. CASE WaitEnd(c)
    BY <2>1, <2>2, SlotGivenBack
  <2>3. CASE ~WaitEnd(c)
    <3>1. UNCHANGED waiting
      BY <1>5, <2>3 DEF WaitStep, Poll, CheckDeadline, Wake, Cancel
    <3>2. PICK state : /\ Goto(c, state) /\ state.person = call[c].person
                       /\ state.stage \in {"polling", "polled", "sleeping"}
      <4>1. CASE Poll(c)
        <5>1. [call[c] EXCEPT !.stage = "polled"].stage = "polled"
              /\ [call[c] EXCEPT !.stage = "polled"].person = call[c].person
          BY <4>1, StageTells DEF Poll, ToolsTypeOK, CallState
        <5>2. QED
          BY <2>3, <4>1, <5>1 DEF Poll
      <4>2. CASE CheckDeadline(c) \/ Wake(c)
        BY <2>3, <4>2 DEF CheckDeadline, Wake
      <4>3. QED
        BY <1>5, <2>3, <4>1, <4>2 DEF WaitStep, Cancel
    <3>3. QED
      BY <2>1, <3>1, <3>2, SlotsMove
  <2>4. QED
    BY <2>2, <2>3
<1>6. QED
  BY <1>1, <1>2, <1>3, <1>4, <1>5 DEF ToolsNext

LEMMA InitSlots == ToolsInit => SlotInv
<1> SUFFICES ASSUME ToolsInit
             PROVE  SlotInv
  OBVIOUS
<1>1. \A p \in Person : Waiters(p) = {} /\ waiting[p] = 0
  BY DEF ToolsInit, Waiters, IsWaiting, Idle
<1>2. QED
  BY <1>1, FS_EmptySet, WaitAssumption DEF SlotInv

\* No way out of a wait leaks a slot or gives one back twice, however many
\* calls of however many persons are cancelled, time out or are answered.
THEOREM SlotsCorrect == ToolsSpec => []SlotsAreHeldByWaits
<1>1. SlotInv => SlotsAreHeldByWaits
  BY DEF SlotInv, SlotsAreHeldByWaits, Waiters
<1>2. QED
  BY <1>1, InitSlots, NextSlots, ToolsTypeCorrect, PTL DEF ToolsSpec

-----------------------------------------------------------------------------
(* What send_message answers. *)

\* A call about to release a draft is the only one that may do so by a grant,
\* and has not answered yet.
AnswerInv ==
    /\ \A c \in Call : call[c].stage = "releasing" =>
         /\ call[c].id \in used /\ call[c].id \notin toldError
         /\ \A d \in drafts : d.id = call[c].id => ~d.viaGrant
    /\ \A b, c \in Call :
         /\ call[b].stage = "releasing" /\ call[c].stage = "releasing"
         /\ call[b].id = call[c].id
         => b = c
    /\ toldError \subseteq used
    /\ AnswersAreTrue

\* Envelopes and ids are only ever added, and a draft gets the mark of a grant
\* only when a grant releases it.
LEMMA StoreOnlyAdds ==
    ASSUME TypeOK, \/ OtherNext \/ UNCHANGED vars
                   \/ \E p, q \in Person, t \in ThreadId : StartThread(p, q, t)
    PROVE  /\ wire \subseteq wire' /\ used' = used
           /\ \A x \in drafts' : x.viaGrant => x \in drafts
<1>1. CASE UNCHANGED vars \/ \E p, q \in Person, t \in ThreadId : StartThread(p, q, t)
  BY <1>1 DEF vars, tables, StartThread
<1>2. ASSUME NEW p \in Person, NEW id \in Id, NEW b \in Body,
             ReleaseDraft(p, id, b, clock)
      PROVE  /\ wire \subseteq wire' /\ used' = used
             /\ \A x \in drafts' : x.viaGrant => x \in drafts
  <2>1. PICK d \in drafts, next \in DraftState :
          SetDraftDecided(d, b, next, FALSE, clock) /\ wire \subseteq wire'
    BY <1>2 DEF ReleaseDraft, DeliverInTx, IngestTx
  <2>2. [d EXCEPT !.body = b, !.state = next, !.viaGrant = FALSE,
                  !.decidedAt = Unix(clock)].viaGrant = FALSE
    BY DEF TypeOK, Draft
  <2>3. QED
    BY <1>2, <2>1, <2>2 DEF SetDraftDecided, ReleaseDraft
<1>3. ASSUME NEW p \in Person, NEW id \in Id, DiscardDraft(p, id, clock)
      PROVE  /\ wire \subseteq wire' /\ used' = used
             /\ \A x \in drafts' : x.viaGrant => x \in drafts
  <2>1. PICK d \in drafts, next \in DraftState :
          SetDraftDecided(d, d.body, next, FALSE, clock)
    BY <1>3 DEF DiscardDraft
  <2>2. [d EXCEPT !.body = d.body, !.state = next, !.viaGrant = FALSE,
                  !.decidedAt = Unix(clock)].viaGrant = FALSE
    BY DEF TypeOK, Draft
  <2>3. QED
    BY <1>3, <2>1, <2>2 DEF SetDraftDecided, DiscardDraft
<1>4. CASE OtherNext
  <2>1. CASE \/ Tick
             \/ \E p \in Person, id \in Id, v \in Verdict :
                  InboundMessageVerdict(p, id, v)
             \/ \E t \in ThreadId, p \in Person, dir \in GrantAsked :
                  SetThreadGrant(t, p, dir) \/ RevokeThreadGrant(t, p, dir)
             \/ SweepMessages(clock) \/ SweepDrafts(clock)
             \/ PruneTombstones(clock)
    BY <2>1 DEF Tick, InboundMessageVerdict, SetThreadGrant, RevokeThreadGrant,
       SweepMessages, SweepDrafts, PruneTombstones, tables
  <2>2. QED
    BY <1>2, <1>3, <1>4, <2>1 DEF OtherNext
<1>5. QED
  BY <1>1, <1>4

\* One call moves without a draft of its own, the store only adds.
LEMMA AnswersStay ==
    ASSUME ToolsTypeOK, AnswerInv,
           wire \subseteq wire', used \subseteq used',
           \A x \in drafts' : x.viaGrant => x \in drafts,
           UNCHANGED <<toldSent, toldError>>,
           \A c \in Call : call'[c].stage = "releasing" => call'[c] = call[c]
    PROVE  AnswerInv'
  BY DEF AnswerInv, AnswersAreTrue

LEMMA AnswersMove ==
    ASSUME ToolsTypeOK, AnswerInv,
           wire \subseteq wire', used \subseteq used',
           \A x \in drafts' : x.viaGrant => x \in drafts,
           UNCHANGED <<toldSent, toldError>>,
           NEW c \in Call, NEW state, Goto(c, state), state.stage # "releasing"
    PROVE  AnswerInv'
<1>1. \A b \in Call : call'[b].stage = "releasing" => call'[b] = call[b]
  BY GotoMoves DEF ToolsTypeOK, CallState
<1>2. QED
  BY <1>1, AnswersStay

\* The draft a call makes is new, and nobody else's.
LEMMA DraftKeepsAnswers ==
    ASSUME ToolsTypeOK, StoreInv, AnswerInv, NEW c \in Call, SendDraft(c)
    PROVE  AnswerInv'
<1>1. PICK id \in Id :
        /\ CreateDraft(id, call[c].thread, call[c].person, call[c].to, call[c].body)
        /\ Goto(c, [stage |-> "releasing", person |-> call[c].person, id |-> id])
        /\ UNCHANGED <<toldSent, toldError>>
  BY DEF SendDraft
<1>2. \A b \in Call :
         call'[b] = IF b = c THEN [stage |-> "releasing",
                                   person |-> call[c].person, id |-> id]
                    ELSE call[b]
  BY <1>1, GotoMoves DEF ToolsTypeOK, CallState
<1>3. call'[c].stage = "releasing" /\ call'[c].id = id
  BY <1>2
<1>4. \A b \in Call : b # c => call'[b] = call[b]
  BY <1>2
<1>5. PICK d : /\ d.id = id /\ ~d.viaGrant /\ drafts' = drafts \cup {d}
               /\ id \notin used /\ used' = used \cup {id}
               /\ UNCHANGED wire
  <2> DEFINE d == [id |-> id, thread |-> call[c].thread,
                   author |-> call[c].person, to |-> call[c].to,
                   body |-> call[c].body, state |-> "pending_review",
                   viaGrant |-> FALSE, decidedAt |-> Never]
  <2>1. /\ d.id = id /\ ~d.viaGrant /\ drafts' = drafts \cup {d}
        /\ id \notin used /\ used' = used \cup {id}
        /\ UNCHANGED wire
    BY <1>1 DEF CreateDraft
  <2> HIDE DEF d
  <2>2. QED
    BY <2>1
<1>6. \A x \in drafts : x.id # id
  BY <1>5 DEF StoreInv, DraftIdsMinted
<1>7. id \notin toldError
  BY <1>5 DEF AnswerInv
<1>8. \A b \in Call : call[b].stage = "releasing" => call[b].id # id
  BY <1>5 DEF AnswerInv
<1>9. QED
  BY <1>1, <1>3, <1>4, <1>5, <1>6, <1>7, <1>8 DEF AnswerInv, AnswersAreTrue

\* A grant releases the draft of this call and of no other.
LEMMA ReleaseKeepsAnswers ==
    ASSUME ToolsTypeOK, AnswerInv, NEW c \in Call, SendRelease(c)
    PROVE  AnswerInv'
<1>1. call[c].stage = "releasing" /\ Goto(c, Idle) /\ UNCHANGED toldError
  BY DEF SendRelease
<1>2. Idle.stage # "releasing"
  BY DEF Idle
<1>3. CASE UNCHANGED <<vars, toldSent>>
  BY <1>1, <1>2, <1>3, AnswersMove DEF vars, tables
<1>4. CASE /\ \E now \in Now : ReleaseReplyViaGrant(call[c].id, call[c].person, now)
           /\ toldSent' = toldSent \cup {call[c].id}
  <2>1. PICK d \in drafts, next \in DraftState, now \in Now :
          /\ d.id = call[c].id
          /\ SetDraftDecided(d, d.body, next, TRUE, now)
          /\ DeliverInTx(d, d.body, now)
          /\ UNCHANGED used
    BY <1>4 DEF ReleaseReplyViaGrant
  <2>2. PICK e : e.id = call[c].id /\ wire' = wire \cup {e}
    BY <2>1 DEF DeliverInTx, IngestTx
  <2>3. PICK x : x.id = call[c].id /\ drafts' = (drafts \ {d}) \cup {x}
    <3>1. [d EXCEPT !.body = d.body, !.state = next, !.viaGrant = TRUE,
                    !.decidedAt = Unix(now)].id = d.id
      BY DEF ToolsTypeOK, TypeOK, Draft
    <3>2. QED
      BY <2>1, <3>1 DEF SetDraftDecided
  <2>4. \A b \in Call : call'[b].stage = "releasing" =>
                           call'[b] = call[b] /\ call[b].id # call[c].id
    BY <1>1, <1>2, GotoMoves DEF AnswerInv, ToolsTypeOK, CallState
  <2>5. call[c].id \notin toldError
    BY <1>1 DEF AnswerInv
  <2>6. QED
    BY <1>1, <1>4, <2>1, <2>2, <2>3, <2>4, <2>5 DEF AnswerInv, AnswersAreTrue
<1>5. QED
  BY <1>3, <1>4 DEF SendRelease

LEMMA FailKeepsAnswers ==
    ASSUME ToolsTypeOK, AnswerInv, NEW c \in Call, SendFails(c)
    PROVE  AnswerInv'
<1>1. Goto(c, Idle) /\ UNCHANGED <<wire, used, drafts, toldSent>>
  BY DEF SendFails, vars, tables
<1>2. Idle.stage # "releasing"
  BY DEF Idle
<1>3. CASE call[c].stage # "releasing"
  <2>1. UNCHANGED toldError
    BY <1>3 DEF SendFails
  <2>2. QED
    BY <1>1, <1>2, <2>1, AnswersMove
<1>4. CASE call[c].stage = "releasing"
  <2>1. toldError' = toldError \cup {call[c].id}
    BY <1>4 DEF SendFails
  <2>2. \A b \in Call : call'[b].stage = "releasing" =>
                           call'[b] = call[b] /\ call[b].id # call[c].id
    BY <1>1, <1>2, <1>4, GotoMoves DEF AnswerInv, ToolsTypeOK, CallState
  <2>3. /\ call[c].id \in used
        /\ \A d \in drafts : d.id = call[c].id => ~d.viaGrant
    BY <1>4 DEF AnswerInv
  <2>4. QED
    BY <1>1, <2>1, <2>2, <2>3 DEF AnswerInv, AnswersAreTrue
<1>5. QED
  BY <1>3, <1>4

LEMMA NextAnswers ==
    ToolsTypeOK /\ StoreInv /\ AnswerInv /\ [ToolsNext]_<<vars, toolVars>>
      => AnswerInv'
<1> SUFFICES ASSUME ToolsTypeOK, StoreInv, AnswerInv,
                    [ToolsNext]_<<vars, toolVars>>
             PROVE  AnswerInv'
  OBVIOUS
<1>0. TypeOK /\ Idle.stage # "releasing"
  BY DEF ToolsTypeOK, Idle
<1>1. CASE OtherNext \/ UNCHANGED <<vars, toolVars>>
  BY <1>0, <1>1, StoreOnlyAdds, AnswersStay DEF OtherNext, toolVars
<1>2. CASE Restart
  BY <1>0, <1>2, StoreOnlyAdds, AnswersStay DEF Restart
<1>3. ASSUME NEW c \in Call, SendStart(c)
      PROVE  AnswerInv'
  <2>1. PICK t \in ThreadId :
          /\ StartThread(call[c].person, call[c].to, t)
          /\ Goto(c, [stage |-> "drafting", person |-> call[c].person,
                      to |-> call[c].to, body |-> call[c].body, thread |-> t])
          /\ UNCHANGED <<toldSent, toldError>>
    BY <1>3 DEF SendStart
  <2>2. call[c].person \in Person /\ call[c].to \in Person
    BY <1>3, StageTells DEF SendStart, ToolsTypeOK, CallState
  <2>3. /\ wire \subseteq wire' /\ used' = used
        /\ \A x \in drafts' : x.viaGrant => x \in drafts
    BY <1>0, <2>1, <2>2, StoreOnlyAdds
  <2>4. QED
    BY <2>1, <2>3, AnswersMove
<1>4. ASSUME NEW c \in Call, SendDraft(c)
      PROVE  AnswerInv'
  BY <1>4, DraftKeepsAnswers
<1>5. ASSUME NEW c \in Call, SendRelease(c)
      PROVE  AnswerInv'
  BY <1>5, ReleaseKeepsAnswers
<1>6. ASSUME NEW c \in Call, SendFails(c)
      PROVE  AnswerInv'
  BY <1>6, FailKeepsAnswers
<1>7. ASSUME NEW c \in Call,
             \/ \E p, q \in Person, b \in Body : SendMessage(c, p, q, b)
             \/ \E p \in Person, ct \in ClientType : \E secs \in WaitAsked[p] :
                  WaitStart(c, p, ct, secs)
             \/ WaitStep(c) \/ Cancel(c)
      PROVE  AnswerInv'
  <2>1. UNCHANGED <<vars, toldSent, toldError>>
    BY <1>7 DEF SendMessage, WaitStart, WaitStep, Poll, CheckDeadline, Wake,
       Cancel, WaitEnd
  <2>2. PICK state : Goto(c, state) /\ state.stage # "releasing"
    <3>1. CASE Poll(c)
      <4>1. [call[c] EXCEPT !.stage = "polled"].stage = "polled"
        BY <3>1, StageTells DEF Poll, ToolsTypeOK, CallState
      <4>2. QED
        BY <1>0, <3>1, <4>1 DEF Poll, WaitEnd
    <3>2. CASE CheckDeadline(c) \/ Wake(c) \/ Cancel(c)
      BY <1>0, <3>2 DEF CheckDeadline, Wake, Cancel, WaitEnd
    <3>3. CASE \E p, q \in Person, b \in Body : SendMessage(c, p, q, b)
      BY <3>3, SendMoves
    <3>4. CASE \E p \in Person, ct \in ClientType : \E secs \in WaitAsked[p] :
                 WaitStart(c, p, ct, secs)
      BY <3>4 DEF WaitStart
    <3>5. QED
      BY <1>7, <3>1, <3>2, <3>3, <3>4 DEF WaitStep
  <2>3. QED
    BY <1>0, <2>1, <2>2, StoreOnlyAdds, AnswersMove
<1>8. QED
  BY <1>1, <1>2, <1>3, <1>4, <1>5, <1>6, <1>7 DEF ToolsNext

LEMMA InitAnswers == ToolsInit => AnswerInv
  BY DEF ToolsInit, Init, AnswerInv, AnswersAreTrue, Idle

\* "Sent" is said of nothing that was not delivered, and an error is returned
\* for nothing that a grant has released or ever will.
THEOREM AnswersCorrect == ToolsSpec => []AnswersAreTrue
<1>1. AnswerInv => AnswersAreTrue
  BY DEF AnswerInv
<1>2. RelaySpec => Spec
  <2>1. [RelayNext]_vars => [Next]_vars
    BY DEF Next
  <2>2. QED
    BY <2>1, PTL DEF RelaySpec, Spec
<1>3. QED
  BY <1>1, <1>2, InitAnswers, NextAnswers, ToolsTypeCorrect, ToolsAreCallers,
     InvCorrect, PTL DEF ToolsSpec

=============================================================================
