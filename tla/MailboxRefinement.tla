-------------------------- MODULE MailboxRefinement --------------------------
(***************************************************************************)
(* The store implements the promise of module GatedMail, for every value   *)
(* of the constants and whatever the lag of its callers' clocks: what the  *)
(* relay runs today (RelaySpec) step for step, and everything the store    *)
(* exports (Spec) but for one step.  Freshness is judged before the writer *)
(* lock is taken, so a lagging caller may bring back an envelope whose     *)
(* tombstone was pruned while it waited (LateReplay), and nothing else may *)
(* arrive twice.                                                           *)
(***************************************************************************)
EXTENDS MailboxProofs

\* The invariants the step simulation needs.
RefInv == TypeOK /\ StoreInv /\ PartiesInv

LEMMA RefInvCorrect == Spec => []RefInv
  BY TypeCorrect, InvCorrect, PartiesCorrect, PTL DEF RefInv

-----------------------------------------------------------------------------
(* The steps of GatedMail, in terms of PhaseOf and TurnOf. *)

\* Nothing the abstract state can see has changed.
LEMMA StutterStep ==
    ASSUME \A j \in Id : PhaseOf(j)' = PhaseOf(j),
           \A u \in ThreadId : TurnOf(u)' = TurnOf(u)
    PROVE  UNCHANGED Gated!vars
  BY DEF Gated!vars

LEMMA ComposeStep ==
    ASSUME NEW i \in Id, i \notin PeerId, PhaseOf(i) = "fresh",
           \A j \in Id : PhaseOf(j)' = IF j = i THEN "held" ELSE PhaseOf(j),
           \A u \in ThreadId : TurnOf(u)' = TurnOf(u)
    PROVE  Gated!Next
<1>1. Gated!Compose(i)
  BY DEF Gated!Compose
<1>2. QED
  BY <1>1 DEF Gated!Next

LEMMA WithdrawStep ==
    ASSUME NEW i \in Id, PhaseOf(i) = "held",
           \A j \in Id : PhaseOf(j)' = IF j = i THEN "gone" ELSE PhaseOf(j),
           \A u \in ThreadId : TurnOf(u)' = TurnOf(u)
    PROVE  Gated!Next
<1>1. Gated!Withdraw(i)
  BY DEF Gated!Withdraw
<1>2. QED
  BY <1>1 DEF Gated!Next

LEMMA ArriveStep ==
    ASSUME NEW i \in Id, NEW t \in ThreadId,
           PhaseOf(i) = IF i \in PeerId THEN "fresh" ELSE "held",
           \A j \in Id : PhaseOf(j)' = IF j = i THEN "mailed" ELSE PhaseOf(j),
           \A u \in ThreadId :
              TurnOf(u)' = IF u = t THEN "awaiting" ELSE TurnOf(u)
    PROVE  Gated!Next
<1>1. Gated!Arrive(i, t)
  BY DEF Gated!Arrive
<1>2. QED
  BY <1>1 DEF Gated!Next

LEMMA ExpireStep ==
    ASSUME NEW S \in SUBSET Id, \A i \in S : PhaseOf(i) = "mailed",
           \A j \in Id : PhaseOf(j)' = IF j \in S THEN "gone" ELSE PhaseOf(j),
           \A u \in ThreadId : TurnOf(u)' = TurnOf(u)
    PROVE  Gated!Next
<1>1. Gated!Expire(S)
  BY DEF Gated!Expire
<1>2. QED
  BY <1>1 DEF Gated!Next

LEMMA DecideStep ==
    ASSUME NEW t \in ThreadId, TurnOf(t) = "awaiting",
           \A j \in Id : PhaseOf(j)' = PhaseOf(j),
           \A u \in ThreadId :
              TurnOf(u)' = IF u = t THEN "decided" ELSE TurnOf(u)
    PROVE  Gated!Next
<1>1. Gated!Decide(t)
  BY DEF Gated!Decide
<1>2. QED
  BY <1>1 DEF Gated!Next

-----------------------------------------------------------------------------
(* Where an item is, and whom a thread waits for, after a step. *)

\* An id that was never handed out is fresh.
LEMMA UnusedIsFresh ==
    ASSUME RefInv, NEW i \in Id \ used
    PROVE  PhaseOf(i) = "fresh" /\ i \notin IdsOf(messages) /\ ~Held(i)
<1>1. i \notin IdsOf(messages)
  BY DEF RefInv, StoreInv, MailWasIngested, WireMinted, IdsOf
<1>2. ~Held(i)
  BY DEF RefInv, StoreInv, DraftIdsMinted, Held
<1>3. QED
  BY <1>1, <1>2 DEF PhaseOf

\* A pending draft is held: it is not also a message.
LEMMA PendingIsHeld ==
    ASSUME RefInv, NEW d \in drafts, d.state = "pending_review"
    PROVE  /\ PhaseOf(d.id) = "held" /\ d.id \notin IdsOf(messages)
           /\ d.id \in Id \ PeerId /\ d.id \in used
<1>1. d.id \notin IdsOf(messages)
  BY DEF RefInv, StoreInv, MailWasIngested, WireMatchesDrafts, IdsOf
<1>2. Held(d.id)
  BY DEF Held
<1>3. d.id \in used /\ d.id \notin PeerId /\ d.id \in Id
  BY DEF RefInv, StoreInv, DraftIdsMinted, TypeOK, Draft
<1>4. QED
  BY <1>1, <1>2, <1>3 DEF PhaseOf

\* Ids move only through messages, drafts and used.
LEMMA PhaseUnchanged ==
    ASSUME UNCHANGED <<messages, drafts, used>>
    PROVE  \A j \in Id : PhaseOf(j)' = PhaseOf(j)
  BY DEF PhaseOf, IdsOf, Held

LEMMA TurnUnchanged ==
    ASSUME UNCHANGED threads
    PROVE  \A u \in ThreadId : TurnOf(u)' = TurnOf(u)
  BY DEF TurnOf, InState

\* Ingest puts one id in the mailbox.
LEMMA IngestIds ==
    ASSUME NEW e, NEW now, IngestTx(e, now)
    PROVE  IdsOf(messages)' = IdsOf(messages) \cup {e.id}
<1> DEFINE new == [id |-> e.id, thread |-> e.thread, sender |-> e.sender,
                   to |-> e.to, body |-> e.body, receivedAt |-> Unix(now),
                   viaGrant |-> FALSE]
<1>1. messages' = messages \cup {new}
  BY DEF IngestTx
<1>2. new.id = e.id
  OBVIOUS
<1> HIDE DEF new
<1>3. QED
  BY <1>1, <1>2 DEF IdsOf

\* Ingest makes the message's thread wait, and no other.
LEMMA EnsureThreadTurn ==
    ASSUME RefInv, NEW e \in Envelope, EnsureThread(e)
    PROVE  \A u \in ThreadId :
              TurnOf(u)' = IF u = e.thread THEN "awaiting" ELSE TurnOf(u)
<1>1. PICK new :
        /\ new.id = e.thread /\ new.state = "input-required"
        /\ new \in threads'
        /\ \A x : x.id # e.thread => (x \in threads' <=> x \in threads)
  <2>1. CASE \E thr \in threads :
               /\ thr.id = e.thread
               /\ threads' = (threads \ {thr})
                               \cup {[thr EXCEPT !.state = "input-required"]}
    <3>1. PICK thr \in threads :
               /\ thr.id = e.thread
               /\ threads' = (threads \ {thr})
                               \cup {[thr EXCEPT !.state = "input-required"]}
      BY <2>1
    <3> DEFINE n == [thr EXCEPT !.state = "input-required"]
    <3>2. n.id = e.thread /\ n.state = "input-required"
      BY <3>1 DEF RefInv, TypeOK, Thread
    <3>3. threads' = (threads \ {thr}) \cup {n}
      BY <3>1
    <3> HIDE DEF n
    <3>4. QED
      BY <3>1, <3>2, <3>3
  <2>2. CASE threads' = threads \cup
               {[id |-> e.thread, initiator |-> e.sender, recipient |-> e.to,
                 state |-> "input-required"]}
    <3> DEFINE n == [id |-> e.thread, initiator |-> e.sender,
                     recipient |-> e.to, state |-> "input-required"]
    <3>1. n.id = e.thread /\ n.state = "input-required"
      OBVIOUS
    <3>2. threads' = threads \cup {n}
      BY <2>2
    <3> HIDE DEF n
    <3>3. QED
      BY <3>1, <3>2
  <2>3. QED
    BY <2>1, <2>2 DEF EnsureThread
<1>2. ASSUME NEW u \in ThreadId, u # e.thread
      PROVE  TurnOf(u)' = TurnOf(u)
  BY <1>1, <1>2 DEF TurnOf, InState
<1>3. TurnOf(e.thread)' = "awaiting"
  BY <1>1 DEF TurnOf, InState
<1>4. QED
  BY <1>2, <1>3

\* A verdict is a Decide of the abstract thread: the thread waited, and as ids
\* are a key no other row of it still does.
LEMMA VerdictTurn ==
    ASSUME RefInv, NEW thr \in threads, NEW next \in ThreadState, NEW v,
           ApplyInbound(thr.state, v, next), SetThreadState(thr, next)
    PROVE  /\ TurnOf(thr.id) = "awaiting"
           /\ \A u \in ThreadId :
                TurnOf(u)' = IF u = thr.id THEN "decided" ELSE TurnOf(u)
<1> DEFINE new == [thr EXCEPT !.state = next]
<1>1. new.id = thr.id /\ new.state = next /\ threads' = (threads \ {thr}) \cup {new}
  BY DEF RefInv, TypeOK, Thread, SetThreadState
<1> HIDE DEF new
<1>2. thr.state = "input-required" /\ next \in {"working", "rejected"}
  BY DEF ApplyInbound
<1>3. TurnOf(thr.id) = "awaiting"
  BY <1>2 DEF TurnOf, InState
<1>4. ASSUME NEW u \in ThreadId, u # thr.id
      PROVE  TurnOf(u)' = TurnOf(u)
  BY <1>1, <1>4 DEF TurnOf, InState
<1>5. TurnOf(thr.id)' = "decided"
  <2>1. \A x \in threads' : x.id = thr.id => x = new
    BY <1>1 DEF RefInv, PartiesInv, ThreadsKeyed
  <2>2. new \in threads'
    BY <1>1
  <2>3. QED
    BY <1>1, <1>2, <2>1, <2>2 DEF TurnOf, InState
<1>6. QED
  BY <1>3, <1>4, <1>5

-----------------------------------------------------------------------------
(* The simulation. *)

\* No table has a row, so every item is fresh and every thread idle.
LEMMA RefInit == Init => Gated!Init
<1> SUFFICES ASSUME Init
             PROVE  Gated!Init
  OBVIOUS
<1>1. ASSUME NEW j \in Id
      PROVE  PhaseOf(j) = "fresh"
  BY DEF Init, PhaseOf, IdsOf, Held
<1>2. ASSUME NEW u \in ThreadId
      PROVE  TurnOf(u) = "idle"
  BY DEF Init, TurnOf, InState
<1>3. QED
  BY <1>1, <1>2 DEF Gated!Init

\* Release and delivery, being one transaction, are one Arrive.
LEMMA ReleaseRefines ==
    ASSUME RefInv, NEW d \in drafts, NEW b \in Body, NEW via,
           NEW now \in Now, d.state = "pending_review",
           SetDraftDecided(d, b, "sent", via, now), DeliverInTx(d, b, now),
           UNCHANGED used
    PROVE  Gated!Next
<1> DEFINE e == [id |-> d.id, thread |-> d.thread, sender |-> d.author,
                 to |-> d.to, body |-> b, sentAt |-> now]
           dd == [d EXCEPT !.body = b, !.state = "sent", !.viaGrant = via,
                           !.decidedAt = Unix(now)]
<1>1. e \in Envelope /\ e.id = d.id /\ e.thread = d.thread /\ e.thread \in ThreadId
  BY NowType DEF RefInv, TypeOK, Draft, Envelope
<1>2. IngestTx(e, now)
  BY DEF DeliverInTx
<1>3. drafts' = (drafts \ {d}) \cup {dd} /\ dd.id = d.id /\ dd.state = "sent"
  BY DEF SetDraftDecided, RefInv, TypeOK, Draft
<1> HIDE DEF e, dd
<1>4. IdsOf(messages)' = IdsOf(messages) \cup {d.id}
  BY <1>1, <1>2, IngestIds
<1>5. \A j \in Id : j # d.id => (Held(j)' <=> Held(j))
  BY <1>3 DEF Held
<1>6. ASSUME NEW j \in Id
      PROVE  PhaseOf(j)' = IF j = d.id THEN "mailed" ELSE PhaseOf(j)
  BY <1>4, <1>5 DEF PhaseOf
<1>7. \A u \in ThreadId :
         TurnOf(u)' = IF u = e.thread THEN "awaiting" ELSE TurnOf(u)
  BY <1>1, <1>2, EnsureThreadTurn DEF IngestTx
<1>8. d.id \in Id /\ PhaseOf(d.id) = IF d.id \in PeerId THEN "fresh" ELSE "held"
  BY PendingIsHeld
<1>9. QED
  BY <1>1, <1>6, <1>7, <1>8, ArriveStep

\* Every step of the running relay maps to a step of GatedMail or to none.
LEMMA RelayStep == RefInv /\ [RelayNext]_vars => [Gated!Next]_(Gated!vars)
<1> SUFFICES ASSUME RefInv, [RelayNext]_vars
             PROVE  Gated!Next \/ UNCHANGED Gated!vars
  OBVIOUS
<1>a. ASSUME UNCHANGED <<threads, messages, drafts, used>>
      PROVE  UNCHANGED Gated!vars
  BY <1>a, PhaseUnchanged, TurnUnchanged, StutterStep
<1>1. CASE Tick
  BY <1>1, <1>a DEF Tick, tables
<1>2. ASSUME NEW p \in Person, NEW q \in Person, NEW t \in ThreadId,
             StartThread(p, q, t)
      PROVE  UNCHANGED Gated!vars
  <2>1. \A u \in ThreadId : TurnOf(u)' = TurnOf(u)
    BY <1>2 DEF StartThread, TurnOf, InState
  <2>2. \A j \in Id : PhaseOf(j)' = PhaseOf(j)
    BY <1>2, PhaseUnchanged DEF StartThread
  <2>3. QED
    BY <2>1, <2>2, StutterStep
<1>3. ASSUME NEW id \in Id, NEW t \in ThreadId, NEW p \in Person,
             NEW q \in Person, NEW b \in Body, CreateDraft(id, t, p, q, b)
      PROVE  Gated!Next
  <2> DEFINE d == [id |-> id, thread |-> t, author |-> p, to |-> q, body |-> b,
                   state |-> "pending_review", viaGrant |-> FALSE,
                   decidedAt |-> Never]
  <2>1. d.id = id /\ d.state = "pending_review"
    OBVIOUS
  <2>2. /\ id \notin used /\ id \notin PeerId
        /\ drafts' = drafts \cup {d} /\ used' = used \cup {id}
        /\ UNCHANGED <<threads, messages>>
    BY <1>3 DEF CreateDraft
  <2> HIDE DEF d
  <2>3. PhaseOf(id) = "fresh" /\ id \notin IdsOf(messages)
    BY <2>2, UnusedIsFresh
  <2>4. ASSUME NEW j \in Id
        PROVE  PhaseOf(j)' = IF j = id THEN "held" ELSE PhaseOf(j)
    BY <2>1, <2>2, <2>3 DEF PhaseOf, IdsOf, Held
  <2>5. QED
    BY <2>2, <2>3, <2>4, TurnUnchanged, ComposeStep
<1>4. ASSUME NEW p \in Person, NEW id \in Id, NEW now \in Now, NEW b \in Body,
             ReleaseDraft(p, id, b, now)
      PROVE  Gated!Next
  BY <1>4, ReleaseRefines DEF ReleaseDraft, ApplyOutbound
<1>5. ASSUME NEW p \in Person, NEW id \in Id, NEW now \in Now,
             DiscardDraft(p, id, now)
      PROVE  Gated!Next
  <2>1. PICK d \in drafts, next \in DraftState :
          /\ d.state = "pending_review" /\ next # "pending_review"
          /\ SetDraftDecided(d, d.body, next, FALSE, now)
          /\ UNCHANGED <<threads, messages, used>>
    BY <1>5 DEF DiscardDraft, ApplyOutbound
  <2> DEFINE dd == [d EXCEPT !.body = d.body, !.state = next,
                             !.viaGrant = FALSE, !.decidedAt = Unix(now)]
  <2>2. drafts' = (drafts \ {d}) \cup {dd} /\ dd.id = d.id /\ dd.state = next
    BY <2>1 DEF SetDraftDecided, RefInv, TypeOK, Draft
  <2> HIDE DEF dd
  <2>3. /\ PhaseOf(d.id) = "held" /\ d.id \notin IdsOf(messages)
        /\ d.id \in Id /\ d.id \in used
    BY <2>1, PendingIsHeld
  <2>4. ~Held(d.id)'
    BY <2>1, <2>2 DEF Held, RefInv, StoreInv, DraftsKeyed
  <2>5. \A j \in Id : j # d.id => (Held(j)' <=> Held(j))
    BY <2>2 DEF Held
  <2>6. ASSUME NEW j \in Id
        PROVE  PhaseOf(j)' = IF j = d.id THEN "gone" ELSE PhaseOf(j)
    BY <2>1, <2>3, <2>4, <2>5 DEF PhaseOf, IdsOf
  <2>7. QED
    BY <2>1, <2>3, <2>6, TurnUnchanged, WithdrawStep
<1>6. ASSUME NEW p \in Person, NEW id \in Id, NEW now \in Now,
             ReleaseReplyViaGrant(id, p, now)
      PROVE  Gated!Next
  <2>1. PICK d \in drafts :
          /\ d.state = "pending_review"
          /\ SetDraftDecided(d, d.body, "sent", TRUE, now)
          /\ DeliverInTx(d, d.body, now)
          /\ UNCHANGED used
    BY <1>6 DEF ReleaseReplyViaGrant, ApplyOutboundGrant, ApplyOutbound
  <2>2. d.body \in Body
    BY DEF RefInv, TypeOK, Draft
  <2>3. QED
    BY <2>1, <2>2, ReleaseRefines
<1>7. ASSUME NEW p \in Person, NEW id \in Id, NEW v \in Verdict,
             InboundMessageVerdict(p, id, v)
      PROVE  Gated!Next
  <2>1. PICK thr \in threads, next \in ThreadState :
          /\ ApplyInbound(thr.state, v, next)
          /\ SetThreadState(thr, next)
          /\ UNCHANGED <<messages, drafts, used>>
    BY <1>7 DEF InboundMessageVerdict
  <2>2. thr.id \in ThreadId
    BY DEF RefInv, TypeOK, Thread
  <2>3. QED
    BY <2>1, <2>2, VerdictTurn, PhaseUnchanged, DecideStep
<1>8. ASSUME NEW t \in ThreadId, NEW p \in Person, NEW dir \in GrantAsked,
             SetThreadGrant(t, p, dir) \/ RevokeThreadGrant(t, p, dir)
      PROVE  UNCHANGED Gated!vars
  BY <1>8, <1>a DEF SetThreadGrant, RevokeThreadGrant
<1>9. ASSUME NEW id \in Id, NEW dev \in Device, MarkDelivered(id, dev)
      PROVE  UNCHANGED Gated!vars
  BY <1>9, <1>a DEF MarkDelivered
<1>10. ASSUME NEW id \in Id, NEW dev \in Device, NEW now \in Now,
              Ack(id, dev, now)
       PROVE  UNCHANGED Gated!vars
  BY <1>10, <1>a DEF Ack
<1>11. ASSUME NEW now \in Now, SweepMessages(now)
       PROVE  Gated!Next
  <2> DEFINE S == {i \in Id : i \in IdsOf(messages) /\ i \notin IdsOf(messages)'}
  <2>1. messages' \subseteq messages /\ UNCHANGED <<threads, drafts, used>>
    BY <1>11 DEF SweepMessages
  <2>2. IdsOf(messages)' \subseteq IdsOf(messages)
    BY <2>1 DEF IdsOf
  <2>3. \A i \in IdsOf(messages) : ~Held(i) /\ i \in used
    BY DEF RefInv, StoreInv, MailWasIngested, WireMatchesDrafts, WireMinted,
           IdsOf, Held
  <2>4. \A i \in S : PhaseOf(i) = "mailed"
    BY DEF PhaseOf
  <2>5. ASSUME NEW j \in Id
        PROVE  PhaseOf(j)' = IF j \in S THEN "gone" ELSE PhaseOf(j)
    <3>1. (Held(j)' <=> Held(j)) /\ used' = used
      BY <2>1 DEF Held
    <3>2. QED
      BY <2>2, <2>3, <3>1 DEF PhaseOf
  <2>6. S \in SUBSET Id
    OBVIOUS
  <2> HIDE DEF S
  <2>7. QED
    BY <2>1, <2>4, <2>5, <2>6, TurnUnchanged, ExpireStep
<1>12. ASSUME NEW now \in Now, SweepDrafts(now)
       PROVE  UNCHANGED Gated!vars
  <2>1. \A j \in Id : Held(j)' <=> Held(j)
    BY <1>12 DEF SweepDrafts, Held
  <2>2. \A j \in Id : PhaseOf(j)' = PhaseOf(j)
    BY <1>12, <2>1 DEF SweepDrafts, PhaseOf, IdsOf
  <2>3. QED
    BY <1>12, <2>2, TurnUnchanged, StutterStep DEF SweepDrafts
<1>13. ASSUME NEW now \in Now, PruneTombstones(now)
       PROVE  UNCHANGED Gated!vars
  BY <1>13, <1>a DEF PruneTombstones
<1>14. CASE UNCHANGED vars
  BY <1>14, <1>a DEF vars, tables
<1>15. QED
  BY <1>1, <1>2, <1>3, <1>4, <1>5, <1>6, <1>7, <1>8, <1>9, <1>10, <1>11,
     <1>12, <1>13, <1>14 DEF RelayNext

\* The relay as it runs implements GatedMail, however stale the clock readings
\* its transactions commit with.
THEOREM RelayImplements == RelaySpec => ImplementsGatedMail
<1>1. [RelayNext]_vars => [Next]_vars
  BY DEF Next
<1>2. RelaySpec => Spec
  BY <1>1, PTL DEF RelaySpec, Spec
<1>3. QED
  BY <1>2, RefInit, RelayStep, RefInvCorrect, PTL
     DEF RelaySpec, Spec, ImplementsGatedMail, Gated!Spec

-----------------------------------------------------------------------------
(* The exported methods nothing calls yet. *)

\* An envelope that is fresh when its copy commits still has its tombstone: it
\* cannot come in again.
LEMMA NoReplay ==
    ASSUME RefInv, NEW e \in wire, e.sentAt >= clock - MaxAge
    PROVE  TombstoneSeen(e.id)
<1>1. [id |-> e.id, sentAt |-> Unix(e.sentAt)] \in tombstones
  BY DEF RefInv, StoreInv, TombstoneExact
<1>2. QED
  BY <1>1 DEF TombstoneSeen

\* A copy that was fresh on its caller's clock, and is no longer so at the
\* commit, is the late replay.
LEMMA AgedOutIsLate ==
    ASSUME RefInv, NEW e \in wire, NEW now \in Now, IngestMessage(e, now),
           ~(e.sentAt >= clock - MaxAge)
    PROVE  LateReplay
<1>1. e.sentAt \in Int /\ clock \in Int /\ MaxAge \in Int
  BY DurationAssumption DEF RefInv, TypeOK, Envelope
<1>2. now \in Int
  BY DEF Now
<1>3. now - MaxAge <= e.sentAt
  BY <1>1, <1>2 DEF IngestMessage, IsFresh
<1>4. e.sentAt < clock - MaxAge
  BY <1>1
<1>5. QED
  BY <1>3, <1>4 DEF LateReplay

\* Any other signed envelope that is ingested is one Arrive.
LEMMA IngestRefines ==
    ASSUME RefInv, NEW now \in Now,
           NEW e \in wire \cup [id: PeerId, thread: ThreadId, sender: Person,
                                to: Person, body: Body, sentAt: 0 .. MaxClock],
           IngestMessage(e, now)
    PROVE  Gated!Next \/ LateReplay
<1>a. CASE e \in wire
  <2>1. ~(e.sentAt >= clock - MaxAge)
    BY <1>a, NoReplay DEF IngestMessage, IngestTx
  <2>2. QED
    BY <1>a, <2>1, AgedOutIsLate
<1> SUFFICES ASSUME e \notin wire
             PROVE  Gated!Next
  BY <1>a
<1>1. e.id \in PeerId \ used
  BY DEF IngestMessage
<1>2. e \in Envelope /\ e.id \in Id /\ e.thread \in ThreadId
  BY PeerIdAssumption DEF RefInv, TypeOK, Envelope
<1>3. PhaseOf(e.id) = "fresh"
  BY <1>1, <1>2, UnusedIsFresh
<1>4. IngestTx(e, now) /\ used' = used \cup {e.id} /\ drafts' = drafts
  BY DEF IngestMessage
<1>5. IdsOf(messages)' = IdsOf(messages) \cup {e.id}
  BY <1>4, IngestIds
<1>6. ASSUME NEW j \in Id
      PROVE  PhaseOf(j)' = IF j = e.id THEN "mailed" ELSE PhaseOf(j)
  BY <1>4, <1>5 DEF PhaseOf, Held
<1>7. \A u \in ThreadId :
         TurnOf(u)' = IF u = e.thread THEN "awaiting" ELSE TurnOf(u)
  BY <1>2, <1>4, EnsureThreadTurn DEF IngestTx
<1>8. QED
  BY <1>1, <1>2, <1>3, <1>6, <1>7, ArriveStep

\* The grant's approval marks a message, whose id stays what it was.
LEMMA GrantApprovalRefines ==
    ASSUME RefInv, NEW t \in ThreadId, NEW p \in Person, NEW id \in Id,
           ApproveInboundViaGrant(t, p, id)
    PROVE  Gated!Next
<1>1. PICK thr \in threads, next \in ThreadState :
        ApplyInbound(thr.state, "approve", next) /\ SetThreadState(thr, next)
  BY DEF ApproveInboundViaGrant, ApplyInboundGrant
<1>2. thr.id \in ThreadId
  BY DEF RefInv, TypeOK, Thread
<1>3. /\ messages' = {IF m.id = id /\ m.thread = t
                        THEN [m EXCEPT !.viaGrant = TRUE]
                        ELSE m : m \in messages}
      /\ UNCHANGED <<drafts, used>>
  BY DEF ApproveInboundViaGrant
<1>4. \A m \in messages : [m EXCEPT !.viaGrant = TRUE].id = m.id
  BY DEF RefInv, TypeOK, Message
<1>5. IdsOf(messages)' = IdsOf(messages)
  <2>1. \A x \in IdsOf(messages)' : x \in IdsOf(messages)
    BY <1>3, <1>4 DEF IdsOf
  <2>2. \A x \in IdsOf(messages) : x \in IdsOf(messages)'
    BY <1>3, <1>4 DEF IdsOf
  <2>3. QED
    BY <2>1, <2>2
<1>6. \A j \in Id : PhaseOf(j)' = PhaseOf(j)
  BY <1>3, <1>5 DEF PhaseOf, Held
<1>7. QED
  BY <1>1, <1>2, <1>6, VerdictTurn, DecideStep

\* Every step of everything the store exports is a step of GatedMail, or of
\* nothing it sees, or the late replay.
LEMMA StoreStep ==
    RefInv /\ [Next]_vars => [Gated!Next \/ LateReplay]_(Gated!vars)
<1> SUFFICES ASSUME RefInv, [Next]_vars
             PROVE  Gated!Next \/ LateReplay \/ UNCHANGED Gated!vars
  OBVIOUS
<1>1. CASE [RelayNext]_vars
  BY <1>1, RelayStep
<1>2. ASSUME NEW e \in wire \cup [id: PeerId, thread: ThreadId,
                sender: Person, to: Person, body: Body, sentAt: 0 .. MaxClock],
             NEW now \in Now, IngestMessage(e, now)
      PROVE  Gated!Next \/ LateReplay
  BY <1>2, IngestRefines
<1>3. ASSUME NEW t \in ThreadId, NEW v \in Verdict, TransitionInbound(t, v)
      PROVE  Gated!Next
  <2>1. PICK thr \in threads, next \in ThreadState :
          /\ ApplyInbound(thr.state, v, next)
          /\ SetThreadState(thr, next)
          /\ UNCHANGED <<messages, drafts, used>>
    BY <1>3 DEF TransitionInbound
  <2>2. thr.id \in ThreadId
    BY DEF RefInv, TypeOK, Thread
  <2>3. QED
    BY <2>1, <2>2, VerdictTurn, PhaseUnchanged, DecideStep
<1>4. ASSUME NEW t \in ThreadId, NEW p \in Person, NEW id \in Id,
             ApproveInboundViaGrant(t, p, id)
      PROVE  Gated!Next
  BY <1>4, GrantApprovalRefines
<1>5. ASSUME NEW d \in Device, RevokeDevice(d)
      PROVE  UNCHANGED Gated!vars
  BY <1>5, PhaseUnchanged, TurnUnchanged, StutterStep DEF RevokeDevice
<1>6. QED
  BY <1>1, <1>2, <1>3, <1>4, <1>5 DEF Next, ReservedNext

\* Everything the store exports implements GatedMail but for the late replay,
\* however old the clock readings its transactions commit with: an envelope
\* that is fresh when it commits arrives once, and release, withdrawal, sweep
\* and verdict are what GatedMail says they are.
THEOREM StoreArrivesOnce == Spec => ArrivesOnceUnlessLate
  BY RefInit, StoreStep, RefInvCorrect, PTL DEF Spec, ArrivesOnceUnlessLate

=============================================================================
