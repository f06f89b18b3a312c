---------------------------- MODULE MailboxProofs ----------------------------
(***************************************************************************)
(* Theorems about module Mailbox, for every roster, every set of devices,  *)
(* threads and ids, every retention and freshness setting and every lag of *)
(* the callers' clocks: what its states have in common, and what no step   *)
(* of it may do.                                                           *)
(***************************************************************************)
EXTENDS Mailbox, TLAPS

-----------------------------------------------------------------------------
(* Time. *)

\* The second of an instant is an integer.
LEMMA UnixType ==
    ASSUME NEW t \in Int
    PROVE  Unix(t) \in Int
  BY SecAssumption DEF Unix

\* Truncation to seconds keeps the order of instants (time.Time.Unix).
LEMMA UnixMonotone ==
    ASSUME NEW s \in Int, NEW t \in Int, s <= t
    PROVE  Unix(s) <= Unix(t)
  BY SecAssumption DEF Unix

\* A reading of the clock is an instant that has passed.
LEMMA NowType ==
    ASSUME clock \in 0 .. MaxClock, NEW now \in Now
    PROVE  now \in Int /\ now <= clock
  BY ClockAssumption DEF Now

-----------------------------------------------------------------------------
(* Type correctness. *)

\* ensureThread leaves well-formed threads only.
LEMMA EnsureThreadType ==
    ASSUME TypeOK, NEW e \in Envelope, EnsureThread(e)
    PROVE  threads' \subseteq Thread
<1>1. ASSUME NEW thr \in threads
      PROVE  [thr EXCEPT !.state = "input-required"] \in Thread
  BY DEF TypeOK, Thread, ThreadState
<1>2. [id |-> e.thread, initiator |-> e.sender, recipient |-> e.to,
       state |-> "input-required"] \in Thread
  BY DEF Envelope, Thread, ThreadState
<1>3. QED
  BY <1>1, <1>2 DEF EnsureThread, TypeOK

\* The shared ingest transaction writes well-formed rows in every table.
LEMMA IngestTxType ==
    ASSUME TypeOK, NEW e \in Envelope, NEW now \in Int, IngestTx(e, now)
    PROVE  /\ threads' \subseteq Thread
           /\ messages' \subseteq Message
           /\ deliveries' \subseteq Delivery
           /\ tombstones' \subseteq Tombstone
           /\ wire' \subseteq Envelope
<1>1. threads' \subseteq Thread
  BY EnsureThreadType DEF IngestTx
<1>2. messages' \subseteq Message
  <2>1. Unix(now) \in Int
    BY UnixType
  <2>2. [id |-> e.id, thread |-> e.thread, sender |-> e.sender, to |-> e.to,
         body |-> e.body, receivedAt |-> Unix(now), viaGrant |-> FALSE]
           \in Message
    BY <2>1 DEF Envelope, Message
  <2>3. QED
    BY <2>2 DEF IngestTx, TypeOK
<1>3. deliveries' \subseteq Delivery
  <2>1. ASSUME NEW d \in devices
        PROVE  [message |-> e.id, device |-> d, delivered |-> FALSE,
                ackedAt |-> Never] \in Delivery
    BY DEF TypeOK, Envelope, Delivery, Never
  <2>2. QED
    BY <2>1 DEF IngestTx, FanOutDeliveries, TypeOK
<1>4. tombstones' \subseteq Tombstone
  BY UnixType DEF IngestTx, TypeOK, Envelope, Tombstone
<1>5. wire' \subseteq Envelope
  BY DEF IngestTx, TypeOK
<1>6. QED
  BY <1>1, <1>2, <1>3, <1>4, <1>5

\* Deciding a draft leaves a well-formed draft.
LEMMA SetDraftDecidedType ==
    ASSUME TypeOK, NEW d \in drafts, NEW b \in Body, NEW next \in DraftState,
           NEW via \in BOOLEAN, NEW now \in Int,
           SetDraftDecided(d, b, next, via, now)
    PROVE  drafts' \subseteq Draft
<1>1. [d EXCEPT !.body = b, !.state = next, !.viaGrant = via,
                !.decidedAt = Unix(now)] \in Draft
  BY UnixType DEF TypeOK, Draft
<1>2. QED
  BY <1>1 DEF SetDraftDecided, TypeOK

\* The envelope a released draft becomes is a well-formed envelope.
LEMMA DeliverInTxType ==
    ASSUME TypeOK, NEW d \in drafts, NEW b \in Body, NEW now \in Int,
           DeliverInTx(d, b, now)
    PROVE  /\ threads' \subseteq Thread
           /\ messages' \subseteq Message
           /\ deliveries' \subseteq Delivery
           /\ tombstones' \subseteq Tombstone
           /\ wire' \subseteq Envelope
<1>1. [id |-> d.id, thread |-> d.thread, sender |-> d.author, to |-> d.to,
       body |-> b, sentAt |-> now] \in Envelope
  BY DEF TypeOK, Draft, Envelope
<1>2. QED
  BY <1>1, IngestTxType DEF DeliverInTx

\* A verdict leaves a well-formed thread.
LEMMA SetThreadStateType ==
    ASSUME TypeOK, NEW thr \in threads, NEW next \in ThreadState,
           SetThreadState(thr, next)
    PROVE  threads' \subseteq Thread
  BY DEF SetThreadState, TypeOK, Thread

\* The initial tables are empty.
LEMMA InitType == Init => TypeOK
  BY ClockAssumption DEF Init, TypeOK

\* Every method keeps every table well-formed.
LEMMA NextType == TypeOK /\ [Next]_vars => TypeOK'
<1> SUFFICES ASSUME TypeOK, [Next]_vars
             PROVE  TypeOK'
  OBVIOUS
<1> USE NowType, UnixType
<1>1. CASE Tick
  BY <1>1, ClockAssumption DEF Tick, TypeOK, tables
<1>2. ASSUME NEW p \in Person, NEW q \in Person, NEW t \in ThreadId,
             StartThread(p, q, t)
      PROVE  TypeOK'
  BY <1>2 DEF StartThread, TypeOK, Thread, ThreadState
<1>3. ASSUME NEW id \in Id, NEW t \in ThreadId, NEW p \in Person,
             NEW q \in Person, NEW b \in Body, CreateDraft(id, t, p, q, b)
      PROVE  TypeOK'
  <2>1. [id |-> id, thread |-> t, author |-> p, to |-> q, body |-> b,
         state |-> "pending_review", viaGrant |-> FALSE,
         decidedAt |-> Never] \in Draft
    BY DEF Draft, DraftState, Never
  <2>2. QED
    BY <1>3, <2>1 DEF CreateDraft, TypeOK
<1>4. ASSUME NEW p \in Person, NEW id \in Id, NEW now \in Now, NEW b \in Body,
             ReleaseDraft(p, id, b, now)
      PROVE  TypeOK'
  <2>1. PICK d \in drafts, next \in DraftState :
          /\ SetDraftDecided(d, b, next, FALSE, now)
          /\ DeliverInTx(d, b, now)
          /\ UNCHANGED <<clock, devices, grants, used>>
    BY <1>4 DEF ReleaseDraft
  <2>2. now \in Int
    BY DEF TypeOK
  <2>3. drafts' \subseteq Draft
    BY <2>1, <2>2, SetDraftDecidedType
  <2>4. QED
    BY <2>1, <2>2, <2>3, DeliverInTxType DEF TypeOK
<1>5. ASSUME NEW p \in Person, NEW id \in Id, NEW now \in Now,
             DiscardDraft(p, id, now)
      PROVE  TypeOK'
  <2>1. PICK d \in drafts, next \in DraftState :
          /\ SetDraftDecided(d, d.body, next, FALSE, now)
          /\ UNCHANGED <<clock, devices, threads, messages, deliveries, grants,
                         tombstones, used, wire>>
    BY <1>5 DEF DiscardDraft
  <2>2. now \in Int /\ d.body \in Body
    BY DEF TypeOK, Draft
  <2>3. drafts' \subseteq Draft
    BY <2>1, <2>2, SetDraftDecidedType
  <2>4. QED
    BY <2>1, <2>3 DEF TypeOK
<1>6. ASSUME NEW p \in Person, NEW id \in Id, NEW now \in Now,
             ReleaseReplyViaGrant(id, p, now)
      PROVE  TypeOK'
  <2>1. PICK d \in drafts, next \in DraftState :
          /\ SetDraftDecided(d, d.body, next, TRUE, now)
          /\ DeliverInTx(d, d.body, now)
          /\ UNCHANGED <<clock, devices, grants, used>>
    BY <1>6 DEF ReleaseReplyViaGrant
  <2>2. now \in Int /\ d.body \in Body
    BY DEF TypeOK, Draft
  <2>3. drafts' \subseteq Draft
    BY <2>1, <2>2, SetDraftDecidedType
  <2>4. QED
    BY <2>1, <2>2, <2>3, DeliverInTxType DEF TypeOK
<1>7. ASSUME NEW p \in Person, NEW id \in Id, NEW v \in Verdict,
             InboundMessageVerdict(p, id, v)
      PROVE  TypeOK'
  <2>1. threads' \subseteq Thread
    BY <1>7, SetThreadStateType DEF InboundMessageVerdict
  <2>2. QED
    BY <1>7, <2>1 DEF InboundMessageVerdict, TypeOK
<1>8. ASSUME NEW t \in ThreadId, NEW p \in Person, NEW dir \in GrantAsked,
             SetThreadGrant(t, p, dir) \/ RevokeThreadGrant(t, p, dir)
      PROVE  TypeOK'
  <2>1. [thread |-> t, person |-> p, direction |-> dir] \in Grant
    BY GrantAssumption DEF Grant
  <2>2. QED
    BY <1>8, <2>1 DEF SetThreadGrant, RevokeThreadGrant, TypeOK
<1>9. ASSUME NEW id \in Id, NEW dev \in Device, MarkDelivered(id, dev)
      PROVE  TypeOK'
  <2>1. ASSUME NEW r \in deliveries
        PROVE  [r EXCEPT !.delivered = TRUE] \in Delivery
    BY DEF TypeOK, Delivery
  <2>2. QED
    BY <1>9, <2>1 DEF MarkDelivered, TypeOK
<1>10. ASSUME NEW id \in Id, NEW dev \in Device, NEW now \in Now,
              Ack(id, dev, now)
       PROVE  TypeOK'
  <2>1. now \in Int
    BY DEF TypeOK
  <2>2. ASSUME NEW r \in deliveries
        PROVE  [r EXCEPT !.delivered = TRUE,
                         !.ackedAt = IF @ = Never THEN Unix(now) ELSE @]
                 \in Delivery
    BY <2>1 DEF TypeOK, Delivery
  <2>3. QED
    BY <1>10, <2>2 DEF Ack, TypeOK
<1>11. ASSUME NEW now \in Now, SweepMessages(now)
       PROVE  TypeOK'
  BY <1>11 DEF SweepMessages, TypeOK
<1>12. ASSUME NEW now \in Now, SweepDrafts(now)
       PROVE  TypeOK'
  BY <1>12 DEF SweepDrafts, TypeOK
<1>13. ASSUME NEW now \in Now, PruneTombstones(now)
       PROVE  TypeOK'
  BY <1>13 DEF PruneTombstones, TypeOK
<1>14. ASSUME NEW e \in wire \cup [id: PeerId, thread: ThreadId,
                sender: Person, to: Person, body: Body, sentAt: 0 .. MaxClock],
              NEW now \in Now, IngestMessage(e, now)
       PROVE  TypeOK'
  <2>1. e \in Envelope /\ now \in Int
    BY PeerIdAssumption DEF TypeOK, Envelope
  <2>2. IngestTx(e, now) /\ used' = used \cup {e.id}
    BY <1>14 DEF IngestMessage
  <2>3. e.id \in Id
    BY <2>1 DEF Envelope
  <2>4. QED
    BY <1>14, <2>1, <2>2, <2>3, IngestTxType DEF IngestMessage, TypeOK
<1>15. ASSUME NEW t \in ThreadId, NEW v \in Verdict, TransitionInbound(t, v)
       PROVE  TypeOK'
  <2>1. threads' \subseteq Thread
    BY <1>15, SetThreadStateType DEF TransitionInbound
  <2>2. QED
    BY <1>15, <2>1 DEF TransitionInbound, TypeOK
<1>16. ASSUME NEW t \in ThreadId, NEW p \in Person, NEW id \in Id,
              ApproveInboundViaGrant(t, p, id)
       PROVE  TypeOK'
  <2>1. threads' \subseteq Thread
    BY <1>16, SetThreadStateType DEF ApproveInboundViaGrant
  <2>2. ASSUME NEW m \in messages
        PROVE  [m EXCEPT !.viaGrant = TRUE] \in Message
    BY DEF TypeOK, Message
  <2>3. messages' \subseteq Message
    BY <1>16, <2>2 DEF ApproveInboundViaGrant, TypeOK
  <2>4. QED
    BY <1>16, <2>1, <2>3 DEF ApproveInboundViaGrant, TypeOK
<1>17. ASSUME NEW d \in Device, RevokeDevice(d)
       PROVE  TypeOK'
  BY <1>17 DEF RevokeDevice, TypeOK
<1>18. CASE UNCHANGED vars
  BY <1>18 DEF vars, tables, TypeOK
<1>19. QED
  BY <1>1, <1>2, <1>3, <1>4, <1>5, <1>6, <1>7, <1>8, <1>9, <1>10, <1>11,
     <1>12, <1>13, <1>14, <1>15, <1>16, <1>17, <1>18
     DEF Next, RelayNext, ReservedNext

\* Every reachable state of the store is well-formed: the STRICT tables and the
\* CHECKs of the schema are never what stops a method.
THEOREM TypeCorrect == Spec => []TypeOK
  BY InitType, NextType, PTL DEF Spec

-----------------------------------------------------------------------------
(* The inductive invariant: how drafts, envelopes and messages correspond.   *)

\* drafts.id is a key.
DraftsKeyed == \A x, y \in drafts : x.id = y.id => x = y

\* A draft's id was minted here.
DraftIdsMinted == \A d \in drafts : d.id \in used /\ d.id \notin PeerId

\* An envelope's id was minted somewhere before it was ingested.
WireMinted == \A e \in wire : e.id \in used

\* An envelope that shares its id with a draft is that draft, sent.
WireMatchesDrafts ==
    \A d \in drafts, e \in wire : d.id = e.id =>
        /\ d.state = "sent"
        /\ d.thread = e.thread /\ d.author = e.sender /\ d.to = e.to
        /\ d.body = e.body

\* A message is the copy of an envelope that was ingested.
MailWasIngested ==
    \A m \in messages : \E e \in wire :
        /\ e.id = m.id /\ e.thread = m.thread /\ e.sender = m.sender
        /\ e.to = m.to /\ e.body = m.body

\* An envelope that is still fresh has its own tombstone, to the second.
TombstoneExact ==
    \A e \in wire : e.sentAt >= clock - MaxAge =>
        [id |-> e.id, sentAt |-> Unix(e.sentAt)] \in tombstones

StoreInv ==
    /\ DraftsKeyed
    /\ DraftIdsMinted
    /\ WireMinted
    /\ WireMatchesDrafts
    /\ MailWasIngested
    /\ TombstoneExact

\* Steps that touch neither drafts, envelopes, messages, tombstones nor time.
LEMMA QuietInv ==
    ASSUME StoreInv,
           UNCHANGED <<clock, messages, drafts, tombstones, used, wire>>
    PROVE  StoreInv'
  BY DEF StoreInv, DraftsKeyed, DraftIdsMinted, WireMinted, WireMatchesDrafts,
         MailWasIngested, TombstoneExact

\* Releasing draft d with body b keeps the invariant: the envelope it becomes
\* is new, and matches the decided draft.
LEMMA ReleaseInv ==
    ASSUME TypeOK, StoreInv, NEW d \in drafts, NEW b \in Body, NEW via \in BOOLEAN,
           NEW now \in Now, d.state = "pending_review",
           SetDraftDecided(d, b, "sent", via, now), DeliverInTx(d, b, now),
           UNCHANGED <<clock, used>>
    PROVE  StoreInv'
<1> DEFINE e == [id |-> d.id, thread |-> d.thread, sender |-> d.author,
                 to |-> d.to, body |-> b, sentAt |-> now]
           dd == [d EXCEPT !.body = b, !.state = "sent", !.viaGrant = via,
                           !.decidedAt = Unix(now)]
<1>1. /\ wire' = wire \cup {e}
      /\ messages' = messages \cup
           {[id |-> e.id, thread |-> e.thread, sender |-> e.sender, to |-> e.to,
             body |-> e.body, receivedAt |-> Unix(now), viaGrant |-> FALSE]}
      /\ tombstones' = tombstones \cup {[id |-> e.id, sentAt |-> Unix(e.sentAt)]}
      /\ drafts' = (drafts \ {d}) \cup {dd}
  BY DEF DeliverInTx, IngestTx, SetDraftDecided
<1>2. /\ dd.id = d.id /\ dd.thread = d.thread /\ dd.author = d.author
      /\ dd.to = d.to /\ dd.body = b /\ dd.state = "sent"
  BY DEF TypeOK, Draft
<1> HIDE DEF dd
<1>3. DraftsKeyed'
  BY <1>1, <1>2 DEF StoreInv, DraftsKeyed
<1>4. DraftIdsMinted'
  BY <1>1, <1>2 DEF StoreInv, DraftIdsMinted
<1>5. WireMinted'
  BY <1>1 DEF StoreInv, DraftIdsMinted, WireMinted
<1>6. WireMatchesDrafts'
  <2>1. ASSUME NEW x \in drafts', NEW y \in wire', x.id = y.id
        PROVE  /\ x.state = "sent"
               /\ x.thread = y.thread /\ x.author = y.sender /\ x.to = y.to
               /\ x.body = y.body
    <3>1. CASE x = dd /\ y = e
      BY <1>2, <3>1
    <3>2. CASE x # dd /\ y = e
      BY <1>1, <2>1, <3>2 DEF StoreInv, DraftsKeyed
    <3>3. CASE x = dd /\ y # e
      BY <1>1, <1>2, <2>1, <3>3 DEF StoreInv, WireMatchesDrafts
    <3>4. CASE x # dd /\ y # e
      BY <1>1, <2>1, <3>4 DEF StoreInv, WireMatchesDrafts
    <3>5. QED
      BY <3>1, <3>2, <3>3, <3>4
  <2>2. QED
    BY <2>1 DEF WireMatchesDrafts
<1>7. MailWasIngested'
  <2>1. ASSUME NEW m \in messages'
        PROVE  \E x \in wire' : /\ x.id = m.id /\ x.thread = m.thread
                                 /\ x.sender = m.sender /\ x.to = m.to
                                 /\ x.body = m.body
    <3>1. CASE m \in messages
      BY <1>1, <3>1 DEF StoreInv, MailWasIngested
    <3>2. CASE m \notin messages
      <4>1. /\ m.id = e.id /\ m.thread = e.thread /\ m.sender = e.sender
            /\ m.to = e.to /\ m.body = e.body
        BY <1>1, <2>1, <3>2
      <4>2. e \in wire'
        BY <1>1
      <4> HIDE DEF e
      <4>3. QED
        BY <4>1, <4>2
    <3>3. QED
      BY <3>1, <3>2
  <2>2. QED
    BY <2>1 DEF MailWasIngested
<1>8. TombstoneExact'
  BY <1>1 DEF StoreInv, TombstoneExact
<1>9. QED
  BY <1>3, <1>4, <1>5, <1>6, <1>7, <1>8 DEF StoreInv

\* No table has a row in the initial state.
LEMMA InitInv == Init => StoreInv
  BY DEF Init, StoreInv, DraftsKeyed, DraftIdsMinted, WireMinted,
         WireMatchesDrafts, MailWasIngested, TombstoneExact

\* Every method keeps the invariant.
LEMMA NextInv == TypeOK /\ StoreInv /\ [Next]_vars => StoreInv'
<1> SUFFICES ASSUME TypeOK, StoreInv, [Next]_vars
             PROVE  StoreInv'
  OBVIOUS
<1>1. CASE Tick
  <2>1. TombstoneExact'
    <3>1. ASSUME NEW e \in wire, e.sentAt >= clock' - MaxAge
          PROVE  e.sentAt >= clock - MaxAge
      BY <1>1, <3>1, DurationAssumption DEF Tick, TypeOK, Envelope
    <3>2. QED
      BY <1>1, <3>1 DEF Tick, tables, StoreInv, TombstoneExact
  <2>2. QED
    BY <1>1, <2>1 DEF Tick, tables, StoreInv, DraftsKeyed, DraftIdsMinted,
                      WireMinted, WireMatchesDrafts, MailWasIngested
<1>2. ASSUME NEW p \in Person, NEW q \in Person, NEW t \in ThreadId,
             StartThread(p, q, t)
      PROVE  StoreInv'
  BY <1>2, QuietInv DEF StartThread
<1>3. ASSUME NEW id \in Id, NEW t \in ThreadId, NEW p \in Person,
             NEW q \in Person, NEW b \in Body, CreateDraft(id, t, p, q, b)
      PROVE  StoreInv'
  <2> DEFINE d == [id |-> id, thread |-> t, author |-> p, to |-> q, body |-> b,
                   state |-> "pending_review", viaGrant |-> FALSE,
                   decidedAt |-> Never]
  <2>1. /\ id \notin used /\ id \notin PeerId
        /\ drafts' = drafts \cup {d} /\ used' = used \cup {id} /\ d.id = id
        /\ UNCHANGED <<clock, messages, tombstones, wire>>
    BY <1>3 DEF CreateDraft
  <2> HIDE DEF d
  <2>2. DraftsKeyed' /\ DraftIdsMinted' /\ WireMinted' /\ WireMatchesDrafts'
    BY <2>1 DEF StoreInv, DraftsKeyed, DraftIdsMinted, WireMinted,
                WireMatchesDrafts
  <2>3. MailWasIngested' /\ TombstoneExact'
    BY <2>1 DEF StoreInv, MailWasIngested, TombstoneExact
  <2>4. QED
    BY <2>2, <2>3 DEF StoreInv
<1>4. ASSUME NEW p \in Person, NEW id \in Id, NEW now \in Now, NEW b \in Body,
             ReleaseDraft(p, id, b, now)
      PROVE  StoreInv'
  <2>1. PICK d \in drafts :
          /\ d.state = "pending_review"
          /\ SetDraftDecided(d, b, "sent", FALSE, now)
          /\ DeliverInTx(d, b, now)
          /\ UNCHANGED <<clock, used>>
    BY <1>4 DEF ReleaseDraft, ApplyOutbound
  <2>2. QED
    BY <2>1, ReleaseInv
<1>5. ASSUME NEW p \in Person, NEW id \in Id, NEW now \in Now,
             DiscardDraft(p, id, now)
      PROVE  StoreInv'
  <2>1. PICK d \in drafts, next \in DraftState :
          /\ d.state = "pending_review"
          /\ SetDraftDecided(d, d.body, next, FALSE, now)
          /\ UNCHANGED <<clock, messages, tombstones, used, wire>>
    BY <1>5 DEF DiscardDraft, ApplyOutbound
  <2> DEFINE dd == [d EXCEPT !.body = d.body, !.state = next,
                             !.viaGrant = FALSE, !.decidedAt = Unix(now)]
  <2>2. drafts' = (drafts \ {d}) \cup {dd} /\ dd.id = d.id
    BY <2>1 DEF SetDraftDecided, TypeOK, Draft
  <2> HIDE DEF dd
  <2>3. DraftsKeyed' /\ DraftIdsMinted' /\ WireMinted' /\ WireMatchesDrafts'
    BY <2>1, <2>2 DEF StoreInv, DraftsKeyed, DraftIdsMinted, WireMinted,
                      WireMatchesDrafts
  <2>4. MailWasIngested' /\ TombstoneExact'
    BY <2>1 DEF StoreInv, MailWasIngested, TombstoneExact
  <2>5. QED
    BY <2>3, <2>4 DEF StoreInv
<1>6. ASSUME NEW p \in Person, NEW id \in Id, NEW now \in Now,
             ReleaseReplyViaGrant(id, p, now)
      PROVE  StoreInv'
  <2>1. PICK d \in drafts :
          /\ d.state = "pending_review"
          /\ SetDraftDecided(d, d.body, "sent", TRUE, now)
          /\ DeliverInTx(d, d.body, now)
          /\ UNCHANGED <<clock, used>>
    BY <1>6 DEF ReleaseReplyViaGrant, ApplyOutboundGrant, ApplyOutbound
  <2>2. d.body \in Body
    BY DEF TypeOK, Draft
  <2>3. QED
    BY <2>1, <2>2, ReleaseInv
<1>7. ASSUME NEW p \in Person, NEW id \in Id, NEW v \in Verdict,
             InboundMessageVerdict(p, id, v)
      PROVE  StoreInv'
  BY <1>7, QuietInv DEF InboundMessageVerdict
<1>8. ASSUME NEW t \in ThreadId, NEW p \in Person, NEW dir \in GrantAsked,
             SetThreadGrant(t, p, dir) \/ RevokeThreadGrant(t, p, dir)
      PROVE  StoreInv'
  BY <1>8, QuietInv DEF SetThreadGrant, RevokeThreadGrant
<1>9. ASSUME NEW id \in Id, NEW dev \in Device, MarkDelivered(id, dev)
      PROVE  StoreInv'
  BY <1>9, QuietInv DEF MarkDelivered
<1>10. ASSUME NEW id \in Id, NEW dev \in Device, NEW now \in Now,
              Ack(id, dev, now)
       PROVE  StoreInv'
  BY <1>10, QuietInv DEF Ack
<1>11. ASSUME NEW now \in Now, SweepMessages(now)
       PROVE  StoreInv'
  BY <1>11 DEF SweepMessages, StoreInv, DraftsKeyed, DraftIdsMinted, WireMinted,
               WireMatchesDrafts, MailWasIngested, TombstoneExact
<1>12. ASSUME NEW now \in Now, SweepDrafts(now)
       PROVE  StoreInv'
  BY <1>12 DEF SweepDrafts, StoreInv, DraftsKeyed, DraftIdsMinted, WireMinted,
               WireMatchesDrafts, MailWasIngested, TombstoneExact
<1>13. ASSUME NEW now \in Now, PruneTombstones(now)
       PROVE  StoreInv'
  <2>1. now \in Int /\ now <= clock /\ clock \in Int
    BY NowType DEF TypeOK
  <2>2. ASSUME NEW e \in wire, e.sentAt >= clock - MaxAge
        PROVE  [id |-> e.id, sentAt |-> Unix(e.sentAt)] \in tombstones'
    <3>1. e.sentAt \in Int /\ now - MaxAge \in Int /\ now - MaxAge <= e.sentAt
      BY <2>1, <2>2, DurationAssumption DEF TypeOK, Envelope
    <3>2. Unix(now - MaxAge) <= Unix(e.sentAt)
      BY <3>1, UnixMonotone
    <3>3. Unix(now - MaxAge) \in Int /\ Unix(e.sentAt) \in Int
      BY <3>1, UnixType
    <3>4. [id |-> e.id, sentAt |-> Unix(e.sentAt)] \in tombstones
      BY <2>2 DEF StoreInv, TombstoneExact
    <3>5. QED
      BY <1>13, <3>2, <3>3, <3>4 DEF PruneTombstones
  <2>3. TombstoneExact'
    BY <1>13, <2>2 DEF PruneTombstones, TombstoneExact
  <2>4. QED
    BY <1>13, <2>3 DEF PruneTombstones, StoreInv, DraftsKeyed, DraftIdsMinted,
                       WireMinted, WireMatchesDrafts, MailWasIngested
<1>14. ASSUME NEW e \in wire \cup [id: PeerId, thread: ThreadId,
                sender: Person, to: Person, body: Body, sentAt: 0 .. MaxClock],
              NEW now \in Now, IngestMessage(e, now)
       PROVE  StoreInv'
  <2>1. /\ e \in wire \/ e.id \in PeerId
        /\ wire' = wire \cup {e} /\ used' = used \cup {e.id}
        /\ messages' = messages \cup
             {[id |-> e.id, thread |-> e.thread, sender |-> e.sender,
               to |-> e.to, body |-> e.body, receivedAt |-> Unix(now),
               viaGrant |-> FALSE]}
        /\ tombstones' = tombstones \cup
             {[id |-> e.id, sentAt |-> Unix(e.sentAt)]}
        /\ UNCHANGED <<clock, drafts>>
    BY <1>14 DEF IngestMessage, IngestTx
  <2>2. DraftsKeyed' /\ DraftIdsMinted' /\ WireMinted' /\ WireMatchesDrafts'
    BY <2>1 DEF StoreInv, DraftsKeyed, DraftIdsMinted, WireMinted,
                WireMatchesDrafts
  <2>3. MailWasIngested' /\ TombstoneExact'
    BY <2>1 DEF StoreInv, MailWasIngested, TombstoneExact
  <2>4. QED
    BY <2>2, <2>3 DEF StoreInv
<1>15. ASSUME NEW t \in ThreadId, NEW v \in Verdict, TransitionInbound(t, v)
       PROVE  StoreInv'
  BY <1>15, QuietInv DEF TransitionInbound
<1>16. ASSUME NEW t \in ThreadId, NEW p \in Person, NEW id \in Id,
              ApproveInboundViaGrant(t, p, id)
       PROVE  StoreInv'
  <2>1. /\ messages' = {IF m.id = id /\ m.thread = t
                          THEN [m EXCEPT !.viaGrant = TRUE]
                          ELSE m : m \in messages}
        /\ UNCHANGED <<clock, drafts, tombstones, used, wire>>
    BY <1>16 DEF ApproveInboundViaGrant
  <2>2. ASSUME NEW x \in messages'
        PROVE  \E m \in messages : /\ m.id = x.id /\ m.thread = x.thread
                                   /\ m.sender = x.sender /\ m.to = x.to
                                   /\ m.body = x.body
    BY <2>1 DEF TypeOK, Message
  <2>3. MailWasIngested'
    BY <2>1, <2>2 DEF StoreInv, MailWasIngested
  <2>4. QED
    BY <2>1, <2>3 DEF StoreInv, DraftsKeyed, DraftIdsMinted, WireMinted,
                      WireMatchesDrafts, TombstoneExact
<1>17. ASSUME NEW d \in Device, RevokeDevice(d)
       PROVE  StoreInv'
  BY <1>17, QuietInv DEF RevokeDevice
<1>18. CASE UNCHANGED vars
  BY <1>18, QuietInv DEF vars, tables
<1>19. QED
  BY <1>1, <1>2, <1>3, <1>4, <1>5, <1>6, <1>7, <1>8, <1>9, <1>10, <1>11,
     <1>12, <1>13, <1>14, <1>15, <1>16, <1>17, <1>18
     DEF Next, RelayNext, ReservedNext

\* The invariant holds in every reachable state.
LEMMA InvCorrect == Spec => []StoreInv
  BY InitInv, NextInv, TypeCorrect, PTL DEF Spec

\* Pruning never opens the replay window, whatever the retention settings, the
\* truncation to seconds and the age of the sweeper's clock reading.
THEOREM ReplayWindow == Spec => []TombstoneCoversWindow
<1>1. StoreInv => TombstoneCoversWindow
  <2>1. ASSUME StoreInv, NEW e \in wire, e.sentAt >= clock - MaxAge
        PROVE  TombstoneSeen(e.id)
    <3>1. [id |-> e.id, sentAt |-> Unix(e.sentAt)] \in tombstones
      BY <2>1 DEF StoreInv, TombstoneExact
    <3>2. QED
      BY <3>1 DEF TombstoneSeen
  <2>2. QED
    BY <2>1 DEF TombstoneCoversWindow
<1>2. QED
  BY <1>1, InvCorrect, PTL

\* What arrives is what its author reviewed and let go.
THEOREM Reviewed == Spec => []SentAsReviewed
<1>1. StoreInv => SentAsReviewed
  BY DEF StoreInv, WireMatchesDrafts, MailWasIngested, SentAsReviewed
<1>2. QED
  BY <1>1, InvCorrect, PTL

-----------------------------------------------------------------------------
(* Who is on a thread. *)

\* threads.id is a key.
ThreadsKeyed == \A x, y \in threads : x.id = y.id => x = y

\* No thread that existed is lost, and its parties stay who they were.
ThreadsKept ==
    \A x \in threads : \E y \in threads' : y.id = x.id /\ Parties(y) = Parties(x)

\* ensureThread keeps every thread, and the message is between the parties of
\* the thread it is put on.
LEMMA EnsureThreadKeeps ==
    ASSUME TypeOK, ThreadsKeyed, NEW e \in Envelope, EnsureThread(e)
    PROVE  /\ ThreadsKeyed'
           /\ ThreadsKept
           /\ \E y \in threads' : y.id = e.thread /\ {e.sender, e.to} = Parties(y)
<1>1. CASE \E thr \in threads :
             /\ thr.id = e.thread
             /\ {e.sender, e.to} = Parties(thr)
             /\ threads' = (threads \ {thr})
                             \cup {[thr EXCEPT !.state = "input-required"]}
  <2>1. PICK thr \in threads :
             /\ thr.id = e.thread
             /\ {e.sender, e.to} = Parties(thr)
             /\ threads' = (threads \ {thr})
                             \cup {[thr EXCEPT !.state = "input-required"]}
    BY <1>1
  <2> DEFINE new == [thr EXCEPT !.state = "input-required"]
  <2>2. new.id = thr.id /\ Parties(new) = Parties(thr)
    BY DEF TypeOK, Thread, Parties
  <2>3. threads' = (threads \ {thr}) \cup {new}
    BY <2>1
  <2> HIDE DEF new
  <2>4. QED
    BY <2>1, <2>2, <2>3 DEF ThreadsKeyed, ThreadsKept
<1>2. CASE /\ \A thr \in threads : thr.id # e.thread
           /\ threads' = threads \cup
                {[id |-> e.thread, initiator |-> e.sender, recipient |-> e.to,
                  state |-> "input-required"]}
  <2> DEFINE new == [id |-> e.thread, initiator |-> e.sender,
                     recipient |-> e.to, state |-> "input-required"]
  <2>1. new.id = e.thread /\ {e.sender, e.to} = Parties(new)
    BY DEF Parties
  <2>2. threads' = threads \cup {new}
    BY <1>2
  <2> HIDE DEF new
  <2>3. QED
    BY <1>2, <2>1, <2>2 DEF ThreadsKeyed, ThreadsKept
<1>3. QED
  BY <1>1, <1>2 DEF EnsureThread

\* So does a verdict.
LEMMA SetThreadStateKeeps ==
    ASSUME TypeOK, ThreadsKeyed, NEW thr \in threads, NEW next,
           SetThreadState(thr, next)
    PROVE  ThreadsKeyed' /\ ThreadsKept
<1> DEFINE new == [thr EXCEPT !.state = next]
<1>1. new.id = thr.id /\ Parties(new) = Parties(thr)
  BY DEF TypeOK, Thread, Parties
<1>2. threads' = (threads \ {thr}) \cup {new}
  BY DEF SetThreadState
<1> HIDE DEF new
<1>3. QED
  BY <1>1, <1>2 DEF ThreadsKeyed, ThreadsKept

\* The three tables that must respect a thread's parties, one part for each.
MessagesBetween ==
    \A m \in messages : \E thr \in threads :
        thr.id = m.thread /\ {m.sender, m.to} = Parties(thr)

DraftsBetween ==
    \A d \in drafts : \E thr \in threads :
        thr.id = d.thread /\ {d.author, d.to} = Parties(thr)

DeliveriesOwed ==
    \A r \in deliveries : \E m \in messages :
        m.id = r.message /\ Owner[r.device] = m.to

PartiesInv == ThreadsKeyed /\ MessagesBetween /\ DraftsBetween /\ DeliveriesOwed

\* Steps that keep the threads and touch no other of the four tables.
LEMMA QuietParties ==
    ASSUME PartiesInv, ThreadsKeyed', ThreadsKept,
           UNCHANGED <<messages, drafts, deliveries>>
    PROVE  PartiesInv'
<1>1. MessagesBetween'
  <2>1. ASSUME NEW m \in messages
        PROVE  \E y \in threads' : y.id = m.thread /\ {m.sender, m.to} = Parties(y)
    <3>1. PICK x \in threads : x.id = m.thread /\ {m.sender, m.to} = Parties(x)
      BY DEF PartiesInv, MessagesBetween
    <3>2. QED
      BY <3>1 DEF ThreadsKept
  <2>2. QED
    BY <2>1 DEF MessagesBetween, Parties
<1>2. DraftsBetween'
  <2>1. ASSUME NEW d \in drafts
        PROVE  \E y \in threads' : y.id = d.thread /\ {d.author, d.to} = Parties(y)
    <3>1. PICK x \in threads : x.id = d.thread /\ {d.author, d.to} = Parties(x)
      BY DEF PartiesInv, DraftsBetween
    <3>2. QED
      BY <3>1 DEF ThreadsKept
  <2>2. QED
    BY <2>1 DEF DraftsBetween, Parties
<1>3. DeliveriesOwed'
  BY DEF PartiesInv, DeliveriesOwed
<1>4. QED
  BY <1>1, <1>2, <1>3 DEF PartiesInv

\* Deciding a draft, or not touching it, leaves its two ends alone.
DraftEndsKept ==
    \A x \in drafts' : \E d \in drafts :
        x.thread = d.thread /\ x.author = d.author /\ x.to = d.to

LEMMA SetDraftDecidedKeeps ==
    ASSUME TypeOK, NEW d \in drafts, NEW b, NEW next, NEW via, NEW now,
           SetDraftDecided(d, b, next, via, now)
    PROVE  DraftEndsKept
<1> DEFINE dd == [d EXCEPT !.body = b, !.state = next, !.viaGrant = via,
                           !.decidedAt = Unix(now)]
<1>1. dd.thread = d.thread /\ dd.author = d.author /\ dd.to = d.to
  BY DEF TypeOK, Draft
<1>2. drafts' = (drafts \ {d}) \cup {dd}
  BY DEF SetDraftDecided
<1> HIDE DEF dd
<1>3. QED
  BY <1>1, <1>2 DEF DraftEndsKept

\* Ingest keeps mail between the parties, whichever draft was decided with it.
LEMMA IngestParties ==
    ASSUME TypeOK, PartiesInv, NEW e \in Envelope, NEW now, IngestTx(e, now),
           DraftEndsKept
    PROVE  PartiesInv'
<1> DEFINE new == [id |-> e.id, thread |-> e.thread, sender |-> e.sender,
                   to |-> e.to, body |-> e.body, receivedAt |-> Unix(now),
                   viaGrant |-> FALSE]
<1>1. /\ EnsureThread(e)
      /\ messages' = messages \cup {new}
      /\ deliveries' = deliveries \cup
           {[message |-> e.id, device |-> d, delivered |-> FALSE,
             ackedAt |-> Never] : d \in {x \in devices : Owner[x] = e.to}}
  BY DEF IngestTx, FanOutDeliveries
<1>2. /\ new.id = e.id /\ new.thread = e.thread /\ new.sender = e.sender
      /\ new.to = e.to
  OBVIOUS
<1> HIDE DEF new
<1>3. /\ ThreadsKeyed'
      /\ ThreadsKept
      /\ \E y \in threads' : y.id = e.thread /\ {e.sender, e.to} = Parties(y)
  BY <1>1, EnsureThreadKeeps DEF PartiesInv
<1>4. MessagesBetween'
  <2>1. ASSUME NEW m \in messages'
        PROVE  \E y \in threads' : y.id = m.thread /\ {m.sender, m.to} = Parties(y)
    <3>1. CASE m \in messages
      <4>1. PICK x \in threads : x.id = m.thread /\ {m.sender, m.to} = Parties(x)
        BY <3>1 DEF PartiesInv, MessagesBetween
      <4>2. QED
        BY <4>1, <1>3 DEF ThreadsKept
    <3>2. CASE m = new
      BY <3>2, <1>2, <1>3
    <3>3. QED
      BY <1>1, <3>1, <3>2
  <2>2. QED
    BY <2>1 DEF MessagesBetween, Parties
<1>5. DraftsBetween'
  <2>1. ASSUME NEW x \in drafts'
        PROVE  \E y \in threads' : y.id = x.thread /\ {x.author, x.to} = Parties(y)
    <3>1. PICK d \in drafts : x.thread = d.thread /\ x.author = d.author /\ x.to = d.to
      BY DEF DraftEndsKept
    <3>2. PICK y \in threads : y.id = d.thread /\ {d.author, d.to} = Parties(y)
      BY DEF PartiesInv, DraftsBetween
    <3>3. QED
      BY <3>1, <3>2, <1>3 DEF ThreadsKept
  <2>2. QED
    BY <2>1 DEF DraftsBetween, Parties
<1>6. DeliveriesOwed'
  <2>1. ASSUME NEW r \in deliveries'
        PROVE  \E m \in messages' : m.id = r.message /\ Owner[r.device] = m.to
    <3>1. CASE r \in deliveries
      BY <1>1, <3>1 DEF PartiesInv, DeliveriesOwed
    <3>2. CASE r \notin deliveries
      <4>1. r.message = e.id /\ Owner[r.device] = e.to
        BY <1>1, <3>2
      <4>2. QED
        BY <1>1, <1>2, <4>1
    <3>3. QED
      BY <3>1, <3>2
  <2>2. QED
    BY <2>1 DEF DeliveriesOwed
<1>7. QED
  BY <1>3, <1>4, <1>5, <1>6 DEF PartiesInv

LEMMA InitParties == Init => PartiesInv
  BY DEF Init, PartiesInv, ThreadsKeyed, MessagesBetween, DraftsBetween,
         DeliveriesOwed

\* Every method keeps mail between the parties of its thread.
LEMMA NextParties == TypeOK /\ PartiesInv /\ [Next]_vars => PartiesInv'
<1> SUFFICES ASSUME TypeOK, PartiesInv, [Next]_vars
             PROVE  PartiesInv'
  OBVIOUS
<1>a. ASSUME UNCHANGED <<threads, messages, drafts, deliveries>>
      PROVE  PartiesInv'
  BY <1>a DEF PartiesInv, ThreadsKeyed, MessagesBetween, DraftsBetween,
              DeliveriesOwed, Parties
<1>b. ASSUME NEW thr \in threads, NEW next, SetThreadState(thr, next),
             UNCHANGED <<messages, drafts, deliveries>>
      PROVE  PartiesInv'
  BY <1>b, SetThreadStateKeeps, QuietParties DEF PartiesInv
<1>c. ASSUME NEW d \in drafts, NEW b \in Body, NEW next, NEW via,
             NEW now \in Now, SetDraftDecided(d, b, next, via, now),
             DeliverInTx(d, b, now)
      PROVE  PartiesInv'
  <2>1. [id |-> d.id, thread |-> d.thread, sender |-> d.author, to |-> d.to,
         body |-> b, sentAt |-> now] \in Envelope
    BY NowType DEF TypeOK, Draft, Envelope
  <2>2. DraftEndsKept
    BY <1>c, SetDraftDecidedKeeps
  <2>3. QED
    BY <1>c, <2>1, <2>2, IngestParties DEF DeliverInTx
<1>1. CASE Tick
  BY <1>1, <1>a DEF Tick, tables
<1>2. ASSUME NEW p \in Person, NEW q \in Person, NEW t \in ThreadId,
             StartThread(p, q, t)
      PROVE  PartiesInv'
  <2> DEFINE new == [id |-> t, initiator |-> p, recipient |-> q,
                     state |-> "submitted"]
  <2>1. new.id = t
    OBVIOUS
  <2>2. /\ \A thr \in threads : thr.id # t
        /\ threads' = threads \cup {new}
        /\ UNCHANGED <<messages, drafts, deliveries>>
    BY <1>2 DEF StartThread
  <2> HIDE DEF new
  <2>3. ThreadsKeyed' /\ ThreadsKept
    BY <2>1, <2>2 DEF PartiesInv, ThreadsKeyed, ThreadsKept
  <2>4. QED
    BY <2>2, <2>3, QuietParties
<1>3. ASSUME NEW id \in Id, NEW t \in ThreadId, NEW p \in Person,
             NEW q \in Person, NEW b \in Body, CreateDraft(id, t, p, q, b)
      PROVE  PartiesInv'
  <2> DEFINE new == [id |-> id, thread |-> t, author |-> p, to |-> q,
                     body |-> b, state |-> "pending_review",
                     viaGrant |-> FALSE, decidedAt |-> Never]
  <2>1. new.thread = t /\ new.author = p /\ new.to = q
    OBVIOUS
  <2>2. drafts' = drafts \cup {new} /\ UNCHANGED <<threads, messages, deliveries>>
    BY <1>3 DEF CreateDraft
  <2> HIDE DEF new
  <2>3. PICK thr \in threads :
          thr.id = t /\ p \in Parties(thr) /\ q \in Parties(thr) \ {p}
    BY <1>3 DEF CreateDraft
  <2>4. {p, q} = Parties(thr)
    BY <2>3 DEF Parties
  <2>5. DraftsBetween'
    BY <2>1, <2>2, <2>3, <2>4 DEF PartiesInv, DraftsBetween, Parties
  <2>6. QED
    BY <2>2, <2>5 DEF PartiesInv, ThreadsKeyed, MessagesBetween, DeliveriesOwed,
                      Parties
<1>4. ASSUME NEW p \in Person, NEW id \in Id, NEW now \in Now, NEW b \in Body,
             ReleaseDraft(p, id, b, now)
      PROVE  PartiesInv'
  BY <1>4, <1>c DEF ReleaseDraft
<1>5. ASSUME NEW p \in Person, NEW id \in Id, NEW now \in Now,
             DiscardDraft(p, id, now)
      PROVE  PartiesInv'
  <2>1. PICK d \in drafts, next \in DraftState :
          /\ SetDraftDecided(d, d.body, next, FALSE, now)
          /\ UNCHANGED <<threads, messages, deliveries>>
    BY <1>5 DEF DiscardDraft
  <2>2. DraftEndsKept
    BY <2>1, SetDraftDecidedKeeps
  <2>3. DraftsBetween'
    BY <2>1, <2>2 DEF DraftEndsKept, PartiesInv, DraftsBetween, Parties
  <2>4. QED
    BY <2>1, <2>3 DEF PartiesInv, ThreadsKeyed, MessagesBetween, DeliveriesOwed,
                      Parties
<1>6. ASSUME NEW p \in Person, NEW id \in Id, NEW now \in Now,
             ReleaseReplyViaGrant(id, p, now)
      PROVE  PartiesInv'
  <2>1. PICK d \in drafts, next \in DraftState :
          /\ SetDraftDecided(d, d.body, next, TRUE, now)
          /\ DeliverInTx(d, d.body, now)
    BY <1>6 DEF ReleaseReplyViaGrant
  <2>2. d.body \in Body
    BY DEF TypeOK, Draft
  <2>3. QED
    BY <2>1, <2>2, <1>c
<1>7. ASSUME NEW p \in Person, NEW id \in Id, NEW v \in Verdict,
             InboundMessageVerdict(p, id, v)
      PROVE  PartiesInv'
  BY <1>7, <1>b DEF InboundMessageVerdict
<1>8. ASSUME NEW t \in ThreadId, NEW p \in Person, NEW dir \in GrantAsked,
             SetThreadGrant(t, p, dir) \/ RevokeThreadGrant(t, p, dir)
      PROVE  PartiesInv'
  BY <1>8, <1>a DEF SetThreadGrant, RevokeThreadGrant
<1>9. ASSUME NEW r \in deliveries, NEW r2, r2.message = r.message,
             r2.device = r.device,
             deliveries' = (deliveries \ {r}) \cup {r2},
             UNCHANGED <<threads, messages, drafts>>
      PROVE  PartiesInv'
  <2>1. ASSUME NEW x \in deliveries'
        PROVE  \E m \in messages : m.id = x.message /\ Owner[x.device] = m.to
    <3>1. CASE x \in deliveries
      BY <3>1 DEF PartiesInv, DeliveriesOwed
    <3>2. CASE x = r2
      BY <3>2, <1>9 DEF PartiesInv, DeliveriesOwed
    <3>3. QED
      BY <3>1, <3>2, <1>9
  <2>2. DeliveriesOwed'
    BY <2>1, <1>9 DEF DeliveriesOwed
  <2>3. QED
    BY <2>2, <1>9 DEF PartiesInv, ThreadsKeyed, MessagesBetween, DraftsBetween,
                      Parties
<1>10. ASSUME NEW id \in Id, NEW dev \in Device, MarkDelivered(id, dev)
       PROVE  PartiesInv'
  <2>1. PICK r \in deliveries :
          /\ deliveries' = (deliveries \ {r})
                             \cup {[r EXCEPT !.delivered = TRUE]}
          /\ UNCHANGED <<threads, messages, drafts>>
    BY <1>10 DEF MarkDelivered
  <2>2. LET r2 == [r EXCEPT !.delivered = TRUE]
        IN  r2.message = r.message /\ r2.device = r.device
    BY DEF TypeOK, Delivery
  <2>3. QED
    BY <2>1, <2>2, <1>9
<1>11. ASSUME NEW id \in Id, NEW dev \in Device, NEW now \in Now,
              Ack(id, dev, now)
       PROVE  PartiesInv'
  <2>1. PICK r \in deliveries :
          /\ deliveries' = (deliveries \ {r}) \cup
               {[r EXCEPT !.delivered = TRUE,
                          !.ackedAt = IF @ = Never THEN Unix(now) ELSE @]}
          /\ UNCHANGED <<threads, messages, drafts>>
    BY <1>11 DEF Ack
  <2>2. LET r2 == [r EXCEPT !.delivered = TRUE,
                            !.ackedAt = IF @ = Never THEN Unix(now) ELSE @]
        IN  r2.message = r.message /\ r2.device = r.device
    BY DEF TypeOK, Delivery
  <2>3. QED
    BY <2>1, <2>2, <1>9
<1>12. ASSUME NEW now \in Now, SweepMessages(now)
       PROVE  PartiesInv'
  <2>1. DeliveriesOwed'
    BY <1>12 DEF SweepMessages, PartiesInv, DeliveriesOwed
  <2>2. QED
    BY <1>12, <2>1 DEF SweepMessages, PartiesInv, ThreadsKeyed, MessagesBetween,
                       DraftsBetween, Parties
<1>13. ASSUME NEW now \in Now, SweepDrafts(now)
       PROVE  PartiesInv'
  BY <1>13 DEF SweepDrafts, PartiesInv, ThreadsKeyed, MessagesBetween,
               DraftsBetween, DeliveriesOwed, Parties
<1>14. ASSUME NEW now \in Now, PruneTombstones(now)
       PROVE  PartiesInv'
  BY <1>14, <1>a DEF PruneTombstones
<1>15. ASSUME NEW e \in wire \cup [id: PeerId, thread: ThreadId,
                sender: Person, to: Person, body: Body, sentAt: 0 .. MaxClock],
              NEW now \in Now, IngestMessage(e, now)
       PROVE  PartiesInv'
  <2>1. e \in Envelope
    BY PeerIdAssumption DEF TypeOK, Envelope
  <2>2. IngestTx(e, now) /\ DraftEndsKept
    BY <1>15 DEF IngestMessage, DraftEndsKept
  <2>3. QED
    BY <2>1, <2>2, IngestParties
<1>16. ASSUME NEW t \in ThreadId, NEW v \in Verdict, TransitionInbound(t, v)
       PROVE  PartiesInv'
  BY <1>16, <1>b DEF TransitionInbound
<1>17. ASSUME NEW t \in ThreadId, NEW p \in Person, NEW id \in Id,
              ApproveInboundViaGrant(t, p, id)
       PROVE  PartiesInv'
  <2>1. PICK thr \in threads, next \in ThreadState : SetThreadState(thr, next)
    BY <1>17 DEF ApproveInboundViaGrant
  <2>2. ThreadsKeyed' /\ ThreadsKept
    BY <2>1, SetThreadStateKeeps DEF PartiesInv
  <2>3. /\ messages' = {IF m.id = id /\ m.thread = t
                          THEN [m EXCEPT !.viaGrant = TRUE]
                          ELSE m : m \in messages}
        /\ UNCHANGED <<drafts, deliveries>>
    BY <1>17 DEF ApproveInboundViaGrant
  <2>4. ASSUME NEW m \in messages
        PROVE  LET n == IF m.id = id /\ m.thread = t
                          THEN [m EXCEPT !.viaGrant = TRUE]
                          ELSE m
               IN  /\ n \in messages'
                   /\ n.id = m.id /\ n.thread = m.thread
                   /\ n.sender = m.sender /\ n.to = m.to
    BY <2>3 DEF TypeOK, Message
  <2>5. MessagesBetween'
    <3>1. ASSUME NEW n \in messages'
          PROVE  \E y \in threads' : y.id = n.thread /\ {n.sender, n.to} = Parties(y)
      <4>1. PICK m \in messages :
              n.thread = m.thread /\ n.sender = m.sender /\ n.to = m.to
        BY <2>3, <2>4
      <4>2. PICK x \in threads : x.id = m.thread /\ {m.sender, m.to} = Parties(x)
        BY DEF PartiesInv, MessagesBetween
      <4>3. QED
        BY <4>1, <4>2, <2>2 DEF ThreadsKept
    <3>2. QED
      BY <3>1 DEF MessagesBetween, Parties
  <2>6. DraftsBetween'
    <3>1. ASSUME NEW d \in drafts
          PROVE  \E y \in threads' : y.id = d.thread /\ {d.author, d.to} = Parties(y)
      <4>1. PICK x \in threads : x.id = d.thread /\ {d.author, d.to} = Parties(x)
        BY DEF PartiesInv, DraftsBetween
      <4>2. QED
        BY <4>1, <2>2 DEF ThreadsKept
    <3>2. QED
      BY <2>3, <3>1 DEF DraftsBetween, Parties
  <2>7. DeliveriesOwed'
    BY <2>3, <2>4 DEF PartiesInv, DeliveriesOwed
  <2>8. QED
    BY <2>2, <2>5, <2>6, <2>7 DEF PartiesInv
<1>18. ASSUME NEW d \in Device, RevokeDevice(d)
       PROVE  PartiesInv'
  BY <1>18, <1>a DEF RevokeDevice
<1>19. CASE UNCHANGED vars
  BY <1>19, <1>a DEF vars, tables
<1>20. QED
  BY <1>1, <1>2, <1>3, <1>4, <1>5, <1>6, <1>7, <1>8, <1>10, <1>11,
     <1>12, <1>13, <1>14, <1>15, <1>16, <1>17, <1>18, <1>19
     DEF Next, RelayNext, ReservedNext

LEMMA PartiesCorrect == Spec => []PartiesInv
  BY InitParties, NextParties, TypeCorrect, PTL DEF Spec

\* Threads are 1:1 in every table at once, whoever signs what to whom.
THEOREM Private == Spec => []MailStaysBetweenParties
<1>1. PartiesInv => MailStaysBetweenParties
  BY DEF PartiesInv, MessagesBetween, DraftsBetween, DeliveriesOwed,
         MailStaysBetweenParties
<1>2. QED
  BY <1>1, PartiesCorrect, PTL

-----------------------------------------------------------------------------
(* The steps that touch mail, and those that touch drafts. *)

LEMMA MailSteps ==
    ASSUME [Next]_vars
    PROVE  \/ UNCHANGED <<messages, deliveries>>
           \/ \E e, now : IngestTx(e, now)
           \/ \E id \in Id, d \in Device : MarkDelivered(id, d)
           \/ \E id \in Id, d \in Device, now \in Now : Ack(id, d, now)
           \/ \E t \in ThreadId, p \in Person, id \in Id :
                ApproveInboundViaGrant(t, p, id)
           \/ \E now \in Now : SweepMessages(now)
<1>1. CASE \/ Tick \/ UNCHANGED vars
           \/ \E p, q \in Person, t \in ThreadId : StartThread(p, q, t)
           \/ \E id \in Id, t \in ThreadId, p, q \in Person, b \in Body :
                CreateDraft(id, t, p, q, b)
  BY <1>1 DEF Tick, StartThread, CreateDraft, vars, tables
<1>2. ASSUME NEW p \in Person, NEW id \in Id, NEW now \in Now,
             \/ \E b \in Body : ReleaseDraft(p, id, b, now)
             \/ ReleaseReplyViaGrant(id, p, now)
      PROVE  \E e, n : IngestTx(e, n)
  <2>1. \E d, b : DeliverInTx(d, b, now)
    <3>1. CASE \E b \in Body : ReleaseDraft(p, id, b, now)
      BY <3>1 DEF ReleaseDraft
    <3>2. CASE ReleaseReplyViaGrant(id, p, now)
      BY <3>2 DEF ReleaseReplyViaGrant
    <3>3. QED
      BY <1>2, <3>1, <3>2
  <2>2. QED
    BY <2>1 DEF DeliverInTx
<1>3. CASE \E p \in Person, id \in Id, now \in Now : DiscardDraft(p, id, now)
  BY <1>3 DEF DiscardDraft
<1>4. CASE \/ \E p \in Person, id \in Id, v \in Verdict :
                InboundMessageVerdict(p, id, v)
           \/ \E t \in ThreadId, v \in Verdict : TransitionInbound(t, v)
  BY <1>4 DEF InboundMessageVerdict, TransitionInbound
<1>5. CASE \/ \E t \in ThreadId, p \in Person, dir \in GrantAsked :
                SetThreadGrant(t, p, dir) \/ RevokeThreadGrant(t, p, dir)
           \/ \E d \in Device : RevokeDevice(d)
           \/ \E now \in Now : SweepDrafts(now) \/ PruneTombstones(now)
  BY <1>5 DEF SetThreadGrant, RevokeThreadGrant, RevokeDevice, SweepDrafts,
     PruneTombstones
<1>6. CASE \E e, now : IngestMessage(e, now)
  BY <1>6 DEF IngestMessage
<1>7. QED
  BY <1>1, <1>2, <1>3, <1>4, <1>5, <1>6 DEF Next, RelayNext, ReservedNext

LEMMA DraftSteps ==
    ASSUME [Next]_vars
    PROVE  \/ drafts \subseteq drafts'
           \/ \E d \in drafts : \E b, next, via, now :
                SetDraftDecided(d, b, next, via, now)
           \/ \E now \in Now : SweepDrafts(now)
<1>1. CASE \E id \in Id, t \in ThreadId, p, q \in Person, b \in Body :
             CreateDraft(id, t, p, q, b)
  BY <1>1 DEF CreateDraft
<1>2. ASSUME NEW p \in Person, NEW id \in Id, NEW now \in Now,
             \/ \E b \in Body : ReleaseDraft(p, id, b, now)
             \/ DiscardDraft(p, id, now)
             \/ ReleaseReplyViaGrant(id, p, now)
      PROVE  \E d \in drafts : \E b, next, via, n :
               SetDraftDecided(d, b, next, via, n)
  <2>1. CASE \E b \in Body : ReleaseDraft(p, id, b, now)
    BY <2>1 DEF ReleaseDraft
  <2>2. CASE DiscardDraft(p, id, now)
    BY <2>2 DEF DiscardDraft
  <2>3. CASE ReleaseReplyViaGrant(id, p, now)
    BY <2>3 DEF ReleaseReplyViaGrant
  <2>4. QED
    BY <1>2, <2>1, <2>2, <2>3
<1>3. CASE \/ Tick \/ UNCHANGED vars
           \/ \E p, q \in Person, t \in ThreadId : StartThread(p, q, t)
           \/ \E p \in Person, id \in Id, v \in Verdict :
                InboundMessageVerdict(p, id, v)
           \/ \E t \in ThreadId, p \in Person, dir \in GrantAsked :
                SetThreadGrant(t, p, dir) \/ RevokeThreadGrant(t, p, dir)
           \/ \E id \in Id, d \in Device :
                MarkDelivered(id, d) \/ \E now \in Now : Ack(id, d, now)
           \/ \E now \in Now : SweepMessages(now) \/ PruneTombstones(now)
  BY <1>3 DEF Tick, StartThread, InboundMessageVerdict, SetThreadGrant,
     RevokeThreadGrant, MarkDelivered, Ack, SweepMessages, PruneTombstones,
     vars, tables
<1>4. CASE ReservedNext
  BY <1>4 DEF ReservedNext, IngestMessage, TransitionInbound,
     ApproveInboundViaGrant, RevokeDevice
<1>5. QED
  BY <1>1, <1>2, <1>3, <1>4 DEF Next, RelayNext

-----------------------------------------------------------------------------
(* Drafts. *)

LEMMA StepKeepsPending ==
    ASSUME TypeOK, [Next]_vars, NEW d \in drafts, d.state = "pending_review"
    PROVE  d.id \in IdsOf(drafts')
<1>1. CASE drafts \subseteq drafts'
  BY <1>1 DEF IdsOf
<1>2. ASSUME NEW x \in drafts, NEW b, NEW next, NEW via, NEW now,
             SetDraftDecided(x, b, next, via, now)
      PROVE  d.id \in IdsOf(drafts')
  <2> DEFINE y == [x EXCEPT !.body = b, !.state = next, !.viaGrant = via,
                            !.decidedAt = Unix(now)]
  <2>1. y.id = x.id
    BY DEF TypeOK, Draft
  <2>2. drafts' = (drafts \ {x}) \cup {y}
    BY <1>2 DEF SetDraftDecided
  <2> HIDE DEF y
  <2>3. QED
    BY <2>1, <2>2 DEF IdsOf
<1>3. CASE \E now \in Now : SweepDrafts(now)
  BY <1>3 DEF SweepDrafts, IdsOf
<1>4. QED
  BY <1>1, <1>2, <1>3, DraftSteps

\* A draft under review stays, or stays on record as decided, whatever step is
\* taken and however late its clock reading.
THEOREM PendingCorrect == Spec => PendingIsNeverSwept
<1>1. TypeOK /\ [Next]_vars =>
        [\A d \in drafts : d.state = "pending_review"
                             => d.id \in IdsOf(drafts')]_vars
  BY StepKeepsPending
<1>2. QED
  BY <1>1, TypeCorrect, PTL DEF Spec, PendingIsNeverSwept

-----------------------------------------------------------------------------
(* Mail that is still owed. *)

\* messages.id is a key.
MessagesKeyed == \A x, y \in messages : x.id = y.id => x = y

\* The audit mark leaves a message what it is.
LEMMA AuditMark ==
    ASSUME TypeOK, NEW t \in ThreadId, NEW p \in Person, NEW id \in Id,
           ApproveInboundViaGrant(t, p, id)
    PROVE  \E mark \in [messages -> messages'] :
             /\ \A m \in messages : mark[m].id = m.id
             /\ \A x \in messages' : \E m \in messages : x = mark[m]
<1> DEFINE F(m) == IF m.id = id /\ m.thread = t
                     THEN [m EXCEPT !.viaGrant = TRUE] ELSE m
           mark == [m \in messages |-> F(m)]
<1>1. messages' = {F(m) : m \in messages}
  BY DEF ApproveInboundViaGrant
<1>2. \A m \in messages : F(m).id = m.id
  BY DEF TypeOK, Message
<1> HIDE DEF F
<1>3. mark \in [messages -> messages']
  BY <1>1
<1>4. \A m \in messages : mark[m].id = m.id
  BY <1>2
<1>5. \A x \in messages' : \E m \in messages : x = mark[m]
  BY <1>1
<1>6. QED
  BY <1>3, <1>4, <1>5

LEMMA NextKeyed == TypeOK /\ MessagesKeyed /\ [Next]_vars => MessagesKeyed'
<1> SUFFICES ASSUME TypeOK, MessagesKeyed, [Next]_vars
             PROVE  MessagesKeyed'
  OBVIOUS
<1>1. CASE UNCHANGED messages
  BY <1>1 DEF MessagesKeyed
<1>2. ASSUME NEW e, NEW now, IngestTx(e, now)
      PROVE  MessagesKeyed'
  <2>1. PICK m : m.id = e.id /\ messages' = messages \cup {m}
    BY <1>2 DEF IngestTx
  <2>2. \A x \in messages : x.id # e.id
    BY <1>2 DEF IngestTx
  <2>3. QED
    BY <2>1, <2>2 DEF MessagesKeyed
<1>3. ASSUME NEW t \in ThreadId, NEW p \in Person, NEW id \in Id,
             ApproveInboundViaGrant(t, p, id)
      PROVE  MessagesKeyed'
  BY <1>3, AuditMark DEF MessagesKeyed
<1>4. CASE \E now \in Now : SweepMessages(now)
  BY <1>4 DEF SweepMessages, MessagesKeyed
<1>5. QED
  BY <1>1, <1>2, <1>3, <1>4, MailSteps DEF MarkDelivered, Ack

LEMMA KeyedCorrect == Spec => []MessagesKeyed
<1>1. Init => MessagesKeyed
  BY DEF Init, MessagesKeyed
<1>2. QED
  BY <1>1, NextKeyed, TypeCorrect, PTL DEF Spec

\* The start of a second is not after any instant in it.
LEMMA SecondStart ==
    ASSUME NEW t \in Int
    PROVE  Unix(t) * Sec <= t
  BY SecAssumption DEF Unix

\* A hard TTL judged on truncated seconds never ends early.
LEMMA HardTTLIsHeld ==
    ASSUME TypeOK, NEW m \in messages, NEW now \in Now, PastHardTTL(m, now)
    PROVE  m.receivedAt * Sec + HardTTL <= clock
<1>1. now \in Int /\ now <= clock /\ clock \in Int /\ HardTTL \in Int
  BY NowType, DurationAssumption DEF TypeOK
<1>2. m.receivedAt \in Int /\ Sec \in Nat
  BY SecAssumption DEF TypeOK, Message
<1>3. Unix(now - HardTTL) \in Int /\ Unix(now - HardTTL) * Sec <= now - HardTTL
  BY <1>1, SecondStart, UnixType
<1>4. m.receivedAt <= Unix(now - HardTTL)
  BY DEF PastHardTTL
<1>5. m.receivedAt * Sec <= Unix(now - HardTTL) * Sec
  BY <1>2, <1>3, <1>4
<1>6. QED
  BY <1>1, <1>2, <1>3, <1>5

\* Device d is owed m, or has just acknowledged it.
OwedOrAcked(m, d) ==
    \/ m.id \in IdsOf(Inbox(d))'
    \/ m.receivedAt * Sec + HardTTL <= clock
    \/ \E r \in deliveries' :
         r.message = m.id /\ r.device = d /\ r.ackedAt # Never

LEMMA StepKeepsUnacked ==
    ASSUME TypeOK, MessagesKeyed, [Next]_vars,
           NEW d \in Device, NEW m \in Inbox(d)
    PROVE  OwedOrAcked(m, d)
<1>1. PICK r \in deliveries :
        r.message = m.id /\ r.device = d /\ r.ackedAt = Never
  BY DEF Inbox
<1>2. m \in messages
  BY DEF Inbox
<1>3. ASSUME NEW x \in messages', x.id = m.id,
             NEW s \in deliveries', s.message = m.id, s.device = d,
             s.ackedAt = Never
      PROVE  OwedOrAcked(m, d)
  BY <1>3 DEF OwedOrAcked, Inbox, IdsOf
<1>4. CASE UNCHANGED <<messages, deliveries>>
  BY <1>1, <1>2, <1>3, <1>4
<1>5. ASSUME NEW e, NEW now, IngestTx(e, now)
      PROVE  OwedOrAcked(m, d)
  <2>1. messages \subseteq messages' /\ deliveries \subseteq deliveries'
    BY <1>5 DEF IngestTx, FanOutDeliveries
  <2>2. QED
    BY <1>1, <1>2, <1>3, <2>1
<1>6. ASSUME NEW id \in Id, NEW b \in Device, MarkDelivered(id, b)
      PROVE  OwedOrAcked(m, d)
  <2>1. PICK s \in deliveries :
          deliveries' = (deliveries \ {s}) \cup {[s EXCEPT !.delivered = TRUE]}
    BY <1>6 DEF MarkDelivered
  <2>2. /\ [s EXCEPT !.delivered = TRUE].message = s.message
        /\ [s EXCEPT !.delivered = TRUE].device = s.device
        /\ [s EXCEPT !.delivered = TRUE].ackedAt = s.ackedAt
    BY DEF TypeOK, Delivery
  <2>3. \E x \in deliveries' :
          x.message = m.id /\ x.device = d /\ x.ackedAt = Never
    BY <1>1, <2>1, <2>2
  <2>4. UNCHANGED messages
    BY <1>6 DEF MarkDelivered
  <2>5. QED
    BY <1>2, <1>3, <2>3, <2>4
<1>7. ASSUME NEW id \in Id, NEW b \in Device, NEW now \in Now, Ack(id, b, now)
      PROVE  OwedOrAcked(m, d)
  <2>1. PICK s \in deliveries :
          deliveries' = (deliveries \ {s}) \cup
            {[s EXCEPT !.delivered = TRUE,
                       !.ackedAt = IF @ = Never THEN Unix(now) ELSE @]}
    BY <1>7 DEF Ack
  <2> DEFINE y == [s EXCEPT !.delivered = TRUE,
                            !.ackedAt = IF @ = Never THEN Unix(now) ELSE @]
  <2>2. /\ y.message = s.message /\ y.device = s.device
        /\ y.ackedAt = IF s.ackedAt = Never THEN Unix(now) ELSE s.ackedAt
    BY DEF TypeOK, Delivery
  <2>3. Unix(now) # Never
    <3>1. now \in Nat
      BY ClockAssumption DEF TypeOK, Now
    <3>2. QED
      BY <3>1, SecAssumption DEF Unix, Never
  <2>4. UNCHANGED messages /\ y \in deliveries'
    BY <1>7, <2>1 DEF Ack
  <2> HIDE DEF y
  <2>5. CASE s = r
    BY <1>1, <2>2, <2>3, <2>4, <2>5 DEF OwedOrAcked
  <2>6. CASE s # r
    BY <1>1, <1>2, <1>3, <2>1, <2>4, <2>6
  <2>7. QED
    BY <2>5, <2>6
<1>8. ASSUME NEW t \in ThreadId, NEW p \in Person, NEW id \in Id,
             ApproveInboundViaGrant(t, p, id)
      PROVE  OwedOrAcked(m, d)
  <2>1. \E x \in messages' : x.id = m.id
    BY <1>2, <1>8, AuditMark
  <2>2. UNCHANGED deliveries
    BY <1>8 DEF ApproveInboundViaGrant
  <2>3. QED
    BY <1>1, <1>3, <2>1, <2>2
<1>9. ASSUME NEW now \in Now, SweepMessages(now)
      PROVE  OwedOrAcked(m, d)
  <2>1. CASE PastHardTTL(m, now)
    BY <1>2, <2>1, HardTTLIsHeld DEF OwedOrAcked
  <2>2. CASE ~PastHardTTL(m, now)
    <3>1. ~PastAckGrace(m, now)
      BY <1>1 DEF PastAckGrace, DeliveriesOf
    <3>2. m \notin Swept(now)
      BY <2>2, <3>1 DEF Swept
    <3>3. \A x \in Swept(now) : x.id # m.id
      BY <1>2, <3>2 DEF Swept, MessagesKeyed
    <3>4. m \in messages' /\ r \in deliveries'
      BY <1>1, <1>2, <1>9, <3>2, <3>3 DEF SweepMessages
    <3>5. QED
      BY <1>1, <1>3, <3>4
  <2>3. QED
    BY <2>1, <2>2
<1>10. QED
  BY <1>4, <1>5, <1>6, <1>7, <1>8, <1>9, MailSteps

\* A device is never robbed of mail it has not acknowledged, whichever devices
\* of the same person have, and however old the sweeper's clock reading is.
THEOREM UnackedCorrect == Spec => UnackedIsKept
<1>1. TypeOK /\ MessagesKeyed /\ [Next]_vars =>
        [\A d \in Device : \A m \in Inbox(d) :
           \/ m.id \in IdsOf(Inbox(d))'
           \/ m.receivedAt * Sec + HardTTL <= clock
           \/ \E r \in deliveries' :
                r.message = m.id /\ r.device = d /\ r.ackedAt # Never]_vars
  BY StepKeepsUnacked DEF OwedOrAcked
<1>2. QED
  BY <1>1, KeyedCorrect, TypeCorrect, PTL DEF Spec, UnackedIsKept

-----------------------------------------------------------------------------
(* What a person is shown. *)

\* The query check_inbox runs and the test a verdict has to pass agree on every
\* message, in whatever state its thread is.
THEOREM SurfacedCorrect == Spec => []SurfacedIffActionable
<1>1. SurfacedIffActionable
  <2>1. \A state : (\E next \in ThreadState : ApplyInbound(state, "approve", next))
                     <=> state = "input-required"
    BY DEF ApplyInbound, ThreadState
  <2>2. QED
    BY <2>1 DEF SurfacedIffActionable, InboundAwaiting, VerdictIsDue
<1>2. QED
  BY <1>1, PTL

=============================================================================
