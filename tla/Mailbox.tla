------------------------------- MODULE Mailbox -------------------------------
(***************************************************************************)
(* The relay's message store: internal/relay/store (message.go, draft.go,  *)
(* approval.go, read.go, retention.go, and the device rows of identity.go).*)
(*                                                                         *)
(* A table is a set of rows.  Every exported method of the store runs in   *)
(* one transaction under the single-writer lock (identity.go, writeTx), so *)
(* every method is one atomic action; a method that returns an error rolls *)
(* its transaction back and changes nothing, so it is the absence of a     *)
(* step.                                                                   *)
(*                                                                         *)
(* What is NOT atomic is the clock.  A caller reads time.Now() before it   *)
(* asks for the writer lock, so the instant a method is given may be older *)
(* than the instant it commits: `now' below ranges over Now, the readings  *)
(* a caller may still be holding.  The clock ticks in units finer than the *)
(* unix seconds the tables store (Sec ticks to the second), because        *)
(* freshness is judged on the full-precision times and everything else on  *)
(* the truncated ones.                                                     *)
(*                                                                         *)
(* Left out: columns no operation reads back (created_at, updated_at,      *)
(* granted_at, revoked_at, delivered_at's value), revoked grant rows, and  *)
(* the check of the envelope's size caps.                                  *)
(***************************************************************************)
EXTENDS Integers, FiniteSets, Gate

CONSTANTS
    Person,     \* the roster
    Device,     \* enrolled devices
    Owner,      \* Owner[d]: the person a device belongs to
    ThreadId,
    Id,         \* envelope ids; a draft's id becomes its message's id
    PeerId,     \* the ids of envelopes signed outside the relay
    Body,
    Sec,        \* clock ticks to the second
    MaxAge,     \* Freshness.MaxAge, in ticks
    MaxSkew,    \* Freshness.MaxSkew
    AckGrace,   \* RetentionPolicy.AckGrace
    HardTTL,    \* RetentionPolicy.HardTTL
    MaxLag,     \* how old a caller's clock reading may be when it commits
    MaxClock,   \* bound: the clock stops here
    GrantAsked  \* bound: the directions grants are asked for in

ASSUME OwnerAssumption == Owner \in [Device -> Person]
ASSUME PeerIdAssumption == PeerId \subseteq Id
ASSUME SecAssumption == Sec \in Nat \ {0}
ASSUME DurationAssumption ==
    /\ MaxAge \in Nat /\ MaxSkew \in Nat
    /\ AckGrace \in Nat /\ HardTTL \in Nat
ASSUME ClockAssumption == MaxLag \in Nat /\ MaxClock \in Nat
ASSUME GrantAssumption == GrantAsked \subseteq Direction

VARIABLES
    clock,        \* the wall clock, in ticks
    devices,      \* rows of devices that are not revoked
    threads,
    messages,
    deliveries,
    drafts,
    grants,       \* the active grants
    tombstones,
    used,         \* history: every id a uuid generator has handed out
    wire          \* history: every envelope that was ingested, as it was sent

tables == <<devices, threads, messages, deliveries, drafts, grants, tombstones>>
vars == <<clock, tables, used, wire>>

Never == -1     \* a NULL time

Thread == [id: ThreadId, initiator: Person, recipient: Person,
           state: ThreadState]

Envelope == [id: Id, thread: ThreadId, sender: Person, to: Person,
             body: Body, sentAt: Int]

Message == [id: Id, thread: ThreadId, sender: Person, to: Person, body: Body,
            receivedAt: Int, viaGrant: BOOLEAN]

Delivery == [message: Id, device: Device, delivered: BOOLEAN, ackedAt: Int]

Draft == [id: Id, thread: ThreadId, author: Person, to: Person, body: Body,
          state: DraftState, viaGrant: BOOLEAN, decidedAt: Int]

Grant == [thread: ThreadId, person: Person, direction: Direction]

Tombstone == [id: Id, sentAt: Int]

-----------------------------------------------------------------------------
(* Time. *)

\* time.Time.Unix: the second an instant falls in.
Unix(t) == t \div Sec

\* The clock readings a caller may hold when its transaction commits.
Now == {n \in 0 .. clock : n >= clock - MaxLag}

\* Variant for the replay run: only the future is bounded.
FreshForever(sentAt, now) == sentAt <= now + MaxSkew

\* IngestMessage's freshness test, on the full-precision times.
IsFresh(sentAt, now) == sentAt >= now - MaxAge /\ sentAt <= now + MaxSkew

-----------------------------------------------------------------------------
(* Initially some devices are enrolled and active, and no mail exists. *)

Init ==
    /\ clock = 0
    /\ devices \in SUBSET Device
    /\ threads = {}
    /\ messages = {}
    /\ deliveries = {}
    /\ drafts = {}
    /\ grants = {}
    /\ tombstones = {}
    /\ used = {}
    /\ wire = {}

-----------------------------------------------------------------------------
(* message.go: ingest, delivery and acknowledgement. *)

TombstoneSeen(id) == \E s \in tombstones : s.id = id

Parties(thr) == {thr.initiator, thr.recipient}

\* Variant: an existing thread's parties are not compared with the message's.
AnyoneOnThread(e) ==
    \/ \E thr \in threads :
         /\ thr.id = e.thread
         /\ threads' = (threads \ {thr})
                         \cup {[thr EXCEPT !.state = "input-required"]}
    \/ /\ \A thr \in threads : thr.id # e.thread
       /\ e.sender # e.to
       /\ threads' = threads \cup
            {[id |-> e.thread, initiator |-> e.sender, recipient |-> e.to,
              state |-> "input-required"]}

\* Variant: a message on an existing thread does not make it wait again.
ThreadNotFlipped(e) ==
    \E thr \in threads :
        /\ thr.id = e.thread
        /\ {e.sender, e.to} = Parties(thr)
        /\ UNCHANGED threads

\* Variant: the state is spelled as the Go identifier, not as on the wire.
ThreadMisspelt(e) ==
    \E thr \in threads :
        /\ thr.id = e.thread
        /\ {e.sender, e.to} = Parties(thr)
        /\ threads' = (threads \ {thr})
                        \cup {[thr EXCEPT !.state = "input_required"]}

\* ensureThread, and the flip to input-required that follows it: the first
\* message opens the thread, a later one must be between its two parties.
EnsureThread(e) ==
    \/ \E thr \in threads :
         /\ thr.id = e.thread
         /\ {e.sender, e.to} = Parties(thr)
         /\ threads' = (threads \ {thr})
                         \cup {[thr EXCEPT !.state = "input-required"]}
    \/ /\ \A thr \in threads : thr.id # e.thread
       /\ e.sender # e.to                \* CHECK (initiator_id <> recipient_id)
       /\ threads' = threads \cup
            {[id |-> e.thread, initiator |-> e.sender, recipient |-> e.to,
              state |-> "input-required"]}

\* fanOutDeliveries: one row per recipient device that is active right now.
FanOutDeliveries(e) ==
    deliveries' = deliveries \cup
        {[message |-> e.id, device |-> d, delivered |-> FALSE,
          ackedAt |-> Never] : d \in {x \in devices : Owner[x] = e.to}}

\* ingestTx, shared by the signed path and by released drafts.
IngestTx(e, now) ==
    /\ ~TombstoneSeen(e.id)
    /\ \A m \in messages : m.id # e.id                         \* PRIMARY KEY
    /\ EnsureThread(e)
    /\ messages' = messages \cup
         {[id |-> e.id, thread |-> e.thread, sender |-> e.sender, to |-> e.to,
           body |-> e.body, receivedAt |-> Unix(now), viaGrant |-> FALSE]}
    /\ tombstones' = tombstones \cup {[id |-> e.id, sentAt |-> Unix(e.sentAt)]}
    /\ FanOutDeliveries(e)
    /\ wire' = wire \cup {e}

\* A verified envelope comes in: a new one, sent at any instant, or a copy of
\* one that came in before.  Freshness is judged before the lock is taken.
IngestMessage(e, now) ==
    /\ e \in wire \/ e.id \in PeerId \ used
    /\ IsFresh(e.sentAt, now)
    /\ IngestTx(e, now)
    /\ used' = used \cup {e.id}
    /\ UNCHANGED <<clock, devices, drafts, grants>>

\* The websocket writer has put the message on device d's socket.
MarkDelivered(id, d) ==
    \E r \in deliveries :
        /\ r.message = id /\ r.device = d
        /\ deliveries' = (deliveries \ {r})
                           \cup {[r EXCEPT !.delivered = TRUE]}
        /\ UNCHANGED <<clock, devices, threads, messages, drafts, grants,
                       tombstones, used, wire>>

\* Device d acknowledges; the first acknowledgement's time is the one kept.
Ack(id, d, now) ==
    \E r \in deliveries :
        /\ r.message = id /\ r.device = d
        /\ deliveries' = (deliveries \ {r}) \cup
             {[r EXCEPT !.delivered = TRUE,
                        !.ackedAt = IF @ = Never THEN Unix(now) ELSE @]}
        /\ UNCHANGED <<clock, devices, threads, messages, drafts, grants,
                       tombstones, used, wire>>

-----------------------------------------------------------------------------
(* read.go and draft.go: asking, replying, and the outbound gate. *)

\* Person p opens thread t towards q.
StartThread(p, q, t) ==
    /\ \A thr \in threads : thr.id # t
    /\ p # q                             \* CHECK (initiator_id <> recipient_id)
    /\ threads' = threads \cup {[id |-> t, initiator |-> p, recipient |-> q,
                                 state |-> "submitted"]}
    /\ UNCHANGED <<clock, devices, messages, deliveries, drafts, grants,
                   tombstones, used, wire>>

\* p's AI drafts item id to q on thread t.  (send_message addresses the
\* envelope to the same thread it files the draft under.)
CreateDraft(id, t, p, q, b) ==
    /\ id \notin used /\ id \notin PeerId
    /\ \E thr \in threads :
         thr.id = t /\ p \in Parties(thr) /\ q \in Parties(thr) \ {p}
    /\ drafts' = drafts \cup
         {[id |-> id, thread |-> t, author |-> p, to |-> q, body |-> b,
           state |-> "pending_review", viaGrant |-> FALSE,
           decidedAt |-> Never]}
    /\ used' = used \cup {id}
    /\ UNCHANGED <<clock, devices, threads, messages, deliveries, grants,
                   tombstones, wire>>

\* The approvable of draft d.
Outbound(d) == [thread |-> d.thread, direction |-> "outbound"]

\* Variant: the author's edit is sent but not written back to the draft.
DecidedUnedited(d, b, next, via, now) ==
    drafts' = (drafts \ {d}) \cup
        {[d EXCEPT !.state = next, !.viaGrant = via, !.decidedAt = Unix(now)]}

\* setDraftDecided, with the body the author settled on.
SetDraftDecided(d, b, next, via, now) ==
    drafts' = (drafts \ {d}) \cup
        {[d EXCEPT !.body = b, !.state = next, !.viaGrant = via,
                   !.decidedAt = Unix(now)]}

\* deliverInTx: "sent" means when it was released, not when it was drafted.
DeliverInTx(d, b, now) ==
    IngestTx([id |-> d.id, thread |-> d.thread, sender |-> d.author,
              to |-> d.to, body |-> b, sentAt |-> now], now)

\* The author releases a pending draft, possibly edited (b is the body that
\* leaves), and it is delivered in the same transaction.
ReleaseDraft(p, id, b, now) ==
    \E d \in drafts, next \in DraftState :
        /\ d.id = id /\ d.author = p
        /\ ApplyOutbound(Outbound(d), d.state, "approve", next)
        /\ SetDraftDecided(d, b, next, FALSE, now)
        /\ DeliverInTx(d, b, now)
        /\ UNCHANGED <<clock, devices, grants, used>>

DiscardDraft(p, id, now) ==
    \E d \in drafts, next \in DraftState :
        /\ d.id = id /\ d.author = p
        /\ ApplyOutbound(Outbound(d), d.state, "reject", next)
        /\ SetDraftDecided(d, d.body, next, FALSE, now)
        /\ UNCHANGED <<clock, devices, threads, messages, deliveries, grants,
                       tombstones, used, wire>>

ActiveGrant(t, p, dir) == [thread |-> t, person |-> p, direction |-> dir] \in grants

\* The author's standing outbound grant on the thread releases the draft.
ReleaseReplyViaGrant(id, p, now) ==
    \E d \in drafts, next \in DraftState :
        /\ d.id = id /\ d.author = p
        /\ ActiveGrant(d.thread, p, "outbound")
        /\ ApplyOutboundGrant([thread |-> d.thread, direction |-> "outbound"],
                              Outbound(d), d.state, next)
        /\ SetDraftDecided(d, d.body, next, TRUE, now)
        /\ DeliverInTx(d, d.body, now)
        /\ UNCHANGED <<clock, devices, grants, used>>

-----------------------------------------------------------------------------
(* approval.go: the inbound gate and the grants. *)

SetThreadState(thr, next) ==
    threads' = (threads \ {thr}) \cup {[thr EXCEPT !.state = next]}

\* received_at = (SELECT MAX(received_at) ... of the same thread)
IsLatest(m) ==
    \A m2 \in messages : m2.thread = m.thread => m2.receivedAt <= m.receivedAt

\* Variant: a verdict is accepted on a message that is not the latest.
VerdictOnAny(p, m, thr) ==
    /\ thr.id = m.thread
    /\ p \in Parties(thr)
    /\ p # m.sender

\* Person p may give a verdict on m: m is the latest of its thread, p is one
\* of the thread's parties, and p did not send it.
VerdictIsDue(p, m, thr) ==
    /\ IsLatest(m)
    /\ thr.id = m.thread
    /\ p \in Parties(thr)
    /\ p # m.sender

InboundMessageVerdict(p, id, v) ==
    \E m \in messages, thr \in threads, next \in ThreadState :
        /\ m.id = id
        /\ VerdictIsDue(p, m, thr)
        /\ ApplyInbound(thr.state, v, next)
        /\ SetThreadState(thr, next)
        /\ UNCHANGED <<clock, devices, messages, deliveries, drafts, grants,
                       tombstones, used, wire>>

\* ApproveInbound and DeclineInbound: a verdict on the thread as a whole.
TransitionInbound(t, v) ==
    \E thr \in threads, next \in ThreadState :
        /\ thr.id = t
        /\ ApplyInbound(thr.state, v, next)
        /\ SetThreadState(thr, next)
        /\ UNCHANGED <<clock, devices, messages, deliveries, drafts, grants,
                       tombstones, used, wire>>

\* p's standing inbound grant approves; the named message, if it is on this
\* thread, gets the audit mark.
ApproveInboundViaGrant(t, p, id) ==
    \E thr \in threads, next \in ThreadState :
        /\ thr.id = t
        /\ ActiveGrant(t, p, "inbound")
        /\ ApplyInboundGrant([thread |-> t, direction |-> "inbound"],
                             [thread |-> t, direction |-> "inbound"],
                             thr.state, next)
        /\ SetThreadState(thr, next)
        /\ messages' = {IF m.id = id /\ m.thread = t
                          THEN [m EXCEPT !.viaGrant = TRUE]
                          ELSE m : m \in messages}
        /\ UNCHANGED <<clock, devices, deliveries, drafts, grants, tombstones,
                       used, wire>>

RequireParticipant(t, p) ==
    \E thr \in threads : thr.id = t /\ p \in Parties(thr)

SetThreadGrant(t, p, dir) ==
    /\ RequireParticipant(t, p)
    /\ grants' = grants \cup {[thread |-> t, person |-> p, direction |-> dir]}
    /\ UNCHANGED <<clock, devices, threads, messages, deliveries, drafts,
                   tombstones, used, wire>>

RevokeThreadGrant(t, p, dir) ==
    /\ RequireParticipant(t, p)
    /\ ActiveGrant(t, p, dir)
    /\ grants' = grants \ {[thread |-> t, person |-> p, direction |-> dir]}
    /\ UNCHANGED <<clock, devices, threads, messages, deliveries, drafts,
                   tombstones, used, wire>>

-----------------------------------------------------------------------------
(* identity.go: a device is revoked, at once and for good. *)

RevokeDevice(d) ==
    /\ d \in devices
    /\ devices' = devices \ {d}
    /\ UNCHANGED <<clock, threads, messages, deliveries, drafts, grants,
                   tombstones, used, wire>>

-----------------------------------------------------------------------------
(* read.go: what a person is shown. *)

InboundAwaiting(p) ==
    {m \in messages :
        /\ IsLatest(m)
        /\ m.sender # p
        /\ \E thr \in threads : /\ thr.id = m.thread
                                /\ thr.state = "input-required"
                                /\ p \in Parties(thr)}

DraftsAwaitingReview(p) ==
    {d \in drafts : d.author = p /\ d.state = "pending_review"}

\* The EXISTS the long poll runs: the inbound half does not ask for the
\* latest message.
HasActivity(p) ==
    \/ \E m \in messages, thr \in threads :
         /\ thr.id = m.thread
         /\ thr.state = "input-required"
         /\ p \in Parties(thr)
         /\ m.sender # p
    \/ DraftsAwaitingReview(p) # {}

\* What device d has still to acknowledge.
Inbox(d) ==
    {m \in messages : \E r \in deliveries :
        r.message = m.id /\ r.device = d /\ r.ackedAt = Never}

-----------------------------------------------------------------------------
(* retention.go: the sweeper. *)

DeliveriesOf(m) == {r \in deliveries : r.message = m.id}

PastHardTTL(m, now) == m.receivedAt <= Unix(now - HardTTL)

\* Variant: one device's acknowledgement stands for all of them.
AckedOnce(m, now) ==
    \E r \in DeliveriesOf(m) :
        r.ackedAt # Never /\ r.ackedAt <= Unix(now - AckGrace)

\* Acknowledged by every device it was fanned out to, the last of them at
\* least AckGrace ago.
PastAckGrace(m, now) ==
    /\ DeliveriesOf(m) # {}
    /\ \A r \in DeliveriesOf(m) :
         r.ackedAt # Never /\ r.ackedAt <= Unix(now - AckGrace)

\* Variant: only acknowledged mail is swept.
SweptWhenAcked(now) == {m \in messages : PastAckGrace(m, now)}

Swept(now) == {m \in messages : PastHardTTL(m, now) \/ PastAckGrace(m, now)}

\* Delivery rows go with their message (ON DELETE CASCADE).
SweepMessages(now) ==
    /\ messages' = messages \ Swept(now)
    /\ deliveries' = {r \in deliveries : \A m \in Swept(now) : m.id # r.message}
    /\ UNCHANGED <<clock, devices, threads, drafts, grants, tombstones, used,
                   wire>>

\* Variant: a NULL decided_at counts as long ago.
SweepAllDrafts(now) ==
    /\ drafts' = {d \in drafts : d.decidedAt > Unix(now - HardTTL)}
    /\ UNCHANGED <<clock, devices, threads, messages, deliveries, grants,
                   tombstones, used, wire>>

SweepDrafts(now) ==
    /\ drafts' = {d \in drafts :
                    ~ /\ d.state \in {"sent", "discarded"}
                      /\ d.decidedAt # Never
                      /\ d.decidedAt <= Unix(now - HardTTL)}
    /\ UNCHANGED <<clock, devices, threads, messages, deliveries, grants,
                   tombstones, used, wire>>

\* Variant: the tombstones of the oldest fresh second are pruned too.
PruneOneTooMany(now) ==
    /\ tombstones' = {s \in tombstones : s.sentAt > Unix(now - MaxAge)}
    /\ UNCHANGED <<clock, devices, threads, messages, deliveries, drafts,
                   grants, used, wire>>

PruneTombstones(now) ==
    /\ tombstones' = {s \in tombstones : s.sentAt >= Unix(now - MaxAge)}
    /\ UNCHANGED <<clock, devices, threads, messages, deliveries, drafts,
                   grants, used, wire>>

-----------------------------------------------------------------------------

Tick ==
    /\ clock < MaxClock
    /\ clock' = clock + 1
    /\ UNCHANGED <<tables, used, wire>>

\* What the MCP tools, the websocket and the sweeper call.
RelayNext ==
    \/ Tick
    \/ \E p, q \in Person, t \in ThreadId : StartThread(p, q, t)
    \/ \E id \in Id, t \in ThreadId, p, q \in Person, b \in Body :
         CreateDraft(id, t, p, q, b)
    \/ \E p \in Person, id \in Id, now \in Now :
         \/ \E b \in Body : ReleaseDraft(p, id, b, now)
         \/ DiscardDraft(p, id, now)
         \/ ReleaseReplyViaGrant(id, p, now)
    \/ \E p \in Person, id \in Id, v \in Verdict :
         InboundMessageVerdict(p, id, v)
    \/ \E t \in ThreadId, p \in Person, dir \in GrantAsked :
         SetThreadGrant(t, p, dir) \/ RevokeThreadGrant(t, p, dir)
    \/ \E id \in Id, d \in Device :
         MarkDelivered(id, d) \/ \E now \in Now : Ack(id, d, now)
    \/ \E now \in Now :
         SweepMessages(now) \/ SweepDrafts(now) \/ PruneTombstones(now)

\* What the store exports for the signed path, for administration and for
\* inbound grants, and no caller in the relay uses yet.
ReservedNext ==
    \/ \E e \in wire \cup [id: PeerId, thread: ThreadId, sender: Person,
                           to: Person, body: Body, sentAt: 0 .. MaxClock],
          now \in Now : IngestMessage(e, now)
    \/ \E t \in ThreadId, v \in Verdict : TransitionInbound(t, v)
    \/ \E t \in ThreadId, p \in Person, id \in Id :
         ApproveInboundViaGrant(t, p, id)
    \/ \E d \in Device : RevokeDevice(d)

Next == RelayNext \/ ReservedNext

RelaySpec == Init /\ [][RelayNext]_vars

Spec == Init /\ [][Next]_vars

\* The sweeper's ticker keeps firing and a sweep that fails is tried again at
\* the next tick (server.go, runSweeper), and time passes.
FairSpec == RelaySpec /\ WF_vars(Tick) /\ WF_vars(SweepMessages(clock))

-----------------------------------------------------------------------------
(* Correctness. *)

TypeOK ==
    /\ clock \in 0 .. MaxClock
    /\ devices \subseteq Device
    /\ threads \subseteq Thread
    /\ messages \subseteq Message
    /\ deliveries \subseteq Delivery
    /\ drafts \subseteq Draft
    /\ grants \subseteq Grant
    /\ tombstones \subseteq Tombstone
    /\ used \subseteq Id
    /\ wire \subseteq Envelope

\* A thread is 1:1 (D-05) in every table at once: a message or a draft on it
\* runs between its two parties, and only devices of a message's addressee
\* are ever owed a copy of it.
MailStaysBetweenParties ==
    /\ \A m \in messages : \E thr \in threads :
         thr.id = m.thread /\ {m.sender, m.to} = Parties(thr)
    /\ \A d \in drafts : \E thr \in threads :
         thr.id = d.thread /\ {d.author, d.to} = Parties(thr)
    /\ \A r \in deliveries : \E m \in messages :
         m.id = r.message /\ Owner[r.device] = m.to

\* What arrived is what its author let go: as long as the draft and the
\* message both exist they agree on thread, ends and (edited) text, and the
\* draft is on record as sent.
SentAsReviewed ==
    \A d \in drafts, m \in messages : d.id = m.id =>
        /\ d.state = "sent"
        /\ d.thread = m.thread /\ d.author = m.sender /\ d.to = m.to
        /\ d.body = m.body

\* The list check_inbox shows and the test approve_message and decline_message
\* make are written twice, in read.go and in approval.go; they agree on every
\* message: what is shown can be decided, and nothing else can.
SurfacedIffActionable ==
    \A p \in Person :
        InboundAwaiting(p) =
            {m \in messages : \E thr \in threads, next \in ThreadState :
                VerdictIsDue(p, m, thr) /\ ApplyInbound(thr.state, "approve", next)}

\* Pruning never opens the replay window: whatever was ingested and would
\* still pass the freshness test now is remembered by its tombstone, although
\* the test uses the full-precision time and the tombstone only the second.
TombstoneCoversWindow ==
    \A e \in wire : e.sentAt >= clock - MaxAge => TombstoneSeen(e.id)

IdsOf(rows) == {r.id : r \in rows}

\* A device is never robbed of mail it has not acknowledged: a message leaves
\* the inbox of a device by that device's own acknowledgement, or when it has
\* been held for the hard TTL.
UnackedIsKept ==
    [][\A d \in Device : \A m \in Inbox(d) :
         \/ m.id \in IdsOf(Inbox(d))'
         \/ m.receivedAt * Sec + HardTTL <= clock
         \/ \E r \in deliveries' :
              r.message = m.id /\ r.device = d /\ r.ackedAt # Never]_vars

\* A draft under review is live work: whatever step is taken, it is afterwards
\* still under review or on record as decided (retention.go:48-49).
PendingIsNeverSwept ==
    [][\A d \in drafts : d.state = "pending_review" => d.id \in IdsOf(drafts')]_vars

\* The relay is a mailbox, not an archive: each message whose hard TTL falls
\* before the end of the modelled time is removed, acknowledged or not.
MailExpires ==
    \A id \in Id :
        (\E m \in messages : m.id = id /\ m.receivedAt * Sec + HardTTL <= MaxClock)
            ~> id \notin IdsOf(messages)

-----------------------------------------------------------------------------
(* The abstract promise, module GatedMail: an item is in the mailbox while   *)
(* its message row exists, held while its draft is pending, and gone once it *)
(* was neither but its id had been handed out.                               *)

Held(id) == \E d \in drafts : d.id = id /\ d.state = "pending_review"

PhaseOf(id) ==
    IF id \in IdsOf(messages) THEN "mailed"
    ELSE IF Held(id) THEN "held"
    ELSE IF id \in used THEN "gone" ELSE "fresh"

InState(t, S) == \E thr \in threads : thr.id = t /\ thr.state \in S

TurnOf(t) ==
    IF InState(t, {"input-required"}) THEN "awaiting"
    ELSE IF InState(t, {"working", "rejected"}) THEN "decided" ELSE "idle"

Gated == INSTANCE GatedMail WITH phase <- [id \in Id |-> PhaseOf(id)],
                                 turn <- [t \in ThreadId |-> TurnOf(t)]

\* Every method of the store is a step of GatedMail or none at all: release
\* and delivery are one event, nothing arrives twice, nothing is swept before
\* it arrived, and only an arrival reopens a decided thread.
ImplementsGatedMail == Gated!Spec

\* The copy of an envelope commits whose caller read the clock while the
\* envelope was still fresh, and that aged out before the commit.
LateReplay ==
    \E e \in wire, now \in Now :
        /\ now - MaxAge <= e.sentAt /\ e.sentAt < clock - MaxAge
        /\ IngestMessage(e, now)

\* Freshness is judged on a clock read before the writer lock is taken
\* (message.go:60), while the tombstone that stops a copy is kept only as long
\* as the envelope is fresh (retention.go:71-80).  So the promise of GatedMail
\* has one gap, and no other however old the readings are: an envelope that
\* aged out while its copy waited for the lock may arrive again.
ArrivesOnceUnlessLate ==
    Gated!Init /\ [][Gated!Next \/ LateReplay]_(Gated!vars)

-----------------------------------------------------------------------------
(* What the comments of the code say and the code does not do: this is      *)
(* checked and found violated.                                               *)

\* read.go:102-104, "HasActivity reports whether the person has anything
\* awaiting them": whenever the long poll reports activity, check_inbox, which
\* its caller is told to call next, has something to show.
ActivityMeansWork ==
    \A p \in Person : HasActivity(p) =>
        InboundAwaiting(p) # {} \/ DraftsAwaitingReview(p) # {}

=============================================================================
