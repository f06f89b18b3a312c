-------------------------------- MODULE Push --------------------------------
(***************************************************************************)
(* The websocket push path: internal/relay/ws.go, with the part of the     *)
(* store it reads and the sender's Notify (mcp/outbound.go).               *)
(*                                                                         *)
(* Each connection has two goroutines, the handler (handleWS, which ends   *)
(* up as its read loop) and the writer (writerLoop); around them run the   *)
(* senders, who commit a message and then nudge, and the loop that looks   *)
(* for revoked devices.  They share the hub's map, a one-slot wake channel *)
(* per connection, and the store.  One action is one access to something   *)
(* shared.  The daemon at the other end is external: it reads what it is   *)
(* sent, acknowledges it, and dials again when its socket is gone.         *)
(*                                                                         *)
(* The devices are those of one person, the only ones Notify and the hub's *)
(* per-person map ever bring together.  Left out: delivered_at, which      *)
(* nothing reads; frames that are not acknowledgements, which are checked  *)
(* for revocation like the others and then dropped; and the sweeper, whose *)
(* removal of a message looks to a socket like its acknowledgement.        *)
(***************************************************************************)
EXTENDS Naturals, FiniteSets

CONSTANTS
    Device,         \* the devices of one person
    Conn,           \* sockets; a socket is reused when both its goroutines ended
    Message,
    None,           \* no socket, or no device
    MaxFaults,      \* bound: dropped and stalled sockets, needless redials, restarts
    MaxStoreErrors  \* bound: inbox reads and acknowledgements that fail

ASSUME NoneAssumption == None \notin Conn \cup Device
ASSUME BoundAssumption == MaxFaults \in Nat /\ MaxStoreErrors \in Nat

VARIABLES
    active,     \* devices not revoked
    inbox,      \* inbox[d]: messages with an unacknowledged delivery row for d
    fresh,      \* messages not sent yet
    hub,        \* hub[d]: the socket registered for d
    sock,       \* sock[c]: the state of a socket and its two goroutines
    due,        \* messages committed whose sender has still to call Notify
    nudge,      \* sockets some Notify call has still to wake
    patrol,     \* sockets severRevoked has still to look at
    stopping,   \* Run has called closeAll and is about to return
    faults,
    storeErrors,
    seen        \* history: seen[d], what the daemon of d has read

vars == <<active, inbox, fresh, hub, sock, due, nudge, patrol, stopping,
          faults, storeErrors, seen>>

\* The handler: after Accept, after hub.add, running, with a frame in hand, and
\* in its deferred teardown.
Handler == {"none", "accepted", "registered", "starting", "reading", "acking",
            "leaving", "closing"}

\* The writer: not started or returned, waiting for a wake, and inside
\* drainInbox before the inbox is read and before a write.
Writer == {"none", "idle", "fetch", "send"}

Socket == [device: Device \cup {None}, open: BOOLEAN,
           wake: BOOLEAN, cancelled: BOOLEAN,
           handler: Handler, writer: Writer, old: Conn \cup {None},
           frame: SUBSET Message, todo: SUBSET Message,
           pushed: SUBSET Message, out: SUBSET Message, in: SUBSET Message,
           starved: BOOLEAN, unheard: SUBSET Message]

\* A socket nobody holds.  `frame' is the acknowledgement the read loop has in
\* hand (at most one), `todo' what is left of the inbox that was read, `out'
\* and `in' the frames under way.  Three fields are history: `pushed', all that
\* was written to the socket, `starved', whether the last drain could not read
\* the inbox, and `unheard', the messages acknowledged since they were last
\* written to it whose acknowledgement the store could not record.
Unused ==
    [device |-> None, open |-> FALSE, wake |-> FALSE, cancelled |-> FALSE,
     handler |-> "none", writer |-> "none", old |-> None, frame |-> {},
     todo |-> {}, pushed |-> {}, out |-> {}, in |-> {}, starved |-> FALSE,
     unheard |-> {}]

Init ==
    /\ active = Device
    /\ inbox = [d \in Device |-> {}]
    /\ fresh = Message
    /\ hub = [d \in Device |-> None]
    /\ sock = [c \in Conn |-> Unused]
    /\ due = {}
    /\ nudge = {}
    /\ patrol = {}
    /\ stopping = FALSE
    /\ faults = 0
    /\ storeErrors = 0
    /\ seen = [d \in Device |-> {}]

-----------------------------------------------------------------------------
(* Senders. *)

\* A message is committed with a delivery row for each active device.
Ingest(m) ==
    /\ m \in fresh
    /\ fresh' = fresh \ {m}
    /\ inbox' = [d \in Device |-> IF d \in active THEN inbox[d] \cup {m} ELSE inbox[d]]
    /\ due' = due \cup {m}
    /\ UNCHANGED <<active, hub, sock, nudge, patrol, stopping, faults,
                   storeErrors, seen>>

Registered == {hub[d] : d \in Device} \ {None}

\* Notify copies the person's connections under the hub's lock ...
NotifySnapshot(m) ==
    /\ m \in due
    /\ due' = due \ {m}
    /\ nudge' = nudge \cup Registered
    /\ UNCHANGED <<active, inbox, fresh, hub, sock, patrol, stopping, faults,
                   storeErrors, seen>>

\* Variant: a writer that is busy is left alone.
WakeIfIdle(c) ==
    /\ c \in nudge
    /\ nudge' = nudge \ {c}
    /\ sock' = [sock EXCEPT ![c].wake = sock[c].writer = "idle" \/ @]
    /\ UNCHANGED <<active, inbox, fresh, hub, due, patrol, stopping, faults,
                   storeErrors, seen>>

\* ... and then wakes them one by one; the slot holds one nudge (wake).  The
\* channel of a connection both goroutines have left is woken for nothing.
NotifyWake(c) ==
    /\ c \in nudge
    /\ nudge' = nudge \ {c}
    /\ sock' = [sock EXCEPT ![c].wake = sock[c].device # None]
    /\ UNCHANGED <<active, inbox, fresh, hub, due, patrol, stopping, faults,
                   storeErrors, seen>>

-----------------------------------------------------------------------------
(* handleWS. *)

Goto(c, pc) == sock' = [sock EXCEPT ![c].handler = pc]

\* What both goroutines have left is garbage.
Tidy(s) == IF s.handler = "none" /\ s.writer = "none" THEN Unused ELSE s

\* A closed socket: what is under way on it is lost.
Shut(s) == [s EXCEPT !.open = FALSE, !.pushed = {}, !.unheard = {},
                     !.out = {}, !.in = {}]

\* Both goroutines of c have ended and nobody is about to touch it.
Free(c) ==
    /\ sock[c].device = None
    /\ c \notin nudge \cup patrol
    /\ \A c2 \in Conn : sock[c2].old # c

Dialled(d) == \E c \in Conn : sock[c].device = d /\ sock[c].open

\* The daemon of device d dials and is let in: its device is active now.
Accept(d, c) ==
    /\ Free(c)
    /\ d \in active
    /\ sock' = [sock EXCEPT ![c] =
                  [Unused EXCEPT !.device = d, !.open = TRUE, !.handler = "accepted"]]
    /\ UNCHANGED <<active, inbox, fresh, hub, due, nudge, patrol, stopping,
                   storeErrors, seen>>

\* It dials because it has no socket ...
Dial(d, c) == ~Dialled(d) /\ Accept(d, c) /\ UNCHANGED faults

\* ... or although the relay thinks it has one.
Redial(d, c) ==
    /\ Dialled(d)
    /\ faults < MaxFaults
    /\ faults' = faults + 1
    /\ Accept(d, c)

\* hub.add, under the lock: the newcomer takes the device's place ...
Add(c) ==
    LET d == sock[c].device IN
    /\ sock[c].handler = "accepted"
    /\ hub' = [hub EXCEPT ![d] = c]
    /\ sock' = [sock EXCEPT ![c].handler = "registered", ![c].old = hub[d]]
    /\ UNCHANGED <<active, inbox, fresh, due, nudge, patrol, stopping, faults,
                   storeErrors, seen>>

\* ... and, the lock released, closes the socket it took it from.
Supersede(c) ==
    /\ sock[c].handler = "registered"
    /\ sock' = [c2 \in Conn |->
                  IF c2 = c
                  THEN [sock[c] EXCEPT !.handler = "starting", !.old = None]
                  ELSE IF c2 = sock[c].old
                  THEN Shut(sock[c2])
                  ELSE sock[c2]]
    /\ UNCHANGED <<active, inbox, fresh, hub, due, nudge, patrol, stopping,
                   faults, storeErrors, seen>>

\* Variant: a connection starts with an empty slot.
StartAsleep(c) ==
    /\ sock[c].handler = "starting"
    /\ sock' = [sock EXCEPT ![c].handler = "reading", ![c].writer = "idle"]
    /\ UNCHANGED <<active, inbox, fresh, hub, due, nudge, patrol, stopping,
                   faults, storeErrors, seen>>

\* The writer is started and woken: it resends whatever is unacknowledged.
Start(c) ==
    /\ sock[c].handler = "starting"
    /\ sock' = [sock EXCEPT ![c].handler = "reading", ![c].writer = "idle",
                            ![c].wake = TRUE]
    /\ UNCHANGED <<active, inbox, fresh, hub, due, nudge, patrol, stopping,
                   faults, storeErrors, seen>>

\* The read loop gets an acknowledgement; revocation is checked on every frame.
ReadFrame(c, m) ==
    /\ sock[c].handler = "reading" /\ m \in sock[c].in
    /\ IF sock[c].device \in active
         THEN sock' = [sock EXCEPT ![c].handler = "acking", ![c].frame = {m},
                                   ![c].in = @ \ {m}]
         ELSE Goto(c, "leaving")
    /\ UNCHANGED <<active, inbox, fresh, hub, due, nudge, patrol, stopping,
                   faults, storeErrors, seen>>

\* It finds the socket closed.
ReadFails(c) ==
    /\ sock[c].handler = "reading" /\ ~sock[c].open
    /\ Goto(c, "leaving")
    /\ UNCHANGED <<active, inbox, fresh, hub, due, nudge, patrol, stopping,
                   faults, storeErrors, seen>>

\* Variant: everything written to the socket is taken for acknowledged.
AckPushed(c) ==
    /\ sock[c].handler = "acking"
    /\ inbox' = [inbox EXCEPT ![sock[c].device] = @ \ sock[c].pushed]
    /\ sock' = [sock EXCEPT ![c].handler = "reading", ![c].frame = {}]
    /\ UNCHANGED <<active, fresh, hub, due, nudge, patrol, stopping, faults,
                   storeErrors, seen>>

\* store.Ack records it; a delivery row that was swept meanwhile is only logged.
AckFrame(c) ==
    /\ sock[c].handler = "acking"
    /\ inbox' = [inbox EXCEPT ![sock[c].device] = @ \ sock[c].frame]
    /\ sock' = [sock EXCEPT ![c].handler = "reading", ![c].frame = {}]
    /\ UNCHANGED <<active, fresh, hub, due, nudge, patrol, stopping, faults,
                   storeErrors, seen>>

\* store.Ack returns an error: it is logged and the acknowledgement is lost.
\* The message stays owed, the socket stays open, and nobody wakes the writer.
AckFails(c) ==
    /\ sock[c].handler = "acking"
    /\ storeErrors < MaxStoreErrors
    /\ storeErrors' = storeErrors + 1
    /\ sock' = [sock EXCEPT ![c].handler = "reading", ![c].frame = {},
                            ![c].unheard = @ \cup sock[c].frame]
    /\ UNCHANGED <<active, inbox, fresh, hub, due, nudge, patrol, stopping,
                   faults, seen>>

\* Variant: whichever socket is registered for the device is removed.
LeaveEvicting(c) ==
    /\ sock[c].handler = "leaving"
    /\ hub' = [hub EXCEPT ![sock[c].device] = None]
    /\ sock' = [sock EXCEPT ![c].handler = "closing", ![c].cancelled = TRUE]
    /\ UNCHANGED <<active, inbox, fresh, due, nudge, patrol, stopping, faults,
                   storeErrors, seen>>

\* Variant: the hub keeps a nil entry for the device.
LeaveNil(c) ==
    /\ sock[c].handler = "leaving"
    /\ hub' = [hub EXCEPT ![sock[c].device] = IF @ = c THEN "nil" ELSE @]
    /\ sock' = [sock EXCEPT ![c].handler = "closing", ![c].cancelled = TRUE]
    /\ UNCHANGED <<active, inbox, fresh, due, nudge, patrol, stopping, faults,
                   storeErrors, seen>>

\* Variant: the writer's context is not cancelled.
LeaveUncancelled(c) ==
    /\ sock[c].handler = "leaving"
    /\ hub' = [hub EXCEPT ![sock[c].device] = IF @ = c THEN None ELSE @]
    /\ Goto(c, "closing")
    /\ UNCHANGED <<active, inbox, fresh, due, nudge, patrol, stopping, faults,
                   storeErrors, seen>>

\* The deferred teardown: cancel the writer, leave the hub unless a newer socket
\* has taken the place (hub.remove), ...
Leave(c) ==
    /\ sock[c].handler = "leaving"
    /\ hub' = [hub EXCEPT ![sock[c].device] = IF @ = c THEN None ELSE @]
    /\ sock' = [sock EXCEPT ![c].handler = "closing", ![c].cancelled = TRUE]
    /\ UNCHANGED <<active, inbox, fresh, due, nudge, patrol, stopping, faults,
                   storeErrors, seen>>

\* ... and close the socket.
Close(c) ==
    /\ sock[c].handler = "closing"
    /\ sock' = [sock EXCEPT ![c] = Tidy([Shut(@) EXCEPT !.handler = "none"])]
    /\ UNCHANGED <<active, inbox, fresh, hub, due, nudge, patrol, stopping,
                   faults, storeErrors, seen>>

-----------------------------------------------------------------------------
(* writerLoop and drainInbox. *)

\* A wake starts a drain: it is consumed before the inbox is read, never after.
\* A revoked device's socket is closed instead of fed.  (A device that cannot be
\* looked up is treated like a revoked one, here and in ReadFrame; the socket is
\* gone then as by Drop.)
WriterWake(c) ==
    /\ sock[c].writer = "idle" /\ sock[c].wake
    /\ sock' = [sock EXCEPT ![c] =
                  IF sock[c].device \in active
                  THEN [@ EXCEPT !.writer = "fetch", !.wake = FALSE]
                  ELSE [Shut(@) EXCEPT !.wake = FALSE]]
    /\ UNCHANGED <<active, inbox, fresh, hub, due, nudge, patrol, stopping,
                   faults, storeErrors, seen>>

WriterStop(c) ==
    /\ sock[c].writer = "idle" /\ sock[c].cancelled
    /\ sock' = [sock EXCEPT ![c] = Tidy([@ EXCEPT !.writer = "none"])]
    /\ UNCHANGED <<active, inbox, fresh, hub, due, nudge, patrol, stopping,
                   faults, storeErrors, seen>>

DrainFetch(c) ==
    LET unacked == inbox[sock[c].device] IN
    /\ sock[c].writer = "fetch"
    /\ sock' = [sock EXCEPT ![c].writer = IF unacked = {} THEN "idle" ELSE "send",
                            ![c].todo = unacked, ![c].starved = FALSE]
    /\ UNCHANGED <<active, inbox, fresh, hub, due, nudge, patrol, stopping,
                   faults, storeErrors, seen>>

\* store.Inbox returns an error: it is logged, and the drain is over.
FetchFails(c) ==
    /\ sock[c].writer = "fetch"
    /\ storeErrors < MaxStoreErrors
    /\ storeErrors' = storeErrors + 1
    /\ sock' = [sock EXCEPT ![c].writer = "idle", ![c].starved = TRUE]
    /\ UNCHANGED <<active, inbox, fresh, hub, due, nudge, patrol, stopping,
                   faults, seen>>

\* One frame is written.
PushWrite(c, m) ==
    /\ sock[c].writer = "send" /\ m \in sock[c].todo
    /\ sock[c].open /\ ~sock[c].cancelled
    /\ sock' = [sock EXCEPT ![c].todo = @ \ {m},
                            ![c].pushed = @ \cup {m}, ![c].out = @ \cup {m},
                            ![c].unheard = @ \ {m},
                            ![c].writer = IF sock[c].todo = {m} THEN "idle" ELSE "send"]
    /\ UNCHANGED <<active, inbox, fresh, hub, due, nudge, patrol, stopping,
                   faults, storeErrors, seen>>

Sever(c) ==
    sock' = [sock EXCEPT ![c] = [Shut(@) EXCEPT !.writer = "idle", !.todo = {}]]

\* The write fails because the socket is closed or the handler has cancelled ...
WriteFails(c) ==
    /\ sock[c].writer = "send"
    /\ ~sock[c].open \/ sock[c].cancelled
    /\ Sever(c)
    /\ UNCHANGED <<active, inbox, fresh, hub, due, nudge, patrol, stopping,
                   faults, storeErrors, seen>>

\* ... or because the peer takes nothing for writeTimeout.
WriteStalls(c) ==
    /\ sock[c].writer = "send" /\ sock[c].open
    /\ faults < MaxFaults
    /\ faults' = faults + 1
    /\ Sever(c)
    /\ UNCHANGED <<active, inbox, fresh, hub, due, nudge, patrol, stopping,
                   storeErrors, seen>>

-----------------------------------------------------------------------------
(* reconcileRevocations and severRevoked. *)

SeverSnapshot ==
    /\ ~stopping /\ patrol = {}
    /\ patrol' = Registered
    /\ UNCHANGED <<active, inbox, fresh, hub, sock, due, nudge, stopping,
                   faults, storeErrors, seen>>

\* Variant: the socket is taken off the hub and left open.
SeverByForgetting(c) ==
    LET d == sock[c].device IN
    /\ c \in patrol
    /\ patrol' = patrol \ {c}
    /\ hub' = IF d \in active \cup {None} THEN hub ELSE [hub EXCEPT ![d] = None]
    /\ UNCHANGED <<active, inbox, fresh, sock, due, nudge, stopping, faults,
                   storeErrors, seen>>

\* Closing is all it does; the read loop deregisters.
SeverCheck(c) ==
    /\ c \in patrol
    /\ patrol' = patrol \ {c}
    /\ sock' = IF sock[c].device \in active \cup {None} THEN sock
                 ELSE [sock EXCEPT ![c] = Shut(@)]
    /\ UNCHANGED <<active, inbox, fresh, hub, due, nudge, stopping, faults,
                   storeErrors, seen>>

-----------------------------------------------------------------------------
(* The rest of the world: administration, the network, the daemon, and the   *)
(* end of the process.                                                       *)

RevokeDevice(d) ==
    /\ d \in active
    /\ active' = active \ {d}
    /\ UNCHANGED <<inbox, fresh, hub, sock, due, nudge, patrol, stopping,
                   faults, storeErrors, seen>>

Drop(c) ==
    /\ sock[c].open
    /\ faults < MaxFaults
    /\ faults' = faults + 1
    /\ sock' = [sock EXCEPT ![c] = Shut(@)]
    /\ UNCHANGED <<active, inbox, fresh, hub, due, nudge, patrol, stopping,
                   storeErrors, seen>>

\* The daemon reads a message and acknowledges it.
DaemonReads(c, m) ==
    /\ m \in sock[c].out
    /\ sock' = [sock EXCEPT ![c].out = @ \ {m},
                            ![c].in = @ \cup {m}]
    /\ seen' = [seen EXCEPT ![sock[c].device] = @ \cup {m}]
    /\ UNCHANGED <<active, inbox, fresh, hub, due, nudge, patrol, stopping,
                   faults, storeErrors>>

\* Run stops the reconcile loop, closes every registered socket and empties the
\* hub, all under the hub's lock.
CloseAll ==
    /\ ~stopping
    /\ faults < MaxFaults
    /\ faults' = faults + 1
    /\ stopping' = TRUE
    /\ sock' = [c \in Conn |-> IF c \in Registered
                                 THEN Shut(sock[c])
                                 ELSE sock[c]]
    /\ hub' = [d \in Device |-> None]
    /\ UNCHANGED <<active, inbox, fresh, due, nudge, patrol, storeErrors, seen>>

\* The process is gone and a new one has the store: after a stop, or a crash.
Restart ==
    /\ \/ stopping /\ UNCHANGED faults
       \/ ~stopping /\ faults < MaxFaults /\ faults' = faults + 1
    /\ stopping' = FALSE
    /\ hub' = [d \in Device |-> None]
    /\ sock' = [c \in Conn |-> Unused]
    /\ due' = {} /\ nudge' = {} /\ patrol' = {}
    /\ UNCHANGED <<active, inbox, fresh, storeErrors, seen>>

-----------------------------------------------------------------------------

HandlerStep(c) ==
    \/ Add(c) \/ Supersede(c) \/ Start(c)
    \/ \E m \in Message : ReadFrame(c, m)
    \/ ReadFails(c) \/ AckFrame(c) \/ Leave(c) \/ Close(c)

WriterStep(c) ==
    \/ WriterWake(c) \/ WriterStop(c) \/ DrainFetch(c)
    \/ \E m \in Message : PushWrite(c, m)
    \/ WriteFails(c)

Next ==
    \/ \E m \in Message : Ingest(m) \/ NotifySnapshot(m)
    \/ \E c \in Conn : \/ NotifyWake(c) \/ HandlerStep(c) \/ WriterStep(c)
                       \/ AckFails(c) \/ FetchFails(c) \/ WriteStalls(c)
                       \/ Drop(c) \/ SeverCheck(c)
                       \/ \E m \in Message : DaemonReads(c, m)
                       \/ \E d \in Device : Dial(d, c) \/ Redial(d, c)
    \/ SeverSnapshot
    \/ \E d \in Device : RevokeDevice(d)
    \/ CloseAll \/ Restart

Spec == Init /\ [][Next]_vars

\* Goroutines run, a stopping process ends, and the reconcile ticker fires; of
\* the daemon it is assumed that it dials when it has no socket and reads what
\* it is sent.
Fairness ==
    /\ \A c \in Conn : /\ WF_vars(HandlerStep(c))
                       /\ WF_vars(WriterStep(c))
                       /\ WF_vars(NotifyWake(c))
                       /\ WF_vars(SeverCheck(c))
                       /\ WF_vars(\E m \in Message : DaemonReads(c, m))
    /\ WF_vars(\E m \in Message : NotifySnapshot(m))
    /\ WF_vars(SeverSnapshot)
    /\ \A d \in Device : WF_vars(\E c \in Conn : Dial(d, c))
    /\ WF_vars(stopping /\ Restart)

FairSpec == Spec /\ Fairness

-----------------------------------------------------------------------------
(* Correctness. *)

TypeOK ==
    /\ active \subseteq Device
    /\ inbox \in [Device -> SUBSET Message]
    /\ fresh \subseteq Message
    /\ hub \in [Device -> Conn \cup {None}]
    /\ sock \in [Conn -> Socket]
    /\ due \subseteq Message
    /\ nudge \subseteq Conn
    /\ patrol \subseteq Conn
    /\ stopping \in BOOLEAN
    /\ faults \in 0 .. MaxFaults
    /\ storeErrors \in 0 .. MaxStoreErrors
    /\ seen \in [Device -> SUBSET Message]

\* A socket that is being served: both loops run and the peer is there.
Served(c) ==
    /\ sock[c].open
    /\ sock[c].handler \in {"reading", "acking"}

\* The writer of c sleeps and nothing is on its way to wake it.
Asleep(c) == sock[c].writer = "idle" /\ ~sock[c].wake /\ c \notin nudge

\* No wakeup is lost, although nudges are dropped when one is pending and a
\* snapshot of the hub may be old by the time it is used: when the writer of a
\* served socket sleeps with nobody about to wake it, the socket has been
\* given every message its device has not acknowledged.  The exceptions are a
\* message whose sender has not come to Notify, and a drain whose read failed.
NoLostWakeup ==
    \A c \in Conn : Served(c) /\ Asleep(c) /\ ~sock[c].starved =>
        \/ hub[sock[c].device] # c
        \/ inbox[sock[c].device] \subseteq sock[c].pushed \cup due

\* A served socket can be reached through the hub, by Notify and by the
\* revocation patrol; otherwise a newer one has taken its place and is about
\* to close it (hub.add and hub.remove, ws.go:68-96).
NoDeafSocket ==
    \A c \in Conn : Served(c) =>
        \/ hub[sock[c].device] = c
        \/ \E c2 \in Conn : sock[c2].handler = "registered" /\ sock[c2].old = c

\* At least once: a delivery row goes only when the daemon of its own device has
\* read the message, and a daemon reads only what it is owed or has read before,
\* however many sockets hold an old copy of its inbox (ws.go:236-262).
Promise == INSTANCE Delivery WITH owed <- inbox

ImplementsDelivery == Promise!Spec

\* Nothing brings m to the daemon of d before the next nudge or connection: the
\* store failed, and the writer has gone to sleep.  Either the last drain could
\* not read the inbox (ws.go:250-254), or the acknowledgement of m could not be
\* recorded (ws.go:208-210).
LeftWaiting(d, m) ==
    /\ hub[d] # None
    /\ Asleep(hub[d])
    /\ sock[hub[d]].starved \/ m \in sock[hub[d]].unheard

\* A message is delivered at least once and its acknowledgement recorded, for
\* each device that is not revoked, whatever sockets are lost on the way.  The
\* exception is a failure of the store under a socket that stays open: an inbox
\* read or an acknowledgement that failed is tried again only when the next
\* message or connection wakes the writer (LeftWaiting).
EventuallySettled ==
    \A d \in Device, m \in Message :
        m \in inbox[d] ~> m \notin inbox[d] \/ d \notin active \/ LeftWaiting(d, m)

\* A revoked device is cut off for good, also one revoked while its socket was
\* being accepted (ws.go:284-286).
RevokedIsSevered ==
    \A d \in Device :
        d \notin active ~> [](\A c \in Conn : sock[c].device = d => ~sock[c].open)

\* No goroutine outlives its socket: once the socket is closed, the handler
\* and the writer end.
GoroutinesEnd ==
    \A c \in Conn :
        ~sock[c].open ~> sock[c].open \/ (sock[c].handler = "none" /\ sock[c].writer = "none")

=============================================================================
