----------------------------- MODULE PushProofs -----------------------------
(***************************************************************************)
(* Theorems about module Push, for any number of devices, sockets and      *)
(* messages, and however many sockets are lost and store calls fail.       *)
(***************************************************************************)
EXTENDS Push, TLAPS

-----------------------------------------------------------------------------
(* Types. *)

\* A goroutine of a socket knows its device.
HeldInv ==
    \A c \in Conn : sock[c].handler # "none" \/ sock[c].writer # "none"
                      => sock[c].device # None

\* What the helpers of the actions do to a socket.
LEMMA UnusedType == Unused \in Socket
  BY DEF Unused, Socket, Handler, Writer

LEMMA ShutType ==
    ASSUME NEW s \in Socket
    PROVE  /\ Shut(s) \in Socket
           /\ ~Shut(s).open
           /\ Shut(s).device = s.device
           /\ Shut(s).handler = s.handler
           /\ Shut(s).writer = s.writer
           /\ Shut(s).old = s.old
           /\ Shut(s).wake = s.wake
  BY DEF Shut, Socket

LEMMA TidyType ==
    ASSUME NEW s \in Socket
    PROVE  /\ Tidy(s) \in Socket
           /\ Tidy(s).handler = s.handler /\ Tidy(s).writer = s.writer
           /\ s.handler # "none" \/ s.writer # "none" => Tidy(s) = s
           /\ s.open = FALSE => Tidy(s).open = FALSE
  BY UnusedType DEF Tidy, Unused

LEMMA RegisteredType == TypeOK => Registered \subseteq Conn
  BY DEF TypeOK, Registered

LEMMA UnusedParts ==
    /\ Unused.device = None /\ Unused.open = FALSE /\ Unused.old = None
    /\ Unused.handler = "none" /\ Unused.writer = "none"
  BY DEF Unused

LEMMA HandlerTypes ==
    ASSUME TypeOK, HeldInv, NEW c \in Conn,
           HandlerStep(c) \/ AckFails(c)
    PROVE  TypeOK' /\ HeldInv'
<1>0. /\ sock \in [Conn -> Socket] /\ sock[c] \in Socket
      /\ hub \in [Device -> Conn \cup {None}]
      /\ inbox \in [Device -> SUBSET Message]
  BY DEF TypeOK
<1>1. CASE Add(c)
  <2>1. sock[c].device \in Device
    BY <1>0, <1>1 DEF Add, HeldInv, Socket
  <2>2. sock' \in [Conn -> Socket]
    BY <1>0, <1>1, <2>1 DEF Add, Socket, Handler
  <2>3. TypeOK'
    BY <1>1, <2>1, <2>2 DEF Add, TypeOK
  <2>4. HeldInv'
    BY <1>0, <1>1 DEF Add, HeldInv, Socket
  <2>5. QED
    BY <2>3, <2>4
<1>2. CASE Supersede(c)
  <2>1. sock' \in [Conn -> Socket]
    BY <1>0, <1>2, ShutType DEF Supersede, Socket, Handler
  <2>2. TypeOK'
    BY <1>2, <2>1 DEF Supersede, TypeOK
  <2>3. HeldInv'
    BY <1>0, <1>2, ShutType DEF Supersede, HeldInv, Socket
  <2>4. QED
    BY <2>2, <2>3
<1>3. CASE Start(c)
  <2>1. sock' \in [Conn -> Socket]
    BY <1>0, <1>3 DEF Start, Socket, Handler, Writer
  <2>2. TypeOK'
    BY <1>3, <2>1 DEF Start, TypeOK
  <2>3. HeldInv'
    BY <1>0, <1>3 DEF Start, HeldInv, Socket
  <2>4. QED
    BY <2>2, <2>3
<1>4. ASSUME NEW m \in Message, ReadFrame(c, m)
      PROVE  TypeOK' /\ HeldInv'
  <2>1. sock' \in [Conn -> Socket]
    BY <1>0, <1>4 DEF ReadFrame, Goto, Socket, Handler
  <2>2. TypeOK'
    BY <1>4, <2>1 DEF ReadFrame, TypeOK
  <2>3. HeldInv'
    BY <1>0, <1>4 DEF ReadFrame, Goto, HeldInv, Socket
  <2>4. QED
    BY <2>2, <2>3
<1>5. CASE ReadFails(c)
  <2>1. sock' \in [Conn -> Socket]
    BY <1>0, <1>5 DEF ReadFails, Goto, Socket, Handler
  <2>2. TypeOK'
    BY <1>5, <2>1 DEF ReadFails, TypeOK
  <2>3. HeldInv'
    BY <1>0, <1>5 DEF ReadFails, Goto, HeldInv, Socket
  <2>4. QED
    BY <2>2, <2>3
<1>6. CASE AckFrame(c)
  <2>1. sock' \in [Conn -> Socket]
    BY <1>0, <1>6 DEF AckFrame, Socket, Handler
  <2>2. TypeOK'
    BY <1>0, <1>6, <2>1 DEF AckFrame, TypeOK
  <2>3. HeldInv'
    BY <1>0, <1>6 DEF AckFrame, HeldInv, Socket
  <2>4. QED
    BY <2>2, <2>3
<1>7. CASE Leave(c)
  <2>1. sock' \in [Conn -> Socket]
    BY <1>0, <1>7 DEF Leave, Socket, Handler
  <2>2. TypeOK'
    BY <1>0, <1>7, <2>1 DEF Leave, TypeOK
  <2>3. HeldInv'
    BY <1>0, <1>7 DEF Leave, HeldInv, Socket
  <2>4. QED
    BY <2>2, <2>3
<1>8. CASE Close(c)
  <2> DEFINE s == [Shut(sock[c]) EXCEPT !.handler = "none"]
  <2>1. /\ s \in Socket /\ s.device = sock[c].device
        /\ s.handler = "none" /\ s.writer = sock[c].writer
    BY <1>0, ShutType DEF Socket, Handler
  <2>2. sock' = [sock EXCEPT ![c] = Tidy(s)]
    BY <1>8 DEF Close
  <2> HIDE DEF s
  <2>3. sock' \in [Conn -> Socket]
    BY <1>0, <2>1, <2>2, TidyType
  <2>4. TypeOK'
    BY <1>8, <2>3 DEF Close, TypeOK
  <2>5. HeldInv'
    <3>1. /\ Tidy(s).handler = s.handler /\ Tidy(s).writer = s.writer
          /\ s.writer # "none" => Tidy(s) = s
      BY <2>1, TidyType
    <3>2. \A b \in Conn : sock'[b] = IF b = c THEN Tidy(s) ELSE sock[b]
      BY <1>0, <2>2
    <3>3. QED
      BY <2>1, <3>1, <3>2 DEF HeldInv
  <2>6. QED
    BY <2>4, <2>5
<1>9. CASE AckFails(c)
  <2>1. sock' \in [Conn -> Socket]
    BY <1>0, <1>9 DEF AckFails, Socket, Handler
  <2>2. TypeOK'
    BY <1>9, <2>1, BoundAssumption DEF AckFails, TypeOK
  <2>3. HeldInv'
    BY <1>0, <1>9 DEF AckFails, HeldInv, Socket
  <2>4. QED
    BY <2>2, <2>3
<1>10. QED
  BY <1>1, <1>2, <1>3, <1>4, <1>5, <1>6, <1>7, <1>8, <1>9 DEF HandlerStep

LEMMA WriterTypes ==
    ASSUME TypeOK, HeldInv, NEW c \in Conn,
           WriterStep(c) \/ FetchFails(c) \/ WriteStalls(c)
    PROVE  TypeOK' /\ HeldInv'
<1>0. /\ sock \in [Conn -> Socket] /\ sock[c] \in Socket
      /\ inbox \in [Device -> SUBSET Message]
  BY DEF TypeOK
<1>1. CASE WriterWake(c)
  <2>1. sock' \in [Conn -> Socket]
    <3>1. [sock[c] EXCEPT !.writer = "fetch", !.wake = FALSE] \in Socket
      BY <1>0 DEF Socket, Writer
    <3>2. [Shut(sock[c]) EXCEPT !.wake = FALSE] \in Socket
      BY <1>0, ShutType DEF Socket
    <3>3. QED
      BY <1>0, <1>1, <3>1, <3>2 DEF WriterWake
  <2>2. TypeOK'
    BY <1>1, <2>1 DEF WriterWake, TypeOK
  <2>3. HeldInv'
    BY <1>0, <1>1, ShutType DEF WriterWake, HeldInv, Socket
  <2>4. QED
    BY <2>2, <2>3
<1>2. CASE WriterStop(c)
  <2> DEFINE s == [sock[c] EXCEPT !.writer = "none"]
  <2>1. /\ s \in Socket /\ s.device = sock[c].device
        /\ s.handler = sock[c].handler /\ s.writer = "none"
    BY <1>0 DEF Socket, Writer
  <2>2. sock' = [sock EXCEPT ![c] = Tidy(s)]
    BY <1>2 DEF WriterStop
  <2> HIDE DEF s
  <2>3. sock' \in [Conn -> Socket]
    BY <1>0, <2>1, <2>2, TidyType
  <2>4. TypeOK'
    BY <1>2, <2>3 DEF WriterStop, TypeOK
  <2>5. HeldInv'
    <3>1. /\ Tidy(s).handler = s.handler /\ Tidy(s).writer = s.writer
          /\ s.handler # "none" => Tidy(s) = s
      BY <2>1, TidyType
    <3>2. \A b \in Conn : sock'[b] = IF b = c THEN Tidy(s) ELSE sock[b]
      BY <1>0, <2>2
    <3>3. QED
      BY <2>1, <3>1, <3>2 DEF HeldInv
  <2>6. QED
    BY <2>4, <2>5
<1>3. CASE DrainFetch(c)
  <2>1. inbox[sock[c].device] \subseteq Message
    BY <1>0, <1>3 DEF DrainFetch, HeldInv, Socket
  <2>2. sock' \in [Conn -> Socket]
    BY <1>0, <1>3, <2>1 DEF DrainFetch, Socket, Writer
  <2>3. TypeOK'
    BY <1>3, <2>2 DEF DrainFetch, TypeOK
  <2>4. HeldInv'
    BY <1>0, <1>3 DEF DrainFetch, HeldInv, Socket
  <2>5. QED
    BY <2>3, <2>4
<1>4. ASSUME NEW m \in Message, PushWrite(c, m)
      PROVE  TypeOK' /\ HeldInv'
  <2>1. sock' \in [Conn -> Socket]
    <3> DEFINE next == IF sock[c].todo = {m} THEN "idle" ELSE "send"
               s == [sock[c] EXCEPT !.todo = @ \ {m}, !.pushed = @ \cup {m},
                                    !.out = @ \cup {m}, !.unheard = @ \ {m},
                                    !.writer = next]
    <3>1. next \in Writer
      BY DEF Writer
    <3>2. s \in Socket
      BY <1>0, <3>1 DEF Socket
    <3>3. sock' = [sock EXCEPT ![c] = s]
      BY <1>4 DEF PushWrite
    <3> HIDE DEF s
    <3>4. QED
      BY <1>0, <3>2, <3>3
  <2>2. TypeOK'
    BY <1>4, <2>1 DEF PushWrite, TypeOK
  <2>3. HeldInv'
    BY <1>0, <1>4 DEF PushWrite, HeldInv, Socket
  <2>4. QED
    BY <2>2, <2>3
<1>5. CASE FetchFails(c)
  <2>1. sock' \in [Conn -> Socket]
    BY <1>0, <1>5 DEF FetchFails, Socket, Writer
  <2>2. TypeOK'
    BY <1>5, <2>1, BoundAssumption DEF FetchFails, TypeOK
  <2>3. HeldInv'
    BY <1>0, <1>5 DEF FetchFails, HeldInv, Socket
  <2>4. QED
    BY <2>2, <2>3
<1>6. CASE WriteFails(c) \/ WriteStalls(c)
  <2> DEFINE s == Shut(sock[c])
  <2>1. s \in Socket /\ s.device = sock[c].device /\ s.handler = sock[c].handler
    BY <1>0, ShutType
  <2>2. /\ sock' = [sock EXCEPT ![c] = [s EXCEPT !.writer = "idle", !.todo = {}]]
        /\ sock[c].writer = "send"
    BY <1>6 DEF WriteFails, WriteStalls, Sever
  <2> HIDE DEF s
  <2>3. sock' \in [Conn -> Socket]
    BY <1>0, <2>1, <2>2 DEF Socket, Writer
  <2>4. TypeOK'
    BY <1>6, <2>3, BoundAssumption DEF WriteFails, WriteStalls, TypeOK
  <2>5. HeldInv'
    BY <1>0, <2>1, <2>2 DEF HeldInv, Socket
  <2>6. QED
    BY <2>4, <2>5
<1>7. QED
  BY <1>1, <1>2, <1>3, <1>4, <1>5, <1>6 DEF WriterStep

LEMMA WorldTypes ==
    ASSUME TypeOK, HeldInv, NEW c \in Conn,
           \/ NotifyWake(c) \/ Drop(c) \/ SeverCheck(c)
           \/ \E m \in Message : DaemonReads(c, m)
           \/ \E d \in Device : Dial(d, c) \/ Redial(d, c)
    PROVE  TypeOK' /\ HeldInv'
<1>0. sock \in [Conn -> Socket] /\ sock[c] \in Socket
  BY DEF TypeOK
<1>1. CASE NotifyWake(c)
  <2>1. sock' \in [Conn -> Socket]
    BY <1>0, <1>1 DEF NotifyWake, Socket
  <2>2. TypeOK'
    BY <1>1, <2>1 DEF NotifyWake, TypeOK
  <2>3. HeldInv'
    BY <1>0, <1>1 DEF NotifyWake, HeldInv, Socket
  <2>4. QED
    BY <2>2, <2>3
<1>2. CASE Drop(c)
  <2>1. sock' \in [Conn -> Socket]
    BY <1>0, <1>2, ShutType DEF Drop
  <2>2. TypeOK'
    BY <1>2, <2>1, BoundAssumption DEF Drop, TypeOK
  <2>3. HeldInv'
    BY <1>0, <1>2, ShutType DEF Drop, HeldInv
  <2>4. QED
    BY <2>2, <2>3
<1>3. CASE SeverCheck(c)
  <2>1. sock' \in [Conn -> Socket]
    BY <1>0, <1>3, ShutType DEF SeverCheck
  <2>2. TypeOK'
    BY <1>3, <2>1 DEF SeverCheck, TypeOK
  <2>3. HeldInv'
    BY <1>0, <1>3, ShutType DEF SeverCheck, HeldInv
  <2>4. QED
    BY <2>2, <2>3
<1>4. ASSUME NEW m \in Message, DaemonReads(c, m)
      PROVE  TypeOK' /\ HeldInv'
  <2>1. sock' \in [Conn -> Socket]
    BY <1>0, <1>4 DEF DaemonReads, Socket
  <2>2. TypeOK'
    BY <1>4, <2>1 DEF DaemonReads, TypeOK
  <2>3. HeldInv'
    BY <1>0, <1>4 DEF DaemonReads, HeldInv, Socket
  <2>4. QED
    BY <2>2, <2>3
<1>5. ASSUME NEW d \in Device, Dial(d, c) \/ Redial(d, c)
      PROVE  TypeOK' /\ HeldInv'
  <2> DEFINE s == [Unused EXCEPT !.device = d, !.open = TRUE,
                                 !.handler = "accepted"]
  <2>1. s \in Socket /\ s.device = d
    BY UnusedType DEF Socket, Handler
  <2>2. sock' = [sock EXCEPT ![c] = s]
    BY <1>5 DEF Dial, Redial, Accept
  <2> HIDE DEF s
  <2>3. TypeOK'
    <3>1. sock' \in [Conn -> Socket]
      BY <1>0, <2>1, <2>2
    <3>2. faults' \in 0 .. MaxFaults
      BY <1>5, BoundAssumption DEF Dial, Redial, TypeOK
    <3>3. QED
      BY <1>5, <3>1, <3>2 DEF Dial, Redial, Accept, TypeOK
  <2>4. HeldInv'
    BY <1>0, <2>1, <2>2, NoneAssumption DEF HeldInv
  <2>5. QED
    BY <2>3, <2>4
<1>6. QED
  BY <1>1, <1>2, <1>3, <1>4, <1>5

LEMMA NextTypes == TypeOK /\ HeldInv /\ [Next]_vars => TypeOK' /\ HeldInv'
<1> SUFFICES ASSUME TypeOK, HeldInv, [Next]_vars
             PROVE  TypeOK' /\ HeldInv'
  OBVIOUS
<1>0. sock \in [Conn -> Socket]
  BY DEF TypeOK
<1>1. ASSUME NEW m \in Message, Ingest(m) \/ NotifySnapshot(m)
      PROVE  TypeOK' /\ HeldInv'
  <2>1. TypeOK'
    BY <1>1, RegisteredType DEF Ingest, NotifySnapshot, TypeOK
  <2>2. HeldInv'
    BY <1>1 DEF Ingest, NotifySnapshot, HeldInv
  <2>3. QED
    BY <2>1, <2>2
<1>2. CASE SeverSnapshot \/ \E d \in Device : RevokeDevice(d)
  <2>1. TypeOK'
    BY <1>2, RegisteredType DEF SeverSnapshot, RevokeDevice, TypeOK
  <2>2. HeldInv'
    BY <1>2 DEF SeverSnapshot, RevokeDevice, HeldInv
  <2>3. QED
    BY <2>1, <2>2
<1>3. CASE CloseAll
  <2>1. sock' \in [Conn -> Socket]
    BY <1>0, <1>3, ShutType DEF CloseAll
  <2>2. TypeOK'
    BY <1>3, <2>1, BoundAssumption DEF CloseAll, TypeOK
  <2>3. HeldInv'
    BY <1>0, <1>3, ShutType DEF CloseAll, HeldInv
  <2>4. QED
    BY <2>2, <2>3
<1>4. CASE Restart
  <2>1. TypeOK'
    <3>1. sock' \in [Conn -> Socket]
      BY <1>4, UnusedType DEF Restart
    <3>2. faults' \in 0 .. MaxFaults
      BY <1>4, BoundAssumption DEF Restart, TypeOK
    <3>3. QED
      BY <1>4, <3>1, <3>2 DEF Restart, TypeOK
  <2>2. HeldInv'
    BY <1>4, UnusedParts DEF Restart, HeldInv
  <2>3. QED
    BY <2>1, <2>2
<1>5. CASE UNCHANGED vars
  BY <1>5 DEF vars, TypeOK, HeldInv
<1>6. QED
  BY <1>1, <1>2, <1>3, <1>4, <1>5, HandlerTypes, WriterTypes, WorldTypes DEF Next

LEMMA InitTypes == Init => TypeOK /\ HeldInv
<1>1. ASSUME Init
      PROVE  sock \in [Conn -> Socket] /\ HeldInv
  BY <1>1, UnusedType, UnusedParts DEF Init, HeldInv
<1>2. 0 \in 0 .. MaxFaults /\ 0 \in 0 .. MaxStoreErrors
  BY BoundAssumption
<1>3. QED
  BY <1>1, <1>2 DEF Init, TypeOK

LEMMA TypesHold == Spec => [](TypeOK /\ HeldInv)
  BY InitTypes, NextTypes, PTL DEF Spec

\* The hub, the sockets, their goroutines and what is under way on them keep
\* their shape in every interleaving.
THEOREM TypeCorrect == Spec => []TypeOK
  BY TypesHold, PTL

-----------------------------------------------------------------------------
(* The hub. *)

\* A handler between hub.add and hub.remove.
InHub == {"registered", "starting", "reading", "acking", "leaving"}

\* An entry of the hub is a socket of its device whose handler has yet to
\* remove it.
EntryInv ==
    \A d \in Device : hub[d] # None =>
        sock[hub[d]].device = d /\ sock[hub[d]].handler \in InHub

\* NoDeafSocket from the moment a socket is in the hub.
ReachInv ==
    \A c \in Conn : sock[c].open /\ sock[c].handler \in InHub \ {"leaving"} =>
        \/ hub[sock[c].device] = c
        \/ \E c2 \in Conn : sock[c2].handler = "registered" /\ sock[c2].old = c

\* A newcomer does not take the place from itself.
OldInv == \A c \in Conn : sock[c].handler = "registered" => sock[c].old # c

HubInv == EntryInv /\ ReachInv /\ OldInv

\* A step that matters to socket c's place in the hub neither by taking it nor
\* by leaving it.
Calm(c) ==
    \/ sock[c].handler \notin InHub /\ sock'[c].handler \notin InHub
    \/ /\ sock'[c].device = sock[c].device
       /\ sock'[c].old = sock[c].old
       /\ sock'[c].open => sock[c].open
       /\ \/ sock'[c].handler = sock[c].handler
          \/ /\ sock[c].handler \in {"starting", "reading", "acking"}
             /\ sock'[c].handler \in {"starting", "reading", "acking", "leaving"}

LEMMA CalmKeepsHub ==
    ASSUME TypeOK, HubInv, hub' = hub, \A c \in Conn : Calm(c)
    PROVE  HubInv'
<1>1. EntryInv'
  <2> SUFFICES ASSUME NEW d \in Device, hub[d] # None
               PROVE  sock'[hub[d]].device = d /\ sock'[hub[d]].handler \in InHub
    BY DEF EntryInv
  <2>1. hub[d] \in Conn /\ sock[hub[d]].device = d /\ sock[hub[d]].handler \in InHub
    BY DEF TypeOK, HubInv, EntryInv
  <2>2. Calm(hub[d])
    BY <2>1
  <2>3. QED
    BY <2>1, <2>2 DEF Calm, InHub
<1>2. ReachInv'
  <2> SUFFICES ASSUME NEW c \in Conn, sock'[c].open,
                      sock'[c].handler \in InHub \ {"leaving"}
               PROVE  \/ hub[sock'[c].device] = c
                      \/ \E c2 \in Conn : sock'[c2].handler = "registered"
                                          /\ sock'[c2].old = c
    BY DEF ReachInv
  <2>1. /\ sock[c].open /\ sock[c].handler \in InHub \ {"leaving"}
        /\ sock'[c].device = sock[c].device
    BY DEF Calm, InHub
  <2>2. CASE hub[sock[c].device] = c
    BY <2>1, <2>2
  <2>3. ASSUME NEW c2 \in Conn, sock[c2].handler = "registered", sock[c2].old = c
        PROVE  sock'[c2].handler = "registered" /\ sock'[c2].old = c
    <3>1. Calm(c2)
      OBVIOUS
    <3>2. QED
      BY <2>3, <3>1 DEF Calm, InHub
  <2>4. QED
    BY <2>1, <2>2, <2>3 DEF HubInv, ReachInv
<1>3. OldInv'
  BY DEF Calm, InHub, HubInv, OldInv
<1>4. QED
  BY <1>1, <1>2, <1>3 DEF HubInv

\* One socket changes.
LEMMA OneCalm ==
    ASSUME TypeOK, NEW c \in Conn, NEW s, sock' = [sock EXCEPT ![c] = s],
           \/ sock[c].handler \notin InHub /\ s.handler \notin InHub
           \/ /\ s.device = sock[c].device
              /\ s.old = sock[c].old
              /\ s.open => sock[c].open
              /\ \/ s.handler = sock[c].handler
                 \/ /\ sock[c].handler \in {"starting", "reading", "acking"}
                    /\ s.handler \in {"starting", "reading", "acking", "leaving"}
    PROVE  \A b \in Conn : Calm(b)
  BY DEF TypeOK, Calm

LEMMA CalmHandler ==
    ASSUME TypeOK, NEW c \in Conn,
           \/ Start(c) \/ ReadFails(c) \/ AckFrame(c) \/ AckFails(c) \/ Close(c)
           \/ \E m \in Message : ReadFrame(c, m)
    PROVE  hub' = hub /\ \A b \in Conn : Calm(b)
<1>0. sock \in [Conn -> Socket] /\ sock[c] \in Socket
  BY DEF TypeOK
<1>1. CASE Start(c)
  BY <1>0, <1>1 DEF Start, Calm, Socket
<1>2. CASE ReadFails(c)
  BY <1>0, <1>2 DEF ReadFails, Goto, Calm, Socket
<1>3. CASE AckFrame(c) \/ AckFails(c)
  BY <1>0, <1>3 DEF AckFrame, AckFails, Calm, Socket
<1>4. CASE Close(c)
  <2> DEFINE s == [Shut(sock[c]) EXCEPT !.handler = "none"]
  <2>1. s \in Socket /\ s.handler = "none"
    BY <1>0, ShutType DEF Socket, Handler
  <2>2. /\ sock' = [sock EXCEPT ![c] = Tidy(s)]
        /\ hub' = hub /\ sock[c].handler = "closing"
    BY <1>4 DEF Close
  <2> HIDE DEF s
  <2>3. Tidy(s).handler = "none"
    BY <2>1, TidyType
  <2>4. QED
    BY <2>2, <2>3, OneCalm DEF InHub
<1>5. ASSUME NEW m \in Message, ReadFrame(c, m)
      PROVE  hub' = hub /\ \A b \in Conn : Calm(b)
  <2>1. CASE sock[c].device \in active
    <3> DEFINE s == [sock[c] EXCEPT !.handler = "acking", !.frame = {m},
                                    !.in = @ \ {m}]
    <3>1. /\ s.device = sock[c].device /\ s.old = sock[c].old
          /\ s.open = sock[c].open /\ s.handler = "acking"
      BY <1>0 DEF Socket
    <3>2. /\ sock' = [sock EXCEPT ![c] = s] /\ hub' = hub
          /\ sock[c].handler = "reading"
      BY <1>5, <2>1 DEF ReadFrame
    <3> HIDE DEF s
    <3>3. QED
      BY <3>1, <3>2, OneCalm
  <2>2. CASE sock[c].device \notin active
    BY <1>0, <1>5, <2>2 DEF ReadFrame, Goto, Calm, Socket
  <2>3. QED
    BY <2>1, <2>2
<1>6. QED
  BY <1>1, <1>2, <1>3, <1>4, <1>5

LEMMA CalmWriter ==
    ASSUME TypeOK, NEW c \in Conn,
           WriterStep(c) \/ FetchFails(c) \/ WriteStalls(c)
    PROVE  hub' = hub /\ \A b \in Conn : Calm(b)
<1>0. sock \in [Conn -> Socket] /\ sock[c] \in Socket
  BY DEF TypeOK
<1>1. CASE WriterWake(c)
  <2>1. CASE sock[c].device \in active
    BY <1>0, <1>1, <2>1 DEF WriterWake, Calm, Socket
  <2>2. CASE sock[c].device \notin active
    <3> DEFINE s == Shut(sock[c])
    <3>1. /\ s \in Socket /\ ~s.open /\ s.device = sock[c].device
          /\ s.handler = sock[c].handler /\ s.old = sock[c].old
      BY <1>0, ShutType
    <3>2. hub' = hub /\ sock' = [sock EXCEPT ![c] = [s EXCEPT !.wake = FALSE]]
      BY <1>1, <2>2 DEF WriterWake
    <3> HIDE DEF s
    <3>3. QED
      BY <1>0, <3>1, <3>2 DEF Calm, Socket
  <2>3. QED
    BY <2>1, <2>2
<1>2. CASE WriterStop(c)
  <2> DEFINE s == [sock[c] EXCEPT !.writer = "none"]
  <2>1. /\ s \in Socket /\ s.device = sock[c].device /\ s.old = sock[c].old
        /\ s.handler = sock[c].handler /\ s.open = sock[c].open
    BY <1>0 DEF Socket, Writer
  <2>2. hub' = hub /\ sock' = [sock EXCEPT ![c] = Tidy(s)]
    BY <1>2 DEF WriterStop
  <2> HIDE DEF s
  <2>3. /\ Tidy(s).handler = s.handler
        /\ s.handler # "none" => Tidy(s) = s
    BY <2>1, TidyType
  <2>4. CASE sock[c].handler = "none"
    BY <2>1, <2>2, <2>3, <2>4, OneCalm DEF InHub
  <2>5. CASE sock[c].handler # "none"
    <3>1. sock' = [sock EXCEPT ![c] = s]
      BY <2>1, <2>2, <2>3, <2>5
    <3>2. QED
      BY <2>1, <2>2, <3>1, OneCalm
  <2>6. QED
    BY <2>4, <2>5
<1>3. CASE DrainFetch(c)
  BY <1>0, <1>3 DEF DrainFetch, Calm, Socket
<1>4. ASSUME NEW m \in Message, PushWrite(c, m)
      PROVE  hub' = hub /\ \A b \in Conn : Calm(b)
  BY <1>0, <1>4 DEF PushWrite, Calm, Socket
<1>5. CASE FetchFails(c)
  BY <1>0, <1>5 DEF FetchFails, Calm, Socket
<1>6. CASE WriteFails(c) \/ WriteStalls(c)
  <2> DEFINE s == Shut(sock[c])
  <2>1. /\ s \in Socket /\ ~s.open /\ s.device = sock[c].device
        /\ s.handler = sock[c].handler /\ s.old = sock[c].old
    BY <1>0, ShutType
  <2>2. /\ sock' = [sock EXCEPT ![c] = [s EXCEPT !.writer = "idle", !.todo = {}]]
        /\ hub' = hub
    BY <1>6 DEF WriteFails, WriteStalls, Sever
  <2> HIDE DEF s
  <2>3. QED
    BY <1>0, <2>1, <2>2 DEF Calm, Socket
<1>7. QED
  BY <1>1, <1>2, <1>3, <1>4, <1>5, <1>6 DEF WriterStep

LEMMA CalmWorld ==
    ASSUME TypeOK, HeldInv, NEW c \in Conn,
           \/ NotifyWake(c) \/ Drop(c) \/ SeverCheck(c)
           \/ \E m \in Message : DaemonReads(c, m)
           \/ \E d \in Device : Dial(d, c) \/ Redial(d, c)
    PROVE  hub' = hub /\ \A b \in Conn : Calm(b)
<1>0. sock \in [Conn -> Socket] /\ sock[c] \in Socket
  BY DEF TypeOK
<1>1. CASE NotifyWake(c)
  BY <1>0, <1>1 DEF NotifyWake, Calm, Socket
<1>2. CASE Drop(c)
  BY <1>0, <1>2, ShutType DEF Drop, Calm
<1>3. CASE SeverCheck(c)
  BY <1>0, <1>3, ShutType DEF SeverCheck, Calm
<1>4. ASSUME NEW m \in Message, DaemonReads(c, m)
      PROVE  hub' = hub /\ \A b \in Conn : Calm(b)
  BY <1>0, <1>4 DEF DaemonReads, Calm, Socket
<1>5. ASSUME NEW d \in Device, Dial(d, c) \/ Redial(d, c)
      PROVE  hub' = hub /\ \A b \in Conn : Calm(b)
  <2> DEFINE s == [Unused EXCEPT !.device = d, !.open = TRUE,
                                 !.handler = "accepted"]
  <2>1. s.handler = "accepted"
    BY UnusedType DEF Socket
  <2>2. sock' = [sock EXCEPT ![c] = s] /\ hub' = hub /\ sock[c].device = None
    BY <1>5 DEF Dial, Redial, Accept, Free
  <2> HIDE DEF s
  <2>3. sock[c].handler = "none"
    BY <2>2 DEF HeldInv
  <2>4. QED
    BY <2>1, <2>2, <2>3, OneCalm DEF InHub
<1>6. QED
  BY <1>1, <1>2, <1>3, <1>4, <1>5

\* Taking a place, closing the socket it was taken from, and giving it up.
LEMMA AddKeepsHub ==
    ASSUME TypeOK, HeldInv, HubInv, NEW c \in Conn, Add(c)
    PROVE  HubInv'
<1>1. PICK d \in Device : d = sock[c].device
  BY DEF Add, TypeOK, HeldInv, Socket
<1>2. /\ hub' = [hub EXCEPT ![d] = c] /\ hub \in [Device -> Conn \cup {None}]
      /\ sock[c].handler = "accepted"
  BY <1>1 DEF Add, TypeOK
<1>3. /\ sock'[c].handler = "registered" /\ sock'[c].old = hub[d]
      /\ sock'[c].device = d
      /\ \A b \in Conn : b # c => sock'[b] = sock[b]
  BY <1>1 DEF Add, TypeOK, Socket
<1>4. EntryInv'
  <2> SUFFICES ASSUME NEW e \in Device, hub'[e] # None
               PROVE  /\ sock'[hub'[e]].device = e
                      /\ sock'[hub'[e]].handler \in InHub
    BY DEF EntryInv
  <2>1. CASE e = d
    BY <1>2, <1>3, <2>1 DEF InHub
  <2>2. CASE e # d
    <3>1. /\ hub'[e] = hub[e] /\ hub[e] \in Conn
          /\ sock[hub[e]].device = e /\ sock[hub[e]].handler \in InHub
      BY <1>2, <2>2 DEF HubInv, EntryInv
    <3>2. hub[e] # c
      BY <1>2, <3>1 DEF InHub
    <3>3. QED
      BY <1>3, <3>1, <3>2
  <2>3. QED
    BY <2>1, <2>2
<1>5. ReachInv'
  <2> SUFFICES ASSUME NEW b \in Conn, sock'[b].open,
                      sock'[b].handler \in InHub \ {"leaving"}
               PROVE  \/ hub'[sock'[b].device] = b
                      \/ \E c2 \in Conn : sock'[c2].handler = "registered"
                                          /\ sock'[c2].old = b
    BY DEF ReachInv
  <2>1. CASE b = c
    BY <1>2, <1>3, <2>1
  <2>2. CASE b # c
    <3>1. \/ hub[sock[b].device] = b
          \/ \E c2 \in Conn : sock[c2].handler = "registered" /\ sock[c2].old = b
      BY <1>3, <2>2 DEF HubInv, ReachInv
    <3>2. ASSUME NEW c2 \in Conn, sock[c2].handler = "registered", sock[c2].old = b
          PROVE  sock'[c2].handler = "registered" /\ sock'[c2].old = b
      BY <1>2, <1>3, <3>2
    <3>3. CASE hub[sock[b].device] = b /\ sock[b].device = d
      BY <1>3, <3>3
    <3>4. CASE hub[sock[b].device] = b /\ sock[b].device # d
      BY <1>2, <1>3, <2>2, <3>4
    <3>5. QED
      BY <3>1, <3>2, <3>3, <3>4
  <2>3. QED
    BY <2>1, <2>2
<1>6. OldInv'
  <2>1. hub[d] # c
    BY <1>2, NoneAssumption DEF HubInv, EntryInv, InHub
  <2>2. QED
    BY <1>3, <2>1 DEF HubInv, OldInv
<1>7. QED
  BY <1>4, <1>5, <1>6 DEF HubInv

LEMMA SupersedeKeepsHub ==
    ASSUME TypeOK, HubInv, NEW c \in Conn, Supersede(c)
    PROVE  HubInv'
<1>1. hub' = hub /\ sock[c].handler = "registered" /\ hub \in [Device -> Conn \cup {None}]
  BY DEF Supersede, TypeOK
<1>2. \A b \in Conn : b # c =>
         /\ sock'[b].device = sock[b].device /\ sock'[b].handler = sock[b].handler
         /\ sock'[b].old = sock[b].old
         /\ sock'[b].open => sock[b].open /\ b # sock[c].old
  BY ShutType DEF Supersede, TypeOK
<1>3. /\ sock'[c].device = sock[c].device /\ sock'[c].handler = "starting"
      /\ sock'[c].open = sock[c].open
  BY DEF Supersede, TypeOK, Socket
<1>4. EntryInv'
  <2> SUFFICES ASSUME NEW d \in Device, hub[d] # None
               PROVE  sock'[hub[d]].device = d /\ sock'[hub[d]].handler \in InHub
    BY <1>1 DEF EntryInv
  <2>1. hub[d] \in Conn /\ sock[hub[d]].device = d /\ sock[hub[d]].handler \in InHub
    BY <1>1 DEF HubInv, EntryInv
  <2>2. QED
    BY <1>2, <1>3, <2>1 DEF InHub
<1>5. ReachInv'
  <2> SUFFICES ASSUME NEW b \in Conn, sock'[b].open,
                      sock'[b].handler \in InHub \ {"leaving"}
               PROVE  \/ hub[sock'[b].device] = b
                      \/ \E c2 \in Conn : sock'[c2].handler = "registered"
                                          /\ sock'[c2].old = b
    BY <1>1 DEF ReachInv
  <2>1. /\ sock[b].open /\ sock[b].handler \in InHub \ {"leaving"}
        /\ sock'[b].device = sock[b].device
        /\ b # c => b # sock[c].old
    BY <1>1, <1>2, <1>3 DEF InHub
  <2>2. \/ hub[sock[b].device] = b
        \/ \E c2 \in Conn : sock[c2].handler = "registered" /\ sock[c2].old = b
    BY <2>1 DEF HubInv, ReachInv
  <2>3. ASSUME NEW c2 \in Conn, sock[c2].handler = "registered",
               sock[c2].old = b, c2 # c
        PROVE  sock'[c2].handler = "registered" /\ sock'[c2].old = b
    BY <1>2, <2>3
  <2>4. CASE b # c
    BY <2>1, <2>2, <2>3, <2>4
  <2>5. CASE b = c
    <3>1. sock[c].old # c
      BY <1>1 DEF HubInv, OldInv
    <3>2. QED
      BY <2>1, <2>2, <2>3, <2>5, <3>1
  <2>6. QED
    BY <2>4, <2>5
<1>6. OldInv'
  BY <1>2, <1>3 DEF HubInv, OldInv
<1>7. QED
  BY <1>4, <1>5, <1>6 DEF HubInv

LEMMA LeaveKeepsHub ==
    ASSUME TypeOK, HubInv, NEW c \in Conn, Leave(c)
    PROVE  HubInv'
<1>1. /\ hub' = [hub EXCEPT ![sock[c].device] = IF @ = c THEN None ELSE @]
      /\ sock[c].handler = "leaving" /\ hub \in [Device -> Conn \cup {None}]
  BY DEF Leave, TypeOK
<1>2. \A b \in Conn : b # c => sock'[b] = sock[b]
  BY DEF Leave, TypeOK
<1>3. sock'[c].handler = "closing"
  BY DEF Leave, TypeOK, Socket
<1>4. EntryInv'
  <2> SUFFICES ASSUME NEW d \in Device, hub'[d] # None
               PROVE  sock'[hub'[d]].device = d /\ sock'[hub'[d]].handler \in InHub
    BY DEF EntryInv
  <2>1. hub'[d] = hub[d] /\ hub[d] \in Conn
    BY <1>1
  <2>2. sock[hub[d]].device = d /\ sock[hub[d]].handler \in InHub
    BY <2>1 DEF HubInv, EntryInv
  <2>3. hub[d] # c
    BY <1>1, <2>1, <2>2, NoneAssumption
  <2>4. QED
    BY <1>2, <2>1, <2>2, <2>3
<1>5. ReachInv'
  <2> SUFFICES ASSUME NEW b \in Conn, sock'[b].open,
                      sock'[b].handler \in InHub \ {"leaving"}
               PROVE  \/ hub'[sock'[b].device] = b
                      \/ \E c2 \in Conn : sock'[c2].handler = "registered"
                                          /\ sock'[c2].old = b
    BY DEF ReachInv
  <2>1. b # c /\ sock'[b] = sock[b]
    BY <1>2, <1>3 DEF InHub
  <2>2. \/ hub[sock[b].device] = b
        \/ \E c2 \in Conn : sock[c2].handler = "registered" /\ sock[c2].old = b
    BY <2>1 DEF HubInv, ReachInv
  <2>3. CASE hub[sock[b].device] = b
    BY <1>1, <2>1, <2>3
  <2>4. ASSUME NEW c2 \in Conn, sock[c2].handler = "registered", sock[c2].old = b
        PROVE  sock'[c2].handler = "registered" /\ sock'[c2].old = b
    BY <1>1, <1>2, <2>4
  <2>5. QED
    BY <2>2, <2>3, <2>4
<1>6. OldInv'
  BY <1>2, <1>3 DEF HubInv, OldInv
<1>7. QED
  BY <1>4, <1>5, <1>6 DEF HubInv

LEMMA NextHub == TypeOK /\ HeldInv /\ HubInv /\ [Next]_vars => HubInv'
<1> SUFFICES ASSUME TypeOK, HeldInv, HubInv, [Next]_vars
             PROVE  HubInv'
  OBVIOUS
<1>1. CASE UNCHANGED <<hub, sock>>
  BY <1>1 DEF HubInv, EntryInv, ReachInv, OldInv
<1>2. CASE CloseAll
  <2>1. EntryInv'
    BY <1>2 DEF CloseAll, EntryInv
  <2>2. ReachInv'
    <3> SUFFICES ASSUME NEW b \in Conn, sock'[b].open,
                        sock'[b].handler \in InHub \ {"leaving"}
                 PROVE  \E c2 \in Conn : sock'[c2].handler = "registered"
                                         /\ sock'[c2].old = b
      BY DEF ReachInv
    <3>1. \A x \in Conn :
             /\ sock'[x].device = sock[x].device
             /\ sock'[x].handler = sock[x].handler
             /\ sock'[x].old = sock[x].old
             /\ sock'[x].open => sock[x].open /\ x \notin Registered
      BY <1>2, ShutType DEF CloseAll, TypeOK
    <3>2. /\ sock[b].open /\ sock[b].handler \in InHub \ {"leaving"}
          /\ b \notin Registered
      BY <3>1
    <3>3. sock[b].device \in Device
      BY <3>2 DEF HeldInv, TypeOK, Socket, InHub
    <3>4. hub[sock[b].device] # b
      BY <3>2, <3>3, NoneAssumption DEF Registered
    <3>5. PICK c2 \in Conn : sock[c2].handler = "registered" /\ sock[c2].old = b
      BY <3>2, <3>4 DEF HubInv, ReachInv
    <3>6. QED
      BY <3>1, <3>5
  <2>3. OldInv'
    BY <1>2, ShutType DEF CloseAll, TypeOK, HubInv, OldInv
  <2>4. QED
    BY <2>1, <2>2, <2>3 DEF HubInv
<1>3. CASE Restart
  BY <1>3, UnusedParts DEF Restart, HubInv, EntryInv, ReachInv, OldInv, InHub
<1>4. ASSUME NEW c \in Conn, HandlerStep(c) \/ AckFails(c)
      PROVE  HubInv'
  BY <1>4, AddKeepsHub, SupersedeKeepsHub, LeaveKeepsHub, CalmHandler,
     CalmKeepsHub DEF HandlerStep
<1>5. ASSUME NEW c \in Conn,
             \/ WriterStep(c) \/ FetchFails(c) \/ WriteStalls(c)
             \/ NotifyWake(c) \/ Drop(c) \/ SeverCheck(c)
             \/ \E m \in Message : DaemonReads(c, m)
             \/ \E d \in Device : Dial(d, c) \/ Redial(d, c)
      PROVE  HubInv'
  BY <1>5, CalmWriter, CalmWorld, CalmKeepsHub
<1>6. QED
  BY <1>1, <1>2, <1>3, <1>4, <1>5
     DEF Next, vars, Ingest, NotifySnapshot, SeverSnapshot, RevokeDevice

LEMMA InitHub == Init => HubInv
  BY UnusedParts DEF Init, HubInv, EntryInv, ReachInv, OldInv, InHub

LEMMA HubHolds == Spec => []HubInv
  BY InitHub, NextHub, TypesHold, PTL DEF Spec

\* Senders and the revocation patrol reach a served socket through the hub, or
\* a newer socket of its device is about to close it, however handlers that
\* come, are superseded and go interleave.
THEOREM NoDeafSocketCorrect == Spec => []NoDeafSocket
<1>1. HubInv => NoDeafSocket
  BY DEF HubInv, ReachInv, InHub, NoDeafSocket, Served
<1>2. QED
  BY <1>1, HubHolds, PTL

-----------------------------------------------------------------------------
(* Wakeups. *)

\* The debt of a served socket nobody is about to wake: what its device has not
\* acknowledged was written to it, or is in the batch the writer is in the
\* middle of, or has a sender that has still to come to Notify.
Awaited(c) ==
    /\ Served(c) /\ hub[sock[c].device] = c
    /\ ~sock[c].wake /\ c \notin nudge

Fed(c) ==
    Awaited(c) =>
        /\ sock[c].writer = "idle" /\ ~sock[c].starved
             => inbox[sock[c].device] \subseteq sock[c].pushed \cup due
        /\ sock[c].writer = "send"
             => inbox[sock[c].device] \subseteq sock[c].pushed \cup sock[c].todo \cup due

WakeInv == \A c \in Conn : Fed(c)

\* What is not being served owes nothing.
LEMMA UnservedFed ==
    ASSUME NEW c \in Conn, ~Served(c)'
    PROVE  Fed(c)'
  BY DEF Fed, Awaited

\* A debt does not grow with a step that neither adds to the inbox nor settles
\* a sender, and leaves the writer of the socket and its slot alone.
LEMMA FedStays ==
    ASSUME NEW c \in Conn, Fed(c),
           Served(c)' => Served(c),
           sock'[c].device = sock[c].device,
           hub'[sock[c].device] = c => hub[sock[c].device] = c,
           sock[c].wake => sock'[c].wake,
           c \in nudge => c \in nudge' \/ sock'[c].wake,
           sock'[c].writer = sock[c].writer,
           sock'[c].starved = sock[c].starved,
           sock'[c].pushed = sock[c].pushed \/ ~sock'[c].open,
           sock'[c].todo = sock[c].todo,
           inbox'[sock[c].device] \subseteq inbox[sock[c].device],
           due \subseteq due'
    PROVE  Fed(c)'
<1> SUFFICES ASSUME Awaited(c)'
             PROVE  /\ sock'[c].writer = "idle" /\ ~sock'[c].starved
                         => inbox'[sock'[c].device] \subseteq sock'[c].pushed \cup due'
                    /\ sock'[c].writer = "send"
                         => inbox'[sock'[c].device]
                              \subseteq sock'[c].pushed \cup sock'[c].todo \cup due'
  BY DEF Fed
<1>1. Awaited(c) /\ sock'[c].pushed = sock[c].pushed
  BY DEF Awaited, Served
<1>2. QED
  BY <1>1 DEF Fed

\* The sockets a step does not touch.
LEMMA OthersFed ==
    ASSUME TypeOK, WakeInv, NEW c \in Conn,
           \A b \in Conn : b # c => sock'[b] = sock[b],
           \A d \in Device, b \in Conn : b # c /\ hub'[d] = b => hub[d] = b,
           HeldInv,
           nudge \subseteq nudge' \cup {c},
           \A d \in Device : inbox'[d] \subseteq inbox[d],
           due \subseteq due'
    PROVE  \A b \in Conn : b # c => Fed(b)'
<1> SUFFICES ASSUME NEW b \in Conn, b # c
             PROVE  Fed(b)'
  OBVIOUS
<1>1. sock'[b] = sock[b] /\ Fed(b)
  BY DEF WakeInv
<1>2. CASE ~Served(b)
  BY <1>1, <1>2, UnservedFed DEF Served
<1>3. CASE Served(b)
  <2>1. sock[b].device \in Device
    BY <1>3 DEF Served, HeldInv, TypeOK, Socket
  <2>2. Served(b)' => Served(b)
    BY <1>3
  <2>3. QED
    BY <1>1, <2>1, <2>2, FedStays
<1>4. QED
  BY <1>2, <1>3

LEMMA HandlerFed ==
    ASSUME TypeOK, HeldInv, WakeInv, NEW c \in Conn,
           HandlerStep(c) \/ AckFails(c)
    PROVE  WakeInv'
<1>0. /\ sock \in [Conn -> Socket] /\ sock[c] \in Socket
      /\ hub \in [Device -> Conn \cup {None}]
      /\ inbox \in [Device -> SUBSET Message]
      /\ Fed(c)
  BY DEF TypeOK, WakeInv
<1>1. CASE Add(c)
  <2>1. /\ ~Served(c)' /\ \A b \in Conn : b # c => sock'[b] = sock[b]
        /\ hub' = [hub EXCEPT ![sock[c].device] = c]
        /\ UNCHANGED <<nudge, inbox, due>>
    BY <1>0, <1>1 DEF Add, Served, Socket
  <2>2. \A d \in Device, b \in Conn : b # c /\ hub'[d] = b => hub[d] = b
    BY <1>0, <2>1
  <2>3. QED
    BY <2>1, <2>2, OthersFed, UnservedFed DEF WakeInv
<1>2. CASE Supersede(c)
  <2>1. sock'[c].handler = "starting" /\ UNCHANGED <<hub, nudge, inbox, due>>
    BY <1>0, <1>2 DEF Supersede, Socket
  <2>2. \A b \in Conn : b # c => \/ sock'[b] = sock[b]
                                 \/ ~sock'[b].open
    BY <1>0, <1>2, ShutType DEF Supersede
  <2>3. \A b \in Conn : sock'[b] = sock[b] => Fed(b)'
    BY <2>1 DEF WakeInv, Fed, Awaited, Served
  <2>4. QED
    BY <2>1, <2>2, <2>3, UnservedFed DEF WakeInv, Served
<1>3. CASE Start(c)
  <2>1. /\ sock'[c].wake /\ \A b \in Conn : b # c => sock'[b] = sock[b]
        /\ UNCHANGED <<hub, nudge, inbox, due>>
    BY <1>0, <1>3 DEF Start, Socket
  <2>2. Fed(c)'
    BY <2>1 DEF Fed, Awaited
  <2>3. QED
    BY <2>1, <2>2, OthersFed DEF WakeInv
<1>4. ASSUME NEW m \in Message, ReadFrame(c, m)
      PROVE  WakeInv'
  <2>1. /\ \A b \in Conn : b # c => sock'[b] = sock[b]
        /\ UNCHANGED <<hub, nudge, inbox, due>>
        /\ sock[c].handler = "reading"
    BY <1>0, <1>4 DEF ReadFrame, Goto
  <2>2. CASE sock[c].device \in active
    <3> DEFINE s == [sock[c] EXCEPT !.handler = "acking", !.frame = {m},
                                    !.in = @ \ {m}]
    <3>1. /\ s.device = sock[c].device /\ s.open = sock[c].open
          /\ s.wake = sock[c].wake /\ s.writer = sock[c].writer
          /\ s.starved = sock[c].starved /\ s.pushed = sock[c].pushed
          /\ s.todo = sock[c].todo
      BY <1>0 DEF Socket
    <3>2. sock' = [sock EXCEPT ![c] = s]
      BY <1>4, <2>2 DEF ReadFrame
    <3> HIDE DEF s
    <3>3. sock'[c] = s
      BY <1>0, <3>2
    <3>4. Served(c)' => Served(c)
      BY <2>1, <3>1, <3>3 DEF Served
    <3>5. Fed(c)'
      BY <1>0, <2>1, <3>1, <3>3, <3>4, FedStays
    <3>6. QED
      BY <2>1, <3>5, OthersFed DEF WakeInv
  <2>3. CASE sock[c].device \notin active
    <3>1. ~Served(c)'
      BY <1>0, <1>4, <2>3 DEF ReadFrame, Goto, Served, Socket
    <3>2. QED
      BY <2>1, <3>1, OthersFed, UnservedFed DEF WakeInv
  <2>4. QED
    BY <2>2, <2>3
<1>5. CASE ReadFails(c) \/ Leave(c) \/ Close(c)
  <2>1. ~Served(c)'
    <3>1. CASE ReadFails(c)
      BY <1>0, <3>1 DEF ReadFails, Goto, Served, Socket
    <3>2. CASE Leave(c)
      BY <1>0, <3>2 DEF Leave, Served, Socket
    <3>3. CASE Close(c)
      <4> DEFINE s == [Shut(sock[c]) EXCEPT !.handler = "none"]
      <4>1. s \in Socket /\ s.handler = "none"
        BY <1>0, ShutType DEF Socket, Handler
      <4>2. sock' = [sock EXCEPT ![c] = Tidy(s)]
        BY <3>3 DEF Close
      <4> HIDE DEF s
      <4>3. sock'[c].handler = "none"
        BY <1>0, <4>1, <4>2, TidyType
      <4>4. QED
        BY <4>3 DEF Served
    <3>4. QED
      BY <1>5, <3>1, <3>2, <3>3
  <2>2. /\ \A b \in Conn : b # c => sock'[b] = sock[b]
        /\ UNCHANGED <<nudge, inbox, due>>
    BY <1>0, <1>5 DEF ReadFails, Leave, Close, Goto
  <2>3. \A d \in Device, b \in Conn : b # c /\ hub'[d] = b => hub[d] = b
    BY <1>0, <1>5, NoneAssumption DEF ReadFails, Leave, Close
  <2>4. QED
    BY <2>1, <2>2, <2>3, OthersFed, UnservedFed DEF WakeInv
<1>6. CASE AckFrame(c)
  <2> DEFINE s == [sock[c] EXCEPT !.handler = "reading", !.frame = {}]
  <2>1. /\ s.device = sock[c].device /\ s.open = sock[c].open
        /\ s.wake = sock[c].wake /\ s.writer = sock[c].writer
        /\ s.starved = sock[c].starved /\ s.pushed = sock[c].pushed
        /\ s.todo = sock[c].todo
    BY <1>0 DEF Socket
  <2>2. /\ sock' = [sock EXCEPT ![c] = s] /\ sock[c].handler = "acking"
        /\ inbox' = [inbox EXCEPT ![sock[c].device] = @ \ sock[c].frame]
        /\ UNCHANGED <<hub, nudge, due>>
    BY <1>6 DEF AckFrame
  <2> HIDE DEF s
  <2>3. /\ sock'[c] = s /\ sock[c].device \in Device
        /\ \A d \in Device : inbox'[d] \subseteq inbox[d]
        /\ \A b \in Conn : b # c => sock'[b] = sock[b]
    BY <1>0, <2>2 DEF HeldInv, Socket
  <2>4. Served(c)' => Served(c)
    BY <2>1, <2>2, <2>3 DEF Served
  <2>5. Fed(c)'
    BY <1>0, <2>1, <2>2, <2>3, <2>4, FedStays
  <2>6. QED
    BY <2>2, <2>3, <2>5, OthersFed DEF WakeInv
<1>7. CASE AckFails(c)
  <2>1. /\ sock'[c].device = sock[c].device /\ sock'[c].open = sock[c].open
        /\ sock'[c].wake = sock[c].wake /\ sock'[c].writer = sock[c].writer
        /\ sock'[c].starved = sock[c].starved /\ sock'[c].pushed = sock[c].pushed
        /\ sock'[c].todo = sock[c].todo /\ sock[c].handler = "acking"
    BY <1>0, <1>7 DEF AckFails, Socket
  <2>2. /\ UNCHANGED <<hub, nudge, inbox, due>>
        /\ \A b \in Conn : b # c => sock'[b] = sock[b]
    BY <1>0, <1>7 DEF AckFails
  <2>3. Served(c)' => Served(c)
    BY <2>1 DEF Served
  <2>4. Fed(c)'
    BY <1>0, <2>1, <2>2, <2>3, FedStays
  <2>5. QED
    BY <2>2, <2>4, OthersFed DEF WakeInv
<1>8. QED
  BY <1>1, <1>2, <1>3, <1>4, <1>5, <1>6, <1>7 DEF HandlerStep

\* A wake is spent before the inbox is read; what is read is written; a writer
\* that stops or fails has lost its socket.
LEMMA WriterFed ==
    ASSUME TypeOK, HeldInv, WakeInv, NEW c \in Conn,
           WriterStep(c) \/ FetchFails(c) \/ WriteStalls(c)
    PROVE  WakeInv'
<1>0. /\ sock \in [Conn -> Socket] /\ sock[c] \in Socket
      /\ inbox \in [Device -> SUBSET Message]
      /\ Fed(c)
  BY DEF TypeOK, WakeInv
<1>1. /\ \A b \in Conn : b # c => sock'[b] = sock[b]
      /\ UNCHANGED <<hub, nudge, inbox, due>>
  <2>1. CASE WriterWake(c) \/ WriterStop(c) \/ DrainFetch(c)
    BY <1>0, <2>1 DEF WriterWake, WriterStop, DrainFetch
  <2>2. CASE FetchFails(c) \/ \E m \in Message : PushWrite(c, m)
    BY <1>0, <2>2 DEF FetchFails, PushWrite
  <2>3. CASE WriteFails(c) \/ WriteStalls(c)
    BY <1>0, <2>3 DEF WriteFails, WriteStalls, Sever
  <2>4. QED
    BY <2>1, <2>2, <2>3 DEF WriterStep
<1>2. SUFFICES Fed(c)'
  BY <1>1, OthersFed DEF WakeInv
<1>3. CASE WriterWake(c)
  <2>1. CASE sock[c].device \in active
    <3>1. sock'[c].writer = "fetch"
      BY <1>0, <1>3, <2>1 DEF WriterWake, Socket
    <3>2. QED
      BY <3>1 DEF Fed
  <2>2. CASE sock[c].device \notin active
    <3> DEFINE s == Shut(sock[c])
    <3>1. s \in Socket /\ ~s.open
      BY <1>0, ShutType
    <3>2. sock' = [sock EXCEPT ![c] = [s EXCEPT !.wake = FALSE]]
      BY <1>3, <2>2 DEF WriterWake
    <3> HIDE DEF s
    <3>3. ~Served(c)'
      BY <1>0, <3>1, <3>2 DEF Served, Socket
    <3>4. QED
      BY <3>3, UnservedFed
  <2>3. QED
    BY <2>1, <2>2
<1>4. CASE WriterStop(c)
  <2> DEFINE s == [sock[c] EXCEPT !.writer = "none"]
  <2>1. s \in Socket /\ s.writer = "none"
    BY <1>0 DEF Socket, Writer
  <2>2. sock' = [sock EXCEPT ![c] = Tidy(s)]
    BY <1>4 DEF WriterStop
  <2> HIDE DEF s
  <2>3. sock'[c].writer = "none"
    BY <1>0, <2>1, <2>2, TidyType
  <2>4. QED
    BY <2>3 DEF Fed
<1>5. CASE DrainFetch(c)
  <2>1. /\ sock'[c].todo = inbox[sock[c].device]
        /\ sock'[c].device = sock[c].device
        /\ sock'[c].writer = IF inbox[sock[c].device] = {} THEN "idle" ELSE "send"
    BY <1>0, <1>5 DEF DrainFetch, Socket
  <2>2. QED
    BY <1>1, <2>1 DEF Fed
<1>6. ASSUME NEW m \in Message, PushWrite(c, m)
      PROVE  Fed(c)'
  <2> DEFINE next == IF sock[c].todo = {m} THEN "idle" ELSE "send"
             s == [sock[c] EXCEPT !.todo = @ \ {m}, !.pushed = @ \cup {m},
                                  !.out = @ \cup {m}, !.unheard = @ \ {m},
                                  !.writer = next]
  <2>1. /\ s.todo = sock[c].todo \ {m} /\ s.pushed = sock[c].pushed \cup {m}
        /\ s.device = sock[c].device /\ s.wake = sock[c].wake
        /\ s.open = sock[c].open /\ s.handler = sock[c].handler
        /\ s.writer = next
    BY <1>0 DEF Socket
  <2>2. sock' = [sock EXCEPT ![c] = s] /\ sock[c].writer = "send"
    BY <1>6 DEF PushWrite
  <2> HIDE DEF s
  <2>3. sock'[c] = s
    BY <1>0, <2>2
  <2> SUFFICES ASSUME Awaited(c)'
               PROVE  /\ s.writer = "idle"
                           => inbox[s.device] \subseteq s.pushed \cup due
                      /\ s.writer = "send"
                           => inbox[s.device] \subseteq s.pushed \cup s.todo \cup due
    BY <1>1, <2>3 DEF Fed
  <2>4. Awaited(c)
    BY <1>1, <2>1, <2>3 DEF Awaited, Served
  <2>5. inbox[sock[c].device] \subseteq sock[c].pushed \cup sock[c].todo \cup due
    BY <1>0, <2>2, <2>4 DEF Fed
  <2>6. QED
    BY <2>1, <2>5
<1>7. CASE FetchFails(c)
  <2>1. sock'[c].writer = "idle" /\ sock'[c].starved
    BY <1>0, <1>7 DEF FetchFails, Socket
  <2>2. QED
    BY <2>1 DEF Fed
<1>8. CASE WriteFails(c) \/ WriteStalls(c)
  <2> DEFINE s == Shut(sock[c])
  <2>1. s \in Socket /\ ~s.open
    BY <1>0, ShutType
  <2>2. sock' = [sock EXCEPT ![c] = [s EXCEPT !.writer = "idle", !.todo = {}]]
    BY <1>8 DEF WriteFails, WriteStalls, Sever
  <2> HIDE DEF s
  <2>3. ~Served(c)'
    BY <1>0, <2>1, <2>2 DEF Served, Socket
  <2>4. QED
    BY <2>3, UnservedFed
<1>9. QED
  BY <1>3, <1>4, <1>5, <1>6, <1>7, <1>8 DEF WriterStep

LEMMA WorldFed ==
    ASSUME TypeOK, HeldInv, WakeInv, NEW c \in Conn,
           \/ NotifyWake(c) \/ Drop(c) \/ SeverCheck(c)
           \/ \E m \in Message : DaemonReads(c, m)
           \/ \E d \in Device : Dial(d, c) \/ Redial(d, c)
    PROVE  WakeInv'
<1>0. /\ sock \in [Conn -> Socket] /\ sock[c] \in Socket
      /\ Fed(c)
  BY DEF TypeOK, WakeInv
<1>1. /\ \A b \in Conn : b # c => sock'[b] = sock[b]
      /\ nudge \subseteq nudge' \cup {c}
      /\ UNCHANGED <<hub, inbox, due>>
  <2>1. CASE NotifyWake(c) \/ Drop(c) \/ SeverCheck(c)
    BY <1>0, <2>1 DEF NotifyWake, Drop, SeverCheck
  <2>2. CASE \E m \in Message : DaemonReads(c, m)
    BY <1>0, <2>2 DEF DaemonReads
  <2>3. CASE \E d \in Device : Dial(d, c) \/ Redial(d, c)
    BY <1>0, <2>3 DEF Dial, Redial, Accept
  <2>4. QED
    BY <2>1, <2>2, <2>3
<1>2. SUFFICES Fed(c)'
  BY <1>1, OthersFed DEF WakeInv
<1>3. CASE NotifyWake(c)
  <2>1. CASE sock[c].device = None
    <3>1. sock[c].handler = "none" /\ sock'[c].handler = sock[c].handler
      BY <1>0, <1>3, <2>1 DEF NotifyWake, HeldInv, Socket
    <3>2. QED
      BY <3>1, UnservedFed DEF Served
  <2>2. CASE sock[c].device # None
    <3>1. sock'[c].wake
      BY <1>0, <1>3, <2>2 DEF NotifyWake, Socket
    <3>2. QED
      BY <3>1 DEF Fed, Awaited
  <2>3. QED
    BY <2>1, <2>2
<1>4. CASE Drop(c)
  <2>1. ~Served(c)'
    BY <1>0, <1>4, ShutType DEF Drop, Served
  <2>2. QED
    BY <2>1, UnservedFed
<1>5. CASE SeverCheck(c)
  <2>1. nudge' = nudge /\ (sock' = sock \/ ~sock'[c].open)
    BY <1>0, <1>5, ShutType DEF SeverCheck
  <2>2. QED
    BY <1>0, <1>1, <2>1 DEF Fed, Awaited, Served
<1>6. ASSUME NEW m \in Message, DaemonReads(c, m)
      PROVE  Fed(c)'
  <2> DEFINE s == [sock[c] EXCEPT !.out = @ \ {m}, !.in = @ \cup {m}]
  <2>1. /\ s.device = sock[c].device /\ s.open = sock[c].open
        /\ s.wake = sock[c].wake /\ s.writer = sock[c].writer
        /\ s.starved = sock[c].starved /\ s.pushed = sock[c].pushed
        /\ s.todo = sock[c].todo /\ s.handler = sock[c].handler
    BY <1>0 DEF Socket
  <2>2. sock' = [sock EXCEPT ![c] = s] /\ nudge' = nudge
    BY <1>6 DEF DaemonReads
  <2> HIDE DEF s
  <2>3. sock'[c] = s
    BY <1>0, <2>2
  <2>4. QED
    BY <1>0, <1>1, <2>1, <2>2, <2>3 DEF Fed, Awaited, Served
<1>7. ASSUME NEW d \in Device, Dial(d, c) \/ Redial(d, c)
      PROVE  Fed(c)'
  <2> DEFINE s == [Unused EXCEPT !.device = d, !.open = TRUE,
                                 !.handler = "accepted"]
  <2>1. s.handler = "accepted"
    BY UnusedType DEF Socket
  <2>2. sock' = [sock EXCEPT ![c] = s]
    BY <1>7 DEF Dial, Redial, Accept
  <2> HIDE DEF s
  <2>3. ~Served(c)'
    BY <1>0, <2>1, <2>2 DEF Served
  <2>4. QED
    BY <2>3, UnservedFed
<1>8. QED
  BY <1>3, <1>4, <1>5, <1>6, <1>7

\* A commit is in debt to its own sender, who passes the debt on to the socket
\* the hub shows him.
LEMMA SenderFed ==
    ASSUME TypeOK, HeldInv, WakeInv, NEW m \in Message,
           Ingest(m) \/ NotifySnapshot(m)
    PROVE  WakeInv'
<1> SUFFICES ASSUME NEW c \in Conn, Awaited(c)'
             PROVE  Fed(c)'
  BY DEF WakeInv, Fed
<1>1. sock' = sock /\ hub' = hub
  BY DEF Ingest, NotifySnapshot
<1>2. sock[c].device \in Device
  BY <1>1 DEF Awaited, Served, HeldInv, TypeOK, Socket
<1>3. hub[sock[c].device] = c
  BY <1>1 DEF Awaited
<1>4. CASE Ingest(m)
  <2>1. /\ inbox'[sock[c].device] \subseteq inbox[sock[c].device] \cup {m}
        /\ due' = due \cup {m} /\ nudge' = nudge
    BY <1>2, <1>4 DEF Ingest, TypeOK
  <2>2. Awaited(c) /\ Fed(c)
    BY <1>1, <2>1 DEF Awaited, Served, WakeInv
  <2>3. QED
    BY <1>1, <2>1, <2>2 DEF Fed
<1>5. CASE NotifySnapshot(m)
  <2>1. c \in nudge'
    BY <1>2, <1>3, <1>5, NoneAssumption DEF NotifySnapshot, Registered
  <2>2. QED
    BY <2>1 DEF Awaited
<1>6. QED
  BY <1>4, <1>5

LEMMA NextWake == TypeOK /\ HeldInv /\ WakeInv /\ [Next]_vars => WakeInv'
<1> SUFFICES ASSUME TypeOK, HeldInv, WakeInv, [Next]_vars
             PROVE  WakeInv'
  OBVIOUS
<1>1. CASE UNCHANGED <<hub, sock, inbox, due, nudge>>
  BY <1>1 DEF WakeInv, Fed, Awaited, Served
<1>2. CASE CloseAll
  <2> SUFFICES ASSUME NEW c \in Conn
               PROVE  ~Awaited(c)'
    BY DEF WakeInv, Fed
  <2>1. sock'[c].device = sock[c].device /\ sock'[c].handler = sock[c].handler
    BY <1>2, ShutType DEF CloseAll, TypeOK
  <2>2. CASE ~Served(c)'
    BY <2>2 DEF Awaited
  <2>3. CASE Served(c)'
    <3>1. sock[c].device \in Device
      BY <2>1, <2>3 DEF Served, HeldInv, TypeOK, Socket
    <3>2. hub'[sock'[c].device] # c
      BY <1>2, <2>1, <3>1, NoneAssumption DEF CloseAll
    <3>3. QED
      BY <3>2 DEF Awaited
  <2>4. QED
    BY <2>2, <2>3
<1>3. CASE Restart
  BY <1>3, UnusedParts DEF Restart, WakeInv, Fed, Awaited, Served
<1>4. QED
  BY <1>1, <1>2, <1>3, HandlerFed, WriterFed, WorldFed, SenderFed
     DEF Next, vars, SeverSnapshot, RevokeDevice

LEMMA InitWake == Init => WakeInv
  BY UnusedParts DEF Init, WakeInv, Fed, Awaited, Served

\* No wakeup is lost: not to the one-slot channel, not to a snapshot of the hub
\* that has grown old, not to a drain that was under way when the nudge came.
THEOREM NoLostWakeupCorrect == Spec => []NoLostWakeup
<1>1. WakeInv => NoLostWakeup
  BY DEF WakeInv, Fed, Awaited, NoLostWakeup, Asleep
<1>2. Spec => []WakeInv
  BY InitWake, NextWake, TypesHold, PTL DEF Spec
<1>3. QED
  BY <1>1, <1>2, PTL

-----------------------------------------------------------------------------
(* At least once.                                                          *)

\* Every copy of a message on its way through a socket is accounted for: what
\* goes out is owed to the device or was read by it, what comes back was read.
\* A socket nobody holds carries nothing, and a frame acknowledges one message.
Backed(c) ==
    LET d == sock[c].device IN
    /\ d = None => /\ sock[c].todo = {} /\ sock[c].out = {}
                   /\ sock[c].in = {} /\ sock[c].frame = {}
    /\ d # None => /\ sock[c].todo \cup sock[c].out \subseteq inbox[d] \cup seen[d]
                   /\ sock[c].in \cup sock[c].frame \subseteq seen[d]
    /\ \A m, n \in sock[c].frame : m = n

CopyInv == \A c \in Conn : Backed(c)

\* No step of the push path takes a message from what a device is owed or has
\* read, or from what it has read.
Kept ==
    \A d \in Device : /\ inbox[d] \cup seen[d] \subseteq inbox'[d] \cup seen'[d]
                      /\ seen[d] \subseteq seen'[d]

\* A socket on which copies only get lost.
LEMMA LostCopies ==
    ASSUME TypeOK, Kept, NEW c \in Conn, Backed(c),
           \/ sock'[c] = Unused
           \/ /\ sock'[c].device = sock[c].device
              /\ sock'[c].todo \subseteq sock[c].todo
              /\ sock'[c].out \subseteq sock[c].out
              /\ sock'[c].in \subseteq sock[c].in
              /\ sock'[c].frame \subseteq sock[c].frame
    PROVE  Backed(c)'
<1>1. CASE sock'[c] = Unused
  BY <1>1 DEF Unused, Backed
<1>2. CASE sock'[c] # Unused
  <2>1. sock[c].device \in Device \cup {None}
    BY DEF TypeOK, Socket
  <2>2. CASE sock[c].device = None
    BY <1>2, <2>2 DEF Backed
  <2>3. CASE sock[c].device \in Device /\ sock[c].device # None
    BY <1>2, <2>3 DEF Backed, Kept
  <2>4. QED
    BY <2>1, <2>2, <2>3
<1>3. QED
  BY <1>1, <1>2

LEMMA ShutCopies ==
    ASSUME NEW s \in Socket
    PROVE  /\ Shut(s).todo = s.todo /\ Shut(s).frame = s.frame
           /\ Shut(s).out = {} /\ Shut(s).in = {}
  BY DEF Shut, Socket

\* One socket changes, and nothing else that its copies are measured by.
LEMMA OneBacked ==
    ASSUME TypeOK, CopyInv, Kept, NEW c \in Conn,
           \A b \in Conn : b # c => sock'[b] = sock[b],
           Backed(c)'
    PROVE  CopyInv'
<1> SUFFICES ASSUME NEW b \in Conn, b # c
             PROVE  Backed(b)'
  BY DEF CopyInv
<1>1. Backed(b)
  BY DEF CopyInv
<1>2. QED
  BY <1>1, LostCopies

\* What the invariant needs of a step, and what the step is to Delivery.
Honest == CopyInv' /\ (Promise!Next \/ UNCHANGED Promise!vars)

\* A step of one socket that leaves the store and the daemons alone.
LEMMA QuietSocket ==
    ASSUME TypeOK, CopyInv, NEW c \in Conn,
           \A b \in Conn : b # c => sock'[b] = sock[b],
           UNCHANGED <<active, fresh, inbox, seen>>,
           Backed(c)'
    PROVE  Honest
<1>1. Kept
  BY DEF Kept
<1>2. QED
  BY <1>1, OneBacked DEF Honest, Promise!vars

LEMMA QuietLoss ==
    ASSUME TypeOK, CopyInv,
           UNCHANGED <<active, fresh, inbox, seen>>,
           \A c \in Conn :
             \/ sock'[c] = Unused
             \/ /\ sock'[c].device = sock[c].device
                /\ sock'[c].todo \subseteq sock[c].todo
                /\ sock'[c].out \subseteq sock[c].out
                /\ sock'[c].in \subseteq sock[c].in
                /\ sock'[c].frame \subseteq sock[c].frame
    PROVE  Honest
<1>1. Kept
  BY DEF Kept
<1>2. CopyInv'
  BY <1>1, LostCopies DEF CopyInv
<1>3. QED
  BY <1>2 DEF Honest, Promise!vars

LEMMA HandlerHonest ==
    ASSUME TypeOK, HeldInv, CopyInv, NEW c \in Conn,
           HandlerStep(c) \/ AckFails(c)
    PROVE  Honest
<1>0. /\ sock \in [Conn -> Socket] /\ sock[c] \in Socket
      /\ inbox \in [Device -> SUBSET Message]
      /\ seen \in [Device -> SUBSET Message]
      /\ Backed(c)
  BY DEF TypeOK, CopyInv
<1>1. CASE Add(c)
  <2>1. UNCHANGED <<active, fresh, inbox, seen>>
    BY <1>1 DEF Add
  <2>2. \A b \in Conn :
          /\ sock'[b].device = sock[b].device /\ sock'[b].todo = sock[b].todo
          /\ sock'[b].out = sock[b].out /\ sock'[b].in = sock[b].in
          /\ sock'[b].frame = sock[b].frame
    BY <1>0, <1>1 DEF Add, Socket
  <2>3. QED
    BY <2>1, <2>2, QuietLoss
<1>2. CASE Supersede(c)
  <2>1. UNCHANGED <<active, fresh, inbox, seen>>
    BY <1>2 DEF Supersede
  <2>2. /\ sock'[c].device = sock[c].device /\ sock'[c].todo = sock[c].todo
        /\ sock'[c].out = sock[c].out /\ sock'[c].in = sock[c].in
        /\ sock'[c].frame = sock[c].frame
    BY <1>0, <1>2 DEF Supersede, Socket
  <2>3. \A b \in Conn : b # c => sock'[b] = sock[b] \/ sock'[b] = Shut(sock[b])
    BY <1>0, <1>2 DEF Supersede
  <2>4. QED
    BY <1>0, <2>1, <2>2, <2>3, QuietLoss, ShutType, ShutCopies
<1>3. CASE Start(c) \/ ReadFails(c) \/ Leave(c)
  <2>1. UNCHANGED <<active, fresh, inbox, seen>>
    BY <1>3 DEF Start, ReadFails, Leave
  <2>2. \A b \in Conn :
          /\ sock'[b].device = sock[b].device /\ sock'[b].todo = sock[b].todo
          /\ sock'[b].out = sock[b].out /\ sock'[b].in = sock[b].in
          /\ sock'[b].frame = sock[b].frame
    BY <1>0, <1>3 DEF Start, ReadFails, Leave, Goto, Socket
  <2>3. QED
    BY <2>1, <2>2, QuietLoss
<1>4. ASSUME NEW m \in Message, ReadFrame(c, m)
      PROVE  Honest
  <2>1. /\ UNCHANGED <<active, fresh, inbox, seen>> /\ m \in sock[c].in
        /\ \A b \in Conn : b # c => sock'[b] = sock[b]
    BY <1>0, <1>4 DEF ReadFrame, Goto
  <2>2. CASE sock[c].device \in active
    <3> DEFINE s == [sock[c] EXCEPT !.handler = "acking", !.frame = {m},
                                    !.in = @ \ {m}]
    <3>1. /\ s.device = sock[c].device /\ s.todo = sock[c].todo
          /\ s.out = sock[c].out /\ s.in = sock[c].in \ {m} /\ s.frame = {m}
      BY <1>0 DEF Socket
    <3>2. sock' = [sock EXCEPT ![c] = s]
      BY <1>4, <2>2 DEF ReadFrame
    <3> HIDE DEF s
    <3>3. sock'[c] = s
      BY <1>0, <3>2
    <3>4. Backed(c)'
      BY <1>0, <2>1, <3>1, <3>3 DEF Backed
    <3>5. QED
      BY <2>1, <3>4, QuietSocket
  <2>3. CASE sock[c].device \notin active
    <3>1. \A b \in Conn :
            /\ sock'[b].device = sock[b].device /\ sock'[b].todo = sock[b].todo
            /\ sock'[b].out = sock[b].out /\ sock'[b].in = sock[b].in
            /\ sock'[b].frame = sock[b].frame
      BY <1>0, <1>4, <2>3 DEF ReadFrame, Goto, Socket
    <3>2. QED
      BY <2>1, <3>1, QuietLoss
  <2>4. QED
    BY <2>2, <2>3
<1>5. CASE AckFrame(c)
  <2> DEFINE d == sock[c].device
  <2>1. /\ d \in Device /\ d # None
        /\ inbox' = [inbox EXCEPT ![d] = @ \ sock[c].frame]
        /\ UNCHANGED <<active, fresh, seen>>
        /\ \A b \in Conn : b # c => sock'[b] = sock[b]
    BY <1>0, <1>5 DEF AckFrame, HeldInv, Socket
  <2>2. /\ sock'[c].device = d /\ sock'[c].todo = sock[c].todo
        /\ sock'[c].out = sock[c].out /\ sock'[c].in = sock[c].in
        /\ sock'[c].frame = {}
    BY <1>0, <1>5 DEF AckFrame, Socket
  <2>3. sock[c].frame \subseteq seen[d]
    BY <1>0, <2>1 DEF Backed
  <2>4. Kept
    BY <1>0, <2>1, <2>3 DEF Kept
  <2>5. CopyInv'
    BY <1>0, <2>1, <2>2, <2>4, LostCopies, OneBacked
  <2>6. CASE \E m \in sock[c].frame : m \in inbox[d]
    <3>1. PICK m \in sock[c].frame : m \in inbox[d]
      BY <2>6
    <3>2. sock[c].frame = {m} /\ m \in Message
      BY <1>0, <3>1 DEF Backed, Socket
    <3>3. Promise!Settle(d, m)
      BY <2>1, <2>3, <3>1, <3>2 DEF Promise!Settle
    <3>4. QED
      BY <2>1, <2>5, <3>2, <3>3 DEF Honest, Promise!Next
  <2>7. CASE ~\E m \in sock[c].frame : m \in inbox[d]
    <3>1. inbox' = inbox
      BY <1>0, <2>1, <2>7
    <3>2. QED
      BY <2>1, <2>5, <3>1 DEF Honest, Promise!vars
  <2>8. QED
    BY <2>6, <2>7
<1>6. CASE Close(c)
  <2> DEFINE s == [Shut(sock[c]) EXCEPT !.handler = "none"]
  <2>1. s \in Socket /\ s.device = sock[c].device /\ s.todo = sock[c].todo
        /\ s.out = {} /\ s.in = {} /\ s.frame = sock[c].frame
    BY <1>0, ShutType, ShutCopies DEF Socket, Handler
  <2>2. /\ sock' = [sock EXCEPT ![c] = Tidy(s)]
        /\ UNCHANGED <<active, fresh, inbox, seen>>
    BY <1>6 DEF Close
  <2> HIDE DEF s
  <2>3. sock'[c] = Unused \/ sock'[c] = s
    BY <1>0, <2>2 DEF Tidy
  <2>4. \A b \in Conn : b # c => sock'[b] = sock[b]
    BY <1>0, <2>2
  <2>5. QED
    BY <1>0, <2>1, <2>2, <2>3, <2>4, QuietLoss
<1>7. CASE AckFails(c)
  <2>1. UNCHANGED <<active, fresh, inbox, seen>>
    BY <1>7 DEF AckFails
  <2>2. /\ sock'[c].device = sock[c].device /\ sock'[c].todo = sock[c].todo
        /\ sock'[c].out = sock[c].out /\ sock'[c].in = sock[c].in
        /\ sock'[c].frame = {}
    BY <1>0, <1>7 DEF AckFails, Socket
  <2>3. \A b \in Conn : b # c => sock'[b] = sock[b]
    BY <1>0, <1>7 DEF AckFails
  <2>4. QED
    BY <2>1, <2>2, <2>3, QuietLoss
<1>8. QED
  BY <1>1, <1>2, <1>3, <1>4, <1>5, <1>6, <1>7 DEF HandlerStep

LEMMA WriterHonest ==
    ASSUME TypeOK, HeldInv, CopyInv, NEW c \in Conn,
           WriterStep(c) \/ FetchFails(c) \/ WriteStalls(c)
    PROVE  Honest
<1>0. /\ sock \in [Conn -> Socket] /\ sock[c] \in Socket
      /\ Backed(c)
  BY DEF TypeOK, CopyInv
<1>1. /\ \A b \in Conn : b # c => sock'[b] = sock[b]
      /\ UNCHANGED <<active, fresh, inbox, seen>>
  <2>1. CASE WriterWake(c) \/ WriterStop(c) \/ DrainFetch(c)
    BY <1>0, <2>1 DEF WriterWake, WriterStop, DrainFetch
  <2>2. CASE FetchFails(c) \/ \E m \in Message : PushWrite(c, m)
    BY <1>0, <2>2 DEF FetchFails, PushWrite
  <2>3. CASE WriteFails(c) \/ WriteStalls(c)
    BY <1>0, <2>3 DEF WriteFails, WriteStalls, Sever
  <2>4. QED
    BY <2>1, <2>2, <2>3 DEF WriterStep
<1>2. SUFFICES Backed(c)'
  BY <1>1, QuietSocket
<1>a. Kept
  BY <1>1 DEF Kept
<1>3. CASE WriterWake(c)
  <2>1. CASE sock[c].device \in active
    <3>1. /\ sock'[c].device = sock[c].device /\ sock'[c].todo = sock[c].todo
          /\ sock'[c].out = sock[c].out /\ sock'[c].in = sock[c].in
          /\ sock'[c].frame = sock[c].frame
      BY <1>0, <1>3, <2>1 DEF WriterWake, Socket
    <3>2. QED
      BY <1>0, <1>a, <3>1, LostCopies
  <2>2. CASE sock[c].device \notin active
    <3> DEFINE s == Shut(sock[c])
    <3>1. /\ s \in Socket /\ s.device = sock[c].device
          /\ s.todo = sock[c].todo /\ s.frame = sock[c].frame
          /\ s.out = {} /\ s.in = {}
      BY <1>0, ShutType, ShutCopies
    <3>2. sock' = [sock EXCEPT ![c] = [s EXCEPT !.wake = FALSE]]
      BY <1>3, <2>2 DEF WriterWake
    <3> HIDE DEF s
    <3>3. /\ sock'[c].device = s.device /\ sock'[c].todo = s.todo
          /\ sock'[c].out = s.out /\ sock'[c].in = s.in
          /\ sock'[c].frame = s.frame
      BY <1>0, <3>1, <3>2 DEF Socket
    <3>4. QED
      BY <1>0, <1>a, <3>1, <3>3, LostCopies
  <2>3. QED
    BY <2>1, <2>2
<1>4. CASE WriterStop(c)
  <2> DEFINE s == [sock[c] EXCEPT !.writer = "none"]
  <2>1. /\ s.device = sock[c].device /\ s.todo = sock[c].todo
        /\ s.out = sock[c].out /\ s.in = sock[c].in /\ s.frame = sock[c].frame
    BY <1>0 DEF Socket
  <2>2. sock' = [sock EXCEPT ![c] = Tidy(s)]
    BY <1>4 DEF WriterStop
  <2> HIDE DEF s
  <2>3. sock'[c] = Unused \/ sock'[c] = s
    BY <1>0, <2>2 DEF Tidy
  <2>4. QED
    BY <1>0, <1>a, <2>1, <2>3, LostCopies
<1>5. CASE DrainFetch(c)
  <2>1. /\ sock'[c].device = sock[c].device
        /\ sock'[c].todo = inbox[sock[c].device]
        /\ sock'[c].out = sock[c].out /\ sock'[c].in = sock[c].in
        /\ sock'[c].frame = sock[c].frame
    BY <1>0, <1>5 DEF DrainFetch, Socket
  <2>2. sock[c].device # None
    BY <1>5 DEF DrainFetch, HeldInv
  <2>3. QED
    BY <1>0, <1>1, <2>1, <2>2 DEF Backed
<1>6. ASSUME NEW m \in Message, PushWrite(c, m)
      PROVE  Backed(c)'
  <2> DEFINE next == IF sock[c].todo = {m} THEN "idle" ELSE "send"
             s == [sock[c] EXCEPT !.todo = @ \ {m}, !.pushed = @ \cup {m},
                                  !.out = @ \cup {m}, !.unheard = @ \ {m},
                                  !.writer = next]
  <2>1. /\ s.todo = sock[c].todo \ {m} /\ s.out = sock[c].out \cup {m}
        /\ s.device = sock[c].device /\ s.in = sock[c].in
        /\ s.frame = sock[c].frame
    BY <1>0 DEF Socket
  <2>2. sock' = [sock EXCEPT ![c] = s] /\ m \in sock[c].todo
    BY <1>6 DEF PushWrite
  <2> HIDE DEF s
  <2>3. sock'[c] = s
    BY <1>0, <2>2
  <2>4. QED
    BY <1>0, <1>1, <2>1, <2>2, <2>3 DEF Backed
<1>7. CASE FetchFails(c)
  <2>1. /\ sock'[c].device = sock[c].device /\ sock'[c].todo = sock[c].todo
        /\ sock'[c].out = sock[c].out /\ sock'[c].in = sock[c].in
        /\ sock'[c].frame = sock[c].frame
    BY <1>0, <1>7 DEF FetchFails, Socket
  <2>2. QED
    BY <1>0, <1>a, <2>1, LostCopies
<1>8. CASE WriteFails(c) \/ WriteStalls(c)
  <2> DEFINE s == Shut(sock[c])
  <2>1. /\ s \in Socket /\ s.device = sock[c].device
        /\ s.frame = sock[c].frame /\ s.out = {} /\ s.in = {}
    BY <1>0, ShutType, ShutCopies
  <2>2. sock' = [sock EXCEPT ![c] = [s EXCEPT !.writer = "idle", !.todo = {}]]
    BY <1>8 DEF WriteFails, WriteStalls, Sever
  <2> HIDE DEF s
  <2>3. /\ sock'[c].device = s.device /\ sock'[c].todo = {}
        /\ sock'[c].out = s.out /\ sock'[c].in = s.in
        /\ sock'[c].frame = s.frame
    BY <1>0, <2>1, <2>2 DEF Socket
  <2>4. QED
    BY <1>0, <1>a, <2>1, <2>3, LostCopies
<1>9. QED
  BY <1>3, <1>4, <1>5, <1>6, <1>7, <1>8 DEF WriterStep

LEMMA WorldHonest ==
    ASSUME TypeOK, HeldInv, CopyInv, NEW c \in Conn,
           \/ NotifyWake(c) \/ Drop(c) \/ SeverCheck(c)
           \/ \E m \in Message : DaemonReads(c, m)
           \/ \E d \in Device : Dial(d, c) \/ Redial(d, c)
    PROVE  Honest
<1>0. /\ sock \in [Conn -> Socket] /\ sock[c] \in Socket
      /\ inbox \in [Device -> SUBSET Message]
      /\ seen \in [Device -> SUBSET Message]
      /\ Backed(c)
  BY DEF TypeOK, CopyInv
<1>1. CASE NotifyWake(c)
  <2>1. UNCHANGED <<active, fresh, inbox, seen>>
    BY <1>1 DEF NotifyWake
  <2>2. \A b \in Conn :
          /\ sock'[b].device = sock[b].device /\ sock'[b].todo = sock[b].todo
          /\ sock'[b].out = sock[b].out /\ sock'[b].in = sock[b].in
          /\ sock'[b].frame = sock[b].frame
    BY <1>0, <1>1 DEF NotifyWake, Socket
  <2>3. QED
    BY <2>1, <2>2, QuietLoss
<1>2. CASE Drop(c) \/ SeverCheck(c)
  <2>1. UNCHANGED <<active, fresh, inbox, seen>>
    BY <1>2 DEF Drop, SeverCheck
  <2>2. \A b \in Conn : sock'[b] = sock[b] \/ sock'[b] = Shut(sock[b])
    BY <1>0, <1>2 DEF Drop, SeverCheck
  <2>3. QED
    BY <1>0, <2>1, <2>2, QuietLoss, ShutType, ShutCopies
<1>3. ASSUME NEW m \in Message, DaemonReads(c, m)
      PROVE  Honest
  <2> DEFINE d == sock[c].device
             s == [sock[c] EXCEPT !.out = @ \ {m}, !.in = @ \cup {m}]
  <2>1. /\ m \in sock[c].out /\ d \in Device /\ d # None
        /\ m \in inbox[d] \cup seen[d]
    BY <1>0, <1>3 DEF DaemonReads, Backed, Socket
  <2>2. /\ s.device = d /\ s.todo = sock[c].todo
        /\ s.out = sock[c].out \ {m} /\ s.in = sock[c].in \cup {m}
        /\ s.frame = sock[c].frame
    BY <1>0 DEF Socket
  <2>3. /\ sock' = [sock EXCEPT ![c] = s]
        /\ seen' = [seen EXCEPT ![d] = @ \cup {m}]
        /\ UNCHANGED <<active, fresh, inbox>>
    BY <1>3 DEF DaemonReads
  <2> HIDE DEF s
  <2>4. sock'[c] = s /\ \A b \in Conn : b # c => sock'[b] = sock[b]
    BY <1>0, <2>3
  <2>5. Kept
    BY <1>0, <2>1, <2>3 DEF Kept
  <2>6. seen'[d] = seen[d] \cup {m}
    BY <1>0, <2>1, <2>3
  <2>7. Backed(c)'
    BY <1>0, <2>1, <2>2, <2>3, <2>4, <2>6 DEF Backed
  <2>8. CopyInv'
    BY <2>4, <2>5, <2>7, OneBacked
  <2>9. CASE m \in inbox[d]
    <3>1. Promise!Show(d, m)
      BY <2>3, <2>9 DEF Promise!Show
    <3>2. QED
      BY <2>1, <2>8, <3>1 DEF Honest, Promise!Next
  <2>10. CASE m \in seen[d]
    <3>1. seen' = seen
      BY <1>0, <2>3, <2>10
    <3>2. QED
      BY <2>3, <2>8, <3>1 DEF Honest, Promise!vars
  <2>11. QED
    BY <2>1, <2>9, <2>10
<1>4. ASSUME NEW d \in Device, Dial(d, c) \/ Redial(d, c)
      PROVE  Honest
  <2> DEFINE s == [Unused EXCEPT !.device = d, !.open = TRUE,
                                 !.handler = "accepted"]
  <2>1. /\ s.device = d /\ s.todo = {} /\ s.out = {} /\ s.in = {} /\ s.frame = {}
    BY DEF Unused
  <2>2. /\ sock' = [sock EXCEPT ![c] = s]
        /\ UNCHANGED <<active, fresh, inbox, seen>>
    BY <1>4 DEF Dial, Redial, Accept
  <2> HIDE DEF s
  <2>3. sock'[c] = s /\ \A b \in Conn : b # c => sock'[b] = sock[b]
    BY <1>0, <2>2
  <2>4. Backed(c)'
    BY <2>1, <2>3 DEF Backed
  <2>5. QED
    BY <2>2, <2>3, <2>4, QuietSocket
<1>5. QED
  BY <1>1, <1>2, <1>3, <1>4

LEMMA NextHonest == TypeOK /\ HeldInv /\ CopyInv /\ [Next]_vars => Honest
<1> SUFFICES ASSUME TypeOK, HeldInv, CopyInv, [Next]_vars
             PROVE  Honest
  OBVIOUS
<1>1. ASSUME NEW m \in Message, Ingest(m)
      PROVE  Honest
  <2>1. /\ m \in fresh /\ fresh' = fresh \ {m} /\ UNCHANGED <<active, seen, sock>>
        /\ inbox' = [d \in Device |-> IF d \in active THEN inbox[d] \cup {m}
                                                     ELSE inbox[d]]
    BY <1>1 DEF Ingest
  <2>2. Kept
    BY <2>1 DEF Kept
  <2>3. CopyInv'
    BY <2>1, <2>2, LostCopies DEF CopyInv
  <2>4. inbox' = [d \in Device |-> inbox[d] \cup (IF d \in active THEN {m} ELSE {})]
    BY <2>1
  <2>5. Promise!Commit(m)
    BY <2>1, <2>4 DEF Promise!Commit
  <2>6. QED
    BY <2>3, <2>5 DEF Honest, Promise!Next
<1>2. ASSUME NEW m \in Message, NotifySnapshot(m)
      PROVE  Honest
  BY <1>2, QuietLoss DEF NotifySnapshot
<1>3. CASE SeverSnapshot \/ UNCHANGED vars
  BY <1>3, QuietLoss DEF SeverSnapshot, vars
<1>4. ASSUME NEW d \in Device, RevokeDevice(d)
      PROVE  Honest
  <2>1. UNCHANGED <<fresh, inbox, seen, sock>>
    BY <1>4 DEF RevokeDevice
  <2>2. CopyInv'
    BY <2>1 DEF CopyInv, Backed
  <2>3. Promise!Revoke(d)
    BY <1>4 DEF RevokeDevice, Promise!Revoke
  <2>4. QED
    BY <2>2, <2>3 DEF Honest, Promise!Next
<1>5. CASE CloseAll
  <2>1. \A c \in Conn : sock'[c] = sock[c] \/ sock'[c] = Shut(sock[c])
    BY <1>5 DEF CloseAll, TypeOK
  <2>2. UNCHANGED <<active, fresh, inbox, seen>>
    BY <1>5 DEF CloseAll
  <2>3. QED
    BY <2>1, <2>2, QuietLoss, ShutType, ShutCopies DEF TypeOK
<1>6. CASE Restart
  BY <1>6, QuietLoss DEF Restart
<1>7. QED
  BY <1>1, <1>2, <1>3, <1>4, <1>5, <1>6, HandlerHonest, WriterHonest, WorldHonest
     DEF Next

LEMMA InitHonest == Init => CopyInv /\ Promise!Init
<1>1. Init => CopyInv
  BY DEF Init, CopyInv, Backed, Unused
<1>2. QED
  BY <1>1 DEF Init, Promise!Init

LEMMA CopiesHold == Spec => [](TypeOK /\ HeldInv /\ CopyInv)
<1>1. TypeOK /\ HeldInv /\ CopyInv /\ [Next]_vars => CopyInv'
  BY NextHonest DEF Honest
<1>2. QED
  BY <1>1, InitHonest, TypesHold, PTL DEF Spec

\* However many sockets are superseded, dropped, stalled or severed, whatever
\* copies of an inbox their writers hold, and wherever the process ends: what a
\* device is owed it stays owed until its daemon has read it.
THEOREM DeliveryImplemented == Spec => ImplementsDelivery
<1>1. TypeOK /\ HeldInv /\ CopyInv /\ [Next]_vars
        => [Promise!Next]_(Promise!vars)
  BY NextHonest DEF Honest
<1>2. QED
  BY <1>1, InitHonest, CopiesHold, PTL DEF Spec, ImplementsDelivery, Promise!Spec

=============================================================================
