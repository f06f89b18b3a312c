-------------------------------- MODULE Tools --------------------------------
(***************************************************************************)
(* The MCP tools of internal/relay/mcp over the store of module Mailbox.   *)
(*                                                                         *)
(* Most tools make one store call, which is an action of Mailbox already   *)
(* (approve_reply, discard_reply, approve_message, decline_message,        *)
(* set_thread_grant) or one read of it (check_inbox, get_thread).  Two do  *)
(* not: send_message makes three transactions in a row, any of which may   *)
(* fail after the earlier ones have committed, and wait_for_activity polls *)
(* until its deadline while it holds one of its person's wait slots, which *)
(* live in memory.  Calls run at the same time as each other, as the other *)
(* tools and as the sweeper, and are lost when the process restarts.       *)
(*                                                                         *)
(* Left out: the texts the tools return, the sanitized errors' wording,    *)
(* Notify (module Push).                                                   *)
(***************************************************************************)
EXTENDS Mailbox

CONSTANTS
    Call,          \* tool calls under way at the same time
    MaxWaits,      \* waitAcquire's maxPerPerson
    ClientType,    \* the client types of access tokens
    Cap,           \* the profile caps, in ticks; Cap["other"] is the safe one
    HalfWord,      \* time.Duration holds -HalfWord .. HalfWord - 1
    WaitAsked      \* bound: the timeout_seconds each person asks for

ASSUME WaitAssumption == MaxWaits \in Nat /\ HalfWord \in Nat \ {0}
ASSUME AskedAssumption == \A p \in Person : WaitAsked[p] \subseteq Int
ASSUME CapAssumption == "other" \in DOMAIN Cap /\ \A ct \in DOMAIN Cap : Cap[ct] \in Nat \ {0}

VARIABLES
    call,          \* call[c]: the stage tool call c is in and what it carries
    waiting,       \* Handler.waiting: wait slots in use, per person
    toldSent,      \* history: the drafts send_message reported as "sent"
    toldError      \* history: the drafts whose send_message returned an error

toolVars == <<call, waiting, toldSent, toldError>>

Idle == [stage |-> "idle"]

Sending == [stage: {"starting"}, person: Person, to: Person, body: Body]
           \cup [stage: {"drafting"}, person: Person, to: Person, body: Body,
                 thread: ThreadId]
           \cup [stage: {"releasing"}, person: Person, id: Id]

Waiting == [stage: {"polling", "polled"}, person: Person, client: ClientType,
            asked: Int, since: Nat]
           \cup [stage: {"sleeping"}, person: Person, client: ClientType,
                 asked: Int, since: Nat, until: Nat]

IsWaiting(c) == call[c].stage \in {"polling", "polled", "sleeping"}

ToolsInit ==
    /\ Init
    /\ call = [c \in Call |-> Idle]
    /\ waiting = [p \in Person |-> 0]
    /\ toldSent = {}
    /\ toldError = {}

Goto(c, state) == call' = [call EXCEPT ![c] = state]

-----------------------------------------------------------------------------
(* send_message (outbound.go).                                              *)

\* The recipient is on the roster and not the caller.  Without a thread id a
\* new thread is started first.
SendMessage(c, p, q, b) ==
    /\ call[c] = Idle
    /\ p # q
    /\ \/ Goto(c, [stage |-> "starting", person |-> p, to |-> q, body |-> b])
       \/ \E t \in ThreadId :
            Goto(c, [stage |-> "drafting", person |-> p, to |-> q, body |-> b,
                     thread |-> t])
    /\ UNCHANGED <<vars, waiting, toldSent, toldError>>

SendStart(c) ==
    /\ call[c].stage = "starting"
    /\ \E t \in ThreadId :
         /\ StartThread(call[c].person, call[c].to, t)
         /\ Goto(c, [stage |-> "drafting", person |-> call[c].person,
                     to |-> call[c].to, body |-> call[c].body, thread |-> t])
    /\ UNCHANGED <<waiting, toldSent, toldError>>

SendDraft(c) ==
    /\ call[c].stage = "drafting"
    /\ \E id \in Id :
         /\ CreateDraft(id, call[c].thread, call[c].person, call[c].to,
                        call[c].body)
         /\ Goto(c, [stage |-> "releasing", person |-> call[c].person,
                     id |-> id])
    /\ UNCHANGED <<waiting, toldSent, toldError>>

\* Variant: the release is reported as an error once it is done.
SendReleaseLate(c) ==
    /\ call[c].stage = "releasing"
    /\ \/ /\ \E now \in Now : ReleaseReplyViaGrant(call[c].id, call[c].person, now)
          /\ toldError' = toldError \cup {call[c].id}
       \/ /\ \A d \in drafts : d.id = call[c].id =>
               ~ActiveGrant(d.thread, call[c].person, "outbound")
          /\ UNCHANGED <<vars, toldError>>
    /\ Goto(c, Idle)
    /\ UNCHANGED <<waiting, toldSent>>

\* The last transaction: an active grant of the author releases the draft and
\* the answer is "sent"; without one the answer is "pending_review", also when
\* the author has decided the draft by hand in the meantime.  (The time it is
\* given was read when the tool was called.)
SendRelease(c) ==
    /\ call[c].stage = "releasing"
    /\ \/ /\ \E now \in Now : ReleaseReplyViaGrant(call[c].id, call[c].person, now)
          /\ toldSent' = toldSent \cup {call[c].id}
       \/ /\ \E d \in drafts : d.id = call[c].id /\
               ~ActiveGrant(d.thread, call[c].person, "outbound")
          /\ UNCHANGED <<vars, toldSent>>
    /\ Goto(c, Idle)
    /\ UNCHANGED <<waiting, toldError>>

\* A transaction fails or refuses (not the caller's thread; a granted draft
\* that was decided or swept since): it is rolled back, what came before it
\* stays, and the caller gets an error.
SendFails(c) ==
    /\ call[c].stage \in {"starting", "drafting", "releasing"}
    /\ toldError' = IF call[c].stage = "releasing"
                      THEN toldError \cup {call[c].id} ELSE toldError
    /\ Goto(c, Idle)
    /\ UNCHANGED <<vars, waiting, toldSent>>

-----------------------------------------------------------------------------
(* wait_for_activity (wait.go, handler.go).                                 *)

ProfileCap(ct) == IF ct \in DOMAIN Cap THEN Cap[ct] ELSE Cap["other"]

\* Two's complement: the word whose difference from n is a multiple of the
\* number of words.
Wrap(n) == ((n + HalfWord) % (2 * HalfWord)) - HalfWord

\* Variant: a wait that is not positive is not a reason for the cap.
TimeoutUncapped(secs, ct) ==
    LET d == Wrap(secs * Sec)
    IN  IF d > ProfileCap(ct) THEN ProfileCap(ct) ELSE d

\* The product is taken in a machine word before it is compared.
EffectiveTimeout(secs, ct) ==
    LET d == Wrap(secs * Sec)
    IN  IF d <= 0 \/ d > ProfileCap(ct) THEN ProfileCap(ct) ELSE d

Deadline(w) == w.since + EffectiveTimeout(w.asked, w.client)

\* waitAcquire; a call that gets no slot answers "no activity" at once.  (The
\* bound on the clock keeps deadlines within the modelled time.)
WaitStart(c, p, ct, secs) ==
    LET w == [stage |-> "polling", person |-> p, client |-> ct, asked |-> secs,
              since |-> clock]
    IN  /\ call[c] = Idle
        /\ waiting[p] < MaxWaits
        /\ Deadline(w) <= MaxClock
        /\ waiting' = [waiting EXCEPT ![p] = @ + 1]
        /\ Goto(c, w)
        /\ UNCHANGED <<vars, toldSent, toldError>>

\* The deferred waitRelease, on whatever way out.
WaitEnd(c) ==
    /\ Goto(c, Idle)
    /\ waiting' = [waiting EXCEPT ![call[c].person] = IF @ > 0 THEN @ - 1 ELSE 0]
    /\ UNCHANGED <<vars, toldSent, toldError>>

\* HasActivity is asked: activity ends the wait.
Poll(c) ==
    /\ call[c].stage = "polling"
    /\ IF HasActivity(call[c].person)
         THEN WaitEnd(c)
         ELSE /\ Goto(c, [call[c] EXCEPT !.stage = "polled"])
              /\ UNCHANGED <<vars, waiting, toldSent, toldError>>

Sooner(a, b) == IF a < b THEN a ELSE b

\* Variant: every round of the loop waits for the whole timeout again.
WaitRestarted(c) ==
    /\ call[c].stage = "polled"
    /\ Goto(c, [stage |-> "sleeping", person |-> call[c].person,
                client |-> call[c].client, asked |-> call[c].asked,
                since |-> clock, until |-> clock + Sec])
    /\ UNCHANGED <<vars, waiting, toldSent, toldError>>

\* time.Until(deadline), read after the poll: answer, or sleep for the poll
\* interval or for what remains.
CheckDeadline(c) ==
    /\ call[c].stage = "polled"
    /\ IF Deadline(call[c]) <= clock
         THEN WaitEnd(c)
         ELSE /\ Goto(c, [stage |-> "sleeping", person |-> call[c].person,
                          client |-> call[c].client, asked |-> call[c].asked,
                          since |-> call[c].since,
                          until |-> Sooner(clock + Sec, Deadline(call[c]))])
              /\ UNCHANGED <<vars, waiting, toldSent, toldError>>

\* Variant: the end of the last sleep is carried into the next round.
WakeStale(c) ==
    /\ call[c].stage = "sleeping"
    /\ clock >= call[c].until
    /\ Goto(c, [call[c] EXCEPT !.stage = "polling"])
    /\ UNCHANGED <<vars, waiting, toldSent, toldError>>

Wake(c) ==
    /\ call[c].stage = "sleeping"
    /\ clock >= call[c].until
    /\ Goto(c, [stage |-> "polling", person |-> call[c].person,
                client |-> call[c].client, asked |-> call[c].asked,
                since |-> call[c].since])
    /\ UNCHANGED <<vars, waiting, toldSent, toldError>>

\* Variant: only the ways out inside the loop's body give the slot back.
CancelUnreleased(c) ==
    /\ IsWaiting(c)
    /\ Goto(c, Idle)
    /\ UNCHANGED <<vars, waiting, toldSent, toldError>>

\* The poll fails, or the client disconnects while the call sleeps.
Cancel(c) ==
    /\ call[c].stage \in {"polling", "sleeping"}
    /\ WaitEnd(c)

-----------------------------------------------------------------------------

\* The process restarts: the store survives, calls and slots do not.
Restart ==
    /\ call' = [c \in Call |-> Idle]
    /\ waiting' = [p \in Person |-> 0]
    /\ UNCHANGED <<vars, toldSent, toldError>>

\* The tools that are one transaction, the sweeper, and time.
OtherNext ==
    /\ \/ Tick
       \/ \E p \in Person, id \in Id :
            \/ \E b \in Body : ReleaseDraft(p, id, b, clock)
            \/ DiscardDraft(p, id, clock)
            \/ \E v \in Verdict : InboundMessageVerdict(p, id, v)
       \/ \E t \in ThreadId, p \in Person, dir \in GrantAsked :
            SetThreadGrant(t, p, dir) \/ RevokeThreadGrant(t, p, dir)
       \/ SweepMessages(clock) \/ SweepDrafts(clock) \/ PruneTombstones(clock)
    /\ UNCHANGED toolVars

WaitStep(c) == Poll(c) \/ CheckDeadline(c) \/ Wake(c)

ToolsNext ==
    \/ OtherNext
    \/ Restart
    \/ \E c \in Call :
         \/ \E p, q \in Person, b \in Body : SendMessage(c, p, q, b)
         \/ SendStart(c) \/ SendDraft(c) \/ SendRelease(c) \/ SendFails(c)
         \/ \E p \in Person, ct \in ClientType : \E secs \in WaitAsked[p] :
              WaitStart(c, p, ct, secs)
         \/ WaitStep(c)
         \/ Cancel(c)

ToolsSpec == ToolsInit /\ [][ToolsNext]_<<vars, toolVars>>

\* A goroutine that can run gets to run, and time passes.
FairToolsSpec ==
    /\ ToolsSpec
    /\ \A c \in Call : WF_<<vars, toolVars>>(WaitStep(c))
    /\ WF_<<vars, toolVars>>(Tick /\ UNCHANGED toolVars)

-----------------------------------------------------------------------------
(* Correctness.                                                             *)

ToolsTypeOK ==
    /\ TypeOK
    /\ call \in [Call -> {Idle} \cup Sending \cup Waiting]
    /\ waiting \in [Person -> Nat]
    /\ toldSent \subseteq Id
    /\ toldError \subseteq Id

\* send_message tells the truth although it is three transactions: "sent" is
\* said of nothing that was not delivered, and when it returns an error the
\* draft it may have left behind has not gone out and never will by itself,
\* so that trying again does not send anything twice (outbound.go:86-98).
AnswersAreTrue ==
    /\ \A id \in toldSent : \E e \in wire : e.id = id
    /\ \A d \in drafts : d.id \in toldError => ~d.viaGrant

\* A person's wait slots are those of the calls that are waiting, and never
\* more than the cap: no way out of a wait, timely, failed or cancelled,
\* leaks a slot or gives one back twice (handler.go:97-119).
SlotsAreHeldByWaits ==
    \A p \in Person :
        /\ waiting[p] = Cardinality({c \in Call : IsWaiting(c) /\ call[c].person = p})
        /\ waiting[p] <= MaxWaits

\* Whatever is asked for, a word's overflow included, a wait has a deadline in
\* the future and within the client profile's cap (wait.go:34-36).
WaitsWithinProfile ==
    \A c \in Call : IsWaiting(c) =>
        /\ Deadline(call[c]) > call[c].since
        /\ Deadline(call[c]) <= call[c].since + ProfileCap(call[c].client)

\* Every wait is answered.
WaitsEnd == \A c \in Call : IsWaiting(c) ~> ~IsWaiting(c)

-----------------------------------------------------------------------------
(* What a comment of the code says and the code does not do.                *)

\* wait.go:35, "a non-positive or over-cap request becomes the cap".
LongWaitsGetTheCap ==
    \A c \in Call : IsWaiting(c) =>
        LET cap == ProfileCap(call[c].client)
            asked == call[c].asked * Sec
        IN  asked <= 0 \/ asked > cap => Deadline(call[c]) = call[c].since + cap

=============================================================================
