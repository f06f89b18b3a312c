# askrelay, specified

TLA+ specifications of the relay: the mail it stores, the gate every message
passes, the tools and the websocket people reach it by, the OAuth server that
lets them in, how a relay and its roster come into being, and the canonical form
signatures cover. TLC checks them on small instances; TLAPS proves, for all
values of the constants, every safety property the passing runs check except two
about the canonical form itself. Paths below are relative to `src/`, or to
`src/internal/relay/` where they begin with `store/`, `mcp/`, `oauth/` or a bare
file name.

1. [The system](#1-the-system)
2. [Modules](#2-modules)
3. [Properties and runs](#3-properties-and-runs)
4. [Proofs](#4-proofs)
5. [Where the code and its comments part](#5-where-the-code-and-its-comments-part)
6. [What is not modelled](#6-what-is-not-modelled)
7. [Plan](#7-plan)

## 1. The system

A relay is one Go process over one SQLite file. People talk to it through the AI
sessions they work with (MCP tools over HTTP), and, optionally, through a daemon
on each of their devices (a websocket). A message is composed by an AI, reviewed
and released by its author, kept in the recipient's mailbox, shown to the
recipient's AI on demand, decided upon by the recipient, and swept.

| Component | State | Operations | Talks to |
|---|---|---|---|
| **Approval gate** `internal/gate` | none: a pure decision on (current state, verdict) | `ApplyInbound`, `ApplyOutbound`, the two `...Grant` forms | called by the store, inside its transactions |
| **Message store** `store/{message,draft,approval,read,retention}.go` | tables threads, messages, message_tombstones, deliveries, drafts, thread_grants | ingest, compose, release, discard, verdicts, grants, acknowledge, reads, sweeps | gate; SQLite under one writer lock |
| **Identity, enrollment** `store/identity.go`, `enroll.go` | persons, devices, invites | mint and consume an invite, enroll, revoke | store; token issuer |
| **MCP tools** `mcp/` | long-poll slots per person | nine tools, each one or several store calls | store; `Notify` of the websocket hub |
| **Websocket push** `ws.go` | hub: person and device to connection; a one-slot wake channel per connection | register, supersede, deregister, nudge, drain, acknowledge, sever, close all | store reads and acknowledgements; the daemon |
| **OAuth server** `oauth_*.go`, `store/oauth.go`, `oauth/as.go` | clients, codes, refresh tokens with families | register, authorize, exchange, rotate, prune | store; token issuer |
| **Token issuer** `oauth/{token,device}.go` | an ed25519 key in a file | load or create the key, issue, verify | file system |
| **Schema migration** `store/{store,migrate}.go` | schema version | apply pending migrations at start | SQLite |
| **Envelope** `internal/envelope` | none | canonical form, sign, verify, validate | store (ingest) |
| **Redaction** `internal/redact` | none | hook on stdin and stdout, fail closed | the operator's hook process |
| **Server, configuration, CLI** `server.go`, `config.go`, `cmd/askrelay` | listener, sweeper, shutdown | run, sweep hourly, drain and stop | all of the above |
| **Daemon** `internal/daemon` | not written yet | dials, reads pushes, acknowledges | websocket |

What is hard here, by component (`PROJECT.json` lists each hazard at its line):

* *Store.* All methods serialize on the writer lock, so within the store there is
  no interleaving of statements; what is left is harder to see. The clock reading
  a method is given was taken before the lock. Freshness is judged on full
  instants, tombstones store whole seconds. "Latest message" is a comparison of
  whole seconds. The same question (what awaits this person?) is asked by three
  queries. A message is shared by the devices it was fanned out to, each with its
  own acknowledgement, and the sweep judges all of them at once.
* *Push.* Four kinds of goroutine share the hub, the wake slot and the store
  with no lock over more than one step. Nudges coalesce, snapshots of the hub go
  stale, sockets supersede one another while the older one is tearing down, a
  device may be revoked between any two steps, and the process may stop between
  a commit and the nudge that announces it.
* *Tools.* One `send_message` is up to three transactions; a long poll holds a
  slot in memory across many reads, and computes its deadline in a machine word.
* *OAuth.* A handler is several transactions carrying what the earlier ones
  returned; codes are spent once and tokens rotate under concurrent, repeated and
  interrupted requests, and a device may be revoked between any two steps.
* *First start.* Several processes, of several versions, may find neither key
  file nor schema, and any of them may stop half-way.
* *Envelope.* Two programs must come to the same bytes for one content, and never
  to the same bytes for two.

What makes each correct:

* gate and store: nothing is mailed that its author did not let go; a release is
  a delivery; nothing that is fresh arrives twice; mail stays between the parties of its
  thread; unacknowledged mail is kept until the hard TTL and no longer; drafts
  under review are never swept; what is shown can be decided and vice versa;
* push: no wakeup is lost, what a device is owed it stays owed until its daemon has
  read it, every active device is eventually given it, a revoked device is cut
  off, no goroutine leaks;
* identity: an invite enrolls one device; a refused enrollment does not burn it;
* tools: an answer says what happened, and slots and deadlines are respected;
* OAuth: what grows out of a code is one line with one living end; a code is spent
  by the client it was made for; a client in use stays registered; a revoked device's access runs out;
* first start: everyone who serves has the same key and the whole schema;
* envelope: one canonical form if and only if one content, and what one side
  signs the other accepts.

## 2. Modules

```
                                           TLC            theorems
Gate  <-  Mailbox                       <-  MCMailbox      MailboxProofs  <-  MailboxRefinement
             |  \---  GatedMail (INSTANCE)
             \---  Tools                <-  MCTools        ToolsProofs (extends MailboxRefinement)
Push --- Delivery (INSTANCE)            <-  MCPush         PushProofs
OAuth --- Baton (INSTANCE)              <-  MCOAuth        OAuthProofs  <-  OAuthRefinement
Bootstrap                               <-  MCBootstrap    BootstrapProofs
CanonStrings <- Canon <- Signing <- Envelope <- MCEnvelope  EnvelopeProofs
```

**`Gate`** — `internal/gate/gate.go`. Each function of the gate is a relation
that holds of (current, verdict, next) when the code returns `next` without an
error. A refusal rolls the caller's transaction back, so it is the absence of a
successor.

**`Mailbox`** — the store. A table is a set of rows, an exported method of the
store is one action, its guard the conjunction of the conditions under which the
code does not return an error. Two parts of the state are not in the database:

* *The clock.* `clock` is in ticks, `Sec` of them to the second; the tables hold
  `Unix(t)`. A method's `now` is any reading of the last `MaxLag` ticks, because
  the caller took it before it waited for the writer lock.
* *History.* `used` is the set of ids handed out by the uuid generators, `wire`
  all envelopes ever ingested (`IngestMessage` may be given any of them again at
  any time). Both are read only to choose inputs.

`RelayNext` holds what the tools, the websocket and the sweeper call. `ReservedNext`
holds what the store exports and the relay does not call yet: `IngestMessage`
(the signed path), the thread-level verdicts, `ApproveInboundViaGrant`, and
`RevokeDevice`. `RelaySpec` is the relay as it runs, `Spec` everything the store
offers.

The sweep of one tick is three independent transactions in the code (messages,
drafts, tombstones) and so is three actions here; any of them may fail and be
made up for at the next tick.

| Store method | Action | Store method | Action |
|---|---|---|---|
| `IngestMessage` | `IngestMessage` | `InboundMessageVerdict` | `InboundMessageVerdict` |
| `ingestTx` | `IngestTx` | `ApproveInbound`, `DeclineInbound` | `TransitionInbound` |
| `MarkDelivered`, `Ack` | same | `ApproveInboundViaGrant` | same |
| `StartThread`, `CreateDraft` | same | `SetThreadGrant`, `RevokeThreadGrant` | same |
| `ReleaseDraft`, `DiscardDraft` | same | `RevokeDevice` | same |
| `ReleaseReplyViaGrant` | same | `SweepMessages`, `SweepDrafts`, `PruneTombstones` | same |

**`GatedMail`** — the promise, with no tables, clocks, devices or sweeps: an item
is fresh, held, mailed or gone, and a thread is idle, awaiting or decided.
`Mailbox` implements it under `phase <- PhaseOf`, `turn <- TurnOf`.

**`Push`** — `ws.go`. A connection (`sock[c]`) carries the program counters of
its two goroutines: the handler (`handleWS`, from `Accept` through the read loop
to the deferred teardown) and the writer (`writerLoop` and `drainInbox`). Around
them run the senders (`Ingest`, `NotifySnapshot`, `NotifyWake`), the patrol for
revoked devices (`SeverSnapshot`, `SeverCheck`), shutdown and restart. One action
is one access to something shared: the hub's map, the wake slot, the store, or
the socket. Steps that only touch what the goroutine owns are merged into the
access before them. The store is reduced to what a socket can see of it: a set of
unacknowledged messages per device and the set of active devices. The daemon and
the network are external: they read, acknowledge, dial, and lose sockets.

A socket identifier is used again once both goroutines of the connection have
ended and nobody holds a pointer to it, so the number of connections in a
behaviour is not bounded by the number of identifiers. History are `seen`, what each
daemon has read, and three fields of a socket: what was written to it, whether its
last drain could not read the inbox, and which acknowledgements could not be recorded.

**`Delivery`** — what the push path promises a daemon: a message that is committed
while its device is active is owed to the device, is shown to it once or more, and
is settled only after it was shown. There are no sockets, nudges or processes in
it. `Push` implements it under `owed <- inbox`: everything the goroutines do is a
commit, a revocation, a showing, a settling, or none of the promise's business.

**`Tools`** — `mcp/`, on top of `Mailbox`. Most tools are one store call and are
that action of `Mailbox`. `send_message` is three transactions, so a call carries
its stage from one to the next: `SendStart`, `SendDraft` and `SendRelease` are the
store's `StartThread`, `CreateDraft` and `ReleaseReplyViaGrant`, and `SendFails`
may come at each of them. `wait_for_activity` takes a slot (`WaitStart`), alternates
between `Poll`, `CheckDeadline` and `Wake`, and gives the slot back on every way
out (`WaitEnd`, `Cancel`). `EffectiveTimeout` multiplies in two's complement, in a
word that holds `-HalfWord .. HalfWord - 1`; the code's has 64 bits. A `Restart` forgets calls and slots and
keeps the store. `toldSent` and `toldError` record what callers were told.

**`OAuth`** — `oauth_authorize.go`, `oauth_token.go`, `oauth_dcr.go` and
`store/oauth.go`. A request has a stage; every store call of its handler is an
action from one stage to the next, with the record of what it carries (among it
one reading of the clock, taken at its start). `stranded`, the clients a sweep
removed between two tokens, is history.

| Handler | Actions, in order |
|---|---|
| `handleRegister` | `Register` |
| `handleAuthorizeSubmit` | `Authorize`, `VetDevice`, `CreateAuthCode` |
| `tokenFromCode` | `ReadCode`, `ClaimCode` or `LoseClaim`, then the tail |
| `tokenFromRefresh` | `ConsumeRefreshToken` or `DetectReuse`, then the tail |
| `issueTokens`, the tail | `RecheckDevice`, `StoreTokens` |
| the hourly sweep | `SweepOAuth` |

**`Baton`** — what a client that was authorized once is promised: one line of
access that is handed from the code to a request, to a token, to the request that
rotates it, and that stays ended once it has ended. `OAuth` implements it under
`holder <- HolderOf`; two living ends of one line would be `"forked"`, which is no
state of `Baton`.

**`Bootstrap`** — `askrelay serve` and `askrelay invite` as processes over two
files: `ReadVersion`, `ApplyMigration` and `Opened` are `store.Open`;
`CreateKeyFile`, `WriteKey`, `CreationFails` and `ReadKey` are `loadOrCreateKey`;
then `CreateInvite`, `Enroll` and `MintDeviceCredential` (or `MintFails`) of
`store/identity.go` and `enroll.go`. `Stop` may come anywhere, and processes of
several binaries run at once.

**`CanonStrings`, `Canon`, `Signing`, `Envelope`** — `internal/envelope`.
`CanonStrings` is how `canon.go` writes one string and compares two names; a text is
a sequence of code points. `Canon` is the rest of the RFC 8785 writer as operators on
JSON values, where a number is its digits and the place of its point.
`appendCanonical` calls itself for what a value holds; `AppendLevel` is one such call,
and three of them on top of each other write what the module's bound on nesting lets
documents and envelopes hold. `Signing` lets an envelope be made, signed, changed,
decoded and verified; it is marshalled and then written by `Canon`, and signatures
are ideal. `Envelope` adds two documents that are being written, whose canonical
forms are compared against a `Meaning` that is defined without any writing.

**`MC...`** — constants, inputs and symmetry for TLC.

**`...Proofs`, `...Refinement`** — the theorems, section 4.

## 3. Properties and runs

All runs but `envelope` check for deadlock: sweeps, restarts and patrols are always
possible, so none is expected. In `envelope` a document is finished at some length.

| Run | Question | Bounds | Distinct states |
|---|---|---|---|
| `gates` | Is the store, as the relay uses it, the mailbox of `GatedMail` (`ImplementsGatedMail`)? Does the text that leaves agree with the draft on record (`SentAsReviewed`)? Are drafts under review safe from every step (`PendingIsNeverSwept`)? Does a device lose a message only by acknowledging it or after the hard TTL (`UnackedIsKept`), and is every message gone after that (`MailExpires`)? | two people, two devices, one thread, one id, two bodies (so an edit at release is visible), callers one tick late, a fair sweeper | 143 k |
| `replay` | Do tombstones cover the freshness window (`TombstoneCoversWindow`), and does nothing arrive twice but what aged out while its copy waited for the lock (`ArrivesOnceUnlessLate`)? Does mail stay between the parties of a thread (`MailStaysBetweenParties`)? Is what is shown exactly what may be decided (`SurfacedIffActionable`)? | half-second ticks (`Sec = 2`), so that cutoffs fall inside a second; three people, so every thread has a stranger; envelopes from anyone to anyone, any copy at any time, by callers one tick late; every exported method | 803 k |
| `tools` | Do answers of `send_message` say what happened (`AnswersAreTrue`)? Are slots those of the calls that wait (`SlotsAreHeldByWaits`), are waits within the client's cap (`WaitsWithinProfile`) and do they end (`WaitsEnd`)? | two calls at a time, one slot per person, words of three bits, one timeout that overflows and one that is under one cap and over another; drafts that are decided are swept within the clock | 690 k |
| `oauth` | Is a code the beginning of one line (`ImplementsBaton`), spent by its own client only (`SpentByItsClient`)? Does a revoked device's access end (`AccessEndsAfterRevocation`)? Does a client in use keep its registration, unless a sweep finds it between two tokens (`ClientInUseIsRegistered`)? | two requests at a time, two codes, two refresh tokens, a registered and a hosted client, a device, two redirects of which one may not be registered | 1.81 M |
| `bootstrap` | Does every process that serves accept every credential of an active device (`CredentialsSurvive`)? Is an invite worth one device (`RosterIsConsistent`)? Does a process past `Open` find its whole schema (`StoreIsMigrated`)? | two processes at a time, binaries of one and of two migrations, two invites, two addresses, two device keys, two signing keys | 181 k |
| `envelope` | Is a canonical form that of one content (`CanonicalIffEqual`), its members in the order of RFC 8785 (`MembersInUTF16Order`)? Is what verifies what was signed (`VerifiedIsSigned`), and does what was signed verify (`SignedVerifies`)? | every pair of 94 scalars and of arrays and objects of up to two elements; numbers around each threshold of the layout; envelopes on both sides of each cap | 882 k |
| `push` | Is a sleeping writer up to date (`NoLostWakeup`)? Is a served socket registered or about to be closed (`NoDeafSocket`)? Is a message owed until its daemon has read it (`ImplementsDelivery`)? | one device, two sockets, two messages, one fault (lost or stalled socket, needless redial, stop, crash), one failing read or acknowledgement | 4.8 M |
| `push_live` | Is mail eventually acknowledged, and the acknowledgement recorded, unless the store fails under an open socket (`EventuallySettled`), a revoked device cut off for good (`RevokedIsSevered`), a goroutine ended (`GoroutinesEnd`)? | as above with one message, under fairness | 339 k |
| `activity`, `oauth_reuse`, `key_adopt`, `wait_overflow` | section 5: each finds one sentence of a comment violated | | |

**Why these bounds.** The hazards of the store are about two rows: an id and its
copy, a message and the next one of its thread, a device and another. Two of each
meet in the run that is about them, and the third person of `replay` is the
smallest stranger. One thread is enough because threads share nothing but the space of
ids: a statement that changes a thread, a draft or a grant names one thread, and
those that do not (tombstones, sweeps, acknowledgements) do not look at threads. The clock runs past the spans that a
run is about, and each of these is at least one tick, so every cutoff is approached, met and passed.

For `Tools`, races are between two calls of one person or of two, so two calls
suffice; with a cap of one slot, two calls already reach and exceed it. Three bits
are the smallest word in which a product wraps to a negative and to a positive
number. For `OAuth`, a race is between two requests that hold the same code or the
same token, or between a request and the sweeper, the administrator or a restart;
a family is told from a line by its second code. For `Bootstrap` two processes are
the smallest race, and a third would find the files in a state one of the two can
leave behind. In `Envelope` two members are what an order and a superseded member
need, and a separator confusion needs two elements against one.

For `Push`, two sockets are what superseding needs and two messages what coalescing
needs (a nudge for the second while the first is drained); devices of a person
share nothing but the message that `Ingest` fans out and the snapshot `Notify`
takes, so a second device adds states and no interaction. `MaxFaults` bounds
steps that may happen at any time; one suffices for each single kind of failure
in every state of the rest.

**Fairness.** `Mailbox!FairSpec` assumes that time passes and that the sweeper of
`server.go:97-112`, a ticker that outlives failed sweeps, eventually sweeps with
a current clock. `Push!FairSpec` assumes that goroutines that can run do run; that
the reconcile ticker (`ws.go:25`) fires; that a process that is stopping ends
(`server.go:83-93`, a drain with a deadline); and of the environment that a daemon
without a socket dials and that an open socket is read. Nothing is assumed of
senders, administrators, faults or a store that fails. `Tools!FairToolsSpec` assumes that
time passes and that the goroutine of a waiting call runs when it can; nothing is
assumed of clients, and `send_message` needs no fairness.

**Variants.** Definitions introduced by `\* Variant` are plausible bugs of the definition below them: a dropped guard, a wrong
comparison, a missing wake. Nothing in the specifications uses them; substituted
for the original, each makes TLC find the corresponding property violated, which
is how we know the runs are not vacuous.

## 4. Proofs

A theorem is about every instance: any people, devices, sockets, calls, requests,
processes and messages, any clock granularity, lifetimes and retention settings,
any width of the machine word, and any value of the bounds that keep TLC finite.
The assumptions are the named ASSUMEs of the modules, which give the constants
their types (a duration is a natural number, `None` is no socket) and which TLC
evaluates on every run. Sets of people, sockets, calls or messages need not be
finite, nor sets of texts and names; texts and names are sequences of Unicode scalar
values of any length. One assumption bounds more than a type: the version of an
envelope is one digit (`ContentAssumption`), because what `strconv` writes of a longer
number is a recursion over its digits.

Every proof has the same frame. An invariant is strengthened until each action
preserves it; one lemma per action says so; the theorem puts initial states,
steps and the consequence together. What the columns name is the strengthening:
the part the code relies on and no statement of it checks.

**Store** (`MailboxProofs`, `MailboxRefinement`)

| Theorem | Statement | Argument |
|---|---|---|
| `TypeCorrect` | `Spec => []TypeOK` | one lemma per shared transaction, one step per action |
| `ReplayWindow` | `Spec => []TombstoneCoversWindow` | `TombstoneExact`: a fresh envelope has a tombstone with *its own* second. `Unix` is monotone, so an envelope whose instant is past the cutoff has a second not below the cutoff's: prune keeps it. Late callers prune less, never more. |
| `Reviewed` | `Spec => []SentAsReviewed` | `SentAsReviewed` is not inductive: a message can be swept while the draft stays, and be ingested again. `WireMatchesDrafts` says it of every envelope that was ever ingested, `MailWasIngested` ties messages to envelopes, and `DraftIdsMinted`, `WireMinted` keep ids of the two origins apart. |
| `Private` | `Spec => []MailStaysBetweenParties` | threads are never lost and never change parties (`ThreadsKept`); with `ThreadsKeyed` the check of `ensureThread` is against *the* thread |
| `PendingCorrect` | `Spec => PendingIsNeverSwept` | a step either adds drafts, decides one and keeps its row, or sweeps (`DraftSteps`); the sweep passes over what is not decided |
| `UnackedCorrect` | `Spec => UnackedIsKept` | `MessagesKeyed`: a message is one row, so what the sweep learns of its deliveries it learns of the right message; every other step leaves rows or replaces them under their ids (`AuditMark`) |
| `SurfacedCorrect` | `Spec => []SurfacedIffActionable` | no invariant is needed: the query of `read.go` and the guards of `approval.go` and the gate come to the same rows in every state |
| `RelayImplements` | `RelaySpec => ImplementsGatedMail`, for every `MaxLag` | ids released through drafts are used once, whatever the clocks say |
| `StoreArrivesOnce` | `Spec => ArrivesOnceUnlessLate`, for every `MaxLag` | an envelope that is still fresh when it commits has its tombstone (`TombstoneExact`), which refuses its second arrival; one that aged out since its caller read the clock is the one step that is no step of `GatedMail` (`LateReplay`; section 5, stale clocks) |

The refinement proof first turns each step of `GatedMail` into a lemma about
`PhaseOf` and `TurnOf`, then shows of each action of `Mailbox` which of them it
is, or that it is none.

**Tools** (`ToolsProofs`)

| Theorem | Statement | Argument |
|---|---|---|
| `ToolsTypeCorrect` | `ToolsSpec => []ToolsTypeOK` | a stage determines the fields its call carries (`StageTells`) |
| `ToolsImplement` | `ToolsSpec => ImplementsGatedMail` | every step of a tool is a step of `RelaySpec` or none of the store's (`ToolsAreCallers`), so `RelayImplements` applies: three transactions that may stop between any two are as good as one caller |
| `WaitsCorrect` | `ToolsSpec => []WaitsWithinProfile` | `TimeoutWithinCap`: a product that wrapped is still cut to the range between zero and the cap, whatever the width of the word |
| `SlotsCorrect` | `ToolsSpec => []SlotsAreHeldByWaits` | `SlotInv`: the waits of a person are a finite set, growing and shrinking by one call at a time; so the decrement's test for zero never fires |
| `AnswersCorrect` | `ToolsSpec => []AnswersAreTrue` | `AnswerInv`: the draft a call is about to release is its own, was not released by a grant, and has not been reported; so nobody else reports it either |

**Push** (`PushProofs`)

| Theorem | Statement | Argument |
|---|---|---|
| `TypeCorrect` | `Spec => []TypeOK` | with `HeldInv`: a goroutine that runs belongs to a device |
| `NoDeafSocketCorrect` | `Spec => []NoDeafSocket` | `HubInv`: an entry of the hub is a socket of its device whose handler has still to remove it (`EntryInv`); an open socket past `hub.add` has its entry, or has a successor that carries it as `old` (`ReachInv`), and is not its own successor (`OldInv`). Most steps are `Calm`: they take no place and leave none. |
| `NoLostWakeupCorrect` | `Spec => []NoLostWakeup` | `WakeInv` follows the debt through a drain: a registered socket nobody is about to wake has written, or has in the batch at hand, all that is not acknowledged and not still with its sender. A wake pays the debt because it is spent *before* the inbox is read; a snapshot of the hub that is old by the time it is used misses only sockets that registered later, and these start with a wake. |
| `DeliveryImplemented` | `Spec => ImplementsDelivery` | `CopyInv`: sockets hold copies of the inbox that grow old: what a writer has still to write and what is on the wire to the daemon is owed to the device of that socket or was read by it already, what is on the way back or in the read loop's hand was read, and a frame acknowledges one message. An acknowledgement therefore settles what was read even when another socket has settled it before; most steps only lose copies (`LostCopies`). |

**OAuth** (`OAuthProofs`, `OAuthRefinement`)

| Theorem | Statement | Argument |
|---|---|---|
| `TypeCorrect` | `Spec => []TypeOK` | one lemma per handler stage |
| `AccessCorrect` | `Spec => []AccessEndsAfterRevocation` | `AccessInv`: a request that has passed `RecheckDevice` read its clock no later than the revocation, if there is one by now, because the clock was read first and the device looked at afterwards |
| `SpentByItsClientCorrect` | `Spec => SpentByItsClient` | `CodeInv`: the comparison was made on a row that was read earlier; rows are keyed, never change their binding and never come back, so it still holds when the row is consumed |
| `ClientInUseCorrect` | `Spec => []ClientInUseIsRegistered` | a client is registered before anything works for it, and the invariant is inductive with `TypeOK`: what comes into use in a step was in use as something else before it (a request becomes a code or a token and back), and the sweep, which alone removes clients, passes over those with stored tokens and marks the others that something still stands for |
| `BatonImplemented` | `Spec => ImplementsBaton` | `HandsInv`: a chain has a code row, or one request that carries it, or one live token, and never two of these (`OneHand`); new chains and tokens have ids nobody has seen. `NotForked` turns the holder into a plain case distinction, and each action is a step of the baton or none. |

**First start and enrollment** (`BootstrapProofs`)

| Theorem | Statement | Argument |
|---|---|---|
| `TypeCorrect` | `Spec => []TypeOK` | that an id is left for a device takes counting: devices inject into the invites that paid for them (`DeviceIdLeft`) |
| `RosterCorrect` | `Spec => []RosterIsConsistent` | `RowsInv`: the rows of a table are numbered without gaps, so a new row is told from every old one |
| `MigrationCorrect` | `Spec => []StoreIsMigrated` | `MigratedInv`: a process never counts a migration that was not applied, and the version never goes back |
| `CredentialsCorrect` | `Spec => []CredentialsSurvive` | `KeyInv`: one process at a time is between creating the file and filling it; none serves before it is full; whoever serves and whoever signed did so with what it holds. `MintedInv`: the device a credential names is never deleted. |

**Envelope** (`EnvelopeProofs`)

| Theorem | Statement | Argument |
|---|---|---|
| `UnitsOrderIsRankOrder` | for all texts, `CompareUTF16` orders as `RanksBefore` does | Up to the first character in which two texts differ their code units are the same, and the units of that character decide: a surrogate lies below U+E000 and above everything before it, which is where `Rank` puts the characters beyond the basic plane. |
| `UnitsOrderStrictTotal` | the order of names is irreflexive, total and transitive | by the order of ranks, for which it is plain; so sorting has one result, whatever `slices.SortFunc` does in between |
| `StringsReadable` | no string as written is the beginning of another | Two different characters are escaped to texts that differ somewhere both have a character, and no escape begins with the closing quote. So different strings differ at a place both have (`Apart`), and a text that begins another never does. |
| `MembersInUTF16OrderCorrect` | `Spec => []MembersInUTF16Order` | `SortedKeys` is a CHOOSE; a sorted enumeration of any finite set of names exists because each name can be placed by the number of names before it (`NamesAscend`), so what is chosen is sorted, and `UnitsOrderIsRankOrder` says by which order |
| `ContentsToldApart` | no two contents have one canonical form | The names of an envelope's members are four fixed ones, so their sorted order is known and the form is a fixed sequence of pieces. `Apart` carries over from a piece to the sequence that holds it: a part's string, the list of parts, a member, the object. Where one list of parts is a beginning of the other, its closing bracket stands where the other goes on. |
| `VerifiedIsSignedCorrect` | `Spec => []VerifiedIsSigned` | `MadeInv`: a change leaves the signature as it was, so whatever an envelope has become, its signature is one that was made, over the form of a content that was signed. If it verifies, the two forms are equal, and by `ContentsToldApart` so are the contents. |
| `SignedVerifiesCorrect` | `Spec => []SignedVerifies` | `SigningKeepsContent`: the signature is in nothing that is measured, signed or verified, so the caps and the form come out the same before and after it is set |

`FlattenSeq`, with which strings and lists are put together, is a recursive function.
The library's induction theorems take the formula as a parameter and cannot be used
here, but its `NatLessThanWellFounded` and `WFMin` are about sets: they give every
nonempty set of naturals a least member (`Least`), and induction for one given set of
numbers follows (`Upwards`). With it the function exists and adds one
piece at a time (the `Flatten` lemmas), which is all the theorems need of it.

Model-checked only:

* liveness under fairness (`MailExpires`, `WaitsEnd`, `EventuallySettled`,
  `RevokedIsSevered`, `GoroutinesEnd`), which is out of the prover's reach;
* `CanonicalIffEqual`: for strings and for envelopes the theorems above say that one
  form is one content. For documents at large the property also speaks of numbers,
  whose exponents `Itoa` writes recursively and whose meaning is compared over a
  bounded span of powers, so it stays with the run.

## 5. Where the code and its comments part

* **`activity`** — `HasActivity` (`store/read.go:109`) does not ask for the latest
  message as `InboundAwaiting` does. When both parties send in turn, the one who
  sent last is told of activity, and `check_inbox` shows nothing.
* **`oauth_reuse`** — reuse of a refresh token consumes the unconsumed tokens of the
  family (`store/oauth.go:220`). A request that is rotating one has consumed it and
  not stored its successor, so there is nothing to consume; the successor is
  stored afterwards and works, while the comment promises that reuse "forces full
  re-auth for that person on that client".
* **`key_adopt`** — "exactly one generates the key and the rest adopt it"
  (`oauth/token.go:136`). The one that finds the file reads it at once
  (`oauth/token.go:158`), and if the key is not in it yet its start fails. No two
  processes ever serve with different keys (`CredentialsSurvive`).
* **`wait_overflow`** — "a non-positive or over-cap request becomes the cap"
  (`mcp/wait.go:35`). The seconds are multiplied to nanoseconds first
  (`mcp/wait.go:38`), and a product that wraps to a small positive number is
  granted: 18446744074 seconds become 0.29. The bounds themselves hold
  (`WaitsWithinProfile`).

Six more were met while modelling. The models contain them, as the code does, and
properties that touch them name them as their exceptions:

* *A second message.* Only the latest message of a thread is shown
  (`store/read.go:82`), so an ask that is followed by another is never surfaced and
  cannot be decided, although the comment above says "everything someone else has
  sent me that I have not yet acted on".
* *The same second.* "Latest" compares whole seconds. A message already approved is
  shown again if another arrives on its thread within the same second.
* *Stale clocks.* `IngestMessage` judges freshness (`store/message.go:60`) before it
  has the writer lock. A prune with a later clock that commits first removes the
  tombstone, and the envelope is accepted a second time. `ArrivesOnceUnlessLate` has
  this step as its only exception (`LateReplay`). Nothing in the relay calls
  `IngestMessage` yet; for what the relay does call, `RelayImplements` shows that no
  lag does any harm.
* *A failing read.* A nudge is dropped because a drain is pending; that drain ends
  without reading when the query fails (`ws.go:251`). The message waits for the next
  one or for a reconnect (`LeftWaiting`).
* *A failing acknowledgement.* `store.Ack` may return an error, which is logged
  (`ws.go:208`). The acknowledgement is lost, the socket stays open, and the message
  is sent again only at the next nudge or reconnect (`LeftWaiting`).
* *Between two tokens.* "A client in active use always has a refresh token", says
  `store/oauth.go:240`. A token that is consumed shortly before it expires is swept
  while its successor is not stored yet, and a client that comes back after its
  token lapsed has only a code. A sweep at that moment removes the registration of an
  old client; the tokens it gets all the same work until the next authorization
  finds the client unknown (`stranded` in `OAuth`).

## 6. What is not modelled

* Cryptography: ed25519 and SHA-256 are ideal, JWTs are their expiry and their
  signer. `IngestMessage` takes envelopes that verified.
* The redaction hook and its detectors (`internal/redact`): one function around an
  external process that returns an error or its output, and regular expressions.
  Nothing in the relay calls it yet.
* Text: spotlighting, tool descriptions, error texts, the login page, metadata
  documents.
* In `Canon`: numbers that a double cannot hold exactly enough to keep their digits,
  and strings that are not Unicode. `strconv` is taken at its word.
  Documents nest as deep as the run writes them and envelopes need: what stands in an
  array or object inside another one is a scalar (`AppendScalar`).
* In `Signing`: the members of an envelope that are written like the recipient is;
  of a part, all but its text.
* `get_thread`, which reads in three statements and decides nothing.
* HTTP plumbing: routing, body limits, logging, panic recovery, flags.
* Columns nothing reads back: `created_at`, `updated_at`, `granted_at`,
  `delivered_at`'s value. Revoked grants are rows that no query returns.
* Frames of a daemon that are not acknowledgements: the read loop checks
  revocation and drops them.
* Reused ids. A peer mints an id once, as uuids are; what `IngestMessage` may be
  given under a known id is a copy of the envelope that bore it.
* Clock steps backwards. All callers read one clock, which never goes back;
  within that, each may be late.
* A message's removal by the sweeper while a socket is pushing it: to the socket
  it looks like an acknowledgement.

Limits of the tools: liveness under fairness and ENABLED, and induction over data in
general, are left to TLC; the one recursion that the proofs follow is `FlattenSeq`'s.

## 7. Plan

1. `Canon`: the layouts of numbers told apart like strings are, which is what a proof
   of `CanonicalIffEqual` still lacks, and versions of more than one digit with it.
2. `Delivery` and `GatedMail`: one composition in which what the store releases is
   what the sockets owe, so that a message's way can be followed from its draft to
   the daemon.
3. `Tools`: that a draft left behind by a failed `send_message` can only be
   decided by its author, as a theorem over `AnswerInv`.
