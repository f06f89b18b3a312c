------------------------------ MODULE Bootstrap ------------------------------
(***************************************************************************)
(* How a relay and its roster come into being: the processes `askrelay     *)
(* serve' and `askrelay invite' (cmd/askrelay/main.go), the schema they    *)
(* find or create (store/migrate.go), the signing key they share           *)
(* (oauth/token.go), and the invites, persons and devices of               *)
(* store/identity.go and enroll.go.                                        *)
(*                                                                         *)
(* Processes share two files, the database and the key, and nothing else.  *)
(* A transaction on the database is atomic across processes (SQLite), each *)
(* migration is one transaction, and the creation of the key file          *)
(* (O_CREATE|O_EXCL) is atomic; the steps between are not, and a process   *)
(* can stop at any of them.  The database at each start is one that the    *)
(* binaries in Binary left behind.                                         *)
(*                                                                         *)
(* Left out: flags, labels, sizes and encodings of request bodies, the     *)
(* expiry of device credentials (a year), corruption of files in place.    *)
(* Time is only the expiry of an invite.                                   *)
(***************************************************************************)
EXTENDS Integers, FiniteSets

CONSTANTS
    Proc,           \* process slots; a slot is used for one process at a time
    Binary,         \* the versions that are started: migrations each embeds
    Email,
    PubKey,         \* the devices' own ed25519 keys
    MaxInvites,     \* bound: invites ever made
    MaxKeys         \* bound: signing keys ever generated

ASSUME BinaryAssumption == Binary \subseteq Nat \ {0}
ASSUME BootBoundAssumption == MaxInvites \in Nat /\ MaxKeys \in Nat

VARIABLES
    proc,        \* proc[p]: what the process in slot p is doing
    schema,      \* PRAGMA user_version; migration v is applied iff v <= schema
    keyFile,     \* the signing key's file: Absent, Short or a key
    invites, persons, devices,     \* the tables of identity.go
    lastKey,     \* history: signing keys generated so far
    credentials  \* history: the device credentials handed out

roster == <<invites, persons, devices>>
vars == <<proc, schema, keyFile, roster, lastKey, credentials>>

\* What the key file holds, when it is not a key.
Absent == -1
Short == 0

InviteId == 1 .. MaxInvites     \* the n-th invite, person, device made
SigningKey == 1 .. MaxKeys

Invite == [id: InviteId, email: Email, used: BOOLEAN, expired: BOOLEAN]
PersonRow == [id: InviteId, email: Email]
DeviceRow == [id: InviteId, person: InviteId, pubkey: PubKey, active: BOOLEAN,
              invite: InviteId]     \* invite: history, which one paid for it
Credential == [device: InviteId, person: InviteId, signedBy: SigningKey]

Command == {"serve", "invite"}
Exited(why) == [stage |-> "exited", why |-> why]

Process ==
    {Exited(why) : why \in {"stopped", "schema", "migration", "creation", "key"}}
    \cup [stage: {"opening"}, cmd: Command, binary: Binary]
    \cup [stage: {"migrating"}, cmd: Command, binary: Binary, at: Nat]
    \cup [stage: {"keying", "reading", "generating"}, binary: Binary]
    \cup [stage: {"inviting"}, binary: Binary]
    \cup [stage: {"serving"}, binary: Binary, key: SigningKey,
          minting: SUBSET InviteId]

Init ==
    /\ proc = [p \in Proc |-> Exited("stopped")]
    /\ schema = 0
    /\ keyFile = Absent
    /\ invites = {} /\ persons = {} /\ devices = {}
    /\ lastKey = 0
    /\ credentials = {}

Become(p, state) == proc' = [proc EXCEPT ![p] = state]

\* The next uuid, as a number.
NextId(rows) == Cardinality(rows) + 1

-----------------------------------------------------------------------------
(* store.Open and migrate.                                                  *)

Start(p, cmd, binary) ==
    /\ proc[p].stage = "exited"
    /\ Become(p, [stage |-> "opening", cmd |-> cmd, binary |-> binary])
    /\ UNCHANGED <<schema, keyFile, roster, lastKey, credentials>>

\* Variant: counting the applied migrations starts at one.
ReadVersionAhead(p) ==
    /\ proc[p].stage = "opening"
    /\ Become(p, IF schema > proc[p].binary THEN Exited("schema")
                 ELSE [stage |-> "migrating", cmd |-> proc[p].cmd,
                       binary |-> proc[p].binary, at |-> schema + 1])
    /\ UNCHANGED <<schema, keyFile, roster, lastKey, credentials>>

\* PRAGMA user_version, outside of any transaction; a newer schema is refused.
ReadVersion(p) ==
    /\ proc[p].stage = "opening"
    /\ Become(p, IF schema > proc[p].binary THEN Exited("schema")
                 ELSE [stage |-> "migrating", cmd |-> proc[p].cmd,
                       binary |-> proc[p].binary, at |-> schema])
    /\ UNCHANGED <<schema, keyFile, roster, lastKey, credentials>>

\* One migration and the new user_version, in one transaction.  If another
\* process applied it since the version was read its tables already exist:
\* the DDL fails, the transaction is rolled back and the start fails.
ApplyMigration(p) ==
    /\ proc[p].stage = "migrating"
    /\ proc[p].at < proc[p].binary
    /\ \/ /\ schema = proc[p].at
          /\ schema' = schema + 1
          /\ Become(p, [proc[p] EXCEPT !.at = @ + 1])
       \/ /\ schema > proc[p].at
          /\ Become(p, Exited("migration"))
          /\ UNCHANGED schema
    /\ UNCHANGED <<keyFile, roster, lastKey, credentials>>

\* Every embedded migration is applied: Open returns the store.
Opened(p) ==
    /\ proc[p].stage = "migrating"
    /\ proc[p].at >= proc[p].binary
    /\ Become(p, [binary |-> proc[p].binary,
                  stage |-> IF proc[p].cmd = "serve" THEN "keying" ELSE "inviting"])
    /\ UNCHANGED <<schema, keyFile, roster, lastKey, credentials>>

-----------------------------------------------------------------------------
(* oauth.NewIssuer: loadOrCreateKey and readKey.                            *)

\* Variant: the key file is opened without O_EXCL.
CreateKeyAnyway(p) ==
    /\ proc[p].stage = "keying"
    /\ keyFile' = Short
    /\ Become(p, [proc[p] EXCEPT !.stage = "generating"])
    /\ UNCHANGED <<schema, roster, lastKey, credentials>>

\* O_CREATE|O_EXCL: exactly one process creates the file, empty; to the others
\* it exists.
CreateKeyFile(p) ==
    /\ proc[p].stage = "keying"
    /\ IF keyFile = Absent
         THEN /\ keyFile' = Short
              /\ Become(p, [proc[p] EXCEPT !.stage = "generating"])
         ELSE /\ Become(p, [proc[p] EXCEPT !.stage = "reading"])
              /\ UNCHANGED keyFile
    /\ UNCHANGED <<schema, roster, lastKey, credentials>>

\* NewIssuer returns, and the process serves with this key.
Serve(p, key) ==
    Become(p, [stage |-> "serving", binary |-> proc[p].binary, key |-> key,
               minting |-> {}])

\* The key is generated and written, all of it.
WriteKey(p) ==
    /\ proc[p].stage = "generating"
    /\ lastKey < MaxKeys
    /\ lastKey' = lastKey + 1
    /\ keyFile' = lastKey'
    /\ Serve(p, lastKey')
    /\ UNCHANGED <<schema, roster, credentials>>

\* GenerateKey fails, and the empty file is removed; or the write fails, and
\* the file stays, without a whole key in it.  (A failing Close after a whole
\* write is WriteKey followed by Stop: the file holds a key, the start fails.)
CreationFails(p) ==
    /\ proc[p].stage = "generating"
    /\ keyFile' \in {Absent, Short}
    /\ Become(p, Exited("creation"))
    /\ UNCHANGED <<schema, roster, lastKey, credentials>>

\* readKey: a file that does not hold exactly one key is refused, and so is
\* one that is gone by now.
ReadKey(p) ==
    /\ proc[p].stage = "reading"
    /\ IF keyFile \in SigningKey THEN Serve(p, keyFile)
                                 ELSE Become(p, Exited("key"))
    /\ UNCHANGED <<schema, keyFile, roster, lastKey, credentials>>

\* The process stops, orderly or not; a removed or half-written file is left
\* as it is.
Stop(p) ==
    /\ proc[p].stage # "exited"
    /\ Become(p, Exited("stopped"))
    /\ UNCHANGED <<schema, keyFile, roster, lastKey, credentials>>

-----------------------------------------------------------------------------
(* Invites and enrollment.                                                  *)

\* cmdInvite: one write, then the process prints the URL and ends.
CreateInvite(p, e) ==
    /\ proc[p].stage = "inviting"
    /\ NextId(invites) <= MaxInvites
    /\ invites' = invites \cup
         {[id |-> NextId(invites), email |-> e, used |-> FALSE, expired |-> FALSE]}
    /\ Become(p, Exited("stopped"))
    /\ UNCHANGED <<schema, keyFile, persons, devices, lastKey, credentials>>

ExpireInvite(i) ==
    /\ i \in invites /\ ~i.expired
    /\ invites' = (invites \ {i}) \cup {[i EXCEPT !.expired = TRUE]}
    /\ UNCHANGED <<proc, schema, keyFile, persons, devices, lastKey, credentials>>

\* Variant: the id of a person who exists is not scanned.
PersonUnscanned(email, id) ==
    \/ \E row \in persons : row.email = email /\ id = 0 /\ UNCHANGED persons
    \/ /\ \A row \in persons : row.email # email
       /\ id = NextId(persons)
       /\ persons' = persons \cup {[id |-> id, email |-> email]}

\* findOrCreatePerson: id is the person the email belongs to.
FindOrCreatePerson(email, id) ==
    \/ \E row \in persons : row.email = email /\ id = row.id /\ UNCHANGED persons
    \/ /\ \A row \in persons : row.email # email
       /\ id = NextId(persons)
       /\ persons' = persons \cup {[id |-> id, email |-> email]}

KeyInUse(k) == \E d \in devices : d.pubkey = k

\* Variant: the refusal of a key that is in use commits what came before it.
EnrollBurning(p, i, k) ==
    \E id \in 0 .. MaxInvites :
        /\ proc[p].stage = "serving"
        /\ ~i.used /\ ~i.expired
        /\ invites' = (invites \ {i}) \cup {[i EXCEPT !.used = TRUE]}
        /\ FindOrCreatePerson(i.email, id)
        /\ IF KeyInUse(k) THEN UNCHANGED <<devices, proc>>
           ELSE /\ devices' = devices \cup
                     {[id |-> NextId(devices), person |-> id, pubkey |-> k,
                       active |-> TRUE, invite |-> i.id]}
                /\ Become(p, [proc[p] EXCEPT !.minting = @ \cup {NextId(devices)}])
        /\ UNCHANGED <<schema, keyFile, lastKey, credentials>>

\* store.Enroll, called by handleEnroll: the invite is spent, the person found
\* or created and the device inserted in one transaction.  A key that any
\* device ever had, revoked ones included, rolls all of it back.
Enroll(p, i, k) ==
    \E id \in 0 .. MaxInvites :
        /\ proc[p].stage = "serving"
        /\ ~i.used /\ ~i.expired
        /\ ~KeyInUse(k)
        /\ invites' = (invites \ {i}) \cup {[i EXCEPT !.used = TRUE]}
        /\ FindOrCreatePerson(i.email, id)
        /\ devices' = devices \cup
             {[id |-> NextId(devices), person |-> id, pubkey |-> k,
               active |-> TRUE, invite |-> i.id]}
        /\ Become(p, [proc[p] EXCEPT !.minting = @ \cup {NextId(devices)}])
        /\ UNCHANGED <<schema, keyFile, lastKey, credentials>>

\* The second half of handleEnroll: the credential is signed and answered ...
MintDeviceCredential(p, d) ==
    /\ proc[p].stage = "serving"
    /\ d.id \in proc[p].minting
    /\ credentials' = credentials \cup
         {[device |-> d.id, person |-> d.person, signedBy |-> proc[p].key]}
    /\ Become(p, [proc[p] EXCEPT !.minting = @ \ {d.id}])
    /\ UNCHANGED <<schema, keyFile, roster, lastKey>>

\* ... or it is not: the device is enrolled and its invite spent all the same.
MintFails(p, d) ==
    /\ proc[p].stage = "serving"
    /\ d.id \in proc[p].minting
    /\ Become(p, [proc[p] EXCEPT !.minting = @ \ {d.id}])
    /\ UNCHANGED <<schema, keyFile, roster, lastKey, credentials>>

RevokeDevice(d) ==
    /\ d.active
    /\ devices' = (devices \ {d}) \cup {[d EXCEPT !.active = FALSE]}
    /\ UNCHANGED <<proc, schema, keyFile, invites, persons, lastKey, credentials>>

Next ==
    \/ \E p \in Proc :
         \/ \E cmd \in Command, binary \in Binary : Start(p, cmd, binary)
         \/ ReadVersion(p) \/ ApplyMigration(p) \/ Opened(p)
         \/ CreateKeyFile(p) \/ WriteKey(p) \/ CreationFails(p) \/ ReadKey(p)
         \/ Stop(p)
         \/ \E e \in Email : CreateInvite(p, e)
         \/ \E i \in invites, k \in PubKey : Enroll(p, i, k)
         \/ \E d \in devices : MintDeviceCredential(p, d) \/ MintFails(p, d)
    \/ \E i \in invites : ExpireInvite(i)
    \/ \E d \in devices : RevokeDevice(d)

Spec == Init /\ [][Next]_vars

-----------------------------------------------------------------------------
(* Correctness.                                                             *)

TypeOK ==
    /\ proc \in [Proc -> Process]
    /\ schema \in Nat
    /\ keyFile \in {Absent, Short} \cup SigningKey
    /\ invites \subseteq Invite
    /\ persons \subseteq PersonRow
    /\ devices \subseteq DeviceRow
    /\ lastKey \in 0 .. MaxKeys
    /\ credentials \subseteq Credential

\* oauth.VerifyDeviceCredential and store.ActiveDeviceByID, as /ws and
\* /oauth/authorize call them.
Accepts(p, c) ==
    /\ c.signedBy = proc[p].key
    /\ \E d \in devices : d.id = c.device /\ d.person = c.person /\ d.active

\* A credential outlives the process that signed it: whichever processes raced
\* the first start, crashed in it or came later, each one that serves accepts
\* every credential of an active device (oauth/token.go:55-57, :135-138).
CredentialsSurvive ==
    \A p \in Proc, c \in credentials, d \in devices :
        proc[p].stage = "serving" /\ d.id = c.device /\ d.active => Accepts(p, c)

\* An invite is worth exactly one device: it is spent when and only when a
\* device was enrolled on it, a refused attempt costs nothing, the device
\* belongs to the one person of the invite's address, and no two devices ever
\* share a key (store/identity.go:95-99, :132-135).
RosterIsConsistent ==
    /\ \A i \in invites : i.used <=> \E d \in devices : d.invite = i.id
    /\ \A d \in devices : \E i \in invites, row \in persons :
         /\ i.id = d.invite
         /\ row.id = d.person /\ row.email = i.email
    /\ \A d1, d2 \in devices :
         d1.invite = d2.invite \/ d1.pubkey = d2.pubkey => d1 = d2
    /\ \A row1, row2 \in persons : row1.email = row2.email => row1 = row2

\* However many processes open the database at once, and wherever they stop, a
\* process that gets past Open finds every table its binary knows of.
StoreIsMigrated ==
    \A p \in Proc :
        proc[p].stage \in {"keying", "reading", "generating", "inviting", "serving"}
            => schema >= proc[p].binary

-----------------------------------------------------------------------------
(* What a comment of the code says and the code does not do.                *)

\* oauth/token.go:136-138, "if two processes race a first start, exactly one
\* generates the key and the rest adopt it": none has given up over what the
\* key file holds while the one that created it is at work or serves.
RacersAdoptTheKey ==
    \A p, q \in Proc :
        proc[q].stage \in {"generating", "serving"} => proc[p] # Exited("key")

=============================================================================
