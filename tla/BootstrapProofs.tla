--------------------------- MODULE BootstrapProofs ---------------------------
(***************************************************************************)
(* Theorems about module Bootstrap, for any number of processes, any       *)
(* versions of the binary, any addresses and device keys and all bounds.   *)
(***************************************************************************)
EXTENDS Bootstrap, FiniteSetTheorems, TLAPS

-----------------------------------------------------------------------------
(* Tables whose rows are numbered in the order they are made. *)

Numbered(rows) ==
    /\ IsFiniteSet(rows)
    /\ \A row \in rows : row.id \in 1 .. Cardinality(rows)
    /\ \A x, y \in rows : x.id = y.id => x = y

LEMMA AddRow ==
    ASSUME NEW rows, Numbered(rows), NEW row, row.id = NextId(rows)
    PROVE  /\ Numbered(rows \cup {row})
           /\ Cardinality(rows \cup {row}) = NextId(rows)
           /\ NextId(rows) \in Nat \ {0}
<1>1. Cardinality(rows) \in Nat
  BY FS_CardinalityType DEF Numbered
<1>2. row \notin rows
  BY <1>1 DEF Numbered, NextId
<1>3. /\ IsFiniteSet(rows \cup {row})
      /\ Cardinality(rows \cup {row}) = Cardinality(rows) + 1
  BY <1>2, FS_AddElement DEF Numbered
<1>4. QED
  BY <1>1, <1>3 DEF Numbered, NextId

LEMMA ReplaceRow ==
    ASSUME NEW rows, Numbered(rows), NEW x \in rows, NEW y, y.id = x.id
    PROVE  /\ Numbered((rows \ {x}) \cup {y})
           /\ Cardinality((rows \ {x}) \cup {y}) = Cardinality(rows)
<1>1. Cardinality(rows) \in Nat
  BY FS_CardinalityType DEF Numbered
<1>2. /\ IsFiniteSet(rows \ {x})
      /\ Cardinality(rows \ {x}) = Cardinality(rows) - 1
  BY FS_RemoveElement DEF Numbered
<1>3. y \notin rows \ {x}
  BY DEF Numbered
<1>4. /\ IsFiniteSet((rows \ {x}) \cup {y})
      /\ Cardinality((rows \ {x}) \cup {y}) = Cardinality(rows)
  <2>1. /\ IsFiniteSet((rows \ {x}) \cup {y})
        /\ Cardinality((rows \ {x}) \cup {y}) = Cardinality(rows \ {x}) + 1
    BY <1>2, <1>3, FS_AddElement
  <2>2. QED
    BY <1>1, <1>2, <2>1
<1>5. QED
  BY <1>1, <1>4 DEF Numbered

RowsInv ==
    /\ Numbered(invites) /\ Numbered(persons) /\ Numbered(devices)
    /\ Cardinality(invites) <= MaxInvites

-----------------------------------------------------------------------------
(* The steps that touch the roster. *)

LEMMA RosterSteps ==
    ASSUME [Next]_vars
    PROVE  \/ UNCHANGED roster
           \/ \E p \in Proc, e \in Email : CreateInvite(p, e)
           \/ \E p \in Proc, i \in invites, k \in PubKey : Enroll(p, i, k)
           \/ \E i \in invites : ExpireInvite(i)
           \/ \E d \in devices : RevokeDevice(d)
<1>1. CASE \E p \in Proc :
             \/ \E cmd \in Command, binary \in Binary : Start(p, cmd, binary)
             \/ ReadVersion(p) \/ ApplyMigration(p) \/ Opened(p)
             \/ CreateKeyFile(p) \/ WriteKey(p) \/ CreationFails(p) \/ ReadKey(p)
             \/ Stop(p)
  BY <1>1 DEF Start, ReadVersion, ApplyMigration, Opened, CreateKeyFile,
     WriteKey, CreationFails, ReadKey, Stop, roster
<1>2. CASE \E p \in Proc, d \in devices :
             MintDeviceCredential(p, d) \/ MintFails(p, d)
  BY <1>2 DEF MintDeviceCredential, MintFails, roster
<1>3. CASE UNCHANGED vars
  BY <1>3 DEF vars
<1>4. QED
  BY <1>1, <1>2, <1>3 DEF Next

\* The rows that an enrollment writes.
UsedInvite(i) == [i EXCEPT !.used = TRUE]

NewDevice(i, k, id) ==
    [id |-> NextId(devices), person |-> id, pubkey |-> k, active |-> TRUE,
     invite |-> i.id]

LEMMA EnrollRows ==
    ASSUME TypeOK, NEW p \in Proc, NEW i \in invites, NEW k \in PubKey,
           Enroll(p, i, k)
    PROVE  \E id \in 0 .. MaxInvites :
             /\ ~i.used /\ ~KeyInUse(k)
             /\ invites' = (invites \ {i}) \cup {UsedInvite(i)}
             /\ FindOrCreatePerson(i.email, id)
             /\ devices' = devices \cup {NewDevice(i, k, id)}
             /\ UsedInvite(i).id = i.id /\ UsedInvite(i).email = i.email
             /\ UsedInvite(i).used
             /\ NewDevice(i, k, id).id = NextId(devices)
             /\ NewDevice(i, k, id).person = id
             /\ NewDevice(i, k, id).pubkey = k
             /\ NewDevice(i, k, id).invite = i.id
<1>1. /\ UsedInvite(i).id = i.id /\ UsedInvite(i).email = i.email
      /\ UsedInvite(i).used
  BY DEF TypeOK, Invite, UsedInvite
<1>2. \A id : /\ NewDevice(i, k, id).id = NextId(devices)
              /\ NewDevice(i, k, id).person = id
              /\ NewDevice(i, k, id).pubkey = k
              /\ NewDevice(i, k, id).invite = i.id
  BY DEF NewDevice
<1>3. PICK id \in 0 .. MaxInvites :
        /\ ~i.used /\ ~KeyInUse(k)
        /\ invites' = (invites \ {i}) \cup {UsedInvite(i)}
        /\ FindOrCreatePerson(i.email, id)
        /\ devices' = devices \cup {NewDevice(i, k, id)}
  BY DEF Enroll, UsedInvite, NewDevice
<1>4. QED
  BY <1>1, <1>2, <1>3

\* The invite that expires, and the device that is revoked, keep the rest.
LEMMA ExpireRows ==
    ASSUME TypeOK, NEW i \in invites, ExpireInvite(i)
    PROVE  \E x : /\ invites' = (invites \ {i}) \cup {x}
                  /\ x.id = i.id /\ x.email = i.email /\ x.used = i.used
                  /\ UNCHANGED <<persons, devices>>
<1>1. LET x == [i EXCEPT !.expired = TRUE]
      IN  x.id = i.id /\ x.email = i.email /\ x.used = i.used
  BY DEF TypeOK, Invite
<1>2. QED
  BY <1>1 DEF ExpireInvite

LEMMA RevokeRows ==
    ASSUME TypeOK, NEW d \in devices, RevokeDevice(d)
    PROVE  \E x : /\ devices' = (devices \ {d}) \cup {x}
                  /\ x.id = d.id /\ x.person = d.person /\ x.pubkey = d.pubkey
                  /\ x.invite = d.invite
                  /\ UNCHANGED <<invites, persons>>
<1>1. LET x == [d EXCEPT !.active = FALSE]
      IN  /\ x.id = d.id /\ x.person = d.person /\ x.pubkey = d.pubkey
          /\ x.invite = d.invite
  BY DEF TypeOK, DeviceRow
<1>2. QED
  BY <1>1 DEF RevokeDevice

LEMMA CreateRows ==
    ASSUME NEW p \in Proc, NEW e \in Email, CreateInvite(p, e)
    PROVE  \E x : /\ invites' = invites \cup {x}
                  /\ x.id = NextId(invites) /\ x.email = e /\ ~x.used
                  /\ NextId(invites) <= MaxInvites
                  /\ UNCHANGED <<persons, devices>>
<1> DEFINE x == [id |-> NextId(invites), email |-> e, used |-> FALSE,
                 expired |-> FALSE]
<1>1. x.id = NextId(invites) /\ x.email = e /\ ~x.used
  OBVIOUS
<1>2. /\ invites' = invites \cup {x} /\ NextId(invites) <= MaxInvites
      /\ UNCHANGED <<persons, devices>>
  BY DEF CreateInvite
<1>3. QED
  BY <1>1, <1>2

LEMMA NextRows == TypeOK /\ RowsInv /\ [Next]_vars => RowsInv'
<1> SUFFICES ASSUME TypeOK, RowsInv, [Next]_vars
             PROVE  RowsInv'
  OBVIOUS
<1>1. CASE UNCHANGED roster
  BY <1>1 DEF roster, RowsInv, Numbered
<1>2. ASSUME NEW p \in Proc, NEW e \in Email, CreateInvite(p, e)
      PROVE  RowsInv'
  <2>1. PICK x : /\ invites' = invites \cup {x} /\ x.id = NextId(invites)
                 /\ NextId(invites) <= MaxInvites
                 /\ UNCHANGED <<persons, devices>>
    BY <1>2, CreateRows
  <2>2. Numbered(invites') /\ Cardinality(invites') = NextId(invites)
    BY <2>1, AddRow DEF RowsInv
  <2>3. QED
    BY <2>1, <2>2 DEF RowsInv, Numbered
<1>3. ASSUME NEW p \in Proc, NEW i \in invites, NEW k \in PubKey, Enroll(p, i, k)
      PROVE  RowsInv'
  <2>1. PICK id \in 0 .. MaxInvites :
          /\ invites' = (invites \ {i}) \cup {UsedInvite(i)}
          /\ UsedInvite(i).id = i.id
          /\ FindOrCreatePerson(i.email, id)
          /\ devices' = devices \cup {NewDevice(i, k, id)}
          /\ NewDevice(i, k, id).id = NextId(devices)
    BY <1>3, EnrollRows
  <2>2. Numbered(invites') /\ Cardinality(invites') = Cardinality(invites)
    BY <2>1, ReplaceRow DEF RowsInv
  <2>3. Numbered(devices')
    BY <2>1, AddRow DEF RowsInv
  <2>4. Numbered(persons')
    BY <2>1, AddRow DEF RowsInv, FindOrCreatePerson
  <2>5. QED
    BY <2>2, <2>3, <2>4 DEF RowsInv, Numbered
<1>4. ASSUME NEW i \in invites, ExpireInvite(i)
      PROVE  RowsInv'
  <2>1. PICK x : /\ invites' = (invites \ {i}) \cup {x} /\ x.id = i.id
                 /\ UNCHANGED <<persons, devices>>
    BY <1>4, ExpireRows
  <2>2. Numbered(invites') /\ Cardinality(invites') = Cardinality(invites)
    BY <2>1, ReplaceRow DEF RowsInv
  <2>3. QED
    BY <2>1, <2>2 DEF RowsInv, Numbered
<1>5. ASSUME NEW d \in devices, RevokeDevice(d)
      PROVE  RowsInv'
  <2>1. PICK x : /\ devices' = (devices \ {d}) \cup {x} /\ x.id = d.id
                 /\ UNCHANGED <<invites, persons>>
    BY <1>5, RevokeRows
  <2>2. Numbered(devices')
    BY <2>1, ReplaceRow DEF RowsInv
  <2>3. QED
    BY <2>1, <2>2 DEF RowsInv, Numbered
<1>6. QED
  BY <1>1, <1>2, <1>3, <1>4, <1>5, RosterSteps

-----------------------------------------------------------------------------
(* The roster stays consistent. *)

LEMMA EnrollKeepsRoster ==
    ASSUME TypeOK, RowsInv, RosterIsConsistent,
           NEW p \in Proc, NEW i \in invites, NEW k \in PubKey, Enroll(p, i, k)
    PROVE  RosterIsConsistent'
<1>1. PICK id \in 0 .. MaxInvites :
        /\ ~i.used /\ ~KeyInUse(k)
        /\ invites' = (invites \ {i}) \cup {UsedInvite(i)}
        /\ FindOrCreatePerson(i.email, id)
        /\ devices' = devices \cup {NewDevice(i, k, id)}
        /\ UsedInvite(i).id = i.id /\ UsedInvite(i).email = i.email
        /\ UsedInvite(i).used
        /\ NewDevice(i, k, id).person = id
        /\ NewDevice(i, k, id).pubkey = k
        /\ NewDevice(i, k, id).invite = i.id
  BY EnrollRows
<1>2. PICK x, y : /\ invites' = (invites \ {i}) \cup {x}
                  /\ devices' = devices \cup {y}
                  /\ x.id = i.id /\ x.email = i.email /\ x.used
                  /\ y.person = id /\ y.pubkey = k /\ y.invite = i.id
  BY <1>1
<1>3. \A j \in invites : j.id = i.id => j = i
  BY DEF RowsInv, Numbered
<1>4. \A d \in devices : d.invite # i.id /\ d.pubkey # k
  <2>1. \A d \in devices : d.invite # i.id
    BY <1>1 DEF RosterIsConsistent
  <2>2. QED
    BY <1>1, <2>1 DEF KeyInUse
<1>5. \A j \in invites' : j.used <=> \E d \in devices' : d.invite = j.id
  BY <1>2, <1>3, <1>4 DEF RosterIsConsistent
<1>6. /\ persons \subseteq persons'
      /\ \E row \in persons' : row.id = id /\ row.email = i.email
      /\ \A r1, r2 \in persons' : r1.email = r2.email => r1 = r2
  <2>1. CASE \E row \in persons :
               row.email = i.email /\ id = row.id /\ UNCHANGED persons
    BY <2>1 DEF RosterIsConsistent
  <2>2. CASE /\ \A row \in persons : row.email # i.email
             /\ id = NextId(persons)
             /\ persons' = persons \cup {[id |-> id, email |-> i.email]}
    <3>1. PICK row : /\ row.id = id /\ row.email = i.email
                     /\ persons' = persons \cup {row}
      BY <2>2
    <3>2. QED
      BY <2>2, <3>1 DEF RosterIsConsistent
  <2>3. QED
    BY <1>1, <2>1, <2>2 DEF FindOrCreatePerson
<1>7. \A d \in devices' : \E j \in invites', row \in persons' :
         j.id = d.invite /\ row.id = d.person /\ row.email = j.email
  <2>1. ASSUME NEW d \in devices
        PROVE  \E j \in invites', row \in persons' :
                 j.id = d.invite /\ row.id = d.person /\ row.email = j.email
    <3>1. PICK j \in invites, row \in persons :
            j.id = d.invite /\ row.id = d.person /\ row.email = j.email
      BY DEF RosterIsConsistent
    <3>2. j \in invites' /\ row \in persons'
      BY <1>2, <1>4, <1>6, <3>1
    <3>3. QED
      BY <3>1, <3>2
  <2>2. QED
    BY <1>2, <1>6, <2>1
<1>8. \A d1, d2 \in devices' :
         d1.invite = d2.invite \/ d1.pubkey = d2.pubkey => d1 = d2
  BY <1>2, <1>4 DEF RosterIsConsistent
<1>9. QED
  BY <1>5, <1>6, <1>7, <1>8 DEF RosterIsConsistent

LEMMA NextRoster ==
    TypeOK /\ RowsInv /\ RosterIsConsistent /\ [Next]_vars => RosterIsConsistent'
<1> SUFFICES ASSUME TypeOK, RowsInv, RosterIsConsistent, [Next]_vars
             PROVE  RosterIsConsistent'
  OBVIOUS
<1>1. CASE UNCHANGED roster
  BY <1>1 DEF roster, RosterIsConsistent
<1>2. ASSUME NEW p \in Proc, NEW e \in Email, CreateInvite(p, e)
      PROVE  RosterIsConsistent'
  <2>1. PICK x : /\ invites' = invites \cup {x}
                 /\ x.id = NextId(invites) /\ ~x.used
                 /\ UNCHANGED <<persons, devices>>
    BY <1>2, CreateRows
  <2>2. \A j \in invites : j.id # x.id
    BY <2>1, FS_CardinalityType DEF RowsInv, Numbered, NextId
  <2>3. \A d \in devices : d.invite # x.id
    BY <2>2 DEF RosterIsConsistent
  <2>4. QED
    BY <2>1, <2>2, <2>3 DEF RosterIsConsistent
<1>3. ASSUME NEW p \in Proc, NEW i \in invites, NEW k \in PubKey, Enroll(p, i, k)
      PROVE  RosterIsConsistent'
  BY <1>3, EnrollKeepsRoster
<1>4. ASSUME NEW i \in invites, ExpireInvite(i)
      PROVE  RosterIsConsistent'
  <2>1. PICK x : /\ invites' = (invites \ {i}) \cup {x}
                 /\ x.id = i.id /\ x.email = i.email /\ x.used = i.used
                 /\ UNCHANGED <<persons, devices>>
    BY <1>4, ExpireRows
  <2>2. \A d \in devices : \E j \in invites', row \in persons :
           j.id = d.invite /\ row.id = d.person /\ row.email = j.email
    <3>1. TAKE d \in devices
    <3>2. PICK j \in invites, row \in persons :
            j.id = d.invite /\ row.id = d.person /\ row.email = j.email
      BY DEF RosterIsConsistent
    <3>3. CASE j = i
      BY <2>1, <3>2, <3>3
    <3>4. CASE j # i
      BY <2>1, <3>2, <3>4
    <3>5. QED
      BY <3>3, <3>4
  <2>3. QED
    BY <2>1, <2>2 DEF RosterIsConsistent
<1>5. ASSUME NEW d \in devices, RevokeDevice(d)
      PROVE  RosterIsConsistent'
  <2>1. PICK x : /\ devices' = (devices \ {d}) \cup {x}
                 /\ x.person = d.person /\ x.pubkey = d.pubkey
                 /\ x.invite = d.invite
                 /\ UNCHANGED <<invites, persons>>
    BY <1>5, RevokeRows
  <2>2. \A j : (\E e \in devices' : e.invite = j)
                  <=> (\E e \in devices : e.invite = j)
    BY <2>1
  <2>3. QED
    BY <2>1, <2>2 DEF RosterIsConsistent
<1>6. QED
  BY <1>1, <1>2, <1>3, <1>4, <1>5, RosterSteps

-----------------------------------------------------------------------------
(* Type correctness.  That a new device has an id left is the point: every *)
(* device was paid for by another invite, so there are fewer devices than  *)
(* invites as long as one of them is unused.                               *)

LEMMA DeviceIdLeft ==
    ASSUME TypeOK, RowsInv, RosterIsConsistent, NEW i \in invites, ~i.used
    PROVE  NextId(devices) \in InviteId
<1> DEFINE n == Cardinality(invites)
           T == (1 .. n) \ {i.id}
           f == [d \in devices |-> d.invite]
<1>1. n \in Nat /\ n <= MaxInvites /\ i.id \in 1 .. n
  BY FS_CardinalityType DEF RowsInv, Numbered
<1>2. IsFiniteSet(T) /\ Cardinality(T) = n - 1
  <2>1. IsFiniteSet(1 .. n) /\ Cardinality(1 .. n) = n
    BY <1>1, FS_Interval
  <2>2. QED
    BY <1>1, <2>1, FS_RemoveElement
<1>3. f \in Injection(devices, T)
  <2>1. ASSUME NEW d \in devices
        PROVE  d.invite \in T
    <3>1. PICK j \in invites : j.id = d.invite
      BY DEF RosterIsConsistent
    <3>2. d.invite # i.id
      BY DEF RosterIsConsistent
    <3>3. QED
      BY <3>1, <3>2 DEF RowsInv, Numbered
  <2>2. f \in [devices -> T]
    BY <2>1
  <2>3. \A a, b \in devices : f[a] = f[b] => a = b
    BY DEF RosterIsConsistent
  <2>4. QED
    BY <2>2, <2>3 DEF Injection, IsInjective
<1>4. Cardinality(devices) \in Nat /\ Cardinality(devices) <= n - 1
  <2>1. Cardinality(devices) <= Cardinality(T)
    BY <1>2, <1>3, FS_Injection
  <2>2. Cardinality(devices) \in Nat
    BY FS_CardinalityType DEF RowsInv, Numbered
  <2>3. QED
    BY <1>2, <2>1, <2>2
<1>5. QED
  BY <1>1, <1>4, BootBoundAssumption DEF NextId, InviteId

\* A process's stage tells what it carries.
LEMMA StageTells ==
    ASSUME proc \in [Proc -> Process], NEW p \in Proc
    PROVE  /\ proc[p].stage = "opening" =>
                proc[p] \in [stage: {"opening"}, cmd: Command, binary: Binary]
           /\ proc[p].stage = "migrating" =>
                proc[p] \in [stage: {"migrating"}, cmd: Command, binary: Binary,
                             at: Nat]
           /\ proc[p].stage \in {"keying", "reading", "generating"} =>
                proc[p] \in [stage: {"keying", "reading", "generating"},
                             binary: Binary]
           /\ proc[p].stage = "inviting" =>
                proc[p] \in [stage: {"inviting"}, binary: Binary]
           /\ proc[p].stage = "serving" =>
                proc[p] \in [stage: {"serving"}, binary: Binary, key: SigningKey,
                             minting: SUBSET InviteId]
  BY DEF Process, Exited

LEMMA BecomeType ==
    ASSUME proc \in [Proc -> Process], NEW p \in Proc,
           NEW state \in Process, Become(p, state)
    PROVE  proc' \in [Proc -> Process]
  BY DEF Become

LEMMA ExitedType ==
    \A why \in {"stopped", "schema", "migration", "creation", "key"} :
        Exited(why) \in Process
  BY DEF Process

LEMMA InitType == Init => TypeOK
  BY ExitedType, BootBoundAssumption DEF Init, TypeOK

\* Only the process in one slot moves, and the roster stays.
LEMMA ProcessType ==
    ASSUME TypeOK, NEW p \in Proc, NEW state \in Process, Become(p, state),
           schema' \in Nat, keyFile' \in {Absent, Short} \cup SigningKey,
           lastKey' \in 0 .. MaxKeys, UNCHANGED <<roster, credentials>>
    PROVE  TypeOK'
  BY BecomeType DEF TypeOK, roster

LEMMA NextType ==
    TypeOK /\ RowsInv /\ RosterIsConsistent /\ [Next]_vars => TypeOK'
<1> SUFFICES ASSUME TypeOK, RowsInv, RosterIsConsistent, [Next]_vars
             PROVE  TypeOK'
  OBVIOUS
<1>0. /\ proc \in [Proc -> Process] /\ schema \in Nat
      /\ keyFile \in {Absent, Short} \cup SigningKey /\ lastKey \in 0 .. MaxKeys
  BY DEF TypeOK
<1>1. ASSUME NEW p \in Proc, NEW cmd \in Command, NEW binary \in Binary,
             Start(p, cmd, binary)
      PROVE  TypeOK'
  <2>1. [stage |-> "opening", cmd |-> cmd, binary |-> binary] \in Process
    BY DEF Process
  <2>2. QED
    BY <1>0, <1>1, <2>1, ProcessType DEF Start
<1>2. ASSUME NEW p \in Proc, ReadVersion(p)
      PROVE  TypeOK'
  <2>1. [stage |-> "migrating", cmd |-> proc[p].cmd,
         binary |-> proc[p].binary, at |-> schema] \in Process
    BY <1>0, <1>2, StageTells DEF ReadVersion, Process
  <2>2. QED
    BY <1>0, <1>2, <2>1, ExitedType, ProcessType DEF ReadVersion
<1>3. ASSUME NEW p \in Proc, ApplyMigration(p)
      PROVE  TypeOK'
  <2>1. [proc[p] EXCEPT !.at = @ + 1] \in Process
    <3>1. proc[p] \in [stage: {"migrating"}, cmd: Command, binary: Binary, at: Nat]
      BY <1>0, <1>3, StageTells DEF ApplyMigration
    <3>2. [proc[p] EXCEPT !.at = @ + 1]
            \in [stage: {"migrating"}, cmd: Command, binary: Binary, at: Nat]
      BY <3>1
    <3>3. QED
      BY <3>2 DEF Process
  <2>2. QED
    BY <1>0, <1>3, <2>1, ExitedType, ProcessType DEF ApplyMigration
<1>4. ASSUME NEW p \in Proc, Opened(p)
      PROVE  TypeOK'
  <2>1. [binary |-> proc[p].binary,
         stage |-> IF proc[p].cmd = "serve" THEN "keying" ELSE "inviting"]
           \in Process
    BY <1>0, <1>4, StageTells DEF Opened, Process
  <2>2. QED
    BY <1>0, <1>4, <2>1, ProcessType DEF Opened
<1>5. ASSUME NEW p \in Proc, CreateKeyFile(p)
      PROVE  TypeOK'
  <2>1. /\ [proc[p] EXCEPT !.stage = "generating"] \in Process
        /\ [proc[p] EXCEPT !.stage = "reading"] \in Process
    BY <1>0, <1>5, StageTells DEF CreateKeyFile, Process
  <2>2. QED
    BY <1>0, <1>5, <2>1, ProcessType DEF CreateKeyFile
<1>6. \A p \in Proc : \A key \in SigningKey :
        proc[p].stage \in {"reading", "generating"} =>
          [stage |-> "serving", binary |-> proc[p].binary, key |-> key,
           minting |-> {}] \in Process
  BY <1>0, StageTells DEF Process
<1>7. ASSUME NEW p \in Proc, WriteKey(p)
      PROVE  TypeOK'
  <2>1. lastKey' \in SigningKey /\ lastKey' \in 0 .. MaxKeys
    BY <1>0, <1>7, BootBoundAssumption DEF WriteKey, SigningKey
  <2>2. QED
    BY <1>6, <1>7, <1>0, <2>1, ProcessType DEF WriteKey, Serve
<1>8. ASSUME NEW p \in Proc, CreationFails(p)
      PROVE  TypeOK'
  BY <1>0, <1>8, ExitedType, ProcessType DEF CreationFails
<1>9. ASSUME NEW p \in Proc, ReadKey(p)
      PROVE  TypeOK'
  BY <1>0, <1>6, <1>9, ExitedType, ProcessType DEF ReadKey, Serve
<1>10. ASSUME NEW p \in Proc, Stop(p)
       PROVE  TypeOK'
  BY <1>0, <1>10, ExitedType, ProcessType DEF Stop
<1>11. ASSUME NEW p \in Proc, NEW e \in Email, CreateInvite(p, e)
       PROVE  TypeOK'
  <2>1. NextId(invites) \in InviteId
    BY <1>11, AddRow, FS_CardinalityType
       DEF CreateInvite, InviteId, RowsInv, Numbered, NextId
  <2>2. [id |-> NextId(invites), email |-> e, used |-> FALSE, expired |-> FALSE]
          \in Invite
    BY <2>1 DEF Invite
  <2>3. proc' \in [Proc -> Process]
    BY <1>0, <1>11, ExitedType, BecomeType DEF CreateInvite
  <2>4. QED
    BY <1>11, <2>2, <2>3 DEF CreateInvite, TypeOK
<1>12. ASSUME NEW p \in Proc, NEW i \in invites, NEW k \in PubKey, Enroll(p, i, k)
       PROVE  TypeOK'
  <2>1. PICK id \in 0 .. MaxInvites :
          /\ ~i.used
          /\ invites' = (invites \ {i}) \cup {[i EXCEPT !.used = TRUE]}
          /\ FindOrCreatePerson(i.email, id)
          /\ devices' = devices \cup
               {[id |-> NextId(devices), person |-> id, pubkey |-> k,
                 active |-> TRUE, invite |-> i.id]}
          /\ Become(p, [proc[p] EXCEPT !.minting = @ \cup {NextId(devices)}])
          /\ UNCHANGED <<schema, keyFile, lastKey, credentials>>
    BY <1>12 DEF Enroll
  <2>2. NextId(devices) \in InviteId
    BY <2>1, DeviceIdLeft
  <2>3. invites' \subseteq Invite /\ i.id \in InviteId /\ i.email \in Email
    BY <2>1 DEF TypeOK, Invite
  <2>4. id \in InviteId /\ persons' \subseteq PersonRow
    <3>1. CASE \E row \in persons : id = row.id /\ UNCHANGED persons
      BY <3>1 DEF TypeOK, PersonRow
    <3>2. CASE /\ id = NextId(persons)
               /\ persons' = persons \cup {[id |-> id, email |-> i.email]}
      <4>1. id \in InviteId
        BY <3>2, FS_CardinalityType, BootBoundAssumption
           DEF RowsInv, Numbered, NextId, InviteId
      <4>2. QED
        BY <2>3, <3>2, <4>1 DEF TypeOK, PersonRow
    <3>3. QED
      BY <2>1, <3>1, <3>2 DEF FindOrCreatePerson
  <2>5. [id |-> NextId(devices), person |-> id, pubkey |-> k, active |-> TRUE,
         invite |-> i.id] \in DeviceRow
    BY <2>2, <2>3, <2>4 DEF DeviceRow
  <2>6. [proc[p] EXCEPT !.minting = @ \cup {NextId(devices)}] \in Process
    <3>1. proc[p] \in [stage: {"serving"}, binary: Binary, key: SigningKey,
                       minting: SUBSET InviteId]
      BY <1>0, <1>12, StageTells DEF Enroll
    <3>2. [proc[p] EXCEPT !.minting = @ \cup {NextId(devices)}]
            \in [stage: {"serving"}, binary: Binary, key: SigningKey,
                 minting: SUBSET InviteId]
      BY <2>2, <3>1
    <3>3. QED
      BY <3>2 DEF Process
  <2>7. proc' \in [Proc -> Process]
    BY <1>0, <2>1, <2>6, BecomeType
  <2>8. QED
    BY <2>1, <2>3, <2>4, <2>5, <2>7 DEF TypeOK
<1>13. ASSUME NEW p \in Proc, NEW d \in devices,
              MintDeviceCredential(p, d) \/ MintFails(p, d)
       PROVE  TypeOK'
  <2>1. proc[p] \in [stage: {"serving"}, binary: Binary, key: SigningKey,
                     minting: SUBSET InviteId]
    BY <1>0, <1>13, StageTells DEF MintDeviceCredential, MintFails
  <2>2. [proc[p] EXCEPT !.minting = @ \ {d.id}]
          \in [stage: {"serving"}, binary: Binary, key: SigningKey,
               minting: SUBSET InviteId]
    BY <2>1
  <2>3. [proc[p] EXCEPT !.minting = @ \ {d.id}] \in Process
    BY <2>2 DEF Process
  <2>4. [device |-> d.id, person |-> d.person, signedBy |-> proc[p].key]
          \in Credential
    BY <2>1 DEF TypeOK, DeviceRow, Credential
  <2>5. proc' \in [Proc -> Process]
    BY <1>0, <1>13, <2>3, BecomeType DEF MintDeviceCredential, MintFails
  <2>6. QED
    BY <1>13, <2>4, <2>5 DEF MintDeviceCredential, MintFails, TypeOK, roster
<1>14. ASSUME NEW i \in invites, ExpireInvite(i)
       PROVE  TypeOK'
  <2>1. [i EXCEPT !.expired = TRUE] \in Invite
    BY DEF TypeOK, Invite
  <2>2. QED
    BY <1>14, <2>1 DEF ExpireInvite, TypeOK
<1>15. ASSUME NEW d \in devices, RevokeDevice(d)
       PROVE  TypeOK'
  <2>1. [d EXCEPT !.active = FALSE] \in DeviceRow
    BY DEF TypeOK, DeviceRow
  <2>2. QED
    BY <1>15, <2>1 DEF RevokeDevice, TypeOK
<1>16. CASE UNCHANGED vars
  BY <1>16 DEF vars, roster, TypeOK
<1>17. QED
  BY <1>1, <1>2, <1>3, <1>4, <1>5, <1>7, <1>8, <1>9, <1>10, <1>11, <1>12, <1>13,
     <1>14, <1>15, <1>16 DEF Next

LEMMA InitRows == Init => RowsInv /\ RosterIsConsistent
  BY FS_EmptySet, BootBoundAssumption DEF Init, RowsInv, Numbered,
     RosterIsConsistent

LEMMA RosterInvariant == Spec => [](TypeOK /\ RowsInv /\ RosterIsConsistent)
  BY InitType, InitRows, NextType, NextRows, NextRoster, PTL DEF Spec

\* Every reachable state of the two files and the processes is well-formed; in
\* particular a device that an invite pays for finds an id left.
THEOREM TypeCorrect == Spec => []TypeOK
  BY RosterInvariant, PTL

\* An invite pays for exactly one device, of the one person of its address, and
\* no two devices share a key, however enrollments, refusals, revocations and
\* crashes of several processes interleave.
THEOREM RosterCorrect == Spec => []RosterIsConsistent
  BY RosterInvariant, PTL

-----------------------------------------------------------------------------
(* A process that got past Open finds every table its binary knows of. *)

LEMMA BecomeMoves ==
    ASSUME TypeOK, NEW p \in Proc, NEW state, Become(p, state)
    PROVE  \A q \in Proc : proc'[q] = IF q = p THEN state ELSE proc[q]
  BY DEF TypeOK, Become

PastOpen == {"keying", "reading", "generating", "inviting", "serving"}

\* A process that migrates never counts migrations that were not applied.
MigratedInv ==
    /\ \A p \in Proc : proc[p].stage = "migrating" => proc[p].at <= schema
    /\ StoreIsMigrated

LEMMA MigratedMove ==
    ASSUME TypeOK, MigratedInv, NEW p \in Proc, NEW state, Become(p, state),
           UNCHANGED schema,
           state.stage = "migrating" => state.at <= schema,
           state.stage \in PastOpen => schema >= state.binary
    PROVE  MigratedInv'
  BY BecomeMoves DEF MigratedInv, StoreIsMigrated, PastOpen

LEMMA NextMigrated == TypeOK /\ MigratedInv /\ [Next]_vars => MigratedInv'
<1> SUFFICES ASSUME TypeOK, MigratedInv, [Next]_vars
             PROVE  MigratedInv'
  OBVIOUS
<1>0. \A why : Exited(why).stage = "exited"
  BY DEF Exited
<1>1. ASSUME NEW p \in Proc, NEW cmd \in Command, NEW binary \in Binary,
             Start(p, cmd, binary)
      PROVE  MigratedInv'
  BY <1>1, MigratedMove DEF Start, PastOpen
<1>2. ASSUME NEW p \in Proc, ReadVersion(p)
      PROVE  MigratedInv'
  BY <1>0, <1>2, MigratedMove DEF ReadVersion, PastOpen, TypeOK
<1>3. ASSUME NEW p \in Proc, ApplyMigration(p)
      PROVE  MigratedInv'
  <2>1. CASE UNCHANGED schema /\ Become(p, Exited("migration"))
    BY <1>0, <2>1, MigratedMove DEF PastOpen
  <2>2. CASE /\ schema = proc[p].at /\ schema' = schema + 1
             /\ Become(p, [proc[p] EXCEPT !.at = @ + 1])
    <3> DEFINE state == [proc[p] EXCEPT !.at = @ + 1]
    <3>1. state.stage = "migrating" /\ state.at = schema'
      BY <1>3, <2>2, StageTells DEF ApplyMigration, TypeOK
    <3>2. \A q \in Proc : proc'[q] = IF q = p THEN state ELSE proc[q]
      BY <2>2, BecomeMoves
    <3>3. schema \in Nat /\ schema' \in Nat /\ schema' > schema
      BY <2>2 DEF TypeOK
    <3>4. \A q \in Proc : /\ proc[q].stage = "migrating" => proc[q].at \in Nat
                          /\ proc[q].stage \in PastOpen => proc[q].binary \in Nat
      BY StageTells, BinaryAssumption DEF TypeOK, PastOpen
    <3> HIDE DEF state
    <3>5. QED
      BY <3>1, <3>2, <3>3, <3>4 DEF MigratedInv, StoreIsMigrated, PastOpen
  <2>3. QED
    BY <1>3, <2>1, <2>2 DEF ApplyMigration
<1>4. ASSUME NEW p \in Proc, Opened(p)
      PROVE  MigratedInv'
  <2> DEFINE state == [binary |-> proc[p].binary,
                       stage |-> IF proc[p].cmd = "serve" THEN "keying"
                                                          ELSE "inviting"]
  <2>1. /\ state.stage # "migrating" /\ state.binary = proc[p].binary
        /\ Become(p, state) /\ UNCHANGED schema
    BY <1>4 DEF Opened
  <2>2. /\ proc[p].at \in Nat /\ proc[p].binary \in Nat /\ schema \in Nat
        /\ proc[p].at <= schema /\ proc[p].at >= proc[p].binary
    BY <1>4, StageTells, BinaryAssumption DEF Opened, TypeOK, MigratedInv
  <2>3. schema >= state.binary
    BY <2>1, <2>2
  <2> HIDE DEF state
  <2>4. QED
    BY <2>1, <2>3, MigratedMove
<1>5. ASSUME NEW p \in Proc, CreateKeyFile(p) \/ ReadKey(p) \/ WriteKey(p)
      PROVE  MigratedInv'
  <2>1. proc[p].stage \in PastOpen /\ schema >= proc[p].binary /\ UNCHANGED schema
    BY <1>5 DEF CreateKeyFile, ReadKey, WriteKey, PastOpen, MigratedInv,
       StoreIsMigrated
  <2>2. PICK state : /\ Become(p, state) /\ state.stage # "migrating"
                     /\ \/ state.binary = proc[p].binary
                        \/ state.stage = "exited"
    <3>1. CASE CreateKeyFile(p)
      <4>1. \A stage \in {"generating", "reading"} :
               /\ [proc[p] EXCEPT !.stage = stage].stage = stage
               /\ [proc[p] EXCEPT !.stage = stage].binary = proc[p].binary
        BY <3>1, StageTells DEF CreateKeyFile, TypeOK
      <4>2. QED
        BY <3>1, <4>1 DEF CreateKeyFile
    <3>2. CASE WriteKey(p) \/ ReadKey(p)
      BY <1>0, <3>2 DEF WriteKey, ReadKey, Serve
    <3>3. QED
      BY <1>5, <3>1, <3>2
  <2>3. state.stage \in PastOpen => schema >= state.binary
    BY <2>1, <2>2 DEF PastOpen
  <2>4. QED
    BY <2>1, <2>2, <2>3, MigratedMove
<1>6. ASSUME NEW p \in Proc, CreationFails(p) \/ Stop(p)
      PROVE  MigratedInv'
  BY <1>0, <1>6, MigratedMove DEF CreationFails, Stop, PastOpen
<1>7. ASSUME NEW p \in Proc, NEW e \in Email, CreateInvite(p, e)
      PROVE  MigratedInv'
  BY <1>0, <1>7, MigratedMove DEF CreateInvite, PastOpen
<1>8. ASSUME NEW p \in Proc, proc[p].stage = "serving", UNCHANGED schema,
             NEW S, Become(p, [proc[p] EXCEPT !.minting = S])
      PROVE  MigratedInv'
  <2>1. /\ [proc[p] EXCEPT !.minting = S].stage = "serving"
        /\ [proc[p] EXCEPT !.minting = S].binary = proc[p].binary
    BY <1>8, StageTells DEF TypeOK
  <2>2. schema >= proc[p].binary
    BY <1>8 DEF MigratedInv, StoreIsMigrated
  <2>3. QED
    BY <1>8, <2>1, <2>2, MigratedMove
<1>9. ASSUME NEW p \in Proc, NEW i \in invites, NEW k \in PubKey, Enroll(p, i, k)
      PROVE  MigratedInv'
  BY <1>8, <1>9 DEF Enroll
<1>10. ASSUME NEW p \in Proc, NEW d \in devices,
              MintDeviceCredential(p, d) \/ MintFails(p, d)
       PROVE  MigratedInv'
  BY <1>8, <1>10 DEF MintDeviceCredential, MintFails
<1>11. CASE \/ \E i \in invites : ExpireInvite(i)
            \/ \E d \in devices : RevokeDevice(d)
            \/ UNCHANGED vars
  BY <1>11 DEF ExpireInvite, RevokeDevice, vars, MigratedInv, StoreIsMigrated
<1>12. QED
  BY <1>1, <1>2, <1>3, <1>4, <1>5, <1>6, <1>7, <1>9, <1>10, <1>11 DEF Next

LEMMA InitMigrated == Init => MigratedInv
  BY DEF Init, MigratedInv, StoreIsMigrated, Exited

\* However many processes of whatever versions open the database at once, and
\* wherever they stop, one that gets past Open finds its tables.
THEOREM MigrationCorrect == Spec => []StoreIsMigrated
<1>1. MigratedInv => StoreIsMigrated
  BY DEF MigratedInv
<1>2. QED
  BY <1>1, InitMigrated, NextMigrated, TypeCorrect, PTL DEF Spec

-----------------------------------------------------------------------------
(* Credentials outlive the processes that signed them. *)

\* One process at a time fills the key file, none serves before it did, and
\* what is served with and was signed with is what the file holds.
KeyInv ==
    /\ \A p \in Proc : proc[p].stage = "generating" => keyFile = Short
    /\ \A p, q \in Proc :
         proc[p].stage = "generating" /\ proc[q].stage = "generating" => p = q
    /\ \A p \in Proc : proc[p].stage = "serving" => keyFile = proc[p].key
    /\ \A c \in credentials : keyFile = c.signedBy

\* A credential names a device that is still there, and its person.
MintedInv ==
    \A c \in credentials : \E d \in devices :
        d.id = c.device /\ d.person = c.person

\* One process moves on, the key file stays.
LEMMA KeyMove ==
    ASSUME TypeOK, KeyInv, NEW p \in Proc, NEW state, Become(p, state),
           UNCHANGED <<keyFile, credentials>>,
           state.stage # "generating",
           state.stage = "serving" => keyFile = state.key
    PROVE  KeyInv'
  BY BecomeMoves DEF KeyInv

\* Without a key in the file nobody serves and nothing was signed.
LEMMA NoKeyYet ==
    ASSUME TypeOK, KeyInv, keyFile \in {Absent, Short}
    PROVE  /\ \A q \in Proc : proc[q].stage # "serving"
           /\ credentials = {}
<1>1. keyFile \notin SigningKey
  BY DEF Absent, Short, SigningKey
<1>2. \A q \in Proc : proc[q].stage = "serving" => proc[q].key \in SigningKey
  BY StageTells DEF TypeOK
<1>3. \A c \in credentials : c.signedBy \in SigningKey
  BY DEF TypeOK, Credential
<1>4. QED
  BY <1>1, <1>2, <1>3 DEF KeyInv

LEMMA NextKey == TypeOK /\ KeyInv /\ [Next]_vars => KeyInv'
<1> SUFFICES ASSUME TypeOK, KeyInv, [Next]_vars
             PROVE  KeyInv'
  OBVIOUS
<1>0. \A why : Exited(why).stage = "exited"
  BY DEF Exited
<1>1. ASSUME NEW p \in Proc, NEW cmd \in Command, NEW binary \in Binary,
             Start(p, cmd, binary)
      PROVE  KeyInv'
  BY <1>1, KeyMove DEF Start
<1>2. ASSUME NEW p \in Proc, ReadVersion(p)
      PROVE  KeyInv'
  BY <1>0, <1>2, KeyMove DEF ReadVersion
<1>3. ASSUME NEW p \in Proc, ApplyMigration(p)
      PROVE  KeyInv'
  <2>1. [proc[p] EXCEPT !.at = @ + 1].stage = "migrating"
    BY <1>3, StageTells DEF ApplyMigration, TypeOK
  <2>2. QED
    BY <1>0, <1>3, <2>1, KeyMove DEF ApplyMigration
<1>4. ASSUME NEW p \in Proc, Opened(p)
      PROVE  KeyInv'
  BY <1>4, KeyMove DEF Opened
<1>5. ASSUME NEW p \in Proc, CreateKeyFile(p)
      PROVE  KeyInv'
  <2>1. \A stage \in {"generating", "reading"} :
           [proc[p] EXCEPT !.stage = stage].stage = stage
    BY <1>5, StageTells DEF CreateKeyFile, TypeOK
  <2>2. CASE keyFile # Absent
    BY <1>5, <2>1, <2>2, KeyMove DEF CreateKeyFile
  <2>3. CASE keyFile = Absent
    <3>1. /\ \A q \in Proc : proc[q].stage # "serving"
          /\ credentials = {}
      BY <2>3, NoKeyYet
    <3>2. \A q \in Proc : proc[q].stage # "generating"
      BY <2>3 DEF KeyInv, Absent, Short
    <3>3. /\ keyFile' = Short /\ UNCHANGED credentials
          /\ Become(p, [proc[p] EXCEPT !.stage = "generating"])
      BY <1>5, <2>3 DEF CreateKeyFile
    <3>4. \A q \in Proc : q # p => proc'[q] = proc[q]
      BY <3>3, BecomeMoves
    <3>5. proc'[p].stage = "generating"
      BY <2>1, <3>3, BecomeMoves
    <3>6. QED
      BY <3>1, <3>2, <3>3, <3>4, <3>5 DEF KeyInv
  <2>4. QED
    BY <2>2, <2>3
<1>6. ASSUME NEW p \in Proc, WriteKey(p)
      PROVE  KeyInv'
  <2>1. keyFile = Short
    BY <1>6 DEF KeyInv, WriteKey
  <2>2. /\ \A q \in Proc : proc[q].stage # "serving"
        /\ credentials = {}
    BY <2>1, NoKeyYet
  <2>3. \A q \in Proc : q # p => proc[q].stage # "generating"
    BY <1>6 DEF KeyInv, WriteKey
  <2>4. \A q \in Proc : q # p => proc'[q] = proc[q]
    BY <1>6, BecomeMoves DEF WriteKey, Serve
  <2>5. proc'[p].stage = "serving" /\ proc'[p].key = keyFile'
    BY <1>6, BecomeMoves DEF WriteKey, Serve
  <2>6. UNCHANGED credentials
    BY <1>6 DEF WriteKey
  <2>7. QED
    BY <2>2, <2>3, <2>4, <2>5, <2>6 DEF KeyInv
<1>7. ASSUME NEW p \in Proc, CreationFails(p)
      PROVE  KeyInv'
  <2>1. keyFile = Short
    BY <1>7 DEF KeyInv, CreationFails
  <2>2. /\ \A q \in Proc : proc[q].stage # "serving"
        /\ credentials = {}
    BY <2>1, NoKeyYet
  <2>3. \A q \in Proc : q # p => proc[q].stage # "generating"
    BY <1>7 DEF KeyInv, CreationFails
  <2>4. \A q \in Proc : proc'[q] = IF q = p THEN Exited("creation") ELSE proc[q]
    BY <1>7, BecomeMoves DEF CreationFails
  <2>5. UNCHANGED credentials
    BY <1>7 DEF CreationFails
  <2>6. QED
    BY <1>0, <2>2, <2>3, <2>4, <2>5 DEF KeyInv
<1>8. ASSUME NEW p \in Proc, ReadKey(p)
      PROVE  KeyInv'
  BY <1>0, <1>8, KeyMove DEF ReadKey, Serve
<1>9. ASSUME NEW p \in Proc, Stop(p)
      PROVE  KeyInv'
  BY <1>0, <1>9, KeyMove DEF Stop
<1>10. ASSUME NEW p \in Proc, NEW e \in Email, CreateInvite(p, e)
       PROVE  KeyInv'
  BY <1>0, <1>10, KeyMove DEF CreateInvite
<1>11. \A p \in Proc : \A S : proc[p].stage = "serving" =>
          /\ [proc[p] EXCEPT !.minting = S].stage = "serving"
          /\ [proc[p] EXCEPT !.minting = S].key = proc[p].key
  BY StageTells DEF TypeOK
<1>12. ASSUME NEW p \in Proc, NEW i \in invites, NEW k \in PubKey, Enroll(p, i, k)
       PROVE  KeyInv'
  <2>1. PICK S : Become(p, [proc[p] EXCEPT !.minting = S])
    BY <1>12 DEF Enroll
  <2>2. QED
    BY <1>11, <1>12, <2>1, KeyMove DEF Enroll, KeyInv
<1>13. ASSUME NEW p \in Proc, NEW d \in devices,
              MintDeviceCredential(p, d) \/ MintFails(p, d)
       PROVE  KeyInv'
  <2>1. PICK S : Become(p, [proc[p] EXCEPT !.minting = S])
    BY <1>13 DEF MintDeviceCredential, MintFails
  <2>2. proc[p].stage = "serving" /\ keyFile = proc[p].key
    BY <1>13 DEF MintDeviceCredential, MintFails, KeyInv
  <2>3. \A c \in credentials' : keyFile = c.signedBy
    BY <1>13, <2>2 DEF MintDeviceCredential, MintFails, KeyInv
  <2>4. UNCHANGED keyFile
    BY <1>13 DEF MintDeviceCredential, MintFails
  <2>5. proc'[p].stage = "serving" /\ proc'[p].key = keyFile
    <3>1. /\ [proc[p] EXCEPT !.minting = S].stage = "serving"
          /\ [proc[p] EXCEPT !.minting = S].key = proc[p].key
      BY <1>11, <2>2
    <3>2. proc'[p] = [proc[p] EXCEPT !.minting = S]
      BY <2>1, BecomeMoves
    <3>3. QED
      BY <2>2, <3>1, <3>2
  <2>6. \A q \in Proc : q # p => proc'[q] = proc[q]
    BY <2>1, BecomeMoves
  <2>7. QED
    BY <2>2, <2>3, <2>4, <2>5, <2>6 DEF KeyInv
<1>14. CASE \/ \E i \in invites : ExpireInvite(i)
            \/ \E d \in devices : RevokeDevice(d)
            \/ UNCHANGED vars
  BY <1>14 DEF ExpireInvite, RevokeDevice, vars, KeyInv
<1>15. QED
  BY <1>1, <1>2, <1>3, <1>4, <1>5, <1>6, <1>7, <1>8, <1>9, <1>10, <1>12, <1>13,
     <1>14 DEF Next

\* Only minting makes a credential.
LEMMA CredentialSteps ==
    ASSUME [Next]_vars
    PROVE  \/ UNCHANGED credentials
           \/ \E p \in Proc, d \in devices : MintDeviceCredential(p, d)
<1>1. CASE \E p \in Proc :
             \/ \E cmd \in Command, binary \in Binary : Start(p, cmd, binary)
             \/ ReadVersion(p) \/ ApplyMigration(p) \/ Opened(p)
             \/ CreateKeyFile(p) \/ WriteKey(p) \/ CreationFails(p) \/ ReadKey(p)
             \/ Stop(p)
             \/ \E e \in Email : CreateInvite(p, e)
  BY <1>1 DEF Start, ReadVersion, ApplyMigration, Opened, CreateKeyFile,
     WriteKey, CreationFails, ReadKey, Stop, CreateInvite
<1>2. CASE \/ \E i \in invites : ExpireInvite(i)
           \/ \E d \in devices : RevokeDevice(d)
           \/ \E p \in Proc, i \in invites, k \in PubKey : Enroll(p, i, k)
           \/ \E p \in Proc, d \in devices : MintFails(p, d)
           \/ UNCHANGED vars
  BY <1>2 DEF ExpireInvite, RevokeDevice, Enroll, MintFails, vars
<1>3. QED
  BY <1>1, <1>2 DEF Next

\* A device never leaves the table, and never changes hands.
LEMMA DevicesStay ==
    ASSUME TypeOK, [Next]_vars, NEW d \in devices
    PROVE  \E e \in devices' : e.id = d.id /\ e.person = d.person
<1>1. CASE UNCHANGED roster
  BY <1>1 DEF roster
<1>2. CASE \/ \E p \in Proc, e \in Email : CreateInvite(p, e)
           \/ \E i \in invites : ExpireInvite(i)
           \/ \E p \in Proc, i \in invites, k \in PubKey : Enroll(p, i, k)
  BY <1>2 DEF CreateInvite, ExpireInvite, Enroll
<1>3. ASSUME NEW b \in devices, RevokeDevice(b)
      PROVE  \E e \in devices' : e.id = d.id /\ e.person = d.person
  <2>1. PICK x : /\ devices' = (devices \ {b}) \cup {x}
                 /\ x.id = b.id /\ x.person = b.person
    BY <1>3, RevokeRows
  <2>2. QED
    BY <2>1
<1>4. QED
  BY <1>1, <1>2, <1>3, RosterSteps

LEMMA NextMinted == TypeOK /\ MintedInv /\ [Next]_vars => MintedInv'
<1> SUFFICES ASSUME TypeOK, MintedInv, [Next]_vars, NEW c \in credentials'
             PROVE  \E d \in devices' : d.id = c.device /\ d.person = c.person
  BY DEF MintedInv
<1>1. PICK d \in devices : d.id = c.device /\ d.person = c.person
  <2>1. CASE c \in credentials
    BY <2>1 DEF MintedInv
  <2>2. CASE c \notin credentials
    <3>1. PICK p \in Proc, d \in devices : MintDeviceCredential(p, d)
      BY <2>2, CredentialSteps
    <3>2. c = [device |-> d.id, person |-> d.person, signedBy |-> proc[p].key]
      BY <2>2, <3>1 DEF MintDeviceCredential
    <3>3. QED
      BY <3>2
  <2>3. QED
    BY <2>1, <2>2
<1>2. QED
  BY <1>1, DevicesStay

LEMMA InitKey == Init => KeyInv /\ MintedInv
  BY DEF Init, KeyInv, MintedInv, Exited

\* Whichever processes raced the first start, crashed in it or came later, each
\* one that serves accepts every credential of an active device: the file's
\* exclusive creation leaves one key to serve and to sign with.
THEOREM CredentialsCorrect == Spec => []CredentialsSurvive
<1>1. RowsInv /\ KeyInv /\ MintedInv => CredentialsSurvive
  <2> SUFFICES ASSUME RowsInv, KeyInv, MintedInv, NEW p \in Proc,
                      NEW c \in credentials, NEW d \in devices,
                      proc[p].stage = "serving", d.id = c.device, d.active
               PROVE  Accepts(p, c)
    BY DEF CredentialsSurvive
  <2>1. c.signedBy = proc[p].key
    BY DEF KeyInv
  <2>2. d.person = c.person
    BY DEF MintedInv, RowsInv, Numbered
  <2>3. QED
    BY <2>1, <2>2 DEF Accepts
<1>2. QED
  BY <1>1, InitKey, NextKey, NextMinted, RosterInvariant, PTL DEF Spec

=============================================================================
