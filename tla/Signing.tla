------------------------------- MODULE Signing -------------------------------
(***************************************************************************)
(* Signing and verification of envelopes, internal/envelope: an envelope   *)
(* is composed, signed, decoded and verified, and changed on the way at    *)
(* any moment.  It is written by module Canon.                             *)
(*                                                                         *)
(* An envelope's string members other than the recipient, and its flag,    *)
(* are left out: they are written like the recipient.  Of a part only the  *)
(* text is kept (its type is "text").  The members' names are shortened,   *)
(* which keeps their order.  Signatures are ideal: one verifies under the  *)
(* key and over the bytes it was made with.                                *)
(***************************************************************************)
EXTENDS Canon

CONSTANTS
    Key,                    \* signing keys of the right length
    Text,                   \* part texts and recipients
    VersionSeen,            \* the versions builds put into envelopes
    Moment,                 \* sent_at: instants and the zone they are told in
    MaxSignatures,          \* bound
    MaxBodyBytes, MaxWireBytes, MaxParts

Version == 1

NoSig == <<>>

\* Envelopes without a signature, up to one part more than is let through.
Contents ==
    [v: VersionSeen, to: Text, sentAt: Moment,
     parts: BoundedSeq(Text, MaxParts + 1), sig: {NoSig}]

ASSUME BoundAssumption == MaxParts \in Nat

\* Bound: a version is one digit.
ASSUME ContentAssumption ==
    /\ Text \subseteq Seq(ScalarValue)
    /\ Moment \subseteq Seq(ScalarValue)
    /\ VersionSeen \subseteq 0 .. 9

VARIABLES
    envelope,               \* an envelope in somebody's hands
    genuine,                \* history: it was not changed since it was signed
    signed                  \* history: keys and contents of all signatures made

signingVars == <<envelope, genuine, signed>>

None == [v |-> 0]

SigningInit ==
    /\ envelope = None
    /\ genuine = FALSE
    /\ signed = {}

-----------------------------------------------------------------------------
(* What is signed, and the caps. *)

UTF8Len(r) == IF r < 128 THEN 1 ELSE IF r < 2048 THEN 2 ELSE IF r < 65536 THEN 3 ELSE 4

Bytes(text) == FoldLeft(LAMBDA n, r : n + UTF8Len(r), 0, text)

Content(e) == [e EXCEPT !.sig = NoSig]

\* json.Marshal, in the order of the struct's fields; a nil Sig is omitted.
Marshal(e) ==
    Obj(<< <<<<118>>, Num(FALSE, <<e.v>>, 1)>>, <<<<116>>, Str(e.to)>>,
           <<<<115>>, Str(e.sentAt)>>,
           <<<<98>>, Arr([i \in DOMAIN e.parts |-> Str(e.parts[i])])>> >>
        \o (IF e.sig = NoSig THEN <<>> ELSE << <<<<103>>, Str(e.sig[2])>> >>))

\* Variant: the signature stays in what is signed and verified.
CanonicalWithSig(e) == AppendCanonical(Marshal(e))

\* Variant: the moment is told in one zone before it is signed.
CanonicalInOneZone(e) ==
    AppendCanonical(Marshal([Content(e) EXCEPT !.sentAt = CHOOSE m \in Moment : TRUE]))

Canonical(e) == AppendCanonical(Marshal(Content(e)))

VersionSupported(v) == v = Version

BodySize(e) == FoldLeft(LAMBDA n, text : n + Bytes(text), 0, e.parts)

\* The caps in the order in which they are applied, cheapest first.
Check(e) ==
    IF ~VersionSupported(e.v) THEN "ErrBadVersion"
    ELSE IF Len(e.parts) > MaxParts THEN "ErrTooManyParts"
    ELSE IF BodySize(e) > MaxBodyBytes THEN "ErrTooLarge"
    ELSE IF Bytes(Canonical(e)) > MaxWireBytes THEN "ErrTooLarge"
    ELSE "ok"

Verify(e, key) ==
    IF Check(e) # "ok" THEN Check(e)
    ELSE IF e.sig = <<key, Canonical(e)>> THEN "ok" ELSE "ErrBadSignature"

-----------------------------------------------------------------------------
(* Envelopes. *)

\* New, by this build or by another one.
New(v, to, at, text) ==
    /\ envelope = None
    /\ envelope' = [v |-> v, to |-> to, sentAt |-> at, parts |-> <<text>>, sig |-> NoSig]
    /\ UNCHANGED <<genuine, signed>>

Sign(key) ==
    /\ envelope # None
    /\ Check(envelope) = "ok"
    /\ Cardinality(signed) < MaxSignatures
    /\ envelope' = [envelope EXCEPT !.sig = <<key, Canonical(envelope)>>]
    /\ genuine' = TRUE
    /\ signed' = signed \cup {<<key, Content(envelope)>>}

\* Whoever holds the envelope changes something: by mistake, by a bad copy, or
\* by telling the same instant in another zone.
Change(changed) ==
    /\ envelope # None
    /\ envelope' = changed
    /\ changed # envelope
    /\ genuine' = FALSE
    /\ UNCHANGED signed

Changes(e) ==
    {[e EXCEPT !.to = t] : t \in Text} \cup {[e EXCEPT !.sentAt = m] : m \in Moment}
      \cup {[e EXCEPT !.v = v] : v \in VersionSeen}
      \cup {[e EXCEPT !.parts = Append(@, t)] :
              t \in IF Len(e.parts) > MaxParts THEN {} ELSE Text}
      \cup {[e EXCEPT !.parts = Tail(@)] : k \in IF e.parts = <<>> THEN {} ELSE {1}}

\* Decode refuses a version this build does not know; what it refuses is lost.
Decode ==
    /\ envelope # None
    /\ ~VersionSupported(envelope.v)
    /\ envelope' = None
    /\ genuine' = FALSE
    /\ UNCHANGED signed

SigningNext ==
    \/ \E v \in VersionSeen, to \in Text, at \in Moment, text \in Text : New(v, to, at, text)
    \/ \E key \in Key : Sign(key)
    \/ envelope # None /\ \E changed \in Changes(envelope) : Change(changed)
    \/ Decode

SigningSpec == SigningInit /\ [][SigningNext]_signingVars

-----------------------------------------------------------------------------
(* Correctness. *)

\* An envelope verifies only as what its key's owner signed: same version,
\* recipient, moment, zone and parts, in the same division (sign.go:30-32).
VerifiedIsSigned ==
    envelope # None =>
        \A key \in Key : Verify(envelope, key) = "ok" => <<key, Content(envelope)>> \in signed

\* What one side signed the other side accepts, the size caps included, as
\* long as nobody changed it: both sides measure and canonicalize the same
\* thing although only one of them has the signature yet (envelope.go:165-175).
SignedVerifies ==
    genuine => \E key \in Key : Verify(envelope, key) = "ok"

=============================================================================
