------------------------------ MODULE Envelope ------------------------------
(***************************************************************************)
(* What internal/envelope writes and signs.  Two things are let happen.    *)
(* Two parties write JSON documents, each in its own order and spelling,   *)
(* and their canonical forms are compared.  And an envelope is composed,   *)
(* signed, changed and verified, its content written by the same code: the *)
(* actions of module Signing.  The two share no variable and are not       *)
(* interleaved.                                                            *)
(***************************************************************************)
EXTENDS Signing

CONSTANTS
    Scalar, Name, Small,    \* what documents are written of
    MaxMembers              \* bound: members or elements of a document

ASSUME DocumentAssumption ==
    /\ \A v \in Scalar : v.kind \in {"word", "string", "number"}
    /\ Name \subseteq Seq(ScalarValue)

VARIABLES left, right       \* two documents being written

vars == <<left, right, signingVars>>

Init ==
    /\ left \in Scalar \cup {Arr(<<>>), Obj(<<>>)}
    /\ right \in Scalar \cup {Arr(<<>>), Obj(<<>>)}
    /\ SigningInit

Longer(doc) ==
    IF doc.kind = "array" /\ Len(doc.elements) < MaxMembers
      THEN {Arr(Append(doc.elements, v)) : v \in Small}
    ELSE IF doc.kind = "object" /\ Len(doc.members) < MaxMembers
      THEN {Obj(Append(doc.members, <<k, v>>)) : k \in Name, v \in Small}
    ELSE {}

Write ==
    /\ envelope = None
    /\ \/ left' \in Longer(left) /\ UNCHANGED right
       \/ right' \in Longer(right) /\ UNCHANGED left
    /\ UNCHANGED signingVars

Exchange ==
    /\ left = Arr(<<>>) /\ right = Arr(<<>>)
    /\ SigningNext
    /\ UNCHANGED <<left, right>>

Next == Write \/ Exchange

Spec == Init /\ [][Next]_vars

-----------------------------------------------------------------------------
(* Correctness. *)

\* What a document says, whatever its spelling: a number is the digit at each
\* power of ten, an object a set of names with the value each was given last.
DigitAt(num, power) ==
    LET i == num.point - power IN IF i \in DOMAIN num.digits THEN num.digits[i] ELSE 0

MeaningLevel(v, Inner(_)) ==
    CASE v.kind = "word" -> v
      [] v.kind = "string" -> v
      [] v.kind = "number" ->
           [number |-> [power \in -12 .. 30 |-> DigitAt(v, power)],
            neg |-> v.neg /\ \E i \in DOMAIN v.digits : v.digits[i] # 0]
      [] v.kind = "array" -> [elements |-> [i \in DOMAIN v.elements |-> Inner(v.elements[i])]]
      [] v.kind = "object" ->
           [members |-> {<<v.members[i][1], Inner(v.members[i][2])>> :
                           i \in {j \in DOMAIN v.members :
                                    \A k \in DOMAIN v.members :
                                      v.members[k][1] = v.members[j][1] => k <= j}}]

MeaningInner(v) == MeaningLevel(v, LAMBDA w : MeaningLevel(w, LAMBDA held : held))
Meaning(v) == MeaningLevel(v, MeaningInner)

\* Two documents have one canonical form exactly if they say the same: neither
\* the order of members, a superseded member, nor the spelling of a number
\* changes it, and no escape, separator or layout of digits makes two
\* different documents coincide (canon.go:17-20).
CanonicalIffEqual ==
    (AppendCanonical(left) = AppendCanonical(right)) <=> (Meaning(left) = Meaning(right))

\* Members are written in the order of their names' UTF-16 code units, which
\* is not the order of their characters (canon.go:202-204).
MembersInUTF16Order ==
    left.kind = "object" =>
        LET keys == SortedKeys(left.members)
        IN  \A i, j \in DOMAIN keys : i < j => RanksBefore(keys[i], keys[j])

=============================================================================
