-------------------------------- MODULE Canon --------------------------------
(***************************************************************************)
(* The canonical form an envelope's signature covers: the RFC 8785 writer  *)
(* of internal/envelope/canon.go, as operators on JSON values.             *)
(*                                                                         *)
(* Strings and the order of names are module CanonStrings.  A JSON value   *)
(* is a record as the parser hands it over: a number keeps its digits as   *)
(* they were written, an object its members in the order they were         *)
(* written.                                                                *)
(*                                                                         *)
(* Left out: numbers with more digits than a double holds or out of its    *)
(* range, and texts that are not valid Unicode, which JSON cannot carry.   *)
(***************************************************************************)
EXTENDS CanonStrings

\* The literals null, true and false; a string; the number 0.d1d2.. * 10^point.
Word(text) == [kind |-> "word", word |-> text]
Str(text) == [kind |-> "string", text |-> text]
Num(neg, digits, point) ==
    [kind |-> "number", neg |-> neg, digits |-> digits, point |-> point]
Arr(elements) == [kind |-> "array", elements |-> elements]
Obj(members) == [kind |-> "object", members |-> members]

-----------------------------------------------------------------------------
(* Numbers. *)

Digits(ds) == [i \in DOMAIN ds |-> 48 + ds[i]]
Zeros(n) == [i \in 1 .. n |-> 48]

Itoa[n \in Nat] ==
    IF n < 10 THEN <<48 + n>> ELSE Itoa[n \div 10] \o <<48 + (n % 10)>>

\* strconv.ParseFloat and FormatFloat with the shortest precision: the digits
\* that count, and the power of ten in front of them.
Shortest(num) ==
    LET nonzero == {i \in DOMAIN num.digits : num.digits[i] # 0}
        first == CHOOSE i \in nonzero : \A j \in nonzero : i <= j
        last == CHOOSE i \in nonzero : \A j \in nonzero : j <= i
    IN  IF nonzero = {} THEN [digits |-> <<>>, point |-> 0]
        ELSE [digits |-> SubSeq(num.digits, first, last),
              point |-> num.point - first + 1]

Exponential(digits, n) ==
    (IF Len(digits) > 1 THEN <<digits[1], 46>> \o Tail(digits) ELSE digits)
        \o <<101, IF n < 1 THEN 45 ELSE 43>>
        \o Itoa[IF n < 1 THEN 1 - n ELSE n - 1]

\* Variant: an integer's trailing zeros are left out.
FixedUnpadded(digits, n) ==
    IF n >= Len(digits) THEN digits
    ELSE IF n >= 1 THEN SubSeq(digits, 1, n) \o <<46>> \o SubSeq(digits, n + 1, Len(digits))
    ELSE <<48, 46>> \o Zeros(-n) \o digits

Fixed(digits, n) ==
    IF n >= Len(digits) THEN digits \o Zeros(n - Len(digits))
    ELSE IF n >= 1 THEN SubSeq(digits, 1, n) \o <<46>> \o SubSeq(digits, n + 1, Len(digits))
    ELSE <<48, 46>> \o Zeros(-n) \o digits

\* Fixed notation from 10^-6 to 10^21, exponential outside; minus zero is zero.
FormatFloatES(num) ==
    LET short == Shortest(num)
        n == short.point
        digits == Digits(short.digits)
    IN  IF digits = <<>> THEN <<48>>
        ELSE (IF num.neg THEN <<45>> ELSE <<>>)
                \o (IF n > -6 /\ n <= 21 THEN Fixed(digits, n) ELSE Exponential(digits, n))

-----------------------------------------------------------------------------
(* Values. *)

\* The map the parser makes of an object: the last member of a name counts.
Lookup(members, key) ==
    LET last == CHOOSE i \in DOMAIN members :
                  members[i][1] = key /\ \A j \in DOMAIN members : members[j][1] = key => j <= i
    IN  members[last][2]

Keys(members) == {members[i][1] : i \in DOMAIN members}

\* slices.SortFunc with compareUTF16.
SortedKeys(members) ==
    LET keys == Keys(members)
    IN  CHOOSE s \in [1 .. Cardinality(keys) -> keys] :
            \A i, j \in DOMAIN s : i < j => CompareUTF16(s[i], s[j]) < 0

Joined(texts) ==
    FlattenSeq([i \in DOMAIN texts |-> IF i > 1 THEN <<44>> \o texts[i] ELSE texts[i]])

\* appendCanonical, which calls itself (Inner) for what v holds.
AppendLevel(v, Inner(_)) ==
    CASE v.kind = "word" -> v.word
      [] v.kind = "string" -> AppendString(v.text)
      [] v.kind = "number" -> FormatFloatES(v)
      [] v.kind = "array" ->
           <<91>> \o Joined([i \in DOMAIN v.elements |-> Inner(v.elements[i])]) \o <<93>>
      [] v.kind = "object" ->
           LET keys == SortedKeys(v.members)
           IN  <<123>>
                 \o Joined([i \in DOMAIN keys |->
                      AppendString(keys[i]) \o <<58>> \o Inner(Lookup(v.members, keys[i]))])
                 \o <<125>>

\* Bound: what stands in an array or object that stands in another one is a
\* scalar, as in the envelopes of module Signing.
AppendScalar(v) == AppendLevel(v, LAMBDA held : <<>>)
AppendInner(v) == AppendLevel(v, AppendScalar)
AppendCanonical(v) == AppendLevel(v, AppendInner)

=============================================================================
