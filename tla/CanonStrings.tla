---------------------------- MODULE CanonStrings ----------------------------
(***************************************************************************)
(* The strings of the canonical form, internal/envelope/canon.go: how one  *)
(* is written, and in which order the names of an object's members come.   *)
(* A text is a sequence of Unicode code points.                            *)
(***************************************************************************)
EXTENDS Integers, SequencesExt

\* The code points a text can have: there is no character at a surrogate's.
ScalarValue == {r \in Nat : r < 55296 \/ (r >= 57344 /\ r < 17 * 65536)}

-----------------------------------------------------------------------------
(* How a string is written. *)

ShortEscape ==
    [r \in {34, 92, 8, 12, 10, 13, 9} |->
       CASE r = 8 -> 98 [] r = 12 -> 102 [] r = 10 -> 110 [] r = 13 -> 114
         [] r = 9 -> 116 [] OTHER -> r]

HexDigit(n) == IF n < 10 THEN 48 + n ELSE 87 + n

\* Backslash and letter, \u00xx for the other control characters, or the
\* character itself.
Escape(r) ==
    IF r \in DOMAIN ShortEscape THEN <<92, ShortEscape[r]>>
    ELSE IF r < 32 THEN <<92, 117, 48, 48, HexDigit(r \div 16), HexDigit(r % 16)>>
    ELSE <<r>>

AppendString(s) ==
    <<34>> \o FlattenSeq([i \in DOMAIN s |-> Escape(s[i])]) \o <<34>>

-----------------------------------------------------------------------------
(* The order of names. *)

\* utf16.Encode of one character: a surrogate pair beyond the basic plane.
UTF16(r) ==
    IF r < 65536 THEN <<r>>
    ELSE <<55296 + ((r - 65536) \div 1024), 56320 + ((r - 65536) % 1024)>>

Units(text) == FlattenSeq([i \in DOMAIN text |-> UTF16(text[i])])

\* Variant: strings are ordered as Go orders them, by code point.
CompareRunes(a, b) ==
    LET n == IF Len(a) < Len(b) THEN Len(a) ELSE Len(b)
        differ == {i \in 1 .. n : a[i] # b[i]}
    IN  IF differ = {} THEN Len(a) - Len(b)
        ELSE LET i == CHOOSE j \in differ : \A k \in differ : j <= k
             IN  a[i] - b[i]

\* By the first code unit that differs, then by length.
CompareUTF16(a, b) ==
    LET ua == Units(a)
        ub == Units(b)
        n == IF Len(ua) < Len(ub) THEN Len(ua) ELSE Len(ub)
        differ == {i \in 1 .. n : ua[i] # ub[i]}
    IN  IF differ = {} THEN Len(ua) - Len(ub)
        ELSE LET i == CHOOSE j \in differ : \A k \in differ : j <= k
             IN  ua[i] - ub[i]

\* RFC 8785 order without encoding anything: the characters beyond the basic
\* plane come after the surrogates' place and before what follows it.
Rank(r) == IF r < 55296 THEN r ELSE IF r >= 65536 THEN r ELSE r + 17 * 65536

RanksBefore(a, b) ==
    \E n \in 0 .. Len(a) :
        /\ n <= Len(b)
        /\ \A i \in 1 .. n : a[i] = b[i]
        /\ n < Len(b)
        /\ n < Len(a) => Rank(a[n + 1]) < Rank(b[n + 1])

=============================================================================
