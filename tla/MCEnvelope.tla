----------------------------- MODULE MCEnvelope -----------------------------
(***************************************************************************)
(* Instances of module Envelope for TLC.                                   *)
(***************************************************************************)
EXTENDS Envelope

\* Numbers on both sides of every change of layout, some with digits that do
\* not count, and zeros of both signs.
MCNumbers ==
    {Num(neg, digits, point) :
        neg \in BOOLEAN, point \in {-6, -5, 0, 1, 2, 21, 22},
        digits \in {<<0>>, <<1>>, <<1, 2>>, <<0, 1>>, <<1, 0>>, <<1, 2, 0>>}}

\* A quote, a backslash and an n, a newline, a control character, what they are
\* escaped to, and a literal spelled as a string.
MCStrings ==
    {Str(s) : s \in {<<>>, <<34>>, <<92, 110>>, <<10>>, <<31>>, <<92, 34>>,
                     <<117, 48, 48, 49, 102>>, <<110, 117, 108, 108>>}}

MCScalar == MCNumbers \cup MCStrings \cup {Word(<<110, 117, 108, 108>>), Word(<<116, 114, 117, 101>>)}

\* The last of the basic plane, the first beyond it, and a pair with a common
\* beginning.
MCName == {<<65535>>, <<65536>>, <<97>>, <<97, 98>>}

MCSmall == {Num(FALSE, <<1>>, 1), Num(FALSE, <<1, 0>>, 1), Str(<<49>>), Str(<<34, 44, 34>>),
            Arr(<<Str(<<>>), Str(<<>>)>>), Obj(<< <<<<97>>, Str(<<>>)>> >>)}

\* Two quotes around a comma would, unescaped, be the seam of two parts; the
\* control character is one byte of body and six on the wire.
MCText == {<<>>, <<34, 44, 34>>, <<31>>}

\* One instant in two zones.
MCMoment == {<<48, 90>>, <<49, 43>>}

=============================================================================
