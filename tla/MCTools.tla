------------------------------- MODULE MCTools -------------------------------
(***************************************************************************)
(* Instances of module Tools for TLC.                                      *)
(***************************************************************************)
EXTENDS Tools, TLC

CONSTANTS alice, bob

MCOwner == [d \in Device |-> bob]

\* One client has a profile of its own, the other gets the safe one.
MCCap == ("claude.ai" :> 2) @@ ("other" :> 1)

\* A request whose product leaves a word of three bits, and one that is within
\* the one cap and over the other.
MCFewAsked == (alice :> {2}) @@ (bob :> {1})

\* Every timeout a word of three bits can hold.
MCAsked == [p \in Person |-> -4 .. 3]

=============================================================================
