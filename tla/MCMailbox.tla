------------------------------ MODULE MCMailbox ------------------------------
(***************************************************************************)
(* Instances of module Mailbox for TLC.  The constants TLC cannot be given *)
(* literally in a .cfg, the ownership of devices, are defined here; the    *)
(* .cfg files choose everything else.                                      *)
(***************************************************************************)
EXTENDS Mailbox, TLC

CONSTANTS alice, bob, carol, laptop, phone

\* Both devices are bob's: he is the one who is sent to.
MCOwner == [d \in Device |-> bob]

\* The people who own no device are interchangeable.
MCSymmetry == Permutations(Person \ {bob})

=============================================================================
