------------------------------- MODULE MCPush -------------------------------
(***************************************************************************)
(* Instances of module Push for TLC.                                       *)
(***************************************************************************)
EXTENDS Push, TLC

\* Sockets, messages and devices are interchangeable.
MCSymmetry ==
    Permutations(Conn) \cup Permutations(Message) \cup Permutations(Device)

=============================================================================
