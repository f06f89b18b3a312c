----------------------------- MODULE MCBootstrap -----------------------------
(***************************************************************************)
(* Instances of module Bootstrap for TLC; processes, addresses and device  *)
(* keys are interchangeable.                                               *)
(***************************************************************************)
EXTENDS Bootstrap, TLC

MCSymmetry == Permutations(Proc) \cup Permutations(Email) \cup Permutations(PubKey)

=============================================================================
