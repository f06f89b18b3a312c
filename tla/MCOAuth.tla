------------------------------- MODULE MCOAuth -------------------------------
(***************************************************************************)
(* Instances of module OAuth for TLC: the URLs, which are records, and the *)
(* owners of the devices are defined here, the .cfg files choose the rest. *)
(***************************************************************************)
EXTENDS OAuth, TLC

CONSTANTS alice

Url(scheme, host) == [scheme |-> scheme, host |-> host, fragment |-> FALSE]

\* Alice's devices only: a family is what she shares with one client.
MCOwner == [d \in Device |-> alice]

\* A client hosted under the origin of its redirect.
MCHosted == {Url("https", "app")}

\* A redirect of its origin, and one that must be refused at registration.
MCRedirect == {Url("https", "app"), Url("http", "app")}

MCSymmetry == Permutations(Request)

=============================================================================
