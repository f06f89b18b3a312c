------------------------------ MODULE GatedMail ------------------------------
(***************************************************************************)
(* What the relay promises about a message, with no tables, devices, clocks *)
(* or sweeps in sight.                                                      *)
(*                                                                          *)
(*   - An item composed by a person's AI is held until its author lets it   *)
(*     go, and from then on it is in the recipient's mailbox: there is no   *)
(*     state in between (store/draft.go:72-77, "a released draft is by      *)
(*     definition a delivered message").                                    *)
(*   - An item that has arrived arrives only once: when it leaves the       *)
(*     mailbox it is gone for good (the dedup of store/message.go:49-53).   *)
(*   - An arrival, and nothing else, makes a thread wait for a human, and   *)
(*     one verdict answers it: a thread is decided only while it waits.     *)
(*                                                                          *)
(* module Mailbox is shown to implement this one.                           *)
(***************************************************************************)
CONSTANTS
    Id,        \* envelope ids, which are also draft and message ids
    PeerId,    \* the ids minted outside this relay, which arrive signed
    ThreadId

VARIABLES
    phase,     \* phase[i]: where item i is in its life
    turn       \* turn[t]: whether thread t waits for a human verdict

vars == <<phase, turn>>

Phase == {"fresh", "held", "mailed", "gone"}
Turn == {"idle", "awaiting", "decided"}

Init ==
    /\ phase = [i \in Id |-> "fresh"]
    /\ turn = [t \in ThreadId |-> "idle"]

\* The author's AI composes item i; it is held for review.
Compose(i) ==
    /\ i \notin PeerId
    /\ phase[i] = "fresh"
    /\ phase' = [phase EXCEPT ![i] = "held"]
    /\ UNCHANGED turn

\* Item i reaches the mailbox on thread t: released by its author or by the
\* author's grant, or signed by a peer.
Arrive(i, t) ==
    /\ phase[i] = IF i \in PeerId THEN "fresh" ELSE "held"
    /\ phase' = [phase EXCEPT ![i] = "mailed"]
    /\ turn' = [turn EXCEPT ![t] = "awaiting"]

\* The author discards item i.
Withdraw(i) ==
    /\ phase[i] = "held"
    /\ phase' = [phase EXCEPT ![i] = "gone"]
    /\ UNCHANGED turn

\* Retention removes some items; only what is in the mailbox can be removed.
Expire(S) ==
    /\ \A i \in S : phase[i] = "mailed"
    /\ phase' = [i \in Id |-> IF i \in S THEN "gone" ELSE phase[i]]
    /\ UNCHANGED turn

\* A verdict answers what the thread waits for.
Decide(t) ==
    /\ turn[t] = "awaiting"
    /\ turn' = [turn EXCEPT ![t] = "decided"]
    /\ UNCHANGED phase

Next ==
    \/ \E i \in Id : Compose(i) \/ Withdraw(i)
    \/ \E i \in Id, t \in ThreadId : Arrive(i, t)
    \/ \E S \in SUBSET Id : Expire(S)
    \/ \E t \in ThreadId : Decide(t)

Spec == Init /\ [][Next]_vars

=============================================================================
