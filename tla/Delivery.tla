------------------------------ MODULE Delivery ------------------------------
(***************************************************************************)
(* What the push path promises a daemon: a message committed while its     *)
(* device was active is owed to the device, and stays owed until the       *)
(* daemon has read it.  It may read it more than once.  Sockets, drains,   *)
(* nudges and processes do not appear.                                     *)
(***************************************************************************)
CONSTANTS Device, Message

VARIABLES
    active,     \* devices not revoked
    fresh,      \* messages not committed yet
    owed,       \* owed[d]: messages d has still to acknowledge
    seen        \* seen[d]: messages the daemon of d has read

vars == <<active, fresh, owed, seen>>

Init ==
    /\ active = Device
    /\ fresh = Message
    /\ owed = [d \in Device |-> {}]
    /\ seen = [d \in Device |-> {}]

\* A device revoked by now gets nothing that is committed from now on.
Commit(m) ==
    /\ m \in fresh
    /\ fresh' = fresh \ {m}
    /\ owed' = [d \in Device |-> owed[d] \cup (IF d \in active THEN {m} ELSE {})]
    /\ UNCHANGED <<active, seen>>

Revoke(d) ==
    /\ d \in active
    /\ active' = active \ {d}
    /\ UNCHANGED <<fresh, owed, seen>>

Show(d, m) ==
    /\ m \in owed[d]
    /\ seen' = [seen EXCEPT ![d] = @ \cup {m}]
    /\ UNCHANGED <<active, fresh, owed>>

Settle(d, m) ==
    /\ m \in owed[d] \cap seen[d]
    /\ owed' = [owed EXCEPT ![d] = @ \ {m}]
    /\ UNCHANGED <<active, fresh, seen>>

Next ==
    \/ \E m \in Message : Commit(m)
    \/ \E d \in Device : Revoke(d) \/ \E m \in Message : Show(d, m) \/ Settle(d, m)

Spec == Init /\ [][Next]_vars

=============================================================================
