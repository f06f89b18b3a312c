-------------------------------- MODULE Gate --------------------------------
(***************************************************************************)
(* The approval gate: internal/gate and the state vocabulary of            *)
(* internal/a2a.  The gate is a pure decision procedure.  It is handed the *)
(* authoritative current state, a verdict and, for the outbound direction, *)
(* the approvable, and either names the next state or refuses.  Here each  *)
(* function is a relation that holds of (current, verdict, next) exactly   *)
(* when the code returns next without an error.  The refusals (unknown     *)
(* state, illegal transition, wrong direction, no grant) all leave the     *)
(* caller's transaction rolled back, so they need no successor.            *)
(***************************************************************************)

ThreadState == {"submitted", "working", "input-required", "completed",
                "failed", "canceled", "rejected"}

DraftState == {"pending_review", "sent", "discarded"}

Verdict == {"approve", "reject"}

Direction == {"inbound", "outbound"}

-----------------------------------------------------------------------------

\* A person's verdict on an inbound message: legal from input-required only.
ApplyInbound(current, v, next) ==
    /\ current = "input-required"
    /\ \/ v = "approve" /\ next = "working"
       \/ v = "reject"  /\ next = "rejected"

\* A person's verdict on an outbound draft: legal from pending_review only.
\* Reaching "sent" is what mints the *Release.
ApplyOutbound(a, current, v, next) ==
    /\ a.direction = "outbound"
    /\ current = "pending_review"
    /\ \/ v = "approve" /\ next = "sent"
       \/ v = "reject"  /\ next = "discarded"

\* A grant auto-approves one thread in one direction.  (The caller only looks
\* active grants up, so Grant.Revoked is false here.)
Covers(g, a) ==
    /\ g.direction \in Direction
    /\ g.thread = a.thread
    /\ g.direction = a.direction

ApplyInboundGrant(g, a, current, next) ==
    /\ a.direction = "inbound"
    /\ Covers(g, a)
    /\ ApplyInbound(current, "approve", next)

ApplyOutboundGrant(g, a, current, next) ==
    /\ Covers(g, a)
    /\ ApplyOutbound(a, current, "approve", next)

=============================================================================
