-------------------------------- MODULE Baton --------------------------------
(***************************************************************************)
(* What a client that was authorized once is promised: one line of access, *)
(* passed on like a baton.  A code is handed to a request, the request to  *)
(* a token, the token to the request that rotates it; any of them may drop *)
(* it, and a line that was dropped is over.                                *)
(***************************************************************************)
CONSTANT Chain

VARIABLE holder     \* holder[k]: who can continue chain k

Holder == {"unborn", "code", "request", "token", "dead"}

Init == holder = [k \in Chain |-> "unborn"]

\* The ways one chain may move on.
Passes(from, to) ==
    \/ from = "unborn" /\ to = "code"
    \/ from = "code" /\ to = "request"
    \/ from = "request" /\ to = "token"
    \/ from = "token" /\ to = "request"
    \/ from # "unborn" /\ to = "dead"

\* Several lines may end at once (a sweep, a restart, a revoked family), but
\* only one is passed on at a time.
Next ==
    /\ holder' \in [Chain -> Holder]
    /\ \A k \in Chain : holder'[k] = holder[k] \/ Passes(holder[k], holder'[k])
    /\ \A j, k \in Chain :
         /\ j # k
         /\ holder'[j] # holder[j] /\ holder'[j] # "dead"
         => holder'[k] = holder[k]

Spec == Init /\ [][Next]_holder

=============================================================================
