--------------------------- MODULE DelegateQueue ---------------------------
(***************************************************************************)
(* What WebRequestEventLoopInterface (src/include/strus/                   *)
(* webRequestEventLoopInterface.hpp) promises to the users of send: a      *)
(* request is refused, and then answered before send returns, or queued,   *)
(* and then answered once.  Stopping the loop may leave requests idle.     *)
(***************************************************************************)
CONSTANTS Requests

VARIABLES
    request,  \* request -> new, queued, refused or answered
    running   \* between start and stop

vars == <<request, running>>

Init == request = [r \in Requests |-> "new"] /\ running = FALSE

Become(r, state) == request' = [request EXCEPT ![r] = state]

Refuse(r) ==
    /\ request[r] = "new"
    /\ Become(r, "refused")
    /\ UNCHANGED running

Queue(r) ==
    /\ request[r] = "new"
    /\ Become(r, "queued")
    /\ UNCHANGED running

\* The loop answers any number of queued requests at once.
Answer ==
    /\ \E rs \in SUBSET {r \in Requests : request[r] = "queued"} :
        /\ rs # {}
        /\ request' = [r \in Requests |-> IF r \in rs THEN "answered" ELSE request[r]]
    /\ UNCHANGED running

\* r stands for the next request of its kind.
Renew(r) ==
    /\ request[r] \in {"refused", "answered"}
    /\ Become(r, "new")
    /\ UNCHANGED running

Start == ~running /\ running' = TRUE /\ UNCHANGED request
Stop == running /\ running' = FALSE /\ UNCHANGED request

Next ==
    \/ \E r \in Requests : Refuse(r) \/ Queue(r) \/ Renew(r)
    \/ Answer \/ Start \/ Stop

\* A loop that goes on running answers every queued request.
Served == \A r \in Requests :
    [](request[r] = "queued" => <>(request[r] = "answered" \/ ~running))

Spec == Init /\ [][Next]_vars /\ Served
=============================================================================
