------------------------- MODULE TransactionRegistry -------------------------
(***************************************************************************)
(* What the documentation of TransactionPool (src/webrequest/              *)
(* transaction.hpp) promises to the threads that use it, without slots,    *)
(* entries, mutexes or reference counts: a transaction is created into the *)
(* pool, fetched by at most one thread at a time, returned or disposed of  *)
(* by the thread that fetched it, and expires only while it lies in the    *)
(* pool.  A fetch may come back empty only if the transaction was out of   *)
(* the pool at some moment between the call and the answer.                *)
(***************************************************************************)
CONSTANTS Threads, Ids, NoTransaction

VARIABLES
    status,   \* where each transaction is
    holder,   \* the transaction a thread has fetched and not yet given back
    wanted,   \* the transaction a thread is fetching
    absent    \* the wanted transaction was out of the pool since the call

vars == <<status, holder, wanted, absent>>

Init ==
    /\ status = [i \in Ids |-> "unborn"]
    /\ holder = [t \in Threads |-> NoTransaction]
    /\ wanted = [t \in Threads |-> NoTransaction]
    /\ absent = [t \in Threads |-> FALSE]

(* A pending fetch remembers that its transaction was out of the pool.     *)
Observe ==
    absent' = [t \in Threads |->
        /\ wanted'[t] # NoTransaction
        /\ \/ absent[t] /\ wanted[t] # NoTransaction
           \/ status'[wanted'[t]] # "pooled"]

Create(i) ==
    /\ status[i] = "unborn"
    /\ status' = [status EXCEPT ![i] = "pooled"]
    /\ UNCHANGED <<holder, wanted>>

Call(t, i) ==
    /\ wanted[t] = NoTransaction /\ holder[t] = NoTransaction
    /\ status[i] # "unborn"
    /\ wanted' = [wanted EXCEPT ![t] = i]
    /\ UNCHANGED <<status, holder>>

Take(t) ==
    /\ wanted[t] # NoTransaction /\ status[wanted[t]] = "pooled"
    /\ status' = [status EXCEPT ![wanted[t]] = "taken"]
    /\ holder' = [holder EXCEPT ![t] = wanted[t]]
    /\ wanted' = [wanted EXCEPT ![t] = NoTransaction]

\* Call and Take in one step.
Fetch(t, i) ==
    /\ wanted[t] = NoTransaction /\ holder[t] = NoTransaction
    /\ status[i] = "pooled"
    /\ status' = [status EXCEPT ![i] = "taken"]
    /\ holder' = [holder EXCEPT ![t] = i]
    /\ UNCHANGED wanted

Miss(t) ==
    /\ wanted[t] # NoTransaction /\ absent[t]
    /\ wanted' = [wanted EXCEPT ![t] = NoTransaction]
    /\ UNCHANGED <<status, holder>>

GiveBack(t) ==
    /\ holder[t] # NoTransaction
    /\ \E s \in {"pooled", "gone"} : status' = [status EXCEPT ![holder[t]] = s]
    /\ holder' = [holder EXCEPT ![t] = NoTransaction]
    /\ UNCHANGED wanted

Expire(i) ==
    /\ status[i] = "pooled"
    /\ status' = [status EXCEPT ![i] = "gone"]
    /\ UNCHANGED <<holder, wanted>>

Step ==
    \/ \E i \in Ids : Create(i) \/ Expire(i)
    \/ \E t \in Threads : Take(t) \/ Miss(t) \/ GiveBack(t)
    \/ \E t \in Threads, i \in Ids : Call(t, i) \/ Fetch(t, i)

Next == Step /\ Observe

Spec == Init /\ [][Next]_vars
=============================================================================
