-------------------------- MODULE TransactionWindow --------------------------
(***************************************************************************)
(* When a transaction of TransactionPool (src/webrequest/transaction.cpp)  *)
(* expires.  One transaction is followed through creation, touches (fetch  *)
(* and return), and the sweeps, while others fill and leave the slots      *)
(* around it; the concurrency of these calls is TransactionPool's subject  *)
(* and left out here.                                                      *)
(***************************************************************************)
EXTENDS TransactionRing

CONSTANTS
    PoolMaxIdle,  \* m_maxIdleTime of the pool
    Requested,    \* the idle times passed to createTransaction
    Tries,        \* m_allocNofTries
    MaxGap        \* bound: ticks between two calls of collectGarbage

\* m_arsize has been doubled until it holds the whole window.
ASSUME WindowAssumption ==
    /\ PoolMaxIdle \in Nat \ {0} /\ Tries \in Nat
    /\ Requested \subseteq Int
    /\ ArSize >= PoolMaxIdle * NofPerSlot
    /\ MaxGap \in Nat \ {0} /\ MaxGap * NofPerSlot < ArSize - 1

VARIABLES
    m_lasttick,  \* the ring position of m_lasttick
    others,      \* slots taken by other transactions
    slot,        \* the slot of the transaction followed, NoSlot without one
    idle,        \* its m_maxIdleTime
    age,         \* ticks since it was created or returned
    ahead        \* slots between the sweep and its slot when it was placed

NoSlot == -1
vars == <<m_lasttick, others, slot, idle, age, ahead>>

Init ==
    /\ m_lasttick = 0
    /\ others = {}
    /\ slot = NoSlot /\ idle = 0 /\ age = 0 /\ ahead = 0

\* newTransaction: an idle time out of range is replaced by the maximum.
IdleTime(req) == IF req <= 0 \/ req > PoolMaxIdle THEN PoolMaxIdle ELSE req

\* Probing from slot e with k turns passed finds its first free slot.
Probed(e, k, taken) ==
    /\ \A j \in 0 .. k - 1 : (e + j) % ArSize \in taken
    /\ (e + k) % ArSize \notin taken

\* createTransaction or returnTransaction of the transaction followed.
PlaceAt(time, taken) ==
    \E r \in 0 .. NofPerSlot - 1, k \in 0 .. Tries :
        LET e == FirstSlot(m_lasttick, time, r)
        IN /\ Probed(e, k, taken)
           /\ slot' = (e + k) % ArSize
           /\ idle' = time /\ age' = 0
           /\ ahead' = time * NofPerSlot + r + k

Create ==
    /\ slot = NoSlot
    /\ \E req \in Requested : PlaceAt(IdleTime(req), others)
    /\ UNCHANGED <<m_lasttick, others>>

Touch ==
    /\ slot # NoSlot
    /\ PlaceAt(idle, others)
    /\ UNCHANGED <<m_lasttick, others>>

Vanish == slot' = NoSlot /\ idle' = 0 /\ age' = 0 /\ ahead' = 0

\* Fetched and not returned: committed, deleted or lost.
Dispose ==
    /\ slot # NoSlot
    /\ Vanish
    /\ UNCHANGED <<m_lasttick, others>>

\* Another transaction is created or returned, or fetched.
OtherPlaced ==
    /\ \E req \in Requested, r \in 0 .. NofPerSlot - 1, k \in 0 .. Tries :
        LET e == FirstSlot(m_lasttick, IdleTime(req), r)
            taken == others \cup {slot}
        IN Probed(e, k, taken) /\ others' = others \cup {(e + k) % ArSize}
    /\ UNCHANGED <<m_lasttick, slot, idle, age, ahead>>

OtherFetched ==
    /\ \E s \in others : others' = others \ {s}
    /\ UNCHANGED <<m_lasttick, slot, idle, age, ahead>>

\* collectGarbage, gap ticks after the last call.
Swept(gap) ==
    LET now == (m_lasttick + gap) % (ArSize - 1)
    IN {x % ArSize : x \in RingStart(m_lasttick) .. SweepEnd(m_lasttick, now) - 1}

Tick(gap) ==
    /\ m_lasttick' = (m_lasttick + gap) % (ArSize - 1)
    /\ others' = others \ Swept(gap)
    /\ IF slot = NoSlot THEN UNCHANGED <<slot, idle, age, ahead>>
       ELSE IF slot \in Swept(gap) THEN Vanish
       ELSE age' = age + gap /\ UNCHANGED <<slot, idle, ahead>>

Next ==
    \/ Create \/ Touch \/ Dispose
    \/ OtherPlaced \/ OtherFetched
    \/ \E gap \in 1 .. MaxGap : Tick(gap)

Spec == Init /\ [][Next]_vars

-----------------------------------------------------------------------------
(* The state of the window has its types. *)
TypeOK ==
    /\ m_lasttick \in Ticks
    /\ others \subseteq Slots
    /\ slot \in Slots \cup {NoSlot}
    /\ idle \in 0 .. PoolMaxIdle
    /\ age \in Nat
    /\ ahead \in Nat

\* In this step the sweep takes the transaction, gap ticks after the last one.
Expires(gap) == slot # NoSlot /\ slot \in Swept(gap) /\ Tick(gap)

(* "If the time between the last return and the succeeding fetch exceeds   *)
(* the timeout, then the transaction is destroyed" (transaction.hpp), and  *)
(* not before, as far as the ring carries: a transaction that found its    *)
(* slot less than one turn ahead of the sweep gets its idle time.          *)
IdleTimeGrantedWithinTurn ==
    [][\A gap \in 1 .. MaxGap :
          Expires(gap) /\ ahead < ArSize - 1 => age + gap > idle]_vars

(* An untouched transaction does expire: what is left after a sweep is no  *)
(* older than the distance at which it was placed.                         *)
Expired == slot # NoSlot => age * NofPerSlot <= ahead
=============================================================================
