--------------------------- MODULE TransactionPool ---------------------------
(***************************************************************************)
(* TransactionPool (src/webrequest/transaction.hpp, transaction.cpp): the  *)
(* open transactions of the web request handler.  m_ar is a ring of slots  *)
(* ordered by expiration time, m_refar maps the hash of a transaction id   *)
(* to the slot the transaction lies in.  Request threads create, fetch and *)
(* return transactions, a ticker sweeps the slots that have expired.       *)
(*                                                                         *)
(* The steps are the code's atomic sections: one turn of a probing loop    *)
(* under its striped mutex, the read of m_refar that precedes the lock in  *)
(* fetchTransaction, the two writes of returnTransaction, one slot of the  *)
(* sweep, which takes no mutex.  A Transaction object is identified with   *)
(* its id; it is destroyed with its last TransactionRef, and its           *)
(* destructor frees its entry of m_refar.                                  *)
(***************************************************************************)
EXTENDS TransactionRing

CONSTANTS
    Threads,          \* request threads
    Ids,              \* transaction indices nextRand may return
    NofMutex,         \* stripes of m_mutex_ar and m_mutex_refar
    MaxIdle,          \* m_maxIdleTime, the idle time of all transactions here
    Tries,            \* m_allocNofTries
    NoTransaction,    \* an empty TransactionRef
    NoThread,         \* the owner of a free mutex
    RefsExhaustible,  \* FALSE: one of the first Tries random ids finds a free entry
    CopyAtomic        \* TRUE: nobody resets a slot in the middle of its copy

ASSUME SizesAssumption ==
    /\ NofMutex \in Nat \ {0}
    /\ MaxIdle \in Nat
    /\ Tries \in Nat \ {0}
ASSUME IdsAssumption == Ids \subseteq Nat
ASSUME NoneAssumption == NoTransaction \notin Ids /\ NoThread \notin Threads
ASSUME RegimeAssumption == RefsExhaustible \in BOOLEAN /\ CopyAtomic \in BOOLEAN

\* The values of an entry of m_refar that are no slot: -1 and INT_MAX.
Free == -1
Reserved == ArSize

\* tidx & (m_arsize-1)
Home(i) == i % ArSize

\* eidx & (m_arsize-1), also for the -1 and INT_MAX fetchTransaction may read
Slot(e) == IF e \in Slots THEN e ELSE ArSize - 1

\* eidx % NofMutex.  For -1 this is m_mutex_ar[-1]: by the layout of the class
\* the last element of m_mutex_refar, the array declared before it.
LastRefarMutex == -1
Mutexes == (0 .. NofMutex - 1) \cup {LastRefarMutex}
Stripe(e) ==
    IF e = Free THEN LastRefarMutex
    ELSE Slot(e) % NofMutex

VARIABLES
    m_ar,        \* slot -> transaction
    m_refar,     \* entry -> slot of the transaction, Free or Reserved
    mutex,       \* stripe -> owner
    m_lasttick,  \* the ring position m_lasttick % (m_arsize-1)
    sweep,       \* the slots collectGarbage has still to reset
    life,        \* id -> has its Transaction object been built, destroyed
    pc,          \* thread -> where it stands
    tid,         \* thread -> the transaction its call is about
    ref,         \* thread -> the TransactionRef it holds
    cnt,         \* thread -> tries left in the probing loop
    eidx,        \* thread -> slot index it is looking at
    absent       \* thread -> history: tid was out of the pool since fetch began

tickVars == <<m_lasttick, sweep>>
vars == <<m_ar, m_refar, mutex, m_lasttick, sweep, life,
          pc, tid, ref, cnt, eidx, absent>>

NoSweep == [at |-> 0, end |-> 0]

Init ==
    /\ m_ar = [s \in Slots |-> NoTransaction]
    /\ m_refar = [s \in Slots |-> Free]
    /\ mutex = [m \in Mutexes |-> NoThread]
    /\ m_lasttick = 0
    /\ sweep = NoSweep
    /\ life = [i \in Ids |-> "unborn"]
    /\ pc = [t \in Threads |-> "idle"]
    /\ tid = [t \in Threads |-> NoTransaction]
    /\ ref = [t \in Threads |-> NoTransaction]
    /\ cnt = [t \in Threads |-> 0]
    /\ eidx = [t \in Threads |-> 0]
    /\ absent = [t \in Threads |-> FALSE]

-----------------------------------------------------------------------------
(* References.  The pointer a thread has copied without having counted it  *)
(* yet keeps nothing alive.                                                *)

HeldBy(i, t) == ref[t] = i /\ pc[t] # "copy"

\* ~Transaction(): the object is gone and its entry of m_refar is freed.
Destroy(i) ==
    /\ life' = [life EXCEPT ![i] = "dead"]
    /\ m_refar' = [m_refar EXCEPT ![Home(i)] = Free]

\* Thread t resets its TransactionRef.
Release(t) ==
    /\ ref' = [ref EXCEPT ![t] = NoTransaction]
    /\ IF \/ ref[t] = NoTransaction
          \/ \E s \in Slots : m_ar[s] = ref[t]
          \/ \E u \in Threads \ {t} : HeldBy(ref[t], u)
       THEN UNCHANGED <<life, m_refar>>
       ELSE Destroy(ref[t])

\* Mutant: the slot owns its transaction, references held elsewhere do not count.
ResetSlotOwning(s) ==
    /\ m_ar' = [m_ar EXCEPT ![s] = NoTransaction]
    /\ IF m_ar[s] = NoTransaction THEN UNCHANGED <<life, m_refar>>
       ELSE Destroy(m_ar[s])

\* Whoever runs this resets slot s.
ResetSlot(s) ==
    /\ CopyAtomic => \A t \in Threads : ~(pc[t] = "copy" /\ Slot(eidx[t]) = s)
    /\ m_ar' = [m_ar EXCEPT ![s] = NoTransaction]
    /\ IF \/ m_ar[s] = NoTransaction
          \/ \E u \in Slots \ {s} : m_ar[u] = m_ar[s]
          \/ \E t \in Threads : HeldBy(m_ar[s], t)
       THEN UNCHANGED <<life, m_refar>>
       ELSE Destroy(m_ar[s])

MutexFree(m) == mutex[m] = NoThread
Lock(m, t) == MutexFree(m) /\ mutex' = [mutex EXCEPT ![m] = t]
Unlock(m) == mutex' = [mutex EXCEPT ![m] = NoThread]

Goto(t, where) == pc' = [pc EXCEPT ![t] = where]

\* The call ends and its local variables with it.
Leave(t) ==
    /\ Goto(t, "idle")
    /\ tid' = [tid EXCEPT ![t] = NoTransaction]
    /\ cnt' = [cnt EXCEPT ![t] = 0]
    /\ eidx' = [eidx EXCEPT ![t] = 0]

-----------------------------------------------------------------------------
(* newTransaction, its first loop: reserve an entry of m_refar.            *)

New(t) ==
    /\ pc[t] = "idle"
    /\ Goto(t, "reserve")
    /\ cnt' = [cnt EXCEPT ![t] = Tries]
    /\ UNCHANGED <<m_ar, m_refar, mutex, tickVars, life, tid, ref, eidx>>

\* What nextRand may return: 63 random bits never repeat an id in use.
Fresh(i) ==
    /\ life[i] = "unborn"
    /\ \A t \in Threads : ~(pc[t] = "place" /\ tid[t] = i)

StartPlacing(t, i) ==
    /\ Goto(t, "place")
    /\ tid' = [tid EXCEPT ![t] = i]
    /\ cnt' = [cnt EXCEPT ![t] = Tries]
    /\ eidx' = [eidx EXCEPT ![t] = FirstSlot(m_lasttick, MaxIdle, i)]

\* The entry is free.  When this was the last turn, cnt is 0 and the check
\* after the loop throws although the entry has just been reserved.
ReserveEntry(t, i) ==
    /\ m_refar[Home(i)] = Free
    /\ m_refar' = [m_refar EXCEPT ![Home(i)] = Reserved]
    /\ IF cnt[t] = 0
       THEN Leave(t)
       ELSE StartPlacing(t, i)

\* The entry is in use.  After the last turn cnt is -1, the check for 0 does
\* not throw, and the loop is left with the entry of another transaction.
EntryInUse(t, i) ==
    /\ m_refar[Home(i)] # Free
    /\ UNCHANGED m_refar
    /\ RefsExhaustible \/ cnt[t] > 1
    /\ IF cnt[t] > 0
       THEN cnt' = [cnt EXCEPT ![t] = @ - 1] /\ UNCHANGED <<pc, tid, eidx>>
       ELSE StartPlacing(t, i)

Reserve(t) ==
    /\ pc[t] = "reserve"
    /\ \E i \in Ids :
        /\ Fresh(i)
        /\ Stripe(Home(i)) = NofMutex - 1 => MutexFree(LastRefarMutex)
        /\ ReserveEntry(t, i) \/ EntryInUse(t, i)
    /\ UNCHANGED <<m_ar, mutex, tickVars, life, ref>>

(* newTransaction, its second loop: place the transaction into a slot.     *)

Place(t) ==
    /\ pc[t] = "place" /\ MutexFree(Stripe(eidx[t]))
    /\ m_ar[eidx[t]] = NoTransaction
    /\ m_ar' = [m_ar EXCEPT ![eidx[t]] = tid[t]]
    /\ m_refar' = [m_refar EXCEPT ![Home(tid[t])] = eidx[t]]
    /\ life' = [life EXCEPT ![tid[t]] = "alive"]
    /\ ref' = [ref EXCEPT ![t] = tid[t]]
    /\ Goto(t, "created")
    /\ UNCHANGED <<mutex, tickVars, tid, cnt, eidx>>

PlaceNext(t) ==
    /\ pc[t] = "place" /\ MutexFree(Stripe(eidx[t]))
    /\ m_ar[eidx[t]] # NoTransaction /\ cnt[t] > 0
    /\ cnt' = [cnt EXCEPT ![t] = @ - 1]
    /\ eidx' = [eidx EXCEPT ![t] = NextSlot(@)]
    /\ UNCHANGED <<m_ar, m_refar, mutex, tickVars, life, pc, tid, ref>>

\* Mutant: the entry is not rolled back.
PlaceFailKeepsEntry(t) ==
    /\ pc[t] = "place" /\ MutexFree(Stripe(eidx[t]))
    /\ m_ar[eidx[t]] = NoTransaction \/ cnt[t] = 0
    /\ Leave(t)
    /\ UNCHANGED <<m_ar, m_refar, mutex, tickVars, life, ref>>

\* No slot after the last turn, or the allocation fails: roll back, throw.
PlaceFail(t) ==
    /\ pc[t] = "place" /\ MutexFree(Stripe(eidx[t]))
    /\ m_ar[eidx[t]] = NoTransaction \/ cnt[t] = 0
    /\ m_refar' = [m_refar EXCEPT ![Home(tid[t])] = Free]
    /\ Leave(t)
    /\ UNCHANGED <<m_ar, mutex, tickVars, life, ref>>

(* createTransaction returns the id and drops its own reference.           *)
Created(t) ==
    /\ pc[t] = "created"
    /\ Release(t)
    /\ Leave(t)
    /\ UNCHANGED <<m_ar, mutex, tickVars>>

-----------------------------------------------------------------------------
(* fetchTransaction.  A client knows an id once its creation has returned. *)

Issued(i) ==
    /\ life[i] # "unborn"
    /\ \A t \in Threads : ~(pc[t] = "created" /\ tid[t] = i)

\* m_refar is read without a mutex.
Fetch(t, i) ==
    /\ pc[t] = "idle" /\ Issued(i)
    /\ tid' = [tid EXCEPT ![t] = i]
    /\ eidx' = [eidx EXCEPT ![t] = m_refar[Home(i)]]
    /\ Goto(t, "fetch")
    /\ UNCHANGED <<m_ar, m_refar, mutex, tickVars, life, ref, cnt>>

\* The mutex is taken and the TransactionRef of the slot copied.  Copying is
\* reading the pointer and then counting it.
FetchLock(t) ==
    /\ pc[t] = "fetch"
    /\ Lock(Stripe(eidx[t]), t)
    /\ ref' = [ref EXCEPT ![t] = m_ar[Slot(eidx[t])]]
    /\ Goto(t, "copy")
    /\ UNCHANGED <<m_ar, m_refar, tickVars, life, tid, cnt, eidx>>

FetchCount(t) ==
    /\ pc[t] = "copy"
    /\ Goto(t, "check")
    /\ UNCHANGED <<m_ar, m_refar, mutex, tickVars, life, tid, ref, cnt, eidx>>

\* Mutant: the transaction stays in its slot while it is processed.
FetchTakeLeavesSlot(t) ==
    /\ pc[t] = "check" /\ ref[t] = tid[t]
    /\ Unlock(Stripe(eidx[t]))
    /\ Goto(t, "own")
    /\ UNCHANGED <<m_ar, m_refar, tickVars, life, tid, ref, cnt, eidx>>

FetchTake(t) ==
    /\ pc[t] = "check" /\ ref[t] = tid[t]
    /\ ResetSlot(Slot(eidx[t]))
    /\ Unlock(Stripe(eidx[t]))
    /\ Goto(t, "own")
    /\ UNCHANGED <<tickVars, tid, ref, cnt, eidx>>

\* Mutant: a fetch that finds the mutex taken does not wait for it.
FetchMissUnlessFree(t) ==
    /\ pc[t] = "fetch" /\ ~MutexFree(Stripe(eidx[t]))
    /\ Leave(t)
    /\ UNCHANGED <<m_ar, m_refar, mutex, tickVars, life, ref>>

\* Nothing there or another transaction (the idx read from a destroyed one
\* may be anything): the copied reference is dropped under the mutex.
FetchMiss(t) ==
    /\ pc[t] = "check"
    /\ ref[t] # tid[t] \/ life[tid[t]] = "dead"
    /\ Release(t)
    /\ Unlock(Stripe(eidx[t]))
    /\ Leave(t)
    /\ UNCHANGED <<m_ar, tickVars>>

-----------------------------------------------------------------------------
(* The owner of a fetched transaction returns it or disposes of it.        *)

Return(t) ==
    /\ pc[t] = "own"
    /\ Goto(t, "return")
    /\ cnt' = [cnt EXCEPT ![t] = Tries]
    /\ eidx' = [eidx EXCEPT ![t] = FirstSlot(m_lasttick, MaxIdle, ref[t])]
    /\ UNCHANGED <<m_ar, m_refar, mutex, tickVars, life, tid, ref>>

ReturnPlace(t) ==
    /\ pc[t] = "return" /\ m_ar[eidx[t]] = NoTransaction
    /\ Lock(Stripe(eidx[t]), t)
    /\ m_ar' = [m_ar EXCEPT ![eidx[t]] = ref[t]]
    /\ Goto(t, "setref")
    /\ UNCHANGED <<m_refar, tickVars, life, tid, ref, cnt, eidx>>

ReturnNext(t) ==
    /\ pc[t] = "return" /\ MutexFree(Stripe(eidx[t]))
    /\ m_ar[eidx[t]] # NoTransaction /\ cnt[t] > 0
    /\ cnt' = [cnt EXCEPT ![t] = @ - 1]
    /\ eidx' = [eidx EXCEPT ![t] = NextSlot(@)]
    /\ UNCHANGED <<m_ar, m_refar, mutex, tickVars, life, pc, tid, ref>>

\* No slot after the last turn: throw, the caller drops the transaction.
ReturnFail(t) ==
    /\ pc[t] = "return" /\ MutexFree(Stripe(eidx[t]))
    /\ m_ar[eidx[t]] # NoTransaction /\ cnt[t] = 0
    /\ Goto(t, "drop")
    /\ UNCHANGED <<m_ar, m_refar, mutex, tickVars, life, tid, ref, cnt, eidx>>

\* Mutant: the entry keeps naming the slot the transaction was fetched from.
SetRefForgotten(t) ==
    /\ pc[t] = "setref"
    /\ Unlock(Stripe(eidx[t]))
    /\ Goto(t, "drop")
    /\ UNCHANGED <<m_ar, m_refar, tickVars, life, tid, ref, cnt, eidx>>

SetRef(t) ==
    /\ pc[t] = "setref"
    /\ m_refar' = [m_refar EXCEPT ![Home(ref[t])] = eidx[t]]
    /\ Unlock(Stripe(eidx[t]))
    /\ Goto(t, "drop")
    /\ UNCHANGED <<m_ar, tickVars, life, tid, ref, cnt, eidx>>

\* The TransactionRef of the request is reset: after the return, or instead of
\* it when the request committed or deleted the transaction.
Drop(t) ==
    /\ pc[t] \in {"own", "drop"}
    /\ Release(t)
    /\ Leave(t)
    /\ UNCHANGED <<m_ar, mutex, tickVars>>

-----------------------------------------------------------------------------
(* collectGarbage: m_tickflag lets one thread in; time may have advanced   *)
(* by any amount since the last tick.                                      *)

\* The sweep of [at, end): over, and m_tickflag free again, once it is empty.
SweepOf(at, end) == IF at < end THEN [at |-> at, end |-> end] ELSE NoSweep

Tick ==
    /\ sweep = NoSweep
    /\ \E now \in Ticks :
        /\ m_lasttick' = now
        /\ sweep' = SweepOf(RingStart(m_lasttick), SweepEnd(m_lasttick, now))
    /\ UNCHANGED <<m_ar, m_refar, mutex, life, pc, tid, ref, cnt, eidx>>

Collect ==
    /\ sweep # NoSweep
    /\ ResetSlot(sweep.at % ArSize)
    /\ sweep' = SweepOf(sweep.at + 1, sweep.end)
    /\ UNCHANGED <<mutex, m_lasttick, pc, tid, ref, cnt, eidx>>

-----------------------------------------------------------------------------
(* Where a transaction is, seen by its users.                              *)

\* t has fetched i and not yet made it visible in the pool again.
Visible(i) ==
    /\ m_refar[Home(i)] \in Slots
    /\ m_ar[m_refar[Home(i)]] = i
Taken(i, t) ==
    /\ ref[t] = i
    /\ \/ pc[t] \in {"own", "return"}
       \/ pc[t] = "check" /\ tid[t] = i
       \/ pc[t] = "setref" /\ m_refar[Home(i)] # eidx[t]
InPool(i) == Visible(i) /\ \A t \in Threads : ~Taken(i, t)

Fetching(t) == pc[t] \in {"fetch", "copy"} \/ (pc[t] = "check" /\ ref[t] # tid[t])

\* The history variable: nothing else reads it.
Observe ==
    absent' = [t \in Threads |->
        /\ Fetching(t)'
        /\ absent[t] \/ ~InPool(tid[t])']

ThreadStep(t) ==
    \/ New(t) \/ Reserve(t) \/ Place(t) \/ PlaceNext(t) \/ PlaceFail(t)
    \/ Created(t)
    \/ \E i \in Ids : Fetch(t, i)
    \/ FetchLock(t) \/ FetchCount(t) \/ FetchTake(t) \/ FetchMiss(t)
    \/ Return(t) \/ ReturnPlace(t) \/ ReturnNext(t) \/ ReturnFail(t)
    \/ SetRef(t) \/ Drop(t)

Step == (\E t \in Threads : ThreadStep(t)) \/ Tick \/ Collect

Next == Step /\ Observe

Spec == Init /\ [][Next]_vars

-----------------------------------------------------------------------------
(* The types of what the pool and its threads keep. *)
StateTypes ==
    /\ m_ar \in [Slots -> Ids \cup {NoTransaction}]
    /\ m_refar \in [Slots -> Slots \cup {Free, Reserved}]
    /\ mutex \in [Mutexes -> Threads \cup {NoThread}]
    /\ m_lasttick \in Ticks
    /\ sweep \in [at : Nat, end : Nat]
    /\ life \in [Ids -> {"unborn", "alive", "dead"}]
    /\ pc \in [Threads -> {"idle", "reserve", "place", "created", "fetch",
                           "copy", "check", "own", "return", "setref", "drop"}]
    /\ tid \in [Threads -> Ids \cup {NoTransaction}]
    /\ ref \in [Threads -> Ids \cup {NoTransaction}]
    /\ cnt \in [Threads -> 0 .. Tries]
    /\ eidx \in [Threads -> Slots \cup {Free, Reserved}]

(* Type correctness of the pool's state. *)
TypeOK == StateTypes /\ absent \in [Threads -> BOOLEAN]

(* A fetched transaction belongs to one thread alone: no other thread has  *)
(* it and no slot of the pool holds it, although m_refar is read unlocked, *)
(* slots move, and the sweep takes no mutex (fetchTransaction).            *)
ExclusiveOwner ==
    \A t \in Threads : pc[t] \in {"own", "return"} =>
        /\ \A u \in Threads \ {t} :
              pc[u] \in {"own", "return"} => ref[u] # ref[t]
        /\ \A s \in Slots : m_ar[s] # ref[t]

(* m_refar maps a transaction id to its slot ("map transaction id to       *)
(* transaction object reference"): an entry serves one transaction, and    *)
(* that of a transaction in a slot names the slot, except while its        *)
(* returning thread is between the two writes.                             *)
EntryMapsId ==
    \A i \in Ids : life[i] = "alive" =>
        /\ \A j \in Ids \ {i} : life[j] = "alive" => Home(j) # Home(i)
        /\ \A s \in Slots : m_ar[s] = i =>
              \/ m_refar[Home(i)] = s
              \/ \E t \in Threads : pc[t] = "setref" /\ ref[t] = i

(* No entry of m_refar leaks: one that is not free belongs to a living     *)
(* transaction or to a creation under way (the roll backs of               *)
(* newTransaction and the destructor).                                     *)
NoEntryLeaked ==
    \A s \in Slots : m_refar[s] # Free =>
        \/ \E i \in Ids : life[i] = "alive" /\ Home(i) = s
        \/ \E t \in Threads : pc[t] = "place" /\ Home(tid[t]) = s

(* Nobody uses a destroyed transaction: the object a thread has fetched    *)
(* or is about to compare is alive.                                        *)
OwnedIsAlive ==
    \A t \in Threads :
        ref[t] # NoTransaction /\ pc[t] # "copy" => life[ref[t]] = "alive"

(* What the users of the pool see of it. *)
Status(i) ==
    CASE life[i] = "unborn" -> "unborn"
      [] \E t \in Threads : Taken(i, t) -> "taken"
      [] InPool(i) -> "pooled"
      [] OTHER -> "gone"
Holder(t) == IF \E i \in Ids : Taken(i, t) THEN ref[t] ELSE NoTransaction
Wanted(t) == IF Fetching(t) THEN tid[t] ELSE NoTransaction

(* The pool implements the registry its documentation describes.           *)
Registry ==
    INSTANCE TransactionRegistry WITH
        status <- [i \in Ids |-> Status(i)],
        holder <- [t \in Threads |-> Holder(t)],
        wanted <- [t \in Threads |-> Wanted(t)],
        absent <- absent
ImplementsRegistry == Registry!Spec
=============================================================================
