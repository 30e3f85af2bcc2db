------------------------ MODULE TransactionPoolProofs ------------------------
(***************************************************************************)
(* The type correctness of TransactionPool, and its safety properties in   *)
(* the regime in which neither defect of the code shows, proved for every  *)
(* number of threads, ids, slots, mutexes and tries.  PoolInv is           *)
(* inductive: one lemma per operation shows that it keeps every conjunct.  *)
(* In the same regime TransactionPool implements TransactionRegistry: each *)
(* operation of the pool is a step of the registry or changes nothing its  *)
(* users see.  In any regime the calls end.                                *)
(***************************************************************************)
EXTENDS TransactionPoolInvariant, TLAPS

-----------------------------------------------------------------------------
(* Type correctness, in every regime.                                      *)

LEMMA ModRange ==
    ASSUME NEW a \in Int, NEW b \in Nat \ {0}
    PROVE  a % b \in 0 .. b - 1
BY SMT

LEMMA HomeIsSlot == \A i \in Ids : Home(i) \in Slots
BY ModRange, IdsAssumption, RingAssumption DEF Home, Slots

LEMMA NextSlotIsSlot == \A e \in Slots : NextSlot(e) \in Slots
BY ModRange, RingAssumption DEF NextSlot, Slots

LEMMA ProductIsNat == \A a \in Nat, b \in Nat : a * b \in Nat
BY SMT

LEMMA FirstSlotIsSlot ==
    \A i \in Ids : m_lasttick \in Ticks => FirstSlot(m_lasttick, MaxIdle, i) \in Slots
<1> SUFFICES ASSUME NEW i \in Ids, m_lasttick \in Ticks
             PROVE  FirstSlot(m_lasttick, MaxIdle, i) \in Slots
    OBVIOUS
<1>1. (m_lasttick + MaxIdle) * NofPerSlot \in Nat
      BY ProductIsNat, RingAssumption, SizesAssumption DEF Ticks
<1>2. RingCandidate(m_lasttick, MaxIdle) \in Nat
      BY <1>1, ModRange, RingAssumption DEF RingCandidate
<1>3. i % NofPerSlot \in Nat
      BY ModRange, IdsAssumption, RingAssumption
<1>4. RingCandidate(m_lasttick, MaxIdle) + (i % NofPerSlot) \in Int
      BY <1>2, <1>3
<1>5. \A x \in Int : x % ArSize \in 0 .. ArSize - 1
      BY ModRange, RingAssumption
<1> QED BY <1>4, <1>5, Zenon DEF FirstSlot, Slots

LEMMA RingStartIsNat == \A tick \in Ticks : RingStart(tick) \in Nat
<1> SUFFICES ASSUME NEW tick \in Ticks PROVE RingStart(tick) \in Nat
    OBVIOUS
<1>1. tick * NofPerSlot \in Nat
      BY ProductIsNat, RingAssumption DEF Ticks
<1> QED BY <1>1, ModRange, RingAssumption DEF RingStart

-----------------------------------------------------------------------------
(* Each operation keeps the types; absent, which only Observe writes, apart. *)

LEMMA CreateTypes ==
    ASSUME StateInv, NEW t \in Threads,
           \/ New(t) \/ Reserve(t) \/ Place(t) \/ PlaceNext(t) \/ PlaceFail(t)
           \/ Created(t)
    PROVE  StateInv'
<1> USE DEF StateInv, StateTypes, LocalsOK
<1>0. 0 \in Slots /\ Tries \in Nat \ {0}
      BY RingAssumption, SizesAssumption DEF Slots
<1>1. CASE New(t)
      BY <1>1, <1>0 DEF New, Goto, tickVars
<1>2. CASE Reserve(t)
  <2>1. PICK i \in Ids : Fresh(i) /\ (ReserveEntry(t, i) \/ EntryInUse(t, i))
        BY <1>2 DEF Reserve
  <2>2. pc[t] = "reserve" /\ UNCHANGED <<m_ar, mutex, tickVars, life, ref>>
        BY <1>2 DEF Reserve
  <2>3. FirstSlot(m_lasttick, MaxIdle, i) \in Slots
        BY FirstSlotIsSlot
  <2>4. CASE ReserveEntry(t, i)
        BY <2>2, <2>3, <2>4, <1>0, HomeIsSlot
        DEF ReserveEntry, StartPlacing, Leave, Goto, tickVars
  <2>5. CASE EntryInUse(t, i)
        BY <2>2, <2>3, <2>5, <1>0
        DEF EntryInUse, StartPlacing, Goto, tickVars
  <2> QED BY <2>1, <2>4, <2>5
<1>3. CASE Place(t)
      BY <1>3 DEF Place, Goto, tickVars
<1>4. CASE PlaceNext(t)
      BY <1>4, <1>0, NextSlotIsSlot DEF PlaceNext, tickVars
<1>5. CASE PlaceFail(t)
  <2>0. /\ m_refar' = [m_refar EXCEPT ![Home(tid[t])] = Free]
        /\ Leave(t)
        /\ UNCHANGED <<m_ar, mutex, tickVars, life, ref>>
        BY <1>5 DEF PlaceFail
  <2>1. StateTypes'
    <3>1. m_refar' \in [Slots -> Slots \cup {Free, Reserved}]
          BY <2>0 DEF Leave, Goto, tickVars
    <3>2. /\ pc' \in [Threads -> {"idle", "reserve", "place", "created", "fetch",
                           "copy", "check", "own", "return", "setref", "drop"}]
          /\ tid' \in [Threads -> Ids \cup {NoTransaction}]
          /\ cnt' \in [Threads -> 0 .. Tries]
          /\ eidx' \in [Threads -> Slots \cup {Free, Reserved}]
          BY <2>0, <1>0 DEF Leave, Goto
    <3> QED BY <2>0, <3>1, <3>2 DEF Leave, Goto, tickVars
  <2>2. LocalsOK'
        BY <1>5, <1>0 DEF PlaceFail, Leave, Goto, tickVars
  <2> QED BY <2>1, <2>2
<1>6. CASE Created(t)
      BY <1>6, <1>0 DEF Created, Release, Destroy, Leave, Goto, tickVars
<1> QED BY <1>1, <1>2, <1>3, <1>4, <1>5, <1>6

LEMMA FetchTypes ==
    ASSUME StateInv, NEW t \in Threads,
           \/ \E i \in Ids : Fetch(t, i)
           \/ FetchLock(t) \/ FetchCount(t) \/ FetchTake(t) \/ FetchMiss(t)
    PROVE  StateInv'
<1> USE DEF StateInv, StateTypes, LocalsOK
<1>0. 0 \in Slots /\ ArSize - 1 \in Slots /\ Tries \in Nat \ {0}
      BY RingAssumption, SizesAssumption DEF Slots
<1>1. CASE \E i \in Ids : Fetch(t, i)
      BY <1>1, HomeIsSlot DEF Fetch, Goto, tickVars
<1>2. CASE FetchLock(t)
      BY <1>2, <1>0 DEF FetchLock, Lock, Slot, Goto, tickVars
<1>3. CASE FetchCount(t)
      BY <1>3 DEF FetchCount, Goto, tickVars
<1>4. CASE FetchTake(t)
      BY <1>4 DEF FetchTake, ResetSlot, Destroy, Unlock, Goto, tickVars
<1>5. CASE FetchMiss(t)
  <2>0. Release(t) /\ Unlock(Stripe(eidx[t])) /\ Leave(t)
        /\ UNCHANGED <<m_ar, tickVars>>
        BY <1>5 DEF FetchMiss
  <2>1. StateTypes'
    <3>1. m_refar' \in [Slots -> Slots \cup {Free, Reserved}]
          BY <2>0 DEF Release, Destroy, Unlock, Leave, Goto, tickVars
    <3>2. /\ pc' \in [Threads -> {"idle", "reserve", "place", "created", "fetch",
                           "copy", "check", "own", "return", "setref", "drop"}]
          /\ tid' \in [Threads -> Ids \cup {NoTransaction}]
          /\ cnt' \in [Threads -> 0 .. Tries]
          /\ eidx' \in [Threads -> Slots \cup {Free, Reserved}]
          BY <2>0, <1>0 DEF Leave, Goto
    <3> QED BY <2>0, <3>1, <3>2 DEF Release, Destroy, Unlock, Leave, Goto, tickVars
  <2>2. LocalsOK'
        BY <1>5, <1>0 DEF FetchMiss, Release, Destroy, Unlock, Leave, Goto, tickVars
  <2> QED BY <2>1, <2>2
<1> QED BY <1>1, <1>2, <1>3, <1>4, <1>5

LEMMA ReturnTypes ==
    ASSUME StateInv, NEW t \in Threads,
           \/ Return(t) \/ ReturnPlace(t) \/ ReturnNext(t) \/ ReturnFail(t)
           \/ SetRef(t) \/ Drop(t)
    PROVE  StateInv'
<1> USE DEF StateInv, StateTypes, LocalsOK
<1>0. 0 \in Slots /\ Tries \in Nat \ {0}
      BY RingAssumption, SizesAssumption DEF Slots
<1>1. CASE Return(t)
      BY <1>1, <1>0, FirstSlotIsSlot DEF Return, Goto, tickVars
<1>2. CASE ReturnPlace(t)
      BY <1>2 DEF ReturnPlace, Lock, Goto, tickVars
<1>3. CASE ReturnNext(t)
      BY <1>3, <1>0, NextSlotIsSlot DEF ReturnNext, tickVars
<1>4. CASE ReturnFail(t)
      BY <1>4 DEF ReturnFail, Goto, tickVars
<1>5. CASE SetRef(t)
      BY <1>5 DEF SetRef, Unlock, Goto, tickVars
<1>6. CASE Drop(t)
      BY <1>6, <1>0 DEF Drop, Release, Destroy, Leave, Goto, tickVars
<1> QED BY <1>1, <1>2, <1>3, <1>4, <1>5, <1>6

LEMMA SweepTypes ==
    ASSUME StateInv, Tick \/ Collect
    PROVE  StateInv'
<1> USE DEF StateInv, StateTypes, LocalsOK
<1>1. CASE Tick
  <2>1. PICK now \in Ticks :
            /\ m_lasttick' = now
            /\ sweep' = SweepOf(RingStart(m_lasttick), SweepEnd(m_lasttick, now))
        BY <1>1 DEF Tick
  <2>2. RingStart(m_lasttick) \in Nat /\ SweepEnd(m_lasttick, now) \in Nat
        BY RingStartIsNat, RingAssumption DEF SweepEnd
  <2>3. sweep' \in [at : Nat, end : Nat]
        BY <2>1, <2>2 DEF SweepOf, NoSweep
  <2> QED BY <1>1, <2>1, <2>3 DEF Tick
<1>2. CASE Collect
  <2>1. sweep' \in [at : Nat, end : Nat]
        BY <1>2 DEF Collect, SweepOf, NoSweep
  <2> QED BY <1>2, <2>1 DEF Collect, ResetSlot, Destroy
<1> QED BY <1>1, <1>2

THEOREM StateCorrect == Spec => []StateInv
<1>1. Init => StateInv
  <2> SUFFICES ASSUME Init PROVE StateInv
      OBVIOUS
  <2>1. 0 \in Slots /\ 0 \in Ticks /\ Tries \in Nat
        BY RingAssumption, SizesAssumption DEF Slots, Ticks
  <2> QED BY <2>1 DEF Init, NoSweep, StateInv, StateTypes, LocalsOK
<1>2. StateInv /\ [Next]_vars => StateInv'
  <2> SUFFICES ASSUME StateInv, [Next]_vars PROVE StateInv'
      OBVIOUS
  <2>1. CASE UNCHANGED vars
        BY <2>1 DEF vars, StateInv, StateTypes, LocalsOK
  <2>2. CASE Next
        BY <2>2, CreateTypes, FetchTypes, ReturnTypes, SweepTypes
        DEF Next, Step, ThreadStep
  <2> QED BY <2>1, <2>2
<1> QED BY <1>1, <1>2, PTL DEF Spec

(* TypeOK holds in every reachable state of the pool, whatever the number  *)
(* of threads, ids, slots, mutexes and tries, with the code's two defects  *)
(* and without them.                                                       *)
THEOREM TypeCorrect == Spec => []TypeOK
<1>1. Init => absent \in [Threads -> BOOLEAN]
      BY DEF Init
<1>2. absent \in [Threads -> BOOLEAN] /\ [Next]_vars
      => (absent \in [Threads -> BOOLEAN])'
      BY DEF Next, Observe, vars
<1>3. StateInv /\ absent \in [Threads -> BOOLEAN] => TypeOK
      BY DEF StateInv, TypeOK
<1> QED BY <1>1, <1>2, <1>3, StateCorrect, PTL DEF Spec

-----------------------------------------------------------------------------
(* Safety.                                                                 *)

(* The values that index slots, entries and mutexes. *)
Indices ==
    /\ \A i \in Ids : Home(i) \in Slots
    /\ \A e \in Slots \cup {Free, Reserved} :
          Slot(e) \in Slots /\ Stripe(e) \in Mutexes
    /\ \A e \in Slots : Slot(e) = e
    /\ Free \notin Slots /\ Reserved \notin Slots /\ Free # Reserved
    /\ NoTransaction \notin Ids /\ NoThread \notin Threads

LEMMA IndicesOK == Indices
<1>1. \A e \in Slots \cup {Free, Reserved} : Slot(e) \in Slots
      BY RingAssumption DEF Slot, Slots
<1>2. \A a \in Int : a % NofMutex \in 0 .. NofMutex - 1
      BY ModRange, SizesAssumption
<1>3. \A s \in Slots : s \in Int
      BY DEF Slots
<1>4. \A e \in Slots \cup {Free, Reserved} : Stripe(e) \in Mutexes
      BY <1>1, <1>2, <1>3, Zenon DEF Stripe, Mutexes
<1>5. \A e \in Slots : Slot(e) = e
      BY DEF Slot
<1>6. Free \notin Slots /\ Reserved \notin Slots /\ Free # Reserved
      BY RingAssumption DEF Free, Reserved, Slots
<1> QED BY <1>1, <1>4, <1>5, <1>6, HomeIsSlot, NoneAssumption DEF Indices

-----------------------------------------------------------------------------
(* What dropping a reference does.                                         *)

(* A thread that resets its TransactionRef destroys the transaction only   *)
(* when no slot and no other thread refers to it.                          *)
LEMMA ReleaseEffect ==
    ASSUME StateInv, ReferencesAlive, CopiedInSlot, NEW t \in Threads, Release(t)
    PROVE  /\ ref' = [ref EXCEPT ![t] = NoTransaction]
           /\ \/ UNCHANGED <<life, m_refar>>
              \/ /\ ref[t] \in Ids /\ life[ref[t]] = "alive" /\ Destroy(ref[t])
                 /\ \A s \in Slots : m_ar[s] # ref[t]
                 /\ \A u \in Threads \ {t} : ref[u] # ref[t]
<1> USE DEF StateInv, StateTypes
<1>1. CASE UNCHANGED <<life, m_refar>>
      BY <1>1 DEF Release
<1>2. CASE ~UNCHANGED <<life, m_refar>>
  <2>1. /\ ref[t] # NoTransaction /\ Destroy(ref[t])
        /\ \A s \in Slots : m_ar[s] # ref[t]
        /\ \A u \in Threads \ {t} : ~HeldBy(ref[t], u)
        BY <1>2 DEF Release
  <2>2. \A u \in Threads \ {t} : ref[u] # ref[t]
        BY <2>1, IndicesOK DEF HeldBy, CopiedInSlot, Indices
  <2> QED BY <2>1, <2>2 DEF Release, ReferencesAlive
<1> QED BY <1>1, <1>2

(* Resetting a slot destroys its transaction only when no other slot and   *)
(* no thread refers to it.                                                 *)
LEMMA ResetEffect ==
    ASSUME Regime, StateInv, ReferencesAlive, SlotsDistinct, CopiedInSlot,
           NEW s \in Slots, ResetSlot(s)
    PROVE  /\ m_ar' = [m_ar EXCEPT ![s] = NoTransaction]
           /\ \/ UNCHANGED <<life, m_refar>>
              \/ /\ m_ar[s] \in Ids /\ life[m_ar[s]] = "alive" /\ Destroy(m_ar[s])
                 /\ \A u \in Slots \ {s} : m_ar[u] # m_ar[s]
                 /\ \A t \in Threads : ref[t] # m_ar[s]
<1> USE DEF StateInv, StateTypes
<1>1. CASE UNCHANGED <<life, m_refar>>
      BY <1>1 DEF ResetSlot
<1>2. CASE ~UNCHANGED <<life, m_refar>>
  <2>1. /\ m_ar[s] # NoTransaction /\ Destroy(m_ar[s])
        /\ \A u \in Slots \ {s} : m_ar[u] # m_ar[s]
        /\ \A t \in Threads : ~HeldBy(m_ar[s], t)
        BY <1>2 DEF ResetSlot
  <2>2. \A t \in Threads : ~(pc[t] = "copy" /\ Slot(eidx[t]) = s)
        BY DEF ResetSlot, Regime
  <2>3. ASSUME NEW t \in Threads, ref[t] = m_ar[s] PROVE FALSE
    <3>1. pc[t] = "copy"
          BY <2>1, <2>3 DEF HeldBy
    <3>2. m_ar[Slot(eidx[t])] = m_ar[s] /\ Slot(eidx[t]) \in Slots
          BY <2>1, <2>3, <3>1, IndicesOK DEF CopiedInSlot, Indices
    <3> QED BY <2>1, <2>2, <3>1, <3>2 DEF SlotsDistinct
  <2> QED BY <2>1, <2>3 DEF ResetSlot, ReferencesAlive
<1> QED BY <1>1, <1>2

(* Destroying a transaction frees its entry and no other.                  *)
LEMMA DestroyEffect ==
    ASSUME StateInv, EntriesOwned, NEW i \in Ids, life[i] = "alive", Destroy(i)
    PROVE  /\ life' = [life EXCEPT ![i] = "dead"]
           /\ \A j \in Ids \ {i} : life[j] = "alive" =>
                 m_refar'[Home(j)] = m_refar[Home(j)]
           /\ \A t \in Threads : pc[t] = "place" =>
                 tid[t] # i /\ m_refar'[Home(tid[t])] = m_refar[Home(tid[t])]
<1> USE DEF StateInv, StateTypes, LocalsOK
<1>1. m_refar' = [m_refar EXCEPT ![Home(i)] = Free] /\ life' = [life EXCEPT ![i] = "dead"]
      BY DEF Destroy
<1>2. \A j \in Ids \ {i} : life[j] = "alive" => Home(j) # Home(i)
      BY DEF EntriesOwned
<1>3. \A t \in Threads : pc[t] = "place" => tid[t] # i /\ Home(tid[t]) # Home(i)
      BY IndicesOK DEF EntriesOwned, Indices
<1> QED BY <1>1, <1>2, <1>3, IndicesOK DEF Indices

(* Who is still there after a step that drops one reference, and that the  *)
(* step leaves its entry alone.                                            *)
Survivors ==
    /\ \A j \in Ids : life'[j] = "alive" =>
          life[j] = "alive" /\ m_refar'[Home(j)] = m_refar[Home(j)]
    /\ \A j \in Ids : life[j] = "dead" => life'[j] = "dead"
    /\ \A s \in Slots : m_ar'[s] # NoTransaction =>
          m_ar'[s] = m_ar[s] /\ life'[m_ar[s]] = "alive"
    /\ \A t \in Threads : ref'[t] # NoTransaction =>
          ref'[t] = ref[t] /\ life'[ref[t]] = "alive"
    /\ \A t \in Threads : pc[t] = "place" =>
          /\ life'[tid[t]] = "unborn"
          /\ m_refar'[Home(tid[t])] = m_refar[Home(tid[t])]
    /\ \A s \in Slots : m_refar'[s] # Free =>
          /\ m_refar[s] # Free
          /\ \A j \in Ids : life[j] = "alive" /\ Home(j) = s => life'[j] = "alive"

LEMMA ReleaseSurvivors ==
    ASSUME StateInv, PoolInv, NEW t \in Threads, Release(t), UNCHANGED m_ar
    PROVE  Survivors
<1> USE IndicesOK DEF StateInv, StateTypes, LocalsOK, PoolInv, Indices
<1>1. ref' = [ref EXCEPT ![t] = NoTransaction]
      BY ReleaseEffect
<1>2. CASE UNCHANGED <<life, m_refar>>
      BY <1>1, <1>2 DEF Survivors, ReferencesAlive, EntriesOwned
<1>3. CASE ~UNCHANGED <<life, m_refar>>
  <2> DEFINE i == ref[t]
  <2>1. /\ i \in Ids /\ life[i] = "alive" /\ Destroy(i)
        /\ \A s \in Slots : m_ar[s] # i
        /\ \A u \in Threads \ {t} : ref[u] # i
        BY <1>3, ReleaseEffect
  <2> HIDE DEF i
  <2>2. /\ life' = [life EXCEPT ![i] = "dead"]
        /\ m_refar' = [m_refar EXCEPT ![Home(i)] = Free]
        BY <2>1 DEF Destroy
  <2>3. /\ \A j \in Ids \ {i} : life[j] = "alive" =>
              m_refar'[Home(j)] = m_refar[Home(j)]
        /\ \A u \in Threads : pc[u] = "place" =>
              tid[u] # i /\ m_refar'[Home(tid[u])] = m_refar[Home(tid[u])]
        BY <2>1, DestroyEffect
  <2>4. \A s \in Slots : m_ar'[s] # NoTransaction =>
            m_ar'[s] = m_ar[s] /\ life'[m_ar[s]] = "alive"
        BY <2>1, <2>2 DEF ReferencesAlive
  <2>5. \A u \in Threads : ref'[u] # NoTransaction =>
            ref'[u] = ref[u] /\ life'[ref[u]] = "alive"
        BY <1>1, <2>1, <2>2 DEF ReferencesAlive
  <2> QED BY <2>1, <2>2, <2>3, <2>4, <2>5 DEF Survivors, EntriesOwned
<1> QED BY <1>2, <1>3

LEMMA ResetSurvivors ==
    ASSUME Regime, StateInv, PoolInv, NEW s \in Slots, ResetSlot(s), UNCHANGED ref
    PROVE  Survivors
<1> USE IndicesOK DEF StateInv, StateTypes, LocalsOK, PoolInv, Indices
<1>1. m_ar' = [m_ar EXCEPT ![s] = NoTransaction]
      BY ResetEffect
<1>2. CASE UNCHANGED <<life, m_refar>>
      BY <1>1, <1>2 DEF Survivors, ReferencesAlive, EntriesOwned
<1>3. CASE ~UNCHANGED <<life, m_refar>>
  <2> DEFINE i == m_ar[s]
  <2>1. /\ i \in Ids /\ life[i] = "alive" /\ Destroy(i)
        /\ \A u \in Slots \ {s} : m_ar[u] # i
        /\ \A u \in Threads : ref[u] # i
        BY <1>3, ResetEffect
  <2> HIDE DEF i
  <2>2. /\ life' = [life EXCEPT ![i] = "dead"]
        /\ m_refar' = [m_refar EXCEPT ![Home(i)] = Free]
        BY <2>1 DEF Destroy
  <2>3. /\ \A j \in Ids \ {i} : life[j] = "alive" =>
              m_refar'[Home(j)] = m_refar[Home(j)]
        /\ \A u \in Threads : pc[u] = "place" =>
              tid[u] # i /\ m_refar'[Home(tid[u])] = m_refar[Home(tid[u])]
        BY <2>1, DestroyEffect
  <2>4. \A u \in Slots : m_ar'[u] # NoTransaction =>
            m_ar'[u] = m_ar[u] /\ life'[m_ar[u]] = "alive"
        BY <1>1, <2>1, <2>2 DEF ReferencesAlive
  <2>5. \A u \in Threads : ref'[u] # NoTransaction =>
            ref'[u] = ref[u] /\ life'[ref[u]] = "alive"
        BY <2>1, <2>2 DEF ReferencesAlive
  <2> QED BY <2>1, <2>2, <2>3, <2>4, <2>5 DEF Survivors, EntriesOwned
<1> QED BY <1>2, <1>3

-----------------------------------------------------------------------------
(* The operations of a creating thread.                                    *)

LEMMA NewKeeps ==
    ASSUME Regime, StateInv, PoolInv, NEW t \in Threads, New(t)
    PROVE  PoolInv'
BY IndicesOK, SizesAssumption
   DEF New, Goto, tickVars, Regime, StateInv, StateTypes, LocalsOK, Indices,
       PoolInv, ReferencesAlive, SlotsDistinct, EntriesOwned,
       NoSlotReadIsDead, CopiedInSlot, SectionsLocked, ClaimsExclusive, Claims,
       EntriesNameSlots, EntriesUsed, NoEntryLeaked

LEMMA PlaceNextKeeps ==
    ASSUME Regime, StateInv, PoolInv, NEW t \in Threads, PlaceNext(t)
    PROVE  PoolInv'
BY IndicesOK
   DEF PlaceNext, tickVars, Regime, StateInv, StateTypes, LocalsOK, Indices,
       PoolInv, ReferencesAlive, SlotsDistinct, EntriesOwned,
       NoSlotReadIsDead, CopiedInSlot, SectionsLocked, ClaimsExclusive, Claims,
       EntriesNameSlots, EntriesUsed, NoEntryLeaked

LEMMA PlaceKeeps ==
    ASSUME Regime, StateInv, PoolInv, NEW t \in Threads, Place(t)
    PROVE  PoolInv'
<1> USE IndicesOK DEF StateInv, StateTypes, LocalsOK, PoolInv, Regime, Indices
<1>a. /\ life[tid[t]] = "unborn" /\ m_refar[Home(tid[t])] = Reserved
      /\ tid[t] \in Ids /\ eidx[t] \in Slots /\ m_ar[eidx[t]] = NoTransaction
      BY DEF Place, EntriesOwned
<1>b. /\ \A s \in Slots : m_ar[s] # tid[t]
      /\ \A u \in Threads : ref[u] # tid[t]
      BY <1>a DEF ReferencesAlive
<1>c. \A j \in Ids : life[j] = "alive" => Home(j) # Home(tid[t])
      BY <1>a DEF EntriesOwned
<1>1. ReferencesAlive'
      BY <1>a, <1>b, <1>c DEF ReferencesAlive, Place, Goto, tickVars
<1>2. SlotsDistinct'
      BY <1>a, <1>b, <1>c DEF SlotsDistinct, Place, Goto, tickVars
<1>3. EntriesOwned'
      BY <1>a, <1>b, <1>c DEF EntriesOwned, Place, Goto, tickVars
<1>4. NoSlotReadIsDead'
      BY <1>a, <1>b, <1>c DEF NoSlotReadIsDead, Place, Goto, tickVars
<1>5. CopiedInSlot'
      BY <1>a, <1>b, <1>c DEF CopiedInSlot, Place, Goto, tickVars
<1>6. SectionsLocked'
      BY <1>a, <1>b, <1>c DEF SectionsLocked, Place, Goto, tickVars
<1>7. ClaimsExclusive'
      BY <1>a, <1>b, <1>c DEF ClaimsExclusive, Claims, Place, Goto, tickVars
<1>8. EntriesNameSlots'
      BY <1>a, <1>b, <1>c DEF EntriesNameSlots, Place, Goto, tickVars
<1>9. EntriesUsed'
      BY <1>a, <1>b, <1>c DEF EntriesUsed, NoEntryLeaked, Place, Goto, tickVars
<1> QED BY <1>1, <1>2, <1>3, <1>4, <1>5, <1>6, <1>7, <1>8, <1>9

LEMMA PlaceFailKeeps ==
    ASSUME Regime, StateInv, PoolInv, NEW t \in Threads, PlaceFail(t)
    PROVE  PoolInv'
<1> USE IndicesOK DEF StateInv, StateTypes, LocalsOK, PoolInv, Regime, Indices
<1>a. /\ life[tid[t]] = "unborn" /\ m_refar[Home(tid[t])] = Reserved
      /\ tid[t] \in Ids
      BY DEF PlaceFail, EntriesOwned
<1>b. \A s \in Slots : m_ar[s] # tid[t]
      BY <1>a DEF ReferencesAlive
<1>c. \A j \in Ids : life[j] = "alive" => Home(j) # Home(tid[t])
      BY <1>a DEF EntriesOwned
<1>1. ReferencesAlive'
      BY <1>a, <1>b, <1>c DEF ReferencesAlive, PlaceFail, Leave, Goto, tickVars
<1>2. SlotsDistinct'
      BY <1>a, <1>b, <1>c DEF SlotsDistinct, PlaceFail, Leave, Goto, tickVars
<1>3. EntriesOwned'
      BY <1>a, <1>b, <1>c DEF EntriesOwned, PlaceFail, Leave, Goto, tickVars
<1>4. NoSlotReadIsDead'
      BY <1>a, <1>b, <1>c DEF NoSlotReadIsDead, PlaceFail, Leave, Goto, tickVars
<1>5. CopiedInSlot'
      BY <1>a, <1>b, <1>c DEF CopiedInSlot, PlaceFail, Leave, Goto, tickVars
<1>6. SectionsLocked'
      BY <1>a, <1>b, <1>c DEF SectionsLocked, PlaceFail, Leave, Goto, tickVars
<1>7. ClaimsExclusive'
      BY <1>a, <1>b, <1>c DEF ClaimsExclusive, Claims, PlaceFail, Leave, Goto, tickVars
<1>8. EntriesNameSlots'
      BY <1>a, <1>b, <1>c DEF EntriesNameSlots, PlaceFail, Leave, Goto, tickVars
<1>9. EntriesUsed'
      BY <1>a, <1>b, <1>c DEF EntriesUsed, NoEntryLeaked, PlaceFail, Leave, Goto, tickVars
<1> QED BY <1>1, <1>2, <1>3, <1>4, <1>5, <1>6, <1>7, <1>8, <1>9

LEMMA ReserveKeeps ==
    ASSUME Regime, StateInv, PoolInv, NEW t \in Threads, Reserve(t)
    PROVE  PoolInv'
<1> USE IndicesOK DEF StateInv, StateTypes, LocalsOK, PoolInv, Regime, Indices
<1>a. PICK i \in Ids : Fresh(i) /\ (ReserveEntry(t, i) \/ EntryInUse(t, i))
      BY DEF Reserve
<1>b. pc[t] = "reserve" /\ UNCHANGED <<m_ar, mutex, tickVars, life, ref>>
      BY DEF Reserve
<1>c. CASE ReserveEntry(t, i)
  <2>1. /\ m_refar[Home(i)] = Free /\ m_refar' = [m_refar EXCEPT ![Home(i)] = Reserved]
        /\ StartPlacing(t, i) /\ life[i] = "unborn"
        BY <1>a, <1>b, <1>c DEF ReserveEntry, EntriesUsed, Fresh
  <2>2. /\ \A j \in Ids : life[j] = "alive" => Home(j) # Home(i)
        /\ \A u \in Threads : pc[u] = "place" => Home(tid[u]) # Home(i)
        BY <2>1 DEF EntriesOwned
  <2> USE <1>b, <2>1, <2>2
  <2>3. ReferencesAlive'
        BY DEF ReferencesAlive, StartPlacing, Goto
  <2>4. SlotsDistinct'
        BY DEF SlotsDistinct, StartPlacing, Goto
  <2>5. EntriesOwned'
        BY DEF EntriesOwned, StartPlacing, Goto
  <2>6. NoSlotReadIsDead'
        BY DEF NoSlotReadIsDead, StartPlacing, Goto
  <2>7. CopiedInSlot'
        BY DEF CopiedInSlot, StartPlacing, Goto
  <2>8. SectionsLocked'
        BY DEF SectionsLocked, StartPlacing, Goto
  <2>9. ClaimsExclusive'
        BY DEF ClaimsExclusive, Claims, StartPlacing, Goto
  <2>10. EntriesNameSlots'
        BY DEF EntriesNameSlots, StartPlacing, Goto
  <2>11. EntriesUsed'
        BY DEF EntriesUsed, NoEntryLeaked, StartPlacing, Goto
  <2> QED BY <2>3, <2>4, <2>5, <2>6, <2>7, <2>8, <2>9, <2>10, <2>11
<1>d. CASE EntryInUse(t, i)
  <2>1. /\ cnt[t] > 1 /\ cnt' = [cnt EXCEPT ![t] = @ - 1]
        /\ UNCHANGED <<m_refar, pc, tid, eidx>>
        BY <1>d, SizesAssumption DEF EntryInUse
  <2> USE <1>b, <2>1
  <2>2. ReferencesAlive'
        BY SizesAssumption DEF ReferencesAlive
  <2>3. SlotsDistinct'
        BY SizesAssumption DEF SlotsDistinct
  <2>4. EntriesOwned'
        BY SizesAssumption DEF EntriesOwned
  <2>5. NoSlotReadIsDead'
        BY SizesAssumption DEF NoSlotReadIsDead
  <2>6. CopiedInSlot'
        BY SizesAssumption DEF CopiedInSlot
  <2>7. SectionsLocked'
        BY SizesAssumption DEF SectionsLocked
  <2>8. ClaimsExclusive'
        BY SizesAssumption DEF ClaimsExclusive, Claims
  <2>9. EntriesNameSlots'
        BY SizesAssumption DEF EntriesNameSlots
  <2>10. EntriesUsed'
        BY SizesAssumption DEF EntriesUsed, NoEntryLeaked
  <2> QED BY <2>2, <2>3, <2>4, <2>5, <2>6, <2>7, <2>8, <2>9, <2>10
<1> QED BY <1>a, <1>c, <1>d

-----------------------------------------------------------------------------
(* The operations of a fetching thread.                                     *)

LEMMA FetchKeeps ==
    ASSUME Regime, StateInv, PoolInv, NEW t \in Threads, NEW i \in Ids, Fetch(t, i)
    PROVE  PoolInv'
<1> USE IndicesOK DEF StateInv, StateTypes, LocalsOK, PoolInv, Regime, Indices
<1>1. ReferencesAlive'
      BY DEF Fetch, Issued, ReferencesAlive, Goto, tickVars
<1>2. SlotsDistinct'
      BY DEF Fetch, Issued, SlotsDistinct, Goto, tickVars
<1>3. EntriesOwned'
      BY DEF Fetch, Issued, EntriesOwned, Goto, tickVars
<1>4. NoSlotReadIsDead'
      BY DEF Fetch, Issued, NoSlotReadIsDead, EntriesOwned, Goto, tickVars
<1>5. CopiedInSlot'
      BY DEF Fetch, Issued, CopiedInSlot, Goto, tickVars
<1>6. SectionsLocked'
      BY DEF Fetch, Issued, SectionsLocked, Goto, tickVars
<1>7. ClaimsExclusive'
      BY DEF Fetch, Issued, ClaimsExclusive, Claims, Goto, tickVars
<1>8. EntriesNameSlots'
      BY DEF Fetch, Issued, EntriesNameSlots, Goto, tickVars
<1>9. EntriesUsed'
      BY DEF Fetch, Issued, EntriesUsed, NoEntryLeaked, Goto, tickVars
<1> QED BY <1>1, <1>2, <1>3, <1>4, <1>5, <1>6, <1>7, <1>8, <1>9

LEMMA FetchLockKeeps ==
    ASSUME Regime, StateInv, PoolInv, NEW t \in Threads, FetchLock(t)
    PROVE  PoolInv'
<1> USE IndicesOK DEF StateInv, StateTypes, LocalsOK, PoolInv, Regime, Indices
<1> DEFINE s == Slot(eidx[t])
<1>a. /\ pc[t] = "fetch" /\ ref' = [ref EXCEPT ![t] = m_ar[s]]
      /\ pc' = [pc EXCEPT ![t] = "copy"]
      /\ mutex[Stripe(eidx[t])] = NoThread
      /\ UNCHANGED <<m_ar, m_refar, life, tid, cnt, eidx>>
      BY DEF FetchLock, Lock, MutexFree, Goto
<1>b. ASSUME NEW u \in Threads, NEW i \in Ids, Claims(u, i), m_ar[s] = i, tid[t] = i
      PROVE  FALSE
  <2>1. life[i] = "alive"
        BY <1>b DEF ReferencesAlive
  <2>2. eidx[t] \in Slots
        BY <1>a, <1>b, <2>1 DEF NoSlotReadIsDead
  <2>3. pc[u] \in {"copy", "check", "setref"} /\ Slot(eidx[u]) = s
        BY <1>b DEF ClaimsExclusive, Claims
  <2>4. eidx[u] \in Slots
        BY <1>b, <2>1, <2>3 DEF NoSlotReadIsDead, Claims
  <2>5. mutex[Stripe(eidx[t])] = u
        BY <2>2, <2>3, <2>4 DEF SectionsLocked
  <2> QED BY <1>a, <2>5
<1>1. ReferencesAlive'
      BY DEF ReferencesAlive, FetchLock, Lock, MutexFree, Goto, tickVars
<1>2. SlotsDistinct'
      BY DEF SlotsDistinct, FetchLock, Lock, MutexFree, Goto, tickVars
<1>3. EntriesOwned'
      BY DEF EntriesOwned, FetchLock, Lock, MutexFree, Goto, tickVars
<1>4. NoSlotReadIsDead'
      BY DEF NoSlotReadIsDead, FetchLock, Lock, MutexFree, Goto, tickVars
<1>5. CopiedInSlot'
      BY DEF CopiedInSlot, FetchLock, Lock, MutexFree, Goto, tickVars
<1>6. SectionsLocked'
      BY DEF SectionsLocked, FetchLock, Lock, MutexFree, Goto, tickVars
<1>7. ClaimsExclusive'
  <2> SUFFICES ASSUME NEW v \in Threads, NEW i \in Ids, Claims(v, i)'
               PROVE  /\ \A u \in Threads : Claims(u, i)' => u = v
                      /\ \A r \in Slots : m_ar[r] = i =>
                            pc'[v] \notin {"own", "return"} /\ r = Slot(eidx[v])
      BY <1>a DEF ClaimsExclusive
  <2>1. \A u \in Threads \ {t} : Claims(u, i)' <=> Claims(u, i)
        BY <1>a DEF Claims
  <2>2. Claims(t, i)' <=> m_ar[s] = i /\ tid[t] = i
        BY <1>a DEF Claims
  <2>3. CASE v = t
    <3>1. \A r \in Slots : m_ar[r] = i => r = s
          BY <2>2, <2>3 DEF SlotsDistinct
    <3> QED BY <1>a, <1>b, <2>1, <2>2, <2>3, <3>1
  <2>4. CASE v # t
        BY <1>a, <1>b, <2>1, <2>2, <2>4 DEF ClaimsExclusive
  <2> QED BY <2>3, <2>4
<1>8. EntriesNameSlots'
      BY DEF EntriesNameSlots, FetchLock, Lock, MutexFree, Goto, tickVars
<1>9. EntriesUsed'
      BY DEF EntriesUsed, NoEntryLeaked, FetchLock, Lock, MutexFree, Goto, tickVars
<1> QED BY <1>1, <1>2, <1>3, <1>4, <1>5, <1>6, <1>7, <1>8, <1>9

LEMMA FetchCountKeeps ==
    ASSUME Regime, StateInv, PoolInv, NEW t \in Threads, FetchCount(t)
    PROVE  PoolInv'
BY IndicesOK
   DEF FetchCount, Goto, tickVars, Regime, StateInv, StateTypes, LocalsOK, Indices,
       PoolInv, ReferencesAlive, SlotsDistinct, EntriesOwned,
       NoSlotReadIsDead, CopiedInSlot, SectionsLocked, ClaimsExclusive, Claims,
       EntriesNameSlots, EntriesUsed, NoEntryLeaked

LEMMA FetchTakeKeeps ==
    ASSUME Regime, StateInv, PoolInv, NEW t \in Threads, FetchTake(t)
    PROVE  PoolInv'
<1> USE IndicesOK DEF StateInv, StateTypes, LocalsOK, PoolInv, Regime, Indices
<1>a. /\ ref[t] = tid[t] /\ tid[t] \in Ids /\ pc[t] = "check" /\ Claims(t, tid[t])
      /\ UNCHANGED <<tickVars, tid, ref, cnt, eidx>>
      /\ pc' = [pc EXCEPT ![t] = "own"]
      /\ mutex' = [mutex EXCEPT ![Stripe(eidx[t])] = NoThread]
      BY DEF FetchTake, Claims, Goto, Unlock
<1> DEFINE s == Slot(eidx[t])
<1>b. s \in Slots /\ ResetSlot(s)
      BY DEF FetchTake
<1>c. m_ar' = [m_ar EXCEPT ![s] = NoTransaction] /\ Survivors
      BY <1>a, <1>b, ResetEffect, ResetSurvivors
<1>d. \A u \in Threads : ~(pc[u] = "copy" /\ Slot(eidx[u]) = s)
      BY <1>b DEF ResetSlot
<1> HIDE DEF s
<1>1. ReferencesAlive'
      BY <1>a, <1>b, <1>c DEF Survivors, ReferencesAlive
<1>2. SlotsDistinct'
      BY <1>a, <1>b, <1>c DEF Survivors, SlotsDistinct
<1>3. EntriesOwned'
      BY <1>a, <1>b, <1>c DEF Survivors, EntriesOwned
<1>4. NoSlotReadIsDead'
      BY <1>a, <1>b, <1>c DEF Survivors, NoSlotReadIsDead
<1>5. CopiedInSlot'
      BY <1>a, <1>b, <1>c, <1>d DEF Survivors, CopiedInSlot
<1>6. SectionsLocked'
      BY <1>a, <1>b, <1>c DEF Survivors, SectionsLocked
<1>7. ClaimsExclusive'
  <2>1. \A u \in Threads, i \in Ids : Claims(u, i)' => Claims(u, i)
        BY <1>a DEF Claims
  <2>2. \A r \in Slots : m_ar'[r] # tid[t]
        BY <1>a, <1>b, <1>c DEF ClaimsExclusive, s
  <2>3. \A r \in Slots, i \in Ids : m_ar'[r] = i => m_ar[r] = i
        BY <1>b, <1>c DEF Survivors
  <2> QED BY <1>a, <2>1, <2>2, <2>3 DEF ClaimsExclusive, Claims
<1>8. EntriesNameSlots'
      BY <1>a, <1>b, <1>c DEF Survivors, EntriesNameSlots
<1>9. EntriesUsed'
      BY <1>a, <1>b, <1>c DEF Survivors, EntriesUsed, NoEntryLeaked
<1> QED BY <1>1, <1>2, <1>3, <1>4, <1>5, <1>6, <1>7, <1>8, <1>9

-----------------------------------------------------------------------------
(* The operations of an owner, and leaving a call.                          *)

LEMMA ReturnKeeps ==
    ASSUME Regime, StateInv, PoolInv, NEW t \in Threads, Return(t)
    PROVE  PoolInv'
<1> USE IndicesOK DEF StateInv, StateTypes, LocalsOK, PoolInv, Regime, Indices
<1>1. ReferencesAlive'
      BY DEF ReferencesAlive, Return, Goto, tickVars
<1>2. SlotsDistinct'
      BY DEF SlotsDistinct, Return, Goto, tickVars
<1>3. EntriesOwned'
      BY DEF EntriesOwned, Return, Goto, tickVars
<1>4. NoSlotReadIsDead'
      BY DEF NoSlotReadIsDead, Return, Goto, tickVars
<1>5. CopiedInSlot'
      BY DEF CopiedInSlot, Return, Goto, tickVars
<1>6. SectionsLocked'
      BY DEF SectionsLocked, Return, Goto, tickVars
<1>7. ClaimsExclusive'
      BY DEF ClaimsExclusive, Claims, Return, Goto, tickVars
<1>8. EntriesNameSlots'
      BY DEF EntriesNameSlots, Return, Goto, tickVars
<1>9. EntriesUsed'
      BY DEF EntriesUsed, NoEntryLeaked, Return, Goto, tickVars
<1> QED BY <1>1, <1>2, <1>3, <1>4, <1>5, <1>6, <1>7, <1>8, <1>9

LEMMA ReturnNextKeeps ==
    ASSUME Regime, StateInv, PoolInv, NEW t \in Threads, ReturnNext(t)
    PROVE  PoolInv'
BY IndicesOK
   DEF ReturnNext, tickVars, Regime, StateInv, StateTypes, LocalsOK, Indices,
       PoolInv, ReferencesAlive, SlotsDistinct, EntriesOwned,
       NoSlotReadIsDead, CopiedInSlot, SectionsLocked, ClaimsExclusive, Claims,
       EntriesNameSlots, EntriesUsed, NoEntryLeaked

LEMMA ReturnFailKeeps ==
    ASSUME Regime, StateInv, PoolInv, NEW t \in Threads, ReturnFail(t)
    PROVE  PoolInv'
BY IndicesOK
   DEF ReturnFail, Goto, tickVars, Regime, StateInv, StateTypes, LocalsOK, Indices,
       PoolInv, ReferencesAlive, SlotsDistinct, EntriesOwned,
       NoSlotReadIsDead, CopiedInSlot, SectionsLocked, ClaimsExclusive, Claims,
       EntriesNameSlots, EntriesUsed, NoEntryLeaked

LEMMA ReturnPlaceKeeps ==
    ASSUME Regime, StateInv, PoolInv, NEW t \in Threads, ReturnPlace(t)
    PROVE  PoolInv'
<1> USE IndicesOK DEF StateInv, StateTypes, LocalsOK, PoolInv, Regime, Indices
<1>a. /\ ref[t] \in Ids /\ pc[t] = "return" /\ Claims(t, ref[t])
      /\ m_ar[eidx[t]] = NoTransaction
      BY DEF ReturnPlace, Claims
<1>b. \A s \in Slots : m_ar[s] # ref[t]
      BY <1>a DEF ClaimsExclusive
<1>1. ReferencesAlive'
      BY <1>a, <1>b DEF ReferencesAlive, ReturnPlace, Lock, MutexFree, Goto, tickVars
<1>2. SlotsDistinct'
      BY <1>a, <1>b DEF SlotsDistinct, ReturnPlace, Lock, MutexFree, Goto, tickVars
<1>3. EntriesOwned'
      BY <1>a, <1>b DEF EntriesOwned, ReturnPlace, Lock, MutexFree, Goto, tickVars
<1>4. NoSlotReadIsDead'
      BY <1>a, <1>b DEF NoSlotReadIsDead, ReturnPlace, Lock, MutexFree, Goto, tickVars
<1>5. CopiedInSlot'
      BY <1>a, <1>b DEF CopiedInSlot, ReturnPlace, Lock, MutexFree, Goto, tickVars
<1>6. SectionsLocked'
      BY <1>a, <1>b DEF SectionsLocked, ReturnPlace, Lock, MutexFree, Goto, tickVars
<1>7. ClaimsExclusive'
      BY <1>a, <1>b DEF ClaimsExclusive, Claims, ReturnPlace, Lock, MutexFree, Goto, tickVars
<1>8. EntriesNameSlots'
      BY <1>a, <1>b DEF EntriesNameSlots, ReturnPlace, Lock, MutexFree, Goto, tickVars
<1>9. EntriesUsed'
      BY <1>a, <1>b DEF EntriesUsed, NoEntryLeaked, ReturnPlace, Lock, MutexFree, Goto, tickVars
<1> QED BY <1>1, <1>2, <1>3, <1>4, <1>5, <1>6, <1>7, <1>8, <1>9

LEMMA SetRefKeeps ==
    ASSUME Regime, StateInv, PoolInv, NEW t \in Threads, SetRef(t)
    PROVE  PoolInv'
<1> USE IndicesOK DEF StateInv, StateTypes, LocalsOK, PoolInv, Regime, Indices
<1>a. /\ ref[t] \in Ids /\ eidx[t] \in Slots /\ pc[t] = "setref"
      /\ m_refar' = [m_refar EXCEPT ![Home(ref[t])] = eidx[t]]
      /\ life[ref[t]] = "alive" /\ Claims(t, ref[t])
      BY DEF SetRef, ReferencesAlive, Claims
<1>b. \A j \in Ids \ {ref[t]} : life[j] = "alive" => Home(j) # Home(ref[t])
      BY <1>a DEF EntriesOwned
<1>c. \A u \in Threads : pc[u] = "place" => Home(tid[u]) # Home(ref[t])
      BY <1>a DEF EntriesOwned
<1>1. ReferencesAlive'
      BY <1>a, <1>b, <1>c DEF ReferencesAlive, SetRef, Unlock, Goto, tickVars
<1>2. SlotsDistinct'
      BY <1>a, <1>b, <1>c DEF SlotsDistinct, SetRef, Unlock, Goto, tickVars
<1>3. EntriesOwned'
      BY <1>a, <1>b, <1>c DEF EntriesOwned, SetRef, Unlock, Goto, tickVars
<1>4. NoSlotReadIsDead'
      BY <1>a, <1>b, <1>c DEF NoSlotReadIsDead, SetRef, Unlock, Goto, tickVars
<1>5. CopiedInSlot'
      BY <1>a, <1>b, <1>c DEF CopiedInSlot, SetRef, Unlock, Goto, tickVars
<1>6. SectionsLocked'
      BY <1>a, <1>b, <1>c DEF SectionsLocked, SetRef, Unlock, Goto, tickVars
<1>7. ClaimsExclusive'
      BY <1>a, <1>b, <1>c DEF ClaimsExclusive, Claims, SetRef, Unlock, Goto, tickVars
<1>8. EntriesNameSlots'
  <2>1. \A s \in Slots : m_ar[s] = ref[t] => s = eidx[t]
        BY <1>a DEF ClaimsExclusive
  <2>2. \A s \in Slots : m_ar[s] # NoTransaction => life[m_ar[s]] = "alive"
        BY DEF ReferencesAlive
  <2> QED BY <1>a, <1>b, <2>1, <2>2 DEF SetRef, EntriesNameSlots, Goto, tickVars
<1>9. EntriesUsed'
      BY <1>a, <1>b, <1>c DEF EntriesUsed, NoEntryLeaked, SetRef, Unlock, Goto, tickVars
<1> QED BY <1>1, <1>2, <1>3, <1>4, <1>5, <1>6, <1>7, <1>8, <1>9

(* A call that ends by dropping its reference, under a mutex or not. *)
LEMMA LeaveKeeps ==
    ASSUME Regime, StateInv, PoolInv, NEW t \in Threads, Release(t), Leave(t), UNCHANGED m_ar,
           \/ pc[t] \in {"created", "own", "drop"} /\ UNCHANGED mutex
           \/ pc[t] = "check" /\ Unlock(Stripe(eidx[t]))
    PROVE  PoolInv'
<1> USE IndicesOK DEF StateInv, StateTypes, LocalsOK, PoolInv, Regime, Indices
<1>a. /\ ref' = [ref EXCEPT ![t] = NoTransaction] /\ Survivors
      BY ReleaseEffect, ReleaseSurvivors
<1>b. /\ pc' = [pc EXCEPT ![t] = "idle"] /\ tid' = [tid EXCEPT ![t] = NoTransaction]
      /\ cnt' = [cnt EXCEPT ![t] = 0] /\ eidx' = [eidx EXCEPT ![t] = 0]
      /\ UNCHANGED m_ar
      BY DEF Leave, Goto
<1>1. ReferencesAlive'
      BY <1>a, <1>b DEF Survivors, ReferencesAlive
<1>2. SlotsDistinct'
      BY <1>a, <1>b DEF Survivors, SlotsDistinct
<1>3. EntriesOwned'
      BY <1>a, <1>b DEF Survivors, EntriesOwned
<1>4. NoSlotReadIsDead'
      BY <1>a, <1>b DEF Survivors, NoSlotReadIsDead
<1>5. CopiedInSlot'
      BY <1>a, <1>b DEF Survivors, CopiedInSlot
<1>6. SectionsLocked'
      BY <1>a, <1>b DEF Unlock, SectionsLocked
<1>7. ClaimsExclusive'
      BY <1>a, <1>b DEF Survivors, ClaimsExclusive, Claims
<1>8. EntriesNameSlots'
      BY <1>a, <1>b DEF Survivors, EntriesNameSlots
<1>9. EntriesUsed'
      BY <1>a, <1>b DEF Survivors, EntriesUsed, NoEntryLeaked
<1> QED BY <1>1, <1>2, <1>3, <1>4, <1>5, <1>6, <1>7, <1>8, <1>9

-----------------------------------------------------------------------------
(* The sweep.                                                               *)

LEMMA SweepKeeps ==
    ASSUME Regime, StateInv, PoolInv, Tick \/ Collect
    PROVE  PoolInv'
<1> USE IndicesOK DEF StateInv, StateTypes, LocalsOK, PoolInv, Regime, Indices
<1>1. CASE Tick
      BY <1>1 DEF Tick, ReferencesAlive, SlotsDistinct, EntriesOwned,
         NoSlotReadIsDead, CopiedInSlot, SectionsLocked, ClaimsExclusive, Claims,
         EntriesNameSlots, EntriesUsed, NoEntryLeaked
<1>2. CASE Collect
  <2> DEFINE s == sweep.at % ArSize
  <2>1. s \in Slots
    <3>1. \A a \in Int : a % ArSize \in 0 .. ArSize - 1
          BY ModRange, RingAssumption
    <3> QED BY <3>1 DEF Slots
  <2>2. ResetSlot(s) /\ UNCHANGED <<mutex, pc, tid, ref, cnt, eidx>>
        BY <1>2 DEF Collect
  <2> HIDE DEF s
  <2>3. m_ar' = [m_ar EXCEPT ![s] = NoTransaction] /\ Survivors
        BY <2>1, <2>2, ResetEffect, ResetSurvivors
  <2>4. \A t \in Threads : ~(pc[t] = "copy" /\ Slot(eidx[t]) = s)
        BY <2>2 DEF ResetSlot
  <2>5. ReferencesAlive'
        BY <2>1, <2>2, <2>3 DEF Survivors, ReferencesAlive
  <2>6. SlotsDistinct'
        BY <2>1, <2>2, <2>3 DEF Survivors, SlotsDistinct
  <2>7. EntriesOwned'
        BY <2>1, <2>2, <2>3 DEF Survivors, EntriesOwned
  <2>8. NoSlotReadIsDead'
        BY <2>1, <2>2, <2>3 DEF Survivors, NoSlotReadIsDead
  <2>9. CopiedInSlot'
        BY <2>1, <2>2, <2>3, <2>4 DEF Survivors, CopiedInSlot
  <2>10. SectionsLocked'
        BY <2>1, <2>2, <2>3 DEF Survivors, SectionsLocked
  <2>11. ClaimsExclusive'
        BY <2>1, <2>2, <2>3 DEF Survivors, ClaimsExclusive, Claims
  <2>12. EntriesNameSlots'
        BY <2>1, <2>2, <2>3 DEF Survivors, EntriesNameSlots
  <2>13. EntriesUsed'
        BY <2>1, <2>2, <2>3 DEF Survivors, EntriesUsed, NoEntryLeaked
  <2> QED BY <2>5, <2>6, <2>7, <2>8, <2>9, <2>10, <2>11, <2>12, <2>13
<1> QED BY <1>1, <1>2

-----------------------------------------------------------------------------
LEMMA PoolInvInductive ==
    ASSUME Regime, StateInv, PoolInv, [Next]_vars
    PROVE  PoolInv'
<1>1. CASE UNCHANGED vars
      BY <1>1 DEF vars, PoolInv, ReferencesAlive, SlotsDistinct, EntriesOwned,
         NoSlotReadIsDead, CopiedInSlot, SectionsLocked, ClaimsExclusive, Claims,
         EntriesNameSlots, EntriesUsed, NoEntryLeaked
<1>2. ASSUME NEW t \in Threads, ThreadStep(t) PROVE PoolInv'
  <2>1. CASE New(t) \/ Reserve(t) \/ Place(t) \/ PlaceNext(t) \/ PlaceFail(t)
        BY <2>1, NewKeeps, ReserveKeeps, PlaceKeeps, PlaceNextKeeps, PlaceFailKeeps
  <2>2. CASE \/ \E i \in Ids : Fetch(t, i)
             \/ FetchLock(t) \/ FetchCount(t) \/ FetchTake(t)
        BY <2>2, FetchKeeps, FetchLockKeeps, FetchCountKeeps, FetchTakeKeeps
  <2>3. CASE Return(t) \/ ReturnPlace(t) \/ ReturnNext(t) \/ ReturnFail(t) \/ SetRef(t)
        BY <2>3, ReturnKeeps, ReturnPlaceKeeps, ReturnNextKeeps, ReturnFailKeeps,
           SetRefKeeps
  <2>4. CASE Created(t) \/ Drop(t) \/ FetchMiss(t)
        BY <2>4, LeaveKeeps DEF Created, Drop, FetchMiss
  <2> QED BY <1>2, <2>1, <2>2, <2>3, <2>4 DEF ThreadStep
<1> QED BY <1>1, <1>2, SweepKeeps DEF Next, Step

LEMMA InitPoolInv == Init => PoolInv
BY SizesAssumption, IndicesOK
   DEF Init, Indices, PoolInv, ReferencesAlive, SlotsDistinct, EntriesOwned,
       NoSlotReadIsDead, CopiedInSlot, SectionsLocked, ClaimsExclusive, Claims,
       EntriesNameSlots, EntriesUsed, NoEntryLeaked

LEMMA PoolInvariant ==
    ASSUME Regime PROVE Spec => [](StateInv /\ PoolInv)
<1>1. Spec => []StateInv
      BY StateCorrect
<1>2. Init => PoolInv
      BY InitPoolInv
<1>3. StateInv /\ PoolInv /\ [Next]_vars => PoolInv'
      BY PoolInvInductive
<1> QED BY <1>1, <1>2, <1>3, PTL DEF Spec

(* A fetched transaction belongs to one thread and lies in no slot         *)
(* (fetchTransaction, returnTransaction), for any number of threads.       *)
THEOREM ExclusiveOwnership == Regime => (Spec => []ExclusiveOwner)
<1> SUFFICES ASSUME Regime PROVE Spec => []ExclusiveOwner
    OBVIOUS
<1>1. StateInv /\ PoolInv => ExclusiveOwner
      BY DEF StateInv, LocalsOK, PoolInv, ClaimsExclusive, Claims, ExclusiveOwner
<1> QED BY <1>1, PoolInvariant, PTL

(* An entry of m_refar serves one living transaction and names its slot.   *)
THEOREM EntriesMapIds == Regime => (Spec => []EntryMapsId)
<1> SUFFICES ASSUME Regime PROVE Spec => []EntryMapsId
    OBVIOUS
<1>1. StateInv /\ PoolInv => EntryMapsId
      BY DEF PoolInv, EntriesOwned, EntriesNameSlots, EntryMapsId
<1> QED BY <1>1, PoolInvariant, PTL

(* No entry of m_refar stays reserved without a user.                      *)
THEOREM EntriesNeverLeak == Regime => (Spec => []NoEntryLeaked)
<1> SUFFICES ASSUME Regime PROVE Spec => []NoEntryLeaked
    OBVIOUS
<1>1. StateInv /\ PoolInv => NoEntryLeaked
      BY DEF PoolInv, EntriesUsed
<1> QED BY <1>1, PoolInvariant, PTL

(* Nobody uses a destroyed transaction.                                    *)
THEOREM OwnedStaysAlive == Regime => (Spec => []OwnedIsAlive)
<1> SUFFICES ASSUME Regime PROVE Spec => []OwnedIsAlive
    OBVIOUS
<1>1. StateInv /\ PoolInv => OwnedIsAlive
      BY DEF PoolInv, ReferencesAlive, OwnedIsAlive
<1> QED BY <1>1, PoolInvariant, PTL

-----------------------------------------------------------------------------
(* What a pending fetch knows: as long as its transaction was in the pool  *)
(* all the time, the slot it has read is the right one and what it copied  *)
(* from it the right transaction.                                          *)
HistoryInv ==
    /\ absent \in [Threads -> BOOLEAN]
    /\ \A t \in Threads :
          /\ absent[t] => Fetching(t)
          /\ Fetching(t) /\ ~absent[t] =>
                /\ InPool(tid[t])
                /\ m_refar[Home(tid[t])] = eidx[t]
                /\ pc[t] # "fetch" => ref[t] = tid[t]

(* A fetch that has copied the transaction it looks for stands before its  *)
(* slot, which only the sweep may have emptied.                            *)
CheckedSlots ==
    \A t \in Threads : pc[t] = "check" /\ ref[t] = tid[t] =>
        eidx[t] \in Slots /\ m_ar[eidx[t]] \in {NoTransaction, tid[t]}

(* Status in terms of what the pool's variables say. *)
StatusMeaning ==
    /\ \A i \in Ids :
        /\ Status(i) \in {"unborn", "taken", "pooled", "gone"}
        /\ Status(i) = "unborn" <=> life[i] = "unborn"
        /\ Status(i) = "taken" <=> \E t \in Threads : Taken(i, t)
        /\ Status(i) = "pooled" <=> InPool(i)
        /\ Visible(i) => life[i] = "alive"
    /\ \A i \in Ids, t \in Threads : Taken(i, t) =>
        /\ life[i] = "alive" /\ Claims(t, i) /\ Holder(t) = i
        /\ \A u \in Threads : Taken(i, u) => u = t
    /\ \A t \in Threads : (\A i \in Ids : ~Taken(i, t)) => Holder(t) = NoTransaction
    /\ \A t \in Threads :
        /\ Fetching(t) => Wanted(t) = tid[t] /\ tid[t] \in Ids
        /\ ~Fetching(t) => Wanted(t) = NoTransaction

LEMMA StatusMeant == StateInv /\ PoolInv => StatusMeaning
<1> SUFFICES ASSUME StateInv, PoolInv PROVE StatusMeaning
    OBVIOUS
<1> USE IndicesOK DEF StateInv, StateTypes, LocalsOK, PoolInv, Indices
<1>1. \A i \in Ids : Visible(i) => life[i] = "alive"
      BY DEF Visible, ReferencesAlive
<1>2. \A i \in Ids, t \in Threads : Taken(i, t) => life[i] = "alive" /\ Claims(t, i)
      BY DEF Taken, Claims, ReferencesAlive
<1>3. \A i \in Ids, t, u \in Threads : Taken(i, t) /\ Taken(i, u) => u = t
      BY <1>2 DEF ClaimsExclusive
<1>4. \A t \in Threads :
        /\ \A i \in Ids : Taken(i, t) => Holder(t) = i
        /\ (\A i \in Ids : ~Taken(i, t)) => Holder(t) = NoTransaction
      BY DEF Holder, Taken
<1>5. \A t \in Threads :
        /\ Fetching(t) => Wanted(t) = tid[t] /\ tid[t] \in Ids
        /\ ~Fetching(t) => Wanted(t) = NoTransaction
      BY DEF Wanted, Fetching
<1>6. ASSUME NEW i \in Ids
      PROVE  /\ Status(i) \in {"unborn", "taken", "pooled", "gone"}
             /\ Status(i) = "unborn" <=> life[i] = "unborn"
             /\ Status(i) = "taken" <=> \E t \in Threads : Taken(i, t)
             /\ Status(i) = "pooled" <=> InPool(i)
  <2>1. (\E t \in Threads : Taken(i, t)) => life[i] = "alive"
        BY <1>2
  <2>2. InPool(i) => life[i] = "alive" /\ ~\E t \in Threads : Taken(i, t)
        BY <1>1 DEF InPool
  <2> DEFINE taken == \E t \in Threads : Taken(i, t)
  <2>3. Status(i) = CASE life[i] = "unborn" -> "unborn"
                      [] taken -> "taken"
                      [] InPool(i) -> "pooled"
                      [] OTHER -> "gone"
        BY DEF Status
  <2>4. taken => life[i] # "unborn"
        BY <2>1
  <2>5. InPool(i) => life[i] # "unborn" /\ ~taken
        BY <2>2
  <2> HIDE DEF taken
  <2> QED BY <2>3, <2>4, <2>5 DEF taken
<1> QED BY <1>1, <1>2, <1>3, <1>4, <1>5, <1>6 DEF StatusMeaning

-----------------------------------------------------------------------------
(* What a step may leave alone. *)
SameFor(i) ==
    /\ life'[i] = "unborn" <=> life[i] = "unborn"
    /\ \A t \in Threads : Taken(i, t)' <=> Taken(i, t)
    /\ (Visible(i)' <=> Visible(i)) \/ \E t \in Threads : Taken(i, t)
SameHolder(t) == \A i \in Ids : Taken(i, t)' <=> Taken(i, t)
SameWanted(t) == (Fetching(t)' <=> Fetching(t)) /\ (Fetching(t) => tid'[t] = tid[t])

(* The step changes nothing the users of the pool see.                     *)
Quiet ==
    /\ \A i \in Ids : Status(i)' = Status(i)
    /\ \A t \in Threads : Holder(t)' = Holder(t) /\ Wanted(t)' = Wanted(t)

(* What StatusMeaning makes of the parts a step leaves alone. *)
LEMMA SameViews ==
    ASSUME StatusMeaning, StatusMeaning'
    PROVE  /\ \A i \in Ids : SameFor(i) => Status(i)' = Status(i)
           /\ \A t \in Threads : SameHolder(t) => Holder(t)' = Holder(t)
           /\ \A t \in Threads : SameWanted(t) => Wanted(t)' = Wanted(t)
<1>1. ASSUME NEW i \in Ids, SameFor(i) PROVE Status(i)' = Status(i)
  <2>1. InPool(i)' <=> InPool(i)
        BY <1>1 DEF InPool, SameFor
  <2> QED BY <1>1, <2>1 DEF SameFor, StatusMeaning
<1>2. ASSUME NEW t \in Threads, SameHolder(t) PROVE Holder(t)' = Holder(t)
      BY <1>2 DEF SameHolder, StatusMeaning
<1>3. ASSUME NEW t \in Threads, SameWanted(t) PROVE Wanted(t)' = Wanted(t)
      BY <1>3 DEF SameWanted, StatusMeaning
<1> QED BY <1>1, <1>2, <1>3

(* Steps inside a call that touch neither slots nor entries.               *)
LEMMA LocalStepsQuiet ==
    ASSUME StateInv, PoolInv, StatusMeaning, StatusMeaning', NEW t \in Threads,
           New(t) \/ PlaceNext(t) \/ FetchLock(t) \/ Return(t) \/ ReturnNext(t)
    PROVE  Quiet
<1>1. \A i \in Ids : SameFor(i)
      BY DEF StateInv, StateTypes, LocalsOK, New, PlaceNext, FetchLock, Return,
             ReturnNext, Goto, tickVars, SameFor, Visible, Taken
<1>2. \A u \in Threads : SameWanted(u)
      BY DEF StateInv, StateTypes, LocalsOK, New, PlaceNext, FetchLock, Return,
             ReturnNext, Goto, tickVars, SameWanted, Fetching
<1> QED BY <1>1, <1>2, SameViews DEF Quiet, SameFor, SameHolder

LEMMA TickQuiet ==
    ASSUME StatusMeaning, StatusMeaning', Tick
    PROVE  Quiet
<1>1. \A i \in Ids : SameFor(i)
      BY DEF Tick, SameFor, Visible, Taken
<1>2. \A u \in Threads : SameWanted(u)
      BY DEF Tick, SameWanted, Fetching
<1> QED BY <1>1, <1>2, SameViews DEF Quiet, SameFor, SameHolder

(* Reserving an entry or rolling it back concerns no living transaction.   *)
LEMMA EntryStepsQuiet ==
    ASSUME StateInv, PoolInv, StatusMeaning, StatusMeaning', NEW t \in Threads,
           Reserve(t) \/ PlaceFail(t)
    PROVE  Quiet
<1> USE IndicesOK DEF StateInv, StateTypes, LocalsOK, PoolInv, Indices
<1>1. \A j \in Ids : life[j] = "alive" => m_refar'[Home(j)] = m_refar[Home(j)]
  <2>1. CASE Reserve(t)
        BY <2>1 DEF Reserve, ReserveEntry, EntryInUse, EntriesOwned
  <2>2. CASE PlaceFail(t)
        BY <2>2 DEF PlaceFail, EntriesOwned
  <2> QED BY <2>1, <2>2
<1>2. UNCHANGED <<m_ar, life, ref>>
      BY DEF Reserve, PlaceFail
<1>3. \A u \in Threads \ {t} : UNCHANGED <<pc[u], tid[u], eidx[u]>>
      BY DEF Reserve, ReserveEntry, EntryInUse, StartPlacing, PlaceFail, Leave, Goto
<1>4. /\ pc[t] \in {"reserve", "place"} /\ pc'[t] \in {"reserve", "place", "idle"}
      BY DEF Reserve, ReserveEntry, EntryInUse, StartPlacing, PlaceFail, Leave, Goto
<1>5. ASSUME NEW i \in Ids PROVE SameFor(i)
  <2>1. Visible(i)' <=> Visible(i)
        BY <1>1, <1>2 DEF Visible, StatusMeaning
  <2>2. \A u \in Threads : Taken(i, u)' <=> Taken(i, u)
        BY <1>1, <1>2, <1>3, <1>4 DEF Taken, ReferencesAlive
  <2> QED BY <1>2, <2>1, <2>2 DEF SameFor
<1>6. \A u \in Threads : SameWanted(u)
      BY <1>2, <1>3, <1>4 DEF SameWanted, Fetching
<1> QED BY <1>5, <1>6, SameViews DEF Quiet, SameFor, SameHolder

(* A thread drops a reference that does not make it the owner: if that     *)
(* destroys the transaction it had left the pool before.                   *)
LEMMA ReleaseQuiet ==
    ASSUME StateInv, PoolInv, StatusMeaning, StatusMeaning', NEW t \in Threads,
           Release(t), UNCHANGED m_ar, Leave(t),
           NEW i \in Ids, ~Taken(i, t)
    PROVE  SameFor(i)
<1> USE IndicesOK DEF StateInv, StateTypes, LocalsOK, PoolInv, Indices
<1>1. Survivors
      BY ReleaseSurvivors
<1>2. ref' = [ref EXCEPT ![t] = NoTransaction]
      BY ReleaseEffect
<1>3. life'[i] = "unborn" <=> life[i] = "unborn"
      BY ReleaseEffect DEF Destroy
<1>4. Visible(i)' <=> Visible(i)
      BY <1>1 DEF Visible, StatusMeaning, Survivors
<1>5. \A u \in Threads : Taken(i, u)' <=> Taken(i, u)
      BY <1>1, <1>2 DEF Survivors, Leave, Goto, Taken
<1> QED BY <1>3, <1>4, <1>5 DEF SameFor

(* The owner's slot is cleared while nobody else sees it.                  *)
LEMMA FetchTakeQuiet ==
    ASSUME StateInv, PoolInv, CheckedSlots, StatusMeaning, StatusMeaning',
           NEW t \in Threads, FetchTake(t)
    PROVE  Quiet
<1> USE IndicesOK DEF StateInv, StateTypes, LocalsOK, PoolInv, Indices
<1>1. /\ pc[t] = "check" /\ ref[t] = tid[t] /\ tid[t] \in Ids
      /\ eidx[t] \in Slots /\ m_ar[eidx[t]] \in {NoTransaction, tid[t]}
      /\ Slot(eidx[t]) = eidx[t]
      BY DEF FetchTake, CheckedSlots
<1>2. m_ar' = [m_ar EXCEPT ![eidx[t]] = NoTransaction] /\ UNCHANGED <<life, m_refar>>
      BY <1>1 DEF FetchTake, ResetSlot, HeldBy
<1>3. /\ pc' = [pc EXCEPT ![t] = "own"]
      /\ UNCHANGED <<tid, ref, eidx>>
      BY DEF FetchTake, Goto
<1>4. Taken(tid[t], t)
      BY <1>1 DEF Taken
<1>5. \A i \in Ids, u \in Threads : Taken(i, u)' <=> Taken(i, u)
      BY <1>1, <1>2, <1>3 DEF Taken
<1>6. \A i \in Ids \ {tid[t]} : Visible(i)' <=> Visible(i)
      BY <1>1, <1>2 DEF Visible
<1>7. \A i \in Ids : SameFor(i)
      BY <1>2, <1>4, <1>5, <1>6 DEF SameFor
<1>8. \A u \in Threads : SameWanted(u)
      BY <1>1, <1>3 DEF SameWanted, Fetching
<1> QED BY <1>7, <1>8, SameViews DEF Quiet, SameFor, SameHolder

-----------------------------------------------------------------------------
(* The steps of the registry, transaction by transaction.                  *)
StatusBecomes(i, value) ==
    /\ Status(i)' = value
    /\ \A j \in Ids \ {i} : Status(j)' = Status(j)
HolderBecomes(t, value) ==
    /\ Holder(t)' = value
    /\ \A u \in Threads \ {t} : Holder(u)' = Holder(u)
WantedBecomes(t, value) ==
    /\ Wanted(t)' = value
    /\ \A u \in Threads \ {t} : Wanted(u)' = Wanted(u)
StatusKept == \A i \in Ids : Status(i)' = Status(i)
HolderKept == \A t \in Threads : Holder(t)' = Holder(t)
WantedKept == \A t \in Threads : Wanted(t)' = Wanted(t)

LEMMA CreateStep ==
    ASSUME NEW i \in Ids, Status(i) = "unborn", StatusBecomes(i, "pooled"),
           HolderKept, WantedKept
    PROVE  Registry!Create(i)
BY DEF StatusBecomes, HolderKept, WantedKept, Registry!Create

LEMMA ExpireStep ==
    ASSUME NEW i \in Ids, Status(i) = "pooled", StatusBecomes(i, "gone"),
           HolderKept, WantedKept
    PROVE  Registry!Expire(i)
BY DEF StatusBecomes, HolderKept, WantedKept, Registry!Expire

LEMMA CallStep ==
    ASSUME NEW t \in Threads, NEW i \in Ids,
           Wanted(t) = NoTransaction, Holder(t) = NoTransaction, Status(i) # "unborn",
           StatusKept, HolderKept, WantedBecomes(t, i)
    PROVE  Registry!Call(t, i)
BY DEF StatusKept, HolderKept, WantedBecomes, Registry!Call

LEMMA TakeStep ==
    ASSUME NEW t \in Threads, NEW i \in Ids, Wanted(t) = i, Status(i) = "pooled",
           StatusBecomes(i, "taken"), HolderBecomes(t, i), WantedBecomes(t, NoTransaction)
    PROVE  Registry!Take(t)
BY NoneAssumption DEF StatusBecomes, HolderBecomes, WantedBecomes, Registry!Take

LEMMA MissStep ==
    ASSUME NEW t \in Threads, NEW i \in Ids, Wanted(t) = i, absent[t],
           StatusKept, HolderKept, WantedBecomes(t, NoTransaction)
    PROVE  Registry!Miss(t)
<1>1. [u \in Threads |-> Wanted(u)]' = [[u \in Threads |-> Wanted(u)] EXCEPT ![t] = NoTransaction]
      BY DEF WantedBecomes
<1>2. UNCHANGED [j \in Ids |-> Status(j)]
      BY DEF StatusKept
<1>3. UNCHANGED [u \in Threads |-> Holder(u)]
      BY DEF HolderKept
<1> QED BY <1>1, <1>2, <1>3, NoneAssumption DEF Registry!Miss

LEMMA GiveBackStep ==
    ASSUME NEW t \in Threads, NEW i \in Ids, Holder(t) = i,
           NEW value \in {"pooled", "gone"}, StatusBecomes(i, value),
           HolderBecomes(t, NoTransaction), WantedKept
    PROVE  Registry!GiveBack(t)
<1>1. [u \in Threads |-> Holder(u)]' = [[u \in Threads |-> Holder(u)] EXCEPT ![t] = NoTransaction]
      BY DEF HolderBecomes
<1>2. [j \in Ids |-> Status(j)]' = [[j \in Ids |-> Status(j)] EXCEPT ![i] = value]
      BY DEF StatusBecomes
<1>3. UNCHANGED [u \in Threads |-> Wanted(u)]
      BY DEF WantedKept
<1> QED BY <1>1, <1>2, <1>3, NoneAssumption DEF Registry!GiveBack

-----------------------------------------------------------------------------
(* The operations of the pool as steps of the registry.                    *)

LEMMA PlaceCreates ==
    ASSUME StateInv, PoolInv, StatusMeaning, StatusMeaning', NEW t \in Threads, Place(t),
           NEW i \in Ids, tid[t] = i
    PROVE  Registry!Create(i)
<1> USE IndicesOK DEF StateInv, StateTypes, LocalsOK, PoolInv, Indices
<1> DEFINE s == eidx[t]
<1>1. /\ pc[t] = "place" /\ i \in Ids /\ s \in Slots /\ m_ar[s] = NoTransaction
      /\ life[i] = "unborn" /\ m_refar[Home(i)] = Reserved
      BY DEF Place, EntriesOwned
<1>2. /\ m_ar' = [m_ar EXCEPT ![s] = i] /\ m_refar' = [m_refar EXCEPT ![Home(i)] = s]
      /\ life' = [life EXCEPT ![i] = "alive"] /\ ref' = [ref EXCEPT ![t] = i]
      /\ pc' = [pc EXCEPT ![t] = "created"] /\ UNCHANGED <<tid, eidx>>
      BY DEF Place, Goto
<1>3. \A j \in Ids : life[j] = "alive" => Home(j) # Home(i)
      BY <1>1 DEF EntriesOwned
<1> HIDE DEF s
<1>4. \A j \in Ids, u \in Threads : Taken(j, u)' <=> Taken(j, u)
      BY <1>1, <1>2, <1>3 DEF Taken, ReferencesAlive
<1>5. \A j \in Ids \ {i} : SameFor(j)
  <2> SUFFICES ASSUME NEW j \in Ids \ {i} PROVE SameFor(j)
      OBVIOUS
  <2>1. life'[j] = life[j]
        BY <1>1, <1>2
  <2>2. CASE life[j] = "alive"
        BY <1>1, <1>2, <1>3, <1>4, <2>1, <2>2 DEF SameFor, Visible
  <2>3. CASE life[j] # "alive"
        BY <1>4, <2>1, <2>3 DEF SameFor, StatusMeaning
  <2> QED BY <2>2, <2>3
<1>6. ~(\E u \in Threads : Taken(i, u)) /\ Status(i) = "unborn"
      BY <1>1 DEF StatusMeaning
<1>7. InPool(i)'
      BY <1>1, <1>2, <1>4, <1>6 DEF InPool, Visible
<1>8. Status(i)' = "pooled"
      BY <1>1, <1>7 DEF StatusMeaning
<1>9. StatusBecomes(i, "pooled") /\ HolderKept
      BY <1>4, <1>5, <1>8, SameViews DEF StatusBecomes, HolderKept, SameHolder
<1>10. \A u \in Threads : SameWanted(u)
      BY <1>1, <1>2 DEF SameWanted, Fetching
<1>11. WantedKept
      BY <1>10, SameViews DEF WantedKept
<1> QED BY <1>6, <1>9, <1>11, CreateStep

LEMMA FetchCalls ==
    ASSUME StateInv, PoolInv, StatusMeaning, StatusMeaning', NEW t \in Threads,
           NEW i \in Ids, Fetch(t, i)
    PROVE  Registry!Call(t, i)
<1> USE IndicesOK DEF StateInv, StateTypes, LocalsOK, PoolInv, Indices
<1>1. /\ pc[t] = "idle" /\ life[i] # "unborn"
      /\ tid' = [tid EXCEPT ![t] = i] /\ pc' = [pc EXCEPT ![t] = "fetch"]
      /\ \A u \in Threads \ {t} : eidx'[u] = eidx[u]
      /\ UNCHANGED <<m_ar, m_refar, life, ref>>
      BY DEF Fetch, Issued, Goto
<1>2. \A j \in Ids : SameFor(j)
      BY <1>1 DEF SameFor, Visible, Taken
<1>3. \A u \in Threads \ {t} : SameWanted(u)
      BY <1>1 DEF SameWanted, Fetching
<1>4. ~Fetching(t) /\ Fetching(t)' /\ tid'[t] = i /\ \A j \in Ids : ~Taken(j, t)
      BY <1>1 DEF Fetching, Taken
<1>5. StatusKept /\ HolderKept
      BY <1>2, SameViews DEF StatusKept, HolderKept, SameFor, SameHolder
<1>6. WantedBecomes(t, i)
      BY <1>3, <1>4, SameViews DEF WantedBecomes, StatusMeaning
<1>7. Wanted(t) = NoTransaction /\ Holder(t) = NoTransaction /\ Status(i) # "unborn"
      BY <1>1, <1>4 DEF StatusMeaning
<1> QED BY <1>5, <1>6, <1>7, CallStep

(* The moment at which a fetch takes its transaction is when it has        *)
(* counted the reference it copied from the slot.                          *)
LEMMA FetchCountTakes ==
    ASSUME StateInv, PoolInv, StatusMeaning, StatusMeaning', NEW t \in Threads,
           FetchCount(t), NEW i \in Ids, tid[t] = i
    PROVE  IF ref[t] = i THEN Registry!Take(t) ELSE Quiet
<1> USE IndicesOK DEF StateInv, StateTypes, LocalsOK, PoolInv, Indices
<1>1. /\ pc[t] = "copy" /\ pc' = [pc EXCEPT ![t] = "check"]
      /\ UNCHANGED <<m_ar, m_refar, life, tid, ref, eidx>>
      BY DEF FetchCount, Goto
<1>2. \A u \in Threads \ {t} : SameWanted(u)
      BY <1>1 DEF SameWanted, Fetching
<1>3. \A j \in Ids, u \in Threads : u # t \/ j # i => (Taken(j, u)' <=> Taken(j, u))
      BY <1>1 DEF Taken
<1>4. \A j \in Ids \ {i} : SameFor(j)
      BY <1>1, <1>3 DEF SameFor, Visible
<1>5. CASE ref[t] = i
  <2>1. Slot(eidx[t]) \in Slots /\ m_ar[Slot(eidx[t])] = i /\ Claims(t, i)
        BY <1>1, <1>5 DEF CopiedInSlot, Claims
  <2>2. \A u \in Threads : Claims(u, i) => u = t
        BY <2>1 DEF ClaimsExclusive
  <2>3. \A u \in Threads : ~(pc[u] = "setref" /\ ref[u] = i)
        BY <1>1, <2>2 DEF Claims
  <2>4. Visible(i)
        BY <2>1, <2>3 DEF EntriesNameSlots, Visible
  <2>5. \A u \in Threads : ~Taken(i, u)
        BY <1>1, <2>2 DEF StatusMeaning, Taken
  <2>6. Status(i) = "pooled"
        BY <2>4, <2>5 DEF StatusMeaning, InPool
  <2>7. Taken(i, t)' /\ ~Fetching(t)' /\ Fetching(t)
        BY <1>1, <1>5 DEF Taken, Fetching
  <2>8. Status(i)' = "taken" /\ Holder(t)' = i
        BY <2>7 DEF StatusMeaning
  <2>9. StatusBecomes(i, "taken")
        BY <1>4, <2>8, SameViews DEF StatusBecomes
  <2>10. HolderBecomes(t, i)
        BY <1>3, <2>8, SameViews DEF HolderBecomes, SameHolder
  <2>11. WantedBecomes(t, NoTransaction) /\ Wanted(t) = i
        BY <1>2, <2>7, SameViews DEF WantedBecomes, StatusMeaning
  <2> QED BY <1>5, <2>6, <2>9, <2>10, <2>11, TakeStep
<1>6. CASE ref[t] # i
  <2>1. \A u \in Threads : Taken(i, u)' <=> Taken(i, u)
        BY <1>1, <1>3, <1>6 DEF Taken
  <2>2. SameFor(i)
        BY <1>1, <2>1 DEF SameFor, Visible
  <2>3. SameWanted(t)
        BY <1>1, <1>6 DEF SameWanted, Fetching
  <2>4. \A u \in Threads : SameHolder(u)
        BY <1>4, <2>2 DEF SameHolder, SameFor
  <2> QED BY <1>2, <1>4, <1>6, <2>2, <2>3, <2>4, SameViews DEF Quiet
<1> QED BY <1>5, <1>6

LEMMA FetchMissMisses ==
    ASSUME StateInv, PoolInv, HistoryInv, StatusMeaning, StatusMeaning',
           NEW t \in Threads, FetchMiss(t), NEW i \in Ids, tid[t] = i
    PROVE  Registry!Miss(t)
<1> USE IndicesOK DEF StateInv, StateTypes, LocalsOK, PoolInv, Indices
<1>1. /\ pc[t] = "check" /\ ref[t] # i
      BY DEF FetchMiss, ReferencesAlive
<1>2. Release(t) /\ Leave(t) /\ UNCHANGED m_ar
      BY DEF FetchMiss
<1>3. \A j \in Ids : ~Taken(j, t)
      BY <1>1 DEF Taken
<1>4. \A j \in Ids : SameFor(j)
      BY <1>2, <1>3, ReleaseQuiet
<1>5. Fetching(t) /\ ~Fetching(t)'
      BY <1>1, <1>2 DEF Fetching, Leave, Goto
<1>6. \A u \in Threads \ {t} : SameWanted(u)
  <2>1. ref' = [ref EXCEPT ![t] = NoTransaction]
        BY <1>2, ReleaseEffect
  <2> QED BY <1>2, <2>1 DEF SameWanted, Fetching, Leave, Goto
<1>7. absent[t]
      BY <1>1, <1>5 DEF HistoryInv
<1>8. StatusKept /\ HolderKept
      BY <1>4, SameViews DEF StatusKept, HolderKept, SameFor, SameHolder
<1>9. WantedBecomes(t, NoTransaction) /\ Wanted(t) = i
      BY <1>5, <1>6, SameViews DEF WantedBecomes, StatusMeaning
<1> QED BY <1>7, <1>8, <1>9, MissStep

(* A transaction put back to the slot its entry still names is visible at  *)
(* once, otherwise when the entry has been written.                        *)
LEMMA ReturnPlaceGivesBack ==
    ASSUME StateInv, PoolInv, StatusMeaning, StatusMeaning', NEW t \in Threads,
           ReturnPlace(t), NEW i \in Ids, ref[t] = i
    PROVE  Registry!GiveBack(t) \/ Quiet
<1> USE IndicesOK DEF StateInv, StateTypes, LocalsOK, PoolInv, Indices
<1> DEFINE s == eidx[t]
<1>1. /\ pc[t] = "return" /\ s \in Slots /\ m_ar[s] = NoTransaction
      /\ m_ar' = [m_ar EXCEPT ![s] = i] /\ pc' = [pc EXCEPT ![t] = "setref"]
      /\ UNCHANGED <<m_refar, life, tid, ref, eidx>>
      BY DEF ReturnPlace, Goto
<1>2. Taken(i, t)
      BY <1>1 DEF Taken
<1>3. \A j \in Ids, u \in Threads : u # t \/ j # i => (Taken(j, u)' <=> Taken(j, u))
      BY <1>1 DEF Taken
<1>4. \A j \in Ids \ {i} : SameFor(j)
      BY <1>1, <1>3 DEF SameFor, Visible
<1>5. \A u \in Threads : SameWanted(u)
      BY <1>1 DEF SameWanted, Fetching
<1>6. WantedKept
      BY <1>5, SameViews DEF WantedKept
<1>7. CASE m_refar[Home(i)] = s
  <2>1. ~Taken(i, t)'
        BY <1>1, <1>7 DEF Taken
  <2>2. \A u \in Threads : ~Taken(i, u)'
        BY <1>2, <1>3, <2>1 DEF StatusMeaning
  <2>3. Visible(i)'
        BY <1>1, <1>7 DEF Visible
  <2>4. Status(i)' = "pooled"
        BY <2>2, <2>3 DEF InPool, StatusMeaning
  <2>5. \A j \in Ids : ~Taken(j, t)'
        BY <1>1, <2>1 DEF Taken
  <2>6. Holder(t)' = NoTransaction /\ Holder(t) = i
        BY <1>2, <2>5 DEF StatusMeaning
  <2>7. StatusBecomes(i, "pooled")
        BY <1>4, <2>4, SameViews DEF StatusBecomes
  <2>8. HolderBecomes(t, NoTransaction)
        BY <1>3, <2>6, SameViews DEF HolderBecomes, SameHolder
  <2> QED BY <1>6, <2>6, <2>7, <2>8, GiveBackStep
<1>8. CASE m_refar[Home(i)] # s
  <2>1. Taken(i, t)'
        BY <1>1, <1>8 DEF Taken
  <2>2. SameFor(i)
        BY <1>1, <1>2, <1>3, <2>1 DEF SameFor
  <2> QED BY <1>4, <1>5, <2>2, SameViews DEF Quiet, SameFor, SameHolder
<1> QED BY <1>7, <1>8

LEMMA SetRefGivesBack ==
    ASSUME StateInv, PoolInv, StatusMeaning, StatusMeaning', NEW t \in Threads,
           SetRef(t), NEW i \in Ids, ref[t] = i
    PROVE  Registry!GiveBack(t) \/ Quiet
<1> USE IndicesOK DEF StateInv, StateTypes, LocalsOK, PoolInv, Indices
<1> DEFINE s == eidx[t]
<1>1. /\ pc[t] = "setref" /\ s \in Slots /\ life[i] = "alive"
      /\ m_refar' = [m_refar EXCEPT ![Home(i)] = s] /\ pc' = [pc EXCEPT ![t] = "drop"]
      /\ UNCHANGED <<m_ar, life, tid, ref, eidx>>
      BY DEF SetRef, Goto, ReferencesAlive
<1>2. \A j \in Ids \ {i} : life[j] = "alive" => m_refar'[Home(j)] = m_refar[Home(j)]
      BY <1>1 DEF EntriesOwned
<1>3. \A j \in Ids, u \in Threads : j # i => (Taken(j, u)' <=> Taken(j, u))
      BY <1>1, <1>2 DEF Taken, ReferencesAlive
<1>4. \A j \in Ids \ {i} : SameFor(j)
  <2> SUFFICES ASSUME NEW j \in Ids \ {i} PROVE SameFor(j)
      OBVIOUS
  <2>1. Visible(j)' <=> Visible(j)
        BY <1>1, <1>2 DEF Visible, StatusMeaning
  <2> QED BY <1>1, <1>3, <2>1 DEF SameFor
<1>5. \A u \in Threads : SameWanted(u)
      BY <1>1 DEF SameWanted, Fetching
<1>6. WantedKept
      BY <1>5, SameViews DEF WantedKept
<1>7. ~Taken(i, t)' /\ Claims(t, i)
      BY <1>1 DEF Taken, Claims
<1>8. \A u \in Threads \ {t} : ~Taken(i, u)
      BY <1>7 DEF StatusMeaning, ClaimsExclusive
<1>9. \A u \in Threads \ {t} : ref[u] = i => pc[u] # "setref"
      BY <1>7 DEF Claims, ClaimsExclusive
<1>10. \A u \in Threads : ~Taken(i, u)'
      BY <1>1, <1>7, <1>8, <1>9 DEF Taken
<1>11. CASE Taken(i, t)
  <2> DEFINE value == IF m_ar[s] = i THEN "pooled" ELSE "gone"
  <2>1. InPool(i)' <=> m_ar[s] = i
        BY <1>1, <1>10 DEF InPool, Visible
  <2>2. m_ar[s] = i => Status(i)' = "pooled"
        BY <2>1 DEF StatusMeaning
  <2>3. m_ar[s] # i => Status(i)' = "gone"
        BY <1>1, <1>10, <2>1 DEF StatusMeaning
  <2>4. PICK v \in {"pooled", "gone"} : Status(i)' = v
        BY <2>2, <2>3
  <2>5. \A j \in Ids : ~Taken(j, t)'
        BY <1>1, <1>7 DEF Taken
  <2>6. Holder(t)' = NoTransaction /\ Holder(t) = i
        BY <1>11, <2>5 DEF StatusMeaning
  <2>7. StatusBecomes(i, v)
        BY <1>4, <2>4, SameViews DEF StatusBecomes
  <2>8. HolderBecomes(t, NoTransaction)
        BY <1>3, <1>8, <1>10, <2>6, SameViews DEF HolderBecomes, SameHolder
  <2> QED BY <1>6, <2>6, <2>7, <2>8, GiveBackStep
<1>12. CASE ~Taken(i, t)
  <2>1. m_refar[Home(i)] = s
        BY <1>1, <1>12 DEF Taken
  <2>2. SameFor(i)
        BY <1>1, <1>8, <1>10, <1>12, <2>1 DEF SameFor, Visible
  <2> QED BY <1>4, <1>5, <2>2, SameViews DEF Quiet, SameFor, SameHolder
<1> QED BY <1>11, <1>12

(* A transaction no slot takes is lost with the reference of its owner, as *)
(* is one its owner disposes of.                                           *)
LEMMA LosesOwned ==
    ASSUME StateInv, PoolInv, StatusMeaning, StatusMeaning', NEW t \in Threads,
           NEW i \in Ids, Taken(i, t), pc[t] \in {"own", "return"}, UNCHANGED m_ar,
           \A j \in Ids, u \in Threads : u # t \/ j # i => (Taken(j, u)' <=> Taken(j, u)),
           ~Taken(i, t)', life'[i] # "unborn",
           \A j \in Ids \ {i} : SameFor(j), WantedKept
    PROVE  Registry!GiveBack(t)
<1> USE IndicesOK DEF StateInv, StateTypes, LocalsOK, PoolInv, Indices
<1>1. ref[t] = i /\ \A s \in Slots : m_ar[s] # i
      BY DEF Taken, ClaimsExclusive, Claims
<1>2. ~Visible(i)'
      BY <1>1 DEF Visible
<1>3. \A u \in Threads : ~Taken(i, u)'
      BY DEF StatusMeaning
<1>4. Status(i)' = "gone"
      BY <1>2, <1>3 DEF InPool, StatusMeaning
<1>5. \A j \in Ids : ~Taken(j, t)'
      BY <1>1 DEF Taken
<1>6. Holder(t)' = NoTransaction /\ Holder(t) = i
      BY <1>5 DEF StatusMeaning
<1>7. StatusBecomes(i, "gone")
      BY <1>4, SameViews DEF StatusBecomes
<1>8. HolderBecomes(t, NoTransaction)
      BY <1>3, <1>6, SameViews DEF HolderBecomes, SameHolder
<1> QED BY <1>6, <1>7, <1>8, GiveBackStep

LEMMA ReturnFailGivesBack ==
    ASSUME StateInv, PoolInv, StatusMeaning, StatusMeaning', NEW t \in Threads,
           ReturnFail(t)
    PROVE  Registry!GiveBack(t)
<1> USE IndicesOK DEF StateInv, StateTypes, LocalsOK, PoolInv, Indices
<1>1. /\ pc[t] = "return" /\ pc' = [pc EXCEPT ![t] = "drop"]
      /\ UNCHANGED <<m_ar, m_refar, life, tid, ref, eidx>>
      BY DEF ReturnFail, Goto
<1>2. PICK i \in Ids : ref[t] = i
      BY <1>1
<1>3. Taken(i, t) /\ ~Taken(i, t)' /\ life'[i] # "unborn"
      BY <1>1, <1>2 DEF Taken, ReferencesAlive
<1>4. \A j \in Ids, u \in Threads : u # t \/ j # i => (Taken(j, u)' <=> Taken(j, u))
      BY <1>1, <1>2 DEF Taken
<1>5. \A j \in Ids \ {i} : SameFor(j)
      BY <1>1, <1>4 DEF SameFor, Visible
<1>6. \A u \in Threads : SameWanted(u)
      BY <1>1 DEF SameWanted, Fetching
<1> QED BY <1>1, <1>3, <1>4, <1>5, <1>6, SameViews, LosesOwned DEF WantedKept

LEMMA DropGivesBack ==
    ASSUME StateInv, PoolInv, StatusMeaning, StatusMeaning', NEW t \in Threads,
           Drop(t) \/ Created(t)
    PROVE  Registry!GiveBack(t) \/ Quiet
<1> USE IndicesOK DEF StateInv, StateTypes, LocalsOK, PoolInv, Indices
<1>1. /\ pc[t] \in {"own", "drop", "created"} /\ UNCHANGED m_ar
      /\ Release(t) /\ Leave(t)
      BY DEF Drop, Created
<1>2. /\ ref' = [ref EXCEPT ![t] = NoTransaction] /\ Survivors
      BY <1>1, ReleaseEffect, ReleaseSurvivors
<1>3. PICK i \in Ids : ref[t] = i
      BY <1>1
<1>4. \A j \in Ids \ {i} : SameFor(j)
      BY <1>1, <1>3, ReleaseQuiet DEF Taken
<1>5. \A u \in Threads : SameWanted(u)
      BY <1>1, <1>2 DEF SameWanted, Fetching, Leave, Goto
<1>6. CASE pc[t] = "own"
  <2>1. Taken(i, t) /\ ~Taken(i, t)'
        BY <1>1, <1>2, <1>3, <1>6 DEF Taken
  <2>2. life'[i] # "unborn"
        BY <1>1, <1>3, ReleaseEffect DEF Destroy, ReferencesAlive
  <2>3. \A u \in Threads \ {t} : ~Taken(i, u)
        BY <2>1 DEF StatusMeaning
  <2>4. \A u \in Threads \ {t} : ~Taken(i, u)'
        BY <1>1, <1>2, <1>3, <2>1 DEF Taken, Leave, Goto, Survivors, ClaimsExclusive, Claims
  <2>5. \A j \in Ids, u \in Threads : u # t \/ j # i => (Taken(j, u)' <=> Taken(j, u))
        BY <1>4, <2>3, <2>4 DEF SameFor
  <2>6. WantedKept
        BY <1>5, SameViews DEF WantedKept
  <2> QED BY <1>1, <1>4, <1>6, <2>1, <2>2, <2>5, <2>6, LosesOwned
<1>7. CASE pc[t] \in {"drop", "created"}
  <2>1. \A j \in Ids : ~Taken(j, t)
        BY <1>7 DEF Taken
  <2>2. \A j \in Ids : SameFor(j)
        BY <1>1, <2>1, ReleaseQuiet
  <2> QED BY <1>5, <2>2, SameViews DEF Quiet, SameFor, SameHolder
<1> QED BY <1>1, <1>6, <1>7

(* The sweep expires what is in the pool.  What its returning thread has   *)
(* put into a slot and not yet made visible stays with the thread.         *)
LEMMA CollectExpires ==
    ASSUME Regime, StateInv, PoolInv, StatusMeaning, StatusMeaning', Collect
    PROVE  (\E i \in Ids : Registry!Expire(i)) \/ Quiet
<1> USE IndicesOK DEF StateInv, StateTypes, LocalsOK, PoolInv, Indices
<1>1. PICK s \in Slots : ResetSlot(s) /\ UNCHANGED <<pc, tid, ref, eidx>>
      BY ModRange, RingAssumption DEF Collect, Slots
<1>2. m_ar' = [m_ar EXCEPT ![s] = NoTransaction] /\ Survivors
      BY <1>1, ResetEffect, ResetSurvivors
<1>3. \A u \in Threads : SameWanted(u)
      BY <1>1 DEF SameWanted, Fetching
<1>4. \A j \in Ids : life'[j] = "unborn" <=> life[j] = "unborn"
      BY <1>1, ResetEffect DEF Destroy
<1>5. \A j \in Ids, u \in Threads : Taken(j, u)' <=> Taken(j, u)
  <2> SUFFICES ASSUME NEW j \in Ids, NEW u \in Threads, ref[u] = j
               PROVE  Taken(j, u)' <=> Taken(j, u)
      BY <1>1 DEF Taken
  <2>1. m_refar'[Home(j)] = m_refar[Home(j)]
        BY <1>1, <1>2 DEF Survivors
  <2> QED BY <1>1, <2>1 DEF Taken
<1>6. \A j \in Ids : m_ar[s] # j => SameFor(j)
  <2> SUFFICES ASSUME NEW j \in Ids, m_ar[s] # j PROVE SameFor(j)
      OBVIOUS
  <2>1. Visible(j)' => Visible(j)
        BY <1>2 DEF Visible, Survivors, StatusMeaning
  <2>2. Visible(j) => Visible(j)'
        BY <1>2 DEF Visible, Survivors
  <2> QED BY <1>4, <1>5, <2>1, <2>2 DEF SameFor
<1>7. CASE m_ar[s] = NoTransaction
      BY <1>3, <1>6, <1>7, SameViews DEF Quiet, SameFor, SameHolder
<1>8. ASSUME NEW i \in Ids, m_ar[s] = i, \E u \in Threads : Taken(i, u)
      PROVE  Quiet
  <2>1. SameFor(i)
        BY <1>4, <1>5, <1>8 DEF SameFor
  <2> QED BY <1>3, <1>6, <1>8, <2>1, SameViews DEF Quiet, SameFor, SameHolder
<1>9. ASSUME NEW i \in Ids, m_ar[s] = i, \A u \in Threads : ~Taken(i, u)
      PROVE  Registry!Expire(i)
  <2>1. m_refar[Home(i)] = s
    <3>1. SUFFICES ASSUME NEW t \in Threads, pc[t] = "setref", ref[t] = i
                   PROVE  m_refar[Home(i)] = s
          BY <1>9 DEF EntriesNameSlots
    <3>2. Claims(t, i)
          BY <3>1 DEF Claims
    <3>3. s = eidx[t]
          BY <1>9, <3>1, <3>2 DEF ClaimsExclusive
    <3> QED BY <1>9, <3>1, <3>3 DEF Taken
  <2>2. InPool(i)
        BY <1>9, <2>1 DEF InPool, Visible
  <2>3. \A u \in Slots : m_ar'[u] # i
        BY <1>2, <1>9 DEF SlotsDistinct
  <2>4. ~InPool(i)' /\ \A u \in Threads : ~Taken(i, u)'
        BY <1>5, <1>9, <2>3 DEF InPool, Visible
  <2>5. Status(i) = "pooled" /\ Status(i)' = "gone"
        BY <1>4, <2>2, <2>4 DEF StatusMeaning
  <2>6. StatusBecomes(i, "gone")
        BY <1>6, <1>9, <2>5, SameViews DEF StatusBecomes
  <2>7. HolderKept /\ WantedKept
        BY <1>3, <1>5, SameViews DEF HolderKept, WantedKept, SameHolder
  <2> QED BY <2>5, <2>6, <2>7, ExpireStep
<1> QED BY <1>7, <1>8, <1>9

(* Every step of the pool is one of the registry, or nothing to its users. *)
LEMMA StepRefines ==
    ASSUME Regime, StateInv, PoolInv, HistoryInv, CheckedSlots,
           StatusMeaning, StatusMeaning', Step
    PROVE  Registry!Step \/ Quiet
<1>1. ASSUME NEW t \in Threads, ThreadStep(t) PROVE Registry!Step \/ Quiet
  <2>1. CASE New(t) \/ PlaceNext(t) \/ FetchLock(t) \/ Return(t) \/ ReturnNext(t)
        BY <2>1, LocalStepsQuiet
  <2>2. CASE Reserve(t) \/ PlaceFail(t)
        BY <2>2, EntryStepsQuiet
  <2>3. CASE Place(t)
    <3>1. PICK i \in Ids : tid[t] = i
          BY <2>3 DEF StateInv, LocalsOK, Place
    <3> QED BY <2>3, <3>1, PlaceCreates DEF Registry!Step
  <2>4. CASE \E i \in Ids : Fetch(t, i)
        BY <2>4, FetchCalls DEF Registry!Step
  <2>5. CASE FetchCount(t)
    <3>1. PICK i \in Ids : tid[t] = i
          BY <2>5 DEF StateInv, LocalsOK, FetchCount
    <3> QED BY <2>5, <3>1, FetchCountTakes DEF Registry!Step
  <2>6. CASE FetchMiss(t)
    <3>1. PICK i \in Ids : tid[t] = i
          BY <2>6 DEF StateInv, LocalsOK, FetchMiss
    <3> QED BY <2>6, <3>1, FetchMissMisses DEF Registry!Step
  <2>7. CASE FetchTake(t)
        BY <2>7, FetchTakeQuiet
  <2>8. CASE ReturnPlace(t) \/ SetRef(t)
    <3>1. PICK i \in Ids : ref[t] = i
          BY <2>8 DEF StateInv, LocalsOK, ReturnPlace, SetRef
    <3> QED BY <2>8, <3>1, ReturnPlaceGivesBack, SetRefGivesBack DEF Registry!Step
  <2>9. CASE ReturnFail(t)
        BY <2>9, ReturnFailGivesBack DEF Registry!Step
  <2>10. CASE Drop(t) \/ Created(t)
        BY <2>10, DropGivesBack DEF Registry!Step
  <2> QED BY <1>1, <2>1, <2>2, <2>3, <2>4, <2>5, <2>6, <2>7, <2>8, <2>9, <2>10
          DEF ThreadStep
<1>2. CASE Tick
      BY <1>2, TickQuiet
<1>3. CASE Collect
      BY <1>3, CollectExpires DEF Registry!Step
<1> QED BY <1>1, <1>2, <1>3 DEF Step

LEMMA ObserveRefines ==
    ASSUME StatusMeaning, StatusMeaning', HistoryInv, Observe
    PROVE  Registry!Observe /\ (Quiet => absent' = absent)
<1>1. ASSUME NEW t \in Threads
      PROVE  /\ Fetching(t) <=> Wanted(t) # NoTransaction
             /\ Fetching(t)' <=> Wanted(t)' # NoTransaction
             /\ Fetching(t)' => tid'[t] = Wanted(t)' /\ Wanted(t)' \in Ids
      BY NoneAssumption DEF StatusMeaning
<1>2. ASSUME NEW t \in Threads, Fetching(t)'
      PROVE  InPool(tid[t])' <=> [i \in Ids |-> Status(i)]'[Wanted(t)'] = "pooled"
  <2>1. PICK i \in Ids : i = tid'[t] /\ i = Wanted(t)'
        BY <1>1, <1>2
  <2>2. InPool(i)' <=> Status(i)' = "pooled"
        BY DEF StatusMeaning
  <2>3. InPool(tid[t])' <=> InPool(i)'
        BY <2>1 DEF InPool, Visible, Taken
  <2>4. [j \in Ids |-> Status(j)]'[Wanted(t)'] = Status(i)'
        BY <2>1
  <2> QED BY <2>2, <2>3, <2>4
<1>3. ASSUME NEW t \in Threads
      PROVE  absent[t] \in BOOLEAN /\ (absent[t] => Fetching(t))
      BY DEF HistoryInv
<1>4. ASSUME NEW t \in Threads
      PROVE  absent'[t] <=> /\ Fetching(t)'
                            /\ absent[t] \/ ~InPool(tid[t])'
      BY DEF Observe
<1>5. Registry!Observe
      BY <1>1, <1>2, <1>3 DEF Observe, Registry!Observe
<1>6. ASSUME Quiet PROVE absent' = absent
  <2>1. ASSUME NEW t \in Threads, Fetching(t)
        PROVE  InPool(tid[t])' <=> InPool(tid[t])
    <3>1. PICK i \in Ids : i = tid[t] /\ i = Wanted(t)
          BY <2>1 DEF StatusMeaning
    <3>2. Wanted(t)' = i
          BY <1>6, <3>1 DEF Quiet
    <3>3. tid'[t] = i
          BY <1>1, <3>2, NoneAssumption
    <3>4. InPool(i)' <=> InPool(i)
          BY <1>6 DEF Quiet, StatusMeaning
    <3>5. InPool(tid[t])' <=> InPool(i)'
          BY <3>3 DEF InPool, Visible, Taken
    <3> QED BY <3>1, <3>4, <3>5
  <2>2. ASSUME NEW t \in Threads PROVE Fetching(t)' <=> Fetching(t)
        BY <1>1, <1>6 DEF Quiet
  <2>3. ASSUME NEW t \in Threads PROVE absent'[t] <=> absent[t]
        BY <1>3, <1>4, <2>1, <2>2 DEF HistoryInv
  <2>4. absent' \in [Threads -> BOOLEAN]
        BY DEF Observe
  <2> QED BY <2>3, <2>4 DEF HistoryInv
<1> QED BY <1>5, <1>6

-----------------------------------------------------------------------------
(* The two invariants the refinement adds to those of the pool.            *)

LEMMA OthersKept ==
    ASSUME StateInv, NEW t \in Threads, ThreadStep(t), NEW u \in Threads \ {t}
    PROVE  UNCHANGED <<pc[u], tid[u], ref[u], eidx[u]>>
BY DEF StateInv, StateTypes, ThreadStep, New, Reserve, ReserveEntry, EntryInUse,
       StartPlacing, Place, PlaceNext, PlaceFail, Created, Fetch, FetchLock,
       FetchCount, FetchTake, FetchMiss, Return, ReturnPlace, ReturnNext,
       ReturnFail, SetRef, Drop, Release, Leave, Goto

(* The entry of a transaction that stays in the pool stays.                *)
LEMMA EntryStays ==
    ASSUME Regime, StateInv, PoolInv, StatusMeaning, StatusMeaning', Step,
           NEW i \in Ids, InPool(i), InPool(i)'
    PROVE  m_refar'[Home(i)] = m_refar[Home(i)]
<1> USE IndicesOK DEF StateInv, StateTypes, LocalsOK, PoolInv, Indices
<1>1. /\ m_refar[Home(i)] \in Slots /\ life[i] = "alive" /\ life'[i] = "alive"
      BY DEF InPool, Visible, StatusMeaning
<1>2. Survivors => m_refar'[Home(i)] = m_refar[Home(i)]
      BY <1>1 DEF Survivors
<1>3. CASE Tick
      BY <1>3 DEF Tick
<1>4. CASE Collect
  <2>1. PICK s \in Slots : ResetSlot(s) /\ UNCHANGED ref
        BY <1>4, ModRange, RingAssumption DEF Collect, Slots
  <2> QED BY <1>2, <2>1, ResetSurvivors
<1>5. ASSUME NEW t \in Threads, ThreadStep(t)
      PROVE  m_refar'[Home(i)] = m_refar[Home(i)]
  <2>1. CASE \/ New(t) \/ PlaceNext(t) \/ (\E j \in Ids : Fetch(t, j)) \/ FetchLock(t)
             \/ FetchCount(t) \/ Return(t) \/ ReturnPlace(t) \/ ReturnNext(t)
             \/ ReturnFail(t)
        BY <2>1 DEF New, PlaceNext, Fetch, FetchLock, FetchCount, Return,
           ReturnPlace, ReturnNext, ReturnFail
  <2>2. CASE Reserve(t)
        BY <1>1, <2>2 DEF Reserve, ReserveEntry, EntryInUse
  <2>3. CASE Place(t) \/ PlaceFail(t)
        BY <1>1, <2>3 DEF Place, PlaceFail, EntriesOwned
  <2>4. CASE Created(t) \/ FetchMiss(t) \/ Drop(t)
        BY <1>2, <2>4, ReleaseSurvivors DEF Created, FetchMiss, Drop
  <2>5. CASE FetchTake(t)
    <3>1. Slot(eidx[t]) \in Slots /\ ResetSlot(Slot(eidx[t])) /\ UNCHANGED ref
          BY <2>5 DEF FetchTake
    <3> QED BY <1>2, <3>1, ResetSurvivors
  <2>6. CASE SetRef(t)
    <3>1. /\ pc[t] = "setref" /\ ref[t] \in Ids /\ life[ref[t]] = "alive"
          /\ m_refar' = [m_refar EXCEPT ![Home(ref[t])] = eidx[t]]
          BY <2>6 DEF SetRef, ReferencesAlive
    <3>2. CASE ref[t] = i
          BY <3>1, <3>2 DEF InPool, Taken
    <3>3. CASE ref[t] # i
          BY <1>1, <3>1, <3>3 DEF EntriesOwned
    <3> QED BY <3>2, <3>3
  <2> QED BY <1>5, <2>1, <2>2, <2>3, <2>4, <2>5, <2>6 DEF ThreadStep
<1> QED BY <1>3, <1>4, <1>5 DEF Step

LEMMA HistoryKept ==
    ASSUME Regime, StateInv, PoolInv, HistoryInv, StatusMeaning, StatusMeaning',
           Step, Observe
    PROVE  HistoryInv'
<1> USE DEF StateInv, StateTypes, LocalsOK, PoolInv
<1>1. absent' \in [Threads -> BOOLEAN]
      BY DEF Observe
<1>2. ASSUME NEW t \in Threads
      PROVE  absent'[t] <=> /\ Fetching(t)'
                            /\ absent[t] \/ ~InPool(tid[t])'
      BY DEF Observe
<1>3. ASSUME NEW t \in Threads, Fetching(t)', ~absent'[t]
      PROVE  /\ InPool(tid[t])'
             /\ m_refar'[Home(tid'[t])] = eidx'[t]
             /\ pc'[t] # "fetch" => ref'[t] = tid'[t]
  <2>1. ~absent[t] /\ InPool(tid[t])'
        BY <1>2, <1>3
  <2>2. ASSUME Fetching(t), UNCHANGED <<tid[t], eidx[t]>>,
               pc'[t] # "fetch" => ref'[t] = tid[t]
        PROVE  /\ m_refar'[Home(tid'[t])] = eidx'[t]
               /\ pc'[t] # "fetch" => ref'[t] = tid'[t]
    <3>1. PICK i \in Ids : i = tid[t]
          BY <2>2 DEF Fetching
    <3>2. InPool(i) /\ m_refar[Home(i)] = eidx[t]
          BY <2>1, <2>2, <3>1 DEF HistoryInv
    <3>3. tid'[t] = i
          BY <2>2, <3>1
    <3>4. InPool(i)'
          BY <2>1, <3>3 DEF InPool, Visible, Taken
    <3>5. m_refar'[Home(i)] = m_refar[Home(i)]
          BY <3>2, <3>4, EntryStays
    <3> QED BY <2>2, <3>1, <3>2, <3>3, <3>5
  <2>3. CASE UNCHANGED <<pc[t], tid[t], ref[t], eidx[t]>>
    <3>1. Fetching(t)
          BY <1>3, <2>3 DEF Fetching
    <3> QED BY <2>1, <2>2, <2>3, <3>1 DEF HistoryInv
  <2>4. CASE ThreadStep(t)
    <3>1. CASE FetchLock(t)
      <4>1. pc[t] = "fetch" /\ UNCHANGED <<tid, eidx>> /\ ref'[t] = m_ar[Slot(eidx[t])]
            BY <3>1 DEF FetchLock
      <4>2. InPool(tid[t]) /\ m_refar[Home(tid[t])] = eidx[t]
            BY <2>1, <4>1 DEF HistoryInv, Fetching
      <4>3. ref'[t] = tid[t]
            BY <4>1, <4>2, IndicesOK DEF InPool, Visible, Indices
      <4> QED BY <2>1, <2>2, <4>1, <4>3 DEF Fetching
    <3>2. CASE FetchCount(t)
      <4>1. pc[t] = "copy" /\ pc'[t] = "check" /\ UNCHANGED <<tid, ref>>
            BY <3>2 DEF FetchCount, Goto
      <4> QED BY <1>3, <2>1, <4>1 DEF HistoryInv, Fetching
    <3>3. CASE \E i \in Ids : Fetch(t, i)
          BY <2>1, <3>3 DEF Fetch, Goto
    <3>4. CASE /\ ~FetchLock(t) /\ ~FetchCount(t)
               /\ ~(\E i \in Ids : Fetch(t, i))
      <4>1. pc'[t] \notin {"fetch", "copy", "check"}
            BY <2>4, <3>4
               DEF ThreadStep, New, Reserve, ReserveEntry, EntryInUse,
                   StartPlacing, Place, PlaceNext, PlaceFail, Created, FetchTake,
                   FetchMiss, Return, ReturnPlace, ReturnNext, ReturnFail, SetRef,
                   Drop, Leave, Goto
      <4> QED BY <1>3, <4>1 DEF Fetching
    <3> QED BY <3>1, <3>2, <3>3, <3>4
  <2>5. ASSUME NEW u \in Threads, ThreadStep(u), u # t
        PROVE  UNCHANGED <<pc[t], tid[t], ref[t], eidx[t]>>
        BY <2>5, OthersKept
  <2> QED BY <2>1, <2>3, <2>4, <2>5 DEF Step, Tick, Collect
<1>4. \A t \in Threads : absent'[t] => Fetching(t)'
      BY <1>2
<1> QED BY <1>1, <1>3, <1>4 DEF HistoryInv

(* Slots are filled under their mutex, and a checking thread holds it.     *)
LEMMA CheckedKept ==
    ASSUME StateInv, PoolInv, CheckedSlots, Step
    PROVE  CheckedSlots'
<1> USE IndicesOK DEF StateInv, StateTypes, LocalsOK, PoolInv, Indices
<1>1. ASSUME NEW s \in Slots
      PROVE  \/ m_ar'[s] \in {m_ar[s], NoTransaction}
             \/ mutex[Stripe(s)] = NoThread
  <2>1. CASE Tick
        BY <2>1 DEF Tick
  <2>2. CASE Collect
        BY <2>2 DEF Collect, ResetSlot
  <2>3. ASSUME NEW t \in Threads, ThreadStep(t)
        PROVE  \/ m_ar'[s] \in {m_ar[s], NoTransaction}
               \/ mutex[Stripe(s)] = NoThread
    <3>1. CASE Place(t) \/ ReturnPlace(t)
          BY <3>1 DEF Place, ReturnPlace, Lock, MutexFree
    <3>2. CASE FetchTake(t)
          BY <3>2 DEF FetchTake, ResetSlot
    <3>3. CASE ~Place(t) /\ ~ReturnPlace(t) /\ ~FetchTake(t)
          BY <2>3, <3>3
             DEF ThreadStep, New, Reserve, PlaceNext, PlaceFail, Created, Fetch,
                 FetchLock, FetchCount, FetchMiss, Return, ReturnNext, ReturnFail,
                 SetRef, Drop
    <3> QED BY <3>1, <3>2, <3>3
  <2> QED BY <2>1, <2>2, <2>3 DEF Step
<1>2. ASSUME NEW t \in Threads, pc'[t] = "check", ref'[t] = tid'[t]
      PROVE  eidx'[t] \in Slots /\ m_ar'[eidx'[t]] \in {NoTransaction, tid'[t]}
  <2>1. CASE UNCHANGED <<pc[t], tid[t], ref[t], eidx[t]>>
    <3>1. eidx[t] \in Slots /\ m_ar[eidx[t]] \in {NoTransaction, tid[t]}
          BY <1>2, <2>1 DEF CheckedSlots
    <3>2. mutex[Stripe(eidx[t])] = t
          BY <1>2, <2>1 DEF SectionsLocked
    <3> QED BY <1>1, <2>1, <3>1, <3>2
  <2>2. CASE ThreadStep(t)
    <3>1. FetchCount(t)
          BY <1>2, <2>2
             DEF ThreadStep, New, Reserve, ReserveEntry, EntryInUse, StartPlacing,
                 Place, PlaceNext, PlaceFail, Created, Fetch, FetchLock, FetchTake,
                 FetchMiss, Return, ReturnPlace, ReturnNext, ReturnFail, SetRef,
                 Drop, Leave, Goto
    <3>2. /\ pc[t] = "copy" /\ ref[t] = tid[t] /\ tid[t] \in Ids
          /\ UNCHANGED <<m_ar, tid, eidx>>
          BY <1>2, <3>1 DEF FetchCount
    <3>3. life[tid[t]] = "alive"
          BY <3>2 DEF ReferencesAlive
    <3>4. eidx[t] \in Slots
          BY <3>2, <3>3 DEF NoSlotReadIsDead
    <3> QED BY <3>2, <3>4 DEF CopiedInSlot
  <2>3. ASSUME NEW u \in Threads, ThreadStep(u), u # t
        PROVE  UNCHANGED <<pc[t], tid[t], ref[t], eidx[t]>>
        BY <2>3, OthersKept
  <2> QED BY <2>1, <2>2, <2>3 DEF Step, Tick, Collect
<1> QED BY <1>2 DEF CheckedSlots

(* StatusMeaning speaks of the pool's variables and holds in every state,  *)
(* stuttering keeps the rest.                                              *)
LEMMA RefinementInvariant ==
    ASSUME Regime
    PROVE  Spec => [](StateInv /\ PoolInv /\ StatusMeaning /\ HistoryInv /\ CheckedSlots)
<1>1. Spec => [](StateInv /\ PoolInv)
      BY PoolInvariant
<1>2. StateInv /\ PoolInv => StatusMeaning
      BY StatusMeant
<1>3. Init => HistoryInv /\ CheckedSlots
      BY DEF Init, HistoryInv, CheckedSlots, Fetching
<1>4. /\ StateInv /\ PoolInv /\ StatusMeaning /\ HistoryInv /\ CheckedSlots
      /\ StatusMeaning' /\ [Next]_vars
      => HistoryInv' /\ CheckedSlots'
  <2>1. CASE Next
        BY <2>1, HistoryKept, CheckedKept DEF Next
  <2>2. CASE UNCHANGED vars
        BY <2>2 DEF vars, HistoryInv, CheckedSlots, Fetching, InPool, Visible, Taken
  <2> QED BY <2>1, <2>2
<1> QED BY <1>1, <1>2, <1>3, <1>4, PTL DEF Spec

(* The pool does what transaction.hpp promises: seen by its users, each    *)
(* operation creates, takes, misses, gives back or expires a transaction   *)
(* at one moment between its call and its return, or changes nothing.      *)
THEOREM PoolImplementsRegistry == Regime => (Spec => ImplementsRegistry)
<1> SUFFICES ASSUME Regime PROVE Spec => ImplementsRegistry
    OBVIOUS
<1>1. Spec => [](StateInv /\ PoolInv /\ StatusMeaning /\ HistoryInv /\ CheckedSlots)
      BY RefinementInvariant
<1>2. Init => Registry!Init
  <2> SUFFICES ASSUME Init PROVE Registry!Init
      OBVIOUS
  <2>1. ASSUME NEW i \in Ids PROVE Status(i) = "unborn"
    <3>1. life[i] = "unborn" /\ (\A t \in Threads : ~Taken(i, t)) /\ ~InPool(i)
          BY IndicesOK DEF Init, Taken, InPool, Visible, Indices
    <3> DEFINE taken == \E t \in Threads : Taken(i, t)
    <3>2. Status(i) = CASE life[i] = "unborn" -> "unborn"
                        [] taken -> "taken"
                        [] InPool(i) -> "pooled"
                        [] OTHER -> "gone"
          BY DEF Status
    <3>3. ~taken
          BY <3>1
    <3> HIDE DEF taken
    <3> QED BY <3>1, <3>2, <3>3
  <2>2. ASSUME NEW t \in Threads PROVE Holder(t) = NoTransaction /\ Wanted(t) = NoTransaction
        BY DEF Init, Holder, Wanted, Taken, Fetching
  <2> QED BY <2>1, <2>2 DEF Init, Registry!Init
<1>3. /\ StateInv /\ PoolInv /\ StatusMeaning /\ HistoryInv /\ CheckedSlots
      /\ StatusMeaning' /\ [Next]_vars
      => [Registry!Next]_Registry!vars
  <2> SUFFICES ASSUME StateInv, PoolInv, StatusMeaning, HistoryInv, CheckedSlots,
                      StatusMeaning', [Next]_vars
               PROVE  [Registry!Next]_Registry!vars
      OBVIOUS
  <2>1. CASE Next
    <3>1. Registry!Step \/ Quiet
          BY <2>1, StepRefines DEF Next
    <3>2. Registry!Observe /\ (Quiet => absent' = absent)
          BY <2>1, ObserveRefines DEF Next
    <3>3. CASE Quiet
          BY <3>2, <3>3 DEF Quiet, Registry!vars
    <3> QED BY <3>1, <3>2, <3>3 DEF Registry!Next
  <2>2. CASE UNCHANGED vars
        BY <2>2 DEF vars, Registry!vars, Status, Holder, Wanted, InPool, Visible,
                    Taken, Fetching
  <2> QED BY <2>1, <2>2
<1> QED BY <1>1, <1>2, <1>3, PTL DEF Spec, ImplementsRegistry, Registry!Spec
-----------------------------------------------------------------------------
(* The calls of the pool end: in any regime.                               *)

(* A mutex that is taken is held by a thread inside its section; there a   *)
(* thread takes no other mutex.                                            *)
LocksHeld ==
    \A m \in Mutexes : mutex[m] # NoThread =>
        \E t \in Threads : /\ mutex[m] = t /\ Stripe(eidx[t]) = m
                           /\ pc[t] \in {"copy", "check", "setref"}

Points == <<"idle", "drop", "setref", "return", "own", "check", "copy", "fetch",
            "created", "place", "reserve">>
Point(p) == CHOOSE k \in DOMAIN Points : Points[k] = p

(* A thread in a call goes on to a later point of it, or has one try less. *)
CallCloser(t) ==
    \/ Point(pc'[t]) < Point(pc[t])
    \/ pc'[t] = pc[t] /\ cnt'[t] = cnt[t] - 1 /\ cnt'[t] >= 0

CallsCloser ==
    \A t \in Threads : pc[t] # "idle" =>
        (pc'[t] = pc[t] /\ cnt'[t] = cnt[t]) \/ CallCloser(t)

LEMMA PointOrder ==
    /\ Point("idle") = 1 /\ Point("drop") = 2 /\ Point("setref") = 3
    /\ Point("return") = 4 /\ Point("own") = 5 /\ Point("check") = 6
    /\ Point("copy") = 7 /\ Point("fetch") = 8 /\ Point("created") = 9
    /\ Point("place") = 10 /\ Point("reserve") = 11
BY DEF Point, Points

(* No mutex stays locked behind its thread: whoever waits for one waits    *)
(* for a thread in a section that waits for nothing itself (the            *)
(* unique_locks of fetchTransaction and returnTransaction), with either    *)
(* defect.                                                                 *)
THEOREM LocksAreHeld == Spec => []LocksHeld
<1>1. Init => LocksHeld
      BY DEF Init, LocksHeld
<1>2. StateInv /\ LocksHeld /\ [Next]_vars => LocksHeld'
  <2> SUFFICES ASSUME StateInv, LocksHeld, [Next]_vars,
                      NEW m \in Mutexes, mutex'[m] # NoThread
               PROVE  \E t \in Threads : /\ mutex'[m] = t /\ Stripe(eidx'[t]) = m
                                         /\ pc'[t] \in {"copy", "check", "setref"}
      BY DEF LocksHeld, Stripe, Slot
  <2> USE DEF StateInv, StateTypes, LocalsOK
  <2>1. CASE mutex'[m] = mutex[m]
    <3>1. PICK u \in Threads : /\ mutex[m] = u /\ Stripe(eidx[u]) = m
                               /\ pc[u] \in {"copy", "check", "setref"}
          BY <2>1 DEF LocksHeld
    <3>2. CASE UNCHANGED vars
          BY <3>1, <3>2, <2>1 DEF vars
    <3>3. ASSUME NEW t \in Threads, ThreadStep(t), t # u
          PROVE  pc'[u] = pc[u] /\ eidx'[u] = eidx[u]
          BY <3>3 DEF ThreadStep, New, Reserve, ReserveEntry, EntryInUse, StartPlacing,
                      Place, PlaceNext, PlaceFail, Created, Fetch, FetchLock, FetchCount,
                      FetchTake, FetchMiss, Return, ReturnPlace, ReturnNext, ReturnFail,
                      SetRef, Drop, Leave, Goto
    <3>4. CASE ThreadStep(u)
      <4>1. u # NoThread
            BY NoneAssumption
      <4>2. ~(FetchTake(u) \/ FetchMiss(u) \/ SetRef(u))
            BY <2>1, <3>1, <4>1 DEF FetchTake, FetchMiss, SetRef, Unlock
      <4>3. FetchCount(u)
            BY <3>1, <3>4, <4>2 DEF ThreadStep, New, Reserve, Place, PlaceNext, PlaceFail,
               Created, Fetch, FetchLock, Return, ReturnPlace, ReturnNext, ReturnFail, Drop
      <4> QED BY <2>1, <3>1, <4>3 DEF FetchCount, Goto
    <3>5. CASE Tick \/ Collect
          BY <3>1, <3>5, <2>1 DEF Tick, Collect
    <3> QED BY <3>1, <3>2, <3>3, <3>4, <3>5, <2>1, Zenon DEF Next, Step
  <2>2. CASE mutex'[m] # mutex[m]
    <3>1. PICK t \in Threads : FetchLock(t) \/ ReturnPlace(t)
          BY <2>2 DEF Next, Step, ThreadStep, New, Reserve, Place, PlaceNext, PlaceFail,
                      Created, Fetch, FetchCount, FetchTake, FetchMiss, Return,
                      ReturnNext, ReturnFail, SetRef, Drop, Tick, Collect, Unlock, vars
    <3>2. mutex'[m] = t /\ Stripe(eidx[t]) = m
          BY <2>2, <3>1 DEF FetchLock, ReturnPlace, Lock
    <3> QED BY <3>1, <3>2 DEF FetchLock, ReturnPlace, Goto
  <2> QED BY <2>1, <2>2
<1> QED BY <1>1, <1>2, StateCorrect, PTL DEF Spec

LEMMA ThreadCloser ==
    ASSUME StateInv, NEW t \in Threads, ThreadStep(t)
    PROVE  /\ \A u \in Threads \ {t} : pc'[u] = pc[u] /\ cnt'[u] = cnt[u]
           /\ pc[t] # "idle" => CallCloser(t)
<1> USE DEF StateInv, StateTypes, LocalsOK
<1>1. CASE New(t)
      BY <1>1 DEF New, Goto
<1>2. CASE Reserve(t)
  <2>1. PICK i \in Ids : ReserveEntry(t, i) \/ EntryInUse(t, i)
        BY <1>2 DEF Reserve
  <2>2. pc[t] = "reserve"
        BY <1>2 DEF Reserve
  <2>3. CASE EntryInUse(t, i) /\ cnt[t] > 0
        BY <2>2, <2>3, SizesAssumption DEF EntryInUse, CallCloser
  <2>4. CASE ReserveEntry(t, i) \/ ~(cnt[t] > 0)
        BY <2>1, <2>2, <2>4, PointOrder
        DEF ReserveEntry, EntryInUse, StartPlacing, Leave, Goto, CallCloser
  <2> QED BY <2>1, <2>3, <2>4
<1>3. CASE PlaceNext(t) \/ ReturnNext(t)
      BY <1>3, SizesAssumption DEF PlaceNext, ReturnNext, CallCloser
<1>4. CASE Place(t) \/ PlaceFail(t) \/ Created(t)
      BY <1>4, PointOrder DEF Place, PlaceFail, Created, Leave, Goto, CallCloser
<1>5. CASE \E i \in Ids : Fetch(t, i)
      BY <1>5 DEF Fetch, Goto
<1>6. CASE FetchLock(t) \/ FetchCount(t) \/ FetchTake(t) \/ FetchMiss(t)
      BY <1>6, PointOrder DEF FetchLock, FetchCount, FetchTake, FetchMiss, Leave, Goto, CallCloser
<1>7. CASE Return(t) \/ ReturnPlace(t) \/ ReturnFail(t)
      BY <1>7, PointOrder DEF Return, ReturnPlace, ReturnFail, Goto, CallCloser
<1>8. CASE SetRef(t) \/ Drop(t)
      BY <1>8, PointOrder DEF SetRef, Drop, Leave, Goto, CallCloser
<1> QED BY <1>1, <1>2, <1>3, <1>4, <1>5, <1>6, <1>7, <1>8 DEF ThreadStep

(* Every call on the pool comes to its end: no step of a call leads back   *)
(* in it, the loops have at most m_allocNofTries tries, and no step of     *)
(* another thread or of the sweep takes a thread back (newTransaction,     *)
(* fetchTransaction, returnTransaction), with either defect.               *)
THEOREM CallsComeCloser == Spec => [][CallsCloser]_vars
<1>1. StateInv /\ Next => CallsCloser
  <2> SUFFICES ASSUME StateInv, Next PROVE CallsCloser
      OBVIOUS
  <2>1. CASE Tick \/ Collect
        BY <2>1 DEF Tick, Collect, CallsCloser
  <2>2. ASSUME NEW t \in Threads, ThreadStep(t) PROVE CallsCloser
        BY <2>2, ThreadCloser, Zenon DEF CallsCloser
  <2> QED BY <2>1, <2>2 DEF Next, Step
<1> QED BY <1>1, StateCorrect, PTL DEF Spec

=============================================================================
