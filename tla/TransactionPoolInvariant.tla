---------------------- MODULE TransactionPoolInvariant ----------------------
(***************************************************************************)
(* The inductive strengthening of TransactionPool's safety properties.     *)
(* LocalsOK completes the types; the rest holds in the regime in which     *)
(* neither of the code's two defects shows: newTransaction finds a free    *)
(* entry in time, and no slot is reset in the middle of its copy.          *)
(***************************************************************************)
EXTENDS TransactionPool

Regime == ~RefsExhaustible /\ CopyAtomic

(* What the local variables of a thread are at each point of its calls.    *)
LocalsOK ==
    \A t \in Threads :
        /\ pc[t] \notin {"idle", "reserve"} => tid[t] \in Ids
        /\ pc[t] \in {"created", "own", "return", "setref", "drop"} => ref[t] \in Ids
        /\ pc[t] \in {"idle", "reserve", "place", "fetch"} => ref[t] = NoTransaction
        /\ pc[t] \in {"place", "return", "setref"} => eidx[t] \in Slots

StateInv == StateTypes /\ LocalsOK

(* A slot and a TransactionRef, counted or not, lead to a living object.   *)
ReferencesAlive ==
    /\ \A s \in Slots : m_ar[s] # NoTransaction => life[m_ar[s]] = "alive"
    /\ \A t \in Threads : ref[t] # NoTransaction => life[ref[t]] = "alive"

(* A transaction lies in at most one slot. *)
SlotsDistinct ==
    \A s, u \in Slots : m_ar[s] = m_ar[u] /\ m_ar[s] # NoTransaction => s = u

(* The entries of m_refar: a living transaction has one of its own, and so *)
(* has a creation that is placing its transaction.                         *)
EntriesOwned ==
    /\ \A i \in Ids : life[i] = "alive" => m_refar[Home(i)] \in Slots
    /\ \A i, j \in Ids :
          life[i] = "alive" /\ life[j] = "alive" /\ Home(i) = Home(j) => i = j
    /\ \A t \in Threads : pc[t] = "place" =>
          life[tid[t]] = "unborn" /\ m_refar[Home(tid[t])] = Reserved
    /\ \A t, u \in Threads :
          pc[t] = "place" /\ pc[u] = "place" /\ Home(tid[t]) = Home(tid[u]) => t = u

(* A fetch that has read -1 or INT_MAX looks for a destroyed transaction.  *)
NoSlotReadIsDead ==
    \A t \in Threads :
        pc[t] \in {"fetch", "copy", "check"} /\ eidx[t] \notin Slots
            => life[tid[t]] = "dead"

(* A pointer that is being copied is still in its slot. *)
CopiedInSlot ==
    \A t \in Threads :
        pc[t] = "copy" /\ ref[t] # NoTransaction => m_ar[Slot(eidx[t])] = ref[t]

(* Who is inside a section holds its mutex. *)
SectionsLocked ==
    \A t \in Threads :
        pc[t] \in {"copy", "check", "setref"} => mutex[Stripe(eidx[t])] = t

(* Thread t has transaction i, or is about to have it or to give it back.  *)
Claims(t, i) ==
    /\ ref[t] = i
    /\ \/ pc[t] \in {"own", "return", "setref"}
       \/ pc[t] \in {"copy", "check"} /\ tid[t] = i

(* One thread claims a transaction, and while it does the transaction can  *)
(* only lie in the slot whose mutex the thread holds.                      *)
ClaimsExclusive ==
    \A t \in Threads, i \in Ids : Claims(t, i) =>
        /\ \A u \in Threads : Claims(u, i) => u = t
        /\ \A s \in Slots : m_ar[s] = i =>
              pc[t] \notin {"own", "return"} /\ s = Slot(eidx[t])

(* The entry of a transaction in a slot names the slot or is about to.     *)
EntriesNameSlots ==
    \A s \in Slots, i \in Ids : m_ar[s] = i =>
        \/ m_refar[Home(i)] = s
        \/ \E t \in Threads : pc[t] = "setref" /\ ref[t] = i

(* An entry in use has a user, because the last turn is never reached.     *)
EntriesUsed ==
    /\ \A t \in Threads : pc[t] = "reserve" => cnt[t] > 0
    /\ NoEntryLeaked

PoolInv ==
    /\ ReferencesAlive /\ SlotsDistinct /\ EntriesOwned /\ NoSlotReadIsDead
    /\ CopiedInSlot /\ SectionsLocked /\ ClaimsExclusive /\ EntriesNameSlots
    /\ EntriesUsed
=============================================================================
