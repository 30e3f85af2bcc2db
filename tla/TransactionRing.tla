--------------------------- MODULE TransactionRing ---------------------------
(***************************************************************************)
(* The index arithmetic of TransactionPool (src/webrequest/                *)
(* transaction.cpp).  Time runs around a ring of m_arsize-1 positions,     *)
(* m_nofTransactionPerSlot positions per tick, while slots are taken       *)
(* modulo m_arsize, so that the last slot belongs to no position and is    *)
(* only reached by probing.                                                *)
(***************************************************************************)
EXTENDS Integers

CONSTANTS
    ArSize,      \* m_arsize
    NofPerSlot   \* m_nofTransactionPerSlot

ASSUME RingAssumption ==
    /\ ArSize \in Nat /\ ArSize > 1
    /\ NofPerSlot \in Nat \ {0}

Slots == 0 .. ArSize - 1

\* All that is used of a time: m_lasttick % (m_arsize-1).
Ticks == 0 .. ArSize - 2

\* The position where the sweep of a tick starts or ends.
RingStart(tick) == (tick * NofPerSlot) % (ArSize - 1)

\* Mutant: the idle time is not scaled to positions.
RingCandidateUnscaled(tick, idle) == (tick * NofPerSlot + idle) % (ArSize - 1)

\* The first position for an idle time that starts at tick.
RingCandidate(tick, idle) == ((tick + idle) * NofPerSlot) % (ArSize - 1)

\* Mutant: the id is added as it is and the sum not masked.
FirstSlotUnmasked(tick, idle, i) == RingCandidate(tick, idle) + i

\* The first slot that transaction i probes, and the one after slot e.
FirstSlot(tick, idle, i) == (RingCandidate(tick, idle) + (i % NofPerSlot)) % ArSize
NextSlot(e) == (e + 1) % ArSize

\* Mutant: a sweep that passes the end of the ring is taken for an empty one.
SweepEndUnwrapped(tick, now) == RingStart(now)

\* The end of the sweep from tick to now, a wrapped one counted past the ring.
SweepEnd(tick, now) ==
    IF RingStart(now) < RingStart(tick) THEN RingStart(now) + ArSize
    ELSE RingStart(now)
=============================================================================
