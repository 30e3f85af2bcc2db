---------------------- MODULE TransactionWindowProofs ----------------------
(***************************************************************************)
(* When transactions expire, proved for every size of the ring, number of  *)
(* slots per tick and idle time: the distance of a transaction's slot from *)
(* the sweep shrinks with its age, and is never more than the positions it *)
(* was placed ahead, nor less than its idle time as long as these are less *)
(* than a turn of the ring.                                                *)
(***************************************************************************)
EXTENDS TransactionWindow, TLAPS

M == ArSize - 1

\* The positions from p on to slot s, the last slot taken for one behind the turn.
Distance(s, p) == IF s >= p THEN s - p ELSE s + M - p

\* The inductive invariant.
WindowInv ==
    /\ TypeOK
    /\ slot # NoSlot =>
         LET distance == Distance(slot, RingStart(m_lasttick)) IN
         /\ age * NofPerSlot + distance <= ahead
         /\ ahead < M => idle * NofPerSlot <= age * NofPerSlot + distance
         /\ ahead < M /\ slot = M => idle * NofPerSlot < age * NofPerSlot + distance

-----------------------------------------------------------------------------
(* Remainders                                                              *)

\* Division with remainder.
LEMMA Division ==
    ASSUME NEW m \in Nat \ {0}, NEW a \in Int
    PROVE  a \div m \in Int /\ a % m \in 0 .. m - 1 /\ a = (a \div m) * m + (a % m)
OBVIOUS

\* The remainder is the only one.
LEMMA Remainder ==
    ASSUME NEW m \in Nat \ {0}, NEW q \in Int, NEW b \in 0 .. m - 1
    PROVE  (q * m + b) % m = b
OBVIOUS

\* A sum of two turns at most.
LEMMA OneTurn ==
    ASSUME NEW m \in Nat \ {0}, NEW a \in 0 .. 2 * m - 1
    PROVE  a % m = IF a < m THEN a ELSE a - m
OBVIOUS

\* The remainder of a term can be taken first.
LEMMA RemainderOfSum ==
    ASSUME NEW m \in Nat \ {0}, NEW a \in Int, NEW b \in Int
    PROVE  ((a % m) + b) % m = (a + b) % m
<1> DEFINE d == a \div m
           u == a % m
           e == (u + b) \div m
           v == (u + b) % m
<1>1. d \in Int /\ u \in Int /\ a = d * m + u
  BY Division
<1>2. u + b \in Int
  BY <1>1
<1>3. v \in 0 .. m - 1 /\ e \in Int /\ u + b = e * m + v
  BY <1>2, Division
<1> HIDE DEF d, u, e, v
<1>4. a + b = (d + e) * m + v /\ d + e \in Int
  BY <1>1, <1>3
<1>5. (a + b) % m = v
  BY <1>3, <1>4, Remainder
<1> QED
  BY <1>5 DEF u, v

\* The position of a tick moves by the slots per tick.
LEMMA Shift ==
    ASSUME NEW t \in Int, NEW g \in Int
    PROVE  /\ RingStart(t) \in 0 .. M - 1
           /\ RingStart((t + g) % M) = (RingStart(t) + g * NofPerSlot) % M
           /\ RingCandidate(t, g) = (RingStart(t) + g * NofPerSlot) % M
<1> DEFINE N == NofPerSlot
           m == M
<1>1. m \in Nat \ {0} /\ N \in Nat \ {0}
  BY RingAssumption DEF RingAssumption, M
<1>2. RingStart(t) = (t * N) % m /\ RingStart((t + g) % m) = (((t + g) % m) * N) % m
      /\ RingCandidate(t, g) = ((t + g) * N) % m
  BY DEF RingStart, RingCandidate, M
<1> HIDE DEF m, N
<1>3. (t * N) % m \in 0 .. m - 1
  BY <1>1, Division
<1>4. (t + g) * N = t * N + g * N
  BY <1>1
<1>5. ((t + g) * N) % m = (((t * N) % m) + g * N) % m
  <2>1. t * N \in Int /\ g * N \in Int
    BY <1>1
  <2> DEFINE a == t * N
             b == g * N
  <2>2. (t + g) * N = a + b
    BY <1>4
  <2>3. a \in Int /\ b \in Int
    BY <2>1
  <2> HIDE DEF a, b
  <2>4. ((a % m) + b) % m = (a + b) % m
    BY <1>1, <2>3, RemainderOfSum
  <2> QED
    BY <2>2, <2>4 DEF a, b
<1>6. (((t + g) % m) * N) % m = ((t + g) * N) % m
  <2> DEFINE a == t + g
             d == a \div m
             u == a % m
             v == (a * N) % m
             w == (a * N) \div m
  <2>1. a \in Int /\ d \in Int /\ u \in Int /\ a = d * m + u
    BY <1>1, Division
  <2>2. a * N \in Int
    BY <1>1, <2>1
  <2>3. v \in 0 .. m - 1 /\ w \in Int /\ a * N = w * m + v
    BY <1>1, <2>2, Division
  <2> HIDE DEF a, d, u, v, w
  <2>4. a * N = (d * N) * m + u * N
    BY <1>1, <2>1
  <2>5. u * N = (w - d * N) * m + v
    BY <1>1, <2>1, <2>3, <2>4
  <2>6. w - d * N \in Int
    BY <1>1, <2>1, <2>3
  <2>7. (u * N) % m = v
    BY <1>1, <2>3, <2>5, <2>6, Remainder
  <2> QED
    BY <2>7 DEF a, u, v
<1> QED
  BY <1>2, <1>3, <1>5, <1>6 DEF m, N

-----------------------------------------------------------------------------
(* Placing and sweeping                                                    *)

\* Where a transaction is placed.
LEMMA Placement ==
    ASSUME NEW t \in Ticks, NEW time \in Nat, NEW r \in 0 .. NofPerSlot - 1, NEW k \in Nat
    PROVE  LET s == (FirstSlot(t, time, r) + k) % ArSize
               distance == Distance(s, RingStart(t))
               far == time * NofPerSlot + r + k
           IN /\ s \in Slots /\ distance \in Nat
              /\ distance <= far
              /\ far < M => time * NofPerSlot <= distance
              /\ far < M /\ s = M => time * NofPerSlot < distance
<1> DEFINE p == RingStart(t)
           T == time * NofPerSlot
           c == RingCandidate(t, time)
           s == (FirstSlot(t, time, r) + k) % ArSize
           far == T + r + k
<1>1. ArSize \in Nat \ {0} /\ ArSize > 1 /\ M \in Nat \ {0} /\ M = ArSize - 1 /\ NofPerSlot \in Nat \ {0}
  BY RingAssumption DEF RingAssumption, M
<1>2. T \in Nat
  BY <1>1
<1>3. p \in 0 .. M - 1 /\ c = (p + T) % M
  BY <1>1, Shift DEF Ticks
<1>4. c \in 0 .. M - 1
  <2>1. p + T \in Int
    BY <1>1, <1>2, <1>3
  <2> QED
    BY <1>1, <1>3, <2>1, Division
<1>5. s = (c + r + k) % ArSize
  <2>1. r % NofPerSlot = r
    BY <1>1, OneTurn
  <2>2. s = (((c + r) % ArSize) + k) % ArSize
    BY <2>1 DEF FirstSlot
  <2>3. c + r \in Int /\ k \in Int
    BY <1>1, <1>4
  <2> HIDE DEF c, s
  <2>4. s = ((c + r) + k) % ArSize
    BY <1>1, <2>2, <2>3, RemainderOfSum
  <2> QED
    BY <2>4
<1> HIDE DEF p, T, c, s
<1>6. s \in Slots
  BY <1>1, <1>4, <1>5, Division DEF Slots
<1>7. Distance(s, p) \in 0 .. M
  BY <1>1, <1>3, <1>6 DEF Distance, Slots
<1>8. CASE far >= M
  BY <1>1, <1>2, <1>6, <1>7, <1>8 DEF s, p, T
<1>9. CASE far < M
  <2>1. c = IF p + T < M THEN p + T ELSE p + T - M
    <3>1. PICK x \in 0 .. 2 * M - 1 : x = p + T
      BY <1>1, <1>2, <1>3, <1>9
    <3>2. c = IF x < M THEN x ELSE x - M
      BY <1>1, <1>3, <3>1, OneTurn
    <3> QED
      BY <1>1, <1>2, <1>3, <3>1, <3>2
  <2>2. s = IF c + r + k < ArSize THEN c + r + k ELSE c + r + k - ArSize
    <3>1. PICK x \in 0 .. 2 * ArSize - 1 : x = c + r + k
      BY <1>1, <1>2, <1>4, <1>9
    <3>2. s = IF x < ArSize THEN x ELSE x - ArSize
      BY <1>1, <1>5, <3>1, OneTurn
    <3> QED
      BY <1>1, <1>2, <1>4, <1>5, <3>1, <3>2
  <2>3. /\ Distance(s, p) <= far /\ T <= Distance(s, p)
        /\ s = M => T < Distance(s, p)
    <3>1. CASE p + T < M
      BY <1>1, <1>2, <1>3, <1>9, <2>1, <2>2, <3>1 DEF Distance
    <3>2. CASE p + T >= M
      BY <1>1, <1>2, <1>3, <1>9, <2>1, <2>2, <3>2 DEF Distance
    <3> QED
      BY <1>2, <1>1, <1>3, <3>1, <3>2
  <2> QED
    BY <1>1, <1>6, <1>7, <1>9, <2>3 DEF s, p, T
<1> QED
  BY <1>1, <1>2, <1>8, <1>9

\* What a sweep takes is nearer than it goes, and what it leaves is farther.
LEMMA Sweeping ==
    ASSUME NEW t \in Ticks, NEW gap \in 1 .. MaxGap, NEW s \in Slots
    PROVE  LET distance == Distance(s, RingStart(t))
               step == gap * NofPerSlot
               now == (t + gap) % (ArSize - 1)
               swept == {x % ArSize : x \in RingStart(t) .. SweepEnd(t, now) - 1}
           IN /\ now \in Ticks /\ step \in Nat /\ distance \in Nat
              /\ s \in swept => distance < step \/ (s = M /\ distance <= step)
              /\ s \notin swept => Distance(s, RingStart(now)) = distance - step
<1> DEFINE p == RingStart(t)
           step == gap * NofPerSlot
           now == (t + gap) % (ArSize - 1)
           next == RingStart(now)
           end == SweepEnd(t, now)
<1>1. ArSize \in Nat \ {0} /\ ArSize > 1 /\ M \in Nat \ {0} /\ M = ArSize - 1 /\ NofPerSlot \in Nat \ {0}
      /\ MaxGap \in Nat \ {0} /\ MaxGap * NofPerSlot < M
  BY RingAssumption, WindowAssumption DEF RingAssumption, WindowAssumption, M
<1>2. step \in Nat /\ 0 < step /\ step < M
  BY <1>1
<1>3. now \in Ticks /\ t \in Int /\ gap \in Int
  BY <1>1, Division DEF Ticks
<1>4. p \in 0 .. M - 1 /\ next = (p + step) % M
  BY <1>1, <1>3, Shift DEF M
<1>5. next = IF p + step < M THEN p + step ELSE p + step - M
  <2>1. p + step \in 0 .. 2 * M - 1
    BY <1>1, <1>2, <1>4
  <2> QED
    BY <1>1, <1>4, <2>1, OneTurn
<1>6. end = IF next < p THEN next + ArSize ELSE next
  BY DEF SweepEnd
<1> HIDE DEF p, step, next, end, now
<1>7. s \in {x % ArSize : x \in p .. end - 1} <=> s \in p .. end - 1 \/ s + ArSize \in p .. end - 1
  <2>1. \A x \in p .. end - 1 : x % ArSize = IF x < ArSize THEN x ELSE x - ArSize
    <3>1. p \in 0 .. ArSize - 1 /\ end \in 0 .. 2 * ArSize
      BY <1>1, <1>2, <1>4, <1>5, <1>6
    <3> TAKE x \in p .. end - 1
    <3>2. x \in 0 .. 2 * ArSize - 1
      BY <1>1, <3>1
    <3> QED
      BY <1>1, <3>2, OneTurn
  <2>2. p \in Nat /\ end \in Nat
    BY <1>1, <1>2, <1>4, <1>5, <1>6
  <2>3. ASSUME s \in {x % ArSize : x \in p .. end - 1}
        PROVE  s \in p .. end - 1 \/ s + ArSize \in p .. end - 1
    <3>1. PICK x \in p .. end - 1 : s = x % ArSize
      BY <2>3
    <3>2. x % ArSize = IF x < ArSize THEN x ELSE x - ArSize
      BY <2>1
    <3>3. x \in Int
      BY <2>2
    <3>4. s = x \/ s + ArSize = x
      BY <1>1, <3>1, <3>2, <3>3
    <3> QED
      BY <3>4
  <2>4. ASSUME s \in p .. end - 1
        PROVE  s \in {x % ArSize : x \in p .. end - 1}
    <3>1. s % ArSize = s
      BY <1>1, <2>1, <2>4 DEF Slots
    <3> QED
      BY <2>4, <3>1
  <2>5. ASSUME s + ArSize \in p .. end - 1
        PROVE  s \in {x % ArSize : x \in p .. end - 1}
    <3>1. (s + ArSize) % ArSize = s
      BY <1>1, <2>1, <2>5 DEF Slots
    <3> QED
      BY <2>5, <3>1
  <2> QED
    BY <2>3, <2>4, <2>5
<1>8. Distance(s, p) \in Nat
  BY <1>1, <1>4 DEF Distance, Slots
<1>9. s \in p .. end - 1 \/ s + ArSize \in p .. end - 1
         => Distance(s, p) < step \/ (s = M /\ Distance(s, p) <= step)
  BY <1>1, <1>2, <1>4, <1>5, <1>6 DEF Distance, Slots
<1>10. ~ (s \in p .. end - 1 \/ s + ArSize \in p .. end - 1) => Distance(s, next) = Distance(s, p) - step
  BY <1>1, <1>2, <1>4, <1>5, <1>6 DEF Distance, Slots
<1> QED
  BY <1>2, <1>3, <1>7, <1>8, <1>9, <1>10 DEF p, step, next, end, now

-----------------------------------------------------------------------------
(* The invariant is kept by every step                                     *)

\* The types of a step are those of the state.
LEMMA TypeStep == TypeOK /\ [Next]_vars => TypeOK'
<1> SUFFICES ASSUME TypeOK, [Next]_vars
             PROVE  TypeOK'
  OBVIOUS
<1> USE DEF TypeOK
<1>1. ArSize \in Nat \ {0} /\ ArSize - 1 \in Nat \ {0} /\ NofPerSlot \in Nat \ {0} /\ PoolMaxIdle \in Nat \ {0}
      /\ Tries \in Nat /\ MaxGap \in Nat /\ Requested \subseteq Int
  BY RingAssumption, WindowAssumption DEF RingAssumption, WindowAssumption
<1>2. \A req \in Requested : IdleTime(req) \in 0 .. PoolMaxIdle
  BY <1>1 DEF IdleTime
<1>3. ASSUME NEW taken, NEW time \in 0 .. PoolMaxIdle, PlaceAt(time, taken), UNCHANGED <<m_lasttick, others>>
      PROVE  TypeOK'
  <2>1. PICK r \in 0 .. NofPerSlot - 1, k \in 0 .. Tries :
           /\ slot' = (FirstSlot(m_lasttick, time, r) + k) % ArSize
           /\ idle' = time /\ age' = 0
           /\ ahead' = time * NofPerSlot + r + k
    BY <1>3 DEF PlaceAt
  <2>2. slot' \in Slots
    BY <1>1, <2>1, Placement
  <2>3. time * NofPerSlot \in Nat
    BY <1>1
  <2>4. ahead' \in Nat
    BY <1>1, <2>1, <2>3
  <2> QED
    BY <1>1, <1>3, <2>1, <2>2, <2>4
<1>4. CASE Create
  BY <1>2, <1>3, <1>4 DEF Create
<1>5. CASE Touch
  BY <1>3, <1>5 DEF Touch
<1>6. CASE Dispose
  BY <1>1, <1>6 DEF Dispose, Vanish
<1>7. CASE OtherPlaced
  <2>1. PICK req \in Requested, r \in 0 .. NofPerSlot - 1, k \in 0 .. Tries :
           others' = others \cup {(FirstSlot(m_lasttick, IdleTime(req), r) + k) % ArSize}
    BY <1>7 DEF OtherPlaced
  <2>2. (FirstSlot(m_lasttick, IdleTime(req), r) + k) % ArSize \in Slots
    BY <1>1, <1>2, Placement
  <2> QED
    BY <1>7, <2>1, <2>2 DEF OtherPlaced
<1>8. CASE OtherFetched
  BY <1>8 DEF OtherFetched
<1>9. ASSUME NEW gap \in 1 .. MaxGap, Tick(gap)
      PROVE  TypeOK'
  <2>1. m_lasttick' \in Ticks
    <3>1. m_lasttick + gap \in Int
      BY <1>1 DEF Ticks
    <3> QED
      BY <1>1, <1>9, <3>1, Division DEF Tick, Ticks
  <2> QED
    BY <1>1, <1>9, <2>1 DEF Tick, Vanish
<1>10. CASE UNCHANGED vars
  BY <1>10 DEF vars
<1> QED
  BY <1>4, <1>5, <1>6, <1>7, <1>8, <1>9, <1>10 DEF Next

\* A transaction that is placed.
LEMMA PlaceStep ==
    ASSUME TypeOK, TypeOK', NEW taken, NEW time \in 0 .. PoolMaxIdle, PlaceAt(time, taken),
           UNCHANGED m_lasttick
    PROVE  WindowInv'
<1>1. PICK r \in 0 .. NofPerSlot - 1, k \in 0 .. Tries :
         /\ slot' = (FirstSlot(m_lasttick, time, r) + k) % ArSize
         /\ idle' = time /\ age' = 0
         /\ ahead' = time * NofPerSlot + r + k
  BY DEF PlaceAt
<1>2. time \in Nat /\ k \in Nat /\ m_lasttick \in Ticks
  BY WindowAssumption DEF WindowAssumption, TypeOK
<1> DEFINE distance == Distance(slot', RingStart(m_lasttick))
<1>3. /\ distance \in Nat /\ distance <= ahead'
      /\ ahead' < M => time * NofPerSlot <= distance
      /\ ahead' < M /\ slot' = M => time * NofPerSlot < distance
  BY <1>1, <1>2, Placement
<1>4. age' * NofPerSlot = 0
  BY <1>1, RingAssumption DEF RingAssumption
<1>5. Distance(slot', RingStart(m_lasttick')) = distance
  OBVIOUS
<1> HIDE DEF distance
<1> QED
  BY <1>1, <1>3, <1>4, <1>5 DEF WindowInv

\* A sweep that leaves the transaction where it is comes nearer by its steps.
LEMMA TickStep ==
    ASSUME WindowInv, TypeOK', NEW gap \in 1 .. MaxGap, Tick(gap)
    PROVE  WindowInv'
<1> DEFINE step == gap * NofPerSlot
           distance == Distance(slot, RingStart(m_lasttick))
<1>1. CASE slot = NoSlot \/ slot \in Swept(gap)
  <2>1. slot' = NoSlot
    BY <1>1 DEF Tick, Vanish
  <2> QED
    BY <2>1 DEF WindowInv
<1>2. CASE slot # NoSlot /\ slot \notin Swept(gap)
  <2>1. /\ m_lasttick' = (m_lasttick + gap) % (ArSize - 1)
        /\ age' = age + gap /\ UNCHANGED <<slot, idle, ahead>>
    BY <1>2 DEF Tick
  <2>2. m_lasttick \in Ticks /\ slot \in Slots /\ age \in Nat /\ ahead \in Nat /\ idle \in Nat
    BY <1>2, WindowAssumption DEF WindowInv, TypeOK, WindowAssumption
  <2>3. Distance(slot, RingStart(m_lasttick')) = distance - step /\ step \in Nat /\ distance \in Nat
    BY <1>2, <2>1, <2>2, Sweeping DEF Swept
  <2>4. age' * NofPerSlot = age * NofPerSlot + step /\ age * NofPerSlot \in Nat /\ idle * NofPerSlot \in Nat
    BY <2>1, <2>2, RingAssumption, WindowAssumption DEF RingAssumption, WindowAssumption
  <2>5. /\ age * NofPerSlot + distance <= ahead
        /\ ahead < M => idle * NofPerSlot <= age * NofPerSlot + distance
        /\ ahead < M /\ slot = M => idle * NofPerSlot < age * NofPerSlot + distance
    BY <1>2 DEF WindowInv
  <2> HIDE DEF step, distance
  <2>6. age' * NofPerSlot + (distance - step) = age * NofPerSlot + distance
    BY <2>3, <2>4
  <2>7. /\ age' * NofPerSlot + (distance - step) <= ahead'
        /\ ahead' < M => idle' * NofPerSlot <= age' * NofPerSlot + (distance - step)
        /\ ahead' < M /\ slot' = M => idle' * NofPerSlot < age' * NofPerSlot + (distance - step)
    BY <2>1, <2>5, <2>6
  <2>8. Distance(slot', RingStart(m_lasttick')) = distance - step
    BY <2>1, <2>3
  <2> QED
    BY <2>7, <2>8 DEF WindowInv
<1> QED
  BY <1>1, <1>2

\* The inductive invariant holds for every ring (TransactionPool::collectGarbage,
\* newTransaction, returnTransaction).
THEOREM WindowInvariant == Spec => []WindowInv
<1>1. Init => WindowInv
  BY RingAssumption, WindowAssumption
  DEF Init, WindowInv, TypeOK, RingAssumption, WindowAssumption, Ticks, Slots
<1>2. WindowInv /\ [Next]_vars => WindowInv'
  <2> SUFFICES ASSUME WindowInv, [Next]_vars
               PROVE  WindowInv'
    OBVIOUS
  <2>1. TypeOK /\ TypeOK'
    BY TypeStep DEF WindowInv
  <2>2. \A req \in Requested : IdleTime(req) \in 0 .. PoolMaxIdle
    BY WindowAssumption DEF WindowAssumption, IdleTime
  <2>3. CASE Create
    BY <2>1, <2>2, <2>3, PlaceStep DEF Create
  <2>4. CASE Touch
    BY <2>1, <2>4, PlaceStep DEF Touch, TypeOK
  <2>5. CASE Dispose
    BY <2>1, <2>5 DEF Dispose, Vanish, WindowInv
  <2>6. CASE OtherPlaced \/ OtherFetched \/ UNCHANGED vars
    <3>1. UNCHANGED <<m_lasttick, slot, idle, age, ahead>>
      BY <2>6 DEF OtherPlaced, OtherFetched, vars
    <3> QED
      BY <2>1, <3>1 DEF WindowInv
  <2>7. ASSUME NEW gap \in 1 .. MaxGap, Tick(gap)
        PROVE  WindowInv'
    BY <2>1, <2>7, TickStep
  <2> QED
    BY <2>3, <2>4, <2>5, <2>6, <2>7 DEF Next
<1> QED
  BY <1>1, <1>2, PTL DEF Spec

\* What a sweep leaves is no older than the distance it was placed at: an
\* untouched transaction expires (TransactionPool::collectGarbage).
THEOREM OverdueIsCollected == Spec => []Expired
<1>1. WindowInv => Expired
  <2> SUFFICES ASSUME WindowInv, slot # NoSlot
               PROVE  age * NofPerSlot <= ahead
    BY DEF Expired
  <2> DEFINE p == RingStart(m_lasttick)
             distance == Distance(slot, p)
  <2>1. m_lasttick \in Int /\ slot \in Slots /\ age \in Nat /\ ahead \in Nat
    BY RingAssumption DEF WindowInv, TypeOK, Ticks, RingAssumption
  <2>2. p \in 0 .. M - 1
    BY <2>1, Shift
  <2>3. distance \in Nat
    BY <2>1, <2>2, RingAssumption DEF Distance, Slots, M, RingAssumption
  <2>4. age * NofPerSlot + distance <= ahead
    BY DEF WindowInv
  <2>5. age * NofPerSlot \in Nat
    BY <2>1, RingAssumption DEF RingAssumption
  <2> HIDE DEF distance
  <2> QED
    BY <2>1, <2>3, <2>4, <2>5
<1> QED
  BY <1>1, WindowInvariant, PTL

\* A transaction placed less than a turn ahead is not swept before its idle time
\* is over, however late the sweep comes and whatever slots others hold.
THEOREM IdleTimeIsGranted == Spec => IdleTimeGrantedWithinTurn
<1>1. WindowInv => \A gap \in 1 .. MaxGap : Expires(gap) /\ ahead < ArSize - 1 => age + gap > idle
  <2> SUFFICES ASSUME WindowInv, NEW gap \in 1 .. MaxGap, Expires(gap), ahead < ArSize - 1
               PROVE  age + gap > idle
    OBVIOUS
  <2> DEFINE step == gap * NofPerSlot
             distance == Distance(slot, RingStart(m_lasttick))
  <2>1. m_lasttick \in Ticks /\ slot \in Slots /\ age \in Nat /\ idle \in Nat /\ gap \in Nat /\ NofPerSlot \in Nat \ {0}
    BY RingAssumption, WindowAssumption DEF WindowInv, TypeOK, Expires, RingAssumption, WindowAssumption
  <2>2. step \in Nat /\ distance \in Nat /\ (distance < step \/ (slot = M /\ distance <= step))
    BY <2>1, Sweeping DEF Expires, Swept
  <2>3. /\ idle * NofPerSlot <= age * NofPerSlot + distance
        /\ slot = M => idle * NofPerSlot < age * NofPerSlot + distance
    BY DEF WindowInv, Expires, M
  <2>4. age * NofPerSlot \in Nat /\ idle * NofPerSlot \in Nat
    BY <2>1
  <2>5. idle * NofPerSlot < age * NofPerSlot + step
    <3> HIDE DEF step, distance
    <3> QED
      BY <2>2, <2>3, <2>4
  <2>6. idle * NofPerSlot < (age + gap) * NofPerSlot
    BY <2>1, <2>5
  <2>7. idle >= age + gap => idle * NofPerSlot >= (age + gap) * NofPerSlot
    BY <2>1
  <2> QED
    BY <2>1, <2>6, <2>7
<1> QED
  BY <1>1, WindowInvariant, PTL DEF IdleTimeGrantedWithinTurn
=============================================================================
