-------------------------- MODULE CurlEventLoopProofs --------------------------
(***************************************************************************)
(* The safety of the event loop, proved for any number of delegate         *)
(* requests, any size of the pipe, any number of events between two ticks  *)
(* and any number of restarts.  The inductive invariant says where each    *)
(* request is at each point of its sending.  Every round of the loop ends, *)
(* with a tick or an event counted towards one.                            *)
(***************************************************************************)
EXTENDS CurlEventLoop, FiniteSetTheorems, TLAPS

(* The types of what the threads keep; the range of answers follows from   *)
(* the places.                                                             *)
LoopTypes ==
    /\ m_thread \in BOOLEAN /\ m_terminate \in BOOLEAN
    /\ m_waitingList \in Seq(Jobs) /\ m_activatedMap \subseteq Jobs
    /\ m_requestCount \in 0 .. NumberOfRequests - 1
    /\ pipe \in 0 .. PipeSize
    /\ loop \in {"none", "test", "activate", "perform", "read", "listen",
                 "terminate", "ended"}
    /\ owner \in {"stopped", "starting", "started", "join"}
    /\ starts \in 0 .. Restarts + 1
    /\ sender \in [Jobs -> {"new", "push", "refuse", "refused", "notify", "sent"}]
    /\ curl \in [Jobs -> {"idle", "running", "arrived", "message"}]
    /\ msgLeft \in BOOLEAN /\ msgCount \in BOOLEAN /\ ticks \in {0, 1}
    /\ answers \in [Jobs -> {0, 1}]
    /\ deleted \subseteq Jobs

Waits(j) == \E i \in DOMAIN m_waitingList : m_waitingList[i] = j

(* A request that is not pushed is nowhere; it is answered once the send   *)
(* has refused it.                                                         *)
Outside ==
    \A j \in Jobs : ~Pushed(j) =>
        /\ ~Waits(j) /\ j \notin m_activatedMap
        /\ answers[j] = 1 <=> sender[j] = "refused"

(* A request that is pushed is in one place.                               *)
Inside ==
    \A j \in Jobs : Pushed(j) =>
        /\ Waits(j) => j \notin m_activatedMap /\ answers[j] = 0
        /\ j \in m_activatedMap => answers[j] = 0
        /\ answers[j] = 0 => Waits(j) \/ j \in m_activatedMap
        /\ j \in deleted <=> answers[j] = 1

(* It waits once.                                                          *)
WaitsOnce ==
    \A i, k \in DOMAIN m_waitingList : m_waitingList[i] = m_waitingList[k] => i = k

(* Libcurl works on the requests of the map; a receiver that is deleted    *)
(* before a refusal answers it was deleted by a job not built to its end.  *)
Handled ==
    /\ \A j \in Jobs : curl[j] # "idle" <=> j \in m_activatedMap
    /\ \A j \in Jobs : sender[j] \in {"new", "push"} => j \notin deleted

(* A loop that is not running has nothing with libcurl, and the owner sees *)
(* an ended loop only after it has asked for the end.                      *)
Stopped == loop \in {"none", "ended"} => m_activatedMap = {}

LoopInv == LoopTypes /\ Outside /\ Inside /\ WaitsOnce /\ Handled /\ Stopped

LEMMA InitLoop == Init => LoopInv
<1> SUFFICES ASSUME Init PROVE LoopInv
    OBVIOUS
<1>1. m_waitingList \in Seq(Jobs) /\ DOMAIN m_waitingList = {}
      BY DEF Init
<1>2. LoopTypes
  <2>1. /\ m_requestCount \in 0 .. NumberOfRequests - 1 /\ pipe \in 0 .. PipeSize
        /\ starts \in 0 .. Restarts + 1
        BY LoopAssumption DEF Init
  <2>2. /\ sender \in [Jobs -> {"new", "push", "refuse", "refused", "notify", "sent"}]
        /\ curl \in [Jobs -> {"idle", "running", "arrived", "message"}]
        /\ answers \in [Jobs -> {0, 1}]
        BY DEF Init
  <2> QED BY <1>1, <2>1, <2>2 DEF Init, LoopTypes
<1>3. Outside /\ Inside /\ WaitsOnce /\ Handled /\ Stopped
      BY <1>1 DEF Init, Outside, Inside, WaitsOnce, Handled, Stopped, Waits, Pushed
<1> QED BY <1>2, <1>3 DEF LoopInv

(* Steps that neither move a request nor answer one.                       *)
LEMMA QuietStepsKeep ==
    ASSUME LoopInv,
           Start \/ Started \/ Stop \/ Join \/ Test \/ ReadEnds \/ Wakeup \/ Timeout
    PROVE  LoopInv'
<1> USE LoopAssumption DEF LoopInv
<1>1. LoopTypes'
  <2>1. CASE Start
    <3>1. starts' \in 0 .. Restarts + 1
          BY <2>1 DEF LoopTypes, Start
    <3> QED BY <2>1, <3>1 DEF LoopTypes, Start, sharedVars, loopVars
  <2>4. CASE Started \/ Join
        BY <2>4 DEF LoopTypes, Started, Join, loopVars
  <2>5. CASE Test
        BY <2>5 DEF LoopTypes, Test, sharedVars, loopVars
  <2>6. CASE ReadEnds
        BY <2>6 DEF LoopTypes, ReadEnds, sharedVars
  <2>2. CASE Stop
    <3>1. pipe' \in 0 .. PipeSize
          BY <2>2 DEF LoopTypes, Stop, Notify
    <3> QED BY <2>2, <3>1 DEF LoopTypes, Stop, loopVars
  <2>3. CASE Wakeup \/ Timeout
    <3>1. m_requestCount' \in 0 .. NumberOfRequests - 1 /\ ticks' \in {0, 1}
          BY <2>3 DEF LoopTypes, Wakeup, Timeout, CheckTick, Tick
    <3> QED BY <2>3, <3>1 DEF LoopTypes, Wakeup, Timeout, sharedVars
  <2> QED BY <2>1, <2>2, <2>3, <2>4, <2>5, <2>6
<1>2. Outside' /\ Inside' /\ WaitsOnce' /\ Handled' /\ Stopped'
      BY DEF Start, Started, Stop, Join, Test, ReadEnds, Wakeup, Timeout,
             sharedVars, loopVars, Outside, Inside, WaitsOnce, Handled, Stopped,
             Waits, Pushed
<1> QED BY <1>1, <1>2

LEMMA SendKeeps ==
    ASSUME LoopInv, NEW j \in Jobs,
           SendCheck(j) \/ SendThrow(j) \/ SendRefuse(j) \/ SendNotify(j) \/ Renew(j)
    PROVE  LoopInv'
<1> USE LoopAssumption DEF LoopInv
<1>1. LoopTypes'
      BY DEF LoopTypes, Outside, SendCheck, SendThrow, SendRefuse, SendNotify, Renew,
             At, PutAnswers, Notify, Pushed, sharedVars, loopVars
<1>2. Outside' /\ Inside' /\ WaitsOnce' /\ Handled' /\ Stopped'
      BY DEF LoopTypes, SendCheck, SendThrow, SendRefuse, SendNotify, Renew,
             At, PutAnswers, sharedVars, loopVars, Outside, Inside, WaitsOnce,
             Handled, Stopped, Waits, Pushed
<1> QED BY <1>1, <1>2

LEMMA PushKeeps ==
    ASSUME LoopInv, NEW j \in Jobs, SendPush(j)
    PROVE  LoopInv'
<1> USE LoopAssumption DEF LoopInv
<1> DEFINE n == Len(m_waitingList)
<1>1. /\ sender[j] = "push" /\ sender' = [sender EXCEPT ![j] = "notify"]
      /\ m_waitingList' = Append(m_waitingList, j)
      /\ UNCHANGED <<m_activatedMap, curl, answers, deleted, loop>>
      BY DEF SendPush, At, loopVars
<1>2. /\ n \in Nat /\ DOMAIN m_waitingList = 1..n /\ DOMAIN m_waitingList' = 1..(n + 1)
      /\ \A i \in 1..n : m_waitingList'[i] = m_waitingList[i]
      /\ m_waitingList'[n + 1] = j /\ m_waitingList' \in Seq(Jobs)
      BY <1>1 DEF LoopTypes
<1>3. LoopTypes'
      BY <1>2 DEF LoopTypes, SendPush, At, loopVars
<1>4. ~Waits(j) /\ j \notin m_activatedMap /\ answers[j] = 0 /\ j \notin deleted
      BY <1>1 DEF LoopTypes, Outside, Handled, Pushed
<1>5. \A k \in Jobs \ {j} : Waits(k)' <=> Waits(k)
      BY <1>2 DEF Waits
<1>6. Waits(j)'
      BY <1>2 DEF Waits
<1>7. WaitsOnce'
      BY <1>2, <1>4 DEF WaitsOnce, Waits
<1>8. Outside' /\ Inside'
      BY <1>1, <1>4, <1>5, <1>6 DEF LoopTypes, Outside, Inside, Pushed
<1>9. Handled' /\ Stopped'
      BY <1>1 DEF LoopTypes, Handled, Stopped
<1> QED BY <1>3, <1>7, <1>8, <1>9

LEMMA CurlKeeps ==
    ASSUME LoopInv, Perform \/ \E j \in Jobs : TransferEnds(j)
    PROVE  LoopInv'
<1> USE LoopAssumption DEF LoopInv
<1>1. LoopTypes'
  <2>1. curl' \in [Jobs -> {"idle", "running", "arrived", "message"}]
        BY DEF LoopTypes, Perform, TransferEnds
  <2>2. CASE Perform
        BY <2>1, <2>2 DEF LoopTypes, Perform, sharedVars
  <2>3. CASE \E j \in Jobs : TransferEnds(j)
        BY <2>1, <2>3 DEF LoopTypes, TransferEnds, sharedVars, loopVars
  <2> QED BY <2>2, <2>3
<1>2. Outside' /\ Inside' /\ WaitsOnce' /\ Handled' /\ Stopped'
      BY DEF LoopTypes, Perform, TransferEnds, sharedVars, loopVars, Outside, Inside,
             WaitsOnce, Handled, Stopped, Waits, Pushed
<1> QED BY <1>1, <1>2

LEMMA ReadKeeps ==
    ASSUME LoopInv, NEW j \in Jobs, ReadMessage(j)
    PROVE  LoopInv'
<1> USE LoopAssumption DEF LoopInv
<1>1. /\ j \in m_activatedMap /\ m_activatedMap' = m_activatedMap \ {j}
      /\ curl' = [curl EXCEPT ![j] = "idle"]
      /\ answers' = [k \in Jobs |-> IF k \in {j} THEN answers[k] + 1 ELSE answers[k]]
      /\ deleted' = deleted \cup {j}
      /\ UNCHANGED <<m_waitingList, sender, loop>>
      BY DEF ReadMessage, PutAnswers, sharedVars
<1>2. Pushed(j) /\ answers[j] = 0
      BY <1>1 DEF Outside, Inside
<1>3. answers' = [answers EXCEPT ![j] = 1]
  <2>1. answers' = [k \in Jobs |-> IF k = j THEN 1 ELSE answers[k]]
        BY <1>1, <1>2
  <2> QED BY <2>1 DEF LoopTypes
<1>4. LoopTypes'
      BY <1>1, <1>3 DEF LoopTypes, ReadMessage, sharedVars
<1>5. Outside' /\ Inside' /\ WaitsOnce'
      BY <1>1, <1>2, <1>3 DEF LoopTypes, Outside, Inside, WaitsOnce, Waits, Pushed
<1>6. Handled' /\ Stopped'
      BY <1>1, <1>2 DEF LoopTypes, Handled, Stopped, Pushed
<1> QED BY <1>4, <1>5, <1>6

(* Activation and termination answer or activate a set of requests.        *)
LEMMA ActivateKeeps ==
    ASSUME LoopInv, ActivateIdleJobs
    PROVE  LoopInv'
<1> USE LoopAssumption DEF LoopInv
<1>1. \A j : j \in ToSet(m_waitingList) <=> Waits(j)
      BY DEF ToSet, Waits
<1>2. PICK rejected \in SUBSET ToSet(m_waitingList) :
          LET accepted == ToSet(m_waitingList) \ rejected
          IN /\ PutAnswers(rejected)
             /\ m_activatedMap' = m_activatedMap \cup accepted
             /\ curl' = [j \in Jobs |-> IF j \in accepted THEN "running" ELSE curl[j]]
             /\ deleted' = deleted \cup rejected
      BY DEF ActivateIdleJobs, Activation
<1> DEFINE accepted == ToSet(m_waitingList) \ rejected
<1>3. /\ \A j : Waits(j) <=> j \in accepted \/ j \in rejected
      /\ \A j \in accepted : j \notin rejected
      BY <1>1
<1>4. /\ answers' = [j \in Jobs |-> IF j \in rejected THEN answers[j] + 1 ELSE answers[j]]
      /\ m_activatedMap' = m_activatedMap \cup accepted
      /\ curl' = [j \in Jobs |-> IF j \in accepted THEN "running" ELSE curl[j]]
      /\ deleted' = deleted \cup rejected
      /\ m_waitingList' = <<>> /\ loop' = "perform" /\ msgLeft' = TRUE
      /\ UNCHANGED <<sender, m_thread, m_terminate, pipe, m_requestCount, msgCount,
                     ticks, owner, starts>>
      BY <1>2 DEF ActivateIdleJobs, PutAnswers
<1> HIDE DEF accepted
<1>5. \A j : Waits(j) => j \in Jobs
      BY DEF LoopTypes, Waits
<1>6. \A j \in Jobs : Waits(j) =>
          Pushed(j) /\ answers[j] = 0 /\ j \notin m_activatedMap /\ j \notin deleted
      BY DEF Outside, Inside
<1>7. answers' = [j \in Jobs |-> IF j \in rejected THEN 1 ELSE answers[j]]
      BY <1>3, <1>4, <1>6 DEF LoopTypes
<1>8. m_waitingList' \in Seq(Jobs) /\ DOMAIN m_waitingList' = {}
      BY <1>4
<1>9. LoopTypes'
      BY <1>3, <1>4, <1>5, <1>7, <1>8 DEF LoopTypes
<1>10. \A j : ~Waits(j)'
      BY <1>8 DEF Waits
<1>11. Outside' /\ Inside'
      BY <1>3, <1>4, <1>6, <1>7, <1>10 DEF LoopTypes, Outside, Inside, Pushed
<1>12. WaitsOnce' /\ Stopped'
      BY <1>4, <1>8 DEF WaitsOnce, Stopped
<1>13. Handled'
      BY <1>3, <1>4, <1>6 DEF LoopTypes, Handled, Pushed
<1> QED BY <1>9, <1>11, <1>12, <1>13

LEMMA TerminateKeeps ==
    ASSUME LoopInv, TerminatePending
    PROVE  LoopInv'
<1> USE LoopAssumption DEF LoopInv
<1>1. \A j \in m_activatedMap : j \in Jobs /\ Pushed(j) /\ answers[j] = 0
      BY DEF LoopTypes, Outside, Inside
<1>2. answers' = [j \in Jobs |-> IF j \in m_activatedMap THEN 1 ELSE answers[j]]
      BY <1>1 DEF LoopTypes, TerminatePending, PutAnswers
<1>3. LoopTypes'
      BY <1>2 DEF LoopTypes, TerminatePending, sharedVars
<1>4. Outside' /\ Inside' /\ WaitsOnce'
      BY <1>1, <1>2 DEF LoopTypes, TerminatePending, sharedVars, Outside, Inside, WaitsOnce, Waits,
         Pushed
<1>5. Handled' /\ Stopped'
      BY <1>1 DEF LoopTypes, TerminatePending, Handled, Stopped, Pushed
<1> QED BY <1>3, <1>4, <1>5

LEMMA UnchangedKeeps == LoopInv /\ UNCHANGED vars => LoopInv'
BY DEF vars, sharedVars, loopVars, LoopInv, LoopTypes, Outside, Inside, WaitsOnce,
       Handled, Stopped, Waits, Pushed

LEMMA NextKeeps == LoopInv /\ [Next]_vars => LoopInv'
<1> SUFFICES ASSUME LoopInv, [Next]_vars PROVE LoopInv'
    OBVIOUS
<1>1. CASE UNCHANGED vars
      BY <1>1, UnchangedKeeps
<1>2. ASSUME NEW j \in Jobs, Send(j) PROVE LoopInv'
      BY <1>2, SendKeeps, PushKeeps DEF Send
<1>3. ASSUME NEW j \in Jobs, TransferEnds(j) PROVE LoopInv'
      BY <1>3, CurlKeeps
<1>4. CASE Owner
      BY <1>4, QuietStepsKeep DEF Owner
<1>5. CASE Loop
  <2>1. CASE Test \/ ReadEnds \/ Wakeup \/ Timeout
        BY <2>1, QuietStepsKeep
  <2>2. CASE Perform
        BY <2>2, CurlKeeps
  <2> QED BY <1>5, <2>1, <2>2, ReadKeeps, ActivateKeeps, TerminateKeeps DEF Loop
<1> QED BY <1>1, <1>2, <1>3, <1>4, <1>5 DEF Next

(* Where each request is, in every state of the loop.                      *)
THEOREM LoopInvariant == Spec => []LoopInv
<1>1. Init => LoopInv
      BY InitLoop
<1>2. LoopInv /\ [Next]_vars => LoopInv'
      BY NextKeeps
<1> QED BY <1>1, <1>2, PTL DEF Spec

(* The state of the loop keeps its types; no receiver is answered more     *)
(* than once.                                                              *)
THEOREM LoopTypeCorrect == Spec => []TypeOK
<1>1. LoopInv => TypeOK
      BY DEF LoopInv, LoopTypes, TypeOK
<1> QED BY <1>1, LoopInvariant, PTL

(* A request that was pushed waits, is with libcurl, or has been answered, *)
(* and is never in two of these places (processEvents, activateIdleJobs,   *)
(* terminatePendingRequests).                                              *)
THEOREM RequestsAccounted == Spec => []JobsAccounted
<1>1. LoopInv => JobsAccounted
  <2> SUFFICES ASSUME LoopInv, NEW j \in Jobs, Pushed(j)
               PROVE  LET waits == Cardinality({i \in DOMAIN m_waitingList : m_waitingList[i] = j})
                          active == IF j \in m_activatedMap THEN 1 ELSE 0
                      IN /\ waits + active + answers[j] = 1
                         /\ curl[j] # "idle" <=> active = 1
                         /\ j \in deleted <=> answers[j] = 1
      BY DEF JobsAccounted
  <2> USE DEF LoopInv
  <2> DEFINE places == {i \in DOMAIN m_waitingList : m_waitingList[i] = j}
  <2>1. Cardinality(places) = IF Waits(j) THEN 1 ELSE 0
    <3>1. CASE Waits(j)
      <4>1. PICK i \in DOMAIN m_waitingList : m_waitingList[i] = j
            BY <3>1 DEF Waits
      <4>2. places = {i}
            BY <4>1 DEF WaitsOnce
      <4> QED BY <3>1, <4>2, FS_Singleton
    <3>2. CASE ~Waits(j)
      <4>1. places = {}
            BY <3>2 DEF Waits
      <4> QED BY <3>2, <4>1, FS_EmptySet
    <3> QED BY <3>1, <3>2
  <2> HIDE DEF places
  <2>2. answers[j] \in {0, 1}
        BY DEF LoopTypes
  <2>3. Cardinality(places) + (IF j \in m_activatedMap THEN 1 ELSE 0) + answers[j] = 1
        BY <2>1, <2>2 DEF Inside
  <2>4. /\ curl[j] # "idle" <=> (IF j \in m_activatedMap THEN 1 ELSE 0) = 1
        /\ j \in deleted <=> answers[j] = 1
        BY DEF Inside, Handled
  <2> QED BY <2>3, <2>4 DEF places
<1> QED BY <1>1, LoopInvariant, PTL

(* When stop returns, the requests the loop had taken up are answered.     *)
THEOREM StopAnswersTakenUp == Spec => StopAnswersActive
<1>1. LoopInv /\ [Next]_vars =>
        [m_thread /\ ~m_thread' =>
           \A j \in Jobs : Pushed(j) /\ answers[j] = 0 => j \in ToSet(m_waitingList)]_vars
  <2> SUFFICES ASSUME LoopInv, Next, m_thread, ~m_thread',
                      NEW j \in Jobs, Pushed(j), answers[j] = 0
               PROVE  j \in ToSet(m_waitingList)
      OBVIOUS
  <2>1. Join
        BY DEF Next, Send, SendCheck, SendPush, SendThrow, SendRefuse, SendNotify,
           Renew, TransferEnds, Owner, Start, Started, Stop, Loop, Test,
           ActivateIdleJobs, Perform, ReadMessage, ReadEnds, Wakeup, Timeout,
           TerminatePending, sharedVars
  <2>2. m_activatedMap = {}
        BY <2>1 DEF Join, LoopInv, Stopped
  <2>3. Waits(j)
        BY <2>2 DEF LoopInv, Inside
  <2> QED BY <2>3 DEF Waits, ToSet
<1> QED BY <1>1, LoopInvariant, PTL DEF Spec, StopAnswersActive

-----------------------------------------------------------------------------
(* The steps of the loop are steps of the queue.                           *)

QueueSafety == Queue!Init /\ [][Queue!Next]_Queue!vars

(* What a step does to the requests and to the loop seen from outside.     *)
Kept == \A j \in Jobs : RequestState(j)' = RequestState(j)
Becomes(j, state) ==
    /\ RequestState(j)' = state
    /\ \A k \in Jobs \ {j} : RequestState(k)' = RequestState(k)

LEMMA SendIsQueueStep ==
    ASSUME LoopInv, NEW j \in Jobs, Send(j)
    PROVE  [Queue!Next]_Queue!vars
<1> USE DEF LoopInv
<1>1. \A k \in Jobs \ {j} : sender'[k] = sender[k] /\ answers'[k] = answers[k]
      BY DEF LoopTypes, Send, SendCheck, SendPush, SendThrow, SendRefuse, SendNotify,
         Renew, At, PutAnswers
<1>2. \A k \in Jobs \ {j} : RequestState(k)' = RequestState(k)
      BY <1>1 DEF RequestState, Pushed
<1>3. (owner = "started")' = (owner = "started")
      BY DEF Send, SendCheck, SendPush, SendThrow, SendRefuse, SendNotify, Renew
<1>4. CASE SendCheck(j) \/ SendThrow(j) \/ SendNotify(j)
  <2>1. RequestState(j)' = RequestState(j)
        BY <1>4 DEF LoopTypes, SendCheck, SendThrow, SendNotify, At, RequestState, Pushed
  <2> QED BY <1>2, <1>3, <2>1 DEF Queue!vars
<1>5. CASE SendPush(j)
  <2>1. answers[j] = 0
        BY <1>5 DEF SendPush, LoopTypes, Outside, Pushed
  <2>2. RequestState(j) = "new" /\ RequestState(j)' = "queued"
        BY <1>5, <2>1 DEF LoopTypes, SendPush, At, RequestState, Pushed
  <2>3. Queue!Queue(j)
        BY <1>2, <1>3, <2>2 DEF Queue!Queue, Queue!Become
  <2> QED BY <2>3 DEF Queue!Next
<1>6. CASE SendRefuse(j)
  <2>1. RequestState(j) = "new" /\ RequestState(j)' = "refused"
        BY <1>6 DEF LoopTypes, SendRefuse, At, RequestState, Pushed
  <2>2. Queue!Refuse(j)
        BY <1>2, <1>3, <2>1 DEF Queue!Refuse, Queue!Become
  <2> QED BY <2>2 DEF Queue!Next
<1>7. CASE Renew(j)
  <2>1. RequestState(j) \in {"refused", "answered"} /\ RequestState(j)' = "new"
        BY <1>7 DEF LoopTypes, Renew, At, RequestState, Pushed
  <2>2. Queue!Renew(j)
        BY <1>2, <1>3, <2>1 DEF Queue!Renew, Queue!Become
  <2> QED BY <2>2 DEF Queue!Next
<1> QED BY <1>4, <1>5, <1>6, <1>7 DEF Send

(* A set of requests is answered at once, or nobody is.                    *)
LEMMA AnswersAreQueueSteps ==
    ASSUME LoopInv, NEW rs \in SUBSET Jobs, UNCHANGED <<sender, owner>>,
           \A j \in rs : Pushed(j) /\ answers[j] = 0,
           answers' = [j \in Jobs |-> IF j \in rs THEN answers[j] + 1 ELSE answers[j]]
    PROVE  [Queue!Next]_Queue!vars
<1> USE DEF LoopInv
<1>1. \A j \in rs : RequestState(j) = "queued" /\ RequestState(j)' = "answered"
      BY DEF LoopTypes, RequestState, Pushed
<1>2. \A j \in Jobs \ rs : RequestState(j)' = RequestState(j)
      BY DEF LoopTypes, RequestState, Pushed
<1>3. (owner = "started")' = (owner = "started")
      OBVIOUS
<1>4. CASE rs = {}
      BY <1>2, <1>3, <1>4 DEF Queue!vars
<1>5. CASE rs # {}
  <2>1. rs \in SUBSET {j \in Jobs : [k \in Jobs |-> RequestState(k)][j] = "queued"}
        BY <1>1
  <2>2. [j \in Jobs |-> RequestState(j)]' =
            [j \in Jobs |-> IF j \in rs THEN "answered"
                            ELSE [k \in Jobs |-> RequestState(k)][j]]
        BY <1>1, <1>2
  <2>3. Queue!Answer
        BY <1>3, <1>5, <2>1, <2>2 DEF Queue!Answer
  <2> QED BY <2>3 DEF Queue!Next
<1> QED BY <1>4, <1>5

LEMMA LoopIsQueueStep ==
    ASSUME LoopInv, Loop
    PROVE  [Queue!Next]_Queue!vars
<1> USE DEF LoopInv
<1>1. UNCHANGED <<sender, owner>>
      BY DEF Loop, Test, ActivateIdleJobs, Perform, ReadMessage, ReadEnds, Wakeup,
         Timeout, TerminatePending
<1>2. CASE Test \/ Perform \/ ReadEnds \/ Wakeup \/ Timeout
  <2>1. UNCHANGED answers
        BY <1>2 DEF Test, Perform, ReadEnds, Wakeup, Timeout
  <2>2. Kept
        BY <1>1, <2>1 DEF Kept, RequestState, Pushed
  <2> QED BY <1>1, <2>2 DEF Kept, Queue!vars
<1>3. CASE ActivateIdleJobs
  <2>1. PICK rejected \in SUBSET ToSet(m_waitingList) : PutAnswers(rejected)
        BY <1>3 DEF ActivateIdleJobs, Activation
  <2>2. \A j \in rejected : j \in Jobs /\ Waits(j)
        BY DEF LoopTypes, ToSet, Waits
  <2>3. \A j \in rejected : Pushed(j) /\ answers[j] = 0
        BY <2>2 DEF Outside, Inside
  <2> QED BY <1>1, <2>1, <2>2, <2>3, AnswersAreQueueSteps DEF PutAnswers
<1>4. ASSUME NEW j \in Jobs, ReadMessage(j) PROVE [Queue!Next]_Queue!vars
  <2> DEFINE rs == {j}
  <2>1. j \in m_activatedMap /\ PutAnswers(rs)
        BY <1>4 DEF ReadMessage
  <2>2. rs \in SUBSET Jobs /\ \A k \in rs : Pushed(k) /\ answers[k] = 0
        BY <2>1 DEF Outside, Inside
  <2> HIDE DEF rs
  <2> QED BY <1>1, <2>1, <2>2, AnswersAreQueueSteps DEF PutAnswers
<1>5. CASE TerminatePending
  <2>1. PutAnswers(m_activatedMap)
        BY <1>5 DEF TerminatePending
  <2>2. \A j \in m_activatedMap : j \in Jobs /\ Pushed(j) /\ answers[j] = 0
        BY DEF LoopTypes, Outside, Inside
  <2> QED BY <1>1, <2>1, <2>2, AnswersAreQueueSteps DEF PutAnswers
<1> QED BY <1>2, <1>3, <1>4, <1>5 DEF Loop

(* The safety of ImplementsQueue: a request is refused or queued, and then *)
(* answered once (WebRequestEventLoopInterface).                           *)
THEOREM LoopImplementsQueueSafety == Spec => QueueSafety
<1>1. Init => Queue!Init
  <2> SUFFICES ASSUME Init PROVE Queue!Init
      OBVIOUS
  <2>1. \A j \in Jobs : RequestState(j) = "new"
        BY DEF Init, RequestState, Pushed
  <2> QED BY <2>1 DEF Init, Queue!Init
<1>2. LoopInv /\ [Next]_vars => [Queue!Next]_Queue!vars
  <2> SUFFICES ASSUME LoopInv, [Next]_vars PROVE [Queue!Next]_Queue!vars
      OBVIOUS
  <2>1. CASE UNCHANGED vars
        BY <2>1 DEF vars, sharedVars, loopVars, Queue!vars, RequestState, Pushed
  <2>2. ASSUME NEW j \in Jobs, Send(j) PROVE [Queue!Next]_Queue!vars
        BY <2>2, SendIsQueueStep
  <2>3. ASSUME NEW j \in Jobs, TransferEnds(j) PROVE [Queue!Next]_Queue!vars
    <3>1. UNCHANGED <<sender, answers, owner>>
          BY <2>3 DEF TransferEnds
    <3> QED BY <3>1 DEF Queue!vars, RequestState, Pushed
  <2>4. CASE Owner
    <3>1. Kept
          BY <2>4 DEF Owner, Start, Started, Stop, Join, Kept, RequestState, Pushed
    <3>2. CASE Started
          BY <3>1, <3>2 DEF Started, Kept, Queue!Start, Queue!Next
    <3>3. CASE Stop
          BY <3>1, <3>3 DEF Stop, Kept, Queue!Stop, Queue!Next
    <3>4. CASE Start \/ Join
          BY <3>1, <3>4 DEF Start, Join, Kept, Queue!vars
    <3> QED BY <2>4, <3>2, <3>3, <3>4 DEF Owner
  <2> QED BY <2>1, <2>2, <2>3, <2>4, LoopIsQueueStep DEF Next
<1> QED BY <1>1, <1>2, LoopInvariant, PTL DEF Spec, QueueSafety

-----------------------------------------------------------------------------
(* What KeepsTicking rests on, apart from the fairness of the loop thread. *)

Places == <<"none", "ended", "terminate", "listen", "events", "activate", "test">>
Place(l) == CHOOSE k \in DOMAIN Places : Places[k] = IF l \in {"perform", "read"} THEN "events" ELSE l

(* In the loop over the messages of libcurl another turn follows one that  *)
(* has read a message.                                                     *)
Turn(l, count) == IF l = "read" THEN IF count THEN 3 ELSE 1 ELSE 2

(* The loop thread goes on within its round; as long as it reads messages  *)
(* each one takes a request from the map.                                  *)
RoundCloser ==
    /\ UNCHANGED <<m_requestCount, ticks>>
    /\ \/ Place(loop') < Place(loop)
       \/ loop = "read" /\ loop' = "read" /\ m_activatedMap' \subseteq m_activatedMap /\ m_activatedMap' # m_activatedMap
       \/ loop' \in {"perform", "read"} /\ loop \in {"perform", "read"} /\ m_activatedMap' = m_activatedMap
          /\ Turn(loop', msgCount') < Turn(loop, msgCount)

(* It begins the next round, with a tick or an event more that it counts.  *)
TickCloser ==
    /\ loop = "listen" /\ loop' = "test"
    /\ \/ ticks' # ticks
       \/ m_requestCount' = m_requestCount + 1 /\ m_requestCount' < NumberOfRequests

LoopIdle == UNCHANGED <<loop, m_activatedMap, m_requestCount, msgCount, ticks>>

RoundsEnd == owner = "started" /\ owner' = "started" => LoopIdle \/ RoundCloser \/ TickCloser

(* The first start finds m_terminate as the constructor has left it.       *)
FirstStart ==
    /\ starts = 0 => owner = "stopped" /\ ~m_terminate
    /\ starts = 1 /\ owner \in {"starting", "started"} =>
         ~m_terminate /\ loop \notin {"none", "terminate", "ended"}

LEMMA PlaceOrder ==
    /\ Place("none") = 1 /\ Place("ended") = 2 /\ Place("terminate") = 3 /\ Place("listen") = 4
    /\ Place("perform") = 5 /\ Place("read") = 5 /\ Place("activate") = 6 /\ Place("test") = 7
BY DEF Place, Places

(* Every round of the loop comes to its end, whatever messages libcurl has, *)
(* and the next one ticks or has counted an event, of which there are fewer *)
(* than m_numberOfRequestsBeforeTick: a loop that is busy without a timeout *)
(* cannot put off its ticks for ever (processEvents, checkTick).           *)
THEOREM RoundsComeToTicks == Spec => [][RoundsEnd]_vars
<1>1. LoopInv /\ Next => RoundsEnd
  <2> SUFFICES ASSUME LoopInv, Next, owner = "started", owner' = "started"
               PROVE  LoopIdle \/ RoundCloser \/ TickCloser
      BY DEF RoundsEnd
  <2>1. /\ m_requestCount \in Nat /\ m_requestCount < NumberOfRequests
        /\ NumberOfRequests \in Nat /\ ticks \in {0, 1} /\ msgCount \in BOOLEAN
        BY LoopAssumption DEF LoopInv, LoopTypes
  <2>2. CASE \E j \in Jobs : Send(j) \/ TransferEnds(j)
        BY <2>2 DEF Send, SendCheck, SendPush, SendThrow, SendRefuse, SendNotify, Renew,
                    TransferEnds, loopVars, LoopIdle
  <2>3. CASE Owner
        BY <2>3 DEF Owner, Start, Started, Stop, Join, loopVars, LoopIdle
  <2>4. CASE Test \/ ActivateIdleJobs
        BY <2>4, PlaceOrder DEF Test, ActivateIdleJobs, loopVars, RoundCloser
  <2>5. CASE Perform
    <3>1. /\ loop = "perform" /\ loop' = "read" /\ ~msgCount'
          /\ UNCHANGED <<m_activatedMap, m_requestCount, ticks>>
          BY <2>5 DEF Perform
    <3>2. Turn(loop', msgCount') < Turn(loop, msgCount)
          BY <3>1 DEF Turn
    <3> QED BY <3>1, <3>2 DEF RoundCloser
  <2>6. ASSUME NEW j \in Jobs, ReadMessage(j)  PROVE RoundCloser
        BY <2>6 DEF ReadMessage, RoundCloser
  <2>7. CASE ReadEnds
    <3>1. /\ loop = "read" /\ loop' = IF msgCount THEN "perform" ELSE "listen"
          /\ UNCHANGED <<m_activatedMap, m_requestCount, ticks>>
          BY <2>7 DEF ReadEnds
    <3>2. CASE msgCount
      <4>1. Turn(loop', msgCount') < Turn(loop, msgCount)
            BY <3>1, <3>2 DEF Turn
      <4> QED BY <3>1, <3>2, <4>1 DEF RoundCloser
    <3>3. CASE ~msgCount
          BY <3>1, <3>3, PlaceOrder DEF RoundCloser
    <3> QED BY <3>2, <3>3
  <2>8. CASE Wakeup \/ Timeout
    <3>1. loop = "listen" /\ loop' = "test"
          BY <2>8 DEF Wakeup, Timeout
    <3>2. ticks' = 1 - ticks \/ (m_requestCount' = m_requestCount + 1 /\ m_requestCount + 1 # NumberOfRequests)
          BY <2>8 DEF Wakeup, Timeout, CheckTick, Tick
    <3>3. ticks' = 1 - ticks => ticks' # ticks
          BY <2>1
    <3> QED BY <2>1, <3>1, <3>2, <3>3 DEF TickCloser
  <2>9. CASE TerminatePending
        BY <2>9, PlaceOrder DEF TerminatePending, RoundCloser
  <2> QED BY <2>2, <2>3, <2>4, <2>5, <2>6, <2>7, <2>8, <2>9 DEF Next, Loop
<1>2. LoopInv /\ [Next]_vars => [RoundsEnd]_vars
      BY <1>1
<1> QED BY <1>2, LoopInvariant, PTL DEF Spec

(* A loop started once runs until it is stopped, although the thread tests *)
(* m_terminate before start has reset it (CurlEventLoop::start).           *)
THEOREM FirstStartRuns == Spec => []FirstStart
<1>1. Init => FirstStart
      BY DEF Init, FirstStart
<1>2. LoopTypes /\ FirstStart /\ [Next]_vars => FirstStart'
  <2> SUFFICES ASSUME LoopTypes, FirstStart, [Next]_vars  PROVE FirstStart'
      OBVIOUS
  <2>1. CASE UNCHANGED vars
        BY <2>1 DEF vars, sharedVars, FirstStart
  <2>2. CASE \E j \in Jobs : Send(j) \/ TransferEnds(j)
        BY <2>2 DEF Send, SendCheck, SendPush, SendThrow, SendRefuse, SendNotify, Renew,
                    TransferEnds, sharedVars, FirstStart
  <2>3. CASE Start
    <3>1. starts' # 0 /\ (starts' = 1 => starts = 0)
          BY <2>3 DEF Start, LoopTypes
    <3> QED BY <2>3, <3>1 DEF Start, sharedVars, FirstStart
  <2>4. CASE Started \/ Stop \/ Join
        BY <2>4 DEF Started, Stop, Join, FirstStart
  <2>5. CASE Loop
    <3>1. UNCHANGED <<starts, owner, m_terminate>>
          BY <2>5 DEF Loop, Test, ActivateIdleJobs, Perform, ReadMessage, ReadEnds, Wakeup,
                      Timeout, TerminatePending, sharedVars
    <3>2. loop' \in {"none", "terminate", "ended"} => loop = "terminate" \/ m_terminate
          BY <2>5 DEF Loop, Test, ActivateIdleJobs, Perform, ReadMessage, ReadEnds, Wakeup,
                      Timeout, TerminatePending
    <3> QED BY <3>1, <3>2 DEF FirstStart
  <2> QED BY <2>1, <2>2, <2>3, <2>4, <2>5 DEF Next, Owner
<1>3. LoopInv => LoopTypes
      BY DEF LoopInv
<1> QED BY <1>1, <1>2, <1>3, LoopInvariant, PTL DEF Spec
==============================================================================
