--------------------------- MODULE CurlEventLoop ---------------------------
(***************************************************************************)
(* CurlEventLoop (src/webrequest/curlEventLoop.cpp): one background thread *)
(* that sends delegate requests with libcurl and runs the tickers.  Other  *)
(* threads push jobs to m_waitingList and wake it through a pipe; its      *)
(* owner starts and stops it.  Steps are the mutex sections and the calls  *)
(* of libcurl.  A job is identified with its receiver.                     *)
(***************************************************************************)
EXTENDS Integers, Sequences, FiniteSets, SequencesExt

CONSTANTS
    Jobs,                 \* delegate requests
    NumberOfRequests,     \* m_numberOfRequestsBeforeTick
    PipeSize,             \* bound: bytes the pipe holds
    Restarts              \* bound: how often the loop is started again

ASSUME LoopAssumption ==
    /\ NumberOfRequests \in Nat \ {0} /\ PipeSize \in Nat \ {0}
    /\ Restarts \in Nat

VARIABLES
    m_thread,        \* m_thread is set
    m_terminate,
    m_waitingList,   \* jobs pushed and not yet activated
    m_activatedMap,  \* jobs given to libcurl
    m_requestCount,
    pipe,            \* unread bytes of the pipe
    loop,            \* where the loop thread stands
    owner,           \* where the owner of the loop stands
    starts,          \* calls of start so far
    sender,          \* job -> where the thread that sends it stands
    curl,            \* job -> state of its transfer in libcurl
    msgLeft,         \* processEvents: messages left
    msgCount,        \* processEvents: a message was read in this turn
    answers,         \* job -> calls of putAnswer
    deleted,         \* receivers deleted
    ticks            \* parity of the calls of tick

loopVars == <<m_activatedMap, m_requestCount, msgLeft, msgCount, ticks>>
sharedVars == <<m_thread, m_terminate, m_waitingList, pipe>>
vars == <<sharedVars, loopVars, loop, owner, starts, sender, curl, answers, deleted>>

Init ==
    /\ m_thread = FALSE /\ m_terminate = FALSE
    /\ m_waitingList = <<>> /\ pipe = 0
    /\ m_activatedMap = {} /\ m_requestCount = 0
    /\ msgLeft = TRUE /\ msgCount = FALSE /\ ticks = 0
    /\ loop = "none" /\ owner = "stopped" /\ starts = 0
    /\ sender = [j \in Jobs |-> "new"]
    /\ curl = [j \in Jobs |-> "idle"]
    /\ answers = [j \in Jobs |-> 0]
    /\ deleted = {}

\* notify: the write is non blocking, a full pipe is readable anyway.
Notify == pipe' = IF pipe < PipeSize THEN pipe + 1 ELSE pipe

-----------------------------------------------------------------------------
(* send                                                                    *)

At(j, where) == sender' = [sender EXCEPT ![j] = where]
PutAnswers(js) == answers' = [j \in Jobs |-> IF j \in js THEN answers[j] + 1 ELSE answers[j]]

\* m_thread is read without synchronisation.
SendCheck(j) ==
    /\ sender[j] = "new"
    /\ At(j, IF m_thread THEN "push" ELSE "refuse")
    /\ UNCHANGED <<sharedVars, loopVars, loop, owner, starts, curl, answers, deleted>>

\* The job has been built, it owns the receiver now.
SendPush(j) ==
    /\ sender[j] = "push"
    /\ m_waitingList' = Append(m_waitingList, j)
    /\ At(j, "notify")
    /\ UNCHANGED <<m_thread, m_terminate, pipe, loopVars, loop, owner, starts,
                   curl, answers, deleted>>

\* Building the job throws: the receiver's shared pointer deletes it.
SendThrow(j) ==
    /\ sender[j] = "push"
    /\ deleted' = deleted \cup {j}
    /\ At(j, "refuse")
    /\ UNCHANGED <<sharedVars, loopVars, loop, owner, starts, curl, answers>>

\* The handlers answer the receiver and delete it.
SendRefuse(j) ==
    /\ sender[j] = "refuse"
    /\ PutAnswers({j})
    /\ deleted' = deleted \cup {j}
    /\ At(j, "refused")
    /\ UNCHANGED <<sharedVars, loopVars, loop, owner, starts, curl>>

SendNotify(j) ==
    /\ sender[j] = "notify"
    /\ Notify
    /\ At(j, "sent")
    /\ UNCHANGED <<m_thread, m_terminate, m_waitingList, loopVars, loop, owner,
                   starts, curl, answers, deleted>>

\* The receiver is gone: j stands for the next request of that kind.
Renew(j) ==
    /\ sender[j] \in {"refused", "sent"} /\ answers[j] > 0
    /\ At(j, "new")
    /\ answers' = [answers EXCEPT ![j] = 0]
    /\ deleted' = deleted \ {j}
    /\ UNCHANGED <<sharedVars, loopVars, loop, owner, starts, curl>>

-----------------------------------------------------------------------------
(* start and stop, called by one owner.                                    *)

\* The thread runs before start has reset m_terminate and set m_thread.
Start ==
    /\ owner = "stopped" /\ ~m_thread /\ starts <= Restarts
    /\ loop' = "test"
    /\ owner' = "starting"
    /\ starts' = starts + 1
    /\ UNCHANGED <<sharedVars, loopVars, sender, curl, answers, deleted>>

Started ==
    /\ owner = "starting"
    /\ m_terminate' = FALSE /\ m_thread' = TRUE
    /\ owner' = "started"
    /\ UNCHANGED <<m_waitingList, pipe, loopVars, loop, starts, sender, curl,
                   answers, deleted>>

Stop ==
    /\ owner = "started"
    /\ m_terminate' = TRUE
    /\ Notify
    /\ owner' = "join"
    /\ UNCHANGED <<m_thread, m_waitingList, loopVars, loop, starts, sender, curl,
                   answers, deleted>>

Join ==
    /\ owner = "join" /\ loop = "ended"
    /\ m_thread' = FALSE
    /\ loop' = "none"
    /\ owner' = "stopped"
    /\ UNCHANGED <<m_terminate, m_waitingList, pipe, loopVars, starts, sender,
                   curl, answers, deleted>>

-----------------------------------------------------------------------------
(* libcurl, external: a peer answers or the connection fails.              *)

TransferEnds(j) ==
    /\ curl[j] = "running"
    /\ curl' = [curl EXCEPT ![j] = "arrived"]
    /\ UNCHANGED <<sharedVars, loopVars, loop, owner, starts, sender, answers, deleted>>

Message(j) == curl[j] = "message"

-----------------------------------------------------------------------------
(* run                                                                     *)

\* while (!m_terminate.test()); a break after the tick leads here too.
Test ==
    /\ loop = "test"
    /\ loop' = IF m_terminate THEN "terminate" ELSE "activate"
    /\ UNCHANGED <<sharedVars, loopVars, owner, starts, sender, curl, answers, deleted>>

\* Mutant: a rejected job is dropped without an answer.
ActivationSilent(waiting) ==
    \E rejected \in SUBSET ToSet(waiting) :
        LET accepted == ToSet(waiting) \ rejected
        IN /\ m_activatedMap' = m_activatedMap \cup accepted
           /\ curl' = [j \in Jobs |-> IF j \in accepted THEN "running" ELSE curl[j]]
           /\ deleted' = deleted \cup rejected
           /\ UNCHANGED answers

\* activateIdleJobs: libcurl may reject a handle, the job is then dropped.
Activation(waiting) ==
    \E rejected \in SUBSET ToSet(waiting) :
        LET accepted == ToSet(waiting) \ rejected
        IN /\ PutAnswers(rejected)
           /\ m_activatedMap' = m_activatedMap \cup accepted
           /\ curl' = [j \in Jobs |-> IF j \in accepted THEN "running" ELSE curl[j]]
           /\ deleted' = deleted \cup rejected

\* Mutant: the list survives its activation.
ActivateIdleJobsKeepsList ==
    /\ loop = "activate"
    /\ Activation(m_waitingList)
    /\ loop' = "perform" /\ msgLeft' = TRUE
    /\ UNCHANGED <<m_thread, m_terminate, m_waitingList, pipe, m_requestCount, msgCount,
                   ticks, owner, starts, sender>>

ActivateIdleJobs ==
    /\ loop = "activate"
    /\ Activation(m_waitingList)
    /\ m_waitingList' = <<>>
    /\ loop' = "perform" /\ msgLeft' = TRUE
    /\ UNCHANGED <<m_thread, m_terminate, pipe, m_requestCount, msgCount, ticks,
                   owner, starts, sender>>

\* processEvents: curl_multi_perform turns what arrived into messages.
Perform ==
    /\ loop = "perform"
    /\ curl' = [j \in Jobs |-> IF curl[j] = "arrived" THEN "message" ELSE curl[j]]
    /\ msgCount' = FALSE
    /\ loop' = "read"
    /\ UNCHANGED <<sharedVars, m_activatedMap, m_requestCount, msgLeft, ticks,
                   owner, starts, sender, answers, deleted>>

\* A message is read, its job leaves the map and resumes.  msgLeft is not
\* reset when curl_multi_perform is called again.
ReadMessage(j) ==
    /\ loop = "read" /\ msgLeft
    /\ Message(j) /\ j \in m_activatedMap
    /\ msgLeft' = (\E k \in Jobs \ {j} : Message(k))
    /\ msgCount' = TRUE
    /\ m_activatedMap' = m_activatedMap \ {j}
    /\ curl' = [curl EXCEPT ![j] = "idle"]
    /\ PutAnswers({j})
    /\ deleted' = deleted \cup {j}
    /\ UNCHANGED <<sharedVars, m_requestCount, ticks, loop, owner, starts, sender>>

ReadEnds ==
    /\ loop = "read"
    /\ msgLeft => \A j \in Jobs : ~Message(j)
    /\ msgLeft' = FALSE
    /\ loop' = IF msgCount THEN "perform" ELSE "listen"
    /\ UNCHANGED <<sharedVars, m_activatedMap, m_requestCount, msgCount, ticks,
                   owner, starts, sender, curl, answers, deleted>>

Tick(count) ==
    /\ m_requestCount' = count
    /\ ticks' = 1 - ticks

\* Mutants: the count starts again with every event, or the event is counted
\* after the comparison.
CheckTickRestarts == m_requestCount' = 0 /\ UNCHANGED ticks
CheckTickLate ==
    IF m_requestCount = NumberOfRequests THEN Tick(0)
    ELSE m_requestCount' = m_requestCount + 1 /\ UNCHANGED ticks

\* checkTick: every NumberOfRequests-th event does not wait for a timeout.
CheckTick ==
    IF m_requestCount + 1 = NumberOfRequests THEN Tick(0)
    ELSE m_requestCount' = m_requestCount + 1 /\ UNCHANGED ticks

\* listen wakes up: the pipe is readable and read empty, or a connection is.
Wakeup ==
    /\ loop = "listen"
    /\ pipe > 0 \/ \E j \in Jobs : curl[j] \in {"running", "arrived"}
    /\ pipe' = 0
    /\ CheckTick
    /\ loop' = "test"
    /\ UNCHANGED <<m_thread, m_terminate, m_waitingList, m_activatedMap, msgLeft,
                   msgCount, owner, starts, sender, curl, answers, deleted>>

Timeout ==
    /\ loop = "listen" /\ pipe = 0
    /\ Tick(0)
    /\ loop' = "test"
    /\ UNCHANGED <<sharedVars, m_activatedMap, msgLeft, msgCount, owner, starts,
                   sender, curl, answers, deleted>>

\* Mutant: what libcurl still works on is forgotten without an answer.
TerminatePendingSilently ==
    /\ loop = "terminate"
    /\ m_activatedMap' = {}
    /\ deleted' = deleted \cup m_activatedMap
    /\ curl' = [j \in Jobs |-> "idle"]
    /\ loop' = "ended"
    /\ UNCHANGED <<sharedVars, m_requestCount, msgLeft, msgCount, ticks, owner,
                   starts, sender, answers>>

\* terminatePendingRequests; destroying the jobs takes their handles from libcurl.
TerminatePending ==
    /\ loop = "terminate"
    /\ PutAnswers(m_activatedMap)
    /\ m_activatedMap' = {}
    /\ deleted' = deleted \cup m_activatedMap
    /\ curl' = [j \in Jobs |-> "idle"]
    /\ loop' = "ended"
    /\ UNCHANGED <<sharedVars, m_requestCount, msgLeft, msgCount, ticks, owner,
                   starts, sender>>

-----------------------------------------------------------------------------
Send(j) ==
    \/ SendCheck(j) \/ SendPush(j) \/ SendThrow(j) \/ SendRefuse(j)
    \/ SendNotify(j) \/ Renew(j)
Owner == Start \/ Started \/ Stop \/ Join
Loop ==
    \/ Test \/ ActivateIdleJobs \/ Perform
    \/ \E j \in Jobs : ReadMessage(j)
    \/ ReadEnds \/ Wakeup \/ Timeout \/ TerminatePending

Next ==
    \/ \E j \in Jobs : Send(j) \/ TransferEnds(j)
    \/ Owner \/ Loop

(* The threads are scheduled, a start is carried through, and peers answer *)
(* (external).  Nobody has to send, start or stop.                         *)
Fairness ==
    /\ WF_vars(Loop) /\ WF_vars(Started) /\ WF_vars(Join)
    /\ \A j \in Jobs :
        /\ WF_vars(TransferEnds(j))
        /\ WF_vars(SendPush(j) \/ SendRefuse(j) \/ SendNotify(j))

Spec == Init /\ [][Next]_vars /\ Fairness

-----------------------------------------------------------------------------
(* Type correctness of the loop's state. *)
TypeOK ==
    /\ m_thread \in BOOLEAN /\ m_terminate \in BOOLEAN
    /\ m_waitingList \in Seq(Jobs) /\ m_activatedMap \subseteq Jobs
    /\ m_requestCount \in 0 .. NumberOfRequests - 1
    /\ pipe \in 0 .. PipeSize
    /\ loop \in {"none", "test", "activate", "perform", "read", "listen",
                 "terminate", "ended"}
    /\ owner \in {"stopped", "starting", "started", "join"}
    /\ starts \in 0 .. Restarts + 1
    /\ sender \in [Jobs -> {"new", "push", "refuse", "refused", "notify", "sent"}]
    /\ curl \in [Jobs -> {"idle", "running", "arrived", "message"}]
    /\ msgLeft \in BOOLEAN /\ msgCount \in BOOLEAN /\ ticks \in {0, 1}
    /\ answers \in [Jobs -> 0 .. 2]
    /\ deleted \subseteq Jobs

Pushed(j) == sender[j] \in {"notify", "sent"}

(* Every job pushed is in one place: waiting, with libcurl, or answered    *)
(* once; the log's "lost handle" never happens (processEvents).            *)
JobsAccounted ==
    \A j \in Jobs : Pushed(j) =>
        LET waits == Cardinality({i \in DOMAIN m_waitingList : m_waitingList[i] = j})
            active == IF j \in m_activatedMap THEN 1 ELSE 0
        IN /\ waits + active + answers[j] = 1
           /\ curl[j] # "idle" <=> active = 1
           /\ j \in deleted <=> answers[j] = 1

(* "Stop ... without finishing idle jobs in the queue": what the loop took *)
(* up is answered when stop returns, only jobs in the queue are left.      *)
StopAnswersActive ==
    [][m_thread /\ ~m_thread' =>
         \A j \in Jobs : Pushed(j) /\ answers[j] = 0 => j \in ToSet(m_waitingList)]_vars

(* A loop that is not stopped goes on ticking, however busy it is          *)
(* (m_numberOfRequestsBeforeTick).                                         *)
KeepsTicking ==
    \A parity \in {0, 1} : <>[](owner = "started") => []<>(ticks = parity)

(* What the sender of a request may know of it. *)
RequestState(j) ==
    IF Pushed(j) THEN IF answers[j] = 0 THEN "queued" ELSE "answered"
    ELSE IF sender[j] = "refused" THEN "refused" ELSE "new"

(* The loop implements the queue its interface describes.                  *)
Queue ==
    INSTANCE DelegateQueue WITH
        Requests <- Jobs,
        running <- owner = "started",
        request <- [j \in Jobs |-> RequestState(j)]
ImplementsQueue == Queue!Spec
=============================================================================
