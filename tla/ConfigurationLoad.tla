-------------------------- MODULE ConfigurationLoad --------------------------
(***************************************************************************)
(* WebRequestHandler::runConfigurationLoad (src/webrequest/webRequest      *)
(* Handler.cpp) and the receivers of its delegate requests (configuration  *)
(* UpdateRequest.cpp).  The loading thread executes a configuration and    *)
(* then, result by result, sends the delegate requests the configuration   *)
(* gives rise to: to other servers through the event loop, to the service  *)
(* itself (loopback), or to the configuration's own context (self).  It    *)
(* waits for a counter on its stack that the thread of the event loop      *)
(* counts down, and completes the configuration.                           *)
(*                                                                         *)
(* The event loop is taken as DelegateQueue specifies it, and goes on      *)
(* running: what it queues it answers once, one request at a time.         *)
(***************************************************************************)
EXTENDS Integers, FiniteSets, Sequences

CONSTANTS
    MaxResults,     \* bound: results of the configuration with delegate requests
    MaxDelegates    \* bound: delegate requests of a result

ASSUME LoadAssumption == MaxResults \in Nat /\ MaxDelegates \in Nat \ {0}

VARIABLES
    pc,          \* where the loading thread stands
    result,      \* m_resultIdx: results asked for their delegate requests
    delegates,   \* kinds of the delegate requests of the current result
    didx,        \* delegate requests sent
    count,       \* the counter of the current result
    rt,          \* no sending has failed
    failed,      \* m_answer of the configuration's context is an error
    success,     \* what runConfigurationLoad returns
    remote,      \* <<result, delegate>> -> state of a request in the event loop
    outcome      \* history: <<result, delegate>> -> how it was answered

vars == <<pc, result, delegates, didx, count, rt, failed, success, remote, outcome>>

Ids == (1..MaxResults) \X (1..MaxDelegates)
Current == <<result, didx + 1>>

\* A result without address variable is fed to the context itself; otherwise
\* there is a delegate request for each address, any of them the service's own.
DelegateLists == {<<"self">>} \cup UNION {[1..n -> {"remote", "loopback"}] : n \in 0..MaxDelegates}

Init ==
    /\ pc = "execute"
    /\ result = 0 /\ delegates = <<>> /\ didx = 0 /\ count = 0
    /\ rt = TRUE /\ failed = FALSE /\ success = FALSE
    /\ remote = [i \in Ids |-> "unsent"]
    /\ outcome = [i \in Ids |-> "none"]

-----------------------------------------------------------------------------
(* The loading thread                                                      *)

Execute ==
    /\ pc = "execute"
    /\ \E ok \in BOOLEAN : pc' = IF ok THEN "delegates" ELSE "ended"
    /\ UNCHANGED <<result, delegates, didx, count, rt, failed, success, remote, outcome>>

\* Mutant: the counter starts with one too many.
NewCountOneMore(n) == n + 1
NewCount(n) == n

\* getDelegateRequests returns those of the next result: an empty list of
\* addresses ends the loop like the end of the results.
GetDelegateRequests ==
    /\ pc = "delegates" /\ result < MaxResults
    /\ \E list \in DelegateLists :
         /\ delegates' = list
         /\ count' = NewCount(Len(list))
         /\ pc' = IF list = <<>> THEN "complete" ELSE "send"
    /\ result' = result + 1 /\ didx' = 0
    /\ UNCHANGED <<rt, failed, success, remote, outcome>>

NoDelegateRequests ==
    /\ pc = "delegates"
    /\ failed' \in {failed, TRUE}
    /\ pc' = "complete"
    /\ UNCHANGED <<result, delegates, didx, count, rt, success, remote, outcome>>

Sends(kind) == pc = "send" /\ didx < Len(delegates) /\ delegates[didx + 1] = kind

\* The loop over the delegate requests is left, count.set( 0).
Break == count' = 0 /\ rt' = FALSE /\ pc' = "wait"

Outcome(i, how) == outcome' = [outcome EXCEPT ![i] = how]

\* putDelegateRequestAnswer of the context: after an error answers are
\* ignored; an answer that is an error is kept; any other is executed with the
\* answer's schema, which may fail, whatever its http status is.
PutDelegateRequestAnswer(i, how) ==
    \/ failed /\ Outcome(i, "ignored") /\ UNCHANGED failed
    \/ ~failed /\ Outcome(i, "refused") /\ failed' = TRUE
    \/ ~failed /\ how # "error" /\ Outcome(i, how) /\ UNCHANGED failed

\* Mutant: the loading thread counts a request down when it has sent it.
SendRemoteCounts == count' = count - 1
SendRemoteCount == UNCHANGED count

SendRemote ==
    /\ Sends("remote")
    /\ remote' = [remote EXCEPT ![Current] = "queued"]
    /\ didx' = didx + 1
    /\ SendRemoteCount
    /\ UNCHANGED <<pc, result, delegates, rt, failed, success, outcome>>

\* send calls putAnswer with an error before it returns false.
SendRefused ==
    /\ Sends("remote")
    /\ failed' = TRUE
    /\ Outcome(Current, "refused")
    /\ Break
    /\ UNCHANGED <<result, delegates, didx, success, remote>>

\* Mutant: what the loading thread has answered itself is not counted down.
LoaderCountsNothing == count
LoaderCounts == count - 1

\* The answer of a loopback request, or the content itself, is put to the
\* context; a loopback request without receiver schema puts nothing.
FeedContext ==
    /\ Sends("loopback") \/ Sends("self")
    /\ PutDelegateRequestAnswer(Current, "accepted")
    /\ IF outcome'[Current] = "refused" THEN Break /\ UNCHANGED didx
       ELSE count' = LoaderCounts /\ didx' = didx + 1 /\ UNCHANGED <<rt, pc>>
    /\ UNCHANGED <<result, delegates, success, remote>>

\* The nested load fails, or the memory does not suffice: the error is not one
\* of the context.
SendFails ==
    /\ pc = "send" /\ didx < Len(delegates)
    /\ Outcome(Current, "refused")
    /\ Break
    /\ UNCHANGED <<result, delegates, didx, failed, success, remote>>

AllSent ==
    /\ pc = "send" /\ didx = Len(delegates)
    /\ pc' = "wait"
    /\ UNCHANGED <<result, delegates, didx, count, rt, failed, success, remote, outcome>>

\* Mutant: the loading thread does not wait for the last answer.
WaitOverEarly == count <= 1
WaitOver == count <= 0

\* Polled with a sleep.
Wait ==
    /\ pc = "wait" /\ WaitOver
    /\ pc' = IF rt THEN "delegates" ELSE "ended"
    /\ UNCHANGED <<result, delegates, didx, count, rt, failed, success, remote, outcome>>

\* Mutant: complete does not look at m_answer.
CompletesAnyway == TRUE
Completes == ~failed

\* complete transfers the context built to the request handler, or fails to.
Complete ==
    /\ pc = "complete"
    /\ success' \in {FALSE, Completes}
    /\ pc' = "ended"
    /\ UNCHANGED <<result, delegates, didx, count, rt, failed, remote, outcome>>

-----------------------------------------------------------------------------
(* The thread of the event loop                                            *)

Answering == {i \in Ids : remote[i] \in {"put", "counted"}}

\* putAnswer, with what the other server or the connection answered.
PutAnswer(i) ==
    /\ remote[i] = "queued" /\ Answering = {}
    /\ \E how \in {"accepted", "httpError", "error"} : PutDelegateRequestAnswer(i, how)
    /\ remote' = [remote EXCEPT ![i] = "put"]
    /\ UNCHANGED <<pc, result, delegates, didx, count, rt, success>>

\* The counter lives while the delegate requests of its result are sent and awaited.
CounterAlive(i) == pc \in {"send", "wait"} /\ i[1] = result

\* Counting down a counter that is gone changes nothing this module knows of.
Decrement(i) ==
    /\ remote[i] = "put"
    /\ count' = IF CounterAlive(i) THEN count - 1 ELSE count
    /\ remote' = [remote EXCEPT ![i] = "counted"]
    /\ UNCHANGED <<pc, result, delegates, didx, rt, failed, success, outcome>>

\* The value is read once more, for a log line, and the receiver deleted.
AnswerDone(i) ==
    /\ remote[i] = "counted"
    /\ remote' = [remote EXCEPT ![i] = "answered"]
    /\ UNCHANGED <<pc, result, delegates, didx, count, rt, failed, success, outcome>>

-----------------------------------------------------------------------------
Loader ==
    \/ Execute \/ GetDelegateRequests \/ NoDelegateRequests
    \/ SendRemote \/ SendRefused \/ FeedContext \/ SendFails \/ AllSent
    \/ Wait \/ Complete

EventLoop == \E i \in Ids : PutAnswer(i) \/ Decrement(i) \/ AnswerDone(i)

Next == Loader \/ EventLoop

\* The loading thread is a thread of its own; the event loop answers what it
\* has queued (Served of DelegateQueue).
Spec == Init /\ [][Next]_vars /\ WF_vars(Loader) /\ WF_vars(EventLoop)

-----------------------------------------------------------------------------
\* The type of the state; the counter never leaves the number of requests and,
\* after the loop has been left early, what late answers make of it.
TypeOK ==
    /\ pc \in {"execute", "delegates", "send", "wait", "complete", "ended"}
    /\ result \in 0..MaxResults
    /\ delegates \in DelegateLists /\ didx \in 0..Len(delegates)
    /\ count \in (-MaxDelegates)..MaxDelegates
    /\ {rt, failed, success} \subseteq BOOLEAN
    /\ remote \in [Ids -> {"unsent", "queued", "put", "counted", "answered"}]
    /\ outcome \in [Ids -> {"none", "accepted", "httpError", "refused", "ignored"}]

\* While results are processed without a failure to send, the counter is the
\* number of delegate requests of the result not yet counted down: neither the
\* loading thread nor the event loop counts one twice or forgets one.
CountExact ==
    pc \in {"send", "wait"} /\ rt =>
        count = Len(delegates) - Cardinality({d \in 1..didx :
                    remote[<<result, d>>] \notin {"queued", "put"}})

\* Unless the sending was left early, an answer reaches the context and the
\* counter of its result while both exist: the loading thread does not go on
\* while a request is queued or its answer is being put.
AnsweredInTime ==
    rt /\ pc \notin {"send", "wait"} =>
        \A i \in Ids : remote[i] \notin {"queued", "put"}

\* A load succeeds only if every delegate request it got was sent and its
\* answer accepted by the context, or at least came without an error.
SuccessMeansAccepted ==
    success => /\ \A i \in Ids : outcome[i] \notin {"refused", "ignored"}
               /\ \A d \in 1..Len(delegates) : outcome[<<result, d>>] # "none"

\* A load succeeds only if every server asked has answered with success: "Test
\* if request succeeded" is what the comment of WebRequestAnswer::ok says.
SuccessMeansServed == success => \A i \in Ids : outcome[i] \notin {"refused", "httpError"}

\* A load comes to an end.
LoadEnds == <>(pc = "ended")
=============================================================================
