----------------------- MODULE ConfigurationLoadProofs -----------------------
(***************************************************************************)
(* The counter of a configuration load, for every number of results and of *)
(* delegate requests: it is exact while nothing failed to be sent, so that *)
(* no answer comes after the load has gone on, and a load that succeeds    *)
(* has the answers to everything it asked for.  And it comes to its end: no *)
(* wait is in vain, and every step is one towards the end.                 *)
(*                                                                         *)
(* That no request of an earlier result is in flight (InFlightIsCurrent)   *)
(* is what makes the counter of a result exact when the next one takes its *)
(* place, and it holds because the counter of the earlier one was exact.   *)
(***************************************************************************)
EXTENDS ConfigurationLoad, FiniteSetTheorems, TLAPS

InFlight(i) == remote[i] \in {"queued", "put"}
Counted == {d \in 1..didx : remote[<<result, d>>] \notin {"queued", "put"}}
Pending == {d \in 1..didx : remote[<<result, d>>] \in {"queued", "put"}}

(* What is in flight was sent for the current result; and while nothing    *)
(* failed to be sent, the loading thread is there to take its answer.      *)
InFlightIsCurrent ==
    \A i \in Ids : InFlight(i) => /\ i[1] = result /\ i[2] \in 1..didx
                                  /\ rt => pc \in {"send", "wait"}

(* A loop left early goes to its end.                                      *)
EarlyLeft == ~rt => pc \in {"wait", "ended"}
SentAll == rt /\ pc # "send" => didx = Len(delegates)

(* There are delegate requests to send from the first result on.           *)
ResultStarted == /\ pc = "send" => result # 0
                 /\ result = 0 => delegates = <<>>

(* A counter set to zero is counted down by what is still in flight.       *)
EarlyCount == ~rt /\ pc = "wait" => /\ count - Cardinality(Pending) >= -MaxDelegates
                                   /\ count <= 0

(* What is sent is queued or answered, and an answer that is not accepted  *)
(* makes the context's answer an error.                                    *)
SentIsAnswered ==
    rt => \A d \in 1..didx : \/ remote[<<result, d>>] = "queued"
                             \/ outcome[<<result, d>>] # "none"
FailureIsKept == rt /\ ~failed => \A i \in Ids : outcome[i] \notin {"refused", "ignored"}
SuccessIsLast == success => pc = "ended" /\ rt /\ ~failed

LoadInv ==
    /\ TypeOK /\ CountExact /\ InFlightIsCurrent /\ EarlyLeft /\ SentAll
    /\ ResultStarted /\ EarlyCount /\ SentIsAnswered /\ FailureIsKept /\ SuccessIsLast

-----------------------------------------------------------------------------
LEMMA DelegateListsOK ==
    ASSUME NEW list \in DelegateLists
    PROVE  /\ list \in Seq({"self", "remote", "loopback"})
           /\ Len(list) \in 0..MaxDelegates
<1>1. CASE list = <<"self">>
      BY <1>1, LoadAssumption
<1>2. CASE list # <<"self">>
  <2>1. PICK n \in 0..MaxDelegates : list \in [1..n -> {"remote", "loopback"}]
        BY <1>2 DEF DelegateLists
  <2>2. n \in Nat /\ list \in [1..n -> {"self", "remote", "loopback"}]
        BY <2>1, LoadAssumption
  <2>3. list \in Seq({"self", "remote", "loopback"}) /\ Len(list) = n
        BY <2>2
  <2> QED BY <2>3
<1> QED BY <1>1, <1>2

LEMMA IntervalFinite ==
    ASSUME NEW n \in Nat
    PROVE  IsFiniteSet(1..n) /\ Cardinality(1..n) = n
BY FS_Interval

(* The sets the counter stands for.                                        *)
LEMMA SentSets ==
    ASSUME TypeOK
    PROVE  /\ didx \in Nat /\ Len(delegates) \in Nat /\ didx <= Len(delegates)
           /\ Len(delegates) <= MaxDelegates /\ result \in Nat
           /\ Counted \in SUBSET (1..didx) /\ IsFiniteSet(Counted)
           /\ Cardinality(Counted) \in 0..didx
           /\ Pending \in SUBSET (1..didx) /\ IsFiniteSet(Pending)
           /\ Cardinality(Pending) \in 0..didx
           /\ Cardinality(Counted) = didx => Counted = 1..didx
<1>1. /\ didx \in Nat /\ Len(delegates) \in Nat /\ didx <= Len(delegates)
      /\ Len(delegates) <= MaxDelegates /\ result \in Nat
      BY DelegateListsOK, LoadAssumption DEF TypeOK
<1>2. IsFiniteSet(1..didx) /\ Cardinality(1..didx) = didx
      BY <1>1, IntervalFinite
<1>3. Counted \in SUBSET (1..didx) /\ Pending \in SUBSET (1..didx)
      BY DEF Counted, Pending
<1>4. /\ IsFiniteSet(Counted) /\ Cardinality(Counted) <= didx
      /\ Cardinality(Counted) = didx => Counted = 1..didx
      BY <1>2, <1>3, FS_Subset
<1>5. IsFiniteSet(Pending) /\ Cardinality(Pending) <= didx
      BY <1>2, <1>3, FS_Subset
<1>6. Cardinality(Counted) \in Nat /\ Cardinality(Pending) \in Nat
      BY <1>4, <1>5, FS_CardinalityType
<1> QED BY <1>1, <1>3, <1>4, <1>5, <1>6

LEMMA InitLoad == Init => LoadInv
<1> SUFFICES ASSUME Init  PROVE LoadInv
    OBVIOUS
<1>1. <<>> \in DelegateLists
  <2>1. 0 \in 0..MaxDelegates
        BY LoadAssumption
  <2>2. <<>> \in [1..0 -> {"remote", "loopback"}]
        OBVIOUS
  <2> QED BY <2>1, <2>2 DEF DelegateLists
<1>2. TypeOK
  <2>1. 0 \in 0..MaxResults /\ 0 \in (-MaxDelegates)..MaxDelegates
        BY LoadAssumption
  <2>2. didx \in 0..Len(delegates)
        BY DEF Init
  <2>3. remote \in [Ids -> {"unsent", "queued", "put", "counted", "answered"}]
        BY DEF Init
  <2>4. outcome \in [Ids -> {"none", "accepted", "httpError", "refused", "ignored"}]
        BY DEF Init
  <2> QED BY <1>1, <2>1, <2>2, <2>3, <2>4 DEF Init, TypeOK
<1>3. CountExact /\ InFlightIsCurrent /\ EarlyLeft /\ SentAll /\ ResultStarted
      BY DEF Init, ResultStarted, CountExact, InFlightIsCurrent, InFlight, EarlyLeft, SentAll
<1>4. EarlyCount /\ SentIsAnswered /\ FailureIsKept /\ SuccessIsLast
      BY DEF Init, EarlyCount, SentIsAnswered, FailureIsKept, SuccessIsLast
<1> QED BY <1>2, <1>3, <1>4 DEF LoadInv

-----------------------------------------------------------------------------
(* The steps of the loading thread.                                        *)

LEMMA ExecuteKeeps == LoadInv /\ Execute => LoadInv'
<1> SUFFICES ASSUME LoadInv, Execute  PROVE LoadInv'
    OBVIOUS
<1> USE DEF LoadInv
<1>1. rt /\ pc = "execute" /\ pc' \in {"delegates", "ended"}
      BY DEF Execute, EarlyLeft
<1>2. TypeOK'
      BY <1>1 DEF Execute, TypeOK
<1>3. CountExact' /\ EarlyLeft' /\ EarlyCount'
      BY <1>1 DEF Execute, CountExact, EarlyLeft, EarlyCount
<1>4. InFlightIsCurrent'
      BY <1>1 DEF Execute, InFlightIsCurrent, InFlight
<1>5. SentAll' /\ ResultStarted' /\ SentIsAnswered' /\ FailureIsKept' /\ SuccessIsLast'
      BY <1>1 DEF Execute, ResultStarted, SentAll, SentIsAnswered, FailureIsKept, SuccessIsLast
<1> QED BY <1>2, <1>3, <1>4, <1>5

LEMMA NoDelegateRequestsKeeps == LoadInv /\ NoDelegateRequests => LoadInv'
<1> SUFFICES ASSUME LoadInv, NoDelegateRequests  PROVE LoadInv'
    OBVIOUS
<1> USE DEF LoadInv
<1>1. rt /\ pc = "delegates" /\ pc' = "complete" /\ ~success
      BY DEF NoDelegateRequests, EarlyLeft, SuccessIsLast
<1>2. TypeOK'
      BY <1>1 DEF NoDelegateRequests, TypeOK
<1>3. CountExact' /\ EarlyLeft' /\ EarlyCount'
      BY <1>1 DEF NoDelegateRequests, CountExact, EarlyLeft, EarlyCount
<1>4. InFlightIsCurrent'
      BY <1>1 DEF NoDelegateRequests, InFlightIsCurrent, InFlight
<1>5. SentAll' /\ ResultStarted' /\ SentIsAnswered'
      BY <1>1 DEF NoDelegateRequests, ResultStarted, SentAll, SentIsAnswered
<1>6. FailureIsKept' /\ SuccessIsLast'
      BY <1>1 DEF NoDelegateRequests, FailureIsKept, SuccessIsLast
<1> QED BY <1>2, <1>3, <1>4, <1>5, <1>6

(* Nothing is in flight when the counter of the next result takes over.    *)
LEMMA GetDelegateRequestsKeeps == LoadInv /\ GetDelegateRequests => LoadInv'
<1> SUFFICES ASSUME LoadInv, GetDelegateRequests  PROVE LoadInv'
    OBVIOUS
<1> USE DEF LoadInv
<1>1. rt /\ pc = "delegates" /\ ~success /\ result < MaxResults
      BY DEF GetDelegateRequests, EarlyLeft, SuccessIsLast
<1>2. PICK list \in DelegateLists :
         /\ delegates' = list /\ count' = Len(list)
         /\ pc' = IF list = <<>> THEN "complete" ELSE "send"
      BY DEF GetDelegateRequests, NewCount
<1>3. list \in Seq({"self", "remote", "loopback"}) /\ Len(list) \in 0..MaxDelegates
      BY DelegateListsOK
<1>4. /\ result' = result + 1 /\ didx' = 0
      /\ UNCHANGED <<rt, failed, success, remote, outcome>>
      BY DEF GetDelegateRequests
<1>5. TypeOK'
  <2>1. result' \in 0..MaxResults
        BY <1>1, <1>4, LoadAssumption DEF TypeOK
  <2>2. didx' \in 0..Len(delegates')
        BY <1>2, <1>3, <1>4
  <2>3. count' \in (-MaxDelegates)..MaxDelegates
        BY <1>2, <1>3, LoadAssumption
  <2> QED BY <1>2, <1>4, <2>1, <2>2, <2>3 DEF TypeOK
<1>6. CountExact'
  <2>1. {d \in 1..didx' : remote'[<<result', d>>] \notin {"queued", "put"}} = {}
        BY <1>4
  <2>2. count' = Len(delegates') - 0
        BY <1>2, <1>3
  <2> QED BY <2>1, <2>2, FS_EmptySet DEF CountExact
<1>7. InFlightIsCurrent'
      BY <1>1, <1>4 DEF InFlightIsCurrent, InFlight
<1>8. EarlyLeft' /\ EarlyCount' /\ FailureIsKept' /\ SuccessIsLast'
      BY <1>1, <1>4 DEF EarlyLeft, EarlyCount, FailureIsKept, SuccessIsLast
<1>9. SentAll'
  <2>1. CASE list = <<>>
        BY <1>2, <1>4, <2>1 DEF SentAll
  <2>2. CASE list # <<>>
        BY <1>2, <2>2 DEF SentAll
  <2> QED BY <2>1, <2>2
<1>10. SentIsAnswered' /\ ResultStarted'
      BY <1>4, LoadAssumption DEF SentIsAnswered, ResultStarted, TypeOK
<1> QED BY <1>5, <1>6, <1>7, <1>8, <1>9, <1>10

(* What is known while the loading thread sends.                           *)
LEMMA Sending ==
    ASSUME LoadInv, pc = "send", didx < Len(delegates)
    PROVE  /\ rt /\ ~success /\ Current \in Ids
           /\ didx + 1 \in 1..Len(delegates) /\ didx \in Nat
           /\ ~InFlight(Current)
           /\ count = Len(delegates) - Cardinality(Counted)
<1>1. rt /\ ~success
      BY DEF LoadInv, EarlyLeft, SuccessIsLast
<1>2. didx \in Nat /\ Len(delegates) \in Nat /\ Len(delegates) <= MaxDelegates
      BY SentSets DEF LoadInv
<1>3. result \in 1..MaxResults
  <2>1. CASE result = 0
        BY <2>1, <1>1, LoadAssumption DEF LoadInv, TypeOK, ResultStarted
  <2> QED BY <2>1, LoadAssumption DEF LoadInv, TypeOK
<1>4. Current \in Ids
      BY <1>2, <1>3, LoadAssumption DEF Current, Ids
<1>5. ~InFlight(Current)
  <2>1. Current[2] = didx + 1
        BY DEF Current
  <2> QED BY <1>2, <1>4, <2>1 DEF LoadInv, InFlightIsCurrent
<1>6. count = Len(delegates) - Cardinality(Counted)
      BY <1>1 DEF LoadInv, CountExact, Counted
<1> QED BY <1>1, <1>2, <1>4, <1>5, <1>6

(* A request queued is not counted down yet.                               *)
LEMMA SendRemoteKeeps == LoadInv /\ SendRemote => LoadInv'
<1> SUFFICES ASSUME LoadInv, SendRemote  PROVE LoadInv'
    OBVIOUS
<1> USE DEF LoadInv
<1>1. /\ rt /\ ~success /\ Current \in Ids
      /\ didx + 1 \in 1..Len(delegates) /\ didx \in Nat /\ ~InFlight(Current)
      /\ count = Len(delegates) - Cardinality(Counted) /\ pc = "send"
      BY Sending DEF SendRemote, Sends
<1>2. /\ remote' = [remote EXCEPT ![<<result, didx + 1>>] = "queued"]
      /\ didx' = didx + 1
      /\ UNCHANGED <<pc, result, delegates, count, rt, failed, success, outcome>>
      BY DEF SendRemote, SendRemoteCount, Current
<1>3. /\ remote \in [Ids -> {"unsent", "queued", "put", "counted", "answered"}]
      /\ <<result, didx + 1>> \in Ids
      BY <1>1 DEF TypeOK, Current
<1>4. ASSUME NEW i \in Ids  PROVE remote'[i] = IF i = <<result, didx + 1>> THEN "queued" ELSE remote[i]
      BY <1>2, <1>3
<1>5. \A d \in 1..didx : <<result, d>> \in Ids /\ d # didx + 1
  <2>1. result \in 1..MaxResults /\ didx + 1 \in 1..MaxDelegates
        BY <1>3 DEF Ids
  <2>2. \A d \in 1..didx : d \in 1..MaxDelegates /\ d # didx + 1
        BY <1>1, <2>1, LoadAssumption
  <2> QED BY <2>1, <2>2 DEF Ids
<1>6. TypeOK'
      BY <1>1, <1>2, <1>3 DEF TypeOK
<1>7. CountExact'
  <2>1. \A d \in 1..didx : remote'[<<result, d>>] = remote[<<result, d>>]
        BY <1>4, <1>5
  <2>2. remote'[<<result, didx + 1>>] = "queued"
        BY <1>3, <1>4
  <2>3. 1..didx' = (1..didx) \cup {didx + 1}
        BY <1>1, <1>2
  <2>4. {d \in 1..didx' : remote'[<<result', d>>] \notin {"queued", "put"}} = Counted
        BY <1>2, <2>1, <2>2, <2>3 DEF Counted
  <2> QED BY <1>1, <1>2, <2>4 DEF CountExact
<1>8. InFlightIsCurrent'
  <2>1. ASSUME NEW i \in Ids, remote'[i] \in {"queued", "put"}
        PROVE  i[1] = result' /\ i[2] \in 1..didx' /\ pc' \in {"send", "wait"}
    <3>1. CASE i = <<result, didx + 1>>
          BY <1>1, <1>2, <3>1
    <3>2. CASE i # <<result, didx + 1>>
      <4>1. InFlight(i)
            BY <1>4, <2>1, <3>2 DEF InFlight
      <4> QED BY <1>1, <1>2, <4>1 DEF InFlightIsCurrent
    <3> QED BY <3>1, <3>2
  <2> QED BY <2>1 DEF InFlightIsCurrent, InFlight
<1>9. EarlyLeft' /\ SentAll' /\ ResultStarted' /\ EarlyCount' /\ FailureIsKept' /\ SuccessIsLast'
      BY <1>1, <1>2 DEF EarlyLeft, SentAll, ResultStarted, EarlyCount, FailureIsKept, SuccessIsLast
<1>10. SentIsAnswered'
  <2>1. ASSUME NEW d \in 1..didx'
        PROVE  remote'[<<result', d>>] = "queued" \/ outcome'[<<result', d>>] # "none"
    <3>1. CASE d = didx + 1
          BY <1>2, <1>3, <1>4, <3>1
    <3>2. CASE d \in 1..didx
          BY <1>1, <1>2, <1>4, <1>5, <3>2 DEF SentIsAnswered
    <3> QED BY <1>1, <1>2, <3>1, <3>2
  <2> QED BY <2>1 DEF SentIsAnswered
<1> QED BY <1>6, <1>7, <1>8, <1>9, <1>10

(* The loop over the delegate requests is left: nothing is exact any more. *)
LEMMA BreakKeeps ==
    ASSUME LoadInv, pc = "send", didx < Len(delegates), Break, UNCHANGED success,
           failed' \in BOOLEAN, Outcome(Current, "refused"),
           UNCHANGED <<result, delegates, didx, remote>>
    PROVE  LoadInv'
<1> USE DEF LoadInv
<1>1. count' = 0 /\ ~rt' /\ pc' = "wait" /\ rt'  = FALSE
      BY DEF Break
<1>2. outcome' \in [Ids -> {"none", "accepted", "httpError", "refused", "ignored"}]
      BY DEF Outcome, TypeOK
<1>3. TypeOK'
  <2>1. count' \in (-MaxDelegates)..MaxDelegates
        BY <1>1, LoadAssumption
  <2> QED BY <1>1, <1>2, <2>1 DEF TypeOK
<1>4. CountExact' /\ EarlyLeft' /\ SentAll' /\ ResultStarted'
      BY <1>1 DEF CountExact, EarlyLeft, SentAll, ResultStarted
<1>5. SentIsAnswered' /\ FailureIsKept' /\ SuccessIsLast'
      BY <1>1, Sending DEF SentIsAnswered, FailureIsKept, SuccessIsLast
<1>6. InFlightIsCurrent'
      BY <1>1 DEF InFlightIsCurrent, InFlight
<1>7. EarlyCount'
  <2>1. /\ Cardinality(Pending) \in 0..didx /\ didx \in Nat
        /\ Len(delegates) \in Nat /\ Len(delegates) <= MaxDelegates
        BY SentSets
  <2>2. Pending' = Pending
        BY DEF Pending
  <2>3. 0 - Cardinality(Pending) >= -MaxDelegates
        BY <2>1, LoadAssumption
  <2> QED BY <1>1, <2>2, <2>3 DEF EarlyCount
<1> QED BY <1>3, <1>4, <1>5, <1>6, <1>7

LEMMA SendRefusedKeeps == LoadInv /\ SendRefused => LoadInv'
<1> SUFFICES ASSUME LoadInv, SendRefused  PROVE LoadInv'
    OBVIOUS
<1>1. pc = "send" /\ didx < Len(delegates)
      BY DEF SendRefused, Sends
<1>2. ~success
      BY <1>1, Sending
<1> QED BY <1>1, <1>2, BreakKeeps DEF SendRefused

LEMMA SendFailsKeeps == LoadInv /\ SendFails => LoadInv'
<1> SUFFICES ASSUME LoadInv, SendFails  PROVE LoadInv'
    OBVIOUS
<1>1. pc = "send" /\ didx < Len(delegates)
      BY DEF SendFails
<1>2. ~success /\ failed \in BOOLEAN
      BY <1>1, Sending DEF LoadInv, TypeOK
<1> QED BY <1>1, <1>2, BreakKeeps DEF SendFails

(* What putting an answer to the context changes.                          *)
LEMMA AnswerPut ==
    ASSUME LoadInv, rt, NEW i \in Ids, NEW how \in {"accepted", "httpError", "error"},
           PutDelegateRequestAnswer(i, how)
    PROVE  /\ failed' \in BOOLEAN
           /\ outcome' \in [Ids -> {"none", "accepted", "httpError", "refused", "ignored"}]
           /\ outcome'[i] # "none"
           /\ \A j \in Ids : j # i => outcome'[j] = outcome[j]
           /\ ~failed' => \A j \in Ids : outcome'[j] \notin {"refused", "ignored"}
<1>1. outcome \in [Ids -> {"none", "accepted", "httpError", "refused", "ignored"}] /\ failed \in BOOLEAN
      BY DEF LoadInv, TypeOK
<1>2. ~failed => \A j \in Ids : outcome[j] \notin {"refused", "ignored"}
      BY DEF LoadInv, FailureIsKept
<1>3. CASE failed /\ Outcome(i, "ignored") /\ UNCHANGED failed
      BY <1>1, <1>3 DEF Outcome
<1>4. CASE ~failed /\ Outcome(i, "refused") /\ failed' = TRUE
      BY <1>1, <1>4 DEF Outcome
<1>5. CASE ~failed /\ how # "error" /\ Outcome(i, how) /\ UNCHANGED failed
  <2>1. how \in {"accepted", "httpError"} /\ outcome' = [outcome EXCEPT ![i] = how]
        BY <1>5 DEF Outcome
  <2>2. \A j \in Ids : outcome'[j] = IF j = i THEN how ELSE outcome[j]
        BY <1>1, <2>1
  <2> QED BY <1>1, <1>2, <1>5, <2>1, <2>2
<1> QED BY <1>3, <1>4, <1>5 DEF PutDelegateRequestAnswer

(* The loading thread counts down what it has answered itself.             *)
LEMMA FeedContextKeeps == LoadInv /\ FeedContext => LoadInv'
<1> SUFFICES ASSUME LoadInv, FeedContext  PROVE LoadInv'
    OBVIOUS
<1> USE DEF LoadInv
<1>1. pc = "send" /\ didx < Len(delegates)
      BY DEF FeedContext, Sends
<1>2. /\ rt /\ ~success /\ Current \in Ids
      /\ didx + 1 \in 1..Len(delegates) /\ didx \in Nat /\ ~InFlight(Current)
      /\ count = Len(delegates) - Cardinality(Counted)
      BY <1>1, Sending
<1>3. PutDelegateRequestAnswer(Current, "accepted")
      /\ UNCHANGED <<result, delegates, success, remote>>
      BY DEF FeedContext
<1>4. CASE outcome'[Current] = "refused"
  <2>1. Break /\ UNCHANGED didx
        BY <1>4 DEF FeedContext
  <2>2. Outcome(Current, "refused") /\ failed' = TRUE
    <3>1. CASE failed /\ Outcome(Current, "ignored")
          BY <1>2, <1>4, <3>1 DEF Outcome, TypeOK
    <3>2. CASE ~failed /\ Outcome(Current, "accepted")
          BY <1>2, <1>4, <3>2 DEF Outcome, TypeOK
    <3> QED BY <1>3, <3>1, <3>2 DEF PutDelegateRequestAnswer
  <2> QED BY <1>1, <1>3, <2>1, <2>2, BreakKeeps
<1>5. CASE outcome'[Current] # "refused"
  <2>1. count' = count - 1 /\ didx' = didx + 1 /\ UNCHANGED <<rt, pc>>
        BY <1>5 DEF FeedContext, LoaderCounts
  <2>2. /\ failed' \in BOOLEAN
        /\ outcome' \in [Ids -> {"none", "accepted", "httpError", "refused", "ignored"}]
        /\ outcome'[Current] # "none"
        /\ \A j \in Ids : j # Current => outcome'[j] = outcome[j]
        /\ ~failed' => \A j \in Ids : outcome'[j] \notin {"refused", "ignored"}
        BY <1>2, <1>3, AnswerPut
  <2>3. /\ Cardinality(Counted) \in 0..didx /\ IsFiniteSet(Counted)
        /\ Counted \in SUBSET (1..didx)
        /\ Len(delegates) \in Nat /\ Len(delegates) <= MaxDelegates
        BY SentSets
  <2>4. result \in 1..MaxResults /\ didx + 1 \in 1..MaxDelegates
        BY <1>2 DEF Ids, Current
  <2>5. \A d \in 1..didx : <<result, d>> \in Ids /\ <<result, d>> # Current
    <3>1. \A d \in 1..didx : d \in 1..MaxDelegates /\ d # didx + 1
          BY <1>2, <2>4, LoadAssumption
    <3> QED BY <2>4, <3>1 DEF Ids, Current
  <2>6. TypeOK'
    <3>1. count' \in (-MaxDelegates)..MaxDelegates
          BY <1>2, <2>1, <2>3, LoadAssumption
    <3>2. didx' \in 0..Len(delegates')
          BY <1>2, <1>3, <2>1
    <3>3. {rt', failed', success'} \subseteq BOOLEAN
      <4>1. rt \in BOOLEAN /\ success \in BOOLEAN
            BY DEF TypeOK
      <4>2. rt' = rt /\ success' = success
            BY <1>3, <2>1
      <4> QED BY <2>2, <4>1, <4>2
    <3>4. /\ pc' \in {"execute", "delegates", "send", "wait", "complete", "ended"}
          /\ result' \in 0..MaxResults /\ delegates' \in DelegateLists
          /\ remote' \in [Ids -> {"unsent", "queued", "put", "counted", "answered"}]
          BY <1>3, <2>1 DEF TypeOK
    <3> QED BY <2>2, <3>1, <3>2, <3>3, <3>4 DEF TypeOK
  <2>7. CountExact'
    <3>1. {d \in 1..didx' : remote'[<<result', d>>] \notin {"queued", "put"}}
            = Counted \cup {didx + 1}
      <4>1. 1..didx' = (1..didx) \cup {didx + 1}
            BY <1>2, <2>1
      <4>2. remote[<<result, didx + 1>>] \notin {"queued", "put"}
            BY <1>2 DEF InFlight, Current
      <4> QED BY <1>3, <4>1, <4>2 DEF Counted
    <3>2. didx + 1 \notin Counted
          BY <1>2, <2>3
    <3>3. Cardinality(Counted \cup {didx + 1}) = Cardinality(Counted) + 1
          BY <2>3, <3>2, FS_AddElement
    <3>4. count' = Len(delegates') - Cardinality(Counted \cup {didx + 1})
          BY <1>2, <1>3, <2>1, <2>3, <3>3
    <3> QED BY <3>1, <3>4 DEF CountExact
  <2>8. InFlightIsCurrent'
    <3>1. \A d \in 1..didx : d \in 1..didx'
          BY <1>2, <2>1
    <3> QED BY <1>3, <2>1, <3>1 DEF InFlightIsCurrent, InFlight
  <2>9. EarlyLeft' /\ SentAll' /\ ResultStarted' /\ EarlyCount'
        BY <1>1, <1>2, <1>3, <2>1 DEF EarlyLeft, SentAll, ResultStarted, EarlyCount
  <2>10. FailureIsKept' /\ SuccessIsLast'
        BY <1>2, <1>3, <2>2 DEF FailureIsKept, SuccessIsLast
  <2>11. SentIsAnswered'
    <3>1. ASSUME NEW d \in 1..didx'
          PROVE  remote'[<<result', d>>] = "queued" \/ outcome'[<<result', d>>] # "none"
      <4>1. CASE d = didx + 1
            BY <1>3, <2>2, <4>1 DEF Current
      <4>2. CASE d \in 1..didx
            BY <1>2, <1>3, <2>2, <2>5, <4>2 DEF SentIsAnswered
      <4> QED BY <1>2, <2>1, <4>1, <4>2
    <3> QED BY <3>1 DEF SentIsAnswered
  <2> QED BY <2>6, <2>7, <2>8, <2>9, <2>10, <2>11
<1> QED BY <1>4, <1>5

LEMMA AllSentKeeps == LoadInv /\ AllSent => LoadInv'
<1> SUFFICES ASSUME LoadInv, AllSent  PROVE LoadInv'
    OBVIOUS
<1> USE DEF LoadInv
<1>1. rt /\ pc = "send" /\ pc' = "wait" /\ didx = Len(delegates) /\ ~success
      BY DEF AllSent, EarlyLeft, SuccessIsLast
<1>2. TypeOK' /\ CountExact' /\ InFlightIsCurrent'
      BY <1>1 DEF AllSent, TypeOK, CountExact, InFlightIsCurrent, InFlight
<1>3. EarlyLeft' /\ SentAll' /\ ResultStarted' /\ EarlyCount'
      BY <1>1 DEF AllSent, EarlyLeft, SentAll, ResultStarted, EarlyCount
<1>4. SentIsAnswered' /\ FailureIsKept' /\ SuccessIsLast'
      BY <1>1 DEF AllSent, SentIsAnswered, FailureIsKept, SuccessIsLast
<1> QED BY <1>2, <1>3, <1>4

(* The counter is zero only when everything sent is counted down.          *)
LEMMA WaitKeeps == LoadInv /\ Wait => LoadInv'
<1> SUFFICES ASSUME LoadInv, Wait  PROVE LoadInv'
    OBVIOUS
<1> USE DEF LoadInv
<1>1. /\ pc = "wait" /\ count <= 0 /\ pc' \in {"delegates", "ended"} /\ ~success
      /\ pc' = IF rt THEN "delegates" ELSE "ended"
      /\ UNCHANGED <<result, delegates, didx, count, rt, failed, success, remote, outcome>>
      BY DEF Wait, WaitOver, SuccessIsLast
<1>2. rt => \A i \in Ids : ~InFlight(i)
  <2> SUFFICES ASSUME rt  PROVE \A i \in Ids : ~InFlight(i)
      OBVIOUS
  <2>1. didx = Len(delegates) /\ count = Len(delegates) - Cardinality(Counted)
        BY <1>1 DEF SentAll, CountExact, Counted
  <2>2. Counted = 1..didx
        BY <1>1, <2>1, SentSets DEF TypeOK
  <2>3. ASSUME NEW i \in Ids, InFlight(i)  PROVE FALSE
    <3>1. i = <<i[1], i[2]>>
          BY DEF Ids
    <3>2. i[1] = result /\ i[2] \in Counted
          BY <2>2, <2>3 DEF InFlightIsCurrent
    <3>3. remote[i] \notin {"queued", "put"}
          BY <3>1, <3>2 DEF Counted
    <3> QED BY <2>3, <3>3 DEF InFlight
  <2> QED BY <2>3
<1>3. TypeOK' /\ CountExact'
      BY <1>1 DEF TypeOK, CountExact
<1>4. InFlightIsCurrent'
      BY <1>1, <1>2 DEF InFlightIsCurrent, InFlight
<1>5. EarlyLeft' /\ SentAll' /\ ResultStarted' /\ EarlyCount'
      BY <1>1 DEF EarlyLeft, SentAll, ResultStarted, EarlyCount
<1>6. SentIsAnswered' /\ FailureIsKept' /\ SuccessIsLast'
      BY <1>1 DEF SentIsAnswered, FailureIsKept, SuccessIsLast
<1> QED BY <1>3, <1>4, <1>5, <1>6

LEMMA CompleteKeeps == LoadInv /\ Complete => LoadInv'
<1> SUFFICES ASSUME LoadInv, Complete  PROVE LoadInv'
    OBVIOUS
<1> USE DEF LoadInv
<1>1. rt /\ pc = "complete" /\ pc' = "ended" /\ success' \in {FALSE, ~failed}
      BY DEF Complete, Completes, EarlyLeft
<1>2. TypeOK' /\ CountExact' /\ InFlightIsCurrent'
      BY <1>1 DEF Complete, TypeOK, CountExact, InFlightIsCurrent, InFlight
<1>3. EarlyLeft' /\ SentAll' /\ ResultStarted' /\ EarlyCount'
      BY <1>1 DEF Complete, EarlyLeft, SentAll, ResultStarted, EarlyCount
<1>4. SentIsAnswered' /\ FailureIsKept' /\ SuccessIsLast'
      BY <1>1 DEF Complete, SentIsAnswered, FailureIsKept, SuccessIsLast
<1> QED BY <1>2, <1>3, <1>4

-----------------------------------------------------------------------------
(* The steps of the thread of the event loop.                              *)

(* A change of one request's state that leaves it in flight, or out.       *)
LEMMA RemoteStep ==
    ASSUME LoadInv, NEW i \in Ids,
           NEW how \in {"put", "counted", "answered"},
           remote' = [remote EXCEPT ![i] = how],
           UNCHANGED <<pc, result, delegates, didx, rt, success>>
    PROVE  /\ remote' \in [Ids -> {"unsent", "queued", "put", "counted", "answered"}]
           /\ \A j \in Ids : remote'[j] = IF j = i THEN how ELSE remote[j]
           /\ \A d \in 1..didx : <<result, d>> \in Ids \/ result = 0
           /\ EarlyLeft' /\ SentAll' /\ ResultStarted'
<1>1. remote \in [Ids -> {"unsent", "queued", "put", "counted", "answered"}]
      BY DEF LoadInv, TypeOK
<1>2. \A d \in 1..didx : <<result, d>> \in Ids \/ result = 0
  <2>1. result \in 0..MaxResults
        BY DEF LoadInv, TypeOK
  <2>2. didx \in Nat /\ didx <= MaxDelegates
    <3>1. /\ didx \in Nat /\ Len(delegates) \in Nat
          /\ didx <= Len(delegates) /\ Len(delegates) <= MaxDelegates
          BY SentSets DEF LoadInv
    <3> QED BY <3>1, LoadAssumption
  <2> QED BY <2>1, <2>2, LoadAssumption DEF Ids
<1>3. EarlyLeft' /\ SentAll' /\ ResultStarted'
      BY DEF LoadInv, EarlyLeft, SentAll, ResultStarted
<1> QED BY <1>1, <1>2, <1>3

(* No answer is put after the load has gone on, unless it was left early.  *)
LEMMA PutAnswerKeeps == ASSUME NEW i \in Ids  PROVE LoadInv /\ PutAnswer(i) => LoadInv'
<1> SUFFICES ASSUME LoadInv, PutAnswer(i)  PROVE LoadInv'
    OBVIOUS
<1>0. ASSUME rt, NEW how \in {"accepted", "httpError", "error"},
             PutDelegateRequestAnswer(i, how)
      PROVE  /\ failed' \in BOOLEAN
             /\ outcome' \in [Ids -> {"none", "accepted", "httpError", "refused", "ignored"}]
             /\ outcome'[i] # "none"
             /\ \A j \in Ids : j # i => outcome'[j] = outcome[j]
             /\ ~failed' => \A j \in Ids : outcome'[j] \notin {"refused", "ignored"}
      BY <1>0, AnswerPut
<1> USE DEF LoadInv
<1>1. /\ remote[i] = "queued" /\ remote' = [remote EXCEPT ![i] = "put"]
      /\ UNCHANGED <<pc, result, delegates, didx, count, rt, success>>
      BY DEF PutAnswer
<1>2. PICK how \in {"accepted", "httpError", "error"} : PutDelegateRequestAnswer(i, how)
      BY DEF PutAnswer
<1>3. /\ remote' \in [Ids -> {"unsent", "queued", "put", "counted", "answered"}]
      /\ \A j \in Ids : remote'[j] = IF j = i THEN "put" ELSE remote[j]
      /\ EarlyLeft' /\ SentAll' /\ ResultStarted'
      BY <1>1, RemoteStep
<1>4. /\ i[1] = result /\ i[2] \in 1..didx /\ i = <<result, i[2]>>
      /\ rt => pc \in {"send", "wait"}
      BY <1>1 DEF InFlightIsCurrent, InFlight, Ids
<1>5. /\ failed' \in BOOLEAN
      /\ outcome' \in [Ids -> {"none", "accepted", "httpError", "refused", "ignored"}]
      /\ rt => /\ outcome'[i] # "none"
               /\ \A j \in Ids : j # i => outcome'[j] = outcome[j]
               /\ ~failed' => \A j \in Ids : outcome'[j] \notin {"refused", "ignored"}
  <2>1. CASE rt
        BY <1>0, <1>2, <2>1
  <2>2. CASE ~rt
        BY <1>2, <2>2 DEF PutDelegateRequestAnswer, Outcome, TypeOK
  <2> QED BY <2>1, <2>2
<1>6. \A d \in 1..didx : (remote'[<<result, d>>] \in {"queued", "put"})
                           <=> (remote[<<result, d>>] \in {"queued", "put"})
  <2>1. ASSUME NEW d \in 1..didx  PROVE <<result, d>> \in Ids
    <3>1. result # 0
          BY <1>4, LoadAssumption DEF Ids
    <3> QED BY <1>1, <3>1, RemoteStep
  <2> QED BY <1>1, <1>3, <2>1
<1>7. TypeOK'
  <2>1. {rt', failed', success'} \subseteq BOOLEAN
    <3>1. rt \in BOOLEAN /\ success \in BOOLEAN
          BY DEF TypeOK
    <3> QED BY <1>1, <1>5, <3>1
  <2> QED BY <1>1, <1>3, <1>5, <2>1 DEF TypeOK
<1>8. CountExact'
  <2>1. {d \in 1..didx' : remote'[<<result', d>>] \notin {"queued", "put"}}
          = {d \in 1..didx : remote[<<result, d>>] \notin {"queued", "put"}}
        BY <1>1, <1>6
  <2> QED BY <1>1, <2>1 DEF CountExact
<1>9. EarlyCount'
  <2>1. Pending' = Pending
        BY <1>1, <1>6 DEF Pending
  <2> QED BY <1>1, <2>1 DEF EarlyCount
<1>10. InFlightIsCurrent'
  <2>1. ASSUME NEW j \in Ids, remote'[j] \in {"queued", "put"}
        PROVE  remote[j] \in {"queued", "put"}
        BY <1>1, <1>3, <2>1
  <2> QED BY <1>1, <2>1 DEF InFlightIsCurrent, InFlight
<1>11. SentIsAnswered'
  <2>1. ASSUME rt, NEW d \in 1..didx
        PROVE  remote'[<<result, d>>] = "queued" \/ outcome'[<<result, d>>] # "none"
    <3>1. CASE <<result, d>> = i
          BY <1>5, <2>1, <3>1
    <3>2. CASE <<result, d>> # i
      <4>1. <<result, d>> \in Ids
        <5>1. result # 0
              BY <1>4, LoadAssumption DEF Ids
        <5> QED BY <1>1, <5>1, RemoteStep
      <4> QED BY <1>3, <1>5, <2>1, <3>2, <4>1 DEF SentIsAnswered
    <3> QED BY <3>1, <3>2
  <2> QED BY <1>1, <2>1 DEF SentIsAnswered
<1>12. FailureIsKept'
      BY <1>1, <1>5 DEF FailureIsKept
<1>13. SuccessIsLast'
      BY <1>1, <1>4 DEF SuccessIsLast
<1> QED BY <1>3, <1>7, <1>8, <1>9, <1>10, <1>11, <1>12, <1>13

(* A request counted down leaves the flight as the counter goes down.      *)
LEMMA DecrementKeeps == ASSUME NEW i \in Ids  PROVE LoadInv /\ Decrement(i) => LoadInv'
<1> SUFFICES ASSUME LoadInv, Decrement(i)  PROVE LoadInv'
    OBVIOUS
<1> USE DEF LoadInv
<1>1. /\ remote[i] = "put" /\ remote' = [remote EXCEPT ![i] = "counted"]
      /\ count' = IF CounterAlive(i) THEN count - 1 ELSE count
      /\ UNCHANGED <<pc, result, delegates, didx, rt, failed, success, outcome>>
      BY DEF Decrement
<1>2. /\ remote' \in [Ids -> {"unsent", "queued", "put", "counted", "answered"}]
      /\ \A j \in Ids : remote'[j] = IF j = i THEN "counted" ELSE remote[j]
      /\ EarlyLeft' /\ SentAll' /\ ResultStarted'
      BY <1>1, RemoteStep
<1>3. /\ i[1] = result /\ i[2] \in 1..didx /\ i = <<result, i[2]>>
      /\ rt => pc \in {"send", "wait"}
      BY <1>1 DEF InFlightIsCurrent, InFlight, Ids
<1>4. CounterAlive(i) <=> pc \in {"send", "wait"}
      BY <1>3 DEF CounterAlive
<1>5. ASSUME NEW d \in 1..didx
      PROVE  /\ <<result, d>> \in Ids
             /\ remote'[<<result, d>>] = IF d = i[2] THEN "counted" ELSE remote[<<result, d>>]
  <2>1. <<result, d>> \in Ids
    <3>1. result # 0
          BY <1>3, LoadAssumption DEF Ids
    <3> QED BY <1>1, <3>1, RemoteStep
  <2>2. <<result, d>> = i <=> d = i[2]
        BY <1>3
  <2> QED BY <1>2, <2>1, <2>2
<1>6. /\ didx \in Nat /\ Len(delegates) \in Nat /\ didx <= Len(delegates)
      /\ Len(delegates) <= MaxDelegates
      /\ Cardinality(Counted) \in 0..didx /\ IsFiniteSet(Counted)
      /\ Cardinality(Pending) \in 0..didx /\ IsFiniteSet(Pending)
      BY SentSets
<1>7. /\ Counted' = Counted \cup {i[2]} /\ i[2] \notin Counted
      /\ Cardinality(Counted') = Cardinality(Counted) + 1
  <2>1. i[2] \notin Counted
        BY <1>1, <1>3 DEF Counted
  <2>2. Counted' = Counted \cup {i[2]}
        BY <1>1, <1>3, <1>5 DEF Counted
  <2> QED BY <1>6, <2>1, <2>2, FS_AddElement
<1>8. Cardinality(Pending') = Cardinality(Pending) - 1 /\ Cardinality(Pending) >= 1
  <2>1. i[2] \in Pending
        BY <1>1, <1>3 DEF Pending
  <2>2. Pending' = Pending \ {i[2]}
        BY <1>1, <1>5 DEF Pending
  <2>3. Cardinality(Pending') = Cardinality(Pending) - 1
        BY <1>6, <2>1, <2>2, FS_RemoveElement
  <2>4. Cardinality(Pending') \in Nat
        BY <1>6, <2>2, FS_RemoveElement, FS_CardinalityType
  <2> QED BY <1>6, <2>3, <2>4
<1>9. CountExact'
  <2>1. CASE pc \in {"send", "wait"} /\ rt
    <3>1. count = Len(delegates) - Cardinality(Counted) /\ count' = count - 1
          BY <1>1, <1>4, <2>1 DEF CountExact, Counted
    <3>2. count' = Len(delegates') - Cardinality(Counted')
          BY <1>1, <1>6, <1>7, <3>1
    <3> QED BY <3>2 DEF CountExact, Counted
  <2>2. CASE ~(pc \in {"send", "wait"} /\ rt)
        BY <1>1, <2>2 DEF CountExact
  <2> QED BY <2>1, <2>2
<1>10. EarlyCount'
  <2>1. CASE ~rt /\ pc = "wait"
    <3>1. /\ count - Cardinality(Pending) >= -MaxDelegates /\ count <= 0
          /\ count' = count - 1 /\ count \in Int
          BY <1>1, <1>4, <2>1, LoadAssumption DEF EarlyCount, TypeOK
    <3>2. count' <= 0
          BY <3>1
    <3>3. count' - Cardinality(Pending') >= -MaxDelegates
          BY <1>6, <1>8, <3>1, LoadAssumption
    <3> QED BY <3>2, <3>3 DEF EarlyCount
  <2>2. CASE ~(~rt /\ pc = "wait")
        BY <1>1, <2>2 DEF EarlyCount
  <2> QED BY <2>1, <2>2
<1>11. TypeOK'
  <2>1. count' \in (-MaxDelegates)..MaxDelegates
    <3>1. CASE pc \in {"send", "wait"} /\ rt
      <4>1. count = Len(delegates) - Cardinality(Counted) /\ count' = count - 1
            BY <1>1, <1>4, <3>1 DEF CountExact, Counted
      <4>2. MaxDelegates \in Nat /\ MaxDelegates >= 1
            BY LoadAssumption
      <4> QED BY <1>6, <4>1, <4>2
    <3>2. CASE pc = "wait" /\ ~rt
      <4>1. count - Cardinality(Pending) >= -MaxDelegates /\ count' = count - 1
            /\ count \in (-MaxDelegates)..MaxDelegates
            BY <1>1, <1>4, <3>2 DEF EarlyCount, TypeOK
      <4> QED BY <1>6, <1>8, <4>1, LoadAssumption
    <3>3. CASE pc \notin {"send", "wait"}
          BY <1>1, <1>4, <3>3 DEF TypeOK
    <3> QED BY <3>1, <3>2, <3>3 DEF EarlyLeft
  <2> QED BY <1>1, <1>2, <2>1 DEF TypeOK
<1>12. InFlightIsCurrent'
  <2>1. ASSUME NEW j \in Ids, remote'[j] \in {"queued", "put"}
        PROVE  remote[j] \in {"queued", "put"}
        BY <1>2, <2>1
  <2> QED BY <1>1, <2>1 DEF InFlightIsCurrent, InFlight
<1>13. SentIsAnswered'
  <2>1. ASSUME rt, NEW d \in 1..didx
        PROVE  remote'[<<result, d>>] = "queued" \/ outcome'[<<result, d>>] # "none"
    <3>1. CASE d = i[2]
          BY <1>1, <1>3, <2>1, <3>1 DEF SentIsAnswered
    <3>2. CASE d # i[2]
          BY <1>1, <1>5, <2>1, <3>2 DEF SentIsAnswered
    <3> QED BY <3>1, <3>2
  <2> QED BY <1>1, <2>1 DEF SentIsAnswered
<1>14. FailureIsKept' /\ SuccessIsLast'
      BY <1>1 DEF FailureIsKept, SuccessIsLast
<1> QED BY <1>2, <1>9, <1>10, <1>11, <1>12, <1>13, <1>14

LEMMA AnswerDoneKeeps == ASSUME NEW i \in Ids  PROVE LoadInv /\ AnswerDone(i) => LoadInv'
<1> SUFFICES ASSUME LoadInv, AnswerDone(i)  PROVE LoadInv'
    OBVIOUS
<1> USE DEF LoadInv
<1>1. /\ remote[i] = "counted" /\ remote' = [remote EXCEPT ![i] = "answered"]
      /\ UNCHANGED <<pc, result, delegates, didx, count, rt, failed, success, outcome>>
      BY DEF AnswerDone
<1>2. /\ remote' \in [Ids -> {"unsent", "queued", "put", "counted", "answered"}]
      /\ \A j \in Ids : remote'[j] = IF j = i THEN "answered" ELSE remote[j]
      /\ EarlyLeft' /\ SentAll' /\ ResultStarted'
      BY <1>1, RemoteStep
<1>3. \A j : (remote'[j] \in {"queued", "put"}) <=> (remote[j] \in {"queued", "put"})
      BY <1>1, <1>2 DEF TypeOK
<1>4. \A d : (remote[<<result, d>>] = "queued") <=> (remote'[<<result, d>>] = "queued")
      BY <1>1, <1>2 DEF TypeOK
<1>5. TypeOK' /\ CountExact'
      BY <1>1, <1>2, <1>3 DEF TypeOK, CountExact
<1>6. InFlightIsCurrent'
      BY <1>1, <1>3 DEF InFlightIsCurrent, InFlight
<1>7. EarlyCount'
  <2>1. Pending' = Pending
        BY <1>1, <1>3 DEF Pending
  <2> QED BY <1>1, <2>1 DEF EarlyCount
<1>8. SentIsAnswered' /\ FailureIsKept' /\ SuccessIsLast'
      BY <1>1, <1>4 DEF SentIsAnswered, FailureIsKept, SuccessIsLast
<1> QED BY <1>2, <1>5, <1>6, <1>7, <1>8

LEMMA UnchangedKeeps == LoadInv /\ UNCHANGED vars => LoadInv'
<1> SUFFICES ASSUME LoadInv, UNCHANGED vars  PROVE LoadInv'
    OBVIOUS
<1> USE DEF LoadInv, vars
<1>1. TypeOK' /\ CountExact' /\ InFlightIsCurrent'
      BY DEF TypeOK, CountExact, InFlightIsCurrent, InFlight
<1>2. EarlyLeft' /\ SentAll' /\ ResultStarted'
      BY DEF EarlyLeft, SentAll, ResultStarted
<1>3. EarlyCount'
  <2>1. Pending' = Pending
        BY DEF Pending
  <2> QED BY <2>1 DEF EarlyCount
<1>4. SentIsAnswered' /\ FailureIsKept' /\ SuccessIsLast'
      BY DEF SentIsAnswered, FailureIsKept, SuccessIsLast
<1> QED BY <1>1, <1>2, <1>3, <1>4

LEMMA NextKeeps == LoadInv /\ [Next]_vars => LoadInv'
<1> SUFFICES ASSUME LoadInv, [Next]_vars  PROVE LoadInv'
    OBVIOUS
<1>1. CASE Execute             BY <1>1, ExecuteKeeps
<1>2. CASE GetDelegateRequests BY <1>2, GetDelegateRequestsKeeps
<1>3. CASE NoDelegateRequests  BY <1>3, NoDelegateRequestsKeeps
<1>4. CASE SendRemote          BY <1>4, SendRemoteKeeps
<1>5. CASE SendRefused         BY <1>5, SendRefusedKeeps
<1>6. CASE FeedContext         BY <1>6, FeedContextKeeps
<1>7. CASE SendFails           BY <1>7, SendFailsKeeps
<1>8. CASE AllSent             BY <1>8, AllSentKeeps
<1>9. CASE Wait                BY <1>9, WaitKeeps
<1>10. CASE Complete           BY <1>10, CompleteKeeps
<1>11. CASE EventLoop
  <2>1. PICK i \in Ids : PutAnswer(i) \/ Decrement(i) \/ AnswerDone(i)
        BY <1>11 DEF EventLoop
  <2> QED BY <2>1, PutAnswerKeeps, DecrementKeeps, AnswerDoneKeeps
<1>12. CASE UNCHANGED vars     BY <1>12, UnchangedKeeps
<1> QED BY <1>1, <1>2, <1>3, <1>4, <1>5, <1>6, <1>7, <1>8, <1>9, <1>10, <1>11, <1>12
        DEF Next, Loader

(* The invariant of a load holds in every state, for every number of       *)
(* results and of delegate requests.                                       *)
THEOREM LoadInvariant == Spec => []LoadInv
<1>1. Init => LoadInv
      BY InitLoad
<1>2. LoadInv /\ [Next]_vars => LoadInv'
      BY NextKeeps
<1> QED BY <1>1, <1>2, PTL DEF Spec

-----------------------------------------------------------------------------
(* The state is well-formed; the counter stays between the number of       *)
(* delegate requests and what late answers make of it.                     *)
THEOREM LoadTypeCorrect == Spec => []TypeOK
<1>1. LoadInv => TypeOK
      BY DEF LoadInv
<1> QED BY <1>1, LoadInvariant, PTL

(* The counter on the stack of runConfigurationLoad is the number of       *)
(* delegate requests not yet counted down, by either thread.               *)
THEOREM CounterIsExact == Spec => []CountExact
<1>1. LoadInv => CountExact
      BY DEF LoadInv
<1> QED BY <1>1, LoadInvariant, PTL

(* The receiver of an answer finds the counter and the context it has      *)
(* pointers to: the loading thread goes on when nothing is in flight.      *)
THEOREM AnswersComeInTime == Spec => []AnsweredInTime
<1>1. LoadInv => AnsweredInTime
      BY DEF LoadInv, InFlightIsCurrent, InFlight, AnsweredInTime
<1> QED BY <1>1, LoadInvariant, PTL

(* A load succeeds only when every delegate request of its last result was *)
(* answered and no answer of any was refused or ignored.                   *)
THEOREM SuccessIsEarned == Spec => []SuccessMeansAccepted
<1>1. LoadInv => SuccessMeansAccepted
  <2> SUFFICES ASSUME LoadInv, success  PROVE SuccessMeansAccepted
      BY DEF SuccessMeansAccepted
  <2>1. pc = "ended" /\ rt /\ ~failed
        BY DEF LoadInv, SuccessIsLast
  <2>2. \A i \in Ids : outcome[i] \notin {"refused", "ignored"}
        BY <2>1 DEF LoadInv, FailureIsKept
  <2>3. didx = Len(delegates)
        BY <2>1 DEF LoadInv, SentAll
  <2>4. ASSUME NEW d \in 1..Len(delegates)  PROVE outcome[<<result, d>>] # "none"
    <3>1. \/ remote[<<result, d>>] = "queued"
          \/ outcome[<<result, d>>] # "none"
          BY <2>1, <2>3 DEF LoadInv, SentIsAnswered
    <3>2. CASE result = 0
          BY <3>2 DEF LoadInv, ResultStarted
    <3>3. CASE result # 0
      <4>1. result \in 1..MaxResults /\ d \in 1..MaxDelegates
            BY <3>3, LoadAssumption, SentSets DEF LoadInv, TypeOK
      <4>2. <<result, d>> \in Ids
            BY <4>1 DEF Ids
      <4>3. remote[<<result, d>>] # "queued"
            BY <2>1, <4>2 DEF LoadInv, InFlightIsCurrent, InFlight
      <4> QED BY <3>1, <4>3
    <3> QED BY <3>2, <3>3
  <2> QED BY <2>2, <2>4 DEF SuccessMeansAccepted
<1> QED BY <1>1, LoadInvariant, PTL

-----------------------------------------------------------------------------
(* What LoadEnds rests on, apart from the fairness of the two threads.     *)

WaitIsAnswered ==
    pc = "wait" /\ ~WaitOver => \E i \in Ids : InFlight(i) /\ CounterAlive(i)

Stages == <<"ended", "complete", "delegates", "wait", "send", "execute">>
Stage(p) == CHOOSE k \in DOMAIN Stages : Stages[k] = p
Onward == [queued |-> "put", put |-> "counted", counted |-> "answered"]

(* The loading thread takes up the next of the results, goes on to a later *)
(* stage of the one it works on, or to the next of its delegate requests.  *)
LoaderCloser ==
    \/ result' = result + 1 /\ result' <= MaxResults
    \/ result' = result /\ Stage(pc') < Stage(pc)
    \/ UNCHANGED <<result, delegates, pc>> /\ didx' = didx + 1 /\ didx' <= Len(delegates)

(* The event loop takes one answer further, and the loading thread nowhere. *)
AnswerCloser ==
    /\ UNCHANGED <<result, delegates, pc, didx>>
    /\ \E i \in Ids : /\ remote[i] \in DOMAIN Onward
                      /\ remote' = [remote EXCEPT ![i] = Onward[remote[i]]]

LEMMA StageOrder ==
    /\ Stage("ended") = 1 /\ Stage("complete") = 2 /\ Stage("delegates") = 3
    /\ Stage("wait") = 4 /\ Stage("send") = 5 /\ Stage("execute") = 6
BY DEF Stage, Stages

(* The loading thread polls the counter only while an answer is on its way *)
(* that counts it down: it waits for nothing that never comes, however     *)
(* many requests it could not send (runConfigurationLoad, count.set( 0)).  *)
THEOREM NoWaitInVain == Spec => []WaitIsAnswered
<1>1. LoadInv => WaitIsAnswered
  <2> SUFFICES ASSUME LoadInv, pc = "wait", ~WaitOver
               PROVE  \E i \in Ids : InFlight(i) /\ CounterAlive(i)
      BY DEF WaitIsAnswered
  <2>1. count \in Int /\ count > 0
        BY LoadAssumption DEF WaitOver, LoadInv, TypeOK
  <2>2. rt
        BY <2>1 DEF LoadInv, EarlyCount
  <2>3. didx = Len(delegates) /\ count = Len(delegates) - Cardinality(Counted)
        BY <2>2 DEF LoadInv, SentAll, CountExact, Counted
  <2>4. didx \in Nat /\ Len(delegates) \in Nat /\ Len(delegates) <= MaxDelegates /\ result \in Nat
        BY SentSets DEF LoadInv
  <2>5. Counted # 1..didx
    <3>1. Cardinality(1..didx) = didx
          BY <2>4, IntervalFinite
    <3> QED BY <2>1, <2>3, <2>4, <3>1
  <2>6. PICK d \in 1..didx : remote[<<result, d>>] \in {"queued", "put"}
        BY <2>5 DEF Counted
  <2>7. <<result, d>> \in Ids
    <3>1. result # 0
      <4>1. result = 0 => Len(delegates) = 0
            BY DEF LoadInv, ResultStarted
      <4> QED BY <2>3, <2>4, <4>1
    <3>2. result \in 1..MaxResults /\ d \in 1..MaxDelegates
          BY <2>3, <2>4, <3>1, LoadAssumption DEF LoadInv, TypeOK
    <3> QED BY <3>2 DEF Ids
  <2> QED BY <2>6, <2>7 DEF InFlight, CounterAlive
<1> QED BY <1>1, LoadInvariant, PTL

(* Every step is one towards the end: the loading thread never goes back   *)
(* to a result or a request it has done with, and what the event loop does *)
(* in between is finished after three steps for each request queued.       *)
THEOREM LoadComesCloser == Spec => [][LoaderCloser \/ AnswerCloser]_vars
<1>1. LoadInv /\ Next => LoaderCloser \/ AnswerCloser
  <2> SUFFICES ASSUME LoadInv, Next
               PROVE  LoaderCloser \/ AnswerCloser
      OBVIOUS
  <2>1. /\ result \in Nat /\ MaxResults \in Nat /\ result <= MaxResults
        /\ didx \in Nat /\ Len(delegates) \in Nat
        BY SentSets, LoadAssumption DEF LoadInv, TypeOK
  <2>2. CASE Execute
        BY <2>2, StageOrder DEF Execute, LoaderCloser
  <2>3. CASE GetDelegateRequests
        BY <2>1, <2>3 DEF GetDelegateRequests, LoaderCloser
  <2>4. CASE NoDelegateRequests
        BY <2>4, StageOrder DEF NoDelegateRequests, LoaderCloser
  <2>5. CASE SendRemote
        BY <2>1, <2>5 DEF SendRemote, Sends, LoaderCloser
  <2>6. CASE SendRefused \/ SendFails
        BY <2>6, StageOrder DEF SendRefused, SendFails, Sends, Break, LoaderCloser
  <2>7. CASE FeedContext
    <3>1. CASE Break
          BY <2>7, <3>1, StageOrder DEF FeedContext, Sends, Break, LoaderCloser
    <3>2. CASE didx' = didx + 1 /\ UNCHANGED pc
          BY <2>1, <2>7, <3>2 DEF FeedContext, Sends, LoaderCloser
    <3> QED BY <2>7, <3>1, <3>2 DEF FeedContext
  <2>8. CASE AllSent
        BY <2>8, StageOrder DEF AllSent, LoaderCloser
  <2>9. CASE Wait
        BY <2>9, StageOrder DEF Wait, LoaderCloser
  <2>10. CASE Complete
        BY <2>10, StageOrder DEF Complete, LoaderCloser
  <2>11. CASE EventLoop
        BY <2>11 DEF EventLoop, PutAnswer, Decrement, AnswerDone, AnswerCloser, Onward
  <2> QED BY <2>2, <2>3, <2>4, <2>5, <2>6, <2>7, <2>8, <2>9, <2>10, <2>11 DEF Next, Loader
<1>2. LoadInv /\ [Next]_vars => [LoaderCloser \/ AnswerCloser]_vars
      BY <1>1
<1> QED BY <1>2, LoadInvariant, PTL DEF Spec

=============================================================================
