--------------------------- MODULE TransportProofs ---------------------------
(***************************************************************************)
(* Theorems about the two components that carry the frames of              *)
(* MelsecSerialClient: the blocking client over a serial port (HostSync)   *)
(* and the facade over a UART (UartClient).  Each drives its client only   *)
(* by the client's own operations, so all that McClientProofs shows holds  *)
(* of it; the runner keeps HostInvariant and the facade UartInvariant.     *)
(* Nothing of one component is used in the proofs of the other.            *)
(***************************************************************************)
EXTENDS HostSync, UartClient, McClientProofs

-----------------------------------------------------------------------------
(* The blocking client implements the asynchronous one.                    *)

LEMMA HostStepIsClientStep == HostNext => Next
<1> SUFFICES ASSUME HostNext
             PROVE  Next
  OBVIOUS
<1> USE HostAssumption
<1>1. CASE \E f \in BOOLEAN : Open(f)
  BY <1>1 DEF Open, Next
<1>2. CASE Close
  BY <1>2 DEF Close, Next
<1>3. CASE \E op \in Operations : CallSingle(op)
  BY <1>3 DEF CallSingle, Next
<1>4. CASE CallBitInWord
  BY <1>4 DEF CallBitInWord, Next
<1>5. CASE RequestPart
  BY <1>5 DEF RequestPart, Next
<1>6. CASE FlushRx
  BY <1>6 DEF FlushRx, Next
<1>7. CASE StartTx
  BY <1>7 DEF StartTx, NotifyTxStarted, Next
<1>8. ASSUME NEW deadline, NEW code \in PortFailures(deadline), SendFails(code)
      PROVE  Next
  BY <1>8 DEF PortFailures, SendFails, Next
<1>9. CASE WriteAll
  BY <1>8, <1>9 DEF WriteAll, Next
<1>10. CASE DrainTx
  BY <1>8, <1>10 DEF DrainTx, Next
<1>11. CASE SendSucceeds
  BY <1>11 DEF SendSucceeds, Next
<1>12. CASE WaitTop
  BY <1>12 DEF WaitTop, PollInLoop, Poll, Next
<1>13. CASE ReadTimesOut
  BY <1>13 DEF ReadTimesOut, PollInLoop, Poll, Next
<1>14. CASE LoopEnd
  BY <1>14 DEF LoopEnd, PollInLoop, Poll, Next
<1>15. CASE Finish
  BY <1>15 DEF Finish, Next
<1>16. CASE EndBitInWord
  BY <1>16 DEF EndBitInWord, Next
<1>17. CASE ReceivesBytes
  BY <1>17 DEF ReceivesBytes, Next
<1>18. CASE ReceivesNothing
  BY <1>18 DEF ReceivesNothing, Next
<1>19. CASE ReadFails
  BY <1>19 DEF ReadFails, Next
<1>20. CASE HostTick
  BY <1>20 DEF HostTick, Next
<1> QED
  BY <1>1, <1>2, <1>3, <1>4, <1>5, <1>6, <1>7, <1>9, <1>10, <1>11, <1>12, <1>13,
     <1>14, <1>15, <1>16, <1>17, <1>18, <1>19, <1>20 DEF HostNext, RunnerStep

\* Every behaviour of the blocking client is one of the client under the application's
\* calls: all theorems of McClientProofs hold for it.
THEOREM HostRefinesClient == HostSpec => Spec
<1>1. HostInit => Init
  BY DEF HostInit
<1>2. [HostNext]_allVars => [Next]_vars
  BY HostStepIsClientStep DEF allVars
<1> QED
  BY <1>1, <1>2, PTL DEF HostSpec, Spec

LEMMA HostClientInvariant == HostSpec => []InductiveInvariant
  BY HostRefinesClient, InductiveCorrect, PTL

-----------------------------------------------------------------------------
(* The host invariant is inductive.  A step is one of the call's entries,  *)
(* one of the runner's steps, or the passing of time.                      *)

\* What ends a read or a notification: the values that a step hands over are statuses.
LEMMA HostTypeStep ==
  HostTypeOK /\ TypeOK /\ TypeOK' /\ [HostNext]_allVars => HostTypeOK'
<1> SUFFICES ASSUME HostTypeOK, TypeOK, TypeOK', [HostNext]_allVars
             PROVE  HostTypeOK'
  OBVIOUS
<1>0. /\ 0 \in Clock
      /\ callback' \in Status \cup {NoCallback}
      /\ response_deadline_ms \in Clock /\ inter_byte_deadline_ms \in Clock
      /\ \A code \in StatusCode : Definite(code) \in Status
  BY AssignedValues, FailureStatus DEF TypeOK
<1> USE <1>0 DEF HostTypeOK, HostSteps, Waiting, Sending
<1>a. ASSUME NEW next \in HostSteps, GoTo(next)
      PROVE  HostTypeOK'
  BY <1>a DEF GoTo, NotReading
<1>b. ASSUME NEW status \in Status \cup {NoCallback}, Return(status), NotReading,
             port' \in BOOLEAN, completion' \in Status \cup {NoCallback}
      PROVE  HostTypeOK'
  BY <1>b DEF Return, NotReading
<1>c. ASSUME NEW next \in HostSteps, PollInLoop(GoTo(next))
      PROVE  HostTypeOK'
  BY <1>c, <1>a DEF PollInLoop, Delivered, NotReading
<1>1. CASE UNCHANGED allVars
  BY <1>1 DEF allVars, hostVars
<1>2. CASE \E f \in BOOLEAN : Open(f)
  BY <1>2 DEF Open
<1>3. CASE Close
  BY <1>3 DEF Close
<1>4. CASE \E op \in Operations : CallSingle(op)
  BY <1>4 DEF CallSingle
<1>5. CASE CallBitInWord
  BY <1>5 DEF CallBitInWord
<1>6. CASE RequestPart
  BY <1>6 DEF RequestPart
<1>7. CASE FlushRx
  <2>1. Definite(IF port THEN "Transport" ELSE "NotConnected") \in Status
    BY DEF StatusCode
  <2> QED
    BY <1>7, <1>a, <1>b, <2>1 DEF FlushRx, Delivered
<1>8. CASE StartTx
  BY <1>8, <1>a, <1>b DEF StartTx, Delivered
<1>9. ASSUME NEW code, SendFails(code)
      PROVE  HostTypeOK'
  BY <1>9, <1>b DEF SendFails, Delivered
<1>10. CASE WriteAll
  BY <1>9, <1>10, <1>a DEF WriteAll
<1>11. CASE DrainTx
  BY <1>9, <1>11, <1>a DEF DrainTx
<1>12. CASE SendSucceeds
  BY <1>12, <1>a, <1>b DEF SendSucceeds, Delivered
<1>13. CASE WaitTop
  BY <1>13 DEF WaitTop, PollInLoop, ChooseDeadline, Delivered, NotReading,
     InterByteIsNearer, TypeOK
<1>14. CASE ReadTimesOut
  BY <1>14, <1>b, <1>c DEF ReadTimesOut, Delivered
<1>15. CASE LoopEnd
  BY <1>15, <1>c DEF LoopEnd
<1>16. CASE Finish
  BY <1>16, <1>b DEF Finish
<1>17. CASE EndBitInWord
  BY <1>17 DEF EndBitInWord
<1>18. CASE ReceivesBytes
  BY <1>18, <1>a DEF ReceivesBytes, Delivered, NotReading
<1>19. CASE ReceivesNothing
  BY <1>19, <1>a DEF ReceivesNothing
<1>20. CASE ReadFails
  BY <1>20, <1>b DEF ReadFails, Delivered
<1>21. CASE HostTick
  BY <1>21 DEF HostTick, hostVars
<1> QED
  BY <1>1, <1>2, <1>3, <1>4, <1>5, <1>6, <1>7, <1>8, <1>10, <1>11, <1>12, <1>13, <1>14,
     <1>15, <1>16, <1>17, <1>18, <1>19, <1>20, <1>21 DEF HostNext, RunnerStep

\* The runner and the client agree, and nothing is latched or deferred, after a step.
Agreed == RunnerFollowsClient /\ (busy => ~cancel_requested_during_tx)

LEMMA AgreedStep ==
  HostInvariant /\ InductiveInvariant /\ InductiveInvariant' /\ [HostNext]_allVars => Agreed'
<1> SUFFICES ASSUME HostInvariant, InductiveInvariant, InductiveInvariant',
                    [HostNext]_allVars
             PROVE  Agreed'
  OBVIOUS
<1>0. HostTypeOK /\ Agreed /\ RequestShape /\ TypeOK /\ RequestShape'
        /\ ~tx_timeout_latched
        /\ {busy, tx_started, awaiting_write_complete, compound_deadline_active,
            cancel_requested_during_tx} \subseteq BOOLEAN
  BY DEF HostInvariant, InductiveInvariant, Agreed, TypeOK
<1> USE <1>0 DEF Agreed, RunnerFollowsClient, HostSteps, Waiting, Sending, AwaitingResponse
<1>a. ASSUME HostNext, callback' # NoCallback
      PROVE  busy /\ ~busy' /\ ~AwaitingResponse' /\ UNCHANGED compound_deadline_active
  BY <1>a, HostStepIsClientStep, CompletionEnds
<1>b. ASSUME HostNext, Delivered, NEW status, Return(status)
      PROVE  Agreed'
  BY <1>a, <1>b DEF Delivered, Return
<1>c. ASSUME HostNext, Delivered, host_step' = "finish", UNCHANGED call
      PROVE  Agreed'
  BY <1>a, <1>c DEF Delivered
\* Between the parts of a request the client does not move.
<1>d. ASSUME Rejected
      PROVE  UNCHANGED <<busy, tx_started, awaiting_write_complete,
                         compound_deadline_active, cancel_requested_during_tx>>
  BY <1>d DEF Rejected, stateVars, txVars, compoundVars
<1>e. ASSUME HostNext, host_step \in Waiting, NEW at \in Waiting, PollInLoop(GoTo(at))
      PROVE  Agreed'
  BY <1>c, <1>d, <1>e DEF PollInLoop, GoTo
\* The runner moves on within one phase of the request, and the client stays in it.
<1>f. ASSUME UNCHANGED <<busy, tx_started, awaiting_write_complete,
                         compound_deadline_active, cancel_requested_during_tx>>,
             UNCHANGED call,
             \/ host_step = "flush" /\ host_step' = "start"
             \/ host_step \in Sending /\ host_step' \in Sending
             \/ host_step \in Waiting /\ host_step' \in Waiting
      PROVE  Agreed'
  BY <1>f
<1>1. CASE UNCHANGED allVars
  BY <1>1 DEF allVars, hostVars, vars, stateVars, txVars, compoundVars, AwaitingResponse
<1>2. ASSUME HostNext, NEW f \in BOOLEAN, Open(f)
      PROVE  Agreed'
  BY <1>2 DEF Open, Configure, txVars, compoundVars, AwaitingResponse
<1>3. CASE HostNext /\ Close
  BY <1>3, <1>d DEF Close
<1>4. ASSUME HostNext, NEW op \in Operations, CallSingle(op)
      PROVE  Agreed'
  BY <1>4 DEF CallSingle, StartRequest, compoundVars, AwaitingResponse, Admissible
<1>5. CASE HostNext /\ CallBitInWord
  BY <1>5 DEF CallBitInWord, BeginCompoundDeadline, txVars, AwaitingResponse
<1>6. CASE HostNext /\ RequestPart
  BY <1>6 DEF RequestPart, StartRequest, compoundVars, AwaitingResponse
<1>7. CASE HostNext /\ FlushRx
  <2>1. CASE Rejected /\ GoTo("start")
    BY <1>7, <2>1, <1>d, <1>f DEF FlushRx, GoTo
  <2> QED
    BY <1>7, <1>b, <2>1 DEF FlushRx
<1>8. CASE HostNext /\ StartTx
  <2>1. CASE TxStarts /\ GoTo("write")
    <3>1. /\ busy' /\ tx_started' /\ awaiting_write_complete'
          /\ UNCHANGED <<compound_deadline_active, cancel_requested_during_tx>>
      BY <2>1 DEF TxStarts, RequestFrame, compoundVars
    <3>2. host_step = "start" /\ host_step' = "write" /\ UNCHANGED call
      BY <1>8, <2>1 DEF StartTx, GoTo
    <3> QED
      BY <3>1, <3>2
  <2> QED
    BY <1>8, <1>b, <2>1 DEF StartTx
<1>9. ASSUME HostNext, NEW code, SendFails(code)
      PROVE  Agreed'
  BY <1>9, <1>b DEF SendFails
<1>10. CASE HostNext /\ WriteAll
  <2>1. CASE Rejected /\ GoTo("drain")
    BY <1>10, <2>1, <1>d, <1>f DEF WriteAll, GoTo
  <2> QED
    BY <1>9, <1>10, <2>1 DEF WriteAll
<1>11. CASE HostNext /\ DrainTx
  <2>1. CASE Rejected /\ GoTo("sent")
    BY <1>11, <2>1, <1>d, <1>f DEF DrainTx, GoTo
  <2> QED
    BY <1>9, <1>11, <2>1 DEF DrainTx
<1>12. CASE HostNext /\ SendSucceeds
  <2>1. CASE callback' = NoCallback /\ GoTo("wait")
    <3>1. NotifyTxComplete("Ok") /\ callback' = NoCallback
      BY <1>12, <2>1 DEF SendSucceeds
    <3>2. /\ ~awaiting_write_complete'
          /\ UNCHANGED <<busy, tx_started, compound_deadline_active,
                         cancel_requested_during_tx>>
      BY <3>1, NoCallbackIsNoStatus
      DEF NotifyTxComplete, Complete, RequestFrame, compoundVars
    <3>3. host_step = "sent" /\ host_step' = "wait" /\ UNCHANGED call
      BY <1>12, <2>1 DEF SendSucceeds, GoTo
    <3> QED
      BY <3>2, <3>3
  <2> QED
    BY <1>12, <1>b, <2>1 DEF SendSucceeds
<1>13. CASE HostNext /\ WaitTop
  <2>1. CASE Rejected /\ ChooseDeadline
    BY <1>13, <2>1, <1>d, <1>f DEF WaitTop, ChooseDeadline
  <2> QED
    BY <1>13, <1>c, <2>1 DEF WaitTop, PollInLoop
<1>14. CASE HostNext /\ ReadTimesOut
  BY <1>14, <1>b, <1>e DEF ReadTimesOut
<1>15. CASE HostNext /\ LoopEnd
  BY <1>15, <1>e DEF LoopEnd
<1>16. CASE HostNext /\ Finish
  BY <1>16, <1>d DEF Finish, Return
<1>17. CASE HostNext /\ EndBitInWord
  BY <1>17 DEF EndBitInWord, EndCompoundDeadline, txVars, AwaitingResponse
<1>18. CASE HostNext /\ ReceivesBytes
  <2>1. CASE callback' = NoCallback /\ GoTo("poll")
    <3>1. PICK size \in 1 .. RxCapacity + 1 : OnRxBytes(size)
      BY <1>18 DEF ReceivesBytes
    <3>2. UNCHANGED <<busy, tx_started, awaiting_write_complete,
                      compound_deadline_active, cancel_requested_during_tx>>
      BY <2>1, <3>1, NoCallbackIsNoStatus
      DEF OnRxBytes, RxExpired, RxOverflow, RxRetain, RxDecodeError, RxPlcError,
          RxSuccess, RxParseFailure, Complete, RxFrame, RequestFrame, txVars, compoundVars
    <3> QED
      BY <1>18, <2>1, <3>2, <1>f DEF ReceivesBytes, GoTo
  <2> QED
    BY <1>18, <1>c, <2>1 DEF ReceivesBytes
<1>19. CASE HostNext /\ ReceivesNothing
  BY <1>19, <1>d DEF ReceivesNothing, GoTo
<1>20. CASE HostNext /\ ReadFails
  BY <1>20, <1>b DEF ReadFails
<1>21. CASE HostNext /\ HostTick
  BY <1>21 DEF HostTick, Tick, hostVars, AwaitingResponse
<1> QED
  BY <1>1, <1>2, <1>3, <1>4, <1>5, <1>6, <1>7, <1>8, <1>10, <1>11, <1>12, <1>13, <1>14,
     <1>15, <1>16, <1>17, <1>18, <1>19, <1>20, <1>21 DEF HostNext, RunnerStep

\* Before a deadline the signed difference is the time that really remains.
LEMMA RemainingIsReal ==
  ASSUME now \in Clock, NEW deadline \in Clock, NEW t \in 1 .. HalfRange - 1,
         NEW age \in 0 .. HalfRange, age < t, Tracks(deadline, age, t)
  PROVE  SignedRemaining(deadline) = t - age
<1>1. HalfRange \in Nat \ {0}
  BY ClockAssumption
<1>2. t - age \in 1 .. HalfRange - 1
  BY <1>1
<1>3. deadline - now \in {t - age - 2 * HalfRange, t - age, t - age + 2 * HalfRange}
  BY <1>1 DEF Tracks, Clock, ClockModulus
<1>4. (deadline - now) % (2 * HalfRange) = t - age
  BY <1>1, <1>2, <1>3
<1> QED
  BY <1>1, <1>2, <1>4 DEF SignedRemaining, ClockModulus

LEMMA ChoosesNearer ==
  ASSUME InductiveInvariant, tx_started, ~TransactionExpired, ~InterByteExpired
  PROVE  InterByteIsNearer
           <=> /\ inter_byte_deadline_active
               /\ InterByteTimeout - rx_age < ResponseTimeout - DeadlineAge
<1>1. /\ now \in Clock /\ response_deadline_ms \in Clock /\ inter_byte_deadline_ms \in Clock
      /\ DeadlineAge \in 0 .. HalfRange /\ tx_age \in 0 .. HalfRange /\ rx_age \in Nat
      /\ ResponseTimeout \in 1 .. HalfRange - 1 /\ InterByteTimeout \in 1 .. HalfRange - 1
  BY ClockAssumption DEF InductiveInvariant, TypeOK, DeadlineAge
<1>2. DeadlineAge < ResponseTimeout
        /\ (inter_byte_deadline_active => rx_age < InterByteTimeout /\ rx_age <= tx_age)
  BY <1>1, DeadlinesMeanElapsed DEF InductiveInvariant, DeadlinesTrackTime
<1>3. Tracks(response_deadline_ms, DeadlineAge, ResponseTimeout)
  BY DEF InductiveInvariant, DeadlinesTrackTime, DeadlineAge
<1>4. SignedRemaining(response_deadline_ms) = ResponseTimeout - DeadlineAge
  BY <1>1, <1>2, <1>3, RemainingIsReal
<1>5. ASSUME inter_byte_deadline_active
      PROVE  SignedRemaining(inter_byte_deadline_ms) = InterByteTimeout - rx_age
  <2>1. Tracks(inter_byte_deadline_ms, rx_age, InterByteTimeout)
    BY <1>5 DEF InductiveInvariant, DeadlinesTrackTime
  <2>2. rx_age \in 0 .. HalfRange
    BY <1>1, <1>2, <1>5, ClockAssumption
  <2> QED
    BY <1>1, <1>2, <1>5, <2>1, <2>2, RemainingIsReal
<1> QED
  BY <1>4, <1>5 DEF InterByteIsNearer

LEMMA SleepsStep ==
  HostInvariant /\ InductiveInvariant /\ [HostNext]_allVars => SleepsToNearer'
<1> SUFFICES ASSUME HostInvariant, InductiveInvariant, [HostNext]_allVars,
                    host_step' = "read"
             PROVE  SleepsToNearer'
  BY DEF SleepsToNearer
<1>1. CASE UNCHANGED allVars
  BY <1>1 DEF HostInvariant, SleepsToNearer, DeadlineAge, allVars, hostVars, vars,
     stateVars, txVars, rxVars, compoundVars
<1>2. CASE HostTick
  <2>1. host_step = "read" /\ SleepsToNearer /\ tx_started /\ TypeOK
    BY <1>2 DEF HostTick, hostVars, HostInvariant, RunnerFollowsClient, Waiting,
       AwaitingResponse, InductiveInvariant, RequestShape
  <2>2. DeadlineAge' = DeadlineAge + 1
          /\ (inter_byte_deadline_active => rx_age' = rx_age + 1)
    BY <1>2, <2>1 DEF HostTick, Tick, DeadlineAge
  <2>3. DeadlineAge \in Nat /\ rx_age \in Nat /\ ResponseTimeout \in Nat
          /\ InterByteTimeout \in Nat
    BY <2>1, ClockAssumption DEF TypeOK, DeadlineAge
  <2> QED
    BY <1>2, <2>1, <2>2, <2>3 DEF SleepsToNearer, HostTick, Tick, hostVars
<1>3. CASE WaitTop
  <2>1. Rejected /\ ChooseDeadline /\ ~TransactionExpired /\ ~InterByteExpired
    BY <1>3 DEF WaitTop, PollInLoop
  <2>2. tx_started
    BY <1>3 DEF WaitTop, HostInvariant, RunnerFollowsClient, Waiting, AwaitingResponse,
       InductiveInvariant, RequestShape
  <2>3. UNCHANGED <<response_deadline_ms, inter_byte_deadline_active,
                    inter_byte_deadline_ms, rx_age, DeadlineAge>>
    BY <2>1 DEF Rejected, stateVars, txVars, rxVars, compoundVars, DeadlineAge
  <2>4. InterByteIsNearer
           <=> /\ inter_byte_deadline_active
               /\ InterByteTimeout - rx_age < ResponseTimeout - DeadlineAge
    BY <2>1, <2>2, ChoosesNearer
  <2>5. DeadlineAge \in Nat /\ rx_age \in Nat /\ ResponseTimeout \in Nat
          /\ InterByteTimeout \in Nat
    BY ClockAssumption DEF InductiveInvariant, TypeOK, DeadlineAge
  <2> QED
    BY <2>1, <2>3, <2>4, <2>5 DEF SleepsToNearer, ChooseDeadline
\* No other step begins or continues a read.
<1>4. ASSUME HostNext, ~HostTick, ~WaitTop
      PROVE  FALSE
  BY <1>4 DEF HostNext, RunnerStep, Open, Close, CallSingle, CallBitInWord, RequestPart,
     FlushRx, StartTx, WriteAll, DrainTx, SendFails, SendSucceeds, ReadTimesOut, ReadFails,
     LoopEnd, Finish, EndBitInWord, ReceivesBytes, ReceivesNothing, PollInLoop, GoTo,
     Return
<1> QED
  BY <1>1, <1>2, <1>3, <1>4

\* A request that ends while the runner sends either timed out or was a send-only
\* command, which finds no reset requirement to hide.
LEMMA SentVerdict ==
  ASSUME HostInvariant, InductiveInvariant, NotifyTxComplete("Ok"), callback' # NoCallback
  PROVE  \/ TimedOut(callback')
         \/ callback' = Definite("Ok") /\ ~transport_reset_required'
<1>1. ~cancel_requested_during_tx /\ ~transport_reset_required
  BY DEF HostInvariant, InductiveInvariant, ResetWhileBusyIsLatched, NotifyTxComplete
<1>2. CASE TxVerdict("Ok") = "expired"
  <2>1. callback' = Unconfirmed("Timeout")
    BY <1>2 DEF NotifyTxComplete, Complete
  <2>2. "Timeout" \in FailureCode
    BY FailureCodes
  <2>3. TimedOut(Unconfirmed("Timeout"))
    BY <2>2, TimedOutStatuses
  <2> QED
    BY <2>1, <2>3
<1>3. CASE TxVerdict("Ok") = "sent"
  <2>1. callback' = Definite("Ok") /\ UNCHANGED transport_reset_required
    BY <1>3 DEF NotifyTxComplete, Complete
  <2> QED
    BY <1>1, <2>1
<1>4. CASE TxVerdict("Ok") = "awaited"
  BY <1>4 DEF NotifyTxComplete
<1> QED
  BY <1>1, <1>2, <1>3, <1>4 DEF TxVerdict

LEMMA DoubtfulStep ==
  HostInvariant /\ InductiveInvariant /\ [HostNext]_allVars => DoubtfulPortIsClosed'
<1> SUFFICES ASSUME HostInvariant, InductiveInvariant, [HostNext]_allVars,
                    host_step' \in {"idle", "end"}, port', ~TimedOut(result')
             PROVE  /\ ~transport_reset_required'
                    /\ result'.code \notin {"OperationOutcomeUnknown", "Transport"}
  BY DEF DoubtfulPortIsClosed, TimedOut
<1>0. DoubtfulPortIsClosed
  BY DEF HostInvariant
\* The steps after which the result and the port are what they were.
<1>a. ASSUME host_step \in {"idle", "end"}, UNCHANGED <<result, transport_reset_required>>,
             port' = port
      PROVE  /\ ~transport_reset_required'
             /\ result'.code \notin {"OperationOutcomeUnknown", "Transport"}
  BY <1>0, <1>a DEF DoubtfulPortIsClosed, TimedOut
<1>1. CASE UNCHANGED allVars
  BY <1>1, <1>a DEF allVars, hostVars, vars, stateVars
<1>2. CASE HostTick
  BY <1>2, <1>a DEF HostTick, Tick, hostVars
<1>3. CASE EndBitInWord
  BY <1>3, <1>a DEF EndBitInWord, EndCompoundDeadline
<1>4. CASE \E f \in BOOLEAN : Open(f)
  BY <1>4 DEF Open, Configure, NoCallback
<1>5. CASE StartTx
  <2>1. TxNeverStarts /\ result' = callback'
    BY <1>5 DEF StartTx, GoTo, Delivered, Return
  <2>2. TimedOut(result')
    BY <2>1, TimedOutStatuses, FailureCodes DEF TxNeverStarts, Complete
  <2> QED
    BY <2>2
<1>6. CASE SendSucceeds
  <2>1. NotifyTxComplete("Ok") /\ callback' # NoCallback /\ result' = callback'
    BY <1>6 DEF SendSucceeds, GoTo, Delivered, Return
  <2> QED
    BY <2>1, SentVerdict DEF Definite
<1>7. CASE Finish
  <2>1. ~Retires(completion) /\ result' = completion
    BY <1>7 DEF Finish, Return
  <2> QED
    BY <1>7, <2>1 DEF Retires, Finish, Rejected, stateVars
\* Every other step that returns closes the port.
<1>8. ASSUME HostNext, ~HostTick, ~EndBitInWord, ~(\E f \in BOOLEAN : Open(f)),
             ~StartTx, ~SendSucceeds, ~Finish
      PROVE  FALSE
  BY <1>8 DEF HostNext, RunnerStep, Close, CallSingle, CallBitInWord, RequestPart,
     FlushRx, WriteAll, DrainTx, SendFails, WaitTop, ChooseDeadline, ReadTimesOut,
     ReadFails, LoopEnd, ReceivesBytes, ReceivesNothing, PollInLoop, GoTo
<1> QED
  BY <1>1, <1>2, <1>3, <1>4, <1>5, <1>6, <1>7, <1>8

LEMMA HostInvariantStep ==
  HostInvariant /\ InductiveInvariant /\ InductiveInvariant' /\ [HostNext]_allVars
    => HostInvariant'
<1> SUFFICES ASSUME HostInvariant, InductiveInvariant, InductiveInvariant',
                    [HostNext]_allVars
             PROVE  HostInvariant'
  OBVIOUS
<1>1. HostTypeOK'
  BY HostTypeStep DEF HostInvariant, InductiveInvariant
<1>2. Agreed'
  BY AgreedStep
\* The runner does not poll while it sends, so no deadline is latched.
<1>3. ~tx_timeout_latched'
  <2> SUFFICES ASSUME host_step' \in Sending
               PROVE  ~tx_timeout_latched'
    BY <1>2 DEF Agreed, RunnerFollowsClient, InductiveInvariant, RequestShape
  <2>0. ~tx_timeout_latched
    BY DEF HostInvariant
  <2>1. CASE UNCHANGED allVars
    BY <2>0, <2>1 DEF allVars, vars, stateVars, txVars
  <2>2. CASE StartTx
    <3>1. TxStarts
      BY <2>2 DEF StartTx, Return, Sending
    <3> QED
      BY <2>0, <3>1 DEF TxStarts
  <2>3. CASE WriteAll \/ DrainTx
    <3>1. Rejected
      BY <2>3 DEF WriteAll, DrainTx, SendFails, Return, Sending
    <3> QED
      BY <2>0, <3>1 DEF Rejected, stateVars, txVars
  <2>4. CASE HostTick
    BY <2>0, <2>4 DEF HostTick, Tick
  <2>5. ASSUME HostNext, ~StartTx, ~WriteAll, ~DrainTx, ~HostTick
        PROVE  FALSE
    BY <2>5 DEF HostNext, RunnerStep, Open, Close, CallSingle, CallBitInWord, RequestPart,
       FlushRx, SendSucceeds, WaitTop, ChooseDeadline, ReadTimesOut, ReadFails, LoopEnd,
       Finish, EndBitInWord, ReceivesBytes, ReceivesNothing, PollInLoop, GoTo, Return,
       Sending
  <2> QED
    BY <2>1, <2>2, <2>3, <2>4, <2>5
<1> QED
  BY <1>1, <1>2, <1>3, SleepsStep, DoubtfulStep DEF HostInvariant, Agreed

-----------------------------------------------------------------------------
(* Theorems.                                                               *)

\* The inductive invariant of the blocking client.
THEOREM HostInvariantCorrect == HostSpec => []HostInvariant
<1>1. HostInit => HostInvariant
  BY AssignedValues
  DEF HostInit, Init, HostInvariant, HostTypeOK, HostSteps, RunnerFollowsClient, Waiting,
      Sending, AwaitingResponse, SleepsToNearer, DoubtfulPortIsClosed
<1> QED
  BY <1>1, HostInvariantStep, HostClientInvariant, PTL DEF HostSpec

\* Every variable of the blocking client keeps its range.
THEOREM HostTypeCorrect == HostSpec => []HostTypeOK
  BY HostInvariantCorrect, PTL DEF HostInvariant

\* On no path through the runner do it and the client disagree where the request is.
THEOREM RunnerFollowsClientHolds == HostSpec => []RunnerFollowsClient
  BY HostInvariantCorrect, PTL DEF HostInvariant

\* Once a call has its result an open port can carry another request.
THEOREM DoubtfulPortIsClosedHolds == HostSpec => []DoubtfulPortIsClosed
  BY HostInvariantCorrect, PTL DEF HostInvariant

\* A blocked read wakes as soon as one of the deadlines has passed, on a counter that
\* wraps.
THEOREM ReadWakesInTimeHolds == HostSpec => []ReadWakesInTime
<1>1. HostInvariant /\ InductiveInvariant => ReadWakesInTime
  <2> SUFFICES ASSUME HostInvariant, InductiveInvariant, host_step = "read",
                      TransactionExpired \/ InterByteExpired
               PROVE  DeadlineReached(read_deadline)
    BY DEF ReadWakesInTime
  <2>1. tx_started
    BY DEF HostInvariant, RunnerFollowsClient, Waiting, AwaitingResponse,
       InductiveInvariant, RequestShape
  <2>2. /\ TransactionExpired <=> DeadlineAge >= ResponseTimeout
        /\ InterByteExpired
             <=> (inter_byte_deadline_active /\ rx_age >= InterByteTimeout)
    BY <2>1, DeadlinesMeanElapsed
  <2>3. DeadlineAge \in Nat /\ rx_age \in Nat /\ ResponseTimeout \in Nat
          /\ InterByteTimeout \in Nat
    BY ClockAssumption DEF InductiveInvariant, TypeOK, DeadlineAge
  <2>4. CASE inter_byte_wakeup
    <3>1. /\ inter_byte_deadline_active /\ read_deadline = inter_byte_deadline_ms
          /\ InterByteTimeout - rx_age < ResponseTimeout - DeadlineAge
      BY <2>4 DEF HostInvariant, SleepsToNearer
    <3>2. InterByteExpired
      BY <2>2, <2>3, <3>1
    <3> QED
      BY <3>1, <3>2 DEF InterByteExpired
  <2>5. CASE ~inter_byte_wakeup
    <3>1. /\ read_deadline = response_deadline_ms
          /\ inter_byte_deadline_active
               => ResponseTimeout - DeadlineAge <= InterByteTimeout - rx_age
      BY <2>5 DEF HostInvariant, SleepsToNearer
    <3>2. TransactionExpired
      BY <2>2, <2>3, <3>1
    <3> QED
      BY <3>1, <3>2 DEF TransactionExpired
  <2> QED
    BY <2>4, <2>5
<1> QED
  BY <1>1, HostInvariantCorrect, HostClientInvariant, PTL

\* A call returns the client's verdict, unless the port failed before transmission.
THEOREM ReturnsTheVerdictHolds == HostSpec => ReturnsTheVerdict
<1> DEFINE Verdict == result' # result /\ result' # NoCallback
                        => \/ result' = completion'
                           \/ host_step = "flush" /\ completion' = Definite("Cancelled")
<1>1. ASSUME HostInvariant, [HostNext]_allVars
      PROVE  [Verdict]_allVars
  <2> SUFFICES ASSUME HostNext, result' # result, result' # NoCallback
               PROVE  Verdict
    BY <1>1
  <2>1. CASE FlushRx
    <3>1. Cancel /\ Delivered /\ host_step = "flush"
      BY <2>1 DEF FlushRx, GoTo
    <3>2. awaiting_write_complete /\ ~tx_started
      BY <1>1, <3>1 DEF HostInvariant, RunnerFollowsClient, Sending, Waiting,
         AwaitingResponse
    <3>3. callback' = Definite("Cancelled")
      BY <3>1, <3>2 DEF Cancel, Complete
    <3> QED
      BY <3>1, <3>3 DEF Delivered
  <2>2. CASE ~FlushRx
    BY <2>2 DEF HostNext, RunnerStep, Open, Close, CallSingle, CallBitInWord, RequestPart,
       StartTx, WriteAll, DrainTx, SendFails, SendSucceeds, WaitTop, ChooseDeadline,
       ReadTimesOut, ReadFails, LoopEnd, Finish, EndBitInWord, ReceivesBytes,
       ReceivesNothing, PollInLoop, GoTo, Return, HostTick, hostVars
  <2> QED
    BY <2>1, <2>2
<1> QED
  BY <1>1, HostInvariantCorrect, PTL DEF HostSpec, ReturnsTheVerdict

-----------------------------------------------------------------------------
(* The facade implements the asynchronous client.                          *)

LEMMA UartStepIsClientStep == UartNext => Next
<1> SUFFICES ASSUME UartNext
             PROVE  Next
  OBVIOUS
<1> USE UartAssumption
<1>1. CASE \E f \in BOOLEAN : UartConfigure(f) \/ Begin(f) \/ Recover(f)
  BY <1>1 DEF UartConfigure, Begin, Recover, Next
<1>2. CASE End
  BY <1>2 DEF End, Next
<1>3. CASE \E op \in Operations : AsyncRequest(op)
  BY <1>3 DEF AsyncRequest, Next
<1>4. CASE Update
  BY <1>4 DEF Update, Aside, NotifyTxStarted, Next
<1>5. CASE PollFirst \/ PollLast
  BY <1>5 DEF PollFirst, PollLast, PollCore, Aside, Poll, Next
<1>6. ASSUME NEW code \in {"Transport", "Timeout", "Cancelled"}, AbortTx(code)
      PROVE  Next
  BY <1>6 DEF AbortTx, Next
<1>7. CASE TxDeadline
  BY <1>6, <1>7 DEF TxDeadline, Aside, Next
<1>8. CASE WriteSome
  BY <1>6, <1>8 DEF WriteSome, Aside, Next
<1>9. CASE Drain
  BY <1>6, <1>9 DEF Drain, Aside, Next
<1>10. CASE NotifySent
  BY <1>10 DEF NotifySent, Next
<1>11. CASE Receive
  BY <1>11 DEF Receive, Next
<1>12. CASE CancelRequest
  BY <1>12 DEF CancelRequest, Next
<1>13. CASE CancelAborts
  BY <1>6, <1>13 DEF CancelAborts
<1>14. CASE WireDrains \/ DriverLost
  BY <1>14 DEF WireDrains, DriverLost, Next
<1>15. CASE UartTick
  BY <1>15 DEF UartTick, Next
<1> QED
  BY <1>1, <1>2, <1>3, <1>4, <1>5, <1>7, <1>8, <1>9, <1>10, <1>11, <1>12, <1>13, <1>14,
     <1>15 DEF UartNext, UpdateStep

\* Every behaviour of the facade is one of the client under the application's calls:
\* all theorems of McClientProofs hold for it.
THEOREM UartRefinesClient == UartSpec => Spec
<1>1. UartInit => Init
  BY DEF UartInit
<1>2. [UartNext]_uartAllVars => [Next]_vars
  BY UartStepIsClientStep DEF uartAllVars
<1> QED
  BY <1>1, <1>2, PTL DEF UartSpec, Spec

LEMMA UartClientInvariant == UartSpec => []InductiveInvariant
  BY UartRefinesClient, InductiveCorrect, PTL

-----------------------------------------------------------------------------
(* The invariant is inductive.                                             *)

\* What UartInvariant says besides types and the history of the UART.
InStep ==
  /\ FacadeFollowsCore
  /\ WireIsOwned
  /\ AwaitedFramesWereSent
  /\ ~compound_deadline_active
  /\ step \in {"deadline", "write", "drain", "sent", "abort"}
       => tx_started /\ awaiting_write_complete
  /\ step \in {"receive", "repoll"} => AwaitingResponse
  /\ step \in {"drain", "sent"} => tx_offset = FrameSize
  /\ step = "sent" => ~wire_busy

LEMMA UartTypeStep ==
  UartTypeOK /\ TypeOK' /\ [UartNext]_uartAllVars => UartTypeOK'
<1> SUFFICES ASSUME UartTypeOK, TypeOK', [UartNext]_uartAllVars
             PROVE  UartTypeOK'
  OBVIOUS
<1>0. FrameSize \in Nat \ {0} /\ 0 \in 0 .. FrameSize /\ transport_reset_required' \in BOOLEAN
  BY UartAssumption DEF TypeOK
<1> USE <1>0 DEF UartTypeOK, UartSteps, txFlags
<1>1. CASE UNCHANGED uartAllVars
  BY <1>1 DEF uartAllVars, uartVars
<1>2. CASE \E f \in BOOLEAN : UartConfigure(f) \/ Begin(f) \/ Recover(f)
  BY <1>2 DEF UartConfigure, Begin, Recover, uartVars
<1>3. CASE End
  BY <1>3 DEF End, AbortUart
<1>4. CASE \E op \in Operations : AsyncRequest(op)
  BY <1>4 DEF AsyncRequest
<1>5. CASE Update
  BY <1>5 DEF Update, Aside, Proceed, KeepUart
<1>6. CASE PollFirst \/ PollLast
  BY <1>6 DEF PollFirst, PollLast, PollCore, Aside, Proceed, Completed, KeepUart, Remember,
     Ready
<1>7. ASSUME NEW code, AbortTx(code)
      PROVE  UartTypeOK'
  BY <1>7 DEF AbortTx, AbortUart, Completed
<1>8. CASE TxDeadline
  BY <1>7, <1>8 DEF TxDeadline, Aside, Proceed, KeepUart
<1>9. CASE WriteSome
  <2>1. ASSUME NEW sent \in 0 .. FrameSize - tx_offset, tx_offset' = tx_offset + sent,
               wire_busy' = (wire_busy \/ sent > 0),
               Aside(IF tx_offset' < FrameSize THEN "idle" ELSE "drain"),
               UNCHANGED <<uart, begun, tx_announced, tx_finished, stale>>
        PROVE  UartTypeOK'
    <3>1. tx_offset' \in 0 .. FrameSize
      BY <2>1
    <3> QED
      BY <2>1, <3>1 DEF Aside, Proceed
  <2> QED
    BY <1>7, <1>9, <2>1 DEF WriteSome
<1>10. CASE Drain
  BY <1>7, <1>10 DEF Drain, Aside, Proceed, KeepUart
<1>11. CASE NotifySent \/ Receive \/ CancelRequest
  BY <1>11 DEF NotifySent, Receive, CancelRequest, Completed, Proceed, KeepUart, Remember,
     Ready
<1>12. CASE CancelAborts
  BY <1>7, <1>12 DEF CancelAborts
<1>13. CASE WireDrains \/ DriverLost \/ UartTick
  BY <1>13 DEF WireDrains, DriverLost, UartTick, uartVars
<1> QED
  BY <1>1, <1>2, <1>3, <1>4, <1>5, <1>6, <1>8, <1>9, <1>10, <1>11, <1>12, <1>13
  DEF UartNext, UpdateStep

\* Only closing the UART, or a step that leaves a requirement in force, touches stale.
LEMMA DoubtfulUartStep ==
  UartInvariant /\ InductiveInvariant /\ [UartNext]_uartAllVars => DoubtfulUartIsNotReused'
<1> SUFFICES ASSUME UartInvariant, InductiveInvariant, [UartNext]_uartAllVars, stale'
             PROVE  transport_reset_required'
  BY DEF DoubtfulUartIsNotReused
<1>0. stale => transport_reset_required
  BY DEF UartInvariant, DoubtfulUartIsNotReused
<1>1. CASE UNCHANGED uartAllVars
  BY <1>0, <1>1 DEF uartAllVars, uartVars, vars, stateVars
<1>2. ASSUME UartNext, stale, busy
      PROVE  transport_reset_required'
  BY <1>0, <1>2, UartStepIsClientStep, OnlyConfigureResets
<1>3. CASE \E f \in BOOLEAN : UartConfigure(f) \/ Begin(f) \/ Recover(f)
  BY <1>0, <1>3 DEF UartConfigure, Begin, Recover, uartVars
<1>4. CASE End
  BY <1>4 DEF End, AbortUart
<1>5. ASSUME NEW op \in Operations, AsyncRequest(op)
      PROVE  FALSE
  BY <1>0, <1>5 DEF AsyncRequest, StartRequest, Admissible
<1>6. CASE (WireDrains \/ DriverLost \/ UartTick) /\ ~busy
  <2>1. CASE WireDrains \/ DriverLost
    BY <1>0, <2>1 DEF WireDrains, DriverLost, Rejected, stateVars
  <2>2. CASE UartTick
    BY <1>0, <2>2 DEF UartTick, uartVars, Tick
  <2> QED
    BY <1>6, <2>1, <2>2
<1>7. CASE UpdateStep \/ CancelRequest
  <2>1. busy
    BY <1>7 DEF UpdateStep, CancelRequest, Update, PollFirst, PollLast, TxDeadline,
       WriteSome, Drain, NotifySent, Receive, CancelAborts, UartInvariant,
       FacadeFollowsCore
  <2>2. stale \/ transport_reset_required'
    BY <1>7 DEF UpdateStep, CancelRequest, Update, PollFirst, PollLast, PollCore,
       TxDeadline, WriteSome, Drain, NotifySent, Receive, CancelAborts, AbortTx, AbortUart,
       Remember
  <2> QED
    BY <1>2, <1>7, <2>1, <2>2 DEF UartNext
<1> QED
  BY <1>1, <1>2, <1>3, <1>4, <1>5, <1>6, <1>7 DEF UartNext, WireDrains, DriverLost,
     UartTick, uartVars

LEMMA InStepStep ==
  UartInvariant /\ InductiveInvariant /\ InductiveInvariant' /\ [UartNext]_uartAllVars
    => InStep'
<1> SUFFICES ASSUME UartInvariant, InductiveInvariant, InductiveInvariant',
                    [UartNext]_uartAllVars
             PROVE  InStep'
  OBVIOUS
<1>0. /\ InStep /\ UartTypeOK /\ RequestShape /\ RequestShape'
      /\ {busy, tx_started, awaiting_write_complete, compound_deadline_active}
           \subseteq BOOLEAN
      /\ {active, tx_announced, tx_finished, wire_busy} \subseteq BOOLEAN
      /\ FrameSize \in Nat \ {0}
  BY UartAssumption DEF UartInvariant, InStep, InductiveInvariant, TypeOK, UartTypeOK
<1> USE <1>0 DEF InStep, FacadeFollowsCore, WireIsOwned, AwaitedFramesWereSent,
    UartSteps, AwaitingResponse, txFlags
\* A completion leaves nothing under way; the hardware was already silent, or is stopped.
<1>a. ASSUME UartNext, Completed, ~wire_busy'
      PROVE  InStep'
  <2>1. ~busy' /\ ~AwaitingResponse' /\ ~awaiting_write_complete' /\ ~tx_started'
          /\ UNCHANGED compound_deadline_active
    BY <1>a, UartStepIsClientStep, CompletionEnds DEF Completed, RequestShape
  <2> QED
    BY <1>a, <2>1 DEF Completed
<1>b. ASSUME Rejected
      PROVE  UNCHANGED <<busy, tx_started, awaiting_write_complete,
                         compound_deadline_active>>
  BY <1>b DEF Rejected, stateVars, txVars, compoundVars
<1>c. ASSUME UartNext, NEW code, AbortTx(code)
      PROVE  InStep'
  BY <1>a, <1>c DEF AbortTx, AbortUart
<1>1. CASE UNCHANGED uartAllVars
  BY <1>1 DEF uartAllVars, uartVars, vars, stateVars, txVars, compoundVars
<1>2. CASE \E f \in BOOLEAN : UartConfigure(f) \/ Begin(f)
  BY <1>2 DEF UartConfigure, Begin, Between, uartVars, Configure, txVars, compoundVars
<1>3. CASE \E f \in BOOLEAN : Recover(f)
  BY <1>3, <1>b DEF Recover, Between, Configure, txVars, compoundVars
<1>4. CASE End
  BY <1>4, <1>b DEF End, Between, AbortUart
<1>5. ASSUME NEW op \in Operations, AsyncRequest(op)
      PROVE  InStep'
  BY <1>5 DEF AsyncRequest, Between, StartRequest, compoundVars
<1>6. CASE UartNext /\ Update
  <2>1. CASE tx_announced
    BY <1>6, <2>1, <1>b DEF Update, Aside, Proceed, KeepUart
  <2>2. CASE ~tx_announced
    BY <1>6, <2>2 DEF Update, TxStarts, Proceed, KeepUart, RequestFrame, compoundVars
  <2> QED
    BY <2>1, <2>2
<1>7. ASSUME UartNext, PollFirst \/ PollLast
      PROVE  InStep'
  <2>1. PICK next : PollCore(next)
             /\ \/ step = "poll" /\ next = IF tx_finished THEN "receive" ELSE "deadline"
                \/ step = "repoll" /\ next = "idle"
    BY <1>7 DEF PollFirst, PollLast
  <2>2. CASE PollExpire /\ Completed
    BY <1>7, <1>a, <2>1, <2>2 DEF PollCore, PollExpire, KeepUart
  <2>3. CASE PollLatch /\ Proceed(next)
    BY <2>1, <2>3 DEF PollCore, PollLatch, Proceed, KeepUart, RxFrame, RequestFrame,
       compoundVars
  <2>4. CASE Aside(next)
    <3>1. /\ UNCHANGED <<busy, tx_started, awaiting_write_complete,
                         compound_deadline_active, active, tx_announced, tx_finished,
                         tx_offset, wire_busy>>
          /\ step' = next
      BY <2>1, <2>4, <1>b DEF PollCore, Aside, Proceed, KeepUart
    <3> QED
      BY <2>1, <3>1
  <2> QED
    BY <2>1, <2>2, <2>3, <2>4 DEF PollCore
<1>8. CASE UartNext /\ TxDeadline
  <2>1. CASE Aside("write") /\ KeepUart /\ UNCHANGED txFlags
    <3>1. /\ UNCHANGED <<busy, tx_started, awaiting_write_complete,
                         compound_deadline_active, active, tx_announced, tx_finished,
                         tx_offset, wire_busy>>
          /\ step = "deadline" /\ step' = "write"
      BY <1>8, <2>1, <1>b DEF TxDeadline, Aside, Proceed, KeepUart
    <3> QED
      BY <3>1
  <2> QED
    BY <1>8, <1>c, <2>1 DEF TxDeadline
<1>9. ASSUME UartNext, WriteSome
      PROVE  InStep'
  <2>1. ASSUME NEW sent \in 0 .. FrameSize - tx_offset, tx_offset' = tx_offset + sent,
               wire_busy' = (wire_busy \/ sent > 0),
               Aside(IF tx_offset' < FrameSize THEN "idle" ELSE "drain"),
               UNCHANGED <<uart, begun, tx_announced, tx_finished, stale>>
        PROVE  InStep'
    <3>1. tx_offset' \in 0 .. FrameSize
      BY <2>1 DEF UartTypeOK
    <3>2. tx_offset' < FrameSize \/ tx_offset' = FrameSize
      BY <3>1
    <3>3. UNCHANGED <<busy, tx_started, awaiting_write_complete,
                      compound_deadline_active, active>> /\ step = "write"
            /\ step' = IF tx_offset' < FrameSize THEN "idle" ELSE "drain"
      BY <1>9, <2>1, <1>b DEF Aside, Proceed, WriteSome
    <3> QED
      BY <2>1, <3>2, <3>3
  <2> QED
    BY <1>9, <1>c, <2>1 DEF WriteSome
<1>10. CASE UartNext /\ Drain
  <2>1. CASE ~AbortTx("Transport")
    <3>1. /\ UNCHANGED <<busy, tx_started, awaiting_write_complete,
                         compound_deadline_active, active, tx_announced, tx_offset,
                         wire_busy>>
          /\ step = "drain" /\ step' = IF wire_busy THEN "idle" ELSE "sent"
          /\ tx_finished' = ~wire_busy
      BY <1>10, <2>1, <1>b DEF Drain, Aside, Proceed, KeepUart
    <3> QED
      BY <3>1
  <2> QED
    BY <1>10, <1>c, <2>1
<1>11. CASE UartNext /\ NotifySent
  <2>1. CASE Completed
    BY <1>11, <1>a, <2>1 DEF NotifySent, KeepUart
  <2>2. CASE Proceed("receive")
    <3>1. NotifyTxComplete("Ok") /\ callback' = NoCallback
      BY <1>11, <2>2 DEF NotifySent, Proceed
    <3>2. ~awaiting_write_complete'
            /\ UNCHANGED <<busy, tx_started, compound_deadline_active>>
      BY <3>1, NoCallbackIsNoStatus
      DEF NotifyTxComplete, Complete, RequestFrame, compoundVars
    <3> QED
      BY <1>11, <2>2, <3>2 DEF NotifySent, Proceed, KeepUart
  <2> QED
    BY <1>11, <2>1, <2>2 DEF NotifySent
<1>12. CASE UartNext /\ Receive
  <2>1. CASE Completed
    BY <1>12, <1>a, <2>1 DEF Receive, KeepUart
  <2>2. CASE Proceed("repoll")
    <3>1. callback' = NoCallback
            /\ (Rejected \/ \E size \in 1 .. RxCapacity + 1 : OnRxBytes(size))
      BY <1>12, <2>2 DEF Receive, Proceed, Completed
    <3>2. UNCHANGED <<busy, tx_started, awaiting_write_complete,
                      compound_deadline_active>>
      BY <1>b, <3>1, NoCallbackIsNoStatus
      DEF OnRxBytes, RxExpired, RxOverflow, RxRetain, RxDecodeError, RxPlcError,
          RxSuccess, RxParseFailure, Complete, RxFrame, RequestFrame, txVars, compoundVars
    <3> QED
      BY <1>12, <2>2, <3>2 DEF Receive, Proceed, KeepUart
  <2> QED
    BY <1>12, <2>1, <2>2 DEF Receive
<1>13. CASE UartNext /\ CancelRequest
  <2>1. CASE Completed
    <3>1. ~wire_busy'
      BY <1>13, <2>1, NoCallbackIsNoStatus DEF CancelRequest, Cancel, Completed, KeepUart
    <3> QED
      BY <1>13, <1>a, <2>1, <3>1
  <2>2. CASE Proceed("abort")
    <3>1. awaiting_write_complete /\ tx_started
            /\ UNCHANGED <<busy, tx_started, awaiting_write_complete,
                           compound_deadline_active>>
      BY <1>13, <2>2, NoCallbackIsNoStatus
      DEF CancelRequest, Cancel, Proceed, Complete, RxFrame, RequestFrame, compoundVars
    <3> QED
      BY <1>13, <2>2, <3>1 DEF CancelRequest, Proceed, KeepUart
  <2> QED
    BY <1>13, <2>1, <2>2 DEF CancelRequest
<1>14. CASE UartNext /\ CancelAborts
  BY <1>14, <1>c DEF CancelAborts
<1>15. CASE WireDrains \/ DriverLost
  BY <1>15, <1>b DEF WireDrains, DriverLost
<1>16. CASE UartTick
  BY <1>16 DEF UartTick, uartVars, Tick
<1> QED
  BY <1>1, <1>2, <1>3, <1>4, <1>5, <1>6, <1>7, <1>8, <1>9, <1>10, <1>11, <1>12, <1>13,
     <1>14, <1>15, <1>16 DEF UartNext, UpdateStep

-----------------------------------------------------------------------------
(* Theorems.                                                               *)

\* The inductive invariant of the facade.
THEOREM UartInvariantCorrect == UartSpec => []UartInvariant
<1>1. UartInit => UartInvariant
  <2>1. 0 \in 0 .. FrameSize
    BY UartAssumption
  <2> QED
    BY <2>1
    DEF UartInit, Init, UartInvariant, UartTypeOK, UartSteps, FacadeFollowsCore, WireIsOwned,
        AwaitedFramesWereSent, DoubtfulUartIsNotReused, AwaitingResponse
<1>2. UartInvariant /\ InductiveInvariant /\ InductiveInvariant' /\ [UartNext]_uartAllVars
        => UartInvariant'
  <2> SUFFICES ASSUME UartInvariant, InductiveInvariant, InductiveInvariant',
                      [UartNext]_uartAllVars
               PROVE  UartInvariant'
    OBVIOUS
  <2>1. UartTypeOK'
    BY UartTypeStep DEF UartInvariant, InductiveInvariant
  <2> QED
    BY <2>1, InStepStep, DoubtfulUartStep DEF UartInvariant, InStep
<1> QED
  BY <1>1, <1>2, UartClientInvariant, PTL DEF UartSpec

\* Every variable of the facade keeps its range.
THEOREM UartTypeCorrect == UartSpec => []UartTypeOK
  BY UartInvariantCorrect, PTL DEF UartInvariant

\* The facade's flags and the core's never drift apart.
THEOREM FacadeFollowsCoreHolds == UartSpec => []FacadeFollowsCore
  BY UartInvariantCorrect, PTL DEF UartInvariant

\* Nothing is driven onto the line but a transmission that the core still owns.
THEOREM WireIsOwnedHolds == UartSpec => []WireIsOwned
  BY UartInvariantCorrect, PTL DEF UartInvariant

\* A response is awaited only for a frame that was sent to its last byte.
THEOREM AwaitedFramesWereSentHolds == UartSpec => []AwaitedFramesWereSent
  BY UartInvariantCorrect, PTL DEF UartInvariant

\* A UART left in doubt carries no other request until it was closed.
THEOREM DoubtfulUartIsNotReusedHolds == UartSpec => []DoubtfulUartIsNotReused
  BY UartInvariantCorrect, PTL DEF UartInvariant
=============================================================================
