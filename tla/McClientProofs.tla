--------------------------- MODULE McClientProofs ---------------------------
(***************************************************************************)
(* Theorems about McClient, for every value of its constants.              *)
(***************************************************************************)
EXTENDS McClient, TLAPS

-----------------------------------------------------------------------------
(* The wrapping counter.                                                   *)

\* A value reduced modulo the counter's range is a counter value.
LEMMA ModuloInRange ==
  ASSUME NEW m \in Nat \ {0}, NEW x \in Int
  PROVE  x % m \in 0 .. m - 1
  BY SMT

\* A time in the future of now is again a counter value.
LEMMA AfterInClock ==
  ASSUME now \in Clock, NEW t \in Nat
  PROVE  After(t) \in Clock
<1>1. ClockModulus \in Nat \ {0}
  BY ClockAssumption DEF ClockModulus
<1>2. now + t \in Int
  BY <1>1 DEF Clock
<1> QED
  BY <1>1, <1>2, ModuloInRange DEF After, Clock

-----------------------------------------------------------------------------
(* Type correctness.                                                       *)

\* Each failure status is a status.
LEMMA FailureStatus ==
  ASSUME NEW code \in StatusCode
  PROVE  Unconfirmed(code) \in Status /\ Definite(code) \in Status
  BY DEF Unconfirmed, OutcomeUnknown, Definite, Status, StatusCode

\* The variables that a completion resets keep their types.
LEMMA CompletionTypes ==
  ASSUME TypeOK, NEW status \in Status, Complete(status), RequestFrame,
         transport_reset_required' \in BOOLEAN, driver_on' \in BOOLEAN,
         registered' \in [Registrations -> BOOLEAN]
  PROVE  TypeOK'
<1>1. 0 \in Clock
  BY ClockAssumption DEF Clock, ClockModulus
<1>2. 0 \in 0 .. RxCapacity /\ 0 \in 0 .. HalfRange
  BY ClockAssumption, ClientAssumption
<1> QED
  BY <1>1, <1>2 DEF TypeOK, Complete, RequestFrame, configVars, sessionVars, compoundVars

\* The values that the actions assign to the bounded variables.
LEMMA AssignedValues ==
  /\ 0 \in Clock /\ 0 \in Nat
  /\ 0 \in 0 .. BlockModulus - 1 /\ 0 \in 0 .. RxCapacity /\ 0 \in 0 .. HalfRange
  /\ NoCallback \in Status \cup {NoCallback}
  BY ClockAssumption, ClientAssumption DEF Clock, ClockModulus

LEMMA TypeStep == TypeOK /\ [Next]_vars => TypeOK'
<1> SUFFICES ASSUME TypeOK, [Next]_vars
             PROVE  TypeOK'
  OBVIOUS
<1>0. /\ 0 \in Clock /\ After(ResponseTimeout) \in Clock
      /\ After(InterByteTimeout) \in Clock /\ After(1) \in Clock
      /\ HalfRange \in Nat \ {0} /\ RxCapacity \in Nat \ {0} /\ BlockModulus \in Nat \ {0}
      /\ 0 \in 0 .. BlockModulus - 1 /\ 0 \in 0 .. RxCapacity /\ 0 \in 0 .. HalfRange
      /\ NoCallback \in Status \cup {NoCallback} /\ 0 \in Nat
  <2>1. ResponseTimeout \in Nat /\ InterByteTimeout \in Nat /\ now \in Clock
    BY ClockAssumption DEF TypeOK
  <2> QED
    BY <2>1, AfterInClock, AssignedValues, ClockAssumption, ClientAssumption
<1>1. CASE \E f \in BOOLEAN : Configure(f)
  BY <1>0, <1>1 DEF TypeOK, Configure, compoundVars, txVars, rxVars
<1>2. CASE \E h \in BOOLEAN : SetRs485Hooks(h)
  BY <1>0, <1>2 DEF TypeOK, SetRs485Hooks, compoundVars, txVars, rxVars, configVars,
     sessionVars
<1>3. CASE BeginCompoundDeadline \/ EndCompoundDeadline
  <2>1. CASE BeginCompoundDeadline
    BY <1>0, <2>1 DEF TypeOK, BeginCompoundDeadline, txVars, rxVars, configVars,
       sessionVars
  <2>2. CASE EndCompoundDeadline
    <3>1. /\ compound_deadline_active' \in BOOLEAN /\ compound_deadline_ms' \in Clock
          /\ compound_age' \in 0 .. HalfRange
          /\ callback' \in Status \cup {NoCallback}
      BY <1>0, <2>2 DEF EndCompoundDeadline
    <3> QED
      BY <2>2, <3>1 DEF TypeOK, EndCompoundDeadline, txVars, rxVars, configVars,
         sessionVars
  <2> QED
    BY <1>3, <2>1, <2>2
<1>4. ASSUME NEW op \in Operations, StartRequest(op)
      PROVE  TypeOK'
  <2>1. NextBlock \in 0 .. BlockModulus - 1
    BY <1>0, ModuloInRange DEF NextBlock, TypeOK
  <2>2. StillRegistered(op) \in [Registrations -> BOOLEAN]
    BY DEF StillRegistered, TypeOK
  <2>3. op \in OperationKind
    BY ClientAssumption
  <2> QED
    BY <1>0, <1>4, <2>1, <2>2, <2>3 DEF TypeOK, StartRequest, compoundVars, configVars
<1>5. CASE NotifyTxStarted
  <2>1. Definite("Timeout") \in Status
    BY FailureStatus DEF StatusCode
  <2>2. CASE TxNeverStarts
    BY <2>1, <2>2, CompletionTypes DEF TxNeverStarts, TypeOK
  <2>3. CASE TxStarts
    BY <1>0, <2>3 DEF TypeOK, TxStarts, RequestFrame, compoundVars, configVars,
       sessionVars, rxVars
  <2> QED
    BY <1>5, <2>2, <2>3 DEF NotifyTxStarted
<1>6. ASSUME NEW code \in TransportFailures, TxAbandoned(code)
      PROVE  TypeOK'
  BY <1>6, ClientAssumption, FailureStatus, CompletionTypes DEF TxAbandoned, TypeOK
<1>7. ASSUME NEW code \in TransportFailures \cup {"Ok"}, NotifyTxComplete(code)
      PROVE  TypeOK'
  <2>1. code \in StatusCode
    BY ClientAssumption DEF StatusCode
  <2>2. /\ Unconfirmed("Timeout") \in Status /\ Unconfirmed(code) \in Status
        /\ Definite("Ok") \in Status /\ Unconfirmed("Cancelled") \in Status
    BY <2>1, FailureStatus DEF StatusCode
  <2>3. /\ driver_on' \in BOOLEAN /\ registered' \in [Registrations -> BOOLEAN]
        /\ RequestFrame
    BY <1>7 DEF NotifyTxComplete, TypeOK
  <2>4. transport_reset_required' \in BOOLEAN
    BY <1>7 DEF NotifyTxComplete, LateAnswerIsAmbiguous, TypeOK
  <2>5. CASE \E status \in Status : Complete(status)
    BY <2>3, <2>4, <2>5, CompletionTypes
  <2>6. CASE ~\E status \in Status : Complete(status)
    BY <1>0, <1>7, <2>2, <2>3, <2>4, <2>6 DEF TypeOK, NotifyTxComplete, RequestFrame,
       compoundVars, configVars, sessionVars
  <2> QED
    BY <2>5, <2>6
<1>8. ASSUME NEW size \in 1 .. RxCapacity + 1, OnRxBytes(size)
      PROVE  TypeOK'
  <2>1. ASSUME NEW kept \in 0 .. RxCapacity, RxRetain(size, kept)
        PROVE  TypeOK'
    BY <1>0, <2>1 DEF TypeOK, RxRetain, RxFrame, RequestFrame, compoundVars, configVars,
       sessionVars, txVars
  <2>2. ASSUME ~\E kept \in 0 .. RxCapacity : RxRetain(size, kept)
        PROVE  TypeOK'
    <3>1. \E status \in Status : Complete(status)
      BY <1>8, <2>2, FailureStatus DEF OnRxBytes, RxExpired, RxOverflow, RxDecodeError,
         RxPlcError, RxSuccess, RxParseFailure, StatusCode, DecodeErrors
    <3>2. RequestFrame /\ driver_on' \in BOOLEAN
      BY <1>8, <2>2 DEF OnRxBytes, RxExpired, RxOverflow, RxDecodeError,
         RxPlcError, RxSuccess, RxParseFailure, RxFrame, TypeOK
    <3>3. transport_reset_required' \in BOOLEAN
      BY <1>8, <2>2 DEF OnRxBytes, RxExpired, RxOverflow, RxDecodeError,
         RxPlcError, RxSuccess, RxParseFailure, LateAnswerIsAmbiguous, TypeOK
    <3>4. registered' \in [Registrations -> BOOLEAN]
      BY <1>8, <2>2 DEF OnRxBytes, RxExpired, RxOverflow, RxDecodeError,
         RxPlcError, RxSuccess, RxParseFailure, TypeOK
    <3> QED
      BY <3>1, <3>2, <3>3, <3>4, CompletionTypes
  <2> QED
    BY <2>1, <2>2
<1>9. ASSUME NEW code \in TransportFailures, NotifyRxFailure(code)
      PROVE  TypeOK'
  BY <1>9, ClientAssumption, FailureStatus, CompletionTypes DEF NotifyRxFailure, RxFrame, TypeOK
<1>10. CASE Poll
  <2>1. CASE PollLatch
    BY <1>0, <2>1 DEF TypeOK, PollLatch, RxFrame, RequestFrame, compoundVars, configVars,
       sessionVars, rxVars
  <2>2. CASE PollExpire
    BY <2>2, FailureStatus, CompletionTypes DEF PollExpire, RxFrame, TypeOK, StatusCode
  <2> QED
    BY <1>10, <2>1, <2>2 DEF Poll
<1>11. CASE Cancel
  <2>1. Definite("Cancelled") \in Status /\ Unconfirmed("Cancelled") \in Status
    BY FailureStatus DEF StatusCode
  <2>2. CASE \E status \in Status : Complete(status)
    BY <1>11, <2>2, CompletionTypes DEF Cancel, RxFrame, TypeOK, LateAnswerIsAmbiguous
  <2>3. CASE ~\E status \in Status : Complete(status)
    BY <1>0, <1>11, <2>1, <2>3 DEF TypeOK, Cancel, RxFrame, RequestFrame, compoundVars,
       configVars, sessionVars, rxVars
  <2> QED
    BY <2>2, <2>3
<1>12. CASE Tick
  BY <1>0, <1>12 DEF TypeOK, Tick, Serviced, configVars, sessionVars
<1>13. CASE UNCHANGED vars \/ Rejected
  BY <1>0, <1>13 DEF TypeOK, vars, Rejected, stateVars, configVars, sessionVars, compoundVars, txVars, rxVars
<1> QED
  BY <1>1, <1>2, <1>3, <1>4, <1>5, <1>6, <1>7, <1>8, <1>9, <1>10, <1>11, <1>12, <1>13
  DEF Next

\* Every variable keeps its range, in every behaviour and for all constants.
THEOREM TypeCorrect == Spec => []TypeOK
<1>1. Init => TypeOK
  BY AssignedValues DEF Init, TypeOK
<1> QED
  BY <1>1, TypeStep, PTL DEF Spec

-----------------------------------------------------------------------------
(* The inductive invariant.                                                *)

\* A completion that leaves the driver off restores the idle shape.
LEMMA CompletionKeeps ==
  ASSUME InductiveInvariant, NEW status, Complete(status), RequestFrame, ~driver_on',
         TypeOK'
  PROVE  InductiveInvariant'
<1>1. RequestShape' /\ DriverOwnership' /\ ResetWhileBusyIsLatched'
  BY DEF Complete, RequestShape, DriverOwnership, ResetWhileBusyIsLatched
<1>2. RetainedBytesAreWatched'
  BY DEF Complete, RetainedBytesAreWatched
<1>3. DeadlinesTrackTime'
  BY DEF Complete, RequestFrame, compoundVars, InductiveInvariant, DeadlinesTrackTime,
     Tracks, ClockModulus, DeadlineAge
<1> QED
  BY <1>1, <1>2, <1>3 DEF InductiveInvariant

\* Outside a transmission the driver is off.
LEMMA DriverOff ==
  ASSUME InductiveInvariant, ~(busy /\ awaiting_write_complete /\ tx_started)
  PROVE  ~driver_on
  BY DEF InductiveInvariant, DriverOwnership, TypeOK

\* Steps that leave every deadline, its age and the clock alone keep the deadlines right.
LEMMA DeadlinesUntouched ==
  ASSUME DeadlinesTrackTime,
         UNCHANGED <<now, compoundVars, tx_started, response_deadline_ms, tx_age,
                     inter_byte_deadline_active, inter_byte_deadline_ms, rx_age>>,
         tx_timeout_latched'
           => tx_timeout_latched \/ DeadlineAge >= ResponseTimeout
  PROVE  DeadlinesTrackTime'
  BY DEF DeadlinesTrackTime, DeadlineAge, Tracks, compoundVars, ClockModulus

\* A deadline set now is timeout ahead of now.
LEMMA NewDeadlineTracks ==
  ASSUME now \in Clock, NEW t \in 1 .. HalfRange - 1, NEW deadline, deadline = After(t)
  PROVE  Tracks(deadline, 0, t)
<1>1. HalfRange \in Nat \ {0}
  BY ClockAssumption
<1> QED
  BY <1>1 DEF Tracks, After, Clock, ClockModulus

\* On the wrapping counter a deadline compares as reached exactly when it is.
LEMMA ReachedMeansElapsed ==
  ASSUME now \in Clock, NEW deadline \in Clock, NEW t \in 1 .. HalfRange - 1,
         NEW age \in 0 .. HalfRange, Tracks(deadline, age, t)
  PROVE  DeadlineReached(deadline) <=> age >= t
<1>1. HalfRange \in Nat \ {0}
  BY ClockAssumption
<1>2. now - deadline \in -(2 * HalfRange) + 1 .. 2 * HalfRange - 1
  BY <1>1 DEF Clock, ClockModulus
<1>3. (now - deadline) % (2 * HalfRange)
        = IF now - deadline >= 0 THEN now - deadline
          ELSE now - deadline + 2 * HalfRange
  BY <1>1, <1>2
<1> QED
  BY <1>1, <1>2, <1>3 DEF DeadlineReached, Tracks, Clock, ClockModulus

\* A tick ages every deadline by one.
LEMMA TickTracks ==
  ASSUME now \in Clock, now' = After(1), NEW deadline \in Clock,
         NEW t \in 1 .. HalfRange - 1, NEW age \in 0 .. HalfRange,
         Tracks(deadline, age, t)
  PROVE  (now' - deadline) - ((age + 1) - t) \in {-ClockModulus, 0, ClockModulus}
<1>1. HalfRange \in Nat \ {0}
  BY ClockAssumption
<1>2. now' = IF now + 1 = 2 * HalfRange THEN 0 ELSE now + 1
  BY <1>1 DEF After, Clock, ClockModulus
<1> QED
  BY <1>1, <1>2 DEF Tracks, Clock, ClockModulus

\* The three deadline tests of the code decide by elapsed time.
LEMMA DeadlinesMeanElapsed ==
  ASSUME InductiveInvariant
  PROVE  /\ tx_started => (TransactionExpired <=> DeadlineAge >= ResponseTimeout)
         /\ InterByteExpired <=> (inter_byte_deadline_active /\ rx_age >= InterByteTimeout)
         /\ CompoundExpired
              <=> (compound_deadline_active /\ compound_age >= ResponseTimeout)
<1>1. /\ now \in Clock /\ response_deadline_ms \in Clock /\ compound_deadline_ms \in Clock
      /\ inter_byte_deadline_ms \in Clock
      /\ tx_age \in 0 .. HalfRange /\ compound_age \in 0 .. HalfRange /\ rx_age \in Nat
  BY DEF InductiveInvariant, TypeOK
<1>2. ResponseTimeout \in 1 .. HalfRange - 1 /\ InterByteTimeout \in 1 .. HalfRange - 1
  BY ClockAssumption
<1>3. tx_started => (TransactionExpired <=> DeadlineAge >= ResponseTimeout)
  <2>1. CASE compound_deadline_active
    BY <1>1, <1>2, <2>1, ReachedMeansElapsed DEF InductiveInvariant, DeadlinesTrackTime,
       TransactionExpired, DeadlineAge
  <2>2. CASE ~compound_deadline_active
    BY <1>1, <1>2, <2>2, ReachedMeansElapsed DEF InductiveInvariant, DeadlinesTrackTime,
       TransactionExpired, DeadlineAge
  <2> QED
    BY <2>1, <2>2
<1>4. InterByteExpired <=> (inter_byte_deadline_active /\ rx_age >= InterByteTimeout)
  <2>1. inter_byte_deadline_active => rx_age \in 0 .. HalfRange
    BY <1>1, ClockAssumption DEF InductiveInvariant, DeadlinesTrackTime
  <2> QED
    BY <1>1, <1>2, <2>1, ReachedMeansElapsed DEF InductiveInvariant, DeadlinesTrackTime,
       InterByteExpired
<1>5. CompoundExpired
        <=> (compound_deadline_active /\ compound_age >= ResponseTimeout)
  BY <1>1, <1>2, ReachedMeansElapsed DEF InductiveInvariant, DeadlinesTrackTime,
     CompoundExpired
<1> QED
  BY <1>3, <1>4, <1>5

\* The conjuncts of the invariant that speak of the request's shape.
LEMMA ShapeUntouched ==
  ASSUME InductiveInvariant, TypeOK',
         UNCHANGED <<rs485_hooks, transport_reset_required, txVars, driver_on,
                     rx_frame_size, inter_byte_deadline_active>>
  PROVE  RequestShape' /\ DriverOwnership' /\ ResetWhileBusyIsLatched'
           /\ RetainedBytesAreWatched'
  BY DEF InductiveInvariant, RequestShape, DriverOwnership, ResetWhileBusyIsLatched,
         RetainedBytesAreWatched, AwaitingResponse, txVars

LEMMA InductiveStep == InductiveInvariant /\ [Next]_vars => InductiveInvariant'
<1> SUFFICES ASSUME InductiveInvariant, [Next]_vars
             PROVE  InductiveInvariant'
  OBVIOUS
<1>0. TypeOK /\ TypeOK'
  BY TypeStep DEF InductiveInvariant
<1>a. now \in Clock /\ ResponseTimeout \in 1 .. HalfRange - 1
        /\ InterByteTimeout \in 1 .. HalfRange - 1
  BY <1>0, ClockAssumption DEF TypeOK
<1>1. CASE \E f \in BOOLEAN : Configure(f)
  BY <1>0, <1>1, DeadlinesUntouched
  DEF InductiveInvariant, Configure, txVars, rxVars, RequestShape, DriverOwnership,
      ResetWhileBusyIsLatched, RetainedBytesAreWatched, AwaitingResponse
<1>2. CASE \E h \in BOOLEAN : SetRs485Hooks(h)
  BY <1>0, <1>2, DeadlinesUntouched
  DEF InductiveInvariant, SetRs485Hooks, txVars, rxVars, RequestShape, DriverOwnership,
      ResetWhileBusyIsLatched, RetainedBytesAreWatched, AwaitingResponse
<1>3. CASE BeginCompoundDeadline
  <2>1. RequestShape' /\ DriverOwnership' /\ ResetWhileBusyIsLatched'
          /\ RetainedBytesAreWatched'
    BY <1>0, <1>3, ShapeUntouched DEF BeginCompoundDeadline, txVars, rxVars
  <2>2. ~tx_started' /\ ~tx_timeout_latched' /\ ~inter_byte_deadline_active'
    BY <1>3 DEF BeginCompoundDeadline, Admissible, txVars, rxVars, InductiveInvariant,
       RequestShape, RetainedBytesAreWatched, AwaitingResponse
  <2>3. Tracks(compound_deadline_ms', 0, ResponseTimeout)
    BY <1>a, <1>3, NewDeadlineTracks DEF BeginCompoundDeadline
  <2>4. DeadlinesTrackTime'
    BY <1>3, <2>2, <2>3 DEF BeginCompoundDeadline, DeadlinesTrackTime, Tracks
  <2> QED
    BY <1>0, <2>1, <2>4 DEF InductiveInvariant
<1>4. CASE EndCompoundDeadline
  <2>1. RequestShape' /\ DriverOwnership' /\ ResetWhileBusyIsLatched'
          /\ RetainedBytesAreWatched'
    BY <1>0, <1>4, ShapeUntouched DEF EndCompoundDeadline, txVars, rxVars
  <2>2. ~tx_started' /\ ~tx_timeout_latched' /\ ~inter_byte_deadline_active'
    BY <1>4 DEF EndCompoundDeadline, Admissible, txVars, rxVars, InductiveInvariant,
       RequestShape, RetainedBytesAreWatched, AwaitingResponse
  <2>3. DeadlinesTrackTime'
    BY <1>4, <2>2 DEF EndCompoundDeadline, DeadlinesTrackTime
  <2> QED
    BY <1>0, <2>1, <2>3 DEF InductiveInvariant
<1>5. ASSUME NEW op \in Operations, StartRequest(op)
      PROVE  InductiveInvariant'
  <2>1. op \in OperationKind
    BY ClientAssumption
  <2>2. RequestShape' /\ ResetWhileBusyIsLatched'
    BY <1>0, <1>5, <2>1 DEF StartRequest, Admissible, RequestShape,
       ResetWhileBusyIsLatched
  <2>3. DriverOwnership'
    BY <1>5, DriverOff DEF StartRequest, Admissible, DriverOwnership
  <2>4. RetainedBytesAreWatched'
    BY <1>5 DEF StartRequest, RetainedBytesAreWatched
  <2>5. DeadlinesTrackTime'
    BY <1>5 DEF StartRequest, compoundVars, InductiveInvariant, DeadlinesTrackTime,
       Tracks, ClockModulus
  <2> QED
    BY <1>0, <2>2, <2>3, <2>4, <2>5 DEF InductiveInvariant
<1>6. CASE NotifyTxStarted
  <2>1. ~driver_on
    BY <1>6, DriverOff DEF NotifyTxStarted, TxStarts, TxNeverStarts
  <2>2. CASE TxNeverStarts
    BY <1>0, <2>1, <2>2, CompletionKeeps DEF TxNeverStarts
  <2>3. CASE TxStarts
    <3>1. RequestShape' /\ ResetWhileBusyIsLatched'
      BY <1>0, <2>3 DEF TxStarts, InductiveInvariant, RequestShape,
         ResetWhileBusyIsLatched, TypeOK
    <3>2. DriverOwnership'
      BY <1>0, <2>1, <2>3 DEF TxStarts, RequestFrame, DriverOwnership
    <3>3. /\ RetainedBytesAreWatched' /\ ~inter_byte_deadline_active'
          /\ ~tx_timeout_latched'
      BY <2>3 DEF TxStarts, rxVars, InductiveInvariant, RetainedBytesAreWatched,
         AwaitingResponse, RequestShape
    <3>4. ~compound_deadline_active
            => Tracks(response_deadline_ms', 0, ResponseTimeout)
      BY <1>a, <2>3, NewDeadlineTracks DEF TxStarts
    <3>5. DeadlinesTrackTime'
      BY <2>3, <3>3, <3>4 DEF TxStarts, RequestFrame, InductiveInvariant,
         DeadlinesTrackTime, Tracks, compoundVars, ClockModulus
    <3> QED
      BY <1>0, <3>1, <3>2, <3>3, <3>5 DEF InductiveInvariant
  <2> QED
    BY <1>6, <2>2, <2>3 DEF NotifyTxStarted
<1>7. ASSUME NEW code \in TransportFailures, TxAbandoned(code)
      PROVE  InductiveInvariant'
  BY <1>0, <1>7, DriverOff, CompletionKeeps DEF TxAbandoned
<1>8. ASSUME NEW code \in TransportFailures \cup {"Ok"}, NotifyTxComplete(code)
      PROVE  InductiveInvariant'
  <2>1. ~driver_on' /\ RequestFrame
    BY <1>0, <1>8 DEF NotifyTxComplete, InductiveInvariant, DriverOwnership
  <2>2. CASE TxVerdict(code) # "awaited"
    <3>1. \E status : Complete(status)
      BY <1>8, <2>2 DEF NotifyTxComplete
    <3> QED
      BY <1>0, <2>1, <3>1, CompletionKeeps
  <2>3. CASE TxVerdict(code) = "awaited"
    <3>1. /\ ~tx_timeout_latched
          /\ ~awaiting_write_complete' /\ ~inter_byte_deadline_active'
          /\ UNCHANGED <<transport_reset_required, busy, tx_started, tx_timeout_latched,
                         operation, response_deadline_ms, tx_age, rx_frame_size>>
      BY <1>8, <2>3 DEF NotifyTxComplete, TxVerdict
    <3>2. RequestShape' /\ ResetWhileBusyIsLatched' /\ DriverOwnership'
      BY <1>0, <1>8, <2>1, <3>1 DEF NotifyTxComplete, InductiveInvariant,
         RequestShape, ResetWhileBusyIsLatched, DriverOwnership, TypeOK
    <3>3. RetainedBytesAreWatched'
      BY <1>8, <3>1 DEF NotifyTxComplete, InductiveInvariant, RetainedBytesAreWatched,
         AwaitingResponse
    <3>4. DeadlinesTrackTime'
      BY <2>1, <3>1 DEF RequestFrame, compoundVars, InductiveInvariant,
         DeadlinesTrackTime, Tracks, ClockModulus
    <3> QED
      BY <1>0, <3>2, <3>3, <3>4 DEF InductiveInvariant
  <2> QED
    BY <2>2, <2>3
<1>9. ASSUME NEW size \in 1 .. RxCapacity + 1, OnRxBytes(size)
      PROVE  InductiveInvariant'
  <2>1. AwaitingResponse /\ RequestFrame /\ UNCHANGED driver_on
    BY <1>9 DEF OnRxBytes, RxExpired, RxOverflow, RxRetain, RxDecodeError, RxPlcError,
       RxSuccess, RxParseFailure, RxAccepted, RxFrame
  <2>2. ~driver_on'
    BY <2>1, DriverOff DEF AwaitingResponse
  <2>3. ASSUME NEW kept \in 0 .. RxCapacity, RxRetain(size, kept)
        PROVE  InductiveInvariant'
    <3>1. RequestShape' /\ ResetWhileBusyIsLatched' /\ DriverOwnership'
      BY <1>0, <2>2, <2>3 DEF RxRetain, RxFrame, RequestFrame, RxAccepted, txVars,
         InductiveInvariant, RequestShape, ResetWhileBusyIsLatched, DriverOwnership
    <3>2. RetainedBytesAreWatched'
      BY <2>1, <2>3 DEF RxRetain, txVars, InductiveInvariant, RetainedBytesAreWatched,
         RequestShape, AwaitingResponse
    <3>3. kept > 0 => Tracks(inter_byte_deadline_ms', 0, InterByteTimeout)
      BY <1>a, <2>3, NewDeadlineTracks DEF RxRetain
    <3>4. /\ UNCHANGED <<now, compoundVars, tx_started, response_deadline_ms, tx_age>>
          /\ inter_byte_deadline_active' = (kept > 0)
          /\ rx_age' = 0
      BY <2>1, <2>3 DEF RxRetain, RequestFrame, txVars
    <3>5. tx_age \in Nat
      BY <1>0, ClockAssumption DEF TypeOK
    <3>6. inter_byte_deadline_active'
            => /\ Tracks(inter_byte_deadline_ms, rx_age, InterByteTimeout)'
               /\ rx_age' <= tx_age'
      <4>1. ASSUME inter_byte_deadline_active'
            PROVE  Tracks(inter_byte_deadline_ms, rx_age, InterByteTimeout)'
        BY <3>3, <3>4, <4>1 DEF Tracks, ClockModulus
      <4>2. rx_age' <= tx_age'
        BY <3>4, <3>5
      <4> QED
        BY <4>1, <4>2
    <3>7. /\ compound_deadline_active'
               => Tracks(compound_deadline_ms, compound_age, ResponseTimeout)'
          /\ tx_started'
               => /\ compound_deadline_active'
                       => response_deadline_ms' = compound_deadline_ms'
                  /\ ~compound_deadline_active'
                       => Tracks(response_deadline_ms, tx_age, ResponseTimeout)'
      BY <3>4 DEF compoundVars, InductiveInvariant, DeadlinesTrackTime, Tracks,
         ClockModulus
    <3>8. ~tx_timeout_latched'
      BY <2>1, <2>3 DEF RxRetain, txVars, InductiveInvariant, RequestShape,
         AwaitingResponse
    <3>9. DeadlinesTrackTime'
      BY <3>6, <3>7, <3>8 DEF DeadlinesTrackTime
    <3> QED
      BY <1>0, <3>1, <3>2, <3>9 DEF InductiveInvariant
  <2>4. CASE \E status : Complete(status)
    BY <1>0, <2>1, <2>2, <2>4, CompletionKeeps
  <2> QED
    BY <1>9, <2>3, <2>4 DEF OnRxBytes, RxExpired, RxOverflow, RxDecodeError, RxPlcError,
       RxSuccess, RxParseFailure
<1>10. ASSUME NEW code \in TransportFailures, NotifyRxFailure(code)
       PROVE  InductiveInvariant'
  BY <1>0, <1>10, DriverOff, CompletionKeeps DEF NotifyRxFailure, RxFrame
<1>11. CASE PollLatch
  <2>1. RequestShape' /\ DriverOwnership' /\ ResetWhileBusyIsLatched'
          /\ RetainedBytesAreWatched'
    BY <1>0, <1>11 DEF PollLatch, RxFrame, RequestFrame, rxVars, InductiveInvariant,
       RequestShape, DriverOwnership, ResetWhileBusyIsLatched, RetainedBytesAreWatched,
       AwaitingResponse
  <2>2. DeadlinesTrackTime'
    <3>1. DeadlineAge >= ResponseTimeout
      BY <1>11, DeadlinesMeanElapsed DEF PollLatch
    <3> QED
      BY <1>11, <3>1, DeadlinesUntouched DEF InductiveInvariant, PollLatch, RxFrame,
         RequestFrame, rxVars
  <2> QED
    BY <1>0, <2>1, <2>2 DEF InductiveInvariant
<1>12. CASE PollExpire
  BY <1>0, <1>12, DriverOff, CompletionKeeps DEF PollExpire, RxFrame
<1>13. CASE Cancel
  <2>1. RequestFrame /\ UNCHANGED driver_on
    BY <1>13 DEF Cancel, RxFrame
  <2>2. CASE awaiting_write_complete /\ tx_started
    <3>1. RequestShape' /\ DriverOwnership' /\ ResetWhileBusyIsLatched'
            /\ RetainedBytesAreWatched'
      BY <1>0, <1>13, <2>1, <2>2 DEF Cancel, RequestFrame, rxVars, InductiveInvariant,
         RequestShape, DriverOwnership, ResetWhileBusyIsLatched,
         RetainedBytesAreWatched, AwaitingResponse
    <3>2. DeadlinesTrackTime'
      BY <1>13, <2>1, <2>2, DeadlinesUntouched DEF InductiveInvariant, Cancel,
         RequestFrame, rxVars
    <3> QED
      BY <1>0, <3>1, <3>2 DEF InductiveInvariant
  <2>3. CASE ~(awaiting_write_complete /\ tx_started)
    BY <1>0, <1>13, <2>1, <2>3, DriverOff, CompletionKeeps DEF Cancel
  <2> QED
    BY <2>2, <2>3
<1>14. CASE Tick
  <2>1. RequestShape' /\ DriverOwnership' /\ ResetWhileBusyIsLatched'
          /\ RetainedBytesAreWatched'
    BY <1>0, <1>14 DEF Tick, InductiveInvariant, RequestShape, DriverOwnership,
       ResetWhileBusyIsLatched, RetainedBytesAreWatched, AwaitingResponse
  <2>2. DeadlinesTrackTime'
    <3>1. inter_byte_deadline_active
            => tx_started /\ rx_age \in 0 .. HalfRange
      BY <1>0, ClockAssumption DEF InductiveInvariant, RetainedBytesAreWatched,
         DeadlinesTrackTime, TypeOK
    <3>2. compound_deadline_active =>
            (now' - compound_deadline_ms) - ((compound_age + 1) - ResponseTimeout)
              \in {-ClockModulus, 0, ClockModulus}
      BY <1>0, <1>a, <1>14, TickTracks DEF Tick, TypeOK, InductiveInvariant,
         DeadlinesTrackTime
    <3>3. tx_started /\ ~compound_deadline_active =>
            (now' - response_deadline_ms) - ((tx_age + 1) - ResponseTimeout)
              \in {-ClockModulus, 0, ClockModulus}
      BY <1>0, <1>a, <1>14, TickTracks DEF Tick, TypeOK, InductiveInvariant,
         DeadlinesTrackTime
    <3>4. inter_byte_deadline_active =>
            (now' - inter_byte_deadline_ms) - ((rx_age + 1) - InterByteTimeout)
              \in {-ClockModulus, 0, ClockModulus}
      BY <1>0, <1>a, <1>14, <3>1, TickTracks DEF Tick, TypeOK, InductiveInvariant,
         DeadlinesTrackTime
    <3>5. inter_byte_deadline_active => rx_age' <= tx_age'
      BY <1>0, <1>14, <3>1 DEF Tick, TypeOK, InductiveInvariant, DeadlinesTrackTime
    <3>6. tx_timeout_latched' => DeadlineAge' >= ResponseTimeout
      BY <1>0, <1>a, <1>14 DEF Tick, TypeOK, InductiveInvariant, RequestShape,
         DeadlinesTrackTime, DeadlineAge
    <3> QED
      BY <1>14, <3>2, <3>3, <3>4, <3>5, <3>6 DEF Tick, InductiveInvariant,
         DeadlinesTrackTime, Tracks, ClockModulus
  <2> QED
    BY <1>0, <2>1, <2>2 DEF InductiveInvariant
<1>15. CASE UNCHANGED vars \/ Rejected
  BY <1>0, <1>15, ShapeUntouched, DeadlinesUntouched
  DEF InductiveInvariant, vars, Rejected, stateVars, txVars, rxVars, compoundVars
<1> QED
  BY <1>1, <1>2, <1>3, <1>4, <1>5, <1>6, <1>7, <1>8, <1>9, <1>10, <1>11, <1>12, <1>13,
     <1>14, <1>15
  DEF Next, Poll

LEMMA InductiveInit == Init => InductiveInvariant
<1> SUFFICES ASSUME Init
             PROVE  InductiveInvariant
  OBVIOUS
<1>1. TypeOK
  BY AssignedValues DEF Init, TypeOK
<1>2. RequestShape /\ DriverOwnership /\ ResetWhileBusyIsLatched
        /\ DeadlinesTrackTime
  BY DEF Init, RequestShape, DriverOwnership, ResetWhileBusyIsLatched,
     DeadlinesTrackTime
<1>3. RetainedBytesAreWatched
  BY DEF Init, RetainedBytesAreWatched
<1> QED
  BY <1>1, <1>2, <1>3 DEF InductiveInvariant

\* The invariant holds in every behaviour, for all constants.
THEOREM InductiveCorrect == Spec => []InductiveInvariant
  BY InductiveInit, InductiveStep, PTL DEF Spec

\* The RS-485 driver is on exactly while a transmission owns the line.
THEOREM DriverOwnershipHolds == Spec => []DriverOwnership
<1>1. InductiveInvariant => DriverOwnership
  BY DEF InductiveInvariant
<1> QED
  BY <1>1, InductiveCorrect, PTL

\* A request in flight carries no reset requirement but its own latched deadline's.
THEOREM ResetWhileBusyHolds == Spec => []ResetWhileBusyIsLatched
<1>1. InductiveInvariant => ResetWhileBusyIsLatched
  BY DEF InductiveInvariant
<1> QED
  BY <1>1, InductiveCorrect, PTL

\* The inter-byte deadline runs exactly while received bytes are retained.
THEOREM RetainedBytesHolds == Spec => []RetainedBytesAreWatched
<1>1. InductiveInvariant => RetainedBytesAreWatched
  BY DEF InductiveInvariant
<1> QED
  BY <1>1, InductiveCorrect, PTL

-----------------------------------------------------------------------------
(* Completions.  Whatever operation ends a request ends it in one of three *)
(* ways, and the action properties follow from what they have in common.   *)

FailureCode == StatusCode \ {"Ok", "PlcError", "OperationOutcomeUnknown"}

\* Nothing was sent.
Withdrawn ==
  /\ ~tx_started
  /\ UNCHANGED transport_reset_required
  /\ \E code \in FailureCode :
       /\ callback' = Definite(code)
       /\ code = "Timeout" => code \in TransportFailures \/ CompoundExpired

\* Transmission started, and nothing confirmed the request.
Unanswered ==
  /\ tx_started
  /\ \E code \in FailureCode :
       /\ callback' = Unconfirmed(code)
       /\ tx_timeout_latched => code = "Timeout"
       /\ code = "Timeout" => transport_reset_required'
       /\ code = "Timeout" => \/ code \in TransportFailures \/ tx_timeout_latched
                              \/ TransactionExpired \/ InterByteExpired
       /\ transport_reset_required => transport_reset_required'
       /\ \/ transport_reset_required' \/ active_format2_block_number_valid
          \/ code = "Parse" /\ operation \notin OutcomeCanBeUnknown

\* The answer, or the end of a transmission that has none, came before the deadlines.
Concluded ==
  /\ tx_started
  /\ ~tx_timeout_latched /\ ~transport_reset_required
  /\ UNCHANGED transport_reset_required
  /\ ~TransactionExpired /\ ~InterByteExpired
  /\ \/ callback' = Definite("Ok")
     \/ callback' = Definite("PlcError") /\ ~awaiting_write_complete

\* The failures that this client reports of itself are failure codes.
LEMMA FailureCodes ==
  /\ {"Timeout", "Cancelled", "BufferTooSmall", "Parse"} \subseteq FailureCode
  /\ DecodeErrors \subseteq FailureCode
  /\ TransportFailures \subseteq FailureCode
  /\ NoCallback \notin Status
  BY ClientAssumption
  DEF FailureCode, StatusCode, DecodeErrors, NoCallback, Status

LEMMA CompletionCases ==
  ASSUME InductiveInvariant, Next, callback' # NoCallback
  PROVE  busy /\ ~busy' /\ (Withdrawn \/ Unanswered \/ Concluded)
<1>0. busy /\ ~tx_timeout_latched => ~transport_reset_required
  BY DEF InductiveInvariant, ResetWhileBusyIsLatched
<1>a. busy /\ ~awaiting_write_complete => tx_started /\ ~tx_timeout_latched
  BY DEF InductiveInvariant, RequestShape
<1>b. busy => ~(~awaiting_write_complete /\ transport_reset_required)
  BY DEF InductiveInvariant, ResetWhileBusyIsLatched
<1>1. CASE \E f \in BOOLEAN : Configure(f) \/ SetRs485Hooks(f)
  BY <1>1 DEF Configure, SetRs485Hooks
<1>2. CASE BeginCompoundDeadline \/ EndCompoundDeadline \/ Tick \/ Rejected
  BY <1>2 DEF BeginCompoundDeadline, EndCompoundDeadline, Tick, Rejected
<1>3. CASE \E op \in Operations : StartRequest(op)
  BY <1>3 DEF StartRequest
<1>4. CASE NotifyTxStarted
  <2>1. TxNeverStarts
    BY <1>4 DEF NotifyTxStarted, TxStarts
  <2>2. Withdrawn
    BY <2>1, FailureCodes DEF TxNeverStarts, Complete, Withdrawn
  <2> QED
    BY <2>1, <2>2 DEF TxNeverStarts, Complete
<1>5. ASSUME NEW code \in TransportFailures, TxAbandoned(code)
      PROVE  busy /\ ~busy' /\ Withdrawn
  BY <1>5, FailureCodes DEF TxAbandoned, Complete, Withdrawn
<1>6. ASSUME NEW code \in TransportFailures \cup {"Ok"}, NotifyTxComplete(code)
      PROVE  busy /\ ~busy' /\ (Unanswered \/ Concluded)
  <2>1. TxVerdict(code) \in {"expired", "failed", "sent", "cancelled"}
    BY <1>6 DEF NotifyTxComplete
  <2>2. busy /\ ~busy' /\ tx_started /\ awaiting_write_complete
    BY <1>6, <2>1 DEF NotifyTxComplete, Complete
  <2>3. CASE TxVerdict(code) = "expired"
    <3>1. callback' = Unconfirmed("Timeout") /\ transport_reset_required'
      BY <1>6, <2>3 DEF NotifyTxComplete, Complete
    <3>2. tx_timeout_latched \/ TransactionExpired
      BY <2>3 DEF TxVerdict
    <3> QED
      BY <2>2, <3>1, <3>2, FailureCodes DEF Unanswered
  <2>4. CASE TxVerdict(code) = "failed"
    <3>1. callback' = Unconfirmed(code) /\ transport_reset_required'
      BY <1>6, <2>4 DEF NotifyTxComplete, Complete
    <3>2. ~tx_timeout_latched /\ code \in TransportFailures
      BY <2>4 DEF TxVerdict
    <3> QED
      BY <2>2, <3>1, <3>2, FailureCodes DEF Unanswered
  <2>5. CASE TxVerdict(code) = "sent"
    <3>1. callback' = Definite("Ok") /\ UNCHANGED transport_reset_required
      BY <1>6, <2>5 DEF NotifyTxComplete, Complete
    <3>2. ~tx_timeout_latched /\ ~TransactionExpired
      BY <2>5 DEF TxVerdict
    <3>3. ~InterByteExpired
      BY <2>2 DEF InterByteExpired, InductiveInvariant, RetainedBytesAreWatched,
         AwaitingResponse
    <3> QED
      BY <1>0, <2>2, <3>1, <3>2, <3>3 DEF Concluded
  <2>6. CASE TxVerdict(code) = "cancelled"
    <3>1. /\ callback' = Unconfirmed("Cancelled")
          /\ transport_reset_required' = ~active_format2_block_number_valid
      BY <1>6, <2>6 DEF NotifyTxComplete, Complete, LateAnswerIsAmbiguous
    <3>2. ~tx_timeout_latched
      BY <2>6 DEF TxVerdict
    <3> QED
      BY <1>0, <2>2, <3>1, <3>2, FailureCodes DEF Unanswered, InductiveInvariant, TypeOK
  <2> QED
    BY <2>1, <2>2, <2>3, <2>4, <2>5, <2>6
<1>7. ASSUME NEW size \in 1 .. RxCapacity + 1, OnRxBytes(size)
      PROVE  busy /\ ~busy' /\ (Unanswered \/ Concluded)
  <2>1. CASE RxExpired
    BY <1>a, <1>b, <2>1, FailureCodes DEF RxExpired, AwaitingResponse, Complete, Unanswered
  <2>2. CASE RxOverflow(size)
    BY <1>a, <1>b, <2>2, FailureCodes DEF RxOverflow, AwaitingResponse, Complete,
       Unanswered, LateAnswerIsAmbiguous, InductiveInvariant, TypeOK
  <2>3. ASSUME NEW kept \in 0 .. RxCapacity, RxRetain(size, kept)
        PROVE  FALSE
    BY <2>3 DEF RxRetain
  <2>4. ASSUME NEW error \in DecodeErrors, RxDecodeError(size, error)
        PROVE  busy /\ ~busy' /\ Unanswered
    BY <1>a, <1>b, <2>4, FailureCodes DEF RxDecodeError, RxAccepted, AwaitingResponse,
       Complete, Unanswered, LateAnswerIsAmbiguous, DecodeErrors, InductiveInvariant,
       TypeOK
  <2>5. CASE RxPlcError(size)
    BY <1>a, <1>b, <2>5 DEF RxPlcError, RxAccepted, AwaitingResponse, Complete, Concluded
  <2>6. CASE RxSuccess(size)
    BY <1>a, <1>b, <2>6 DEF RxSuccess, RxAccepted, AwaitingResponse, Complete, Concluded
  <2>7. CASE RxParseFailure(size)
    BY <1>a, <1>b, <2>7, FailureCodes DEF RxParseFailure, RxAccepted, AwaitingResponse,
       Complete, Unanswered, LateAnswerIsAmbiguous, InductiveInvariant, TypeOK
  <2> QED
    BY <1>7, <2>1, <2>2, <2>3, <2>4, <2>5, <2>6, <2>7 DEF OnRxBytes
<1>8. ASSUME NEW code \in TransportFailures, NotifyRxFailure(code)
      PROVE  busy /\ ~busy' /\ Unanswered
  BY <1>a, <1>8, FailureCodes DEF NotifyRxFailure, Complete, Unanswered
<1>9. CASE Poll
  <2>1. PollExpire
    BY <1>9 DEF Poll, PollLatch
  <2>2. Unanswered
    BY <1>a, <2>1, FailureCodes DEF PollExpire, Complete, Unanswered
  <2> QED
    BY <2>1, <2>2 DEF PollExpire, Complete
<1>10. CASE Cancel
  <2>1. CASE ~tx_started
    BY <1>a, <1>10, <2>1, FailureCodes DEF Cancel, Complete, Withdrawn
  <2>2. CASE tx_started
    BY <1>a, <1>b, <1>10, <2>2, FailureCodes DEF Cancel, Complete, Unanswered,
       LateAnswerIsAmbiguous, InductiveInvariant, TypeOK
  <2> QED
    BY <2>1, <2>2
<1> QED
  BY <1>1, <1>2, <1>3, <1>4, <1>5, <1>6, <1>7, <1>8, <1>9, <1>10 DEF Next

-----------------------------------------------------------------------------
(* The action properties.                                                  *)

\* The operations that change the PLC are those whose outcome can be unknown.
LEMMA StateChangingOperations == StateChanging = OutcomeCanBeUnknown
  BY DEF StateChanging, OutcomeCanBeUnknown, OperationKind, Reads, MonitorReads, Writes,
         Registrations, SendOnly

\* Which statuses report a timeout.
LEMMA TimedOutStatuses ==
  /\ ~TimedOut(NoCallback)
  /\ ~TimedOut(Definite("Ok")) /\ ~TimedOut(Definite("PlcError"))
  /\ \A code \in FailureCode :
       /\ TimedOut(Definite(code)) <=> code = "Timeout"
       /\ TimedOut(Unconfirmed(code)) <=> code = "Timeout"
  BY DEF TimedOut, NoCallback, Definite, Unconfirmed, OutcomeUnknown, FailureCode,
         StatusCode

LEMMA HonestCompletion ==
  ASSUME InductiveInvariant, Next, callback' # NoCallback
  PROVE  /\ MayHaveChangedPlc
              => callback'.code \in {"Ok", "PlcError", "OperationOutcomeUnknown"}
         /\ ~MayHaveChangedPlc => callback'.code # "OperationOutcomeUnknown"
         /\ ~tx_started => callback'.code \notin {"Ok", "PlcError"}
<1>1. CASE Withdrawn
  BY <1>1 DEF Withdrawn, MayHaveChangedPlc, Definite, FailureCode
<1>2. CASE Unanswered
  BY <1>2, StateChangingOperations
  DEF Unanswered, MayHaveChangedPlc, Unconfirmed, OutcomeUnknown, Definite, FailureCode
<1>3. CASE Concluded
  BY <1>3 DEF Concluded, MayHaveChangedPlc, Definite
<1> QED
  BY <1>1, <1>2, <1>3, CompletionCases

\* Whoever sees the callback knows whether the request may have changed the PLC.
THEOREM HonestOutcomeHolds == Spec => HonestOutcome
<1> DEFINE Honest ==
      callback' # NoCallback =>
        /\ MayHaveChangedPlc
             => callback'.code \in {"Ok", "PlcError", "OperationOutcomeUnknown"}
        /\ ~MayHaveChangedPlc => callback'.code # "OperationOutcomeUnknown"
        /\ ~tx_started => callback'.code \notin {"Ok", "PlcError"}
<1>1. ASSUME InductiveInvariant, [Next]_vars
      PROVE  [Honest]_vars
  BY <1>1, HonestCompletion
<1> QED
  BY <1>1, InductiveCorrect, PTL DEF Spec, HonestOutcome

\* A deadline latched during transmission decides the result.
THEOREM LatchedTimeoutWinsHolds == Spec => LatchedTimeoutWins
<1> DEFINE Wins ==
      tx_timeout_latched /\ callback' # NoCallback
        => TimedOut(callback') /\ transport_reset_required'
<1>1. ASSUME InductiveInvariant, [Next]_vars
      PROVE  [Wins]_vars
  <2> SUFFICES ASSUME Next, callback' # NoCallback, tx_timeout_latched
               PROVE  TimedOut(callback') /\ transport_reset_required'
    BY <1>1
  <2>1. tx_started
    BY <1>1 DEF InductiveInvariant, RequestShape
  <2>2. Unanswered
    BY <1>1, <2>1, CompletionCases DEF Withdrawn, Concluded
  <2> QED
    BY <2>2, TimedOutStatuses DEF Unanswered
<1> QED
  BY <1>1, InductiveCorrect, PTL DEF Spec, LatchedTimeoutWins

\* A timeout after transmission started retires the transport, whatever the framing.
THEOREM TimeoutRetiresTransportHolds == Spec => TimeoutRetiresTransport
<1> DEFINE Retires == TimedOut(callback') /\ tx_started => transport_reset_required'
<1>1. ASSUME InductiveInvariant, [Next]_vars
      PROVE  [Retires]_vars
  <2> SUFFICES ASSUME Next, TimedOut(callback'), tx_started
               PROVE  transport_reset_required'
    BY <1>1
  <2>1. callback' # NoCallback
    BY TimedOutStatuses
  <2>2. Unanswered
    BY <1>1, <2>1, CompletionCases, TimedOutStatuses DEF Withdrawn, Concluded
  <2> QED
    BY <2>2, TimedOutStatuses DEF Unanswered
<1> QED
  BY <1>1, InductiveCorrect, PTL DEF Spec, TimeoutRetiresTransport

\* A request that ends without its answer leaves the transport retired, unless its
\* block number tells its late answer from the next one's.
THEOREM UnansweredRetiresTransportHolds == Spec => UnansweredRetiresTransport
<1> DEFINE Retires ==
      callback' # NoCallback /\ ~Answered(callback')
        => transport_reset_required' \/ active_format2_block_number_valid \/ ~tx_started
<1>1. ASSUME InductiveInvariant, [Next]_vars
      PROVE  [Retires]_vars
  <2> SUFFICES ASSUME Next, callback' # NoCallback, ~Answered(callback'), tx_started
               PROVE  transport_reset_required' \/ active_format2_block_number_valid
    BY <1>1
  <2>1. Unanswered
    BY <1>1, CompletionCases DEF Withdrawn, Concluded, Answered, Definite
  <2> QED
    BY <2>1 DEF Unanswered, Answered, Unconfirmed
<1> QED
  BY <1>1, InductiveCorrect, PTL DEF Spec, UnansweredRetiresTransport

LEMMA AnswerInTime ==
  ASSUME InductiveInvariant, Next, callback'.code \in {"Ok", "PlcError"}
  PROVE  /\ Concluded
         /\ DeadlineAge < ResponseTimeout
         /\ inter_byte_deadline_active => rx_age < InterByteTimeout
<1>1. callback' # NoCallback
  BY DEF NoCallback
<1>2. Concluded
  BY <1>1, CompletionCases
  DEF Withdrawn, Unanswered, Unconfirmed, OutcomeUnknown, Definite, FailureCode
<1>3. ~(DeadlineAge >= ResponseTimeout)
        /\ ~(inter_byte_deadline_active /\ rx_age >= InterByteTimeout)
  BY <1>2, DeadlinesMeanElapsed DEF Concluded
<1>4. DeadlineAge \in Nat /\ rx_age \in Nat
  BY ClockAssumption DEF InductiveInvariant, TypeOK, DeadlineAge
<1> QED
  BY <1>2, <1>3, <1>4, ClockAssumption

\* An answer is accepted only while every deadline lies ahead in real time.
THEOREM AnsweredInTimeHolds == Spec => AnsweredInTime
<1> DEFINE InTime ==
      callback'.code \in {"Ok", "PlcError"}
        => /\ DeadlineAge < ResponseTimeout
           /\ inter_byte_deadline_active => rx_age < InterByteTimeout
<1>1. ASSUME InductiveInvariant, [Next]_vars
      PROVE  [InTime]_vars
  BY <1>1, AnswerInTime
<1> QED
  BY <1>1, InductiveCorrect, PTL DEF Spec, AnsweredInTime

\* The client reports no timeout before a deadline has passed in real time.
THEOREM NoEarlyTimeoutHolds == Spec => NoEarlyTimeout
<1> DEFINE NotEarly ==
      TimedOut(callback') /\ "Timeout" \notin TransportFailures
        => \/ DeadlineAge >= ResponseTimeout
           \/ inter_byte_deadline_active /\ rx_age >= InterByteTimeout
<1>1. ASSUME InductiveInvariant, [Next]_vars
      PROVE  [NotEarly]_vars
  <2> SUFFICES ASSUME Next, TimedOut(callback'), "Timeout" \notin TransportFailures
               PROVE  \/ DeadlineAge >= ResponseTimeout
                      \/ inter_byte_deadline_active /\ rx_age >= InterByteTimeout
    BY <1>1
  <2>1. callback' # NoCallback
    BY TimedOutStatuses
  <2>2. CASE Withdrawn
    BY <1>1, <2>2, TimedOutStatuses, DeadlinesMeanElapsed DEF Withdrawn, DeadlineAge
  <2>3. CASE Unanswered
    <3>1. tx_timeout_latched \/ TransactionExpired \/ InterByteExpired
      BY <2>3, TimedOutStatuses DEF Unanswered
    <3>2. tx_timeout_latched => DeadlineAge >= ResponseTimeout
      BY <1>1 DEF InductiveInvariant, DeadlinesTrackTime
    <3> QED
      BY <1>1, <2>3, <3>1, <3>2, DeadlinesMeanElapsed DEF Unanswered
  <2>4. CASE Concluded
    BY <2>4, TimedOutStatuses DEF Concluded
  <2> QED
    BY <1>1, <2>1, <2>2, <2>3, <2>4, CompletionCases
<1> QED
  BY <1>1, InductiveCorrect, PTL DEF Spec, NoEarlyTimeout

\* No status that a completion reports is the absence of a callback.
LEMMA NoCallbackIsNoStatus ==
  \A code : Definite(code) # NoCallback /\ Unconfirmed(code) # NoCallback
  BY DEF Definite, Unconfirmed, OutcomeUnknown, NoCallback

\* A completion leaves the compound deadline and the configuration alone, and nothing of
\* its request.
LEMMA CompletionEnds ==
  ASSUME InductiveInvariant, InductiveInvariant', Next, callback' # NoCallback
  PROVE  /\ busy /\ ~busy' /\ ~AwaitingResponse' /\ ~awaiting_write_complete'
         /\ UNCHANGED <<compound_deadline_active, compound_age, configured>>
<1>1. UNCHANGED compoundVars /\ UNCHANGED configVars
  BY DEF Next, Configure, SetRs485Hooks, BeginCompoundDeadline, EndCompoundDeadline,
     StartRequest, NotifyTxStarted, TxStarts, TxNeverStarts, TxAbandoned,
     NotifyTxComplete, OnRxBytes, RxExpired, RxOverflow, RxRetain, RxDecodeError,
     RxPlcError, RxSuccess, RxParseFailure, NotifyRxFailure, Poll, PollLatch, PollExpire,
     Cancel, Tick, Rejected, RequestFrame, RxFrame
<1>2. busy /\ ~busy'
  BY CompletionCases
<1> QED
  BY <1>1, <1>2 DEF InductiveInvariant, RequestShape, AwaitingResponse, compoundVars,
     configVars

\* A request that is not completed goes on with what it had reached.
LEMMA RequestGoesOn ==
  ASSUME InductiveInvariant, Next, busy, callback' = NoCallback
  PROVE  /\ busy' /\ operation' = operation
         /\ tx_started => tx_started'
<1>1. CASE \E f \in BOOLEAN : Configure(f) \/ SetRs485Hooks(f)
  BY <1>1 DEF Configure, SetRs485Hooks, txVars
<1>2. CASE BeginCompoundDeadline \/ EndCompoundDeadline
  BY <1>2 DEF BeginCompoundDeadline, EndCompoundDeadline, txVars
<1>9. CASE Tick
  BY <1>9 DEF Tick
<1>10. CASE Rejected
  BY <1>10 DEF Rejected, stateVars, txVars
<1>3. CASE \E op \in Operations : StartRequest(op)
  BY <1>3 DEF StartRequest, Admissible
<1>4. CASE NotifyTxStarted
  BY <1>4, NoCallbackIsNoStatus DEF NotifyTxStarted, TxStarts, TxNeverStarts, Complete
<1>5. ASSUME NEW code, TxAbandoned(code) \/ NotifyRxFailure(code)
      PROVE  FALSE
  BY <1>5, NoCallbackIsNoStatus DEF TxAbandoned, NotifyRxFailure, Complete
<1>6. ASSUME NEW code, NotifyTxComplete(code)
      PROVE  UNCHANGED <<busy, operation, tx_started>>
  BY <1>6, NoCallbackIsNoStatus DEF NotifyTxComplete, Complete
<1>7. ASSUME NEW size, OnRxBytes(size)
      PROVE  UNCHANGED <<busy, operation, tx_started>>
  BY <1>7, NoCallbackIsNoStatus
  DEF OnRxBytes, RxExpired, RxOverflow, RxRetain, RxDecodeError, RxPlcError, RxSuccess,
      RxParseFailure, Complete, txVars
<1>8. CASE Poll
  <2>1. PollLatch
    BY <1>8, NoCallbackIsNoStatus DEF Poll, PollExpire, Complete
  <2> QED
    BY <2>1 DEF PollLatch
<1>11. CASE Cancel
  <2>1. UNCHANGED <<busy, operation, tx_started>>
    BY <1>11, NoCallbackIsNoStatus DEF Cancel, Complete
  <2> QED
    BY <2>1
<1> QED
  BY <1>1, <1>2, <1>3, <1>4, <1>5, <1>6, <1>7, <1>8, <1>9, <1>10, <1>11
  DEF Next

\* The only step that lifts the reset requirement is a configuration.
LEMMA OnlyConfigureResets ==
  ASSUME InductiveInvariant, Next, transport_reset_required, ~transport_reset_required'
  PROVE  ~busy /\ ~busy' /\ callback' = NoCallback /\ configured'
<1>1. callback' = NoCallback
  BY CompletionCases DEF Withdrawn, Unanswered, Concluded
<1>2. CASE \E f \in BOOLEAN : Configure(f)
  BY <1>2 DEF Configure, txVars
<1>3. CASE ~\E f \in BOOLEAN : Configure(f)
  <2>1. UNCHANGED transport_reset_required \/ transport_reset_required'
    BY <1>1, <1>3, NoCallbackIsNoStatus
    DEF Next, SetRs485Hooks, BeginCompoundDeadline, EndCompoundDeadline, StartRequest,
        NotifyTxStarted, TxStarts, TxNeverStarts, TxAbandoned, NotifyTxComplete,
        OnRxBytes, RxExpired, RxOverflow, RxRetain, RxDecodeError, RxPlcError,
        RxSuccess, RxParseFailure, NotifyRxFailure, Poll, PollLatch, PollExpire,
        Cancel, Tick, Rejected, stateVars, Complete
  <2> QED
    BY <2>1
<1> QED
  BY <1>2, <1>3

\* Nothing but a configuration between requests lifts the reset requirement.
THEOREM ResetOnlyByConfigureHolds == Spec => ResetOnlyByConfigure
<1> DEFINE OnlyConfigure ==
      transport_reset_required /\ ~transport_reset_required'
        => ~busy /\ ~busy' /\ callback' = NoCallback /\ configured'
<1>1. ASSUME InductiveInvariant, [Next]_vars
      PROVE  [OnlyConfigure]_vars
  BY <1>1, OnlyConfigureResets
<1> QED
  BY <1>1, InductiveCorrect, PTL DEF Spec, ResetOnlyByConfigure

-----------------------------------------------------------------------------
(* Refinement of RequestLifecycle.                                         *)

\* Each way to end a request is a step of the abstract lifecycle.
LEMMA CompletionRefines ==
  ASSUME InductiveInvariant, InductiveInvariant', Next, callback' # NoCallback
  PROVE  Lifecycle!Next
<1>1. busy /\ ~busy' /\ (Withdrawn \/ Unanswered \/ Concluded)
  BY CompletionCases
<1>2. RequestPhase' = "idle" /\ (operation \in StateChanging)' = FALSE
  BY <1>1, StateChangingOperations
  DEF InductiveInvariant, RequestShape, RequestPhase, OutcomeCanBeUnknown, Writes,
      Registrations, SendOnly
<1>3. CASE Withdrawn
  <2>1. OutcomeOf(callback)' = "failed" /\ RequestPhase = "queued"
    BY <1>1, <1>3 DEF Withdrawn, OutcomeOf, RequestPhase, Definite, NoCallback, FailureCode
  <2> QED
    BY <1>2, <1>3, <2>1 DEF Withdrawn, Lifecycle!Next, Lifecycle!Withdraw, Lifecycle!End
<1>4. CASE Unanswered
  <2>1. OutcomeOf(callback)' = IF operation \in StateChanging THEN "unknown" ELSE "failed"
    BY <1>4, StateChangingOperations
    DEF Unanswered, OutcomeOf, Unconfirmed, OutcomeUnknown, Definite, NoCallback,
        FailureCode
  <2>2. RequestPhase \in {"sending", "sent"}
    BY <1>1, <1>4 DEF Unanswered, RequestPhase
  <2>3. transport_reset_required' \in {transport_reset_required, TRUE}
    BY <1>4 DEF Unanswered, InductiveInvariant, TypeOK
  <2> QED
    BY <1>2, <2>1, <2>2, <2>3 DEF Lifecycle!Next, Lifecycle!GiveUp, Lifecycle!End
<1>5. CASE Concluded
  <2>1. \/ OutcomeOf(callback)' = "ok"
        \/ OutcomeOf(callback)' = "rejected" /\ RequestPhase = "sent"
    BY <1>1, <1>5 DEF Concluded, OutcomeOf, RequestPhase, Definite, NoCallback
  <2>2. RequestPhase \in {"sending", "sent"}
    BY <1>1, <1>5 DEF Concluded, RequestPhase
  <2> QED
    BY <1>2, <1>5, <2>1, <2>2 DEF Concluded, Lifecycle!Next, Lifecycle!Conclude,
       Lifecycle!End
<1> QED
  BY <1>1, <1>3, <1>4, <1>5

\* The client implements the lifecycle it promises.
THEOREM RefinesLifecycle == Spec => ImplementsLifecycle
<1>1. Init => Lifecycle!Init
  BY DEF Init, Lifecycle!Init, RequestPhase, OutcomeOf, StateChanging, OperationKind,
     Reads, MonitorReads, OutcomeCanBeUnknown, Writes, Registrations, SendOnly
<1>2. ASSUME InductiveInvariant, InductiveInvariant', [Next]_vars
      PROVE  [Lifecycle!Next]_(Lifecycle!vars)
  <2>1. CASE UNCHANGED vars
    BY <2>1 DEF vars, stateVars, txVars, Lifecycle!vars, RequestPhase, OutcomeOf
  <2>2. CASE Next /\ callback' # NoCallback
    BY <1>2, <2>2, CompletionRefines
  <2>3. CASE Next /\ callback' = NoCallback
    <3>0. OutcomeOf(callback)' = "none"
      BY <2>3 DEF OutcomeOf
    <3>1. CASE \E f \in BOOLEAN : Configure(f)
      <4>1. RequestPhase = "idle" /\ UNCHANGED <<RequestPhase, operation>>
        BY <3>1 DEF Configure, txVars, RequestPhase
      <4> QED
        BY <3>0, <3>1, <4>1 DEF Configure, Lifecycle!Next, Lifecycle!Open
    <3>2. CASE \/ \E h \in BOOLEAN : SetRs485Hooks(h)
               \/ BeginCompoundDeadline \/ EndCompoundDeadline \/ Tick \/ Rejected
               \/ \E size \in 1 .. RxCapacity + 1, kept \in 0 .. RxCapacity :
                    RxRetain(size, kept)
      <4>1. UNCHANGED <<RequestPhase, operation, transport_reset_required>>
        BY <3>2 DEF SetRs485Hooks, BeginCompoundDeadline, EndCompoundDeadline, Tick,
           Rejected, stateVars, RxRetain, txVars, RequestPhase
      <4> QED
        BY <3>0, <4>1 DEF Lifecycle!Next, Lifecycle!Idle
    <3>3. CASE \E op \in Operations : StartRequest(op)
      <4>1. /\ RequestPhase = "idle" /\ ~transport_reset_required
            /\ RequestPhase' = "queued" /\ UNCHANGED transport_reset_required
        BY <3>3 DEF StartRequest, Admissible, RequestPhase
      <4>2. (operation \in StateChanging)' \in BOOLEAN
        OBVIOUS
      <4> QED
        BY <3>0, <4>1, <4>2 DEF Lifecycle!Next, Lifecycle!Admit
    <3>4. CASE NotifyTxStarted
      <4>1. CASE TxStarts
        <5>1. /\ RequestPhase = "queued" /\ RequestPhase' = "sending"
              /\ UNCHANGED <<operation, transport_reset_required>>
          BY <4>1 DEF TxStarts, RequestPhase
        <5> QED
          BY <3>0, <5>1 DEF Lifecycle!Next, Lifecycle!BeginSending
      <4>2. CASE TxNeverStarts
        BY <2>3, <4>2 DEF TxNeverStarts, Complete, Definite, NoCallback
      <4> QED
        BY <3>4, <4>1, <4>2 DEF NotifyTxStarted
    <3>5. CASE \E code \in TransportFailures \cup {"Ok"} : NotifyTxComplete(code)
      <4>1. PICK code \in TransportFailures \cup {"Ok"} : NotifyTxComplete(code)
        BY <3>5
      <4>2. TxVerdict(code) = "awaited"
        BY <2>3, <4>1, NoCallbackIsNoStatus DEF NotifyTxComplete, Complete
      <4>3. ~tx_timeout_latched
        BY <4>2 DEF TxVerdict
      <4>4. /\ RequestPhase = "sending" /\ RequestPhase' = "sent"
            /\ ~transport_reset_required
            /\ UNCHANGED <<operation, transport_reset_required>>
        BY <1>2, <4>1, <4>2, <4>3 DEF NotifyTxComplete, RequestPhase,
           InductiveInvariant, ResetWhileBusyIsLatched
      <4> QED
        BY <3>0, <4>4 DEF Lifecycle!Next, Lifecycle!EndSending
    <3>6. CASE PollLatch
      <4>1. /\ RequestPhase = "sending" /\ RequestPhase' = "sending"
            /\ transport_reset_required' = TRUE /\ UNCHANGED operation
        BY <3>6 DEF PollLatch, RequestPhase
      <4> QED
        BY <3>0, <4>1 DEF Lifecycle!Next, Lifecycle!Overrun
    <3>7. CASE Cancel
      <4>1. UNCHANGED <<RequestPhase, operation, transport_reset_required>>
        <5>1. UNCHANGED <<busy, awaiting_write_complete, tx_started, operation,
                          transport_reset_required>>
          BY <2>3, <3>7, NoCallbackIsNoStatus DEF Cancel, Complete
        <5> QED
          BY <5>1 DEF RequestPhase
      <4> QED
        BY <3>0, <4>1 DEF Lifecycle!Next, Lifecycle!Idle
    <3>8. CASE \/ \E code \in TransportFailures : TxAbandoned(code)
                                                  \/ NotifyRxFailure(code)
               \/ PollExpire
               \/ \E size \in 1 .. RxCapacity + 1 :
                    /\ OnRxBytes(size)
                    /\ ~\E kept \in 0 .. RxCapacity : RxRetain(size, kept)
      BY <2>3, <3>8, NoCallbackIsNoStatus
      DEF TxAbandoned, NotifyRxFailure, PollExpire, OnRxBytes, RxExpired, RxOverflow,
          RxDecodeError, RxPlcError, RxSuccess, RxParseFailure, Complete
    <3> QED
      BY <2>3, <3>1, <3>2, <3>3, <3>4, <3>5, <3>6, <3>7, <3>8 DEF Next, Poll, OnRxBytes
  <2> QED
    BY <1>2, <2>1, <2>2, <2>3
<1> QED
  BY <1>1, <1>2, InductiveCorrect, PTL DEF Spec, ImplementsLifecycle, Lifecycle!Spec
=============================================================================
