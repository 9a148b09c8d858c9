-------------------------- MODULE HighLevelProofs --------------------------
(***************************************************************************)
(* Theorems about the operations made of several requests: BitInWord, which *)
(* uses its client only by the client's own operations and keeps           *)
(* BitInvariant, and LongStateRead, which is whole for every number of     *)
(* points, every size of the staging byte and every range of numbers.      *)
(***************************************************************************)
EXTENDS BitInWord, LongStateRead, McClientProofs, SequenceTheorems

-----------------------------------------------------------------------------
(* The operation implements the asynchronous client.                       *)

\* The steps in which the application or the line moves the client, and the operation
\* follows.
ApplicationStep ==
  \/ BitConfigures \/ BitRequests
  \/ BitTxStarted \/ BitTxAbandoned \/ BitTxComplete
  \/ BitReceives \/ BitRxFailure
  \/ BitPoll \/ BitCancel \/ BitTick \/ BitRejected

LEMMA RoutesAreOperations ==
  ASSUME NEW read \in BitReads
  PROVE  /\ read \in Operations /\ read \in Reads
         /\ WriteFor[read] \in Operations /\ WriteFor[read] \in Writes
  BY BitAssumption DEF WriteFor, Reads, Writes

LEMMA ApplicationSteps ==
  ASSUME ApplicationStep
  PROVE  /\ Next /\ Follow
         /\ UNCHANGED compound_deadline_active
         /\ configured => configured'
<1> USE DEF configVars
<1>1. CASE BitConfigures
  BY <1>1 DEF BitConfigures, Next, Configure, SetRs485Hooks, compoundVars
<1>2. CASE BitRequests
  BY <1>2 DEF BitRequests, Next, StartRequest, compoundVars
<1>3. CASE BitTxStarted
  BY <1>3 DEF BitTxStarted, Next, NotifyTxStarted, TxStarts, TxNeverStarts, RequestFrame,
     compoundVars
<1>4. CASE BitTxAbandoned
  BY <1>4 DEF BitTxAbandoned, Next, TxAbandoned, RequestFrame, compoundVars
<1>5. CASE BitTxComplete
  <2>1. UNCHANGED <<compoundVars, configVars>>
    BY <1>5 DEF BitTxComplete, NotifyTxComplete, RequestFrame
  <2> QED
    BY <1>5, <2>1 DEF BitTxComplete, Next, compoundVars
<1>6. CASE BitReceives
  BY <1>6 DEF BitReceives, Next, OnRxBytes, RxExpired, RxOverflow, RxRetain,
     RxDecodeError, RxPlcError, RxSuccess, RxParseFailure, RxFrame, RequestFrame,
     compoundVars
<1>7. CASE BitRxFailure
  BY <1>7 DEF BitRxFailure, Next, NotifyRxFailure, RxFrame, RequestFrame, compoundVars
<1>8. CASE BitPoll \/ BitCancel
  BY <1>8 DEF BitPoll, BitCancel, Next, Poll, PollLatch, PollExpire, Cancel, RxFrame,
     RequestFrame, compoundVars
<1>9. CASE BitTick
  BY <1>9 DEF BitTick, Next, Tick
<1>10. CASE BitRejected
  BY <1>10 DEF BitRejected, Next, Rejected, stateVars, compoundVars
<1> QED
  BY <1>1, <1>2, <1>3, <1>4, <1>5, <1>6, <1>7, <1>8, <1>9, <1>10 DEF ApplicationStep

LEMMA BitStepIsClientStep ==
  ASSUME BitTypeOK, BitNext
  PROVE  Next
<1>1. CASE \E read \in BitReads : Begin(read)
  BY <1>1 DEF Begin, Next
<1>2. CASE BeginRead
  BY <1>2, RoutesAreOperations DEF BitTypeOK, BeginRead, Next
<1>3. CASE StartWrite
  BY <1>3, RoutesAreOperations DEF BitTypeOK, StartWrite, Next
<1>4. CASE Finish
  BY <1>4 DEF Finish, Next
<1>5. CASE ApplicationStep
  BY <1>5, ApplicationSteps
<1> QED
  BY <1>1, <1>2, <1>3, <1>4, <1>5 DEF BitNext, Callbacks, ApplicationStep

-----------------------------------------------------------------------------
(* Every step keeps BitInvariant.                                          *)

LEMMA BitTypeStep == BitTypeOK /\ TypeOK' /\ [BitNext]_bitAllVars => BitTypeOK'
<1> SUFFICES ASSUME BitTypeOK, TypeOK', [BitNext]_bitAllVars
             PROVE  BitTypeOK'
  OBVIOUS
<1> USE DEF BitTypeOK, Phases
<1>1. CASE UNCHANGED bitAllVars
  BY <1>1 DEF bitAllVars, bitVars
<1>2. CASE \E read \in BitReads : Begin(read)
  BY <1>2 DEF Begin
<1>3. CASE Callbacks
  BY <1>3 DEF Callbacks, BeginRead, StartWrite, Finish
<1>4. CASE ApplicationStep
  BY <1>4, ApplicationSteps DEF Follow, AfterCompletion, TypeOK
<1> QED
  BY <1>1, <1>2, <1>3, <1>4 DEF BitNext, ApplicationStep

\* The operation's steps between requests leave a client that admits the next one.
LEMMA CallbackStep ==
  ASSUME BitInvariant, BitTypeOK',
         (\E read \in BitReads : Begin(read)) \/ Callbacks
  PROVE  BitInvariant'
<1> USE DEF BitInvariant, BitTypeOK, DeadlineIsOwned, ClientIsHeld, HonestBitWrite,
    OneDeadlineForBoth, configVars
<1>1. CASE \E read \in BitReads : Begin(read)
  BY <1>1 DEF Begin, BeginCompoundDeadline, Admissible, txVars
<1>2. CASE BeginRead
  BY <1>2 DEF BeginRead, StartRequest, compoundVars
<1>3. CASE StartWrite
  BY <1>3 DEF StartWrite, StartRequest, compoundVars
<1>4. CASE Finish
  BY <1>4 DEF Finish, EndCompoundDeadline
<1> QED
  BY <1>1, <1>2, <1>3, <1>4 DEF Callbacks

\* The end of the read, or of the write, while the operation waits for it.
LEMMA CompletionStep ==
  ASSUME BitInvariant, BitTypeOK', InductiveInvariant, InductiveInvariant',
         ApplicationStep, op_phase # "idle", callback' # NoCallback
  PROVE  BitInvariant'
<1>0. /\ Next /\ op_phase \in {"read", "write"} /\ compound_deadline_active
      /\ UNCHANGED <<compound_deadline_active, compound_age, configured, op_read>>
      /\ op_phase' = AfterCompletion(callback') /\ op_status' = callback'
      /\ write_sent' = (write_sent \/ (op_phase = "write" /\ tx_started'))
      /\ busy /\ ~busy' /\ ~tx_started'
      /\ {write_sent, tx_started, transport_reset_required} \subseteq BOOLEAN
  BY ApplicationSteps, CompletionEnds
  DEF Follow, BitInvariant, BitTypeOK, ClientIsHeld, DeadlineIsOwned, InductiveInvariant,
      RequestShape, TypeOK
<1>1. CASE op_phase = "read" /\ callback' = Definite("Ok")
  <2>1. Concluded
    BY <1>0, <1>1, AnswerInTime DEF Definite
  <2>2. Admissible'
    BY <1>0, <2>1 DEF Concluded, Admissible, BitInvariant
  <2>3. op_phase' = "modify"
    BY <1>0, <1>1 DEF AfterCompletion
  <2> QED
    BY <1>0, <1>1, <2>2, <2>3
    DEF BitInvariant, ClientIsHeld, DeadlineIsOwned, HonestBitWrite, OneDeadlineForBoth
<1>2. CASE ~(op_phase = "read" /\ callback' = Definite("Ok"))
  <2>1. op_phase' = "finish"
    BY <1>0, <1>2 DEF AfterCompletion
  <2>2. HonestBitWrite'
    <3>1. CASE op_phase = "read"
      <4>1. operation \in Reads /\ ~write_sent'
        BY <1>0, <3>1, RoutesAreOperations DEF BitInvariant, BitTypeOK, ClientIsHeld
      <4>2. ~MayHaveChangedPlc
        BY <4>1 DEF MayHaveChangedPlc, StateChanging
      <4>3. callback'.code # "Ok"
        BY <1>0, <1>2, <3>1, AnswerInTime DEF Concluded, Definite
      <4> QED
        BY <1>0, <4>1, <4>2, <4>3, HonestCompletion DEF HonestBitWrite
    <3>2. CASE op_phase = "write"
      <4>1. operation \in OutcomeCanBeUnknown /\ (write_sent' <=> tx_started)
        BY <1>0, <3>2, RoutesAreOperations
        DEF BitInvariant, BitTypeOK, ClientIsHeld, OutcomeCanBeUnknown
      <4>2. write_sent' <=> MayHaveChangedPlc
        BY <4>1, StateChangingOperations DEF MayHaveChangedPlc
      <4> QED
        BY <1>0, <4>1, <4>2, HonestCompletion DEF HonestBitWrite
    <3> QED
      BY <1>0, <3>1, <3>2
  <2>3. OneDeadlineForBoth'
    BY <1>0, AnswerInTime DEF OneDeadlineForBoth, DeadlineAge
  <2> QED
    BY <1>0, <2>1, <2>2, <2>3 DEF BitInvariant, ClientIsHeld, DeadlineIsOwned
<1> QED
  BY <1>1, <1>2

\* Any other step of the client while the operation waits or rests.
LEMMA WaitingStep ==
  ASSUME BitInvariant, BitTypeOK', InductiveInvariant, InductiveInvariant',
         ApplicationStep, op_phase = "idle" \/ callback' = NoCallback
  PROVE  BitInvariant'
<1>0. /\ Next /\ op_phase \in {"idle", "read", "write"}
      /\ UNCHANGED <<compound_deadline_active, op_phase, op_status, op_read>>
      /\ write_sent' = (write_sent \/ (op_phase = "write" /\ tx_started'))
      /\ configured => configured'
      /\ {write_sent, tx_started, tx_started', configured} \subseteq BOOLEAN
  BY ApplicationSteps DEF Follow, BitInvariant, BitTypeOK, InductiveInvariant, TypeOK
<1>1. op_phase # "idle" => busy' /\ operation' = operation /\ (tx_started => tx_started')
  BY <1>0, RequestGoesOn DEF BitInvariant, ClientIsHeld
<1> QED
  BY <1>0, <1>1 DEF BitInvariant, ClientIsHeld, DeadlineIsOwned, HonestBitWrite,
     OneDeadlineForBoth

LEMMA BitInvariantStep ==
  BitInvariant /\ InductiveInvariant /\ InductiveInvariant' /\ [BitNext]_bitAllVars
    => BitInvariant'
<1> SUFFICES ASSUME BitInvariant, InductiveInvariant, InductiveInvariant',
                    [BitNext]_bitAllVars
             PROVE  BitInvariant'
  OBVIOUS
<1>1. BitTypeOK'
  BY BitTypeStep DEF BitInvariant, InductiveInvariant
<1>2. CASE UNCHANGED bitAllVars
  BY <1>1, <1>2
  DEF bitAllVars, bitVars, vars, stateVars, compoundVars, txVars, configVars, BitInvariant,
      DeadlineIsOwned, ClientIsHeld, HonestBitWrite, OneDeadlineForBoth, Admissible
<1>3. CASE BitNext
  BY <1>1, <1>3, CallbackStep, CompletionStep, WaitingStep DEF BitNext, ApplicationStep
<1> QED
  BY <1>2, <1>3

-----------------------------------------------------------------------------
(* Theorems.                                                               *)

LEMMA BitInitHolds == BitInit => Init /\ BitInvariant
  BY DEF BitInit, Init, BitInvariant, BitTypeOK, Phases, DeadlineIsOwned, ClientIsHeld,
         HonestBitWrite, OneDeadlineForBoth

\* The types of the operation, enough to see that its requests are the client's.
THEOREM BitTypesAndClient == BitSpec => []BitTypeOK /\ []InductiveInvariant
<1>1. BitTypeOK /\ InductiveInvariant /\ [BitNext]_bitAllVars
        => BitTypeOK' /\ InductiveInvariant'
  <2> SUFFICES ASSUME BitTypeOK, InductiveInvariant, [BitNext]_bitAllVars
               PROVE  BitTypeOK' /\ InductiveInvariant'
    OBVIOUS
  <2>1. [Next]_vars
    BY BitStepIsClientStep DEF bitAllVars
  <2>2. InductiveInvariant'
    BY <2>1, InductiveStep
  <2> QED
    BY <2>2, BitTypeStep DEF InductiveInvariant
<1>2. Init => InductiveInvariant
  BY InductiveInit
<1> QED
  BY <1>1, <1>2, BitInitHolds, PTL DEF BitSpec, BitInvariant

\* Every behaviour of the operation is one of the client under the application's calls:
\* all theorems of McClientProofs hold for it.
THEOREM BitRefinesClient == BitSpec => Spec
<1>1. BitTypeOK /\ [BitNext]_bitAllVars => [Next]_vars
  BY BitStepIsClientStep DEF bitAllVars
<1> QED
  BY <1>1, BitTypesAndClient, BitInitHolds, PTL DEF BitSpec, Spec

\* The inductive invariant of the operation.
THEOREM BitInvariantCorrect == BitSpec => []BitInvariant
  BY BitInvariantStep, BitTypesAndClient, BitInitHolds, PTL DEF BitSpec

\* The compound deadline is the client's exactly while an operation runs.
THEOREM DeadlineIsOwnedHolds == BitSpec => []DeadlineIsOwned
  BY BitInvariantCorrect, PTL DEF BitInvariant, ClientIsHeld

\* No other request gets between the read and the write, and no path keeps the deadline.
THEOREM ClientIsHeldHolds == BitSpec => []ClientIsHeld
  BY BitInvariantCorrect, PTL DEF BitInvariant

\* The reported status is honest about the PLC's word.
THEOREM HonestBitWriteHolds == BitSpec => []HonestBitWrite
  BY BitInvariantCorrect, PTL DEF BitInvariant

\* Read and write together succeed only within one response timeout.
THEOREM OneDeadlineForBothHolds == BitSpec => []OneDeadlineForBoth
  BY BitInvariantCorrect, PTL DEF BitInvariant
-----------------------------------------------------------------------------
(* LongStateRead.                                                          *)

\* A point has a bit of the stage to itself.
LEMMA OwnBit ==
  ASSUME NEW K \in Nat \ {0}, NEW i \in Nat, NEW j \in Nat,
         i % K = j % K, i \div K = j \div K
  PROVE  i = j
<1>1. i = K * (i \div K) + (i % K) OBVIOUS
<1>2. j = K * (j \div K) + (j % K) OBVIOUS
<1> QED BY ONLY <1>1, <1>2, i % K = j % K, i \div K = j \div K

\* The stage is large enough for its points.
LEMMA ByteInStage ==
  ASSUME NEW K \in Nat \ {0}, NEW n \in Nat, NEW i \in 0..(n - 1)
  PROVE  i \div K \in 0..((n + K - 1) \div K - 1)
<1>1. i = K * (i \div K) + (i % K) /\ i % K \in 0..(K - 1) /\ i \div K \in Nat OBVIOUS
<1> DEFINE m == n + K - 1
<1>2. m \in Nat OBVIOUS
<1>3. m = K * (m \div K) + (m % K) /\ m % K \in 0..(K - 1) /\ m \div K \in Nat
  BY ONLY <1>2, K \in Nat \ {0}
<1>4. SUFFICES ASSUME m \div K <= i \div K PROVE FALSE BY <1>1, <1>3
<1>5. K * (m \div K) <= K * (i \div K)
  BY ONLY <1>1, <1>3, <1>4, K \in Nat \ {0}
<1> QED BY ONLY <1>1, <1>3, <1>5, K \in Nat \ {0}, n \in Nat, i \in 0..(n - 1)

LEMMA InitInvariant == LongStateInit => LongStateInvariant
<1> SUFFICES ASSUME LongStateInit PROVE LongStateInvariant OBVIOUS
<1>1. LongStateTypeOK
  BY LongStateAssumption DEF LongStateInit, LongStateTypeOK, Specs, Codes, ReadSpec, Untouched
<1>2. LongStateReadIsWhole
  BY DEF LongStateInit, LongStateReadIsWhole, Answers, BlockWise, Specs, ReadSpec
<1> QED BY <1>1, <1>2 DEF LongStateInvariant, LongStateInit

\* An accepted call can be carried out; a refused one has sent nothing.
LEMMA CallKeeps ==
  ASSUME LongStateInvariant,
         NEW code \in Codes \union {OtherCode}, NEW first \in 0..(NumberLimit - 1),
         NEW points \in 0..MaxPoints, NEW size \in 0..MaxPoints, Call(code, first, points, size)
  PROVE  LongStateInvariant'
<1> USE LongStateAssumption
<1>0. call'.spec \in {Specs[c] : c \in Codes}
  BY DEF Call, Codes, Specs
<1>1. LongStateTypeOK'
  <2>1. result' \in {"none", "InvalidArgument", "BufferTooSmall"} BY DEF Call, Refusal
  <2>2. asked' = <<>> /\ answered' = <<>> /\ index' = 0 BY DEF Call
  <2>3. DOMAIN out_bits' = 0..(call'.size - 1) BY DEF Call, Untouched
  <2>4. call'.first = first /\ call'.points = points /\ call'.size = size BY DEF Call
  <2>5. size \in Nat BY ONLY LongStateAssumption, size \in 0..MaxPoints DEF LongStateAssumption
  <2> QED BY <1>0, <2>1, <2>2, <2>3, <2>4, <2>5 DEF LongStateTypeOK
<1>2. LongStateReadIsWhole'
  BY DEF Call, Refusal, LongStateReadIsWhole, BlockWise, Answers
<1>3. ASSUME result' = "none" PROVE PlanHolds' /\ StageFollowsAnswers'
  <2>1. PlanHolds'
    BY <1>3 DEF Call, Refusal, PlanHolds, BlockWise
  <2>2. ASSUME NEW i \in 0..(points - 1) PROVE i % StageBits \notin staged'[i \div StageBits]
    <3>1. i \div StageBits \in 0..(StageBytes(points) - 1)
      BY ByteInStage, points \in Nat DEF LongStateAssumption, StageBytes
    <3> QED BY <3>1 DEF Call, NothingStaged
  <2>3. /\ call'.points = points /\ call'.size = size /\ index' = 0
        /\ asked' = <<>> /\ answered' = <<>> /\ out_bits' = Untouched(call'.size)
        /\ DOMAIN staged' = 0..(StageBytes(call'.points) - 1)
    BY DEF Call, NothingStaged
  <2>4. \A i \in 0..(points - 1) : ~(i < index') BY <2>3, points \in 0..MaxPoints DEF LongStateAssumption
  <2>5. Len(asked') = index' /\ Len(answered') = index' /\ ~(\E i \in 1..Len(asked') : TRUE)
    BY <2>3
  <2> QED BY <2>1, <2>2, <2>3, <2>4, <2>5 DEF StageFollowsAnswers
<1> QED BY <1>1, <1>2, <1>3 DEF LongStateInvariant

LEMMA BaseIsKnown ==
  LongStateTypeOK =>
    /\ call.spec.base \in {Specs[code].base : code \in Codes}
    /\ call.spec.kind \in StateBits
BY DEF LongStateTypeOK, Codes, Specs, ReadSpec, StateBits

\* The numbers of an accepted plan neither wrap nor outgrow the wire field.
LEMMA PlanCoversPoints ==
  ASSUME LongStateInvariant, InProgress("StatusBlock"), index < call.points
  PROVE  /\ Number = call.first + index
         /\ Number \in 0..(NumberLimit - 1)
         /\ Encodable(call.spec.base, Number)
<1>1. /\ call.first \in Nat /\ call.points \in Nat /\ index \in 0..(call.points - 1)
      /\ NumberLimit \in Nat /\ WireMaximum \in Nat
  BY LongStateAssumption DEF LongStateInvariant, LongStateTypeOK, LongStateAssumption
<1>2. PlanIsValid(call.spec.base, call.first, call.points)
  BY DEF LongStateInvariant, InProgress, PlanHolds, BlockWise
<1>3. /\ call.first + index \in 0..(NumberLimit - 1)
      /\ call.first + index <= WireMaximum /\ call.spec.base \in Readable
  BY <1>1, <1>2 DEF PlanIsValid, Encodable
<1>4. (call.first + index) % NumberLimit = call.first + index BY ONLY <1>1, <1>3
<1> QED BY <1>3, <1>4 DEF Encodable, Number

\* A call that ends before it committed has left the caller's bits alone.
LEMMA FailureKeeps ==
  ASSUME LongStateInvariant, AllocationFails \/ PointFails
  PROVE  LongStateInvariant'
<1> USE LongStateAssumption DEF LongStateInvariant
<1>1. CASE AllocationFails
  BY <1>1 DEF AllocationFails, LongStateTypeOK, LongStateReadIsWhole, StageFollowsAnswers,
              InProgress, BlockWise
<1>2. CASE PointFails
  <2>1. Encodable(call.spec.base, Number) /\ Number \in 0..(NumberLimit - 1)
    BY <1>2, PlanCoversPoints DEF PointFails
  <2>2. result' = "Failed" BY <1>2, <2>1 DEF PointFails
  <2>3. LongStateTypeOK'
    <3>1. [base |-> call.spec.base, number |-> Number] \in Devices
      BY <2>1, BaseIsKnown DEF Devices
    <3>2. asked \in Seq(Devices) BY DEF LongStateTypeOK
    <3>3. asked' = asked \/ asked' = Append(asked, [base |-> call.spec.base, number |-> Number])
      BY <1>2 DEF PointFails, Asks
    <3>4. Append(asked, [base |-> call.spec.base, number |-> Number]) \in Seq(Devices)
      BY <3>1, <3>2, AppendProperties
    <3>5. asked' \in Seq(Devices) BY ONLY <3>2, <3>3, <3>4
    <3> QED BY <1>2, <2>2, <3>5 DEF PointFails, LongStateTypeOK
  <2>4. out_bits' = Untouched(call'.size)
    BY <1>2 DEF PointFails, InProgress, StageFollowsAnswers
  <2> QED BY <2>2, <2>3, <2>4 DEF LongStateReadIsWhole
<1> QED BY <1>1, <1>2

\* A point that was read is staged in its own bit, and disturbs no other.
LEMMA PointReadKeeps ==
  ASSUME LongStateInvariant, PointRead PROVE LongStateInvariant'
<1> USE LongStateAssumption DEF LongStateInvariant
<1>1. /\ Number = call.first + index /\ Number \in 0..(NumberLimit - 1)
      /\ result = "none" /\ BlockWise /\ index < call.points
  BY PlanCoversPoints DEF PointRead, InProgress, BlockWise
<1>2. PICK block \in SUBSET StateBits :
        /\ answered' = Append(answered, block)
        /\ staged' = IF call.spec.kind \notin block THEN staged
                     ELSE [staged EXCEPT ![index \div StageBits] =
                             @ \union {index % StageBits}]
  BY DEF PointRead
<1>3. PlanHolds /\ StageFollowsAnswers BY <1>1
<1>4. /\ index \in Nat /\ call.points \in Nat /\ StageBits \in Nat \ {0}
      /\ call.first \in Nat
  BY DEF LongStateTypeOK, LongStateAssumption
<1>5. LongStateTypeOK'
  <2>1. [base |-> call.spec.base, number |-> Number] \in Devices
    BY <1>1, BaseIsKnown DEF Devices
  <2>2. asked' \in Seq(Devices)
    BY <2>1, AppendProperties DEF PointRead, Asks, LongStateTypeOK
  <2>3. answered' \in Seq(SUBSET StateBits) BY <1>2 DEF LongStateTypeOK
  <2> QED BY <1>1, <2>2, <2>3 DEF PointRead, LongStateTypeOK
<1>6. PlanHolds' BY <1>3 DEF PointRead, PlanHolds, BlockWise
<1>7. StageFollowsAnswers'
  <2>1. /\ Len(asked) = index /\ Len(answered) = index
        /\ answered \in Seq(SUBSET StateBits)
        /\ asked \in Seq(Devices)
    BY <1>1, <1>3 DEF StageFollowsAnswers, LongStateTypeOK
  <2>2. Len(asked') = index' /\ Len(answered') = index'
    BY <1>2, <2>1 DEF PointRead, Asks
  <2>3. \A i \in 1..Len(asked') :
          asked'[i] = [base |-> call'.spec.base, number |-> call'.first + i - 1]
    <3> DEFINE device == [base |-> call.spec.base, number |-> Number]
    <3>1. asked' = Append(asked, device) BY DEF PointRead, Asks
    <3>2. Len(asked') = index + 1 BY <2>1, <3>1
    <3>3. call' = call BY DEF PointRead
    <3> SUFFICES ASSUME NEW i \in 1..(index + 1)
                 PROVE  asked'[i] = [base |-> call.spec.base, number |-> call.first + i - 1]
      BY <3>2, <3>3
    <3>4. CASE i = index + 1
      <4>1. asked'[i] = device BY <2>1, <3>1, <3>4
      <4>2. call.first + i - 1 = Number BY <1>1, <1>4, <3>4
      <4> QED BY <4>1, <4>2
    <3>5. CASE i # index + 1
      <4>1. i \in 1..Len(asked) BY <1>4, <2>1, <3>5
      <4>2. asked'[i] = asked[i] BY <2>1, <3>1, <4>1
      <4> QED BY <1>3, <4>1, <4>2 DEF StageFollowsAnswers
    <3> QED BY <3>4, <3>5
  <2>4. DOMAIN staged' = 0..(StageBytes(call'.points) - 1)
    BY <1>2, <1>3 DEF PointRead, StageFollowsAnswers
  <2>5. ASSUME NEW i \in 0..(call.points - 1)
        PROVE  i % StageBits \in staged'[i \div StageBits]
                 <=> i < index' /\ call.spec.kind \in answered'[i + 1]
    <3>0. i \in Nat BY <1>4
    <3>1. i \div StageBits \in DOMAIN staged
      BY ByteInStage, <1>3, <1>4 DEF StageFollowsAnswers, StageBytes
    <3>2. i % StageBits \in staged[i \div StageBits]
            <=> i < index /\ call.spec.kind \in answered[i + 1]
      BY <1>3 DEF StageFollowsAnswers
    <3>3. index' = index + 1 BY DEF PointRead
    <3>4. CASE i = index
      <4>1. answered'[i + 1] = block BY <1>2, <1>4, <2>1, <3>4
      <4>2. i % StageBits \in staged'[i \div StageBits] <=> call.spec.kind \in block
        <5>1. CASE call.spec.kind \notin block BY <1>2, <3>2, <3>4, <5>1, <1>4
        <5>2. CASE call.spec.kind \in block
          BY <1>2, <3>1, <3>4, <5>2
        <5> QED BY <5>1, <5>2
      <4> QED BY <3>3, <3>4, <4>1, <4>2, <1>4
    <3>5. CASE i # index
      <4>1. i < index => answered'[i + 1] = answered[i + 1]
        <5>1. i < index => i + 1 \in 1..Len(answered) BY <1>4, <2>1, <3>0
        <5> QED BY <1>2, <2>1, <5>1, AppendProperties
      <4>2. ~(i % StageBits = index % StageBits /\ i \div StageBits = index \div StageBits)
        BY OwnBit, <1>4, <3>0, <3>5
      <4>3. i % StageBits \in staged'[i \div StageBits]
              <=> i % StageBits \in staged[i \div StageBits]
        BY <1>2, <3>1, <4>2
      <4>4. i < index' <=> i < index BY <1>4, <3>0, <3>3, <3>5
      <4> QED BY <3>2, <4>1, <4>3, <4>4
    <3> QED BY <3>4, <3>5
  <2>6. out_bits' = Untouched(call'.size) BY <1>3 DEF PointRead, StageFollowsAnswers
  <2>7. call' = call /\ BlockWise' BY <1>1 DEF PointRead, BlockWise
  <2> QED BY <2>2, <2>3, <2>4, <2>5, <2>6, <2>7 DEF StageFollowsAnswers
<1>8. LongStateReadIsWhole' BY <1>1 DEF PointRead, LongStateReadIsWhole
<1> QED BY <1>5, <1>6, <1>7, <1>8

\* What is committed is what was answered.
LEMMA CommitKeeps == ASSUME LongStateInvariant, Commit PROVE LongStateInvariant'
<1> USE LongStateAssumption DEF LongStateInvariant
<1>1. result = "none" /\ BlockWise /\ index = call.points BY DEF Commit, InProgress, BlockWise
<1>2. PlanHolds /\ StageFollowsAnswers BY <1>1
<1>3. result' = "Ok" /\ call' = call /\ asked' = asked /\ answered' = answered BY DEF Commit
<1>4. LongStateTypeOK' BY DEF Commit, LongStateTypeOK
<1>5. Answers'
  <2>1. Len(asked') = call'.points BY <1>1, <1>2, <1>3 DEF StageFollowsAnswers
  <2>2. ASSUME NEW i \in 0..(call.points - 1)
        PROVE  out_bits'[i] = IF call.spec.kind \in answered[i + 1] THEN "on" ELSE "off"
    <3>1. i \in DOMAIN out_bits /\ i < call.points
      BY <1>2 DEF LongStateTypeOK, PlanHolds
    <3>2. i % StageBits \in staged[i \div StageBits] <=> call.spec.kind \in answered[i + 1]
      BY <1>1, <1>2, <3>1 DEF StageFollowsAnswers
    <3>3. out_bits'[i] = IF i % StageBits \in staged[i \div StageBits] THEN "on" ELSE "off"
      BY <3>1 DEF Commit, LongStateTypeOK
    <3> QED BY <3>2, <3>3
  <2> QED BY <1>1, <1>2, <1>3, <2>1, <2>2 DEF Answers, BlockWise, StageFollowsAnswers
<1> QED BY <1>3, <1>4, <1>5 DEF LongStateReadIsWhole

\* Long counters: the one request, and its bits in place.
LEMMA DirectKeeps ==
  ASSUME LongStateInvariant, DirectRead \/ DirectFails PROVE LongStateInvariant'
<1> USE LongStateAssumption DEF LongStateInvariant
<1>1. /\ result = "none" /\ ~BlockWise /\ call' = call /\ index' = index /\ staged' = staged
      /\ PlanHolds /\ StageFollowsAnswers
  BY DEF DirectRead, DirectFails, InProgress, BlockWise
<1>2. asked = <<>> BY <1>1 DEF StageFollowsAnswers
<1>3. /\ [base |-> call.spec.base, number |-> call.first] \in Devices
      /\ call.spec.kind \in StateBits
  BY BaseIsKnown DEF LongStateTypeOK, Devices
<1>5. asked' \in Seq(Devices)
  <2> DEFINE device == [base |-> call.spec.base, number |-> call.first]
  <2>1. asked \in Seq(Devices) BY DEF LongStateTypeOK
  <2>2. asked' = asked \/ asked' = Append(asked, device) BY DEF DirectRead, DirectFails, Asks
  <2>3. Append(asked, device) \in Seq(Devices) BY <1>3, <2>1, AppendProperties
  <2> QED BY ONLY <2>1, <2>2, <2>3
<1>6. CASE DirectFails
  BY <1>1, <1>5, <1>6 DEF DirectFails, LongStateTypeOK, LongStateReadIsWhole, BlockWise
<1>7. CASE DirectRead
  <2>1. PICK bits \in [1..call.points -> BOOLEAN], parsed \in 0..call.points :
          /\ answered' = [i \in 1..parsed |-> IF bits[i] THEN {call.spec.kind} ELSE {}]
          /\ out_bits' = [i \in DOMAIN out_bits |->
               IF i >= parsed THEN out_bits[i] ELSE IF bits[i + 1] THEN "on" ELSE "off"]
          /\ result' = IF parsed = call.points THEN "Ok" ELSE "Failed"
    BY <1>7 DEF DirectRead
  <2>2. answered' \in Seq(SUBSET StateBits)
    <3>1. parsed \in Nat BY DEF LongStateTypeOK, LongStateAssumption
    <3>2. \A i \in 1..parsed : (IF bits[i] THEN {call.spec.kind} ELSE {}) \in SUBSET StateBits
      BY <1>3
    <3> QED BY <2>1, <3>1, <3>2, IsASeq
  <2>3. LongStateTypeOK' BY <1>1, <1>5, <2>1, <2>2 DEF LongStateTypeOK
  <2>4. ASSUME result' = "Ok" PROVE Answers'
    <3>1. parsed = call.points BY <2>1, <2>4
    <3>2. asked' = <<[base |-> call.spec.base, number |-> call.first]>>
      BY <1>2, <1>7 DEF DirectRead, Asks
    <3>3. ASSUME NEW i \in 0..(call.points - 1)
          PROVE  out_bits'[i] = IF call.spec.kind \in answered'[i + 1] THEN "on" ELSE "off"
      <4>1. i \in DOMAIN out_bits /\ i < call.points /\ i + 1 \in 1..call.points
        BY <1>1 DEF LongStateTypeOK, PlanHolds
      <4>2. out_bits'[i] = IF bits[i + 1] THEN "on" ELSE "off"
        BY <2>1, <3>1, <4>1 DEF LongStateTypeOK
      <4>3. answered'[i + 1] = IF bits[i + 1] THEN {call.spec.kind} ELSE {}
        BY <2>1, <3>1, <4>1
      <4> QED BY <4>2, <4>3
    <3>4. Len(asked') = 1 /\ asked'[1] = [base |-> call.spec.base, number |-> call.first]
      BY <3>2
    <3>5. call.first + 1 - 1 = call.first BY DEF LongStateTypeOK
    <3> QED BY <1>1, <3>3, <3>4, <3>5 DEF Answers, BlockWise
  <2>5. ~BlockWise' /\ result' \in {"Ok", "Failed"} BY <1>1, <2>1 DEF BlockWise
  <2> QED BY <2>3, <2>4, <2>5 DEF LongStateReadIsWhole
<1> QED BY <1>6, <1>7

\* The inductive invariant of the long-state read.
THEOREM LongStateInvariantCorrect == LongStateSpec => []LongStateInvariant
<1>1. LongStateInvariant /\ [LongStateNext]_longVars => LongStateInvariant'
  <2> SUFFICES ASSUME LongStateInvariant, [LongStateNext]_longVars PROVE LongStateInvariant'
    OBVIOUS
  <2>1. CASE UNCHANGED longVars
    BY <2>1 DEF longVars, LongStateInvariant, LongStateTypeOK, PlanHolds, StageFollowsAnswers,
                LongStateReadIsWhole, Answers, BlockWise
  <2>2. CASE LongStateNext
    BY <2>2, CallKeeps, FailureKeeps, PointReadKeeps, CommitKeeps, DirectKeeps
       DEF LongStateNext
  <2> QED BY <2>1, <2>2
<1> QED BY <1>1, InitInvariant, PTL DEF LongStateSpec

\* The aggregate is all or nothing, and every bit is its own point's, for every number of
\* points, staging width and range of device numbers.
THEOREM LongStateReadIsWholeHolds == LongStateSpec => []LongStateReadIsWhole
<1>1. LongStateInvariant => LongStateReadIsWhole BY DEF LongStateInvariant
<1> QED BY <1>1, LongStateInvariantCorrect, PTL
=============================================================================
