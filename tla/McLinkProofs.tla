---------------------------- MODULE McLinkProofs ----------------------------
(***************************************************************************)
(* Theorems about McLink, for every value of its constants.                *)
(***************************************************************************)
EXTENDS McLink, McClientProofs, SequenceTheorems

-----------------------------------------------------------------------------
(* Entries of a sequence.                                                  *)

\* The entries of a sequence without its first.
LEMMA TailEntries ==
  ASSUME NEW S, NEW s \in Seq(S), s # <<>>
  PROVE  /\ Tail(s) \in Seq(S)
         /\ 1 \in DOMAIN s /\ Head(s) = s[1] /\ Head(s) \in S
         /\ \A i \in DOMAIN Tail(s) : /\ i \in Nat /\ i + 1 \in DOMAIN s /\ i + 1 > 1
                                      /\ Tail(s)[i] = s[i + 1]
<1>1. Len(s) \in Nat \ {0} /\ DOMAIN s = 1 .. Len(s)
  BY EmptySeq, LenProperties
<1>2. /\ Head(s) \in S /\ Tail(s) \in Seq(S)
      /\ Len(Tail(s)) = Len(s) - 1
      /\ \A i \in 1 .. Len(Tail(s)) : Tail(s)[i] = s[i + 1]
  BY HeadTailProperties
<1>3. DOMAIN Tail(s) = 1 .. Len(s) - 1
  BY <1>1, <1>2, LenProperties
<1>4. Head(s) = s[1]
  BY <1>1
<1> QED
  BY <1>1, <1>2, <1>3, <1>4

\* The entries of a sequence with one more.
LEMMA AppendEntries ==
  ASSUME NEW S, NEW s \in Seq(S), NEW e \in S
  PROVE  /\ Append(s, e) \in Seq(S)
         /\ \A i \in DOMAIN Append(s, e) :
              \/ i \in DOMAIN s /\ Append(s, e)[i] = s[i]
              \/ i = Len(s) + 1 /\ Append(s, e)[i] = e
         /\ DOMAIN s = 1 .. Len(s) /\ Len(s) \in Nat
<1>1. Len(s) \in Nat /\ DOMAIN s = 1 .. Len(s)
  BY LenProperties
<1>2. /\ Append(s, e) \in Seq(S)
      /\ Len(Append(s, e)) = Len(s) + 1
      /\ \A i \in 1 .. Len(s) : Append(s, e)[i] = s[i]
      /\ Append(s, e)[Len(s) + 1] = e
  BY AppendProperties
<1>3. DOMAIN Append(s, e) = 1 .. Len(s) + 1
  BY <1>2, LenProperties
<1> QED
  BY <1>1, <1>2, <1>3

\* A sequence changed entry by entry.
LEMMA MappedEntries ==
  ASSUME NEW S, NEW s \in Seq(S), NEW t, NEW T,
         DOMAIN t = DOMAIN s, t = [i \in DOMAIN t |-> t[i]],
         \A i \in DOMAIN s : t[i] \in T
  PROVE  t \in Seq(T)
<1>1. Len(s) \in Nat /\ DOMAIN s = 1 .. Len(s)
  BY LenProperties
<1>2. t \in [1 .. Len(s) -> T]
  BY <1>1
<1> QED
  BY <1>1, <1>2, SeqDef

-----------------------------------------------------------------------------
(* The client on the line is the client.                                   *)

\* Each step of the link is a step of the client.
LEMMA LinkStepIsClientStep == LinkNext => Next
<1> SUFFICES ASSUME LinkNext
             PROVE  Next
  OBVIOUS
<1>0. 1 \in 1 .. RxCapacity + 1 /\ 0 \in 0 .. RxCapacity /\ 1 \in 0 .. RxCapacity
  BY ClientAssumption
<1>1. CASE LinkConfigure
  BY <1>1 DEF LinkConfigure, Next
<1>2. ASSUME NEW op \in Operations, LinkStart(op)
      PROVE  Next
  BY <1>2 DEF LinkStart, Next
<1>3. CASE FrameLeaves \/ \E accepted \in BOOLEAN : Serve(accepted)
  BY <1>3 DEF FrameLeaves, Serve, Next
<1>4. ASSUME NEW code \in TransportFailures \cup {"Ok"}, LinkTxComplete(code)
      PROVE  Next
  BY <1>4 DEF LinkTxComplete, Next
<1>5. CASE AnswerBegins
  BY <1>0, <1>5 DEF AnswerBegins, OnRxBytes, Next
<1>6. CASE AnswerArrives
  <2>1. OnRxBytes(1) \/ Rejected
    BY <1>0, <1>6 DEF AnswerArrives, Decodes, OnRxBytes
  <2> QED
    BY <1>0, <2>1 DEF Next
<1>7. CASE \/ NotifyTxStarted
           \/ \E code \in TransportFailures : NotifyRxFailure(code)
           \/ Poll \/ Cancel \/ Tick
  BY <1>7 DEF Next
<1> QED
  BY <1>1, <1>2, <1>3, <1>4, <1>5, <1>6, <1>7 DEF LinkNext

\* The client on the line is a client: what is proved of McClient holds on the link.
THEOREM LinkRefinesClient == LinkSpec => Spec
<1>1. LinkInit => Init
  BY DEF LinkInit
<1>2. [LinkNext]_<<vars, linkVars>> => [Next]_vars
  BY LinkStepIsClientStep
<1> QED
  BY <1>1, <1>2, PTL DEF LinkSpec, Spec

-----------------------------------------------------------------------------
(* Frames.                                                                 *)

\* A block number and an age that are in range.
LEMMA ZeroInRange == 0 \in 0 .. BlockModulus - 1
  BY ClientAssumption

\* A request, and an answer, that has seen one admission more.
LEMMA AgedRequest ==
  ASSUME NEW frame \in Request, frame.age < BlockModulus - 1,
         NEW aged \in {Aged(frame), Superseded(frame)}
  PROVE  /\ aged \in Request /\ aged.age = frame.age + 1
         /\ aged.op = frame.op /\ aged.block = frame.block
<1>1. frame.age + 1 \in 0 .. BlockModulus - 1
  BY ClientAssumption DEF Request
<1>2. /\ Aged(frame) \in Request /\ Aged(frame).age = frame.age + 1
      /\ Aged(frame).op = frame.op /\ Aged(frame).block = frame.block
  BY <1>1 DEF Aged, Request
<1>3. /\ Superseded(frame) \in Request /\ Superseded(frame).age = Aged(frame).age
      /\ Superseded(frame).op = Aged(frame).op
      /\ Superseded(frame).block = Aged(frame).block
  BY <1>2 DEF Superseded, Request
<1> QED
  BY <1>2, <1>3

LEMMA AgedAnswer ==
  ASSUME NEW frame \in Answer, frame.age < BlockModulus - 1
  PROVE  /\ Aged(frame) \in Answer /\ Aged(frame).age = frame.age + 1
         /\ Aged(frame).kind = frame.kind /\ Aged(frame).block = frame.block
<1>1. frame.age + 1 \in 0 .. BlockModulus - 1
  BY ClientAssumption DEF Answer
<1> QED
  BY <1>1 DEF Aged, Answer

\* An admission makes every frame on the way one admission older, and nothing else but
\* a superseded registration changes.
LEMMA AgedFrames ==
  ASSUME LinkTypeOK, NEW op \in Operations, LinkStart(op)
  PROVE  /\ plc' \in Seq(Request) /\ line' \in Seq(Answer)
         /\ DOMAIN plc' = DOMAIN plc /\ DOMAIN line' = DOMAIN line
         /\ \A i \in DOMAIN plc :
              /\ plc[i] \in Request /\ plc'[i] \in Request
              /\ plc'[i].age = plc[i].age + 1 /\ plc'[i].op = plc[i].op
              /\ plc'[i].block = plc[i].block
         /\ \A i \in DOMAIN line :
              /\ line[i] \in Answer /\ line'[i] \in Answer
              /\ line'[i].age = line[i].age + 1 /\ line'[i].kind = line[i].kind
              /\ line'[i].block = line[i].block
<1>1. /\ \A i \in DOMAIN plc : plc[i] \in Request /\ plc[i].age < BlockModulus - 1
      /\ \A i \in DOMAIN line : line[i] \in Answer /\ line[i].age < BlockModulus - 1
  <2>1. /\ \A i \in DOMAIN plc : plc[i] \in Request
        /\ \A i \in DOMAIN line : line[i] \in Answer
    BY ElementOfSeq, LenProperties DEF LinkTypeOK
  <2>2. BlocksDistinguish
    BY DEF LinkStart
  <2> QED
    BY <2>1, <2>2 DEF BlocksDistinguish, ToSet
<1>2. /\ \A i \in DOMAIN plc : \A aged \in {Aged(plc[i]), Superseded(plc[i])} :
           /\ aged \in Request /\ aged.age = plc[i].age + 1
           /\ aged.op = plc[i].op /\ aged.block = plc[i].block
      /\ \A i \in DOMAIN line :
           /\ Aged(line[i]) \in Answer /\ Aged(line[i]).age = line[i].age + 1
           /\ Aged(line[i]).kind = line[i].kind /\ Aged(line[i]).block = line[i].block
  BY <1>1, AgedRequest, AgedAnswer
<1>3. /\ DOMAIN plc' = DOMAIN plc /\ plc' = [i \in DOMAIN plc' |-> plc'[i]]
      /\ \A i \in DOMAIN plc : plc'[i] = Aged(plc[i]) \/ plc'[i] = Superseded(plc[i])
      /\ DOMAIN line' = DOMAIN line /\ line' = [i \in DOMAIN line' |-> line'[i]]
      /\ \A i \in DOMAIN line : line'[i] = Aged(line[i])
  BY DEF LinkStart
<1>4. plc' \in Seq(Request)
  <2>1. \A i \in DOMAIN plc : plc'[i] \in Request
    BY <1>2, <1>3
  <2> QED
    BY <1>3, <2>1, MappedEntries DEF LinkTypeOK
<1>5. line' \in Seq(Answer)
  <2>1. \A i \in DOMAIN line : line'[i] \in Answer
    BY <1>2, <1>3
  <2> QED
    BY <1>3, <2>1, MappedEntries DEF LinkTypeOK
<1> QED
  BY <1>1, <1>2, <1>3, <1>4, <1>5

\* The PLC takes its oldest request; what it sends has the number and age of that.
LEMMA ServedFrame ==
  ASSUME LinkTypeOK, NEW accepted \in BOOLEAN, Serve(accepted)
  PROVE  /\ Head(plc) = plc[1] /\ 1 \in DOMAIN plc /\ plc[1] \in Request
         /\ plc' \in Seq(Request) /\ line' \in Seq(Answer)
         /\ \A i \in DOMAIN plc' : i \in Nat /\ i + 1 > 1 /\ i + 1 \in DOMAIN plc
                                   /\ plc'[i] = plc[i + 1] /\ plc'[i] \in Request
         /\ \A i \in DOMAIN line' :
              /\ line'[i] \in Answer
              /\ \/ i \in DOMAIN line /\ line'[i] = line[i]
                 \/ /\ i = Len(line) + 1
                    /\ line'[i].age = plc[1].age /\ line'[i].block = plc[1].block
                    /\ plc[1].op \notin SendOnly
                    /\ line'[i].kind \in {IF accepted THEN "result" ELSE "nak", "garbled"}
         /\ DOMAIN line = 1 .. Len(line) /\ Len(line) \in Nat
<1>1. /\ plc \in Seq(Request) /\ line \in Seq(Answer) /\ plc # <<>>
      /\ plc' = Tail(plc)
  BY DEF Serve, LinkTypeOK
<1>2. /\ Head(plc) = plc[1] /\ 1 \in DOMAIN plc /\ plc[1] \in Request
      /\ plc' \in Seq(Request)
      /\ \A i \in DOMAIN plc' : i \in Nat /\ i + 1 > 1 /\ i + 1 \in DOMAIN plc
                                /\ plc'[i] = plc[i + 1]
  BY <1>1, TailEntries
<1>3. /\ \A i \in DOMAIN plc' : plc'[i] \in Request
      /\ \A i \in DOMAIN line : line[i] \in Answer
      /\ DOMAIN line = 1 .. Len(line) /\ Len(line) \in Nat
  BY <1>1, <1>2, ElementOfSeq, LenProperties
<1>4. CASE line' = line
  BY <1>1, <1>2, <1>3, <1>4
<1>5. CASE line' # line
  <2>1. PICK kind \in {IF accepted THEN "result" ELSE "nak", "garbled"} :
          line' = Append(line, [block |-> plc[1].block, age |-> plc[1].age,
                                kind |-> kind])
    BY <1>2, <1>5 DEF Serve
  <2>2. [block |-> plc[1].block, age |-> plc[1].age, kind |-> kind] \in Answer
    BY <1>2 DEF Request, Answer
  <2>3. plc[1].op \notin SendOnly
    BY <1>2, <1>5 DEF Serve
  <2>4. /\ line' \in Seq(Answer)
        /\ \A i \in DOMAIN line' :
             \/ i \in DOMAIN line /\ line'[i] = line[i]
             \/ /\ i = Len(line) + 1
                /\ line'[i] = [block |-> plc[1].block, age |-> plc[1].age, kind |-> kind]
    BY <1>1, <2>1, <2>2, AppendEntries
  <2> QED
    BY <1>2, <1>3, <2>2, <2>3, <2>4
<1> QED
  BY <1>4, <1>5

-----------------------------------------------------------------------------
(* The client's part of a step.                                            *)

\* The client goes on with its request, if it has one: it is neither configured nor
\* given a new one.
ClientWorks ==
  \/ NotifyTxStarted
  \/ \E code \in TransportFailures \cup {"Ok"} : NotifyTxComplete(code)
  \/ OnRxBytes(1)
  \/ \E code \in TransportFailures : NotifyRxFailure(code)
  \/ Poll \/ Cancel \/ Tick \/ Rejected

LEMMA ClientWorksIsStep == ClientWorks => Next
  BY ClientAssumption DEF ClientWorks, Next

\* The session outlives the request, and the request its every step but the last.
LEMMA WorkOnRequest ==
  ASSUME InductiveInvariant, ClientWorks
  PROVE  /\ UNCHANGED <<configured, format2, next_format2_block_number,
                        active_format2_block_number, active_format2_block_number_valid>>
         /\ busy' => busy /\ operation' = operation /\ (tx_started => tx_started')
         /\ ~busy => UNCHANGED transport_reset_required
         /\ callback' # NoCallback => busy /\ ~busy'
         /\ callback' = NoCallback => (busy' <=> busy)
         /\ UNCHANGED registered \/ RxSuccess(1)
<1>1. UNCHANGED configVars /\ UNCHANGED sessionVars
  BY DEF ClientWorks, NotifyTxStarted, TxStarts, TxNeverStarts, NotifyTxComplete,
     OnRxBytes, RxExpired, RxOverflow, RxRetain, RxDecodeError, RxPlcError, RxSuccess,
     RxParseFailure, NotifyRxFailure, Poll, PollLatch, PollExpire, Cancel, Tick,
     Rejected, stateVars, RequestFrame, RxFrame
<1>2. UNCHANGED registered \/ RxSuccess(1)
  BY DEF ClientWorks, NotifyTxStarted, TxStarts, TxNeverStarts, NotifyTxComplete,
     OnRxBytes, RxExpired, RxOverflow, RxRetain, RxDecodeError, RxPlcError,
     RxParseFailure, NotifyRxFailure, Poll, PollLatch, PollExpire, Cancel, Tick,
     Rejected, stateVars
<1>3. ~busy => /\ UNCHANGED <<busy, transport_reset_required>>
               /\ callback' = NoCallback
  <2>1. ~busy => Tick \/ Rejected
    BY DEF ClientWorks, NotifyTxStarted, TxStarts, TxNeverStarts, NotifyTxComplete,
       OnRxBytes, RxExpired, RxOverflow, RxAccepted, RxRetain, RxDecodeError,
       RxPlcError, RxSuccess, RxParseFailure, AwaitingResponse, NotifyRxFailure, Poll,
       PollLatch, PollExpire, Cancel
  <2> QED
    BY <2>1 DEF Tick, Rejected, stateVars, txVars
<1>4. callback' # NoCallback => busy /\ ~busy'
  BY ClientWorksIsStep, CompletionCases
<1>5. callback' = NoCallback /\ busy
        => busy' /\ operation' = operation /\ (tx_started => tx_started')
  BY ClientWorksIsStep, RequestGoesOn
<1> QED
  BY <1>1, <1>2, <1>3, <1>4, <1>5 DEF configVars, sessionVars

\* A step of the client alone: neither the line nor the PLC moves.  It begins to await
\* an answer only when its frame has left.
LinkWorks ==
  /\ UNCHANGED linkVars
  /\ \/ NotifyTxStarted
     \/ \E code \in TransportFailures \cup {"Ok"} :
          (code = "Ok" => sent) /\ NotifyTxComplete(code)
     \/ RxRetain(1, 1)
     \/ \E code \in TransportFailures : NotifyRxFailure(code)
     \/ Poll \/ Cancel \/ Tick

LEMMA LinkCases ==
  ASSUME LinkNext
  PROVE  \/ LinkConfigure
         \/ \E op \in Operations : LinkStart(op)
         \/ FrameLeaves
         \/ \E accepted \in BOOLEAN : Serve(accepted)
         \/ AnswerArrives
         \/ LinkWorks
  BY DEF LinkNext, LinkTxComplete, AnswerBegins, LinkWorks

LEMMA LinkWorksIsWork ==
  ASSUME LinkWorks \/ FrameLeaves \/ AnswerArrives \/ \E accepted \in BOOLEAN : Serve(accepted)
  PROVE  ClientWorks
<1>1. CASE LinkWorks
  BY <1>1, ClientAssumption DEF LinkWorks, ClientWorks, OnRxBytes
<1>2. CASE FrameLeaves \/ \E accepted \in BOOLEAN : Serve(accepted)
  BY <1>2 DEF FrameLeaves, Serve, ClientWorks
<1>3. CASE AnswerArrives
  <2>1. RxRetain(1, 0) => OnRxBytes(1)
    BY ClientAssumption DEF OnRxBytes
  <2>2. AwaitingResponse /\ Decodes(Head(line)) => OnRxBytes(1)
    BY DEF Decodes, OnRxBytes
  <2> QED
    BY <1>3, <2>1, <2>2 DEF AnswerArrives, ClientWorks, OnRxBytes
<1> QED
  BY <1>1, <1>2, <1>3

\* When the PLC or the line moves, the client does not.
LEMMA ClientRests ==
  ASSUME FrameLeaves \/ \E accepted \in BOOLEAN : Serve(accepted)
  PROVE  /\ UNCHANGED stateVars
         /\ UNCHANGED <<configured, format2, next_format2_block_number,
                        active_format2_block_number, active_format2_block_number_valid,
                        busy, operation, tx_started, awaiting_write_complete,
                        transport_reset_required, registered>>
<1>1. UNCHANGED stateVars
  BY DEF FrameLeaves, Serve, Rejected
<1> QED
  BY <1>1 DEF stateVars, configVars, sessionVars, txVars

\* A request leaves the state of waiting for its transmission to end only after its
\* frame has left.
LEMMA AwaitedWasSent ==
  ASSUME InductiveInvariant, LinkWorks, busy', ~awaiting_write_complete'
  PROVE  ~awaiting_write_complete \/ sent
<1>1. ASSUME NEW code \in TransportFailures \cup {"Ok"}, code = "Ok" => sent,
             NotifyTxComplete(code)
      PROVE  sent
  <2>1. TxVerdict(code) = "awaited"
    BY <1>1 DEF NotifyTxComplete, Complete
  <2> QED
    BY <1>1, <2>1 DEF TxVerdict
<1>2. CASE \/ NotifyTxStarted \/ RxRetain(1, 1) \/ Poll \/ Cancel \/ Tick
           \/ \E code \in TransportFailures : NotifyRxFailure(code)
  BY <1>2 DEF NotifyTxStarted, TxStarts, TxNeverStarts, RxRetain, RxAccepted,
     AwaitingResponse, Poll, PollLatch, PollExpire, Cancel, Tick, NotifyRxFailure,
     Complete
<1> QED
  BY <1>1, <1>2 DEF LinkWorks

-----------------------------------------------------------------------------
(* What reaches the client.                                                *)

\* The types of the frames on the way.
LEMMA FrameTypes ==
  ASSUME LinkTypeOK
  PROVE  /\ \A i \in DOMAIN plc : i \in Nat /\ plc[i] \in Request /\ plc[i].age \in Nat
         /\ \A i \in DOMAIN line : /\ i \in Nat /\ line[i] \in Answer
                                   /\ line[i].age \in Nat
<1>1. /\ DOMAIN plc = 1 .. Len(plc) /\ Len(plc) \in Nat
      /\ DOMAIN line = 1 .. Len(line) /\ Len(line) \in Nat
  BY LenProperties DEF LinkTypeOK
<1>2. /\ \A i \in DOMAIN plc : plc[i] \in Request
      /\ \A i \in DOMAIN line : line[i] \in Answer
  BY <1>1, ElementOfSeq DEF LinkTypeOK
<1>3. \A n \in 0 .. BlockModulus - 1 : n \in Nat
  BY ClientAssumption
<1> QED
  BY <1>1, <1>2, <1>3 DEF Request, Answer

\* A sequence without entries is empty.
LEMMA NoEntries ==
  ASSUME NEW S, NEW s \in Seq(S), DOMAIN s = {}
  PROVE  s = <<>>
  BY EmptySeq, LenProperties

\* The successor on a counter that wraps around.
LEMMA Successor ==
  ASSUME NEW m \in Nat \ {0}, NEW x \in 0 .. m - 1
  PROVE  (x + 1) % m = IF x + 1 = m THEN 0 ELSE x + 1
  BY SMT

\* Where blocks tell ages, the block of the active request is that of no older frame.
LEMMA OwnBlock ==
  ASSUME NEW block \in 0 .. BlockModulus - 1, NEW age \in 0 .. BlockModulus - 1,
         CountsBack(block, age, (block + 1) % BlockModulus)
  PROVE  age = 0
<1>1. BlockModulus \in Nat \ {0} /\ block \in Nat /\ age \in Nat /\ age < BlockModulus
  BY ClientAssumption
<1>2. (block + 1) % BlockModulus = IF block + 1 = BlockModulus THEN 0 ELSE block + 1
  BY <1>1, Successor
<1> DEFINE next == (block + 1) % BlockModulus
<1> HIDE DEF next
<1>3. next = IF block + 1 = BlockModulus THEN 0 ELSE block + 1
  BY <1>2 DEF next
<1>4. block + age + 1 - next \in {0, BlockModulus}
  BY DEF next, CountsBack
<1> QED
  BY ONLY <1>1, <1>3, <1>4

\* The answer that the decoder lets through to a waiting client is the answer to its own
\* request: by its block number in Format2, and otherwise because no other answer is on
\* the way.
LEMMA OwnAnswer ==
  ASSUME LinkInvariant, InductiveInvariant, busy, line # <<>>, Matches(line[1])
  PROVE  line[1].age = 0
<1>1. 1 \in DOMAIN line
  BY TailEntries DEF LinkInvariant, LinkTypeOK
<1>2. /\ line[1] \in Answer
      /\ active_format2_block_number \in 0 .. BlockModulus - 1
  BY <1>1, FrameTypes DEF LinkInvariant, InductiveInvariant, TypeOK
<1>3. CASE ~format2
  BY <1>1, <1>3 DEF LinkInvariant, NoLateAnswers
<1>4. CASE format2
  <2>1. active_format2_block_number_valid
    BY <1>4 DEF LinkInvariant, BlocksTellAges
  <2>2. line[1].block = active_format2_block_number
    BY <2>1 DEF Matches
  <2>3. /\ Numbered(line[1])
        /\ next_format2_block_number = (active_format2_block_number + 1) % BlockModulus
    BY <1>1, <1>4 DEF LinkInvariant, BlocksTellAges
  <2>4. /\ line[1].block \in 0 .. BlockModulus - 1
        /\ line[1].age \in 0 .. BlockModulus - 1
    BY <1>2 DEF Answer
  <2>5. CountsBack(line[1].block, line[1].age, (line[1].block + 1) % BlockModulus)
    BY <2>2, <2>3 DEF Numbered
  <2> QED
    BY <2>4, <2>5, OwnBlock
<1> QED
  BY <1>3, <1>4

\* Nothing is on the way behind the answer to the active request.
LEMMA NothingBehind ==
  ASSUME LinkInvariant, line # <<>>, line[1].age = 0
  PROVE  plc = <<>> /\ Tail(line) = <<>>
<1>1. /\ plc \in Seq(Request) /\ line \in Seq(Answer) /\ FramesInOrder
  BY DEF LinkInvariant, LinkTypeOK
<1>2. /\ Tail(line) \in Seq(Answer) /\ 1 \in DOMAIN line
      /\ \A i \in DOMAIN Tail(line) : i + 1 \in DOMAIN line /\ i + 1 > 1
  BY <1>1, TailEntries
<1>3. DOMAIN plc = {}
  BY <1>1, <1>2, FrameTypes DEF LinkInvariant, FramesInOrder
<1>4. DOMAIN Tail(line) = {}
  BY <1>1, <1>2, FrameTypes DEF LinkInvariant, FramesInOrder
<1> QED
  BY <1>1, <1>2, <1>3, <1>4, NoEntries

\* An answer that ends the request ends it late, or is its own and decides it as it says.
LEMMA AnswerDecides ==
  ASSUME LinkInvariant, InductiveInvariant, AnswerArrives, callback' # NoCallback
  PROVE  /\ AwaitingResponse
         /\ \/ RxExpired
            \/ /\ line[1].age = 0
               /\ \/ line[1].kind = "nak" /\ RxPlcError(1)
                  \/ line[1].kind = "result" /\ RxSuccess(1)
                  \/ \E error \in DecodeErrors : RxDecodeError(1, error)
<1>1. line # <<>> /\ Head(line) = line[1] /\ line[1] \in Answer
  BY TailEntries DEF AnswerArrives, LinkInvariant, LinkTypeOK
<1>2. CASE RxExpired
  BY <1>2 DEF RxExpired
<1>3. CASE AwaitingResponse /\ Matches(Head(line)) /\ Decodes(Head(line))
  <2>1. line[1].age = 0
    BY <1>1, <1>3, OwnAnswer DEF AwaitingResponse
  <2>2. line[1].kind \in {"result", "nak", "garbled"} /\ ~(line[1].age > 0)
    BY <1>1, <2>1 DEF Answer
  <2> QED
    BY <1>1, <1>3, <2>1, <2>2 DEF Decodes
<1> QED
  BY <1>1, <1>2, <1>3 DEF AnswerArrives, RxRetain, Rejected

\* An answer that does not end the request changes nothing but the line.
LEMMA AnswerPasses ==
  ASSUME AnswerArrives, callback' = NoCallback
  PROVE  UNCHANGED <<registered, client_list, busy, operation, tx_started,
                     awaiting_write_complete, transport_reset_required>>
<1>1. RxRetain(1, 0) \/ Rejected
  BY NoCallbackIsNoStatus
  DEF AnswerArrives, Decodes, RxExpired, RxPlcError, RxSuccess, RxParseFailure,
      RxDecodeError, Complete
<1>2. UNCHANGED client_list
  BY DEF AnswerArrives, NoCallback
<1> QED
  BY <1>1, <1>2 DEF RxRetain, Rejected, stateVars, txVars

-----------------------------------------------------------------------------
(* Each part of the invariant is kept by each step.                        *)

\* What the client's own steps, and the answers, leave of the line and the PLC.
LEMMA LinkWorksKeeps ==
  ASSUME LinkWorks
  PROVE  UNCHANGED <<plc, line, sent, done, plc_list, client_list, registered>>
<1>1. UNCHANGED registered
  BY DEF LinkWorks, NotifyTxStarted, TxStarts, TxNeverStarts, NotifyTxComplete, RxRetain,
     NotifyRxFailure, Poll, PollLatch, PollExpire, Cancel, Tick
<1> QED
  BY <1>1 DEF LinkWorks, linkVars

\* The frames on the way keep their types.
LEMMA LinkTypeStep ==
  ASSUME LinkTypeOK, InductiveInvariant, LinkNext
  PROVE  LinkTypeOK'
<1>1. CASE LinkConfigure
  BY <1>1, EmptySeq DEF LinkConfigure, LinkTypeOK
<1>2. ASSUME NEW op \in Operations, LinkStart(op)
      PROVE  LinkTypeOK'
  <2>1. plc' \in Seq(Request) /\ line' \in Seq(Answer)
    BY <1>2, AgedFrames
  <2>2. UNCHANGED plc_list \/ plc_list' = "old"
    BY <1>2 DEF LinkStart, Replaced
  <2>3. UNCHANGED client_list \/ client_list' = "old"
    BY <1>2 DEF LinkStart, Replaced
  <2>4. sent' = FALSE /\ done' = FALSE
    BY <1>2 DEF LinkStart
  <2> QED
    BY <2>1, <2>2, <2>3, <2>4 DEF LinkTypeOK
<1>3. CASE FrameLeaves
  <2> DEFINE frame == [op |-> operation, block |-> active_format2_block_number,
                       age |-> 0, latest |-> operation = "RegisterMonitor"]
  <2>1. frame \in Request
    <3>1. operation \in OperationKind
      BY <1>3 DEF FrameLeaves, InductiveInvariant, RequestShape
    <3>2. active_format2_block_number \in 0 .. BlockModulus - 1
      BY DEF InductiveInvariant, TypeOK
    <3> QED
      BY <3>1, <3>2, ZeroInRange DEF Request
  <2>2. plc' \in Seq(Request)
    <3>1. plc \in Seq(Request) /\ (plc' = Append(plc, frame) \/ plc' = plc)
      BY <1>3 DEF FrameLeaves, LinkTypeOK
    <3> QED
      BY <2>1, <3>1, AppendEntries
  <2> QED
    BY <1>3, <2>2 DEF FrameLeaves, LinkTypeOK
<1>4. ASSUME NEW accepted \in BOOLEAN, Serve(accepted)
      PROVE  LinkTypeOK'
  <2>1. plc' \in Seq(Request) /\ line' \in Seq(Answer)
    BY <1>4, ServedFrame
  <2>2. /\ done' \in BOOLEAN /\ UNCHANGED <<sent, client_list>>
        /\ UNCHANGED plc_list \/ plc_list' \in {"latest", "old"}
    BY <1>4 DEF Serve, LinkTypeOK
  <2> QED
    BY <2>1, <2>2 DEF LinkTypeOK
<1>5. CASE AnswerArrives
  <2>1. line' \in Seq(Answer)
    <3>1. line # <<>> /\ line' = Tail(line) /\ line \in Seq(Answer)
      BY <1>5 DEF AnswerArrives, LinkTypeOK
    <3> QED
      BY <3>1, TailEntries
  <2>2. UNCHANGED <<plc, sent, done, plc_list>> /\ client_list' \in {client_list, "latest"}
    BY <1>5 DEF AnswerArrives
  <2> QED
    BY <2>1, <2>2 DEF LinkTypeOK
<1>6. CASE LinkWorks
  BY <1>6, LinkWorksKeeps DEF LinkTypeOK
<1> QED
  BY <1>1, <1>2, <1>3, <1>4, <1>5, <1>6, LinkCases

\* No frame of the active request is on the way before it has left.
LEMMA NoOwnFrameYet ==
  ASSUME LinkInvariant, busy, ~sent
  PROVE  /\ ~done
         /\ \A i \in DOMAIN plc : plc[i].age > 0
         /\ \A i \in DOMAIN line : line[i].age > 0
<1>1. /\ \A i \in DOMAIN plc : plc[i].age # 0 /\ plc[i].age \in Nat
      /\ \A i \in DOMAIN line : line[i].age # 0 /\ line[i].age \in Nat
  BY FrameTypes DEF LinkInvariant, ActiveFramesAreTrue
<1> QED
  BY <1>1 DEF LinkInvariant, ActiveFramesAreTrue

\* The frame of a request arrives at the PLC behind every other.
LEMMA LeftFrame ==
  ASSUME LinkInvariant, InductiveInvariant, FrameLeaves
  PROVE  /\ busy /\ tx_started /\ ~sent /\ sent' = TRUE
         /\ UNCHANGED <<line, done, plc_list, client_list>>
         /\ DOMAIN plc = 1 .. Len(plc) /\ Len(plc) \in Nat
         /\ \A i \in DOMAIN plc' :
              \/ i \in DOMAIN plc /\ plc'[i] = plc[i]
              \/ /\ i = Len(plc) + 1
                 /\ plc'[i].age = 0 /\ plc'[i].op = operation
                 /\ plc'[i].block = active_format2_block_number
                 /\ plc'[i].latest = (operation = "RegisterMonitor")
<1> DEFINE frame == [op |-> operation, block |-> active_format2_block_number, age |-> 0,
                     latest |-> operation = "RegisterMonitor"]
<1>1. operation \in OperationKind /\ active_format2_block_number \in 0 .. BlockModulus - 1
  BY DEF FrameLeaves, InductiveInvariant, RequestShape, TypeOK
<1>2. frame \in Request
  BY <1>1, ZeroInRange DEF Request
<1>3. plc' = plc \/ plc' = Append(plc, frame)
  BY DEF FrameLeaves
<1>4. DOMAIN plc = 1 .. Len(plc) /\ Len(plc) \in Nat
  BY LenProperties DEF LinkInvariant, LinkTypeOK
<1>5. CASE plc' = plc
  BY <1>4, <1>5 DEF FrameLeaves
<1>6. CASE plc' = Append(plc, frame)
  <2>1. \A i \in DOMAIN plc' : \/ i \in DOMAIN plc /\ plc'[i] = plc[i]
                               \/ i = Len(plc) + 1 /\ plc'[i] = frame
    BY <1>2, <1>6, AppendEntries DEF LinkInvariant, LinkTypeOK
  <2> QED
    BY <1>4, <2>1 DEF FrameLeaves
<1> QED
  BY <1>3, <1>5, <1>6

\* An answer leaves the line from its front.
LEMMA ArrivedFrame ==
  ASSUME LinkTypeOK, AnswerArrives
  PROVE  /\ line # <<>> /\ Head(line) = line[1] /\ line' = Tail(line)
         /\ 1 \in DOMAIN line
         /\ UNCHANGED <<plc, sent, done, plc_list>>
         /\ \A i \in DOMAIN line' : /\ i \in Nat /\ i + 1 \in DOMAIN line /\ i + 1 > 1
                                    /\ line'[i] = line[i + 1]
  BY TailEntries DEF AnswerArrives, LinkTypeOK

\* Frames stay in the order of their requests.
LEMMA OrderStep ==
  ASSUME LinkInvariant, InductiveInvariant, LinkNext
  PROVE  FramesInOrder'
<1>0. LinkTypeOK /\ FramesInOrder
  BY DEF LinkInvariant
<1>1. CASE LinkConfigure
  BY <1>0, <1>1 DEF LinkConfigure, FramesInOrder
<1>2. ASSUME NEW op \in Operations, LinkStart(op)
      PROVE  FramesInOrder'
  <2>1. /\ DOMAIN plc' = DOMAIN plc /\ DOMAIN line' = DOMAIN line
        /\ \A i \in DOMAIN plc : plc'[i].age = plc[i].age + 1 /\ plc[i].age \in Nat
        /\ \A i \in DOMAIN line : line'[i].age = line[i].age + 1 /\ line[i].age \in Nat
    BY <1>0, <1>2, AgedFrames, FrameTypes
  <2> QED
    BY <1>0, <2>1 DEF FramesInOrder
<1>3. CASE FrameLeaves
  <2>1. /\ line' = line /\ DOMAIN plc = 1 .. Len(plc) /\ Len(plc) \in Nat
        /\ \A i \in DOMAIN plc' : \/ i \in DOMAIN plc /\ plc'[i] = plc[i]
                                  \/ i = Len(plc) + 1 /\ plc'[i].age = 0
    BY <1>3, LeftFrame
  <2>2. /\ \A i \in DOMAIN plc : plc[i].age > 0
        /\ \A i \in DOMAIN line : line[i].age > 0
    BY <1>3, LeftFrame, NoOwnFrameYet
  <2>3. \A i, j \in DOMAIN plc' : i < j => plc'[i].age > plc'[j].age
    BY <1>0, <2>1, <2>2 DEF FramesInOrder
  <2>4. \A i \in DOMAIN line', j \in DOMAIN plc' : line'[i].age > plc'[j].age
    BY <1>0, <2>1, <2>2 DEF FramesInOrder
  <2> QED
    BY <1>0, <2>1, <2>3, <2>4 DEF FramesInOrder
<1>4. ASSUME NEW accepted \in BOOLEAN, Serve(accepted)
      PROVE  FramesInOrder'
  <2>1. /\ 1 \in DOMAIN plc
        /\ \A i \in DOMAIN plc' : i \in Nat /\ i + 1 > 1 /\ i + 1 \in DOMAIN plc
                                  /\ plc'[i] = plc[i + 1]
        /\ \A i \in DOMAIN line' :
             \/ i \in DOMAIN line /\ line'[i] = line[i]
             \/ i = Len(line) + 1 /\ line'[i].age = plc[1].age
        /\ DOMAIN line = 1 .. Len(line) /\ Len(line) \in Nat
    BY <1>0, <1>4, ServedFrame
  <2>2. \A i, j \in DOMAIN line' : i < j => line'[i].age > line'[j].age
    BY <1>0, <2>1 DEF FramesInOrder
  <2>3. \A i, j \in DOMAIN plc' : i < j => plc'[i].age > plc'[j].age
    BY <1>0, <2>1 DEF FramesInOrder
  <2>4. \A i \in DOMAIN line', j \in DOMAIN plc' : line'[i].age > plc'[j].age
    BY <1>0, <2>1 DEF FramesInOrder
  <2> QED
    BY <2>2, <2>3, <2>4 DEF FramesInOrder
<1>5. CASE AnswerArrives
  <2>1. /\ plc' = plc
        /\ \A i \in DOMAIN line' : /\ i \in Nat /\ i + 1 \in DOMAIN line
                                   /\ line'[i] = line[i + 1]
    BY <1>0, <1>5, ArrivedFrame
  <2>2. \A i, j \in DOMAIN line' : i < j => line'[i].age > line'[j].age
    BY <1>0, <2>1 DEF FramesInOrder
  <2> QED
    BY <1>0, <2>1, <2>2 DEF FramesInOrder
<1>6. CASE LinkWorks
  BY <1>0, <1>6, LinkWorksKeeps DEF FramesInOrder
<1> QED
  BY <1>1, <1>2, <1>3, <1>4, <1>5, <1>6, LinkCases

\* What the frames of the active request say of it stays true.
LEMMA ActiveStep ==
  ASSUME LinkInvariant, InductiveInvariant, LinkNext
  PROVE  ActiveFramesAreTrue'
<1>0. LinkTypeOK /\ FramesInOrder /\ ActiveFramesAreTrue
  BY DEF LinkInvariant
<1>1. CASE LinkConfigure
  BY <1>1 DEF LinkConfigure, Configure, txVars, ActiveFramesAreTrue
<1>2. ASSUME NEW op \in Operations, LinkStart(op)
      PROVE  ActiveFramesAreTrue'
  <2>1. sent' = FALSE /\ done' = FALSE /\ awaiting_write_complete' = TRUE
    BY <1>2 DEF LinkStart, StartRequest
  <2>2. /\ DOMAIN plc' = DOMAIN plc /\ DOMAIN line' = DOMAIN line
        /\ \A i \in DOMAIN plc : plc'[i].age = plc[i].age + 1 /\ plc[i].age \in Nat
        /\ \A i \in DOMAIN line : line'[i].age = line[i].age + 1 /\ line[i].age \in Nat
    BY <1>0, <1>2, AgedFrames, FrameTypes
  <2>3. /\ \A i \in DOMAIN plc' : plc'[i].age # 0
        /\ \A i \in DOMAIN line' : line'[i].age # 0
    BY <2>2
  <2> QED
    BY <2>1, <2>3 DEF ActiveFramesAreTrue
<1>3. CASE FrameLeaves
  <2>1. UNCHANGED <<busy, operation, tx_started, awaiting_write_complete>>
    BY <1>3, ClientRests
  <2> QED
    BY <1>0, <1>3, <2>1, LeftFrame, NoOwnFrameYet DEF ActiveFramesAreTrue
<1>4. ASSUME NEW accepted \in BOOLEAN, Serve(accepted)
      PROVE  ActiveFramesAreTrue'
  <2> SUFFICES ASSUME busy
               PROVE  ActiveFramesAreTrue'
    BY <1>4, ClientRests DEF ActiveFramesAreTrue
  <2>1. UNCHANGED <<busy, operation, tx_started, awaiting_write_complete, sent>>
    BY <1>4, ClientRests DEF Serve
  <2>2. done' <=> done \/ (accepted /\ plc[1].age = 0)
    BY <1>0, <1>4, ServedFrame DEF Serve
  <2>3. /\ 1 \in DOMAIN plc /\ plc[1].age \in Nat
        /\ \A i \in DOMAIN plc' : /\ i \in Nat /\ i + 1 > 1 /\ i + 1 \in DOMAIN plc
                                  /\ plc'[i] = plc[i + 1]
    BY <1>0, <1>4, ServedFrame, FrameTypes
  <2>4. plc[1].age = 0 => sent /\ ~done /\ plc[1].op = operation
    BY <1>0, <2>3 DEF ActiveFramesAreTrue
  <2>5. \A i \in DOMAIN plc' : plc'[i].age < plc[1].age /\ plc'[i].age \in Nat
    BY <1>0, <2>3, FrameTypes DEF FramesInOrder
  <2>6. ASSUME NEW i \in DOMAIN plc', plc'[i].age = 0
        PROVE  /\ sent' /\ ~done'
               /\ plc'[i].op = operation'
               /\ plc'[i].latest = (operation' = "RegisterMonitor")
    <3>1. plc[1].age # 0
      BY <2>5, <2>6
    <3> QED
      BY <1>0, <2>1, <2>2, <2>3, <2>6, <3>1 DEF ActiveFramesAreTrue
  <2>7. ASSUME NEW i \in DOMAIN line', line'[i].age = 0
        PROVE  /\ sent' /\ operation' \notin SendOnly
               /\ line'[i].kind = "result" => done'
               /\ line'[i].kind = "nak" => ~done'
    <3>1. CASE i \in DOMAIN line /\ line'[i] = line[i]
      <4>1. plc[1].age # 0
        BY <1>0, <2>3, <2>7, <3>1 DEF FramesInOrder
      <4> QED
        BY <1>0, <2>1, <2>2, <2>7, <3>1, <4>1 DEF ActiveFramesAreTrue
    <3>2. CASE /\ line'[i].age = plc[1].age /\ plc[1].op \notin SendOnly
               /\ line'[i].kind \in {IF accepted THEN "result" ELSE "nak", "garbled"}
      BY <2>1, <2>2, <2>4, <2>7, <3>2
    <3> QED
      BY <1>0, <1>4, <3>1, <3>2, ServedFrame
  <2>8. ~sent' => ~done'
    BY <1>0, <2>1, <2>2, <2>4 DEF ActiveFramesAreTrue
  <2> QED
    BY <1>0, <2>1, <2>6, <2>7, <2>8 DEF ActiveFramesAreTrue
<1>5. CASE AnswerArrives
  <2> SUFFICES ASSUME busy'
               PROVE  ActiveFramesAreTrue'
    BY DEF ActiveFramesAreTrue
  <2>1. callback' = NoCallback
    BY <1>5, LinkWorksIsWork, WorkOnRequest
  <2>2. UNCHANGED <<busy, operation, tx_started, awaiting_write_complete>>
    BY <1>5, <2>1, AnswerPasses
  <2> QED
    BY <1>0, <1>5, <2>2, ArrivedFrame DEF ActiveFramesAreTrue
<1>6. CASE LinkWorks
  <2>1. busy' => busy /\ operation' = operation /\ (tx_started => tx_started')
    BY <1>6, LinkWorksIsWork, WorkOnRequest
  <2>2. busy' /\ ~awaiting_write_complete' => sent
    BY <1>0, <1>6, <2>1, AwaitedWasSent DEF ActiveFramesAreTrue
  <2> QED
    BY <1>0, <1>6, <2>1, <2>2, LinkWorksKeeps DEF ActiveFramesAreTrue
<1> QED
  BY <1>1, <1>2, <1>3, <1>4, <1>5, <1>6, LinkCases

\* The next block number and the age of a frame go up together.
LEMMA CountsBackOneMore ==
  ASSUME NEW next \in 0 .. BlockModulus - 1, NEW next1, next1 = (next + 1) % BlockModulus,
         NEW block \in 0 .. BlockModulus - 1,
         NEW age \in Nat, NEW age1, age1 = age + 1, age1 < BlockModulus,
         CountsBack(block, age, next)
  PROVE  CountsBack(block, age1, next1)
<1>1. BlockModulus \in Nat \ {0} /\ next \in Nat /\ block \in Nat /\ block < BlockModulus
  BY ClientAssumption
<1>2. next1 = IF next + 1 = BlockModulus THEN 0 ELSE next + 1
  BY <1>1, Successor
<1> QED
  BY <1>1, <1>2 DEF CountsBack

\* Block numbers go on telling ages.
LEMMA BlockStep ==
  ASSUME LinkInvariant, InductiveInvariant, LinkNext
  PROVE  BlocksTellAges'
<1>0. LinkTypeOK /\ BlocksTellAges
  BY DEF LinkInvariant
<1>a. /\ next_format2_block_number \in 0 .. BlockModulus - 1
      /\ active_format2_block_number \in 0 .. BlockModulus - 1
  BY DEF InductiveInvariant, TypeOK
<1>1. CASE LinkConfigure
  <2>1. /\ configured' /\ ~busy' /\ UNCHANGED next_format2_block_number
    BY <1>1 DEF LinkConfigure, Configure, txVars
  <2>2. \/ plc' = <<>> /\ line' = <<>>
        \/ format2' = format2 /\ UNCHANGED <<plc, line>>
    BY <1>0, <1>1 DEF LinkConfigure, Configure, BlocksTellAges
  <2> QED
    BY <1>0, <2>1, <2>2 DEF BlocksTellAges, Numbered
<1>2. ASSUME NEW op \in Operations, LinkStart(op)
      PROVE  BlocksTellAges'
  <2>1. /\ configured' /\ UNCHANGED format2 /\ active_format2_block_number_valid' = format2
        /\ format2 => /\ active_format2_block_number' = next_format2_block_number
                      /\ next_format2_block_number'
                           = (next_format2_block_number + 1) % BlockModulus
    BY <1>2 DEF LinkStart, StartRequest, Admissible, configVars, NextBlock
  <2>2. ASSUME NEW i \in DOMAIN plc', format2
        PROVE  Numbered(plc[i])'
    <3>1. /\ i \in DOMAIN plc /\ plc[i] \in Request /\ plc'[i] \in Request
          /\ plc'[i].age = plc[i].age + 1 /\ plc'[i].block = plc[i].block
      BY <1>0, <1>2, AgedFrames
    <3>2. /\ plc[i].block \in 0 .. BlockModulus - 1 /\ plc[i].age \in Nat
          /\ plc'[i].age < BlockModulus
      BY <3>1, ClientAssumption DEF Request
    <3>3. CountsBack(plc[i].block, plc[i].age, next_format2_block_number)
      BY <1>0, <2>2, <3>1 DEF BlocksTellAges, Numbered
    <3>4. CountsBack(plc[i].block, plc'[i].age, next_format2_block_number')
      BY <1>a, <2>1, <2>2, <3>1, <3>2, <3>3, CountsBackOneMore
    <3> QED
      BY <3>1, <3>4 DEF Numbered
  <2>3. ASSUME NEW i \in DOMAIN line', format2
        PROVE  Numbered(line[i])'
    <3>1. /\ i \in DOMAIN line /\ line[i] \in Answer /\ line'[i] \in Answer
          /\ line'[i].age = line[i].age + 1 /\ line'[i].block = line[i].block
      BY <1>0, <1>2, AgedFrames
    <3>2. /\ line[i].block \in 0 .. BlockModulus - 1 /\ line[i].age \in Nat
          /\ line'[i].age < BlockModulus
      BY <3>1, ClientAssumption DEF Answer
    <3>3. CountsBack(line[i].block, line[i].age, next_format2_block_number)
      BY <1>0, <2>3, <3>1 DEF BlocksTellAges, Numbered
    <3>4. CountsBack(line[i].block, line'[i].age, next_format2_block_number')
      BY <1>a, <2>1, <2>3, <3>1, <3>2, <3>3, CountsBackOneMore
    <3> QED
      BY <3>1, <3>4 DEF Numbered
  <2> QED
    BY <2>1, <2>2, <2>3 DEF BlocksTellAges
<1>3. CASE FrameLeaves
  <2>1. UNCHANGED <<configured, format2, next_format2_block_number,
                    active_format2_block_number, active_format2_block_number_valid, busy>>
    BY <1>3, ClientRests
  <2>2. busy /\ configured
    BY <1>0, <1>3 DEF FrameLeaves, BlocksTellAges
  <2>3. format2 => CountsBack(active_format2_block_number, 0, next_format2_block_number)
    <3> DEFINE block == active_format2_block_number
    <3>1. format2 => next_format2_block_number
                       = IF block + 1 = BlockModulus THEN 0 ELSE block + 1
      BY <1>0, <1>a, <2>2, ClientAssumption, Successor DEF BlocksTellAges
    <3> QED
      BY <1>a, <3>1, ClientAssumption DEF CountsBack
  <2>4. ASSUME NEW i \in DOMAIN plc', format2
        PROVE  Numbered(plc[i])'
    BY <1>0, <1>3, <2>1, <2>3, <2>4, LeftFrame DEF BlocksTellAges, Numbered
  <2> QED
    BY <1>0, <1>3, <2>1, <2>2, <2>4, LeftFrame DEF BlocksTellAges, Numbered
<1>4. ASSUME NEW accepted \in BOOLEAN, Serve(accepted)
      PROVE  BlocksTellAges'
  <2>1. UNCHANGED <<configured, format2, next_format2_block_number,
                    active_format2_block_number, active_format2_block_number_valid, busy>>
    BY <1>4, ClientRests
  <2>2. configured
    BY <1>0, <1>4 DEF Serve, BlocksTellAges
  <2> QED
    BY <1>0, <1>4, <2>1, <2>2, ServedFrame DEF BlocksTellAges, Numbered
<1>5. CASE AnswerArrives
  <2>1. /\ UNCHANGED <<configured, format2, next_format2_block_number,
                       active_format2_block_number, active_format2_block_number_valid>>
        /\ busy' => busy
    BY <1>5, LinkWorksIsWork, WorkOnRequest
  <2>2. configured
    BY <1>0, <1>5 DEF AnswerArrives, BlocksTellAges
  <2> QED
    BY <1>0, <1>5, <2>1, <2>2, ArrivedFrame DEF BlocksTellAges, Numbered
<1>6. CASE LinkWorks
  <2>1. /\ UNCHANGED <<configured, format2, next_format2_block_number,
                       active_format2_block_number, active_format2_block_number_valid>>
        /\ busy' => busy
    BY <1>6, LinkWorksIsWork, WorkOnRequest
  <2> QED
    BY <1>0, <1>6, <2>1, LinkWorksKeeps DEF BlocksTellAges, Numbered
<1> QED
  BY <1>1, <1>2, <1>3, <1>4, <1>5, <1>6, LinkCases

\* A request that ends without its answer retires the transport, or has block numbers;
\* or no answer to it can come.
LEMMA EndedUnanswered ==
  ASSUME InductiveInvariant, LinkWorks, callback' # NoCallback
  PROVE  \/ transport_reset_required' \/ active_format2_block_number_valid
         \/ ~tx_started \/ operation \in SendOnly
<1>1. ASSUME NEW code \in TransportFailures \cup {"Ok"}, NotifyTxComplete(code)
      PROVE  \/ transport_reset_required' \/ active_format2_block_number_valid
             \/ operation \in SendOnly
  <2>1. TxVerdict(code) = "sent" => operation \in SendOnly
    BY DEF TxVerdict
  <2> QED
    BY <1>1, <2>1 DEF NotifyTxComplete, LateAnswerIsAmbiguous, InductiveInvariant, TypeOK
<1>2. CASE NotifyTxStarted
  BY <1>2 DEF NotifyTxStarted, TxStarts, TxNeverStarts
<1>3. CASE Cancel
  BY <1>3 DEF Cancel, LateAnswerIsAmbiguous, InductiveInvariant, TypeOK
<1>4. CASE RxRetain(1, 1) \/ Poll \/ Tick
           \/ \E code \in TransportFailures : NotifyRxFailure(code)
  BY <1>4 DEF RxRetain, Poll, PollLatch, PollExpire, Tick, NotifyRxFailure
<1> QED
  BY <1>1, <1>2, <1>3, <1>4 DEF LinkWorks

\* When a request ends without block numbers and without a reset, no answer to it is left.
LEMMA NothingLeft ==
  ASSUME LinkInvariant, busy, ~format2, ~tx_started \/ operation \in SendOnly
  PROVE  line = <<>> /\ \A i \in DOMAIN plc : plc[i].op \in SendOnly
<1>1. ~tx_started => ~sent
  BY DEF LinkInvariant, ActiveFramesAreTrue
<1>2. \A i \in DOMAIN line : line[i].age = 0 /\ line[i].age # 0
  BY <1>1, FrameTypes DEF LinkInvariant, ActiveFramesAreTrue, NoLateAnswers
<1>3. \A i \in DOMAIN plc : plc[i].op \in SendOnly
  BY <1>1, FrameTypes DEF LinkInvariant, ActiveFramesAreTrue, NoLateAnswers
<1> QED
  BY <1>2, <1>3, NoEntries DEF LinkInvariant, LinkTypeOK

\* Without block numbers no late answer gets on the way of another request.
LEMMA LateStep ==
  ASSUME LinkInvariant, InductiveInvariant, LinkNext
  PROVE  NoLateAnswers'
<1>0. LinkTypeOK /\ NoLateAnswers
  BY DEF LinkInvariant
<1>1. CASE LinkConfigure
  <2>1. ~busy /\ ~busy'
    BY <1>1 DEF LinkConfigure, Configure, txVars
  <2>2. \/ plc' = <<>> /\ line' = <<>>
        \/ /\ ~transport_reset_required /\ format2' = format2
           /\ UNCHANGED <<plc, line>>
    BY <1>1 DEF LinkConfigure, Configure, LinkInvariant, BlocksTellAges
  <2>3. DOMAIN <<>> = {}
    OBVIOUS
  <2> QED
    BY <1>0, <2>1, <2>2, <2>3 DEF NoLateAnswers
<1>2. ASSUME NEW op \in Operations, LinkStart(op)
      PROVE  NoLateAnswers'
  <2> SUFFICES ASSUME ~format2'
               PROVE  NoLateAnswers'
    BY DEF NoLateAnswers
  <2>1. ~format2 /\ ~busy /\ ~transport_reset_required /\ busy'
    BY <1>2 DEF LinkStart, StartRequest, Admissible, configVars
  <2>2. line = <<>> /\ \A i \in DOMAIN plc : plc[i].op \in SendOnly
    BY <1>0, <2>1 DEF NoLateAnswers
  <2>3. /\ DOMAIN line' = {} /\ DOMAIN plc' = DOMAIN plc
        /\ \A i \in DOMAIN plc : plc'[i].op = plc[i].op
    BY <1>0, <1>2, <2>2, AgedFrames
  <2> QED
    BY <2>1, <2>2, <2>3 DEF NoLateAnswers
<1>3. CASE FrameLeaves
  <2>1. UNCHANGED <<format2, busy, transport_reset_required>>
    BY <1>3, ClientRests
  <2> QED
    BY <1>0, <1>3, <2>1, LeftFrame DEF NoLateAnswers
<1>4. ASSUME NEW accepted \in BOOLEAN, Serve(accepted)
      PROVE  NoLateAnswers'
  <2>1. UNCHANGED <<format2, busy, transport_reset_required>>
    BY <1>4, ClientRests
  <2>2. CASE busy
    BY <1>0, <1>4, <2>1, <2>2, ServedFrame DEF NoLateAnswers
  <2>3. CASE ~busy /\ ~transport_reset_required /\ ~format2
    <3>1. line = <<>> /\ \A i \in DOMAIN plc : plc[i].op \in SendOnly
      BY <1>0, <2>3 DEF NoLateAnswers
    <3>2. DOMAIN line' = {} /\ line' \in Seq(Answer)
      BY <1>0, <1>4, <3>1, ServedFrame
    <3>3. line' = <<>>
      BY <3>2, NoEntries
    <3>4. \A i \in DOMAIN plc' : plc'[i].op \in SendOnly
      BY <1>0, <1>4, <3>1, ServedFrame
    <3> QED
      BY <2>1, <2>3, <3>3, <3>4 DEF NoLateAnswers
  <2> QED
    BY <2>1, <2>2, <2>3 DEF NoLateAnswers
<1>5. CASE AnswerArrives
  <2>1. UNCHANGED format2 /\ (callback' # NoCallback => ~busy')
    BY <1>5, LinkWorksIsWork, WorkOnRequest
  <2>2. CASE callback' = NoCallback
    <3>1. UNCHANGED <<busy, transport_reset_required>>
      BY <1>5, <2>2, AnswerPasses
    <3> QED
      BY <1>0, <1>5, <2>1, <3>1, ArrivedFrame DEF NoLateAnswers
  <2>3. CASE callback' # NoCallback
    <3>1. transport_reset_required' \/ line[1].age = 0
      BY <1>5, <2>3, AnswerDecides DEF RxExpired
    <3>2. line[1].age = 0 => plc' = <<>> /\ line' = <<>>
      BY <1>0, <1>5, ArrivedFrame, NothingBehind
    <3>3. DOMAIN <<>> = {}
      OBVIOUS
    <3> QED
      BY <2>1, <2>3, <3>1, <3>2, <3>3 DEF NoLateAnswers
  <2> QED
    BY <2>2, <2>3
<1>6. CASE LinkWorks
  <2>1. /\ UNCHANGED format2
        /\ ~busy => UNCHANGED transport_reset_required
        /\ callback' # NoCallback => busy /\ ~busy'
        /\ callback' = NoCallback => (busy' <=> busy)
    BY <1>6, LinkWorksIsWork, WorkOnRequest
  <2>2. CASE callback' = NoCallback
    BY <1>0, <1>6, <2>1, <2>2, LinkWorksKeeps DEF NoLateAnswers
  <2>3. CASE callback' # NoCallback /\ ~format2 /\ ~transport_reset_required'
    <3>1. ~active_format2_block_number_valid
      BY <2>1, <2>3 DEF LinkInvariant, BlocksTellAges
    <3>2. line = <<>> /\ \A i \in DOMAIN plc : plc[i].op \in SendOnly
      BY <1>6, <2>1, <2>3, <3>1, EndedUnanswered, NothingLeft
    <3> QED
      BY <1>6, <2>1, <2>3, <3>2, LinkWorksKeeps DEF NoLateAnswers
  <2> QED
    BY <2>1, <2>2, <2>3 DEF NoLateAnswers
<1> QED
  BY <1>1, <1>2, <1>3, <1>4, <1>5, <1>6, LinkCases

\* A completion by anything but an accepted answer is no success.
LEMMA OtherVerdicts ==
  /\ Unconfirmed("Timeout").code # "Ok" /\ Definite("PlcError").code # "Ok"
  /\ \A error \in DecodeErrors : Unconfirmed(error).code # "Ok"
  /\ Definite("Ok").code = "Ok" /\ NoCallback.code # "Ok"
  BY DEF Unconfirmed, Definite, OutcomeUnknown, NoCallback, DecodeErrors

\* The registration that the client holds stays the one that the PLC has.
LEMMA RegistrationStep ==
  ASSUME LinkInvariant, InductiveInvariant, LinkNext
  PROVE  RegistrationIsSettled'
<1> DEFINE R == "RegisterMonitor"
<1>0. LinkTypeOK /\ RegistrationIsSettled
  BY DEF LinkInvariant
<1>a. R \in Registrations
  BY DEF Registrations
<1>1. CASE LinkConfigure
  BY <1>1, <1>a DEF LinkConfigure, Configure, txVars, RegistrationIsSettled
<1>2. ASSUME NEW op \in Operations, LinkStart(op)
      PROVE  RegistrationIsSettled'
  <2>1. /\ registered'[R] <=> registered[R] /\ op # R
        /\ operation' = op /\ done' = FALSE
    BY <1>2, <1>a DEF LinkStart, StartRequest, StillRegistered
  <2>2. op # R => UNCHANGED <<plc_list, client_list>>
    BY <1>2 DEF LinkStart, Replaced
  <2>3. DOMAIN plc' = DOMAIN plc /\ \A i \in DOMAIN plc : plc'[i].op = plc[i].op
    BY <1>0, <1>2, AgedFrames
  <2> QED
    BY <1>0, <2>1, <2>2, <2>3 DEF RegistrationIsSettled
<1>3. CASE FrameLeaves
  <2>1. UNCHANGED <<registered, busy, operation>>
    BY <1>3, ClientRests
  <2>2. busy /\ ~done
    BY <1>3, LeftFrame, NoOwnFrameYet
  <2> QED
    BY <1>0, <1>3, <2>1, <2>2, LeftFrame DEF RegistrationIsSettled
<1>4. ASSUME NEW accepted \in BOOLEAN, Serve(accepted)
      PROVE  RegistrationIsSettled'
  <2>1. UNCHANGED <<registered, busy, operation, client_list>>
    BY <1>4, ClientRests DEF Serve
  <2>2. /\ plc # <<>> /\ plc' = Tail(plc) /\ Head(plc) = plc[1] /\ 1 \in DOMAIN plc
        /\ plc' \in Seq(Request)
        /\ \A i \in DOMAIN plc' : /\ i \in Nat /\ i + 1 > 1 /\ i + 1 \in DOMAIN plc
                                  /\ plc'[i] = plc[i + 1]
    BY <1>0, <1>4, ServedFrame DEF Serve
  <2>3. CASE registered[R]
    <3>1. plc[1].op # R
      BY <1>0, <2>2, <2>3 DEF RegistrationIsSettled
    <3>2. UNCHANGED plc_list
      BY <1>4, <2>2, <3>1 DEF Serve
    <3> QED
      BY <1>0, <2>1, <2>2, <2>3, <3>2 DEF RegistrationIsSettled
  <2>4. CASE ~registered[R] /\ busy /\ operation = R /\ done'
    <3>1. accepted /\ plc[1].age = 0
      BY <1>0, <1>4, <2>2, <2>4 DEF Serve, RegistrationIsSettled
    <3>2. plc[1].op = R /\ plc[1].latest
      BY <2>2, <2>4, <3>1 DEF LinkInvariant, ActiveFramesAreTrue
    <3>3. plc_list' = "latest"
      BY <1>4, <2>2, <3>1, <3>2 DEF Serve
    <3>4. DOMAIN plc' = {}
      BY <1>0, <2>2, <3>1, FrameTypes DEF LinkInvariant, FramesInOrder
    <3>5. plc' = <<>>
      BY <2>2, <3>4, NoEntries
    <3> QED
      BY <2>1, <2>4, <3>3, <3>5 DEF RegistrationIsSettled
  <2> QED
    BY <2>1, <2>3, <2>4 DEF RegistrationIsSettled
<1>5. CASE AnswerArrives
  <2>1. UNCHANGED <<plc, done, plc_list>>
    BY <1>0, <1>5, ArrivedFrame
  <2>2. CASE callback' = NoCallback
    BY <1>0, <1>5, <2>1, <2>2, AnswerPasses DEF RegistrationIsSettled
  <2>3. CASE callback' # NoCallback
    <3>1. ~busy'
      BY <1>5, <2>3, LinkWorksIsWork, WorkOnRequest
    <3>2. CASE \/ RxExpired \/ RxPlcError(1)
               \/ \E error \in DecodeErrors : RxDecodeError(1, error)
      <4>1. UNCHANGED registered /\ callback'.code # "Ok"
        BY <3>2, OtherVerdicts DEF RxExpired, RxPlcError, RxDecodeError, Complete
      <4>2. UNCHANGED client_list
        BY <1>5, <4>1 DEF AnswerArrives
      <4> QED
        BY <1>0, <2>1, <3>1, <4>1, <4>2 DEF RegistrationIsSettled
    <3>3. CASE line[1].age = 0 /\ line[1].kind = "result" /\ RxSuccess(1)
      <4>1. /\ registered'[R] <=> registered[R] \/ operation = R
            /\ callback'.code = "Ok"
        BY <1>a, <3>3, OtherVerdicts DEF RxSuccess, Complete
      <4>2. client_list' = IF operation = R THEN "latest" ELSE client_list
        BY <1>5, <4>1 DEF AnswerArrives
      <4>3. busy /\ done
        BY <1>0, <1>5, <3>3, ArrivedFrame
        DEF RxSuccess, RxAccepted, AwaitingResponse, LinkInvariant, ActiveFramesAreTrue
      <4> QED
        BY <1>0, <2>1, <3>1, <4>1, <4>2, <4>3 DEF RegistrationIsSettled
    <3> QED
      BY <1>5, <2>3, <3>2, <3>3, AnswerDecides
  <2> QED
    BY <2>2, <2>3
<1>6. CASE LinkWorks
  <2>1. busy' => busy /\ operation' = operation
    BY <1>6, LinkWorksIsWork, WorkOnRequest
  <2> QED
    BY <1>0, <1>6, <2>1, LinkWorksKeeps DEF RegistrationIsSettled
<1> QED
  BY <1>1, <1>2, <1>3, <1>4, <1>5, <1>6, LinkCases

-----------------------------------------------------------------------------
(* Theorems.                                                               *)

\* The line and the PLC start empty.
LEMMA LinkInvariantInit == LinkInit => LinkInvariant
<1> SUFFICES ASSUME LinkInit
             PROVE  LinkInvariant
  OBVIOUS
<1>1. DOMAIN plc = {} /\ DOMAIN line = {}
  BY DEF LinkInit
<1>2. ~busy /\ ~format2 /\ registered["RegisterMonitor"] = FALSE
  BY DEF LinkInit, Init, Registrations
<1>3. LinkTypeOK
  BY EmptySeq DEF LinkInit, LinkTypeOK
<1>4. plc = <<>> /\ line = <<>>
  BY DEF LinkInit
<1> QED
  BY <1>1, <1>2, <1>3, <1>4
  DEF LinkInvariant, FramesInOrder, ActiveFramesAreTrue, BlocksTellAges, NoLateAnswers,
      RegistrationIsSettled

\* Every step of the link, and every stuttering step, keeps the invariant.
LEMMA LinkInvariantStep ==
  LinkInvariant /\ InductiveInvariant /\ [LinkNext]_<<vars, linkVars>> => LinkInvariant'
<1> SUFFICES ASSUME LinkInvariant, InductiveInvariant, [LinkNext]_<<vars, linkVars>>
             PROVE  LinkInvariant'
  OBVIOUS
<1>1. CASE LinkNext
  BY <1>1, LinkTypeStep, OrderStep, ActiveStep, BlockStep, LateStep, RegistrationStep
  DEF LinkInvariant
<1>2. CASE UNCHANGED <<vars, linkVars>>
  BY <1>2 DEF vars, stateVars, configVars, sessionVars, txVars, linkVars, LinkInvariant,
     LinkTypeOK, FramesInOrder, ActiveFramesAreTrue, BlocksTellAges, Numbered,
     NoLateAnswers, RegistrationIsSettled
<1> QED
  BY <1>1, <1>2

\* On the link, the client keeps the invariant of McClient and the line its own.
THEOREM LinkInvariantCorrect == LinkSpec => [](LinkInvariant /\ InductiveInvariant)
<1>1. LinkSpec => []InductiveInvariant
  BY LinkRefinesClient, InductiveCorrect
<1> QED
  BY <1>1, LinkInvariantInit, LinkInvariantStep, PTL DEF LinkSpec

\* The frames on the way, and the PLC, keep their types.
THEOREM LinkTypeCorrect == LinkSpec => []LinkTypeOK
<1>1. LinkInvariant => LinkTypeOK
  BY DEF LinkInvariant
<1> QED
  BY <1>1, LinkInvariantCorrect, PTL

\* A client that holds a monitor registration reads the list that the PLC holds, however
\* many registrations were lost, cancelled or overtaken before.
THEOREM MonitorListsAgreeHolds == LinkSpec => []MonitorListsAgree
<1>1. LinkInvariant => MonitorListsAgree
  BY DEF LinkInvariant, RegistrationIsSettled, MonitorListsAgree
<1> QED
  BY <1>1, LinkInvariantCorrect, PTL

\* The steps that end a request and take an answer from the line are arrivals of answers.
LEMMA EndedByAnswer ==
  ASSUME LinkInvariant, InductiveInvariant, LinkNext, callback' # NoCallback
  PROVE  AnswerArrives \/ LinkWorks
  BY LinkCases DEF LinkConfigure, Configure, LinkStart, StartRequest, FrameLeaves, Serve,
     Rejected

\* Whatever answer decides a request is the answer to that request.
THEOREM AnswerBelongsToRequestHolds == LinkSpec => AnswerBelongsToRequest
<1> DEFINE Belongs ==
      callback' # NoCallback /\ line' # line /\ ~TimedOut(callback') => Head(line).age = 0
<1>1. ASSUME LinkInvariant /\ InductiveInvariant, [LinkNext]_<<vars, linkVars>>
      PROVE  [Belongs]_<<vars, linkVars>>
  <2> SUFFICES ASSUME LinkNext, callback' # NoCallback, line' # line,
                      ~TimedOut(callback')
               PROVE  Head(line).age = 0
    BY <1>1
  <2>1. AnswerArrives
    BY <1>1, EndedByAnswer, LinkWorksKeeps
  <2>2. ~RxExpired
    BY FailureCodes, TimedOutStatuses DEF RxExpired, Complete
  <2> QED
    BY <1>1, <2>1, <2>2, AnswerDecides, ArrivedFrame DEF LinkInvariant
<1> QED
  BY <1>1, LinkInvariantCorrect, PTL DEF LinkSpec, AnswerBelongsToRequest

\* A definite failure of a request that can change the PLC is true: the PLC has not
\* carried it out, and no frame of it is on the way.
THEOREM DefiniteFailureIsTrueHolds == LinkSpec => DefiniteFailureIsTrue
<1> DEFINE True ==
      Failed(callback') /\ operation \in StateChanging
        => ~done /\ \A frame \in ToSet(plc) : frame.age > 0
<1>1. ASSUME LinkInvariant /\ InductiveInvariant, [LinkNext]_<<vars, linkVars>>
      PROVE  [True]_<<vars, linkVars>>
  <2> SUFFICES ASSUME LinkNext, Failed(callback'), operation \in StateChanging
               PROVE  ~done /\ \A frame \in ToSet(plc) : frame.age > 0
    BY <1>1
  <2>1. callback' # NoCallback
    BY FailureCodes DEF Failed
  <2>2. busy /\ ~tx_started
    BY <1>1, <2>1, LinkStepIsClientStep, CompletionCases, HonestCompletion
    DEF Failed, MayHaveChangedPlc
  <2>3. ~sent
    BY <1>1, <2>2 DEF LinkInvariant, ActiveFramesAreTrue
  <2> QED
    BY <1>1, <2>2, <2>3, NoOwnFrameYet DEF ToSet
<1> QED
  BY <1>1, LinkInvariantCorrect, PTL DEF LinkSpec, DefiniteFailureIsTrue

\* A step of the client alone ends a request with a verdict only if the request has no
\* answer.
LEMMA VerdictOfTransmission ==
  ASSUME InductiveInvariant, LinkWorks, callback'.code \in {"Ok", "PlcError"}
  PROVE  operation \in SendOnly
<1>0. /\ NoCallback.code \notin {"Ok", "PlcError"}
      /\ \A code \in FailureCode : /\ Definite(code).code \notin {"Ok", "PlcError"}
                                   /\ Unconfirmed(code).code \notin {"Ok", "PlcError"}
  BY DEF NoCallback, Definite, Unconfirmed, OutcomeUnknown, FailureCode
<1>1. ASSUME NEW code \in TransportFailures \cup {"Ok"}, NotifyTxComplete(code)
      PROVE  operation \in SendOnly
  <2>1. /\ TxVerdict(code) = "sent" => operation \in SendOnly
        /\ TxVerdict(code) = "failed" => code \in FailureCode
    BY FailureCodes DEF TxVerdict
  <2> QED
    BY <1>0, <1>1, <2>1, FailureCodes DEF NotifyTxComplete, Complete
<1>2. CASE \/ NotifyTxStarted \/ RxRetain(1, 1) \/ Poll \/ Cancel \/ Tick
           \/ \E code \in TransportFailures : NotifyRxFailure(code)
  BY <1>0, <1>2, FailureCodes
  DEF NotifyTxStarted, TxStarts, TxNeverStarts, RxRetain, Poll, PollLatch, PollExpire,
      Cancel, Tick, NotifyRxFailure, Complete
<1> QED
  BY <1>1, <1>2 DEF LinkWorks

\* Success means that the PLC carried the request out, and a PLC error that it did not.
THEOREM VerdictIsTrueHolds == LinkSpec => VerdictIsTrue
<1> DEFINE True ==
      callback'.code \in {"Ok", "PlcError"} /\ operation \notin SendOnly
        => done = (callback'.code = "Ok")
<1>1. ASSUME LinkInvariant /\ InductiveInvariant, [LinkNext]_<<vars, linkVars>>
      PROVE  [True]_<<vars, linkVars>>
  <2> SUFFICES ASSUME LinkNext, callback'.code \in {"Ok", "PlcError"},
                      operation \notin SendOnly
               PROVE  done = (callback'.code = "Ok")
    BY <1>1
  <2>0. /\ Unconfirmed("Timeout").code \notin {"Ok", "PlcError"}
        /\ \A error \in DecodeErrors : Unconfirmed(error).code \notin {"Ok", "PlcError"}
        /\ NoCallback.code \notin {"Ok", "PlcError"}
        /\ Definite("Ok").code = "Ok" /\ Definite("PlcError").code = "PlcError"
    BY DEF Unconfirmed, Definite, OutcomeUnknown, NoCallback, DecodeErrors
  <2>1. AnswerArrives /\ callback' # NoCallback
    BY <1>1, <2>0, EndedByAnswer, VerdictOfTransmission
  <2>2. \/ line[1].age = 0 /\ line[1].kind = "nak" /\ callback'.code = "PlcError"
        \/ line[1].age = 0 /\ line[1].kind = "result" /\ callback'.code = "Ok"
    BY <1>1, <2>0, <2>1, AnswerDecides
    DEF RxExpired, RxPlcError, RxSuccess, RxDecodeError, Complete
  <2>3. busy /\ 1 \in DOMAIN line /\ done \in BOOLEAN
    BY <1>1, <2>1, AnswerDecides, ArrivedFrame
    DEF AwaitingResponse, LinkInvariant, LinkTypeOK
  <2>4. /\ line[1].kind = "result" => done
        /\ line[1].kind = "nak" => ~done
    BY <1>1, <2>2, <2>3 DEF LinkInvariant, ActiveFramesAreTrue
  <2> QED
    BY <2>2, <2>3, <2>4
<1> QED
  BY <1>1, LinkInvariantCorrect, PTL DEF LinkSpec, VerdictIsTrue

=============================================================================
