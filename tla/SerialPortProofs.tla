-------------------------- MODULE SerialPortProofs --------------------------
(***************************************************************************)
(* SerialPort keeps the promise of FrameTransmission, for every size of a  *)
(* frame and every timeout, on both platforms.                             *)
(***************************************************************************)
EXTENDS SerialPort, SequenceTheorems, TLAPS

\* Initially nothing has been written.
LEMMA InvariantInit == ASSUME PortInit PROVE PortInvariant
BY SerialPortAssumption
   DEF PortInit, PortInvariant, PortTypeOK, CallsFollowPort, BytesInOrder, WaitsLongEnough,
       Overdue, None, Sending

\* Opening and closing.
LEMMA OpenStep == ASSUME PortInvariant, Open \/ Close \/ NotConnected PROVE PortInvariant'
<1> USE SerialPortAssumption DEF PortInvariant, Sending, Between, drainVars, deviceVars
<1>1. CASE Open
  <2> USE <1>1 DEF Open, CloseHandle
  <2>0. out_queue' = out_queue \/ out_queue' = <<>> OBVIOUS
  <2>1. PortTypeOK'
    <3>1. out_queue \in Seq(Nat) BY DEF PortTypeOK
    <3>e. <<>> \in Seq(Nat) BY ONLY EmptySeq
    <3>2. out_queue' \in Seq(Nat) BY ONLY <2>0, <3>1, <3>e, Zenon
    <3>3. port' \in {"closed", "open", "doubtful"} BY DEF PortTypeOK
    <3>4. result' \in {"none", "Ok", "InvalidArgument", "NotConnected", "Transport", "Timeout"}
      OBVIOUS
    <3> QED BY <3>2, <3>3, <3>4 DEF PortTypeOK
  <2>2. CallsFollowPort' BY DEF CallsFollowPort, PortTypeOK
  <2>3. BytesInOrder' BY DEF BytesInOrder, CallsFollowPort, PortTypeOK
  <2>4. WaitsLongEnough' BY DEF WaitsLongEnough, CallsFollowPort, PortTypeOK
  <2> QED BY <2>1, <2>2, <2>3, <2>4
<1>2. CASE Close
  <2> USE <1>2 DEF Close, CloseHandle
  <2>0. out_queue' = out_queue \/ out_queue' = <<>> OBVIOUS
  <2>1. PortTypeOK'
    <3>1. out_queue \in Seq(Nat) BY DEF PortTypeOK
    <3>e. <<>> \in Seq(Nat) BY ONLY EmptySeq
    <3>2. out_queue' \in Seq(Nat) BY ONLY <2>0, <3>1, <3>e, Zenon
    <3>3. port' \in {"closed", "open", "doubtful"} BY DEF PortTypeOK
    <3>4. result' \in {"none", "Ok", "InvalidArgument", "NotConnected", "Transport", "Timeout"}
      OBVIOUS
    <3> QED BY <3>2, <3>3, <3>4 DEF PortTypeOK
  <2>2. CallsFollowPort' BY DEF CallsFollowPort, PortTypeOK
  <2>3. BytesInOrder' BY DEF BytesInOrder, CallsFollowPort, PortTypeOK
  <2>4. WaitsLongEnough' BY DEF WaitsLongEnough, CallsFollowPort, PortTypeOK
  <2> QED BY <2>1, <2>2, <2>3, <2>4
<1>3. CASE NotConnected
  <2> USE <1>3 DEF NotConnected
  <2>1. PortTypeOK' BY DEF PortTypeOK
  <2>2. CallsFollowPort' BY DEF CallsFollowPort, PortTypeOK
  <2>3. BytesInOrder' BY DEF BytesInOrder, CallsFollowPort, PortTypeOK
  <2>4. WaitsLongEnough' BY DEF WaitsLongEnough, CallsFollowPort, PortTypeOK
  <2> QED BY <2>1, <2>2, <2>3, <2>4
<1> QED BY <1>1, <1>2, <1>3

\* write_all_until, but for the bytes it hands over.
LEMMA WriteStepKeeps ==
  ASSUME PortInvariant, StartWrite \/ WriteCheck \/ AcceptNothing \/ WritePoll \/ PollExpires
  PROVE  PortInvariant'
<1> USE SerialPortAssumption
    DEF PortInvariant, Sending, Between, drainVars, deviceVars, Return, GoTo, Calling, Overdue
<1>1. CASE StartWrite
  <2> USE <1>1 DEF StartWrite
  <2>1. PortTypeOK' BY DEF PortTypeOK
  <2>2. CallsFollowPort' BY DEF CallsFollowPort, PortTypeOK
  <2>3. BytesInOrder' BY DEF BytesInOrder, CallsFollowPort, PortTypeOK
  <2>4. WaitsLongEnough' BY DEF WaitsLongEnough, CallsFollowPort, PortTypeOK
  <2> QED BY <2>1, <2>2, <2>3, <2>4
<1>2. CASE WriteCheck
  <2> USE <1>2 DEF WriteCheck
  <2>1. PortTypeOK' BY DEF PortTypeOK
  <2>2. CallsFollowPort' BY DEF CallsFollowPort, PortTypeOK
  <2>3. BytesInOrder' BY DEF BytesInOrder, CallsFollowPort, PortTypeOK
  <2>4. WaitsLongEnough' BY DEF WaitsLongEnough, CallsFollowPort, PortTypeOK
  <2> QED BY <2>1, <2>2, <2>3, <2>4
<1>3. CASE AcceptNothing
  <2> USE <1>3 DEF AcceptNothing
  <2>1. PortTypeOK' BY DEF PortTypeOK
  <2>2. CallsFollowPort' BY DEF CallsFollowPort, PortTypeOK
  <2>3. BytesInOrder' BY DEF BytesInOrder, CallsFollowPort, PortTypeOK
  <2>4. WaitsLongEnough' BY DEF WaitsLongEnough, CallsFollowPort, PortTypeOK
  <2> QED BY <2>1, <2>2, <2>3, <2>4
<1>4. CASE WritePoll
  <2> USE <1>4 DEF WritePoll
  <2>1. PortTypeOK' BY DEF PortTypeOK
  <2>2. CallsFollowPort' BY DEF CallsFollowPort, PortTypeOK
  <2>3. BytesInOrder' BY DEF BytesInOrder, CallsFollowPort, PortTypeOK
  <2>4. WaitsLongEnough' BY DEF WaitsLongEnough, CallsFollowPort, PortTypeOK
  <2> QED BY <2>1, <2>2, <2>3, <2>4
<1>5. CASE PollExpires
  <2> USE <1>5 DEF PollExpires
  <2>1. PortTypeOK' BY DEF PortTypeOK
  <2>2. CallsFollowPort' BY DEF CallsFollowPort, PortTypeOK
  <2>3. BytesInOrder' BY DEF BytesInOrder, CallsFollowPort, PortTypeOK
  <2>4. WaitsLongEnough' BY DEF WaitsLongEnough, CallsFollowPort, PortTypeOK
  <2> QED BY <2>1, <2>2, <2>3, <2>4
<1> QED BY <1>1, <1>2, <1>3, <1>4, <1>5

\* The driver takes the next n bytes: the queue goes on without a gap.
LEMMA AcceptKeeps == ASSUME PortInvariant, Accept PROVE PortInvariant'
<1> USE SerialPortAssumption
    DEF PortInvariant, PortTypeOK, CallsFollowPort, BytesInOrder, WaitsLongEnough,
        Sending
<1>1. PICK n \in 1..(Size - total_written) :
        /\ out_queue' = out_queue \o [i \in 1..n |-> total_written + i]
        /\ total_written' = total_written + n
  BY DEF Accept
<1> DEFINE more == [i \in 1..n |-> total_written + i]
<1>2. more \in Seq(Nat) /\ Len(more) = n /\ \A i \in 1..n : more[i] = total_written + i
  OBVIOUS
<1> HIDE DEF more
<1>3. out_queue' = out_queue \o more
  BY <1>1 DEF more
<1>4. /\ out_queue' \in Seq(Nat)
      /\ Len(out_queue') = Len(out_queue) + n
      /\ \A i \in 1..Len(out_queue) : out_queue'[i] = out_queue[i]
      /\ \A i \in 1..n : out_queue'[Len(out_queue) + i] = more[i]
  <2>1. out_queue \in Seq(Nat) /\ Len(out_queue) \in Nat BY DEF PortTypeOK
  <2>a. /\ out_queue \o more \in Seq(Nat)
        /\ Len(out_queue \o more) = Len(out_queue) + Len(more)
        /\ \A i \in 1..Len(out_queue) + Len(more) :
             (out_queue \o more)[i] = IF i <= Len(out_queue) THEN out_queue[i]
                                      ELSE more[i - Len(out_queue)]
    <3> HIDE DEF PortInvariant
    <3> QED BY ONLY <2>1, <1>2, ConcatProperties
  <2>2. \A i \in 1..(Len(out_queue) + n) :
          out_queue'[i] = IF i <= Len(out_queue) THEN out_queue[i]
                          ELSE more[i - Len(out_queue)]
    BY ONLY <2>a, <1>2, <1>3
  <2>3. out_queue' \in Seq(Nat) /\ Len(out_queue') = Len(out_queue) + n
    BY ONLY <2>a, <1>2, <1>3
  <2>4. \A i \in 1..n : out_queue'[Len(out_queue) + i] = more[i]
    <3> SUFFICES ASSUME NEW i \in 1..n PROVE out_queue'[Len(out_queue) + i] = more[i]
      OBVIOUS
    <3>1. /\ Len(out_queue) + i \in 1..(Len(out_queue) + n)
          /\ ~(Len(out_queue) + i <= Len(out_queue))
          /\ (Len(out_queue) + i) - Len(out_queue) = i
      BY <2>1, <1>1
    <3> QED BY <3>1, <2>2
  <2> QED BY <2>1, <2>2, <2>3, <2>4, <1>1
<1>5. /\ call = "write" /\ port = "open"
      /\ UNCHANGED <<platform, port, call, left, wait, pending, result, wire>>
      /\ pc' = "check"
  BY DEF Accept, GoTo, Calling, drainVars
<1>6. total_written = Len(wire) + Len(out_queue)
  BY <1>5
<1>7. \A i \in 1..Len(out_queue') : out_queue'[i] = Len(wire) + i
  <2> SUFFICES ASSUME NEW i \in 1..Len(out_queue') PROVE out_queue'[i] = Len(wire) + i
    OBVIOUS
  <2>1. CASE i <= Len(out_queue) BY <2>1, <1>4
  <2>2. CASE i > Len(out_queue)
    <3>0. /\ i \in Nat /\ i > Len(out_queue) /\ i <= Len(out_queue) + n
          /\ n \in Nat /\ Len(out_queue) \in Nat
      <4> HIDE DEF CallsFollowPort, BytesInOrder, WaitsLongEnough
      <4>1. Len(out_queue') = Len(out_queue) + n BY ONLY <1>4
      <4>2. n \in Nat BY <1>1 DEF PortTypeOK
      <4>3. Len(out_queue) \in Nat BY DEF PortTypeOK
      <4> QED BY <4>1, <4>2, <4>3, <2>2
    <3>1. i - Len(out_queue) \in 1..n BY ONLY <3>0
    <3>2. out_queue'[Len(out_queue) + (i - Len(out_queue))] = total_written + (i - Len(out_queue))
      BY <3>1, <1>4, <1>2
    <3> QED BY <3>2, <1>6, <2>2, <1>4
  <2> QED BY <2>1, <2>2
<1>8. Len(wire) + Len(out_queue') <= Size /\ total_written' = Len(wire) + Len(out_queue')
  BY <1>1, <1>4, <1>6
<1> QED BY <1>1, <1>4, <1>5, <1>7, <1>8

\* drain_tx_until.
LEMMA DrainKeeps == ASSUME PortInvariant, DrainStep PROVE PortInvariant'
<1> USE SerialPortAssumption
    DEF PortInvariant, Sending, drainVars, deviceVars, Return, GoTo, Calling
<1>1. CASE StartDrain
  <2> USE <1>1 DEF StartDrain
  <2>1. PortTypeOK' BY DEF PortTypeOK
  <2>2. CallsFollowPort' BY DEF CallsFollowPort, PortTypeOK
  <2>3. BytesInOrder' BY DEF BytesInOrder, CallsFollowPort, PortTypeOK
  <2>4. WaitsLongEnough' BY DEF WaitsLongEnough, CallsFollowPort, PortTypeOK
  <2> QED BY <2>1, <2>2, <2>3, <2>4
<1>2. CASE DrainCheck
  <2> USE <1>2 DEF DrainCheck
  <2>1. PortTypeOK' BY DEF PortTypeOK
  <2>2. CallsFollowPort' BY DEF CallsFollowPort, PortTypeOK
  <2>3. BytesInOrder' BY DEF BytesInOrder, CallsFollowPort, PortTypeOK
  <2>4. WaitsLongEnough' BY DEF WaitsLongEnough, CallsFollowPort, PortTypeOK
  <2> QED BY <2>1, <2>2, <2>3, <2>4
<1>3. CASE DrainQuery
  <2> USE <1>3 DEF DrainQuery
  <2>1. PortTypeOK' BY DEF PortTypeOK
  <2>2. CallsFollowPort' BY DEF CallsFollowPort, PortTypeOK
  <2>3. BytesInOrder' BY DEF BytesInOrder, CallsFollowPort, PortTypeOK
  <2>4. WaitsLongEnough' BY DEF WaitsLongEnough, CallsFollowPort, PortTypeOK
  <2> QED BY <2>1, <2>2, <2>3, <2>4
<1>4. CASE DrainRecheck
  <2> USE <1>4 DEF DrainRecheck
  <2>1. PortTypeOK' BY DEF PortTypeOK
  <2>2. CallsFollowPort' BY DEF CallsFollowPort, PortTypeOK
  <2>3. BytesInOrder' BY DEF BytesInOrder, CallsFollowPort, PortTypeOK
  <2>4. WaitsLongEnough' BY DEF WaitsLongEnough, CallsFollowPort, PortTypeOK
  <2> QED BY <2>1, <2>2, <2>3, <2>4
<1>5. CASE PauseEnds
  <2> USE <1>5 DEF PauseEnds
  <2>1. PortTypeOK' BY DEF PortTypeOK
  <2>2. CallsFollowPort' BY DEF CallsFollowPort, PortTypeOK
  <2>3. BytesInOrder' BY DEF BytesInOrder, CallsFollowPort, PortTypeOK
  <2>4. WaitsLongEnough' BY DEF WaitsLongEnough, CallsFollowPort, PortTypeOK
  <2> QED BY <2>1, <2>2, <2>3, <2>4
<1> QED BY <1>1, <1>2, <1>3, <1>4, <1>5 DEF DrainStep

\* read_some_until and flush_rx touch nothing of the transmission.
LEMMA ReadKeeps ==
  ASSUME PortInvariant, StartRead \/ ReadStep \/ ReadPoll \/ ReadFile \/ FileExpires \/ FlushRx
  PROVE  PortInvariant'
<1> USE SerialPortAssumption
    DEF PortInvariant, Sending, Between, drainVars, deviceVars, Return, GoTo, Calling, Overdue
<1>1. CASE StartRead
  <2> USE <1>1 DEF StartRead
  <2>1. PortTypeOK' BY DEF PortTypeOK
  <2>2. CallsFollowPort' BY DEF CallsFollowPort, PortTypeOK
  <2>3. BytesInOrder' BY DEF BytesInOrder, CallsFollowPort, PortTypeOK
  <2>4. WaitsLongEnough' BY DEF WaitsLongEnough, CallsFollowPort, PortTypeOK
  <2> QED BY <2>1, <2>2, <2>3, <2>4
<1>2. CASE ReadCheck
  <2> USE <1>2 DEF ReadCheck
  <2>1. PortTypeOK' BY DEF PortTypeOK
  <2>2. CallsFollowPort' BY DEF CallsFollowPort, PortTypeOK
  <2>3. BytesInOrder' BY DEF BytesInOrder, CallsFollowPort, PortTypeOK
  <2>4. WaitsLongEnough' BY DEF WaitsLongEnough, CallsFollowPort, PortTypeOK
  <2> QED BY <2>1, <2>2, <2>3, <2>4
<1>3. CASE ReadTake
  <2> USE <1>3 DEF ReadTake
  <2>1. PortTypeOK' BY DEF PortTypeOK
  <2>2. CallsFollowPort' BY DEF CallsFollowPort, PortTypeOK
  <2>3. BytesInOrder' BY DEF BytesInOrder, CallsFollowPort, PortTypeOK
  <2>4. WaitsLongEnough' BY DEF WaitsLongEnough, CallsFollowPort, PortTypeOK
  <2> QED BY <2>1, <2>2, <2>3, <2>4
<1>4. CASE ReadRestore
  <2> USE <1>4 DEF ReadRestore
  <2>1. PortTypeOK' BY DEF PortTypeOK
  <2>2. CallsFollowPort' BY DEF CallsFollowPort, PortTypeOK
  <2>3. BytesInOrder' BY DEF BytesInOrder, CallsFollowPort, PortTypeOK
  <2>4. WaitsLongEnough' BY DEF WaitsLongEnough, CallsFollowPort, PortTypeOK
  <2> QED BY <2>1, <2>2, <2>3, <2>4
<1>5. CASE ReadPoll
  <2> USE <1>5 DEF ReadPoll
  <2>1. PortTypeOK' BY DEF PortTypeOK
  <2>2. CallsFollowPort' BY DEF CallsFollowPort, PortTypeOK
  <2>3. BytesInOrder' BY DEF BytesInOrder, CallsFollowPort, PortTypeOK
  <2>4. WaitsLongEnough' BY DEF WaitsLongEnough, CallsFollowPort, PortTypeOK
  <2> QED BY <2>1, <2>2, <2>3, <2>4
<1>6. CASE ReadFile
  <2> USE <1>6 DEF ReadFile
  <2>1. PortTypeOK' BY DEF PortTypeOK
  <2>2. CallsFollowPort' BY DEF CallsFollowPort, PortTypeOK
  <2>3. BytesInOrder' BY DEF BytesInOrder, CallsFollowPort, PortTypeOK
  <2>4. WaitsLongEnough' BY DEF WaitsLongEnough, CallsFollowPort, PortTypeOK
  <2> QED BY <2>1, <2>2, <2>3, <2>4
<1>7. CASE FileExpires
  <2> USE <1>7 DEF FileExpires
  <2>1. PortTypeOK' BY DEF PortTypeOK
  <2>2. CallsFollowPort' BY DEF CallsFollowPort, PortTypeOK
  <2>3. BytesInOrder' BY DEF BytesInOrder, CallsFollowPort, PortTypeOK
  <2>4. WaitsLongEnough' BY DEF WaitsLongEnough, CallsFollowPort, PortTypeOK
  <2> QED BY <2>1, <2>2, <2>3, <2>4
<1>8. CASE FlushRx
  <2> USE <1>8 DEF FlushRx
  <2>1. PortTypeOK' BY DEF PortTypeOK
  <2>2. CallsFollowPort' BY DEF CallsFollowPort, PortTypeOK
  <2>3. BytesInOrder' BY DEF BytesInOrder, CallsFollowPort, PortTypeOK
  <2>4. WaitsLongEnough' BY DEF WaitsLongEnough, CallsFollowPort, PortTypeOK
  <2> QED BY <2>1, <2>2, <2>3, <2>4
<1> QED BY <1>1, <1>2, <1>3, <1>4, <1>5, <1>6, <1>7, <1>8 DEF ReadStep

\* The line and time.
LEMMA EnvironmentKeeps ==
  ASSUME PortInvariant, ByteLeaves \/ ByteArrives \/ Tick PROVE PortInvariant'
<1> USE SerialPortAssumption
    DEF PortInvariant, Sending, drainVars, deviceVars
<1>1. CASE ByteLeaves
  <2> USE DEF PortTypeOK, CallsFollowPort, BytesInOrder, WaitsLongEnough
  <2>1. /\ out_queue # <<>> /\ out_queue' = Tail(out_queue)
        /\ wire' = Append(wire, Head(out_queue))
    BY <1>1 DEF ByteLeaves
  <2>2. /\ Len(out_queue') = Len(out_queue) - 1 /\ Len(out_queue) > 0
        /\ out_queue' \in Seq(Nat)
        /\ \A i \in 1..Len(out_queue') : out_queue'[i] = out_queue[i + 1]
        /\ Head(out_queue) = out_queue[1]
    BY <2>1
  <2>3. out_queue[1] = Len(wire) + 1 BY <2>2
  <2>4. /\ Len(wire') = Len(wire) + 1 /\ wire' \in Seq(Nat)
        /\ \A i \in 1..Len(wire') : wire'[i] = i
    BY <2>1, <2>2, <2>3
  <2>5. \A i \in 1..Len(out_queue') : out_queue'[i] = Len(wire') + i
    BY <2>2, <2>4
  <2>6. UNCHANGED <<platform, port, call, pc, left, wait, total_written, pending, result>>
    BY <1>1 DEF ByteLeaves
  <2>7. Len(wire') + Len(out_queue') = Len(wire) + Len(out_queue) /\ Len(out_queue') \in Nat
    BY <2>2, <2>4
  <2>8. PortTypeOK' BY <2>2, <2>4, <2>6
  <2>9. BytesInOrder'
    <3>1. Len(wire') \in Nat /\ Len(wire) \in Nat /\ Len(out_queue) \in Nat BY <2>4
    <3>2. Len(wire') + Len(out_queue') <= Size BY <2>7
    <3>3. port = "open" => Sending BY <2>1
    <3>4. call = "drain" /\ pc = "recheck" => pending >= Len(out_queue') BY <2>2, <3>1
    <3> QED BY <2>4, <2>5, <2>6, <2>7, <3>2, <3>3, <3>4
  <2> QED BY <2>6, <2>8, <2>9
<1>2. CASE ByteArrives
  <2> USE <1>2 DEF ByteArrives
  <2>1. PortTypeOK' BY DEF PortTypeOK
  <2>2. CallsFollowPort' BY DEF CallsFollowPort, PortTypeOK
  <2>3. BytesInOrder' BY DEF BytesInOrder, CallsFollowPort, PortTypeOK
  <2>4. WaitsLongEnough' BY DEF WaitsLongEnough, CallsFollowPort, PortTypeOK
  <2> QED BY <2>1, <2>2, <2>3, <2>4
<1>3. CASE Tick
  <2> USE <1>3 DEF Tick, Blocking, Overdue
  <2>1. PortTypeOK' BY DEF PortTypeOK
  <2>2. CallsFollowPort' BY DEF CallsFollowPort, PortTypeOK
  <2>3. BytesInOrder' BY DEF BytesInOrder, CallsFollowPort, PortTypeOK
  <2>4. WaitsLongEnough' BY DEF WaitsLongEnough, CallsFollowPort, PortTypeOK
  <2> QED BY <2>1, <2>2, <2>3, <2>4
<1> QED BY <1>1, <1>2, <1>3

\* Every step keeps the invariant.
LEMMA InvariantStep == ASSUME PortInvariant, [PortNext]_vars PROVE PortInvariant'
<1>1. CASE UNCHANGED vars
  BY <1>1 DEF vars, drainVars, deviceVars, PortInvariant, PortTypeOK,
     CallsFollowPort, BytesInOrder, WaitsLongEnough, Sending
<1>2. CASE PortNext
  BY <1>2, OpenStep, WriteStepKeeps, AcceptKeeps, DrainKeeps, ReadKeeps, EnvironmentKeeps
     DEF PortNext, WriteStep
<1> QED BY <1>1, <1>2

\* The bytes on the wire and in the driver are always the frame so far, in order and without a
\* gap, and no wait of the system is over before the deadline.
THEOREM PortInvariantCorrect == PortSpec => []PortInvariant
<1>1. PortInit => PortInvariant BY InvariantInit
<1>2. PortInvariant /\ [PortNext]_vars => PortInvariant' BY InvariantStep
<1> QED BY <1>1, <1>2, PTL DEF PortSpec

-----------------------------------------------------------------------------
(* The refinement.                                                         *)

-----------------------------------------------------------------------------
(* The refinement: what each step is in FrameTransmission.                 *)

\* Opening, closing and emptying the receive queue move between idle and closed.
LEMMA OpenRefines ==
  ASSUME PortInvariant, Open \/ Close \/ NotConnected \/ FlushRx PROVE Promise!OpenOrClose
<1> USE DEF PortInvariant, PortTypeOK, CallsFollowPort, Sending, Stage, Between, CloseHandle,
            Promise!OpenOrClose, deviceVars
<1>1. CASE Open BY <1>1 DEF Open
<1>2. CASE Close BY <1>2 DEF Close
<1>3. CASE NotConnected BY <1>3 DEF NotConnected
<1>4. CASE FlushRx BY <1>4 DEF FlushRx
<1> QED BY <1>1, <1>2, <1>3, <1>4

Refined == [Promise!TransmissionNext]_(Promise!transmissionVars)

\* A write hands the frame over, or gives up.
LEMMA WriteRefines ==
  ASSUME PortInvariant, StartWrite \/ WriteStep \/ WritePoll PROVE Refined
<1> USE DEF PortInvariant, PortTypeOK, CallsFollowPort, Sending, Stage, Between, deviceVars,
            Return, GoTo, Calling, Refined, Promise!TransmissionNext,
            Promise!transmissionVars, Promise!Result
<1>1. CASE StartWrite BY <1>1 DEF StartWrite, Promise!Begin
<1>2. CASE WriteCheck BY <1>2 DEF WriteCheck, Promise!HandOver, Promise!GiveUp
<1>3. CASE Accept BY <1>3 DEF Accept
<1>4. CASE AcceptNothing BY <1>4 DEF AcceptNothing, Promise!GiveUp
<1>5. CASE WritePoll BY <1>5 DEF WritePoll, Promise!GiveUp
<1> QED BY <1>1, <1>2, <1>3, <1>4, <1>5 DEF WriteStep

\* poll waited until the deadline: the invariant has that the time it was given is not less
\* than what is left.
LEMMA PollRefines == ASSUME PortInvariant, PollExpires PROVE Refined
<1>1. left <= 0
  BY DEF PortInvariant, PortTypeOK, WaitsLongEnough, PollExpires
<1>2. call \in {"write", "read"} /\ port = "open"
  BY DEF PortInvariant, PortTypeOK, CallsFollowPort, PollExpires
<1> USE <1>1, <1>2
    DEF Sending, Stage, deviceVars, Return, Refined, Promise!TransmissionNext, Promise!Result
<1>3. CASE call = "write"
  <2> Promise!GiveUp BY <1>3 DEF PollExpires, Promise!GiveUp
  <2> QED OBVIOUS
<1>4. CASE call = "read"
  <2> Promise!EndReceive BY <1>4 DEF PollExpires, Promise!EndReceive
  <2> QED OBVIOUS
<1> QED BY <1>3, <1>4

\* A drain that succeeds has seen the queue empty, so the whole frame has left.
LEMMA DrainRefines == ASSUME PortInvariant, DrainStep PROVE Refined
<1> USE DEF PortInvariant, PortTypeOK, CallsFollowPort, Sending, Stage, deviceVars,
            Return, GoTo, Calling, Refined, Promise!TransmissionNext,
            Promise!transmissionVars, Promise!Result
<1>1. CASE StartDrain BY <1>1 DEF StartDrain, Promise!HandOver
<1>2. CASE DrainCheck BY <1>2 DEF DrainCheck, Promise!GiveUp
<1>3. CASE DrainQuery BY <1>3 DEF DrainQuery, Promise!GiveUp
<1>4. CASE DrainRecheck
  <2>1. CASE left > 0 /\ pending = 0 /\ Return("Ok")
    <3>1. Len(wire) = Size
      BY <1>4, <2>1, SerialPortAssumption DEF DrainRecheck, BytesInOrder
    <3> QED BY <1>4, <2>1, <3>1 DEF DrainRecheck, Promise!Complete
  <2>2. CASE ~(left > 0 /\ pending = 0 /\ Return("Ok"))
    BY <1>4, <2>2 DEF DrainRecheck, Promise!GiveUp
  <2> QED BY <2>1, <2>2
<1>5. CASE PauseEnds BY <1>5 DEF PauseEnds
<1> QED BY <1>1, <1>2, <1>3, <1>4, <1>5 DEF DrainStep

\* Reading is one receive, whose Timeout comes after the deadline.
LEMMA ReadRefines ==
  ASSUME PortInvariant, StartRead \/ ReadStep \/ ReadPoll \/ ReadFile \/ FileExpires
  PROVE  Refined
<1> USE DEF PortInvariant, PortTypeOK, CallsFollowPort, Sending, Stage, Between, deviceVars,
            Return, GoTo, Calling, Refined, Promise!TransmissionNext,
            Promise!transmissionVars, Promise!Result
<1>1. CASE StartRead BY <1>1 DEF StartRead, Promise!Receive
<1>2. CASE ReadCheck BY <1>2 DEF ReadCheck, Promise!EndReceive
<1>3. CASE ReadTake BY <1>3 DEF ReadTake, Promise!EndReceive
<1>4. CASE ReadRestore BY <1>4 DEF ReadRestore, Promise!EndReceive
<1>5. CASE ReadPoll BY <1>5 DEF ReadPoll, Promise!EndReceive
<1>6. CASE ReadFile BY <1>6 DEF ReadFile
<1>7. CASE FileExpires BY <1>7 DEF FileExpires
<1> QED BY <1>1, <1>2, <1>3, <1>4, <1>5, <1>6, <1>7 DEF ReadStep

\* Only the bytes of a frame that is being sent, or that was given up, leave.
LEMMA EnvironmentRefines ==
  ASSUME PortInvariant, ByteLeaves \/ ByteArrives \/ Tick PROVE Refined
<1> USE DEF PortInvariant, PortTypeOK, CallsFollowPort, Sending, Stage, Refined,
            Promise!TransmissionNext, Promise!transmissionVars
<1>1. CASE ByteLeaves
  <2>1. Head(out_queue) = Len(wire) + 1 /\ Len(wire) < Size
    <3>1. Len(out_queue) \in Nat \ {0} /\ Head(out_queue) = out_queue[1] /\ Len(wire) \in Nat
      BY <1>1 DEF ByteLeaves
    <3> QED BY <3>1, SerialPortAssumption DEF BytesInOrder
  <2>2. Stage \notin {"idle", "receiving"} BY <1>1 DEF ByteLeaves, BytesInOrder
  <2> QED BY <1>1, <2>1, <2>2 DEF ByteLeaves, Promise!Leave
<1>2. CASE ByteArrives BY <1>2 DEF ByteArrives
<1>3. CASE Tick
  <2>1. UNCHANGED <<port, call, wire, result>> BY <1>3 DEF Tick, drainVars, deviceVars
  <2>2. left' <= 0 \/ ~(left <= 0) BY <1>3 DEF Tick, Overdue
  <2> QED BY <2>1, <2>2 DEF Promise!TimePasses
<1> QED BY <1>1, <1>2, <1>3

\* The port keeps its promise: a drained frame left whole, once and in order, no Timeout comes
\* before the deadline, and nothing leaves an idle port.
THEOREM PortKeepsPromise == PortSpec => KeepsPromise
<1>1. PortInit => Promise!TransmissionInit
  BY DEF PortInit, Promise!TransmissionInit, Stage, Overdue
<1>2. PortInvariant /\ [PortNext]_vars => [Promise!TransmissionNext]_(Promise!transmissionVars)
  <2> SUFFICES ASSUME PortInvariant, [PortNext]_vars PROVE Refined
    BY DEF Refined
  <2>1. CASE UNCHANGED vars
    BY <2>1 DEF vars, deviceVars, Stage, Sending, Refined, Promise!transmissionVars
  <2>2. CASE Open \/ Close \/ NotConnected \/ FlushRx
    BY <2>2, OpenRefines DEF Refined, Promise!TransmissionNext
  <2> QED BY <2>1, <2>2, WriteRefines, PollRefines, DrainRefines, ReadRefines,
             EnvironmentRefines DEF PortNext
<1> QED BY <1>1, <1>2, PortInvariantCorrect, PTL DEF PortSpec, KeepsPromise,
           Promise!TransmissionSpec
=============================================================================
