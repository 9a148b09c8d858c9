------------------------------ MODULE HostSync ------------------------------
(***************************************************************************)
(* HostSyncClient (src/host_sync.cpp): blocking calls that run one request *)
(* at a time over a serial port, and run_synchronous_request (src/         *)
(* host_sync_runner.hpp), the loop that drives MelsecSerialClient from     *)
(* transmission to completion.  A call is a sequence of steps; time may    *)
(* pass between any two of them, and inside a write, a drain or a read.    *)
(*                                                                         *)
(* The serial port is external: a write or drain ends well, fails, or      *)
(* times out at the transaction deadline; a read returns bytes, nothing    *)
(* (an interrupted wait), fails, or times out at its own deadline.         *)
(***************************************************************************)
EXTENDS McClient

\* What the blocking calls and the serial port use of the client.
ASSUME HostAssumption ==
  /\ {"BatchReadWords", "BatchWriteWords"} \subseteq Operations
  /\ {"Transport", "Timeout"} \subseteq TransportFailures

VARIABLES
  port,           \* the serial port is open
  call,           \* "none", a "single" request, or the part of a bit-in-word write
  host_step,      \* what the blocking call does next
  read_deadline,  \* the deadline of the read in progress, else 0
  inter_byte_wakeup, \* that deadline is the inter-byte one
  completion,     \* CompletionState: the status the callback delivered, or NoCallback
  result          \* the status the last call returned

hostVars == <<port, call, host_step, read_deadline, inter_byte_wakeup, completion, result>>

Waiting == {"wait", "read", "poll"}
Sending == {"write", "drain", "sent"}
HostSteps == {"idle", "request", "flush", "start", "finish", "end"} \cup Waiting \cup Sending

HostInit ==
  /\ Init
  /\ port = FALSE
  /\ call = "none"
  /\ host_step = "idle"
  /\ read_deadline = 0
  /\ inter_byte_wakeup = FALSE
  /\ completion = NoCallback
  /\ result = NoCallback

-----------------------------------------------------------------------------
(* Opening, closing and entering a call.                                   *)

\* open: the old port is closed and the client configured before the port is opened,
\* which may fail.
Open(selects_format2) ==
  /\ host_step = "idle"
  /\ Configure(selects_format2)
  /\ port' \in BOOLEAN
  /\ completion' = NoCallback
  /\ result' = NoCallback
  /\ UNCHANGED <<call, host_step, read_deadline, inter_byte_wakeup>>

\* close between calls: the client has nothing to cancel (RunnerFollowsClient).
Close ==
  /\ host_step = "idle"
  /\ Rejected
  /\ port' = FALSE
  /\ UNCHANGED <<call, host_step, read_deadline, inter_byte_wakeup, completion, result>>

CallSingle(op) ==
  /\ host_step = "idle"
  /\ StartRequest(op)
  /\ call' = "single"
  /\ host_step' = "flush"
  /\ completion' = NoCallback
  /\ UNCHANGED <<port, read_deadline, inter_byte_wakeup, result>>

\* write_bit_in_word: a read and a write under one deadline.
CallBitInWord ==
  /\ host_step = "idle"
  /\ BeginCompoundDeadline
  /\ call' = "read_part"
  /\ host_step' = "request"
  /\ UNCHANGED <<port, read_deadline, inter_byte_wakeup, completion, result>>

RequestPart ==
  /\ host_step = "request"
  /\ StartRequest(IF call = "read_part" THEN "BatchReadWords" ELSE "BatchWriteWords")
  /\ host_step' = "flush"
  /\ completion' = NoCallback
  /\ UNCHANGED <<port, call, read_deadline, inter_byte_wakeup, result>>

-----------------------------------------------------------------------------
(* The runner.  Return(status) leaves run_synchronous_request.             *)

Return(status) ==
  \/ /\ call = "read_part" /\ status.code = "Ok"
     /\ call' = "write_part"
     /\ host_step' = "request"
     /\ UNCHANGED result
  \/ /\ call # "single" /\ ~(call = "read_part" /\ status.code = "Ok")
     /\ host_step' = "end"
     /\ result' = status
     /\ UNCHANGED call
  \/ /\ call = "single"
     /\ call' = "none"
     /\ host_step' = "idle"
     /\ result' = status

\* Outside a read its deadline is out of scope.
NotReading == read_deadline' = 0 /\ inter_byte_wakeup' = FALSE

GoTo(step) ==
  /\ host_step' = step
  /\ UNCHANGED <<port, call, completion, result>>
  /\ NotReading

\* A client operation that runs the callback.
Delivered == callback' # NoCallback /\ completion' = callback'

\* Seeded defect: a failed flush returns without cancelling the request.
BugFlushRx ==
  /\ host_step = "flush"
  /\ \/ port /\ Rejected /\ GoTo("start")
     \/ /\ Rejected
        /\ UNCHANGED completion
        /\ port' = FALSE
        /\ NotReading
        /\ Return(Definite(IF port THEN "Transport" ELSE "NotConnected"))

FlushRx ==
  /\ host_step = "flush"
  /\ \/ port /\ Rejected /\ GoTo("start")
     \/ /\ Cancel
        /\ Delivered
        /\ port' = FALSE
        /\ NotReading
        /\ Return(Definite(IF port THEN "Transport" ELSE "NotConnected"))

StartTx ==
  /\ host_step = "start"
  /\ \/ TxStarts /\ GoTo("write")
     \/ /\ TxNeverStarts
        /\ Delivered
        /\ UNCHANGED port
        /\ NotReading
        /\ Return(completion')

\* The codes a bounded port operation may fail with.
PortFailures(deadline) ==
  {"Transport"} \cup (IF DeadlineReached(deadline) THEN {"Timeout"} ELSE {})

\* Seeded defect: the port's own status is returned although the client knows better.
BugSendFails(code) ==
  /\ NotifyTxComplete(code)
  /\ Delivered
  /\ port' = FALSE
  /\ NotReading
  /\ Return(Definite(code))

SendFails(code) ==
  /\ NotifyTxComplete(code)
  /\ Delivered
  /\ port' = FALSE
  /\ NotReading
  /\ Return(completion')

WriteAll ==
  /\ host_step = "write"
  /\ \/ Rejected /\ GoTo("drain")
     \/ \E code \in PortFailures(response_deadline_ms) : SendFails(code)

\* A drain that succeeds has seen time left after it saw the queue empty.
DrainTx ==
  /\ host_step = "drain"
  /\ \/ ~DeadlineReached(response_deadline_ms) /\ Rejected /\ GoTo("sent")
     \/ \E code \in PortFailures(response_deadline_ms) : SendFails(code)

SendSucceeds ==
  /\ host_step = "sent"
  /\ NotifyTxComplete("Ok")
  /\ \/ callback' = NoCallback /\ GoTo("wait")
     \/ /\ Delivered
        /\ UNCHANGED port
        /\ NotReading
        /\ Return(completion')

\* poll() inside the loop: it completes the request or finds nothing to do.
PollInLoop(next) ==
  \/ /\ PollExpire
     /\ Delivered
     /\ host_step' = "finish"
     /\ UNCHANGED <<port, call, result>>
     /\ NotReading
  \/ /\ ~TransactionExpired /\ ~InterByteExpired
     /\ Rejected
     /\ next

\* static_cast<int32_t>(deadline - now)
SignedRemaining(deadline) ==
  LET d == (deadline - now) % ClockModulus IN IF d < HalfRange THEN d ELSE d - ClockModulus

\* Seeded defect: deadlines compared as plain numbers, without wrap-around.
BugInterByteIsNearer ==
  inter_byte_deadline_active /\ inter_byte_deadline_ms < response_deadline_ms

InterByteIsNearer ==
  /\ inter_byte_deadline_active
  /\ SignedRemaining(inter_byte_deadline_ms) < SignedRemaining(response_deadline_ms)

ChooseDeadline ==
  /\ inter_byte_wakeup' = InterByteIsNearer
  /\ read_deadline' = IF InterByteIsNearer THEN inter_byte_deadline_ms
                      ELSE response_deadline_ms
  /\ host_step' = "read"
  /\ UNCHANGED <<port, call, completion, result>>

WaitTop == host_step = "wait" /\ PollInLoop(ChooseDeadline)

ReceivesBytes ==
  /\ host_step = "read"
  /\ \E size \in 1 .. RxCapacity + 1 : OnRxBytes(size)
  /\ \/ callback' = NoCallback /\ GoTo("poll")
     \/ /\ Delivered
        /\ host_step' = "finish"
        /\ UNCHANGED <<port, call, result>>
        /\ NotReading

\* An interrupted wait: no bytes and no error.
ReceivesNothing == host_step = "read" /\ Rejected /\ GoTo("poll")

\* The client itself decides what passed at an inter-byte wake-up; the end of the
\* transaction is a receive failure.
ReadTimesOut ==
  /\ host_step = "read"
  /\ DeadlineReached(read_deadline)
  /\ \/ inter_byte_wakeup /\ PollInLoop(GoTo("wait"))
     \/ /\ ~inter_byte_wakeup
        /\ NotifyRxFailure("Timeout")
        /\ Delivered
        /\ port' = FALSE
        /\ NotReading
        /\ Return(completion')

ReadFails ==
  /\ host_step = "read"
  /\ NotifyRxFailure("Transport")
  /\ Delivered
  /\ port' = FALSE
  /\ NotReading
  /\ Return(completion')

LoopEnd == host_step = "poll" /\ PollInLoop(GoTo("wait"))

\* Seeded defect: the port survives an unanswered request.
BugRetires(status) == status.code \in {"Timeout", "Transport"}

\* The loop's exit closes the port unless the transport can carry another request.
Retires(status) ==
  \/ status.code \in {"Timeout", "OperationOutcomeUnknown", "Transport"}
  \/ transport_reset_required

Finish ==
  /\ host_step = "finish"
  /\ Rejected
  /\ port' = (port /\ ~Retires(completion))
  /\ NotReading
  /\ Return(completion)
  /\ UNCHANGED completion

EndBitInWord ==
  /\ host_step = "end"
  /\ EndCompoundDeadline
  /\ call' = "none"
  /\ host_step' = "idle"
  /\ UNCHANGED <<port, read_deadline, inter_byte_wakeup, completion, result>>

-----------------------------------------------------------------------------

\* The steps of a call, other than the outcomes of a read that the line decides.
RunnerStep ==
  \/ RequestPart \/ FlushRx \/ StartTx \/ WriteAll \/ DrainTx \/ SendSucceeds
  \/ WaitTop \/ ReadTimesOut \/ LoopEnd \/ Finish \/ EndBitInWord

HostTick == Tick /\ UNCHANGED hostVars

HostNext ==
  \/ \E f \in BOOLEAN : Open(f)
  \/ Close
  \/ \E op \in Operations : CallSingle(op)
  \/ CallBitInWord
  \/ RunnerStep
  \/ ReceivesBytes
  \/ ReceivesNothing
  \/ ReadFails
  \/ HostTick

allVars == <<vars, hostVars>>

\* The call's own code runs on, and a blocked read ends at its deadline; nothing is
\* assumed of the line.
HostSpec == HostInit /\ [][HostNext]_allVars
HostFairSpec == HostSpec /\ WF_allVars(RunnerStep) /\ WF_allVars(HostTick)

-----------------------------------------------------------------------------
(* Properties.                                                             *)

\* Every variable of the blocking client keeps its range.
HostTypeOK ==
  /\ port \in BOOLEAN
  /\ call \in {"none", "single", "read_part", "write_part"}
  /\ host_step \in HostSteps
  /\ read_deadline \in Clock
  /\ inter_byte_wakeup \in BOOLEAN
  /\ completion \in Status \cup {NoCallback}
  /\ result \in Status \cup {NoCallback}

\* The runner and the client agree on where the request is, on every path: no step
\* notifies a client that would reject it, and no error path leaves a request, or the
\* deadline of a bit-in-word write, behind when the call returns.
RunnerFollowsClient ==
  /\ host_step \in {"idle", "request", "finish", "end"} <=> ~busy
  /\ host_step \in {"flush", "start"} <=> busy /\ ~tx_started
  /\ host_step \in Sending <=> busy /\ tx_started /\ awaiting_write_complete
  /\ host_step \in Waiting <=> AwaitingResponse
  /\ call \in {"read_part", "write_part"} <=> compound_deadline_active
  /\ call = "none" <=> host_step = "idle"

\* A blocked read wakes as soon as the earlier of the two deadlines has passed.
ReadWakesInTime ==
  host_step = "read" /\ (TransactionExpired \/ InterByteExpired)
    => DeadlineReached(read_deadline)

\* A read in progress sleeps to the deadline that is nearer in real time.
SleepsToNearer ==
  LET left == ResponseTimeout - DeadlineAge
      gap  == InterByteTimeout - rx_age
  IN host_step = "read" =>
       \/ /\ inter_byte_wakeup
          /\ inter_byte_deadline_active
          /\ read_deadline = inter_byte_deadline_ms
          /\ gap < left
       \/ /\ ~inter_byte_wakeup
          /\ read_deadline = response_deadline_ms
          /\ inter_byte_deadline_active => left <= gap

\* A call returns what the client reported, never the port's view of it: otherwise a
\* write whose outcome is unknown would look like a definite failure.  Only a port that
\* fails before transmission speaks for itself.
ReturnsTheVerdict ==
  [][result' # result /\ result' # NoCallback
       => \/ result' = completion'
          \/ host_step = "flush" /\ completion' = Definite("Cancelled")]_allVars

\* Once a call has its result, an open port is one that can carry another request: whatever left
\* the transport or the outcome in doubt closed it.  The exception is a timeout that
\* the start or the end of a transmission brought to light.
DoubtfulPortIsClosed ==
  host_step \in {"idle", "end"} /\ port /\ ~TimedOut(result)
    => /\ ~transport_reset_required
       /\ result.code \notin {"OperationOutcomeUnknown", "Transport"}

\* The inductive invariant behind the theorems of HostSyncProofs.  The runner neither
\* polls nor cancels while it sends, so no deadline is latched and no cancellation is
\* deferred: the client's reset requirement then belongs to finished requests only.
HostInvariant ==
  /\ HostTypeOK
  /\ RunnerFollowsClient
  /\ ~tx_timeout_latched /\ (busy => ~cancel_requested_during_tx)
  /\ SleepsToNearer
  /\ DoubtfulPortIsClosed

\* Every call returns, whatever the line does.
CallsReturn == []<>(host_step = "idle")

\* USAGE_GUIDE.md:134-136, "Every timeout sets requires_transport_reset() ...
\* HostSyncClient does this retirement itself and must be opened again": not so when
\* notify_tx_started or notify_tx_complete finds the deadline passed.
TimeoutClosesPort ==
  host_step = "idle" /\ TimedOut(result) => ~port
=============================================================================
