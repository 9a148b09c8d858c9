------------------------------ MODULE McClient ------------------------------
(***************************************************************************)
(* MelsecSerialClient (src/client.cpp): the asynchronous request state     *)
(* machine of the MC-protocol client.  The application owns the UART and   *)
(* the scheduler: it starts a request (async_...), reports when it is sent *)
(* from first to last byte (notify_tx_started, notify_tx_complete), gives  *)
(* received bytes (on_rx_bytes), reports receive failures, polls for       *)
(* deadlines and may cancel.  The calls may come in any order; each action *)
(* below is one public operation with its early returns.                   *)
(*                                                                         *)
(* A call that the client rejects, or that returns early, changes nothing: *)
(* the action Rejected.  Encoding and decoding are abstracted to the       *)
(* verdict they hand to this state machine.                                *)
(***************************************************************************)
EXTENDS Integers

CONSTANTS
  HalfRange,          \* half the range of the millisecond counter: 2^31
  ResponseTimeout,    \* TimeoutConfig::response_timeout_ms
  InterByteTimeout,   \* TimeoutConfig::inter_byte_timeout_ms
  BlockModulus,       \* number of Format2 block numbers: 2^8
  RxCapacity,         \* size of the receive frame buffer rx_frame_
  Operations,         \* the operation kinds the application requests
  TransportFailures   \* the status codes a transport failure may carry

Reads == {"BatchReadWords", "BatchReadBits", "ReadExtendedFileRegisterWords",
          "DirectReadExtendedFileRegisterWords", "ExtendedBatchReadWords",
          "RandomRead", "MultiBlockRead", "ReadHostBuffer", "ReadModuleBuffer",
          "ReadCpuModel", "ReadUserFrame", "Loopback"}

\* Monitor registrations and the reads that depend on them, one slot each.
Registrations == {"RegisterMonitor", "RegisterExtendedFileRegisterMonitor"}
MonitorReads  == {"ReadMonitor", "ReadExtendedFileRegisterMonitor"}

RegistrationFor(op) ==
  IF op = "ReadMonitor" THEN "RegisterMonitor"
  ELSE "RegisterExtendedFileRegisterMonitor"

\* Commands whose completion is the end of their transmission.
SendOnly == {"RemoteReset", "ControlGlobalSignal", "InitializeTransmissionSequence"}

Writes == {"BatchWriteWords", "BatchWriteBits", "WriteExtendedFileRegisterWords",
           "DirectWriteExtendedFileRegisterWords", "ExtendedBatchWriteWords",
           "RandomWriteWords", "RandomWriteExtendedFileRegisterWords",
           "RandomWriteBits", "MultiBlockWrite", "WriteHostBuffer",
           "WriteModuleBuffer", "RemoteRun", "RemoteStop", "RemotePause",
           "RemoteLatchClear", "UnlockRemotePassword", "LockRemotePassword",
           "ClearErrorInformation", "WriteUserFrame", "DeleteUserFrame",
           "SwitchSerialModuleMode"}

\* Seeded defect: monitor registrations are missing from the list.
BugOutcomeCanBeUnknown == Writes \cup SendOnly

\* active_operation_outcome_can_be_unknown: the request may change the PLC.
OutcomeCanBeUnknown == Writes \cup Registrations \cup SendOnly

OperationKind == Reads \cup MonitorReads \cup Writes \cup Registrations \cup SendOnly

StatusCode == {"Ok", "InvalidArgument", "Timeout", "Busy", "NotConnected", "Closed",
               "Transport", "Framing", "SumCheckMismatch", "Parse",
               "UnsupportedConfiguration", "PlcError", "BufferTooSmall",
               "Cancelled", "OperationOutcomeUnknown", "OutOfMemory"}

\* The errors of a candidate frame that cannot be decoded (DecodeResult::error).
DecodeErrors == {"Framing", "SumCheckMismatch", "Parse"}

ClockModulus == 2 * HalfRange
Clock == 0 .. ClockModulus - 1

ASSUME ClockAssumption ==
  /\ HalfRange \in Nat \ {0}
  /\ ResponseTimeout \in 1 .. HalfRange - 1     \* is_wrap_safe_timeout_ms
  /\ InterByteTimeout \in 1 .. HalfRange - 1

ASSUME ClientAssumption ==
  /\ BlockModulus \in Nat \ {0}
  /\ RxCapacity \in Nat \ {0}
  /\ Operations \subseteq OperationKind
  /\ TransportFailures \subseteq    \* failures of its own, not verdicts on the request
       StatusCode \ {"Ok", "PlcError", "OperationOutcomeUnknown"}

VARIABLES
  configured,                  \* configure() has succeeded
  format2,                     \* the configuration selects ASCII Format2 framing
  rs485_hooks,                 \* both RS-485 direction hooks are installed
  transport_reset_required,
  next_format2_block_number,
  active_format2_block_number,
  active_format2_block_number_valid,
  registered,                  \* monitor_registered_, one flag per registration kind
  compound_deadline_active,
  compound_deadline_ms,
  busy,
  awaiting_write_complete,
  tx_started,
  tx_timeout_latched,
  cancel_requested_during_tx,
  operation,
  rx_frame_size,
  response_deadline_ms,
  inter_byte_deadline_active,
  inter_byte_deadline_ms,
  now,                         \* the application's millisecond counter, modulo 2^32
  driver_on,                   \* environment: the RS-485 driver enabled by on_tx_begin
  callback,                    \* the status this step handed to the completion callback
  tx_age,                      \* history: time since transmission started
  rx_age,                      \* history: time since a response candidate last grew
  compound_age                 \* history: time since begin_compound_deadline

configVars  == <<configured, format2>>
sessionVars == <<next_format2_block_number, active_format2_block_number,
                 active_format2_block_number_valid>>
compoundVars == <<compound_deadline_active, compound_deadline_ms, compound_age>>
txVars == <<busy, awaiting_write_complete, tx_started, tx_timeout_latched,
            cancel_requested_during_tx, operation, response_deadline_ms, tx_age>>
rxVars == <<rx_frame_size, inter_byte_deadline_active, inter_byte_deadline_ms, rx_age>>
stateVars == <<configVars, rs485_hooks, transport_reset_required, sessionVars, registered,
               compoundVars, txVars, rxVars, now, driver_on>>
vars == <<stateVars, callback>>

-----------------------------------------------------------------------------
(* Status values.                                                          *)

Status == [code : StatusCode, cause : StatusCode]
NoCallback == [code |-> "none", cause |-> "none"]

Definite(code) == [code |-> code, cause |-> "Ok"]
OutcomeUnknown(cause) == [code |-> "OperationOutcomeUnknown", cause |-> cause]

\* Seeded defect: a cancellation is taken for a definite failure.
BugUnconfirmed(code) ==
  IF operation \in OutcomeCanBeUnknown /\ code # "Cancelled" THEN OutcomeUnknown(code)
  ELSE Definite(code)

\* active_timeout_status, active_transport_failure_status and
\* active_unconfirmed_failure_status for a failure that is not a PLC error.
Unconfirmed(code) ==
  IF operation \in OutcomeCanBeUnknown THEN OutcomeUnknown(code) ELSE Definite(code)

-----------------------------------------------------------------------------
(* The clock.                                                              *)

\* Seeded defects: the deadline compared without wrap-around, or taken as never reached.
BugDeadlineCompared(deadline) == now >= deadline
BugDeadlineIgnored(deadline) == FALSE

\* static_cast<int32_t>(now_ms - deadline_ms) >= 0
DeadlineReached(deadline) == (now - deadline) % ClockModulus < HalfRange

After(timeout) == (now + timeout) % ClockModulus

\* Seeded defect: only the compound deadline is absolute; bytes that arrive extend the rest.
BugTransactionExpired ==
  DeadlineReached(response_deadline_ms) /\ ~inter_byte_deadline_active

TransactionExpired == DeadlineReached(response_deadline_ms)
InterByteExpired == inter_byte_deadline_active /\ DeadlineReached(inter_byte_deadline_ms)

\* Seeded defect: a late answer is never thought of.
BugLateAnswerIsAmbiguous == FALSE

\* Without a block number the next request could not tell a late answer from its own.
LateAnswerIsAmbiguous == ~active_format2_block_number_valid

-----------------------------------------------------------------------------

Init ==
  /\ configured = FALSE
  /\ format2 = FALSE
  /\ rs485_hooks = FALSE
  /\ transport_reset_required = FALSE
  /\ next_format2_block_number = 0
  /\ active_format2_block_number = 0
  /\ active_format2_block_number_valid = FALSE
  /\ registered = [r \in Registrations |-> FALSE]
  /\ compound_deadline_active = FALSE
  /\ compound_deadline_ms = 0
  /\ busy = FALSE
  /\ awaiting_write_complete = FALSE
  /\ tx_started = FALSE
  /\ tx_timeout_latched = FALSE
  /\ cancel_requested_during_tx = FALSE
  /\ operation = "None"
  /\ rx_frame_size = 0
  /\ response_deadline_ms = 0
  /\ inter_byte_deadline_active = FALSE
  /\ inter_byte_deadline_ms = 0
  /\ now \in Clock
  /\ driver_on = FALSE
  /\ callback = NoCallback
  /\ tx_age = 0
  /\ rx_age = 0
  /\ compound_age = 0

-----------------------------------------------------------------------------
(* Session operations, rejected while a request is in flight.              *)

\* Seeded defect: a new configuration restarts the block numbers.
BugConfigure(selects_format2) ==
  /\ ~busy
  /\ configured' = TRUE
  /\ format2' = selects_format2
  /\ transport_reset_required' = FALSE
  /\ next_format2_block_number' = 0
  /\ active_format2_block_number' = 0
  /\ active_format2_block_number_valid' = FALSE
  /\ registered' = [r \in Registrations |-> FALSE]
  /\ callback' = NoCallback
  /\ UNCHANGED <<rs485_hooks, compoundVars, txVars, rxVars, now, driver_on>>

Configure(selects_format2) ==
  /\ ~busy
  /\ configured' = TRUE
  /\ format2' = selects_format2
  /\ transport_reset_required' = FALSE
  /\ active_format2_block_number' = 0
  /\ active_format2_block_number_valid' = FALSE
  /\ registered' = [r \in Registrations |-> FALSE]
  /\ callback' = NoCallback
  /\ UNCHANGED <<rs485_hooks, next_format2_block_number, compoundVars, txVars, rxVars,
                 now, driver_on>>

\* Seeded defect: the hooks may be replaced while a request is in flight.
BugSetRs485Hooks(installed) ==
  /\ rs485_hooks' = installed
  /\ callback' = NoCallback
  /\ UNCHANGED <<configVars, transport_reset_required, sessionVars, registered,
                 compoundVars, txVars, rxVars, now, driver_on>>

\* Both hooks or none: a lone hook is rejected.
SetRs485Hooks(installed) ==
  /\ ~busy
  /\ rs485_hooks' = installed
  /\ callback' = NoCallback
  /\ UNCHANGED <<configVars, transport_reset_required, sessionVars, registered,
                 compoundVars, txVars, rxVars, now, driver_on>>

\* validate_request_admission
Admissible == configured /\ ~busy /\ ~transport_reset_required

BeginCompoundDeadline ==
  /\ Admissible
  /\ ~compound_deadline_active
  /\ compound_deadline_active' = TRUE
  /\ compound_deadline_ms' = After(ResponseTimeout)
  /\ compound_age' = 0
  /\ callback' = NoCallback
  /\ UNCHANGED <<configVars, rs485_hooks, transport_reset_required, sessionVars,
                 registered, txVars, rxVars, now, driver_on>>

\* Its callers end the compound operation only between requests.
EndCompoundDeadline ==
  /\ compound_deadline_active
  /\ ~busy
  /\ compound_deadline_active' = FALSE
  /\ compound_deadline_ms' = 0
  /\ compound_age' = 0
  /\ callback' = NoCallback
  /\ UNCHANGED <<configVars, rs485_hooks, transport_reset_required, sessionVars,
                 registered, txVars, rxVars, now, driver_on>>

-----------------------------------------------------------------------------
(* The request lifecycle.                                                  *)

\* Seeded defect: a registration stays valid while it is replaced.
BugStillRegistered(op) == registered

NextBlock == (next_format2_block_number + 1) % BlockModulus

\* Starting a registration invalidates the one it replaces.
StillRegistered(op) == [r \in Registrations |-> registered[r] /\ r # op]

\* async_*: admission, then start_request.
StartRequest(op) ==
  /\ Admissible
  /\ op \in MonitorReads => registered[RegistrationFor(op)]
  /\ active_format2_block_number_valid' = format2
  /\ IF format2
     THEN /\ active_format2_block_number' = next_format2_block_number
          /\ next_format2_block_number' = NextBlock
     ELSE UNCHANGED <<active_format2_block_number, next_format2_block_number>>
  /\ busy' = TRUE
  /\ awaiting_write_complete' = TRUE
  /\ tx_started' = FALSE
  /\ tx_timeout_latched' = FALSE
  /\ cancel_requested_during_tx' = FALSE
  /\ operation' = op
  /\ rx_frame_size' = 0
  /\ response_deadline_ms' = 0
  /\ inter_byte_deadline_active' = FALSE
  /\ inter_byte_deadline_ms' = 0
  /\ tx_age' = 0
  /\ rx_age' = 0
  /\ registered' = StillRegistered(op)
  /\ callback' = NoCallback
  /\ UNCHANGED <<configVars, rs485_hooks, transport_reset_required, compoundVars, now,
                 driver_on>>

\* complete(): every per-request field is reset, then the callback runs.
Complete(status) ==
  /\ busy' = FALSE
  /\ awaiting_write_complete' = FALSE
  /\ tx_started' = FALSE
  /\ tx_timeout_latched' = FALSE
  /\ cancel_requested_during_tx' = FALSE
  /\ operation' = "None"
  /\ rx_frame_size' = 0
  /\ response_deadline_ms' = 0
  /\ inter_byte_deadline_active' = FALSE
  /\ inter_byte_deadline_ms' = 0
  /\ tx_age' = 0
  /\ rx_age' = 0
  /\ callback' = status

RequestFrame == UNCHANGED <<configVars, rs485_hooks, sessionVars, compoundVars, now>>

CompoundExpired == compound_deadline_active /\ DeadlineReached(compound_deadline_ms)

TxStarts ==
  /\ busy /\ awaiting_write_complete /\ ~tx_started
  /\ ~CompoundExpired
  /\ tx_started' = TRUE
  /\ response_deadline_ms' = IF compound_deadline_active THEN compound_deadline_ms
                             ELSE After(ResponseTimeout)
  /\ tx_age' = 0
  /\ driver_on' = (rs485_hooks \/ driver_on)
  /\ callback' = NoCallback
  /\ RequestFrame
  /\ UNCHANGED <<transport_reset_required, registered, busy, awaiting_write_complete,
                 tx_timeout_latched, cancel_requested_during_tx, operation, rxVars>>

\* The compound operation ran out of time before this request could be sent.
TxNeverStarts ==
  /\ busy /\ awaiting_write_complete /\ ~tx_started
  /\ CompoundExpired
  /\ Complete(Definite("Timeout"))
  /\ RequestFrame
  /\ UNCHANGED <<transport_reset_required, registered, driver_on>>

NotifyTxStarted == TxStarts \/ TxNeverStarts

\* The transport reports a failure although transmission never started.
TxAbandoned(code) ==
  /\ busy /\ awaiting_write_complete /\ ~tx_started
  /\ Complete(Definite(code))
  /\ RequestFrame
  /\ UNCHANGED <<transport_reset_required, registered, driver_on>>

\* Seeded defects: the transport's own status, or the lack of an answer, is looked at
\* before the deadline.
BugTransportFirst(code) ==
  IF code # "Ok" THEN "failed"
  ELSE IF tx_timeout_latched \/ TransactionExpired THEN "expired"
  ELSE IF operation \in SendOnly THEN "sent"
  ELSE IF cancel_requested_during_tx THEN "cancelled"
  ELSE "awaited"
BugCancelFirst(code) ==
  IF cancel_requested_during_tx THEN "cancelled"
  ELSE IF tx_timeout_latched \/ TransactionExpired THEN "expired"
  ELSE IF code # "Ok" THEN "failed"
  ELSE IF operation \in SendOnly THEN "sent"
  ELSE "awaited"

\* What ends a transmission, most urgent first: the latched or reached deadline, the
\* transport's failure, the commands that have no answer, a deferred cancellation.
TxVerdict(code) ==
  IF tx_timeout_latched \/ TransactionExpired THEN "expired"
  ELSE IF code # "Ok" THEN "failed"
  ELSE IF operation \in SendOnly THEN "sent"
  ELSE IF cancel_requested_during_tx THEN "cancelled"
  ELSE "awaited"

\* Transmission ended, with status code: the hook releases the driver before anything
\* else is decided.
NotifyTxComplete(code) ==
  /\ busy /\ awaiting_write_complete /\ tx_started
  /\ driver_on' = (driver_on /\ ~rs485_hooks)
  /\ RequestFrame
  /\ UNCHANGED registered
  /\ \/ /\ TxVerdict(code) = "expired"
        /\ transport_reset_required' = TRUE
        /\ Complete(Unconfirmed("Timeout"))
     \/ /\ TxVerdict(code) = "failed"
        /\ transport_reset_required' = TRUE
        /\ Complete(Unconfirmed(code))
     \/ /\ TxVerdict(code) = "sent"
        /\ Complete(Definite("Ok"))
        /\ UNCHANGED transport_reset_required
     \/ /\ TxVerdict(code) = "cancelled"
        /\ transport_reset_required' = LateAnswerIsAmbiguous
        /\ Complete(Unconfirmed("Cancelled"))
     \/ /\ TxVerdict(code) = "awaited"
        /\ awaiting_write_complete' = FALSE
        /\ inter_byte_deadline_active' = FALSE
        /\ inter_byte_deadline_ms' = 0
        /\ rx_age' = 0
        /\ callback' = NoCallback
        /\ UNCHANGED <<transport_reset_required, busy, tx_started, tx_timeout_latched,
                       cancel_requested_during_tx, operation, response_deadline_ms,
                       tx_age, rx_frame_size>>

-----------------------------------------------------------------------------
(* Reception.  Bytes that arrive outside a response wait are ignored.      *)

AwaitingResponse == busy /\ ~awaiting_write_complete

RxFrame == /\ RequestFrame
           /\ UNCHANGED driver_on

\* Bytes arrive after a deadline: the deadline wins over whatever they carry.
RxExpired ==
  /\ AwaitingResponse
  /\ TransactionExpired \/ InterByteExpired
  /\ transport_reset_required' = TRUE
  /\ Complete(Unconfirmed("Timeout"))
  /\ RxFrame
  /\ UNCHANGED registered

RxOverflow(size) ==
  /\ AwaitingResponse /\ ~TransactionExpired /\ ~InterByteExpired
  /\ rx_frame_size + size > RxCapacity
  /\ transport_reset_required' = LateAnswerIsAmbiguous
  /\ Complete(Unconfirmed("BufferTooSmall"))
  /\ RxFrame
  /\ UNCHANGED registered

RxAccepted(size) ==
  /\ AwaitingResponse /\ ~TransactionExpired /\ ~InterByteExpired
  /\ rx_frame_size + size <= RxCapacity

\* Noise and foreign frames are discarded; a possible frame prefix of kept bytes stays.
RxRetain(size, kept) ==
  /\ RxAccepted(size)
  /\ kept <= rx_frame_size + size
  /\ rx_frame_size' = kept
  /\ inter_byte_deadline_active' = (kept > 0)
  /\ inter_byte_deadline_ms' = IF kept > 0 THEN After(InterByteTimeout) ELSE 0
  /\ rx_age' = 0
  /\ callback' = NoCallback
  /\ RxFrame
  /\ UNCHANGED <<transport_reset_required, registered, txVars>>

RxDecodeError(size, error) ==
  /\ RxAccepted(size)
  /\ transport_reset_required' = LateAnswerIsAmbiguous
  /\ Complete(Unconfirmed(error))
  /\ RxFrame
  /\ UNCHANGED registered

RxPlcError(size) ==
  /\ RxAccepted(size)
  /\ Complete(Definite("PlcError"))
  /\ RxFrame
  /\ UNCHANGED <<transport_reset_required, registered>>

\* handle_response accepts the data: a registration takes effect.
RxSuccess(size) ==
  /\ RxAccepted(size)
  /\ registered' = [r \in Registrations |-> registered[r] \/ r = operation]
  /\ Complete(Definite("Ok"))
  /\ RxFrame
  /\ UNCHANGED transport_reset_required

\* handle_response rejects the data of a complete frame.
RxParseFailure(size) ==
  /\ RxAccepted(size)
  /\ transport_reset_required' =
       IF operation \in OutcomeCanBeUnknown THEN LateAnswerIsAmbiguous
       ELSE transport_reset_required
  /\ Complete(Unconfirmed("Parse"))
  /\ RxFrame
  /\ UNCHANGED registered

OnRxBytes(size) ==
  \/ RxExpired
  \/ RxOverflow(size)
  \/ \E kept \in 0 .. RxCapacity : RxRetain(size, kept)
  \/ \E error \in DecodeErrors : RxDecodeError(size, error)
  \/ RxPlcError(size)
  \/ RxSuccess(size)
  \/ RxParseFailure(size)

NotifyRxFailure(code) ==
  /\ busy /\ ~awaiting_write_complete /\ tx_started
  /\ transport_reset_required' = TRUE
  /\ Complete(Unconfirmed(code))
  /\ RxFrame
  /\ UNCHANGED registered

-----------------------------------------------------------------------------
(* Deadlines and cancellation.                                             *)

\* While transmission owns the line a reached deadline is only latched.
PollLatch ==
  /\ busy /\ tx_started /\ awaiting_write_complete
  /\ TransactionExpired
  /\ transport_reset_required' = TRUE
  /\ tx_timeout_latched' = TRUE
  /\ callback' = NoCallback
  /\ RxFrame
  /\ UNCHANGED <<registered, busy, awaiting_write_complete, tx_started,
                 cancel_requested_during_tx, operation, response_deadline_ms, tx_age,
                 rxVars>>

PollExpire ==
  /\ busy /\ tx_started /\ ~awaiting_write_complete
  /\ TransactionExpired \/ InterByteExpired
  /\ transport_reset_required' = TRUE
  /\ Complete(Unconfirmed("Timeout"))
  /\ RxFrame
  /\ UNCHANGED registered

Poll == PollLatch \/ PollExpire

Cancel ==
  /\ busy
  /\ RxFrame
  /\ UNCHANGED registered
  /\ \/ /\ awaiting_write_complete /\ ~tx_started
        /\ Complete(Definite("Cancelled"))
        /\ UNCHANGED transport_reset_required
     \/ /\ awaiting_write_complete /\ tx_started
        /\ cancel_requested_during_tx' = TRUE
        /\ callback' = NoCallback
        /\ UNCHANGED <<transport_reset_required, busy, awaiting_write_complete, tx_started,
                       tx_timeout_latched, operation, response_deadline_ms, tx_age, rxVars>>
     \/ /\ ~awaiting_write_complete
        /\ transport_reset_required' = LateAnswerIsAmbiguous
        /\ Complete(Unconfirmed("Cancelled"))

-----------------------------------------------------------------------------
(* Time passes.  The application services the client before the signed     *)
(* difference of a deadline can wrap: no transmission, response wait or    *)
(* compound operation is left alone for half the counter's range.          *)

Serviced ==
  /\ tx_started => tx_age < HalfRange
  /\ compound_deadline_active => compound_age < HalfRange

Tick ==
  /\ Serviced
  /\ now' = After(1)
  /\ tx_age' = IF tx_started THEN tx_age + 1 ELSE 0
  /\ rx_age' = IF inter_byte_deadline_active THEN rx_age + 1 ELSE 0
  /\ compound_age' = IF compound_deadline_active THEN compound_age + 1 ELSE 0
  /\ callback' = NoCallback
  /\ UNCHANGED <<configVars, rs485_hooks, transport_reset_required, sessionVars,
                 registered, compound_deadline_active, compound_deadline_ms,
                 busy, awaiting_write_complete, tx_started, tx_timeout_latched,
                 cancel_requested_during_tx, operation, response_deadline_ms,
                 rx_frame_size, inter_byte_deadline_active, inter_byte_deadline_ms,
                 driver_on>>

\* A rejected call, or one that finds nothing to do, at any time.
Rejected ==
  /\ callback' = NoCallback
  /\ UNCHANGED stateVars

-----------------------------------------------------------------------------

Next ==
  \/ \E f \in BOOLEAN : Configure(f)
  \/ \E h \in BOOLEAN : SetRs485Hooks(h)
  \/ BeginCompoundDeadline
  \/ EndCompoundDeadline
  \/ \E op \in Operations : StartRequest(op)
  \/ NotifyTxStarted
  \/ \E code \in TransportFailures : TxAbandoned(code)
  \/ \E code \in TransportFailures \cup {"Ok"} : NotifyTxComplete(code)
  \/ \E size \in 1 .. RxCapacity + 1 : OnRxBytes(size)
  \/ \E code \in TransportFailures : NotifyRxFailure(code)
  \/ Poll
  \/ Cancel
  \/ Tick
  \/ Rejected

\* The duties of the application: start and finish a transmission, poll, and a clock.
Fairness ==
  /\ WF_vars(Tick)
  /\ WF_vars(NotifyTxStarted)
  /\ WF_vars(\E code \in TransportFailures \cup {"Ok"} : NotifyTxComplete(code))
  /\ WF_vars(Poll)

Spec == Init /\ [][Next]_vars
FairSpec == Spec /\ Fairness

-----------------------------------------------------------------------------
(* Properties.                                                             *)

\* Every variable keeps the range the program gives it.
TypeOK ==
  /\ configured \in BOOLEAN
  /\ format2 \in BOOLEAN
  /\ rs485_hooks \in BOOLEAN
  /\ transport_reset_required \in BOOLEAN
  /\ next_format2_block_number \in 0 .. BlockModulus - 1
  /\ active_format2_block_number \in 0 .. BlockModulus - 1
  /\ active_format2_block_number_valid \in BOOLEAN
  /\ registered \in [Registrations -> BOOLEAN]
  /\ compound_deadline_active \in BOOLEAN
  /\ compound_deadline_ms \in Clock
  /\ busy \in BOOLEAN
  /\ awaiting_write_complete \in BOOLEAN
  /\ tx_started \in BOOLEAN
  /\ tx_timeout_latched \in BOOLEAN
  /\ cancel_requested_during_tx \in BOOLEAN
  /\ operation \in OperationKind \cup {"None"}
  /\ rx_frame_size \in 0 .. RxCapacity
  /\ response_deadline_ms \in Clock
  /\ inter_byte_deadline_active \in BOOLEAN
  /\ inter_byte_deadline_ms \in Clock
  /\ now \in Clock
  /\ driver_on \in BOOLEAN
  /\ callback \in Status \cup {NoCallback}
  /\ tx_age \in 0 .. HalfRange
  /\ rx_age \in Nat
  /\ compound_age \in 0 .. HalfRange

\* The RS-485 driver is enabled exactly while a transmission owns the line: it is
\* released before the completion callback runs, whatever order of deadline, abort,
\* failure and cancellation ended the transmission, and never left on afterwards.
DriverOwnership ==
  driver_on <=> (rs485_hooks /\ busy /\ awaiting_write_complete /\ tx_started)

\* A request carries the reset requirement only as a latched deadline of its own
\* transmission.  The assignments of the requirement from "not Format2" (on_rx_bytes,
\* cancel, notify_tx_complete) would otherwise erase it.
ResetWhileBusyIsLatched ==
  busy /\ transport_reset_required
    => awaiting_write_complete /\ tx_started /\ tx_timeout_latched

\* Received bytes are retained exactly while the inter-byte deadline watches them, and
\* only by a request that waits for its response.
RetainedBytesAreWatched ==
  /\ rx_frame_size > 0 <=> inter_byte_deadline_active
  /\ inter_byte_deadline_active => AwaitingResponse /\ tx_started

\* What a request in flight looks like: it is queued, being sent, or awaiting its answer.
RequestShape ==
  /\ ~busy => ~awaiting_write_complete /\ ~tx_started /\ operation = "None"
  /\ busy => operation \in OperationKind
  /\ busy /\ ~tx_started => awaiting_write_complete
  /\ tx_timeout_latched => /\ busy /\ awaiting_write_complete /\ tx_started
                           /\ transport_reset_required

\* The deadline lies timeout - age ahead of now, counted around the clock.
Tracks(deadline, age, timeout) ==
  (now - deadline) - (age - timeout) \in {-ClockModulus, 0, ClockModulus}

\* The age of the deadline the active request runs under.
DeadlineAge == IF compound_deadline_active THEN compound_age ELSE tx_age

\* Every deadline measures real time from the event that set it: the response deadline
\* from the start of the transmission or of the compound operation, the inter-byte
\* deadline from the last growth of a retained candidate.  A latched one has passed.
DeadlinesTrackTime ==
  /\ compound_deadline_active
       => Tracks(compound_deadline_ms, compound_age, ResponseTimeout)
  /\ tx_started
       => /\ compound_deadline_active => response_deadline_ms = compound_deadline_ms
          /\ ~compound_deadline_active
               => Tracks(response_deadline_ms, tx_age, ResponseTimeout)
  /\ inter_byte_deadline_active
       => /\ Tracks(inter_byte_deadline_ms, rx_age, InterByteTimeout)
          /\ rx_age <= tx_age
  /\ tx_timeout_latched => DeadlineAge >= ResponseTimeout

\* The inductive invariant behind the theorems of McClientProofs: it is what every
\* operation needs of the state it finds.
InductiveInvariant ==
  /\ TypeOK
  /\ RequestShape
  /\ DriverOwnership
  /\ ResetWhileBusyIsLatched
  /\ RetainedBytesAreWatched
  /\ DeadlinesTrackTime

\* No step of a request, and no completion, clears the reset requirement: only
\* configure() does, between requests.
ResetOnlyByConfigure ==
  [][transport_reset_required /\ ~transport_reset_required'
       => ~busy /\ ~busy' /\ callback' = NoCallback /\ configured']_vars

StateChanging == OperationKind \ (Reads \cup MonitorReads)
MayHaveChangedPlc == tx_started /\ operation \in StateChanging

\* Once its transmission started, a request that can change the PLC ends confirmed,
\* rejected or unknown; before, and for every read, an outcome is never unknown; and
\* nothing succeeds without having been transmitted.
HonestOutcome ==
  [][callback' # NoCallback =>
       /\ MayHaveChangedPlc
            => callback'.code \in {"Ok", "PlcError", "OperationOutcomeUnknown"}
       /\ ~MayHaveChangedPlc => callback'.code # "OperationOutcomeUnknown"
       /\ ~tx_started => callback'.code \notin {"Ok", "PlcError"}]_vars

TimedOut(status) == "Timeout" \in {status.code, status.cause}

\* A deadline latched during transmission decides the result, whatever the transport,
\* the application or the bytes say later.
LatchedTimeoutWins ==
  [][tx_timeout_latched /\ callback' # NoCallback
       => TimedOut(callback') /\ transport_reset_required']_vars

\* A request that times out after its transmission started retires the transport,
\* with Format2 framing too.
TimeoutRetiresTransport ==
  [][TimedOut(callback') /\ tx_started => transport_reset_required']_vars

\* Without block numbers a late answer would be taken for the next request's.  So
\* unless the answer itself arrived (accepted, rejected, or complete with data that a
\* read could not use), the transport is retired.
Answered(status) == status.code \in {"Ok", "PlcError"} \/ status = Definite("Parse")

UnansweredRetiresTransport ==
  [][callback' # NoCallback /\ ~Answered(callback')
       => transport_reset_required' \/ active_format2_block_number_valid
            \/ ~tx_started]_vars

\* An answer is accepted, and a send-only command succeeds, only before the deadlines
\* in real time, although the deadlines are compared on a wrapping counter.
AnsweredInTime ==
  [][callback'.code \in {"Ok", "PlcError"}
       => /\ DeadlineAge < ResponseTimeout
          /\ inter_byte_deadline_active => rx_age < InterByteTimeout]_vars

\* No request times out early: the full response timeout has passed since its
\* transmission (or its compound operation) began, or the inter-byte timeout since a
\* retained candidate last grew.  Bytes never restart the former.  (A transport may
\* report a timeout of its own at any time.)
NoEarlyTimeout ==
  [][TimedOut(callback') /\ "Timeout" \notin TransportFailures
       => \/ DeadlineAge >= ResponseTimeout
          \/ inter_byte_deadline_active /\ rx_age >= InterByteTimeout]_vars

\* Every request ends, even if the line delivers noise for ever, provided the
\* application starts and finishes transmissions and polls.
RequestsEnd == []<>~busy

RequestPhase ==
  IF ~busy THEN "idle"
  ELSE IF ~tx_started THEN "queued"
  ELSE IF awaiting_write_complete THEN "sending" ELSE "sent"

OutcomeOf(status) ==
  IF status = NoCallback THEN "none"
  ELSE IF status.code = "Ok" THEN "ok"
  ELSE IF status.code = "PlcError" THEN "rejected"
  ELSE IF status.code = "OperationOutcomeUnknown" THEN "unknown"
  ELSE "failed"

\* The abstract lifecycle of a request, as the client's variables show it.
Lifecycle == INSTANCE RequestLifecycle WITH
  phase <- RequestPhase,
  changing <- operation \in StateChanging,
  retired <- transport_reset_required,
  outcome <- OutcomeOf(callback)

\* Each request is queued, sent and awaited at most once, ends exactly once, and ends
\* with no more than the client can know (RequestLifecycle).
ImplementsLifecycle == Lifecycle!Spec

=============================================================================
