----------------------------- MODULE UartClient -----------------------------
(***************************************************************************)
(* UartClient (detail/uart_client.hpp) and Esp32UartClient (mcprotocol_    *)
(* serial_arduino_esp32.hpp): a non-blocking client that owns its UART and *)
(* drives a private MelsecSerialClient from update().  One call of update  *)
(* reads the clock several times, so it is a sequence of steps here and    *)
(* time may pass between any two of them.  The application's other calls   *)
(* come between updates: it is a single task, and what it calls from a     *)
(* completion callback is refused as busy.                                 *)
(*                                                                         *)
(* The UART driver is external: it accepts some of the bytes it is given,  *)
(* sends them on its own, fails, and may be uninstalled by other code.     *)
(***************************************************************************)
EXTENDS McClient

CONSTANT FrameSize   \* the bytes of a request frame, in units of a write

ASSUME UartAssumption ==
  /\ FrameSize \in Nat \ {0}
  /\ {"Transport", "Timeout", "Cancelled"} \subseteq TransportFailures

VARIABLES
  uart,         \* "closed", "open", or "lost" to other code while open_ is still set
  begun,        \* begun_: the facade has once been opened
  active,       \* active_: a request is under way
  tx_announced, \* tx_started_
  tx_finished,  \* tx_finished_
  tx_offset,    \* tx_offset_
  step,         \* what the current call of update() or cancel() does next
  wire_busy,    \* environment: the hardware still has bytes to send
  stale         \* history: the UART was open when a reset became required, and still is

uartVars == <<uart, begun, active, tx_announced, tx_finished, tx_offset, step, wire_busy,
              stale>>

UartSteps == {"idle", "poll", "deadline", "write", "drain", "sent", "receive", "repoll",
              "abort"}

UartInit ==
  /\ Init
  /\ uart = "closed"
  /\ begun = FALSE
  /\ active = FALSE
  /\ tx_announced = FALSE
  /\ tx_finished = FALSE
  /\ tx_offset = 0
  /\ step = "idle"
  /\ wire_busy = FALSE
  /\ stale = FALSE

Ready == uart = "open"

\* abort(): the pins are driven to rest, then the UART is closed.
AbortUart == uart' = "closed" /\ wire_busy' = FALSE /\ stale' = FALSE

KeepUart == UNCHANGED <<uart, wire_busy>>

\* A doubt about the transport outlives the request that raised it.
Remember == stale' = (stale \/ (Ready /\ transport_reset_required'))

txFlags == <<tx_announced, tx_finished, tx_offset>>

-----------------------------------------------------------------------------
(* The facade's calls between requests.                                    *)

Between == step = "idle" /\ ~active

\* Seeded defect: a configuration alone acknowledges a transport reset.
BugUartConfigure(selects_format2) ==
  /\ Between /\ Ready
  /\ Configure(selects_format2)
  /\ UNCHANGED uartVars

UartConfigure(selects_format2) ==
  /\ Between /\ Ready /\ ~transport_reset_required
  /\ Configure(selects_format2)
  /\ UNCHANGED uartVars

\* begin() opens a closed UART but is no way around recover().
Begin(selects_format2) ==
  /\ Between /\ uart = "closed" /\ ~transport_reset_required
  /\ Configure(selects_format2)
  /\ uart' = "open"
  /\ begun' = TRUE
  /\ UNCHANGED <<active, txFlags, step, wire_busy, stale>>

\* recover() closes the UART and opens it again, which may fail half way.
Recover(selects_format2) ==
  /\ Between /\ begun
  /\ \/ /\ Configure(selects_format2)
        /\ uart' = "open"
     \/ /\ Rejected
        /\ uart' = "closed"
  /\ wire_busy' = FALSE
  /\ stale' = FALSE
  /\ UNCHANGED <<begun, active, txFlags, step>>

End ==
  /\ Between
  /\ Rejected
  /\ AbortUart
  /\ UNCHANGED <<begun, active, txFlags, step>>

\* Seeded defect: the progress flag of the last request is not reset.
BugAsyncRequest(op) ==
  /\ Between /\ Ready
  /\ StartRequest(op)
  /\ active' = TRUE
  /\ tx_announced' = FALSE
  /\ tx_offset' = 0
  /\ UNCHANGED <<uart, begun, step, tx_finished, wire_busy, stale>>

\* admit() and async_*
AsyncRequest(op) ==
  /\ Between /\ Ready
  /\ StartRequest(op)
  /\ active' = TRUE
  /\ tx_announced' = FALSE
  /\ tx_finished' = FALSE
  /\ tx_offset' = 0
  /\ UNCHANGED <<uart, begun, step, wire_busy, stale>>

-----------------------------------------------------------------------------
(* update().                                                               *)

\* The callback ran: the request is over, and so is the call.
Completed ==
  /\ callback' # NoCallback
  /\ active' = FALSE
  /\ step' = "idle"

Proceed(next) ==
  /\ callback' = NoCallback
  /\ step' = next
  /\ UNCHANGED active

\* The core is not involved.
Aside(next) == Rejected /\ Proceed(next)

Update ==
  /\ step = "idle" /\ active
  /\ IF tx_announced THEN Aside("poll") ELSE TxStarts /\ Proceed("poll")
  /\ tx_announced' = TRUE
  /\ KeepUart
  /\ UNCHANGED <<begun, tx_finished, tx_offset, stale>>

\* poll(): the core completes the request, latches the deadline, or finds nothing.
PollCore(next) ==
  /\ \/ PollExpire /\ Completed
     \/ PollLatch /\ Proceed(next)
     \/ ~(tx_started /\ (TransactionExpired \/ InterByteExpired)) /\ Aside(next)
  /\ KeepUart
  /\ Remember
  /\ UNCHANGED <<begun, txFlags>>

PollFirst == step = "poll" /\ PollCore(IF tx_finished THEN "receive" ELSE "deadline")
PollLast == step = "repoll" /\ PollCore("idle")

\* Seeded defect: the request is given up while the hardware goes on sending.
BugAbortTx(code) ==
  /\ NotifyTxComplete(code) /\ Completed
  /\ tx_finished' = TRUE
  /\ KeepUart
  /\ Remember
  /\ UNCHANGED <<begun, tx_announced, tx_offset>>

\* The hardware stops before the core lets go of the line.
AbortTx(code) ==
  /\ AbortUart
  /\ NotifyTxComplete(code) /\ Completed
  /\ tx_finished' = TRUE
  /\ UNCHANGED <<begun, tx_announced, tx_offset>>

\* Seeded defect: only the core's deadline is looked at, which cannot end a transmission.
BugTxDeadline ==
  /\ step = "deadline" /\ Aside("write")
  /\ KeepUart
  /\ UNCHANGED <<begun, txFlags, stale>>

TxDeadline ==
  /\ step = "deadline"
  /\ IF TransactionExpired THEN AbortTx("Timeout")
     ELSE /\ Aside("write")
          /\ KeepUart
          /\ UNCHANGED <<begun, txFlags, stale>>

\* write_some takes what fits; without a driver it fails.
WriteSome ==
  /\ step = "write"
  /\ \/ /\ tx_offset < FrameSize
        /\ AbortTx("Transport")
     \/ \E sent \in 0 .. FrameSize - tx_offset :
          /\ Ready \/ tx_offset = FrameSize
          /\ tx_offset' = tx_offset + sent
          /\ wire_busy' = (wire_busy \/ sent > 0)
          /\ Aside(IF tx_offset' < FrameSize THEN "idle" ELSE "drain")
          /\ UNCHANGED <<uart, begun, tx_announced, tx_finished, stale>>

\* Seeded defect: a frame that the driver accepted is taken for sent.
BugDrain ==
  /\ step = "drain"
  /\ \/ AbortTx("Transport")
     \/ /\ Ready
        /\ Aside("sent")
        /\ tx_finished' = TRUE
        /\ KeepUart
        /\ UNCHANGED <<begun, tx_announced, tx_offset, stale>>

Drain ==
  /\ step = "drain"
  /\ \/ AbortTx("Transport")
     \/ /\ Ready
        /\ Aside(IF wire_busy THEN "idle" ELSE "sent")
        /\ tx_finished' = ~wire_busy
        /\ KeepUart
        /\ UNCHANGED <<begun, tx_announced, tx_offset, stale>>

NotifySent ==
  /\ step = "sent"
  /\ NotifyTxComplete("Ok")
  /\ Completed \/ Proceed("receive")
  /\ KeepUart
  /\ Remember
  /\ UNCHANGED <<begun, txFlags>>

Receive ==
  /\ step = "receive"
  /\ \/ NotifyRxFailure("Transport") /\ Completed
     \/ /\ Ready
        /\ \/ \E size \in 1 .. RxCapacity + 1 : OnRxBytes(size)
           \/ Rejected
        /\ Completed \/ Proceed("repoll")
  /\ KeepUart
  /\ Remember
  /\ UNCHANGED <<begun, txFlags>>

-----------------------------------------------------------------------------
(* cancel(), and the environment.                                          *)

CancelRequest ==
  /\ step = "idle" /\ active
  /\ Cancel
  /\ Completed \/ Proceed("abort")
  /\ KeepUart
  /\ Remember
  /\ UNCHANGED <<begun, txFlags>>

\* A cancelled transmission is aborted at once; the core then lets go.
CancelAborts == step = "abort" /\ AbortTx("Cancelled")

\* The hardware sends what it was given.
WireDrains ==
  /\ wire_busy
  /\ wire_busy' = FALSE
  /\ Rejected
  /\ UNCHANGED <<uart, begun, active, txFlags, step, stale>>

\* Other code uninstalls the UART driver.
DriverLost ==
  /\ uart = "open"
  /\ uart' = "lost"
  /\ Rejected
  /\ UNCHANGED <<begun, active, txFlags, step, wire_busy, stale>>

UartTick == Tick /\ UNCHANGED uartVars

UpdateStep ==
  \/ Update \/ PollFirst \/ TxDeadline \/ WriteSome \/ Drain \/ NotifySent \/ Receive
  \/ PollLast \/ CancelAborts

UartNext ==
  \/ \E f \in BOOLEAN : UartConfigure(f) \/ Begin(f) \/ Recover(f)
  \/ End
  \/ \E op \in Operations : AsyncRequest(op)
  \/ UpdateStep
  \/ CancelRequest
  \/ WireDrains
  \/ DriverLost
  \/ UartTick

uartAllVars == <<vars, uartVars>>

\* The application keeps calling update(), as wait() does; nothing is assumed of the
\* hardware or of the PLC.
UartSpec == UartInit /\ [][UartNext]_uartAllVars
UartFairSpec == UartSpec /\ WF_uartAllVars(UpdateStep) /\ WF_uartAllVars(UartTick)

-----------------------------------------------------------------------------
(* Properties.                                                             *)

\* Every variable of the facade keeps its range.
UartTypeOK ==
  /\ uart \in {"closed", "open", "lost"}
  /\ begun \in BOOLEAN
  /\ active \in BOOLEAN
  /\ tx_announced \in BOOLEAN
  /\ tx_finished \in BOOLEAN
  /\ tx_offset \in 0 .. FrameSize
  /\ step \in UartSteps
  /\ wire_busy \in BOOLEAN
  /\ stale \in BOOLEAN

\* The facade's own flags never drift from the core's, although each side keeps its own
\* and either may end a request.
FacadeFollowsCore ==
  /\ active <=> busy
  /\ active => /\ tx_announced <=> tx_started
               /\ tx_finished <=> (AwaitingResponse \/ step = "sent")
  /\ step # "idle" => active /\ tx_announced

\* The hardware sends only while the core's transmission owns the line: no deadline,
\* failure or cancellation completes a request whose bytes are still being driven onto
\* a shared bus.
WireIsOwned == wire_busy => busy /\ tx_started /\ awaiting_write_complete

\* A response is awaited only for a frame that was sent to its last byte.
AwaitedFramesWereSent == AwaitingResponse => tx_offset = FrameSize /\ ~wire_busy

\* A UART on which a request was left in doubt carries no other one until it was
\* closed: neither configure() nor begin() acknowledges the reset in its place.
DoubtfulUartIsNotReused == stale => transport_reset_required

\* The inductive invariant behind the theorems of UartClientProofs: where a call of
\* update() stands, and what that says of the core, the frame and the hardware.
UartInvariant ==
  /\ UartTypeOK
  /\ FacadeFollowsCore
  /\ WireIsOwned
  /\ AwaitedFramesWereSent
  /\ DoubtfulUartIsNotReused
  /\ ~compound_deadline_active
  /\ step \in {"deadline", "write", "drain", "sent", "abort"}
       => tx_started /\ awaiting_write_complete
  /\ step \in {"receive", "repoll"} => AwaitingResponse
  /\ step \in {"drain", "sent"} => tx_offset = FrameSize
  /\ step = "sent" => ~wire_busy

\* Every request ends while update() is called, though the driver never sends a byte
\* and the line is noisy for ever.
UartRequestsEnd == []<>~active
=============================================================================
