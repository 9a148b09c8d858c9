------------------------- MODULE FrameTransmission -------------------------
(***************************************************************************)
(* What a deadline-bounded serial port promises to the request runner      *)
(* (mcprotocol/serial/host_serial.hpp): a frame that was sent with success *)
(* has left byte by byte, once and in order, with nothing of an earlier    *)
(* frame before it; a call reports Timeout only when its deadline has      *)
(* passed; and after a transmission that did not succeed the port carries  *)
(* nothing until it has been opened again.                                 *)
(***************************************************************************)
EXTENDS Integers, Sequences

CONSTANT Size  \* bytes of a frame

VARIABLES
  stage,   \* "closed", "idle", "sending", "receiving" or "doubtful"
  wire,    \* the bytes that have left since the frame was begun
  passed,  \* the deadline of the call has passed
  result   \* of the last call, "none" during a call

transmissionVars == <<stage, wire, passed, result>>

TransmissionInit ==
  stage = "closed" /\ wire = <<>> /\ passed = TRUE /\ result = "none"

\* A call ends with this status.
Result(code) ==
  /\ code = "Timeout" => passed
  /\ result' = code

OpenOrClose ==
  /\ stage' \in {"idle", "closed", stage}
  /\ stage \in {"closed", "idle", "doubtful"}
  /\ UNCHANGED <<wire, passed>>
  /\ result' # "Timeout"

Begin ==
  /\ stage = "idle" /\ stage' = "sending"
  /\ wire' = <<>>
  /\ passed' \in BOOLEAN /\ result' = "none"

\* A byte leaves: the next one.
Leave ==
  /\ stage \notin {"idle", "receiving"}
  /\ Len(wire) < Size
  /\ wire' = Append(wire, Len(wire) + 1)
  /\ UNCHANGED <<stage, passed, result>>

\* The bytes were handed over, and are now waited for.
HandOver ==
  /\ stage = "sending"
  /\ result' \in {"Ok", "none"}
  /\ UNCHANGED <<stage, wire, passed>>

Complete ==
  /\ stage = "sending" /\ stage' = "idle"
  /\ Len(wire) = Size
  /\ Result("Ok") /\ UNCHANGED <<wire, passed>>

GiveUp ==
  /\ stage = "sending" /\ stage' = "doubtful"
  /\ Result("Timeout") \/ Result("Transport")
  /\ UNCHANGED <<wire, passed>>

Receive ==
  /\ stage = "idle" /\ stage' = "receiving"
  /\ passed' \in BOOLEAN /\ result' = "none"
  /\ UNCHANGED wire

EndReceive ==
  /\ stage = "receiving" /\ stage' = "idle"
  /\ \E code \in {"Ok", "Timeout", "Transport"} : Result(code)
  /\ UNCHANGED <<wire, passed>>

TimePasses ==
  /\ passed' = TRUE
  /\ UNCHANGED <<stage, wire, result>>

TransmissionNext ==
  \/ OpenOrClose \/ Begin \/ Leave \/ HandOver \/ Complete \/ GiveUp
  \/ Receive \/ EndReceive \/ TimePasses

TransmissionSpec == TransmissionInit /\ [][TransmissionNext]_transmissionVars
=============================================================================
