------------------------------ MODULE FrameSizes ------------------------------
(***************************************************************************)
(* How large frames are (src/src/codec.cpp).  start_request admits a       *)
(* request by sizes that are computed beforehand, with tables of lengths;  *)
(* the encoder writes the frame piece by piece into tx_frame_, through a   *)
(* ByteWriter that stops where its buffer ends, and the answer has to fit  *)
(* rx_frame_.  Sizes are in bytes on the wire.  A DLE in a binary frame is *)
(* written twice: "doubled" is how many of its bytes are DLEs.             *)
(*                                                                         *)
(* The PLC frames its answers as the codec's own response encoders do.     *)
(***************************************************************************)
EXTENDS ResponseFrames

CONSTANTS
  MaxRequestFrameBytes,   \* kMaxRequestFrameBytes, the size of tx_frame_
  MaxResponseFrameBytes,  \* kMaxResponseFrameBytes, the size of rx_frame_
  MaxRequestDataBytes     \* kMaxRequestDataBytes, the size of request_data_

\* An error answer in ASCII takes up to 27 bytes; the smallest build profile has 256.
ASSUME FrameSizesAssumption ==
  /\ MaxRequestFrameBytes \in Nat /\ MaxRequestDataBytes \in Nat
  /\ MaxResponseFrameBytes \in Nat /\ MaxResponseFrameBytes >= 27

FrameKinds == {"C1", "C2", "C3", "C4"}

\* validate_config: a protocol is a frame kind, a format, and whether there is a sum check.
ProtocolConfigs ==
  {c \in [frame : FrameKinds, format : Formats, sum_check : BOOLEAN] :
     /\ ~IsAscii(c) => c.frame = "C4"
     /\ c.frame = "C1" => ~UsesBlockNumber(c)}

-----------------------------------------------------------------------------
(* The sizes that are computed beforehand, for n bytes of data.            *)

AsciiRouteLength(frame) == IF frame = "C4" THEN 14 ELSE IF frame = "C3" THEN 8 ELSE 4
AsciiFrameIdLength(frame) == IF frame = "C1" THEN 0 ELSE 2
AsciiHeaderLength(frame) == AsciiFrameIdLength(frame) + AsciiRouteLength(frame)
BinaryRouteLength == 7
BlockNumberLength(c) == IF UsesBlockNumber(c) THEN 2 ELSE 0
SumCheckLength(c) == IF c.sum_check THEN 2 ELSE 0
CrlfLength(c) == IF c.format = "Format4" THEN 2 ELSE 0
EndCodeLength(frame) == IF frame = "C1" THEN 2 ELSE 4
ErrorCodeWidth(frame) == IF frame = "C1" THEN 2 ELSE 4

\* validate_request_capacity_validated
RequestWireSize(c, n) ==
  IF IsAscii(c)
  THEN (IF c.frame = "C1" THEN 4 ELSE BlockNumberLength(c) + AsciiHeaderLength(c.frame))
       + n + 1 + (IF IsEnqFamily(c) THEN 0 ELSE 1) + SumCheckLength(c) + CrlfLength(c)
  ELSE 4 + 2 * (2 + 1 + BinaryRouteLength + n) + SumCheckLength(c)

RequestAdmitted(c, n) ==
  n <= MaxRequestDataBytes /\ RequestWireSize(c, n) <= MaxRequestFrameBytes

\* validate_response_capacity_validated
ResponseWireSize(c, n) ==
  LET prefix == 1 + BlockNumberLength(c) + AsciiHeaderLength(c.frame)
  IN  IF ~IsAscii(c)
      THEN 4 + 2 * (2 + 1 + BinaryRouteLength + 2 + 2 + n) + SumCheckLength(c)
      ELSE IF IsEnqFamily(c) THEN prefix + n + 1 + SumCheckLength(c) + CrlfLength(c)
      ELSE prefix + EndCodeLength(c.frame) + n + 1 + (IF n = 0 THEN 0 ELSE SumCheckLength(c))

ResponseAdmitted(c, n) ==
  n <= MaxResponseFrameBytes /\ ResponseWireSize(c, n) <= MaxResponseFrameBytes

-----------------------------------------------------------------------------
(* The frames that are written.                                            *)

\* encode_ascii_route: station and self station; between them network and PC, and for C4 the
\* module's I/O and station numbers.  C1 has station and PC instead.
AsciiRoute(frame) ==
  IF frame \in {"C1", "C2"} THEN 2 + 2
  ELSE 2 + 2 + 2 + (IF frame = "C4" THEN 4 + 2 ELSE 0) + 2

\* encode_frame_payload_ascii without its data
AsciiPrefix(c) ==
  IF c.frame = "C1" THEN AsciiRoute(c.frame)
  ELSE BlockNumberLength(c) + AsciiFrameIdLength(c.frame) + AsciiRoute(c.frame)

\* The byte count and encode_frame_payload_binary without its data.
BinaryPrefix == 2 + 1 + (1 + 1 + 1 + 2 + 1 + 1)

\* DLE STX, the payload with its DLEs doubled, DLE ETX and the sum.
BinaryFrameSize(c, payload, doubled) == 2 + payload + doubled + 2 + SumCheckLength(c)

RequestPayloadSize(c, n) == (IF IsAscii(c) THEN AsciiPrefix(c) ELSE BinaryPrefix) + n

RequestFrameSize(c, n, doubled) ==
  IF IsAscii(c)
  THEN 1 + RequestPayloadSize(c, n) + (IF IsEnqFamily(c) THEN 0 ELSE 1)
       + SumCheckLength(c) + CrlfLength(c)
  ELSE BinaryFrameSize(c, RequestPayloadSize(c, n), doubled)

\* encode_request_validated finds none of its buffers too small: payload_storage, and in binary
\* binary_payload behind it, are as large as tx_frame_.
RequestEncodes(c, n, doubled) ==
  /\ RequestPayloadSize(c, n) <= MaxRequestFrameBytes
  /\ RequestFrameSize(c, n, doubled) <= MaxRequestFrameBytes

\* The payload of a binary answer: its data, or none and an error code.
AnswerPayloadSize(n) == BinaryPrefix + 2 + 2 + n

\* encode_success_response: in the ENQ family ACK and prefix, or STX, data and ETX.
SuccessFrameSize(c, n, doubled) ==
  IF ~IsAscii(c) THEN BinaryFrameSize(c, AnswerPayloadSize(n), doubled)
  ELSE 1 + AsciiPrefix(c) + CrlfLength(c) +
       (IF IsEnqFamily(c) THEN (IF n = 0 THEN 0 ELSE n + 1 + SumCheckLength(c))
        ELSE EndCodeLength(c.frame) + n + 1 + (IF n = 0 THEN 0 ELSE SumCheckLength(c)))

\* encode_error_response
ErrorFrameSize(c, doubled) ==
  IF ~IsAscii(c) THEN BinaryFrameSize(c, AnswerPayloadSize(0), doubled)
  ELSE 1 + AsciiPrefix(c) + CrlfLength(c) + ErrorCodeWidth(c.frame) +
       (IF ~IsEnqFamily(c) THEN EndCodeLength(c.frame) + 1
        ELSE IF c.frame = "C1" THEN 0 ELSE EndCodeLength(c.frame))
=============================================================================
