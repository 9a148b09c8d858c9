---------------------------- MODULE ResponseFrames ----------------------------
(***************************************************************************)
(* FrameCodec's response frames (src/codec.cpp): encode_success_response,  *)
(* encode_error_response and decode_response_validated, for the four ASCII *)
(* formats and binary Format5.                                             *)
(*                                                                         *)
(* The layout is the program's with every field of several characters      *)
(* shrunk to one: the block number, the frame ID and route, the end code   *)
(* and the error code.  Only the checksum keeps its two characters, because *)
(* the length of a frame's tail decides how the scanner goes on after a    *)
(* damaged one.  The checksum is ideal: it is the bytes it covers.         *)
(***************************************************************************)
EXTENDS Integers, Sequences, SequencesExt, FiniteSetsExt

STX == <<"STX">>
ETX == <<"ETX">>
ACK == <<"ACK">>
NAK == <<"NAK">>
DLE == <<"DLE">>
CRLF == << <<"CR">>, <<"LF">> >>
SuccessEndCode == <<"QACK">>
ErrorEndCode   == <<"QNAK">>
Junk == <<"junk">>           \* a byte that means nothing in any position

\* Hexadecimal fields: two stations, two block numbers, two values, an error code.
Station(own) == IF own THEN <<"0">> ELSE <<"1">>
Hex == {<<"0">>, <<"1">>, <<"A">>, <<"B">>, <<"E">>}
Zero == <<"0">>

Formats == {"Format1", "Format2", "Format3", "Format4", "Format5"}

IsAscii(config) == config.format # "Format5"
IsEnqFamily(config) == config.format \in {"Format1", "Format2", "Format4"}
UsesBlockNumber(config) == config.format = "Format2"
Terminator(config) == IF config.format = "Format4" THEN CRLF ELSE <<>>

\* compute_sum_check_ascii
SumOf(bytes) == << <<"sum1", bytes>>, <<"sum2", bytes>> >>
Checksum(config, bytes) == IF config.sum_check THEN SumOf(bytes) ELSE <<>>

Success(data) == [type |-> "Success", data |-> data]
PlcError(code) == [type |-> "PlcError", data |-> <<code>>]

-----------------------------------------------------------------------------
(* Encoding.  A sender is [station, block]: own or another's.              *)

Prefix(config, sender) ==
  (IF UsesBlockNumber(config) THEN <<Station(sender.block)>> ELSE <<>>)
  \o <<Station(sender.station)>>

PrefixSize(config) == IF UsesBlockNumber(config) THEN 3 ELSE 2

Covered(config, sender, content) == Prefix(config, sender) \o content \o <<ETX>>

EncodeAscii(config, sender, reply) ==
  LET head == Prefix(config, sender)
      content == IF IsEnqFamily(config) THEN reply.data
                 ELSE <<SuccessEndCode>> \o reply.data
  IN IF reply.type = "PlcError"
     THEN IF IsEnqFamily(config)
          THEN <<NAK>> \o head \o <<ErrorEndCode>> \o reply.data \o Terminator(config)
          ELSE <<STX>> \o head \o <<ErrorEndCode>> \o reply.data \o <<ETX>>
     ELSE IF reply.data # <<>>
          THEN <<STX>> \o Covered(config, sender, content)
                 \o Checksum(config, Covered(config, sender, content)) \o Terminator(config)
          ELSE IF IsEnqFamily(config) THEN <<ACK>> \o head \o Terminator(config)
               ELSE <<STX>> \o Covered(config, sender, content)

\* The byte count field, in the alphabet of this module.
CountOf(bytes) == <<"count", Len(bytes)>>

Stuffed(payload) ==
  FlattenSeq([i \in DOMAIN payload |->
                IF payload[i] = DLE THEN <<DLE, DLE>> ELSE <<payload[i]>>])

EncodeBinary(config, sender, reply) ==
  LET body == << Station(sender.station),
                 IF reply.type = "PlcError" THEN reply.data[1] ELSE Zero >>
                \o (IF reply.type = "PlcError" THEN <<>> ELSE reply.data)
      payload == <<CountOf(body)>> \o body
  IN <<DLE, STX>> \o Stuffed(payload) \o <<DLE, ETX>> \o Checksum(config, payload)

Encode(config, sender, reply) ==
  IF IsAscii(config) THEN EncodeAscii(config, sender, reply)
  ELSE EncodeBinary(config, sender, reply)

-----------------------------------------------------------------------------
(* Decoding: DecodeResult.  Its bytes begin with a start byte.             *)

Incomplete == [status |-> "Incomplete", reply |-> Success(<<>>), consumed |-> 0,
               foreign |-> FALSE]
Malformed(consumed) == [Incomplete EXCEPT !.status = "Error", !.consumed = consumed]
Complete(reply, consumed) ==
  [Incomplete EXCEPT !.status = "Complete", !.reply = reply, !.consumed = consumed]

EtxFrom(bytes, first) ==
  LET found == {i \in first .. Len(bytes) : bytes[i] = ETX}
  IN IF found = {} THEN 0 ELSE Min(found)

\* has_ascii_crlf, for the formats that end with it
EndsAt(config, bytes, size) ==
  SubSeq(bytes, size + 1, size + Len(Terminator(config))) = Terminator(config)

\* Seeded defect: the terminator is looked for before it has arrived.
BugDecodeAck(config, bytes) ==
  LET total == PrefixSize(config) + Len(Terminator(config))
  IN IF Len(bytes) >= total /\ EndsAt(config, bytes, PrefixSize(config))
     THEN Complete(Success(<<>>), total)
     ELSE Malformed(total)

DecodeAck(config, bytes) ==
  LET total == PrefixSize(config) + Len(Terminator(config))
  IN IF Len(bytes) < total THEN Incomplete
     ELSE IF EndsAt(config, bytes, PrefixSize(config)) THEN Complete(Success(<<>>), total)
     ELSE Malformed(total)

\* The end code before the error code is optional.
DecodeNak(config, bytes) ==
  LET size == PrefixSize(config)
      has_end_code == Len(bytes) > size /\ bytes[size + 1] = ErrorEndCode
      at == IF has_end_code THEN size + 2 ELSE size + 1
      total == at + Len(Terminator(config))
  IN IF Len(bytes) < total THEN Incomplete
     ELSE IF EndsAt(config, bytes, at) /\ bytes[at] \in Hex
          THEN Complete(PlcError(bytes[at]), total)
     ELSE Malformed(total)

SumSize(config) == IF config.sum_check THEN 2 ELSE 0

\* verify_ascii_sum over everything between STX and the sum
SumMatches(config, bytes, etx) ==
  SubSeq(bytes, etx + 1, etx + SumSize(config)) = Checksum(config, SubSeq(bytes, 2, etx))

DecodeDataTo(config, bytes, etx, total) ==
  IF etx = 0 \/ Len(bytes) < total THEN Incomplete
  ELSE IF EndsAt(config, bytes, etx + SumSize(config)) /\ SumMatches(config, bytes, etx)
       THEN Complete(Success(SubSeq(bytes, PrefixSize(config) + 1, etx - 1)), total)
  ELSE Malformed(total)

DecodeData(config, bytes) ==
  LET upTo(etx) ==
        DecodeDataTo(config, bytes, etx, etx + SumSize(config) + Len(Terminator(config)))
  IN upTo(EtxFrom(bytes, PrefixSize(config) + 1))

\* Format3 carries an end code; only a response with data carries a checksum.
DecodeFormat3To(config, bytes, end_code, content, etx, sum) ==
  IF end_code \notin {SuccessEndCode, ErrorEndCode} THEN Malformed(Len(bytes))
  ELSE IF etx = 0 THEN Incomplete
  ELSE IF end_code = ErrorEndCode
       THEN IF Len(content) = 1 /\ content[1] \in Hex
            THEN Complete(PlcError(content[1]), etx) ELSE Malformed(etx)
  ELSE IF Len(bytes) < etx + sum THEN Incomplete
  ELSE IF sum = 0 \/ SumMatches(config, bytes, etx)
       THEN Complete(Success(content), etx + sum) ELSE Malformed(etx + sum)

DecodeFormat3(config, bytes) ==
  LET first == PrefixSize(config) + 2
      upTo(etx) ==
        DecodeFormat3To(config, bytes, bytes[first - 1], SubSeq(bytes, first, etx - 1), etx,
                        IF etx = first THEN 0 ELSE SumSize(config))
  IN IF Len(bytes) < first - 1 THEN Incomplete ELSE upTo(EtxFrom(bytes, first))

\* One byte after DLE STX: stuffing is undone until DLE ETX or a DLE out of place.
Unstuff(text, byte) ==
  IF text.end # "open" THEN text
  ELSE IF ~text.escape /\ byte = DLE THEN [text EXCEPT !.escape = TRUE, !.size = @ + 1]
  ELSE IF text.escape /\ byte # DLE
       THEN [text EXCEPT !.end = IF byte = ETX THEN "tail" ELSE "bad",
                         !.size = IF byte = ETX THEN @ + 1 ELSE @]
  ELSE [text EXCEPT !.payload = Append(@, byte), !.escape = FALSE, !.size = @ + 1]

\* The text between DLE STX and the sum, as far as it goes.
Text(bytes) ==
  LET read[n \in 2 .. Len(bytes)] ==
        IF n = 2 THEN [end |-> "open", escape |-> FALSE, payload |-> <<>>, size |-> 2]
        ELSE Unstuff(read[n - 1], bytes[n])
  IN read[Len(bytes)]

\* A whole payload: byte count, route, completion code, data.
PayloadReply(payload, total) ==
  [Complete(IF payload[3] = Zero THEN Success(SubSeq(payload, 4, Len(payload)))
            ELSE PlcError(payload[3]), total)
     EXCEPT !.foreign = payload[2] # Station(TRUE)]

DecodeText(config, bytes, text, total) ==
  IF text.end = "bad" THEN Malformed(text.size)
  ELSE IF text.end = "open" \/ Len(bytes) < total THEN Incomplete
  ELSE IF \/ SubSeq(bytes, text.size + 1, total) # Checksum(config, text.payload)
          \/ Len(text.payload) < 3
          \/ text.payload[1] # CountOf(Tail(text.payload))
       THEN Malformed(total)
  ELSE PayloadReply(text.payload, total)

DecodeFormat5(config, bytes) ==
  IF Len(bytes) < 4 THEN Incomplete
  ELSE IF bytes[2] # STX THEN Malformed(1)
  ELSE DecodeText(config, bytes, Text(bytes), Text(bytes).size + SumSize(config))

-----------------------------------------------------------------------------

\* Seeded defect: the route of a response is not compared.
BugForeignAscii(config, bytes) == UsesBlockNumber(config) /\ bytes[2] # Station(TRUE)

\* The block number or the route is another's: decoded the same, but not for us.
ForeignAscii(config, bytes) ==
  \/ UsesBlockNumber(config) /\ bytes[2] # Station(TRUE)
  \/ bytes[PrefixSize(config)] \in Hex /\ bytes[PrefixSize(config)] # Station(TRUE)

DecodeAsciiBody(config, bytes) ==
  IF bytes[PrefixSize(config)] \notin Hex THEN Malformed(PrefixSize(config))
  ELSE IF ~IsEnqFamily(config) THEN DecodeFormat3(config, bytes)
  ELSE IF bytes[1] = ACK THEN DecodeAck(config, bytes)
  ELSE IF bytes[1] = NAK THEN DecodeNak(config, bytes)
  ELSE DecodeData(config, bytes)

DecodeAscii(config, bytes) ==
  IF UsesBlockNumber(config) /\ Len(bytes) >= 2 /\ bytes[2] \notin Hex THEN Malformed(2)
  ELSE IF Len(bytes) < PrefixSize(config) THEN Incomplete
  ELSE LET result == DecodeAsciiBody(config, bytes)
       IN [result EXCEPT !.foreign = /\ result.status # "Incomplete"
                                     /\ ForeignAscii(config, bytes)]

\* decode_response_validated
Decode(config, bytes) ==
  IF IsAscii(config) THEN DecodeAscii(config, bytes) ELSE DecodeFormat5(config, bytes)
=============================================================================
