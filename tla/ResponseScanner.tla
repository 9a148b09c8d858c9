---------------------------- MODULE ResponseScanner ----------------------------
(***************************************************************************)
(* How MelsecSerialClient finds its response in the bytes it is given      *)
(* (src/client.cpp: decode_stream_buffer and the loop of on_rx_bytes).  The *)
(* line delivers noise, frames of other stations and of earlier requests,  *)
(* damaged frames and at last the answer, cut into chunks of any size.     *)
(* McClient leaves open what on_rx_bytes makes of its bytes; this module   *)
(* is that part, with deadlines and the buffer's capacity left to McClient. *)
(***************************************************************************)
EXTENDS ResponseFrames

CONSTANTS
  MaxDisturbances   \* how many disturbances precede the answer

VARIABLES
  config,        \* the format and whether the sum check is enabled
  answer,        \* the reply the PLC sends to this request
  disturbances,  \* what the line carries before the answer, piece by piece
  answered,      \* the line carries the answer, too
  line,          \* the bytes of both
  delivered,     \* how many bytes of the line were given to on_rx_bytes
  rx_frame,      \* the retained bytes
  scanning,      \* on_rx_bytes is in its loop
  verdict        \* what it makes of the bytes: [status, reply]

lineVars == <<config, answer, disturbances, answered, line>>
clientVars == <<delivered, rx_frame, scanning, verdict>>
vars == <<lineVars, clientVars>>

Ours == [station |-> TRUE, block |-> TRUE]
Theirs == [station |-> FALSE, block |-> TRUE]
Earlier == [station |-> TRUE, block |-> FALSE]

\* is_response_start_byte
IsStart(c, byte) ==
  byte \in (IF c.format = "Format5" THEN {DLE}
            ELSE IF c.format = "Format3" THEN {STX}
            ELSE {STX, ACK, NAK})

-----------------------------------------------------------------------------
(* decode_stream_buffer: the first byte sequence worth looking at.         *)

From(bytes, offset) == SubSeq(bytes, offset, Len(bytes))

\* Seeded defect: a start byte inside an unfinished binary frame counts.
BugCandidates(c, bytes) == {o \in DOMAIN bytes : IsStart(c, bytes[o])}

\* The offsets tried, in order.  Binary data may hold start bytes of its own, so an
\* unfinished frame at the front hides what follows it.
Candidates(c, bytes) ==
  LET starts == {o \in DOMAIN bytes : IsStart(c, bytes[o])}
  IN IF ~IsAscii(c) /\ 1 \in starts /\ Decode(c, bytes).status = "Incomplete" THEN {1}
     ELSE starts

Keep(status, reply) == [discard_prefix |-> 0, status |-> status, reply |-> reply]
Discard(size) == [discard_prefix |-> size, status |-> "Incomplete", reply |-> Success(<<>>)]

\* The first candidate that decides: a foreign frame is dropped with all before it, a
\* complete one is the answer once it is at the front.
Decided(o, result) ==
  IF result.foreign THEN Discard(o - 1 + result.consumed)
  ELSE IF o # 1 THEN Discard(o - 1)
  ELSE Keep("Complete", result.reply)

\* No candidate decides: everything before the first one behind the front goes.
Undecided(bytes, candidates, results) ==
  IF candidates = {} THEN Discard(Len(bytes))
  ELSE IF candidates # {1} THEN Discard(Min(candidates \ {1}) - 1)
  ELSE Keep(results[1].status, Success(<<>>))

Selected(bytes, results, decisive) ==
  IF decisive # {} THEN Decided(Min(decisive), results[Min(decisive)])
  ELSE Undecided(bytes, DOMAIN results, results)

Judged(bytes, results) ==
  Selected(bytes, results,
           {o \in DOMAIN results : results[o].foreign \/ results[o].status = "Complete"})

DecodeStreamBuffer(c, bytes) ==
  Judged(bytes, [o \in Candidates(c, bytes) |-> Decode(c, From(bytes, o))])

\* discard_rx_prefix: a prefix longer than the buffer is not discarded, and on_rx_bytes
\* would look at the same bytes for ever.
DiscardRxPrefix(bytes, size) == IF size > Len(bytes) THEN bytes ELSE From(bytes, size + 1)

-----------------------------------------------------------------------------
(* The line.                                                               *)

ValueOf(sender) == IF sender = Ours THEN <<"A">> ELSE <<"B">>

\* A reply with data, in binary with a data byte that is itself a DLE.
Data(c, sender) ==
  Success(IF IsAscii(c) THEN <<ValueOf(sender)>> ELSE <<DLE, ValueOf(sender)>>)
DataFrame(c, sender) == Encode(c, sender, Data(c, sender))

Damaged(frame) == [frame EXCEPT ![Len(frame)] = Junk]
Cut(frame) == SubSeq(frame, 1, Len(frame) \div 2)

\* Disturbances that a response must survive whatever way the bytes are cut.
Harmless(c) == {"junk", "stray", "other data", "other done", "other error"}
               \cup (IF UsesBlockNumber(c) THEN {"late data", "late done", "late error"} ELSE {})

\* Damaged frames: they may cost the request its answer, but give it no other.
Harmful == {"cut", "other cut", "bad header", "damaged", "other damaged"}

Bytes(c, piece) ==
  CASE piece = "junk"          -> <<Junk>>
    [] piece = "stray"         -> <<IF c.format = "Format5" THEN DLE
                                    ELSE IF c.format = "Format3" THEN STX ELSE ACK>>
    [] piece = "other data"    -> DataFrame(c, Theirs)
    [] piece = "other done"    -> Encode(c, Theirs, Success(<<>>))
    [] piece = "other error"   -> Encode(c, Theirs, PlcError(<<"E">>))
    [] piece = "late data"     -> DataFrame(c, Earlier)
    [] piece = "late done"     -> Encode(c, Earlier, Success(<<>>))
    [] piece = "late error"    -> Encode(c, Earlier, PlcError(<<"E">>))
    [] piece = "cut"           -> Cut(DataFrame(c, Ours))
    [] piece = "other cut"     -> Cut(DataFrame(c, Theirs))
    [] piece = "bad header"    -> <<IF c.format = "Format5" THEN DLE ELSE STX, Junk>>
    [] piece = "damaged"       -> Damaged(DataFrame(c, Ours))
    [] piece = "other damaged" -> Damaged(DataFrame(c, Theirs))

Answers(c) == {Success(<<>>), PlcError(<<"E">>), Data(c, Ours)}

Init ==
  /\ config \in [format : Formats, sum_check : BOOLEAN]
  /\ answer \in Answers(config)
  /\ disturbances = <<>> /\ line = <<>> /\ answered = FALSE
  /\ delivered = 0 /\ rx_frame = <<>> /\ scanning = FALSE
  /\ verdict = [status |-> "Incomplete", reply |-> Success(<<>>)]

\* The line carries something else before the answer.
Disturb(piece) ==
  /\ ~answered /\ Len(disturbances) < MaxDisturbances
  /\ disturbances' = Append(disturbances, piece)
  /\ line' = line \o Bytes(config, piece)
  /\ UNCHANGED <<config, answer, answered, clientVars>>

Reply ==
  /\ ~answered /\ answered' = TRUE
  /\ line' = line \o Encode(config, Ours, answer)
  /\ UNCHANGED <<config, answer, disturbances, clientVars>>

-----------------------------------------------------------------------------
(* on_rx_bytes.                                                            *)

\* The next chunk; what the line carries is settled by then, which leaves out nothing,
\* since the client knows only what it was given.
OnRxBytes(size) ==
  /\ answered /\ ~scanning /\ verdict.status = "Incomplete"
  /\ delivered + size <= Len(line)
  /\ delivered' = delivered + size
  /\ rx_frame' = rx_frame \o SubSeq(line, delivered + 1, delivered + size)
  /\ scanning' = TRUE
  /\ UNCHANGED <<lineVars, verdict>>

\* One round of the loop: bytes are dropped and the rest is looked at again, or the
\* verdict stands.
Conclude(scan) ==
  IF scan.discard_prefix # 0
  THEN /\ rx_frame' = DiscardRxPrefix(rx_frame, scan.discard_prefix)
       /\ scanning' = (rx_frame' # <<>>)
       /\ UNCHANGED verdict
  ELSE /\ rx_frame' = IF scan.status = "Incomplete" THEN rx_frame ELSE <<>>
       /\ scanning' = FALSE
       /\ verdict' = [status |-> scan.status, reply |-> scan.reply]

ScanRound ==
  /\ scanning
  /\ Conclude(DecodeStreamBuffer(config, rx_frame))
  /\ UNCHANGED <<lineVars, delivered>>

Next ==
  \/ \E piece \in Harmless(config) \cup Harmful : Disturb(piece)
  \/ Reply
  \/ \E size \in 1 .. Len(line) : OnRxBytes(size)
  \/ ScanRound

Spec == Init /\ [][Next]_vars

-----------------------------------------------------------------------------
(* Properties.                                                             *)

\* A stray start byte right before junk looks like a damaged frame.
Undamaged ==
  \A i \in DOMAIN disturbances :
    /\ disturbances[i] \in Harmless(config)
    /\ disturbances[i] = "stray" /\ i < Len(disturbances)
         => disturbances[i + 1] # "junk"

\* A request succeeds or is rejected only by the answer to it, whole: never by a frame
\* of another station or an earlier request, a damaged frame, or pieces of several.
\* Damaged frames are told apart by their checksum only: without it the cut start of one
\* frame and the end of the next are taken for a frame when they come in one chunk.
OnlyTheAnswerIsAccepted ==
  verdict.status = "Complete" /\ (config.sum_check \/ Undamaged)
    => verdict.reply = answer /\ delivered = Len(line)

\* Among whole frames of others, noise and stray start bytes the answer is found as its
\* last byte arrives, however the bytes were cut into chunks, and the request never
\* fails.
AnswerIsFound ==
  Undamaged /\ ~scanning
    => verdict.status = (IF answered /\ delivered = Len(line) THEN "Complete" ELSE "Incomplete")

\* The loop of on_rx_bytes ends: what it is about to drop it has, so that every round
\* but the last leaves fewer bytes (discard_rx_prefix drops nothing otherwise).
ScanEnds ==
  scanning => DecodeStreamBuffer(config, rx_frame).discard_prefix <= Len(rx_frame)
=============================================================================
