--------------------------- MODULE PendingAnswers ---------------------------
(***************************************************************************)
(* The data path of MelsecSerialClient (src/src/client.cpp): what it keeps *)
(* of a request until the answer comes (a member or a copy per kind of     *)
(* request, shared by some), the spans of the caller it will write to, the *)
(* two monitor lists, and the order in which the codec puts items into a   *)
(* frame and takes values out of an answer (src/src/codec.cpp).  Whether a *)
(* payload encodes, the deadlines and the line are in McClient and McLink. *)
(*                                                                         *)
(* An item is one point or block asked for; "second" marks the second      *)
(* group of a split request: double words, or bit blocks.                  *)
(***************************************************************************)
EXTENDS Naturals, Sequences, FiniteSets

CONSTANTS
  Kinds,     \* the requests the program makes
  Devices,   \* the devices it names, each standing for its value
  Lists,     \* the item lists it passes
  Storages,  \* the buffers it passes
  MaxItems,  \* the size of each
  Capacity   \* items whose answer fits the decoder

VARIABLES
  operation,   \* operation_, "None" between requests
  kept,        \* the request members and copies, <<>> when cleared
  spans,       \* out_words_ ... out_chars_: the caller's buffers
  monitors,    \* the client's registered lists
  sent,        \* devices of the frame, in frame order
  plc_lists,   \* the lists the PLC has registered, in frame order
  memory,      \* what the program's buffers hold
  asked,       \* the request as the program made it
  outcome      \* status passed to the last callback

answersVars ==
  <<operation, kept, spans, monitors, sent, plc_lists, memory, asked, outcome>>

Cells == 1..MaxItems
NoValue == "nothing"
Terminator == "end of text"

Promise == INSTANCE AnswerDelivery WITH registered <- monitors

Registrations == Promise!Registrations
MonitorReads == Promise!MonitorReads
NoStorage == Promise!NoStorage

\* Requests with data of two groups, and writes that keep nothing.
Splits == {"RandomRead", "MultiBlockRead", "RegisterMonitor", "ReadMonitor"}
PlainWrites == {"BatchWrite", "RandomWrite", "MultiBlockWrite", "BufferWrite"}
AllKinds == Promise!Reads \union Registrations \union PlainWrites \union {"ExtendedBatchWriteWords"}

\* Copies of the caller's items; the other members hold the request itself.
Copies == {"RandomRead", "MultiBlockRead", "Loopback", "RegisterExtendedFileRegisterMonitor"}
Members ==
  Copies \union {"BatchReadWords", "ReadExtendedFileRegisterWords",
                 "DirectReadExtendedFileRegisterWords", "ExtendedBatchReadWords",
                 "BatchReadBits", "ReadHostBuffer", "ReadModuleBuffer"}

\* The member a request is kept in, named after the read that owns it.
Keeps(kind) ==
  CASE kind = "RegisterMonitor" -> "RandomRead"
    [] kind = "ExtendedBatchWriteWords" -> "ExtendedBatchReadWords"
    [] OTHER -> kind

\* The span that takes an item's value, by the item's group.
SpanOf(kind, second) ==
  CASE kind = "BatchReadBits" -> "out_bits"
    [] kind = "MultiBlockRead" -> IF second THEN "out_bits" ELSE "out_words"
    [] kind \in {"RandomRead", "ReadMonitor"} ->
         IF second THEN "out_random_dwords" ELSE "out_random_words"
    [] kind = "ReadModuleBuffer" -> "out_bytes"
    [] kind = "Loopback" -> "out_chars"
    [] OTHER -> "out_words"
Spans == {"out_words", "out_bits", "out_random_words", "out_random_dwords", "out_bytes", "out_chars"}

\* append_* : every item of the first group, then every item of the second.
PutBefore(items, j, i) ==
  \/ ~items[j].second /\ items[i].second
  \/ items[j].second = items[i].second /\ j <= i
EncodedAt(items, i) == Cardinality({j \in DOMAIN items : PutBefore(items, j, i)})
Frames(items) ==
  {frame \in [DOMAIN items -> Devices] :
     \A i \in DOMAIN items : frame[EncodedAt(items, i)] = items[i].device}

\* The codec with a parser that takes blocks in the order of the request.
BugParsedAt(items, i) == i

\* Where the parsers' cursor stands for an item: two passes over the answer.
ParsedAt(items, i) ==
  LET group == {j \in 1..i : items[j].second = items[i].second}
      firsts == {j \in DOMAIN items : ~items[j].second}
  IN  IF items[i].second THEN Cardinality(firsts) + Cardinality(group) ELSE Cardinality(group)

\* expected_success_response_data_size: what a request's answer will need, from
\* the members.  The labels of the writes fall through to the read below them.
ExpectedSize(kind, members) ==
  CASE kind \in MonitorReads -> Len(monitors[Promise!ListOf(kind)])
    [] kind \in {"BatchWrite", "ExtendedBatchWriteWords"} -> Len(members["RandomRead"])
    [] kind = "RandomWrite" -> Len(members["MultiBlockRead"])
    [] kind = "MultiBlockWrite" -> Len(members["ReadHostBuffer"])
    [] kind \in {"BufferWrite"} \union Registrations -> 0
    [] OTHER -> Len(members[kind])

\* Keeping a request, and clearing what is kept.
Keep(r) == [m \in Members |-> IF m = Keeps(r.kind) THEN r.items ELSE kept[m]]
Point(r) ==
  [s \in Spans |-> IF r.kind \in Promise!Reads /\ s \in {SpanOf(r.kind, b) : b \in BOOLEAN}
                   THEN r.storage ELSE spans[s]]
ClearOutputs(members) == [m \in Members |-> IF m \in Copies THEN members[m] ELSE <<>>]
ClearCopies(members) == [m \in Members |-> IF m \in Copies THEN <<>> ELSE members[m]]
NoSpans == [s \in Spans |-> NoStorage]

\* What the program may ask: a buffer with every read, a registered list with
\* every monitor read (the monitor_registered_ guards), two groups where there are two.
Requests ==
  {r \in [kind : Kinds, items : Lists \union {<<>>}, storage : Storages \union {NoStorage}] :
     /\ r.storage # NoStorage <=> r.kind \in Promise!Reads
     /\ r.items = <<>> <=> r.kind \in PlainWrites
     /\ r.kind \in MonitorReads => r.items = monitors[Promise!ListOf(r.kind)]
     /\ r.kind \notin Splits => \A i \in DOMAIN r.items : ~r.items[i].second}

AnswersInit ==
  /\ operation = "None"
  /\ kept = [m \in Members |-> <<>>] /\ spans = NoSpans
  /\ monitors = [m \in Registrations |-> <<>>]
  /\ plc_lists = [m \in Registrations |-> <<>>]
  /\ memory = [s \in Storages |-> [c \in Cells |-> NoValue]]
  /\ sent = <<>> /\ asked = Promise!NoRequest
  /\ outcome = "none"

Idle == operation = "None"

\* validate_response_capacity: what start_request and preflight_request decide.
\* A call that is turned away before it stores anything is a stuttering step.
Accepts(r) == ExpectedSize(r.kind, Keep(r)) <= Capacity

\* validate_bit_in_word_plan: would a read of one word and its write back fit?
PlanReads == {"BatchReadWords", "ReadExtendedFileRegisterWords",
              "DirectReadExtendedFileRegisterWords", "ExtendedBatchReadWords"}
PlanAccepted(kind) ==
  ExpectedSize(kind, kept) <= Capacity /\ ExpectedSize("BatchWrite", kept) <= Capacity

\* The payload does not encode: what was just stored is cleared, except that a
\* registration leaves the spans alone and a plain read the copies.
EncodeFails(r) ==
  /\ Idle
  /\ LET clears == r.kind \in Promise!Reads \union {"ExtendedBatchWriteWords"}
         outputs == IF clears THEN ClearOutputs(Keep(r)) ELSE Keep(r)
     IN  /\ kept' = IF Keeps(r.kind) \in Copies THEN ClearCopies(outputs) ELSE outputs
         /\ spans' = IF clears THEN NoSpans ELSE spans
  /\ UNCHANGED <<operation, monitors, sent, plc_lists, memory, asked, outcome>>

\* start_request refuses after the request was stored: no callback, a frame that
\* does not encode, or an answer that would not fit.
StartRefused(r) ==
  /\ Idle
  /\ kept' = Keep(r) /\ spans' = Point(r)
  /\ UNCHANGED <<operation, monitors, sent, plc_lists, memory, asked, outcome>>

\* The program passes cleared buffers.
Started(r) ==
  /\ Idle
  /\ Accepts(r)
  /\ operation' = r.kind
  /\ kept' = Keep(r) /\ spans' = Point(r)
  /\ monitors' = [m \in Registrations |-> IF m = r.kind THEN <<>> ELSE monitors[m]]
  /\ sent' \in Frames(r.items)
  /\ asked' = r
  /\ memory' = [s \in Storages |-> [c \in Cells |-> NoValue]]
  /\ outcome' = "none"
  /\ UNCHANGED plc_lists

\* complete: everything kept is cleared before the callback runs.
Completes(code) ==
  /\ operation' = "None"
  /\ kept' = ClearCopies(ClearOutputs(kept)) /\ spans' = NoSpans
  /\ sent' = <<>> /\ asked' = Promise!NoRequest
  /\ outcome' = code

\* The list the parser goes by, and the devices whose values the answer holds.
ParsedList ==
  IF operation \in MonitorReads THEN monitors[Promise!ListOf(operation)] ELSE kept[Keeps(operation)]
AnswerValues ==
  IF operation \in MonitorReads THEN plc_lists[Promise!ListOf(operation)] ELSE sent

\* The buffers once the parser has taken the first n values of the answer.
Parsed(n) ==
  [s \in Storages |-> [c \in Cells |->
     IF /\ c \in DOMAIN ParsedList
        /\ ParsedAt(ParsedList, c) <= n
        /\ spans[SpanOf(operation, ParsedList[c].second)] = s
     THEN AnswerValues[ParsedAt(ParsedList, c)] ELSE memory[s][c]]]

\* handle_response: a length that does not match writes nothing.
ReadAnswered ==
  /\ operation \in Promise!Reads \ {"Loopback"}
  /\ DOMAIN AnswerValues = DOMAIN ParsedList
  /\ memory' = Parsed(Len(ParsedList))
  /\ Completes("Ok")
  /\ UNCHANGED <<monitors, plc_lists>>

\* The answer has another length, or a value in the middle cannot be read (a block
\* that breaks off counts as taken or not).
ReadGarbled ==
  /\ operation \in Promise!Reads \ {"Loopback"}
  /\ \/ DOMAIN AnswerValues = DOMAIN ParsedList /\ \E n \in Cells : memory' = Parsed(n)
     \/ UNCHANGED memory
  /\ Completes("Failed")
  /\ UNCHANGED <<monitors, plc_lists>>

\* What a PLC may echo, the right text among it.
Echoes == UNION {[1..n -> Devices] : n \in 0..MaxItems}

\* The echo is copied with its own length and compared as far as the text sent.
LoopbackAnswered(echo) ==
  LET echoed(c) == IF c \in DOMAIN echo THEN echo[c]
                   ELSE IF c = Len(echo) + 1 THEN Terminator
                   ELSE memory[spans["out_chars"]][c]
      matches == \A c \in DOMAIN ParsedList : echoed(c) = ParsedList[c].device
  IN  /\ operation = "Loopback"
      /\ memory' = [s \in Storages |->
                      IF s = spans["out_chars"] THEN [c \in Cells |-> echoed(c)] ELSE memory[s]]
      /\ Completes(IF matches THEN "Ok" ELSE "Failed")
      /\ UNCHANGED <<monitors, plc_lists>>

\* The copy becomes the list of the client, the frame the list of the PLC.
RegistrationAnswered ==
  /\ operation \in Registrations
  /\ monitors' = [monitors EXCEPT ![operation] = kept[Keeps(operation)]]
  /\ plc_lists' = [plc_lists EXCEPT ![operation] = sent]
  /\ Completes("Ok")
  /\ UNCHANGED memory

WriteAnswered ==
  /\ operation \in PlainWrites \union {"ExtendedBatchWriteWords"}
  /\ Completes("Ok")
  /\ UNCHANGED <<memory, monitors, plc_lists>>

\* Timeout, cancellation, PLC error, transport failure, an answer with data
\* where there should be none: the PLC may have taken the list or not.
EndsWithoutAnswer ==
  /\ ~Idle
  /\ \/ UNCHANGED plc_lists
     \/ operation \in Registrations /\ plc_lists' = [plc_lists EXCEPT ![operation] = sent]
  /\ Completes("Failed")
  /\ UNCHANGED <<memory, monitors>>

Configure ==
  /\ Idle
  /\ monitors' = [m \in Registrations |-> <<>>]
  /\ UNCHANGED <<operation, kept, spans, sent, plc_lists, memory, asked, outcome>>

AnswersNext ==
  \/ Configure
  \/ \E r \in Requests : EncodeFails(r) \/ StartRefused(r) \/ Started(r)
  \/ ReadAnswered \/ ReadGarbled \/ RegistrationAnswered \/ WriteAnswered \/ EndsWithoutAnswer
  \/ \E echo \in Echoes : LoopbackAnswered(echo)

AnswersSpec == AnswersInit /\ [][AnswersNext]_answersVars

\* The names do not clash, and a list fits a buffer.
ASSUME AnswersAssumption ==
  /\ Kinds \subseteq AllKinds /\ NoStorage \notin Storages
  /\ MaxItems \in Nat /\ Capacity \in Nat
  /\ Lists \subseteq Seq([device : Devices, second : BOOLEAN])
  /\ \A l \in Lists : Len(l) \in 1..MaxItems
-----------------------------------------------------------------------------
TypeOK ==
  /\ kept \in [Members -> Lists \union {<<>>}]
  /\ spans \in [Spans -> Storages \union {NoStorage}]
  /\ monitors \in [Registrations -> Lists \union {<<>>}]
  /\ DOMAIN plc_lists = Registrations
  /\ memory \in [Storages -> [Cells -> Devices \union {NoValue, Terminator}]]

\* In flight, what the client kept is what the program asked.
FlightIsRemembered ==
  /\ asked.kind = operation
  /\ Idle => asked = Promise!NoRequest
  /\ ~Idle =>
       /\ asked \in Requests
       /\ Keeps(operation) \in Members => kept[Keeps(operation)] = asked.items
       /\ sent \in Frames(asked.items)
       /\ operation \in Promise!Reads =>
            \A b \in BOOLEAN : spans[SpanOf(operation, b)] = asked.storage

\* A list the client would read through is the PLC's, in the order of its frame,
\* and there is none while a new one is on its way.
MonitorListsMatch ==
  /\ \A m \in Registrations : monitors[m] # <<>> => plc_lists[m] \in Frames(monitors[m])
  /\ operation \in Registrations => monitors[operation] = <<>>

AnswersInvariant == TypeOK /\ FlightIsRemembered /\ MonitorListsMatch

\* Every value of an answer arrives in the cell of the item it was asked for,
\* in the buffer of that very request, whatever refused or failed requests left
\* behind in the members and spans (client.cpp: handle_response, complete).
DeliversAnswers == Promise!DeliverySpec

\* "Exact capacity is accepted and capacity plus one is rejected": whether a
\* request fits is a matter of that request (start_request and
\* validate_bit_in_word_plan read the size from members that a refused request
\* left filled, and the writes from a member that is not theirs).
FittingIsAccepted ==
  Idle =>
    /\ \A r \in Requests :
         (r.kind \in Promise!Reads => Len(r.items) <= Capacity) => Accepts(r)
    /\ Capacity > 0 => \A kind \in PlanReads : PlanAccepted(kind)
=============================================================================
