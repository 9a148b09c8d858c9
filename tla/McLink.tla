------------------------------- MODULE McLink -------------------------------
(***************************************************************************)
(* The client at work on a serial line with a PLC: what it reports is held *)
(* against what the PLC did.                                               *)
(*                                                                         *)
(* The PLC and the line are external: they are modelled as the client uses *)
(* them.  The line keeps order and may lose or garble a frame.  The PLC    *)
(* serves the requests it receives in order and answers each with its      *)
(* result or a NAK; the send-only commands have no answer.  Late answers   *)
(* are the point: a request may be cancelled or time out while its frame,  *)
(* or the answer to it, is still on the way.                               *)
(***************************************************************************)
EXTENDS McClient, Sequences, SequencesExt

CONSTANTS
  MaxOutstanding   \* bound on the frames on the line and in the PLC at once

ASSUME LinkAssumption == MaxOutstanding \in Nat \ {0}

VARIABLES
  plc,        \* requests received by the PLC and not yet served
  line,       \* answers on their way to the client
  sent,       \* the active request has left the client completely
  done,       \* the PLC has carried out the active request
  plc_list,   \* the monitor list in the PLC: "none", of the "latest" registration or "old"
  client_list \* the monitor list by which the client reads the PLC's data

linkVars == <<plc, line, sent, done, plc_list, client_list>>

(***************************************************************************)
(* A frame carries the operation and the Format2 block number.  The other  *)
(* fields are history: age counts the requests admitted since its own,     *)
(* latest says that it is the newest registration request.                 *)
(***************************************************************************)
Request == [op : OperationKind, block : 0 .. BlockModulus - 1,
            age : 0 .. BlockModulus - 1, latest : BOOLEAN]
Answer == [block : 0 .. BlockModulus - 1, age : 0 .. BlockModulus - 1,
           kind : {"result", "nak", "garbled"}]

LinkInit ==
  /\ Init
  /\ now = 0
  /\ plc = <<>>
  /\ line = <<>>
  /\ sent = FALSE
  /\ done = FALSE
  /\ plc_list = "none"
  /\ client_list = "none"

-----------------------------------------------------------------------------
(* The application resets the transport before it configures the client    *)
(* again, as requires_transport_reset() demands; a configuration without   *)
(* that demand leaves the line alone and keeps the framing of the session. *)

LinkConfigure ==
  \E f \in BOOLEAN :
    /\ ~configured \/ transport_reset_required \/ f = format2
    /\ Configure(f)
    /\ IF transport_reset_required
       THEN plc' = <<>> /\ line' = <<>>
       ELSE UNCHANGED <<plc, line>>
    /\ UNCHANGED <<sent, done, plc_list, client_list>>

Aged(frame) == [frame EXCEPT !.age = @ + 1]
Superseded(frame) == [Aged(frame) EXCEPT !.latest = FALSE]

Replaced(list, op) == IF op = "RegisterMonitor" /\ list = "latest" THEN "old" ELSE list

\* Block numbers tell a late answer from the active request's only within one
\* wrap-around of their counter: no frame outlives BlockModulus - 1 admissions.
BlocksDistinguish ==
  \A frame \in ToSet(plc) \cup ToSet(line) : frame.age < BlockModulus - 1

LinkStart(op) ==
  /\ BlocksDistinguish
  /\ StartRequest(op)
  /\ plc' = IF op = "RegisterMonitor" THEN [i \in DOMAIN plc |-> Superseded(plc[i])]
            ELSE [i \in DOMAIN plc |-> Aged(plc[i])]
  /\ line' = [i \in DOMAIN line |-> Aged(line[i])]
  /\ plc_list' = Replaced(plc_list, op)
  /\ client_list' = Replaced(client_list, op)
  /\ sent' = FALSE
  /\ done' = FALSE

\* The last byte of the active request leaves; its frame reaches the PLC or is lost.
FrameLeaves ==
  /\ busy /\ awaiting_write_complete /\ tx_started /\ ~sent
  /\ Len(plc) + Len(line) < MaxOutstanding
  /\ sent' = TRUE
  /\ \/ plc' = Append(plc, [op |-> operation, block |-> active_format2_block_number,
                            age |-> 0, latest |-> operation = "RegisterMonitor"])
     \/ UNCHANGED plc
  /\ Rejected
  /\ UNCHANGED <<line, done, plc_list, client_list>>

\* The transport reports success only for a frame that has left.
LinkTxComplete(code) ==
  /\ code = "Ok" => sent
  /\ NotifyTxComplete(code)
  /\ UNCHANGED linkVars

-----------------------------------------------------------------------------
(* The PLC serves its oldest request.                                      *)

Serve(accepted) ==
  LET request == Head(plc) IN
  /\ plc # <<>>
  /\ plc' = Tail(plc)
  /\ done' = (done \/ (accepted /\ request.age = 0 /\ busy))
  /\ plc_list' = IF accepted /\ request.op = "RegisterMonitor"
                 THEN IF request.latest THEN "latest" ELSE "old"
                 ELSE plc_list
  /\ Rejected
  /\ \/ line' = line         \* no answer, or an answer lost
     \/ /\ request.op \notin SendOnly
        /\ \E kind \in {IF accepted THEN "result" ELSE "nak", "garbled"} :
             line' = Append(line, [block |-> request.block, age |-> request.age,
                                   kind |-> kind])
  /\ UNCHANGED <<sent, client_list>>

-----------------------------------------------------------------------------
(* The oldest answer reaches the client.                                   *)

\* The frame decoder with the active block number as context: a foreign frame is
\* discarded.  Without block numbers every answer passes.
Matches(answer) ==
  active_format2_block_number_valid => answer.block = active_format2_block_number

\* handle_response: an answer to another request may have data that do not fit.
Decodes(answer) ==
  CASE answer.kind = "nak" -> RxPlcError(1)
    [] answer.kind = "result" -> RxSuccess(1) \/ (answer.age > 0 /\ RxParseFailure(1))
    [] OTHER -> \E error \in DecodeErrors : RxDecodeError(1, error)

AnswerArrives ==
  /\ line # <<>>
  /\ line' = Tail(line)
  /\ \/ AwaitingResponse /\ RxExpired
     \/ AwaitingResponse /\ Matches(Head(line)) /\ Decodes(Head(line))
     \/ AwaitingResponse /\ ~Matches(Head(line)) /\ RxRetain(1, 0)
     \/ ~AwaitingResponse /\ Rejected
  /\ client_list' = IF operation = "RegisterMonitor" /\ callback'.code = "Ok"
                    THEN "latest" ELSE client_list
  /\ UNCHANGED <<plc, sent, done, plc_list>>

\* The first bytes of the oldest answer reach the client before the rest of it.
AnswerBegins ==
  /\ line # <<>>
  /\ RxRetain(1, 1)
  /\ UNCHANGED linkVars

LinkNext ==
  \/ LinkConfigure
  \/ \E op \in Operations : LinkStart(op)
  \/ FrameLeaves
  \/ \E code \in TransportFailures \cup {"Ok"} : LinkTxComplete(code)
  \/ \E accepted \in BOOLEAN : Serve(accepted)
  \/ AnswerBegins
  \/ AnswerArrives
  \/ /\ UNCHANGED linkVars
     /\ \/ NotifyTxStarted
        \/ \E code \in TransportFailures : NotifyRxFailure(code)
        \/ Poll
        \/ Cancel
        \/ Tick

LinkSpec == LinkInit /\ [][LinkNext]_<<vars, linkVars>>

-----------------------------------------------------------------------------

\* Every variable of the line and the PLC keeps its range.
LinkTypeOK ==
  /\ plc \in Seq(Request)
  /\ line \in Seq(Answer)
  /\ sent \in BOOLEAN
  /\ done \in BOOLEAN
  /\ plc_list \in {"none", "latest", "old"}
  /\ client_list \in {"none", "latest", "old"}

\* Whatever answer decides a request is the answer to that request, never the late
\* answer to one that was cancelled, timed out or failed before it: block numbers
\* (Format2) or the retired transport (other framings) keep them apart.
AnswerBelongsToRequest ==
  [][callback' # NoCallback /\ line' # line /\ ~TimedOut(callback')
       => Head(line).age = 0]_<<vars, linkVars>>

\* A definite failure of a request that can change the PLC is true: the PLC has not
\* carried it out and never will, because no frame of it is on the way.
Failed(status) ==
  status \in Status /\ status.code \notin {"Ok", "PlcError", "OperationOutcomeUnknown"}

DefiniteFailureIsTrue ==
  [][Failed(callback') /\ operation \in StateChanging
       => ~done /\ \A frame \in ToSet(plc) : frame.age > 0]_<<vars, linkVars>>

\* Success of a command that has an answer means that the PLC carried it out, and a
\* PLC error that it did not.
VerdictIsTrue ==
  [][callback'.code \in {"Ok", "PlcError"} /\ operation \notin SendOnly
       => done = (callback'.code = "Ok")]_<<vars, linkVars>>

\* A client that holds a monitor registration reads the list the PLC holds: a
\* registration lost, cancelled or overtaken is never used to interpret the data.
MonitorListsAgree ==
  registered["RegisterMonitor"] /\ ~busy => client_list = plc_list

-----------------------------------------------------------------------------
(* The inductive invariant behind the theorems of McLinkProofs.            *)

\* The line and the PLC keep the order of the requests, one frame for each at most.
FramesInOrder ==
  /\ \A i, j \in DOMAIN line : i < j => line[i].age > line[j].age
  /\ \A i, j \in DOMAIN plc : i < j => plc[i].age > plc[j].age
  /\ \A i \in DOMAIN line, j \in DOMAIN plc : line[i].age > plc[j].age

\* What the frames of the active request say of it, while it is active.
ActiveFramesAreTrue ==
  busy =>
    /\ sent => tx_started
    /\ ~awaiting_write_complete => sent
    /\ ~sent => ~done
    /\ \A i \in DOMAIN plc : plc[i].age = 0 =>
         /\ sent /\ ~done
         /\ plc[i].op = operation
         /\ plc[i].latest = (operation = "RegisterMonitor")
    /\ \A i \in DOMAIN line : line[i].age = 0 =>
         /\ sent /\ operation \notin SendOnly
         /\ line[i].kind = "result" => done
         /\ line[i].kind = "nak" => ~done

\* A block number that comes age + 1 before the next one, counted around.
CountsBack(block, age, next) == block + age + 1 - next \in {0, BlockModulus}

Numbered(frame) == CountsBack(frame.block, frame.age, next_format2_block_number)

\* In Format2 a block number tells the age of its frame.
BlocksTellAges ==
  /\ ~configured => plc = <<>> /\ line = <<>>
  /\ busy => configured /\ active_format2_block_number_valid = format2
  /\ busy /\ format2 => next_format2_block_number
                         = (active_format2_block_number + 1) % BlockModulus
  /\ format2 => /\ \A i \in DOMAIN plc : Numbered(plc[i])
                /\ \A i \in DOMAIN line : Numbered(line[i])

\* Without block numbers a transport that is not retired has no late answer on it, nor
\* a request that could still be answered late.
NoLateAnswers ==
  ~format2 =>
    /\ busy => /\ \A i \in DOMAIN line : line[i].age = 0
               /\ \A i \in DOMAIN plc : plc[i].age = 0 \/ plc[i].op \in SendOnly
    /\ ~busy /\ ~transport_reset_required
         => line = <<>> /\ \A i \in DOMAIN plc : plc[i].op \in SendOnly

\* A registration the client holds is the PLC's, and nothing on the way can replace it.
RegistrationIsSettled ==
  /\ registered["RegisterMonitor"]
       => /\ client_list = "latest" /\ plc_list = "latest"
          /\ \A i \in DOMAIN plc : plc[i].op # "RegisterMonitor"
  /\ busy /\ operation = "RegisterMonitor"
       => /\ ~registered["RegisterMonitor"]
          /\ done => plc = <<>> /\ plc_list = "latest"

LinkInvariant ==
  /\ LinkTypeOK
  /\ FramesInOrder
  /\ ActiveFramesAreTrue
  /\ BlocksTellAges
  /\ NoLateAnswers
  /\ RegistrationIsSettled
=============================================================================
