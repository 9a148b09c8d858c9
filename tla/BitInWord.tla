------------------------------ MODULE BitInWord ------------------------------
(***************************************************************************)
(* BitInWordWriteOperation (high_level.hpp): one bit of a word is written  *)
(* by reading the word and writing it back, two requests on one client     *)
(* under one absolute deadline.  The write is started from inside the      *)
(* read's completion callback, and the application's callback may begin    *)
(* the next operation, so the client is re-entered while it completes.     *)
(*                                                                         *)
(* While a callback runs nothing else does: op_phase is then "modify" or   *)
(* "finish", and only the operation's own next step is possible.           *)
(***************************************************************************)
EXTENDS McClient

CONSTANT BitReads   \* the read requests of the operation's routes that are used

\* The write request of each route; link-direct devices share the standard one.
WriteFor ==
  [read \in {"BatchReadWords", "ReadExtendedFileRegisterWords",
             "DirectReadExtendedFileRegisterWords", "ExtendedBatchReadWords"} |->
     CASE read = "BatchReadWords"                      -> "BatchWriteWords"
       [] read = "ReadExtendedFileRegisterWords"       -> "WriteExtendedFileRegisterWords"
       [] read = "DirectReadExtendedFileRegisterWords" -> "DirectWriteExtendedFileRegisterWords"
       [] read = "ExtendedBatchReadWords"              -> "ExtendedBatchWriteWords"]

ASSUME BitAssumption ==
  /\ BitReads \subseteq DOMAIN WriteFor
  /\ BitReads \subseteq Operations
  /\ \A read \in BitReads : WriteFor[read] \in Operations

VARIABLES
  op_phase,    \* what the operation waits for, or which of its callbacks runs
  op_read,     \* the read request of its route
  op_status,   \* the status it will report
  write_sent   \* history: the transmission of its write started

bitVars == <<op_phase, op_read, op_status, write_sent>>
bitAllVars == <<vars, bitVars>>

Phases == {"idle", "begin", "read", "modify", "write", "finish"}

BitInit ==
  /\ Init
  /\ op_phase = "idle"
  /\ op_read \in BitReads
  /\ op_status = NoCallback
  /\ write_sent = FALSE

-----------------------------------------------------------------------------
(* The operation.                                                          *)

\* begin: both requests are validated before the deadline is set, so that neither can
\* be refused later for what it asks.
Begin(read) ==
  /\ op_phase = "idle"
  /\ BeginCompoundDeadline
  /\ op_phase' = "begin"
  /\ op_read' = read
  /\ op_status' = NoCallback
  /\ write_sent' = FALSE

BeginRead ==
  /\ op_phase = "begin"
  /\ StartRequest(op_read)
  /\ op_phase' = "read"
  /\ UNCHANGED <<op_read, op_status, write_sent>>

\* Seeded defect: the write is started whatever the read's result.
BugAfterCompletion(status) == IF op_phase = "read" THEN "modify" ELSE "finish"

\* on_read_complete and on_write_complete
AfterCompletion(status) ==
  IF op_phase = "read" /\ status = Definite("Ok") THEN "modify" ELSE "finish"

\* The rest of on_read_complete: the write follows whatever the bit was.
StartWrite ==
  /\ op_phase = "modify"
  /\ StartRequest(WriteFor[op_read])
  /\ op_phase' = "write"
  /\ UNCHANGED <<op_read, op_status, write_sent>>

\* finish: the client is free again before the application hears of it.
Finish ==
  /\ op_phase = "finish"
  /\ EndCompoundDeadline
  /\ op_phase' = "idle"
  /\ UNCHANGED <<op_read, op_status, write_sent>>

\* The operation's part in a step of its client.
Follow ==
  /\ op_phase \in {"idle", "read", "write"}
  /\ IF op_phase = "idle" \/ callback' = NoCallback
     THEN UNCHANGED <<op_phase, op_status>>
     ELSE op_phase' = AfterCompletion(callback') /\ op_status' = callback'
  /\ write_sent' = (write_sent \/ (op_phase = "write" /\ tx_started'))
  /\ UNCHANGED op_read

\* The application's other calls, to any of which the client may have to say no.
BitConfigures == \E f \in BOOLEAN : (Configure(f) \/ SetRs485Hooks(f)) /\ Follow
BitRequests == \E op \in Operations : StartRequest(op) /\ Follow
BitTxStarted == NotifyTxStarted /\ Follow
BitTxAbandoned == (\E code \in TransportFailures : TxAbandoned(code)) /\ Follow
BitTxComplete ==
  (\E code \in TransportFailures \cup {"Ok"} : NotifyTxComplete(code)) /\ Follow
BitReceives == (\E size \in 1 .. RxCapacity + 1 : OnRxBytes(size)) /\ Follow
BitRxFailure == (\E code \in TransportFailures : NotifyRxFailure(code)) /\ Follow
BitPoll == Poll /\ Follow
BitCancel == Cancel /\ Follow
BitTick == Tick /\ Follow
BitRejected == Rejected /\ Follow

Callbacks == BeginRead \/ StartWrite \/ Finish

BitNext ==
  \/ \E read \in BitReads : Begin(read)
  \/ Callbacks
  \/ BitConfigures \/ BitRequests
  \/ BitTxStarted \/ BitTxAbandoned \/ BitTxComplete
  \/ BitReceives \/ BitRxFailure
  \/ BitPoll \/ BitCancel \/ BitTick \/ BitRejected

\* The application's duties are the client's; a callback, once it runs, returns.
BitFairness ==
  /\ WF_bitAllVars(Callbacks)
  /\ WF_bitAllVars(BitTick)
  /\ WF_bitAllVars(BitTxStarted)
  /\ WF_bitAllVars(BitTxComplete)
  /\ WF_bitAllVars(BitPoll)

BitSpec == BitInit /\ [][BitNext]_bitAllVars
BitFairSpec == BitSpec /\ BitFairness

-----------------------------------------------------------------------------
(* Properties.                                                             *)

\* Every variable of the operation keeps its range.
BitTypeOK ==
  /\ op_phase \in Phases
  /\ op_read \in BitReads
  /\ op_status \in Status \cup {NoCallback}
  /\ write_sent \in BOOLEAN

\* The compound deadline is the client's exactly while an operation runs: no path
\* through the operation leaves it behind for requests that are none of its own.
DeadlineIsOwned == compound_deadline_active <=> op_phase # "idle"

\* No other request gets between the read and the write, and the write that follows a
\* successful read cannot be refused; on no path does the operation keep the client's
\* compound deadline, under which every later request would be sent.
ClientIsHeld ==
  /\ DeadlineIsOwned
  /\ op_phase = "read" => busy /\ operation = op_read
  /\ op_phase = "write" => busy /\ operation = WriteFor[op_read]
  /\ op_phase \in {"begin", "modify", "finish"} => ~busy
  /\ op_phase \in {"begin", "modify"} => Admissible

\* The reported status is honest about the PLC's word: once the write was being sent it
\* is confirmed, rejected or unknown, and before that it is neither confirmed nor
\* unknown, although read and write share the client, the deadline and cancel().
HonestBitWrite ==
  op_phase = "finish" =>
    IF write_sent THEN op_status.code \in {"Ok", "PlcError", "OperationOutcomeUnknown"}
    ELSE op_status.code \notin {"Ok", "OperationOutcomeUnknown"}

\* Read and write together succeed only within one response timeout.
OneDeadlineForBoth ==
  op_phase = "finish" /\ op_status.code = "Ok" => compound_age < ResponseTimeout

\* The inductive invariant behind the theorems of HighLevelProofs.
BitInvariant ==
  /\ BitTypeOK
  /\ ClientIsHeld
  /\ HonestBitWrite
  /\ OneDeadlineForBoth
  /\ op_phase # "idle" => configured
  /\ op_phase = "finish" => op_status # NoCallback
  /\ op_phase \in {"begin", "read", "modify"} => ~write_sent
  /\ op_phase = "write" => (write_sent <=> tx_started)

\* Every operation ends and gives the client back, however long the PLC is silent.
BitWritesEnd == []<>(op_phase = "idle")
=============================================================================
