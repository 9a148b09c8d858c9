--------------------------- MODULE LongStateRead ---------------------------
(***************************************************************************)
(* HostSyncClient::read_long_timer_counter_state_bits, the one blocking    *)
(* read that is made of several requests: a long timer's contact or coil   *)
(* is a bit of its four-word status block, so every point is a request of  *)
(* its own, staged bit by bit (detail/long_state_aggregate.hpp) and handed *)
(* to the caller when all of them succeeded.                               *)
(*                                                                         *)
(* One request is a step here; how it can fail is HostSync's concern.  The *)
(* PLC may change between two requests, so every answer is arbitrary.      *)
(***************************************************************************)
EXTENDS Integers, Sequences

CONSTANTS
  NumberLimit,  \* device numbers are below it (2^32)
  WireMaximum,  \* the largest number the wire field of the selected format holds
  StageBits,    \* bits of a staging byte (8)
  MaxPoints,    \* bound on the points of a call (65535)
  Readable      \* the base devices the profile has and whose request and answer fit

ASSUME LongStateAssumption ==
  /\ NumberLimit \in Nat \ {0} /\ WireMaximum \in Nat
  /\ StageBits \in Nat \ {0} /\ MaxPoints \in Nat

VARIABLES
  call,      \* the call: what is read, the first number, the points, the caller's bits
  index,     \* of the point being read
  staged,    \* staged_bits: the bits set in each byte
  out_bits,  \* the caller's storage
  result,    \* of the last call; "none" during a call
  asked,     \* history: the devices asked for, in order
  answered   \* history: the state bits in the answers, in order

longVars == <<call, index, staged, out_bits, result, asked, answered>>

StateBits == {"Contact", "Coil"}

\* get_long_state_read_spec
ReadSpec(route, base, kind) == [route |-> route, base |-> base, kind |-> kind]

Specs ==
  [LTS  |-> ReadSpec("StatusBlock", "LTN", "Contact"),
   LTC  |-> ReadSpec("StatusBlock", "LTN", "Coil"),
   LSTS |-> ReadSpec("StatusBlock", "LSTN", "Contact"),
   LSTC |-> ReadSpec("StatusBlock", "LSTN", "Coil"),
   LCS  |-> ReadSpec("DirectBits", "LCS", "Contact"),
   LCC  |-> ReadSpec("DirectBits", "LCC", "Coil")]

Codes == DOMAIN Specs
OtherCode == "D"

Devices == [base : {Specs[code].base : code \in Codes}, number : 0..(NumberLimit - 1)]

\* long_state_stage_bytes
StageBytes(points) == (points + StageBits - 1) \div StageBits

NothingStaged(points) == [byte \in 0..(StageBytes(points) - 1) |-> {}]
Untouched(size) == [i \in 0..(size - 1) |-> "before"]

\* What the command codec accepts for one status block.
Encodable(base, number) == base \in Readable /\ number <= WireMaximum

\* Seeded defect: the plan is validated at its head.
BugPlanIsValid(base, first, points) ==
  /\ first <= NumberLimit - 1 - (points - 1)
  /\ Encodable(base, first)

\* The last number stands for all of them.
PlanIsValid(base, first, points) ==
  /\ first <= NumberLimit - 1 - (points - 1)
  /\ Encodable(base, first + points - 1)

Refusal(code, first, points, size) ==
  IF points = 0 THEN "InvalidArgument"
  ELSE IF size < points THEN "BufferTooSmall"
  ELSE IF code \notin Codes THEN "InvalidArgument"
  ELSE IF Specs[code].route = "StatusBlock" /\ ~PlanIsValid(Specs[code].base, first, points)
       THEN "InvalidArgument"
  ELSE "none"

LongStateInit ==
  /\ call = [spec |-> Specs["LTS"], first |-> 0, points |-> 0, size |-> 0]
  /\ index = 0 /\ staged = NothingStaged(0) /\ out_bits = Untouched(0)
  /\ result = "Ok" /\ asked = <<>> /\ answered = <<>>

Call(code, first, points, size) ==
  /\ result # "none"
  /\ result' = Refusal(code, first, points, size)
  /\ call' = [spec |-> Specs[IF code \in Codes THEN code ELSE "LTS"], first |-> first,
              points |-> points, size |-> size]
  /\ index' = 0 /\ staged' = NothingStaged(points) /\ out_bits' = Untouched(size)
  /\ asked' = <<>> /\ answered' = <<>>

InProgress(route) == result = "none" /\ call.spec.route = route
Asks(number) == asked' = Append(asked, [base |-> call.spec.base, number |-> number])

-----------------------------------------------------------------------------
(* The aggregate of status blocks.                                         *)

AllocationFails ==
  /\ InProgress("StatusBlock") /\ asked = <<>> /\ index = 0
  /\ result' = "OutOfMemory"
  /\ UNCHANGED <<call, index, staged, out_bits, asked, answered>>

Number == (call.first + index) % NumberLimit

\* A request cannot be started, or fails; one the codec refuses is not sent.
PointFails ==
  /\ InProgress("StatusBlock") /\ index < call.points
  /\ \/ UNCHANGED asked
     \/ Encodable(call.spec.base, Number) /\ Asks(Number)
  /\ result' = IF Encodable(call.spec.base, Number) THEN "Failed" ELSE "InvalidArgument"
  /\ UNCHANGED <<call, index, staged, out_bits, answered>>

PointRead ==
  /\ InProgress("StatusBlock") /\ index < call.points
  /\ Encodable(call.spec.base, Number)
  /\ Asks(Number)
  /\ \E block \in SUBSET StateBits :
       /\ answered' = Append(answered, block)
       /\ staged' = IF call.spec.kind \notin block THEN staged
                    ELSE [staged EXCEPT ![index \div StageBits] =
                            @ \union {index % StageBits}]
  /\ index' = index + 1
  /\ UNCHANGED <<call, out_bits, result>>

Commit ==
  /\ InProgress("StatusBlock") /\ index = call.points
  /\ out_bits' = [i \in DOMAIN out_bits |->
                    IF i >= call.points THEN out_bits[i]
                    ELSE IF i % StageBits \in staged[i \div StageBits] THEN "on" ELSE "off"]
  /\ result' = "Ok"
  /\ UNCHANGED <<call, index, staged, asked, answered>>

-----------------------------------------------------------------------------
(* Long counters: one request for the bits themselves.                     *)

\* The bits are parsed into the caller's storage one by one; a bad one ends the call.
DirectRead ==
  /\ InProgress("DirectBits")
  /\ Asks(call.first)
  /\ \E bits \in [1..call.points -> BOOLEAN], parsed \in 0..call.points :
       /\ answered' = [i \in 1..parsed |-> IF bits[i] THEN {call.spec.kind} ELSE {}]
       /\ out_bits' = [i \in DOMAIN out_bits |->
                         IF i >= parsed THEN out_bits[i] ELSE IF bits[i + 1] THEN "on" ELSE "off"]
       /\ result' = IF parsed = call.points THEN "Ok" ELSE "Failed"
  /\ UNCHANGED <<call, index, staged>>

DirectFails ==
  /\ InProgress("DirectBits")
  /\ Asks(call.first) \/ UNCHANGED asked
  /\ result' = "Failed"
  /\ UNCHANGED <<call, index, staged, out_bits, answered>>

LongStateNext ==
  \/ \E code \in Codes \union {OtherCode}, first \in 0..(NumberLimit - 1),
        points \in 0..MaxPoints, size \in 0..MaxPoints : Call(code, first, points, size)
  \/ AllocationFails \/ PointFails \/ PointRead \/ Commit
  \/ DirectRead \/ DirectFails

LongStateSpec == LongStateInit /\ [][LongStateNext]_longVars

-----------------------------------------------------------------------------
(* Properties.                                                             *)

BlockWise == call.spec.route = "StatusBlock"

\* Every bit is what the PLC answered for that bit's own device.
Answers ==
  /\ Len(asked) = IF BlockWise THEN call.points ELSE 1
  /\ \A i \in 1..Len(asked) :
       asked[i] = [base |-> call.spec.base, number |-> call.first + i - 1]
  /\ \A i \in 0..(call.points - 1) :
       out_bits[i] = IF call.spec.kind \in answered[i + 1] THEN "on" ELSE "off"

\* A successful read has every point's own answer in its place, across the bytes of the stage;
\* a read of status blocks that fails, at whichever point, leaves the caller's bits as they
\* were; and a plan that cannot be carried out is refused before anything is sent, never
\* half way.
LongStateReadIsWhole ==
  /\ result = "Ok" => Answers
  /\ BlockWise /\ result \notin {"Ok", "none"} => out_bits = Untouched(call.size)
  /\ result \in {"InvalidArgument", "BufferTooSmall"} => asked = <<>>

(* The inductive invariant behind it.                                      *)

LongStateTypeOK ==
  /\ call.spec \in {Specs[code] : code \in Codes}
  /\ call.first \in 0..(NumberLimit - 1) /\ call.points \in 0..MaxPoints
  /\ call.size \in Nat
  /\ index \in 0..call.points
  /\ DOMAIN out_bits = 0..(call.size - 1)
  /\ result \in {"none", "Ok", "InvalidArgument", "BufferTooSmall", "OutOfMemory", "Failed"}
  /\ asked \in Seq(Devices)
  /\ answered \in Seq(SUBSET StateBits)

\* A call that was not refused can be carried out to its last point.
PlanHolds ==
  /\ call.points > 0 /\ call.points <= call.size
  /\ BlockWise => PlanIsValid(call.spec.base, call.first, call.points)

\* The stage holds the answers so far, bit by bit.
StageFollowsAnswers ==
  /\ out_bits = Untouched(call.size)
  /\ DOMAIN staged = 0..(StageBytes(call.points) - 1)
  /\ BlockWise => Len(asked) = index /\ Len(answered) = index
  /\ ~BlockWise => asked = <<>>
  /\ \A i \in 1..Len(asked) :
       asked[i] = [base |-> call.spec.base, number |-> call.first + i - 1]
  /\ \A i \in 0..(call.points - 1) :
       i % StageBits \in staged[i \div StageBits]
         <=> i < index /\ call.spec.kind \in answered[i + 1]

LongStateInvariant ==
  /\ LongStateTypeOK
  /\ result = "none" => PlanHolds /\ StageFollowsAnswers
  /\ LongStateReadIsWhole
=============================================================================
