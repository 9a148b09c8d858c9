----------------------------- MODULE SerialPort -----------------------------
(***************************************************************************)
(* HostSerialPort on POSIX (posix_serial.cpp) and Win32 (win32_serial.cpp):*)
(* open, close, write_all_until, drain_tx_until, read_some_until and       *)
(* flush_rx, one system call a step, with interrupted, short, blocked and  *)
(* failing system calls, and time that passes between any two of them.     *)
(*                                                                         *)
(* The caller is the request runner: a frame that was written is drained,  *)
(* and after a failed write or drain the port is closed (HostSync).  The   *)
(* driver's queues and the line are external.  Deadlines are kept as the   *)
(* signed time that is left, which is what remaining_timeout_ms computes;  *)
(* McClient and HostSync have the wrapping counter.                        *)
(***************************************************************************)
EXTENDS Integers, Sequences

CONSTANTS
  Platforms,   \* of "posix" and "win32"
  Size,        \* bytes of a frame
  MaxTimeout,  \* bound on the time a call is given
  MaxReceived  \* bound on the received bytes the driver holds

ASSUME SerialPortAssumption ==
  /\ Platforms \subseteq {"posix", "win32"}
  /\ Size \in Nat \ {0}
  /\ MaxTimeout \in Nat \ {0}
  /\ MaxReceived \in Nat

VARIABLES
  platform,
  port,           \* "closed" (fd_ < 0), "open" or, history, "doubtful": a write or a drain
                  \* of the open port did not succeed
  call, pc,       \* the call being executed and where it is; call "written": between
                  \* write_all_until and drain_tx_until
  left,           \* time to the deadline; Overdue when it has passed
  wait,           \* "remaining": the time a system call may still block
  total_written,
  previous,       \* previous_pending_, or None
  yielded,        \* previous_wait_was_yield_
  pending,        \* what the query of the queue returned
  received,       \* bytes ReadFile returned, or None when it failed
  result,         \* the status of the last call, "none" during a call
  out_queue,      \* environment: the bytes the driver holds
  wire,           \* environment: the bytes that left since the frame was begun
  in_queue        \* environment: the number of received bytes the driver holds

drainVars == <<previous, yielded, pending>>
deviceVars == <<out_queue, wire, in_queue>>
vars == <<platform, port, call, pc, left, wait, total_written, drainVars, received, result, deviceVars>>

Overdue == -1
None == -1

PortInit ==
  /\ platform \in Platforms
  /\ port = "closed"
  /\ call = "none" /\ pc = "none" /\ left = Overdue /\ wait = 0
  /\ total_written = 0 /\ previous = None /\ yielded = FALSE /\ pending = 0
  /\ received = 0 /\ result = "none"
  /\ out_queue = <<>> /\ wire = <<>> /\ in_queue = 0

Between == call = "none"

Return(code) ==
  /\ result' = code
  /\ pc' = "none"
  /\ call' = IF call = "write" /\ code = "Ok" THEN "written" ELSE "none"
  /\ port' = IF call \in {"write", "drain"} /\ code # "Ok" THEN "doubtful" ELSE port

Calling == <<call, result, port>>
GoTo(place) == pc' = place /\ UNCHANGED Calling

-----------------------------------------------------------------------------
(* open and close                                                          *)

\* What the driver still holds when the port is closed leaves, or is dropped.
CloseHandle ==
  /\ port' = "closed"
  /\ out_queue' \in {out_queue, <<>>}
  /\ UNCHANGED in_queue

\* Seeded defect: the queues of a port that is opened are not emptied.
BugOpen ==
  /\ Between
  /\ \/ result' = "InvalidArgument"
        /\ UNCHANGED <<port, out_queue, in_queue>>
     \/ result' \in {"InvalidArgument", "Transport"} /\ CloseHandle
     \/ /\ result' = "Ok"
        /\ port' = "open"
        /\ UNCHANGED <<out_queue, in_queue>>
  /\ UNCHANGED <<platform, call, pc, left, wait, total_written, drainVars, received, wire>>

\* A bad configuration leaves the port as it is.  Otherwise an open port is closed first, a
\* device that cannot be opened or configured is closed again, and the queues of one that can
\* are emptied.
Open ==
  /\ Between
  /\ \/ result' = "InvalidArgument"
        /\ UNCHANGED <<port, out_queue, in_queue>>
     \/ result' \in {"InvalidArgument", "Transport"} /\ CloseHandle
     \/ /\ result' = "Ok"
        /\ port' = "open"
        /\ out_queue' = <<>> /\ in_queue' = 0
  /\ UNCHANGED <<platform, call, pc, left, wait, total_written, drainVars, received, wire>>

Close ==
  /\ Between
  /\ port # "closed" /\ CloseHandle
  /\ result' = "none"
  /\ UNCHANGED <<platform, call, pc, left, wait, total_written, drainVars, received, wire>>

\* A call on a port that is not open.
NotConnected ==
  /\ Between
  /\ port = "closed"
  /\ result' = "NotConnected"
  /\ UNCHANGED <<platform, port, call, pc, left, wait, total_written, drainVars, received, deviceVars>>

-----------------------------------------------------------------------------
(* write_all_until                                                         *)

StartWrite ==
  /\ Between
  /\ port = "open"
  /\ call' = "write" /\ pc' = "check" /\ result' = "none"
  /\ left' \in Overdue..MaxTimeout
  /\ total_written' = 0 /\ wire' = <<>>
  /\ UNCHANGED <<platform, port, wait, drainVars, received, out_queue, in_queue>>

\* remaining_timeout_ms; SetCommTimeouts (Win32) may fail.
WriteCheck ==
  /\ call = "write" /\ pc = "check"
  /\ \/ total_written = Size /\ Return("Ok") /\ UNCHANGED wait
     \/ total_written < Size /\ left <= 0 /\ Return("Timeout") /\ UNCHANGED wait
     \/ /\ total_written < Size /\ left > 0
        /\ wait' = left
        /\ GoTo("io") \/ (platform = "win32" /\ Return("Transport"))
  /\ UNCHANGED <<platform, left, total_written, drainVars, received, deviceVars>>

\* write or WriteFile: the driver takes some of the bytes.
Accept ==
  /\ call = "write" /\ pc = "io"
  /\ \E n \in 1..(Size - total_written) :
       /\ out_queue' = out_queue \o [i \in 1..n |-> total_written + i]
       /\ total_written' = total_written + n
  /\ GoTo("check")
  /\ UNCHANGED <<platform, left, wait, drainVars, received, wire, in_queue>>

\* It takes none: interrupted or not ready (POSIX), no byte in time (Win32), or an error.
AcceptNothing ==
  /\ call = "write" /\ pc = "io"
  /\ \/ Return("Transport")
     \/ platform = "posix" /\ (GoTo("check") \/ GoTo("poll"))
     \/ platform = "win32" /\ left <= 0 /\ Return("Timeout")
  /\ UNCHANGED <<platform, left, wait, total_written, drainVars, received, deviceVars>>

\* poll for output: ready, interrupted, or an error or hang-up of the device.
WritePoll ==
  /\ call = "write" /\ pc = "poll"
  /\ GoTo("check") \/ Return("Transport")
  /\ UNCHANGED <<platform, left, wait, total_written, drainVars, received, deviceVars>>

\* poll for output or for input has waited for the time that remained.
PollExpires ==
  /\ pc = "poll" /\ wait <= 0
  /\ Return("Timeout")
  /\ UNCHANGED <<platform, left, wait, total_written, drainVars, received, deviceVars>>

-----------------------------------------------------------------------------
(* drain_tx_until: drain_tx_with_yield_first                               *)

StartDrain ==
  /\ call = "written"
  /\ call' = "drain" /\ pc' = "check" /\ result' = "none"
  /\ previous' = None /\ yielded' = FALSE
  /\ UNCHANGED <<platform, port, left, wait, total_written, pending, received, deviceVars>>

DrainCheck ==
  /\ call = "drain" /\ pc = "check"
  /\ IF left <= 0 THEN Return("Timeout") ELSE GoTo("query")
  /\ UNCHANGED <<platform, left, wait, total_written, drainVars, received, deviceVars>>

DrainQuery ==
  /\ call = "drain" /\ pc = "query"
  /\ \/ Return("Transport") /\ UNCHANGED pending
     \/ pending' = Len(out_queue) /\ GoTo("recheck")
  /\ UNCHANGED <<platform, left, wait, total_written, previous, yielded, received,
                 deviceVars>>

\* The wait policy: yield first, then sleep as long as nothing leaves.
MustSleep == yielded /\ ~(previous # None /\ pending < previous)

\* Timeout wins even when the queue is empty.
DrainRecheck ==
  /\ call = "drain" /\ pc = "recheck"
  /\ \/ left <= 0 /\ Return("Timeout") /\ UNCHANGED <<previous, yielded, wait>>
     \/ left > 0 /\ pending = 0 /\ Return("Ok") /\ UNCHANGED <<previous, yielded, wait>>
     \/ /\ left > 0 /\ pending > 0
        /\ previous' = pending /\ yielded' = ~MustSleep
        /\ IF MustSleep THEN GoTo("pause") /\ wait' = 1
           ELSE GoTo("check") /\ UNCHANGED wait
  /\ UNCHANGED <<platform, left, total_written, pending, received, deviceVars>>

\* Seeded defect: the loop sleeps for ever, once it sleeps, without looking at the deadline.
BugPauseEnds ==
  /\ pc = "pause" /\ out_queue = <<>>
  /\ GoTo("check")
  /\ UNCHANGED <<platform, left, wait, total_written, drainVars, received, deviceVars>>

PauseEnds ==
  /\ pc = "pause" /\ wait <= 0
  /\ GoTo("check")
  /\ UNCHANGED <<platform, left, wait, total_written, drainVars, received, deviceVars>>

-----------------------------------------------------------------------------
(* read_some_until and flush_rx                                            *)

StartRead ==
  /\ Between
  /\ port = "open"
  /\ call' = "read" /\ pc' = "check" /\ result' = "none"
  /\ left' \in Overdue..MaxTimeout
  /\ UNCHANGED <<platform, port, wait, total_written, drainVars, received, deviceVars>>

ReadCheck ==
  /\ call = "read" /\ pc = "check"
  /\ \/ left <= 0 /\ Return("Timeout") /\ UNCHANGED wait
     \/ /\ left > 0 /\ wait' = left
        /\ \/ platform = "posix" /\ GoTo("poll")
           \/ platform = "win32" /\ (GoTo("file") \/ Return("Transport"))
  /\ UNCHANGED <<platform, left, total_written, drainVars, received, deviceVars>>

\* poll for input: ready, interrupted (a success without bytes), or an error or hang-up.
ReadPoll ==
  /\ call = "read" /\ pc = "poll"
  /\ (in_queue > 0 /\ GoTo("take")) \/ Return("Ok") \/ Return("Transport")
  /\ UNCHANGED <<platform, left, wait, total_written, drainVars, received, deviceVars>>

\* read: bytes, none because it is interrupted or another reader has them, or an error.
ReadTake ==
  /\ call = "read" /\ pc = "take"
  /\ \/ \E n \in 0..in_queue : in_queue' = in_queue - n /\ Return("Ok")
     \/ Return("Transport") /\ UNCHANGED in_queue
  /\ UNCHANGED <<platform, left, wait, total_written, drainVars, received, out_queue,
                 wire>>

\* ReadFile: bytes, or an error.
ReadFile ==
  /\ call = "read" /\ pc = "file"
  /\ \/ \E n \in 1..in_queue : in_queue' = in_queue - n /\ received' = n
     \/ received' = None /\ UNCHANGED in_queue
  /\ GoTo("restore")
  /\ UNCHANGED <<platform, left, wait, total_written, drainVars, out_queue, wire>>

\* ReadFile has waited for the time that remained.
FileExpires ==
  /\ call = "read" /\ pc = "file" /\ wait <= 0
  /\ received' = 0
  /\ GoTo("restore")
  /\ UNCHANGED <<platform, left, wait, total_written, drainVars, deviceVars>>

\* The non-blocking timeouts are restored first; that failure wins over what was read.
ReadRestore ==
  /\ call = "read" /\ pc = "restore"
  /\ \/ Return("Transport")
     \/ received # None /\ Return(IF received = 0 /\ left <= 0 THEN "Timeout" ELSE "Ok")
  /\ UNCHANGED <<platform, left, wait, total_written, drainVars, received, deviceVars>>

FlushRx ==
  /\ Between
  /\ port = "open"
  /\ \/ result' = "Ok" /\ in_queue' = 0
     \/ result' = "Transport" /\ UNCHANGED in_queue
  /\ UNCHANGED <<platform, port, call, pc, left, wait, total_written, drainVars, received, out_queue,
                 wire>>

-----------------------------------------------------------------------------
(* The line and time.                                                      *)

ByteLeaves ==
  /\ out_queue # <<>>
  /\ wire' = Append(wire, Head(out_queue))
  /\ out_queue' = Tail(out_queue)
  /\ UNCHANGED <<platform, port, call, pc, left, wait, total_written, drainVars, received, result,
                 in_queue>>

ByteArrives ==
  /\ in_queue < MaxReceived
  /\ in_queue' = in_queue + 1
  /\ UNCHANGED <<platform, port, call, pc, left, wait, total_written, drainVars, received, result,
                 out_queue, wire>>

Blocking == pc \in {"poll", "pause", "file"} \/ (pc = "io" /\ platform = "win32")

Tick ==
  /\ call # "none"
  /\ left > Overdue \/ (Blocking /\ wait > 0)
  /\ left' = IF left > Overdue THEN left - 1 ELSE left
  /\ wait' = IF Blocking /\ wait > 0 THEN wait - 1 ELSE wait
  /\ UNCHANGED <<platform, port, call, pc, total_written, drainVars, received, result, deviceVars>>

WriteStep == WriteCheck \/ Accept \/ AcceptNothing
DrainStep == StartDrain \/ DrainCheck \/ DrainQuery \/ DrainRecheck \/ PauseEnds
ReadStep == ReadCheck \/ ReadTake \/ ReadRestore

PortNext ==
  \/ Open \/ Close \/ NotConnected
  \/ StartWrite \/ WriteStep \/ WritePoll
  \/ PollExpires
  \/ DrainStep
  \/ StartRead \/ ReadStep \/ ReadPoll \/ ReadFile \/ FileExpires
  \/ FlushRx
  \/ ByteLeaves \/ ByteArrives \/ Tick

PortSpec == PortInit /\ [][PortNext]_vars

\* The calling thread runs, time passes, and the system ends a wait when its time is over;
\* nothing is assumed of the line.
PortFairSpec ==
  /\ PortSpec
  /\ WF_vars(WriteStep) /\ WF_vars(DrainStep) /\ WF_vars(ReadStep)
  /\ WF_vars(PollExpires) /\ WF_vars(FileExpires)
  /\ WF_vars(Tick)

-----------------------------------------------------------------------------
(* Properties.                                                             *)

Sending == call \in {"write", "written", "drain"}

Stage ==
  IF port # "open" THEN port
  ELSE IF Sending THEN "sending" ELSE IF call = "read" THEN "receiving" ELSE "idle"

Promise == INSTANCE FrameTransmission WITH stage <- Stage, passed <- left <= 0

\* The port keeps its promise to the runner: drain_tx_until succeeds only for a frame that
\* left whole, once and in order, whatever short and interrupted writes made of it and whatever
\* an earlier frame left in the driver; Timeout is reported only after the deadline, although
\* poll and ReadFile are given a time that was measured earlier; nothing leaves an idle port.
KeepsPromise == Promise!TransmissionSpec

\* Every call ends, though a signal may interrupt every system call and not a byte leaves.
PortCallsEnd == (call \in {"write", "drain", "read"}) ~> (call \in {"none", "written"})

(* The inductive invariant behind KeepsPromise.                            *)

PortTypeOK ==
  /\ platform \in {"posix", "win32"}
  /\ port \in {"closed", "open", "doubtful"}
  /\ call \in {"none", "write", "written", "drain", "read"}
  /\ pc \in {"none", "check", "io", "poll", "query", "recheck", "pause", "take", "file",
             "restore"}
  /\ left \in Int /\ wait \in Int
  /\ total_written \in 0..Size
  /\ pending \in Nat
  /\ result \in {"none", "Ok", "InvalidArgument", "NotConnected", "Transport", "Timeout"}
  /\ out_queue \in Seq(Nat) /\ wire \in Seq(Nat)

\* Doubt and calls belong to an open port, and a doubtful port executes no call.
CallsFollowPort ==
  /\ call # "none" => port = "open"
  /\ call \in {"none", "written"} => pc = "none"
  /\ call = "write" => pc \in {"check", "io", "poll"}
  /\ call = "drain" => pc \in {"check", "query", "recheck", "pause"}
  /\ call = "read" => pc \in {"check", "poll", "take", "file", "restore"}

\* The driver holds the bytes that follow those on the wire.
BytesInOrder ==
  /\ \A i \in 1..Len(wire) : wire[i] = i
  /\ \A i \in 1..Len(out_queue) : out_queue[i] = Len(wire) + i
  /\ Len(wire) + Len(out_queue) <= Size
  /\ port = "open" /\ Sending => total_written = Len(wire) + Len(out_queue)
  /\ call \in {"written", "drain"} => total_written = Size
  /\ port = "open" /\ ~Sending => out_queue = <<>>
  /\ call = "drain" /\ pc = "recheck" => pending >= Len(out_queue)

\* No wait is over before the deadline.
WaitsLongEnough == pc \in {"poll", "file"} \/ (call = "write" /\ pc = "io") => wait >= left

PortInvariant == PortTypeOK /\ CallsFollowPort /\ BytesInOrder /\ WaitsLongEnough
=============================================================================
