# Verification of the MC-protocol serial client

TLA+ models, TLC runs and TLAPS proofs for `plc-comm-mcprotocol-serial-cpp`, a C++ library
that talks the MELSEC communication protocol (MC protocol, 1C to 4C frames) to Mitsubishi
PLCs over a serial line. Paths below are relative to the repository (`src/`).

- [1. The system](#1-the-system)
- [2. The modules](#2-the-modules)
- [3. The runs](#3-the-runs)
- [4. The proofs](#4-the-proofs)
- [5. Where documentation and code disagree](#5-where-documentation-and-code-disagree)
- [6. What the models showed about the protocol](#6-what-the-models-showed-about-the-protocol)
- [7. What is not modelled](#7-what-is-not-modelled)
- [8. Plan](#8-plan)

## 1. The system

```
      examples, tools/mcprotocol_cli.cpp            user's firmware
                 |                                        |
        HostSyncClient (blocking)          ESP32 facade, UART client (update())
        host_sync.cpp, _runner.hpp         mcprotocol_serial_arduino_esp32.hpp,
                 |        \                detail/uart_client.hpp
                 |         \                   |         |
                 |    PosixSerialPort,         |      UART driver
                 |    Win32SerialPort          |
                 |                             |      high_level.hpp operations
                 +------------+----------------+-----------/
                              |
                     MelsecSerialClient (client.cpp)
                      |                  |
              FrameCodec            CommandCodec          (codec.cpp)
```

Nothing in the library starts a thread. All the concurrency is between one application
loop, the transport below it, the clock and the PLC. The caller passes `now_ms` to the core
and calls it in any order its own scheduler produces, so the hard behaviours are the
orders of calls and of line events, not shared memory.

### 1.1 MelsecSerialClient, `src/client.cpp`, `include/mcprotocol/serial/client.hpp`

*State.* The configuration and whether it is valid; the request in flight (`busy_`,
`awaiting_write_complete_`, `tx_started_`, the operation and its decoder's context); the
deferred verdicts `tx_timeout_latched_` and `cancel_requested_during_tx_`; the transaction,
inter-byte and compound deadlines on a wrapping 32-bit counter; the received but undecided
bytes `rx_frame_`; the Format2 block number; the monitor registrations; the RS-485 hooks
and whether the driver is on; `transport_reset_required_`. And for the answer: the request
or a copy of its items, in a member per kind of request that some kinds share; the spans of
the caller's buffers; the two registered monitor lists.

*Operations.* `configure`, `set_rs485_hooks`, some fifty `async_*` functions,
`notify_tx_started`, `notify_tx_complete`, `on_rx_bytes`, `notify_rx_failure`, `poll`,
`cancel`, and `begin_`/`end_compound_deadline` for operations of two requests.

*Hard behaviour.* A deadline or a cancellation reached while bytes are leaving must be
deferred until the transport says that they stopped, or the RS-485 driver is dropped in
the middle of a frame. A late answer to an abandoned request must not be taken for the
next one's. A write whose answer is missing has an unknown outcome. Deadlines cross the
wrap of the counter. `transport_reset_required_` is assigned, not or-ed, in five places.
Requests, copies and spans are stored while the request can still be refused, and the ways
out of a request clear different parts of them.

*Correct means.* One completion for each admitted request, in the end; the driver is on
exactly while a frame is sent; timeouts are neither early nor lost to a late success;
a definite failure status is never given for a write that may have happened; after an
ambiguous end nothing is sent before a reconfiguration; every value of an answer arrives in
the cell it was asked for, of the buffer passed with that very request.

### 1.2 FrameCodec, `src/codec.cpp` 1886-1929 and 2360-3534, and the stream scanner, `client.cpp` 60-230

*State.* None in the codec; the scanner keeps an undecided suffix of the stream.
*Operations.* Tell whether a request and its answer fit, encode a request, decode one response at
the front of a buffer (`Complete`, `Incomplete`, `Error`), for five formats (ASCII with ENQ, with block number, with STX/ETX,
with CR LF, and binary with DLE stuffing), with or without a sum check.
*Hard behaviour.* Noise, foreign stations' frames and late answers precede the answer, in
any chunks; data may look like a frame's start. *Correct means.* The answer and only the
answer is accepted, whatever the cut; the scan ends; what is kept may still be a frame.
And the sizes that are checked beforehand are those of the frames that are written, DLEs doubled
and all: what is admitted fits, and what fits is admitted.

### 1.3 CommandCodec, `src/codec.cpp` 3540-6994

*State.* None. *Operations.* Validate and lay out the payload of each command, and parse
its response: device codes and numbers, ASCII or binary, counts and limits per PLC series.
*Hard behaviour.* Limits at boundaries, odd counts of bits and nibbles, arithmetic on
device numbers. *Correct means.* What is built and parsed agree about sizes and order, and
no accepted request exceeds a limit.

### 1.4 HostSyncClient, `src/host_sync.cpp`, `src/host_sync_runner.hpp`

*State.* The core client, the port, and for the duration of a call the runner's position.
*Operations.* `open`, `close`, one blocking call per request, `write_bit_in_word` and
other calls of several requests. `run_synchronous_request` flushes, starts, writes,
drains, and then loops over waiting and reading up to the nearer of two deadlines.
*Hard behaviour.* Each port call may fail or time out, and the core's own deadline may pass
between any two lines. *Correct means.* Core and runner never disagree on the step of the
request, a doubtful port is closed, the caller is told the core's verdict, and every call
returns.

### 1.5 Serial ports, `src/posix_serial.cpp`, `src/win32_serial.cpp`, `detail/yield_first_wait.hpp`

*State.* A descriptor or handle. *Operations.* Open, close, `write_all_until`,
`drain_tx_until`, `read_some_until`, flush and line settings. *Correct means.* Each bounded
call ends by its deadline and says truly which of success, failure and timeout it was; a
frame reported as drained has left whole, with nothing of an earlier frame before it.
*Hard behaviour.* System calls that are interrupted, short, blocked or failing; a driver that
still holds bytes of an abandoned frame; time measured before a wait and used after it.

### 1.6 UART client and ESP32 facade, `detail/uart_client.hpp`, `mcprotocol_serial_arduino_esp32.hpp`

*State.* The core, and beside it flags of its own: `active_`, `tx_started_`,
`tx_finished_`, `tx_offset_`. *Operations.* `begin`, `configure`, `recover`, `end`, the
requests, `update()` (one non-blocking pass: poll, deadline, write some, test the drain,
report, receive, poll) and `cancel`. *Hard behaviour.* The hardware still holds bytes when
the core ends a request; the driver can be uninstalled by others at any time; two copies
of the progress can drift apart. *Correct means.* The two agree between passes; no byte
leaves outside a transmission; a doubtful UART is not reused without a reopening.

### 1.7 High-level operations, `high_level.hpp`, `detail/long_state_aggregate.hpp`

*State.* Per operation, the phase, a buffer and the caller's callback. *Operations.*
`BitInWordWriteOperation` reads a word, changes a bit and writes it, starting the write from
the callback of the read. `read_long_timer_counter_state_bits` reads a status block per
point, stages one bit of each and hands all of them over at the end.
*Correct means.* Nobody gets between the two requests, they share one deadline, and the
compound deadline is given back on every path; a long-state read delivers all or nothing.

### 1.8 Command-line tool, `tools/mcprotocol_cli.cpp`

*State.* The parsed options, one client, one port, and for a probe what it has backed up,
its counters and flags. *Operations.* Some seventy commands, each a sequence of blocking
requests: single requests, grouped writes of a list of items, and probes that back up,
write, verify and restore devices of a live PLC. *Hard behaviour.* A request fails in the
middle of a probe or of a list; stale bytes are discarded for as long as they come; after a
doubtful request the client may demand a reset and refuse the one that would restore, or, over
Format2, let the tool go on without knowing what was written. *Correct means.* The exit code
says what happened, a probe leaves the PLC as it found it, the writes of a list arrive
in order, and the tool ends.

### 1.9 The rest

`examples/`, `scripts/`, `docsrc/` and the tests. They hold no protocol state of their own.

## 2. The modules

| Module | Models | Extends |
| --- | --- | --- |
| `McClient` | the request state machine, every public operation that changes it | |
| `RequestLifecycle` | what a request promises: the abstract specification | |
| `McLink` | `McClient` with a serial line and a PLC (both external) | `McClient` |
| `HostSync` | HostSyncClient and the runner, driving `McClient` over a failing port | `McClient` |
| `UartClient` | facade and `update()`, driving `McClient` over a UART | `McClient` |
| `BitInWord` | the two-request write over `McClient` | `McClient` |
| `AnswerDelivery` | what the client promises about data: the abstract specification | |
| `PendingAnswers` | members, copies, spans and monitor lists behind the answers; the order of items in frames; implements `AnswerDelivery` | |
| `FrameTransmission` | what a port promises to the runner: the abstract specification | |
| `SerialPort` | both ports, one system call a step, over a driver (external); implements `FrameTransmission` | |
| `LongStateRead` | the one blocking read made of several requests | |
| `CliScripts` | the handler of each command as a script of requests | |
| `CliSession` | one execution of the tool: options, port, script or grouped writes, exit code | `CliScripts` |
| `ResponseFrames` | the codec's response encoder and decoder, as operators | |
| `ResponseScanner` | the loop of `on_rx_bytes`, which looks for the answer in a stream | `ResponseFrames` |
| `FrameSizes` | what the capacity checks admit, and the sizes of the frames of request and answer, as operators | `ResponseFrames` |
| `McClientProofs`, `McLinkProofs`, `SerialPortProofs`, `PendingAnswersProofs`, `CliSessionProofs` | theorems about the module of that name | the module, `TLAPS` |
| `FrameCodecProofs` | theorems about `ResponseFrames`, `ResponseScanner` and `FrameSizes` | both, `TLAPS` |
| `TransportProofs` | theorems about `HostSync` and `UartClient`, what drives a client over a transport | both, `McClientProofs` |
| `HighLevelProofs` | theorems about `BitInWord` and `LongStateRead`, operations of several requests | both, `McClientProofs` |
| `MC*` | constants for TLC | the module |

`Bug...` operators, each beside the definition it varies, are seeded defects. They are used
nowhere in the specifications; the file PROJECT.json pairs each with the property that
detects it.

### How the core model reads the code

Each action of `McClient` is one public call with its early returns. A call that is
rejected or finds nothing to do is `Rejected`, which may happen at any time, so no order of
calls is excluded. Several names carry over with their underscore dropped (`busy`,
`tx_timeout_latched`, `transport_reset_required`). The rest:

- The parser's result is a nondeterministic verdict. `OnRxBytes(size)` chooses among all the
  ends of the handler: expired first, overflow of `rx_frame_`, bytes kept, decode error, PLC
  error, success, parse failure. The scanner behind that verdict is a module of its own.
- `now` is the counter the application passes, modulo `2 * HalfRange`; `DeadlineReached` is
  the signed comparison of `protocol_predicates.hpp`. `tx_age`, `rx_age` and `compound_age`
  are history variables that measure real time, so that properties about deadlines are
  not stated in the arithmetic under test.
- `callback` is the completion delivered by the step, a code and a cause, the cause being
  that of `OperationOutcomeUnknown`.
- Operations keep their identity, because `active_operation_outcome_can_be_unknown` and
  the monitor slots depend on it; their arguments do not appear.
- `driver_on` stands for the last RS-485 hook called.

`HostSync`, `UartClient` and `BitInWord` extend `McClient` and make every step of theirs
conjoin a core action with the layer's own assignments. Where the code calls two core
operations in a row they are two steps, with the clock free to advance between.
`HostSync!host_step` and `UartClient!step` are the position in the runner and in `update()`;
`BitInWord!op_phase` is what the operation waits for, or the callback it is in.

`McLink` adds a line that loses, garbles and delays frames, first in first out, a PLC that serves the
oldest request, accepts or refuses it or never sees it, and ghosts for whose answer is
whose. Without a block number in the frame, an answer of a former request is
indistinguishable.

`ResponseFrames` gives each byte a meaning rather than a value (`<<"STX">>`, a hex digit, the
two sum characters with the bytes they cover), so that a checksum matches exactly when it
covers the same bytes. Frame structure, order of tests, stuffing, resynchronisation and
sizes consumed are the code's.

`PendingAnswers` is the data path that `McClient` leaves out. `kept` has a field for each member
or copy of the code, under the name of the read that owns it; `spans` one for each `out_*_`.
An item is one point or block, known by its device, which stands for its value; `second`
marks the second group of a split request (double words, or bit blocks). `Started`,
`StartRefused` and `EncodeFails` are the three ways out of an `async_*` function once it has
stored something. `Parsed(n)` is what the buffers hold when a parser stopped after n values,
since the parsers write to the caller's buffer as they go. `asked` and `memory` are the
program's side.

`SerialPort` has the position in the call as `pc`, the driver's queue as the positions of the
frame's bytes, and deadlines as the signed time that is left (what `remaining_timeout_ms`
computes; the wrapping counter is in `McClient` and `HostSync`). The caller is the runner:
it drains what it wrote and closes the port after a failure. A port that was in
the middle of a frame when a call failed is `doubtful`, a history value.

`LongStateRead` makes a step of each request and lets the PLC answer anything. A staging byte
is the set of its bits that are on.

`ResponseScanner` lays out the line first, `Disturb` for each piece and `Reply` for the answer,
and then lets the client have it in chunks: `OnRxBytes` takes the next bytes and `ScanRound` is one
round of the loop, which drops a prefix (`DiscardRxPrefix` with its own test of the size),
waits for more, or ends the request. The client knows only what it was given, so laying out
the line first leaves no behaviour out.

`FrameSizes` has operators and no state. On one side are the sizes of the two capacity checks, with the
tables of lengths they use, and on the other the frames as the encoders write them, piece by
piece; `doubled` is how many bytes of a binary frame are DLEs. Since a `ByteWriter` only grows, the
encoder fails exactly where the whole is larger than the buffer. The PLC's answers are framed as the
codec's own response encoders do it.

`CliScripts` gives each command a sequence of steps: what kind of request, which role it has
in a probe (backup, test, verify, restore, recheck), and how many steps a failure or a value that
differs skips, or that it ends the tool. `CliSession` executes it. `write-words` and
`write-bits` are a loop over their arguments: `ParseItem` takes the next one, after the `group`
was written if it does not follow or there is no room, and `AppendItem` adds it. The client is
reduced to what the next admission depends on. How it is left by a request whose fate is unknown
depends on the end: a deadline or a failing port (`EndTransmit`, `Unanswered`) always demands a
reset, while bytes that are no answer (`Garbled`) leave it ready when the frame carries a block
number (`format2`), by `client.cpp:381`, `415` and `433`, and also when a read's answer could be
decoded but does not fit (`AfterGarbled`). The PLC is `CellCount` cells with one of the
`Contents`, its program may overwrite up to `MaxOverwritten` of them, and the line may carry
bytes that belong to nobody before each request.
The probes that go through a table of devices take the table from the constant `Targets`
(`EachTarget` is their loop); the trials of the random-write probes and the blocks of
`probe-multi-block` are fixed in the code and in the model.

## 3. The runs

| Run | Distinct states | Asks |
| --- | --- | --- |
| `client` | 73,936 | the core under every order of calls: all of its properties, termination, refinement of `RequestLifecycle` |
| `link` | 352,648 | whose answer is accepted; do verdicts and monitor lists agree with the PLC |
| `host` | 172,680 | blocking calls over a failing port |
| `host_doc_timeout` | violation | does every timeout close the port, as documented? (section 5) |
| `uart` | 36,856 | the facade over a slow, failing UART |
| `scanner` | 169,053 | finding the answer among disturbances |
| `bit_in_word` | 55,872 | the bit write over one client |
| `answers` | 203,652 | where the values of an answer go: refinement of `AnswerDelivery` |
| `answers_doc` | violation | is a refusal without effect, as documented? (section 5) |
| `port` | 222,086 | what the success of a transmission means on both systems: refinement of `FrameTransmission` |
| `long_state` | 9,117 | the read of several requests: all or nothing |
| `cli` | 1,250,148 | what a run of the tool leaves behind and what its exit code claims |

What the properties say, each stated again above its definition:

- `client`: `DriverOwnership`, RS-485 driver on exactly during a transmission;
  `ResetOnlyByConfigure`, a demanded reset survives everything but `configure`;
  `HonestOutcome`, no definite failure for a state-changing request
  that may have left; `LatchedTimeoutWins`, `NoEarlyTimeout`, `AnsweredInTime`, timeouts
  by real time; `UnansweredRetiresTransport`; `RequestsEnd`; `ImplementsLifecycle`.
- `link`: `AnswerBelongsToRequest`, `DefiniteFailureIsTrue`, `VerdictIsTrue`, `MonitorListsAgree`.
- `host`: `RunnerFollowsClient`, `ReadWakesInTime`, `DoubtfulPortIsClosed`,
  `ReturnsTheVerdict`, `CallsReturn`.
- `uart`: `FacadeFollowsCore`, `WireIsOwned`, `AwaitedFramesWereSent`,
  `DoubtfulUartIsNotReused`, `UartRequestsEnd`.
- `scanner`: `OnlyTheAnswerIsAccepted`, `AnswerIsFound`, `ScanEnds`. Its module also has TLC evaluate
  two assumptions about `FrameSizes`, `RequestsFit` and `AnswersFit`, which are theorems of section 4.
- `bit_in_word`: `ClientIsHeld`, nobody gets between the two requests and the compound deadline
  is given back on every path (its conjunct `DeadlineIsOwned`; `BitWritesEnd` alone would not
  notice one left behind); `HonestBitWrite`, `OneDeadlineForBoth`, `BitWritesEnd`.
- `answers`: `DeliversAnswers`, every value in its own cell and nothing else written; a
  request that fails touches only its own buffer; a monitor read goes by the list the PLC
  confirmed last.
- `port`: `KeepsPromise`, success of write and drain means that the whole frame left, once,
  in order, with nothing before it, Timeout only after the deadline, nothing sent by a
  doubtful or idle port; `PortCallsEnd`.
- `long_state`: `LongStateReadIsWhole`, every state in its own place, or the buffer
  untouched, and no plan refused half way.
- `cli`: `RouteIsExplicit`, the route options accepted are those the frame header carries;
  `CleanExitRestores`, what a probe leaves behind that exits with 0, with the one exception the
  code makes (`StrandedByFormat2`, section 6); `ProbeLeavesNoTrace`, what a random-write or
  multi-block probe leaves behind however it ends, a doubtful test write and a client that
  still sends included; `ExitCodeIsHonest`, which the tolerant probes are exempt from;
  `WritesArriveInOrder`; `CliEnds`.

The type invariants are parts of the inductive invariants of section 4, which are proved and not
among the properties of the runs. Each of them was model-checked with the constants of its run
before it was proved.

### Bounds, and why they are enough

- *Clock.* `HalfRange = 4` (a counter of 8 values), `ResponseTimeout = 3`,
  `InterByteTimeout = 2`: the largest response timeout that `is_wrap_safe_timeout_ms` allows,
  and a shorter inter-byte one. Every request can begin at every value, so each deadline
  crosses the wrap, the sign change and zero. `link` needs time only to tell in-time from
  late: `HalfRange = 2` and timeouts of 1. `Serviced` is the one assumption on time: the application
  makes its next call before the signed comparison becomes ambiguous, half the counter's
  range, 24.8 days, after transmission or a compound operation began.
- *Blocks.* `BlockModulus = 2` (two numbers), enough for the counter to wrap and for
  "same" and "other". In `link` it is 3, with `BlocksDistinguish`: no frame outlives
  `BlockModulus - 1` admissions, for the code 255 requests. A number alone cannot
  distinguish more than that. `BitInWord` reads no block number: 1.
- *Bytes.* `RxCapacity = 2` with chunks of up to 3: empty, partial, full, overflowing.
  `FrameSize = 2`: none, some, all of a frame written.
- *Operations.* `client` takes one of each class the code tells apart: read, write,
  registration, monitor read, send-only. The other runs take those their properties
  distinguish. The theorems cover every set.
- *Line.* `MaxOutstanding = 2` frames of former and current requests in flight.
- *Scanner.* Two disturbances before the answer, from ten kinds, thirteen with
  block numbers (noise, a stray start byte, whole frames of other stations and late ones of
  this station, cut, misheaded or damaged frames), then the
  answer, in all five formats, with and without sum check, with all three kinds of answer,
  in every division into chunks. Interactions between a disturbance and its
  neighbour on either side are all there. Three disturbances (2,757,038 states) show no more.
- *Sizes of frames* (in `scanner`). Buffers of 40 and 42 bytes for frames and of 32 for data, and
  every size of data from 0 to 34: each limit is met exactly and passed, in all 32 protocols (frame family,
  format, sum check). The smallest build profile has 256 bytes (`CMakeLists.txt:53-54`) with the same
  headers. The theorems cover every size.
- *Answers.* Six kinds: a plain read, a split read, a registration and the read that goes
  by it (which share the copy of random reads), loopback, and a write that is judged by
  another kind's member. Two buffers of three cells, two lists of two items, one of them with
  a bit block before a word block. `Capacity = 2`; `answers_doc` adds a list of three, which does
  not fit. The theorems cover every set of kinds, lists and buffers.
- *Ports.* A frame of three bytes: one, some or all of it written, queued, left. Two units of
  time per call, one received byte in the driver.
- *Long state.* Six device numbers of which a frame can name five, a staging byte of three bits
  and up to four points: the plan ends beyond either limit, and the bits cross a byte.
- *Command line.* Every command with every outcome of every request, with and without block
  numbers. The PLC program overwrites up to two of the four cells (`MaxOverwritten`). Groups of up to two
  (`MaxGroup`) and lists with a full group and one more, a gap, a device named twice and a
  descending list. Four cells, the least that `probe-multi-block` needs, and two targets, a
  first one and one that follows. Neighbouring cells hold different values at the start, and
  each holds 0 in one of the two `Contents` and 1 in the other: a test value that happens to be
  the old value occurs as well as one that differs. The theorems cover every number of cells,
  every table of targets, all contents, every `MaxGroup`, every `MaxOverwritten` and every set
  of lists.
- *Deadlock checking* is off in `scanner` and `cli`, which end with a verdict and an exit code.

### Fairness

- `client`: weak fairness of `Tick`, of `NotifyTxStarted`, of `NotifyTxComplete` with some
  code, and of `Poll`. These are the application's duties in `client.hpp` 18-45: report each
  start and end of transmission and keep calling `poll()`. No fairness of any byte.
- `host`: weak fairness of the next statement of the runner and of the clock. Port calls
  take a deadline and end by it with some result; any of them may fail.
- `uart`: weak fairness of a statement of `update()` and of the clock; the application's
  loop, or the facade's own `wait()`, keeps calling `update()`. The wire need never drain.
- `bit_in_word`: the client's duties, and that a callback which began goes on to its end.
- `port`: the calling thread runs, time passes, and the system ends a wait when its time is
  over. A signal may interrupt every system call and not a byte need leave.
- `cli`: the tool is one thread whose port calls return in time (`port` and `host` show
  that), and the line falls quiet: `discard_stale_rx` reads until two reads in a row time out,
  and has no deadline over the loop.

But for this last one nothing is assumed of the line or the PLC: every liveness property
holds although no answer may ever arrive.

## 4. The proofs

TLAPS checks the theorems for every value of the constants that meets the named
assumptions: `ClockAssumption` (timeouts between 1 and less than half the counter),
`ClientAssumption` (a nonempty block range and buffer, operations of the known kinds, transport
failures that are failures), `HostAssumption` (the two requests of a bit write are among the
operations; a port may report Transport and Timeout), `UartAssumption` (a frame is not empty;
the failures `update()` reports), `BitAssumption` (each route's read and write are operations).
`SerialPortAssumption`, `LongStateAssumption`, `LinkAssumption` (sizes are positive),
`AnswersAssumption` (the kinds are the client's, a list fits a buffer, as the output-size checks
of `async_*` demand), `CliScriptsAssumption` (a group holds at least one item, the lists of
items are nonempty sequences of items, the targets are devices, and there are the four devices
of `probe-multi-block`), `CliSessionAssumption` (every device holds 0 or 1, and
`MaxOverwritten` is a number),
`FrameSizesAssumption` (sizes are numbers, and `rx_frame_` has room for the longest ASCII error
answer, 27 bytes). `ResponseScanner` needs none.
Each is what the code validates or declares, but for the 27 bytes: nothing in the code
enforces them, and the smallest build profile has 256.

**McClientProofs.** `InductiveInvariant` has six parts:

- `TypeOK`;
- `RequestShape`: a request is queued, sending or awaiting its answer, and which flags go
  with which; most handlers test only one of the flags and rely on the others;
- `DriverOwnership`;
- `ResetWhileBusyIsLatched`: a reset is demanded of a busy client only together with a
  latched timeout, and this is why assigning `transport_reset_required_` at completion
  cannot lose a demand;
- `RetainedBytesAreWatched`: an inter-byte deadline runs exactly when bytes are retained, and
  only for a request that awaits its answer;
- `DeadlinesTrackTime`: each deadline, less `now`, equals the timeout less the real age,
  modulo the counter. Without it nothing about the wrapping comparison follows; with it
  and `Serviced`, `DeadlineReached` is `age >= timeout` (lemmas over `%`).

Each action preserves it, one step each. The action properties then follow by way of
`CompletionCases`: a step that delivers a completion is a withdrawal before
transmission, an unanswered end, or a conclusion by an answer, and each case fixes
the status and the reset flag. `RefinesLifecycle` maps each step to a step of
`RequestLifecycle` or a stutter.

**McLinkProofs.** `LinkNext` is a step of the client or leaves it alone (`LinkRefinesClient`), so
the client's invariant is at hand. `LinkInvariant` adds what can be on the way:

- `FramesInOrder`: PLC and line keep the order of the requests, at most one frame for each;
- `ActiveFramesAreTrue`: what the frames of the active request say agrees with what the PLC did;
- `BlocksTellAges`: in Format2 the block number of a frame tells its age, with
  `BlocksDistinguish` the only thing that identifies a late answer;
- `NoLateAnswers`: in the other formats a transport that is not retired has no late answer on
  it; this is what `transport_reset_required_` is for, and it rests on the core's theorems;
- `RegistrationIsSettled`: a registration the client relies on is the PLC's, and no frame on
  the way can replace it.

Each action preserves it; that a matching answer at the head of the line is the active
request's is then a lemma, and the three action properties follow from it.

**TransportProofs, HighLevelProofs.** For `HostSync`, `UartClient` and `BitInWord` it is first
proved that every step of the layer is a step of `McClient` or leaves it unchanged: `HostRefinesClient`,
`UartRefinesClient`, `BitRefinesClient` (`HostSpec => Spec` and so on). All the theorems
of the core therefore hold under the layer. Then the layer's invariant:

- `HostInvariant`: the runner's position determines the core's request flags; in a read,
  the deadline slept to is the nearer of the two (`SleepsToNearer`, which carries the
  wrap-safe choice across later steps); a doubtful port is closed. `ReturnsTheVerdict`
  follows for each returning step.
- `UartInvariant`: for every statement of `update()`, what facade and core flags it implies.
  The facade's three flags can be proved to follow the core only between passes, hence the
  per-statement form.
- `BitInvariant`: the compound deadline is active exactly when the operation is
  (`DeadlineIsOwned`), with the position of the client in each phase.

`LongStateRead` has no client to refine. `LongStateInvariant`: the stage holds the answers so far, bit by bit,
and the plan covers every point still to come. `OwnBit` and `ByteInStage` are the arithmetic:
two points never share a bit of a byte, and every point's byte is in the stage.

**SerialPortProofs.** `PortInvariant`: calls belong to an open port that is not in doubt
(`CallsFollowPort`); driver and wire together hold the bytes written so far, in order, and an
idle port holds none (`BytesInOrder`, which needs that `open` empties the queues and that
every failed transmission leaves the port in doubt); no wait is shorter than the
time left when it began (`WaitsLongEnough`), without which Timeout could come early.
`PortKeepsPromise` maps each step to a step of `FrameTransmission` or a stutter.

**PendingAnswersProofs.** `ParsedAsEncoded` is the lemma about the codec: the counting of the
two passes of a parser gives each item the place the encoder gave it, for every list. Then
`AnswersInvariant`: in flight, what the client kept is what was asked (`FlightIsRemembered`,
which cannot be said between requests, when refused ones leave members filled), and a
registered list is the PLC's in the order of its frame (`MonitorListsMatch`, which needs
that a registration gives up the old list when it starts, not when it is answered).
`AnswersAreDelivered` maps each step to a step of `AnswerDelivery` or a stutter.

**CliSessionProofs.** `CliInvariant` has, besides two of the properties:

- `PhasesFit`: nothing has happened before the script begins, an exit code is there only at the exit,
  and a request in flight is one of the script's or a group's;
- `GroupIsRecent`: the group is the last items taken, of devices that follow one another;
- `GroupIsNext`: the items before the group have been written, and no other. With `GroupIsRecent`
  this gives `WritesArriveInOrder` for every list and every `MaxGroup`;
- `FailuresAreKept`: a failure ends the tool or is counted. That a script which ends with "finished"
  never goes on after a failure is a property of the tables (`ScriptsAbort`), proved table by table.

What the write probes leave behind needs an invariant of its own, since `CleanExitRestores` and
`ProbeLeavesNoTrace` say nothing before the exit. `ProbeInvariant` tells, for each step of
the script, what may differ from how the tool found it:

- `OnlyOwedDiffers`: while the PLC program keeps out, what is backed up is what was there, and
  only devices which the script still restores before it does anything but verify (`Owed`)
  differ. A test write whose fate is unknown may have been executed, and its devices are owed
  where the script goes on to. At the end of a script nothing is owed, and this gives
  `ProbeLeavesNoTrace`;
- `Forgiven`: where a script goes on without restoring after such a write, as
  `probe-write-host-buffer` does, the devices in `doubtful` may differ, and the client is ready
  only if there is a block number;
- `StrangeIsRechecked`: even when the PLC program interferes, a device that is neither as it was nor
  as saved will be read again by a step without which the tool does not exit with 0
  (`Rechecked`), and what such steps have just read is what is there (`Reread`).
  With the comparison at the exit this gives the second half of `CleanExitRestores`;
- `FailureFits` and `TestIsAnswered`: a failed test skips nothing but its verification, except in
  a script that ends with its first success, which compares only what it has just tested;
- while the client refuses requests, a failure has been noted, and a script that restores before it
  gives up cannot come to its end.

The invariant knows nothing of the single scripts. It rests on `Disciplined`, the form all of them have:
what is tested is owed a restoration right behind, what is restored has been backed up, a failure
jumps over no backup and no recheck, and lands where no less is restored. That is
proved for three general forms (`TargetScript`, five steps for each target; `TrialScript`, one
backup, four trials, one recheck; `BlockScript`, with the restorations and rechecks of each
block), and then that each probe's script is of one of these (`ProbesAreDisciplined`):
the length of a `TargetScript` is that of the table, and a run sees one table only.

**FrameCodecProofs.** Stuffing and unstuffing are recursive functions of a frame's length. No
induction theorem can be instantiated here, but `<` on the naturals is well-founded, so a
least counterexample exists, and lemma `Climb` turns that into induction over sets of
numbers. With it:

- `WholeFrame`, the round trip: `Decode` of `Encode(c, sender, reply)` followed by any bytes is
  that reply, complete, or foreign when the sender is, and consumes exactly the frame; for all five
  formats, data of any length, and any number of DLEs in it;
- `PartialFrame`: a proper beginning of a frame is `Incomplete`, never an error, a reply or foreign;
- `ScanEndsHolds` and `BufferedHolds`, for every line whatever is on it: a decoder never
  claims more than it was given, so no round drops more than there is, and the buffer always
  is a piece of the line that ends where delivery ends;
- `ScannerInvariant`, for lines without damaged frames: the line is laid out in pieces (`Layout`),
  and the client has dropped whole pieces and kept the rest up to what was delivered, or it has
  found the answer. Lemma `Round` is one call of `decode_stream_buffer` in such a state. It needs that
  nothing inside a frame can pass for a frame: in ASCII no start byte occurs inside, in binary
  the stuffed payload shows no DLE followed by STX and an unfinished frame at the front
  hides what is behind it. `AnswerIsFoundHolds` follows;
- `SumCheckInvariant`, for every line: the client looks at a piece of the line that ends where
  delivery ends, and with the sum check it has accepted nothing but the answer. A checksum on the
  line is that of a whole frame and stands at its end, since a damaged frame has lost its own
  (`SumFound`, `HarmedSums`). So what passes the sum check covers just what that frame covers:
  in ASCII it begins where the frame begins (`SummedIsAnswer`), in binary it may begin earlier, after
  a DLE STX that was cut off, but its payload is the frame's (`AcceptedBinary`). What has no
  checksum, ACK, NAK and the data-less responses of Format3, is told by its first bytes, which occur
  only where a piece begins (`FrontOnly`), and neither a stray start byte nor the stump of a damaged
  frame goes on like one (`StubRefused`, `AcceptedAtHarmed`). With `ScannerInvariant` this gives
  `OnlyTheAnswerIsAcceptedHolds`.

For `FrameSizes`: `RequestSizeIsForeseen`, the size of the capacity check is that of the frame, in binary if
its payload is nothing but DLEs. So an admitted request is encoded (`AdmittedRequestIsEncoded`), and one that
is refused might not have fitted (`RefusedRequestIsTooLarge`). `SuccessIsForeseen` and `ErrorIsShort`
give `AdmittedAnswerFits`. `ErrorIsShort` is why 27 bytes are assumed: the check of the answer's
size knows only of the data that is expected, and an error code may be longer.

| Theorem | States |
| --- | --- |
| `TypeCorrect`, `InductiveCorrect` | the core's types and inductive invariant |
| `DriverOwnershipHolds`, `ResetWhileBusyHolds`, `RetainedBytesHolds` | its safety invariants |
| `ResetOnlyByConfigureHolds`, `HonestOutcomeHolds`, `LatchedTimeoutWinsHolds`, `TimeoutRetiresTransportHolds`, `UnansweredRetiresTransportHolds`, `AnsweredInTimeHolds`, `NoEarlyTimeoutHolds` | its action properties |
| `RefinesLifecycle` | the core implements the abstract request |
| `HostRefinesClient`, `HostInvariantCorrect`, `RunnerFollowsClientHolds`, `DoubtfulPortIsClosedHolds`, `ReadWakesInTimeHolds`, `ReturnsTheVerdictHolds` | the blocking client |
| `UartRefinesClient`, `UartInvariantCorrect`, `FacadeFollowsCoreHolds`, `WireIsOwnedHolds`, `AwaitedFramesWereSentHolds`, `DoubtfulUartIsNotReusedHolds` | the UART client |
| `BitRefinesClient`, `BitInvariantCorrect`, `ClientIsHeldHolds`, `HonestBitWriteHolds`, `OneDeadlineForBothHolds` | the bit-in-word write |
| `PortInvariantCorrect`, `PortKeepsPromise` | the ports |
| `LongStateInvariantCorrect`, `LongStateReadIsWholeHolds` | the long-state read |
| `AnswersInvariantCorrect`, `AnswersAreDelivered` | the data path of the client |
| `LinkRefinesClient`, `LinkTypeCorrect`, `LinkInvariantCorrect`, `AnswerBelongsToRequestHolds`, `DefiniteFailureIsTrueHolds`, `VerdictIsTrueHolds`, `MonitorListsAgreeHolds` | client, line and PLC |
| `CliInvariantCorrect`, `RouteIsExplicitHolds`, `ExitCodeIsHonestHolds`, `WritesArriveInOrderHolds`, `ProbeInvariantCorrect`, `CleanExitRestoresHolds`, `ProbeLeavesNoTraceHolds` | the command-line tool |
| `WholeFrame`, `PartialFrame` | the codec: what is encoded is decoded |
| `BufferedHolds`, `ScanEndsHolds`, `ScannerInvariantHolds`, `AnswerIsFoundHolds`, `SumCheckInvariantHolds`, `OnlyTheAnswerIsAcceptedHolds` | the scanner |
| `RequestSizeIsForeseen`, `AdmittedRequestIsEncoded`, `RefusedRequestIsTooLarge`, `AdmittedAnswerFits` | the sizes of frames |

**Only model-checked.** The liveness properties (`RequestsEnd`, `CallsReturn`,
`UartRequestsEnd`, `BitWritesEnd`, `PortCallsEnd`, `CliEnds`): fairness and ENABLED are outside
the prover. Every safety property, every action property and every refinement that a
passing run checks is proved.

## 5. Where documentation and code disagree

- `host_doc_timeout`. `docsrc/user/USAGE_GUIDE.md:134-136`: "Every timeout sets
  `requires_transport_reset()`, including Format2. ... `HostSyncClient` does this retirement
  itself and must be opened again." `run_synchronous_request` leaves the port open when
  `notify_tx_started` or a successful `notify_tx_complete` completes the request with Timeout
  (`src/host_sync_runner.hpp:47-50`, `87-89`). In the second case the core still refuses the
  next request until a new `open`, so no request is carried by a doubtful port. In the first,
  a compound deadline that passed before transmission, the core requires no reset either
  (`src/client.cpp:276-281`; `tests/codec_tests.cpp:7341-7345` asserts that): nothing was sent,
  so none is needed, and the guide is too strong. `DoubtfulPortIsClosed` states
  what does hold: after every other doubtful end the port is closed.
- `answers_doc`. `CHANGELOG.md:103-106`: "Accepted single requests are preflighted against
  complete request, ... response, ... capacities. An operation that cannot fit one wire request
  returns `InvalidArgument` before request-state mutation". The request members and copies are
  written before `start_request` refuses an answer that would not fit, and are not cleared
  then. And `expected_success_response_data_size` (`src/client.cpp:748-768`) lets the labels of
  writes fall through to the size of a read: batch writes are judged by the random read's
  counts, random writes by the multi-block read's. After a link-direct multi-block read that
  was refused as too large (it has no limit of its own on the points: two blocks of 600 words in
  ASCII do it), every random write is refused until some other request is accepted. After a
  random read refused in a build with small buffers, the same happens to every
  batch write and to `validate_bit_in_word_plan`. The repair is a `return 0U` after the
  labels of the writes, and clearing what was stored when `start_request` fails.

## 6. What the models showed about the protocol

Not violations of anything the repository says, but limits a maintainer should know.

- `AdmittedAnswerFits` is about an answer with nothing before it. `on_rx_bytes` tests the size of what
  arrives before it drops what belongs to others (`client.cpp:379`), so an answer behind enough noise
  may overflow a buffer that it would fit on its own.
- Too much data is refused with BufferTooSmall by `FrameCodec::encode_request`
  (`codec.cpp:2230-2239`), too large a frame with InvalidArgument.
- In binary frames a checksum error is reported as Framing: the scan goes on at the last
  DLE of the bad frame, which then fails as a frame of its own.
- Without sum check a malformed binary answer is skipped, and the request ends by Timeout.
- A foreign frame that lost its end, followed by the answer in the same chunk, takes the
  answer with it: the first ETX found belongs to the answer. The request then fails; it
  is never given wrong data when there is a sum check. Without one, the two can merge.
- ACK, NAK and Format3's response without data carry no checksum in the protocol.
- A bit-in-word write is not atomic for the PLC: another writer's change between the
  two requests is lost. `ClientIsHeld` says only that this client does not do it.
- A PLC that forgets its monitor list after a reset or a mode change leaves the client
  believing in its registration; the PLC answers the read with an error.
- A read that fails may have written part of the answer to the caller's buffer: the parsers
  convert in place. Only the long-state read of status blocks stages its result.
- A loopback succeeds with an echo longer than the text, when it begins with the text.
- `async_link_direct_register_monitor` checks the limit of random reads (`src/client.cpp:2057`),
  while the confirmed list is copied to arrays of `kMaxMonitorItems` (`:933-940`); the two limits
  must not drift apart.
- `probe-write-host-buffer` does not restore a word whose test value did not read back, and may
  still exit with 0 for another word (`tools/mcprotocol_cli.cpp:5578-5586`). The same happens over
  Format2 to a word whose test write was executed but not confirmed: when the answer's block
  number is garbled the decoder fails, the client demands no reset (`src/client.cpp:415`), the tool
  takes the next word (`tools/mcprotocol_cli.cpp:5559-5565`), that one passes, and the tool
  returns 0 (`:5623`) while the first word keeps its test value. `CleanExitRestores` excepts exactly
  these words (`StrandedByFormat2`), and its mutant, by which the client stays ready without a
  block number too, shows that they occur.
- After a test write that timed out or met a failing port, and without block numbers also after
  one whose answer was garbled, the client demands a reset and refuses the restoring write: the
  probe reports the failure and the PLC keeps the test value. Over Format2 the client stays ready
  after a garbled answer, and the random-write and multi-block probes restore. `ProbeLeavesNoTrace`
  is stated for a client that can still send, which includes that case.
- A `discard_stale_rx` that fails leaves the request it was called for in flight, so the
  client is busy when a probe wants to restore.
- `discard_stale_rx` counts a read that was interrupted by a signal as a quiet one.
- The RS-485 hooks of the tool drop the status of `set_rts` (`tools/mcprotocol_cli.cpp:1893-1901`).
- `CHANGELOG.md:238` and `docsrc/user/USAGE_GUIDE.md:569-571` say that the items of random writes are
  checked before the port is opened. Those of `random-write-file-register` are parsed after it
  (`tools/mcprotocol_cli.cpp:6986-7005`); nothing is sent before they are.

## 7. What is not modelled

- *The bytes of request frames* (`encode_frame_payload_*`) and of the C1 variants: planned. Their sizes are
  in `FrameSizes`.
- *CommandCodec* but for the order of items: formatting and parsing of numbers and devices,
  limits per command. A request that does not encode is `EncodeFails`, a response that does
  not parse `ReadGarbled`. `PendingAnswers` takes a frame's items as a whole: their headers,
  widths and packing (two bits to a byte, sixteen bits to a block word) are not there.
- *Results that are structures*: CPU model and user frame. They are written by one
  parser from one request and share no member. All optional features are taken as enabled.
- *Argument checks* of each call: a call turned away before it stores anything is a stutter.
- *Port settings*: `set_rts`, termios and DCB fields, and builds without `TIOCOUTQ`, which refuse
  the drain with `UnsupportedConfiguration` (`src/posix_serial.cpp:388-393`). What the operating
  system does is external.
- *Callbacks that re-enter*. The ESP32 facade refuses them and nothing changes. The
  core's completion callback runs when the request is over, so a call from it is an ordinary call
  on an idle client, as `BitInWord` makes one. RS-485 hooks are taken to switch the driver
  and not to call the client.
- *Command-line tool*: the text it prints and the parsing of single values.
- *Examples, scripts, documents*: no protocol logic of their own.

## 8. Plan

Done: all modules of section 2 and the theorems of section 4.

Next, in this order:

1. `RequestFrames`: `encode_frame_payload_*` against a decoder for the PLC's side, stuffing,
   header and length of the five formats and the C1 frames.
2. `CommandLimits`: per command the accepted counts, and the layout of request and response as
   fields (words, bits, nibbles). The abstract specification is a round trip. Boundaries: odd
   bit counts, word limits of the frames, device numbers at the width of a field.

A new property then replaces an old one that says less.
