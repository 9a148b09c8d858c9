----------------------------- MODULE CliSession -----------------------------
(***************************************************************************)
(* One execution of the command-line tool (tools/mcprotocol_cli.cpp): the  *)
(* options are parsed, the client configured and the port opened, and the  *)
(* script of the command (CliScripts) is executed, one request at a time,  *)
(* until the tool exits.  A request is admitted by the client, waits for a *)
(* quiet line, is sent and is answered, refused or lost.                   *)
(*                                                                         *)
(* The client is reduced to what its next admission depends on (McClient   *)
(* models it).  External: the PLC with the devices of the probes, which    *)
(* its own program may overwrite, and the serial line, which may carry     *)
(* bytes that belong to nobody.                                            *)
(***************************************************************************)
EXTENDS CliScripts

CONSTANTS
  Contents,       \* what the devices may hold when the tool starts
  MaxOverwritten  \* bound: how many devices the PLC program writes in the meantime

ASSUME CliSessionAssumption ==
  Contents \subseteq [CliCells -> {0, 1}] /\ MaxOverwritten \in Nat

VARIABLES
  command, items,    \* the command and, for write-words and write-bits, its items
  script,            \* the script of the command
  format2,           \* the frame carries a block number (--frame c2, c3 or c4-ascii-f2)
  line,              \* the route options given, while they are looked at
  phase,             \* what the tool does next
  at,                \* the step of the script, or the item of a grouped command
  group,             \* the items of a grouped command that wait for their request
  exit,              \* the exit code, or Running
  client,            \* "ready", "busy" or, when the transport must be reset, "reset"
  registered,        \* the client holds a monitor registration
  quiet,             \* quiet_polls
  noisy,             \* environment: bytes that belong to nobody arrive while they are discarded
  cells,             \* environment: the values of the devices
  saved, seen, want, \* what the tool has backed up, read last, and expects
  failed, credited,  \* failure_count # 0; one of the *_ok flags is set
  original,          \* history: the values before the tool started
  overwritten,       \* history: the cells the PLC program wrote
  refused,           \* history: some request failed, or its answer differed
  doubt,             \* history: a request was sent and its answer never understood
  doubtful,          \* history: the cells such a request was to write
  sent,              \* history: a request was sent
  restore_failed     \* history: writing the saved values back failed

placeVars == <<at, group>>
toolVars == <<phase, placeVars, exit, failed, credited, seen, want, saved>>
lineVars == <<quiet, noisy>>
plcVars == <<cells, overwritten>>
doubtVars == <<doubt, doubtful>>
historyVars == <<refused, doubtVars, sent, restore_failed>>
fixedVars == <<command, items, script, format2, line, original>>
vars == <<toolVars, lineVars, plcVars, historyVars, fixedVars, client, registered>>

Running == -1
NoLine == [frame |-> "none", topology |-> "none", given |-> {}]
Blank == [c \in CliCells |-> 0]

Grouping == command \in GroupedCommands

\* The request of the script, or that of the group.
step == IF Grouping THEN WriteGroup(GroupRequest[command], group) ELSE script.steps[at]
Bare == step.kind = "bare"
Writing == step.kind = "writes"

CliInit ==
  /\ command \in Commands
  /\ items \in IF command \in GroupedCommands THEN ItemLists ELSE {<<>>}
  /\ script = ScriptOf(command)
  /\ format2 \in BOOLEAN
  /\ line = NoLine /\ phase = "parse" /\ at = 1 /\ group = <<>> /\ exit = Running
  /\ client = "ready" /\ registered = FALSE
  /\ quiet = 0 /\ noisy = FALSE
  /\ cells = Blank /\ saved = Blank /\ seen = Blank /\ want = Blank /\ original = Blank
  /\ failed = FALSE /\ credited = FALSE
  /\ overwritten = {} /\ refused = FALSE /\ doubt = FALSE /\ doubtful = {}
  /\ sent = FALSE /\ restore_failed = FALSE

-----------------------------------------------------------------------------
(* Starting.                                                               *)

Exit(code) == exit' = code /\ phase' = "exited"

\* The options given: one of those every command needs may be missing.
Given ==
  LET needed == SerialOptions \cup ProtocolOptions
  IN  {needed \cup route : route \in SUBSET RouteOptions} \cup {needed \ {o} : o \in needed}

\* parse_args; wrong numbers of arguments and the items checked first end here, too.
Parse ==
  /\ phase = "parse"
  /\ \/ Exit(2) /\ UNCHANGED line
     \/ /\ \E given \in Given, frame \in {"C1", "C2", "C3", "C4"},
              route \in {"host", "multidrop"}, topology \in {"standard", "mn"} :
             /\ OptionsAccepted(command, given, frame, route, topology)
             /\ frame = "C1" => ~format2
             /\ line' = IF route = "host" \/ command = "recover_c24" THEN NoLine
                        ELSE [frame |-> frame, topology |-> topology,
                              given |-> given \cap RouteOptions]
        /\ phase' = "open"
        /\ UNCHANGED exit
  /\ UNCHANGED <<placeVars, failed, credited, seen, want, saved, lineVars, plcVars, historyVars,
                 command, items, script, format2, original, client, registered>>

\* The serial configuration, client.configure, port.open and set_rs485_hooks, which may all
\* fail; then the devices have the values they have.
Open ==
  /\ phase = "open"
  /\ \/ Exit(1) /\ UNCHANGED <<cells, original>>
     \/ /\ phase' = "arguments"
        /\ cells' \in Contents
        /\ original' = cells'
        /\ UNCHANGED exit
  /\ line' = NoLine
  /\ UNCHANGED <<placeVars, failed, credited, seen, want, saved, lineVars, overwritten,
                 historyVars, command, items, script, format2, client, registered>>

\* The handler parses the arguments of its command.
CheckArguments ==
  /\ phase = "arguments"
  /\ \/ script.refuses # 0 /\ Exit(script.refuses)
     \/ phase' = "script" /\ UNCHANGED exit
  /\ UNCHANGED <<placeVars, failed, credited, seen, want, saved, lineVars, plcVars, historyVars,
                 fixedVars, client, registered>>

-----------------------------------------------------------------------------
(* The end of a step.                                                      *)

\* Seeded defect: a failure that does not end the tool is not counted.
BugFollow(n) ==
  IF n = Abort THEN Exit(1) /\ UNCHANGED <<placeVars, failed>>
  ELSE phase' = "script" /\ at' = at + 1 + n /\ UNCHANGED <<group, exit, failed>>

Follow(n) ==
  IF n = Abort THEN Exit(1) /\ UNCHANGED <<placeVars, failed>>
  ELSE phase' = "script" /\ at' = at + 1 + n /\ failed' = TRUE /\ UNCHANGED <<group, exit>>

Fail ==
  /\ Follow(step.fail)
  /\ refused' = TRUE
  /\ restore_failed' = (restore_failed \/ step.role = "restore")
  /\ UNCHANGED <<credited, seen, want, saved>>

Expected == IF step.role = "verify" THEN want ELSE saved

\* A credited step of a script whose first one ends the tool; the group of an item that could
\* not join it, which now begins one; and the last group.
Passed ==
  IF step.credit /\ script.verdict = "first_credit"
    THEN Exit(0) /\ UNCHANGED <<placeVars, failed>>
  ELSE IF Grouping
    THEN /\ group' = <<>>
         /\ phase' = IF at <= Len(items) THEN "append" ELSE "script"
         /\ UNCHANGED <<at, exit, failed>>
  ELSE phase' = "script" /\ at' = at + 1 /\ UNCHANGED <<group, exit, failed>>

\* The request has been answered; what was read is in cells'.
Succeed ==
  /\ seen' = IF step.role \in {"verify", "recheck"}
               THEN [c \in CliCells |-> IF c \in step.at THEN cells'[c] ELSE seen[c]] ELSE seen
  /\ saved' = IF step.role = "backup"
                THEN [c \in CliCells |-> IF c \in step.at THEN cells'[c] ELSE saved[c]]
                ELSE saved
  /\ want' = IF step.role = "test"
               THEN [c \in CliCells |->
                       IF c \notin step.at THEN saved[c]
                       ELSE IF step.put = Flip THEN 1 - saved[c] ELSE step.put[c]]
               ELSE want
  /\ UNCHANGED restore_failed
  /\ IF \A c \in step.compare : seen'[c] = Expected[c]
       THEN Passed /\ credited' = (credited \/ step.credit) /\ UNCHANGED refused
       ELSE Follow(step.differ) /\ refused' = TRUE /\ UNCHANGED credited

\* What the request writes, if it writes.
Written ==
  [c \in CliCells |->
     IF c \notin step.at THEN cells[c]
     ELSE IF step.role = "restore" THEN saved[c]
     ELSE IF step.role = "test" /\ step.put = Flip THEN 1 - saved[c]
     ELSE step.put[c]]

\* The PLC program may write a device of the request before the answer, but not between the
\* start of the tool and its backup.
Overwrites ==
  {{}} \cup {{c} : c \in {d \in step.at :
                            /\ step.role \in {"test", "verify", "restore", "recheck"}
                            /\ Cardinality(overwritten \cup {d}) <= MaxOverwritten}}

TakesEffect ==
  \E mine \in Overwrites :
    /\ overwritten' = overwritten \cup mine
    /\ cells' = [c \in CliCells |-> IF c \in mine THEN 2
                                    ELSE IF Writing THEN Written[c] ELSE cells[c]]

-----------------------------------------------------------------------------
(* Steps.                                                                  *)

AtEnd == at > Len(IF Grouping THEN items ELSE script.steps) /\ group = <<>>

\* The exit code of a script that reaches its end.
Finish ==
  /\ phase = "script" /\ AtEnd
  /\ Exit(CASE script.verdict = "finished" -> 0
            [] script.verdict = "no_failure" -> IF failed THEN 1 ELSE 0
            [] script.verdict = "credited" -> IF credited THEN 0 ELSE 1
            [] script.verdict = "first_credit" -> 1)
  /\ UNCHANGED <<placeVars, failed, credited, seen, want, saved, lineVars, plcVars,
                 historyVars, fixedVars, client, registered>>

ParseItem ==
  /\ Grouping /\ phase = "script" /\ at <= Len(items)
  /\ \/ Exit(2)
     \/ phase' = "append" /\ UNCHANGED exit
  /\ UNCHANGED <<placeVars, failed, credited, seen, want, saved, lineVars, plcVars,
                 historyVars, fixedVars, client, registered>>

\* The item begins a group or joins the one before it.
AppendItem ==
  /\ phase = "append"
  /\ group = <<>> \/ CanAppend(group, items[at])
  /\ group' = Append(group, items[at])
  /\ at' = at + 1
  /\ phase' = "script"
  /\ UNCHANGED <<exit, failed, credited, seen, want, saved, lineVars, plcVars, historyVars,
                 fixedVars, client, registered>>

\* A step of the script; flush_group, for an item that cannot join the group or at the end.
RequestIsNext ==
  IF Grouping
    THEN /\ group # <<>>
         /\ IF at <= Len(items) THEN phase = "append" /\ ~CanAppend(group, items[at])
            ELSE phase = "script"
    ELSE phase = "script" /\ at <= Len(script.steps)

\* async_*: the client refuses a request while it is busy or its transport must be reset, a
\* monitor reading without a registration, and what it cannot encode.
Admitted == client = "ready" /\ (step.kind = "monitors" => registered)

StartRequest ==
  /\ RequestIsNext
  /\ \/ ~Bare /\ Fail /\ UNCHANGED <<client, lineVars>>
     \/ /\ Bare \/ Admitted
        /\ phase' = "discard"
        /\ client' = IF Bare THEN client ELSE "busy"
        /\ quiet' = 0 /\ noisy' \in BOOLEAN
        /\ UNCHANGED <<placeVars, exit, failed, credited, seen, want, saved, refused,
                       restore_failed>>
  /\ UNCHANGED <<plcVars, doubtVars, sent, fixedVars, registered>>

\* discard_stale_rx: the request stays pending in the client when the port fails.
DiscardFails ==
  /\ phase \in {"discard", "settle"}
  /\ Fail
  /\ quiet' = 0 /\ noisy' = FALSE
  /\ UNCHANGED <<plcVars, doubtVars, sent, fixedVars, client, registered>>

DiscardBytes ==
  /\ phase \in {"discard", "settle"}
  /\ noisy
  /\ quiet' = 0
  /\ UNCHANGED <<toolVars, noisy, plcVars, historyVars, fixedVars, client, registered>>

\* Seeded defect: the first quiet poll is not counted.
BugQuietPoll ==
  /\ phase \in {"discard", "settle"}
  /\ quiet' = 0
  /\ UNCHANGED <<toolVars, noisy, plcVars, historyVars, fixedVars, client, registered>>

QuietPoll ==
  /\ phase \in {"discard", "settle"}
  /\ UNCHANGED plcVars
  /\ \/ quiet = 0 /\ quiet' = 1
        /\ UNCHANGED <<noisy, toolVars, historyVars>>
     \/ /\ quiet = 1 /\ quiet' = 0 /\ noisy' = FALSE /\ phase = "discard"
        /\ phase' = "transmit"
        /\ UNCHANGED <<placeVars, exit, failed, credited, seen, want, saved, historyVars>>
     \/ /\ quiet = 1 /\ quiet' = 0 /\ noisy' = FALSE /\ phase = "settle"
        /\ Succeed
        /\ UNCHANGED <<doubtVars, sent>>
  /\ UNCHANGED <<fixedVars, client, registered>>

LineFallsQuiet ==
  /\ phase \in {"discard", "settle"}
  /\ noisy /\ noisy' = FALSE
  /\ UNCHANGED <<toolVars, quiet, plcVars, historyVars, fixedVars, client, registered>>

\* Driving RTS, if the tool does.  The client's hooks drop the port's status; the tool's own
\* calls check it.
BeginTransmit ==
  /\ phase = "transmit"
  /\ \/ Bare /\ Fail /\ UNCHANGED sent
     \/ /\ phase' = "sending"
        /\ sent' = TRUE
        /\ UNCHANGED <<placeVars, exit, failed, credited, seen, want, saved, refused,
                       restore_failed>>
  /\ UNCHANGED <<quiet, noisy, plcVars, doubtVars, fixedVars, client, registered>>

\* A request that failed on the line, or whose answer did not come or was not understood:
\* whether the PLC has executed it is unknown, and the client goes over to "after".
Lost(after) ==
  /\ Fail
  /\ doubt' = TRUE
  /\ doubtful' = IF Writing THEN doubtful \cup step.at ELSE doubtful
  /\ client' = IF Bare THEN client ELSE after
  /\ TakesEffect \/ UNCHANGED plcVars

\* write_all_until and drain_tx_until; RTS is dropped whatever they returned, and the tool's
\* own call for that may fail, too.
EndTransmit ==
  /\ phase = "sending"
  /\ \/ Lost("reset") /\ UNCHANGED noisy
     \/ /\ IF step.request = "recover_c24" THEN phase' = "settle" /\ noisy' \in BOOLEAN
                                           ELSE phase' = "receive" /\ UNCHANGED noisy
        /\ UNCHANGED <<placeVars, exit, failed, credited, seen, want, saved, historyVars,
                       plcVars, client>>
  /\ UNCHANGED <<quiet, sent, fixedVars, registered>>

\* The answer confirms the request, or the request needs none.
Answered ==
  /\ phase = "receive"
  /\ TakesEffect
  /\ Succeed
  /\ client' = IF Bare THEN client ELSE "ready"
  /\ registered' = (registered \/ step.kind = "registers")
  /\ UNCHANGED <<lineVars, doubtVars, sent, fixedVars>>

\* The PLC answers that it has not executed the request.
Refused ==
  /\ phase = "receive"
  /\ Fail
  /\ client' = IF Bare THEN client ELSE "ready"
  /\ UNCHANGED <<lineVars, plcVars, doubtVars, sent, fixedVars, registered>>

\* A deadline or a failing port: the transport must be reset, whatever the frame is.
Unanswered ==
  /\ phase = "receive"
  /\ Lost("reset")
  /\ UNCHANGED <<lineVars, sent, fixedVars, registered>>

\* Seeded defect: an answer that cannot be decoded never asks for a reset.
BugAfterGarbled == {"ready"}

\* on_rx_bytes: too many bytes or an answer that cannot be decoded ask for a reset unless a
\* block number tells the answers apart; a decoded answer that does not fit its request does
\* so only when the request may have changed the PLC.
AfterGarbled ==
  {IF format2 THEN "ready" ELSE "reset"} \cup
  (IF step.kind \in {"reads", "monitors"} THEN {"ready"} ELSE {})

\* Bytes that are no answer to the request.
Garbled ==
  /\ phase = "receive"
  /\ \E after \in AfterGarbled : Lost(after)
  /\ UNCHANGED <<lineVars, sent, fixedVars, registered>>

CliNext ==
  \/ Parse \/ Open \/ CheckArguments
  \/ Finish \/ ParseItem \/ AppendItem \/ StartRequest
  \/ DiscardFails \/ DiscardBytes \/ QuietPoll
  \/ BeginTransmit \/ EndTransmit
  \/ Answered \/ Refused \/ Unanswered \/ Garbled
  \/ LineFallsQuiet

CliSpec == CliInit /\ [][CliNext]_vars

\* The tool is one thread, every port call it makes returns in time, and the line falls quiet.
CliFairness ==
  /\ WF_vars(Parse) /\ WF_vars(Open) /\ WF_vars(CheckArguments)
  /\ WF_vars(Finish) /\ WF_vars(ParseItem) /\ WF_vars(AppendItem)
  /\ WF_vars(StartRequest)
  /\ WF_vars(DiscardBytes \/ QuietPoll) /\ WF_vars(QuietPoll)
  /\ WF_vars(BeginTransmit) /\ WF_vars(EndTransmit)
  /\ WF_vars(Answered \/ Refused \/ Unanswered \/ Garbled)
  /\ WF_vars(LineFallsQuiet)

CliFairSpec == CliSpec /\ CliFairness

-----------------------------------------------------------------------------
(* Properties.                                                             *)

\* Route options accepted by the tool (parse_args) are exactly those whose values the frame
\* header carries (FrameCodec): nothing is sent that was not given, nothing given is ignored.
\* Self-station zero is what the standard topology means, and a 1C route fixes the PC number.
HeaderFields(frame) ==
  {"--station"} \cup
  (IF frame # "C1" THEN {"--self-station"} ELSE {}) \cup
  (IF frame \in {"C3", "C4"} THEN {"--network", "--pc-target"} ELSE {}) \cup
  (IF frame = "C4" THEN {"--module-target"} ELSE {})

RouteIsExplicit ==
  line # NoLine =>
    line.given = (HeaderFields(line.frame) \cup
                  (IF line.frame = "C1" THEN {} ELSE {"--topology"})) \
                 (IF line.topology = "standard" THEN {"--self-station"} ELSE {})

Probing == command \in WriteProbes

\* A write probe that exits with 0 has left every device as it found it, unless the PLC
\* program itself wrote the device; and what such a probe last read of a device is what it
\* had saved of it.  probe-write-host-buffer goes on to its next word when it does not know
\* whether a test value was written: with a block number, which lets it send, that word, and
\* no other, may have kept the test value.  It does not restore a word whose test value did
\* not read back either, so it is in the first half only.
StrandedByFormat2 ==
  IF command = "probe_write_host_buffer" /\ format2 THEN doubtful ELSE {}

CleanExitRestores ==
  Probing /\ exit = 0 =>
    /\ overwritten = {} => \A c \in CliCells \ StrandedByFormat2 : cells[c] = original[c]
    /\ command # "probe_write_host_buffer" =>
         \A c \in CliCells : cells[c] # original[c] => cells[c] = saved[c]

\* However a random-write or multi-block probe ends, it leaves the devices as it found them
\* as long as the client can still send, the PLC program did not interfere and no restoring
\* write failed: a test write that was refused, or whose answer was not understood by a
\* client that could send on, and a failed verification do not skip the restoration.
RestoringProbes ==
  {"probe_random_write_words", "probe_random_write_bits"} \cup DOMAIN BlockModes

ProbeLeavesNoTrace ==
  /\ command \in RestoringProbes
  /\ exit # Running /\ client = "ready" /\ overwritten = {} /\ ~restore_failed
  => cells = original

\* Exit code 0 of a command that is not a probe means that every request was confirmed, and of
\* probe-all and probe-write-all that every target was; exit code 2, wrong arguments, that no
\* request is in doubt, and nothing was sent but complete groups of write-words or write-bits.
Tolerant == script.verdict \in {"credited", "first_credit"}

ExitCodeIsHonest ==
  /\ exit = 0 /\ ~Tolerant => ~refused
  /\ exit = 2 => ~doubt /\ (sent => command \in GroupedCommands)

\* write-words and write-bits write their items in the order of the arguments, whatever the
\* grouping: at any time the devices have the values of some first items, and of all when the
\* tool exits with 0.
AfterItems(n) ==
  \A c \in CliCells :
    LET mine == {i \in 1..n : items[i].cell = c}
    IN  IF mine = {} THEN cells[c] = original[c]
        ELSE \E last \in mine : (\A i \in mine : i <= last) /\ cells[c] = items[last].value

WritesArriveInOrder ==
  command \in GroupedCommands =>
    /\ \E n \in 0..Len(items) : AfterItems(n)
    /\ exit = 0 => AfterItems(Len(items))

\* The tool ends when the line falls quiet: in between, discard_stale_rx may read for ever.
CliEnds == <>(phase = "exited")

-----------------------------------------------------------------------------
(* The inductive invariant behind the theorems of CliSessionProofs.        *)

Starting == phase \in {"parse", "open", "arguments"}
InFlight == phase \in {"discard", "settle", "transmit", "sending", "receive"}

\* The tool is where its phase says: nothing has happened before the script begins, an exit
\* code is there at the exit only, and a request in flight is one of the script or a group.
PhasesFit ==
  /\ phase # "exited" => exit = Running
  /\ Starting => at = 1 /\ group = <<>> /\ ~sent /\ ~doubt /\ ~refused
  /\ line # NoLine => phase = "open"
  /\ Grouping => (InFlight => group # <<>>) /\ phase # "settle" /\ at \in 1..(Len(items) + 1)
  /\ phase = "append" => Grouping /\ at <= Len(items)
  /\ ~Grouping /\ script.verdict = "finished" => at \in Nat \ {0}
  /\ ~Grouping /\ InFlight => at <= Len(script.steps)

\* The group is the last items taken, of devices that follow one another.
GroupIsRecent ==
  Grouping =>
    /\ group \in Seq([cell : CliCells, value : {0, 1}]) /\ Len(group) < at
    /\ \A i \in DOMAIN group : /\ group[i] = items[at - 1 - Len(group) + i]
                               /\ group[i].cell = group[1].cell + i - 1

\* The items before the group have been written, and no other.
GroupIsNext ==
  Grouping =>
    /\ phase # "exited" => AfterItems(at - 1 - Len(group))
    /\ phase = "exited" => \E n \in 0..Len(items) : AfterItems(n)
    /\ exit = 0 => AfterItems(Len(items))

\* A failure ends the tool or is counted, and a doubtful group ends it.
FailuresAreKept ==
  /\ phase # "exited" /\ refused => failed /\ script.verdict # "finished"
  /\ Grouping /\ doubt => exit = 1

CliInvariant ==
  /\ command \in Commands /\ script = ScriptOf(command)
  /\ Grouping => items \in ItemLists
  /\ PhasesFit /\ GroupIsRecent /\ GroupIsNext /\ FailuresAreKept
  /\ RouteIsExplicit /\ ExitCodeIsHonest

-----------------------------------------------------------------------------
(* The inductive invariant of the write probes.  Disciplined is the form   *)
(* all their scripts have; the invariant rests on nothing else of them.    *)

RoleAt(s, k, roles) == k \in 1..Len(s.steps) /\ s.steps[k].role \in roles

\* What script s restores, from step k on, before it does anything else but verify.
Owed(s, k) ==
  {c \in CliCells :
     \E j \in k..Len(s.steps) : /\ RoleAt(s, j, {"restore"}) /\ c \in s.steps[j].at
                                /\ \A i \in k..j : RoleAt(s, i, {"verify", "restore"})}

\* What has been backed up before step k.
Kept(s, k) ==
  {c \in CliCells : \E j \in 1..(k - 1) : RoleAt(s, j, {"backup"}) /\ c \in s.steps[j].at}

\* A recheck without which the tool does not exit with 0.
Strict(s, k) ==
  /\ RoleAt(s, k, {"recheck"})
  /\ s.verdict # "no_failure" => s.steps[k].fail = Abort /\ s.steps[k].differ = Abort

Rechecked(s, k) ==
  {c \in CliCells : \E j \in k..Len(s.steps) : Strict(s, j) /\ c \in s.steps[j].compare}

\* What strict rechecks in a row, the last one before step k, have read.
Reread(s, k) ==
  {c \in CliCells : \E i \in 1..(k - 1) : /\ c \in s.steps[i].at
                                          /\ \A j \in i..(k - 1) : Strict(s, j)}

\* A step reads what it backs up or compares, and writes what it tests or restores.
StepFits(s, k) ==
  LET t == s.steps[k]
  IN  /\ t.role \in {"backup", "test", "verify", "restore", "recheck"}
      /\ t.kind = IF t.role \in {"test", "restore"} THEN "writes" ELSE "reads"
      /\ t.request # "recover_c24"
      /\ t.at \subseteq CliCells /\ t.compare \subseteq CliCells
      /\ t.role \notin {"verify", "recheck"} => t.compare = {}
      /\ t.fail \in Nat \cup {Abort} /\ t.differ \in Nat \cup {Abort}
      /\ t.credit /\ s.verdict = "first_credit" => t.role = "recheck"

\* What is tested is restored, a restored or verified value has been backed up, and what is
\* touched is rechecked unless one success ends the tool.
TestIsAnswered(s, k) ==
  LET t == s.steps[k]
  IN  /\ t.role = "test" => t.at \subseteq Owed(s, k + 1)
      /\ t.role = "restore" => t.at \subseteq Kept(s, k)
      /\ t.role = "verify" => /\ t.compare \subseteq Kept(s, k)
                              /\ RoleAt(s, k - 1, {"test", "verify"})
                              /\ s.verdict = "first_credit" =>
                                   /\ RoleAt(s, k - 1, {"test"})
                                   /\ t.compare \subseteq s.steps[k - 1].at
      /\ s.verdict # "first_credit" /\ t.role # "backup" => t.at \subseteq Rechecked(s, k)
      /\ Strict(s, k) => t.compare \subseteq Reread(s, k + 1)

\* A failure goes on where no more is owed than before, over no backup and no strict recheck,
\* to no verification of a test that was not made, and not to the end.
JumpFits(s, k, n) ==
  /\ \A i \in k..(k + n) : ~RoleAt(s, i, {"backup"})
  /\ s.verdict # "first_credit" => \A i \in k..(k + n) : ~Strict(s, i)
  /\ ~RoleAt(s, k + 1 + n, {"verify"})
  /\ s.verdict = "credited" => k + 1 + n <= Len(s.steps)
  /\ s.verdict # "finished"

Verifying(s, k, n) == \A i \in k..(k + n) : RoleAt(s, i, {"verify"})

\* A test write that failed may have been executed: nothing but its verification is skipped,
\* unless the first success ends the tool.
FailureFits(s, k) ==
  LET t == s.steps[k]
  IN  t.fail # Abort /\ s.verdict # "no_failure" =>
        /\ JumpFits(s, k, t.fail)
        /\ \/ t.role = "recheck" \/ Verifying(s, k, t.fail)
           \/ t.role = "test" /\ s.verdict = "first_credit"
           \/ t.role = "test" /\ Verifying(s, k + 1, t.fail - 1)

\* A test value is there to be read, unless the PLC program wrote the device.
DifferenceFits(s, k) ==
  LET t == s.steps[k]
  IN  t.differ # Abort /\ s.verdict # "no_failure" /\ t.role \in {"verify", "recheck"} =>
        /\ JumpFits(s, k, t.differ)
        /\ \/ t.role = "recheck" \/ Verifying(s, k, t.differ)
           \/ t.role = "verify" /\ t.compare \subseteq t.at

\* A script whose failures count for nothing restores before it gives up.
GivingUpFits(s, k) ==
  LET t == s.steps[k]
  IN  s.verdict = "credited" =>
        /\ t.fail = Abort => t.role \in {"backup", "restore", "recheck"}
        /\ t.role = "verify" => t.differ # Abort

Disciplined(s) ==
  \A k \in 1..Len(s.steps) :
    /\ StepFits(s, k) /\ TestIsAnswered(s, k)
    /\ FailureFits(s, k) /\ DifferenceFits(s, k) /\ GivingUpFits(s, k)

\* The client still carries the requests of the tool, and none has failed that may not.
Usable == client = IF InFlight THEN "busy" ELSE "ready"
Trusted == Usable /\ (script.verdict = "no_failure" => ~failed)

\* What a tool that looks for a first success may leave behind, having lost its test write.
Forgiven == IF script.verdict = "first_credit" THEN doubtful ELSE {}

\* Before step k the PLC, left to itself, holds what it held, except for what the tool has
\* still to restore and what it may leave behind.
OnlyOwedDiffers(k) ==
  overwritten = {} =>
    /\ \A c \in Kept(script, k) \ Forgiven : saved[c] = original[c]
    /\ \A c \in CliCells \ (Owed(script, k) \cup Forgiven) : cells[c] = original[c]
    /\ RoleAt(script, k, {"verify"}) =>
         \A c \in Kept(script, k) \ (Forgiven \ script.steps[k].compare) : cells[c] = want[c]

\* Whatever the PLC does, what is not as it was or as saved will be looked at again.
StrangeIsRechecked(k) ==
  script.verdict # "first_credit" =>
    /\ \A c \in CliCells \ Rechecked(script, k) : cells[c] \in {original[c], saved[c]}
    /\ \A c \in Reread(script, k) : seen[c] = cells[c]

ProbeInvariant ==
  Probing =>
    /\ at \in Nat \ {0}
    /\ cells = [c \in CliCells |-> cells[c]] /\ original = [c \in CliCells |-> original[c]]
    /\ Starting => cells = original
    /\ InFlight => client = "busy" /\ phase # "settle"
    /\ failed => script.verdict # "finished"
    /\ doubtful # {} => format2 \/ client = "reset"
    /\ phase # "exited" =>
         /\ Trusted => OnlyOwedDiffers(at) /\ StrangeIsRechecked(at)
         /\ ~Usable => failed /\ (script.verdict = "credited" => at <= Len(script.steps))
    /\ CleanExitRestores /\ ProbeLeavesNoTrace
=============================================================================
