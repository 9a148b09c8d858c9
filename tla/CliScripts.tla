----------------------------- MODULE CliScripts -----------------------------
(***************************************************************************)
(* What each command of tools/mcprotocol_cli.cpp asks of the PLC: the      *)
(* handler of a command, in main, is a script, a sequence of requests with *)
(* what a failure or a value that differs does next.  CliSession executes  *)
(* the scripts.                                                            *)
(*                                                                         *)
(* The devices a command touches are abstract cells (CliCells), the values *)
(* that it reads back and compares 0 and 1, and 2 for anything else.       *)
(* Texts, printing and the values of arguments are left out: a command's   *)
(* arguments are good or bad.                                              *)
(***************************************************************************)
EXTENDS Integers, Sequences, FiniteSets, SequencesExt

CONSTANTS
  MaxGroup,   \* cli_max_batch_write_words_points and _bits_points
  ItemLists,  \* the DEVICE=VALUE lists given to write-words and write-bits
  CellCount,  \* how many devices there are; the probes of blocks need four
  Targets     \* kProbeTargets, kProbeWriteTargets, the words of the host buffer

CliCells == 1..CellCount

ASSUME CliScriptsAssumption ==
  /\ MaxGroup \in Nat \ {0}
  /\ CellCount \in Nat /\ CellCount >= 4
  /\ Targets \in Seq(CliCells)
  /\ ItemLists \subseteq Seq([cell : CliCells, value : {0, 1}])
  /\ <<>> \notin ItemLists

-----------------------------------------------------------------------------
(* The requests, by the run_* function of the tool (or the async_ call of  *)
(* the client) that makes them.  A kind says what the PLC does with it.    *)

Kind(kind, names) == [name \in names |-> kind]

\* One table of several.
Joined(tables) ==
  [name \in UNION {DOMAIN tables[i] : i \in DOMAIN tables} |->
     tables[CHOOSE i \in DOMAIN tables : name \in DOMAIN tables[i]][name]]

FileRegisterRequests ==
  Joined(<<Kind("reads", {"read_extended_file_register_words",
                          "direct_read_extended_file_register_words"}),
           Kind("writes", {"batch_write_words_group", "write_extended_file_register_words"})>>)

FileRegisterWritesAndMonitor ==
  Joined(<<Kind("writes", {"direct_write_extended_file_register_words",
                           "random_write_extended_file_register_words"}),
           Kind("registers", {"register_extended_file_register_monitor"}),
           Kind("monitors", {"read_extended_file_register_monitor"})>>)

BatchRequests ==
  Joined(<<Kind("reads", {"extended_batch_read_words", "batch_read_words_group",
                          "link_direct_batch_read_words", "batch_read_word", "batch_read_bit",
                          "batch_read_bits_group"}),
           Kind("writes", {"extended_batch_write_words"})>>)

WriteRequests ==
  Joined(<<Kind("reads", {"link_direct_batch_read_bits"}),
           Kind("writes", {"batch_write_word", "link_direct_batch_write_words",
                           "batch_write_bits_group", "batch_write_bit",
                           "link_direct_batch_write_bits"})>>)

RandomRequests ==
  Joined(<<Kind("reads", {"link_direct_random_read", "random_read"}),
           Kind("writes", {"random_write_words", "random_write_dwords",
                           "link_direct_random_write_words",
                           "link_direct_random_write_bits"})>>)

BlockRequests ==
  Joined(<<Kind("reads", {"link_direct_multi_block_read", "multi_block_read"}),
           Kind("writes", {"random_write_bits", "link_direct_multi_block_write",
                           "multi_block_write"}),
           Kind("registers", {"link_direct_register_monitor", "register_monitor"})>>)

BufferRequests ==
  Joined(<<Kind("monitors", {"read_monitor"}),
           Kind("reads", {"read_host_buffer", "read_module_buffer"}),
           Kind("writes", {"write_host_buffer", "write_module_buffer"})>>)

\* Started by main itself.
DirectRequests ==
  Joined(<<Kind("reads", {"read_cpu_model", "loopback", "read_user_frame"}),
           Kind("controls", {"remote_run", "remote_stop", "remote_pause", "remote_latch_clear",
                             "unlock", "lock", "error_clear", "remote_reset", "global_signal",
                             "init_sequence", "register_user_frame", "delete_user_frame"})>>)

\* Sent by the tool on the port, without the client.
BareRequests == Kind("bare", {"recover_c24", "read_monitor_raw"})

Requests ==
  Joined(<<FileRegisterRequests, FileRegisterWritesAndMonitor, BatchRequests, WriteRequests,
           RandomRequests, BlockRequests, BufferRequests, DirectRequests, BareRequests>>)

-----------------------------------------------------------------------------
(* Steps.  "fail" is what follows a request that fails and "differ" what   *)
(* follows values that are not the expected ones: Abort ends the tool with *)
(* exit code 1, and n goes on behind the next n steps.                     *)

Abort == -1

\* A test value that differs from the saved one in every cell.
Flip == <<>>

Step(request, role, at) ==
  [request |-> request, kind |-> Requests[request], role |-> role, at |-> at, put |-> Flip,
   compare |-> IF role \in {"verify", "recheck"} THEN at ELSE {},
   fail |-> Abort, differ |-> Abort, credit |-> FALSE]

Ask(request) == Step(request, "plain", {})
Backup(request, at) == Step(request, "backup", at)
Test(request, at, put) == [Step(request, "test", at) EXCEPT !.put = put]
Verify(request, at) == Step(request, "verify", at)
Restore(request, at) == Step(request, "restore", at)
Recheck(request, at) == Step(request, "recheck", at)

GoingOn(step, n) == [step EXCEPT !.fail = n, !.differ = n]
Credited(step) == [step EXCEPT !.credit = TRUE]

(* A command: the exit code of arguments its handler refuses (0: it refuses *)
(* none), its steps, and how the exit code of a finished script is chosen.  *)
Script(refuses, steps, verdict) ==
  [refuses |-> refuses, steps |-> steps, verdict |-> verdict]

Single(refuses, request) == Script(refuses, <<Ask(request)>>, "finished")
Same(refuses, names) == [name \in names |-> Single(refuses, name)]

-----------------------------------------------------------------------------
(* The commands that make one request, or a monitor registration and a     *)
(* reading.                                                                *)

CpuControl ==
  Same(0, {"read_cpu_model", "remote_run", "remote_stop", "remote_pause",
           "remote_latch_clear"})

PasswordsAndReset == Same(0, {"unlock", "lock", "error_clear", "remote_reset"})

C24Signals == Joined(<<Same(1, {"global_signal"}), Same(0, {"init_sequence"})>>)

C24Recovery == Same(1, {"recover_c24"})

Loopback == Same(0, {"loopback"})

UserFrames == Same(2, {"read_user_frame", "register_user_frame", "delete_user_frame"})

Buffers ==
  Same(2, {"read_host_buffer", "write_host_buffer", "read_module_buffer"})

\* Un\G access is a module-buffer request, or an extended batch one ("native").
QualifiedReads ==
  [read_qualified_words |-> Single(2, "read_module_buffer"),
   read_native_qualified_words |-> Single(2, "extended_batch_read_words")]

ModuleBufferWrite == Same(2, {"write_module_buffer"})

QualifiedWrites ==
  [write_qualified_words |-> Single(2, "write_module_buffer"),
   write_native_qualified_words |-> Single(2, "extended_batch_write_words")]

WordReads ==
  Joined(<<[read_words |-> Single(2, "batch_read_words_group")],
           Same(2, {"read_extended_file_register_words",
                    "direct_read_extended_file_register_words"})>>)

LinkDirectWordsAndBits ==
  Joined(<<[read_bits |-> Single(2, "batch_read_bits_group")],
           Same(2, {"link_direct_batch_read_words"})>>)

\* One request per point of a status-block device, here two; LCS and LCC are read directly.
LongStateBits ==
  [read_long_state_bits |->
     Script(2, <<Ask("batch_read_words_group"), Ask("batch_read_words_group")>>, "finished"),
   read_long_state_bits_directly |-> Single(2, "batch_read_bits_group")]

LinkDirectBatch ==
  Same(2, {"link_direct_batch_read_bits", "link_direct_batch_write_words",
           "link_direct_batch_write_bits"})

LinkDirectRandom ==
  Same(2, {"link_direct_random_read", "link_direct_random_write_words",
           "link_direct_random_write_bits"})

LinkDirectBlockReads == Same(2, {"link_direct_multi_block_read"})

LinkDirectBlockWrites == Same(2, {"link_direct_multi_block_write"})

Monitors ==
  [monitor_file_register |->
     Script(2, <<Ask("register_extended_file_register_monitor"),
                 Ask("read_extended_file_register_monitor")>>, "finished"),
   monitor_link_direct |->
     Script(2, <<Ask("link_direct_register_monitor"), Ask("read_monitor")>>, "finished")]

RandomAccess == Same(2, {"random_read", "random_write_words", "random_write_dwords"})

RandomFileRegistersAndBits ==
  Same(2, {"random_write_extended_file_register_words", "random_write_bits"})

FileRegisterWrites ==
  Same(2, {"write_extended_file_register_words",
           "direct_write_extended_file_register_words"})

-----------------------------------------------------------------------------
(* write-words and write-bits: consecutive devices are written by one      *)
(* request; an item that cannot be appended sends the group before it.     *)

\* Seeded defect: a device that does not follow the last one joins the group.
BugCanAppend(group, item) ==
  /\ group # <<>>
  /\ Len(group) < MaxGroup

CanAppend(group, item) ==
  /\ group # <<>>
  /\ item.cell = Last(group).cell + 1
  /\ Len(group) < MaxGroup

\* A group is its head device and the values of the devices from there on.
WriteGroup(request, group) ==
  LET at == {group[1].cell + i - 1 : i \in DOMAIN group} \cap CliCells
  IN  [Step(request, "write", at) EXCEPT
         !.put = [c \in at |-> group[c - group[1].cell + 1].value]]

GroupRequest ==
  [write_words |-> "batch_write_words_group", write_bits |-> "batch_write_bits_group"]

\* The steps depend on the items: CliSession takes one item after the other.
GroupedScript == Script(0, <<>>, "finished")

-----------------------------------------------------------------------------
(* The probes.  Three cells stand for the six words or sixteen bits of a   *)
(* probed range.                                                           *)

Range3 == {1, 2, 3}

\* The n steps of each target, one target after the other.
EachTarget(n, script(_)) ==
  [k \in 1..(n * Len(Targets)) |-> script(Targets[((k - 1) \div n) + 1])[((k - 1) % n) + 1]]

\* The targets are bits and words; both go the same way.
ProbeAll ==
  LET Target(c) == <<GoingOn(Backup("batch_read_word", {c}), 0)>>
  IN  Script(0, EachTarget(1, Target), "no_failure")

ProbeWriteAll ==
  LET Target(c) == <<GoingOn(Backup("batch_read_bit", {c}), 4),
                     GoingOn(Test("batch_write_bit", {c}, Flip), 3),
                     GoingOn(Verify("batch_read_bit", {c}), 2),
                     GoingOn(Restore("batch_write_bit", {c}), 1),
                     GoingOn(Recheck("batch_read_bit", {c}), 0)>>
  IN  Script(0, EachTarget(5, Target), "no_failure")

\* A trial reads some devices again; it may fail, and the others go on.
Trial(request, at) == Credited(GoingOn(Recheck(request, at), 0))
Trials(request, cells) == <<Trial(request, {cells[1]}),
                            Trial(request, {cells[1], cells[2]}),
                            Trial(request, {cells[1], cells[3]})>>

RandomReadBaselines ==
  <<Backup("batch_read_words_group", {1, 2}), Backup("batch_read_bits_group", {3, 4})>>
RandomReadWordTrials == Trials("random_read", <<1, 2, 2>>)
RandomReadBitTrials == Trials("random_read", <<3, 4, 4>>)

ProbeRandomRead ==
  Script(0, RandomReadBaselines \o RandomReadWordTrials \o RandomReadBitTrials, "credited")

\* Each trial writes, reads the whole range back and restores it.
\* Seeded defect: a test write that failed is not followed by the restoration.
BugWriteTrial(write, read, at, put, restore) ==
  <<GoingOn(Test(write, at, put), 2), Credited(GoingOn(Verify(read, Range3), 0)), restore>>

WriteTrial(write, read, at, put, restore) ==
  <<GoingOn(Test(write, at, put), 1), Credited(GoingOn(Verify(read, Range3), 0)), restore>>

\* The contiguous trial counts for nothing in the exit code.
Uncredited(trial) == [trial EXCEPT ![2].credit = FALSE]

RestoreWords == Restore("batch_write_words_group", Range3)

WordsBackupAndContiguous ==
  <<Backup("batch_read_words_group", Range3)>> \o
  Uncredited(WriteTrial("batch_write_words_group", "batch_read_words_group", Range3,
                        [c \in Range3 |-> 1], RestoreWords))

WordsSingleAndDense ==
  WriteTrial("random_write_words", "batch_read_words_group", {1}, [c \in {1} |-> 1],
             RestoreWords) \o
  WriteTrial("random_write_words", "batch_read_words_group", {1, 2},
             [c \in {1, 2} |-> 1], RestoreWords)

WordsSparseAndRecheck ==
  WriteTrial("random_write_words", "batch_read_words_group", {1, 3},
             [c \in {1, 3} |-> 1], RestoreWords) \o
  <<Recheck("batch_read_words_group", Range3)>>

ProbeRandomWriteWords ==
  Script(0, WordsBackupAndContiguous \o WordsSingleAndDense \o WordsSparseAndRecheck,
         "credited")

RestoreBits == Restore("batch_write_bits_group", Range3)
BitPattern == [c \in Range3 |-> IF c = 2 THEN 0 ELSE 1]

BitsBackup == <<Backup("batch_read_bits_group", Range3)>>

BitsContiguousAndDense ==
  Uncredited(WriteTrial("batch_write_bits_group", "batch_read_bits_group", Range3,
                        BitPattern, RestoreBits)) \o
  WriteTrial("random_write_bits", "batch_read_bits_group", Range3, BitPattern, RestoreBits)

BitsSingleSparseAndRecheck ==
  WriteTrial("random_write_bits", "batch_read_bits_group", {1}, [c \in {1} |-> 1],
             RestoreBits) \o
  WriteTrial("random_write_bits", "batch_read_bits_group", {1, 3},
             [c \in {1, 3} |-> IF c = 1 THEN 1 ELSE 0], RestoreBits) \o
  <<Recheck("batch_read_bits_group", Range3)>>

ProbeRandomWriteBits ==
  Script(0, BitsBackup \o BitsContiguousAndDense \o BitsSingleSparseAndRecheck, "credited")

\* probe-multi-block: word blocks A and B are cells 1 and 2, bit blocks A and B 3 and 4.
BlockModes == [mixed |-> <<1, 2, 3, 4>>, word_only |-> <<1, 2>>, bit_only |-> <<3, 4>>,
               word_a |-> <<1>>, word_b |-> <<2>>, bit_a |-> <<3>>, bit_b |-> <<4>>]

BlockCells == 1..4

ReadBlock(c) == IF c \in {1, 2} THEN "batch_read_words_group" ELSE "batch_read_bits_group"
WriteBlock(c) == IF c \in {1, 2} THEN "batch_write_words_group" ELSE "batch_write_bits_group"

\* Blocks read one after the other and compared after the last of them.
ReadAndCompare(role, cells, compared) ==
  [i \in DOMAIN cells |->
     [Step(ReadBlock(cells[i]), role, {cells[i]}) EXCEPT
        !.compare = IF i = Len(cells) THEN compared ELSE {}]]

BlocksRestore == [c \in BlockCells |-> Restore(WriteBlock(c), {c})]

BlocksBackup == [c \in BlockCells |-> Backup(ReadBlock(c), {c})]

BlocksReadTrial(mode) == <<Trial("multi_block_read", Range(BlockModes[mode]))>>

BlocksWriteTrial(mode) ==
  LET selected == Range(BlockModes[mode])
      included == (IF selected \cap {1, 2} # {} THEN <<1, 2>> ELSE <<>>) \o
                  (IF selected \cap {3, 4} # {} THEN <<3, 4>> ELSE <<>>)
      verifies == ReadAndCompare("verify", included, selected)
  IN  <<GoingOn(Test("multi_block_write", selected, Flip), Len(included))>> \o
      [i \in DOMAIN verifies |->
         [GoingOn(verifies[i], Len(included) - i) EXCEPT !.credit = (i = Len(included))]]

BlocksRecheck == ReadAndCompare("recheck", <<1, 2, 3, 4>>, BlockCells)

ProbeMultiBlock(mode) ==
  Script(1, BlocksBackup \o BlocksReadTrial(mode) \o BlocksWriteTrial(mode) \o
            BlocksRestore \o BlocksRecheck, "credited")

\* The values of the monitor are compared with those of four reads.
ProbeMonitor ==
  [probe_monitor |->
     Script(2, <<Ask("register_monitor"), Backup("read_monitor", BlockCells)>> \o
               ReadAndCompare("recheck", <<1, 2, 3, 4>>, BlockCells), "finished"),
   probe_monitor_read_only |-> Single(2, "read_monitor_raw")]

ProbeBuffers ==
  [probe_host_buffer |-> Single(0, "read_host_buffer"),
   probe_module_buffer |-> Single(0, "read_module_buffer")]

\* Looks for one word that can be written; the first that can ends the tool.
ProbeWriteHostBuffer ==
  LET Word(c) == <<Backup("read_host_buffer", {c}),
                   GoingOn(Test("write_host_buffer", {c}, Flip), 3),
                   [Verify("read_host_buffer", {c}) EXCEPT !.differ = 2],
                   Restore("write_host_buffer", {c}),
                   Credited(Recheck("read_host_buffer", {c}))>>
  IN  Script(0, EachTarget(5, Word), "first_credit")

ProbeWriteModuleBuffer ==
  Script(0, <<Backup("read_module_buffer", {1}), Test("write_module_buffer", {1}, Flip),
              Verify("read_module_buffer", {1}), Restore("write_module_buffer", {1}),
              Recheck("read_module_buffer", {1})>>, "finished")

-----------------------------------------------------------------------------
(* The command line: options, then a command and its arguments.            *)

SerialOptions == {"--device", "--baud", "--data-bits", "--stop-bits", "--parity",
                  "--hardware-flow"}
ProtocolOptions == {"--frame", "--plc-profile", "--route", "--sum-check"}
RouteOptions == {"--station", "--network", "--pc-target", "--module-target", "--topology",
                 "--self-station"}

\* Seeded defect: the self-station is required on the m:n topology of C4 only.
BugRouteNeeds(frame, route, topology) ==
  IF route = "host" THEN {}
  ELSE {"--station"} \cup
       (IF frame = "C1" THEN {} ELSE {"--topology"}) \cup
       (IF frame \in {"C3", "C4"} THEN {"--network", "--pc-target"} ELSE {}) \cup
       (IF frame = "C4" THEN {"--module-target"} ELSE {}) \cup
       (IF frame = "C4" /\ topology = "mn" THEN {"--self-station"} ELSE {})

\* The options a route needs; any other route option is refused.
RouteNeeds(frame, route, topology) ==
  IF route = "host" THEN {}
  ELSE {"--station"} \cup
       (IF frame = "C1" THEN {} ELSE {"--topology"}) \cup
       (IF frame \in {"C3", "C4"} THEN {"--network", "--pc-target"} ELSE {}) \cup
       (IF frame = "C4" THEN {"--module-target"} ELSE {}) \cup
       (IF frame # "C1" /\ topology = "mn" THEN {"--self-station"} ELSE {})

\* recover-c24 needs no protocol, and refuses a sum-check option.
OptionsAccepted(command, given, frame, route, topology) ==
  /\ SerialOptions \subseteq given
  /\ IF command = "recover_c24"
       THEN "--sum-check" \notin given
       ELSE /\ ProtocolOptions \subseteq given
            /\ given \cap RouteOptions = RouteNeeds(frame, route, topology)

\* Commands whose every item is parsed before the port is opened; random-write-file-register
\* and the lists of write-words and write-bits are not among them.
ItemsCheckedFirst ==
  {"link_direct_random_write_words", "link_direct_random_write_bits", "random_read",
   "random_write_words", "random_write_dwords", "random_write_bits", "remote_run",
   "remote_pause"}

WriteProbes == {"probe_write_all", "probe_random_write_words", "probe_random_write_bits",
                "probe_write_host_buffer", "probe_write_module_buffer"} \cup
               DOMAIN BlockModes

FixedScripts ==
  Joined(<<CpuControl, PasswordsAndReset, C24Signals, C24Recovery, Loopback, UserFrames,
           Buffers, QualifiedReads, ModuleBufferWrite, QualifiedWrites, WordReads,
           LinkDirectWordsAndBits, LongStateBits, LinkDirectBatch, LinkDirectRandom,
           LinkDirectBlockReads, LinkDirectBlockWrites, Monitors, RandomAccess,
           RandomFileRegistersAndBits, FileRegisterWrites, ProbeMonitor, ProbeBuffers,
           [probe_all |-> ProbeAll, probe_write_all |-> ProbeWriteAll,
            probe_random_read |-> ProbeRandomRead,
            probe_random_write_words |-> ProbeRandomWriteWords,
            probe_random_write_bits |-> ProbeRandomWriteBits,
            probe_write_host_buffer |-> ProbeWriteHostBuffer,
            probe_write_module_buffer |-> ProbeWriteModuleBuffer],
           [mode \in DOMAIN BlockModes |-> ProbeMultiBlock(mode)]>>)

GroupedCommands == DOMAIN GroupRequest

Commands == DOMAIN FixedScripts \cup GroupedCommands

ScriptOf(command) ==
  IF command \in GroupedCommands THEN GroupedScript ELSE FixedScripts[command]
=============================================================================
