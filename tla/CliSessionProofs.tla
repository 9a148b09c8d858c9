------------------------ MODULE CliSessionProofs ------------------------
(***************************************************************************)
(* Theorems about CliSession: route options, exit codes, and the order of  *)
(* the writes of write-words and write-bits, for every list of items and   *)
(* every limit of the groups; what the write probes leave behind, for      *)
(* every number of devices, every table of targets and whatever the        *)
(* devices hold.                                                           *)
(***************************************************************************)
EXTENDS CliSession, SequenceTheorems, TLAPS

-----------------------------------------------------------------------------
(* The tables of CliScripts.                                               *)

\* A joined table holds nothing but entries of its parts, under their own names.
LEMMA JoinedEntries ==
  ASSUME NEW tables, NEW name \in DOMAIN Joined(tables)
  PROVE  \E i \in DOMAIN tables : /\ name \in DOMAIN tables[i]
                                  /\ Joined(tables)[name] = tables[i][name]
  BY DEF Joined

LEMMA JoinedNames ==
  ASSUME NEW tables, NEW i \in DOMAIN tables, NEW name \in DOMAIN tables[i]
  PROVE  name \in DOMAIN Joined(tables)
  BY DEF Joined

\* The requests of the write probes, of write-words and of write-bits: which read and which write.
LEMMA KindOfRequest ==
  ASSUME NEW r \in {"batch_read_bit", "batch_read_words_group", "batch_read_bits_group",
                    "multi_block_read", "read_host_buffer", "read_module_buffer",
                    "batch_write_bit", "batch_write_words_group", "batch_write_bits_group",
                    "random_write_words", "random_write_bits", "multi_block_write",
                    "write_host_buffer", "write_module_buffer"}
  PROVE  /\ Requests[r] = IF r \in {"batch_read_bit", "batch_read_words_group",
                                    "batch_read_bits_group", "multi_block_read",
                                    "read_host_buffer", "read_module_buffer"}
                          THEN "reads" ELSE "writes"
         /\ r # "recover_c24"
<1> DEFINE kind == IF r \in {"batch_read_bit", "batch_read_words_group",
                             "batch_read_bits_group", "multi_block_read",
                             "read_host_buffer", "read_module_buffer"}
                   THEN "reads" ELSE "writes"
           Right(table) == r \in DOMAIN table => table[r] = kind
           tables == <<FileRegisterRequests, FileRegisterWritesAndMonitor, BatchRequests,
                       WriteRequests, RandomRequests, BlockRequests, BufferRequests,
                       DirectRequests, BareRequests>>
<1>1. Right(FileRegisterRequests) /\ Right(FileRegisterWritesAndMonitor)
  BY JoinedEntries DEF FileRegisterRequests, FileRegisterWritesAndMonitor, Kind
<1>2. Right(BatchRequests) /\ Right(WriteRequests)
  BY JoinedEntries DEF BatchRequests, WriteRequests, Kind
<1>3. Right(RandomRequests) /\ Right(BlockRequests)
  BY JoinedEntries DEF RandomRequests, BlockRequests, Kind
<1>4. Right(BufferRequests) /\ Right(DirectRequests) /\ Right(BareRequests)
  BY JoinedEntries DEF BufferRequests, DirectRequests, BareRequests, Kind
<1>5. /\ r \in {"batch_write_words_group"} => r \in DOMAIN FileRegisterRequests
      /\ r \in {"batch_read_bit", "batch_read_words_group", "batch_read_bits_group"} =>
           r \in DOMAIN BatchRequests
      /\ r \in {"batch_write_bits_group", "batch_write_bit"} => r \in DOMAIN WriteRequests
      /\ r \in {"random_write_words"} => r \in DOMAIN RandomRequests
  BY JoinedNames DEF FileRegisterRequests, BatchRequests, WriteRequests, RandomRequests, Kind
<1>6. /\ r \in {"random_write_bits", "multi_block_write", "multi_block_read"} =>
           r \in DOMAIN BlockRequests
      /\ r \in {"read_host_buffer", "read_module_buffer", "write_host_buffer",
                "write_module_buffer"} => r \in DOMAIN BufferRequests
  BY JoinedNames DEF BlockRequests, BufferRequests, Kind
<1>7. Requests = Joined(tables)
  BY DEF Requests
<1>8. /\ DOMAIN tables = 1..9 /\ tables[1] = FileRegisterRequests /\ tables[3] = BatchRequests
      /\ tables[4] = WriteRequests /\ tables[5] = RandomRequests /\ tables[6] = BlockRequests
      /\ tables[7] = BufferRequests
  OBVIOUS
<1>9. \A i \in DOMAIN tables : Right(tables[i])
  BY <1>1, <1>2, <1>3, <1>4
<1> HIDE DEF Right, tables, kind
<1>10. r \in DOMAIN Joined(tables)
  BY <1>5, <1>6, <1>8, JoinedNames
<1>11. Requests[r] = kind
  BY <1>7, <1>9, <1>10, JoinedEntries DEF Right
<1> QED
  BY <1>11 DEF kind

\* The requests of write-words and write-bits are writes.
LEMMA GroupsAreWrites ==
  ASSUME NEW c \in GroupedCommands
  PROVE  Requests[GroupRequest[c]] = "writes"
<1>1. GroupRequest[c] \in {"batch_write_words_group", "batch_write_bits_group"}
  BY DEF GroupedCommands, GroupRequest
<1> QED
  BY <1>1, KindOfRequest

-----------------------------------------------------------------------------

\* A script whose end is exit code 0 does not go on after a failure.
AbortsOnFailure(s) ==
  /\ s.verdict \in {"finished", "no_failure", "credited", "first_credit"}
  /\ s.verdict = "finished" =>
       \A i \in 1..Len(s.steps) : s.steps[i].fail = Abort /\ s.steps[i].differ = Abort

AllAbort(scripts) == \A c \in DOMAIN scripts : AbortsOnFailure(scripts[c])

LEMMA SameScripts ==
  ASSUME NEW refuses, NEW names
  PROVE  AllAbort(Same(refuses, names))
  BY DEF AllAbort, Same, Single, Script, Ask, Step, AbortsOnFailure

LEMMA SingleAborts ==
  ASSUME NEW refuses, NEW request
  PROVE  AbortsOnFailure(Single(refuses, request))
  BY DEF Single, Script, Ask, Step, AbortsOnFailure

LEMMA JoinedAbort ==
  ASSUME NEW tables, \A i \in DOMAIN tables : AllAbort(tables[i])
  PROVE  AllAbort(Joined(tables))
  BY JoinedEntries DEF AllAbort

Aborts(s) == s.fail = Abort /\ s.differ = Abort

LEMMA StepsAbort ==
  ASSUME NEW request, NEW where, NEW role, NEW put
  PROVE  /\ Aborts(Step(request, role, where)) /\ Aborts(Ask(request))
         /\ Aborts(Backup(request, where)) /\ Aborts(Test(request, where, put))
         /\ Aborts(Verify(request, where)) /\ Aborts(Restore(request, where))
         /\ Aborts(Recheck(request, where))
  BY DEF Aborts, Step, Ask, Backup, Test, Verify, Restore, Recheck

LEMMA PairAborts ==
  ASSUME NEW refuses, NEW first, NEW second, Aborts(first), Aborts(second)
  PROVE  AbortsOnFailure(Script(refuses, <<first, second>>, "finished"))
  BY DEF AbortsOnFailure, Script, Aborts

LEMMA ProbeMonitorAborts == AllAbort(ProbeMonitor)
<1> DEFINE s == ProbeMonitor.probe_monitor
           compared == ReadAndCompare("recheck", <<1, 2, 3, 4>>, BlockCells)
           first == <<Ask("register_monitor"), Backup("read_monitor", BlockCells)>>
           all == {first[1], first[2]} \cup {compared[i] : i \in 1..4}
<1>1. \A i \in 1..4 : Aborts(compared[i])
  BY DEF ReadAndCompare, Step, Aborts
<1>2. first \in Seq(all) /\ compared \in Seq(all)
  BY DEF ReadAndCompare
<1>3. Aborts(first[1]) /\ Aborts(first[2])
  BY StepsAbort
<1>4. s.verdict = "finished" /\ s.steps = first \o compared
  BY DEF ProbeMonitor, Script
<1> HIDE DEF first, compared
<1>5. \A x \in all : Aborts(x)
  BY <1>1, <1>3
<1> HIDE DEF all
<1>6. first \o compared \in Seq(all)
  BY <1>2, ConcatProperties
<1>7. AbortsOnFailure(s)
  BY <1>4, <1>5, <1>6 DEF AbortsOnFailure, Aborts
<1> QED
  BY <1>7, SingleAborts DEF ProbeMonitor, AllAbort

LEMMA ProbeWriteModuleBufferAborts == AbortsOnFailure(ProbeWriteModuleBuffer)
  BY StepsAbort DEF ProbeWriteModuleBuffer, Script, AbortsOnFailure, Aborts

LEMMA ScriptsAbort ==
  ASSUME NEW c \in Commands
  PROVE  AbortsOnFailure(ScriptOf(c))
<1>1. AllAbort(CpuControl) /\ AllAbort(PasswordsAndReset) /\ AllAbort(C24Signals)
      /\ AllAbort(C24Recovery) /\ AllAbort(Loopback) /\ AllAbort(UserFrames)
      /\ AllAbort(Buffers)
  BY SameScripts, JoinedAbort
     DEF CpuControl, PasswordsAndReset, C24Signals, C24Recovery, Loopback, UserFrames, Buffers
<1>2. AllAbort(QualifiedReads) /\ AllAbort(QualifiedWrites) /\ AllAbort(ProbeBuffers)
  BY SingleAborts DEF QualifiedReads, QualifiedWrites, ProbeBuffers, AllAbort
<1>3. AllAbort(ModuleBufferWrite) /\ AllAbort(LinkDirectBatch) /\ AllAbort(LinkDirectRandom)
      /\ AllAbort(LinkDirectBlockReads) /\ AllAbort(LinkDirectBlockWrites)
      /\ AllAbort(RandomAccess) /\ AllAbort(RandomFileRegistersAndBits)
      /\ AllAbort(FileRegisterWrites)
  BY SameScripts
     DEF ModuleBufferWrite, LinkDirectBatch, LinkDirectRandom, LinkDirectBlockReads,
         LinkDirectBlockWrites, RandomAccess, RandomFileRegistersAndBits, FileRegisterWrites
<1>4. AllAbort([read_words |-> Single(2, "batch_read_words_group")])
      /\ AllAbort([read_bits |-> Single(2, "batch_read_bits_group")])
  BY SingleAborts DEF AllAbort
<1>5. AllAbort(WordReads) /\ AllAbort(LinkDirectWordsAndBits)
  BY <1>4, SameScripts, JoinedAbort DEF WordReads, LinkDirectWordsAndBits
<1>6. AllAbort(LongStateBits) /\ AllAbort(Monitors)
  BY SingleAborts, PairAborts, StepsAbort DEF LongStateBits, Monitors, AllAbort
<1> DEFINE probes == [probe_all |-> ProbeAll, probe_write_all |-> ProbeWriteAll,
                      probe_random_read |-> ProbeRandomRead,
                      probe_random_write_words |-> ProbeRandomWriteWords,
                      probe_random_write_bits |-> ProbeRandomWriteBits,
                      probe_write_host_buffer |-> ProbeWriteHostBuffer,
                      probe_write_module_buffer |-> ProbeWriteModuleBuffer]
           modes == [mode \in DOMAIN BlockModes |-> ProbeMultiBlock(mode)]
           tables == <<CpuControl, PasswordsAndReset, C24Signals, C24Recovery, Loopback,
                       UserFrames, Buffers, QualifiedReads, ModuleBufferWrite,
                       QualifiedWrites, WordReads, LinkDirectWordsAndBits, LongStateBits,
                       LinkDirectBatch, LinkDirectRandom, LinkDirectBlockReads,
                       LinkDirectBlockWrites, Monitors, RandomAccess,
                       RandomFileRegistersAndBits, FileRegisterWrites, ProbeMonitor,
                       ProbeBuffers, probes, modes>>
<1>7. /\ ProbeAll.verdict = "no_failure" /\ ProbeWriteAll.verdict = "no_failure"
      /\ ProbeRandomRead.verdict = "credited" /\ ProbeRandomWriteWords.verdict = "credited"
      /\ ProbeRandomWriteBits.verdict = "credited"
      /\ ProbeWriteHostBuffer.verdict = "first_credit"
      /\ \A mode \in DOMAIN BlockModes : ProbeMultiBlock(mode).verdict = "credited"
  BY DEF ProbeAll, ProbeWriteAll, ProbeRandomRead, ProbeRandomWriteWords,
         ProbeRandomWriteBits, ProbeWriteHostBuffer, ProbeMultiBlock, Script
<1>8. AllAbort(probes) /\ AllAbort(modes)
  BY <1>7, ProbeWriteModuleBufferAborts DEF AllAbort, AbortsOnFailure
<1>9. FixedScripts = Joined(tables)
  BY DEF FixedScripts
<1> HIDE DEF probes, modes
<1>10. \A i \in 1..25 : AllAbort(tables[i])
  BY <1>1, <1>2, <1>3, <1>5, <1>6, <1>8, ProbeMonitorAborts
<1>11. DOMAIN tables = 1..25
  OBVIOUS
<1>12. AllAbort(FixedScripts)
  BY <1>9, <1>10, <1>11, JoinedAbort
<1>13. AbortsOnFailure(GroupedScript)
  BY DEF GroupedScript, Script, AbortsOnFailure
<1> QED
  BY <1>12, <1>13 DEF Commands, ScriptOf, AllAbort

-----------------------------------------------------------------------------
(* What a step may do to the parts of the state the invariant is about.    *)

coreVars == <<phase, placeVars, exit, failed, refused>>

\* A request has failed, or values differ.
Fallen ==
  /\ refused' = TRUE
  /\ \/ Exit(1) /\ UNCHANGED <<placeVars, failed>>
     \/ /\ ~Grouping /\ script.verdict # "finished"
        /\ phase' = "script" /\ failed' = TRUE /\ UNCHANGED <<group, exit>>

\* A request has been confirmed.
Confirmed ==
  /\ UNCHANGED <<failed, refused>>
  /\ \/ ~Grouping /\ Tolerant /\ Exit(0) /\ UNCHANGED placeVars
     \/ /\ Grouping /\ group' = <<>> /\ UNCHANGED <<at, exit>>
        /\ phase' = IF at <= Len(items) THEN "append" ELSE "script"
     \/ ~Grouping /\ phase' = "script" /\ at' = at + 1 /\ UNCHANGED <<group, exit>>

Begins ==
  /\ RequestIsNext /\ phase' = "discard"
  /\ UNCHANGED <<placeVars, exit, failed, refused, doubt, cells>>

Continues ==
  /\ InFlight /\ InFlight' /\ (phase' = "settle" => phase = "settle" \/ ~Grouping)
  /\ UNCHANGED <<placeVars, exit, failed, refused, doubt, cells>>

Fails == (RequestIsNext \/ InFlight) /\ Fallen /\ (UNCHANGED cells \/ (InFlight /\ TakesEffect))

Succeeds ==
  /\ InFlight /\ (Confirmed \/ Fallen)
  /\ TakesEffect \/ (phase = "settle" /\ UNCHANGED plcVars)
  /\ UNCHANGED doubt

Rests == UNCHANGED <<coreVars, doubt, sent, cells>>

Works == Begins \/ Continues \/ Fails \/ Succeeds \/ Rests

\* The request of a group.
LEMMA GroupStep ==
  ASSUME Grouping
  PROVE  /\ step.kind = "writes" /\ ~Bare /\ Writing
         /\ step.role = "write" /\ Overwrites = {{}}
         /\ step.fail = Abort /\ step.differ = Abort
         /\ step.compare = {} /\ step.credit = FALSE
         /\ step.request # "recover_c24"
  BY GroupsAreWrites
     DEF Grouping, step, WriteGroup, Step, Bare, Writing, Overwrites, GroupedCommands,
         GroupRequest

LEMMA FailFalls ==
  ASSUME CliInvariant, RequestIsNext \/ InFlight, Fail
  PROVE  Fallen
<1>1. CASE Grouping
  BY <1>1, GroupStep DEF Fail, Follow, Fallen
<1>2. CASE ~Grouping
  <2>1. script.verdict = "finished" => step.fail = Abort
    BY <1>2, ScriptsAbort
       DEF CliInvariant, PhasesFit, RequestIsNext, step, AbortsOnFailure
  <2> QED
    BY <1>2, <2>1 DEF Fail, Follow, Fallen
<1> QED
  BY <1>1, <1>2

LEMMA SucceedPasses ==
  ASSUME CliInvariant, InFlight, Succeed
  PROVE  Confirmed \/ Fallen
<1>1. CASE Grouping
  <2>1. Passed /\ UNCHANGED refused
    BY <1>1, GroupStep DEF Succeed
  <2> QED
    BY <1>1, <2>1, GroupStep DEF Passed, Confirmed
<1>2. CASE ~Grouping
  <2>1. script.verdict = "finished" => step.differ = Abort
    BY <1>2, ScriptsAbort DEF CliInvariant, PhasesFit, step, AbortsOnFailure
  <2>2. CASE Passed /\ UNCHANGED refused
    BY <1>2, <2>2 DEF Passed, Confirmed, Tolerant, placeVars
  <2>3. CASE Follow(step.differ) /\ refused' = TRUE
    BY <1>2, <2>1, <2>3 DEF Follow, Fallen
  <2> QED
    BY <2>2, <2>3 DEF Succeed
<1> QED
  BY <1>1, <1>2

LEMMA WorkSteps ==
  ASSUME CliInvariant,
         \/ StartRequest \/ DiscardFails \/ DiscardBytes \/ QuietPoll
         \/ BeginTransmit \/ EndTransmit \/ Answered \/ Refused \/ Unanswered \/ Garbled
         \/ LineFallsQuiet
  PROVE  Works /\ UNCHANGED fixedVars
<1> USE DEF InFlight, historyVars, doubtVars
<1>1. CASE StartRequest
  BY <1>1, FailFalls DEF StartRequest, Works, Begins, Fails, plcVars
<1>2. CASE DiscardFails
  BY <1>2, FailFalls DEF DiscardFails, Works, Fails, plcVars
<1>3. CASE DiscardBytes \/ LineFallsQuiet
  BY <1>3 DEF DiscardBytes, LineFallsQuiet, Works, Rests, toolVars, coreVars, plcVars
<1>4. CASE QuietPoll
  BY <1>4, SucceedPasses
     DEF QuietPoll, Works, Rests, Continues, Succeeds, toolVars, coreVars, plcVars
<1>5. CASE BeginTransmit
  BY <1>5, FailFalls DEF BeginTransmit, Works, Continues, Fails, plcVars
<1>6. CASE EndTransmit
  BY <1>6, FailFalls, GroupStep DEF EndTransmit, Lost, Works, Continues, Fails, plcVars
<1>7. CASE Answered
  BY <1>7, SucceedPasses DEF Answered, Works, Succeeds
<1>8. CASE Refused
  BY <1>8, FailFalls DEF Refused, Works, Fails, plcVars
<1>9. CASE Unanswered \/ Garbled
  BY <1>9, FailFalls DEF Unanswered, Garbled, Lost, Works, Fails, plcVars
<1> QED
  BY <1>1, <1>2, <1>3, <1>4, <1>5, <1>6, <1>7, <1>8, <1>9

-----------------------------------------------------------------------------
(* The invariant is inductive.                                             *)

startVars == <<command, items, script>>

LEMMA CliSteps ==
  ASSUME CliInvariant, [CliNext]_vars
  PROVE  /\ UNCHANGED startVars
         /\ \/ Parse \/ Open \/ CheckArguments \/ Finish \/ ParseItem \/ AppendItem
            \/ Works /\ UNCHANGED fixedVars
<1> USE DEF startVars, fixedVars
<1>1. CASE UNCHANGED vars
  BY <1>1 DEF vars, Works, Rests, toolVars, coreVars, plcVars, historyVars, doubtVars
<1>2. CASE Parse \/ Open \/ CheckArguments \/ Finish \/ ParseItem \/ AppendItem
  BY <1>2 DEF Parse, Open, CheckArguments, Finish, ParseItem, AppendItem
<1> QED
  BY <1>1, <1>2, WorkSteps DEF CliNext

LEMMA PhasesStep ==
  ASSUME CliInvariant, [CliNext]_vars
  PROVE  PhasesFit'
<1> USE CliSteps
    DEF CliInvariant, PhasesFit, Starting, InFlight, Exit, startVars, Grouping, placeVars,
        historyVars, doubtVars
<1>1. CASE Parse
  BY <1>1 DEF Parse
<1>8. CASE Open
  BY <1>8 DEF Open
<1>9. CASE CheckArguments
  BY <1>9 DEF CheckArguments, fixedVars
<1>2. CASE Finish \/ ParseItem \/ AppendItem
  BY <1>2 DEF Finish, ParseItem, AppendItem, fixedVars
<1>3. ASSUME UNCHANGED fixedVars, Begins
      PROVE  PhasesFit'
  BY <1>3 DEF Begins, RequestIsNext, fixedVars
<1>4. ASSUME UNCHANGED fixedVars, Continues
      PROVE  PhasesFit'
  BY <1>4 DEF Continues, fixedVars
<1>5. ASSUME UNCHANGED fixedVars, RequestIsNext \/ InFlight, Fallen
      PROVE  PhasesFit'
  BY <1>5 DEF RequestIsNext, Fallen, fixedVars
<1>6. ASSUME UNCHANGED fixedVars, InFlight, Confirmed
      PROVE  PhasesFit'
  BY <1>6 DEF Confirmed, fixedVars
<1>7. ASSUME UNCHANGED fixedVars, Rests
      PROVE  PhasesFit'
  BY <1>7 DEF Rests, coreVars, fixedVars
<1> HIDE DEF CliInvariant, PhasesFit, Starting, InFlight, Exit, startVars, Grouping,
             placeVars, historyVars, doubtVars
<1> QED
  BY <1>1, <1>2, <1>3, <1>4, <1>5, <1>6, <1>7, <1>8, <1>9 DEF Works, Fails, Succeeds

LEMMA FailuresStep ==
  ASSUME CliInvariant, [CliNext]_vars
  PROVE  FailuresAreKept' /\ ExitCodeIsHonest'
<1> USE CliSteps
    DEF CliInvariant, PhasesFit, FailuresAreKept, ExitCodeIsHonest, Starting, InFlight, Exit,
        startVars, Grouping, Tolerant, historyVars, doubtVars, Running
<1>1. CASE Parse \/ Open \/ CheckArguments
  BY <1>1 DEF Parse, Open, CheckArguments
<1>2. CASE ParseItem \/ AppendItem
  BY <1>2 DEF ParseItem, AppendItem
<1>6. CASE Finish
  BY <1>6, ScriptsAbort DEF Finish, AbortsOnFailure
<1>3. ASSUME Begins \/ Continues \/ Rests
      PROVE  FailuresAreKept' /\ ExitCodeIsHonest'
  BY <1>3 DEF Begins, Continues, Rests, RequestIsNext, coreVars
<1>4. ASSUME Fallen, RequestIsNext \/ InFlight
      PROVE  FailuresAreKept' /\ ExitCodeIsHonest'
  BY <1>4 DEF Fallen, RequestIsNext
<1>5. ASSUME Confirmed, InFlight, UNCHANGED doubt
      PROVE  FailuresAreKept' /\ ExitCodeIsHonest'
  BY <1>5 DEF Confirmed
<1> HIDE DEF CliInvariant, PhasesFit, FailuresAreKept, ExitCodeIsHonest, Starting,
             InFlight, Exit, startVars, Grouping, Tolerant, historyVars, doubtVars, Running
<1> QED
  BY <1>1, <1>2, <1>3, <1>4, <1>5, <1>6 DEF Works, Fails, Succeeds

LEMMA RouteStep ==
  ASSUME CliInvariant, [CliNext]_vars
  PROVE  RouteIsExplicit'
<1>1. CASE Parse
  <2> SUFFICES ASSUME line' # NoLine
               PROVE  RouteIsExplicit'
    BY DEF RouteIsExplicit
  <2>1. PICK given \in Given, frame \in {"C1", "C2", "C3", "C4"},
             route \in {"host", "multidrop"}, topology \in {"standard", "mn"} :
               /\ OptionsAccepted(command, given, frame, route, topology)
               /\ line' = IF route = "host" \/ command = "recover_c24" THEN NoLine
                          ELSE [frame |-> frame, topology |-> topology,
                                given |-> given \cap RouteOptions]
    BY <1>1 DEF Parse, RouteIsExplicit, CliInvariant, PhasesFit
  <2>2. /\ line'.frame = frame /\ line'.topology = topology
        /\ line'.given = RouteNeeds(frame, "multidrop", topology)
    BY <2>1 DEF OptionsAccepted
  <2> QED
    BY <2>2 DEF RouteIsExplicit, RouteNeeds, HeaderFields
<1>2. CASE Open
  BY <1>2 DEF Open, RouteIsExplicit
<1>3. CASE UNCHANGED fixedVars
  BY <1>3 DEF fixedVars, CliInvariant, RouteIsExplicit
<1> QED
  BY <1>1, <1>2, <1>3, CliSteps
     DEF CheckArguments, Finish, ParseItem, AppendItem

-----------------------------------------------------------------------------
(* write-words and write-bits: the devices follow the items.               *)

LEMMA GroupNumbers ==
  ASSUME group \in Seq([cell : CliCells, value : {0, 1}]), NEW j \in DOMAIN group
  PROVE  j \in Int /\ group[1].cell \in Int
<1>1. j \in 1..Len(group) /\ Len(group) \in Nat
  OBVIOUS
<1>2. 1 \in 1..Len(group)
  BY <1>1
<1>3. group[1] \in [cell : CliCells, value : {0, 1}]
  BY <1>2, ElementOfSeq
<1> QED
  BY <1>1, <1>3 DEF CliCells

\* What the request of a group writes.
LEMMA GroupWrites ==
  ASSUME Grouping, TakesEffect, group \in Seq([cell : CliCells, value : {0, 1}]),
         NEW c \in CliCells
  PROVE  /\ \A j \in DOMAIN group :
              c = group[1].cell + j - 1 => cells'[c] = group[j].value
         /\ (\A j \in DOMAIN group : c # group[1].cell + j - 1) => cells'[c] = cells[c]
<1> DEFINE follows == {group[1].cell + i - 1 : i \in DOMAIN group} \cap CliCells
<1>1. cells'[c] = Written[c]
  BY GroupStep DEF TakesEffect
<1>2. step.at = follows /\ step.put = [d \in follows |-> group[d - group[1].cell + 1].value]
  BY DEF Grouping, step, WriteGroup, Step
<1>3. Written[c] = IF c \in follows THEN group[c - group[1].cell + 1].value ELSE cells[c]
  BY <1>2, GroupStep DEF Written
<1>4. ASSUME NEW j \in DOMAIN group, c = group[1].cell + j - 1
      PROVE  cells'[c] = group[j].value
  <2>1. j \in Int /\ group[1].cell \in Int
    BY <1>4, GroupNumbers
  <2>2. c \in follows /\ c - group[1].cell + 1 = j
    BY <1>4, <2>1
  <2> QED
    BY <1>1, <1>3, <2>2
<1> QED
  BY <1>1, <1>3, <1>4

LEMMA GroupArrives ==
  ASSUME CliInvariant, Grouping, group # <<>>, phase # "exited",
         TakesEffect, UNCHANGED <<items, original>>,
         NEW n, n = at - 1
  PROVE  AfterItems(n)'
<1> DEFINE m == at - 1 - Len(group)
           mine(c, k) == {i \in 1..k : items[i].cell = c}
<1>1. /\ group \in Seq([cell : CliCells, value : {0, 1}])
      /\ \A j \in DOMAIN group : /\ items[m + j] = group[j]
                                 /\ group[j].cell = group[1].cell + j - 1
  BY DEF CliInvariant, GroupIsRecent
<1>2. at \in Nat /\ Len(group) \in Nat /\ Len(group) < at /\ DOMAIN group = 1..Len(group)
  BY <1>1 DEF CliInvariant, PhasesFit, GroupIsRecent
<1>3. m \in Nat /\ n \in Nat /\ n = m + Len(group)
  BY <1>2
<1>4. AfterItems(m)
  BY DEF CliInvariant, GroupIsNext
<1> SUFFICES ASSUME NEW c \in CliCells
             PROVE  IF mine(c, n) = {} THEN cells'[c] = original[c]
                    ELSE \E last \in mine(c, n) : /\ \A i \in mine(c, n) : i <= last
                                                  /\ cells'[c] = items[last].value
  BY DEF AfterItems
<1>5. \A i \in mine(c, n) : i <= m \/ \E j \in DOMAIN group : i = m + j /\ group[j].cell = c
  <2> SUFFICES ASSUME NEW i \in mine(c, n), ~(i <= m)
               PROVE  i - m \in DOMAIN group /\ i = m + (i - m) /\ group[i - m].cell = c
    OBVIOUS
  <2>1. i - m \in DOMAIN group /\ i = m + (i - m)
    BY <1>2, <1>3
  <2> QED
    BY <2>1, <1>1
<1>6. CASE \E j \in DOMAIN group : group[j].cell = c
  <2>1. PICK j \in DOMAIN group : group[j].cell = c
    BY <1>6
  <2>2. cells'[c] = items[m + j].value
    BY <1>1, <2>1, GroupWrites
  <2>3. m + j \in mine(c, n)
    BY <1>1, <1>2, <1>3, <2>1
  <2>4. \A i \in mine(c, n) : i <= m + j
    <3> SUFFICES ASSUME NEW i \in mine(c, n), NEW k \in DOMAIN group,
                        i = m + k, group[k].cell = c
                 PROVE  i <= m + j
      BY <1>2, <1>3, <1>5
    <3>1. group[1].cell \in Int /\ k \in Int /\ j \in Int
      BY <1>1, GroupNumbers
    <3>2. group[1].cell + k - 1 = group[1].cell + j - 1
      BY <1>1, <2>1
    <3>3. k = j
      BY <3>1, <3>2
    <3> QED
      BY <1>3, <3>1, <3>3
  <2> QED
    BY <2>2, <2>3, <2>4
<1>7. CASE \A j \in DOMAIN group : group[j].cell # c
  <2>1. cells'[c] = cells[c]
    BY <1>1, <1>7, GroupWrites
  <2>2. mine(c, n) = mine(c, m)
    BY <1>2, <1>3, <1>5, <1>7
  <2> QED
    BY <1>4, <2>1, <2>2 DEF AfterItems
<1> QED
  BY <1>6, <1>7

\* A step that leaves the devices alone leaves what they hold alone.
LEMMA ArrivedStays ==
  ASSUME UNCHANGED <<cells, items, original>>, NEW n, AfterItems(n)
  PROVE  AfterItems(n)'
  BY DEF AfterItems

LEMMA GroupPlace ==
  ASSUME CliInvariant, Grouping
  PROVE  /\ items \in Seq([cell : CliCells, value : {0, 1}])
         /\ group \in Seq([cell : CliCells, value : {0, 1}])
         /\ at \in Nat /\ Len(items) \in Nat /\ Len(group) \in Nat
         /\ at - 1 \in 0..Len(items) /\ at - 1 - Len(group) \in 0..Len(items)
<1>1. /\ items \in Seq([cell : CliCells, value : {0, 1}])
      /\ group \in Seq([cell : CliCells, value : {0, 1}])
  BY CliScriptsAssumption DEF CliInvariant, GroupIsRecent
<1>2. Len(items) \in Nat /\ Len(group) \in Nat
  BY <1>1
<1>3. at \in 1..(Len(items) + 1) /\ Len(group) < at
  BY DEF CliInvariant, PhasesFit, GroupIsRecent
<1> QED
  BY <1>1, <1>2, <1>3

LEMMA AppendStep ==
  ASSUME CliInvariant, Grouping, AppendItem
  PROVE  /\ group' \in Seq([cell : CliCells, value : {0, 1}]) /\ Len(group') < at'
         /\ \A i \in DOMAIN group' : /\ group'[i] = items[at' - 1 - Len(group') + i]
                                     /\ group'[i].cell = group'[1].cell + i - 1
         /\ at' - 1 - Len(group') = at - 1 - Len(group)
<1> DEFINE k == Len(group)
           Item == [cell : CliCells, value : {0, 1}]
           last == items[at]
<1>1. /\ group \in Seq(Item) /\ k \in Nat /\ at \in Nat /\ DOMAIN group = 1..k
      /\ at \in 1..Len(items) /\ k < at
  BY GroupPlace DEF AppendItem, CliInvariant, PhasesFit, GroupIsRecent
<1>2. last \in Item
  BY <1>1, GroupPlace, ElementOfSeq
<1>3. /\ group' = Append(group, last) /\ group' \in Seq(Item) /\ Len(group') = k + 1
      /\ at' = at + 1
      /\ \A i \in 1..k : group'[i] = group[i]
      /\ group'[k + 1] = last
  <2>1. group' = Append(group, last) /\ at' = at + 1
    BY DEF AppendItem
  <2> HIDE DEF last, Item
  <2> QED
    BY <2>1, <1>1, <1>2, AppendProperties
<1>4. at' - 1 - Len(group') = at - 1 - k
  BY <1>1, <1>3
<1>5. ASSUME NEW i \in 1..k
      PROVE  /\ group'[i] = items[at' - 1 - Len(group') + i]
             /\ group'[i].cell = group'[1].cell + i - 1
  <2>1. 1 \in 1..k
    BY <1>1, <1>5
  <2>2. /\ group[i] = items[at - 1 - k + i]
        /\ group[i].cell = group[1].cell + i - 1
    BY <1>1, <1>5 DEF CliInvariant, GroupIsRecent
  <2> HIDE DEF k, last
  <2> QED
    BY <1>3, <1>4, <1>5, <2>1, <2>2
<1>6. /\ group'[k + 1] = items[at' - 1 - Len(group') + (k + 1)]
      /\ group'[k + 1].cell = group'[1].cell + (k + 1) - 1
  <2>1. group'[k + 1] = items[at' - 1 - Len(group') + (k + 1)]
    BY <1>1, <1>3, <1>4
  <2>2. CASE group = <<>>
    <3>1. k = 0
      BY <2>2
    <3>2. last.cell \in Int
      BY <1>2 DEF CliCells
    <3> QED
      BY <1>3, <3>1, <3>2, <2>1
  <2>3. CASE group # <<>>
    <3>1. last.cell = group[k].cell + 1
      BY <2>3 DEF AppendItem, CanAppend, Last
    <3>2. k \in 1..k /\ 1 \in 1..k
      BY <1>1, <2>3, EmptySeq
    <3>3. group[k].cell = group[1].cell + k - 1
      BY <3>2, <1>1 DEF CliInvariant, GroupIsRecent
    <3>4. group[1].cell \in Int
      BY <1>1, <3>2, GroupNumbers
    <3> QED
      BY <1>1, <1>3, <2>1, <3>1, <3>2, <3>3, <3>4
  <2> QED
    BY <2>1, <2>2, <2>3
<1>7. \A i \in DOMAIN group' : i \in 1..k \/ i = k + 1
  BY <1>1, <1>3
<1>8. Len(group') < at'
  BY <1>1, <1>3
<1> HIDE DEF k, last, Item
<1> QED
  BY <1>3, <1>4, <1>5, <1>6, <1>7, <1>8 DEF k, Item

LEMMA GroupIsRecentStep ==
  ASSUME CliInvariant, [CliNext]_vars
  PROVE  GroupIsRecent'
<1>1. CASE UNCHANGED placeVars
  BY <1>1, CliSteps DEF placeVars, startVars, CliInvariant, GroupIsRecent, Grouping
<1>2. ASSUME Grouping', group' = <<>>, at' = at
      PROVE  GroupIsRecent'
  BY <1>2, CliSteps DEF GroupIsRecent, CliInvariant, PhasesFit, startVars, Grouping
<1>3. CASE Parse \/ Open \/ CheckArguments \/ Finish \/ ParseItem
  BY <1>1, <1>3 DEF Parse, Open, CheckArguments, Finish, ParseItem
<1>4. CASE AppendItem
  BY <1>4, AppendStep, CliSteps DEF startVars, Grouping, GroupIsRecent
<1>5. CASE Works
  BY <1>1, <1>2, <1>5, CliSteps
     DEF Works, Begins, Continues, Fails, Succeeds, Fallen, Confirmed, Rests, coreVars,
         placeVars, Grouping, startVars, GroupIsRecent
<1> QED
  BY <1>3, <1>4, <1>5, CliSteps

LEMMA GroupIsNextStep ==
  ASSUME CliInvariant, [CliNext]_vars
  PROVE  GroupIsNext'
<1> SUFFICES ASSUME Grouping
             PROVE  GroupIsNext'
  BY CliSteps DEF GroupIsNext, Grouping, startVars
<1>a. PICK n \in 0..Len(items) : n = at - 1 - Len(group)
  BY GroupPlace
<1>b. PICK taken \in 0..Len(items) : taken = at - 1
  BY GroupPlace
<1>0. items' = items /\ (phase # "exited" => AfterItems(n))
  BY <1>a, CliSteps DEF CliInvariant, GroupIsNext, startVars
<1>p. \A k \in 0..Len(items) :
        AfterItems(k)' /\ at' - 1 - Len(group') = k /\ (exit' = 0 => k = Len(items))
          => GroupIsNext'
  BY <1>0 DEF GroupIsNext
<1>q. \A k \in 0..Len(items) :
        AfterItems(k)' /\ phase' = "exited" /\ (exit' = 0 => k = Len(items)) => GroupIsNext'
  BY <1>0 DEF GroupIsNext
<1>1. CASE Parse \/ Open \/ CheckArguments
  <2>1. n = 0 /\ Starting /\ UNCHANGED placeVars
    BY <1>1, <1>a
       DEF Parse, Open, CheckArguments, Starting, CliInvariant, PhasesFit
  <2>2. CASE Open /\ cells' = original'
    <3>1. AfterItems(n)'
      BY <2>1, <2>2 DEF AfterItems
    <3>2. exit' # 0
      BY <2>1, <2>2 DEF Open, Exit, CliInvariant, PhasesFit, Starting, Running
    <3> QED
      BY <1>a, <1>p, <2>1, <3>1, <3>2 DEF placeVars
  <2>3. CASE UNCHANGED <<cells, original>>
    <3>1. AfterItems(n)'
      BY <1>0, <2>1, <2>3, ArrivedStays DEF Starting
    <3>2. exit' # 0
      BY <1>1, <2>1
         DEF Parse, Open, CheckArguments, Exit, CliInvariant, PhasesFit, Starting, Running
    <3> QED
      BY <1>a, <1>p, <2>1, <3>1, <3>2 DEF placeVars
  <2> QED
    BY <1>1, <2>2, <2>3 DEF Parse, Open, CheckArguments, plcVars, fixedVars
<1>2. CASE Finish
  <2>1. n = Len(items)
    BY <1>a, <1>2, GroupPlace DEF Finish, AtEnd
  <2>2. AfterItems(n)' /\ phase' = "exited"
    BY <1>0, <1>2, ArrivedStays DEF Finish, Exit, plcVars, fixedVars
  <2> QED
    BY <1>q, <2>1, <2>2
<1>3. CASE ParseItem
  <2>1. AfterItems(n)' /\ UNCHANGED placeVars
    BY <1>0, <1>3, ArrivedStays DEF ParseItem, plcVars, fixedVars
  <2>2. exit' # 0
    BY <1>3 DEF ParseItem, Exit, CliInvariant, PhasesFit, Running
  <2> QED
    BY <1>a, <1>p, <2>1, <2>2 DEF placeVars
<1>4. CASE AppendItem
  <2>1. AfterItems(n)'
    BY <1>0, <1>4, ArrivedStays DEF AppendItem, plcVars, fixedVars
  <2>2. exit' # 0
    BY <1>4 DEF AppendItem, CliInvariant, PhasesFit, Running
  <2> QED
    BY <1>4, <1>a, <1>p, <2>1, <2>2, AppendStep
<1>5. ASSUME UNCHANGED fixedVars, Begins \/ Continues
      PROVE  GroupIsNext'
  <2>1. AfterItems(n)' /\ UNCHANGED placeVars
    BY <1>0, <1>5, ArrivedStays
       DEF Begins, Continues, RequestIsNext, InFlight, fixedVars
  <2>2. exit' # 0
    BY <1>5
       DEF Begins, Continues, RequestIsNext, InFlight, CliInvariant, PhasesFit, Running
  <2> QED
    BY <1>a, <1>p, <2>1, <2>2 DEF placeVars
<1>6. CASE UNCHANGED fixedVars /\ Rests
  BY <1>6, <1>0, ArrivedStays
     DEF Rests, coreVars, placeVars, fixedVars, GroupIsNext, CliInvariant
<1>7. ASSUME RequestIsNext \/ InFlight
      PROVE  group # <<>> /\ phase # "exited" /\ phase # "settle"
  BY <1>7 DEF RequestIsNext, InFlight, CliInvariant, PhasesFit
<1>8. ASSUME UNCHANGED fixedVars, TakesEffect, RequestIsNext \/ InFlight
      PROVE  AfterItems(taken)'
  BY <1>b, <1>7, <1>8, GroupArrives DEF fixedVars
<1>9. ASSUME UNCHANGED fixedVars, RequestIsNext \/ InFlight, Fallen,
             UNCHANGED cells \/ TakesEffect
      PROVE  GroupIsNext'
  <2>1. phase' = "exited" /\ exit' # 0
    BY <1>9 DEF Fallen, Exit
  <2>2. CASE UNCHANGED cells
    <3>1. AfterItems(n)'
      BY <1>0, <1>7, <1>9, <2>2, ArrivedStays DEF fixedVars
    <3> QED
      BY <1>q, <2>1, <3>1
  <2>3. CASE TakesEffect
    BY <1>q, <1>8, <1>9, <2>1, <2>3
  <2> QED
    BY <1>9, <2>2, <2>3
<1>10. ASSUME UNCHANGED fixedVars, InFlight, Confirmed, TakesEffect
       PROVE  GroupIsNext'
  <2>1. AfterItems(taken)'
    BY <1>8, <1>10
  <2>2. group' = <<>> /\ at' = at /\ exit' # 0
    BY <1>7, <1>10 DEF Confirmed, CliInvariant, PhasesFit, Running
  <2>3. at' - 1 - Len(group') = taken
    BY <1>b, <2>2
  <2> QED
    BY <1>p, <2>1, <2>2, <2>3
<1> QED
  BY <1>1, <1>2, <1>3, <1>4, <1>5, <1>6, <1>7, <1>9, <1>10, CliSteps
     DEF Works, Fails, Succeeds

-----------------------------------------------------------------------------
(* The theorems.                                                           *)

LEMMA CliInvariantInit == CliInit => CliInvariant
<1> SUFFICES ASSUME CliInit
             PROVE  CliInvariant
  OBVIOUS
<1> USE DEF CliInit
<1>1. PhasesFit
  <2>1. Grouping => Len(items) \in Nat
    BY CliScriptsAssumption DEF Grouping
  <2> QED
    BY <2>1 DEF PhasesFit, Starting, InFlight, NoLine
<1>2. GroupIsRecent
  BY DEF GroupIsRecent
<1>3. AfterItems(0)
  BY DEF AfterItems
<1>4. GroupIsNext
  <2>1. Grouping => Len(items) \in Nat
    BY CliScriptsAssumption DEF Grouping
  <2> QED
    BY <1>3, <2>1 DEF GroupIsNext, Running
<1>5. FailuresAreKept /\ RouteIsExplicit /\ ExitCodeIsHonest
  BY DEF FailuresAreKept, RouteIsExplicit, ExitCodeIsHonest, Running
<1> QED
  BY <1>1, <1>2, <1>4, <1>5 DEF CliInvariant, Grouping

\* What the tool keeps from its start to its exit, for every list of items and every limit
\* of a group: where it is, what of the items has been written, and what has failed.
THEOREM CliInvariantCorrect == CliSpec => []CliInvariant
<1>1. CliInvariant /\ [CliNext]_vars => CliInvariant'
  <2> SUFFICES ASSUME CliInvariant, [CliNext]_vars
               PROVE  CliInvariant'
    OBVIOUS
  <2>1. /\ (command \in Commands)' /\ (script = ScriptOf(command))'
        /\ (Grouping => items \in ItemLists)'
    BY CliSteps DEF CliInvariant, startVars, Grouping
  <2> QED
    BY <2>1, PhasesStep, GroupIsRecentStep, GroupIsNextStep, FailuresStep, RouteStep
       DEF CliInvariant
<1> QED
  BY <1>1, CliInvariantInit, PTL DEF CliSpec

\* Whatever is given on the command line (parse_args), an accepted set of route options is
\* that of the frame's header.
THEOREM RouteIsExplicitHolds == CliSpec => []RouteIsExplicit
<1>1. CliInvariant => RouteIsExplicit
  BY DEF CliInvariant
<1> QED
  BY <1>1, CliInvariantCorrect, PTL

\* Exit code 0 never hides a failed request or a value that differs, and exit code 2 never a
\* request that may have been executed, for every list of items.
THEOREM ExitCodeIsHonestHolds == CliSpec => []ExitCodeIsHonest
<1>1. CliInvariant => ExitCodeIsHonest
  BY DEF CliInvariant
<1> QED
  BY <1>1, CliInvariantCorrect, PTL

\* write-words and write-bits write any list of items in order, however long it is, whatever
\* the limit of a group, and wherever a bad item or a failed request ends the command.
THEOREM WritesArriveInOrderHolds == CliSpec => []WritesArriveInOrder
<1>1. CliInvariant => WritesArriveInOrder
  BY GroupPlace DEF CliInvariant, GroupIsNext, WritesArriveInOrder, Grouping
<1> QED
  BY <1>1, CliInvariantCorrect, PTL
-----------------------------------------------------------------------------
(* The write probes: what follows from the form of their scripts.          *)

\* Where something else is done, nothing is owed.
LEMMA NothingOwed ==
  ASSUME NEW s, NEW k \in Int, ~RoleAt(s, k, {"verify", "restore"})
  PROVE  Owed(s, k) = {}
<1> SUFFICES ASSUME NEW c \in Owed(s, k)
             PROVE  FALSE
  OBVIOUS
<1>1. PICK j \in k..Len(s.steps) : \A i \in k..j : RoleAt(s, i, {"verify", "restore"})
  BY DEF Owed
<1>2. k \in k..j
  BY <1>1
<1> QED
  BY <1>1, <1>2

\* A step leaves owed what was owed, except for what it restores.
LEMMA OwedNext ==
  ASSUME NEW s, NEW k \in Int, NEW c \in Owed(s, k),
         RoleAt(s, k, {"restore"}) => c \notin s.steps[k].at
  PROVE  c \in Owed(s, k + 1)
<1>1. PICK j \in k..Len(s.steps) :
        /\ RoleAt(s, j, {"restore"}) /\ c \in s.steps[j].at
        /\ \A i \in k..j : RoleAt(s, i, {"verify", "restore"})
  BY DEF Owed
<1>2. j # k
  BY <1>1
<1>3. j \in (k + 1)..Len(s.steps) /\ \A i \in (k + 1)..j : i \in k..j
  BY <1>1, <1>2
<1> QED
  BY <1>1, <1>3 DEF Owed

\* Verifications leave owed what was owed.
LEMMA OwedAfterVerifying ==
  ASSUME NEW s, NEW k \in Int, NEW n \in Nat, NEW c \in Owed(s, k), Verifying(s, k, n)
  PROVE  c \in Owed(s, k + 1 + n)
<1>1. PICK j \in k..Len(s.steps) :
        /\ RoleAt(s, j, {"restore"}) /\ c \in s.steps[j].at
        /\ \A i \in k..j : RoleAt(s, i, {"verify", "restore"})
  BY DEF Owed
<1>2. j \notin k..(k + n)
  BY <1>1 DEF Verifying, RoleAt
<1>3. j \in (k + 1 + n)..Len(s.steps) /\ \A i \in (k + 1 + n)..j : i \in k..j
  BY <1>1, <1>2
<1> QED
  BY <1>1, <1>3 DEF Owed

\* A step keeps what it backs up, and no more.
LEMMA KeptNext ==
  ASSUME NEW s, NEW k \in Nat \ {0}, NEW c \in Kept(s, k + 1)
  PROVE  c \in Kept(s, k) \/ (RoleAt(s, k, {"backup"}) /\ c \in s.steps[k].at)
<1>1. PICK j \in 1..(k + 1 - 1) : RoleAt(s, j, {"backup"}) /\ c \in s.steps[j].at
  BY DEF Kept
<1>2. j = k \/ j \in 1..(k - 1)
  BY <1>1
<1> QED
  BY <1>1, <1>2 DEF Kept

\* Going on over steps that are no backups keeps nothing more.
LEMMA KeptJump ==
  ASSUME NEW s, NEW k \in Nat \ {0}, NEW n \in Nat, NEW c \in Kept(s, k + 1 + n),
         \A i \in k..(k + n) : ~RoleAt(s, i, {"backup"})
  PROVE  c \in Kept(s, k)
<1>1. PICK j \in 1..(k + 1 + n - 1) : RoleAt(s, j, {"backup"}) /\ c \in s.steps[j].at
  BY DEF Kept
<1>2. j \in k..(k + n) \/ j \in 1..(k - 1)
  BY <1>1
<1> QED
  BY <1>1, <1>2 DEF Kept

\* A step leaves to be rechecked what it does not recheck itself.
LEMMA RecheckedNext ==
  ASSUME NEW s, NEW k \in Int, NEW c \in Rechecked(s, k),
         Strict(s, k) => c \notin s.steps[k].compare
  PROVE  c \in Rechecked(s, k + 1)
<1>1. PICK j \in k..Len(s.steps) : Strict(s, j) /\ c \in s.steps[j].compare
  BY DEF Rechecked
<1>2. j \in (k + 1)..Len(s.steps)
  BY <1>1
<1> QED
  BY <1>1, <1>2 DEF Rechecked

\* Going on over no strict recheck leaves to be rechecked what was.
LEMMA RecheckedJump ==
  ASSUME NEW s, NEW k \in Int, NEW n \in Nat, NEW c \in Rechecked(s, k),
         \A i \in k..(k + n) : ~Strict(s, i)
  PROVE  c \in Rechecked(s, k + 1 + n)
<1>1. PICK j \in k..Len(s.steps) : Strict(s, j) /\ c \in s.steps[j].compare
  BY DEF Rechecked
<1>2. j \in (k + 1 + n)..Len(s.steps)
  BY <1>1
<1> QED
  BY <1>1, <1>2 DEF Rechecked

\* Behind a strict recheck has been reread what it reads and what was reread before it.
LEMMA RereadNext ==
  ASSUME NEW s, NEW k \in Nat \ {0}, NEW c \in Reread(s, k + 1)
  PROVE  Strict(s, k) /\ (c \in s.steps[k].at \/ c \in Reread(s, k))
<1>1. PICK i \in 1..(k + 1 - 1) : c \in s.steps[i].at /\ \A j \in i..(k + 1 - 1) : Strict(s, j)
  BY DEF Reread
<1>2. k \in i..(k + 1 - 1)
  BY <1>1
<1>3. i = k \/ i \in 1..(k - 1)
  BY <1>1
<1>4. \A j \in i..(k - 1) : j \in i..(k + 1 - 1)
  BY <1>1
<1> QED
  BY <1>1, <1>2, <1>3, <1>4 DEF Reread

\* A strict recheck rereads the devices it reads.
LEMMA RereadLast ==
  ASSUME NEW s, NEW k \in Nat \ {0}, Strict(s, k), NEW c \in CliCells, c \in s.steps[k].at
  PROVE  c \in Reread(s, k + 1)
<1>1. k \in 1..(k + 1 - 1) /\ \A j \in k..(k + 1 - 1) : j = k
  OBVIOUS
<1> QED
  BY <1>1 DEF Reread

\* Behind steps that are no strict rechecks, nothing counts as reread.
LEMMA NothingReread ==
  ASSUME NEW s, NEW k \in Nat \ {0}, NEW n \in Nat, \A i \in k..(k + n) : ~Strict(s, i)
  PROVE  Reread(s, k + 1 + n) = {}
<1> SUFFICES ASSUME NEW c \in Reread(s, k + 1 + n)
             PROVE  FALSE
  OBVIOUS
<1>1. PICK i \in 1..(k + 1 + n - 1) : \A j \in i..(k + 1 + n - 1) : Strict(s, j)
  BY DEF Reread
<1>2. k + n \in i..(k + 1 + n - 1) /\ k + n \in k..(k + n)
  BY <1>1
<1> QED
  BY <1>1, <1>2

\* At the end of a script nothing is owed and nothing will be rechecked.
LEMMA NothingAhead ==
  ASSUME NEW s, NEW k \in Int, k > Len(s.steps)
  PROVE  Owed(s, k) = {} /\ Rechecked(s, k) = {}
<1>1. ASSUME NEW j \in k..Len(s.steps), RoleAt(s, j, {"restore", "recheck"})
      PROVE  FALSE
  BY <1>1 DEF RoleAt
<1> QED
  BY <1>1 DEF Owed, Rechecked, Strict, RoleAt
-----------------------------------------------------------------------------
(* The write probes: what a step does.                                     *)

ProbeState == Probing /\ CliInvariant /\ ProbeInvariant /\ Disciplined(script)

\* The verdicts of the write probes.
VerdictFits ==
  /\ command \in RestoringProbes => script.verdict = "credited"
  /\ command # "probe_write_host_buffer" => script.verdict # "first_credit"

\* A probe is neither write-words nor write-bits.
LEMMA ProbesAreNotGrouped ==
  ASSUME Probing
  PROVE  ~Grouping
  BY DEF Probing, WriteProbes, BlockModes, Grouping, GroupedCommands, GroupRequest

\* The step a probe is at is one of its script's and has the form of its role.
LEMMA ProbeStep ==
  ASSUME ProbeState, RequestIsNext \/ InFlight
  PROVE  /\ at \in 1..Len(script.steps) /\ at \in Nat \ {0} /\ step = script.steps[at]
         /\ ~Grouping /\ ~Bare
         /\ StepFits(script, at) /\ TestIsAnswered(script, at) /\ FailureFits(script, at)
         /\ DifferenceFits(script, at) /\ GivingUpFits(script, at)
         /\ \A roles : RoleAt(script, at, roles) <=> step.role \in roles
<1>1. ~Grouping
  BY ProbesAreNotGrouped DEF ProbeState
<1>2. at \in Nat \ {0} /\ at <= Len(script.steps)
  BY <1>1 DEF ProbeState, ProbeInvariant, CliInvariant, PhasesFit, RequestIsNext
<1>3. at \in 1..Len(script.steps)
  BY <1>2
<1>4. step = script.steps[at]
  BY <1>1 DEF step
<1>5. /\ StepFits(script, at) /\ TestIsAnswered(script, at) /\ FailureFits(script, at)
      /\ DifferenceFits(script, at) /\ GivingUpFits(script, at)
  BY <1>3 DEF ProbeState, Disciplined
<1>6. ~Bare
  BY <1>4, <1>5 DEF Bare, StepFits
<1> QED
  BY <1>1, <1>2, <1>3, <1>4, <1>5, <1>6 DEF RoleAt

\* What the PLC holds after a request.
LEMMA EffectOnCells ==
  ASSUME ProbeState, RequestIsNext \/ InFlight, TakesEffect
  PROVE  /\ cells' = [c \in CliCells |-> cells'[c]]
         /\ overwritten' = {} =>
              /\ overwritten = {}
              /\ \A c \in CliCells :
                   cells'[c] = IF step.role \in {"test", "restore"} THEN Written[c] ELSE cells[c]
         /\ \A c \in CliCells \ step.at : cells'[c] = cells[c]
         /\ step.role = "backup" => \A c \in CliCells : cells'[c] = cells[c]
<1>1. /\ step.role \in {"backup", "test", "verify", "restore", "recheck"}
      /\ Writing <=> step.role \in {"test", "restore"}
  BY ProbeStep DEF StepFits, Writing
<1>2. PICK mine \in Overwrites :
        /\ overwritten' = overwritten \cup mine
        /\ cells' = [c \in CliCells |-> IF c \in mine THEN 2
                                        ELSE IF Writing THEN Written[c] ELSE cells[c]]
  BY DEF TakesEffect
<1>3. mine \subseteq step.at /\ (step.role = "backup" => mine = {})
  BY <1>2 DEF Overwrites
<1>4. \A c \in CliCells \ step.at : Written[c] = cells[c]
  BY DEF Written
<1> QED
  BY <1>1, <1>2, <1>3, <1>4

\* The tool goes on behind the next n steps, having changed nothing but what it restores from
\* there on or may leave behind.
LEMMA OwedAfterJump ==
  ASSUME ProbeState, RequestIsNext \/ InFlight, NEW k, k = at, NEW n \in Nat,
         JumpFits(script, k, n),
         step.role \notin {"verify", "restore"} \/ Verifying(script, k, n),
         UNCHANGED <<script, saved, want, original>>, doubtful \subseteq doubtful',
         overwritten' = {} =>
           /\ overwritten = {}
           /\ \A c \in CliCells \ (Owed(script, k + 1 + n) \cup Forgiven') : cells'[c] = cells[c],
         OnlyOwedDiffers(k)
  PROVE  OnlyOwedDiffers(k + 1 + n)'
<1>1. k \in Nat \ {0}
  BY ProbeStep
<1>2. \A c \in Owed(script, k) : c \in Owed(script, k + 1 + n)
  BY <1>1, NothingOwed, OwedAfterVerifying, ProbeStep
<1>3. \A c \in Kept(script, k + 1 + n) : c \in Kept(script, k)
  BY <1>1, KeptJump DEF JumpFits
<1>4. ~RoleAt(script, k + 1 + n, {"verify"})
  BY DEF JumpFits
<1>5. Forgiven \subseteq Forgiven'
  BY DEF Forgiven
<1> QED
  BY <1>2, <1>3, <1>4, <1>5 DEF OnlyOwedDiffers

\* A failure or a difference goes on with nothing unseen but what will be rechecked.
LEMMA StrangeAfterJump ==
  ASSUME ProbeState, RequestIsNext \/ InFlight, NEW k, k = at, NEW n \in Nat,
         JumpFits(script, k, n), UNCHANGED <<script, saved, original>>,
         \A c \in CliCells \ step.at : cells'[c] = cells[c],
         StrangeIsRechecked(k)
  PROVE  StrangeIsRechecked(k + 1 + n)'
<1> SUFFICES ASSUME script.verdict # "first_credit"
             PROVE  /\ \A c \in CliCells \ Rechecked(script, k + 1 + n) :
                         cells'[c] \in {original[c], saved[c]}
                    /\ Reread(script, k + 1 + n) = {}
  BY DEF StrangeIsRechecked
<1>1. k \in Nat \ {0}
  BY ProbeStep
<1>2. \A i \in k..(k + n) : ~Strict(script, i)
  BY DEF JumpFits
<1>3. k \in k..(k + n)
  BY <1>1
<1>4. step.role # "backup"
  BY <1>3, ProbeStep DEF JumpFits
<1>5. step.at \subseteq Rechecked(script, k)
  BY <1>4, ProbeStep DEF TestIsAnswered
<1>6. \A c \in Rechecked(script, k) : c \in Rechecked(script, k + 1 + n)
  BY <1>1, <1>2, RecheckedJump
<1>7. Reread(script, k + 1 + n) = {}
  BY <1>1, <1>2, NothingReread
<1> QED
  BY <1>5, <1>6, <1>7 DEF StrangeIsRechecked
\* What a failed request leaves on the PLC: nothing, or, when it was lost, perhaps its effect.
Sustained ==
  \/ UNCHANGED <<plcVars, doubtful>>
  \/ /\ UNCHANGED plcVars \/ TakesEffect
     /\ doubtful' = IF Writing THEN doubtful \cup step.at ELSE doubtful

\* A failed request has changed nothing but what is restored where the tool goes on, or what
\* a tool that looks for a first success may leave behind.
LEMMA FailureIsAnswered ==
  ASSUME ProbeState, RequestIsNext \/ InFlight, Sustained, NEW k, k = at, NEW n \in Nat,
         n = step.fail, script.verdict # "no_failure", UNCHANGED script
  PROVE  /\ step.role \notin {"verify", "restore"} \/ Verifying(script, k, n)
         /\ doubtful \subseteq doubtful'
         /\ \A c \in CliCells \ step.at : cells'[c] = cells[c]
         /\ overwritten' = {} =>
              /\ overwritten = {}
              /\ \A c \in CliCells \ (Owed(script, k + 1 + n) \cup Forgiven') :
                   cells'[c] = cells[c]
<1>1. /\ k \in Nat \ {0} /\ step = script.steps[k]
      /\ step.role \in {"backup", "test", "verify", "restore", "recheck"}
      /\ Writing <=> step.role \in {"test", "restore"}
      /\ \A roles : RoleAt(script, k, roles) <=> step.role \in roles
  BY ProbeStep DEF StepFits, Writing
<1>2. \/ step.role = "recheck" \/ Verifying(script, k, n)
      \/ step.role = "test" /\ script.verdict = "first_credit"
      \/ step.role = "test" /\ Verifying(script, k + 1, n - 1)
  BY <1>1, ProbeStep, n # Abort DEF FailureFits, Abort
<1>3. Verifying(script, k, n) => step.role = "verify"
  <2>1. k \in k..(k + n)
    BY <1>1
  <2> QED
    BY <1>1, <2>1 DEF Verifying
<1>4. step.role = "test" /\ script.verdict # "first_credit" =>
        step.at \subseteq Owed(script, k + 1 + n)
  <2> SUFFICES ASSUME step.role = "test", script.verdict # "first_credit", NEW c \in step.at
               PROVE  c \in Owed(script, k + 1 + n)
    OBVIOUS
  <2>1. c \in Owed(script, k + 1)
    BY <1>1, ProbeStep DEF TestIsAnswered
  <2>2. Verifying(script, k + 1, n - 1)
    BY <1>2, <1>3
  <2>3. CASE n = 0
    BY <1>1, <2>1, <2>3
  <2>4. CASE n # 0
    <3>1. n - 1 \in Nat /\ k + 1 \in Int /\ k + 1 + 1 + (n - 1) = k + 1 + n
      BY <1>1, <2>4
    <3>2. c \in Owed(script, k + 1 + 1 + (n - 1))
      BY <2>1, <2>2, <3>1, OwedAfterVerifying
    <3> QED
      BY <3>1, <3>2
  <2> QED
    BY <2>3, <2>4
<1>5. CASE UNCHANGED <<plcVars, doubtful>>
  BY <1>1, <1>2, <1>3, <1>5 DEF plcVars
<1>6. CASE /\ UNCHANGED plcVars \/ TakesEffect
           /\ doubtful' = IF Writing THEN doubtful \cup step.at ELSE doubtful
  <2>1. /\ \A c \in CliCells \ step.at : cells'[c] = cells[c]
        /\ overwritten' = {} =>
             /\ overwritten = {}
             /\ step.role # "test" => \A c \in CliCells : cells'[c] = cells[c]
    BY <1>1, <1>2, <1>3, <1>6, EffectOnCells DEF plcVars
  <2>2. step.role = "test" /\ script.verdict = "first_credit" => step.at \subseteq Forgiven'
    BY <1>1, <1>6 DEF Forgiven
  <2> QED
    BY <1>1, <1>2, <1>3, <1>4, <1>6, <2>1, <2>2
<1> QED
  BY <1>5, <1>6 DEF Sustained

\* A request fails.
LEMMA ProbeFails ==
  ASSUME ProbeState, VerdictFits, RequestIsNext \/ InFlight, Fail, Sustained,
         UNCHANGED <<command, script, format2, original>>,
         client' = "ready" => Usable,
         doubtful' # {} => format2 \/ client' = "reset"
  PROVE  ProbeInvariant'
<1> USE DEF ProbeState
<1>0. PICK k \in Nat \ {0} : k = at
  BY ProbeStep
<1>1. /\ phase # "exited" /\ exit = Running
      /\ step.role \in {"backup", "test", "verify", "restore", "recheck"}
      /\ step.fail \in Nat \cup {Abort}
  BY ProbeStep DEF StepFits, RequestIsNext, InFlight, CliInvariant, PhasesFit
<1>2. /\ cells' = [c \in CliCells |-> cells'[c]]
      /\ original' = [c \in CliCells |-> original'[c]]
  BY EffectOnCells DEF ProbeInvariant, plcVars, Sustained
<1>3. CASE step.fail = Abort
  <2>1. exit' = 1 /\ phase' = "exited" /\ UNCHANGED <<at, failed, saved>>
    BY <1>3 DEF Fail, Follow, Exit, placeVars
  <2>2. CleanExitRestores'
    BY <2>1 DEF CleanExitRestores
  <2>3. ProbeLeavesNoTrace'
    <3> SUFFICES ASSUME command \in RestoringProbes, client' = "ready", overwritten' = {},
                        ~restore_failed'
                 PROVE  cells' = original'
      BY DEF ProbeLeavesNoTrace
    <3>1. step.role \in {"backup", "recheck"}
      BY <1>1, <1>3, ProbeStep DEF Fail, VerdictFits, GivingUpFits
    <3>2. Owed(script, at) = {}
      BY <3>1, ProbeStep, NothingOwed
    <3>3. /\ Trusted /\ Forgiven = {} /\ overwritten = {}
          /\ \A c \in CliCells : cells'[c] = cells[c]
      BY <3>1, EffectOnCells DEF Trusted, VerdictFits, Forgiven, plcVars, Sustained
    <3>4. \A c \in CliCells : cells[c] = original[c]
      BY <1>1, <3>2, <3>3 DEF ProbeInvariant, OnlyOwedDiffers
    <3> QED
      BY <1>2, <3>3, <3>4
  <2> QED
    BY <1>0, <1>1, <1>2, <2>1, <2>2, <2>3 DEF ProbeInvariant, Probing, Starting, InFlight
<1>4. CASE step.fail # Abort
  <2>1. PICK n \in Nat : n = step.fail
    BY <1>1, <1>4
  <2>2. /\ phase' = "script" /\ at' = k + 1 + n /\ failed' = TRUE /\ exit' = exit
        /\ UNCHANGED <<saved, seen, want>>
    BY <1>0, <1>4, <2>1 DEF Fail, Follow
  <2>3. Usable' => client' = "ready"
    BY <2>2 DEF Usable, InFlight
  <2>4. script.verdict # "no_failure" => JumpFits(script, k, n)
    BY <1>0, <1>4, <2>1, ProbeStep DEF FailureFits
  <2>5. ASSUME Trusted'
        PROVE  OnlyOwedDiffers(at)' /\ StrangeIsRechecked(at)'
    <3>1. script.verdict # "no_failure" /\ Usable
      BY <2>2, <2>3, <2>5 DEF Trusted
    <3>2. OnlyOwedDiffers(k) /\ StrangeIsRechecked(k)
      BY <1>0, <1>1, <3>1 DEF Trusted, ProbeInvariant
    <3>3. OnlyOwedDiffers(k + 1 + n)'
      BY <1>0, <2>1, <2>2, <2>4, <3>1, <3>2, FailureIsAnswered, OwedAfterJump
    <3>4. StrangeIsRechecked(k + 1 + n)'
      BY <1>0, <2>1, <2>2, <2>4, <3>1, <3>2, FailureIsAnswered, StrangeAfterJump
    <3> QED
      BY <2>2, <3>3, <3>4 DEF OnlyOwedDiffers, StrangeIsRechecked
  <2>6. script.verdict = "credited" => at' <= Len(script.steps)
    BY <2>2, <2>4 DEF JumpFits
  <2>7. script.verdict # "finished"
    BY <2>4 DEF JumpFits
  <2>8. exit' # 0 /\ exit' = Running
    BY <1>1, <2>2 DEF Running
  <2> QED
    BY <1>0, <1>1, <1>2, <2>2, <2>5, <2>6, <2>7, <2>8
       DEF ProbeInvariant, Probing, Starting, InFlight, CleanExitRestores, ProbeLeavesNoTrace
<1> QED
  BY <1>3, <1>4

\* What an answered request leaves to the next step.
Noted ==
  /\ seen' = IF step.role \in {"verify", "recheck"}
               THEN [c \in CliCells |-> IF c \in step.at THEN cells'[c] ELSE seen[c]] ELSE seen
  /\ saved' = IF step.role = "backup"
                THEN [c \in CliCells |-> IF c \in step.at THEN cells'[c] ELSE saved[c]]
                ELSE saved
  /\ want' = IF step.role = "test"
               THEN [c \in CliCells |->
                       IF c \notin step.at THEN saved[c]
                       ELSE IF step.put = Flip THEN 1 - saved[c] ELSE step.put[c]]
               ELSE want

\* An answered request leaves differing what is owed, and nothing else.
LEMMA OwedAfterAnswer ==
  ASSUME ProbeState, InFlight, TakesEffect, Noted, NEW k, k = at,
         UNCHANGED <<script, original, doubtful>>, OnlyOwedDiffers(k)
  PROVE  OnlyOwedDiffers(k + 1)'
<1> SUFFICES ASSUME overwritten' = {}
             PROVE  /\ \A c \in Kept(script, k + 1) \ Forgiven : saved'[c] = original[c]
                    /\ \A c \in CliCells \ (Owed(script, k + 1) \cup Forgiven) :
                         cells'[c] = original[c]
                    /\ RoleAt(script, k + 1, {"verify"}) =>
                         \A c \in Kept(script, k + 1)
                                    \ (Forgiven \ script.steps[k + 1].compare) :
                           cells'[c] = want'[c]
  BY DEF OnlyOwedDiffers, Forgiven
<1>1. /\ k \in Nat \ {0} /\ step = script.steps[k]
      /\ step.role \in {"backup", "test", "verify", "restore", "recheck"}
      /\ \A roles : RoleAt(script, k, roles) <=> step.role \in roles
  BY ProbeStep DEF StepFits
<1>2. /\ overwritten = {}
      /\ \A c \in CliCells :
           cells'[c] = IF step.role \in {"test", "restore"} THEN Written[c] ELSE cells[c]
  BY EffectOnCells
<1>3. /\ \A c \in Kept(script, k) \ Forgiven : saved[c] = original[c]
      /\ \A c \in CliCells \ (Owed(script, k) \cup Forgiven) : cells[c] = original[c]
      /\ step.role = "verify" =>
           \A c \in Kept(script, k) \ (Forgiven \ step.compare) : cells[c] = want[c]
  BY <1>1, <1>2 DEF OnlyOwedDiffers
<1>4. step.role \notin {"verify", "restore"} => Owed(script, k) = {}
  BY <1>1, NothingOwed
<1>5. \A c \in Owed(script, k) :
        (step.role = "restore" => c \notin step.at) => c \in Owed(script, k + 1)
  BY <1>1, OwedNext
<1>6. \A c \in Kept(script, k + 1) :
        c \in CliCells /\ (c \in Kept(script, k) \/ (step.role = "backup" /\ c \in step.at))
  BY <1>1, KeptNext DEF Kept
<1>7. /\ step.role = "test" => step.at \subseteq Owed(script, k + 1)
      /\ step.role = "restore" => step.at \subseteq Kept(script, k)
      /\ RoleAt(script, k + 1, {"verify"}) =>
           /\ step.role \in {"test", "verify"}
           /\ script.verdict = "first_credit" =>
                step.role = "test" /\ script.steps[k + 1].compare \subseteq step.at
  <2>1. ASSUME RoleAt(script, k + 1, {"verify"})
        PROVE  /\ step.role \in {"test", "verify"}
               /\ script.verdict = "first_credit" =>
                    step.role = "test" /\ script.steps[k + 1].compare \subseteq step.at
    <3>1. k + 1 \in 1..Len(script.steps) /\ script.steps[k + 1].role = "verify"
      BY <2>1 DEF RoleAt
    <3>2. TestIsAnswered(script, k + 1)
      BY <3>1 DEF ProbeState, Disciplined
    <3>3. /\ RoleAt(script, k + 1 - 1, {"test", "verify"}) /\ k + 1 - 1 = k
          /\ script.verdict = "first_credit" =>
               /\ RoleAt(script, k + 1 - 1, {"test"})
               /\ script.steps[k + 1].compare \subseteq script.steps[k + 1 - 1].at
      BY <1>1, <3>1, <3>2 DEF TestIsAnswered
    <3> QED
      BY <1>1, <3>3
  <2> QED
    BY <1>1, <2>1, ProbeStep DEF TestIsAnswered
<1>8. \A c \in Kept(script, k + 1) \ Forgiven : saved'[c] = original[c]
  BY <1>2, <1>3, <1>4, <1>6 DEF Noted
<1>9. ASSUME NEW c \in CliCells, c \notin Owed(script, k + 1), c \notin Forgiven
      PROVE  cells'[c] = original[c]
  <2>1. CASE step.role = "restore" /\ c \in step.at
    BY <1>2, <1>3, <1>7, <1>9, <2>1 DEF Written
  <2>2. CASE step.role = "restore" /\ c \notin step.at
    BY <1>2, <1>3, <1>5, <1>9, <2>2 DEF Written
  <2>3. CASE step.role = "test"
    BY <1>2, <1>3, <1>4, <1>7, <1>9, <2>3 DEF Written
  <2>4. CASE step.role \in {"backup", "verify", "recheck"}
    BY <1>2, <1>3, <1>5, <1>9, <2>4
  <2> QED
    BY <1>1, <2>1, <2>2, <2>3, <2>4
<1>10. ASSUME RoleAt(script, k + 1, {"verify"}), NEW c \in Kept(script, k + 1),
              c \notin Forgiven \/ c \in script.steps[k + 1].compare
       PROVE  cells'[c] = want'[c]
  <2>1. c \in CliCells /\ c \in Kept(script, k)
    BY <1>6, <1>7, <1>10
  <2>2. CASE step.role = "test"
    <3>1. c \in step.at \/ c \notin Forgiven
      BY <1>7, <1>10 DEF Forgiven
    <3> QED
      BY <1>2, <1>3, <1>4, <2>1, <2>2, <3>1 DEF Written, Noted
  <2>3. CASE step.role = "verify"
    <3>1. c \notin Forgiven
      BY <1>7, <1>10, <2>3 DEF Forgiven
    <3> QED
      BY <1>2, <1>3, <2>1, <2>3, <3>1 DEF Noted
  <2> QED
    BY <1>7, <1>10, <2>2, <2>3
<1> QED
  BY <1>8, <1>9, <1>10

\* An answered request leaves strange what will be rechecked, and nothing else.
LEMMA StrangeAfterAnswer ==
  ASSUME ProbeState, InFlight, TakesEffect, Noted, NEW k, k = at,
         UNCHANGED <<script, original>>, StrangeIsRechecked(k),
         Strict(script, k) => \A c \in step.compare : seen'[c] = saved[c]
  PROVE  StrangeIsRechecked(k + 1)'
<1> SUFFICES ASSUME script.verdict # "first_credit"
             PROVE  /\ \A c \in CliCells \ Rechecked(script, k + 1) :
                         cells'[c] \in {original[c], saved'[c]}
                    /\ \A c \in Reread(script, k + 1) : seen'[c] = cells'[c]
  BY DEF StrangeIsRechecked
<1>1. /\ k \in Nat \ {0} /\ step = script.steps[k]
      /\ step.role \in {"backup", "test", "verify", "restore", "recheck"}
      /\ \A roles : RoleAt(script, k, roles) <=> step.role \in roles
  BY ProbeStep DEF StepFits
<1>2. /\ \A c \in CliCells \ step.at : cells'[c] = cells[c]
      /\ step.role = "backup" => \A c \in CliCells : cells'[c] = cells[c]
  BY EffectOnCells
<1>3. /\ \A c \in CliCells \ Rechecked(script, k) : cells[c] \in {original[c], saved[c]}
      /\ \A c \in Reread(script, k) : seen[c] = cells[c]
  BY DEF StrangeIsRechecked
<1>4. \A c \in Reread(script, k + 1) :
        /\ c \in CliCells /\ step.role = "recheck"
        /\ c \in step.at \/ c \in Reread(script, k)
  BY <1>1, RereadNext DEF Reread, Strict
<1>5. \A c \in Reread(script, k + 1) : seen'[c] = cells'[c]
  BY <1>2, <1>3, <1>4 DEF Noted
<1>6. ASSUME NEW c \in CliCells, c \notin Rechecked(script, k + 1)
      PROVE  cells'[c] \in {original[c], saved'[c]}
  <2>1. CASE step.role = "backup"
    <3>1. c \notin Rechecked(script, k)
      BY <1>1, <1>6, <2>1, RecheckedNext DEF Strict
    <3> QED
      BY <1>2, <1>3, <2>1, <3>1 DEF Noted
  <2>2. CASE step.role # "backup" /\ c \notin Rechecked(script, k)
    <3>1. c \notin step.at
      BY <2>2, ProbeStep DEF TestIsAnswered
    <3> QED
      BY <1>2, <1>3, <2>2, <3>1 DEF Noted
  <2>3. CASE c \in Rechecked(script, k)
    <3>1. Strict(script, k) /\ c \in step.compare
      BY <1>1, <1>6, <2>3, RecheckedNext
    <3>2. c \in Reread(script, k + 1)
      BY <3>1, ProbeStep DEF TestIsAnswered
    <3>3. cells'[c] = saved[c]
      BY <1>5, <3>1, <3>2
    <3> QED
      BY <1>4, <3>2, <3>3 DEF Noted
  <2> QED
    BY <2>1, <2>2, <2>3
<1> QED
  BY <1>5, <1>6
\* The answer to a request.
LEMMA ProbeAnswered ==
  ASSUME ProbeState, VerdictFits, phase = "receive", TakesEffect, Succeed,
         UNCHANGED <<command, script, format2, original, doubtful>>, client' = "ready"
  PROVE  ProbeInvariant'
<1> USE DEF ProbeState
<1>0. PICK k \in Nat \ {0} : k = at
  BY ProbeStep DEF InFlight
<1>1. /\ InFlight /\ exit = Running /\ Usable /\ ~Grouping
      /\ step.role \in {"backup", "test", "verify", "restore", "recheck"}
      /\ step.differ \in Nat \cup {Abort}
      /\ step.role \notin {"verify", "recheck"} => step.compare = {}
      /\ step.compare \subseteq CliCells
      /\ step = script.steps[k]
  BY <1>0, ProbeStep DEF StepFits, InFlight, CliInvariant, PhasesFit, ProbeInvariant, Usable
<1>2. /\ cells' = [c \in CliCells |-> cells'[c]]
      /\ original' = [c \in CliCells |-> original'[c]]
  BY <1>1, EffectOnCells DEF ProbeInvariant
<1>3. Noted /\ UNCHANGED restore_failed
  BY DEF Succeed, Noted
\* A recheck writes nothing, and is made when everything has been restored.
<1>4. ASSUME Trusted, step.role = "recheck", overwritten' = {}
      PROVE  \A c \in CliCells \ Forgiven : cells'[c] = original'[c]
  <2>1. Owed(script, at) = {} /\ overwritten = {} /\ \A c \in CliCells : cells'[c] = cells[c]
    BY <1>1, <1>4, ProbeStep, NothingOwed, EffectOnCells
  <2>2. \A c \in CliCells \ Forgiven : cells[c] = original[c]
    BY <1>1, <1>4, <2>1 DEF ProbeInvariant, OnlyOwedDiffers, InFlight
  <2> QED
    BY <2>1, <2>2
\* No write of a client that has been answered is in doubt, unless it has block numbers.
<1>8. doubtful # {} => format2
  BY <1>1 DEF ProbeInvariant, Usable
<1>9. ASSUME Trusted, step.role = "recheck", overwritten' = {}, command \in RestoringProbes
      PROVE  cells' = original'
  <2>1. Forgiven = {}
    BY <1>9 DEF VerdictFits, Forgiven
  <2> QED
    BY <1>2, <1>4, <1>9, <2>1
<1>5. ASSUME Trusted
      PROVE  /\ OnlyOwedDiffers(k) /\ StrangeIsRechecked(k)
             /\ OnlyOwedDiffers(k + 1)'
             /\ (Strict(script, k) => \A c \in step.compare : seen'[c] = saved[c])
                  => StrangeIsRechecked(k + 1)'
  BY <1>0, <1>1, <1>3, <1>5, OwedAfterAnswer, StrangeAfterAnswer DEF ProbeInvariant, InFlight
<1>6. ASSUME \A c \in step.compare : seen'[c] = Expected[c],
             Passed, UNCHANGED refused
      PROVE  ProbeInvariant'
  <2>1. Strict(script, k) => \A c \in step.compare : seen'[c] = saved[c]
    BY <1>1, <1>6 DEF Strict, RoleAt, Expected
  <2>2. CASE step.credit /\ script.verdict = "first_credit"
    <3>1. /\ exit' = 0 /\ phase' = "exited" /\ UNCHANGED <<at, failed>>
          /\ step.role = "recheck"
      BY <1>1, <1>6, <2>2, ProbeStep DEF Passed, Exit, placeVars, StepFits
    <3>2. Trusted
      BY <1>1, <2>2 DEF Trusted
    <3>3. CleanExitRestores'
      <4>1. command = "probe_write_host_buffer"
        BY <2>2 DEF VerdictFits
      <4>2. Forgiven \subseteq StrandedByFormat2'
        BY <1>8, <4>1 DEF Forgiven, StrandedByFormat2
      <4> QED
        BY <1>4, <3>1, <3>2, <4>1, <4>2 DEF CleanExitRestores
    <3>4. ProbeLeavesNoTrace'
      BY <1>9, <3>1, <3>2 DEF ProbeLeavesNoTrace
    <3> QED
      BY <1>0, <1>2, <1>8, <3>1, <3>3, <3>4 DEF ProbeInvariant, Starting, InFlight, Probing
  <2>3. CASE ~(step.credit /\ script.verdict = "first_credit")
    <3>1. phase' = "script" /\ at' = k + 1 /\ UNCHANGED <<exit, failed>>
      BY <1>0, <1>1, <1>6, <2>3 DEF Passed
    <3>2. Trusted' => Trusted
      BY <1>1, <3>1 DEF Trusted
    <3>3. Trusted' => OnlyOwedDiffers(at)' /\ StrangeIsRechecked(at)'
      BY <1>5, <2>1, <3>1, <3>2 DEF OnlyOwedDiffers, StrangeIsRechecked
    <3>4. Usable' /\ exit' # 0 /\ exit' = Running
      BY <1>1, <3>1 DEF Usable, InFlight, Running
    <3> QED
      BY <1>0, <1>2, <1>8, <3>1, <3>3, <3>4
         DEF ProbeInvariant, Starting, InFlight, Probing, CleanExitRestores, ProbeLeavesNoTrace
  <2> QED
    BY <2>2, <2>3
<1>7. ASSUME ~ \A c \in step.compare : seen'[c] = Expected[c],
             Follow(step.differ)
      PROVE  ProbeInvariant'
  <2>1. step.role \in {"verify", "recheck"} /\ UNCHANGED <<saved, want>>
    BY <1>1, <1>3, <1>7 DEF Noted
  <2>2. CASE step.differ = Abort
    <3>1. exit' = 1 /\ phase' = "exited" /\ UNCHANGED <<at, failed>>
      BY <1>7, <2>2 DEF Follow, Exit, placeVars
    <3>2. CleanExitRestores'
      BY <3>1 DEF CleanExitRestores
    <3>3. ProbeLeavesNoTrace'
      <4> SUFFICES ASSUME command \in RestoringProbes, overwritten' = {}
                   PROVE  cells' = original'
        BY DEF ProbeLeavesNoTrace
      <4>1. script.verdict = "credited"
        BY DEF VerdictFits
      <4>2. Trusted /\ step.role = "recheck"
        BY <1>1, <2>1, <2>2, <4>1, ProbeStep DEF GivingUpFits, Trusted
      <4> QED
        BY <1>9, <4>2
    <3> QED
      BY <1>0, <1>2, <1>8, <3>1, <3>2, <3>3 DEF ProbeInvariant, Starting, InFlight, Probing
  <2>3. CASE step.differ # Abort
    <3>1. PICK n \in Nat : n = step.differ
      BY <1>1, <2>3
    <3>2. phase' = "script" /\ at' = k + 1 + n /\ failed' = TRUE /\ exit' = exit
      BY <1>0, <1>7, <2>3, <3>1 DEF Follow
    <3>3. script.verdict # "no_failure" =>
            /\ JumpFits(script, k, n)
            /\ \/ step.role = "recheck" \/ Verifying(script, k, n)
               \/ step.role = "verify" /\ step.compare \subseteq step.at
      BY <1>0, <1>1, <2>1, <2>3, <3>1, ProbeStep DEF DifferenceFits
    <3>4. ASSUME Trusted'
          PROVE  OnlyOwedDiffers(at)' /\ StrangeIsRechecked(at)'
      <4>1. script.verdict # "no_failure"
        BY <3>2, <3>4 DEF Trusted
      <4>2. Trusted /\ OnlyOwedDiffers(k) /\ StrangeIsRechecked(k) /\ JumpFits(script, k, n)
        BY <1>1, <1>5, <3>3, <4>1 DEF Trusted
      <4>3. /\ overwritten' = {} => overwritten = {} /\ \A c \in CliCells : cells'[c] = cells[c]
            /\ \A c \in CliCells \ step.at : cells'[c] = cells[c]
        BY <1>1, <2>1, EffectOnCells
      <4>4. ASSUME step.role = "recheck" \/ Verifying(script, k, n)
            PROVE  OnlyOwedDiffers(k + 1 + n)'
        BY <1>0, <1>1, <2>1, <4>2, <4>3, <4>4, OwedAfterJump
      <4>5. ASSUME step.role = "verify", step.compare \subseteq step.at, overwritten' = {}
            PROVE  FALSE
        <5>1. PICK c \in step.compare : seen'[c] # want[c]
          BY <1>7, <4>5 DEF Expected
        <5>2. c \in CliCells /\ c \in Kept(script, k)
          BY <1>0, <1>1, <4>5, ProbeStep DEF TestIsAnswered
        <5>3. seen'[c] = cells'[c]
          BY <1>3, <4>5, <5>2 DEF Noted
        <5>4. cells[c] = want[c]
          BY <1>0, <1>1, <4>2, <4>3, <4>5, <5>2, ProbeStep DEF OnlyOwedDiffers
        <5> QED
          BY <4>3, <4>5, <5>1, <5>2, <5>3, <5>4
      <4>6. OnlyOwedDiffers(k + 1 + n)'
        BY <3>3, <4>1, <4>4, <4>5 DEF OnlyOwedDiffers
      <4>7. StrangeIsRechecked(k + 1 + n)'
        BY <1>0, <1>1, <2>1, <4>2, <4>3, StrangeAfterJump
      <4> QED
        BY <3>2, <4>6, <4>7 DEF OnlyOwedDiffers, StrangeIsRechecked
    <3>5. /\ script.verdict = "credited" => at' <= Len(script.steps)
          /\ script.verdict # "finished"
      BY <3>2, <3>3 DEF JumpFits
    <3>6. exit' # 0 /\ exit' = Running /\ Usable'
      BY <1>1, <3>2 DEF Running, Usable, InFlight
    <3> QED
      BY <1>0, <1>2, <1>8, <3>2, <3>4, <3>5, <3>6
         DEF ProbeInvariant, Starting, InFlight, Probing, CleanExitRestores, ProbeLeavesNoTrace
  <2> QED
    BY <2>2, <2>3
<1> QED
  BY <1>6, <1>7 DEF Succeed

-----------------------------------------------------------------------------
(* The invariant of the write probes is inductive.                         *)

watchedVars ==
  <<command, script, format2, original, cells, overwritten, doubtful,
    at, saved, seen, want, failed>>

\* The request goes on, or the line changes.
LEMMA ProbeGoesOn ==
  ASSUME ProbeState, UNCHANGED watchedVars, phase # "exited", phase' # "exited",
         UNCHANGED exit, ~Starting',
         Usable' = Usable, client = "reset" => client' = "reset",
         InFlight' => client' = "busy" /\ phase' # "settle"
  PROVE  ProbeInvariant'
<1>1. exit' = Running /\ exit' # 0
  BY DEF ProbeState, CliInvariant, PhasesFit, Running
<1>2. /\ OnlyOwedDiffers(at) => OnlyOwedDiffers(at)'
      /\ StrangeIsRechecked(at) => StrangeIsRechecked(at)'
      /\ Trusted' = Trusted
  BY DEF watchedVars, OnlyOwedDiffers, StrangeIsRechecked, Trusted, Forgiven
<1> QED
  BY <1>1, <1>2
     DEF ProbeState, ProbeInvariant, watchedVars, Probing, CleanExitRestores, ProbeLeavesNoTrace

\* The steps of the script keep the invariant.
LEMMA ProbeWorks ==
  ASSUME ProbeState, VerdictFits,
         \/ StartRequest \/ DiscardFails \/ DiscardBytes \/ QuietPoll
         \/ BeginTransmit \/ EndTransmit \/ Answered \/ Refused \/ Unanswered \/ Garbled
         \/ LineFallsQuiet
  PROVE  ProbeInvariant'
<1> USE DEF InFlight, Usable, fixedVars, plcVars, watchedVars, toolVars, placeVars, historyVars,
            doubtVars, Starting, Sustained
<1>0. /\ InFlight => client = "busy" /\ phase # "settle"
      /\ doubtful # {} => format2 \/ client = "reset"
  BY DEF ProbeState, ProbeInvariant
<1>1. CASE StartRequest
  <2>1. ~Bare /\ phase = "script"
    BY <1>1, ProbeStep DEF StartRequest, RequestIsNext
  <2>2. CASE Fail /\ UNCHANGED client
    BY <1>0, <1>1, <2>1, <2>2, ProbeFails DEF StartRequest
  <2>3. CASE Admitted /\ phase' = "discard" /\ client' = "busy"
             /\ UNCHANGED <<placeVars, exit, failed, credited, seen, want, saved>>
    <3>1. Usable /\ Usable'
      BY <2>1, <2>3 DEF Admitted
    <3> QED
      BY <1>1, <2>1, <2>3, <3>1, ProbeGoesOn DEF StartRequest
  <2> QED
    BY <1>1, <2>1, <2>2, <2>3 DEF StartRequest
<1>2. CASE DiscardFails
  BY <1>0, <1>2, ProbeFails DEF DiscardFails
<1>3. CASE DiscardBytes \/ LineFallsQuiet
  BY <1>0, <1>3, ProbeGoesOn DEF DiscardBytes, LineFallsQuiet
<1>4. CASE QuietPoll
  BY <1>0, <1>4, ProbeGoesOn DEF QuietPoll
<1>5. CASE BeginTransmit
  <2>1. ~Bare
    BY <1>5, ProbeStep DEF BeginTransmit
  <2> QED
    BY <1>0, <1>5, <2>1, ProbeGoesOn DEF BeginTransmit
<1>6. CASE EndTransmit
  <2>1. ~Bare /\ step.request # "recover_c24"
    BY <1>6, ProbeStep DEF EndTransmit, StepFits
  <2>2. CASE Lost("reset")
    BY <1>6, <2>1, <2>2, ProbeFails DEF EndTransmit, Lost
  <2>3. CASE ~Lost("reset")
    BY <1>0, <1>6, <2>1, <2>3, ProbeGoesOn DEF EndTransmit
  <2> QED
    BY <2>2, <2>3
<1>7. CASE Answered
  <2>1. ~Bare
    BY <1>7, ProbeStep DEF Answered
  <2> QED
    BY <1>7, <2>1, ProbeAnswered DEF Answered
<1>8. CASE Refused
  <2>1. ~Bare
    BY <1>8, ProbeStep DEF Refused
  <2> QED
    BY <1>0, <1>8, <2>1, ProbeFails DEF Refused
<1>9. CASE Unanswered
  <2>1. ~Bare
    BY <1>9, ProbeStep DEF Unanswered
  <2> QED
    BY <1>9, <2>1, ProbeFails DEF Unanswered, Lost
<1>10. CASE Garbled
  <2>1. ~Bare /\ InFlight
    BY <1>10, ProbeStep DEF Garbled
  <2>2. PICK after \in AfterGarbled : Lost(after)
    BY <1>10 DEF Garbled
  <2>3. Usable /\ client' = after /\ Sustained
    BY <1>0, <2>1, <2>2 DEF Lost
  <2>4. doubtful' # {} => format2 \/ client' = "reset"
    <3>1. Writing => step.kind \notin {"reads", "monitors"}
      BY DEF Writing
    <3> QED
      BY <1>0, <2>1, <2>2, <2>3, <3>1 DEF Lost, AfterGarbled
  <2> QED
    BY <1>10, <2>1, <2>2, <2>3, <2>4, ProbeFails DEF Garbled, Lost
<1> QED
  BY <1>1, <1>2, <1>3, <1>4, <1>5, <1>6, <1>7, <1>8, <1>9, <1>10
\* The steps before the script keep the invariant.
LEMMA ProbeStarts ==
  ASSUME ProbeState, Parse \/ Open \/ CheckArguments
  PROVE  ProbeInvariant'
<1> USE DEF ProbeState, ProbeInvariant, InFlight, Usable, fixedVars, plcVars, toolVars, placeVars,
            historyVars, doubtVars, Starting
<1>1. /\ at = 1 /\ cells = original /\ Starting /\ UNCHANGED <<command, script, at, saved>>
      /\ exit = Running /\ UNCHANGED <<client, failed, overwritten, format2, doubtful>>
  BY DEF Parse, Open, CheckArguments, CliInvariant, PhasesFit
<1>2. Kept(script, 1) = {} /\ Reread(script, 1) = {}
  BY DEF Kept, Reread
<1>3. ~RoleAt(script, 1, {"verify"})
  <2>1. ASSUME RoleAt(script, 1, {"verify"})
        PROVE  FALSE
    <3>1. 1 \in 1..Len(script.steps) /\ script.steps[1].role = "verify"
      BY <2>1 DEF RoleAt
    <3>2. TestIsAnswered(script, 1)
      BY <3>1 DEF Disciplined
    <3> QED
      BY <3>1, <3>2 DEF TestIsAnswered, RoleAt
  <2> QED
    BY <2>1
<1>4. cells' = original' /\ cells' = [c \in CliCells |-> cells'[c]]
  <2>1. CASE cells' \in Contents /\ original' = cells'
    BY <2>1, CliSessionAssumption
  <2>2. CASE UNCHANGED <<cells, original>>
    BY <1>1, <2>2
  <2> QED
    BY <2>1, <2>2 DEF Parse, Open, CheckArguments
<1>5. OnlyOwedDiffers(at)' /\ StrangeIsRechecked(at)'
  BY <1>1, <1>2, <1>3, <1>4 DEF OnlyOwedDiffers, StrangeIsRechecked
<1>6. exit' # 0 /\ (phase' # "exited" => exit' = Running) /\ phase' \notin {"discard", "settle",
        "transmit", "sending", "receive"}
  BY <1>1 DEF Parse, Open, CheckArguments, Exit, Running
<1>7. phase # "exited" /\ phase \notin {"discard", "settle", "transmit", "sending", "receive"}
  BY <1>1
<1>8. /\ at' \in Nat \ {0}
      /\ ~Usable' => failed' /\ (script.verdict = "credited" => at' <= Len(script.steps))
  BY <1>1, <1>6, <1>7
<1>9. CleanExitRestores' /\ ProbeLeavesNoTrace'
  BY <1>4, <1>6 DEF CleanExitRestores, ProbeLeavesNoTrace
<1> QED
  BY <1>1, <1>4, <1>5, <1>6, <1>8, <1>9 DEF Probing

\* The end of the script keeps the invariant.
LEMMA ProbeFinishes ==
  ASSUME ProbeState, VerdictFits, Finish
  PROVE  ProbeInvariant'
<1> USE DEF ProbeState, ProbeInvariant, InFlight, Usable, fixedVars, plcVars, toolVars, placeVars,
            historyVars, doubtVars, Starting
<1>1. /\ at > Len(script.steps) /\ at \in Nat \ {0}
      /\ phase = "script" /\ phase' = "exited" /\ exit' \in {0, 1}
      /\ UNCHANGED <<command, script, original, cells, overwritten, at, saved, failed, client>>
      /\ UNCHANGED <<format2, doubtful>>
  BY ProbesAreNotGrouped, ScriptsAbort
     DEF Finish, AtEnd, Exit, CliInvariant, AbortsOnFailure
<1>2. Owed(script, at) = {} /\ Rechecked(script, at) = {}
  BY <1>1, NothingAhead
<1>3. ASSUME Trusted, script.verdict # "first_credit"
      PROVE  /\ overwritten = {} => cells = original
             /\ \A c \in CliCells : cells[c] \in {original[c], saved[c]}
  BY <1>1, <1>2, <1>3 DEF OnlyOwedDiffers, StrangeIsRechecked, Forgiven
<1>4. CleanExitRestores'
  <2> SUFFICES ASSUME exit' = 0
               PROVE  CleanExitRestores'
    BY DEF CleanExitRestores
  <2>1. \/ script.verdict \in {"finished", "credited"}
        \/ /\ script.verdict = "no_failure"
           /\ ~failed
    BY <1>1, ScriptsAbort DEF Finish, Exit, CliInvariant, AbortsOnFailure
  <2>2. Trusted
    BY <1>1, <2>1 DEF Trusted
  <2> QED
    BY <1>1, <1>3, <2>1, <2>2 DEF CleanExitRestores
<1>5. ProbeLeavesNoTrace'
  <2> SUFFICES ASSUME command \in RestoringProbes, client = "ready", overwritten = {}
               PROVE  cells = original
    BY <1>1 DEF ProbeLeavesNoTrace
  <2>1. Trusted /\ script.verdict # "first_credit"
    BY <1>1 DEF VerdictFits, Trusted
  <2> QED
    BY <1>3, <2>1
<1> QED
  BY <1>1, <1>4, <1>5 DEF Probing

\* So every step does.
LEMMA ProbeInvariantStep ==
  ASSUME CliInvariant, ProbeInvariant, [CliNext]_vars,
         Probing => Disciplined(script) /\ VerdictFits
  PROVE  ProbeInvariant'
<1>1. CASE ~Probing
  BY <1>1, CliSteps DEF ProbeInvariant, Probing, startVars
<1>2. CASE Probing
  <2>1. ProbeState /\ VerdictFits /\ ~Grouping
    BY <1>2, ProbesAreNotGrouped DEF ProbeState
  <2>2. CASE UNCHANGED vars
    BY <2>2
       DEF vars, toolVars, placeVars, lineVars, plcVars, historyVars, fixedVars, ProbeInvariant,
           Probing, Starting, InFlight, Trusted, Usable, OnlyOwedDiffers, StrangeIsRechecked,
           Forgiven, CleanExitRestores, StrandedByFormat2, ProbeLeavesNoTrace, doubtVars
  <2>3. CASE ParseItem \/ AppendItem
    BY <2>1, <2>3, CliSteps
       DEF ParseItem, AppendItem, ProbeState, CliInvariant, PhasesFit
  <2> QED
    BY <2>1, <2>2, <2>3, ProbeStarts, ProbeFinishes, ProbeWorks DEF CliNext
<1> QED
  BY <1>1, <1>2

\* Nothing has been touched at the start.
LEMMA ProbeInvariantInit == CliInit => ProbeInvariant
<1> SUFFICES ASSUME CliInit, Probing
             PROVE  ProbeInvariant
  BY DEF ProbeInvariant
<1>1. Kept(script, 1) = {} /\ Reread(script, 1) = {}
  BY DEF Kept, Reread
<1>2. cells = [c \in CliCells |-> cells[c]] /\ original = [c \in CliCells |-> original[c]]
  BY DEF CliInit, Blank
<1>3. Usable
  BY DEF CliInit, Usable, InFlight
<1> QED
  BY <1>1, <1>2, <1>3
     DEF CliInit, ProbeInvariant, Starting, InFlight, OnlyOwedDiffers, StrangeIsRechecked,
         CleanExitRestores, ProbeLeavesNoTrace, Running
-----------------------------------------------------------------------------
(* The scripts of the write probes have that form.                         *)

NoProbes(scripts) == DOMAIN scripts \cap WriteProbes = {}

\* The tables of the other commands name no write probe.
LEMMA SameNoProbes ==
  ASSUME NEW refuses, NEW names, names \cap WriteProbes = {}
  PROVE  NoProbes(Same(refuses, names))
  BY DEF NoProbes, Same

LEMMA JoinedNoProbes ==
  ASSUME NEW tables, \A i \in DOMAIN tables : NoProbes(tables[i])
  PROVE  NoProbes(Joined(tables))
  BY JoinedEntries DEF NoProbes

\* Which script a write probe has.
LEMMA ProbeScripts ==
  ASSUME NEW c \in WriteProbes
  PROVE  ScriptOf(c) = CASE c = "probe_write_all" -> ProbeWriteAll
                         [] c = "probe_random_write_words" -> ProbeRandomWriteWords
                         [] c = "probe_random_write_bits" -> ProbeRandomWriteBits
                         [] c = "probe_write_host_buffer" -> ProbeWriteHostBuffer
                         [] c = "probe_write_module_buffer" -> ProbeWriteModuleBuffer
                         [] OTHER -> ProbeMultiBlock(c)
<1> DEFINE probes == [probe_all |-> ProbeAll, probe_write_all |-> ProbeWriteAll,
                      probe_random_read |-> ProbeRandomRead,
                      probe_random_write_words |-> ProbeRandomWriteWords,
                      probe_random_write_bits |-> ProbeRandomWriteBits,
                      probe_write_host_buffer |-> ProbeWriteHostBuffer,
                      probe_write_module_buffer |-> ProbeWriteModuleBuffer]
           modes == [mode \in DOMAIN BlockModes |-> ProbeMultiBlock(mode)]
           own == CASE c = "probe_write_all" -> ProbeWriteAll
                    [] c = "probe_random_write_words" -> ProbeRandomWriteWords
                    [] c = "probe_random_write_bits" -> ProbeRandomWriteBits
                    [] c = "probe_write_host_buffer" -> ProbeWriteHostBuffer
                    [] c = "probe_write_module_buffer" -> ProbeWriteModuleBuffer
                    [] OTHER -> ProbeMultiBlock(c)
           tables == <<CpuControl, PasswordsAndReset, C24Signals, C24Recovery, Loopback,
                       UserFrames, Buffers, QualifiedReads, ModuleBufferWrite,
                       QualifiedWrites, WordReads, LinkDirectWordsAndBits, LongStateBits,
                       LinkDirectBatch, LinkDirectRandom, LinkDirectBlockReads,
                       LinkDirectBlockWrites, Monitors, RandomAccess,
                       RandomFileRegistersAndBits, FileRegisterWrites, ProbeMonitor,
                       ProbeBuffers, probes, modes>>
<1>1. WriteProbes = {"probe_write_all", "probe_random_write_words", "probe_random_write_bits",
                     "probe_write_host_buffer", "probe_write_module_buffer", "mixed",
                     "word_only", "bit_only", "word_a", "word_b", "bit_a", "bit_b"}
  BY DEF WriteProbes, BlockModes
<1>2. /\ NoProbes(CpuControl) /\ NoProbes(PasswordsAndReset) /\ NoProbes(C24Recovery)
      /\ NoProbes(Loopback) /\ NoProbes(UserFrames) /\ NoProbes(Buffers)
      /\ NoProbes(ModuleBufferWrite)
  BY <1>1, SameNoProbes
     DEF CpuControl, PasswordsAndReset, C24Recovery, Loopback, UserFrames, Buffers,
         ModuleBufferWrite
<1>3. /\ NoProbes(LinkDirectBatch) /\ NoProbes(LinkDirectRandom)
      /\ NoProbes(LinkDirectBlockReads) /\ NoProbes(LinkDirectBlockWrites)
      /\ NoProbes(RandomAccess) /\ NoProbes(RandomFileRegistersAndBits)
      /\ NoProbes(FileRegisterWrites)
  BY <1>1, SameNoProbes
     DEF LinkDirectBatch, LinkDirectRandom, LinkDirectBlockReads, LinkDirectBlockWrites,
         RandomAccess, RandomFileRegistersAndBits, FileRegisterWrites
<1>4. NoProbes(C24Signals)
  BY <1>1, SameNoProbes, JoinedNoProbes DEF C24Signals
<1>5. /\ NoProbes([read_words |-> Single(2, "batch_read_words_group")])
      /\ NoProbes([read_bits |-> Single(2, "batch_read_bits_group")])
      /\ NoProbes(QualifiedReads) /\ NoProbes(QualifiedWrites) /\ NoProbes(LongStateBits)
      /\ NoProbes(Monitors) /\ NoProbes(ProbeMonitor) /\ NoProbes(ProbeBuffers)
  BY <1>1
     DEF NoProbes, QualifiedReads, QualifiedWrites, LongStateBits, Monitors, ProbeMonitor,
         ProbeBuffers
<1>6. NoProbes(WordReads) /\ NoProbes(LinkDirectWordsAndBits)
  BY <1>1, <1>5, SameNoProbes, JoinedNoProbes DEF WordReads, LinkDirectWordsAndBits
<1>7. /\ c \in DOMAIN probes => probes[c] = own
      /\ c \in DOMAIN modes => modes[c] = own
      /\ c \in DOMAIN probes \/ c \in DOMAIN modes
  BY <1>1 DEF BlockModes
<1>8. FixedScripts = Joined(tables)
  BY DEF FixedScripts
<1>9. DOMAIN tables = 1..25 /\ tables[24] = probes /\ tables[25] = modes
  OBVIOUS
<1> HIDE DEF probes, modes, own
<1>10. \A i \in 1..23 : NoProbes(tables[i])
  BY <1>2, <1>3, <1>4, <1>5, <1>6
<1>11. \A i \in DOMAIN tables : c \in DOMAIN tables[i] => tables[i][c] = own
  <2>1. \A i \in 1..23 : c \notin DOMAIN tables[i]
    BY <1>10 DEF NoProbes
  <2> HIDE DEF tables
  <2> QED
    BY <1>7, <1>9, <2>1
<1> HIDE DEF tables
<1>12. c \in DOMAIN Joined(tables)
  BY <1>7, <1>9, JoinedNames
<1>13. c \notin GroupedCommands
  BY <1>1 DEF GroupedCommands, GroupRequest
<1> QED
  BY <1>8, <1>11, <1>12, <1>13, JoinedEntries DEF ScriptOf, own
\* The request reads what it backs up or compares, and writes what it tests or restores.
StepIs(t, role, where) ==
  /\ t.role = role /\ t.at = where
  /\ t.kind = (IF role \in {"test", "restore"} THEN "writes" ELSE "reads")
  /\ t.request # "recover_c24"

StepGoes(t, fail, differ, credit) == t.fail = fail /\ t.differ = differ /\ t.credit = credit

\* The steps of the probes are made by these operators.
LEMMA ProbeSteps ==
  ASSUME NEW where, NEW put,
         NEW read \in {"batch_read_bit", "batch_read_words_group", "batch_read_bits_group",
                       "multi_block_read", "read_host_buffer", "read_module_buffer"},
         NEW write \in {"batch_write_bit", "batch_write_words_group",
                        "batch_write_bits_group", "random_write_words",
                        "random_write_bits", "multi_block_write", "write_host_buffer",
                        "write_module_buffer"}
  PROVE  /\ StepIs(Backup(read, where), "backup", where)
         /\ StepIs(Test(write, where, put), "test", where)
         /\ StepIs(Verify(read, where), "verify", where)
         /\ StepIs(Restore(write, where), "restore", where)
         /\ StepIs(Recheck(read, where), "recheck", where)
         /\ Backup(read, where).compare = {} /\ Test(write, where, put).compare = {}
         /\ Verify(read, where).compare = where /\ Restore(write, where).compare = {}
         /\ Recheck(read, where).compare = where
         /\ \A t \in {Backup(read, where), Test(write, where, put), Verify(read, where),
                      Restore(write, where), Recheck(read, where)} :
              StepGoes(t, Abort, Abort, FALSE)
<1>1. /\ Requests[read] = "reads" /\ Requests[write] = "writes"
      /\ read # "recover_c24" /\ write # "recover_c24"
  BY KindOfRequest
<1> QED
  BY <1>1 DEF StepIs, StepGoes, Backup, Test, Verify, Restore, Recheck, Step

\* A step of one of the roles fits.
LEMMA FittingStep ==
  ASSUME NEW s, NEW k, NEW role \in {"backup", "test", "verify", "restore", "recheck"},
         NEW where \in SUBSET CliCells, StepIs(s.steps[k], role, where),
         s.steps[k].compare \in SUBSET CliCells,
         role \notin {"verify", "recheck"} => s.steps[k].compare = {},
         s.steps[k].fail \in Nat \cup {Abort}, s.steps[k].differ \in Nat \cup {Abort},
         s.steps[k].credit /\ s.verdict = "first_credit" => role = "recheck"
  PROVE  StepFits(s, k)
<1>1. s.steps[k].kind = IF role \in {"test", "restore"} THEN "writes" ELSE "reads"
  BY DEF StepIs
<1>2. s.steps[k].role = role /\ s.steps[k].at = where /\ s.steps[k].request # "recover_c24"
  BY DEF StepIs
<1> QED
  BY <1>1, <1>2, Zenon DEF StepFits

\* A script of n targets, each tested, verified, restored and rechecked on its own: t is
\* the step r of target c.
TargetRoles == <<"backup", "test", "verify", "restore", "recheck">>

TargetStep(t, r, c, verdict) ==
  /\ StepIs(t, TargetRoles[r], {c})
  /\ t.compare = IF r \in {3, 5} THEN {c} ELSE {}
  /\ t.fail \in Nat \cup {Abort} /\ t.differ \in Nat \cup {Abort}
  /\ r # 5 => ~t.credit
  /\ verdict # "no_failure" =>
       /\ t.fail = Abort \/ (r = 2 /\ t.fail = 3 /\ verdict = "first_credit")
       /\ r \in {3, 5} =>
            t.differ = Abort \/ (r = 3 /\ t.differ = 2 /\ verdict = "first_credit")

TargetScript(s, n, cell) ==
  /\ Len(s.steps) = 5 * n
  /\ s.verdict \in {"no_failure", "first_credit", "finished"}
  /\ \A q \in 0..(n - 1) :
       /\ cell[q] \in CliCells
       /\ \A r \in 1..5 : TargetStep(s.steps[5 * q + r], r, cell[q], s.verdict)

\* The place of a step among the five of each target.
LEMMA TargetPlace ==
  ASSUME NEW n \in Nat, NEW k \in 1..(5 * n)
  PROVE  \E q \in 0..(n - 1), r \in 1..5 : k = 5 * q + r
<1>1. /\ (k - 1) \div 5 \in 0..(n - 1) /\ ((k - 1) % 5) + 1 \in 1..5
      /\ k = 5 * ((k - 1) \div 5) + (((k - 1) % 5) + 1)
  OBVIOUS
<1> QED
  BY <1>1

\* Backup, test, verify, restore and recheck of one target after the other have the form.
LEMMA TargetsAreDisciplined ==
  ASSUME NEW s, NEW n \in Nat, NEW cell, TargetScript(s, n, cell)
  PROVE  Disciplined(s)
<1> SUFFICES ASSUME NEW k \in 1..Len(s.steps)
             PROVE  /\ StepFits(s, k) /\ TestIsAnswered(s, k)
                    /\ FailureFits(s, k) /\ DifferenceFits(s, k) /\ GivingUpFits(s, k)
  BY DEF Disciplined
<1>1. Len(s.steps) = 5 * n /\ s.verdict \in {"no_failure", "first_credit", "finished"}
  BY DEF TargetScript
<1>2. PICK q \in 0..(n - 1), r \in 1..5 : k = 5 * q + r
  BY <1>1, TargetPlace
<1> DEFINE c == cell[q]
           t(i) == s.steps[5 * q + i]
<1>20. c \in CliCells /\ \A i \in 1..5 : TargetStep(t(i), i, c, s.verdict)
  BY DEF TargetScript
<1> HIDE DEF t, c
<1>21. /\ StepIs(t(1), "backup", {c}) /\ t(1).compare = {}
       /\ StepIs(t(2), "test", {c}) /\ t(2).compare = {}
  BY <1>20 DEF TargetStep, TargetRoles
<1>22. /\ StepIs(t(3), "verify", {c}) /\ t(3).compare = {c}
       /\ StepIs(t(4), "restore", {c}) /\ t(4).compare = {}
  BY <1>20 DEF TargetStep, TargetRoles
<1>23. StepIs(t(5), "recheck", {c}) /\ t(5).compare = {c}
  BY <1>20 DEF TargetStep, TargetRoles
<1>3. /\ c \in CliCells
      /\ StepIs(t(1), "backup", {c}) /\ StepIs(t(2), "test", {c}) /\ StepIs(t(3), "verify", {c})
      /\ StepIs(t(4), "restore", {c}) /\ StepIs(t(5), "recheck", {c})
      /\ t(1).compare = {} /\ t(2).compare = {} /\ t(4).compare = {}
      /\ t(3).compare = {c} /\ t(5).compare = {c}
  BY <1>20, <1>21, <1>22, <1>23
<1>4. /\ \A i \in 1..5 : t(i).fail \in Nat \cup {Abort} /\ t(i).differ \in Nat \cup {Abort}
      /\ \A i \in 1..4 : ~t(i).credit
  BY <1>20 DEF TargetStep, TargetRoles
<1>5. s.verdict # "no_failure" =>
        /\ \A i \in {1, 3, 4, 5} : t(i).fail = Abort
        /\ t(5).differ = Abort
        /\ t(2).fail = Abort \/ (t(2).fail = 3 /\ s.verdict = "first_credit")
        /\ t(3).differ = Abort \/ (t(3).differ = 2 /\ s.verdict = "first_credit")
  BY <1>20 DEF TargetStep, TargetRoles
<1> USE DEF t
<1>6. \A i \in 1..5 : 5 * q + i \in 1..Len(s.steps)
  BY <1>1
<1>7. /\ RoleAt(s, 5 * q + 1, {"backup"}) /\ RoleAt(s, 5 * q + 2, {"test", "verify"})
      /\ RoleAt(s, 5 * q + 3, {"verify", "restore"}) /\ RoleAt(s, 5 * q + 4, {"verify", "restore"})
      /\ RoleAt(s, 5 * q + 4, {"restore"}) /\ Strict(s, 5 * q + 5)
      /\ \A i \in {2, 3, 4, 5} : ~RoleAt(s, 5 * q + i, {"backup"})
  BY <1>1, <1>3, <1>5, <1>6 DEF RoleAt, Strict, StepIs
<1>8. c \in Owed(s, 5 * q + 3)
  <2>1. 5 * q + 4 \in (5 * q + 3)..Len(s.steps)
    BY <1>6
  <2>2. \A i \in (5 * q + 3)..(5 * q + 4) : i = 5 * q + 3 \/ i = 5 * q + 4
    OBVIOUS
  <2> QED
    BY <1>3, <1>7, <2>1, <2>2 DEF Owed, StepIs
<1>9. \A i \in 2..5 : c \in Kept(s, 5 * q + i)
  <2>1. \A i \in 2..5 : 5 * q + 1 \in 1..(5 * q + i - 1)
    OBVIOUS
  <2> QED
    BY <1>3, <1>7, <2>1 DEF Kept, StepIs
<1>10. \A i \in 1..5 : c \in Rechecked(s, 5 * q + i)
  <2>1. \A i \in 1..5 : 5 * q + 5 \in (5 * q + i)..Len(s.steps)
    BY <1>6
  <2> QED
    BY <1>3, <1>7, <2>1 DEF Rechecked
<1>11. c \in Reread(s, 5 * q + 5 + 1)
  BY <1>3, <1>6, <1>7, RereadLast DEF StepIs
<1>12. ~RoleAt(s, 5 * q + 6, {"verify"})
  <2> SUFFICES ASSUME RoleAt(s, 5 * q + 6, {"verify"})
               PROVE  FALSE
    OBVIOUS
  <2>1. 5 * q + 6 \in 1..(5 * n)
    BY <1>1 DEF RoleAt
  <2>2. q + 1 \in 0..(n - 1) /\ 5 * (q + 1) + 1 = 5 * q + 6
    BY <2>1
  <2>3. StepIs(s.steps[5 * (q + 1) + 1], "backup", {cell[q + 1]})
    <3>1. TargetStep(s.steps[5 * (q + 1) + 1], 1, cell[q + 1], s.verdict)
      BY <2>2, 1 \in 1..5 DEF TargetScript
    <3> QED
      BY <3>1 DEF TargetStep, TargetRoles
  <2> QED
    BY <2>2, <2>3 DEF RoleAt, StepIs
<1>13. StepFits(s, k)
  <2>1. {c} \in SUBSET CliCells /\ {} \in SUBSET CliCells
    BY <1>3
  <2>2. s.steps[k].fail \in Nat \cup {Abort} /\ s.steps[k].differ \in Nat \cup {Abort}
    BY <1>2, <1>4
  <2>3. CASE r = 1
    <3>1. StepIs(s.steps[k], "backup", {c}) /\ s.steps[k].compare = {} /\ ~s.steps[k].credit
      BY <1>2, <1>3, <1>4, <2>3
    <3> HIDE DEF t
    <3> QED
      BY <2>1, <2>2, <3>1, FittingStep
  <2>4. CASE r = 2
    <3>1. StepIs(s.steps[k], "test", {c}) /\ s.steps[k].compare = {} /\ ~s.steps[k].credit
      BY <1>2, <1>3, <1>4, <2>4
    <3> HIDE DEF t
    <3> QED
      BY <2>1, <2>2, <3>1, FittingStep
  <2>5. CASE r = 3
    <3>1. StepIs(s.steps[k], "verify", {c}) /\ s.steps[k].compare = {c} /\ ~s.steps[k].credit
      BY <1>2, <1>3, <1>4, <2>5
    <3> HIDE DEF t
    <3> QED
      BY <2>1, <2>2, <3>1, FittingStep
  <2>6. CASE r = 4
    <3>1. StepIs(s.steps[k], "restore", {c}) /\ s.steps[k].compare = {} /\ ~s.steps[k].credit
      BY <1>2, <1>3, <1>4, <2>6
    <3> HIDE DEF t
    <3> QED
      BY <2>1, <2>2, <3>1, FittingStep
  <2>7. CASE r = 5
    <3>1. StepIs(s.steps[k], "recheck", {c}) /\ s.steps[k].compare = {c}
      BY <1>2, <1>3, <1>4, <2>7
    <3> HIDE DEF t
    <3> QED
      BY <2>1, <2>2, <3>1, FittingStep
  <2> QED
    BY <2>3, <2>4, <2>5, <2>6, <2>7
<1>14. TestIsAnswered(s, k)
  <2>1. CASE r = 1
    BY <1>2, <1>3, <2>1 DEF TestIsAnswered, StepIs, Strict, RoleAt
  <2>2. CASE r = 2
    BY <1>2, <1>3, <1>8, <1>10, <2>2 DEF TestIsAnswered, StepIs, Strict, RoleAt
  <2>3. CASE r = 3
    <3>1. k = 5 * q + 3 /\ k - 1 = 5 * q + 2 /\ s.steps[k] = t(3)
      BY <1>2, <2>3
    <3>2. RoleAt(s, k - 1, {"test", "verify"}) /\ c \in Kept(s, k) /\ c \in Rechecked(s, k)
      BY <1>7, <1>9, <1>10, <3>1
    <3>3. ~Strict(s, k)
      BY <1>3, <3>1 DEF Strict, RoleAt, StepIs
    <3>4. /\ s.steps[k].role = "verify" /\ s.steps[k].at = {c}
          /\ s.steps[k].compare = {c}
      BY <1>3, <3>1 DEF StepIs
    <3>5. s.steps[k].compare \subseteq Kept(s, k) /\ s.steps[k].at \subseteq Rechecked(s, k)
      BY <3>2, <3>4
    <3>6. s.steps[k].role \notin {"test", "restore"}
      BY <3>4
    <3>7. RoleAt(s, k - 1, {"test"}) /\ s.steps[k].compare \subseteq s.steps[k - 1].at
      BY <1>3, <1>6, <3>1, <3>4 DEF RoleAt, StepIs
    <3> QED
      BY <3>2, <3>3, <3>5, <3>6, <3>7 DEF TestIsAnswered
  <2>4. CASE r = 4
    <3>1. k = 5 * q + 4 /\ s.steps[k] = t(4)
      BY <1>2, <2>4
    <3>2. s.steps[k].role = "restore" /\ s.steps[k].at = {c}
      BY <1>3, <3>1 DEF StepIs
    <3>3. s.steps[k].at \subseteq Kept(s, k) /\ s.steps[k].at \subseteq Rechecked(s, k)
      BY <1>9, <1>10, <3>1, <3>2
    <3>4. ~Strict(s, k)
      BY <3>2 DEF Strict, RoleAt
    <3> QED
      BY <3>2, <3>3, <3>4 DEF TestIsAnswered
  <2>5. CASE r = 5
    BY <1>2, <1>3, <1>10, <1>11, <2>5 DEF TestIsAnswered, StepIs
  <2> QED
    BY <2>1, <2>2, <2>3, <2>4, <2>5
<1>15. ASSUME s.verdict = "first_credit", NEW i \in {2, 3}
       PROVE  JumpFits(s, 5 * q + i, 5 - i)
  <2>1. \A j \in (5 * q + i)..(5 * q + i + (5 - i)) :
          j \in {5 * q + 2, 5 * q + 3, 5 * q + 4, 5 * q + 5}
    OBVIOUS
  <2>2. 5 * q + i + 1 + (5 - i) = 5 * q + 6
    OBVIOUS
  <2> QED
    BY <1>7, <1>12, <1>15, <2>1, <2>2 DEF JumpFits
<1>16. FailureFits(s, k) /\ DifferenceFits(s, k)
  <2> SUFFICES ASSUME s.verdict # "no_failure"
               PROVE  FailureFits(s, k) /\ DifferenceFits(s, k)
    BY DEF FailureFits, DifferenceFits
  <2>1. CASE r \in {1, 4, 5}
    BY <1>2, <1>3, <1>5, <2>1 DEF FailureFits, DifferenceFits, StepIs
  <2>2. CASE r = 2
    BY <1>2, <1>3, <1>5, <1>15, <2>2 DEF FailureFits, DifferenceFits, StepIs
  <2>3. CASE r = 3
    BY <1>2, <1>3, <1>5, <1>15, <2>3 DEF FailureFits, DifferenceFits, StepIs
  <2> QED
    BY <2>1, <2>2, <2>3
<1>17. GivingUpFits(s, k)
  BY <1>1 DEF GivingUpFits
<1> QED
  BY <1>13, <1>14, <1>16, <1>17

\* The length of a script given step by step.
LEMMA LengthOfSteps ==
  ASSUME NEW m \in Nat, NEW f, f = [k \in 1..m |-> f[k]]
  PROVE  Len(f) = m
<1> DEFINE S == {f[k] : k \in 1..m}
<1>1. f \in [1..m -> S]
  OBVIOUS
<1>2. f \in Seq(S)
  BY <1>1, IsASeq
<1> HIDE DEF S
<1>3. DOMAIN f = 1..m /\ DOMAIN f = 1..Len(f) /\ Len(f) \in Nat
  BY <1>1, <1>2, LenProperties
<1> QED
  BY <1>3

\* Which target the fifth of five steps and those before it are about.
LEMMA PlaceOfTarget ==
  ASSUME NEW q \in 0..(Len(Targets) - 1), NEW r \in 1..5
  PROVE  /\ 5 * q + r \in 1..(5 * Len(Targets))
         /\ (5 * q + r - 1) \div 5 = q /\ (5 * q + r - 1) % 5 = r - 1
         /\ Targets[q + 1] \in CliCells
<1>1. Len(Targets) \in Nat /\ DOMAIN Targets = 1..Len(Targets) /\ Targets \in Seq(CliCells)
  BY CliScriptsAssumption, LenProperties
<1>2. q + 1 \in 1..Len(Targets)
  BY <1>1
<1>3. Targets[q + 1] \in CliCells
  BY <1>1, <1>2, ElementOfSeq
<1>4. 5 * q + r \in 1..(5 * Len(Targets))
  BY <1>1
<1>5. (5 * q + r - 1) \div 5 = q /\ (5 * q + r - 1) % 5 = r - 1
  OBVIOUS
<1> QED
  BY <1>3, <1>4, <1>5

\* Every step is about a device there is.
LEMMA TargetOfStep ==
  ASSUME NEW k \in 1..(5 * Len(Targets))
  PROVE  Targets[((k - 1) \div 5) + 1] \in CliCells
<1>1. Len(Targets) \in Nat
  BY CliScriptsAssumption, LenProperties
<1>2. PICK q \in 0..(Len(Targets) - 1), r \in 1..5 : k = 5 * q + r
  BY <1>1, TargetPlace
<1> QED
  BY <1>2, PlaceOfTarget

\* A script written once for each target is one of backup, test, verify, restore and recheck.
LEMMA ScriptOverTargets ==
  ASSUME NEW s, NEW word,
         s.steps = [k \in 1..(5 * Len(Targets)) |->
                      word[Targets[((k - 1) \div 5) + 1]][((k - 1) % 5) + 1]],
         s.verdict \in {"no_failure", "first_credit", "finished"},
         \A c \in CliCells : \A r \in 1..5 : TargetStep(word[c][r], r, c, s.verdict)
  PROVE  TargetScript(s, Len(Targets), [q \in 0..(Len(Targets) - 1) |-> Targets[q + 1]])
<1> DEFINE n == Len(Targets)
           cell == [q \in 0..(Len(Targets) - 1) |-> Targets[q + 1]]
<1>1. n \in Nat
  BY CliScriptsAssumption, LenProperties
<1>2. Len(s.steps) = 5 * n
  BY <1>1, LengthOfSteps
<1>3. ASSUME NEW q \in 0..(n - 1), NEW r \in 1..5
      PROVE  cell[q] \in CliCells /\ TargetStep(s.steps[5 * q + r], r, cell[q], s.verdict)
  <2>1. cell[q] = Targets[q + 1] /\ Targets[q + 1] \in CliCells
    BY PlaceOfTarget
  <2>2. (5 * q + r) \in 1..(5 * Len(Targets))
    BY PlaceOfTarget
  <2>3. s.steps[5 * q + r] =
          word[Targets[((5 * q + r - 1) \div 5) + 1]][((5 * q + r - 1) % 5) + 1]
    BY <2>2
  <2>4. s.steps[5 * q + r] = word[cell[q]][r]
    <3>1. (5 * q + r - 1) \div 5 = q /\ (5 * q + r - 1) % 5 = r - 1
      BY PlaceOfTarget, Zenon
    <3>2. r - 1 + 1 = r
      OBVIOUS
    <3> QED
      BY <2>1, <2>3, <3>1, <3>2
  <2> HIDE DEF cell
  <2> QED
    BY <2>1, <2>4
<1>4. ASSUME NEW q \in 0..(n - 1)
      PROVE  cell[q] \in CliCells
  BY <1>3, 1 \in 1..5
<1> QED
  BY <1>2, <1>3, <1>4 DEF TargetScript

\* The scripts of probe-write-all, probe-write-host-buffer and probe-write-module-buffer.
LEMMA WriteAllScript ==
  TargetScript(ProbeWriteAll, Len(Targets), [q \in 0..(Len(Targets) - 1) |-> Targets[q + 1]])
<1> DEFINE Target(c) == <<GoingOn(Backup("batch_read_bit", {c}), 4),
                          GoingOn(Test("batch_write_bit", {c}, Flip), 3),
                          GoingOn(Verify("batch_read_bit", {c}), 2),
                          GoingOn(Restore("batch_write_bit", {c}), 1),
                          GoingOn(Recheck("batch_read_bit", {c}), 0)>>
           word == [c \in CliCells |-> Target(c)]
<1>1. ProbeWriteAll.verdict = "no_failure"
  BY DEF ProbeWriteAll, Script
<1>2. ProbeWriteAll.steps =
        [k \in 1..(5 * Len(Targets)) |->
           word[Targets[((k - 1) \div 5) + 1]][((k - 1) % 5) + 1]]
  <2>1. \A k \in 1..(5 * Len(Targets)) : Targets[((k - 1) \div 5) + 1] \in CliCells
    BY TargetOfStep
  <2>2. ProbeWriteAll.steps =
          [k \in 1..(5 * Len(Targets)) |->
             Target(Targets[((k - 1) \div 5) + 1])[((k - 1) % 5) + 1]]
    BY DEF ProbeWriteAll, Script, EachTarget
  <2> QED
    BY <2>1, <2>2
<1>3. ASSUME NEW c \in CliCells, NEW r \in 1..5
      PROVE  TargetStep(word[c][r], r, c, "no_failure")
  <2>1. word[c] = Target(c)
    OBVIOUS
  <2>2. TargetStep(Target(c)[r], r, c, "no_failure")
    <3>1. /\ Requests["batch_read_bit"] = "reads" /\ Requests["batch_write_bit"] = "writes"
    BY KindOfRequest
    <3>2. TargetStep(GoingOn(Backup("batch_read_bit", {c}), 4), 1, c, "no_failure")
      BY <3>1 DEF TargetStep, TargetRoles, StepIs, GoingOn, Backup, Step, Abort
    <3>3. TargetStep(GoingOn(Test("batch_write_bit", {c}, Flip), 3), 2, c, "no_failure")
      BY <3>1 DEF TargetStep, TargetRoles, StepIs, GoingOn, Test, Step, Abort
    <3>4. TargetStep(GoingOn(Verify("batch_read_bit", {c}), 2), 3, c, "no_failure")
      BY <3>1 DEF TargetStep, TargetRoles, StepIs, GoingOn, Verify, Step, Abort
    <3>5. TargetStep(GoingOn(Restore("batch_write_bit", {c}), 1), 4, c, "no_failure")
      BY <3>1 DEF TargetStep, TargetRoles, StepIs, GoingOn, Restore, Step, Abort
    <3>6. TargetStep(GoingOn(Recheck("batch_read_bit", {c}), 0), 5, c, "no_failure")
      BY <3>1 DEF TargetStep, TargetRoles, StepIs, GoingOn, Recheck, Step, Abort
    <3> QED
      BY <3>2, <3>3, <3>4, <3>5, <3>6
  <2> QED
    BY <2>1, <2>2
<1> HIDE DEF word
<1> QED
  BY <1>1, <1>2, <1>3, ScriptOverTargets

LEMMA WriteHostBufferScript ==
  TargetScript(ProbeWriteHostBuffer, Len(Targets),
               [q \in 0..(Len(Targets) - 1) |-> Targets[q + 1]])
<1> DEFINE Word(c) == <<Backup("read_host_buffer", {c}),
                        GoingOn(Test("write_host_buffer", {c}, Flip), 3),
                        [Verify("read_host_buffer", {c}) EXCEPT !.differ = 2],
                        Restore("write_host_buffer", {c}),
                        Credited(Recheck("read_host_buffer", {c}))>>
           word == [c \in CliCells |-> Word(c)]
<1>1. ProbeWriteHostBuffer.verdict = "first_credit"
  BY DEF ProbeWriteHostBuffer, Script
<1>2. ProbeWriteHostBuffer.steps =
        [k \in 1..(5 * Len(Targets)) |->
           word[Targets[((k - 1) \div 5) + 1]][((k - 1) % 5) + 1]]
  <2>1. \A k \in 1..(5 * Len(Targets)) : Targets[((k - 1) \div 5) + 1] \in CliCells
    BY TargetOfStep
  <2>2. ProbeWriteHostBuffer.steps =
          [k \in 1..(5 * Len(Targets)) |->
             Word(Targets[((k - 1) \div 5) + 1])[((k - 1) % 5) + 1]]
    BY DEF ProbeWriteHostBuffer, Script, EachTarget
  <2> QED
    BY <2>1, <2>2
<1>3. ASSUME NEW c \in CliCells, NEW r \in 1..5
      PROVE  TargetStep(word[c][r], r, c, "first_credit")
  <2>1. word[c] = Word(c)
    OBVIOUS
  <2>2. TargetStep(Word(c)[r], r, c, "first_credit")
    <3>1. /\ Requests["read_host_buffer"] = "reads" /\ Requests["write_host_buffer"] = "writes"
      BY KindOfRequest
    <3>2. TargetStep(Backup("read_host_buffer", {c}), 1, c, "first_credit")
      BY <3>1 DEF TargetStep, TargetRoles, StepIs, Backup, Step, Abort
    <3>3. TargetStep(GoingOn(Test("write_host_buffer", {c}, Flip), 3), 2, c, "first_credit")
      BY <3>1 DEF TargetStep, TargetRoles, StepIs, GoingOn, Test, Step, Abort
    <3>4. TargetStep([Verify("read_host_buffer", {c}) EXCEPT !.differ = 2], 3, c, "first_credit")
      BY <3>1 DEF TargetStep, TargetRoles, StepIs, Verify, Step, Abort
    <3>5. TargetStep(Restore("write_host_buffer", {c}), 4, c, "first_credit")
      BY <3>1 DEF TargetStep, TargetRoles, StepIs, Restore, Step, Abort
    <3>6. TargetStep(Credited(Recheck("read_host_buffer", {c})), 5, c, "first_credit")
      BY <3>1 DEF TargetStep, TargetRoles, StepIs, Credited, Recheck, Step, Abort
    <3> QED
      BY <3>2, <3>3, <3>4, <3>5, <3>6
  <2> QED
    BY <2>1, <2>2
<1> HIDE DEF word
<1> QED
  BY <1>1, <1>2, <1>3, ScriptOverTargets

LEMMA WriteModuleBufferScript == TargetScript(ProbeWriteModuleBuffer, 1, [q \in {0} |-> 1])
<1> DEFINE s == ProbeWriteModuleBuffer
           steps == <<Backup("read_module_buffer", {1}), Test("write_module_buffer", {1}, Flip),
                      Verify("read_module_buffer", {1}), Restore("write_module_buffer", {1}),
                      Recheck("read_module_buffer", {1})>>
<1>1. s.steps = steps /\ s.verdict = "finished"
  BY DEF ProbeWriteModuleBuffer, Script
<1>2. /\ Requests["read_module_buffer"] = "reads" /\ Requests["write_module_buffer"] = "writes"
  BY KindOfRequest
<1>3. ASSUME NEW r \in 1..5
      PROVE  TargetStep(steps[r], r, 1, "finished")
  <2>1. TargetStep(Backup("read_module_buffer", {1}), 1, 1, "finished")
    BY <1>2 DEF TargetStep, TargetRoles, StepIs, Backup, Step, Abort
  <2>2. TargetStep(Test("write_module_buffer", {1}, Flip), 2, 1, "finished")
    BY <1>2 DEF TargetStep, TargetRoles, StepIs, Test, Step, Abort
  <2>3. TargetStep(Verify("read_module_buffer", {1}), 3, 1, "finished")
    BY <1>2 DEF TargetStep, TargetRoles, StepIs, Verify, Step, Abort
  <2>4. TargetStep(Restore("write_module_buffer", {1}), 4, 1, "finished")
    BY <1>2 DEF TargetStep, TargetRoles, StepIs, Restore, Step, Abort
  <2>5. TargetStep(Recheck("read_module_buffer", {1}), 5, 1, "finished")
    BY <1>2 DEF TargetStep, TargetRoles, StepIs, Recheck, Step, Abort
  <2> QED
    BY <2>1, <2>2, <2>3, <2>4, <2>5
<1>4. Len(steps) = 5
  OBVIOUS
<1> HIDE DEF steps
<1>5. 1 \in CliCells
  BY CliScriptsAssumption DEF CliCells
<1>6. ASSUME NEW q \in 0..(1 - 1)
      PROVE  /\ [i \in {0} |-> 1][q] = 1
             /\ \A r \in 1..5 : TargetStep(s.steps[5 * q + r], r, 1, s.verdict)
  <2>1. q = 0 /\ \A r \in 1..5 : 5 * q + r = r
    OBVIOUS
  <2> QED
    BY <1>1, <1>3, <2>1
<1>7. Len(s.steps) = 5 * 1 /\ s.verdict \in {"no_failure", "first_credit", "finished"}
  BY <1>1, <1>4
<1> HIDE DEF s
<1>8. TargetScript(s, 1, [q \in {0} |-> 1])
  BY <1>5, <1>6, <1>7 DEF TargetScript
<1> QED
  BY <1>8 DEF s

\* A script of four trials, each a test that is verified and restored, with one backup and one
\* recheck around them: t has one of the roles.
TrialStep(t, role, fail) ==
  /\ StepIs(t, role, t.at) /\ t.at \subseteq Range3
  /\ role # "test" => t.at = Range3
  /\ t.compare = IF role \in {"verify", "recheck"} THEN Range3 ELSE {}
  /\ t.fail = fail /\ t.differ \in Nat \cup {Abort}
  /\ role \in {"verify", "recheck"} => t.differ = fail

TrialScript(s) ==
  /\ Len(s.steps) = 14 /\ s.verdict = "credited"
  /\ TrialStep(s.steps[1], "backup", Abort) /\ TrialStep(s.steps[14], "recheck", Abort)
  /\ \A q \in 0..3 : /\ TrialStep(s.steps[3 * q + 2], "test", 1)
                     /\ TrialStep(s.steps[3 * q + 3], "verify", 0)
                     /\ TrialStep(s.steps[3 * q + 4], "restore", Abort)

\* One backup, four trials of test, verify and restore, and one recheck have the form.
LEMMA TrialsAreDisciplined ==
  ASSUME NEW s, TrialScript(s)
  PROVE  Disciplined(s)
<1> SUFFICES ASSUME NEW k \in 1..Len(s.steps)
             PROVE  /\ StepFits(s, k) /\ TestIsAnswered(s, k)
                    /\ FailureFits(s, k) /\ DifferenceFits(s, k) /\ GivingUpFits(s, k)
  BY DEF Disciplined
<1> DEFINE t(i) == s.steps[i]
<1>1. /\ Len(s.steps) = 14 /\ s.verdict = "credited"
      /\ TrialStep(t(1), "backup", Abort) /\ TrialStep(t(14), "recheck", Abort)
      /\ \A q \in 0..3 : /\ TrialStep(t(3 * q + 2), "test", 1)
                         /\ TrialStep(t(3 * q + 3), "verify", 0)
                         /\ TrialStep(t(3 * q + 4), "restore", Abort)
  BY DEF TrialScript
<1>2. Range3 \in SUBSET CliCells
  BY CliScriptsAssumption DEF Range3, CliCells
<1>3. /\ RoleAt(s, 1, {"backup"}) /\ t(1).at = Range3
      /\ Strict(s, 14) /\ t(14).at = Range3 /\ t(14).compare = Range3
  BY <1>1 DEF RoleAt, Strict, TrialStep, StepIs
<1>4. ASSUME NEW q \in 0..3
      PROVE  /\ RoleAt(s, 3 * q + 2, {"test"}) /\ RoleAt(s, 3 * q + 2, {"test", "verify"})
             /\ RoleAt(s, 3 * q + 3, {"verify"}) /\ RoleAt(s, 3 * q + 3, {"verify", "restore"})
             /\ RoleAt(s, 3 * q + 4, {"restore"}) /\ RoleAt(s, 3 * q + 4, {"verify", "restore"})
             /\ t(3 * q + 4).at = Range3
             /\ \A i \in {3 * q + 2, 3 * q + 3, 3 * q + 4} :
                  ~RoleAt(s, i, {"backup"}) /\ ~Strict(s, i)
             /\ ~RoleAt(s, 3 * q + 4, {"verify"})
  BY <1>1 DEF RoleAt, Strict, TrialStep, StepIs
<1> HIDE DEF t
<1>5. \A i \in 2..14 : Range3 \subseteq Kept(s, i)
  <2>1. \A i \in 2..14 : 1 \in 1..(i - 1)
    OBVIOUS
  <2> QED
    BY <1>2, <1>3, <2>1 DEF Kept, t
<1>6. \A i \in 1..14 : Range3 \subseteq Rechecked(s, i)
  <2>1. \A i \in 1..14 : 14 \in i..Len(s.steps)
    BY <1>1
  <2> QED
    BY <1>2, <1>3, <2>1 DEF Rechecked, t
<1>7. Range3 \subseteq Reread(s, 14 + 1)
  BY <1>2, <1>3, RereadLast DEF t
<1>8. ASSUME NEW q \in 0..3
      PROVE  Range3 \subseteq Owed(s, 3 * q + 3)
  <2>1. 3 * q + 4 \in (3 * q + 3)..Len(s.steps)
    BY <1>1
  <2>2. \A i \in (3 * q + 3)..(3 * q + 4) : i = 3 * q + 3 \/ i = 3 * q + 4
    OBVIOUS
  <2> QED
    BY <1>2, <1>4, <2>1, <2>2 DEF Owed, t
<1>9. k = 1 \/ k = 14 \/ \E q \in 0..3 : k \in {3 * q + 2, 3 * q + 3, 3 * q + 4}
  BY <1>1
<1>10. CASE k = 1
  <2>1. StepFits(s, k)
    BY <1>1, <1>2, <1>10, FittingStep DEF TrialStep, t
  <2>2. s.steps[k].role = "backup" /\ s.steps[k].fail = Abort
    BY <1>1, <1>10 DEF TrialStep, StepIs, t
  <2> QED
    BY <1>10, <2>1, <2>2
       DEF TestIsAnswered, Strict, RoleAt, FailureFits, DifferenceFits, GivingUpFits
<1>11. CASE k = 14
  <2>1. StepFits(s, k)
    BY <1>1, <1>2, <1>11, FittingStep DEF TrialStep, t
  <2>2. /\ s.steps[k].role = "recheck" /\ s.steps[k].fail = Abort /\ s.steps[k].differ = Abort
        /\ s.steps[k].at = Range3 /\ s.steps[k].compare = Range3
    BY <1>1, <1>11 DEF TrialStep, StepIs, t
  <2>3. TestIsAnswered(s, k)
    BY <1>6, <1>7, <1>11, <2>2 DEF TestIsAnswered
  <2> QED
    BY <2>1, <2>2, <2>3 DEF FailureFits, DifferenceFits, GivingUpFits
<1>12. ASSUME NEW q \in 0..3, k = 3 * q + 2
       PROVE  /\ StepFits(s, k) /\ TestIsAnswered(s, k)
              /\ FailureFits(s, k) /\ DifferenceFits(s, k) /\ GivingUpFits(s, k)
  <2>1. TrialStep(s.steps[k], "test", 1)
    BY <1>1, <1>12 DEF t
  <2>2. /\ s.steps[k].at \in SUBSET CliCells /\ s.steps[k].compare = {}
        /\ StepIs(s.steps[k], "test", s.steps[k].at)
        /\ s.steps[k].fail \in Nat \cup {Abort} /\ s.steps[k].differ \in Nat \cup {Abort}
    BY <1>2, <2>1 DEF TrialStep
  <2>3. StepFits(s, k)
    BY <1>1, <2>2, FittingStep
  <2>4. s.steps[k].role = "test" /\ s.steps[k].fail = 1 /\ s.steps[k].at \subseteq Range3
    BY <2>1 DEF TrialStep, StepIs
  <2>5. k + 1 = 3 * q + 3 /\ k \in 1..14
    BY <1>12
  <2>6. s.steps[k].at \subseteq Owed(s, k + 1) /\ s.steps[k].at \subseteq Rechecked(s, k)
    BY <1>6, <1>8, <2>4, <2>5
  <2>7. ~Strict(s, k)
    BY <1>4, <1>12
  <2>8. TestIsAnswered(s, k)
    BY <2>4, <2>6, <2>7 DEF TestIsAnswered
  <2>9. JumpFits(s, k, 1) /\ Verifying(s, k + 1, 1 - 1)
    <3>1. /\ \A i \in k..(k + 1) : i = 3 * q + 2 \/ i = 3 * q + 3
          /\ \A i \in (k + 1)..(k + 1 + (1 - 1)) : i = 3 * q + 3
      BY <1>12
    <3>2. k + 1 + 1 = 3 * q + 4 /\ k + 1 + 1 <= Len(s.steps)
      BY <1>1, <1>12
    <3> QED
      BY <1>1, <1>4, <3>1, <3>2 DEF JumpFits, Verifying
  <2> QED
    BY <2>3, <2>4, <2>8, <2>9, Abort # 1 DEF FailureFits, DifferenceFits, GivingUpFits, Abort
<1>13. ASSUME NEW q \in 0..3, k = 3 * q + 3
       PROVE  /\ StepFits(s, k) /\ TestIsAnswered(s, k)
              /\ FailureFits(s, k) /\ DifferenceFits(s, k) /\ GivingUpFits(s, k)
  <2>1. TrialStep(s.steps[k], "verify", 0)
    BY <1>1, <1>13 DEF t
  <2>9. /\ s.steps[k].compare \in SUBSET CliCells /\ Range3 \in SUBSET CliCells
        /\ StepIs(s.steps[k], "verify", Range3)
        /\ s.steps[k].fail \in Nat \cup {Abort} /\ s.steps[k].differ \in Nat \cup {Abort}
    BY <1>2, <2>1 DEF TrialStep
  <2>2. StepFits(s, k)
    BY <1>1, <2>9, FittingStep
  <2>3. /\ s.steps[k].role = "verify" /\ s.steps[k].fail = 0 /\ s.steps[k].differ = 0
        /\ s.steps[k].at = Range3 /\ s.steps[k].compare = Range3
    BY <2>1 DEF TrialStep, StepIs
  <2>4. k - 1 = 3 * q + 2 /\ k \in 2..14
    BY <1>13
  <2>5. RoleAt(s, k - 1, {"test", "verify"}) /\ ~Strict(s, k)
    BY <1>4, <1>13, <2>4
  <2>6. TestIsAnswered(s, k)
    BY <1>1, <1>5, <1>6, <2>3, <2>4, <2>5 DEF TestIsAnswered
  <2>7. JumpFits(s, k, 0) /\ Verifying(s, k, 0)
    <3>1. \A i \in k..(k + 0) : i = 3 * q + 3
      BY <1>13
    <3>2. k + 1 + 0 = 3 * q + 4 /\ k + 1 + 0 <= Len(s.steps)
      BY <1>1, <1>13
    <3> QED
      BY <1>1, <1>4, <3>1, <3>2 DEF JumpFits, Verifying
  <2> QED
    BY <2>2, <2>3, <2>6, <2>7 DEF FailureFits, DifferenceFits, GivingUpFits, Abort
<1>14. ASSUME NEW q \in 0..3, k = 3 * q + 4
       PROVE  /\ StepFits(s, k) /\ TestIsAnswered(s, k)
              /\ FailureFits(s, k) /\ DifferenceFits(s, k) /\ GivingUpFits(s, k)
  <2>1. TrialStep(s.steps[k], "restore", Abort)
    BY <1>1, <1>14 DEF t
  <2>2. StepFits(s, k)
    BY <1>1, <1>2, <2>1, FittingStep DEF TrialStep
  <2>3. s.steps[k].role = "restore" /\ s.steps[k].fail = Abort /\ s.steps[k].at = Range3
    BY <2>1 DEF TrialStep, StepIs
  <2>4. k \in 2..14 /\ ~Strict(s, k)
    BY <1>4, <1>14
  <2>5. TestIsAnswered(s, k)
    BY <1>5, <1>6, <2>3, <2>4 DEF TestIsAnswered
  <2> QED
    BY <2>2, <2>3, <2>5 DEF FailureFits, DifferenceFits, GivingUpFits
<1> QED
  BY <1>9, <1>10, <1>11, <1>12, <1>13, <1>14

\* The four trials, by the places of their steps.
LEMMA FourTrials ==
  ASSUME NEW s, Len(s.steps) = 14, s.verdict = "credited",
         TrialStep(s.steps[1], "backup", Abort), TrialStep(s.steps[14], "recheck", Abort),
         \A k \in {2, 5, 8, 11} : TrialStep(s.steps[k], "test", 1),
         \A k \in {3, 6, 9, 12} : TrialStep(s.steps[k], "verify", 0),
         \A k \in {4, 7, 10, 13} : TrialStep(s.steps[k], "restore", Abort)
  PROVE  TrialScript(s)
<1>1. ASSUME NEW q \in 0..3
      PROVE  /\ 3 * q + 2 \in {2, 5, 8, 11} /\ 3 * q + 3 \in {3, 6, 9, 12}
             /\ 3 * q + 4 \in {4, 7, 10, 13}
  OBVIOUS
<1> QED
  BY <1>1 DEF TrialScript

\* A trial without its credit.
LEMMA UncreditedTrial ==
  ASSUME NEW x, NEW y, NEW z
  PROVE  Uncredited(<<x, y, z>>) = <<x, [y EXCEPT !.credit = FALSE], z>>
<1>1. Uncredited(<<x, y, z>>) = [<<x, y, z>> EXCEPT ![2] = [y EXCEPT !.credit = FALSE]]
  BY DEF Uncredited
<1>2. \A u : [<<x, y, z>> EXCEPT ![2] = u] = <<x, u, z>>
  OBVIOUS
<1> QED
  BY <1>1, <1>2

\* The scripts of probe-random-write-words and probe-random-write-bits.
LEMMA RandomWriteWordsScript == TrialScript(ProbeRandomWriteWords)
<1> DEFINE read == "batch_read_words_group"
           b == Backup(read, Range3)
           e == Recheck(read, Range3)
           test(write, where) == GoingOn(Test(write, where, [c \in where |-> 1]), 1)
           v == Credited(GoingOn(Verify(read, Range3), 0))
           t1 == test("batch_write_words_group", Range3)
           v1 == [v EXCEPT !.credit = FALSE]
           t2 == test("random_write_words", {1})
           t3 == test("random_write_words", {1, 2})
           t4 == test("random_write_words", {1, 3})
           s == ProbeRandomWriteWords
           r == RestoreWords
<1>1. /\ Requests["batch_read_words_group"] = "reads"
      /\ Requests["batch_write_words_group"] = "writes"
      /\ Requests["random_write_words"] = "writes"
  BY KindOfRequest
<1>2. /\ TrialStep(b, "backup", Abort) /\ TrialStep(e, "recheck", Abort)
      /\ TrialStep(r, "restore", Abort)
  BY <1>1 DEF TrialStep, StepIs, RestoreWords, Backup, Recheck, Restore, Step
<1>3. TrialStep(v, "verify", 0) /\ TrialStep(v1, "verify", 0)
  BY <1>1 DEF TrialStep, StepIs, GoingOn, Credited, Verify, Step, Abort
<1>4. /\ TrialStep(t1, "test", 1) /\ TrialStep(t2, "test", 1)
      /\ TrialStep(t3, "test", 1) /\ TrialStep(t4, "test", 1)
  BY <1>1 DEF TrialStep, StepIs, GoingOn, Test, Step, Abort, Range3
<1>5. /\ Uncredited(<<t1, v, r>>) = <<t1, v1, r>>
      /\ WriteTrial("batch_write_words_group", read, Range3, [c \in Range3 |-> 1], r) =
           <<t1, v, r>>
      /\ WriteTrial("random_write_words", read, {1}, [c \in {1} |-> 1], r) = <<t2, v, r>>
      /\ WriteTrial("random_write_words", read, {1, 2}, [c \in {1, 2} |-> 1], r) =
           <<t3, v, r>>
      /\ WriteTrial("random_write_words", read, {1, 3}, [c \in {1, 3} |-> 1], r) =
           <<t4, v, r>>
  <2>1. Uncredited(<<t1, v, r>>) = <<t1, v1, r>>
    <3> HIDE DEF t1, v, r
    <3> QED
      BY UncreditedTrial
  <2> QED
    BY <2>1, Zenon DEF WriteTrial
<1>6. /\ s.steps = (<<b>> \o <<t1, v1, r>>) \o (<<t2, v, r>> \o <<t3, v, r>>) \o
                   (<<t4, v, r>> \o <<e>>)
      /\ s.verdict = "credited"
  <2>1. WordsBackupAndContiguous = <<b>> \o <<t1, v1, r>>
    BY <1>5 DEF WordsBackupAndContiguous
  <2>2. WordsSingleAndDense = <<t2, v, r>> \o <<t3, v, r>>
    BY <1>5 DEF WordsSingleAndDense
  <2>3. WordsSparseAndRecheck = <<t4, v, r>> \o <<e>>
    BY <1>5 DEF WordsSparseAndRecheck
  <2> HIDE DEF b, e, v, v1, t1, t2, t3, t4, r
  <2> QED
    BY <2>1, <2>2, <2>3 DEF ProbeRandomWriteWords, Script
<1> HIDE DEF b, e, v, v1, t1, t2, t3, t4, r, s
<1>7. /\ Len(s.steps) = 14 /\ s.steps[1] = b /\ s.steps[14] = e
      /\ s.steps[2] = t1 /\ s.steps[3] = v1 /\ s.steps[4] = r
      /\ s.steps[5] = t2 /\ s.steps[6] = v /\ s.steps[7] = r
      /\ s.steps[8] = t3 /\ s.steps[9] = v /\ s.steps[10] = r
      /\ s.steps[11] = t4 /\ s.steps[12] = v /\ s.steps[13] = r
  BY <1>6
<1>8. TrialScript(s)
  BY <1>2, <1>3, <1>4, <1>6, <1>7, FourTrials
<1> QED
  BY <1>8 DEF s

LEMMA RandomWriteBitsScript == TrialScript(ProbeRandomWriteBits)
<1> DEFINE read == "batch_read_bits_group"
           sparse == [c \in {1, 3} |-> IF c = 1 THEN 1 ELSE 0]
           b == Backup(read, Range3)
           e == Recheck(read, Range3)
           test(write, where, put) == GoingOn(Test(write, where, put), 1)
           v == Credited(GoingOn(Verify(read, Range3), 0))
           t1 == test("batch_write_bits_group", Range3, BitPattern)
           v1 == [v EXCEPT !.credit = FALSE]
           t2 == test("random_write_bits", Range3, BitPattern)
           t3 == test("random_write_bits", {1}, [c \in {1} |-> 1])
           t4 == test("random_write_bits", {1, 3}, sparse)
           s == ProbeRandomWriteBits
           r == RestoreBits
<1>1. /\ Requests["batch_read_bits_group"] = "reads"
      /\ Requests["batch_write_bits_group"] = "writes"
      /\ Requests["random_write_bits"] = "writes"
  BY KindOfRequest
<1>2. /\ TrialStep(b, "backup", Abort) /\ TrialStep(e, "recheck", Abort)
      /\ TrialStep(r, "restore", Abort)
  BY <1>1 DEF TrialStep, StepIs, RestoreBits, Backup, Recheck, Restore, Step
<1>3. TrialStep(v, "verify", 0) /\ TrialStep(v1, "verify", 0)
  BY <1>1 DEF TrialStep, StepIs, GoingOn, Credited, Verify, Step, Abort
<1>4. /\ TrialStep(t1, "test", 1) /\ TrialStep(t2, "test", 1)
      /\ TrialStep(t3, "test", 1) /\ TrialStep(t4, "test", 1)
  BY <1>1 DEF TrialStep, StepIs, GoingOn, Test, Step, Abort, Range3
<1>5. /\ Uncredited(<<t1, v, r>>) = <<t1, v1, r>>
      /\ WriteTrial("batch_write_bits_group", read, Range3, BitPattern, r) = <<t1, v, r>>
      /\ WriteTrial("random_write_bits", read, Range3, BitPattern, r) = <<t2, v, r>>
      /\ WriteTrial("random_write_bits", read, {1}, [c \in {1} |-> 1], r) = <<t3, v, r>>
      /\ WriteTrial("random_write_bits", read, {1, 3}, sparse, r) = <<t4, v, r>>
  <2>1. Uncredited(<<t1, v, r>>) = <<t1, v1, r>>
    <3> HIDE DEF t1, v, r
    <3> QED
      BY UncreditedTrial
  <2> QED
    BY <2>1, Zenon DEF WriteTrial
<1>6. /\ s.steps = <<b>> \o (<<t1, v1, r>> \o <<t2, v, r>>) \o
                   (<<t3, v, r>> \o <<t4, v, r>> \o <<e>>)
      /\ s.verdict = "credited"
  <2>1. BitsBackup = <<b>>
    BY DEF BitsBackup
  <2>2. BitsContiguousAndDense = <<t1, v1, r>> \o <<t2, v, r>>
    BY <1>5 DEF BitsContiguousAndDense
  <2>3. BitsSingleSparseAndRecheck = <<t3, v, r>> \o <<t4, v, r>> \o <<e>>
    BY <1>5 DEF BitsSingleSparseAndRecheck
  <2> HIDE DEF b, e, v, v1, t1, t2, t3, t4, r
  <2> QED
    BY <2>1, <2>2, <2>3 DEF ProbeRandomWriteBits, Script
<1> HIDE DEF b, e, v, v1, t1, t2, t3, t4, r, s
<1>7. /\ Len(s.steps) = 14 /\ s.steps[1] = b /\ s.steps[14] = e
      /\ s.steps[2] = t1 /\ s.steps[3] = v1 /\ s.steps[4] = r
      /\ s.steps[5] = t2 /\ s.steps[6] = v /\ s.steps[7] = r
      /\ s.steps[8] = t3 /\ s.steps[9] = v /\ s.steps[10] = r
      /\ s.steps[11] = t4 /\ s.steps[12] = v /\ s.steps[13] = r
  BY <1>6
<1>8. TrialScript(s)
  BY <1>2, <1>3, <1>4, <1>6, <1>7, FourTrials
<1> QED
  BY <1>8 DEF s

\* The script of probe-multi-block: four backups, a reading, a test, m verifications, four
\* restores and four rechecks, the last of which compares all.
BlockStep(t, role, where, compare, fail) ==
  /\ StepIs(t, role, where) /\ where \subseteq BlockCells
  /\ t.compare = compare /\ compare \subseteq BlockCells
  /\ role \in {"backup", "test", "restore"} => compare = {}
  /\ t.fail = fail /\ t.differ \in Nat \cup {Abort}
  /\ role \in {"verify", "recheck"} => t.differ = fail

BlockScript(s, m) ==
  /\ m \in Nat /\ Len(s.steps) = 14 + m /\ s.verdict = "credited"
  /\ \A i \in BlockCells : BlockStep(s.steps[i], "backup", {i}, {}, Abort)
  /\ \E where \in SUBSET BlockCells : BlockStep(s.steps[5], "recheck", where, where, 0)
  /\ \E where \in SUBSET BlockCells : BlockStep(s.steps[6], "test", where, {}, m)
  /\ \A i \in 1..m : \E where, compare \in SUBSET BlockCells :
       BlockStep(s.steps[6 + i], "verify", where, compare, m - i)
  /\ \A i \in BlockCells : BlockStep(s.steps[6 + m + i], "restore", {i}, {}, Abort)
  /\ \A i \in BlockCells :
       BlockStep(s.steps[10 + m + i], "recheck", {i}, IF i = 4 THEN BlockCells ELSE {}, Abort)

\* A step of probe-multi-block reads or writes what its role says.
LEMMA BlockStepFits ==
  ASSUME NEW s, s.verdict = "credited", NEW k, NEW where, NEW compare, NEW fail,
         fail \in Nat \cup {Abort},
         NEW role \in {"backup", "test", "verify", "restore", "recheck"},
         BlockStep(s.steps[k], role, where, compare, fail)
  PROVE  StepFits(s, k)
<1>1. BlockCells \subseteq CliCells
  BY CliScriptsAssumption DEF BlockCells, CliCells
<1>2. /\ where \in SUBSET CliCells /\ s.steps[k].compare \in SUBSET CliCells
      /\ StepIs(s.steps[k], role, where)
      /\ s.steps[k].fail \in Nat \cup {Abort} /\ s.steps[k].differ \in Nat \cup {Abort}
      /\ role \notin {"verify", "recheck"} => s.steps[k].compare = {}
  BY <1>1 DEF BlockStep
<1> QED
  BY <1>2, FittingStep

\* Backups, a trial read, a test, its verifications, restores and rechecks of blocks have the form.
LEMMA BlocksAreDisciplined ==
  ASSUME NEW s, NEW m, BlockScript(s, m)
  PROVE  Disciplined(s)
<1> SUFFICES ASSUME NEW k \in 1..Len(s.steps)
             PROVE  /\ StepFits(s, k) /\ TestIsAnswered(s, k)
                    /\ FailureFits(s, k) /\ DifferenceFits(s, k) /\ GivingUpFits(s, k)
  BY DEF Disciplined
<1>1. m \in Nat /\ Len(s.steps) = 14 + m /\ s.verdict = "credited"
  BY DEF BlockScript
<1>2. BlockCells \subseteq CliCells /\ BlockCells = 1..4
  BY CliScriptsAssumption DEF BlockCells, CliCells
<1>3. ASSUME NEW i \in BlockCells
      PROVE  RoleAt(s, i, {"backup"}) /\ s.steps[i].at = {i}
  <2>1. BlockStep(s.steps[i], "backup", {i}, {}, Abort)
    BY DEF BlockScript
  <2>2. i \in 1..Len(s.steps)
    BY <1>1, <1>2
  <2> QED
    BY <2>1, <2>2 DEF BlockStep, StepIs, RoleAt
<1>4. /\ \A roles : RoleAt(s, 5, roles) => "recheck" \in roles
      /\ \A roles : RoleAt(s, 6, roles) <=> "test" \in roles
      /\ ~Strict(s, 5)
  BY <1>1 DEF BlockScript, BlockStep, StepIs, RoleAt, Strict, Abort
<1>5. \A i \in 7..(6 + m) : \A roles : RoleAt(s, i, roles) <=> "verify" \in roles
  <2> SUFFICES ASSUME NEW i \in 7..(6 + m), NEW roles
               PROVE  RoleAt(s, i, roles) <=> "verify" \in roles
    OBVIOUS
  <2>1. i - 6 \in 1..m /\ i = 6 + (i - 6) /\ i \in 1..Len(s.steps)
    BY <1>1
  <2>2. \E where, compare \in SUBSET BlockCells :
          BlockStep(s.steps[6 + (i - 6)], "verify", where, compare, m - (i - 6))
    BY <2>1 DEF BlockScript
  <2> QED
    BY <2>1, <2>2 DEF BlockStep, StepIs, RoleAt
<1>6. ASSUME NEW i \in BlockCells
      PROVE  /\ \A roles : RoleAt(s, 6 + m + i, roles) <=> "restore" \in roles
             /\ s.steps[6 + m + i].at = {i}
  <2>1. BlockStep(s.steps[6 + m + i], "restore", {i}, {}, Abort)
    BY DEF BlockScript
  <2>3. 6 + m + i \in 1..Len(s.steps)
    BY <1>1, <1>2
  <2>2. s.steps[6 + m + i].role = "restore" /\ s.steps[6 + m + i].at = {i}
    BY <2>1 DEF BlockStep, StepIs
  <2> QED
    BY <2>2, <2>3 DEF RoleAt
<1>7. ASSUME NEW i \in BlockCells
      PROVE  /\ Strict(s, 10 + m + i) /\ s.steps[10 + m + i].at = {i}
             /\ i = 4 => s.steps[10 + m + i].compare = BlockCells
  <2>1. BlockStep(s.steps[10 + m + i], "recheck", {i}, IF i = 4 THEN BlockCells ELSE {},
                  Abort)
    BY DEF BlockScript
  <2>3. 10 + m + i \in 1..Len(s.steps)
    BY <1>1, <1>2
  <2>2. /\ s.steps[10 + m + i].role = "recheck" /\ s.steps[10 + m + i].fail = Abort
        /\ s.steps[10 + m + i].differ = Abort /\ s.steps[10 + m + i].at = {i}
        /\ i = 4 => s.steps[10 + m + i].compare = BlockCells
    BY <2>1 DEF BlockStep, StepIs
  <2> QED
    BY <2>2, <2>3 DEF RoleAt, Strict
<1>8. s.steps[14 + m].compare = BlockCells
  <2>1. 4 \in BlockCells /\ 10 + m + 4 = 14 + m
    BY <1>1, <1>2
  <2>2. s.steps[10 + m + 4].compare = BlockCells
    BY <1>7, <2>1
  <2> QED
    BY <2>1, <2>2
<1>9. \A i \in 5..(14 + m) : BlockCells \subseteq Kept(s, i)
  <2> SUFFICES ASSUME NEW i \in 5..(14 + m), NEW c \in BlockCells
               PROVE  c \in Kept(s, i)
    OBVIOUS
  <2>1. c \in 1..(i - 1) /\ c \in CliCells
    BY <1>1, <1>2
  <2> QED
    BY <1>3, <2>1 DEF Kept
<1>10. \A i \in 1..(14 + m) : BlockCells \subseteq Rechecked(s, i)
  <2> SUFFICES ASSUME NEW i \in 1..(14 + m), NEW c \in BlockCells
               PROVE  c \in Rechecked(s, i)
    OBVIOUS
  <2>1. 10 + m + 4 = 14 + m /\ 4 \in BlockCells /\ 14 + m \in i..Len(s.steps)
    BY <1>1, <1>2
  <2>2. Strict(s, 14 + m) /\ c \in CliCells
    BY <1>2, <1>7, <2>1
  <2> QED
    BY <1>8, <2>1, <2>2 DEF Rechecked
<1>11. BlockCells \subseteq Reread(s, 14 + m + 1)
  <2> SUFFICES ASSUME NEW c \in BlockCells
               PROVE  c \in Reread(s, 14 + m + 1)
    OBVIOUS
  <2> DEFINE last == 14 + m + 1
             first == 10 + m + c
  <2>1. first \in 1..(last - 1) /\ c \in CliCells
    BY <1>1, <1>2
  <2>2. ASSUME NEW j \in first..(last - 1)
        PROVE  Strict(s, j)
    <3>1. j - (10 + m) \in BlockCells /\ j = 10 + m + (j - (10 + m))
      BY <1>1, <1>2
    <3> QED
      BY <1>7, <3>1
  <2>3. c \in s.steps[first].at
    BY <1>7
  <2> HIDE DEF first, last
  <2>4. c \in Reread(s, last)
    BY <2>1, <2>2, <2>3 DEF Reread
  <2> QED
    BY <2>4 DEF last
<1>12. BlockCells \subseteq Owed(s, 7)
  <2> SUFFICES ASSUME NEW c \in BlockCells
               PROVE  c \in Owed(s, 7)
    OBVIOUS
  <2>1. 6 + m + c \in 7..Len(s.steps) /\ c \in CliCells
    BY <1>1, <1>2
  <2>2. ASSUME NEW j \in 7..(6 + m + c)
        PROVE  RoleAt(s, j, {"verify", "restore"})
    <3>1. CASE j <= 6 + m
      BY <1>1, <1>5, <3>1
    <3>2. CASE j > 6 + m
      <4>1. j - (6 + m) \in BlockCells /\ j = 6 + m + (j - (6 + m))
        BY <1>1, <1>2, <3>2
      <4> QED
        BY <1>6, <4>1
    <3> QED
      BY <1>1, <3>1, <3>2
  <2>3. RoleAt(s, 6 + m + c, {"restore"}) /\ c \in s.steps[6 + m + c].at
    BY <1>6
  <2> QED
    BY <2>1, <2>2, <2>3 DEF Owed
<1>13. ~RoleAt(s, 7 + m, {"verify"}) /\ 7 + m <= Len(s.steps)
  <2>1. 7 + m = 6 + m + 1 /\ 1 \in BlockCells
    BY <1>1, <1>2
  <2> QED
    BY <1>1, <1>6, <2>1
<1>14. CASE k \in 1..4
  <2>1. BlockStep(s.steps[k], "backup", {k}, {}, Abort)
    BY <1>2, <1>14 DEF BlockScript
  <2>2. StepFits(s, k)
    BY <1>1, <2>1, BlockStepFits
  <2>3. s.steps[k].role = "backup" /\ s.steps[k].fail = Abort
    BY <2>1 DEF BlockStep, StepIs
  <2> QED
    BY <2>2, <2>3
       DEF TestIsAnswered, Strict, RoleAt, FailureFits, DifferenceFits, GivingUpFits
<1>15. CASE k = 5
  <2>1. PICK where \in SUBSET BlockCells : BlockStep(s.steps[k], "recheck", where, where, 0)
    BY <1>15 DEF BlockScript
  <2>2. StepFits(s, k)
    BY <1>1, <2>1, BlockStepFits
  <2>3. /\ s.steps[k].role = "recheck" /\ s.steps[k].fail = 0 /\ s.steps[k].differ = 0
        /\ s.steps[k].at \subseteq BlockCells
    BY <2>1 DEF BlockStep, StepIs
  <2>4. TestIsAnswered(s, k)
    BY <1>1, <1>4, <1>10, <1>15, <2>3 DEF TestIsAnswered
  <2>5. JumpFits(s, k, 0)
    BY <1>1, <1>4, <1>15 DEF JumpFits
  <2> QED
    BY <2>2, <2>3, <2>4, <2>5 DEF FailureFits, DifferenceFits, GivingUpFits, Abort
<1>16. CASE k = 6
  <2>1. PICK where \in SUBSET BlockCells : BlockStep(s.steps[k], "test", where, {}, m)
    BY <1>16 DEF BlockScript
  <2>2. StepFits(s, k)
    BY <1>1, <2>1, BlockStepFits
  <2>3. /\ s.steps[k].role = "test" /\ s.steps[k].fail = m /\ s.steps[k].at \subseteq BlockCells
    BY <2>1 DEF BlockStep, StepIs
  <2>4. s.steps[k].at \subseteq Owed(s, k + 1) /\ s.steps[k].at \subseteq Rechecked(s, k)
    BY <1>1, <1>10, <1>12, <1>16, <2>3
  <2>5. ~Strict(s, k)
    BY <1>4, <1>16 DEF Strict
  <2>6. TestIsAnswered(s, k)
    BY <2>3, <2>4, <2>5 DEF TestIsAnswered
  <2>7. JumpFits(s, k, m) /\ Verifying(s, k + 1, m - 1)
    <3>1. ASSUME NEW i \in k..(k + m)
          PROVE  ~RoleAt(s, i, {"backup"}) /\ ~Strict(s, i)
      <4>1. i = 6 \/ i \in 7..(6 + m)
        BY <1>1, <1>16
      <4> QED
        BY <1>4, <1>5, <4>1 DEF Strict
    <3>2. k + 1 + m = 7 + m
      BY <1>1, <1>16
    <3>3. \A i \in (k + 1)..(k + 1 + (m - 1)) : RoleAt(s, i, {"verify"})
      <4>1. \A i \in (k + 1)..(k + 1 + (m - 1)) : i \in 7..(6 + m)
        BY <1>1, <1>16
      <4> QED
        BY <1>5, <4>1
    <3> QED
      BY <1>1, <1>13, <3>1, <3>2, <3>3 DEF JumpFits, Verifying
  <2>8. m # Abort
    BY <1>1 DEF Abort
  <2> QED
    BY <2>2, <2>3, <2>6, <2>7, <2>8 DEF FailureFits, DifferenceFits, GivingUpFits
<1>17. CASE k \in 7..(6 + m)
  <2>1. k - 6 \in 1..m /\ k = 6 + (k - 6) /\ m - (k - 6) \in Nat /\ m - (k - 6) # Abort
    BY <1>1, <1>17 DEF Abort
  <2>2. PICK where \in SUBSET BlockCells, compare \in SUBSET BlockCells :
          BlockStep(s.steps[6 + (k - 6)], "verify", where, compare, m - (k - 6))
    BY <2>1 DEF BlockScript
  <2>3. BlockStep(s.steps[k], "verify", where, compare, m - (k - 6))
    BY <2>1, <2>2
  <2>4. StepFits(s, k)
    BY <1>1, <2>1, <2>3, BlockStepFits
  <2>5. /\ s.steps[k].role = "verify" /\ s.steps[k].fail = m - (k - 6)
        /\ s.steps[k].differ = m - (k - 6)
        /\ s.steps[k].at \subseteq BlockCells /\ s.steps[k].compare \subseteq BlockCells
    BY <2>3 DEF BlockStep, StepIs
  <2>6. RoleAt(s, k - 1, {"test", "verify"}) /\ ~Strict(s, k)
    <3>1. k - 1 = 6 \/ k - 1 \in 7..(6 + m)
      BY <1>1, <1>17
    <3> QED
      BY <1>4, <1>5, <1>17, <3>1 DEF Strict
  <2>7. s.steps[k].compare \subseteq Kept(s, k) /\ s.steps[k].at \subseteq Rechecked(s, k)
    BY <1>1, <1>9, <1>10, <1>17, <2>5
  <2>8. TestIsAnswered(s, k)
    BY <1>1, <2>5, <2>6, <2>7 DEF TestIsAnswered
  <2>9. JumpFits(s, k, m - (k - 6)) /\ Verifying(s, k, m - (k - 6))
    <3>1. \A i \in k..(k + (m - (k - 6))) : i \in 7..(6 + m)
      BY <1>1, <1>17
    <3>2. k + 1 + (m - (k - 6)) = 7 + m
      BY <1>1, <1>17
    <3>3. \A i \in k..(k + (m - (k - 6))) :
            ~RoleAt(s, i, {"backup"}) /\ ~Strict(s, i) /\ RoleAt(s, i, {"verify"})
      BY <1>5, <3>1 DEF Strict
    <3> QED
      BY <1>1, <1>13, <3>2, <3>3 DEF JumpFits, Verifying
  <2> QED
    BY <2>1, <2>4, <2>5, <2>8, <2>9 DEF FailureFits, DifferenceFits, GivingUpFits
<1>18. CASE k \in (7 + m)..(10 + m)
  <2>1. k - (6 + m) \in BlockCells /\ k = 6 + m + (k - (6 + m))
    BY <1>1, <1>2, <1>18
  <2>2. BlockStep(s.steps[6 + m + (k - (6 + m))], "restore", {k - (6 + m)}, {}, Abort)
    BY <2>1 DEF BlockScript
  <2>3. BlockStep(s.steps[k], "restore", {k - (6 + m)}, {}, Abort)
    BY <2>1, <2>2
  <2>4. StepFits(s, k)
    BY <1>1, <2>3, BlockStepFits
  <2>5. /\ s.steps[k].role = "restore" /\ s.steps[k].fail = Abort
        /\ s.steps[k].at \subseteq BlockCells
    BY <2>3 DEF BlockStep, StepIs
  <2>6. ~Strict(s, k)
    BY <2>5 DEF Strict, RoleAt
  <2>7. s.steps[k].at \subseteq Kept(s, k) /\ s.steps[k].at \subseteq Rechecked(s, k)
    BY <1>1, <1>9, <1>10, <1>18, <2>5
  <2>8. TestIsAnswered(s, k)
    BY <2>5, <2>6, <2>7 DEF TestIsAnswered
  <2> QED
    BY <2>4, <2>5, <2>8 DEF FailureFits, DifferenceFits, GivingUpFits
<1>19. CASE k \in (11 + m)..(14 + m)
  <2> DEFINE i == k - (10 + m)
             compared == IF i = 4 THEN BlockCells ELSE {}
  <2>1. i \in BlockCells /\ k = 10 + m + i
    BY <1>1, <1>2, <1>19
  <2>2. BlockStep(s.steps[k], "recheck", {i}, compared, Abort)
    <3>1. BlockStep(s.steps[10 + m + i], "recheck", {i}, compared, Abort)
      BY <2>1 DEF BlockScript
    <3> QED
      BY <2>1, <3>1
  <2>3. StepFits(s, k)
    BY <1>1, <2>2, BlockStepFits
  <2>4. /\ s.steps[k].role = "recheck" /\ s.steps[k].fail = Abort /\ s.steps[k].differ = Abort
        /\ s.steps[k].at \subseteq BlockCells /\ s.steps[k].compare = compared
    BY <2>2 DEF BlockStep, StepIs
  <2>5. compared \subseteq Reread(s, k + 1)
    <3>1. CASE i = 4
      BY <1>1, <1>11, <2>1, <3>1
    <3>2. CASE i # 4
      BY <3>2
    <3> QED
      BY <3>1, <3>2
  <2> HIDE DEF compared, i
  <2>6. s.steps[k].at \subseteq Rechecked(s, k)
    BY <1>1, <1>10, <1>19, <2>4
  <2>7. TestIsAnswered(s, k)
    BY <2>4, <2>5, <2>6 DEF TestIsAnswered
  <2> QED
    BY <2>3, <2>4, <2>7 DEF FailureFits, DifferenceFits, GivingUpFits
<1>20. k \in 1..4 \/ k = 5 \/ k = 6 \/ k \in 7..(6 + m) \/ k \in (7 + m)..(10 + m)
         \/ k \in (11 + m)..(14 + m)
  BY <1>1
<1> QED
  BY <1>14, <1>15, <1>16, <1>17, <1>18, <1>19, <1>20

\* The steps that concern one block.
LEMMA StepsOfBlocks ==
  ASSUME NEW c \in BlockCells, NEW compare \in SUBSET BlockCells, NEW n \in Nat, NEW credit
  PROVE  /\ BlockStep(Backup(ReadBlock(c), {c}), "backup", {c}, {}, Abort)
         /\ BlockStep(Restore(WriteBlock(c), {c}), "restore", {c}, {}, Abort)
         /\ BlockStep([Step(ReadBlock(c), "recheck", {c}) EXCEPT !.compare = compare],
                      "recheck", {c}, compare, Abort)
         /\ BlockStep([GoingOn([Step(ReadBlock(c), "verify", {c}) EXCEPT !.compare = compare],
                               n) EXCEPT !.credit = credit],
                      "verify", {c}, compare, n)
<1>1. /\ Requests["batch_read_words_group"] = "reads"
      /\ Requests["batch_write_words_group"] = "writes"
      /\ Requests["batch_read_bits_group"] = "reads"
      /\ Requests["batch_write_bits_group"] = "writes"
  BY KindOfRequest
<1>2. /\ Requests[ReadBlock(c)] = "reads" /\ Requests[WriteBlock(c)] = "writes"
      /\ ReadBlock(c) # "recover_c24" /\ WriteBlock(c) # "recover_c24"
  BY <1>1 DEF ReadBlock, WriteBlock
<1>3. {c} \subseteq BlockCells
  OBVIOUS
<1>4. BlockStep(Backup(ReadBlock(c), {c}), "backup", {c}, {}, Abort)
  BY <1>2, <1>3 DEF BlockStep, StepIs, Backup, Step
<1>5. BlockStep(Restore(WriteBlock(c), {c}), "restore", {c}, {}, Abort)
  BY <1>2, <1>3 DEF BlockStep, StepIs, Restore, Step
<1>6. BlockStep([Step(ReadBlock(c), "recheck", {c}) EXCEPT !.compare = compare],
                "recheck", {c}, compare, Abort)
  BY <1>2, <1>3 DEF BlockStep, StepIs, Step
<1>7. BlockStep([GoingOn([Step(ReadBlock(c), "verify", {c}) EXCEPT !.compare = compare], n)
                   EXCEPT !.credit = credit],
                "verify", {c}, compare, n)
  BY <1>2, <1>3 DEF BlockStep, StepIs, GoingOn, Step
<1> QED
  BY <1>4, <1>5, <1>6, <1>7

\* The steps that concern several blocks.
LEMMA StepsOfTrials ==
  ASSUME NEW where \in SUBSET BlockCells, NEW m \in Nat
  PROVE  /\ BlockStep(Trial("multi_block_read", where), "recheck", where, where, 0)
         /\ BlockStep(GoingOn(Test("multi_block_write", where, Flip), m), "test", where, {}, m)
<1>1. /\ Requests["multi_block_read"] = "reads" /\ Requests["multi_block_write"] = "writes"
  BY KindOfRequest
<1>2. BlockStep(Trial("multi_block_read", where), "recheck", where, where, 0)
  BY <1>1 DEF BlockStep, StepIs, Trial, Credited, GoingOn, Recheck, Step
<1>3. BlockStep(GoingOn(Test("multi_block_write", where, Flip), m), "test", where, {}, m)
  BY <1>1 DEF BlockStep, StepIs, GoingOn, Test, Step
<1> QED
  BY <1>2, <1>3

\* The two pairs of blocks, joined.
LEMMA TwoPairs == /\ <<1, 2>> \o <<>> = <<1, 2>> /\ <<>> \o <<3, 4>> = <<3, 4>>
                  /\ <<1, 2>> \o <<3, 4>> = <<1, 2, 3, 4>>
<1> DEFINE joined == <<1, 2>> \o <<3, 4>>
           all == <<1, 2, 3, 4>>
<1>1. <<1, 2>> \in Seq(Nat) /\ <<3, 4>> \in Seq(Nat)
  OBVIOUS
<1>2. <<1, 2>> \o <<>> = <<1, 2>> /\ <<>> \o <<3, 4>> = <<3, 4>>
  BY <1>1, ConcatEmptySeq
<1>3. joined \in Seq(Nat) /\ all \in Seq(Nat) /\ Len(joined) = 4 /\ Len(all) = 4
  OBVIOUS
<1>4. /\ joined[1] = all[1] /\ joined[2] = all[2]
      /\ joined[3] = all[3] /\ joined[4] = all[4]
  OBVIOUS
<1> HIDE DEF joined, all
<1>5. \A i \in 1..Len(joined) : joined[i] = all[i]
  BY <1>3, <1>4
<1>6. joined = all
  BY <1>3, <1>5, SeqEqual
<1> QED
  BY <1>2, <1>6 DEF joined, all

\* The blocks that are read back: both of a kind of which one was written.
LEMMA IncludedBlocks ==
  ASSUME NEW mode \in DOMAIN BlockModes
  PROVE  LET selected == Range(BlockModes[mode])
             included == (IF selected \cap {1, 2} # {} THEN <<1, 2>> ELSE <<>>) \o
                         (IF selected \cap {3, 4} # {} THEN <<3, 4>> ELSE <<>>)
         IN  /\ selected \in SUBSET BlockCells
             /\ included = <<1, 2>> \/ included = <<3, 4>> \/ included = <<1, 2, 3, 4>>
<1> DEFINE selected == Range(BlockModes[mode])
           included == (IF selected \cap {1, 2} # {} THEN <<1, 2>> ELSE <<>>) \o
                       (IF selected \cap {3, 4} # {} THEN <<3, 4>> ELSE <<>>)
<1>1. \/ selected = {1, 2, 3, 4} \/ selected = {1, 2} \/ selected = {3, 4}
      \/ selected = {1} \/ selected = {2} \/ selected = {3} \/ selected = {4}
  BY DEF BlockModes, Range
<1> HIDE DEF selected
<1>2. selected \in SUBSET BlockCells
  BY <1>1 DEF BlockCells
<1>3. included = <<1, 2>> \/ included = <<3, 4>> \/ included = <<1, 2, 3, 4>>
  <2>1. CASE selected \cap {1, 2} # {} /\ selected \cap {3, 4} = {}
    BY <2>1, TwoPairs
  <2>2. CASE selected \cap {1, 2} = {} /\ selected \cap {3, 4} # {}
    BY <2>2, TwoPairs
  <2>3. CASE selected \cap {1, 2} # {} /\ selected \cap {3, 4} # {}
    BY <2>3, TwoPairs
  <2>4. selected \cap {1, 2} # {} \/ selected \cap {3, 4} # {}
    BY <1>1
  <2> QED
    BY <2>1, <2>2, <2>3, <2>4
<1> QED
  BY <1>2, <1>3 DEF selected

\* Sequence c is a, of m elements, with b, of n elements, behind it.
Behind(c, a, b, S, m, n) ==
  /\ c \in Seq(S) /\ Len(c) = m + n
  /\ \A i \in 1..m : c[i] = a[i]
  /\ \A i \in 1..n : c[m + i] = b[i]

\* What a concatenation holds at each place.
LEMMA OneBehindTheOther ==
  ASSUME NEW S, NEW a \in Seq(S), NEW b \in Seq(S), NEW m \in Nat, NEW n \in Nat,
         Len(a) = m, Len(b) = n
  PROVE  Behind(a \o b, a, b, S, m, n)
<1>1. /\ a \o b \in Seq(S) /\ Len(a \o b) = m + n
      /\ \A i \in 1..(m + n) : (a \o b)[i] = IF i <= m THEN a[i] ELSE b[i - m]
  BY ConcatProperties
<1>2. ASSUME NEW i \in 1..n
      PROVE  (a \o b)[m + i] = b[i]
  <2>1. m + i \in 1..(m + n) /\ ~(m + i <= m) /\ m + i - m = i
    OBVIOUS
  <2> QED
    BY <1>1, <2>1
<1> QED
  BY <1>1, <1>2 DEF Behind

\* A function on 1..n is a sequence of length n.
LEMMA SequenceOfSteps ==
  ASSUME NEW S, NEW n \in Nat, NEW f \in [1..n -> S]
  PROVE  f \in Seq(S) /\ Len(f) = n
<1>1. f \in Seq(S)
  BY SeqDef
<1> QED
  BY <1>1, LenProperties

\* Where the steps of probe-multi-block are.
BlockPlaces(s, b, r, t, v, w, e, m) ==
  /\ Len(s) = 14 + m /\ s[5] = r /\ s[6] = t
  /\ \A i \in BlockCells : s[i] = b[i] /\ s[6 + m + i] = w[i] /\ s[10 + m + i] = e[i]
  /\ \A i \in 1..m : s[6 + i] = v[i]

\* Where the parts of the script of probe-multi-block come to stand.
LEMMA PlacesOfBlocks ==
  ASSUME NEW S, NEW b \in [BlockCells -> S], NEW r \in S, NEW t \in S, NEW m \in Nat,
         NEW v \in [1..m -> S], NEW w \in [BlockCells -> S], NEW e \in [BlockCells -> S]
  PROVE  BlockPlaces(b \o <<r>> \o (<<t>> \o v) \o w \o e, b, r, t, v, w, e, m)
<1> DEFINE x1 == b \o <<r>>
           x2 == <<t>> \o v
           x3 == x1 \o x2
           x4 == x3 \o w
           x5 == x4 \o e
<1>1. /\ b \in Seq(S) /\ w \in Seq(S) /\ e \in Seq(S) /\ v \in Seq(S)
      /\ Len(b) = 4 /\ Len(w) = 4 /\ Len(e) = 4 /\ Len(v) = m
  BY SequenceOfSteps DEF BlockCells
<1>2. /\ <<r>> \in Seq(S) /\ <<t>> \in Seq(S) /\ Len(<<r>>) = 1 /\ Len(<<t>>) = 1
      /\ <<r>>[1] = r /\ <<t>>[1] = t
  OBVIOUS
<1>8. SUFFICES BlockPlaces(x5, b, r, t, v, w, e, m)
  OBVIOUS
<1> HIDE DEF x3, x4, x5
<1>3. /\ x1 \in Seq(S) /\ Len(x1) = 5
      /\ \A i \in 1..4 : x1[i] = b[i]
      /\ \A i \in 1..1 : x1[4 + i] = <<r>>[i]
  <2>1. Behind(x1, b, <<r>>, S, 4, 1)
    BY <1>1, <1>2, OneBehindTheOther DEF x1
  <2>2. 4 + 1 = 5
    OBVIOUS
  <2> QED
    BY <2>1, <2>2 DEF Behind
<1> HIDE DEF x1
<1>4. /\ x2 \in Seq(S) /\ Len(x2) = 1 + m
      /\ \A i \in 1..1 : x2[i] = <<t>>[i]
      /\ \A i \in 1..m : x2[1 + i] = v[i]
  <2>1. Behind(x2, <<t>>, v, S, 1, m)
    BY <1>1, <1>2, OneBehindTheOther DEF x2
  <2> QED
    BY <2>1 DEF Behind
<1> HIDE DEF x2
<1>5. /\ x3 \in Seq(S) /\ Len(x3) = 6 + m
      /\ \A i \in 1..5 : x3[i] = x1[i]
      /\ \A i \in 1..(1 + m) : x3[5 + i] = x2[i]
  <2>1. Behind(x3, x1, x2, S, 5, 1 + m)
    <3>1. 5 \in Nat /\ 1 + m \in Nat
      OBVIOUS
    <3> QED
      BY <1>3, <1>4, <3>1, OneBehindTheOther, Zenon DEF x3
  <2>2. 5 + (1 + m) = 6 + m
    OBVIOUS
  <2> QED
    BY <2>1, <2>2 DEF Behind
<1> HIDE DEF x3
<1>6. /\ x4 \in Seq(S) /\ Len(x4) = 10 + m
      /\ \A i \in 1..(6 + m) : x4[i] = x3[i]
      /\ \A i \in 1..4 : x4[6 + m + i] = w[i]
  <2>1. Behind(x4, x3, w, S, 6 + m, 4)
    <3>1. 6 + m \in Nat /\ 4 \in Nat
      OBVIOUS
    <3> QED
      BY <1>1, <1>5, <3>1, OneBehindTheOther, Zenon DEF x4
  <2>2. 6 + m + 4 = 10 + m
    OBVIOUS
  <2> QED
    BY <2>1, <2>2 DEF Behind
<1> HIDE DEF x4
<1>7. /\ x5 \in Seq(S) /\ Len(x5) = 14 + m
      /\ \A i \in 1..(10 + m) : x5[i] = x4[i]
      /\ \A i \in 1..4 : x5[10 + m + i] = e[i]
  <2>1. Behind(x5, x4, e, S, 10 + m, 4)
    <3>1. 10 + m \in Nat /\ 4 \in Nat
      OBVIOUS
    <3> QED
      BY <1>1, <1>6, <3>1, OneBehindTheOther, Zenon DEF x5
  <2>2. 10 + m + 4 = 14 + m
    OBVIOUS
  <2> QED
    BY <2>1, <2>2 DEF Behind
<1> HIDE DEF x5
<1>9. ASSUME NEW i \in 1..(6 + m)
      PROVE  x5[i] = x3[i]
  BY <1>6, <1>7
<1>10. ASSUME NEW i \in BlockCells
       PROVE  /\ x5[i] = b[i] /\ x5[6 + m + i] = w[i] /\ x5[10 + m + i] = e[i]
  <2>1. i \in 1..4 /\ i \in 1..5 /\ i \in 1..(6 + m) /\ 6 + m + i \in 1..(10 + m)
    BY DEF BlockCells
  <2> QED
    BY <1>3, <1>5, <1>6, <1>7, <1>9, <2>1
<1>11. x5[5] = r /\ x5[6] = t
  <2>1. x1[4 + 1] = r /\ x2[1] = t /\ 4 + 1 = 5
    BY <1>2, <1>3, <1>4
  <2>2. x3[5] = x1[5] /\ x3[5 + 1] = x2[1] /\ 5 + 1 = 6
    BY <1>5
  <2>3. x5[5] = x3[5] /\ x5[6] = x3[6]
    BY <1>9
  <2>4. x3[6] = t
    BY <2>1, <2>2
  <2> QED
    BY <2>1, <2>2, <2>3, <2>4
<1>12. ASSUME NEW i \in 1..m
       PROVE  x5[6 + i] = v[i]
  <2>1. x3[5 + (1 + i)] = x2[1 + i] /\ 5 + (1 + i) = 6 + i
    BY <1>5
  <2> QED
    BY <1>4, <1>9, <2>1
<1> QED
  BY <1>7, <1>10, <1>11, <1>12 DEF BlockPlaces

\* The script of probe-multi-block, in every mode.
LEMMA MultiBlockScript ==
  ASSUME NEW mode \in DOMAIN BlockModes
  PROVE  \E m : BlockScript(ProbeMultiBlock(mode), m)
<1> DEFINE selected == Range(BlockModes[mode])
           included == (IF selected \cap {1, 2} # {} THEN <<1, 2>> ELSE <<>>) \o
                       (IF selected \cap {3, 4} # {} THEN <<3, 4>> ELSE <<>>)
           m == Len(included)
           s == ProbeMultiBlock(mode)
           b == [c \in BlockCells |-> Backup(ReadBlock(c), {c})]
           w == [c \in BlockCells |-> Restore(WriteBlock(c), {c})]
           compared(i) == IF i = 4 THEN BlockCells ELSE {}
           e == [c \in BlockCells |->
                   [Step(ReadBlock(c), "recheck", {c}) EXCEPT !.compare = compared(c)]]
           r == Trial("multi_block_read", selected)
           t == GoingOn(Test("multi_block_write", selected, Flip), m)
           last(i) == IF i = m THEN selected ELSE {}
           v == [i \in 1..m |->
                   [GoingOn([Step(ReadBlock(included[i]), "verify", {included[i]}) EXCEPT
                               !.compare = last(i)], m - i) EXCEPT !.credit = (i = m)]]
<1>1. /\ selected \in SUBSET BlockCells
      /\ included = <<1, 2>> \/ included = <<3, 4>> \/ included = <<1, 2, 3, 4>>
  BY IncludedBlocks
<1>2. BlocksBackup = b /\ BlocksRestore = w /\ BlocksReadTrial(mode) = <<r>>
  BY DEF BlocksBackup, BlocksRestore, BlocksReadTrial
<1>3. BlocksRecheck = e
  <2>1. DOMAIN <<1, 2, 3, 4>> = BlockCells /\ Len(<<1, 2, 3, 4>>) = 4
    BY DEF BlockCells
  <2>2. \A i \in BlockCells : <<1, 2, 3, 4>>[i] = i
    BY DEF BlockCells
  <2> QED
    BY <2>1, <2>2 DEF BlocksRecheck, ReadAndCompare
<1>4. BlocksWriteTrial(mode) = <<t>> \o v
  <2>1. DOMAIN included = 1..m
    BY <1>1
  <2> DEFINE verifies == ReadAndCompare("verify", included, selected)
  <2>2. verifies = [i \in 1..m |-> [Step(ReadBlock(included[i]), "verify", {included[i]})
                                     EXCEPT !.compare = last(i)]]
    BY <2>1 DEF ReadAndCompare
  <2>3. BlocksWriteTrial(mode) =
          <<t>> \o [i \in DOMAIN verifies |->
                     [GoingOn(verifies[i], m - i) EXCEPT !.credit = (i = m)]]
    BY DEF BlocksWriteTrial
  <2>4. [i \in DOMAIN verifies |->
           [GoingOn(verifies[i], m - i) EXCEPT !.credit = (i = m)]] = v
    <3> HIDE DEF included, m
    <3> QED
      BY <2>2
  <2> QED
    BY <2>3, <2>4
<1>5. m \in {2, 4} /\ \A i \in 1..m : included[i] \in BlockCells
  BY <1>1 DEF BlockCells
<1>6. /\ s.verdict = "credited"
      /\ s.steps = b \o <<r>> \o (<<t>> \o v) \o w \o e
  BY <1>2, <1>3, <1>4 DEF ProbeMultiBlock, Script
<1>7. ASSUME NEW c \in BlockCells
      PROVE  /\ BlockStep(b[c], "backup", {c}, {}, Abort)
             /\ BlockStep(w[c], "restore", {c}, {}, Abort)
             /\ BlockStep(e[c], "recheck", {c}, compared(c), Abort)
  <2>1. compared(c) \in SUBSET BlockCells
    OBVIOUS
  <2> HIDE DEF compared
  <2> QED
    BY <2>1, StepsOfBlocks
<1>8. BlockStep(r, "recheck", selected, selected, 0) /\ BlockStep(t, "test", selected, {}, m)
  BY <1>1, <1>5, StepsOfTrials
<1>9. ASSUME NEW i \in 1..m
      PROVE  BlockStep(v[i], "verify", {included[i]}, last(i), m - i)
  <2>1. last(i) \in SUBSET BlockCells /\ m - i \in Nat /\ included[i] \in BlockCells
    BY <1>1, <1>5
  <2> HIDE DEF last, included, m
  <2> QED
    BY <2>1, StepsOfBlocks
<1> HIDE DEF b, w, e, r, t, v, m, s, included, selected
<1> DEFINE S == {b[c] : c \in BlockCells} \cup {w[c] : c \in BlockCells} \cup
                {e[c] : c \in BlockCells} \cup {v[i] : i \in 1..m} \cup {r, t}
<1>10. /\ b \in [BlockCells -> S] /\ w \in [BlockCells -> S] /\ e \in [BlockCells -> S]
       /\ v \in [1..m -> S] /\ r \in S /\ t \in S /\ m \in Nat
  <2>1. /\ b = [c \in BlockCells |-> b[c]] /\ w = [c \in BlockCells |-> w[c]]
        /\ e = [c \in BlockCells |-> e[c]] /\ v = [i \in 1..m |-> v[i]]
    BY DEF b, w, e, v
  <2> QED
    BY <1>5, <2>1
<1> HIDE DEF S
<1>13. /\ Len(s.steps) = 14 + m /\ s.steps[5] = r /\ s.steps[6] = t
       /\ \A i \in BlockCells : /\ s.steps[i] = b[i] /\ s.steps[6 + m + i] = w[i]
                                /\ s.steps[10 + m + i] = e[i]
       /\ \A i \in 1..m : s.steps[6 + i] = v[i]
  <2>1. BlockPlaces(b \o <<r>> \o (<<t>> \o v) \o w \o e, b, r, t, v, w, e, m)
    BY <1>10, PlacesOfBlocks
  <2>2. BlockPlaces(s.steps, b, r, t, v, w, e, m)
    BY <1>6, <2>1, Zenon
  <2> QED
    BY <2>2 DEF BlockPlaces
<1>14. ASSUME NEW i \in 1..m
       PROVE  \E where, compare \in SUBSET BlockCells :
                BlockStep(s.steps[6 + i], "verify", where, compare, m - i)
  <2>1. {included[i]} \in SUBSET BlockCells /\ last(i) \in SUBSET BlockCells
    BY <1>1, <1>5
  <2> HIDE DEF last
  <2> QED
    BY <1>9, <1>13, <2>1
<1>15. /\ \E where \in SUBSET BlockCells : BlockStep(s.steps[5], "recheck", where, where, 0)
       /\ \E where \in SUBSET BlockCells : BlockStep(s.steps[6], "test", where, {}, m)
  BY <1>1, <1>8, <1>13
<1>16. ASSUME NEW i \in BlockCells
       PROVE  /\ BlockStep(s.steps[i], "backup", {i}, {}, Abort)
              /\ BlockStep(s.steps[6 + m + i], "restore", {i}, {}, Abort)
              /\ BlockStep(s.steps[10 + m + i], "recheck", {i},
                           IF i = 4 THEN BlockCells ELSE {}, Abort)
  BY <1>7, <1>13
<1>17. BlockScript(s, m)
  BY <1>6, <1>10, <1>13, <1>14, <1>15, <1>16 DEF BlockScript
<1> QED
  BY <1>17 DEF s

\* The scripts of the write probes have the form that the invariant rests on.
LEMMA ProbesAreDisciplined ==
  ASSUME NEW c \in WriteProbes
  PROVE  Disciplined(ScriptOf(c))
<1>1. ScriptOf(c) \in {ProbeWriteAll, ProbeWriteHostBuffer, ProbeWriteModuleBuffer}
      => Disciplined(ScriptOf(c))
  <2>1. Len(Targets) \in Nat /\ 1 \in Nat
    BY CliScriptsAssumption, LenProperties
  <2> QED
    BY <2>1, WriteAllScript, WriteHostBufferScript, WriteModuleBufferScript,
       TargetsAreDisciplined
<1>2. ScriptOf(c) \in {ProbeRandomWriteWords, ProbeRandomWriteBits}
      => Disciplined(ScriptOf(c))
  BY RandomWriteWordsScript, RandomWriteBitsScript, TrialsAreDisciplined
<1>3. ASSUME NEW mode \in DOMAIN BlockModes
      PROVE  Disciplined(ProbeMultiBlock(mode))
  BY MultiBlockScript, BlocksAreDisciplined
<1>4. c \in DOMAIN BlockModes \/ c \in {"probe_write_all", "probe_random_write_words",
                                        "probe_random_write_bits", "probe_write_host_buffer",
                                        "probe_write_module_buffer"}
  BY DEF WriteProbes
<1>5. c \in DOMAIN BlockModes => ScriptOf(c) = ProbeMultiBlock(c)
  BY ProbeScripts DEF BlockModes
<1>6. c \notin DOMAIN BlockModes =>
        ScriptOf(c) \in {ProbeWriteAll, ProbeWriteHostBuffer, ProbeWriteModuleBuffer,
                         ProbeRandomWriteWords, ProbeRandomWriteBits}
  BY <1>4, ProbeScripts
<1> QED
  BY <1>1, <1>2, <1>3, <1>5, <1>6

\* How the exit code of a probe is decided.
LEMMA ProbesHaveVerdicts ==
  ASSUME CliInvariant, Probing
  PROVE  VerdictFits
<1>1. script = ScriptOf(command) /\ command \in WriteProbes
  BY DEF CliInvariant, Probing
<1>2. /\ ProbeWriteAll.verdict = "no_failure" /\ ProbeWriteModuleBuffer.verdict = "finished"
      /\ ProbeRandomWriteWords.verdict = "credited" /\ ProbeRandomWriteBits.verdict = "credited"
      /\ \A mode : ProbeMultiBlock(mode).verdict = "credited"
  BY DEF ProbeWriteAll, ProbeWriteModuleBuffer, ProbeRandomWriteWords, ProbeRandomWriteBits,
         ProbeMultiBlock, Script
<1>3. command \in RestoringProbes => script.verdict = "credited"
  BY <1>1, <1>2, ProbeScripts DEF RestoringProbes, BlockModes
<1>4. command # "probe_write_host_buffer" => script.verdict # "first_credit"
  BY <1>1, <1>2, ProbeScripts DEF WriteProbes, BlockModes
<1> QED
  BY <1>3, <1>4 DEF VerdictFits

\* The inductive invariant of the write probes, for every number of devices and probed
\* targets and whatever the devices hold: what a probe has overwritten it has backed up and
\* still has to restore, and what it has restored it will read again; a test write whose fate
\* is unknown counts as done wherever the client, with a block number, may send on.
THEOREM ProbeInvariantCorrect == CliSpec => []ProbeInvariant
<1>1. CliInvariant /\ ProbeInvariant /\ [CliNext]_vars => ProbeInvariant'
  <2> SUFFICES ASSUME CliInvariant, ProbeInvariant, [CliNext]_vars
               PROVE  ProbeInvariant'
    OBVIOUS
  <2>1. Probing => Disciplined(script) /\ VerdictFits
    BY ProbesAreDisciplined, ProbesHaveVerdicts DEF CliInvariant, Probing
  <2> QED
    BY <2>1, ProbeInvariantStep
<1> QED
  BY <1>1, CliInvariantCorrect, ProbeInvariantInit, PTL DEF CliSpec

\* A write probe that exits with 0 has restored every device (probe-write-all,
\* probe-random-write-*, probe-write-*-buffer and probe-multi-block), however many targets it
\* tried, whichever of its requests failed and whatever the PLC program wrote in between;
\* but for the words of probe-write-host-buffer whose test write was not understood while a
\* block number let the client send on.
THEOREM CleanExitRestoresHolds == CliSpec => []CleanExitRestores
<1>1. ProbeInvariant => CleanExitRestores
  BY DEF ProbeInvariant, CleanExitRestores
<1> QED
  BY <1>1, ProbeInvariantCorrect, PTL

\* However a random-write or multi-block probe ends, the devices are as they were, as long as
\* the client can still send, no restoring write failed and the PLC program left them alone,
\* also when the answer to a test write was garbled and a block number let the client send on.
THEOREM ProbeLeavesNoTraceHolds == CliSpec => []ProbeLeavesNoTrace
<1>1. ProbeInvariant => ProbeLeavesNoTrace
  BY DEF ProbeInvariant, ProbeLeavesNoTrace, Probing, RestoringProbes, WriteProbes
<1> QED
  BY <1>1, ProbeInvariantCorrect, PTL
=============================================================================
