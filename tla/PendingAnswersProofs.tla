------------------------ MODULE PendingAnswersProofs ------------------------
(***************************************************************************)
(* Every value of an answer arrives where the program asked for it, for    *)
(* every set of item lists, buffers and devices and every capacity.        *)
(***************************************************************************)
EXTENDS PendingAnswers, FiniteSetTheorems, TLAPS

Items == Seq([device : Devices, second : BOOLEAN])

LEMMA SeqFacts ==
  ASSUME NEW items \in Items
  PROVE  /\ Len(items) \in Nat /\ DOMAIN items = 1..Len(items)
         /\ \A i \in 1..Len(items) : items[i].device \in Devices /\ items[i].second \in BOOLEAN
<1> DEFINE Item == [device : Devices, second : BOOLEAN]
<1>1. items \in Seq(Item) BY DEF Items
<1> HIDE DEF Item
<1>2. Len(items) \in Nat /\ DOMAIN items = 1..Len(items) /\ \A i \in 1..Len(items) : items[i] \in Item
  BY <1>1
<1>3. \A item \in Item : item.device \in Devices /\ item.second \in BOOLEAN BY DEF Item
<1> QED BY <1>2, <1>3

\* The parser's cursor and the encoder agree on where an item is.
LEMMA ParsedAsEncoded ==
  ASSUME NEW items \in Items, NEW i \in DOMAIN items
  PROVE  ParsedAt(items, i) = EncodedAt(items, i) /\ ParsedAt(items, i) <= Len(items)
<1> DEFINE n == Len(items)
           before == {j \in DOMAIN items : PutBefore(items, j, i)}
           group == {j \in 1..i : items[j].second = items[i].second}
           firsts == {j \in DOMAIN items : ~items[j].second}
<1>1. n \in Nat /\ DOMAIN items = 1..n /\ \A j \in 1..n : items[j].second \in BOOLEAN
  BY SeqFacts
<1>2. IsFiniteSet(1..n) /\ Cardinality(1..n) = n
  <2>1. IsFiniteSet(1..n) /\ Cardinality(1..n) = (IF 1 > n THEN 0 ELSE n - 1 + 1)
    BY <1>1, FS_Interval
  <2> QED BY <1>1, <2>1
<1>3. before \subseteq 1..n /\ group \subseteq 1..n /\ firsts \subseteq 1..n
  BY <1>1
<1>4. /\ IsFiniteSet(before) /\ IsFiniteSet(group) /\ IsFiniteSet(firsts)
      /\ Cardinality(before) <= n
  BY <1>2, <1>3, FS_Subset
<1> DEFINE second(j) == items[j].second
<1>0. i \in 1..n /\ \A j \in 1..n : (second(j) = second(i)) <=> (second(j) <=> second(i))
  BY <1>1
<1>a. \A j \in 1..n : PutBefore(items, j, i) <=>
        (~second(j) /\ second(i)) \/ ((second(j) <=> second(i)) /\ j <= i)
  BY <1>0 DEF PutBefore
<1>b. \A j : j \in group <=> j \in 1..i /\ (second(j) <=> second(i))
  BY <1>0, <1>1
<1>c. \A j : j \in before <=> j \in 1..n /\
        ((~second(j) /\ second(i)) \/ ((second(j) <=> second(i)) /\ j <= i))
  BY <1>1, <1>a
<1>d. \A j : j \in firsts <=> j \in 1..n /\ ~second(j)
  BY <1>1
<1>5. CASE ~items[i].second
  <2>1. before = group
    <3>1. \A j : j \in before <=> j \in group BY <1>0, <1>1, <1>5, <1>b, <1>c
    <3> QED BY ONLY <3>1
  <2> QED BY <1>4, <1>5, <2>1 DEF ParsedAt, EncodedAt
<1>6. CASE items[i].second
  <2>1. before = firsts \union group
    <3>1. \A j : j \in before <=> j \in firsts \/ j \in group
      <4>1. second(i) BY <1>6
      <4> HIDE DEF before, group, firsts, second
      <4> QED BY <1>0, <1>1, <1>b, <1>c, <1>d, <4>1
    <3> QED BY ONLY <3>1
  <2>2. firsts \intersect group = {} BY <1>1, <1>6, <1>b
  <2>3. Cardinality(before) = Cardinality(firsts) + Cardinality(group)
    <3> HIDE DEF before, group, firsts
    <3>1. Cardinality(firsts \union group)
            = Cardinality(firsts) + Cardinality(group) - Cardinality(firsts \intersect group)
      BY <1>4, FS_Union
    <3>2. Cardinality(firsts) \in Nat /\ Cardinality(group) \in Nat
      BY <1>4, FS_CardinalityType
    <3>3. Cardinality(firsts \intersect group) = 0 BY ONLY <2>2, FS_EmptySet
    <3>4. Cardinality(firsts \union group) = Cardinality(firsts) + Cardinality(group)
      BY ONLY <3>1, <3>2, <3>3
    <3> QED BY ONLY <2>1, <3>4
  <2> QED BY <1>4, <1>6, <2>3 DEF ParsedAt, EncodedAt
<1> QED BY <1>5, <1>6, <1>1

LEMMA ListFacts ==
  ASSUME NEW items \in Lists
  PROVE  /\ items \in Items /\ items # <<>>
         /\ DOMAIN items = 1..Len(items) /\ DOMAIN items \subseteq Cells
         /\ \A i \in DOMAIN items : items[i].device \in Devices /\ items[i].second \in BOOLEAN
<1>1. items \in Items /\ Len(items) \in 1..MaxItems
  BY AnswersAssumption DEF AnswersAssumption, Items
<1>2. items # <<>> BY <1>1
<1> QED BY <1>1, <1>2, SeqFacts, AnswersAssumption DEF AnswersAssumption, Cells

\* Where the data of a kind is kept and put.
LEMMA KindFacts ==
  ASSUME NEW kind \in AllKinds
  PROVE  /\ kind \notin MonitorReads \union PlainWrites => Keeps(kind) \in Members
         /\ \A b \in BOOLEAN : SpanOf(kind, b) \in Spans
BY DEF AllKinds, Keeps, Members, Copies, SpanOf, Spans, MonitorReads, PlainWrites, Registrations,
       Promise!Reads, Promise!MonitorReads, Promise!Registrations

\* What the program asks is typed.
LEMMA RequestFacts ==
  ASSUME NEW r \in Requests
  PROVE  /\ r.kind \in AllKinds /\ r.kind # "None" /\ r.items \in Lists \union {<<>>}
         /\ r.kind \in Promise!Reads => r.storage \in Storages /\ r.storage # NoStorage
         /\ r.kind \notin Promise!Reads => r.storage = NoStorage
         /\ r.kind \notin PlainWrites => r.items \in Lists
<1>1. r.kind \in AllKinds /\ r.items \in Lists \union {<<>>} /\ r.storage \in Storages \union {NoStorage}
  BY AnswersAssumption DEF AnswersAssumption, Requests
<1>2. "None" \notin AllKinds
  BY DEF AllKinds, PlainWrites, Registrations, Promise!Reads, Promise!MonitorReads,
         Promise!Registrations
<1>3. r.kind \in Promise!Reads => r.storage # NoStorage BY DEF Requests
<1>4. r.kind \notin Promise!Reads => r.storage = NoStorage BY DEF Requests
<1>5. r.kind \notin PlainWrites => r.items # <<>> BY DEF Requests
<1> QED BY <1>1, <1>2, <1>3, <1>4, <1>5

LEMMA KindsApart ==
  /\ Registrations \intersect Promise!Reads = {} /\ MonitorReads \subseteq Promise!Reads
  /\ PlainWrites \intersect (Promise!Reads \union Registrations) = {}
  /\ "ExtendedBatchWriteWords" \notin Promise!Reads \union Registrations
  /\ \A kind : Promise!ListOf(kind) \in Registrations
  /\ "None" \notin AllKinds
BY DEF AllKinds, PlainWrites, Registrations, MonitorReads, Promise!Reads, Promise!MonitorReads,
       Promise!Registrations, Promise!ListOf

LEMMA AnswersInitInvariant == AnswersInit => AnswersInvariant
BY DEF AnswersInit, AnswersInvariant, TypeOK, FlightIsRemembered, MonitorListsMatch, NoSpans,
       Promise!NoRequest, Idle, Registrations, Promise!Registrations

\* A refused request leaves types alone, and there is nothing in flight to forget.
LEMMA RefusedKeeps ==
  ASSUME AnswersInvariant, NEW r \in Requests, EncodeFails(r) \/ StartRefused(r)
  PROVE  AnswersInvariant'
<1>1. Keep(r) \in [Members -> Lists \union {<<>>}]
  BY RequestFacts DEF AnswersInvariant, TypeOK, Keep
<1>2. \A k \in [Members -> Lists \union {<<>>}] :
        ClearOutputs(k) \in [Members -> Lists \union {<<>>}]
        /\ ClearCopies(k) \in [Members -> Lists \union {<<>>}]
  BY DEF ClearOutputs, ClearCopies
<1>3. Point(r) \in [Spans -> Storages \union {NoStorage}]
  BY RequestFacts DEF AnswersInvariant, TypeOK, Point
<1>4. NoSpans \in [Spans -> Storages \union {NoStorage}] BY DEF NoSpans
<1>5. kept' \in [Members -> Lists \union {<<>>}] /\ spans' \in [Spans -> Storages \union {NoStorage}]
  <2>1. CASE EncodeFails(r)
    BY <1>1, <1>2, <1>4, <2>1 DEF EncodeFails, AnswersInvariant, TypeOK
  <2>2. CASE StartRefused(r) BY <1>1, <1>3, <2>2 DEF StartRefused
  <2> QED BY <2>1, <2>2
<1>6. UNCHANGED <<operation, monitors, sent, plc_lists, memory, asked, outcome>> /\ Idle
  BY DEF EncodeFails, StartRefused
<1>7. TypeOK' BY <1>5, <1>6 DEF AnswersInvariant, TypeOK
<1>8. FlightIsRemembered' BY <1>6 DEF AnswersInvariant, FlightIsRemembered, Idle
<1>9. MonitorListsMatch' BY <1>6 DEF AnswersInvariant, MonitorListsMatch
<1> QED BY <1>7, <1>8, <1>9 DEF AnswersInvariant

\* The request that starts is the request that is remembered.
LEMMA StartedKeeps ==
  ASSUME AnswersInvariant, NEW r \in Requests, Started(r)
  PROVE  AnswersInvariant'
<1> USE DEF AnswersInvariant
<1>0. /\ operation' = r.kind /\ asked' = r /\ kept' = Keep(r) /\ spans' = Point(r)
      /\ sent' \in Frames(r.items) /\ UNCHANGED plc_lists
      /\ monitors' = [m \in Registrations |-> IF m = r.kind THEN <<>> ELSE monitors[m]]
  BY DEF Started
<1>1. TypeOK'
  <2>1. kept' \in [Members -> Lists \union {<<>>}] BY <1>0, RequestFacts DEF TypeOK, Keep
  <2>2. spans' \in [Spans -> Storages \union {NoStorage}]
    BY <1>0, RequestFacts DEF TypeOK, Point
  <2>3. monitors' \in [Registrations -> Lists \union {<<>>}] BY <1>0 DEF TypeOK
  <2>4. memory' \in [Storages -> [Cells -> Devices \union {NoValue, Terminator}]]
    BY DEF Started
  <2> QED BY <1>0, <2>1, <2>2, <2>3, <2>4 DEF TypeOK
<1>2. FlightIsRemembered'
  <2>1. ~Idle' BY <1>0, RequestFacts DEF Idle
  <2>2. r \in Requests'
    <3>1. r.kind \in MonitorReads => monitors'[Promise!ListOf(r.kind)] = monitors[Promise!ListOf(r.kind)]
      BY <1>0, KindsApart
    <3> QED BY <3>1 DEF Requests
  <2>3. Keeps(r.kind) \in Members => kept'[Keeps(r.kind)] = r.items
    BY <1>0 DEF Keep
  <2>4. r.kind \in Promise!Reads => \A b \in BOOLEAN : spans'[SpanOf(r.kind, b)] = r.storage
    BY <1>0, KindFacts, RequestFacts DEF Point
  <2> QED BY <1>0, <2>1, <2>2, <2>3, <2>4 DEF FlightIsRemembered
<1>3. MonitorListsMatch'
  BY <1>0 DEF MonitorListsMatch
<1> QED BY <1>1, <1>2, <1>3

\* Completing forgets the request; what the action adds keeps its type and the lists.
LEMMA CompletesKeeps ==
  ASSUME AnswersInvariant, NEW code, Completes(code),
         memory' \in [Storages -> [Cells -> Devices \union {NoValue, Terminator}]],
         monitors' \in [Registrations -> Lists \union {<<>>}], DOMAIN plc_lists' = Registrations,
         \A m \in Registrations : monitors'[m] # <<>> => plc_lists'[m] \in Frames(monitors'[m])
  PROVE  AnswersInvariant'
<1>1. TypeOK'
  BY DEF Completes, AnswersInvariant, TypeOK, ClearCopies, ClearOutputs, NoSpans
<1>2. FlightIsRemembered' BY DEF Completes, FlightIsRemembered, Idle, Promise!NoRequest
<1>3. MonitorListsMatch'
  BY KindsApart, "None" \notin Registrations
     DEF Completes, MonitorListsMatch, Registrations, Promise!Registrations
<1> QED BY <1>1, <1>2, <1>3 DEF AnswersInvariant

\* What the parser goes by is what the program asked, and what it is given is in its order.
LEMMA FlightFacts ==
  ASSUME AnswersInvariant, operation \in Promise!Reads
  PROVE  /\ asked \in Requests /\ asked.kind = operation /\ asked.items \in Lists
         /\ asked.storage \in Storages
         /\ ParsedList = asked.items /\ AnswerValues \in Frames(asked.items)
         /\ \A b \in BOOLEAN : spans[SpanOf(operation, b)] = asked.storage
<1>1. ~Idle BY KindsApart DEF Idle, AllKinds
<1>2. asked \in Requests /\ asked.kind = operation /\ sent \in Frames(asked.items)
  BY <1>1 DEF AnswersInvariant, FlightIsRemembered
<1>3. asked.items \in Lists /\ asked.storage \in Storages
  BY <1>2, RequestFacts, KindsApart
<1>4. operation \in AllKinds BY <1>2, RequestFacts
<1>5. CASE operation \in MonitorReads
  <2>1. asked.items = monitors[Promise!ListOf(operation)] BY <1>2, <1>5 DEF Requests
  <2>2. asked.items # <<>> BY <1>3, ListFacts
  <2>3. plc_lists[Promise!ListOf(operation)] \in Frames(asked.items)
    BY <2>1, <2>2, KindsApart DEF AnswersInvariant, MonitorListsMatch
  <2> QED BY <1>1, <1>2, <1>3, <1>5, <2>1, <2>3
          DEF AnswersInvariant, FlightIsRemembered, ParsedList, AnswerValues
<1>6. CASE operation \notin MonitorReads
  <2>1. Keeps(operation) \in Members BY <1>4, <1>6, KindFacts, KindsApart
  <2> QED BY <1>1, <1>2, <1>3, <1>6, <2>1
          DEF AnswersInvariant, FlightIsRemembered, ParsedList, AnswerValues
<1> QED BY <1>5, <1>6

\* The values the parser has taken are in the cells of their items, and nowhere else.
LEMMA ParsedFacts ==
  ASSUME AnswersInvariant, operation \in Promise!Reads, NEW n, memory' = Parsed(n)
  PROVE  /\ memory' \in [Storages -> [Cells -> Devices \union {NoValue, Terminator}]]
         /\ \A s \in Storages \ {asked.storage} : memory'[s] = memory[s]
         /\ \A c \in Cells \ DOMAIN asked.items :
              memory'[asked.storage][c] = memory[asked.storage][c]
         /\ n = Len(asked.items) =>
              \A c \in DOMAIN asked.items : memory'[asked.storage][c] = asked.items[c].device
<1> DEFINE items == asked.items
           Value(s, c) == IF c \in DOMAIN items /\ ParsedAt(items, c) <= n /\ asked.storage = s
                          THEN items[c].device ELSE memory[s][c]
<1>1. /\ items \in Lists /\ items \in Items /\ asked.storage \in Storages
      /\ DOMAIN items \subseteq Cells
      /\ \A c \in DOMAIN items : items[c].device \in Devices /\ items[c].second \in BOOLEAN
  BY FlightFacts, ListFacts
<1>2. \A c \in DOMAIN items : AnswerValues[ParsedAt(items, c)] = items[c].device
  BY <1>1, FlightFacts, ParsedAsEncoded DEF Frames
<1>3. \A c \in DOMAIN items : spans[SpanOf(operation, items[c].second)] = asked.storage
  BY <1>1, FlightFacts
<1>4. memory' = [s \in Storages |-> [c \in Cells |-> Value(s, c)]]
  <2>1. \A s \in Storages, c \in Cells :
          (IF /\ c \in DOMAIN items /\ ParsedAt(items, c) <= n
              /\ spans[SpanOf(operation, items[c].second)] = s
           THEN AnswerValues[ParsedAt(items, c)] ELSE memory[s][c]) = Value(s, c)
    BY <1>2, <1>3
  <2> HIDE DEF Value
  <2> QED BY <2>1, FlightFacts DEF Parsed
<1>5. memory \in [Storages -> [Cells -> Devices \union {NoValue, Terminator}]]
  BY DEF AnswersInvariant, TypeOK
<1>6. \A s \in Storages, c \in Cells : Value(s, c) \in Devices \union {NoValue, Terminator}
  BY <1>1, <1>5
<1>7. \A s \in Storages \ {asked.storage} : memory'[s] = memory[s]
  BY <1>4, <1>5
<1>8. n = Len(items) => \A c \in DOMAIN items : ParsedAt(items, c) <= n
  BY <1>1, ParsedAsEncoded
<1>9. \A c \in Cells : memory'[asked.storage][c] = Value(asked.storage, c)
  BY <1>1, <1>4
<1>10. memory' \in [Storages -> [Cells -> Devices \union {NoValue, Terminator}]]
  <2> HIDE DEF Value
  <2> QED BY <1>4, <1>6
<1> QED BY <1>1, <1>7, <1>8, <1>9, <1>10

\* The echo goes to the buffer of the request, and is Ok only as the text sent.
LEMMA EchoFacts ==
  ASSUME AnswersInvariant, NEW echo \in Echoes, LoopbackAnswered(echo)
  PROVE  /\ memory' \in [Storages -> [Cells -> Devices \union {NoValue, Terminator}]]
         /\ \A s \in Storages \ {asked.storage} : memory'[s] = memory[s]
         /\ \/ Completes("Failed")
            \/ /\ Completes("Ok")
               /\ \A c \in DOMAIN asked.items : memory'[asked.storage][c] = asked.items[c].device
<1> DEFINE echoed(c) == IF c \in DOMAIN echo THEN echo[c]
                        ELSE IF c = Len(echo) + 1 THEN Terminator
                        ELSE memory[asked.storage][c]
           matches == \A c \in DOMAIN asked.items : echoed(c) = asked.items[c].device
<1>1. operation = "Loopback" /\ operation \in Promise!Reads
  BY DEF LoopbackAnswered, Promise!Reads
<1>2. spans["out_chars"] = asked.storage /\ ParsedList = asked.items
  BY <1>1, FlightFacts DEF SpanOf
<1>3. /\ memory' = [s \in Storages |->
           IF s = asked.storage THEN [c \in Cells |-> echoed(c)] ELSE memory[s]]
      /\ Completes(IF matches THEN "Ok" ELSE "Failed")
  BY <1>2 DEF LoopbackAnswered
<1>4. memory \in [Storages -> [Cells -> Devices \union {NoValue, Terminator}]]
  BY DEF AnswersInvariant, TypeOK
<1>5. asked.storage \in Storages /\ asked.items \in Lists /\ DOMAIN asked.items \subseteq Cells
  BY <1>1, FlightFacts, ListFacts
<1>6. \A c \in DOMAIN echo : echo[c] \in Devices BY DEF Echoes
<1>7. \A c \in Cells : echoed(c) \in Devices \union {NoValue, Terminator}
  BY <1>4, <1>5, <1>6
<1> HIDE DEF echoed
<1>8. memory' \in [Storages -> [Cells -> Devices \union {NoValue, Terminator}]]
  BY <1>3, <1>4, <1>7
<1>9. \A c \in DOMAIN asked.items : memory'[asked.storage][c] = echoed(c)
  BY <1>3, <1>5
<1> QED BY <1>3, <1>5, <1>8, <1>9

LEMMA AnswerKeeps ==
  ASSUME AnswersInvariant,
         \/ ReadAnswered \/ ReadGarbled \/ RegistrationAnswered \/ WriteAnswered
         \/ EndsWithoutAnswer \/ \E echo \in Echoes : LoopbackAnswered(echo)
  PROVE  AnswersInvariant'
<1> DEFINE Typed == memory' \in [Storages -> [Cells -> Devices \union {NoValue, Terminator}]]
<1>0. /\ memory \in [Storages -> [Cells -> Devices \union {NoValue, Terminator}]]
      /\ monitors \in [Registrations -> Lists \union {<<>>}]
      /\ DOMAIN plc_lists = Registrations
      /\ \A m \in Registrations : monitors[m] # <<>> => plc_lists[m] \in Frames(monitors[m])
  BY DEF AnswersInvariant, TypeOK, MonitorListsMatch
<1>1. ASSUME NEW code, Completes(code), Typed, UNCHANGED <<monitors, plc_lists>>
      PROVE  AnswersInvariant'
  BY <1>0, <1>1, CompletesKeeps
<1>2. CASE ReadAnswered
  <2>1. Typed BY <1>2, ParsedFacts DEF ReadAnswered
  <2> QED BY <1>1, <1>2, <2>1 DEF ReadAnswered
<1>3. CASE ReadGarbled
  <2>1. Typed BY <1>0, <1>3, ParsedFacts DEF ReadGarbled
  <2> QED BY <1>1, <1>3, <2>1 DEF ReadGarbled
<1>4. CASE \E echo \in Echoes : LoopbackAnswered(echo)
  <2>1. PICK echo \in Echoes : LoopbackAnswered(echo) BY <1>4
  <2>2. Typed /\ (Completes("Failed") \/ Completes("Ok")) BY <2>1, EchoFacts
  <2>3. UNCHANGED <<monitors, plc_lists>> BY <2>1 DEF LoopbackAnswered
  <2> HIDE DEF Typed
  <2> QED BY <1>1, <2>2, <2>3
<1>5. CASE RegistrationAnswered
  <2>1. ~Idle /\ operation \in AllKinds /\ operation \notin MonitorReads \union PlainWrites
    BY <1>5, KindsApart DEF RegistrationAnswered, Idle, AllKinds
  <2>2. /\ asked \in Requests /\ asked.kind = operation /\ sent \in Frames(asked.items)
        /\ kept[Keeps(operation)] = asked.items
    BY <2>1, KindFacts DEF AnswersInvariant, FlightIsRemembered
  <2>3. asked.items \in Lists BY <2>1, <2>2, RequestFacts
  <2>4. /\ operation \in Registrations
        /\ monitors' = [monitors EXCEPT ![operation] = asked.items]
        /\ plc_lists' = [plc_lists EXCEPT ![operation] = sent]
        /\ Completes("Ok") /\ UNCHANGED memory
    BY <1>5, <2>2 DEF RegistrationAnswered
  <2>5. monitors' \in [Registrations -> Lists \union {<<>>}] BY <1>0, <2>3, <2>4
  <2>6. DOMAIN plc_lists' = Registrations BY <1>0, <2>4
  <2>7. \A m \in Registrations : monitors'[m] # <<>> => plc_lists'[m] \in Frames(monitors'[m])
    BY <1>0, <2>2, <2>4
  <2> QED BY <1>0, <2>4, <2>5, <2>6, <2>7, CompletesKeeps
<1>6. CASE WriteAnswered BY <1>0, <1>1, <1>6 DEF WriteAnswered
<1>7. CASE EndsWithoutAnswer
  <2>1. DOMAIN plc_lists' = Registrations BY <1>0, <1>7 DEF EndsWithoutAnswer
  <2>2. \A m \in Registrations : monitors'[m] # <<>> => plc_lists'[m] \in Frames(monitors'[m])
    BY <1>0, <1>7 DEF EndsWithoutAnswer, AnswersInvariant, MonitorListsMatch
  <2>3. UNCHANGED <<memory, monitors>> /\ Completes("Failed") BY <1>7 DEF EndsWithoutAnswer
  <2> QED BY <1>0, <2>1, <2>2, <2>3, CompletesKeeps
<1> QED BY <1>2, <1>3, <1>4, <1>5, <1>6, <1>7

LEMMA ConfigureKeeps == ASSUME AnswersInvariant, Configure PROVE AnswersInvariant'
<1>1. TypeOK' BY DEF AnswersInvariant, TypeOK, Configure
<1>2. FlightIsRemembered'
  BY DEF AnswersInvariant, FlightIsRemembered, Configure, Idle
<1>3. MonitorListsMatch' BY DEF AnswersInvariant, MonitorListsMatch, Configure
<1> QED BY <1>1, <1>2, <1>3 DEF AnswersInvariant

\* What the client keeps is what the program asked, whatever was refused before.
THEOREM AnswersInvariantCorrect == AnswersSpec => []AnswersInvariant
<1>1. AnswersInvariant /\ [AnswersNext]_answersVars => AnswersInvariant'
  <2> SUFFICES ASSUME AnswersInvariant, [AnswersNext]_answersVars PROVE AnswersInvariant'
    OBVIOUS
  <2>1. CASE UNCHANGED answersVars
    BY <2>1 DEF answersVars, AnswersInvariant, TypeOK, FlightIsRemembered, MonitorListsMatch,
               Requests, Idle
  <2>2. CASE \E r \in Requests : EncodeFails(r) \/ StartRefused(r) \/ Started(r)
    BY <2>2, RefusedKeeps, StartedKeeps
  <2> QED BY <2>1, <2>2, AnswerKeeps, ConfigureKeeps DEF AnswersNext
<1> QED BY <1>1, AnswersInitInvariant, PTL DEF AnswersSpec

Refined == [Promise!DeliveryNext]_(Promise!deliveryVars)

\* A request starts as it was asked.
LEMMA StartRefines ==
  ASSUME AnswersInvariant, NEW r \in Requests, Started(r) PROVE Promise!Ask
<1>1. asked.kind = "None" BY DEF Started, Idle, AnswersInvariant, FlightIsRemembered
<1>2. asked' = r /\ r.kind # "None" /\ outcome' = "none" BY RequestFacts DEF Started
<1>3. r.kind \in MonitorReads => r.items = monitors[Promise!ListOf(r.kind)]
  BY DEF Requests
<1>4. r.kind \in Promise!Reads => r.storage \in Storages BY RequestFacts
<1>5. /\ memory' = [s \in Storages |-> [c \in Cells |-> NoValue]]
      /\ monitors' = [m \in Promise!Registrations |-> IF m = r.kind THEN <<>> ELSE monitors[m]]
  BY DEF Started, Registrations
<1> QED BY <1>1, <1>2, <1>3, <1>4, <1>5 DEF Promise!Ask, MonitorReads

\* An answered read delivers every value, and a garbled one touches its own buffer at most.
LEMMA ReadRefines ==
  ASSUME AnswersInvariant, ReadAnswered \/ ReadGarbled PROVE Promise!Deliver \/ Promise!Fail
<1>0. operation \in Promise!Reads /\ operation # "Loopback" BY DEF ReadAnswered, ReadGarbled
<1>1. asked.kind = operation /\ asked.kind # "None" /\ ParsedList = asked.items
  BY <1>0, FlightFacts, RequestFacts
<1>2. UNCHANGED monitors BY DEF ReadAnswered, ReadGarbled
<1>3. CASE ReadAnswered
  <2>1. Promise!Delivered /\ Promise!OthersUntouched /\ Promise!BeyondUntouched
    BY <1>0, <1>1, <1>3, ParsedFacts
       DEF ReadAnswered, Promise!Delivered, Promise!OthersUntouched, Promise!BeyondUntouched
  <2>2. Promise!Ends("Ok") BY <1>3 DEF ReadAnswered, Completes, Promise!Ends
  <2> QED BY <1>0, <1>1, <1>2, <2>1, <2>2 DEF Promise!Deliver
<1>4. CASE ReadGarbled
  <2>1. Promise!OthersUntouched /\ Promise!BeyondUntouched
    BY <1>0, <1>1, <1>4, ParsedFacts
       DEF ReadGarbled, Promise!OthersUntouched, Promise!BeyondUntouched
  <2>2. Promise!Ends("Failed") BY <1>4 DEF ReadGarbled, Completes, Promise!Ends
  <2> QED BY <1>1, <1>2, <2>1, <2>2 DEF Promise!Fail
<1> QED BY <1>3, <1>4

LEMMA EchoRefines ==
  ASSUME AnswersInvariant, NEW echo \in Echoes, LoopbackAnswered(echo)
  PROVE  Promise!Deliver \/ Promise!Fail
<1>1. operation = "Loopback" /\ operation \in Promise!Reads /\ UNCHANGED monitors
  BY DEF LoopbackAnswered, Promise!Reads
<1>2. asked.kind = "Loopback" BY <1>1, FlightFacts
<1>3. Promise!OthersUntouched /\ Promise!BeyondUntouched
  BY <1>2, EchoFacts DEF Promise!OthersUntouched, Promise!BeyondUntouched
<1>4. CASE Completes("Failed")
  BY <1>1, <1>2, <1>3, <1>4 DEF Completes, Promise!Ends, Promise!Fail
<1>5. CASE Completes("Ok") /\ Promise!Delivered
  BY <1>1, <1>2, <1>3, <1>5 DEF Completes, Promise!Ends, Promise!Deliver
<1> QED BY <1>4, <1>5, EchoFacts DEF Promise!Delivered

\* An answer without data confirms, and only a registration leaves a list.
LEMMA ConfirmRefines ==
  ASSUME AnswersInvariant, RegistrationAnswered \/ WriteAnswered PROVE Promise!Confirm
<1>0. /\ operation \in Registrations \union PlainWrites \union {"ExtendedBatchWriteWords"}
      /\ operation \notin Promise!Reads /\ ~Idle /\ operation \in AllKinds
  BY KindsApart DEF RegistrationAnswered, WriteAnswered, Idle, AllKinds
<1>1. asked \in Requests /\ asked.kind = operation /\ asked.kind # "None"
  BY <1>0, RequestFacts DEF AnswersInvariant, FlightIsRemembered
<1>2. UNCHANGED memory /\ Completes("Ok") BY DEF RegistrationAnswered, WriteAnswered
<1>3. monitors \in [Registrations -> Lists \union {<<>>}] BY DEF AnswersInvariant, TypeOK
<1>4. monitors' = [m \in Registrations |-> IF m = asked.kind THEN asked.items ELSE monitors[m]]
  <2>1. CASE RegistrationAnswered
    <3>1. operation \in Registrations /\ operation \notin MonitorReads \union PlainWrites
      BY <2>1, KindsApart DEF RegistrationAnswered
    <3>2. kept[Keeps(operation)] = asked.items
      BY <1>0, <3>1, KindFacts DEF AnswersInvariant, FlightIsRemembered
    <3> QED BY <1>1, <1>3, <2>1, <3>2 DEF RegistrationAnswered
  <2>2. CASE WriteAnswered
    <3>1. operation \notin Registrations BY <2>2, KindsApart DEF WriteAnswered
    <3> QED BY <1>1, <1>3, <2>2, <3>1 DEF WriteAnswered
  <2> QED BY <2>1, <2>2
<1> QED BY <1>0, <1>1, <1>2, <1>4 DEF Promise!Confirm, Promise!Ends, Completes, Registrations

LEMMA EndRefines == ASSUME AnswersInvariant, EndsWithoutAnswer PROVE Promise!Fail
<1>1. ~Idle /\ UNCHANGED <<memory, monitors>> /\ Completes("Failed") BY DEF EndsWithoutAnswer
<1>2. asked.kind # "None" BY <1>1, RequestFacts DEF AnswersInvariant, FlightIsRemembered
<1> QED BY <1>1, <1>2 DEF Promise!Fail, Promise!OthersUntouched, Promise!BeyondUntouched,
           Promise!Ends, Completes

\* Every value of an answer arrives in the cell of the item it was asked for, in the buffer of
\* that request, and nothing else is written, whatever earlier requests left in the client.
THEOREM AnswersAreDelivered == AnswersSpec => DeliversAnswers
<1>1. AnswersInit => Promise!DeliveryInit
  BY DEF AnswersInit, Promise!DeliveryInit, Registrations
<1>2. AnswersInvariant /\ [AnswersNext]_answersVars => Refined
  <2> SUFFICES ASSUME AnswersInvariant, [AnswersNext]_answersVars PROVE Refined
    OBVIOUS
  <2> USE DEF Refined, Promise!DeliveryNext
  <2>1. CASE UNCHANGED answersVars BY <2>1 DEF answersVars, Promise!deliveryVars
  <2>2. CASE \E r \in Requests : EncodeFails(r) \/ StartRefused(r)
    BY <2>2 DEF EncodeFails, StartRefused, Promise!deliveryVars
  <2>3. CASE \E r \in Requests : Started(r) BY <2>3, StartRefines
  <2>4. CASE Configure
    BY <2>4 DEF Configure, Idle, AnswersInvariant, FlightIsRemembered, Promise!Reconfigure,
                Registrations
  <2> QED BY <2>1, <2>2, <2>3, <2>4, ReadRefines, EchoRefines, ConfirmRefines, EndRefines
          DEF AnswersNext
<1> QED BY <1>1, <1>2, AnswersInvariantCorrect, PTL
        DEF AnswersSpec, DeliversAnswers, Promise!DeliverySpec, Refined
=============================================================================
