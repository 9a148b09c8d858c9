--------------------- MODULE FrameCodecProofs ---------------------
(***************************************************************************)
(* Theorems about the response frames, the scanner that finds them, and    *)
(* the sizes of frames.                                                    *)
(*                                                                         *)
(* Stuffing and unstuffing are recursive functions of a frame's length.    *)
(* Facts about them are proved by induction all the same: from the well-   *)
(* foundedness of < a least counterexample exists, and lemma Climb says    *)
(* so for sets of numbers.                                                 *)
(***************************************************************************)
EXTENDS ResponseScanner, FrameSizes, WellFoundedInduction, SequenceTheorems, TLAPS

Below == {pair \in Nat \X Nat : pair[1] < pair[2]}

LEMMA LeastExists ==
  ASSUME NEW T, T \subseteq Nat, T # {}
  PROVE  \E x \in T : \A y \in T : x <= y
<1>1. IsWellFoundedOn(Below, Nat)
  BY NatLessThanWellFounded DEF OpToRel, Below
<1>2. PICK x \in T : \A y \in T : ~(<<y, x>> \in Below)
  BY <1>1, WFMin
<1>3. ASSUME NEW y \in T PROVE x <= y
  <2>1. x \in Nat /\ y \in Nat
    OBVIOUS
  <2>2. <<y, x>> \in Nat \X Nat /\ <<y, x>>[1] = y /\ <<y, x>>[2] = x
    BY <2>1
  <2>3. ~(y < x)
    BY <1>2, <2>2 DEF Below
  <2> QED BY <2>1, <2>3
<1> QED BY <1>3

\* Induction from a to b: what is true of a, and of n + 1 with n, is true of each.
LEMMA Climb ==
  ASSUME NEW a \in Nat, NEW b \in Nat, NEW S,
         a \in S, \A n \in a..(b - 1) : n \in S => n + 1 \in S
  PROVE  \A n \in a..b : n \in S
<1> SUFFICES ASSUME (a..b) \ S # {} PROVE FALSE
  OBVIOUS
<1>1. PICK x \in (a..b) \ S : \A y \in (a..b) \ S : x <= y
  BY LeastExists, (a..b) \ S \subseteq Nat
<1>2. x # a /\ x - 1 \in a..(b - 1) /\ (x - 1) + 1 = x
  BY <1>1
<1>3. x - 1 \in S
  BY <1>1, <1>2
<1> QED BY <1>1, <1>2, <1>3

Opened == [end |-> "open", escape |-> FALSE, payload |-> <<>>, size |-> 2]

Reads(bytes, read, k) ==
  read = [n \in 2..k |-> IF n = 2 THEN Opened ELSE Unstuff(read[n - 1], bytes[n])]

LEMMA ReadExists ==
  ASSUME NEW bytes, NEW k \in Nat, k >= 2
  PROVE  \E read : Reads(bytes, read, k)
<1> DEFINE S == {n \in Nat : \E read : Reads(bytes, read, n)}
<1>1. 2 \in S
  <2> DEFINE r == [n \in 2..2 |-> Opened]
  <2>1. Reads(bytes, r, 2)
    BY DEF Reads
  <2> QED BY <2>1
<1>2. ASSUME NEW n \in 2..(k - 1), n \in S PROVE n + 1 \in S
  <2>1. PICK r : Reads(bytes, r, n)
    BY <1>2
  <2> DEFINE s == [i \in 2..(n + 1) |-> IF i <= n THEN r[i] ELSE Unstuff(r[n], bytes[i])]
  <2>2. ASSUME NEW i \in 2..(n + 1)
        PROVE  s[i] = IF i = 2 THEN Opened ELSE Unstuff(s[i - 1], bytes[i])
    <3>1. CASE i <= n
      BY <2>1, <3>1 DEF Reads
    <3>2. CASE i = n + 1
      BY <3>2
    <3> QED BY <3>1, <3>2
  <2>3. Reads(bytes, s, n + 1)
    BY <2>2 DEF Reads
  <2> QED BY <2>3
<1> HIDE DEF S
<1>3. k \in S
  BY <1>1, <1>2, Climb
<1> QED BY <1>3 DEF S

LEMMA ReadSteps ==
  ASSUME NEW bytes, NEW k \in Nat, k >= 2, NEW read, Reads(bytes, read, k)
  PROVE  /\ read[2] = Opened
         /\ \A n \in 2..(k - 1) : read[n + 1] = Unstuff(read[n], bytes[n + 1])
<1>1. read[2] = Opened
  BY DEF Reads
<1>2. ASSUME NEW n \in 2..(k - 1)
      PROVE  read[n + 1] = Unstuff(read[n], bytes[n + 1])
  <2>1. n + 1 \in 2..k /\ n + 1 # 2 /\ (n + 1) - 1 = n
    OBVIOUS
  <2> QED BY <2>1 DEF Reads
<1> QED BY <1>1, <1>2

LEMMA TextReads ==
  ASSUME NEW bytes, NEW k \in Nat, Len(bytes) = k, k >= 2
  PROVE  \E read : Reads(bytes, read, k) /\ Text(bytes) = read[k]
<1>1. \E read : Reads(bytes, read, k)
  BY ReadExists
<1> DEFINE read == CHOOSE read : Reads(bytes, read, k)
<1>2. Reads(bytes, read, k)
  BY <1>1
<1>3. Text(bytes) = read[k]
  BY DEF Text, Reads, Opened
<1> QED BY <1>2, <1>3
-----------------------------------------------------------------------------
Read(end, escape, payload, size) ==
  [end |-> end, escape |-> escape, payload |-> payload, size |-> size]

Texts(S, n) ==
  [end : {"open", "tail", "bad"}, escape : BOOLEAN, payload : Seq(S), size : 2..n]

LEMMA UnstuffType ==
  ASSUME NEW S, NEW n \in Nat, NEW text \in Texts(S, n), NEW byte \in S
  PROVE  Unstuff(text, byte) \in Texts(S, n + 1)
<1>1. /\ text.end \in {"open", "tail", "bad"} /\ text.escape \in BOOLEAN
      /\ text.payload \in Seq(S)
      /\ text.size \in 2..(n + 1) /\ text.size + 1 \in 2..(n + 1)
  BY DEF Texts
<1>2. Append(text.payload, byte) \in Seq(S)
  BY <1>1
<1>3. text = Read(text.end, text.escape, text.payload, text.size)
  BY DEF Texts, Read
<1>4. \A end \in {"open", "tail", "bad"}, escape \in BOOLEAN, payload \in Seq(S),
         size \in 2..(n + 1) : Read(end, escape, payload, size) \in Texts(S, n + 1)
  BY DEF Texts, Read
<1>5. CASE text.end # "open"
  BY <1>1, <1>3, <1>4, <1>5 DEF Unstuff
<1>6. CASE text.end = "open" /\ ~text.escape /\ byte = DLE
  <2>1. Unstuff(text, byte) = Read(text.end, TRUE, text.payload, text.size + 1)
    BY <1>3, <1>6 DEF Unstuff, Read
  <2> QED BY <1>1, <1>4, <2>1
<1>7. CASE text.end = "open" /\ text.escape /\ byte # DLE
  <2>1. CASE byte = ETX
    <3>1. Unstuff(text, byte) = Read("tail", text.escape, text.payload, text.size + 1)
      BY <1>1, <1>3, <1>7, <2>1 DEF Unstuff, Read
    <3> QED BY <1>1, <1>4, <3>1
  <2>2. CASE byte # ETX
    <3>1. Unstuff(text, byte) = Read("bad", text.escape, text.payload, text.size)
      BY <1>1, <1>3, <1>7, <2>2 DEF Unstuff, Read
    <3> QED BY <1>1, <1>4, <3>1
  <2> QED BY <2>1, <2>2
<1>8. CASE text.end = "open" /\ (text.escape <=> byte = DLE)
  <2>1. Unstuff(text, byte) = Read("open", FALSE, Append(text.payload, byte), text.size + 1)
    BY <1>1, <1>3, <1>8 DEF Unstuff, Read
  <2> QED BY <1>1, <1>2, <1>4, <2>1
<1> QED BY <1>1, <1>5, <1>6, <1>7, <1>8

\* However many bytes are read, none is counted that is not there.
LEMMA TextType ==
  ASSUME NEW S, NEW bytes \in Seq(S), Len(bytes) >= 2
  PROVE  Text(bytes) \in Texts(S, Len(bytes))
<1> DEFINE k == Len(bytes)
<1>1. PICK read : Reads(bytes, read, k) /\ Text(bytes) = read[k]
  BY TextReads
<1> DEFINE T == {n \in Nat : read[n] \in Texts(S, n)}
<1>2. 2 \in T
  <2>1. Opened \in Texts(S, 2)
    BY DEF Opened, Texts
  <2> QED BY <1>1, <2>1, ReadSteps
<1>3. ASSUME NEW n \in 2..(k - 1), n \in T PROVE n + 1 \in T
  <2>1. read[n + 1] = Unstuff(read[n], bytes[n + 1]) /\ bytes[n + 1] \in S
    BY <1>1, ReadSteps
  <2> QED BY <1>3, <2>1, UnstuffType
<1> HIDE DEF T
<1>4. k \in T
  BY <1>2, <1>3, Climb, k \in Nat, 2 \in Nat, k \in 2..k
<1> QED BY <1>1, <1>4 DEF T

-----------------------------------------------------------------------------
Configs == [format : Formats, sum_check : BOOLEAN]

Has(result, status, reply, consumed, foreign) ==
  /\ result.status = status /\ result.reply = reply
  /\ result.consumed = consumed /\ result.foreign = foreign

LEMMA IncompleteHas ==
  /\ DOMAIN Incomplete = {"status", "reply", "consumed", "foreign"}
  /\ Has(Incomplete, "Incomplete", Success(<<>>), 0, FALSE)
  BY DEF Incomplete, Has

LEMMA MalformedHas == \A n : Has(Malformed(n), "Error", Success(<<>>), n, FALSE)
  BY IncompleteHas DEF Malformed, Has

LEMMA CompleteHas == \A reply, n : Has(Complete(reply, n), "Complete", reply, n, FALSE)
  BY IncompleteHas DEF Complete, Has

LEMMA Sizes ==
  ASSUME NEW c \in Configs
  PROVE  /\ PrefixSize(c) \in {2, 3} /\ SumSize(c) \in {0, 2}
         /\ Len(Terminator(c)) \in {0, 2}
  BY DEF PrefixSize, SumSize, Terminator, CRLF

LEMMA EtxFromIs ==
  ASSUME NEW S, NEW bytes \in Seq(S), NEW first \in Nat \ {0}
  PROVE  \/ EtxFrom(bytes, first) = 0 /\ \A i \in first..Len(bytes) : bytes[i] # ETX
         \/ /\ EtxFrom(bytes, first) \in first..Len(bytes)
            /\ bytes[EtxFrom(bytes, first)] = ETX
            /\ \A i \in first..Len(bytes) : bytes[i] = ETX => EtxFrom(bytes, first) <= i
<1> DEFINE found == {i \in first .. Len(bytes) : bytes[i] = ETX}
<1>1. CASE found = {}
  BY <1>1 DEF EtxFrom
<1>2. CASE found # {}
  <2>1. \E x \in found : \A y \in found : x <= y
    BY <1>2, LeastExists, found \subseteq Nat
  <2>2. EtxFrom(bytes, first) = CHOOSE x \in found : \A y \in found : x <= y
    BY <1>2 DEF EtxFrom, Min
  <2> QED BY <2>1, <2>2
<1> QED BY <1>1, <1>2

\* A result that counts no more bytes than there are.
Within(result, bytes) == result.consumed \in 0..Len(bytes)

LEMMA AckIsThere ==
  ASSUME NEW c \in Configs, NEW S, NEW bytes \in Seq(S)
  PROVE  Within(DecodeAck(c, bytes), bytes)
  BY IncompleteHas, MalformedHas, CompleteHas, Sizes DEF Within, Has, DecodeAck

LEMMA NakIsThere ==
  ASSUME NEW c \in Configs, NEW S, NEW bytes \in Seq(S)
  PROVE  Within(DecodeNak(c, bytes), bytes)
<1> DEFINE size == PrefixSize(c)
           at == IF Len(bytes) > size /\ bytes[size + 1] = ErrorEndCode
                 THEN size + 2 ELSE size + 1
           total == at + Len(Terminator(c))
<1>1. total \in Nat
  BY Sizes
<1>2. \/ DecodeNak(c, bytes) = Incomplete
      \/ Len(bytes) >= total /\ DecodeNak(c, bytes) = Complete(PlcError(bytes[at]), total)
      \/ Len(bytes) >= total /\ DecodeNak(c, bytes) = Malformed(total)
  BY <1>1 DEF DecodeNak
<1> HIDE DEF total
<1> QED BY <1>1, <1>2, IncompleteHas, MalformedHas, CompleteHas DEF Within, Has

LEMMA DataIsThere ==
  ASSUME NEW c \in Configs, NEW S, NEW bytes \in Seq(S)
  PROVE  Within(DecodeData(c, bytes), bytes)
<1> DEFINE etx == EtxFrom(bytes, PrefixSize(c) + 1)
           total == etx + SumSize(c) + Len(Terminator(c))
<1>1. etx \in Nat
  BY EtxFromIs, Sizes
<1>2. Within(DecodeDataTo(c, bytes, etx, total), bytes)
  BY <1>1, IncompleteHas, MalformedHas, CompleteHas, Sizes DEF Within, Has, DecodeDataTo
<1> QED BY <1>2 DEF DecodeData

LEMMA Format3IsThere ==
  ASSUME NEW c \in Configs, NEW S, NEW bytes \in Seq(S)
  PROVE  Within(DecodeFormat3(c, bytes), bytes)
<1> DEFINE first == PrefixSize(c) + 2
           etx == EtxFrom(bytes, first)
           sum == IF etx = first THEN 0 ELSE SumSize(c)
<1>1. etx \in 0..Len(bytes) /\ sum \in {0, 2}
  BY EtxFromIs, Sizes
<1>2. ASSUME NEW end_code, NEW content
      PROVE  Within(DecodeFormat3To(c, bytes, end_code, content, etx, sum), bytes)
  BY <1>1, IncompleteHas, MalformedHas, CompleteHas DEF Within, Has, DecodeFormat3To
<1> HIDE DEF etx, sum
<1>3. Within(Incomplete, bytes)
  BY IncompleteHas, MalformedHas, CompleteHas DEF Within, Has
<1> QED BY <1>2, <1>3 DEF DecodeFormat3, etx, sum

LEMMA Format5IsThere ==
  ASSUME NEW c \in Configs, NEW S, NEW bytes \in Seq(S), bytes # <<>>
  PROVE  Within(DecodeFormat5(c, bytes), bytes)
<1>1. CASE Len(bytes) < 4 \/ bytes[2] # STX
  <2>1. DecodeFormat5(c, bytes) \in {Incomplete, Malformed(1)}
    BY <1>1 DEF DecodeFormat5
  <2>2. /\ Len(bytes) \in Nat \ {0}
        /\ Incomplete.consumed = 0 /\ Malformed(1).consumed = 1
    BY IncompleteHas, MalformedHas, EmptySeq DEF Has
  <2> QED BY <2>1, <2>2 DEF Within
<1>2. CASE Len(bytes) >= 4 /\ bytes[2] = STX
  <2> DEFINE text == Text(bytes)
             total == text.size + SumSize(c)
  <2>1. text.size \in 2..Len(bytes) /\ total \in Nat
    BY <1>2, TextType, Sizes DEF Texts
  <2>2. DecodeFormat5(c, bytes) = DecodeText(c, bytes, text, total)
    BY <1>2 DEF DecodeFormat5
  <2> HIDE DEF text, total
  <2>3. PayloadReply(text.payload, total).consumed = total
    BY IncompleteHas, MalformedHas, CompleteHas DEF PayloadReply, Has
  <2>4. Within(DecodeText(c, bytes, text, total), bytes)
    <3>1. \/ DecodeText(c, bytes, text, total) \in {Incomplete, Malformed(text.size)}
          \/ /\ Len(bytes) >= total
             /\ DecodeText(c, bytes, text, total)
                  \in {Malformed(total), PayloadReply(text.payload, total)}
      BY <2>1 DEF DecodeText
    <3>2. /\ Incomplete.consumed = 0 /\ Malformed(text.size).consumed = text.size
          /\ Malformed(total).consumed = total
      BY IncompleteHas, MalformedHas, CompleteHas DEF Has
    <3> QED BY <2>1, <2>3, <3>1, <3>2 DEF Within
  <2> QED BY <2>2, <2>4
<1> QED BY <1>1, <1>2

\* No decoded frame is longer than the bytes it was found in.
LEMMA DecodedIsThere ==
  ASSUME NEW c \in Configs, NEW S, NEW bytes \in Seq(S), bytes # <<>>
  PROVE  Within(Decode(c, bytes), bytes)
<1>1. Within(DecodeAsciiBody(c, bytes), bytes) \/ Len(bytes) < PrefixSize(c)
  BY AckIsThere, NakIsThere, DataIsThere, Format3IsThere, IncompleteHas, MalformedHas, CompleteHas, Sizes
     DEF DecodeAsciiBody, Within, Has
<1>2. Within(DecodeAscii(c, bytes), bytes)
  <2>1. Within(Incomplete, bytes) /\ (Len(bytes) >= 2 => Within(Malformed(2), bytes))
    BY IncompleteHas, MalformedHas, CompleteHas DEF Within, Has
  <2>2. ASSUME NEW result, NEW foreign, Within(result, bytes)
        PROVE  Within([result EXCEPT !.foreign = foreign], bytes)
    BY <2>2 DEF Within
  <2> QED BY <1>1, <2>1, <2>2, Sizes DEF DecodeAscii
<1> QED BY <1>2, Format5IsThere DEF Decode

-----------------------------------------------------------------------------
(* Sequences of whatever bytes.                                            *)

IsSeq(s) == \E S : s \in Seq(S)

LEMMA Concatenated ==
  ASSUME NEW s, NEW t, IsSeq(s), IsSeq(t)
  PROVE  /\ IsSeq(s \o t) /\ Len(s \o t) = Len(s) + Len(t)
         /\ \A i \in 1..Len(s) : (s \o t)[i] = s[i]
         /\ \A i \in 1..Len(t) : (s \o t)[Len(s) + i] = t[i]
<1>1. PICK S, T : s \in Seq(S) /\ t \in Seq(T)
  BY DEF IsSeq
<1>2. s \in Seq(S \cup T) /\ t \in Seq(S \cup T)
  BY <1>1
<1>3. s \o t \in Seq(S \cup T)
  BY <1>2
<1> QED BY <1>2, <1>3 DEF IsSeq

LEMMA Part ==
  ASSUME NEW s, IsSeq(s), NEW m \in Nat \ {0}, NEW n \in Nat, n <= Len(s), m <= n + 1
  PROVE  /\ IsSeq(SubSeq(s, m, n)) /\ Len(SubSeq(s, m, n)) = n - m + 1
         /\ \A i \in 1..(n - m + 1) : SubSeq(s, m, n)[i] = s[m - 1 + i]
<1>1. PICK S : s \in Seq(S)
  BY DEF IsSeq
<1>2. SubSeq(s, m, n) \in Seq(S)
  BY <1>1
<1> QED BY <1>1, <1>2 DEF IsSeq

LEMMA Tuples ==
  /\ IsSeq(<<>>)
  /\ \A a : IsSeq(<<a>>)
  /\ \A a, b : IsSeq(<<a, b>>)
<1>1. <<>> \in Seq({})
  OBVIOUS
<1>2. \A a : <<a>> \in Seq({a})
  OBVIOUS
<1>3. \A a, b : <<a, b>> \in Seq({a, b})
  OBVIOUS
<1> QED BY <1>1, <1>2, <1>3 DEF IsSeq

Width(byte) == IF byte = DLE THEN 2 ELSE 1
Escaped(byte) == IF byte = DLE THEN <<DLE, DLE>> ELSE <<byte>>

Stuff(stuffed, byte) == stuffed \o Escaped(byte)

Stuffs(payload, stuffed, k) ==
  stuffed = [n \in 1..k |-> IF n = 1 THEN Escaped(payload[1])
                             ELSE Stuff(stuffed[n - 1], payload[n])]

LEMMA StuffedExists ==
  ASSUME NEW payload, NEW k \in Nat, k >= 1
  PROVE  \E stuffed : Stuffs(payload, stuffed, k)
<1> DEFINE S == {n \in Nat : \E stuffed : Stuffs(payload, stuffed, n)}
<1>1. 1 \in S
  <2> DEFINE r == [n \in 1..1 |-> Escaped(payload[1])]
  <2>1. Stuffs(payload, r, 1)
    BY DEF Stuffs
  <2> QED BY <2>1
<1>2. ASSUME NEW n \in 1..(k - 1), n \in S PROVE n + 1 \in S
  <2>1. PICK r : Stuffs(payload, r, n)
    BY <1>2
  <2> DEFINE s == [i \in 1..(n + 1) |-> IF i <= n THEN r[i] ELSE Stuff(r[n], payload[i])]
  <2>2. ASSUME NEW i \in 1..(n + 1)
        PROVE  s[i] = IF i = 1 THEN Escaped(payload[1]) ELSE Stuff(s[i - 1], payload[i])
    <3>1. CASE i <= n
      BY <2>1, <3>1 DEF Stuffs
    <3>2. CASE i = n + 1
      BY <3>2
    <3> QED BY <3>1, <3>2
  <2>3. Stuffs(payload, s, n + 1)
    BY <2>2 DEF Stuffs
  <2> QED BY <2>3
<1> HIDE DEF S
<1>3. k \in S
  BY <1>1, <1>2, Climb
<1> QED BY <1>3 DEF S

LEMMA StuffedSteps ==
  ASSUME NEW payload, NEW k \in Nat, k >= 1, NEW stuffed, Stuffs(payload, stuffed, k)
  PROVE  /\ stuffed[1] = Escaped(payload[1])
         /\ \A n \in 1..(k - 1) : stuffed[n + 1] = stuffed[n] \o Escaped(payload[n + 1])
<1>1. stuffed[1] = Escaped(payload[1])
  BY DEF Stuffs
<1>2. ASSUME NEW n \in 1..(k - 1)
      PROVE  stuffed[n + 1] = Stuff(stuffed[n], payload[n + 1])
  <2>1. n + 1 \in 1..k /\ n + 1 # 1 /\ (n + 1) - 1 = n
    OBVIOUS
  <2> QED BY <2>1 DEF Stuffs
<1> QED BY <1>1, <1>2 DEF Stuff

LEMMA StuffedIs ==
  ASSUME NEW payload, IsSeq(payload), Len(payload) >= 1
  PROVE  \E stuffed : /\ Stuffs(payload, stuffed, Len(payload))
                      /\ Stuffed(payload) = stuffed[Len(payload)]
<1> DEFINE k == Len(payload)
           pieces == [i \in DOMAIN payload |-> Escaped(payload[i])]
<1>1. k \in Nat /\ DOMAIN payload = 1..k
  BY DEF IsSeq
<1>2. Len(pieces) = k /\ \A i \in 1..k : pieces[i] = Escaped(payload[i])
  BY <1>1
<1>3. Stuffed(payload) = FlattenSeq(pieces)
  BY DEF Stuffed, Escaped
<1> HIDE DEF pieces
<1> DEFINE stuffed == CHOOSE s : s = [n \in 1..k |-> IF n = 1 THEN pieces[n] ELSE s[n - 1] \o pieces[n]]
<1>4. FlattenSeq(pieces) = stuffed[k]
  BY <1>1, <1>2 DEF FlattenSeq
<1>5. \A s : Stuffs(payload, s, k)
              <=> s = [n \in 1..k |-> IF n = 1 THEN pieces[n] ELSE s[n - 1] \o pieces[n]]
  BY <1>1, <1>2 DEF Stuffs, Stuff
<1>6. Stuffs(payload, stuffed, k)
  BY <1>1, <1>5, StuffedExists
<1> QED BY <1>3, <1>4, <1>6

LEMMA EscapedIs ==
  ASSUME NEW byte
  PROVE  /\ IsSeq(Escaped(byte)) /\ Escaped(byte)[1] = byte
         /\ Len(Escaped(byte)) = Width(byte) /\ Width(byte) \in {1, 2}
         /\ byte = DLE => Escaped(byte)[2] = DLE
  BY Tuples DEF Escaped, Width

LEMMA StuffedGrows ==
  ASSUME NEW payload, NEW k \in Nat, k >= 1, NEW stuffed, Stuffs(payload, stuffed, k)
  PROVE  \A n \in 1..k : IsSeq(stuffed[n]) /\ Len(stuffed[n]) \in Nat /\ Len(stuffed[n]) >= n
<1> DEFINE S == {n \in Nat : IsSeq(stuffed[n]) /\ Len(stuffed[n]) \in Nat /\ Len(stuffed[n]) >= n}
<1>1. 1 \in S
  <2>1. stuffed[1] = Escaped(payload[1])
    BY StuffedSteps
  <2>2. IsSeq(stuffed[1]) /\ Len(stuffed[1]) \in {1, 2}
    BY <2>1, EscapedIs
  <2> QED BY <2>2
<1>2. ASSUME NEW n \in 1..(k - 1), n \in S PROVE n + 1 \in S
  <2>1. stuffed[n + 1] = stuffed[n] \o Escaped(payload[n + 1])
    BY StuffedSteps
  <2>2. /\ IsSeq(stuffed[n + 1])
        /\ Len(stuffed[n + 1]) = Len(stuffed[n]) + Width(payload[n + 1])
    <3>1. IsSeq(stuffed[n]) /\ IsSeq(Escaped(payload[n + 1]))
      BY <1>2, EscapedIs
    <3>2. Len(stuffed[n] \o Escaped(payload[n + 1]))
            = Len(stuffed[n]) + Len(Escaped(payload[n + 1]))
      BY <3>1, Concatenated
    <3>3. IsSeq(stuffed[n] \o Escaped(payload[n + 1]))
      BY <3>1, Concatenated
    <3> QED BY <2>1, <3>2, <3>3, EscapedIs
  <2>3. Len(stuffed[n]) \in Nat /\ Len(stuffed[n]) >= n /\ Width(payload[n + 1]) \in {1, 2}
    BY <1>2, EscapedIs
  <2>4. Len(stuffed[n + 1]) \in Nat /\ Len(stuffed[n + 1]) >= n + 1
    BY <2>2, <2>3, n \in Nat
  <2> QED BY <2>2, <2>4
<1>3. \A n \in 1..k : n \in S
  <2> HIDE DEF S
  <2> QED BY <1>1, <1>2, Climb
<1> QED BY <1>3

-----------------------------------------------------------------------------
(* What is on the line and in the buffer are sequences.                    *)

LEMMA StuffedIsSeq ==
  ASSUME NEW payload, IsSeq(payload), Len(payload) >= 1
  PROVE  IsSeq(Stuffed(payload))
<1>1. Len(payload) \in Nat
  BY DEF IsSeq
<1>2. PICK stuffed : /\ Stuffs(payload, stuffed, Len(payload))
                     /\ Stuffed(payload) = stuffed[Len(payload)]
  BY StuffedIs
<1>3. Len(payload) \in 1..Len(payload)
  BY <1>1
<1> QED BY <1>1, <1>2, <1>3, StuffedGrows

Senders == [station : BOOLEAN, block : BOOLEAN]

IsReply(reply) == reply.type \in {"Success", "PlcError"} /\ IsSeq(reply.data)

LEMMA EncodedIsSeq ==
  ASSUME NEW c \in Configs, NEW sender, NEW reply, IsReply(reply)
  PROVE  IsSeq(Encode(c, sender, reply))
<1>1. IsSeq(reply.data)
  BY DEF IsReply
<1>2. IsSeq(Prefix(c, sender)) /\ IsSeq(Terminator(c)) /\ \A b : IsSeq(Checksum(c, b))
  <2>1. /\ IsSeq(<<Station(sender.block)>>) /\ IsSeq(<<Station(sender.station)>>)
        /\ IsSeq(<<>>) /\ IsSeq(CRLF) /\ \A b : IsSeq(SumOf(b))
    BY Tuples DEF CRLF, SumOf
  <2> QED BY <2>1, Concatenated DEF Prefix, Terminator, Checksum
<1>3. \A s, t : IsSeq(s) /\ IsSeq(t) => IsSeq(s \o t)
  BY Concatenated
<1>4. IsSeq(EncodeAscii(c, sender, reply))
  BY <1>1, <1>2, <1>3, Tuples DEF EncodeAscii, Covered
<1>5. IsSeq(EncodeBinary(c, sender, reply))
  <2> DEFINE body == << Station(sender.station),
                        IF reply.type = "PlcError" THEN reply.data[1] ELSE Zero >>
                       \o (IF reply.type = "PlcError" THEN <<>> ELSE reply.data)
             payload == <<CountOf(body)>> \o body
  <2>1. IsSeq(body) /\ IsSeq(payload) /\ Len(payload) >= 1
    BY <1>1, Concatenated, Tuples
  <2>2. IsSeq(Stuffed(payload)) /\ IsSeq(Checksum(c, payload))
    BY <2>1, <1>2, StuffedIsSeq
  <2> HIDE DEF payload
  <2>3. IsSeq(<<DLE, STX>> \o Stuffed(payload) \o <<DLE, ETX>> \o Checksum(c, payload))
    BY <2>2, <1>3, Tuples
  <2> QED BY <2>3 DEF EncodeBinary, payload
<1> QED BY <1>4, <1>5 DEF Encode

-----------------------------------------------------------------------------
(* The loop of on_rx_bytes.                                                *)

LEMMA LeastOf ==
  ASSUME NEW T, T \subseteq Nat, T # {}
  PROVE  Min(T) \in T /\ \A x \in T : Min(T) <= x
<1>1. \E x \in T : \A y \in T : x <= y
  BY LeastExists
<1> QED BY <1>1 DEF Min

LEMMA Suffix ==
  ASSUME NEW bytes, IsSeq(bytes), NEW o \in 1..Len(bytes)
  PROVE  /\ IsSeq(From(bytes, o)) /\ Len(From(bytes, o)) = Len(bytes) - o + 1
         /\ \A i \in 1..(Len(bytes) - o + 1) : From(bytes, o)[i] = bytes[o - 1 + i]
<1>1. Len(bytes) \in Nat
  BY DEF IsSeq
<1> QED BY <1>1, Part DEF From

LEMMA CandidatesAreThere ==
  ASSUME NEW c, NEW bytes, IsSeq(bytes)
  PROVE  /\ Len(bytes) \in Nat /\ DOMAIN bytes = 1..Len(bytes)
         /\ Candidates(c, bytes) \subseteq 1..Len(bytes)
         /\ \A o \in Candidates(c, bytes) : IsStart(c, bytes[o])
<1>1. Len(bytes) \in Nat /\ DOMAIN bytes = 1..Len(bytes)
  BY DEF IsSeq
<1> QED BY <1>1 DEF Candidates

LEMMA KeepDiscard ==
  /\ \A size : Discard(size).discard_prefix = size /\ Discard(size).status = "Incomplete"
  /\ \A status, reply : /\ Keep(status, reply).discard_prefix = 0
                        /\ Keep(status, reply).status = status
                        /\ Keep(status, reply).reply = reply
  BY DEF Keep, Discard

\* Every prefix that the loop drops is there.
LEMMA PrefixIsThere ==
  ASSUME NEW c \in Configs, NEW bytes, IsSeq(bytes)
  PROVE  DecodeStreamBuffer(c, bytes).discard_prefix \in 0..Len(bytes)
<1> DEFINE results == [o \in Candidates(c, bytes) |-> Decode(c, From(bytes, o))]
           decisive == {o \in DOMAIN results : results[o].foreign \/ results[o].status = "Complete"}
           scan == Selected(bytes, results, decisive)
<1>1. /\ Len(bytes) \in Nat /\ DOMAIN results \subseteq 1..Len(bytes)
      /\ decisive \subseteq DOMAIN results
  BY CandidatesAreThere
<1>2. DecodeStreamBuffer(c, bytes) = scan
  BY DEF DecodeStreamBuffer, Judged
<1> SUFFICES scan.discard_prefix \in 0..Len(bytes)
  BY <1>2
<1>3. ASSUME NEW o \in DOMAIN results
      PROVE  results[o].consumed \in 0..(Len(bytes) - o + 1)
  <2>1. o \in 1..Len(bytes) /\ results[o] = Decode(c, From(bytes, o))
    BY <1>1
  <2>2. PICK S : From(bytes, o) \in Seq(S)
    BY <2>1, Suffix DEF IsSeq
  <2>3. From(bytes, o) # <<>> /\ Len(From(bytes, o)) = Len(bytes) - o + 1
    BY <1>1, <2>1, Suffix
  <2> QED BY <2>1, <2>2, <2>3, DecodedIsThere DEF Within
<1> HIDE DEF results, decisive, scan
<1>4. CASE decisive # {}
  <2> DEFINE o == Min(decisive)
  <2>1. o \in DOMAIN results /\ o \in 1..Len(bytes)
    BY <1>1, <1>4, LeastOf
  <2>2. scan = Decided(o, results[o])
    BY <1>4 DEF Selected, scan
  <2> HIDE DEF o
  <2> QED BY <1>1, <1>3, <2>1, <2>2, KeepDiscard DEF Decided
<1>5. CASE decisive = {}
  <2> DEFINE candidates == DOMAIN results
  <2>1. scan = Undecided(bytes, candidates, results)
    BY <1>5 DEF Selected, scan
  <2>2. CASE candidates = {}
    BY <1>1, <2>1, <2>2, KeepDiscard DEF Undecided
  <2>3. CASE candidates # {} /\ candidates # {1}
    <3>1. candidates \ {1} # {} /\ candidates \ {1} \subseteq 1..Len(bytes)
      BY <1>1, <2>3
    <3>2. Min(candidates \ {1}) \in 1..Len(bytes)
      BY <3>1, LeastOf, 1..Len(bytes) \subseteq Nat
    <3>3. scan = Discard(Min(candidates \ {1}) - 1)
      BY <2>1, <2>3 DEF Undecided
    <3> QED BY <1>1, <3>2, <3>3, KeepDiscard
  <2>4. CASE candidates = {1}
    BY <1>1, <2>1, <2>4, KeepDiscard DEF Undecided
  <2> QED BY <2>2, <2>3, <2>4
<1> QED BY <1>4, <1>5

\* The pieces of the line.
Pieces(c) == Harmless(c) \cup Harmful

LEMMA DataFrameIsSeq ==
  ASSUME NEW c \in Configs, NEW sender
  PROVE  IsSeq(DataFrame(c, sender))
<1>1. IsReply(Data(c, sender))
  BY Tuples DEF IsReply, Data, Success
<1> QED BY <1>1, EncodedIsSeq DEF DataFrame

LEMMA HalfIsSeq ==
  ASSUME NEW frame, IsSeq(frame)
  PROVE  IsSeq(Cut(frame)) /\ IsSeq(Damaged(frame))
<1>1. PICK S : frame \in Seq(S)
  BY DEF IsSeq
<1>2. Len(frame) \div 2 \in Nat /\ Len(frame) \div 2 <= Len(frame)
  BY <1>1
<1>3. IsSeq(Damaged(frame))
  <2>1. frame \in [1..Len(frame) -> S] /\ Len(frame) \in Nat
    BY <1>1
  <2>2. Damaged(frame) \in [1..Len(frame) -> S \cup {Junk}]
    BY <2>1 DEF Damaged
  <2>3. Damaged(frame) \in Seq(S \cup {Junk})
    BY <2>1, <2>2, SeqDef
  <2> QED BY <2>3 DEF IsSeq
<1>4. IsSeq(Cut(frame))
  <2>1. 1 \in Nat \ {0} /\ 1 <= (Len(frame) \div 2) + 1
    BY <1>2
  <2> QED BY <1>2, <2>1, Part DEF Cut
<1> QED BY <1>3, <1>4

LEMMA PieceIsSeq ==
  ASSUME NEW c \in Configs, NEW piece \in Pieces(c)
  PROVE  IsSeq(Bytes(c, piece))
<1>1. \A sender, reply : IsReply(reply) => IsSeq(Encode(c, sender, reply))
  BY EncodedIsSeq
<1>2. IsReply(Success(<<>>)) /\ IsReply(PlcError(<<"E">>))
  BY Tuples DEF IsReply, Success, PlcError
<1>3. \A sender : /\ IsSeq(DataFrame(c, sender)) /\ IsSeq(Cut(DataFrame(c, sender)))
                  /\ IsSeq(Damaged(DataFrame(c, sender)))
  BY DataFrameIsSeq, HalfIsSeq
<1>4. \A a, b : IsSeq(<<a>>) /\ IsSeq(<<a, b>>)
  BY Tuples
<1>5. piece \in {"junk", "stray", "other data", "other done", "other error", "late data",
                 "late done", "late error", "cut", "other cut", "bad header", "damaged",
                 "other damaged"}
  BY DEF Pieces, Harmless, Harmful
<1>6. CASE piece \in {"junk", "stray", "bad header"}
  BY <1>4, <1>6 DEF Bytes
<1>7. CASE piece \in {"other data", "late data", "cut", "other cut", "damaged", "other damaged"}
  BY <1>3, <1>7 DEF Bytes
<1>8. CASE piece \in {"other done", "other error", "late done", "late error"}
  BY <1>1, <1>2, <1>8 DEF Bytes
<1> QED BY <1>5, <1>6, <1>7, <1>8

\* What is on the line and in the buffer are bytes one after the other.
Buffered ==
  /\ config \in Configs /\ IsReply(answer)
  /\ IsSeq(line) /\ delivered \in 0..Len(line)
  /\ IsSeq(rx_frame)

LEMMA AnswersAreReplies ==
  ASSUME NEW c, NEW reply \in Answers(c)
  PROVE  IsReply(reply)
<1>1. reply \in {Success(<<>>), PlcError(<<"E">>), Data(c, Ours)}
  BY DEF Answers
<1>2. \A data : Success(data).type = "Success" /\ Success(data).data = data
  BY DEF Success
<1>3. PlcError(<<"E">>).type = "PlcError" /\ PlcError(<<"E">>).data = << <<"E">> >>
  BY DEF PlcError
<1>4. \E data : Data(c, Ours) = Success(data) /\ IsSeq(data)
  BY Tuples DEF Data
<1> QED BY <1>1, <1>2, <1>3, <1>4, Tuples DEF IsReply

LEMMA BufferedStep == Buffered /\ [Next]_vars => Buffered'
<1> SUFFICES ASSUME Buffered, [Next]_vars PROVE Buffered'
  OBVIOUS
<1>0. Len(line) \in Nat /\ Len(rx_frame) \in Nat
  BY DEF Buffered, IsSeq
<1>1. ASSUME NEW piece \in Pieces(config), Disturb(piece) PROVE Buffered'
  <2>1. IsSeq(line') /\ Len(line') = Len(line) + Len(Bytes(config, piece))
    BY <1>1, Concatenated, PieceIsSeq DEF Buffered, Disturb
  <2>2. Len(Bytes(config, piece)) \in Nat
    BY <1>1, PieceIsSeq DEF IsSeq, Buffered
  <2> QED BY <1>0, <1>1, <2>1, <2>2 DEF Buffered, Disturb, clientVars
<1>2. ASSUME Reply PROVE Buffered'
  <2>1. IsSeq(Encode(config, Ours, answer))
    BY EncodedIsSeq DEF Buffered
  <2>2. IsSeq(line') /\ Len(line') = Len(line) + Len(Encode(config, Ours, answer))
    BY <1>2, <2>1, Concatenated DEF Buffered, Reply
  <2>3. Len(Encode(config, Ours, answer)) \in Nat
    BY <2>1 DEF IsSeq
  <2> QED BY <1>0, <1>2, <2>2, <2>3 DEF Buffered, Reply, clientVars
<1>3. ASSUME NEW size \in 1..Len(line), OnRxBytes(size) PROVE Buffered'
  <2>1. IsSeq(SubSeq(line, delivered + 1, delivered + size))
    BY <1>0, <1>3, Part DEF Buffered, OnRxBytes
  <2>2. IsSeq(rx_frame')
    BY <1>3, <2>1, Concatenated DEF Buffered, OnRxBytes
  <2> QED BY <1>0, <1>3, <2>2 DEF Buffered, OnRxBytes, lineVars
<1>4. ASSUME ScanRound PROVE Buffered'
  <2> DEFINE scan == DecodeStreamBuffer(config, rx_frame)
  <2>1. scan.discard_prefix \in 0..Len(rx_frame)
    BY PrefixIsThere DEF Buffered
  <2>2. IsSeq(rx_frame')
    <3>1. CASE scan.discard_prefix = 0
      BY <1>4, <3>1, Tuples DEF ScanRound, Conclude, Buffered
    <3>2. CASE scan.discard_prefix \in 1..Len(rx_frame)
      <4>1. IsSeq(From(rx_frame, scan.discard_prefix + 1))
        BY <1>0, <3>2, Part DEF From, Buffered
      <4>2. rx_frame' = From(rx_frame, scan.discard_prefix + 1)
        BY <1>0, <1>4, <3>2 DEF ScanRound, Conclude, DiscardRxPrefix
      <4> QED BY <4>1, <4>2
    <3> QED BY <1>0, <2>1, <3>1, <3>2
  <2> QED BY <1>4, <2>2 DEF Buffered, ScanRound, lineVars
<1>5. ASSUME UNCHANGED vars PROVE Buffered'
  BY <1>5 DEF Buffered, vars, lineVars, clientVars
<1> QED BY <1>1, <1>2, <1>3, <1>4, <1>5 DEF Next, Pieces

LEMMA InitBuffered == Init => Buffered
  BY Tuples, AnswersAreReplies DEF Init, Buffered, Configs

\* The client is given bytes in order, and looks at nothing else.
THEOREM BufferedHolds == Spec => []Buffered
<1> QED BY InitBuffered, BufferedStep, PTL DEF Spec

\* The loop of on_rx_bytes ends, for any line of any length: every round drops bytes that
\* are there, or is the last.
THEOREM ScanEndsHolds == Spec => []ScanEnds
<1>1. Buffered => ScanEnds
  <2> SUFFICES ASSUME Buffered, scanning PROVE ScanEnds
    BY DEF ScanEnds
  <2>1. DecodeStreamBuffer(config, rx_frame).discard_prefix \in 0..Len(rx_frame)
    BY PrefixIsThere DEF Buffered
  <2>2. Len(rx_frame) \in Nat
    BY DEF Buffered, IsSeq
  <2> QED BY <2>1, <2>2 DEF ScanEnds
<1> QED BY <1>1, BufferedHolds, PTL

-----------------------------------------------------------------------------
(* Frames and what is decoded of them.                                     *)

LEMMA Same ==
  ASSUME NEW s, NEW t, IsSeq(s), IsSeq(t), Len(s) = Len(t), \A i \in 1..Len(s) : s[i] = t[i]
  PROVE  s = t
<1>1. PICK S, T : s \in Seq(S) /\ t \in Seq(T)
  BY DEF IsSeq
<1>2. s \in Seq(S \cup T) /\ t \in Seq(S \cup T)
  BY <1>1
<1> QED BY <1>2, SeqEqual

LEMMA PartIs ==
  ASSUME NEW s, NEW t, IsSeq(s), IsSeq(t), NEW m \in Nat, m + Len(t) <= Len(s),
         \A i \in 1..Len(t) : s[m + i] = t[i]
  PROVE  SubSeq(s, m + 1, m + Len(t)) = t
<1> DEFINE u == SubSeq(s, m + 1, m + Len(t))
<1>1. Len(s) \in Nat /\ Len(t) \in Nat
  BY DEF IsSeq
<1>2. /\ IsSeq(u) /\ Len(u) = Len(t)
      /\ \A i \in 1..Len(t) : u[i] = s[m + i]
  <2>1. m + 1 \in Nat \ {0} /\ m + Len(t) \in Nat /\ m + 1 <= (m + Len(t)) + 1
    BY <1>1
  <2>2. (m + Len(t)) - (m + 1) + 1 = Len(t) /\ \A i \in 1..Len(t) : (m + 1) - 1 + i = m + i
    BY <1>1
  <2> DEFINE a == m + 1
             b == m + Len(t)
  <2>3. a \in Nat \ {0} /\ b \in Nat /\ b <= Len(s) /\ a <= b + 1
    BY <2>1
  <2>4. b - a + 1 = Len(t) /\ \A i \in 1..Len(t) : a - 1 + i = m + i
    BY <2>2
  <2>5. u = SubSeq(s, a, b)
    OBVIOUS
  <2> HIDE DEF a, b, u
  <2>6. /\ IsSeq(SubSeq(s, a, b)) /\ Len(SubSeq(s, a, b)) = b - a + 1
        /\ \A i \in 1..(b - a + 1) : SubSeq(s, a, b)[i] = s[a - 1 + i]
    BY <2>3, Part
  <2> QED BY <2>4, <2>5, <2>6
<1> HIDE DEF u
<1>3. u = t
  BY <1>2, Same
<1> QED BY <1>3 DEF u

\* The bytes of one sequence are found in another from an offset on.
Holds(s, m, t) ==
  /\ IsSeq(s) /\ IsSeq(t) /\ m \in Nat /\ m + Len(t) <= Len(s)
  /\ \A i \in 1..Len(t) : s[m + i] = t[i]

LEMMA Joined ==
  ASSUME NEW s, NEW t, IsSeq(s), IsSeq(t)
  PROVE  /\ Len(s \o t) = Len(s) + Len(t)
         /\ Holds(s \o t, 0, s) /\ Holds(s \o t, Len(s), t)
<1>1. Len(s) \in Nat /\ Len(t) \in Nat
  BY DEF IsSeq
<1>2. /\ IsSeq(s \o t) /\ Len(s \o t) = Len(s) + Len(t)
      /\ \A i \in 1..Len(s) : (s \o t)[i] = s[i]
      /\ \A i \in 1..Len(t) : (s \o t)[Len(s) + i] = t[i]
  BY Concatenated
<1> QED BY <1>1, <1>2 DEF Holds

LEMMA HeldOn ==
  ASSUME NEW s, NEW t, NEW u, NEW m, NEW n, Holds(s, m, t), Holds(t, n, u)
  PROVE  Holds(s, m + n, u)
<1>1. Len(s) \in Nat /\ Len(t) \in Nat /\ Len(u) \in Nat /\ m \in Nat /\ n \in Nat
  BY DEF Holds, IsSeq
<1>2. ASSUME NEW i \in 1..Len(u) PROVE s[(m + n) + i] = u[i]
  <2>1. n + i \in 1..Len(t) /\ t[n + i] = u[i]
    BY <1>1 DEF Holds
  <2>2. s[m + (n + i)] = t[n + i]
    BY <2>1 DEF Holds
  <2>3. m + (n + i) = (m + n) + i
    BY <1>1
  <2> QED BY <2>1, <2>2, <2>3
<1> QED BY <1>1, <1>2 DEF Holds

LEMMA PartHeld ==
  ASSUME NEW s, NEW m, NEW t, Holds(s, m, t)
  PROVE  SubSeq(s, m + 1, m + Len(t)) = t
BY PartIs DEF Holds

LEMMA One ==
  ASSUME NEW a
  PROVE  /\ IsSeq(<<a>>) /\ Len(<<a>>) = 1 /\ <<a>>[1] = a
         /\ \A s, m : Holds(s, m, <<a>>) => s[m + 1] = a /\ m + 1 \in 1..Len(s)
<1>1. IsSeq(<<a>>) /\ Len(<<a>>) = 1 /\ <<a>>[1] = a
  BY Tuples
<1>2. ASSUME NEW s, NEW m, Holds(s, m, <<a>>) PROVE s[m + 1] = a /\ m + 1 \in 1..Len(s)
  <2>1. Len(s) \in Nat /\ m \in Nat
    BY <1>2 DEF Holds, IsSeq
  <2> QED BY <1>1, <1>2, <2>1 DEF Holds
<1> QED BY <1>1, <1>2

LEMMA Two ==
  ASSUME NEW a, NEW b
  PROVE  /\ IsSeq(<<a, b>>) /\ Len(<<a, b>>) = 2 /\ <<a, b>>[1] = a /\ <<a, b>>[2] = b
         /\ <<a>> \o <<b>> = <<a, b>> /\ <<>> \o <<a>> = <<a>>
<1>1. IsSeq(<<a, b>>) /\ Len(<<a, b>>) = 2 /\ <<a, b>>[1] = a /\ <<a, b>>[2] = b
  BY Tuples
<1>2. <<a>> \o <<b>> = <<a, b>>
  <2> DEFINE s == <<a>> \o <<b>>
             t == <<a, b>>
  <2>1. IsSeq(<<a>>) /\ IsSeq(<<b>>) /\ Len(<<a>>) = 1 /\ Len(<<b>>) = 1
    BY One
  <2>2. IsSeq(s) /\ Len(s) = 2 /\ s[1] = a /\ s[2] = b
    <3>1. /\ Len(s) = Len(<<a>>) + Len(<<b>>) /\ Holds(s, 0, <<a>>)
          /\ Holds(s, Len(<<a>>), <<b>>)
      BY <2>1, Joined
    <3>2. IsSeq(s) /\ s[0 + 1] = a /\ s[1 + 1] = b
      BY <2>1, <3>1, One DEF Holds
    <3> QED BY <2>1, <3>1, <3>2
  <2>3. IsSeq(t) /\ Len(t) = 2 /\ t[1] = a /\ t[2] = b
    BY <1>1
  <2> HIDE DEF s, t
  <2>4. \A i \in 1..Len(s) : s[i] = t[i]
    <3>1. \A i \in 1..2 : i = 1 \/ i = 2
      OBVIOUS
    <3> QED BY <2>2, <2>3, <3>1
  <2>5. s = t
    BY <2>2, <2>3, <2>4, Same
  <2> QED BY <2>5 DEF s, t
<1>3. <<>> \o <<a>> = <<a>>
  OBVIOUS
<1> QED BY <1>1, <1>2, <1>3

LEMMA PrefixIs ==
  ASSUME NEW c \in Configs, NEW sender \in Senders
  PROVE  /\ IsSeq(Prefix(c, sender)) /\ Len(Prefix(c, sender)) = PrefixSize(c) - 1
         /\ Prefix(c, sender)[PrefixSize(c) - 1] = Station(sender.station)
         /\ UsesBlockNumber(c) => Prefix(c, sender)[1] = Station(sender.block)
         /\ Station(sender.station) \in Hex /\ Station(sender.block) \in Hex
<1>1. Station(sender.station) \in Hex /\ Station(sender.block) \in Hex
  BY DEF Station, Hex
<1> DEFINE s == Station(sender.station)
           b == Station(sender.block)
<1>2. CASE UsesBlockNumber(c)
  <2>1. Prefix(c, sender) = <<b>> \o <<s>> /\ PrefixSize(c) = 3
    BY <1>2 DEF Prefix, PrefixSize
  <2> HIDE DEF s, b
  <2>2. IsSeq(<<b, s>>) /\ Len(<<b, s>>) = 2 /\ <<b, s>>[1] = b /\ <<b, s>>[2] = s
    BY Two
  <2>3. Prefix(c, sender) = <<b, s>>
    BY <2>1, Two
  <2>4. /\ IsSeq(Prefix(c, sender)) /\ Len(Prefix(c, sender)) = 2
        /\ Prefix(c, sender)[1] = b /\ Prefix(c, sender)[2] = s
    BY <2>2, <2>3
  <2> QED BY <1>1, <2>1, <2>4 DEF s, b
<1>3. CASE ~UsesBlockNumber(c)
  <2>1. Prefix(c, sender) = <<>> \o <<s>> /\ PrefixSize(c) = 2
    BY <1>3 DEF Prefix, PrefixSize
  <2> HIDE DEF s, b
  <2>2. Prefix(c, sender) = <<s>>
    BY <2>1, Two
  <2>3. IsSeq(Prefix(c, sender)) /\ Len(Prefix(c, sender)) = 1 /\ Prefix(c, sender)[1] = s
    BY <2>2, One
  <2> QED BY <1>1, <1>3, <2>1, <2>3 DEF s, b
<1> QED BY <1>2, <1>3

LEMMA TailsAre ==
  ASSUME NEW c \in Configs
  PROVE  /\ IsSeq(Terminator(c)) /\ Len(Terminator(c)) \in {0, 2}
         /\ \A b : IsSeq(Checksum(c, b)) /\ Len(Checksum(c, b)) = SumSize(c)
         /\ SumSize(c) \in {0, 2}
  BY Tuples DEF Terminator, CRLF, Checksum, SumSize, SumOf

\* The block number or the station is not ours.
ForeignTo(c, sender) == (UsesBlockNumber(c) /\ ~sender.block) \/ ~sender.station

Heads(bytes, start, c, sender) ==
  Holds(bytes, 0, <<start>>) /\ Holds(bytes, 1, Prefix(c, sender))

\* The bytes are the beginning of a frame, and not all of it.
Opens(bytes, frame) ==
  /\ IsSeq(bytes) /\ IsSeq(frame) /\ Len(bytes) < Len(frame)
  /\ \A i \in 1..Len(bytes) : bytes[i] = frame[i]

Judgement(result, foreign) ==
  [result EXCEPT !.foreign = result.status # "Incomplete" /\ foreign]

\* The first bytes of a frame tell whose it is.
LEMMA AsciiHead ==
  ASSUME NEW c \in Configs, NEW sender \in Senders, NEW start, NEW bytes,
         Heads(bytes, start, c, sender)
  PROVE  /\ bytes[1] = start /\ Len(bytes) \in Nat /\ Len(bytes) >= PrefixSize(c)
         /\ \E foreign : /\ foreign <=> ForeignTo(c, sender)
                         /\ DecodeAscii(c, bytes) = Judgement(DecodeAsciiBody(c, bytes), foreign)
         /\ bytes[PrefixSize(c)] \in Hex
<1> DEFINE P == PrefixSize(c)
<1>0. Len(bytes) \in Nat
  BY DEF Heads, Holds, IsSeq
<1>1. bytes[1] = start
  <2>1. bytes[0 + 1] = start
    BY One DEF Heads
  <2> QED BY <2>1
<1>2. P \in {2, 3} /\ (P = 3 <=> UsesBlockNumber(c)) /\ Len(bytes) >= P
  <2>1. 1 + Len(Prefix(c, sender)) <= Len(bytes)
    BY DEF Heads, Holds
  <2>2. P \in {2, 3} /\ (P = 3 <=> UsesBlockNumber(c))
    BY DEF PrefixSize
  <2> QED BY <1>0, <2>1, <2>2, PrefixIs
<1>3. bytes[P] = Station(sender.station)
  <2>1. P - 1 \in 1..Len(Prefix(c, sender)) /\ 1 + (P - 1) = P
    BY <1>2, PrefixIs
  <2>2. bytes[1 + (P - 1)] = Prefix(c, sender)[P - 1]
    BY <2>1 DEF Heads, Holds
  <2> QED BY <2>1, <2>2, PrefixIs
<1>4. UsesBlockNumber(c) => bytes[2] = Station(sender.block)
  <2> SUFFICES ASSUME UsesBlockNumber(c) PROVE bytes[2] = Station(sender.block)
    OBVIOUS
  <2>1. 1 \in 1..Len(Prefix(c, sender))
    BY <1>2, PrefixIs
  <2>2. bytes[1 + 1] = Prefix(c, sender)[1]
    BY <2>1 DEF Heads, Holds
  <2> QED BY <2>2, PrefixIs
<1>5. ForeignAscii(c, bytes) <=> ForeignTo(c, sender)
  <2>1. Station(TRUE) # Station(FALSE)
    BY DEF Station
  <2> QED BY <1>3, <1>4, <2>1, PrefixIs DEF ForeignAscii, ForeignTo, Senders
<1>6. DecodeAscii(c, bytes) = Judgement(DecodeAsciiBody(c, bytes), ForeignAscii(c, bytes))
  <2>1. ~(UsesBlockNumber(c) /\ Len(bytes) >= 2 /\ bytes[2] \notin Hex)
    BY <1>4, PrefixIs
  <2>2. ~(Len(bytes) < PrefixSize(c))
    BY <1>0, <1>2
  <2> QED BY ONLY <2>1, <2>2 DEF DecodeAscii, Judgement
<1> QED BY <1>0, <1>1, <1>2, <1>3, <1>5, <1>6, PrefixIs

LEMMA AsciiOpening ==
  ASSUME NEW c \in Configs, NEW sender \in Senders, NEW start, NEW frame,
         Heads(frame, start, c, sender), NEW bytes, Opens(bytes, frame), bytes # <<>>
  PROVE  IF Len(bytes) < PrefixSize(c) THEN DecodeAscii(c, bytes) = Incomplete
         ELSE Heads(bytes, start, c, sender)
<1> DEFINE P == PrefixSize(c)
<1>0. Len(bytes) \in Nat /\ Len(frame) \in Nat /\ Len(bytes) >= 1
  <2>1. Len(bytes) \in Nat /\ Len(frame) \in Nat
    BY DEF Opens, IsSeq
  <2>2. Len(bytes) # 0
    BY EmptySeq DEF Opens, IsSeq
  <2> QED BY <2>1, <2>2
<1>1. P \in {2, 3} /\ (P = 3 <=> UsesBlockNumber(c)) /\ Len(Prefix(c, sender)) = P - 1
  BY PrefixIs DEF PrefixSize
<1>2. CASE Len(bytes) < P
  <2>1. UsesBlockNumber(c) /\ Len(bytes) >= 2 => bytes[2] \in Hex
    <3> SUFFICES ASSUME UsesBlockNumber(c), Len(bytes) >= 2 PROVE bytes[2] \in Hex
      OBVIOUS
    <3>1. 2 \in 1..Len(bytes) /\ 1 \in 1..Len(Prefix(c, sender))
      BY <1>0, <1>1
    <3>2. bytes[2] = frame[2] /\ frame[1 + 1] = Prefix(c, sender)[1]
      BY <3>1 DEF Opens, Heads, Holds
    <3> QED BY <3>2, PrefixIs
  <2> QED BY <1>2, <2>1 DEF DecodeAscii
<1>3. CASE Len(bytes) >= P
  <2>1. Holds(bytes, 0, <<start>>)
    <3>1. 1 \in 1..Len(bytes) /\ 1 \in 1..Len(<<start>>) /\ 0 + Len(<<start>>) <= Len(bytes)
      BY <1>0, One
    <3>2. bytes[1] = frame[1] /\ frame[0 + 1] = start
      BY <3>1, One DEF Opens, Heads
    <3>3. \A i \in 1..Len(<<start>>) : bytes[0 + i] = <<start>>[i]
      BY <3>2, One
    <3> QED BY <3>1, <3>3, One DEF Holds, Opens
  <2>2. Holds(bytes, 1, Prefix(c, sender))
    <3>1. ASSUME NEW i \in 1..Len(Prefix(c, sender))
          PROVE  bytes[1 + i] = Prefix(c, sender)[i]
      <4>1. 1 + i \in 1..Len(bytes)
        BY <1>0, <1>1, <1>3
      <4> QED BY <4>1 DEF Opens, Heads, Holds
    <3>2. 1 + Len(Prefix(c, sender)) <= Len(bytes)
      BY <1>0, <1>1, <1>3
    <3> QED BY <3>1, <3>2 DEF Holds, Opens, Heads
  <2> QED BY <1>0, <1>1, <1>3, <2>1, <2>2 DEF Heads
<1> QED BY <1>0, <1>1, <1>2, <1>3

LEMMA JudgementHas ==
  ASSUME NEW foreign
  PROVE  /\ \A reply, n : /\ Judgement(Complete(reply, n), foreign).status = "Complete"
                          /\ Judgement(Complete(reply, n), foreign).reply = reply
                          /\ Judgement(Complete(reply, n), foreign).consumed = n
                          /\ Judgement(Complete(reply, n), foreign).foreign <=> foreign
         /\ Judgement(Incomplete, foreign).status = "Incomplete"
         /\ ~Judgement(Incomplete, foreign).foreign
  BY DEF Judgement, Complete, Incomplete

LEMMA EndsWhereHeld ==
  ASSUME NEW c \in Configs, NEW bytes, NEW m, Holds(bytes, m, Terminator(c))
  PROVE  EndsAt(c, bytes, m)
BY PartHeld DEF EndsAt

LEMMA EtxAt ==
  ASSUME NEW bytes, IsSeq(bytes), NEW first \in Nat \ {0}, NEW etx \in Nat, first <= etx,
         \A i \in first..(etx - 1) : i <= Len(bytes) => bytes[i] # ETX,
         etx <= Len(bytes) => bytes[etx] = ETX
  PROVE  EtxFrom(bytes, first) = IF etx <= Len(bytes) THEN etx ELSE 0
<1>1. PICK S : bytes \in Seq(S)
  BY DEF IsSeq
<1>2. Len(bytes) \in Nat
  BY <1>1
<1>3. \/ EtxFrom(bytes, first) = 0 /\ \A i \in first..Len(bytes) : bytes[i] # ETX
      \/ /\ EtxFrom(bytes, first) \in first..Len(bytes)
         /\ bytes[EtxFrom(bytes, first)] = ETX
         /\ \A i \in first..Len(bytes) : bytes[i] = ETX => EtxFrom(bytes, first) <= i
  BY <1>1, EtxFromIs
<1> DEFINE found == EtxFrom(bytes, first)
<1> HIDE DEF found
<1>4. CASE etx <= Len(bytes)
  <2>1. etx \in first..Len(bytes) /\ bytes[etx] = ETX
    BY <1>2, <1>4
  <2>2. found \in first..Len(bytes) /\ bytes[found] = ETX /\ found <= etx
    BY <1>3, <2>1 DEF found
  <2>3. ~(found < etx)
    BY <2>2, <1>2
  <2> QED BY <1>2, <1>4, <2>2, <2>3 DEF found
<1>5. CASE ~(etx <= Len(bytes))
  <2>1. \A i \in first..Len(bytes) : bytes[i] # ETX
    BY <1>2, <1>5
  <2> QED BY <1>2, <1>3, <1>5, <2>1
<1> QED BY <1>4, <1>5

LEMMA AckWhole ==
  ASSUME NEW c \in Configs, NEW bytes, Holds(bytes, PrefixSize(c), Terminator(c))
  PROVE  DecodeAck(c, bytes) = Complete(Success(<<>>), PrefixSize(c) + Len(Terminator(c)))
<1>1. EndsAt(c, bytes, PrefixSize(c))
  BY EndsWhereHeld
<1>2. Len(bytes) \in Nat /\ PrefixSize(c) + Len(Terminator(c)) <= Len(bytes)
      /\ PrefixSize(c) + Len(Terminator(c)) \in Nat
  BY Sizes DEF Holds, IsSeq
<1> QED BY <1>1, <1>2 DEF DecodeAck

LEMMA NakWhole ==
  ASSUME NEW c \in Configs, NEW bytes, NEW code \in Hex,
         Holds(bytes, PrefixSize(c), <<ErrorEndCode>>),
         Holds(bytes, PrefixSize(c) + 1, <<code>>),
         Holds(bytes, PrefixSize(c) + 2, Terminator(c))
  PROVE  DecodeNak(c, bytes)
           = Complete(PlcError(code), PrefixSize(c) + 2 + Len(Terminator(c)))
<1> DEFINE size == PrefixSize(c)
           T == Len(Terminator(c))
<1>1. size \in Nat /\ T \in Nat /\ Len(bytes) \in Nat
  BY Sizes DEF Holds, IsSeq
<1>2. size + 2 + T <= Len(bytes)
  BY DEF Holds
<1>3. bytes[size + 1] = ErrorEndCode
  BY One
<1>4. bytes[size + 2] = code
  <2>1. bytes[(size + 1) + 1] = code
    BY One
  <2> QED BY <1>1, <2>1
<1>5. EndsAt(c, bytes, size + 2)
  BY EndsWhereHeld
<1> HIDE DEF size
<1>6. Len(bytes) > size /\ ~(Len(bytes) < size + 2 + T)
  BY <1>1, <1>2
<1> QED BY <1>3, <1>4, <1>5, <1>6 DEF DecodeNak, size

LEMMA NakOpening ==
  ASSUME NEW c \in Configs, NEW bytes, IsSeq(bytes),
         Len(bytes) < PrefixSize(c) + 2 + Len(Terminator(c)),
         Len(bytes) > PrefixSize(c) => bytes[PrefixSize(c) + 1] = ErrorEndCode
  PROVE  DecodeNak(c, bytes) = Incomplete
<1>1. PrefixSize(c) \in Nat /\ Len(Terminator(c)) \in Nat /\ Len(bytes) \in Nat
  BY Sizes DEF IsSeq
<1> QED BY <1>1 DEF DecodeNak

\* What a checksum covers.
LEMMA CoveredIs ==
  ASSUME NEW c \in Configs, NEW sender \in Senders, NEW content, IsSeq(content)
  PROVE  /\ Len(Covered(c, sender, content)) = PrefixSize(c) + Len(content)
         /\ Len(content) \in Nat
         /\ Holds(Covered(c, sender, content), 0, Prefix(c, sender))
         /\ Holds(Covered(c, sender, content), PrefixSize(c) - 1, content)
         /\ Holds(Covered(c, sender, content), PrefixSize(c) - 1 + Len(content), <<ETX>>)
<1> DEFINE s == Prefix(c, sender)
           t == s \o content
           u == t \o <<ETX>>
           n == Len(content)
<1>0. PrefixSize(c) \in {2, 3} /\ n \in Nat
  BY Sizes DEF IsSeq
<1>1. IsSeq(s) /\ Len(s) = PrefixSize(c) - 1
  BY PrefixIs
<1>2. /\ Len(t) = Len(s) + n /\ Holds(t, 0, s) /\ Holds(t, Len(s), content)
  BY <1>1, Joined
<1>3. IsSeq(t) /\ Len(<<ETX>>) = 1 /\ IsSeq(<<ETX>>)
  BY <1>2, One DEF Holds
<1> HIDE DEF t, s
<1>4. Len(u) = Len(t) + 1 /\ Holds(u, 0, t) /\ Holds(u, Len(t), <<ETX>>)
  BY <1>3, Joined
<1> HIDE DEF u
<1>5. Holds(u, 0 + 0, s) /\ Holds(u, 0 + Len(s), content)
  BY <1>2, <1>4, HeldOn
<1>6. /\ 0 + Len(s) = PrefixSize(c) - 1 /\ Len(t) = PrefixSize(c) - 1 + n
      /\ Len(t) + 1 = PrefixSize(c) + n
  BY <1>0, <1>1, <1>2
<1>7. /\ Len(u) = PrefixSize(c) + n /\ Holds(u, 0, s) /\ Holds(u, PrefixSize(c) - 1, content)
      /\ Holds(u, PrefixSize(c) - 1 + n, <<ETX>>)
  BY <1>4, <1>5, <1>6
<1>8. Covered(c, sender, content) = u
  BY DEF Covered, u, t, s
<1> QED BY <1>0, <1>7, <1>8 DEF s

NoEtx(content) == IsSeq(content) /\ \A i \in 1..Len(content) : content[i] # ETX

\* The offset of ETX in a frame that begins with STX.
EtxOf(c, content) == PrefixSize(c) + Len(content) + 1

LEMMA EtxOfIs ==
  ASSUME NEW c \in Configs, NEW content, IsSeq(content)
  PROVE  /\ EtxOf(c, content) \in Nat /\ PrefixSize(c) \in {2, 3} /\ Len(content) \in Nat
         /\ EtxOf(c, content) - 1 = PrefixSize(c) + Len(content)
         /\ EtxOf(c, content) > PrefixSize(c)
BY Sizes DEF EtxOf, IsSeq

LEMMA CoveredHeld ==
  ASSUME NEW c \in Configs, NEW sender \in Senders, NEW content, IsSeq(content),
         NEW bytes, Holds(bytes, 1, Covered(c, sender, content))
  PROVE  /\ Holds(bytes, 1, Prefix(c, sender))
         /\ Holds(bytes, PrefixSize(c), content)
         /\ SubSeq(bytes, PrefixSize(c) + 1, EtxOf(c, content) - 1) = content
         /\ SubSeq(bytes, 2, EtxOf(c, content)) = Covered(c, sender, content)
         /\ bytes[EtxOf(c, content)] = ETX /\ EtxOf(c, content) <= Len(bytes)
<1> DEFINE cover == Covered(c, sender, content)
           P == PrefixSize(c)
           n == Len(content)
<1>1. P \in {2, 3} /\ n \in Nat /\ EtxOf(c, content) = P + n + 1
  BY Sizes DEF IsSeq, EtxOf
<1>2. /\ Len(cover) = P + n /\ Holds(cover, 0, Prefix(c, sender))
      /\ Holds(cover, P - 1, content) /\ Holds(cover, P - 1 + n, <<ETX>>)
  BY CoveredIs
<1> HIDE DEF cover, P, n
<1>3. /\ Holds(bytes, 1 + 0, Prefix(c, sender)) /\ Holds(bytes, 1 + (P - 1), content)
      /\ Holds(bytes, 1 + (P - 1 + n), <<ETX>>)
  BY <1>2, HeldOn DEF cover
<1>4. 1 + 0 = 1 /\ 1 + (P - 1) = P /\ 1 + (P - 1 + n) = P + n
  BY <1>1
<1>5. Holds(bytes, 1, Prefix(c, sender)) /\ Holds(bytes, P, content)
      /\ Holds(bytes, P + n, <<ETX>>)
  BY <1>3, <1>4
<1>6. SubSeq(bytes, P + 1, P + n) = content
  BY <1>5, PartHeld DEF n
<1>7. SubSeq(bytes, 1 + 1, 1 + Len(cover)) = cover
  BY PartHeld DEF cover
<1>8. bytes[(P + n) + 1] = ETX /\ (P + n) + 1 \in 1..Len(bytes)
  BY <1>5, One
<1>9. 1 + 1 = 2 /\ 1 + Len(cover) = P + n + 1 /\ (P + n + 1) - 1 = P + n
  BY <1>1, <1>2
<1> QED BY <1>1, <1>5, <1>6, <1>7, <1>8, <1>9 DEF P, n, cover

\* Where the ETX is looked for, it is found where it was put.
LEMMA EtxFound ==
  ASSUME NEW c \in Configs, NEW content, IsSeq(content), NEW bytes, IsSeq(bytes),
         NEW first \in Nat \ {0}, first <= EtxOf(c, content),
         \A i \in first..(EtxOf(c, content) - 1) : i <= Len(bytes) => bytes[i] # ETX,
         EtxOf(c, content) <= Len(bytes) => bytes[EtxOf(c, content)] = ETX
  PROVE  EtxFrom(bytes, first)
           = IF EtxOf(c, content) <= Len(bytes) THEN EtxOf(c, content) ELSE 0
<1> DEFINE etx == EtxOf(c, content)
<1>1. etx \in Nat
  BY EtxOfIs
<1> HIDE DEF etx
<1>2. EtxFrom(bytes, first) = IF etx <= Len(bytes) THEN etx ELSE 0
  BY <1>1, EtxAt DEF etx
<1> QED BY <1>2 DEF etx

LEMMA DataWhole ==
  ASSUME NEW c \in Configs, NEW sender \in Senders, NEW content, NoEtx(content),
         NEW bytes, Holds(bytes, 1, Covered(c, sender, content)),
         Holds(bytes, EtxOf(c, content), Checksum(c, Covered(c, sender, content))),
         Holds(bytes, EtxOf(c, content) + SumSize(c), Terminator(c))
  PROVE  DecodeData(c, bytes)
           = Complete(Success(content),
                      EtxOf(c, content) + SumSize(c) + Len(Terminator(c)))
<1> DEFINE cover == Covered(c, sender, content)
           P == PrefixSize(c)
           etx == EtxOf(c, content)
           S == SumSize(c)
           total == etx + S + Len(Terminator(c))
<1>1. IsSeq(content) /\ IsSeq(bytes)
  BY DEF NoEtx, Holds
<1>2. /\ Holds(bytes, P, content)
      /\ SubSeq(bytes, P + 1, etx - 1) = content /\ SubSeq(bytes, 2, etx) = cover
      /\ bytes[etx] = ETX /\ etx <= Len(bytes)
  BY <1>1, CoveredHeld
<1>3. etx \in Nat /\ P \in {2, 3} /\ etx - 1 = P + Len(content) /\ Len(content) \in Nat
  BY <1>1, EtxOfIs
<1>4. S \in {0, 2} /\ Len(Terminator(c)) \in {0, 2} /\ Len(Checksum(c, cover)) = S
  BY TailsAre
<1>5. EtxFrom(bytes, P + 1) = etx
  <2>1. ASSUME NEW i \in (P + 1)..(etx - 1) PROVE bytes[i] # ETX
    <3>1. i - P \in 1..Len(content) /\ P + (i - P) = i
      BY <1>3
    <3>2. bytes[P + (i - P)] = content[i - P]
      BY <1>2, <3>1 DEF Holds
    <3> QED BY <3>1, <3>2 DEF NoEtx
  <2>2. P + 1 \in Nat \ {0} /\ P + 1 <= etx
    BY <1>3
  <2> HIDE DEF P, etx
  <2>3. EtxFrom(bytes, P + 1) = IF etx <= Len(bytes) THEN etx ELSE 0
    BY <1>1, <1>2, <2>1, <2>2, EtxFound DEF etx
  <2> QED BY <1>2, <2>3
<1>6. SumMatches(c, bytes, etx)
  <2>1. SubSeq(bytes, etx + 1, etx + Len(Checksum(c, cover))) = Checksum(c, cover)
    BY PartHeld
  <2> QED BY <1>2, <1>4, <2>1 DEF SumMatches
<1>7. EndsAt(c, bytes, etx + S)
  BY EndsWhereHeld
<1>8. total <= Len(bytes)
  BY DEF Holds
<1>9. Len(bytes) \in Nat /\ total \in Nat
  BY <1>1, <1>3, <1>4 DEF IsSeq
<1> HIDE DEF etx, S, total, P
<1>10. ~(etx = 0 \/ Len(bytes) < total)
  BY <1>3, <1>8, <1>9
<1>11. DecodeDataTo(c, bytes, etx, total) = Complete(Success(content), total)
  BY <1>2, <1>6, <1>7, <1>10 DEF DecodeDataTo, S, P
<1> QED BY <1>5, <1>11 DEF DecodeData, etx, S, total, P

LEMMA DataOpening ==
  ASSUME NEW c \in Configs, NEW sender \in Senders, NEW content, NoEtx(content),
         NEW frame, Holds(frame, 1, Covered(c, sender, content)),
         NEW bytes, Opens(bytes, frame),
         Len(frame) = EtxOf(c, content) + SumSize(c) + Len(Terminator(c))
  PROVE  DecodeData(c, bytes) = Incomplete
<1> DEFINE P == PrefixSize(c)
           etx == EtxOf(c, content)
<1>1. IsSeq(content) /\ IsSeq(bytes) /\ Len(bytes) \in Nat /\ Len(bytes) < Len(frame)
  BY DEF NoEtx, Opens, IsSeq
<1>2. Holds(frame, P, content) /\ frame[etx] = ETX
  BY <1>1, CoveredHeld
<1>3. etx \in Nat /\ P \in {2, 3} /\ etx - 1 = P + Len(content) /\ Len(content) \in Nat
  BY <1>1, EtxOfIs
<1>4. EtxFrom(bytes, P + 1) = IF etx <= Len(bytes) THEN etx ELSE 0
  <2>1. ASSUME NEW i \in (P + 1)..(etx - 1), i <= Len(bytes) PROVE bytes[i] # ETX
    <3>1. i - P \in 1..Len(content) /\ P + (i - P) = i /\ i \in 1..Len(bytes)
      BY <1>1, <1>3, <2>1
    <3>2. frame[P + (i - P)] = content[i - P] /\ bytes[i] = frame[i]
      BY <1>2, <3>1 DEF Holds, Opens
    <3> QED BY <3>1, <3>2 DEF NoEtx
  <2>2. P + 1 \in Nat \ {0} /\ P + 1 <= etx
    BY <1>3
  <2>3. etx <= Len(bytes) => bytes[etx] = ETX
    BY <1>1, <1>2, <1>3 DEF Opens
  <2> HIDE DEF P, etx
  <2> QED BY <1>1, <2>1, <2>2, <2>3, EtxFound DEF etx
<1>5. Len(frame) = etx + SumSize(c) + Len(Terminator(c))
  OBVIOUS
<1> HIDE DEF etx
<1> DEFINE found == EtxFrom(bytes, P + 1)
           total == found + SumSize(c) + Len(Terminator(c))
<1>6. found = 0 \/ Len(bytes) < total
  BY <1>1, <1>4, <1>5
<1>7. DecodeDataTo(c, bytes, found, total) = Incomplete
  BY <1>6 DEF DecodeDataTo
<1> QED BY <1>7 DEF DecodeData

\* What a Format3 frame says.
Said(end_code, data) ==
  IF end_code = SuccessEndCode THEN Success(data) ELSE PlcError(data[1])

\* Its end code and data, as the encoder puts them.
Sayable(end_code, data) ==
  /\ NoEtx(data)
  /\ \/ end_code = SuccessEndCode
     \/ end_code = ErrorEndCode /\ Len(data) = 1 /\ data[1] \in Hex

\* Only data has a checksum.
SumAfter(c, end_code, data) ==
  IF end_code = SuccessEndCode /\ data # <<>> THEN SumSize(c) ELSE 0

LEMMA SayableIs ==
  ASSUME NEW c \in Configs, NEW end_code, NEW data, Sayable(end_code, data)
  PROVE  /\ IsSeq(data) /\ Len(data) \in Nat /\ (data = <<>> <=> Len(data) = 0)
         /\ IsSeq(<<end_code>> \o data)
         /\ Holds(<<end_code>> \o data, 0, <<end_code>>)
         /\ Holds(<<end_code>> \o data, 1, data)
         /\ EtxOf(c, <<end_code>> \o data) = PrefixSize(c) + 2 + Len(data)
         /\ SumAfter(c, end_code, data) \in {0, 2} /\ PrefixSize(c) \in {2, 3}
<1>1. IsSeq(data) /\ Len(data) \in Nat
  BY DEF Sayable, NoEtx, IsSeq
<1>2. data = <<>> <=> Len(data) = 0
  BY <1>1, EmptySeq DEF IsSeq
<1>3. IsSeq(<<end_code>>) /\ Len(<<end_code>>) = 1
  BY One
<1>4. /\ Len(<<end_code>> \o data) = Len(<<end_code>>) + Len(data)
      /\ Holds(<<end_code>> \o data, 0, <<end_code>>)
      /\ Holds(<<end_code>> \o data, Len(<<end_code>>), data)
  BY <1>1, <1>3, Joined
<1>5. PrefixSize(c) \in {2, 3} /\ SumAfter(c, end_code, data) \in {0, 2}
  BY Sizes DEF SumAfter
<1>6. EtxOf(c, <<end_code>> \o data) = PrefixSize(c) + 2 + Len(data)
  BY <1>1, <1>3, <1>4, <1>5 DEF EtxOf
<1> QED BY <1>1, <1>2, <1>3, <1>4, <1>5, <1>6 DEF Holds

LEMMA Format3Whole ==
  ASSUME NEW c \in Configs, NEW sender \in Senders, NEW end_code, NEW data,
         Sayable(end_code, data), NEW bytes,
         Holds(bytes, 1, Covered(c, sender, <<end_code>> \o data)),
         SumAfter(c, end_code, data) # 0 =>
           Holds(bytes, EtxOf(c, <<end_code>> \o data),
                 Checksum(c, Covered(c, sender, <<end_code>> \o data)))
  PROVE  DecodeFormat3(c, bytes)
           = Complete(Said(end_code, data),
                      EtxOf(c, <<end_code>> \o data) + SumAfter(c, end_code, data))
<1> DEFINE content == <<end_code>> \o data
           cover == Covered(c, sender, content)
           P == PrefixSize(c)
           first == P + 2
           etx == EtxOf(c, content)
           sum == IF etx = first THEN 0 ELSE SumSize(c)
<1>1. /\ IsSeq(data) /\ Len(data) \in Nat /\ (data = <<>> <=> Len(data) = 0)
      /\ IsSeq(content) /\ Holds(content, 0, <<end_code>>) /\ Holds(content, 1, data)
      /\ etx = first + Len(data) /\ P \in {2, 3}
  BY SayableIs
<1>0. Holds(bytes, 1, cover)
  OBVIOUS
<1> HIDE DEF content
<1>2. /\ Holds(bytes, P, content) /\ SubSeq(bytes, 2, etx) = cover
      /\ bytes[etx] = ETX /\ etx <= Len(bytes)
  BY <1>0, <1>1, CoveredHeld
<1>3. Holds(bytes, P + 0, <<end_code>>) /\ Holds(bytes, P + 1, data)
  BY <1>1, <1>2, HeldOn
<1>4. bytes[first - 1] = end_code /\ SubSeq(bytes, first, etx - 1) = data
  <2>1. bytes[(P + 0) + 1] = end_code
    BY <1>3, One
  <2>2. SubSeq(bytes, (P + 1) + 1, (P + 1) + Len(data)) = data
    BY <1>3, PartHeld
  <2>3. (P + 0) + 1 = first - 1 /\ (P + 1) + 1 = first /\ (P + 1) + Len(data) = etx - 1
    BY <1>1
  <2> QED BY <2>1, <2>2, <2>3
<1>5. etx \in Nat /\ first \in Nat \ {0} /\ first <= etx /\ Len(bytes) \in Nat /\ IsSeq(bytes)
  BY <1>1 DEF Holds, IsSeq
<1>6. EtxFrom(bytes, first) = etx
  <2>1. ASSUME NEW i \in first..(etx - 1) PROVE bytes[i] # ETX
    <3>1. i - (P + 1) \in 1..Len(data) /\ (P + 1) + (i - (P + 1)) = i
      BY <1>1
    <3>2. bytes[(P + 1) + (i - (P + 1))] = data[i - (P + 1)]
      BY <1>3, <3>1 DEF Holds
    <3> QED BY <3>1, <3>2 DEF Sayable, NoEtx
  <2> HIDE DEF first, etx
  <2> QED BY <1>1, <1>2, <1>5, <2>1, EtxFound DEF etx
<1>7. end_code = SuccessEndCode /\ data # <<>>
        => SumSize(c) = 0 \/ (SumMatches(c, bytes, etx) /\ etx + SumSize(c) <= Len(bytes))
  <2> SUFFICES ASSUME end_code = SuccessEndCode /\ data # <<>>, SumSize(c) # 0
               PROVE  SumMatches(c, bytes, etx) /\ etx + SumSize(c) <= Len(bytes)
    OBVIOUS
  <2>1. Holds(bytes, etx, Checksum(c, cover)) /\ Len(Checksum(c, cover)) = SumSize(c)
    BY TailsAre DEF SumAfter, content
  <2>2. SubSeq(bytes, etx + 1, etx + Len(Checksum(c, cover))) = Checksum(c, cover)
    BY <2>1, PartHeld
  <2> QED BY <1>2, <2>1, <2>2 DEF SumMatches, Holds
<1>8. etx # 0 /\ ~(Len(bytes) < first - 1)
  BY <1>1, <1>2, <1>5
<1>9. DecodeFormat3To(c, bytes, end_code, data, etx, sum)
        = Complete(Said(end_code, data), etx + SumAfter(c, end_code, data))
  <2>1. CASE end_code = ErrorEndCode
    <3>1. SuccessEndCode # ErrorEndCode
      BY DEF SuccessEndCode, ErrorEndCode
    <3>2. Len(data) = 1 /\ data[1] \in Hex
      BY <2>1, <3>1 DEF Sayable
    <3>3. SumAfter(c, end_code, data) = 0 /\ Said(end_code, data) = PlcError(data[1])
      BY <2>1, <3>1 DEF SumAfter, Said
    <3>4. DecodeFormat3To(c, bytes, end_code, data, etx, sum) = Complete(PlcError(data[1]), etx)
      BY <1>8, <2>1, <3>2 DEF DecodeFormat3To
    <3>5. etx + 0 = etx
      BY <1>5
    <3> QED BY <3>3, <3>4, <3>5
  <2>2. CASE end_code = SuccessEndCode /\ data = <<>>
    <3>1. sum = 0 /\ SumAfter(c, end_code, data) = 0 /\ Said(end_code, data) = Success(data)
      BY <1>1, <2>2 DEF SumAfter, Said
    <3>2. SuccessEndCode # ErrorEndCode /\ ~(Len(bytes) < etx + 0)
      BY <1>2, <1>5 DEF SuccessEndCode, ErrorEndCode
    <3> HIDE DEF sum, etx
    <3> QED BY <1>8, <2>2, <3>1, <3>2 DEF DecodeFormat3To
  <2>3. CASE end_code = SuccessEndCode /\ data # <<>>
    <3>1. /\ sum = SumSize(c) /\ SumAfter(c, end_code, data) = sum
          /\ Said(end_code, data) = Success(data)
      BY <1>1, <2>3 DEF SumAfter, Said
    <3>2. sum \in {0, 2}
      BY <3>1, Sizes
    <3>3. SuccessEndCode # ErrorEndCode /\ ~(Len(bytes) < etx + sum)
      BY <1>2, <1>5, <1>7, <2>3, <3>1, <3>2 DEF SuccessEndCode, ErrorEndCode
    <3> HIDE DEF sum, etx
    <3> QED BY <1>7, <1>8, <2>3, <3>1, <3>3 DEF DecodeFormat3To
  <2> QED BY <2>1, <2>2, <2>3 DEF Sayable
<1> HIDE DEF etx, sum
<1>10. DecodeFormat3(c, bytes) = DecodeFormat3To(c, bytes, end_code, data, etx, sum)
  BY <1>4, <1>6, <1>8 DEF DecodeFormat3, sum
<1> QED BY <1>9, <1>10 DEF etx, content

LEMMA Format3Opening ==
  ASSUME NEW c \in Configs, NEW sender \in Senders, NEW end_code, NEW data,
         Sayable(end_code, data), NEW frame,
         Holds(frame, 1, Covered(c, sender, <<end_code>> \o data)),
         Len(frame) = EtxOf(c, <<end_code>> \o data) + SumAfter(c, end_code, data),
         NEW bytes, Opens(bytes, frame)
  PROVE  DecodeFormat3(c, bytes) = Incomplete
<1> DEFINE content == <<end_code>> \o data
           P == PrefixSize(c)
           first == P + 2
           etx == EtxOf(c, content)
           found == EtxFrom(bytes, first)
           sum == IF found = first THEN 0 ELSE SumSize(c)
<1>1. /\ IsSeq(data) /\ Len(data) \in Nat /\ (data = <<>> <=> Len(data) = 0)
      /\ IsSeq(content) /\ Holds(content, 0, <<end_code>>) /\ Holds(content, 1, data)
      /\ etx = first + Len(data) /\ P \in {2, 3} /\ SumAfter(c, end_code, data) \in {0, 2}
  BY SayableIs
<1> HIDE DEF content
<1>2. Holds(frame, P, content) /\ frame[etx] = ETX /\ etx <= Len(frame)
  BY <1>1, CoveredHeld DEF content
<1>3. Holds(frame, P + 0, <<end_code>>) /\ Holds(frame, P + 1, data)
  BY <1>1, <1>2, HeldOn
<1>4. frame[first - 1] = end_code
  <2>1. frame[(P + 0) + 1] = end_code
    BY <1>3, One
  <2>2. (P + 0) + 1 = first - 1
    BY <1>1
  <2> QED BY <2>1, <2>2
<1>5. /\ etx \in Nat /\ first \in Nat \ {0} /\ first <= etx /\ Len(bytes) \in Nat /\ IsSeq(bytes)
      /\ Len(bytes) < etx + SumAfter(c, end_code, data)
  BY <1>1 DEF Opens, IsSeq, content
<1>6. found = IF etx <= Len(bytes) THEN etx ELSE 0
  <2>1. ASSUME NEW i \in first..(etx - 1), i <= Len(bytes) PROVE bytes[i] # ETX
    <3>1. i - (P + 1) \in 1..Len(data) /\ (P + 1) + (i - (P + 1)) = i /\ i \in 1..Len(bytes)
      BY <1>1, <1>5, <2>1
    <3>2. frame[(P + 1) + (i - (P + 1))] = data[i - (P + 1)] /\ bytes[i] = frame[i]
      BY <1>3, <3>1 DEF Holds, Opens
    <3> QED BY <3>1, <3>2 DEF Sayable, NoEtx
  <2>2. etx <= Len(bytes) => bytes[etx] = ETX
    BY <1>1, <1>2, <1>5 DEF Opens
  <2> HIDE DEF first, etx
  <2> QED BY <1>1, <1>5, <2>1, <2>2, EtxFound DEF etx
<1>7. Len(bytes) >= first - 1 => bytes[first - 1] = end_code
  BY <1>1, <1>4, <1>5 DEF Opens
<1>8. end_code \in {SuccessEndCode, ErrorEndCode}
  BY DEF Sayable
<1>9. found = 0 \/ (end_code = SuccessEndCode /\ sum # 0 /\ Len(bytes) < found + sum)
  <2> SUFFICES ASSUME found # 0
               PROVE  end_code = SuccessEndCode /\ sum # 0 /\ Len(bytes) < found + sum
    OBVIOUS
  <2>1. found = etx /\ etx <= Len(bytes)
    BY <1>6
  <2>2. SumAfter(c, end_code, data) # 0
    BY <1>1, <1>5, <2>1
  <2>3. end_code = SuccessEndCode /\ data # <<>> /\ SumAfter(c, end_code, data) = SumSize(c)
    BY <2>2 DEF SumAfter
  <2>4. sum = SumSize(c)
    BY <1>1, <2>1, <2>3
  <2> QED BY <1>5, <2>1, <2>2, <2>3, <2>4
<1> HIDE DEF found, sum
<1>10. SuccessEndCode # ErrorEndCode
  BY DEF SuccessEndCode, ErrorEndCode
<1>11. ASSUME NEW part PROVE DecodeFormat3To(c, bytes, end_code, part, found, sum) = Incomplete
  BY <1>8, <1>9, <1>10 DEF DecodeFormat3To
<1> QED BY <1>5, <1>7, <1>11 DEF DecodeFormat3, found, sum

LEMMA Longer ==
  ASSUME NEW s, NEW m, NEW t, NEW u, Holds(s, m, t), IsSeq(u)
  PROVE  /\ Holds(s \o u, m, t) /\ Holds(s \o u, Len(s), u)
         /\ IsSeq(s \o u) /\ Len(s \o u) = Len(s) + Len(u)
<1>1. IsSeq(s) /\ m \in Nat /\ 0 + m = m
  BY DEF Holds
<1>2. /\ Len(s \o u) = Len(s) + Len(u)
      /\ Holds(s \o u, 0, s) /\ Holds(s \o u, Len(s), u)
  BY <1>1, Joined
<1>3. Holds(s \o u, 0 + m, t)
  BY <1>2, HeldOn
<1> QED BY <1>1, <1>2, <1>3 DEF Holds

LEMMA HeldTogether ==
  ASSUME NEW s, NEW m, NEW t, NEW u, Holds(s, m, t), Holds(s, m + Len(t), u)
  PROVE  Holds(s, m, t \o u)
<1>1. /\ IsSeq(s) /\ IsSeq(t) /\ IsSeq(u) /\ m \in Nat
      /\ Len(s) \in Nat /\ Len(t) \in Nat /\ Len(u) \in Nat
      /\ (m + Len(t)) + Len(u) <= Len(s)
  BY DEF Holds, IsSeq
<1> DEFINE tu == t \o u
<1>2. /\ IsSeq(tu) /\ Len(tu) = Len(t) + Len(u)
      /\ \A i \in 1..Len(t) : tu[i] = t[i]
      /\ \A i \in 1..Len(u) : tu[Len(t) + i] = u[i]
  BY <1>1, Concatenated
<1> HIDE DEF tu
<1>3. ASSUME NEW i \in 1..Len(tu) PROVE s[m + i] = tu[i]
  <2>1. CASE i <= Len(t)
    BY <1>1, <1>2, <2>1 DEF Holds
  <2>2. CASE i > Len(t)
    <3>1. i - Len(t) \in 1..Len(u) /\ (m + Len(t)) + (i - Len(t)) = m + i
          /\ Len(t) + (i - Len(t)) = i
      BY <1>1, <1>2, <2>2
    <3>2. s[(m + Len(t)) + (i - Len(t))] = u[i - Len(t)]
      BY <3>1 DEF Holds
    <3>3. tu[Len(t) + (i - Len(t))] = u[i - Len(t)]
      BY <1>2, <3>1
    <3> QED BY <3>1, <3>2, <3>3
  <2> QED BY <1>1, <1>2, <2>1, <2>2
<1>4. m + Len(tu) <= Len(s)
  BY <1>1, <1>2
<1>5. Holds(s, m, tu)
  BY <1>1, <1>2, <1>3, <1>4 DEF Holds
<1> QED BY <1>5 DEF tu

\* A start byte and the block number and station that follow it.
LEMMA Headed ==
  ASSUME NEW c \in Configs, NEW sender \in Senders, NEW start
  PROVE  /\ Heads(<<start>> \o Prefix(c, sender), start, c, sender)
         /\ IsSeq(<<start>> \o Prefix(c, sender))
         /\ Len(<<start>> \o Prefix(c, sender)) = PrefixSize(c)
<1>1. IsSeq(<<start>>) /\ Len(<<start>>) = 1 /\ IsSeq(Prefix(c, sender))
  BY One, PrefixIs
<1>2. /\ Len(<<start>> \o Prefix(c, sender)) = 1 + Len(Prefix(c, sender))
      /\ Holds(<<start>> \o Prefix(c, sender), 0, <<start>>)
      /\ Holds(<<start>> \o Prefix(c, sender), 1, Prefix(c, sender))
  BY <1>1, Joined
<1>3. Len(Prefix(c, sender)) = PrefixSize(c) - 1 /\ PrefixSize(c) \in {2, 3}
  BY PrefixIs, Sizes
<1> QED BY <1>2, <1>3 DEF Heads, Holds

LEMMA HeadedOn ==
  ASSUME NEW c \in Configs, NEW sender \in Senders, NEW start, NEW s, NEW u,
         Heads(s, start, c, sender), IsSeq(u)
  PROVE  Heads(s \o u, start, c, sender)
BY Longer DEF Heads

AckFrame(c, sender) == <<ACK>> \o Prefix(c, sender) \o Terminator(c)
NakFrame(c, sender, code) ==
  <<NAK>> \o Prefix(c, sender) \o <<ErrorEndCode>> \o <<code>> \o Terminator(c)

LEMMA AckFrameIs ==
  ASSUME NEW c \in Configs, NEW sender \in Senders
  PROVE  /\ Heads(AckFrame(c, sender), ACK, c, sender)
         /\ Holds(AckFrame(c, sender), PrefixSize(c), Terminator(c))
         /\ Len(AckFrame(c, sender)) = PrefixSize(c) + Len(Terminator(c))
<1> DEFINE s == <<ACK>> \o Prefix(c, sender)
<1>1. Heads(s, ACK, c, sender) /\ IsSeq(s) /\ Len(s) = PrefixSize(c) /\ IsSeq(Terminator(c))
  BY Headed, TailsAre
<1> HIDE DEF s
<1>2. /\ Heads(s \o Terminator(c), ACK, c, sender)
      /\ Holds(s \o Terminator(c), Len(s), Terminator(c))
      /\ Len(s \o Terminator(c)) = Len(s) + Len(Terminator(c))
  BY <1>1, HeadedOn, Joined
<1>3. AckFrame(c, sender) = s \o Terminator(c)
  BY DEF AckFrame, s
<1> QED BY <1>1, <1>2, <1>3

LEMMA NakFrameIs ==
  ASSUME NEW c \in Configs, NEW sender \in Senders, NEW code
  PROVE  /\ Heads(NakFrame(c, sender, code), NAK, c, sender)
         /\ Holds(NakFrame(c, sender, code), PrefixSize(c), <<ErrorEndCode>>)
         /\ Holds(NakFrame(c, sender, code), PrefixSize(c) + 1, <<code>>)
         /\ Holds(NakFrame(c, sender, code), PrefixSize(c) + 2, Terminator(c))
         /\ Len(NakFrame(c, sender, code)) = PrefixSize(c) + 2 + Len(Terminator(c))
<1> DEFINE s == <<NAK>> \o Prefix(c, sender)
           t == s \o <<ErrorEndCode>>
           u == t \o <<code>>
           v == u \o Terminator(c)
           P == PrefixSize(c)
<1>0. P \in Nat /\ Len(Terminator(c)) \in Nat
  BY Sizes
<1>1. Heads(s, NAK, c, sender) /\ IsSeq(s) /\ Len(s) = P /\ IsSeq(Terminator(c))
  BY Headed, TailsAre
<1>2. /\ IsSeq(<<ErrorEndCode>>) /\ IsSeq(<<code>>)
      /\ Len(<<ErrorEndCode>>) = 1 /\ Len(<<code>>) = 1
  BY One
<1> HIDE DEF s
<1>3. /\ Heads(t, NAK, c, sender) /\ Len(t) = P + 1 /\ IsSeq(t)
      /\ Holds(t, P, <<ErrorEndCode>>)
  BY <1>1, <1>2, HeadedOn, Joined DEF Holds
<1> HIDE DEF t
<1>4. /\ Heads(u, NAK, c, sender) /\ Len(u) = P + 1 + 1 /\ IsSeq(u)
      /\ Holds(u, P + 1, <<code>>) /\ Holds(u, P, <<ErrorEndCode>>)
  BY <1>2, <1>3, HeadedOn, Longer
<1> HIDE DEF u
<1>5. /\ Heads(v, NAK, c, sender) /\ Len(v) = P + 1 + 1 + Len(Terminator(c))
      /\ Holds(v, P + 1, <<code>>) /\ Holds(v, P, <<ErrorEndCode>>)
      /\ Holds(v, P + 1 + 1, Terminator(c))
  BY <1>1, <1>4, HeadedOn, Longer
<1> HIDE DEF v
<1>6. P + 1 + 1 = P + 2
  BY <1>0
<1>7. NakFrame(c, sender, code) = v
  BY DEF NakFrame, v, u, t, s
<1> QED BY <1>5, <1>6, <1>7

\* A frame with data of Formats 1, 2 and 4, and one of Format3.
StxFrame(c, sender, content, sum) ==
  <<STX>> \o Covered(c, sender, content)
    \o (IF sum THEN Checksum(c, Covered(c, sender, content)) ELSE <<>>) \o Terminator(c)

LEMMA StxFrameIs ==
  ASSUME NEW c \in Configs, NEW sender \in Senders, NEW content, IsSeq(content),
         NEW sum \in BOOLEAN
  PROVE  /\ Heads(StxFrame(c, sender, content, sum), STX, c, sender)
         /\ Holds(StxFrame(c, sender, content, sum), 1, Covered(c, sender, content))
         /\ sum => /\ Holds(StxFrame(c, sender, content, sum), EtxOf(c, content),
                            Checksum(c, Covered(c, sender, content)))
                   /\ Holds(StxFrame(c, sender, content, sum),
                            EtxOf(c, content) + SumSize(c), Terminator(c))
         /\ Len(StxFrame(c, sender, content, sum))
              = EtxOf(c, content) + (IF sum THEN SumSize(c) ELSE 0) + Len(Terminator(c))
<1> DEFINE cover == Covered(c, sender, content)
           s == <<STX>> \o cover
           tail == IF sum THEN Checksum(c, cover) ELSE <<>>
           t == s \o tail
           u == t \o Terminator(c)
           etx == EtxOf(c, content)
<1>1. /\ Len(cover) = PrefixSize(c) + Len(content) /\ Len(content) \in Nat
      /\ Holds(cover, 0, Prefix(c, sender))
  BY CoveredIs
<1>2. IsSeq(cover) /\ IsSeq(<<STX>>) /\ Len(<<STX>>) = 1
  BY <1>1, One DEF Holds
<1>3. /\ IsSeq(tail) /\ Len(tail) = IF sum THEN SumSize(c) ELSE 0
      /\ IsSeq(Terminator(c)) /\ Len(tail) \in {0, 2} /\ Len(Terminator(c)) \in {0, 2}
  <2>1. IsSeq(<<>>) /\ Len(<<>>) = 0
    BY Tuples
  <2>2. IsSeq(Checksum(c, cover)) /\ Len(Checksum(c, cover)) = SumSize(c)
    BY TailsAre
  <2>3. IsSeq(Terminator(c)) /\ Len(Terminator(c)) \in {0, 2} /\ SumSize(c) \in {0, 2}
    BY TailsAre
  <2>4. CASE sum
    BY <2>2, <2>3, <2>4
  <2>5. CASE ~sum
    BY <2>1, <2>3, <2>5
  <2> QED BY <2>4, <2>5
<1>4. etx = 1 + Len(cover) /\ etx \in Nat
  BY <1>1, EtxOfIs DEF EtxOf
<1>5. sum => tail = Checksum(c, cover)
  OBVIOUS
<1> HIDE DEF cover, tail, etx
<1>6. /\ Len(s) = etx /\ Holds(s, 0, <<STX>>) /\ Holds(s, 1, cover) /\ IsSeq(s)
  BY <1>2, <1>4, Joined DEF Holds
<1> HIDE DEF s
<1>7. Holds(s, 1, Prefix(c, sender))
  <2>1. Holds(s, 1 + 0, Prefix(c, sender))
    BY <1>1, <1>6, HeldOn DEF cover
  <2> QED BY <2>1
<1>8. /\ Len(t) = etx + Len(tail) /\ Holds(t, 0, <<STX>>) /\ Holds(t, 1, cover) /\ IsSeq(t)
      /\ Holds(t, 1, Prefix(c, sender)) /\ Holds(t, etx, tail)
  BY <1>3, <1>6, <1>7, Longer
<1> HIDE DEF t
<1>9. /\ Len(u) = etx + Len(tail) + Len(Terminator(c))
      /\ Holds(u, 0, <<STX>>) /\ Holds(u, 1, cover)
      /\ Holds(u, 1, Prefix(c, sender)) /\ Holds(u, etx, tail)
      /\ Holds(u, etx + Len(tail), Terminator(c))
  <2>1. IsSeq(Terminator(c)) /\ IsSeq(t)
    BY <1>3, <1>8
  <2>2. Len(u) = Len(t) + Len(Terminator(c)) /\ Holds(u, Len(t), Terminator(c))
    BY <2>1, Joined
  <2>3. ASSUME NEW m, NEW part, Holds(t, m, part) PROVE Holds(u, m, part)
    BY <2>1, <2>3, Longer
  <2> QED BY <1>8, <2>2, <2>3
<1> HIDE DEF u
<1>10. StxFrame(c, sender, content, sum) = u
  BY DEF StxFrame, u, t, s, tail, cover
<1>11. sum => Holds(u, etx, Checksum(c, cover)) /\ Holds(u, etx + SumSize(c), Terminator(c))
  BY <1>3, <1>5, <1>9
<1>12. Heads(u, STX, c, sender)
  BY <1>9 DEF Heads
<1> QED BY <1>3, <1>9, <1>10, <1>11, <1>12 DEF cover, etx

LEMMA Associative ==
  ASSUME NEW s, NEW t, NEW u, IsSeq(s), IsSeq(t), IsSeq(u)
  PROVE  (s \o t) \o u = s \o (t \o u) /\ s \o <<>> = s /\ IsSeq(s \o t)
<1>1. PICK S, T, U : s \in Seq(S) /\ t \in Seq(T) /\ u \in Seq(U)
  BY DEF IsSeq
<1>2. s \in Seq(S \cup T \cup U) /\ t \in Seq(S \cup T \cup U) /\ u \in Seq(S \cup T \cup U)
  BY <1>1
<1> HIDE <1>1
<1>3. (s \o t) \o u = s \o (t \o u)
  BY <1>2, ConcatAssociative
<1>4. s \o <<>> = s
  BY <1>2, ConcatEmptySeq
<1> QED BY <1>3, <1>4, Concatenated

\* Replies that a frame of this format can carry.
Sendable(c, reply) ==
  \/ \E data : /\ reply = Success(data) /\ IsSeq(data)
               /\ IsAscii(c) => NoEtx(data)
  \/ \E code : /\ reply = PlcError(code)
               /\ IF IsAscii(c) THEN code \in Hex ELSE code # Zero

LEMMA RepliesAre ==
  /\ \A data : Success(data).type = "Success" /\ Success(data).data = data
  /\ \A code : PlcError(code).type = "PlcError" /\ PlcError(code).data = <<code>>
  BY DEF Success, PlcError

LEMMA EnqFrames ==
  ASSUME NEW c \in Configs, NEW sender \in Senders, IsEnqFamily(c)
  PROVE  /\ \A code : EncodeAscii(c, sender, PlcError(code)) = NakFrame(c, sender, code)
         /\ \A data : EncodeAscii(c, sender, Success(data))
                        = IF data = <<>> THEN AckFrame(c, sender)
                          ELSE StxFrame(c, sender, data, TRUE)
<1>1. ASSUME NEW code
      PROVE  EncodeAscii(c, sender, PlcError(code)) = NakFrame(c, sender, code)
  BY RepliesAre DEF EncodeAscii, NakFrame
<1>2. ASSUME NEW data
      PROVE  EncodeAscii(c, sender, Success(data))
               = IF data = <<>> THEN AckFrame(c, sender) ELSE StxFrame(c, sender, data, TRUE)
  BY RepliesAre DEF EncodeAscii, AckFrame, StxFrame
<1> QED BY <1>1, <1>2

LEMMA Format3Frames ==
  ASSUME NEW c \in Configs, NEW sender \in Senders, ~IsEnqFamily(c), IsAscii(c)
  PROVE  /\ \A code : EncodeAscii(c, sender, PlcError(code))
                        = StxFrame(c, sender, <<ErrorEndCode>> \o <<code>>, FALSE)
         /\ \A data : IsSeq(data) =>
              EncodeAscii(c, sender, Success(data))
                = StxFrame(c, sender, <<SuccessEndCode>> \o data, data # <<>>)
         /\ Terminator(c) = <<>>
<1>0. Terminator(c) = <<>>
  BY DEF Terminator, IsEnqFamily
<1> DEFINE head == Prefix(c, sender)
<1>1. IsSeq(head) /\ \A a : IsSeq(<<a>>)
  BY PrefixIs, One
<1>2. \A s, t, u : IsSeq(s) /\ IsSeq(t) /\ IsSeq(u)
                     => (s \o t) \o u = s \o (t \o u) /\ s \o <<>> = s /\ IsSeq(s \o t)
  BY Associative
<1>3. ASSUME NEW content, IsSeq(content)
      PROVE  /\ IsSeq(Covered(c, sender, content))
             /\ StxFrame(c, sender, content, FALSE) = <<STX>> \o Covered(c, sender, content)
  <2>1. IsSeq(Covered(c, sender, content))
    BY <1>1, <1>2, <1>3 DEF Covered
  <2>2. IsSeq(<<STX>> \o Covered(c, sender, content))
    BY <1>1, <1>2, <2>1
  <2>3. (<<STX>> \o Covered(c, sender, content)) \o <<>> = <<STX>> \o Covered(c, sender, content)
    BY <1>2, <2>2
  <2> QED BY <1>0, <2>1, <2>3 DEF StxFrame
<1>4. ASSUME NEW code
      PROVE  EncodeAscii(c, sender, PlcError(code))
               = StxFrame(c, sender, <<ErrorEndCode>> \o <<code>>, FALSE)
  <2> DEFINE e == <<ErrorEndCode>>
             d == <<code>>
             x == <<STX>>
             z == <<ETX>>
  <2>1. EncodeAscii(c, sender, PlcError(code)) = (((x \o head) \o e) \o d) \o z
    BY RepliesAre DEF EncodeAscii
  <2>2. Covered(c, sender, e \o d) = (head \o (e \o d)) \o z
    BY DEF Covered
  <2>3. IsSeq(e) /\ IsSeq(d) /\ IsSeq(x) /\ IsSeq(z) /\ IsSeq(head)
    BY <1>1
  <2> HIDE DEF e, d, x, z, head
  <2>4. IsSeq(e \o d) /\ IsSeq(head \o (e \o d)) /\ IsSeq(x \o head) /\ IsSeq((x \o head) \o e)
    BY <1>2, <2>3
  <2>5. ((x \o head) \o e) \o d = (x \o head) \o (e \o d)
    BY <1>2, <2>3, <2>4
  <2>6. (x \o head) \o (e \o d) = x \o (head \o (e \o d))
    BY <1>2, <2>3, <2>4
  <2>7. (x \o (head \o (e \o d))) \o z = x \o ((head \o (e \o d)) \o z)
    <3> DEFINE w == head \o (e \o d)
    <3>1. IsSeq(w)
      BY <2>4
    <3> HIDE DEF w
    <3>2. (x \o w) \o z = x \o (w \o z)
      BY <1>2, <2>3, <3>1
    <3> QED BY <3>2 DEF w
  <2>8. EncodeAscii(c, sender, PlcError(code)) = x \o Covered(c, sender, e \o d)
    BY <2>1, <2>2, <2>5, <2>6, <2>7
  <2> QED BY <1>3, <2>4, <2>8 DEF e, d, x
<1>5. ASSUME NEW data, IsSeq(data)
      PROVE  EncodeAscii(c, sender, Success(data))
               = StxFrame(c, sender, <<SuccessEndCode>> \o data, data # <<>>)
  <2>1. IsSeq(<<SuccessEndCode>> \o data)
    BY <1>1, <1>2, <1>5
  <2>2. CASE data = <<>>
    <3>1. EncodeAscii(c, sender, Success(data))
            = <<STX>> \o Covered(c, sender, <<SuccessEndCode>> \o data)
      BY <2>2, RepliesAre DEF EncodeAscii
    <3>2. (data # <<>>) = FALSE
      BY <2>2
    <3> QED BY <1>3, <2>1, <3>1, <3>2
  <2>3. CASE data # <<>>
    <3>1. (data # <<>>) = TRUE
      BY <2>3
    <3>2. EncodeAscii(c, sender, Success(data))
            = StxFrame(c, sender, <<SuccessEndCode>> \o data, TRUE)
      BY <2>3, RepliesAre DEF EncodeAscii, StxFrame
    <3> QED BY <3>1, <3>2
  <2> QED BY <2>2, <2>3
<1> QED BY <1>0, <1>4, <1>5

LEMMA HeadsHeld ==
  ASSUME NEW c \in Configs, NEW sender \in Senders, NEW start, NEW frame,
         Heads(frame, start, c, sender), NEW bytes, Holds(bytes, 0, frame)
  PROVE  Heads(bytes, start, c, sender)
<1>1. Holds(bytes, 0 + 0, <<start>>) /\ Holds(bytes, 0 + 1, Prefix(c, sender))
  BY HeldOn DEF Heads
<1> QED BY <1>1 DEF Heads

LEMMA HeldAtFront ==
  ASSUME NEW bytes, NEW frame, NEW m, NEW part, Holds(bytes, 0, frame), Holds(frame, m, part)
  PROVE  Holds(bytes, m, part)
<1>1. Holds(bytes, 0 + m, part)
  BY HeldOn
<1>2. 0 + m = m
  BY DEF Holds
<1> QED BY <1>1, <1>2

\* What DecodeAscii makes of a frame that is all there.
DecodesTo(c, sender, bytes, result) ==
  \E foreign : /\ foreign <=> ForeignTo(c, sender)
               /\ DecodeAscii(c, bytes) = Judgement(result, foreign)

LEMMA Starts ==
  /\ STX # ACK /\ STX # NAK /\ ACK # NAK /\ ETX # DLE /\ STX # DLE /\ STX # ETX
  /\ SuccessEndCode # ErrorEndCode
  BY DEF STX, ACK, NAK, ETX, DLE, SuccessEndCode, ErrorEndCode

LEMMA HexIsNoEtx ==
  ASSUME NEW code \in Hex
  PROVE  Sayable(ErrorEndCode, <<code>>)
<1>1. code # ETX
  BY DEF Hex, ETX
<1> QED BY <1>1, One, Starts DEF Sayable, NoEtx

LEMMA EnqWhole ==
  ASSUME NEW c \in Configs, NEW sender \in Senders, IsEnqFamily(c), IsAscii(c),
         NEW reply, Sendable(c, reply),
         NEW bytes, Holds(bytes, 0, EncodeAscii(c, sender, reply))
  PROVE  DecodesTo(c, sender, bytes, Complete(reply, Len(EncodeAscii(c, sender, reply))))
<1> DEFINE frame == EncodeAscii(c, sender, reply)
<1>1. ASSUME NEW start, Heads(frame, start, c, sender)
      PROVE  /\ bytes[1] = start /\ bytes[PrefixSize(c)] \in Hex
             /\ \E foreign : /\ foreign <=> ForeignTo(c, sender)
                             /\ DecodeAscii(c, bytes)
                                  = Judgement(DecodeAsciiBody(c, bytes), foreign)
  <2>1. Heads(bytes, start, c, sender)
    BY <1>1, HeadsHeld
  <2> QED BY <2>1, AsciiHead
<1>2. ASSUME NEW start, Heads(frame, start, c, sender),
             DecodeAsciiBody(c, bytes) = Complete(reply, Len(frame))
      PROVE  DecodesTo(c, sender, bytes, Complete(reply, Len(frame)))
  BY <1>1, <1>2 DEF DecodesTo
<1>3. DecodesTo(c, sender, bytes, Complete(reply, Len(frame)))
  <2>1. CASE \E data : reply = Success(data) /\ IsSeq(data) /\ NoEtx(data)
    <3>1. PICK data : reply = Success(data) /\ IsSeq(data) /\ NoEtx(data)
      BY <2>1
    <3>2. CASE data = <<>>
      <4>1. frame = AckFrame(c, sender)
        BY <3>1, <3>2, EnqFrames
      <4>2. Heads(frame, ACK, c, sender) /\ Holds(frame, PrefixSize(c), Terminator(c))
            /\ Len(frame) = PrefixSize(c) + Len(Terminator(c))
        BY <4>1, AckFrameIs
      <4>3. Holds(bytes, PrefixSize(c), Terminator(c))
        BY <4>2, HeldAtFront
      <4>4. DecodeAck(c, bytes) = Complete(Success(<<>>), Len(frame))
        BY <4>2, <4>3, AckWhole
      <4>5. bytes[1] = ACK /\ bytes[PrefixSize(c)] \in Hex
        BY <1>1, <4>2
      <4>6. DecodeAsciiBody(c, bytes) = Complete(reply, Len(frame))
        BY <3>1, <3>2, <4>4, <4>5 DEF DecodeAsciiBody
      <4> QED BY <1>2, <4>2, <4>6
    <3>3. CASE data # <<>>
      <4>1. frame = StxFrame(c, sender, data, TRUE)
        BY <3>1, <3>3, EnqFrames
      <4>2. /\ Heads(frame, STX, c, sender)
            /\ Holds(frame, 1, Covered(c, sender, data))
            /\ Holds(frame, EtxOf(c, data), Checksum(c, Covered(c, sender, data)))
            /\ Holds(frame, EtxOf(c, data) + SumSize(c), Terminator(c))
            /\ Len(frame) = EtxOf(c, data) + SumSize(c) + Len(Terminator(c))
        BY <3>1, <4>1, StxFrameIs
      <4> HIDE DEF frame
      <4>3. /\ Holds(bytes, 1, Covered(c, sender, data))
            /\ Holds(bytes, EtxOf(c, data), Checksum(c, Covered(c, sender, data)))
            /\ Holds(bytes, EtxOf(c, data) + SumSize(c), Terminator(c))
        BY <4>2, HeldAtFront DEF frame
      <4>4. DecodeData(c, bytes) = Complete(Success(data), Len(frame))
        BY <3>1, <4>2, <4>3, DataWhole
      <4>5. bytes[1] = STX /\ bytes[PrefixSize(c)] \in Hex
        BY <1>1, <4>2
      <4>6. DecodeAsciiBody(c, bytes) = Complete(reply, Len(frame))
        BY <3>1, <4>4, <4>5, Starts DEF DecodeAsciiBody
      <4> QED BY <1>2, <4>2, <4>6
    <3> QED BY <3>2, <3>3
  <2>2. CASE \E code \in Hex : reply = PlcError(code)
    <3>1. PICK code \in Hex : reply = PlcError(code)
      BY <2>2
    <3>2. frame = NakFrame(c, sender, code)
      BY <3>1, EnqFrames
    <3>3. /\ Heads(frame, NAK, c, sender)
          /\ Holds(frame, PrefixSize(c), <<ErrorEndCode>>)
          /\ Holds(frame, PrefixSize(c) + 1, <<code>>)
          /\ Holds(frame, PrefixSize(c) + 2, Terminator(c))
          /\ Len(frame) = PrefixSize(c) + 2 + Len(Terminator(c))
      BY <3>2, NakFrameIs
    <3> HIDE DEF frame
    <3>4. /\ Holds(bytes, PrefixSize(c), <<ErrorEndCode>>)
          /\ Holds(bytes, PrefixSize(c) + 1, <<code>>)
          /\ Holds(bytes, PrefixSize(c) + 2, Terminator(c))
      BY <3>3, HeldAtFront DEF frame
    <3>5. DecodeNak(c, bytes) = Complete(PlcError(code), Len(frame))
      BY <3>3, <3>4, NakWhole
    <3>6. bytes[1] = NAK /\ bytes[PrefixSize(c)] \in Hex
      BY <1>1, <3>3
    <3>7. DecodeAsciiBody(c, bytes) = Complete(reply, Len(frame))
      BY <3>1, <3>5, <3>6, Starts DEF DecodeAsciiBody
    <3> QED BY <1>2, <3>3, <3>7
  <2> QED BY <2>1, <2>2 DEF Sendable
<1> QED BY <1>3

\* A frame of Format3, by its end code and data.
LEMMA Format3FrameIs ==
  ASSUME NEW c \in Configs, NEW sender \in Senders, ~IsEnqFamily(c), IsAscii(c),
         NEW reply, Sendable(c, reply)
  PROVE  LET frame == EncodeAscii(c, sender, reply) IN
         \E end_code, data :
           /\ Sayable(end_code, data) /\ Said(end_code, data) = reply
           /\ frame = StxFrame(c, sender, <<end_code>> \o data,
                               end_code = SuccessEndCode /\ data # <<>>)
           /\ Len(frame) = EtxOf(c, <<end_code>> \o data) + SumAfter(c, end_code, data)
           /\ Heads(frame, STX, c, sender)
           /\ Holds(frame, 1, Covered(c, sender, <<end_code>> \o data))
           /\ SumAfter(c, end_code, data) # 0 =>
                Holds(frame, EtxOf(c, <<end_code>> \o data),
                      Checksum(c, Covered(c, sender, <<end_code>> \o data)))
<1> DEFINE frame == EncodeAscii(c, sender, reply)
<1>1. \E end_code, data :
        /\ Sayable(end_code, data) /\ Said(end_code, data) = reply
        /\ frame = StxFrame(c, sender, <<end_code>> \o data,
                            end_code = SuccessEndCode /\ data # <<>>)
  <2>1. CASE \E data : reply = Success(data) /\ IsSeq(data) /\ NoEtx(data)
    <3>1. PICK data : reply = Success(data) /\ IsSeq(data) /\ NoEtx(data)
      BY <2>1
    <3>2. Sayable(SuccessEndCode, data) /\ Said(SuccessEndCode, data) = reply
      BY <3>1 DEF Sayable, Said
    <3>3. frame = StxFrame(c, sender, <<SuccessEndCode>> \o data, data # <<>>)
      BY <3>1, Format3Frames
    <3>4. (SuccessEndCode = SuccessEndCode /\ data # <<>>) = (data # <<>>)
      OBVIOUS
    <3> QED BY <3>2, <3>3, <3>4
  <2>2. CASE \E code \in Hex : reply = PlcError(code)
    <3>1. PICK code \in Hex : reply = PlcError(code)
      BY <2>2
    <3>2. Sayable(ErrorEndCode, <<code>>) /\ Said(ErrorEndCode, <<code>>) = reply
      BY <3>1, HexIsNoEtx, Starts DEF Said
    <3>3. frame = StxFrame(c, sender, <<ErrorEndCode>> \o <<code>>, FALSE)
      BY <3>1, Format3Frames
    <3>4. (ErrorEndCode = SuccessEndCode /\ <<code>> # <<>>) = FALSE
      BY Starts
    <3> QED BY <3>2, <3>3, <3>4
  <2> QED BY <2>1, <2>2 DEF Sendable
<1>2. PICK end_code, data :
        /\ Sayable(end_code, data) /\ Said(end_code, data) = reply
        /\ frame = StxFrame(c, sender, <<end_code>> \o data,
                            end_code = SuccessEndCode /\ data # <<>>)
  BY <1>1
<1> DEFINE content == <<end_code>> \o data
           sum == end_code = SuccessEndCode /\ data # <<>>
<1> HIDE DEF frame
<1>3. IsSeq(content) /\ Terminator(c) = <<>> /\ Len(<<>>) = 0
  BY <1>2, SayableIs, Format3Frames
<1>4. sum \in BOOLEAN /\ frame = StxFrame(c, sender, content, sum)
  BY <1>2
<1> HIDE DEF content, sum
<1>5. /\ Heads(frame, STX, c, sender) /\ Holds(frame, 1, Covered(c, sender, content))
      /\ sum => Holds(frame, EtxOf(c, content), Checksum(c, Covered(c, sender, content)))
      /\ Len(frame)
           = EtxOf(c, content) + (IF sum THEN SumSize(c) ELSE 0) + Len(Terminator(c))
  BY <1>3, <1>4, StxFrameIs
<1>6. SumAfter(c, end_code, data) = IF sum THEN SumSize(c) ELSE 0
  BY DEF SumAfter, sum
<1>7. Len(frame) = EtxOf(c, content) + SumAfter(c, end_code, data)
  <2>1. EtxOf(c, content) \in Nat /\ SumAfter(c, end_code, data) \in {0, 2}
    BY <1>2, <1>3, SayableIs, EtxOfIs
  <2> QED BY <1>3, <1>5, <1>6, <2>1
<1>8. SumAfter(c, end_code, data) # 0 => sum
  BY <1>6
<1> QED BY <1>2, <1>5, <1>7, <1>8 DEF content, frame

LEMMA Format3FrameWhole ==
  ASSUME NEW c \in Configs, NEW sender \in Senders, ~IsEnqFamily(c), IsAscii(c),
         NEW reply, Sendable(c, reply),
         NEW bytes, Holds(bytes, 0, EncodeAscii(c, sender, reply))
  PROVE  DecodesTo(c, sender, bytes, Complete(reply, Len(EncodeAscii(c, sender, reply))))
<1> DEFINE frame == EncodeAscii(c, sender, reply)
<1>1. PICK end_code, data :
        /\ Sayable(end_code, data) /\ Said(end_code, data) = reply
        /\ Len(frame) = EtxOf(c, <<end_code>> \o data) + SumAfter(c, end_code, data)
        /\ Heads(frame, STX, c, sender)
        /\ Holds(frame, 1, Covered(c, sender, <<end_code>> \o data))
        /\ SumAfter(c, end_code, data) # 0 =>
             Holds(frame, EtxOf(c, <<end_code>> \o data),
                   Checksum(c, Covered(c, sender, <<end_code>> \o data)))
  BY Format3FrameIs
<1>2. Holds(bytes, 0, frame)
  OBVIOUS
<1> HIDE DEF frame
<1>3. /\ Holds(bytes, 1, Covered(c, sender, <<end_code>> \o data))
      /\ SumAfter(c, end_code, data) # 0 =>
           Holds(bytes, EtxOf(c, <<end_code>> \o data),
                 Checksum(c, Covered(c, sender, <<end_code>> \o data)))
  BY <1>1, <1>2, HeldAtFront
<1>4. DecodeFormat3(c, bytes) = Complete(reply, Len(frame))
  BY <1>1, <1>3, Format3Whole
<1>5. Heads(bytes, STX, c, sender)
  BY <1>1, <1>2, HeadsHeld
<1>6. DecodeAsciiBody(c, bytes) = Complete(reply, Len(frame))
  BY <1>4, <1>5, AsciiHead DEF DecodeAsciiBody
<1> QED BY <1>5, <1>6, AsciiHead DEF DecodesTo, frame

\* What is known of an unfinished frame.
OpensTo(c, sender, bytes) ==
  \/ DecodeAscii(c, bytes) = Incomplete
  \/ \E foreign : DecodeAscii(c, bytes) = Judgement(Incomplete, foreign)

LEMMA OpeningOf ==
  ASSUME NEW c \in Configs, NEW sender \in Senders, NEW start, NEW frame,
         Heads(frame, start, c, sender), NEW bytes, Opens(bytes, frame), bytes # <<>>,
         Heads(bytes, start, c, sender) => DecodeAsciiBody(c, bytes) = Incomplete
  PROVE  OpensTo(c, sender, bytes)
<1>1. CASE Len(bytes) < PrefixSize(c)
  BY <1>1, AsciiOpening DEF OpensTo
<1>2. CASE ~(Len(bytes) < PrefixSize(c))
  <2>1. Heads(bytes, start, c, sender)
    BY <1>2, AsciiOpening
  <2> QED BY <2>1, AsciiHead DEF OpensTo
<1> QED BY <1>1, <1>2

LEMMA EnqOpening ==
  ASSUME NEW c \in Configs, NEW sender \in Senders, IsEnqFamily(c), IsAscii(c),
         NEW reply, Sendable(c, reply),
         NEW bytes, Opens(bytes, EncodeAscii(c, sender, reply)), bytes # <<>>
  PROVE  OpensTo(c, sender, bytes)
<1> DEFINE frame == EncodeAscii(c, sender, reply)
<1>0. IsSeq(bytes) /\ Len(bytes) \in Nat /\ Len(bytes) < Len(frame) /\ PrefixSize(c) \in {2, 3}
  BY Sizes DEF Opens, IsSeq
<1>1. CASE \E data : reply = Success(data) /\ IsSeq(data) /\ NoEtx(data)
  <2>1. PICK data : reply = Success(data) /\ IsSeq(data) /\ NoEtx(data)
    BY <1>1
  <2>2. CASE data = <<>>
    <3>1. frame = AckFrame(c, sender)
      BY <2>1, <2>2, EnqFrames
    <3>2. /\ Heads(frame, ACK, c, sender)
          /\ Len(frame) = PrefixSize(c) + Len(Terminator(c))
      BY <3>1, AckFrameIs
    <3>3. DecodeAck(c, bytes) = Incomplete
      BY <1>0, <3>2 DEF DecodeAck
    <3>4. Heads(bytes, ACK, c, sender) => DecodeAsciiBody(c, bytes) = Incomplete
      BY <3>3, AsciiHead DEF DecodeAsciiBody
    <3> QED BY <3>2, <3>4, OpeningOf
  <2>3. CASE data # <<>>
    <3>1. frame = StxFrame(c, sender, data, TRUE)
      BY <2>1, <2>3, EnqFrames
    <3>2. /\ Heads(frame, STX, c, sender)
          /\ Holds(frame, 1, Covered(c, sender, data))
          /\ Len(frame) = EtxOf(c, data) + SumSize(c) + Len(Terminator(c))
      BY <2>1, <3>1, StxFrameIs
    <3> HIDE DEF frame
    <3>3. Opens(bytes, frame)
      BY DEF frame
    <3>4. DecodeData(c, bytes) = Incomplete
      BY <2>1, <3>2, <3>3, DataOpening
    <3>5. Heads(bytes, STX, c, sender) => DecodeAsciiBody(c, bytes) = Incomplete
      BY <3>4, AsciiHead, Starts DEF DecodeAsciiBody
    <3> QED BY <3>2, <3>3, <3>5, OpeningOf
  <2> QED BY <2>2, <2>3
<1>2. CASE \E code \in Hex : reply = PlcError(code)
  <2>1. PICK code \in Hex : reply = PlcError(code)
    BY <1>2
  <2>2. frame = NakFrame(c, sender, code)
    BY <2>1, EnqFrames
  <2>3. /\ Heads(frame, NAK, c, sender)
        /\ Holds(frame, PrefixSize(c), <<ErrorEndCode>>)
        /\ Len(frame) = PrefixSize(c) + 2 + Len(Terminator(c))
    BY <2>2, NakFrameIs
  <2>4. Len(bytes) > PrefixSize(c) => bytes[PrefixSize(c) + 1] = ErrorEndCode
    <3>1. frame[PrefixSize(c) + 1] = ErrorEndCode
      BY <2>3, One
    <3> QED BY <1>0, <3>1 DEF Opens
  <2>5. DecodeNak(c, bytes) = Incomplete
    BY <1>0, <2>3, <2>4, NakOpening
  <2>6. Heads(bytes, NAK, c, sender) => DecodeAsciiBody(c, bytes) = Incomplete
    BY <2>5, AsciiHead, Starts DEF DecodeAsciiBody
  <2> QED BY <2>3, <2>6, OpeningOf
<1> QED BY <1>1, <1>2 DEF Sendable

LEMMA Format3FrameOpening ==
  ASSUME NEW c \in Configs, NEW sender \in Senders, ~IsEnqFamily(c), IsAscii(c),
         NEW reply, Sendable(c, reply),
         NEW bytes, Opens(bytes, EncodeAscii(c, sender, reply)), bytes # <<>>
  PROVE  OpensTo(c, sender, bytes)
<1> DEFINE frame == EncodeAscii(c, sender, reply)
<1>1. PICK end_code, data :
        /\ Sayable(end_code, data) /\ Said(end_code, data) = reply
        /\ frame = StxFrame(c, sender, <<end_code>> \o data,
                            end_code = SuccessEndCode /\ data # <<>>)
        /\ Len(frame) = EtxOf(c, <<end_code>> \o data) + SumAfter(c, end_code, data)
        /\ Heads(frame, STX, c, sender)
        /\ Holds(frame, 1, Covered(c, sender, <<end_code>> \o data))
  BY Format3FrameIs
<1>2. Opens(bytes, frame)
  OBVIOUS
<1> HIDE DEF frame
<1>3. DecodeFormat3(c, bytes) = Incomplete
  BY <1>1, <1>2, Format3Opening
<1>4. Heads(bytes, STX, c, sender) => DecodeAsciiBody(c, bytes) = Incomplete
  BY <1>3, AsciiHead DEF DecodeAsciiBody
<1> QED BY <1>1, <1>2, <1>4, OpeningOf

\* The bytes are those of the frame as far as both go.
Begins(bytes, frame) ==
  /\ IsSeq(bytes) /\ IsSeq(frame)
  /\ \A i \in 1..Len(bytes) : i <= Len(frame) => bytes[i] = frame[i]

LEMMA BeginsEither ==
  ASSUME NEW bytes, NEW frame, Opens(bytes, frame) \/ Holds(bytes, 0, frame)
  PROVE  /\ Begins(bytes, frame) /\ Len(bytes) \in Nat /\ Len(frame) \in Nat
         /\ Len(bytes) < Len(frame) <=> ~Holds(bytes, 0, frame)
<1>1. Len(bytes) \in Nat /\ Len(frame) \in Nat
  BY DEF Opens, Holds, IsSeq
<1>2. CASE Opens(bytes, frame)
  <2>1. ~Holds(bytes, 0, frame)
    BY <1>1, <1>2 DEF Opens, Holds
  <2> QED BY <1>1, <1>2, <2>1 DEF Opens, Begins
<1>3. CASE Holds(bytes, 0, frame)
  <2>1. \A i \in 1..Len(frame) : 0 + i = i
    OBVIOUS
  <2> QED BY <1>1, <1>3, <2>1 DEF Holds, Begins
<1> QED BY <1>2, <1>3

LEMMA BeginsAt ==
  ASSUME NEW bytes, NEW frame, Begins(bytes, frame), NEW m, NEW part, Holds(frame, m, part),
         NEW i \in 1..Len(part), m + i <= Len(bytes)
  PROVE  bytes[m + i] = part[i]
<1>1. Len(bytes) \in Nat /\ Len(frame) \in Nat /\ Len(part) \in Nat /\ m \in Nat
  BY DEF Begins, Holds, IsSeq
<1>2. m + i \in 1..Len(bytes) /\ m + i <= Len(frame)
  BY <1>1 DEF Holds
<1> QED BY <1>2 DEF Begins, Holds

\* The text so far: nothing pending, after a DLE, and after DLE ETX.
OpenText(p, size) == Read("open", FALSE, p, size)
EscapeText(p, size) == Read("open", TRUE, p, size)
TailText(p, size) == Read("tail", TRUE, p, size)

LEMMA UnstuffIs ==
  ASSUME NEW p, NEW size, NEW byte
  PROVE  /\ Unstuff(OpenText(p, size), byte)
              = IF byte = DLE THEN EscapeText(p, size + 1)
                ELSE OpenText(Append(p, byte), size + 1)
         /\ byte = DLE => Unstuff(EscapeText(p, size), byte)
                            = OpenText(Append(p, byte), size + 1)
         /\ byte = ETX => Unstuff(EscapeText(p, size), byte)
                            = TailText(p, size + 1)
         /\ Unstuff(TailText(p, size), byte) = TailText(p, size)
<1>1. ETX # DLE
  BY Starts
<1>2. CASE byte = DLE
  <2>1. /\ Unstuff(OpenText(p, size), byte) = EscapeText(p, size + 1)
        /\ Unstuff(EscapeText(p, size), byte)
             = OpenText(Append(p, byte), size + 1)
    BY <1>2 DEF Unstuff, OpenText, EscapeText, TailText, Read
  <2>2. Unstuff(TailText(p, size), byte) = TailText(p, size)
    BY DEF Unstuff, OpenText, EscapeText, TailText, Read
  <2> QED BY <1>1, <1>2, <2>1, <2>2
<1>3. CASE byte # DLE
  <2>1. Unstuff(OpenText(p, size), byte)
          = OpenText(Append(p, byte), size + 1)
    BY <1>3 DEF Unstuff, OpenText, EscapeText, TailText, Read
  <2>2. Unstuff(TailText(p, size), byte) = TailText(p, size)
    BY DEF Unstuff, OpenText, EscapeText, TailText, Read
  <2>3. byte = ETX => Unstuff(EscapeText(p, size), byte)
                        = TailText(p, size + 1)
    BY <1>3 DEF Unstuff, OpenText, EscapeText, TailText, Read
  <2> QED BY <1>3, <2>1, <2>2, <2>3
<1> QED BY <1>2, <1>3

LEMMA ReadEnd ==
  ASSUME NEW p, NEW size
  PROVE  /\ OpenText(p, size).end = "open" /\ EscapeText(p, size).end = "open"
         /\ TailText(p, size).end = "tail" /\ TailText(p, size).payload = p
         /\ TailText(p, size).size = size
BY DEF OpenText, EscapeText, TailText, Read

\* Reading one byte of the payload, or the two that stand for DLE.
LEMMA ReadByte ==
  ASSUME NEW bytes, NEW frame, Begins(bytes, frame), NEW k \in Nat, k = Len(bytes),
         NEW read, Reads(bytes, read, k),
         NEW a \in 2..k, NEW p, NEW byte, Holds(frame, a, Escaped(byte)),
         NEW w, w = Width(byte), read[a] = OpenText(p, a)
  PROVE  /\ a + w <= k => read[a + w] = OpenText(Append(p, byte), a + w)
         /\ \A j \in a..k : j <= a + w => read[j].end = "open"
<1> DEFINE q == Append(p, byte)
<1> SUFFICES /\ a + w <= k => read[a + w] = OpenText(q, a + w)
             /\ \A j \in a..k : j <= a + w => read[j].end = "open"
  OBVIOUS
<1>1. \A n \in 2..(k - 1) : read[n + 1] = Unstuff(read[n], bytes[n + 1])
  BY ReadSteps
<1>2. /\ Escaped(byte)[1] = byte /\ Len(Escaped(byte)) = w
      /\ w = IF byte = DLE THEN 2 ELSE 1
      /\ byte = DLE => Escaped(byte)[2] = DLE
  BY EscapedIs DEF Width
<1>3. read[a].end = "open"
  BY ReadEnd
<1>4. a + 1 <= k => bytes[a + 1] = byte
  <2>1. 1 \in 1..Len(Escaped(byte))
    BY <1>2
  <2> QED BY <1>2, <2>1, BeginsAt
<1>5. CASE a = k
  BY <1>2, <1>3, <1>5
<1>6. CASE a < k /\ byte # DLE
  <2>1. a \in 2..(k - 1)
    BY <1>6
  <2>2. read[a + 1] = Unstuff(OpenText(p, a), byte)
    BY <1>1, <1>4, <1>6, <2>1
  <2>3. read[a + 1] = OpenText(q, a + 1)
    BY <1>6, <2>2, UnstuffIs
  <2>4. read[a + 1].end = "open"
    BY <2>3, ReadEnd
  <2>5. \A j \in a..k : j <= a + 1 => j = a \/ j = a + 1
    OBVIOUS
  <2> HIDE DEF q
  <2> QED BY <1>2, <1>3, <1>6, <2>3, <2>4, <2>5
<1>7. CASE a < k /\ byte = DLE
  <2>1. a \in 2..(k - 1)
    BY <1>7
  <2>2. read[a + 1] = Unstuff(OpenText(p, a), DLE)
    BY <1>1, <1>4, <1>7, <2>1
  <2>3. read[a + 1] = EscapeText(p, a + 1)
    BY <2>2, UnstuffIs
  <2>4. read[a + 1].end = "open"
    BY <2>3, ReadEnd
  <2>5. CASE a + 1 = k
    <3>1. \A j \in a..k : j = a \/ j = a + 1
      BY <2>5
    <3> QED BY <1>2, <1>3, <1>7, <2>4, <2>5, <3>1
  <2>6. CASE a + 1 < k
    <3>1. bytes[a + 2] = DLE
      <4>1. 2 \in 1..Len(Escaped(byte)) /\ a + 2 <= Len(bytes)
        BY <1>2, <1>7, <2>6
      <4>2. bytes[a + 2] = Escaped(byte)[2]
        BY <4>1, BeginsAt
      <4> QED BY <1>2, <1>7, <4>2
    <3>2. a + 1 \in 2..(k - 1) /\ (a + 1) + 1 = a + 2
      BY <2>6
    <3>3. read[(a + 1) + 1] = Unstuff(read[a + 1], bytes[(a + 1) + 1])
      BY <1>1, <3>2
    <3>4. read[a + 2] = Unstuff(EscapeText(p, a + 1), byte)
      BY <1>7, <2>3, <3>1, <3>2, <3>3
    <3>5. read[a + 2] = OpenText(q, (a + 1) + 1)
      BY <1>7, <3>4, UnstuffIs
    <3>6. read[a + 2].end = "open" /\ read[a + 2] = OpenText(q, a + 2)
      BY <3>2, <3>5, ReadEnd
    <3>7. \A j \in a..k : j <= a + 2 => j = a \/ j = a + 1 \/ j = a + 2
      OBVIOUS
    <3> HIDE DEF q
    <3> QED BY <1>2, <1>3, <1>7, <2>4, <3>6, <3>7
  <2> QED BY <1>7, <2>5, <2>6
<1>8. a = k \/ a < k
  OBVIOUS
<1> QED BY <1>5, <1>6, <1>7, <1>8

\* Every part of a stuffed payload is at its front.
LEMMA StuffedFront ==
  ASSUME NEW payload, NEW m \in Nat, m >= 1, NEW stuffed, Stuffs(payload, stuffed, m),
         NEW n \in 1..m
  PROVE  /\ Holds(stuffed[m], 0, stuffed[n])
         /\ n < m => Holds(stuffed[m], Len(stuffed[n]), Escaped(payload[n + 1]))
<1>1. \A i \in 1..m : IsSeq(stuffed[i])
  BY StuffedGrows
<1>2. ASSUME NEW a \in 1..m, NEW part, NEW o, Holds(stuffed[a], o, part)
      PROVE  Holds(stuffed[m], o, part)
  <2> DEFINE S == {i \in Nat : Holds(stuffed[i], o, part)}
  <2>1. ASSUME NEW i \in a..(m - 1), i \in S PROVE i + 1 \in S
    <3>1. Holds(stuffed[i] \o Escaped(payload[i + 1]), o, part)
      BY <2>1, EscapedIs, Longer
    <3>2. i \in 1..(m - 1)
      OBVIOUS
    <3>3. stuffed[i + 1] = stuffed[i] \o Escaped(payload[i + 1])
      BY <3>2, StuffedSteps
    <3>4. Holds(stuffed[i + 1], o, part)
      BY <3>1, <3>3
    <3> QED BY <3>4
  <2>2. a \in S
    BY <1>2
  <2> HIDE DEF S
  <2>3. m \in S
    BY <2>1, <2>2, Climb, a \in Nat, m \in a..m
  <2> QED BY <2>3 DEF S
<1>3. Holds(stuffed[n], 0, stuffed[n])
  <2>1. IsSeq(stuffed[n]) /\ Len(stuffed[n]) \in Nat
    BY <1>1 DEF IsSeq
  <2>2. \A i \in 1..Len(stuffed[n]) : 0 + i = i
    OBVIOUS
  <2> QED BY <2>1, <2>2 DEF Holds
<1>4. ASSUME n < m PROVE Holds(stuffed[m], Len(stuffed[n]), Escaped(payload[n + 1]))
  <2>1. Holds(stuffed[n] \o Escaped(payload[n + 1]), Len(stuffed[n]), Escaped(payload[n + 1]))
    BY <1>1, EscapedIs, Joined
  <2>2. n \in 1..(m - 1) /\ n + 1 \in 1..m
    BY <1>4
  <2>3. stuffed[n + 1] = stuffed[n] \o Escaped(payload[n + 1])
    BY <2>2, StuffedSteps
  <2>4. Holds(stuffed[n + 1], Len(stuffed[n]), Escaped(payload[n + 1]))
    BY <2>1, <2>3
  <2> QED BY <1>2, <2>2, <2>4
<1> QED BY <1>2, <1>3, <1>4

LEMMA Grown ==
  ASSUME NEW payload, IsSeq(payload), NEW n \in 1..Len(payload)
  PROVE  /\ n > 1 => SubSeq(payload, 1, n) = Append(SubSeq(payload, 1, n - 1), payload[n])
         /\ n = 1 => SubSeq(payload, 1, n) = Append(<<>>, payload[1])
         /\ SubSeq(payload, 1, Len(payload)) = payload
<1>1. PICK S : payload \in Seq(S)
  BY DEF IsSeq
<1>2. Len(payload) \in Nat /\ n \in Nat /\ payload[n] \in S
  BY <1>1
<1> DEFINE u == SubSeq(payload, 1, n)
<1>3. /\ u \in Seq(S) /\ Len(u) = n
      /\ \A i \in 1..n : u[i] = payload[i]
  BY <1>1, <1>2
<1>4. ASSUME n > 1 PROVE u = Append(SubSeq(payload, 1, n - 1), payload[n])
  <2> DEFINE v == SubSeq(payload, 1, n - 1)
             w == Append(v, payload[n])
  <2>1. v \in Seq(S) /\ Len(v) = n - 1 /\ \A i \in 1..(n - 1) : v[i] = payload[i]
    BY <1>1, <1>2, <1>4
  <2> HIDE DEF v, u
  <2>2. w \in Seq(S) /\ Len(w) = n /\ \A i \in 1..n : w[i] = payload[i]
    BY <1>2, <2>1
  <2> HIDE DEF w
  <2>3. u = w
    BY <1>3, <2>2, SeqEqual
  <2> QED BY <2>3 DEF w, v, u
<1>5. ASSUME n = 1 PROVE u = Append(<<>>, payload[1])
  <2> DEFINE w == Append(<<>>, payload[1])
  <2>1. w \in Seq(S) /\ Len(w) = 1 /\ w[1] = payload[1]
    BY <1>2, <1>5
  <2> HIDE DEF w, u
  <2>2. \A i \in 1..Len(w) : w[i] = u[i]
    BY <1>3, <1>5, <2>1
  <2>3. u = w
    BY <1>3, <1>5, <2>1, <2>2, SeqEqual
  <2> QED BY <2>3 DEF w, u
<1>6. SubSeq(payload, 1, Len(payload)) = payload
  <2> DEFINE w == SubSeq(payload, 1, Len(payload))
  <2>1. w \in Seq(S) /\ Len(w) = Len(payload) /\ \A i \in 1..Len(payload) : w[i] = payload[i]
    BY <1>1, <1>2
  <2> HIDE DEF w
  <2>2. w = payload
    BY <1>1, <2>1, SeqEqual
  <2> QED BY <2>2 DEF w
<1> QED BY <1>4, <1>5, <1>6

BinaryFrame(c, payload) ==
  <<DLE, STX>> \o Stuffed(payload) \o <<DLE, ETX>> \o Checksum(c, payload)

LEMMA BinaryFrameIs ==
  ASSUME NEW c \in Configs, NEW payload, IsSeq(payload), Len(payload) >= 1
  PROVE  LET frame == BinaryFrame(c, payload)
             n == Len(Stuffed(payload))
         IN /\ IsSeq(Stuffed(payload)) /\ n \in Nat
            /\ IsSeq(frame) /\ Len(frame) = n + 4 + SumSize(c) /\ SumSize(c) \in {0, 2}
            /\ Holds(frame, 0, <<DLE, STX>>) /\ Holds(frame, 2, Stuffed(payload))
            /\ Holds(frame, 2 + n, <<DLE, ETX>>)
            /\ Holds(frame, 4 + n, Checksum(c, payload))
<1> DEFINE s == Stuffed(payload)
           n == Len(s)
           a == <<DLE, STX>>
           z == <<DLE, ETX>>
           t == a \o s
           u == t \o z
           sum == Checksum(c, payload)
           v == u \o sum
<1>1. IsSeq(s) /\ n \in Nat
  BY StuffedIsSeq DEF IsSeq
<1>2. IsSeq(a) /\ Len(a) = 2 /\ IsSeq(z) /\ Len(z) = 2
  BY Two
<1>3. IsSeq(sum) /\ Len(sum) = SumSize(c) /\ SumSize(c) \in {0, 2}
  BY TailsAre
<1> HIDE DEF s, a, z, sum
<1>4. IsSeq(t) /\ Len(t) = 2 + n /\ Holds(t, 0, a) /\ Holds(t, 2, s)
  <2>1. Len(t) = Len(a) + Len(s) /\ Holds(t, 0, a) /\ Holds(t, Len(a), s)
    BY <1>1, <1>2, Joined
  <2> HIDE DEF t
  <2>2. IsSeq(t)
    BY <2>1 DEF Holds
  <2> QED BY <1>2, <2>1, <2>2
<1> HIDE DEF t
<1>5. IsSeq(u) /\ Len(u) = Len(t) + 2 /\ Holds(u, Len(t), z)
  <2>1. Len(u) = Len(t) + Len(z) /\ Holds(u, Len(t), z)
    BY <1>2, <1>4, Joined
  <2> HIDE DEF u
  <2>2. IsSeq(u)
    BY <2>1 DEF Holds
  <2> QED BY <1>2, <2>1, <2>2
<1>6. Holds(u, 0, a) /\ Holds(u, 2, s)
  BY <1>2, <1>4, Longer
<1> HIDE DEF u
<1>7. IsSeq(v) /\ Len(v) = Len(u) + SumSize(c) /\ Holds(v, Len(u), sum)
  BY <1>3, <1>5, Joined DEF Holds
<1>8. Holds(v, 0, a) /\ Holds(v, 2, s) /\ Holds(v, Len(t), z)
  BY <1>3, <1>5, <1>6, Longer
<1> HIDE DEF v
<1>9. Len(v) = n + 4 + SumSize(c) /\ Len(u) = 4 + n
  BY <1>1, <1>3, <1>4, <1>5, <1>7
<1>10. BinaryFrame(c, payload) = v
  BY DEF BinaryFrame, v, u, t, s, a, z, sum
<1> QED BY <1>1, <1>3, <1>4, <1>7, <1>8, <1>9, <1>10 DEF s, a, z, sum

\* The text of a frame is read to where the bytes end or the frame does.
LEMMA TextAlong ==
  ASSUME NEW c \in Configs, NEW payload, IsSeq(payload), Len(payload) >= 1,
         NEW bytes, Begins(bytes, BinaryFrame(c, payload)), Len(bytes) >= 2
  PROVE  LET size == Len(Stuffed(payload)) + 4
         IN IF Len(bytes) >= size THEN Text(bytes) = TailText(payload, size)
            ELSE Text(bytes).end = "open"
<1> DEFINE frame == BinaryFrame(c, payload)
           m == Len(payload)
           k == Len(bytes)
<1>1. k \in Nat /\ m \in Nat /\ m \in 1..m /\ IsSeq(bytes)
  BY DEF Begins, IsSeq
<1>2. PICK read : Reads(bytes, read, k) /\ Text(bytes) = read[k]
  BY <1>1, TextReads
<1>3. PICK stuffed : Stuffs(payload, stuffed, m) /\ Stuffed(payload) = stuffed[m]
  BY StuffedIs
<1>4. /\ Holds(frame, 2, stuffed[m]) /\ Holds(frame, 2 + Len(stuffed[m]), <<DLE, ETX>>)
  BY <1>3, BinaryFrameIs
<1>5. read[2] = OpenText(<<>>, 2)
  BY <1>1, <1>2, ReadSteps DEF OpenText, Opened, Read
<1>6. Begins(bytes, frame)
  OBVIOUS
<1> HIDE DEF frame
<1> DEFINE Reached(n) ==
             LET a == 2 + Len(stuffed[n])
             IN /\ a <= k => read[a] = OpenText(SubSeq(payload, 1, n), a)
                /\ \A j \in 2..k : j <= a => read[j].end = "open"
           S == {n \in Nat : Reached(n)}
<1>7. m \in S
  <2>1. 1 \in S
    <3> DEFINE w == Width(payload[1])
    <3>1. stuffed[1] = Escaped(payload[1]) /\ Len(stuffed[1]) = w /\ w \in {1, 2}
      BY <1>1, <1>3, StuffedSteps, EscapedIs
    <3>2. Holds(frame, 2, Escaped(payload[1]))
      <4>1. Holds(stuffed[m], 0, stuffed[1])
        BY <1>1, <1>3, StuffedFront
      <4>2. Holds(frame, 2 + 0, stuffed[1])
        BY <1>4, <4>1, HeldOn
      <4> QED BY <3>1, <4>2
    <3>3. 2 \in 2..k
      BY <1>1
    <3>4. /\ 2 + w <= k => read[2 + w] = OpenText(Append(<<>>, payload[1]), 2 + w)
          /\ \A j \in 2..k : j <= 2 + w => read[j].end = "open"
      <4> DEFINE byte == payload[1]
                 p == <<>>
      <4>1. w = Width(byte) /\ Holds(frame, 2, Escaped(byte)) /\ read[2] = OpenText(p, 2)
        BY <1>5, <3>2
      <4>2. k \in Nat /\ k = Len(bytes) /\ Reads(bytes, read, k)
        BY <1>1, <1>2
      <4> HIDE DEF w, byte, p, k
      <4>3. /\ 2 + w <= k => read[2 + w] = OpenText(Append(p, byte), 2 + w)
            /\ \A j \in 2..k : j <= 2 + w => read[j].end = "open"
        BY <1>6, <3>3, <4>1, <4>2, ReadByte
      <4> QED BY <4>3 DEF p, byte
    <3>5. SubSeq(payload, 1, 1) = Append(<<>>, payload[1])
      <4>1. 1 \in 1..Len(payload)
        BY <1>1
      <4> QED BY <4>1, Grown
    <3> HIDE DEF w
    <3> QED BY <3>1, <3>4, <3>5
  <2>2. ASSUME NEW n \in 1..(m - 1), n \in S PROVE n + 1 \in S
    <3> DEFINE w == Width(payload[n + 1])
               a == 2 + Len(stuffed[n])
    <3>1. n \in 1..m /\ n + 1 \in 1..m /\ n < m
      BY <1>1
    <3>2. IsSeq(stuffed[n]) /\ Len(stuffed[n]) \in Nat
      BY <1>1, <1>3, <3>1, StuffedGrows
    <3>3. w \in {1, 2} /\ Len(Escaped(payload[n + 1])) = w /\ IsSeq(Escaped(payload[n + 1]))
      BY EscapedIs
    <3>4. Len(stuffed[n + 1]) = Len(stuffed[n]) + w
      <4>1. stuffed[n + 1] = stuffed[n] \o Escaped(payload[n + 1])
        BY <1>1, <1>3, StuffedSteps
      <4>2. Len(stuffed[n] \o Escaped(payload[n + 1]))
              = Len(stuffed[n]) + Len(Escaped(payload[n + 1]))
        BY <3>2, <3>3, Concatenated
      <4> QED BY <3>3, <4>1, <4>2
    <3>5. Holds(frame, 2 + Len(stuffed[n]), Escaped(payload[n + 1]))
      <4>1. Holds(stuffed[m], Len(stuffed[n]), Escaped(payload[n + 1]))
        BY <1>1, <1>3, <3>1, StuffedFront
      <4> QED BY <1>4, <4>1, HeldOn
    <3>6. /\ a <= k => read[a] = OpenText(SubSeq(payload, 1, n), a)
          /\ \A j \in 2..k : j <= a => read[j].end = "open"
      BY <2>2
    <3>7. a \in Nat /\ a >= 2
      BY <3>2
    <3> HIDE DEF S
    <3> HIDE DEF w, a
    <3>8. Len(stuffed[n + 1]) + 2 = a + w
      BY <3>2, <3>3, <3>4 DEF a
    <3>9. CASE a > k
      <4>1. \A j \in 2..k : j <= a
        BY <1>1, <3>7, <3>9
      <4>2. ~(a + w <= k)
        BY <1>1, <3>3, <3>7, <3>9
      <4>3. \A j \in 2..k : read[j].end = "open"
        BY <3>6, <4>1
      <4>4. 2 + Len(stuffed[n + 1]) = a + w
        BY <3>2, <3>3, <3>4 DEF a
      <4>5. Reached(n + 1) /\ n + 1 \in Nat
        BY <3>1, <4>2, <4>3, <4>4
      <4> QED BY <4>5 DEF S
    <3>10. CASE a <= k
      <4>1. a \in 2..k
        BY <1>1, <3>7, <3>10
      <4>2. read[a] = OpenText(SubSeq(payload, 1, n), a)
        BY <3>6, <3>10
      <4> DEFINE p == SubSeq(payload, 1, n)
      <4>3. SubSeq(payload, 1, n + 1) = Append(p, payload[n + 1])
        <5>1. n + 1 \in 1..Len(payload) /\ n + 1 > 1 /\ (n + 1) - 1 = n
          BY <3>1
        <5> QED BY <5>1, Grown
      <4> HIDE DEF p
      <4>4. Holds(frame, a, Escaped(payload[n + 1]))
        BY <3>5 DEF a
      <4>5. /\ a + w <= k => read[a + w] = OpenText(Append(p, payload[n + 1]), a + w)
            /\ \A j \in a..k : j <= a + w => read[j].end = "open"
        <5> DEFINE byte == payload[n + 1]
        <5>1. w = Width(byte) /\ Holds(frame, a, Escaped(byte))
          BY <4>4 DEF w
        <5>2. read[a] = OpenText(p, a)
          BY <4>2 DEF p
        <5>3. k \in Nat /\ k = Len(bytes) /\ Reads(bytes, read, k)
          BY <1>1, <1>2
        <5> HIDE DEF byte, k
        <5>4. /\ a + w <= k => read[a + w] = OpenText(Append(p, byte), a + w)
              /\ \A j \in a..k : j <= a + w => read[j].end = "open"
          BY <1>6, <4>1, <5>1, <5>2, <5>3, ReadByte
        <5> QED BY <5>4 DEF byte
      <4>6. \A j \in 2..k : j <= a + w => read[j].end = "open"
        <5>1. ASSUME NEW j \in 2..k, j <= a + w PROVE read[j].end = "open"
          <6>1. j <= a \/ j \in a..k
            BY <3>7
          <6> QED BY <3>6, <4>5, <5>1, <6>1
        <5> QED BY <5>1
      <4>7. 2 + Len(stuffed[n + 1]) = a + w
        BY <3>2, <3>3, <3>4 DEF a
      <4>8. a + w <= k => read[a + w] = OpenText(SubSeq(payload, 1, n + 1), a + w)
        BY <4>3, <4>5
      <4>9. Reached(n + 1) /\ n + 1 \in Nat
        BY <3>1, <4>6, <4>7, <4>8
      <4> QED BY <4>9 DEF S
    <3> QED BY <1>1, <3>7, <3>9, <3>10
  <2> HIDE DEF S
  <2> QED BY <1>1, <2>1, <2>2, Climb
<1> DEFINE a == 2 + Len(stuffed[m])
<1>8. /\ a <= k => read[a] = OpenText(payload, a)
      /\ \A j \in 2..k : j <= a => read[j].end = "open"
      /\ a \in Nat /\ a >= 2
  <2>1. SubSeq(payload, 1, m) = payload
    BY <1>1, Grown
  <2>2. Len(stuffed[m]) \in Nat
    BY <1>1, <1>3, StuffedGrows
  <2>3. Reached(m)
    BY <1>7
  <2>4. /\ a <= k => read[a] = OpenText(SubSeq(payload, 1, m), a)
        /\ \A j \in 2..k : j <= a => read[j].end = "open"
    BY <2>3
  <2>5. a \in Nat /\ a >= 2
    BY <2>2
  <2> HIDE DEF a
  <2> QED BY <2>1, <2>4, <2>5
<1> HIDE DEF S
<1>9. \A n \in 2..(k - 1) : read[n + 1] = Unstuff(read[n], bytes[n + 1])
  BY <1>1, <1>2, ReadSteps
<1>10. Holds(frame, a, <<DLE, ETX>>) /\ Len(<<DLE, ETX>>) = 2
       /\ <<DLE, ETX>>[1] = DLE /\ <<DLE, ETX>>[2] = ETX
  BY <1>4, Two
<1>11. a + 2 = Len(Stuffed(payload)) + 4
  BY <1>3, <1>8
<1> HIDE DEF a
<1>12. ASSUME a + 1 <= k PROVE read[a + 1] = EscapeText(payload, a + 1)
  <2>1. bytes[a + 1] = DLE
    <3>1. 1 \in 1..Len(<<DLE, ETX>>)
      BY <1>10
    <3> QED BY <1>6, <1>10, <1>12, <3>1, BeginsAt
  <2>2. a \in 2..(k - 1) /\ a <= k
    BY <1>1, <1>8, <1>12
  <2>3. read[a + 1] = Unstuff(OpenText(payload, a), DLE)
    BY <1>8, <1>9, <2>1, <2>2
  <2> QED BY <2>3, UnstuffIs
<1>13. ASSUME a + 2 <= k PROVE read[a + 2] = TailText(payload, a + 2)
  <2>1. bytes[a + 2] = ETX
    <3>1. 2 \in 1..Len(<<DLE, ETX>>)
      BY <1>10
    <3> QED BY <1>6, <1>10, <1>13, <3>1, BeginsAt
  <2>2. a + 1 \in 2..(k - 1) /\ a + 1 <= k /\ (a + 1) + 1 = a + 2
    BY <1>1, <1>8, <1>13
  <2>3. read[(a + 1) + 1] = Unstuff(read[a + 1], bytes[(a + 1) + 1])
    BY <1>9, <2>2
  <2>4. read[a + 2] = Unstuff(EscapeText(payload, a + 1), ETX)
    BY <1>12, <2>1, <2>2, <2>3
  <2>5. read[a + 2] = TailText(payload, (a + 1) + 1)
    BY <2>4, UnstuffIs
  <2> QED BY <2>2, <2>5
<1>14. CASE k >= a + 2
  <2> DEFINE R == {n \in Nat : read[n] = TailText(payload, a + 2)}
  <2>1. a + 2 \in R /\ a + 2 \in Nat
    BY <1>1, <1>8, <1>13, <1>14
  <2>2. ASSUME NEW n \in (a + 2)..(k - 1), n \in R PROVE n + 1 \in R
    <3>1. n \in 2..(k - 1) /\ n + 1 \in Nat
      BY <1>1, <1>8
    <3>2. read[n + 1] = Unstuff(TailText(payload, a + 2), bytes[n + 1])
      BY <1>9, <2>2, <3>1
    <3>3. read[n + 1] = TailText(payload, a + 2)
      BY <3>2, UnstuffIs
    <3> QED BY <3>1, <3>3
  <2>3. k \in (a + 2)..k
    BY <1>1, <1>8, <1>14
  <2> HIDE DEF R
  <2>4. k \in R
    BY <1>1, <2>1, <2>2, <2>3, Climb
  <2> QED BY <1>2, <1>11, <1>14, <2>4 DEF R
<1>15. CASE ~(k >= a + 2)
  <2>1. k \in 2..k
    BY <1>1
  <2>2. k <= a \/ k = a + 1
    BY <1>1, <1>8, <1>15
  <2>3. read[k].end = "open"
    <3>1. CASE k <= a
      BY <1>8, <2>1, <3>1
    <3>2. CASE k = a + 1
      <4>1. read[k] = EscapeText(payload, a + 1)
        BY <1>1, <1>12, <3>2
      <4> QED BY <4>1, ReadEnd
    <3> QED BY <2>2, <3>1, <3>2
  <2> QED BY <1>2, <1>11, <1>15, <2>3
<1> QED BY <1>14, <1>15

\* Byte count, route, completion code and data.
PayloadOf(station, code, data) ==
  LET body == <<station, code>> \o data IN <<CountOf(body)>> \o body

LEMMA PayloadIs ==
  ASSUME NEW station, NEW code, NEW data, IsSeq(data)
  PROVE  LET payload == PayloadOf(station, code, data)
         IN /\ IsSeq(payload) /\ Len(payload) \in Nat /\ Len(payload) >= 3
            /\ payload[1] = CountOf(Tail(payload))
            /\ payload[2] = station /\ payload[3] = code
            /\ SubSeq(payload, 4, Len(payload)) = data
<1> DEFINE a == <<station, code>>
           body == a \o data
           count == CountOf(body)
           one == <<count>>
           payload == one \o body
           n == Len(data)
<1>1. n \in Nat
  BY DEF IsSeq
<1>2. IsSeq(a) /\ Len(a) = 2 /\ a[1] = station /\ a[2] = code
  BY Two
<1>3. payload = PayloadOf(station, code, data)
  BY DEF PayloadOf
<1> HIDE DEF a
<1>4. /\ IsSeq(body) /\ Len(body) = 2 + n /\ Holds(body, 0, a) /\ Holds(body, 2, data)
  <2>1. Len(body) = Len(a) + Len(data) /\ Holds(body, 0, a) /\ Holds(body, Len(a), data)
    BY <1>2, Joined
  <2> HIDE DEF body, n
  <2>2. IsSeq(body)
    BY <2>1 DEF Holds
  <2> QED BY <1>2, <2>1, <2>2 DEF n
<1> HIDE DEF body, count
<1>5. IsSeq(one) /\ Len(one) = 1 /\ one[1] = count
  BY One
<1> HIDE DEF one
<1>6. /\ IsSeq(payload) /\ Len(payload) = 1 + Len(body) /\ Holds(payload, 0, one)
      /\ Holds(payload, 1, body)
  <2>1. /\ Len(payload) = Len(one) + Len(body) /\ Holds(payload, 0, one)
        /\ Holds(payload, Len(one), body)
    BY <1>4, <1>5, Joined
  <2> HIDE DEF payload
  <2>2. IsSeq(payload)
    BY <2>1 DEF Holds
  <2> QED BY <1>5, <2>1, <2>2
<1> HIDE DEF payload
<1>7. Len(payload) = 3 + n
  BY <1>1, <1>4, <1>6
<1>8. payload[1] = count
  <2>1. 1 \in 1..Len(one)
    BY <1>5
  <2>2. payload[0 + 1] = one[1]
    BY <1>6, <2>1 DEF Holds
  <2> QED BY <1>5, <2>2
<1>9. payload[2] = station /\ payload[3] = code
  <2>1. Holds(payload, 1 + 0, a)
    BY <1>4, <1>6, HeldOn
  <2>2. 1 \in 1..Len(a) /\ 2 \in 1..Len(a)
    BY <1>2
  <2>3. payload[1 + 0 + 1] = a[1] /\ payload[1 + 0 + 2] = a[2]
    BY <2>1, <2>2 DEF Holds
  <2> QED BY <1>2, <2>3
<1>10. SubSeq(payload, 4, Len(payload)) = data
  <2>1. Holds(payload, 1 + 2, data)
    BY <1>4, <1>6, HeldOn
  <2>2. SubSeq(payload, (1 + 2) + 1, (1 + 2) + Len(data)) = data
    BY <2>1, PartHeld
  <2>3. (1 + 2) + 1 = 4 /\ (1 + 2) + n = Len(payload)
    BY <1>1, <1>7
  <2> QED BY <2>2, <2>3
<1>11. Tail(payload) = body
  <2>1. PICK S : payload \in Seq(S)
    BY <1>6 DEF IsSeq
  <2>2. Len(payload) \in Nat /\ Len(payload) >= 1
    BY <1>1, <1>7
  <2> DEFINE t == Tail(payload)
  <2>3. /\ t \in Seq(S) /\ Len(t) = Len(payload) - 1
        /\ \A i \in 1..(Len(payload) - 1) : t[i] = payload[i + 1]
    BY <2>1, <2>2
  <2>4. Len(t) = Len(body) /\ Len(body) \in Nat
    BY <1>1, <1>4, <1>6, <2>3
  <2> HIDE DEF t
  <2>5. ASSUME NEW i \in 1..Len(t) PROVE t[i] = body[i]
    <3>1. i \in 1..Len(body) /\ i \in 1..(Len(payload) - 1) /\ 1 + i = i + 1
      BY <2>3, <2>4, <2>5
    <3>2. payload[1 + i] = body[i]
      BY <1>6, <3>1 DEF Holds
    <3> QED BY <2>3, <3>1, <3>2
  <2>6. IsSeq(t)
    BY <2>3 DEF IsSeq
  <2>7. t = body
    BY <1>4, <2>4, <2>5, <2>6, Same
  <2> QED BY <2>7 DEF t
<1>12. Len(payload) \in Nat /\ Len(payload) >= 3
  BY <1>1, <1>7
<1>13. payload[1] = CountOf(Tail(payload))
  BY <1>8, <1>11 DEF count
<1> QED BY <1>3, <1>6, <1>9, <1>10, <1>12, <1>13

\* What a payload says.
ToldBy(code, data) == IF code = Zero THEN Success(data) ELSE PlcError(code)

LEMMA BinaryFrames ==
  ASSUME NEW c \in Configs, ~IsAscii(c), NEW sender \in Senders, NEW reply, Sendable(c, reply)
  PROVE  \E code, data :
           /\ IsSeq(data) /\ ToldBy(code, data) = reply
           /\ reply.data = IF code = Zero THEN data ELSE <<code>>
           /\ code = Zero \/ data = <<>>
           /\ Encode(c, sender, reply)
                = BinaryFrame(c, PayloadOf(Station(sender.station), code, data))
<1>1. CASE \E data : reply = Success(data) /\ IsSeq(data)
  <2>1. PICK data : reply = Success(data) /\ IsSeq(data)
    BY <1>1
  <2>2. ToldBy(Zero, data) = reply
    BY <2>1 DEF ToldBy
  <2>3. reply.type # "PlcError" /\ reply.data = data
    BY <2>1, RepliesAre
  <2>4. Encode(c, sender, reply)
          = BinaryFrame(c, PayloadOf(Station(sender.station), Zero, data))
    BY <2>3 DEF Encode, EncodeBinary, BinaryFrame, PayloadOf
  <2>5. reply.data = (IF Zero = Zero THEN data ELSE <<Zero>>)
    BY <2>3
  <2> QED BY <2>1, <2>2, <2>4, <2>5
<1>2. CASE \E code : reply = PlcError(code) /\ code # Zero
  <2>1. PICK code : reply = PlcError(code) /\ code # Zero
    BY <1>2
  <2>2. ToldBy(code, <<>>) = reply /\ IsSeq(<<>>)
    BY <2>1, Tuples DEF ToldBy
  <2>3. reply.type = "PlcError" /\ reply.data = <<code>>
    BY <2>1, RepliesAre
  <2>4. reply.data[1] = code
    BY <2>3, One
  <2>5. Encode(c, sender, reply)
          = BinaryFrame(c, PayloadOf(Station(sender.station), code, <<>>))
    BY <2>3, <2>4 DEF Encode, EncodeBinary, BinaryFrame, PayloadOf
  <2> DEFINE data == <<>>
  <2>6. /\ IsSeq(data) /\ ToldBy(code, data) = reply
        /\ reply.data = IF code = Zero THEN data ELSE <<code>>
        /\ code = Zero \/ data = <<>>
        /\ Encode(c, sender, reply)
             = BinaryFrame(c, PayloadOf(Station(sender.station), code, data))
    BY <2>1, <2>2, <2>3, <2>5
  <2> HIDE DEF data
  <2> QED BY <2>6
<1> QED BY <1>1, <1>2 DEF Sendable

LEMMA PayloadReplyIs ==
  ASSUME NEW station \in BOOLEAN, NEW code, NEW data, IsSeq(data), NEW total
  PROVE  LET d == PayloadReply(PayloadOf(Station(station), code, data), total)
         IN /\ d.status = "Complete" /\ d.reply = ToldBy(code, data) /\ d.consumed = total
            /\ d.foreign <=> ~station
<1> DEFINE payload == PayloadOf(Station(station), code, data)
           told == ToldBy(code, data)
<1>1. payload[2] = Station(station) /\ payload[3] = code
      /\ SubSeq(payload, 4, Len(payload)) = data
  BY PayloadIs
<1>2. Station(station) # Station(TRUE) <=> ~station
  BY DEF Station
<1> HIDE DEF payload
<1>3. PayloadReply(payload, total)
        = [Complete(told, total) EXCEPT !.foreign = Station(station) # Station(TRUE)]
  BY <1>1 DEF PayloadReply, ToldBy
<1> HIDE DEF told
<1> DEFINE d == [Complete(told, total) EXCEPT !.foreign = Station(station) # Station(TRUE)]
<1>4. d.status = "Complete" /\ d.reply = told /\ d.consumed = total
  BY CompleteHas DEF Has
<1>5. d.foreign = (Station(station) # Station(TRUE))
  BY CompleteHas DEF Has
<1> QED BY <1>2, <1>3, <1>4, <1>5 DEF told, payload

\* A whole binary frame.
LEMMA BinaryWhole ==
  ASSUME NEW c \in Configs, NEW station \in BOOLEAN, NEW code, NEW data, IsSeq(data),
         NEW frame, frame = BinaryFrame(c, PayloadOf(Station(station), code, data)),
         NEW bytes, Holds(bytes, 0, frame)
  PROVE  DecodeFormat5(c, bytes)
           = PayloadReply(PayloadOf(Station(station), code, data), Len(frame))
<1> DEFINE payload == PayloadOf(Station(station), code, data)
           n == Len(Stuffed(payload))
           size == n + 4
           sum == SumSize(c)
           check == Checksum(c, payload)
<1>1. /\ IsSeq(payload) /\ Len(payload) \in Nat /\ Len(payload) >= 3
      /\ payload[1] = CountOf(Tail(payload))
  BY PayloadIs
<1>2. frame = BinaryFrame(c, payload)
  OBVIOUS
<1> HIDE DEF payload
<1>3. /\ n \in Nat /\ Len(frame) = size + sum /\ sum \in {0, 2}
      /\ Holds(frame, 0, <<DLE, STX>>) /\ Holds(frame, 4 + n, check)
  <2>1. Len(payload) >= 1
    BY <1>1
  <2>2. /\ n \in Nat /\ Len(frame) = n + 4 + sum /\ sum \in {0, 2}
        /\ Holds(frame, 0, <<DLE, STX>>) /\ Holds(frame, 4 + n, check)
    BY <1>1, <1>2, <2>1, BinaryFrameIs
  <2> QED BY <2>2
<1>4. /\ Begins(bytes, frame) /\ Len(bytes) \in Nat /\ ~(Len(bytes) < Len(frame))
  BY BeginsEither
<1> HIDE DEF n, sum, check
<1>5. Len(bytes) >= size + sum /\ Len(bytes) >= 4 /\ Len(bytes) >= 2 /\ Len(bytes) >= size
      /\ ~(Len(bytes) < size + sum) /\ ~(Len(bytes) < 4)
  BY <1>3, <1>4
<1>6. bytes[2] = STX
  <2>1. Holds(bytes, 0, <<DLE, STX>>)
    BY <1>3, HeldAtFront
  <2>2. 2 \in 1..Len(<<DLE, STX>>) /\ <<DLE, STX>>[2] = STX
    BY Two
  <2>3. bytes[0 + 2] = STX
    BY <2>1, <2>2 DEF Holds
  <2> QED BY <2>3
<1>7. Text(bytes) = TailText(payload, size)
  <2>1. Len(payload) >= 1 /\ Len(bytes) >= Len(Stuffed(payload)) + 4
    BY <1>1, <1>5 DEF n
  <2>2. Begins(bytes, BinaryFrame(c, payload))
    BY <1>2, <1>4
  <2>3. Text(bytes) = TailText(payload, Len(Stuffed(payload)) + 4)
    BY <1>1, <1>5, <2>1, <2>2, TextAlong
  <2> QED BY <2>3 DEF n
<1>8. SubSeq(bytes, size + 1, size + sum) = check
  <2>1. Holds(bytes, 4 + n, check) /\ 4 + n = size
    BY <1>3, HeldAtFront
  <2>2. Len(check) = sum
    BY TailsAre DEF check, sum
  <2> QED BY <2>1, <2>2, PartHeld
<1>9. DecodeFormat5(c, bytes) = DecodeText(c, bytes, Text(bytes), Text(bytes).size + sum)
  BY <1>5, <1>6 DEF DecodeFormat5, sum
<1> DEFINE text == TailText(payload, size)
<1>10. text.end = "tail" /\ text.payload = payload /\ text.size = size
  BY ReadEnd
<1> HIDE DEF size, text
<1>11. DecodeText(c, bytes, text, size + sum) = PayloadReply(payload, size + sum)
  <2>1. text.end # "bad" /\ text.end # "open"
    BY <1>10
  <2>2. ~(SubSeq(bytes, text.size + 1, size + sum) # Checksum(c, text.payload))
    BY <1>8, <1>10 DEF check
  <2>3. ~(Len(text.payload) < 3) /\ ~(text.payload[1] # CountOf(Tail(text.payload)))
    BY <1>1, <1>10
  <2> QED BY ONLY <2>1, <2>2, <2>3, <1>5, <1>10 DEF DecodeText
<1> QED BY <1>3, <1>7, <1>9, <1>10, <1>11 DEF text, payload

\* An unfinished binary frame.
LEMMA BinaryOpening ==
  ASSUME NEW c \in Configs, NEW payload, IsSeq(payload), Len(payload) >= 1,
         NEW frame, frame = BinaryFrame(c, payload),
         NEW bytes, Opens(bytes, frame)
  PROVE  DecodeFormat5(c, bytes) = Incomplete
<1> DEFINE n == Len(Stuffed(payload))
           size == n + 4
           sum == SumSize(c)
<1>1. /\ n \in Nat /\ Len(frame) = size + sum /\ sum \in {0, 2}
      /\ Holds(frame, 0, <<DLE, STX>>)
  BY BinaryFrameIs
<1>2. /\ Begins(bytes, frame) /\ Len(bytes) \in Nat /\ Len(bytes) < Len(frame)
  BY BeginsEither DEF Opens
<1> HIDE DEF n, sum
<1>3. CASE Len(bytes) < 4
  BY <1>3 DEF DecodeFormat5
<1>4. CASE ~(Len(bytes) < 4)
  <2>1. bytes[2] = STX
    <3> DEFINE z == <<DLE, STX>>
    <3>1. 2 \in 1..Len(z) /\ z[2] = STX /\ 0 + 2 <= Len(bytes)
      BY <1>2, <1>4, Two
    <3>2. Holds(frame, 0, z)
      BY <1>1
    <3> HIDE DEF z
    <3>3. bytes[0 + 2] = z[2]
      BY <1>2, <3>1, <3>2, BeginsAt
    <3> QED BY <3>1, <3>3
  <2>2. DecodeFormat5(c, bytes) = DecodeText(c, bytes, Text(bytes), Text(bytes).size + sum)
    BY <1>4, <2>1 DEF DecodeFormat5, sum
  <2>3. IF Len(bytes) >= size THEN Text(bytes) = TailText(payload, size)
        ELSE Text(bytes).end = "open"
    <3>1. Len(bytes) >= 2 /\ Begins(bytes, BinaryFrame(c, payload))
      BY <1>2, <1>4
    <3>2. IF Len(bytes) >= Len(Stuffed(payload)) + 4
          THEN Text(bytes) = TailText(payload, Len(Stuffed(payload)) + 4)
          ELSE Text(bytes).end = "open"
      BY <3>1, TextAlong
    <3> QED BY <3>2 DEF n
  <2>4. Text(bytes).end # "bad"
        /\ (Text(bytes).end = "open" \/ Len(bytes) < Text(bytes).size + sum)
    <3>1. CASE Len(bytes) >= size
      <4>1. Text(bytes).end = "tail" /\ Text(bytes).size = size
        BY <2>3, <3>1, ReadEnd
      <4> QED BY <1>1, <1>2, <4>1
    <3>2. CASE ~(Len(bytes) >= size)
      <4>1. Text(bytes).end = "open"
        BY <2>3, <3>2
      <4> QED BY <4>1
    <3> QED BY <3>1, <3>2
  <2> QED BY ONLY <2>2, <2>4 DEF DecodeText
<1> QED BY <1>3, <1>4

\* A frame that is all there is decoded to the reply it was made of, whatever follows it,
\* and told apart from those for others (FrameCodec::decode_response_validated undoes
\* encode_success_response and encode_error_response).
THEOREM WholeFrame ==
  ASSUME NEW c \in Configs, NEW sender \in Senders, NEW reply, Sendable(c, reply),
         NEW bytes, Holds(bytes, 0, Encode(c, sender, reply))
  PROVE  LET decoded == Decode(c, bytes)
         IN /\ decoded.status = "Complete" /\ decoded.reply = reply
            /\ decoded.consumed = Len(Encode(c, sender, reply))
            /\ decoded.foreign <=> ForeignTo(c, sender)
<1>1. CASE IsAscii(c)
  <2>1. Encode(c, sender, reply) = EncodeAscii(c, sender, reply)
        /\ Decode(c, bytes) = DecodeAscii(c, bytes)
    BY <1>1 DEF Encode, Decode
  <2>2. DecodesTo(c, sender, bytes, Complete(reply, Len(EncodeAscii(c, sender, reply))))
    <3>1. Holds(bytes, 0, EncodeAscii(c, sender, reply))
      BY <2>1
    <3> QED BY <1>1, <3>1, EnqWhole, Format3FrameWhole
  <2>3. PICK foreign :
          /\ foreign <=> ForeignTo(c, sender)
          /\ DecodeAscii(c, bytes)
               = Judgement(Complete(reply, Len(EncodeAscii(c, sender, reply))), foreign)
    BY <2>2 DEF DecodesTo
  <2> QED BY <2>1, <2>3, JudgementHas
<1>2. CASE ~IsAscii(c)
  <2>1. PICK code, data :
          /\ IsSeq(data) /\ ToldBy(code, data) = reply
          /\ reply.data = IF code = Zero THEN data ELSE <<code>>
          /\ code = Zero \/ data = <<>>
          /\ Encode(c, sender, reply)
               = BinaryFrame(c, PayloadOf(Station(sender.station), code, data))
    BY <1>2, BinaryFrames
  <2>2. Decode(c, bytes) = DecodeFormat5(c, bytes)
    BY <1>2 DEF Decode
  <2>3. sender.station \in BOOLEAN
    BY DEF Senders
  <2>4. DecodeFormat5(c, bytes)
          = PayloadReply(PayloadOf(Station(sender.station), code, data),
                         Len(Encode(c, sender, reply)))
    BY <2>1, <2>3, BinaryWhole
  <2>5. ForeignTo(c, sender) <=> ~sender.station
    BY <1>2 DEF ForeignTo, UsesBlockNumber, IsAscii
  <2> DEFINE total == Len(Encode(c, sender, reply))
             d == PayloadReply(PayloadOf(Station(sender.station), code, data), total)
  <2>6. /\ d.status = "Complete" /\ d.reply = ToldBy(code, data) /\ d.consumed = total
        /\ d.foreign <=> ~sender.station
    BY <2>1, <2>3, PayloadReplyIs
  <2> QED BY <2>1, <2>2, <2>4, <2>5, <2>6
<1> QED BY <1>1, <1>2

\* The beginning of a frame is neither an error nor somebody else's: the client waits for
\* the rest of it.
THEOREM PartialFrame ==
  ASSUME NEW c \in Configs, NEW sender \in Senders, NEW reply, Sendable(c, reply),
         NEW bytes, Opens(bytes, Encode(c, sender, reply)), bytes # <<>>
  PROVE  Decode(c, bytes).status = "Incomplete" /\ ~Decode(c, bytes).foreign
<1>1. CASE IsAscii(c)
  <2>1. Encode(c, sender, reply) = EncodeAscii(c, sender, reply)
        /\ Decode(c, bytes) = DecodeAscii(c, bytes)
    BY <1>1 DEF Encode, Decode
  <2>2. OpensTo(c, sender, bytes)
    <3>1. Opens(bytes, EncodeAscii(c, sender, reply))
      BY <2>1
    <3> QED BY <1>1, <3>1, EnqOpening, Format3FrameOpening
  <2>3. Incomplete.status = "Incomplete" /\ ~Incomplete.foreign
    BY IncompleteHas DEF Has
  <2> QED BY <2>1, <2>2, <2>3, JudgementHas DEF OpensTo
<1>2. CASE ~IsAscii(c)
  <2>1. PICK code, data :
          /\ IsSeq(data) /\ ToldBy(code, data) = reply
          /\ reply.data = IF code = Zero THEN data ELSE <<code>>
          /\ code = Zero \/ data = <<>>
          /\ Encode(c, sender, reply)
               = BinaryFrame(c, PayloadOf(Station(sender.station), code, data))
    BY <1>2, BinaryFrames
  <2>2. /\ IsSeq(PayloadOf(Station(sender.station), code, data))
        /\ Len(PayloadOf(Station(sender.station), code, data)) >= 1
    <3>1. /\ IsSeq(PayloadOf(Station(sender.station), code, data))
          /\ Len(PayloadOf(Station(sender.station), code, data)) \in Nat
          /\ Len(PayloadOf(Station(sender.station), code, data)) >= 3
      BY <2>1, PayloadIs
    <3> QED BY <3>1
  <2>3. DecodeFormat5(c, bytes) = Incomplete
    BY <2>1, <2>2, BinaryOpening
  <2> QED BY <1>2, <2>3, IncompleteHas DEF Decode, Has
<1> QED BY <1>1, <1>2

-----------------------------------------------------------------------------
(* What the bytes of a frame look like to is_response_start_byte.          *)

\* No byte of a sequence, or none but the first, begins a response.
Clean(c, s) == \A i \in 1..Len(s) : ~IsStart(c, s[i])
Interior(c, s) == \A i \in 2..Len(s) : ~IsStart(c, s[i])

LEMMA QuietByte ==
  ASSUME NEW c \in Configs, NEW byte, byte[1] \notin {"STX", "ACK", "NAK", "DLE"}
  PROVE  ~IsStart(c, byte) /\ byte # STX /\ byte # DLE
<1>1. STX[1] = "STX" /\ ACK[1] = "ACK" /\ NAK[1] = "NAK" /\ DLE[1] = "DLE"
  BY DEF STX, ACK, NAK, DLE
<1>2. byte # STX /\ byte # ACK /\ byte # NAK /\ byte # DLE
  BY <1>1
<1> QED BY ONLY <1>2 DEF IsStart

LEMMA QuietBytes ==
  ASSUME NEW c \in Configs
  PROVE  /\ \A b : /\ <<"sum1", b>>[1] \notin {"STX", "ACK", "NAK", "DLE"}
                   /\ <<"sum2", b>>[1] \notin {"STX", "ACK", "NAK", "DLE"}
                   /\ <<"count", b>>[1] \notin {"STX", "ACK", "NAK", "DLE"}
         /\ \A byte \in Hex \cup {ETX, SuccessEndCode, ErrorEndCode, Junk, <<"CR">>, <<"LF">>} :
              byte[1] \notin {"STX", "ACK", "NAK", "DLE"}
<1>1. \A b : /\ <<"sum1", b>>[1] \notin {"STX", "ACK", "NAK", "DLE"}
             /\ <<"sum2", b>>[1] \notin {"STX", "ACK", "NAK", "DLE"}
             /\ <<"count", b>>[1] \notin {"STX", "ACK", "NAK", "DLE"}
  OBVIOUS
<1>2. \A byte \in Hex : byte[1] \notin {"STX", "ACK", "NAK", "DLE"}
  BY DEF Hex
<1>3. \A byte \in {ETX, SuccessEndCode, ErrorEndCode, Junk, <<"CR">>, <<"LF">>} :
        byte[1] \notin {"STX", "ACK", "NAK", "DLE"}
  BY DEF ETX, SuccessEndCode, ErrorEndCode, Junk
<1> QED BY <1>1, <1>2, <1>3

LEMMA CleanOne ==
  ASSUME NEW c \in Configs, NEW byte, ~IsStart(c, byte)
  PROVE  Clean(c, <<byte>>) /\ IsSeq(<<byte>>)
<1>1. IsSeq(<<byte>>) /\ Len(<<byte>>) = 1 /\ <<byte>>[1] = byte
  BY One
<1>2. \A i \in 1..Len(<<byte>>) : i = 1
  BY <1>1
<1> QED BY <1>1, <1>2 DEF Clean

LEMMA CleanTwo ==
  ASSUME NEW c \in Configs, NEW a, NEW b, ~IsStart(c, a), ~IsStart(c, b)
  PROVE  Clean(c, <<a, b>>) /\ IsSeq(<<a, b>>)
<1> DEFINE s == <<a, b>>
<1>1. IsSeq(s) /\ Len(s) = 2 /\ s[1] = a /\ s[2] = b
  BY Two
<1> HIDE DEF s
<1>2. \A i \in 1..Len(s) : i = 1 \/ i = 2
  BY <1>1
<1>3. Clean(c, s)
  BY <1>1, <1>2 DEF Clean
<1> QED BY <1>1, <1>3 DEF s

LEMMA CleanJoined ==
  ASSUME NEW c \in Configs, NEW s, IsSeq(s), NEW t, IsSeq(t), Clean(c, t)
  PROVE  /\ IsSeq(s \o t)
         /\ Clean(c, s) => Clean(c, s \o t)
         /\ Interior(c, s) => Interior(c, s \o t)
<1> DEFINE u == s \o t
<1>1. Len(s) \in Nat /\ Len(t) \in Nat
  BY DEF IsSeq
<1>2. /\ IsSeq(u) /\ Len(u) = Len(s) + Len(t)
      /\ \A i \in 1..Len(s) : u[i] = s[i]
      /\ \A i \in 1..Len(t) : u[Len(s) + i] = t[i]
  BY Concatenated
<1> HIDE DEF u
<1>3. ASSUME NEW i \in 1..Len(u), i > Len(s) PROVE ~IsStart(c, u[i])
  <2>1. i - Len(s) \in 1..Len(t) /\ Len(s) + (i - Len(s)) = i
    BY <1>1, <1>2, <1>3
  <2>2. u[Len(s) + (i - Len(s))] = t[i - Len(s)]
    BY <1>2, <2>1
  <2>3. u[i] = t[i - Len(s)]
    BY <2>1, <2>2
  <2> QED BY <2>1, <2>3 DEF Clean
<1>4. ASSUME NEW i \in 1..Len(u), ~(i > Len(s)) PROVE i \in 1..Len(s) /\ u[i] = s[i]
  <2>1. i \in 1..Len(s)
    BY <1>1, <1>2, <1>4
  <2> QED BY <1>2, <2>1
<1>5. Clean(c, s) => Clean(c, u)
  BY <1>3, <1>4 DEF Clean
<1>6. Interior(c, s) => Interior(c, u)
  <2>1. ASSUME Interior(c, s), NEW i \in 2..Len(u) PROVE ~IsStart(c, u[i])
    <3>1. i \in 1..Len(u)
      BY <1>1, <1>2
    <3>2. CASE i > Len(s)
      BY <1>3, <3>1, <3>2
    <3>3. CASE ~(i > Len(s))
      <4>1. i \in 1..Len(s) /\ u[i] = s[i]
        BY <1>4, <3>1, <3>3
      <4>2. i \in 2..Len(s)
        BY <4>1
      <4> QED BY <2>1, <4>1, <4>2 DEF Interior
    <3> QED BY <3>2, <3>3
  <2> QED BY <2>1 DEF Interior
<1> QED BY <1>2, <1>5, <1>6 DEF u

\* The parts of an ASCII frame.
LEMMA CleanParts ==
  ASSUME NEW c \in Configs, NEW sender \in Senders
  PROVE  /\ Clean(c, Prefix(c, sender)) /\ Clean(c, Terminator(c))
         /\ \A b : Clean(c, Checksum(c, b))
<1>1. Clean(c, <<>>) /\ IsSeq(<<>>)
  <2>1. Len(<<>>) = 0 /\ IsSeq(<<>>)
    BY Tuples
  <2> QED BY <2>1 DEF Clean
<1>2. \A own \in BOOLEAN : ~IsStart(c, Station(own))
  <2>1. ASSUME NEW own \in BOOLEAN PROVE ~IsStart(c, Station(own))
    <3>1. Station(own) \in Hex
      BY DEF Station, Hex
    <3> QED BY <3>1, QuietByte, QuietBytes
  <2> QED BY <2>1
<1>3. sender.block \in BOOLEAN /\ sender.station \in BOOLEAN
  BY DEF Senders
<1>4. Clean(c, Prefix(c, sender))
  <2> DEFINE s == <<Station(sender.station)>>
             b == <<Station(sender.block)>>
  <2>1. Clean(c, s) /\ IsSeq(s) /\ Clean(c, b) /\ IsSeq(b)
    <3>1. ~IsStart(c, Station(sender.station)) /\ ~IsStart(c, Station(sender.block))
      BY <1>2, <1>3
    <3> QED BY <3>1, CleanOne
  <2>2. Prefix(c, sender) = (IF UsesBlockNumber(c) THEN b ELSE <<>>) \o s
    BY DEF Prefix
  <2> HIDE DEF s, b
  <2>3. CASE UsesBlockNumber(c)
    BY <2>1, <2>2, <2>3, CleanJoined
  <2>4. CASE ~UsesBlockNumber(c)
    BY <1>1, <2>1, <2>2, <2>4, CleanJoined
  <2> QED BY <2>3, <2>4
<1>5. Clean(c, Terminator(c))
  <2>1. ~IsStart(c, <<"CR">>) /\ ~IsStart(c, <<"LF">>)
    BY QuietByte, QuietBytes
  <2>2. Clean(c, CRLF)
    BY <2>1, CleanTwo DEF CRLF
  <2> QED BY <1>1, <2>2 DEF Terminator
<1>6. ASSUME NEW b PROVE Clean(c, Checksum(c, b))
  <2>1. ~IsStart(c, <<"sum1", b>>) /\ ~IsStart(c, <<"sum2", b>>)
    BY QuietByte, QuietBytes
  <2>2. Clean(c, SumOf(b))
    BY <2>1, CleanTwo DEF SumOf
  <2> QED BY <1>1, <2>2 DEF Checksum
<1> QED BY <1>4, <1>5, <1>6

LEMMA FirstByte ==
  ASSUME NEW c \in Configs, NEW start
  PROVE  Interior(c, <<start>>) /\ IsSeq(<<start>>)
<1>1. IsSeq(<<start>>) /\ Len(<<start>>) = 1
  BY One
<1> QED BY <1>1 DEF Interior

\* The first byte of an ASCII frame begins a response, and no other byte of it does.
AsciiShaped(c, frame) ==
  /\ IsSeq(frame) /\ Len(frame) >= 2 /\ IsStart(c, frame[1]) /\ Interior(c, frame)

LEMMA StartsAre ==
  ASSUME NEW c \in Configs
  PROVE  /\ IsAscii(c) => IsStart(c, STX)
         /\ IsEnqFamily(c) => IsStart(c, ACK) /\ IsStart(c, NAK) /\ IsAscii(c)
         /\ ~IsAscii(c) => \A byte : IsStart(c, byte) <=> byte = DLE
  BY DEF IsStart, IsAscii, IsEnqFamily, Configs, Formats

LEMMA AckShape ==
  ASSUME NEW c \in Configs, NEW sender \in Senders, IsEnqFamily(c)
  PROVE  Interior(c, AckFrame(c, sender))
<1> DEFINE x == <<ACK>>
           h == Prefix(c, sender)
           z == Terminator(c)
<1>1. Interior(c, x) /\ IsSeq(x)
  BY FirstByte
<1>2. IsSeq(h) /\ Clean(c, h) /\ IsSeq(z) /\ Clean(c, z)
  BY PrefixIs, TailsAre, CleanParts
<1>3. AckFrame(c, sender) = (x \o h) \o z
  BY DEF AckFrame
<1> HIDE DEF x, h, z
<1>4. IsSeq(x \o h) /\ Interior(c, x \o h)
  BY <1>1, <1>2, CleanJoined
<1> DEFINE xh == x \o h
<1> HIDE DEF xh
<1>5. Interior(c, xh \o z)
  BY <1>2, <1>4, CleanJoined DEF xh
<1> QED BY <1>3, <1>5 DEF xh

LEMMA NakShape ==
  ASSUME NEW c \in Configs, NEW sender \in Senders, IsEnqFamily(c), NEW code \in Hex
  PROVE  Interior(c, NakFrame(c, sender, code))
<1> DEFINE x == <<NAK>>
           h == Prefix(c, sender)
           e == <<ErrorEndCode>>
           d == <<code>>
           z == Terminator(c)
<1>1. Interior(c, x) /\ IsSeq(x)
  BY FirstByte
<1>2. IsSeq(h) /\ Clean(c, h) /\ IsSeq(z) /\ Clean(c, z)
  BY PrefixIs, TailsAre, CleanParts
<1>3. IsSeq(e) /\ Clean(c, e) /\ IsSeq(d) /\ Clean(c, d)
  <2>1. ~IsStart(c, ErrorEndCode) /\ ~IsStart(c, code)
    BY QuietByte, QuietBytes
  <2> QED BY <2>1, CleanOne
<1>4. NakFrame(c, sender, code) = (((x \o h) \o e) \o d) \o z
  BY DEF NakFrame
<1> HIDE DEF x, h, e, d, z
<1> DEFINE s == x \o h
           t == s \o e
           u == t \o d
<1>5. IsSeq(s) /\ Interior(c, s)
  BY <1>1, <1>2, CleanJoined
<1> HIDE DEF s
<1>6. IsSeq(t) /\ Interior(c, t)
  BY <1>3, <1>5, CleanJoined
<1> HIDE DEF t
<1>7. IsSeq(u) /\ Interior(c, u)
  BY <1>3, <1>6, CleanJoined
<1> HIDE DEF u
<1>8. Interior(c, u \o z)
  BY <1>2, <1>7, CleanJoined
<1> QED BY <1>4, <1>8 DEF s, t, u

LEMMA StxShape ==
  ASSUME NEW c \in Configs, NEW sender \in Senders, NEW content, IsSeq(content),
         Clean(c, content), NEW sum \in BOOLEAN
  PROVE  Interior(c, StxFrame(c, sender, content, sum))
<1> DEFINE x == <<STX>>
           h == Prefix(c, sender)
           e == <<ETX>>
           cover == Covered(c, sender, content)
           check == IF sum THEN Checksum(c, cover) ELSE <<>>
           z == Terminator(c)
<1>1. Interior(c, x) /\ IsSeq(x)
  BY FirstByte
<1>2. IsSeq(h) /\ Clean(c, h) /\ IsSeq(z) /\ Clean(c, z)
  BY PrefixIs, TailsAre, CleanParts
<1>3. IsSeq(e) /\ Clean(c, e)
  <2>1. ~IsStart(c, ETX)
    BY QuietByte, QuietBytes
  <2> QED BY <2>1, CleanOne
<1>4. IsSeq(check) /\ Clean(c, check)
  <2>1. Clean(c, <<>>) /\ IsSeq(<<>>)
    <3>1. Len(<<>>) = 0 /\ IsSeq(<<>>)
      BY Tuples
    <3> QED BY <3>1 DEF Clean
  <2>2. IsSeq(Checksum(c, cover)) /\ Clean(c, Checksum(c, cover))
    BY TailsAre, CleanParts
  <2> QED BY <2>1, <2>2
<1>5. StxFrame(c, sender, content, sum) = ((x \o cover) \o check) \o z
  BY DEF StxFrame
<1>6. cover = (h \o content) \o e
  BY DEF Covered
<1> HIDE DEF x, h, e, cover, check, z
<1> DEFINE hc == h \o content
<1>7. IsSeq(hc) /\ Clean(c, hc)
  BY <1>2, CleanJoined
<1> HIDE DEF hc
<1>8. IsSeq(cover) /\ Clean(c, cover)
  <2>1. IsSeq(hc \o e) /\ Clean(c, hc \o e)
    BY <1>3, <1>7, CleanJoined
  <2> QED BY <1>6, <2>1 DEF hc
<1> DEFINE s == x \o cover
           t == s \o check
<1>9. IsSeq(s) /\ Interior(c, s)
  BY <1>1, <1>8, CleanJoined
<1> HIDE DEF s
<1>10. IsSeq(t) /\ Interior(c, t)
  BY <1>4, <1>9, CleanJoined
<1> HIDE DEF t
<1>11. Interior(c, t \o z)
  BY <1>2, <1>10, CleanJoined
<1> QED BY <1>5, <1>11 DEF s, t

\* Replies of which no byte could be taken for the first byte of a frame, or for STX.
Quiet(c, reply) ==
  /\ Sendable(c, reply)
  /\ \A i \in 1..Len(reply.data) :
       IF IsAscii(c) THEN ~IsStart(c, reply.data[i]) ELSE reply.data[i] # STX

LEMMA FramedBy ==
  ASSUME NEW c \in Configs, NEW sender \in Senders, NEW start, NEW frame,
         Heads(frame, start, c, sender)
  PROVE  IsSeq(frame) /\ Len(frame) >= 2 /\ frame[1] = start
<1>1. Len(frame) \in Nat /\ Len(frame) >= PrefixSize(c) /\ frame[1] = start
  BY AsciiHead
<1> QED BY <1>1, Sizes DEF Heads, Holds

LEMMA AsciiShape ==
  ASSUME NEW c \in Configs, NEW sender \in Senders, IsAscii(c), NEW reply, Quiet(c, reply)
  PROVE  AsciiShaped(c, EncodeAscii(c, sender, reply))
<1> DEFINE frame == EncodeAscii(c, sender, reply)
<1>1. CASE \E data : reply = Success(data) /\ IsSeq(data) /\ NoEtx(data)
  <2>1. PICK data : reply = Success(data) /\ IsSeq(data) /\ NoEtx(data)
    BY <1>1
  <2>2. reply.data = data
    BY <2>1, RepliesAre
  <2>3. Clean(c, data)
    BY <2>2 DEF Quiet, Clean
  <2>4. CASE IsEnqFamily(c) /\ data = <<>>
    <3>1. frame = AckFrame(c, sender)
      BY <2>1, <2>4, EnqFrames
    <3>2. Heads(frame, ACK, c, sender) /\ Interior(c, frame) /\ IsStart(c, ACK)
      BY <2>4, <3>1, AckFrameIs, AckShape, StartsAre
    <3> QED BY <3>2, FramedBy DEF AsciiShaped
  <2>5. CASE IsEnqFamily(c) /\ data # <<>>
    <3>1. frame = StxFrame(c, sender, data, TRUE)
      BY <2>1, <2>5, EnqFrames
    <3>2. Heads(frame, STX, c, sender) /\ Interior(c, frame) /\ IsStart(c, STX)
      BY <2>1, <2>3, <3>1, StxFrameIs, StxShape, StartsAre
    <3> QED BY <3>2, FramedBy DEF AsciiShaped
  <2>6. CASE ~IsEnqFamily(c)
    <3> DEFINE content == <<SuccessEndCode>> \o data
               sum == data # <<>>
    <3>1. frame = StxFrame(c, sender, content, sum)
      BY <2>1, <2>6, Format3Frames
    <3>2. IsSeq(content) /\ Clean(c, content) /\ sum \in BOOLEAN
      <4>1. ~IsStart(c, SuccessEndCode)
        BY QuietByte, QuietBytes
      <4>2. IsSeq(<<SuccessEndCode>>) /\ Clean(c, <<SuccessEndCode>>)
        BY <4>1, CleanOne
      <4> QED BY <2>1, <2>3, <4>2, CleanJoined
    <3> HIDE DEF content, sum
    <3>3. Heads(frame, STX, c, sender) /\ Interior(c, frame) /\ IsStart(c, STX)
      BY <3>1, <3>2, StxFrameIs, StxShape, StartsAre
    <3> QED BY <3>3, FramedBy DEF AsciiShaped
  <2> QED BY <2>4, <2>5, <2>6
<1>2. CASE \E code \in Hex : reply = PlcError(code)
  <2>1. PICK code \in Hex : reply = PlcError(code)
    BY <1>2
  <2>2. CASE IsEnqFamily(c)
    <3>1. frame = NakFrame(c, sender, code)
      BY <2>1, <2>2, EnqFrames
    <3>2. Heads(frame, NAK, c, sender) /\ Interior(c, frame) /\ IsStart(c, NAK)
      BY <2>2, <3>1, NakFrameIs, NakShape, StartsAre
    <3> QED BY <3>2, FramedBy DEF AsciiShaped
  <2>3. CASE ~IsEnqFamily(c)
    <3> DEFINE content == <<ErrorEndCode>> \o <<code>>
    <3>1. frame = StxFrame(c, sender, content, FALSE)
      BY <2>1, <2>3, Format3Frames
    <3>2. IsSeq(content) /\ Clean(c, content)
      <4>1. ~IsStart(c, ErrorEndCode) /\ ~IsStart(c, code)
        BY QuietByte, QuietBytes
      <4>2. IsSeq(<<ErrorEndCode>>) /\ Clean(c, <<ErrorEndCode>>)
            /\ IsSeq(<<code>>) /\ Clean(c, <<code>>)
        BY <4>1, CleanOne
      <4> QED BY <4>2, CleanJoined
    <3> HIDE DEF content
    <3> DEFINE sum == FALSE
    <3>3. sum \in BOOLEAN /\ frame = StxFrame(c, sender, content, sum)
      BY <3>1
    <3> HIDE DEF sum
    <3>4. Heads(frame, STX, c, sender) /\ Interior(c, frame) /\ IsStart(c, STX)
      BY <3>2, <3>3, StxFrameIs, StxShape, StartsAre
    <3> QED BY <3>4, FramedBy DEF AsciiShaped
  <2> QED BY <2>2, <2>3
<1> QED BY <1>1, <1>2 DEF Quiet, Sendable

\* No byte of a sequence is one of some.
Free(B, s) == \A i \in 1..Len(s) : s[i] \notin B

LEMMA FreeJoined ==
  ASSUME NEW B, NEW s, IsSeq(s), Free(B, s), NEW t, IsSeq(t), Free(B, t)
  PROVE  IsSeq(s \o t) /\ Free(B, s \o t)
<1> DEFINE u == s \o t
<1>1. Len(s) \in Nat /\ Len(t) \in Nat
  BY DEF IsSeq
<1>2. /\ IsSeq(u) /\ Len(u) = Len(s) + Len(t)
      /\ \A i \in 1..Len(s) : u[i] = s[i]
      /\ \A i \in 1..Len(t) : u[Len(s) + i] = t[i]
  BY Concatenated
<1> HIDE DEF u
<1>3. ASSUME NEW i \in 1..Len(u) PROVE u[i] \notin B
  <2>1. CASE i > Len(s)
    <3>1. i - Len(s) \in 1..Len(t) /\ Len(s) + (i - Len(s)) = i
      BY <1>1, <1>2, <2>1
    <3>2. u[Len(s) + (i - Len(s))] = t[i - Len(s)]
      BY <1>2, <3>1
    <3>3. u[i] = t[i - Len(s)]
      BY <3>1, <3>2
    <3> QED BY <3>1, <3>3 DEF Free
  <2>2. CASE ~(i > Len(s))
    <3>1. i \in 1..Len(s)
      BY <1>1, <1>2, <2>2
    <3>2. u[i] = s[i]
      BY <1>2, <3>1
    <3> QED BY <3>1, <3>2 DEF Free
  <2> QED BY <2>1, <2>2
<1> QED BY <1>2, <1>3 DEF Free, u

LEMMA FreeShort ==
  ASSUME NEW B
  PROVE  /\ Free(B, <<>>) /\ IsSeq(<<>>)
         /\ \A a : a \notin B => Free(B, <<a>>) /\ IsSeq(<<a>>)
         /\ \A a, b : a \notin B /\ b \notin B => Free(B, <<a, b>>) /\ IsSeq(<<a, b>>)
<1>1. Free(B, <<>>) /\ IsSeq(<<>>)
  <2>1. Len(<<>>) = 0 /\ IsSeq(<<>>)
    BY Tuples
  <2> QED BY <2>1 DEF Free
<1>2. ASSUME NEW a, a \notin B PROVE Free(B, <<a>>) /\ IsSeq(<<a>>)
  <2>1. IsSeq(<<a>>) /\ Len(<<a>>) = 1 /\ <<a>>[1] = a
    BY One
  <2>2. \A i \in 1..Len(<<a>>) : i = 1
    BY <2>1
  <2> QED BY <1>2, <2>1, <2>2 DEF Free
<1>3. ASSUME NEW a, NEW b, a \notin B, b \notin B PROVE Free(B, <<a, b>>) /\ IsSeq(<<a, b>>)
  <2> DEFINE s == <<a, b>>
  <2>1. IsSeq(s) /\ Len(s) = 2 /\ s[1] = a /\ s[2] = b
    BY Two
  <2> HIDE DEF s
  <2>2. \A i \in 1..Len(s) : i = 1 \/ i = 2
    BY <2>1
  <2>3. Free(B, s)
    BY <1>3, <2>1, <2>2 DEF Free
  <2> QED BY <2>1, <2>3 DEF s
<1> QED BY <1>1, <1>2, <1>3

LEMMA StuffedFree ==
  ASSUME NEW B, DLE \notin B,
         NEW payload, IsSeq(payload), Len(payload) >= 1, Free(B, payload)
  PROVE  Free(B, Stuffed(payload))
<1> DEFINE m == Len(payload)
<1>1. m \in Nat /\ m \in 1..m
  BY DEF IsSeq
<1>2. PICK stuffed : Stuffs(payload, stuffed, m) /\ Stuffed(payload) = stuffed[m]
  BY StuffedIs
<1>3. ASSUME NEW i \in 1..m
      PROVE  Free(B, Escaped(payload[i])) /\ IsSeq(Escaped(payload[i]))
  <2>1. payload[i] \notin B
    BY DEF Free
  <2> QED BY <2>1, FreeShort DEF Escaped
<1>4. \A i \in 1..m : IsSeq(stuffed[i])
  BY <1>1, <1>2, StuffedGrows
<1>5. /\ stuffed[1] = Escaped(payload[1])
      /\ \A n \in 1..(m - 1) : stuffed[n + 1] = stuffed[n] \o Escaped(payload[n + 1])
  BY <1>1, <1>2, StuffedSteps
<1> DEFINE S == {n \in Nat : Free(B, stuffed[n])}
<1>6. 1 \in S
  <2>1. 1 \in 1..m
    BY <1>1
  <2>2. Free(B, stuffed[1])
    BY <1>3, <1>5, <2>1
  <2> QED BY <2>2
<1>7. ASSUME NEW n \in 1..(m - 1), n \in S PROVE n + 1 \in S
  <2>1. n \in 1..m /\ n + 1 \in 1..m /\ n + 1 \in Nat
    BY <1>1
  <2>2. Free(B, stuffed[n]) /\ IsSeq(stuffed[n])
    BY <1>4, <1>7, <2>1
  <2>3. Free(B, stuffed[n] \o Escaped(payload[n + 1]))
    BY <1>3, <2>1, <2>2, FreeJoined
  <2>4. Free(B, stuffed[n + 1])
    BY <1>5, <2>3
  <2> QED BY <2>1, <2>4
<1> HIDE DEF S
<1>8. m \in S
  BY <1>1, <1>6, <1>7, Climb
<1> QED BY <1>2, <1>8 DEF S

NoStx(s) == Free({STX}, s)

LEMMA NoStxJoined ==
  ASSUME NEW s, IsSeq(s), NoStx(s), NEW t, IsSeq(t), NoStx(t)
  PROVE  IsSeq(s \o t) /\ NoStx(s \o t)
BY FreeJoined DEF NoStx

LEMMA NoStxShort ==
  /\ NoStx(<<>>) /\ IsSeq(<<>>)
  /\ \A a : a # STX => NoStx(<<a>>) /\ IsSeq(<<a>>)
  /\ \A a, b : a # STX /\ b # STX => NoStx(<<a, b>>) /\ IsSeq(<<a, b>>)
<1>1. \A a : a # STX <=> a \notin {STX}
  OBVIOUS
<1> HIDE DEF NoStx
<1> QED BY <1>1, FreeShort DEF NoStx

LEMMA StuffedQuiet ==
  ASSUME NEW payload, IsSeq(payload), Len(payload) >= 1, NoStx(payload)
  PROVE  NoStx(Stuffed(payload))
BY Starts, StuffedFree DEF NoStx

\* A binary frame begins with DLE STX, and has no other STX.
BinaryShaped(frame) ==
  /\ IsSeq(frame) /\ Len(frame) >= 4 /\ frame[1] = DLE /\ frame[2] = STX
  /\ \A i \in 3..Len(frame) : frame[i] # STX

LEMMA NoStxAfter ==
  ASSUME NEW s, IsSeq(s), Len(s) >= 2, \A i \in 3..Len(s) : s[i] # STX,
         NEW t, IsSeq(t), NoStx(t)
  PROVE  /\ IsSeq(s \o t) /\ Len(s \o t) = Len(s) + Len(t) /\ Len(s \o t) >= 2
         /\ (s \o t)[1] = s[1] /\ (s \o t)[2] = s[2]
         /\ \A i \in 3..Len(s \o t) : (s \o t)[i] # STX
<1> DEFINE u == s \o t
<1>1. Len(s) \in Nat /\ Len(t) \in Nat
  BY DEF IsSeq
<1>2. /\ IsSeq(u) /\ Len(u) = Len(s) + Len(t)
      /\ \A i \in 1..Len(s) : u[i] = s[i]
      /\ \A i \in 1..Len(t) : u[Len(s) + i] = t[i]
  BY Concatenated
<1> HIDE DEF u
<1>3. 1 \in 1..Len(s) /\ 2 \in 1..Len(s) /\ Len(u) >= 2
  BY <1>1, <1>2
<1>4. ASSUME NEW i \in 3..Len(u) PROVE u[i] # STX
  <2>1. CASE i > Len(s)
    <3>1. i - Len(s) \in 1..Len(t) /\ Len(s) + (i - Len(s)) = i
      BY <1>1, <1>2, <2>1
    <3>2. u[Len(s) + (i - Len(s))] = t[i - Len(s)]
      BY <1>2, <3>1
    <3>3. u[i] = t[i - Len(s)]
      BY <3>1, <3>2
    <3> QED BY <3>1, <3>3 DEF NoStx, Free
  <2>2. CASE ~(i > Len(s))
    <3>1. i \in 1..Len(s) /\ i \in 3..Len(s)
      BY <1>1, <1>2, <2>2
    <3>2. u[i] = s[i]
      BY <1>2, <3>1
    <3> QED BY <3>1, <3>2
  <2> QED BY <2>1, <2>2
<1> QED BY <1>2, <1>3, <1>4 DEF u

LEMMA BinaryFrameShape ==
  ASSUME NEW c \in Configs, NEW payload, IsSeq(payload), Len(payload) >= 1, NoStx(payload)
  PROVE  BinaryShaped(BinaryFrame(c, payload))
<1> DEFINE a == <<DLE, STX>>
           s == Stuffed(payload)
           z == <<DLE, ETX>>
           sum == Checksum(c, payload)
           t == a \o s
           u == t \o z
           v == u \o sum
<1>1. IsSeq(a) /\ Len(a) = 2 /\ a[1] = DLE /\ a[2] = STX
  BY Two
<1>2. IsSeq(s) /\ NoStx(s)
  BY StuffedIsSeq, StuffedQuiet
<1>3. IsSeq(z) /\ NoStx(z) /\ Len(z) = 2
  <2>1. DLE # STX /\ ETX # STX
    BY Starts
  <2> QED BY <2>1, NoStxShort, Two
<1>4. IsSeq(sum) /\ NoStx(sum)
  <2>1. \A b : <<"sum1", b>> # STX /\ <<"sum2", b>> # STX
    BY QuietByte, QuietBytes
  <2>2. NoStx(SumOf(payload))
    BY <2>1, NoStxShort DEF SumOf
  <2> QED BY <2>2, NoStxShort, TailsAre DEF Checksum
<1>5. BinaryFrame(c, payload) = v
  BY DEF BinaryFrame
<1> HIDE DEF a, s, z, sum
<1>6. \A i \in 3..Len(a) : a[i] # STX
  BY <1>1
<1>7. /\ IsSeq(t) /\ Len(t) >= 2 /\ t[1] = DLE /\ t[2] = STX
      /\ \A i \in 3..Len(t) : t[i] # STX
  <2>1. Len(a) >= 2
    BY <1>1
  <2> QED BY <1>1, <1>2, <1>6, <2>1, NoStxAfter
<1> HIDE DEF t
<1>8. /\ IsSeq(u) /\ Len(u) = Len(t) + Len(z) /\ Len(u) >= 2 /\ u[1] = DLE /\ u[2] = STX
      /\ \A i \in 3..Len(u) : u[i] # STX
  BY <1>3, <1>7, NoStxAfter
<1>9. Len(u) >= 4 /\ Len(u) \in Nat
  <2>1. Len(t) \in Nat
    BY <1>7 DEF IsSeq
  <2> QED BY <1>3, <1>7, <1>8, <2>1
<1> HIDE DEF u
<1>10. /\ IsSeq(v) /\ Len(v) = Len(u) + Len(sum) /\ v[1] = DLE /\ v[2] = STX
       /\ \A i \in 3..Len(v) : v[i] # STX
  BY <1>4, <1>8, NoStxAfter
<1>11. Len(v) >= 4
  <2>1. Len(sum) \in Nat
    BY <1>4 DEF IsSeq
  <2> QED BY <1>9, <1>10, <2>1
<1> HIDE DEF v
<1> QED BY <1>5, <1>10, <1>11 DEF BinaryShaped

LEMMA BinaryShape ==
  ASSUME NEW c \in Configs, NEW sender \in Senders, ~IsAscii(c), NEW reply, Quiet(c, reply)
  PROVE  BinaryShaped(Encode(c, sender, reply))
<1>1. PICK code, data :
        /\ IsSeq(data)
        /\ reply.data = IF code = Zero THEN data ELSE <<code>>
        /\ code = Zero \/ data = <<>>
        /\ Encode(c, sender, reply)
             = BinaryFrame(c, PayloadOf(Station(sender.station), code, data))
  BY BinaryFrames DEF Quiet
<1> DEFINE station == Station(sender.station)
           a == <<station, code>>
           body == a \o data
           count == CountOf(body)
           payload == PayloadOf(station, code, data)
<1>2. Zero # STX
  <2>1. Zero \in Hex
    BY DEF Zero, Hex
  <2> QED BY <2>1, QuietByte, QuietBytes
<1>3. code # STX /\ NoStx(data)
  <2>1. CASE code = Zero
    <3>1. reply.data = data
      BY <1>1, <2>1
    <3> QED BY <1>2, <2>1, <3>1 DEF Quiet, NoStx, Free
  <2>2. CASE code # Zero
    <3>1. reply.data = <<code>> /\ data = <<>>
      BY <1>1, <2>2
    <3>2. Len(<<code>>) = 1 /\ <<code>>[1] = code
      BY One
    <3>3. 1 \in 1..Len(reply.data) /\ reply.data[1] = code
      BY <3>1, <3>2
    <3> QED BY <3>1, <3>3, NoStxShort DEF Quiet
  <2> QED BY <2>1, <2>2
<1>4. station # STX
  <2>1. station \in Hex
    BY DEF Station, Hex
  <2> QED BY <2>1, QuietByte, QuietBytes
<1>5. payload = <<count>> \o body
  BY DEF PayloadOf
<1>6. IsSeq(payload) /\ Len(payload) >= 1
  <2>1. /\ IsSeq(payload) /\ Len(payload) \in Nat /\ Len(payload) >= 3
    BY <1>1, PayloadIs
  <2> QED BY <2>1
<1>7. count # STX
  BY QuietByte, QuietBytes DEF CountOf
<1> HIDE DEF station, payload, count
<1>8. IsSeq(a) /\ NoStx(a)
  BY <1>3, <1>4, NoStxShort
<1> HIDE DEF a
<1>9. IsSeq(body) /\ NoStx(body)
  BY <1>1, <1>3, <1>8, NoStxJoined
<1> HIDE DEF body
<1>10. IsSeq(<<count>>) /\ NoStx(<<count>>)
  BY <1>7, NoStxShort
<1>11. NoStx(<<count>> \o body)
  BY <1>9, <1>10, NoStxJoined
<1>12. BinaryShaped(BinaryFrame(c, payload))
  BY <1>5, <1>6, <1>11, BinaryFrameShape
<1> QED BY <1>1, <1>12 DEF payload, station

(* The pieces of an undamaged line.                                        *)

Noise(c, p) == IsSeq(p) /\ Len(p) = 1 /\ ~IsStart(c, p[1]) /\ p[1] # STX
Stray(c, p) == IsSeq(p) /\ Len(p) = 1 /\ IsStart(c, p[1])

\* A whole frame.
Framed(c, p, sender, reply) ==
  sender \in Senders /\ Quiet(c, reply) /\ p = Encode(c, sender, reply)

FramedForOthers(c, p) == \E sender, reply : ForeignTo(c, sender) /\ Framed(c, p, sender, reply)

Shaped(c, p) == IF IsAscii(c) THEN AsciiShaped(c, p) ELSE BinaryShaped(p)

LEMMA FramedShape ==
  ASSUME NEW c \in Configs, NEW p, NEW sender, NEW reply, Framed(c, p, sender, reply)
  PROVE  Shaped(c, p)
<1>1. sender \in Senders /\ Quiet(c, reply) /\ p = Encode(c, sender, reply)
  BY DEF Framed
<1>2. CASE IsAscii(c)
  <2>1. AsciiShaped(c, EncodeAscii(c, sender, reply))
    BY <1>1, <1>2, AsciiShape
  <2> QED BY <1>1, <1>2, <2>1 DEF Shaped, Encode
<1>3. CASE ~IsAscii(c)
  BY <1>1, <1>3, BinaryShape DEF Shaped
<1> QED BY <1>2, <1>3

LEMMA QuietReplies ==
  ASSUME NEW c \in Configs
  PROVE  /\ Quiet(c, Success(<<>>)) /\ Quiet(c, PlcError(<<"E">>))
         /\ \A sender : Quiet(c, Data(c, sender))
<1>1. /\ \A data : Success(data).data = data
      /\ \A code : PlcError(code).data = <<code>>
  BY RepliesAre
<1>2. IsSeq(<<>>) /\ Len(<<>>) = 0
  BY Tuples
<1>3. Quiet(c, Success(<<>>))
  <2>1. NoEtx(<<>>)
    BY <1>2 DEF NoEtx
  <2>2. Sendable(c, Success(<<>>))
    BY <1>2, <2>1 DEF Sendable
  <2>3. Success(<<>>).data = <<>>
    BY <1>1
  <2> QED BY <1>2, <2>2, <2>3 DEF Quiet
<1>4. \A byte \in Hex : ~IsStart(c, byte) /\ byte # STX
  BY QuietByte, QuietBytes
<1> DEFINE e == <<"E">>
<1>5. e \in Hex /\ e # Zero
  BY DEF Hex, Zero
<1> HIDE DEF e
<1>6. Quiet(c, PlcError(e))
  <2>1. Sendable(c, PlcError(e))
    BY <1>5 DEF Sendable
  <2>2. PlcError(e).data = <<e>> /\ Len(<<e>>) = 1 /\ <<e>>[1] = e
    BY <1>1, One
  <2>3. ASSUME NEW i \in 1..Len(PlcError(e).data) PROVE PlcError(e).data[i] = e
    <3>1. i = 1
      BY <2>2, <2>3
    <3> QED BY <2>2, <3>1
  <2> QED BY <1>4, <1>5, <2>1, <2>3 DEF Quiet
<1>7. ASSUME NEW sender PROVE Quiet(c, Data(c, sender))
  <2> DEFINE v == ValueOf(sender)
             data == IF IsAscii(c) THEN <<v>> ELSE <<DLE, v>>
  <2>1. v \in Hex
    BY DEF ValueOf, Hex
  <2>2. v # ETX /\ v # STX /\ DLE # STX
    <3>1. v # ETX
      BY <2>1 DEF Hex, ETX
    <3> QED BY <1>4, <2>1, <3>1, Starts
  <2>3. Data(c, sender) = Success(data)
    BY DEF Data
  <2> HIDE DEF v
  <2>4. IsSeq(data)
    BY Tuples
  <2>5. CASE IsAscii(c)
    <3>1. data = <<v>> /\ Len(<<v>>) = 1 /\ <<v>>[1] = v
      BY <2>5, One
    <3> HIDE DEF data
    <3>2. ASSUME NEW i \in 1..Len(data) PROVE data[i] = v
      <4>1. i = 1
        BY <3>1, <3>2
      <4> QED BY <3>1, <4>1
    <3>3. NoEtx(data)
      BY <2>2, <2>4, <3>2 DEF NoEtx
    <3>4. Sendable(c, Success(data)) /\ Success(data).data = data
      BY <1>1, <2>4, <3>3 DEF Sendable
    <3> QED BY <1>4, <2>1, <2>3, <2>5, <3>2, <3>4 DEF Quiet
  <2>6. CASE ~IsAscii(c)
    <3>1. data = <<DLE, v>> /\ NoStx(<<DLE, v>>)
      BY <2>2, <2>6, NoStxShort
    <3> HIDE DEF data
    <3>2. Sendable(c, Success(data)) /\ Success(data).data = data
      BY <1>1, <2>4, <2>6 DEF Sendable
    <3> QED BY <2>3, <2>6, <3>1, <3>2 DEF Quiet, NoStx, Free
  <2> QED BY <2>5, <2>6
<1> QED BY <1>3, <1>6, <1>7 DEF e

LEMMA WhoseFrames ==
  ASSUME NEW c \in Configs
  PROVE  /\ Ours \in Senders /\ ~ForeignTo(c, Ours)
         /\ Theirs \in Senders /\ ForeignTo(c, Theirs)
         /\ Earlier \in Senders
         /\ UsesBlockNumber(c) => ForeignTo(c, Earlier)
BY DEF Ours, Theirs, Earlier, Senders, ForeignTo

LEMMA AnswerFramed ==
  ASSUME NEW c \in Configs, NEW reply \in Answers(c)
  PROVE  Framed(c, Encode(c, Ours, reply), Ours, reply)
<1>1. Quiet(c, reply)
  BY QuietReplies DEF Answers
<1> QED BY <1>1, WhoseFrames DEF Framed

\* Noise, a stray start byte or a frame for somebody else.
LEMMA HarmlessPieces ==
  ASSUME NEW c \in Configs, NEW piece \in Harmless(c)
  PROVE  \/ piece = "junk" /\ Noise(c, Bytes(c, piece))
         \/ piece = "stray" /\ Stray(c, Bytes(c, piece))
         \/ /\ piece # "junk" /\ piece # "stray"
            /\ FramedForOthers(c, Bytes(c, piece))
<1>1. CASE piece = "junk"
  <2>1. Bytes(c, piece) = <<Junk>>
    BY <1>1 DEF Bytes
  <2>2. ~IsStart(c, Junk) /\ Junk # STX
    BY QuietByte, QuietBytes
  <2> QED BY <1>1, <2>1, <2>2, One DEF Noise
<1>2. CASE piece = "stray"
  <2> DEFINE byte == IF c.format = "Format5" THEN DLE
                     ELSE IF c.format = "Format3" THEN STX ELSE ACK
  <2>1. Bytes(c, piece) = <<byte>>
    BY <1>2 DEF Bytes
  <2>2. IsStart(c, byte)
    BY DEF IsStart
  <2> HIDE DEF byte
  <2> QED BY <1>2, <2>1, <2>2, One DEF Stray
<1>3. CASE piece # "junk" /\ piece # "stray"
  <2>1. ASSUME NEW sender \in Senders, ForeignTo(c, sender), NEW reply, Quiet(c, reply)
        PROVE  FramedForOthers(c, Encode(c, sender, reply))
    BY <2>1 DEF Framed, FramedForOthers
  <2>2. CASE piece \in {"other data", "other done", "other error"}
    <3>1. Bytes(c, piece) = DataFrame(c, Theirs)
          \/ Bytes(c, piece) = Encode(c, Theirs, Success(<<>>))
          \/ Bytes(c, piece) = Encode(c, Theirs, PlcError(<<"E">>))
      BY <2>2 DEF Bytes
    <3> QED BY <1>3, <2>1, <3>1, QuietReplies, WhoseFrames DEF DataFrame
  <2>3. CASE piece \in {"late data", "late done", "late error"}
    <3>1. Bytes(c, piece) = DataFrame(c, Earlier)
          \/ Bytes(c, piece) = Encode(c, Earlier, Success(<<>>))
          \/ Bytes(c, piece) = Encode(c, Earlier, PlcError(<<"E">>))
      BY <2>3 DEF Bytes
    <3>2. UsesBlockNumber(c)
      BY <2>3 DEF Harmless
    <3> QED BY <1>3, <2>1, <3>1, <3>2, QuietReplies, WhoseFrames DEF DataFrame
  <2> QED BY <1>3, <2>2, <2>3 DEF Harmless
<1> QED BY <1>1, <1>2, <1>3

-----------------------------------------------------------------------------
(* What is decoded where no frame of its own begins.                       *)

\* A start byte inside a binary frame.
LEMMA DecodedInside ==
  ASSUME NEW c \in Configs, ~IsAscii(c), NEW bytes, IsSeq(bytes),
         Len(bytes) >= 2 => bytes[2] # STX
  PROVE  /\ ~Decode(c, bytes).foreign /\ Decode(c, bytes).status # "Complete"
         /\ Decode(c, bytes).status = "Incomplete" <=> Len(bytes) < 4
<1>0. Len(bytes) \in Nat
  BY DEF IsSeq
<1>1. CASE Len(bytes) < 4
  <2>1. Decode(c, bytes) = Incomplete
    BY <1>1 DEF Decode, DecodeFormat5
  <2> QED BY <1>1, <2>1, IncompleteHas DEF Has
<1>2. CASE ~(Len(bytes) < 4)
  <2>1. Decode(c, bytes) = Malformed(1)
    BY <1>0, <1>2 DEF Decode, DecodeFormat5
  <2> QED BY <1>2, <2>1, MalformedHas DEF Has
<1> QED BY <1>1, <1>2

\* A start byte alone, and one with another behind it.
LEMMA DecodedStray ==
  ASSUME NEW c \in Configs, NEW bytes, IsSeq(bytes), Len(bytes) >= 1,
         Len(bytes) >= 2 => IsStart(c, bytes[2])
  PROVE  /\ ~Decode(c, bytes).foreign /\ Decode(c, bytes).status # "Complete"
         /\ Len(bytes) = 1 => Decode(c, bytes).status = "Incomplete"
         /\ Decode(c, bytes).status = "Incomplete"
              => Len(bytes) = 1 \/ (~IsAscii(c) /\ Len(bytes) < 4)
<1>0. Len(bytes) \in Nat
  BY DEF IsSeq
<1>1. CASE ~IsAscii(c)
  <2>1. Len(bytes) >= 2 => bytes[2] # STX
    BY <1>1, StartsAre, Starts
  <2>2. /\ ~Decode(c, bytes).foreign /\ Decode(c, bytes).status # "Complete"
        /\ Decode(c, bytes).status = "Incomplete" <=> Len(bytes) < 4
    BY <1>1, <2>1, DecodedInside
  <2> QED BY <1>0, <1>1, <2>2
<1>2. CASE IsAscii(c)
  <2>0. Decode(c, bytes) = DecodeAscii(c, bytes)
    BY <1>2 DEF Decode
  <2>1. CASE Len(bytes) = 1
    <3>1. DecodeAscii(c, bytes) = Incomplete
      BY <2>1, Sizes DEF DecodeAscii
    <3> QED BY <2>0, <2>1, <3>1, IncompleteHas DEF Has
  <2>2. CASE Len(bytes) >= 2
    <3>1. bytes[2] \notin Hex
      <4>1. \A byte \in Hex : ~IsStart(c, byte)
        BY QuietByte, QuietBytes
      <4> QED BY <2>2, <4>1
    <3> SUFFICES Decode(c, bytes).status = "Error" /\ ~Decode(c, bytes).foreign
      BY <1>0, <2>2
    <3>2. CASE UsesBlockNumber(c)
      <4>1. DecodeAscii(c, bytes) = Malformed(2)
        BY <2>2, <3>1, <3>2 DEF DecodeAscii
      <4>2. Malformed(2).status = "Error" /\ ~Malformed(2).foreign
        BY MalformedHas DEF Has
      <4> QED BY <2>0, <4>1, <4>2
    <3>3. CASE ~UsesBlockNumber(c)
      <4>1. PrefixSize(c) = 2
        BY <3>3 DEF PrefixSize
      <4>2. DecodeAsciiBody(c, bytes) = Malformed(2)
        BY <3>1, <4>1 DEF DecodeAsciiBody
      <4>3. ~ForeignAscii(c, bytes)
        BY <3>1, <3>3, <4>1 DEF ForeignAscii
      <4>4. ~(Len(bytes) < PrefixSize(c))
        BY <1>0, <2>2, <4>1
      <4>5. DecodeAscii(c, bytes)
              = [Malformed(2) EXCEPT !.foreign = /\ Malformed(2).status # "Incomplete"
                                                 /\ ForeignAscii(c, bytes)]
        BY <3>3, <4>2, <4>4 DEF DecodeAscii
      <4> DEFINE d == [Malformed(2) EXCEPT !.foreign = /\ Malformed(2).status # "Incomplete"
                                                       /\ ForeignAscii(c, bytes)]
      <4>6. d.status = "Error" /\ ~d.foreign
        BY <4>3, MalformedHas DEF Malformed, Incomplete
      <4> QED BY <2>0, <4>5, <4>6
    <3> QED BY <3>2, <3>3
  <2>3. Len(bytes) = 1 \/ Len(bytes) >= 2
    <3> DEFINE k == Len(bytes)
    <3>1. k \in Nat /\ k >= 1
      BY <1>0
    <3> HIDE DEF k
    <3>2. k = 1 \/ k >= 2
      BY <3>1
    <3> QED BY <3>2 DEF k
  <2> QED BY <2>1, <2>2, <2>3
<1> QED BY <1>1, <1>2

(* What a buffer holds of the line: its bytes after an offset, as far as   *)
(* they have been delivered.                                               *)
View(bytes, a, d) == SubSeq(bytes, a + 1, d)

LEMMA ViewIs ==
  ASSUME NEW bytes, IsSeq(bytes), NEW a \in Nat, NEW d \in Nat, a <= d, d <= Len(bytes)
  PROVE  /\ IsSeq(View(bytes, a, d)) /\ Len(View(bytes, a, d)) = d - a
         /\ \A i \in 1..(d - a) : View(bytes, a, d)[i] = bytes[a + i]
<1> DEFINE m == a + 1
           w == SubSeq(bytes, m, d)
<1>1. m \in Nat \ {0} /\ m <= d + 1
  OBVIOUS
<1>2. d - m + 1 = d - a /\ \A i \in 1..(d - a) : m - 1 + i = a + i
  OBVIOUS
<1>3. View(bytes, a, d) = w
  BY DEF View
<1> HIDE DEF m
<1>4. IsSeq(w) /\ Len(w) = d - m + 1 /\ \A i \in 1..(d - m + 1) : w[i] = bytes[m - 1 + i]
  BY <1>1, Part
<1> HIDE DEF w
<1> QED BY <1>2, <1>3, <1>4

LEMMA ViewFrom ==
  ASSUME NEW bytes, IsSeq(bytes), NEW a \in Nat, NEW d \in Nat, a <= d, d <= Len(bytes),
         NEW o \in 1..(d - a + 1)
  PROVE  From(View(bytes, a, d), o) = View(bytes, a + o - 1, d)
<1> DEFINE w == View(bytes, a, d)
           b == a + o - 1
           v == View(bytes, b, d)
           u == From(w, o)
<1>1. IsSeq(w) /\ Len(w) = d - a /\ \A i \in 1..(d - a) : w[i] = bytes[a + i]
  BY ViewIs
<1>2. b \in Nat /\ b <= d
  OBVIOUS
<1>2a. d - b = d - a - o + 1 /\ \A i \in 1..(d - b) : b + i = a + (o - 1 + i)
  OBVIOUS
<1> HIDE DEF b
<1>3. IsSeq(v) /\ Len(v) = d - b /\ \A i \in 1..(d - b) : v[i] = bytes[b + i]
  BY <1>2, ViewIs
<1> HIDE DEF v, w
<1>4. IsSeq(u) /\ Len(u) = d - a - o + 1
      /\ \A i \in 1..(d - a - o + 1) : u[i] = w[o - 1 + i]
  <2> DEFINE k == Len(w)
  <2>1. o \in Nat \ {0} /\ k \in Nat /\ k <= Len(w) /\ o <= k + 1
    BY <1>1
  <2>2. u = SubSeq(w, o, k) /\ k = d - a
    BY <1>1 DEF From
  <2> HIDE DEF k, u
  <2>3. /\ IsSeq(SubSeq(w, o, k)) /\ Len(SubSeq(w, o, k)) = k - o + 1
        /\ \A i \in 1..(k - o + 1) : SubSeq(w, o, k)[i] = w[o - 1 + i]
    BY <1>1, <2>1, Part
  <2> QED BY <2>2, <2>3
<1> HIDE DEF u
<1>5. ASSUME NEW i \in 1..Len(u) PROVE u[i] = v[i]
  <2>1. i \in 1..(d - a - o + 1) /\ i \in 1..(d - b) /\ o - 1 + i \in 1..(d - a)
    BY <1>2a, <1>4
  <2>2. u[i] = w[o - 1 + i] /\ v[i] = bytes[b + i] /\ w[o - 1 + i] = bytes[a + (o - 1 + i)]
    BY <1>1, <1>3, <1>4, <2>1
  <2> QED BY <1>2a, <2>1, <2>2
<1>6. Len(u) = Len(v)
  BY <1>2a, <1>3, <1>4
<1>7. u = v
  BY <1>3, <1>4, <1>5, <1>6, Same
<1> QED BY <1>7 DEF u, v, w, b

\* Bytes are n pieces, each from its offset on.
Laid(bytes, n, at, piece) ==
  /\ at[1] = 0 /\ at[n + 1] = Len(bytes)
  /\ \A k \in 1..n : /\ at[k] \in Nat /\ at[k + 1] = at[k] + Len(piece[k])
                     /\ Holds(bytes, at[k], piece[k])

\* None of them is empty.
Solid(bytes, n, at, piece) ==
  /\ n \in Nat /\ n >= 1 /\ IsSeq(bytes) /\ Laid(bytes, n, at, piece)
  /\ \A k \in 1..n : Len(piece[k]) \in Nat /\ Len(piece[k]) >= 1

\* The offsets grow.
LEMMA LaidOrder ==
  ASSUME NEW bytes, NEW n, NEW at, NEW piece, Solid(bytes, n, at, piece)
  PROVE  /\ \A k \in 1..(n + 1) : at[k] \in 0..Len(bytes)
         /\ \A k \in 1..n : at[k] < at[k + 1]
         /\ \A i, k \in 1..(n + 1) : i < k => at[i] < at[k]
<1>1. n \in Nat /\ n >= 1 /\ Len(bytes) \in Nat /\ at[n + 1] = Len(bytes)
  BY DEF Solid, Laid, IsSeq
<1>2. ASSUME NEW k \in 1..n PROVE at[k] \in Nat /\ at[k + 1] \in Nat /\ at[k] < at[k + 1]
  <2>1. at[k] \in Nat /\ at[k + 1] = at[k] + Len(piece[k])
    BY DEF Solid, Laid
  <2>2. Len(piece[k]) \in Nat /\ Len(piece[k]) >= 1
    BY DEF Solid
  <2> DEFINE l == Len(piece[k])
  <2> HIDE DEF l
  <2>3. at[k + 1] = at[k] + l /\ l \in Nat /\ l >= 1
    BY <2>1, <2>2 DEF l
  <2> QED BY <2>1, <2>3
<1>3. ASSUME NEW i \in 1..(n + 1), NEW k \in 1..(n + 1), i < k PROVE at[i] < at[k]
  <2> DEFINE S == {j \in Nat : at[j] \in Nat /\ at[i] < at[j]}
  <2>1. i \in 1..n /\ at[i] \in Nat
    BY <1>1, <1>2, <1>3
  <2>2. i + 1 \in S
    BY <1>2, <2>1
  <2>3. ASSUME NEW j \in (i + 1)..(k - 1), j \in S PROVE j + 1 \in S
    <3>1. j \in 1..n /\ j + 1 \in Nat
      BY <1>1, <2>1
    <3>2. at[j + 1] \in Nat /\ at[j] < at[j + 1]
      BY <1>2, <3>1
    <3>3. at[j] \in Nat /\ at[i] < at[j]
      BY <2>3
    <3> QED BY <2>1, <3>1, <3>2, <3>3
  <2>4. k \in (i + 1)..k /\ i + 1 \in Nat /\ k \in Nat
    BY <1>1, <1>3
  <2> HIDE DEF S
  <2>5. k \in S
    BY <2>2, <2>3, <2>4, Climb
  <2> QED BY <2>5 DEF S
<1>4. ASSUME NEW k \in 1..(n + 1) PROVE at[k] \in 0..Len(bytes)
  <2>1. CASE k = n + 1
    BY <1>1, <2>1
  <2>2. CASE k # n + 1
    <3>1. k \in 1..n /\ n + 1 \in 1..(n + 1) /\ k < n + 1
      BY <1>1, <2>2
    <3>2. at[k] \in Nat /\ at[k] < at[n + 1]
      BY <1>2, <1>3, <3>1
    <3> QED BY <1>1, <3>2
  <2> QED BY <2>1, <2>2
<1> QED BY <1>2, <1>3, <1>4

\* Every byte belongs to a piece.
LEMMA LaidLocated ==
  ASSUME NEW bytes, NEW n, NEW at, NEW piece, Solid(bytes, n, at, piece), NEW p \in 1..Len(bytes)
  PROVE  \E k \in 1..n : at[k] < p /\ p <= at[k + 1]
<1>1. n \in Nat /\ n >= 1 /\ Len(bytes) \in Nat /\ at[1] = 0 /\ at[n + 1] = Len(bytes)
  BY DEF Solid, Laid, IsSeq
<1> DEFINE T == {k \in 1..n : p <= at[k + 1]}
<1>2. n \in T /\ T \subseteq Nat
  BY <1>1
<1>3. PICK k \in T : \A j \in T : k <= j
  BY <1>2, LeastExists
<1>4. k \in 1..n /\ p <= at[k + 1]
  BY <1>3
<1>5. at[k] < p
  <2>1. CASE k = 1
    BY <1>1, <2>1
  <2>2. CASE k # 1
    <3>1. k - 1 \in 1..n /\ (k - 1) + 1 = k
      BY <1>1, <1>4, <2>2
    <3>2. k - 1 \notin T
      BY <1>3, <1>4
    <3>3. ~(p <= at[k])
      BY <3>1, <3>2
    <3>4. at[k] \in Nat
      BY <1>4 DEF Solid, Laid
    <3> QED BY <1>1, <3>3, <3>4
  <2> QED BY <2>1, <2>2
<1> QED BY <1>4, <1>5

\* The pieces of an undamaged line, and the last is the answer.
Layout(c, bytes, n, at, piece, reply) ==
  /\ n \in Nat /\ n >= 1 /\ IsSeq(bytes) /\ Laid(bytes, n, at, piece)
  /\ \A k \in 1..(n - 1) : \/ Noise(c, piece[k])
                           \/ Stray(c, piece[k]) /\ ~Noise(c, piece[k + 1])
                           \/ FramedForOthers(c, piece[k])
  /\ Framed(c, piece[n], Ours, reply)

LEMMA PieceKinds ==
  ASSUME NEW c \in Configs, NEW bytes, NEW n, NEW at, NEW piece, NEW reply,
         Layout(c, bytes, n, at, piece, reply), NEW k \in 1..n
  PROVE  \/ k < n /\ Noise(c, piece[k])
         \/ k < n /\ Stray(c, piece[k]) /\ ~Noise(c, piece[k + 1])
         \/ k < n /\ FramedForOthers(c, piece[k])
         \/ k = n /\ Framed(c, piece[k], Ours, reply)
<1>1. n \in Nat
  BY DEF Layout, Laid
<1>2. CASE k = n
  BY <1>2 DEF Layout, Laid
<1>3. CASE k # n
  <2>1. k \in 1..(n - 1) /\ k < n
    BY <1>1, <1>3
  <2> QED BY <2>1 DEF Layout, Laid
<1> QED BY <1>2, <1>3

LEMMA ShapedHas ==
  ASSUME NEW c \in Configs, NEW p, Shaped(c, p)
  PROVE  /\ IsSeq(p) /\ Len(p) \in Nat /\ Len(p) >= 2 /\ (~IsAscii(c) => Len(p) >= 4)
         /\ IsStart(c, p[1]) /\ (~IsAscii(c) => p[1] # STX)
<1>1. IsSeq(p) /\ Len(p) \in Nat
  BY DEF Shaped, AsciiShaped, BinaryShaped, IsSeq
<1>2. CASE IsAscii(c)
  BY <1>1, <1>2 DEF Shaped, AsciiShaped
<1>3. CASE ~IsAscii(c)
  <2>1. p[1] = DLE /\ Len(p) >= 4
    BY <1>3 DEF Shaped, BinaryShaped
  <2>2. Len(p) >= 2
    BY <1>1, <2>1
  <2> QED BY <1>1, <1>3, <2>1, <2>2, StartsAre, Starts
<1> QED BY <1>2, <1>3

\* Every piece has a first byte, which begins a response or is noise.
LEMMA FirstBytes ==
  ASSUME NEW c \in Configs, NEW bytes, NEW n, NEW at, NEW piece, NEW reply,
         Layout(c, bytes, n, at, piece, reply), NEW k \in 1..n
  PROVE  /\ IsSeq(piece[k]) /\ Len(piece[k]) \in Nat /\ Len(piece[k]) >= 1
         /\ bytes[at[k] + 1] = piece[k][1]
         /\ IsStart(c, piece[k][1]) <=> ~Noise(c, piece[k])
         /\ ~IsAscii(c) => piece[k][1] # STX
<1> DEFINE p == piece[k]
<1>1. Holds(bytes, at[k], p)
  BY DEF Layout, Laid
<1>2. /\ IsSeq(p) /\ Len(p) \in Nat /\ Len(p) >= 1
      /\ IsStart(c, p[1]) <=> ~Noise(c, p)
      /\ ~IsAscii(c) => p[1] # STX
  <2>1. CASE Noise(c, p)
    <3>1. IsSeq(p) /\ Len(p) = 1 /\ ~IsStart(c, p[1]) /\ p[1] # STX
      BY <2>1 DEF Noise
    <3> QED BY <2>1, <3>1
  <2>2. CASE Stray(c, p)
    <3>1. IsSeq(p) /\ Len(p) = 1 /\ IsStart(c, p[1])
      BY <2>2 DEF Stray
    <3>2. ~IsAscii(c) => p[1] # STX
      BY <3>1, StartsAre, Starts
    <3>3. ~Noise(c, p)
      BY <3>1 DEF Noise
    <3> QED BY <3>1, <3>2, <3>3
  <2>3. CASE Shaped(c, p)
    <3>1. /\ IsSeq(p) /\ Len(p) \in Nat /\ Len(p) >= 2
          /\ IsStart(c, p[1])
          /\ ~IsAscii(c) => p[1] # STX
      BY <2>3, ShapedHas
    <3>2. ~Noise(c, p)
      BY <3>1 DEF Noise
    <3> QED BY <3>1, <3>2
  <2>4. Noise(c, p) \/ Stray(c, p) \/ Shaped(c, p)
    BY PieceKinds, FramedShape DEF FramedForOthers
  <2> QED BY <2>1, <2>2, <2>3, <2>4
<1>3. bytes[at[k] + 1] = p[1]
  <2>1. 1 \in 1..Len(p)
    BY <1>2
  <2> QED BY <1>1, <2>1 DEF Holds
<1> QED BY <1>2, <1>3

LEMMA LayoutSolid ==
  ASSUME NEW c \in Configs, NEW bytes, NEW n, NEW at, NEW piece, NEW reply,
         Layout(c, bytes, n, at, piece, reply)
  PROVE  Solid(bytes, n, at, piece)
<1>1. \A k \in 1..n : Len(piece[k]) \in Nat /\ Len(piece[k]) >= 1
  BY FirstBytes
<1> QED BY <1>1 DEF Layout, Solid

LEMMA Order ==
  ASSUME NEW c \in Configs, NEW bytes, NEW n, NEW at, NEW piece, NEW reply,
         Layout(c, bytes, n, at, piece, reply)
  PROVE  /\ \A k \in 1..(n + 1) : at[k] \in 0..Len(bytes)
         /\ \A k \in 1..n : at[k] < at[k + 1]
         /\ \A i, k \in 1..(n + 1) : i < k => at[i] < at[k]
BY LayoutSolid, LaidOrder

LEMMA Located ==
  ASSUME NEW c \in Configs, NEW bytes, NEW n, NEW at, NEW piece, NEW reply,
         Layout(c, bytes, n, at, piece, reply), NEW p \in 1..Len(bytes)
  PROVE  \E k \in 1..n : at[k] < p /\ p <= at[k + 1]
BY LayoutSolid, LaidLocated

LEMMA PieceAt ==
  ASSUME NEW c \in Configs, NEW bytes, NEW n, NEW at, NEW piece, NEW reply,
         Layout(c, bytes, n, at, piece, reply), NEW k \in 1..n
  PROVE  /\ n \in Nat /\ at[1] = 0 /\ at[n + 1] = Len(bytes)
         /\ IsSeq(bytes) /\ Len(bytes) \in Nat
         /\ at[k] \in Nat /\ at[k + 1] = at[k] + Len(piece[k])
         /\ Holds(bytes, at[k], piece[k])
         /\ IsSeq(piece[k]) /\ Len(piece[k]) \in Nat /\ Len(piece[k]) >= 1
<1>1. /\ n \in Nat /\ at[1] = 0 /\ at[n + 1] = Len(bytes) /\ IsSeq(bytes)
      /\ at[k] \in Nat /\ at[k + 1] = at[k] + Len(piece[k])
      /\ Holds(bytes, at[k], piece[k])
  BY DEF Layout, Laid
<1>2. Len(bytes) \in Nat
  BY <1>1 DEF IsSeq
<1>3. IsSeq(piece[k]) /\ Len(piece[k]) \in Nat /\ Len(piece[k]) >= 1
  BY FirstBytes
<1> QED BY <1>1, <1>2, <1>3

\* A frame of the line that is all there.
LEMMA WholeAt ==
  ASSUME NEW c \in Configs, NEW bytes, IsSeq(bytes), NEW a \in Nat, NEW p,
         Holds(bytes, a, p), NEW sender, NEW said, Framed(c, p, sender, said),
         NEW d \in 1..Len(bytes), a + Len(p) <= d
  PROVE  LET decoded == Decode(c, View(bytes, a, d))
         IN /\ decoded.status = "Complete" /\ decoded.reply = said
            /\ decoded.consumed = Len(p)
            /\ decoded.foreign <=> ForeignTo(c, sender)
<1> DEFINE w == View(bytes, a, d)
           l == Len(p)
<1>1. l \in Nat /\ Len(bytes) \in Nat /\ IsSeq(p) /\ a + l <= d
  BY DEF Holds, IsSeq
<1>2. sender \in Senders /\ Quiet(c, said) /\ p = Encode(c, sender, said)
  BY DEF Framed
<1>3. a + l <= d /\ d \in Nat /\ a <= d /\ d <= Len(bytes)
  <2> HIDE DEF l
  <2> QED BY <1>1
<1>4. IsSeq(w) /\ Len(w) = d - a /\ \A i \in 1..(d - a) : w[i] = bytes[a + i]
  BY <1>1, <1>3, ViewIs
<1> HIDE DEF w
<1>5. Holds(w, 0, p)
  <2>1. 0 + Len(p) <= Len(w)
    <3> HIDE DEF l
    <3>1. 0 + l <= Len(w)
      BY <1>1, <1>3, <1>4
    <3> QED BY <3>1 DEF l
  <2>2. ASSUME NEW i \in 1..l PROVE w[0 + i] = p[i]
    <3>1. bytes[a + i] = p[i]
      BY <1>1 DEF Holds
    <3> HIDE DEF l
    <3>2. i \in 1..(d - a) /\ 0 + i = i
      BY <1>1, <1>3
    <3> QED BY <1>4, <3>1, <3>2
  <2> QED BY <1>1, <1>4, <2>1, <2>2 DEF Holds
<1>6. Sendable(c, said)
  BY <1>2 DEF Quiet
<1>7. /\ Decode(c, w).status = "Complete" /\ Decode(c, w).reply = said
      /\ Decode(c, w).consumed = l
      /\ Decode(c, w).foreign <=> ForeignTo(c, sender)
  BY <1>2, <1>5, <1>6, WholeFrame
<1> QED BY <1>7 DEF w

\* The beginning of one.
LEMMA PartAt ==
  ASSUME NEW c \in Configs, NEW bytes, IsSeq(bytes), NEW a \in Nat, NEW p,
         Holds(bytes, a, p), NEW sender, NEW said, Framed(c, p, sender, said),
         NEW d \in 1..Len(bytes), a < d, d < a + Len(p)
  PROVE  LET decoded == Decode(c, View(bytes, a, d))
         IN decoded.status = "Incomplete" /\ ~decoded.foreign
<1> DEFINE w == View(bytes, a, d)
           l == Len(p)
<1>1. l \in Nat /\ Len(bytes) \in Nat /\ IsSeq(p) /\ a < d /\ d < a + l
  BY DEF Holds, IsSeq
<1>2. sender \in Senders /\ Quiet(c, said) /\ p = Encode(c, sender, said)
  BY DEF Framed
<1>3. a + l > d /\ d \in Nat /\ a <= d /\ d <= Len(bytes) /\ d - a >= 1
  <2> HIDE DEF l
  <2> QED BY <1>1
<1>4. IsSeq(w) /\ Len(w) = d - a /\ \A i \in 1..(d - a) : w[i] = bytes[a + i]
  BY <1>1, <1>3, ViewIs
<1> HIDE DEF w
<1>5. Opens(w, p)
  <2>1. Len(w) < Len(p)
    <3> HIDE DEF l
    <3>1. Len(w) < l
      BY <1>1, <1>3, <1>4
    <3> QED BY <3>1 DEF l
  <2>2. ASSUME NEW i \in 1..Len(w) PROVE w[i] = p[i]
    <3> HIDE DEF l
    <3>1. i \in 1..(d - a) /\ i \in 1..l
      BY <1>1, <1>3, <1>4
    <3>2. bytes[a + i] = p[i]
      BY <1>1, <3>1 DEF Holds, l
    <3> QED BY <1>4, <3>1, <3>2
  <2> QED BY <1>1, <1>4, <2>1, <2>2 DEF Opens
<1>6. w # <<>>
  <2>1. Len(<<>>) = 0
    BY Tuples
  <2> QED BY <1>1, <1>3, <1>4, <2>1
<1>7. Decode(c, w).status = "Incomplete" /\ ~Decode(c, w).foreign
  BY <1>2, <1>5, <1>6, PartialFrame DEF Quiet
<1> QED BY <1>7 DEF w

LEMMA WholePiece ==
  ASSUME NEW c \in Configs, NEW bytes, NEW n, NEW at, NEW piece, NEW reply,
         Layout(c, bytes, n, at, piece, reply), NEW k \in 1..n, NEW sender, NEW said,
         Framed(c, piece[k], sender, said), NEW d \in 1..Len(bytes), at[k + 1] <= d
  PROVE  LET decoded == Decode(c, View(bytes, at[k], d))
         IN /\ decoded.status = "Complete" /\ decoded.reply = said
            /\ decoded.consumed = at[k + 1] - at[k]
            /\ decoded.foreign <=> ForeignTo(c, sender)
<1> DEFINE a == at[k]
           p == piece[k]
           l == Len(p)
           decoded == Decode(c, View(bytes, a, d))
<1>1. /\ a \in Nat /\ at[k + 1] = a + l /\ Holds(bytes, a, p) /\ IsSeq(bytes)
      /\ l \in Nat /\ a + l <= d
  BY PieceAt
<1>2. /\ decoded.status = "Complete" /\ decoded.reply = said
      /\ decoded.consumed = l
      /\ decoded.foreign <=> ForeignTo(c, sender)
  <2> HIDE DEF a
  <2> QED BY <1>1, WholeAt
<1>3. l = at[k + 1] - at[k]
  BY <1>1
<1> HIDE DEF l
<1> QED BY <1>2, <1>3

LEMMA PartPiece ==
  ASSUME NEW c \in Configs, NEW bytes, NEW n, NEW at, NEW piece, NEW reply,
         Layout(c, bytes, n, at, piece, reply), NEW k \in 1..n, NEW sender, NEW said,
         Framed(c, piece[k], sender, said), NEW d \in 1..Len(bytes), at[k] < d, d < at[k + 1]
  PROVE  LET decoded == Decode(c, View(bytes, at[k], d))
         IN decoded.status = "Incomplete" /\ ~decoded.foreign
<1> DEFINE a == at[k]
           p == piece[k]
<1>1. /\ a \in Nat /\ at[k + 1] = a + Len(p) /\ Holds(bytes, a, p) /\ IsSeq(bytes)
      /\ a < d /\ d < a + Len(p)
  BY PieceAt
<1> HIDE DEF a
<1>2. LET decoded == Decode(c, View(bytes, a, d))
      IN decoded.status = "Incomplete" /\ ~decoded.foreign
  BY <1>1, PartAt
<1> QED BY <1>2 DEF a

\* A start byte on its own.
LEMMA StrayPiece ==
  ASSUME NEW c \in Configs, NEW bytes, NEW n, NEW at, NEW piece, NEW reply,
         Layout(c, bytes, n, at, piece, reply), NEW k \in 1..n, k < n,
         Stray(c, piece[k]), ~Noise(c, piece[k + 1]), NEW d \in 1..Len(bytes), at[k] < d
  PROVE  LET decoded == Decode(c, View(bytes, at[k], d))
         IN /\ ~decoded.foreign /\ decoded.status # "Complete"
            /\ d = at[k] + 1 => decoded.status = "Incomplete"
            /\ decoded.status = "Incomplete"
                 => d = at[k] + 1 \/ (~IsAscii(c) /\ d - at[k] < 4)
            /\ at[k + 1] = at[k] + 1 /\ IsStart(c, bytes[at[k] + 1])
            /\ d >= at[k] + 2 => IsStart(c, bytes[at[k] + 2])
<1> DEFINE a == at[k]
           w == View(bytes, a, d)
<1>1. /\ a \in Nat /\ IsSeq(bytes) /\ Len(bytes) \in Nat /\ at[k + 1] = a + Len(piece[k])
      /\ n \in Nat
  BY PieceAt
<1>2. k + 1 \in 1..n
  BY <1>1
<1>3. at[k + 1] = a + 1 /\ IsStart(c, bytes[a + 1])
  <2>1. bytes[a + 1] = piece[k][1]
    BY FirstBytes
  <2>2. Len(piece[k]) = 1 /\ IsStart(c, piece[k][1])
    BY DEF Stray
  <2> QED BY <1>1, <2>1, <2>2
<1>4. IsStart(c, bytes[a + 2])
  <2>1. bytes[at[k + 1] + 1] = piece[k + 1][1] /\ IsStart(c, piece[k + 1][1])
    BY <1>2, FirstBytes
  <2>2. at[k + 1] + 1 = a + 2
    BY <1>1, <1>3
  <2> QED BY <2>1, <2>2
<1>4a. a < d /\ a <= d /\ d \in Nat /\ d <= Len(bytes)
  BY <1>1
<1> HIDE DEF a
<1>5. IsSeq(w) /\ Len(w) = d - a /\ \A i \in 1..(d - a) : w[i] = bytes[a + i]
  BY <1>1, <1>4a, ViewIs
<1> HIDE DEF w
<1>6. Len(w) >= 1 /\ (Len(w) >= 2 => IsStart(c, w[2]))
  <2>1. Len(w) >= 1
    BY <1>1, <1>4a, <1>5
  <2>2. ASSUME Len(w) >= 2 PROVE IsStart(c, w[2])
    <3>1. 2 \in 1..(d - a)
      BY <1>1, <1>4a, <1>5, <2>2
    <3> QED BY <1>4, <1>5, <3>1
  <2> QED BY <2>1, <2>2
<1>7. /\ ~Decode(c, w).foreign /\ Decode(c, w).status # "Complete"
      /\ Len(w) = 1 => Decode(c, w).status = "Incomplete"
      /\ Decode(c, w).status = "Incomplete"
           => Len(w) = 1 \/ (~IsAscii(c) /\ Len(w) < 4)
  BY <1>5, <1>6, DecodedStray
<1>8. /\ Len(w) = 1 <=> d = a + 1
      /\ Len(w) < 4 <=> d - a < 4
  BY <1>1, <1>4a, <1>5
<1> QED BY <1>3, <1>4, <1>7, <1>8 DEF a, w

\* A start byte inside a piece: only binary frames have those.
LEMMA InsidePiece ==
  ASSUME NEW c \in Configs, NEW bytes, NEW n, NEW at, NEW piece, NEW reply,
         Layout(c, bytes, n, at, piece, reply), NEW p \in 1..Len(bytes),
         IsStart(c, bytes[p]), \A k \in 1..n : p # at[k] + 1
  PROVE  /\ ~IsAscii(c)
         /\ \E k \in 1..n : /\ at[k] + 1 < p /\ p <= at[k + 1]
                            /\ ~Noise(c, piece[k]) /\ ~Stray(c, piece[k])
         /\ \A d \in p..Len(bytes) : LET decoded == Decode(c, View(bytes, p - 1, d))
                                     IN ~decoded.foreign /\ decoded.status # "Complete"
<1>1. PICK k \in 1..n : at[k] < p /\ p <= at[k + 1]
  BY Located
<1> DEFINE a == at[k]
           f == piece[k]
           l == Len(f)
           i == p - a
<1>2. /\ a \in Nat /\ at[k + 1] = a + l /\ Holds(bytes, a, f)
      /\ IsSeq(f) /\ l \in Nat /\ l >= 1 /\ n \in Nat /\ at[n + 1] = Len(bytes)
      /\ IsSeq(bytes) /\ Len(bytes) \in Nat
  BY PieceAt
<1>3. p # a + 1 /\ a < p /\ p <= at[k + 1]
  BY <1>1
<1>4. i \in 2..l /\ a + i = p /\ l # 1
  <2> HIDE DEF a, l
  <2> QED BY <1>2, <1>3
<1>5. bytes[p] = f[i] /\ IsStart(c, f[i])
  <2>1. i \in 1..l
    BY <1>4
  <2> HIDE DEF i
  <2>2. bytes[a + i] = f[i]
    BY <1>2, <2>1 DEF Holds
  <2> QED BY <1>4, <2>2
<1>6. ~Noise(c, f) /\ ~Stray(c, f) /\ Shaped(c, f)
  <2>1. ~Noise(c, f) /\ ~Stray(c, f)
    BY <1>4 DEF Noise, Stray
  <2>2. Noise(c, f) \/ Stray(c, f) \/ Shaped(c, f)
    BY PieceKinds, FramedShape DEF FramedForOthers
  <2> QED BY <2>1, <2>2
<1>7. ~IsAscii(c)
  <2>1. ASSUME IsAscii(c) PROVE FALSE
    <3>1. Interior(c, f)
      BY <1>6, <2>1 DEF Shaped, AsciiShaped
    <3> QED BY <1>4, <1>5, <3>1 DEF Interior
  <2> QED BY <2>1
<1>8. /\ f[1] = DLE /\ f[2] = STX /\ l >= 4
      /\ \A j \in 3..l : f[j] # STX
  BY <1>6, <1>7 DEF Shaped, BinaryShaped
<1>9. f[i] = DLE
  BY <1>5, <1>7, StartsAre
<1>10. i \in 3..l
  <2>1. i # 2
    BY <1>8, <1>9, Starts
  <2> HIDE DEF i, l
  <2> QED BY <1>2, <1>4, <2>1
<1>11. ASSUME p + 1 <= Len(bytes) PROVE bytes[p + 1] # STX
  <2>1. CASE i < l
    <3>1. i + 1 \in 3..l /\ i + 1 \in 1..l /\ a + (i + 1) = p + 1
      <4>1. a + i = p /\ i \in 3..l /\ i < l /\ l \in Nat /\ a \in Nat
        BY <1>2, <1>4, <1>10, <2>1
      <4> HIDE DEF i, a, l
      <4> QED BY <4>1
    <3>2. bytes[a + (i + 1)] = f[i + 1]
      BY <1>2, <3>1 DEF Holds
    <3> QED BY <1>8, <3>1, <3>2
  <2>2. CASE ~(i < l)
    <3>1. p = at[k + 1]
      <4> HIDE DEF l, a
      <4> QED BY <1>2, <1>3, <1>10, <2>2
    <3>2. k # n
      BY <1>2, <1>11, <3>1
    <3>3. k + 1 \in 1..n
      BY <1>2, <3>2
    <3>4. bytes[at[k + 1] + 1] = piece[k + 1][1] /\ piece[k + 1][1] # STX
      BY <1>7, <3>3, FirstBytes
    <3> QED BY <3>1, <3>4
  <2> QED BY <2>1, <2>2
<1>12. ASSUME NEW d \in p..Len(bytes)
       PROVE  LET decoded == Decode(c, View(bytes, p - 1, d))
              IN ~decoded.foreign /\ decoded.status # "Complete"
  <2> DEFINE b == p - 1
             w == View(bytes, b, d)
  <2>1. b \in Nat /\ d \in Nat /\ b <= d /\ d <= Len(bytes) /\ b + 2 = p + 1
    BY <1>2
  <2> HIDE DEF b
  <2>2. IsSeq(w) /\ Len(w) = d - b /\ \A j \in 1..(d - b) : w[j] = bytes[b + j]
    BY <1>2, <2>1, ViewIs
  <2> HIDE DEF w
  <2>3. ASSUME Len(w) >= 2 PROVE w[2] # STX
    <3>1. 2 \in 1..(d - b) /\ p + 1 <= Len(bytes)
      BY <1>2, <2>1, <2>2, <2>3
    <3>2. w[2] = bytes[b + 2]
      BY <2>2, <3>1
    <3> QED BY <1>11, <2>1, <3>1, <3>2
  <2>4. ~Decode(c, w).foreign /\ Decode(c, w).status # "Complete"
    BY <1>7, <2>2, <2>3, DecodedInside
  <2> QED BY <2>4 DEF w, b
<1>13. \E j \in 1..n : /\ at[j] + 1 < p /\ p <= at[j + 1]
                        /\ ~Noise(c, piece[j]) /\ ~Stray(c, piece[j])
  <2>1. a + 1 < p
    <3> HIDE DEF a
    <3> QED BY <1>2, <1>3
  <2> QED BY <1>1, <1>6, <2>1
<1> QED BY <1>7, <1>12, <1>13

Decisive(result) == result.foreign \/ result.status = "Complete"

\* What the client makes of the bytes from a piece on.
LEMMA PieceVerdict ==
  ASSUME NEW c \in Configs, NEW bytes, NEW n, NEW at, NEW piece, NEW reply,
         Layout(c, bytes, n, at, piece, reply), NEW k \in 1..n, ~Noise(c, piece[k]),
         NEW d \in 1..Len(bytes), at[k] < d
  PROVE  LET decoded == Decode(c, View(bytes, at[k], d))
         IN \/ /\ k < n /\ Stray(c, piece[k]) /\ ~Noise(c, piece[k + 1])
               /\ ~Decisive(decoded)
            \/ /\ ~Stray(c, piece[k]) /\ at[k + 1] <= d
               /\ decoded.status = "Complete" /\ decoded.consumed = at[k + 1] - at[k]
               /\ decoded.foreign <=> k # n
               /\ k = n => decoded.reply = reply
            \/ /\ ~Stray(c, piece[k]) /\ d < at[k + 1]
               /\ decoded.status = "Incomplete" /\ ~Decisive(decoded)
<1> DEFINE decoded == Decode(c, View(bytes, at[k], d))
<1>1. n \in Nat /\ at[k] \in Nat /\ at[k + 1] \in Nat /\ Len(bytes) \in Nat
  <2>1. at[k] \in Nat /\ at[k + 1] = at[k] + Len(piece[k]) /\ Len(piece[k]) \in Nat
        /\ n \in Nat /\ Len(bytes) \in Nat
    BY PieceAt
  <2> QED BY <2>1
<1>2. \/ k < n /\ Stray(c, piece[k]) /\ ~Noise(c, piece[k + 1])
      \/ k < n /\ FramedForOthers(c, piece[k])
      \/ k = n /\ Framed(c, piece[k], Ours, reply)
  BY PieceKinds
<1>3. CASE k < n /\ Stray(c, piece[k]) /\ ~Noise(c, piece[k + 1])
  <2>1. ~decoded.foreign /\ decoded.status # "Complete"
    BY <1>3, StrayPiece
  <2> QED BY <1>3, <2>1 DEF Decisive
<1>4. ASSUME NEW sender, NEW said, Framed(c, piece[k], sender, said),
             ForeignTo(c, sender) <=> k # n, k = n => said = reply
      PROVE  \/ /\ ~Stray(c, piece[k]) /\ at[k + 1] <= d
                /\ decoded.status = "Complete" /\ decoded.consumed = at[k + 1] - at[k]
                /\ decoded.foreign <=> k # n
                /\ k = n => decoded.reply = reply
             \/ /\ ~Stray(c, piece[k]) /\ d < at[k + 1]
                /\ decoded.status = "Incomplete" /\ ~Decisive(decoded)
  <2>1. ~Stray(c, piece[k])
    <3>1. Len(piece[k]) \in Nat /\ Len(piece[k]) >= 2
      BY <1>4, FramedShape, ShapedHas
    <3>2. Len(piece[k]) # 1
      <4> DEFINE l == Len(piece[k])
      <4> HIDE DEF l
      <4>1. l \in Nat /\ l >= 2
        BY <3>1 DEF l
      <4>2. l # 1
        BY <4>1
      <4> QED BY <4>2 DEF l
    <3> QED BY <3>2 DEF Stray
  <2>2. CASE at[k + 1] <= d
    <3>1. /\ decoded.status = "Complete" /\ decoded.reply = said
          /\ decoded.consumed = at[k + 1] - at[k]
          /\ decoded.foreign <=> ForeignTo(c, sender)
      BY <1>4, <2>2, WholePiece
    <3> HIDE DEF decoded
    <3> QED BY <1>4, <2>1, <2>2, <3>1
  <2>3. CASE ~(at[k + 1] <= d)
    <3>1. d < at[k + 1]
      BY <1>1, <2>3
    <3>2. decoded.status = "Incomplete" /\ ~decoded.foreign
      BY <1>4, <3>1, PartPiece
    <3> HIDE DEF decoded
    <3>3. ~Decisive(decoded)
      BY <3>2 DEF Decisive
    <3> QED BY <2>1, <3>1, <3>2, <3>3
  <2> QED BY <2>2, <2>3
<1> SUFFICES \/ /\ k < n /\ Stray(c, piece[k]) /\ ~Noise(c, piece[k + 1])
                /\ ~Decisive(decoded)
             \/ /\ ~Stray(c, piece[k]) /\ at[k + 1] <= d
                /\ decoded.status = "Complete" /\ decoded.consumed = at[k + 1] - at[k]
                /\ decoded.foreign <=> k # n
                /\ k = n => decoded.reply = reply
             \/ /\ ~Stray(c, piece[k]) /\ d < at[k + 1]
                /\ decoded.status = "Incomplete" /\ ~Decisive(decoded)
  OBVIOUS
<1> HIDE DEF decoded
<1>5. CASE k < n /\ FramedForOthers(c, piece[k])
  <2>1. PICK sender, other : ForeignTo(c, sender) /\ Framed(c, piece[k], sender, other)
    BY <1>5 DEF FramedForOthers
  <2>2. k # n
    BY <1>1, <1>5
  <2>3. (ForeignTo(c, sender) <=> k # n) /\ (k = n => other = reply)
    BY <2>1, <2>2
  <2> QED BY <1>4, <2>1, <2>3
<1>6. CASE k = n /\ Framed(c, piece[k], Ours, reply)
  <2>1. ~ForeignTo(c, Ours)
    BY WhoseFrames
  <2>2. (ForeignTo(c, Ours) <=> k # n) /\ (k = n => reply = reply)
    BY <1>6, <2>1
  <2> QED BY <1>4, <1>6, <2>2
<1> QED BY <1>2, <1>3, <1>5, <1>6 DEF decoded

LEMMA CandidatesAre ==
  ASSUME NEW c \in Configs, NEW w, IsSeq(w)
  PROVE  LET starts == {o \in 1..Len(w) : IsStart(c, w[o])}
         IN /\ DOMAIN w = 1..Len(w)
            /\ \/ /\ Candidates(c, w) = {1} /\ 1 \in starts /\ ~IsAscii(c)
                  /\ Decode(c, w).status = "Incomplete"
               \/ /\ Candidates(c, w) = starts
                  /\ 1 \in starts /\ ~IsAscii(c) => Decode(c, w).status # "Incomplete"
<1>1. DOMAIN w = 1..Len(w)
  BY DEF IsSeq
<1> QED BY <1>1 DEF Candidates

\* What decode_stream_buffer may make of a buffer that begins with a piece.
Judgements(bytes, n, at, k, d, reply, scan) ==
  \/ scan.discard_prefix = 0 /\ scan.status = "Incomplete" /\ d < Len(bytes)
  \/ /\ scan.discard_prefix = 0 /\ scan.status = "Complete"
     /\ scan.reply = reply /\ d = Len(bytes)
  \/ \E j \in (k + 1)..n : at[j] <= d /\ scan.discard_prefix = at[j] - at[k]

\* The candidates are the first bytes of pieces, or inside a binary frame.
LEMMA CandidateKinds ==
  ASSUME NEW c \in Configs, NEW bytes, NEW n, NEW at, NEW piece, NEW reply,
         Layout(c, bytes, n, at, piece, reply), NEW k \in 1..n,
         NEW d \in 1..Len(bytes), at[k] < d,
         NEW o \in 1..(d - at[k]), IsStart(c, bytes[at[k] + o])
  PROVE  \/ \E j \in k..n : /\ at[j] = at[k] + o - 1 /\ at[j] < d
                            /\ ~Noise(c, piece[j])
                            /\ From(View(bytes, at[k], d), o) = View(bytes, at[j], d)
         \/ /\ ~IsAscii(c) /\ o # 1
            /\ ~Decisive(Decode(c, From(View(bytes, at[k], d), o)))
            /\ \E j \in k..n : /\ at[j] + 1 < at[k] + o
                               /\ ~Noise(c, piece[j]) /\ ~Stray(c, piece[j])
<1> DEFINE a == at[k]
           p == a + o
<1>1. /\ n \in Nat /\ at[n + 1] = Len(bytes) /\ IsSeq(bytes) /\ Len(bytes) \in Nat
      /\ a \in Nat
  BY PieceAt
<1>2. /\ \A j \in 1..(n + 1) : at[j] \in 0..Len(bytes)
      /\ \A j \in 1..n : at[j] < at[j + 1]
      /\ \A i, j \in 1..(n + 1) : i < j => at[i] < at[j]
  BY Order
<1>3. a < d /\ d \in Nat /\ d <= Len(bytes) /\ o \in 1..(d - a) /\ IsStart(c, bytes[p])
  BY <1>1
<1>4. From(View(bytes, a, d), o) = View(bytes, a + o - 1, d)
  <2>1. o \in 1..(d - a + 1) /\ a <= d
    BY <1>1, <1>3
  <2> HIDE DEF a
  <2> QED BY <1>1, <1>3, <2>1, ViewFrom
<1>5. k \in 1..n
  OBVIOUS
<1> HIDE DEF a
<1>6. p \in 1..Len(bytes) /\ p <= d /\ a < p /\ p \in Nat
  BY <1>1, <1>3
<1>7. CASE \E j \in 1..n : p = at[j] + 1
  <2>1. PICK j \in 1..n : p = at[j] + 1
    BY <1>7
  <2>2. at[j] \in Nat /\ j \in 1..(n + 1) /\ k \in 1..(n + 1)
    BY <1>1, <1>2, <2>1
  <2>3. at[j] = a + o - 1 /\ at[j] < d /\ at[j] >= a
    BY <1>1, <1>3, <1>6, <2>1, <2>2
  <2>4. ~(j < k)
    <3>1. j < k => at[j] < a
      BY <1>2, <2>2 DEF a
    <3> QED BY <1>1, <2>2, <2>3, <3>1
  <2>5. j \in k..n
    BY <1>1, <1>5, <2>1, <2>4
  <2>6. ~Noise(c, piece[j])
    <3>1. bytes[at[j] + 1] = piece[j][1]
          /\ (IsStart(c, piece[j][1]) <=> ~Noise(c, piece[j]))
      BY FirstBytes
    <3>2. bytes[at[j] + 1] = bytes[p]
      BY <2>1
    <3> QED BY <1>3, <3>1, <3>2
  <2>7. From(View(bytes, a, d), o) = View(bytes, at[j], d)
    BY <1>4, <2>3
  <2> QED BY <2>3, <2>5, <2>6, <2>7 DEF a
<1>8. CASE ~ \E j \in 1..n : p = at[j] + 1
  <2>1. \A j \in 1..n : p # at[j] + 1
    BY <1>8
  <2>2. /\ ~IsAscii(c)
        /\ \E j \in 1..n : /\ at[j] + 1 < p /\ p <= at[j + 1]
                           /\ ~Noise(c, piece[j]) /\ ~Stray(c, piece[j])
        /\ \A e \in p..Len(bytes) : LET decoded == Decode(c, View(bytes, p - 1, e))
                                    IN ~decoded.foreign /\ decoded.status # "Complete"
    BY <1>3, <1>6, <2>1, InsidePiece
  <2>3. PICK j \in 1..n : /\ at[j] + 1 < p /\ p <= at[j + 1]
                          /\ ~Noise(c, piece[j]) /\ ~Stray(c, piece[j])
    BY <2>2
  <2>4. d \in p..Len(bytes)
    BY <1>1, <1>3, <1>6
  <2>5. ~Decisive(Decode(c, View(bytes, p - 1, d)))
    BY <2>2, <2>4 DEF Decisive
  <2>6. p - 1 = a + o - 1
    BY <1>1, <1>3
  <2>7. o # 1
    <3>1. p # a + 1
      BY <1>5, <2>1 DEF a
    <3> QED BY <1>1, <1>3, <3>1
  <2>8. j \in k..n
    <3>1. j + 1 \in 1..(n + 1) /\ k \in 1..(n + 1) /\ at[j + 1] \in Nat
      BY <1>1, <1>2, <1>5, <2>3
    <3>2. at[j + 1] > a
      BY <1>1, <1>6, <2>3, <3>1
    <3>3. ~(j + 1 <= k)
      <4>1. j + 1 < k => at[j + 1] < a
        BY <1>2, <3>1 DEF a
      <4>2. j + 1 = k => at[j + 1] = a
        BY DEF a
      <4> QED BY <1>1, <3>1, <3>2, <4>1, <4>2
    <3> QED BY <1>1, <1>5, <2>3, <3>3
  <2>9. ~Decisive(Decode(c, From(View(bytes, a, d), o)))
    BY <1>4, <2>5, <2>6
  <2> QED BY <2>2, <2>3, <2>7, <2>8, <2>9 DEF a
<1> QED BY <1>7, <1>8

\* One round of the loop of on_rx_bytes over an undamaged line.
LEMMA Round ==
  ASSUME NEW c \in Configs, NEW bytes, NEW n, NEW at, NEW piece, NEW reply,
         Layout(c, bytes, n, at, piece, reply), NEW k \in 1..n,
         NEW d \in 1..Len(bytes), at[k] < d
  PROVE  Judgements(bytes, n, at, k, d, reply, DecodeStreamBuffer(c, View(bytes, at[k], d)))
<1> DEFINE a == at[k]
           w == View(bytes, a, d)
           starts == {o \in 1..Len(w) : IsStart(c, w[o])}
           cands == Candidates(c, w)
           results == [o \in cands |-> Decode(c, From(w, o))]
           decisive == {o \in DOMAIN results :
                          results[o].foreign \/ results[o].status = "Complete"}
           scan == Selected(w, results, decisive)
<1>1. /\ n \in Nat /\ at[n + 1] = Len(bytes) /\ IsSeq(bytes) /\ Len(bytes) \in Nat
      /\ a \in Nat
  BY PieceAt
<1>2. /\ \A j \in 1..(n + 1) : at[j] \in 0..Len(bytes)
      /\ \A j \in 1..n : at[j] < at[j + 1]
      /\ \A i, j \in 1..(n + 1) : i < j => at[i] < at[j]
  BY Order
<1>3. a < d /\ a <= d /\ d \in Nat /\ d <= Len(bytes) /\ d - a \in Nat
  BY <1>1
<1>4. DecodeStreamBuffer(c, w) = scan
  BY DEF DecodeStreamBuffer, Judged
<1>5. IsSeq(w) /\ Len(w) = d - a /\ \A i \in 1..(d - a) : w[i] = bytes[a + i]
  <2>1. IsSeq(bytes) /\ a \in Nat /\ d \in Nat /\ a <= d /\ d <= Len(bytes)
    BY <1>1, <1>3
  <2> HIDE DEF a, w, starts, cands, results, decisive, scan
  <2>2. /\ IsSeq(View(bytes, a, d)) /\ Len(View(bytes, a, d)) = d - a
        /\ \A i \in 1..(d - a) : View(bytes, a, d)[i] = bytes[a + i]
    BY <2>1, ViewIs
  <2>3. w = View(bytes, a, d)
    BY DEF w
  <2> QED BY <2>2, <2>3
<1>6. /\ \/ cands = {1} /\ 1 \in starts /\ ~IsAscii(c) /\ Decode(c, w).status = "Incomplete"
         \/ /\ cands = starts
            /\ 1 \in starts /\ ~IsAscii(c) => Decode(c, w).status # "Incomplete"
  <2> HIDE DEF w
  <2> QED BY <1>5, CandidatesAre
<1>7. cands \subseteq starts
  BY <1>6
<1>8. \A o \in starts : o \in 1..(d - a) /\ IsStart(c, bytes[a + o])
  <2> HIDE DEF w
  <2> QED BY <1>5
<1>9. \A o \in cands : results[o] = Decode(c, From(w, o))
  OBVIOUS
<1>10. DOMAIN results = cands
  OBVIOUS
<1>11. decisive = {o \in cands : Decisive(results[o])}
  BY DEF Decisive
<1> SUFFICES Judgements(bytes, n, at, k, d, reply, scan)
  BY <1>4
<1> HIDE DEF a, w, starts, cands, results, decisive
\* The candidates that decide are whole frames.
<1>12. ASSUME NEW o \in starts
       PROVE  \/ \E j \in k..n : /\ at[j] = a + o - 1 /\ at[j] < d
                                 /\ ~Noise(c, piece[j])
                                 /\ From(w, o) = View(bytes, at[j], d)
              \/ /\ ~IsAscii(c) /\ o # 1
                 /\ ~Decisive(Decode(c, From(w, o)))
                 /\ \E j \in k..n : /\ at[j] + 1 < a + o
                                    /\ ~Noise(c, piece[j]) /\ ~Stray(c, piece[j])
  BY <1>8, CandidateKinds DEF a, w
<1>13. ASSUME NEW o \in decisive
       PROVE  \E j \in k..n : /\ at[j] = a + o - 1 /\ at[j + 1] <= d
                              /\ results[o].status = "Complete"
                              /\ results[o].consumed = at[j + 1] - at[j]
                              /\ results[o].foreign <=> j # n
                              /\ j = n => results[o].reply = reply
  <2>1. o \in cands /\ o \in starts /\ results[o] = Decode(c, From(w, o))
        /\ Decisive(Decode(c, From(w, o)))
    BY <1>7, <1>9, <1>11, <1>13
  <2>2. PICK j \in k..n : /\ at[j] = a + o - 1 /\ at[j] < d
                          /\ ~Noise(c, piece[j])
                          /\ From(w, o) = View(bytes, at[j], d)
    BY <1>12, <2>1
  <2>3. j \in 1..n
    BY <1>1
  <2> DEFINE decoded == Decode(c, View(bytes, at[j], d))
  <2>4. results[o] = decoded /\ Decisive(decoded)
    BY <2>1, <2>2
  <2>5. \/ ~Decisive(decoded)
        \/ /\ at[j + 1] <= d
           /\ decoded.status = "Complete" /\ decoded.consumed = at[j + 1] - at[j]
           /\ decoded.foreign <=> j # n
           /\ j = n => decoded.reply = reply
    BY <2>2, <2>3, PieceVerdict
  <2> HIDE DEF decoded
  <2>6. /\ at[j + 1] <= d
        /\ decoded.status = "Complete" /\ decoded.consumed = at[j + 1] - at[j]
        /\ decoded.foreign <=> j # n
        /\ j = n => decoded.reply = reply
    BY <2>4, <2>5
  <2> QED BY <2>2, <2>4, <2>6
\* The front, when it begins a piece.
<1>14. ASSUME 1 \in starts
       PROVE  /\ From(w, 1) = w /\ ~Noise(c, piece[k])
              /\ \/ /\ k < n /\ Stray(c, piece[k]) /\ ~Noise(c, piece[k + 1])
                    /\ ~Decisive(Decode(c, w))
                 \/ /\ ~Stray(c, piece[k]) /\ at[k + 1] <= d /\ Decisive(Decode(c, w))
                 \/ /\ ~Stray(c, piece[k]) /\ d < at[k + 1]
                    /\ Decode(c, w).status = "Incomplete" /\ ~Decisive(Decode(c, w))
  <2>1. PICK j \in k..n : /\ at[j] = a + 1 - 1 /\ at[j] < d
                          /\ ~Noise(c, piece[j])
                          /\ From(w, 1) = View(bytes, at[j], d)
    BY <1>12, <1>14
  <2>2. j = k
    <3>1. j \in 1..(n + 1) /\ k \in 1..(n + 1) /\ at[j] = a
      BY <1>1, <2>1
    <3>2. ~(k < j)
      <4>1. k < j => a < at[j]
        BY <1>2, <3>1 DEF a
      <4> QED BY <1>1, <3>1, <4>1
    <3> QED BY <1>1, <2>1, <3>2
  <2>3. From(w, 1) = w /\ ~Noise(c, piece[k])
    BY <2>1, <2>2 DEF w, a
  <2> DEFINE decoded == Decode(c, View(bytes, at[k], d))
  <2>4. \/ /\ k < n /\ Stray(c, piece[k]) /\ ~Noise(c, piece[k + 1])
           /\ ~Decisive(decoded)
        \/ /\ ~Stray(c, piece[k]) /\ at[k + 1] <= d
           /\ decoded.status = "Complete" /\ decoded.consumed = at[k + 1] - at[k]
           /\ decoded.foreign <=> k # n
           /\ k = n => decoded.reply = reply
        \/ /\ ~Stray(c, piece[k]) /\ d < at[k + 1]
           /\ decoded.status = "Incomplete" /\ ~Decisive(decoded)
    BY <2>3, PieceVerdict
  <2>5. decoded = Decode(c, w)
    BY DEF w, a
  <2> HIDE DEF decoded
  <2>6. decoded.status = "Complete" => Decisive(decoded)
    BY DEF Decisive
  <2> QED BY <2>3, <2>4, <2>5, <2>6
<1>15. /\ cands \subseteq 1..Len(w) /\ decisive \subseteq cands /\ cands \subseteq Nat
       /\ k + 1 \in 1..(n + 1) /\ at[k + 1] \in Nat
  <2>1. starts \subseteq 1..Len(w)
    BY DEF starts
  <2>2. k + 1 \in 1..(n + 1)
    BY <1>1
  <2> QED BY <1>1, <1>2, <1>5, <1>7, <1>11, <2>1, <2>2
\* A candidate decides.
<1>16. CASE decisive # {}
  <2> DEFINE o == Min(decisive)
  <2>1. o \in decisive
    BY <1>15, <1>16, LeastOf
  <2>2. scan = Decided(o, results[o])
    BY <1>16 DEF Selected, scan
  <2> HIDE DEF o
  <2>3. PICK j \in k..n : /\ at[j] = a + o - 1 /\ at[j + 1] <= d
                          /\ results[o].status = "Complete"
                          /\ results[o].consumed = at[j + 1] - at[j]
                          /\ results[o].foreign <=> j # n
                          /\ j = n => results[o].reply = reply
    BY <1>13, <2>1
  <2>4. /\ j \in 1..n /\ j + 1 \in 1..(n + 1) /\ at[j] \in Nat /\ at[j + 1] \in Nat
        /\ o \in 1..Len(w) /\ k <= j
    BY <1>1, <1>2, <1>15, <2>1, <2>3
  <2>5. CASE j # n
    <3>1. scan = Discard(o - 1 + results[o].consumed)
      BY <2>2, <2>3, <2>5 DEF Decided
    <3>2. o - 1 + results[o].consumed = at[j + 1] - a
      <4> DEFINE x == at[j]
                 y == at[j + 1]
                 z == results[o].consumed
      <4>1. x = a + o - 1 /\ z = y - x /\ x \in Nat /\ y \in Nat /\ o \in Nat
        BY <1>5, <1>3, <2>3, <2>4
      <4> HIDE DEF x, y, z
      <4>2. o - 1 + z = y - a
        BY <1>1, <4>1
      <4> QED BY <4>2 DEF y, z
    <3>3. scan.discard_prefix = at[j + 1] - a
      BY <3>1, <3>2, KeepDiscard
    <3>4. j + 1 \in (k + 1)..n
      BY <1>1, <2>4, <2>5
    <3> QED BY <2>3, <3>3, <3>4 DEF Judgements, a
  <2>6. CASE j = n /\ o # 1
    <3>1. scan = Discard(o - 1)
      BY <2>2, <2>3, <2>6 DEF Decided
    <3>2. scan.discard_prefix = o - 1
      BY <3>1, KeepDiscard
    <3>3. o - 1 = at[j] - a /\ at[j] <= d /\ at[j] # a
      <4> DEFINE x == at[j]
                 y == at[j + 1]
      <4>1. x = a + o - 1 /\ x \in Nat /\ y \in Nat /\ x < y /\ y <= d /\ o \in Nat /\ o # 1
        BY <1>2, <1>3, <1>5, <2>3, <2>4, <2>6
      <4> HIDE DEF x, y
      <4>2. o - 1 = x - a /\ x <= d /\ x # a
        BY <1>1, <1>3, <4>1
      <4> QED BY <4>2 DEF x
    <3>4. j \in (k + 1)..n
      <4>1. j # k
        BY <3>3 DEF a
      <4> QED BY <1>1, <2>4, <4>1
    <3> QED BY <3>2, <3>3, <3>4 DEF Judgements, a
  <2>7. CASE j = n /\ o = 1
    <3>1. scan = Keep("Complete", reply)
      BY <2>2, <2>3, <2>7 DEF Decided
    <3>2. d = Len(bytes)
      <4>1. Len(bytes) <= d
        BY <1>1, <2>3, <2>7
      <4> QED BY <1>1, <1>3, <4>1
    <3> QED BY <3>1, <3>2, KeepDiscard DEF Judgements
  <2> QED BY <2>5, <2>6, <2>7
\* None does: the front waits for the rest, or for what follows a stray byte.
<1>17. CASE decisive = {}
  <2>1. scan = Undecided(w, cands, results)
    BY <1>10, <1>17 DEF Selected, scan
  <2>2. \A o \in cands : ~Decisive(results[o])
    BY <1>11, <1>17
  <2>3. CASE cands = {}
    <3>1. scan.discard_prefix = d - a
      <4>1. scan = Discard(Len(w))
        BY <2>1, <2>3 DEF Undecided
      <4> QED BY <1>5, <4>1, KeepDiscard
    <3>2. starts = {}
      BY <1>6, <2>3
    <3>3. PICK j \in 1..n : at[j] < d /\ d <= at[j + 1]
      BY Located
    <3>4. j \in k..n /\ at[j] \in Nat /\ at[j] >= a /\ j + 1 \in 1..(n + 1)
          /\ at[j + 1] \in Nat
      <4>1. j \in 1..(n + 1) /\ j + 1 \in 1..(n + 1) /\ k \in 1..(n + 1)
        BY <1>1
      <4>2. at[j] \in Nat /\ at[j + 1] \in Nat
        BY <1>2, <4>1
      <4>3. ~(j + 1 <= k)
        <5>1. j + 1 < k => at[j + 1] < a
          BY <1>2, <4>1 DEF a
        <5>2. j + 1 = k => at[j + 1] = a
          BY DEF a
        <5> QED BY <1>1, <1>3, <3>3, <4>1, <4>2, <5>1, <5>2
      <4>4. j \in k..n
        BY <1>1, <4>3
      <4>5. at[j] >= a
        <5>1. k < j => a < at[j]
          BY <1>2, <4>1 DEF a
        <5>2. k = j => a = at[j]
          BY DEF a
        <5> QED BY <1>1, <4>2, <4>4, <5>1, <5>2
      <4> QED BY <4>1, <4>2, <4>4, <4>5
    <3> DEFINE x == at[j]
               o == x + 1 - a
    <3>5. o \in 1..Len(w) /\ a + o = x + 1
      <4>1. x \in Nat /\ x >= a /\ x < d
        BY <3>3, <3>4
      <4> HIDE DEF x
      <4> QED BY <1>1, <1>3, <1>5, <4>1
    <3>6. ~IsStart(c, bytes[x + 1])
      <4>1. o \notin starts
        BY <3>2
      <4>2. w[o] = bytes[a + o]
        BY <1>5, <3>5
      <4> HIDE DEF o
      <4>3. ~IsStart(c, w[o])
        BY <3>5, <4>1 DEF starts
      <4> QED BY <3>5, <4>2, <4>3
    <3>7. bytes[x + 1] = piece[j][1] /\ (IsStart(c, piece[j][1]) <=> ~Noise(c, piece[j]))
      BY FirstBytes
    <3>8. Noise(c, piece[j])
      BY <3>6, <3>7
    <3>9. at[j + 1] = d /\ j # n
      <4>1. Len(piece[j]) = 1
        BY <3>8 DEF Noise
      <4>2. at[j + 1] = at[j] + Len(piece[j])
        BY PieceAt
      <4>3. at[j + 1] = at[j] + 1
        BY <4>1, <4>2
      <4>4. at[j + 1] = d
        BY <1>3, <3>3, <3>4, <4>3
      <4>5. j # n
        <5>1. ASSUME j = n PROVE FALSE
          <6>1. Framed(c, piece[j], Ours, reply)
            BY <5>1 DEF Layout, Laid
          <6>2. Len(piece[j]) >= 2
            BY <6>1, FramedShape, ShapedHas
          <6> QED BY <4>1, <6>2
        <5> QED BY <5>1
      <4> QED BY <4>4, <4>5
    <3>10. j + 1 \in (k + 1)..n /\ at[j + 1] <= d
           /\ scan.discard_prefix = at[j + 1] - a
      BY <1>1, <1>3, <3>1, <3>4, <3>9
    <3> QED BY <3>10 DEF Judgements, a
  <2>4. CASE cands # {} /\ cands # {1}
    <3> DEFINE rest == cands \ {1}
               o == Min(rest)
    <3>1. o \in rest /\ \A x \in rest : o <= x
      BY <1>15, <2>4, LeastOf
    <3>2. scan = Discard(o - 1)
      BY <2>1, <2>4 DEF Undecided
    <3>3. o \in cands /\ o # 1 /\ \A x \in cands : x # 1 => o <= x
      BY <3>1
    <3> HIDE DEF o, rest
    <3>4. scan.discard_prefix = o - 1
      BY <3>2, KeepDiscard
    <3>5. o \in starts /\ o \in 1..(d - a) /\ cands = starts
      BY <1>5, <1>6, <1>15, <2>4, <3>3
    <3>6. CASE \E j \in k..n : at[j] = a + o - 1 /\ at[j] < d
      <4>1. PICK j \in k..n : at[j] = a + o - 1 /\ at[j] < d
        BY <3>6
      <4> DEFINE x == at[j]
      <4>2. x \in Nat /\ j \in 1..n
        BY <1>1, <1>2, <4>1
      <4>3. x = a + o - 1 /\ x < d
        BY <4>1
      <4> HIDE DEF x
      <4>4. o - 1 = x - a /\ x <= d /\ x # a
        BY <1>1, <1>3, <3>3, <3>5, <4>2, <4>3
      <4>5. j # k
        BY <4>4 DEF x, a
      <4>6. j \in (k + 1)..n
        BY <1>1, <4>1, <4>5
      <4>7. at[j] <= d /\ scan.discard_prefix = at[j] - a
        BY <3>4, <4>4 DEF x
      <4> QED BY <4>6, <4>7 DEF Judgements, a
    <3>7. CASE ~IsAscii(c) /\ \E j \in k..n : /\ at[j] + 1 < a + o
                                             /\ ~Noise(c, piece[j]) /\ ~Stray(c, piece[j])
      <4>1. PICK j \in k..n : /\ at[j] + 1 < a + o
                              /\ ~Noise(c, piece[j]) /\ ~Stray(c, piece[j])
        BY <3>7
      <4> DEFINE x == at[j]
                 q == x + 1 - a
      <4>2. j \in 1..n /\ x \in Nat /\ x + 1 < a + o
        BY <1>1, <1>2, <4>1
      <4>3. x >= a
        <5>1. j \in 1..(n + 1) /\ k \in 1..(n + 1)
          BY <1>1, <4>2
        <5>2. k < j => a < at[j]
          BY <1>2, <5>1 DEF a
        <5>3. k = j => a = at[j]
          BY DEF a
        <5>4. k < j \/ k = j
          BY <1>1, <4>1
        <5> QED BY <1>1, <4>2, <5>2, <5>3, <5>4
      <4>4. bytes[x + 1] = piece[j][1] /\ (IsStart(c, piece[j][1]) <=> ~Noise(c, piece[j]))
        BY <4>2, FirstBytes
      <4>5. IsStart(c, bytes[x + 1])
        BY <4>1, <4>4
      <4>6. q \in 1..Len(w) /\ a + q = x + 1 /\ q < o
        <5> HIDE DEF x
        <5> QED BY <1>1, <1>3, <1>5, <3>5, <4>2, <4>3
      <4>7. q \in starts
        <5>1. w[q] = bytes[a + q]
          BY <1>5, <4>6
        <5>2. IsStart(c, w[q])
          BY <4>5, <4>6, <5>1
        <5> HIDE DEF q
        <5> QED BY <4>6, <5>2 DEF starts
      <4>8. q = 1
        <5>1. q # 1 => o <= q
          BY <3>3, <3>5, <4>7
        <5> HIDE DEF q
        <5> QED BY <1>5, <1>3, <3>5, <4>6, <5>1
      <4>9. x = a
        <5> HIDE DEF x
        <5> QED BY <1>1, <4>2, <4>3, <4>8
      <4>10. j = k
        <5>1. j \in 1..(n + 1) /\ k \in 1..(n + 1)
          BY <1>1, <4>2
        <5>2. k < j => a < at[j]
          BY <1>2, <5>1 DEF a
        <5> QED BY <1>1, <4>1, <4>9, <5>2
      <4>11. 1 \in starts
        BY <4>7, <4>8
      <4>12. ~Stray(c, piece[k])
        BY <4>1, <4>10
      <4>13. results[1] = Decode(c, w) /\ ~Decisive(Decode(c, w))
        <5>1. 1 \in cands
          BY <3>5, <4>11
        <5> QED BY <1>9, <1>14, <2>2, <4>11, <5>1
      <4>14. Decode(c, w).status = "Incomplete"
        BY <1>14, <4>11, <4>12, <4>13
      <4>15. cands = {1}
        BY <1>6, <3>7, <4>11, <4>14
      <4> QED BY <2>4, <4>15
    <3> QED BY <1>12, <3>5, <3>6, <3>7
  <2>5. CASE cands = {1}
    <3>1. 1 \in cands /\ 1 \in starts
      BY <1>7, <2>5
    <3>2. results[1] = Decode(c, w) /\ ~Decisive(Decode(c, w))
      BY <1>9, <1>14, <2>2, <3>1
    <3>3. scan = Keep(Decode(c, w).status, Success(<<>>))
      BY <2>1, <2>5, <3>2 DEF Undecided
    <3>4. scan.discard_prefix = 0 /\ scan.status = Decode(c, w).status
      BY <3>3, KeepDiscard
    <3> SUFFICES Decode(c, w).status = "Incomplete" /\ d < Len(bytes)
      BY <3>4 DEF Judgements
    <3>5. CASE d < at[k + 1] /\ Decode(c, w).status = "Incomplete"
      <4>1. at[k + 1] <= Len(bytes)
        BY <1>2, <1>15
      <4> QED BY <1>1, <1>3, <1>15, <3>5, <4>1
    <3>6. CASE k < n /\ Stray(c, piece[k]) /\ ~Noise(c, piece[k + 1])
      <4>1. /\ d = a + 1 => Decode(c, w).status = "Incomplete"
            /\ Decode(c, w).status = "Incomplete"
                 => d = a + 1 \/ (~IsAscii(c) /\ d - a < 4)
            /\ at[k + 1] = a + 1
            /\ d >= a + 2 => IsStart(c, bytes[a + 2])
        BY <3>6, StrayPiece DEF a, w
      <4>2. CASE d = a + 1
        <5>1. k + 1 \in 1..n
          BY <1>1, <3>6
        <5>2. at[k + 1] < at[(k + 1) + 1] /\ (k + 1) + 1 \in 1..(n + 1)
          BY <1>1, <1>2, <5>1
        <5>3. at[(k + 1) + 1] <= Len(bytes) /\ at[(k + 1) + 1] \in Nat
          BY <1>2, <5>2
        <5> QED BY <1>1, <1>3, <4>1, <4>2, <5>2, <5>3
      <4>3. CASE d # a + 1
        <5>1. d >= a + 2 /\ 2 \in 1..(d - a)
          BY <1>1, <1>3, <4>3
        <5>2. 2 \in starts
          <6>1. IsStart(c, bytes[a + 2]) /\ w[2] = bytes[a + 2]
            BY <1>5, <4>1, <5>1
          <6> QED BY <1>5, <5>1, <6>1 DEF starts
        <5>3. cands # starts
          <6>1. 2 \notin cands
            BY <2>5
          <6> QED BY <5>2, <6>1
        <5>4. ~IsAscii(c) /\ Decode(c, w).status = "Incomplete"
          BY <1>6, <5>3
        <5>5. d - a < 4
          BY <4>1, <4>3, <5>4
        <5>6. Len(bytes) >= a + 5
          <6>1. Framed(c, piece[n], Ours, reply)
            BY DEF Layout, Laid
          <6>2. Len(piece[n]) >= 4 /\ Len(piece[n]) \in Nat
            BY <5>4, <6>1, FramedShape, ShapedHas
          <6>3. n \in 1..n /\ k + 1 \in 1..(n + 1) /\ n \in 1..(n + 1)
            BY <1>1, <3>6
          <6>4. at[n + 1] = at[n] + Len(piece[n]) /\ at[n] \in Nat
            BY <6>3, PieceAt
          <6>5. at[n] >= a + 1
            <7>1. k + 1 < n => at[k + 1] < at[n]
              BY <1>2, <6>3
            <7>2. k + 1 = n => at[k + 1] = at[n]
              OBVIOUS
            <7>3. k + 1 < n \/ k + 1 = n
              BY <1>1, <3>6
            <7> QED BY <1>1, <4>1, <6>4, <7>1, <7>2, <7>3
          <6> DEFINE l == Len(piece[n])
                     x == at[n]
          <6>6. Len(bytes) = x + l /\ l >= 4 /\ l \in Nat /\ x \in Nat /\ x >= a + 1
            BY <1>1, <6>2, <6>4, <6>5
          <6> HIDE DEF l, x
          <6> QED BY <1>1, <6>6
        <5> QED BY <1>1, <1>3, <5>4, <5>5, <5>6
      <4> QED BY <4>2, <4>3
    <3> QED BY <1>14, <3>1, <3>2, <3>5, <3>6
  <2> QED BY <2>3, <2>4, <2>5
<1> QED BY <1>16, <1>17

(* The line, piece by piece, and where the client is in it.                *)

LEMMA OneMore ==
  ASSUME NEW bytes, IsSeq(bytes), NEW n \in Nat, NEW at, NEW piece, Laid(bytes, n, at, piece),
         NEW more, IsSeq(more[n + 1]), \A k \in 1..n : more[k] = piece[k]
  PROVE  \E after : Laid(bytes \o more[n + 1], n + 1, after, more)
<1> DEFINE p == more[n + 1]
           whole == bytes \o p
           m == n + 1
           l == Len(whole)
           after == [k \in 1..(m + 1) |-> IF k <= m THEN at[k] ELSE l]
<1>1. /\ l = Len(bytes) + Len(p)
      /\ Holds(whole, Len(bytes), p) /\ Len(bytes) \in Nat
  <2>1. Len(bytes) \in Nat
    BY DEF IsSeq
  <2> QED BY <2>1, Joined
<1>2. ASSUME NEW t, NEW o, Holds(bytes, o, t) PROVE Holds(whole, o, t)
  BY <1>2, Longer
<1>3. m \in Nat /\ m >= 1
  OBVIOUS
<1> HIDE DEF whole, l
<1>4. \A k \in 1..m : after[k] = at[k]
  BY <1>3
<1>5. after[m + 1] = l
  <2>1. m + 1 \in 1..(m + 1) /\ ~(m + 1 <= m)
    BY <1>3
  <2> QED BY <2>1
<1> HIDE DEF after
<1>6. after[1] = 0
  BY <1>3, <1>4 DEF Laid
<1>7. ASSUME NEW k \in 1..m
      PROVE  /\ after[k] \in Nat /\ after[k + 1] = after[k] + Len(more[k])
             /\ Holds(whole, after[k], more[k])
  <2>1. CASE k = m
    <3>1. after[k] = Len(bytes)
      BY <1>3, <1>4, <2>1 DEF Laid
    <3>2. after[k + 1] = l /\ more[k] = p
      BY <1>5, <2>1
    <3> QED BY <1>1, <3>1, <3>2
  <2>2. CASE k # m
    <3>1. k \in 1..n /\ k + 1 \in 1..m
      BY <2>2
    <3>2. /\ at[k] \in Nat /\ at[k + 1] = at[k] + Len(piece[k])
          /\ Holds(bytes, at[k], piece[k])
      BY <3>1 DEF Laid
    <3>3. after[k] = at[k] /\ after[k + 1] = at[k + 1] /\ more[k] = piece[k]
      BY <1>4, <3>1
    <3> QED BY <1>2, <3>2, <3>3
  <2> QED BY <2>1, <2>2
<1>8. Laid(whole, m, after, more)
  BY <1>5, <1>6, <1>7 DEF Laid, l
<1> QED BY <1>8 DEF whole, p

LinePieces ==
  [k \in Nat |-> IF k <= Len(disturbances) THEN Bytes(config, disturbances[k])
                 ELSE Encode(config, Ours, answer)]

Count == Len(disturbances) + (IF answered THEN 1 ELSE 0)

\* The client has found the answer, or it has dropped whole pieces and nothing else.
Reading(at) ==
  \/ /\ verdict.status = "Complete" /\ verdict.reply = answer
     /\ delivered = Len(line) /\ ~scanning
  \/ /\ verdict.status = "Incomplete"
     /\ \E k \in 1..Count :
          /\ at[k] <= delivered /\ rx_frame = View(line, at[k], delivered)
          /\ IF scanning THEN at[k] < delivered ELSE delivered < Len(line)

ScannerInvariant ==
  /\ Buffered
  /\ answer \in Answers(config) /\ disturbances \in Seq(Pieces(config))
  /\ answered \in BOOLEAN /\ scanning \in BOOLEAN
  /\ ~answered => /\ delivered = 0 /\ rx_frame = <<>> /\ scanning = FALSE
                  /\ verdict.status = "Incomplete"
  /\ \E at : /\ Laid(line, Count, at, LinePieces)
             /\ answered /\ Undamaged => Reading(at)

\* A line without damaged frames is laid out as Layout says.
LEMMA LaidOut ==
  ASSUME Buffered, answer \in Answers(config), disturbances \in Seq(Pieces(config)),
         answered = TRUE, Undamaged, NEW at, Laid(line, Count, at, LinePieces)
  PROVE  Layout(config, line, Count, at, LinePieces, answer)
<1> DEFINE m == Len(disturbances)
<1>1. m \in Nat /\ Count = m + 1 /\ config \in Configs /\ IsSeq(line)
  BY DEF Count, Buffered
<1>2. /\ \A k \in 1..m : LinePieces[k] = Bytes(config, disturbances[k])
      /\ LinePieces[m + 1] = Encode(config, Ours, answer)
  BY <1>1 DEF LinePieces
<1>3. \A k \in DOMAIN disturbances :
        /\ disturbances[k] \in Harmless(config)
        /\ disturbances[k] = "stray" /\ k < m => disturbances[k + 1] # "junk"
  BY DEF Undamaged
<1>4. DOMAIN disturbances = 1..m
  OBVIOUS
<1>5. ASSUME NEW k \in 1..m
      PROVE  disturbances[k] \in Harmless(config) /\ LinePieces[k] = Bytes(config, disturbances[k])
  BY <1>2, <1>3, <1>4, <1>5
<1>6. Framed(config, LinePieces[m + 1], Ours, answer)
  BY <1>1, <1>2, AnswerFramed
<1>7. ASSUME NEW p, NEW sender, NEW said, Framed(config, p, sender, said) PROVE ~Noise(config, p)
  <2>1. Len(p) \in Nat /\ Len(p) >= 2
    BY <1>1, <1>7, FramedShape, ShapedHas
  <2> DEFINE l == Len(p)
  <2>2. l \in Nat /\ l >= 2
    BY <2>1
  <2> HIDE DEF l
  <2>3. l # 1
    BY <2>2
  <2> QED BY <2>3 DEF Noise, l
<1>8. ASSUME NEW k \in 1..m
      PROVE  \/ Noise(config, LinePieces[k])
             \/ Stray(config, LinePieces[k]) /\ ~Noise(config, LinePieces[k + 1])
             \/ FramedForOthers(config, LinePieces[k])
  <2> DEFINE piece == disturbances[k]
  <2>1. piece \in Harmless(config) /\ LinePieces[k] = Bytes(config, piece)
    BY <1>5
  <2>2. \/ piece = "junk" /\ Noise(config, Bytes(config, piece))
        \/ piece = "stray" /\ Stray(config, Bytes(config, piece))
        \/ /\ piece # "junk" /\ piece # "stray"
           /\ FramedForOthers(config, Bytes(config, piece))
    BY <1>1, <2>1, HarmlessPieces
  <2>3. CASE piece = "stray"
    <3>1. CASE k = m
      BY <1>6, <1>7, <2>1, <2>2, <2>3, <3>1
    <3>2. CASE k # m
      <4> DEFINE next == disturbances[k + 1]
      <4>1. k + 1 \in 1..m /\ k < m /\ k \in DOMAIN disturbances
        <5> HIDE DEF m
        <5>1. k \in Nat /\ k >= 1 /\ k <= m /\ k # m /\ m \in Nat
          BY <1>1, <3>2
        <5>2. k + 1 \in 1..m /\ k < m
          BY <5>1
        <5> QED BY <1>4, <5>2
      <4>2. next # "junk"
        BY <1>3, <2>3, <4>1
      <4>3. next \in Harmless(config) /\ LinePieces[k + 1] = Bytes(config, next)
        BY <1>5, <4>1
      <4> HIDE DEF next
      <4>4. \/ Stray(config, Bytes(config, next))
            \/ FramedForOthers(config, Bytes(config, next))
        BY <1>1, <4>2, <4>3, HarmlessPieces
      <4>5. ~Noise(config, LinePieces[k + 1])
        BY <1>7, <4>3, <4>4 DEF Noise, Stray, FramedForOthers
      <4> QED BY <2>1, <2>2, <2>3, <4>5
    <3> QED BY <3>1, <3>2
  <2>4. CASE piece # "stray"
    BY <2>1, <2>2, <2>4
  <2> QED BY <2>3, <2>4
<1>9. Count \in Nat /\ Count >= 1 /\ Count - 1 = m
  BY <1>1
<1>10. \A k \in 1..(Count - 1) :
         \/ Noise(config, LinePieces[k])
         \/ Stray(config, LinePieces[k]) /\ ~Noise(config, LinePieces[k + 1])
         \/ FramedForOthers(config, LinePieces[k])
  BY <1>8, <1>9
<1>11. Framed(config, LinePieces[Count], Ours, answer)
  BY <1>1, <1>6
<1> QED BY <1>1, <1>9, <1>10, <1>11 DEF Layout

LEMMA InitScannerInvariant == Init => ScannerInvariant
<1> SUFFICES ASSUME Init PROVE ScannerInvariant
  OBVIOUS
<1>1. Buffered
  BY InitBuffered
<1>2. /\ answer \in Answers(config) /\ disturbances = <<>> /\ answered = FALSE
      /\ scanning = FALSE /\ delivered = 0 /\ rx_frame = <<>> /\ line = <<>>
      /\ verdict.status = "Incomplete"
  BY DEF Init
<1>3. disturbances \in Seq(Pieces(config)) /\ Count = 0 /\ Len(line) = 0
  BY <1>2 DEF Count
<1> DEFINE at == [k \in {1} |-> 0]
<1>4. Laid(line, Count, at, LinePieces)
  <2>1. at[1] = 0 /\ Count + 1 = 1
    BY <1>3
  <2> HIDE DEF at
  <2> QED BY <1>3, <2>1 DEF Laid
<1> QED BY <1>1, <1>2, <1>3, <1>4 DEF ScannerInvariant

LEMMA DisturbKeeps ==
  ASSUME ScannerInvariant, Buffered', NEW piece \in Pieces(config), Disturb(piece)
  PROVE  ScannerInvariant'
<1> DEFINE m == Len(disturbances)
           more == LinePieces'
           p == Bytes(config, piece)
<1>1. /\ ~answered /\ config' = config /\ answer' = answer /\ answered' = answered
      /\ delivered' = delivered /\ rx_frame' = rx_frame /\ scanning' = scanning
      /\ verdict' = verdict
      /\ disturbances' = Append(disturbances, piece) /\ line' = line \o p
  BY DEF Disturb, clientVars
<1>2. /\ disturbances \in Seq(Pieces(config)) /\ m \in Nat
      /\ disturbances' \in Seq(Pieces(config)) /\ Len(disturbances') = m + 1
      /\ disturbances'[m + 1] = piece
      /\ \A k \in 1..m : disturbances'[k] = disturbances[k]
  BY <1>1 DEF ScannerInvariant
<1>3. PICK at : Laid(line, Count, at, LinePieces)
  BY DEF ScannerInvariant
<1>4. Count = m /\ Count' = m + 1
  BY <1>1, <1>2 DEF Count, ScannerInvariant
<1>5. /\ more[m + 1] = p
      /\ \A k \in 1..m : more[k] = LinePieces[k]
  BY <1>1, <1>2 DEF LinePieces
<1>6. IsSeq(p) /\ IsSeq(line)
  BY PieceIsSeq DEF ScannerInvariant, Buffered
<1>7. \E after : Laid(line', Count', after, more)
  <2> HIDE DEF more
  <2> QED BY <1>1, <1>2, <1>3, <1>4, <1>5, <1>6, OneMore
<1> QED BY <1>1, <1>2, <1>7 DEF ScannerInvariant

LEMMA ReplyKeeps ==
  ASSUME ScannerInvariant, Buffered', Reply
  PROVE  ScannerInvariant'
<1> DEFINE m == Len(disturbances)
           pieces == LinePieces
           p == Encode(config, Ours, answer)
<1>1. /\ ~answered /\ config' = config /\ answer' = answer /\ answered' = TRUE
      /\ delivered' = delivered /\ rx_frame' = rx_frame /\ scanning' = scanning
      /\ verdict' = verdict /\ disturbances' = disturbances /\ line' = line \o p
  BY DEF Reply, clientVars
<1>2. /\ disturbances \in Seq(Pieces(config)) /\ m \in Nat /\ answer \in Answers(config)
      /\ config \in Configs /\ IsSeq(line)
      /\ delivered = 0 /\ rx_frame = <<>> /\ scanning = FALSE
      /\ verdict.status = "Incomplete"
  BY <1>1 DEF ScannerInvariant, Buffered
<1>3. PICK at : Laid(line, Count, at, LinePieces)
  BY DEF ScannerInvariant
<1>4. Count = m /\ Count' = m + 1 /\ LinePieces' = LinePieces
  BY <1>1, <1>2 DEF Count, LinePieces
<1>5. pieces[m + 1] = p
  BY <1>2 DEF LinePieces
<1>6. Len(p) \in Nat /\ Len(p) >= 2 /\ IsSeq(p)
  <2>1. Framed(config, p, Ours, answer)
    BY <1>2, AnswerFramed
  <2> HIDE DEF p
  <2> QED BY <1>2, <2>1, FramedShape, ShapedHas
<1>7. PICK after : Laid(line', Count', after, pieces)
  <2>1. IsSeq(pieces[m + 1])
    BY <1>5, <1>6
  <2> HIDE DEF pieces
  <2>2. Laid(line, m, at, pieces)
    BY <1>3, <1>4 DEF pieces
  <2>3. \E after : Laid(line \o pieces[m + 1], m + 1, after, pieces)
    BY <1>2, <2>1, <2>2, OneMore
  <2> QED BY <1>1, <1>4, <1>5, <2>3
<1>8. Len(line') = Len(line) + Len(p) /\ Len(line) \in Nat
  <2>1. Len(line) \in Nat
    BY <1>2 DEF IsSeq
  <2> HIDE DEF p
  <2> QED BY <1>1, <1>2, <1>6, <2>1, Concatenated
<1>9. Reading(after)'
  <2>1. after[1] = 0 /\ 1 \in 1..Count'
    BY <1>2, <1>4, <1>7 DEF Laid
  <2>2. rx_frame' = View(line', after[1], delivered')
    <3>1. rx_frame' = <<>> /\ after[1] = 0 /\ delivered' = 0
      BY <1>1, <1>2, <2>1
    <3>2. View(line', 0, 0) = <<>>
      BY DEF View
    <3> QED BY <3>1, <3>2
  <2>3. delivered' < Len(line') /\ after[1] <= delivered' /\ ~scanning'
    <3> DEFINE l == Len(p)
               s == Len(line)
    <3>1. Len(line') = s + l /\ l \in Nat /\ s \in Nat /\ l >= 2 /\ delivered' = 0
      BY <1>1, <1>2, <1>6, <1>8
    <3> HIDE DEF l, s
    <3>2. delivered' < Len(line')
      BY <3>1
    <3> QED BY <1>1, <1>2, <2>1, <3>2
  <2>4. verdict'.status = "Incomplete"
    BY <1>1, <1>2
  <2> QED BY <2>1, <2>2, <2>3, <2>4 DEF Reading
<1>10. Laid(line', Count', after, LinePieces')
  BY <1>4, <1>7
<1> QED BY <1>1, <1>2, <1>9, <1>10 DEF ScannerInvariant

\* What the client is given next continues what it has.
LEMMA ViewGrows ==
  ASSUME NEW bytes, IsSeq(bytes), NEW a \in Nat, NEW d \in Nat, NEW size \in Nat,
         a <= d, d + size <= Len(bytes)
  PROVE  View(bytes, a, d) \o SubSeq(bytes, d + 1, d + size) = View(bytes, a, d + size)
<1> DEFINE e == d + size
           w == View(bytes, a, d)
           v == View(bytes, d, e)
           u == View(bytes, a, e)
           wv == w \o v
<1>1. /\ e \in Nat /\ a <= e /\ d <= e /\ e <= Len(bytes) /\ d <= Len(bytes)
      /\ d - a \in Nat /\ e - d \in Nat /\ e - a = (d - a) + (e - d)
  <2>1. Len(bytes) \in Nat
    BY DEF IsSeq
  <2> DEFINE l == Len(bytes)
  <2>2. l \in Nat /\ d + size <= l
    BY <2>1
  <2> HIDE DEF l
  <2>3. d <= l
    BY <2>2
  <2> QED BY <2>3 DEF l
<1>2. SubSeq(bytes, d + 1, d + size) = v
  BY DEF View
<1> HIDE DEF e
<1>3. /\ IsSeq(w) /\ Len(w) = d - a /\ \A i \in 1..(d - a) : w[i] = bytes[a + i]
      /\ IsSeq(v) /\ Len(v) = e - d /\ \A i \in 1..(e - d) : v[i] = bytes[d + i]
      /\ IsSeq(u) /\ Len(u) = e - a /\ \A i \in 1..(e - a) : u[i] = bytes[a + i]
  BY <1>1, ViewIs
<1> HIDE DEF w, v, u
<1>4. /\ IsSeq(wv) /\ Len(wv) = Len(w) + Len(v)
      /\ \A i \in 1..Len(w) : wv[i] = w[i]
      /\ \A i \in 1..Len(v) : wv[Len(w) + i] = v[i]
  <2>1. IsSeq(w) /\ IsSeq(v)
    BY <1>3
  <2> QED BY <2>1, Concatenated
<1> HIDE DEF wv
<1>5. Len(wv) = Len(u)
  BY <1>1, <1>3, <1>4
<1>6. ASSUME NEW i \in 1..Len(wv) PROVE wv[i] = u[i]
  <2>1. i \in 1..(e - a)
    BY <1>3, <1>5
  <2>2. CASE i <= d - a
    <3>1. i \in 1..(d - a)
      BY <1>1, <2>1, <2>2
    <3> QED BY <1>3, <1>4, <2>1, <3>1
  <2>3. CASE ~(i <= d - a)
    <3> DEFINE j == i - (d - a)
    <3>1. j \in 1..(e - d) /\ (d - a) + j = i /\ d + j = a + i
      BY <1>1, <2>1, <2>3
    <3> HIDE DEF j
    <3>2. wv[(d - a) + j] = v[j] /\ v[j] = bytes[d + j]
      BY <1>3, <1>4, <3>1
    <3> QED BY <1>3, <2>1, <3>1, <3>2
  <2> QED BY <2>2, <2>3
<1>7. wv = u
  BY <1>3, <1>4, <1>5, <1>6, Same
<1> QED BY <1>2, <1>7 DEF wv, u, w, e

LEMMA OnRxBytesKeeps ==
  ASSUME ScannerInvariant, Buffered', NEW size \in 1..Len(line), OnRxBytes(size)
  PROVE  ScannerInvariant'
<1>1. /\ answered /\ ~scanning /\ verdict.status = "Incomplete"
      /\ delivered + size <= Len(line) /\ delivered' = delivered + size
      /\ rx_frame' = rx_frame \o SubSeq(line, delivered + 1, delivered + size)
      /\ scanning' = TRUE /\ verdict' = verdict
      /\ config' = config /\ answer' = answer /\ disturbances' = disturbances
      /\ answered' = answered /\ line' = line
  BY DEF OnRxBytes, lineVars
<1>2. PICK at : /\ Laid(line, Count, at, LinePieces)
                /\ answered /\ Undamaged => Reading(at)
  BY DEF ScannerInvariant
<1>3. Laid(line', Count', at, LinePieces')
  BY <1>1, <1>2 DEF Count, LinePieces
<1>4. ASSUME answered', Undamaged' PROVE Reading(at)'
  <2>1. Undamaged
    BY <1>1, <1>4 DEF Undamaged
  <2>2. Reading(at)
    BY <1>1, <1>2, <2>1
  <2>3. \E k \in 1..Count :
          /\ at[k] <= delivered /\ rx_frame = View(line, at[k], delivered)
          /\ IF scanning THEN at[k] < delivered ELSE delivered < Len(line)
    BY <1>1, <2>2 DEF Reading
  <2>4. PICK k \in 1..Count :
          at[k] <= delivered /\ rx_frame = View(line, at[k], delivered)
    BY <2>3
  <2>5. at[k] \in Nat
    BY <1>2, <2>4 DEF Laid
  <2>6. IsSeq(line) /\ delivered \in Nat /\ size \in Nat /\ size >= 1
    BY DEF ScannerInvariant, Buffered, IsSeq
  <2>7. rx_frame' = View(line, at[k], delivered + size)
    <3> DEFINE a == at[k]
    <3>1. a \in Nat /\ a <= delivered /\ rx_frame = View(line, a, delivered)
      BY <2>4, <2>5
    <3> HIDE DEF a
    <3>2. View(line, a, delivered) \o SubSeq(line, delivered + 1, delivered + size)
            = View(line, a, delivered + size)
      BY <1>1, <2>6, <3>1, ViewGrows
    <3> QED BY <1>1, <3>1, <3>2 DEF a
  <2>8. rx_frame' = View(line', at[k], delivered')
    BY <1>1, <2>7
  <2>9. at[k] <= delivered' /\ at[k] < delivered'
    <3> DEFINE a == at[k]
    <3>1. a \in Nat /\ a <= delivered
      BY <2>4, <2>5
    <3> HIDE DEF a
    <3>2. a <= delivered' /\ a < delivered'
      BY <1>1, <2>6, <3>1
    <3> QED BY <3>2 DEF a
  <2>10. k \in 1..Count'
    BY <1>1 DEF Count
  <2>11. verdict'.status = "Incomplete" /\ scanning'
    BY <1>1
  <2> QED BY <2>8, <2>9, <2>10, <2>11 DEF Reading
<1> QED BY <1>1, <1>3, <1>4 DEF ScannerInvariant

\* The round that drops whole pieces.
LEMMA Dropped ==
  ASSUME NEW bytes, IsSeq(bytes), NEW a \in Nat, NEW b \in Nat, NEW d \in Nat,
         a < b, b <= d, d <= Len(bytes)
  PROVE  /\ DiscardRxPrefix(View(bytes, a, d), b - a) = View(bytes, b, d)
         /\ View(bytes, b, d) = <<>> <=> b = d
<1> DEFINE size == b - a
           o == size + 1
           w == View(bytes, a, d)
<1>1. /\ size \in Nat /\ size <= d - a /\ o \in 1..(d - a + 1)
      /\ a + o - 1 = b /\ a <= d
  OBVIOUS
<1> HIDE DEF size
<1>2. Len(w) = d - a
  BY <1>1, ViewIs
<1>3. From(w, o) = View(bytes, b, d)
  <2>1. From(View(bytes, a, d), o) = View(bytes, a + o - 1, d)
    <3> HIDE DEF o
    <3> QED BY <1>1, ViewFrom
  <2> QED BY <1>1, <2>1
<1>4. DiscardRxPrefix(w, size) = View(bytes, b, d)
  <2> HIDE DEF w
  <2>1. ~(size > Len(w))
    BY <1>1, <1>2
  <2> QED BY <1>3, <2>1 DEF DiscardRxPrefix
<1> DEFINE v == View(bytes, b, d)
<1>5. IsSeq(v) /\ Len(v) = d - b
  BY ViewIs
<1> HIDE DEF v
<1>6. v = <<>> <=> Len(v) = 0
  <2>1. PICK S : v \in Seq(S)
    BY <1>5 DEF IsSeq
  <2> QED BY <2>1
<1>7. v = <<>> <=> b = d
  BY <1>5, <1>6
<1> QED BY <1>4, <1>7 DEF size, w, v

LEMMA ScanRoundKeeps ==
  ASSUME ScannerInvariant, Buffered', ScanRound
  PROVE  ScannerInvariant'
<1> DEFINE scan == DecodeStreamBuffer(config, rx_frame)
<1>1. /\ scanning /\ Conclude(scan) /\ delivered' = delivered
      /\ config' = config /\ answer' = answer /\ disturbances' = disturbances
      /\ answered' = answered /\ line' = line
  BY DEF ScanRound, lineVars
<1> HIDE DEF scan
<1>2. PICK at : /\ Laid(line, Count, at, LinePieces)
                /\ answered /\ Undamaged => Reading(at)
  BY DEF ScannerInvariant
<1>3. Laid(line', Count', at, LinePieces')
  BY <1>1, <1>2 DEF Count, LinePieces
<1>4. answered = TRUE /\ answered' = TRUE /\ scanning' \in BOOLEAN
  BY <1>1 DEF ScannerInvariant, Conclude
<1>5. ASSUME Undamaged' PROVE Reading(at)'
  <2>1. Undamaged
    BY <1>1, <1>5 DEF Undamaged
  <2>2. /\ verdict.status = "Incomplete"
        /\ \E k \in 1..Count :
             /\ at[k] <= delivered /\ rx_frame = View(line, at[k], delivered)
             /\ at[k] < delivered
    BY <1>1, <1>2, <1>4, <2>1 DEF Reading
  <2>3. PICK k \in 1..Count : at[k] < delivered /\ rx_frame = View(line, at[k], delivered)
    BY <2>2
  <2>4. Layout(config, line, Count, at, LinePieces, answer)
    BY <1>2, <1>4, <2>1, LaidOut DEF ScannerInvariant
  <2>5. config \in Configs /\ IsSeq(line) /\ delivered \in 0..Len(line)
    BY DEF ScannerInvariant, Buffered
  <2>6. at[k] \in Nat /\ Len(line) \in Nat /\ Count \in Nat /\ at[Count + 1] = Len(line)
    BY <2>4, <2>5, PieceAt
  <2>7. delivered \in 1..Len(line)
    BY <2>3, <2>5, <2>6
  <2>8. Judgements(line, Count, at, k, delivered, answer, scan)
    BY <2>3, <2>4, <2>5, <2>7, Round DEF scan
  <2>9. Count' = Count
    BY <1>1 DEF Count
  <2>10. CASE scan.discard_prefix = 0 /\ scan.status = "Incomplete" /\ delivered < Len(line)
    <3>1. rx_frame' = rx_frame /\ scanning' = FALSE /\ verdict'.status = "Incomplete"
      BY <1>1, <2>10 DEF Conclude
    <3>2. /\ at[k] <= delivered' /\ rx_frame' = View(line', at[k], delivered')
          /\ ~scanning' /\ delivered' < Len(line') /\ k \in 1..Count'
      BY <1>1, <2>3, <2>6, <2>7, <2>9, <2>10, <3>1
    <3> QED BY <3>1, <3>2 DEF Reading
  <2>11. CASE /\ scan.discard_prefix = 0 /\ scan.status = "Complete"
              /\ scan.reply = answer /\ delivered = Len(line)
    <3>1. /\ scanning' = FALSE
          /\ verdict' = [status |-> scan.status, reply |-> scan.reply]
      BY <1>1, <2>11 DEF Conclude
    <3>2. verdict'.status = "Complete" /\ verdict'.reply = answer
      BY <2>11, <3>1
    <3> QED BY <1>1, <2>11, <3>1, <3>2 DEF Reading
  <2>12. CASE \E j \in (k + 1)..Count :
                at[j] <= delivered /\ scan.discard_prefix = at[j] - at[k]
    <3>1. PICK j \in (k + 1)..Count :
            at[j] <= delivered /\ scan.discard_prefix = at[j] - at[k]
      BY <2>12
    <3>2. /\ j \in 1..Count /\ k < j
          /\ k \in 1..(Count + 1) /\ j \in 1..(Count + 1) /\ Count + 1 \in 1..(Count + 1)
          /\ j < Count + 1
      BY <2>3, <2>6, <3>1
    <3>3. \A i, l \in 1..(Count + 1) : i < l => at[i] < at[l]
      BY <2>4, <2>5, Order
    <3>4. at[k] < at[j] /\ at[j] < at[Count + 1] /\ at[j] \in Nat
      <4>1. at[j] \in Nat
        BY <2>4, <2>5, <3>2, PieceAt
      <4> QED BY <3>2, <3>3, <4>1
    <3> DEFINE a == at[k]
               b == at[j]
    <3>5. /\ a \in Nat /\ b \in Nat /\ a < b /\ b <= delivered /\ b < Len(line)
          /\ scan.discard_prefix = b - a /\ rx_frame = View(line, a, delivered)
      BY <2>3, <2>6, <3>1, <3>4
    <3> HIDE DEF a, b
    <3>6. /\ DiscardRxPrefix(View(line, a, delivered), b - a) = View(line, b, delivered)
          /\ View(line, b, delivered) = <<>> <=> b = delivered
      BY <2>5, <2>7, <3>5, Dropped
    <3>7. scan.discard_prefix # 0
      BY <3>5
    <3>8. /\ rx_frame' = DiscardRxPrefix(rx_frame, scan.discard_prefix)
          /\ scanning' = (rx_frame' # <<>>) /\ verdict' = verdict
      BY <1>1, <3>7 DEF Conclude
    <3>9. rx_frame' = View(line, b, delivered) /\ (scanning' <=> b # delivered)
      BY <3>5, <3>6, <3>8
    <3>10. /\ rx_frame' = View(line', b, delivered') /\ b <= delivered'
           /\ IF scanning' THEN b < delivered' ELSE delivered' < Len(line')
      BY <1>1, <2>7, <3>5, <3>9
    <3>11. verdict'.status = "Incomplete" /\ j \in 1..Count'
      BY <2>2, <2>9, <3>2, <3>8
    <3> QED BY <3>10, <3>11 DEF Reading, b
  <2> QED BY <2>8, <2>10, <2>11, <2>12 DEF Judgements
<1> QED BY <1>1, <1>3, <1>4, <1>5 DEF ScannerInvariant

LEMMA ScannerStep == ScannerInvariant /\ [Next]_vars => ScannerInvariant'
<1> SUFFICES ASSUME ScannerInvariant, [Next]_vars PROVE ScannerInvariant'
  OBVIOUS
<1>1. Buffered'
  BY BufferedStep DEF ScannerInvariant
<1>2. ASSUME UNCHANGED vars PROVE ScannerInvariant'
  <2>1. /\ config' = config /\ answer' = answer /\ disturbances' = disturbances
        /\ answered' = answered /\ line' = line /\ delivered' = delivered
        /\ rx_frame' = rx_frame /\ scanning' = scanning /\ verdict' = verdict
    BY <1>2 DEF vars, lineVars, clientVars
  <2>2. PICK at : /\ Laid(line, Count, at, LinePieces)
                  /\ answered /\ Undamaged => Reading(at)
    BY DEF ScannerInvariant
  <2>3. Laid(line', Count', at, LinePieces')
    BY <2>1, <2>2 DEF Count, LinePieces
  <2>4. answered' /\ Undamaged' => Reading(at)'
    BY <2>1, <2>2 DEF Undamaged, Reading, Count
  <2> QED BY <1>1, <2>1, <2>3, <2>4 DEF ScannerInvariant
<1>3. CASE \E piece \in Harmless(config) \cup Harmful : Disturb(piece)
  BY <1>1, <1>3, DisturbKeeps DEF Pieces
<1>4. CASE Reply
  BY <1>1, <1>4, ReplyKeeps
<1>5. CASE \E size \in 1..Len(line) : OnRxBytes(size)
  BY <1>1, <1>5, OnRxBytesKeeps
<1>6. CASE ScanRound
  BY <1>1, <1>6, ScanRoundKeeps
<1> QED BY <1>1, <1>2, <1>3, <1>4, <1>5, <1>6 DEF Next

\* The answer is on the line behind whole pieces of which the client has dropped some and
\* kept the rest, or the client has found it.
THEOREM ScannerInvariantHolds == Spec => []ScannerInvariant
BY InitScannerInvariant, ScannerStep, PTL DEF Spec

\* Among whole frames of others, noise and stray start bytes, however many and however
\* cut, the answer is found as its last byte arrives, and the request never fails.
THEOREM AnswerIsFoundHolds == Spec => []AnswerIsFound
<1>1. ScannerInvariant => AnswerIsFound
  <2> SUFFICES ASSUME ScannerInvariant, Undamaged, ~scanning PROVE
        verdict.status = (IF answered /\ delivered = Len(line) THEN "Complete"
                          ELSE "Incomplete")
    BY DEF AnswerIsFound
  <2>1. CASE ~answered
    BY <2>1 DEF ScannerInvariant
  <2>2. CASE answered
    <3>1. \/ verdict.status = "Complete" /\ delivered = Len(line)
          \/ verdict.status = "Incomplete" /\ delivered < Len(line)
      BY <2>2 DEF ScannerInvariant, Reading
    <3>2. Len(line) \in Nat /\ delivered \in Nat
      BY DEF ScannerInvariant, Buffered, IsSeq
    <3> QED BY <2>2, <3>1, <3>2
  <2> QED BY <2>1, <2>2
<1> QED BY <1>1, ScannerInvariantHolds, PTL

-----------------------------------------------------------------------------
(* Damaged lines.  With the sum check a frame is told by its checksum, and *)
(* a frame without one by its first byte.                                  *)

\* A whole frame with one of the replies of this line.
Replies(c, sender) == {Success(<<>>), PlcError(<<"E">>), Data(c, sender)}

Sent(c, p, sender, reply) ==
  sender \in Senders /\ reply \in Replies(c, sender) /\ p = Encode(c, sender, reply)

\* A start byte, alone or before noise.
Stub(c, p) == IsSeq(p) /\ Len(p) \in {1, 2} /\ IsStart(c, p[1]) /\ (Len(p) = 2 => p[2] = Junk)

\* A frame that lost its end, or its last byte.
Harmed(c, p) ==
  \E sender \in Senders : p = Cut(DataFrame(c, sender)) \/ p = Damaged(DataFrame(c, sender))

LEMMA SentFramed ==
  ASSUME NEW c \in Configs, NEW p, NEW sender, NEW reply, Sent(c, p, sender, reply)
  PROVE  Framed(c, p, sender, reply)
<1>1. Quiet(c, reply)
  BY QuietReplies DEF Sent, Replies
<1> QED BY <1>1 DEF Sent, Framed

LEMMA PieceForms ==
  ASSUME NEW c \in Configs, NEW piece \in Pieces(c)
  PROVE  \/ Bytes(c, piece) = <<Junk>>
         \/ Stub(c, Bytes(c, piece))
         \/ \E sender, reply : ForeignTo(c, sender) /\ Sent(c, Bytes(c, piece), sender, reply)
         \/ Harmed(c, Bytes(c, piece))
<1>0. CASE piece = "junk"
  BY <1>0 DEF Bytes
<1>1. CASE piece = "stray"
  <2> DEFINE start == IF c.format = "Format5" THEN DLE
                      ELSE IF c.format = "Format3" THEN STX ELSE ACK
             p == <<start>>
  <2>1. Bytes(c, piece) = p
    BY <1>1 DEF Bytes
  <2>2. IsStart(c, start)
    BY DEF IsStart
  <2> HIDE DEF start
  <2>3. IsSeq(p) /\ Len(p) = 1 /\ p[1] = start
    BY One
  <2> HIDE DEF p
  <2>4. Len(p) # 2
    BY <2>3
  <2> QED BY <2>1, <2>2, <2>3, <2>4 DEF Stub
<1>2. CASE piece = "bad header"
  <2> DEFINE start == IF c.format = "Format5" THEN DLE ELSE STX
             p == <<start, Junk>>
  <2>1. Bytes(c, piece) = p
    BY <1>2 DEF Bytes
  <2>2. IsStart(c, start)
    BY DEF IsStart
  <2> HIDE DEF start
  <2>3. IsSeq(p) /\ Len(p) = 2 /\ p[1] = start /\ p[2] = Junk
    BY Two
  <2> HIDE DEF p
  <2> QED BY <2>1, <2>2, <2>3 DEF Stub
<1>3. CASE piece \in {"other data", "other done", "other error", "late data", "late done",
                      "late error"}
  <2>1. PICK sender, reply :
          /\ sender \in {Theirs, Earlier} /\ reply \in Replies(c, sender)
          /\ Bytes(c, piece) = Encode(c, sender, reply)
          /\ sender = Earlier => piece \in {"late data", "late done", "late error"}
    <3>1. CASE piece \in {"other data", "other done", "other error"}
      <4>1. Bytes(c, piece) = Encode(c, Theirs, Data(c, Theirs))
            \/ Bytes(c, piece) = Encode(c, Theirs, Success(<<>>))
            \/ Bytes(c, piece) = Encode(c, Theirs, PlcError(<<"E">>))
        BY <3>1 DEF Bytes, DataFrame
      <4>2. Theirs # Earlier
        BY DEF Theirs, Earlier
      <4>3. \E reply \in Replies(c, Theirs) : Bytes(c, piece) = Encode(c, Theirs, reply)
        BY <4>1 DEF Replies
      <4> QED BY <4>2, <4>3
    <3>2. CASE piece \in {"late data", "late done", "late error"}
      <4>1. Bytes(c, piece) = Encode(c, Earlier, Data(c, Earlier))
            \/ Bytes(c, piece) = Encode(c, Earlier, Success(<<>>))
            \/ Bytes(c, piece) = Encode(c, Earlier, PlcError(<<"E">>))
        BY <3>2 DEF Bytes, DataFrame
      <4> QED BY <3>2, <4>1 DEF Replies
    <3> QED BY <1>3, <3>1, <3>2
  <2>2. sender = Earlier => UsesBlockNumber(c)
    BY <2>1 DEF Pieces, Harmless, Harmful
  <2>3. sender \in Senders /\ ForeignTo(c, sender)
    BY <2>1, <2>2, WhoseFrames
  <2> QED BY <2>1, <2>3 DEF Sent
<1>4. CASE piece \in {"cut", "other cut", "damaged", "other damaged"}
  <2>1. \/ Bytes(c, piece) = Cut(DataFrame(c, Ours))
        \/ Bytes(c, piece) = Cut(DataFrame(c, Theirs))
        \/ Bytes(c, piece) = Damaged(DataFrame(c, Ours))
        \/ Bytes(c, piece) = Damaged(DataFrame(c, Theirs))
    BY <1>4 DEF Bytes
  <2> QED BY <2>1, WhoseFrames DEF Harmed
<1> QED BY <1>0, <1>1, <1>2, <1>3, <1>4 DEF Pieces, Harmless, Harmful

\* From m on a frame has the checksum of y and its end, and there is no other in it.
Seals(c, p, m, y) ==
  /\ IsSeq(p) /\ m \in Nat /\ m >= 4 /\ Len(p) = m + 2 + Len(Terminator(c))
  /\ p[m + 1] = <<"sum1", y>> /\ p[m + 2] = <<"sum2", y>>
  /\ Holds(p, m + 2, Terminator(c))
  /\ IsAscii(c) => IsSeq(y) /\ m = Len(y) + 1
  /\ \A i \in 1..Len(p) : \A z : p[i] = <<"sum1", z>> => i = m + 1 /\ z = y

LEMMA SumTags ==
  ASSUME NEW z
  PROVE  /\ \A y : <<"sum2", y>> # <<"sum1", z>> /\ <<"count", y>> # <<"sum1", z>>
                   /\ (<<"sum1", y>> = <<"sum1", z>> => y = z)
                   /\ Junk # <<"sum2", y>> /\ Junk # <<"sum1", y>>
         /\ \A byte \in Hex \cup {STX, ETX, ACK, NAK, DLE, SuccessEndCode, ErrorEndCode, Junk,
                                  <<"CR">>, <<"LF">>} : byte # <<"sum1", z>>
<1> DEFINE sum == <<"sum1", z>>
<1>1. sum[1] = "sum1"
  OBVIOUS
<1>2. \A y : <<"sum2", y>>[1] = "sum2" /\ <<"count", y>>[1] = "count"
             /\ <<"sum1", y>>[2] = y /\ <<"sum1", y>>[1] = "sum1"
  OBVIOUS
<1>3. \A byte \in Hex \cup {STX, ETX, ACK, NAK, DLE, SuccessEndCode, ErrorEndCode, Junk,
                            <<"CR">>, <<"LF">>} : byte[1] \notin {"sum1", "sum2"}
  BY DEF Hex, STX, ETX, ACK, NAK, DLE, SuccessEndCode, ErrorEndCode, Junk
<1>4. \A y : Junk # <<"sum2", y>> /\ Junk # <<"sum1", y>>
  BY <1>2, <1>3
<1>5. \A y : <<"sum1", y>> = <<"sum1", z>> => y = z
  BY <1>2
<1> HIDE DEF sum
<1>6. \A byte \in Hex \cup {STX, ETX, ACK, NAK, DLE, SuccessEndCode, ErrorEndCode, Junk,
                            <<"CR">>, <<"LF">>} : byte # sum
  BY <1>1, <1>3
<1>7. \A y : <<"sum2", y>> # sum /\ <<"count", y>> # sum
  BY <1>1, <1>2
<1> QED BY <1>4, <1>5, <1>6, <1>7 DEF sum

LEMMA HeadAndTailFree ==
  ASSUME NEW c \in Configs, NEW sender \in Senders,
         NEW B, \A byte \in Hex \cup {<<"CR">>, <<"LF">>} : byte \notin B
  PROVE  /\ IsSeq(Prefix(c, sender)) /\ Free(B, Prefix(c, sender))
         /\ IsSeq(Terminator(c)) /\ Free(B, Terminator(c))
<1> DEFINE s == Station(sender.station)
           b == Station(sender.block)
           head == Prefix(c, sender)
           term == Terminator(c)
<1>1. s \in Hex /\ b \in Hex
  BY PrefixIs
<1>2. head = IF UsesBlockNumber(c) THEN <<b>> \o <<s>> ELSE <<>> \o <<s>>
  BY DEF Prefix
<1> HIDE DEF s, b, head
<1>3. <<b>> \o <<s>> = <<b, s>> /\ <<>> \o <<s>> = <<s>>
  BY Two
<1>4. Free(B, <<b, s>>) /\ Free(B, <<s>>) /\ IsSeq(<<b, s>>) /\ IsSeq(<<s>>)
  BY <1>1, FreeShort
<1>5. IsSeq(head) /\ Free(B, head)
  BY <1>2, <1>3, <1>4
<1>6. IsSeq(term) /\ Free(B, term)
  <2> DEFINE x == <<"CR">>
             z == <<"LF">>
  <2>1. term = IF c.format = "Format4" THEN <<x, z>> ELSE <<>>
    BY DEF Terminator, CRLF
  <2>2. x \notin B /\ z \notin B
    OBVIOUS
  <2> HIDE DEF x, z, term
  <2>3. Free(B, <<x, z>>) /\ IsSeq(<<x, z>>) /\ Free(B, <<>>) /\ IsSeq(<<>>)
    BY <2>2, FreeShort
  <2> QED BY <2>1, <2>3
<1> QED BY <1>5, <1>6 DEF head, term

\* An ASCII frame with data.
LEMMA SealedData ==
  ASSUME NEW c \in Configs, c.sum_check = TRUE, IsAscii(c), NEW sender \in Senders
  PROVE  \E m, y : Seals(c, DataFrame(c, sender), m, y)
<1> DEFINE v == ValueOf(sender)
           content == IF IsEnqFamily(c) THEN <<v>> ELSE <<SuccessEndCode>> \o <<v>>
           p == StxFrame(c, sender, content, TRUE)
           y == Covered(c, sender, content)
           m == EtxOf(c, content)
           term == Terminator(c)
           cover == Prefix(c, sender) \o content
<1>1. v \in Hex /\ IsSeq(<<v>>) /\ Len(<<v>>) = 1
  BY One DEF ValueOf, Hex
<1>2. DataFrame(c, sender) = p
  <2>1. Data(c, sender) = Success(<<v>>)
    BY DEF Data
  <2>2. DataFrame(c, sender) = EncodeAscii(c, sender, Success(<<v>>))
    BY <2>1 DEF DataFrame, Encode
  <2>3. <<v>> # <<>>
    OBVIOUS
  <2> HIDE DEF v
  <2>4. CASE IsEnqFamily(c)
    BY <2>2, <2>3, <2>4, EnqFrames
  <2>5. CASE ~IsEnqFamily(c)
    <3>1. EncodeAscii(c, sender, Success(<<v>>))
            = StxFrame(c, sender, <<SuccessEndCode>> \o <<v>>, <<v>> # <<>>)
      BY <1>1, <2>5, Format3Frames
    <3>2. (<<v>> # <<>>) = TRUE
      BY <2>3
    <3> QED BY <2>2, <2>5, <3>1, <3>2
  <2> QED BY <2>4, <2>5
<1> HIDE DEF v
<1>3. IsSeq(content) /\ Len(content) \in Nat /\ Len(content) >= 1
  <2>1. IsSeq(<<SuccessEndCode>> \o <<v>>) /\ Len(<<SuccessEndCode>> \o <<v>>) = 2
    <3>1. <<SuccessEndCode>> \o <<v>> = <<SuccessEndCode, v>>
          /\ IsSeq(<<SuccessEndCode, v>>) /\ Len(<<SuccessEndCode, v>>) = 2
      BY Two
    <3> QED BY <3>1
  <2> QED BY <1>1, <2>1
<1>4. ASSUME NEW z PROVE Free({<<"sum1", z>>}, y) /\ IsSeq(y)
  <2> DEFINE B == {<<"sum1", z>>}
             head == Prefix(c, sender)
  <2>1. \A byte \in Hex \cup {ETX, SuccessEndCode} : byte \notin B
    BY SumTags
  <2> HIDE DEF B
  <2>2. Free(B, content)
    <3>1. Free(B, <<v>>) /\ Free(B, <<SuccessEndCode, v>>)
      BY <1>1, <2>1, FreeShort
    <3>2. <<SuccessEndCode>> \o <<v>> = <<SuccessEndCode, v>>
      BY Two
    <3> QED BY <3>1, <3>2
  <2>3. IsSeq(head) /\ Free(B, head)
    <3>1. \A byte \in Hex \cup {<<"CR">>, <<"LF">>} : byte \notin B
      BY SumTags DEF B
    <3> QED BY <3>1, HeadAndTailFree
  <2> HIDE DEF head, content
  <2>5. IsSeq(head \o content) /\ Free(B, head \o content)
    BY <1>3, <2>2, <2>3, FreeJoined
  <2>6. IsSeq(<<ETX>>) /\ Free(B, <<ETX>>)
    BY <2>1, FreeShort
  <2>7. y = (head \o content) \o <<ETX>>
    BY DEF Covered, head
  <2>8. IsSeq(y) /\ Free(B, y)
    <3> HIDE DEF y
    <3> QED BY <2>5, <2>6, <2>7, FreeJoined
  <2> QED BY <2>8 DEF B
<1> HIDE DEF content
<1>5. /\ Heads(p, STX, c, sender) /\ Holds(p, 1, y)
      /\ Holds(p, m, Checksum(c, y)) /\ Holds(p, m + SumSize(c), term)
      /\ Len(p) = m + SumSize(c) + Len(term)
  <2> DEFINE sum == TRUE
             q == StxFrame(c, sender, content, sum)
  <2>1. sum \in BOOLEAN /\ sum /\ q = p
    OBVIOUS
  <2> HIDE DEF sum
  <2>2. /\ Heads(q, STX, c, sender) /\ Holds(q, 1, y)
        /\ sum => Holds(q, m, Checksum(c, y)) /\ Holds(q, m + SumSize(c), term)
        /\ Len(q) = m + (IF sum THEN SumSize(c) ELSE 0) + Len(term)
    BY <1>3, <2>1, StxFrameIs
  <2> HIDE DEF q
  <2>3. /\ Heads(q, STX, c, sender) /\ Holds(q, 1, y)
        /\ Holds(q, m, Checksum(c, y)) /\ Holds(q, m + SumSize(c), term)
        /\ Len(q) = m + SumSize(c) + Len(term)
    BY <2>1, <2>2
  <2> QED BY <2>1, <2>3
<1>6. SumSize(c) = 2 /\ Checksum(c, y) = << <<"sum1", y>>, <<"sum2", y>> >>
  BY DEF SumSize, Checksum, SumOf
<1>7. /\ m \in Nat /\ m = PrefixSize(c) + Len(content) + 1 /\ PrefixSize(c) \in {2, 3}
      /\ Len(y) = PrefixSize(c) + Len(content)
  BY <1>3, EtxOfIs, CoveredIs DEF EtxOf
<1>8. IsSeq(term) /\ Len(term) \in Nat
      /\ \A z, i : i \in 1..Len(term) => term[i] # <<"sum1", z>>
  <2>1. ASSUME NEW z PROVE IsSeq(term) /\ \A i \in 1..Len(term) : term[i] # <<"sum1", z>>
    <3> DEFINE B == {<<"sum1", z>>}
    <3>1. \A byte \in Hex \cup {<<"CR">>, <<"LF">>} : byte \notin B
      BY SumTags
    <3>2. <<"sum1", z>> \in B
      OBVIOUS
    <3> HIDE DEF B
    <3>3. IsSeq(term) /\ Free(B, term)
      BY <3>1, HeadAndTailFree
    <3> QED BY <3>2, <3>3 DEF Free
  <2>2. Len(term) \in Nat
    BY <2>1 DEF IsSeq
  <2> QED BY <2>1, <2>2
<1> DEFINE sums == << <<"sum1", y>>, <<"sum2", y>> >>
           l == Len(y)
           t == Len(term)
<1>9. /\ l \in Nat /\ l >= 3 /\ m = l + 1 /\ Len(p) = m + 2 + t /\ t \in Nat /\ m \in Nat
      /\ IsSeq(p)
  <2> DEFINE k == Len(content)
             s == PrefixSize(c)
  <2>1. k \in Nat /\ k >= 1 /\ s \in {2, 3} /\ l = s + k /\ m = s + k + 1
        /\ Len(p) = m + 2 + t /\ t \in Nat
    BY <1>3, <1>5, <1>6, <1>7, <1>8
  <2>2. IsSeq(p)
    BY <1>5 DEF Holds
  <2> HIDE DEF k, s, l, m, t, p
  <2> QED BY <2>1, <2>2
<1>10. p[m + 1] = <<"sum1", y>> /\ p[m + 2] = <<"sum2", y>>
  <2> DEFINE a == <<"sum1", y>>
             b == <<"sum2", y>>
             s == <<a, b>>
  <2>1. Holds(p, m, s)
    BY <1>5, <1>6
  <2> HIDE DEF a, b
  <2>2. Len(s) = 2 /\ s[1] = a /\ s[2] = b /\ 1 \in 1..2 /\ 2 \in 1..2
    BY Two
  <2> HIDE DEF s, p, m
  <2>3. p[m + 1] = s[1] /\ p[m + 2] = s[2]
    BY <2>1, <2>2 DEF Holds
  <2>4. p[m + 1] = a /\ p[m + 2] = b
    BY <2>2, <2>3
  <2> QED BY <2>4 DEF a, b
<1>11. ASSUME NEW i \in 1..Len(p), NEW z, p[i] = <<"sum1", z>> PROVE i = m + 1 /\ z = y
  <2> DEFINE s == <<"sum1", z>>
  <2>1. s # STX /\ s # <<"sum2", y>>
        /\ (<<"sum1", y>> = s => y = z)
    BY SumTags
  <2>2. p[i] = s
    BY <1>11
  <2>3. Free({s}, y)
    BY <1>4
  <2>4. i # 1
    <3>1. Holds(p, 0, <<STX>>)
      BY <1>5 DEF Heads
    <3> HIDE DEF p
    <3>2. p[0 + 1] = STX
      BY <3>1, One
    <3>3. p[1] = STX
      BY <3>2
    <3> QED BY <2>1, <2>2, <3>3
  <2> HIDE DEF s, m, y, p, term
  <2>5. ~(i \in 2..m)
    <3>1. ASSUME i \in 2..m PROVE FALSE
      <4>1. i - 1 \in 1..l /\ 1 + (i - 1) = i
        <5> HIDE DEF l
        <5> QED BY <1>9, <3>1
      <4>2. p[1 + (i - 1)] = y[i - 1]
        BY <1>5, <4>1 DEF Holds
      <4>3. y[i - 1] # s
        BY <2>3, <4>1 DEF Free
      <4> QED BY <2>2, <4>1, <4>2, <4>3
    <3> QED BY <3>1
  <2>6. i # m + 2
    BY <1>10, <2>1, <2>2
  <2>7. ~(i \in (m + 3)..Len(p))
    <3>1. ASSUME i \in (m + 3)..Len(p) PROVE FALSE
      <4> DEFINE j == i - (m + 2)
      <4>1. j \in 1..t /\ (m + 2) + j = i
        <5> HIDE DEF t
        <5> QED BY <1>9, <3>1
      <4> HIDE DEF j
      <4>2. p[(m + 2) + j] = term[j]
        BY <1>5, <1>6, <4>1 DEF Holds
      <4>3. term[j] # s
        BY <1>8, <4>1 DEF s
      <4> QED BY <2>1, <2>2, <4>1, <4>2, <4>3
    <3> QED BY <3>1
  <2>8. i = m + 1
    <3> HIDE DEF t, l
    <3> QED BY <1>9, <2>4, <2>5, <2>6, <2>7
  <2>9. y = z
    BY <1>10, <2>1, <2>2, <2>8
  <2> QED BY <2>8, <2>9
<1>12. Seals(c, p, m, y)
  <2>1. IsSeq(y)
    BY <1>4
  <2>2. Holds(p, m + 2, Terminator(c)) /\ Len(p) = m + 2 + Len(Terminator(c)) /\ m >= 4
    <3>1. m >= 4
      <4> HIDE DEF l, m, t
      <4> QED BY <1>9
    <3> QED BY <1>5, <1>6, <1>9, <3>1
  <2> HIDE DEF m, y, p
  <2> QED BY <1>9, <1>10, <1>11, <2>1, <2>2 DEF Seals
<1> QED BY <1>2, <1>12

\* A binary frame, whatever it carries.
LEMMA SealedBinary ==
  ASSUME NEW c \in Configs, c.sum_check = TRUE, ~IsAscii(c),
         NEW p, NEW sender, NEW reply, Sent(c, p, sender, reply)
  PROVE  \E m, code, data :
           /\ IsSeq(data) /\ ToldBy(code, data) = reply
           /\ Seals(c, p, m, PayloadOf(Station(sender.station), code, data))
<1>1. sender \in Senders /\ reply \in Replies(c, sender) /\ p = Encode(c, sender, reply)
  BY DEF Sent
<1>2. Sendable(c, reply)
  BY SentFramed DEF Framed, Quiet
<1>3. PICK code, data :
        /\ IsSeq(data) /\ ToldBy(code, data) = reply
        /\ reply.data = IF code = Zero THEN data ELSE <<code>>
        /\ code = Zero \/ data = <<>>
        /\ p = BinaryFrame(c, PayloadOf(Station(sender.station), code, data))
  BY <1>1, <1>2, BinaryFrames
<1> DEFINE station == Station(sender.station)
           body == <<station, code>> \o data
           y == PayloadOf(station, code, data)
           s == Stuffed(y)
           n == Len(s)
           m == n + 4
           sums == << <<"sum1", y>>, <<"sum2", y>> >>
<1>4. IsSeq(y) /\ Len(y) >= 1
  <2>1. IsSeq(y) /\ Len(y) \in Nat /\ Len(y) >= 3
    BY <1>3, PayloadIs
  <2> HIDE DEF y
  <2> DEFINE l == Len(y)
  <2>2. l \in Nat /\ l >= 3
    BY <2>1
  <2> HIDE DEF l
  <2>3. l >= 1
    BY <2>2
  <2> QED BY <2>1, <2>3 DEF l
<1>5. p = BinaryFrame(c, y)
  BY <1>3
<1>6. ASSUME NEW z PROVE Free({<<"sum1", z>>}, s)
  <2> DEFINE B == {<<"sum1", z>>}
             count == CountOf(body)
             v == ValueOf(sender)
             e == <<"E">>
  <2>1. /\ \A byte \in Hex \cup {DLE} : byte \notin B
        /\ count \notin B
    BY SumTags DEF CountOf
  <2>2. station \in Hex /\ Zero \in Hex /\ v \in Hex /\ e \in Hex
    <3>1. station \in Hex
      BY <1>1, PrefixIs
    <3> QED BY <3>1 DEF Zero, Hex, ValueOf
  <2>3. reply.data \in {<<>>, <<e>>, <<DLE, v>>}
    <3>1. Data(c, sender) = Success(<<DLE, v>>)
      BY DEF Data
    <3> QED BY <1>1, <3>1, RepliesAre DEF Replies
  <2> HIDE DEF B, count, v, e, station
  <2>4. Free(B, reply.data)
    BY <2>1, <2>2, <2>3, FreeShort
  <2>5. code \notin B /\ Free(B, data)
    <3>1. CASE code = Zero
      BY <1>3, <2>1, <2>2, <2>4, <3>1
    <3>2. CASE code # Zero
      <4>1. reply.data = <<code>> /\ data = <<>>
        BY <1>3, <3>2
      <4>2. Len(<<code>>) = 1 /\ <<code>>[1] = code
        BY One
      <4>3. 1 \in 1..Len(reply.data) /\ reply.data[1] = code
        BY <4>1, <4>2
      <4> QED BY <2>4, <4>1, <4>3, FreeShort DEF Free
    <3> QED BY <3>1, <3>2
  <2>6. IsSeq(<<station, code>>) /\ Free(B, <<station, code>>)
    BY <2>1, <2>2, <2>5, FreeShort
  <2>7. IsSeq(body) /\ Free(B, body)
    BY <1>3, <2>5, <2>6, FreeJoined
  <2>8. y = <<count>> \o body
    BY DEF PayloadOf, count
  <2> HIDE DEF body, y
  <2>9. IsSeq(<<count>>) /\ Free(B, <<count>>)
    BY <2>1, FreeShort
  <2>10. Free(B, y)
    BY <2>7, <2>8, <2>9, FreeJoined
  <2>11. Free(B, Stuffed(y))
    BY <1>4, <2>1, <2>10, StuffedFree
  <2> QED BY <2>11 DEF B
<1> HIDE DEF y
<1>7. /\ IsSeq(s) /\ n \in Nat
      /\ IsSeq(p) /\ Len(p) = n + 4 + SumSize(c)
      /\ Holds(p, 0, <<DLE, STX>>) /\ Holds(p, 2, s)
      /\ Holds(p, 2 + n, <<DLE, ETX>>) /\ Holds(p, 4 + n, Checksum(c, y))
  <2>1. LET frame == BinaryFrame(c, y)
            k == Len(Stuffed(y))
        IN /\ IsSeq(Stuffed(y)) /\ k \in Nat
           /\ IsSeq(frame) /\ Len(frame) = k + 4 + SumSize(c) /\ SumSize(c) \in {0, 2}
           /\ Holds(frame, 0, <<DLE, STX>>) /\ Holds(frame, 2, Stuffed(y))
           /\ Holds(frame, 2 + k, <<DLE, ETX>>)
           /\ Holds(frame, 4 + k, Checksum(c, y))
    BY <1>4, BinaryFrameIs
  <2> QED BY <1>5, <2>1
<1>8. SumSize(c) = 2 /\ Checksum(c, y) = sums /\ Terminator(c) = <<>>
  BY DEF SumSize, Checksum, SumOf, Terminator, IsAscii
<1> HIDE DEF s
<1>9. /\ m \in Nat /\ m >= 4 /\ Len(p) = m + 2 /\ m = 4 + n /\ n \in Nat /\ 2 + n \in Nat
  <2> HIDE DEF n
  <2> QED BY <1>7, <1>8
<1>10. p[m + 1] = <<"sum1", y>> /\ p[m + 2] = <<"sum2", y>>
  <2> DEFINE a == <<"sum1", y>>
             b == <<"sum2", y>>
             t == <<a, b>>
  <2>1. Holds(p, m, t)
    <3>1. m = 4 + n
      BY <1>9
    <3> HIDE DEF m
    <3> QED BY <1>7, <1>8, <3>1
  <2> HIDE DEF a, b
  <2>2. Len(t) = 2 /\ t[1] = a /\ t[2] = b /\ 1 \in 1..2 /\ 2 \in 1..2
    BY Two
  <2> HIDE DEF t, m
  <2>3. p[m + 1] = t[1] /\ p[m + 2] = t[2]
    BY <2>1, <2>2 DEF Holds
  <2>4. p[m + 1] = a /\ p[m + 2] = b
    BY <2>2, <2>3
  <2> QED BY <2>4 DEF a, b
<1>11. ASSUME NEW i \in 1..Len(p), NEW z, p[i] = <<"sum1", z>> PROVE i = m + 1 /\ z = y
  <2> DEFINE tag == <<"sum1", z>>
  <2>1. /\ tag \notin {DLE, STX, ETX} /\ tag # <<"sum2", y>>
        /\ <<"sum1", y>> = tag => y = z
    BY SumTags
  <2>2. p[i] = tag
    BY <1>11
  <2>3. Free({tag}, s)
    BY <1>6
  <2> HIDE DEF tag
  <2>4. ASSUME NEW a, NEW b, NEW k \in Nat, Holds(p, k, <<a, b>>), tag # a, tag # b
        PROVE  i # k + 1 /\ i # k + 2
    <3> DEFINE t == <<a, b>>
    <3>1. Holds(p, k, t) /\ Len(t) = 2 /\ t[1] = a /\ t[2] = b /\ 1 \in 1..2 /\ 2 \in 1..2
      BY <2>4, Two
    <3> HIDE DEF t
    <3>2. p[k + 1] = a /\ p[k + 2] = b
      BY <3>1 DEF Holds
    <3> QED BY <2>2, <2>4, <3>2
  <2>5. i # 0 + 1 /\ i # 0 + 2
    BY <1>7, <2>1, <2>4
  <2>6. i # (2 + n) + 1 /\ i # (2 + n) + 2
    <3> HIDE DEF n
    <3> QED BY <1>7, <1>9, <2>1, <2>4
  <2>7. ~(i \in 3..(n + 2))
    <3>1. ASSUME i \in 3..(n + 2) PROVE FALSE
      <4>1. i - 2 \in 1..n /\ 2 + (i - 2) = i
        <5> HIDE DEF n
        <5> QED BY <1>9, <3>1
      <4>2. p[2 + (i - 2)] = s[i - 2]
        BY <1>7, <4>1 DEF Holds
      <4>3. s[i - 2] # tag
        BY <2>3, <4>1 DEF Free
      <4> QED BY <2>2, <4>1, <4>2, <4>3
    <3> QED BY <3>1
  <2>8. i # m + 2
    BY <1>10, <2>1, <2>2
  <2>9. i = m + 1
    <3>1. i \in 1..(n + 6) /\ i # 1 /\ i # 2 /\ i # n + 3 /\ i # n + 4 /\ i # n + 6
      <4> HIDE DEF n
      <4> QED BY <1>9, <2>5, <2>6, <2>8
    <3> HIDE DEF n
    <3> QED BY <1>9, <2>7, <3>1
  <2>10. y = z
    BY <1>10, <2>1, <2>2, <2>9
  <2> QED BY <2>9, <2>10
<1>12. Holds(p, m + 2, Terminator(c)) /\ Len(p) = m + 2 + Len(Terminator(c))
  <2>1. Len(<<>>) = 0 /\ IsSeq(<<>>)
    BY Tuples
  <2> HIDE DEF m
  <2>2. m + 2 \in Nat /\ m + 2 + 0 <= Len(p)
    BY <1>9
  <2>3. Holds(p, m + 2, <<>>)
    BY <1>7, <2>1, <2>2 DEF Holds
  <2> QED BY <1>8, <1>9, <2>1, <2>3
<1>13. Seals(c, p, m, y)
  <2> HIDE DEF m
  <2> QED BY <1>7, <1>9, <1>10, <1>11, <1>12 DEF Seals
<1> HIDE DEF m
<1> QED BY <1>3, <1>13 DEF y

\* A frame without data has no checksum.
LEMMA Unsummed ==
  ASSUME NEW c \in Configs, IsAscii(c), NEW sender \in Senders,
         NEW reply \in {Success(<<>>), PlcError(<<"E">>)}, NEW z
  PROVE  Free({<<"sum1", z>>}, Encode(c, sender, reply))
<1> DEFINE B == {<<"sum1", z>>}
           head == Prefix(c, sender)
           term == Terminator(c)
           e == <<"E">>
<1>1. \A byte \in Hex \cup {STX, ETX, ACK, NAK, SuccessEndCode, ErrorEndCode, <<"CR">>, <<"LF">>} :
        byte \notin B
  BY SumTags
<1>2. e \notin B /\ STX \notin B /\ ETX \notin B /\ ACK \notin B /\ NAK \notin B
      /\ SuccessEndCode \notin B /\ ErrorEndCode \notin B
  BY <1>1 DEF Hex
<1>3. Encode(c, sender, reply) = EncodeAscii(c, sender, reply)
  BY DEF Encode
<1> HIDE DEF B, e
<1>4. IsSeq(head) /\ Free(B, head) /\ IsSeq(term) /\ Free(B, term)
  <2>1. \A byte \in Hex \cup {<<"CR">>, <<"LF">>} : byte \notin B
    BY <1>1
  <2> QED BY <2>1, HeadAndTailFree
<1>5. \A byte : byte \notin B => Free(B, <<byte>>) /\ IsSeq(<<byte>>)
  BY FreeShort
<1> HIDE DEF head, term
<1>6. CASE IsEnqFamily(c) /\ reply = Success(<<>>)
  <2> DEFINE s == <<ACK>> \o head
             t == s \o term
  <2>1. IsSeq(s) /\ Free(B, s)
    BY <1>2, <1>4, <1>5, FreeJoined
  <2> HIDE DEF s
  <2>2. Free(B, t)
    BY <1>4, <2>1, FreeJoined
  <2>3. EncodeAscii(c, sender, reply) = t
    <3>1. EncodeAscii(c, sender, Success(<<>>)) = AckFrame(c, sender)
      BY <1>6, EnqFrames
    <3> QED BY <1>6, <3>1 DEF AckFrame, t, s, head, term
  <2> QED BY <1>3, <2>2, <2>3 DEF B
<1>7. CASE IsEnqFamily(c) /\ reply = PlcError(e)
  <2> DEFINE s == <<NAK>> \o head
             t == s \o <<ErrorEndCode>>
             u == t \o <<e>>
             v == u \o term
  <2>1. IsSeq(s) /\ Free(B, s)
    BY <1>2, <1>4, <1>5, FreeJoined
  <2> HIDE DEF s
  <2>2. IsSeq(t) /\ Free(B, t)
    BY <1>2, <1>5, <2>1, FreeJoined
  <2> HIDE DEF t
  <2>3. IsSeq(u) /\ Free(B, u)
    BY <1>2, <1>5, <2>2, FreeJoined
  <2> HIDE DEF u
  <2>4. Free(B, v)
    BY <1>4, <2>3, FreeJoined
  <2>5. EncodeAscii(c, sender, reply) = v
    <3>1. EncodeAscii(c, sender, PlcError(e)) = NakFrame(c, sender, e)
      BY <1>7, EnqFrames
    <3> QED BY <1>7, <3>1 DEF NakFrame, v, u, t, s, head, term
  <2> QED BY <1>3, <2>4, <2>5 DEF B
<1>8. ASSUME ~IsEnqFamily(c), NEW content, IsSeq(content), Free(B, content), NEW sum, ~sum,
             EncodeAscii(c, sender, reply) = StxFrame(c, sender, content, sum)
      PROVE  Free(B, EncodeAscii(c, sender, reply))
  <2> DEFINE s == head \o content
             t == s \o <<ETX>>
             u == <<STX>> \o t
             sums == IF sum THEN Checksum(c, Covered(c, sender, content)) ELSE <<>>
             v == u \o sums
             w == v \o term
  <2>1. IsSeq(s) /\ Free(B, s)
    BY <1>4, <1>8, FreeJoined
  <2>2. Covered(c, sender, content) = t
    BY DEF Covered, head
  <2> HIDE DEF s
  <2>3. IsSeq(t) /\ Free(B, t)
    BY <1>2, <1>5, <2>1, FreeJoined
  <2> HIDE DEF t
  <2>4. IsSeq(u) /\ Free(B, u)
    BY <1>2, <1>5, <2>3, FreeJoined
  <2>5. sums = <<>>
    BY <1>8
  <2>6. StxFrame(c, sender, content, sum) = w
    BY <2>2 DEF StxFrame, term
  <2> HIDE DEF u, sums
  <2>7. IsSeq(sums) /\ Free(B, sums)
    BY <2>5, FreeShort
  <2>8. IsSeq(v) /\ Free(B, v)
    BY <2>4, <2>7, FreeJoined
  <2> HIDE DEF v
  <2>9. Free(B, w)
    BY <1>4, <2>8, FreeJoined
  <2> QED BY <1>8, <2>6, <2>9
<1>9. CASE ~IsEnqFamily(c) /\ reply = Success(<<>>)
  <2> DEFINE content == <<SuccessEndCode>> \o <<>>
             sum == <<>> # <<>>
  <2>1. EncodeAscii(c, sender, Success(<<>>)) = StxFrame(c, sender, content, sum)
    BY <1>9, FreeShort, Format3Frames
  <2>2. IsSeq(content) /\ Free(B, content)
    BY <1>2, <1>5, FreeShort, FreeJoined
  <2>3. ~sum
    OBVIOUS
  <2> HIDE DEF content, sum
  <2>4. Free(B, EncodeAscii(c, sender, reply))
    BY <1>8, <1>9, <2>1, <2>2, <2>3
  <2> QED BY <1>3, <2>4 DEF B
<1>10. CASE ~IsEnqFamily(c) /\ reply = PlcError(e)
  <2> DEFINE content == <<ErrorEndCode>> \o <<e>>
             sum == <<>> # <<>>
  <2>1. EncodeAscii(c, sender, PlcError(e)) = StxFrame(c, sender, content, FALSE)
    BY <1>10, Format3Frames
  <2>2. IsSeq(content) /\ Free(B, content)
    BY <1>2, <1>5, FreeJoined
  <2>3. ~sum
    OBVIOUS
  <2>4. StxFrame(c, sender, content, FALSE) = StxFrame(c, sender, content, sum)
    BY DEF StxFrame
  <2> HIDE DEF content, sum
  <2>5. Free(B, EncodeAscii(c, sender, reply))
    BY <1>8, <1>10, <2>1, <2>2, <2>3, <2>4
  <2> QED BY <1>3, <2>5 DEF B
<1> QED BY <1>6, <1>7, <1>9, <1>10 DEF e

Senseless(p) == \A i \in 1..Len(p) : \A z : p[i] # <<"sum1", z>>

\* A frame has one checksum at most.
LEMMA SentSums ==
  ASSUME NEW c \in Configs, c.sum_check = TRUE, NEW p, NEW sender, NEW reply,
         Sent(c, p, sender, reply)
  PROVE  Senseless(p) \/ \E m, y : Seals(c, p, m, y)
<1>1. sender \in Senders /\ reply \in Replies(c, sender) /\ p = Encode(c, sender, reply)
  BY DEF Sent
<1>2. CASE IsAscii(c) /\ reply = Data(c, sender)
  <2>1. p = DataFrame(c, sender)
    BY <1>1, <1>2 DEF DataFrame
  <2> QED BY <1>1, <1>2, <2>1, SealedData
<1>3. CASE IsAscii(c) /\ reply # Data(c, sender)
  <2>1. reply \in {Success(<<>>), PlcError(<<"E">>)}
    BY <1>1, <1>3 DEF Replies
  <2>2. ASSUME NEW i \in 1..Len(p), NEW z PROVE p[i] # <<"sum1", z>>
    <3>1. Free({<<"sum1", z>>}, p)
      BY <1>1, <1>3, <2>1, Unsummed
    <3> QED BY <3>1 DEF Free
  <2> QED BY <2>2 DEF Senseless
<1>4. CASE ~IsAscii(c)
  BY <1>4, SealedBinary
<1> QED BY <1>2, <1>3, <1>4

\* Every frame with data has one.
LEMMA DataSums ==
  ASSUME NEW c \in Configs, c.sum_check = TRUE, NEW sender \in Senders
  PROVE  \E m, y : Seals(c, DataFrame(c, sender), m, y)
<1>1. CASE IsAscii(c)
  BY <1>1, SealedData
<1>2. CASE ~IsAscii(c)
  <2>1. Sent(c, DataFrame(c, sender), sender, Data(c, sender))
    BY DEF Sent, Replies, DataFrame
  <2> QED BY <1>2, <2>1, SealedBinary
<1> QED BY <1>1, <1>2

\* The pieces of a line: whole frames for others, damaged ones, noise and start bytes,
\* and the last is the answer.
Disturbed(c, bytes, n, at, piece, reply) ==
  /\ Solid(bytes, n, at, piece)
  /\ \A k \in 1..(n - 1) : \/ piece[k] = <<Junk>>
                           \/ Stub(c, piece[k])
                           \/ \E sender, said : /\ ForeignTo(c, sender)
                                               /\ Sent(c, piece[k], sender, said)
                           \/ Harmed(c, piece[k])
  /\ Sent(c, piece[n], Ours, reply)

\* The frame a piece is, and whose.
SentAt(c, n, piece, reply, k, sender, said) ==
  /\ Sent(c, piece[k], sender, said)
  /\ \/ k = n /\ sender = Ours /\ said = reply
     \/ k < n /\ ForeignTo(c, sender)

LEMMA DisturbedKinds ==
  ASSUME NEW c \in Configs, NEW bytes, NEW n, NEW at, NEW piece, NEW reply,
         Disturbed(c, bytes, n, at, piece, reply), NEW k \in 1..n
  PROVE  \/ k < n /\ piece[k] = <<Junk>>
         \/ k < n /\ Stub(c, piece[k])
         \/ \E sender, said : SentAt(c, n, piece, reply, k, sender, said)
         \/ k < n /\ Harmed(c, piece[k])
<1>1. n \in Nat
  BY DEF Disturbed, Solid
<1>2. CASE k = n
  <2>1. Sent(c, piece[k], Ours, reply)
    BY <1>2 DEF Disturbed
  <2>2. SentAt(c, n, piece, reply, k, Ours, reply)
    BY <1>2, <2>1 DEF SentAt
  <2> QED BY <2>2
<1>3. CASE k # n
  <2>1. k \in 1..(n - 1) /\ k < n
    BY <1>1, <1>3
  <2> QED BY <2>1 DEF Disturbed, SentAt
<1> QED BY <1>2, <1>3

\* The checksum of y is at position p, with its end.
SumAt(c, bytes, p, y) ==
  /\ bytes[p] = <<"sum1", y>> /\ bytes[p + 1] = <<"sum2", y>>
  /\ Holds(bytes, p + 1, Terminator(c))

\* A damaged frame has no checksum that is whole.
LEMMA HarmedSums ==
  ASSUME NEW c \in Configs, c.sum_check = TRUE, NEW f, Harmed(c, f),
         NEW bytes, NEW a, Holds(bytes, a, f), NEW i \in 1..Len(f), NEW y,
         SumAt(c, bytes, a + i, y)
  PROVE  FALSE
<1>1. PICK sender \in Senders : f = Cut(DataFrame(c, sender)) \/ f = Damaged(DataFrame(c, sender))
  BY DEF Harmed
<1> DEFINE frame == DataFrame(c, sender)
<1>2. PICK m, z : Seals(c, frame, m, z)
  BY DataSums
<1> DEFINE t == Len(Terminator(c))
           l == Len(frame)
<1>3. IsSeq(frame) /\ m \in Nat /\ m >= 4 /\ l = m + 2 + t
  BY <1>2 DEF Seals
<1>4. \A j \in 1..l : \A x : frame[j] = <<"sum1", x>> => j = m + 1 /\ x = z
  BY <1>2 DEF Seals
<1> HIDE DEF frame
<1>5. t \in {0, 2} /\ (t = 0 => Terminator(c) = <<>>)
      /\ (t = 2 => Terminator(c) = CRLF)
  BY TailsAre DEF Terminator, CRLF
<1> HIDE DEF t, l
<1>6. Holds(bytes, a, f) /\ a \in Nat /\ Len(bytes) \in Nat /\ bytes[a + i] = f[i]
      /\ f[i] = <<"sum1", y>>
  <2>1. Holds(bytes, a, f) /\ a \in Nat /\ Len(bytes) \in Nat /\ bytes[a + i] = f[i]
    BY DEF Holds, IsSeq
  <2>2. bytes[a + i] = <<"sum1", y>>
    BY DEF SumAt
  <2> QED BY <2>1, <2>2
<1>7. CASE f = Cut(frame)
  <2> DEFINE h == l \div 2
  <2>1. h \in Nat /\ h <= m /\ h <= l /\ 1 <= h + 1
    BY <1>3, <1>5
  <2>2. f = SubSeq(frame, 1, h)
    BY <1>7 DEF Cut, l
  <2> HIDE DEF h
  <2>3. Len(f) = h /\ \A j \in 1..h : f[j] = frame[j]
    <3>1. 1 \in Nat \ {0} /\ h <= Len(frame)
      BY <2>1 DEF l
    <3>2. Len(f) = h - 1 + 1 /\ \A j \in 1..(h - 1 + 1) : f[j] = frame[1 - 1 + j]
      BY <1>3, <2>1, <2>2, <3>1, Part
    <3>3. h - 1 + 1 = h /\ \A j \in 1..h : 1 - 1 + j = j
      BY <2>1
    <3> QED BY <3>2, <3>3
  <2>4. i \in 1..l /\ i # m + 1 /\ frame[i] = f[i]
    BY <1>3, <2>1, <2>3
  <2> QED BY <1>4, <1>6, <2>4
<1>8. CASE f = Damaged(frame)
  <2>1. IsSeq(f) /\ Len(f) = l /\ f[l] = Junk /\ \A j \in 1..l : j # l => f[j] = frame[j]
    <3>1. PICK S : frame \in Seq(S)
      BY <1>3 DEF IsSeq
    <3>2. frame \in [1..l -> S] /\ l \in Nat /\ l \in 1..l
      BY <1>3, <1>5, <3>1 DEF l
    <3>3. f = [frame EXCEPT ![l] = Junk]
      BY <1>8 DEF Damaged, l
    <3>4. IsSeq(f)
      BY <1>3, <1>8, HalfIsSeq
    <3>5. DOMAIN f = 1..l /\ f[l] = Junk /\ \A j \in 1..l : j # l => f[j] = frame[j]
      BY <3>2, <3>3
    <3>6. Len(f) = l
      <4>1. Len(f) \in Nat /\ DOMAIN f = 1..Len(f)
        BY <3>4 DEF IsSeq
      <4> QED BY <3>2, <3>5, <4>1
    <3> QED BY <3>4, <3>5, <3>6
  <2>2. i \in 1..l /\ l \in 1..l
    BY <1>3, <1>5, <2>1
  <2>3. i # l
    <3>1. Junk # <<"sum1", y>>
      BY SumTags
    <3> QED BY <1>6, <2>1, <3>1
  <2>4. i = m + 1
    BY <1>4, <1>6, <2>1, <2>2, <2>3
  <2>5. bytes[a + l] = Junk
    BY <1>6, <2>1, <2>2 DEF Holds
  <2>6. CASE t = 0
    <3>1. (a + i) + 1 = a + l
      BY <1>3, <1>6, <2>4, <2>6
    <3>2. bytes[a + l] = <<"sum2", y>>
      BY <3>1 DEF SumAt
    <3> QED BY <2>5, <3>2, SumTags
  <2>7. CASE t = 2
    <3>1. ((a + i) + 1) + 2 = a + l
      BY <1>3, <1>6, <2>4, <2>7
    <3>2. Holds(bytes, (a + i) + 1, CRLF)
      BY <1>5, <2>7 DEF SumAt
    <3>3. Len(CRLF) = 2 /\ CRLF[2] = <<"LF">>
      <4> DEFINE x == <<"CR">>
                 w == <<"LF">>
      <4>1. CRLF = <<x, w>>
        BY DEF CRLF
      <4> HIDE DEF x, w
      <4>2. Len(CRLF) = 2 /\ CRLF[2] = w
        BY <4>1, Two
      <4> QED BY <4>2 DEF w
    <3>4. bytes[((a + i) + 1) + 2] = <<"LF">>
      BY <3>2, <3>3 DEF Holds
    <3> QED BY <2>5, <3>1, <3>4 DEF Junk
  <2> QED BY <1>5, <2>6, <2>7
<1> QED BY <1>1, <1>7, <1>8 DEF frame

\* Position p is that of the checksum of y in a piece.
SealsAt(c, at, f, k, m, y, p) == Seals(c, f, m, y) /\ p = at[k] + (m + 1)

\* A checksum on the line is that of a whole frame, and at its end.
LEMMA SumFound ==
  ASSUME NEW c \in Configs, c.sum_check = TRUE, NEW bytes, NEW n, NEW at, NEW piece, NEW reply,
         Disturbed(c, bytes, n, at, piece, reply), NEW p \in 1..Len(bytes), NEW y,
         SumAt(c, bytes, p, y)
  PROVE  \E k \in 1..n : \E sender, said, m :
           /\ SentAt(c, n, piece, reply, k, sender, said)
           /\ SealsAt(c, at, piece[k], k, m, y, p)
<1>1. Solid(bytes, n, at, piece)
  BY DEF Disturbed
<1>2. PICK k \in 1..n : at[k] < p /\ p <= at[k + 1]
  BY <1>1, LaidLocated
<1> DEFINE f == piece[k]
           a == at[k]
           l == Len(f)
           i == p - a
<1>3. /\ a \in Nat /\ at[k + 1] = a + l /\ Holds(bytes, a, f) /\ l \in Nat
      /\ IsSeq(bytes) /\ Len(bytes) \in Nat
  BY <1>1 DEF Solid, Laid, IsSeq
<1>4. i \in 1..l /\ a + i = p
  <2>1. a < p /\ p <= a + l /\ p \in Nat
    BY <1>2, <1>3
  <2> HIDE DEF a, l
  <2> QED BY <1>3, <2>1
<1>5. f[i] = <<"sum1", y>>
  BY <1>3, <1>4 DEF Holds, SumAt
<1> HIDE DEF f, a, l, i
<1>6. CASE f = <<Junk>>
  <2>1. l = 1 /\ f[1] = Junk
    BY <1>6, One DEF l
  <2>2. i = 1
    BY <1>4, <2>1
  <2> QED BY <1>5, <2>1, <2>2, SumTags
<1>7. CASE Stub(c, f)
  <2>1. l \in {1, 2} /\ IsStart(c, f[1]) /\ (l = 2 => f[2] = Junk)
    BY <1>7 DEF Stub, l
  <2>2. f[1] \in {STX, ACK, NAK, DLE}
    BY <2>1 DEF IsStart
  <2>3. f[i] \in {STX, ACK, NAK, DLE, Junk}
    BY <1>4, <2>1, <2>2
  <2> QED BY <1>5, <2>3, SumTags
<1>8. CASE Harmed(c, f)
  <2>1. SumAt(c, bytes, a + i, y)
    BY <1>4
  <2>2. i \in 1..Len(f)
    BY <1>4 DEF l
  <2> QED BY <1>3, <1>8, <2>1, <2>2, HarmedSums
<1>9. ASSUME NEW sender, NEW said, SentAt(c, n, piece, reply, k, sender, said)
      PROVE  \E m : Seals(c, f, m, y) /\ p = a + (m + 1)
  <2>1. Sent(c, f, sender, said)
    BY <1>9 DEF SentAt, f
  <2>2. ~Senseless(f)
    BY <1>4, <1>5 DEF Senseless, l
  <2>3. PICK m, z : Seals(c, f, m, z)
    BY <2>1, <2>2, SentSums
  <2>4. i = m + 1 /\ y = z
    BY <1>4, <1>5, <2>3 DEF Seals, l
  <2> QED BY <1>4, <2>3, <2>4
<1>10. \/ f = <<Junk>> \/ Stub(c, f) \/ Harmed(c, f)
       \/ \E sender, said : SentAt(c, n, piece, reply, k, sender, said)
  BY DisturbedKinds DEF f
<1>11. CASE \E sender, said : SentAt(c, n, piece, reply, k, sender, said)
  <2>1. PICK sender, said : SentAt(c, n, piece, reply, k, sender, said)
    BY <1>11
  <2>2. PICK m : Seals(c, f, m, y) /\ p = a + (m + 1)
    BY <1>9, <2>1
  <2>3. SealsAt(c, at, f, k, m, y, p)
    BY <2>2 DEF SealsAt, a
  <2> QED BY <2>1, <2>3 DEF f
<1> QED BY <1>6, <1>7, <1>8, <1>10, <1>11

\* What is decoded at an offset of the line is accepted only if it is the answer, and all
\* of it.
AcceptedIsAnswer(c, bytes, a, d, reply) ==
  LET decoded == Decode(c, View(bytes, a, d))
  IN decoded.status = "Complete" /\ ~decoded.foreign
       => decoded.reply = reply /\ d = Len(bytes)

\* Of a frame of the line.
LEMMA AcceptedAtFrame ==
  ASSUME NEW c \in Configs, NEW bytes, NEW n, NEW at, NEW piece, NEW reply,
         Disturbed(c, bytes, n, at, piece, reply), NEW k \in 1..n, NEW sender, NEW said,
         SentAt(c, n, piece, reply, k, sender, said),
         NEW d \in 1..Len(bytes), at[k] < d
  PROVE  AcceptedIsAnswer(c, bytes, at[k], d, reply)
<1> DEFINE f == piece[k]
           a == at[k]
           l == Len(f)
           size == Len(bytes)
           w == View(bytes, a, d)
<1>1. /\ a \in Nat /\ at[k + 1] = a + l /\ Holds(bytes, a, f) /\ l \in Nat
      /\ IsSeq(bytes) /\ size \in Nat /\ n \in Nat /\ at[n + 1] = size
  BY DEF Disturbed, Solid, Laid, IsSeq
<1>2. Framed(c, f, sender, said)
  BY SentFramed DEF SentAt
<1>3. CASE d < a + l
  <2>1. Decode(c, w).status = "Incomplete"
    BY <1>1, <1>2, <1>3, PartAt
  <2> QED BY <2>1 DEF AcceptedIsAnswer
<1>4. CASE a + l <= d
  <2>1. Decode(c, w).reply = said /\ (Decode(c, w).foreign <=> ForeignTo(c, sender))
    BY <1>1, <1>2, <1>4, WholeAt
  <2> HIDE DEF w, a, l, f, size
  <2>2. CASE k = n
    <3>1. a + l = size
      BY <1>1, <2>2
    <3>2. d = size
      BY <1>1, <1>4, <3>1 DEF size
    <3>3. said = reply
      BY <1>1, <2>2 DEF SentAt
    <3> QED BY <2>1, <3>2, <3>3 DEF AcceptedIsAnswer, w, a, size
  <2>3. CASE k # n
    <3>1. ForeignTo(c, sender)
      BY <2>3 DEF SentAt
    <3> QED BY <2>1, <3>1 DEF AcceptedIsAnswer, w, a
  <2> QED BY <2>2, <2>3
<1>5. a + l \in Nat /\ d \in Nat
  <2> HIDE DEF a, l
  <2> QED BY <1>1
<1> HIDE DEF a, l
<1> QED BY <1>3, <1>4, <1>5 DEF a

\* Sum characters in what is looked at are on the line.
LEMMA SumSeen ==
  ASSUME NEW c \in Configs, NEW bytes, IsSeq(bytes), NEW a \in Nat, NEW d \in Nat,
         a <= d, d <= Len(bytes), NEW e \in Nat \ {0}, NEW y,
         LET w == View(bytes, a, d)
         IN /\ e + 2 + Len(Terminator(c)) <= Len(w)
            /\ SubSeq(w, e + 1, e + 2) = SumOf(y)
            /\ SubSeq(w, e + 2 + 1, e + 2 + Len(Terminator(c))) = Terminator(c)
  PROVE  SumAt(c, bytes, a + (e + 1), y) /\ a + (e + 1) \in 1..Len(bytes)
<1> DEFINE w == View(bytes, a, d)
           size == Len(bytes)
           l == d - a
           term == Terminator(c)
           t == Len(term)
           b == a + (e + 1)
           s1 == <<"sum1", y>>
           s2 == <<"sum2", y>>
<1>1. IsSeq(w) /\ Len(w) = l /\ \A i \in 1..l : w[i] = bytes[a + i]
  BY ViewIs
<1>2. size \in Nat /\ t \in Nat /\ IsSeq(term) /\ d <= size /\ l \in Nat /\ a + l = d
  <2>1. IsSeq(term) /\ t \in Nat
    BY TailsAre DEF IsSeq
  <2>2. size \in Nat
    BY DEF IsSeq
  <2> QED BY <2>1, <2>2
<1>3. e + 2 + t <= l
  BY <1>1
<1>4. /\ SubSeq(w, e + 1, e + 2) = <<s1, s2>>
      /\ SubSeq(w, e + 2 + 1, e + 2 + t) = term
  BY DEF SumOf
<1> HIDE DEF w, size, t, term, l, s1, s2
<1>5. w[e + 1] = s1 /\ w[e + 2] = s2
  <2>1. e + 1 \in Nat \ {0} /\ e + 2 \in Nat /\ e + 2 <= Len(w) /\ e + 1 <= e + 2 + 1
    BY <1>1, <1>2, <1>3
  <2> DEFINE g == SubSeq(w, e + 1, e + 2)
             lo == e + 1
             hi == e + 2
  <2>2. Len(SubSeq(w, lo, hi)) = hi - lo + 1
        /\ \A i \in 1..(hi - lo + 1) : SubSeq(w, lo, hi)[i] = w[lo - 1 + i]
    <3> HIDE DEF lo, hi
    <3>1. lo \in Nat \ {0} /\ hi \in Nat /\ hi <= Len(w) /\ lo <= hi + 1
      BY <2>1 DEF lo, hi
    <3> QED BY <1>1, <3>1, Part
  <2>3. hi - lo + 1 = 2 /\ lo - 1 + 1 = e + 1 /\ lo - 1 + 2 = e + 2
    OBVIOUS
  <2>4. g[1] = w[e + 1] /\ g[2] = w[e + 2]
    BY <2>2, <2>3
  <2> HIDE DEF g
  <2>5. g = <<s1, s2>>
    BY <1>4 DEF g
  <2>6. g[1] = s1 /\ g[2] = s2
    BY <2>5, Two
  <2> QED BY <2>4, <2>6
<1>6. e + 1 \in 1..l /\ e + 2 \in 1..l /\ a + (e + 2) = b + 1 /\ b \in 1..size
  BY <1>2, <1>3
<1>7. bytes[b] = s1 /\ bytes[b + 1] = s2
  BY <1>1, <1>5, <1>6
<1>8. Holds(bytes, b + 1, term)
  <2>1. b + 1 \in Nat /\ (b + 1) + t <= size
    BY <1>2, <1>3
  <2>2. ASSUME NEW i \in 1..t PROVE bytes[(b + 1) + i] = term[i]
    <3> DEFINE h == e + 2
               k == h + t
               v == SubSeq(w, h + 1, k)
    <3>1. h \in Nat /\ h + 1 \in Nat \ {0} /\ k \in Nat /\ k <= Len(w) /\ h + 1 <= k + 1
          /\ k - (h + 1) + 1 = t /\ (h + 1) - 1 + i = h + i /\ h + i \in 1..l
          /\ a + (h + i) = (b + 1) + i
      BY <1>1, <1>2, <1>3
    <3>2. v = term
      BY <1>4
    <3> HIDE DEF h, k
    <3>3. \A j \in 1..(k - (h + 1) + 1) : v[j] = w[(h + 1) - 1 + j]
      BY <1>1, <3>1, Part
    <3>4. v[i] = w[h + i]
      BY <3>1, <3>3
    <3>5. w[h + i] = bytes[(b + 1) + i]
      BY <1>1, <3>1
    <3> QED BY <3>2, <3>4, <3>5
  <2> QED BY <1>2, <2>1, <2>2 DEF Holds, t, size
<1> HIDE DEF b
<1>9. SumAt(c, bytes, b, y)
  BY <1>7, <1>8 DEF SumAt, s1, s2, term
<1> QED BY <1>6, <1>9 DEF b, size

LEMMA AcceptedBinary ==
  ASSUME NEW c \in Configs, c.sum_check = TRUE, ~IsAscii(c),
         NEW bytes, NEW n, NEW at, NEW piece, NEW reply, Disturbed(c, bytes, n, at, piece, reply),
         NEW a \in Nat, NEW d \in 1..Len(bytes), a < d
  PROVE  AcceptedIsAnswer(c, bytes, a, d, reply)
<1> DEFINE w == View(bytes, a, d)
           decoded == Decode(c, w)
<1> SUFFICES ASSUME decoded.status = "Complete", ~decoded.foreign
             PROVE  decoded.reply = reply /\ d = Len(bytes)
  BY DEF AcceptedIsAnswer
<1> DEFINE text == Text(w)
           e == text.size
           y == text.payload
           l == Len(w)
           size == Len(bytes)
<1>1. IsSeq(bytes) /\ n \in Nat /\ size \in Nat /\ at[n + 1] = size
  BY DEF Disturbed, Solid, Laid, IsSeq
<1>2. IsSeq(w) /\ l = d - a /\ d <= size /\ d \in Nat
  <2>1. d \in Nat /\ d <= Len(bytes) /\ a <= d
    BY <1>1
  <2>2. IsSeq(View(bytes, a, d)) /\ Len(View(bytes, a, d)) = d - a
    BY <1>1, <2>1, ViewIs
  <2> QED BY <2>1, <2>2
<1>3. decoded = DecodeFormat5(c, w)
  BY DEF Decode
<1>4. Incomplete.status = "Incomplete" /\ \A i : Malformed(i).status = "Error"
  BY IncompleteHas, MalformedHas DEF Has
<1>5. SumSize(c) = 2 /\ Checksum(c, y) = SumOf(y) /\ Terminator(c) = <<>>
      /\ ~UsesBlockNumber(c)
  BY DEF SumSize, Checksum, Terminator, IsAscii, UsesBlockNumber
<1>6. l >= 4 /\ decoded = DecodeText(c, w, text, e + 2)
  <2>1. l \in Nat
    BY <1>2 DEF IsSeq
  <2> HIDE DEF decoded, w
  <2>2. ~(Len(w) < 4) /\ w[2] = STX
    BY <1>3, <1>4 DEF DecodeFormat5
  <2> QED BY <1>3, <1>5, <2>1, <2>2 DEF DecodeFormat5
<1>7. e \in 2..l
  <2>1. PICK S : w \in Seq(S)
    BY <1>2 DEF IsSeq
  <2> HIDE DEF w
  <2>2. Text(w) \in Texts(S, Len(w))
    BY <1>6, <2>1, TextType
  <2> QED BY <2>2 DEF Texts
<1> HIDE DEF decoded, w, text, l, size
<1>8. /\ ~(l < e + 2) /\ SubSeq(w, e + 1, e + 2) = SumOf(y)
      /\ decoded = PayloadReply(y, e + 2)
  BY <1>4, <1>5, <1>6 DEF DecodeText, l
<1> HIDE DEF e, y
<1>9. e \in Nat \ {0} /\ l \in Nat /\ e + 2 <= l /\ a <= d
  BY <1>2, <1>7, <1>8
<1>10. SubSeq(w, e + 2 + 1, e + 2 + Len(Terminator(c))) = Terminator(c)
       /\ e + 2 + Len(Terminator(c)) <= l
  <2> DEFINE lo == e + 2 + 1
             hi == e + 2
             v == SubSeq(w, lo, hi)
  <2>1. Len(Terminator(c)) = 0
    BY <1>5
  <2>2. hi + 0 = hi /\ hi - lo + 1 = 0 /\ lo \in Nat \ {0} /\ hi \in Nat /\ hi <= l /\ lo <= hi + 1
    BY <1>9
  <2> HIDE DEF lo, hi
  <2>3. IsSeq(v) /\ Len(v) = 0
    BY <1>2, <2>2, Part DEF l
  <2>4. v = <<>>
    <3>1. PICK S : v \in Seq(S)
      BY <2>3 DEF IsSeq
    <3> QED BY <2>3, <3>1, EmptySeq
  <2>5. e + 2 + Len(Terminator(c)) = hi
    BY <2>1, <2>2 DEF hi
  <2> QED BY <1>5, <2>2, <2>4, <2>5 DEF lo, hi
<1> DEFINE b == a + (e + 1)
<1>11. SumAt(c, bytes, b, y) /\ b \in 1..size
  BY <1>1, <1>2, <1>8, <1>9, <1>10, SumSeen DEF w, l, size
<1> HIDE DEF b
<1>11a. PICK k \in 1..n : \E sender, said, m :
         /\ SentAt(c, n, piece, reply, k, sender, said)
         /\ SealsAt(c, at, piece[k], k, m, y, b)
  BY <1>11, SumFound DEF size
<1>12. PICK sender, said, m :
         /\ SentAt(c, n, piece, reply, k, sender, said)
         /\ SealsAt(c, at, piece[k], k, m, y, b)
  BY <1>11a
<1>12a. Seals(c, piece[k], m, y) /\ b = at[k] + (m + 1)
  BY <1>12 DEF SealsAt
<1> DEFINE f == piece[k]
           st == sender.station
<1>13. Sent(c, f, sender, said) /\ st \in BOOLEAN
  BY <1>12 DEF SentAt, Sent, Senders
<1>14. PICK x, code, data :
         /\ IsSeq(data) /\ ToldBy(code, data) = said
         /\ Seals(c, f, x, PayloadOf(Station(st), code, data))
  BY <1>13, SealedBinary
<1>15. y = PayloadOf(Station(st), code, data)
  <2> DEFINE z == PayloadOf(Station(st), code, data)
  <2>1. Seals(c, f, x, z)
    BY <1>14
  <2> HIDE DEF z, f
  <2>2. x + 1 \in 1..Len(f) /\ f[x + 1] = <<"sum1", z>>
    <3>1. Len(f) = x + 2 + Len(Terminator(c)) /\ x \in Nat /\ Len(Terminator(c)) = 0
      BY <1>5, <2>1 DEF Seals
    <3> QED BY <2>1, <3>1 DEF Seals
  <2>3. Seals(c, f, m, y)
    BY <1>12a DEF f
  <2>4. z = y
    BY <2>2, <2>3 DEF Seals
  <2> QED BY <2>4 DEF z
<1> HIDE DEF f
<1>16. decoded.reply = said /\ (decoded.foreign <=> ~st)
  <2>1. decoded = PayloadReply(PayloadOf(Station(st), code, data), e + 2)
    BY <1>8, <1>15
  <2> HIDE DEF st
  <2> QED BY <1>13, <1>14, <2>1, PayloadReplyIs
<1>17. ~ForeignTo(c, sender)
  BY <1>5, <1>16 DEF ForeignTo
<1>18. k = n /\ said = reply
  BY <1>12, <1>17 DEF SentAt
<1>19. d = size
  <2> DEFINE q == Len(f)
             s == at[k]
  <2>1. q = m + 2 + 0 /\ m \in Nat
    <3>1. Len(Terminator(c)) = 0
      BY <1>5
    <3> QED BY <1>12a, <3>1 DEF Seals, f
  <2>2. s \in Nat /\ at[k + 1] = s + q
    BY DEF Disturbed, Solid, Laid, f
  <2>3. size = s + q /\ b = s + (m + 1)
    BY <1>1, <1>12a, <1>18, <2>2
  <2> HIDE DEF q, s
  <2> QED BY <1>2, <1>9, <2>1, <2>2, <2>3 DEF b
<1> QED BY <1>16, <1>18, <1>19 DEF size

\* A damaged frame is a frame but for its end.
LEMMA HarmedBytes ==
  ASSUME NEW c \in Configs, c.sum_check = TRUE, NEW f, Harmed(c, f)
  PROVE  \E sender \in Senders :
           LET frame == DataFrame(c, sender)
           IN /\ IsSeq(f) /\ Len(f) \in Nat /\ Len(f) >= 3
              /\ IsSeq(frame) /\ Len(frame) \in Nat /\ Len(frame) >= 6 /\ Len(f) <= Len(frame)
              /\ \A i \in 1..Len(f) : f[i] = frame[i] \/ (i = Len(frame) /\ f[i] = Junk)
<1>1. PICK sender \in Senders : f = Cut(DataFrame(c, sender)) \/ f = Damaged(DataFrame(c, sender))
  BY DEF Harmed
<1> DEFINE frame == DataFrame(c, sender)
           t == Len(Terminator(c))
           l == Len(frame)
<1>2. PICK m, z : Seals(c, frame, m, z)
  BY DataSums
<1>3. IsSeq(frame) /\ m \in Nat /\ m >= 4 /\ l = m + 2 + t /\ t \in {0, 2}
  BY <1>2, Sizes DEF Seals
<1> HIDE DEF frame, t
<1>4. l \in Nat /\ l >= 6
  <2> HIDE DEF l
  <2> QED BY <1>3
<1>5. CASE f = Cut(frame)
  <2> DEFINE h == l \div 2
  <2>1. h \in Nat /\ h <= l /\ 1 <= h + 1 /\ h >= 3
    <3> HIDE DEF l
    <3> QED BY <1>4
  <2>2. f = SubSeq(frame, 1, h)
    BY <1>5 DEF Cut
  <2> HIDE DEF h
  <2>3. 1 \in Nat \ {0} /\ h <= Len(frame)
    BY <2>1
  <2>4. IsSeq(f) /\ Len(f) = h - 1 + 1 /\ \A j \in 1..(h - 1 + 1) : f[j] = frame[1 - 1 + j]
    BY <1>3, <2>1, <2>2, <2>3, Part
  <2>5. h - 1 + 1 = h /\ \A j \in 1..h : 1 - 1 + j = j
    BY <2>1
  <2>6. IsSeq(f) /\ Len(f) = h /\ \A j \in 1..h : f[j] = frame[j]
    BY <2>4, <2>5
  <2> QED BY <1>3, <1>4, <2>1, <2>6 DEF frame
<1>6. CASE f = Damaged(frame)
  <2>1. PICK S : frame \in Seq(S)
    BY <1>3 DEF IsSeq
  <2>2. frame \in [1..l -> S]
    BY <2>1
  <2>3. f = [frame EXCEPT ![l] = Junk]
    BY <1>6 DEF Damaged
  <2>4. IsSeq(f)
    BY <1>3, <1>6, HalfIsSeq
  <2> HIDE DEF l
  <2>5. DOMAIN f = 1..l /\ \A j \in 1..l : f[j] = frame[j] \/ (j = l /\ f[j] = Junk)
    BY <2>2, <2>3
  <2>6. Len(f) = l
    <3>1. Len(f) \in Nat /\ DOMAIN f = 1..Len(f)
      BY <2>4 DEF IsSeq
    <3> QED BY <1>4, <2>5, <3>1
  <2>7. /\ IsSeq(f) /\ Len(f) \in Nat /\ Len(f) >= 3 /\ Len(f) <= l
        /\ \A j \in 1..Len(f) : f[j] = frame[j] \/ (j = l /\ f[j] = Junk)
    BY <1>4, <2>4, <2>5, <2>6
  <2> QED BY <1>3, <1>4, <2>7 DEF frame, l
<1> QED BY <1>1, <1>5, <1>6 DEF frame

\* Where a piece of an ASCII line begins, and only there, a response may begin.
LEMMA Openings ==
  ASSUME NEW c \in Configs, c.sum_check = TRUE, IsAscii(c),
         NEW bytes, NEW n, NEW at, NEW piece, NEW reply, Disturbed(c, bytes, n, at, piece, reply),
         NEW k \in 1..n
  PROVE  /\ piece[k][1] = Junk \/ IsStart(c, piece[k][1])
         /\ Interior(c, piece[k])
<1> DEFINE f == piece[k]
<1>1. ~IsStart(c, Junk)
  BY QuietByte, QuietBytes
<1>2. ASSUME NEW sender, NEW said, SentAt(c, n, piece, reply, k, sender, said)
      PROVE  AsciiShaped(c, f)
  <2>1. Framed(c, f, sender, said)
    BY <1>2, SentFramed DEF SentAt
  <2> HIDE DEF f
  <2> QED BY <2>1, FramedShape DEF Shaped
<1>3. \/ f = <<Junk>> \/ Stub(c, f) \/ Harmed(c, f)
      \/ \E sender, said : SentAt(c, n, piece, reply, k, sender, said)
  BY DisturbedKinds
<1> HIDE DEF f
<1>4. CASE f = <<Junk>>
  <2>1. Len(f) = 1 /\ f[1] = Junk
    BY <1>4, One
  <2> QED BY <2>1 DEF Interior, f
<1>5. CASE Stub(c, f)
  <2>1. Len(f) \in {1, 2} /\ IsStart(c, f[1]) /\ (Len(f) = 2 => f[2] = Junk)
    BY <1>5 DEF Stub
  <2>2. ASSUME NEW i \in 2..Len(f) PROVE ~IsStart(c, f[i])
    <3> DEFINE l == Len(f)
    <3>0. l \in {1, 2} /\ i \in 2..l
      BY <2>1, <2>2
    <3> HIDE DEF l
    <3>1. i = 2 /\ l = 2
      BY <3>0
    <3> QED BY <1>1, <2>1, <3>1 DEF l
  <2> QED BY <2>1, <2>2 DEF Interior, f
<1>6. CASE Harmed(c, f)
  <2>1. PICK sender \in Senders :
           /\ IsSeq(f) /\ Len(f) \in Nat /\ Len(f) >= 3
           /\ Len(DataFrame(c, sender)) \in Nat /\ Len(DataFrame(c, sender)) >= 6
           /\ Len(f) <= Len(DataFrame(c, sender))
           /\ \A i \in 1..Len(f) : \/ f[i] = DataFrame(c, sender)[i]
                                   \/ i = Len(DataFrame(c, sender)) /\ f[i] = Junk
    BY <1>6, HarmedBytes
  <2> DEFINE frame == DataFrame(c, sender)
  <2>2. AsciiShaped(c, frame)
    <3>1. Sent(c, frame, sender, Data(c, sender))
      BY DEF Sent, Replies, DataFrame
    <3> HIDE DEF frame
    <3>2. Framed(c, frame, sender, Data(c, sender))
      BY <3>1, SentFramed
    <3> QED BY <3>2, FramedShape DEF Shaped
  <2> HIDE DEF frame
  <2>3. IsStart(c, frame[1]) /\ \A i \in 2..Len(frame) : ~IsStart(c, frame[i])
    BY <2>2 DEF AsciiShaped, Interior
  <2> DEFINE l == Len(f)
             h == Len(frame)
  <2>4. l \in Nat /\ l >= 3 /\ h \in Nat /\ h >= 6 /\ l <= h
        /\ \A i \in 1..l : f[i] = frame[i] \/ (i = h /\ f[i] = Junk)
    BY <2>1 DEF frame
  <2> HIDE DEF l, h
  <2>5. f[1] = frame[1]
    <3>1. 1 \in 1..l /\ 1 # h
      BY <2>4
    <3> QED BY <2>4, <3>1
  <2>6. ASSUME NEW i \in 2..l PROVE ~IsStart(c, f[i])
    <3>1. i \in 1..l /\ i \in 2..h
      BY <2>4
    <3> QED BY <1>1, <2>3, <2>4, <3>1 DEF h
  <2> QED BY <2>3, <2>5, <2>6 DEF Interior, f, l
<1>7. CASE \E sender, said : SentAt(c, n, piece, reply, k, sender, said)
  BY <1>2, <1>7 DEF AsciiShaped, f
<1> QED BY <1>3, <1>4, <1>5, <1>6, <1>7

\* Position p is the first of a piece.
Fronts(at, k, p) == p = at[k] + 1

LEMMA FrontOnly ==
  ASSUME NEW c \in Configs, c.sum_check = TRUE, IsAscii(c),
         NEW bytes, NEW n, NEW at, NEW piece, NEW reply, Disturbed(c, bytes, n, at, piece, reply),
         NEW p \in 1..Len(bytes), IsStart(c, bytes[p])
  PROVE  \E k \in 1..n : Fronts(at, k, p)
<1>1. Solid(bytes, n, at, piece)
  BY DEF Disturbed
<1>2. PICK k \in 1..n : at[k] < p /\ p <= at[k + 1]
  BY <1>1, LaidLocated
<1> DEFINE f == piece[k]
           a == at[k]
           l == Len(f)
           i == p - a
<1>3. /\ a \in Nat /\ at[k + 1] = a + l /\ Holds(bytes, a, f) /\ l \in Nat
  BY <1>1 DEF Solid, Laid
<1>4. i \in 1..l /\ a + i = p
  <2>1. a < p /\ p <= a + l /\ p \in Nat
    BY <1>1, <1>2, <1>3 DEF Solid, IsSeq
  <2> HIDE DEF a, l
  <2> QED BY <1>3, <2>1
<1>5. bytes[p] = f[i]
  BY <1>3, <1>4 DEF Holds
<1>6. Interior(c, f)
  BY Openings
<1> HIDE DEF f, i, l
<1>7. ~(i \in 2..l)
  BY <1>5, <1>6 DEF Interior, l
<1>8. i = 1
  BY <1>3, <1>4, <1>7
<1> HIDE DEF a
<1>9. p = a + 1
  BY <1>4, <1>8
<1>10. Fronts(at, k, p)
  BY <1>9 DEF Fronts, a
<1> QED BY <1>10

\* Bytes are found to end with the checksum of what precedes it.
Summed(c, w, e) ==
  /\ e \in Nat /\ e >= 2 /\ e + 2 + Len(Terminator(c)) <= Len(w)
  /\ SumMatches(c, w, e) /\ EndsAt(c, w, e + 2)

LEMMA SummedIsAnswer ==
  ASSUME NEW c \in Configs, c.sum_check = TRUE, IsAscii(c),
         NEW bytes, NEW n, NEW at, NEW piece, NEW reply, Disturbed(c, bytes, n, at, piece, reply),
         NEW a \in Nat, NEW d \in 1..Len(bytes), a < d,
         NEW e, Summed(c, View(bytes, a, d), e)
  PROVE  AcceptedIsAnswer(c, bytes, a, d, reply)
<1> DEFINE w == View(bytes, a, d)
           y == SubSeq(w, 2, e)
           b == a + (e + 1)
           t == Len(Terminator(c))
           l == Len(w)
<1>1. IsSeq(bytes) /\ Len(bytes) \in Nat /\ d \in Nat /\ d <= Len(bytes) /\ a <= d
  <2>1. IsSeq(bytes) /\ Len(bytes) \in Nat
    BY DEF Disturbed, Solid, IsSeq
  <2> QED BY <2>1
<1>2. e \in Nat /\ e >= 2 /\ e + 2 + t <= l
  BY DEF Summed
<1>3. IsSeq(w) /\ l \in Nat /\ t \in {0, 2}
  <2>1. IsSeq(View(bytes, a, d))
    BY <1>1, ViewIs
  <2> QED BY <2>1, Sizes DEF IsSeq
<1>4. SumSize(c) = 2 /\ \A z : Checksum(c, z) = SumOf(z)
  BY DEF SumSize, Checksum
<1>5. /\ SubSeq(w, e + 1, e + 2) = SumOf(y)
      /\ SubSeq(w, e + 2 + 1, e + 2 + t) = Terminator(c)
  BY <1>4 DEF Summed, SumMatches, EndsAt
<1>6. Len(y) = e - 1
  <2>1. e <= l
    <3> HIDE DEF t, l
    <3> QED BY <1>2, <1>3
  <2> HIDE DEF w
  <2>2. 2 \in Nat \ {0} /\ e <= Len(w) /\ 2 <= e + 1
    BY <1>2, <2>1
  <2>3. Len(SubSeq(w, 2, e)) = e - 2 + 1
    BY <1>2, <1>3, <2>2, Part
  <2>4. e - 2 + 1 = e - 1
    BY <1>2
  <2> QED BY <2>3, <2>4
<1>7. e \in Nat \ {0}
  BY <1>2
<1> HIDE DEF y, w
<1>8. SumAt(c, bytes, a + (e + 1), y) /\ a + (e + 1) \in 1..Len(bytes)
  BY <1>1, <1>2, <1>5, <1>7, SumSeen DEF w
<1>9. SumAt(c, bytes, b, y) /\ b \in 1..Len(bytes)
  BY <1>8
<1> HIDE DEF b
<1>9a. PICK k \in 1..n : \E sender, said, m :
         /\ SentAt(c, n, piece, reply, k, sender, said)
         /\ SealsAt(c, at, piece[k], k, m, y, b)
  BY <1>9, SumFound
<1>10. PICK sender, said, m :
         /\ SentAt(c, n, piece, reply, k, sender, said)
         /\ SealsAt(c, at, piece[k], k, m, y, b)
  BY <1>9a
<1>11. Seals(c, piece[k], m, y) /\ b = at[k] + (m + 1)
  BY <1>10 DEF SealsAt
<1>12. at[k] \in Nat
  BY DEF Disturbed, Solid, Laid
<1>13. m = e
  <2> DEFINE s == Len(y)
  <2>1. m = s + 1 /\ s = e - 1
    BY <1>6, <1>11 DEF Seals
  <2> HIDE DEF s
  <2> QED BY <1>2, <2>1
<1>14. at[k] = a
  <2> DEFINE s == at[k]
  <2>1. s \in Nat /\ a + (e + 1) = s + (e + 1)
    BY <1>11, <1>12, <1>13 DEF b
  <2> HIDE DEF s
  <2>2. s = a
    BY <1>2, <2>1
  <2> QED BY <2>2 DEF s
<1>15. AcceptedIsAnswer(c, bytes, at[k], d, reply)
  BY <1>10, <1>14, AcceptedAtFrame
<1> QED BY <1>14, <1>15

\* A frame with data of the ENQ formats, if it is accepted.
LEMMA DataSummed ==
  ASSUME NEW c \in Configs, c.sum_check = TRUE, NEW w, IsSeq(w),
         DecodeData(c, w).status = "Complete"
  PROVE  \E e : Summed(c, w, e)
<1> DEFINE first == PrefixSize(c) + 1
           e == EtxFrom(w, first)
           t == Len(Terminator(c))
           total == e + 2 + t
<1>1. SumSize(c) = 2 /\ first \in {3, 4}
  BY Sizes DEF SumSize
<1>2. DecodeData(c, w) = DecodeDataTo(c, w, e, total)
  BY <1>1 DEF DecodeData
<1>3. Incomplete.status = "Incomplete" /\ \A i : Malformed(i).status = "Error"
  BY IncompleteHas, MalformedHas DEF Has
<1>4. PICK S : w \in Seq(S)
  BY DEF IsSeq
<1>5. e = 0 \/ e \in first..Len(w)
  BY <1>1, <1>4, EtxFromIs
<1> HIDE DEF first, e, total
<1>6. e # 0 /\ ~(Len(w) < total) /\ EndsAt(c, w, e + 2) /\ SumMatches(c, w, e)
  BY <1>1, <1>2, <1>3 DEF DecodeDataTo
<1>7. e \in Nat /\ e >= 2 /\ total <= Len(w)
  <2>1. Len(w) \in Nat /\ t \in {0, 2}
    BY Sizes DEF IsSeq
  <2> DEFINE l == Len(w)
  <2>2. l \in Nat /\ e \in first..l /\ ~(l < e + 2 + t)
    BY <1>5, <1>6, <2>1 DEF total
  <2> HIDE DEF l, t
  <2>3. e \in Nat /\ e >= 2 /\ e + 2 + t <= l
    BY <1>1, <2>1, <2>2
  <2> QED BY <2>3 DEF l, total
<1> QED BY <1>6, <1>7 DEF Summed, total

\* A frame of Format3, if it is accepted: an error, a success without data, or summed.
LEMMA Format3Summed ==
  ASSUME NEW c \in Configs, c.sum_check = TRUE, IsAscii(c), ~IsEnqFamily(c), NEW w, IsSeq(w),
         DecodeFormat3(c, w).status = "Complete"
  PROVE  /\ Len(w) >= 3
         /\ \/ w[3] = ErrorEndCode
            \/ Len(w) >= 4 /\ w[4] = ETX
            \/ \E e : Summed(c, w, e)
<1> DEFINE e == EtxFrom(w, 4)
           content == SubSeq(w, 4, e - 1)
           sum == IF e = 4 THEN 0 ELSE 2
           code == w[3]
<1>1. PrefixSize(c) = 2 /\ Terminator(c) = <<>> /\ SumSize(c) = 2
  BY DEF PrefixSize, UsesBlockNumber, Terminator, IsAscii, IsEnqFamily, Configs, Formats, SumSize
<1>2. Incomplete.status = "Incomplete" /\ \A i : Malformed(i).status = "Error"
  BY IncompleteHas, MalformedHas DEF Has
<1>3. PrefixSize(c) + 2 = 4 /\ 4 - 1 = 3
  BY <1>1
<1>4. ~(Len(w) < 3) /\ DecodeFormat3(c, w) = DecodeFormat3To(c, w, code, content, e, sum)
  BY <1>1, <1>2, <1>3 DEF DecodeFormat3
<1>5. PICK S : w \in Seq(S)
  BY DEF IsSeq
<1>6. \/ e = 0
      \/ e \in 4..Len(w) /\ w[e] = ETX
  BY <1>5, EtxFromIs
<1> HIDE DEF e, content, sum, code
<1>7. /\ code \in {SuccessEndCode, ErrorEndCode} /\ e # 0
      /\ code # ErrorEndCode
           => ~(Len(w) < e + sum) /\ (sum = 0 \/ SumMatches(c, w, e))
  BY <1>2, <1>4 DEF DecodeFormat3To
<1> DEFINE l == Len(w)
<1>8. l \in Nat /\ l >= 3 /\ e \in 4..l /\ w[e] = ETX
  BY <1>4, <1>6, <1>7 DEF IsSeq
<1> HIDE DEF l
<1>9. CASE code = ErrorEndCode
  BY <1>8, <1>9 DEF code, l
<1>10. CASE code # ErrorEndCode /\ e = 4
  <2>1. l >= 4 /\ w[4] = ETX
    BY <1>8, <1>10
  <2> QED BY <1>8, <2>1 DEF l
<1>11. CASE code # ErrorEndCode /\ e # 4
  <2>1. sum = 2 /\ SumMatches(c, w, e) /\ ~(l < e + 2)
    BY <1>7, <1>11 DEF sum, l
  <2>2. e \in Nat /\ e >= 2 /\ e + 2 <= l /\ e + 2 + 0 = e + 2
    BY <1>8, <2>1
  <2>3. Len(Terminator(c)) = 0
    BY <1>1
  <2>4. EndsAt(c, w, e + 2)
    <3> DEFINE lo == e + 2 + 1
               hi == e + 2
               v == SubSeq(w, lo, hi)
    <3>1. hi - lo + 1 = 0 /\ lo \in Nat \ {0} /\ hi \in Nat /\ hi <= l /\ lo <= hi + 1
          /\ hi + 0 = hi
      BY <2>2
    <3> HIDE DEF lo, hi
    <3>2. IsSeq(v) /\ Len(v) = 0
      BY <3>1, Part DEF l
    <3>3. v = <<>>
      <4>1. PICK T : v \in Seq(T)
        BY <3>2 DEF IsSeq
      <4> QED BY <3>2, <4>1, EmptySeq
    <3>4. SubSeq(w, lo, hi + Len(Terminator(c))) = Terminator(c)
      BY <1>1, <2>3, <3>1, <3>3
    <3> QED BY <3>4 DEF EndsAt, lo, hi
  <2>5. e + 2 + Len(Terminator(c)) <= Len(w)
    BY <2>2, <2>3 DEF l
  <2>6. Summed(c, w, e)
    BY <2>1, <2>2, <2>4, <2>5 DEF Summed
  <2> QED BY <1>8, <2>6 DEF l
<1> QED BY <1>9, <1>10, <1>11

LEMMA BodyForms ==
  ASSUME NEW c, NEW w
  PROVE  \/ DecodeAsciiBody(c, w) = Incomplete
         \/ \E i : DecodeAsciiBody(c, w) = Malformed(i)
         \/ \E reply, i : DecodeAsciiBody(c, w) = Complete(reply, i)
<1> DEFINE Formed(result) == \/ result = Incomplete
                             \/ \E i : result = Malformed(i)
                             \/ \E reply, i : result = Complete(reply, i)
<1>1. Formed(Incomplete) /\ \A i : Formed(Malformed(i)) /\ \A reply : Formed(Complete(reply, i))
  OBVIOUS
<1> HIDE DEF Formed
<1>2. Formed(DecodeAck(c, w))
  BY <1>1 DEF DecodeAck
<1>3. Formed(DecodeNak(c, w))
  BY <1>1 DEF DecodeNak
<1>4. Formed(DecodeData(c, w))
  <2>1. \A e, total : Formed(DecodeDataTo(c, w, e, total))
    BY <1>1 DEF DecodeDataTo
  <2> QED BY <2>1 DEF DecodeData
<1>5. Formed(DecodeFormat3(c, w))
  <2>1. \A code, content, e, sum : Formed(DecodeFormat3To(c, w, code, content, e, sum))
    BY <1>1 DEF DecodeFormat3To
  <2> QED BY <1>1, <2>1 DEF DecodeFormat3
<1>6. Formed(DecodeAsciiBody(c, w))
  BY <1>1, <1>2, <1>3, <1>4, <1>5 DEF DecodeAsciiBody
<1> QED BY <1>6 DEF Formed

\* What an accepted ASCII frame begins with.
LEMMA AcceptedBody ==
  ASSUME NEW c \in Configs, IsAscii(c), NEW w, IsSeq(w), Decode(c, w).status = "Complete"
  PROVE  /\ Len(w) >= 2 /\ w[2] \in Hex
         /\ IF ~IsEnqFamily(c) THEN DecodeFormat3(c, w).status = "Complete"
            ELSE w[1] \notin {ACK, NAK} => DecodeData(c, w).status = "Complete"
<1> DEFINE P == PrefixSize(c)
           l == Len(w)
           body == DecodeAsciiBody(c, w)
           whose == ForeignAscii(c, w)
<1>1. Decode(c, w) = DecodeAscii(c, w)
  BY DEF Decode
<1>2. Incomplete.status = "Incomplete" /\ \A i : Malformed(i).status = "Error"
      /\ \A reply, j : Complete(reply, j).status = "Complete"
  BY IncompleteHas, MalformedHas, CompleteHas DEF Has
<1>3. P \in {2, 3} /\ l \in Nat /\ (P = 3 <=> UsesBlockNumber(c))
  BY DEF PrefixSize, IsSeq
<1>4. /\ ~(UsesBlockNumber(c) /\ l >= 2 /\ w[2] \notin Hex) /\ ~(l < P)
      /\ DecodeAscii(c, w) = Judgement(body, whose)
  BY <1>1, <1>2 DEF DecodeAscii, Judgement
<1>5. l >= 2
  <2> HIDE DEF l, P
  <2> QED BY <1>3, <1>4
<1>6. body.status = "Complete"
  <2>1. Judgement(body, whose).status = "Complete"
    BY <1>1, <1>4
  <2>2. \/ body = Incomplete
        \/ \E i : body = Malformed(i)
        \/ \E reply, i : body = Complete(reply, i)
    BY BodyForms
  <2> HIDE DEF body, whose
  <2>3. body # Incomplete
    BY <2>1, JudgementHas
  <2>4. ASSUME NEW i, body = Malformed(i) PROVE FALSE
    <3>1. Judgement(Malformed(i), whose).status = "Error"
      BY DEF Judgement, Malformed, Incomplete
    <3> QED BY <2>1, <2>4, <3>1
  <2> QED BY <1>2, <2>2, <2>3, <2>4
<1>7. w[P] \in Hex
  BY <1>2, <1>6 DEF DecodeAsciiBody
<1>8. w[2] \in Hex
  BY <1>3, <1>4, <1>5, <1>7
<1>9. IF ~IsEnqFamily(c) THEN DecodeFormat3(c, w).status = "Complete"
      ELSE w[1] \notin {ACK, NAK} => DecodeData(c, w).status = "Complete"
  BY <1>6, <1>7 DEF DecodeAsciiBody
<1> QED BY <1>5, <1>8, <1>9

\* Behind a piece of the line comes noise or a start byte.
LEMMA ByteBehind ==
  ASSUME NEW c \in Configs, c.sum_check = TRUE, IsAscii(c),
         NEW bytes, NEW n, NEW at, NEW piece, NEW reply, Disturbed(c, bytes, n, at, piece, reply),
         NEW k \in 1..n, k < n
  PROVE  bytes[at[k + 1] + 1] = Junk \/ IsStart(c, bytes[at[k + 1] + 1])
<1> DEFINE f == piece[k + 1]
           b == at[k + 1]
<1>1. n \in Nat /\ k + 1 \in 1..n
  <2>1. n \in Nat
    BY DEF Disturbed, Solid
  <2> QED BY <2>1
<1>2. Holds(bytes, b, f) /\ Len(f) \in Nat /\ Len(f) >= 1 /\ b \in Nat
  BY <1>1 DEF Disturbed, Solid, Laid
<1>3. f[1] = Junk \/ IsStart(c, f[1])
  BY <1>1, Openings
<1> HIDE DEF f, b
<1>4. bytes[b + 1] = f[1]
  <2>1. 1 \in 1..Len(f)
    BY <1>2
  <2> QED BY <1>2, <2>1 DEF Holds
<1> QED BY <1>3, <1>4 DEF b

LEMMA NoHex ==
  ASSUME NEW c \in Configs, NEW byte, byte = Junk \/ IsStart(c, byte)
  PROVE  byte \notin Hex /\ byte # ETX
<1>1. Junk \notin Hex /\ Junk # ETX
  BY DEF Junk, Hex, ETX
<1>2. ~IsStart(c, ETX) /\ \A h \in Hex : ~IsStart(c, h)
  BY QuietByte, QuietBytes
<1> QED BY <1>1, <1>2

\* A start byte that begins nothing.
LEMMA StubRefused ==
  ASSUME NEW c \in Configs, c.sum_check = TRUE, IsAscii(c),
         NEW bytes, NEW n, NEW at, NEW piece, NEW reply, Disturbed(c, bytes, n, at, piece, reply),
         NEW k \in 1..n, k < n, Stub(c, piece[k]), NEW d \in 1..Len(bytes), at[k] < d
  PROVE  Decode(c, View(bytes, at[k], d)).status # "Complete"
<1> DEFINE f == piece[k]
           a == at[k]
           w == View(bytes, a, d)
<1> SUFFICES ASSUME Decode(c, w).status = "Complete" PROVE FALSE
  OBVIOUS
<1>1. /\ a \in Nat /\ at[k + 1] = a + Len(f) /\ Holds(bytes, a, f)
      /\ IsSeq(bytes) /\ Len(bytes) \in Nat
  BY DEF Disturbed, Solid, Laid, IsSeq
<1>2. IsSeq(w) /\ Len(w) = d - a /\ \A i \in 1..(d - a) : w[i] = bytes[a + i]
  <2>1. a <= d /\ d \in Nat /\ d <= Len(bytes)
    <3> HIDE DEF a
    <3> QED BY <1>1 DEF a
  <2> HIDE DEF a
  <2> QED BY <1>1, <2>1, ViewIs
<1> HIDE DEF w
<1>3. Len(w) >= 2 /\ w[2] \in Hex
  BY <1>2, AcceptedBody
<1>4. w[2] = bytes[a + 2]
  <2>1. 2 \in 1..(d - a)
    <3> HIDE DEF a
    <3>1. d - a >= 2 /\ d - a \in Int
      BY <1>1, <1>2, <1>3
    <3> QED BY <3>1
  <2> QED BY <1>2, <2>1
<1>5. Len(f) \in {1, 2} /\ (Len(f) = 2 => f[2] = Junk)
  BY DEF Stub
<1>6. CASE Len(f) = 1
  <2>1. bytes[at[k + 1] + 1] = Junk \/ IsStart(c, bytes[at[k + 1] + 1])
    BY ByteBehind
  <2>2. at[k + 1] + 1 = a + 2
    <3> HIDE DEF a, f
    <3> QED BY <1>1, <1>6
  <2> QED BY <1>3, <1>4, <2>1, <2>2, NoHex
<1>7. CASE Len(f) = 2
  <2>1. bytes[a + 2] = Junk
    <3> HIDE DEF a, f
    <3> QED BY <1>1, <1>5, <1>7 DEF Holds
  <2> QED BY <1>3, <1>4, <2>1, NoHex
<1> QED BY <1>5, <1>6, <1>7

\* The first bytes of an ASCII frame with data.
LEMMA DataFrameHead ==
  ASSUME NEW c \in Configs, IsAscii(c), NEW sender \in Senders
  PROVE  LET frame == DataFrame(c, sender)
         IN /\ frame[1] = STX
            /\ ~IsEnqFamily(c) => frame[3] = SuccessEndCode /\ frame[4] \in Hex
<1> DEFINE v == ValueOf(sender)
           told == IF IsEnqFamily(c) THEN <<v>> ELSE <<SuccessEndCode>> \o <<v>>
           frame == DataFrame(c, sender)
           q == StxFrame(c, sender, told, TRUE)
<1>1. v \in Hex /\ IsSeq(<<v>>)
  BY One DEF ValueOf, Hex
<1>2. frame = q
  <2>1. Data(c, sender) = Success(<<v>>)
    BY DEF Data
  <2>2. frame = EncodeAscii(c, sender, Success(<<v>>))
    BY <2>1 DEF DataFrame, Encode
  <2>3. <<v>> # <<>>
    OBVIOUS
  <2> HIDE DEF v, frame
  <2>4. CASE IsEnqFamily(c)
    BY <2>2, <2>3, <2>4, EnqFrames
  <2>5. CASE ~IsEnqFamily(c)
    <3>1. EncodeAscii(c, sender, Success(<<v>>))
            = StxFrame(c, sender, <<SuccessEndCode>> \o <<v>>, <<v>> # <<>>)
      BY <1>1, <2>5, Format3Frames
    <3>2. (<<v>> # <<>>) = TRUE
      BY <2>3
    <3> QED BY <2>2, <2>5, <3>1, <3>2
  <2> QED BY <2>4, <2>5
<1> HIDE DEF v, frame
<1>3. <<SuccessEndCode>> \o <<v>> = <<SuccessEndCode, v>> /\ IsSeq(<<SuccessEndCode, v>>)
      /\ Len(<<SuccessEndCode, v>>) = 2
      /\ <<SuccessEndCode, v>>[1] = SuccessEndCode /\ <<SuccessEndCode, v>>[2] = v
  BY Two
<1>4. IsSeq(told) /\ (~IsEnqFamily(c) => told = <<SuccessEndCode, v>>)
  BY <1>1, <1>3
<1> HIDE DEF told
<1>5. Heads(frame, STX, c, sender) /\ Holds(frame, 1, Covered(c, sender, told))
  <2> DEFINE sum == TRUE
             p == StxFrame(c, sender, told, sum)
  <2>1. sum \in BOOLEAN /\ p = frame
    BY <1>2
  <2> HIDE DEF sum
  <2>2. Heads(p, STX, c, sender) /\ Holds(p, 1, Covered(c, sender, told))
    BY <1>4, <2>1, StxFrameIs
  <2> QED BY <2>1, <2>2
<1>6. frame[1] = STX
  BY <1>5, AsciiHead
<1>7. ASSUME ~IsEnqFamily(c) PROVE frame[3] = SuccessEndCode /\ frame[4] \in Hex
  <2>1. PrefixSize(c) = 2
    BY <1>7 DEF PrefixSize, UsesBlockNumber, IsEnqFamily
  <2>2. Holds(frame, 2, told)
    BY <1>4, <1>5, <2>1, CoveredHeld
  <2> DEFINE pair == <<SuccessEndCode, v>>
  <2>3. Holds(frame, 2, pair)
    BY <1>4, <1>7, <2>2
  <2>4. Len(pair) = 2 /\ pair[1] = SuccessEndCode /\ pair[2] = v
    BY <1>3
  <2> HIDE DEF pair
  <2>5. frame[2 + 1] = pair[1] /\ frame[2 + 2] = pair[2]
    BY <2>3, <2>4 DEF Holds
  <2> QED BY <1>1, <2>4, <2>5
<1> QED BY <1>6, <1>7 DEF frame

LEMMA HarmedHead ==
  ASSUME NEW c \in Configs, c.sum_check = TRUE, IsAscii(c), NEW f, Harmed(c, f)
  PROVE  /\ IsSeq(f) /\ Len(f) \in Nat /\ Len(f) >= 3 /\ f[1] = STX
         /\ ~IsEnqFamily(c) => f[3] = SuccessEndCode /\ (Len(f) >= 4 => f[4] # ETX)
<1>1. PICK sender \in Senders :
        /\ IsSeq(f) /\ Len(f) \in Nat /\ Len(f) >= 3
        /\ Len(DataFrame(c, sender)) \in Nat /\ Len(DataFrame(c, sender)) >= 6
        /\ Len(f) <= Len(DataFrame(c, sender))
        /\ \A i \in 1..Len(f) : \/ f[i] = DataFrame(c, sender)[i]
                                \/ i = Len(DataFrame(c, sender)) /\ f[i] = Junk
  BY HarmedBytes
<1> DEFINE frame == DataFrame(c, sender)
           l == Len(f)
           h == Len(frame)
<1>2. l \in Nat /\ l >= 3 /\ h \in Nat /\ h >= 6 /\ IsSeq(f)
      /\ \A i \in 1..l : f[i] = frame[i] \/ (i = h /\ f[i] = Junk)
  BY <1>1
<1>3. frame[1] = STX /\ (~IsEnqFamily(c) => frame[3] = SuccessEndCode /\ frame[4] \in Hex)
  BY DataFrameHead
<1>4. \A byte \in Hex : byte # ETX
  BY DEF Hex, ETX
<1> HIDE DEF frame, l, h
<1>5. f[1] = frame[1] /\ f[3] = frame[3] /\ (l >= 4 => f[4] = frame[4])
  <2>1. 1 \in 1..l /\ 3 \in 1..l /\ (l >= 4 => 4 \in 1..l) /\ 1 # h /\ 3 # h /\ 4 # h
    BY <1>2
  <2> QED BY <1>2, <2>1
<1> QED BY <1>2, <1>3, <1>4, <1>5 DEF l

\* Of a damaged frame, whatever follows it.
LEMMA AcceptedAtHarmed ==
  ASSUME NEW c \in Configs, c.sum_check = TRUE, IsAscii(c),
         NEW bytes, NEW n, NEW at, NEW piece, NEW reply, Disturbed(c, bytes, n, at, piece, reply),
         NEW k \in 1..n, k < n, Harmed(c, piece[k]), NEW d \in 1..Len(bytes), at[k] < d
  PROVE  AcceptedIsAnswer(c, bytes, at[k], d, reply)
<1> DEFINE f == piece[k]
           a == at[k]
           w == View(bytes, a, d)
           l == Len(f)
           q == d - a
<1> SUFFICES ASSUME Decode(c, w).status = "Complete"
             PROVE  AcceptedIsAnswer(c, bytes, a, d, reply)
  BY DEF AcceptedIsAnswer
<1>1. /\ a \in Nat /\ at[k + 1] = a + l /\ Holds(bytes, a, f)
      /\ IsSeq(bytes) /\ Len(bytes) \in Nat
  BY DEF Disturbed, Solid, Laid, IsSeq
<1>2. IsSeq(w) /\ Len(w) = q /\ \A i \in 1..q : w[i] = bytes[a + i]
  <2>1. a <= d /\ d \in Nat /\ d <= Len(bytes)
    <3> HIDE DEF a
    <3> QED BY <1>1 DEF a
  <2> HIDE DEF a
  <2> QED BY <1>1, <2>1, ViewIs
<1>3. q \in Nat /\ q >= 1
  <2> HIDE DEF a
  <2> QED BY <1>1 DEF a
<1>4. /\ IsSeq(f) /\ l \in Nat /\ l >= 3 /\ f[1] = STX
      /\ ~IsEnqFamily(c) => f[3] = SuccessEndCode /\ (l >= 4 => f[4] # ETX)
  BY HarmedHead
<1>5. \A i \in 1..l : bytes[a + i] = f[i]
  BY <1>1 DEF Holds
<1>6. \A e : Summed(c, w, e) => AcceptedIsAnswer(c, bytes, a, d, reply)
  BY <1>1, SummedIsAnswer
<1>7. IF ~IsEnqFamily(c) THEN DecodeFormat3(c, w).status = "Complete"
      ELSE w[1] \notin {ACK, NAK} => DecodeData(c, w).status = "Complete"
  <2> HIDE DEF w
  <2> QED BY <1>2, AcceptedBody
<1>8. bytes[a + l + 1] = Junk \/ IsStart(c, bytes[a + l + 1])
  BY <1>1, ByteBehind
<1> HIDE DEF w, f, a, l, q
<1>9. CASE IsEnqFamily(c)
  <2>1. w[1] = STX
    <3>1. 1 \in 1..q /\ 1 \in 1..l
      BY <1>3, <1>4
    <3> QED BY <1>2, <1>4, <1>5, <3>1
  <2>2. STX # ACK /\ STX # NAK
    BY Starts
  <2>3. DecodeData(c, w).status = "Complete"
    BY <1>7, <1>9, <2>1, <2>2
  <2>4. \E e : Summed(c, w, e)
    BY <1>2, <2>3, DataSummed
  <2> QED BY <1>6, <2>4
<1>10. CASE ~IsEnqFamily(c)
  <2>1. /\ Len(w) >= 3
        /\ \/ w[3] = ErrorEndCode
           \/ Len(w) >= 4 /\ w[4] = ETX
           \/ \E e : Summed(c, w, e)
    BY <1>2, <1>7, <1>10, Format3Summed
  <2>2. w[3] # ErrorEndCode
    <3>1. 3 \in 1..q /\ 3 \in 1..l
      BY <1>2, <1>3, <1>4, <2>1
    <3> QED BY <1>2, <1>4, <1>5, <1>10, <3>1, Starts
  <2>3. ~(Len(w) >= 4 /\ w[4] = ETX)
    <3> SUFFICES ASSUME Len(w) >= 4 PROVE w[4] # ETX
      OBVIOUS
    <3>1. w[4] = bytes[a + 4]
      <4>1. 4 \in 1..q
        BY <1>2, <1>3
      <4> QED BY <1>2, <4>1
    <3>2. CASE l >= 4
      <4>1. 4 \in 1..l
        BY <1>4, <3>2
      <4> QED BY <1>4, <1>5, <1>10, <3>1, <3>2, <4>1
    <3>3. CASE ~(l >= 4)
      <4>1. a + l + 1 = a + 4
        BY <1>1, <1>4, <3>3
      <4>2. bytes[a + 4] # ETX
        BY <1>8, <4>1, NoHex
      <4> QED BY <3>1, <4>2
    <3> QED BY <3>2, <3>3
  <2> QED BY <1>6, <2>1, <2>2, <2>3
<1> QED BY <1>9, <1>10

\* With the sum check no frame is accepted but the answer, however the line is damaged.
LEMMA AcceptedAtStart ==
  ASSUME NEW c \in Configs, c.sum_check = TRUE,
         NEW bytes, NEW n, NEW at, NEW piece, NEW reply, Disturbed(c, bytes, n, at, piece, reply),
         NEW a \in Nat, NEW d \in 1..Len(bytes), a < d, IsStart(c, bytes[a + 1])
  PROVE  AcceptedIsAnswer(c, bytes, a, d, reply)
<1>1. CASE ~IsAscii(c)
  BY <1>1, AcceptedBinary
<1>2. CASE IsAscii(c)
  <2>1. a + 1 \in 1..Len(bytes)
    <3>1. Len(bytes) \in Nat
      BY DEF Disturbed, Solid, IsSeq
    <3> QED BY <3>1
  <2> DEFINE p == a + 1
  <2>1a. p \in 1..Len(bytes) /\ IsStart(c, bytes[p])
    BY <2>1
  <2> HIDE DEF p
  <2>2. PICK k \in 1..n : Fronts(at, k, p)
    BY <1>2, <2>1a, FrontOnly
  <2>3. at[k] \in Nat
    BY DEF Disturbed, Solid, Laid
  <2>4. at[k] = a
    BY <2>2, <2>3 DEF Fronts, p
  <2>5. piece[k] # <<Junk>>
    <3> DEFINE f == piece[k]
    <3>1. Holds(bytes, a, f)
      BY <2>4 DEF Disturbed, Solid, Laid
    <3> HIDE DEF f
    <3>2. ASSUME f = <<Junk>> PROVE FALSE
      <4>1. bytes[a + 1] = Junk
        BY <3>1, <3>2, One
      <4> QED BY <4>1, QuietByte, QuietBytes
    <3> QED BY <3>2 DEF f
  <2>6. \/ k < n /\ Stub(c, piece[k])
        \/ \E sender, said : SentAt(c, n, piece, reply, k, sender, said)
        \/ k < n /\ Harmed(c, piece[k])
    BY <2>5, DisturbedKinds
  <2>7. CASE k < n /\ Stub(c, piece[k])
    <3>1. at[k] < d
      BY <2>4
    <3>2. Decode(c, View(bytes, at[k], d)).status # "Complete"
      BY <1>2, <2>7, <3>1, StubRefused
    <3> QED BY <2>4, <3>2 DEF AcceptedIsAnswer
  <2>8. CASE \E sender, said : SentAt(c, n, piece, reply, k, sender, said)
    <3>1. PICK sender, said : SentAt(c, n, piece, reply, k, sender, said)
      BY <2>8
    <3>2. at[k] < d
      BY <2>4
    <3>3. AcceptedIsAnswer(c, bytes, at[k], d, reply)
      BY <3>1, <3>2, AcceptedAtFrame
    <3> QED BY <2>4, <3>3
  <2>9. CASE k < n /\ Harmed(c, piece[k])
    <3>1. at[k] < d
      BY <2>4
    <3>2. AcceptedIsAnswer(c, bytes, at[k], d, reply)
      BY <1>2, <2>9, <3>1, AcceptedAtHarmed
    <3> QED BY <2>4, <3>2
  <2> QED BY <2>6, <2>7, <2>8, <2>9
<1> QED BY <1>1, <1>2

\* The scanner accepts what is decoded at the front, and nothing else.
LEMMA CompleteAtFront ==
  ASSUME NEW c \in Configs, NEW bytes, IsSeq(bytes), NEW scan,
         scan = DecodeStreamBuffer(c, bytes), scan.discard_prefix = 0, scan.status = "Complete"
  PROVE  /\ Len(bytes) \in Nat /\ Len(bytes) >= 1 /\ IsStart(c, bytes[1])
         /\ Decode(c, bytes).status = "Complete" /\ ~Decode(c, bytes).foreign
         /\ scan.reply = Decode(c, bytes).reply
<1> DEFINE tried == Candidates(c, bytes)
           results == [o \in tried |-> Decode(c, From(bytes, o))]
           decisive == {o \in DOMAIN results : results[o].foreign \/ results[o].status = "Complete"}
           m == Min(decisive)
<1>1. /\ Len(bytes) \in Nat /\ tried \subseteq 1..Len(bytes)
      /\ \A o \in tried : IsStart(c, bytes[o])
  BY CandidatesAreThere
<1>2. scan = Selected(bytes, results, decisive)
  BY DEF DecodeStreamBuffer, Judged
<1>3. DOMAIN results = tried /\ \A o \in tried : results[o] = Decode(c, From(bytes, o))
  OBVIOUS
<1>4. ASSUME 1 \in tried PROVE From(bytes, 1) = bytes
  <2>1. 1 \in 1..Len(bytes)
    BY <1>1, <1>4
  <2> DEFINE u == From(bytes, 1)
  <2>2. IsSeq(u) /\ Len(u) = Len(bytes) - 1 + 1
        /\ \A i \in 1..(Len(bytes) - 1 + 1) : u[i] = bytes[1 - 1 + i]
    BY <2>1, Suffix
  <2> HIDE DEF u
  <2> DEFINE l == Len(bytes)
  <2>3. l \in Nat
    BY <1>1
  <2> HIDE DEF l
  <2>4. l - 1 + 1 = l /\ \A i \in 1..l : 1 - 1 + i = i
    BY <2>3
  <2>5. Len(u) = l /\ \A i \in 1..l : u[i] = bytes[i]
    BY <2>2, <2>4 DEF l
  <2>6. u = bytes
    BY <2>2, <2>5, Same DEF l
  <2> QED BY <2>6 DEF u
<1>5. ASSUME decisive # {} PROVE m \in decisive
  <2>1. decisive \subseteq Nat
    BY <1>1, <1>3
  <2> QED BY <1>5, <2>1, LeastOf
<1>6. \A o \in decisive : o \in tried /\ (results[o].foreign \/ results[o].status = "Complete")
  BY <1>3
<1>7. \A o \in tried : results[o].status = "Complete" => o \in decisive
  BY <1>3
<1> HIDE DEF tried, results, decisive, m
<1>8. decisive # {}
  <2> SUFFICES ASSUME decisive = {} PROVE FALSE
    OBVIOUS
  <2>1. scan = Undecided(bytes, tried, results)
    BY <1>2, <1>3 DEF Selected
  <2>2. tried = {1} /\ scan = Keep(results[1].status, Success(<<>>))
    BY <2>1, KeepDiscard DEF Undecided
  <2>3. results[1].status = "Complete"
    BY <2>2, KeepDiscard
  <2> QED BY <1>7, <2>2, <2>3
<1>9. scan = Decided(m, results[m])
  BY <1>2, <1>8 DEF Selected, m
<1>10. ~results[m].foreign /\ m = 1 /\ scan = Keep("Complete", results[m].reply)
  BY <1>9, KeepDiscard DEF Decided
<1>11. m \in tried /\ results[m].status = "Complete"
  BY <1>5, <1>6, <1>8, <1>10
<1>12. results[m] = Decode(c, bytes)
  BY <1>3, <1>4, <1>10, <1>11
<1>13. Len(bytes) >= 1 /\ IsStart(c, bytes[1])
  BY <1>1, <1>10, <1>11
<1> QED BY <1>1, <1>10, <1>11, <1>12, <1>13, KeepDiscard

\* The line, however it is damaged.
LEMMA LineDisturbed ==
  ASSUME Buffered, answer \in Answers(config), disturbances \in Seq(Pieces(config)),
         answered = TRUE, config.sum_check = TRUE, NEW at, Laid(line, Count, at, LinePieces)
  PROVE  Disturbed(config, line, Count, at, LinePieces, answer)
<1> DEFINE m == Len(disturbances)
           c == config
<1>1. m \in Nat /\ Count = m + 1 /\ c \in Configs /\ IsSeq(line)
  BY DEF Count, Buffered
<1>2. /\ \A k \in 1..m : LinePieces[k] = Bytes(c, disturbances[k])
      /\ LinePieces[m + 1] = Encode(c, Ours, answer)
  BY <1>1 DEF LinePieces
<1>3. Sent(c, LinePieces[m + 1], Ours, answer)
  <2>1. answer \in Replies(c, Ours) /\ Ours \in Senders
    BY <1>1, WhoseFrames DEF Answers, Replies
  <2> QED BY <1>2, <2>1 DEF Sent
<1>4. ASSUME NEW sender, NEW said, NEW p, Sent(c, p, sender, said)
      PROVE  Len(p) \in Nat /\ Len(p) >= 1
  <2>1. Framed(c, p, sender, said)
    BY <1>1, <1>4, SentFramed
  <2>2. Len(p) \in Nat /\ Len(p) >= 2
    BY <1>1, <2>1, FramedShape, ShapedHas
  <2> DEFINE l == Len(p)
  <2>3. l \in Nat /\ l >= 2
    BY <2>2
  <2> HIDE DEF l
  <2>4. l >= 1
    BY <2>3
  <2> QED BY <2>2, <2>4 DEF l
<1>5. ASSUME NEW k \in 1..m
      PROVE  /\ \/ LinePieces[k] = <<Junk>>
                \/ Stub(c, LinePieces[k])
                \/ \E sender, said : ForeignTo(c, sender) /\ Sent(c, LinePieces[k], sender, said)
                \/ Harmed(c, LinePieces[k])
             /\ Len(LinePieces[k]) \in Nat /\ Len(LinePieces[k]) >= 1
  <2> DEFINE piece == disturbances[k]
             p == LinePieces[k]
  <2>1. piece \in Pieces(c) /\ p = Bytes(c, piece)
    BY <1>1, <1>2
  <2> HIDE DEF piece, p
  <2>2. \/ p = <<Junk>>
        \/ Stub(c, p)
        \/ \E sender, said : ForeignTo(c, sender) /\ Sent(c, p, sender, said)
        \/ Harmed(c, p)
    BY <1>1, <2>1, PieceForms
  <2>3. Len(p) \in Nat /\ Len(p) >= 1
    <3>1. CASE p = <<Junk>>
      <4>1. Len(p) = 1
        BY <3>1, One
      <4> QED BY <4>1
    <3>2. CASE Stub(c, p)
      <4> DEFINE l == Len(p)
      <4>1. l \in {1, 2}
        BY <3>2 DEF Stub
      <4> HIDE DEF l
      <4>2. l \in Nat /\ l >= 1
        BY <4>1
      <4> QED BY <4>2 DEF l
    <3>3. CASE \E sender, said : ForeignTo(c, sender) /\ Sent(c, p, sender, said)
      BY <1>4, <3>3
    <3>4. CASE Harmed(c, p)
      <4>1. Len(p) \in Nat /\ Len(p) >= 3
        BY <1>1, <3>4, HarmedBytes
      <4> DEFINE l == Len(p)
      <4>2. l \in Nat /\ l >= 3
        BY <4>1
      <4> HIDE DEF l
      <4>3. l >= 1
        BY <4>2
      <4> QED BY <4>1, <4>3 DEF l
    <3> QED BY <2>2, <3>1, <3>2, <3>3, <3>4
  <2> QED BY <2>2, <2>3 DEF p
<1> DEFINE n == Count
<1>6. n \in Nat /\ n >= 1 /\ n - 1 = m
  BY <1>1
<1>7. \A k \in 1..n : Len(LinePieces[k]) \in Nat /\ Len(LinePieces[k]) >= 1
  <2> SUFFICES ASSUME NEW k \in 1..n
               PROVE  Len(LinePieces[k]) \in Nat /\ Len(LinePieces[k]) >= 1
    OBVIOUS
  <2>1. CASE k = n
    BY <1>1, <1>3, <1>4, <2>1
  <2>2. CASE k # n
    <3>1. k \in 1..m
      <4> HIDE DEF m, n
      <4> QED BY <1>6, <2>2
    <3> QED BY <1>5, <3>1
  <2> QED BY <2>1, <2>2
<1>8. Solid(line, n, at, LinePieces)
  BY <1>1, <1>6, <1>7 DEF Solid
<1>9. Sent(c, LinePieces[n], Ours, answer)
  BY <1>1, <1>3
<1>10. \A k \in 1..(n - 1) :
         \/ LinePieces[k] = <<Junk>>
         \/ Stub(c, LinePieces[k])
         \/ \E sender, said : ForeignTo(c, sender) /\ Sent(c, LinePieces[k], sender, said)
         \/ Harmed(c, LinePieces[k])
  BY <1>5, <1>6
<1> QED BY <1>8, <1>9, <1>10 DEF Disturbed

\* What the client looks at is the end of what it was given, and nothing else; with the sum
\* check it has accepted nothing but the answer.
SumCheckInvariant ==
  /\ ScannerInvariant
  /\ \E a \in 0..delivered : rx_frame = View(line, a, delivered)
  /\ config.sum_check = TRUE /\ verdict.status = "Complete"
       => verdict.reply = answer /\ delivered = Len(line)

LEMMA EmptyView ==
  ASSUME NEW bytes, IsSeq(bytes), NEW d \in 0..Len(bytes)
  PROVE  View(bytes, d, d) = <<>>
<1> DEFINE v == View(bytes, d, d)
<1>1. d \in Nat /\ d <= Len(bytes) /\ d <= d /\ d - d = 0
  <2>1. Len(bytes) \in Nat
    BY DEF IsSeq
  <2> QED BY <2>1
<1>2. IsSeq(v) /\ Len(v) = d - d
  BY <1>1, ViewIs
<1> HIDE DEF v
<1>3. Len(v) = 0
  BY <1>1, <1>2
<1>4. PICK S : v \in Seq(S)
  BY <1>2 DEF IsSeq
<1>5. v = <<>>
  BY <1>3, <1>4, EmptySeq
<1> QED BY <1>5 DEF v

\* One round of the loop with the sum check.
LEMMA RoundAccepts ==
  ASSUME SumCheckInvariant, scanning, config.sum_check = TRUE, NEW scan,
         scan = DecodeStreamBuffer(config, rx_frame), scan.discard_prefix = 0,
         scan.status = "Complete"
  PROVE  scan.reply = answer /\ delivered = Len(line)
<1> DEFINE d == delivered
<1>1. PICK a \in 0..d : rx_frame = View(line, a, d)
  BY DEF SumCheckInvariant
<1>2. answered = TRUE /\ Buffered /\ answer \in Answers(config)
      /\ disturbances \in Seq(Pieces(config))
  BY DEF SumCheckInvariant, ScannerInvariant
<1>3. PICK at : Laid(line, Count, at, LinePieces)
  BY DEF SumCheckInvariant, ScannerInvariant
<1>4. Disturbed(config, line, Count, at, LinePieces, answer)
  BY <1>2, <1>3, LineDisturbed
<1>5. /\ config \in Configs /\ IsSeq(line) /\ IsSeq(rx_frame)
      /\ d \in 0..Len(line) /\ Len(line) \in Nat
  BY <1>2 DEF Buffered, IsSeq
<1>6. /\ Len(rx_frame) \in Nat /\ Len(rx_frame) >= 1 /\ IsStart(config, rx_frame[1])
      /\ Decode(config, rx_frame).status = "Complete" /\ ~Decode(config, rx_frame).foreign
      /\ scan.reply = Decode(config, rx_frame).reply
  BY <1>5, CompleteAtFront
<1>7. a \in Nat /\ d \in Nat /\ a <= d /\ d <= Len(line)
  BY <1>1, <1>5
<1>8. Len(rx_frame) = d - a /\ \A i \in 1..(d - a) : rx_frame[i] = line[a + i]
  BY <1>1, <1>5, <1>7, ViewIs
<1>9. a < d /\ d \in 1..Len(line) /\ 1 \in 1..(d - a)
  <2> DEFINE l == Len(rx_frame)
  <2>1. l = d - a /\ l >= 1
    BY <1>6, <1>8
  <2> HIDE DEF l, d
  <2> QED BY <1>5, <1>7, <2>1
<1>10. IsStart(config, line[a + 1])
  BY <1>6, <1>8, <1>9
<1>11. AcceptedIsAnswer(config, line, a, d, answer)
  BY <1>4, <1>5, <1>7, <1>9, <1>10, AcceptedAtStart
<1> QED BY <1>1, <1>6, <1>11 DEF AcceptedIsAnswer

LEMMA SumCheckStep == SumCheckInvariant /\ [Next]_vars => SumCheckInvariant'
<1> SUFFICES ASSUME SumCheckInvariant, [Next]_vars PROVE SumCheckInvariant'
  OBVIOUS
<1>1. ScannerInvariant'
  BY ScannerStep DEF SumCheckInvariant
<1>2. Buffered /\ Buffered' /\ IsSeq(line) /\ IsSeq(line') /\ Len(line) \in Nat
      /\ delivered \in 0..Len(line) /\ delivered' \in 0..Len(line')
  BY <1>1 DEF SumCheckInvariant, ScannerInvariant, Buffered, IsSeq
<1>3. ASSUME ~answered, delivered' = delivered, rx_frame' = rx_frame, verdict' = verdict
      PROVE  SumCheckInvariant'
  <2>1. delivered = 0 /\ rx_frame = <<>> /\ verdict.status = "Incomplete"
    BY <1>3 DEF SumCheckInvariant, ScannerInvariant
  <2>2. View(line', 0, 0) = <<>>
    <3>1. Len(line') \in Nat
      BY <1>2 DEF IsSeq
    <3>2. 0 \in 0..Len(line')
      BY <3>1
    <3> QED BY <1>2, <3>2, EmptyView
  <2>3. 0 \in 0..delivered' /\ rx_frame' = View(line', 0, delivered')
    BY <1>3, <2>1, <2>2
  <2> QED BY <1>1, <1>3, <2>1, <2>3 DEF SumCheckInvariant
<1>4. ASSUME NEW piece, Disturb(piece) PROVE SumCheckInvariant'
  BY <1>3, <1>4 DEF Disturb, clientVars
<1>5. CASE Reply
  BY <1>3, <1>5 DEF Reply, clientVars
<1>6. ASSUME NEW size \in 1..Len(line), OnRxBytes(size) PROVE SumCheckInvariant'
  <2>1. /\ verdict.status = "Incomplete" /\ verdict' = verdict
        /\ delivered + size <= Len(line) /\ delivered' = delivered + size
        /\ rx_frame' = rx_frame \o SubSeq(line, delivered + 1, delivered + size)
        /\ line' = line
    BY <1>6 DEF OnRxBytes, lineVars
  <2>2. PICK a \in 0..delivered : rx_frame = View(line, a, delivered)
    BY DEF SumCheckInvariant
  <2>3. a \in Nat /\ delivered \in Nat /\ size \in Nat /\ a <= delivered
        /\ a \in 0..(delivered + size)
    BY <1>2
  <2>4. View(line, a, delivered) \o SubSeq(line, delivered + 1, delivered + size)
          = View(line, a, delivered + size)
    BY <1>2, <2>1, <2>3, ViewGrows
  <2>5. a \in 0..delivered' /\ rx_frame' = View(line', a, delivered')
    BY <2>1, <2>2, <2>3, <2>4
  <2> QED BY <1>1, <2>1, <2>5 DEF SumCheckInvariant
<1>7. CASE ScanRound
  <2> DEFINE scan == DecodeStreamBuffer(config, rx_frame)
  <2>1. /\ scanning /\ Conclude(scan) /\ delivered' = delivered /\ line' = line
        /\ config' = config /\ answer' = answer
    BY <1>7 DEF ScanRound, lineVars
  <2>2. PICK a \in 0..delivered : rx_frame = View(line, a, delivered)
    BY DEF SumCheckInvariant
  <2>3. config \in Configs /\ IsSeq(rx_frame) /\ Len(rx_frame) \in Nat
    BY <1>2 DEF Buffered, IsSeq
  <2>4. scan.discard_prefix \in 0..Len(rx_frame)
    BY <2>3, PrefixIsThere
  <2>5. a \in Nat /\ delivered \in Nat /\ a <= delivered /\ delivered <= Len(line)
        /\ delivered \in 0..delivered
    BY <1>2
  <2>6. Len(rx_frame) = delivered - a
    BY <1>2, <2>2, <2>5, ViewIs
  <2>7. scan.discard_prefix = 0 /\ scan.status = "Complete" /\ config.sum_check = TRUE
          => scan.reply = answer /\ delivered = Len(line)
    BY <2>1, RoundAccepts
  <2> HIDE DEF scan
  <2>8. CASE scan.discard_prefix # 0
    <3> DEFINE size == scan.discard_prefix
               b == a + size
               o == size + 1
    <3>1. /\ rx_frame' = DiscardRxPrefix(rx_frame, size) /\ verdict' = verdict
      BY <2>1, <2>8 DEF Conclude
    <3>2. size \in 0..(delivered - a) /\ ~(size > Len(rx_frame))
      BY <2>3, <2>4, <2>6
    <3> HIDE DEF size
    <3>3. o \in 1..(delivered - a + 1) /\ b \in 0..delivered /\ a + o - 1 = b
      BY <2>5, <3>2
    <3>4. rx_frame' = From(rx_frame, o)
      BY <3>1, <3>2 DEF DiscardRxPrefix
    <3> HIDE DEF o, b
    <3>5. From(View(line, a, delivered), o) = View(line, a + o - 1, delivered)
      BY <1>2, <2>5, <3>3, ViewFrom
    <3>6. rx_frame' = View(line', b, delivered') /\ b \in 0..delivered'
      BY <2>1, <2>2, <3>3, <3>4, <3>5
    <3> QED BY <1>1, <2>1, <3>1, <3>6 DEF SumCheckInvariant
  <2>9. CASE scan.discard_prefix = 0
    <3>1. /\ rx_frame' = IF scan.status = "Incomplete" THEN rx_frame ELSE <<>>
          /\ verdict' = [status |-> scan.status, reply |-> scan.reply]
      BY <2>1, <2>9 DEF Conclude
    <3>2. verdict'.status = scan.status /\ verdict'.reply = scan.reply
      BY <3>1
    <3>3. \E z \in 0..delivered' : rx_frame' = View(line', z, delivered')
      <4>1. View(line, delivered, delivered) = <<>>
        BY <1>2, EmptyView
      <4> QED BY <2>1, <2>2, <2>5, <3>1, <4>1
    <3> QED BY <1>1, <2>1, <2>7, <2>9, <3>2, <3>3 DEF SumCheckInvariant
  <2> QED BY <2>8, <2>9
<1>8. CASE UNCHANGED vars
  BY <1>1, <1>8 DEF SumCheckInvariant, vars, lineVars, clientVars
<1> QED BY <1>4, <1>5, <1>6, <1>7, <1>8 DEF Next

THEOREM SumCheckInvariantHolds == Spec => []SumCheckInvariant
<1>1. Init => SumCheckInvariant
  <2> SUFFICES ASSUME Init PROVE SumCheckInvariant
    OBVIOUS
  <2>1. ScannerInvariant
    BY InitScannerInvariant
  <2>2. delivered = 0 /\ rx_frame = <<>> /\ verdict.status = "Incomplete"
    BY DEF Init
  <2>3. IsSeq(line) /\ 0 \in 0..Len(line)
    BY <2>1, <2>2 DEF ScannerInvariant, Buffered
  <2>4. View(line, 0, 0) = <<>>
    BY <2>3, EmptyView
  <2>5. 0 \in 0..delivered /\ rx_frame = View(line, 0, delivered)
    BY <2>2, <2>4
  <2> QED BY <2>1, <2>2, <2>5 DEF SumCheckInvariant
<1> QED BY <1>1, SumCheckStep, PTL DEF Spec

\* A request ends with the answer to it, whole, and with no other reply: on any line with
\* the sum check, on an undamaged one without it, too.
THEOREM OnlyTheAnswerIsAcceptedHolds == Spec => []OnlyTheAnswerIsAccepted
<1>1. SumCheckInvariant => OnlyTheAnswerIsAccepted
  <2> SUFFICES ASSUME SumCheckInvariant, verdict.status = "Complete",
                      config.sum_check \/ Undamaged
               PROVE  verdict.reply = answer /\ delivered = Len(line)
    BY DEF OnlyTheAnswerIsAccepted
  <2>1. config.sum_check \in BOOLEAN
    BY DEF SumCheckInvariant, ScannerInvariant, Buffered, Configs
  <2>2. CASE config.sum_check
    BY <2>1, <2>2 DEF SumCheckInvariant
  <2>3. CASE Undamaged
    BY <2>3 DEF SumCheckInvariant, ScannerInvariant, Reading
  <2> QED BY <2>2, <2>3
<1> QED BY <1>1, SumCheckInvariantHolds, PTL

-----------------------------------------------------------------------------
(* FrameSizes: the sizes computed beforehand and the frames written.       *)

LEMMA ProtocolSplit ==
  ASSUME NEW c \in ProtocolConfigs
  PROVE  /\ c.frame \in FrameKinds /\ c.format \in Formats
         /\ ~IsAscii(c) => c.frame = "C4"
         /\ c.frame = "C1" => c.format # "Format2"
BY DEF ProtocolConfigs, UsesBlockNumber

\* encode_ascii_route writes as many characters as ascii_route_length says.
LEMMA RouteLengths ==
  ASSUME NEW frame \in FrameKinds
  PROVE  /\ AsciiRoute(frame) = AsciiRouteLength(frame) /\ AsciiRoute(frame) \in 4..14
         /\ AsciiFrameIdLength(frame) \in {0, 2}
         /\ frame = "C1" => AsciiFrameIdLength(frame) = 0 /\ AsciiRoute(frame) = 4
         /\ EndCodeLength(frame) \in 0..4 /\ ErrorCodeWidth(frame) \in 0..4
BY DEF FrameKinds, AsciiRoute, AsciiRouteLength, AsciiFrameIdLength, EndCodeLength,
       ErrorCodeWidth

\* The prefix of a frame is as long as the capacity checks take it to be.
LEMMA PrefixIsForeseen ==
  ASSUME NEW c \in ProtocolConfigs
  PROVE  /\ AsciiPrefix(c) = BlockNumberLength(c) + AsciiHeaderLength(c.frame)
         /\ c.frame = "C1" => AsciiPrefix(c) = 4
         /\ AsciiPrefix(c) \in 4..(16 + BlockNumberLength(c))
         /\ AsciiHeaderLength(c.frame) \in Nat
<1>1. BlockNumberLength(c) = (IF c.format = "Format2" THEN 2 ELSE 0)
  BY DEF BlockNumberLength, UsesBlockNumber
<1> QED BY <1>1, ProtocolSplit, RouteLengths DEF AsciiPrefix, AsciiHeaderLength

LEMMA EnvelopeLengths ==
  ASSUME NEW c \in ProtocolConfigs
  PROVE  /\ BlockNumberLength(c) \in {0, 2} /\ SumCheckLength(c) \in {0, 2}
         /\ CrlfLength(c) \in {0, 2} /\ BlockNumberLength(c) + CrlfLength(c) <= 2
         /\ ~IsEnqFamily(c) => BlockNumberLength(c) = 0 /\ CrlfLength(c) = 0
BY DEF BlockNumberLength, SumCheckLength, CrlfLength, UsesBlockNumber, IsEnqFamily

\* validate_request_capacity_validated computes the size of the very frame that
\* encode_request_validated writes, in binary if every byte of its payload is a DLE.
THEOREM RequestSizeIsForeseen ==
  ASSUME NEW c \in ProtocolConfigs, NEW n \in Nat
  PROVE  RequestFrameSize(c, n, RequestPayloadSize(c, n)) = RequestWireSize(c, n)
<1>1. CASE IsAscii(c)
  BY <1>1, PrefixIsForeseen, EnvelopeLengths
     DEF RequestFrameSize, RequestPayloadSize, RequestWireSize
<1>2. CASE ~IsAscii(c)
  BY <1>2, EnvelopeLengths
     DEF RequestFrameSize, RequestPayloadSize, RequestWireSize, BinaryFrameSize, BinaryPrefix,
         BinaryRouteLength
<1> QED BY <1>1, <1>2

\* encode_request_validated succeeds with every request that was admitted, however many of its
\* bytes are DLEs (CHANGELOG.md:103-104: "preflighted against complete request, worst-case
\* binary DLE expansion").
THEOREM AdmittedRequestIsEncoded ==
  ASSUME NEW c \in ProtocolConfigs, NEW n \in Nat, RequestAdmitted(c, n),
         NEW doubled \in 0..RequestPayloadSize(c, n)
  PROVE  RequestEncodes(c, n, doubled)
<1>1. RequestWireSize(c, n) <= MaxRequestFrameBytes
  BY DEF RequestAdmitted
<1>2. RequestPayloadSize(c, n) \in Nat
  BY PrefixIsForeseen, EnvelopeLengths DEF RequestPayloadSize, BinaryPrefix
<1>3. /\ RequestPayloadSize(c, n) <= RequestFrameSize(c, n, doubled)
      /\ RequestFrameSize(c, n, doubled) <= RequestFrameSize(c, n, RequestPayloadSize(c, n))
      /\ RequestFrameSize(c, n, doubled) \in Nat
      /\ RequestFrameSize(c, n, RequestPayloadSize(c, n)) \in Nat
  BY <1>2, EnvelopeLengths DEF RequestFrameSize, BinaryFrameSize
<1> QED BY <1>1, <1>2, <1>3, RequestSizeIsForeseen, FrameSizesAssumption DEF RequestEncodes

\* A request whose data fit and which is refused all the same (validate_request_capacity_validated)
\* would not have fitted: its frame, with every byte of the payload a DLE, is too large.
THEOREM RefusedRequestIsTooLarge ==
  ASSUME NEW c \in ProtocolConfigs, NEW n \in Nat, n <= MaxRequestDataBytes,
         ~RequestAdmitted(c, n)
  PROVE  ~RequestEncodes(c, n, RequestPayloadSize(c, n))
BY RequestSizeIsForeseen DEF RequestAdmitted, RequestEncodes

LEMMA SuccessIsForeseen ==
  ASSUME NEW c \in ProtocolConfigs, NEW n \in Nat, NEW doubled \in 0..AnswerPayloadSize(n)
  PROVE  SuccessFrameSize(c, n, doubled) <= ResponseWireSize(c, n)
<1>1. EndCodeLength(c.frame) \in 0..4
  BY ProtocolSplit, RouteLengths
<1>2. CASE ~IsAscii(c)
  BY <1>2, EnvelopeLengths
     DEF SuccessFrameSize, BinaryFrameSize, AnswerPayloadSize, BinaryPrefix, ResponseWireSize,
         BinaryRouteLength
<1>3. CASE IsAscii(c) /\ IsEnqFamily(c)
  BY <1>3, PrefixIsForeseen, EnvelopeLengths DEF SuccessFrameSize, ResponseWireSize
<1>4. CASE IsAscii(c) /\ ~IsEnqFamily(c)
  BY <1>1, <1>4, PrefixIsForeseen, EnvelopeLengths DEF SuccessFrameSize, ResponseWireSize
<1> QED BY <1>2, <1>3, <1>4

\* An error answer may be longer than the answer that is expected, but not in binary.
LEMMA ErrorIsShort ==
  ASSUME NEW c \in ProtocolConfigs, NEW n \in Nat, NEW doubled \in 0..AnswerPayloadSize(0)
  PROVE  ErrorFrameSize(c, doubled) <= 27 \/ ErrorFrameSize(c, doubled) <= ResponseWireSize(c, n)
<1>1. CASE ~IsAscii(c)
  BY <1>1, EnvelopeLengths
     DEF ErrorFrameSize, BinaryFrameSize, AnswerPayloadSize, BinaryPrefix, ResponseWireSize,
         BinaryRouteLength
<1>2. CASE IsAscii(c)
  BY <1>2, ProtocolSplit, RouteLengths, PrefixIsForeseen, EnvelopeLengths DEF ErrorFrameSize
<1> QED BY <1>1, <1>2

\* The answer to an admitted request, with the expected data or with an error code, fits
\* rx_frame_: no request is sent whose answer on_rx_bytes could only drop as an overflow.
THEOREM AdmittedAnswerFits ==
  ASSUME NEW c \in ProtocolConfigs, NEW n \in Nat, ResponseAdmitted(c, n)
  PROVE  /\ \A doubled \in 0..AnswerPayloadSize(n) :
              SuccessFrameSize(c, n, doubled) <= MaxResponseFrameBytes
         /\ \A doubled \in 0..AnswerPayloadSize(0) :
              ErrorFrameSize(c, doubled) <= MaxResponseFrameBytes
<1>1. ResponseWireSize(c, n) <= MaxResponseFrameBytes
  BY DEF ResponseAdmitted
<1>2. EndCodeLength(c.frame) \in Nat /\ ErrorCodeWidth(c.frame) \in Nat
  BY ProtocolSplit, RouteLengths
<1>3. ResponseWireSize(c, n) \in Nat
  BY <1>2, PrefixIsForeseen, EnvelopeLengths DEF ResponseWireSize, BinaryRouteLength
<1>4. ASSUME NEW doubled \in 0..AnswerPayloadSize(n)
      PROVE  SuccessFrameSize(c, n, doubled) <= MaxResponseFrameBytes
  <2>1. SuccessFrameSize(c, n, doubled) \in Nat
    BY <1>2, PrefixIsForeseen, EnvelopeLengths
       DEF SuccessFrameSize, BinaryFrameSize, AnswerPayloadSize, BinaryPrefix
  <2> QED BY <1>1, <1>3, <2>1, SuccessIsForeseen, FrameSizesAssumption
<1>5. ASSUME NEW doubled \in 0..AnswerPayloadSize(0)
      PROVE  ErrorFrameSize(c, doubled) <= MaxResponseFrameBytes
  <2>1. ErrorFrameSize(c, doubled) \in Nat
    BY <1>2, PrefixIsForeseen, EnvelopeLengths
       DEF ErrorFrameSize, BinaryFrameSize, AnswerPayloadSize, BinaryPrefix
  <2> QED BY <1>1, <1>3, <2>1, ErrorIsShort, FrameSizesAssumption
<1> QED BY <1>4, <1>5
=============================================================================
