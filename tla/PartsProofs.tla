------------------------------- MODULE PartsProofs -------------------------------
(***************************************************************************)
(* Proofs about the parts of the library that stand alone: the status of a *)
(* storage, messages, the sizes of nodes, and buffers, for every content   *)
(* of a header, every length, every target size, every size of a value and *)
(* any number of buffers.                                                  *)
(***************************************************************************)
EXTENDS Buffer, Messages, Sts, NodeSizes, SequenceTheorems, TLAPS

(***************************************************************************)
(* The status of a storage: whatever the calls before, one that returns    *)
(* leaves no bit raised that is in the mask (sts.h).                       *)
(***************************************************************************)
THEOREM ReturnsClean == StsSpec => []ReturnedIsClean
<1>1. StsInit => ReturnedIsClean
  BY DEF StsInit, ReturnedIsClean, goodbit, fail
<1>2. ReturnedIsClean /\ [StsNext]_stsVars => ReturnedIsClean'
  <2> SUFFICES ASSUME ReturnedIsClean, [StsNext]_stsVars
               PROVE  (~thrown => state \cap exception = {})'
    BY DEF ReturnedIsClean, fail
  <2>1. ASSUME NEW f, clear(f) \/ setstate(f) PROVE ~thrown' => state' \cap exception' = {}
    BY <2>1 DEF clear, setstate, ClearTo
  <2>2. ASSUME NEW f, exceptions(f) PROVE ~thrown' => state' \cap exception' = {}
    BY <2>2 DEF exceptions, ClearTo
  <2>3. CASE UNCHANGED stsVars
    BY <2>3 DEF stsVars, ReturnedIsClean
  <2> QED
    BY <2>1, <2>2, <2>3 DEF StsNext
<1> QED
  BY <1>1, <1>2, PTL DEF StsSpec

-------------------------------------------------------------------------------
\* Messages.

\* A span ends where the first character of another kind is, or with s.
LEMMA SpanEnds ==
  ASSUME NEW s \in Seq(Int), NEW chars, NEW k \in 0..Len(s),
         \A i \in 1..k : s[i] \in chars,
         k < Len(s) => s[k + 1] \notin chars
  PROVE  Span(s, chars) = k
<1> DEFINE Others == {i \in 1..Len(s) : s[i] \notin chars}
           first == IF Others # {} THEN Min(Others) ELSE 0
<1>1. Span(s, chars) = IF first = 0 THEN Len(s) ELSE first - 1
  BY DEF Span, SelectInSeq
<1>2. CASE k = Len(s)
  <2>1. Others = {}
    BY <1>2
  <2> QED
    BY <1>1, <1>2, <2>1
<1>3. CASE k < Len(s)
  <2>1. k + 1 \in Others /\ \A i \in Others : k + 1 <= i
    BY <1>3
  <2>2. Min(Others) = k + 1
    <3> HIDE DEF Others
    <3>1. \A x \in Others, y \in Others : x \in Int /\ y \in Int
      BY DEF Others
    <3> QED
      BY <2>1, <3>1 DEF Min
  <2> QED
    BY <1>1, <1>3, <2>1, <2>2
<1> QED
  BY <1>2, <1>3

LEMMA SpanTyped ==
  ASSUME NEW s \in Seq(Int), Len(s) <= header_length, NEW chars
  PROVE  /\ DropSpan(s, chars) \in Seq(Int) /\ Len(DropSpan(s, chars)) <= header_length
         /\ TakeSpan(s, chars) \in Seq(Int) /\ Len(TakeSpan(s, chars)) <= header_length
<1>1. Span(s, chars) \in 0..Len(s)
  <2>0. Len(s) \in Nat /\ Len(s) < 5
    BY DEF header_length
  <2>1. CASE Len(s) >= 1 /\ s[1] \notin chars
    <3>1. Span(s, chars) = 0
      BY <2>1, SpanEnds
    <3> QED
      BY <3>1
  <2>2. CASE Len(s) >= 2 /\ s[1] \in chars /\ s[2] \notin chars
    <3>1. Span(s, chars) = 1
      BY <2>2, SpanEnds
    <3> QED
      BY <2>2, <3>1
  <2>3. CASE Len(s) >= 3 /\ s[1] \in chars /\ s[2] \in chars /\ s[3] \notin chars
    <3>1. Span(s, chars) = 2
      BY <2>3, SpanEnds, SMTT(30)
    <3> QED
      BY <2>3, <3>1
  <2>4. CASE Len(s) >= 4 /\ s[1] \in chars /\ s[2] \in chars /\ s[3] \in chars /\ s[4] \notin chars
    <3>1. Span(s, chars) = 3
      BY <2>4, SpanEnds, SMTT(30)
    <3> QED
      BY <2>4, <3>1
  <2>5. CASE \A i \in 1..Len(s) : s[i] \in chars
    <3>1. Span(s, chars) = Len(s)
      BY <2>0, <2>5, SpanEnds
    <3> QED
      BY <2>0, <3>1
  <2> QED
    BY <2>0, <2>1, <2>2, <2>3, <2>4, <2>5, SMTT(30)
<1>2. SubSeq(s, 1, Span(s, chars)) \in Seq(Int) /\ Len(SubSeq(s, 1, Span(s, chars))) <= Len(s)
  BY <1>1
<1>3. /\ SubSeq(s, Span(s, chars) + 1, Len(s)) \in Seq(Int)
      /\ Len(SubSeq(s, Span(s, chars) + 1, Len(s))) <= Len(s)
  BY <1>1
<1> QED
  BY <1>2, <1>3 DEF DropSpan, TakeSpan, header_length

LEMMA Places ==
  Place[1] = 1000 /\ Place[2] = 100 /\ Place[3] = 10 /\ Place[4] = 1
BY DEF Place

\* What is read is a number, whatever the characters.
LEMMA AtoiTyped ==
  ASSUME NEW s \in Seq(Int), Len(s) <= header_length
  PROVE  atoi(s) \in Int
<1>1. ASSUME NEW d \in Seq(Int), Len(d) <= header_length PROVE Number(d) \in Int
  <2> DEFINE at(i) == LET j == Len(d) - (header_length - i)
                      IN IF j >= 1 THEN Place[i] * (d[j] - 48) ELSE 0
  <2>1. ASSUME NEW i \in 1..4 PROVE at(i) \in Int
    <3>1. Place[i] \in Int
      BY Places
    <3>2. Len(d) - (4 - i) >= 1 => d[Len(d) - (4 - i)] \in Int
      BY <1>1 DEF header_length
    <3> QED
      BY <3>1, <3>2, SMTT(30) DEF header_length
  <2>2. Number(d) = at(1) + at(2) + at(3) + at(4)
    BY DEF Number
  <2> HIDE DEF at
  <2> QED
    BY <2>1, <2>2
<1> DEFINE number == DropSpan(s, Blanks)
           signed == number # <<>> /\ Head(number) \in {Plus, Minus}
           unsigned == IF signed THEN Tail(number) ELSE number
           value == Number(TakeSpan(unsigned, Digits))
<1>2. number \in Seq(Int) /\ Len(number) <= header_length
  BY SpanTyped
<1>3. unsigned \in Seq(Int) /\ Len(unsigned) <= header_length
  BY <1>2 DEF header_length
<1>4. value \in Int
  BY <1>1, <1>3, SpanTyped
<1>5. atoi(s) = IF signed /\ Head(number) = Minus THEN -value ELSE value
  BY DEF atoi
<1> HIDE DEF value
<1> QED
  BY <1>4, <1>5

\* A quotient fits below its dividend.
LEMMA Quotient ==
  ASSUME NEW a \in Nat, NEW b \in Nat \ {0}
  PROVE  a \div b \in Nat /\ (a \div b) * b <= a
BY SMT

\* The digits of a number of up to four digits.
LEMMA DecimalDigits ==
  ASSUME NEW n \in Nat, n < 10000
  PROVE  /\ n + 0 = 1000 * ((n \div 1000) % 10) + 100 * ((n \div 100) % 10)
                   + 10 * ((n \div 10) % 10) + ((n \div 1) % 10)
         /\ \A m \in Nat \ {0} : (n \div m) % 10 \in Nat /\ (n \div m) % 10 < 10
         /\ n < 1000 => (n \div 1000) % 10 = 0
         /\ n < 100 => (n \div 100) % 10 = 0
         /\ n < 10 => (n \div 10) % 10 = 0
<1>1. n + 0 = 10 * (n \div 10) + (n % 10)
  OBVIOUS
<1>2. (n \div 10) + 0 = 10 * (n \div 100) + ((n \div 10) % 10)
  OBVIOUS
<1>3. (n \div 100) + 0 = 10 * (n \div 1000) + ((n \div 100) % 10)
  OBVIOUS
<1>4. (n \div 1000) + 0 = ((n \div 1000) % 10) + 0
  OBVIOUS
<1>5. (n % 10) + 0 = ((n \div 1) % 10) + 0
  OBVIOUS
<1>6. \A m \in Nat \ {0} : (n \div m) % 10 \in Nat /\ (n \div m) % 10 < 10
  <2>1. \A q \in Nat : q % 10 \in Nat /\ q % 10 < 10
    OBVIOUS
  <2>2. \A m \in Nat \ {0} : n \div m \in Nat
    BY Quotient
  <2> QED
    BY <2>1, <2>2
<1>7. /\ n < 1000 => (n \div 1000) % 10 = 0
      /\ n < 100 => (n \div 100) % 10 = 0
      /\ n < 10 => (n \div 10) % 10 = 0
  OBVIOUS
<1> QED
  BY <1>1, <1>2, <1>3, <1>4, <1>5, <1>6, <1>7

\* What is left of a sequence without its first k elements.
LEMMA RestOf ==
  ASSUME NEW q \in Seq(Int), NEW k \in Nat, k <= Len(q)
  PROVE  /\ SubSeq(q, k + 1, Len(q)) \in Seq(Int)
         /\ Len(SubSeq(q, k + 1, Len(q))) = Len(q) - k
         /\ \A j \in 1..Len(q) - k : SubSeq(q, k + 1, Len(q))[j] = q[j + k]
  OBVIOUS

\* atoi reads what sprintf wrote, for numbers of up to four digits.
LEMMA FormattedIsRead ==
  ASSUME NEW n \in Nat, n < 10000
  PROVE  /\ Formatted(n) \in [1..header_length -> Int]
         /\ atoi(Formatted(n)) = n
<1> DEFINE s == Formatted(n)
           digit(i) == (n \div Place[i]) % 10
<1>0. header_length \in Nat /\ header_length <= 4 /\ header_length >= 4
  BY DEF header_length
<1>1. n + 0 = 1000 * digit(1) + 100 * digit(2) + 10 * digit(3) + digit(4)
  BY DecimalDigits, Places
<1>2. \A i \in 1..4 : digit(i) \in Nat /\ digit(i) < 10
  BY DecimalDigits, Places
<1>3. (n < 1000 => digit(1) = 0) /\ (n < 100 => digit(2) = 0) /\ (n < 10 => digit(3) = 0)
  BY DecimalDigits, Places
<1>4. s = [i \in 1..header_length |->
            IF i = header_length \/ n >= Place[i] THEN 48 + digit(i) ELSE 32]
  BY DEF Formatted
<1> HIDE DEF s, digit
<1>5. s \in [1..header_length -> Int]
  BY <1>0, <1>2, <1>4
<1>6. s \in Seq(Int) /\ Len(s) = header_length
  <2>1. header_length \in Nat
    BY <1>0
  <2> QED
    BY <1>5, <2>1
\* How many blanks there are.
<1>7. PICK k \in Nat : /\ k < 4
                      /\ \A i \in 1..4 : IF i > k THEN s[i] = 48 + digit(i)
                                                   ELSE s[i] = 32 /\ digit(i) = 0
  <2>0. \A i \in 1..4 : s[i] = IF i = 4 \/ n >= Place[i] THEN 48 + digit(i) ELSE 32
    BY <1>0, <1>4
  <2>1. CASE n >= 1000
    BY <2>0, <2>1, Places
  <2>2. CASE n < 1000 /\ n >= 100
    BY <1>3, <2>0, <2>2, Places
  <2>3. CASE n < 100 /\ n >= 10
    BY <1>3, <2>0, <2>3, Places
  <2>4. CASE n < 10
    BY <1>3, <2>0, <2>4, Places
  <2> QED
    BY <2>1, <2>2, <2>3, <2>4
<1> DEFINE number == SubSeq(s, k + 1, Len(s))
<1>8. /\ number \in Seq(Int) /\ Len(number) = header_length - k
      /\ \A j \in 1..header_length - k : number[j] = s[j + k]
  <2>1. k \in Nat /\ k <= Len(s) /\ Len(s) = header_length
    BY <1>0, <1>6, <1>7
  <2> HIDE DEF number
  <2>2. /\ number \in Seq(Int) /\ Len(number) = Len(s) - k
        /\ \A j \in 1..Len(s) - k : number[j] = s[j + k]
    BY <1>6, <2>1, RestOf DEF number
  <2> QED
    BY <2>1, <2>2
<1>9. DropSpan(s, Blanks) = number
  <2>1. (\A i \in 1..k : s[i] \in Blanks) /\ s[k + 1] \notin Blanks
    BY <1>2, <1>7 DEF Blanks
  <2>2. Span(s, Blanks) = k
    <3>1. k \in 0..Len(s)
      BY <1>0, <1>6, <1>7
    <3>2. s \in Seq(Int)
      BY <1>6
    <3> QED
      BY <2>1, <3>1, <3>2, SpanEnds
  <2> QED
    BY <2>2 DEF DropSpan
<1> HIDE DEF number
<1>10. number # <<>> /\ Head(number) = 48 + digit(k + 1)
  BY <1>0, <1>7, <1>8, SMTT(30)
<1>11. TakeSpan(number, Digits) = number
  <2>1. ASSUME NEW j \in 1..Len(number) PROVE number[j] \in Digits
    <3>1. j + k \in 1..4 /\ j + k > k
      BY <1>0, <1>7, <1>8
    <3>2. number[j] = 48 + digit(j + k)
      BY <1>7, <1>8, <3>1, SMTT(30)
    <3>3. \A x \in Nat : x < 10 => 48 + x \in Digits
      BY DEF Digits
    <3> QED
      BY <1>2, <3>1, <3>2, <3>3
  <2>2. Span(number, Digits) = Len(number)
    <3>1. number \in Seq(Int) /\ Len(number) \in 0..Len(number)
      BY <1>8
    <3> QED
      BY <2>1, <3>1, SpanEnds
  <2> QED
    BY <1>8, <2>2, SubSeqFull DEF TakeSpan
<1>12. Number(number) = n
  <2> DEFINE at(i) == LET j == Len(number) - (header_length - i)
                      IN IF j >= 1 THEN Place[i] * (number[j] - 48) ELSE 0
  <2>1. ASSUME NEW i \in 1..4 PROVE at(i) = Place[i] * digit(i)
    <3>0. Len(number) - (header_length - i) = i - k
      BY <1>0, <1>8
    <3>1. CASE i > k
      <4>0. i - k \in 1..header_length - k /\ (i - k) + k = i
        BY <1>0, <1>7, <3>1
      <4>1. number[i - k] = 48 + digit(i)
        BY <1>7, <1>8, <3>1, <4>0
      <4>2. number[i - k] - 48 = digit(i)
        BY <1>2, <4>1
      <4> QED
        BY <3>0, <3>1, <4>2
    <3>2. CASE i <= k
      BY <1>7, <3>0, <3>2, Places
    <3> QED
      BY <3>1, <3>2
  <2>2. Number(number) = at(1) + at(2) + at(3) + at(4)
    BY DEF Number
  <2> HIDE DEF at
  <2> QED
    BY <1>1, <1>2, <2>1, <2>2, Places
<1>13. atoi(s) = n
  <2>1. Head(number) \notin {Plus, Minus}
    BY <1>2, <1>7, <1>10, SMTT(30) DEF Plus, Minus
  <2> QED
    BY <1>9, <1>10, <1>11, <1>12, <2>1 DEF atoi
<1> QED
  BY <1>5, <1>13 DEF s

LEMMA LengthsSmall ==
  /\ header_length \in Nat /\ max_body_length \in Nat /\ max_body_length < 10000
  /\ max_body_length < SizeModulus
BY SizeModulusAssumption DEF header_length, max_body_length

LEMMA HeadersTyped == Headers \subseteq [1..header_length -> Int]
<1>1. Chars \subseteq Int
  BY CharsAssumption
<1> QED
  BY <1>1 DEF Headers

\* A length that is refused is not kept, one that is accepted fits.
LEMMA DecodeFits ==
  ASSUME header \in [1..header_length -> Int], DecodeHeader
  PROVE  /\ body_length' \in 0..max_body_length
         /\ decoded' \in {"refused", "accepted"}
         /\ \A n \in 0..max_body_length :
              atoi(header) = n => decoded' = "accepted" /\ body_length' = n
<1>1. header \in Seq(Int) /\ Len(header) <= header_length
  BY LengthsSmall
<1>2. atoi(header) \in Int
  BY <1>1, AtoiTyped
<1>3. \A n \in Int : AsSize(n) \in Nat
  BY SizeModulusAssumption DEF AsSize
<1>4. \A n \in 0..max_body_length : AsSize(n) = n
  BY LengthsSmall, SizeModulusAssumption DEF AsSize
<1> DEFINE length == AsSize(atoi(header))
<1>5. IF length > max_body_length
      THEN body_length' = 0 /\ decoded' = "refused"
      ELSE body_length' = length /\ decoded' = "accepted"
  BY DEF DecodeHeader
<1>6. length \in Nat
  BY <1>2, <1>3
<1>7. \A n \in 0..max_body_length : atoi(header) = n => length = n
  BY <1>4
<1> HIDE DEF length
<1> QED
  BY <1>5, <1>6, <1>7, LengthsSmall

LEMMA CappedFits ==
  ASSUME NEW n \in Nat
  PROVE  Capped(n) \in 0..max_body_length
BY LengthsSmall DEF Capped

\* A header that was just encoded.
LEMMA Encoded ==
  ASSUME NEW n \in 0..max_body_length, header' = Formatted(n), framed' = n, decoded' = NoAnswer
  PROVE  header' \in [1..header_length -> Int] /\ FramedHolds' /\ FramedIsRecovered'
<1>1. n \in Nat /\ n < 10000
  BY LengthsSmall
<1> QED
  BY <1>1, FormattedIsRead DEF FramedHolds, FramedIsRecovered

LEMMA MessageNextIInv == MessageIInv /\ [MessageNext]_messageVars => MessageIInv'
<1> SUFFICES ASSUME MessageIInv, [MessageNext]_messageVars PROVE MessageIInv'
  OBVIOUS
<1>1. /\ header \in [1..header_length -> Int] /\ body_length \in 0..max_body_length
      /\ FramedHolds /\ FramedIsRecovered
  BY DEF MessageIInv, BodyFits
<1>2. ASSUME NEW length \in BodyLengths, SetBodyLength(length) PROVE MessageIInv'
  <2>1. body_length' \in 0..max_body_length
    BY <1>2, CappedFits, MessageLengthsAssumption DEF SetBodyLength
  <2> QED
    BY <1>1, <1>2, <2>1 DEF SetBodyLength, MessageIInv, BodyFits, FramedHolds, FramedIsRecovered
<1>3. ASSUME NEW length \in Lines, ReadLine(length) PROVE MessageIInv'
  <2>1. Capped(length) \in 0..max_body_length
    BY CappedFits, MessageLengthsAssumption
  <2> QED
    BY <1>3, <2>1, Encoded DEF ReadLine, MessageIInv, BodyFits
<1>4. CASE EncodeHeader
  BY <1>1, <1>4, Encoded DEF EncodeHeader, MessageIInv, BodyFits
<1>5. CASE ReadData
  <2>1. header' \in [1..header_length -> Int]
    BY <1>5, HeadersTyped DEF ReadData
  <2> QED
    BY <1>1, <1>5, <2>1 DEF ReadData, MessageIInv, BodyFits, FramedHolds, FramedIsRecovered
<1>6. CASE DecodeHeader
  <2>1. UNCHANGED <<header, framed>>
    BY <1>6 DEF DecodeHeader
  <2>2. FramedIsRecovered'
    <3> SUFFICES ASSUME framed # NotFramed
                 PROVE  decoded' = "accepted" /\ body_length' = framed
      BY <2>1 DEF FramedIsRecovered
    <3>1. framed \in 0..max_body_length /\ header = Formatted(framed)
      BY <1>1 DEF FramedHolds
    <3>2. framed \in Nat /\ framed < 10000
      BY <3>1, LengthsSmall
    <3>3. atoi(header) = framed
      BY <3>1, <3>2, FormattedIsRead
    <3> QED
      BY <1>1, <1>6, <3>1, <3>3, DecodeFits
  <2> QED
    BY <1>1, <1>6, <2>1, <2>2, DecodeFits DEF MessageIInv, BodyFits, FramedHolds
<1>7. CASE StopReading \/ UNCHANGED messageVars
  BY <1>1, <1>7 DEF StopReading, messageVars, MessageIInv, BodyFits, FramedHolds, FramedIsRecovered
<1> QED
  BY <1>2, <1>3, <1>4, <1>5, <1>6, <1>7, Zenon DEF MessageNext

LEMMA MessageSpecIInv == MessageSpec => []MessageIInv
<1>1. MessageInit => MessageIInv
  <2> SUFFICES ASSUME MessageInit PROVE MessageIInv
    OBVIOUS
  <2>1. header \in [1..header_length -> Int]
    BY HeadersTyped DEF MessageInit
  <2>2. body_length \in 0..max_body_length
    BY LengthsSmall DEF MessageInit
  <2> QED
    BY <2>1, <2>2 DEF MessageInit, MessageIInv, BodyFits, FramedHolds, FramedIsRecovered
<1> QED
  BY <1>1, MessageNextIInv, PTL DEF MessageSpec

(***************************************************************************)
(* The body lies within the array whatever characters a header is decoded  *)
(* from, on a machine with any size_t that holds four digits (message.h).  *)
(***************************************************************************)
THEOREM BodyAlwaysFits == MessageSpec => []BodyFits
<1>1. MessageIInv => BodyFits
  BY DEF MessageIInv
<1> QED
  BY <1>1, MessageSpecIInv, PTL

(***************************************************************************)
(* decode_header reads from a header what encode_header wrote to it, for   *)
(* every length of a body and of a line.                                   *)
(***************************************************************************)
THEOREM FramesRecovered == MessageSpec => []FramedIsRecovered
<1>1. MessageIInv => FramedIsRecovered
  BY DEF MessageIInv
<1> QED
  BY <1>1, MessageSpecIInv, PTL

-------------------------------------------------------------------------------
\* Node sizes.

\* What the template arguments are.
LEMMA ParamsType ==
  ASSUME NEW p \in NodeParams
  PROVE  /\ p.pointer \in {4, 8} /\ p.target \in Nat /\ p.value \in Nat \ {0}
         /\ p.slot \in Nat /\ p.slot >= p.value /\ p.slot <= 2 * p.value - 1
<1>1. p \in [pointer : {4, 8}, target : TargetNodeSizes, value : ValueSizes,
              slot : UNION {v..(2 * v - 1) : v \in ValueSizes}]
  BY DEF NodeParams
<1>2. p.pointer \in {4, 8} /\ p.target \in Nat /\ p.value \in Nat \ {0}
  BY <1>1, NodeSizesAssumption
<1>3. p.slot \in p.value..(2 * p.value - 1)
  BY DEF NodeParams
<1> QED
  BY <1>2, <1>3

\* The fields of a node by machine and type of the counts.
LEMMA BaseFields ==
  ASSUME NEW p \in NodeParams
  PROVE  /\ ByteCounts(p) => sizeof_base_fields(p) = 2 * p.pointer
         /\ sizeof_base_fields(p) \in {8, 12, 16}
         /\ sizeof_base_fields(p) >= 2 * p.pointer
<1>1. p.pointer \in {4, 8}
  BY ParamsType
<1>2. CASE p.pointer = 4
  BY <1>2 DEF sizeof_base_fields, Aligned
<1>3. CASE p.pointer = 8
  BY <1>3 DEF sizeof_base_fields, Aligned
<1> QED
  BY <1>1, <1>2, <1>3

\* With counts of 8 bits the guess of the fields is exact, and there are fewer
\* than 256 values because there is room for fewer; else 16 bits are given.
LEMMA ReasonableCompiles ==
  ASSUME NEW p \in NodeParams, Reasonable(p)
  PROVE  Compiles(p)
<1> DEFINE fields == sizeof_base_fields(p)
<1>1. /\ p.pointer \in {4, 8} /\ p.target \in Nat
      /\ fields \in {8, 12, 16} /\ fields >= 2 * p.pointer
      /\ ByteCounts(p) => fields = 2 * p.pointer
  BY ParamsType, BaseFields
<1>2. p.target >= fields /\ kNodeTargetValues(p) < 65536
  BY DEF Reasonable
<1>3. ByteCounts(p) => kNodeTargetValues(p) < 256
  <2>1. ByteCounts(p) => kNodeTargetValues(p) = kNodeValueSpace(p) \div p.value
    BY <1>1, <1>2 DEF kNodeTargetValues, kNodeValueSpace
  <2> QED
    BY <2>1 DEF ByteCounts
<1>4. kNodeValues(p) < FieldLimit(p)
  BY <1>2, <1>3 DEF kNodeValues, FieldLimit
<1> QED
  BY <1>1, <1>4 DEF Compiles

\* The values of a leaf that was not forced to hold three take no more than the
\* target leaves for them, counted without padding.
LEMMA ValuesFit ==
  ASSUME NEW p \in NodeParams, Reasonable(p), kNodeTargetValues(p) >= 3
  PROVE  /\ kNodeValues(p) \in Nat
         /\ sizeof_base_fields(p) + kNodeValues(p) * p.value <= p.target
<1> DEFINE fields == sizeof_base_fields(p)
           room == p.target - fields
<1>1. p.target \in Nat /\ p.value \in Nat \ {0} /\ fields \in {8, 12, 16}
  BY ParamsType, BaseFields
<1>2. p.target >= fields
  BY DEF Reasonable
<1>3. room \in Nat /\ kNodeValues(p) = room \div p.value
  BY <1>1, <1>2 DEF kNodeValues, kNodeTargetValues, Difference
<1>4. room \div p.value \in Nat /\ (room \div p.value) * p.value <= room
  <2> HIDE DEF room
  <2> QED
    BY <1>1, <1>3, Quotient
<1> QED
  BY <1>1, <1>3, <1>4

\* Aligning adds less than the alignment.
LEMMA AlignedAdds ==
  ASSUME NEW a \in Nat, NEW m \in {4, 8}
  PROVE  Aligned(a, m) \in Nat /\ Aligned(a, m) < a + m
<1>1. CASE m = 4
  BY <1>1 DEF Aligned
<1>2. CASE m = 8
  BY <1>2 DEF Aligned
<1> QED
  BY <1>1, <1>2

LEMMA LeafFits ==
  ASSUME NEW p \in NodeParams, Reasonable(p), kNodeTargetValues(p) >= 3
  PROVE  IF p.slot = p.value
         THEN sizeof_leaf_fields(p) < p.target + p.pointer
         ELSE sizeof_leaf_fields(p) < 2 * p.target
<1> DEFINE fields == sizeof_base_fields(p)
           n == kNodeValues(p)
           size == fields + n * p.slot
<1>1. /\ p.pointer \in {4, 8} /\ p.target \in Nat /\ p.value \in Nat /\ p.slot \in Nat
      /\ p.slot <= 2 * p.value
  BY ParamsType
<1>2. fields \in {8, 12, 16} /\ fields >= 2 * p.pointer
  BY BaseFields
<1>3. n \in Nat /\ fields + n * p.value <= p.target
  BY ValuesFit
<1> HIDE DEF fields, n
<1>4. size \in Nat
  BY <1>1, <1>2, <1>3
<1>5. sizeof_leaf_fields(p) \in Nat /\ sizeof_leaf_fields(p) < size + p.pointer
  <2>1. sizeof_leaf_fields(p) = Aligned(size, p.pointer)
    BY DEF sizeof_leaf_fields, fields, n
  <2> HIDE DEF size
  <2> QED
    BY <2>1, <1>1, <1>4, AlignedAdds
<1>6. CASE p.slot = p.value
  BY <1>1, <1>2, <1>3, <1>5, <1>6
<1>7. CASE p.slot # p.value
  <2>1. n * p.slot <= 2 * (n * p.value)
    BY <1>1, <1>3
  <2>2. n * p.value \in Nat /\ n * p.slot \in Nat
    BY <1>1, <1>3
  <2>3. size + p.pointer <= 2 * p.target
    <3>1. \A x, y \in Nat : x <= 2 * y /\ fields + y <= p.target
                          => fields + x + p.pointer <= 2 * p.target
      BY <1>1, <1>2
    <3> QED
      BY <3>1, <2>1, <2>2, <1>3
  <2> HIDE DEF size
  <2> QED
    BY <1>1, <1>4, <1>5, <1>7, <2>3
<1> QED
  BY <1>6, <1>7

LEMMA ParamsStay == NodeSizesSpec => [](params \in NodeParams)
<1>1. NodeSizesInit => params \in NodeParams
  BY DEF NodeSizesInit
<1>2. params \in NodeParams /\ [NodeSizesNext]_params => (params \in NodeParams)'
  BY DEF NodeSizesNext
<1> QED
  BY <1>1, <1>2, PTL DEF NodeSizesSpec

(***************************************************************************)
(* Whatever a btree is instantiated with, on a machine of either size, the *)
(* type chosen for the counts of a node holds them (btree.h:196, 1192).    *)
(***************************************************************************)
THEOREM TypeHoldsCounts == NodeSizesSpec => []ChosenTypeFits
<1>1. params \in NodeParams => ChosenTypeFits
  BY ReasonableCompiles DEF ChosenTypeFits
<1> QED
  BY <1>1, ParamsStay, PTL

(***************************************************************************)
(* Likewise, a leaf is of the size asked for, unless three values have no  *)
(* room in it, and under twice that size where values are padded           *)
(* (btree.h:370, 373).                                                     *)
(***************************************************************************)
THEOREM LeavesOfTargetSize == NodeSizesSpec => []LeafIsOfTargetSize
<1>1. params \in NodeParams => LeafIsOfTargetSize
  BY LeafFits DEF LeafIsOfTargetSize
<1> QED
  BY <1>1, ParamsStay, PTL

-------------------------------------------------------------------------------
\* The buffer.

\* What copying and moving the indices do to the bytes between them.

Array == [Positions -> Bytes]

\* A slice of the array is a sequence of bytes.
LEMMA SliceBytes ==
  ASSUME NEW bytes \in Array, NEW p \in Nat, NEW len \in Nat, p + len <= Capacity
  PROVE  /\ Slice(bytes, p, len) \in Seq(Bytes)
         /\ Len(Slice(bytes, p, len)) = len
         /\ \A i \in 1..len : Slice(bytes, p, len)[i] = bytes[p + i - 1]
<1>1. \A i \in 1..len : bytes[p + i - 1] \in Bytes
  BY WatersAssumption DEF Array, Positions
<1>2. QED
  BY <1>1 DEF Slice

\* std::copy changes the positions it copies to and no other.
LEMMA CopiedBytes ==
  ASSUME NEW bytes \in Array, NEW data \in Seq(Bytes), NEW p \in Nat
  PROVE  /\ Copied(bytes, p, data) \in Array
         /\ \A i \in Positions :
              Copied(bytes, p, data)[i]
                = IF p <= i /\ i < p + Len(data) THEN data[i - p + 1] ELSE bytes[i]
<1>1. ASSUME NEW i \in Positions, p <= i, i < p + Len(data) PROVE data[i - p + 1] \in Bytes
  <2>1. i - p + 1 \in 1..Len(data)
    BY <1>1, WatersAssumption DEF Positions
  <2>2. QED
    BY <2>1
<1>2. QED
  BY <1>1 DEF Copied, Array

\* Data copied to the high index, which then goes up: the data are the last bytes.
LEMMA CopiedLast ==
  ASSUME NEW bytes \in Array, NEW data \in Seq(Bytes),
         NEW low \in Nat, NEW high \in Nat, low <= high, high + Len(data) <= Capacity
  PROVE  Slice(Copied(bytes, high, data), low, high + Len(data) - low)
           = Slice(bytes, low, high - low) \o data
<1> DEFINE copy == Copied(bytes, high, data)
           old == Slice(bytes, low, high - low)
           new == Slice(copy, low, high + Len(data) - low)
<1>1. /\ copy \in Array
      /\ \A i \in Positions :
           copy[i] = IF high <= i /\ i < high + Len(data) THEN data[i - high + 1] ELSE bytes[i]
  BY CopiedBytes
<1> HIDE DEF copy
<1>2. Len(data) \in Nat /\ Capacity \in Nat /\ high - low \in Nat
      /\ high + Len(data) - low \in Nat
  BY WatersAssumption
<1>3. /\ old \in Seq(Bytes) /\ Len(old) = high - low
      /\ \A i \in 1..high - low : old[i] = bytes[low + i - 1]
  <2>1. low + (high - low) <= Capacity
    BY <1>2
  <2>2. QED
    BY <1>2, <2>1, SliceBytes
<1>4. /\ new \in Seq(Bytes) /\ Len(new) = high + Len(data) - low
      /\ \A i \in 1..high + Len(data) - low : new[i] = copy[low + i - 1]
  <2>1. low + (high + Len(data) - low) <= Capacity
    BY <1>2
  <2>2. QED
    BY <1>1, <1>2, <2>1, SliceBytes
<1> HIDE DEF old, new
<1>5. /\ old \o data \in Seq(Bytes)
      /\ Len(old \o data) = high + Len(data) - low
      /\ \A i \in 1..high + Len(data) - low :
           (old \o data)[i] = IF i <= high - low THEN old[i] ELSE data[i - (high - low)]
  <2>1. high - low + Len(data) = high + Len(data) - low
    BY <1>2
  <2>2. /\ old \o data \in Seq(Bytes) /\ Len(old \o data) = Len(old) + Len(data)
        /\ \A i \in 1..Len(old) + Len(data) :
             (old \o data)[i] = IF i <= Len(old) THEN old[i] ELSE data[i - Len(old)]
    BY <1>3, ConcatProperties
  <2>3. QED
    BY <1>3, <2>1, <2>2
<1>6. ASSUME NEW i \in 1..high + Len(data) - low PROVE new[i] = (old \o data)[i]
  <2>1. low + i - 1 \in Positions /\ i \in Int
    BY <1>2 DEF Positions
  <2>2. CASE i <= high - low
    <3>1. ~(high <= low + i - 1) /\ i \in 1..high - low
      BY <1>2, <2>1, <2>2
    <3>2. QED
      BY <1>1, <1>3, <1>4, <1>5, <2>1, <2>2, <3>1
  <2>3. CASE ~(i <= high - low)
    <3>1. /\ high <= low + i - 1 /\ low + i - 1 < high + Len(data)
          /\ (low + i - 1) - high + 1 = i - (high - low)
      BY <1>2, <2>1, <2>3
    <3>2. QED
      BY <1>1, <1>4, <1>5, <2>1, <2>3, <3>1
  <2>4. QED
    BY <2>2, <2>3
<1>7. new = old \o data
  BY <1>4, <1>5, <1>6, SeqEqual
<1>8. QED
  BY <1>7 DEF new, old, copy

\* Data copied below the low index, which goes down: the data are the first bytes.
LEMMA CopiedFirst ==
  ASSUME NEW bytes \in Array, NEW data \in Seq(Bytes),
         NEW low \in Nat, NEW high \in Nat, low <= high, high <= Capacity,
         Len(data) <= low
  PROVE  Slice(Copied(bytes, low - Len(data), data), low - Len(data),
               high - (low - Len(data)))
           = data \o Slice(bytes, low, high - low)
<1> DEFINE p == low - Len(data)
           copy == Copied(bytes, p, data)
           old == Slice(bytes, low, high - low)
           new == Slice(copy, p, high - p)
<1>1. Len(data) \in Nat /\ Capacity \in Nat /\ high - low \in Nat
      /\ p \in Nat /\ high - p \in Nat /\ p + Len(data) = low
  BY WatersAssumption
<1> HIDE DEF p
<1>2. /\ copy \in Array
      /\ \A i \in Positions :
           copy[i] = IF p <= i /\ i < low THEN data[i - p + 1] ELSE bytes[i]
  BY <1>1, CopiedBytes
<1> HIDE DEF copy
<1>3. /\ old \in Seq(Bytes) /\ Len(old) = high - low
      /\ \A i \in 1..high - low : old[i] = bytes[low + i - 1]
  <2>1. low + (high - low) <= Capacity
    BY <1>1
  <2>2. QED
    BY <1>1, <2>1, SliceBytes
<1>4. /\ new \in Seq(Bytes) /\ Len(new) = high - p
      /\ \A i \in 1..high - p : new[i] = copy[p + i - 1]
  <2>1. p + (high - p) <= Capacity
    BY <1>1
  <2>2. QED
    BY <1>1, <1>2, <2>1, SliceBytes
<1> HIDE DEF old, new
<1>5. /\ data \o old \in Seq(Bytes)
      /\ Len(data \o old) = high - p
      /\ \A i \in 1..high - p :
           (data \o old)[i] = IF i <= Len(data) THEN data[i] ELSE old[i - Len(data)]
  <2>1. Len(data) + (high - low) = high - p
    BY <1>1
  <2>2. /\ data \o old \in Seq(Bytes) /\ Len(data \o old) = Len(data) + Len(old)
        /\ \A i \in 1..Len(data) + Len(old) :
             (data \o old)[i] = IF i <= Len(data) THEN data[i] ELSE old[i - Len(data)]
    BY <1>3, ConcatProperties
  <2>3. QED
    BY <1>3, <2>1, <2>2
<1>6. ASSUME NEW i \in 1..high - p PROVE new[i] = (data \o old)[i]
  <2>1. p + i - 1 \in Positions /\ i \in Int
    BY <1>1 DEF Positions
  <2>2. CASE i <= Len(data)
    <3>1. p <= p + i - 1 /\ p + i - 1 < low /\ (p + i - 1) - p + 1 = i
      BY <1>1, <2>1, <2>2
    <3>2. QED
      BY <1>2, <1>4, <1>5, <2>1, <2>2, <3>1
  <2>3. CASE ~(i <= Len(data))
    <3>1. /\ ~(p + i - 1 < low) /\ i - Len(data) \in 1..high - low
          /\ low + (i - Len(data)) - 1 = p + i - 1
      BY <1>1, <2>1, <2>3
    <3>2. QED
      BY <1>2, <1>3, <1>4, <1>5, <2>1, <2>3, <3>1
  <2>4. QED
    BY <2>2, <2>3
<1>7. new = data \o old
  BY <1>4, <1>5, <1>6, SeqEqual
<1>8. QED
  BY <1>7 DEF new, old, copy, p

\* A slice that begins len further on is the sequence without its first len.
LEMMA SliceWithout ==
  ASSUME NEW bytes \in Array, NEW low \in Nat, NEW high \in Nat, high <= Capacity,
         NEW len \in Nat, low + len <= high
  PROVE  Slice(bytes, low + len, high - (low + len))
           = Queues!Without(Slice(bytes, low, high - low), len)
<1> DEFINE old == Slice(bytes, low, high - low)
           new == Slice(bytes, low + len, high - (low + len))
<1>1. /\ Capacity \in Nat /\ high - low \in Nat /\ high - (low + len) \in Nat
      /\ low + len \in Nat
      /\ low + (high - low) <= Capacity /\ (low + len) + (high - (low + len)) <= Capacity
  BY WatersAssumption
<1>2. /\ old \in Seq(Bytes) /\ Len(old) = high - low
      /\ \A i \in 1..high - low : old[i] = bytes[low + i - 1]
  BY <1>1, SliceBytes
<1>3. /\ new \in Seq(Bytes) /\ Len(new) = high - (low + len)
      /\ \A i \in 1..high - (low + len) : new[i] = bytes[(low + len) + i - 1]
  BY <1>1, SliceBytes
<1> HIDE DEF old, new
<1> DEFINE rest == SubSeq(old, len + 1, high - low)
<1>4. len + 1 \in 1..Len(old) + 1 /\ high - low \in len..Len(old)
  BY <1>1, <1>2
<1>5. /\ rest \in Seq(Bytes) /\ Len(rest) = high - (low + len)
      /\ \A i \in 1..high - (low + len) : rest[i] = old[len + i]
  <2>1. (high - low) - (len + 1) + 1 = high - (low + len)
    BY <1>1
  <2>2. \A i \in 1..high - (low + len) : (len + 1) + i - 1 = len + i
    BY <1>1
  <2>3. QED
    BY <1>2, <1>4, <2>1, <2>2, SubSeqProperties
<1> HIDE DEF rest
<1>6. ASSUME NEW i \in 1..high - (low + len) PROVE new[i] = rest[i]
  <2>1. len + i \in 1..high - low /\ low + (len + i) - 1 = (low + len) + i - 1
    BY <1>1
  <2>2. QED
    BY <1>2, <1>3, <1>5, <2>1
<1>7. new = rest
  BY <1>3, <1>5, <1>6, SeqEqual
<1>8. QED
  BY <1>2, <1>7 DEF new, old, rest, Queues!Without

-------------------------------------------------------------------------------
\* What each call does to the bytes a buffer holds.

\* A buffer whose indices are in order and within its array.
Sound(b) == b \in Buffer /\ b.low <= b.high

\* What that says of each part, and of the bytes it holds.
LEMMA SoundParts ==
  ASSUME NEW b, Sound(b)
  PROVE  /\ b.low \in Nat /\ b.high \in Nat /\ Capacity \in Nat
         /\ b.low <= b.high /\ b.high <= Capacity /\ b.high - b.low \in Nat
         /\ b.bytes \in Array
         /\ Contents(b) = Slice(b.bytes, b.low, b.high - b.low)
         /\ Contents(b) \in Seq(Bytes) /\ Len(Contents(b)) = b.high - b.low
<1>1. /\ b.low \in Nat /\ b.high \in Nat /\ Capacity \in Nat
      /\ b.low <= b.high /\ b.high <= Capacity /\ b.high - b.low \in Nat
      /\ b.bytes \in Array
  BY WatersAssumption DEF Sound, Buffer, Array
<1>2. Contents(b) = Slice(b.bytes, b.low, b.high - b.low)
  BY DEF Contents, Peeked, dirty_space_size
<1>3. b.low + (b.high - b.low) <= Capacity
  BY <1>1
<1>4. QED
  BY <1>1, <1>2, <1>3, SliceBytes

\* Indices in order within an array make a sound buffer.
LEMMA WithIsSound ==
  ASSUME NEW low \in Nat, NEW high \in Nat, low <= high, high <= Capacity,
         NEW bytes \in Array
  PROVE  /\ Sound(With(low, high, bytes))
         /\ Contents(With(low, high, bytes)) = Slice(bytes, low, high - low)
<1>1. low \in 0..Capacity /\ high \in 0..Capacity
  BY WatersAssumption
<1>2. Sound(With(low, high, bytes))
  BY <1>1 DEF With, Sound, Buffer, Array
<1>3. Contents(With(low, high, bytes)) = Slice(bytes, low, high - low)
  BY DEF With, Contents, Peeked, dirty_space_size
<1>4. QED
  BY <1>2, <1>3

\* append
LEMMA AppendedContents ==
  ASSUME NEW b, Sound(b), NEW data \in Seq(Bytes), Len(data) <= Capacity - b.high
  PROVE  Sound(Appended(b, data)) /\ Contents(Appended(b, data)) = Contents(b) \o data
<1> DEFINE low == b.low
           high == b.high
           bytes == b.bytes
<1>0. /\ low \in Nat /\ high \in Nat /\ Capacity \in Nat /\ low <= high /\ bytes \in Array
      /\ Contents(b) = Slice(bytes, low, high - low)
      /\ Appended(b, data) = With(low, high + Len(data), Copied(bytes, high, data))
  BY SoundParts DEF Appended
<1>1. Len(data) \in Nat /\ Len(data) <= Capacity - high
  OBVIOUS
<1> HIDE DEF low, high, bytes
<1>2. high + Len(data) \in Nat /\ low <= high + Len(data) /\ high + Len(data) <= Capacity
  BY <1>0, <1>1
<1>3. Copied(bytes, high, data) \in Array
  BY <1>0, CopiedBytes
<1>4. /\ Sound(Appended(b, data))
      /\ Contents(Appended(b, data))
           = Slice(Copied(bytes, high, data), low, high + Len(data) - low)
  BY <1>0, <1>2, <1>3, WithIsSound
<1>5. Slice(Copied(bytes, high, data), low, high + Len(data) - low)
        = Slice(bytes, low, high - low) \o data
  BY <1>0, <1>2, CopiedLast
<1>6. QED
  BY <1>0, <1>4, <1>5

\* prepend
LEMMA PrependedContents ==
  ASSUME NEW b, Sound(b), NEW data \in Seq(Bytes), Len(data) <= b.low
  PROVE  Sound(Prepended(b, data)) /\ Contents(Prepended(b, data)) = data \o Contents(b)
<1> DEFINE low == b.low
           high == b.high
           bytes == b.bytes
           p == low - Len(data)
<1>0. /\ low \in Nat /\ high \in Nat /\ low <= high /\ high <= Capacity /\ bytes \in Array
      /\ Contents(b) = Slice(bytes, low, high - low)
      /\ Prepended(b, data) = With(p, high, Copied(bytes, p, data))
  BY SoundParts DEF Prepended
<1>1. Len(data) \in Nat /\ Len(data) <= low
  OBVIOUS
<1> HIDE DEF low, high, bytes
<1>2. p \in Nat /\ p <= high
  BY <1>0, <1>1
<1>3. Copied(bytes, p, data) \in Array
  BY <1>0, <1>2, CopiedBytes
<1>4. Slice(Copied(bytes, p, data), p, high - p) = data \o Slice(bytes, low, high - low)
  BY <1>0, <1>1, CopiedFirst
<1> HIDE DEF p
<1>5. /\ Sound(Prepended(b, data))
      /\ Contents(Prepended(b, data)) = Slice(Copied(bytes, p, data), p, high - p)
  BY <1>0, <1>2, <1>3, WithIsSound
<1>6. QED
  BY <1>0, <1>4, <1>5

\* raise_high_water: the bytes that were above the high index are added.
LEMMA RaisedHighContents ==
  ASSUME NEW b, Sound(b), NEW len \in Nat, len <= Capacity - b.high
  PROVE  /\ Sound(RaisedHigh(b, len))
         /\ \E s \in Strings : /\ Len(s) = len
                               /\ Contents(RaisedHigh(b, len)) = Contents(b) \o s
<1> DEFINE low == b.low
           high == b.high
           bytes == b.bytes
           s == Slice(bytes, high, len)
<1>0. /\ low \in Nat /\ high \in Nat /\ Capacity \in Nat /\ low <= high /\ bytes \in Array
      /\ Contents(b) = Slice(bytes, low, high - low)
      /\ RaisedHigh(b, len) = With(low, high + len, bytes)
  BY SoundParts DEF RaisedHigh
<1>1. len <= Capacity - high
  OBVIOUS
<1> HIDE DEF low, high, bytes
<1>2. /\ high + len \in Nat /\ low <= high + len /\ high + len <= Capacity
      /\ len \in 0..Capacity
  BY <1>0, <1>1
<1>3. /\ s \in Seq(Bytes) /\ Len(s) = len
      /\ \A i \in 1..len : s[i] = bytes[high + i - 1]
  BY <1>0, <1>2, SliceBytes
<1> HIDE DEF s
<1>4. s \in Strings
  BY <1>2, <1>3 DEF Strings
<1>5. Copied(bytes, high, s) = bytes
  <2>1. ASSUME NEW i \in Positions, high <= i, i < high + len
        PROVE  s[i - high + 1] = bytes[i]
    <3>1. i \in Int
      BY <1>0 DEF Positions
    <3>2. i - high + 1 \in 1..len /\ high + (i - high + 1) - 1 = i
      BY <1>0, <2>1, <3>1
    <3>3. QED
      BY <1>3, <3>2
  <2>2. /\ Copied(bytes, high, s) \in Array
        /\ \A i \in Positions :
             Copied(bytes, high, s)[i]
               = IF high <= i /\ i < high + Len(s) THEN s[i - high + 1] ELSE bytes[i]
    BY <1>0, <1>3, CopiedBytes
  <2>3. \A i \in Positions : Copied(bytes, high, s)[i] = bytes[i]
    BY <1>3, <2>1, <2>2
  <2>4. QED
    BY <1>0, <2>2, <2>3 DEF Array
<1>6. /\ Sound(RaisedHigh(b, len))
      /\ Contents(RaisedHigh(b, len)) = Slice(bytes, low, high + len - low)
  BY <1>0, <1>2, WithIsSound
<1>7. Slice(Copied(bytes, high, s), low, high + Len(s) - low)
        = Slice(bytes, low, high - low) \o s
  <2>1. high + Len(s) <= Capacity
    BY <1>2, <1>3
  <2>2. QED
    BY <1>0, <1>3, <2>1, CopiedLast
<1>8. Contents(RaisedHigh(b, len)) = Contents(b) \o s
  BY <1>0, <1>3, <1>5, <1>6, <1>7
<1>9. QED
  BY <1>3, <1>4, <1>6, <1>8

\* lower_low_water
LEMMA RaisedLowContents ==
  ASSUME NEW b, Sound(b), NEW len \in Nat, len <= b.high - b.low
  PROVE  /\ Sound(RaisedLow(b, len))
         /\ Contents(RaisedLow(b, len)) = Queues!Without(Contents(b), len)
<1> DEFINE low == b.low
           high == b.high
           bytes == b.bytes
<1>0. /\ low \in Nat /\ high \in Nat /\ low <= high /\ high <= Capacity /\ bytes \in Array
      /\ Contents(b) = Slice(bytes, low, high - low)
      /\ RaisedLow(b, len) = With(low + len, high, bytes)
  BY SoundParts DEF RaisedLow
<1>1. len <= high - low
  OBVIOUS
<1> HIDE DEF low, high, bytes
<1>2. low + len \in Nat /\ low + len <= high
  BY <1>0, <1>1
<1>3. /\ Sound(RaisedLow(b, len))
      /\ Contents(RaisedLow(b, len)) = Slice(bytes, low + len, high - (low + len))
  BY <1>0, <1>2, WithIsSound
<1>4. Slice(bytes, low + len, high - (low + len))
        = Queues!Without(Slice(bytes, low, high - low), len)
  BY <1>0, <1>2, SliceWithout
<1>5. QED
  BY <1>0, <1>3, <1>4

\* retrieve_all
LEMMA RetrievedAllContents ==
  ASSUME NEW b, Sound(b)
  PROVE  Sound(RetrievedAll(b)) /\ Contents(RetrievedAll(b)) = <<>>
<1>1. b.bytes \in Array /\ 0 \in Nat /\ 0 <= Capacity /\ 0 + 0 <= Capacity
  BY SoundParts
<1>2. Sound(RetrievedAll(b)) /\ Contents(RetrievedAll(b)) = Slice(b.bytes, 0, 0 - 0)
  BY <1>1, WithIsSound DEF RetrievedAll
<1>3. Slice(b.bytes, 0, 0) \in Seq(Bytes) /\ Len(Slice(b.bytes, 0, 0)) = 0
  BY <1>1, SliceBytes
<1>4. QED
  BY <1>2, <1>3, EmptySeq

\* retrieve
LEMMA RetrievedContents ==
  ASSUME NEW b, Sound(b), NEW len \in Nat
  PROVE  /\ Sound(Retrieved(b, len))
         /\ Contents(Retrieved(b, len)) = Queues!Without(Contents(b), len)
<1>1. CASE len < b.high - b.low
  <2>1. len <= b.high - b.low
    BY <1>1, SoundParts
  <2>2. QED
    BY <1>1, <2>1, RaisedLowContents DEF Retrieved, dirty_space_size
<1>2. CASE ~(len < b.high - b.low)
  <2>1. Retrieved(b, len) = RetrievedAll(b)
    BY <1>2 DEF Retrieved, dirty_space_size
  <2>2. Queues!Without(Contents(b), len) = <<>>
    <3>1. Len(Contents(b)) \in Int /\ Len(Contents(b)) < len + 1
      BY <1>2, SoundParts
    <3>2. QED
      BY <3>1, SubSeqEmpty DEF Queues!Without
  <2>3. QED
    BY <2>1, <2>2, RetrievedAllContents
<1>3. QED
  BY <1>1, <1>2

\* peek: the first bytes.
LEMMA PeekedContents ==
  ASSUME NEW b, Sound(b), NEW len \in Nat, len <= b.high - b.low
  PROVE  /\ Peeked(b, len) = SubSeq(Contents(b), 1, len)
         /\ Peeked(b, len) \in Seq(Bytes)
<1> DEFINE low == b.low
           high == b.high
           bytes == b.bytes
           held == Contents(b)
<1>0. /\ low \in Nat /\ high \in Nat /\ Capacity \in Nat /\ low <= high /\ high <= Capacity
      /\ bytes \in Array /\ held = Slice(bytes, low, high - low)
      /\ Peeked(b, len) = Slice(bytes, low, len)
  BY SoundParts DEF Peeked
<1>1. len <= high - low
  OBVIOUS
<1> HIDE DEF low, high, bytes, held
<1>2. high - low \in Nat /\ low + (high - low) <= Capacity /\ low + len <= Capacity
  BY <1>0, <1>1
<1>3. /\ held \in Seq(Bytes) /\ Len(held) = high - low
      /\ \A i \in 1..high - low : held[i] = bytes[low + i - 1]
  BY <1>0, <1>2, SliceBytes
<1>4. /\ Slice(bytes, low, len) \in Seq(Bytes) /\ Len(Slice(bytes, low, len)) = len
      /\ \A i \in 1..len : Slice(bytes, low, len)[i] = bytes[low + i - 1]
  BY <1>0, <1>2, SliceBytes
<1>5. /\ SubSeq(held, 1, len) \in Seq(Bytes)
      /\ Len(SubSeq(held, 1, len)) = len
      /\ \A i \in 1..len : SubSeq(held, 1, len)[i] = held[i]
  <2>1. \A i \in 1..len : held[i] \in Bytes
    <3>1. \A i \in 1..len : i \in 1..Len(held)
      BY <1>0, <1>1, <1>3
    <3>2. QED
      BY <1>3, <3>1
  <2>2. len - 1 + 1 = len /\ \A i \in 1..len : 1 + i - 1 = i
    OBVIOUS
  <2>3. /\ SubSeq(held, 1, len) \in Seq(Bytes)
        /\ Len(SubSeq(held, 1, len)) = IF 1 <= len THEN len - 1 + 1 ELSE 0
        /\ \A i \in 1..len - 1 + 1 : SubSeq(held, 1, len)[i] = held[1 + i - 1]
    BY <2>1, SubSeqProperties
  <2>4. QED
    BY <2>2, <2>3
<1>6. \A i \in 1..len : Slice(bytes, low, len)[i] = SubSeq(held, 1, len)[i]
  <2>1. \A i \in 1..len : i \in 1..high - low
    BY <1>0, <1>1
  <2>2. QED
    BY <1>3, <1>4, <1>5, <2>1
<1>7. Slice(bytes, low, len) = SubSeq(held, 1, len)
  BY <1>4, <1>5, <1>6, SeqEqual
<1>8. QED
  BY <1>0, <1>4, <1>7 DEF held

\* A buffer with nothing in it has room for as much as its array holds.
LEMMA RetrievedAllRoom ==
  ASSUME NEW b
  PROVE  above_high_water_size(RetrievedAll(b)) = Capacity
BY WatersAssumption DEF RetrievedAll, With, above_high_water_size

\* A buffer that taking bytes empties begins at the bottom of its array.
LEMMA RetrievedRoom ==
  ASSUME NEW b, Sound(b), NEW len \in Nat, dirty_space_size(Retrieved(b, len)) = 0
  PROVE  above_high_water_size(Retrieved(b, len)) = Capacity
<1>1. CASE len < b.high - b.low
  <2>1. dirty_space_size(Retrieved(b, len)) = b.high - (b.low + len)
    BY <1>1 DEF Retrieved, RaisedLow, With, dirty_space_size
  <2>2. b.high - (b.low + len) # 0
    BY <1>1, SoundParts
  <2>3. QED
    BY <2>1, <2>2
<1>2. CASE ~(len < b.high - b.low)
  BY <1>2, WatersAssumption
     DEF Retrieved, RetrievedAll, With, dirty_space_size, above_high_water_size
<1>3. QED
  BY <1>1, <1>2

-------------------------------------------------------------------------------
\* The steps.

\* What a caller can add is a sequence of bytes, for Buffer as for ByteQueues.
LEMMA StringsAreSequences ==
  /\ \A data \in Strings : data \in Seq(Bytes) /\ Len(data) \in Nat
  /\ Queues!Strings = Strings
<1>1. ASSUME NEW data \in Strings PROVE data \in Seq(Bytes)
  <2>1. PICK len \in 0..Capacity : data \in [1..len -> Bytes]
    BY DEF Strings
  <2>2. QED
    BY <2>1, WatersAssumption
<1>2. \A data \in Strings : Len(data) \in Nat
  BY <1>1
<1>3. QED
  BY <1>1, <1>2 DEF Strings, Queues!Strings

\* What there is room for at either end fits beside what is held.
LEMMA RoomForMore ==
  ASSUME NEW b, Sound(b), NEW len \in Nat, len <= Capacity - b.high \/ len <= b.low
  PROVE  Len(Contents(b)) + len <= Capacity
<1> DEFINE low == b.low
           high == b.high
           held == Len(Contents(b))
<1>1. /\ low \in Nat /\ high \in Nat /\ Capacity \in Nat /\ high <= Capacity
      /\ held = high - low
  BY SoundParts
<1>2. len <= Capacity - high \/ len <= low
  OBVIOUS
<1> HIDE DEF low, high, held
<1>3. held + len <= Capacity
  BY <1>1, <1>2
<1>4. QED
  BY <1>3 DEF held

\* A call that leaves buffer n sound leaves all well, and is a change of its queue.
LEMMA DoesKeeps ==
  ASSUME TypeOK, NEW n \in Buffers, NEW b, Sound(b), NEW bytes \in Seq(Bytes),
         Does(n, b, bytes)
  PROVE  TypeOK' /\ buffer'[n] = b /\ Queues!Becomes(n, Contents(b)) /\ out' = bytes
<1>1. buffer \in [Buffers -> Buffer] /\ buffer' = [buffer EXCEPT ![n] = b] /\ out' = bytes
  BY DEF TypeOK, Does
<1>2. b \in Buffer /\ b.low <= b.high
  BY DEF Sound
<1>3. TypeOK'
  BY <1>1, <1>2 DEF TypeOK
<1>4. Queues!Becomes(n, Contents(b))
  BY <1>1 DEF Queues!Becomes
<1>5. QED
  BY <1>1, <1>3, <1>4

\* What a step must be, as an action: the body of EmptiedIsRoomy.
StepIsRoomy ==
  \A n \in Buffers :
    call'[1] \in Emptying /\ call'[2][1] = n /\ dirty_space_size(buffer'[n]) = 0
      => above_high_water_size(buffer'[n]) = Capacity

Right == TypeOK' /\ StepIsRoomy /\ Queues!Next

\* The calls that take no bytes.
LEMMA OtherCallsAreRoomy ==
  ASSUME NEW name, NEW arguments, Calls(name, arguments), name \notin Emptying
  PROVE  StepIsRoomy
<1>1. call'[1] = name
  BY DEF Calls
<1>2. QED
  BY <1>1 DEF StepIsRoomy

\* The calls that add bytes.
LEMMA AddingIsRight ==
  ASSUME TypeOK,
         \/ \E n \in Buffers, data \in Strings :
              \/ append(n, data) /\ Calls("append", <<n, data>>)
              \/ prepend(n, data) /\ Calls("prepend", <<n, data>>)
         \/ \E n \in Buffers, len \in Lengths :
              raise_high_water(n, len) /\ Calls("raise high water", <<n, len>>)
  PROVE  Right
<1>1. \A n \in Buffers : Sound(buffer[n])
  BY DEF TypeOK, Sound
<1>2. /\ "append" \notin Emptying /\ "prepend" \notin Emptying
      /\ "raise high water" \notin Emptying
  BY DEF Emptying
<1>3. ASSUME NEW n \in Buffers, NEW data \in Strings,
             append(n, data), Calls("append", <<n, data>>)
      PROVE  Right
  <2>1. /\ data \in Seq(Bytes) /\ Len(data) \in Nat
        /\ Len(data) <= Capacity - buffer[n].high
        /\ Does(n, Appended(buffer[n], data), <<>>)
    BY <1>3, StringsAreSequences DEF append, above_high_water_size
  <2>2. /\ Sound(Appended(buffer[n], data))
        /\ Contents(Appended(buffer[n], data)) = Contents(buffer[n]) \o data
    BY <1>1, <2>1, AppendedContents
  <2>3. TypeOK' /\ Queues!Becomes(n, Contents(buffer[n]) \o data) /\ out' = <<>>
    <3>1. TypeOK' /\ Queues!Becomes(n, Contents(Appended(buffer[n], data))) /\ out' = <<>>
      BY <2>1, <2>2, EmptySeq, DoesKeeps
    <3>2. QED
      BY <3>1, <2>2
  <2>4. Len(Contents(buffer[n])) + Len(data) <= Capacity
    BY <1>1, <2>1, RoomForMore
  <2>5. Queues!AddLast(n, data)
    BY <2>3, <2>4 DEF Queues!AddLast, Queues!Fits
  <2>6. Queues!Next
    BY <1>3, <2>5, StringsAreSequences DEF Queues!Next, Calls, Queues!Calls
  <2>7. QED
    BY <1>2, <1>3, <2>3, <2>6, OtherCallsAreRoomy DEF Right
<1>4. ASSUME NEW n \in Buffers, NEW data \in Strings,
             prepend(n, data), Calls("prepend", <<n, data>>)
      PROVE  Right
  <2>1. /\ data \in Seq(Bytes) /\ Len(data) \in Nat /\ Len(data) <= buffer[n].low
        /\ Does(n, Prepended(buffer[n], data), <<>>)
    BY <1>4, StringsAreSequences DEF prepend, under_low_water_size
  <2>2. /\ Sound(Prepended(buffer[n], data))
        /\ Contents(Prepended(buffer[n], data)) = data \o Contents(buffer[n])
    BY <1>1, <2>1, PrependedContents
  <2>3. TypeOK' /\ Queues!Becomes(n, data \o Contents(buffer[n])) /\ out' = <<>>
    <3>1. TypeOK' /\ Queues!Becomes(n, Contents(Prepended(buffer[n], data))) /\ out' = <<>>
      BY <2>1, <2>2, EmptySeq, DoesKeeps
    <3>2. QED
      BY <3>1, <2>2
  <2>4. Len(Contents(buffer[n])) + Len(data) <= Capacity
    BY <1>1, <2>1, RoomForMore
  <2>5. Queues!AddFirst(n, data)
    BY <2>3, <2>4 DEF Queues!AddFirst, Queues!Fits
  <2>6. Queues!Next
    BY <1>4, <2>5, StringsAreSequences DEF Queues!Next, Calls, Queues!Calls
  <2>7. QED
    BY <1>2, <1>4, <2>3, <2>6, OtherCallsAreRoomy DEF Right
<1>5. ASSUME NEW n \in Buffers, NEW len \in Lengths,
             raise_high_water(n, len), Calls("raise high water", <<n, len>>)
      PROVE  Right
  <2>1. /\ len \in Nat /\ len <= Capacity - buffer[n].high
        /\ Does(n, RaisedHigh(buffer[n], len), <<>>)
    BY <1>5, LengthsAssumption DEF raise_high_water, above_high_water_size
  <2>2. /\ Sound(RaisedHigh(buffer[n], len))
        /\ \E s \in Strings :
             Len(s) = len /\ Contents(RaisedHigh(buffer[n], len)) = Contents(buffer[n]) \o s
    BY <1>1, <2>1, RaisedHighContents
  <2>3. PICK s \in Strings :
          Len(s) = len /\ Contents(RaisedHigh(buffer[n], len)) = Contents(buffer[n]) \o s
    BY <2>2
  <2>4. TypeOK' /\ Queues!Becomes(n, Contents(buffer[n]) \o s) /\ out' = <<>>
    <3>1. TypeOK' /\ Queues!Becomes(n, Contents(RaisedHigh(buffer[n], len))) /\ out' = <<>>
      BY <2>1, <2>2, EmptySeq, DoesKeeps
    <3>2. QED
      BY <3>1, <2>3
  <2>5. Len(Contents(buffer[n])) + Len(s) <= Capacity
    BY <1>1, <2>1, <2>3, RoomForMore
  <2>6. Queues!AddLast(n, s)
    BY <2>4, <2>5 DEF Queues!AddLast, Queues!Fits
  <2>7. Queues!Next
    BY <1>5, <2>3, <2>6, StringsAreSequences DEF Queues!Next, Calls, Queues!Calls
  <2>8. QED
    BY <1>2, <1>5, <2>4, <2>7, OtherCallsAreRoomy DEF Right
<1>6. QED
  BY <1>3, <1>4, <1>5

\* A call that takes bytes from n is roomy if it leaves n so.
LEMMA TakingIsRoomy ==
  ASSUME NEW n \in Buffers, NEW name, NEW x, Calls(name, <<n, x>>) \/ Calls(name, <<n>>),
         dirty_space_size(buffer'[n]) = 0 => above_high_water_size(buffer'[n]) = Capacity
  PROVE  StepIsRoomy
<1>1. call'[2][1] = n
  BY DEF Calls
<1>2. QED
  BY <1>1 DEF StepIsRoomy

\* The calls that take bytes, returning them or not.
LEMMA TakingIsRight ==
  ASSUME TypeOK, NEW n \in Buffers, NEW len \in Lengths,
         \/ lower_low_water(n, len) /\ Calls("lower low water", <<n, len>>)
         \/ retrieve(n, len) /\ Calls("retrieve", <<n, len>>)
         \/ retrieve_as(n, len) /\ Calls("retrieve as", <<n, len>>)
  PROVE  Right
<1> DEFINE b == buffer[n]
<1>1. Sound(b) /\ len \in Nat /\ <<>> \in Seq(Bytes)
  BY LengthsAssumption, EmptySeq DEF TypeOK, Sound
<1>2. Len(Contents(b)) = b.high - b.low
  BY <1>1, SoundParts
<1> HIDE DEF b
<1>3. /\ Sound(Retrieved(b, len))
      /\ Contents(Retrieved(b, len)) = Queues!Without(Contents(b), len)
      /\ dirty_space_size(Retrieved(b, len)) = 0
           => above_high_water_size(Retrieved(b, len)) = Capacity
  BY <1>1, RetrievedContents, RetrievedRoom
<1>4. CASE lower_low_water(n, len) /\ Calls("lower low water", <<n, len>>)
  <2>1. len <= b.high - b.low /\ Does(n, RaisedLow(b, len), <<>>)
    BY <1>4 DEF lower_low_water, dirty_space_size, b
  <2>2. /\ Sound(RaisedLow(b, len))
        /\ Contents(RaisedLow(b, len)) = Queues!Without(Contents(b), len)
    BY <1>1, <2>1, RaisedLowContents
  <2>3. TypeOK' /\ Queues!Becomes(n, Contents(RaisedLow(b, len))) /\ out' = <<>>
    BY <1>1, <2>1, <2>2, DoesKeeps
  <2>4. Queues!Drop(n, len)
    BY <2>2, <2>3 DEF Queues!Drop, b
  <2>5. Queues!Next
    BY <1>4, <2>4 DEF Queues!Next, Calls, Queues!Calls
  <2>6. "lower low water" \notin Emptying
    BY DEF Emptying
  <2>7. QED
    BY <1>4, <2>3, <2>5, <2>6, OtherCallsAreRoomy DEF Right
<1>5. CASE retrieve(n, len) /\ Calls("retrieve", <<n, len>>)
  <2>1. Does(n, Retrieved(b, len), <<>>)
    BY <1>5 DEF retrieve, b
  <2>2. /\ TypeOK' /\ buffer'[n] = Retrieved(b, len)
        /\ Queues!Becomes(n, Contents(Retrieved(b, len))) /\ out' = <<>>
    BY <1>1, <1>3, <2>1, DoesKeeps
  <2>3. Queues!Drop(n, len)
    BY <1>3, <2>2 DEF Queues!Drop, b
  <2>4. Queues!Next
    BY <1>5, <2>3 DEF Queues!Next, Calls, Queues!Calls
  <2>5. StepIsRoomy
    BY <1>3, <1>5, <2>2, TakingIsRoomy
  <2>6. QED
    BY <2>2, <2>4, <2>5 DEF Right
<1>6. ASSUME len <= b.high - b.low, Does(n, Retrieved(b, len), Peeked(b, len))
      PROVE  /\ TypeOK' /\ buffer'[n] = Retrieved(b, len)
             /\ Queues!Take(n, len)
  <2>1. Peeked(b, len) = SubSeq(Contents(b), 1, len) /\ Peeked(b, len) \in Seq(Bytes)
    BY <1>1, <1>6, PeekedContents
  <2>2. /\ TypeOK' /\ buffer'[n] = Retrieved(b, len)
        /\ Queues!Becomes(n, Contents(Retrieved(b, len))) /\ out' = Peeked(b, len)
    BY <1>1, <1>3, <1>6, <2>1, DoesKeeps
  <2>3. Queues!Take(n, len)
    BY <1>2, <1>3, <1>6, <2>1, <2>2 DEF Queues!Take, b
  <2>4. QED
    BY <2>2, <2>3
<1>7. CASE retrieve_as(n, len) /\ Calls("retrieve as", <<n, len>>)
  <2>1. TypeOK' /\ buffer'[n] = Retrieved(b, len) /\ Queues!Take(n, len)
    BY <1>6, <1>7 DEF retrieve_as, dirty_space_size, b
  <2>2. Queues!Next
    BY <1>7, <2>1 DEF Queues!Next, Calls, Queues!Calls
  <2>3. StepIsRoomy
    BY <1>3, <1>7, <2>1, TakingIsRoomy
  <2>4. QED
    BY <2>1, <2>2, <2>3 DEF Right
<1>8. QED
  BY <1>4, <1>5, <1>7

\* read: the bytes returned are not those taken out when sizeof(T) # sizeof(int32_t).
LEMMA ReadingIsRight ==
  ASSUME TypeOK, NEW n \in Buffers, NEW size \in ReadSizes,
         read(n, size), Calls("read", <<n, size>>)
  PROVE  Right
<1> DEFINE b == buffer[n]
<1>1. Sound(b) /\ size \in Nat /\ WordSize \in Nat
  BY LengthsAssumption DEF TypeOK, Sound
<1>2. /\ size <= b.high - b.low
      /\ Does(n, Retrieved(b, WordSize), Peeked(b, size))
  BY DEF read, dirty_space_size, b
<1>3. Len(Contents(b)) = b.high - b.low
  BY <1>1, SoundParts
<1> HIDE DEF b
<1>4. /\ Sound(Retrieved(b, WordSize))
      /\ Contents(Retrieved(b, WordSize)) = Queues!Without(Contents(b), WordSize)
      /\ dirty_space_size(Retrieved(b, WordSize)) = 0
           => above_high_water_size(Retrieved(b, WordSize)) = Capacity
  BY <1>1, RetrievedContents, RetrievedRoom
<1>5. Peeked(b, size) = SubSeq(Contents(b), 1, size) /\ Peeked(b, size) \in Seq(Bytes)
  BY <1>1, <1>2, PeekedContents
<1>6. /\ TypeOK' /\ buffer'[n] = Retrieved(b, WordSize)
      /\ Queues!Becomes(n, Contents(Retrieved(b, WordSize))) /\ out' = Peeked(b, size)
  BY <1>1, <1>2, <1>4, <1>5, DoesKeeps
<1>7. Queues!Read(n, size)
  BY <1>2, <1>3, <1>4, <1>5, <1>6 DEF Queues!Read, b
<1>8. Queues!Next
  BY <1>7 DEF Queues!Next, Calls, Queues!Calls
<1>9. StepIsRoomy
  BY <1>4, <1>6, TakingIsRoomy
<1>10. QED
  BY <1>6, <1>8, <1>9 DEF Right

\* retrieve_all
LEMMA RetrievingAllIsRight ==
  ASSUME TypeOK, NEW n \in Buffers, retrieve_all(n), Calls("retrieve all", <<n>>)
  PROVE  Right
<1> DEFINE b == buffer[n]
<1>1. Sound(b) /\ <<>> \in Seq(Bytes) /\ Does(n, RetrievedAll(b), <<>>)
  BY EmptySeq DEF TypeOK, Sound, retrieve_all
<1> HIDE DEF b
<1>2. Sound(RetrievedAll(b)) /\ Contents(RetrievedAll(b)) = <<>>
  BY <1>1, RetrievedAllContents
<1>3. /\ TypeOK' /\ buffer'[n] = RetrievedAll(b)
      /\ Queues!Becomes(n, Contents(RetrievedAll(b))) /\ out' = <<>>
  BY <1>1, <1>2, DoesKeeps
<1>4. Queues!DropAll(n)
  BY <1>2, <1>3 DEF Queues!DropAll
<1>5. Queues!Next
  BY <1>4 DEF Queues!Next, Calls, Queues!Calls
<1>6. above_high_water_size(RetrievedAll(b)) = Capacity
  BY RetrievedAllRoom
<1>7. StepIsRoomy
  BY <1>3, <1>6, TakingIsRoomy
<1>8. QED
  BY <1>3, <1>5, <1>7 DEF Right

\* swap
LEMMA SwappingIsRight ==
  ASSUME TypeOK, NEW n \in Buffers, NEW m \in Buffers, swap(n, m), Calls("swap", <<n, m>>)
  PROVE  Right
<1>1. /\ buffer \in [Buffers -> Buffer] /\ \A k \in Buffers : buffer[k].low <= buffer[k].high
      /\ buffer' = [buffer EXCEPT ![n] = buffer[m], ![m] = buffer[n]] /\ out' = <<>>
  BY DEF TypeOK, swap
<1>2. <<>> \in Seq(Bytes)
  BY EmptySeq
<1>3. TypeOK'
  BY <1>1, <1>2 DEF TypeOK
<1>4. Queues!Swap(n, m)
  BY <1>1 DEF Queues!Swap
<1>5. Queues!Next
  BY <1>4 DEF Queues!Next, Calls, Queues!Calls
<1>6. "swap" \notin Emptying
  BY DEF Emptying
<1>7. QED
  BY <1>3, <1>5, <1>6, OtherCallsAreRoomy DEF Right

\* Every step.
LEMMA NextIsRight ==
  ASSUME TypeOK, Next
  PROVE  Right
<1>1. QED
  BY AddingIsRight, TakingIsRight, ReadingIsRight, RetrievingAllIsRight, SwappingIsRight
     DEF Next
-------------------------------------------------------------------------------
\* The theorems.

\* The indices stay in order and within the array (buffer.h 46-58, 77-88, 116-118).
THEOREM TypeCorrect == Spec => []TypeOK
<1>1. Init => TypeOK
  <2>1. <<>> \in Seq(Bytes)
    BY EmptySeq
  <2>2. LowWater \in 0..Capacity /\ HighWater \in 0..Capacity /\ LowWater <= HighWater
    BY WatersAssumption
  <2>3. QED
    BY <2>1, <2>2 DEF Init, TypeOK, Buffer
<1>2. TypeOK /\ [Next]_vars => TypeOK'
  <2>1. CASE Next
    BY <2>1, NextIsRight DEF Right
  <2>2. CASE UNCHANGED vars
    BY <2>2 DEF TypeOK, vars
  <2>3. QED
    BY <2>1, <2>2
<1>3. QED
  BY <1>1, <1>2, PTL DEF Spec

\* A buffer that taking bytes empties has its whole array free (buffer.h 46-58).
THEOREM EmptiedHasRoom == Spec => EmptiedIsRoomy
<1>1. TypeOK /\ [Next]_vars => [StepIsRoomy]_vars
  BY NextIsRight DEF Right
<1>2. EmptiedIsRoomy <=> [][StepIsRoomy]_vars
  BY DEF EmptiedIsRoomy, StepIsRoomy
<1>3. QED
  BY <1>1, <1>2, TypeCorrect, PTL DEF Spec

\* The array and its indices are a queue of bytes, whichever calls are made on it in
\* whichever order; reading a value takes out as many bytes as an int32_t has, whatever
\* its size (buffer.h 29-118).
THEOREM KeepsQueues == Spec => ImplementsQueues
<1>1. Init => Queues!Init
  <2>1. ASSUME Init, NEW n \in Buffers
        PROVE  Contents(buffer[n]) \in Seq(Bytes)
               /\ Len(Contents(buffer[n])) = HighWater - LowWater
    <3>1. buffer[n].low = LowWater /\ buffer[n].high = HighWater /\ buffer[n].bytes \in Array
      BY <2>1 DEF Init, Array
    <3>2. LowWater \in 0..Capacity /\ HighWater \in 0..Capacity /\ LowWater <= HighWater
      BY WatersAssumption
    <3>3. Sound(buffer[n])
      BY <2>1, <3>2 DEF Init, Sound, Buffer
    <3>4. QED
      BY <3>1, <3>3, SoundParts
  <2>2. QED
    BY <2>1 DEF Init, Queues!Init
<1>2. TypeOK /\ [Next]_vars => [Queues!Next]_Queues!vars
  <2>1. CASE TypeOK /\ Next
    BY <2>1, NextIsRight DEF Right
  <2>2. CASE UNCHANGED vars
    BY <2>2 DEF vars, Queues!vars
  <2>3. QED
    BY <2>1, <2>2
<1>3. QED
  BY <1>1, <1>2, TypeCorrect, PTL DEF Spec, ImplementsQueues, Queues!Spec
===============================================================================
