-------------------------------- MODULE Messages --------------------------------
(***************************************************************************)
(* A message (net/message.h): four characters of header, in which the      *)
(* length of the body is written as a decimal number, and a body of up to  *)
(* max_body_length characters; and the loop of the example client          *)
(* (libs/example/client.cpp) that makes a message of each line it reads.   *)
(* Characters are their ASCII codes.                                       *)
(***************************************************************************)
EXTENDS Integers, Sequences, SequencesExt

CONSTANTS
  Chars,        \* the characters a header may hold when it is read
  BodyLengths,  \* the lengths callers pass to body_length(length)
  Lines,        \* the lengths of the lines the client reads
  SizeModulus   \* 2^64, the modulus of size_t

ASSUME CharsAssumption == Chars \subseteq 0..127
ASSUME MessageLengthsAssumption == BodyLengths \subseteq Nat /\ Lines \subseteq Nat
ASSUME SizeModulusAssumption == SizeModulus \in Nat /\ SizeModulus > 10000

VARIABLES
  header,       \* the first header_length characters of _data
  body_length,  \* _body_length
  decoded,      \* what decode_header said, if it was the last call
  framed,       \* the length encode_header wrote to the header, if it still holds it
  client        \* "reading" lines, or "closed" when the loop has ended

messageVars == <<header, body_length, decoded, framed, client>>

header_length == 4
max_body_length == 1024

Headers == [1..header_length -> Chars]
NotFramed == -1
NoAnswer == "none"

\* _data is not initialized.
MessageInit ==
  /\ header \in Headers
  /\ body_length = 0
  /\ decoded = NoAnswer
  /\ framed = NotFramed
  /\ client = "reading"

-------------------------------------------------------------------------------
\* std::atoi: blanks, a sign, and digits up to the first other character, 0 if
\* there is none.  (NUL, where strncat stops, is such a character.)
Blanks == (9..13) \cup {32}
Plus == 43
Minus == 45
Digits == 48..57

\* The longest prefix of s of characters in chars, and what follows it.
Span(s, chars) ==
  LET i == SelectInSeq(s, LAMBDA c : c \notin chars)
  IN IF i = 0 THEN Len(s) ELSE i - 1
DropSpan(s, chars) == SubSeq(s, Span(s, chars) + 1, Len(s))
TakeSpan(s, chars) == SubSeq(s, 1, Span(s, chars))

\* What a digit counts for at each position of a header.
Place == <<1000, 100, 10, 1>>

\* The number that at most header_length digits make up.
Number(digits) ==
  LET at(i) == LET j == Len(digits) - (header_length - i)
               IN IF j >= 1 THEN Place[i] * (digits[j] - 48) ELSE 0
  IN at(1) + at(2) + at(3) + at(4)

atoi(s) ==
  LET number == DropSpan(s, Blanks)
      signed == number # <<>> /\ Head(number) \in {Plus, Minus}
      value == Number(TakeSpan(IF signed THEN Tail(number) ELSE number, Digits))
  IN IF signed /\ Head(number) = Minus THEN -value ELSE value

\* An int assigned to a size_t.
AsSize(n) == n % SizeModulus

\* sprintf("%4d", n): the digits of n, blanks before them.  Only the first
\* header_length characters are copied.
Formatted(n) ==
  [i \in 1..header_length |->
    IF i = header_length \/ n >= Place[i] THEN 48 + ((n \div Place[i]) % 10) ELSE 32]

\* Mutant: a length one too large is let through.
CappedLate(length) ==
  IF length > max_body_length + 1 THEN max_body_length ELSE length

\* body_length(length)
Capped(length) == IF length > max_body_length THEN max_body_length ELSE length

-------------------------------------------------------------------------------
\* The holder of the message sets its length.
SetBodyLength(length) ==
  /\ body_length' = Capped(length)
  /\ decoded' = NoAnswer
  /\ UNCHANGED <<header, framed, client>>

EncodeHeader ==
  /\ header' = Formatted(body_length)
  /\ framed' = body_length
  /\ decoded' = NoAnswer
  /\ UNCHANGED <<body_length, client>>

\* A reader of a connection writes to data(), whatever was sent to it.
ReadData ==
  /\ header' \in Headers
  /\ framed' = NotFramed
  /\ decoded' = NoAnswer
  /\ UNCHANGED <<body_length, client>>

\* Mutant: a length that is refused stays.
DecodeHeaderKeeps ==
  /\ body_length' = AsSize(atoi(header))
  /\ decoded' = IF body_length' > max_body_length THEN "refused" ELSE "accepted"
  /\ UNCHANGED <<header, framed, client>>

DecodeHeader ==
  /\ LET length == AsSize(atoi(header))
     IN IF length > max_body_length
        THEN body_length' = 0 /\ decoded' = "refused"
        ELSE body_length' = length /\ decoded' = "accepted"
  /\ UNCHANGED <<header, framed, client>>

\* The client reads a line and makes a new message of it.
ReadLine(length) ==
  /\ client = "reading" /\ length <= max_body_length
  /\ body_length' = Capped(length)
  /\ header' = Formatted(Capped(length))
  /\ framed' = Capped(length)
  /\ decoded' = NoAnswer
  /\ UNCHANGED client

\* getline fails: the input has ended, or the line is longer than its buffer.
StopReading ==
  /\ client = "reading"
  /\ client' = "closed"
  /\ UNCHANGED <<header, body_length, decoded, framed>>

MessageNext ==
  \/ \E length \in BodyLengths : SetBodyLength(length)
  \/ \E length \in Lines : ReadLine(length)
  \/ EncodeHeader \/ ReadData \/ DecodeHeader \/ StopReading

MessageSpec == MessageInit /\ [][MessageNext]_messageVars

-------------------------------------------------------------------------------
(***************************************************************************)
(* The body lies within the array, whatever four characters a header is    *)
(* decoded from: a negative number too, which becomes a huge size_t.       *)
(***************************************************************************)
BodyFits == body_length \in 0..max_body_length

(***************************************************************************)
(* A header that encode_header wrote, of any length body_length(length)    *)
(* let through or of any line of the client, is decoded to that length.    *)
(***************************************************************************)
FramedIsRecovered ==
  framed # NotFramed /\ decoded # NoAnswer =>
    decoded = "accepted" /\ body_length = framed

\* The inductive invariant behind both: a header holds the digits of the length
\* it was made of, until a reader of a connection overwrites it.
FramedHolds ==
  framed # NotFramed => framed \in 0..max_body_length /\ header = Formatted(framed)

MessageIInv ==
  /\ header \in [1..header_length -> Int]
  /\ BodyFits
  /\ FramedHolds
  /\ FramedIsRecovered
===============================================================================
