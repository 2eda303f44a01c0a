--------------------------- MODULE Rs485LinkProofs ---------------------------
(***************************************************************************)
(* Proofs about Rs485Link, for any length of a frame, any FIFO and any     *)
(* number of frames and line errors.                                       *)
(*                                                                         *)
(* That no frame is taken twice rests on its last digit: it goes through   *)
(* FIFO and parser once, so a frame that the main loop took or may take    *)
(* (Parsed) is older than every last digit still to come (UartInv,         *)
(* LineInv).  That no clean frame is lost rests on its sof (CleanInv).     *)
(***************************************************************************)
EXTENDS Rs485Link, TLAPS

ParserType ==
  [start : BOOLEAN, count : 0..(FrameLength + 1), data : [Index -> Char],
   done : BOOLEAN, rx : 0..MaxFrames]

\* TypeOK, with the length of the line kept pace with its errors.
TypeInv ==
  /\ line \in Seq(Char) /\ Len(line) <= FLENGTH + errors
  /\ uart \in Seq(Char) /\ Len(uart) <= FifoSize
  /\ parser \in ParserType
  /\ mode \in {"loop", "poll", "task"}
  /\ got \in 0..MaxFrames
  /\ sent \in 0..MaxFrames
  /\ damaged \in BOOLEAN
  /\ errors \in 0..MaxErrors
  /\ sends \in 0..MaxSends

-----------------------------------------------------------------------------
LEMMA DigitType ==
  ASSUME NEW n \in 0..MaxFrames, NEW i \in 0..FrameLength
  PROVE  Digit(n, i) \in Char
  BY DEF Digit, Char

LEMMA MarksType == Sof \in Char /\ Eof \in Char /\ Noise \in Char
  BY LinkAssumption DEF Sof, Eof, Noise, Digit, Char

LEMMA WholeType ==
  ASSUME NEW n \in 0..MaxFrames
  PROVE  /\ Whole(n) \in Seq(Char) /\ Len(Whole(n)) = FLENGTH
         /\ \A i \in 1..FrameLength : Whole(n)[i + 1] = Digit(n, i)
         /\ Whole(n)[1] = Sof /\ Whole(n)[FLENGTH] = Eof
  <1> DEFINE digits == [i \in 1..FrameLength |-> Digit(n, i)]
  <1>1. FrameLength \in Nat
    BY LinkAssumption
  <1>2. digits \in Seq(Char) /\ Len(digits) = FrameLength
    <2>1. \A i \in 1..FrameLength : digits[i] \in Char
      BY <1>1, DigitType
    <2> QED
      BY <1>1, <2>1
  <1>3. <<Sof>> \in Seq(Char) /\ Len(<<Sof>>) = 1 /\ <<Eof>> \in Seq(Char) /\ Len(<<Eof>>) = 1
    BY MarksType
  <1>4. \A i \in 1..FrameLength : digits[i] = Digit(n, i)
    OBVIOUS
  <1> HIDE DEF digits
  <1>5. Whole(n) = (<<Sof>> \o digits) \o <<Eof>>
    BY DEF Whole, digits
  <1>6. /\ (<<Sof>> \o digits) \in Seq(Char) /\ Len(<<Sof>> \o digits) = FrameLength + 1
        /\ (<<Sof>> \o digits)[1] = Sof
        /\ \A i \in 1..FrameLength : (<<Sof>> \o digits)[i + 1] = digits[i]
    BY <1>1, <1>2, <1>3
  <1> DEFINE front == <<Sof>> \o digits
  <1>7. front \in Seq(Char) /\ Len(front) = FrameLength + 1 /\ Whole(n) = front \o <<Eof>>
    BY <1>5, <1>6
  <1>8. front[1] = Sof /\ \A i \in 1..FrameLength : front[i + 1] = Digit(n, i)
    BY <1>4, <1>6
  <1> HIDE DEF front
  <1>9. Whole(n) \in Seq(Char) /\ Len(Whole(n)) = FLENGTH
    BY <1>1, <1>3, <1>7 DEF FLENGTH
  <1>10. Whole(n)[FLENGTH] = Eof
    BY <1>1, <1>3, <1>7 DEF FLENGTH
  <1>11. \A i \in 1..(FrameLength + 1) : Whole(n)[i] = front[i]
    BY <1>1, <1>3, <1>7
  <1>12. 1 \in 1..(FrameLength + 1) /\ \A i \in 1..FrameLength : i + 1 \in 1..(FrameLength + 1)
    BY <1>1
  <1> QED
    BY <1>8, <1>9, <1>10, <1>11, <1>12

LEMMA OwnFrameType == OwnFrame \in [Index -> Char]
  <1>1. \A i \in Index :
          (CASE i = 0 -> Sof [] i = FLENGTH - 1 -> Eof [] i = FLENGTH -> Noise
             [] OTHER -> Digit(0, i)) \in Char
    <2> SUFFICES ASSUME NEW i \in Index, i # FLENGTH - 1, i # FLENGTH
                 PROVE  Digit(0, i) \in Char
      BY MarksType
    <2>1. i \in 0..FrameLength
      BY LinkAssumption DEF Index, FLENGTH
    <2> QED
      BY <2>1, DigitType, LinkAssumption
  <1> QED
    BY <1>1 DEF OwnFrame

\* The parser keeps its type whatever comes.
LEMMA ParserStep ==
  ASSUME NEW p \in ParserType, NEW c \in Char
  PROVE  Parse485Data(p, c) \in ParserType
  <1> USE LinkAssumption
  <1>00. 0 \in 0..(FrameLength + 1)
    OBVIOUS
  <1>0. Reset(p) \in ParserType
    BY <1>00 DEF Reset, ParserType
  <1>1. ParseSof(p) \in ParserType
    BY <1>00 DEF ParseSof, ParserType
  <1>2. ParseEof(p) \in ParserType
    <2>1. CASE Reformed(p.data) # {}
      <3>1. (CHOOSE n \in Reformed(p.data) : TRUE) \in 0..MaxFrames
        BY <2>1 DEF Reformed
      <3>2. [Reset(p) EXCEPT !.done = TRUE,
               !.rx = CHOOSE n \in Reformed(p.data) : TRUE] \in ParserType
        BY <1>0, <3>1 DEF ParserType
      <3> QED
        BY <1>0, <3>2 DEF ParseEof
    <2>2. CASE Reformed(p.data) = {}
      BY <1>0, <2>2 DEF ParseEof
    <2> QED
      BY <2>1, <2>2
  <1>3. ParseDigit(p, c) \in ParserType
    <2>1. CASE p.count > FrameLength
      BY <1>0, <2>1 DEF ParseDigit
    <2>2. CASE ~(p.count > FrameLength)
      <3>1. p.count + 1 \in 0..(FrameLength + 1) /\ p.count \in Index
        BY <2>2 DEF ParserType, Index, FLENGTH
      <3>2. [p EXCEPT !.data[p.count] = c, !.count = @ + 1] \in ParserType
        BY <3>1 DEF ParserType
      <3> QED
        BY <2>2, <3>2 DEF ParseDigit
    <2> QED
      BY <2>1, <2>2
  <1> QED
    BY <1>1, <1>2, <1>3 DEF Parse485Data

LEMMA InitType == Init => TypeInv
  <1> SUFFICES ASSUME Init PROVE TypeInv
    OBVIOUS
  <1>1. parser \in ParserType
    BY MarksType, LinkAssumption DEF Init, ParserType
  <1>2. <<>> \in Seq(Char) /\ Len(<<>>) = 0
    OBVIOUS
  <1>3. 0 <= FLENGTH + 0 /\ 0 <= FifoSize
    BY LinkAssumption DEF FLENGTH
  <1>4. /\ line = <<>> /\ uart = <<>> /\ mode = "loop" /\ got = 0 /\ sent = 0
        /\ damaged = FALSE /\ errors = 0 /\ sends = 0
    BY DEF Init
  <1>5. 0 \in 0..MaxFrames /\ 0 \in 0..MaxErrors /\ 0 \in 0..MaxSends
    BY LinkAssumption
  <1> QED
    BY <1>1, <1>2, <1>3, <1>4, <1>5 DEF TypeInv

LEMMA NextType == TypeInv /\ [Next]_vars => TypeInv'
  <1> SUFFICES ASSUME TypeInv, [Next]_vars PROVE TypeInv'
    OBVIOUS
  <1> USE LinkAssumption DEF TypeInv
  <1>1. CASE RemoteSends
    <2>1. sent' \in 0..MaxFrames
      BY <1>1 DEF RemoteSends
    <2>2. line' \in Seq(Char) /\ Len(line') = FLENGTH
      BY <1>1, <2>1, WholeType DEF RemoteSends
    <2>3. Len(line') <= FLENGTH + errors
      BY <2>2 DEF FLENGTH
    <2> QED
      BY <1>1, <2>1, <2>2, <2>3 DEF RemoteSends
  <1>2. CASE CharArrives
    <2>1. line' \in Seq(Char) /\ Len(line') <= FLENGTH + errors
      BY <1>2 DEF CharArrives, FLENGTH
    <2>2. uart' \in Seq(Char) /\ Len(uart') <= FifoSize /\ damaged' \in BOOLEAN
      <3>1. CASE UNCHANGED damaged
        <4>1. Head(line) \in Char
          BY <1>2 DEF CharArrives
        <4>2. UNCHANGED uart \/ (Len(uart) < FifoSize /\ uart' = Append(uart, Head(line)))
          BY <1>2 DEF CharArrives
        <4> QED
          BY <3>1, <4>1, <4>2
      <3>2. CASE UNCHANGED uart /\ damaged' = TRUE
        BY <3>2
      <3> QED
        BY <1>2, <3>1, <3>2 DEF CharArrives
    <2> QED
      BY <1>2, <2>1, <2>2 DEF CharArrives
  <1>3. CASE LineError
    <2>1. line' \in Seq(Char) /\ Len(line') <= FLENGTH + errors'
      <3>1. CASE line # <<>> /\ line' = Tail(line)
        BY <1>3, <3>1 DEF LineError, FLENGTH
      <3>2. ASSUME NEW c \in {Sof, Eof, Noise}, line' = <<c>> \o line
            PROVE  line' \in Seq(Char) /\ Len(line') <= FLENGTH + errors'
        <4>1. c \in Char
          BY <3>2, MarksType
        <4> QED
          BY <1>3, <3>2, <4>1 DEF LineError, FLENGTH
      <3> QED
        BY <1>3, <3>1, <3>2 DEF LineError
    <2> QED
      BY <1>3, <2>1 DEF LineError
  <1>4. CASE Poll \/ Rs485TaskReturns
    BY <1>4 DEF Poll, Rs485TaskReturns
  <1>5. CASE Getchar
    <2>1. Head(uart) \in Char /\ Tail(uart) \in Seq(Char) /\ Len(Tail(uart)) <= FifoSize
      BY <1>5 DEF Getchar
    <2>2. parser' \in ParserType
      BY <1>5, <2>1, ParserStep DEF Getchar
    <2> QED
      BY <1>5, <2>1, <2>2 DEF Getchar
  <1>6. CASE PollEnd
    <2>1. parser' \in ParserType /\ got' \in 0..MaxFrames
      BY <1>6 DEF PollEnd, ParserType
    <2> QED
      BY <1>6, <2>1 DEF PollEnd
  <1>7. CASE Send485
    <2>1. parser' \in ParserType
      BY <1>7, OwnFrameType DEF Send485, ParserType
    <2>2. uart' \in Seq(Char) /\ Len(uart') <= FifoSize
      <3>1. uart' = uart \/ uart' = <<>>
        BY <1>7 DEF Send485
      <3>2. <<>> \in Seq(Char) /\ Len(<<>>) = 0 /\ 0 <= FifoSize
        OBVIOUS
      <3> QED
        BY <3>1, <3>2
    <2>3. damaged' \in BOOLEAN
      BY <1>7, Zenon DEF Send485
    <2> QED
      BY <1>7, <2>1, <2>2, <2>3 DEF Send485
  <1>8. CASE UNCHANGED vars
    BY <1>8 DEF vars
  <1> QED
    BY <1>1, <1>2, <1>3, <1>4, <1>5, <1>6, <1>7, <1>8 DEF Next

(* The index of parse485Data stays within one character behind the digits, *)
(* for frames and lines of any length.                                     *)
THEOREM TypeCorrect == Spec => []TypeOK
  <1>1. TypeInv => TypeOK
    BY LinkAssumption DEF TypeInv, TypeOK, ParserType, FLENGTH
  <1> QED
    BY InitType, NextType, <1>1, PTL DEF Spec

-----------------------------------------------------------------------------
(* Neither parse485Data nor send485 writes behind m485Data.                *)
THEOREM NeverBehind == Spec => []BufferInBounds
  <1> USE LinkAssumption
  <1>1. Init => BufferInBounds
    BY DEF Init, BufferInBounds, Index, FLENGTH
  <1>2. TypeInv /\ BufferInBounds /\ [Next]_vars => BufferInBounds'
    <2> SUFFICES ASSUME TypeInv, BufferInBounds, [Next]_vars PROVE BufferInBounds'
      OBVIOUS
    <2>0. parser \in ParserType /\ FLENGTH \in Index
      BY DEF TypeInv, Index, FLENGTH
    <2>1. CASE Getchar
      <3>1. parser' = Parse485Data(parser, Head(uart))
        BY <2>1 DEF Getchar
      <3>2. CASE parser'.data = parser.data
        BY <3>2 DEF BufferInBounds
      <3>3. CASE parser'.data # parser.data
        <4>1. /\ ~(parser.count > FrameLength)
              /\ parser' = [parser EXCEPT !.data[parser.count] = Head(uart), !.count = @ + 1]
          BY <2>0, <3>1, <3>3
          DEF Parse485Data, ParseSof, ParseEof, ParseDigit, Reset, ParserType
        <4>2. parser'.data = [parser.data EXCEPT ![parser.count] = Head(uart)]
          BY <2>0, <4>1 DEF ParserType
        <4>3. parser.count # FLENGTH
          BY <2>0, <4>1 DEF ParserType, FLENGTH
        <4> QED
          BY <2>0, <4>2, <4>3 DEF BufferInBounds, ParserType
      <3> QED
        BY <3>2, <3>3
    <2>2. CASE Send485
      <3>1. parser'.data = OwnFrame
        BY <2>0, <2>2 DEF Send485, ParserType
      <3>2. OwnFrame[FLENGTH] = Noise
        BY <2>0 DEF OwnFrame, FLENGTH
      <3> QED
        BY <3>1, <3>2 DEF BufferInBounds
    <2>3. CASE PollEnd
      BY <2>0, <2>3 DEF PollEnd, ParserType, BufferInBounds
    <2>4. CASE UNCHANGED parser
      BY <2>4 DEF BufferInBounds
    <2> QED
      BY <2>1, <2>2, <2>3, <2>4
      DEF Next, RemoteSends, CharArrives, LineError, Poll, Rs485TaskReturns, vars
  <1> QED
    BY InitType, NextType, <1>1, <1>2, PTL DEF Spec

-----------------------------------------------------------------------------
(* What is known of the order of the frames.                               *)

\* The last digit of a frame of the remote node, which it has once.
IsLast(c) == c.kind = "digit" /\ c.at = FrameLength /\ c.of > 0

\* All the digits of a frame since its sof: the frame that they may be.
Collected(k) ==
  /\ parser.start /\ parser.count = FrameLength
  /\ IsLast(parser.data[FrameLength - 1])
  /\ k = parser.data[FrameLength - 1].of

\* Frames that the parser has, or the main loop took.
Parsed(k) == k = got \/ (parser.done /\ k = parser.rx) \/ Collected(k)

\* The parser holds one frame at most, and only a new one.
ParserInv ==
  /\ got <= sent
  /\ parser.done => ~parser.start /\ parser.rx \in (got + 1)..sent
  /\ \A k \in Nat : Collected(k) => k \in (got + 1)..sent

\* What waits in the FIFO is newer still, and in order.
UartInv ==
  \A u \in 1..Len(uart) : IsLast(uart[u]) =>
    /\ uart[u].of <= sent
    /\ \A k \in Nat : Parsed(k) => k < uart[u].of
    /\ \A v \in 1..Len(uart) : u < v /\ IsLast(uart[v]) => uart[u].of < uart[v].of

\* The line has the rest of the latest frame, and no other.
LineInv ==
  \A i \in 1..Len(line) : IsLast(line[i]) =>
    /\ line[i].of = sent
    /\ \A k \in Nat : Parsed(k) => k < sent
    /\ \A u \in 1..Len(uart) : IsLast(uart[u]) => uart[u].of < sent
    /\ \A j \in 1..Len(line) : IsLast(line[j]) => j = i

IInv == TypeInv /\ ParserInv /\ UartInv /\ LineInv

-----------------------------------------------------------------------------
LEMMA InitInv == Init => IInv
  <1> SUFFICES ASSUME Init PROVE IInv
    OBVIOUS
  <1>1. ParserInv
    BY LinkAssumption DEF Init, ParserInv, Collected
  <1>2. UartInv /\ LineInv
    BY DEF Init, UartInv, LineInv
  <1> QED
    BY <1>1, <1>2, InitType DEF IInv

\* A step that leaves the parser and the number of frames alone.
LEMMA ParsedSame ==
  ASSUME UNCHANGED <<parser, got>>
  PROVE  \A k \in Nat : (Parsed(k)' <=> Parsed(k)) /\ (Collected(k)' <=> Collected(k))
  BY DEF Parsed, Collected

\* A new frame on the line is newer than all that is known.
LEMMA RemoteSendsInv ==
  ASSUME IInv, RemoteSends PROVE ParserInv' /\ UartInv' /\ LineInv'
  <1> USE LinkAssumption
  <1>0. got \in Nat /\ sent \in Nat /\ uart \in Seq(Char) /\ parser.rx \in Nat
    BY DEF IInv, TypeInv, ParserType
  <1>1. /\ sent' = sent + 1 /\ sent' \in 0..MaxFrames /\ line' = Whole(sent')
        /\ UNCHANGED <<uart, parser, got>>
    BY <1>0 DEF RemoteSends, IInv, TypeInv
  <1>2. \A k \in Nat : Parsed(k) => k <= sent
    BY <1>0 DEF IInv, ParserInv, Parsed
  <1>3. ParserInv'
    BY <1>0, <1>1, ParsedSame DEF IInv, ParserInv
  <1>4. \A u \in 1..Len(uart) : IsLast(uart[u]) => uart[u].of \in Nat /\ uart[u].of <= sent
    <2> SUFFICES ASSUME NEW u \in 1..Len(uart), IsLast(uart[u])
                 PROVE  uart[u].of \in Nat /\ uart[u].of <= sent
      OBVIOUS
    <2>1. uart[u] \in Char
      BY <1>0
    <2> QED
      BY <2>1 DEF IInv, UartInv, Char
  <1>5. UartInv'
    BY <1>0, <1>1, <1>4, ParsedSame DEF IInv, UartInv
  <1>6. \A i \in 1..Len(line') : IsLast(line'[i]) => i = FrameLength + 1 /\ line'[i].of = sent'
    <2> SUFFICES ASSUME NEW i \in 1..FLENGTH, IsLast(Whole(sent')[i])
                 PROVE  i = FrameLength + 1 /\ Whole(sent')[i].of = sent'
      BY <1>1, WholeType
    <2>1. i # 1 /\ i # FLENGTH
      BY <1>1, WholeType DEF IsLast, Sof, Eof
    <2>2. PICK j \in 1..FrameLength : i = j + 1
      BY <2>1 DEF FLENGTH
    <2>3. Whole(sent')[i] = Digit(sent', j)
      BY <1>1, <2>2, WholeType
    <2> QED
      BY <2>2, <2>3 DEF IsLast, Digit
  <1>7. LineInv'
    <2>1. \A k \in Nat : Parsed(k)' => k < sent'
      BY <1>0, <1>1, <1>2, ParsedSame
    <2>2. \A u \in 1..Len(uart') : IsLast(uart'[u]) => uart'[u].of < sent'
      BY <1>0, <1>1, <1>4
    <2> QED
      BY <1>6, <2>1, <2>2 DEF LineInv
  <1> QED
    BY <1>3, <1>5, <1>7

\* A character comes into the FIFO, or is lost, or is made up.
LEMMA CharArrivesInv ==
  ASSUME IInv, CharArrives PROVE ParserInv' /\ UartInv' /\ LineInv'
  <1> USE LinkAssumption
  <1>0. /\ got \in Nat /\ sent \in Nat /\ uart \in Seq(Char) /\ line \in Seq(Char)
        /\ UNCHANGED <<parser, got, sent>> /\ line # <<>> /\ line' = Tail(line)
    BY DEF IInv, TypeInv, CharArrives
  <1>1. ParserInv'
    BY <1>0, ParsedSame DEF IInv, ParserInv
  <1>2. Head(line) = line[1] /\ 1 \in 1..Len(line) /\ line[1] \in Char
    BY <1>0
  <1>3. /\ Len(line') = Len(line) - 1
        /\ \A i \in 1..Len(line') : i + 1 \in 1..Len(line) /\ line'[i] = line[i + 1]
    BY <1>0
  <1>4. CASE UNCHANGED uart
    <2>1. UartInv'
      BY <1>0, <1>4, ParsedSame DEF IInv, UartInv
    <2>2. LineInv'
      BY <1>0, <1>3, <1>4, ParsedSame DEF IInv, LineInv
    <2> QED
      BY <1>1, <2>1, <2>2
  <1>5. CASE uart' = Append(uart, line[1])
    <2>1. /\ Len(uart') = Len(uart) + 1 /\ uart'[Len(uart) + 1] = line[1]
          /\ \A u \in 1..Len(uart) : uart'[u] = uart[u]
      BY <1>0, <1>2, <1>5
    <2>2. IsLast(line[1]) =>
            /\ line[1].of = sent
            /\ \A k \in Nat : Parsed(k) => k < sent
            /\ \A u \in 1..Len(uart) : IsLast(uart[u]) => uart[u].of < sent
            /\ \A j \in 1..Len(line) : IsLast(line[j]) => j = 1
      BY <1>2 DEF IInv, LineInv
    <2>3. UartInv'
      <3> SUFFICES ASSUME NEW u \in 1..(Len(uart) + 1), IsLast(uart'[u])
                   PROVE  /\ uart'[u].of <= sent
                          /\ \A k \in Nat : Parsed(k) => k < uart'[u].of
                          /\ \A v \in 1..(Len(uart) + 1) :
                               u < v /\ IsLast(uart'[v]) => uart'[u].of < uart'[v].of
        BY <1>0, <2>1, ParsedSame DEF UartInv
      <3>1. CASE u = Len(uart) + 1
        BY <1>0, <2>1, <2>2, <3>1
      <3>2. CASE u \in 1..Len(uart)
        <4>1. /\ uart'[u] = uart[u] /\ uart[u].of <= sent
              /\ \A k \in Nat : Parsed(k) => k < uart[u].of
              /\ \A v \in 1..Len(uart) :
                   u < v /\ IsLast(uart[v]) => uart[u].of < uart[v].of
          BY <2>1, <3>2 DEF IInv, UartInv
        <4>2. IsLast(line[1]) => uart[u].of < line[1].of
          BY <2>2, <3>2, <4>1
        <4>3. ASSUME NEW v \in 1..(Len(uart) + 1), u < v, IsLast(uart'[v])
              PROVE  uart'[u].of < uart'[v].of
          <5>1. CASE v = Len(uart) + 1
            BY <2>1, <4>1, <4>2, <4>3, <5>1
          <5>2. CASE v \in 1..Len(uart)
            BY <2>1, <4>1, <4>3, <5>2
          <5> QED
            BY <1>0, <5>1, <5>2
        <4> QED
          BY <4>1, <4>3
      <3> QED
        BY <1>0, <3>1, <3>2
    <2>4. LineInv'
      <3> SUFFICES ASSUME NEW i \in 1..Len(line'), IsLast(line'[i])
                   PROVE  /\ line'[i].of = sent
                          /\ \A k \in Nat : Parsed(k) => k < sent
                          /\ \A u \in 1..(Len(uart) + 1) : IsLast(uart'[u]) => uart'[u].of < sent
                          /\ \A j \in 1..Len(line') : IsLast(line'[j]) => j = i
        BY <1>0, <2>1, ParsedSame DEF LineInv
      <3>1. i + 1 \in 1..Len(line) /\ IsLast(line[i + 1]) /\ line'[i] = line[i + 1]
        BY <1>3
      <3>2. ~IsLast(line[1])
        BY <1>0, <2>2, <3>1
      <3>3. /\ line[i + 1].of = sent
            /\ \A k \in Nat : Parsed(k) => k < sent
            /\ \A u \in 1..Len(uart) : IsLast(uart[u]) => uart[u].of < sent
            /\ \A j \in 1..Len(line) : IsLast(line[j]) => j = i + 1
        BY <3>1 DEF IInv, LineInv
      <3>4. \A u \in 1..(Len(uart) + 1) : IsLast(uart'[u]) => uart'[u].of < sent
        <4> SUFFICES ASSUME NEW u \in 1..(Len(uart) + 1), IsLast(uart'[u])
                     PROVE  uart'[u].of < sent
          OBVIOUS
        <4>1. u \in 1..Len(uart)
          BY <1>0, <2>1, <3>2
        <4> QED
          BY <2>1, <3>3, <4>1
      <3>5. \A j \in 1..Len(line') : IsLast(line'[j]) => j = i
        BY <1>3, <3>3
      <3> QED
        BY <3>1, <3>3, <3>4, <3>5
    <2> QED
      BY <1>1, <2>3, <2>4
  <1> QED
    BY <1>2, <1>4, <1>5 DEF CharArrives

LEMMA LineErrorInv ==
  ASSUME IInv, LineError PROVE ParserInv' /\ UartInv' /\ LineInv'
  <1> USE LinkAssumption
  <1>0. /\ got \in Nat /\ sent \in Nat /\ uart \in Seq(Char) /\ line \in Seq(Char)
        /\ UNCHANGED <<uart, parser, got, sent>>
    BY DEF IInv, TypeInv, LineError
  <1>1. ParserInv' /\ UartInv'
    BY <1>0, ParsedSame DEF IInv, ParserInv, UartInv
  <1>2. CASE line # <<>> /\ line' = Tail(line)
    <2>1. \A i \in 1..Len(line') : i + 1 \in 1..Len(line) /\ line'[i] = line[i + 1]
      BY <1>0, <1>2
    <2> QED
      BY <1>0, <1>1, <2>1, ParsedSame DEF IInv, LineInv
  <1>3. ASSUME NEW c \in {Sof, Eof, Noise}, line' = <<c>> \o line PROVE LineInv'
    <2>1. c \in Char /\ ~IsLast(c)
      BY MarksType DEF IsLast, Sof, Eof, Noise, Digit
    <2>2. /\ Len(line') = Len(line) + 1 /\ line'[1] = c
          /\ \A i \in 2..(Len(line) + 1) : line'[i] = line[i - 1]
      BY <1>0, <1>3, <2>1
    <2>3. \A i \in 1..Len(line') : IsLast(line'[i]) =>
            i - 1 \in 1..Len(line) /\ line'[i] = line[i - 1]
      BY <1>0, <2>1, <2>2
    <2> SUFFICES ASSUME NEW i \in 1..Len(line'), IsLast(line'[i])
                 PROVE  /\ line'[i].of = sent
                        /\ \A k \in Nat : Parsed(k) => k < sent
                        /\ \A u \in 1..Len(uart) : IsLast(uart[u]) => uart[u].of < sent
                        /\ \A j \in 1..Len(line') : IsLast(line'[j]) => j = i
      BY <1>0, ParsedSame DEF LineInv
    <2>4. /\ line[i - 1].of = sent /\ line'[i] = line[i - 1]
          /\ \A k \in Nat : Parsed(k) => k < sent
          /\ \A u \in 1..Len(uart) : IsLast(uart[u]) => uart[u].of < sent
          /\ \A j \in 1..Len(line) : IsLast(line[j]) => j = i - 1
      BY <2>3 DEF IInv, LineInv
    <2>5. \A j \in 1..Len(line') : IsLast(line'[j]) => j = i
      <3> SUFFICES ASSUME NEW j \in 1..Len(line'), IsLast(line'[j]) PROVE j = i
        OBVIOUS
      <3>1. j - 1 \in 1..Len(line) /\ IsLast(line[j - 1])
        BY <2>3
      <3>2. j - 1 = i - 1
        BY <2>4, <3>1
      <3> QED
        BY <1>0, <2>2, <3>2
    <2> QED
      BY <2>4, <2>5
  <1> QED
    BY <1>1, <1>2, <1>3 DEF LineError

\* What parse485Data does with a character: only a last digit collects a frame,
\* and only a collected frame is done.
LEMMA ParseEffect ==
  ASSUME parser \in ParserType, parser.done => ~parser.start,
         NEW c \in Char, parser' = Parse485Data(parser, c)
  PROVE  /\ \A k \in Nat : Collected(k)' => Collected(k) \/ (IsLast(c) /\ k = c.of)
         /\ parser'.done => ~parser'.start
         /\ parser'.done => \/ parser.done /\ parser'.rx = parser.rx
                            \/ Collected(parser'.rx)
  <1> USE LinkAssumption
  <1>1. CASE parser' = ParseSof(parser)
    <2>1. parser'.count = 0 /\ parser'.done = FALSE
      BY <1>1 DEF ParseSof, ParserType
    <2> QED
      BY <2>1 DEF Collected
  <1>2. CASE parser' = Reset(parser)
    <2>1. parser'.start = FALSE /\ parser'.done = FALSE
      BY <1>2 DEF Reset, ParserType
    <2> QED
      BY <2>1 DEF Collected
  <1>3. CASE /\ parser.start /\ parser.count = FrameLength /\ Reformed(parser.data) # {}
             /\ parser' = [Reset(parser) EXCEPT !.done = TRUE,
                             !.rx = CHOOSE n \in Reformed(parser.data) : TRUE]
    <2>1. parser'.start = FALSE /\ parser'.rx \in Reformed(parser.data)
      BY <1>3 DEF Reset, ParserType
    <2>2. /\ parser'.rx \in 1..MaxFrames
          /\ parser.data[FrameLength - 1] = Digit(parser'.rx, FrameLength)
      <3>1. FrameLength - 1 \in 0..(FrameLength - 1) /\ FrameLength - 1 + 1 = FrameLength
        OBVIOUS
      <3> QED
        BY <2>1, <3>1 DEF Reformed
    <2>3. Collected(parser'.rx)
      BY <1>3, <2>2 DEF Collected, IsLast, Digit
    <2> QED
      BY <2>1, <2>3 DEF Collected
  <1>4. CASE /\ ~(parser.count > FrameLength)
             /\ parser' = [parser EXCEPT !.data[parser.count] = c, !.count = @ + 1]
    <2>1. /\ parser'.start = parser.start /\ parser'.count = parser.count + 1
          /\ parser'.data = [parser.data EXCEPT ![parser.count] = c]
          /\ parser'.done = parser.done /\ parser'.rx = parser.rx
      BY <1>4 DEF ParserType
    <2>2. parser'.count = FrameLength => parser'.data[FrameLength - 1] = c
      <3>1. parser.count \in Index /\ parser.data \in [Index -> Char]
        BY <1>4 DEF ParserType, Index, FLENGTH
      <3>2. parser.count \in Nat
        BY <3>1 DEF Index, FLENGTH
      <3>3. parser'.count = FrameLength => parser.count = FrameLength - 1
        BY <2>1, <3>2
      <3> QED
        BY <2>1, <3>1, <3>3
    <2> QED
      BY <2>1, <2>2 DEF Collected
  <1> QED
    BY <1>1, <1>2, <1>3, <1>4 DEF Parse485Data, ParseEof, ParseDigit

LEMMA GetcharInv ==
  ASSUME IInv, Getchar PROVE ParserInv' /\ UartInv' /\ LineInv'
  <1> USE LinkAssumption
  <1>0. /\ got \in Nat /\ sent \in Nat /\ uart \in Seq(Char) /\ line \in Seq(Char)
        /\ parser \in ParserType
        /\ UNCHANGED <<line, got, sent>> /\ uart # <<>> /\ uart' = Tail(uart)
    BY DEF IInv, TypeInv, Getchar
  <1> DEFINE c == uart[1]
  <1>1. /\ 1 \in 1..Len(uart) /\ c \in Char /\ parser' = Parse485Data(parser, c)
        /\ \A u \in 1..Len(uart') : u + 1 \in 1..Len(uart) /\ uart'[u] = uart[u + 1]
    BY <1>0 DEF Getchar
  <1>2. c.of \in Nat
    BY <1>1 DEF Char
  <1>3. IsLast(c) =>
          /\ c.of <= sent
          /\ \A k \in Nat : Parsed(k) => k < c.of
          /\ \A v \in 1..Len(uart) : 1 < v /\ IsLast(uart[v]) => c.of < uart[v].of
    BY <1>1 DEF IInv, UartInv
  <1> HIDE DEF c
  <1>4. /\ \A k \in Nat : Collected(k)' => Collected(k) \/ (IsLast(c) /\ k = c.of)
        /\ parser'.done => ~parser'.start
        /\ parser'.done => \/ parser.done /\ parser'.rx = parser.rx
                           \/ Collected(parser'.rx)
    <2>1. parser.done => ~parser.start
      BY DEF IInv, ParserInv
    <2> QED
      BY <1>0, <1>1, <2>1, ParseEffect
  <1>5. \A k \in Nat : Parsed(k)' => Parsed(k) \/ (IsLast(c) /\ k = c.of)
    BY <1>0, <1>4 DEF Parsed
  <1>6. ParserInv'
    <2>1. Parsed(got)
      BY DEF Parsed
    <2>2. parser'.rx \in Nat
      BY <1>0, <1>1, ParserStep DEF ParserType
    <2> QED
      BY <1>0, <1>2, <1>3, <1>4, <2>1, <2>2 DEF IInv, ParserInv
  <1>7. UartInv'
    <2> SUFFICES ASSUME NEW u \in 1..Len(uart'), IsLast(uart'[u])
                 PROVE  /\ uart'[u].of <= sent
                        /\ \A k \in Nat : Parsed(k)' => k < uart'[u].of
                        /\ \A v \in 1..Len(uart') :
                             u < v /\ IsLast(uart'[v]) => uart'[u].of < uart'[v].of
      BY <1>0 DEF UartInv
    <2>1. /\ u + 1 \in 1..Len(uart) /\ uart'[u] = uart[u + 1] /\ 1 < u + 1
      BY <1>1
    <2>2. /\ uart[u + 1].of <= sent
          /\ \A k \in Nat : Parsed(k) => k < uart[u + 1].of
          /\ \A v \in 1..Len(uart) :
               u + 1 < v /\ IsLast(uart[v]) => uart[u + 1].of < uart[v].of
      BY <2>1 DEF IInv, UartInv
    <2>3. IsLast(c) => c.of < uart[u + 1].of
      BY <1>3, <2>1
    <2>4. \A v \in 1..Len(uart') : u < v /\ IsLast(uart'[v]) => uart'[u].of < uart'[v].of
      <3> SUFFICES ASSUME NEW v \in 1..Len(uart'), u < v, IsLast(uart'[v])
                   PROVE  uart'[u].of < uart'[v].of
        OBVIOUS
      <3>1. v + 1 \in 1..Len(uart) /\ uart'[v] = uart[v + 1] /\ u + 1 < v + 1
        BY <1>1
      <3> QED
        BY <2>1, <2>2, <3>1
    <2> QED
      BY <1>5, <2>1, <2>2, <2>3, <2>4
  <1>8. LineInv'
    <2> SUFFICES ASSUME NEW i \in 1..Len(line), IsLast(line[i])
                 PROVE  /\ line[i].of = sent
                        /\ \A k \in Nat : Parsed(k)' => k < sent
                        /\ \A u \in 1..Len(uart') : IsLast(uart'[u]) => uart'[u].of < sent
                        /\ \A j \in 1..Len(line) : IsLast(line[j]) => j = i
      BY <1>0 DEF LineInv
    <2>1. /\ line[i].of = sent
          /\ \A k \in Nat : Parsed(k) => k < sent
          /\ \A u \in 1..Len(uart) : IsLast(uart[u]) => uart[u].of < sent
          /\ \A j \in 1..Len(line) : IsLast(line[j]) => j = i
      BY DEF IInv, LineInv
    <2>2. IsLast(c) => c.of < sent
      BY <1>1, <2>1 DEF c
    <2> QED
      BY <1>1, <1>5, <2>1, <2>2
  <1> QED
    BY <1>6, <1>7, <1>8

\* A step of the main loop, or a frame of this node, collects nothing.
LEMMA LoopInv ==
  ASSUME IInv, PollEnd \/ Send485 PROVE ParserInv' /\ UartInv' /\ LineInv'
  <1> USE LinkAssumption
  <1>0. /\ got \in Nat /\ sent \in Nat /\ parser \in ParserType /\ UNCHANGED <<line, sent>>
    BY DEF IInv, TypeInv, PollEnd, Send485
  <1>1. \/ /\ parser.done /\ got' = parser.rx /\ parser'.done = FALSE /\ ~parser'.start
        \/ UNCHANGED <<parser, got>>
        \/ /\ UNCHANGED got /\ parser'.done = parser.done /\ parser'.rx = parser.rx
           /\ parser'.start = parser.start /\ parser'.data = OwnFrame
    BY <1>0 DEF IInv, ParserInv, PollEnd, Send485, ParserType
  <1>2. ~IsLast(OwnFrame[FrameLength - 1])
    <2>1. /\ FrameLength - 1 \in Index
          /\ FrameLength - 1 # FLENGTH - 1 /\ FrameLength - 1 # FLENGTH
      BY DEF Index, FLENGTH
    <2>2. OwnFrame[FrameLength - 1] \in {Sof, Digit(0, FrameLength - 1)}
      BY <2>1 DEF OwnFrame
    <2> QED
      BY <2>2 DEF IsLast, Sof, Digit
  <1>3. \A k \in Nat : (Collected(k)' => Collected(k)) /\ (Parsed(k)' => Parsed(k))
    BY <1>1, <1>2 DEF Parsed, Collected
  <1>4. ParserInv'
    BY <1>0, <1>1, <1>2 DEF IInv, ParserInv, Collected, ParserType
  <1>5. uart' = uart \/ uart' = <<>>
    BY DEF PollEnd, Send485
  <1>6. UartInv'
    BY <1>0, <1>3, <1>5 DEF IInv, UartInv
  <1>7. LineInv'
    BY <1>0, <1>3, <1>5 DEF IInv, LineInv
  <1> QED
    BY <1>4, <1>6, <1>7

LEMMA NextInv == IInv /\ [Next]_vars => IInv'
  <1> SUFFICES ASSUME IInv, [Next]_vars PROVE ParserInv' /\ UartInv' /\ LineInv'
    BY NextType DEF IInv
  <1>1. CASE RemoteSends
    BY <1>1, RemoteSendsInv
  <1>2. CASE CharArrives
    BY <1>2, CharArrivesInv
  <1>3. CASE LineError
    BY <1>3, LineErrorInv
  <1>4. CASE Getchar
    BY <1>4, GetcharInv
  <1>5. CASE PollEnd \/ Send485
    BY <1>5, LoopInv
  <1>6. CASE Poll \/ Rs485TaskReturns \/ UNCHANGED vars
    <2>1. UNCHANGED <<line, uart, parser, got, sent>>
      BY <1>6 DEF Poll, Rs485TaskReturns, vars
    <2> QED
      BY <2>1, ParsedSame DEF IInv, ParserInv, UartInv, LineInv
  <1> QED
    BY <1>1, <1>2, <1>3, <1>4, <1>5, <1>6 DEF Next

(* What rs485Task gets are whole frames of the remote node, each at most   *)
(* once and in order, whatever is lost or added on the line, however polls *)
(* and the node's own frames fall between.                                 *)
THEOREM Refinement == Spec => ImplementsLossyLine
  <1>1. Init => Line!LineInit
    BY DEF Init, Line!LineInit
  <1>2. IInv /\ [Next]_vars => [Line!LineNext]_(Line!lineVars)
    <2> SUFFICES ASSUME IInv, [Next]_vars, ~UNCHANGED <<sent, got>>
                 PROVE  Line!LineNext
      BY DEF Line!lineVars
    <2>1. CASE RemoteSends
      BY <2>1 DEF RemoteSends, Line!LineNext, Line!Send
    <2>2. CASE PollEnd
      BY <2>2 DEF PollEnd, IInv, ParserInv, Line!LineNext, Line!HandOver
    <2> QED
      BY <2>1, <2>2
      DEF Next, CharArrives, LineError, Poll, Getchar, Rs485TaskReturns, Send485, vars
  <1> QED
    BY InitInv, NextInv, <1>1, <1>2, PTL DEF Spec, ImplementsLossyLine, Line!LineSpec

-----------------------------------------------------------------------------
(* Nothing clean is lost on the way.                                       *)

\* The characters that the parser has still to see.
Ahead == uart \o line

\* Its sof is still to come, whatever the parser makes of what is before it.
Coming ==
  /\ Len(Ahead) >= FLENGTH
  /\ \A i \in 1..FLENGTH : Ahead[Len(Ahead) - FLENGTH + i] = Whole(sent)[i]

\* Since its sof the parser saw nothing but its digits.
Collecting ==
  /\ parser.start /\ ~parser.done /\ parser.count \in 0..FrameLength
  /\ \A i \in 0..(parser.count - 1) : parser.data[i] = Digit(sent, i + 1)
  /\ Len(Ahead) = FrameLength + 1 - parser.count
  /\ \A i \in 1..Len(Ahead) : Ahead[i] = Whole(sent)[parser.count + 1 + i]

\* It is there for the main loop, or was taken.
Through == got = sent \/ (parser.done /\ parser.rx = sent)

CleanInv == sent > 0 /\ ~damaged => Coming \/ Collecting \/ (Ahead = <<>> /\ Through)

CleanThrough ==
  sent > 0 /\ ~damaged /\ line = <<>> /\ uart = <<>> => Through

LEMMA AheadType ==
  ASSUME NEW u \in Seq(Char), NEW l \in Seq(Char)
  PROVE  /\ u \o l \in Seq(Char) /\ Len(u \o l) = Len(u) + Len(l)
         /\ \A i \in 1..Len(u) : (u \o l)[i] = u[i]
         /\ \A i \in 1..Len(l) : (u \o l)[Len(u) + i] = l[i]
  OBVIOUS

\* A character that moves from the line into the FIFO stays in its place.
LEMMA AheadSame ==
  ASSUME NEW u \in Seq(Char), NEW l \in Seq(Char), l # <<>>
  PROVE  Append(u, Head(l)) \o Tail(l) = u \o l
  <1>1. Head(l) \in Char /\ Tail(l) \in Seq(Char) /\ Len(Tail(l)) = Len(l) - 1 /\ Len(l) \in Nat \ {0}
    OBVIOUS
  <1>2. Append(u, Head(l)) \in Seq(Char) /\ Len(Append(u, Head(l))) = Len(u) + 1
    BY <1>1
  <1> DEFINE a == Append(u, Head(l)) \o Tail(l)
             b == u \o l
  <1>3. a \in Seq(Char) /\ b \in Seq(Char) /\ Len(a) = Len(b) /\ Len(b) = Len(u) + Len(l)
    BY <1>1, <1>2, AheadType
  <1>4. ASSUME NEW i \in 1..Len(b) PROVE a[i] = b[i]
    <2>1. CASE i \in 1..Len(u)
      <3>1. a[i] = Append(u, Head(l))[i]
        BY <1>1, <1>2, <2>1, AheadType
      <3> QED
        BY <1>1, <2>1, <3>1, AheadType
    <2>2. CASE i = Len(u) + 1
      <3>1. a[i] = Append(u, Head(l))[i]
        BY <1>1, <1>2, <2>2, AheadType
      <3>2. b[i] = l[1]
        BY <1>1, <2>2, AheadType
      <3> QED
        BY <1>1, <2>2, <3>1, <3>2
    <2>3. CASE i > Len(u) + 1
      <3>1. i - Len(u) - 1 \in 1..Len(Tail(l)) /\ i - Len(u) \in 1..Len(l)
        BY <1>1, <1>3, <2>3
      <3>2. a[Len(u) + 1 + (i - Len(u) - 1)] = Tail(l)[i - Len(u) - 1]
        BY <1>1, <1>2, <3>1, AheadType
      <3>3. b[Len(u) + (i - Len(u))] = l[i - Len(u)]
        BY <3>1, AheadType
      <3>4. Tail(l)[i - Len(u) - 1] = l[i - Len(u)]
        BY <1>1, <3>1
      <3> QED
        BY <1>1, <1>3, <3>2, <3>3, <3>4
    <2> QED
      BY <1>1, <1>3, <2>1, <2>2, <2>3
  <1> QED
    BY <1>3, <1>4

\* A character that is read is the next one ahead.
LEMMA AheadTail ==
  ASSUME NEW u \in Seq(Char), NEW l \in Seq(Char), u # <<>>
  PROVE  /\ Head(u) = (u \o l)[1]
         /\ Len(Tail(u) \o l) = Len(u \o l) - 1
         /\ \A i \in 1..Len(Tail(u) \o l) : (Tail(u) \o l)[i] = (u \o l)[i + 1]
  <1>1. Tail(u) \in Seq(Char) /\ Len(Tail(u)) = Len(u) - 1 /\ Len(u) \in Nat \ {0} /\ Len(l) \in Nat
    OBVIOUS
  <1>2. Len(Tail(u) \o l) = Len(u) - 1 + Len(l) /\ Len(u \o l) = Len(u) + Len(l)
    BY <1>1, AheadType
  <1>3. Head(u) = (u \o l)[1]
    BY <1>1, AheadType
  <1>4. ASSUME NEW i \in 1..(Len(u) - 1 + Len(l)) PROVE (Tail(u) \o l)[i] = (u \o l)[i + 1]
    <2>1. CASE i \in 1..(Len(u) - 1)
      <3>1. (Tail(u) \o l)[i] = Tail(u)[i]
        BY <1>1, <2>1, AheadType
      <3>2. i + 1 \in 1..Len(u) /\ Tail(u)[i] = u[i + 1]
        BY <1>1, <2>1
      <3> QED
        BY <3>1, <3>2, AheadType
    <2>2. CASE i > Len(u) - 1
      <3>1. i - (Len(u) - 1) \in 1..Len(l)
        BY <1>1, <2>2
      <3>2. (Tail(u) \o l)[Len(Tail(u)) + (i - (Len(u) - 1))] = l[i - (Len(u) - 1)]
        BY <1>1, <3>1, AheadType
      <3>3. (u \o l)[Len(u) + (i - (Len(u) - 1))] = l[i - (Len(u) - 1)]
        BY <3>1, AheadType
      <3> QED
        BY <1>1, <3>2, <3>3
    <2> QED
      BY <1>1, <2>1, <2>2
  <1> QED
    BY <1>2, <1>3, <1>4

LEMMA NewFrameComes ==
  ASSUME TypeInv, RemoteSends PROVE Coming'
  <1> USE LinkAssumption
  <1> DEFINE w == Whole(sent')
  <1>1. sent' \in 0..MaxFrames /\ Ahead' = uart \o w /\ uart \in Seq(Char)
    BY DEF TypeInv, RemoteSends, Ahead
  <1>2. w \in Seq(Char) /\ Len(w) = FLENGTH
    BY <1>1, WholeType
  <1> HIDE DEF w
  <1>3. Len(Ahead') = Len(uart) + FLENGTH /\ \A i \in 1..FLENGTH : Ahead'[Len(uart) + i] = w[i]
    BY <1>1, <1>2, AheadType
  <1>4. Len(uart) \in Nat /\ FLENGTH \in Nat
    BY <1>1 DEF FLENGTH
  <1> QED
    BY <1>3, <1>4 DEF Coming, w

\* The parser reads a character of the frame, or one before it.
LEMMA GetcharClean ==
  ASSUME TypeInv, Getchar, sent > 0, Coming \/ Collecting
  PROVE  Coming' \/ Collecting' \/ (Ahead = <<>> /\ Through)'
  <1> USE LinkAssumption
  <1> DEFINE c == Head(uart)
  <1>0. /\ uart \in Seq(Char) /\ line \in Seq(Char) /\ uart # <<>> /\ parser \in ParserType
        /\ sent \in 0..MaxFrames /\ uart' = Tail(uart) /\ UNCHANGED <<line, sent, got>>
        /\ parser' = Parse485Data(parser, c)
    BY DEF TypeInv, Getchar
  <1>1. /\ Ahead \in Seq(Char) /\ Ahead' \in Seq(Char) /\ Len(Ahead) \in Nat \ {0}
        /\ Ahead[1] = c /\ Len(Ahead') = Len(Ahead) - 1
        /\ \A i \in 1..Len(Ahead') : Ahead'[i] = Ahead[i + 1]
    <2>1. Ahead' = Tail(uart) \o line /\ Tail(uart) \in Seq(Char)
      BY <1>0 DEF Ahead
    <2>2. Ahead \in Seq(Char) /\ Ahead' \in Seq(Char) /\ Len(Ahead) = Len(uart) + Len(line)
      BY <1>0, <2>1, AheadType DEF Ahead
    <2>3. Len(uart) \in Nat \ {0} /\ Len(line) \in Nat
      BY <1>0
    <2> QED
      BY <1>0, <2>1, <2>2, <2>3, AheadTail DEF Ahead
  <1>2. /\ Whole(sent)[1] = Sof /\ Whole(sent)[FLENGTH] = Eof
        /\ \A i \in 1..FrameLength : Whole(sent)[i + 1] = Digit(sent, i)
    BY <1>0, WholeType
  <1> HIDE DEF c
  <1>3. CASE Coming /\ Len(Ahead) > FLENGTH
    <2>1. Len(Ahead') >= FLENGTH
      BY <1>1, <1>3 DEF FLENGTH
    <2>2. ASSUME NEW i \in 1..FLENGTH PROVE Ahead'[Len(Ahead') - FLENGTH + i] = Whole(sent')[i]
      <3>1. Len(Ahead') - FLENGTH + i \in 1..Len(Ahead')
        BY <1>1, <2>1 DEF FLENGTH
      <3>2. Ahead'[Len(Ahead') - FLENGTH + i] = Ahead[Len(Ahead) - FLENGTH + i]
        BY <1>1, <3>1 DEF FLENGTH
      <3> QED
        BY <1>0, <1>3, <3>2 DEF Coming
    <2> QED
      BY <2>1, <2>2 DEF Coming
  <1>4. CASE Coming /\ Len(Ahead) = FLENGTH
    <2>1. \A i \in 1..FLENGTH : Ahead[i] = Whole(sent)[i]
      <3> SUFFICES ASSUME NEW i \in 1..FLENGTH PROVE Ahead[i] = Whole(sent)[i]
        OBVIOUS
      <3>1. Len(Ahead) - FLENGTH + i = i
        BY <1>4 DEF FLENGTH
      <3> QED
        BY <1>4, <3>1 DEF Coming
    <2>2. c = Sof
      BY <1>1, <1>2, <2>1 DEF FLENGTH
    <2>3. parser' = ParseSof(parser)
      BY <1>0, <2>2 DEF Parse485Data, Sof
    <2>4. parser'.start /\ ~parser'.done /\ parser'.count = 0
      BY <1>0, <2>3 DEF ParseSof, ParserType
    <2>5. Len(Ahead') = FrameLength + 1 - parser'.count
      BY <1>4, <1>1, <2>4 DEF FLENGTH
    <2>6. \A i \in 1..Len(Ahead') : Ahead'[i] = Whole(sent')[parser'.count + 1 + i]
      <3> SUFFICES ASSUME NEW i \in 1..Len(Ahead') PROVE Ahead'[i] = Whole(sent)[i + 1]
        BY <1>0, <1>1, <2>4
      <3>1. i + 1 \in 1..FLENGTH
        BY <1>1, <1>4 DEF FLENGTH
      <3> QED
        BY <1>1, <2>1, <3>1
    <2> QED
      BY <2>4, <2>5, <2>6 DEF Collecting
  <1>5. CASE Collecting /\ parser.count < FrameLength
    <2> DEFINE k == parser.count
    <2>1. /\ k \in 0..(FrameLength - 1) /\ parser.start /\ ~parser.done
          /\ \A i \in 0..(k - 1) : parser.data[i] = Digit(sent, i + 1)
          /\ Len(Ahead) = FrameLength + 1 - k
          /\ \A i \in 1..Len(Ahead) : Ahead[i] = Whole(sent)[k + 1 + i]
      BY <1>5 DEF Collecting
    <2> HIDE DEF k
    <2>2. c = Digit(sent, k + 1)
      <3>1. 1 \in 1..Len(Ahead) /\ k + 1 \in 1..FrameLength
        BY <2>1
      <3>2. c = Whole(sent)[k + 1 + 1]
        BY <1>1, <2>1, <3>1
      <3> QED
        BY <1>2, <3>1, <3>2
    <2>3. parser' = ParseDigit(parser, c)
      BY <1>0, <2>2 DEF Parse485Data, Digit
    <2>4. parser' = [parser EXCEPT !.data[parser.count] = c, !.count = @ + 1]
      BY <1>5, <1>0, <2>1, <2>3 DEF ParseDigit, k
    <2>5. /\ parser'.start /\ ~parser'.done /\ parser'.count = k + 1
          /\ parser'.data = [parser.data EXCEPT ![k] = c]
      BY <1>0, <2>1, <2>4 DEF ParserType, k
    <2>6. \A i \in 0..(parser'.count - 1) : parser'.data[i] = Digit(sent', i + 1)
      <3> SUFFICES ASSUME NEW i \in 0..k PROVE parser'.data[i] = Digit(sent, i + 1)
        BY <1>0, <2>1, <2>5
      <3>1. i \in Index /\ k \in Index /\ parser.data \in [Index -> Char]
        BY <1>0, <2>1 DEF Index, FLENGTH, ParserType
      <3>2. CASE i = k
        BY <2>2, <2>5, <3>1, <3>2
      <3>3. CASE i \in 0..(k - 1)
        <4>1. i # k
          BY <2>1, <3>3
        <4> QED
          BY <2>1, <2>5, <3>1, <3>3, <4>1
      <3> QED
        BY <2>1, <3>2, <3>3
    <2>7. Len(Ahead') = FrameLength + 1 - parser'.count
      BY <1>1, <2>1, <2>5
    <2>8. \A i \in 1..Len(Ahead') : Ahead'[i] = Whole(sent')[parser'.count + 1 + i]
      <3> SUFFICES ASSUME NEW i \in 1..Len(Ahead') PROVE Ahead'[i] = Whole(sent)[k + 1 + 1 + i]
        BY <1>0, <2>5
      <3>1. i + 1 \in 1..Len(Ahead) /\ k + 1 + (i + 1) = k + 1 + 1 + i
        BY <1>1, <2>1
      <3> QED
        BY <1>1, <2>1, <3>1
    <2>9. parser'.count \in 0..FrameLength
      BY <2>1, <2>5
    <2> QED
      BY <2>5, <2>6, <2>7, <2>8, <2>9 DEF Collecting
  <1>6. CASE Collecting /\ parser.count = FrameLength
    <2>1. /\ parser.start /\ Len(Ahead) = 1
          /\ \A i \in 0..(FrameLength - 1) : parser.data[i] = Digit(sent, i + 1)
          /\ Ahead[1] = Whole(sent)[FrameLength + 1 + 1]
      BY <1>6 DEF Collecting
    <2>2. c = Eof
      BY <1>1, <1>2, <2>1 DEF FLENGTH
    <2>3. parser' = ParseEof(parser)
      BY <1>0, <2>2 DEF Parse485Data, Eof
    <2>4. sent \in Reformed(parser.data)
      BY <1>0, <2>1 DEF Reformed
    <2>5. \A n \in Reformed(parser.data) : n = sent
      <3> SUFFICES ASSUME NEW n \in Reformed(parser.data) PROVE n = sent
        OBVIOUS
      <3>1. 0 \in 0..(FrameLength - 1)
        OBVIOUS
      <3>2. parser.data[0] = Digit(n, 0 + 1) /\ parser.data[0] = Digit(sent, 0 + 1)
        BY <2>1, <3>1 DEF Reformed
      <3> QED
        BY <3>2 DEF Digit
    <2>6. (CHOOSE n \in Reformed(parser.data) : TRUE) = sent
      BY <2>4, <2>5
    <2>7. parser' = [Reset(parser) EXCEPT !.done = TRUE, !.rx = sent]
      BY <1>6, <2>1, <2>3, <2>4, <2>6 DEF ParseEof
    <2>8. parser'.done /\ parser'.rx = sent
      BY <1>0, <2>7 DEF Reset, ParserType
    <2>9. Ahead' = <<>>
      BY <1>1, <2>1
    <2> QED
      BY <1>0, <2>8, <2>9 DEF Through
  <1> QED
    <2>1. Coming => Len(Ahead) > FLENGTH \/ Len(Ahead) = FLENGTH
      BY <1>1 DEF Coming, FLENGTH
    <2>2. Collecting => parser.count < FrameLength \/ parser.count = FrameLength
      BY DEF Collecting
    <2> QED
      BY <1>3, <1>4, <1>5, <1>6, <2>1, <2>2

\* A step that leaves what is ahead alone, and what the parser has of it.
LEMMA CleanSame ==
  ASSUME CleanInv, UNCHANGED <<parser, got, sent>>, ~damaged' => ~damaged /\ Ahead' = Ahead
  PROVE  CleanInv'
  BY DEF CleanInv, Coming, Collecting, Through

LEMMA NextClean == IInv /\ CleanInv /\ [Next]_vars => CleanInv'
  <1> SUFFICES ASSUME IInv, CleanInv, [Next]_vars PROVE CleanInv'
    OBVIOUS
  <1>0. TypeInv
    BY DEF IInv
  <1> USE LinkAssumption
  <1>1. CASE RemoteSends
    BY <1>0, <1>1, NewFrameComes DEF CleanInv
  <1>2. CASE CharArrives
    <2>1. uart \in Seq(Char) /\ line \in Seq(Char) /\ line # <<>> /\ line' = Tail(line)
      BY <1>0, <1>2 DEF TypeInv, CharArrives
    <2>2. damaged' = TRUE \/ (UNCHANGED damaged /\ uart' = Append(uart, Head(line)))
      BY <1>2 DEF CharArrives
    <2>3. ~damaged' => ~damaged /\ Ahead' = Ahead
      BY <2>1, <2>2, AheadSame DEF Ahead
    <2> QED
      BY <1>2, <2>3, CleanSame DEF CharArrives
  <1>3. CASE LineError
    BY <1>3 DEF LineError, CleanInv
  <1>4. CASE Getchar
    <2> SUFFICES ASSUME sent > 0, ~damaged
                 PROVE  Coming' \/ Collecting' \/ (Ahead = <<>> /\ Through)'
      BY <1>4 DEF CleanInv, Getchar
    <2>1. Ahead # <<>>
      <3>1. uart \in Seq(Char) /\ line \in Seq(Char) /\ uart # <<>>
        BY <1>0, <1>4 DEF TypeInv, Getchar
      <3>2. Len(Ahead) = Len(uart) + Len(line) /\ Len(uart) \in Nat \ {0} /\ Len(line) \in Nat
        BY <3>1, AheadType DEF Ahead
      <3> QED
        BY <3>2
    <2> QED
      BY <1>0, <1>4, <2>1, GetcharClean DEF CleanInv
  <1>5. CASE PollEnd
    <2>1. parser \in ParserType /\ UNCHANGED <<line, uart, sent, damaged>>
      BY <1>0, <1>5 DEF TypeInv, PollEnd
    <2>2. CASE UNCHANGED <<parser, got>>
      BY <2>1, <2>2, CleanSame DEF Ahead
    <2>3. CASE parser.done /\ parser' = [parser EXCEPT !.done = FALSE] /\ got' = parser.rx
      <3>1. Coming => Coming'
        BY <2>1 DEF Coming, Ahead
      <3>2. ~Collecting
        BY <2>3 DEF Collecting
      <3>3. ASSUME Ahead = <<>>, Through PROVE (Ahead = <<>> /\ Through)'
        <4>1. parser.rx \in (got + 1)..sent /\ got \in Nat
          BY <2>3 DEF IInv, TypeInv, ParserInv
        <4> QED
          BY <2>1, <2>3, <3>3, <4>1 DEF Ahead, Through
      <3> QED
        BY <2>1, <3>1, <3>2, <3>3 DEF CleanInv
    <2> QED
      BY <1>5, <2>2, <2>3 DEF PollEnd
  <1>6. CASE Send485
    <2> SUFFICES ASSUME sent > 0, ~damaged'
                 PROVE  Coming' \/ Collecting' \/ (Ahead = <<>> /\ Through)'
      BY <1>6 DEF CleanInv, Send485
    <2>1. /\ ~damaged /\ UNCHANGED <<line, uart, sent, got>>
          /\ ~(parser.start /\ parser.count > 0)
          /\ parser' = [parser EXCEPT !.data = OwnFrame]
      BY <1>6 DEF Send485
    <2>2. UNCHANGED <<parser.start, parser.count, parser.done, parser.rx>>
      BY <1>0, <2>1 DEF TypeInv, ParserType
    <2>3. Coming => Coming'
      BY <2>1 DEF Coming, Ahead
    <2>4. ASSUME Collecting PROVE Collecting'
      <3>1. parser.count = 0
        BY <2>1, <2>4 DEF Collecting
      <3> QED
        BY <2>1, <2>2, <2>4, <3>1 DEF Collecting, Ahead
    <2>5. (Ahead = <<>> /\ Through) => (Ahead = <<>> /\ Through)'
      BY <2>1, <2>2 DEF Ahead, Through
    <2> QED
      BY <2>1, <2>3, <2>4, <2>5 DEF CleanInv
  <1>7. CASE Poll \/ Rs485TaskReturns \/ UNCHANGED vars
    <2>1. UNCHANGED <<line, uart, parser, got, sent, damaged>>
      BY <1>7 DEF Poll, Rs485TaskReturns, vars
    <2> QED
      BY <2>1, CleanSame DEF Ahead
  <1> QED
    BY <1>1, <1>2, <1>3, <1>4, <1>5, <1>6, <1>7 DEF Next

(* A frame whose characters all came through is there for the main loop or *)
(* was taken by it, though what came before it was cut, run together or    *)
(* written over by send485: every sof finds the parser ready               *)
(* (rs485.cpp, parse485Data, is485Done).                                   *)
THEOREM CleanGetsThrough == Spec => []CleanThrough
  <1>1. Init => CleanInv
    BY DEF Init, CleanInv
  <1>2. CleanInv => CleanThrough
    <2> SUFFICES ASSUME CleanInv, sent > 0, ~damaged, line = <<>>, uart = <<>>
                 PROVE  Through
      BY DEF CleanThrough
    <2>1. Len(Ahead) = 0
      BY DEF Ahead
    <2>2. ~Coming /\ ~Collecting
      BY <2>1, LinkAssumption DEF Coming, Collecting, FLENGTH
    <2> QED
      BY <2>2 DEF CleanInv
  <1> QED
    BY InitInv, NextInv, NextClean, <1>1, <1>2, PTL DEF Spec
=============================================================================
