------------------------------ MODULE Rs485Link ------------------------------
(***************************************************************************)
(* The RS485 line of a node (UttecLib/rs485.cpp): characters that come     *)
(* from a remote node wait in the small FIFO of the UART, the main loop    *)
(* polls and parses them, and the same buffer m485Data that collects a     *)
(* frame is where send485 composes the node's own frames.                  *)
(*                                                                         *)
(* A frame is sof, FrameLength digits and eof.  A digit is known by the    *)
(* frame it belongs to and its place there; the CRC is taken to tell a     *)
(* whole frame from every mixture.  Frames are numbered, so no two of them *)
(* are alike.                                                              *)
(***************************************************************************)
EXTENDS Integers, Sequences

CONSTANTS
  FrameLength,  \* De485FrameLength
  FifoSize,     \* characters that the UART holds
  MaxFrames,    \* bounds: frames of the remote node,
  MaxErrors,    \*         characters lost or added on the line,
  MaxSends      \*         frames that this node sends

ASSUME LinkAssumption ==
  /\ FrameLength \in Nat \ {0} /\ FifoSize \in Nat \ {0}
  /\ MaxFrames \in Nat /\ MaxErrors \in Nat /\ MaxSends \in Nat

VARIABLES
  line,     \* characters of the remote node still to come
  uart,     \* the FIFO of the UART
  parser,   \* m_status, m485Data, m_485Done and m_485Rx
  mode,     \* where the main loop is
  got,      \* the frame that rs485Task took last
  sent,     \* frames of the remote node so far: the latest may be on its way
  damaged,  \* history: the latest frame lost a character, or met a foreign one
  errors,   \* line errors so far
  sends     \* frames of this node so far

vars == <<line, uart, parser, mode, got, sent, damaged, errors, sends>>

Char == [kind : {"sof", "eof", "digit"}, of : 0..MaxFrames, at : 0..FrameLength]

Sof == [kind |-> "sof", of |-> 0, at |-> 0]
Eof == [kind |-> "eof", of |-> 0, at |-> 0]
Digit(n, i) == [kind |-> "digit", of |-> n, at |-> i]
Noise == Digit(0, 0)

Whole(n) == <<Sof>> \o [i \in 1..FrameLength |-> Digit(n, i)] \o <<Eof>>

\* m485Data has FLENGTH bytes; the index FLENGTH is what lies behind it.
FLENGTH == FrameLength + 2
Index == 0..FLENGTH

\* send485: '{', the node's own digits (of no remote frame), '}'.
OwnFrame ==
  [i \in Index |->
     CASE i = 0 -> Sof
       [] i = FLENGTH - 1 -> Eof
       [] i = FLENGTH -> Noise
       [] OTHER -> Digit(0, i)]

Init ==
  /\ line = <<>>
  /\ uart = <<>>
  /\ parser = [start |-> FALSE, count |-> 0, data |-> [i \in Index |-> Noise],
               done |-> FALSE, rx |-> 0]
  /\ mode = "loop"
  /\ got = 0
  /\ sent = 0
  /\ damaged = FALSE
  /\ errors = 0
  /\ sends = 0

-----------------------------------------------------------------------------
(* parse485Data.                                                           *)

\* Faulty: the checksum is not compared; the last digit names the frame.
ReformedUnchecked(data) == {data[FrameLength - 1].of}

\* reform485toRx: the frames (at most one) that the collected digits are.
Reformed(data) ==
  {n \in 1..MaxFrames : \A i \in 0..(FrameLength - 1) : data[i] = Digit(n, i + 1)}

Reset(p) == [p EXCEPT !.start = FALSE, !.count = 0, !.done = FALSE]

\* Faulty: with the test of parseTestData a sof counts only between frames.
ParseSofOnce(p) ==
  IF p.start THEN p ELSE [p EXCEPT !.start = TRUE, !.count = 0, !.done = FALSE]

ParseSof(p) == [p EXCEPT !.start = TRUE, !.count = 0, !.done = FALSE]

ParseEof(p) ==
  IF p.start /\ p.count = FrameLength /\ Reformed(p.data) # {}
  THEN [Reset(p) EXCEPT !.done = TRUE, !.rx = CHOOSE n \in Reformed(p.data) : TRUE]
  ELSE Reset(p)

\* Faulty: the limit is the length of the buffer, as in parseTestData.
ParseDigitTest(p, c) ==
  IF p.count > FLENGTH THEN Reset(p)
  ELSE [p EXCEPT !.data[p.count] = c, !.count = @ + 1]

\* Faulty: no limit at all.
ParseDigitFree(p, c) == [p EXCEPT !.data[p.count] = c, !.count = @ + 1]

\* Digits are stored whether or not a sof came before.
ParseDigit(p, c) ==
  IF p.count > FrameLength THEN Reset(p)
  ELSE [p EXCEPT !.data[p.count] = c, !.count = @ + 1]

Parse485Data(p, c) ==
  CASE c.kind = "sof" -> ParseSof(p)
    [] c.kind = "eof" -> ParseEof(p)
    [] OTHER -> ParseDigit(p, c)

-----------------------------------------------------------------------------
(* The line and the UART.                                                  *)

RemoteSends ==
  /\ line = <<>>
  /\ sent < MaxFrames
  /\ sent' = sent + 1
  /\ line' = Whole(sent')
  /\ damaged' = FALSE
  /\ UNCHANGED <<uart, parser, mode, got, errors, sends>>

\* A character that finds the FIFO full is lost.
CharArrives ==
  /\ line # <<>>
  /\ line' = Tail(line)
  /\ \/ /\ Len(uart) < FifoSize
        /\ uart' = Append(uart, Head(line))
        /\ UNCHANGED damaged
     \/ /\ Len(uart) = FifoSize
        /\ damaged' = TRUE
        /\ UNCHANGED uart
  /\ UNCHANGED <<parser, mode, got, sent, errors, sends>>

\* A disturbed line swallows a character, or makes one up.
LineError ==
  /\ errors < MaxErrors
  /\ errors' = errors + 1
  /\ damaged' = TRUE
  /\ \/ line # <<>> /\ line' = Tail(line)
     \/ \E c \in {Sof, Eof, Noise} : line' = <<c>> \o line
  /\ UNCHANGED <<uart, parser, mode, got, sent, sends>>

-----------------------------------------------------------------------------
(* The main loop.                                                          *)

\* is485Done reads as long as there is something to read ...
Poll ==
  /\ mode = "loop"
  /\ mode' = "poll"
  /\ UNCHANGED <<line, uart, parser, got, sent, damaged, errors, sends>>

Getchar ==
  /\ mode = "poll"
  /\ uart # <<>>
  /\ parser' = Parse485Data(parser, Head(uart))
  /\ uart' = Tail(uart)
  /\ UNCHANGED <<line, mode, got, sent, damaged, errors, sends>>

\* ... and the loop takes the frame, if the last one read is still done.
PollEnd ==
  /\ mode = "poll"
  /\ uart = <<>>
  /\ \/ /\ parser.done
        /\ parser' = [parser EXCEPT !.done = FALSE]
        /\ got' = parser.rx
        /\ mode' = "task"
     \/ /\ ~parser.done
        /\ mode' = "loop"
        /\ UNCHANGED <<parser, got>>
  /\ UNCHANGED <<line, uart, sent, damaged, errors, sends>>

Rs485TaskReturns ==
  /\ mode = "task"
  /\ mode' = "loop"
  /\ UNCHANGED <<line, uart, parser, got, sent, damaged, errors, sends>>

(* A handler sends: its frame is composed over whatever m485Data holds.    *)
(* The Serial object is made anew, which may empty the FIFO; characters    *)
(* that come while it sends find nobody who reads them.                    *)
Send485 ==
  /\ mode \in {"loop", "task"}
  /\ sends < MaxSends
  /\ sends' = sends + 1
  /\ parser' = [parser EXCEPT !.data = OwnFrame]
  /\ uart' \in {uart, <<>>}
  /\ damaged' = (damaged \/ uart' # uart \/ (parser.start /\ parser.count > 0))
  /\ UNCHANGED <<line, mode, got, sent, errors>>

Next ==
  \/ RemoteSends \/ CharArrives \/ LineError
  \/ Poll \/ Getchar \/ PollEnd \/ Rs485TaskReturns \/ Send485

Spec == Init /\ [][Next]_vars

\* Characters on the line arrive, and the main loop goes on.
Fairness ==
  /\ WF_vars(CharArrives)
  /\ WF_vars(Poll) /\ WF_vars(Getchar) /\ WF_vars(PollEnd)
  /\ WF_vars(Rs485TaskReturns)

FairSpec == Spec /\ Fairness

-----------------------------------------------------------------------------
(* Type invariant: the index of parse485Data stays within one character    *)
(* behind the digits.                                                      *)
TypeOK ==
  /\ line \in Seq(Char) /\ Len(line) <= FLENGTH + MaxErrors
  /\ uart \in Seq(Char) /\ Len(uart) <= FifoSize
  /\ parser \in [start : BOOLEAN, count : 0..(FrameLength + 1),
                 data : [Index -> Char], done : BOOLEAN, rx : 0..MaxFrames]
  /\ mode \in {"loop", "poll", "task"}
  /\ got \in 0..MaxFrames
  /\ sent \in 0..MaxFrames
  /\ damaged \in BOOLEAN
  /\ errors \in 0..MaxErrors
  /\ sends \in 0..MaxSends

(* Neither the parser nor send485 writes behind m485Data, whatever comes   *)
(* on the line (rs485.cpp:176-184, 264-292).                               *)
BufferInBounds == parser.data[FLENGTH] = Noise

(* A frame whose characters all come through is taken by rs485Task, though *)
(* the frames before it were cut, run together or written over: every sof  *)
(* finds the parser ready.  Only the next frame may take its place, when   *)
(* its sof comes within the same poll (m_485Done is cleared).              *)
CleanFrameIsTaken ==
  \A n \in 1..MaxFrames :
    (sent = n /\ ~damaged) ~> (got = n \/ sent > n \/ damaged)

(* What the main loop sees of the line: frames of the remote node, whole,  *)
(* each at most once and in order; never a mixture of two frames, or of    *)
(* one and the node's own (reform485toRx).                                 *)
Line == INSTANCE LossyLine
ImplementsLossyLine == Line!LineSpec
=============================================================================
