------------------------------ MODULE RcuDecoder ------------------------------
(***************************************************************************)
(* The infrared remote (UttecLib/Rcu.cpp): an interrupt at each falling    *)
(* edge measures the time since the edge before and shifts bits into       *)
(* m_RcuData, and the main loop polls a flag and reads m_RcuData, whether  *)
(* or not the next frame has begun to come in.                             *)
(*                                                                         *)
(* m_RcuData is hi * 2^16 + lo.  Only the remote that belongs to the       *)
(* lamps is in sight; edges may get lost, and light adds edges.            *)
(***************************************************************************)
EXTENDS Integers, Sequences

CONSTANTS
  Keys,      \* codes of the keys that are pressed
  MaxKeys,   \* bounds: keys pressed,
  MaxFaults  \*         edges lost or added

DeRcuHeader == 13430
DeRcu_1 == 2200
DeRcu_0 == 1100
DeRcuRange == 400
DeUttecRcuCode == 41228   \* 0xa10c
BitCount == 32

Byte == 0..(2^8 - 1)
Word16 == 0..(2^16 - 1)

ASSUME RcuAssumption ==
  /\ Keys \subseteq Byte
  /\ MaxKeys \in Nat \ {0} /\ MaxFaults \in Nat

\* Every key of the remote ends in two ones (Rcu.h:17-21).  Of a multiple of 4
\* the first 30 bits of the frame would pass for the code of another key.
ASSUME KeyAssumption == \A k \in Keys : k % 4 # 0

VARIABLES
  air,     \* what the remote still has to send, as times between edges, the
           \* time since the last edge that came through, and whether
           \* nothing was disturbed since the last key was pressed
  rcu,     \* m_Rcu: bStart, bRcuFlag, m_bitCount, m_RcuData
  main,    \* the main loop: polling, or about to read the code
  num,     \* procRcu's uiNum
  keys,    \* history: the keys pressed
  faults,  \* edges lost or added so far
  code     \* history: the code that passed the test last, -1: none

vars == <<air, rcu, main, num, keys, faults, code>>

Init ==
  /\ air = [left |-> <<>>, since |-> 0, ok |-> TRUE]
  /\ rcu = [start |-> FALSE, flag |-> TRUE, count |-> 0, hi |-> 0, lo |-> 0]
  /\ main = "poll"
  /\ num = 0
  /\ keys = <<>>
  /\ faults = 0
  /\ code = -1

-----------------------------------------------------------------------------
(* The interrupt.                                                          *)

Near(t, delta) == delta \in (t - DeRcuRange)..(t + DeRcuRange)

\* The last bit is set or cleared.
WithBit(r, b) == [r EXCEPT !.lo = @ - (@ % 2) + b]

\* Faulty: the bit that leaves the lower half stays in it.
ShiftedOut(r) ==
  [r EXCEPT !.hi = ((2 * @) % 65536) + (r.lo \div 32768), !.lo = 2 * @]

Shifted(r) ==
  [r EXCEPT !.hi = ((2 * @) % 65536) + (r.lo \div 32768), !.lo = (2 * @) % 65536]

Stopped(r) == [r EXCEPT !.start = FALSE, !.count = 0]

\* Faulty: the last bit is shifted too, or the one before it is the last.
TakeBitShifted(r, b) ==
  LET s == WithBit([r EXCEPT !.count = @ - 1], b)
  IN  IF s.count = 0 THEN [Shifted(s) EXCEPT !.flag = TRUE, !.start = FALSE] ELSE Shifted(s)

TakeBitEarly(r, b) ==
  LET s == WithBit([r EXCEPT !.count = @ - 1], b)
  IN  IF s.count = 1 THEN [s EXCEPT !.flag = TRUE, !.start = FALSE] ELSE Shifted(s)

\* A bit: the last one of the frame raises the flag.
TakeBit(r, b) ==
  LET s == WithBit([r EXCEPT !.count = @ - 1], b)
  IN  IF s.count = 0 THEN [s EXCEPT !.flag = TRUE, !.start = FALSE] ELSE Shifted(s)

RcuCallback(r, delta) ==
  CASE Near(DeRcuHeader, delta) ->
         [r EXCEPT !.start = TRUE, !.count = BitCount, !.hi = 0, !.lo = 0]
    [] r.start /\ r.count # 0 /\ Near(DeRcu_1, delta) -> TakeBit(r, 1)
    [] r.start /\ r.count # 0 /\ Near(DeRcu_0, delta) -> TakeBit(r, 0)
    [] OTHER -> Stopped(r)

-----------------------------------------------------------------------------
(* The remote.                                                             *)

\* The frame of a key: vendor, complement and code, most significant first.
Bit(word, i) == (word \div 2^(16 - i)) % 2
FrameTimes(key) ==
  LET low == (255 - key) * 256 + key
      time(b) == IF b = 1 THEN DeRcu_1 ELSE DeRcu_0
  IN  <<DeRcuHeader>> \o
      [i \in 1..BitCount |->
         time(IF i <= 16 THEN Bit(DeUttecRcuCode, i) ELSE Bit(low, i - 16))]

\* The first edge comes long after the last one.
Pause == 50000

Press ==
  /\ air.left = <<>>
  /\ Len(keys) < MaxKeys
  /\ \E k \in Keys :
       /\ keys' = Append(keys, k)
       /\ air' = [left |-> FrameTimes(k), since |-> 0, ok |-> TRUE]
  /\ rcu' = RcuCallback(rcu, Pause)
  /\ UNCHANGED <<main, num, faults, code>>

Edge ==
  /\ air.left # <<>>
  /\ rcu' = RcuCallback(rcu, air.since + Head(air.left))
  /\ air' = [air EXCEPT !.left = Tail(@), !.since = 0]
  /\ UNCHANGED <<main, num, keys, faults, code>>

EdgeLost ==
  /\ air.left # <<>>
  /\ faults < MaxFaults
  /\ faults' = faults + 1
  /\ air' = [left |-> Tail(air.left),
             since |-> IF Len(air.left) = 1 THEN 0 ELSE air.since + Head(air.left),
             ok |-> FALSE]
  /\ UNCHANGED <<rcu, main, num, keys, code>>

\* Light between two edges; it may halve a one into two zeros.
EdgeAdded ==
  /\ faults < MaxFaults
  /\ faults' = faults + 1
  /\ \/ /\ air.left = <<>>
        /\ \E t \in {DeRcu_0, DeRcu_1, DeRcuHeader, Pause} : rcu' = RcuCallback(rcu, t)
        /\ air' = [air EXCEPT !.ok = FALSE]
     \/ /\ air.left # <<>>
        /\ LET half == (air.since + Head(air.left)) \div 2
           IN  /\ rcu' = RcuCallback(rcu, half)
               /\ air' = [left |-> <<half>> \o Tail(air.left), since |-> 0, ok |-> FALSE]
  /\ UNCHANGED <<main, num, keys, code>>

-----------------------------------------------------------------------------
(* The main loop.                                                          *)

\* isRcuReady, clearRcuFlag.
Poll ==
  /\ main = "poll"
  /\ rcu.flag
  /\ rcu' = [rcu EXCEPT !.flag = FALSE]
  /\ main' = "read"
  /\ UNCHANGED <<air, num, keys, faults, code>>

AnyCode(lo) == TRUE   \* faulty: the complement is not compared

IsCode(lo) == lo \div 256 = 255 - (lo % 256)

\* The digits that procRcu knows; rOne starts a test instead.
Digit ==
  [k \in {107, 171, 43, 203, 75, 139, 11, 243, 115} |->
     CASE k = 107 -> 2 [] k = 171 -> 3 [] k = 43 -> 4 [] k = 203 -> 5 [] k = 75 -> 6
       [] k = 139 -> 7 [] k = 11 -> 8 [] k = 243 -> 9 [] k = 115 -> 0]
rMenu == 7

\* procRcu: uiNum has 16 bits, and four digits afterwards.
ProcRcu(n, key) ==
  IF key = rMenu THEN 0
  ELSE IF key \in DOMAIN Digit THEN ((n * 10 + Digit[key]) % 65536) % 10000 ELSE n

(* returnRcuCode has no return statement for a code that is wrong: what    *)
(* procRcu then gets is any byte.                                          *)
Read ==
  /\ main = "read"
  /\ main' = "poll"
  /\ \/ /\ IsCode(rcu.lo)
        /\ code' = rcu.lo % 256
        /\ num' = ProcRcu(num, code')
     \/ /\ ~IsCode(rcu.lo)
        /\ \E k \in {rMenu, 0} \cup DOMAIN Digit : num' = ProcRcu(num, k)
        /\ UNCHANGED code
  /\ UNCHANGED <<air, rcu, keys, faults>>

Next == Press \/ Edge \/ EdgeLost \/ EdgeAdded \/ Poll \/ Read

Spec == Init /\ [][Next]_vars

\* The main loop polls, and a frame that was begun goes on.
FairSpec == Spec /\ WF_vars(Edge) /\ WF_vars(Poll) /\ WF_vars(Read)
-----------------------------------------------------------------------------
LowOf(key) == (255 - key) * 256 + key
FourDigits == 0..(10^4 - 1)

\* Type invariant: the halves of m_RcuData keep their width, uiNum four digits.
TypeOK ==
  /\ air \in [left : Seq(Nat), since : Nat, ok : BOOLEAN]
  /\ rcu \in [start : BOOLEAN, flag : BOOLEAN, count : 0..BitCount,
              hi : Word16, lo : Word16]
  /\ main \in {"poll", "read"}
  /\ num \in FourDigits
  /\ keys \in Seq(Keys) /\ Len(keys) <= MaxKeys
  /\ faults \in 0..MaxFaults
  /\ code \in Byte \cup {-1}

(* Unless edges got lost or came from elsewhere, a code that passes the    *)
(* test of returnRcuCode is that of a key that was pressed, although       *)
(* m_RcuData may be read while the next frame shifts into it: no part of a *)
(* frame with this vendor code looks like a code.                          *)
DecodedIsPressed ==
  faults = 0 /\ code # -1 => \E i \in DOMAIN keys : keys[i] = code

(* When the interrupt reports a frame that came in undisturbed, m_RcuData  *)
(* holds it as a whole, whatever came in before (rcuCallback).             *)
ReportsWholeFrame ==
  [][~rcu.flag /\ rcu'.flag /\ air'.ok /\ faults' = faults =>
       rcu'.hi = DeUttecRcuCode /\ rcu'.lo = LowOf(keys[Len(keys)])]_vars

(* The last key pressed is decoded if its frame is undisturbed: polling    *)
(* clears the flag before it reads, so a frame that completes meanwhile is *)
(* read now or reported again.                                             *)
LastKeyIsDecoded ==
  []<>(Len(keys) = MaxKeys /\ air.ok)
    => <>(Len(keys) = MaxKeys /\ code = keys[MaxKeys])
=============================================================================
