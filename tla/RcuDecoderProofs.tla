---------------------------- MODULE RcuDecoderProofs ----------------------------
(***************************************************************************)
(* Theorems about the infrared remote, for any keys it may have, however   *)
(* often they are pressed and however many edges get lost or come from     *)
(* elsewhere.                                                              *)
(*                                                                         *)
(* The main loop may read m_RcuData while the next frame shifts into it.   *)
(* The invariant therefore says what m_RcuData holds after every bit of a  *)
(* frame that came in undisturbed: the bits so far and a zero after them.  *)
(***************************************************************************)
EXTENDS RcuDecoder, SequenceTheorems, TLAPS

\* The frame of a key as one word, its first j bits, and its bit j.
Word(k) == DeUttecRcuCode * 65536 + LowOf(k)
Prefix(k, j) == Word(k) \div 2^(32 - j)
FrameBit(k, j) == IF j <= 16 THEN Bit(DeUttecRcuCode, j) ELSE Bit(LowOf(k), j - 16)

\* The time before edge m of the frame.
TimeOf(b) == IF b = 1 THEN DeRcu_1 ELSE DeRcu_0
Before(k, m) == IF m = 1 THEN DeRcuHeader ELSE TimeOf(FrameBit(k, m - 1))

Rcu == [start : BOOLEAN, flag : BOOLEAN, count : 0..BitCount,
        hi : Word16, lo : Word16]

\* m_RcuData holds x, shifted once.
Holds(r, x) == r.hi = (2 * x) \div 65536 /\ r.lo = (2 * x) % 65536

\* The frame of k is under way undisturbed: what is still to come, and what
\* m_RcuData holds of it.
Arriving(k) ==
  /\ air.since = 0
  /\ Len(air.left) <= 33
  /\ \A i \in 1..Len(air.left) : air.left[i] = Before(k, 33 - Len(air.left) + i)
  /\ Len(air.left) # 0 /\ Len(air.left) # 33 =>
       rcu.start /\ rcu.count = Len(air.left) /\ Holds(rcu, Prefix(k, 32 - Len(air.left)))
  /\ Len(air.left) = 0 => rcu.hi = DeUttecRcuCode /\ rcu.lo = LowOf(k)

Tracks ==
  /\ keys = <<>> => air.left = <<>>
  /\ keys # <<>> /\ air.ok => Arriving(keys[Len(keys)])

Pressed(c) == \E i \in DOMAIN keys : keys[i] = c

Known ==
  faults = 0 =>
    /\ air.ok
    /\ code # -1 => Pressed(code)
    /\ IsCode(rcu.lo) => Pressed(rcu.lo % 256)

IInv == TypeOK /\ Tracks /\ Known

-----------------------------------------------------------------------------
(* The frame of a key.                                                     *)

\* The bits of a frame, one after the other.  The lower half of what has come
\* in so far is no code but that of the key.
LEMMA FrameBits ==
  ASSUME NEW k \in Byte, NEW j \in Nat, j <= 31
  PROVE  /\ Prefix(k, j) \in Nat /\ (j < 31 => Prefix(k, j) < 1073741824)
         /\ FrameBit(k, j + 1) \in {0, 1}
         /\ Prefix(k, j + 1) = 2 * Prefix(k, j) + FrameBit(k, j + 1)
         /\ k % 4 # 0 /\ IsCode((2 * Prefix(k, j)) % 65536) =>
              ((2 * Prefix(k, j)) % 65536) % 256 = k
<1> USE DEF Byte, Prefix, Word, FrameBit, Bit, LowOf, DeUttecRcuCode, IsCode
<1>1. CASE j = 0  BY <1>1
<1>2. CASE j = 1  BY <1>2
<1>3. CASE j = 2  BY <1>3
<1>4. CASE j = 3  BY <1>4
<1>5. CASE j = 4  BY <1>5
<1>6. CASE j = 5  BY <1>6
<1>7. CASE j = 6  BY <1>7
<1>8. CASE j = 7  BY <1>8
<1>9. CASE j = 8  BY <1>9
<1>10. CASE j = 9  BY <1>10
<1>11. CASE j = 10  BY <1>11
<1>12. CASE j = 11  BY <1>12
<1>13. CASE j = 12  BY <1>13
<1>14. CASE j = 13  BY <1>14
<1>15. CASE j = 14  BY <1>15
<1>16. CASE j = 15  BY <1>16
<1>17. CASE j = 16  BY <1>17
<1>18. CASE j = 17  BY <1>18
<1>19. CASE j = 18  BY <1>19
<1>20. CASE j = 19  BY <1>20
<1>21. CASE j = 20  BY <1>21
<1>22. CASE j = 21  BY <1>22
<1>23. CASE j = 22  BY <1>23
<1>24. CASE j = 23  BY <1>24
<1>25. CASE j = 24  BY <1>25
<1>26. CASE j = 25  BY <1>26
<1>27. CASE j = 26  BY <1>27
<1>28. CASE j = 27  BY <1>28
<1>29. CASE j = 28  BY <1>29
<1>30. CASE j = 29  BY <1>30
<1>31. CASE j = 30  BY <1>31
<1>32. CASE j = 31  BY <1>32
<1> HIDE DEF Byte, Prefix, Word, FrameBit, Bit, LowOf, DeUttecRcuCode, IsCode
<1> QED
  BY <1>1, <1>2, <1>3, <1>4, <1>5, <1>6, <1>7, <1>8, <1>9, <1>10, <1>11,
     <1>12, <1>13, <1>14, <1>15, <1>16, <1>17, <1>18, <1>19, <1>20, <1>21, <1>22,
     <1>23, <1>24, <1>25, <1>26, <1>27, <1>28, <1>29, <1>30, <1>31, <1>32

\* Before the first bit, and with the last one.
LEMMA WholeFrame ==
  ASSUME NEW k \in Byte
  PROVE  /\ Prefix(k, 0) = 0
         /\ Prefix(k, 31) \in Nat /\ FrameBit(k, 32) \in {0, 1}
         /\ Word(k) = 2 * Prefix(k, 31) + FrameBit(k, 32)
         /\ LowOf(k) \in Nat /\ LowOf(k) < 65536 /\ LowOf(k) % 256 = k
<1>1. LowOf(k) \in Nat /\ LowOf(k) < 65536 /\ LowOf(k) % 256 = k
  BY DEF LowOf, Byte
<1>2. Prefix(k, 0) = 0
  BY <1>1 DEF Prefix, Word, DeUttecRcuCode
<1>3. ASSUME NEW j \in Nat, j = 31
      PROVE  /\ Prefix(k, j) \in Nat /\ FrameBit(k, j + 1) \in {0, 1}
             /\ Word(k) = 2 * Prefix(k, j) + FrameBit(k, j + 1)
  BY <1>3 DEF Byte, Prefix, Word, FrameBit, Bit, LowOf, DeUttecRcuCode
<1>4. /\ Prefix(k, 31) \in Nat /\ FrameBit(k, 32) \in {0, 1}
      /\ Word(k) = 2 * Prefix(k, 31) + FrameBit(k, 32)
  BY <1>3, SMT
<1> QED BY <1>1, <1>2, <1>4, SMT

LEMMA TimesOfFrame ==
  ASSUME NEW k \in Byte
  PROVE  /\ FrameTimes(k) \in Seq(Nat) /\ Len(FrameTimes(k)) = 33
         /\ \A m \in 1..33 : FrameTimes(k)[m] = Before(k, m)
<1> DEFINE low == (255 - k) * 256 + k
           time(b) == IF b = 1 THEN DeRcu_1 ELSE DeRcu_0
           bits == [i \in 1..BitCount |->
                      time(IF i <= 16 THEN Bit(DeUttecRcuCode, i) ELSE Bit(low, i - 16))]
           head == <<DeRcuHeader>>
<1>1. bits = [i \in 1..32 |-> TimeOf(FrameBit(k, i))]
  BY DEF BitCount, FrameBit, TimeOf, LowOf
<1>2. \A b : TimeOf(b) \in Nat
  BY DEF TimeOf, DeRcu_1, DeRcu_0
<1>3. bits \in Seq(Nat) /\ Len(bits) = 32 /\ \A i \in 1..32 : bits[i] = TimeOf(FrameBit(k, i))
  <2> HIDE DEF bits
  <2> QED BY <1>1, <1>2
<1>4. head \in Seq(Nat) /\ Len(head) = 1 /\ head[1] = DeRcuHeader
  BY DEF DeRcuHeader
<1>5. FrameTimes(k) = head \o bits
  BY DEF FrameTimes
<1> HIDE DEF head, bits
<1>6. /\ head \o bits \in Seq(Nat) /\ Len(head \o bits) = Len(head) + Len(bits)
      /\ \A m \in 1..(Len(head) + Len(bits)) :
           (head \o bits)[m] = IF m <= Len(head) THEN head[m] ELSE bits[m - Len(head)]
  BY <1>3, <1>4, ConcatProperties, ZenonT(30)
<1>7. Len(head) + Len(bits) = 33
  BY <1>3, <1>4
<1>8. ASSUME NEW m \in 1..33
      PROVE  (head \o bits)[m] = Before(k, m)
  <2>1. (head \o bits)[m] = IF m <= Len(head) THEN head[m] ELSE bits[m - Len(head)]
    BY <1>6, <1>7, Zenon
  <2>2. CASE m = 1
    BY <1>4, <2>1, <2>2 DEF Before
  <2>3. CASE m # 1
    <3>1. m - 1 \in 1..32 /\ ~(m <= Len(head)) /\ m - Len(head) = m - 1
      BY <1>4, <2>3
    <3>2. bits[m - 1] = TimeOf(FrameBit(k, m - 1))
      BY <1>3, <3>1, Zenon
    <3>3. (head \o bits)[m] = bits[m - 1]
      BY <2>1, <3>1, Zenon
    <3>4. Before(k, m) = TimeOf(FrameBit(k, m - 1))
      BY <2>3, Zenon DEF Before
    <3> QED BY <3>2, <3>3, <3>4, Zenon
  <2> QED BY <2>2, <2>3
<1> QED
  BY <1>5, <1>6, <1>7, <1>8, Zenon

-----------------------------------------------------------------------------
(* The interrupt.                                                          *)

LEMMA Word16Is == \A x : x \in Word16 <=> x \in Nat /\ x < 65536
BY SMT DEF Word16

LEMMA TakeBitIs ==
  ASSUME NEW r \in Rcu, r.count # 0, NEW b \in {0, 1}
  PROVE  /\ TakeBit(r, b) \in Rcu /\ TakeBit(r, b).count = r.count - 1
         /\ r.count = 1 => /\ TakeBit(r, b).hi = r.hi
                           /\ TakeBit(r, b).lo = r.lo - (r.lo % 2) + b
                           /\ TakeBit(r, b).flag
         /\ r.count # 1 =>
              /\ TakeBit(r, b).start = r.start /\ TakeBit(r, b).flag = r.flag
              /\ TakeBit(r, b).hi = ((2 * r.hi) % 65536) + ((r.lo - (r.lo % 2) + b) \div 32768)
              /\ TakeBit(r, b).lo = (2 * (r.lo - (r.lo % 2) + b)) % 65536
<1> DEFINE lo == r.lo - (r.lo % 2) + b
           c == [r EXCEPT !.count = @ - 1]
           s == WithBit(c, b)
<1>1. r.count - 1 \in 0..BitCount /\ r.lo \in Word16 /\ r.hi \in Word16
  BY Word16Is, SMT DEF Rcu, BitCount
<1>2. lo \in Word16
  BY <1>1, Word16Is, SMT
<1>3. /\ s \in Rcu /\ s.count = r.count - 1 /\ s.lo = lo /\ s.hi = r.hi
      /\ s.start = r.start /\ s.flag = r.flag
  <2> HIDE DEF lo
  <2>1. /\ c \in Rcu /\ c.count = r.count - 1 /\ c.lo = r.lo /\ c.hi = r.hi
        /\ c.start = r.start /\ c.flag = r.flag
    BY <1>1, SMT DEF Rcu
  <2>2. s = [c EXCEPT !.lo = lo]
    BY <2>1, SMT DEF WithBit, Rcu, lo
  <2> HIDE DEF c, s
  <2> QED BY <1>2, <2>1, <2>2, SMT DEF Rcu
<1>4. TakeBit(r, b) = IF s.count = 0 THEN [s EXCEPT !.flag = TRUE, !.start = FALSE] ELSE Shifted(s)
  BY SMT DEF TakeBit
<1> HIDE DEF s, lo
<1>5. ((2 * s.hi) % 65536) + (s.lo \div 32768) \in Word16 /\ (2 * s.lo) % 65536 \in Word16
  BY <1>1, <1>2, <1>3, Word16Is, SMT
<1>6. CASE r.count = 1
  <2>1. TakeBit(r, b) = [s EXCEPT !.flag = TRUE, !.start = FALSE]
    BY <1>3, <1>4, <1>6, SMT
  <2>2. /\ TakeBit(r, b) \in Rcu /\ TakeBit(r, b).count = s.count /\ TakeBit(r, b).flag
        /\ TakeBit(r, b).hi = s.hi /\ TakeBit(r, b).lo = s.lo
    BY <1>3, <2>1 DEF Rcu
  <2> QED BY <1>3, <1>6, <2>2, SMT DEF lo
<1>7. CASE r.count # 1
  <2>1. TakeBit(r, b) = Shifted(s)
    BY <1>1, <1>3, <1>4, <1>7, SMT DEF Rcu
  <2> DEFINE h == ((2 * s.hi) % 65536) + (s.lo \div 32768)
             l == (2 * s.lo) % 65536
  <2>2. Shifted(s) = [s EXCEPT !.hi = h, !.lo = l]
    BY <1>3, SMT DEF Shifted, Rcu
  <2>3. /\ TakeBit(r, b) \in Rcu /\ TakeBit(r, b).count = s.count
        /\ TakeBit(r, b).start = s.start /\ TakeBit(r, b).flag = s.flag
        /\ TakeBit(r, b).hi = h /\ TakeBit(r, b).lo = l
    <3>1. h \in Word16 /\ l \in Word16
      BY <1>5, SMT
    <3> HIDE DEF h, l
    <3> QED BY <1>3, <2>1, <2>2, <3>1 DEF Rcu
  <2> QED BY <1>3, <1>7, <2>3, SMT DEF lo
<1> QED BY <1>6, <1>7, SMT

LEMMA CallbackType ==
  ASSUME NEW r \in Rcu, NEW delta
  PROVE  RcuCallback(r, delta) \in Rcu
<1>0. 0 \in Word16 /\ 0 \in 0..BitCount /\ BitCount \in 0..BitCount
  BY Word16Is, SMT DEF BitCount
<1>1. [r EXCEPT !.start = TRUE, !.count = BitCount, !.hi = 0, !.lo = 0] \in Rcu
  BY <1>0 DEF Rcu
<1>2. r.count # 0 => TakeBit(r, 1) \in Rcu /\ TakeBit(r, 0) \in Rcu
  BY TakeBitIs, SMT
<1>3. Stopped(r) \in Rcu
  BY <1>0 DEF Stopped, Rcu
<1> QED
  BY <1>1, <1>2, <1>3, SMT DEF RcuCallback

\* What the interrupt makes of the three times of a frame and of the pause.
LEMMA CallbackIs ==
  ASSUME NEW r \in Rcu
  PROVE  /\ RcuCallback(r, DeRcuHeader) =
              [r EXCEPT !.start = TRUE, !.count = BitCount, !.hi = 0, !.lo = 0]
         /\ RcuCallback(r, Pause) = Stopped(r)
         /\ r.start /\ r.count # 0 =>
              \A b \in {0, 1} : RcuCallback(r, TimeOf(b)) = TakeBit(r, b)
<1> USE DEF Near, DeRcuHeader, DeRcu_1, DeRcu_0, DeRcuRange, Pause, TimeOf
<1>1. Near(DeRcuHeader, DeRcuHeader)
  BY SMT
<1>2. ~Near(DeRcuHeader, Pause) /\ ~Near(DeRcu_1, Pause) /\ ~Near(DeRcu_0, Pause)
  BY SMT
<1>3. /\ TimeOf(0) = DeRcu_0 /\ ~Near(DeRcuHeader, DeRcu_0) /\ ~Near(DeRcu_1, DeRcu_0)
      /\ Near(DeRcu_0, DeRcu_0)
  BY SMT
<1>4. /\ TimeOf(1) = DeRcu_1 /\ ~Near(DeRcuHeader, DeRcu_1) /\ Near(DeRcu_1, DeRcu_1)
      /\ ~Near(DeRcu_0, DeRcu_1)
  BY SMT
<1> HIDE DEF Near, DeRcuHeader, DeRcu_1, DeRcu_0, DeRcuRange, Pause, TimeOf
<1>5. ~Near(DeRcu_1, DeRcuHeader) /\ ~Near(DeRcu_0, DeRcuHeader)
  BY SMT DEF Near, DeRcuHeader, DeRcu_1, DeRcu_0, DeRcuRange
<1> QED
  BY <1>1, <1>2, <1>3, <1>4, <1>5, SMT DEF RcuCallback

\* The next bit of a frame, not the last one.
LEMMA BitComesIn ==
  ASSUME NEW r \in Rcu, NEW x \in Nat, x < 1073741824, NEW b \in {0, 1}, Holds(r, x),
         r.count # 0, r.count # 1
  PROVE  Holds(TakeBit(r, b), 2 * x + b)
<1> DEFINE y == 2 * x
<1>1. /\ TakeBit(r, b).hi = ((2 * r.hi) % 65536) + ((r.lo - (r.lo % 2) + b) \div 32768)
      /\ TakeBit(r, b).lo = (2 * (r.lo - (r.lo % 2) + b)) % 65536
  BY TakeBitIs, SMT
<1>2. r.hi = y \div 65536 /\ r.lo = y % 65536 /\ r.lo % 2 = 0 /\ r.lo \in Nat
  BY Word16Is, SMT DEF Holds, Rcu
<1>3. ((2 * r.hi) % 65536) + ((r.lo + b) \div 32768) = (2 * (y + b)) \div 65536
  BY <1>2, SMT
<1>4. (2 * (r.lo + b)) % 65536 = (2 * (y + b)) % 65536
  BY <1>2, SMT
<1>5. r.lo - (r.lo % 2) + b = r.lo + b
  BY <1>2, SMT
<1> QED
  BY <1>1, <1>3, <1>4, <1>5, SMT DEF Holds

\* The last bit completes the frame.
LEMMA LastBitComesIn ==
  ASSUME NEW k \in Byte, NEW r \in Rcu, Holds(r, Prefix(k, 31)), r.count = 1
  PROVE  LET s == TakeBit(r, FrameBit(k, 32)) IN s.hi = DeUttecRcuCode /\ s.lo = LowOf(k)
<1> DEFINE b == FrameBit(k, 32)
           x == Prefix(k, 31)
<1>1. /\ x \in Nat /\ b \in {0, 1} /\ Word(k) = 2 * x + b
      /\ LowOf(k) \in Nat /\ LowOf(k) < 65536
  BY WholeFrame, SMT
<1>2. TakeBit(r, b).hi = r.hi /\ TakeBit(r, b).lo = r.lo - (r.lo % 2) + b
  BY <1>1, TakeBitIs, SMT DEF Rcu, BitCount
<1>3. r.hi = (2 * x) \div 65536 /\ r.lo = (2 * x) % 65536
  BY SMT DEF Holds
<1> HIDE DEF b, x
<1>4. 2 * x + b = DeUttecRcuCode * 65536 + LowOf(k) /\ DeUttecRcuCode = 41228
  BY <1>1, SMT DEF Word, DeUttecRcuCode
<1>5. r.hi = DeUttecRcuCode /\ r.lo - (r.lo % 2) + b = LowOf(k)
  BY <1>1, <1>3, <1>4, SMT
<1> QED
  BY <1>2, <1>5, SMT DEF b

-----------------------------------------------------------------------------
(* Edges and keys.                                                         *)

LEMMA TypeParts ==
  ASSUME TypeOK
  PROVE  /\ air \in [left : Seq(Nat), since : Nat, ok : BOOLEAN]
         /\ rcu \in Rcu /\ keys \in Seq(Keys)
BY DEF TypeOK, Rcu

\* The next edge of an undisturbed frame.
LEMMA EdgeArrives ==
  ASSUME TypeOK, NEW k \in Keys, Arriving(k), Edge
  PROVE  /\ Arriving(k)'
         /\ IsCode(rcu'.lo) => rcu'.lo % 256 = k
         /\ ~rcu.flag /\ rcu'.flag => rcu'.hi = DeUttecRcuCode /\ rcu'.lo = LowOf(k)
<1> DEFINE left == air.left
           n == Len(left)
           t == Before(k, 34 - n)
<1>1. /\ k \in Byte /\ k % 4 # 0
      /\ left \in Seq(Nat) /\ left # <<>> /\ air.since = 0 /\ rcu \in Rcu
  BY TypeParts, RcuAssumption, KeyAssumption DEF Arriving, Edge
<1>2. /\ n \in Nat /\ n # 0 /\ n <= 33 /\ Head(left) = left[1] /\ Len(Tail(left)) = n - 1
      /\ \A i \in 1..(n - 1) : Tail(left)[i] = left[i + 1]
  <2>1. n <= 33
    BY DEF Arriving
  <2>2. n \in Nat /\ n # 0 /\ Head(left) = left[1] /\ Len(Tail(left)) = n - 1
    BY <1>1, EmptySeq, HeadTailProperties, LenProperties
  <2>3. \A i \in 1..Len(Tail(left)) : Tail(left)[i] = left[i + 1]
    BY <1>1, HeadTailProperties
  <2>4. \A i \in 1..(n - 1) : Tail(left)[i] = left[i + 1]
    <3> HIDE DEF n
    <3> QED BY <2>2, <2>3
  <2> QED BY <2>1, <2>2, <2>4
<1>3. /\ air'.left = Tail(left) /\ air'.since = 0
      /\ rcu' = RcuCallback(rcu, air.since + Head(left))
  BY TypeParts DEF Edge
<1>4. \A i \in 1..n : left[i] = Before(k, 33 - n + i)
  BY DEF Arriving
<1>n. n = Len(left)
  OBVIOUS
<1> HIDE DEF n
<1>5. Head(left) = t
  <2>1. 1 \in 1..n /\ 33 - n + 1 = 34 - n
    BY <1>2
  <2> QED BY <1>2, <1>4, <2>1
<1>6. t \in Nat
  BY DEF Before, TimeOf, DeRcuHeader, DeRcu_1, DeRcu_0
<1>7. rcu' = RcuCallback(rcu, t)
  <2>1. air.since + Head(left) = t
    BY <1>1, <1>5, <1>6
  <2> QED BY <1>3, <2>1
<1>8. /\ Len(air'.left) = n - 1
      /\ \A i \in 1..(n - 1) : air'.left[i] = Before(k, 33 - (n - 1) + i)
  <2>1. Len(air'.left) = n - 1
    BY <1>2, <1>3
  <2>2. ASSUME NEW i \in 1..(n - 1)
        PROVE  air'.left[i] = Before(k, 33 - (n - 1) + i)
    <3>1. i + 1 \in 1..n /\ 33 - n + (i + 1) = 33 - (n - 1) + i
      BY <1>2
    <3>2. air'.left[i] = left[i + 1]
      BY <1>2, <1>3
    <3> QED BY <1>4, <3>1, <3>2
  <2> QED BY <2>1, <2>2
<1>9. CASE n = 33
  <2>1. t = DeRcuHeader
    BY <1>9 DEF Before
  <2>2. rcu' = [rcu EXCEPT !.start = TRUE, !.count = BitCount, !.hi = 0, !.lo = 0]
    BY <1>1, <1>7, <2>1, CallbackIs
  <2>3. rcu'.start /\ rcu'.count = 32 /\ rcu'.hi = 0 /\ rcu'.lo = 0 /\ rcu'.flag = rcu.flag
    BY <1>1, <2>2 DEF Rcu, BitCount
  <2>4. n - 1 = 32 /\ 32 - (n - 1) = 0 /\ n - 1 # 0 /\ n - 1 # 33 /\ n - 1 <= 33
    BY <1>9
  <2>5. Holds(rcu', Prefix(k, 32 - Len(air'.left))) /\ rcu'.count = Len(air'.left)
    <3>1. Len(air'.left) = 32 /\ 32 - Len(air'.left) = 0
      BY <1>8, <2>4
    <3>2. Holds(rcu', Prefix(k, 0))
      BY <1>1, <2>3, WholeFrame, SMT DEF Holds
    <3> QED BY <2>3, <3>1, <3>2
  <2>6. Arriving(k)'
    <3>1. air'.since = 0 /\ Len(air'.left) <= 33 /\ Len(air'.left) # 0
      BY <1>3, <1>8, <2>4
    <3>2. \A i \in 1..Len(air'.left) : air'.left[i] = Before(k, 33 - Len(air'.left) + i)
      BY <1>8
    <3> QED BY <2>3, <2>5, <3>1, <3>2 DEF Arriving
  <2>7. ~IsCode(0)
    BY SMT DEF IsCode
  <2> QED BY <2>3, <2>6, <2>7
<1>10. CASE n # 33
  <2> DEFINE j == 32 - n
             b == FrameBit(k, j + 1)
  <2>1. j \in Nat /\ j <= 31 /\ 34 - n # 1 /\ (34 - n) - 1 = j + 1 /\ n # 0 /\ n # 33
    BY <1>2, <1>10
  <2>2. t = TimeOf(b)
    BY <2>1 DEF Before
  <2>3. b \in {0, 1} /\ Prefix(k, j) \in Nat
    BY <1>1, <2>1, FrameBits, SMT
  <2>4. rcu.start /\ rcu.count = n /\ Holds(rcu, Prefix(k, j))
    BY <1>n, <2>1 DEF Arriving
  <2>5. rcu' = TakeBit(rcu, b)
    <3>1. rcu.count # 0
      BY <2>1, <2>4
    <3> HIDE DEF b, t
    <3> QED BY <1>1, <1>7, <2>2, <2>3, <2>4, <3>1, CallbackIs
  <2>6. CASE n # 1
    <3>1. j < 31 /\ rcu.count # 0 /\ rcu.count # 1 /\ j + 1 \in Nat /\ j + 1 <= 31
      BY <1>2, <1>10, <2>4, <2>6
    <3>2. Prefix(k, j) < 1073741824 /\ Prefix(k, j + 1) = 2 * Prefix(k, j) + b
      BY <1>1, <2>1, <3>1, FrameBits, SMT
    <3>3. Holds(rcu', Prefix(k, j + 1))
      <4> HIDE DEF b, j
      <4> QED BY <1>1, <2>3, <2>4, <2>5, <3>1, <3>2, BitComesIn, SMT
    <3>4. rcu'.start /\ rcu'.count = n - 1 /\ rcu'.flag = rcu.flag
      <4> HIDE DEF b, j
      <4> QED BY <1>1, <2>3, <2>4, <2>5, <3>1, TakeBitIs, SMT
    <3>5. 32 - (n - 1) = j + 1 /\ n - 1 # 0 /\ n - 1 # 33 /\ n - 1 <= 33
      BY <1>2, <2>6
    <3>6. Arriving(k)'
      <4> HIDE DEF b, j
      <4> QED BY <1>3, <1>8, <3>3, <3>4, <3>5 DEF Arriving
    <3>7. IsCode(rcu'.lo) => rcu'.lo % 256 = k
      <4>1. rcu'.lo = (2 * Prefix(k, j + 1)) % 65536
        BY <3>3, SMT DEF Holds
      <4>2. IsCode((2 * Prefix(k, j + 1)) % 65536) => ((2 * Prefix(k, j + 1)) % 65536) % 256 = k
        <5> HIDE DEF j
        <5> QED BY <1>1, <3>1, FrameBits, SMT
      <4> QED BY <4>1, <4>2, SMT
    <3> QED BY <3>4, <3>6, <3>7
  <2>7. CASE n = 1
    <3>1. j = 31 /\ j + 1 = 32 /\ b = FrameBit(k, 32) /\ rcu.count = 1
      BY <2>4, <2>7
    <3>2. Holds(rcu, Prefix(k, 31)) /\ rcu' = TakeBit(rcu, FrameBit(k, 32))
      BY <2>4, <2>5, <3>1
    <3>3. rcu'.hi = DeUttecRcuCode /\ rcu'.lo = LowOf(k)
      BY <1>1, <3>1, <3>2, LastBitComesIn
    <3>4. Arriving(k)'
      <4>1. n - 1 = 0 /\ n - 1 <= 33
        BY <2>7
      <4> HIDE DEF j, b
      <4> QED BY <1>3, <1>8, <3>3, <4>1 DEF Arriving
    <3>5. LowOf(k) % 256 = k
      BY <1>1, WholeFrame, SMT
    <3> QED BY <3>3, <3>4, <3>5
  <2> QED BY <2>6, <2>7
<1> QED BY <1>9, <1>10

LEMMA KeyAppended ==
  ASSUME keys \in Seq(Keys), NEW k \in Keys, keys' = Append(keys, k)
  PROVE  /\ keys' \in Seq(Keys) /\ keys' # <<>> /\ Len(keys') = Len(keys) + 1
         /\ keys'[Len(keys')] = k
         /\ \A c : Pressed(c) => Pressed(c)'
<1>1. /\ keys' \in Seq(Keys) /\ Len(keys') = Len(keys) + 1 /\ Len(keys) \in Nat
      /\ \A i \in 1..Len(keys) : keys'[i] = keys[i]
      /\ keys'[Len(keys) + 1] = k
  BY AppendProperties, LenProperties
<1>2. keys' # <<>>
  BY <1>1, EmptySeq
<1>3. DOMAIN keys = 1..Len(keys) /\ DOMAIN keys' = 1..(Len(keys) + 1)
  BY <1>1, LenProperties
<1>4. \A i \in DOMAIN keys : i \in DOMAIN keys' /\ keys'[i] = keys[i]
  BY <1>1, <1>3
<1>5. \A c : Pressed(c) => Pressed(c)'
  BY <1>4 DEF Pressed
<1> QED BY <1>1, <1>2, <1>5

LEMMA LastPressed ==
  ASSUME keys \in Seq(Keys), keys # <<>>
  PROVE  keys[Len(keys)] \in Keys /\ Pressed(keys[Len(keys)])
<1>1. Len(keys) \in DOMAIN keys
  BY EmptySeq, LenProperties
<1>2. keys[Len(keys)] \in Keys
  BY <1>1, ElementOfSeq, LenProperties
<1> QED BY <1>1, <1>2 DEF Pressed

LEMMA PressStep ==
  ASSUME IInv, Press
  PROVE  IInv'
<1>1. PICK k \in Keys : /\ keys' = Append(keys, k)
                        /\ air' = [left |-> FrameTimes(k), since |-> 0, ok |-> TRUE]
  BY DEF Press
<1>2. /\ rcu' = RcuCallback(rcu, Pause) /\ Len(keys) < MaxKeys
      /\ UNCHANGED <<main, num, faults, code>>
  BY DEF Press
<1>3. TypeOK /\ rcu \in Rcu /\ keys \in Seq(Keys) /\ k \in Byte
  BY TypeParts, RcuAssumption DEF IInv
<1>4. /\ keys' \in Seq(Keys) /\ keys' # <<>> /\ Len(keys') = Len(keys) + 1
      /\ keys'[Len(keys')] = k
      /\ \A c : Pressed(c) => Pressed(c)'
  BY <1>1, <1>3, KeyAppended
<1>5. /\ FrameTimes(k) \in Seq(Nat) /\ Len(FrameTimes(k)) = 33
      /\ \A m \in 1..33 : FrameTimes(k)[m] = Before(k, m)
  BY <1>3, TimesOfFrame
<1>6. rcu' \in Rcu /\ rcu'.lo = rcu.lo
  <2>1. rcu' = Stopped(rcu)
    BY <1>2, <1>3, CallbackIs
  <2> QED BY <1>2, <1>3, <2>1, CallbackType DEF Stopped, Rcu
<1>7. TypeOK'
  <2>1. air' \in [left : Seq(Nat), since : Nat, ok : BOOLEAN]
    BY <1>1, <1>5
  <2>2. Len(keys') <= MaxKeys
    BY <1>2, <1>3, <1>4, RcuAssumption, LenProperties
  <2> QED BY <1>2, <1>3, <1>4, <1>6, <2>1, <2>2 DEF TypeOK, Rcu
<1>8. Tracks'
  <2>1. air'.left = FrameTimes(k) /\ air'.since = 0 /\ Len(air'.left) = 33
    BY <1>1, <1>5
  <2>2. \A i \in 1..Len(air'.left) : air'.left[i] = Before(k, 33 - Len(air'.left) + i)
    <3> SUFFICES ASSUME NEW i \in 1..33 PROVE air'.left[i] = Before(k, 33 - 33 + i)
      BY <2>1
    <3>1. 33 - 33 + i = i
      OBVIOUS
    <3> QED BY <1>5, <2>1, <3>1
  <2>3. Arriving(k)'
    BY <2>1, <2>2 DEF Arriving
  <2> QED BY <1>4, <2>3 DEF Tracks
<1>9. Known'
  <2> SUFFICES ASSUME faults' = 0
               PROVE  /\ air'.ok
                      /\ code' # -1 => Pressed(code)'
                      /\ IsCode(rcu'.lo) => Pressed(rcu.lo % 256)'
    BY DEF Known
  <2>1. /\ code # -1 => Pressed(code)
        /\ IsCode(rcu.lo) => Pressed(rcu.lo % 256)
    BY <1>2 DEF IInv, Known
  <2> QED BY <1>1, <1>2, <1>4, <1>6, <2>1
<1> QED BY <1>7, <1>8, <1>9 DEF IInv

\* What an edge, or its loss, makes of what is still to come.
LEMMA EdgeTypes ==
  ASSUME TypeOK, air.left # <<>>
  PROVE  /\ air.left \in Seq(Nat) /\ Tail(air.left) \in Seq(Nat)
         /\ air.since + Head(air.left) \in Nat
         /\ keys = <<>> => ~Tracks
<1>1. air.left \in Seq(Nat) /\ air.since \in Nat
  BY TypeParts
<1>2. Tail(air.left) \in Seq(Nat) /\ Head(air.left) \in Nat
  BY <1>1, HeadTailProperties
<1> QED BY <1>1, <1>2 DEF Tracks

LEMMA EdgeStep ==
  ASSUME IInv, Edge
  PROVE  /\ IInv'
         /\ ~rcu.flag /\ rcu'.flag /\ air'.ok =>
              rcu'.hi = DeUttecRcuCode /\ rcu'.lo = LowOf(keys[Len(keys)])
<1> DEFINE k == keys[Len(keys)]
<1>1. /\ air.left # <<>> /\ rcu' = RcuCallback(rcu, air.since + Head(air.left))
      /\ air' = [air EXCEPT !.left = Tail(air.left), !.since = 0]
      /\ UNCHANGED <<main, num, keys, faults, code>>
  BY DEF Edge
<1>2. TypeOK /\ Tracks /\ Known
  BY DEF IInv
<1>3. keys # <<>> /\ Tail(air.left) \in Seq(Nat)
  BY <1>1, <1>2, EdgeTypes
<1>4. k \in Keys /\ Pressed(k)
  BY <1>2, <1>3, TypeParts, LastPressed
<1>5. /\ air' \in [left : Seq(Nat), since : Nat, ok : BOOLEAN]
      /\ air'.ok = air.ok
  BY <1>1, <1>2, <1>3, TypeParts
<1>6. rcu' \in Rcu
  BY <1>1, <1>2, TypeParts, CallbackType
<1>7. TypeOK'
  BY <1>1, <1>2, <1>5, <1>6 DEF TypeOK, Rcu
<1>8. air.ok => /\ Arriving(k)'
                /\ IsCode(rcu'.lo) => rcu'.lo % 256 = k
                /\ ~rcu.flag /\ rcu'.flag => rcu'.hi = DeUttecRcuCode /\ rcu'.lo = LowOf(k)
  <2> SUFFICES ASSUME air.ok
               PROVE  /\ Arriving(k)'
                      /\ IsCode(rcu'.lo) => rcu'.lo % 256 = k
                      /\ ~rcu.flag /\ rcu'.flag => rcu'.hi = DeUttecRcuCode /\ rcu'.lo = LowOf(k)
    OBVIOUS
  <2>1. Arriving(k)
    BY <1>2, <1>3 DEF Tracks
  <2>2. PICK key \in Keys : key = k
    BY <1>4
  <2>3. /\ Arriving(key)'
        /\ IsCode(rcu'.lo) => rcu'.lo % 256 = key
        /\ ~rcu.flag /\ rcu'.flag => rcu'.hi = DeUttecRcuCode /\ rcu'.lo = LowOf(key)
    BY <1>2, <2>1, <2>2, EdgeArrives
  <2> QED BY <1>1, <2>2, <2>3
<1>9. Tracks'
  BY <1>1, <1>3, <1>5, <1>8 DEF Tracks
<1>10. Known'
  <2> SUFFICES ASSUME faults' = 0
               PROVE  /\ air'.ok
                      /\ code' # -1 => Pressed(code)'
                      /\ IsCode(rcu'.lo) => Pressed(rcu.lo % 256)'
    BY DEF Known
  <2>1. air.ok /\ (code # -1 => Pressed(code))
    BY <1>1, <1>2 DEF Known
  <2>2. \A c : Pressed(c)' <=> Pressed(c)
    BY <1>1 DEF Pressed
  <2> QED BY <1>1, <1>4, <1>5, <1>8, <2>1, <2>2
<1> QED BY <1>5, <1>7, <1>8, <1>9, <1>10 DEF IInv

\* A frame that was disturbed is followed no further.
LEMMA FaultStep ==
  ASSUME IInv, EdgeLost \/ EdgeAdded
  PROVE  IInv'
<1>1. TypeOK /\ Tracks /\ faults \in Nat
  BY RcuAssumption DEF IInv, TypeOK
<1>2. /\ faults' = faults + 1 /\ faults < MaxFaults
      /\ UNCHANGED <<main, num, keys, code>>
  BY DEF EdgeLost, EdgeAdded
<1>3. /\ air' \in [left : Seq(Nat), since : Nat, ok : BOOLEAN] /\ ~air'.ok
      /\ air.left = <<>> => air'.left = <<>>
  <2>1. CASE EdgeLost
    BY <1>1, <2>1, EdgeTypes DEF EdgeLost
  <2>2. CASE air.left = <<>> /\ air' = [air EXCEPT !.ok = FALSE]
    BY <1>1, <2>2, TypeParts
  <2>3. CASE EdgeAdded /\ air.left # <<>>
    <3> DEFINE half == (air.since + Head(air.left)) \div 2
    <3>1. air' = [left |-> <<half>> \o Tail(air.left), since |-> 0, ok |-> FALSE]
      BY <2>3 DEF EdgeAdded
    <3>2. half \in Nat /\ Tail(air.left) \in Seq(Nat)
      BY <1>1, <2>3, EdgeTypes
    <3> HIDE DEF half
    <3>3. <<half>> \o Tail(air.left) \in Seq(Nat)
      BY <3>2, ConcatProperties
    <3> QED BY <2>3, <3>1, <3>3
  <2> QED BY <2>1, <2>2, <2>3 DEF EdgeAdded
<1>4. rcu' \in Rcu
  BY <1>1, TypeParts, CallbackType DEF EdgeLost, EdgeAdded
<1>5. TypeOK'
  BY <1>1, <1>2, <1>3, <1>4, RcuAssumption DEF TypeOK, Rcu
<1>6. Tracks'
  BY <1>1, <1>2, <1>3 DEF Tracks
<1>7. Known'
  BY <1>1, <1>2 DEF Known
<1> QED BY <1>5, <1>6, <1>7 DEF IInv

-----------------------------------------------------------------------------
(* The main loop.                                                          *)

LEMMA NumIs ==
  ASSUME NEW n \in FourDigits, NEW key
  PROVE  ProcRcu(n, key) \in FourDigits
<1>1. \A x : x \in FourDigits <=> x \in Nat /\ x < 10000
  BY SMT DEF FourDigits
<1>2. key \in DOMAIN Digit => Digit[key] \in Nat
  BY DEF Digit
<1>3. \A d \in Nat : ((n * 10 + d) % 65536) % 10000 \in FourDigits
  BY <1>1, SMT
<1> QED
  BY <1>1, <1>2, <1>3, SMT DEF ProcRcu

LEMMA PollStep ==
  ASSUME IInv, Poll \/ Read
  PROVE  IInv' /\ (~rcu.flag => ~rcu'.flag)
<1>1. TypeOK /\ Tracks /\ Known /\ rcu \in Rcu
  BY TypeParts DEF IInv
<1>2. UNCHANGED <<air, keys, faults>>
  BY DEF Poll, Read
<1>3. /\ rcu' \in Rcu /\ rcu'.start = rcu.start /\ rcu'.count = rcu.count
      /\ rcu'.hi = rcu.hi /\ rcu'.lo = rcu.lo /\ (~rcu.flag => ~rcu'.flag)
  BY <1>1 DEF Poll, Read, Rcu
<1>4. /\ num' \in FourDigits /\ main' \in {"poll", "read"}
      /\ code' = code \/ (IsCode(rcu.lo) /\ code' = rcu.lo % 256)
  BY <1>1, NumIs, Zenon DEF Poll, Read, TypeOK
<1>5. code' \in Byte \cup {-1}
  <2>1. rcu.lo \in Word16
    BY <1>1 DEF Rcu
  <2>2. rcu.lo % 256 \in Byte
    BY <2>1, Word16Is, SMT DEF Byte
  <2> QED BY <1>1, <1>4, <2>2 DEF TypeOK
<1>6. TypeOK'
  BY <1>1, <1>2, <1>3, <1>4, <1>5 DEF TypeOK, Rcu
<1>7. ASSUME NEW k, Arriving(k)
      PROVE  Arriving(k)'
  <2>1. air' = air
    BY <1>2
  <2>2. \A x : Holds(rcu, x) => Holds(rcu', x)
    BY <1>3, SMT DEF Holds
  <2>3. Len(air.left) # 0 /\ Len(air.left) # 33 =>
          rcu'.start /\ rcu'.count = Len(air.left) /\ Holds(rcu', Prefix(k, 32 - Len(air.left)))
    <3> SUFFICES ASSUME Len(air.left) # 0, Len(air.left) # 33
                 PROVE  rcu'.start /\ rcu'.count = Len(air.left)
                        /\ Holds(rcu', Prefix(k, 32 - Len(air.left)))
      OBVIOUS
    <3>1. rcu.start /\ rcu.count = Len(air.left) /\ Holds(rcu, Prefix(k, 32 - Len(air.left)))
      BY <1>7 DEF Arriving
    <3>2. rcu'.start
      BY <1>3, <3>1, Zenon
    <3> QED BY <1>3, <2>2, <3>1, <3>2
  <2>4. Len(air.left) = 0 => rcu'.hi = DeUttecRcuCode /\ rcu'.lo = LowOf(k)
    BY <1>3, <1>7 DEF Arriving
  <2> QED BY <1>7, <2>1, <2>3, <2>4 DEF Arriving
<1>8. Tracks'
  BY <1>1, <1>2, <1>7 DEF Tracks
<1>9. Known'
  BY <1>1, <1>2, <1>3, <1>4 DEF Known, Pressed
<1> QED BY <1>3, <1>6, <1>8, <1>9 DEF IInv

-----------------------------------------------------------------------------
LEMMA InitHolds == Init => IInv
<1> SUFFICES ASSUME Init PROVE IInv
  OBVIOUS
<1>1. /\ <<>> \in Seq(Nat) /\ <<>> \in Seq(Keys) /\ Len(<<>>) = 0
      /\ 0 \in 0..BitCount /\ 0 \in 0..MaxFaults /\ 0 <= MaxKeys
  BY EmptySeq, RcuAssumption DEF BitCount
<1>2. 0 \in Word16 /\ 0 \in FourDigits
  BY SMT DEF Word16, FourDigits
<1>3. TypeOK
  BY <1>1, <1>2 DEF Init, TypeOK
<1>4. ~IsCode(0)
  BY SMT DEF IsCode
<1>5. Tracks /\ Known
  BY <1>4 DEF Init, Tracks, Known
<1> QED BY <1>3, <1>5 DEF IInv

LEMMA StepHolds ==
  ASSUME IInv, [Next]_vars
  PROVE  /\ IInv'
         /\ ~rcu.flag /\ rcu'.flag /\ air'.ok /\ faults' = faults =>
              rcu'.hi = DeUttecRcuCode /\ rcu'.lo = LowOf(keys[Len(keys)])
<1>1. CASE Press
  <2>1. rcu'.flag = rcu.flag
    <3>1. rcu \in Rcu
      BY TypeParts DEF IInv
    <3> QED BY <1>1, <3>1, CallbackIs DEF Press, Stopped, Rcu
  <2> QED BY <1>1, <2>1, PressStep
<1>2. CASE Edge
  BY <1>2, EdgeStep
<1>3. CASE EdgeLost \/ EdgeAdded
  <2>1. faults' # faults
    BY <1>3, RcuAssumption DEF IInv, TypeOK, EdgeLost, EdgeAdded
  <2> QED BY <1>3, <2>1, FaultStep
<1>4. CASE Poll \/ Read
  BY <1>4, PollStep
<1>5. CASE UNCHANGED vars
  BY <1>5 DEF vars, IInv, TypeOK, Tracks, Known, Arriving, Holds, Pressed
<1> QED BY <1>1, <1>2, <1>3, <1>4, <1>5 DEF Next

LEMMA Invariance == Spec => []IInv
<1>1. IInv /\ [Next]_vars => IInv'
  BY StepHolds
<1> QED
  BY InitHolds, <1>1, PTL DEF Spec

(* The halves of m_RcuData keep their width and uiNum its four digits,     *)
(* whatever edges come in (rcuCallback, procRcu).                          *)
THEOREM TypeCorrect == Spec => []TypeOK
<1>1. IInv => TypeOK
  BY DEF IInv
<1> QED
  BY Invariance, <1>1, PTL

(* Unless edges got lost or came from elsewhere, what returnRcuCode takes  *)
(* for a code is that of a key that was pressed, although the interrupt    *)
(* shifts into m_RcuData meanwhile.                                        *)
THEOREM OnlyPressedKeys == Spec => []DecodedIsPressed
<1>1. IInv => DecodedIsPressed
  BY DEF IInv, Known, Pressed, DecodedIsPressed
<1> QED
  BY Invariance, <1>1, PTL

(* A frame that came in undisturbed is reported as a whole, also after     *)
(* frames that lost edges or took others (rcuCallback).                    *)
THEOREM WholeFrameReported == Spec => ReportsWholeFrame
<1>1. IInv /\ [Next]_vars =>
        [~rcu.flag /\ rcu'.flag /\ air'.ok /\ faults' = faults =>
           rcu'.hi = DeUttecRcuCode /\ rcu'.lo = LowOf(keys[Len(keys)])]_vars
  BY StepHolds
<1> QED
  BY Invariance, <1>1, PTL DEF Spec, ReportsWholeFrame
=============================================================================
