---------------------------- MODULE RfRadioProofs ----------------------------
(***************************************************************************)
(* Proofs about RfRadio, for any groups and any number of frames.          *)
(*                                                                         *)
(* The driver polls one event for both directions.  What makes it right is *)
(* the place where the event may be pending: DriverInv says for each place *)
(* of the driver what the radio does there, and FrameInv which frame lies  *)
(* in m_RxFrame when the event or RxEndFlag says that there is one.        *)
(***************************************************************************)
EXTENDS RfRadio, RfChannelProofs

\* What the radio does at each place of the driver.
DriverInv ==
  /\ hw.state = "rx" => ~hw.end
  /\ air.heard => air.on /\ hw.state = "rx" /\ ~quiet
  /\ At("look") /\ quiet => hw.state = "rx"
  /\ At("main") \/ At("look") => drv.receiving /\ (hw.state = "rx" \/ (hw.state = "rxIdle" /\ hw.end))
  /\ At("txDisable") => hw.state \in {"rx", "rxIdle"}
  /\ At("txEnable") => hw.state = "disabled"
  /\ At("txStart") => hw.state = "txIdle" /\ ~hw.end
  /\ At("txWait") => (hw.state = "tx" /\ ~hw.end) \/ (hw.state = "txIdle" /\ hw.end)
  /\ At("rxDisable") => hw.state \in {"txIdle", "rxIdle"} /\ ~hw.end
  /\ At("rxEnable") => hw.state = "disabled" /\ ~hw.end
  /\ At("rxStart") => hw.state = "rxIdle" /\ ~hw.end /\ drv.receiving

NewFrame == rxFrame.first = rxFrame.last /\ rxFrame.last \in (got + 1)..sent

\* Which frame m_RxFrame holds.
FrameInv ==
  /\ got <= sent
  /\ air.heard => rxFrame.first = sent /\ got < sent
  /\ hw.state = "rxIdle" /\ hw.end /\ hw.crcOk => NewFrame
  /\ At("look") => drv.flag
  /\ drv.flag => drv.pc \in {"rxDisable", "rxEnable", "rxStart", "look"}
  /\ drv.flag => NewFrame \/ (At("look") /\ ~quiet)

IInv == TypeOK /\ DriverInv /\ FrameInv

-----------------------------------------------------------------------------
\* No channel that changeGroup gets takes the radio out of its band.
LEMMA TunedInBand ==
  ASSUME NEW c \in Channel PROVE Tuned(c) \in Place
  <1>1. c = Setup \/ \E g \in Nat : c = Normal(g)
    BY RadioAssumption DEF Channel
  <1> QED
    BY <1>1, GroupInBand, SetupInBand

LEMMA BootIsChannel == Normal(Boot) \in Channel /\ Setup \in Channel
  BY RadioAssumption DEF Channel

LEMMA InitType == Init => TypeOK
  <1> SUFFICES ASSUME Init PROVE TypeOK
    OBVIOUS
  <1>1. Tuned(Normal(Boot)) \in Place
    BY TunedInBand, BootIsChannel
  <1> QED
    BY <1>1, BootIsChannel, RadioAssumption DEF Init, TypeOK, Pc

\* The parts of TypeOK that a step of the driver or of the radio changes.
HwType ==
  [state : {"disabled", "rxIdle", "rx", "txIdle", "tx"}, end : BOOLEAN,
   crcOk : BOOLEAN, on : Place]
AirType == [on : BOOLEAN, heard : BOOLEAN]
RxFrameType == [first : 0..MaxFrames, last : 0..MaxFrames]
DrvType == [pc : Pc, receiving : BOOLEAN, flag : BOOLEAN, reg : Place]

LEMMA Parts ==
  TypeOK <=>
    /\ hw \in HwType /\ air \in AirType /\ rxFrame \in RxFrameType
    /\ ch \in Channel /\ drv \in DrvType
    /\ sent \in 0..MaxFrames /\ quiet \in BOOLEAN /\ got \in 0..MaxFrames
    /\ changes \in 0..MaxChanges
  BY DEF TypeOK, HwType, AirType, RxFrameType, DrvType

LEMMA NextType == TypeOK /\ [Next]_vars => TypeOK'
  <1> SUFFICES ASSUME TypeOK, [Next]_vars PROVE TypeOK'
    OBVIOUS
  <1>0. /\ hw \in HwType /\ air \in AirType /\ rxFrame \in RxFrameType
        /\ ch \in Channel /\ drv \in DrvType
        /\ sent \in 0..MaxFrames /\ quiet \in BOOLEAN /\ got \in 0..MaxFrames
        /\ changes \in 0..MaxChanges
    BY Parts
  <1>1. hw' \in HwType
    <2>1. CASE RemoteEnds
      <3>1. CASE UNCHANGED hw
        BY <1>0, <3>1
      <3>2. CASE ~UNCHANGED hw
        <4>1. PICK ok \in BOOLEAN :
                hw' = [hw EXCEPT !.state = "rxIdle", !.end = TRUE, !.crcOk = ok]
          BY <2>1, <3>2 DEF RemoteEnds
        <4> QED
          BY <1>0, <4>1 DEF HwType
      <3> QED
        BY <3>1, <3>2
    <2>2. CASE TransmissionEnds
      BY <1>0, <2>2 DEF TransmissionEnds, HwType
    <2>3. CASE TxDisable \/ RxDisable
      BY <1>0, <2>3 DEF TxDisable, RxDisable, ClearRfMode, HwType
    <2>4. CASE TxEnable \/ RxEnable
      BY <1>0, <2>4 DEF TxEnable, RxEnable, Enable, HwType, DrvType
    <2>5. CASE TxStart \/ RxStart
      BY <1>0, <2>5 DEF TxStart, RxStart, HwType
    <2>6. CASE SendRfWaits \/ IsRxDone
      BY <1>0, <2>6 DEF SendRfWaits, IsRxDone, HwType
    <2>7. CASE RemoteStarts \/ Take \/ SendRf \/ ChangeGroup \/ UNCHANGED vars
      BY <1>0, <2>7 DEF RemoteStarts, Take, SendRf, ChangeGroup, vars
    <2> QED
      BY <2>1, <2>2, <2>3, <2>4, <2>5, <2>6, <2>7 DEF Next
  <1>2. air' \in AirType
    <2>1. CASE RemoteStarts
      BY <1>0, <2>1 DEF RemoteStarts, AirType
    <2>2. CASE RemoteEnds
      BY <1>0, <2>2 DEF RemoteEnds, AirType
    <2>3. CASE TxDisable \/ RxDisable
      BY <1>0, <2>3 DEF TxDisable, RxDisable, ClearRfMode, AirType
    <2>4. CASE UNCHANGED air
      BY <1>0, <2>4
    <2> QED
      BY <2>1, <2>2, <2>3, <2>4
      DEF Next, TransmissionEnds, TxEnable, RxEnable, Enable, TxStart, RxStart, Take,
          SendRf, SendRfWaits, IsRxDone, ChangeGroup, vars
  <1>3. rxFrame' \in RxFrameType /\ sent' \in 0..MaxFrames
    <2>1. CASE RemoteStarts
      BY <1>0, <2>1, RadioAssumption DEF RemoteStarts, RxFrameType
    <2>2. CASE RemoteEnds
      <3>1. UNCHANGED sent
        BY <2>2 DEF RemoteEnds
      <3>2. UNCHANGED rxFrame \/ \E x \in {sent, 0} : rxFrame' = [rxFrame EXCEPT !.last = x]
        BY <2>2 DEF RemoteEnds
      <3> QED
        BY <1>0, <3>1, <3>2, RadioAssumption DEF RxFrameType
    <2>3. CASE UNCHANGED <<rxFrame, sent>>
      BY <1>0, <2>3
    <2> QED
      BY <2>1, <2>2, <2>3
      DEF Next, TransmissionEnds, TxDisable, RxDisable, ClearRfMode, TxEnable, RxEnable,
          Enable, TxStart, RxStart, Take, SendRf, SendRfWaits, IsRxDone, ChangeGroup, vars
  <1>4. ch' \in Channel /\ drv' \in DrvType
    <2>1. CASE TxDisable \/ RxDisable
      BY <1>0, <2>1 DEF TxDisable, RxDisable, ClearRfMode, DrvType, Pc
    <2>2. CASE TxEnable \/ RxEnable
      BY <1>0, <2>2 DEF TxEnable, RxEnable, Enable, DrvType, Pc
    <2>3. CASE TxStart \/ RxStart \/ Take
      BY <1>0, <2>3 DEF TxStart, RxStart, Take, DrvType, Pc
    <2>4. CASE SendRf \/ SendRfWaits
      BY <1>0, <2>4 DEF SendRf, SendRfWaits, DrvType, Pc
    <2>5. CASE IsRxDone
      BY <1>0, <2>5 DEF IsRxDone, ReceiveAction, DrvType, HwType, Pc
    <2>6. CASE ChangeGroup
      <3>1. PICK c \in Channel : SetGroup(c)
        BY <2>6 DEF ChangeGroup
      <3>2. Tuned(c) \in Place
        BY TunedInBand
      <3> QED
        BY <1>0, <3>1, <3>2 DEF SetGroup, DrvType
    <2>7. CASE UNCHANGED <<ch, drv>>
      BY <1>0, <2>7
    <2> QED
      BY <2>1, <2>2, <2>3, <2>4, <2>5, <2>6, <2>7
      DEF Next, RemoteStarts, RemoteEnds, TransmissionEnds, vars
  <1>5. got' \in 0..MaxFrames
    <2>1. CASE Take
      <3>1. UNCHANGED got \/ got' \in {rxFrame.first, 0}
        BY <2>1 DEF Take
      <3> QED
        BY <1>0, <3>1, RadioAssumption DEF RxFrameType
    <2>2. CASE UNCHANGED got
      BY <1>0, <2>2
    <2> QED
      BY <2>1, <2>2
      DEF Next, RemoteStarts, RemoteEnds, TransmissionEnds, TxDisable, RxDisable,
          ClearRfMode, TxEnable, RxEnable, Enable, TxStart, RxStart, SendRf, SendRfWaits,
          IsRxDone, ChangeGroup, vars
  <1>6. changes' \in 0..MaxChanges
    <2>1. CASE ChangeGroup
      BY <1>0, <2>1, RadioAssumption DEF ChangeGroup
    <2>2. CASE UNCHANGED changes
      BY <1>0, <2>2
    <2> QED
      BY <2>1, <2>2
      DEF Next, RemoteStarts, RemoteEnds, TransmissionEnds, TxDisable, RxDisable,
          ClearRfMode, TxEnable, RxEnable, Enable, TxStart, RxStart, Take, SendRf,
          SendRfWaits, IsRxDone, vars
  <1>7. quiet' \in BOOLEAN
    <2>1. CASE RemoteStarts
      BY <1>0, <2>1 DEF RemoteStarts
    <2>2. CASE quiet' \in {quiet, TRUE}
      BY <1>0, <2>2
    <2> QED
      BY <2>1, <2>2
      DEF Next, RemoteEnds, TransmissionEnds, TxDisable, RxDisable, ClearRfMode,
          TxEnable, RxEnable, Enable, TxStart, RxStart, Take, SendRf, SendRfWaits,
          IsRxDone, ChangeGroup, vars
  <1> QED
    BY <1>1, <1>2, <1>3, <1>4, <1>5, <1>6, <1>7
    DEF TypeOK, HwType, AirType, RxFrameType, DrvType

(* The driver never leaves the band, and its state is well typed, for any  *)
(* group addresses (changeGroup, setRadio).                                *)
THEOREM TypeCorrect == Spec => []TypeOK
  BY InitType, NextType, PTL DEF Spec

-----------------------------------------------------------------------------
LEMMA InitInv == Init => IInv
  BY InitType DEF Init, IInv, DriverInv, FrameInv, At

LEMMA NextDriver == IInv /\ [Next]_vars => DriverInv'
  <1> SUFFICES ASSUME IInv, [Next]_vars PROVE DriverInv'
    OBVIOUS
  <1>0. /\ hw \in HwType /\ air \in AirType /\ drv \in DrvType /\ quiet \in BOOLEAN
        /\ DriverInv
    BY Parts DEF IInv
  <1> USE <1>0 DEF HwType, AirType, DrvType, DriverInv, At
  <1>1. CASE RemoteStarts
    BY <1>1 DEF RemoteStarts
  <1>2. CASE RemoteEnds
    <2>1. /\ UNCHANGED <<drv, quiet>>
          /\ air'.on = FALSE /\ air'.heard = FALSE
      BY <1>2 DEF RemoteEnds
    <2>2. CASE ~air.heard
      BY <1>2, <2>1, <2>2 DEF RemoteEnds
    <2>3. CASE air.heard
      <3>1. hw.state = "rx" /\ hw'.state = "rxIdle" /\ hw'.end
        BY <1>2, <2>3 DEF RemoteEnds
      <3> QED
        BY <2>1, <2>3, <3>1
    <2> QED
      BY <2>2, <2>3
  <1>3. CASE TransmissionEnds
    <2>1. /\ UNCHANGED <<air, drv, quiet>> /\ hw.state = "tx"
          /\ hw'.state = "txIdle" /\ hw'.end
      BY <1>3 DEF TransmissionEnds
    <2> QED
      BY <2>1 DEF Pc
  <1>4. CASE TxDisable
    BY <1>4 DEF TxDisable, ClearRfMode
  <1>5. CASE RxDisable
    BY <1>5 DEF RxDisable, ClearRfMode
  <1>6. CASE TxEnable
    BY <1>6 DEF TxEnable, Enable
  <1>7. CASE RxEnable
    BY <1>7 DEF RxEnable, Enable
  <1>8. CASE TxStart
    BY <1>8 DEF TxStart
  <1>9. CASE RxStart
    <2>1. /\ UNCHANGED air /\ At("rxStart")
          /\ hw'.state = "rx" /\ hw'.end = hw.end
          /\ drv'.pc \in {"main", "look"} /\ drv'.receiving = drv.receiving
      BY <1>9 DEF RxStart
    <2>2. ~air.heard
      BY <2>1
    <2> QED
      BY <2>1, <2>2
  <1>10. CASE SendRf
    BY <1>10 DEF SendRf
  <1>11. CASE SendRfWaits
    BY <1>11 DEF SendRfWaits
  <1>12. CASE IsRxDone
    BY <1>12 DEF IsRxDone, ReceiveAction
  <1>13. CASE ChangeGroup
    BY <1>13 DEF ChangeGroup, SetGroup
  <1>14. CASE Take
    BY <1>14 DEF Take
  <1>15. CASE UNCHANGED vars
    BY <1>15 DEF vars
  <1> QED
    BY <1>1, <1>2, <1>3, <1>4, <1>5, <1>6, <1>7, <1>8, <1>9, <1>10, <1>11, <1>12,
       <1>13, <1>14, <1>15 DEF Next

LEMMA NextFrame == IInv /\ [Next]_vars => FrameInv'
  <1> SUFFICES ASSUME IInv, [Next]_vars PROVE FrameInv'
    OBVIOUS
  <1>0. /\ hw \in HwType /\ air \in AirType /\ rxFrame \in RxFrameType /\ drv \in DrvType
        /\ sent \in Nat /\ got \in Nat /\ quiet \in BOOLEAN
        /\ DriverInv /\ FrameInv
    BY Parts, RadioAssumption DEF IInv
  <1> USE <1>0 DEF HwType, AirType, RxFrameType, DrvType, FrameInv, NewFrame, At
  <1>1. CASE RemoteStarts
    <2>1. UNCHANGED <<hw, drv, got>> /\ sent' = sent + 1
      BY <1>1 DEF RemoteStarts
    <2>2. CASE air'.heard
      <3>1. hw.state = "rx" /\ rxFrame' = [rxFrame EXCEPT !.first = sent']
        BY <1>1, <2>2 DEF RemoteStarts
      <3>2. drv.flag => At("look")
        BY <3>1 DEF DriverInv
      <3>3. quiet' = FALSE
        BY <1>1, <2>2 DEF RemoteStarts
      <3> QED
        BY <2>1, <2>2, <3>1, <3>2, <3>3
    <2>3. CASE ~air'.heard
      <3>1. UNCHANGED <<rxFrame, quiet>>
        <4>1. PICK heard \in BOOLEAN :
                /\ air' = [on |-> TRUE, heard |-> heard]
                /\ rxFrame' = IF heard THEN [rxFrame EXCEPT !.first = sent'] ELSE rxFrame
                /\ quiet' = (quiet /\ ~heard)
          BY <1>1 DEF RemoteStarts
        <4>2. air'.heard = heard
          BY <4>1
        <4> QED
          BY <2>3, <4>1, <4>2
      <3>2. NewFrame => NewFrame'
        BY <2>1, <3>1
      <3>3. got' <= sent'
        BY <2>1
      <3> HIDE DEF NewFrame
      <3> QED
        BY <2>1, <2>3, <3>1, <3>2, <3>3
    <2> QED
      BY <2>2, <2>3
  <1>2. CASE RemoteEnds
    <2>1. UNCHANGED <<drv, sent, quiet, got>> /\ air'.heard = FALSE
      BY <1>2 DEF RemoteEnds
    <2>2. CASE ~air.heard
      BY <1>2, <2>1, <2>2 DEF RemoteEnds
    <2>3. CASE air.heard
      <3>1. PICK ok \in BOOLEAN :
              /\ hw' = [hw EXCEPT !.state = "rxIdle", !.end = TRUE, !.crcOk = ok]
              /\ rxFrame' = [rxFrame EXCEPT !.last = IF ok THEN sent ELSE 0]
        BY <1>2, <2>3 DEF RemoteEnds
      <3>2. drv.flag => At("look") /\ ~quiet
        BY <2>3 DEF DriverInv
      <3>3. hw'.crcOk = ok /\ rxFrame'.first = rxFrame.first
        BY <3>1
      <3>4. ok => rxFrame'.last = sent
        BY <3>1
      <3>5. rxFrame.first = sent /\ got < sent
        BY <2>3
      <3>6. ok => NewFrame'
        BY <2>1, <3>3, <3>4, <3>5
      <3>7. hw'.crcOk => NewFrame'
        BY <3>3, <3>6
      <3> HIDE DEF NewFrame
      <3> QED
        BY <2>1, <3>2, <3>5, <3>7
    <2> QED
      BY <2>2, <2>3
  <1>3. CASE TransmissionEnds
    BY <1>3 DEF TransmissionEnds, DriverInv
  <1>4. CASE TxDisable \/ RxDisable
    BY <1>4 DEF TxDisable, RxDisable, ClearRfMode
  <1>5. CASE TxEnable \/ RxEnable
    BY <1>5 DEF TxEnable, RxEnable, Enable, DriverInv
  <1>6. CASE TxStart
    BY <1>6 DEF TxStart, DriverInv
  <1>7. CASE RxStart
    <2>1. /\ UNCHANGED <<air, rxFrame, sent, got>> /\ At("rxStart")
          /\ hw'.state = "rx" /\ drv'.flag = drv.flag
          /\ drv'.pc = IF drv.flag THEN "look" ELSE "main"
      BY <1>7 DEF RxStart
    <2>2. ~air.heard
      BY <2>1 DEF DriverInv
    <2> QED
      BY <2>1, <2>2
  <1>8. CASE SendRf \/ SendRfWaits
    BY <1>8 DEF SendRf, SendRfWaits, DriverInv
  <1>9. CASE IsRxDone
    <2>1. /\ UNCHANGED <<air, rxFrame, sent, got>> /\ At("main") /\ hw.end
          /\ hw'.end = FALSE
          /\ drv'.flag = (drv.flag \/ hw.crcOk) /\ drv'.pc = "rxDisable"
      BY <1>9 DEF IsRxDone, ReceiveAction
    <2>2. hw.state = "rxIdle" /\ ~air.heard /\ ~drv.flag
      BY <2>1 DEF DriverInv
    <2> QED
      BY <2>1, <2>2
  <1>10. CASE ChangeGroup
    BY <1>10 DEF ChangeGroup, SetGroup
  <1>11. CASE Take
    <2>1. /\ UNCHANGED <<hw, air, rxFrame, sent, quiet>> /\ At("look")
          /\ drv'.flag = FALSE /\ drv'.pc = "main"
      BY <1>11 DEF Take
    <2>2. CASE ~quiet
      BY <1>11, <2>1, <2>2 DEF Take
    <2>3. CASE quiet
      <3>1. got' = rxFrame.first /\ NewFrame
        BY <1>11, <2>1, <2>3 DEF Take
      <3>2. ~air.heard /\ ~(hw.state = "rxIdle" /\ hw.end)
        BY <2>1, <2>3 DEF DriverInv
      <3> QED
        BY <2>1, <3>1, <3>2
    <2> QED
      BY <2>2, <2>3
  <1>12. CASE UNCHANGED vars
    BY <1>12 DEF vars
  <1> QED
    BY <1>1, <1>2, <1>3, <1>4, <1>5, <1>6, <1>7, <1>8, <1>9, <1>10, <1>11, <1>12
    DEF Next

LEMMA Invariance == Spec => []IInv
  <1>1. IInv /\ [Next]_vars => IInv'
    BY NextType, NextDriver, NextFrame DEF IInv
  <1> QED
    BY InitInv, <1>1, PTL DEF Spec

(* Whenever the main loop may poll or call the driver, the radio receives  *)
(* or holds a frame with its event: it is never left deaf (isRxDone,       *)
(* receiveAction, sendInternal).                                           *)
THEOREM HearsAlways == Spec => []NeverDeaf
  <1>1. IInv => NeverDeaf
    BY DEF IInv, DriverInv, NeverDeaf
  <1> QED
    BY Invariance, <1>1, PTL

(* Once started, a transmission runs to its end: no event left over from a *)
(* frame received before ends sendInternal's wait.                         *)
THEOREM SendsWhole == Spec => SendIsWhole
  <1>1. IInv /\ [Next]_vars => (hw.state = "tx" => hw'.state \in {"tx", "txIdle"})
    <2> SUFFICES ASSUME IInv, [Next]_vars, hw.state = "tx"
                 PROVE  hw'.state \in {"tx", "txIdle"}
      OBVIOUS
    <2>0. hw \in HwType /\ DriverInv /\ drv.pc \in Pc
      BY Parts DEF IInv, DrvType
    <2>1. At("txWait") /\ ~hw.end /\ ~air.heard
      BY <2>0 DEF DriverInv, At, Pc
    <2>2. CASE TransmissionEnds
      BY <2>0, <2>2 DEF TransmissionEnds, HwType
    <2>3. CASE RemoteStarts \/ RemoteEnds \/ ChangeGroup \/ UNCHANGED vars
      BY <2>1, <2>3 DEF RemoteStarts, RemoteEnds, ChangeGroup, vars
    <2> QED
      BY <2>1, <2>2, <2>3
      DEF Next, TxDisable, RxDisable, ClearRfMode, TxEnable, RxEnable, Enable, TxStart,
          RxStart, Take, SendRf, SendRfWaits, IsRxDone, At
  <1>2. IInv /\ [Next]_vars => [hw.state = "tx" => hw'.state \in {"tx", "txIdle"}]_vars
    BY <1>1
  <1> QED
    BY Invariance, <1>2, PTL DEF Spec, SendIsWhole

\* A good frame on its way from the radio to the main loop.
Held(n) == Waiting(n) \/ (drv.flag /\ NewFrame /\ rxFrame.last = n)

HeldUntilTaken ==
  \A n \in 1..MaxFrames :
    Held(n) => Held(n)' \/ got' = n \/ SendRf \/ (At("look") /\ ~quiet')

(* A good frame that waits for the poll stays as it is until the main loop *)
(* takes it: no poll and no change of the channel disturbs it.  Only a     *)
(* transmission discards it, or a frame that comes in behind the restart   *)
(* and before the loop's first look (isRxDone, receiveAction, setRfMode).  *)
THEOREM WaitsUntilTaken == Spec => [][HeldUntilTaken]_vars
  <1>1. IInv /\ [Next]_vars => HeldUntilTaken
    <2> SUFFICES ASSUME IInv, [Next]_vars, NEW n \in 1..MaxFrames, Held(n),
                        ~SendRf, ~(At("look") /\ ~quiet')
                 PROVE  Held(n)' \/ got' = n
      BY DEF HeldUntilTaken
    <2>0. /\ hw \in HwType /\ air \in AirType /\ rxFrame \in RxFrameType /\ drv \in DrvType
          /\ quiet \in BOOLEAN /\ got \in Nat /\ sent \in Nat
          /\ DriverInv /\ FrameInv
      BY Parts, RadioAssumption DEF IInv
    <2>1. /\ rxFrame.first = n /\ rxFrame.last = n /\ NewFrame
          /\ Waiting(n) => drv.pc = "main" /\ ~drv.flag /\ ~air.heard /\ hw.state # "rx"
          /\ drv.flag => drv.pc \in {"rxDisable", "rxEnable", "rxStart", "look"}
          /\ hw.state # "tx"
      BY <2>0 DEF FrameInv, DriverInv, NewFrame, Held, Waiting, At, HwType
    <2>2. CASE RemoteStarts
      <3>1. UNCHANGED <<hw, drv, got>> /\ sent' = sent + 1
        BY <2>2 DEF RemoteStarts
      <3>2. UNCHANGED rxFrame
        <4>1. PICK heard \in BOOLEAN :
                /\ heard => hw.state = "rx"
                /\ rxFrame' = IF heard THEN [rxFrame EXCEPT !.first = sent'] ELSE rxFrame
                /\ quiet' = (quiet /\ ~heard)
          BY <2>2 DEF RemoteStarts
        <4>2. CASE Waiting(n)
          BY <2>1, <4>1, <4>2
        <4>3. CASE drv.flag
          BY <2>0, <2>1, <4>1, <4>3 DEF DriverInv, At
        <4> QED
          BY <4>2, <4>3 DEF Held
      <3> QED
        BY <2>0, <3>1, <3>2 DEF Held, Waiting, NewFrame, At
    <2>3. CASE RemoteEnds
      <3>1. UNCHANGED <<drv, quiet, sent, got>>
        BY <2>3 DEF RemoteEnds
      <3>2. ~air.heard
        <4>1. Waiting(n) => ~air.heard
          BY <2>1
        <4>2. drv.flag /\ air.heard => At("look") /\ ~quiet
          BY <2>0, <2>1 DEF DriverInv, At
        <4> QED
          BY <3>1, <4>1, <4>2 DEF Held
      <3>3. UNCHANGED <<hw, rxFrame>>
        BY <2>3, <3>2 DEF RemoteEnds
      <3> QED
        BY <3>1, <3>3 DEF Held, Waiting, NewFrame, At
    <2>4. CASE ChangeGroup \/ UNCHANGED vars
      <3>1. /\ UNCHANGED <<hw, rxFrame, sent, got>>
            /\ drv'.flag = drv.flag /\ drv'.pc = drv.pc
        BY <2>0, <2>4 DEF ChangeGroup, SetGroup, vars, DrvType
      <3> QED
        BY <3>1 DEF Held, Waiting, NewFrame, At
    <2>5. CASE IsRxDone
      <3>1. UNCHANGED <<rxFrame, sent, got>> /\ drv'.flag = (drv.flag \/ hw.crcOk)
        BY <2>0, <2>5 DEF IsRxDone, ReceiveAction, DrvType
      <3> QED
        BY <2>1, <3>1 DEF Held, Waiting, NewFrame
    <2>6. CASE RxDisable \/ RxEnable \/ RxStart
      <3>1. UNCHANGED <<rxFrame, sent, got>> /\ drv'.flag = drv.flag /\ drv.pc # "main"
        BY <2>0, <2>6 DEF RxDisable, RxEnable, RxStart, ClearRfMode, Enable, DrvType, At
      <3> QED
        BY <2>1, <3>1 DEF Held, NewFrame
    <2>7. CASE Take
      <3>1. At("look") /\ quiet
        BY <2>0, <2>7 DEF Take
      <3> QED
        BY <2>1, <2>7, <3>1 DEF Take
    <2>8. ~TransmissionEnds /\ ~TxDisable /\ ~TxEnable /\ ~TxStart /\ ~SendRfWaits
      BY <2>1
      DEF TransmissionEnds, TxDisable, TxEnable, TxStart, SendRfWaits, ClearRfMode,
          Enable, Held, Waiting, At
    <2> QED
      BY <2>2, <2>3, <2>4, <2>5, <2>6, <2>7, <2>8 DEF Next
  <1>2. IInv /\ [Next]_vars => [HeldUntilTaken]_vars
    BY <1>1
  <1> QED
    BY Invariance, <1>2, PTL DEF Spec

(* At its undisturbed looks the main loop sees a line that only loses      *)
(* frames: each frame is whole, and newer than the one before, whatever    *)
(* the radio receives and however sendRf, changeGroup and the looks into   *)
(* which another frame came fall between.                                  *)
THEOREM Refinement == Spec => ImplementsLossyLine
  <1>1. Init => Line!LineInit
    BY DEF Init, Line!LineInit
  <1>2. IInv /\ [Next]_vars => [Line!LineNext]_(Line!lineVars)
    <2> SUFFICES ASSUME IInv, [Next]_vars,
                        ~UNCHANGED <<sent, got>>
                 PROVE  Line!LineNext
      BY DEF Line!lineVars
    <2>1. CASE RemoteStarts
      BY <2>1 DEF RemoteStarts, Line!LineNext, Line!Send
    <2>2. CASE Take
      <3>1. /\ At("look") /\ quiet /\ UNCHANGED sent
            /\ got' = IF rxFrame.first = rxFrame.last THEN rxFrame.first ELSE 0
        BY <2>2 DEF Take
      <3> QED
        BY <3>1 DEF IInv, FrameInv, NewFrame, Line!LineNext, Line!HandOver
    <2> QED
      BY <2>1, <2>2
      DEF Next, RemoteEnds, TransmissionEnds, TxDisable, RxDisable, ClearRfMode, TxEnable,
          RxEnable, Enable, TxStart, RxStart, SendRf, SendRfWaits, IsRxDone, ChangeGroup,
          vars
  <1> QED
    BY Invariance, <1>1, <1>2, PTL DEF Spec, ImplementsLossyLine, Line!LineSpec
=============================================================================
