------------------------------- MODULE RfRadio -------------------------------
(***************************************************************************)
(* The radio driver of a node (UttecLib/Rf.cpp) against the radio of the   *)
(* chip.  The driver has no interrupt: it polls EVENTS_END, and after each *)
(* frame, received or sent, it takes the radio down (DISABLE) and up again *)
(* (RXEN or TXEN, READY, START).  The radio follows a new FREQUENCY only   *)
(* when it goes up, and it receives into m_RxFrame as the frame comes in.  *)
(*                                                                         *)
(* A frame of a remote node is its number; m_RxFrame is the number that    *)
(* its first and its last bytes belong to.  START comes before the main    *)
(* loop's first look at the frame: the LED and a print lie between, longer *)
(* than a frame, and the next frame may come into the same m_RxFrame.      *)
(***************************************************************************)
EXTENDS RfChannel

CONSTANTS
  Group,       \* the groups whose channels are used, beside that for setup
  Boot,        \* Channel.channel in the settings, one of them
  MaxFrames,   \* bounds: frames of the remote nodes,
  MaxChanges   \*         calls of changeGroup

ASSUME RadioAssumption ==
  /\ Group \subseteq Nat /\ Boot \in Group
  /\ MaxFrames \in Nat /\ MaxChanges \in Nat

VARIABLES
  hw,       \* the radio: what it does, its events, and where it listens
  air,      \* the remote frame on the air, and whether this radio takes it in
  rxFrame,  \* Rf::m_RxFrame
  ch,       \* Rf::m_Ch
  drv,      \* where the driver is, m_RfRxTx, RxEndFlag and the
            \* registers FREQUENCY and BASE0
  sent,     \* remote frames so far
  quiet,    \* history: no frame began to come in since the last START
  got,      \* history: the frame at the main loop's last quiet look, or 0
  changes   \* calls of changeGroup so far

vars == <<hw, air, rxFrame, ch, drv, sent, quiet, got, changes>>

Channel == {Normal(g) : g \in Group} \cup {Setup}

Pc ==
  {"main", "txDisable", "txEnable", "txStart", "txWait",
   "rxDisable", "rxEnable", "rxStart", "look"}

Init ==
  /\ hw = [state |-> "rx", end |-> FALSE, crcOk |-> FALSE, on |-> Tuned(Normal(Boot))]
  /\ air = [on |-> FALSE, heard |-> FALSE]
  /\ rxFrame = [first |-> 0, last |-> 0]
  /\ ch = Normal(Boot)
  /\ drv = [pc |-> "main", receiving |-> TRUE, flag |-> FALSE,
            reg |-> Tuned(Normal(Boot))]
  /\ sent = 0
  /\ quiet = TRUE
  /\ got = 0
  /\ changes = 0

-----------------------------------------------------------------------------
(* The air and the radio.                                                  *)

RemoteStarts ==
  /\ ~air.on
  /\ sent < MaxFrames
  /\ sent' = sent + 1
  /\ \E c \in Channel :
       LET heard == hw.state = "rx" /\ hw.on = Tuned(c)
       IN  /\ air' = [on |-> TRUE, heard |-> heard]
           /\ rxFrame' = IF heard THEN [rxFrame EXCEPT !.first = sent'] ELSE rxFrame
           /\ quiet' = (quiet /\ ~heard)
  /\ UNCHANGED <<hw, ch, drv, got, changes>>

\* Disturbed bytes fail the radio's CRC; they are in m_RxFrame all the same.
RemoteEnds ==
  /\ air.on
  /\ air' = [air EXCEPT !.on = FALSE, !.heard = FALSE]
  /\ \/ /\ air.heard
        /\ \E ok \in BOOLEAN :
             /\ hw' = [hw EXCEPT !.state = "rxIdle", !.end = TRUE, !.crcOk = ok]
             /\ rxFrame' = [rxFrame EXCEPT !.last = IF ok THEN sent ELSE 0]
     \/ /\ ~air.heard
        /\ UNCHANGED <<hw, rxFrame>>
  /\ UNCHANGED <<ch, drv, sent, quiet, got, changes>>

TransmissionEnds ==
  /\ hw.state = "tx"
  /\ hw' = [hw EXCEPT !.state = "txIdle", !.end = TRUE]
  /\ UNCHANGED <<air, rxFrame, ch, drv, sent, quiet, got, changes>>

-----------------------------------------------------------------------------
(* clearRfMode and setRfMode.                                              *)

At(pc) == drv.pc = pc

\* DISABLE: a frame that is coming in is cut off.
ClearRfMode(from, to) ==
  /\ At(from)
  /\ hw' = [hw EXCEPT !.state = "disabled"]
  /\ air' = [air EXCEPT !.heard = FALSE]
  /\ drv' = [drv EXCEPT !.pc = to, !.receiving = TRUE]
  /\ UNCHANGED <<rxFrame, ch, sent, quiet, got, changes>>

\* Faulty: an event of the other direction is left in EVENTS_END.
EnableKeepEnd(from, to, receiving) ==
  /\ At(from)
  /\ hw' = [hw EXCEPT !.state = IF receiving THEN "rxIdle" ELSE "txIdle",
                      !.on = drv.reg]
  /\ drv' = [drv EXCEPT !.pc = to, !.receiving = receiving]
  /\ UNCHANGED <<air, rxFrame, ch, sent, quiet, got, changes>>

\* Faulty: m_RfRxTx is not set back to eRxMode.
EnableTxMode(from, to, receiving) ==
  /\ At(from)
  /\ hw' = [hw EXCEPT !.state = IF receiving THEN "rxIdle" ELSE "txIdle",
                      !.on = drv.reg, !.end = FALSE]
  /\ drv' = [drv EXCEPT !.pc = to, !.receiving = FALSE]
  /\ UNCHANGED <<air, rxFrame, ch, sent, quiet, got, changes>>

\* RXEN or TXEN, wait for READY, clear EVENTS_END.
Enable(from, to, receiving) ==
  /\ At(from)
  /\ hw' = [hw EXCEPT !.state = IF receiving THEN "rxIdle" ELSE "txIdle",
                      !.on = drv.reg, !.end = FALSE]
  /\ drv' = [drv EXCEPT !.pc = to, !.receiving = receiving]
  /\ UNCHANGED <<air, rxFrame, ch, sent, quiet, got, changes>>

TxDisable == ClearRfMode("txDisable", "txEnable")
TxEnable == Enable("txEnable", "txStart", FALSE)
RxDisable == ClearRfMode("rxDisable", "rxEnable")
RxEnable == Enable("rxEnable", "rxStart", TRUE)

TxStart ==
  /\ At("txStart")
  /\ hw' = [hw EXCEPT !.state = "tx"]
  /\ drv' = [drv EXCEPT !.pc = "txWait"]
  /\ UNCHANGED <<air, rxFrame, ch, sent, quiet, got, changes>>

\* START, after a frame was sent or received: isRxDone tells the main loop.
RxStart ==
  /\ At("rxStart")
  /\ hw' = [hw EXCEPT !.state = "rx"]
  /\ quiet' = TRUE
  /\ drv' = [drv EXCEPT !.pc = IF drv.flag THEN "look" ELSE "main"]
  /\ UNCHANGED <<air, rxFrame, ch, sent, got, changes>>

(* The main loop blinks, clears RxEndFlag, prints, and then taskRf has its *)
(* first look at what returnRxBuf points to, whatever lies there by now.   *)
Take ==
  /\ At("look")
  /\ drv' = [drv EXCEPT !.pc = "main", !.flag = FALSE]
  /\ \/ /\ quiet
        /\ got' = IF rxFrame.first = rxFrame.last THEN rxFrame.first ELSE 0
     \/ ~quiet /\ UNCHANGED got
  /\ UNCHANGED <<hw, air, rxFrame, ch, sent, quiet, changes>>

-----------------------------------------------------------------------------
(* What the main loop and the handlers call.                               *)

\* sendRf: m_TxFrame is a copy, and the call returns when it was sent.
SendRf ==
  /\ At("main")
  /\ drv' = [drv EXCEPT !.pc = "txDisable"]
  /\ UNCHANGED <<hw, air, rxFrame, ch, sent, quiet, got, changes>>

\* sendInternal: wait for EVENTS_END, clear it, go back to receiving.
SendRfWaits ==
  /\ At("txWait")
  /\ hw.end
  /\ hw' = [hw EXCEPT !.end = FALSE]
  /\ drv' = [drv EXCEPT !.pc = "rxDisable"]
  /\ UNCHANGED <<air, rxFrame, ch, sent, quiet, got, changes>>

\* Faulty: the frame counts whatever CRCSTATUS says.
ReceiveActionUnchecked(d) == [d EXCEPT !.flag = TRUE, !.pc = "rxDisable"]

\* Faulty: after a bad CRC the radio is not started again.
ReceiveActionIfGood(d) ==
  IF hw.crcOk THEN [d EXCEPT !.flag = TRUE, !.pc = "rxDisable"] ELSE d

\* receiveAction: the frame counts if its CRC is right; the radio restarts.
ReceiveAction(d) ==
  [d EXCEPT !.flag = (@ \/ hw.crcOk), !.pc = "rxDisable"]

IsRxDone ==
  /\ At("main")
  /\ drv.receiving
  /\ hw.end
  /\ hw' = [hw EXCEPT !.end = FALSE]
  /\ drv' = ReceiveAction(drv)
  /\ UNCHANGED <<air, rxFrame, ch, sent, quiet, got, changes>>

\* Faulty: setRadio is not called.
ChangeGroupLater(c) == ch' = c /\ UNCHANGED drv

\* changeGroup: setRadio writes the registers, the radio goes on as it was.
SetGroup(c) ==
  /\ ch' = c
  /\ drv' = [drv EXCEPT !.reg = Tuned(c)]

ChangeGroup ==
  /\ At("main")
  /\ changes < MaxChanges
  /\ changes' = changes + 1
  /\ \E c \in Channel \ {ch} : SetGroup(c)
  /\ UNCHANGED <<hw, air, rxFrame, sent, quiet, got>>

Next ==
  \/ RemoteStarts \/ RemoteEnds \/ TransmissionEnds
  \/ TxDisable \/ TxEnable \/ TxStart \/ RxDisable \/ RxEnable \/ RxStart
  \/ Take \/ SendRf \/ SendRfWaits \/ IsRxDone \/ ChangeGroup

Spec == Init /\ [][Next]_vars

(* The driver's steps follow each other, a transmission ends, and the main *)
(* loop polls.                                                             *)
Fairness ==
  /\ WF_vars(TransmissionEnds) /\ WF_vars(RemoteEnds)
  /\ WF_vars(TxDisable) /\ WF_vars(TxEnable) /\ WF_vars(TxStart)
  /\ WF_vars(RxDisable) /\ WF_vars(RxEnable) /\ WF_vars(RxStart)
  /\ WF_vars(Take) /\ WF_vars(SendRfWaits) /\ WF_vars(IsRxDone)

FairSpec == Spec /\ Fairness

-----------------------------------------------------------------------------
\* Type invariant: no channel takes FREQUENCY out of the band.
TypeOK ==
  /\ hw \in [state : {"disabled", "rxIdle", "rx", "txIdle", "tx"},
             end : BOOLEAN, crcOk : BOOLEAN, on : Place]
  /\ air \in [on : BOOLEAN, heard : BOOLEAN]
  /\ rxFrame \in [first : 0..MaxFrames, last : 0..MaxFrames]
  /\ ch \in Channel
  /\ drv \in [pc : Pc, receiving : BOOLEAN, flag : BOOLEAN, reg : Place]
  /\ sent \in 0..MaxFrames
  /\ quiet \in BOOLEAN
  /\ got \in 0..MaxFrames
  /\ changes \in 0..MaxChanges

(* Between two calls of the driver the radio listens, or it holds a frame  *)
(* that a later poll sees: nothing that came or went before has left it   *)
(* idle without an event, in which case it would be deaf until the next    *)
(* transmission (isRxDone, receiveAction, setRfMode).                      *)
NeverDeaf ==
  At("main") \/ At("look") =>
    /\ drv.receiving
    /\ hw.state = "rx" \/ (hw.state = "rxIdle" /\ hw.end)

(* The driver does not take the radio down before the frame is out: the    *)
(* event that sendInternal waits for is that of its own transmission, not  *)
(* one left over from a frame received before.                             *)
SendIsWhole == [][hw.state = "tx" => hw'.state \in {"tx", "txIdle"}]_vars

(* A good frame that waits for the poll is taken by the main loop, if the  *)
(* node does not transmit from then on (setRfMode clears EVENTS_END) and   *)
(* no other frame comes in between START and the look at this one.         *)
Waiting(n) ==
  At("main") /\ hw.state = "rxIdle" /\ hw.end /\ hw.crcOk /\ rxFrame.last = n

WaitingIsTaken ==
  \A n \in 1..MaxFrames :
    [](Waiting(n) /\ []~At("txDisable") => <>(got = n \/ (At("look") /\ ~quiet)))

(* The channel that changeGroup chose is the one the radio ends up on,     *)
(* though it follows only when it next goes up; a node that goes on to     *)
(* send, as every node does each second, does not stay on the old one.     *)
ChannelTakesEffect == []<>At("txDisable") => <>[](hw.on = Tuned(ch))

(* To the main loop the radio is a line that loses frames: at a look that  *)
(* no other frame disturbs it finds a whole frame, newer than any it found *)
(* so before.  A disturbed look is a stutter here: it may find parts of    *)
(* two frames, or the newer one, which the next poll hands over again.     *)
Line == INSTANCE LossyLine
ImplementsLossyLine == Line!LineSpec
=============================================================================
