------------------------------ MODULE DimControl ------------------------------
(***************************************************************************)
(* The dimmer of one lamp (UttecApp/mSecExe.cpp): a millisecond task moves *)
(* the lamp towards its target, and the handlers of the main loop set the  *)
(* target between two of its calls.                                        *)
(*                                                                         *)
(* Brightness is counted in steps from 0 (off) to MaxLevel.  The PWM is    *)
(* inverted: the duty written to dimer is MaxLevel minus the brightness.   *)
(* A lamp is a receiver without a sensor of its own (dim.own is            *)
(* "eNoSensor"), or a lamp, transmitter or repeater that has one; a knob   *)
(* or a photo sensor is that of a transmitter.  High, Low and DTime are    *)
(* those of the group and do not change.                                   *)
(***************************************************************************)
EXTENDS Integers

CONSTANTS
  MaxLevel,
  High, Low,         \* Ctr.High and Ctr.Low of the node
  Delay,             \* Ctr.DTime, in calls of the task
  PirUp, PirDown,    \* upStep and downStep after a movement,
  VolumeStep,        \* of the knob,
  DayStep,           \* and of the photo sensor and the test mode
  PhotoStep,         \* what one reading of the photo sensor adds to the target
  ForcedPeriod,      \* a forced level is written every 20th call
  HoldOff,           \* TimeoutForPirRepeat, in calls of the task
  BootLamp,          \* brightness (0.7) and fNow (0.5) at power-on
  BootNow,
  OwnSensor,         \* the sensors a lamp may be fitted with
  RemoteLevel,       \* levels that a knob, other nodes and the server ask for
  Request            \* which requests come

Level == 0..MaxLevel
Sensor == {"eNoSensor", "ePir", "eVolume", "eDayLight", "eTestMode"}

\* The dimmer's task does something only for these.
ActiveSensor == {"ePir", "eVolume", "eDayLight", "eTestMode"}

\* A sensor that makes its type that of the lamp on each call of the task.
ClaimingSensor == {"ePir", "eDayLight", "eTestMode"}

ASSUME DimAssumption ==
  /\ MaxLevel \in Nat
  /\ {High, Low, BootLamp, BootNow} \subseteq Level
  /\ RemoteLevel \subseteq Level
  /\ {Delay, HoldOff} \subseteq Nat
  /\ {PirUp, PirDown, VolumeStep, DayStep, PhotoStep, ForcedPeriod} \subseteq Nat \ {0}
  /\ OwnSensor \subseteq Sensor

VARIABLES
  dim,      \* sDim, m_sensorType, the statics of the task, and the lamp
  lampBy    \* history: who wrote the lamp last

(* "direct": past procDim, as at power-on; "moved": so, but somebody moved *)
(* since; "task": procDim, step by step; "skipped": procDim, but more than *)
(* one step since was not written.                                         *)
LampBy == {"direct", "moved", "task", "skipped"}

vars == <<dim, lampBy>>

Init ==
  /\ \E own \in OwnSensor :
       dim = [target |-> 0, dTime |-> 0, forced |-> FALSE, sensor |-> "ePir",
              own |-> own, fNow |-> BootNow, fBefore |-> 0, ulCount |-> 0,
              ulTimeout |-> HoldOff, lamp |-> BootLamp]
  /\ lampBy = "direct"

-----------------------------------------------------------------------------
(* switchDimType: what one call of the task does to the lamp.              *)

\* Faulty: the tests for the end of the way are exchanged.
ProcDimExchanged(d, up, down) ==
  LET rising == d.target >= d.fNow
      next == IF rising THEN d.fNow + up ELSE d.fNow - down
      bAct == IF rising THEN next > d.target ELSE next < d.target
  IN  IF bAct /\ next \in Level THEN [d EXCEPT !.fNow = next, !.lamp = next]
                               ELSE [d EXCEPT !.fNow = d.target]

\* One step towards the target.  The step that reaches it is not written.
ProcDim(d, up, down) ==
  LET rising == d.target >= d.fNow
      next == IF rising THEN d.fNow + up ELSE d.fNow - down
      bAct == IF rising THEN next < d.target ELSE next > d.target
  IN  IF bAct THEN [d EXCEPT !.fNow = next, !.lamp = next]
              ELSE [d EXCEPT !.fNow = d.target]

\* A forced level is written once, on a call that ForcedPeriod divides.
ForcedDim(d) ==
  IF d.fBefore = d.target THEN d
  ELSE LET e == [d EXCEPT !.ulCount = (@ + 1) % ForcedPeriod]
       IN  IF d.ulCount # 0 THEN e
           ELSE [e EXCEPT !.lamp = d.target, !.fBefore = d.target]

\* Faulty: the delay is counted down without the test for its end.
DelayTickUnchecked(d) == [d EXCEPT !.dTime = @ - 1]

\* Faulty: the end of the delay leaves the target alone.
DelayTickKeepsTarget(d) == IF d.dTime > 0 THEN [d EXCEPT !.dTime = @ - 1] ELSE d

\* The delay after a movement runs down; then the lamp goes low.
DelayTick(d) ==
  IF d.dTime > 0 THEN [d EXCEPT !.dTime = @ - 1] ELSE [d EXCEPT !.target = Low]

SwitchDimType(d) ==
  CASE d.forced -> ForcedDim(d)
    [] ~d.forced /\ d.sensor = "ePir" -> ProcDim(DelayTick(d), PirUp, PirDown)
    [] ~d.forced /\ d.sensor = "eVolume" -> ProcDim(d, VolumeStep, VolumeStep)
    [] ~d.forced /\ d.sensor \in {"eDayLight", "eTestMode"} -> ProcDim(d, DayStep, DayStep)
    [] OTHER -> d

-----------------------------------------------------------------------------
(* msecTask.  The sensor is not read while the lamp is forced.             *)

\* A movement detector always gives the lamp back to the delay.
SensorType(d) ==
  [d EXCEPT !.ulTimeout = IF @ > 0 THEN @ - 1 ELSE 0,
            !.sensor = IF d.own \in ClaimingSensor THEN d.own ELSE @]

\* Faulty: the delay starts again, the target stays.
MovedKeepsTarget(d) == [d EXCEPT !.dTime = Delay]

Moved(d) == [d EXCEPT !.target = High, !.dTime = Delay]

\* After a call of the task that began with by.
Shown(by) ==
  CASE dim'.fNow = dim.fNow -> by
    [] dim'.fNow # dim.fNow /\ dim'.lamp = dim'.fNow -> "task"
    [] OTHER -> IF by = "task" /\ dim.lamp # dim.fNow THEN "skipped" ELSE by

\* The photo sensor has a reading on every call.
PhotoIsDue == dim.own = "eDayLight" /\ ~dim.forced /\ SensorType(dim).ulTimeout = 0

\* The sensor reports nothing, or something that ulTimeout holds off.
MsecTask ==
  /\ ~PhotoIsDue
  /\ dim' = SwitchDimType(IF dim.forced THEN dim ELSE SensorType(dim))
  /\ lampBy' = Shown(lampBy)

MsecTaskMovement ==
  /\ "move" \in Request
  /\ dim.own = "ePir" /\ ~dim.forced
  /\ SensorType(dim).ulTimeout = 0
  /\ dim' = SwitchDimType([Moved(SensorType(dim)) EXCEPT !.ulTimeout = HoldOff])
  /\ lampBy' = Shown(IF lampBy = "direct" THEN "moved" ELSE lampBy)

\* ulTimeout holds off only the message to the group.
MsecTaskTurned ==
  /\ "turn" \in Request
  /\ dim.own = "eVolume" /\ ~dim.forced
  /\ \E level \in RemoteLevel :
       dim' = SwitchDimType([SensorType(dim) EXCEPT !.sensor = "eVolume",
                                                    !.target = level])
  /\ lampBy' = Shown(lampBy)

\* Faulty: the direction is the wrong one.
DaylightReversed(d, dark) ==
  [d EXCEPT !.target = IF dark THEN (IF @ > PhotoStep THEN @ - PhotoStep ELSE 0)
                       ELSE IF @ + PhotoStep < MaxLevel THEN @ + PhotoStep ELSE MaxLevel]

\* One percent up in the dark, down in the light.  Targets are whole percents.
Daylight(d, dark) ==
  [d EXCEPT !.target = IF ~dark THEN (IF @ > PhotoStep THEN @ - PhotoStep ELSE 0)
                       ELSE IF @ + PhotoStep < MaxLevel THEN @ + PhotoStep ELSE MaxLevel]

MsecTaskPhoto(dark) ==
  /\ PhotoIsDue
  /\ dim' = SwitchDimType([Daylight(SensorType(dim), dark) EXCEPT !.ulTimeout = HoldOff])
  /\ lampBy' = Shown(lampBy)

-----------------------------------------------------------------------------
(* Handlers of the main loop.                                              *)

\* procRfSensorCmd: a lamp with a detector reports a movement, and goes on
\* reporting it every second: Cmd stays edSensor, and main repeats it for ever.
RfSensor ==
  /\ "rfSensor" \in Request
  /\ dim' = [Moved(dim) EXCEPT !.sensor = IF dim.own = "eNoSensor" THEN "ePir" ELSE @]
  /\ UNCHANGED lampBy

\* procRfVolumeCmd, procRfDaylightCmd, procVolumeCmd.
RfLevel ==
  /\ "rfLevel" \in Request
  /\ \E level \in RemoteLevel :
       dim' = [dim EXCEPT !.sensor = "eVolume", !.target = level]
  /\ UNCHANGED lampBy

\* procRfRepeatCmd: a receiver takes over its transmitter's sensor, if it has
\* one or not, and its level.
RfRepeat ==
  /\ "rfRepeat" \in Request
  /\ dim.own = "eNoSensor"
  /\ \E level \in RemoteLevel, sensor \in Sensor :
       dim' = [dim EXCEPT !.sensor = sensor, !.target = level]
  /\ UNCHANGED lampBy

\* procControlSub and procAltSub: setForcedDim.
Control ==
  /\ "control" \in Request
  /\ \E level \in RemoteLevel :
       dim' = [dim EXCEPT !.forced = TRUE, !.target = level]
  /\ lampBy' = "direct"

\* procNewSetSub: the server gives the lamp back.
NewSet ==
  /\ "newSet" \in Request
  /\ dim' = [dim EXCEPT !.forced = FALSE]
  /\ UNCHANGED lampBy

\* monitor::isLampOk: a second on, a second off, by setDirectDim.
Monitor ==
  /\ "monitor" \in Request
  /\ dim' = [dim EXCEPT !.lamp = 0]
  /\ lampBy' = "direct"

\* searchRf: the lamp is switched off for the installer; setUnforcedDim.
Search ==
  /\ "search" \in Request
  /\ dim' = [dim EXCEPT !.lamp = 0, !.forced = FALSE]
  /\ lampBy' = "direct"

Next ==
  \/ MsecTask \/ MsecTaskMovement \/ MsecTaskTurned
  \/ \E dark \in BOOLEAN : MsecTaskPhoto(dark)
  \/ RfSensor \/ RfLevel \/ RfRepeat
  \/ Control \/ NewSet \/ Monitor \/ Search

Spec == Init /\ [][Next]_vars

\* The millisecond tick never stops.
FairSpec == Spec /\ WF_vars(MsecTask \/ \E dark \in BOOLEAN : MsecTaskPhoto(dark))

-----------------------------------------------------------------------------
(* The dimmer's record has its shape: the delay and the hold-off do not    *)
(* wrap below zero, and no step carries fNow or the lamp out of its range  *)
(* (switchDimType and procDim, mSecExe.cpp:51-106).                        *)
TypeOK ==
  /\ dim \in [target : Level, dTime : 0..Delay, forced : BOOLEAN,
              sensor : Sensor, own : OwnSensor, fNow : Level, fBefore : Level,
              ulCount : 0..(ForcedPeriod - 1), ulTimeout : 0..HoldOff, lamp : Level]
  /\ lampBy \in LampBy

Distance(a, b) == IF a < b THEN b - a ELSE a - b
Largest(S) == CHOOSE x \in S : \A y \in S : y <= x
Step == Largest({PirUp, PirDown, VolumeStep, DayStep})

(* Once only the task runs, a lamp that is not forced comes to its target, *)
(* to within one step, and stays there (procDim, mSecExe.cpp:51-78),       *)
(* unless the transmitter it follows has no sensor, or the lamp lags:      *)
(*   - it was written past procDim (at power-on, by the server, the lamp   *)
(*     test or a commissioning), no step was shown and nobody moved since; *)
(*   - targets one step apart followed each other: the step that reaches   *)
(*     the target is never written, so a knob turned one percent at a time *)
(*     does not move the lamp of another node.                             *)
Quiet == <>[][MsecTask \/ \E dark \in BOOLEAN : MsecTaskPhoto(dark)]_vars

LampTracksTarget ==
  Quiet =>
    <>[](~dim.forced /\ lampBy \in {"moved", "task"} /\ dim.sensor \in ActiveSensor =>
           Distance(dim.lamp, dim.target) <= Step)

(* Once nobody moves before a lamp with a movement detector and it hears   *)
(* no edSensor any more, it rests near Low, "when Delay Time out"          *)
(* (mSecExe.cpp:98), whatever else other nodes make of its target, and for *)
(* ever: one movement is enough to bring back a lamp written past procDim, *)
(* if High and Low are more than a step apart.  A sensor lamp that saw one *)
(* movement sends edSensor every second for ever (mSecExe.cpp:147,         *)
(* mainForSx1276.cpp:185), so the premise speaks of a lamp out of reach of *)
(* any such lamp; StaysHigh speaks of one within.                          *)
RestsLow ==
  <>[][~MsecTaskMovement /\ ~RfSensor]_vars =>
    <>[](dim.own = "ePir" /\ ~dim.forced /\ lampBy # "direct"
           => Distance(dim.lamp, Low) <= Step)

(* A lamp with a movement detector that goes on hearing edSensor before    *)
(* its delay runs out stays near High for ever, though nobody moves before *)
(* it or the lamp it hears (procRfSensorCmd, procRf.cpp:96-97).  A lamp    *)
(* that was switched off past procDim while fNow was at High is left out:  *)
(* it stays off, for a step that reaches the target is not written.        *)
StaysHigh ==
  /\ <>[][MsecTask \/ MsecTaskMovement \/ RfSensor]_vars
  /\ <>[](dim.dTime > 0)
  => <>[](dim.own = "ePir" /\ ~dim.forced /\ lampBy = "task"
            => Distance(dim.lamp, High) <= Step)

(* A lamp with a photo sensor that from some time on only reads dark comes *)
(* up to full brightness, however far another node, the server or a        *)
(* movement moved its target before, and though each reading moves it by   *)
(* one percent only                                                        *)
(* ("Max 10Sec", mSecExe.cpp:195); a lamp in the light goes dark.          *)
Bright == <>[][MsecTask \/ MsecTaskPhoto(FALSE)]_vars
Dark == <>[][MsecTask \/ MsecTaskPhoto(TRUE)]_vars

Settled(level) ==
  <>[](dim.own = "eDayLight" /\ ~dim.forced /\ lampBy # "direct" =>
         Distance(dim.lamp, level) <= Step)

FollowsDaylight == (Dark => Settled(MaxLevel)) /\ (Bright => Settled(0))
=============================================================================
