--------------------------- MODULE DimControlProofs ---------------------------
(***************************************************************************)
(* Theorems about the dimmer, for any number of brightness steps, any step *)
(* widths and delays, and any sequence of requests: it is well typed, and  *)
(* each call of its task brings it nearer to its target.                   *)
(***************************************************************************)
EXTENDS DimControl, TLAPS

Dim ==
  [target : Level, dTime : 0..Delay, forced : BOOLEAN,
   sensor : Sensor, own : OwnSensor, fNow : Level, fBefore : Level,
   ulCount : 0..(ForcedPeriod - 1), ulTimeout : 0..HoldOff, lamp : Level]

(* One call of procDim leaves a well typed dimmer: the step is taken only  *)
(* if it stays short of the target, so fNow cannot pass 0 or MaxLevel      *)
(* (procDim, mSecExe.cpp:51-78).                                           *)
LEMMA ProcDimInRange ==
  ASSUME NEW d \in Dim, NEW up \in Nat, NEW down \in Nat
  PROVE  ProcDim(d, up, down) \in Dim
<1> DEFINE next == IF d.target >= d.fNow THEN d.fNow + up ELSE d.fNow - down
           bAct == IF d.target >= d.fNow THEN next < d.target ELSE next > d.target
<1>0. MaxLevel \in Nat
  BY DimAssumption
<1>1. d.target \in Level /\ d.fNow \in Level
  BY DEF Dim
<1>2. bAct => next \in Level
  BY <1>0, <1>1 DEF Level
<1>3. [d EXCEPT !.fNow = d.target] \in Dim
  BY <1>1 DEF Dim
<1>4. bAct => [d EXCEPT !.fNow = next, !.lamp = next] \in Dim
  <2> HIDE DEF next
  <2> QED BY <1>2 DEF Dim
<1> QED
  BY <1>3, <1>4 DEF ProcDim

(* A forced level is written as it is, and the call counter of the 20th    *)
(* call wraps (switchDimType, mSecExe.cpp:80-93).                          *)
LEMMA ForcedDimInRange ==
  ASSUME NEW d \in Dim
  PROVE  ForcedDim(d) \in Dim
<1>1. ForcedPeriod \in Nat \ {0}
  BY DimAssumption
<1>2. d.ulCount \in Nat /\ d.target \in Level
  BY <1>1 DEF Dim
<1> DEFINE count == (d.ulCount + 1) % ForcedPeriod
           e == [d EXCEPT !.ulCount = count]
<1>3. count \in 0..(ForcedPeriod - 1)
  BY <1>1, <1>2
<1>4. e \in Dim /\ [e EXCEPT !.lamp = d.target, !.fBefore = d.target] \in Dim
  <2> HIDE DEF count
  <2> QED BY <1>2, <1>3 DEF Dim
<1> QED
  BY <1>4 DEF ForcedDim

(* The delay after a movement counts down to zero and no further.          *)
LEMMA DelayTickInRange ==
  ASSUME NEW d \in Dim
  PROVE  DelayTick(d) \in Dim
<1>1. Low \in Level /\ Delay \in Nat
  BY DimAssumption
<1>2. d.dTime > 0 => [d EXCEPT !.dTime = @ - 1] \in Dim
  BY <1>1 DEF Dim
<1>3. [d EXCEPT !.target = Low] \in Dim
  BY <1>1 DEF Dim
<1> QED
  BY <1>2, <1>3 DEF DelayTick

LEMMA SwitchInRange ==
  ASSUME NEW d \in Dim
  PROVE  SwitchDimType(d) \in Dim
<1>1. PirUp \in Nat /\ PirDown \in Nat /\ VolumeStep \in Nat /\ DayStep \in Nat
  BY DimAssumption
<1>2. ForcedDim(d) \in Dim
  BY ForcedDimInRange
<1>3. ProcDim(DelayTick(d), PirUp, PirDown) \in Dim
  BY <1>1, DelayTickInRange, ProcDimInRange
<1>4. ProcDim(d, VolumeStep, VolumeStep) \in Dim
  BY <1>1, ProcDimInRange
<1>5. ProcDim(d, DayStep, DayStep) \in Dim
  BY <1>1, ProcDimInRange
<1> QED
  BY <1>2, <1>3, <1>4, <1>5 DEF SwitchDimType

(* The pause before the next report counts down to zero and no further.    *)
LEMMA SensorTypeInRange ==
  ASSUME NEW d \in Dim
  PROVE  SensorType(d) \in Dim
<1>1. HoldOff \in Nat
  BY DimAssumption
<1>2. (IF d.ulTimeout > 0 THEN d.ulTimeout - 1 ELSE 0) \in 0..HoldOff
  BY <1>1 DEF Dim
<1> QED
  BY <1>2 DEF SensorType, Dim, Sensor, ClaimingSensor

LEMMA MovedInRange ==
  ASSUME NEW d \in Dim
  PROVE  Moved(d) \in Dim
<1>1. High \in Level /\ Delay \in 0..Delay
  BY DimAssumption
<1> QED
  BY <1>1 DEF Moved, Dim

(* One percent up or down ends at full brightness and at off.              *)
LEMMA DaylightInRange ==
  ASSUME NEW d \in Dim, NEW dark \in BOOLEAN
  PROVE  Daylight(d, dark) \in Dim
<1>1. MaxLevel \in Nat /\ PhotoStep \in Nat \ {0}
  BY DimAssumption
<1>2. d.target \in 0..MaxLevel
  BY DEF Dim, Level
<1> DEFINE level == IF ~dark THEN (IF d.target > PhotoStep THEN d.target - PhotoStep ELSE 0)
                    ELSE IF d.target + PhotoStep < MaxLevel THEN d.target + PhotoStep ELSE MaxLevel
<1>3. level \in Level
  BY <1>1, <1>2 DEF Level
<1> HIDE DEF level
<1>4. [d EXCEPT !.target = level] \in Dim
  BY <1>3 DEF Dim
<1> QED
  BY <1>4 DEF Daylight, level

-----------------------------------------------------------------------------
Typed == dim \in Dim /\ lampBy \in LampBy

LEMMA InitTyped == Init => Typed
<1> SUFFICES ASSUME Init PROVE Typed
  OBVIOUS
<1>1. {Low, BootLamp, BootNow} \subseteq Level /\ 0 \in Level
  BY DimAssumption DEF Level
<1>2. 0 \in 0..Delay /\ HoldOff \in 0..HoldOff
  BY DimAssumption
<1>3. 0 \in 0..(ForcedPeriod - 1)
  BY DimAssumption
<1>4. dim \in Dim
  BY <1>1, <1>2, <1>3 DEF Init, Dim, Sensor
<1> QED
  BY <1>2, <1>4 DEF Init, Typed, LampBy

LEMMA NextTyped == Typed /\ [Next]_vars => Typed'
<1> SUFFICES ASSUME Typed, [Next]_vars PROVE Typed'
  OBVIOUS
<1> USE DEF Typed
<1>s. \A by \in LampBy : Shown(by) \in LampBy
  BY DEF Shown, LampBy
<1>d. "direct" \in LampBy
  BY DEF LampBy
<1>r. RemoteLevel \subseteq Level /\ 0 \in Level
  BY DimAssumption DEF Level
<1>1. CASE MsecTask
  BY <1>1, <1>s, SwitchInRange, SensorTypeInRange DEF MsecTask
<1>2. CASE MsecTaskMovement
  <2> DEFINE d == [Moved(SensorType(dim)) EXCEPT !.ulTimeout = HoldOff]
  <2>1. Moved(SensorType(dim)) \in Dim
    BY SensorTypeInRange, MovedInRange
  <2>2. d \in Dim
    BY <2>1, DimAssumption DEF Dim
  <2>3. SwitchDimType(d) \in Dim
    BY <2>2, SwitchInRange
  <2>4. lampBy' \in LampBy
    <3>1. (IF lampBy = "direct" THEN "moved" ELSE lampBy) \in LampBy
      BY DEF LampBy
    <3> QED BY <1>2, <1>s, <3>1 DEF MsecTaskMovement
  <2> QED BY <1>2, <2>3, <2>4 DEF MsecTaskMovement
<1>3. CASE MsecTaskTurned
  <2>1. PICK level \in RemoteLevel :
          dim' = SwitchDimType([SensorType(dim) EXCEPT !.sensor = "eVolume", !.target = level])
    BY <1>3 DEF MsecTaskTurned
  <2>2. SensorType(dim) \in Dim
    BY SensorTypeInRange
  <2>3. [SensorType(dim) EXCEPT !.sensor = "eVolume", !.target = level] \in Dim
    BY <2>2, <1>r DEF Dim, Sensor
  <2> QED BY <1>3, <1>s, <2>1, <2>3, SwitchInRange DEF MsecTaskTurned
<1>4. CASE RfSensor
  <2>1. Moved(dim) \in Dim
    BY MovedInRange
  <2>2. dim' \in Dim
    BY <1>4, <2>1 DEF RfSensor, Dim, Sensor
  <2> QED BY <1>4, <2>2 DEF RfSensor
<1>5. CASE RfLevel
  BY <1>5, <1>r DEF RfLevel, Dim, Sensor
<1>6. CASE RfRepeat
  BY <1>6, <1>r DEF RfRepeat, Dim
<1>7. CASE Control
  BY <1>7, <1>r, <1>d DEF Control, Dim
<1>8. CASE NewSet
  BY <1>8 DEF NewSet, Dim
<1>9. CASE Monitor
  BY <1>9, <1>r, <1>d DEF Monitor, Dim
<1>10. CASE Search
  BY <1>10, <1>r, <1>d DEF Search, Dim
<1>11. ASSUME NEW dark \in BOOLEAN, MsecTaskPhoto(dark)
       PROVE  Typed'
  <2> DEFINE d == [Daylight(SensorType(dim), dark) EXCEPT !.ulTimeout = HoldOff]
  <2>1. Daylight(SensorType(dim), dark) \in Dim
    BY SensorTypeInRange, DaylightInRange
  <2>2. d \in Dim
    BY <2>1, DimAssumption DEF Dim
  <2>3. SwitchDimType(d) \in Dim
    BY <2>2, SwitchInRange
  <2>4. dim' = SwitchDimType(d) /\ lampBy' \in LampBy
    BY <1>11, <1>s DEF MsecTaskPhoto
  <2> QED BY <2>3, <2>4
<1>12. CASE UNCHANGED vars
  BY <1>12 DEF vars
<1> QED
  BY <1>1, <1>2, <1>3, <1>4, <1>5, <1>6, <1>7, <1>8, <1>9, <1>10, <1>11, <1>12 DEF Next

(* Brightness, fNow and target stay in their range, and no counter of the  *)
(* task wraps, in any order of the handlers and the task (mSecExe.cpp).    *)
THEOREM TypeCorrect == Spec => []TypeOK
<1>1. Typed => TypeOK
  BY DEF Typed, TypeOK, Dim
<1> QED
  BY InitTyped, NextTyped, <1>1, PTL DEF Spec

-----------------------------------------------------------------------------
(* What liveness of the lamp rests on: each call of the task comes closer  *)
(* to the target, and nothing else moves fNow away from it.                *)

\* A call of msecTask, with or without a report of the sensor.
Task ==
  MsecTask \/ MsecTaskMovement \/ MsecTaskTurned \/ \E dark \in BOOLEAN : MsecTaskPhoto(dark)

\* From now to next: at level, or nearer to it and shown by the lamp.
Arrives(next, level) == next.fNow = level
Nearer(now, next, level) ==
  /\ Distance(next.fNow, level) < Distance(now.fNow, level)
  /\ next.fNow \in now.fNow..level \/ next.fNow \in level..now.fNow
  /\ next.lamp = next.fNow

Closer(now, next) == Arrives(next, next.target) \/ Nearer(now, next, next.target)

ClosesIn ==
  /\ Task /\ ~dim.forced /\ dim'.sensor \in ActiveSensor => Closer(dim, dim')
  /\ dim'.fNow # dim.fNow => Task /\ ~dim.forced /\ Closer(dim, dim')

\* The step is written as long as it stays short of the target.
LEMMA ProcDimCloses ==
  ASSUME NEW d \in Dim, NEW up \in Nat \ {0}, NEW down \in Nat \ {0}
  PROVE  /\ ProcDim(d, up, down).target = d.target
         /\ ProcDim(d, up, down).sensor = d.sensor
         /\ Closer(d, ProcDim(d, up, down))
<1> DEFINE next == IF d.target >= d.fNow THEN d.fNow + up ELSE d.fNow - down
           bAct == IF d.target >= d.fNow THEN next < d.target ELSE next > d.target
           e == [d EXCEPT !.fNow = next, !.lamp = next]
           g == [d EXCEPT !.fNow = d.target]
<1>1. d.target \in Nat /\ d.fNow \in Nat
  BY DimAssumption DEF Dim, Level
<1>2. ProcDim(d, up, down) = IF bAct THEN e ELSE g
  BY DEF ProcDim
<1>3. CASE bAct
  <2>1. /\ Distance(next, d.target) < Distance(d.fNow, d.target)
        /\ next \in d.fNow..d.target \/ next \in d.target..d.fNow
    BY <1>1, <1>3 DEF Distance
  <2>2. e.target = d.target /\ e.sensor = d.sensor /\ e.fNow = next /\ e.lamp = next
    <3> HIDE DEF next
    <3> QED BY DEF Dim
  <2> HIDE DEF e, next
  <2> QED BY <1>2, <1>3, <2>1, <2>2 DEF Closer, Nearer
<1>4. CASE ~bAct
  <2>1. g.target = d.target /\ g.sensor = d.sensor /\ g.fNow = d.target
    BY DEF Dim
  <2> HIDE DEF g, bAct
  <2> QED BY <1>2, <1>4, <2>1 DEF Closer, Arrives
<1> QED BY <1>3, <1>4

\* One call of the task, for what the sensor made of the dimmer before.
LEMMA SwitchCloses ==
  ASSUME NEW d \in Dim
  PROVE  /\ SwitchDimType(d).sensor = d.sensor
         /\ ~d.forced /\ d.sensor \in ActiveSensor => Closer(d, SwitchDimType(d))
         /\ d.forced \/ d.sensor \notin ActiveSensor => SwitchDimType(d).fNow = d.fNow
<1>1. {PirUp, PirDown, VolumeStep, DayStep} \subseteq Nat \ {0}
  BY DimAssumption
<1> DEFINE e == DelayTick(d)
<1>2. e \in Dim /\ e.sensor = d.sensor /\ e.fNow = d.fNow
  BY DelayTickInRange DEF DelayTick, Dim
<1> HIDE DEF e
<1>3. \A x : Closer(e, x) => Closer(d, x)
  BY <1>2 DEF Closer, Nearer
<1>4. CASE d.forced
  <2>1. SwitchDimType(d) = ForcedDim(d)
    BY <1>4 DEF SwitchDimType
  <2>2. ForcedDim(d).sensor = d.sensor /\ ForcedDim(d).fNow = d.fNow
    BY DEF ForcedDim, Dim
  <2> QED BY <1>4, <2>1, <2>2
<1>5. CASE ~d.forced /\ d.sensor = "ePir"
  <2>1. SwitchDimType(d) = ProcDim(e, PirUp, PirDown)
    BY <1>5 DEF SwitchDimType, e
  <2>2. /\ ProcDim(e, PirUp, PirDown).sensor = e.sensor
        /\ Closer(e, ProcDim(e, PirUp, PirDown))
    BY <1>1, <1>2, ProcDimCloses
  <2> QED BY <1>2, <1>3, <1>5, <2>1, <2>2 DEF ActiveSensor
<1>6. CASE ~d.forced /\ d.sensor = "eVolume"
  <2>1. SwitchDimType(d) = ProcDim(d, VolumeStep, VolumeStep)
    BY <1>6 DEF SwitchDimType
  <2> QED BY <1>1, <1>6, <2>1, ProcDimCloses DEF ActiveSensor
<1>7. CASE ~d.forced /\ d.sensor \in {"eDayLight", "eTestMode"}
  <2>1. SwitchDimType(d) = ProcDim(d, DayStep, DayStep)
    BY <1>7 DEF SwitchDimType
  <2> QED BY <1>1, <1>7, <2>1, ProcDimCloses DEF ActiveSensor
<1>8. CASE ~d.forced /\ d.sensor \notin ActiveSensor
  <2>1. SwitchDimType(d) = d
    BY <1>8 DEF SwitchDimType, ActiveSensor
  <2> QED BY <1>8, <2>1
<1> QED BY <1>4, <1>5, <1>6, <1>7, <1>8 DEF ActiveSensor

\* Whatever the sensor reports, a call starts from the same fNow.
LEMMA CallCloses ==
  ASSUME NEW d \in Dim, NEW now \in Dim, d.fNow = now.fNow, d.forced = now.forced
  PROVE  LET next == SwitchDimType(d)
         IN  /\ ~now.forced /\ next.sensor \in ActiveSensor => Closer(now, next)
             /\ next.fNow # now.fNow => ~now.forced /\ Closer(now, next)
<1>1. \A x : Closer(d, x) <=> Closer(now, x)
  BY DEF Closer, Nearer
<1> QED BY <1>1, SwitchCloses

LEMMA TaskCloses ==
  ASSUME Typed, Task
  PROVE  /\ ~dim.forced /\ dim'.sensor \in ActiveSensor => Closer(dim, dim')
         /\ dim'.fNow # dim.fNow => ~dim.forced /\ Closer(dim, dim')
<1> DEFINE s == SensorType(dim)
<1>1. dim \in Dim /\ s \in Dim
  BY SensorTypeInRange DEF Typed
<1>2. s.fNow = dim.fNow /\ s.forced = dim.forced
  BY <1>1 DEF SensorType, Dim
<1>h. HoldOff \in 0..HoldOff /\ RemoteLevel \subseteq Level
  BY DimAssumption
<1> HIDE DEF s
<1>3. PICK d \in Dim : dim' = SwitchDimType(d) /\ d.fNow = dim.fNow /\ d.forced = dim.forced
  <2>1. CASE MsecTask
    <3>1. dim' = SwitchDimType(IF dim.forced THEN dim ELSE s)
      BY <2>1 DEF MsecTask, s
    <3> QED BY <1>1, <1>2, <3>1
  <2>2. CASE MsecTaskMovement
    <3> DEFINE d == [Moved(s) EXCEPT !.ulTimeout = HoldOff]
    <3>1. dim' = SwitchDimType(d)
      BY <2>2 DEF MsecTaskMovement, s
    <3>2. Moved(s) \in Dim /\ Moved(s).fNow = s.fNow /\ Moved(s).forced = s.forced
      BY <1>1, MovedInRange DEF Moved, Dim
    <3>3. d \in Dim /\ d.fNow = s.fNow /\ d.forced = s.forced
      BY <1>h, <3>2 DEF Dim
    <3> HIDE DEF d
    <3> QED BY <1>2, <3>1, <3>3
  <2>3. CASE MsecTaskTurned
    <3>1. PICK level \in RemoteLevel :
            dim' = SwitchDimType([s EXCEPT !.sensor = "eVolume", !.target = level])
      BY <2>3 DEF MsecTaskTurned, s
    <3> DEFINE d == [s EXCEPT !.sensor = "eVolume", !.target = level]
    <3>2. d \in Dim /\ d.fNow = s.fNow /\ d.forced = s.forced
      BY <1>1, <1>h DEF Dim, Sensor
    <3> HIDE DEF d
    <3>3. dim' = SwitchDimType(d)
      BY <3>1 DEF d
    <3> QED BY <1>2, <3>2, <3>3
  <2>4. ASSUME NEW dark \in BOOLEAN, MsecTaskPhoto(dark)
        PROVE  \E d \in Dim :
                 dim' = SwitchDimType(d) /\ d.fNow = dim.fNow /\ d.forced = dim.forced
    <3> DEFINE l == Daylight(s, dark)
               d == [l EXCEPT !.ulTimeout = HoldOff]
    <3>1. dim' = SwitchDimType(d)
      BY <2>4 DEF MsecTaskPhoto, s
    <3>2. l \in Dim /\ l.fNow = s.fNow /\ l.forced = s.forced
      BY <1>1, DaylightInRange DEF Daylight, Dim
    <3> HIDE DEF l
    <3>3. d \in Dim /\ d.fNow = s.fNow /\ d.forced = s.forced
      BY <1>h, <3>2 DEF Dim
    <3> HIDE DEF d
    <3> QED BY <1>2, <3>1, <3>3
  <2> QED BY <2>1, <2>2, <2>3, <2>4 DEF Task
<1> QED BY <1>1, <1>3, CallCloses

LEMMA HandlersKeep ==
  ASSUME Typed, [Next]_vars, ~Task
  PROVE  dim'.fNow = dim.fNow
<1>1. dim \in Dim
  BY DEF Typed
<1>2. CASE RfSensor
  BY <1>1, <1>2 DEF RfSensor, Moved, Dim
<1>3. CASE RfLevel \/ RfRepeat
  BY <1>1, <1>3 DEF RfLevel, RfRepeat, Dim
<1>4. CASE Control \/ NewSet \/ Monitor \/ Search
  BY <1>1, <1>4 DEF Control, NewSet, Monitor, Search, Dim
<1>5. CASE UNCHANGED vars
  BY <1>5 DEF vars
<1> QED BY <1>2, <1>3, <1>4, <1>5 DEF Next, Task

(* Each call of the task brings fNow of a lamp that is not forced to its   *)
(* target, or nearer to it, never past it, and then the lamp shows it;     *)
(* fNow moves in no other way (msecTask, procDim, mSecExe.cpp:51-78).  So  *)
(* fNow is at a target that stays after MaxLevel calls at most.            *)
THEOREM ClosesStepByStep == Spec => [][ClosesIn]_vars
<1>1. Typed /\ [Next]_vars => [ClosesIn]_vars
  BY TaskCloses, HandlersKeep DEF ClosesIn
<1>2. Typed /\ [Next]_vars => Typed'
  BY NextTyped
<1> QED
  BY InitTyped, <1>1, <1>2, PTL DEF Spec
=============================================================================
