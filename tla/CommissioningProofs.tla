------------------------- MODULE CommissioningProofs -------------------------
(***************************************************************************)
(* Proofs about Commissioning, for any lamps, sets, time-out and number of *)
(* frames and power cuts.                                                  *)
(*                                                                         *)
(* Everything is about one lamp: what its program, its page and its radio  *)
(* hold together (LampInv).  Other lamps and the tool reach it only by a   *)
(* frame that its radio takes in while it holds none (Heard).              *)
(***************************************************************************)
EXTENDS Commissioning, RfChannelProofs

GidOrNone == Gid \cup {0, ErasedGid}

Pc ==
  {"main", "look", "dummy", "wait", "addr", "check", "fault", "ctr", "group",
   "erase", "write", "reset", "off"}
Procedure == {"eReadySet", "eWaitGatewayApprove", "eWaitRfSet", "eTimeoutSet"}
Timers == SUBSET (1..SetTimeout)
DevType ==
  [pc : Pc, ram : Sett, timers : Timers, age : 0..SetTimeout, proc : Procedure,
   taken : Frames]
RfType == [on : Place, reg : Place, full : BOOLEAN, buf : Frames]

LEMMA Parts ==
  TypeOK <=>
    /\ dev \in [Lamp -> DevType]
    /\ page \in [Lamp -> Sett \cup {NoSettings}]
    /\ rf \in [Lamp -> RfType]
    /\ tool \in {Normal(g) : g \in Gid}
    /\ sent \in 0..MaxSent
    /\ cuts \in 0..MaxCuts
    /\ mixed \subseteq Lamp
  BY DEF TypeOK, DevType, RfType, Pc, Procedure, Timers

LEMMA PartsNext ==
  ASSUME dev' \in [Lamp -> DevType],
         page' \in [Lamp -> Sett \cup {NoSettings}],
         rf' \in [Lamp -> RfType],
         tool' \in {Normal(g) : g \in Gid},
         sent' \in 0..MaxSent,
         cuts' \in 0..MaxCuts,
         mixed' \subseteq Lamp
  PROVE  TypeOK'
  BY DEF TypeOK, DevType, RfType, Pc, Procedure, Timers

\* A step that changes the place of a lamp's program, and more of it.
LEMMA Goes ==
  ASSUME dev \in [Lamp -> DevType], NEW n \in Lamp, NEW pc \in Pc
  PROVE  /\ [dev[n] EXCEPT !.pc = pc] \in DevType
         /\ [dev EXCEPT ![n].pc = pc] \in [Lamp -> DevType]
  BY DEF DevType

LEMMA GoesWithRam ==
  ASSUME dev \in [Lamp -> DevType], NEW n \in Lamp, NEW pc \in Pc, NEW r \in Sett
  PROVE  [dev EXCEPT ![n].ram = r, ![n].pc = pc] \in [Lamp -> DevType]
  BY DEF DevType

\* Frames and settings keep the types of their fields.
LEMMA FrameType ==
  ASSUME NEW cmd \in Cmds, NEW s,
         s.pid \in Nat, s.role \in Role, s.ctr \in Nat, s.gid \in GidOrNone
  PROVE  Frame(cmd, s) \in Frames
  BY DEF Frame, Frames, GidOrNone

LEMMA SettType ==
  ASSUME NEW s,
         s.pid \in Nat, s.role \in Role, s.ctr \in Nat, s.gid \in GidOrNone
  PROVE  Settings(s) \in Sett
  BY DEF Settings, Sett, GidOrNone

LEMMA BlankType ==
  /\ Blank.pid \in Nat /\ Blank.role \in Role /\ Blank.ctr \in Nat
  /\ Blank.gid \in GidOrNone
  /\ Frame("edSearch", Blank) \in Frames /\ Frame("edBack", Blank) \in Frames
  <1>1. /\ Blank.pid \in Nat /\ Blank.role \in Role /\ Blank.ctr \in Nat
        /\ Blank.gid \in GidOrNone
    BY DEF Blank, Role, GidOrNone
  <1> QED
    BY <1>1, FrameType DEF Cmds

LEMMA ErasedGidType == ErasedGid \in Nat
  BY DEF ErasedGid

\* Where a lamp listens with given settings, and at start-up.
LEMMA StartType ==
  ASSUME NEW s \in Sett
  PROVE  /\ Started(s) \in DevType
         /\ Tuned(s.channel) \in Place
         /\ Listening(s.channel) \in RfType
  <1>1. PICK g \in GidOrNone : s.channel = Normal(g)
    BY DEF Sett, GidOrNone
  <1>2. g \in Nat
    BY ErasedGidType, CommissioningAssumption DEF GidOrNone
  <1>3. Tuned(s.channel) \in Place
    BY <1>1, <1>2, GroupInBand
  <1>4. Started(s) \in DevType
    <2>1. "main" \in Pc /\ "eReadySet" \in Procedure /\ {} \in Timers /\ 0 \in 0..SetTimeout
      BY CommissioningAssumption DEF Pc, Procedure, Timers
    <2> QED
      BY <2>1, BlankType DEF Started, DevType
  <1> QED
    BY <1>3, <1>4, BlankType DEF Listening, RfType

LEMMA InitType == Init => TypeOK
  <1> SUFFICES ASSUME Init PROVE TypeOK
    OBVIOUS
  <1>1. \A n \in Lamp : Settings(Factory[n]) \in Sett
    <2> SUFFICES ASSUME NEW n \in Lamp PROVE Settings(Factory[n]) \in Sett
      OBVIOUS
    <2>1. Factory[n] \in Set /\ Factory[n].gid \in Gid
      BY CommissioningAssumption
    <2> QED
      BY <2>1, SettType DEF Set, GidOrNone
  <1>2. \A n \in Lamp : Settings(Factory[n]).channel = Normal(Factory[n].gid)
    BY DEF Settings
  <1>3. dev \in [Lamp -> DevType] /\ rf \in [Lamp -> RfType]
    BY <1>1, <1>2, StartType DEF Init
  <1>4. page \in [Lamp -> Sett \cup {NoSettings}]
    BY <1>1 DEF Init
  <1> QED
    BY <1>3, <1>4, Parts, CommissioningAssumption DEF Init

-----------------------------------------------------------------------------
\* A frame of the tool, the installer or another lamp, at a lamp's radio.
Heard(n) ==
  \/ UNCHANGED rf[n]
  \/ ~rf[n].full /\ \E f \in Frames : rf'[n] = Received(rf[n], f)

LEMMA HeardType ==
  ASSUME TypeOK, NEW n \in Lamp, Heard(n) PROVE rf'[n] \in RfType
  <1>1. rf[n] \in RfType
    BY Parts
  <1> QED
    BY <1>1 DEF Heard, Received, RfType

LEMMA ToolStep ==
  ASSUME TypeOK, ToolFinds \/ ToolSets \/ InstallerSends
  PROVE  /\ UNCHANGED <<dev, page, cuts, mixed>>
         /\ tool' \in {Normal(g) : g \in Gid}
         /\ sent' \in 0..MaxSent
         /\ DOMAIN rf' = Lamp /\ rf' = [n \in Lamp |-> rf'[n]]
         /\ \A n \in Lamp : Heard(n)
  <1>0. PICK c : \E f \in Frames : ToolSends(c, f)
    <2>1. CASE ToolFinds
      BY <2>1, BlankType DEF ToolFinds
    <2>2. CASE ToolSets
      <3>1. PICK s \in NewSets : ToolSends(tool, Frame("edNewSet", [s EXCEPT !.gid = 0]))
        BY <2>2 DEF ToolSets
      <3>2. s \in Set
        BY CommissioningAssumption
      <3>3. Frame("edNewSet", [s EXCEPT !.gid = 0]) \in Frames
        BY <3>2 DEF Set, Frame, Frames, Cmds
      <3> QED
        BY <3>1, <3>3
    <2>3. CASE InstallerSends
      <3>1. \A s \in NewSets : Frame("edNewSet", s) \in Frames
        <4> SUFFICES ASSUME NEW s \in NewSets PROVE Frame("edNewSet", s) \in Frames
          OBVIOUS
        <4>1. s \in Set /\ s.gid \in Gid
          BY CommissioningAssumption
        <4> QED
          BY <4>1 DEF Set, Frame, Frames, Cmds
      <3> QED
        BY <2>3, <3>1, BlankType DEF InstallerSends
    <2> QED
      BY <2>1, <2>2, <2>3
  <1>1. PICK f \in Frames : ToolSends(c, f)
    BY <1>0
  <1>2. tool' \in {Normal(g) : g \in Gid}
    BY Parts DEF ToolFinds, ToolSets, InstallerSends
  <1>3. sent' \in 0..MaxSent
    BY <1>1, Parts, CommissioningAssumption DEF ToolSends
  <1>4. PICK heard \in SUBSET Listeners(Tuned(c)) :
          rf' = [n \in Lamp |-> IF n \in heard THEN Received(rf[n], f) ELSE rf[n]]
    BY <1>1 DEF ToolSends
  <1>5. ASSUME NEW n \in Lamp PROVE Heard(n)
    BY <1>4 DEF Heard, Listeners
  <1>6. UNCHANGED <<dev, page, cuts, mixed>>
    BY <1>1 DEF ToolSends
  <1> QED
    BY <1>2, <1>3, <1>4, <1>5, <1>6


\* What a lamp sends reaches the others, and takes its own radio down and up.
LEMMA SendStep ==
  ASSUME TypeOK, NEW n \in Lamp, NEW f \in Frames, Sends(n, f)
  PROVE  /\ rf' \in [Lamp -> RfType]
         /\ rf'[n] = [rf[n] EXCEPT !.on = rf[n].reg, !.full = FALSE]
         /\ \A m \in Lamp \ {n} : Heard(m)
  <1>1. PICK heard \in SUBSET (Listeners(rf[n].reg) \ {n}) :
          rf' = [m \in Lamp |->
            IF m = n THEN [rf[n] EXCEPT !.on = rf[n].reg, !.full = FALSE]
            ELSE IF m \in heard THEN Received(rf[m], f) ELSE rf[m]]
    BY DEF Sends
  <1>2. \A m \in Lamp \ {n} : Heard(m)
    BY <1>1 DEF Heard, Listeners
  <1>3. rf'[n] = [rf[n] EXCEPT !.on = rf[n].reg, !.full = FALSE]
    BY <1>1
  <1>4. rf'[n] \in RfType
    BY <1>3, Parts DEF RfType
  <1>5. \A m \in Lamp : rf'[m] \in RfType
    BY <1>2, <1>4, HeardType
  <1> QED
    BY <1>1, <1>2, <1>3, <1>5

LEMMA NextType == TypeOK /\ [Next]_vars => TypeOK'
  <1> SUFFICES ASSUME TypeOK, [Next]_vars PROVE TypeOK'
    OBVIOUS
  <1>0. /\ dev \in [Lamp -> DevType] /\ rf \in [Lamp -> RfType]
        /\ page \in [Lamp -> Sett \cup {NoSettings}]
        /\ tool \in {Normal(g) : g \in Gid}
        /\ sent \in 0..MaxSent /\ cuts \in 0..MaxCuts /\ mixed \subseteq Lamp
    BY Parts
  <1> USE CommissioningAssumption
  <1>1. CASE ToolFinds \/ ToolSets \/ InstallerSends
    <2>1. rf' \in [Lamp -> RfType]
      BY <1>1, ToolStep, HeardType
    <2> QED
      BY <1>0, <1>1, <2>1, ToolStep, PartsNext
  <1>2. CASE Second
    <2>1. ASSUME NEW n \in Lamp
          PROVE  dev'[n] \in DevType
      <3>1. /\ dev[n] \in DevType
            /\ dev'[n] = [dev[n] EXCEPT
                 !.timers = {t - 1 : t \in @} \ {0},
                 !.proc = IF 1 \in dev[n].timers THEN "eTimeoutSet" ELSE @,
                 !.age = IF At(n, "wait") /\ @ < SetTimeout THEN @ + 1 ELSE @]
        BY <1>0, <1>2 DEF Second
      <3>2. {t - 1 : t \in dev[n].timers} \ {0} \in Timers
        BY <3>1 DEF DevType, Timers
      <3>3. (IF At(n, "wait") /\ dev[n].age < SetTimeout THEN dev[n].age + 1
                                                        ELSE dev[n].age) \in 0..SetTimeout
        BY <3>1 DEF DevType
      <3>4. "eTimeoutSet" \in Procedure
        BY DEF Procedure
      <3>5. PICK ti \in Timers, pr \in Procedure, a \in 0..SetTimeout :
              dev'[n] = [dev[n] EXCEPT !.timers = ti, !.proc = pr, !.age = a]
        <4>1. (IF 1 \in dev[n].timers THEN "eTimeoutSet" ELSE dev[n].proc) \in Procedure
          BY <3>1, <3>4 DEF DevType
        <4> QED
          BY <3>1, <3>2, <3>3, <4>1
      <3> QED
        BY <3>1, <3>5 DEF DevType
    <2>2. dev' \in [Lamp -> DevType]
      BY <1>2, <2>1 DEF Second
    <2> QED
      BY <1>0, <1>2, <2>2, PartsNext DEF Second
  <1>3. ASSUME NEW n \in Lamp, SearchRf(n) PROVE TypeOK'
    <2>1. dev' \in [Lamp -> DevType]
      <3>1. dev' = [dev EXCEPT ![n].pc = "dummy", ![n].proc = "eWaitGatewayApprove",
                               ![n].timers = {SetTimeout}, ![n].age = 0]
        BY <1>3 DEF SearchRf, Attach
      <3>2. /\ "dummy" \in Pc /\ "eWaitGatewayApprove" \in Procedure
            /\ {SetTimeout} \in Timers /\ 0 \in 0..SetTimeout
        BY DEF Pc, Procedure, Timers
      <3>3. [dev[n] EXCEPT !.pc = "dummy", !.proc = "eWaitGatewayApprove",
                           !.timers = {SetTimeout}, !.age = 0] \in DevType
        BY <1>0, <3>2 DEF DevType
      <3>4. dev' = [dev EXCEPT ![n] = [dev[n] EXCEPT !.pc = "dummy",
                      !.proc = "eWaitGatewayApprove", !.timers = {SetTimeout}, !.age = 0]]
        BY <1>0, <3>1
      <3> QED
        BY <1>0, <3>3, <3>4
    <2>2. rf' \in [Lamp -> RfType]
      BY <1>0, <1>3, SetupInBand DEF SearchRf, RfType
    <2> QED
      BY <1>0, <1>3, <2>1, <2>2, PartsNext DEF SearchRf
  <1>4. ASSUME NEW n \in Lamp, SendDummy(n) PROVE TypeOK'
    <2>1. dev' \in [Lamp -> DevType]
      <3>1. dev' = [dev EXCEPT ![n].pc = "wait", ![n].proc = "eWaitRfSet"]
        BY <1>4 DEF SendDummy
      <3>2. "wait" \in Pc /\ "eWaitRfSet" \in Procedure
        BY DEF Pc, Procedure
      <3> QED
        BY <1>0, <3>1, <3>2, ZenonT(30) DEF DevType
    <2>2. dev[n].ram \in Sett
      BY <1>0 DEF DevType
    <2>3. Frame("edDummy", [dev[n].ram EXCEPT !.gid = ErasedGid]) \in Frames
      BY <2>2 DEF Sett, Frame, Frames, Cmds
    <2>4. rf' \in [Lamp -> RfType]
      BY <1>4, <2>3, SendStep DEF SendDummy, Announce
    <2> QED
      BY <1>0, <1>4, <2>1, <2>4, PartsNext DEF SendDummy
  <1>5. ASSUME NEW n \in Lamp, WaitRound(n) PROVE TypeOK'
    <2>1. rf[n].buf \in Frames
      BY <1>0 DEF RfType
    <2>2. dev' \in [Lamp -> DevType]
      <3>1. PICK d : /\ dev' = [dev EXCEPT ![n] = d]
                     /\ \/ d = [dev[n] EXCEPT !.pc = "addr", !.taken = rf[n].buf]
                        \/ d = [dev[n] EXCEPT !.proc = "eReadySet"]
                        \/ d = dev[n]
        BY <1>0, <1>5 DEF WaitRound
      <3>2. "addr" \in Pc /\ "eReadySet" \in Procedure /\ dev[n] \in DevType
        BY <1>0 DEF Pc, Procedure
      <3>3. d \in DevType
        BY <2>1, <3>1, <3>2 DEF DevType
      <3> QED
        BY <1>0, <3>1, <3>3
    <2>3. rf' \in [Lamp -> RfType]
      BY <1>0, <1>5 DEF WaitRound, Polled, RfType
    <2> QED
      BY <1>0, <1>5, <2>2, <2>3, PartsNext DEF WaitRound
  <1>6. ASSUME NEW n \in Lamp, EndWait(n) PROVE TypeOK'
    <2>1. dev' \in [Lamp -> DevType]
      BY <1>0, <1>6, Goes DEF EndWait, Go, Pc
    <2>2. dev[n].ram \in Sett
      BY <1>0 DEF DevType
    <2>3. rf' \in [Lamp -> RfType]
      BY <1>0, <1>6, <2>2, StartType DEF EndWait, ChangeBack, RfType
    <2> QED
      BY <1>0, <1>6, <2>1, <2>3, PartsNext DEF EndWait
  <1>7. ASSUME NEW n \in Lamp, Poll(n) \/ Ignores(n) \/ SendOwn(n) PROVE TypeOK'
    <2>1. rf' \in [Lamp -> RfType]
      <3>1. CASE Poll(n)
        BY <1>0, <3>1 DEF Poll, Polled, RfType
      <3>2. CASE SendOwn(n)
        BY <1>0, <3>2 DEF SendOwn, RfType
      <3>3. CASE Ignores(n)
        BY <1>0, <3>3 DEF Ignores
      <3> QED
        BY <1>7, <3>1, <3>2, <3>3
    <2>2. dev' \in [Lamp -> DevType]
      <3>1. "look" \in Pc /\ "main" \in Pc
        BY DEF Pc
      <3> QED
        BY <1>0, <1>7, <3>1, Goes DEF Poll, Ignores, SendOwn, Go
    <2> QED
      BY <1>0, <1>7, <2>1, <2>2, PartsNext DEF Poll, Ignores, SendOwn
  <1>8. ASSUME NEW n \in Lamp, SetAddr(n) \/ SetCheck(n) \/ SetCtr(n) \/ SetGroup(n)
        PROVE  TypeOK'
    <2>1. rf[n].buf \in Frames /\ dev[n] \in DevType /\ dev[n].ram \in Sett
      BY <1>0 DEF RfType, DevType
    <2>3. \E r \in Sett, pc \in Pc : dev' = [dev EXCEPT ![n].ram = r, ![n].pc = pc]
      <3>1. CASE SetAddr(n)
        <4>1. [dev[n].ram EXCEPT !.pid = rf[n].buf.pid, !.role = rf[n].buf.role] \in Sett
          BY <2>1 DEF Frames, Sett
        <4> QED
          <5>1. dev' = [dev EXCEPT
                  ![n].ram = [dev[n].ram EXCEPT !.pid = rf[n].buf.pid,
                                                !.role = rf[n].buf.role],
                  ![n].pc = "check"]
            BY <1>0, <3>1, ZenonT(30) DEF SetAddr
          <5> QED
            BY <4>1, <5>1 DEF Pc
      <3>4. CASE SetCheck(n)
        <4> DEFINE role == rf[n].buf.role
                   fitted == IF FittingRole(Sensor[n], role) # role THEN "eRx"
                             ELSE dev[n].ram.role
        <4>1. [dev[n].ram EXCEPT !.role = fitted] \in Sett
          <5>1. fitted \in Role
            BY <2>1 DEF Role, Sett
          <5> HIDE DEF fitted
          <5> QED BY <2>1, <5>1 DEF Sett
        <4>2. (IF Faulty(Sensor[n], role) THEN "fault" ELSE "ctr") \in Pc
          BY DEF Pc
        <4>3. dev' = [dev EXCEPT
                ![n].ram = [dev[n].ram EXCEPT !.role = fitted],
                ![n].pc = IF Faulty(Sensor[n], role) THEN "fault" ELSE "ctr"]
          BY <1>0, <3>4, ZenonT(30) DEF SetCheck
        <4> HIDE DEF fitted, role
        <4> QED
          BY <4>1, <4>2, <4>3
      <3>2. CASE SetCtr(n)
        <4>1. [dev[n].ram EXCEPT !.ctr = rf[n].buf.ctr] \in Sett
          BY <2>1 DEF Frames, Sett
        <4> QED
          BY <1>0, <3>2, <4>1 DEF SetCtr, Pc
      <3>3. CASE SetGroup(n)
        <4>1. InGroup(dev[n].ram, rf[n].buf.gid) \in Sett
          BY <2>1 DEF InGroup, Frames, Sett
        <4> QED
          BY <1>0, <3>3, <4>1 DEF SetGroup, Pc
      <3> QED
        BY <1>8, <3>1, <3>2, <3>3, <3>4
    <2>4. dev' \in [Lamp -> DevType]
      <3>1. PICK r \in Sett, pc \in Pc : dev' = [dev EXCEPT ![n].ram = r, ![n].pc = pc]
        BY <2>3
      <3> QED
        BY <1>0, <3>1, GoesWithRam
    <2> QED
      BY <1>0, <1>8, <2>4, PartsNext DEF SetAddr, SetCheck, SetCtr, SetGroup, SetStep
  <1>9. ASSUME NEW n \in Lamp, EraseFlash(n) \/ WriteFlash(n) PROVE TypeOK'
    <2>1. dev' \in [Lamp -> DevType]
      <3>1. "write" \in Pc /\ "reset" \in Pc
        BY DEF Pc
      <3> QED
        BY <1>0, <1>9, <3>1, Goes DEF EraseFlash, WriteFlash, Go
    <2>2. dev[n].ram \in Sett
      BY <1>0 DEF DevType
    <2>3. page' \in [Lamp -> Sett \cup {NoSettings}]
      BY <1>0, <1>9, <2>2 DEF EraseFlash, WriteFlash
    <2>4. mixed' \subseteq Lamp
      BY <1>0, <1>9 DEF EraseFlash, WriteFlash
    <2> QED
      BY <1>0, <1>9, <2>1, <2>3, <2>4, PartsNext DEF EraseFlash, WriteFlash, SetStep
  <1>10. ASSUME NEW n \in Lamp, Boot(n) PROVE TypeOK'
    <2>1. Factory[n] \in Set /\ Factory[n].gid \in Gid
      OBVIOUS
    <2>2. Settings(Factory[n]) \in Sett
      BY <2>1, SettType DEF Set, GidOrNone
    <2>3. PICK s \in Sett : /\ page' = [page EXCEPT ![n] = s]
                            /\ dev' = [dev EXCEPT ![n] = Started(s)]
                            /\ rf' = [rf EXCEPT ![n] = Listening(s.channel)]
      BY <1>0, <1>10, <2>2 DEF Boot
    <2> QED
      BY <1>0, <1>10, <2>3, StartType, PartsNext DEF Boot
  <1>11. ASSUME NEW n \in Lamp, PowerCut(n) PROVE TypeOK'
    <2>1. dev' \in [Lamp -> DevType]
      <3>1. "off" \in Pc
        BY DEF Pc
      <3> QED
        BY <1>0, <1>11, <3>1, Goes DEF PowerCut, Go
    <2> QED
      BY <1>0, <1>11, <2>1, PartsNext DEF PowerCut
  <1>12. CASE UNCHANGED vars
    BY <1>0, <1>12, PartsNext DEF vars
  <1> QED
    BY <1>1, <1>2, <1>3, <1>4, <1>5, <1>6, <1>7, <1>8, <1>9, <1>10, <1>11, <1>12
    DEF Next

(* Settings, registers and timers stay well typed whatever is received:    *)
(* no lamp saves the setup channel as its own.                             *)
THEOREM TypeCorrect == Spec => []TypeOK
  BY InitType, NextType, PTL DEF Spec

-----------------------------------------------------------------------------
(* What holds of one lamp.                                                 *)

\* On its way to the setup channel, and there.
ChannelInv(n) ==
  /\ At(n, "dummy") => rf[n].reg = Tuned(Setup)
  /\ At(n, "wait") => rf[n].on = Tuned(Setup)
  /\ At(n, "main") \/ At(n, "look") => rf[n].reg = Tuned(dev[n].ram.channel)

\* A role that a set can leave behind.
RoleFits(n, role) ==
  ~Faulty(Sensor[n], role) /\ FittingRole(Sensor[n], role) = role

\* As long as nothing came in after the set, what was read is the set.
Alone(n) == rf[n].buf = dev[n].taken

RoleInv(n) ==
  /\ dev[n].pc \in {"ctr", "group", "erase", "write"} /\ Alone(n) =>
       RoleFits(n, dev[n].ram.role)
  /\ page[n] = NoSettings \/ n \in mixed \/ RoleFits(n, page[n].role)

\* One timer runs while a lamp waits, and it is that of this wait.
TimerInv(n) ==
  /\ At(n, "dummy") => dev[n].timers = {SetTimeout} /\ dev[n].age = 0
  /\ At(n, "wait") =>
       /\ dev[n].proc = "eTimeoutSet" <=> dev[n].age = SetTimeout
       /\ dev[n].age < SetTimeout => dev[n].timers = {SetTimeout - dev[n].age}
       /\ dev[n].age = SetTimeout => dev[n].timers = {}

SetInv(n) ==
  /\ dev[n].pc \in {"addr", "check", "ctr", "group", "erase", "write", "reset"} =>
       rf[n].full \/ Alone(n)
  /\ At(n, "check") /\ Alone(n) => dev[n].ram.role = dev[n].taken.role
  /\ dev[n].pc \in {"check", "ctr", "group", "erase", "write", "reset"} /\ Alone(n) =>
       dev[n].ram.pid = dev[n].taken.pid
  /\ dev[n].pc \in {"ctr", "group", "erase", "write", "reset"} /\ Alone(n) =>
       dev[n].ram.role = FittingRole(Sensor[n], dev[n].taken.role)
  /\ dev[n].pc \in {"group", "erase", "write", "reset"} /\ Alone(n) =>
       dev[n].ram.ctr = dev[n].taken.ctr
  /\ dev[n].pc \in {"erase", "write", "reset"} /\ Alone(n) =>
       /\ dev[n].ram.gid = dev[n].taken.gid
       /\ dev[n].ram.channel = Normal(dev[n].taken.gid)
  /\ At(n, "reset") => page[n] = dev[n].ram

LampInv(n) == ChannelInv(n) /\ RoleInv(n) /\ TimerInv(n) /\ SetInv(n)

IInv == TypeOK /\ \A n \in Lamp : LampInv(n)

-----------------------------------------------------------------------------
LEMMA FactoryFits ==
  ASSUME NEW n \in Lamp PROVE RoleFits(n, Settings(Factory[n]).role)
  BY FactoryAssumption DEF RoleFits, Settings

LEMMA InitInv == Init => IInv
  <1> SUFFICES ASSUME Init, NEW n \in Lamp PROVE LampInv(n)
    BY InitType DEF IInv
  <1>1. /\ dev[n].pc = "main" /\ dev[n].ram = Settings(Factory[n])
        /\ page[n] = Settings(Factory[n])
    BY DEF Init, Started
  <1>2. rf[n].reg = Tuned(dev[n].ram.channel)
    BY <1>1 DEF Init, Listening, Settings
  <1> QED
    BY <1>1, <1>2, FactoryFits DEF LampInv, ChannelInv, RoleInv, TimerInv, SetInv, At

\* A lamp that does nothing itself, and at most hears a frame.
LEMMA QuietLamp ==
  ASSUME TypeOK, NEW n \in Lamp, LampInv(n),
         UNCHANGED dev[n], UNCHANGED page[n], Heard(n), (n \in mixed)' <=> n \in mixed
  PROVE  LampInv(n)'
  <1>1. rf[n] \in RfType
    BY Parts
  <1>2. rf'[n].on = rf[n].on /\ rf'[n].reg = rf[n].reg
    BY <1>1 DEF Heard, Received, RfType
  <1>3. (rf'[n].full = rf[n].full /\ rf'[n].buf = rf[n].buf) \/ (~rf[n].full /\ rf'[n].full)
    BY <1>1 DEF Heard, Received, RfType
  <1>4. ChannelInv(n)' /\ TimerInv(n)'
    BY <1>2 DEF LampInv, ChannelInv, TimerInv, At
  <1>5. SetInv(n)' /\ RoleInv(n)'
    BY <1>3 DEF LampInv, SetInv, RoleInv, RoleFits, Alone, At
  <1> QED
    BY <1>4, <1>5 DEF LampInv

\* Time, at each lamp: the timer and the age of the wait keep pace.
LEMMA SecondInv ==
  ASSUME TypeOK, NEW n \in Lamp, LampInv(n), Second
  PROVE  LampInv(n)'
  <1>1. /\ dev[n] \in DevType /\ UNCHANGED <<rf, page, mixed>>
        /\ dev[n].pc \in {"main", "wait", "fault", "off"}
        /\ dev'[n] = [dev[n] EXCEPT
             !.timers = {t - 1 : t \in @} \ {0},
             !.proc = IF 1 \in dev[n].timers THEN "eTimeoutSet" ELSE @,
             !.age = IF At(n, "wait") /\ @ < SetTimeout THEN @ + 1 ELSE @]
    BY Parts DEF Second
  <1>2. /\ dev'[n].pc = dev[n].pc /\ dev'[n].ram = dev[n].ram
        /\ dev'[n].timers = {t - 1 : t \in dev[n].timers} \ {0}
        /\ dev'[n].proc = IF 1 \in dev[n].timers THEN "eTimeoutSet" ELSE dev[n].proc
        /\ dev'[n].age = IF At(n, "wait") /\ dev[n].age < SetTimeout THEN dev[n].age + 1
                                                                     ELSE dev[n].age
    BY <1>1 DEF DevType
  <1>3. ChannelInv(n)' /\ RoleInv(n)' /\ SetInv(n)'
    BY <1>1, <1>2 DEF LampInv, ChannelInv, RoleInv, RoleFits, SetInv, Alone, At
  <1>4. ASSUME At(n, "wait") PROVE TimerInv(n)'
    <2>1. /\ dev[n].age \in 0..SetTimeout
          /\ dev[n].proc = "eTimeoutSet" <=> dev[n].age = SetTimeout
          /\ dev[n].age < SetTimeout => dev[n].timers = {SetTimeout - dev[n].age}
          /\ dev[n].age = SetTimeout => dev[n].timers = {}
      BY <1>1, <1>4 DEF LampInv, TimerInv, DevType
    <2>2. CASE dev[n].age = SetTimeout
      <3>1. dev'[n].timers = {} /\ dev'[n].age = SetTimeout /\ dev'[n].proc = "eTimeoutSet"
        BY <1>2, <2>1, <2>2, CommissioningAssumption
      <3>2. ~(dev'[n].age < SetTimeout) /\ dev'[n].pc = "wait"
        BY <1>2, <1>4, <3>1, CommissioningAssumption DEF At
      <3> QED
        BY <3>1, <3>2 DEF TimerInv, At
    <2>3. CASE dev[n].age < SetTimeout
      <3>1. dev'[n].age = dev[n].age + 1 /\ dev[n].timers = {SetTimeout - dev[n].age}
        BY <1>2, <1>4, <2>1, <2>3
      <3>2. dev'[n].timers = {SetTimeout - dev'[n].age} \ {0}
        BY <1>2, <2>1, <3>1, CommissioningAssumption
      <3>3. dev'[n].proc = "eTimeoutSet" <=> dev'[n].age = SetTimeout
        BY <1>2, <2>1, <2>3, <3>1, CommissioningAssumption
      <3>4. /\ dev'[n].age < SetTimeout => dev'[n].timers = {SetTimeout - dev'[n].age}
            /\ dev'[n].age = SetTimeout => dev'[n].timers = {}
        BY <2>1, <3>1, <3>2, CommissioningAssumption
      <3> QED
        BY <1>2, <1>4, <3>3, <3>4 DEF TimerInv, At
    <2> QED
      BY <2>1, <2>2, <2>3, CommissioningAssumption
  <1>5. ASSUME ~At(n, "wait") PROVE TimerInv(n)'
    BY <1>1, <1>2, <1>5 DEF TimerInv, At
  <1> QED
    BY <1>3, <1>4, <1>5 DEF LampInv

\* The step of a lamp in a session, or in its main loop.
LEMMA SessionInv ==
  ASSUME TypeOK, NEW n \in Lamp, LampInv(n),
         \/ Poll(n) \/ SearchRf(n) \/ Ignores(n) \/ SendDummy(n) \/ WaitRound(n)
         \/ EndWait(n) \/ SendOwn(n)
  PROVE  LampInv(n)'
  <1> USE DEF LampInv, ChannelInv, RoleInv, RoleFits, TimerInv, SetInv, Alone, At
  <1>0. dev \in [Lamp -> DevType] /\ rf \in [Lamp -> RfType]
    BY Parts
  <1>1. CASE SearchRf(n)
    <2>1. /\ dev'[n].pc = "dummy" /\ dev'[n].ram = dev[n].ram
          /\ dev'[n].timers = {SetTimeout} /\ dev'[n].age = 0
      BY <1>0, <1>1 DEF SearchRf, Attach, DevType
    <2>2. rf'[n].reg = Tuned(Setup)
      BY <1>0, <1>1 DEF SearchRf, RfType
    <2> QED
      BY <1>1, <2>1, <2>2 DEF SearchRf
  <1>2. CASE Poll(n) \/ Ignores(n) \/ SendOwn(n)
    <2>1. /\ UNCHANGED <<page, mixed>> /\ dev[n].pc \in {"main", "look"}
          /\ dev'[n].pc \in {"main", "look"} /\ dev'[n].ram = dev[n].ram
          /\ rf'[n].reg = rf[n].reg
      BY <1>0, <1>2 DEF Poll, Ignores, SendOwn, Polled, Go, DevType, RfType
    <2> QED
      BY <2>1
  <1>3. CASE SendDummy(n)
    <2>1. /\ dev'[n].pc = "wait" /\ dev'[n].ram = dev[n].ram /\ dev'[n].proc = "eWaitRfSet"
          /\ dev'[n].timers = dev[n].timers /\ dev'[n].age = dev[n].age
      BY <1>0, <1>3 DEF SendDummy, DevType
    <2>2. PICK f : Sends(n, f)
      BY <1>3 DEF SendDummy, Announce
    <2>3. rf'[n] = [rf[n] EXCEPT !.on = rf[n].reg, !.full = FALSE]
      BY <2>2 DEF Sends
    <2>4. rf'[n].on = rf[n].reg
      BY <1>0, <2>3 DEF RfType
    <2>5. UNCHANGED <<page, mixed>> /\ dev[n].pc = "dummy"
      BY <1>3 DEF SendDummy
    <2>6. ChannelInv(n)' /\ RoleInv(n)' /\ SetInv(n)'
      BY <2>1, <2>4, <2>5
    <2>7. dev[n].timers = {SetTimeout} /\ dev[n].age = 0
      BY <2>5
    <2>8. /\ 0 < SetTimeout /\ SetTimeout - 0 = SetTimeout
      BY CommissioningAssumption
    <2>9. TimerInv(n)'
      BY <2>1, <2>7, <2>8
    <2> QED
      BY <2>6, <2>9
  <1>4. CASE WaitRound(n)
    <2>1. /\ UNCHANGED <<page, mixed>> /\ dev[n].pc = "wait" /\ dev[n].proc = "eWaitRfSet"
          /\ rf' = [rf EXCEPT ![n].full = FALSE]
          /\ \/ dev'[n] = [dev[n] EXCEPT !.pc = "addr", !.taken = rf[n].buf]
             \/ dev'[n] = [dev[n] EXCEPT !.proc = "eReadySet"]
             \/ dev'[n] = dev[n]
      BY <1>0, <1>4 DEF WaitRound, Polled
    <2>2. /\ rf'[n].on = rf[n].on /\ rf'[n].reg = rf[n].reg /\ rf'[n].buf = rf[n].buf
      BY <1>0, <2>1 DEF RfType
    <2>3. CASE dev'[n] = [dev[n] EXCEPT !.pc = "addr", !.taken = rf[n].buf]
      <3>1. /\ dev'[n].pc = "addr" /\ dev'[n].ram = dev[n].ram /\ dev'[n].taken = rf[n].buf
        BY <1>0, <2>3 DEF DevType
      <3> QED
        BY <2>1, <2>2, <3>1
    <2>4. CASE dev'[n] = [dev[n] EXCEPT !.proc = "eReadySet"]
      <3>1. /\ dev'[n].pc = "wait" /\ dev'[n].ram = dev[n].ram
            /\ dev'[n].proc = "eReadySet"
            /\ dev'[n].timers = dev[n].timers /\ dev'[n].age = dev[n].age
        BY <1>0, <2>1, <2>4 DEF DevType
      <3> QED
        BY <2>1, <2>2, <3>1
    <2>5. CASE dev'[n] = dev[n]
      BY <2>1, <2>2, <2>5
    <2> QED
      BY <2>1, <2>3, <2>4, <2>5
  <1>5. CASE EndWait(n)
    <2>1. dev'[n].pc = "main" /\ dev'[n].ram = dev[n].ram
      BY <1>0, <1>5 DEF EndWait, Go, DevType
    <2>2. rf'[n].reg = Tuned(dev[n].ram.channel)
      BY <1>0, <1>5 DEF EndWait, ChangeBack, RfType
    <2> QED
      BY <1>5, <2>1, <2>2 DEF EndWait
  <1> QED
    BY <1>1, <1>2, <1>3, <1>4, <1>5

\* A role that a set carries, once it passed the test of processCmdNewSet.
LEMMA FittingFits ==
  ASSUME NEW n \in Lamp, NEW role, ~Faulty(Sensor[n], role)
  PROVE  RoleFits(n, FittingRole(Sensor[n], role))
  BY DEF RoleFits, Faulty, FittingRole

\* processCmdNewSet, the save and the start.
LEMMA SetStepInv ==
  ASSUME TypeOK, NEW n \in Lamp, LampInv(n),
         \/ SetAddr(n) \/ SetCheck(n) \/ SetCtr(n) \/ SetGroup(n)
         \/ EraseFlash(n) \/ WriteFlash(n)
  PROVE  LampInv(n)'
  <1> USE DEF LampInv, ChannelInv, RoleInv, TimerInv, SetInv, Alone, At
  <1>0. /\ dev \in [Lamp -> DevType] /\ dev[n] \in DevType /\ dev[n].ram \in Sett
        /\ page \in [Lamp -> Sett \cup {NoSettings}]
    BY Parts DEF DevType
  <1>1. CASE SetAddr(n)
    <2>1. /\ UNCHANGED <<rf, page, mixed>> /\ dev[n].pc = "addr" /\ dev'[n].pc = "check"
          /\ dev'[n].ram.pid = rf[n].buf.pid /\ dev'[n].ram.role = rf[n].buf.role
          /\ dev'[n].taken = dev[n].taken
      BY <1>0, <1>1 DEF SetAddr, SetStep, DevType, Sett
    <2> QED
      BY <2>1
  <1>5. CASE SetCheck(n)
    <2> DEFINE role == rf[n].buf.role
    <2>1. /\ UNCHANGED <<rf, page, mixed>> /\ dev[n].pc = "check"
          /\ dev'[n].pc = IF Faulty(Sensor[n], role) THEN "fault" ELSE "ctr"
          /\ dev'[n].ram.role = IF FittingRole(Sensor[n], role) # role THEN "eRx"
                                ELSE dev[n].ram.role
          /\ dev'[n].ram.pid = dev[n].ram.pid
          /\ dev'[n].taken = dev[n].taken
      BY <1>0, <1>5 DEF SetCheck, SetStep, DevType, Sett
    <2>2. FittingRole(Sensor[n], role) # role => FittingRole(Sensor[n], role) = "eRx"
      BY DEF FittingRole
    <2>3. Alone(n) => dev'[n].ram.role = FittingRole(Sensor[n], role)
      BY <2>1, <2>2
    <2>4. Alone(n) /\ dev'[n].pc # "fault" => RoleFits(n, dev'[n].ram.role)
      BY <2>1, <2>3, FittingFits
    <2> QED
      BY <2>1, <2>3, <2>4 DEF RoleFits
  <1>2. CASE SetCtr(n)
    <2>1. /\ UNCHANGED <<rf, page, mixed>> /\ dev[n].pc = "ctr"
          /\ dev'[n].pc = "group" /\ dev'[n].taken = dev[n].taken
          /\ dev'[n].ram = [dev[n].ram EXCEPT !.ctr = rf[n].buf.ctr]
      BY <1>0, <1>2 DEF SetCtr, SetStep, DevType
    <2>2. /\ dev'[n].ram.pid = dev[n].ram.pid /\ dev'[n].ram.role = dev[n].ram.role
          /\ dev'[n].ram.ctr = rf[n].buf.ctr
      BY <1>0, <2>1 DEF Sett
    <2> QED
      BY <2>1, <2>2 DEF RoleFits
  <1>3. CASE SetGroup(n)
    <2>1. /\ UNCHANGED <<rf, page, mixed>> /\ dev[n].pc = "group"
          /\ dev'[n].pc = "erase" /\ dev'[n].taken = dev[n].taken
          /\ dev'[n].ram = [dev[n].ram EXCEPT !.gid = rf[n].buf.gid,
                                              !.channel = Normal(rf[n].buf.gid)]
      BY <1>0, <1>3 DEF SetGroup, SetStep, InGroup, DevType
    <2>2. /\ dev'[n].ram.pid = dev[n].ram.pid /\ dev'[n].ram.role = dev[n].ram.role
          /\ dev'[n].ram.ctr = dev[n].ram.ctr /\ dev'[n].ram.gid = rf[n].buf.gid
          /\ dev'[n].ram.channel = Normal(rf[n].buf.gid)
      BY <1>0, <2>1 DEF Sett
    <2> QED
      BY <2>1, <2>2 DEF RoleFits
  <1>4. CASE EraseFlash(n) \/ WriteFlash(n)
    <2>1. /\ UNCHANGED rf /\ dev[n].pc \in {"erase", "write"}
          /\ dev'[n].ram = dev[n].ram /\ dev'[n].taken = dev[n].taken
          /\ \/ dev'[n].pc = "write" /\ page'[n] = NoSettings
             \/ /\ dev[n].pc = "write" /\ dev'[n].pc = "reset" /\ page'[n] = dev[n].ram
                /\ Alone(n) \/ n \in mixed'
      BY <1>0, <1>4 DEF EraseFlash, WriteFlash, SetStep, Go, DevType
    <2> QED
      BY <2>1 DEF RoleFits
  <1> QED
    BY <1>1, <1>2, <1>3, <1>4, <1>5

LEMMA BootInv ==
  ASSUME TypeOK, NEW n \in Lamp, LampInv(n), Boot(n) \/ PowerCut(n)
  PROVE  LampInv(n)'
  <1> USE DEF LampInv, ChannelInv, RoleInv, TimerInv, SetInv, At
  <1>0. /\ dev \in [Lamp -> DevType] /\ rf \in [Lamp -> RfType]
        /\ page \in [Lamp -> Sett \cup {NoSettings}]
    BY Parts
  <1>1. CASE Boot(n)
    <2>1. PICK s : /\ s = IF page[n] = NoSettings THEN Settings(Factory[n]) ELSE page[n]
                   /\ page'[n] = s /\ dev'[n] = Started(s) /\ mixed' = mixed
      BY <1>0, <1>1 DEF Boot
    <2>2. n \in mixed \/ RoleFits(n, s.role)
      BY <2>1, FactoryFits
    <2>3. dev'[n].pc = "main" /\ dev'[n].ram = s
      BY <2>1 DEF Started
    <2>4. rf'[n].reg = Tuned(s.channel)
      BY <1>0, <1>1, <2>1 DEF Boot, Listening
    <2> QED
      BY <2>1, <2>2, <2>3, <2>4 DEF RoleFits
  <1>2. CASE PowerCut(n)
    <2>1. dev'[n].pc = "off" /\ UNCHANGED <<page, mixed>>
      BY <1>0, <1>2 DEF PowerCut, Go, DevType
    <2> QED
      BY <2>1 DEF RoleFits
  <1> QED
    BY <1>1, <1>2

\* A step of one lamp is at most a frame to another.
LEMMA OthersQuiet ==
  ASSUME TypeOK, NEW n \in Lamp, NEW m \in Lamp, m # n,
         \/ Poll(n) \/ SearchRf(n) \/ Ignores(n) \/ SendDummy(n) \/ WaitRound(n)
         \/ EndWait(n) \/ SendOwn(n) \/ SetAddr(n) \/ SetCheck(n) \/ SetCtr(n)
         \/ SetGroup(n) \/ EraseFlash(n) \/ WriteFlash(n) \/ Boot(n) \/ PowerCut(n)
  PROVE  /\ UNCHANGED dev[m] /\ UNCHANGED page[m] /\ Heard(m)
         /\ (m \in mixed)' <=> m \in mixed
  <1>0. /\ dev \in [Lamp -> DevType] /\ rf \in [Lamp -> RfType]
        /\ page \in [Lamp -> Sett \cup {NoSettings}]
    BY Parts
  <1>1. CASE Poll(n) \/ SearchRf(n) \/ Ignores(n) \/ WaitRound(n) \/ EndWait(n) \/ SendOwn(n)
    BY <1>0, <1>1
    DEF Poll, SearchRf, Ignores, WaitRound, EndWait, SendOwn, Go, Polled, ChangeBack, Heard
  <1>2. CASE SendDummy(n)
    <2>1. dev[n].ram \in Sett
      BY <1>0 DEF DevType
    <2>2. Frame("edDummy", [dev[n].ram EXCEPT !.gid = ErasedGid]) \in Frames
      BY <2>1 DEF Sett, Frame, Frames, Cmds
    <2>3. Heard(m)
      BY <1>2, <2>2, SendStep DEF SendDummy, Announce
    <2> QED
      BY <1>0, <1>2, <2>3 DEF SendDummy
  <1>3. CASE \/ SetAddr(n) \/ SetCheck(n) \/ SetCtr(n) \/ SetGroup(n)
            \/ EraseFlash(n) \/ WriteFlash(n)
    BY <1>0, <1>3
    DEF SetAddr, SetCheck, SetCtr, SetGroup, EraseFlash, WriteFlash, SetStep, Go, Heard
  <1>4. CASE Boot(n) \/ PowerCut(n)
    BY <1>0, <1>4 DEF Boot, PowerCut, Go, Heard
  <1> QED
    BY <1>1, <1>2, <1>3, <1>4

LEMMA NextInv == IInv /\ [Next]_vars => IInv'
  <1> SUFFICES ASSUME IInv, [Next]_vars, NEW m \in Lamp PROVE LampInv(m)'
    BY NextType DEF IInv
  <1>0. TypeOK /\ LampInv(m)
    BY DEF IInv
  <1>1. CASE ToolFinds \/ ToolSets \/ InstallerSends
    BY <1>0, <1>1, ToolStep, QuietLamp
  <1>2. CASE Second
    BY <1>0, <1>2, SecondInv
  <1>3. ASSUME NEW n \in Lamp,
               \/ Poll(n) \/ SearchRf(n) \/ Ignores(n) \/ SendDummy(n) \/ WaitRound(n)
               \/ EndWait(n) \/ SendOwn(n) \/ SetAddr(n) \/ SetCheck(n) \/ SetCtr(n)
               \/ SetGroup(n) \/ EraseFlash(n) \/ WriteFlash(n) \/ Boot(n) \/ PowerCut(n)
        PROVE  LampInv(m)'
    <2>1. CASE m = n
      BY <1>0, <1>3, <2>1, SessionInv, SetStepInv, BootInv
    <2>2. CASE m # n
      BY <1>0, <1>3, <2>2, OthersQuiet, QuietLamp
    <2> QED
      BY <2>1, <2>2
  <1>4. CASE UNCHANGED vars
    <2>1. UNCHANGED dev[m] /\ UNCHANGED page[m] /\ Heard(m) /\ UNCHANGED mixed
      BY <1>4 DEF vars, Heard
    <2> QED
      BY <1>0, <2>1, QuietLamp
  <1> QED
    BY <1>1, <1>2, <1>3, <1>4 DEF Next

LEMMA Invariance == Spec => []IInv
  BY InitInv, NextInv, PTL DEF Spec

(* A lamp that waits for its set hears the setup channel.                  *)
THEOREM HearsInstaller == Spec => []WaitsOnSetup
  <1>1. IInv => WaitsOnSetup
    BY DEF IInv, LampInv, ChannelInv, WaitsOnSetup
  <1> QED
    BY Invariance, <1>1, PTL

(* A set that nothing follows before it was read is saved as a whole.      *)
THEOREM SavesWholeSet == Spec => []SavedIsSet
  <1>1. IInv => SavedIsSet
    <2> SUFFICES ASSUME IInv, NEW n \in Lamp, At(n, "reset"), Alone(n)
                 PROVE  page[n] = Settings([dev[n].taken EXCEPT
                                              !.role = FittingRole(Sensor[n], @)])
      BY DEF SavedIsSet, Alone
    <2>1. /\ page[n] = dev[n].ram
          /\ dev[n].ram.pid = dev[n].taken.pid /\ dev[n].ram.ctr = dev[n].taken.ctr
          /\ dev[n].ram.role = FittingRole(Sensor[n], dev[n].taken.role)
          /\ dev[n].ram.gid = dev[n].taken.gid
          /\ dev[n].ram.channel = Normal(dev[n].taken.gid)
      BY DEF IInv, LampInv, SetInv, At
    <2>2. dev[n].ram \in Sett /\ dev[n].taken \in Frames
      BY Parts DEF IInv, DevType
    <2> QED
      BY <2>1, <2>2 DEF Sett, Frames, Settings
  <1> QED
    BY Invariance, <1>1, PTL

(* A role that a lamp saved fits its sensor unless another frame came in   *)
(* while its set was being taken, however sets, other frames, the timer    *)
(* and power cuts fall together.                                           *)
THEOREM RolesFit == Spec => []RoleFitsSensor
  <1>1. IInv => RoleFitsSensor
    BY DEF IInv, LampInv, RoleInv, RoleFits, RoleFitsSensor, Faulty, FittingRole
  <1> QED
    BY Invariance, <1>1, PTL

(* A wait that the timer ends has lasted its full time.                    *)
THEOREM WaitsInFull == Spec => FullWait
  <1>1. IInv => \A n \in Lamp :
                  At(n, "wait") /\ dev'[n].pc = "main" /\ dev[n].proc = "eTimeoutSet" =>
                    dev[n].age = SetTimeout
    BY DEF IInv, LampInv, TimerInv
  <1>2. IInv /\ [Next]_vars =>
          [\A n \in Lamp :
             At(n, "wait") /\ dev'[n].pc = "main" /\ dev[n].proc = "eTimeoutSet" =>
               dev[n].age = SetTimeout]_vars
    BY <1>1
  <1> QED
    BY Invariance, <1>2, PTL DEF Spec, FullWait

(* A lamp that waits has the one timer that will end its wait, or was told *)
(* by it to stop: nothing that is received takes the timer away            *)
(* (setNewFactor, atSetTimeout).                                           *)
THEOREM WaitIsTimed ==
  Spec => [](\A n \in Lamp : At(n, "wait") =>
               \/ dev[n].age < SetTimeout /\ dev[n].timers = {SetTimeout - dev[n].age}
               \/ dev[n].age = SetTimeout /\ dev[n].proc = "eTimeoutSet")
  <1>1. IInv => \A n \in Lamp : At(n, "wait") =>
               \/ dev[n].age < SetTimeout /\ dev[n].timers = {SetTimeout - dev[n].age}
               \/ dev[n].age = SetTimeout /\ dev[n].proc = "eTimeoutSet"
    <2> SUFFICES ASSUME IInv, NEW n \in Lamp, At(n, "wait")
                 PROVE  \/ dev[n].age < SetTimeout /\ dev[n].timers = {SetTimeout - dev[n].age}
                        \/ dev[n].age = SetTimeout /\ dev[n].proc = "eTimeoutSet"
      OBVIOUS
    <2>1. dev[n].age \in 0..SetTimeout /\ SetTimeout \in Nat
      BY CommissioningAssumption DEF IInv, TypeOK
    <2>2. TimerInv(n)
      BY DEF IInv, LampInv
    <2> QED
      BY <2>1, <2>2 DEF TimerInv
  <1> QED
    BY Invariance, <1>1, PTL

(* Whenever a lamp is in its main loop, its next transmission takes it to  *)
(* its own channel, whether its last session ended by a set, by edBack, by *)
(* the timer or by a power cut (setNewFactor's changeGroup, setRfMode).    *)
THEOREM NextSendIsHome ==
  Spec => [](\A n \in Lamp : At(n, "main") => rf[n].reg = Tuned(dev[n].ram.channel))
  <1>1. IInv => \A n \in Lamp : At(n, "main") => rf[n].reg = Tuned(dev[n].ram.channel)
    BY DEF IInv, LampInv, ChannelInv
  <1> QED
    BY Invariance, <1>1, PTL
=============================================================================
