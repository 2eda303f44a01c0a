----------------------------- MODULE Commissioning -----------------------------
(***************************************************************************)
(* Commissioning by radio (UttecProc/procRf.cpp).  A lamp that hears       *)
(* edSearch goes to the setup channel, announces itself, and waits in a    *)
(* loop of its own for edNewSet or edBack, until a one-shot timer ends the *)
(* wait.  It takes over a set part by part, out of the buffer into which   *)
(* the radio already receives again, saves it and resets.                  *)
(*                                                                         *)
(* The tool is newMain.cpp, which finds lamps channel by channel; on the   *)
(* setup channel an installer whose program is not in the repository sends *)
(* sets and backs.  Saves are what ConfigStore promises: the old settings, *)
(* none, or the new ones.  All steps of a lamp but its waits are short     *)
(* against a second.                                                       *)
(***************************************************************************)
EXTENDS RfChannel

CONSTANTS
  Lamp,
  Sensor,      \* Sensor[n]: SensorType.iSensor, which no set changes
  Gid,         \* group addresses
  SetTimeout,  \* DeRfSetTimeout, in seconds
  NewSets,     \* what the installer may set: Pid, role and factors, group
  Factory,     \* Factory[n]: what initOrgFlash of its build chooses
  NoSettings,  \* an erased page
  MaxSent,     \* bounds: frames of the tool and the installer,
  MaxCuts      \*         power cuts

\* "none" is RxTx = 0, which is no role.
Role == {"none", "eRx", "eTx", "eSRx", "eMx", "eRpt", "eGW", "eMst"}
SensorType == {"eNoSensor", "ePir", "eVolume", "eDayLight"}
ErasedGid == 2^16 - 1   \* Trans of a lamp's own frame is never assigned

Set == [pid : Nat, role : Role, ctr : Nat, gid : Nat]

ASSUME CommissioningAssumption ==
  /\ Sensor \in [Lamp -> SensorType]
  /\ Gid \subseteq Nat
  /\ SetTimeout \in Nat \ {0}
  /\ NewSets \subseteq Set /\ Factory \in [Lamp -> Set]
  /\ \A s \in NewSets : s.gid \in Gid
  /\ \A n \in Lamp : Factory[n].gid \in Gid
  /\ MaxSent \in Nat /\ MaxCuts \in Nat

VARIABLES
  dev,   \* dev[n]: where the program of lamp n is, and its RAM
  page,  \* page[n]: its saved settings
  rf,    \* rf[n]: its radio: where it listens, the register, a frame waiting,
         \* and m_RxFrame
  tool,  \* the channel of the tool's radio
  sent,  \* frames of tool and installer so far
  cuts,  \* power cuts so far
  mixed  \* history: lamps whose saved set another frame came into

vars == <<dev, page, rf, tool, sent, cuts, mixed>>

\* The fields of rfFrame_t that matter here; gid is Trans.DstGroupAddr.
Frame(cmd, s) == [cmd |-> cmd, pid |-> s.pid, role |-> s.role, ctr |-> s.ctr, gid |-> s.gid]
Blank == [pid |-> 0, role |-> "none", ctr |-> 0, gid |-> 0]  \* memset(&myRf, 0, 32)

\* Flash_t: the own frame and Channel.
Settings(s) ==
  [pid |-> s.pid, role |-> s.role, ctr |-> s.ctr, gid |-> s.gid,
   channel |-> Normal(s.gid)]

(* proc is setRfProc, timers the seconds left to setRfTimeout.  History:   *)
(* age of the wait, and the set that was taken.                            *)
Started(s) ==
  [pc |-> "main", ram |-> s, proc |-> "eReadySet", timers |-> {}, age |-> 0,
   taken |-> Frame("edBack", Blank)]

Listening(c) ==
  [on |-> Tuned(c), reg |-> Tuned(c), full |-> FALSE, buf |-> Frame("edBack", Blank)]

Init ==
  /\ dev = [n \in Lamp |-> Started(Settings(Factory[n]))]
  /\ page = [n \in Lamp |-> Settings(Factory[n])]
  /\ rf = [n \in Lamp |-> Listening(Normal(Factory[n].gid))]
  /\ tool \in {Normal(g) : g \in Gid}
  /\ sent = 0
  /\ cuts = 0
  /\ mixed = {}

-----------------------------------------------------------------------------
(* The air: a frame reaches any of the lamps that listen there and hold    *)
(* none; it may get lost.  m_RxFrame is free once isRxDone was polled,     *)
(* whether or not the handler is done with it.                             *)
At(n, pc) == dev[n].pc = pc
Listeners(place) == {n \in Lamp : ~At(n, "off") /\ rf[n].on = place /\ ~rf[n].full}
Received(r, f) == [r EXCEPT !.full = TRUE, !.buf = f]

ToolSends(c, f) ==
  /\ sent < MaxSent
  /\ sent' = sent + 1
  /\ \E heard \in SUBSET Listeners(Tuned(c)) :
       rf' = [n \in Lamp |-> IF n \in heard THEN Received(rf[n], f) ELSE rf[n]]
  /\ UNCHANGED <<dev, page, cuts, mixed>>

\* sendFind, one channel of its range.
ToolFinds ==
  \E g \in Gid : tool' = Normal(g) /\ ToolSends(tool', Frame("edSearch", Blank))

\* sendSet prepares the setup channel and does not change to it.
ToolSets ==
  /\ UNCHANGED tool
  /\ \E s \in NewSets : ToolSends(tool, Frame("edNewSet", [s EXCEPT !.gid = 0]))

InstallerSends ==
  /\ UNCHANGED tool
  /\ \E f \in {Frame("edNewSet", s) : s \in NewSets} \cup {Frame("edBack", Blank)} :
       ToolSends(Setup, f)

-----------------------------------------------------------------------------
(* The lamp.                                                               *)

\* What leaves a lamp's program and takes its radio down and up again.
Sends(n, f) ==
  \E heard \in SUBSET (Listeners(rf[n].reg) \ {n}) :
    rf' = [m \in Lamp |->
      IF m = n THEN [rf[n] EXCEPT !.on = rf[n].reg, !.full = FALSE]
      ELSE IF m \in heard THEN Received(rf[m], f) ELSE rf[m]]

Go(n, pc) == dev' = [dev EXCEPT ![n].pc = pc]
Polled(n) == rf' = [rf EXCEPT ![n].full = FALSE]

\* Faulty: the timer is not started, or beside the one that still runs.
NoAttach(timers) == timers
AttachAnother(timers) == timers \cup {SetTimeout}

\* Timeout::attach: the timer starts again.
Attach(timers) == {SetTimeout}

\* The poll frees the buffer; taskRf looks at it after the LED and a print.
Poll(n) ==
  /\ At(n, "main") /\ rf[n].full
  /\ Polled(n)
  /\ Go(n, "look")
  /\ UNCHANGED <<page, tool, sent, cuts, mixed>>

\* searchRf, and setNewFactor up to its changeGroup.
SearchRf(n) ==
  /\ At(n, "look") /\ rf[n].buf.cmd = "edSearch"
  /\ rf' = [rf EXCEPT ![n].reg = Tuned(Setup)]
  /\ dev' = [dev EXCEPT ![n].pc = "dummy", ![n].proc = "eWaitGatewayApprove",
                        ![n].timers = Attach(@), ![n].age = 0]
  /\ UNCHANGED <<page, tool, sent, cuts, mixed>>

\* Outside a session the other commands do nothing.
Ignores(n) ==
  /\ At(n, "look") /\ rf[n].buf.cmd # "edSearch"
  /\ Go(n, "main")
  /\ UNCHANGED <<page, rf, tool, sent, cuts, mixed>>

NoDummy(n) == UNCHANGED rf   \* faulty: nothing is sent

\* edDummy makes the radio follow the new channel.
Announce(n) == Sends(n, Frame("edDummy", [dev[n].ram EXCEPT !.gid = ErasedGid]))

SendDummy(n) ==
  /\ At(n, "dummy")
  /\ Announce(n)
  /\ dev' = [dev EXCEPT ![n].pc = "wait", ![n].proc = "eWaitRfSet"]
  /\ UNCHANGED <<page, tool, sent, cuts, mixed>>

\* One round of the loop.  Commands other than these two are wrong ones.
WaitRound(n) ==
  /\ At(n, "wait") /\ dev[n].proc = "eWaitRfSet" /\ rf[n].full
  /\ Polled(n)
  /\ LET f == rf[n].buf
     IN  dev' = [dev EXCEPT ![n] =
           CASE f.cmd = "edNewSet" -> [@ EXCEPT !.pc = "addr", !.taken = f]
             [] f.cmd = "edBack" -> [@ EXCEPT !.proc = "eReadySet"]
             [] OTHER -> @]
  /\ UNCHANGED <<page, tool, sent, cuts, mixed>>

KeepChannel(n) == UNCHANGED rf   \* faulty: the lamp's own channel is forgotten

ChangeBack(n) == rf' = [rf EXCEPT ![n].reg = Tuned(dev[n].ram.channel)]

\* The loop ends by edBack or by the timer.
EndWait(n) ==
  /\ At(n, "wait") /\ dev[n].proc # "eWaitRfSet"
  /\ Go(n, "main")
  /\ ChangeBack(n)
  /\ UNCHANGED <<page, tool, sent, cuts, mixed>>

\* What main sends every second takes the radio to the channel set last.
SendOwn(n) ==
  /\ At(n, "main")
  /\ rf' = [rf EXCEPT ![n].on = rf[n].reg, ![n].full = FALSE]
  /\ UNCHANGED <<dev, page, tool, sent, cuts, mixed>>

-----------------------------------------------------------------------------
(* processCmdNewSet, which reads m_RxFrame at each of its steps.           *)

AlertsNothing(sensor, role) == FALSE   \* faulty: alertFaultSet returns

\* alertFaultSet: the lamp blinks until its power is cut.
Faulty(sensor, role) ==
  \/ sensor = "ePir" /\ role \in {"eGW", "eMst"}
  \/ sensor = "eDayLight" /\ role \in {"eMx", "eGW", "eMst"}
  \/ sensor = "eVolume" /\ role \in {"eSRx", "eMx", "eGW", "eMst"}

FittingRole(sensor, role) ==
  IF sensor = "eNoSensor" /\ role = "eSRx" THEN "eRx" ELSE role

ASSUME FactoryAssumption ==
  \A n \in Lamp :
    /\ ~Faulty(Sensor[n], Factory[n].role)
    /\ FittingRole(Sensor[n], Factory[n].role) = Factory[n].role

SetStep(n, from) == At(n, from) /\ UNCHANGED <<rf, tool, sent, cuts>>

\* The address and the role, as they are.
SetAddr(n) ==
  /\ SetStep(n, "addr")
  /\ dev' = [dev EXCEPT ![n].ram.pid = rf[n].buf.pid, ![n].ram.role = rf[n].buf.role,
                        ![n].pc = "check"]
  /\ UNCHANGED <<page, mixed>>

\* The role that is tested is read again, and only eSRx is replaced.
SetCheck(n) ==
  /\ SetStep(n, "check")
  /\ LET role == rf[n].buf.role
     IN  dev' = [dev EXCEPT
           ![n].ram.role = IF FittingRole(Sensor[n], role) # role THEN "eRx" ELSE @,
           ![n].pc = IF Faulty(Sensor[n], role) THEN "fault" ELSE "ctr"]
  /\ UNCHANGED <<page, mixed>>

SetCtr(n) ==
  /\ SetStep(n, "ctr")
  /\ dev' = [dev EXCEPT ![n].ram.ctr = rf[n].buf.ctr, ![n].pc = "group"]
  /\ UNCHANGED <<page, mixed>>

\* Faulty: the channel is left, or taken from the radio (m_Ch).
InGroupOnly(ram, gid) == [ram EXCEPT !.gid = gid]
InGroupOnRadio(ram, gid) == [ram EXCEPT !.gid = gid, !.channel = Setup]

InGroup(ram, gid) == [ram EXCEPT !.gid = gid, !.channel = Normal(gid)]

SetGroup(n) ==
  /\ SetStep(n, "group")
  /\ dev' = [dev EXCEPT ![n].ram = InGroup(@, rf[n].buf.gid), ![n].pc = "erase"]
  /\ UNCHANGED <<page, mixed>>

EraseFlash(n) ==
  /\ SetStep(n, "erase")
  /\ page' = [page EXCEPT ![n] = NoSettings]
  /\ mixed' = mixed \ {n}
  /\ Go(n, "write")

WriteFlash(n) ==
  /\ SetStep(n, "write")
  /\ page' = [page EXCEPT ![n] = dev[n].ram]
  /\ mixed' = IF rf[n].buf = dev[n].taken THEN mixed ELSE mixed \cup {n}
  /\ Go(n, "reset")

\* Start-up; initOrgFlash when the page is not a whole one.
Boot(n) ==
  LET s == IF page[n] = NoSettings THEN Settings(Factory[n]) ELSE page[n]
  IN  /\ At(n, "reset") \/ At(n, "off")
      /\ page' = [page EXCEPT ![n] = s]
      /\ dev' = [dev EXCEPT ![n] = Started(s)]
      /\ rf' = [rf EXCEPT ![n] = Listening(s.channel)]
      /\ UNCHANGED <<tool, sent, cuts, mixed>>

PowerCut(n) ==
  /\ cuts < MaxCuts /\ ~At(n, "off")
  /\ cuts' = cuts + 1
  /\ Go(n, "off")
  /\ UNCHANGED <<page, rf, tool, sent, mixed>>

\* A second passes for all; atSetTimeout runs as an interrupt.
Second ==
  /\ \A n \in Lamp : dev[n].pc \in {"main", "wait", "fault", "off"}
  /\ dev' = [n \in Lamp |->
       LET d == dev[n]
       IN  [d EXCEPT
              !.timers = {t - 1 : t \in @} \ {0},
              !.proc = IF 1 \in d.timers THEN "eTimeoutSet" ELSE @,
              !.age = IF At(n, "wait") /\ @ < SetTimeout THEN @ + 1 ELSE @]]
  /\ UNCHANGED <<page, rf, tool, sent, cuts, mixed>>

Next ==
  \/ ToolFinds \/ ToolSets \/ InstallerSends \/ Second
  \/ \E n \in Lamp :
       \/ Poll(n) \/ SearchRf(n) \/ Ignores(n) \/ SendDummy(n) \/ WaitRound(n)
       \/ EndWait(n) \/ SendOwn(n) \/ SetAddr(n) \/ SetCheck(n) \/ SetCtr(n)
       \/ SetGroup(n) \/ EraseFlash(n) \/ WriteFlash(n) \/ Boot(n) \/ PowerCut(n)

Spec == Init /\ [][Next]_vars

\* The next step of a lamp's program outside its main loop, where there is one.
Proceeds(n) ==
  \/ SearchRf(n) \/ Ignores(n) \/ SendDummy(n) \/ WaitRound(n) \/ EndWait(n)
  \/ SetAddr(n) \/ SetCheck(n) \/ SetCtr(n) \/ SetGroup(n) \/ EraseFlash(n)
  \/ WriteFlash(n) \/ (Boot(n) /\ At(n, "reset"))

\* Time goes on, and a lamp that has power executes its program.
FairSpec ==
  /\ Spec
  /\ WF_vars(Second)
  /\ \A n \in Lamp : WF_vars(Proceeds(n)) /\ WF_vars(SendOwn(n))

-----------------------------------------------------------------------------
Sett ==
  LET gid == Gid \cup {0, ErasedGid}
  IN  [pid : Nat, role : Role, ctr : Nat, gid : gid, channel : {Normal(g) : g \in gid}]

Cmds == {"edSearch", "edNewSet", "edBack", "edDummy"}
Frames == [cmd : Cmds, pid : Nat, role : Role, ctr : Nat, gid : Gid \cup {0, ErasedGid}]
\* Type invariant: no lamp ever saves the setup channel as its own.
TypeOK ==
  /\ dev \in [Lamp ->
       [pc : {"main", "look", "dummy", "wait", "addr", "check", "fault", "ctr",
              "group", "erase", "write", "reset", "off"},
        ram : Sett, timers : SUBSET (1..SetTimeout), age : 0..SetTimeout,
        proc : {"eReadySet", "eWaitGatewayApprove", "eWaitRfSet", "eTimeoutSet"},
        taken : Frames]]
  /\ page \in [Lamp -> Sett \cup {NoSettings}]
  /\ rf \in [Lamp -> [on : Place, reg : Place, full : BOOLEAN, buf : Frames]]
  /\ tool \in {Normal(g) : g \in Gid}
  /\ sent \in 0..MaxSent
  /\ cuts \in 0..MaxCuts
  /\ mixed \subseteq Lamp

(* A lamp that waits for its set hears the setup channel: the registers    *)
(* alone do not move the radio (setNewFactor's "dummy tx for rx enable").  *)
WaitsOnSetup == \A n \in Lamp : At(n, "wait") => rf[n].on = Tuned(Setup)

(* What a set makes of a lamp that takes it alone is that set as a whole,  *)
(* with group and channel agreeing (processCmdNewSet).  A frame that comes *)
(* in before the last part was read is mixed into it.                      *)
SavedIsSet ==
  \A n \in Lamp :
    At(n, "reset") /\ rf[n].buf = dev[n].taken =>
      page[n] = Settings([dev[n].taken EXCEPT !.role = FittingRole(Sensor[n], @)])

(* However frames, time-outs and power cuts interleave, a role that a lamp *)
(* saved fits its sensor, unless another frame came in while its set was   *)
(* being taken: processCmdNewSet copies the role and then tests one that   *)
(* it reads again (procRf.cpp:141-163), so that two sets can make what     *)
(* neither holds.                                                          *)
RoleFitsSensor ==
  \A n \in Lamp \ mixed :
    page[n] # NoSettings =>
      /\ ~(Sensor[n] = "ePir" /\ page[n].role \in {"eGW", "eMst"})
      /\ Sensor[n] \in {"eDayLight", "eVolume"} => page[n].role \notin {"eMx", "eGW", "eMst"}
      /\ Sensor[n] \in {"eNoSensor", "eVolume"} => page[n].role # "eSRx"

(* A wait that the timer ends has lasted its full time: the timer of an    *)
(* earlier session, ended by edBack, does not cut it short (searchRf).     *)
FullWait ==
  [][\A n \in Lamp :
       At(n, "wait") /\ dev'[n].pc = "main" /\ dev[n].proc = "eTimeoutSet" =>
         dev[n].age = SetTimeout]_vars

(* A lamp never waits for ever, whatever it hears or does not hear.        *)
WaitEnds == \A n \in Lamp : At(n, "wait") ~> ~At(n, "wait")

(* A lamp that is back in its main loop comes back to its own channel, and *)
(* its group to it (setNewFactor's changeGroup of reservedCh).             *)
BackOnChannel ==
  \A n \in Lamp :
    At(n, "main") ~> (~At(n, "main") \/ rf[n].on = Tuned(dev[n].ram.channel))
=============================================================================
