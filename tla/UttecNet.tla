------------------------------- MODULE UttecNet -------------------------------
(***************************************************************************)
(* The lighting network: nodes that run the main loop of                   *)
(* mainForSx1276.cpp and talk by radio (one broadcast domain per channel)  *)
(* and by RS485 (a tree under the server).                                 *)
(*                                                                         *)
(* A receiver holds one frame per medium: a frame that comes before the    *)
(* previous one is polled is lost, and so is a frame still waiting when    *)
(* the radio is switched to transmit (Rf::setRfMode clears EVENTS_END).    *)
(*                                                                         *)
(* The radio receives again before the handler of a frame runs, into the   *)
(* buffer that the handler reads, and the handler prints, waits and sends  *)
(* between its looks at it.  So a radio handler is a sequence of steps     *)
(* (job), each with one look at the buffer, and another frame may come in  *)
(* part by part between them.  A handler of a frame from the bus, whose    *)
(* buffer nothing fills meanwhile, is one step that queues what it sends.  *)
(***************************************************************************)
EXTENDS UttecTypes, Sequences, FiniteSets

CONSTANTS
  Node,
  Server,           \* the far end of the RS485 tree
  Parent,           \* Parent[n]: the node or server above n on RS485,
  NoParent,         \* or NoParent: nothing is connected
  Installation,     \* ways to commission the nodes: .addr[n], and .sensor[n],
                    \* the sensor fitted to n
  FactoryCtr,       \* the dimming factors all nodes start with
  OwnRole,          \* what SensorRate, Status and DTime of the nodes' own Ctr
                    \* make as a Role_t
  ServerFrame,      \* the frames the server may put on the bus
  NoFrame,
  Lossy,            \* whether frames may be lost in the air and on the bus
  MaxServerFrames,  \* bounds: frames from the server,
  MaxSensorEvents,  \*         sensor events,
  MaxPowerCycles    \*         and power cycles of a behaviour

ASSUME NetAssumption ==
  /\ Server \notin Node /\ NoParent \notin Node \cup {Server}
  /\ Parent \in [Node -> Node \cup {Server, NoParent}]
  /\ Installation \subseteq [addr : [Node -> Addr], sensor : [Node -> SensorType]]
  /\ FactoryCtr \in Ctr
  /\ OwnRole \in Addr /\ OwnRole.rxtx = NoRole
  /\ ServerFrame \subseteq Frame /\ \A f \in ServerFrame : f.whole
  /\ NoFrame \notin Frame
  /\ Lossy \in BOOLEAN
  /\ MaxServerFrames \in Nat /\ MaxSensorEvents \in Nat /\ MaxPowerCycles \in Nat

VARIABLES
  dev,     \* dev[n]: the node's RAM, dimmer and radio state
  flash,   \* flash[n]: what its settings page holds
  out,     \* out[n]: frames its last handler still has to send
  rx,      \* rx[n]: m_RxFrame (buf), EVENTS_END (end), the frame that is coming
           \* in over buf (in) and how many parts of it have come
  job,     \* job[n]: where its radio handler is, the sub-command that taskServer
           \* read; history: alone, if nothing came in since the poll
  bus,     \* bus[n]: the RS485 frame waiting at n, or NoFrame
  issued,  \* history: frames the server sent
  acks,    \* history: edClientAck frames that reached the server
  events,  \* sensor events so far
  cycles   \* power cycles so far

vars == <<dev, flash, out, rx, job, bus, issued, acks, events, cycles>>

-----------------------------------------------------------------------------
(* What a node keeps: its own frame (addr, sensor, cmd, ctr), the channel  *)
(* in its registers (m_Ch) and the one its radio is on until it next goes  *)
(* up, the dimmer (target, forced, m_sensorType) and whether a sensor      *)
(* event waits to be sent.  It runs, or blinks for ever in conflictTx.     *)
Device ==
  [addr : Addr, sensor : SensorType, cmd : Cmd, ctr : Ctr,
   chan : Group \cup {0, ErasedGroup}, on : Group \cup {0, ErasedGroup},
   target : Level, forced : BOOLEAN, dim : SensorType, flag : BOOLEAN, mode : {"run", "conflict"}]

Page ==
  [addr : Addr, sensor : SensorType, cmd : Cmd, ctr : Ctr,
   chan : Group \cup {0, ErasedGroup}]

\* After ReadAllFlash and initRfFrame: the radio takes Channel.channel.
Boot(page) ==
  [addr |-> page.addr, sensor |-> page.sensor, cmd |-> page.cmd,
   ctr |-> page.ctr, chan |-> page.chan, on |-> page.chan,
   target |-> FactoryCtr.low, forced |-> FALSE, dim |-> "ePir", flag |-> FALSE, mode |-> "run"]

\* Commissioned: initOrgFlash and processCmdNewSet keep channel and group equal.
NewPage(inst, n) ==
  [addr |-> inst.addr[n], sensor |-> inst.sensor[n], cmd |-> ErasedCmd,
   ctr |-> FactoryCtr, chan |-> inst.addr[n].gid]

NoAddr == [gid |-> ErasedGroup, pid |-> ErasedPrivate, rxtx |-> NoRole]

\* The node's own frame, mp_rfFrame.
OwnFrame(d) ==
  [cmd |-> d.cmd, sub |-> ErasedCmd, src |-> d.addr, sensor |-> d.sensor,
   ctr |-> d.ctr, role |-> OwnRole, dst |-> NoAddr, whole |-> TRUE]

\* What a handler queues.
ByRf(f) == <<[via |-> "rf", frame |-> f]>>
Up(f) == <<[via |-> "up", frame |-> f]>>
Down(f) == <<[via |-> "down", frame |-> f]>>

NoReception == [buf |-> NoFrame, end |-> FALSE, in |-> NoFrame, part |-> 0]

\* The node is in its main loop.
NoJob == [pc |-> "main", sub |-> ErasedCmd, alone |-> TRUE]

Init ==
  /\ \E inst \in Installation : flash = [n \in Node |-> NewPage(inst, n)]
  /\ dev = [n \in Node |-> Boot(flash[n])]
  /\ out = [n \in Node |-> <<>>]
  /\ rx = [n \in Node |-> NoReception]
  /\ job = [n \in Node |-> NoJob]
  /\ bus = [n \in Node |-> NoFrame]
  /\ issued = {}
  /\ acks = {}
  /\ events = 0
  /\ cycles = 0

-----------------------------------------------------------------------------
(* The media.                                                              *)

At(n, pc) == job[n].pc = pc

Idle(n) == dev[n].mode = "run" /\ out[n] = <<>> /\ At(n, "main")

\* A frame has come in to its end.
Complete(r) ==
  [NoReception EXCEPT
     !.buf = [Written(r.buf, r.in, r.part + 1 .. 4) EXCEPT !.whole = r.in.whole],
     !.end = TRUE]

\* Its next part has come in.
NextPart(r) ==
  IF r.part = 3 THEN Complete(r)
  ELSE [r EXCEPT !.buf = Written(r.buf, r.in, {r.part + 1}), !.part = r.part + 1]

\* The radio handler of n goes on, or returns: then its frame is forgotten, and
\* nobody sees how another one comes in to its end.
Rest(r) ==
  CASE r.end -> r
    [] ~r.end /\ r.in # NoFrame -> Complete(r)
    [] ~r.end /\ r.in = NoFrame -> NoReception

Goto(n, pc) ==
  job' = [job EXCEPT ![n] = IF pc = "main" THEN NoJob ELSE [@ EXCEPT !.pc = pc]]

Continue(n, pc) ==
  /\ Goto(n, pc)
  /\ rx' = IF pc = "main" THEN [rx EXCEPT ![n] = Rest(@)] ELSE rx

\* Nodes whose radio is on n's channel and has no frame, waiting or coming in.
Listeners(n) ==
  {m \in Node \ {n} : dev[m].on = dev[n].chan /\ ~rx[m].end /\ rx[m].in = NoFrame}

(* sendRf: a broadcast on the channel in the registers; what waited in n's *)
(* own receiver is gone, what its handler reads is not.  A node in its     *)
(* main loop receives the whole frame unseen.                              *)
Broadcast(n, f, own) ==
  /\ \E heard \in SUBSET Listeners(n) :
       /\ Lossy \/ heard = Listeners(n)
       /\ rx' = [m \in Node |->
                   CASE m = n -> [NoReception EXCEPT !.buf = own]
                     [] m \in heard /\ At(m, "main") ->
                          [NoReception EXCEPT !.buf = f, !.end = TRUE]
                     [] m \in heard /\ ~At(m, "main") -> [rx[m] EXCEPT !.in = f]
                     [] OTHER -> rx[m]]
  /\ dev' = [dev EXCEPT ![n].on = dev[n].chan]

\* A frame comes in over what a handler may be reading.
ComesIn(n) ==
  /\ rx[n].in # NoFrame
  /\ rx' = [rx EXCEPT ![n] = NextPart(@)]
  /\ job' = [job EXCEPT ![n].alone = FALSE]
  /\ UNCHANGED <<dev, flash, out, bus, issued, acks, events, cycles>>

\* send485 towards the nodes below n.
SendDown(n, f) ==
  LET below == {m \in Node : Parent[m] = n /\ bus[m] = NoFrame}
  IN  \E heard \in SUBSET below :
        /\ Lossy \/ heard = below
        /\ bus' = [m \in Node |-> IF m \in heard THEN f ELSE bus[m]]

\* send485 towards the server.
SendUp(n, f) ==
  \/ /\ Parent[n] = Server
     /\ acks' = acks \cup {f}
     /\ UNCHANGED bus
  \/ /\ Parent[n] \in Node
     /\ bus[Parent[n]] = NoFrame
     /\ bus' = [bus EXCEPT ![Parent[n]] = f]
     /\ UNCHANGED acks
  \/ /\ \/ Lossy
        \/ Parent[n] = NoParent
        \/ Parent[n] \in Node /\ bus[Parent[n]] # NoFrame
     /\ UNCHANGED <<acks, bus>>

\* The next frame that a handler queued goes out.
Sends(n, via) ==
  /\ out[n] # <<>> /\ Head(out[n]).via = via
  /\ out' = [out EXCEPT ![n] = Tail(@)]
  /\ UNCHANGED <<flash, job, issued, events, cycles>>

SendRf(n) ==
  /\ Sends(n, "rf")
  /\ Broadcast(n, Head(out[n]).frame, NoFrame)
  /\ UNCHANGED <<bus, acks>>

Send485Down(n) ==
  /\ Sends(n, "down")
  /\ SendDown(n, Head(out[n]).frame)
  /\ UNCHANGED <<dev, rx, acks>>

Send485Up(n) ==
  /\ Sends(n, "up")
  /\ SendUp(n, Head(out[n]).frame)
  /\ UNCHANGED <<dev, rx>>

\* The server puts a frame on the bus of a node directly below it.
ServerSends ==
  /\ Cardinality(issued) < MaxServerFrames
  /\ \E n \in Node, f \in ServerFrame \ issued :
       /\ Parent[n] = Server
       /\ bus[n] = NoFrame
       /\ bus' = [bus EXCEPT ![n] = f]
       /\ issued' = issued \cup {f}
  /\ UNCHANGED <<dev, flash, out, rx, job, acks, events, cycles>>

-----------------------------------------------------------------------------
(* Requests of the server (procServer).                                    *)

\* Faulty: the command and its sub-command are exchanged.
SetAckFrameSwapped(d, sub) ==
  [OwnFrame(d) EXCEPT !.cmd = sub, !.sub = "edClientAck"]

SetAckFrame(d, sub) ==
  [OwnFrame(d) EXCEPT !.cmd = "edClientAck", !.sub = sub,
     !.dst = [gid |-> 0, pid |-> 0, rxtx |-> "eMst"]]

\* What a request with a sub-command does: nothing, or it is for one node only.
Executed ==
  {"edsPowerRead", "edsControl", "edsNewSet", "edsCmd_485NewSet",
   "edsCmd_Alternative", "edsCmd_Status"}
ForOneNode == {"edsPowerRead", "edsCmd_485NewSet", "edsMonitor", "edsCmd_Status"}

Refused(f) ==
  \/ f.sub \notin Executed
  \/ f.sub \in ForOneNode /\ CheckErrorPid(f)

\* The role a reconfiguration asks for; others than these four are refused.
NewRole(d, f) ==
  IF f.role.rxtx \in {"eRx", "eTx", "eSRx", "eGW"} THEN f.role.rxtx ELSE d.addr.rxtx

Forced(d, level) == [d EXCEPT !.forced = TRUE, !.target = level]

(* What the sub-command makes of a node in state d, with frame f to read.  *)
(* A gateway drives its dimmer directly, so its target does not move.      *)
TaskServer(d, sub, f) ==
  CASE sub = "edsControl" ->
         IF IsGw(d.addr) THEN d ELSE Forced(d, f.ctr.level)
    [] sub = "edsNewSet" ->
         [d EXCEPT !.forced = FALSE]
    [] sub = "edsCmd_485NewSet" ->
         [d EXCEPT !.addr = [gid |-> f.role.gid, pid |-> f.role.pid,
                             rxtx |-> NewRole(d, f)],
                   !.ctr.high = f.ctr.high, !.ctr.low = f.ctr.low]
    [] sub = "edsCmd_Alternative" ->
         IF d.addr.pid % 2 = f.src.pid % 2 THEN Forced(d, f.ctr.level) ELSE d
    [] OTHER -> d

\* writeFlash saves the whole RAM copy, but the channel in it never changes.
SavedPage(page, d) == [page EXCEPT !.addr = d.addr, !.cmd = d.cmd, !.ctr = d.ctr]

Execute(n, sub, f) ==
  LET e == TaskServer(dev[n], sub, f)
  IN  /\ dev' = [dev EXCEPT ![n] = e]
      /\ flash' = IF sub = "edsCmd_485NewSet"
                  THEN [flash EXCEPT ![n] = SavedPage(@, e)] ELSE flash

\* A gateway or master answers what changes something, executed or not; any
\* node what it was asked for.
AnswersAnyway(d, sub) == sub \notin {"edsPowerRead", "edsCmd_Status"} /\ IsMstOrGw(d.addr)
Answers(d, sub) == sub \in {"edsPowerRead", "edsCmd_Status"} \/ IsMstOrGw(d.addr)

-----------------------------------------------------------------------------
(* Radio frames (main, procRf::taskRf), one action per command and per     *)
(* look at the buffer.                                                     *)

\* isRxDone: the radio restarts, with what changeGroup left in its registers.
Poll(n) ==
  /\ Idle(n)
  /\ rx[n].end
  /\ rx' = [rx EXCEPT ![n].end = FALSE]
  /\ job' = [job EXCEPT ![n].pc = "task"]
  /\ dev' = [dev EXCEPT ![n].on = dev[n].chan]
  /\ UNCHANGED <<flash, out, bus, issued, acks, events, cycles>>

\* A further step of the handler, or its first.
Looks(n, pc) ==
  /\ At(n, pc)
  /\ UNCHANGED <<out, bus, issued, acks, events, cycles>>

\* What taskRf does for a command; the others are printed at most.
HandlerOf(cmd, d) ==
  CASE cmd = "edServerReq" -> IF IsRpt(d.addr) THEN "resend" ELSE "addr"
    [] cmd = "edClientAck" /\ IsMstOrGw(d.addr) -> "reply"
    [] cmd = "edSensor" /\ ~IsMstOrGw(d.addr) -> "sensor"
    [] cmd = "edRepeat" /\ ~IsMstOrGw(d.addr) -> "repeat"
    [] cmd \in {"edVolume", "edDayLight"} /\ ~IsMstOrGw(d.addr) -> "level"
    [] OTHER -> "main"

ReadCmd(n) ==
  /\ Looks(n, "task")
  /\ Continue(n, HandlerOf(rx[n].buf.cmd, dev[n]))
  /\ UNCHANGED <<dev, flash>>

\* A repeater forwards the frame as it is; the test is on its source.
ResendByRfRepeater(d, f) == IsRpt(d.addr) /\ (IsTx(f.src) \/ IsMstOrGw(f.src))
ResendSensorByRfRepeater(d, f) == IsRpt(d.addr) /\ ~IsRpt(f.src)

Bare(n) == IsRx(dev[n].addr) /\ dev[n].sensor = "eNoSensor"

\* edSensor: someone moved near a node of the group.
ProcRfSensorCmd(n) ==
  /\ Looks(n, "sensor")
  /\ LET d == dev[n]
         f == rx[n].buf
     IN  /\ dev' = [dev EXCEPT
                      ![n].target = IF IsRx(d.addr) => Bare(n) THEN d.ctr.high ELSE @,
                      ![n].dim = IF Bare(n) THEN f.sensor ELSE @]
         /\ Continue(n, IF ResendSensorByRfRepeater(d, f) THEN "echo" ELSE "main")
  /\ UNCHANGED flash

IgnoreConflict(d) == d   \* faulty: the check for a second transmitter is gone

\* A transmitter that hears another one blinks for ever.
ConflictTx(d) == [d EXCEPT !.mode = "conflict"]

\* edRepeat: the once-per-second state of the transmitter of the group.
ProcRfRepeatCmd(n) ==
  /\ Looks(n, "repeat")
  /\ LET d == dev[n]
         f == rx[n].buf
     IN  dev' = [dev EXCEPT ![n] =
           CASE IsTx(d.addr) -> ConflictTx(d)
             [] Bare(n) -> [d EXCEPT !.ctr = f.ctr, !.dim = f.sensor, !.target = f.ctr.level]
             [] OTHER -> [d EXCEPT !.ctr = f.ctr]]
  /\ Continue(n, "main")
  /\ UNCHANGED flash

\* edVolume and edDayLight: the knob or the photo sensor of the transmitter.
ProcRfLevelCmd(n) ==
  /\ Looks(n, "level")
  /\ LET d == dev[n]
         f == rx[n].buf
     IN  /\ dev' = [dev EXCEPT ![n] =
              IF IsTx(d.addr) THEN ConflictTx(d)
              ELSE [d EXCEPT !.dim = "eVolume", !.ctr.level = f.ctr.level,
                             !.target = f.ctr.level]]
         /\ Continue(n, IF ResendByRfRepeater(d, f) THEN "echo" ELSE "main")
  /\ UNCHANGED flash

\* edServerReq: a repeater forwards it, every node executes it or passes it on.
ResendRequest(n) ==
  /\ Looks(n, "resend")
  /\ Continue(n, IF ResendByRfRepeater(dev[n], rx[n].buf) THEN "echoReq" ELSE "addr")
  /\ UNCHANGED <<dev, flash>>

CheckAddr(n) ==
  /\ Looks(n, "addr")
  /\ Continue(n, CASE IsMyAddr(rx[n].buf, dev[n].addr) -> "sub"
                   [] ~IsMyAddr(rx[n].buf, dev[n].addr) /\ IsMstOrGw(dev[n].addr) -> "relay"
                   [] ~IsMyAddr(rx[n].buf, dev[n].addr) /\ IsTx(dev[n].addr) -> "relayDown"
                   [] OTHER -> "main")
  /\ UNCHANGED <<dev, flash>>

\* taskServer: the sub-command, and whether it may be for a whole group.
ReadSub(n) ==
  /\ Looks(n, "sub")
  /\ \/ /\ Refused(rx[n].buf)
        /\ Continue(n, "main")
     \/ /\ ~Refused(rx[n].buf)
        /\ job' = [job EXCEPT ![n].pc = "addr2", ![n].sub = rx[n].buf.sub]
        /\ UNCHANGED rx
  /\ UNCHANGED <<dev, flash>>

\* The same test again in the procedure of the sub-command.
CheckAddrAgain(n) ==
  /\ Looks(n, "addr2")
  /\ Continue(n, IF IsMyAddr(rx[n].buf, dev[n].addr) THEN "act"
                 ELSE IF AnswersAnyway(dev[n], job[n].sub) THEN "compose" ELSE "main")
  /\ UNCHANGED <<dev, flash>>

\* It reads what it needs, after isMyAddr has printed.
Act(n) ==
  /\ Looks(n, "act")
  /\ Execute(n, job[n].sub, rx[n].buf)
  /\ Continue(n, IF Answers(dev'[n], job[n].sub) THEN "compose" ELSE "main")

\* The frame n's handler looks at, as it sends it.
Sent(n) == [rx[n].buf EXCEPT !.whole = @ /\ job[n].alone]

\* setAckFrame writes into the buffer; taskRf waits 10 ms before it is sent.
Compose(n) ==
  /\ Looks(n, "compose")
  /\ rx' = [rx EXCEPT ![n].buf = [SetAckFrame(dev[n], job[n].sub) EXCEPT !.whole = Sent(n).whole],
                      ![n].in = IF rx[n].part = 0 THEN @ ELSE [@ EXCEPT !.whole = FALSE]]
  /\ Goto(n, "reply")
  /\ UNCHANGED <<dev, flash>>

\* A handler that sends what lies in the buffer by then, and goes on at pc.
SendsBuffer(n, pc) ==
  /\ Broadcast(n, Sent(n), IF pc = "main" THEN NoFrame ELSE rx[n].buf)
  /\ Goto(n, pc)
  /\ UNCHANGED <<flash, out, bus, issued, acks, events, cycles>>

Echo(n) ==
  \/ At(n, "echo") /\ SendsBuffer(n, "main")
  \/ At(n, "echoReq") /\ SendsBuffer(n, "addr")

\* returnToServer: upwards by RS485 from a gateway, by radio from the others.
ReturnToServer(n) ==
  /\ At(n, "reply")
  /\ \/ /\ ~IsMstOrGw(dev[n].addr)
        /\ SendsBuffer(n, "main")
     \/ /\ IsMstOrGw(dev[n].addr)
        /\ SendUp(n, Sent(n))
        /\ Continue(n, "main")
        /\ UNCHANGED <<dev, flash, out, issued, events, cycles>>

RelayGroupOfDestination(f) == f.dst.gid   \* faulty: as rs485Task does

\* The channel on which a gateway passes on a request it heard by radio.
RelayGroup(f) == f.src.gid

\* changeGroup, which the radio follows when it next goes up.
ChangeGroup(n) ==
  /\ Looks(n, "relay")
  /\ dev' = [dev EXCEPT ![n].chan = RelayGroup(rx[n].buf)]
  /\ Continue(n, "relayRf")
  /\ UNCHANGED flash

RelayRf(n) == At(n, "relayRf") /\ SendsBuffer(n, "relayDown")

RelayDown(n) ==
  /\ At(n, "relayDown")
  /\ SendDown(n, Sent(n))
  /\ Continue(n, "main")
  /\ UNCHANGED <<dev, flash, out, issued, acks, events, cycles>>

-----------------------------------------------------------------------------
(* RS485 frames (proc485::rs485Task).                                      *)

HearsBus(n, cmds) ==
  /\ Idle(n)
  /\ bus[n] # NoFrame
  /\ bus[n].cmd \in cmds
  /\ bus' = [bus EXCEPT ![n] = NoFrame]
  /\ UNCHANGED <<rx, job, issued, acks, events, cycles>>

\* The gateway test compares the frame's source with the gateway's own Trans.
BusVolume(n) ==
  /\ HearsBus(n, {"edVolume"})
  /\ LET d == dev[n]
         f == bus[n]
         passes == \/ IsMst(d.addr)
                   \/ IsGw(d.addr) /\ ~IsNotMyGwGroup(OwnFrame(d).dst, f.src)
     IN  \/ /\ passes
            /\ out' = [out EXCEPT ![n] = Down(f)]
            /\ UNCHANGED dev
         \/ /\ ~passes
            /\ out' = [out EXCEPT ![n] = IF IsTx(d.addr) THEN ByRf(f) \o Down(f) ELSE <<>>]
            /\ dev' = [dev EXCEPT ![n].dim = "eVolume",
                                  ![n].ctr.level = f.ctr.level,
                                  ![n].target = f.ctr.level]
  /\ UNCHANGED flash

\* A request executed from the bus is not acknowledged.
BusServerReq(n) ==
  /\ HearsBus(n, {"edServerReq"})
  /\ LET d == dev[n]
         f == bus[n]
     IN  \/ /\ IsMyAddr(f, d.addr)
            /\ ~Refused(f)
            /\ Execute(n, f.sub, f)
            /\ UNCHANGED out
         \/ /\ IsMyAddr(f, d.addr)
            /\ Refused(f)
            /\ UNCHANGED <<dev, flash, out>>
         \/ /\ ~IsMyAddr(f, d.addr)
            /\ IsMstOrGw(d.addr)
            /\ dev' = [dev EXCEPT ![n].chan = f.dst.gid]
            /\ out' = [out EXCEPT ![n] = Down(f) \o ByRf(f)]
            /\ UNCHANGED flash
         \/ /\ ~IsMyAddr(f, d.addr)
            /\ ~IsMstOrGw(d.addr)
            /\ out' = [out EXCEPT ![n] = IF IsTx(d.addr) THEN Down(f) \o ByRf(f) ELSE <<>>]
            /\ UNCHANGED <<dev, flash>>

\* An acknowledgement climbs one level, relabelled with the relay's role.
BusClientAck(n) ==
  /\ HearsBus(n, {"edClientAck"})
  /\ LET d == dev[n]
         f == bus[n]
     IN  out' = [out EXCEPT ![n] =
           CASE IsMstOrGw(d.addr) /\ IsTx(f.src) -> Up([f EXCEPT !.src.rxtx = "eGW"])
             [] IsTx(d.addr) /\ ~IsMstOrGw(f.src) -> Up([f EXCEPT !.src.rxtx = "eTx"])
             [] OTHER -> <<>>]
  /\ UNCHANGED <<dev, flash>>

BusIgnored(n) ==
  /\ HearsBus(n, {"edDummy", "edSensor", "edRepeat", "edDayLight", ErasedCmd})
  /\ UNCHANGED <<dev, out, flash>>

-----------------------------------------------------------------------------
(* Timers and sensors of the node itself (mSecExe, procSec, main).         *)

Local(n) ==
  /\ Idle(n)
  /\ UNCHANGED <<flash, rx, job, bus, issued, acks, cycles>>

\* Sensors are read by lamps that the server does not force.
SensorRead(n) == ~IsMstOrGw(dev[n].addr) /\ ~dev[n].forced

PirEvent(n) ==
  /\ Local(n)
  /\ SensorRead(n) /\ dev[n].sensor = "ePir"
  /\ events < MaxSensorEvents
  /\ events' = events + 1
  /\ dev' = [dev EXCEPT ![n].target = dev[n].ctr.high, ![n].cmd = "edSensor",
                        ![n].dim = "ePir", ![n].flag = TRUE]
  /\ UNCHANGED out

\* The knob or the photo sensor of a transmitter.  The knob moves the target
\* even while the pause between two reports is still running.
LevelEvent(n) ==
  /\ Local(n)
  /\ SensorRead(n) /\ IsTx(dev[n].addr)
  /\ dev[n].sensor \in {"eVolume", "eDayLight"}
  /\ events < MaxSensorEvents
  /\ events' = events + 1
  /\ \E level \in Level \ {dev[n].target} :
       \/ dev' = [dev EXCEPT ![n].target = level, ![n].ctr.level = level,
                    ![n].cmd = IF dev[n].sensor = "eVolume" THEN "edVolume" ELSE "edDayLight",
                    ![n].dim = dev[n].sensor, ![n].flag = TRUE]
       \/ /\ dev[n].sensor = "eVolume"
          /\ dev' = [dev EXCEPT ![n].target = level, ![n].dim = "eVolume"]
  /\ UNCHANGED out

\* main: a sensor event is sent, except by a plain receiver.
SendSensor(n) ==
  /\ Local(n)
  /\ dev[n].flag
  /\ dev' = [dev EXCEPT ![n].flag = FALSE]
  /\ out' = [out EXCEPT ![n] =
       IF IsRx(dev[n].addr) THEN <<>> ELSE ByRf(OwnFrame(dev[n]))]
  /\ UNCHANGED events

\* switchDimType: the delay after a movement is over, the lamp goes low.
DelayOut(n) ==
  /\ Local(n)
  /\ SensorRead(n)
  /\ "ePir" \in {dev[n].sensor, dev[n].dim}
  /\ dev[n].target # dev[n].ctr.low
  /\ dev' = [dev EXCEPT ![n].target = dev[n].ctr.low, ![n].dim = "ePir"]
  /\ UNCHANGED <<out, events>>

ReportLevelNever(n) == FALSE   \* faulty: Ctr.Level is not refreshed

\* msecTask, every half second: the frame reports the dimming target.
ReportLevel(n) ==
  /\ Local(n)
  /\ dev[n].ctr.level # dev[n].target
  /\ dev' = [dev EXCEPT ![n].ctr.level = dev[n].target]
  /\ UNCHANGED <<out, events>>

SecCmdAlwaysRepeat(d) == "edRepeat"   \* faulty: no test of the role

SecCmd(d) == IF IsTx(d.addr) THEN "edRepeat" ELSE d.cmd

(* Every second a transmitter makes edRepeat its command and sends its     *)
(* frame (proc1Sec), and main then sends the own frame of any node, with   *)
(* whatever command it last had.                                           *)
SecTask(n) ==
  /\ Local(n)
  /\ LET d == [dev[n] EXCEPT !.cmd = SecCmd(dev[n])]
         own == ByRf(OwnFrame(d))
     IN  /\ dev' = [dev EXCEPT ![n] = d]
         /\ out' = [out EXCEPT ![n] = IF IsTx(d.addr) THEN own \o own ELSE own]
  /\ UNCHANGED events

\* Power fails and comes back: the node restarts from its settings page.
PowerCycle(n) ==
  /\ cycles < MaxPowerCycles
  /\ cycles' = cycles + 1
  /\ dev' = [dev EXCEPT ![n] = Boot(flash[n])]
  /\ out' = [out EXCEPT ![n] = <<>>]
  /\ rx' = [rx EXCEPT ![n] = NoReception]
  /\ job' = [job EXCEPT ![n] = NoJob]
  /\ bus' = [bus EXCEPT ![n] = NoFrame]
  /\ UNCHANGED <<flash, issued, acks, events>>

-----------------------------------------------------------------------------
TaskRf(n) ==
  \/ ReadCmd(n)
  \/ ProcRfSensorCmd(n) \/ ProcRfRepeatCmd(n) \/ ProcRfLevelCmd(n) \/ ResendRequest(n)
  \/ CheckAddr(n) \/ ReadSub(n) \/ CheckAddrAgain(n) \/ Act(n) \/ Compose(n)
  \/ Echo(n) \/ ReturnToServer(n) \/ ChangeGroup(n) \/ RelayRf(n) \/ RelayDown(n)

Rs485Task(n) ==
  \/ BusVolume(n) \/ BusServerReq(n) \/ BusClientAck(n) \/ BusIgnored(n)

Transmit(n) == SendRf(n) \/ Send485Down(n) \/ Send485Up(n)

Timers(n) ==
  \/ PirEvent(n) \/ LevelEvent(n) \/ SendSensor(n)
  \/ DelayOut(n) \/ ReportLevel(n) \/ SecTask(n)

Next ==
  \/ ServerSends
  \/ \E n \in Node :
       \/ Poll(n) \/ TaskRf(n) \/ Rs485Task(n) \/ Transmit(n) \/ ComesIn(n)
       \/ Timers(n) \/ PowerCycle(n)

Spec == Init /\ [][Next]_vars

(* The main loop polls every receiver and every timer again and again, and *)
(* a handler finishes: what it has to send goes out.  A timer gets its     *)
(* turn, and a frame is polled if frames keep coming.                      *)
HandlerFairness(n) ==
  /\ WF_vars(Transmit(n)) /\ WF_vars(TaskRf(n)) /\ WF_vars(ComesIn(n))
  /\ SF_vars(Poll(n))

RepeatFairness(n) == SF_vars(SecTask(n)) /\ SF_vars(ReportLevel(n))

(* Frames are lost and clocks drift: of infinitely many frames that n      *)
(* sends on m's channel, m hears infinitely many while it is in its main   *)
(* loop and has nothing to send itself.                                    *)
Heard(n, m) == Idle(m) /\ SendRf(n) /\ rx'[m] # rx[m]

FairLink(n, m) ==
  \/ <>[][~SendRf(n)]_vars
  \/ []<>(dev[m].mode # "run" \/ dev[m].on # dev[n].chan)
  \/ []<><<Heard(n, m)>>_vars

RepeatSpec ==
  /\ Spec
  /\ \A n \in Node : HandlerFairness(n) /\ RepeatFairness(n)
  /\ \A n \in Node : \A m \in Node \ {n} : FairLink(n, m)

RelaySpec == Spec /\ \A n \in Node : HandlerFairness(n) /\ SF_vars(Rs485Task(n))

-----------------------------------------------------------------------------
Queued == [via : {"rf", "up", "down"}, frame : Frame]

Reception ==
  [buf : Frame \cup {NoFrame}, end : BOOLEAN, in : Frame \cup {NoFrame}, part : 0..3]

Place ==
  {"main", "task", "sensor", "repeat", "level", "resend", "echo", "echoReq", "addr",
   "sub", "addr2", "act", "compose", "reply", "relay", "relayRf", "relayDown"}

Job == [pc : Place, sub : SubCmd, alone : BOOLEAN]

\* A frame is in the buffer if one waits, comes in or is looked at.
HasFrame(r) == r.buf # NoFrame

\* Type invariant: settings, buffers and queues hold what the handlers expect.
TypeOK ==
  /\ dev \in [Node -> Device]
  /\ flash \in [Node -> Page]
  /\ out \in [Node -> Seq(Queued)]
  /\ rx \in [Node -> Reception]
  /\ job \in [Node -> Job]
  /\ \A n \in Node :
       rx[n].end \/ rx[n].in # NoFrame \/ ~At(n, "main") => HasFrame(rx[n])
  /\ bus \in [Node -> Frame \cup {NoFrame}]
  /\ issued \subseteq ServerFrame
  /\ acks \subseteq Frame
  /\ events \in 0..MaxSensorEvents
  /\ cycles \in 0..MaxPowerCycles

\* Another transmitter shares the channel of n.
Rival(n) == \E m \in Node \ {n} : IsTx(dev[m].addr) /\ dev[m].chan = dev[n].chan

(* A transmitter stops in conflictTx only if another transmitter shares    *)
(* its channel: "Duplicate Tx in this Group" (procRf.cpp:378) tells the    *)
(* truth.                                                                  *)
NoFalseConflict == \A n \in Node : dev[n].mode = "conflict" => Rival(n)

(* At a frame of one piece, sent by a handler into whose buffer nothing    *)
(* came, it does: no relay of requests or of a knob's frames, no answer    *)
(* and no repeat of any node but a rival makes a transmitter stop (taskRf, *)
(* rs485Task, proc1Sec).  What a gateway relays from a buffer into which   *)
(* the transmitter's own repeat came may.                                  *)
ConflictIsReal ==
  [][\A n \in Node :
       dev[n].mode = "run" /\ dev'[n].mode = "conflict" /\ Sent(n).whole => Rival(n)]_vars

(* What the transmitters need for that: no repeater, which sends their     *)
(* frames again, and no request that gives a node another address.         *)
Undisturbed ==
  /\ \A inst \in Installation, n \in Node : ~IsRpt(inst.addr[n])
  /\ \A f \in ServerFrame : f.sub # "edsCmd_485NewSet"

\* What n's handler executes was one frame of one piece all along.
Untouched(n) == IF At(n, "act") THEN Sent(n).whole ELSE bus[n].whole

(* An address changes only at a node that a frame of the server names,     *)
(* itself or with its group, and into one that a request asked for which   *)
(* named the three fields of the old address (isMyAddr, checkErrorPid,     *)
(* procNewFactSetSub); the second unless another frame came in over that   *)
(* request here or at a relay.  A power cycle brings no old address back.  *)
Named(n) == \E f \in issued : IsMyAddr(f, dev[n].addr)

Reassigned(n) ==
  \E f \in issued :
    /\ f.cmd = "edServerReq" /\ f.sub = "edsCmd_485NewSet"
    /\ f.dst = dev[n].addr
    /\ f.role.gid = dev'[n].addr.gid /\ f.role.pid = dev'[n].addr.pid

BroadcastNeverReassigns ==
  [][\A n \in Node : dev'[n].addr # dev[n].addr =>
       Named(n) /\ (Untouched(n) => Reassigned(n))]_vars

\* An answer goes to group 0, so this is no group of a node, nor one that a
\* request, or a node's own Ctr in its place, can give it; a node has a role.
ZeroIsNobody ==
  /\ \A inst \in Installation, n \in Node :
       inst.addr[n].gid # 0 /\ inst.addr[n].rxtx # NoRole
  /\ \A f \in ServerFrame : f.role.gid # 0
  /\ OwnRole.gid # 0

\* The server asks, and leaves answering to the nodes.
ServerAsks == \A g \in ServerFrame : g.cmd # "edClientAck"

(* Every acknowledgement that reaches the server carries a sub-command it  *)
(* sent; and unless another frame came in over the request or the answer   *)
(* at a node on the way, it is from the node that this request named,      *)
(* under that address or the one it got by the request (taskServer,        *)
(* returnToServer, the edClientAck branches).                              *)
AckForRequested ==
  \A a \in acks : a.cmd = "edClientAck" =>
    \E f \in issued :
      /\ f.sub = a.sub
      /\ a.whole =>
           /\ f.cmd = "edServerReq"
           /\ \/ a.src.gid = f.dst.gid /\ a.src.pid = f.dst.pid
              \/ /\ f.sub = "edsCmd_485NewSet"
                 /\ a.src.gid = f.role.gid /\ a.src.pid = f.role.pid

(* A lamp is forced only if a frame of the server names it, or its whole   *)
(* group, by the address it has at that moment; and to the level of such a *)
(* request, unless another frame came in over the request here or at a     *)
(* relay (isMyAddr, procControlSub, procAltSub).                           *)
ForcedBy(n, f) ==
  /\ f.cmd = "edServerReq" /\ f.sub \in {"edsControl", "edsCmd_Alternative"}
  /\ f.dst.gid = dev[n].addr.gid
  /\ f.dst.pid \in {0, dev[n].addr.pid}
  /\ f.ctr.level = dev'[n].target

ForcedByRequest ==
  [][\A n \in Node : dev'[n].forced /\ ~dev[n].forced =>
       Named(n) /\ (Untouched(n) => \E f \in issued : ForcedBy(n, f))]_vars

(* A lamp without a sensor ends up at the level of the transmitter of its  *)
(* group, whatever frames are lost: the transmitter repeats its state      *)
(* every second (proc1Sec, procRfRepeatCmd).                               *)
InGroupOf(n, t) == IsTx(dev[t].addr) /\ dev[n].chan = dev[t].chan

FollowsTransmitter ==
  <>[](\A n, t \in Node :
         Bare(n) /\ InGroupOf(n, t) /\ dev[t].mode = "run" =>
           dev[n].target = dev[t].target)

(* Two transmitters that share a channel do not go on unnoticed: one of    *)
(* them stops and blinks (procRfRepeatCmd calls conflictTx).               *)
DuplicateTx ==
  \E n, m \in Node : n # m /\ IsTx(dev[n].addr) /\ InGroupOf(n, m)

DuplicateIsReported ==
  []<>(DuplicateTx => \E n \in Node : dev[n].mode = "conflict")

(* A request does not circulate for ever between a gateway and the         *)
(* transmitters below it, which relay it by both media (taskRf and         *)
(* rs485Task, edServerReq).  What lies at a transmitter that stopped       *)
(* circulates no more; a request mixed with a transmitter's own frame, by  *)
(* which the gateway switches to that transmitter's channel, may for ever. *)
Frames(n) ==
  {rx[n].buf, rx[n].in, bus[n]} \cup {out[n][i].frame : i \in DOMAIN out[n]}

Travelling(n) ==
  /\ dev[n].mode = "run"
  /\ \E f \in Frames(n) \ {NoFrame} : f.cmd = "edServerReq" /\ f.whole

RequestsDieOut == <>[](\A n \in Node : ~Travelling(n))

(* The settings of a node that was moved to another group ("Change Group", *)
(* procServer.cpp:96) put its radio on the channel of that group.          *)
SavedChannelIsGroup == \A n \in Node : flash[n].chan = flash[n].addr.gid
=============================================================================
