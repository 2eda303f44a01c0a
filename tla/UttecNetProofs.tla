---------------------------- MODULE UttecNetProofs ----------------------------
(***************************************************************************)
(* Theorems about the lighting network, for any number of nodes, any tree  *)
(* of RS485 lines, any installation and any requests of the server, with   *)
(* frames lost or mixed in the buffers and any number of power cycles.     *)
(*                                                                         *)
(* Frames pass through receivers, queues and relays, and may be a mixture  *)
(* of several.  The invariant says of all of them at once what survives a  *)
(* mixture (each destination and each sub-command comes from a frame of    *)
(* the server) and what holds of a frame of one piece; and of each handler *)
(* what its earlier looks at the buffer found.                             *)
(***************************************************************************)
EXTENDS UttecNet, SequenceTheorems, TLAPS

AckAddr == [gid |-> 0, pid |-> 0, rxtx |-> "eMst"]

\* a answers a request among I, sent by the node that was asked.
Answered(a, I) ==
  \E f \in I :
    /\ f.cmd = "edServerReq" /\ f.sub = a.sub
    /\ \/ a.src.gid = f.dst.gid /\ a.src.pid = f.dst.pid
       \/ /\ f.sub = "edsCmd_485NewSet"
          /\ a.src.gid = f.role.gid /\ a.src.pid = f.role.pid

\* Each part of f comes from a node's own frame, an answer or a frame of I.
Pieces(f, I) ==
  /\ \/ f.dst = NoAddr \/ f.dst = AckAddr
     \/ \E g \in I : g.dst = f.dst
  /\ \/ f.sub = ErasedCmd /\ f.cmd # "edClientAck"
     \/ \E g \in I : g.sub = f.sub
  /\ ZeroIsNobody => f.role.gid # 0

OfOnePiece(f, I) ==
  /\ f.cmd = "edServerReq" => f \in I
  /\ ServerAsks /\ f.cmd = "edClientAck" => Answered(f, I)

\* Frames that may be under way when the server has sent those of I.
Genuine(I) == {f \in Frame : Pieces(f, I) /\ (f.whole => OfOnePiece(f, I))}
Pending(I) == [via : {"rf", "up", "down"}, frame : Genuine(I)]

\* The parts that have come in of a frame of one piece are its own.
Agree(r) ==
  r.in.whole =>
    /\ r.part >= 1 => r.buf.src = r.in.src /\ r.buf.sensor = r.in.sensor
    /\ r.part >= 2 => r.buf.ctr = r.in.ctr /\ r.buf.role = r.in.role
    /\ r.part >= 3 => r.buf.cmd = r.in.cmd /\ r.buf.sub = r.in.sub

Received(I) ==
  {r \in [buf : Genuine(I) \cup {NoFrame}, end : BOOLEAN,
          in : Genuine(I) \cup {NoFrame}, part : 0..3] :
     /\ r.end \/ r.in # NoFrame => r.buf # NoFrame
     /\ IF r.in = NoFrame THEN r.part = 0 ELSE Agree(r)}

\* Steps of a handler of edServerReq, and what its looks at frame f found, if
\* f is of one piece and alone.
AtRequest ==
  {"resend", "echoReq", "addr", "sub", "addr2", "act", "compose", "relay", "relayRf", "relayDown"}

Found(j, f, a) ==
  /\ j.pc \in AtRequest => f.cmd = "edServerReq"
  /\ j.pc = "reply" => f.cmd = "edClientAck"
  /\ j.pc = "repeat" => f.cmd = "edRepeat"
  /\ j.pc = "level" => f.cmd \in {"edVolume", "edDayLight"}
  /\ j.pc \in {"sub", "addr2", "act"} => IsMyAddr(f, a)
  /\ j.pc \in {"addr2", "act", "compose"} => j.sub = f.sub /\ ~Refused(f)
  /\ j.pc = "compose" =>
       \/ a.gid = f.dst.gid /\ a.pid = f.dst.pid
       \/ f.sub = "edsCmd_485NewSet" /\ a.gid = f.role.gid /\ a.pid = f.role.pid

\* A handler with job j reads buffer b at a node of address a.
JobOK(j, b, a, I) ==
  j.pc # "main" =>
    /\ b \in Genuine(I)
    /\ j.pc \in {"addr2", "act", "compose"} => \E g \in I : g.sub = j.sub
    /\ ZeroIsNobody /\ j.pc = "act" => \E g \in I : IsMyAddr(g, a)
    /\ j.alone /\ b.whole => Found(j, b, a)

\* No node takes edServerReq or edClientAck for a command of its own.
OwnCmd == Cmd \ {"edServerReq", "edClientAck"}
Somebody(a) == ZeroIsNobody => a.gid # 0 /\ a.rxtx # NoRole
Honest == {d \in Device : d.cmd \in OwnCmd /\ Somebody(d.addr)}
HonestPage == {p \in Page : p.cmd \in OwnCmd /\ Somebody(p.addr)}

NodesInv ==
  /\ dev \in [Node -> Honest]
  /\ flash \in [Node -> HonestPage]
  /\ \A n \in Node : flash[n].addr = dev[n].addr

QueuesInv ==
  /\ out \in [Node -> Seq(Pending(issued))]
  /\ \A n \in Node : out[n] # <<>> => At(n, "main")

RadioInv ==
  /\ rx \in [Node -> Received(issued)]
  /\ job \in [Node -> Job]
  /\ \A n \in Node : JobOK(job[n], rx[n].buf, dev[n].addr, issued)

LineInv ==
  /\ bus \in [Node -> Genuine(issued) \cup {NoFrame}]
  /\ issued \subseteq ServerFrame
  /\ acks \subseteq Genuine(issued)
  /\ events \in 0..MaxSensorEvents
  /\ cycles \in 0..MaxPowerCycles

IInv == NodesInv /\ QueuesInv /\ RadioInv /\ LineInv

\* What a step that executes no request leaves alone.
Keeps(e, d) == e.addr = d.addr /\ (e.forced => d.forced)
AddressKept == \A m \in Node : Keeps(dev'[m], dev[m])

\* What one that executes a request does to the node it names.
NamedOnly ==
  ZeroIsNobody => \A m \in Node :
    /\ dev'[m].addr # dev[m].addr => Named(m) /\ (Untouched(m) => Reassigned(m))
    /\ dev'[m].forced /\ ~dev[m].forced =>
         Named(m) /\ (Untouched(m) => \E f \in issued : ForcedBy(m, f))

-----------------------------------------------------------------------------
(* Frames.                                                                 *)

LEMMA Addresses ==
  /\ NoAddr \in Addr /\ AckAddr \in Addr /\ OwnRole \in Addr
  /\ ErasedCmd \in SubCmd /\ ErasedCmd \in OwnCmd /\ OwnCmd \subseteq Cmd
  /\ "edClientAck" \in Cmd
<1>1. ErasedGroup \in Group \cup {0, ErasedGroup}
  OBVIOUS
<1>2. ErasedPrivate \in Private \cup {ErasedPrivate}
  OBVIOUS
<1>3. NoAddr \in Addr
  BY <1>1, <1>2 DEF NoAddr, Addr, Role
<1>4. AckAddr \in Addr
  BY AddressAssumption DEF AckAddr, Addr, Role
<1> QED
  BY <1>3, <1>4, NetAssumption DEF SubCmd, OwnCmd, Cmd, ErasedCmd

LEMMA Fields ==
  ASSUME NEW d \in Honest
  PROVE  /\ d.addr \in Addr /\ d.ctr \in Ctr /\ d.target \in Level
         /\ d.ctr.high \in Level /\ d.ctr.low \in Level /\ d.ctr.level \in Level
         /\ d.sensor \in SensorType /\ d.cmd \in OwnCmd /\ Somebody(d.addr)
BY DEF Honest, Device, Ctr

LEMMA FrameFields ==
  ASSUME NEW f \in Frame
  PROVE  /\ f.src \in Addr /\ f.dst \in Addr /\ f.role \in Addr /\ f.ctr \in Ctr
         /\ f.ctr.high \in Level /\ f.ctr.low \in Level /\ f.ctr.level \in Level
         /\ f.sensor \in SensorType /\ f.sub \in SubCmd /\ f.cmd \in Cmd
         /\ f.whole \in BOOLEAN
BY DEF Frame, Ctr

LEMMA OwnFrameGenuine ==
  ASSUME NEW I, NEW d \in Honest
  PROVE  OwnFrame(d) \in Genuine(I)
<1> DEFINE f == OwnFrame(d)
<1>1. /\ f \in Frame /\ f.dst = NoAddr /\ f.sub = ErasedCmd /\ f.cmd \in OwnCmd
      /\ f.role = OwnRole
  BY Fields, Addresses DEF OwnFrame, Frame
<1>2. f.cmd # "edClientAck" /\ f.cmd # "edServerReq"
  BY <1>1 DEF OwnCmd
<1>3. ZeroIsNobody => f.role.gid # 0
  BY <1>1 DEF ZeroIsNobody
<1> HIDE DEF f
<1>4. Pieces(f, I)
  BY <1>1, <1>2, <1>3 DEF Pieces
<1>5. OfOnePiece(f, I)
  BY <1>2 DEF OfOnePiece
<1>6. f \in Genuine(I)
  BY <1>1, <1>4, <1>5 DEF Genuine
<1> QED
  BY <1>6 DEF f

\* Of one piece or not, an answer carries a sub-command of the server; of one
\* piece it is as good as the address its node has now.
LEMMA AckGenuine ==
  ASSUME NEW I, NEW d \in Honest, NEW sub \in SubCmd, NEW w \in BOOLEAN,
         \E g \in I : g.sub = sub,
         w => \E f \in I :
           /\ f.cmd = "edServerReq" /\ f.sub = sub
           /\ \/ d.addr.gid = f.dst.gid /\ d.addr.pid = f.dst.pid
              \/ /\ f.sub = "edsCmd_485NewSet"
                 /\ d.addr.gid = f.role.gid /\ d.addr.pid = f.role.pid
  PROVE  /\ [SetAckFrame(d, sub) EXCEPT !.whole = w] \in Genuine(I)
         /\ [SetAckFrame(d, sub) EXCEPT !.whole = w].cmd = "edClientAck"
<1> DEFINE a == SetAckFrame(d, sub)
           f == [a EXCEPT !.whole = w]
<1>1. /\ a \in Frame /\ a.dst = AckAddr /\ a.sub = sub /\ a.cmd = "edClientAck"
      /\ a.role = OwnRole /\ a.src = d.addr
  <2>1. OwnFrame(d) \in Frame /\ OwnFrame(d).role = OwnRole /\ OwnFrame(d).src = d.addr
    BY Fields, Addresses DEF OwnFrame, Frame
  <2> QED
    BY <2>1, Addresses DEF SetAckFrame, AckAddr, Frame
<1>2. /\ f \in Frame /\ f.dst = AckAddr /\ f.sub = sub /\ f.cmd = "edClientAck"
      /\ f.role = OwnRole /\ f.src = d.addr /\ f.whole = w
  <2> HIDE DEF a
  <2> QED BY <1>1 DEF Frame
<1>3. ZeroIsNobody => f.role.gid # 0
  BY <1>2 DEF ZeroIsNobody
<1> HIDE DEF f
<1>4. Pieces(f, I)
  BY <1>2, <1>3 DEF Pieces
<1>5. f.whole => Answered(f, I)
  BY <1>2 DEF Answered
<1>6. f \in Genuine(I)
  BY <1>2, <1>4, <1>5 DEF Genuine, OfOnePiece
<1> QED
  BY <1>2, <1>6 DEF f, a

\* A mixture of two genuine frames is one.
LEMMA WrittenGenuine ==
  ASSUME NEW I, NEW b \in Genuine(I), NEW f \in Genuine(I), NEW parts
  PROVE  Written(b, f, parts) \in Genuine(I)
<1> DEFINE x == Written(b, f, parts)
<1>1. b \in Frame /\ f \in Frame /\ Pieces(b, I) /\ Pieces(f, I)
  BY DEF Genuine
<1>2. /\ x.dst \in {b.dst, f.dst} /\ x.role \in {b.role, f.role}
      /\ \/ x.cmd = b.cmd /\ x.sub = b.sub
         \/ x.cmd = f.cmd /\ x.sub = f.sub
      /\ x.whole = FALSE
  BY DEF Written
<1>3. x \in Frame
  BY <1>1 DEF Written, Frame
<1> HIDE DEF x
<1>4. Pieces(x, I)
  BY <1>1, <1>2 DEF Pieces
<1> QED
  BY <1>2, <1>3, <1>4 DEF Genuine, x

\* So is a frame of which less is known.
LEMMA LessWhole ==
  ASSUME NEW I, NEW f \in Genuine(I), NEW w \in BOOLEAN, w => f.whole
  PROVE  /\ [f EXCEPT !.whole = w] \in Genuine(I)
         /\ [f EXCEPT !.whole = w].whole = w
<1> DEFINE x == [f EXCEPT !.whole = w]
<1>1. /\ x \in Frame /\ x.whole = w /\ x.cmd = f.cmd /\ x.sub = f.sub /\ x.dst = f.dst
      /\ x.role = f.role /\ x.src = f.src
  BY DEF Genuine, Frame
<1>2. w => x = f
  BY DEF Genuine, Frame
<1> HIDE DEF x
<1>3. Pieces(x, I)
  BY <1>1 DEF Genuine, Pieces
<1>4. w => OfOnePiece(x, I)
  BY <1>2 DEF Genuine
<1> QED
  BY <1>1, <1>3, <1>4 DEF Genuine, x

\* The server only adds to what it sent.
LEMMA GenuineGrows ==
  ASSUME NEW I, NEW J, I \subseteq J
  PROVE  /\ Genuine(I) \subseteq Genuine(J)
         /\ Seq(Pending(I)) \subseteq Seq(Pending(J))
         /\ Received(I) \subseteq Received(J)
         /\ \A j, b, a : JobOK(j, b, a, I) => JobOK(j, b, a, J)
<1>1. Genuine(I) \subseteq Genuine(J)
  BY DEF Genuine, Pieces, OfOnePiece, Answered
<1>2. Pending(I) \subseteq Pending(J)
  BY <1>1 DEF Pending
<1>3. Received(I) \subseteq Received(J)
  BY <1>1 DEF Received
<1> QED
  BY <1>1, <1>2, <1>3, SeqMonotonic DEF JobOK

-----------------------------------------------------------------------------
(* Receivers and queues.                                                   *)

\* What the queue of a handler of a bus frame or of a timer is made of.
LEMMA QueueOfOne ==
  ASSUME NEW I, NEW f \in Genuine(I)
  PROVE  ByRf(f) \in Seq(Pending(I)) /\ Up(f) \in Seq(Pending(I)) /\ Down(f) \in Seq(Pending(I))
<1>1. \A via \in {"rf", "up", "down"} : [via |-> via, frame |-> f] \in Pending(I)
  BY DEF Pending
<1> QED
  BY <1>1 DEF ByRf, Up, Down

LEMMA QueueOfTwo ==
  ASSUME NEW I, NEW f \in Genuine(I)
  PROVE  /\ ByRf(f) \o ByRf(f) \in Seq(Pending(I))
         /\ ByRf(f) \o Down(f) \in Seq(Pending(I))
         /\ Down(f) \o ByRf(f) \in Seq(Pending(I))
BY QueueOfOne, ConcatProperties

LEMMA NothingQueued == ASSUME NEW I PROVE <<>> \in Seq(Pending(I))
BY EmptySeq

\* Another part of a frame comes in over the buffer.
LEMMA NextPartReceived ==
  ASSUME NEW I, NEW r \in Received(I), r.in # NoFrame
  PROVE  /\ NextPart(r) \in Received(I) /\ Complete(r) \in Received(I)
         /\ NextPart(r).buf \in Genuine(I)
<1>1. /\ r.buf \in Genuine(I) /\ r.in \in Genuine(I) /\ r.part \in 0..3 /\ Agree(r)
      /\ r.end \in BOOLEAN
  BY DEF Received
<1>2. NoFrame \notin Genuine(I)
  BY NetAssumption DEF Genuine
<1>3. Complete(r) \in Received(I) /\ Complete(r).buf \in Genuine(I)
  <2> DEFINE x == Written(r.buf, r.in, r.part + 1 .. 4)
             y == [x EXCEPT !.whole = r.in.whole]
  <2>1. x \in Genuine(I)
    BY <1>1, WrittenGenuine
  <2>2. r.in.whole => y = r.in
    <3> SUFFICES ASSUME r.in.whole PROVE y = r.in
      OBVIOUS
    <3>1. r.in \in Frame /\ r.in.whole = TRUE
      BY <1>1 DEF Genuine, Frame
    <3>2. r.part \in {0, 1, 2, 3}
      BY <1>1
    <3>3. /\ x.src = r.in.src /\ x.sensor = r.in.sensor
          /\ x.ctr = r.in.ctr /\ x.role = r.in.role
          /\ x.cmd = r.in.cmd /\ x.sub = r.in.sub /\ x.dst = r.in.dst
      BY <1>1, <3>2 DEF Written, Agree
    <3>4. x \in Frame
      BY <2>1 DEF Genuine
    <3> HIDE DEF x
    <3> QED BY <3>1, <3>3, <3>4 DEF Frame
  <2>3. ~r.in.whole => y \in Genuine(I)
    <3> SUFFICES ASSUME ~r.in.whole PROVE y \in Genuine(I)
      OBVIOUS
    <3>1. r.in.whole = FALSE
      BY <1>1 DEF Genuine, Frame
    <3> HIDE DEF x
    <3> QED BY <2>1, <3>1, LessWhole
  <2>4. y \in Genuine(I)
    <3> HIDE DEF y
    <3> QED BY <1>1, <2>2, <2>3
  <2>5. Complete(r) = [NoReception EXCEPT !.buf = y, !.end = TRUE]
    BY DEF Complete
  <2> HIDE DEF y
  <2>6. /\ Complete(r) \in [buf : Genuine(I) \cup {NoFrame}, end : BOOLEAN,
                            in : Genuine(I) \cup {NoFrame}, part : 0..3]
        /\ Complete(r).buf = y /\ Complete(r).in = NoFrame /\ Complete(r).part = 0
    <3>1. /\ NoReception \in [buf : {NoFrame}, end : BOOLEAN, in : {NoFrame}, part : 0..3]
          /\ NoReception.in = NoFrame /\ NoReception.part = 0
      BY DEF NoReception
    <3> QED
      BY <2>4, <2>5, <3>1
  <2> QED
    BY <2>4, <2>6, <1>2 DEF Received
<1>4. CASE r.part = 3
  BY <1>3, <1>4 DEF NextPart
<1>5. CASE r.part # 3
  <2> DEFINE x == Written(r.buf, r.in, {r.part + 1})
             y == [r EXCEPT !.buf = x, !.part = r.part + 1]
  <2>1. NextPart(r) = y
    BY <1>5 DEF NextPart
  <2>2. x \in Genuine(I)
    BY <1>1, WrittenGenuine
  <2>3. r.part \in {0, 1, 2}
    BY <1>1, <1>5
  <2>4. r.in.whole =>
          /\ r.part + 1 >= 1 => x.src = r.in.src /\ x.sensor = r.in.sensor
          /\ r.part + 1 >= 2 => x.ctr = r.in.ctr /\ x.role = r.in.role
          /\ r.part + 1 >= 3 => x.cmd = r.in.cmd /\ x.sub = r.in.sub
    BY <1>1, <2>3 DEF Written, Agree
  <2> HIDE DEF x
  <2>5. /\ y \in [buf : Genuine(I) \cup {NoFrame}, end : BOOLEAN,
                  in : Genuine(I) \cup {NoFrame}, part : 0..3]
        /\ y.in = r.in /\ y.part = r.part + 1 /\ y.buf = x
    <3>1. \A p \in 0..3 :
            LET z == [r EXCEPT !.buf = x, !.part = p]
            IN  /\ z \in [buf : Genuine(I) \cup {NoFrame}, end : BOOLEAN,
                          in : Genuine(I) \cup {NoFrame}, part : 0..3]
                /\ z.in = r.in /\ z.part = p /\ z.buf = x
      BY <2>2 DEF Received
    <3>2. r.part + 1 \in 0..3
      BY <2>3
    <3> QED
      BY <3>1, <3>2
  <2> HIDE DEF y
  <2> QED
    BY <1>2, <1>3, <2>1, <2>2, <2>4, <2>5 DEF Received, Agree
<1> QED
  BY <1>4, <1>5

LEMMA RestReceived ==
  ASSUME NEW I, NEW r \in Received(I)
  PROVE  Rest(r) \in Received(I)
<1>1. NoReception \in Received(I)
  BY DEF NoReception, Received
<1> QED
  BY <1>1, NextPartReceived DEF Rest, Received

\* A frame that a node hears unseen, and its own buffer after it sent.
LEMMA HeardReceived ==
  ASSUME NEW I, NEW f \in Genuine(I), NEW own \in Genuine(I) \cup {NoFrame}
  PROVE  /\ [NoReception EXCEPT !.buf = f, !.end = TRUE] \in Received(I)
         /\ [NoReception EXCEPT !.buf = own] \in Received(I)
         /\ [NoReception EXCEPT !.buf = own].buf = own
<1>1. /\ NoReception \in [buf : {NoFrame}, end : {FALSE}, in : {NoFrame}, part : 0..3]
      /\ NoReception.in = NoFrame /\ NoReception.part = 0
  BY DEF NoReception
<1>2. f # NoFrame
  BY NetAssumption DEF Genuine
<1> DEFINE x == [NoReception EXCEPT !.buf = f, !.end = TRUE]
           y == [NoReception EXCEPT !.buf = own]
<1>3. /\ x \in [buf : Genuine(I) \cup {NoFrame}, end : BOOLEAN,
                in : Genuine(I) \cup {NoFrame}, part : 0..3]
      /\ x.buf = f /\ x.in = NoFrame /\ x.part = 0
  BY <1>1
<1>4. /\ y \in [buf : Genuine(I) \cup {NoFrame}, end : BOOLEAN,
                in : Genuine(I) \cup {NoFrame}, part : 0..3]
      /\ y.buf = own /\ y.in = NoFrame /\ y.part = 0 /\ y.end = FALSE
  BY <1>1
<1> HIDE DEF x, y
<1>5. x \in Received(I)
  BY <1>2, <1>3 DEF Received
<1>6. y \in Received(I) /\ y.buf = own
  BY <1>4 DEF Received
<1> QED
  BY <1>5, <1>6 DEF x, y

\* A frame begins to come in at a node whose handler runs.
LEMMA BeginReceived ==
  ASSUME NEW I, NEW f \in Genuine(I), NEW r \in Received(I), r.in = NoFrame, r.buf # NoFrame
  PROVE  /\ [r EXCEPT !.in = f] \in Received(I)
         /\ [r EXCEPT !.in = f].buf = r.buf
<1> DEFINE x == [r EXCEPT !.in = f]
<1>1. /\ x \in [buf : Genuine(I) \cup {NoFrame}, end : BOOLEAN,
                in : Genuine(I) \cup {NoFrame}, part : 0..3]
      /\ x.buf = r.buf /\ x.in = f /\ x.part = 0
  BY DEF Received
<1> HIDE DEF x
<1>2. x \in Received(I) /\ x.buf = r.buf
  BY <1>1 DEF Received, Agree
<1> QED
  BY <1>2 DEF x

-----------------------------------------------------------------------------
(* Steps of one node.                                                      *)

\* A node's own RAM changes.
LEMMA NodeStep ==
  ASSUME IInv, NEW n \in Node, NEW e \in Honest, Keeps(e, dev[n]),
         dev' = [dev EXCEPT ![n] = e], UNCHANGED flash
  PROVE  NodesInv' /\ AddressKept
BY DEF IInv, NodesInv, AddressKept, Keeps

LEMMA NoNodeStep ==
  ASSUME IInv, UNCHANGED <<dev, flash>>
  PROVE  NodesInv' /\ AddressKept
BY DEF IInv, NodesInv, AddressKept, Keeps

\* The receiver and the handler of one node change, and perhaps its address.
LEMMA HandlerStep ==
  ASSUME IInv, NEW n \in Node, \A m \in Node \ {n} : dev'[m].addr = dev[m].addr,
         NEW r \in Received(issued), NEW j \in Job, JobOK(j, r.buf, dev'[n].addr, issued),
         rx' = [rx EXCEPT ![n] = r], job' = [job EXCEPT ![n] = j], UNCHANGED issued
  PROVE  RadioInv'
<1>1. /\ rx \in [Node -> Received(issued)] /\ job \in [Node -> Job]
      /\ \A m \in Node : JobOK(job[m], rx[m].buf, dev[m].addr, issued)
  BY DEF IInv, RadioInv
<1>2. rx' \in [Node -> Received(issued)] /\ job' \in [Node -> Job]
  BY <1>1
<1>3. ASSUME NEW m \in Node
      PROVE  JobOK(job'[m], rx'[m].buf, dev'[m].addr, issued)
  <2>1. CASE m = n
    BY <1>1, <2>1
  <2>2. CASE m # n
    <3>1. job'[m] = job[m] /\ rx'[m] = rx[m] /\ dev'[m].addr = dev[m].addr
      BY <1>1, <2>2
    <3> QED BY <1>1, <3>1
  <2> QED
    BY <2>1, <2>2
<1> QED
  BY <1>2, <1>3 DEF RadioInv

LEMMA SameAddress ==
  ASSUME AddressKept PROVE \A m \in Node : dev'[m].addr = dev[m].addr
BY DEF AddressKept, Keeps

LEMMA NoHandlerStep ==
  ASSUME IInv, AddressKept, UNCHANGED <<rx, job, issued>>
  PROVE  RadioInv'
BY DEF IInv, RadioInv, AddressKept, Keeps

\* What lies on the lines changes, or nothing does.
LEMMA NoLineStep ==
  ASSUME IInv, UNCHANGED <<bus, issued, acks, events, cycles>>
  PROVE  LineInv'
BY DEF IInv, LineInv

\* While a handler of a radio frame runs, nothing is queued.
LEMMA NoQueueStep ==
  ASSUME IInv, NEW n \in Node, NEW j, ~At(n, "main") \/ out[n] = <<>>,
         UNCHANGED <<out, issued>>, job' = [job EXCEPT ![n] = j]
  PROVE  QueuesInv'
<1>1. job \in [Node -> Job] /\ out[n] = <<>>
  BY DEF IInv, RadioInv, QueuesInv
<1> QED
  BY <1>1 DEF IInv, QueuesInv, At

\* A handler goes on after a look, or returns.
LEMMA ContinueStep ==
  ASSUME IInv, NEW n \in Node, \A m \in Node \ {n} : dev'[m].addr = dev[m].addr,
         NEW pc \in Place, ~At(n, "main"), Continue(n, pc),
         pc # "main" => JobOK([job[n] EXCEPT !.pc = pc], rx[n].buf, dev'[n].addr, issued),
         UNCHANGED <<out, issued>>
  PROVE  RadioInv' /\ QueuesInv'
<1>1. rx[n] \in Received(issued) /\ job[n] \in Job /\ rx \in [Node -> Received(issued)]
  BY DEF IInv, RadioInv
<1>2. CASE pc = "main"
  <2>1. NoJob \in Job /\ NoJob.pc = "main"
    BY Addresses DEF NoJob, Job, Place
  <2>2. job' = [job EXCEPT ![n] = NoJob] /\ rx' = [rx EXCEPT ![n] = Rest(rx[n])]
    BY <1>2, <1>1 DEF Continue, Goto
  <2>3. Rest(rx[n]) \in Received(issued)
    BY <1>1, RestReceived
  <2>4. JobOK(NoJob, Rest(rx[n]).buf, dev'[n].addr, issued)
    BY <2>1 DEF JobOK
  <2> QED
    BY <2>1, <2>2, <2>3, <2>4, HandlerStep, NoQueueStep
<1>3. CASE pc # "main"
  <2> DEFINE j == [job[n] EXCEPT !.pc = pc]
  <2>1. job' = [job EXCEPT ![n] = j] /\ rx' = rx
    BY <1>3 DEF Continue, Goto
  <2>2. j \in Job
    BY <1>1 DEF Job
  <2>3. JobOK(j, rx[n].buf, dev'[n].addr, issued)
    BY <1>3
  <2> HIDE DEF j
  <2>4. rx' = [rx EXCEPT ![n] = rx[n]]
    BY <1>1, <2>1
  <2> QED
    BY <1>1, <2>1, <2>2, <2>3, <2>4, HandlerStep, NoQueueStep
<1> QED
  BY <1>2, <1>3

\* What a handler at pc knows of the frame it reads.
LEMMA Reading ==
  ASSUME IInv, NEW n \in Node, ~At(n, "main")
  PROVE  /\ rx[n] \in Received(issued) /\ rx[n].buf \in Genuine(issued)
         /\ rx[n].buf \in Frame /\ dev[n] \in Honest
         /\ job[n] \in Job /\ JobOK(job[n], rx[n].buf, dev[n].addr, issued)
BY DEF IInv, RadioInv, NodesInv, JobOK, At, Genuine

-----------------------------------------------------------------------------
(* The handlers of radio frames.                                           *)

LEMMA PollStep ==
  ASSUME IInv, NEW n \in Node, Poll(n)
  PROVE  IInv' /\ AddressKept
<1> DEFINE e == [dev[n] EXCEPT !.on = dev[n].chan]
           r == [rx[n] EXCEPT !.end = FALSE]
           j == [job[n] EXCEPT !.pc = "task"]
<1>1. /\ rx[n] \in Received(issued) /\ job[n] \in Job /\ dev[n] \in Honest
      /\ out[n] = <<>> /\ rx[n].end
      /\ dev' = [dev EXCEPT ![n] = e] /\ rx' = [rx EXCEPT ![n] = r]
      /\ job' = [job EXCEPT ![n] = j]
      /\ UNCHANGED <<flash, out, bus, issued, acks, events, cycles>>
  BY DEF Poll, Idle, IInv, RadioInv, NodesInv
<1>2. e \in Honest /\ Keeps(e, dev[n])
  BY <1>1 DEF Honest, Device, Keeps
<1>3. rx[n].buf \in Genuine(issued)
  BY <1>1 DEF Received
<1>4. r \in Received(issued) /\ r.buf = rx[n].buf
  <2>1. /\ r \in [buf : Genuine(issued) \cup {NoFrame}, end : BOOLEAN,
                  in : Genuine(issued) \cup {NoFrame}, part : 0..3]
        /\ r.buf = rx[n].buf /\ r.in = rx[n].in /\ r.part = rx[n].part
    BY <1>1 DEF Received
  <2>2. NoFrame \notin Genuine(issued)
    BY NetAssumption DEF Genuine
  <2> HIDE DEF r
  <2> QED BY <1>1, <1>3, <2>1, <2>2 DEF Received, Agree
<1>5. j \in Job /\ j.pc = "task"
  BY <1>1 DEF Job, Place
<1> HIDE DEF e, r, j
<1>6. JobOK(j, r.buf, dev[n].addr, issued)
  BY <1>3, <1>4, <1>5 DEF JobOK, Found, AtRequest
<1>7. NodesInv' /\ AddressKept
  BY <1>1, <1>2, NodeStep
<1> QED
  BY <1>1, <1>4, <1>5, <1>6, <1>7, SameAddress, HandlerStep, NoLineStep, NoQueueStep DEF IInv

LEMMA GoOn ==
  ASSUME IInv, NEW n \in Node, NEW pc
  PROVE  /\ [job[n] EXCEPT !.pc = pc].pc = pc
         /\ [job[n] EXCEPT !.pc = pc].sub = job[n].sub
         /\ [job[n] EXCEPT !.pc = pc].alone = job[n].alone
BY DEF IInv, RadioInv, Job

LEMMA ReadCmdStep ==
  ASSUME IInv, NEW n \in Node, ReadCmd(n)
  PROVE  IInv' /\ AddressKept
<1> DEFINE pc == HandlerOf(rx[n].buf.cmd, dev[n])
           j == [job[n] EXCEPT !.pc = pc]
<1>1. /\ ~At(n, "main") /\ Continue(n, pc)
      /\ UNCHANGED <<dev, flash, out, bus, issued, acks, events, cycles>>
  BY DEF ReadCmd, Looks, At
<1>2. /\ pc \in {"main", "resend", "addr", "reply", "sensor", "repeat", "level"}
      /\ pc \in {"resend", "addr"} => rx[n].buf.cmd = "edServerReq"
      /\ pc = "reply" => rx[n].buf.cmd = "edClientAck"
      /\ pc = "repeat" => rx[n].buf.cmd = "edRepeat"
      /\ pc = "level" => rx[n].buf.cmd \in {"edVolume", "edDayLight"}
  BY DEF HandlerOf
<1>3. pc \in Place
  BY <1>2 DEF Place
<1>4. j.pc = pc
  BY GoOn
<1> HIDE DEF pc, j
<1>5. JobOK(j, rx[n].buf, dev[n].addr, issued)
  BY <1>1, <1>2, <1>4, Reading DEF JobOK, Found, AtRequest
<1>6. NodesInv' /\ AddressKept
  BY <1>1, NoNodeStep
<1> QED
  BY <1>1, <1>3, <1>5, <1>6, SameAddress, ContinueStep, NoLineStep DEF IInv, j

\* A handler that changes the node's RAM at one look.
LEMMA TakesFrame ==
  ASSUME IInv, NEW n \in Node, NEW e \in Honest, Keeps(e, dev[n]),
         NEW pc \in {"main", "echo"},
         NEW from, Looks(n, from), from # "main",
         dev' = [dev EXCEPT ![n] = e], Continue(n, pc), UNCHANGED flash
  PROVE  IInv' /\ AddressKept
<1> DEFINE j == [job[n] EXCEPT !.pc = pc]
<1>1. ~At(n, "main") /\ UNCHANGED <<out, bus, issued, acks, events, cycles>>
  BY DEF Looks, At
<1>2. NodesInv' /\ AddressKept
  BY NodeStep
<1>3. j.pc = pc
  BY GoOn
<1> HIDE DEF j
<1>4. JobOK(j, rx[n].buf, dev[n].addr, issued)
  BY <1>1, <1>3, Reading DEF JobOK, Found, AtRequest
<1> QED
  BY <1>1, <1>2, <1>4, SameAddress, ContinueStep, NoLineStep DEF IInv, Place, j

LEMMA SensorCmdStep ==
  ASSUME IInv, NEW n \in Node, ProcRfSensorCmd(n)
  PROVE  IInv' /\ AddressKept
<1> DEFINE d == dev[n]
           f == rx[n].buf
           a == [d EXCEPT !.target = IF IsRx(d.addr) => Bare(n) THEN d.ctr.high ELSE @]
           e == [a EXCEPT !.dim = IF Bare(n) THEN f.sensor ELSE @]
           pc == IF ResendSensorByRfRepeater(d, f) THEN "echo" ELSE "main"
<1>1. Looks(n, "sensor") /\ Continue(n, pc) /\ flash' = flash
  BY DEF ProcRfSensorCmd
<1>2. d \in Honest /\ f \in Frame
  BY <1>1, Reading DEF Looks, At
<1>3. a \in Honest /\ Keeps(a, d)
  BY <1>2, Fields DEF Honest, Device, Keeps
<1>4. e \in Honest /\ Keeps(e, d)
  <2> HIDE DEF a
  <2> QED BY <1>2, <1>3, FrameFields DEF Honest, Device, Keeps
<1>5. dev' = [dev EXCEPT ![n] = e]
  BY DEF ProcRfSensorCmd, IInv, NodesInv
<1> HIDE DEF e
<1> QED
  BY <1>1, <1>4, <1>5, TakesFrame

LEMMA RepeatCmdStep ==
  ASSUME IInv, NEW n \in Node, ProcRfRepeatCmd(n)
  PROVE  IInv' /\ AddressKept
<1> DEFINE d == dev[n]
           f == rx[n].buf
           taken == [d EXCEPT !.ctr = f.ctr, !.dim = f.sensor, !.target = f.ctr.level]
           e == CASE IsTx(d.addr) -> ConflictTx(d)
                  [] Bare(n) -> taken
                  [] OTHER -> [d EXCEPT !.ctr = f.ctr]
<1>1. /\ Looks(n, "repeat") /\ Continue(n, "main") /\ flash' = flash
      /\ dev' = [dev EXCEPT ![n] = e]
  BY DEF ProcRfRepeatCmd
<1>2. d \in Honest /\ f \in Frame
  BY <1>1, Reading DEF Looks, At
<1>3. taken \in Honest /\ Keeps(taken, d)
  BY <1>2, FrameFields DEF Honest, Device, Keeps
<1>4. [d EXCEPT !.ctr = f.ctr] \in Honest /\ Keeps([d EXCEPT !.ctr = f.ctr], d)
  BY <1>2, FrameFields DEF Honest, Device, Keeps
<1>5. ConflictTx(d) \in Honest /\ Keeps(ConflictTx(d), d)
  BY <1>2 DEF ConflictTx, Honest, Device, Keeps
<1>6. e \in Honest /\ Keeps(e, d)
  <2> HIDE DEF taken
  <2>1. e \in {ConflictTx(d), taken, [d EXCEPT !.ctr = f.ctr]}
    <3>1. IsTx(d.addr) => ~Bare(n)
      BY DEF IsTx, Bare, IsRx
    <3> QED BY <3>1
  <2> HIDE DEF e
  <2> QED BY <1>3, <1>4, <1>5, <2>1
<1> HIDE DEF e
<1> QED
  BY <1>1, <1>6, TakesFrame

LEMMA LevelCmdStep ==
  ASSUME IInv, NEW n \in Node, ProcRfLevelCmd(n)
  PROVE  IInv' /\ AddressKept
<1> DEFINE d == dev[n]
           f == rx[n].buf
           taken == [d EXCEPT !.dim = "eVolume", !.ctr.level = f.ctr.level,
                              !.target = f.ctr.level]
           e == IF IsTx(d.addr) THEN ConflictTx(d) ELSE taken
           pc == IF ResendByRfRepeater(d, f) THEN "echo" ELSE "main"
<1>1. /\ Looks(n, "level") /\ Continue(n, pc) /\ flash' = flash
      /\ dev' = [dev EXCEPT ![n] = e]
  BY DEF ProcRfLevelCmd
<1>2. d \in Honest /\ f \in Frame
  BY <1>1, Reading DEF Looks, At
<1>3. taken \in Honest /\ Keeps(taken, d)
  BY <1>2, FrameFields, Fields DEF Honest, Device, Ctr, SensorType, Keeps
<1>4. ConflictTx(d) \in Honest /\ Keeps(ConflictTx(d), d)
  BY <1>2 DEF ConflictTx, Honest, Device, Keeps
<1>5. e \in Honest /\ Keeps(e, d)
  <2> HIDE DEF taken
  <2> QED BY <1>3, <1>4
<1> HIDE DEF e
<1> QED
  BY <1>1, <1>5, TakesFrame

\* A look that only decides where the handler goes on.
LEMMA LooksOnly ==
  ASSUME IInv, NEW n \in Node, NEW pc \in Place, NEW from, Looks(n, from), from # "main",
         Continue(n, pc), UNCHANGED <<dev, flash>>,
         pc # "main" => JobOK([job[n] EXCEPT !.pc = pc], rx[n].buf, dev[n].addr, issued)
  PROVE  IInv' /\ AddressKept
<1>1. ~At(n, "main") /\ UNCHANGED <<out, bus, issued, acks, events, cycles>>
  BY DEF Looks, At
<1>2. NodesInv' /\ AddressKept
  BY NoNodeStep
<1> QED
  BY <1>1, <1>2, SameAddress, ContinueStep, NoLineStep DEF IInv

LEMMA ResendRequestStep ==
  ASSUME IInv, NEW n \in Node, ResendRequest(n)
  PROVE  IInv' /\ AddressKept
<1> DEFINE pc == IF ResendByRfRepeater(dev[n], rx[n].buf) THEN "echoReq" ELSE "addr"
           j == [job[n] EXCEPT !.pc = pc]
<1>1. Looks(n, "resend") /\ Continue(n, pc) /\ UNCHANGED <<dev, flash>>
  BY DEF ResendRequest
<1>2. pc \in {"echoReq", "addr"} /\ pc \in Place
  BY DEF Place
<1>3. j.pc = pc /\ j.alone = job[n].alone /\ job[n].pc = "resend"
  BY <1>1, GoOn DEF Looks, At
<1>4. JobOK(job[n], rx[n].buf, dev[n].addr, issued)
  BY <1>1, Reading DEF Looks, At
<1> HIDE DEF pc, j
<1>5. JobOK(j, rx[n].buf, dev[n].addr, issued)
  BY <1>2, <1>3, <1>4 DEF JobOK, Found, AtRequest
<1> QED
  BY <1>1, <1>2, <1>5, LooksOnly DEF j

LEMMA CheckAddrStep ==
  ASSUME IInv, NEW n \in Node, CheckAddr(n)
  PROVE  IInv' /\ AddressKept
<1> DEFINE mine == IsMyAddr(rx[n].buf, dev[n].addr)
           pc == CASE mine -> "sub"
                   [] ~mine /\ IsMstOrGw(dev[n].addr) -> "relay"
                   [] ~mine /\ IsTx(dev[n].addr) -> "relayDown"
                   [] OTHER -> "main"
           j == [job[n] EXCEPT !.pc = pc]
<1>1. Looks(n, "addr") /\ Continue(n, pc) /\ UNCHANGED <<dev, flash>>
  BY DEF CheckAddr
<1>2. /\ pc \in {"sub", "relay", "relayDown", "main"} /\ pc \in Place
      /\ pc = "sub" => mine
  <2> HIDE DEF mine
  <2>1. IsTx(dev[n].addr) => ~IsMstOrGw(dev[n].addr)
    BY DEF IsTx, IsMstOrGw, IsMst, IsGw
  <2> QED BY <2>1 DEF Place
<1>3. j.pc = pc /\ j.alone = job[n].alone /\ job[n].pc = "addr"
  BY <1>1, GoOn DEF Looks, At
<1>4. JobOK(job[n], rx[n].buf, dev[n].addr, issued)
  BY <1>1, Reading DEF Looks, At
<1> HIDE DEF pc, j
<1>5. JobOK(j, rx[n].buf, dev[n].addr, issued)
  BY <1>2, <1>3, <1>4 DEF JobOK, Found, AtRequest
<1> QED
  BY <1>1, <1>2, <1>5, LooksOnly DEF j

LEMMA ReadSubStep ==
  ASSUME IInv, NEW n \in Node, ReadSub(n)
  PROVE  IInv' /\ AddressKept
<1> DEFINE f == rx[n].buf
           j == [job[n] EXCEPT !.pc = "addr2", !.sub = f.sub]
<1>1. Looks(n, "sub") /\ UNCHANGED <<dev, flash>> /\ job[n].pc = "sub" /\ ~At(n, "main")
  BY DEF ReadSub, Looks, At
<1>2. CASE Refused(f) /\ Continue(n, "main")
  BY <1>1, <1>2, LooksOnly DEF Place
<1>3. CASE ~Refused(f) /\ job' = [job EXCEPT ![n] = j] /\ rx' = rx
  <2>1. /\ f \in Genuine(issued) /\ f \in Frame /\ job[n] \in Job
        /\ rx[n] \in Received(issued)
        /\ JobOK(job[n], f, dev[n].addr, issued)
    BY <1>1, Reading
  <2>2. j \in Job /\ j.pc = "addr2" /\ j.sub = f.sub /\ j.alone = job[n].alone
    BY <2>1, FrameFields DEF Job, Place
  <2>3. \E g \in issued : g.sub = f.sub
    <3>1. f.sub # ErasedCmd
      BY <1>3 DEF Refused, Executed, ErasedCmd
    <3> QED BY <2>1, <3>1 DEF Genuine, Pieces
  <2> HIDE DEF j
  <2>4. JobOK(j, f, dev[n].addr, issued)
    BY <1>1, <1>3, <2>1, <2>2, <2>3 DEF JobOK, Found, AtRequest
  <2>5. rx' = [rx EXCEPT ![n] = rx[n]]
    BY <1>3 DEF IInv, RadioInv
  <2>6. UNCHANGED <<out, bus, issued, acks, events, cycles>>
    BY <1>1 DEF Looks
  <2>7. NodesInv' /\ AddressKept
    BY <1>1, NoNodeStep
  <2> QED
    BY <1>1, <1>3, <2>1, <2>2, <2>4, <2>5, <2>6, <2>7, SameAddress, HandlerStep,
       NoQueueStep, NoLineStep
    DEF IInv
<1> QED
  BY <1>2, <1>3 DEF ReadSub

\* A buffer whose destination is the node's address has it from the server.
LEMMA NamedByFrame ==
  ASSUME NEW I, NEW f \in Genuine(I), NEW a \in Addr, Somebody(a), ZeroIsNobody,
         IsMyAddr(f, a)
  PROVE  \E g \in I : IsMyAddr(g, a)
<1>1. a.gid # 0 /\ a.rxtx # NoRole
  BY DEF Somebody
<1>2. f.dst # AckAddr
  BY <1>1 DEF IsMyAddr, AckAddr
<1>3. f.dst # NoAddr
  BY <1>1 DEF IsMyAddr, NoAddr, ErasedPrivate
<1> QED
  BY <1>2, <1>3 DEF Genuine, Pieces, IsMyAddr

LEMMA CheckAddrAgainStep ==
  ASSUME IInv, NEW n \in Node, CheckAddrAgain(n)
  PROVE  IInv' /\ AddressKept
<1> DEFINE f == rx[n].buf
           mine == IsMyAddr(f, dev[n].addr)
           pc == IF mine THEN "act"
                 ELSE IF AnswersAnyway(dev[n], job[n].sub) THEN "compose" ELSE "main"
           j == [job[n] EXCEPT !.pc = pc]
<1>1. Looks(n, "addr2") /\ Continue(n, pc) /\ UNCHANGED <<dev, flash>>
  BY DEF CheckAddrAgain
<1>2. /\ pc \in {"act", "compose", "main"} /\ pc \in Place
      /\ pc = "act" <=> mine
  BY DEF Place
<1>3. j.pc = pc /\ j.sub = job[n].sub /\ j.alone = job[n].alone /\ job[n].pc = "addr2"
  BY <1>1, GoOn DEF Looks, At
<1>4. /\ JobOK(job[n], f, dev[n].addr, issued) /\ f \in Genuine(issued)
      /\ dev[n].addr \in Addr /\ Somebody(dev[n].addr)
  BY <1>1, Reading, Fields DEF Looks, At
<1> HIDE DEF pc, j
<1>5. ZeroIsNobody /\ pc = "act" => \E g \in issued : IsMyAddr(g, dev[n].addr)
  BY <1>2, <1>4, NamedByFrame
<1>6. \E g \in issued : g.sub = job[n].sub
  BY <1>3, <1>4 DEF JobOK
<1>7. job[n].alone /\ f.whole => Found(job[n], f, dev[n].addr)
  BY <1>3, <1>4 DEF JobOK
<1>8. job[n].alone /\ f.whole => Found(j, f, dev[n].addr)
  BY <1>2, <1>3, <1>7 DEF Found, AtRequest
<1>9. JobOK(j, f, dev[n].addr, issued)
  BY <1>2, <1>3, <1>4, <1>5, <1>6, <1>8 DEF JobOK
<1> QED
  BY <1>1, <1>2, <1>9, LooksOnly DEF j

-----------------------------------------------------------------------------
(* Requests that are executed.                                             *)

LEMMA TaskServerHonest ==
  ASSUME NEW I, NEW d \in Honest, NEW f \in Genuine(I), NEW sub \in SubCmd
  PROVE  /\ TaskServer(d, sub, f) \in Honest
         /\ sub # "edsCmd_485NewSet" => TaskServer(d, sub, f).addr = d.addr
         /\ sub = "edsCmd_485NewSet" =>
              /\ TaskServer(d, sub, f).addr.gid = f.role.gid
              /\ TaskServer(d, sub, f).addr.pid = f.role.pid
              /\ TaskServer(d, sub, f).forced = d.forced
         /\ TaskServer(d, sub, f).forced /\ ~d.forced =>
              /\ sub \in {"edsControl", "edsCmd_Alternative"}
              /\ TaskServer(d, sub, f).target = f.ctr.level
              /\ sub = "edsControl" => ~IsGw(d.addr)
<1> DEFINE e == TaskServer(d, sub, f)
<1>0. f \in Frame
  BY DEF Genuine
<1>1. CASE sub \in {"edsControl", "edsCmd_Alternative"}
  <2>1. e \in {d, Forced(d, f.ctr.level)}
    BY <1>1 DEF TaskServer
  <2>2. /\ Forced(d, f.ctr.level) \in Honest /\ Forced(d, f.ctr.level).addr = d.addr
        /\ Forced(d, f.ctr.level).target = f.ctr.level
    BY <1>0, FrameFields DEF Forced, Honest, Device
  <2>3. sub = "edsControl" /\ e # d => ~IsGw(d.addr)
    BY DEF TaskServer
  <2> HIDE DEF e
  <2>4. /\ e \in Honest /\ e.addr = d.addr
        /\ e.forced /\ ~d.forced => e # d /\ e.target = f.ctr.level
    BY <2>1, <2>2
  <2> QED
    BY <1>1, <2>3, <2>4 DEF e
<1>2. CASE sub = "edsNewSet"
  <2>1. e = [d EXCEPT !.forced = FALSE]
    BY <1>2 DEF TaskServer
  <2>2. e \in Honest /\ e.addr = d.addr /\ e.forced = FALSE
    BY <2>1 DEF Honest, Device
  <2> QED BY <1>2, <2>2 DEF e
<1>3. CASE sub = "edsCmd_485NewSet"
  <2> DEFINE a == [gid |-> f.role.gid, pid |-> f.role.pid, rxtx |-> NewRole(d, f)]
             c == [d.ctr EXCEPT !.high = f.ctr.high, !.low = f.ctr.low]
  <2>1. a \in Addr /\ (d.addr.rxtx # NoRole => a.rxtx # NoRole)
    BY <1>0, FrameFields, Fields DEF NewRole, Addr, Role, NoRole
  <2>2. Somebody(a)
    BY <2>1, Fields DEF Somebody, Genuine, Pieces
  <2>3. c \in Ctr
    BY <1>0, FrameFields, Fields DEF Ctr
  <2>4. e = [[d EXCEPT !.addr = a] EXCEPT !.ctr = c]
    BY <1>3 DEF TaskServer, Honest, Device
  <2>5. a.gid = f.role.gid /\ a.pid = f.role.pid
    OBVIOUS
  <2>6. e \in Honest /\ e.addr = a /\ e.forced = d.forced
    <3> HIDE DEF a, c, e
    <3> QED BY <2>1, <2>2, <2>3, <2>4 DEF Honest, Device
  <2> HIDE DEF a
  <2> QED
    BY <1>3, <2>5, <2>6 DEF e
<1>4. CASE sub \notin {"edsControl", "edsCmd_Alternative", "edsNewSet", "edsCmd_485NewSet"}
  <2>1. e = d
    BY <1>4 DEF TaskServer
  <2> QED BY <1>4, <2>1 DEF e
<1> QED
  BY <1>1, <1>2, <1>3, <1>4

LEMMA ExecuteKeepsNodes ==
  ASSUME IInv, NEW n \in Node, NEW f \in Genuine(issued), NEW sub \in SubCmd,
         Execute(n, sub, f)
  PROVE  /\ NodesInv'
         /\ dev' = [dev EXCEPT ![n] = TaskServer(dev[n], sub, f)]
<1> DEFINE e == TaskServer(dev[n], sub, f)
<1>1. dev[n] \in Honest /\ flash[n] \in HonestPage
  BY DEF IInv, NodesInv
<1>2. e \in Honest /\ (sub # "edsCmd_485NewSet" => e.addr = dev[n].addr)
  BY <1>1, TaskServerHonest
<1>3. /\ dev' = [dev EXCEPT ![n] = e]
      /\ IF sub = "edsCmd_485NewSet"
         THEN flash' = [flash EXCEPT ![n] = SavedPage(flash[n], e)] ELSE flash' = flash
  BY DEF Execute, IInv, NodesInv
<1> HIDE DEF e
<1>4. SavedPage(flash[n], e) \in HonestPage /\ SavedPage(flash[n], e).addr = e.addr
  BY <1>1, <1>2, Fields, Addresses DEF SavedPage, HonestPage, Page
<1>5. NodesInv'
  BY <1>2, <1>3, <1>4 DEF IInv, NodesInv
<1> QED
  BY <1>3, <1>5 DEF e

LEMMA ActStep ==
  ASSUME IInv, NEW n \in Node, Act(n)
  PROVE  IInv' /\ NamedOnly
<1> DEFINE d == dev[n]
           f == rx[n].buf
           sub == job[n].sub
           e == TaskServer(d, sub, f)
           pc == IF Answers(dev'[n], sub) THEN "compose" ELSE "main"
           j == [job[n] EXCEPT !.pc = pc]
<1>1. /\ Looks(n, "act") /\ Execute(n, sub, f) /\ Continue(n, pc)
      /\ job[n].pc = "act" /\ ~At(n, "main")
      /\ UNCHANGED <<out, bus, issued, acks, events, cycles>>
  BY DEF Act, Looks, At
<1>2. /\ f \in Genuine(issued) /\ d \in Honest /\ d.addr \in Addr /\ sub \in SubCmd
      /\ job[n] \in Job /\ JobOK(job[n], f, d.addr, issued)
  BY <1>1, Reading, Fields DEF Job
<1>3. NodesInv' /\ dev' = [dev EXCEPT ![n] = e] /\ dev \in [Node -> Honest]
  BY <1>1, <1>2, ExecuteKeepsNodes DEF IInv, NodesInv
<1>4. /\ e \in Honest
      /\ sub # "edsCmd_485NewSet" => e.addr = d.addr
      /\ sub = "edsCmd_485NewSet" =>
           e.addr.gid = f.role.gid /\ e.addr.pid = f.role.pid /\ e.forced = d.forced
      /\ e.forced /\ ~d.forced =>
           /\ sub \in {"edsControl", "edsCmd_Alternative"} /\ e.target = f.ctr.level
           /\ sub = "edsControl" => ~IsGw(d.addr)
  BY <1>2, TaskServerHonest
<1> HIDE DEF e
<1>5. dev'[n] = e /\ \A m \in Node \ {n} : dev'[m] = dev[m]
  BY <1>3
<1>6. /\ \E g \in issued : g.sub = sub
      /\ ZeroIsNobody => \E g \in issued : IsMyAddr(g, d.addr)
      /\ job[n].alone /\ f.whole =>
           f.cmd = "edServerReq" /\ IsMyAddr(f, d.addr) /\ sub = f.sub /\ ~Refused(f)
  BY <1>1, <1>2 DEF JobOK, Found, AtRequest
<1>7. j.pc = pc /\ j.sub = sub /\ j.alone = job[n].alone
  BY GoOn
<1>8. job[n].alone /\ f.whole /\ pc = "compose" =>
        \/ e.addr.gid = f.dst.gid /\ e.addr.pid = f.dst.pid
        \/ sub = "edsCmd_485NewSet" /\ e.addr.gid = f.role.gid /\ e.addr.pid = f.role.pid
  <2> SUFFICES ASSUME job[n].alone, f.whole, pc = "compose", sub # "edsCmd_485NewSet"
               PROVE  d.addr.gid = f.dst.gid /\ d.addr.pid = f.dst.pid
    BY <1>4
  <2>1. sub \in {"edsPowerRead", "edsCmd_Status"} \/ IsMstOrGw(d.addr)
    BY <1>4, <1>5 DEF Answers
  <2>2. sub \in {"edsPowerRead", "edsCmd_Status"} => f.dst.pid # 0
    BY <1>6 DEF Refused, ForOneNode, CheckErrorPid
  <2> QED
    BY <1>6, <2>1, <2>2 DEF IsMyAddr
<1>9. pc \in {"compose", "main"} /\ pc \in Place
  BY DEF Place
<1> HIDE DEF pc, j
<1>10. pc # "main" => JobOK(j, f, dev'[n].addr, issued)
  BY <1>2, <1>5, <1>6, <1>7, <1>8, <1>9 DEF JobOK, Found, AtRequest
<1>11. RadioInv' /\ QueuesInv'
  BY <1>1, <1>5, <1>9, <1>10, ContinueStep DEF j
<1>12. ASSUME ZeroIsNobody, NEW m \in Node, dev'[m].addr # dev[m].addr
       PROVE  Named(m) /\ (Untouched(m) => Reassigned(m))
  <2>1. m = n /\ sub = "edsCmd_485NewSet"
    BY <1>4, <1>5, <1>12
  <2>2. Named(m)
    BY <1>6, <1>12, <2>1 DEF Named
  <2>3. ASSUME Untouched(n) PROVE Reassigned(n)
    <3>1. f.whole /\ job[n].alone
      BY <1>1, <1>2, <2>3 DEF Untouched, At, Sent, Genuine, Frame
    <3>2. f \in issued /\ f.cmd = "edServerReq" /\ f.sub = "edsCmd_485NewSet"
      BY <1>2, <1>6, <2>1, <3>1 DEF Genuine, OfOnePiece
    <3>3. f.dst.pid # 0
      BY <1>6, <2>1, <3>1 DEF Refused, ForOneNode, CheckErrorPid
    <3>4. f.dst = d.addr
      BY <1>2, <1>6, <3>1, <3>3, FrameFields DEF IsMyAddr, Addr, Genuine
    <3> QED
      BY <1>4, <1>5, <2>1, <3>2, <3>4 DEF Reassigned
  <2> QED
    BY <2>1, <2>2, <2>3
<1>13. ASSUME ZeroIsNobody, NEW m \in Node, dev'[m].forced /\ ~dev[m].forced
       PROVE  Named(m) /\ (Untouched(m) => \E g \in issued : ForcedBy(m, g))
  <2>1. m = n /\ e.forced /\ ~d.forced
    BY <1>5, <1>13
  <2>2. Named(m)
    BY <1>6, <1>13, <2>1 DEF Named
  <2>3. ASSUME Untouched(n) PROVE ForcedBy(n, f) /\ f \in issued
    <3>1. f.whole /\ job[n].alone
      BY <1>1, <1>2, <2>3 DEF Untouched, At, Sent, Genuine, Frame
    <3>2. f \in issued /\ f.cmd = "edServerReq"
      BY <1>2, <1>6, <3>1 DEF Genuine, OfOnePiece
    <3> QED
      BY <1>4, <1>5, <1>6, <2>1, <3>1, <3>2 DEF ForcedBy, IsMyAddr
  <2> QED
    BY <2>1, <2>2, <2>3
<1> QED
  BY <1>1, <1>3, <1>11, <1>12, <1>13, NoLineStep DEF IInv, NamedOnly

-----------------------------------------------------------------------------
(* Answers, repeats and relays.                                            *)

LEMMA SentGenuine ==
  ASSUME IInv, NEW n \in Node, ~At(n, "main")
  PROVE  /\ Sent(n) \in Genuine(issued)
         /\ Sent(n).whole <=> job[n].alone /\ rx[n].buf.whole
         /\ Sent(n).whole \in BOOLEAN
<1>1. rx[n].buf \in Genuine(issued) /\ rx[n].buf \in Frame /\ job[n].alone \in BOOLEAN
  BY Reading DEF Job
<1> DEFINE f == rx[n].buf
           w == f.whole /\ job[n].alone
<1>2. w \in BOOLEAN /\ (w => f.whole) /\ f.whole \in BOOLEAN
  BY <1>1, FrameFields
<1>3. [f EXCEPT !.whole = w] \in Genuine(issued) /\ [f EXCEPT !.whole = w].whole = w
  <2> HIDE DEF w
  <2> QED BY <1>1, <1>2, LessWhole
<1>4. Sent(n) = [f EXCEPT !.whole = w]
  BY DEF Sent
<1> QED
  BY <1>2, <1>3, <1>4

LEMMA ComposeStep ==
  ASSUME IInv, NEW n \in Node, Compose(n)
  PROVE  IInv' /\ AddressKept
<1> DEFINE d == dev[n]
           f == rx[n].buf
           w == Sent(n).whole
           a == [SetAckFrame(d, job[n].sub) EXCEPT !.whole = w]
           i == IF rx[n].part = 0 THEN rx[n].in ELSE [rx[n].in EXCEPT !.whole = FALSE]
           r == [rx[n] EXCEPT !.buf = a, !.in = i]
           j == [job[n] EXCEPT !.pc = "reply"]
<1>1. /\ job[n].pc = "compose" /\ ~At(n, "main")
      /\ UNCHANGED <<dev, flash, out, bus, issued, acks, events, cycles>>
      /\ job' = [job EXCEPT ![n] = j]
  BY DEF Compose, Looks, At, Goto
<1>2. /\ f \in Genuine(issued) /\ d \in Honest /\ job[n] \in Job /\ job[n].sub \in SubCmd
      /\ rx[n] \in Received(issued) /\ JobOK(job[n], f, d.addr, issued)
  BY <1>1, Reading DEF Job
<1>3. rx' = [rx EXCEPT ![n] = r]
  BY <1>2 DEF Compose, IInv, RadioInv, Received
<1>4. w \in BOOLEAN /\ (w <=> job[n].alone /\ f.whole)
  BY <1>1, SentGenuine
<1>5. w => /\ f \in issued /\ f.cmd = "edServerReq" /\ f.sub = job[n].sub
           /\ \/ d.addr.gid = f.dst.gid /\ d.addr.pid = f.dst.pid
              \/ /\ f.sub = "edsCmd_485NewSet"
                 /\ d.addr.gid = f.role.gid /\ d.addr.pid = f.role.pid
  BY <1>1, <1>2, <1>4 DEF JobOK, Found, AtRequest, Genuine, OfOnePiece
<1>6. \E g \in issued : g.sub = job[n].sub
  BY <1>1, <1>2 DEF JobOK
<1>7. a \in Genuine(issued) /\ a.cmd = "edClientAck"
  <2> HIDE DEF w
  <2> QED BY <1>2, <1>4, <1>5, <1>6, AckGenuine
<1>8. /\ i \in Genuine(issued) \cup {NoFrame}
      /\ i = NoFrame => rx[n].part = 0
      /\ rx[n].part # 0 => ~i.whole
      /\ i # NoFrame => rx[n].in # NoFrame
  <2>1. NoFrame \notin Genuine(issued)
    BY NetAssumption DEF Genuine
  <2>2. CASE rx[n].part = 0
    BY <1>2, <2>2 DEF Received
  <2>3. CASE rx[n].part # 0
    <3>1. rx[n].in \in Genuine(issued)
      BY <1>2, <2>3 DEF Received
    <3> DEFINE x == [rx[n].in EXCEPT !.whole = FALSE]
    <3>2. i = x
      BY <2>3
    <3>3. x \in Genuine(issued) /\ x.whole = FALSE
      BY <3>1, LessWhole
    <3> HIDE DEF i, x
    <3> QED BY <2>1, <2>3, <3>1, <3>2, <3>3
  <2> QED
    BY <2>2, <2>3
<1>9. i = NoFrame <=> rx[n].in = NoFrame
  <2>1. rx[n].in = NoFrame => rx[n].part = 0
    BY <1>2 DEF Received
  <2> QED BY <1>8, <2>1
<1> HIDE DEF a, i
<1>10. r \in Received(issued) /\ r.buf = a
  <2>1. /\ r \in [buf : Genuine(issued) \cup {NoFrame}, end : BOOLEAN,
                  in : Genuine(issued) \cup {NoFrame}, part : 0..3]
        /\ r.buf = a /\ r.in = i /\ r.part = rx[n].part
    BY <1>2, <1>7, <1>8 DEF Received
  <2>2. a # NoFrame
    BY <1>7, NetAssumption DEF Genuine
  <2>3. rx[n].in = NoFrame => rx[n].part = 0
    BY <1>2 DEF Received
  <2>4. r.part \in 0..3
    BY <2>1
  <2>5. i # NoFrame => Agree(r)
    <3> HIDE DEF r
    <3> QED BY <1>8, <2>1, <2>4 DEF Agree
  <2> HIDE DEF r
  <2> QED BY <1>8, <1>9, <2>1, <2>2, <2>3, <2>5 DEF Received
<1>11. j \in Job /\ j.pc = "reply" /\ j.alone = job[n].alone
  BY <1>2 DEF Job, Place
<1> HIDE DEF r, j
<1>12. JobOK(j, r.buf, dev'[n].addr, issued)
  BY <1>7, <1>10, <1>11 DEF JobOK, Found, AtRequest
<1>13. NodesInv' /\ AddressKept
  BY <1>1, NoNodeStep
<1> QED
  BY <1>1, <1>3, <1>10, <1>11, <1>12, <1>13, SameAddress, HandlerStep, NoQueueStep, NoLineStep
  DEF IInv

\* A broadcast reaches receivers that have no frame.
LEMMA BroadcastStep ==
  ASSUME IInv, NEW n \in Node, NEW f \in Genuine(issued),
         NEW own \in Genuine(issued) \cup {NoFrame}, NEW j \in Job,
         JobOK(j, own, dev[n].addr, issued), job' = [job EXCEPT ![n] = j],
         Broadcast(n, f, own), UNCHANGED <<flash, issued>>
  PROVE  NodesInv' /\ RadioInv' /\ AddressKept
<1> DEFINE e == [dev[n] EXCEPT !.on = dev[n].chan]
<1>1. /\ rx \in [Node -> Received(issued)] /\ job \in [Node -> Job] /\ dev[n] \in Honest
      /\ \A m \in Node : JobOK(job[m], rx[m].buf, dev[m].addr, issued)
  BY DEF IInv, RadioInv, NodesInv
<1>2. dev' = [dev EXCEPT ![n] = e]
  BY DEF Broadcast, IInv, NodesInv
<1>3. e \in Honest /\ Keeps(e, dev[n])
  BY <1>1 DEF Honest, Device, Keeps
<1> HIDE DEF e
<1>4. NodesInv' /\ AddressKept
  BY <1>2, <1>3, NodeStep
<1>5. PICK heard \in SUBSET Listeners(n) :
        rx' = [m \in Node |->
                 CASE m = n -> [NoReception EXCEPT !.buf = own]
                   [] m \in heard /\ At(m, "main") ->
                        [NoReception EXCEPT !.buf = f, !.end = TRUE]
                   [] m \in heard /\ ~At(m, "main") -> [rx[m] EXCEPT !.in = f]
                   [] OTHER -> rx[m]]
  BY DEF Broadcast
<1>6. n \notin heard
  BY <1>5 DEF Listeners
<1>7. ASSUME NEW m \in Node
      PROVE  rx'[m] \in Received(issued) /\ JobOK(job'[m], rx'[m].buf, dev'[m].addr, issued)
  <2>0. dev'[m].addr = dev[m].addr
    BY <1>4, SameAddress
  <2>1. CASE m = n
    <3>1. rx'[m] = [NoReception EXCEPT !.buf = own]
      BY <1>5, <1>6, <2>1
    <3>2. rx'[m] \in Received(issued) /\ rx'[m].buf = own
      BY <3>1, HeardReceived
    <3>3. job'[m] = j
      BY <1>1, <2>1
    <3> QED BY <2>0, <2>1, <3>2, <3>3
  <2>2. CASE m # n /\ m \in heard /\ At(m, "main")
    <3>1. rx'[m] = [NoReception EXCEPT !.buf = f, !.end = TRUE]
      BY <1>5, <2>2
    <3>2. rx'[m] \in Received(issued)
      BY <3>1, HeardReceived
    <3>3. job'[m].pc = "main"
      BY <1>1, <2>2 DEF At
    <3> QED BY <3>2, <3>3 DEF JobOK
  <2>3. CASE m # n /\ m \in heard /\ ~At(m, "main")
    <3>1. rx'[m] = [rx[m] EXCEPT !.in = f]
      BY <1>5, <2>3
    <3>2. rx[m].in = NoFrame
      BY <1>5, <2>3 DEF Listeners
    <3>3. rx[m].buf # NoFrame
      BY <2>3, Reading, NetAssumption
    <3>4. rx'[m] \in Received(issued) /\ rx'[m].buf = rx[m].buf
      BY <1>1, <3>1, <3>2, <3>3, BeginReceived
    <3>5. job'[m] = job[m]
      BY <1>1, <2>3
    <3> QED BY <1>1, <2>0, <3>4, <3>5
  <2>4. CASE m # n /\ m \notin heard
    <3>1. rx'[m] = rx[m] /\ job'[m] = job[m]
      BY <1>1, <1>5, <2>4
    <3> QED BY <1>1, <2>0, <3>1
  <2> QED
    BY <2>1, <2>2, <2>3, <2>4
<1>8. rx' \in [Node -> Received(issued)]
  <2>1. rx' = [m \in Node |-> rx'[m]]
    BY <1>5
  <2> QED BY <1>7, <2>1
<1>9. job' \in [Node -> Job]
  BY <1>1
<1> QED
  BY <1>4, <1>7, <1>8, <1>9 DEF RadioInv

\* A handler that sends its buffer, and may go on with it.
LEMMA SendsBufferStep ==
  ASSUME IInv, NEW n \in Node, NEW pc \in {"main", "addr", "relayDown"}, SendsBuffer(n, pc),
         ~At(n, "main"), pc # "main" => job[n].pc \in AtRequest
  PROVE  IInv' /\ AddressKept
<1> DEFINE own == IF pc = "main" THEN NoFrame ELSE rx[n].buf
           j == IF pc = "main" THEN NoJob ELSE [job[n] EXCEPT !.pc = pc]
<1>1. /\ rx[n].buf \in Genuine(issued) /\ job[n] \in Job
      /\ JobOK(job[n], rx[n].buf, dev[n].addr, issued)
  BY Reading
<1>2. Sent(n) \in Genuine(issued)
  BY SentGenuine
<1>3. /\ Broadcast(n, Sent(n), own) /\ job' = [job EXCEPT ![n] = j]
      /\ UNCHANGED <<flash, out, bus, issued, acks, events, cycles>>
  BY DEF SendsBuffer, Goto, IInv, RadioInv
<1>4. own \in Genuine(issued) \cup {NoFrame}
  BY <1>1
<1>5. j \in Job /\ JobOK(j, own, dev[n].addr, issued)
  <2>1. CASE pc = "main"
    <3>1. NoJob \in Job /\ NoJob.pc = "main"
      BY Addresses DEF NoJob, Job, Place
    <3> QED BY <2>1, <3>1 DEF JobOK
  <2>2. CASE pc # "main"
    <3>1. j = [job[n] EXCEPT !.pc = pc] /\ own = rx[n].buf
      BY <2>2
    <3> HIDE DEF j, own
    <3>2. j.pc = pc /\ j.alone = job[n].alone
      BY <3>1, GoOn
    <3>3. pc \in Place
      BY DEF Place
    <3>4. j \in Job
      BY <1>1, <3>1, <3>3 DEF Job
    <3>5. JobOK(j, own, dev[n].addr, issued)
      BY <1>1, <2>2, <3>1, <3>2 DEF JobOK, Found, AtRequest
    <3> QED BY <3>4, <3>5
  <2> QED
    BY <2>1, <2>2
<1> HIDE DEF own, j
<1> QED
  BY <1>2, <1>3, <1>4, <1>5, BroadcastStep, NoQueueStep, NoLineStep DEF IInv

LEMMA EchoStep ==
  ASSUME IInv, NEW n \in Node, Echo(n)
  PROVE  IInv' /\ AddressKept
<1>1. CASE At(n, "echo") /\ SendsBuffer(n, "main")
  BY <1>1, SendsBufferStep DEF At
<1>2. CASE At(n, "echoReq") /\ SendsBuffer(n, "addr")
  BY <1>2, SendsBufferStep DEF At, AtRequest
<1> QED
  BY <1>1, <1>2 DEF Echo

\* On the lines lies what handlers sent.
LEMMA SendUpStep ==
  ASSUME IInv, NEW n \in Node, NEW f \in Genuine(issued), SendUp(n, f),
         UNCHANGED <<issued, events, cycles>>
  PROVE  LineInv'
<1>1. /\ bus \in [Node -> Genuine(issued) \cup {NoFrame}] /\ acks \subseteq Genuine(issued)
      /\ Parent \in [Node -> Node \cup {Server, NoParent}]
  BY NetAssumption DEF IInv, LineInv
<1>2. /\ bus' \in [Node -> Genuine(issued) \cup {NoFrame}]
      /\ acks' \subseteq Genuine(issued)
  BY <1>1 DEF SendUp
<1> QED
  BY <1>2 DEF IInv, LineInv

LEMMA SendDownStep ==
  ASSUME IInv, NEW n \in Node, NEW f \in Genuine(issued), SendDown(n, f),
         UNCHANGED <<issued, acks, events, cycles>>
  PROVE  LineInv'
<1>1. bus' \in [Node -> Genuine(issued) \cup {NoFrame}]
  BY DEF SendDown, IInv, LineInv
<1> QED
  BY <1>1 DEF IInv, LineInv

LEMMA ReturnToServerStep ==
  ASSUME IInv, NEW n \in Node, ReturnToServer(n)
  PROVE  IInv' /\ AddressKept
<1>1. At(n, "reply") /\ ~At(n, "main")
  BY DEF ReturnToServer, At
<1>2. CASE SendsBuffer(n, "main")
  BY <1>1, <1>2, SendsBufferStep
<1>3. CASE /\ SendUp(n, Sent(n)) /\ Continue(n, "main")
           /\ UNCHANGED <<dev, flash, out, issued, events, cycles>>
  <2>1. LineInv'
    BY <1>1, <1>3, SentGenuine, SendUpStep
  <2>2. NodesInv' /\ AddressKept
    BY <1>3, NoNodeStep
  <2>3. RadioInv' /\ QueuesInv'
    BY <1>1, <1>3, <2>2, SameAddress, ContinueStep DEF Place
  <2> QED
    BY <2>1, <2>2, <2>3 DEF IInv
<1> QED
  BY <1>2, <1>3 DEF ReturnToServer

LEMMA RelayStep ==
  ASSUME IInv, NEW n \in Node, ChangeGroup(n) \/ RelayRf(n) \/ RelayDown(n)
  PROVE  IInv' /\ AddressKept
<1>1. CASE ChangeGroup(n)
  <2> DEFINE e == [dev[n] EXCEPT !.chan = RelayGroup(rx[n].buf)]
             j == [job[n] EXCEPT !.pc = "relayRf"]
  <2>1. /\ job[n].pc = "relay" /\ ~At(n, "main") /\ Continue(n, "relayRf")
        /\ dev' = [dev EXCEPT ![n] = e]
        /\ UNCHANGED <<flash, out, bus, issued, acks, events, cycles>>
    BY <1>1 DEF ChangeGroup, Looks, At
  <2>2. /\ rx[n].buf.src \in Addr /\ dev[n] \in Honest
        /\ JobOK(job[n], rx[n].buf, dev[n].addr, issued)
    BY <2>1, Reading, FrameFields
  <2>3. e \in Honest /\ Keeps(e, dev[n])
    BY <2>2 DEF RelayGroup, Honest, Device, Addr, Keeps
  <2> HIDE DEF e
  <2>4. NodesInv' /\ AddressKept
    BY <2>1, <2>3, NodeStep
  <2>5. j.pc = "relayRf" /\ j.alone = job[n].alone
    BY GoOn
  <2> HIDE DEF j
  <2>6. JobOK(j, rx[n].buf, dev'[n].addr, issued)
    BY <2>1, <2>2, <2>5 DEF JobOK, Found, AtRequest
  <2> QED
    BY <2>1, <2>4, <2>6, SameAddress, ContinueStep, NoLineStep DEF IInv, Place, j
<1>2. CASE RelayRf(n)
  BY <1>2, SendsBufferStep DEF RelayRf, At, AtRequest
<1>3. CASE RelayDown(n)
  <2>1. /\ ~At(n, "main") /\ SendDown(n, Sent(n)) /\ Continue(n, "main")
        /\ UNCHANGED <<dev, flash, out, issued, acks, events, cycles>>
    BY <1>3 DEF RelayDown, At
  <2>2. LineInv'
    BY <2>1, SentGenuine, SendDownStep
  <2>3. NodesInv' /\ AddressKept
    BY <2>1, NoNodeStep
  <2> QED
    BY <2>1, <2>2, <2>3, SameAddress, ContinueStep DEF IInv, Place
<1> QED
  BY <1>1, <1>2, <1>3

\* The next frame of a queue goes out.
LEMMA HeadOfQueue ==
  ASSUME IInv, NEW n \in Node, NEW via, Sends(n, via)
  PROVE  /\ Head(out[n]).frame \in Genuine(issued)
         /\ QueuesInv' /\ At(n, "main")
         /\ UNCHANGED <<flash, job, issued, events, cycles>>
<1>1. /\ out \in [Node -> Seq(Pending(issued))] /\ out[n] # <<>>
      /\ out' = [out EXCEPT ![n] = Tail(out[n])]
      /\ UNCHANGED <<flash, job, issued, events, cycles>>
  BY DEF Sends, IInv, QueuesInv
<1>2. Head(out[n]) \in Pending(issued) /\ Tail(out[n]) \in Seq(Pending(issued))
  BY <1>1, HeadTailProperties
<1>3. At(n, "main")
  BY <1>1 DEF IInv, QueuesInv
<1>4. \A m \in Node : out'[m] # <<>> => m = n \/ out'[m] = out[m]
  BY <1>1
<1>5. QueuesInv'
  BY <1>1, <1>2, <1>3, <1>4 DEF IInv, QueuesInv, At
<1> QED
  BY <1>1, <1>2, <1>3, <1>5 DEF Pending

LEMMA TransmitStep ==
  ASSUME IInv, NEW n \in Node, Transmit(n)
  PROVE  IInv' /\ AddressKept
<1>1. CASE SendRf(n)
  <2>1. /\ Sends(n, "rf") /\ Broadcast(n, Head(out[n]).frame, NoFrame)
        /\ UNCHANGED <<bus, acks>>
    BY <1>1 DEF SendRf
  <2>2. job[n] \in Job /\ job' = [job EXCEPT ![n] = job[n]]
    BY <2>1, HeadOfQueue DEF IInv, RadioInv
  <2>3. JobOK(job[n], NoFrame, dev[n].addr, issued)
    BY <2>1, HeadOfQueue DEF JobOK, At
  <2>4. NodesInv' /\ RadioInv' /\ AddressKept
    BY <2>1, <2>2, <2>3, HeadOfQueue, BroadcastStep
  <2> QED
    BY <2>1, <2>4, HeadOfQueue, NoLineStep DEF IInv
<1>2. CASE Send485Down(n)
  <2>1. /\ Sends(n, "down") /\ SendDown(n, Head(out[n]).frame) /\ UNCHANGED <<dev, rx, acks>>
    BY <1>2 DEF Send485Down
  <2>2. LineInv'
    BY <2>1, HeadOfQueue, SendDownStep
  <2>3. NodesInv' /\ AddressKept
    BY <2>1, HeadOfQueue, NoNodeStep
  <2> QED
    BY <2>1, <2>2, <2>3, HeadOfQueue, NoHandlerStep DEF IInv
<1>3. CASE Send485Up(n)
  <2>1. /\ Sends(n, "up") /\ SendUp(n, Head(out[n]).frame) /\ UNCHANGED <<dev, rx>>
    BY <1>3 DEF Send485Up
  <2>2. LineInv'
    BY <2>1, HeadOfQueue, SendUpStep
  <2>3. NodesInv' /\ AddressKept
    BY <2>1, HeadOfQueue, NoNodeStep
  <2> QED
    BY <2>1, <2>2, <2>3, HeadOfQueue, NoHandlerStep DEF IInv
<1> QED
  BY <1>1, <1>2, <1>3 DEF Transmit

-----------------------------------------------------------------------------
(* RS485 frames.                                                           *)

\* A handler of a bus frame or a timer: one step that queues what it sends.
LEMMA OwnStep ==
  ASSUME IInv, NEW n \in Node, Idle(n), NEW e \in Honest, Keeps(e, dev[n]),
         NEW q \in Seq(Pending(issued)),
         dev' = [dev EXCEPT ![n] = e], out' = [out EXCEPT ![n] = q],
         UNCHANGED <<flash, rx, job, issued>>
  PROVE  NodesInv' /\ QueuesInv' /\ RadioInv' /\ AddressKept
<1>1. NodesInv' /\ AddressKept
  BY NodeStep
<1>2. QueuesInv'
  <2> HIDE DEF Pending
  <2> QED BY DEF IInv, QueuesInv, Idle, At
<1> QED
  BY <1>1, <1>2, NoHandlerStep

LEMMA PollBus ==
  ASSUME IInv, NEW n \in Node, NEW cmds, HearsBus(n, cmds)
  PROVE  /\ bus[n] \in Genuine(issued) /\ bus[n] \in Frame /\ bus[n].cmd \in cmds
         /\ dev[n] \in Honest /\ Idle(n) /\ out \in [Node -> Seq(Pending(issued))]
         /\ LineInv' /\ UNCHANGED <<rx, job, issued, acks, events, cycles>>
BY DEF IInv, LineInv, QueuesInv, NodesInv, HearsBus, Genuine

LEMMA BusVolumeStep ==
  ASSUME IInv, NEW n \in Node, BusVolume(n)
  PROVE  IInv' /\ AddressKept
<1> DEFINE d == dev[n]
           f == bus[n]
           q == IF IsTx(d.addr) THEN ByRf(f) \o Down(f) ELSE <<>>
           e == [d EXCEPT !.dim = "eVolume", !.ctr.level = f.ctr.level,
                          !.target = f.ctr.level]
<1>1. HearsBus(n, {"edVolume"}) /\ flash' = flash
  BY DEF BusVolume
<1>2. f \in Genuine(issued) /\ f \in Frame /\ d \in Honest
  BY <1>1, PollBus
<1>3. e \in Honest /\ Keeps(e, d)
  BY <1>2, FrameFields, Fields DEF Honest, Device, Ctr, SensorType, Keeps
<1>4. \/ out' = [out EXCEPT ![n] = Down(f)] /\ dev' = dev
      \/ out' = [out EXCEPT ![n] = q] /\ dev' = [dev EXCEPT ![n] = e]
  BY DEF BusVolume, IInv, NodesInv
<1>5. Down(f) \in Seq(Pending(issued)) /\ q \in Seq(Pending(issued))
  BY <1>2, QueueOfOne, QueueOfTwo, NothingQueued
<1>6. dev' = dev => dev' = [dev EXCEPT ![n] = d]
  BY DEF IInv, NodesInv
<1>7. Keeps(d, d)
  BY DEF Keeps
<1> HIDE DEF e, q
<1>8. NodesInv' /\ QueuesInv' /\ RadioInv' /\ AddressKept
  BY <1>1, <1>2, <1>3, <1>4, <1>5, <1>6, <1>7, PollBus, OwnStep
<1> QED
  BY <1>1, <1>8, PollBus DEF IInv

\* The relay of an answer changes the role in it.
LEMMA RelabelGenuine ==
  ASSUME NEW I, NEW f \in Genuine(I), f.cmd = "edClientAck", NEW r \in Role
  PROVE  [f EXCEPT !.src.rxtx = r] \in Genuine(I)
<1> DEFINE a == [f.src EXCEPT !.rxtx = r]
           x == [f EXCEPT !.src = a]
<1>1. f \in Frame /\ f.src \in Addr
  BY FrameFields DEF Genuine
<1>2. a \in Addr /\ a.gid = f.src.gid /\ a.pid = f.src.pid
  BY <1>1 DEF Addr
<1> HIDE DEF a
<1>3. /\ x \in Frame /\ x.src = a /\ x.cmd = f.cmd /\ x.sub = f.sub /\ x.dst = f.dst
      /\ x.role = f.role /\ x.whole = f.whole
  BY <1>1, <1>2 DEF Frame
<1>4. [f EXCEPT !.src.rxtx = r] = x
  BY DEF a
<1> HIDE DEF x
<1>5. Pieces(x, I)
  BY <1>3 DEF Genuine, Pieces
<1>6. x.whole => OfOnePiece(x, I)
  BY <1>2, <1>3 DEF Genuine, OfOnePiece, Answered
<1> QED
  BY <1>3, <1>4, <1>5, <1>6 DEF Genuine

LEMMA BusAckStep ==
  ASSUME IInv, NEW n \in Node, BusClientAck(n) \/ BusIgnored(n)
  PROVE  IInv' /\ AddressKept
<1>1. CASE BusClientAck(n)
  <2> DEFINE d == dev[n]
             f == bus[n]
             q == CASE IsMstOrGw(d.addr) /\ IsTx(f.src) -> Up([f EXCEPT !.src.rxtx = "eGW"])
                    [] IsTx(d.addr) /\ ~IsMstOrGw(f.src) -> Up([f EXCEPT !.src.rxtx = "eTx"])
                    [] OTHER -> <<>>
  <2>1. /\ HearsBus(n, {"edClientAck"}) /\ dev' = dev /\ flash' = flash
        /\ out' = [out EXCEPT ![n] = q]
    BY <1>1 DEF BusClientAck
  <2>2. f \in Genuine(issued) /\ f.cmd = "edClientAck" /\ d \in Honest
    BY <2>1, PollBus
  <2>3. /\ [f EXCEPT !.src.rxtx = "eGW"] \in Genuine(issued)
        /\ [f EXCEPT !.src.rxtx = "eTx"] \in Genuine(issued)
    BY <2>2, RelabelGenuine DEF Role
  <2>4. q \in Seq(Pending(issued))
    <3>1. /\ Up([f EXCEPT !.src.rxtx = "eGW"]) \in Seq(Pending(issued))
          /\ Up([f EXCEPT !.src.rxtx = "eTx"]) \in Seq(Pending(issued))
      BY <2>3, QueueOfOne
    <3> QED BY <3>1, NothingQueued
  <2>5. dev' = [dev EXCEPT ![n] = d] /\ Keeps(d, d)
    BY <2>1 DEF IInv, NodesInv, Keeps
  <2> HIDE DEF q
  <2>6. NodesInv' /\ QueuesInv' /\ RadioInv' /\ AddressKept
    BY <2>1, <2>2, <2>4, <2>5, PollBus, OwnStep
  <2> QED
    BY <2>1, <2>6, PollBus DEF IInv
<1>2. CASE BusIgnored(n)
  <2>1. /\ HearsBus(n, {"edDummy", "edSensor", "edRepeat", "edDayLight", ErasedCmd})
        /\ UNCHANGED <<dev, out, flash>>
    BY <1>2 DEF BusIgnored
  <2>2. dev' = [dev EXCEPT ![n] = dev[n]] /\ Keeps(dev[n], dev[n])
    BY <2>1 DEF IInv, NodesInv, Keeps
  <2>3. out' = [out EXCEPT ![n] = out[n]] /\ out[n] \in Seq(Pending(issued))
    BY <2>1, PollBus
  <2>4. NodesInv' /\ QueuesInv' /\ RadioInv' /\ AddressKept
    BY <2>1, <2>2, <2>3, PollBus, OwnStep
  <2> QED
    BY <2>1, <2>4, PollBus DEF IInv
<1> QED
  BY <1>1, <1>2

(* A request from the bus is in a buffer of its own: the frame executed is *)
(* the frame whose address was checked.                                    *)
LEMMA BusServerReqStep ==
  ASSUME IInv, NEW n \in Node, BusServerReq(n)
  PROVE  IInv' /\ NamedOnly
<1> DEFINE d == dev[n]
           f == bus[n]
<1>1. HearsBus(n, {"edServerReq"})
  BY DEF BusServerReq
<1>2. /\ f \in Genuine(issued) /\ f \in Frame /\ f.cmd = "edServerReq" /\ d \in Honest
      /\ Idle(n) /\ out \in [Node -> Seq(Pending(issued))]
      /\ LineInv' /\ UNCHANGED <<rx, job, issued, acks, events, cycles>>
  BY <1>1, PollBus
<1>3. AddressKept => NamedOnly
  BY DEF AddressKept, NamedOnly, Keeps
<1>4. ASSUME NEW e \in Honest, Keeps(e, d), dev' = [dev EXCEPT ![n] = e],
             NEW q \in Seq(Pending(issued)), out' = [out EXCEPT ![n] = q], flash' = flash
      PROVE  IInv' /\ NamedOnly
  <2>1. NodesInv' /\ QueuesInv' /\ RadioInv' /\ AddressKept
    BY <1>2, <1>4, OwnStep
  <2> QED BY <1>2, <1>3, <2>1 DEF IInv
<1>5. CASE IsMyAddr(f, d.addr) /\ ~Refused(f) /\ Execute(n, f.sub, f) /\ UNCHANGED out
  <2> DEFINE e == TaskServer(d, f.sub, f)
  <2>1. f.sub \in SubCmd
    BY <1>2, FrameFields
  <2>2. NodesInv' /\ dev' = [dev EXCEPT ![n] = e] /\ dev \in [Node -> Honest]
    BY <1>2, <1>5, <2>1, ExecuteKeepsNodes DEF IInv, NodesInv
  <2>3. /\ f.sub # "edsCmd_485NewSet" => e.addr = d.addr
        /\ f.sub = "edsCmd_485NewSet" =>
             e.addr.gid = f.role.gid /\ e.addr.pid = f.role.pid
        /\ e.forced /\ ~d.forced =>
             f.sub \in {"edsControl", "edsCmd_Alternative"} /\ e.target = f.ctr.level
    <3> DEFINE sub == f.sub
    <3>1. sub \in SubCmd
      BY <2>1
    <3> HIDE DEF sub
    <3>2. /\ TaskServer(d, sub, f) \in Honest
          /\ sub # "edsCmd_485NewSet" => TaskServer(d, sub, f).addr = d.addr
          /\ sub = "edsCmd_485NewSet" =>
               /\ TaskServer(d, sub, f).addr.gid = f.role.gid
               /\ TaskServer(d, sub, f).addr.pid = f.role.pid
               /\ TaskServer(d, sub, f).forced = d.forced
          /\ TaskServer(d, sub, f).forced /\ ~d.forced =>
               /\ sub \in {"edsControl", "edsCmd_Alternative"}
               /\ TaskServer(d, sub, f).target = f.ctr.level
               /\ sub = "edsControl" => ~IsGw(d.addr)
      BY <1>2, <3>1, TaskServerHonest, Zenon
    <3>3. f.sub = sub /\ e = TaskServer(d, sub, f)
      BY DEF sub
    <3> HIDE DEF e
    <3> QED BY <3>2, <3>3
  <2> HIDE DEF e
  <2>4. dev'[n] = e /\ \A m \in Node \ {n} : dev'[m] = dev[m]
    BY <2>2
  <2>5. job[n].pc = "main"
    BY <1>2 DEF Idle, At
  <2>6. QueuesInv'
    BY <1>2, <1>5 DEF IInv, QueuesInv, At
  <2>7. RadioInv'
    <3>1. job[n] \in Job /\ rx[n] \in Received(issued)
      BY DEF IInv, RadioInv
    <3>2. JobOK(job[n], rx[n].buf, dev'[n].addr, issued)
      BY <2>5 DEF JobOK
    <3>3. rx' = [rx EXCEPT ![n] = rx[n]] /\ job' = [job EXCEPT ![n] = job[n]]
      BY <1>2 DEF IInv, RadioInv
    <3> QED
      BY <1>2, <2>4, <3>1, <3>2, <3>3, HandlerStep
  <2>8. ZeroIsNobody => Named(n)
    BY <1>2, <1>5, NamedByFrame, Fields DEF Named
  <2>9. Untouched(n) => f \in issued
    BY <1>2, <2>5 DEF Untouched, At, Genuine, OfOnePiece
  <2>10. ASSUME NEW m \in Node, dev'[m].addr # dev[m].addr, Untouched(m)
         PROVE  Reassigned(m)
    <3>1. m = n /\ f.sub = "edsCmd_485NewSet" /\ f \in issued
      BY <2>3, <2>4, <2>9, <2>10
    <3>2. f.dst.pid # 0
      BY <1>5, <3>1 DEF Refused, ForOneNode, CheckErrorPid
    <3>3. f.dst \in Addr /\ d.addr \in Addr
      BY <1>2, FrameFields, Fields
    <3>4. f.dst = d.addr
      BY <1>5, <3>2, <3>3 DEF IsMyAddr, Addr
    <3> QED
      BY <1>2, <2>3, <2>4, <3>1, <3>4 DEF Reassigned
  <2>11. ASSUME NEW m \in Node, dev'[m].forced /\ ~dev[m].forced, Untouched(m)
         PROVE  \E g \in issued : ForcedBy(m, g)
    <3>1. m = n /\ f \in issued
      BY <2>4, <2>9, <2>11
    <3> QED
      BY <1>2, <1>5, <2>3, <2>4, <2>11, <3>1 DEF ForcedBy, IsMyAddr
  <2>12. NamedOnly
    BY <2>4, <2>3, <2>8, <2>10, <2>11 DEF NamedOnly
  <2> QED
    BY <1>2, <2>2, <2>6, <2>7, <2>12 DEF IInv
<1>6. CASE IsMyAddr(f, d.addr) /\ Refused(f) /\ UNCHANGED <<dev, flash, out>>
  <2>1. dev' = [dev EXCEPT ![n] = d] /\ out' = [out EXCEPT ![n] = out[n]] /\ Keeps(d, d)
    BY <1>2, <1>6 DEF IInv, NodesInv, Keeps
  <2> QED BY <1>2, <1>4, <1>6, <2>1
<1>7. CASE /\ dev' = [dev EXCEPT ![n].chan = f.dst.gid]
           /\ out' = [out EXCEPT ![n] = Down(f) \o ByRf(f)]
           /\ flash' = flash
  <2> DEFINE e == [d EXCEPT !.chan = f.dst.gid]
  <2>1. e \in Honest /\ Keeps(e, d)
    BY <1>2, FrameFields DEF Honest, Device, Addr, Keeps
  <2>2. dev' = [dev EXCEPT ![n] = e]
    BY <1>7
  <2>3. Down(f) \o ByRf(f) \in Seq(Pending(issued))
    BY <1>2, QueueOfTwo
  <2> HIDE DEF e
  <2> QED BY <1>4, <1>7, <2>1, <2>2, <2>3
<1>8. CASE /\ out' = [out EXCEPT ![n] = IF IsTx(d.addr) THEN Down(f) \o ByRf(f) ELSE <<>>]
           /\ UNCHANGED <<dev, flash>>
  <2> DEFINE q == IF IsTx(d.addr) THEN Down(f) \o ByRf(f) ELSE <<>>
  <2>1. q \in Seq(Pending(issued)) /\ out' = [out EXCEPT ![n] = q]
    BY <1>2, <1>8, QueueOfTwo, NothingQueued
  <2>2. dev' = [dev EXCEPT ![n] = d] /\ Keeps(d, d)
    BY <1>8 DEF IInv, NodesInv, Keeps
  <2> HIDE DEF q
  <2> QED BY <1>2, <1>4, <1>8, <2>1, <2>2
<1> QED
  BY <1>5, <1>6, <1>7, <1>8 DEF BusServerReq

-----------------------------------------------------------------------------
(* Timers and sensors, the server, the power.                              *)

LEMMA SensorStep ==
  ASSUME IInv, NEW n \in Node, PirEvent(n) \/ LevelEvent(n)
  PROVE  IInv' /\ AddressKept
<1> DEFINE d == dev[n]
<1>1. d \in Honest /\ out[n] \in Seq(Pending(issued)) /\ out' = [out EXCEPT ![n] = out[n]]
  BY DEF IInv, NodesInv, QueuesInv, PirEvent, LevelEvent
<1>2. /\ Idle(n) /\ UNCHANGED <<flash, rx, job, bus, issued, acks, cycles>>
      /\ events < MaxSensorEvents /\ events' = events + 1
  BY DEF PirEvent, LevelEvent, Local
<1>3. LineInv'
  BY <1>2, NetAssumption DEF IInv, LineInv
<1>4. ASSUME NEW e \in Honest, Keeps(e, d), dev' = [dev EXCEPT ![n] = e]
      PROVE  IInv' /\ AddressKept
  BY <1>1, <1>2, <1>3, <1>4, OwnStep DEF IInv
<1>5. CASE PirEvent(n)
  <2> DEFINE e == [d EXCEPT !.target = d.ctr.high, !.cmd = "edSensor",
                            !.dim = "ePir", !.flag = TRUE]
  <2>1. e \in Honest /\ Keeps(e, d)
    BY <1>1, Fields DEF Honest, Device, Cmd, SensorType, Keeps, OwnCmd
  <2>2. dev' = [dev EXCEPT ![n] = e]
    BY <1>5 DEF PirEvent, IInv, NodesInv
  <2> HIDE DEF e
  <2> QED BY <1>4, <2>1, <2>2
<1>6. CASE LevelEvent(n)
  <2>1. PICK level \in Level :
          \/ dev' = [dev EXCEPT ![n].target = level, ![n].ctr.level = level,
                       ![n].cmd = IF dev[n].sensor = "eVolume" THEN "edVolume" ELSE "edDayLight",
                       ![n].dim = dev[n].sensor, ![n].flag = TRUE]
          \/ dev' = [dev EXCEPT ![n].target = level, ![n].dim = "eVolume"]
    BY <1>6 DEF LevelEvent
  <2> DEFINE cmd == IF d.sensor = "eVolume" THEN "edVolume" ELSE "edDayLight"
             sent == [d EXCEPT !.target = level, !.ctr.level = level,
                               !.cmd = cmd, !.dim = d.sensor, !.flag = TRUE]
             turned == [d EXCEPT !.target = level, !.dim = "eVolume"]
  <2>2. cmd \in OwnCmd
    BY DEF Cmd, OwnCmd
  <2>3. [d.ctr EXCEPT !.level = level] \in Ctr
    BY <1>1, Fields DEF Ctr
  <2>4. sent \in Honest /\ Keeps(sent, d)
    <3> HIDE DEF cmd
    <3> QED BY <1>1, <2>2, <2>3, Fields DEF Honest, Device, Keeps, OwnCmd
  <2>5. turned \in Honest /\ Keeps(turned, d)
    BY <1>1 DEF Honest, Device, SensorType, Keeps
  <2>6. dev' = [dev EXCEPT ![n] = sent] \/ dev' = [dev EXCEPT ![n] = turned]
    BY <2>1 DEF IInv, NodesInv
  <2> HIDE DEF sent, turned
  <2> QED BY <1>4, <2>4, <2>5, <2>6
<1> QED
  BY <1>5, <1>6

LEMMA ClockStep ==
  ASSUME IInv, NEW n \in Node,
         SendSensor(n) \/ DelayOut(n) \/ ReportLevel(n) \/ SecTask(n)
  PROVE  IInv' /\ AddressKept
<1> DEFINE d == dev[n]
<1>1. d \in Honest /\ out[n] \in Seq(Pending(issued)) /\ out = [out EXCEPT ![n] = out[n]]
  BY DEF IInv, NodesInv, QueuesInv
<1>2. Idle(n) /\ UNCHANGED <<flash, rx, job, bus, issued, acks, cycles, events>>
  BY DEF SendSensor, DelayOut, ReportLevel, SecTask, Local
<1>3. ASSUME NEW e \in Honest, Keeps(e, d), dev' = [dev EXCEPT ![n] = e],
             NEW q \in Seq(Pending(issued)), out' = [out EXCEPT ![n] = q]
      PROVE  IInv' /\ AddressKept
  BY <1>2, <1>3, OwnStep, NoLineStep DEF IInv
<1>4. CASE SendSensor(n)
  <2> DEFINE q == IF IsRx(d.addr) THEN <<>> ELSE ByRf(OwnFrame(d))
             e == [d EXCEPT !.flag = FALSE]
  <2>1. q \in Seq(Pending(issued))
    BY <1>1, OwnFrameGenuine, QueueOfOne, NothingQueued
  <2>2. dev' = [dev EXCEPT ![n] = e] /\ out' = [out EXCEPT ![n] = q]
    BY <1>4 DEF SendSensor, IInv, NodesInv
  <2>3. e \in Honest /\ Keeps(e, d)
    BY <1>1 DEF Honest, Device, Keeps
  <2> HIDE DEF q, e
  <2> QED BY <1>3, <2>1, <2>2, <2>3
<1>5. CASE DelayOut(n)
  <2> DEFINE e == [d EXCEPT !.target = d.ctr.low, !.dim = "ePir"]
  <2>1. e \in Honest /\ Keeps(e, d)
    BY <1>1, Fields DEF Honest, Device, SensorType, Keeps
  <2>2. dev' = [dev EXCEPT ![n] = e] /\ out' = out
    BY <1>5 DEF DelayOut, IInv, NodesInv
  <2> HIDE DEF e
  <2> QED BY <1>1, <1>3, <2>1, <2>2
<1>6. CASE ReportLevel(n)
  <2> DEFINE c == [d.ctr EXCEPT !.level = d.target]
             e == [d EXCEPT !.ctr = c]
  <2>1. c \in Ctr
    BY <1>1, Fields DEF Ctr
  <2>2. dev' = [dev EXCEPT ![n] = e] /\ out' = out
    BY <1>6 DEF ReportLevel, IInv, NodesInv
  <2> HIDE DEF c
  <2>3. e \in Honest /\ Keeps(e, d)
    BY <1>1, <2>1 DEF Honest, Device, Keeps
  <2> HIDE DEF e
  <2> QED BY <1>1, <1>3, <2>2, <2>3
<1>7. CASE SecTask(n)
  <2> DEFINE e == [d EXCEPT !.cmd = SecCmd(d)]
             own == ByRf(OwnFrame(e))
             q == IF IsTx(d.addr) THEN own \o own ELSE own
  <2>1. SecCmd(d) \in OwnCmd
    BY <1>1 DEF SecCmd, Cmd, Honest, Device, OwnCmd
  <2>2. e \in Honest /\ Keeps(e, d)
    BY <1>1, <2>1 DEF Honest, Device, Keeps, OwnCmd
  <2>3. dev' = [dev EXCEPT ![n] = e] /\ out' = [out EXCEPT ![n] = q]
    BY <1>7 DEF SecTask
  <2> HIDE DEF e
  <2>4. OwnFrame(e) \in Genuine(issued)
    BY <2>2, OwnFrameGenuine
  <2>5. q \in Seq(Pending(issued))
    BY <2>4, QueueOfOne, QueueOfTwo
  <2> HIDE DEF q
  <2> QED BY <1>3, <2>2, <2>3, <2>5
<1> QED
  BY <1>4, <1>5, <1>6, <1>7

\* The server adds a frame to what it sent.
LEMMA ServerStep ==
  ASSUME IInv, ServerSends
  PROVE  IInv' /\ AddressKept
<1>1. PICK n \in Node, f \in ServerFrame \ issued :
        bus' = [bus EXCEPT ![n] = f] /\ issued' = issued \cup {f}
  BY DEF ServerSends
<1>2. UNCHANGED <<dev, flash, out, rx, job, acks, events, cycles>>
  BY DEF ServerSends
<1>3. /\ Genuine(issued) \subseteq Genuine(issued')
      /\ Seq(Pending(issued)) \subseteq Seq(Pending(issued'))
      /\ Received(issued) \subseteq Received(issued')
      /\ \A j, b, a : JobOK(j, b, a, issued) => JobOK(j, b, a, issued')
  BY <1>1, GenuineGrows
<1>4. f \in Genuine(issued')
  <2>1. f \in Frame /\ f \in issued' /\ f.whole
    BY <1>1, NetAssumption
  <2>2. Pieces(f, issued')
    BY <1>1, <2>1 DEF Pieces, ZeroIsNobody
  <2>3. OfOnePiece(f, issued')
    BY <1>1, <2>1 DEF OfOnePiece, ServerAsks
  <2> QED BY <2>1, <2>2, <2>3 DEF Genuine
<1>5. NodesInv' /\ AddressKept
  BY <1>2, NoNodeStep
<1>6. QueuesInv'
  BY <1>2, <1>3 DEF IInv, QueuesInv, At
<1>7. RadioInv'
  BY <1>2, <1>3 DEF IInv, RadioInv
<1>8. LineInv'
  <2>1. bus' \in [Node -> Genuine(issued') \cup {NoFrame}]
    BY <1>1, <1>3, <1>4 DEF IInv, LineInv
  <2> QED
    BY <1>1, <1>2, <1>3, <2>1 DEF IInv, LineInv
<1> QED
  BY <1>5, <1>6, <1>7, <1>8 DEF IInv

\* What was found holds of one piece only, and the job is no longer alone.
LEMMA ComesInStep ==
  ASSUME IInv, NEW n \in Node, ComesIn(n)
  PROVE  IInv' /\ AddressKept
<1> DEFINE r == NextPart(rx[n])
           j == [job[n] EXCEPT !.alone = FALSE]
<1>1. /\ rx[n] \in Received(issued) /\ job[n] \in Job
      /\ JobOK(job[n], rx[n].buf, dev[n].addr, issued) /\ rx[n].in # NoFrame
      /\ rx' = [rx EXCEPT ![n] = r] /\ job' = [job EXCEPT ![n] = j]
      /\ UNCHANGED <<dev, flash, out, bus, issued, acks, events, cycles>>
  BY DEF ComesIn, IInv, RadioInv
<1>2. r \in Received(issued) /\ r.buf \in Genuine(issued)
  BY <1>1, NextPartReceived
<1>3. j \in Job /\ j.pc = job[n].pc /\ j.sub = job[n].sub /\ ~j.alone
  BY <1>1 DEF Job
<1> HIDE DEF r, j
<1>4. JobOK(j, r.buf, dev[n].addr, issued)
  BY <1>1, <1>2, <1>3 DEF JobOK
<1>5. NodesInv' /\ AddressKept
  BY <1>1, NoNodeStep
<1>6. QueuesInv'
  <2>1. \A m \in Node : job'[m].pc = job[m].pc
    BY <1>1, <1>3 DEF IInv, RadioInv
  <2> QED BY <1>1, <2>1 DEF IInv, QueuesInv, At
<1> QED
  BY <1>1, <1>2, <1>3, <1>4, <1>5, <1>6, SameAddress, HandlerStep, NoLineStep DEF IInv

LEMMA BootHonest ==
  ASSUME NEW p \in HonestPage
  PROVE  Boot(p) \in Honest /\ Boot(p).addr = p.addr /\ ~Boot(p).forced
<1>1. FactoryCtr.low \in Level
  BY NetAssumption DEF Ctr
<1> QED
  BY <1>1 DEF Boot, HonestPage, Page, Honest, Device, SensorType

\* The node comes back with the address it had.
LEMMA PowerCycleStep ==
  ASSUME IInv, NEW n \in Node, PowerCycle(n)
  PROVE  IInv' /\ AddressKept
<1> DEFINE e == Boot(flash[n])
<1>1. flash[n] \in HonestPage
  BY DEF IInv, NodesInv
<1>2. e \in Honest /\ Keeps(e, dev[n])
  BY <1>1, BootHonest DEF IInv, NodesInv, Keeps
<1>3. /\ dev' = [dev EXCEPT ![n] = e] /\ out' = [out EXCEPT ![n] = <<>>]
      /\ rx' = [rx EXCEPT ![n] = NoReception] /\ job' = [job EXCEPT ![n] = NoJob]
      /\ bus' = [bus EXCEPT ![n] = NoFrame]
      /\ UNCHANGED <<flash, issued, acks, events>>
      /\ cycles < MaxPowerCycles /\ cycles' = cycles + 1
  BY DEF PowerCycle
<1> HIDE DEF e
<1>4. NodesInv' /\ AddressKept
  BY <1>2, <1>3, NodeStep
<1>5. NoReception \in Received(issued) /\ NoJob \in Job /\ NoJob.pc = "main"
  BY Addresses DEF NoReception, Received, NoJob, Job, Place
<1>6. JobOK(NoJob, NoReception.buf, dev'[n].addr, issued)
  BY <1>5 DEF JobOK
<1>7. RadioInv'
  BY <1>3, <1>4, <1>5, <1>6, SameAddress, HandlerStep
<1>8. QueuesInv'
  <2>1. out' \in [Node -> Seq(Pending(issued))]
    <3> HIDE DEF Pending
    <3> QED BY <1>3, NothingQueued DEF IInv, QueuesInv
  <2>2. \A m \in Node : out'[m] # <<>> => m # n /\ out'[m] = out[m]
    BY <1>3 DEF IInv, QueuesInv
  <2>3. \A m \in Node : m # n => job'[m] = job[m]
    BY <1>3 DEF IInv, RadioInv
  <2> QED
    BY <1>3, <2>1, <2>2, <2>3 DEF IInv, QueuesInv, At
<1>9. LineInv'
  BY <1>3, NetAssumption DEF IInv, LineInv
<1> QED
  BY <1>4, <1>7, <1>8, <1>9 DEF IInv

-----------------------------------------------------------------------------
(* The invariant.                                                          *)

LEMMA InitHolds == Init => IInv
<1> SUFFICES ASSUME Init PROVE IInv
  OBVIOUS
<1>1. PICK inst \in Installation : flash = [n \in Node |-> NewPage(inst, n)]
  BY DEF Init
<1>2. ASSUME NEW n \in Node PROVE NewPage(inst, n) \in HonestPage
  <2>1. inst.addr[n] \in Addr /\ inst.sensor[n] \in SensorType
    BY NetAssumption
  <2>2. Somebody(inst.addr[n])
    BY DEF Somebody, ZeroIsNobody
  <2>3. FactoryCtr \in Ctr
    BY NetAssumption
  <2> QED
    BY <2>1, <2>2, <2>3, Addresses DEF NewPage, HonestPage, Page, Addr
<1>3. flash \in [Node -> HonestPage]
  BY <1>1, <1>2
<1>4. \A n \in Node : Boot(flash[n]) \in Honest /\ Boot(flash[n]).addr = flash[n].addr
  BY <1>3, BootHonest
<1>5. dev = [n \in Node |-> Boot(flash[n])]
  BY DEF Init
<1>6. NodesInv
  <2>1. dev \in [Node -> Honest]
    BY <1>4, <1>5
  <2>2. \A n \in Node : flash[n].addr = dev[n].addr
    BY <1>4, <1>5
  <2> QED
    BY <1>3, <2>1, <2>2 DEF NodesInv
<1>7. QueuesInv
  BY NothingQueued DEF Init, QueuesInv
<1>8. RadioInv
  <2>1. NoReception \in Received(issued) /\ NoJob \in Job /\ NoJob.pc = "main"
    BY Addresses DEF NoReception, Received, NoJob, Job, Place
  <2> QED
    BY <2>1 DEF Init, RadioInv, JobOK
<1>9. LineInv
  BY NetAssumption DEF Init, LineInv
<1> QED
  BY <1>6, <1>7, <1>8, <1>9 DEF IInv

LEMMA StepHolds ==
  ASSUME IInv, [Next]_vars
  PROVE  IInv' /\ NamedOnly
<1> USE DEF TaskRf, Rs485Task, Timers
<1>1. AddressKept => NamedOnly
  BY DEF AddressKept, NamedOnly, Keeps
<1>2. CASE UNCHANGED vars
  <2>1. UNCHANGED <<dev, flash, out, rx, job, bus, issued, acks, events, cycles>>
    BY <1>2 DEF vars
  <2>2. NodesInv' /\ AddressKept
    BY <2>1, NoNodeStep
  <2>3. QueuesInv'
    BY <2>1 DEF IInv, QueuesInv, At
  <2> QED
    BY <1>1, <2>1, <2>2, <2>3, NoHandlerStep, NoLineStep DEF IInv
<1>3. CASE ServerSends
  BY <1>1, <1>3, ServerStep
<1>4. ASSUME NEW n \in Node, Poll(n) \/ TaskRf(n)
      PROVE  IInv' /\ NamedOnly
  BY <1>1, <1>4, PollStep, ReadCmdStep, SensorCmdStep, RepeatCmdStep, LevelCmdStep,
     ResendRequestStep, CheckAddrStep, ReadSubStep, CheckAddrAgainStep, ActStep, ComposeStep,
     EchoStep, ReturnToServerStep, RelayStep
<1>5. ASSUME NEW n \in Node, Rs485Task(n) \/ Transmit(n) \/ ComesIn(n)
      PROVE  IInv' /\ NamedOnly
  BY <1>1, <1>5, BusVolumeStep, BusServerReqStep, BusAckStep, TransmitStep, ComesInStep
<1>6. ASSUME NEW n \in Node, Timers(n) \/ PowerCycle(n)
      PROVE  IInv' /\ NamedOnly
  BY <1>1, <1>6, SensorStep, ClockStep, PowerCycleStep
<1> QED
  BY <1>2, <1>3, <1>4, <1>5, <1>6 DEF Next

LEMMA Invariance == Spec => []IInv
<1>1. IInv /\ [Next]_vars => IInv'
  BY StepHolds
<1> QED
  BY <1>1, InitHolds, PTL DEF Spec

-----------------------------------------------------------------------------
(* Settings, buffers and queues of every node hold what the handlers       *)
(* expect, whatever comes in over what they read (procRf, proc485,         *)
(* procServer).                                                            *)
THEOREM TypeCorrect == Spec => []TypeOK
<1>1. \A I : Genuine(I) \subseteq Frame
  BY DEF Genuine
<1>2. \A I : Seq(Pending(I)) \subseteq Seq(Queued)
  <2> TAKE I
  <2>1. Pending(I) \subseteq Queued
    BY <1>1 DEF Pending, Queued
  <2> QED BY <2>1, SeqMonotonic
<1>3. Honest \subseteq Device /\ HonestPage \subseteq Page
  BY DEF Honest, HonestPage
<1>4. \A I : Received(I) \subseteq Reception
  BY <1>1 DEF Received, Reception
<1>5. ASSUME IInv, NEW n \in Node, rx[n].end \/ rx[n].in # NoFrame \/ ~At(n, "main")
      PROVE  HasFrame(rx[n])
  <2>1. CASE ~At(n, "main")
    BY <1>5, <2>1, Reading, NetAssumption DEF HasFrame
  <2>2. CASE rx[n].end \/ rx[n].in # NoFrame
    BY <1>5, <2>2 DEF IInv, RadioInv, Received, HasFrame
  <2> QED BY <1>5, <2>1, <2>2
<1>6. ASSUME IInv PROVE TypeOK
  <2>1. dev \in [Node -> Device] /\ flash \in [Node -> Page]
    BY <1>3, <1>6 DEF IInv, NodesInv
  <2>2. out \in [Node -> Seq(Queued)]
    BY <1>2, <1>6 DEF IInv, QueuesInv
  <2>3. rx \in [Node -> Reception] /\ job \in [Node -> Job]
    BY <1>4, <1>6 DEF IInv, RadioInv
  <2>4. /\ bus \in [Node -> Frame \cup {NoFrame}] /\ issued \subseteq ServerFrame
        /\ acks \subseteq Frame /\ events \in 0..MaxSensorEvents /\ cycles \in 0..MaxPowerCycles
    BY <1>1, <1>6 DEF IInv, LineInv
  <2> QED
    BY <1>5, <1>6, <2>1, <2>2, <2>3, <2>4 DEF TypeOK
<1> QED
  BY Invariance, <1>6, PTL

(* An address changes only at a node that a frame of the server names,     *)
(* even if another frame comes in over the buffer between its address      *)
(* check and the look at the new address (procNewFactSetSub,               *)
(* procServer.cpp:71-92); and if none did, only into one that the server   *)
(* asked for, by a request that named the old address in full.             *)
THEOREM NamedNodeOnly == ZeroIsNobody => (Spec => BroadcastNeverReassigns)
<1> SUFFICES ASSUME ZeroIsNobody PROVE Spec => BroadcastNeverReassigns
  OBVIOUS
<1>1. IInv /\ [Next]_vars =>
        [\A n \in Node : dev'[n].addr # dev[n].addr =>
           Named(n) /\ (Untouched(n) => Reassigned(n))]_vars
  BY StepHolds DEF NamedOnly
<1> QED
  BY Invariance, <1>1, PTL DEF Spec, BroadcastNeverReassigns

(* A lamp is forced only if a frame of the server names it or its group by *)
(* the address it has then, also if another frame comes in between the     *)
(* look at the address and the look at the level; and if none did, to the  *)
(* level of such a request (isMyAddr, procControlSub and procAltSub in     *)
(* procServer.cpp).                                                        *)
THEOREM ForcedAsAsked == ZeroIsNobody => (Spec => ForcedByRequest)
<1> SUFFICES ASSUME ZeroIsNobody PROVE Spec => ForcedByRequest
  OBVIOUS
<1>1. IInv /\ [Next]_vars =>
        [\A n \in Node : dev'[n].forced /\ ~dev[n].forced =>
           Named(n) /\ (Untouched(n) => \E f \in issued : ForcedBy(n, f))]_vars
  BY StepHolds DEF NamedOnly
<1> QED
  BY Invariance, <1>1, PTL DEF Spec, ForcedByRequest

(* If the server sends no acknowledgements itself, each one that reaches   *)
(* it carries a sub-command that it sent; and unless frames were mixed on  *)
(* its way, there or back, it comes from the node that was asked           *)
(* (taskServer, returnToServer, the edClientAck branches of procRf and     *)
(* proc485).                                                               *)
THEOREM AnswersAreAsked == ServerAsks => (Spec => []AckForRequested)
<1> SUFFICES ASSUME ServerAsks PROVE Spec => []AckForRequested
  OBVIOUS
<1>1. ASSUME IInv, NEW a \in acks, a.cmd = "edClientAck"
      PROVE  \E f \in issued :
               /\ f.sub = a.sub
               /\ a.whole =>
                    /\ f.cmd = "edServerReq"
                    /\ \/ a.src.gid = f.dst.gid /\ a.src.pid = f.dst.pid
                       \/ /\ f.sub = "edsCmd_485NewSet"
                          /\ a.src.gid = f.role.gid /\ a.src.pid = f.role.pid
  <2>1. a \in Genuine(issued)
    BY <1>1 DEF IInv, LineInv
  <2>2. CASE a.whole
    BY <1>1, <2>1, <2>2 DEF Genuine, OfOnePiece, Answered
  <2>3. CASE ~a.whole
    BY <1>1, <2>1, <2>3 DEF Genuine, Pieces
  <2> QED BY <2>2, <2>3
<1>2. IInv => AckForRequested
  BY <1>1 DEF AckForRequested
<1> QED
  BY Invariance, <1>2, PTL

-----------------------------------------------------------------------------
(* The lone transmitter.  It stops in conflictTx when it hears on its own  *)
(* channel what a transmitter says, so the invariant follows the frames of *)
(* one piece that say it: only a transmitter queues one to be broadcast,   *)
(* nobody sends again what he hears, and a gateway or an answering node    *)
(* sends one only if it came in over what the handler had read.            *)

\* What a transmitter tells its group, in one piece.
TxCmd == {"edRepeat", "edVolume", "edDayLight"}
Telling(f) == f.cmd \in TxCmd /\ f.whole
Silent(r) == \A f \in {r.buf, r.in} \ {NoFrame} : ~Telling(f)

\* What a node may have queued.
Clean(q, tx) == \A i \in DOMAIN q : q[i].via = "rf" /\ Telling(q[i].frame) => tx

\* Where its handler may be.
PlaceOK(pc, a) == pc \notin {"resend", "echo", "echoReq"} /\ (pc = "relay" => IsMstOrGw(a))

RoleInv ==
  \A n \in Node :
    /\ ~IsRpt(dev[n].addr)
    /\ IsTx(dev[n].addr) => dev[n].chan = flash[n].chan /\ dev[n].on = flash[n].chan

CmdInv ==
  \A n \in Node : ~IsTx(dev[n].addr) => dev[n].cmd \notin TxCmd /\ flash[n].cmd \notin TxCmd

QueueInv == \A n \in Node : Clean(out[n], IsTx(dev[n].addr))
HeardInv == \A n \in Node : IsTx(dev[n].addr) => Rival(n) \/ Silent(rx[n])
PlaceInv == \A n \in Node : PlaceOK(job[n].pc, dev[n].addr)

LoneInv == RoleInv /\ CmdInv /\ QueueInv /\ HeardInv /\ PlaceInv

\* A step leaves the transmitters and their channels alone.
TxKept ==
  \A m \in Node :
    /\ dev'[m].addr = dev[m].addr
    /\ IsTx(dev[m].addr) => dev'[m].chan = dev[m].chan

\* It stops only a node that has a rival.
RealOnly ==
  \A m \in Node :
    dev[m].mode = "run" /\ dev'[m].mode = "conflict" /\ Sent(m).whole => Rival(m)

LEMMA RivalStays ==
  ASSUME TxKept, NEW n \in Node, IsTx(dev[n].addr), Rival(n)
  PROVE  Rival(n)'
<1>1. PICK m \in Node \ {n} : IsTx(dev[m].addr) /\ dev[m].chan = dev[n].chan
  BY DEF Rival
<1>2. IsTx(dev'[m].addr) /\ dev'[m].chan = dev'[n].chan
  BY <1>1 DEF TxKept
<1> QED
  BY <1>2 DEF Rival

\* A node's own RAM changes, or nobody's.
LEMMA LoneNode ==
  ASSUME IInv, LoneInv, NEW n \in Node, NEW e, dev' = [dev EXCEPT ![n] = e], UNCHANGED flash,
         e.addr = dev[n].addr,
         IsTx(e.addr) => e.chan = dev[n].chan /\ e.on = dev[n].chan,
         ~IsTx(e.addr) => e.cmd \notin TxCmd,
         e.mode = "conflict" /\ dev[n].mode = "run" /\ Sent(n).whole => Rival(n)
  PROVE  TxKept /\ RoleInv' /\ CmdInv' /\ RealOnly
<1>1. dev'[n] = e /\ \A m \in Node \ {n} : dev'[m] = dev[m]
  BY DEF IInv, NodesInv
<1>2. TxKept
  BY <1>1 DEF TxKept
<1>3. RoleInv'
  BY <1>1 DEF LoneInv, RoleInv
<1>4. CmdInv'
  BY <1>1 DEF LoneInv, CmdInv
<1>5. RealOnly
  BY <1>1 DEF RealOnly
<1> QED
  BY <1>2, <1>3, <1>4, <1>5

LEMMA LoneNoNode ==
  ASSUME LoneInv, UNCHANGED <<dev, flash>>
  PROVE  TxKept /\ RoleInv' /\ CmdInv' /\ RealOnly
BY DEF LoneInv, TxKept, RoleInv, CmdInv, RealOnly

LEMMA LoneQueue ==
  ASSUME IInv, LoneInv, TxKept, NEW n \in Node, NEW q, Clean(q, IsTx(dev[n].addr)),
         out' = [out EXCEPT ![n] = q]
  PROVE  QueueInv'
BY DEF IInv, QueuesInv, LoneInv, QueueInv, TxKept

LEMMA LoneNoQueue ==
  ASSUME LoneInv, TxKept, UNCHANGED out
  PROVE  QueueInv'
BY DEF LoneInv, QueueInv, TxKept

\* The receiver and the handler of one node change, or nobody's.
LEMMA LoneHandler ==
  ASSUME IInv, LoneInv, TxKept, NEW n \in Node, NEW r, NEW j,
         Silent(rx[n]) => Silent(r), PlaceOK(j.pc, dev[n].addr),
         rx' = [rx EXCEPT ![n] = r], job' = [job EXCEPT ![n] = j]
  PROVE  HeardInv' /\ PlaceInv'
<1>1. /\ rx'[n] = r /\ job'[n] = j
      /\ \A m \in Node \ {n} : rx'[m] = rx[m] /\ job'[m] = job[m]
  BY DEF IInv, RadioInv
<1>2. HeardInv'
  <2> SUFFICES ASSUME NEW m \in Node, IsTx(dev'[m].addr) PROVE Rival(m)' \/ Silent(rx'[m])
    BY DEF HeardInv
  <2>1. IsTx(dev[m].addr)
    BY DEF TxKept
  <2>2. Rival(m) \/ Silent(rx[m])
    BY <2>1 DEF LoneInv, HeardInv
  <2> QED
    BY <1>1, <2>1, <2>2, RivalStays
<1>3. PlaceInv'
  BY <1>1 DEF LoneInv, PlaceInv, TxKept
<1> QED
  BY <1>2, <1>3

LEMMA LoneNoHandler ==
  ASSUME LoneInv, TxKept, UNCHANGED <<rx, job>>
  PROVE  HeardInv' /\ PlaceInv'
<1>1. HeardInv'
  <2> SUFFICES ASSUME NEW m \in Node, IsTx(dev'[m].addr) PROVE Rival(m)' \/ Silent(rx'[m])
    BY DEF HeardInv
  <2>1. IsTx(dev[m].addr)
    BY DEF TxKept
  <2>2. Rival(m) \/ Silent(rx[m])
    BY <2>1 DEF LoneInv, HeardInv
  <2> QED
    BY <2>1, <2>2, RivalStays
<1>2. PlaceInv'
  BY DEF LoneInv, PlaceInv, TxKept
<1> QED
  BY <1>1, <1>2

\* What comes in over the buffer was there before.
LEMMA SilentGrows ==
  ASSUME NEW I, NEW r \in Received(I), Silent(r), r.in # NoFrame
  PROVE  Silent(NextPart(r)) /\ Silent(Complete(r))
<1>1. /\ r.buf \in Genuine(I) /\ r.in \in Genuine(I) /\ r.part \in 0..3 /\ Agree(r)
      /\ r.end \in BOOLEAN /\ ~Telling(r.in)
  BY DEF Received, Silent
<1>2. Silent(Complete(r))
  <2> DEFINE x == Written(r.buf, r.in, r.part + 1 .. 4)
             y == [x EXCEPT !.whole = r.in.whole]
  <2>1. x \in Frame
    BY <1>1, WrittenGenuine DEF Genuine
  <2>2. r.in.whole => x.cmd = r.in.cmd
    <3>1. r.part \in {0, 1, 2, 3}
      BY <1>1
    <3> QED BY <1>1, <3>1 DEF Written, Agree
  <2>3. Complete(r) = [NoReception EXCEPT !.buf = y, !.end = TRUE]
    BY DEF Complete
  <2>4. y.cmd = x.cmd /\ y.whole = r.in.whole
    <3> HIDE DEF x
    <3> QED BY <2>1 DEF Frame
  <2> HIDE DEF x, y
  <2>5. Complete(r).buf = y /\ Complete(r).in = NoFrame
    <3>1. /\ NoReception \in [buf : {NoFrame}, end : BOOLEAN, in : {NoFrame}, part : 0..3]
          /\ NoReception.in = NoFrame
      BY DEF NoReception
    <3> QED
      BY <2>3, <3>1
  <2>6. ~Telling(y)
    BY <1>1, <2>2, <2>4 DEF Telling
  <2> QED
    BY <2>5, <2>6 DEF Silent
<1>3. CASE r.part = 3
  BY <1>2, <1>3 DEF NextPart
<1>4. CASE r.part # 3
  <2> DEFINE x == Written(r.buf, r.in, {r.part + 1})
  <2>1. x.whole = FALSE
    BY DEF Written
  <2>2. NextPart(r) = [r EXCEPT !.buf = x, !.part = r.part + 1]
    BY <1>4 DEF NextPart
  <2> HIDE DEF x
  <2>3. NextPart(r).buf = x /\ NextPart(r).in = r.in
    BY <2>2 DEF Received
  <2> QED
    BY <1>1, <1>2, <2>1, <2>3 DEF Silent, Telling
<1> QED
  BY <1>2, <1>3, <1>4

LEMMA SilentBuffer ==
  ASSUME NEW b, b # NoFrame => ~Telling(b)
  PROVE  /\ Silent([NoReception EXCEPT !.buf = b])
         /\ Silent([NoReception EXCEPT !.buf = b, !.end = TRUE])
<1>1. /\ NoReception \in [buf : {NoFrame}, end : BOOLEAN, in : {NoFrame}, part : 0..3]
      /\ NoReception.in = NoFrame
  BY DEF NoReception
<1> DEFINE x == [NoReception EXCEPT !.buf = b]
           y == [NoReception EXCEPT !.buf = b, !.end = TRUE]
<1>2. x.buf = b /\ x.in = NoFrame /\ y.buf = b /\ y.in = NoFrame
  BY <1>1
<1> HIDE DEF x, y
<1>3. Silent(x) /\ Silent(y)
  BY <1>2 DEF Silent
<1> QED
  BY <1>3 DEF x, y

\* A handler goes on, or returns.
LEMMA LoneContinue ==
  ASSUME IInv, LoneInv, TxKept, NEW n \in Node, NEW pc, Continue(n, pc),
         PlaceOK(pc, dev[n].addr)
  PROVE  HeardInv' /\ PlaceInv'
<1>1. rx[n] \in Received(issued) /\ rx \in [Node -> Received(issued)]
  BY DEF IInv, RadioInv
<1>2. CASE pc = "main"
  <2>1. NoJob.pc = "main" /\ PlaceOK(NoJob.pc, dev[n].addr)
    BY DEF NoJob, PlaceOK
  <2>2. job' = [job EXCEPT ![n] = NoJob] /\ rx' = [rx EXCEPT ![n] = Rest(rx[n])]
    BY <1>1, <1>2 DEF Continue, Goto
  <2>3. Silent(NoReception)
    BY DEF Silent, NoReception
  <2>4. Silent(rx[n]) => Silent(Rest(rx[n]))
    BY <1>1, <2>3, SilentGrows DEF Rest, Received
  <2> QED
    BY <2>1, <2>2, <2>4, LoneHandler
<1>3. CASE pc # "main"
  <2> DEFINE j == [job[n] EXCEPT !.pc = pc]
  <2>1. job' = [job EXCEPT ![n] = j] /\ rx' = [rx EXCEPT ![n] = rx[n]]
    BY <1>1, <1>3 DEF Continue, Goto
  <2>2. j.pc = pc
    BY GoOn
  <2> HIDE DEF j
  <2> QED
    BY <2>1, <2>2, LoneHandler
<1> QED
  BY <1>2, <1>3

(* A broadcast reaches the transmitters whose channel it is on; if it is   *)
(* what a transmitter says, the sender is their rival.                     *)
LEMMA LoneBroadcast ==
  ASSUME IInv, LoneInv, NEW n \in Node, NEW f, NEW own, NEW j, Broadcast(n, f, own),
         f # NoFrame, Telling(f) => IsTx(dev[n].addr),
         own # NoFrame => own = rx[n].buf, PlaceOK(j.pc, dev[n].addr),
         job' = [job EXCEPT ![n] = j], UNCHANGED flash
  PROVE  TxKept /\ RoleInv' /\ CmdInv' /\ RealOnly /\ HeardInv' /\ PlaceInv'
<1> DEFINE e == [dev[n] EXCEPT !.on = dev[n].chan]
<1>0. dev[n] \in Device
  BY DEF IInv, NodesInv, Honest
<1>1. dev' = [dev EXCEPT ![n] = e]
  BY DEF Broadcast
<1>2. /\ e.addr = dev[n].addr /\ e.chan = dev[n].chan /\ e.on = dev[n].chan
      /\ e.cmd = dev[n].cmd /\ e.mode = dev[n].mode
  BY <1>0 DEF Device
<1> HIDE DEF e
<1>3. TxKept /\ RoleInv' /\ CmdInv' /\ RealOnly
  BY <1>1, <1>2, LoneNode DEF LoneInv, CmdInv
<1>4. PICK heard \in SUBSET Listeners(n) :
        rx' = [m \in Node |->
                 CASE m = n -> [NoReception EXCEPT !.buf = own]
                   [] m \in heard /\ At(m, "main") ->
                        [NoReception EXCEPT !.buf = f, !.end = TRUE]
                   [] m \in heard /\ ~At(m, "main") -> [rx[m] EXCEPT !.in = f]
                   [] OTHER -> rx[m]]
  BY DEF Broadcast
<1>5. n \notin heard
  BY <1>4 DEF Listeners
<1>6. ASSUME NEW m \in Node, IsTx(dev'[m].addr)
      PROVE  Rival(m)' \/ Silent(rx'[m])
  <2>1. IsTx(dev[m].addr)
    BY <1>3, <1>6 DEF TxKept
  <2>2. Rival(m) \/ Silent(rx[m])
    BY <2>1 DEF LoneInv, HeardInv
  <2>3. CASE m = n
    <3>1. rx'[m] = [NoReception EXCEPT !.buf = own]
      BY <1>4, <1>5, <2>3
    <3>2. Silent(rx[n]) => (own # NoFrame => ~Telling(own))
      BY DEF Silent
    <3>3. Silent(rx[n]) => Silent(rx'[m])
      BY <3>1, <3>2, SilentBuffer
    <3> QED BY <1>3, <2>1, <2>2, <2>3, <3>3, RivalStays
  <2>4. CASE m # n /\ m \notin heard
    <3>1. rx'[m] = rx[m]
      BY <1>4, <2>4
    <3> QED BY <1>3, <2>1, <2>2, <3>1, RivalStays
  <2>5. CASE m # n /\ m \in heard /\ Telling(f)
    <3>1. dev[m].on = dev[n].chan
      BY <1>4, <2>5 DEF Listeners
    <3>2. dev[m].on = dev[m].chan
      BY <2>1 DEF LoneInv, RoleInv
    <3>3. Rival(m)
      BY <2>5, <3>1, <3>2 DEF Rival
    <3> QED BY <1>3, <2>1, <3>3, RivalStays
  <2>6. CASE m # n /\ m \in heard /\ ~Telling(f)
    <3>1. CASE At(m, "main")
      <4>1. rx'[m] = [NoReception EXCEPT !.buf = f, !.end = TRUE]
        BY <1>4, <2>6, <3>1
      <4> QED BY <2>6, <4>1, SilentBuffer
    <3>2. CASE ~At(m, "main")
      <4>1. rx'[m] = [rx[m] EXCEPT !.in = f]
        BY <1>4, <2>6, <3>2
      <4>2. rx[m] \in Received(issued)
        BY DEF IInv, RadioInv
      <4>3. rx'[m].buf = rx[m].buf /\ rx'[m].in = f
        BY <4>1, <4>2 DEF Received
      <4>4. Silent(rx[m]) => Silent(rx'[m])
        BY <2>6, <4>3 DEF Silent
      <4> QED BY <1>3, <2>1, <2>2, <4>4, RivalStays
    <3> QED BY <3>1, <3>2
  <2> QED
    BY <2>3, <2>4, <2>5, <2>6
<1>7. PlaceInv'
  <2>1. job'[n] = j /\ \A m \in Node \ {n} : job'[m] = job[m]
    BY DEF IInv, RadioInv
  <2> QED BY <1>3, <2>1 DEF LoneInv, PlaceInv, TxKept
<1> QED
  BY <1>3, <1>6, <1>7 DEF HeardInv

\* What is known of a node and of the frame its handler reads.
LEMMA LoneReading ==
  ASSUME IInv, LoneInv, NEW n \in Node
  PROVE  /\ dev[n] \in Device /\ ~IsRpt(dev[n].addr) /\ PlaceOK(job[n].pc, dev[n].addr)
         /\ IsTx(dev[n].addr) => /\ dev[n].on = dev[n].chan /\ ~IsMstOrGw(dev[n].addr)
         /\ ~IsTx(dev[n].addr) => dev[n].cmd \notin TxCmd
BY DEF IInv, NodesInv, Honest, LoneInv, RoleInv, CmdInv, PlaceInv,
       IsTx, IsMstOrGw, IsMst, IsGw

LEMMA LonePoll ==
  ASSUME IInv, LoneInv, NEW n \in Node, Poll(n)
  PROVE  LoneInv' /\ RealOnly
<1> DEFINE e == [dev[n] EXCEPT !.on = dev[n].chan]
           r == [rx[n] EXCEPT !.end = FALSE]
           j == [job[n] EXCEPT !.pc = "task"]
<1>1. /\ dev' = [dev EXCEPT ![n] = e] /\ rx' = [rx EXCEPT ![n] = r]
      /\ job' = [job EXCEPT ![n] = j] /\ UNCHANGED <<flash, out>>
  BY DEF Poll
<1>2. /\ e.addr = dev[n].addr /\ e.chan = dev[n].chan /\ e.on = dev[n].chan
      /\ e.cmd = dev[n].cmd /\ e.mode = dev[n].mode
  BY LoneReading DEF Device
<1>3. rx[n] \in Received(issued)
  BY DEF IInv, RadioInv
<1>4. r.buf = rx[n].buf /\ r.in = rx[n].in
  BY <1>3 DEF Received
<1>5. PlaceOK(j.pc, dev[n].addr)
  BY GoOn DEF PlaceOK
<1> HIDE DEF e, r, j
<1>6. TxKept /\ RoleInv' /\ CmdInv' /\ RealOnly
  BY <1>1, <1>2, LoneReading, LoneNode
<1>7. Silent(rx[n]) => Silent(r)
  BY <1>4 DEF Silent
<1> QED
  BY <1>1, <1>5, <1>6, <1>7, LoneHandler, LoneNoQueue DEF LoneInv

\* A look that only decides where the handler goes on.
LEMMA LoneLooks ==
  ASSUME IInv, LoneInv, NEW n \in Node,
         \/ ReadCmd(n) \/ ResendRequest(n) \/ CheckAddr(n) \/ ReadSub(n) \/ CheckAddrAgain(n)
  PROVE  LoneInv' /\ RealOnly
<1>1. UNCHANGED <<dev, flash, out>>
  BY DEF ReadCmd, ResendRequest, CheckAddr, ReadSub, CheckAddrAgain, Looks
<1>2. TxKept /\ RoleInv' /\ CmdInv' /\ RealOnly
  BY <1>1, LoneNoNode
<1>3. ASSUME NEW pc, Continue(n, pc), PlaceOK(pc, dev[n].addr)
      PROVE  LoneInv' /\ RealOnly
  BY <1>1, <1>2, <1>3, LoneContinue, LoneNoQueue DEF LoneInv
<1>4. CASE ReadCmd(n)
  <2> DEFINE pc == HandlerOf(rx[n].buf.cmd, dev[n])
  <2>1. Continue(n, pc)
    BY <1>4 DEF ReadCmd
  <2>2. pc \in {"main", "addr", "reply", "sensor", "repeat", "level"}
    BY LoneReading DEF HandlerOf
  <2> HIDE DEF pc
  <2> QED BY <1>3, <2>1, <2>2 DEF PlaceOK
<1>5. CASE ResendRequest(n)
  BY <1>5, LoneReading DEF ResendRequest, Looks, At, PlaceOK
<1>6. CASE CheckAddr(n)
  <2> DEFINE mine == IsMyAddr(rx[n].buf, dev[n].addr)
             pc == CASE mine -> "sub"
                     [] ~mine /\ IsMstOrGw(dev[n].addr) -> "relay"
                     [] ~mine /\ IsTx(dev[n].addr) -> "relayDown"
                     [] OTHER -> "main"
  <2>1. Continue(n, pc)
    BY <1>6 DEF CheckAddr
  <2>2. /\ pc \in {"sub", "relay", "relayDown", "main"}
        /\ pc = "relay" => IsMstOrGw(dev[n].addr)
    <3> HIDE DEF mine
    <3> QED BY LoneReading
  <2> HIDE DEF pc
  <2> QED BY <1>3, <2>1, <2>2 DEF PlaceOK
<1>7. CASE ReadSub(n)
  <2>1. CASE Continue(n, "main")
    BY <1>3, <2>1 DEF PlaceOK
  <2>2. CASE /\ job' = [job EXCEPT ![n].pc = "addr2", ![n].sub = rx[n].buf.sub]
             /\ UNCHANGED rx
    <3> DEFINE j == [job[n] EXCEPT !.pc = "addr2", !.sub = rx[n].buf.sub]
    <3>1. job' = [job EXCEPT ![n] = j] /\ rx' = [rx EXCEPT ![n] = rx[n]]
      BY <2>2 DEF IInv, RadioInv
    <3>2. j.pc = "addr2"
      BY DEF IInv, RadioInv, Job
    <3> HIDE DEF j
    <3>3. HeardInv' /\ PlaceInv'
      BY <1>2, <3>1, <3>2, LoneHandler DEF PlaceOK
    <3> QED BY <1>1, <1>2, <3>3, LoneNoQueue DEF LoneInv
  <2> QED BY <1>7, <2>1, <2>2 DEF ReadSub
<1>8. CASE CheckAddrAgain(n)
  <2> DEFINE pc == IF IsMyAddr(rx[n].buf, dev[n].addr) THEN "act"
                   ELSE IF AnswersAnyway(dev[n], job[n].sub) THEN "compose" ELSE "main"
  <2>1. Continue(n, pc) /\ pc \in {"act", "compose", "main"}
    BY <1>8 DEF CheckAddrAgain
  <2> HIDE DEF pc
  <2> QED BY <1>3, <2>1 DEF PlaceOK
<1> QED
  BY <1>4, <1>5, <1>6, <1>7, <1>8

\* A handler that changes the node's RAM, but neither its address nor the
\* channel of a transmitter.
LEMMA LoneTakes ==
  ASSUME IInv, LoneInv, NEW n \in Node, NEW e, NEW pc, dev' = [dev EXCEPT ![n] = e],
         e.addr = dev[n].addr, IsTx(e.addr) => e.chan = dev[n].chan /\ e.on = dev[n].on,
         e.cmd = dev[n].cmd,
         e.mode = "conflict" /\ dev[n].mode = "run" /\ Sent(n).whole => Rival(n),
         Continue(n, pc), PlaceOK(pc, dev[n].addr), UNCHANGED <<flash, out>>
  PROVE  LoneInv' /\ RealOnly
<1>1. TxKept /\ RoleInv' /\ CmdInv' /\ RealOnly
  BY LoneReading, LoneNode
<1> QED
  BY <1>1, LoneContinue, LoneNoQueue DEF LoneInv

LEMMA LoneSensorCmd ==
  ASSUME IInv, LoneInv, NEW n \in Node, ProcRfSensorCmd(n)
  PROVE  LoneInv' /\ RealOnly
<1> DEFINE d == dev[n]
           f == rx[n].buf
           a == [d EXCEPT !.target = IF IsRx(d.addr) => Bare(n) THEN d.ctr.high ELSE @]
           e == [a EXCEPT !.dim = IF Bare(n) THEN f.sensor ELSE @]
<1>1. Continue(n, "main") /\ UNCHANGED <<flash, out>>
  <2>1. ~ResendSensorByRfRepeater(d, f)
    BY LoneReading DEF ResendSensorByRfRepeater
  <2> QED BY <2>1 DEF ProcRfSensorCmd, Looks
<1>2. dev' = [dev EXCEPT ![n] = e]
  BY DEF ProcRfSensorCmd, IInv, NodesInv
<1>3. /\ e.addr = d.addr /\ e.chan = d.chan /\ e.on = d.on
      /\ e.cmd = d.cmd /\ e.mode = d.mode
  <2>1. a \in [addr : {d.addr}, sensor : {d.sensor}, cmd : {d.cmd}, ctr : {d.ctr},
                chan : {d.chan}, on : {d.on}, target : {a.target}, forced : {d.forced},
                dim : {d.dim}, flag : {d.flag}, mode : {d.mode}]
    BY LoneReading DEF Device
  <2> HIDE DEF a
  <2> QED BY <2>1
<1> HIDE DEF e
<1> QED
  BY <1>1, <1>2, <1>3, LoneTakes DEF PlaceOK

(* The frame that makes a transmitter stop, if it is of one piece, is what *)
(* another transmitter says.                                               *)
LEMMA LoneConflict ==
  ASSUME IInv, LoneInv, NEW n \in Node, At(n, "repeat") \/ At(n, "level"),
         IsTx(dev[n].addr), Sent(n).whole
  PROVE  Rival(n)
<1>1. /\ ~At(n, "main") /\ job[n].pc \in {"repeat", "level"}
  BY DEF At
<1>2. /\ JobOK(job[n], rx[n].buf, dev[n].addr, issued) /\ rx[n].buf \in Frame
      /\ job[n].alone /\ rx[n].buf.whole
  BY <1>1, Reading, SentGenuine
<1>3. Telling(rx[n].buf)
  BY <1>1, <1>2 DEF JobOK, Found, Telling, TxCmd
<1>4. ~Silent(rx[n])
  BY <1>2, <1>3, NetAssumption DEF Silent
<1> QED
  BY <1>4 DEF LoneInv, HeardInv

LEMMA LoneRepeatCmd ==
  ASSUME IInv, LoneInv, NEW n \in Node, ProcRfRepeatCmd(n)
  PROVE  LoneInv' /\ RealOnly
<1> DEFINE d == dev[n]
           f == rx[n].buf
           e == CASE IsTx(d.addr) -> ConflictTx(d)
                  [] Bare(n) -> [d EXCEPT !.ctr = f.ctr, !.dim = f.sensor, !.target = f.ctr.level]
                  [] OTHER -> [d EXCEPT !.ctr = f.ctr]
<1>1. /\ Continue(n, "main") /\ UNCHANGED <<flash, out>> /\ At(n, "repeat")
      /\ dev' = [dev EXCEPT ![n] = e]
  BY DEF ProcRfRepeatCmd, Looks
<1>2. /\ e.addr = d.addr /\ e.chan = d.chan /\ e.on = d.on /\ e.cmd = d.cmd
      /\ e.mode = d.mode \/ IsTx(d.addr)
  <2>1. IsTx(d.addr) => ~Bare(n)
    BY DEF IsTx, Bare, IsRx
  <2>2. CASE IsTx(d.addr)
    BY <2>1, <2>2, LoneReading DEF ConflictTx, Device
  <2>3. CASE ~IsTx(d.addr) /\ Bare(n)
    BY <2>3, LoneReading DEF Device
  <2>4. CASE ~IsTx(d.addr) /\ ~Bare(n)
    BY <2>4, LoneReading DEF Device
  <2> QED BY <2>2, <2>3, <2>4
<1> HIDE DEF e
<1>3. e.mode = "conflict" /\ d.mode = "run" /\ Sent(n).whole => Rival(n)
  BY <1>1, <1>2, LoneConflict
<1> QED
  BY <1>1, <1>2, <1>3, LoneTakes DEF PlaceOK

LEMMA LoneLevelCmd ==
  ASSUME IInv, LoneInv, NEW n \in Node, ProcRfLevelCmd(n)
  PROVE  LoneInv' /\ RealOnly
<1> DEFINE d == dev[n]
           f == rx[n].buf
           e == IF IsTx(d.addr) THEN ConflictTx(d)
                ELSE [d EXCEPT !.dim = "eVolume", !.ctr.level = f.ctr.level,
                               !.target = f.ctr.level]
<1>1. /\ Continue(n, "main") /\ UNCHANGED <<flash, out>> /\ At(n, "level")
      /\ dev' = [dev EXCEPT ![n] = e]
  <2>1. ~ResendByRfRepeater(d, f)
    BY LoneReading DEF ResendByRfRepeater
  <2> QED BY <2>1 DEF ProcRfLevelCmd, Looks
<1>2. /\ e.addr = d.addr /\ e.chan = d.chan /\ e.on = d.on /\ e.cmd = d.cmd
      /\ e.mode = d.mode \/ IsTx(d.addr)
  <2>1. CASE IsTx(d.addr)
    BY <2>1, LoneReading DEF ConflictTx, Device
  <2>2. CASE ~IsTx(d.addr)
    BY <2>2, LoneReading DEF Device
  <2> QED BY <2>1, <2>2
<1> HIDE DEF e
<1>3. e.mode = "conflict" /\ d.mode = "run" /\ Sent(n).whole => Rival(n)
  BY <1>1, <1>2, LoneConflict
<1> QED
  BY <1>1, <1>2, <1>3, LoneTakes DEF PlaceOK

\* No request makes a new address or channel of a transmitter's.
LEMMA TaskServerQuiet ==
  ASSUME NEW d \in Device, NEW f, NEW sub, sub # "edsCmd_485NewSet"
  PROVE  LET e == TaskServer(d, sub, f)
         IN  /\ e.addr = d.addr /\ e.chan = d.chan /\ e.on = d.on
             /\ e.cmd = d.cmd /\ e.mode = d.mode
<1> DEFINE e == TaskServer(d, sub, f)
<1>1. e \in {d, Forced(d, f.ctr.level), [d EXCEPT !.forced = FALSE]}
  BY DEF TaskServer
<1>2. CASE e = d
  BY <1>2
<1>3. CASE e = Forced(d, f.ctr.level)
  <2> HIDE DEF e
  <2> QED BY <1>3 DEF Forced, Device, e
<1>4. CASE e = [d EXCEPT !.forced = FALSE]
  <2> HIDE DEF e
  <2> QED BY <1>4 DEF Device, e
<1> QED
  BY <1>1, <1>2, <1>3, <1>4

LEMMA LoneAct ==
  ASSUME Undisturbed, IInv, LoneInv, NEW n \in Node, Act(n)
  PROVE  LoneInv' /\ RealOnly
<1> DEFINE sub == job[n].sub
           e == TaskServer(dev[n], sub, rx[n].buf)
           pc == IF Answers(dev'[n], sub) THEN "compose" ELSE "main"
<1>1. /\ Execute(n, sub, rx[n].buf) /\ Continue(n, pc) /\ UNCHANGED out
      /\ job[n].pc = "act" /\ ~At(n, "main")
  BY DEF Act, Looks, At
<1>2. sub # "edsCmd_485NewSet"
  <2>1. \E g \in issued : g.sub = sub
    BY <1>1, Reading DEF JobOK
  <2> QED BY <2>1 DEF Undisturbed, IInv, LineInv
<1>3. dev' = [dev EXCEPT ![n] = e] /\ flash' = flash
  BY <1>1, <1>2 DEF Execute
<1>4. /\ e.addr = dev[n].addr /\ e.chan = dev[n].chan /\ e.on = dev[n].on
      /\ e.cmd = dev[n].cmd /\ e.mode = dev[n].mode
  BY <1>2, LoneReading, TaskServerQuiet
<1>5. PlaceOK(pc, dev[n].addr)
  BY DEF PlaceOK
<1> HIDE DEF e, pc
<1> QED
  BY <1>1, <1>3, <1>4, <1>5, LoneTakes

LEMMA LoneCompose ==
  ASSUME IInv, LoneInv, NEW n \in Node, Compose(n)
  PROVE  LoneInv' /\ RealOnly
<1> DEFINE a == [SetAckFrame(dev[n], job[n].sub) EXCEPT !.whole = Sent(n).whole]
           i == IF rx[n].part = 0 THEN rx[n].in ELSE [rx[n].in EXCEPT !.whole = FALSE]
           r == [rx[n] EXCEPT !.buf = a, !.in = i]
           j == [job[n] EXCEPT !.pc = "reply"]
<1>1. /\ UNCHANGED <<dev, flash, out>> /\ ~At(n, "main") /\ job' = [job EXCEPT ![n] = j]
  BY DEF Compose, Looks, At, Goto
<1>2. rx[n] \in Received(issued)
  BY DEF IInv, RadioInv
<1>3. rx' = [rx EXCEPT ![n] = r]
  BY <1>2 DEF Compose, IInv, RadioInv, Received
<1>4. a.cmd = "edClientAck"
  <2> DEFINE w == Sent(n).whole
             b == SetAckFrame(dev[n], job[n].sub)
  <2>1. b.cmd = "edClientAck" /\ "cmd" \in DOMAIN b
    BY DEF SetAckFrame, OwnFrame
  <2> HIDE DEF w, b
  <2>2. [b EXCEPT !.whole = w].cmd = b.cmd
    BY <2>1
  <2> QED BY <2>1, <2>2 DEF w, b
<1>5. rx[n].part # 0 => i.whole = FALSE
  BY <1>2 DEF Received, Genuine, Frame
<1>6. rx[n].part = 0 => i = rx[n].in
  OBVIOUS
<1> HIDE DEF a, i
<1>7. r.buf = a /\ r.in = i
  BY <1>2 DEF Received
<1>8. j.pc = "reply"
  BY GoOn
<1> HIDE DEF r, j
<1>9. Silent(rx[n]) => Silent(r)
  BY <1>4, <1>5, <1>6, <1>7 DEF Silent, Telling, TxCmd
<1>10. TxKept /\ RoleInv' /\ CmdInv' /\ RealOnly
  BY <1>1, LoneNoNode
<1>11. HeardInv' /\ PlaceInv'
  BY <1>1, <1>3, <1>8, <1>9, <1>10, LoneHandler DEF PlaceOK
<1> QED
  BY <1>1, <1>10, <1>11, LoneNoQueue DEF LoneInv

\* Nothing a handler sends from its buffer is what a transmitter says.
LEMMA LoneSendsBuffer ==
  ASSUME IInv, LoneInv, NEW n \in Node, NEW pc \in {"main", "relayDown"}, SendsBuffer(n, pc),
         job[n].pc \in {"reply", "relayRf"}
  PROVE  LoneInv' /\ RealOnly
<1> DEFINE own == IF pc = "main" THEN NoFrame ELSE rx[n].buf
           j == IF pc = "main" THEN NoJob ELSE [job[n] EXCEPT !.pc = pc]
<1>1. /\ Broadcast(n, Sent(n), own) /\ job' = [job EXCEPT ![n] = j]
      /\ UNCHANGED <<flash, out>> /\ ~At(n, "main")
  BY DEF SendsBuffer, Goto, IInv, RadioInv, At
<1>2. /\ JobOK(job[n], rx[n].buf, dev[n].addr, issued) /\ rx[n].buf \in Frame
      /\ Sent(n) \in Genuine(issued)
      /\ Sent(n).whole <=> job[n].alone /\ rx[n].buf.whole
  BY <1>1, Reading, SentGenuine
<1>3. Sent(n).cmd = rx[n].buf.cmd
  BY <1>2 DEF Sent, Frame
<1>4. ~Telling(Sent(n))
  BY <1>1, <1>2, <1>3 DEF JobOK, Found, AtRequest, Telling, TxCmd
<1>5. Sent(n) # NoFrame
  BY <1>2, NetAssumption DEF Genuine
<1>6. PlaceOK(j.pc, dev[n].addr)
  <2>1. j.pc = pc
    BY GoOn DEF NoJob
  <2> QED BY <2>1 DEF PlaceOK
<1>7. own # NoFrame => own = rx[n].buf
  OBVIOUS
<1> HIDE DEF own, j
<1>8. TxKept /\ RoleInv' /\ CmdInv' /\ RealOnly /\ HeardInv' /\ PlaceInv'
  BY <1>1, <1>4, <1>5, <1>6, <1>7, LoneBroadcast
<1> QED
  BY <1>1, <1>8, LoneNoQueue DEF LoneInv

LEMMA LoneReplies ==
  ASSUME IInv, LoneInv, NEW n \in Node,
         Echo(n) \/ ReturnToServer(n) \/ ChangeGroup(n) \/ RelayRf(n) \/ RelayDown(n)
  PROVE  LoneInv' /\ RealOnly
<1>1. CASE Echo(n)
  BY <1>1, LoneReading DEF Echo, At, PlaceOK
<1>2. CASE ReturnToServer(n)
  <2>1. CASE SendsBuffer(n, "main")
    BY <1>2, <2>1, LoneSendsBuffer DEF ReturnToServer, At
  <2>2. CASE Continue(n, "main") /\ UNCHANGED <<dev, flash, out>>
    BY <2>2, LoneNoNode, LoneContinue, LoneNoQueue DEF LoneInv, PlaceOK
  <2> QED BY <1>2, <2>1, <2>2 DEF ReturnToServer
<1>3. CASE ChangeGroup(n)
  <2> DEFINE e == [dev[n] EXCEPT !.chan = RelayGroup(rx[n].buf)]
  <2>1. /\ dev' = [dev EXCEPT ![n] = e] /\ Continue(n, "relayRf") /\ UNCHANGED <<flash, out>>
        /\ ~IsTx(dev[n].addr)
    BY <1>3, LoneReading DEF ChangeGroup, Looks, At, PlaceOK
  <2>2. e.addr = dev[n].addr /\ e.cmd = dev[n].cmd /\ e.mode = dev[n].mode
    BY LoneReading DEF Device
  <2> HIDE DEF e
  <2> QED BY <2>1, <2>2, LoneTakes DEF PlaceOK
<1>4. CASE RelayRf(n)
  BY <1>4, LoneSendsBuffer DEF RelayRf, At
<1>5. CASE RelayDown(n)
  <2>1. Continue(n, "main") /\ UNCHANGED <<dev, flash, out>>
    BY <1>5 DEF RelayDown
  <2> QED
    BY <2>1, LoneNoNode, LoneContinue, LoneNoQueue DEF LoneInv, PlaceOK
<1> QED
  BY <1>1, <1>2, <1>3, <1>4, <1>5

-----------------------------------------------------------------------------
(* What it queues, sends and takes from the bus.                           *)

LEMMA CleanNone == ASSUME NEW tx PROVE Clean(<<>>, tx)
BY DEF Clean

LEMMA CleanBus ==
  ASSUME NEW f, NEW tx
  PROVE  Clean(Up(f), tx) /\ Clean(Down(f), tx)
BY DEF Clean, Up, Down

LEMMA CleanRf ==
  ASSUME NEW f, NEW tx \in BOOLEAN, Telling(f) => tx
  PROVE  Clean(ByRf(f), tx)
BY DEF Clean, ByRf

LEMMA CleanBoth ==
  ASSUME NEW S, NEW q \in Seq(S), NEW r \in Seq(S), NEW tx \in BOOLEAN,
         Clean(q, tx), Clean(r, tx)
  PROVE  Clean(q \o r, tx)
<1>1. /\ Len(q) \in Nat /\ Len(r) \in Nat /\ Len(q \o r) = Len(q) + Len(r)
      /\ \A i \in 1..(Len(q) + Len(r)) :
           (q \o r)[i] = IF i <= Len(q) THEN q[i] ELSE r[i - Len(q)]
  BY ConcatProperties, LenProperties
<1>2. DOMAIN q = 1..Len(q) /\ DOMAIN r = 1..Len(r) /\ DOMAIN (q \o r) = 1..Len(q \o r)
  BY LenProperties, ConcatProperties
<1> SUFFICES ASSUME NEW i \in DOMAIN (q \o r), (q \o r)[i].via = "rf",
                    Telling((q \o r)[i].frame)
             PROVE  tx
  BY DEF Clean
<1>3. CASE i <= Len(q)
  BY <1>1, <1>2, <1>3 DEF Clean
<1>4. CASE ~(i <= Len(q))
  BY <1>1, <1>2, <1>4 DEF Clean
<1> QED BY <1>3, <1>4

LEMMA CleanTail ==
  ASSUME NEW S, NEW q \in Seq(S), q # <<>>, NEW tx \in BOOLEAN, Clean(q, tx)
  PROVE  Clean(Tail(q), tx) /\ (Head(q).via = "rf" /\ Telling(Head(q).frame) => tx)
<1>1. /\ Len(Tail(q)) = Len(q) - 1 /\ Len(q) \in Nat /\ Len(q) > 0 /\ Tail(q) \in Seq(S)
      /\ \A i \in 1 .. Len(Tail(q)) : Tail(q)[i] = q[i + 1]
      /\ Head(q) = q[1]
  BY HeadTailProperties, LenProperties, EmptySeq
<1>2. DOMAIN Tail(q) = 1 .. Len(Tail(q)) /\ DOMAIN q = 1 .. Len(q)
  BY <1>1, LenProperties
<1>3. Clean(Tail(q), tx)
  <2> SUFFICES ASSUME NEW i \in DOMAIN Tail(q), Tail(q)[i].via = "rf", Telling(Tail(q)[i].frame)
               PROVE  tx
    BY DEF Clean
  <2>1. i + 1 \in DOMAIN q /\ Tail(q)[i] = q[i + 1]
    BY <1>1, <1>2
  <2> QED BY <2>1 DEF Clean
<1>4. 1 \in DOMAIN q
  BY <1>1, <1>2
<1> QED
  BY <1>1, <1>3, <1>4 DEF Clean

LEMMA LoneTransmit ==
  ASSUME IInv, LoneInv, NEW n \in Node, Transmit(n)
  PROVE  LoneInv' /\ RealOnly
<1> DEFINE f == Head(out[n]).frame
           tx == IsTx(dev[n].addr)
<1>1. PICK via : Sends(n, via)
  BY DEF Transmit, SendRf, Send485Down, Send485Up
<1>2. /\ out[n] # <<>> /\ out' = [out EXCEPT ![n] = Tail(out[n])] /\ Head(out[n]).via = via
      /\ UNCHANGED <<flash, job>> /\ job' = [job EXCEPT ![n] = job[n]]
  BY <1>1 DEF Sends, IInv, RadioInv
<1>3. out[n] \in Seq(Pending(issued)) /\ Clean(out[n], tx) /\ tx \in BOOLEAN
  BY DEF IInv, QueuesInv, LoneInv, QueueInv, IsTx
<1>4. Clean(Tail(out[n]), tx) /\ (Head(out[n]).via = "rf" /\ Telling(f) => tx)
  BY <1>2, <1>3, CleanTail
<1>5. ASSUME TxKept PROVE QueueInv'
  BY <1>2, <1>4, <1>5, LoneQueue
<1>6. CASE SendRf(n)
  <2>1. Broadcast(n, f, NoFrame) /\ Head(out[n]).via = "rf"
    BY <1>6 DEF SendRf, Sends
  <2>2. f # NoFrame
    BY <1>1, HeadOfQueue, NetAssumption DEF Genuine
  <2>3. PlaceOK(job[n].pc, dev[n].addr)
    BY LoneReading
  <2> HIDE DEF f
  <2>4. TxKept /\ RoleInv' /\ CmdInv' /\ RealOnly /\ HeardInv' /\ PlaceInv'
    BY <1>2, <1>4, <2>1, <2>2, <2>3, LoneBroadcast
  <2> QED BY <1>5, <2>4 DEF LoneInv
<1>7. CASE Send485Down(n) \/ Send485Up(n)
  <2>1. UNCHANGED <<dev, rx>>
    BY <1>7 DEF Send485Down, Send485Up
  <2>2. TxKept /\ RoleInv' /\ CmdInv' /\ RealOnly
    BY <1>2, <2>1, LoneNoNode
  <2> QED BY <1>2, <1>5, <2>1, <2>2, LoneNoHandler DEF LoneInv
<1> QED
  BY <1>6, <1>7 DEF Transmit

\* One step of a handler of the bus or of a timer.
LEMMA LoneOwn ==
  ASSUME IInv, LoneInv, NEW n \in Node, NEW e, NEW q,
         dev' = [dev EXCEPT ![n] = e], out' = [out EXCEPT ![n] = q],
         e.addr = dev[n].addr, e.mode = dev[n].mode,
         IsTx(e.addr) => e.chan = dev[n].chan /\ e.on = dev[n].on,
         ~IsTx(e.addr) => e.cmd \notin TxCmd,
         Clean(q, IsTx(dev[n].addr)), UNCHANGED <<flash, rx, job>>
  PROVE  LoneInv' /\ RealOnly
<1>1. TxKept /\ RoleInv' /\ CmdInv' /\ RealOnly
  BY LoneReading, LoneNode
<1> QED
  BY <1>1, LoneQueue, LoneNoHandler DEF LoneInv

\* Its queue is empty; without a change of its RAM, it is as if it had been set.
LEMMA LoneIdle ==
  ASSUME IInv, LoneInv, NEW n \in Node, Idle(n)
  PROVE  /\ out[n] = <<>> /\ out = [out EXCEPT ![n] = <<>>] /\ dev = [dev EXCEPT ![n] = dev[n]]
         /\ IsTx(dev[n].addr) \in BOOLEAN /\ Clean(<<>>, IsTx(dev[n].addr))
BY CleanNone DEF Idle, IInv, QueuesInv, NodesInv, IsTx

LEMMA LoneBus ==
  ASSUME Undisturbed, IInv, LoneInv, NEW n \in Node, Rs485Task(n)
  PROVE  LoneInv' /\ RealOnly
<1> DEFINE d == dev[n]
           f == bus[n]
           tx == IsTx(d.addr)
<1>0. PICK cmds : HearsBus(n, cmds)
  BY DEF Rs485Task, BusVolume, BusServerReq, BusClientAck, BusIgnored
<1>1. /\ Idle(n) /\ UNCHANGED <<rx, job>> /\ f \in Genuine(issued) /\ f \in Frame
      /\ f.cmd \in cmds
  BY <1>0, PollBus DEF HearsBus
<1>2. d \in Device /\ (~tx => d.cmd \notin TxCmd)
  BY LoneReading
<1>3. /\ out = [out EXCEPT ![n] = <<>>] /\ dev = [dev EXCEPT ![n] = d]
      /\ tx \in BOOLEAN /\ Clean(<<>>, tx)
  BY <1>1, LoneIdle
<1>4. ASSUME NEW q, UNCHANGED <<dev, flash>>, out' = [out EXCEPT ![n] = q], Clean(q, tx)
      PROVE  LoneInv' /\ RealOnly
  <2>1. dev' = [dev EXCEPT ![n] = d]
    BY <1>3, <1>4
  <2> QED BY <1>1, <1>2, <1>4, <2>1, LoneOwn
<1>5. CASE BusVolume(n)
  <2> DEFINE e == [d EXCEPT !.dim = "eVolume", !.ctr.level = f.ctr.level,
                            !.target = f.ctr.level]
             q == IF tx THEN ByRf(f) \o Down(f) ELSE <<>>
  <2>1. /\ e.addr = d.addr /\ e.chan = d.chan /\ e.on = d.on /\ e.cmd = d.cmd
        /\ e.mode = d.mode
    BY <1>2 DEF Device
  <2>2. Clean(q, tx)
    BY <1>3 DEF Clean
  <2>3. \/ out' = [out EXCEPT ![n] = Down(f)] /\ dev' = dev
        \/ out' = [out EXCEPT ![n] = q] /\ dev' = [dev EXCEPT ![n] = e]
    BY <1>5 DEF BusVolume, IInv, NodesInv
  <2>4. flash' = flash
    BY <1>5 DEF BusVolume
  <2> HIDE DEF e, q
  <2> QED BY <1>1, <1>2, <1>4, <2>1, <2>2, <2>3, <2>4, CleanBus, LoneOwn
<1>6. CASE BusServerReq(n)
  <2> DEFINE e == TaskServer(d, f.sub, f)
             c == [d EXCEPT !.chan = f.dst.gid]
             q == IF tx THEN Down(f) \o ByRf(f) ELSE <<>>
  <2>1. f.cmd = "edServerReq"
    BY <1>6, PollBus DEF BusServerReq
  <2>2. f.sub # "edsCmd_485NewSet"
    BY <1>1 DEF Genuine, Pieces, ErasedCmd, Undisturbed, IInv, LineInv
  <2>3. Clean(Down(f) \o ByRf(f), tx)
    <3>1. Down(f) \in Seq(Pending(issued)) /\ ByRf(f) \in Seq(Pending(issued))
      BY <1>1, QueueOfOne
    <3>2. Clean(Down(f), tx) /\ Clean(ByRf(f), tx)
      BY <1>3, <2>1, CleanBus, CleanRf DEF Telling, TxCmd
    <3> QED BY <1>3, <3>1, <3>2, CleanBoth
  <2>4. CASE Execute(n, f.sub, f) /\ UNCHANGED out
    <3>1. dev' = [dev EXCEPT ![n] = e] /\ flash' = flash
      BY <2>2, <2>4 DEF Execute
    <3>2. e.addr = d.addr /\ e.chan = d.chan /\ e.on = d.on /\ e.cmd = d.cmd /\ e.mode = d.mode
      BY <1>2, <2>2, TaskServerQuiet
    <3> HIDE DEF e
    <3> QED BY <1>1, <1>2, <1>3, <2>4, <3>1, <3>2, LoneOwn
  <2>5. CASE UNCHANGED <<dev, flash, out>>
    BY <1>3, <1>4, <2>5
  <2>6. CASE /\ IsMstOrGw(d.addr) /\ dev' = [dev EXCEPT ![n].chan = f.dst.gid]
             /\ out' = [out EXCEPT ![n] = Down(f) \o ByRf(f)] /\ UNCHANGED flash
    <3>1. dev' = [dev EXCEPT ![n] = c] /\ ~tx
      BY <2>6, LoneReading
    <3>2. c.addr = d.addr /\ c.cmd = d.cmd /\ c.mode = d.mode
      BY <1>2 DEF Device
    <3> HIDE DEF c
    <3> QED BY <1>1, <1>2, <2>3, <2>6, <3>1, <3>2, LoneOwn
  <2>7. CASE out' = [out EXCEPT ![n] = q] /\ UNCHANGED <<dev, flash>>
    <3>1. Clean(q, tx)
      BY <1>3, <2>3
    <3> QED BY <1>4, <2>7, <3>1
  <2> QED BY <1>6, <2>4, <2>5, <2>6, <2>7 DEF BusServerReq
<1>7. CASE BusClientAck(n)
  <2> DEFINE q == CASE IsMstOrGw(d.addr) /\ IsTx(f.src) -> Up([f EXCEPT !.src.rxtx = "eGW"])
                    [] IsTx(d.addr) /\ ~IsMstOrGw(f.src) -> Up([f EXCEPT !.src.rxtx = "eTx"])
                    [] OTHER -> <<>>
  <2>1. Clean(q, tx)
    <3>1. /\ Clean(Up([f EXCEPT !.src.rxtx = "eGW"]), tx)
          /\ Clean(Up([f EXCEPT !.src.rxtx = "eTx"]), tx)
      BY CleanBus
    <3> QED BY <1>3, <3>1
  <2>2. UNCHANGED <<dev, flash>> /\ out' = [out EXCEPT ![n] = q]
    BY <1>7 DEF BusClientAck
  <2> HIDE DEF q
  <2> QED BY <1>4, <2>1, <2>2
<1>8. CASE BusIgnored(n)
  BY <1>3, <1>4, <1>8 DEF BusIgnored
<1> QED
  BY <1>5, <1>6, <1>7, <1>8 DEF Rs485Task

LEMMA LoneTimers ==
  ASSUME IInv, LoneInv, NEW n \in Node, Timers(n)
  PROVE  LoneInv' /\ RealOnly
<1> DEFINE d == dev[n]
           tx == IsTx(d.addr)
<1>0. Idle(n) /\ UNCHANGED <<flash, rx, job>>
  BY DEF Timers, PirEvent, LevelEvent, SendSensor, DelayOut, ReportLevel, SecTask, Local
<1>1. /\ out = [out EXCEPT ![n] = <<>>] /\ tx \in BOOLEAN /\ Clean(<<>>, tx)
      /\ d \in Device /\ d \in Honest /\ (~tx => d.cmd \notin TxCmd)
  BY <1>0, LoneIdle, LoneReading DEF IInv, NodesInv
<1>2. ASSUME NEW e, NEW q, dev' = [dev EXCEPT ![n] = e], out' = [out EXCEPT ![n] = q],
             e.addr = d.addr, e.chan = d.chan, e.on = d.on, e.mode = d.mode,
             ~tx => e.cmd \in {d.cmd, "edSensor"}, Clean(q, tx)
      PROVE  LoneInv' /\ RealOnly
  BY <1>0, <1>1, <1>2, LoneOwn DEF TxCmd
<1>3. CASE PirEvent(n)
  <2> DEFINE e == [d EXCEPT !.target = d.ctr.high, !.cmd = "edSensor",
                            !.dim = "ePir", !.flag = TRUE]
  <2>1. dev' = [dev EXCEPT ![n] = e] /\ out' = out
    BY <1>3 DEF PirEvent, IInv, NodesInv
  <2>2. /\ e.addr = d.addr /\ e.chan = d.chan /\ e.on = d.on /\ e.mode = d.mode
        /\ e.cmd = "edSensor"
    BY <1>1 DEF Device
  <2> HIDE DEF e
  <2> QED BY <1>1, <1>2, <2>1, <2>2
<1>4. CASE LevelEvent(n)
  <2>1. PICK level \in Level :
          \/ dev' = [dev EXCEPT ![n].target = level, ![n].ctr.level = level,
                       ![n].cmd = IF dev[n].sensor = "eVolume" THEN "edVolume" ELSE "edDayLight",
                       ![n].dim = dev[n].sensor, ![n].flag = TRUE]
          \/ dev' = [dev EXCEPT ![n].target = level, ![n].dim = "eVolume"]
    BY <1>4 DEF LevelEvent
  <2> DEFINE cmd == IF d.sensor = "eVolume" THEN "edVolume" ELSE "edDayLight"
             sent == [d EXCEPT !.target = level, !.ctr.level = level,
                               !.cmd = cmd, !.dim = d.sensor, !.flag = TRUE]
             turned == [d EXCEPT !.target = level, !.dim = "eVolume"]
  <2>2. dev' = [dev EXCEPT ![n] = sent] \/ dev' = [dev EXCEPT ![n] = turned]
    BY <2>1 DEF IInv, NodesInv
  <2>3. out' = out /\ tx
    BY <1>4 DEF LevelEvent
  <2>4. sent.addr = d.addr /\ sent.chan = d.chan /\ sent.on = d.on /\ sent.mode = d.mode
    BY <1>1 DEF Device
  <2>5. /\ turned.addr = d.addr /\ turned.chan = d.chan /\ turned.on = d.on
        /\ turned.mode = d.mode
    BY <1>1 DEF Device
  <2> HIDE DEF sent, turned
  <2> QED BY <1>1, <1>2, <2>2, <2>3, <2>4, <2>5
<1>5. CASE SendSensor(n)
  <2> DEFINE own == ByRf(OwnFrame(d))
             q == IF IsRx(d.addr) THEN <<>> ELSE own
             e == [d EXCEPT !.flag = FALSE]
  <2>1. dev' = [dev EXCEPT ![n] = e] /\ out' = [out EXCEPT ![n] = q]
    BY <1>5 DEF SendSensor, IInv, NodesInv
  <2>2. /\ e.addr = d.addr /\ e.chan = d.chan /\ e.on = d.on /\ e.mode = d.mode
        /\ e.cmd = d.cmd
    BY <1>1 DEF Device
  <2>3. Telling(OwnFrame(d)) => tx
    BY <1>1 DEF OwnFrame, Telling
  <2>4. Clean(q, tx)
    BY <1>1, <2>3, CleanRf
  <2> HIDE DEF e, q
  <2> QED BY <1>2, <2>1, <2>2, <2>4
<1>6. CASE DelayOut(n)
  <2> DEFINE e == [d EXCEPT !.target = d.ctr.low, !.dim = "ePir"]
  <2>1. dev' = [dev EXCEPT ![n] = e] /\ out' = out
    BY <1>6 DEF DelayOut, IInv, NodesInv
  <2>2. /\ e.addr = d.addr /\ e.chan = d.chan /\ e.on = d.on /\ e.mode = d.mode
        /\ e.cmd = d.cmd
    BY <1>1 DEF Device
  <2> HIDE DEF e
  <2> QED BY <1>1, <1>2, <2>1, <2>2
<1>7. CASE ReportLevel(n)
  <2> DEFINE e == [d EXCEPT !.ctr.level = d.target]
  <2>1. dev' = [dev EXCEPT ![n] = e] /\ out' = out
    BY <1>7 DEF ReportLevel, IInv, NodesInv
  <2>2. /\ e.addr = d.addr /\ e.chan = d.chan /\ e.on = d.on /\ e.mode = d.mode
        /\ e.cmd = d.cmd
    BY <1>1 DEF Device
  <2> HIDE DEF e
  <2> QED BY <1>1, <1>2, <2>1, <2>2
<1>8. CASE SecTask(n)
  <2> DEFINE e == [d EXCEPT !.cmd = SecCmd(d)]
             own == ByRf(OwnFrame(e))
             q == IF IsTx(e.addr) THEN own \o own ELSE own
  <2>1. dev' = [dev EXCEPT ![n] = e] /\ out' = [out EXCEPT ![n] = q]
    BY <1>8 DEF SecTask
  <2>2. /\ e.addr = d.addr /\ e.chan = d.chan /\ e.on = d.on /\ e.mode = d.mode
        /\ ~tx => e.cmd = d.cmd
    BY <1>1 DEF Device, SecCmd
  <2>3. e \in Honest
    <3>1. SecCmd(d) \in OwnCmd
      BY <1>1 DEF SecCmd, Cmd, Honest, OwnCmd
    <3> QED BY <1>1, <3>1 DEF Honest, Device, OwnCmd
  <2> HIDE DEF e
  <2>4. Telling(OwnFrame(e)) => tx
    BY <1>1, <2>2 DEF OwnFrame, Telling
  <2>5. Clean(own, tx)
    BY <1>1, <2>4, CleanRf
  <2>6. own \in Seq(Pending(issued))
    BY <2>3, OwnFrameGenuine, QueueOfOne
  <2>7. Clean(q, tx)
    <3> HIDE DEF own
    <3> QED BY <1>1, <2>5, <2>6, CleanBoth
  <2> HIDE DEF q
  <2> QED BY <1>2, <2>1, <2>2, <2>7
<1> QED
  BY <1>3, <1>4, <1>5, <1>6, <1>7, <1>8 DEF Timers

\* The node restarts on its own channel.
LEMMA LonePower ==
  ASSUME IInv, LoneInv, NEW n \in Node, PowerCycle(n)
  PROVE  LoneInv' /\ RealOnly
<1> DEFINE e == Boot(flash[n])
<1>1. /\ e.addr = dev[n].addr /\ e.chan = flash[n].chan /\ e.on = flash[n].chan
      /\ e.cmd = flash[n].cmd /\ e.mode = "run"
  BY DEF Boot, IInv, NodesInv
<1> HIDE DEF e
<1>2. /\ dev' = [dev EXCEPT ![n] = e] /\ out' = [out EXCEPT ![n] = <<>>]
      /\ rx' = [rx EXCEPT ![n] = NoReception] /\ job' = [job EXCEPT ![n] = NoJob]
      /\ flash' = flash
  BY DEF PowerCycle, e
<1>3. TxKept /\ RoleInv' /\ CmdInv' /\ RealOnly
  <2>1. IsTx(e.addr) => e.chan = dev[n].chan /\ e.on = dev[n].chan
    BY <1>1 DEF LoneInv, RoleInv
  <2>2. ~IsTx(e.addr) => e.cmd \notin TxCmd
    BY <1>1 DEF LoneInv, CmdInv
  <2> QED BY <1>1, <1>2, <2>1, <2>2, LoneNode
<1>4. Silent(NoReception) /\ PlaceOK(NoJob.pc, dev[n].addr)
  BY DEF Silent, NoReception, NoJob, PlaceOK
<1>5. HeardInv' /\ PlaceInv'
  BY <1>2, <1>3, <1>4, LoneHandler
<1> QED
  BY <1>2, <1>3, <1>5, CleanNone, LoneQueue DEF LoneInv

LEMMA LoneComesIn ==
  ASSUME IInv, LoneInv, NEW n \in Node, ComesIn(n)
  PROVE  LoneInv' /\ RealOnly
<1> DEFINE r == NextPart(rx[n])
           j == [job[n] EXCEPT !.alone = FALSE]
<1>1. /\ rx[n].in # NoFrame /\ rx' = [rx EXCEPT ![n] = r] /\ job' = [job EXCEPT ![n] = j]
      /\ UNCHANGED <<dev, flash, out>>
  BY DEF ComesIn, IInv, RadioInv
<1>2. rx[n] \in Received(issued) /\ j.pc = job[n].pc
  BY DEF IInv, RadioInv, Job
<1>3. Silent(rx[n]) => Silent(r)
  BY <1>1, <1>2, SilentGrows
<1> HIDE DEF r, j
<1>4. TxKept /\ RoleInv' /\ CmdInv' /\ RealOnly
  BY <1>1, LoneNoNode
<1>5. HeardInv' /\ PlaceInv'
  BY <1>1, <1>2, <1>3, <1>4, LoneReading, LoneHandler
<1> QED
  BY <1>1, <1>4, <1>5, LoneNoQueue DEF LoneInv

LEMMA LoneInit == ASSUME Undisturbed, Init PROVE LoneInv
<1>1. PICK inst \in Installation : flash = [n \in Node |-> NewPage(inst, n)]
  BY DEF Init
<1>2. ASSUME NEW n \in Node
      PROVE  /\ dev[n].addr = inst.addr[n] /\ dev[n].chan = inst.addr[n].gid
             /\ dev[n].on = inst.addr[n].gid /\ flash[n].chan = inst.addr[n].gid
             /\ dev[n].cmd = ErasedCmd /\ flash[n].cmd = ErasedCmd
  BY <1>1, <1>2 DEF Init, Boot, NewPage
<1>3. RoleInv
  BY <1>2 DEF RoleInv, Undisturbed
<1>4. CmdInv
  BY <1>2 DEF CmdInv, TxCmd, ErasedCmd
<1>5. QueueInv
  BY CleanNone DEF Init, QueueInv
<1>6. HeardInv /\ PlaceInv
  BY DEF Init, HeardInv, PlaceInv, Silent, PlaceOK, NoReception, NoJob
<1> QED
  BY <1>3, <1>4, <1>5, <1>6 DEF LoneInv

LEMMA LoneStep ==
  ASSUME Undisturbed, IInv, LoneInv, [Next]_vars
  PROVE  LoneInv' /\ RealOnly
<1>1. ASSUME UNCHANGED <<dev, flash, out, rx, job>>
      PROVE  LoneInv' /\ RealOnly
  BY <1>1, LoneNoNode, LoneNoQueue, LoneNoHandler DEF LoneInv
<1>2. CASE ServerSends \/ UNCHANGED vars
  BY <1>1, <1>2 DEF ServerSends, vars
<1>3. ASSUME NEW n \in Node,
             \/ Poll(n) \/ TaskRf(n) \/ Rs485Task(n) \/ Transmit(n) \/ ComesIn(n)
             \/ Timers(n) \/ PowerCycle(n)
      PROVE  LoneInv' /\ RealOnly
  <2>1. CASE TaskRf(n)
    BY <2>1, LoneLooks, LoneSensorCmd, LoneRepeatCmd, LoneLevelCmd, LoneAct, LoneCompose,
       LoneReplies DEF TaskRf
  <2>2. CASE Poll(n) \/ Rs485Task(n) \/ Transmit(n)
    BY <2>2, LonePoll, LoneBus, LoneTransmit
  <2>3. CASE ComesIn(n) \/ Timers(n) \/ PowerCycle(n)
    BY <2>3, LoneComesIn, LoneTimers, LonePower
  <2> QED BY <1>3, <2>1, <2>2, <2>3
<1> QED
  BY <1>2, <1>3 DEF Next

(* A transmitter that stops at a frame of one piece, heard by a handler    *)
(* into whose buffer nothing came, has a rival on its channel (taskRf,     *)
(* procRfRepeatCmd, procRfVolumeCmd, procRfDaylightCmd, conflictTx): no    *)
(* relay of requests and no answer makes it stop, if there are no          *)
(* repeaters and no request gives a node another address.                  *)
THEOREM StopsForRival == Undisturbed => (Spec => ConflictIsReal)
<1> SUFFICES ASSUME Undisturbed PROVE Spec => ConflictIsReal
  OBVIOUS
<1>1. Init => LoneInv
  BY LoneInit
<1>2. IInv /\ LoneInv /\ [Next]_vars => LoneInv'
  BY LoneStep
<1>3. IInv /\ LoneInv /\ [Next]_vars =>
        [\A n \in Node : dev[n].mode = "run" /\ dev'[n].mode = "conflict" /\ Sent(n).whole
                           => Rival(n)]_vars
  BY LoneStep DEF RealOnly
<1> QED
  BY Invariance, <1>1, <1>2, <1>3, PTL DEF Spec, ConflictIsReal

=============================================================================
