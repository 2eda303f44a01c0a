------------------------------ MODULE MCUttecNet ------------------------------
(***************************************************************************)
(* Small installations for TLC: who is where, and what the server sends.   *)
(***************************************************************************)
EXTENDS UttecNet

A(g, p, r) == [gid |-> g, pid |-> p, rxtx |-> r]
C(high, low, level) == [high |-> high, low |-> low, level |-> level]

MCFactoryCtr == C(1, 0, 0)
MCOwnRole == A(12, 5, NoRole)
NoBus == [n \in Node |-> NoParent]

\* Addresses and sensors by what a node is.
AddrOf(kind) ==
  CASE kind = "tx" -> A(11, 1, "eTx")
    [] kind = "twin" -> A(11, 2, "eTx")
    [] kind = "rx" -> A(11, 3, "eRx")
    [] kind = "srx" -> A(11, 4, "eSRx")
    [] kind = "rpt" -> A(11, 5, "eRpt")
    [] kind = "gw" -> A(10, 1, "eGW")
    [] kind = "mst" -> A(10, 2, "eMst")

SensorOf(kind) ==
  CASE kind = "tx" -> "eVolume" [] kind = "srx" -> "ePir" [] OTHER -> "eNoSensor"

Install(kind) ==
  [addr |-> [n \in Node |-> AddrOf(kind[n])],
   sensor |-> [n \in Node |-> SensorOf(kind[n])]]

\* Nodes that are called by their kind.
AsNamed == {Install([n \in Node |-> n])}

\* A transmitter, and beside it a lamp, a repeater or a second transmitter.
Pairs ==
  {Install([n \in Node |-> IF n = "tx" THEN "tx" ELSE kind]) :
     kind \in {"rx", "srx", "rpt", "twin"}}

\* The node under the server and another one, by what they are.
Two(kinds) ==
  {Install([n \in Node |-> IF n = "gw" THEN kind[1] ELSE kind[2]]) : kind \in kinds}

\* Two levels of the tree: gateway over transmitter, master over gateway.
Trees == Two({<<"gw", "tx">>, <<"mst", "gw">>})

\* A lamp with a sensor, or a repeater, behind a gateway, and one behind a
\* transmitter.
Lamps == Two({<<"gw", "srx">>, <<"gw", "rpt">>, <<"tx", "srx">>})

\* What a request for a group passes: gateway, transmitter and lamp.
Groups == Two({<<"gw", "tx">>, <<"gw", "rx">>, <<"tx", "rx">>})

-----------------------------------------------------------------------------
\* The gateway under the server, the transmitters under the gateway.
MCParent ==
  [n \in Node |->
     CASE n = "gw" -> Server
       [] n = "tx" -> "gw"
       [] OTHER -> NoParent]

Request(sub, dst, role) ==
  [cmd |-> "edServerReq", sub |-> sub, src |-> A(0, 0, "eMst"),
   sensor |-> "ePir", ctr |-> C(1, 0, 1), role |-> role, dst |-> dst,
   whole |-> TRUE]

Report(cmd) == [Request("edsControl", A(11, 0, "eSRx"), A(11, 0, "eSRx")) EXCEPT !.cmd = cmd]

NoRequest == {}

SrxAddr == A(11, 4, "eSRx")
Moved == A(12, 6, "eSRx")
Status == Request("edsCmd_Status", SrxAddr, SrxAddr)

\* Read one lamp, move it, try both with a whole group.
LampRequests ==
  {Status,
   Request("edsCmd_Status", A(11, 0, "eSRx"), SrxAddr),
   Request("edsCmd_485NewSet", SrxAddr, Moved),
   Request("edsCmd_485NewSet", A(11, 0, "eSRx"), Moved)}

(* Control the gateway; the group, once to full light and once every       *)
(* second lamp to dark; release it; release another group, which from the  *)
(* transmitter's group address travels on its channel; the frames of a     *)
(* knob; and the answer of another transmitter, heard on the shared line.  *)
GroupRequests ==
  {Request("edsControl", A(10, 1, "eGW"), SrxAddr),
   Request("edsControl", A(11, 0, "eRx"), SrxAddr),
   [Request("edsCmd_Alternative", A(11, 0, "eRx"), SrxAddr)
      EXCEPT !.ctr.level = 0, !.src = A(11, 1, "eMst")],
   Request("edsNewSet", A(11, 0, "eRx"), SrxAddr),
   [Request("edsNewSet", A(12, 0, "eRx"), SrxAddr) EXCEPT !.src = A(11, 0, "eMst")],
   Report("edVolume"), Report("edDayLight"),
   [Report("edClientAck") EXCEPT !.src = A(12, 1, "eTx")]}

GwAddr == A(10, 1, "eGW")
OneRequest == {Status}
StatusRequests == OneRequest \cup {Request("edsCmd_Status", GwAddr, GwAddr)}
MoveLamp == {Request("edsCmd_485NewSet", SrxAddr, Moved)}

ReplaceTx == {Request("edsCmd_485NewSet", A(11, 1, "eTx"), A(11, 6, "eSRx"))}

\* What the theorems ask of installations and requests: the one about
\* acknowledgements, the one about conflicts, and all that speak of addresses.
ASSUME NoAnswers == ServerFrame # GroupRequests => ServerAsks
ASSUME GroupIsUndisturbed == ServerFrame = GroupRequests => Undisturbed
ASSUME NobodyInGroupZero == ZeroIsNobody
=============================================================================
