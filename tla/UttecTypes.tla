------------------------------ MODULE UttecTypes ------------------------------
(***************************************************************************)
(* Roles, commands, frames and the address predicates that every handler   *)
(* uses (UttecLib/Flash.h, UttecApp/CmdDefine.h, UttecApp/UttecUtil.cpp).  *)
(***************************************************************************)
EXTENDS Integers

CONSTANTS
  Group,    \* group addresses in use
  Private,  \* private addresses in use, 0 (every member of a group) included
  Level     \* dimming levels

ASSUME AddressAssumption ==
  /\ Group \subseteq Nat
  /\ Private \subseteq Nat
  /\ 0 \in Private

\* NoRole: 0xFF or another byte that is none of them.
NoRole == "none"
Role == {"eRx", "eTx", "eSRx", "eRpt", "eGW", "eMst", NoRole}
SensorType == {"eNoSensor", "ePir", "eVolume", "eDayLight"}

\* A fresh node keeps 0xFF.. in the fields that initOrgFlash does not assign.
ErasedGroup == 65535
ErasedPrivate == 255
ErasedCmd == "erased"

Cmd ==
  {"edDummy", "edSensor", "edRepeat", "edVolume", "edDayLight",
   "edServerReq", "edClientAck", ErasedCmd}

SubCmd ==
  {"edsPowerRead", "edsMonitor", "edsControl", "edsNewSet",
   "edsCmd_485NewSet", "edsCmd_Alternative", "edsCmd_Status", ErasedCmd}

\* MyAddr_t, and the destination that ping_t lays over Trans_t.
Addr == [gid : Group \cup {0, ErasedGroup}, pid : Private \cup {ErasedPrivate}, rxtx : Role]

\* Ctr_t: the dimming factors.
Ctr == [high : Level, low : Level, level : Level]

(* rfFrame_t; role is Role_t, which a reconfiguration lays over Ctr_t.     *)
(* whole is history: the frame is of one piece, made by a handler whose    *)
(* own frame nothing came into.                                            *)
Frame ==
  [cmd : Cmd, sub : SubCmd, src : Addr, sensor : SensorType, ctr : Ctr,
   role : Addr, dst : Addr, whole : BOOLEAN]

\* A frame comes in part by part: 1 MyAddr, 2 Ctr, 3 Cmd, 4 Trans.  Frame b
\* with some parts of f written over it.
Written(b, f, parts) ==
  LET From(part) == IF part \in parts THEN f ELSE b
  IN  [src |-> From(1).src, sensor |-> From(1).sensor,
       ctr |-> From(2).ctr, role |-> From(2).role,
       cmd |-> From(3).cmd, sub |-> From(3).sub,
       dst |-> From(4).dst, whole |-> FALSE]

-----------------------------------------------------------------------------
IsTx(a) == a.rxtx = "eTx"
IsRx(a) == a.rxtx = "eRx"
IsRpt(a) == a.rxtx = "eRpt"
IsGw(a) == a.rxtx = "eGW"
IsMst(a) == a.rxtx = "eMst"
IsMstOrGw(a) == IsMst(a) \/ IsGw(a)

\* Faulty: a test that leaves the group out.
IsMyPid(f, my) == f.dst.pid \in {0, my.pid} /\ ~IsMstOrGw(my)

\* Addressed by its three fields, or as a member of a group (pid 0).
IsMyAddr(f, my) ==
  /\ f.dst.gid = my.gid
  /\ \/ f.dst.pid = my.pid /\ f.dst.rxtx = my.rxtx
     \/ f.dst.pid = 0 /\ ~IsMstOrGw(my)

\* The caller passes its own frame first: my group is the one in its Trans.
IsNotMyGwGroup(dst, src) == src.gid \div 10 # dst.gid \div 10

NoCheck(f) == FALSE   \* faulty: no test of the address

\* A request for one node may not use the address of a whole group.
CheckErrorPid(f) == f.dst.pid = 0
=============================================================================
