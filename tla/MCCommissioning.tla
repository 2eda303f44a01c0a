---------------------------- MODULE MCCommissioning ----------------------------
(***************************************************************************)
(* A sensor lamp and a gateway for TLC, and what an installer may set.   *)
(***************************************************************************)
EXTENDS Commissioning

New(pid, role, ctr, gid) == [pid |-> pid, role |-> role, ctr |-> ctr, gid |-> gid]

MCSensor == [n \in Lamp |-> IF n = "srx" THEN "ePir" ELSE "eNoSensor"]
MCFactory == [n \in Lamp |-> New(10, IF n = "srx" THEN "eSRx" ELSE "eGW", 11, 11)]

\* A sensor lamp of another group, and a gateway.
MCNewSets == {New(1, "eSRx", 1, 12), New(2, "eGW", 2, 11)}
=============================================================================
