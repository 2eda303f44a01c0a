------------------------------ MODULE LossyLine ------------------------------
(***************************************************************************)
(* What a line between two nodes promises to the one that listens: of the  *)
(* frames that were sent, numbered in their order, it hands over some, each *)
(* one whole and at most once, and never an older one after a newer one.   *)
(***************************************************************************)
EXTENDS Integers

VARIABLES
  sent,   \* how many frames were sent
  got     \* the number of the frame handed over last, 0 at first

lineVars == <<sent, got>>

LineInit ==
  /\ sent = 0
  /\ got = 0

Send ==
  /\ sent' = sent + 1
  /\ UNCHANGED got

\* The frames between the two are lost.
HandOver ==
  /\ got' \in (got + 1)..sent
  /\ UNCHANGED sent

LineNext == Send \/ HandOver

LineSpec == LineInit /\ [][LineNext]_lineVars
=============================================================================
