----------------------------- MODULE MCFlashStore -----------------------------
(* FlashStore on a page of five words: two settings words (so that a torn   *)
(* frame shows), Hardware, FactoryModeId and VolumeCheck.                   *)
EXTENDS FlashStore

\* d1 is what a factory initialisation leaves, d2 a value set by a user.
CONSTANTS d1, d2

MCData == {d1, d2}
MCFactoryData == {d1}
=============================================================================
