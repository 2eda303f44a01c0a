------------------------------ MODULE ConfigStore ------------------------------
(***************************************************************************)
(* What the settings page of a node promises its user, whatever the order  *)
(* in which words reach the flash and whenever the power fails: a node     *)
(* always starts either with the whole configuration that was last         *)
(* committed or, when there is none, with a factory configuration.         *)
(***************************************************************************)

CONSTANTS
  Config,         \* every configuration a node may run with
  FactoryConfig,  \* a subset: what a factory initialisation may choose
  NoConfig        \* "nothing committed" or "nothing loaded", not in Config

VARIABLES
  stored,   \* the configuration the page would yield at the next start
  active,   \* the configuration in use, NoConfig while the node is down
  saving    \* a save is in progress

storeVars == <<stored, active, saving>>

StoreInit ==
  /\ stored = NoConfig
  /\ active = NoConfig
  /\ saving = FALSE

\* A start: the committed configuration, or a factory one that is saved at once.
Load ==
  /\ active = NoConfig
  /\ ~saving
  /\ \/ /\ stored # NoConfig
        /\ active' = stored
        /\ saving' = FALSE
     \/ /\ stored = NoConfig
        /\ active' \in FactoryConfig
        /\ saving' = TRUE
  /\ UNCHANGED stored

\* The program changes its working copy, and may decide to save it.
Change ==
  /\ active # NoConfig
  /\ ~saving
  /\ active' \in Config
  /\ saving' \in BOOLEAN
  /\ UNCHANGED stored

\* A save first gives up the old configuration ...
Forget ==
  /\ saving
  /\ stored' = NoConfig
  /\ UNCHANGED <<active, saving>>

\* ... and then commits the one in use, as a whole, in one step.
Commit ==
  /\ saving
  /\ stored = NoConfig
  /\ stored' = active
  /\ UNCHANGED <<active, saving>>

\* The save is over; the node goes on, or restarts.
EndSave ==
  /\ saving
  /\ stored = active
  /\ saving' = FALSE
  /\ active' \in {active, NoConfig}
  /\ UNCHANGED stored

\* Power fails or the node resets.
Crash ==
  /\ active' = NoConfig
  /\ saving' = FALSE
  /\ UNCHANGED stored

StoreNext == Load \/ Change \/ Forget \/ Commit \/ EndSave \/ Crash

StoreSpec == StoreInit /\ [][StoreNext]_storeVars
=============================================================================
