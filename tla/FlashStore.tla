------------------------------ MODULE FlashStore ------------------------------
(***************************************************************************)
(* The settings page of a node (UttecLib/Flash.cpp).                       *)
(*                                                                         *)
(* The structure Flash_t lives in RAM (m_flash) and is copied, word by     *)
(* word and in the order of its fields, to the last page of the flash.     *)
(* writeFlash erases the page first, so a power failure may leave any      *)
(* prefix of the structure behind.  FactoryModeId lies after the settings  *)
(* and is compared at start-up: it works as the commit mark of the page.   *)
(* Words written after it (Life, VolumeCheck, ...) may be missing although *)
(* the mark is there.                                                      *)
(*                                                                         *)
(* An erase pulse is taken to be atomic: it acts on all the cells of the   *)
(* page together.                                                          *)
(***************************************************************************)
EXTENDS Integers

CONSTANTS
  NWords,        \* sizeof(Flash_t)/4
  HardwareWord,  \* the word that holds Flash_t.Hardware
  ModeIdWord,    \* the word that holds Flash_t.FactoryModeId
  VolumeWord,    \* the word that holds Flash_t.VolumeCheck
  Data,          \* contents that are none of the three below
  FactoryData,   \* those that initOrgFlash leaves in a settings word
  Zero,          \* 0
  Erased,        \* 0xFFFFFFFF
  FieldMode,     \* DeFieldMode
  NoConfig,      \* (for the refinement) no committed configuration
  MaxPowerLoss   \* bound on the power failures of a behaviour

Word == 1..NWords
SettingWord == 1..(ModeIdWord - 1)
Value == Data \cup {Zero, Erased, FieldMode}
Image == [Word -> Value]
Config == [SettingWord -> Value]

ASSUME LayoutAssumption ==
  /\ NWords \in Nat
  /\ HardwareWord \in Nat \ {0} /\ ModeIdWord \in Nat /\ VolumeWord \in Nat
  /\ HardwareWord < ModeIdWord
  /\ ModeIdWord < VolumeWord
  /\ VolumeWord <= NWords

ASSUME ContentAssumption ==
  /\ FactoryData \subseteq Data
  /\ Zero # Erased /\ Zero # FieldMode /\ Erased # FieldMode
  /\ Zero \notin Data /\ Erased \notin Data /\ FieldMode \notin Data
  /\ NoConfig \notin Config

ASSUME BoundAssumption == MaxPowerLoss \in Nat

VARIABLES
  ram,     \* Flash::m_flash
  page,    \* the last page of the flash
  mode,    \* where the program is
  next,    \* writeFlash: 0 before the erase, then the word to write next
  after,   \* where writeFlash returns to
  sampled, \* volume: volumeCount has passed MaxVolumeCount since the start
  losses,  \* power failures so far
  saved    \* history: the image of the latest save that erased the page

vars == <<ram, page, mode, next, after, sampled, losses, saved>>

ZeroBased == [w \in 0..(NWords - 1) |-> Erased]   \* faulty: off by one

Blank == [w \in Word |-> Erased]
ZeroImage == [w \in Word |-> Zero]
Settings(img) == [w \in SettingWord |-> img[w]]

(* What initOrgFlash makes of the structure.  MacAddr is random and the    *)
(* frame fields it does not assign keep what was in RAM, so a settings     *)
(* word may hold any of FactoryData.                                       *)
FactoryImage ==
  {img \in Image :
     /\ img[HardwareWord] = Zero
     /\ img[ModeIdWord] = FieldMode
     /\ img[VolumeWord] = Zero
     /\ \A w \in SettingWord \ {HardwareWord} : img[w] \in FactoryData}

Init ==
  /\ ram = ZeroImage
  /\ page = Blank
  /\ mode = "off"
  /\ next = 0
  /\ after = "running"
  /\ sampled = FALSE
  /\ losses = 0
  /\ saved = ZeroImage

PowerOn ==
  /\ mode = "off"
  /\ mode' = "boot"
  /\ UNCHANGED <<ram, page, next, after, sampled, losses, saved>>

ReadAllFlash ==
  /\ mode = "boot"
  /\ ram' = page
  /\ mode' = "loaded"
  /\ sampled' = FALSE
  /\ UNCHANGED <<page, next, after, losses, saved>>

\* writeFlash is called with the image img and will return to ret.
CallWriteFlash(img, ret) ==
  /\ ram' = img
  /\ mode' = "saving"
  /\ next' = 0
  /\ after' = ret
  /\ UNCHANGED <<page, losses, saved>>

IsFactoryMode ==
  /\ mode = "loaded"
  /\ \/ /\ ram[ModeIdWord] # FieldMode
        /\ \E img \in FactoryImage : CallWriteFlash(img, "ready")
        /\ UNCHANGED sampled
     \/ /\ ram[ModeIdWord] = FieldMode
        /\ mode' = "ready"
        /\ UNCHANGED <<ram, page, next, after, sampled, losses, saved>>

\* Faulty: the check comes before isFactoryMode.
IsHardwareOkFirst ==
  /\ mode = "loaded"
  /\ mode' = IF ram[HardwareWord] = Zero THEN "running" ELSE "hardwareError"
  /\ UNCHANGED <<ram, page, next, after, sampled, losses, saved>>

IsHardwareOk ==
  /\ mode = "ready"
  /\ mode' = IF ram[HardwareWord] = Zero THEN "running" ELSE "hardwareError"
  /\ UNCHANGED <<ram, page, next, after, sampled, losses, saved>>

\* Faulty: the page is written over without an erase.
FlashNoErase ==
  /\ mode = "saving"
  /\ next = 0
  /\ saved' = ram
  /\ next' = 1
  /\ UNCHANGED <<ram, page, mode, after, sampled, losses>>

FlashPageErase ==
  /\ mode = "saving"
  /\ next = 0
  /\ page' = Blank
  /\ saved' = ram
  /\ next' = 1
  /\ UNCHANGED <<ram, mode, after, sampled, losses>>

FlashWordWrite ==
  /\ mode = "saving"
  /\ next \in Word
  /\ page' = [page EXCEPT ![next] = ram[next]]
  /\ next' = next + 1
  /\ UNCHANGED <<ram, mode, after, sampled, losses, saved>>

\* The verification only prints, and no caller looks at the result.
EndWriteFlash ==
  /\ mode = "saving"
  /\ next = NWords + 1
  /\ mode' = after
  /\ next' = 0
  /\ UNCHANGED <<ram, page, after, sampled, losses, saved>>

(* Handlers that use the frame in RAM as their working copy (levels, last  *)
(* command, role of a repeater, ...) and do not save it.                   *)
ChangeRam ==
  /\ mode = "running"
  /\ \E w \in SettingWord \ {HardwareWord}, v \in Data :
       ram' = [ram EXCEPT ![w] = v]
  /\ UNCHANGED <<page, mode, next, after, sampled, losses, saved>>

\* Settings from the commissioning tool: saved, then NVIC_SystemReset.
ProcessCmdNewSet ==
  /\ mode = "running"
  /\ \E w \in SettingWord \ {HardwareWord}, v \in Data :
       CallWriteFlash([ram EXCEPT ![w] = v], "boot")
  /\ UNCHANGED sampled

\* Settings from the server: saved, and the node goes on.
ProcNewFactSetSub ==
  /\ mode = "running"
  /\ \E w \in SettingWord \ {HardwareWord}, v \in Data :
       CallWriteFlash([ram EXCEPT ![w] = v], "running")
  /\ UNCHANGED sampled

(* A volume unit without a calibration measures the range of its knob for  *)
(* MaxVolumeCount samples, once per start, and saves it; the range is 0    *)
(* when nobody turned the knob.  The test is !(VolumeCheck > 0.001): an    *)
(* erased word reads as a NaN, which fails the comparison as 0 does.       *)
NeedsCalibrationZeroOnly(v) == v = Zero   \* faulty: VolumeCheck <= 0.001

NeedsCalibration(v) == v \in {Zero, Erased}

ProcVolumeSw ==
  /\ mode = "running"
  /\ ~sampled
  /\ NeedsCalibration(ram[VolumeWord])
  /\ sampled' = TRUE
  /\ \E v \in Data \cup {Zero} :
       CallWriteFlash([ram EXCEPT ![VolumeWord] = v], "running")

\* Power fails at any moment, inside writeFlash too.  RAM restarts zeroed.
PowerLoss ==
  /\ mode # "off"
  /\ losses < MaxPowerLoss
  /\ losses' = losses + 1
  /\ mode' = "off"
  /\ ram' = ZeroImage
  /\ next' = 0
  /\ UNCHANGED <<page, after, sampled, saved>>

Next ==
  \/ PowerOn \/ ReadAllFlash \/ IsFactoryMode \/ IsHardwareOk
  \/ FlashPageErase \/ FlashWordWrite \/ EndWriteFlash
  \/ ChangeRam \/ ProcessCmdNewSet \/ ProcNewFactSetSub \/ ProcVolumeSw
  \/ PowerLoss

Spec == Init /\ [][Next]_vars

(* The program runs whenever it has power.  The knob is sampled every      *)
(* millisecond, so a calibration that is due again and again is made       *)
(* (strong fairness: a node is not reset for ever within its first 10 s).  *)
Fairness ==
  /\ WF_vars(PowerOn)
  /\ WF_vars(ReadAllFlash)
  /\ WF_vars(IsFactoryMode)
  /\ WF_vars(IsHardwareOk)
  /\ WF_vars(FlashPageErase)
  /\ WF_vars(FlashWordWrite)
  /\ WF_vars(EndWriteFlash)
  /\ SF_vars(ProcVolumeSw)

FairSpec == Spec /\ Fairness

-----------------------------------------------------------------------------
Mode == {"off", "boot", "loaded", "ready", "running", "saving", "hardwareError"}

(* Type invariant: the page and the RAM copy hold words, and the counters  *)
(* of writeFlash stay within the structure.                                *)
TypeOK ==
  /\ ram \in Image
  /\ page \in Image
  /\ saved \in Image
  /\ mode \in Mode
  /\ next \in 0..(NWords + 1)
  /\ after \in {"ready", "running", "boot"}
  /\ sampled \in BOOLEAN
  /\ losses \in 0..MaxPowerLoss

(* A page that carries the commit mark holds every settings word of the    *)
(* latest save that erased it, wherever power failed: isFactoryMode never  *)
(* accepts a mix of an old and a new configuration.                        *)
CommittedIsWhole ==
  page[ModeIdWord] = FieldMode => Settings(page) = Settings(saved)

(* isHardwareOk never locks the node up because of a torn page: an erased  *)
(* Hardware word (0xFFFF, non-zero) is never seen behind a valid mark.     *)
NoHardwareLockout == mode # "hardwareError"

(* A start that finds a finished save brings back exactly that save, never *)
(* an older one and never a factory configuration (isFactoryMode).         *)
BootRestoresSave ==
  [][mode = "loaded" /\ mode' = "ready" => Settings(ram') = Settings(saved)]_vars

(* When power failed between the commit mark and VolumeCheck, that word is *)
(* left erased behind a valid mark.  Once power stays on the volume unit   *)
(* writes it again, and no page with a hole is ever run with afterwards.   *)
TornTailRepaired ==
  <>[](mode = "running" => page[VolumeWord] # Erased)

-----------------------------------------------------------------------------
(* The promise this page keeps: ConfigStore, where the committed           *)
(* configuration is read through the mark and the active one from RAM.     *)
Committed == IF page[ModeIdWord] = FieldMode THEN Settings(page) ELSE NoConfig
Active ==
  IF mode \in {"ready", "running", "saving", "hardwareError"}
  THEN Settings(ram) ELSE NoConfig

Store == INSTANCE ConfigStore WITH
  FactoryConfig <- {Settings(img) : img \in FactoryImage},
  stored <- Committed,
  active <- Active,
  saving <- (mode = "saving")

(* Every behaviour of the page is one of ConfigStore: a save commits all   *)
(* the settings at the word write of FactoryModeId and a crash never       *)
(* leaves half of them.                                                    *)
ImplementsConfigStore == Store!StoreSpec
=============================================================================
