--------------------------- MODULE FlashStoreProofs ---------------------------
(***************************************************************************)
(* Proofs about the settings page, for every layout, every set of contents *)
(* and every number of power failures: the page never mixes two            *)
(* configurations, a node never locks up on a torn page, a start brings    *)
(* back the latest save, and the page implements ConfigStore.              *)
(***************************************************************************)
EXTENDS FlashStore, TLAPS

USE LayoutAssumption, ContentAssumption, BoundAssumption

\* The RAM image in use has the mark: it was read behind one, or initOrgFlash set it.
MarkInRam ==
  mode \in {"ready", "running", "saving"} => ram[ModeIdWord] = FieldMode

(* While writeFlash runs, the words before next are those of RAM and the   *)
(* others are erased.                                                      *)
PrefixWritten ==
  mode = "saving" /\ next # 0 =>
    /\ saved = ram
    /\ \A w \in Word : w < next => page[w] = ram[w]
    /\ \A w \in Word : next <= w => page[w] = Erased

\* Hardware is clear in every RAM image in use and behind every commit mark.
HardwareClear ==
  /\ mode \in {"ready", "running", "saving"} => ram[HardwareWord] = Zero
  /\ page[ModeIdWord] = FieldMode => page[HardwareWord] = Zero

(* The inductive invariant.  CommittedIsWhole alone is not inductive: that *)
(* the word write of the mark completes the settings of this very save     *)
(* needs PrefixWritten, and that the mark is what is written there needs   *)
(* MarkInRam.                                                              *)
IInv ==
  /\ TypeOK
  /\ MarkInRam
  /\ PrefixWritten
  /\ HardwareClear
  /\ CommittedIsWhole
  /\ NoHardwareLockout
  /\ mode = "loaded" => ram = page

LEMMA WordFacts ==
  /\ HardwareWord \in Word /\ ModeIdWord \in Word /\ VolumeWord \in Word
  /\ HardwareWord \in SettingWord
  /\ SettingWord \subseteq Word
  /\ ModeIdWord \notin SettingWord /\ VolumeWord \notin SettingWord
  /\ \A w \in SettingWord : w < ModeIdWord
  /\ Zero \in Value /\ Erased \in Value /\ FieldMode \in Value
  /\ Data \subseteq Value
BY DEF Word, SettingWord, Value

LEMMA ImageFacts ==
  /\ ZeroImage \in Image
  /\ Blank \in Image
  /\ \A img \in FactoryImage :
       /\ img \in Image
       /\ img[ModeIdWord] = FieldMode
       /\ img[HardwareWord] = Zero
BY WordFacts DEF ZeroImage, Blank, Image, FactoryImage

LEMMA InitEstablishes == Init => IInv
<1> SUFFICES ASSUME Init PROVE IInv
  OBVIOUS
<1>1. TypeOK
  <2>1. ram \in Image /\ page \in Image /\ saved \in Image
    BY ImageFacts DEF Init
  <2>2. next \in 0..(NWords + 1) /\ losses \in 0..MaxPowerLoss
    BY DEF Init
  <2>3. QED
    BY <2>1, <2>2 DEF Init, TypeOK, Mode
<1>2. page[ModeIdWord] # FieldMode
  BY WordFacts DEF Init, Blank
<1>3. QED
  BY <1>1, <1>2 DEF Init, IInv, MarkInRam, PrefixWritten, HardwareClear,
     CommittedIsWhole, NoHardwareLockout

(* Every call of writeFlash passes a well-formed image that carries the    *)
(* mark and a clear Hardware word.                                         *)
LEMMA CallPreserves ==
  ASSUME IInv, NEW img \in Image, NEW ret \in {"ready", "running", "boot"},
         img[ModeIdWord] = FieldMode, img[HardwareWord] = Zero,
         CallWriteFlash(img, ret), sampled' \in BOOLEAN
  PROVE  IInv'
BY WordFacts
   DEF IInv, CallWriteFlash, TypeOK, Mode, MarkInRam, PrefixWritten,
       HardwareClear, CommittedIsWhole, NoHardwareLockout, Settings

LEMMA StepPreserves == IInv /\ [Next]_vars => IInv'
<1> SUFFICES ASSUME IInv, [Next]_vars PROVE IInv'
  OBVIOUS
<1> USE WordFacts, ImageFacts DEF IInv
<1>1. CASE PowerOn
  BY <1>1 DEF PowerOn, TypeOK, Mode, MarkInRam, PrefixWritten,
     HardwareClear, CommittedIsWhole, NoHardwareLockout
<1>2. CASE ReadAllFlash
  BY <1>2 DEF ReadAllFlash, TypeOK, Mode, MarkInRam, PrefixWritten,
     HardwareClear, CommittedIsWhole, NoHardwareLockout
<1>3. CASE IsFactoryMode
  <2>1. CASE ram[ModeIdWord] # FieldMode
    <3>1. PICK img \in FactoryImage : CallWriteFlash(img, "ready")
      BY <1>3, <2>1 DEF IsFactoryMode
    <3>2. sampled' \in BOOLEAN
      BY <1>3, <2>1 DEF IsFactoryMode, TypeOK
    <3>3. QED
      BY <3>1, <3>2, CallPreserves
  <2>2. CASE ram[ModeIdWord] = FieldMode
    BY <1>3, <2>2 DEF IsFactoryMode, TypeOK, Mode, MarkInRam,
       PrefixWritten, HardwareClear, CommittedIsWhole, NoHardwareLockout
  <2>3. QED
    BY <2>1, <2>2
<1>4. CASE IsHardwareOk
  BY <1>4 DEF IsHardwareOk, TypeOK, Mode, MarkInRam, PrefixWritten,
     HardwareClear, CommittedIsWhole, NoHardwareLockout
<1>5. CASE FlashPageErase
  BY <1>5 DEF FlashPageErase, Blank, TypeOK, Mode, MarkInRam, PrefixWritten,
     HardwareClear, CommittedIsWhole, NoHardwareLockout, Word
<1>6. CASE FlashWordWrite
  <2>1. /\ mode = "saving" /\ mode' = "saving"
        /\ next \in Word /\ next' = next + 1 /\ next # 0
        /\ page' = [page EXCEPT ![next] = ram[next]]
        /\ ram' = ram /\ saved' = saved /\ saved = ram
    BY <1>6 DEF FlashWordWrite, PrefixWritten, Word
  <2>2. TypeOK'
    BY <1>6, <2>1 DEF FlashWordWrite, TypeOK, Mode, Image, Word
  <2>3. PrefixWritten'
    <3>1. \A w \in Word : page'[w] = IF w = next THEN ram[next] ELSE page[w]
      BY <2>1 DEF TypeOK, Image
    <3>2. QED
      BY <2>1, <3>1 DEF PrefixWritten, Word
  <2>4. \A w \in Word : page'[w] = IF w < next' THEN ram[w] ELSE Erased
    BY <2>1, <2>3 DEF PrefixWritten, Word
  <2>5. page'[ModeIdWord] = FieldMode => ModeIdWord < next'
    BY <2>4
  <2>6. CommittedIsWhole'
    <3>1. SUFFICES ASSUME page'[ModeIdWord] = FieldMode
                   PROVE  Settings(page)' = Settings(saved)'
      BY DEF CommittedIsWhole
    <3>2. \A w \in SettingWord : page'[w] = saved'[w]
      BY <2>1, <2>4, <2>5, <3>1 DEF Word, SettingWord
    <3>3. QED
      BY <3>2 DEF Settings
  <2>7. MarkInRam' /\ NoHardwareLockout'
    BY <2>1 DEF MarkInRam, NoHardwareLockout
  <2>8. HardwareClear'
    BY <2>1, <2>4, <2>5 DEF HardwareClear, Word
  <2>9. QED
    BY <2>1, <2>2, <2>3, <2>6, <2>7, <2>8
<1>7. CASE EndWriteFlash
  BY <1>7 DEF EndWriteFlash, TypeOK, Mode, MarkInRam, PrefixWritten,
     HardwareClear, CommittedIsWhole, NoHardwareLockout
<1>8. CASE ChangeRam
  <2>1. PICK w \in SettingWord \ {HardwareWord}, v \in Data :
          ram' = [ram EXCEPT ![w] = v]
    BY <1>8 DEF ChangeRam
  <2>2. ram' \in Image /\ ram'[ModeIdWord] = ram[ModeIdWord]
        /\ ram'[HardwareWord] = ram[HardwareWord]
    BY <2>1 DEF TypeOK, Image
  <2>3. QED
    BY <1>8, <2>2 DEF ChangeRam, TypeOK, Mode, MarkInRam, PrefixWritten,
       HardwareClear, CommittedIsWhole, NoHardwareLockout
<1>9. ASSUME mode = "running", NEW w \in SettingWord \ {HardwareWord}, NEW v \in Data
      PROVE  LET img == [ram EXCEPT ![w] = v]
             IN  img \in Image /\ img[ModeIdWord] = FieldMode /\ img[HardwareWord] = Zero
  BY <1>9 DEF TypeOK, Image, MarkInRam, HardwareClear
<1>10. CASE ProcessCmdNewSet
  BY <1>9, <1>10, CallPreserves DEF ProcessCmdNewSet, TypeOK
<1>11. CASE ProcNewFactSetSub
  BY <1>9, <1>11, CallPreserves DEF ProcNewFactSetSub, TypeOK
<1>12. CASE ProcVolumeSw
  <2>1. PICK v \in Data \cup {Zero} :
          CallWriteFlash([ram EXCEPT ![VolumeWord] = v], "running")
    BY <1>12 DEF ProcVolumeSw
  <2>2. LET img == [ram EXCEPT ![VolumeWord] = v]
        IN  img \in Image /\ img[ModeIdWord] = FieldMode /\ img[HardwareWord] = Zero
    BY <1>12 DEF ProcVolumeSw, TypeOK, Image, MarkInRam, HardwareClear
  <2>3. sampled' \in BOOLEAN
    BY <1>12 DEF ProcVolumeSw
  <2>4. QED
    BY <2>1, <2>2, <2>3, CallPreserves
<1>13. CASE PowerLoss
  BY <1>13 DEF PowerLoss, TypeOK, Mode, MarkInRam, PrefixWritten,
     HardwareClear, CommittedIsWhole, NoHardwareLockout
<1>14. CASE UNCHANGED vars
  BY <1>14 DEF vars, TypeOK, Mode, MarkInRam, PrefixWritten,
     HardwareClear, CommittedIsWhole, NoHardwareLockout
<1>15. QED
  BY <1>1, <1>2, <1>3, <1>4, <1>5, <1>6, <1>7, <1>8, <1>10, <1>11, <1>12, <1>13,
     <1>14 DEF Next

(* The inductive invariant holds in every behaviour, whenever power fails. *)
THEOREM Invariance == Spec => []IInv
BY InitEstablishes, StepPreserves, PTL DEF Spec

(* The page and the RAM copy keep their types (Flash_t, writeFlash).       *)
THEOREM TypeCorrect == Spec => []TypeOK
BY Invariance, PTL DEF IInv

(* isFactoryMode never accepts a page that mixes two configurations.       *)
THEOREM NeverTorn == Spec => []CommittedIsWhole
BY Invariance, PTL DEF IInv

(* isHardwareOk never loops because of a power failure inside writeFlash.  *)
THEOREM NeverLockedOut == Spec => []NoHardwareLockout
BY Invariance, PTL DEF IInv

-----------------------------------------------------------------------------
(* A start after a finished save brings back the settings of that save     *)
(* (ReadAllFlash, isFactoryMode).                                          *)
THEOREM BootsRestore == Spec => BootRestoresSave
<1>1. ASSUME IInv, [Next]_vars, mode = "loaded", mode' = "ready"
      PROVE  Settings(ram)' = Settings(saved)' /\ saved' = saved
  <2>1. IsFactoryMode
    BY <1>1 DEF Next, vars, PowerOn, ReadAllFlash, IsHardwareOk, FlashPageErase,
       FlashWordWrite, EndWriteFlash, ChangeRam, ProcessCmdNewSet,
       ProcNewFactSetSub, ProcVolumeSw, PowerLoss
  <2>2. ram = page /\ ram[ModeIdWord] = FieldMode /\ ram' = ram /\ saved' = saved
    BY <1>1, <2>1 DEF IsFactoryMode, CallWriteFlash, IInv
  <2>3. Settings(page) = Settings(saved)
    BY <1>1, <2>2 DEF IInv, CommittedIsWhole
  <2>4. QED
    BY <2>2, <2>3
<1>2. IInv /\ [Next]_vars =>
       [mode = "loaded" /\ mode' = "ready" => Settings(ram') = Settings(saved)]_vars
  <2>1. SUFFICES ASSUME IInv, [Next]_vars, mode = "loaded", mode' = "ready"
                 PROVE  Settings(ram') = Settings(saved)
    OBVIOUS
  <2>2. mode' # mode /\ Settings(ram)' = Settings(saved)' /\ saved' = saved
    BY <1>1, <2>1 DEF Next, vars, PowerOn, ReadAllFlash, IsFactoryMode,
       CallWriteFlash, IsHardwareOk, FlashPageErase, FlashWordWrite,
       EndWriteFlash, ChangeRam, ProcessCmdNewSet, ProcNewFactSetSub,
       ProcVolumeSw, PowerLoss
  <2>3. QED
    BY <2>2 DEF Settings
<1>3. QED
  BY <1>2, Invariance, PTL DEF Spec, BootRestoresSave

-----------------------------------------------------------------------------
\* Only the settings words and the commit mark show through the mapping.
LEMMA SettingsFacts ==
  /\ NoConfig \notin Config
  /\ \A img \in Image : Settings(img) \in Config /\ Settings(img) # NoConfig
BY WordFacts DEF Settings, Config, Image

\* A call of writeFlash by a running node is a change that starts a save.
LEMMA CallRefines ==
  ASSUME IInv, NEW img \in Image, NEW ret, mode = "running",
         CallWriteFlash(img, ret)
  PROVE  Store!Change
BY SettingsFacts
   DEF IInv, TypeOK, CallWriteFlash, Store!Change, Committed, Active

LEMMA InitRefines == Init => Store!StoreInit
BY WordFacts DEF Init, Store!StoreInit, Committed, Active, Blank

LEMMA StepRefines ==
  IInv /\ IInv' /\ [Next]_vars => [Store!StoreNext]_(Store!storeVars)
<1> SUFFICES ASSUME IInv, IInv', [Next]_vars
             PROVE  [Store!StoreNext]_(Store!storeVars)
  OBVIOUS
<1> USE DEF IInv
<1>1. CASE PowerOn
  BY <1>1 DEF PowerOn, Store!storeVars, Committed, Active
<1>2. CASE ReadAllFlash
  BY <1>2 DEF ReadAllFlash, Store!storeVars, Committed, Active
<1>3. CASE IsFactoryMode
  <2>1. mode = "loaded" /\ ram = page /\ Active = NoConfig
    BY <1>3 DEF IsFactoryMode, Active
  <2>2. CASE ram[ModeIdWord] # FieldMode
    <3>1. PICK img \in FactoryImage : CallWriteFlash(img, "ready")
      BY <1>3, <2>2 DEF IsFactoryMode
    <3>2. Active' = Settings(img) /\ Committed = NoConfig /\ Committed' = Committed
          /\ mode' = "saving"
      BY <2>1, <2>2, <3>1 DEF CallWriteFlash, Active, Committed
    <3>3. Store!Load
      BY <2>1, <3>2 DEF Store!Load
    <3>4. QED
      BY <3>3 DEF Store!StoreNext
  <2>3. CASE ram[ModeIdWord] = FieldMode
    <3>1. Committed = Settings(page) /\ Committed # NoConfig
      BY <2>1, <2>3, SettingsFacts DEF Committed, TypeOK
    <3>2. mode' = "ready" /\ Active' = Settings(page) /\ Committed' = Committed
      BY <1>3, <2>1, <2>3 DEF IsFactoryMode, Active, Committed
    <3>3. Store!Load
      BY <2>1, <3>1, <3>2 DEF Store!Load
    <3>4. QED
      BY <3>3 DEF Store!StoreNext
  <2>4. QED
    BY <2>2, <2>3
<1>4. CASE IsHardwareOk
  BY <1>4 DEF IsHardwareOk, Store!storeVars, Committed, Active
<1>5. CASE FlashPageErase
  <2>1. Committed' = NoConfig
    BY <1>5, WordFacts DEF FlashPageErase, Committed, Blank
  <2>2. Active' = Active /\ mode = "saving" /\ mode' = "saving"
    BY <1>5 DEF FlashPageErase, Active
  <2>3. Store!Forget
    BY <2>1, <2>2 DEF Store!Forget
  <2>4. QED
    BY <2>3 DEF Store!StoreNext
<1>6. CASE FlashWordWrite
  <2>1. /\ mode = "saving" /\ mode' = "saving" /\ ram' = ram
        /\ next \in Word /\ next # 0 /\ next' = next + 1 /\ next' # 0
    BY <1>6 DEF FlashWordWrite, Word
  <2>2. Active' = Active /\ Active = Settings(ram)
    BY <2>1 DEF Active
  <2>3. CASE next = ModeIdWord
    <3>1. Committed = NoConfig
      BY <2>1, <2>3, WordFacts DEF PrefixWritten, Committed, Word
    <3>2. page'[ModeIdWord] = FieldMode
      BY <2>1, <2>3, WordFacts
         DEF PrefixWritten, MarkInRam, Word
    <3>3. Settings(page)' = Settings(ram)
      BY <2>1, <3>2 DEF CommittedIsWhole, PrefixWritten, Settings
    <3>4. Store!Commit
      BY <2>1, <2>2, <3>1, <3>2, <3>3 DEF Store!Commit, Committed
    <3>5. QED
      BY <3>4 DEF Store!StoreNext
  <2>4. CASE next < ModeIdWord
    <3>1. Committed = NoConfig /\ Committed' = NoConfig
      BY <2>1, <2>4, WordFacts DEF PrefixWritten, Committed, Word
    <3>2. QED
      BY <2>1, <2>2, <3>1 DEF Store!storeVars
  <2>5. CASE next > ModeIdWord
    <3>1. \A w \in 1..ModeIdWord : page'[w] = page[w]
      BY <1>6, <2>1, <2>5 DEF FlashWordWrite, TypeOK, Image, Word
    <3>2. Committed' = Committed
      BY <3>1, WordFacts DEF Committed, Settings, SettingWord
    <3>3. QED
      BY <2>1, <2>2, <3>2 DEF Store!storeVars
  <2>6. QED
    BY <2>1, <2>3, <2>4, <2>5 DEF Word
<1>7. CASE EndWriteFlash
  <2>1. mode = "saving" /\ mode' # "saving" /\ Committed' = Committed
    BY <1>7 DEF EndWriteFlash, Committed, TypeOK
  <2>2. Active = Settings(ram) /\ Active' \in {Active, NoConfig}
    BY <1>7, <2>1 DEF EndWriteFlash, Active
  <2>3. \A w \in Word : page[w] = ram[w]
    BY <1>7, <2>1 DEF EndWriteFlash, PrefixWritten, Word
  <2>4. Committed = Settings(ram)
    BY <2>1, <2>3, WordFacts DEF Committed, Settings, MarkInRam
  <2>5. Store!EndSave
    BY <2>1, <2>2, <2>4 DEF Store!EndSave
  <2>6. QED
    BY <2>5 DEF Store!StoreNext
<1>8. CASE ChangeRam
  <2>1. Active # NoConfig /\ Active' \in Config /\ Committed' = Committed
    BY <1>8, SettingsFacts DEF ChangeRam, Active, Committed, TypeOK
  <2>2. Store!Change
    BY <1>8, <2>1 DEF ChangeRam, Store!Change
  <2>3. QED
    BY <2>2 DEF Store!StoreNext
<1>9. CASE ProcessCmdNewSet \/ ProcNewFactSetSub \/ ProcVolumeSw
  <2>1. PICK img, ret : mode = "running" /\ CallWriteFlash(img, ret)
    BY <1>9 DEF ProcessCmdNewSet, ProcNewFactSetSub, ProcVolumeSw
  <2>2. img \in Image
    BY <2>1 DEF CallWriteFlash, TypeOK
  <2>3. Store!Change
    BY <2>1, <2>2, CallRefines
  <2>4. QED
    BY <2>3 DEF Store!StoreNext
<1>10. CASE PowerLoss
  <2>1. Store!Crash
    BY <1>10 DEF PowerLoss, Store!Crash, Committed, Active
  <2>2. QED
    BY <2>1 DEF Store!StoreNext
<1>11. CASE UNCHANGED vars
  BY <1>11 DEF vars, Store!storeVars, Committed, Active
<1>12. QED
  BY <1>1, <1>2, <1>3, <1>4, <1>5, <1>6, <1>7, <1>8, <1>9, <1>10, <1>11 DEF Next

(* The settings page implements ConfigStore: a save becomes visible as a   *)
(* whole at the word write of FactoryModeId, and not before (writeFlash).  *)
THEOREM Refinement == Spec => ImplementsConfigStore
BY InitRefines, StepRefines, Invariance, PTL
   DEF Spec, ImplementsConfigStore, Store!StoreSpec
=============================================================================
