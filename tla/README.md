# Verification of the Uttec wireless lighting firmware

The repository is the firmware of a wireless lighting system: lamps, their
sensors, repeaters and gateways run the same program on an nRF51/nRF52 and talk
by a 2.4 GHz radio and by RS485 under a server. The program proper lies in
`src/mbed528/uttec528/` (its main loop is `mainForSx1276.cpp`); paths below are
relative to it. This directory holds TLA+ models of it, the TLC runs that check
them on small installations and the proofs that TLAPS checks for all of them.

Contents: [the system](#the-system), [modules](#modules-and-the-code),
[runs](#runs-and-what-they-show), [bounds](#bounds-and-why-they-are-enough),
[fairness](#fairness), [proofs](#proofs), [findings](#what-the-code-does-otherwise),
[limits](#abstractions-and-limits), [plan](#plan).

## The system

A node keeps its settings in a structure `Flash_t` (address, role, sensor type,
dimming factors, channel, MAC, a factory mark, a knob calibration) in RAM and on
the last page of its flash. Its **role** is one of receiver (`eRx`), transmitter
(`eTx`), sensor receiver (`eSRx`), repeater (`eRpt`), gateway (`eGW`), master
(`eMst`). Every group of lamps has a radio channel, its group address, and one
transmitter, which repeats its state every second; lamps without a sensor follow
it. Gateways and transmitters are the nodes of an RS485 tree under the server.
The main loop polls: remote control, radio, RS485, sensor flag, millisecond tick,
second tick. Handlers run to completion inside the loop, some with waits; only
timers and receivers run beside it.

| component | state | operations | talks to | properties that make it correct |
|---|---|---|---|---|
| settings page (`UttecLib/Flash.*`) | RAM copy, flash page | `ReadAllFlash`, `isFactoryMode`/`initOrgFlash`, `isHardwareOk`, `writeFlash` | everything reads the RAM copy in place; commissioning, server requests and the knob save | no mix of two configurations is accepted after a power failure; a finished save survives; a node is never locked up |
| knob calibration (`sensor/volume.*`) | range, `VolumeCheck` | `procVolumeSw` | settings page | a missing calibration is measured again |
| frames, predicates (`CmdDefine.h`, `UttecUtil.*`) | – | `isMyAddr`, role tests | all handlers | a group address is never taken for a node |
| radio handler (`UttecProc/procRf.*`) | – (uses the node's frame) | `taskRf`: sensor, repeat, volume, daylight, server request, acknowledgement, commissioning | dimmer, procServer, RS485, radio | lamps follow their transmitter; a duplicate transmitter is reported, and only then |
| server requests (`procServer.*`) | – | control, new set, reconfigure, alternative, status, power | settings page, dimmer | only the addressed node changes; who acknowledges was asked |
| RS485 handler (`proc485.*`) | – | `rs485Task` | radio, RS485 | requests reach the nodes below, and stop |
| radio driver (`Rf.*`, `DimmerRf.*`) | channel, mode, one receive and one transmit buffer | `sendRf`, `isRxDone`, `receiveAction`, `changeGroup` | radio handler, the radio's registers and events | the node is never deaf; a frame is handled as sent, once; a channel takes effect |
| RS485 line (`rs485.*`) | buffer, parser state | `is485Done`, `parse485Data`, `send485` | RS485 handler | frames are whole; indexes stay in the buffer; the parser finds the next frame |
| sensors and dimmer (`mSecExe.*`) | target, delay, forced, duty | `msecTask`, `setForcedDim`, `setDirectDim` | all handlers set its target | the lamp shows the target; the last movement leads to the low level |
| seconds task, main loop (`procSec.*`, `mainForSx1276.cpp`) | ticks | `secTask`, the loop | all | only transmitters repeat |
| monitor (`monitor.*`) | lamp result, traffic | `isLampOk`, `setTrafficFlag` | dimmer | leaves the lamp as it was; counts each second with movement |
| commissioning (`procRf::searchRf`, `setNewFactor`, `newMain.cpp`) | progress flag, time-outs, setup channel | announce, set part by part, back, time-out | settings page, radio | ends by itself and in its full time; settings complete or unchanged; the lamp hears its installer and comes back to its group |
| infrared remote (`Rcu.*`) | edge timer, shift register, flag | interrupt, poll, decode | the lamp's tests | a part of a frame is no code; the last key is decoded |
| Modbus, schedule, communication errors | small tables, mostly without callers | – | – | indexes stay in the tables |
| LoRa and BLE bridges | – | reception is under `if(0)` in the loop | – | – |

What is hard to test here: a power failure between two words of a save; one
receive buffer that the handlers read, print and wait beside, relay from and compose
answers in while the radio fills it again; a receiver that holds one frame and forgets it
when the radio transmits; requests that travel over two media at once and are executed at two places; commands and roles that stay in
the RAM frame after they stopped being true; a dimmer that four handlers and a
task share; one event flag of the radio for both directions; one buffer for the RS485
frame that comes and the one that goes; a second receive loop inside a handler, with
one-shot timers that outlive it; an interrupt that shifts into the word the loop reads.
`PROJECT.json` lists each hazard with its line and the properties that cover it, or why none does yet.

## Modules and the code

| module | models |
|---|---|
| `ConfigStore` | abstract: a configuration store whose saves are atomic under power failure |
| `FlashStore` | the settings page: `UttecLib/Flash.cpp` word by word, the callers that save, the calibration, power failure; refines `ConfigStore` |
| `FlashStoreProofs` | its theorems |
| `MCFlashStore` | a page of five words for TLC |
| `UttecTypes` | roles, commands, frames, address predicates |
| `UttecNet` | nodes, radio, RS485, server: `procRf`, `procServer`, `proc485`, the seconds task, the sensor events, the driver's buffers |
| `MCUttecNet` | installations and the server's requests for TLC |
| `UttecNetProofs` | theorems about the network |
| `DimControl` | the dimmer of one lamp: `mSecExe.cpp` and the handlers that set its target |
| `DimControlProofs` | its theorems |
| `LossyLine` | abstract: a line that may lose frames, and hands over the others whole, in order and once |
| `RfChannel`, `RfChannelProofs` | channels, frequencies and addresses of the radio; where they lie |
| `RfRadio`, `RfRadioProofs` | the radio driver `Rf.cpp` against the radio; refines `LossyLine`; its theorems |
| `Rs485Link`, `Rs485LinkProofs` | `rs485.cpp`: characters, parser, the shared buffer; refines `LossyLine`; its theorems |
| `Commissioning`, `CommissioningProofs` | lamps, tool and installer on the setup channel (`procRf.cpp` 135-260, 385-430, `newMain.cpp`); its theorems |
| `MCCommissioning` | a sensor lamp, a gateway and two sets for TLC |
| `RcuDecoder`, `RcuDecoderProofs` | `Rcu.cpp`: the edge interrupt, the flag, the polling loop; its theorems |

**FlashStore.** `ram` is `Flash::m_flash`, `page` the flash page, `next` the loop
counter of `writeFlash`, `after` the place it returns to. Each word write is a step,
so `PowerLoss` can come between any two. `FactoryModeId`, compared at start-up, is
the commit mark: the settings lie before it, the calibration behind it. Operations
correspond to `ReadAllFlash`, `isFactoryMode` with `initOrgFlash`, `isHardwareOk`,
`flash_page_erase`, `flash_word_write`, and to the three callers that save:
`processCmdNewSet`, `procNewFactSetSub`, `procVolumeSw`. `ChangeRam` stands for the
handlers that use the RAM frame as working memory. `saved` is a history variable.

**UttecNet.** `dev[n]` is what a node has in RAM, `flash[n]` what it saved, `rx[n]` its
radio's receiver and `bus[n]` the RS485 frame that waits. The radio receives again before
the handler of a frame runs (`Rf.cpp:229-230`), into the buffer the handler reads, and
prints, waits and sends lie between the handler's looks at it. So the poll and `taskRf`
are separate steps, one for each look: `Poll`, `ReadCmd` (the command), `ResendRequest`,
`CheckAddr` (`isMyAddr`), `ReadSub` (`taskServer`), `CheckAddrAgain`, `Act` (what the
sub-command reads), `Compose` (`setAckFrame`), `ReturnToServer`, or `ChangeGroup`,
`RelayRf` and `RelayDown` of a gateway; `job[n].pc` is where the handler stands.
`rx[n]` has the buffer (`buf`), `EVENTS_END` (`end`) and the frame that is coming in over
the buffer (`in`, `part`): `ComesIn` writes its four parts one by one (`Written`), between
any two steps of the handler. A frame that comes in while the node is in its main loop, and
what is left of one when a handler returns (`Rest`), comes in whole: nobody looks meanwhile.
A handler of a bus frame or of a timer is one step; what it sends is queued in `out[n]` and
leaves frame by frame (`SendRf`, `Send485Down`, `Send485Up`) while other nodes run.
Sending by radio clears the node's own receiver. History: `issued` and `acks` are what the
server sent and got, `whole` says of a frame that it is of one piece, `job[n].alone` that
nothing came in since the poll.

**DimControl.** One record `dim` holds `sDim`, `m_sensorType`, the statics of the
task and the lamp. One call of `msecTask` is `MsecTask`, or, when the sensor reports
something, `MsecTaskMovement`, `MsecTaskTurned` or `MsecTaskPhoto`; the other actions are
handlers that run between two calls. The photo sensor has a reading whenever `ulTimeout`
does not hold it off (`PhotoIsDue`), dark or not. The handlers may run in any number and for
ever: a sensor lamp that saw one movement sends `edSensor` every second. `lampBy` is history:
who wrote the lamp last, `procDim` (`"task"`, or `"skipped"` if it lags by more than one
unwritten step), or somebody past it (`"direct"`; `"moved"` if a movement came since).

**RfChannel, RfRadio.** `hw` is the radio (its state, `EVENTS_END`, `CRCSTATUS` and the
place `on` it really listens), `drv` the driver: the step it is at, whether it believes
to be receiving, the frequency and address registers, which the radio follows only when
it goes up. `clearRfMode` and `setRfMode` are three steps each (`Disable`, `Enable`,
`Start`), so that a frame of a remote node can begin or end between any two.
`rxFrame` has a first and a last part, as the radio receives into `m_RxFrame` while
the program may read it. Between the restart (`RxStart`) and the first look of `taskRf`
(`Take`) lie the LED and a blocking print, longer than a frame: the step `look`. `quiet`
is history: no frame began to come in there. `sent` and `got` are what `LossyLine` sees;
a look that is not quiet, which may find parts of two frames or the newer one, is not in `got`.

**Rs485Link.** `line` are characters under way, `uart` those that wait in the FIFO, and
`parser` is `m485Data` with the flags and the index of `parse485Data`. `Poll`, `Getchar`
and `PollEnd` are `is485Done`'s loop: the FIFO may fill while it runs. `Send485` composes
the node's own frame over whatever the buffer holds and leaves the index as it was. A
digit of a frame is known by its frame and place; the CRC tells a whole frame
from a mixture (`Reformed`).

**Commissioning.** `dev[n].pc` is where the program of a lamp stands: in its main loop, at
the dummy transmission, in the loop of `setNewFactor`, at a part of `processCmdNewSet`, at
the erase or the write of the page, at the reset. `rf[n]` is its radio, `rf[n].buf` the
receive buffer, which the next frame overwrites at any of these points.
The poll in the main loop and the look at the frame are two steps (`Poll`, `look`), and
so are the copy of the role (`SetAddr`) and the test of the role, which reads the buffer
again (`SetCheck`). `dev[n].timers` are the one-shot timers still armed. `page` is a `ConfigStore`: a cut
leaves the old settings, none, or the new ones. `taken`, `age` and `mixed` are
history: the set as it was when the lamp took it, how long it has waited, and the lamps into
whose saved set another frame came.

**RcuDecoder.** `air.left` are the intervals of the frame that is coming in, `rcu` is
what the interrupt keeps, with `m_RcuData` as `hi` and `lo`. `Edge` is one interrupt, `Poll`
the test and clearing of the flag, `Read` the call of `returnRcuCode`, with any number of
edges between. `EdgeLost` and `EdgeAdded` disturb the line. `num` are the digits of `procRcu`.

Definitions marked as faulty (`FlashNoErase`, `SecCmdAlwaysRepeat`, ...) stand beside
the ones they would replace; nothing uses them. They show for each property a bug of
the code that it would find, and are listed as mutants in `PROJECT.json`.

## Runs and what they show

`tlc -config <run>.cfg <module>` in this directory.

| run | module | question and answer |
|---|---|---|
| `MCFlashStore` | `MCFlashStore` | power fails twice, anywhere: a marked page is whole (`CommittedIsWhole`), nobody is locked up (`NoHardwareLockout`), a start brings back the latest save (`BootRestoresSave`), a torn tail is repaired (`TornTailRepaired`), and the page is a `ConfigStore` (`ImplementsConfigStore`): holds |
| `MCServer` | `MCUttecNet` | gateway and sensor lamp, gateway and repeater, or transmitter and sensor lamp, lossy media, mixed buffers, a power cycle: a request readdresses only a node that the server names, and, unless another frame came in over it, to what a request asked that names the node in full (`BroadcastNeverReassigns`); an acknowledgement has a sub-command the server sent and, if of one piece, comes from the node that was asked (`AckForRequested`): holds |
| `MCGroup` | `MCUttecNet` | gateway, transmitter and lamp in pairs, requests for the group with different levels, frames of a knob, answers: a lamp is forced only when a frame of the server names it, or its group, at that moment, and to the level of such a request unless another frame came in over it (`ForcedByRequest`); at a frame of one piece a transmitter stops only if it has a rival (`ConflictIsReal`): holds |
| `MCLights` | `MCUttecNet` | a transmitter beside a lamp, a sensor lamp, a repeater or a second transmitter, lossy, mixed buffers, a power cycle: the lamp ends at the transmitter's level (`FollowsTransmitter`), a duplicate is reported again and again (`DuplicateIsReported`): holds |
| `MCRelay` | `MCUttecNet` | gateway and transmitter, or master and gateway, relay requests to each other by both media; requests of one piece stop travelling (`RequestsDieOut`), because the relaying gateway has left the channel: holds |
| `MCDim` | `DimControl` | all requests in any order and number: the lamp comes to its target (`LampTracksTarget`), to the low level when nobody moves and no `edSensor` is heard any more (`RestsLow`), stays high as long as `edSensor` is heard again and again (`StaysHigh`); with a photo sensor it is full in lasting darkness and off in lasting light (`FollowsDaylight`): holds |
| `MCRadio` | `RfRadio` | two groups that share a frequency, and setup: a polling node listens or holds a frame (`NeverDeaf`), a transmission is not cut off (`SendIsWhole`), a frame that waits is taken unless the node transmits or another one comes in before the loop's look (`WaitingIsTaken`), a channel takes effect (`ChannelTakesEffect`), and at its undisturbed looks the radio is a `LossyLine`: holds |
| `MCRs485` | `Rs485Link` | two frames, a frame of the node's own, two characters lost or added: nothing is written behind the buffer (`BufferInBounds`), an undamaged frame is taken whatever came before (`CleanFrameIsTaken`), and the line is a `LossyLine`: holds |
| `MCCommission` | `MCCommissioning` | two lamps, frames lost and mixed, a power cut at any point: a waiting lamp is on the setup channel (`WaitsOnSetup`), a set that arrived alone is saved whole (`SavedIsSet`), it saves no role that the sensor forbids (`RoleFitsSensor`), no wait is cut short by an older timer (`FullWait`) or lasts for ever (`WaitEnds`), and the lamp comes back to its channel (`BackOnChannel`): holds |
| `MCRcu` | `RcuDecoder` | two keys, a late loop, an edge lost or added: what is decoded was pressed (`DecodedIsPressed`), a reported frame is whole (`ReportsWholeFrame`), the last key is decoded (`LastKeyIsDecoded`): holds |
| `MCAckOverwritten`, `MCMovedLamp` | `MCUttecNet` | violated, see [below](#what-the-code-does-otherwise) |

`NoFalseConflict`, which `MCAckOverwritten` refutes, says that a transmitter never stops
without a rival. `ConflictIsReal` is what is left of it: at a frame of one piece, sent by a
handler into whose buffer nothing came, it does not. The rest is what the race costs: not only
an answering lamp but also a gateway that relays a request sends what lies in its live
buffer (`procRf.cpp:328-339`), and if the transmitter's repeat came in between, the gateway sends
that, still on the transmitter's channel. `Undisturbed` says what else `ConflictIsReal` takes
(see [proofs](#proofs)); an `ASSUME` of `MCUttecNet` has TLC check that `MCGroup` is such a case.

## Bounds, and why they are enough

* `MCFlashStore`: five words (an ordinary setting, another, `Hardware`,
  `FactoryModeId`, `VolumeCheck`), so every region of the structure and every border
  between two regions has a word; two contents, so old and new differ; two power
  failures, so one can hit the recovery from the other. Saves are unbounded.
* `UttecNet`: two nodes, in each of the pairs that a property speaks of (`Lamps`, `Groups`,
  `Pairs`, `Trees`): a relay and what is behind it, or a transmitter and who hears it. A frame
  that comes in over a handler's is sent by the other node, whose repeats have no
  bound, or is what the server had relayed; more nodes add senders of the same frames, and the
  theorems speak of any number. `MaxServerFrames` is 3 in `MCServer`, so that requests overtake, repeat
  or undo one another, 2 in `MCGroup` and `MCRelay`; one power cycle lets a node restart between
  any two steps; one event of a knob or detector in `MCLights`. The requests of `MCGroup`
  carry different levels, so that a level read from another frame is a wrong one. Levels
  are `{0,1,2}` (`{0,1}` in the larger runs): the properties compare levels and do not compute with
  them. Private addresses 0 to 6 contain the group address 0, odd and even ones (`procAltSub`) and a
  free one. A frame has four parts, those that the handlers read at different moments.
* `DimControl`: 13 steps of brightness, the start-up values in the code's proportions (the lamp at
  duty 0.3, which is light 0.7, and `fNow` at 0.5), up faster than down. Nothing bounds the
  requests. `RemoteLevel` in `MCDim` keeps levels more than a step apart, because targets closer than that
  never reach the lamp (see below). The lamp's step in daylight is shorter than the step of a
  target (1 and 2 of 13), so that the lamp lags behind.
* `RfRadio`: groups 2 and 142 share a frequency and differ in the address. Four frames, so
  that one can wait, one come in before the look at it, one come during a transmission and one after it;
  two changes of the channel, away and back. Transmissions are unbounded.
* `Rs485Link`: frames of three digits, so that there is a first, a middle and a last one;
  the FIFO holds two characters, less than a frame, as in the chip; two errors, so that
  an `sof` can be lost and another one appear.
* `Commissioning`: a lamp with a detector and one without, so that one set fits only one
  of them; three frames make a session, its end and a second one, or two sets for
  one lamp; a wait of two seconds tells an old timer from a new one.
* `RcuDecoder`: keys 7, 215 and 243, whose codes have long runs of equal bits and share
  parts with one another and with the vendor code; two keys, so that a frame runs into
  the reading of the one before. `CHECK_DEADLOCK FALSE`, since keys run out: then
  nothing happens any more.

## Fairness

`FlashStore`: the processor executes its program while it has power (weak fairness of
each program step). `ProcVolumeSw` has strong fairness: the knob is sampled every
millisecond, and a calibration that is due after every start is made some time unless
the node is reset for ever within its first ten seconds.

`UttecNet` (`HandlerFairness`): a handler makes its next step (weak fairness of `TaskRf`), sends what
it queued (`Transmit`), and a frame that is coming in goes on to (`ComesIn`); the loop polls its
receivers and ticks again and again, so a tick or a frame that keeps coming back gets its turn though
other frames come between: strong fairness of `Poll`, in `RepeatSpec` also of `SecTask` and
`ReportLevel`, in `RelaySpec` of `Rs485Task`. Radio frames may be lost, but not all of them:
`FairLink` (in `RepeatSpec`) says that of infinitely many frames which a node sends to a node on the
same channel, infinitely many find it in its main loop. The code gives no more than that: repeats
are not acknowledged. Sensor events, the server and power failures have no fairness.

`DimControl`: the millisecond task is called for ever; what the photo sensor reads is free,
and `FollowsDaylight` speaks of readings that stay the same. Requests have no fairness and no bound;
each property says in its premise which of them have to stop.

`RfRadio`: the driver's steps follow each other, a transmission and a frame in the air
end, the main loop polls. `Rs485Link`: characters on the line arrive, and the loop goes
on reading, parsing and returning from handlers. `Commissioning`: seconds pass, and a
lamp that has power executes its program; nobody has to send a frame. `RcuDecoder`: the
rest of a frame that was begun comes in, the loop polls and reads. Weak fairness is
enough in all four: nothing else disables these steps for long.

## Proofs

`FlashStoreProofs` proves, for every number of words and every layout that keeps
`LayoutAssumption` (`Hardware` before `FactoryModeId` before `VolumeCheck`), for all
contents and any number of power failures, the run's invariants, its action property
and the safety part of the refinement:

* `TypeCorrect`, `NeverTorn`, `NeverLockedOut`: `Spec => []P` for
  `TypeOK`, `CommittedIsWhole`, `NoHardwareLockout`;
* `BootsRestore`: `Spec => BootRestoresSave`;
* `Refinement`: `Spec => ImplementsConfigStore`.

None of these is inductive as it stands. `IInv` adds what `writeFlash` relies on: while
it runs, the page is the image written so far and erased beyond `next`, and the image
is the RAM copy with which it was called; outside of it a page with the mark is whole;
`Hardware` is zero in RAM and in every image saved. The proof has one step per action
and uses `ContentAssumption` only to tell the mark from an erased word. The refinement
maps the store's contents to the settings behind a valid mark: the step that commits is
the write of the word `FactoryModeId`.

`UttecNetProofs` proves for any number of nodes, any tree, any installation and any
requests, frames lost or mixed in the buffers, and any number of power cycles:

* `TypeCorrect`: `Spec => []TypeOK`;
* `NamedNodeOnly`: `ZeroIsNobody => (Spec => BroadcastNeverReassigns)`;
* `ForcedAsAsked`: `ZeroIsNobody => (Spec => ForcedByRequest)`;
* `AnswersAreAsked`: `ServerAsks => (Spec => []AckForRequested)`;
* `StopsForRival`: `Undisturbed => (Spec => ConflictIsReal)`.

A node that changes its address, or is forced, has just executed a frame; where that frame, or each
part of it, came from is what the invariant `IInv` keeps (`NodesInv`, `QueuesInv`, `RadioInv`,
`LineInv`). Every frame that waits, is queued or comes in is *genuine*: of any frame, mixed or not,
the destination and the sub-command come from a frame of the server or are those of a node's own frame or an
answer (`Pieces`); a frame of one piece under the command `edServerReq` is one the server sent, and under
`edClientAck` one that answers such a request and names the node that was asked (`OfOnePiece`).
Mixing genuine frames makes a genuine one (`WrittenGenuine`). For each place of a handler `JobOK` keeps
what survives a mixture (that the sub-command it read is the server's, that some frame of the server
names the node when it acts) and, while nothing came in, what the earlier looks found
(`Found`). This needs that no node ever makes one of the two commands its own, in RAM
or in its settings (`Honest`, `HonestPage`: main sends the own frame with the last command), and that a relay
that relabels an acknowledgement leaves its command and its source alone. That RAM and page agree on the
address is what a power cycle needs. The step of each action is a lemma of its own.

The conditions are on the installation and the server, and TLC checks them for the runs that need them. `ZeroIsNobody`:
an answer is addressed to group 0, and mixed into a request it would name the members of that group.
`ServerAsks`: the server sends no `edClientAck` of its own, which a gateway would pass back to it as an answer.

`StopsForRival` has an invariant of its own, `LoneInv`, about frames of one piece that say what only
transmitters say (`Telling`): a node that is no transmitter has no such command (`CmdInv`) and no such frame
queued for the radio (`QueueInv`), a transmitter's receiver holds one only if another transmitter shares the
channel (`HeardInv`), nobody is at a place where he sends again what he hears (`PlaceInv`), and
a transmitter's channel is the one it saved (`RoleInv`). The theorem is conditional because the code is:
each part of `Undisturbed` excludes something that does make a lone transmitter stop. A repeater echoes
transmitters' frames; a transmitter that is made a lamp goes on sending `edRepeat`. Losses, mixed buffers elsewhere,
power cycles, group control and the server's other requests are not excluded. That frames of more than one piece are
left out is what `MCAckOverwritten` shows to be necessary.

`DimControlProofs`, for any number of brightness steps, step widths and delays: `TypeCorrect`
(`TypeOK` is inductive: `procDim` takes a step only if it stays short of the target), and
`ClosesStepByStep` (`ClosesIn`): each call of the task brings `fNow` nearer to the target, whatever the
sensor reports in that call, and no handler moves it. This is the safety half of
`LampTracksTarget`; that the task is called again and again is the liveness half, which TLC
checks. No run states `ClosesIn`.

`RfRadioProofs`, with `RfChannelProofs`: `TypeCorrect` (the frequency of every group is in
the band and apart from setup: `GroupInBand`, `SetupInBand`), `HearsAlways` (`NeverDeaf`),
`SendsWhole` (`SendIsWhole`), `Refinement` (`ImplementsLossyLine`). `IInv` adds, for each
step of the driver, the state in which the radio then is and whether `EVENTS_END` may be
set (`DriverInv`), and that what lies in the receive buffer under a good CRC is one frame
that was sent and is newer than the last one taken (`FrameInv`).
`WaitsUntilTaken` (`HeldUntilTaken`) is the safety half of `WaitingIsTaken`: a good frame that
waits stays what it is until the main loop takes it; polls and changes of the channel leave it
alone, and only a transmission of the node discards it, or a frame that comes in behind the restart
and before the loop's look. No run states it. `Refinement` speaks of the looks that no such frame
disturbs: what the others find, the code cannot tell.

`Rs485LinkProofs`: `TypeCorrect`, `NeverBehind` (`BufferInBounds`), `Refinement`
(`ImplementsLossyLine`), for any length of a frame, any FIFO and any number of errors.
`IInv` follows a frame from the line through the FIFO into the buffer (`LineInv`, `UartInv`,
`ParserInv`): of each frame the last digit is parsed at most once, and digits that are
still to come belong to frames newer than any handed over. So no frame is handed over
twice, though the buffer is never cleared.
`CleanGetsThrough` (`CleanThrough`) is the safety half of `CleanFrameIsTaken`: once all the
characters of a frame were read and none was lost or added, the frame waits for the main loop
or was taken. `CleanInv` follows it: its sof still ahead (`Coming`, whatever the parser makes of
the debris before it), or exactly its first digits in the buffer (`Collecting`), or through. No run
states it.

`CommissioningProofs`: `TypeCorrect`, `HearsInstaller` (`WaitsOnSetup`), `SavesWholeSet`
(`SavedIsSet`), `RolesFit` (`RoleFitsSensor`), `WaitsInFull` (`FullWait`), for any lamps,
sets, time-out and number of power cuts. `IInv` has four parts for each lamp: where its
registers and its radio are at each point of its program (`ChannelInv`), which roles its
RAM, its page and the set in progress can hold, while nothing else came in (`RoleInv`), that no timer is older
than the wait it belongs to (`TimerInv`), and which parts of the set that was taken are
already in RAM (`SetInv`). A step of one lamp disturbs the others only by a frame
(`OthersQuiet`, `QuietLamp`).
Two more theorems are the safety halves of liveness that TLC checks, and no run states them:
`WaitIsTimed` (for `WaitEnds`: a lamp that waits has the one timer of this wait running, or
was told by it to stop, whatever it received) and `NextSendIsHome` (for `BackOnChannel`: in its
main loop a lamp's registers hold its own channel, however its last session ended).

`RcuDecoderProofs`: `TypeCorrect`, `OnlyPressedKeys` (`DecodedIsPressed`), `WholeFrameReported`
(`ReportsWholeFrame`), for any keys, presses and faults. While a frame comes in undisturbed,
the invariant (`Tracks`, `Arriving`) gives for each number of edges still to come the times that
are left and the contents of `m_RcuData`: the bits of the frame so far, shifted once. `FrameBits` is the
arithmetic behind it, one case per bit: no such prefix passes `returnRcuCode`'s test unless
its low byte is the key. That is true only of keys that are no multiple of 4
(`KeyAssumption`): of a multiple of 4 the first 30 bits already pass the test, as the code of
another key. All keys of the remote end in two ones (`Rcu.h:17-21`). `Known` carries this over
to a code that is read later, while the next frame shifts in.

What the network's own assumptions say, and all others, is checked by TLC in the
runs of the module that states them. Only model-checked: liveness under
fairness (`TornTailRepaired`, `RequestsDieOut`, `WaitingIsTaken`, `ChannelTakesEffect`, `CleanFrameIsTaken`,
`WaitEnds`, `BackOnChannel`, `LastKeyIsDecoded`, those of the network and of the dimmer),
which the prover does not do; and that `NoFalseConflict` is violated in `MCAckOverwritten` and
the saved channel differs from the group in `MCMovedLamp`. Every safety invariant, action property and
refinement that a passing run checks is also a theorem.

## What the code does otherwise

* **`MCAckOverwritten`** (`procRf.cpp:330`): a lamp composes its acknowledgement in the
  radio's receive buffer and waits 10 ms. The transmitter's repeat arrives there, the
  lamp sends it back, the transmitter believes in a second transmitter and stops:
  "Duplicate Tx in this Group" (`procRf.cpp:378`). A repeater has the same effect without
  a race, by forwarding a transmitter's frame (`procRf.cpp:59`), and so has a gateway in the same
  race, by relaying a request that the repeat came in over (`procRf.cpp:328-339`).
* **`MCMovedLamp`** (`procServer.cpp:93`): changing the group by the server leaves the
  radio channel, in RAM and in flash.

Remarks, things the code does about which no text of the repository says what should hold:

* A node sends the last command it had every second, for ever (`mainForSx1276.cpp:185`). A former
  transmitter sends `edRepeat`, though `procSec.cpp:59` tests the role. A sensor lamp that saw one
  movement sends `edSensor` (`mSecExe.cpp:147`): a lamp with a detector, other than a plain
  receiver, that hears it never rests low again (`StaysHigh`), and two of them keep each other high.
* Between the restart of the radio and a handler's looks at its frame another one may come in
  (`mainForSx1276.cpp:136`, the print in `isMyAddr` for a group, `changeGroup`'s print): a level, a new address
  or a relay's group can be another frame's, which is why the properties of the network speak of
  frames of one piece. The loop may also take that frame in place of the one it polled, and poll it again.
* A gateway that executes nothing still acknowledges what its second address check refused
  (`procServer.cpp:40-47, 58-65, 99-106, 129-136`).
* A request mixed with a transmitter's own frame makes the gateway that relays it switch to that
  transmitter's channel, and may circulate between the two for ever (`procRf.cpp:338`).
* Forcing the level that was forced last is ignored, though the lamp was released in
  between; at start-up that level is 0 (`mSecExe.cpp:85`).
* Targets at most one step apart never reach the lamp (`mSecExe.cpp:60`). The same line is
  why a lamp stays dark after the lamp test or commissioning, or at the forced level
  after a release, until its target moves, and why a knob turned one percent at a time never moves
  another node's lamp: the qualifications with `lampBy` in the properties of `DimControl`.
* A receiver that repeats a transmitter without a sensor takes over `eNoSensor`
  (`procRf.cpp:48`), for which `switchDimType` does nothing: its lamp stays as it is until
  the next movement or level. This is the condition on `dim.sensor` in `LampTracksTarget`.
* While `processCmdNewSet` copies a set part by part, with a print between (`procRf.cpp:135`),
  the next frame replaces what it has not copied yet: settings can be a mixture of two
  sets, or of a set and another lamp's `edDummy`. This is the condition in `SavedIsSet`. The role is
  copied at line 141 and a role read again is tested at 145-163, so a role that the sensor
  forbids can be stored: the lamps of `mixed` in `RoleFitsSensor`. The server's `edsCmd_485NewSet`
  (`procServer.cpp:75-81`) sets a role with no test of the sensor at all; it is in `UttecNet`.
* A set is taken by every lamp that waits: it carries no address of a lamp.
* `sendSet` builds the setup channel (`procRf.cpp:407-426`) and never changes to it, and puts
  the group into `MyAddr.GroupAddr` while lamps read `Trans.DstGroupAddr`. So the tool's set does
  not reach a waiting lamp; the model's installer sends what lamps read.
* `sendFind` does not end for a range up to 65535 (`procRf.cpp:397`).
* `returnRcuCode` returns nothing for a wrong code, and `procRcu` acts on whatever the register
  holds (`Rcu.cpp:263-268`); the constructor sets the flag, so the first poll reads 0.
* A remote with a key code divisible by 4 could be decoded as another key, from the first
  30 bits of its frame: only the choice of the keys in `Rcu.h` prevents it (`KeyAssumption`).
* With edges lost or added, a part of a frame can look like a code: `DecodedIsPressed`
  speaks of undisturbed lines.
* `parseTestData` makes its length test one character too late (`rs485.cpp:202`).

## Abstractions and limits

* An erase pulse acts on all cells of the page at once; a word write is atomic.
* `UttecNet`: a frame with a bad CRC counts as lost, and what it leaves in the buffer is not
  modelled (`RfRadio` has bad CRCs). What a handler reads without a print, wait or transmission between is
  read at one look: the fields of a new address, source and level of `procAltSub`. Where a print is
  compiled out (`testModePrint`) the frame that comes in must have begun before; the model
  lets it come in part by part at any step. The source group of the server's requests
  in the runs (0, but the transmitter's own group in two requests of `MCGroup`) is a choice of data, on which
  `RequestsDieOut` rests: a gateway relays on the channel of that group.
* `Commissioning`: a frame that comes in over another replaces the buffer as a whole, between any two reads.
* LoRa and BLE are left out (their branch of the loop is under `if(0)`), and so is the
  factory-out mode, which forces all lamps for the first minutes after production.
* Readings (photo sensor, power, traffic, MAC) in acknowledgements are left out, and so
  are frame fields that nothing tests (`Time`, `Zone`, `Micom`).
* `RfRadio`: hopping (`eNoHopping` everywhere), `sendSxRf`/`isSxRxDone` and the setters used in
  tests are left out. What a disturbed look finds is left open here; what a handler makes of it is in
  `UttecNet` and `Commissioning`.
* `Rs485Link`: the checksum tells a whole frame from every mixture. `send485` makes new `Serial` objects on
  other pins (`rs485.cpp:222, 234, 260`); of this the model shows that characters waiting in
  the FIFO may be lost. The tool's own loops
  (`isTestDone`, `isAnyDone`) are left out.
* `Commissioning`: the group traffic of a lamp in its main loop is only a frame with another
  command; the tool's parsing of its serial line is left out.
* `RcuDecoder`: the 64-bit decoder (`rcuUtCallback`) is attached by nobody; sending, and
  what the keys start, are left out.
* In `UttecNet` the delay after a movement ends at any time (`DelayOut`); `DimControl`
  counts it. `DimControl` takes the dimming factors as constant and levels as integers:
  one percent steps that single precision happens to write are taken as not written.
* Commissioning commands are in `Commissioning` and not in `UttecNet`. Repeaters are, and `MCLights` has one; it
  checks no property about them yet (their echo stops the transmitter, see above).

**Not modelled.** Most of `src/` is not this program: the mbed library, Nordic's headers
and drivers, the LoRa driver, and an older copy of the firmware. The maps cover a small
share of its lines and cannot cover much more. Of the program itself: LED output, the
test menu, the LoRa and BLE bridges (unreachable), the registers and filters of the analog
and I2C sensors, Modbus and the schedule's table (`setSchedule` has no caller, so the table
stays empty) and the error table. `PROJECT.json` has the reason for each.

## Plan

Done: the settings page, the network, the dimmer, the radio driver, the RS485 line,
commissioning and the remote control, with a theorem for each safety property.

Left, in this order:

1. Repeaters: the sending node as history, two repeaters in range of each other, and the
   condition under which their echo does not stop the transmitter.
2. The monitor's traffic timer, a knob whose range is 0.
3. Modbus as operators on short frames.
4. A network whose receivers are `LossyLine`s, so that `RfRadio` and `Rs485Link` carry
   over to it by refinement.
