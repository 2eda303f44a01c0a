------------------------------ MODULE RfChannel ------------------------------
(***************************************************************************)
(* channel_t and what Rf::setRadio and radio_configureNew make of it: the  *)
(* frequency and the base address of the radio.  Nodes hear each other if  *)
(* both agree.  Hopping is eNoHopping in every channel_t that the program  *)
(* builds, and is left out.                                                *)
(***************************************************************************)
EXTENDS Integers

DeRfChannel == 70       \* the frequencies of the groups
DeSetChannelOld == 73   \* the one on which nodes are commissioned
FREQ_OFFSET == 1

\* channel is the group's address; setup is SetupMode.
Normal(group) == [channel |-> group, setup |-> FALSE]
Setup == [channel |-> DeSetChannelOld, setup |-> TRUE]

\* Faulty: the address of the group is taken as the frequency.
FrequencyOfGroup(c) ==
  IF c.setup THEN DeSetChannelOld ELSE c.channel + FREQ_OFFSET

Frequency(c) ==
  IF c.setup THEN DeSetChannelOld ELSE (c.channel % DeRfChannel) + FREQ_OFFSET

\* Groups that share a frequency differ in the address, which has 16 bits.
Tuned(c) == [freq |-> Frequency(c), base |-> c.channel % 2^16]

Frequencies ==
  (FREQ_OFFSET..(DeRfChannel - 1 + FREQ_OFFSET)) \cup {DeSetChannelOld}

\* Where a radio can listen.
Place == [freq : Frequencies, base : 0..(2^16 - 1)]
=============================================================================
