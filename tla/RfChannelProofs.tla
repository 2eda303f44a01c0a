--------------------------- MODULE RfChannelProofs ---------------------------
(***************************************************************************)
(* Lemmas about RfChannel: wherever a channel_t sends the radio, it is in  *)
(* the band.                                                               *)
(***************************************************************************)
EXTENDS RfChannel, TLAPS

\* setRadio: the group addresses share the frequencies of the band.
LEMMA GroupInBand ==
  ASSUME NEW g \in Nat PROVE Tuned(Normal(g)) \in Place
  <1>1. Tuned(Normal(g)) = [freq |-> (g % 70) + 1, base |-> g % 2^16]
    BY DEF Tuned, Frequency, Normal, DeRfChannel, FREQ_OFFSET
  <1>2. (g % 70) + 1 \in 1..70 /\ g % 2^16 \in 0..(2^16 - 1)
    OBVIOUS
  <1>3. (g % 70) + 1 \in Frequencies
    BY <1>2 DEF Frequencies, DeRfChannel, FREQ_OFFSET
  <1>4. PICK f \in Frequencies : f = (g % 70) + 1
    BY <1>3
  <1>5. PICK b \in 0..(2^16 - 1) : b = g % 2^16
    BY <1>2
  <1>6. Tuned(Normal(g)) = [freq |-> f, base |-> b]
    BY <1>1, <1>4, <1>5
  <1> QED
    BY <1>6, SMTT(30) DEF Place

\* The setup channel has a frequency of its own.
LEMMA SetupInBand == Tuned(Setup) \in Place
  <1>1. Tuned(Setup) = [freq |-> 73, base |-> 73 % 2^16]
    BY DEF Tuned, Frequency, Setup, DeSetChannelOld
  <1>2. 73 \in Frequencies /\ 73 % 2^16 \in 0..(2^16 - 1)
    BY DEF Frequencies, DeSetChannelOld
  <1> QED
    BY <1>1, <1>2 DEF Place
=============================================================================
