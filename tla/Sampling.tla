---------------------------- MODULE Sampling ----------------------------
(***************************************************************************)
(* The sampling interface: the PLL channel, which only the micro           *)
(* controller keeps, as a number, and the sampling range, which the        *)
(* interface keeps as a notifier string.  ScpiSocket has its clients.      *)
(*                                                                         *)
(* The driver has no transaction for the sampling range: it takes every    *)
(* one, and reads the first.  A transaction for the PLL channel may fail,  *)
(* and a write that failed may have been carried out.                      *)
(***************************************************************************)
EXTENDS Integers, SequencesExt

CONSTANTS
  PllChannels,    \* m_pllChannelList
  SampleRanges,   \* m_SampleRangeList: name, rate and code of each
  PowerUp,        \* numbers a controller may hold before the first start
  Ack, Nak, ErrExec,  \* answers
  Silence,        \* nothing was answered yet
  MaxFaults       \* bound on failing transactions

Numbers == 0..255
Code(i) == SampleRanges[i].code
Rates == {SampleRanges[i].rate : i \in DOMAIN SampleRanges}
RangeNames == {SampleRanges[i].name : i \in DOMAIN SampleRanges}
PllNames == {PllChannels[i] : i \in DOMAIN PllChannels}

ASSUME SamplingAssumption ==
  /\ PllChannels \in Seq(PllNames) /\ Len(PllChannels) = 8 /\ IsInjective(PllChannels)
  /\ SampleRanges \in Seq([name : RangeNames, rate : Rates, code : Nat])
  /\ \E i \in DOMAIN SampleRanges : Code(i) = 0
  /\ Ack # ErrExec
  /\ {Ack, Nak, ErrExec, Silence} \cap (PllNames \cup RangeNames \cup Rates) = {}
  /\ PowerUp \subseteq Numbers
  /\ MaxFaults \in Nat

VARIABLES
  pll,       \* the controller's number
  notifierSampleChannelRange,  \* name of the sampling range
  reply,     \* the answer given in the last step
  faults

samplingVars == <<pll, notifierSampleChannelRange, reply, faults>>

NoFault == UNCHANGED faults
Fault == faults < MaxFaults /\ faults' = faults + 1

-----------------------------------------------------------------------------
(***************************************************************************)
(* PLL channel                                                             *)
(***************************************************************************)

\* Mutant: the number has a sign.
PllNumberSigned(name) == SelectInSeq(PllChannels, LAMBDA n : n = name) - 1

\* indexOf, -1 if there is none, as a quint8.
PllNumber(name) == (SelectInSeq(PllChannels, LAMBDA n : n = name) - 1) % 256

\* Mutant: numbers beyond the list are taken as the first one.
PllNameOrFirst(n) == IF n < 8 THEN PllChannels[n + 1] ELSE PllChannels[1]

\* The answer for the number n.
PllName(n) == IF n < 8 THEN PllChannels[n + 1] ELSE ErrExec

\* setPLLChannel
SetPLLChannel(n, done) ==
  IF done THEN NoFault /\ pll' = n ELSE Fault /\ pll' \in {pll, n}

ReadPLL ==
  /\ \/ NoFault /\ reply' = PllName(pll)
     \/ Fault /\ reply' = ErrExec
  /\ UNCHANGED <<pll, notifierSampleChannelRange>>

\* A name that is in no list is not refused.
WritePLL(name) ==
  /\ \E done \in BOOLEAN :
       /\ SetPLLChannel(PllNumber(name), done)
       /\ reply' = IF done THEN Ack ELSE ErrExec
  /\ UNCHANGED notifierSampleChannelRange

-----------------------------------------------------------------------------
(***************************************************************************)
(* Sampling range                                                          *)
(***************************************************************************)

\* cATMEL::readSamplingRange
ReadSamplingRange == 0

\* setNotifierSampleChannelRange
CurrentRange ==
  SampleRanges[SelectInSeq(SampleRanges, LAMBDA r : r.code = ReadSamplingRange)].name

ReadSampleRange ==
  /\ reply' = notifierSampleChannelRange
  /\ UNCHANGED <<pll, notifierSampleChannelRange, faults>>

\* The driver takes every range, and the notifier is what it reads back.
WriteSampleRange(name) ==
  /\ \/ /\ name \in RangeNames
        /\ notifierSampleChannelRange' = CurrentRange
        /\ reply' = Ack
     \/ /\ name \notin RangeNames
        /\ reply' = Nak
        /\ UNCHANGED notifierSampleChannelRange
  /\ UNCHANGED <<pll, faults>>

\* The rate of the range that the notifier names.
ReadSampleRate ==
  /\ \E i \in DOMAIN SampleRanges :
       /\ SampleRanges[i].name = notifierSampleChannelRange
       /\ reply' = SampleRanges[i].rate
  /\ UNCHANGED <<pll, notifierSampleChannelRange, faults>>

-----------------------------------------------------------------------------
\* The server is started on a controller with one of the numbers.  It does not
\* look whether its default was taken.
StartSampling(numbers, failed) ==
  /\ pll \in IF failed THEN numbers \cup {1} ELSE {1}
  /\ notifierSampleChannelRange = CurrentRange
  /\ reply = Silence
  /\ faults = IF failed THEN 1 ELSE 0

RestartSampling ==
  /\ \E done \in BOOLEAN : SetPLLChannel(1, done)
  /\ notifierSampleChannelRange' = CurrentRange
  /\ reply' = Silence

\* The variables have their types.
SamplingTypeOK ==
  /\ pll \in Numbers
  /\ notifierSampleChannelRange \in RangeNames
  /\ reply \in PllNames \cup RangeNames \cup Rates \cup {Ack, Nak, ErrExec, Silence}
  /\ faults \in 0..MaxFaults
=============================================================================
