-------------------------- MODULE SenseChannel --------------------------
(***************************************************************************)
(* Ranges of the measuring channels: cSenseInterface with the measuring    *)
(* mode, cSenseChannel with its range list, the selected range and the     *)
(* range catalog, cSenseRange with its availability, the clamps that lend  *)
(* ranges to a channel and to the one below, and the micro controller that *)
(* holds a range code per channel and a mode of its own.                   *)
(*                                                                         *)
(* A handler runs to its end before the next one starts, so each is one    *)
(* step.  A transaction with the controller may fail, and a failed write   *)
(* may have been carried out: only its answer was lost.                    *)
(***************************************************************************)
EXTENDS Naturals, SequencesExt, FiniteSets

CONSTANTS
  Channels,   \* the measuring channels
  Below,      \* the channel a clamp with a voltage part also extends
  Names,      \* names of ranges
  Modes,      \* measuring modes of the mode hash
  AC, HF,     \* two of them; the controller knows only these
  Fixed,      \* the ranges each channel is built with
  Types,      \* defined clamp types
  Lent,       \* the ranges a type adds to its channel and to the one below
  NoClamp,    \* no clamp, or one of undefined type
  Codes,      \* range codes of the controller
  NoName,     \* the empty string
  MaxFaults   \* bound on failing transactions

\* A cSenseRange: modes are the bits of m_nMMask that the mode hash knows,
\* avail is what it is built with.
SenseRange == [name: Names, code: Codes, modes: SUBSET Modes, avail: BOOLEAN]

\* The channels with a connector.
Clampable == {b \in Channels : Below[b] # b}

\* No two entries of a list have the same name.
NamedApart(l) == \A i, j \in DOMAIN l : l[i].name = l[j].name => i = j

ASSUME SenseAssumption ==
  /\ IsFiniteSet(Channels)
  /\ Below \in [Channels -> Channels]
  /\ AC \in Modes /\ HF \in Modes /\ AC # HF
  /\ Fixed \in [Channels -> Seq(SenseRange)]
  /\ Lent \in [Types -> [{"own", "below"} -> Seq(SenseRange)]]
  /\ NoClamp \notin Types
  /\ NoName \notin Names
  /\ MaxFaults \in Nat

\* The tables of senseinterface.cpp and clamp.cpp.  A channel is reached by one
\* connector at most; a channel's names differ from each other and from those of
\* clamps; a range that is built available has AC in its mask; a clamp's ranges
\* are built available.
ASSUME TablesAssumption ==
  /\ \A b \in Clampable : Below[b] \notin Clampable
  /\ \A a, b \in Clampable : Below[a] = Below[b] => a = b
  /\ \A c \in Channels :
       /\ NamedApart(Fixed[c])
       /\ \A r \in ToSet(Fixed[c]) : r.avail => AC \in r.modes
  /\ \A t \in Types, part \in {"own", "below"} :
       /\ NamedApart(Lent[t][part])
       /\ \A r \in ToSet(Lent[t][part]) :
            r.avail /\ \A c \in Channels : \A s \in ToSet(Fixed[c]) : s.name # r.name

VARIABLES
  \* the controller
  code,      \* its range code for each channel
  ctrlMode,  \* its measuring mode
  \* the server
  mode,      \* m_sMMode
  list,      \* m_RangeList of each channel
  avail,     \* the ranges in it with m_bAvail
  selected,  \* notifierSenseChannelRange
  catalog,   \* notifierSenseChannelRangeCat
  raised,    \* channels whose catalog notifier the last step triggered
  clamp,     \* the clamp type at each channel
  \* history
  unsettled, \* channels whose selected range was removed since, or whose
             \* controller took a range without an answer
  kept,      \* channels where the mode was set since the selection
  fresh,     \* channels that got ranges since the mode was set
  modeLost,  \* the last mode did not reach the controller for sure
  \* bound
  faults

vars == <<code, ctrlMode, mode, list, avail, selected, catalog, raised, clamp,
          unsettled, kept, fresh, modeLost, faults>>

NamesOf(l) == [i \in DOMAIN l |-> l[i].name]

\* The first range with the name, as a set of at most one.
GetRange(l, n) ==
  {l[i] : i \in {j \in DOMAIN l : /\ l[j].name = n
                                  /\ \A k \in 1..(j - 1) : l[k].name # n}}

Fails(n) == faults + n <= MaxFaults /\ faults' = faults + n
NoFault == UNCHANGED faults

-----------------------------------------------------------------------------
(***************************************************************************)
(* Measuring mode                                                          *)
(***************************************************************************)

\* Mutant: what was available stays so.
SetMModeKeeps(c, m) == {r \in ToSet(list'[c]) : m \in r.modes \/ r \in avail[c]}

\* Every range of the list compares its mask with the mode.
SetMMode(c, m) == {r \in ToSet(list'[c]) : m \in r.modes}

\* Mutant: the subscribers of the catalogs are not told.
TellNobody == {}

\* forceTrigger, on every channel.
TellAll == Channels

\* The controller is told ac or hf; its answer is ignored.
SetMeasMode(m) ==
  LET wanted == IF m = HF THEN HF ELSE AC
  IN  \/ NoFault /\ ctrlMode' = wanted /\ modeLost' = FALSE
      \/ Fails(1) /\ ctrlMode' \in {ctrlMode, wanted} /\ modeLost' = TRUE

\* SENSE:MMODE with a mode of the hash.
SetSenseMode(m) ==
  /\ SetMeasMode(m)
  /\ UNCHANGED list
  /\ avail' = [c \in Channels |-> SetMMode(c, m)]
  /\ mode' = m
  /\ raised' = TellAll
  /\ kept' = Channels /\ fresh' = {}
  /\ UNCHANGED <<code, selected, catalog, clamp, unsettled>>

-----------------------------------------------------------------------------
(***************************************************************************)
(* Range selection                                                         *)
(***************************************************************************)

\* Mutant: the name is taken before the controller has answered.
RefusedTakesName(c, r) == [selected EXCEPT ![c] = r.name]

\* The name after a transaction that failed.
Refused(c, r) == selected

\* SENSE:<channel>:RANGE with a name.  A controller that does not answer the
\* mode, an unknown name and an unavailable range change nothing.
WriteRange(c, n) ==
  /\ \/ /\ Fails(1)
        /\ UNCHANGED <<code, selected, unsettled, kept>>
     \/ \E r \in GetRange(list[c], n) \cap avail[c] :
          \/ /\ NoFault
             /\ code' = [code EXCEPT ![c] = r.code]
             /\ selected' = [selected EXCEPT ![c] = n]
             /\ unsettled' = unsettled \ {c}
             /\ kept' = kept \ {c}
          \/ /\ Fails(1)
             /\ \/ UNCHANGED <<code, unsettled>>
                \/ /\ code' = [code EXCEPT ![c] = r.code]
                   /\ unsettled' = unsettled \cup {c}
             /\ selected' = Refused(c, r)
             /\ UNCHANGED kept
  /\ raised' = {}
  /\ UNCHANGED <<ctrlMode, mode, list, avail, catalog, clamp, fresh, modeLost>>

-----------------------------------------------------------------------------
(***************************************************************************)
(* Clamps                                                                  *)
(***************************************************************************)

\* What a clamp of type t at channel b lends to channel c.
LentTo(c, b, t) ==
  IF t = NoClamp THEN << >>
  ELSE IF c = b THEN Lent[t]["own"]
  ELSE IF c = Below[b] THEN Lent[t]["below"]
  ELSE << >>

\* Mutant: the ranges are not taken out.
RemoveNothing(l, gone) == l

\* removeRangeList
RemoveRangeList(l, gone) ==
  LET left[i \in 0..Len(l)] ==
        IF i = 0 THEN << >>
        ELSE IF l[i] \in ToSet(gone) THEN left[i - 1]
        ELSE Append(left[i - 1], l[i])
  IN  left[Len(l)]

\* addRangeList
AddRangeList(l, new) == l \o new

\* setNotifierSenseChannelRangeCat
RangeCat(c, l) == NamesOf(l)

\* The clamp object at b gives up its ranges, is of type t from now on, and
\* lends its new ranges if add holds.  Range objects are made anew, available
\* in whatever mode the server is.
Exchange(b, t, add) ==
  LET old(c) == LentTo(c, b, clamp[b])
      new(c) == IF add THEN LentTo(c, b, t) ELSE << >>
      bare   == [c \in Channels |-> RemoveRangeList(list[c], old(c))]
      final  == [c \in Channels |-> AddRangeList(bare[c], new(c))]
  IN  /\ clamp' = [clamp EXCEPT ![b] = t]
      /\ list' = final
      /\ avail' = [c \in Channels |-> (avail[c] \ ToSet(old(c)))
                                      \cup {r \in ToSet(new(c)) : r.avail}]
      /\ catalog' = [c \in Channels |-> RangeCat(c, final[c])]
      /\ raised' = {c \in Channels : \/ RangeCat(c, bare[c]) # catalog[c]
                                     \/ RangeCat(c, final[c]) # RangeCat(c, bare[c])}
      /\ unsettled' = unsettled \cup
           {c \in Channels : GetRange(list[c], selected[c]) \cap ToSet(old(c)) # {}}
      /\ fresh' = fresh \cup {c \in Channels : new(c) # << >>}
  /\ UNCHANGED <<code, ctrlMode, mode, selected, kept, modeLost>>

\* Plugged.  A clamp of unknown type lends nothing.
AddSense(b, t) == clamp[b] = NoClamp /\ Exchange(b, t, TRUE) /\ NoFault

\* Unplugged.
RemoveAllRanges(b) == clamp[b] # NoClamp /\ Exchange(b, NoClamp, TRUE) /\ NoFault

\* SYSTEM:CLAMP:<channel>:TYPE; without the flash the ranges stay away.
WriteType(b, t) ==
  \/ Exchange(b, t, TRUE) /\ NoFault
  \/ Exchange(b, t, FALSE) /\ Fails(1)

-----------------------------------------------------------------------------
(***************************************************************************)
(* Start of the server, which finds a controller with a past               *)
(***************************************************************************)

\* Mutant: the first range with the code, available or not.
PreselectedAny(c, k) ==
  {Fixed[c][i].name : i \in {j \in DOMAIN Fixed[c] : Fixed[c][j].code = k}}

\* setNotifierSenseChannelRange: the available range with the controller's code.
Preselected(c, k) ==
  {Fixed[c][i].name : i \in {j \in DOMAIN Fixed[c] :
       LET Hit(n) == Fixed[c][n].code = k /\ Fixed[c][n].avail
       IN  Hit(j) /\ \A n \in 1..(j - 1) : ~Hit(n)}}

\* The name a channel starts with; none without an answer or a hit.
StartName(c, k, lost) ==
  IF c \in lost \/ Preselected(c, k) = {} THEN NoName
  ELSE CHOOSE n \in Preselected(c, k) : TRUE

InitialAvail == [c \in Channels |-> {r \in ToSet(Fixed[c]) : AC \in r.modes}]

Init ==
  /\ code \in [Channels -> Codes]
  /\ \/ faults = 0 /\ ctrlMode = AC /\ modeLost = FALSE
     \/ MaxFaults > 0 /\ faults = 1 /\ ctrlMode \in {AC, HF} /\ modeLost = TRUE
  /\ mode = AC
  /\ list = Fixed
  /\ avail = InitialAvail
  /\ selected = [c \in Channels |-> StartName(c, code[c], {})]
  /\ catalog = [c \in Channels |-> NamesOf(Fixed[c])]
  /\ raised = TellAll
  /\ clamp = [c \in Channels |-> NoClamp]
  /\ unsettled = {} /\ kept = {} /\ fresh = {}

\* The process ends and is started again; clamps are found anew later.
Restart ==
  /\ \E lost \in SUBSET Channels :
       /\ \/ /\ Fails(Cardinality(lost))
             /\ ctrlMode' = AC /\ modeLost' = FALSE
          \/ /\ Fails(Cardinality(lost) + 1)
             /\ ctrlMode' \in {ctrlMode, AC} /\ modeLost' = TRUE
       /\ selected' = [c \in Channels |-> StartName(c, code[c], lost)]
  /\ mode' = AC
  /\ list' = Fixed
  /\ avail' = [c \in Channels |-> SetMMode(c, AC)]
  /\ catalog' = [c \in Channels |-> NamesOf(Fixed[c])]
  /\ raised' = TellAll
  /\ clamp' = [c \in Channels |-> NoClamp]
  /\ unsettled' = {} /\ kept' = {} /\ fresh' = {}
  /\ UNCHANGED code

-----------------------------------------------------------------------------
Next ==
  \/ \E m \in Modes : SetSenseMode(m)
  \/ \E c \in Channels, n \in Names : WriteRange(c, n)
  \/ \E b \in Clampable, t \in Types :
       AddSense(b, t) \/ WriteType(b, t)
  \/ \E b \in Clampable : RemoveAllRanges(b)
  \/ Restart

Spec == Init /\ [][Next]_vars

-----------------------------------------------------------------------------
(***************************************************************************)
(* Properties                                                              *)
(***************************************************************************)

\* Every variable has its type, and no list holds a range twice, whatever
\* clamps come, go and change their type.
TypeOK ==
  /\ code \in [Channels -> Codes]
  /\ ctrlMode \in {AC, HF} /\ mode \in Modes
  /\ list \in [Channels -> Seq(SenseRange)]
  /\ \A c \in Channels : /\ IsInjective(list[c])
                         /\ avail[c] \subseteq ToSet(list[c])
  /\ selected \in [Channels -> Names \cup {NoName}]
  /\ catalog \in [Channels -> Seq(Names)]
  /\ raised \subseteq Channels
  /\ clamp \in [Channels -> Types \cup {NoClamp}]
  /\ unsettled \subseteq Channels /\ kept \subseteq Channels
  /\ fresh \subseteq Channels
  /\ modeLost \in BOOLEAN /\ faults \in 0..MaxFaults

\* RANGE answers "the already known range name" without asking the controller,
\* and URVALUE looks the name up in the list.  The range they find is the one
\* the controller measures with, over mode changes, restarts and refused
\* commands, unless the selected range was taken away or an answer was lost.
ControllerInStep ==
  /\ \A c \in Channels \ unsettled :
       \A r \in GetRange(list[c], selected[c]) : code[c] = r.code
  /\ modeLost \/ ctrlMode = (IF mode = HF THEN HF ELSE AC)

\* A range is available exactly if its mask has the mode, but for those a clamp
\* brought since the mode was set; a range that fits is never withheld.
AvailabilityFollowsMode ==
  \A c \in Channels :
    /\ \A r \in ToSet(list[c]) : mode \in r.modes => r \in avail[c]
    /\ c \notin fresh => \A r \in avail[c] : mode \in r.modes

\* A range the mode excludes is selected only when it is left over from a mode
\* switch: neither a command nor the name found at the start selects it.
SelectedWasAvailable ==
  \A c \in Channels \ kept :
    GetRange(list[c], selected[c]) \subseteq avail[c]

\* Whenever the ranges of a channel or their availability change while the
\* server runs, the subscribers of its catalog are told in the same step, and
\* the catalog they then read is the list, in its order.
ChangesAreTold ==
  [][\A c \in Channels :
       list'[c] # list[c] \/ avail'[c] # avail[c] =>
         c \in raised' /\ catalog'[c] = NamesOf(list'[c])]_vars
=============================================================================
