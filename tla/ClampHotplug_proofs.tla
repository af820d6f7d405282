---------------------- MODULE ClampHotplug_proofs ----------------------
(***************************************************************************)
(* Proofs about ClampHotplug, for any number of channels, clamps, types,   *)
(* plug events and failing transactions: the consistency of the clamp      *)
(* objects with everything derived from them, and that no change at a      *)
(* connector is missed.                                                    *)
(***************************************************************************)
EXTENDS ClampHotplug, TLAPS

-----------------------------------------------------------------------------
(***************************************************************************)
(* What steps do to the clamps                                             *)
(***************************************************************************)

\* Only three actions touch the clamps, the lists and the ranges.
ClampStep ==
  \/ UNCHANGED <<clampVars, rangeVars>>
  \/ \E c \in Channels : AddClamp(c) \/ RemoveClamp(c)
  \/ \E c \in Channels, type \in Types : HandleScpiWriteType(c, type)

\* Every step is one of these kinds: most leave the clamp objects and ranges alone.
LEMMA StepKinds ==
  ASSUME [Next]_vars
  PROVE  ClampStep
<1>1. CASE Hardware
  BY <1>1 DEF Hardware, Plug, Unplug, Change, OtherInterrupt, ClampStep
<1>2. CASE SigHandler
  BY <1>2 DEF SigHandler, ClampStep
<1>3. CASE Handler
  BY <1>3 DEF Handler, MTIntHandler, ResetCriticalStatus,
       UpdateI2cDevicesConnected, EnableClampInterrupt, PingFails, UpdateDone,
       ClampStep
<1>4. CASE Commands
  BY <1>4 DEF Commands, HandleScpiWriteFlash, HandleScpiResetFlash,
       WriteAllClamps, ClampStep
<1>5. CASE UNCHANGED vars
  BY <1>5 DEF vars, clampVars, rangeVars, ClampStep
<1>6. QED
  BY <1>1, <1>2, <1>3, <1>4, <1>5 DEF Next

\* The type invariant of the clamps, the lists and the ranges.
ClampTypes ==
  /\ m_nClampStatus \subseteq Channels
  /\ m_clampHash \in [Channels -> Object \cup {NoClamp}]
  /\ m_clampSecondarySet \subseteq Channels
  /\ m_notifierClampChannelList \in
       [keys: SUBSET Channels, secondary: SUBSET Channels]
  /\ ranges \in [Channels -> [Places -> SUBSET Types]]
  /\ catalog \in [Channels -> [Places -> SUBSET Types]]

\* The ranges a clamp adds or takes away are ranges of its type.
LEMMA RangeLists ==
  ASSUME NEW list \in [Places -> SUBSET Types], NEW object \in Object
  PROVE  /\ AddSense(list, object) \in [Places -> SUBSET Types]
         /\ RemoveAllRanges(list, object) \in [Places -> SUBSET Types]
<1>1. \A p \in Places : RangesOf(object.type, p) \subseteq Types
  BY DEF RangesOf, Object, TypeOrUndefined
<1>2. QED
  BY <1>1 DEF AddSense, RemoveAllRanges

\* What initClamp leaves, also in an object that the constructor makes.
LEMMA InitClampResult ==
  ASSUME NEW object \in Object, NEW type \in TypeOrUndefined
  PROVE  /\ InitClamp(object, type) \in Object
         /\ InitClamp(object, type).type = type
         /\ InitClamp(object, type).secondName =
              IF type = DualType THEN "below" ELSE object.secondName
BY DEF InitClamp, Object

\* The object a constructor makes, whatever type it read.
LEMMA NewClampResult ==
  ASSUME NEW k \in Clamps, NEW type \in TypeOrUndefined
  PROVE  /\ NewClamp(k, type) \in Object
         /\ NewClamp(k, type).type = type
         /\ NewClamp(k, type).secondName = IF type = DualType THEN "below" ELSE ""
<1> DEFINE blank == [dev |-> k, type |-> Undefined, secondName |-> ""]
<1>1. blank \in Object /\ blank.secondName = ""
  BY DEF Object, TypeOrUndefined
<1>2. NewClamp(k, type) = InitClamp(blank, type)
  BY DEF NewClamp
<1> HIDE DEF blank
<1>3. /\ InitClamp(blank, type) \in Object
      /\ InitClamp(blank, type).type = type
      /\ InitClamp(blank, type).secondName =
           IF type = DualType THEN "below" ELSE blank.secondName
  BY <1>1, InitClampResult
<1>4. QED
  BY <1>1, <1>2, <1>3

\* SetRanges gives one channel a new list, and the catalog with it.
LEMMA SetRangesTypes ==
  ASSUME ClampTypes, NEW c \in Channels, NEW list \in [Places -> SUBSET Types],
         SetRanges(c, list)
  PROVE  /\ ranges' \in [Channels -> [Places -> SUBSET Types]]
         /\ catalog' \in [Channels -> [Places -> SUBSET Types]]
         /\ ranges'[c] = list /\ catalog'[c] = list
         /\ \A d \in Channels \ {c} :
              ranges'[d] = ranges[d] /\ catalog'[d] = catalog[d]
BY DEF SetRanges, ClampTypes

\* The clamp objects and range lists keep their types.
LEMMA ClampTypesStep ==
  ASSUME ClampTypes, flash \in [Clamps -> TypeOrUndefined], ClampStep
  PROVE  ClampTypes'
<1>1. CASE UNCHANGED <<clampVars, rangeVars>>
  BY <1>1 DEF clampVars, rangeVars, ClampTypes
<1>2. GenerateAndNotifyClampChannelList /\ m_clampSecondarySet' \subseteq Channels =>
        m_notifierClampChannelList' \in
          [keys: SUBSET Channels, secondary: SUBSET Channels]
  BY DEF GenerateAndNotifyClampChannelList, Keys
<1>3. ASSUME NEW c \in Channels, AddClamp(c) PROVE ClampTypes'
  <2>1. PICK type \in {flash[hw[c]], Undefined} :
          LET object == NewClamp(hw[c], type)
          IN  /\ m_clampHash' = [m_clampHash EXCEPT ![c] = object]
              /\ m_clampSecondarySet' = IF object.secondName # ""
                                        THEN m_clampSecondarySet \cup {c}
                                        ELSE m_clampSecondarySet
              /\ SetRanges(c, AddSense(ranges[c], object))
    BY <1>3 DEF AddClamp
  <2> DEFINE object == NewClamp(hw[c], type)
  <2>2. hw[c] \in Clamps /\ type \in TypeOrUndefined
    BY <1>3 DEF AddClamp, TypeOrUndefined
  <2>3. object \in Object
    BY <2>2, NewClampResult
  <2>4. ranges[c] \in [Places -> SUBSET Types]
    BY DEF ClampTypes
  <2>5. /\ ranges' \in [Channels -> [Places -> SUBSET Types]]
        /\ catalog' \in [Channels -> [Places -> SUBSET Types]]
    BY <2>1, <2>3, <2>4, RangeLists, SetRangesTypes
  <2>6. m_clampSecondarySet' \subseteq Channels
    BY <2>1 DEF ClampTypes
  <2>7. m_clampHash' \in [Channels -> Object \cup {NoClamp}]
    BY <2>1, <2>3 DEF ClampTypes
  <2>8. QED
    BY <1>2, <1>3, <2>5, <2>6, <2>7 DEF AddClamp, ClampTypes
<1>4. ASSUME NEW c \in Channels, RemoveClamp(c) PROVE ClampTypes'
  <2>1. ranges[c] \in [Places -> SUBSET Types] /\ m_clampHash[c] \in Object
    BY <1>4 DEF RemoveClamp, ClampTypes
  <2>2. /\ ranges' \in [Channels -> [Places -> SUBSET Types]]
        /\ catalog' \in [Channels -> [Places -> SUBSET Types]]
    BY <1>4, <2>1, RangeLists, SetRangesTypes DEF RemoveClamp
  <2>3. m_clampSecondarySet' \subseteq Channels
    BY <1>4 DEF RemoveClamp, ClampTypes
  <2>4. m_clampHash' \in [Channels -> Object \cup {NoClamp}]
    BY <1>4 DEF RemoveClamp, ClampTypes
  <2>5. QED
    BY <1>2, <1>4, <2>2, <2>3, <2>4 DEF RemoveClamp, ClampTypes
<1>5. ASSUME NEW c \in Channels, NEW type \in Types, HandleScpiWriteType(c, type)
      PROVE  ClampTypes'
  <2> DEFINE old  == m_clampHash[c]
             new  == InitClamp(old, type)
             bare == RemoveAllRanges(ranges[c], old)
  <2>1. ranges[c] \in [Places -> SUBSET Types] /\ old \in Object
    BY <1>5 DEF HandleScpiWriteType, Addressed, ClampTypes
  <2>2. new \in Object /\ bare \in [Places -> SUBSET Types]
    BY <2>1, InitClampResult, RangeLists DEF TypeOrUndefined
  <2>3. AddSense(bare, new) \in [Places -> SUBSET Types]
    BY <2>2, RangeLists
  <2>4. /\ m_clampHash' = [m_clampHash EXCEPT ![c] = new]
        /\ SetRanges(c, AddSense(bare, new)) \/ SetRanges(c, bare)
        /\ UNCHANGED <<m_nClampStatus, m_clampSecondarySet, m_notifierClampChannelList>>
    BY <1>5 DEF HandleScpiWriteType
  <2>5. /\ ranges' \in [Channels -> [Places -> SUBSET Types]]
        /\ catalog' \in [Channels -> [Places -> SUBSET Types]]
    BY <2>2, <2>3, <2>4, SetRangesTypes
  <2>6. m_clampHash' \in [Channels -> Object \cup {NoClamp}]
    BY <2>2, <2>4 DEF ClampTypes
  <2>7. QED
    BY <2>4, <2>5, <2>6 DEF ClampTypes
<1>6. QED
  BY <1>1, <1>3, <1>4, <1>5 DEF ClampStep

-----------------------------------------------------------------------------
(***************************************************************************)
(* Type correctness                                                        *)
(***************************************************************************)

\* The type invariant of the hardware, the handler and the bounds.
PathTypes ==
  /\ hw \in [Channels -> {None, Other} \cup Clamps]
  /\ flash \in [Clamps -> TypeOrUndefined]
  /\ critical \in BOOLEAN /\ enabled \in BOOLEAN /\ sigio \in BOOLEAN
  /\ pipe \in 0..PipeSize
  /\ pc \in {"read", "update", "enable", "idle", "reset"}
  /\ serving \in BOOLEAN /\ dropped \in BOOLEAN
  /\ todo \subseteq Channels
  /\ moves \in 0..MaxMoves /\ faults \in 0..MaxFaults

\* The type invariant in the two halves that are proved apart.
LEMMA TypeParts == TypeOK <=> PathTypes /\ ClampTypes
BY DEF TypeOK, PathTypes, ClampTypes

\* The fault counter keeps its type, whether a transaction fails or not.
LEMMA FaultTypes ==
  ASSUME faults \in 0..MaxFaults, Fault \/ NoFault
  PROVE  faults' \in 0..MaxFaults
BY ClampAssumption DEF Fault, NoFault

\* Steps of the hardware and of the signal handler keep the types.
LEMMA HardwareTypes ==
  ASSUME TypeOK, Hardware \/ SigHandler
  PROVE  PathTypes'
<1> USE ClampAssumption DEF TypeOK, PathTypes
<1>1. ASSUME NEW c \in Channels, NEW thing \in {None, Other} \cup Clamps, Change(c, thing)
      PROVE  PathTypes'
  <2>1. critical' \in BOOLEAN /\ sigio' \in BOOLEAN
    BY <1>1 DEF Change, Latch
  <2>2. moves' \in 0..MaxMoves
    BY <1>1 DEF Change
  <2>3. hw' \in [Channels -> {None, Other} \cup Clamps]
    BY <1>1 DEF Change
  <2>4. QED
    BY <1>1, <2>1, <2>2, <2>3 DEF Change, pathVars
<1>2. CASE OtherInterrupt
  BY <1>2 DEF OtherInterrupt, pathVars
<1>3. CASE SigHandler
  <2>1. pipe' \in 0..PipeSize
    BY <1>3 DEF SigHandler
  <2>2. QED
    BY <1>3, <2>1 DEF SigHandler
<1>4. QED
  BY <1>1, <1>2, <1>3 DEF Hardware, Plug, Unplug

\* Steps of MTIntHandler and of the poll keep the types.
LEMMA HandlerTypes ==
  ASSUME TypeOK, Handler
  PROVE  PathTypes'
<1> USE ClampAssumption DEF TypeOK, PathTypes
<1>1. CASE MTIntHandler
  <2>1. faults' \in 0..MaxFaults
    BY <1>1, FaultTypes DEF MTIntHandler
  <2>2. pipe' \in 0..PipeSize
    BY <1>1 DEF MTIntHandler
  <2>3. QED
    BY <1>1, <2>1, <2>2 DEF MTIntHandler, hwVars
<1>2. CASE ResetCriticalStatus
  BY <1>2, FaultTypes DEF ResetCriticalStatus
<1>3. CASE UpdateI2cDevicesConnected
  <2>1. faults' \in 0..MaxFaults
    BY <1>3, FaultTypes DEF UpdateI2cDevicesConnected
  <2>2. Changed(ConnectedMask) \subseteq Channels
    BY DEF Changed, ConnectedMask
  <2>3. QED
    BY <1>3, <2>1, <2>2 DEF UpdateI2cDevicesConnected, AfterUpdate, hwVars
<1>4. CASE EnableClampInterrupt
  BY <1>4, FaultTypes DEF EnableClampInterrupt
<1>5. ASSUME NEW c \in Channels, AddClamp(c) PROVE PathTypes'
  <2>1. faults' \in 0..MaxFaults
    BY <1>5, FaultTypes DEF AddClamp
  <2>2. QED
    BY <1>5, <2>1 DEF AddClamp, Visit, hwVars
<1>6. ASSUME NEW c \in Channels, PingFails(c) PROVE PathTypes'
  <2>1. faults' \in 0..MaxFaults
    BY <1>6, FaultTypes DEF PingFails
  <2>2. QED
    BY <1>6, <2>1 DEF PingFails, Visit, hwVars
<1>7. ASSUME NEW c \in Channels, RemoveClamp(c) PROVE PathTypes'
  BY <1>7 DEF RemoveClamp, Visit, hwVars
<1>8. CASE UpdateDone
  BY <1>8 DEF UpdateDone, AfterUpdate, hwVars
<1>9. QED
  BY <1>1, <1>2, <1>3, <1>4, <1>5, <1>6, <1>7, <1>8 DEF Handler

\* Commands write flashes and count faults.
LEMMA CommandTypes ==
  ASSUME TypeOK, Commands
  PROVE  PathTypes'
<1> USE DEF TypeOK, PathTypes
<1>1. ASSUME NEW c \in Channels, NEW type \in TypeOrUndefined,
             Written(c, type) \/ NotWritten(c)
      PROVE  flash' \in [Clamps -> TypeOrUndefined] /\ faults' \in 0..MaxFaults
  <2>1. Undefined \in TypeOrUndefined
    BY DEF TypeOrUndefined
  <2>2. faults' \in 0..MaxFaults
    BY <1>1, FaultTypes DEF Written, NotWritten
  <2>3. \/ UNCHANGED flash
        \/ \E k \in Clamps, x \in TypeOrUndefined : flash' = [flash EXCEPT ![k] = x]
    BY <1>1, <2>1 DEF Written, NotWritten
  <2>4. flash' \in [Clamps -> TypeOrUndefined]
    BY <2>3
  <2>5. QED
    BY <2>2, <2>4
<1>2. ASSUME NEW c \in Channels, NEW type \in Types, HandleScpiWriteType(c, type)
      PROVE  PathTypes'
  <2>1. type \in TypeOrUndefined /\ (Written(c, type) \/ NotWritten(c))
    BY <1>2 DEF HandleScpiWriteType, TypeOrUndefined
  <2>2. QED
    BY <1>1, <1>2, <2>1 DEF HandleScpiWriteType, pathVars
<1>3. ASSUME NEW c \in Channels, Addressed(c)
      PROVE  m_clampHash[c] \in Object /\ m_clampHash[c].type \in TypeOrUndefined
  <2>1. m_clampHash[c] \in Object
    BY <1>3 DEF Addressed
  <2>2. QED
    BY <2>1 DEF Object
<1>4. ASSUME NEW c \in Channels, HandleScpiWriteFlash(c) PROVE PathTypes'
  <2>1. Written(c, m_clampHash[c].type) \/ NotWritten(c)
    BY <1>4 DEF HandleScpiWriteFlash
  <2>2. m_clampHash[c].type \in TypeOrUndefined
    BY <1>3, <1>4 DEF HandleScpiWriteFlash
  <2>3. QED
    BY <1>1, <1>4, <2>1, <2>2 DEF HandleScpiWriteFlash, pathVars
<1>5. ASSUME NEW c \in Channels, HandleScpiResetFlash(c) PROVE PathTypes'
  <2>1. Written(c, Undefined) \/ NotWritten(c)
    BY <1>5 DEF HandleScpiResetFlash
  <2>2. Undefined \in TypeOrUndefined
    BY DEF TypeOrUndefined
  <2>3. QED
    BY <1>1, <1>5, <2>1, <2>2 DEF HandleScpiResetFlash, pathVars
<1>6. CASE WriteAllClamps
  <2>1. PICK written \in SUBSET Keys(m_clampHash) :
          LET sound  == {c \in written : hw[c] \in Clamps}
              after  == [k \in Clamps |->
                          LET at == {c \in sound : hw[c] = k}
                          IN IF at = {} THEN flash[k]
                             ELSE m_clampHash[CHOOSE c \in at : TRUE].type]
          IN  /\ sound = written
              /\ \/ written = Keys(m_clampHash) /\ flash' = after /\ NoFault
                 \/ \E c \in Keys(m_clampHash) \ written :
                      \/ hw[c] \notin Clamps /\ flash' = after /\ NoFault
                      \/ /\ hw[c] \in Clamps /\ Fault
                         /\ flash' \in {after, [after EXCEPT ![hw[c]] = Undefined]}
    BY <1>6 DEF WriteAllClamps
  <2> DEFINE sound  == {c \in written : hw[c] \in Clamps}
             at(k)  == {c \in sound : hw[c] = k}
             after  == [k \in Clamps |->
                         IF at(k) = {} THEN flash[k]
                         ELSE m_clampHash[CHOOSE c \in at(k) : TRUE].type]
  <2>2. ASSUME NEW k \in Clamps, at(k) # {}
        PROVE  m_clampHash[CHOOSE c \in at(k) : TRUE].type \in TypeOrUndefined
    <3>1. (CHOOSE c \in at(k) : TRUE) \in at(k)
      BY <2>2
    <3>2. \A c \in at(k) : c \in Channels /\ m_clampHash[c] \in Object
      BY <2>1 DEF Keys
    <3>3. \A object \in Object : object.type \in TypeOrUndefined
      BY DEF Object
    <3>4. QED
      BY <3>1, <3>2, <3>3
  <2>3. after \in [Clamps -> TypeOrUndefined]
    BY <2>2
  <2>4. \/ flash' = after
        \/ \E k \in Clamps : flash' = [after EXCEPT ![k] = Undefined]
    BY <2>1
  <2>5. flash' \in [Clamps -> TypeOrUndefined]
    BY <2>3, <2>4 DEF TypeOrUndefined
  <2>6. faults' \in 0..MaxFaults
    BY <2>1, FaultTypes
  <2>7. QED
    BY <1>6, <2>5, <2>6 DEF WriteAllClamps, pathVars
<1>7. QED
  BY <1>2, <1>4, <1>5, <1>6 DEF Commands

\* Every step keeps the types.
LEMMA TypeStep ==
  ASSUME TypeOK, [Next]_vars
  PROVE  TypeOK'
<1>1. PathTypes'
  <2>1. CASE UNCHANGED vars
    BY <2>1 DEF vars, hwVars, pathVars, TypeOK, PathTypes
  <2>2. QED
    BY <2>1, HardwareTypes, HandlerTypes, CommandTypes DEF Next
<1>2. ClampTypes'
  BY StepKinds, ClampTypesStep, TypeParts DEF PathTypes
<1>3. QED
  BY <1>1, <1>2 DEF TypeOK, PathTypes, ClampTypes

\* Every variable keeps its type, with any number of channels and clamps.
THEOREM TypeCorrect == Spec => []TypeOK
<1>1. Init => TypeOK
  <2>1. NoRanges \in [Channels -> [Places -> SUBSET Types]]
    BY DEF NoRanges
  <2>2. [c \in Channels |-> NoClamp] \in [Channels -> Object \cup {NoClamp}]
    OBVIOUS
  <2>3. [keys |-> {}, secondary |-> {}] \in
          [keys: SUBSET Channels, secondary: SUBSET Channels]
    OBVIOUS
  <2>4. 0 \in 0..PipeSize /\ 0 \in 0..MaxMoves /\ 0 \in 0..MaxFaults
    BY ClampAssumption
  <2>5. Init => ClampTypes
    BY <2>1, <2>2, <2>3 DEF Init, ClampTypes
  <2>6. Init => PathTypes
    BY <2>4 DEF Init, PathTypes
  <2>7. QED
    BY <2>5, <2>6, TypeParts
<1>2. TypeOK /\ [Next]_vars => TypeOK'
  BY TypeStep
<1>3. QED
  BY <1>1, <1>2, PTL DEF Spec

-----------------------------------------------------------------------------
(***************************************************************************)
(* The clamp objects and what is derived from them                         *)
(***************************************************************************)

\* The three invariants are inductive together, and only with two more facts:
\* a voltage clamp has a secondary name, so its ranges below can be taken back,
\* and the reported secondary channels are those in the set.
Derived ==
  /\ HashMatchesStatus
  /\ NoDanglingRange
  /\ ListedAreLive
  /\ \A c \in Channels :
       m_clampHash[c] # NoClamp /\ m_clampHash[c].type = DualType =>
         m_clampHash[c].secondName = "below"
  /\ m_notifierClampChannelList.secondary = m_clampSecondarySet

\* An object whose ranges are of its type takes all of them back.
LEMMA RemovesAll ==
  ASSUME NEW list \in [Places -> SUBSET Types], NEW object \in Object,
         \A p \in Places : list[p] \subseteq RangesOf(object.type, p),
         object.type = DualType => object.secondName = "below"
  PROVE  \A p \in Places : RemoveAllRanges(list, object)[p] = {}
<1>1. RemoveAllRanges(list, object)["own"] = {}
  BY DEF RemoveAllRanges, Places, Reaches
<1>2. CASE object.secondName = "below"
  BY <1>1, <1>2 DEF RemoveAllRanges, Places, Reaches
<1>3. CASE object.secondName = ""
  <2>1. RangesOf(object.type, "below") = {}
    BY <1>3 DEF RangesOf
  <2>2. list["below"] = {}
    BY <2>1 DEF Places
  <2>3. QED
    BY <1>1, <2>2 DEF RemoveAllRanges, Places
<1>4. QED
  BY <1>2, <1>3 DEF Object

\* A fresh list holds the ranges of the object that was added to it.
LEMMA AddsOwn ==
  ASSUME NEW list \in [Places -> SUBSET Types], NEW object \in Object,
         \A p \in Places : list[p] = {}
  PROVE  \A p \in Places : AddSense(list, object)[p] \subseteq RangesOf(object.type, p)
BY DEF AddSense

\* The reported list after generateAndNotifyClampChannelList.
LEMMA Generated ==
  ASSUME GenerateAndNotifyClampChannelList
  PROVE  /\ m_notifierClampChannelList'.keys = Keys(m_clampHash')
         /\ m_notifierClampChannelList'.secondary = m_clampSecondarySet'
BY DEF GenerateAndNotifyClampChannelList

\* addClamp leaves status word, catalogs and range lists consistent.
LEMMA AddClampDerived ==
  ASSUME TypeOK, Derived, NEW c \in Channels, AddClamp(c)
  PROVE  Derived'
<1>1. PICK type \in {flash[hw[c]], Undefined} :
        LET object == NewClamp(hw[c], type)
        IN  /\ m_clampHash' = [m_clampHash EXCEPT ![c] = object]
            /\ m_clampSecondarySet' = IF object.secondName # ""
                                      THEN m_clampSecondarySet \cup {c}
                                      ELSE m_clampSecondarySet
            /\ SetRanges(c, AddSense(ranges[c], object))
  BY DEF AddClamp
<1>2. hw[c] \in Clamps /\ type \in TypeOrUndefined
  BY DEF AddClamp, TypeOK, TypeOrUndefined
<1>3. PICK object \in Object :
        /\ object = NewClamp(hw[c], type)
        /\ object # NoClamp
        /\ object.type = DualType => object.secondName = "below"
  <2>1. NewClamp(hw[c], type) \in Object
    BY <1>2, NewClampResult
  <2>2. NewClamp(hw[c], type).type = DualType =>
          NewClamp(hw[c], type).secondName = "below"
    BY <1>2, NewClampResult
  <2>3. QED
    BY <2>1, <2>2, NoClampAssumption
<1>4. /\ m_clampHash' = [m_clampHash EXCEPT ![c] = object]
      /\ m_clampSecondarySet' = IF object.secondName # ""
                                THEN m_clampSecondarySet \cup {c}
                                ELSE m_clampSecondarySet
      /\ SetRanges(c, AddSense(ranges[c], object))
      /\ m_nClampStatus' = m_nClampStatus \cup {c}
      /\ GenerateAndNotifyClampChannelList
      /\ m_clampHash \in [Channels -> Object \cup {NoClamp}]
      /\ ranges[c] \in [Places -> SUBSET Types]
  BY <1>1, <1>3 DEF AddClamp, TypeOK
<1>5. /\ m_clampHash'[c] = object
      /\ \A d \in Channels \ {c} : m_clampHash'[d] = m_clampHash[d]
  BY <1>4
<1>6. m_clampHash[c] = NoClamp
  BY DEF Derived, HashMatchesStatus, Keys, AddClamp
<1>7. HashMatchesStatus'
  BY <1>3, <1>4, <1>5 DEF Derived, HashMatchesStatus, Keys
<1>8. NoDanglingRange'
  <2>1. \A p \in Places : AddSense(ranges[c], object)[p] \subseteq RangesOf(object.type, p)
    BY <1>4, <1>6, AddsOwn DEF Derived, NoDanglingRange
  <2>2. /\ ranges'[c] = AddSense(ranges[c], object)
        /\ catalog'[c] = ranges'[c]
        /\ \A d \in Channels \ {c} :
             ranges'[d] = ranges[d] /\ catalog'[d] = catalog[d]
    BY <1>4, SetRangesTypes, RangeLists, TypeParts
  <2>3. QED
    BY <1>3, <1>5, <2>1, <2>2 DEF Derived, NoDanglingRange
<1>9. \A d \in m_clampSecondarySet' :
        m_clampHash'[d] # NoClamp /\ m_clampHash'[d].secondName # ""
  BY <1>3, <1>4, <1>5, <1>6 DEF Derived, ListedAreLive, TypeOK
<1>10. \A d \in Channels :
         m_clampHash'[d] # NoClamp /\ m_clampHash'[d].type = DualType =>
           m_clampHash'[d].secondName = "below"
  BY <1>3, <1>5 DEF Derived
<1>11. QED
  BY <1>4, <1>7, <1>8, <1>9, <1>10, Generated DEF Derived, ListedAreLive

\* Removing a clamp leaves them consistent.
LEMMA RemoveClampDerived ==
  ASSUME TypeOK, Derived, NEW c \in Channels, RemoveClamp(c)
  PROVE  Derived'
<1>1. /\ m_clampHash[c] # NoClamp
      /\ m_clampHash' = [m_clampHash EXCEPT ![c] = NoClamp]
      /\ m_clampSecondarySet' = IF m_clampHash[c].secondName # ""
                                THEN m_clampSecondarySet \ {c}
                                ELSE m_clampSecondarySet
      /\ SetRanges(c, RemoveAllRanges(ranges[c], m_clampHash[c]))
      /\ m_nClampStatus' = m_nClampStatus \ {c}
      /\ GenerateAndNotifyClampChannelList
      /\ m_clampHash \in [Channels -> Object \cup {NoClamp}]
      /\ ranges[c] \in [Places -> SUBSET Types]
  BY DEF RemoveClamp, TypeOK
<1>2. /\ m_clampHash'[c] = NoClamp
      /\ \A d \in Channels \ {c} : m_clampHash'[d] = m_clampHash[d]
  BY <1>1
<1>3. HashMatchesStatus'
  BY <1>1, <1>2 DEF Derived, HashMatchesStatus, Keys
<1>4. NoDanglingRange'
  <2>1. m_clampHash[c] \in Object
    BY <1>1
  <2>2. \A p \in Places : RemoveAllRanges(ranges[c], m_clampHash[c])[p] = {}
    BY <1>1, <2>1, RemovesAll DEF Derived, NoDanglingRange
  <2>3. /\ ranges'[c] = RemoveAllRanges(ranges[c], m_clampHash[c])
        /\ catalog'[c] = ranges'[c]
        /\ \A d \in Channels \ {c} :
             ranges'[d] = ranges[d] /\ catalog'[d] = catalog[d]
    BY <1>1, <2>1, SetRangesTypes, RangeLists, TypeParts
  <2>4. QED
    BY <1>2, <2>2, <2>3 DEF Derived, NoDanglingRange
<1>5. c \notin m_clampSecondarySet'
  BY <1>1 DEF Derived, ListedAreLive
<1>6. \A d \in m_clampSecondarySet' :
        m_clampHash'[d] # NoClamp /\ m_clampHash'[d].secondName # ""
  BY <1>1, <1>2, <1>5 DEF Derived, ListedAreLive, TypeOK
<1>7. \A d \in Channels :
        m_clampHash'[d] # NoClamp /\ m_clampHash'[d].type = DualType =>
          m_clampHash'[d].secondName = "below"
  BY <1>2 DEF Derived
<1>8. QED
  BY <1>1, <1>3, <1>4, <1>6, <1>7, Generated DEF Derived, ListedAreLive

\* So does a TYPE command, also one whose flash write fails.
LEMMA WriteTypeDerived ==
  ASSUME TypeOK, Derived, NEW c \in Channels, NEW type \in Types,
         HandleScpiWriteType(c, type)
  PROVE  Derived'
<1>1. PICK old \in Object : old = m_clampHash[c]
  BY DEF HandleScpiWriteType, Addressed, TypeOK
<1>2. PICK new \in Object :
        /\ new = InitClamp(old, type)
        /\ new # NoClamp
        /\ new.type = type
        /\ new.secondName = IF type = DualType THEN "below" ELSE old.secondName
  BY InitClampResult, NoClampAssumption DEF TypeOrUndefined
<1>3. PICK bare \in [Places -> SUBSET Types] : bare = RemoveAllRanges(ranges[c], old)
  BY RangeLists DEF TypeOK
<1>4. /\ m_clampHash' = [m_clampHash EXCEPT ![c] = new]
      /\ SetRanges(c, AddSense(bare, new)) \/ SetRanges(c, bare)
      /\ UNCHANGED <<m_nClampStatus, m_clampSecondarySet, m_notifierClampChannelList>>
      /\ old # NoClamp
      /\ m_clampHash \in [Channels -> Object \cup {NoClamp}]
  BY <1>1, <1>2, <1>3 DEF HandleScpiWriteType, Addressed, TypeOK
<1>5. /\ m_clampHash'[c] = new
      /\ \A d \in Channels \ {c} : m_clampHash'[d] = m_clampHash[d]
  BY <1>4
<1>6. Keys(m_clampHash') = Keys(m_clampHash)
  BY <1>1, <1>2, <1>4, <1>5 DEF Keys
<1>7. HashMatchesStatus'
  BY <1>4, <1>6 DEF Derived, HashMatchesStatus
<1>8. NoDanglingRange'
  <2>1. \A p \in Places : bare[p] = {}
    <3>1. /\ ranges[c] \in [Places -> SUBSET Types]
          /\ \A p \in Places : ranges[c][p] \subseteq RangesOf(old.type, p)
          /\ old.type = DualType => old.secondName = "below"
      BY <1>1, <1>4 DEF Derived, NoDanglingRange, TypeOK
    <3>2. QED
      BY <1>3, <3>1, RemovesAll
  <2>2. \A p \in Places : AddSense(bare, new)[p] \subseteq RangesOf(new.type, p)
    BY <2>1, AddsOwn
  <2>3. AddSense(bare, new) \in [Places -> SUBSET Types]
    BY RangeLists
  <2>4. /\ ranges'[c] \in {AddSense(bare, new), bare}
        /\ catalog'[c] = ranges'[c]
        /\ \A d \in Channels \ {c} :
             ranges'[d] = ranges[d] /\ catalog'[d] = catalog[d]
    BY <1>4, <2>3, SetRangesTypes, TypeParts
  <2>5. \A p \in Places : ranges'[c][p] \subseteq RangesOf(new.type, p)
    BY <2>1, <2>2, <2>4
  <2>6. QED
    BY <1>2, <1>5, <2>4, <2>5 DEF Derived, NoDanglingRange
<1>9. \A d \in m_clampSecondarySet' :
        m_clampHash'[d] # NoClamp /\ m_clampHash'[d].secondName # ""
  <2>1. \A d \in m_clampSecondarySet :
          d \in Channels /\ m_clampHash[d] # NoClamp /\ m_clampHash[d].secondName # ""
    BY DEF Derived, ListedAreLive, TypeOK
  <2>2. old.secondName # "" => new.secondName # ""
    BY <1>2
  <2>3. m_clampSecondarySet' = m_clampSecondarySet
    BY <1>4
  <2>4. QED
    BY <1>1, <1>2, <1>5, <2>1, <2>2, <2>3
<1>10. \A d \in Channels :
         m_clampHash'[d] # NoClamp /\ m_clampHash'[d].type = DualType =>
           m_clampHash'[d].secondName = "below"
  BY <1>2, <1>5 DEF Derived
<1>11. QED
  BY <1>4, <1>6, <1>7, <1>8, <1>9, <1>10 DEF Derived, ListedAreLive

\* And so does every step.
LEMMA DerivedStep ==
  ASSUME TypeOK, Derived, [Next]_vars
  PROVE  Derived'
<1>1. CASE UNCHANGED <<clampVars, rangeVars>>
  BY <1>1 DEF clampVars, rangeVars, Derived, HashMatchesStatus, NoDanglingRange,
       ListedAreLive, Keys
<1>2. QED
  BY <1>1, StepKinds, AddClampDerived, RemoveClampDerived, WriteTypeDerived
  DEF ClampStep

\* The data derived from the clamp objects agree with them at all times.
LEMMA DerivedAlways == Spec => []Derived
<1>1. Init => Derived
  BY DEF Init, Derived, HashMatchesStatus, NoDanglingRange, ListedAreLive, Keys,
         NoRanges
<1>2. TypeOK /\ Derived /\ [Next]_vars => Derived'
  BY DerivedStep
<1>3. QED
  BY <1>1, <1>2, TypeCorrect, PTL DEF Spec

\* The status word and the clamp objects always agree.
THEOREM HashMatchesStatusAlways == Spec => []HashMatchesStatus
<1>1. Derived => HashMatchesStatus
  BY DEF Derived
<1>2. QED
  BY <1>1, DerivedAlways, PTL

\* No channel ever lists a range of a clamp, or of a clamp type, that is gone.
THEOREM NoDanglingRangeAlways == Spec => []NoDanglingRange
<1>1. Derived => NoDanglingRange
  BY DEF Derived
<1>2. QED
  BY <1>1, DerivedAlways, PTL

\* The clamp catalog names present clamps only.
THEOREM ListedAreLiveAlways == Spec => []ListedAreLive
<1>1. Derived => ListedAreLive
  BY DEF Derived
<1>2. QED
  BY <1>1, DerivedAlways, PTL

-----------------------------------------------------------------------------
(***************************************************************************)
(* No missed change                                                        *)
(***************************************************************************)

\* Why resetting the latch before the mask is read is enough.  While nothing
\* is latched the mask in use is the present one: a channel that is still to be
\* looked at differs from what the server knows, any other one fits or its
\* clamp did not answer.
Sync ==
  /\ NoMissedPlug
  /\ pc = "update" /\ ~critical =>
       \A c \in Channels :
         IF c \in todo THEN c \in m_nClampStatus <=> hw[c] = None
                       ELSE dropped \/ Fits(c)

\* The hardware moves only by latching a change.
LEMMA SyncHardware ==
  ASSUME TypeOK, Sync, Hardware \/ SigHandler
  PROVE  Sync'
<1>1. ASSUME NEW c \in Channels, NEW thing, Change(c, thing) PROVE Sync'
  BY <1>1 DEF Change, Latch, Sync, NoMissedPlug
<1>2. CASE OtherInterrupt
  BY <1>2 DEF OtherInterrupt, Sync, NoMissedPlug, Fits, pathVars, clampVars
<1>3. CASE SigHandler
  BY <1>3 DEF SigHandler, Sync, NoMissedPlug, Fits, clampVars
<1>4. QED
  BY <1>1, <1>2, <1>3 DEF Hardware, Plug, Unplug

\* Commands do not touch what Sync speaks about.
LEMMA SyncCommands ==
  ASSUME Sync, Commands
  PROVE  Sync'
<1>1. UNCHANGED <<hw, critical, pc, todo, dropped, m_nClampStatus>>
  BY DEF Commands, HandleScpiWriteType, HandleScpiWriteFlash,
         HandleScpiResetFlash, WriteAllClamps, pathVars, clampVars
<1>2. QED
  BY <1>1 DEF Sync, NoMissedPlug, Fits

\* A channel of the update is looked at.
LEMMA SyncVisit ==
  ASSUME TypeOK, Sync, NEW c \in Channels,
         AddClamp(c) \/ PingFails(c) \/ RemoveClamp(c)
  PROVE  Sync'
<1>1. /\ pc = "update" /\ c \in todo /\ todo' = todo \ {c}
      /\ UNCHANGED <<hw, critical, pc>>
  BY DEF AddClamp, PingFails, RemoveClamp, Visit, Least, hwVars
<1>2. NoMissedPlug'
  BY <1>1 DEF NoMissedPlug
<1>3. ASSUME ~critical
      PROVE  \A d \in Channels :
               IF d \in todo' THEN d \in m_nClampStatus' <=> hw'[d] = None
                             ELSE dropped' \/ Fits(d)'
  <2>1. \A d \in Channels :
          IF d \in todo THEN d \in m_nClampStatus <=> hw[d] = None
                        ELSE dropped \/ Fits(d)
    BY <1>1, <1>3 DEF Sync
  <2>2. CASE AddClamp(c)
    BY <1>1, <2>1, <2>2, ClampAssumption DEF AddClamp, Fits
  <2>3. CASE PingFails(c)
    BY <1>1, <2>1, <2>3 DEF PingFails, Fits, clampVars
  <2>4. CASE RemoveClamp(c)
    BY <1>1, <2>1, <2>4, ClampAssumption DEF RemoveClamp, Fits
  <2>5. QED
    BY <2>2, <2>3, <2>4
<1>4. QED
  BY <1>1, <1>2, <1>3 DEF Sync

\* Every step of the handler keeps the server in touch with the connectors.
LEMMA SyncHandler ==
  ASSUME TypeOK, Sync, Handler
  PROVE  Sync'
<1>1. CASE MTIntHandler
  BY <1>1 DEF MTIntHandler, Sync, NoMissedPlug, Fits, hwVars, clampVars
<1>2. CASE ResetCriticalStatus
  BY <1>2 DEF ResetCriticalStatus, Sync, NoMissedPlug
<1>3. CASE UpdateI2cDevicesConnected
  <2>1. /\ UNCHANGED <<hw, critical, m_nClampStatus>>
        /\ \/ todo' = Changed(ConnectedMask) /\ pc' = "update"
           \/ pc' \in {"idle", "enable"} /\ dropped' = TRUE
    BY <1>3 DEF UpdateI2cDevicesConnected, hwVars, clampVars, AfterUpdate
  <2>2. \A c \in Channels :
          IF c \in Changed(ConnectedMask)
          THEN c \in m_nClampStatus <=> hw[c] = None
          ELSE Fits(c)
    BY ClampAssumption DEF Changed, ConnectedMask, Fits
  <2>3. CASE todo' = Changed(ConnectedMask) /\ pc' = "update"
    BY <2>1, <2>2, <2>3 DEF Sync, NoMissedPlug, Fits
  <2>4. CASE pc' \in {"idle", "enable"} /\ dropped' = TRUE
    BY <2>4 DEF Sync, NoMissedPlug
  <2>5. QED
    BY <2>1, <2>3, <2>4
<1>4. CASE EnableClampInterrupt
  BY <1>4 DEF EnableClampInterrupt, Sync, NoMissedPlug, Fits, clampVars
<1>5. CASE UpdateDone
  <2>1. /\ pc = "update" /\ todo = {} /\ pc' \in {"idle", "enable"}
        /\ UNCHANGED <<hw, critical, dropped, m_nClampStatus>>
    BY <1>5 DEF UpdateDone, AfterUpdate, hwVars, clampVars
  <2>2. ~critical /\ ~dropped => \A c \in Channels : Fits(c)
    BY <2>1 DEF Sync
  <2>3. QED
    BY <2>1, <2>2 DEF Sync, NoMissedPlug, Fits
<1>6. QED
  BY <1>1, <1>2, <1>3, <1>4, <1>5, SyncVisit DEF Handler

\* What the server knows, has still to look at, or has latched covers every change.
LEMMA SyncAlways == Spec => []Sync
<1>1. Init => Sync
  BY DEF Init, Sync, NoMissedPlug
<1>2. TypeOK /\ Sync /\ [Next]_vars => Sync'
  <2>1. UNCHANGED vars /\ Sync => Sync'
    BY DEF vars, hwVars, pathVars, clampVars, Sync, NoMissedPlug, Fits
  <2>2. QED
    BY <2>1, SyncHardware, SyncHandler, SyncCommands DEF Next
<1>3. QED
  BY <1>1, <1>2, TypeCorrect, PTL DEF Spec

\* A change at a connector is never missed, whenever it happens and whatever
\* else the handler was doing, unless a failed transaction made it give up.
THEOREM NoMissedPlugAlways == Spec => []NoMissedPlug
<1>1. Sync => NoMissedPlug
  BY DEF Sync
<1>2. QED
  BY <1>1, SyncAlways, PTL

\* No clamp is removed for good by a mask that is out of date.
THEOREM RemovedIsGoneAlways == Spec => RemovedIsGone
<1>1. ASSUME TypeOK, Sync, [Next]_vars, NEW c \in Channels,
             m_clampHash[c] # NoClamp, m_clampHash'[c] = NoClamp
      PROVE  hw[c] = None \/ critical
  <2>1. CASE UNCHANGED <<clampVars, rangeVars>>
    BY <1>1, <2>1 DEF clampVars
  <2>2. ASSUME NEW d \in Channels, AddClamp(d) PROVE FALSE
    <3>1. PICK type \in {flash[hw[d]], Undefined} :
            m_clampHash' = [m_clampHash EXCEPT ![d] = NewClamp(hw[d], type)]
      BY <2>2 DEF AddClamp
    <3>2. hw[d] \in Clamps /\ type \in TypeOrUndefined
      BY <1>1, <2>2 DEF AddClamp, TypeOK, TypeOrUndefined
    <3>3. NewClamp(hw[d], type) # NoClamp
      BY <3>2, NewClampResult, NoClampAssumption
    <3>4. QED
      BY <1>1, <3>1, <3>3 DEF TypeOK
  <2>3. ASSUME NEW d \in Channels, RemoveClamp(d) PROVE hw[c] = None \/ critical
    <3>1. /\ m_clampHash' = [m_clampHash EXCEPT ![d] = NoClamp]
          /\ pc = "update" /\ d \in todo /\ d \in m_nClampStatus
      BY <2>3 DEF RemoveClamp, Visit, Least
    <3>2. c = d
      BY <1>1, <3>1 DEF TypeOK
    <3>3. QED
      BY <1>1, <3>1, <3>2 DEF Sync
  <2>4. ASSUME NEW d \in Channels, NEW type \in Types, HandleScpiWriteType(d, type)
        PROVE  FALSE
    <3>1. PICK old \in Object : old = m_clampHash[d]
      BY <1>1, <2>4 DEF HandleScpiWriteType, Addressed, TypeOK
    <3>2. m_clampHash' = [m_clampHash EXCEPT ![d] = InitClamp(old, type)]
      BY <2>4, <3>1 DEF HandleScpiWriteType
    <3>3. InitClamp(old, type) # NoClamp
      BY InitClampResult, NoClampAssumption DEF TypeOrUndefined
    <3>4. QED
      BY <1>1, <3>2, <3>3 DEF TypeOK
  <2>5. QED
    BY <1>1, <2>1, <2>2, <2>3, <2>4, StepKinds DEF ClampStep
<1>2. TypeOK /\ Sync /\ [Next]_vars =>
        [\A c \in Channels :
           m_clampHash[c] # NoClamp /\ m_clampHash'[c] = NoClamp =>
             hw[c] = None \/ critical]_vars
  BY <1>1
<1>3. QED
  BY <1>2, TypeCorrect, SyncAlways, PTL DEF Spec, RemovedIsGone

-----------------------------------------------------------------------------
(***************************************************************************)
(* No lost wake-up, when no transaction fails and the controller is prompt *)
(***************************************************************************)

\* Without faults, every step keeps a latched change announced.
LEMMA WakeupStep ==
  ASSUME MaxFaults = 0, Prompt, TypeOK, NoLostWakeup, [Next]_vars
  PROVE  NoLostWakeup'
<1> USE DEF NoLostWakeup
<1>1. ~Fault
  BY DEF Fault, TypeOK
<1>2. ASSUME NEW c \in Channels, NEW thing, Change(c, thing) PROVE NoLostWakeup'
  BY <1>2 DEF Change, Latch, TypeOK
<1>3. CASE OtherInterrupt
  BY <1>3 DEF OtherInterrupt
<1>4. CASE SigHandler
  <2>1. pipe' > 0
    BY <1>4, ClampAssumption DEF SigHandler, TypeOK
  <2>2. QED
    BY <2>1
<1>5. CASE MTIntHandler
  BY <1>1, <1>5 DEF MTIntHandler, hwVars
<1>6. CASE ResetCriticalStatus
  BY <1>1, <1>6 DEF ResetCriticalStatus
<1>7. CASE UpdateI2cDevicesConnected
  BY <1>7 DEF UpdateI2cDevicesConnected, hwVars
<1>8. CASE EnableClampInterrupt
  BY <1>1, <1>8 DEF EnableClampInterrupt
<1>9. CASE UpdateDone
  BY <1>9 DEF UpdateDone, hwVars
<1>10. ASSUME NEW c \in Channels, AddClamp(c) \/ PingFails(c) \/ RemoveClamp(c)
       PROVE  NoLostWakeup'
  <2>1. UNCHANGED <<hwVars, pipe, pc>>
    BY <1>10 DEF AddClamp, PingFails, RemoveClamp
  <2>2. QED
    BY <2>1 DEF hwVars
<1>11. CASE Commands
  <2>1. UNCHANGED <<critical, enabled, sigio, pathVars>>
    BY <1>11 DEF Commands, HandleScpiWriteType, HandleScpiWriteFlash,
       HandleScpiResetFlash, WriteAllClamps
  <2>2. QED
    BY <2>1 DEF pathVars
<1>12. CASE UNCHANGED vars
  BY <1>12 DEF vars, hwVars, pathVars
<1>13. QED
  BY <1>2, <1>3, <1>4, <1>5, <1>6, <1>7, <1>8, <1>9, <1>10, <1>11, <1>12
  DEF Next, Hardware, Plug, Unplug, Handler

\* A latched change is always announced to the handler, although the pipe
\* drops bytes and a signal may stand for several changes.
THEOREM NoLostWakeupIfPrompt ==
  ASSUME MaxFaults = 0, Prompt
  PROVE  Spec => []NoLostWakeup
<1>1. Init => NoLostWakeup
  BY DEF Init, NoLostWakeup
<1>2. TypeOK /\ NoLostWakeup /\ [Next]_vars => NoLostWakeup'
  BY WakeupStep
<1>3. QED
  BY <1>1, <1>2, TypeCorrect, PTL DEF Spec

=============================================================================
