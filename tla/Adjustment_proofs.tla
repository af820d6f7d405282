------------------------ MODULE Adjustment_proofs ------------------------
(***************************************************************************)
(* Proofs about Adjustment for any ranges, values, documents, versions and *)
(* serial numbers.                                                         *)
(***************************************************************************)
EXTENDS Adjustment, FiniteSetTheorems, TLAPS

Images == UNION {[S -> Data] : S \in SUBSET Board}
StoredBoard == [pcb: Pcbs, serial: Serials, data: [Board -> Data]]
Fields == {"name", "pcb", "minor", "serial"}

-----------------------------------------------------------------------------
(***************************************************************************)
(* What the operators return                                               *)
(***************************************************************************)

\* A polynomial computed from nodes is data of a range again.
LEMMA ComputedType == \A d \in Data : Computed(d) \in Data
  BY DEF Computed, Data

\* The initial data are data of a range.
LEMMA DefaultType == Default \in Data
  BY AdjustmentAssumption DEF Default, Data, AdjustmentAssumption

\* Computing all ranges in the lists gives data for all ranges.
LEMMA ComputeAllType ==
  ASSUME NEW r \in [Parts -> Data]
  PROVE  ComputeSenseAdjData(r) \in [Parts -> Data]
  BY ComputedType DEF ComputeSenseAdjData

\* So does reading a part of a document.
LEMMA ReadType ==
  ASSUME NEW r \in [Parts -> Data], NEW s, NEW d \in Docs
  PROVE  Read(r, s, d) \in [Parts -> Data]
  BY AdjustmentAssumption DEF Read, AdjustmentAssumption

\* The data of some of the ranges.
LEMMA RestrictType ==
  ASSUME NEW r \in [Parts -> Data], NEW S, S \subseteq Parts
  PROVE  Restrict(r, S) \in [S -> Data]
  BY DEF Restrict

\* A record of strings is a function on its fields.
LEMMA StringsType ==
  /\ \A i \in Identity : i \in Strings /\ DOMAIN i = Fields
  /\ \A k \in Strings : DOMAIN k = Fields
  /\ IsFiniteSet(Fields)
<1>1. \A i \in Identity : i \in Strings /\ DOMAIN i = Fields
  BY DEF Identity, Strings, Fields
<1>2. \A k \in Strings : DOMAIN k = Fields
  BY DEF Strings, Fields
<1>3. IsFiniteSet(Fields)
  <2>1. IsFiniteSet({}) BY FS_EmptySet
  <2>2. IsFiniteSet({} \cup {"name"}) BY <2>1, FS_AddElement
  <2>3. IsFiniteSet(({} \cup {"name"}) \cup {"pcb"}) BY <2>2, FS_AddElement
  <2>4. IsFiniteSet((({} \cup {"name"}) \cup {"pcb"}) \cup {"minor"})
    BY <2>3, FS_AddElement
  <2>5. IsFiniteSet(((({} \cup {"name"}) \cup {"pcb"}) \cup {"minor"}) \cup {"serial"})
    BY <2>4, FS_AddElement
  <2>6. Fields = ((({} \cup {"name"}) \cup {"pcb"}) \cup {"minor"}) \cup {"serial"}
    BY DEF Fields
  <2> QED
    BY <2>5, <2>6
<1> QED
  BY <1>1, <1>2, <1>3

\* Transactions that fail are counted with natural numbers.
LEMMA LostCount ==
  ASSUME NEW lost \in SUBSET Fields
  PROVE  Cardinality(lost) \in Nat /\ (Cardinality(lost) = 0 <=> lost = {})
  BY StringsType, FS_Subset, FS_CardinalityType, FS_EmptySet

\* The count stays within its bound.
LEMMA FailsType ==
  ASSUME faults \in 0..MaxFaults, NEW n \in Nat, Fails(n)
  PROVE  faults' \in 0..MaxFaults
  BY AdjustmentAssumption DEF Fails, AdjustmentAssumption

\* So does the count of edits.
LEMMA EditType ==
  ASSUME edits \in 0..MaxEdits, Edit
  PROVE  edits' \in 0..MaxEdits
  BY AdjustmentAssumption DEF Edit, AdjustmentAssumption

\* A flash with a correct checksum holds an image.
LEMMA FlashType ==
  ASSUME flash \in Image \cup {Bad}, flash # Bad
  PROVE  /\ flash.of \in Strings
         /\ DOMAIN flash.data \subseteq Board
         /\ \A p \in DOMAIN flash.data : flash.data[p] \in Data
<1>1. flash.of \in Strings /\ flash.data \in Images
  BY DEF Image, Images
<1>2. PICK S \in SUBSET Board : flash.data \in [S -> Data]
  BY <1>1 DEF Images
<1> QED
  BY <1>1, <1>2

\* What an import leaves in memory and in the flags has its type.
LEMMA ImportType ==
  ASSUME flash \in Image \cup {Bad}, flash # Bad,
         NEW r \in [Parts -> Data], NEW f, f \subseteq Board,
         NEW k, NEW on \in BOOLEAN, NEW flag \in BOOLEAN
  PROVE  /\ ImportAdjData(r, f, k, on, flag).ram \in [Parts -> Data]
         /\ ImportAdjData(r, f, k, on, flag).foreign \subseteq Board
         /\ ImportAdjData(r, f, k, on, flag).taken \subseteq Board
         /\ ImportAdjData(r, f, k, on, flag).wrongVers \in BOOLEAN
         /\ ImportAdjData(r, f, k, on, flag).wrongSnr \in BOOLEAN
<1> DEFINE found == ImportAdjData(r, f, k, on, flag)
           taken == IF Taken(k, on) THEN DOMAIN flash.data ELSE {}
<1>1. taken \subseteq Board /\ \A p \in taken : flash.data[p] \in Data
  BY FlashType
<1>2. found.ram = [p \in Parts |-> IF p \in taken THEN flash.data[p] ELSE r[p]]
  BY DEF ImportAdjData
<1>3. found.ram \in [Parts -> Data]
  <2> HIDE DEF found, taken
  <2> QED
    BY <1>1, <1>2
<1>4. found.foreign \in {f \ taken, f \cup taken}
  BY DEF ImportAdjData
<1>5. found.foreign \subseteq Board
  <2> HIDE DEF found, taken
  <2> QED
    BY <1>1, <1>4
<1>6. found.wrongVers \in BOOLEAN
  BY Zenon DEF ImportAdjData, WrongVers
<1>7. found.wrongSnr \in BOOLEAN
  BY DEF ImportAdjData
<1>8. found.taken = taken
  BY DEF ImportAdjData
<1>9. found.taken \subseteq Board
  <2> HIDE DEF found, taken
  <2> QED
    BY <1>1, <1>8
<1> QED
  BY <1>3, <1>5, <1>6, <1>7, <1>9

-----------------------------------------------------------------------------
(***************************************************************************)
(* Types                                                                   *)
(***************************************************************************)

\* What a store leaves has its type.
LEMMA ExportType ==
  ASSUME TypeOK, ram' \in [Parts -> Data],
         NEW r \in [Parts -> Data], NEW f, f \subseteq Board,
         ExportAdjFlash(r, f)
  PROVE  /\ flash' \in Image \cup {Bad}
         /\ stored' \in StoredBoard \cup {None}
         /\ foreign' \subseteq Board /\ kept' \subseteq Board
         /\ faults' \in 0..MaxFaults
<1> DEFINE image == [of |-> known, data |-> Exported(r)]
<1>1. Restrict(ram', Board) \in [Board -> Data] /\ Exported(r) \in [Board -> Data]
  BY RestrictType DEF Exported, Parts
<1>2. image \in Image
  BY <1>1 DEF TypeOK, Image
<1>3. [pcb |-> id.pcb, serial |-> id.serial, data |-> Restrict(ram', Board)] \in StoredBoard
  BY <1>1 DEF TypeOK, StoredBoard, Identity
<1>4. flash' \in {flash, image, Bad}
  BY DEF ExportAdjFlash
<1>5. stored' \in {[pcb |-> id.pcb, serial |-> id.serial, data |-> Restrict(ram', Board)], None}
  BY DEF ExportAdjFlash
<1>6. foreign' \in {{}, f} /\ kept' \in {{}, Board}
  BY DEF ExportAdjFlash
<1>7. faults' \in 0..MaxFaults
  BY FailsType DEF ExportAdjFlash, TypeOK, NoFault
<1>8. flash \in Image \cup {Bad}
  BY DEF TypeOK
<1> HIDE DEF image
<1> QED
  BY <1>2, <1>3, <1>4, <1>5, <1>6, <1>7, <1>8

\* And so for the clamp.
LEMMA ExportClampType ==
  ASSUME TypeOK, ram' \in [Parts -> Data],
         NEW r \in [Parts -> Data],
         ExportClampFlash(r)
  PROVE  /\ clampFlash' \in [Guests -> Data] \cup {Bad}
         /\ clampStored' \in [Guests -> Data] \cup {None}
         /\ faults' \in 0..MaxFaults
<1>1. Restrict(ram', Guests) \in [Guests -> Data] /\ Restrict(r, Guests) \in [Guests -> Data]
  BY RestrictType DEF Parts
<1>2. clampFlash' \in {clampFlash, Restrict(r, Guests), Bad}
  BY DEF ExportClampFlash
<1>3. clampStored' \in {Restrict(ram', Guests), None}
  BY DEF ExportClampFlash
<1>4. faults' \in 0..MaxFaults
  BY FailsType DEF ExportClampFlash, TypeOK, NoFault
<1>5. clampFlash \in [Guests -> Data] \cup {Bad}
  BY DEF TypeOK
<1> QED
  BY <1>1, <1>2, <1>3, <1>4, <1>5

\* A start works with data for all ranges.
LEMMA StartType ==
  ASSUME clampFlash \in [Guests -> Data] \cup {Bad}
  PROVE  StartData \in [Parts -> Data]
  BY DefaultType DEF StartData

\* And with what it finds.
LEMMA FoundType ==
  ASSUME flash \in Image \cup {Bad}, clampFlash \in [Guests -> Data] \cup {Bad},
         enable \in BOOLEAN, NEW k, NEW readable \in BOOLEAN
  PROVE  /\ Found(k, readable).ram \in [Parts -> Data]
         /\ Found(k, readable).foreign \subseteq Board
         /\ Found(k, readable).taken \subseteq Board
         /\ Found(k, readable).wrongVers \in BOOLEAN
         /\ Found(k, readable).wrongSnr \in BOOLEAN
<1> DEFINE found == Found(k, readable)
<1>1. CASE readable /\ Comparable(k)
  <2>1. found = ImportAdjData(StartData, {}, k, enable, TRUE)
    BY <1>1 DEF Found
  <2>2. flash # Bad
    BY <1>1 DEF Comparable
  <2>3. StartData \in [Parts -> Data]
    BY StartType
  <2>4. {} \subseteq Board /\ TRUE \in BOOLEAN
    OBVIOUS
  <2>5. /\ ImportAdjData(StartData, {}, k, enable, TRUE).ram \in [Parts -> Data]
        /\ ImportAdjData(StartData, {}, k, enable, TRUE).foreign \subseteq Board
        /\ ImportAdjData(StartData, {}, k, enable, TRUE).taken \subseteq Board
        /\ ImportAdjData(StartData, {}, k, enable, TRUE).wrongVers \in BOOLEAN
        /\ ImportAdjData(StartData, {}, k, enable, TRUE).wrongSnr \in BOOLEAN
    BY ONLY <2>2, <2>3, <2>4, ImportType, flash \in Image \cup {Bad}, enable \in BOOLEAN, Zenon
  <2> QED
    BY <2>1, <2>5, Zenon
<1>2. CASE ~(readable /\ Comparable(k))
  <2>1. found = [taken |-> {}, ram |-> StartData, foreign |-> {},
                 wrongVers |-> TRUE, wrongSnr |-> TRUE]
    BY <1>2 DEF Found
  <2>2. found.ram = StartData /\ found.foreign = {} /\ found.taken = {}
    BY <2>1
  <2>3. found.wrongVers = TRUE /\ found.wrongSnr = TRUE
    BY <2>1
  <2> QED
    BY <2>2, <2>3, StartType, Zenon
<1> QED
  BY <1>1, <1>2

\* The Boolean variables, and the others.
FlagTypes ==
  /\ enable \in BOOLEAN /\ lent \in BOOLEAN
  /\ wrongVers \in BOOLEAN /\ wrongSnr \in BOOLEAN

DataTypes ==
  /\ flash \in Image \cup {Bad}
  /\ clampFlash \in [Guests -> Data] \cup {Bad}
  /\ id \in Identity /\ known \in Strings
  /\ ram \in [Parts -> Data]
  /\ stored \in StoredBoard \cup {None}
  /\ clampStored \in [Guests -> Data] \cup {None}
  /\ foreign \subseteq Board /\ kept \subseteq Board
  /\ edits \in 0..MaxEdits /\ faults \in 0..MaxFaults

\* The type invariant in two parts.
LEMMA TypeParts == TypeOK <=> FlagTypes /\ DataTypes
  BY DEF TypeOK, FlagTypes, DataTypes, StoredBoard

\* It holds of the next state as well.
LEMMA TypePartsNext == TypeOK' <=> FlagTypes' /\ DataTypes'
  BY DEF TypeOK, FlagTypes, DataTypes, StoredBoard

\* Only four actions change a Boolean variable.
LEMMA FlagsKept ==
  ASSUME FlagTypes, enable' = enable, lent' = lent,
         wrongVers' = wrongVers, wrongSnr' = wrongSnr
  PROVE  FlagTypes'
  BY Zenon DEF FlagTypes

\* A step leaves Boolean values in the Boolean variables.
LEMMA FlagsStep ==
  ASSUME TypeOK, [Next]_vars
  PROVE  FlagTypes'
<1>0. FlagTypes /\ DataTypes
  BY TypeParts
<1>1. ASSUME NEW p \in Listed, WriteCurve(p) \/ ComputeRange(p) \/ InitRange(p)
      PROVE  FlagTypes'
  <2>1. enable' = enable /\ lent' = lent /\ wrongVers' = wrongVers /\ wrongSnr' = wrongSnr
    BY <1>1 DEF WriteCurve, ComputeRange, InitRange, Change, clamp, flags
  <2> QED
    BY <1>0, <2>1, FlagsKept
<1>2. CASE ComputeAll \/ InitAll
  <2>1. enable' = enable /\ lent' = lent /\ wrongVers' = wrongVers /\ wrongSnr' = wrongSnr
    BY <1>2 DEF ComputeAll, InitAll, clamp, flags
  <2> QED
    BY <1>0, <2>1, FlagsKept
<1>3. CASE AdjFlashRead
  <2>1. PICK on \in {enable, FALSE} :
          /\ wrongVers' = ImportAdjData(ram, foreign, known, on, wrongSnr).wrongVers
          /\ wrongSnr' = ImportAdjData(ram, foreign, known, on, wrongSnr).wrongSnr
    BY <1>3, Zenon DEF AdjFlashRead
  <2>2. enable' = enable /\ lent' = lent /\ flash # Bad
    BY <1>3 DEF AdjFlashRead, Comparable, clamp
  <2>3. on \in BOOLEAN
    BY <1>0, <2>1, Zenon DEF FlagTypes
  <2>4. wrongVers' \in BOOLEAN /\ wrongSnr' \in BOOLEAN
    BY <1>0, <2>1, <2>2, <2>3, ImportType, Zenon DEF FlagTypes, DataTypes
  <2> QED
    BY <1>0, <2>2, <2>4, Zenon DEF FlagTypes
<1>4. CASE AdjFlashWrite
  <2>1. enable' = enable /\ lent' = lent /\ wrongVers' = wrongVers /\ wrongSnr' = wrongSnr
    BY <1>4 DEF AdjFlashWrite, clamp, flags
  <2> QED
    BY <1>0, <2>1, FlagsKept
<1>5. CASE AdjXmlImport \/ AdjXMLRead
  <2>1. enable' = enable /\ lent' = lent /\ wrongVers' = wrongVers /\ wrongSnr' = wrongSnr
    BY <1>5 DEF AdjXmlImport, AdjXMLRead, clamp, flags
  <2> QED
    BY <1>0, <2>1, FlagsKept
<1>6. CASE WriteSerialNumber \/ WritePCBVersion
  <2>1. enable' = enable /\ lent' = lent /\ wrongVers' = wrongVers /\ wrongSnr' = wrongSnr
    BY <1>6 DEF WriteSerialNumber, WritePCBVersion, WriteIdentity, clamp, flags
  <2> QED
    BY <1>0, <2>1, FlagsKept
<1>7. CASE PlugClamp \/ UnplugClamp
  <2>1. enable' = enable /\ wrongVers' = wrongVers /\ wrongSnr' = wrongSnr
    BY <1>7 DEF PlugClamp, UnplugClamp, flags
  <2>2. lent' \in BOOLEAN
    BY <1>7, Zenon DEF PlugClamp, UnplugClamp
  <2> QED
    BY <1>0, <2>1, <2>2, Zenon DEF FlagTypes
<1>8. CASE WriteClampFlash \/ ImportClamp
  <2>1. enable' = enable /\ lent' = lent /\ wrongVers' = wrongVers /\ wrongSnr' = wrongSnr
    BY <1>8 DEF WriteClampFlash, ImportClamp, flags
  <2> QED
    BY <1>0, <2>1, FlagsKept
<1>9. CASE Restart
  <2>1. PICK readable \in BOOLEAN :
          /\ wrongVers' = Found(known', readable).wrongVers
          /\ wrongSnr' = Found(known', readable).wrongSnr
    BY <1>9, Zenon DEF Restart
  <2>2. enable' = enable
    BY <1>9 DEF Restart
  <2>3. lent' \in BOOLEAN
    BY <1>9, Zenon DEF Restart
  <2>4. wrongVers' \in BOOLEAN /\ wrongSnr' \in BOOLEAN
    BY <1>0, <2>1, FoundType, Zenon DEF FlagTypes, DataTypes
  <2> QED
    BY <1>0, <2>2, <2>3, <2>4, Zenon DEF FlagTypes
<1>10. CASE SetSwitch
  <2>1. lent' = lent /\ wrongVers' = wrongVers /\ wrongSnr' = wrongSnr
    BY <1>10 DEF SetSwitch, clamp, flags
  <2>2. enable' \in BOOLEAN
    BY <1>10, Zenon DEF SetSwitch
  <2> QED
    BY <1>0, <2>1, <2>2, Zenon DEF FlagTypes
<1>11. CASE UNCHANGED vars
  <2>1. enable' = enable /\ lent' = lent /\ wrongVers' = wrongVers /\ wrongSnr' = wrongSnr
    BY <1>11 DEF vars, clamp, flags
  <2> QED
    BY <1>0, <2>1, FlagsKept
<1> QED
  BY <1>1, <1>2, <1>3, <1>4, <1>5, <1>6, <1>7, <1>8, <1>9, <1>10, <1>11, Zenon DEF Next

\* Most actions keep most variables.
LEMMA DataKept ==
  ASSUME DataTypes, UNCHANGED <<board, clamp, identity>>,
         ram' \in [Parts -> Data], foreign' \subseteq Board, kept' \subseteq Board,
         edits' \in 0..MaxEdits, faults' \in 0..MaxFaults
  PROVE  DataTypes'
  BY DEF DataTypes, board, clamp, identity

\* Only ranges there are can be addressed.
LEMMA ListedParts == Listed \subseteq Parts
  BY DEF Listed, Parts

\* Setting the data of a range.
LEMMA ChangeType ==
  ASSUME DataTypes, NEW p \in Listed, NEW d \in Data, Change(p, d),
         foreign' \subseteq Board, kept' \subseteq Board,
         edits' \in 0..MaxEdits, faults' \in 0..MaxFaults
  PROVE  DataTypes'
<1>1. ram' = [ram EXCEPT ![p] = d] /\ UNCHANGED <<board, clamp, identity>>
  BY DEF Change
<1>2. ram' \in [Parts -> Data]
  BY <1>1, ListedParts DEF DataTypes
<1> QED
  BY <1>1, <1>2, DataKept

\* What getSystemInfo reads are strings.
LEMMA SystemInfoType ==
  ASSUME DataTypes, id' \in Identity, NEW n \in Nat, GetSystemInfo(n)
  PROVE  known' \in Strings /\ faults' \in 0..MaxFaults
<1>1. PICK lost \in SUBSET Fields :
        /\ Fails(Cardinality(lost) + n)
        /\ known' = [f \in Fields |-> IF f \in lost THEN known[f] ELSE id'[f]]
  BY StringsType DEF GetSystemInfo, DataTypes
<1>2. faults' \in 0..MaxFaults
  BY <1>1, LostCount, FailsType DEF DataTypes
<1>3. known' \in Strings
  <2>1. PICK i : i = id' /\ i \in Strings
    BY StringsType
  <2>2. known \in Strings
    BY DEF DataTypes
  <2>3. known' = [f \in Fields |-> IF f \in lost THEN known[f] ELSE i[f]]
    BY <1>1, <2>1
  <2> QED
    BY ONLY <2>1, <2>2, <2>3 DEF Strings, Fields
<1> QED
  BY <1>2, <1>3

\* So is what a start reads.
LEMMA StartStringsType ==
  ASSUME NEW i \in Identity, NEW lost \in SUBSET Fields
  PROVE  StartStrings(i, lost) \in Strings
<1>1. StartStrings(i, lost) = [f \in Fields |-> IF f \in lost THEN Unknown ELSE i[f]]
  BY StringsType DEF StartStrings
<1>2. i \in Strings
  BY StringsType
<1> QED
  BY <1>1, <1>2 DEF Strings, Fields, Identity

\* A command of one range keeps the types.
LEMMA RangeStep ==
  ASSUME TypeOK, NEW p \in Listed,
         WriteCurve(p) \/ ComputeRange(p) \/ InitRange(p)
  PROVE  DataTypes'
<1>0. DataTypes /\ ram[p] \in Data
  BY TypeParts, ListedParts DEF DataTypes
<1>1. CASE WriteCurve(p)
  <2>1. /\ edits' \in 0..MaxEdits /\ faults' \in 0..MaxFaults
        /\ foreign' \subseteq Board /\ kept' \subseteq Board
    BY <1>0, <1>1, EditType DEF WriteCurve, DataTypes, NoFault
  <2>2. PICK d \in Data : Change(p, d)
    BY <1>0, <1>1 DEF WriteCurve, Data
  <2> QED
    BY <1>0, <2>1, <2>2, ChangeType
<1>2. CASE ComputeRange(p)
  <2>1. /\ edits' \in 0..MaxEdits /\ faults' \in 0..MaxFaults
        /\ foreign' \subseteq Board /\ kept' \subseteq Board
    BY <1>0, <1>2 DEF ComputeRange, DataTypes, NoFault, NoEdit
  <2> QED
    BY <1>0, <1>2, <2>1, ComputedType, ChangeType DEF ComputeRange
<1>3. CASE InitRange(p)
  <2>1. /\ edits' \in 0..MaxEdits /\ faults' \in 0..MaxFaults
        /\ foreign' \subseteq Board /\ kept' \subseteq Board
    BY <1>0, <1>3 DEF InitRange, DataTypes, NoFault, NoEdit
  <2> QED
    BY <1>0, <1>3, <2>1, DefaultType, ChangeType DEF InitRange
<1> QED
  BY <1>1, <1>2, <1>3

\* A step keeps the types of the other variables.
LEMMA DataStep ==
  ASSUME TypeOK, [Next]_vars
  PROVE  DataTypes'
<1>0. FlagTypes /\ DataTypes
  BY TypeParts
<1>1. ASSUME NEW p \in Listed, WriteCurve(p) \/ ComputeRange(p) \/ InitRange(p)
      PROVE  DataTypes'
  BY <1>1, RangeStep
<1>2. CASE ComputeAll \/ InitAll
  <2>1. ram' \in [Parts -> Data] /\ foreign' \subseteq Board /\ kept' \subseteq Board
    BY <1>0, <1>2, ComputeAllType, DefaultType DEF ComputeAll, InitAll, DataTypes
  <2>2. UNCHANGED <<board, clamp, identity, edits, faults>>
    BY <1>2 DEF ComputeAll, InitAll, NoFault
  <2> QED
    BY <1>0, <2>1, <2>2, DataKept DEF DataTypes
<1>3. CASE AdjFlashRead
  <2>1. PICK on \in {enable, FALSE} :
          /\ IF on = enable THEN NoFault ELSE Fails(1)
          /\ ram' = ImportAdjData(ram, foreign, known, on, wrongSnr).ram
          /\ foreign' = ImportAdjData(ram, foreign, known, on, wrongSnr).foreign
          /\ kept' = kept \cup Retaken(ImportAdjData(ram, foreign, known, on, wrongSnr))
    BY <1>3, Zenon DEF AdjFlashRead
  <2>2. on \in BOOLEAN /\ flash # Bad
    BY <1>0, <1>3, <2>1, Zenon DEF FlagTypes, AdjFlashRead, Comparable
  <2>3. ram' \in [Parts -> Data] /\ foreign' \subseteq Board
    BY <1>0, <2>1, <2>2, ImportType, Zenon DEF FlagTypes, DataTypes
  <2>7. kept' \subseteq Board
    <3>1. ImportAdjData(ram, foreign, known, on, wrongSnr).taken \subseteq Board
      BY <1>0, <2>2, ImportType, Zenon DEF FlagTypes, DataTypes
    <3>2. Retaken(ImportAdjData(ram, foreign, known, on, wrongSnr)) \subseteq Board
      BY <3>1 DEF Retaken
    <3> QED
      BY <1>0, <2>1, <3>2 DEF DataTypes
  <2>4. NoFault \/ Fails(1)
    BY <2>1, Zenon
  <2>5. faults' \in 0..MaxFaults
    BY <1>0, <2>4, FailsType DEF DataTypes, NoFault
  <2>6. UNCHANGED <<board, clamp, identity, edits>>
    BY <1>3 DEF AdjFlashRead
  <2> QED
    BY <1>0, <2>3, <2>5, <2>6, <2>7, DataKept DEF DataTypes
<1>4. CASE AdjFlashWrite
  <2>1. ram' = ram /\ ram \in [Parts -> Data] /\ foreign \subseteq Board
    BY <1>0, <1>4 DEF AdjFlashWrite, DataTypes
  <2>2. /\ flash' \in Image \cup {Bad} /\ stored' \in StoredBoard \cup {None}
        /\ foreign' \subseteq Board /\ kept' \subseteq Board /\ faults' \in 0..MaxFaults
    BY <1>4, <2>1, ExportType DEF AdjFlashWrite
  <2>3. UNCHANGED <<clamp, identity, edits>>
    BY <1>4 DEF AdjFlashWrite
  <2> QED
    BY <1>0, <2>1, <2>2, <2>3 DEF DataTypes, clamp, identity
<1>5. CASE AdjXmlImport
  <2>1. PICK s \in SUBSET Board, d \in Docs :
          \/ /\ NoFault
             /\ ram' = Read(ram, s, d) /\ foreign' = foreign \ s /\ kept' = kept \ s
             /\ UNCHANGED board
          \/ /\ ram' = ComputeSenseAdjData(Read(ram, s, d))
             /\ ExportAdjFlash(StoredForm(Read(ram, s, d)), foreign \ s)
    BY <1>5 DEF AdjXmlImport
  <2>2. /\ Read(ram, s, d) \in [Parts -> Data]
        /\ ComputeSenseAdjData(Read(ram, s, d)) \in [Parts -> Data]
        /\ foreign \ s \subseteq Board
    BY <1>0, ReadType, ComputeAllType DEF DataTypes
  <2>3. UNCHANGED <<clamp, identity>> /\ edits' \in 0..MaxEdits
    BY <1>0, <1>5, EditType DEF AdjXmlImport, DataTypes
  <2>4. /\ ram' \in [Parts -> Data] /\ flash' \in Image \cup {Bad}
        /\ stored' \in StoredBoard \cup {None}
        /\ foreign' \subseteq Board /\ kept' \subseteq Board /\ faults' \in 0..MaxFaults
    <3>1. CASE /\ NoFault /\ ram' = Read(ram, s, d)
               /\ foreign' = foreign \ s /\ kept' = kept \ s /\ UNCHANGED board
      BY <1>0, <2>2, <3>1 DEF NoFault, board, DataTypes
    <3>2. CASE /\ ram' = ComputeSenseAdjData(Read(ram, s, d))
               /\ ExportAdjFlash(StoredForm(Read(ram, s, d)), foreign \ s)
      BY <2>2, <3>2, ExportType DEF StoredForm
    <3> QED
      BY <2>1, <3>1, <3>2
  <2> QED
    BY <1>0, <2>3, <2>4 DEF DataTypes, clamp, identity
<1>6. CASE AdjXMLRead
  <2>1. ram' \in [Parts -> Data] /\ foreign' \subseteq Board /\ kept' \subseteq Board
    BY <1>0, <1>6, ReadType DEF AdjXMLRead, DataTypes
  <2>2. UNCHANGED <<board, clamp, identity, faults>> /\ edits' \in 0..MaxEdits
    BY <1>0, <1>6, EditType DEF AdjXMLRead, NoFault, DataTypes
  <2> QED
    BY <1>0, <2>1, <2>2, DataKept DEF DataTypes
<1>7. CASE WriteSerialNumber \/ WritePCBVersion
  <2>1. PICK new \in SUBSET Identity : WriteIdentity(new)
    <3>1. {[id EXCEPT !.serial = s] : s \in Serials} \in SUBSET Identity
      BY <1>0 DEF DataTypes, Identity
    <3>2. {[id EXCEPT !.pcb = v] : v \in Pcbs} \in SUBSET Identity
      BY <1>0 DEF DataTypes, Identity
    <3> QED
      BY <1>7, <3>1, <3>2 DEF WriteSerialNumber, WritePCBVersion
  <2>2. id' \in Identity
    BY <1>0, <2>1 DEF WriteIdentity, DataTypes
  <2>3. GetSystemInfo(0) \/ GetSystemInfo(1)
    BY <2>1 DEF WriteIdentity
  <2>4. known' \in Strings /\ faults' \in 0..MaxFaults
    BY <1>0, <2>2, <2>3, SystemInfoType
  <2>5. UNCHANGED <<data, board, clamp>> /\ edits' \in 0..MaxEdits
    BY <1>0, <2>1, EditType DEF WriteIdentity, DataTypes
  <2> QED
    BY <1>0, <2>2, <2>4, <2>5 DEF DataTypes, data, board, clamp
<1>8. CASE PlugClamp \/ UnplugClamp
  <2>1. NoGuestData \in [Parts -> Data]
    BY <1>0, DefaultType DEF NoGuestData, DataTypes
  <2>2. clampFlash # Bad => GuestData \in [Parts -> Data]
    BY <1>0 DEF GuestData, DataTypes
  <2>3. ram' \in [Parts -> Data] /\ faults' \in 0..MaxFaults
    BY <1>0, <1>8, <2>1, <2>2, FailsType DEF PlugClamp, UnplugClamp, NoFault, DataTypes
  <2>4. UNCHANGED <<foreign, kept, board, clampFlash, clampStored, identity, edits>>
    BY <1>8 DEF PlugClamp, UnplugClamp
  <2> QED
    BY <1>0, <2>3, <2>4 DEF DataTypes, board, identity
<1>9. CASE WriteClampFlash
  <2>1. ram' \in [Parts -> Data] /\ UNCHANGED <<data, board, identity, edits>>
    BY <1>0, <1>9 DEF WriteClampFlash, data, DataTypes
  <2>2. /\ clampFlash' \in [Guests -> Data] \cup {Bad}
        /\ clampStored' \in [Guests -> Data] \cup {None} /\ faults' \in 0..MaxFaults
    BY <1>0, <1>9, <2>1, ExportClampType DEF WriteClampFlash, DataTypes
  <2> QED
    BY <1>0, <2>1, <2>2 DEF DataTypes, data, board, identity
<1>10. CASE ImportClamp
  <2>1. PICK s \in SUBSET Guests, d \in Docs :
          /\ ram' = ImportComputes(ReadClamp(s, d))
          /\ ExportClampFlash(ClampForm(ReadClamp(s, d)))
    BY <1>10 DEF ImportClamp
  <2>2. ImportComputes(ReadClamp(s, d)) \in [Parts -> Data]
    BY <1>0, ReadType, ComputeAllType DEF ImportComputes, ReadClamp, DataTypes
  <2>3. /\ clampFlash' \in [Guests -> Data] \cup {Bad}
        /\ clampStored' \in [Guests -> Data] \cup {None} /\ faults' \in 0..MaxFaults
    BY <2>1, <2>2, ExportClampType DEF ClampForm
  <2>4. UNCHANGED <<foreign, kept, board, identity>> /\ edits' \in 0..MaxEdits
    BY <1>0, <1>10, EditType DEF ImportClamp, DataTypes
  <2> QED
    BY <1>0, <2>1, <2>2, <2>3, <2>4 DEF DataTypes, board, identity
<1>11. CASE Restart
  <2>1. id' \in Identity
    BY <1>0, <1>11 DEF Restart, DataTypes, Identity
  <2>2. PICK lost \in SUBSET Fields, readable \in BOOLEAN :
          /\ Fails(Cardinality(lost) + IF readable THEN 0 ELSE 1)
          /\ known' = StartStrings(id', lost)
          /\ ram' = Found(known', readable).ram
          /\ foreign' = Found(known', readable).foreign
          /\ kept' = Retaken(Found(known', readable))
    BY <1>0, <1>11, StringsType, Zenon DEF Restart, DataTypes
  <2>3. known' \in Strings
    BY <2>1, <2>2, StartStringsType
  <2>4. faults' \in 0..MaxFaults
    BY <1>0, <2>2, LostCount, FailsType DEF DataTypes
  <2>5. ram' \in [Parts -> Data] /\ foreign' \subseteq Board
    BY <1>0, <2>2, FoundType, Zenon DEF FlagTypes, DataTypes
  <2>7. kept' \subseteq Board
    <3>1. Found(known', readable).taken \subseteq Board
      BY <1>0, FoundType, Zenon DEF FlagTypes, DataTypes
    <3> QED
      BY <2>2, <3>1 DEF Retaken
  <2>6. UNCHANGED <<board, clampFlash, clampStored, edits>>
    BY <1>11 DEF Restart
  <2> QED
    BY <1>0, <2>1, <2>3, <2>4, <2>5, <2>6, <2>7 DEF DataTypes, board
<1>12. CASE SetSwitch
  BY <1>0, <1>12, DataKept DEF SetSwitch, data, DataTypes
<1>13. CASE UNCHANGED vars
  BY <1>0, <1>13, DataKept DEF vars, data, DataTypes
<1> QED
  BY <1>1, <1>2, <1>3, <1>4, <1>5, <1>6, <1>7, <1>8, <1>9, <1>10, <1>11, <1>12, <1>13, Zenon
     DEF Next

\* The first start has types.
LEMMA InitTypes == Init => TypeOK
<1> SUFFICES ASSUME Init PROVE TypeOK
  OBVIOUS
<1>1. flash \in Image \cup {Bad}
  <2>1. CASE flash # Bad
    <3>1. flash \in [of: Identity, data: UNION {[S -> Docs] : S \in SUBSET Board}]
      BY <2>1 DEF Init
    <3>2. PICK S \in SUBSET Board : flash.data \in [S -> Docs]
      BY <3>1
    <3>3. flash.data \in [S -> Data]
      BY <3>2, AdjustmentAssumption DEF AdjustmentAssumption
    <3>4. flash.of \in Strings /\ flash = [of |-> flash.of, data |-> flash.data]
      BY <3>1, StringsType
    <3> QED
      BY <3>3, <3>4 DEF Image
  <2> QED
    BY <2>1
<1>2. clampFlash \in [Guests -> Data] \cup {Bad}
  BY AdjustmentAssumption DEF Init, AdjustmentAssumption
<1>3. /\ id \in Identity /\ known \in Strings
      /\ stored \in StoredBoard \cup {None}
      /\ clampStored \in [Guests -> Data] \cup {None} /\ kept \subseteq Board
      /\ edits \in 0..MaxEdits /\ faults \in 0..MaxFaults
  BY StringsType, AdjustmentAssumption DEF Init, AdjustmentAssumption
<1>4. enable \in BOOLEAN /\ lent \in BOOLEAN
  BY Zenon DEF Init
<1>5. /\ ram = Found(id, TRUE).ram /\ foreign = Found(id, TRUE).foreign
      /\ wrongVers = Found(id, TRUE).wrongVers /\ wrongSnr = Found(id, TRUE).wrongSnr
  BY Zenon DEF Init
<1>6. /\ ram \in [Parts -> Data] /\ foreign \subseteq Board
      /\ wrongVers \in BOOLEAN /\ wrongSnr \in BOOLEAN
  BY <1>1, <1>2, <1>4, <1>5, FoundType, Zenon
<1>7. FlagTypes
  BY <1>4, <1>6, Zenon DEF FlagTypes
<1>8. DataTypes
  BY <1>1, <1>2, <1>3, <1>6 DEF DataTypes
<1> QED
  BY <1>7, <1>8, TypeParts

\* Every variable keeps its type.
THEOREM TypeCorrect == Spec => []TypeOK
<1>1. TypeOK /\ [Next]_vars => TypeOK'
  BY DataStep, FlagsStep, TypePartsNext
<1> QED
  BY <1>1, InitTypes, PTL DEF Spec

-----------------------------------------------------------------------------
(***************************************************************************)
(* The board does not call itself adjusted by another board's data.  What  *)
(* holds it back is one of the flags.  A read clears both only if flash    *)
(* and board fit, and then it replaces all data that are foreign: they     *)
(* came from this flash, and a flash that is written instead would have    *)
(* made them the board's own or, if it failed, has all ranges.             *)
(***************************************************************************)

ForeignIsFlagged ==
  /\ foreign # {} => wrongVers \/ wrongSnr
  /\ flash # Bad => foreign \subseteq DOMAIN flash.data

\* An import establishes both parts.
LEMMA ImportFlags ==
  ASSUME NEW r, NEW f, f \subseteq DOMAIN flash.data,
         NEW k, NEW on \in BOOLEAN, NEW flag \in BOOLEAN
  PROVE  /\ ImportAdjData(r, f, k, on, flag).foreign \subseteq DOMAIN flash.data
         /\ \/ ImportAdjData(r, f, k, on, flag).foreign = {}
            \/ ImportAdjData(r, f, k, on, flag).wrongVers
            \/ ImportAdjData(r, f, k, on, flag).wrongSnr
<1> DEFINE found == ImportAdjData(r, f, k, on, flag)
           taken == IF Taken(k, on) THEN DOMAIN flash.data ELSE {}
           v == SameVersion(flash.of, k)
           s == flash.of.serial = k.serial
<1>1. found.foreign = IF v /\ s THEN f \ taken ELSE f \cup taken
  BY DEF ImportAdjData
<1>2. found.wrongVers = ~v
  BY Zenon DEF ImportAdjData, WrongVers
<1>3. found.wrongSnr = IF ~v /\ ~on THEN flag ELSE ~s
  BY Zenon DEF ImportAdjData
<1>4. v /\ s => taken = DOMAIN flash.data
  BY DEF Taken
<1>5. taken \subseteq DOMAIN flash.data
  OBVIOUS
<1>6. found.foreign \subseteq DOMAIN flash.data
  <2> HIDE DEF found, taken, v, s
  <2> QED
    BY <1>1, <1>5
<1>7. v /\ s => found.foreign = {}
  <2> HIDE DEF found, taken, v, s
  <2> QED
    BY <1>1, <1>4
<1>8. ~v => found.wrongVers
  BY <1>2, Zenon
<1>9. v /\ ~s => found.wrongSnr
  BY <1>3, Zenon
<1> QED
  BY <1>6, <1>7, <1>8, <1>9, Zenon

\* So does a start.
LEMMA FoundFlags ==
  ASSUME enable \in BOOLEAN, NEW k, NEW readable \in BOOLEAN
  PROVE  /\ flash # Bad => Found(k, readable).foreign \subseteq DOMAIN flash.data
         /\ \/ Found(k, readable).foreign = {}
            \/ Found(k, readable).wrongVers
            \/ Found(k, readable).wrongSnr
<1>1. CASE readable /\ Comparable(k)
  <2>1. Found(k, readable) = ImportAdjData(StartData, {}, k, enable, TRUE)
    BY <1>1 DEF Found
  <2>2. TRUE \in BOOLEAN /\ {} \subseteq DOMAIN flash.data
    OBVIOUS
  <2> QED
    BY <2>1, <2>2, ImportFlags, Zenon
<1>2. CASE ~(readable /\ Comparable(k))
  <2>1. Found(k, readable).foreign = {}
    BY <1>2 DEF Found
  <2> QED
    BY <2>1
<1> QED
  BY <1>1, <1>2

\* A store, which writes all board ranges, keeps both parts.
LEMMA ExportFlags ==
  ASSUME ForeignIsFlagged, foreign \subseteq Board, UNCHANGED flags,
         NEW r, NEW f, f \subseteq foreign, ExportAdjFlash(r, f)
  PROVE  ForeignIsFlagged'
<1> DEFINE image == [of |-> known, data |-> Exported(r)]
<1>1. DOMAIN image.data = Board
  BY DEF Exported, Restrict
<1>2. flash' \in {flash, image, Bad} /\ foreign' \subseteq f
  BY DEF ExportAdjFlash
<1>3. wrongVers' = wrongVers /\ wrongSnr' = wrongSnr
  BY DEF flags
<1>4. foreign' # {} => wrongVers \/ wrongSnr
  BY <1>2 DEF ForeignIsFlagged
<1>5. flash' # Bad => foreign' \subseteq DOMAIN flash'.data
  <2> HIDE DEF image
  <2> QED
    BY <1>1, <1>2 DEF ForeignIsFlagged
<1>6. foreign' # {} => wrongVers' \/ wrongSnr'
  BY <1>3, <1>4, Zenon
<1> QED
  BY <1>5, <1>6, Zenon DEF ForeignIsFlagged

\* An action with the same flags and flash, and no new foreign data.
LEMMA FlaggedKept ==
  ASSUME ForeignIsFlagged, UNCHANGED <<flags, flash>>, foreign' \subseteq foreign
  PROVE  ForeignIsFlagged'
<1>1. wrongVers' = wrongVers /\ wrongSnr' = wrongSnr /\ flash' = flash
  BY DEF flags
<1>2. flash' # Bad => foreign' \subseteq DOMAIN flash'.data
  BY <1>1 DEF ForeignIsFlagged
<1>3. foreign' # {} => foreign # {}
  OBVIOUS
<1>4. foreign' # {} => wrongVers' \/ wrongSnr'
  BY <1>1, <1>3, Zenon DEF ForeignIsFlagged
<1> QED
  BY <1>2, <1>4, Zenon DEF ForeignIsFlagged

\* A step keeps both parts.
LEMMA FlaggedStep ==
  ASSUME TypeOK, ForeignIsFlagged, [Next]_vars
  PROVE  ForeignIsFlagged'
<1>0. FlagTypes /\ DataTypes /\ foreign \subseteq Board
  BY TypeParts DEF DataTypes
<1>1. ASSUME NEW p \in Listed, WriteCurve(p) \/ ComputeRange(p) \/ InitRange(p)
      PROVE  ForeignIsFlagged'
  <2>1. UNCHANGED <<flags, flash>> /\ foreign' \subseteq foreign
    BY <1>1 DEF WriteCurve, ComputeRange, InitRange, Change, board
  <2> QED
    BY <2>1, FlaggedKept
<1>2. CASE ComputeAll \/ InitAll
  <2>1. UNCHANGED <<flags, flash>> /\ foreign' \subseteq foreign
    BY <1>2 DEF ComputeAll, InitAll, board
  <2> QED
    BY <2>1, FlaggedKept
<1>3. CASE AdjFlashRead
  <2>1. PICK on \in {enable, FALSE} :
          /\ foreign' = ImportAdjData(ram, foreign, known, on, wrongSnr).foreign
          /\ wrongVers' = ImportAdjData(ram, foreign, known, on, wrongSnr).wrongVers
          /\ wrongSnr' = ImportAdjData(ram, foreign, known, on, wrongSnr).wrongSnr
    BY <1>3, Zenon DEF AdjFlashRead
  <2>2. flash # Bad /\ flash' = flash
    BY <1>3 DEF AdjFlashRead, Comparable, board
  <2>3. on \in BOOLEAN /\ wrongSnr \in BOOLEAN
    BY <1>0, <2>1, Zenon DEF FlagTypes
  <2>4. foreign \subseteq DOMAIN flash.data
    BY <2>2 DEF ForeignIsFlagged
  <2>5. foreign' \subseteq DOMAIN flash.data /\ (foreign' = {} \/ wrongVers' \/ wrongSnr')
    BY <2>1, <2>3, <2>4, ImportFlags, Zenon
  <2>6. foreign' \subseteq DOMAIN flash'.data
    BY <2>2, <2>5
  <2> QED
    BY <2>5, <2>6, Zenon DEF ForeignIsFlagged
<1>4. CASE AdjFlashWrite
  BY <1>0, <1>4, ExportFlags DEF AdjFlashWrite
<1>5. CASE AdjXmlImport
  <2>1. UNCHANGED flags
    BY <1>5 DEF AdjXmlImport
  <2>2. PICK s \in SUBSET Board, d \in Docs :
          \/ foreign' = foreign \ s /\ UNCHANGED board
          \/ ExportAdjFlash(StoredForm(Read(ram, s, d)), foreign \ s)
    BY <1>5 DEF AdjXmlImport
  <2>3. CASE foreign' = foreign \ s /\ UNCHANGED board
    BY <2>1, <2>3, FlaggedKept DEF board
  <2>4. CASE ExportAdjFlash(StoredForm(Read(ram, s, d)), foreign \ s)
    BY <1>0, <2>1, <2>4, ExportFlags
  <2> QED
    BY <2>2, <2>3, <2>4
<1>6. CASE AdjXMLRead
  <2>1. UNCHANGED <<flags, flash>> /\ foreign' \subseteq foreign
    BY <1>6 DEF AdjXMLRead, board
  <2> QED
    BY <2>1, FlaggedKept
<1>7. CASE \/ WriteSerialNumber \/ WritePCBVersion
           \/ PlugClamp \/ UnplugClamp \/ WriteClampFlash \/ ImportClamp \/ SetSwitch
  <2>1. UNCHANGED <<flags, flash>> /\ foreign' \subseteq foreign
    BY <1>7 DEF WriteSerialNumber, WritePCBVersion, WriteIdentity, PlugClamp, UnplugClamp,
                WriteClampFlash, ImportClamp, SetSwitch, board, data
  <2> QED
    BY <2>1, FlaggedKept
<1>8. CASE Restart
  <2>1. PICK readable \in BOOLEAN :
          /\ foreign' = Found(known', readable).foreign
          /\ wrongVers' = Found(known', readable).wrongVers
          /\ wrongSnr' = Found(known', readable).wrongSnr
    BY <1>8, Zenon DEF Restart
  <2>2. flash' = flash
    BY <1>8 DEF Restart, board
  <2>3. /\ flash # Bad => foreign' \subseteq DOMAIN flash.data
        /\ foreign' = {} \/ wrongVers' \/ wrongSnr'
    BY <1>0, <2>1, FoundFlags, Zenon DEF FlagTypes
  <2>4. flash' # Bad => foreign' \subseteq DOMAIN flash'.data
    BY <2>2, <2>3
  <2> QED
    BY <2>3, <2>4, Zenon DEF ForeignIsFlagged
<1>9. CASE UNCHANGED vars
  <2>1. UNCHANGED <<flags, flash>> /\ foreign' \subseteq foreign
    BY <1>9 DEF vars, board, data
  <2> QED
    BY <2>1, FlaggedKept
<1> QED
  BY <1>1, <1>2, <1>3, <1>4, <1>5, <1>6, <1>7, <1>8, <1>9, Zenon DEF Next

\* The board is adjusted only if no range holds data of another identity.
THEOREM AdjustedIsEarnedAlways == Spec => []AdjustedIsEarned
<1>1. Init => ForeignIsFlagged
  <2> SUFFICES ASSUME Init PROVE ForeignIsFlagged
    OBVIOUS
  <2>1. /\ foreign = Found(id, TRUE).foreign
        /\ wrongVers = Found(id, TRUE).wrongVers /\ wrongSnr = Found(id, TRUE).wrongSnr
    BY Zenon DEF Init
  <2>2. enable \in BOOLEAN
    BY Zenon DEF Init
  <2> QED
    BY <2>1, <2>2, FoundFlags, Zenon DEF ForeignIsFlagged
<1>2. TypeOK /\ ForeignIsFlagged /\ [Next]_vars => ForeignIsFlagged'
  BY FlaggedStep
<1>3. ForeignIsFlagged => AdjustedIsEarned
  BY Zenon DEF ForeignIsFlagged, AdjustedIsEarned, Adjusted
<1> QED
  BY <1>1, <1>2, <1>3, TypeCorrect, PTL DEF Spec

-----------------------------------------------------------------------------
(***************************************************************************)
(* What was acknowledged is found.  As long as nothing else has been       *)
(* written, the flash holds what was promised, for the board it was        *)
(* promised for; a failed write withdraws the promise.                     *)
(***************************************************************************)

StoredIsInFlash ==
  stored # None =>
    /\ flash # Bad
    /\ flash.of \in Identity
    /\ flash.of.pcb = stored.pcb /\ flash.of.serial = stored.serial
    /\ flash.data = stored.data

\* A store makes it true if what it writes is what is in memory then.
LEMMA ExportStored ==
  ASSUME TypeOK, ram' \in [Parts -> Data], NEW r, r = ram', NEW f, ExportAdjFlash(r, f)
  PROVE  StoredIsInFlash'
<1> DEFINE image == [of |-> known, data |-> Exported(r)]
           promise == [pcb |-> id.pcb, serial |-> id.serial, data |-> Restrict(ram', Board)]
<1>1. CASE stored' = None
  BY <1>1 DEF StoredIsInFlash
<1>2. CASE stored' # None
  <2>1. flash' = image /\ stored' = promise /\ known = id
    BY <1>2 DEF ExportAdjFlash
  <2>2. image \in Image
    <3>1. Exported(r) \in [Board -> Data]
      BY RestrictType DEF Exported, Parts
    <3> QED
      BY <3>1 DEF Image, TypeOK
  <2>3. flash' # Bad
    <3> HIDE DEF image
    <3> QED
      BY <2>1, <2>2, AdjustmentAssumption DEF AdjustmentAssumption
  <2>4. flash'.of = id /\ id \in Identity
    BY <2>1 DEF TypeOK
  <2>5. flash'.of.pcb = stored'.pcb /\ flash'.of.serial = stored'.serial
    BY <2>1, <2>4
  <2>6. flash'.data = stored'.data
    BY <2>1 DEF Exported
  <2> QED
    BY <2>3, <2>4, <2>5, <2>6 DEF StoredIsInFlash
<1> QED
  BY <1>1, <1>2

\* A step keeps it.
LEMMA StoredStep ==
  ASSUME TypeOK, TypeOK', StoredIsInFlash, [Next]_vars
  PROVE  StoredIsInFlash'
<1>0. ram \in [Parts -> Data] /\ ram' \in [Parts -> Data]
  BY DEF TypeOK
<1>1. ASSUME UNCHANGED board
      PROVE  StoredIsInFlash'
  BY <1>1 DEF StoredIsInFlash, board
<1>2. ASSUME NEW p \in Listed, WriteCurve(p) \/ ComputeRange(p) \/ InitRange(p)
      PROVE  StoredIsInFlash'
  BY <1>1, <1>2 DEF WriteCurve, ComputeRange, InitRange, Change
<1>3. CASE AdjFlashWrite
  BY <1>0, <1>3, ExportStored DEF AdjFlashWrite
<1>4. CASE AdjXmlImport
  <2>1. PICK s \in SUBSET Board, d \in Docs :
          \/ UNCHANGED board
          \/ /\ ram' = ComputeSenseAdjData(Read(ram, s, d))
             /\ ExportAdjFlash(StoredForm(Read(ram, s, d)), foreign \ s)
    BY <1>4 DEF AdjXmlImport
  <2>2. CASE /\ ram' = ComputeSenseAdjData(Read(ram, s, d))
             /\ ExportAdjFlash(StoredForm(Read(ram, s, d)), foreign \ s)
    BY <1>0, <2>2, ExportStored DEF StoredForm
  <2> QED
    BY <1>1, <2>1, <2>2
<1>5. CASE \/ ComputeAll \/ InitAll \/ AdjFlashRead \/ AdjXMLRead
           \/ WriteSerialNumber \/ WritePCBVersion
           \/ PlugClamp \/ UnplugClamp \/ WriteClampFlash \/ ImportClamp
           \/ Restart \/ SetSwitch
  BY <1>1, <1>5 DEF ComputeAll, InitAll, AdjFlashRead, AdjXMLRead, WriteSerialNumber,
                    WritePCBVersion, WriteIdentity, PlugClamp, UnplugClamp,
                    WriteClampFlash, ImportClamp, Restart, SetSwitch
<1>6. CASE UNCHANGED vars
  BY <1>1, <1>6 DEF vars
<1> QED
  BY <1>2, <1>3, <1>4, <1>5, <1>6 DEF Next

\* A start that reads everything knows the identity.
LEMMA CleanStart ==
  ASSUME TypeOK, Restart, UNCHANGED faults
  PROVE  /\ id' \in Identity /\ known' = id'
         /\ ram' = Found(id', TRUE).ram
         /\ wrongVers' = Found(id', TRUE).wrongVers
         /\ wrongSnr' = Found(id', TRUE).wrongSnr
<1>1. id' \in Identity
  BY DEF Restart, TypeOK, Identity
<1>2. PICK lost \in SUBSET Fields, readable \in BOOLEAN :
        /\ Fails(Cardinality(lost) + IF readable THEN 0 ELSE 1)
        /\ known' = StartStrings(id', lost)
        /\ ram' = Found(known', readable).ram
        /\ wrongVers' = Found(known', readable).wrongVers
        /\ wrongSnr' = Found(known', readable).wrongSnr
  <2>1. DOMAIN id = Fields
    BY StringsType DEF TypeOK
  <2> QED
    BY <2>1, Zenon DEF Restart
<1>3. Cardinality(lost) \in Nat /\ faults \in Nat
  BY LostCount DEF TypeOK
<1>4. faults = faults + (Cardinality(lost) + IF readable THEN 0 ELSE 1)
  BY <1>2 DEF Fails
<1>5. Cardinality(lost) = 0 /\ readable
  BY <1>3, <1>4
<1>6. lost = {}
  BY <1>5, LostCount
<1>7. known' = id'
  <2>1. PICK i : i = id' /\ i \in Identity
    BY <1>1
  <2>2. known' = [f \in Fields |-> i[f]]
    BY <1>2, <1>6, <2>1, StringsType DEF StartStrings
  <2>3. i = [f \in Fields |-> i[f]]
    BY <2>1 DEF Identity, Fields
  <2> QED
    BY <2>1, <2>2, <2>3
<1>8. readable = TRUE
  BY <1>5, Zenon
<1> QED
  BY <1>1, <1>2, <1>7, <1>8, Zenon

\* The next clean start finds what was stored and acknowledged.
THEOREM AckedIsFoundAlways == Spec => AckedIsFound
<1>1. Init => StoredIsInFlash
  BY DEF Init, StoredIsInFlash
<1>2. TypeOK /\ TypeOK' /\ StoredIsInFlash /\ [Next]_vars => StoredIsInFlash'
  BY StoredStep
<1>3. ASSUME TypeOK, StoredIsInFlash, Restart, UNCHANGED faults, stored # None,
             stored.pcb = id'.pcb, stored.serial = id'.serial
      PROVE  /\ \A p \in Board : ram'[p] = stored.data[p]
             /\ ~wrongVers' /\ ~wrongSnr'
  <2>1. PICK i : i = id' /\ i \in Identity
    BY <1>3, CleanStart
  <2>2. /\ ram' = Found(i, TRUE).ram
        /\ wrongVers' = Found(i, TRUE).wrongVers /\ wrongSnr' = Found(i, TRUE).wrongSnr
    BY <1>3, <2>1, CleanStart, Zenon
  <2>3. /\ flash # Bad /\ flash.of \in Identity
        /\ flash.of.pcb = i.pcb /\ flash.of.serial = i.serial
        /\ flash.data = stored.data
    BY <1>3, <2>1 DEF StoredIsInFlash
  <2>4. SameVersion(flash.of, i) /\ flash.of.name = i.name
    BY <2>1, <2>3, AdjustmentAssumption DEF SameVersion, Identity, AdjustmentAssumption
  <2>5. Found(i, TRUE) = ImportAdjData(StartData, {}, i, enable, TRUE)
    BY <2>3, <2>4 DEF Found, Comparable
  <2>6. Taken(i, enable)
    BY <2>3, <2>4, Zenon DEF Taken
  <2>7. stored.data \in [Board -> Data]
    BY <1>3 DEF TypeOK
  <2>8. ram' = [p \in Parts |-> IF p \in Board THEN stored.data[p] ELSE StartData[p]]
    <3>1. ImportAdjData(StartData, {}, i, enable, TRUE).ram =
            [p \in Parts |-> IF p \in (IF Taken(i, enable) THEN DOMAIN flash.data ELSE {})
                             THEN flash.data[p] ELSE StartData[p]]
      BY DEF ImportAdjData
    <3>2. DOMAIN flash.data = Board
      BY <2>3, <2>7
    <3>3. ram' = ImportAdjData(StartData, {}, i, enable, TRUE).ram
      BY <2>2, <2>5
    <3> QED
      BY <2>3, <2>6, <3>1, <3>2, <3>3
  <2>9. \A p \in Board : ram'[p] = stored.data[p]
    BY <2>8 DEF Parts
  <2>10. ~wrongVers'
    <3>1. ImportAdjData(StartData, {}, i, enable, TRUE).wrongVers = ~SameVersion(flash.of, i)
      BY Zenon DEF ImportAdjData, WrongVers
    <3> QED
      BY <2>2, <2>4, <2>5, <3>1, Zenon
  <2>11. ~wrongSnr'
    <3>1. ImportAdjData(StartData, {}, i, enable, TRUE).wrongSnr =
            IF ~SameVersion(flash.of, i) /\ ~enable THEN TRUE
            ELSE ~(flash.of.serial = i.serial)
      BY Zenon DEF ImportAdjData
    <3> QED
      BY <2>2, <2>3, <2>4, <2>5, <3>1, Zenon
  <2> QED
    BY <2>9, <2>10, <2>11
<1>4. TypeOK /\ StoredIsInFlash =>
        [/\ stored # None /\ UNCHANGED faults
         /\ stored.pcb = id'.pcb /\ stored.serial = id'.serial
         /\ Restart
         =>
             /\ \A p \in Board : ram'[p] = stored.data[p]
             /\ ~wrongVers' /\ ~wrongSnr']_vars
  BY <1>3, Zenon
<1> QED
  BY <1>1, <1>2, <1>4, TypeCorrect, PTL DEF Spec, AckedIsFound

-----------------------------------------------------------------------------
(***************************************************************************)
(* The same for the clamp, whose flash is read without any comparison.     *)
(***************************************************************************)

ClampStoredIsInFlash == clampStored # None => clampFlash = clampStored

\* Programming a clamp makes it true.
LEMMA ExportClampStored ==
  ASSUME NEW r, r = ram', ExportClampFlash(r)
  PROVE  ClampStoredIsInFlash'
  BY DEF ExportClampFlash, ClampStoredIsInFlash

\* A step keeps it.
LEMMA ClampStoredStep ==
  ASSUME ClampStoredIsInFlash, [Next]_vars
  PROVE  ClampStoredIsInFlash'
<1>1. ASSUME UNCHANGED <<clampFlash, clampStored>>
      PROVE  ClampStoredIsInFlash'
  BY <1>1 DEF ClampStoredIsInFlash
<1>2. ASSUME NEW p \in Listed, WriteCurve(p) \/ ComputeRange(p) \/ InitRange(p)
      PROVE  ClampStoredIsInFlash'
  BY <1>1, <1>2 DEF WriteCurve, ComputeRange, InitRange, Change, clamp
<1>3. CASE WriteClampFlash
  BY <1>3, ExportClampStored DEF WriteClampFlash, data
<1>4. CASE ImportClamp
  BY <1>4, ExportClampStored DEF ImportClamp, ClampForm
<1>5. CASE \/ ComputeAll \/ InitAll \/ AdjFlashRead \/ AdjFlashWrite
           \/ AdjXmlImport \/ AdjXMLRead
           \/ WriteSerialNumber \/ WritePCBVersion
           \/ PlugClamp \/ UnplugClamp \/ Restart \/ SetSwitch
  BY <1>1, <1>5 DEF ComputeAll, InitAll, AdjFlashRead, AdjFlashWrite, AdjXmlImport, AdjXMLRead,
                    WriteSerialNumber, WritePCBVersion, WriteIdentity, PlugClamp, UnplugClamp,
                    Restart, SetSwitch, clamp
<1>6. CASE UNCHANGED vars
  BY <1>1, <1>6 DEF vars, clamp
<1> QED
  BY <1>2, <1>3, <1>4, <1>5, <1>6 DEF Next

\* A clamp that is plugged again brings what was stored and acknowledged.
THEOREM AckedIsPluggedAlways == Spec => AckedIsPlugged
<1>1. Init => ClampStoredIsInFlash
  BY DEF Init, ClampStoredIsInFlash
<1>2. ClampStoredIsInFlash /\ [Next]_vars => ClampStoredIsInFlash'
  BY ClampStoredStep
<1>3. ASSUME TypeOK, ClampStoredIsInFlash, PlugClamp, UNCHANGED faults, clampStored # None
      PROVE  \A p \in Guests : ram'[p] = clampStored[p]
  <2>1. faults' # faults + 1
    BY <1>3 DEF TypeOK
  <2>2. ram' = GuestData
    BY <1>3, <2>1 DEF PlugClamp, Fails
  <2> QED
    BY <1>3, <2>2 DEF GuestData, ClampStoredIsInFlash, Parts
<1>4. TypeOK /\ ClampStoredIsInFlash =>
        [clampStored # None /\ UNCHANGED faults /\ PlugClamp =>
           \A p \in Guests : ram'[p] = clampStored[p]]_vars
  BY <1>3, Zenon
<1> QED
  BY <1>1, <1>2, <1>4, TypeCorrect, PTL DEF Spec, AckedIsPlugged

-----------------------------------------------------------------------------
(***************************************************************************)
(* What was acknowledged is used.  A range is kept only as long as there   *)
(* is a promise; a read brings back what the flash holds, which is what    *)
(* was promised; and whatever else reaches the ranges of the board without *)
(* a command for them computes their polynomials, which a second time      *)
(* changes nothing.                                                        *)
(***************************************************************************)

KeptIsStored == kept # {} => stored # None

\* A polynomial that is computed again stays.
LEMMA ComputedTwice == \A d \in Data : Computed(Computed(d)) = Computed(d)
  BY DEF Computed, Data

\* The ranges of the board are listed, and none of them is the clamp's.
LEMMA BoardParts == Board \subseteq Listed /\ Board \subseteq Parts /\ Board \cap Guests = {}
  BY AdjustmentAssumption DEF Listed, Parts, AdjustmentAssumption

\* A step that at most computes the ranges that stay kept.
LEMMA UsedKept ==
  ASSUME TypeOK, KeptIsStored, AckedIsUsed,
         stored' = stored, kept' \subseteq kept,
         \A p \in kept' : ram'[p] \in {ram[p], Computed(ram[p])}
  PROVE  KeptIsStored' /\ AckedIsUsed'
<1>1. KeptIsStored'
  BY DEF KeptIsStored
<1>2. ASSUME NEW p \in kept'
      PROVE  ram'[p] \in {stored.data[p], Computed(stored.data[p])}
  <2>1. ram[p] \in {stored.data[p], Computed(stored.data[p])}
    BY <1>2 DEF AckedIsUsed
  <2>2. stored.data[p] \in Data
    BY <1>2 DEF KeptIsStored, TypeOK
  <2>3. PICK d : d = stored.data[p] /\ Computed(Computed(d)) = Computed(d)
    BY <2>2, ComputedTwice
  <2>4. ram'[p] \in {ram[p], Computed(ram[p])}
    BY <1>2
  <2>5. ram[p] \in {d, Computed(d)}
    BY <2>1, <2>3
  <2>6. ram'[p] \in {d, Computed(d)}
    BY ONLY <2>3, <2>4, <2>5
  <2> QED
    BY <2>3, <2>6
<1> QED
  BY <1>1, <1>2 DEF AckedIsUsed

\* A store keeps all ranges of the board or none.
LEMMA ExportUsed ==
  ASSUME TypeOK, ram' \in [Parts -> Data], NEW r, NEW f, ExportAdjFlash(r, f)
  PROVE  KeptIsStored' /\ AckedIsUsed'
<1>1. CASE kept' = {}
  BY <1>1 DEF KeptIsStored, AckedIsUsed
<1>2. CASE kept' # {}
  <2>1. /\ stored' = [pcb |-> id.pcb, serial |-> id.serial, data |-> Restrict(ram', Board)]
        /\ kept' = Board
    BY <1>2 DEF ExportAdjFlash
  <2>2. Restrict(ram', Board) \in [Board -> Data]
    BY RestrictType DEF Parts
  <2>3. stored' # None
    BY <2>1, <2>2, AdjustmentAssumption DEF TypeOK, Identity, AdjustmentAssumption
  <2>4. \A p \in kept' : stored'.data[p] = ram'[p]
    BY <2>1 DEF Restrict
  <2> QED
    BY <2>3, <2>4 DEF KeptIsStored, AckedIsUsed
<1> QED
  BY <1>1, <1>2

\* An import leaves a range as the flash says or as it was.
LEMMA ImportTakes ==
  ASSUME NEW r, NEW f, NEW k, NEW on, NEW flag, NEW p \in Parts
  PROVE  ImportAdjData(r, f, k, on, flag).ram[p] =
           IF p \in ImportAdjData(r, f, k, on, flag).taken THEN flash.data[p] ELSE r[p]
<1> DEFINE taken == IF Taken(k, on) THEN DOMAIN flash.data ELSE {}
<1>1. ImportAdjData(r, f, k, on, flag).ram =
        [q \in Parts |-> IF q \in taken THEN flash.data[q] ELSE r[q]]
  BY DEF ImportAdjData
<1>2. ImportAdjData(r, f, k, on, flag).taken = taken
  BY DEF ImportAdjData
<1> HIDE DEF taken
<1> QED
  BY <1>1, <1>2

\* A read of the flash brings back what was stored.
LEMMA ReadUsed ==
  ASSUME TypeOK, StoredIsInFlash, KeptIsStored, AckedIsUsed, AdjFlashRead
  PROVE  KeptIsStored' /\ AckedIsUsed'
<1>1. PICK on \in {enable, FALSE} :
        /\ ram' = ImportAdjData(ram, foreign, known, on, wrongSnr).ram
        /\ kept' = kept \cup Retaken(ImportAdjData(ram, foreign, known, on, wrongSnr))
  BY Zenon DEF AdjFlashRead
<1>2. stored' = stored /\ kept \subseteq Board
  BY DEF AdjFlashRead, board, TypeOK
<1>3. PICK taken : taken = ImportAdjData(ram, foreign, known, on, wrongSnr).taken
  OBVIOUS
<1>4. \A p \in Board : ram'[p] = IF p \in taken THEN flash.data[p] ELSE ram[p]
  <2>1. ASSUME NEW p \in Board
        PROVE  ram'[p] = IF p \in taken THEN flash.data[p] ELSE ram[p]
    <3>1. p \in Parts
      BY BoardParts
    <3>2. ImportAdjData(ram, foreign, known, on, wrongSnr).ram[p] =
            IF p \in ImportAdjData(ram, foreign, known, on, wrongSnr).taken
            THEN flash.data[p] ELSE ram[p]
      BY ONLY <3>1, ImportTakes
    <3> QED
      BY ONLY <1>1, <1>3, <3>2, Zenon
  <2> QED
    BY <2>1
<1>5. kept' = kept \cup IF stored = None THEN {} ELSE taken
  BY ONLY <1>1, <1>3, Zenon DEF Retaken
<1>6. CASE stored = None
  BY <1>2, <1>5, <1>6 DEF KeptIsStored, AckedIsUsed
<1>7. CASE stored # None
  <2>1. flash.data = stored.data /\ taken \subseteq DOMAIN flash.data
    BY <1>3, <1>7 DEF StoredIsInFlash, ImportAdjData
  <2>2. kept' \subseteq Board
    <3>1. DOMAIN stored.data = Board
      BY <1>7 DEF TypeOK
    <3> QED
      BY <1>2, <1>5, <2>1, <3>1
  <2>3. \A p \in kept' : ram'[p] = stored.data[p] \/ (p \in kept /\ ram'[p] = ram[p])
    BY <1>4, <1>5, <1>7, <2>1, <2>2
  <2>4. AckedIsUsed'
    BY <1>2, <2>3 DEF AckedIsUsed
  <2> QED
    BY <1>2, <1>7, <2>4 DEF KeptIsStored
<1> QED
  BY <1>6, <1>7

\* A start keeps what it finds in the flash.
LEMMA StartUsed ==
  ASSUME TypeOK, StoredIsInFlash, Restart
  PROVE  KeptIsStored' /\ AckedIsUsed'
<1>0. PICK readable \in BOOLEAN :
        ram' = Found(known', readable).ram /\ kept' = Retaken(Found(known', readable))
  BY Zenon DEF Restart
<1>1. PICK k : ram' = Found(k, readable).ram /\ kept' = Retaken(Found(k, readable))
  <2>1. PICK k : k = known'
    OBVIOUS
  <2>2. ram' = Found(k, readable).ram /\ kept' = Retaken(Found(k, readable))
    BY ONLY <1>0, <2>1
  <2> QED
    BY <2>2
<1>2. stored' = stored
  BY DEF Restart, board
<1>3. CASE stored = None
  BY <1>1, <1>3 DEF Retaken, KeptIsStored, AckedIsUsed
<1>4. CASE stored # None
  <2>1. kept' = Found(k, readable).taken
    BY <1>1, <1>4 DEF Retaken
  <2>2. flash.data = stored.data /\ DOMAIN stored.data = Board
    BY <1>4 DEF StoredIsInFlash, TypeOK
  <2>3. CASE readable /\ Comparable(k)
    <3>1. PICK f, flag :
            Found(k, readable) = ImportAdjData(StartData, f, k, enable, flag)
      <4>1. Found(k, readable) = ImportAdjData(StartData, {}, k, enable, TRUE)
        BY <2>3 DEF Found
      <4> QED
        BY ONLY <4>1, Zenon
    <3>2. kept' = ImportAdjData(StartData, f, k, enable, flag).taken
      BY <2>1, <3>1
    <3>3. ram' = ImportAdjData(StartData, f, k, enable, flag).ram
      BY <1>1, <3>1
    <3>4. kept' \subseteq Parts
      <4>1. kept' \subseteq DOMAIN flash.data
        BY <3>2 DEF ImportAdjData
      <4> QED
        BY <2>2, <4>1, BoardParts
    <3>5. ASSUME NEW p \in kept' PROVE ram'[p] = stored.data[p]
      <4>1. p \in Parts /\ p \in ImportAdjData(StartData, f, k, enable, flag).taken
        BY ONLY <3>2, <3>4, p \in kept'
      <4>2. ImportAdjData(StartData, f, k, enable, flag).ram[p] =
              IF p \in ImportAdjData(StartData, f, k, enable, flag).taken
              THEN flash.data[p] ELSE StartData[p]
        BY ONLY <4>1, ImportTakes
      <4>3. ram'[p] = flash.data[p]
        BY ONLY <3>3, <4>1, <4>2, Zenon
      <4> QED
        BY <2>2, <4>3
    <3> QED
      BY <1>2, <1>4, <3>5 DEF KeptIsStored, AckedIsUsed
  <2>4. CASE ~(readable /\ Comparable(k))
    <3>1. kept' = {}
      BY <2>1, <2>4 DEF Found
    <3> QED
      BY <3>1 DEF KeptIsStored, AckedIsUsed
  <2> QED
    BY <2>3, <2>4
<1> QED
  BY <1>3, <1>4

\* Every step keeps it.
LEMMA UsedStep ==
  ASSUME TypeOK, TypeOK', StoredIsInFlash, KeptIsStored, AckedIsUsed, [Next]_vars
  PROVE  KeptIsStored' /\ AckedIsUsed'
<1>0. /\ ram \in [Parts -> Data] /\ ram' \in [Parts -> Data]
      /\ kept \subseteq Board /\ Board \subseteq Listed /\ Board \subseteq Parts
      /\ Board \cap Guests = {}
  BY BoardParts DEF TypeOK
<1>1. ASSUME NEW p \in Listed, WriteCurve(p) \/ ComputeRange(p) \/ InitRange(p)
      PROVE  KeptIsStored' /\ AckedIsUsed'
  <2>1. stored' = stored /\ kept' \subseteq kept
    BY <1>1 DEF WriteCurve, ComputeRange, InitRange, Change, board
  <2>2. PICK d : ram' = [ram EXCEPT ![p] = d]
    BY <1>1 DEF WriteCurve, ComputeRange, InitRange, Change
  <2>3. CASE kept' = kept \ {p}
    <3>1. \A q \in kept' : ram'[q] = ram[q]
      BY <1>0, <2>2, <2>3
    <3> QED
      BY <2>1, <3>1, UsedKept
  <2>4. CASE ComputeRange(p)
    <3>1. ram' = [ram EXCEPT ![p] = Computed(ram[p])]
      BY <2>4 DEF ComputeRange, Change
    <3>2. \A q \in kept' : ram'[q] \in {ram[q], Computed(ram[q])}
      BY <1>0, <2>1, <3>1
    <3> QED
      BY <2>1, <3>2, UsedKept
  <2> QED
    BY <1>1, <2>3, <2>4 DEF WriteCurve, InitRange
<1>2. CASE ComputeAll
  <2>1. stored' = stored /\ kept' = kept /\ ram' = ComputeSenseAdjData(ram)
    BY <1>2 DEF ComputeAll, board
  <2>2. \A p \in kept' : ram'[p] = Computed(ram[p])
    BY <1>0, <2>1 DEF ComputeSenseAdjData
  <2> QED
    BY <2>1, <2>2, UsedKept
<1>3. CASE InitAll
  BY <1>3 DEF InitAll, KeptIsStored, AckedIsUsed
<1>4. CASE AdjFlashRead
  BY <1>4, ReadUsed
<1>5. CASE AdjFlashWrite
  BY <1>0, <1>5, ExportUsed DEF AdjFlashWrite
<1>6. CASE AdjXmlImport \/ AdjXMLRead
  <2>1. PICK s \in SUBSET Board, d \in Docs :
          \/ ram' = Read(ram, s, d) /\ kept' = kept \ s /\ stored' = stored
          \/ ExportAdjFlash(StoredForm(Read(ram, s, d)), foreign \ s)
    BY <1>6 DEF AdjXmlImport, AdjXMLRead, board
  <2>2. CASE ram' = Read(ram, s, d) /\ kept' = kept \ s /\ stored' = stored
    <3>1. \A p \in kept' : ram'[p] = ram[p]
      BY <1>0, <2>2 DEF Read
    <3> QED
      BY <2>2, <3>1, UsedKept
  <2>3. CASE ExportAdjFlash(StoredForm(Read(ram, s, d)), foreign \ s)
    BY <1>0, <2>3, ExportUsed
  <2> QED
    BY <2>1, <2>2, <2>3
<1>7. CASE WriteSerialNumber \/ WritePCBVersion \/ WriteClampFlash \/ SetSwitch
           \/ UNCHANGED vars
  <2>1. stored' = stored /\ kept' = kept /\ ram' = ram
    BY <1>7 DEF WriteSerialNumber, WritePCBVersion, WriteIdentity, WriteClampFlash, SetSwitch,
                vars, data, board
  <2> QED
    BY <2>1, UsedKept
<1>8. CASE PlugClamp \/ UnplugClamp
  <2>1. stored' = stored /\ kept' = kept /\ ram' \in {GuestData, NoGuestData}
    BY <1>8 DEF PlugClamp, UnplugClamp, board
  <2>2. \A p \in kept' : ram'[p] = ram[p]
    BY <1>0, <2>1 DEF GuestData, NoGuestData
  <2> QED
    BY <2>1, <2>2, UsedKept
<1>9. CASE ImportClamp
  <2>1. PICK s \in SUBSET Guests, d \in Docs : ram' = ImportComputes(ReadClamp(s, d))
    BY <1>9 DEF ImportClamp
  <2>2. stored' = stored /\ kept' = kept
    BY <1>9 DEF ImportClamp, board
  <2>3. ASSUME NEW p \in kept' PROVE ram'[p] = Computed(ram[p])
    <3>1. p \in Parts /\ p \notin s /\ p \in Listed
      BY <1>0, <2>2
    <3>2. ReadClamp(s, d)[p] = ram[p]
      BY <3>1 DEF ReadClamp, Read
    <3> QED
      BY <2>1, <3>1, <3>2 DEF ImportComputes, ComputeSenseAdjData
  <2> QED
    BY <2>2, <2>3, UsedKept
<1>10. CASE Restart
  BY <1>10, StartUsed
<1> QED
  BY <1>1, <1>2, <1>3, <1>4, <1>5, <1>6, <1>7, <1>8, <1>9, <1>10 DEF Next

\* What was acknowledged as stored is what the board works with, until a command for
\* the board changes it.
THEOREM AckedIsUsedAlways == Spec => []AckedIsUsed
<1>1. Init => StoredIsInFlash /\ KeptIsStored /\ AckedIsUsed
  BY DEF Init, StoredIsInFlash, KeptIsStored, AckedIsUsed
<1>2. TypeOK /\ TypeOK' /\ StoredIsInFlash /\ KeptIsStored /\ AckedIsUsed /\ [Next]_vars
        => StoredIsInFlash' /\ KeptIsStored' /\ AckedIsUsed'
  BY StoredStep, UsedStep
<1> QED
  BY <1>1, <1>2, TypeCorrect, PTL DEF Spec

-----------------------------------------------------------------------------
(***************************************************************************)
(* What may happen with the switch off.                                    *)
(***************************************************************************)

\* Data p of the board may have after a step that has not asked the switch.
OwnOrFlash(p) ==
  \/ ram'[p] \in {ram[p], Default, Computed(ram[p])}
  \/ /\ Comparable(known') /\ SameVersion(flash.of, known')
     /\ flash.of.serial = known'.serial
     /\ p \in DOMAIN flash.data /\ ram'[p] = flash.data[p]

\* An import with the switch off leaves data alone or takes those of a flash of
\* the same identity.
LEMMA ImportUnasked ==
  ASSUME NEW r, NEW f, NEW k, NEW on, ~on, NEW flag, NEW p \in Parts
  PROVE  \/ ImportAdjData(r, f, k, on, flag).ram[p] = r[p]
         \/ /\ SameVersion(flash.of, k) /\ flash.of.serial = k.serial
            /\ p \in DOMAIN flash.data
            /\ ImportAdjData(r, f, k, on, flag).ram[p] = flash.data[p]
<1>1. ImportAdjData(r, f, k, on, flag).ram =
        [q \in Parts |-> IF q \in (IF Taken(k, on) THEN DOMAIN flash.data ELSE {})
                         THEN flash.data[q] ELSE r[q]]
  BY DEF ImportAdjData
<1>2. Taken(k, on) => SameVersion(flash.of, k) /\ flash.of.serial = k.serial
  BY Zenon DEF Taken
<1> QED
  BY <1>1, <1>2

\* With the switch off a board's range keeps its own data, or gets initial ones,
\* or those of its own flash; and the flash stays.
THEOREM NothingNewWithoutSwitchAlways == Spec => NothingNewWithoutSwitch
<1>1. ASSUME TypeOK, [Next]_vars, ~enable
      PROVE  UNCHANGED flash /\ \A p \in Board : OwnOrFlash(p)
  <2>1. Board \subseteq Listed /\ Board \subseteq Parts /\ Board \cap Guests = {}
    BY AdjustmentAssumption DEF Listed, Parts, AdjustmentAssumption
  <2>2. ram \in [Parts -> Data]
    BY <1>1 DEF TypeOK
  <2>3. ASSUME UNCHANGED <<flash, ram>>
        PROVE  UNCHANGED flash /\ \A p \in Board : OwnOrFlash(p)
    BY <2>3 DEF OwnOrFlash
  <2>4. ASSUME NEW p \in Listed, WriteCurve(p) \/ ComputeRange(p) \/ InitRange(p)
        PROVE  FALSE
    BY <1>1, <2>4 DEF WriteCurve, ComputeRange, InitRange
  <2>5. ~(AdjFlashWrite \/ AdjXmlImport \/ AdjXMLRead \/ ImportClamp)
    BY <1>1 DEF AdjFlashWrite, AdjXmlImport, AdjXMLRead, ImportClamp
  <2>6. CASE ComputeAll \/ InitAll
    <3>1. UNCHANGED flash
      BY <2>6 DEF ComputeAll, InitAll, board
    <3>2. \A p \in Board : ram'[p] \in {Default, Computed(ram[p])}
      BY <2>1, <2>6 DEF ComputeAll, InitAll, ComputeSenseAdjData
    <3> QED
      BY <3>1, <3>2 DEF OwnOrFlash
  <2>7. CASE AdjFlashRead
    <3>1. PICK on \in {enable, FALSE} : ram' = ImportAdjData(ram, foreign, known, on, wrongSnr).ram
      BY <2>7, Zenon DEF AdjFlashRead
    <3>2. UNCHANGED flash /\ known' = known /\ Comparable(known)
      BY <2>7 DEF AdjFlashRead, board, identity
    <3>3. ASSUME NEW p \in Board
          PROVE  \/ ram'[p] = ram[p]
                 \/ /\ SameVersion(flash.of, known) /\ flash.of.serial = known.serial
                    /\ p \in DOMAIN flash.data /\ ram'[p] = flash.data[p]
      <4>1. p \in Parts /\ ~on
        <5>1. ~on
          BY <1>1, <3>1, Zenon
        <5> QED
          BY <2>1, <5>1
      <4>2. \/ ImportAdjData(ram, foreign, known, on, wrongSnr).ram[p] = ram[p]
            \/ /\ SameVersion(flash.of, known) /\ flash.of.serial = known.serial
               /\ p \in DOMAIN flash.data
               /\ ImportAdjData(ram, foreign, known, on, wrongSnr).ram[p] = flash.data[p]
        BY ONLY <4>1, ImportUnasked
      <4> QED
        BY ONLY <3>1, <4>2, Zenon
    <3> QED
      BY <3>2, <3>3 DEF OwnOrFlash, Comparable, SameVersion
  <2>8. CASE WriteSerialNumber \/ WritePCBVersion \/ WriteClampFlash \/ SetSwitch
    BY <2>3, <2>8 DEF WriteSerialNumber, WritePCBVersion, WriteIdentity, WriteClampFlash,
                      SetSwitch, data, board
  <2>9. CASE PlugClamp \/ UnplugClamp
    <3>1. UNCHANGED flash
      BY <2>9 DEF PlugClamp, UnplugClamp, board
    <3>2. \A p \in Board : ram'[p] = ram[p]
      BY <2>1, <2>9 DEF PlugClamp, UnplugClamp, GuestData, NoGuestData
    <3> QED
      BY <3>1, <3>2 DEF OwnOrFlash
  <2>10. CASE Restart
    <3>1. UNCHANGED flash
      BY <2>10 DEF Restart, board
    <3>2. PICK readable \in BOOLEAN : ram' = Found(known', readable).ram
      BY <2>10, Zenon DEF Restart
    <3>0. PICK k : k = known'
      OBVIOUS
    <3>3. \A p \in Board : StartData[p] = Default
      BY <2>1 DEF StartData
    <3>4. CASE readable /\ Comparable(k)
      <4>1. PICK f, flag : ram' = ImportAdjData(StartData, f, k, enable, flag).ram
        <5>1. ram' = ImportAdjData(StartData, {}, k, enable, TRUE).ram
          BY <3>0, <3>2, <3>4 DEF Found
        <5> QED
          BY ONLY <5>1, Zenon
      <4>2. ASSUME NEW p \in Board
            PROVE  \/ ram'[p] = Default
                   \/ /\ SameVersion(flash.of, k) /\ flash.of.serial = k.serial
                      /\ p \in DOMAIN flash.data /\ ram'[p] = flash.data[p]
        <5>1. p \in Parts /\ StartData[p] = Default /\ ~enable
          BY <1>1, <2>1, <3>3
        <5>2. \/ ImportAdjData(StartData, f, k, enable, flag).ram[p] = StartData[p]
              \/ /\ SameVersion(flash.of, k) /\ flash.of.serial = k.serial
                 /\ p \in DOMAIN flash.data
                 /\ ImportAdjData(StartData, f, k, enable, flag).ram[p] = flash.data[p]
          BY ONLY <5>1, ImportUnasked
        <5> QED
          BY ONLY <4>1, <5>1, <5>2, Zenon
      <4> QED
        BY <3>0, <3>1, <3>4, <4>2 DEF OwnOrFlash
    <3>5. CASE ~(readable /\ Comparable(k))
      BY <3>0, <3>1, <3>2, <3>3, <3>5 DEF Found, OwnOrFlash
    <3> QED
      BY <3>4, <3>5
  <2>11. CASE UNCHANGED vars
    BY <2>3, <2>11 DEF vars, data, board
  <2> QED
    BY <1>1, <2>4, <2>5, <2>6, <2>7, <2>8, <2>9, <2>10, <2>11 DEF Next
<1>2. TypeOK /\ [Next]_vars =>
        [~enable =>
           /\ UNCHANGED flash
           /\ \A p \in Board :
                \/ ram'[p] \in {ram[p], Default, Computed(ram[p])}
                \/ /\ Comparable(known') /\ SameVersion(flash.of, known')
                   /\ flash.of.serial = known'.serial
                   /\ p \in DOMAIN flash.data /\ ram'[p] = flash.data[p]]_vars
  BY <1>1, Zenon DEF OwnOrFlash
<1> QED
  BY <1>2, TypeCorrect, PTL DEF Spec, NothingNewWithoutSwitch
=============================================================================
