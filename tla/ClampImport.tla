--------------------------- MODULE ClampImport ---------------------------
(***************************************************************************)
(* The clamps' data with their type and serial number, in memory and in    *)
(* the flash of each clamp, and the command that distributes several XML   *)
(* documents to the clamps.                                                *)
(*                                                                         *)
(* A clamp has a connector of its own.  The data of a range are one value; *)
(* Adjustment has the polynomials that an import computes, and JustData    *)
(* the curves.  Only the import asks the EEPROM switch; with it off or not *)
(* readable nothing changes, which is no step here.                        *)
(*                                                                         *)
(* SYSTEM:CLAMP:WRITE is no action: it programs the clamps in turn up to   *)
(* the first failure, which is a sequence of WriteFlash steps here.        *)
(***************************************************************************)
EXTENDS Naturals, FiniteSets, SequencesExt

CONSTANTS
  Clamps,
  Types,        \* ClampTypes without undefined
  RangeNames,   \* names of ranges, which types may share
  RangesOf,     \* those of each type
  Serials,
  Factory,      \* the serial number of a clamp without data
  Undefined,    \* the type of a clamp without data
  Values, New,  \* data of a range, and those of a new one
  Strange,      \* a document that is no clamp's
  DocLists,     \* lists of documents that clients import
  NoClamp, Bad, None,  \* nothing plugged, chosen or promised; no correct checksum
  Ack, ErrXml, ErrExec,
  MaxEdits,     \* bound on commands that change data in memory
  MaxFaults     \* bound on failing transactions

\* The ranges a clamp of the type has; one without type has none.
Ranges(type) == IF type = Undefined THEN {} ELSE RangesOf[type]

Objects ==
  UNION {[type : {t}, serial : Serials \cup {Factory}, data : [Ranges(t) -> Values]] :
           t \in Types \cup {Undefined}}

\* What a document says is what an object holds.
Docs == Objects \cup {Strange}

ASSUME ClampImportAssumption ==
  /\ IsFiniteSet(Clamps)
  /\ RangesOf \in [Types -> SUBSET RangeNames]
  /\ Undefined \notin Types
  /\ New \in Values
  /\ Strange \notin Objects
  /\ {NoClamp, Bad, None} \cap (Clamps \cup Objects) = {}
  /\ DocLists \subseteq Seq(Docs)
  /\ Cardinality({Ack, ErrXml, ErrExec}) = 3
  /\ MaxEdits \in Nat /\ MaxFaults \in Nat

VARIABLES
  clamp,     \* m_clampHash
  flash,     \* the memory of each clamp
  promised,  \* history: what a clamp was acknowledged to hold
  edits, faults

vars == <<clamp, flash, promised, edits, faults>>

Edit == edits < MaxEdits /\ edits' = edits + 1
NoEdit == UNCHANGED edits
Fault == faults < MaxFaults /\ faults' = faults + 1
NoFault == UNCHANGED faults

Present == {c \in Clamps : clamp[c] # NoClamp}

-----------------------------------------------------------------------------
(***************************************************************************)
(* One clamp                                                               *)
(***************************************************************************)

\* initClamp
NewRanges(type) == [r \in Ranges(type) |-> New]

\* Data for the ranges that the object has, by name.
Given(object, data) ==
  [r \in DOMAIN object.data |-> IF r \in DOMAIN data THEN data[r] ELSE object.data[r]]

\* Mutant: what was read is taken without its checksum.
StartedUnchecked(c) == flash[c]

\* A clamp object that reads its flash.  Without a type it reads no further, and
\* has the default serial number whatever the flash says.
Started(c) ==
  IF flash[c] = Bad \/ flash[c].type = Undefined
  THEN [type |-> Undefined, serial |-> Factory, data |-> NewRanges(Undefined)]
  ELSE flash[c]

\* The type is read before the rest, and either may fail.
PlugClamp(c) ==
  /\ c \notin Present
  /\ \/ NoFault /\ clamp' = [clamp EXCEPT ![c] = Started(c)]
     \/ /\ Fault
        /\ \E t \in {Undefined, Started(c).type} :
             clamp' = [clamp EXCEPT ![c] =
                         [type |-> t, serial |-> Factory, data |-> NewRanges(t)]]
  /\ NoEdit /\ UNCHANGED <<flash, promised>>

UnplugClamp(c) ==
  /\ c \in Present
  /\ clamp' = [clamp EXCEPT ![c] = NoClamp]
  /\ NoEdit /\ NoFault /\ UNCHANGED <<flash, promised>>

\* SERIALNUMBER
WriteSerial(c, serial) ==
  /\ c \in Present /\ Edit
  /\ clamp' = [clamp EXCEPT ![c].serial = serial]
  /\ NoFault /\ UNCHANGED <<flash, promised>>

\* A CORRECTION command of a range.
WriteData(c, r, value) ==
  /\ c \in Present /\ r \in DOMAIN clamp[c].data /\ Edit
  /\ clamp' = [clamp EXCEPT ![c].data[r] = value]
  /\ NoFault /\ UNCHANGED <<flash, promised>>

\* exportAdjFlash
ExportAdjFlash(c, object) ==
  \/ /\ NoFault
     /\ flash' = [flash EXCEPT ![c] = object]
     /\ promised' = [promised EXCEPT ![c] = object]
  \/ /\ Fault
     /\ \E image \in {flash[c], object, Bad} : flash' = [flash EXCEPT ![c] = image]
     /\ promised' = [promised EXCEPT ![c] = None]

\* TYPE, with one that is defined: the ranges are made anew.
WriteType(c, type) ==
  /\ c \in Present /\ Edit
  /\ clamp' = [clamp EXCEPT ![c] =
                 [type |-> type, serial |-> @.serial, data |-> NewRanges(type)]]
  /\ ExportAdjFlash(c, clamp'[c])

\* FLASH:WRITE
WriteFlash(c) ==
  /\ c \in Present
  /\ ExportAdjFlash(c, clamp[c])
  /\ NoEdit /\ UNCHANGED clamp

\* FLASH:READ, of data for the same type, which may be none.
ReadFlash(c) ==
  /\ c \in Present /\ flash[c] # Bad /\ flash[c].type = clamp[c].type
  /\ clamp' = [clamp EXCEPT ![c] = flash[c]]
  /\ NoEdit /\ NoFault /\ UNCHANGED <<flash, promised>>

\* FLASH:RESET
ResetFlash(c) ==
  /\ c \in Present
  /\ \/ NoFault /\ flash' = [flash EXCEPT ![c] = Bad]
     \/ Fault /\ UNCHANGED flash
  /\ promised' = [promised EXCEPT ![c] = None]
  /\ NoEdit /\ UNCHANGED clamp

-----------------------------------------------------------------------------
(***************************************************************************)
(* XML documents                                                           *)
(***************************************************************************)

\* importXMLDocument: the type is compared, unless it is ignored, but never taken.
\* A document for another type changes nothing: documents name the type first.
ImportXMLDocument(object, doc, ignoreType) ==
  IF ignoreType \/ doc.type = object.type
  THEN [type |-> object.type, serial |-> doc.serial, data |-> Given(object, doc.data)]
  ELSE object

\* XML:READ of a file.  A mistake late in it leaves the ranges after it as they were.
ReadXML(c, doc) ==
  /\ c \in Present /\ Edit
  /\ doc # Strange /\ doc.type = clamp[c].type
  /\ \E read \in SUBSET DOMAIN doc.data :
       LET part == [doc EXCEPT !.data = Restrict(@, read)]
       IN clamp' = [clamp EXCEPT ![c] = ImportXMLDocument(@, part, FALSE)]
  /\ NoFault /\ UNCHANGED <<flash, promised>>

\* The clamps with the serial number of the document.
SameSerial(objects, doc) == {c \in Present : objects[c].serial = doc.serial}

\* Mutant: one clamp is enough, whatever the number of documents.
TakesAny(n) == Cardinality(Present) = 1

\* One document for one clamp needs no serial number.
TakesAll(n) == n = 1 /\ Cardinality(Present) = 1

\* The clamp for a document, one of n.
Clamp4Use(objects, doc, n) ==
  LET same == SameSerial(objects, doc)
  IN IF Cardinality(same) = 1 \/ (same = {} /\ TakesAll(n))
     THEN CHOOSE c \in Present : same \subseteq {c}
     ELSE NoClamp

\* Mutant: each document counts, also without a clamp.
LeftOfDocuments(left, c) == left - 1

\* How many clamps may still be programmed.
LeftOfClamps(left, c) == IF c = NoClamp THEN left ELSE left - 1

\* Mutant: the clamp is programmed before.
ProgrammedFirst(old, read) == old

\* What the clamp is programmed with, after the document was read.
Programmed(old, read) == read

\* The state s after the document, one of n, for which a write works or not.  One
\* without a clamp is left out.
Distribute(s, doc, n, works) ==
  IF s.answer # Ack \/ s.left = 0 THEN s
  ELSE IF doc = Strange THEN [s EXCEPT !.answer = ErrXml]
  ELSE LET c == Clamp4Use(s.clamp, doc, n)
           left == LeftOfClamps(s.left, c)
           read == ImportXMLDocument(s.clamp[c], doc, SameSerial(s.clamp, doc) = {})
       IN IF c = NoClamp THEN [s EXCEPT !.left = left]
          ELSE [clamp |-> [s.clamp EXCEPT ![c] = read],
                flash |-> [s.flash EXCEPT ![c] = Programmed(s.clamp[c], read)],
                left |-> left,
                answer |-> IF works THEN Ack ELSE ErrExec,
                done |-> s.done \cup {c}, last |-> c]

\* Before the first document.
Undistributed(docs) ==
  [clamp |-> clamp, flash |-> flash, left |-> Cardinality(Present),
   answer |-> IF docs = <<>> \/ Present = {} THEN ErrXml ELSE Ack,
   done |-> {}, last |-> NoClamp]

\* After all documents, if the write for that with the number bad fails.
ImportAllClamps(docs, bad) ==
  LET after[i \in 0..Len(docs)] ==
        IF i = 0 THEN Undistributed(docs)
        ELSE Distribute(after[i - 1], docs[i], Len(docs), i # bad)
  IN after[Len(docs)]

\* The documents of all clamps, as a query of the same command gives them: type,
\* serial number and data of each.
ExportAllClamps ==
  LET order == SetToSeq(Present)
  IN [i \in 1..Len(order) |-> clamp[order[i]]]

Imported == DocLists \cup {ExportAllClamps}

\* SYSTEM:CLAMP:XML with documents
ImportClamps(docs) ==
  /\ Edit
  /\ \E bad \in 0..Len(docs) :
       LET r == ImportAllClamps(docs, bad) IN
         /\ clamp' = r.clamp
         /\ IF r.answer = ErrExec
            THEN /\ Fault
                 /\ \E image \in {flash[r.last], r.flash[r.last], Bad} :
                      flash' = [r.flash EXCEPT ![r.last] = image]
            ELSE bad = 0 /\ NoFault /\ flash' = r.flash
         /\ promised' = [c \in Clamps |->
                           IF c \notin r.done THEN promised[c]
                           ELSE IF r.answer = ErrExec THEN None ELSE clamp'[c]]

-----------------------------------------------------------------------------
\* The server starts without clamps; they were written by an older one, or never.
Init ==
  /\ clamp = [c \in Clamps |-> NoClamp]
  /\ \E written \in SUBSET Clamps, type \in [Clamps -> Types], serial \in [Clamps -> Serials] :
       flash = [c \in Clamps |->
                  IF c \in written
                  THEN [type |-> type[c], serial |-> serial[c], data |-> NewRanges(type[c])]
                  ELSE Bad]
  /\ promised = [c \in Clamps |-> None]
  /\ edits = 0 /\ faults = 0

Next ==
  \/ \E c \in Clamps :
       \/ PlugClamp(c) \/ UnplugClamp(c)
       \/ WriteFlash(c) \/ ReadFlash(c) \/ ResetFlash(c)
       \/ \E serial \in Serials : WriteSerial(c, serial)
       \/ \E type \in Types : WriteType(c, type)
       \/ \E r \in RangeNames, value \in Values : WriteData(c, r, value)
       \/ \E docs \in DocLists : Len(docs) = 1 /\ ReadXML(c, docs[1])
  \/ \E docs \in Imported : ImportClamps(docs)

Spec == Init /\ [][Next]_vars

-----------------------------------------------------------------------------
(***************************************************************************)
(* Properties                                                              *)
(***************************************************************************)

\* Every variable has its type.
TypeOK ==
  /\ clamp \in [Clamps -> Objects \cup {NoClamp}]
  /\ flash \in [Clamps -> Objects \cup {Bad}]
  /\ promised \in [Clamps -> Objects \cup {None}]
  /\ edits \in 0..MaxEdits /\ faults \in 0..MaxFaults

\* The documents that are a clamp's.
Readable(docs) == {docs[i] : i \in {j \in DOMAIN docs : docs[j] # Strange}}

\* No two of them have the same serial number.
Distinct(docs) ==
  \A i, j \in DOMAIN docs :
    i # j /\ Strange \notin {docs[i], docs[j]} => docs[i].serial # docs[j].serial

\* Whatever documents come after whatever else was done with the clamps, an import
\* changes and programs a clamp only if a document names its serial number and no
\* other clamp has that, or if it is the only clamp and there is only one document;
\* and it never changes a clamp's type.
OnlyNamedClamps ==
  \A docs \in Imported : \A bad \in 0..Len(docs) :
    LET r == ImportAllClamps(docs, bad) IN
      \A c \in Clamps :
        r.clamp[c] # clamp[c] \/ r.flash[c] # flash[c] =>
          /\ c \in Present /\ r.clamp[c].type = clamp[c].type
          /\ \/ /\ \E doc \in Readable(docs) : doc.serial = clamp[c].serial
                /\ \A d \in Present \ {c} : clamp[d].serial # clamp[c].serial
             \/ Len(docs) = 1 /\ Present = {c}

\* An acknowledged import of documents with different serial numbers has programmed
\* each clamp that alone has the serial number of one, with the data of that
\* document if it is for the clamp's type; so an export brings all of them back if
\* their serial numbers differ.
AckedAllProgrammed ==
  \A docs \in Imported :
    LET r == ImportAllClamps(docs, 0) IN
      r.answer = Ack /\ Distinct(docs) =>
        \A doc \in Readable(docs), c \in Present :
          SameSerial(clamp, doc) = {c} =>
            /\ r.flash[c] = r.clamp[c]
            /\ doc.type = clamp[c].type => r.clamp[c].data = doc.data

\* What was acknowledged as stored in a clamp that has a type is what it brings when
\* it is plugged again, its serial number too, whatever happened to the other clamps.
\* A clamp without a type brings nothing: its serial number is stored and acknowledged
\* as well, but a new clamp object does not read it.
AckedSurvives ==
  [][\A c \in Clamps :
       /\ PlugClamp(c) /\ UNCHANGED faults
       /\ promised[c] # None /\ promised[c].type # Undefined
       => clamp'[c] = promised[c]]_vars

=============================================================================
