--------------------------- MODULE Adjustment ---------------------------
(***************************************************************************)
(* Adjustment data of the board's ranges and of a clamp's: in memory       *)
(* (cJustData), in the flash of the board and in the clamp's (cAdjFlash),  *)
(* and in XML documents (cAdjXML); the commands that edit, compute, store  *)
(* and read them; and the identity of the board, by which cSenseInterface  *)
(* tells whether the flash belongs to it.                                  *)
(*                                                                         *)
(* The three curves of a range are taken as one.  A polynomial and its     *)
(* nodes are one value each, and equal if the polynomial was computed from *)
(* the nodes.  Handlers run one after the other, so each is a step.  What  *)
(* is refused, because the EEPROM switch is off or cannot be read, is no   *)
(* step: it changes nothing.                                               *)
(***************************************************************************)
EXTENDS Naturals, FiniteSets, Functions

CONSTANTS
  Board,      \* ranges of the board, those with the Direct bit
  Guests,     \* ranges that the clamp adds to the channels
  Values,     \* values of nodes and coefficients; 0 is the initial one
  Docs,       \* what XML documents say about a range
  Pcbs,       \* versions of the board
  Minors,     \* digits after the point in the LCA and CTRL versions
  Serials,    \* serial numbers
  Name,       \* the device name in the controller
  Unknown,    \* a string of cSystemInfo that could not be read
  Bad,        \* a flash without a correct checksum
  None,       \* nothing was promised
  MaxEdits,   \* bound on commands that edit data or identity
  MaxFaults   \* bound on failing transactions

Data == [just: BOOLEAN, nodes: Values, coeffs: Values]
Default == [just |-> FALSE, nodes |-> 0, coeffs |-> 0]
Parts == Board \cup Guests

Identity == [name: {Name}, pcb: Pcbs, minor: Minors, serial: Serials]
Strings == [name: {Name, Unknown}, pcb: Pcbs \cup {Unknown},
            minor: Minors \cup {Unknown}, serial: Serials \cup {Unknown}]

\* What exportAdjData writes; an older server may have known fewer ranges.
Image == [of: Strings, data: UNION {[S -> Data] : S \in SUBSET Board}]

ASSUME AdjustmentAssumption ==
  /\ Board \cap Guests = {}
  /\ 0 \in Values
  /\ Docs \subseteq Data
  /\ Unknown \notin Pcbs \cup Minors \cup Serials \cup {Name}
  /\ Bad \notin Image /\ Bad \notin [Guests -> Data]
  /\ None \notin [pcb: Pcbs, serial: Serials, data: [Board -> Data]]
  /\ None \notin [Guests -> Data]
  /\ MaxEdits \in Nat /\ MaxFaults \in Nat

VARIABLES
  \* hardware
  flash,       \* the board's memory
  clampFlash,  \* the clamp's
  id,          \* the identity in the controller
  enable,      \* its EEPROM access switch
  \* the server
  ram,         \* data of every range
  lent,        \* the clamp's ranges are in the channels' lists
  known,       \* m_pSystemInfo
  wrongVers,   \* m_nVersionStatus
  wrongSnr,    \* m_nSerialStatus
  \* history
  stored,      \* what the board's flash was acknowledged to hold, and for whom
  clampStored, \* what the clamp's was
  foreign,     \* board ranges with data read for another identity
  kept,        \* those that no command for the board has changed since the store
  \* bounds
  edits, faults

data == <<ram, foreign, kept>>
board == <<flash, stored>>
clamp == <<clampFlash, clampStored, lent>>
identity == <<id, known>>
flags == <<wrongVers, wrongSnr>>
vars == <<data, board, clamp, identity, flags, enable, edits, faults>>

Listed == Board \cup (IF lent THEN Guests ELSE {})

Fails(n) == faults + n <= MaxFaults /\ faults' = faults + n
NoFault == UNCHANGED faults
Edit == edits < MaxEdits /\ edits' = edits + 1
NoEdit == UNCHANGED edits

-----------------------------------------------------------------------------
(***************************************************************************)
(* Adjustment data in memory                                               *)
(***************************************************************************)

\* cmpCoefficients
Computed(d) == [d EXCEPT !.coeffs = d.nodes]

\* All ranges in the lists, the clamp's included.
ComputeSenseAdjData(r) ==
  [p \in Parts |-> IF p \in Listed THEN Computed(r[p]) ELSE r[p]]

\* A command changes the data of one range.
Change(p, d) ==
  /\ ram' = [ram EXCEPT ![p] = d]
  /\ UNCHANGED <<board, clamp, identity, flags, enable>>

\* CORRECTION:<curve>:NODE, :COEFFICIENT and :STATUS
WriteCurve(p) ==
  /\ enable /\ NoFault /\ Edit
  /\ \/ \E v \in Values : Change(p, [ram[p] EXCEPT !.nodes = v])
     \/ \E v \in Values : Change(p, [ram[p] EXCEPT !.coeffs = v])
     \/ \E b \in BOOLEAN : Change(p, [ram[p] EXCEPT !.just = b])
  /\ UNCHANGED foreign /\ kept' = kept \ {p}

\* <range>:CORRECTION:COMPUTE and :INIT
ComputeRange(p) ==
  /\ enable /\ NoFault /\ NoEdit
  /\ Change(p, Computed(ram[p])) /\ UNCHANGED <<foreign, kept>>

InitRange(p) ==
  /\ enable /\ NoFault /\ NoEdit
  /\ Change(p, Default) /\ foreign' = foreign \ {p} /\ kept' = kept \ {p}

\* SENSE:CORRECTION:COMPUTE and :INIT, which do not ask the switch.
ComputeAll ==
  /\ ram' = ComputeSenseAdjData(ram)
  /\ UNCHANGED <<foreign, kept, board, clamp, identity, flags, enable, edits>> /\ NoFault

InitAll ==
  /\ ram' = [p \in Parts |-> IF p \in Listed THEN Default ELSE ram[p]]
  /\ foreign' = {} /\ kept' = {}
  /\ UNCHANGED <<board, clamp, identity, flags, enable, edits>> /\ NoFault

-----------------------------------------------------------------------------
(***************************************************************************)
(* The board's flash                                                       *)
(***************************************************************************)

\* Versions may differ in the digits after the point.
SameVersion(s, k) ==
  /\ s.name = k.name /\ s.pcb = k.pcb
  /\ s.minor = k.minor \/ Unknown \notin {s.minor, k.minor}

\* Mutant: whoever has the switch on has the right board.
WrongVersUnlessEnabled(k, on) == ~SameVersion(flash.of, k) /\ ~on

\* The flag after a comparison.
WrongVers(k, on) == ~SameVersion(flash.of, k)

\* Mutant: the data are taken whatever the switch says.
TakenAnyway(k, on) == TRUE

\* Data for another identity are taken if the switch is on.
Taken(k, on) == on \/ (SameVersion(flash.of, k) /\ flash.of.serial = k.serial)

\* importAdjData on data r, of which those of f are foreign, with the strings k,
\* the switch, and the serial number's flag as it was.
ImportAdjData(r, f, k, on, flag) ==
  LET taken == IF Taken(k, on) THEN DOMAIN flash.data ELSE {}
      v     == SameVersion(flash.of, k)
      s     == flash.of.serial = k.serial
  IN  [taken     |-> taken,
       ram       |-> [p \in Parts |-> IF p \in taken THEN flash.data[p] ELSE r[p]],
       foreign   |-> IF v /\ s THEN f \ taken ELSE f \cup taken,
       wrongVers |-> WrongVers(k, on),
       wrongSnr  |-> IF ~v /\ ~on THEN flag ELSE ~s]

\* The flash can be compared with the strings k.  Data without a correct
\* checksum and data of another device name are not looked at.
Comparable(k) == flash # Bad /\ flash.of.name = k.name

\* The ranges that have got back what was stored.
Retaken(found) == IF stored = None THEN {} ELSE found.taken

\* SYSTEM:ADJUSTMENT:FLASH:READ.  A switch that cannot be read counts as off; a
\* flash that cannot be read or compared changes nothing.
AdjFlashRead ==
  /\ Comparable(known)
  /\ \E on \in {enable, FALSE} :
       /\ IF on = enable THEN NoFault ELSE Fails(1)
       /\ LET found == ImportAdjData(ram, foreign, known, on, wrongSnr)
          IN  /\ ram' = found.ram /\ foreign' = found.foreign
              /\ kept' = kept \cup Retaken(found)
              /\ wrongVers' = found.wrongVers /\ wrongSnr' = found.wrongSnr
  /\ UNCHANGED <<board, clamp, identity, enable, edits>>

\* Mutant: the clamp's ranges are written too.
ExportedAll(r) == r

\* exportAdjData writes ranges with the Direct bit only.
Exported(r) == Restrict(r, Board)

\* exportAdjFlash of the data r.  A write that fails leaves the old data, the
\* new ones, or neither, and unadopted what is foreign.
ExportAdjFlash(r, unadopted) ==
  LET image == [of |-> known, data |-> Exported(r)]
  IN  \/ /\ NoFault
         /\ flash' = image
         /\ stored' = IF known = id
                      THEN [pcb |-> id.pcb, serial |-> id.serial, data |-> Restrict(ram', Board)]
                      ELSE None
         /\ foreign' = {} /\ kept' = IF known = id THEN Board ELSE {}
      \/ /\ Fails(1)
         /\ flash' \in {flash, image, Bad}
         /\ stored' = None
         /\ foreign' = unadopted /\ kept' = {}

\* SYSTEM:ADJUSTMENT:FLASH:WRITE
AdjFlashWrite ==
  /\ enable
  /\ UNCHANGED ram
  /\ ExportAdjFlash(ram, foreign)
  /\ UNCHANGED <<clamp, identity, flags, enable, edits>>

-----------------------------------------------------------------------------
(***************************************************************************)
(* XML documents of the board                                              *)
(***************************************************************************)

\* The data r after the part of a document that names the ranges s was read.
Read(r, s, d) == [p \in Parts |-> IF p \in s THEN d ELSE r[p]]

\* Mutant: data are stored as they came.
StoredFormRaw(r) == r

\* What is stored after an import.
StoredForm(r) == ComputeSenseAdjData(r)

\* SYSTEM:ADJUSTMENT:XML with a document: read, compute, store.  A document of
\* another identity changes nothing, one with a later mistake has changed some
\* ranges already.
AdjXmlImport ==
  /\ enable /\ Edit
  /\ \E s \in SUBSET Board, d \in Docs :
       \/ /\ NoFault
          /\ ram' = Read(ram, s, d) /\ foreign' = foreign \ s /\ kept' = kept \ s
          /\ UNCHANGED board
       \/ /\ ram' = ComputeSenseAdjData(Read(ram, s, d))
          /\ ExportAdjFlash(StoredForm(Read(ram, s, d)), foreign \ s)
  /\ UNCHANGED <<clamp, identity, flags, enable>>

\* SYSTEM:ADJUSTMENT:XML:READ of a file, which may fail as late: what was read is
\* neither computed nor stored.
AdjXMLRead ==
  /\ enable /\ NoFault /\ Edit
  /\ \E s \in SUBSET Board, d \in Docs :
       ram' = Read(ram, s, d) /\ foreign' = foreign \ s /\ kept' = kept \ s
  /\ UNCHANGED <<board, clamp, identity, flags, enable>>

-----------------------------------------------------------------------------
(***************************************************************************)
(* Identity of the board                                                   *)
(***************************************************************************)

\* getSystemInfo: a string that cannot be read stays as it was.
\* Other transactions of the command fail n times.
GetSystemInfo(n) ==
  \E lost \in SUBSET DOMAIN known :
    /\ Fails(Cardinality(lost) + n)
    /\ known' = [f \in DOMAIN known |-> IF f \in lost THEN known[f] ELSE id'[f]]

\* The identity becomes one of new, or stays if the controller does not take it.
\* Strings are read back in any case.
WriteIdentity(new) ==
  /\ Edit
  /\ \/ id' \in new /\ (GetSystemInfo(0) \/ GetSystemInfo(1))
     \/ UNCHANGED id /\ GetSystemInfo(1)
  /\ UNCHANGED <<data, board, clamp, flags, enable>>

\* SYSTEM:SERIAL, which does not ask the switch.
WriteSerialNumber == WriteIdentity({[id EXCEPT !.serial = s] : s \in Serials})

\* SYSTEM:VERSION:PCB, nor does it.
WritePCBVersion == WriteIdentity({[id EXCEPT !.pcb = v] : v \in Pcbs})

-----------------------------------------------------------------------------
(***************************************************************************)
(* The clamp                                                               *)
(***************************************************************************)

\* importAdjData of the clamp, which asks for no identity.
GuestData == [p \in Parts |-> IF p \in Guests THEN clampFlash[p] ELSE ram[p]]
NoGuestData == [p \in Parts |-> IF p \in Guests THEN Default ELSE ram[p]]

\* exportAdjFlash of the clamp with the data r.
ExportClampFlash(r) ==
  LET image == Restrict(r, Guests)
  IN  \/ NoFault /\ clampFlash' = image /\ clampStored' = Restrict(ram', Guests)
      \/ Fails(1) /\ clampFlash' \in {clampFlash, image, Bad} /\ clampStored' = None

\* A clamp with a readable type makes its ranges anew and reads their data; a
\* second read that fails leaves them initial.
PlugClamp ==
  /\ ~lent /\ clampFlash # Bad
  /\ lent' = TRUE
  /\ \/ NoFault /\ ram' = GuestData
     \/ Fails(1) /\ ram' = NoGuestData
  /\ UNCHANGED <<foreign, kept, board, clampFlash, clampStored, identity, flags, enable, edits>>

UnplugClamp ==
  /\ lent /\ lent' = FALSE
  /\ ram' = NoGuestData
  /\ UNCHANGED <<foreign, kept, board, clampFlash, clampStored, identity, flags, enable, edits>>
  /\ NoFault

\* SYSTEM:CLAMP:<channel>:FLASH:WRITE, which does not ask the switch.
WriteClampFlash ==
  /\ lent
  /\ UNCHANGED data
  /\ ExportClampFlash(ram)
  /\ UNCHANGED <<board, lent, identity, flags, enable, edits>>

\* Mutant: ranges of the board are initialized instead.
ImportInits(r) == [p \in Parts |-> IF p \in Board THEN Default ELSE Computed(r[p])]

\* After an import all ranges compute their polynomials, the board's too.
ImportComputes(r) == ComputeSenseAdjData(r)

\* Mutant: the clamp is programmed before that.
ClampFormRaw(r) == r

\* What is programmed.
ClampForm(r) == ImportComputes(r)

\* The part of a document that names the clamp's ranges s.
ReadClamp(s, d) == Read(ram, s, d)

\* SYSTEM:CLAMP:XML with one document for the one clamp.  Its data are those of
\* the ranges s; a document for another type brings none and is acknowledged.
ImportClamp ==
  /\ enable /\ lent /\ Edit
  /\ \E s \in SUBSET Guests, d \in Docs :
       /\ ram' = ImportComputes(ReadClamp(s, d))
       /\ ExportClampFlash(ClampForm(ReadClamp(s, d)))
  /\ UNCHANGED <<foreign, kept, board, lent, identity, flags, enable>>

-----------------------------------------------------------------------------
(***************************************************************************)
(* Start                                                                   *)
(***************************************************************************)

\* The strings when those in lost cannot be read.
StartStrings(i, lost) == [f \in DOMAIN i |-> IF f \in lost THEN Unknown ELSE i[f]]

\* The data before the board's flash is read.
StartData ==
  [p \in Parts |-> IF p \in Guests /\ lent /\ clampFlash # Bad
                   THEN clampFlash[p] ELSE Default]

\* What a start finds that knows the strings k, with the board's flash unreadable
\* or not.  The flags start as wrong.
Found(k, readable) ==
  IF readable /\ Comparable(k) THEN ImportAdjData(StartData, {}, k, enable, TRUE)
  ELSE [taken |-> {}, ram |-> StartData, foreign |-> {}, wrongVers |-> TRUE, wrongSnr |-> TRUE]

\* The server is started again, perhaps after an update of the firmware: it reads
\* the strings, then the board's flash, then the clamp.
Restart ==
  /\ UNCHANGED <<board, clampFlash, clampStored, enable, edits>>
  /\ lent' = (lent /\ clampFlash # Bad)
  /\ \E v \in Minors : id' = [id EXCEPT !.minor = v]
  /\ \E lost \in SUBSET DOMAIN id, readable \in BOOLEAN :
       /\ Fails(Cardinality(lost) + IF readable THEN 0 ELSE 1)
       /\ known' = StartStrings(id', lost)
       /\ LET found == Found(known', readable)
          IN  /\ ram' = found.ram /\ foreign' = found.foreign /\ kept' = Retaken(found)
              /\ wrongVers' = found.wrongVers /\ wrongSnr' = found.wrongSnr

\* Somebody turns the switch.
SetSwitch ==
  /\ enable' = ~enable
  /\ UNCHANGED <<data, board, clamp, identity, flags, edits, faults>>

\* The first start, on a board whose flash was written for it, for another board
\* or revision, or by an older server, or holds nothing.
Init ==
  /\ id \in Identity
  /\ flash \in {Bad} \cup [of: Identity, data: UNION {[S -> Docs] : S \in SUBSET Board}]
  /\ clampFlash \in {Bad} \cup [Guests -> Docs]
  /\ enable \in BOOLEAN
  /\ lent = FALSE
  /\ known = id
  /\ LET found == Found(id, TRUE)
     IN  /\ ram = found.ram /\ foreign = found.foreign
         /\ wrongVers = found.wrongVers /\ wrongSnr = found.wrongSnr
  /\ stored = None /\ clampStored = None /\ kept = {}
  /\ edits = 0 /\ faults = 0

Next ==
  \/ \E p \in Listed : WriteCurve(p) \/ ComputeRange(p) \/ InitRange(p)
  \/ ComputeAll \/ InitAll
  \/ AdjFlashRead \/ AdjFlashWrite
  \/ AdjXmlImport \/ AdjXMLRead
  \/ WriteSerialNumber \/ WritePCBVersion
  \/ PlugClamp \/ UnplugClamp \/ WriteClampFlash \/ ImportClamp
  \/ Restart \/ SetSwitch

Spec == Init /\ [][Next]_vars

-----------------------------------------------------------------------------
(***************************************************************************)
(* Status                                                                  *)
(***************************************************************************)

\* getAdjustmentStatus, of the ranges in the lists, the clamp's included.
Adjusted == (\A p \in Listed : ram[p].just) /\ ~wrongVers /\ ~wrongSnr

-----------------------------------------------------------------------------
(***************************************************************************)
(* Properties                                                              *)
(***************************************************************************)

\* Every variable has its type.
TypeOK ==
  /\ flash \in Image \cup {Bad}
  /\ clampFlash \in [Guests -> Data] \cup {Bad}
  /\ id \in Identity /\ known \in Strings
  /\ ram \in [Parts -> Data]
  /\ stored \in [pcb: Pcbs, serial: Serials, data: [Board -> Data]] \cup {None}
  /\ clampStored \in [Guests -> Data] \cup {None}
  /\ foreign \subseteq Board /\ kept \subseteq Board
  /\ enable \in BOOLEAN /\ lent \in BOOLEAN
  /\ wrongVers \in BOOLEAN /\ wrongSnr \in BOOLEAN
  /\ edits \in 0..MaxEdits /\ faults \in 0..MaxFaults

\* "If we read wrong serial or version we are not adjusted in any case"
\* (senseinterface.cpp): as long as a range has data that were read for another
\* serial number or version and not adopted by a store, the board does not call
\* itself adjusted, over reads that clear one flag but not the other, changes of
\* the identity, and documents that replace a part of the data.
AdjustedIsEarned == Adjusted => foreign = {}

\* With the switch off the board's flash stays, and whatever commands come, the
\* data of a board range come from its own nodes, from the initial values, or
\* from a flash of the same identity.
NothingNewWithoutSwitch ==
  [][~enable =>
       /\ UNCHANGED flash
       /\ \A p \in Board :
            \/ ram'[p] \in {ram[p], Default, Computed(ram[p])}
            \/ /\ Comparable(known') /\ SameVersion(flash.of, known')
               /\ flash.of.serial = known'.serial
               /\ p \in DOMAIN flash.data /\ ram'[p] = flash.data[p]]_vars

\* What an acknowledged command stored is what the next start without a failing
\* transaction works with, marked as the board's own, unless the identity was
\* changed or misread; failed imports in between and firmware updates do no harm.
AckedIsFound ==
  [][/\ stored # None /\ UNCHANGED faults
     /\ stored.pcb = id'.pcb /\ stored.serial = id'.serial
     /\ Restart
     =>
         /\ \A p \in Board : ram'[p] = stored.data[p]
         /\ ~wrongVers' /\ ~wrongSnr']_vars

\* The same for a clamp that is plugged again.
AckedIsPlugged ==
  [][clampStored # None /\ UNCHANGED faults /\ PlugClamp =>
       \A p \in Guests : ram'[p] = clampStored[p]]_vars

\* What was acknowledged as stored is also what the board works with, until a
\* command for the board itself changes it: programming, plugging and removing a
\* clamp, changes of the identity, failing reads and new starts never leave a range
\* with anything else, though its polynomial may be computed again.
AckedIsUsed ==
  \A p \in kept : ram[p] \in {stored.data[p], Computed(stored.data[p])}
=============================================================================
