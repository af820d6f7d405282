------------------------ MODULE ClampImport_proofs ------------------------
(***************************************************************************)
(* Proofs about ClampImport for any clamps, types, ranges, serial numbers  *)
(* and lists of documents of any length.                                   *)
(***************************************************************************)
EXTENDS ClampImport, FiniteSetTheorems, WellFoundedInduction, TLAPS

\* Types an object may have, and serial numbers.
AnyType == Types \cup {Undefined}
AnySerial == Serials \cup {Factory}

-----------------------------------------------------------------------------
(***************************************************************************)
(* Induction over the documents of a list                                  *)
(***************************************************************************)

\* A set of natural numbers has a least one.
LEMMA LeastNat ==
  ASSUME NEW S, S \subseteq Nat, S # {}
  PROVE  \E m \in S : \A k \in S : m <= k
<1>1. PICK m \in S : \A y \in S : ~(<<y, m>> \in OpToRel(<, Nat))
  BY NatLessThanWellFounded, WFMin
<1>2. \A y \in S : ~(y < m)
  BY <1>1 DEF OpToRel
<1>3. \A y \in S : m \in Nat /\ y \in Nat
  OBVIOUS
<1>4. \A y \in S : m <= y
  BY <1>2, <1>3
<1> QED
  BY <1>4

\* What holds at zero and is kept by each of n steps holds after them.
LEMMA StepByStep ==
  ASSUME NEW n \in Nat, NEW S, 0 \in S, \A i \in 0..(n - 1) : i \in S => i + 1 \in S
  PROVE  \A i \in 0..n : i \in S
<1> SUFFICES ASSUME (0..n) \ S # {} PROVE FALSE
  OBVIOUS
<1> DEFINE missed == (0..n) \ S
<1>0. missed \subseteq Nat /\ missed # {}
  OBVIOUS
<1> HIDE DEF missed
<1>1. PICK m \in missed : \A k \in missed : m <= k
  BY <1>0, LeastNat
<1> USE DEF missed
<1>2. m \in Nat /\ m <= n /\ m \notin S /\ m # 0
  BY <1>1
<1>3. m - 1 \in 0..(n - 1) /\ m - 1 \in 0..n
  BY <1>2
<1>4. m - 1 \in S
  BY <1>1, <1>2, <1>3
<1>5. (m - 1) + 1 = m
  BY <1>2
<1> QED
  BY <1>2, <1>3, <1>4, <1>5

-----------------------------------------------------------------------------
(***************************************************************************)
(* Objects                                                                 *)
(***************************************************************************)

\* An object has a type, a serial number, and data for the ranges of its type.
LEMMA ObjectHas ==
  ASSUME NEW o \in Objects
  PROVE  /\ o.type \in AnyType
         /\ o.serial \in AnySerial
         /\ o.data \in [Ranges(o.type) -> Values]
         /\ o = [type |-> o.type, serial |-> o.serial, data |-> o.data]
<1>1. PICK t \in AnyType :
        o \in [type : {t}, serial : AnySerial, data : [Ranges(t) -> Values]]
  BY DEF Objects, AnyType, AnySerial
<1>2. o.type = t /\ o.serial \in AnySerial /\ o.data \in [Ranges(t) -> Values]
  BY <1>1
<1>3. o = [type |-> o.type, serial |-> o.serial, data |-> o.data]
  BY <1>1
<1> QED
  BY <1>2, <1>3

\* Whatever has these is an object.
LEMMA ObjectOf ==
  ASSUME NEW t \in AnyType, NEW s \in AnySerial, NEW d \in [Ranges(t) -> Values]
  PROVE  [type |-> t, serial |-> s, data |-> d] \in Objects
<1>1. [type |-> t, serial |-> s, data |-> d]
        \in [type : {t}, serial : AnySerial, data : [Ranges(t) -> Values]]
  OBVIOUS
<1> QED
  BY <1>1 DEF Objects, AnyType, AnySerial

\* New ranges have data.
LEMMA NewRangesType ==
  ASSUME NEW t
  PROVE  NewRanges(t) \in [Ranges(t) -> Values]
  BY ClampImportAssumption DEF NewRanges, ClampImportAssumption

\* An object is none of the values that stand for nothing.
LEMMA ObjectIsSomething ==
  ASSUME NEW o \in Objects
  PROVE  o # NoClamp /\ o # Bad /\ o # None /\ o # Strange
  BY ClampImportAssumption DEF ClampImportAssumption

\* The data a clamp object takes from others are data of its ranges.
LEMMA GivenType ==
  ASSUME NEW o \in Objects, NEW S, NEW d \in [S -> Values]
  PROVE  Given(o, d) \in [Ranges(o.type) -> Values]
  BY ObjectHas DEF Given

\* A document that was read leaves an object of the same type, and takes the
\* serial number and data of one that is accepted.
LEMMA ImportResult ==
  ASSUME NEW o \in Objects, NEW doc \in Objects, NEW ignore \in BOOLEAN
  PROVE  LET i == ImportXMLDocument(o, doc, ignore) IN
           /\ i \in Objects
           /\ i.type = o.type
           /\ i.serial \in {o.serial, doc.serial}
           /\ doc.type = o.type => i.data = doc.data
<1> DEFINE i == ImportXMLDocument(o, doc, ignore)
           taken == [type |-> o.type, serial |-> doc.serial, data |-> Given(o, doc.data)]
<1>1. /\ o.type \in AnyType /\ doc.serial \in AnySerial
      /\ Given(o, doc.data) \in [Ranges(o.type) -> Values]
      /\ o = [type |-> o.type, serial |-> o.serial, data |-> o.data]
  BY ObjectHas, GivenType
<1>2. taken \in Objects
  BY <1>1, ObjectOf
<1>3. /\ i = IF ignore \/ doc.type = o.type THEN taken ELSE o
      /\ i \in {o, taken}
      /\ doc.type = o.type => i = taken
  BY DEF ImportXMLDocument
<1>4. ASSUME doc.type = o.type PROVE Given(o, doc.data) = doc.data
  <2>1. doc.data \in [Ranges(o.type) -> Values] /\ o.data \in [Ranges(o.type) -> Values]
    BY <1>4, ObjectHas
  <2> QED
    BY <2>1 DEF Given
<1> HIDE DEF i
<1>5. /\ i \in Objects /\ i.type = o.type /\ i.serial \in {o.serial, doc.serial}
      /\ doc.type = o.type => i.data = doc.data
  BY <1>2, <1>3, <1>4
<1> QED
  BY <1>5 DEF i

-----------------------------------------------------------------------------
(***************************************************************************)
(* One turn of the import                                                  *)
(***************************************************************************)

MaybeObjects == Objects \cup {NoClamp}
Images == Objects \cup {Bad}

\* The answers are three.
LEMMA AnswersDiffer == ErrXml # ErrExec /\ Ack # ErrExec /\ ErrXml # Ack
<1>1. ASSUME NEW x, NEW y PROVE Cardinality({x, y}) # 3
  <2>1. IsFiniteSet({x}) /\ Cardinality({x}) = 1
    BY FS_Singleton
  <2>2. Cardinality({x} \cup {y}) = IF y \in {x} THEN Cardinality({x}) ELSE Cardinality({x}) + 1
    BY <2>1, FS_AddElement
  <2>3. {x} \cup {y} = {x, y}
    OBVIOUS
  <2> QED
    BY <2>1, <2>2, <2>3
<1>2. Cardinality({Ack, ErrXml, ErrExec}) = 3
  BY ClampImportAssumption DEF ClampImportAssumption
<1>3. ASSUME ErrXml = ErrExec \/ Ack = ErrExec \/ ErrXml = Ack PROVE FALSE
  <2>1. \/ {Ack, ErrXml, ErrExec} = {Ack, ErrXml}
        \/ {Ack, ErrXml, ErrExec} = {Ack, ErrExec}
    BY <1>3
  <2>2. CASE {Ack, ErrXml, ErrExec} = {Ack, ErrXml}
    BY <1>1, <1>2, <2>2
  <2>3. CASE {Ack, ErrXml, ErrExec} = {Ack, ErrExec}
    BY <1>1, <1>2, <2>3
  <2> QED
    BY <2>1, <2>2, <2>3
<1> QED
  BY <1>3

\* What the loop works with.
Progress ==
  [clamp : [Clamps -> MaybeObjects], flash : [Clamps -> Images], left : Int,
   answer : {Ack, ErrXml, ErrExec}, done : SUBSET Clamps, last : Clamps \cup {NoClamp}]

\* The clamps that are plugged are finitely many, and objects.
LEMMA PresentFacts ==
  ASSUME TypeOK
  PROVE  /\ Present \subseteq Clamps
         /\ \A c \in Present : clamp[c] \in Objects
         /\ IsFiniteSet(Present)
         /\ Cardinality(Present) \in Nat
         /\ NoClamp \notin Clamps
<1>1. Present \subseteq Clamps /\ \A c \in Present : clamp[c] \in Objects
  BY DEF Present, TypeOK
<1>2. IsFiniteSet(Present)
  BY <1>1, FS_Subset, ClampImportAssumption DEF ClampImportAssumption
<1>3. Cardinality(Present) \in Nat
  BY <1>2, FS_CardinalityType
<1> QED
  BY <1>1, <1>2, <1>3, ClampImportAssumption DEF ClampImportAssumption

\* A document goes to the clamp that alone has its serial number, or if there is
\* none, to the only clamp, provided it is the only document.
LEMMA Chosen ==
  ASSUME TypeOK, NEW objects, NEW doc, NEW n
  PROVE  /\ Clamp4Use(objects, doc, n) # NoClamp =>
              /\ Clamp4Use(objects, doc, n) \in Present
              /\ \/ SameSerial(objects, doc) = {Clamp4Use(objects, doc, n)}
                 \/ SameSerial(objects, doc) = {} /\ n = 1
                    /\ Present = {Clamp4Use(objects, doc, n)}
         /\ \A d : SameSerial(objects, doc) = {d} => Clamp4Use(objects, doc, n) = d
<1> DEFINE c == Clamp4Use(objects, doc, n)
           same == SameSerial(objects, doc)
<1>1. same \subseteq Present /\ IsFiniteSet(same)
  BY PresentFacts, FS_Subset DEF SameSerial
<1> HIDE DEF same
<1>2. CASE Cardinality(same) = 1
  <2>1. PICK d : same = {d}
    BY <1>1, <1>2, FS_Singleton
  <2>2. d \in Present /\ c = CHOOSE e \in Present : same \subseteq {e}
    BY <1>1, <1>2, <2>1 DEF Clamp4Use, same
  <2>3. c = d
    BY <2>1, <2>2
  <2> QED
    BY <2>1, <2>2, <2>3 DEF same
<1>3. CASE same = {} /\ TakesAll(n)
  <2>1. PICK d : Present = {d}
    BY <1>3, PresentFacts, FS_Singleton DEF TakesAll
  <2>2. c = CHOOSE e \in Present : same \subseteq {e}
    BY <1>3 DEF Clamp4Use, same
  <2>3. c = d
    BY <1>3, <2>1, <2>2
  <2> QED
    BY <1>3, <2>1, <2>3 DEF TakesAll, same
<1>4. CASE ~(Cardinality(same) = 1 \/ (same = {} /\ TakesAll(n)))
  <2>1. c = NoClamp
    BY <1>4 DEF Clamp4Use, same
  <2>2. \A d : same # {d}
    BY <1>1, <1>4, FS_Singleton
  <2> QED
    BY <2>1, <2>2 DEF same
<1> QED
  BY <1>2, <1>3, <1>4

\* The document is given to the clamp c.
Given4Use(s, doc, n, works, c, read, t) ==
  /\ s.answer = Ack /\ s.left # 0 /\ doc \in Objects
  /\ c = Clamp4Use(s.clamp, doc, n) /\ c \in Present
  /\ read = ImportXMLDocument(s.clamp[c], doc, SameSerial(s.clamp, doc) = {})
  /\ t.clamp = [s.clamp EXCEPT ![c] = read]
  /\ t.flash = [s.flash EXCEPT ![c] = read]
  /\ t.left = s.left - 1
  /\ t.answer = IF works THEN Ack ELSE ErrExec
  /\ t.done = s.done \cup {c} /\ t.last = c
  /\ t = [clamp |-> t.clamp, flash |-> t.flash, left |-> t.left,
          answer |-> t.answer, done |-> t.done, last |-> t.last]

\* The document is strange, and ends the loop.
Refused(s, doc, t) ==
  /\ doc = Strange /\ t.answer = ErrXml /\ t \in Progress
  /\ t.clamp = s.clamp /\ t.flash = s.flash /\ t.left = s.left
  /\ t.done = s.done /\ t.last = s.last

\* The loop has ended, or there is no clamp for the document.
Skipped(s, doc, n, t) ==
  /\ t = s
  /\ \/ s.answer # Ack \/ s.left = 0
     \/ s.answer = Ack /\ doc \in Objects /\ Clamp4Use(s.clamp, doc, n) = NoClamp

\* A turn does one of these.
LEMMA Turn ==
  ASSUME TypeOK, NEW s \in Progress, NEW doc \in Docs, NEW n, NEW works \in BOOLEAN,
         NEW t, t = Distribute(s, doc, n, works)
  PROVE  \/ Skipped(s, doc, n, t)
         \/ Refused(s, doc, t)
         \/ \E c, read : Given4Use(s, doc, n, works, c, read, t)
<1> DEFINE c == Clamp4Use(s.clamp, doc, n)
           read == ImportXMLDocument(s.clamp[c], doc, SameSerial(s.clamp, doc) = {})
<1>1. CASE s.answer # Ack \/ s.left = 0
  BY <1>1 DEF Distribute, Skipped
<1>2. CASE ~(s.answer # Ack \/ s.left = 0) /\ doc = Strange
  <2>1. t = [s EXCEPT !.answer = ErrXml]
    BY <1>2 DEF Distribute
  <2>2. Refused(s, doc, t)
    BY <1>2, <2>1 DEF Progress, Refused
  <2> QED
    BY <2>2
<1>3. CASE ~(s.answer # Ack \/ s.left = 0) /\ doc # Strange /\ c = NoClamp
  <2>1. t = [s EXCEPT !.left = s.left]
    BY <1>3 DEF Distribute, LeftOfClamps
  <2>2. t = s
    BY <2>1 DEF Progress
  <2> QED
    BY <1>3, <2>2 DEF Docs, Skipped
<1>4. CASE ~(s.answer # Ack \/ s.left = 0) /\ doc # Strange /\ c # NoClamp
  <2>1. t = [clamp |-> [s.clamp EXCEPT ![c] = read],
             flash |-> [s.flash EXCEPT ![c] = read],
             left |-> s.left - 1,
             answer |-> IF works THEN Ack ELSE ErrExec,
             done |-> s.done \cup {c}, last |-> c]
    BY <1>4 DEF Distribute, LeftOfClamps, Programmed
  <2>2. c \in Present
    BY <1>4, Chosen
  <2> HIDE DEF c, read
  <2>3. /\ t.clamp = [s.clamp EXCEPT ![c] = read]
        /\ t.flash = [s.flash EXCEPT ![c] = read]
        /\ t.left = s.left - 1
        /\ t.answer = IF works THEN Ack ELSE ErrExec
        /\ t.done = s.done \cup {c} /\ t.last = c
        /\ t = [clamp |-> t.clamp, flash |-> t.flash, left |-> t.left,
                answer |-> t.answer, done |-> t.done, last |-> t.last]
    BY <2>1
  <2>4. Given4Use(s, doc, n, works, c, read, t)
    BY <1>4, <2>2, <2>3 DEF Docs, Given4Use, c, read
  <2> QED
    BY <2>4
<1> QED
  BY <1>1, <1>2, <1>3, <1>4

-----------------------------------------------------------------------------
(***************************************************************************)
(* All turns                                                               *)
(***************************************************************************)

\* A function that gives the state after each document.
Turns(docs, bad, n, g) ==
  g = [i \in 0..n |-> IF i = 0 THEN Undistributed(docs)
                      ELSE Distribute(g[i - 1], docs[i], Len(docs), i # bad)]

\* There is one for each number of documents.
LEMMA TurnsExist ==
  ASSUME NEW docs, NEW bad, NEW n \in Nat
  PROVE  \E g : Turns(docs, bad, n, g)
<1> DEFINE found == {m \in Nat : \E g : Turns(docs, bad, m, g)}
<1>1. 0 \in found
  <2> DEFINE g == [i \in 0..0 |-> Undistributed(docs)]
  <2>1. Turns(docs, bad, 0, g)
    BY DEF Turns
  <2> QED
    BY <2>1
<1>2. ASSUME NEW m \in 0..(n - 1), m \in found
      PROVE  m + 1 \in found
  <2>1. PICK g : Turns(docs, bad, m, g)
    BY <1>2
  <2> DEFINE last == Distribute(g[m], docs[m + 1], Len(docs), m + 1 # bad)
             h == [i \in 0..(m + 1) |-> IF i = m + 1 THEN last ELSE g[i]]
  <2>2. \A i \in 0..m : h[i] = g[i]
    OBVIOUS
  <2>3. \A i \in 0..m :
          h[i] = IF i = 0 THEN Undistributed(docs)
                 ELSE Distribute(h[i - 1], docs[i], Len(docs), i # bad)
    <3> TAKE i \in 0..m
    <3>1. g[i] = IF i = 0 THEN Undistributed(docs)
                 ELSE Distribute(g[i - 1], docs[i], Len(docs), i # bad)
      BY <2>1 DEF Turns
    <3>2. i # 0 => h[i - 1] = g[i - 1]
      BY <2>2
    <3> QED
      BY <2>2, <3>1, <3>2
  <2>4. h[m + 1] = Distribute(h[m], docs[m + 1], Len(docs), m + 1 # bad)
    BY <2>2
  <2>5. \A i \in 0..(m + 1) :
          h[i] = IF i = 0 THEN Undistributed(docs)
                 ELSE Distribute(h[i - 1], docs[i], Len(docs), i # bad)
    <3> TAKE i \in 0..(m + 1)
    <3>1. CASE i \in 0..m
      BY <2>3, <3>1
    <3>2. CASE i = m + 1
      BY <2>4, <3>2
    <3> QED
      BY <3>1, <3>2
  <2>6. h = [i \in 0..(m + 1) |-> h[i]]
    OBVIOUS
  <2> HIDE DEF h
  <2>7. Turns(docs, bad, m + 1, h)
    BY <2>5, <2>6 DEF Turns
  <2> QED
    BY <2>7
<1> HIDE DEF found
<1>3. n \in found
  BY <1>1, <1>2, StepByStep
<1> QED
  BY <1>3 DEF found

\* The import is the last of the turns.
LEMMA ImportTurns ==
  ASSUME NEW docs, Len(docs) \in Nat, NEW bad
  PROVE  \E g : /\ Turns(docs, bad, Len(docs), g)
                /\ ImportAllClamps(docs, bad) = g[Len(docs)]
<1> DEFINE g == CHOOSE f : Turns(docs, bad, Len(docs), f)
<1>1. Turns(docs, bad, Len(docs), g)
  BY TurnsExist
<1>2. ImportAllClamps(docs, bad) = g[Len(docs)]
  BY DEF ImportAllClamps, Turns
<1> QED
  BY <1>1, <1>2

\* A clamp that the documents name, and no other clamp with it.
Named(docs, c) ==
  \/ /\ \E doc \in Readable(docs) : doc.serial = clamp[c].serial
     /\ \A d \in Present \ {c} : clamp[d].serial # clamp[c].serial
  \/ Len(docs) = 1 /\ Present = {c}

\* After i documents: clamps that are done hold what they were programmed with, are
\* of their old type and were named; the others are as before.  Serial numbers change
\* only if there is one document.
Sound(docs, i, s) ==
  /\ s \in Progress
  /\ s.done \subseteq Present
  /\ \A c \in Clamps \ s.done : s.clamp[c] = clamp[c] /\ s.flash[c] = flash[c]
  /\ \A c \in s.done : /\ s.clamp[c] \in Objects /\ s.clamp[c].type = clamp[c].type
                       /\ s.flash[c] = s.clamp[c] /\ Named(docs, c)
  /\ s.answer = ErrExec => s.last \in s.done
  /\ Len(docs) # 1 \/ i = 0 => \A c \in Present : s.clamp[c].serial = clamp[c].serial

\* It holds before the first document.
LEMMA SoundStart ==
  ASSUME TypeOK, NEW docs
  PROVE  Sound(docs, 0, Undistributed(docs))
<1> DEFINE s == Undistributed(docs)
<1>1. /\ s.clamp = clamp /\ s.flash = flash /\ s.left = Cardinality(Present)
      /\ s.answer = (IF docs = <<>> \/ Present = {} THEN ErrXml ELSE Ack)
      /\ s.done = {} /\ s.last = NoClamp
  BY DEF Undistributed
<1>2. s \in Progress
  BY PresentFacts, ClampImportAssumption
  DEF Undistributed, Progress, TypeOK, MaybeObjects, Images
<1>3. ErrXml # ErrExec /\ Ack # ErrExec
  BY AnswersDiffer
<1> HIDE DEF s
<1>4. Sound(docs, 0, s)
  BY <1>1, <1>2, <1>3 DEF Sound
<1> QED
  BY <1>4 DEF s

\* Each document keeps it.
LEMMA SoundTurn ==
  ASSUME TypeOK, NEW docs \in Seq(Docs), NEW i \in 0..(Len(docs) - 1),
         NEW s, Sound(docs, i, s), NEW works \in BOOLEAN,
         NEW t, t = Distribute(s, docs[i + 1], Len(docs), works)
  PROVE  Sound(docs, i + 1, t)
<1> DEFINE doc == docs[i + 1]
<1>1. /\ Len(docs) \in Nat /\ i \in Nat /\ i + 1 \in 1..Len(docs) /\ doc \in Docs
      /\ Len(docs) # 1 \/ i = 0
      /\ i + 1 # 0
  OBVIOUS
<1>2. s \in Progress
  BY DEF Sound
<1> HIDE DEF doc
<1>3. CASE Skipped(s, doc, Len(docs), t)
  BY <1>1, <1>3 DEF Sound, Skipped
<1>4. CASE Refused(s, doc, t)
  BY <1>1, <1>4, AnswersDiffer DEF Sound, Refused
<1>5. ASSUME NEW c, NEW read, Given4Use(s, doc, Len(docs), works, c, read, t)
      PROVE  Sound(docs, i + 1, t)
  <2>1. c \in Present /\ c \in Clamps /\ clamp[c] \in Objects
    BY <1>5, PresentFacts DEF Given4Use
  <2>2. s.clamp[c] \in Objects /\ s.clamp[c].type = clamp[c].type
    BY <2>1 DEF Sound
  <2>3. /\ read \in Objects /\ read.type = clamp[c].type
        /\ read.serial \in {s.clamp[c].serial, doc.serial}
    BY <1>5, <2>2, ImportResult DEF Given4Use
  <2>4. \A d \in Present : s.clamp[d].serial = clamp[d].serial
    BY <1>1 DEF Sound
  <2>5. \/ SameSerial(s.clamp, doc) = {c}
        \/ Len(docs) = 1 /\ Present = {c}
    <3>1. c = Clamp4Use(s.clamp, doc, Len(docs)) /\ c # NoClamp
      BY <1>5, <2>1, PresentFacts DEF Given4Use
    <3> QED
      BY ONLY TypeOK, <3>1, Chosen
  <2>6. doc \in Readable(docs)
    BY <1>1, <1>5, ObjectIsSomething DEF Readable, Given4Use, doc
  <2>7. Named(docs, c)
    BY <2>1, <2>4, <2>5, <2>6 DEF Named, SameSerial
  <2>8. Len(docs) # 1 => read.serial = clamp[c].serial
    BY <2>3, <2>4, <2>5 DEF SameSerial
  <2>9. t \in Progress
    <3>1. /\ t.clamp \in [Clamps -> MaybeObjects] /\ t.flash \in [Clamps -> Images]
          /\ t.left \in Int /\ t.answer \in {Ack, ErrXml, ErrExec}
          /\ t.done \in SUBSET Clamps /\ t.last \in Clamps \cup {NoClamp}
      BY <1>2, <1>5, <2>1, <2>3 DEF Progress, MaybeObjects, Images, Given4Use
    <3> QED
      BY <1>5, <3>1 DEF Progress, Given4Use
  <2>10. /\ t.clamp = [s.clamp EXCEPT ![c] = read] /\ t.flash = [s.flash EXCEPT ![c] = read]
         /\ t.done = s.done \cup {c} /\ t.last = c
    BY <1>5 DEF Given4Use
  <2>11. /\ s.clamp \in [Clamps -> MaybeObjects] /\ s.flash \in [Clamps -> Images]
    BY <1>2 DEF Progress
  <2>12. \A d \in Clamps : d # c => t.clamp[d] = s.clamp[d] /\ t.flash[d] = s.flash[d]
    BY <2>10, <2>11
  <2>13. t.clamp[c] = read /\ t.flash[c] = read
    BY <2>1, <2>10, <2>11
  <2> QED
    BY <1>1, <2>1, <2>3, <2>4, <2>7, <2>8, <2>9, <2>10, <2>12, <2>13, PresentFacts DEF Sound
<1> QED
  BY <1>1, <1>2, <1>3, <1>4, <1>5, Turn DEF doc

\* What an import leaves is sound.
LEMMA SoundImport ==
  ASSUME TypeOK, NEW docs \in Seq(Docs), NEW bad
  PROVE  Sound(docs, Len(docs), ImportAllClamps(docs, bad))
<1>1. Len(docs) \in Nat
  OBVIOUS
<1>2. PICK g : Turns(docs, bad, Len(docs), g) /\ ImportAllClamps(docs, bad) = g[Len(docs)]
  BY <1>1, ImportTurns
<1> DEFINE good == {i \in Nat : Sound(docs, i, g[i])}
<1>3. 0 \in good
  <2>1. g[0] = Undistributed(docs)
    BY <1>1, <1>2 DEF Turns
  <2> QED
    BY <2>1, SoundStart
<1>4. ASSUME NEW i \in 0..(Len(docs) - 1), i \in good
      PROVE  i + 1 \in good
  <2>1. i \in Nat /\ i + 1 \in 0..Len(docs) /\ i + 1 # 0 /\ (i + 1) - 1 = i
    BY <1>1
  <2> DEFINE works == i + 1 # bad
  <2>2. g[i + 1] = Distribute(g[i], docs[i + 1], Len(docs), works)
    BY <1>2, <2>1 DEF Turns
  <2>3. works \in BOOLEAN /\ Sound(docs, i, g[i])
    BY <1>4
  <2> HIDE DEF works
  <2>4. Sound(docs, i + 1, g[i + 1])
    BY <2>2, <2>3, SoundTurn
  <2> QED
    BY <2>1, <2>4
<1> HIDE DEF good
<1>5. \A i \in 0..Len(docs) : i \in good
  BY ONLY <1>1, <1>3, <1>4, StepByStep
<1>6. Len(docs) \in good
  BY <1>1, <1>5
<1> QED
  BY <1>2, <1>6 DEF good

\* The documents that an export gives are of objects.
LEMMA ImportedType ==
  ASSUME TypeOK, NEW docs \in Imported
  PROVE  docs \in Seq(Docs)
<1>1. CASE docs \in DocLists
  BY <1>1, ClampImportAssumption DEF ClampImportAssumption
<1>2. CASE docs = ExportAllClamps
  <2> DEFINE n == Cardinality(Present)
             order == SetToSeq(Present)
  <2>1. n \in Nat /\ ExistsBijection(1..n, Present)
    BY PresentFacts, FS_CardinalityType
  <2>2. PICK f \in [1..n -> Present] : IsInjective(f)
    BY <2>1 DEF ExistsBijection, Bijection, Injection, IsInjective
  <2>3. order \in [1..n -> Present]
    BY <2>2 DEF SetToSeq
  <2>4. Len(order) = n
    BY <2>1, <2>3
  <2> HIDE DEF n, order
  <2>5. docs = [i \in 1..n |-> clamp[order[i]]]
    BY <1>2, <2>4 DEF ExportAllClamps, order
  <2>6. \A i \in 1..n : clamp[order[i]] \in Docs
    BY <2>3, PresentFacts DEF Docs
  <2> QED
    BY <2>1, <2>5, <2>6
<1> QED
  BY <1>1, <1>2 DEF Imported

-----------------------------------------------------------------------------
(***************************************************************************)
(* Types                                                                   *)
(***************************************************************************)

\* Both counts stay within their bounds.
LEMMA CountsType ==
  ASSUME TypeOK
  PROVE  /\ Edit \/ NoEdit => edits' \in 0..MaxEdits
         /\ Fault \/ NoFault => faults' \in 0..MaxFaults
  BY ClampImportAssumption DEF TypeOK, Edit, NoEdit, Fault, NoFault, ClampImportAssumption

\* What a clamp starts with is an object.
LEMMA StartedType ==
  ASSUME TypeOK, NEW c \in Clamps
  PROVE  Started(c) \in Objects
<1>1. [type |-> Undefined, serial |-> Factory, data |-> NewRanges(Undefined)] \in Objects
  BY ObjectOf, NewRangesType DEF AnyType, AnySerial
<1> QED
  BY <1>1 DEF Started, TypeOK

\* The write of a clamp's flash keeps the types.
LEMMA ExportType ==
  ASSUME TypeOK, NEW c \in Clamps, NEW o \in Objects, ExportAdjFlash(c, o)
  PROVE  /\ flash' \in [Clamps -> Objects \cup {Bad}]
         /\ promised' \in [Clamps -> Objects \cup {None}]
         /\ faults' \in 0..MaxFaults
  BY CountsType DEF ExportAdjFlash, TypeOK

\* So does an import.
LEMMA ImportClampsType ==
  ASSUME TypeOK, NEW docs \in Imported, ImportClamps(docs)
  PROVE  TypeOK'
<1>1. PICK bad \in 0..Len(docs) :
        LET r == ImportAllClamps(docs, bad) IN
         /\ clamp' = r.clamp
         /\ IF r.answer = ErrExec
            THEN /\ Fault
                 /\ \E image \in {flash[r.last], r.flash[r.last], Bad} :
                      flash' = [r.flash EXCEPT ![r.last] = image]
            ELSE bad = 0 /\ NoFault /\ flash' = r.flash
         /\ promised' = [c \in Clamps |->
                           IF c \notin r.done THEN promised[c]
                           ELSE IF r.answer = ErrExec THEN None ELSE clamp'[c]]
  BY DEF ImportClamps
<1> DEFINE r == ImportAllClamps(docs, bad)
<1>2. Sound(docs, Len(docs), r)
  BY SoundImport, ImportedType
<1> HIDE DEF r
<1>3. clamp' = r.clamp /\ clamp' \in [Clamps -> Objects \cup {NoClamp}]
  BY <1>1, <1>2 DEF Sound, Progress, MaybeObjects, r
<1>4. flash' \in [Clamps -> Objects \cup {Bad}]
  <2>1. r.flash \in [Clamps -> Objects \cup {Bad}]
    BY <1>2 DEF Sound, Progress, Images
  <2>2. r.answer = ErrExec => r.last \in Clamps
    BY <1>2, PresentFacts DEF Sound
  <2> QED
    BY <1>1, <2>1, <2>2 DEF TypeOK, r
<1>5. promised' \in [Clamps -> Objects \cup {None}]
  <2>1. \A c \in r.done : r.clamp[c] \in Objects
    BY <1>2 DEF Sound
  <2> QED
    BY <1>1, <1>3, <2>1 DEF TypeOK, r
<1>6. edits' \in 0..MaxEdits /\ faults' \in 0..MaxFaults
  BY <1>1, CountsType DEF ImportClamps
<1> QED
  BY <1>3, <1>4, <1>5, <1>6 DEF TypeOK

\* The commands of one clamp.
LEMMA OneClampType ==
  ASSUME TypeOK, NEW c \in Clamps
  PROVE  /\ PlugClamp(c) \/ UnplugClamp(c) => TypeOK'
         /\ WriteFlash(c) \/ ReadFlash(c) \/ ResetFlash(c) => TypeOK'
<1>1. ASSUME PlugClamp(c) PROVE TypeOK'
  <2>1. \A t \in {Undefined, Started(c).type} :
          [type |-> t, serial |-> Factory, data |-> NewRanges(t)] \in Objects
    BY StartedType, ObjectHas, ObjectOf, NewRangesType DEF AnyType, AnySerial
  <2>2. clamp' \in [Clamps -> Objects \cup {NoClamp}]
    BY <1>1, <2>1, StartedType DEF PlugClamp, TypeOK
  <2> QED
    BY <1>1, <2>2, CountsType DEF PlugClamp, TypeOK
<1>2. ASSUME UnplugClamp(c) PROVE TypeOK'
  BY <1>2, CountsType DEF UnplugClamp, TypeOK
<1>3. ASSUME WriteFlash(c) PROVE TypeOK'
  BY <1>3, PresentFacts, ExportType, CountsType DEF WriteFlash, TypeOK
<1>4. ASSUME ReadFlash(c) PROVE TypeOK'
  BY <1>4, CountsType DEF ReadFlash, TypeOK
<1>5. ASSUME ResetFlash(c) PROVE TypeOK'
  BY <1>5, CountsType DEF ResetFlash, TypeOK
<1> QED
  BY <1>1, <1>2, <1>3, <1>4, <1>5

\* The commands that change one clamp's data in memory.
LEMMA OneClampEditType ==
  ASSUME TypeOK, NEW c \in Clamps
  PROVE  /\ \A serial \in Serials : WriteSerial(c, serial) => TypeOK'
         /\ \A type \in Types : WriteType(c, type) => TypeOK'
         /\ \A r \in RangeNames, value \in Values : WriteData(c, r, value) => TypeOK'
         /\ \A doc \in Docs : ReadXML(c, doc) => TypeOK'
<1>1. ASSUME NEW serial \in Serials, WriteSerial(c, serial) PROVE TypeOK'
  <2>1. clamp[c] \in Objects
    BY <1>1, PresentFacts DEF WriteSerial
  <2>2. [clamp[c] EXCEPT !.serial = serial] =
          [type |-> clamp[c].type, serial |-> serial, data |-> clamp[c].data]
    BY <2>1, ObjectHas
  <2>3. [clamp[c] EXCEPT !.serial = serial] \in Objects
    BY <2>1, <2>2, ObjectHas, ObjectOf DEF AnySerial
  <2>4. clamp' = [clamp EXCEPT ![c] = [clamp[c] EXCEPT !.serial = serial]]
    BY <1>1 DEF WriteSerial
  <2>5. clamp' \in [Clamps -> Objects \cup {NoClamp}]
    BY <2>3, <2>4 DEF TypeOK
  <2> QED
    BY <1>1, <2>5, CountsType DEF WriteSerial, TypeOK
<1>2. ASSUME NEW type \in Types, WriteType(c, type) PROVE TypeOK'
  <2>1. clamp[c] \in Objects
    BY <1>2, PresentFacts DEF WriteType
  <2> DEFINE o == [type |-> type, serial |-> clamp[c].serial, data |-> NewRanges(type)]
  <2>2. o \in Objects
    BY <2>1, ObjectHas, ObjectOf, NewRangesType DEF AnyType
  <2> HIDE DEF o
  <2>3. clamp' = [clamp EXCEPT ![c] = o]
    BY <1>2 DEF WriteType, o
  <2>4. clamp'[c] = o /\ clamp' \in [Clamps -> Objects \cup {NoClamp}]
    BY <2>2, <2>3 DEF TypeOK
  <2>5. ExportAdjFlash(c, o)
    BY <1>2, <2>4 DEF WriteType
  <2> QED
    BY <1>2, <2>2, <2>4, <2>5, ExportType, CountsType DEF WriteType, TypeOK
<1>3. ASSUME NEW r \in RangeNames, NEW value \in Values, WriteData(c, r, value) PROVE TypeOK'
  <2>1. clamp[c] \in Objects
    BY <1>3, PresentFacts DEF WriteData
  <2> DEFINE d == [clamp[c].data EXCEPT ![r] = value]
  <2>2. d \in [Ranges(clamp[c].type) -> Values]
    BY <2>1, ObjectHas
  <2>3. [clamp[c] EXCEPT !.data = d] =
          [type |-> clamp[c].type, serial |-> clamp[c].serial, data |-> d]
    BY <2>1, ObjectHas
  <2>4. [clamp[c] EXCEPT !.data = d] \in Objects
    BY <2>1, <2>2, <2>3, ObjectHas, ObjectOf
  <2>5. clamp' = [clamp EXCEPT ![c] = [clamp[c] EXCEPT !.data = d]]
    BY <1>3 DEF WriteData
  <2>6. clamp' \in [Clamps -> Objects \cup {NoClamp}]
    BY <2>4, <2>5 DEF TypeOK
  <2> QED
    BY <1>3, <2>6, CountsType DEF WriteData, TypeOK
<1>4. ASSUME NEW doc \in Docs, ReadXML(c, doc) PROVE TypeOK'
  <2>1. clamp[c] \in Objects /\ doc \in Objects /\ doc.type = clamp[c].type
    BY <1>4, PresentFacts DEF ReadXML, Docs
  <2>2. PICK read \in SUBSET DOMAIN doc.data :
          LET part == [doc EXCEPT !.data = Restrict(@, read)]
          IN clamp' = [clamp EXCEPT ![c] = ImportXMLDocument(@, part, FALSE)]
    BY <1>4 DEF ReadXML
  <2> DEFINE kept == Restrict(doc.data, read)
             o == [type |-> clamp[c].type, serial |-> doc.serial,
                   data |-> Given(clamp[c], kept)]
  <2>3. kept \in [read -> Values]
    BY <2>1, ObjectHas DEF Restrict
  <2>4. o \in Objects
    BY <2>1, <2>3, ObjectHas, ObjectOf, GivenType
  <2>5. [doc EXCEPT !.data = kept] =
          [type |-> doc.type, serial |-> doc.serial, data |-> kept]
    BY <2>1, ObjectHas
  <2>6. ImportXMLDocument(clamp[c], [doc EXCEPT !.data = kept], FALSE) = o
    BY <2>1, <2>5 DEF ImportXMLDocument
  <2>7. clamp' = [clamp EXCEPT ![c] = o]
    BY <2>2, <2>6
  <2>8. clamp' \in [Clamps -> Objects \cup {NoClamp}]
    BY <2>4, <2>7 DEF TypeOK
  <2> QED
    BY <1>4, <2>8, CountsType DEF ReadXML, TypeOK
<1> QED
  BY <1>1, <1>2, <1>3, <1>4

\* Documents of a list are documents.
LEMMA ListedDocs ==
  ASSUME NEW docs \in DocLists, Len(docs) = 1
  PROVE  docs[1] \in Docs
<1>1. docs \in Seq(Docs)
  BY ClampImportAssumption DEF ClampImportAssumption
<1>2. 1 \in 1..Len(docs)
  OBVIOUS
<1> QED
  BY <1>1, <1>2

\* Every variable has its type in every state.
THEOREM TypeCorrect == Spec => []TypeOK
<1>1. Init => TypeOK
  <2> SUFFICES ASSUME Init PROVE TypeOK
    OBVIOUS
  <2>1. PICK written \in SUBSET Clamps, type \in [Clamps -> Types], serial \in [Clamps -> Serials] :
          flash = [c \in Clamps |->
                     IF c \in written
                     THEN [type |-> type[c], serial |-> serial[c], data |-> NewRanges(type[c])]
                     ELSE Bad]
    BY DEF Init
  <2>2. \A c \in Clamps :
          [type |-> type[c], serial |-> serial[c], data |-> NewRanges(type[c])] \in Objects
    BY ObjectOf, NewRangesType DEF AnyType, AnySerial
  <2>3. flash \in [Clamps -> Objects \cup {Bad}]
    BY <2>1, <2>2
  <2>4. /\ clamp \in [Clamps -> Objects \cup {NoClamp}]
        /\ promised \in [Clamps -> Objects \cup {None}]
    BY DEF Init
  <2> QED
    BY <2>3, <2>4, ClampImportAssumption DEF Init, TypeOK, ClampImportAssumption
<1>2. TypeOK /\ [Next]_vars => TypeOK'
  <2> SUFFICES ASSUME TypeOK, [Next]_vars PROVE TypeOK'
    OBVIOUS
  <2>1. ASSUME NEW c \in Clamps,
               \/ PlugClamp(c) \/ UnplugClamp(c)
               \/ WriteFlash(c) \/ ReadFlash(c) \/ ResetFlash(c)
               \/ \E serial \in Serials : WriteSerial(c, serial)
               \/ \E type \in Types : WriteType(c, type)
               \/ \E r \in RangeNames, value \in Values : WriteData(c, r, value)
               \/ \E docs \in DocLists : Len(docs) = 1 /\ ReadXML(c, docs[1])
        PROVE  TypeOK'
    BY <2>1, OneClampType, OneClampEditType, ListedDocs
  <2>2. ASSUME NEW docs \in Imported, ImportClamps(docs) PROVE TypeOK'
    BY <2>2, ImportClampsType
  <2>3. CASE UNCHANGED vars
    BY <2>3 DEF vars, TypeOK
  <2> QED
    BY <2>1, <2>2, <2>3 DEF Next
<1> QED
  BY <1>1, <1>2, PTL DEF Spec

-----------------------------------------------------------------------------
(***************************************************************************)
(* What an import touches                                                  *)
(***************************************************************************)

\* An import of any documents, with a write that fails or not, touches only clamps
\* that the documents name, and leaves their types.
THEOREM OnlyNamedClampsAlways == Spec => []OnlyNamedClamps
<1>1. TypeOK => OnlyNamedClamps
  <2> SUFFICES ASSUME TypeOK, NEW docs \in Imported, NEW bad \in 0..Len(docs), NEW c \in Clamps,
                      \/ ImportAllClamps(docs, bad).clamp[c] # clamp[c]
                      \/ ImportAllClamps(docs, bad).flash[c] # flash[c]
               PROVE  /\ c \in Present
                      /\ ImportAllClamps(docs, bad).clamp[c].type = clamp[c].type
                      /\ \/ /\ \E doc \in Readable(docs) : doc.serial = clamp[c].serial
                            /\ \A d \in Present \ {c} : clamp[d].serial # clamp[c].serial
                         \/ Len(docs) = 1 /\ Present = {c}
    BY DEF OnlyNamedClamps
  <2> DEFINE r == ImportAllClamps(docs, bad)
  <2>1. Sound(docs, Len(docs), r)
    BY SoundImport, ImportedType
  <2> HIDE DEF r
  <2>2. c \in r.done
    BY <2>1 DEF Sound, r
  <2>3. c \in Present /\ r.clamp[c].type = clamp[c].type /\ Named(docs, c)
    BY <2>1, <2>2 DEF Sound
  <2> QED
    BY <2>3 DEF Named, r
<1> QED
  BY <1>1, TypeCorrect, PTL

-----------------------------------------------------------------------------
(***************************************************************************)
(* What an acknowledged import has programmed                              *)
(***************************************************************************)

\* After i documents with different serial numbers, as long as none was refused: the
\* clamps still left are counted, each that is done has a document of its own and
\* holds its data, and none was missed.
Complete(docs, i, s) ==
  /\ s.left = Cardinality(Present) - Cardinality(s.done)
  /\ \A c \in s.done : \E j \in 1..i :
       /\ docs[j] # Strange
       /\ Len(docs) # 1 => docs[j].serial = clamp[c].serial
       /\ docs[j].type = clamp[c].type => s.clamp[c].data = docs[j].data
  /\ \/ s.left = 0
     \/ \A j \in 1..i, c \in Present :
          docs[j] # Strange /\ SameSerial(clamp, docs[j]) = {c} => c \in s.done

\* It holds before the first document.
LEMMA CompleteStart ==
  ASSUME TypeOK, NEW docs
  PROVE  Complete(docs, 0, Undistributed(docs))
<1>1. /\ Undistributed(docs).left = Cardinality(Present)
      /\ Undistributed(docs).done = {}
  BY DEF Undistributed
<1>2. Cardinality(Present) \in Nat /\ Cardinality({}) = 0
  BY PresentFacts, FS_EmptySet
<1> QED
  BY <1>1, <1>2 DEF Complete

\* Each document that is not refused keeps it.
LEMMA CompleteTurn ==
  ASSUME TypeOK, NEW docs \in Seq(Docs), Distinct(docs), NEW i \in 0..(Len(docs) - 1),
         NEW s, Sound(docs, i, s), s.answer = Ack => Complete(docs, i, s),
         NEW works \in BOOLEAN,
         NEW t, t = Distribute(s, docs[i + 1], Len(docs), works), t.answer = Ack
  PROVE  Complete(docs, i + 1, t)
<1> DEFINE doc == docs[i + 1]
<1>1. /\ Len(docs) \in Nat /\ i \in Nat /\ i + 1 \in 1..Len(docs) /\ doc \in Docs
      /\ Len(docs) # 1 \/ i = 0
      /\ \A j \in 1..i : j \in 1..(i + 1) /\ j # i + 1 /\ j \in 1..Len(docs)
      /\ \A j \in 1..(i + 1) : j \in 1..i \/ j = i + 1
  OBVIOUS
<1>2. s \in Progress /\ s.done \subseteq Present
  BY DEF Sound
<1>3. \A d \in Present : s.clamp[d].serial = clamp[d].serial
  BY <1>1 DEF Sound
<1>4. SameSerial(s.clamp, doc) = SameSerial(clamp, doc)
  BY <1>3 DEF SameSerial
<1>5. CASE Skipped(s, doc, Len(docs), t)
  <2>1. t = s /\ Complete(docs, i, s)
    BY <1>5 DEF Skipped
  <2>2. \A c \in s.done : \E j \in 1..(i + 1) :
          /\ docs[j] # Strange
          /\ Len(docs) # 1 => docs[j].serial = clamp[c].serial
          /\ docs[j].type = clamp[c].type => s.clamp[c].data = docs[j].data
    BY <1>1, <2>1 DEF Complete
  <2>3. ASSUME s.left # 0, NEW c \in Present, SameSerial(clamp, doc) = {c} PROVE FALSE
    <3>1. Clamp4Use(s.clamp, doc, Len(docs)) = NoClamp
      BY <1>5, <2>1, <2>3 DEF Skipped
    <3>2. SameSerial(s.clamp, doc) = {c}
      BY <1>4, <2>3
    <3>3. Clamp4Use(s.clamp, doc, Len(docs)) = c
      BY ONLY TypeOK, <3>2, Chosen
    <3> QED
      BY <2>3, <3>1, <3>3, PresentFacts
  <2>4. \/ s.left = 0
        \/ \A j \in 1..(i + 1), c \in Present :
             docs[j] # Strange /\ SameSerial(clamp, docs[j]) = {c} => c \in s.done
    BY <1>1, <2>1, <2>3 DEF Complete
  <2> QED
    BY <2>1, <2>2, <2>4 DEF Complete
<1>6. CASE Refused(s, doc, t)
  BY <1>6, AnswersDiffer DEF Refused
<1>7. ASSUME NEW c, NEW read, Given4Use(s, doc, Len(docs), works, c, read, t)
      PROVE  Complete(docs, i + 1, t)
  <2>1. c \in Present /\ c # NoClamp /\ c \in Clamps
    BY <1>7, PresentFacts DEF Given4Use
  <2>2. Complete(docs, i, s) /\ s.left # 0
    BY <1>7 DEF Given4Use
  <2>3. doc # Strange /\ doc \in Objects
    BY <1>7, ObjectIsSomething DEF Given4Use
  <2>4. Len(docs) # 1 => SameSerial(clamp, doc) = {c}
    <3>1. c = Clamp4Use(s.clamp, doc, Len(docs))
      BY <1>7 DEF Given4Use
    <3>2. \/ SameSerial(s.clamp, doc) = {c}
          \/ Len(docs) = 1
      BY ONLY TypeOK, <2>1, <3>1, Chosen
    <3> QED
      BY <1>4, <3>2
  <2>5. Len(docs) # 1 => doc.serial = clamp[c].serial
    BY <2>4 DEF SameSerial
  <2>6. c \notin s.done
    <3> SUFFICES ASSUME c \in s.done PROVE FALSE
      OBVIOUS
    <3>1. PICK j \in 1..i : /\ docs[j] # Strange
                            /\ Len(docs) # 1 => docs[j].serial = clamp[c].serial
      BY <2>2 DEF Complete
    <3>2. Len(docs) # 1
      BY <1>1, <3>1
    <3>3. docs[j].serial = doc.serial
      BY <2>5, <3>1, <3>2
    <3>4. j \in DOMAIN docs /\ i + 1 \in DOMAIN docs /\ j # i + 1
      BY <1>1
    <3> QED
      BY <2>3, <3>1, <3>3, <3>4 DEF Distinct
  <2>7. t.left = Cardinality(Present) - Cardinality(t.done)
    <3>1. IsFiniteSet(s.done) /\ Cardinality(s.done) \in Nat /\ Cardinality(Present) \in Nat
      BY <1>2, PresentFacts, FS_Subset, FS_CardinalityType
    <3>2. Cardinality(s.done \cup {c}) = Cardinality(s.done) + 1
      BY <2>6, <3>1, FS_AddElement
    <3>3. t.left = s.left - 1 /\ t.done = s.done \cup {c}
      BY <1>7 DEF Given4Use
    <3> QED
      BY <2>2, <3>1, <3>2, <3>3 DEF Complete
  <2>8. /\ t.clamp[c] = read
        /\ \A d \in Clamps \ {c} : t.clamp[d] = s.clamp[d]
    BY <1>2, <1>7, <2>1 DEF Progress, Given4Use
  <2>9. doc.type = clamp[c].type => read.data = doc.data
    <3>1. s.clamp[c] \in Objects /\ s.clamp[c].type = clamp[c].type
      BY <2>1, PresentFacts DEF Sound
    <3>2. PICK ignore \in BOOLEAN : read = ImportXMLDocument(s.clamp[c], doc, ignore)
      BY <1>7 DEF Given4Use
    <3>3. doc.type = s.clamp[c].type => read.data = doc.data
      BY ONLY <2>3, <3>1, <3>2, ImportResult
    <3> QED
      BY <3>1, <3>3
  <2>10. \A d \in t.done : \E j \in 1..(i + 1) :
          /\ docs[j] # Strange
          /\ Len(docs) # 1 => docs[j].serial = clamp[d].serial
          /\ docs[j].type = clamp[d].type => t.clamp[d].data = docs[j].data
    <3> TAKE d \in t.done
    <3>1. CASE d = c
      BY <1>1, <2>3, <2>5, <2>8, <2>9, <3>1
    <3>2. CASE d # c
      <4>1. d \in s.done /\ d \in Clamps
        BY <1>2, <1>7, <3>2, PresentFacts DEF Given4Use
      <4>2. PICK j \in 1..i :
              /\ docs[j] # Strange
              /\ Len(docs) # 1 => docs[j].serial = clamp[d].serial
              /\ docs[j].type = clamp[d].type => s.clamp[d].data = docs[j].data
        BY <2>2, <4>1 DEF Complete
      <4> QED
        BY <1>1, <2>8, <3>2, <4>1, <4>2
    <3> QED
      BY <3>1, <3>2
  <2>11. \A j \in 1..(i + 1), d \in Present :
          docs[j] # Strange /\ SameSerial(clamp, docs[j]) = {d} => d \in t.done
    <3> SUFFICES ASSUME NEW j \in 1..(i + 1), NEW d \in Present,
                        docs[j] # Strange, SameSerial(clamp, docs[j]) = {d}
                 PROVE  d \in s.done \cup {c}
      BY <1>7 DEF Given4Use
    <3>1. CASE j \in 1..i
      BY <2>2, <3>1 DEF Complete
    <3>2. CASE j = i + 1
      <4>1. SameSerial(s.clamp, doc) = {d}
        BY <1>4, <3>2
      <4>2. Clamp4Use(s.clamp, doc, Len(docs)) = d
        BY ONLY TypeOK, <4>1, Chosen
      <4> QED
        BY <1>7, <4>2 DEF Given4Use
    <3> QED
      BY <1>1, <3>1, <3>2
  <2> QED
    BY <2>7, <2>10, <2>11 DEF Complete
<1> QED
  BY <1>2, <1>5, <1>6, <1>7, <1>1, Turn

\* An acknowledged import is complete.
LEMMA CompleteImport ==
  ASSUME TypeOK, NEW docs \in Seq(Docs), Distinct(docs), NEW bad,
         ImportAllClamps(docs, bad).answer = Ack
  PROVE  Complete(docs, Len(docs), ImportAllClamps(docs, bad))
<1>1. Len(docs) \in Nat
  OBVIOUS
<1>2. PICK g : Turns(docs, bad, Len(docs), g) /\ ImportAllClamps(docs, bad) = g[Len(docs)]
  BY <1>1, ImportTurns
<1> DEFINE good == {i \in Nat : Sound(docs, i, g[i])
                                /\ (g[i].answer = Ack => Complete(docs, i, g[i]))}
<1>3. 0 \in good
  <2>1. g[0] = Undistributed(docs)
    BY <1>1, <1>2 DEF Turns
  <2> QED
    BY <2>1, SoundStart, CompleteStart
<1>4. ASSUME NEW i \in 0..(Len(docs) - 1), i \in good
      PROVE  i + 1 \in good
  <2>1. i \in Nat /\ i + 1 \in 0..Len(docs) /\ i + 1 # 0 /\ (i + 1) - 1 = i
    BY <1>1
  <2> DEFINE works == i + 1 # bad
  <2>2. g[i + 1] = Distribute(g[i], docs[i + 1], Len(docs), works)
    BY <1>2, <2>1 DEF Turns
  <2>3. /\ works \in BOOLEAN /\ Sound(docs, i, g[i])
        /\ g[i].answer = Ack => Complete(docs, i, g[i])
    BY <1>4
  <2> HIDE DEF works
  <2>4. Sound(docs, i + 1, g[i + 1])
    BY <2>2, <2>3, SoundTurn
  <2>5. g[i + 1].answer = Ack => Complete(docs, i + 1, g[i + 1])
    BY <2>2, <2>3, CompleteTurn
  <2> QED
    BY <2>1, <2>4, <2>5
<1> HIDE DEF good
<1>5. \A i \in 0..Len(docs) : i \in good
  BY ONLY <1>1, <1>3, <1>4, StepByStep
<1>6. Len(docs) \in good
  BY <1>1, <1>5
<1> QED
  BY <1>2, <1>6 DEF good

\* An acknowledged import has programmed each clamp that alone has the serial number of
\* a document, with the data of that document if it is for the clamp's type.
THEOREM AckedAllProgrammedAlways == Spec => []AckedAllProgrammed
<1>1. TypeOK => AckedAllProgrammed
  <2> SUFFICES ASSUME TypeOK, NEW docs \in Imported,
                      ImportAllClamps(docs, 0).answer = Ack, Distinct(docs),
                      NEW doc \in Readable(docs), NEW c \in Present,
                      SameSerial(clamp, doc) = {c}
               PROVE  LET r == ImportAllClamps(docs, 0) IN
                        /\ r.flash[c] = r.clamp[c]
                        /\ doc.type = clamp[c].type => r.clamp[c].data = doc.data
    BY DEF AckedAllProgrammed
  <2> DEFINE r == ImportAllClamps(docs, 0)
  <2>1. docs \in Seq(Docs)
    BY ImportedType
  <2>2. Sound(docs, Len(docs), r) /\ Complete(docs, Len(docs), r)
    BY <2>1, SoundImport, CompleteImport
  <2> HIDE DEF r
  <2>3. PICK k \in 1..Len(docs) : doc = docs[k] /\ docs[k] # Strange
    BY <2>1 DEF Readable
  <2>4. c \in r.done
    <3>1. CASE r.left = 0
      <4>1. r.done \subseteq Present
        BY <2>2 DEF Sound
      <4>2. /\ IsFiniteSet(Present) /\ Cardinality(Present) \in Nat
            /\ Cardinality(r.done) \in Nat
        BY <4>1, PresentFacts, FS_Subset, FS_CardinalityType
      <4>3. Cardinality(Present) = Cardinality(r.done)
        BY <2>2, <3>1, <4>2 DEF Complete
      <4>4. Present = r.done
        BY <4>1, <4>2, <4>3, FS_Subset
      <4> QED
        BY <4>4
    <3>2. CASE r.left # 0
      BY <2>2, <2>3, <3>2 DEF Complete
    <3> QED
      BY <3>1, <3>2
  <2>5. PICK j \in 1..Len(docs) :
          /\ docs[j] # Strange
          /\ Len(docs) # 1 => docs[j].serial = clamp[c].serial
          /\ docs[j].type = clamp[c].type => r.clamp[c].data = docs[j].data
    BY <2>2, <2>4 DEF Complete
  <2>6. doc.serial = clamp[c].serial
    BY DEF SameSerial
  <2>7. j = k
    <3>1. CASE Len(docs) = 1
      BY <3>1
    <3>2. CASE Len(docs) # 1
      <4>1. docs[j].serial = docs[k].serial
        BY <2>3, <2>5, <2>6, <3>2
      <4>2. j \in DOMAIN docs /\ k \in DOMAIN docs
        BY <2>1
      <4> QED
        BY <2>3, <2>5, <4>1, <4>2 DEF Distinct
    <3> QED
      BY <3>1, <3>2
  <2>8. r.flash[c] = r.clamp[c]
    BY <2>2, <2>4 DEF Sound
  <2> QED
    BY <2>3, <2>5, <2>7, <2>8 DEF r
<1> QED
  BY <1>1, TypeCorrect, PTL

-----------------------------------------------------------------------------
(***************************************************************************)
(* What was acknowledged is in the flash                                   *)
(***************************************************************************)

PromiseIsInFlash == \A c \in Clamps : promised[c] # None => flash[c] = promised[c]

\* The write of a clamp's flash makes it true for that clamp.
LEMMA ExportPromise ==
  ASSUME TypeOK, PromiseIsInFlash, NEW c \in Clamps, NEW o, ExportAdjFlash(c, o)
  PROVE  PromiseIsInFlash'
  BY DEF ExportAdjFlash, PromiseIsInFlash, TypeOK

\* An import promises only what it has written, and nothing of the clamp that failed.
LEMMA ImportPromise ==
  ASSUME TypeOK, PromiseIsInFlash, NEW docs \in Imported, ImportClamps(docs)
  PROVE  PromiseIsInFlash'
<1>1. PICK bad \in 0..Len(docs) :
        LET r == ImportAllClamps(docs, bad) IN
         /\ clamp' = r.clamp
         /\ IF r.answer = ErrExec
            THEN /\ Fault
                 /\ \E image \in {flash[r.last], r.flash[r.last], Bad} :
                      flash' = [r.flash EXCEPT ![r.last] = image]
            ELSE bad = 0 /\ NoFault /\ flash' = r.flash
         /\ promised' = [c \in Clamps |->
                           IF c \notin r.done THEN promised[c]
                           ELSE IF r.answer = ErrExec THEN None ELSE clamp'[c]]
  BY DEF ImportClamps
<1> DEFINE r == ImportAllClamps(docs, bad)
<1>2. Sound(docs, Len(docs), r)
  BY SoundImport, ImportedType
<1> HIDE DEF r
<1>3. r.flash \in [Clamps -> Images]
  BY <1>2 DEF Sound, Progress
<1>4. ASSUME NEW c \in Clamps, promised'[c] # None PROVE flash'[c] = promised'[c]
  <2>1. CASE c \notin r.done
    <3>1. promised'[c] = promised[c] /\ flash[c] = promised[c]
      BY <1>1, <1>4, <2>1 DEF PromiseIsInFlash, r
    <3>2. r.flash[c] = flash[c]
      BY <1>2, <2>1 DEF Sound
    <3>3. r.answer = ErrExec => r.last # c
      BY <1>2, <2>1 DEF Sound
    <3>4. flash'[c] = r.flash[c]
      BY <1>1, <1>3, <3>3 DEF r
    <3> QED
      BY <3>1, <3>2, <3>4
  <2>2. CASE c \in r.done
    <3>1. r.answer # ErrExec /\ promised'[c] = r.clamp[c] /\ flash' = r.flash
      BY <1>1, <1>4, <2>2 DEF r
    <3> QED
      BY <1>2, <2>2, <3>1 DEF Sound
  <2> QED
    BY <2>1, <2>2
<1> QED
  BY <1>4 DEF PromiseIsInFlash

\* Every step keeps it.
LEMMA PromiseStep ==
  ASSUME TypeOK, PromiseIsInFlash, [Next]_vars
  PROVE  PromiseIsInFlash'
<1>1. ASSUME UNCHANGED <<flash, promised>>
      PROVE  PromiseIsInFlash'
  BY <1>1 DEF PromiseIsInFlash
<1>2. ASSUME NEW c \in Clamps,
             \/ PlugClamp(c) \/ UnplugClamp(c) \/ ReadFlash(c)
             \/ \E serial \in Serials : WriteSerial(c, serial)
             \/ \E r \in RangeNames, value \in Values : WriteData(c, r, value)
             \/ \E docs \in DocLists : Len(docs) = 1 /\ ReadXML(c, docs[1])
      PROVE  PromiseIsInFlash'
  BY <1>1, <1>2 DEF PlugClamp, UnplugClamp, ReadFlash, WriteSerial, WriteData, ReadXML
<1>3. ASSUME NEW c \in Clamps, WriteFlash(c) \/ \E type \in Types : WriteType(c, type)
      PROVE  PromiseIsInFlash'
  BY <1>3, ExportPromise DEF WriteFlash, WriteType
<1>4. ASSUME NEW c \in Clamps, ResetFlash(c)
      PROVE  PromiseIsInFlash'
  BY <1>4 DEF ResetFlash, PromiseIsInFlash, TypeOK
<1>5. ASSUME NEW docs \in Imported, ImportClamps(docs)
      PROVE  PromiseIsInFlash'
  BY <1>5, ImportPromise
<1>6. CASE UNCHANGED vars
  BY <1>1, <1>6 DEF vars
<1> QED
  BY <1>2, <1>3, <1>4, <1>5, <1>6 DEF Next

\* A clamp that is plugged again brings what was acknowledged as stored in it, if that
\* has a type.
THEOREM AckedSurvivesAlways == Spec => AckedSurvives
<1>1. Init => PromiseIsInFlash
  BY DEF Init, PromiseIsInFlash
<1>2. TypeOK /\ PromiseIsInFlash /\ [Next]_vars => PromiseIsInFlash'
  BY PromiseStep
<1>3. ASSUME TypeOK, PromiseIsInFlash, NEW c \in Clamps,
             PlugClamp(c), UNCHANGED faults,
             promised[c] # None, promised[c].type # Undefined
      PROVE  clamp'[c] = promised[c]
  <2>1. flash[c] = promised[c] /\ promised[c] \in Objects
    BY <1>3 DEF PromiseIsInFlash, TypeOK
  <2>2. Started(c) = flash[c]
    BY <1>3, <2>1, ObjectIsSomething DEF Started
  <2>3. ~Fault
    BY <1>3 DEF Fault, TypeOK
  <2>4. clamp' = [clamp EXCEPT ![c] = Started(c)]
    BY <1>3, <2>3 DEF PlugClamp
  <2> QED
    BY <1>3, <2>1, <2>2, <2>4 DEF TypeOK
<1>4. TypeOK /\ PromiseIsInFlash =>
        [\A c \in Clamps :
           /\ PlugClamp(c) /\ UNCHANGED faults
           /\ promised[c] # None /\ promised[c].type # Undefined
           => clamp'[c] = promised[c]]_vars
  BY <1>3
<1> QED
  BY <1>1, <1>2, <1>4, TypeCorrect, PTL DEF Spec, AckedSurvives
=============================================================================
