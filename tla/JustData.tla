---------------------------- MODULE JustData ----------------------------
(***************************************************************************)
(* The adjustment data of a voltage range and of a clamp range that        *)
(* measures through it: for each a gain, a phase and an offset curve, with *)
(* nodes that clients set, coefficients computed from them, and a status.  *)
(*                                                                         *)
(* The code's numbers are floating point.  Here they are those of a field  *)
(* with a prime number of elements, so that as many nodes determine one    *)
(* polynomial as in the code, and nothing is rounded.  Commands refused    *)
(* because of the access switch change nothing, and are left out.          *)
(***************************************************************************)
EXTENDS Integers, Sequences, TLC

CONSTANTS
  Prime,        \* elements of the field
  NaN,          \* a coefficient that could not be computed
  Order,        \* GainCorrOrder, PhaseCorrOrder and OffsetCorrOrder
  Board, Clamp, \* the ranges
  CvRatio,      \* m_cvRatio of the clamp range
  Edited,       \* curves that clients write one by one
  Corrections, Arguments,  \* of nodes that clients set
  Coefficients, \* that clients set
  Statuses,     \* numbers that clients write as status
  Stored,       \* ranges whose data are stored and read
  MaxEdits      \* bound on nodes, coefficients and status written

Numbers == 0..(Prime - 1)
Indices == 0..Order
Kinds == {"gain", "phase", "offset"}
Ranges == {Board, Clamp}
Curves == Ranges \X Kinds
CurvesOf(range) == {range} \X Kinds

ASSUME JustDataAssumption ==
  /\ Prime \in Nat \ {0, 1}
  /\ \A d \in 2..(Prime - 1) : Prime % d # 0
  /\ NaN \notin Numbers
  /\ Order \in Nat /\ Order < Prime
  /\ Board # Clamp
  /\ CvRatio \in Numbers \ {0}
  /\ Edited \subseteq Curves
  /\ Corrections \cup Arguments \cup Coefficients \subseteq Numbers
  /\ Statuses \subseteq Nat
  /\ Stored \subseteq Ranges
  /\ MaxEdits \in Nat

\* cJustNode
JustNode(corr, arg) == [corr |-> corr, arg |-> arg]
JustNodes == [corr : Numbers, arg : Numbers]

VARIABLES
  data,      \* node, coef and status of each curve
  flash,     \* what was serialized last of these, with its history
  edits,
  \* history
  sent,      \* nodes set one after the other, the first first
  computed   \* curves whose coefficients are of their nodes

vars == <<data, flash, edits, sent, computed>>

-----------------------------------------------------------------------------
(***************************************************************************)
(* One curve                                                               *)
(***************************************************************************)

\* Mutant: only the node itself is set.
SetOneNode(curve, index, jn) == [curve EXCEPT !.node[index] = jn]

\* setNode: the higher ones become the same.
SetNode(curve, index, jn) ==
  [curve EXCEPT !.node = [i \in Indices |-> IF i < index THEN @[i] ELSE jn]]

\* setCoefficient: the higher ones become zero.
SetCoefficient(curve, index, value) ==
  [curve EXCEPT !.coef =
     [i \in Indices |-> IF i < index THEN @[i] ELSE IF i = index THEN value ELSE 0]]

\* 1, arg, arg * arg, and so on.
Powers(arg) ==
  LET power[i \in Indices] == IF i = 0 THEN 1 ELSE power[i - 1] * arg
  IN power

\* The sums of the first terms of a polynomial.
Sums(coef, arg) ==
  LET sum[i \in Indices] ==
        IF i = 0 THEN coef[0] ELSE sum[i - 1] + coef[i] * Powers(arg)[i]
  IN sum

\* The value of each polynomial at each argument.
Polynomial ==
  [coef \in [Indices -> Numbers] |->
     [arg \in Numbers |-> Sums(coef, arg)[Order] % Prime]]

\* getCorrection
Correction(curve, arg) ==
  IF NaN \in {curve.coef[i] : i \in Indices} THEN NaN ELSE Polynomial[curve.coef][arg]

\* The first neighbours with one argument end the nodes that count.
RealOrd(curve) ==
  CHOOSE r \in Indices :
    /\ \A i \in 0..(r - 1) : curve.node[i].arg # curve.node[i + 1].arg
    /\ r < Order => curve.node[r].arg = curve.node[r + 1].arg

\* cGaussMatrix: the coefficients of the polynomial through the first nodes, which
\* is the only one unless two of them have the same argument.
Interpolation ==
  [nodes \in UNION {[0..r -> JustNodes] : r \in Indices} |->
     LET used == DOMAIN nodes
     IN IF \A i, j \in used : i # j => nodes[i].arg # nodes[j].arg
        THEN CHOOSE coef \in [Indices -> Numbers] :
               /\ \A i \in used : Polynomial[coef][nodes[i].arg] = nodes[i].corr
               /\ \A i \in Indices \ used : coef[i] = 0
        ELSE [i \in Indices |-> IF i \in used THEN NaN ELSE 0]]

\* cmpCoefficients
CmpCoefficients(curve) ==
  [curve EXCEPT !.coef = Interpolation[[i \in 0..RealOrd(curve) |-> curve.node[i]]]]

\* Mutant: the coefficients stay.
InitNodeOnly(curve, init) ==
  [SetNode(curve, 0, JustNode(init, 0)) EXCEPT !.status = 0]

\* initJustData
InitJustData(curve, init) ==
  [CmpCoefficients(SetNode(curve, 0, JustNode(init, 0))) EXCEPT !.status = 0]

\* What the three curves of a range start with.
Neutral(kind) == IF kind = "gain" THEN 1 ELSE 0

\* A new object.
NewData(kind) ==
  LET blank == [node |-> [i \in Indices |-> JustNode(0, 0)],
                coef |-> [i \in Indices |-> 0], status |-> 0]
  IN InitJustData(blank, Neutral(kind))

-----------------------------------------------------------------------------
(***************************************************************************)
(* Corrections of a range: a clamp range is two stages                     *)
(***************************************************************************)
DividedBy(x, y) == CHOOSE z \in Numbers : (z * y) % Prime = x

Plus(x, y) == IF NaN \in {x, y} THEN NaN ELSE (x + y) % Prime
Times(x, y) == IF NaN \in {x, y} THEN NaN ELSE (x * y) % Prime

\* CORRECTION:ADJGAIN, ADJPHASE, ADJOFFSET
JustCorrection(range, kind, par) == Correction(data[<<range, kind>>], par)

\* The value at the voltage input when par is the clamp's.
FirstStage(kind, par) ==
  JustCorrection(Board, kind, IF kind = "phase" THEN par ELSE DividedBy(par, CvRatio))

\* CORRECTION:GAIN, PHASE, OFFSET
FullCorrection(range, kind, par) ==
  LET own == JustCorrection(range, kind, par)
  IN IF range = Board THEN own
     ELSE IF kind = "gain" THEN Times(own, FirstStage(kind, par))
     ELSE Plus(own, FirstStage(kind, par))

-----------------------------------------------------------------------------
(***************************************************************************)
(* Commands                                                                *)
(***************************************************************************)
Edit == edits < MaxEdits /\ edits' = edits + 1

\* NODE.  A client that sends a node again goes on from there, and one that leaves
\* nodes out has sent none.  A node above the order is acknowledged too, and changes
\* nothing: no step.
WriteNode(c, index, jn) ==
  /\ Edit
  /\ data' = [data EXCEPT ![c] = SetNode(@, index, jn)]
  /\ sent' = IF index <= Len(sent[c])
             THEN [sent EXCEPT ![c] = Append(SubSeq(@, 1, index), jn)]
             ELSE sent
  /\ computed' = computed \ {c}
  /\ UNCHANGED flash

\* COEFFICIENT
WriteCoefficient(c, index, value) ==
  /\ Edit
  /\ data' = [data EXCEPT ![c] = SetCoefficient(@, index, value)]
  /\ computed' = computed \ {c}
  /\ UNCHANGED <<flash, sent>>

\* Mutant: the number is kept as it is.
StatusNumber(par) == par

\* The number as a quint8.
StatusByte(par) == par % 256

\* STATUS
WriteStatus(c, par) ==
  /\ Edit
  /\ data' = [data EXCEPT ![c].status = StatusByte(par)]
  /\ UNCHANGED <<flash, sent, computed>>

\* CORRECTION:COMPUTE of a range, and the one of all.
ComputeJustData(range) ==
  /\ data' = [c \in Curves |->
                IF c \in CurvesOf(range) THEN CmpCoefficients(data[c]) ELSE data[c]]
  /\ computed' = computed \cup CurvesOf(range)
  /\ UNCHANGED <<flash, edits, sent>>

ComputeAll ==
  /\ data' = [c \in Curves |-> CmpCoefficients(data[c])]
  /\ computed' = Curves
  /\ UNCHANGED <<flash, edits, sent>>

\* CORRECTION:INIT of a range, and the one of all.
InitCurves(curves) ==
  /\ data' = [c \in Curves |->
                IF c \in curves THEN InitJustData(data[c], Neutral(c[2])) ELSE data[c]]
  /\ sent' = [c \in Curves |->
                IF c \in curves THEN <<JustNode(Neutral(c[2]), 0)>> ELSE sent[c]]
  /\ computed' = computed \cup curves
  /\ UNCHANGED <<flash, edits>>

InitRange(range) == InitCurves(CurvesOf(range))
InitAll == InitCurves(Curves)

\* The data of a range are written as they are, and read again.
Serialize(range) ==
  /\ flash' = [flash EXCEPT ![range] =
                 [data |-> [k \in Kinds |-> data[<<range, k>>]],
                  sent |-> [k \in Kinds |-> sent[<<range, k>>]],
                  computed |-> computed \cap CurvesOf(range)]]
  /\ UNCHANGED <<data, edits, sent, computed>>

Deserialize(range) ==
  /\ data' = [c \in Curves |-> IF c[1] = range THEN flash[range].data[c[2]] ELSE data[c]]
  /\ sent' = [c \in Curves |-> IF c[1] = range THEN flash[range].sent[c[2]] ELSE sent[c]]
  /\ computed' = (computed \ CurvesOf(range)) \cup flash[range].computed
  /\ UNCHANGED <<flash, edits>>

Init ==
  /\ data = [c \in Curves |-> NewData(c[2])]
  /\ sent = [c \in Curves |-> <<JustNode(Neutral(c[2]), 0)>>]
  /\ computed = Curves
  /\ flash = [range \in Stored |->
                [data |-> [k \in Kinds |-> data[<<range, k>>]],
                 sent |-> [k \in Kinds |-> sent[<<range, k>>]],
                 computed |-> CurvesOf(range)]]
  /\ edits = 0

WriteCurve ==
  \E c \in Edited :
    \/ \E i \in Indices, corr \in Corrections, arg \in Arguments :
         WriteNode(c, i, JustNode(corr, arg))
    \/ \E i \in Indices, value \in Coefficients : WriteCoefficient(c, i, value)
    \/ \E par \in Statuses : WriteStatus(c, par)

Next ==
  \/ WriteCurve
  \/ ComputeAll \/ InitAll
  \/ \E range \in Ranges : ComputeJustData(range) \/ InitRange(range)
  \/ \E range \in Stored : Serialize(range) \/ Deserialize(range)

Spec == Init /\ [][Next]_vars

-----------------------------------------------------------------------------
(***************************************************************************)
(* Properties                                                              *)
(***************************************************************************)

CurveType ==
  [node : [Indices -> JustNodes], coef : [Indices -> Numbers \cup {NaN}], status : 0..255]

\* What was serialized of a range, with its history.
StoredType ==
  [data : [Kinds -> CurveType], sent : [Kinds -> Seq(JustNodes)], computed : SUBSET Curves]

\* Every variable has its type.
TypeOK ==
  /\ data \in [Curves -> CurveType]
  /\ flash \in [Stored -> StoredType]
  /\ edits \in 0..MaxEdits
  /\ sent \in [Curves -> Seq(JustNodes)]
  /\ \A c \in Curves : Len(sent[c]) \in 1..(Order + 1)
  /\ computed \subseteq Curves

\* Nodes sent in order, from any node on again, whatever came before, and with no
\* argument twice, are those of the curve after the next COMPUTE, and the curve has
\* no higher order than they need; also if the data were stored and read between.
SentNodesFit ==
  \A c \in computed :
    (\A i, j \in DOMAIN sent[c] : i # j => sent[c][i].arg # sent[c][j].arg) =>
      /\ \A i \in DOMAIN sent[c] : Correction(data[c], sent[c][i].arg) = sent[c][i].corr
      /\ \A i \in Len(sent[c])..Order : data[c].coef[i] = 0

\* A clamp range that is not adjusted, or initialized again, corrects as the voltage
\* range alone does, whatever is done with that one.
UnadjustedClampIsBoard ==
  \A kind \in Kinds, par \in Numbers :
    /\ <<Clamp, kind>> \in computed
    /\ sent[<<Clamp, kind>>] = <<JustNode(Neutral(kind), 0)>>
    => FullCorrection(Clamp, kind, par) = FirstStage(kind, par)
=============================================================================
