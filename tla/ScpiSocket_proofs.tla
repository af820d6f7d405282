------------------------ MODULE ScpiSocket_proofs ------------------------
(***************************************************************************)
(* Proofs about ScpiSocket for any number of clients, lines and failing    *)
(* transactions.                                                           *)
(***************************************************************************)
EXTENDS ScpiSocket, FiniteSetTheorems, WellFoundedInduction, TLAPS

-----------------------------------------------------------------------------
(***************************************************************************)
(* The sampling interface                                                  *)
(***************************************************************************)

\* A set of natural numbers has a least one.
LEMMA LeastNat ==
  ASSUME NEW S, S \subseteq Nat, S # {}
  PROVE  \E m \in S : \A k \in S : m <= k
<1>1. PICK m \in S : \A y \in S : ~(<<y, m>> \in OpToRel(<, Nat))
  BY NatLessThanWellFounded, WFMin
<1>2. \A y \in S : ~(y < m)
  BY <1>1 DEF OpToRel
<1>3. \A y \in S : m \in Nat /\ y \in Nat
  OBVIOUS
<1>4. \A y \in S : m <= y
  BY <1>2, <1>3
<1> QED
  BY <1>4

\* The first entry of a list that fits.
LEMMA First ==
  ASSUME NEW I, I \subseteq Nat, I # {}
  PROVE  Min(I) \in I
  BY LeastNat DEF Min

\* The number of a name of the list stands for that name; any other name has the
\* number 255.
LEMMA PllNumberIs ==
  ASSUME NEW name, NEW n, n = PllNumber(name)
  PROVE  /\ n \in Numbers
         /\ name \in PllNames => PllName(n) = name
         /\ name \notin PllNames => n = 255
<1> DEFINE I == {i \in 1..Len(PllChannels) : PllChannels[i] = name}
<1>1. /\ DOMAIN PllChannels = 1..8 /\ Len(PllChannels) = 8
  BY SamplingAssumption DEF SamplingAssumption
<1>2. n = ((IF I # {} THEN Min(I) ELSE 0) - 1) % 256
  BY DEF PllNumber, SelectInSeq
<1>3. I \subseteq 1..8 /\ (I # {} <=> name \in PllNames)
  BY <1>1 DEF PllNames
<1>4. CASE I = {}
  <2> DEFINE m == 0 - 1
  <2>0. m \in Int /\ m + 1 = 0
    OBVIOUS
  <2>1. n = m % 256
    BY <1>2, <1>4
  <2> HIDE DEF m
  <2>2. m % 256 = 255
    BY <2>0
  <2> QED
    BY <1>3, <1>4, <2>1, <2>2 DEF Numbers
<1>5. CASE I # {}
  <2>1. Min(I) \in I
    BY <1>3, <1>5, First
  <2> DEFINE m == Min(I)
  <2> HIDE DEF m
  <2>2. m \in 1..8 /\ PllChannels[m] = name
    BY <1>3, <2>1 DEF m
  <2>3. n = (m - 1) % 256
    BY <1>2, <1>5 DEF m
  <2>4. n = m - 1
    BY <2>2, <2>3
  <2> QED
    BY <1>3, <1>5, <2>2, <2>4 DEF Numbers, PllName
<1> QED
  BY <1>4, <1>5

\* The number of the controller is answered with a name of the list or an error.
LEMMA PllNameIs ==
  ASSUME NEW n \in Numbers
  PROVE  PllName(n) \in PllNames \cup {ErrExec}
<1>1. DOMAIN PllChannels = 1..8
  BY SamplingAssumption DEF SamplingAssumption
<1> QED
  BY <1>1 DEF PllName, PllNames, Numbers

\* The range read back is one of the list.
LEMMA CurrentRangeIs == CurrentRange \in RangeNames
<1> DEFINE I == {i \in 1..Len(SampleRanges) : SampleRanges[i].code = ReadSamplingRange}
<1>1. DOMAIN SampleRanges = 1..Len(SampleRanges) /\ Len(SampleRanges) \in Nat
  BY SamplingAssumption DEF SamplingAssumption
<1>2. I # {} /\ I \subseteq Nat
  BY <1>1, SamplingAssumption DEF SamplingAssumption, Code, ReadSamplingRange
<1>3. CurrentRange = SampleRanges[Min(I)].name
  BY <1>2 DEF CurrentRange, SelectInSeq
<1>4. Min(I) \in I
  BY <1>2, First
<1> QED
  BY <1>1, <1>3, <1>4 DEF RangeNames

\* A line's command does to the sampling interface what it says.
LEMMA Executed ==
  ASSUME SamplingTypeOK, NEW line, Execute(line)
  PROVE  /\ SamplingTypeOK'
         /\ line.cmd = "PLL?" => reply' \in {PllName(pll), ErrExec}
         /\ line.cmd # "PLL" => pll' = pll
         /\ line.cmd = "PLL" /\ reply' = Ack => pll' = PllNumber(line.par)
<1>1. /\ pll \in Numbers /\ notifierSampleChannelRange \in RangeNames
      /\ faults \in 0..MaxFaults /\ MaxFaults \in Nat
  BY SamplingAssumption DEF SamplingTypeOK, SamplingAssumption
<1>2. CASE line.cmd = "PLL?" /\ ReadPLL
  <2>1. PllName(pll) \in PllNames \cup {ErrExec}
    BY <1>1, PllNameIs
  <2> QED
    BY <1>1, <1>2, <2>1 DEF ReadPLL, NoFault, Fault, SamplingTypeOK
<1>3. CASE line.cmd = "PLL" /\ WritePLL(line.par)
  <2> DEFINE n == PllNumber(line.par)
  <2>1. n \in Numbers
    BY PllNumberIs
  <2> HIDE DEF n
  <2>2. PICK done \in BOOLEAN :
          SetPLLChannel(n, done) /\ reply' = IF done THEN Ack ELSE ErrExec
    BY <1>3 DEF WritePLL, n
  <2>3. notifierSampleChannelRange' = notifierSampleChannelRange
    BY <1>3 DEF WritePLL
  <2>4. CASE done
    BY <1>1, <1>3, <2>1, <2>2, <2>3, <2>4 DEF SetPLLChannel, NoFault, SamplingTypeOK, n
  <2>5. CASE ~done
    <3>1. reply' = ErrExec /\ Fault /\ pll' \in {pll, n}
      BY <2>2, <2>5 DEF SetPLLChannel
    <3> QED
      BY <1>1, <1>3, <2>1, <2>3, <3>1, SamplingAssumption
      DEF Fault, SamplingTypeOK, SamplingAssumption
  <2> QED
    BY <2>4, <2>5
<1>4. CASE line.cmd = "RANGE?" /\ ReadSampleRange
  BY <1>1, <1>4 DEF ReadSampleRange, SamplingTypeOK
<1>5. CASE line.cmd = "RANGE" /\ WriteSampleRange(line.par)
  BY <1>1, <1>5, CurrentRangeIs DEF WriteSampleRange, SamplingTypeOK
<1>6. CASE line.cmd = "SRATE?" /\ ReadSampleRate
  <2>1. reply' \in Rates
    BY <1>6 DEF ReadSampleRate, Rates
  <2> QED
    BY <1>1, <1>6, <2>1 DEF ReadSampleRate, SamplingTypeOK
<1> QED
  BY <1>2, <1>3, <1>4, <1>5, <1>6 DEF Execute

-----------------------------------------------------------------------------
(***************************************************************************)
(* The invariant                                                           *)
(***************************************************************************)

\* A neat client waits for nothing and nothing of it is on its way, or the one line
\* it asked is either in the kernel or in the buffer of its socket.
Quiescent(c) == owed[c] = 0 /\ kernel[c] = << >> /\ buffer[c] = << >>

Waiting(c) ==
  /\ c \in Known /\ owed[c] = 1 /\ asked[c] \in Lines
  /\ \/ kernel[c] = <<asked[c]>> /\ buffer[c] = << >>
     \/ kernel[c] = << >> /\ buffer[c] = <<asked[c]>>

NeatClients ==
  \A c \in neat : /\ Quiescent(c) \/ Waiting(c)
                  /\ c \in ready => kernel[c] # << >>

\* As long as there are neat clients, a connection that has not ended is the newest
\* one, so that the pointer's socket, the newest that was seen, is it.
OneAlive ==
  neat # {} =>
    /\ backlog = << >> \/ \E c \in Clients \ (seen \cup ended) : backlog = <<c>>
    /\ \A c \in Known \ ended : \A d \in Known : d <= c
    /\ \A d \in seen : d <= m_pSCPISocket

\* Connections are numbered, and one that ended has nothing to be read.
Connections ==
  /\ m_pSCPISocket \in seen \cup {NoClient}
  /\ seen # {} => m_pSCPISocket # NoClient
  /\ ready \cap ended = {}
  /\ \E k \in 0..MaxClients : Known \cup closed = 1..k

\* The number that the controller holds stands for the acknowledged channel, or for
\* none if that is not in the list.
AckedIsSet ==
  acked # Anything => PllName(pll) \in ({acked} \cap PllNames) \cup {ErrExec}

Inv ==
  /\ TypeOK
  /\ NeatClients
  /\ OneAlive
  /\ Connections
  /\ AckedIsSet

\* A client that stays neat owes and asks what it did.
LEMMA Forgotten ==
  ASSUME TypeOK, NEW gone, Forget(gone)
  PROVE  /\ neat' \subseteq neat /\ neat' \subseteq Clients
         /\ neat' = neat \ gone
         /\ asked' \in [Clients -> Lines \cup {Idle}] /\ owed' \in [Clients -> Int]
         /\ \A c \in neat' : asked'[c] = asked[c] /\ owed'[c] = owed[c]
  BY DEF Forget, TypeOK

\* A step that answers nothing leaves the sampling interface as it was.
LEMMA Silent ==
  ASSUME TypeOK, Quiet
  PROVE  SamplingTypeOK' /\ pll' = pll
  BY DEF TypeOK, Quiet, SamplingTypeOK

LEMMA InitFits == Init => Inv
<1> SUFFICES ASSUME Init PROVE Inv
  OBVIOUS
<1>1. SamplingTypeOK
  <2>1. PICK failed \in {f \in BOOLEAN : f => MaxFaults > 0} : StartSampling(PowerUp, failed)
    BY DEF Init
  <2>2. PowerUp \cup {1} \subseteq Numbers /\ MaxFaults \in Nat
    BY SamplingAssumption DEF SamplingAssumption, Numbers
  <2>3. pll \in Numbers
    BY <2>1, <2>2 DEF StartSampling
  <2>4. faults \in 0..MaxFaults
    BY <2>1, <2>2 DEF StartSampling
  <2> QED
    BY <2>1, <2>3, <2>4, CurrentRangeIs DEF StartSampling, SamplingTypeOK
<1>2. /\ backlog = << >> /\ seen = {} /\ closed = {} /\ Known = {}
      /\ \A c \in Clients : kernel[c] = << >> /\ buffer[c] = << >> /\ owed[c] = 0
  BY DEF Init, Known, ToSet
<1>3. TypeOK
  BY <1>1, <1>2, ScpiAssumption DEF Init, TypeOK, ScpiAssumption
<1>4. NeatClients /\ OneAlive /\ AckedIsSet
  <2>1. \A c \in Clients : Quiescent(c)
    BY <1>2 DEF Quiescent
  <2>2. neat = Clients /\ ready = {}
    BY DEF Init
  <2>3. NeatClients
    BY <2>1, <2>2 DEF NeatClients
  <2> QED
    BY <1>2, <2>3 DEF Init, OneAlive, AckedIsSet
<1>5. Connections
  <2>1. Known \cup closed = 1..0 /\ 0 \in 0..MaxClients
    BY <1>2, ScpiAssumption DEF ScpiAssumption
  <2> QED
    BY <2>1 DEF Init, Connections
<1> QED
  BY <1>3, <1>4, <1>5 DEF Inv

-----------------------------------------------------------------------------
(***************************************************************************)
(* What clients do                                                         *)
(***************************************************************************)

\* A new connection has a number that no other one had.
LEMMA NewNumber ==
  ASSUME Inv, NEW c \in Clients, c = Cardinality(Known \cup closed) + 1
  PROVE  Known \cup closed = 1..(c - 1)
<1>1. PICK k \in 0..MaxClients : Known \cup closed = 1..k
  BY DEF Inv, Connections
<1>2. k \in Nat
  BY ScpiAssumption DEF ScpiAssumption
<1>3. Cardinality(1..k) = IF 1 > k THEN 0 ELSE k - 1 + 1
  BY <1>2, FS_Interval
<1>4. Cardinality(Known \cup closed) = k
  <2>1. Cardinality(1..k) = k
    BY <1>2, <1>3
  <2> QED
    BY <1>1, <2>1
<1>5. c - 1 = k
  BY <1>2, <1>4
<1> QED
  BY <1>1, <1>5

LEMMA ConnectFits ==
  ASSUME Inv, NEW c \in Clients, Connect(c)
  PROVE  Inv'
<1> DEFINE gone == IF Known \subseteq ended THEN {} ELSE Clients
<1>1. /\ backlog' = Append(backlog, c) /\ Forget(gone) /\ Quiet
      /\ UNCHANGED <<m_pSCPISocket, wired, seen, closed, ended, kernel, ready, buffer,
                     lines, upset, acked, paced, unrun>>
      /\ c = Cardinality(Known \cup closed) + 1
  BY DEF Connect, dataVars, paceVars
<1>2. /\ TypeOK /\ backlog \in Seq(Clients) /\ seen \subseteq Clients
      /\ ended \subseteq closed
  BY DEF Inv, TypeOK
<1>3. Known \cup closed = 1..(c - 1)
  BY <1>1, NewNumber
<1>4. c \in Nat /\ c - 1 \in Nat /\ c \in 0..MaxClients /\ MaxClients \in Nat
  BY ScpiAssumption DEF ScpiAssumption, Clients
<1>5. /\ backlog' \in Seq(Clients)
      /\ ToSet(backlog') = ToSet(backlog) \cup {c}
  <2>1. /\ backlog' \in Seq(Clients) /\ Len(backlog') = Len(backlog) + 1
        /\ \A i \in DOMAIN backlog : backlog'[i] = backlog[i]
        /\ backlog'[Len(backlog) + 1] = c
        /\ DOMAIN backlog' = DOMAIN backlog \cup {Len(backlog) + 1}
    BY <1>1, <1>2
  <2> QED
    BY <2>1 DEF ToSet
<1>6. Known' = Known \cup {c}
  BY <1>1, <1>5 DEF Known
<1>7. /\ neat' \subseteq neat /\ neat' \subseteq Clients /\ neat' = neat \ gone
      /\ asked' \in [Clients -> Lines \cup {Idle}] /\ owed' \in [Clients -> Int]
      /\ \A d \in neat' : asked'[d] = asked[d] /\ owed'[d] = owed[d]
  BY <1>1, <1>2, Forgotten
<1>8. SamplingTypeOK' /\ pll' = pll
  BY <1>1, <1>2, Silent
<1>9. TypeOK'
  BY <1>1, <1>2, <1>5, <1>7, <1>8 DEF TypeOK
<1>10. NeatClients'
  BY <1>1, <1>6, <1>7 DEF Inv, NeatClients, Quiescent, Waiting
<1>11. OneAlive'
  <2> SUFFICES ASSUME neat' # {} PROVE OneAlive'
    BY DEF OneAlive
  <2>1. neat # {} /\ Known \subseteq ended
    BY <1>7
  <2>2. backlog = << >>
    <3>1. ToSet(backlog) \subseteq ended
      BY <2>1 DEF Known
    <3>2. ASSUME NEW d \in Clients \ (seen \cup ended), backlog = <<d>> PROVE FALSE
      <4>1. d \in ToSet(backlog)
        BY <3>2 DEF ToSet
      <4> QED
        BY <3>1, <4>1
    <3> QED
      BY <2>1, <3>2 DEF Inv, OneAlive
  <2>3. c \notin Known \cup closed
    BY <1>3, <1>4
  <2>4. c \in Clients \ (seen \cup ended) /\ backlog' = <<c>>
    BY <1>1, <1>2, <2>2, <2>3 DEF Known
  <2>5. \A e \in Known' \ ended' : e = c
    BY <1>1, <1>6, <2>1
  <2>6. \A d \in Known' : d <= c
    BY <1>3, <1>4, <1>6
  <2>7. \A d \in seen' : d <= m_pSCPISocket'
    BY <1>1, <2>1 DEF Inv, OneAlive
  <2> QED
    BY <1>1, <2>4, <2>5, <2>6, <2>7 DEF OneAlive
<1>12. Connections'
  <2>1. Known' \cup closed' = 1..c
    <3>1. Known' \cup closed' = (1..(c - 1)) \cup {c}
      BY <1>1, <1>3, <1>6
    <3>2. (1..(c - 1)) \cup {c} = 1..c
      BY <1>4
    <3> QED
      BY <3>1, <3>2
  <2> QED
    BY <1>1, <1>4, <2>1 DEF Inv, Connections
<1>13. AckedIsSet'
  BY <1>1, <1>8 DEF Inv, AckedIsSet
<1> QED
  BY <1>9, <1>10, <1>11, <1>12, <1>13 DEF Inv

\* Where no connection is made, seen or ended, and nothing answered.
LEMMA SameConnections ==
  ASSUME Inv, UNCHANGED <<backlog, m_pSCPISocket, wired, seen, ended>>,
         neat' \subseteq neat
  PROVE  /\ Known' = Known
         /\ OneAlive'
<1>1. Known' = Known
  BY DEF Known
<1> QED
  BY <1>1 DEF Inv, OneAlive

LEMMA SendPartFits ==
  ASSUME Inv, NEW c \in Clients, SendPart(c)
  PROVE  Inv'
<1>1. /\ Open(c) /\ ready' = ready \cup {c} /\ Forget({c}) /\ Quiet
      /\ UNCHANGED <<backlog, m_pSCPISocket, wired, seen, closed, ended, kernel, buffer,
                     lines, upset, acked, paced, unrun>>
  BY DEF SendPart, netVars, paceVars
<1>2. TypeOK /\ ended \subseteq closed
  BY DEF Inv, TypeOK
<1>3. /\ neat' \subseteq neat /\ neat' \subseteq Clients /\ neat' = neat \ {c}
      /\ asked' \in [Clients -> Lines \cup {Idle}] /\ owed' \in [Clients -> Int]
      /\ \A d \in neat' : asked'[d] = asked[d] /\ owed'[d] = owed[d]
  BY <1>1, <1>2, Forgotten
<1>4. SamplingTypeOK' /\ pll' = pll
  BY <1>1, <1>2, Silent
<1>5. TypeOK'
  BY <1>1, <1>2, <1>3, <1>4 DEF TypeOK
<1>6. Known' = Known /\ OneAlive'
  BY <1>1, <1>3, SameConnections
<1>7. NeatClients'
  BY <1>1, <1>3, <1>6 DEF Inv, NeatClients, Quiescent, Waiting
<1>8. Connections'
  BY <1>1, <1>2, <1>6 DEF Inv, Connections, Open
<1>9. AckedIsSet'
  BY <1>1, <1>4 DEF Inv, AckedIsSet
<1> QED
  BY <1>5, <1>6, <1>7, <1>8, <1>9 DEF Inv

LEMMA SendFits ==
  ASSUME Inv, NEW c \in Clients, NEW line \in Lines, Send(c, line)
  PROVE  Inv'
<1>1. /\ Open(c) /\ lines < MaxLines /\ lines' = lines + 1
      /\ kernel' = [kernel EXCEPT ![c] = Append(@, line)]
      /\ ready' = ready \cup {c} /\ Quiet
      /\ UNCHANGED <<backlog, m_pSCPISocket, wired, seen, closed, ended, buffer,
                     upset, acked>>
  BY DEF Send, netVars
<1>2. /\ TypeOK /\ ended \subseteq closed /\ neat \subseteq Clients
      /\ kernel \in [Clients -> Seq(Lines)]
      /\ asked \in [Clients -> Lines \cup {Idle}] /\ owed \in [Clients -> Int]
      /\ lines \in 0..MaxLines /\ paced \subseteq Clients /\ unrun \subseteq paced
  BY DEF Inv, TypeOK
<1>3. SamplingTypeOK' /\ pll' = pll
  BY <1>1, <1>2, Silent
<1>4. /\ \A d \in Clients \ {c} : kernel'[d] = kernel[d]
      /\ kernel'[c] = Append(kernel[c], line)
      /\ kernel'[c] # << >>
      /\ kernel' \in [Clients -> Seq(Lines)]
  <2>1. kernel[c] \in Seq(Lines)
    BY <1>2
  <2>2. Append(kernel[c], line) \in Seq(Lines) /\ Append(kernel[c], line) # << >>
    BY <2>1
  <2> QED
    BY <1>1, <1>2, <2>2
<1>5. lines' \in 0..MaxLines
  BY <1>1, <1>2, ScpiAssumption DEF ScpiAssumption
<1>9. Known' = Known /\ c \in Known
  BY <1>1 DEF Known, Open
<1>10. paced' \subseteq Clients /\ unrun' \subseteq paced'
  BY <1>2 DEF Send, Hurried
<1>6. ASSUME /\ neat' \subseteq neat
             /\ asked' \in [Clients -> Lines \cup {Idle}] /\ owed' \in [Clients -> Int],
             NeatClients'
      PROVE  Inv'
  <2>1. TypeOK'
    BY <1>1, <1>2, <1>3, <1>4, <1>5, <1>6, <1>10 DEF TypeOK
  <2>2. Known' = Known /\ OneAlive'
    BY <1>1, <1>6, SameConnections
  <2>3. Connections'
    BY <1>1, <1>2, <2>2 DEF Inv, Connections, Open
  <2>4. AckedIsSet'
    BY <1>1, <1>3 DEF Inv, AckedIsSet
  <2> QED
    BY <1>6, <2>1, <2>2, <2>3, <2>4 DEF Inv
<1>7. CASE c \in neat /\ owed[c] = 0
  <2>1. /\ asked' = [asked EXCEPT ![c] = line] /\ owed' = [owed EXCEPT ![c] = 1]
        /\ neat' = neat
    BY <1>7 DEF Send
  <2>2. kernel[c] = << >> /\ buffer[c] = << >>
    BY <1>7 DEF Inv, NeatClients, Quiescent, Waiting
  <2>3. kernel'[c] = <<line>>
    BY <1>4, <2>2
  <2>4. Waiting(c)'
    BY <1>1, <1>2, <1>9, <2>1, <2>2, <2>3 DEF Waiting
  <2>5. \A d \in neat \ {c} : /\ Quiescent(d)' \/ Waiting(d)'
                              /\ d \in ready' => kernel'[d] # << >>
    BY <1>1, <1>2, <1>4, <1>9, <2>1 DEF Inv, NeatClients, Quiescent, Waiting
  <2>6. NeatClients'
    BY <1>4, <1>9, <2>1, <2>4, <2>5 DEF NeatClients
  <2> QED
    BY <1>2, <1>6, <2>1, <2>6
<1>8. CASE ~(c \in neat /\ owed[c] = 0)
  <2>1. Forget({c})
    BY <1>8 DEF Send
  <2>2. /\ neat' \subseteq neat /\ neat' = neat \ {c}
        /\ asked' \in [Clients -> Lines \cup {Idle}] /\ owed' \in [Clients -> Int]
        /\ \A d \in neat' : asked'[d] = asked[d] /\ owed'[d] = owed[d]
    BY <1>2, <2>1, Forgotten
  <2>3. NeatClients'
    BY <1>1, <1>2, <1>4, <1>9, <2>2 DEF Inv, NeatClients, Quiescent, Waiting
  <2> QED
    BY <1>6, <2>2, <2>3
<1> QED
  BY <1>7, <1>8

LEMMA CloseFits ==
  ASSUME Inv, NEW c \in Clients, Close(c)
  PROVE  Inv'
<1>1. /\ Open(c) /\ closed' = closed \cup {c} /\ upset' = upset \cup {c}
      /\ Forget({c}) /\ Quiet
      /\ UNCHANGED <<backlog, m_pSCPISocket, wired, seen, ended, kernel, ready, buffer,
                     lines, acked, paced, unrun>>
  BY DEF Close, dataVars, paceVars
<1>2. TypeOK
  BY DEF Inv
<1>3. /\ neat' \subseteq neat /\ neat' \subseteq Clients
      /\ asked' \in [Clients -> Lines \cup {Idle}] /\ owed' \in [Clients -> Int]
      /\ \A d \in neat' : asked'[d] = asked[d] /\ owed'[d] = owed[d]
  BY <1>1, <1>2, Forgotten
<1>4. SamplingTypeOK' /\ pll' = pll
  BY <1>1, <1>2, Silent
<1>5. TypeOK'
  BY <1>1, <1>2, <1>3, <1>4 DEF TypeOK
<1>6. Known' = Known /\ OneAlive'
  BY <1>1, <1>3, SameConnections
<1>7. NeatClients'
  BY <1>1, <1>3, <1>6 DEF Inv, NeatClients, Quiescent, Waiting
<1>8. Known' \cup closed' = Known \cup closed
  BY <1>1, <1>6 DEF Open
<1>9. Connections'
  BY <1>1, <1>8 DEF Inv, Connections
<1>10. AckedIsSet'
  BY <1>1, <1>4 DEF Inv, AckedIsSet
<1> QED
  BY <1>5, <1>6, <1>7, <1>9, <1>10 DEF Inv

-----------------------------------------------------------------------------
(***************************************************************************)
(* What the server does                                                    *)
(***************************************************************************)

LEMMA NewConnectionFits ==
  ASSUME Inv, NewConnection
  PROVE  Inv'
<1> DEFINE c == Head(backlog)
<1>1. /\ backlog # << >> /\ backlog' = Tail(backlog)
      /\ m_pSCPISocket' = c /\ wired' = wired \cup {c} /\ seen' = seen \cup {c}
      /\ upset' = upset \cup seen /\ Quiet
      /\ UNCHANGED <<closed, ended, kernel, ready, buffer, lines, neat, asked, owed, acked,
                     paced, unrun>>
  BY DEF NewConnection, SetSCPIConnection, dataVars, talkVars, paceVars
<1>2. TypeOK /\ backlog \in Seq(Clients) /\ seen \subseteq Clients /\ NoClient \notin Clients
  BY DEF Inv, TypeOK, NoClient, Clients
<1>3. c \in Clients /\ backlog' \in Seq(Clients) /\ ToSet(backlog) = ToSet(backlog') \cup {c}
  <2>1. c \in Clients /\ backlog' \in Seq(Clients) /\ Len(backlog') = Len(backlog) - 1
    BY <1>1, <1>2
  <2>2. \A i \in DOMAIN backlog' : i + 1 \in DOMAIN backlog /\ backlog'[i] = backlog[i + 1]
    BY <1>1, <1>2
  <2>3. ToSet(backlog') \cup {c} \subseteq ToSet(backlog)
    <3>1. 1 \in DOMAIN backlog /\ c = backlog[1]
      BY <1>1, <1>2
    <3> QED
      BY <2>2, <3>1 DEF ToSet
  <2>4. ASSUME NEW i \in DOMAIN backlog PROVE backlog[i] \in ToSet(backlog') \cup {c}
    <3>1. CASE i = 1
      BY <1>1, <1>2, <3>1
    <3>2. CASE i # 1
      <4>1. i - 1 \in DOMAIN backlog' /\ backlog'[i - 1] = backlog[i]
        BY <1>1, <1>2, <2>1, <3>2
      <4> QED
        BY <4>1 DEF ToSet
    <3> QED
      BY <3>1, <3>2
  <2>5. ToSet(backlog) \subseteq ToSet(backlog') \cup {c}
    BY <2>4 DEF ToSet
  <2> QED
    BY <2>1, <2>3, <2>5
<1> HIDE DEF c
<1>4. Known' = Known
  BY <1>1, <1>3 DEF Known
<1>5. SamplingTypeOK' /\ pll' = pll
  BY <1>1, <1>2, Silent
<1>6. TypeOK'
  <2>1. m_pSCPISocket' \in Clients \cup {NoClient}
    BY <1>1, <1>3
  <2>2. wired' \subseteq seen' /\ seen' \subseteq Clients
    BY <1>1, <1>2, <1>3 DEF TypeOK
  <2>3. upset' \subseteq Clients \cup {NoClient}
    BY <1>1, <1>2 DEF TypeOK
  <2> QED
    BY <1>1, <1>2, <1>3, <1>5, <2>1, <2>2, <2>3 DEF TypeOK
<1>7. NeatClients'
  BY <1>1, <1>4 DEF Inv, NeatClients, Quiescent, Waiting
<1>8. OneAlive'
  <2> SUFFICES ASSUME neat # {} PROVE OneAlive'
    BY <1>1 DEF OneAlive
  <2>1. PICK d \in Clients \ (seen \cup ended) : backlog = <<d>>
    BY <1>1 DEF Inv, OneAlive
  <2>2. c = d /\ backlog' = << >>
    BY <1>1, <2>1 DEF c
  <2>3. c \in Known \ ended
    BY <1>3, <2>1, <2>2 DEF Known
  <2>4. \A e \in Known : e <= c
    BY <2>3 DEF Inv, OneAlive
  <2>5. seen' \subseteq Known
    BY <1>1, <2>3 DEF Known
  <2>6. \A e \in Known \ ended : \A f \in Known : f <= e
    BY DEF Inv, OneAlive
  <2> QED
    BY <1>1, <1>4, <2>2, <2>4, <2>5, <2>6 DEF OneAlive
<1>9. Connections'
  BY <1>1, <1>2, <1>3, <1>4 DEF Inv, Connections
<1>10. AckedIsSet'
  BY <1>1, <1>5 DEF Inv, AckedIsSet
<1> QED
  BY <1>6, <1>7, <1>8, <1>9, <1>10 DEF Inv

LEMMA SCPIDisconnectFits ==
  ASSUME Inv, NEW c \in Clients, SCPIDisconnect(c)
  PROVE  Inv'
<1>1. /\ c \in seen /\ c \in closed /\ c \notin ready /\ ended' = ended \cup {c} /\ Quiet
      /\ wired' \subseteq wired /\ upset' \subseteq upset \cup {m_pSCPISocket}
      /\ UNCHANGED <<backlog, m_pSCPISocket, seen, closed, kernel, ready, buffer, lines,
                     neat, asked, owed, acked, paced, unrun>>
  BY DEF SCPIDisconnect, dataVars, talkVars, paceVars
<1>2. TypeOK
  BY DEF Inv
<1>3. SamplingTypeOK' /\ pll' = pll
  BY <1>1, <1>2, Silent
<1>4. TypeOK'
  <2>1. upset' \subseteq Clients \cup {NoClient} /\ wired' \subseteq seen'
    BY <1>1, <1>2 DEF TypeOK
  <2>2. ended' \subseteq closed'
    BY <1>1, <1>2 DEF TypeOK
  <2> QED
    BY <1>1, <1>2, <1>3, <2>1, <2>2 DEF TypeOK
<1>6. Known' = Known
  BY <1>1 DEF Known
<1>5. NeatClients'
  BY <1>1, <1>6 DEF Inv, NeatClients, Quiescent, Waiting
<1>7. OneAlive'
  <2> SUFFICES ASSUME neat # {} PROVE OneAlive'
    BY <1>1 DEF OneAlive
  <2>1. backlog' = << >> \/ \E d \in Clients \ (seen' \cup ended') : backlog' = <<d>>
    BY <1>1 DEF Inv, OneAlive
  <2>2. \A e \in Known' \ ended' : \A f \in Known' : f <= e
    BY <1>1, <1>6 DEF Inv, OneAlive
  <2>3. \A d \in seen' : d <= m_pSCPISocket'
    BY <1>1 DEF Inv, OneAlive
  <2> QED
    BY <2>1, <2>2, <2>3 DEF OneAlive
<1>8. Connections'
  BY <1>1, <1>6 DEF Inv, Connections
<1>9. AckedIsSet'
  BY <1>1, <1>3 DEF Inv, AckedIsSet
<1> QED
  BY <1>4, <1>5, <1>7, <1>8, <1>9 DEF Inv

\* A restart of the server.
LEMMA RestartFits ==
  ASSUME Inv, Restart
  PROVE  Inv'
<1>1. /\ RestartSampling
      /\ backlog' = << >> /\ m_pSCPISocket' = NoClient
      /\ wired' = {} /\ seen' = {} /\ closed' = closed \cup Known /\ ended' = closed'
      /\ kernel' = [c \in Clients |-> << >>] /\ buffer' = [c \in Clients |-> << >>]
      /\ ready' = {} /\ upset' = upset \cup Known /\ acked' = Anything
      /\ Forget(Known) /\ Hurried(Known) /\ lines' = lines
  BY DEF Restart
<1>2. TypeOK
  BY DEF Inv
<1>3. /\ neat' \subseteq neat /\ neat' = neat \ Known /\ neat' \subseteq Clients
      /\ asked' \in [Clients -> Lines \cup {Idle}] /\ owed' \in [Clients -> Int]
      /\ \A c \in neat' : asked'[c] = asked[c] /\ owed'[c] = owed[c]
  BY <1>1, <1>2, Forgotten
<1>4. Known \subseteq Clients /\ Known' = {}
  <2>1. ToSet(backlog) \subseteq Clients
    BY <1>2 DEF TypeOK, ToSet
  <2> QED
    BY <1>1, <1>2, <2>1 DEF Known, TypeOK, ToSet
<1>5. SamplingTypeOK'
  <2>1. PICK done \in BOOLEAN : SetPLLChannel(1, done)
    BY <1>1 DEF RestartSampling
  <2>2. pll \in Numbers /\ 1 \in Numbers /\ faults \in 0..MaxFaults /\ MaxFaults \in Nat
    BY <1>2, SamplingAssumption DEF TypeOK, SamplingTypeOK, Numbers, SamplingAssumption
  <2>3. pll' \in Numbers /\ faults' \in 0..MaxFaults
    BY <2>1, <2>2 DEF SetPLLChannel, Fault, NoFault
  <2> QED
    BY <1>1, <2>3, CurrentRangeIs DEF RestartSampling, SamplingTypeOK
<1>6. TypeOK'
  <2>1. /\ backlog' \in Seq(Clients) /\ m_pSCPISocket' \in Clients \cup {NoClient}
        /\ wired' \subseteq seen' /\ seen' \subseteq Clients /\ ended' \subseteq closed'
        /\ closed' \subseteq Clients /\ ready' \subseteq Clients
        /\ upset' \subseteq Clients \cup {NoClient}
    BY <1>1, <1>2, <1>4 DEF TypeOK
  <2>2. kernel' \in [Clients -> Seq(Lines)] /\ buffer' \in [Clients -> Seq(Lines)]
    BY <1>1
  <2>3. /\ lines' \in 0..MaxLines /\ acked' \in Channels \cup {Anything}
        /\ paced' \subseteq Clients /\ unrun' \subseteq paced'
    BY <1>1, <1>2 DEF TypeOK, Hurried
  <2> QED
    BY <1>3, <1>5, <2>1, <2>2, <2>3 DEF TypeOK
<1>7. NeatClients'
  <2>1. ASSUME NEW c \in neat' PROVE Quiescent(c)' /\ c \notin ready'
    <3>1. c \in neat /\ c \in Clients /\ c \notin Known
      BY <1>3
    <3>2. owed[c] = 0
      BY <3>1 DEF Quiescent, Waiting, Inv, NeatClients
    <3> QED
      BY <1>1, <1>3, <3>1, <3>2 DEF Quiescent
  <2> QED
    BY <2>1 DEF NeatClients
<1>8. OneAlive'
  BY <1>1, <1>4 DEF OneAlive
<1>9. Connections'
  <2>1. Known' \cup closed' = Known \cup closed
    BY <1>1, <1>4
  <2> QED
    BY <1>1, <2>1 DEF Inv, Connections
<1>10. AckedIsSet'
  BY <1>1 DEF AckedIsSet
<1> QED
  BY <1>6, <1>7, <1>8, <1>9, <1>10 DEF Inv

-----------------------------------------------------------------------------
(***************************************************************************)
(* Input                                                                   *)
(***************************************************************************)

\* One line as input is executed; without a PLL command the number stays.
LEMMA InputDoes ==
  ASSUME SamplingTypeOK, NEW s, NEW read \in Seq(Lines), Input(s, read)
  PROVE  /\ SamplingTypeOK' /\ unrun' \subseteq unrun
         /\ (\A i \in DOMAIN read : read[i].cmd # "PLL") => pll' = pll
         /\ \A line : read = <<line>> => Execute(line)
<1>0. unrun' \subseteq unrun
  BY DEF Input
<1>1. ASSUME NEW i \in DOMAIN read, Execute(read[i])
      PROVE  /\ SamplingTypeOK'
             /\ (\A j \in DOMAIN read : read[j].cmd # "PLL") => pll' = pll
  BY <1>1, Executed
<1>2. ASSUME NotFound PROVE SamplingTypeOK' /\ pll' = pll
  <2>1. SamplingTypeOK' /\ pll' = pll
    BY <1>2 DEF NotFound, SamplingTypeOK
  <2> QED
    BY <2>1
<1>3. CASE Len(read) = 1 /\ Execute(read[1])
  <2>1. 1 \in DOMAIN read
    BY <1>3
  <2>2. \A line : read = <<line>> => read[1] = line
    OBVIOUS
  <2> QED
    BY <1>0, <1>1, <1>3, <2>1, <2>2
<1>4. CASE Len(read) # 1 /\ NotFound
  <2>1. \A line : read # <<line>>
    BY <1>4
  <2> QED
    BY <1>0, <1>2, <1>4, <2>1
<1>5. CASE Len(read) > 1 /\ \E i \in DOMAIN read : Execute(read[i])
  <2>1. \A line : read # <<line>>
    <3> DEFINE n == Len(read)
    <3>1. n > 1 /\ n \in Nat
      BY <1>5
    <3> HIDE DEF n
    <3>2. n # 1
      BY <3>1
    <3> QED
      BY <3>2 DEF n
  <2> QED
    BY <1>0, <1>1, <1>5, <2>1
<1> QED
  BY <1>3, <1>4, <1>5 DEF Input

\* With neat clients, a socket that can be read is the pointer's; if its client is
\* neat, the one line that it waits for is what the socket reads.
LEMMA ReadIsAlive ==
  ASSUME Inv, NEW c \in Clients, c \in seen, c \in ready
  PROVE  /\ m_pSCPISocket \in seen
         /\ neat # {} => m_pSCPISocket = c
         /\ c \in neat => /\ owed[c] = 1 /\ asked[c] \in Lines
                          /\ kernel[c] = <<asked[c]>> /\ buffer[c] = << >>
<1>1. m_pSCPISocket \in seen /\ c \in Known \ ended
  BY DEF Inv, Connections, Known
<1>2. neat # {} => m_pSCPISocket = c
  <2> SUFFICES ASSUME neat # {} PROVE m_pSCPISocket = c
    OBVIOUS
  <2>1. m_pSCPISocket \in Known /\ m_pSCPISocket \in Nat /\ c \in Nat
    BY <1>1 DEF Known, Inv, TypeOK, Clients
  <2>2. m_pSCPISocket <= c /\ c <= m_pSCPISocket
    BY <1>1, <2>1 DEF Inv, OneAlive
  <2> QED
    BY <2>1, <2>2
<1>3. c \in neat => /\ owed[c] = 1 /\ asked[c] \in Lines
                   /\ kernel[c] = <<asked[c]>> /\ buffer[c] = << >>
  BY DEF Inv, NeatClients, Quiescent, Waiting
<1> QED
  BY <1>1, <1>2, <1>3

\* A socket whose signals are not connected fills its buffer.
Buffered(c) ==
  /\ buffer' = [buffer EXCEPT ![c] = @ \o kernel[c]]
  /\ Quiet
  /\ UNCHANGED <<owed, asked, acked, unrun>>

\* Otherwise what was read is an input, which is answered.
Answered(c, read) ==
  /\ Input(m_pSCPISocket, read) /\ SendAnswer(m_pSCPISocket, read)
  /\ m_pSCPISocket \in seen
  /\ neat # {} => m_pSCPISocket = c /\ buffer' = [buffer EXCEPT ![c] = << >>]
  /\ c \in neat => owed[c] = 1 /\ asked[c] \in Lines /\ read = <<asked[c]>>

LEMMA InputIs ==
  ASSUME Inv, NEW c \in Clients, SCPIInput(c)
  PROVE  /\ c \in seen /\ c \in ready
         /\ ready' = ready \ {c} /\ kernel' = [kernel EXCEPT ![c] = << >>]
         /\ buffer' \in [Clients -> Seq(Lines)]
         /\ UNCHANGED <<backlog, m_pSCPISocket, wired, seen, closed, ended, lines, neat,
                        upset, paced>>
         /\ Buffered(c) \/ \E read \in Seq(Lines) : Answered(c, read)
<1> DEFINE s == m_pSCPISocket
           filled == [buffer EXCEPT ![c] = @ \o kernel[c]]
<1>1. /\ c \in seen /\ c \in ready
      /\ ready' = ready \ {c} /\ kernel' = [kernel EXCEPT ![c] = << >>]
      /\ UNCHANGED <<backlog, m_pSCPISocket, wired, seen, closed, ended, lines, neat, upset,
                     paced>>
      /\ \/ /\ c \in wired
            /\ buffer' = [filled EXCEPT ![s] = << >>]
            /\ Input(s, filled[s])
            /\ SendAnswer(s, filled[s])
         \/ /\ c \notin wired
            /\ buffer' = filled
            /\ Quiet
            /\ UNCHANGED <<owed, asked, acked, unrun>>
  BY DEF SCPIInput, netVars
<1>2. /\ kernel \in [Clients -> Seq(Lines)] /\ buffer \in [Clients -> Seq(Lines)]
      /\ seen \subseteq Clients
  BY DEF Inv, TypeOK
<1>3. buffer[c] \o kernel[c] \in Seq(Lines)
  <2>1. buffer[c] \in Seq(Lines) /\ kernel[c] \in Seq(Lines)
    BY <1>2
  <2> QED
    BY <2>1
<1>4. filled \in [Clients -> Seq(Lines)] /\ filled[c] = buffer[c] \o kernel[c]
  BY <1>2, <1>3
<1>5. /\ s \in seen
      /\ neat # {} => s = c
      /\ c \in neat => /\ owed[c] = 1 /\ asked[c] \in Lines
                       /\ kernel[c] = <<asked[c]>> /\ buffer[c] = << >>
  BY <1>1, ReadIsAlive
<1>6. << >> \in Seq(Lines) /\ s \in Clients
  BY <1>2, <1>5
<1>7. [filled EXCEPT ![s] = << >>] \in [Clients -> Seq(Lines)] /\ filled[s] \in Seq(Lines)
  BY <1>4, <1>6
<1>8. [filled EXCEPT ![c] = << >>] = [buffer EXCEPT ![c] = << >>]
  BY <1>2
<1>9. c \in neat => filled[c] = <<asked[c]>>
  <2>1. c \in neat => filled[c] = << >> \o <<asked[c]>>
    BY <1>4, <1>5
  <2>2. \A x : << >> \o <<x>> = <<x>>
    OBVIOUS
  <2> HIDE DEF filled
  <2> QED
    BY <2>1, <2>2
<1> HIDE DEF filled, s
<1>10. CASE c \in wired
  <2>1. buffer' = [filled EXCEPT ![s] = << >>] /\ Input(s, filled[s]) /\ SendAnswer(s, filled[s])
    BY <1>1, <1>10
  <2>2. neat # {} => buffer' = [buffer EXCEPT ![c] = << >>]
    BY <1>5, <1>8, <2>1
  <2>3. c \in neat => filled[s] = <<asked[c]>>
    BY <1>5, <1>9
  <2>4. Answered(c, filled[s])
    BY <1>5, <2>1, <2>2, <2>3 DEF Answered, s
  <2> QED
    BY <1>1, <1>7, <2>1, <2>4
<1>11. CASE c \notin wired
  <2>1. Buffered(c)
    BY <1>1, <1>11 DEF Buffered, filled
  <2> QED
    BY <1>1, <1>4, <1>11, <2>1
<1> QED
  BY <1>10, <1>11

\* A PLL line names a channel.
LEMMA PllLine ==
  ASSUME NEW line \in Lines, line.cmd = "PLL"
  PROVE  line.par \in Channels
<1>1. \A cmd : Query(cmd).cmd = cmd
  BY DEF Query
<1>2. line \in Command("PLL", Channels) \cup Command("RANGE", Ranges)
  BY <1>1 DEF Lines
<1>3. \A names : line \in Command("PLL", names) => line.par \in names
  BY DEF Command
<1>4. \A names : line \in Command("RANGE", names) => line.cmd = "RANGE"
  BY DEF Command
<1> QED
  BY <1>2, <1>3, <1>4

\* What is known of the channel after one input or command stands for the number.
LEMMA AckedFits ==
  ASSUME Inv, NEW read \in Seq(Lines), acked' = AckedAfter(read),
         (\A i \in DOMAIN read : read[i].cmd # "PLL") => pll' = pll,
         \A line : read = <<line>> => Execute(line)
  PROVE  acked' \in Channels \cup {Anything} /\ AckedIsSet'
<1>1. CASE \A i \in DOMAIN read : read[i].cmd # "PLL"
  <2>1. acked' = acked /\ pll' = pll
    BY <1>1 DEF AckedAfter
  <2> QED
    BY <2>1 DEF Inv, TypeOK, AckedIsSet
<1>2. CASE /\ ~(\A i \in DOMAIN read : read[i].cmd # "PLL")
           /\ Len(read) = 1 /\ reply' = Ack
  <2> DEFINE line == read[1]
  <2>1. line \in Lines /\ read = <<line>> /\ line.cmd = "PLL"
    BY <1>2
  <2>2. acked' = line.par
    BY <1>2 DEF AckedAfter
  <2> HIDE DEF line
  <2>3. Execute(line)
    BY <2>1
  <2>4. pll' = PllNumber(line.par)
    BY <1>2, <2>1, <2>3, Executed DEF Inv, TypeOK
  <2>5. acked' \in Channels
    BY <2>1, <2>2, PllLine
  <2>6. PllName(pll') \in ({line.par} \cap PllNames) \cup {ErrExec}
    <3>1. CASE line.par \in PllNames
      BY <2>4, <3>1, PllNumberIs
    <3>2. CASE line.par \notin PllNames
      <4>1. pll' = 255
        BY <2>4, <3>2, PllNumberIs
      <4> QED
        BY <4>1 DEF PllName
    <3> QED
      BY <3>1, <3>2
  <2> QED
    BY <2>2, <2>5, <2>6 DEF AckedIsSet
<1>3. CASE acked' = Anything
  BY <1>3 DEF AckedIsSet
<1> QED
  BY <1>1, <1>2, <1>3 DEF AckedAfter

\* A command of a client of the network touches no connection.
LEMMA NetworkFits ==
  ASSUME Inv, NEW line \in Lines, NetworkCommand(line)
  PROVE  Inv'
<1>1. /\ Execute(line) /\ acked' = AckedAfter(<<line>>)
      /\ lines < MaxLines /\ lines' = lines + 1
      /\ UNCHANGED <<backlog, m_pSCPISocket, wired, seen, closed, ended, kernel, ready,
                     buffer, neat, asked, owed, upset, paced, unrun>>
  BY DEF NetworkCommand, netVars, talkVars, paceVars
<1>2. TypeOK /\ SamplingTypeOK
  BY DEF Inv, TypeOK
<1>3. /\ SamplingTypeOK'
      /\ line.cmd # "PLL" => pll' = pll
  BY <1>1, <1>2, Executed
<1> DEFINE read == <<line>>
<1>4. /\ read \in Seq(Lines) /\ acked' = AckedAfter(read)
      /\ 1 \in DOMAIN read /\ read[1] = line
      /\ \A l : read = <<l>> => l = line
  BY <1>1
<1> HIDE DEF read
<1>5. /\ (\A i \in DOMAIN read : read[i].cmd # "PLL") => pll' = pll
      /\ \A l : read = <<l>> => Execute(l)
  BY <1>1, <1>3, <1>4
<1>6. acked' \in Channels \cup {Anything} /\ AckedIsSet'
  BY <1>4, <1>5, AckedFits
<1>7. lines' \in 0..MaxLines
  BY <1>1, <1>2, ScpiAssumption DEF TypeOK, ScpiAssumption
<1>8. TypeOK'
  BY <1>1, <1>2, <1>3, <1>6, <1>7 DEF TypeOK
<1>9. Known' = Known /\ OneAlive'
  BY <1>1, SameConnections
<1>10. NeatClients' /\ Connections'
  BY <1>1, <1>9 DEF Inv, NeatClients, Quiescent, Waiting, Connections
<1> QED
  BY <1>6, <1>8, <1>9, <1>10 DEF Inv

LEMMA SCPIInputFits ==
  ASSUME Inv, NEW c \in Clients, SCPIInput(c)
  PROVE  Inv'
<1>1. /\ c \in seen /\ c \in ready
      /\ ready' = ready \ {c} /\ kernel' = [kernel EXCEPT ![c] = << >>]
      /\ buffer' \in [Clients -> Seq(Lines)]
      /\ UNCHANGED <<backlog, m_pSCPISocket, wired, seen, closed, ended, lines, neat, upset,
                     paced>>
  BY InputIs
<1>2. /\ TypeOK /\ neat \subseteq Clients /\ seen \subseteq Clients
      /\ kernel \in [Clients -> Seq(Lines)] /\ buffer \in [Clients -> Seq(Lines)]
      /\ asked \in [Clients -> Lines \cup {Idle}] /\ owed \in [Clients -> Int]
      /\ SamplingTypeOK
  BY DEF Inv, TypeOK
<1>3. /\ kernel' \in [Clients -> Seq(Lines)] /\ kernel'[c] = << >>
      /\ \A d \in Clients \ {c} : kernel'[d] = kernel[d]
  <2>1. << >> \in Seq(Lines)
    OBVIOUS
  <2> QED
    BY <1>1, <1>2, <2>1
<1>4. Known' = Known /\ OneAlive'
  BY <1>1, SameConnections
<1>5. Connections'
  BY <1>1, <1>4 DEF Inv, Connections
<1>6. ASSUME SamplingTypeOK', NeatClients', AckedIsSet',
             /\ asked' \in [Clients -> Lines \cup {Idle}] /\ owed' \in [Clients -> Int]
             /\ acked' \in Channels \cup {Anything} /\ unrun' \subseteq unrun
      PROVE  Inv'
  <2>1. TypeOK'
    BY <1>1, <1>2, <1>3, <1>6 DEF TypeOK
  <2> QED
    BY <1>4, <1>5, <1>6, <2>1 DEF Inv
<1>7. CASE Buffered(c)
  <2>1. /\ buffer' = [buffer EXCEPT ![c] = @ \o kernel[c]] /\ Quiet
        /\ UNCHANGED <<owed, asked, acked, unrun>>
    BY <1>7 DEF Buffered
  <2>2. SamplingTypeOK' /\ pll' = pll
    BY <1>2, <2>1, Silent
  <2>3. \A d \in Clients \ {c} : buffer'[d] = buffer[d]
    BY <1>2, <2>1
  <2>4. c \in neat => Waiting(c)'
    <3> SUFFICES ASSUME c \in neat PROVE Waiting(c)'
      OBVIOUS
    <3>1. /\ owed[c] = 1 /\ asked[c] \in Lines
          /\ kernel[c] = <<asked[c]>> /\ buffer[c] = << >>
      BY <1>1, ReadIsAlive
    <3>2. buffer'[c] = << >> \o <<asked[c]>>
      BY <1>2, <2>1, <3>1
    <3>3. buffer'[c] = <<asked[c]>>
      BY <3>2
    <3>4. c \in Known
      BY <1>1 DEF Known
    <3> QED
      BY <1>3, <1>4, <2>1, <3>1, <3>3, <3>4 DEF Waiting
  <2>5. NeatClients'
    <3>1. \A d \in neat \ {c} : /\ Quiescent(d)' \/ Waiting(d)'
                                /\ d \in ready' => kernel'[d] # << >>
      BY <1>1, <1>2, <1>3, <1>4, <2>1, <2>3 DEF Inv, NeatClients, Quiescent, Waiting
    <3> QED
      BY <1>1, <2>4, <3>1 DEF NeatClients
  <2>6. AckedIsSet'
    BY <2>1, <2>2 DEF Inv, AckedIsSet
  <2>7. acked' \in Channels \cup {Anything}
    BY <1>2, <2>1 DEF TypeOK
  <2> QED
    BY <1>2, <1>6, <2>1, <2>2, <2>5, <2>6, <2>7
<1>8. ASSUME NEW read \in Seq(Lines), Answered(c, read) PROVE Inv'
  <2> DEFINE s == m_pSCPISocket
  <2>1. /\ Input(s, read) /\ SendAnswer(s, read) /\ s \in Clients
        /\ neat # {} => s = c /\ buffer' = [buffer EXCEPT ![c] = << >>]
        /\ c \in neat => owed[c] = 1 /\ asked[c] \in Lines /\ read = <<asked[c]>>
    BY <1>2, <1>8 DEF Answered
  <2>2. /\ IF s \in neat
           THEN /\ owed' = [owed EXCEPT ![s] = @ - 1]
                /\ asked' = [asked EXCEPT ![s] = Idle]
           ELSE UNCHANGED <<owed, asked>>
        /\ acked' = AckedAfter(read)
    BY <2>1 DEF SendAnswer, Emitted
  <2> HIDE DEF s
  <2>3. /\ SamplingTypeOK' /\ unrun' \subseteq unrun
        /\ (\A i \in DOMAIN read : read[i].cmd # "PLL") => pll' = pll
        /\ \A line : read = <<line>> => Execute(line)
    BY <1>2, <2>1, InputDoes
  <2>4. asked' \in [Clients -> Lines \cup {Idle}] /\ owed' \in [Clients -> Int]
    <3>1. s \in Clients
      BY <2>1
    <3>2. CASE s \in neat
      <4>1. owed[s] \in Int /\ owed[s] - 1 \in Int
        BY <1>2, <3>1
      <4> QED
        BY <1>2, <2>2, <3>1, <3>2, <4>1
    <3>3. CASE s \notin neat
      BY <1>2, <2>2, <3>3
    <3> QED
      BY <3>2, <3>3
  <2>5. NeatClients'
    <3>1. ASSUME NEW d \in neat, d # c
          PROVE  /\ Quiescent(d)' \/ Waiting(d)'
                 /\ d \in ready' => kernel'[d] # << >>
      <4>1. s = c /\ buffer'[d] = buffer[d] /\ kernel'[d] = kernel[d]
        BY <1>2, <1>3, <2>1, <3>1
      <4>2. owed'[d] = owed[d] /\ asked'[d] = asked[d]
        BY <1>2, <2>2, <3>1, <4>1
      <4> QED
        BY <1>1, <1>4, <4>1, <4>2 DEF Inv, NeatClients, Quiescent, Waiting
    <3>2. ASSUME c \in neat PROVE Quiescent(c)'
      <4>1. s = c /\ buffer'[c] = << >> /\ owed[c] = 1
        BY <1>2, <2>1, <3>2
      <4>2. owed'[c] = 0
        BY <1>2, <2>2, <3>2, <4>1
      <4> QED
        BY <1>3, <4>1, <4>2 DEF Quiescent
    <3> QED
      BY <1>1, <3>1, <3>2 DEF NeatClients
  <2>6. acked' \in Channels \cup {Anything} /\ AckedIsSet'
    BY <1>2, <2>2, <2>3, AckedFits
  <2> QED
    BY <1>6, <2>3, <2>4, <2>5, <2>6
<1> QED
  BY <1>7, <1>8, InputIs

-----------------------------------------------------------------------------
(***************************************************************************)
(* All steps                                                               *)
(***************************************************************************)

LEMMA NextFits == Inv /\ [Next]_vars => Inv'
<1> SUFFICES ASSUME Inv, [Next]_vars PROVE Inv'
  OBVIOUS
<1>1. CASE UNCHANGED vars
  <2>1. /\ UNCHANGED <<pll, notifierSampleChannelRange, reply, faults>>
        /\ UNCHANGED <<backlog, m_pSCPISocket, wired, seen, closed, ended>>
        /\ UNCHANGED <<kernel, ready, buffer, lines, neat, asked, owed, upset, acked>>
        /\ UNCHANGED <<paced, unrun>>
    BY <1>1 DEF vars, samplingVars, netVars, dataVars, knownVars, talkVars, paceVars
  <2>2. Known' = Known
    BY <2>1 DEF Known
  <2>3. TypeOK'
    BY <2>1 DEF Inv, TypeOK, SamplingTypeOK
  <2>4. NeatClients' /\ OneAlive' /\ Connections' /\ AckedIsSet'
    BY <2>1, <2>2
    DEF Inv, NeatClients, Quiescent, Waiting, OneAlive, Connections, AckedIsSet
  <2> QED
    BY <2>3, <2>4 DEF Inv
<1>2. CASE Peers
  BY <1>2, ConnectFits, SendPartFits, CloseFits, SendFits DEF Peers
<1>3. CASE Server
  BY <1>3, NewConnectionFits, SCPIInputFits, SCPIDisconnectFits DEF Server
<1>4. CASE Restart
  BY <1>4, RestartFits
<1>5. CASE Network
  BY <1>5, NetworkFits DEF Network
<1> QED
  BY <1>1, <1>2, <1>3, <1>4, <1>5 DEF Next

LEMMA Invariance == Spec => []Inv
  BY InitFits, NextFits, PTL DEF Spec

\* Every variable keeps its type.
THEOREM TypeCorrect == Spec => []TypeOK
<1>1. Inv => TypeOK
  BY DEF Inv
<1> QED
  BY <1>1, Invariance, PTL

\* As long as there was never more than one connection, a client that sends whole
\* lines and waits for each answer never gets an answer too many.
THEOREM OneAnswerEachAlways == Spec => []OneAnswerEach
<1>1. Inv => OneAnswerEach
  <2>1. \A c : Quiescent(c) \/ Waiting(c) => owed[c] >= 0
    BY DEF Quiescent, Waiting
  <2> QED
    BY <2>1 DEF Inv, NeatClients, OneAnswerEach
<1> QED
  BY <1>1, Invariance, PTL

\* What such a client is told of the PLL channel is the channel last acknowledged to
\* any client, of the socket or the network, or an error.
THEOREM ToldIsAckedAlways == Spec => ToldIsAcked
<1>1. Inv /\ [Next]_vars
        => [\A c \in neat :
              /\ reply' # Silence /\ owed'[c] < owed[c]
              /\ asked[c] = Query("PLL?") /\ acked # Anything
              => reply' \in ({acked} \cap PllNames) \cup {ErrExec}]_vars
  <2> SUFFICES ASSUME Inv, Next, NEW c \in neat,
                      reply' # Silence, owed'[c] < owed[c],
                      asked[c] = Query("PLL?"), acked # Anything
               PROVE  reply' \in ({acked} \cap PllNames) \cup {ErrExec}
    OBVIOUS
  <2>1. ~Quiet
    BY DEF Quiet
  <2>2. ~Restart
    BY DEF Restart, RestartSampling
  <2>12. ~Network
    <3>1. owed' # owed
      BY DEF Inv, TypeOK
    <3> QED
      BY <3>1 DEF Network, NetworkCommand, talkVars
  <2>3. PICK d \in Clients : SCPIInput(d)
    BY <2>1, <2>2, <2>12
    DEF Next, Peers, Server, Connect, SendPart, Send, Close, NewConnection, SCPIDisconnect
  <2>4. PICK read \in Seq(Lines) : Answered(d, read)
    BY <2>1, <2>3, InputIs DEF Buffered
  <2>5. /\ c \in Clients /\ owed \in [Clients -> Int] /\ SamplingTypeOK
    BY DEF Inv, TypeOK
  <2>6. m_pSCPISocket = d /\ SendAnswer(d, read) /\ Input(d, read)
    BY <2>4 DEF Answered
  <2>7. c = d
    BY <2>5, <2>6 DEF SendAnswer
  <2>8. read = <<asked[c]>>
    BY <2>4, <2>7 DEF Answered
  <2>9. Execute(asked[c])
    BY <2>5, <2>6, <2>8, InputDoes
  <2>10. asked[c].cmd = "PLL?"
    <3>1. Query("PLL?").cmd = "PLL?"
      BY DEF Query
    <3> QED
      BY <3>1
  <2>11. reply' \in {PllName(pll), ErrExec}
    BY <2>5, <2>9, <2>10, Executed
  <2> QED
    BY <2>11 DEF Inv, AckedIsSet
<1> QED
  BY <1>1, Invariance, PTL DEF Spec, ToldIsAcked
=============================================================================
