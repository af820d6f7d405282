--------------------------- MODULE ScpiSocket ---------------------------
(***************************************************************************)
(* The raw SCPI socket of the server, with clients that use the sampling   *)
(* interface over it, while clients of the network use it too.             *)
(*                                                                         *)
(* The server keeps one socket pointer.  A new connection replaces it and  *)
(* connects the new socket's signals; the signals of an older one stay     *)
(* connected, but their slots work on the pointer.  What a client sends is *)
(* first in the kernel; the notification that it can be read moves it to   *)
(* the buffer of its socket, and emits readyRead.  A client of the network *)
(* is no more here than the commands it has executed: its answers go to a  *)
(* peer of its own (Notifier).                                             *)
(***************************************************************************)
EXTENDS Sampling, FiniteSets

CONSTANTS
  MaxClients, \* bound on connections; a client that connects again is another one
  Channels,   \* PLL channels that clients select, not only those of the list
  Ranges,     \* sampling ranges that clients select
  Idle,       \* a client waits for no answer
  Anything,   \* no channel is known to be selected
  MaxLines    \* bound on the lines sent and the commands of the network

ASSUME ScpiAssumption ==
  /\ MaxClients \in Nat
  /\ Anything \notin Channels
  /\ MaxLines \in Nat

\* Connections have numbers in the order they are made; zero is none.
Clients == 1..MaxClients
NoClient == 0

\* What clients ask of the sampling interface.
Query(cmd) == [cmd |-> cmd, par |-> ""]
Command(cmd, names) == {[cmd |-> cmd, par |-> name] : name \in names}
Lines == {Query("PLL?"), Query("RANGE?"), Query("SRATE?")}
           \cup Command("PLL", Channels)
           \cup Command("RANGE", Ranges)

VARIABLES
  backlog,        \* connections the server has not seen
  m_pSCPISocket,  \* the newest connection it has seen
  wired,          \* sockets whose signals are connected
  seen,           \* sockets made
  closed,         \* connections their client has closed
  ended,          \* those of which the server knows
  kernel,         \* complete lines of each client that no socket has read
  ready,          \* clients with something in the kernel, a part of a line too
  buffer,         \* complete lines in each socket
  lines,          \* how many lines were sent and commands came from the network
  \* history
  neat,           \* clients that sent whole lines, each after the answer to the
                  \* last; none if there ever was more than one connection
  asked,          \* the line a neat client waits to have answered
  owed,           \* lines a neat client sent, minus answers it got
  upset,          \* sockets replaced, closed, or cut off by another one's end
  acked,          \* channel of the last PLL command of anyone, if it was acknowledged
  paced,          \* clients that sent no line before their last one was executed
  unrun           \* those of which a line is not executed yet

netVars == <<backlog, m_pSCPISocket, wired, seen, closed, ended>>
dataVars == <<kernel, ready, buffer, lines>>
talkVars == <<neat, asked, owed>>
paceVars == <<paced, unrun>>
knownVars == <<talkVars, upset, acked, paceVars>>
vars == <<samplingVars, netVars, dataVars, knownVars>>

\* A step that answers nothing.
Quiet ==
  /\ reply' = Silence
  /\ UNCHANGED <<pll, notifierSampleChannelRange, faults>>

Init ==
  /\ \E failed \in {f \in BOOLEAN : f => MaxFaults > 0} : StartSampling(PowerUp, failed)
  /\ backlog = <<>> /\ m_pSCPISocket = NoClient
  /\ wired = {} /\ seen = {} /\ closed = {} /\ ended = {}
  /\ kernel = [c \in Clients |-> <<>>] /\ buffer = [c \in Clients |-> <<>>]
  /\ ready = {} /\ lines = 0
  /\ asked = [c \in Clients |-> Idle]
  /\ owed = [c \in Clients |-> 0]
  /\ neat = Clients /\ upset = {} /\ acked = Anything
  /\ paced = Clients /\ unrun = {}

-----------------------------------------------------------------------------
(***************************************************************************)
(* Clients                                                                 *)
(***************************************************************************)
Known == seen \cup ToSet(backlog)
Open(c) == c \in Known \ closed

\* Clients in "gone" are no longer neat.
Forget(gone) ==
  /\ neat' = neat \ gone
  /\ asked' = [c \in Clients |-> IF c \in gone THEN Idle ELSE asked[c]]
  /\ owed' = [c \in Clients |-> IF c \in gone THEN 0 ELSE owed[c]]

\* Clients in "gone" no longer leave the server the time for each line.
Hurried(gone) == paced' = paced \ gone /\ unrun' = unrun \ gone

\* The connection is made by the kernel; the server learns of it later, perhaps
\* before it learns that an older one has ended.
Connect(c) ==
  /\ c = Cardinality(Known \cup closed) + 1
  /\ backlog' = Append(backlog, c)
  /\ Forget(IF Known \subseteq ended THEN {} ELSE Clients)
  /\ Quiet
  /\ UNCHANGED <<m_pSCPISocket, wired, seen, closed, ended, dataVars, upset,
                 acked, paceVars>>

\* A part of a line arrives before the rest.
SendPart(c) ==
  /\ Open(c) /\ c \notin ready /\ lines < MaxLines
  /\ ready' = ready \cup {c}
  /\ Forget({c})
  /\ Quiet
  /\ UNCHANGED <<netVars, kernel, buffer, lines, upset, acked, paceVars>>

Send(c, line) ==
  /\ Open(c) /\ lines < MaxLines
  /\ lines' = lines + 1
  /\ kernel' = [kernel EXCEPT ![c] = Append(@, line)]
  /\ ready' = ready \cup {c}
  /\ IF c \in neat /\ owed[c] = 0
     THEN /\ asked' = [asked EXCEPT ![c] = line]
          /\ owed' = [owed EXCEPT ![c] = 1]
          /\ UNCHANGED neat
     ELSE Forget({c})
  /\ IF c \in paced \ unrun
     THEN unrun' = unrun \cup {c} /\ UNCHANGED paced
     ELSE Hurried({c})
  /\ Quiet
  /\ UNCHANGED <<netVars, buffer, upset, acked>>

Close(c) ==
  /\ Open(c)
  /\ closed' = closed \cup {c}
  /\ upset' = upset \cup {c}
  /\ Forget({c})
  /\ Quiet
  /\ UNCHANGED <<backlog, m_pSCPISocket, wired, seen, ended, dataVars, acked, paceVars>>

-----------------------------------------------------------------------------
(***************************************************************************)
(* Server                                                                  *)
(***************************************************************************)

\* Mutant: the first connection stays the one that is served.
SetSCPIConnectionOnce(c) ==
  /\ m_pSCPISocket' = IF m_pSCPISocket = NoClient THEN c ELSE m_pSCPISocket
  /\ wired' = wired \cup {m_pSCPISocket'}

\* setSCPIConnection
SetSCPIConnection(c) ==
  /\ m_pSCPISocket' = c
  /\ wired' = wired \cup {c}

NewConnection ==
  /\ backlog # <<>>
  /\ LET c == Head(backlog) IN
       /\ SetSCPIConnection(c)
       /\ seen' = seen \cup {c}
       /\ upset' = upset \cup seen
  /\ backlog' = Tail(backlog)
  /\ Quiet
  /\ UNCHANGED <<closed, ended, dataVars, talkVars, acked, paceVars>>

\* The command object that a line names.
Execute(line) ==
  \/ line.cmd = "PLL?" /\ ReadPLL
  \/ line.cmd = "PLL" /\ WritePLL(line.par)
  \/ line.cmd = "RANGE?" /\ ReadSampleRange
  \/ line.cmd = "RANGE" /\ WriteSampleRange(line.par)
  \/ line.cmd = "SRATE?" /\ ReadSampleRate

\* No object: the input is answered with nak.
NotFound ==
  /\ reply' = Nak
  /\ UNCHANGED <<pll, notifierSampleChannelRange, faults>>

\* All lines that were read from the socket of s are one input.  An empty one names
\* no object; what the parser takes several for, if for anything, is left open: at
\* most one of them is executed.
Input(s, read) ==
  \/ Len(read) = 1 /\ Execute(read[1]) /\ unrun' = unrun \ {s}
  \/ Len(read) > 1 /\ (\E i \in DOMAIN read : Execute(read[i])) /\ UNCHANGED unrun
  \/ Len(read) # 1 /\ NotFound /\ UNCHANGED unrun

\* The channel that is known to be selected after the lines were one input, or one
\* command: that of the command, if it was acknowledged.
AckedAfter(read) ==
  IF \A i \in DOMAIN read : read[i].cmd # "PLL" THEN acked
  ELSE IF Len(read) = 1 /\ reply' = Ack THEN read[1].par
  ELSE Anything

\* Mutant: the parser adds its nak to the one of the object.
NakAgain == IF reply' = Nak THEN 2 ELSE 1

\* cmdExecutionDone is emitted once, by the object or by the parser.
Emitted == 1

\* The answer is written to the pointer's socket; a client that has closed it
\* does not get it.
SendAnswer(s, read) ==
  /\ IF s \in neat
     THEN /\ owed' = [owed EXCEPT ![s] = @ - Emitted]
          /\ asked' = [asked EXCEPT ![s] = Idle]
     ELSE UNCHANGED <<owed, asked>>
  /\ acked' = AckedAfter(read)

\* The socket of c reads what has arrived, and emits readyRead.  If that is
\* connected, the slot reads all lines of the pointer's socket.
SCPIInput(c) ==
  /\ c \in seen /\ c \in ready
  /\ ready' = ready \ {c}
  /\ kernel' = [kernel EXCEPT ![c] = <<>>]
  /\ LET filled == [buffer EXCEPT ![c] = @ \o kernel[c]]
         s == m_pSCPISocket
     IN \/ /\ c \in wired
           /\ buffer' = [filled EXCEPT ![s] = <<>>]
           /\ Input(s, filled[s])
           /\ SendAnswer(s, filled[s])
        \/ /\ c \notin wired
           /\ buffer' = filled
           /\ Quiet
           /\ UNCHANGED <<owed, asked, acked, unrun>>
  /\ UNCHANGED <<netVars, lines, neat, upset, paced>>

\* executeCommand: a client of the network has the same command objects, and its
\* answer is sent to its peer.
NetworkCommand(line) ==
  /\ lines < MaxLines /\ lines' = lines + 1
  /\ Execute(line)
  /\ acked' = AckedAfter(<<line>>)
  /\ UNCHANGED <<netVars, kernel, ready, buffer, talkVars, upset, paceVars>>

\* The socket of c ends after its data.  If its signals are still connected, not
\* they are disconnected, but those of the pointer's socket.
SCPIDisconnect(c) ==
  /\ c \in seen /\ c \in closed \ ended /\ c \notin ready
  /\ ended' = ended \cup {c}
  /\ IF c \in wired
     THEN /\ wired' = wired \ {m_pSCPISocket}
          /\ upset' = upset \cup {m_pSCPISocket}
     ELSE UNCHANGED <<wired, upset>>
  /\ Quiet
  /\ UNCHANGED <<backlog, m_pSCPISocket, seen, closed, dataVars, talkVars, acked, paceVars>>

\* A restart ends all connections.
Restart ==
  /\ RestartSampling
  /\ backlog' = <<>> /\ m_pSCPISocket' = NoClient
  /\ wired' = {} /\ seen' = {} /\ closed' = closed \cup Known /\ ended' = closed'
  /\ kernel' = [c \in Clients |-> <<>>] /\ buffer' = kernel'
  /\ ready' = {}
  /\ upset' = upset \cup Known
  /\ acked' = Anything
  /\ Forget(Known) /\ Hurried(Known)
  /\ UNCHANGED lines

Peers ==
  \E c \in Clients :
    Connect(c) \/ SendPart(c) \/ Close(c) \/ \E line \in Lines : Send(c, line)

Server == NewConnection \/ \E c \in Clients : SCPIInput(c) \/ SCPIDisconnect(c)

Network == \E line \in Lines : NetworkCommand(line)

Next == Peers \/ Network \/ Server \/ Restart

\* The event loop delivers what its sockets report.
Fairness ==
  /\ WF_vars(NewConnection)
  /\ \A c \in Clients : WF_vars(SCPIInput(c)) /\ WF_vars(SCPIDisconnect(c))

Spec == Init /\ [][Next]_vars /\ Fairness

-----------------------------------------------------------------------------
(***************************************************************************)
(* Properties                                                              *)
(***************************************************************************)

\* Every variable has its type.
TypeOK ==
  /\ SamplingTypeOK
  /\ backlog \in Seq(Clients)
  /\ m_pSCPISocket \in Clients \cup {NoClient}
  /\ wired \subseteq seen /\ seen \subseteq Clients
  /\ ended \subseteq closed /\ closed \subseteq Clients
  /\ kernel \in [Clients -> Seq(Lines)] /\ buffer \in [Clients -> Seq(Lines)]
  /\ ready \subseteq Clients /\ lines \in 0..MaxLines
  /\ asked \in [Clients -> Lines \cup {Idle}]
  /\ owed \in [Clients -> Int]
  /\ neat \subseteq Clients
  /\ upset \subseteq Clients \cup {NoClient}
  /\ acked \in Channels \cup {Anything}
  /\ paced \subseteq Clients /\ unrun \subseteq paced

\* As long as there was never more than one connection, a client that sends whole
\* lines and waits for each answer gets no answer it did not ask for, also after
\* other clients that did not have come and gone.
OneAnswerEach == \A c \in neat : owed[c] >= 0

\* Such a client that asks for the PLL channel is told the one that was last
\* acknowledged to anyone, over this or an earlier connection or the network, or an
\* error, after other lines, other clients and failed transactions, and an error if
\* there is no such channel.
ToldIsAcked ==
  [][\A c \in neat :
       /\ reply' # Silence /\ owed'[c] < owed[c]
       /\ asked[c] = Query("PLL?") /\ acked # Anything
       => reply' \in ({acked} \cap PllNames) \cup {ErrExec}]_vars

\* A line of a client that sends no other one before it was executed is executed, in
\* however many pieces it comes and whatever other connections do, unless its own one
\* is closed, is replaced, or is cut off by the end of an older one.
Served ==
  \A c \in Clients : c \in unrun ~> c \in upset \/ c \notin unrun
=============================================================================
