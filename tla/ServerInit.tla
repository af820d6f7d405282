--------------------------- MODULE ServerInit ---------------------------
(***************************************************************************)
(* Start of the server: the state machine of cMT310S2dServer with the      *)
(* watcher that waits for the micro controller, the retries to connect to  *)
(* the resource manager, and the registration of the resources there.      *)
(*                                                                         *)
(* A signal emitted in the slot of a state waits in the machine's queue    *)
(* until the slot is done; one for which the current state has no          *)
(* transition is dropped.  Timers and the network only speak when the      *)
(* queue is empty.  The exit code m_nerror is set ahead of the failure it  *)
(* stands for.                                                             *)
(***************************************************************************)
EXTENDS Naturals, Sequences

CONSTANTS
  Items,         \* how many resources each interface registers, in list order
  MaxRetry,      \* attempts to connect to the resource manager: 100
  ParserSignals  \* a failed parse may emit finishedParsingXML(false) as well

ASSUME InitAssumption ==
  /\ Items \in Seq(Nat)
  /\ MaxRetry \in Nat \ {0}
  /\ ParserSignals \in BOOLEAN

VARIABLES
  state,        \* current state of the machine
  signals,      \* signals in the queue of the machine
  m_nerror,     \* the code the process would exit with
  failed,       \* history: the failure that made the server give up
  m_TimerTO, m_TimerPeriod,  \* the watcher's timers run
  m_retryTimer, \* the retry timer runs
  m_nRetryRMConnect,         \* attempts left
  failures,     \* history: failed attempts to connect
  rm,           \* the connection to the resource manager
  next,         \* the next interface to register its resources
  m_nMsgNr,     \* the last message number used
  msgNrList,    \* numbers each interface waits for
  asked,        \* numbers each interface has sent and has no answer for
  refused,      \* numbers the resource manager has refused
  registerRdy   \* how often each interface has emitted registerRdy

watcherVars  == <<m_TimerTO, m_TimerPeriod>>
connectVars  == <<m_retryTimer, m_nRetryRMConnect, failures, rm>>
registerVars == <<next, m_nMsgNr, msgNrList, asked, refused, registerRdy>>
vars == <<state, signals, m_nerror, failed, watcherVars, connectVars, registerVars>>

Interfaces == 1..Len(Items)

\* The errors of doConfiguration before the file is parsed.
EarlyErrors == {"parameterError", "pipeError", "xsdfileError"}

Errors == EarlyErrors \cup {"noError", "xmlfileError", "atmelError",
  "ctrlDeviceError", "fpgaDeviceError", "rmConnectionError"}

Init ==
  /\ state = "start" /\ signals = <<>>
  /\ m_nerror = "noError" /\ failed = "noError"
  /\ m_TimerTO = FALSE /\ m_TimerPeriod = FALSE
  /\ m_retryTimer = FALSE /\ m_nRetryRMConnect = 0 /\ failures = 0
  /\ rm = "none"
  /\ next = 1 /\ m_nMsgNr = 0
  /\ msgNrList = [i \in Interfaces |-> {}]
  /\ asked = [i \in Interfaces |-> {}]
  /\ refused = [i \in Interfaces |-> {}]
  /\ registerRdy = [i \in Interfaces |-> 0]

\* The machine handles the first signal of its queue.
Handle(signal) == signals # <<>> /\ Head(signals) = signal

Emit(more) == signals' = Tail(signals) \o more

Registering == state = "SendRMIdentandRegister" /\ next \in Interfaces

\* The event loop is back: no slot runs, nothing is queued, and the machine has
\* not finished.
Idle == signals = <<>> /\ state \notin {"start", "finish"} /\ ~Registering

\* The slot gives up with an error.
GiveUp(error) == m_nerror' = error /\ failed' = error

-----------------------------------------------------------------------------
(***************************************************************************)
(* Configuration                                                           *)
(***************************************************************************)
DoConfiguration ==
  /\ state = "start"
  /\ state' = "xmlConfiguration"
  /\ \/ /\ signals' = <<"finishedParsingXML">>
        /\ UNCHANGED <<m_nerror, failed>>
     \/ /\ \E error \in EarlyErrors : GiveUp(error)
        /\ signals' = <<"abortInit">>
     \/ /\ GiveUp("xmlfileError")
        /\ \/ signals' = <<"abortInit">>
           \/ ParserSignals /\ signals' = <<"finishedParsingXML", "abortInit">>
  /\ UNCHANGED <<watcherVars, connectVars, registerVars>>

\* finishedParsingXML leads on whatever its argument says.
DoWait4Atmel ==
  /\ Handle("finishedParsingXML") /\ state = "xmlConfiguration"
  /\ state' = "wait4Atmel"
  /\ Emit(<<>>)
  /\ m_nerror' = "atmelError"
  /\ m_TimerTO' = TRUE /\ m_TimerPeriod' = TRUE
  /\ UNCHANGED <<failed, connectVars, registerVars>>

(***************************************************************************)
(* The watcher                                                             *)
(***************************************************************************)

\* Mutant: the timeout goes on.
DoAtmelTestLeavesTimeout ==
  /\ Idle /\ m_TimerPeriod
  /\ m_TimerPeriod' = FALSE /\ UNCHANGED m_TimerTO
  /\ signals' = <<"atmelRunning">>
  /\ UNCHANGED <<state, m_nerror, failed, connectVars, registerVars>>

\* The register says that the controller runs.  A test that fails or says no
\* changes nothing.
DoAtmelTest ==
  /\ Idle /\ m_TimerPeriod
  /\ m_TimerPeriod' = FALSE /\ m_TimerTO' = FALSE
  /\ signals' = <<"atmelRunning">>
  /\ UNCHANGED <<state, m_nerror, failed, connectVars, registerVars>>

DoTimeout ==
  /\ Idle /\ m_TimerTO
  /\ m_TimerPeriod' = FALSE /\ m_TimerTO' = FALSE
  /\ signals' = <<"abortInit">>
  /\ failed' = "atmelError"
  /\ UNCHANGED <<state, m_nerror, connectVars, registerVars>>

(***************************************************************************)
(* Server setup                                                            *)
(***************************************************************************)
DoSetupServer ==
  /\ Handle("atmelRunning") /\ state = "wait4Atmel"
  /\ state' = "setupServer"
  /\ \/ /\ \E error \in {"ctrlDeviceError", "fpgaDeviceError"} : GiveUp(error)
        /\ Emit(<<"abortInit">>)
        /\ UNCHANGED m_nRetryRMConnect
     \/ /\ m_nRetryRMConnect' = MaxRetry
        /\ Emit(<<"serverSetup">>)
        /\ UNCHANGED <<m_nerror, failed>>
  /\ UNCHANGED <<watcherVars, m_retryTimer, failures, rm, registerVars>>

(***************************************************************************)
(* Connecting to the resource manager                                      *)
(***************************************************************************)

\* Mutant: the exit code is not preset.
DoConnect2RMUnset ==
  /\ Handle("serverSetup") /\ state \in {"setupServer", "connect2RMError"}
  /\ state' = "connect2RM"
  /\ Emit(<<>>)
  /\ rm' = "connecting"
  /\ UNCHANGED <<m_nerror, failed, watcherVars, m_retryTimer,
                 m_nRetryRMConnect, failures, registerVars>>

DoConnect2RM ==
  /\ Handle("serverSetup") /\ state \in {"setupServer", "connect2RMError"}
  /\ state' = "connect2RM"
  /\ Emit(<<>>)
  /\ m_nerror' = "rmConnectionError"
  /\ rm' = "connecting"
  /\ UNCHANGED <<failed, watcherVars, m_retryTimer, m_nRetryRMConnect,
                 failures, registerVars>>

\* Mutant: given up one attempt too early.
Connect2RMErrorEarly ==
  /\ Handle("connectionRMError") /\ state = "connect2RM"
  /\ state' = "connect2RMError"
  /\ m_nRetryRMConnect' = m_nRetryRMConnect - 1
  /\ IF m_nRetryRMConnect' <= 1
     THEN /\ Emit(<<"abortInit">>) /\ failed' = "rmConnectionError"
          /\ UNCHANGED m_retryTimer
     ELSE /\ Emit(<<>>) /\ UNCHANGED failed
          /\ m_retryTimer' = TRUE
  /\ UNCHANGED <<m_nerror, watcherVars, failures, rm, registerVars>>

\* Mutant: the timer is started only once.
Connect2RMErrorOnce ==
  /\ Handle("connectionRMError") /\ state = "connect2RM"
  /\ state' = "connect2RMError"
  /\ m_nRetryRMConnect' = m_nRetryRMConnect - 1
  /\ IF m_nRetryRMConnect' = 0
     THEN /\ Emit(<<"abortInit">>) /\ failed' = "rmConnectionError"
          /\ UNCHANGED m_retryTimer
     ELSE /\ Emit(<<>>) /\ UNCHANGED failed
          /\ m_retryTimer' = (m_nRetryRMConnect = MaxRetry)
  /\ UNCHANGED <<m_nerror, watcherVars, failures, rm, registerVars>>

Connect2RMError ==
  /\ Handle("connectionRMError") /\ state = "connect2RM"
  /\ state' = "connect2RMError"
  /\ m_nRetryRMConnect' = m_nRetryRMConnect - 1
  /\ IF m_nRetryRMConnect' = 0
     THEN /\ Emit(<<"abortInit">>) /\ failed' = "rmConnectionError"
          /\ UNCHANGED m_retryTimer
     ELSE /\ Emit(<<>>) /\ UNCHANGED failed
          /\ m_retryTimer' = TRUE
  /\ UNCHANGED <<m_nerror, watcherVars, failures, rm, registerVars>>

\* The single shot timer emits serverSetup.
RetryTimeout ==
  /\ Idle /\ m_retryTimer
  /\ m_retryTimer' = FALSE
  /\ signals' = <<"serverSetup">>
  /\ UNCHANGED <<state, m_nerror, failed, watcherVars, m_nRetryRMConnect,
                 failures, rm, registerVars>>

\* The connection is made, or it fails, or it breaks later.
Connected ==
  /\ Idle /\ rm = "connecting"
  /\ rm' = "up"
  /\ signals' = <<"connected">>
  /\ UNCHANGED <<state, m_nerror, failed, watcherVars, m_retryTimer,
                 m_nRetryRMConnect, failures, registerVars>>

ConnectionRMError ==
  /\ Idle /\ rm \in {"connecting", "up"}
  /\ rm' = "none"
  /\ failures' = IF rm = "connecting" THEN failures + 1 ELSE failures
  /\ signals' = <<"connectionRMError">>
  /\ UNCHANGED <<state, m_nerror, failed, watcherVars, m_retryTimer,
                 m_nRetryRMConnect, registerVars>>

-----------------------------------------------------------------------------
(***************************************************************************)
(* Registration of the resources                                           *)
(***************************************************************************)
DoIdentAndRegister ==
  /\ Handle("connected") /\ state = "connect2RM"
  /\ state' = "SendRMIdentandRegister"
  /\ Emit(<<>>)
  /\ UNCHANGED <<m_nerror, failed, watcherVars, connectVars, registerVars>>

\* Mutant: each interface counts for itself.
MsgNrsOfItsOwn(i) == 1..Items[i]

\* The next numbers of getMsgNr, one for each resource of the interface.
MsgNrs(i) == m_nMsgNr + 1 .. m_nMsgNr + Items[i]

\* registerResource of one interface in the loop of doIdentAndRegister, which
\* runs to its end before the network is served again.
RegisterResource ==
  /\ Registering
  /\ msgNrList' = [msgNrList EXCEPT ![next] = MsgNrs(next)]
  /\ asked' = [asked EXCEPT ![next] = MsgNrs(next)]
  /\ m_nMsgNr' = m_nMsgNr + Items[next]
  /\ next' = next + 1
  /\ UNCHANGED <<state, signals, m_nerror, failed, watcherVars, connectVars,
                 refused, registerRdy>>

\* The acknowledgement takes the last number the interface waits for.
LastOf(i, n) == msgNrList[i] = {n}

\* The answer to number n of interface i reaches the slots of all interfaces.
ResourceManagerAck(i, n) ==
  /\ Idle /\ rm = "up"
  /\ n \in asked[i]
  /\ asked' = [asked EXCEPT ![i] = @ \ {n}]
  /\ msgNrList' = [j \in Interfaces |-> msgNrList[j] \ {n}]
  /\ registerRdy' = [j \in Interfaces |->
                       registerRdy[j] + IF LastOf(j, n) THEN 1 ELSE 0]
  /\ UNCHANGED <<state, signals, m_nerror, failed, watcherVars, connectVars,
                 next, m_nMsgNr, refused>>

\* The resource manager refuses; nobody listens for that.
Refuse(i, n) ==
  /\ Idle /\ rm = "up"
  /\ n \in asked[i]
  /\ asked' = [asked EXCEPT ![i] = @ \ {n}]
  /\ refused' = [refused EXCEPT ![i] = @ \cup {n}]
  /\ UNCHANGED <<state, signals, m_nerror, failed, watcherVars, connectVars,
                 next, m_nMsgNr, msgNrList, registerRdy>>

-----------------------------------------------------------------------------
\* From every state of stateCONF to the final state, and exit(m_nerror).
DoCloseServer ==
  /\ Handle("abortInit") /\ state # "finish"
  /\ state' = "finish"
  /\ signals' = <<>>
  /\ UNCHANGED <<m_nerror, failed, watcherVars, connectVars, registerVars>>

\* The states with a transition for a signal.
From(signal) ==
  CASE signal = "finishedParsingXML" -> {"xmlConfiguration"}
    [] signal = "atmelRunning"       -> {"wait4Atmel"}
    [] signal = "serverSetup"        -> {"setupServer", "connect2RMError"}
    [] signal \in {"connected", "connectionRMError"} -> {"connect2RM"}
    [] OTHER -> {state}

\* No transition for the signal in this state.
Drop ==
  /\ signals # <<>> /\ state \notin From(Head(signals))
  /\ Emit(<<>>)
  /\ UNCHANGED <<state, m_nerror, failed, watcherVars, connectVars, registerVars>>

Machine ==
  \/ DoConfiguration \/ DoWait4Atmel \/ DoSetupServer \/ DoConnect2RM
  \/ Connect2RMError \/ DoIdentAndRegister \/ RegisterResource
  \/ DoCloseServer \/ Drop

Next ==
  \/ Machine
  \/ DoAtmelTest \/ DoTimeout \/ RetryTimeout
  \/ Connected \/ ConnectionRMError
  \/ \E i \in Interfaces : \E n \in asked[i] :
       ResourceManagerAck(i, n) \/ Refuse(i, n)

Spec == Init /\ [][Next]_vars

\* The event loop runs, its timers expire, and an attempt to connect ends.
Fairness ==
  /\ WF_vars(Machine)
  /\ WF_vars(DoTimeout) /\ WF_vars(RetryTimeout)
  /\ WF_vars(rm = "connecting" /\ (Connected \/ ConnectionRMError))

FairSpec == Spec /\ Fairness

-----------------------------------------------------------------------------
(***************************************************************************)
(* Properties                                                              *)
(***************************************************************************)

\* Every variable has its type; the retry counter never passes zero.
TypeOK ==
  /\ state \in {"start", "xmlConfiguration", "wait4Atmel", "setupServer",
                "connect2RM", "connect2RMError", "SendRMIdentandRegister",
                "finish"}
  /\ signals \in Seq({"finishedParsingXML", "atmelRunning", "serverSetup",
                      "connected", "connectionRMError", "abortInit"})
  /\ m_nerror \in Errors /\ failed \in Errors
  /\ m_TimerTO \in BOOLEAN /\ m_TimerPeriod \in BOOLEAN /\ m_retryTimer \in BOOLEAN
  /\ m_nRetryRMConnect \in 0..MaxRetry /\ failures \in 0..MaxRetry
  /\ rm \in {"none", "connecting", "up"}
  /\ next \in 1..Len(Items) + 1 /\ m_nMsgNr \in Nat
  /\ msgNrList \in [Interfaces -> SUBSET Nat]
  /\ asked \in [Interfaces -> SUBSET Nat]
  /\ refused \in [Interfaces -> SUBSET Nat]
  /\ registerRdy \in [Interfaces -> Nat]

\* main.cpp tells the reason of the end from the exit code.  It is the failure
\* that made the server give up, although the code is set before the failure,
\* and set anew when the next state is entered.  One case differs: a parser that
\* signals its failure sends the machine on to the watcher, whose preset code
\* then stands for the file's.
ExitNamesFailure ==
  state = "finish" =>
    \/ m_nerror = failed
    \/ ParserSignals /\ failed = "xmlfileError" /\ m_nerror = "atmelError"

\* The server gives the resource manager up after MaxRetry failed attempts,
\* neither earlier nor later.
GivesUpAfterAllAttempts ==
  state = "finish" /\ m_nerror = "rmConnectionError" => failures = MaxRetry

\* A server that has registered goes on serving: no timer of the start fires
\* late, and the loss of the resource manager does not end it either.
StaysRegistered ==
  [][state = "SendRMIdentandRegister" => state' = state]_vars

\* An interface reports that its registration is done once, when the resource
\* manager has acknowledged every resource of it and no other interface's
\* numbers instead, in whatever order the answers come.
ReadyWhenAllAcked ==
  \A i \in Interfaces :
    registerRdy[i] = IF i < next /\ Items[i] > 0 /\ asked[i] \cup refused[i] = {}
                     THEN 1 ELSE 0

\* The start comes to an end: the server has sent all its registrations, or it
\* exits.
Settles == <>(state = "finish" \/ next > Len(Items))
=============================================================================
