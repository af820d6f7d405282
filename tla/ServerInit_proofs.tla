----------------------- MODULE ServerInit_proofs -----------------------
(***************************************************************************)
(* Theorems about ServerInit, for every list of interfaces, every number   *)
(* of attempts, and either behaviour of the parser.                        *)
(***************************************************************************)
EXTENDS ServerInit, TLAPS

-----------------------------------------------------------------------------
(***************************************************************************)
(* The inductive invariant: Phase says what may be queued in each state,   *)
(* with which exit code and which timers; Numbers says how the numbers of  *)
(* the interfaces lie.                                                     *)
(***************************************************************************)

BeforeWatcher ==
  /\ state = "start" => signals = <<>> /\ m_nerror = failed
  /\ state = "xmlConfiguration" =>
       \/ signals = <<"finishedParsingXML">>
       \/ signals = <<"abortInit">> /\ m_nerror = failed
            /\ m_nerror # "rmConnectionError"
       \/ /\ signals = <<"finishedParsingXML", "abortInit">>
          /\ ParserSignals /\ failed = "xmlfileError"

WithWatcher ==
  /\ state = "wait4Atmel" =>
       /\ m_nerror = "atmelError"
       /\ \/ signals = <<>>
          \/ signals = <<"abortInit">> /\ failed = "atmelError"
          \/ signals = <<"abortInit">> /\ ParserSignals /\ failed = "xmlfileError"
          \/ signals = <<"atmelRunning">> /\ m_TimerTO = FALSE /\ m_TimerPeriod = FALSE
  /\ state \in {"setupServer", "connect2RM", "connect2RMError",
                "SendRMIdentandRegister"} =>
       m_TimerTO = FALSE /\ m_TimerPeriod = FALSE
  /\ state \in {"start", "xmlConfiguration"} =>
       m_TimerTO = FALSE /\ m_TimerPeriod = FALSE
  /\ state = "setupServer" =>
       \/ signals = <<"abortInit">> /\ m_nerror = failed
            /\ m_nerror # "rmConnectionError"
       \/ signals = <<"serverSetup">> /\ m_nRetryRMConnect = MaxRetry

BeforeConnect ==
  state \in {"start", "xmlConfiguration", "wait4Atmel", "setupServer"} =>
    rm = "none" /\ failures = 0 /\ m_retryTimer = FALSE

Connecting ==
  /\ state = "connect2RM" =>
       /\ m_nerror = "rmConnectionError" /\ m_retryTimer = FALSE
       /\ m_nRetryRMConnect > 0
       /\ \/ /\ signals = <<>> /\ rm = "connecting"
             /\ m_nRetryRMConnect + failures = MaxRetry
          \/ signals = <<"connected">> /\ rm = "up"
          \/ /\ signals = <<"connectionRMError">> /\ rm = "none"
             /\ m_nRetryRMConnect + failures = MaxRetry + 1
  /\ state = "connect2RMError" =>
       /\ m_nerror = "rmConnectionError" /\ rm = "none"
       /\ m_nRetryRMConnect + failures = MaxRetry
       /\ \/ signals = <<>> /\ m_nRetryRMConnect > 0
          \/ /\ signals = <<"serverSetup">> /\ m_nRetryRMConnect > 0
             /\ m_retryTimer = FALSE
          \/ /\ signals = <<"abortInit">> /\ m_nRetryRMConnect = 0
             /\ m_retryTimer = FALSE /\ failed = "rmConnectionError"

AtRest ==
  /\ state = "SendRMIdentandRegister" =>
       /\ signals = <<>> \/ signals = <<"connectionRMError">>
       /\ rm # "connecting" /\ m_retryTimer = FALSE
  /\ state = "finish" => signals = <<>>
  /\ state # "SendRMIdentandRegister" => next = 1

Phase ==
  /\ BeforeWatcher /\ WithWatcher /\ BeforeConnect /\ Connecting /\ AtRest
  /\ ExitNamesFailure /\ GivesUpAfterAllAttempts

Numbers ==
  /\ \A i \in Interfaces : msgNrList[i] = asked[i] \cup refused[i]
  /\ \A i \in Interfaces : asked[i] \cap refused[i] = {}
  /\ \A i \in Interfaces : \A n \in msgNrList[i] : n <= m_nMsgNr
  /\ \A i, j \in Interfaces : i # j => msgNrList[i] \cap msgNrList[j] = {}
  /\ \A i \in Interfaces : i >= next \/ Items[i] = 0 => msgNrList[i] = {}

\* What the queue holds after the machine has taken its first signal.
LEMMA QueueFacts ==
  /\ \A a : Head(<<a>>) = a /\ Tail(<<a>>) = <<>> /\ <<a>> # <<>>
  /\ \A a, b : Head(<<a, b>>) = a /\ Tail(<<a, b>>) = <<b>> /\ <<a, b>> # <<>>
  /\ <<>> \o <<>> = <<>>
  /\ \A a : <<>> \o <<a>> = <<a>> /\ <<a>> \o <<>> = <<a>>
  /\ \A a, b : <<a>> = <<b>> => a = b
  /\ \A s, a : s = <<a>> => Tail(s) \o <<>> = <<>>
  /\ \A s, a, b : s = <<a>> => Tail(s) \o <<b>> = <<b>>
  /\ \A s, a, b : s = <<a, b>> => Tail(s) \o <<>> = <<b>>
<1>1. /\ \A a : Head(<<a>>) = a /\ Tail(<<a>>) = <<>> /\ <<a>> # <<>>
      /\ \A a, b : Head(<<a, b>>) = a /\ Tail(<<a, b>>) = <<b>> /\ <<a, b>> # <<>>
  OBVIOUS
<1>2. /\ <<>> \o <<>> = <<>>
      /\ \A a : <<>> \o <<a>> = <<a>> /\ <<a>> \o <<>> = <<a>>
  OBVIOUS
<1>3. \A a, b : <<a>> = <<b>> => a = b
  OBVIOUS
<1>4. \A s, a : s = <<a>> => Tail(s) \o <<>> = <<>>
  BY <1>1, <1>2
<1>5. \A s, a, b : s = <<a>> => Tail(s) \o <<b>> = <<b>>
  BY <1>1, <1>2
<1>6. \A s, a, b : s = <<a, b>> => Tail(s) \o <<>> = <<b>>
  BY <1>1, <1>2
<1>7. QED  BY <1>1, <1>2, <1>3, <1>4, <1>5, <1>6

\* The number of items of an interface is a natural number.
LEMMA ItemsType ==
  /\ Len(Items) \in Nat
  /\ \A i \in Interfaces : i \in Nat /\ i > 0 /\ i <= Len(Items) /\ Items[i] \in Nat
  BY InitAssumption DEF Interfaces

-----------------------------------------------------------------------------
(***************************************************************************)
(* Phase                                                                   *)
(***************************************************************************)
\* The initial state is in phase.
LEMMA PhaseInit == Init => Phase
  BY DEF Init, Phase, BeforeWatcher, WithWatcher, BeforeConnect, Connecting,
     AtRest, ExitNamesFailure, GivesUpAfterAllAttempts

\* Every step of the machine, its timers and the network keeps the phase.
LEMMA PhaseStep ==
  ASSUME TypeOK, Phase, [Next]_vars
  PROVE  Phase'
<1> USE QueueFacts, InitAssumption
<1> USE DEF Phase, BeforeWatcher, WithWatcher, BeforeConnect, Connecting,
        AtRest, ExitNamesFailure, GivesUpAfterAllAttempts, Handle, Emit, GiveUp,
        Idle, EarlyErrors, watcherVars, connectVars, registerVars
<1>1. CASE DoConfiguration
  BY <1>1 DEF DoConfiguration
<1>2. CASE DoWait4Atmel
  <2>1. \/ signals' = <<>>
        \/ /\ signals' = <<"abortInit">>
           /\ ParserSignals /\ failed = "xmlfileError"
    <3>1. \/ signals = <<"finishedParsingXML">>
          \/ /\ signals = <<"finishedParsingXML", "abortInit">>
             /\ ParserSignals /\ failed = "xmlfileError"
      BY <1>2 DEF DoWait4Atmel
    <3>2. signals' = Tail(signals) \o <<>>
      BY <1>2 DEF DoWait4Atmel
    <3>3. QED  BY ONLY <3>1, <3>2, QueueFacts
  <2>2. QED  BY <1>2, <2>1 DEF DoWait4Atmel
<1>3. CASE DoAtmelTest
  BY <1>3 DEF DoAtmelTest
<1>4. CASE DoTimeout
  BY <1>4 DEF DoTimeout
<1>5. CASE DoSetupServer
  BY <1>5 DEF DoSetupServer
<1>6. CASE DoConnect2RM
  BY <1>6 DEF DoConnect2RM, TypeOK
<1>7. CASE Connect2RMError
  <2>1. /\ signals = <<"connectionRMError">> /\ rm = "none"
        /\ m_nerror = "rmConnectionError" /\ m_retryTimer = FALSE
        /\ m_nRetryRMConnect > 0
        /\ m_nRetryRMConnect + failures = MaxRetry + 1
    BY <1>7 DEF Connect2RMError
  <2>2. CASE m_nRetryRMConnect' = 0
    <3>1. signals' = Tail(signals) \o <<"abortInit">>
      BY <1>7, <2>2 DEF Connect2RMError
    <3>2. signals' = <<"abortInit">>
      BY ONLY <2>1, <3>1, QueueFacts
    <3>3. QED  BY <1>7, <2>1, <2>2, <3>2 DEF Connect2RMError, TypeOK
  <2>3. CASE m_nRetryRMConnect' # 0
    <3>1. signals' = <<>>
      BY <1>7, <2>1, <2>3 DEF Connect2RMError
    <3>2. QED  BY <1>7, <2>1, <2>3, <3>1 DEF Connect2RMError, TypeOK
  <2>4. QED  BY <2>2, <2>3
<1>8. CASE RetryTimeout
  BY <1>8 DEF RetryTimeout
<1>9. CASE Connected
  BY <1>9 DEF Connected, TypeOK
<1>10. CASE ConnectionRMError
  BY <1>10 DEF ConnectionRMError, TypeOK
<1>11. CASE DoIdentAndRegister
  <2>1. /\ signals = <<"connected">> /\ rm = "up"
        /\ m_retryTimer = FALSE
    BY <1>11 DEF DoIdentAndRegister
  <2>2. signals' = <<>>
    BY <1>11, <2>1 DEF DoIdentAndRegister
  <2>3. QED  BY <1>11, <2>1, <2>2 DEF DoIdentAndRegister
<1>12. CASE RegisterResource
  BY <1>12 DEF RegisterResource, Registering
<1>13. CASE \E i \in Interfaces : \E n \in asked[i] :
              ResourceManagerAck(i, n) \/ Refuse(i, n)
  BY <1>13 DEF ResourceManagerAck, Refuse
<1>14. CASE DoCloseServer
  BY <1>14 DEF DoCloseServer, TypeOK
<1>15. CASE Drop
  <2>1. state = "SendRMIdentandRegister" /\ signals = <<"connectionRMError">>
    BY <1>15 DEF Drop, From, TypeOK
  <2>2. signals' = <<>>
    BY <1>15, <2>1 DEF Drop
  <2>3. QED  BY <1>15, <2>1, <2>2 DEF Drop
<1>16. CASE UNCHANGED vars
  BY <1>16 DEF vars
<1>17. QED
  BY <1>1, <1>2, <1>3, <1>4, <1>5, <1>6, <1>7, <1>8, <1>9, <1>10, <1>11,
     <1>12, <1>13, <1>14, <1>15, <1>16 DEF Next, Machine

-----------------------------------------------------------------------------
(***************************************************************************)
(* Types                                                                   *)
(***************************************************************************)
SignalNames == {"finishedParsingXML", "atmelRunning", "serverSetup", "connected",
                "connectionRMError", "abortInit"}

\* Operations on the queue yield queues.
LEMMA QueueType ==
  /\ <<>> \in Seq(SignalNames)
  /\ \A a \in SignalNames : <<a>> \in Seq(SignalNames)
  /\ \A a, b \in SignalNames : <<a, b>> \in Seq(SignalNames)
  /\ \A s \in Seq(SignalNames) : s # <<>> =>
       \A more \in Seq(SignalNames) : Tail(s) \o more \in Seq(SignalNames)
  OBVIOUS

\* The signals of the machine keep their type.
LEMMA SignalsStep ==
  ASSUME TypeOK, [Next]_vars
  PROVE  signals' \in Seq(SignalNames)
<1>1. signals \in Seq(SignalNames)
  BY DEF TypeOK, SignalNames
<1>2. CASE \E names \in Seq(SignalNames) : signals' = names
  BY <1>2
<1>3. CASE signals # <<>> /\ \E names \in Seq(SignalNames) :
             signals' = Tail(signals) \o names
  BY <1>1, <1>3, QueueType
<1>4. CASE UNCHANGED signals
  BY <1>1, <1>4
<1> USE DEF Handle, Emit, GiveUp, SignalNames
<1>5. CASE DoConfiguration
  <2>1. \/ signals' = <<"finishedParsingXML">>
        \/ signals' = <<"abortInit">>
        \/ signals' = <<"finishedParsingXML", "abortInit">>
    BY <1>5 DEF DoConfiguration
  <2>2. QED  BY <2>1, QueueType, <1>2
<1>6. CASE DoWait4Atmel
  BY <1>6, QueueType, <1>3 DEF DoWait4Atmel
<1>7. CASE DoAtmelTest
  BY <1>7, QueueType, <1>2 DEF DoAtmelTest
<1>8. CASE DoTimeout
  BY <1>8, QueueType, <1>2 DEF DoTimeout
<1>9. CASE DoSetupServer
  BY <1>9, QueueType, <1>3 DEF DoSetupServer
<1>10. CASE DoConnect2RM
  BY <1>10, QueueType, <1>3 DEF DoConnect2RM
<1>11. CASE Connect2RMError
  BY <1>11, QueueType, <1>3 DEF Connect2RMError
<1>12. CASE RetryTimeout
  BY <1>12, QueueType, <1>2 DEF RetryTimeout
<1>13. CASE Connected
  BY <1>13, QueueType, <1>2 DEF Connected
<1>14. CASE ConnectionRMError
  BY <1>14, QueueType, <1>2 DEF ConnectionRMError
<1>15. CASE DoIdentAndRegister
  BY <1>15, QueueType, <1>3 DEF DoIdentAndRegister
<1>16. CASE RegisterResource
  BY <1>16, <1>4 DEF RegisterResource
<1>17. CASE \E i \in Interfaces : \E n \in asked[i] :
              ResourceManagerAck(i, n) \/ Refuse(i, n)
  BY <1>17, <1>4 DEF ResourceManagerAck, Refuse
<1>18. CASE DoCloseServer
  BY <1>18, QueueType, <1>2 DEF DoCloseServer
<1>19. CASE Drop
  BY <1>19, QueueType, <1>3 DEF Drop
<1>20. CASE UNCHANGED vars
  BY <1>20, <1>4 DEF vars
<1>21. QED
  BY <1>5, <1>6, <1>7, <1>8, <1>9, <1>10, <1>11, <1>12, <1>13, <1>14, <1>15,
     <1>16, <1>17, <1>18, <1>19, <1>20 DEF Next, Machine

\* The variables that every step but those of the registration gives one of a
\* few values.
ControlType ==
  /\ state \in {"start", "xmlConfiguration", "wait4Atmel", "setupServer",
                "connect2RM", "connect2RMError", "SendRMIdentandRegister",
                "finish"}
  /\ m_nerror \in Errors /\ failed \in Errors
  /\ m_nRetryRMConnect \in 0..MaxRetry /\ failures \in 0..MaxRetry
  /\ rm \in {"none", "connecting", "up"}

TimerType ==
  m_TimerTO \in BOOLEAN /\ m_TimerPeriod \in BOOLEAN /\ m_retryTimer \in BOOLEAN

RegisterType ==
  /\ next \in 1..Len(Items) + 1 /\ m_nMsgNr \in Nat
  /\ msgNrList \in [Interfaces -> SUBSET Nat]
  /\ asked \in [Interfaces -> SUBSET Nat]
  /\ refused \in [Interfaces -> SUBSET Nat]
  /\ registerRdy \in [Interfaces -> Nat]

\* The type invariant in the parts that are proved apart.
LEMMA TypeParts ==
  TypeOK <=> ControlType /\ TimerType /\ signals \in Seq(SignalNames) /\ RegisterType
  BY Zenon DEF TypeOK, ControlType, TimerType, SignalNames, RegisterType

\* The initial state has its types.
LEMMA TypeInit == Init => TypeOK
<1> SUFFICES ASSUME Init PROVE TypeOK
  OBVIOUS
<1>1. ControlType
  BY InitAssumption DEF Init, ControlType, Errors
<1>2. signals \in Seq(SignalNames)
  BY QueueType DEF Init
<1>3. RegisterType
  BY ItemsType DEF Init, RegisterType
<1>4. TimerType
  BY Zenon DEF Init, TimerType
<1>5. QED  BY <1>1, <1>2, <1>3, <1>4, TypeParts

\* Every step keeps the types of the timers.
LEMMA TimerStep ==
  ASSUME TypeOK, [Next]_vars
  PROVE  TimerType'
<1>1. TimerType
  BY TypeParts
<1>2. CASE UNCHANGED watcherVars
  <2>1. m_retryTimer' \in {m_retryTimer, TRUE, FALSE}
    BY Zenon DEF Next, Machine, vars, connectVars, DoConfiguration, DoWait4Atmel,
       DoAtmelTest, DoTimeout, DoSetupServer, DoConnect2RM, Connect2RMError,
       RetryTimeout, Connected, ConnectionRMError, DoIdentAndRegister,
       RegisterResource, ResourceManagerAck, Refuse, DoCloseServer, Drop
  <2>2. UNCHANGED <<m_TimerTO, m_TimerPeriod>>
    BY <1>2 DEF watcherVars
  <2>3. QED  BY <1>1, <2>1, <2>2, Zenon DEF TimerType
<1>3. CASE DoWait4Atmel \/ DoAtmelTest \/ DoTimeout
  <2>1. /\ m_TimerTO' \in {TRUE, FALSE} /\ m_TimerPeriod' \in {TRUE, FALSE}
        /\ m_retryTimer' = m_retryTimer
    BY <1>3, Zenon DEF DoWait4Atmel, DoAtmelTest, DoTimeout, connectVars
  <2>2. QED  BY <1>1, <2>1, Zenon DEF TimerType
<1>4. UNCHANGED watcherVars \/ DoWait4Atmel \/ DoAtmelTest \/ DoTimeout
  BY Zenon DEF Next, Machine, vars, DoConfiguration, DoSetupServer, DoConnect2RM,
     Connect2RMError, RetryTimeout, Connected, ConnectionRMError,
     DoIdentAndRegister, RegisterResource, ResourceManagerAck, Refuse,
     DoCloseServer, Drop
<1>5. QED  BY <1>2, <1>3, <1>4

\* Every step keeps the types of state, exit code and counters.
LEMMA ControlStep ==
  ASSUME TypeOK, Phase, [Next]_vars
  PROVE  ControlType'
<1>1. ControlType
  BY TypeParts
<1> USE <1>1, InitAssumption
<1> USE DEF ControlType, Errors, EarlyErrors, GiveUp, watcherVars, connectVars,
        registerVars
<1>2. CASE DoConfiguration
  BY <1>2 DEF DoConfiguration
<1>3. CASE DoWait4Atmel
  BY <1>3 DEF DoWait4Atmel
<1>4. CASE DoAtmelTest
  BY <1>4 DEF DoAtmelTest
<1>5. CASE DoTimeout
  BY <1>5 DEF DoTimeout
<1>6. CASE DoSetupServer
  BY <1>6 DEF DoSetupServer
<1>7. CASE DoConnect2RM
  BY <1>7 DEF DoConnect2RM
<1>8. CASE Connect2RMError
  <2>1. m_nRetryRMConnect > 0
    BY <1>8 DEF Connect2RMError, Phase, Connecting
  <2>2. m_nRetryRMConnect' \in 0..MaxRetry
    BY <1>8, <2>1 DEF Connect2RMError
  <2>3. QED  BY <1>8, <2>2 DEF Connect2RMError
<1>9. CASE RetryTimeout
  BY <1>9 DEF RetryTimeout
<1>10. CASE Connected
  BY <1>10 DEF Connected
<1>11. CASE ConnectionRMError
  <2>1. rm = "connecting" => failures < MaxRetry
    BY <1>11 DEF ConnectionRMError, Idle, Phase, BeforeConnect, Connecting, AtRest
  <2>2. QED  BY <1>11, <2>1 DEF ConnectionRMError
<1>12. CASE DoIdentAndRegister
  BY <1>12 DEF DoIdentAndRegister
<1>13. CASE RegisterResource
  BY <1>13 DEF RegisterResource
<1>14. CASE \E i \in Interfaces : \E n \in asked[i] :
              ResourceManagerAck(i, n) \/ Refuse(i, n)
  BY <1>14 DEF ResourceManagerAck, Refuse
<1>15. CASE DoCloseServer
  BY <1>15 DEF DoCloseServer
<1>16. CASE Drop
  BY <1>16 DEF Drop
<1>17. CASE UNCHANGED vars
  BY <1>17 DEF vars
<1>18. QED
  BY <1>2, <1>3, <1>4, <1>5, <1>6, <1>7, <1>8, <1>9, <1>10, <1>11, <1>12,
     <1>13, <1>14, <1>15, <1>16, <1>17 DEF Next, Machine

-----------------------------------------------------------------------------
(***************************************************************************)
(* Numbers                                                                 *)
(***************************************************************************)
\* No interface waits for a number at the start.
LEMMA NumbersInit == Init => Numbers /\ ReadyWhenAllAcked
  BY ItemsType DEF Init, Numbers, ReadyWhenAllAcked

\* An answer to one number of one interface, an acknowledgement.
LEMMA AckStep ==
  ASSUME RegisterType, Numbers, ReadyWhenAllAcked,
         NEW i \in Interfaces, NEW n \in asked[i], ResourceManagerAck(i, n)
  PROVE  RegisterType' /\ Numbers' /\ ReadyWhenAllAcked'
<1> USE ItemsType
<1>1. /\ asked' = [asked EXCEPT ![i] = @ \ {n}]
      /\ msgNrList' = [j \in Interfaces |-> msgNrList[j] \ {n}]
      /\ registerRdy' = [j \in Interfaces |->
                           registerRdy[j] + IF LastOf(j, n) THEN 1 ELSE 0]
      /\ UNCHANGED <<next, m_nMsgNr, refused>>
  BY DEF ResourceManagerAck
<1>2. n \in msgNrList[i] /\ n \notin refused[i] /\ n \in Nat
  BY DEF Numbers, RegisterType
<1>3. \A j \in Interfaces : j # i => n \notin msgNrList[j]
  BY <1>2 DEF Numbers
<1>4. /\ asked'[i] = asked[i] \ {n}
      /\ \A j \in Interfaces : j # i => asked'[j] = asked[j]
  BY <1>1 DEF RegisterType
<1>5. /\ msgNrList'[i] = msgNrList[i] \ {n}
      /\ \A j \in Interfaces : j # i => msgNrList'[j] = msgNrList[j]
  BY <1>1, <1>3
<1>6. RegisterType'
  BY <1>1 DEF RegisterType
<1>7. Numbers'
  <2>1. \A j \in Interfaces : msgNrList'[j] = asked'[j] \cup refused'[j]
    BY <1>1, <1>2, <1>4, <1>5 DEF Numbers
  <2>2. \A j \in Interfaces : asked'[j] \cap refused'[j] = {}
    BY <1>1, <1>4 DEF Numbers
  <2>3. \A j \in Interfaces : msgNrList'[j] \subseteq msgNrList[j]
    BY <1>1
  <2>4. QED  BY <1>1, <2>1, <2>2, <2>3 DEF Numbers
<1>8. ReadyWhenAllAcked'
  <2> SUFFICES ASSUME NEW j \in Interfaces
               PROVE  registerRdy'[j] =
                        IF j < next /\ Items[j] > 0 /\ msgNrList'[j] = {} THEN 1 ELSE 0
    BY <1>1, <1>7 DEF ReadyWhenAllAcked, Numbers
  <2>1. registerRdy[j] =
          IF j < next /\ Items[j] > 0 /\ msgNrList[j] = {} THEN 1 ELSE 0
    BY DEF ReadyWhenAllAcked, Numbers
  <2>2. registerRdy'[j] = registerRdy[j] + IF LastOf(j, n) THEN 1 ELSE 0
    BY <1>1
  <2>3. CASE j # i
    <3>1. ~LastOf(j, n) /\ msgNrList'[j] = msgNrList[j]
      BY <1>3, <1>5, <2>3 DEF LastOf
    <3>2. QED  BY <2>1, <2>2, <3>1
  <2>4. CASE j = i
    <3>1. msgNrList[j] # {} /\ j < next /\ Items[j] > 0
      BY <1>2, <2>4 DEF Numbers, RegisterType
    <3>2. LastOf(j, n) <=> msgNrList'[j] = {}
      <4>1. n \in msgNrList[j] /\ msgNrList'[j] = msgNrList[j] \ {n}
        BY <1>2, <1>5, <2>4
      <4>2. QED  BY <4>1 DEF LastOf
    <3>3. QED  BY <2>1, <2>2, <3>1, <3>2
  <2>5. QED  BY <2>3, <2>4
<1>9. QED  BY <1>6, <1>7, <1>8

\* A refusal moves a number from the open ones to the refused ones.
LEMMA RefuseStep ==
  ASSUME RegisterType, Numbers, ReadyWhenAllAcked,
         NEW i \in Interfaces, NEW n \in asked[i], Refuse(i, n)
  PROVE  RegisterType' /\ Numbers' /\ ReadyWhenAllAcked'
<1>1. /\ asked' = [asked EXCEPT ![i] = @ \ {n}]
      /\ refused' = [refused EXCEPT ![i] = @ \cup {n}]
      /\ UNCHANGED <<next, m_nMsgNr, msgNrList, registerRdy>>
  BY DEF Refuse
<1>2. n \in Nat
  BY DEF RegisterType
<1>3. RegisterType'
  BY <1>1, <1>2 DEF RegisterType
<1>4. /\ asked'[i] = asked[i] \ {n}
      /\ \A j \in Interfaces : j # i => asked'[j] = asked[j]
  BY <1>1 DEF RegisterType
<1>5. /\ refused'[i] = refused[i] \cup {n}
      /\ \A j \in Interfaces : j # i => refused'[j] = refused[j]
  BY <1>1 DEF RegisterType
<1>6. \A j \in Interfaces : asked'[j] \cup refused'[j] = asked[j] \cup refused[j]
  BY <1>4, <1>5
<1>7. \A j \in Interfaces : asked'[j] \cap refused'[j] = {}
  BY <1>4, <1>5 DEF Numbers
<1>8. Numbers'
  BY <1>1, <1>6, <1>7 DEF Numbers
<1>9. ReadyWhenAllAcked'
  BY <1>1, <1>6 DEF ReadyWhenAllAcked
<1>10. QED  BY <1>3, <1>8, <1>9

\* Registering an interface gives it numbers nobody else waits for.
LEMMA RegisterResourceStep ==
  ASSUME RegisterType, Numbers, ReadyWhenAllAcked, RegisterResource
  PROVE  RegisterType' /\ Numbers' /\ ReadyWhenAllAcked'
<1> USE ItemsType
<1>1. PICK k \in Interfaces : k = next
  BY DEF RegisterResource, Registering
<1>2. PICK new \in SUBSET Nat : new = m_nMsgNr + 1 .. m_nMsgNr + Items[k]
  BY DEF RegisterType
<1>3. /\ msgNrList' = [msgNrList EXCEPT ![k] = new]
      /\ asked' = [asked EXCEPT ![k] = new]
      /\ m_nMsgNr' = m_nMsgNr + Items[k]
      /\ next' = k + 1
      /\ UNCHANGED <<refused, registerRdy>>
  BY <1>1, <1>2 DEF RegisterResource, MsgNrs
<1>4. /\ \A n \in new : n \in Nat /\ n > m_nMsgNr /\ n <= m_nMsgNr + Items[k]
      /\ new = {} <=> Items[k] = 0
  <2>1. \A n \in new : n \in Nat /\ n > m_nMsgNr /\ n <= m_nMsgNr + Items[k]
    BY <1>2 DEF RegisterType
  <2>2. CASE Items[k] = 0
    BY <2>1, <2>2 DEF RegisterType
  <2>3. CASE Items[k] # 0
    <3>1. m_nMsgNr + 1 \in new
      BY <1>2, <2>3 DEF RegisterType
    <3>2. QED  BY <2>1, <2>3, <3>1
  <2>4. QED  BY <2>1, <2>2, <2>3
<1>5. RegisterType'
  BY <1>1, <1>2, <1>3 DEF RegisterType
<1>6. /\ msgNrList[k] = {} /\ asked[k] = {} /\ refused[k] = {}
  BY <1>1 DEF Numbers, RegisterType
<1>7. /\ msgNrList'[k] = new /\ asked'[k] = new /\ refused'[k] = {}
      /\ \A j \in Interfaces : j # k =>
           /\ msgNrList'[j] = msgNrList[j]
           /\ asked'[j] = asked[j] /\ refused'[j] = refused[j]
  BY <1>3, <1>6 DEF RegisterType
<1>8. Numbers'
  <2>1. \A j \in Interfaces : msgNrList'[j] = asked'[j] \cup refused'[j]
    BY <1>7 DEF Numbers
  <2>2. \A j \in Interfaces : asked'[j] \cap refused'[j] = {}
    BY <1>7 DEF Numbers
  <2>3. \A j \in Interfaces : \A n \in msgNrList'[j] : n <= m_nMsgNr'
    <3> SUFFICES ASSUME NEW j \in Interfaces, NEW n \in msgNrList'[j]
                 PROVE  n <= m_nMsgNr + Items[k]
      BY <1>3
    <3>1. CASE j = k
      BY <1>4, <1>7, <3>1
    <3>2. CASE j # k
      <4>1. n \in msgNrList[j] /\ n \in Nat
        BY <1>7, <3>2 DEF RegisterType
      <4>2. n <= m_nMsgNr
        BY <4>1 DEF Numbers
      <4>3. QED  BY <4>1, <4>2, <1>1 DEF RegisterType
    <3>3. QED  BY <3>1, <3>2
  <2>4. \A j \in Interfaces : j # k => new \cap msgNrList[j] = {}
    <3> SUFFICES ASSUME NEW j \in Interfaces, NEW n \in new, n \in msgNrList[j]
                 PROVE  FALSE
      OBVIOUS
    <3>1. n <= m_nMsgNr
      BY DEF Numbers
    <3>2. QED  BY <3>1, <1>4 DEF RegisterType
  <2>5. \A i, j \in Interfaces : i # j => msgNrList'[i] \cap msgNrList'[j] = {}
    <3> SUFFICES ASSUME NEW i \in Interfaces, NEW j \in Interfaces, i # j
                 PROVE  msgNrList'[i] \cap msgNrList'[j] = {}
      OBVIOUS
    <3>1. CASE i = k
      BY <1>7, <2>4, <3>1
    <3>2. CASE j = k
      BY <1>7, <2>4, <3>2
    <3>3. CASE i # k /\ j # k
      BY <1>7, <3>3 DEF Numbers
    <3>4. QED  BY <3>1, <3>2, <3>3
  <2>6. \A j \in Interfaces : j >= next' \/ Items[j] = 0 => msgNrList'[j] = {}
    <3> SUFFICES ASSUME NEW j \in Interfaces, j >= k + 1 \/ Items[j] = 0
                 PROVE  msgNrList'[j] = {}
      BY <1>3
    <3>1. CASE j = k
      <4>1. Items[k] = 0
        BY <3>1
      <4>2. new = {}
        BY <1>4, <4>1
      <4>3. QED  BY <1>7, <3>1, <4>2
    <3>2. CASE j # k
      BY <1>1, <1>7, <3>2 DEF Numbers
    <3>3. QED  BY <3>1, <3>2
  <2>7. QED  BY <2>1, <2>2, <2>3, <2>5, <2>6 DEF Numbers
<1>9. ReadyWhenAllAcked'
  <2> SUFFICES ASSUME NEW j \in Interfaces
               PROVE  registerRdy[j] =
                        IF j < k + 1 /\ Items[j] > 0 /\ msgNrList'[j] = {}
                        THEN 1 ELSE 0
    BY <1>3, <1>8 DEF ReadyWhenAllAcked, Numbers
  <2>1. registerRdy[j] =
          IF j < k /\ Items[j] > 0 /\ msgNrList[j] = {} THEN 1 ELSE 0
    BY <1>1 DEF ReadyWhenAllAcked, Numbers
  <2>2. CASE j = k
    BY <1>4, <1>7, <2>1, <2>2
  <2>3. CASE j # k
    BY <1>7, <2>1, <2>3
  <2>4. QED  BY <2>2, <2>3
<1>10. QED  BY <1>5, <1>8, <1>9

-----------------------------------------------------------------------------
(***************************************************************************)
(* The theorems                                                            *)
(***************************************************************************)
IInv == TypeOK /\ Phase /\ Numbers /\ ReadyWhenAllAcked

\* Every step keeps the numbers apart and registerRdy right.
LEMMA RegisterStep ==
  ASSUME IInv, [Next]_vars
  PROVE  RegisterType' /\ Numbers' /\ ReadyWhenAllAcked'
<1>1. RegisterType /\ Numbers /\ ReadyWhenAllAcked
  BY TypeParts DEF IInv
<1>2. CASE RegisterResource
  BY <1>1, <1>2, RegisterResourceStep
<1>3. CASE \E i \in Interfaces : \E n \in asked[i] :
             ResourceManagerAck(i, n) \/ Refuse(i, n)
  BY <1>1, <1>3, AckStep, RefuseStep
<1>4. CASE UNCHANGED registerVars
  BY <1>1, <1>4 DEF registerVars, RegisterType, Numbers, ReadyWhenAllAcked
<1>5. \/ RegisterResource
      \/ \E i \in Interfaces : \E n \in asked[i] :
           ResourceManagerAck(i, n) \/ Refuse(i, n)
      \/ UNCHANGED registerVars
  BY DEF Next, Machine, vars, DoConfiguration, DoWait4Atmel, DoAtmelTest, DoTimeout,
     DoSetupServer, DoConnect2RM, Connect2RMError, RetryTimeout, Connected,
     ConnectionRMError, DoIdentAndRegister, DoCloseServer, Drop
<1>6. QED  BY <1>2, <1>3, <1>4, <1>5

\* The conjunction of types, phase and numbers holds at all times.
THEOREM Inductive == Spec => []IInv
<1>1. Init => IInv
  BY TypeInit, PhaseInit, NumbersInit DEF IInv
<1>2. IInv /\ [Next]_vars => IInv'
  <2> SUFFICES ASSUME IInv, [Next]_vars PROVE IInv'
    OBVIOUS
  <2>1. TypeOK /\ Phase
    BY DEF IInv
  <2>2. Phase'
    BY <2>1, PhaseStep
  <2>3. ControlType' /\ TimerType' /\ signals' \in Seq(SignalNames)
    BY <2>1, ControlStep, TimerStep, SignalsStep
  <2>4. RegisterType' /\ Numbers' /\ ReadyWhenAllAcked'
    BY RegisterStep
  <2>5. TypeOK'
    BY <2>3, <2>4, Zenon DEF TypeOK, ControlType, TimerType, RegisterType, SignalNames
  <2>6. QED  BY <2>2, <2>4, <2>5 DEF IInv
<1>3. QED  BY <1>1, <1>2, PTL DEF Spec

\* Every variable keeps its type; the retry counter stays within its bounds.
THEOREM TypeCorrect == Spec => []TypeOK
<1>1. IInv => TypeOK
  BY DEF IInv
<1>2. QED  BY <1>1, Inductive, PTL

\* The exit code of cMT310S2dServer names the failure that ended the start.
THEOREM ExitNamesFailureAlways == Spec => []ExitNamesFailure
<1>1. IInv => ExitNamesFailure
  BY DEF IInv, Phase
<1>2. QED  BY <1>1, Inductive, PTL

\* doConnect2RM is tried MaxRetry times before the server exits for it.
THEOREM GivesUpAfterAllAttemptsAlways == Spec => []GivesUpAfterAllAttempts
<1>1. IInv => GivesUpAfterAllAttempts
  BY DEF IInv, Phase
<1>2. QED  BY <1>1, Inductive, PTL

\* registerRdy of cResource is emitted once, after the last acknowledgement.
THEOREM ReadyWhenAllAckedAlways == Spec => []ReadyWhenAllAcked
<1>1. IInv => ReadyWhenAllAcked
  BY DEF IInv
<1>2. QED  BY <1>1, Inductive, PTL

\* No step of the start leads away from the registered server.
THEOREM StaysRegisteredAlways == Spec => StaysRegistered
<1>1. IInv /\ [Next]_vars =>
        [state = "SendRMIdentandRegister" => state' = state]_vars
  <2> SUFFICES ASSUME IInv, [Next]_vars, state = "SendRMIdentandRegister"
               PROVE  state' = state
    OBVIOUS
  <2>1. signals = <<>> \/ signals = <<"connectionRMError">>
    BY DEF IInv, Phase, AtRest
  <2>2. ~DoCloseServer /\ ~DoIdentAndRegister
    BY <2>1, QueueFacts DEF DoCloseServer, DoIdentAndRegister, Handle
  <2>3. QED
    BY <2>2 DEF Next, Machine, vars, DoConfiguration, DoWait4Atmel, DoAtmelTest,
       DoTimeout, DoSetupServer, DoConnect2RM, Connect2RMError, RetryTimeout,
       Connected, ConnectionRMError, RegisterResource, ResourceManagerAck, Refuse,
       Drop
<1>2. QED  BY <1>1, Inductive, PTL DEF Spec, StaysRegistered

=============================================================================
