------------------------ MODULE Notifier_proofs ------------------------
(***************************************************************************)
(* Proofs about Notifier, for every value of its constants: type           *)
(* correctness, one signal per registration, the order of registrations,   *)
(* and, where every query emits, the promise of Subscriptions.             *)
(***************************************************************************)
EXTENDS Notifier, SequenceTheorems, TLAPS

-----------------------------------------------------------------------------
(***************************************************************************)
(* What the helpers do                                                     *)
(***************************************************************************)

\* The registration that a complete SERVER:REGISTER appends.
Fresh(c, q) ==
  [no |-> made + 1, netPeer |-> c[1], clientID |-> c[2], notifier |-> q]

\* A client that can register makes a registration, appended as the last one.
LEMMA AppendedLast ==
  ASSUME TypeOK, NEW c \in Clients, NEW q \in Askable, CanRegister(c)
  PROVE  /\ Fresh(c, q) \in Registration
         /\ Appended(c, q) = Append(notifierRegisterNext, Fresh(c, q))
         /\ Appended(c, q) \in Seq(Registration)
         /\ Len(Appended(c, q)) = Len(notifierRegisterNext) + 1
         /\ \A i \in 1..Len(notifierRegisterNext) :
              Appended(c, q)[i] = notifierRegisterNext[i]
         /\ Appended(c, q)[Len(notifierRegisterNext) + 1] = Fresh(c, q)
<1>1. made + 1 \in 1..MaxRegistrations
  BY NotifierAssumption DEF TypeOK, CanRegister
<1>2. c[1] \in Peers \cup {ScpiSocket} /\ c[2] \in AnyId
  BY DEF Clients, AnyId
<1>3. Fresh(c, q) \in Registration
  BY <1>1, <1>2 DEF Fresh, Registration
<1>4. notifierRegisterNext \in Seq(Registration)
  BY DEF TypeOK
<1>5. Appended(c, q) = Append(notifierRegisterNext, Fresh(c, q))
  BY DEF Appended, Fresh
<1>6. QED
  BY <1>3, <1>4, <1>5, AppendProperties

\* A refused query leaves the queue as it was.
LEMMA PopBackUndoes ==
  ASSUME TypeOK, NEW c \in Clients, NEW q \in Askable, CanRegister(c)
  PROVE  PopBack(Appended(c, q)) = notifierRegisterNext
<1> DEFINE old == notifierRegisterNext
           new == Appended(c, q)
<1>1. old \in Seq(Registration) /\ Len(old) \in Nat
  BY LenProperties DEF TypeOK
<1>2. new \in Seq(Registration) /\ Len(new) = Len(old) + 1
  BY AppendedLast
<1>3. \A i \in 1..Len(old) : new[i] = old[i]
  BY AppendedLast
<1>4. PopBack(new) = SubSeq(new, 1, Len(old))
  BY <1>1, <1>2 DEF PopBack
<1>5. \A i \in 1..Len(old) : new[i] \in Registration
  BY <1>1, <1>3, ElementOfSeq
<1>6. /\ SubSeq(new, 1, Len(old)) \in Seq(Registration)
      /\ Len(SubSeq(new, 1, Len(old))) = IF 1 <= Len(old) THEN Len(old) - 1 + 1 ELSE 0
      /\ \A i \in 1..Len(old) : SubSeq(new, 1, Len(old))[i] = new[i]
  <2>1. 1 \in Int /\ Len(old) \in Int
    BY <1>1
  <2>2. \A i \in 1..(Len(old) - 1 + 1) : 1 + i - 1 = i
    BY <1>1
  <2>3. /\ SubSeq(new, 1, Len(old)) \in Seq(Registration)
        /\ Len(SubSeq(new, 1, Len(old))) = IF 1 <= Len(old) THEN Len(old) - 1 + 1 ELSE 0
        /\ \A i \in 1..(Len(old) - 1 + 1) : SubSeq(new, 1, Len(old))[i] = new[1 + i - 1]
    BY <1>5, <2>1, SubSeqProperties
  <2>4. QED
    BY <1>1, <2>2, <2>3
<1>7. Len(SubSeq(new, 1, Len(old))) = Len(old)
  BY <1>1, <1>6
<1>8. QED
  BY <1>1, <1>3, <1>4, <1>6, <1>7, SeqEqual

\* A strNotifier signal moves the oldest waiting registration, if there is one,
\* to the bound ones, and leaves the string with one connection.
LEMMA SignalBinds ==
  ASSUME NEW waiting \in Seq(Registration), NEW s \in Strings,
         linked \in [Strings -> Nat],
         EstablishNewNotifier(waiting, s)
  PROVE  \/ /\ waiting = <<>> /\ notifierRegisterNext' = waiting
            /\ UNCHANGED <<notifierRegisterList, linked>>
         \/ /\ waiting # <<>>
            /\ Len(waiting) \in Nat \ {0}
            /\ notifierRegisterNext' = Tail(waiting)
            /\ notifierRegisterNext' \in Seq(Registration)
            /\ Len(notifierRegisterNext') = Len(waiting) - 1
            /\ \A i \in 1..Len(notifierRegisterNext') :
                 notifierRegisterNext'[i] = waiting[i + 1]
            /\ waiting[1] \in Registration
            /\ notifierRegisterList' = notifierRegisterList
                 \cup {[reg |-> waiting[1], notString |-> s]}
            /\ linked' \in [Strings -> Nat]
            /\ linked'[s] = 1
            /\ \A t \in Strings \ {s} : linked'[t] = linked[t]
<1>1. CASE waiting = <<>>
  BY <1>1 DEF EstablishNewNotifier
<1>2. CASE waiting # <<>>
  <2>1. /\ notifierRegisterNext' = Tail(waiting)
        /\ notifierRegisterList' =
             notifierRegisterList \cup {[reg |-> Head(waiting), notString |-> s]}
        /\ linked' = Relinked(s)
    BY <1>2 DEF EstablishNewNotifier
  <2>2. /\ Head(waiting) = waiting[1]
        /\ Head(waiting) \in Registration
        /\ Len(waiting) \in Nat \ {0}
        /\ Tail(waiting) \in Seq(Registration)
        /\ Len(Tail(waiting)) = Len(waiting) - 1
        /\ \A i \in 1..Len(Tail(waiting)) : Tail(waiting)[i] = waiting[i + 1]
    BY <1>2, EmptySeq, HeadTailProperties
  <2>3. Relinked(s) = [linked EXCEPT ![s] = 1]
    BY DEF Relinked, Disconnected
  <2>4. /\ linked' \in [Strings -> Nat]
        /\ linked'[s] = 1
        /\ \A t \in Strings \ {s} : linked'[t] = linked[t]
    BY <2>1, <2>3
  <2>5. /\ notifierRegisterNext' \in Seq(Registration)
        /\ Len(notifierRegisterNext') = Len(waiting) - 1
        /\ \A i \in 1..Len(notifierRegisterNext') :
             notifierRegisterNext'[i] = waiting[i + 1]
    BY <2>1, <2>2
  <2>6. notifierRegisterList' = notifierRegisterList
                 \cup {[reg |-> waiting[1], notString |-> s]}
    BY <2>1, <2>2
  <2>7. QED
    BY <1>2, <2>1, <2>2, <2>4, <2>5, <2>6
<1>3. QED
  BY <1>1, <1>2

-----------------------------------------------------------------------------
(***************************************************************************)
(* What a step does to the registrations                                   *)
(***************************************************************************)

\* A step that neither registers nor signals: registrations can only end.
Ends ==
  /\ UNCHANGED <<notifierRegisterNext, linked, made>>
  /\ notifierRegisterList' \subseteq notifierRegisterList

\* A query by somebody signals string s.
Signals(s) == EstablishNewNotifier(notifierRegisterNext, s) /\ UNCHANGED made

\* A registration whose query signals.
RegistersBound(c, q) ==
  /\ CanRegister(c)
  /\ EstablishNewNotifier(Appended(c, q), q)
  /\ made' = made + 1

\* A registration whose query does not.
RegistersWaiting(c, q) ==
  /\ CanRegister(c)
  /\ notifierRegisterNext' = Appended(c, q)
  /\ made' = made + 1
  /\ UNCHANGED <<notifierRegisterList, linked>>

RegistrationStep ==
  \/ Ends
  \/ \E s \in Strings : Signals(s)
  \/ \E c \in Clients, q \in Askable \cap Strings : RegistersBound(c, q)
  \/ \E c \in Clients, q \in Askable : RegistersWaiting(c, q)

\* Every step is one of these kinds, told apart by what it does to the registrations.
LEMMA StepKinds ==
  ASSUME TypeOK, [Next]_vars
  PROVE  RegistrationStep
<1>1. ASSUME NEW p \in Peers, EstablishNewConnection(p) PROVE RegistrationStep
  BY <1>1 DEF EstablishNewConnection, RegistrationStep, Ends
<1>2. ASSUME NEW p \in Peers, PeerConnectionClosed(p) PROVE RegistrationStep
  BY <1>2 DEF PeerConnectionClosed, DoUnregisterNotifier, RegistrationStep, Ends
<1>3. ASSUME NEW c \in Clients, RegisterNotifier(c) PROVE RegistrationStep
  <2>1. ASSUME NEW q \in Askable, RegisterEmitting(c, q) PROVE RegistrationStep
    BY <2>1 DEF RegisterEmitting, RegistrationStep, RegistersBound
  <2>2. ASSUME NEW q \in Askable, RegisterSilent(c, q) PROVE RegistrationStep
    BY <2>2 DEF RegisterSilent, RegistrationStep, RegistersWaiting
  <2>3. ASSUME NEW q \in Askable, RegisterRefused(c, q) PROVE RegistrationStep
    <3>1. CanRegister(c) /\ notifierRegisterNext' = PopBack(Appended(c, q))
      BY <2>3 DEF RegisterRefused
    <3>2. notifierRegisterNext' = notifierRegisterNext
      BY <3>1, PopBackUndoes
    <3>3. QED
      BY <2>3, <3>2 DEF RegisterRefused, RegistrationStep, Ends
  <2>4. CASE RegisterUnknown(c)
    BY <2>4 DEF RegisterUnknown, RegistrationStep, Ends
  <2>5. CASE RegisterMalformed(c)
    BY <2>5 DEF RegisterMalformed, RegistrationStep, Ends
  <2>6. QED
    BY <1>3, <2>1, <2>2, <2>3, <2>4, <2>5 DEF RegisterNotifier
<1>4. ASSUME NEW c \in Clients, UnregisterNotifier(c) PROVE RegistrationStep
  BY <1>4 DEF UnregisterNotifier, DoUnregisterNotifier, RegistrationStep, Ends
<1>5. ASSUME NEW p \in Peers, NEW id \in Ids, LostClient(p, id)
      PROVE  RegistrationStep
  BY <1>5 DEF LostClient, DoUnregisterNotifier, RegistrationStep, Ends
<1>6. ASSUME NEW s \in Strings, Query(s) PROVE RegistrationStep
  BY <1>6 DEF Query, RegistrationStep, Signals
<1>7. ASSUME NEW s \in Strings, ValueChanged(s) PROVE RegistrationStep
  BY <1>7 DEF ValueChanged, RegistrationStep, Ends
<1>8. CASE UNCHANGED vars
  BY <1>8 DEF vars, RegistrationStep, Ends
<1>9. QED
  BY <1>1, <1>2, <1>3, <1>4, <1>5, <1>6, <1>7, <1>8 DEF Next

-----------------------------------------------------------------------------
(***************************************************************************)
(* Type correctness                                                        *)
(***************************************************************************)

\* The part of TypeOK about registrations.
LEMMA RegistrationTypes ==
  ASSUME TypeOK, RegistrationStep
  PROVE  /\ notifierRegisterNext' \in Seq(Registration)
         /\ notifierRegisterList' \subseteq Bound
         /\ linked' \in [Strings -> Nat]
         /\ made' \in 0..MaxRegistrations
<1> USE DEF TypeOK
<1>1. CASE Ends
  BY <1>1 DEF Ends
<1>2. ASSUME NEW waiting \in Seq(Registration), NEW s \in Strings,
             EstablishNewNotifier(waiting, s)
      PROVE  /\ notifierRegisterNext' \in Seq(Registration)
             /\ notifierRegisterList' \subseteq Bound
             /\ linked' \in [Strings -> Nat]
  BY <1>2, SignalBinds DEF Bound
<1>3. ASSUME NEW s \in Strings, Signals(s)
      PROVE  /\ notifierRegisterNext' \in Seq(Registration)
             /\ notifierRegisterList' \subseteq Bound
             /\ linked' \in [Strings -> Nat]
             /\ made' \in 0..MaxRegistrations
  BY <1>2, <1>3 DEF Signals
<1>4. ASSUME NEW c \in Clients, CanRegister(c), made' = made + 1
      PROVE  made' \in 0..MaxRegistrations
  BY <1>4, NotifierAssumption DEF CanRegister
<1>5. ASSUME NEW c \in Clients, NEW q \in Askable \cap Strings, RegistersBound(c, q)
      PROVE  /\ notifierRegisterNext' \in Seq(Registration)
             /\ notifierRegisterList' \subseteq Bound
             /\ linked' \in [Strings -> Nat]
             /\ made' \in 0..MaxRegistrations
  <2>1. CanRegister(c) /\ made' = made + 1 /\ EstablishNewNotifier(Appended(c, q), q)
    BY <1>5 DEF RegistersBound
  <2>2. Appended(c, q) \in Seq(Registration)
    BY <2>1, AppendedLast
  <2>3. QED
    BY <1>2, <1>4, <2>1, <2>2
<1>6. ASSUME NEW c \in Clients, NEW q \in Askable, RegistersWaiting(c, q)
      PROVE  /\ notifierRegisterNext' \in Seq(Registration)
             /\ notifierRegisterList' \subseteq Bound
             /\ linked' \in [Strings -> Nat]
             /\ made' \in 0..MaxRegistrations
  BY <1>4, <1>6, AppendedLast DEF RegistersWaiting
<1>7. QED
  BY <1>1, <1>3, <1>5, <1>6 DEF RegistrationStep

\* What the last step wrote went to numbers of registrations.
LEMMA SentTypes ==
  ASSUME TypeOK, [Next]_vars
  PROVE  DOMAIN sent' \subseteq 1..MaxRegistrations
<1>1. DOMAIN Nothing \subseteq 1..MaxRegistrations
  BY DEF Nothing
<1>2. ASSUME NEW s \in Strings, ValueChanged(s)
      PROVE  DOMAIN sent' \subseteq 1..MaxRegistrations
  <2>1. PICK part \in SUBSET BoundTo(s) : sent' = Notify(part, s)
    BY <1>2 DEF ValueChanged
  <2>2. \A b \in part : b.reg.no \in 1..MaxRegistrations
    BY DEF BoundTo, TypeOK, Bound, Registration
  <2>3. QED
    BY <2>1, <2>2 DEF Notify
<1>3. CASE UNCHANGED vars
  BY <1>3 DEF vars, TypeOK
<1>4. \/ UNCHANGED vars
      \/ \E s \in Strings : ValueChanged(s)
      \/ sent' = Nothing
  BY DEF Next, EstablishNewConnection, PeerConnectionClosed, RegisterNotifier,
         RegisterEmitting, RegisterSilent, RegisterRefused, RegisterUnknown,
         RegisterMalformed, UnregisterNotifier, LostClient, Query
<1>5. QED
  BY <1>1, <1>2, <1>3, <1>4

\* Every step keeps the types.
LEMMA TypeStep ==
  ASSUME TypeOK, [Next]_vars
  PROVE  TypeOK'
<1>1. /\ notifierRegisterNext' \in Seq(Registration)
      /\ notifierRegisterList' \subseteq Bound
      /\ linked' \in [Strings -> Nat]
      /\ made' \in 0..MaxRegistrations
  BY StepKinds, RegistrationTypes
<1>2. DOMAIN sent' \subseteq 1..MaxRegistrations
  BY SentTypes
<1>3. /\ peer' \in [Peers -> {"new", "open", "closed"}]
      /\ alive' \in BOOLEAN
      /\ reply' \in {"none", "ack", "nak"}
  <2>1. peer' \in [Peers -> {"new", "open", "closed"}]
    BY DEF TypeOK, vars, Next, EstablishNewConnection, PeerConnectionClosed,
           RegisterNotifier, RegisterEmitting, RegisterSilent, RegisterRefused,
           RegisterUnknown, RegisterMalformed, UnregisterNotifier, LostClient,
           Query, ValueChanged
  <2>2. alive' \in BOOLEAN
    BY Zenon DEF TypeOK, vars, Next, EstablishNewConnection, PeerConnectionClosed,
           RegisterNotifier, RegisterEmitting, RegisterSilent, RegisterRefused,
           RegisterUnknown, RegisterMalformed, UnregisterNotifier, LostClient,
           Query, ValueChanged
  <2>3. reply' \in {"none", "ack", "nak"}
    BY DEF TypeOK, vars, Next, EstablishNewConnection, PeerConnectionClosed,
           RegisterNotifier, RegisterEmitting, RegisterSilent, RegisterRefused,
           RegisterUnknown, RegisterMalformed, UnregisterNotifier, LostClient,
           Query, ValueChanged
  <2>4. QED
    BY <2>1, <2>2, <2>3
<1>4. gone' \subseteq Clients
  <2>1. ASSUME NEW p \in Peers, PeerConnectionClosed(p) PROVE gone' \subseteq Clients
    BY <2>1 DEF PeerConnectionClosed, TypeOK, Clients
  <2>2. ASSUME NEW c \in Clients, RegisterNotifier(c) PROVE gone' \subseteq Clients
    BY <2>2 DEF RegisterNotifier, RegisterEmitting, RegisterSilent,
                RegisterRefused, RegisterUnknown, RegisterMalformed, TypeOK
  <2>3. ASSUME NEW c \in Clients, UnregisterNotifier(c) PROVE gone' \subseteq Clients
    BY <2>3 DEF UnregisterNotifier, TypeOK
  <2>4. ASSUME NEW p \in Peers, NEW id \in Ids, LostClient(p, id)
        PROVE  gone' \subseteq Clients
    BY <2>4 DEF LostClient, TypeOK, Clients, AnyId
  <2>5. CASE UNCHANGED gone
    BY <2>5 DEF TypeOK
  <2>6. QED
    BY <2>1, <2>2, <2>3, <2>4, <2>5
    DEF Next, vars, EstablishNewConnection, Query, ValueChanged
<1>5. QED
  BY <1>1, <1>2, <1>3, <1>4 DEF TypeOK

\* Every variable keeps its type; in particular the queue never holds anything
\* but complete registrations, whatever is refused, ended or bound.
THEOREM TypeCorrect == Spec => []TypeOK
<1>1. Init => TypeOK
  <2>1. <<>> \in Seq(Registration)
    BY EmptySeq
  <2>2. DOMAIN Nothing \subseteq 1..MaxRegistrations
    BY DEF Nothing
  <2>3. QED
    BY <2>1, <2>2, NotifierAssumption DEF Init, TypeOK
<1>2. TypeOK /\ [Next]_vars => TypeOK'
  BY TypeStep
<1>3. QED
  BY <1>1, <1>2, PTL DEF Spec

-----------------------------------------------------------------------------
(***************************************************************************)
(* One signal per string, one notification per registration                *)
(***************************************************************************)

\* Every step keeps one connection per bound string.
LEMMA OneSignalStep ==
  ASSUME TypeOK, OneSignal, [Next]_vars
  PROVE  OneSignal'
<1>1. RegistrationStep
  BY StepKinds
<1>2. CASE Ends
  BY <1>2 DEF Ends, OneSignal
<1>3. ASSUME NEW waiting \in Seq(Registration), NEW s \in Strings,
             EstablishNewNotifier(waiting, s)
      PROVE  OneSignal'
  <2>1. linked \in [Strings -> Nat]
    BY DEF TypeOK
  <2>2. \A b \in notifierRegisterList : b.notString \in Strings
    BY DEF TypeOK, Bound
  <2>3. QED
    BY <1>3, <2>1, <2>2, SignalBinds DEF OneSignal
<1>4. ASSUME NEW s \in Strings, Signals(s) PROVE OneSignal'
  BY <1>3, <1>4 DEF Signals, TypeOK
<1>5. ASSUME NEW c \in Clients, NEW q \in Askable \cap Strings, RegistersBound(c, q)
      PROVE  OneSignal'
  BY <1>3, <1>5, AppendedLast DEF RegistersBound
<1>6. ASSUME NEW c \in Clients, NEW q \in Askable, RegistersWaiting(c, q)
      PROVE  OneSignal'
  BY <1>6 DEF RegistersWaiting, OneSignal
<1>7. QED
  BY <1>1, <1>2, <1>4, <1>5, <1>6 DEF RegistrationStep

\* A string with a bound registration has exactly one connection to
\* asyncHandler, however often it was bound, ended and bound again.
THEOREM OneSignalAlways == Spec => []OneSignal
<1>1. Init => OneSignal
  BY DEF Init, OneSignal
<1>2. TypeOK /\ OneSignal /\ [Next]_vars => OneSignal'
  BY OneSignalStep
<1>3. QED
  BY <1>1, <1>2, TypeCorrect, PTL DEF Spec

\* With one connection per bound string a change is written once.
LEMMA NotifiedOnceStep ==
  ASSUME TypeOK, OneSignal, NotifiedOnce, [Next]_vars
  PROVE  NotifiedOnce'
<1>1. ASSUME NEW s \in Strings, ValueChanged(s) PROVE NotifiedOnce'
  <2>1. PICK part \in SUBSET BoundTo(s) : sent' = Notify(part, s)
    BY <1>1 DEF ValueChanged
  <2>2. \A b \in part : linked[s] = 1
    BY DEF BoundTo, OneSignal
  <2>3. QED
    BY <2>1, <2>2 DEF Notify, NotifiedOnce
<1>2. CASE sent' = Nothing
  BY <1>2 DEF Nothing, NotifiedOnce
<1>3. CASE UNCHANGED vars
  BY <1>3 DEF vars, NotifiedOnce
<1>4. \/ UNCHANGED vars
      \/ \E s \in Strings : ValueChanged(s)
      \/ sent' = Nothing
  BY DEF Next, EstablishNewConnection, PeerConnectionClosed, RegisterNotifier,
         RegisterEmitting, RegisterSilent, RegisterRefused, RegisterUnknown,
         RegisterMalformed, UnregisterNotifier, LostClient, Query
<1>5. QED
  BY <1>1, <1>2, <1>3, <1>4

\* One change of a string is written at most once for a registration.
THEOREM NotifiedOnceAlways == Spec => []NotifiedOnce
<1>1. Init => NotifiedOnce
  BY DEF Init, NotifiedOnce, Nothing
<1>2. TypeOK /\ OneSignal /\ NotifiedOnce /\ [Next]_vars => NotifiedOnce'
  BY NotifiedOnceStep
<1>3. QED
  BY <1>1, <1>2, TypeCorrect, OneSignalAlways, PTL DEF Spec

-----------------------------------------------------------------------------
(***************************************************************************)
(* Order                                                                   *)
(***************************************************************************)

\* OldestFirst is not inductive: a registration that is appended to an empty
\* queue must also be younger than everything that is bound.
Ordered ==
  /\ OldestFirst
  /\ \A b \in notifierRegisterList : b.reg.no <= made

\* A queue of registrations, none older than the bound ones.
WellQueued(waiting, limit) ==
  /\ waiting \in Seq(Registration)
  /\ \A i \in 1..Len(waiting) :
       /\ waiting[i].no <= limit
       /\ \A b \in notifierRegisterList : b.reg.no < waiting[i].no
  /\ \A i, j \in 1..Len(waiting) : i < j => waiting[i].no < waiting[j].no

\* A new registration at the end of the queue keeps the order.
LEMMA AppendKeepsOrder ==
  ASSUME TypeOK, Ordered, NEW c \in Clients, NEW q \in Askable, CanRegister(c)
  PROVE  WellQueued(Appended(c, q), made + 1)
<1> DEFINE old == notifierRegisterNext
           new == Appended(c, q)
           n   == Len(notifierRegisterNext)
<1>1. /\ n \in Nat /\ made \in Nat
      /\ \A i \in 1..n : old[i].no \in Nat
      /\ \A b \in notifierRegisterList : b.reg.no \in Nat
  <2>1. n \in Nat
    BY LenProperties DEF TypeOK
  <2>2. made \in Nat
    BY NotifierAssumption DEF TypeOK
  <2>3. \A i \in 1..n : old[i] \in Registration
    BY ElementOfSeq DEF TypeOK
  <2>4. QED
    BY <2>1, <2>2, <2>3 DEF TypeOK, Bound, Registration
<1>2. /\ new \in Seq(Registration)
      /\ Len(new) = n + 1
      /\ \A i \in 1..n : new[i] = old[i]
      /\ new[n + 1] = Fresh(c, q)
  BY AppendedLast
<1>3. Fresh(c, q).no = made + 1
  BY DEF Fresh
<1>4. ASSUME NEW i \in 1..Len(new)
      PROVE  /\ new[i].no <= made + 1
             /\ \A b \in notifierRegisterList : b.reg.no < new[i].no
  <2>1. CASE i \in 1..n
    BY <1>1, <1>2, <2>1 DEF Ordered, OldestFirst
  <2>2. CASE i = n + 1
    BY <1>1, <1>2, <1>3, <2>2 DEF Ordered
  <2>3. QED
    BY <1>1, <1>2, <2>1, <2>2
<1>5. ASSUME NEW i \in 1..Len(new), NEW j \in 1..Len(new), i < j
      PROVE  new[i].no < new[j].no
  <2>1. i \in 1..n
    BY <1>1, <1>2, <1>5
  <2>2. CASE j \in 1..n
    BY <1>2, <1>5, <2>1, <2>2 DEF Ordered, OldestFirst
  <2>3. CASE j = n + 1
    BY <1>1, <1>2, <1>3, <2>1, <2>3 DEF Ordered, OldestFirst
  <2>4. QED
    BY <1>1, <1>2, <2>2, <2>3
<1>6. QED
  BY <1>2, <1>4, <1>5 DEF WellQueued

\* Binding the head of the queue keeps the order.
LEMMA SignalKeepsOrder ==
  ASSUME TypeOK, NEW waiting, NEW limit \in Nat, WellQueued(waiting, limit),
         NEW s \in Strings, EstablishNewNotifier(waiting, s), made' = limit,
         \A b \in notifierRegisterList : b.reg.no <= limit
  PROVE  Ordered'
<1>1. waiting \in Seq(Registration) /\ linked \in [Strings -> Nat]
  BY DEF WellQueued, TypeOK
<1>2. CASE waiting = <<>>
  <2>1. UNCHANGED notifierRegisterList /\ notifierRegisterNext' = waiting
    BY <1>2 DEF EstablishNewNotifier
  <2>2. QED
    BY <2>1 DEF WellQueued, Ordered, OldestFirst
<1>3. CASE waiting # <<>>
  <2> DEFINE bound == [reg |-> waiting[1], notString |-> s]
             next  == notifierRegisterNext'
  <2>1. /\ Len(waiting) \in Nat \ {0}
        /\ Len(next) = Len(waiting) - 1
        /\ \A i \in 1..Len(next) : next[i] = waiting[i + 1]
        /\ notifierRegisterList' = notifierRegisterList \cup {bound}
    BY <1>1, <1>3, SignalBinds
  <2>2. \A i \in 1..Len(next) :
          /\ i + 1 \in 1..Len(waiting) /\ 1 \in 1..Len(waiting) /\ 1 < i + 1
          /\ next[i] = waiting[i + 1]
    BY <2>1
  <2>3. \A i \in 1..Len(next) :
          /\ next[i].no <= made'
          /\ \A b \in notifierRegisterList' : b.reg.no < next[i].no
    BY <2>1, <2>2 DEF WellQueued
  <2>4. \A i, j \in 1..Len(next) : i < j => next[i].no < next[j].no
    <3>1. SUFFICES ASSUME NEW i \in 1..Len(next), NEW j \in 1..Len(next), i < j
                   PROVE  next[i].no < next[j].no
      OBVIOUS
    <3>2. i + 1 < j + 1
      BY <3>1, <2>1
    <3>3. QED
      BY <2>2, <3>2 DEF WellQueued
  <2>5. \A b \in notifierRegisterList' : b.reg.no <= made'
    <3>1. bound.reg.no <= limit
      BY <2>1 DEF WellQueued
    <3>2. QED
      BY <2>1, <3>1
  <2>6. QED
    BY <2>3, <2>4, <2>5 DEF Ordered, OldestFirst
<1>4. QED
  BY <1>2, <1>3

\* Every step keeps the order.
LEMMA OrderStep ==
  ASSUME TypeOK, Ordered, [Next]_vars
  PROVE  Ordered'
<1>1. made \in Nat /\ made + 1 \in Nat
  BY NotifierAssumption DEF TypeOK
<1>2. \A b \in notifierRegisterList : b.reg.no \in Nat /\ b.reg.no <= made + 1
  BY <1>1 DEF Ordered, TypeOK, Bound, Registration
<1>3. CASE Ends
  BY <1>3 DEF Ends, Ordered, OldestFirst
<1>4. ASSUME NEW s \in Strings, Signals(s) PROVE Ordered'
  <2>1. WellQueued(notifierRegisterNext, made)
    BY DEF WellQueued, Ordered, OldestFirst, TypeOK
  <2>2. QED
    BY <1>1, <1>4, <2>1, SignalKeepsOrder DEF Signals, Ordered
<1>5. ASSUME NEW c \in Clients, NEW q \in Askable \cap Strings, RegistersBound(c, q)
      PROVE  Ordered'
  BY <1>1, <1>2, <1>5, AppendKeepsOrder, SignalKeepsOrder DEF RegistersBound
<1>6. ASSUME NEW c \in Clients, NEW q \in Askable, RegistersWaiting(c, q)
      PROVE  Ordered'
  <2>1. WellQueued(Appended(c, q), made + 1)
    BY <1>6, AppendKeepsOrder DEF RegistersWaiting
  <2>2. QED
    BY <1>2, <1>6, <2>1 DEF RegistersWaiting, WellQueued, Ordered, OldestFirst
<1>7. QED
  BY <1>3, <1>4, <1>5, <1>6, StepKinds DEF RegistrationStep

\* Registrations wait and are bound in the order they were made.
LEMMA OrderedAlways == Spec => []Ordered
<1>1. Init => Ordered
  <2>1. Len(<<>>) = 0
    BY EmptySeq
  <2>2. QED
    BY <2>1 DEF Init, Ordered, OldestFirst
<1>2. TypeOK /\ Ordered /\ [Next]_vars => Ordered'
  BY OrderStep
<1>3. QED
  BY <1>1, <1>2, TypeCorrect, PTL DEF Spec

\* Signals serve registrations in the order in which they were made.
THEOREM OldestFirstAlways == Spec => []OldestFirst
<1>1. Ordered => OldestFirst
  BY DEF Ordered
<1>2. QED
  BY <1>1, OrderedAlways, PTL

-----------------------------------------------------------------------------
(***************************************************************************)
(* Action properties                                                       *)
(***************************************************************************)

\* What waits before a signal is registered after it.
LEMMA SignalLosesNone ==
  ASSUME NEW waiting \in Seq(Registration), NEW s \in Strings,
         linked \in [Strings -> Nat],
         EstablishNewNotifier(waiting, s)
  PROVE  /\ \A i \in 1..Len(waiting) : waiting[i] \in Registered'
         /\ \A b \in notifierRegisterList : b.reg \in Registered'
<1>1. CASE waiting = <<>>
  BY <1>1 DEF EstablishNewNotifier, Registered
<1>2. CASE waiting # <<>>
  <2> DEFINE next == notifierRegisterNext'
  <2>1. /\ Len(waiting) \in Nat \ {0}
        /\ Len(next) = Len(waiting) - 1
        /\ \A i \in 1..Len(next) : next[i] = waiting[i + 1]
        /\ notifierRegisterList' = notifierRegisterList
             \cup {[reg |-> waiting[1], notString |-> s]}
    BY <1>2, SignalBinds
  <2>2. waiting[1] \in Registered'
    <3> DEFINE bound == [reg |-> waiting[1], notString |-> s]
    <3>1. bound \in notifierRegisterList' /\ bound.reg = waiting[1]
      BY <2>1
    <3>2. \A b \in notifierRegisterList' : b.reg \in Registered'
      BY DEF Registered
    <3>3. QED
      BY <3>1, <3>2
  <2>3. ASSUME NEW i \in 1..Len(waiting), i # 1 PROVE waiting[i] \in Registered'
    <3>1. i - 1 \in 1..Len(next) /\ (i - 1) + 1 = i
      BY <2>1, <2>3
    <3>2. next[i - 1] = waiting[i]
      BY <2>1, <3>1
    <3>3. QED
      BY <3>1, <3>2 DEF Registered
  <2>4. QED
    BY <2>1, <2>2, <2>3 DEF Registered
<1>3. QED
  BY <1>1, <1>2

\* A step that ends registrations ends those of a client that is gone then.
LEMMA EndsOnlyGone ==
  ASSUME TypeOK, [Next]_vars, Ends,
         NEW b \in notifierRegisterList, b \notin notifierRegisterList'
  PROVE  \E c \in gone' : Matches(b.reg, c[1], c[2])
<1>1. ASSUME NEW p \in Peers, PeerConnectionClosed(p)
      PROVE  \E c \in gone' : Matches(b.reg, c[1], c[2])
  <2>1. Matches(b.reg, p, NoId)
    BY <1>1 DEF PeerConnectionClosed, DoUnregisterNotifier
  <2>2. <<p, NoId>> \in gone'
    BY <1>1 DEF PeerConnectionClosed, AnyId
  <2>3. QED
    BY <2>1, <2>2
<1>2. ASSUME NEW c \in Clients, UnregisterNotifier(c)
      PROVE  \E d \in gone' : Matches(b.reg, d[1], d[2])
  BY <1>2 DEF UnregisterNotifier, DoUnregisterNotifier
<1>3. ASSUME NEW p \in Peers, NEW id \in Ids, LostClient(p, id)
      PROVE  \E c \in gone' : Matches(b.reg, c[1], c[2])
  <2>1. Matches(b.reg, p, id) /\ <<p, id>> \in gone'
    BY <1>3 DEF LostClient, DoUnregisterNotifier
  <2>2. QED
    BY <2>1
<1>4. ASSUME NEW p \in Peers, EstablishNewConnection(p) PROVE FALSE
  BY <1>4 DEF EstablishNewConnection
<1>5. ASSUME NEW c \in Clients, RegisterNotifier(c) PROVE FALSE
  BY <1>5 DEF RegisterNotifier, RegisterEmitting, RegisterSilent,
       RegisterRefused, RegisterUnknown, RegisterMalformed, EstablishNewNotifier
<1>6. ASSUME NEW s \in Strings, Query(s) \/ ValueChanged(s) PROVE FALSE
  BY <1>6 DEF Query, EstablishNewNotifier, ValueChanged
<1>7. CASE UNCHANGED vars
  BY <1>7 DEF vars
<1>8. QED
  BY <1>1, <1>2, <1>3, <1>4, <1>5, <1>6, <1>7 DEF Next

\* A step that loses a registration marks its client as gone.
LEMMA NoneLostStep ==
  ASSUME TypeOK, [Next]_vars, NEW r \in Registered
  PROVE  r \in Registered' \/ \E c \in gone' : Matches(r, c[1], c[2])
<1>1. notifierRegisterNext \in Seq(Registration) /\ linked \in [Strings -> Nat]
  BY DEF TypeOK
<1>2. CASE Ends
  <2>1. CASE \E i \in 1..Len(notifierRegisterNext) : r = notifierRegisterNext[i]
    BY <1>2, <2>1 DEF Ends, Registered
  <2>2. CASE \E b \in notifierRegisterList : r = b.reg
    BY <1>2, <2>2, EndsOnlyGone DEF Registered
  <2>3. QED
    BY <2>1, <2>2 DEF Registered
<1>3. ASSUME NEW s \in Strings, Signals(s) PROVE r \in Registered'
  BY <1>1, <1>3, SignalLosesNone DEF Signals, Registered
<1>4. ASSUME NEW c \in Clients, NEW q \in Askable, CanRegister(c)
      PROVE  /\ Appended(c, q) \in Seq(Registration)
             /\ \A i \in 1..Len(notifierRegisterNext) :
                  /\ i \in 1..Len(Appended(c, q))
                  /\ Appended(c, q)[i] = notifierRegisterNext[i]
  BY <1>1, <1>4, AppendedLast, LenProperties
<1>5. ASSUME NEW c \in Clients, NEW q \in Askable \cap Strings, RegistersBound(c, q)
      PROVE  r \in Registered'
  <2>1. CanRegister(c) /\ EstablishNewNotifier(Appended(c, q), q)
    BY <1>5 DEF RegistersBound
  <2>2. Appended(c, q) \in Seq(Registration)
    BY <1>4, <2>1
  <2>3. /\ \A i \in 1..Len(Appended(c, q)) : Appended(c, q)[i] \in Registered'
        /\ \A b \in notifierRegisterList : b.reg \in Registered'
    BY <1>1, <2>1, <2>2, SignalLosesNone
  <2>4. QED
    BY <1>4, <2>1, <2>3 DEF Registered
<1>6. ASSUME NEW c \in Clients, NEW q \in Askable, RegistersWaiting(c, q)
      PROVE  r \in Registered'
  BY <1>4, <1>6 DEF RegistersWaiting, Registered
<1>7. QED
  BY <1>2, <1>3, <1>5, <1>6, StepKinds DEF RegistrationStep

\* A refused registration takes back what it had queued.
LEMMA RefusedLeavesNothing ==
  ASSUME TypeOK, [Next]_vars, reply' = "nak"
  PROVE  Registered' \subseteq Registered
<1>1. CASE UNCHANGED vars
  BY <1>1 DEF vars, Registered
<1>2. ASSUME NEW c \in Clients, NEW q \in Askable, RegisterRefused(c, q)
      PROVE  Registered' \subseteq Registered
  <2>1. CanRegister(c) /\ notifierRegisterNext' = PopBack(Appended(c, q))
        /\ notifierRegisterList' = notifierRegisterList
    BY <1>2 DEF RegisterRefused
  <2>2. notifierRegisterNext \in Seq(Registration) /\ made \in Nat
    BY NotifierAssumption DEF TypeOK
  <2>3. notifierRegisterNext' = notifierRegisterNext
    BY <2>1, <2>2, PopBackUndoes
  <2>4. QED
    BY <2>1, <2>3 DEF Registered
<1>3. ASSUME NEW c \in Clients, RegisterUnknown(c)
      PROVE  Registered' \subseteq Registered
  BY <1>3 DEF RegisterUnknown, Registered
<1>4. ASSUME NEW p \in Peers, EstablishNewConnection(p) \/ PeerConnectionClosed(p)
      PROVE  FALSE
  BY <1>4 DEF EstablishNewConnection, PeerConnectionClosed
<1>5. ASSUME NEW c \in Clients, UnregisterNotifier(c) PROVE FALSE
  BY <1>5 DEF UnregisterNotifier
<1>6. ASSUME NEW c \in Clients, NEW q \in Askable,
             RegisterEmitting(c, q) \/ RegisterSilent(c, q) \/ RegisterMalformed(c)
      PROVE  FALSE
  BY <1>6 DEF RegisterEmitting, RegisterSilent, RegisterMalformed
<1>7. ASSUME NEW c \in Clients, RegisterMalformed(c) PROVE FALSE
  BY <1>7 DEF RegisterMalformed
<1>8. ASSUME NEW p \in Peers, NEW id \in Ids, LostClient(p, id) PROVE FALSE
  BY <1>8 DEF LostClient
<1>9. ASSUME NEW s \in Strings, Query(s) \/ ValueChanged(s) PROVE FALSE
  BY <1>9 DEF Query, ValueChanged
<1>10. QED
  BY <1>1, <1>2, <1>3, <1>4, <1>5, <1>6, <1>7, <1>8, <1>9 DEF Next, RegisterNotifier

\* A registration disappears only when a client ended it, and a refused one
\* never appears.
THEOREM NoneLostAlways == Spec => NoneLost
<1>1. TypeOK /\ [Next]_vars =>
        [/\ \A r \in Registered :
              r \in Registered' \/ \E c \in gone' : Matches(r, c[1], c[2])
         /\ reply' = "nak" => Registered' \subseteq Registered]_vars
  BY NoneLostStep, RefusedLeavesNothing
<1>2. QED
  BY <1>1, TypeCorrect, PTL DEF Spec, NoneLost

\* A registration that finds an empty queue gets its own string.
LEMMA OwnStringStep ==
  ASSUME Ordered, NEW c \in Clients, NEW q \in Strings,
         TypeOK, notifierRegisterNext = <<>>, RegisterEmitting(c, q)
  PROVE  /\ notifierRegisterNext' = <<>>
         /\ notifierRegisterList' = notifierRegisterList
              \cup {[reg |-> Fresh(c, q), notString |-> q]}
         /\ [reg |-> Fresh(c, q), notString |-> q] \notin notifierRegisterList
<1> DEFINE new == Appended(c, q)
<1>1. new = Append(<<>>, Fresh(c, q))
  BY DEF Appended, Fresh
<1>2. <<>> \in Seq({Fresh(c, q)}) /\ Len(<<>>) = 0
  BY EmptySeq
<1>3. /\ new \in Seq({Fresh(c, q)})
      /\ new # <<>>
      /\ Len(new) = 1
      /\ new[1] = Fresh(c, q)
  BY <1>1, <1>2, AppendProperties
<1>4. /\ Head(new) = Fresh(c, q)
      /\ Tail(new) \in Seq({Fresh(c, q)})
      /\ Len(Tail(new)) = 0
  BY <1>3, HeadTailProperties
<1>5. Tail(new) = <<>>
  BY <1>4, EmptySeq
<1>6. /\ notifierRegisterNext' = Tail(new)
      /\ notifierRegisterList' =
           notifierRegisterList \cup {[reg |-> Head(new), notString |-> q]}
  BY <1>3 DEF RegisterEmitting, EstablishNewNotifier
<1>7. [reg |-> Fresh(c, q), notString |-> q] \notin notifierRegisterList
  <2>1. made \in Nat
    BY NotifierAssumption DEF TypeOK
  <2>2. Fresh(c, q).no = made + 1
    BY DEF Fresh
  <2>3. QED
    BY <2>1, <2>2 DEF Ordered
<1>8. QED
  BY <1>4, <1>5, <1>6, <1>7

\* A client whose query emits, and that nobody waits in front of, is bound to
\* the string that it asked for.
THEOREM OwnStringAlways == Spec => OwnStringWhenNoneWaits
<1>1. ASSUME TypeOK, Ordered, NEW c \in Clients, NEW q \in Strings,
             notifierRegisterNext = <<>>, RegisterEmitting(c, q)
      PROVE  \E b \in notifierRegisterList' \ notifierRegisterList :
               /\ ClientOf(b.reg) = c
               /\ b.notString = q /\ b.reg.notifier = q
  <2> DEFINE bound == [reg |-> Fresh(c, q), notString |-> q]
  <2>1. bound \in notifierRegisterList' \ notifierRegisterList
    BY <1>1, OwnStringStep
  <2>2. ClientOf(bound.reg) = c
    BY DEF ClientOf, Fresh, Clients
  <2>3. bound.notString = q /\ bound.reg.notifier = q
    BY DEF Fresh
  <2>4. QED
    BY <2>1, <2>2, <2>3
<1>2. TypeOK /\ Ordered /\ [Next]_vars =>
        [\A c \in Clients, q \in Strings :
           notifierRegisterNext = <<>> /\ RegisterEmitting(c, q) =>
             \E b \in notifierRegisterList' \ notifierRegisterList :
               /\ ClientOf(b.reg) = c
               /\ b.notString = q /\ b.reg.notifier = q]_vars
  BY <1>1
<1>3. QED
  BY <1>2, TypeCorrect, OrderedAlways, PTL DEF Spec, OwnStringWhenNoneWaits

-----------------------------------------------------------------------------
(***************************************************************************)
(* Where every query emits and only network clients register, nothing ever *)
(* waits, and the service keeps the promise of Subscriptions.              *)
(***************************************************************************)
Reliable ==
  /\ Askable \subseteq Strings
  /\ Flaky = {}
  /\ ScpiSocket \notin Registrants

\* The invariant behind it: the queue is empty between requests, and whatever
\* is bound belongs to a client that is there and to the string it asked for.
Served(b) ==
  /\ b.reg.netPeer \in Peers
  /\ peer[b.reg.netPeer] = "open"
  /\ b.notString = b.reg.notifier
  /\ ClientOf(b.reg) \notin gone

Promise ==
  /\ notifierRegisterNext = <<>>
  /\ alive
  /\ \A b \in notifierRegisterList : Served(b)

\* Under these conditions a request to register does nothing or is served.
LEMMA ReliableRegistration ==
  ASSUME Reliable, TypeOK, Ordered, Promise, NEW c \in Clients,
         RegisterNotifier(c)
  PROVE  /\ sent' = Nothing /\ alive' /\ UNCHANGED peer
         /\ notifierRegisterNext' = <<>>
         /\ \/ UNCHANGED <<notifierRegisterList, gone, made>>
            \/ /\ CanRegister(c)
               /\ gone' = gone \ {c}
               /\ \E q \in Askable \cap Strings :
                    notifierRegisterList' = notifierRegisterList
                      \cup {[reg |-> Fresh(c, q), notString |-> q]}
<1>1. ASSUME NEW q \in Askable, RegisterEmitting(c, q)
      PROVE  /\ notifierRegisterNext' = <<>>
             /\ q \in Askable \cap Strings
             /\ notifierRegisterList' = notifierRegisterList
                  \cup {[reg |-> Fresh(c, q), notString |-> q]}
  BY <1>1, OwnStringStep DEF RegisterEmitting, Promise
<1>2. ASSUME NEW q \in Askable, RegisterSilent(c, q) PROVE FALSE
  BY <1>2, NotifierAssumption DEF RegisterSilent, Reliable
<1>3. ASSUME NEW q \in Askable, RegisterRefused(c, q)
      PROVE  notifierRegisterNext' = <<>>
  <2>1. CanRegister(c) /\ notifierRegisterNext' = PopBack(Appended(c, q))
    BY <1>3 DEF RegisterRefused
  <2>2. QED
    BY <2>1, PopBackUndoes DEF Promise
<1>4. ASSUME NEW q \in Askable, RegisterEmitting(c, q)
      PROVE  /\ sent' = Nothing /\ alive' /\ UNCHANGED peer
             /\ CanRegister(c) /\ gone' = gone \ {c}
  BY <1>4 DEF RegisterEmitting, Promise
<1>5. ASSUME NEW q \in Askable, RegisterRefused(c, q)
      PROVE  /\ sent' = Nothing /\ alive' /\ UNCHANGED peer
             /\ UNCHANGED <<notifierRegisterList, gone, made>>
  BY <1>5 DEF RegisterRefused, Promise
<1>6. CASE RegisterUnknown(c) \/ RegisterMalformed(c)
  BY <1>6 DEF RegisterUnknown, RegisterMalformed, Promise
<1>7. QED
  BY <1>1, <1>2, <1>3, <1>4, <1>5, <1>6 DEF RegisterNotifier

\* ... and nobody writes to a peer that is not there.
LEMMA ReliableReport ==
  ASSUME Reliable, TypeOK, OneSignal, Promise, NEW s \in Strings, ValueChanged(s)
  PROVE  /\ alive'
         /\ sent' = [n \in {b.reg.no : b \in BoundTo(s)} |-> 1]
         /\ UNCHANGED <<peer, notifierRegisterNext, notifierRegisterList, gone>>
<1>1. \A b \in BoundTo(s) : ~NullPeer(b) /\ ~DeadPeer(b)
  BY NotifierAssumption DEF BoundTo, NullPeer, DeadPeer, Promise, Served
<1>2. {b \in BoundTo(s) : ~NullPeer(b) /\ ~DeadPeer(b)} = BoundTo(s)
  BY <1>1
<1>3. \A b \in BoundTo(s) : linked[s] = 1
  BY DEF BoundTo, OneSignal
<1>4. Notify(BoundTo(s), s) = [n \in {b.reg.no : b \in BoundTo(s)} |-> 1]
  BY <1>3 DEF Notify
<1>5. alive' = TRUE /\ sent' = Notify(BoundTo(s), s)
  BY <1>1, <1>2 DEF ValueChanged
<1>6. QED
  BY <1>4, <1>5 DEF ValueChanged

\* In this case a query binds nothing.
LEMMA ReliableQuery ==
  ASSUME Promise, NEW s \in Strings, Query(s)
  PROVE  /\ sent' = Nothing
         /\ UNCHANGED <<peer, notifierRegisterNext, notifierRegisterList, alive, gone>>
BY DEF Promise, Query, EstablishNewNotifier

\* Under Reliable every step keeps the queue empty and the clients served.
LEMMA PromiseStep ==
  ASSUME Reliable, TypeOK, OneSignal, Ordered, Promise, [Next]_vars
  PROVE  Promise'
<1>1. ASSUME NEW p \in Peers, EstablishNewConnection(p) PROVE Promise'
  BY <1>1 DEF EstablishNewConnection, Promise, Served, TypeOK
<1>2. ASSUME NEW p \in Peers, PeerConnectionClosed(p) PROVE Promise'
  <2>1. ASSUME NEW b \in notifierRegisterList' PROVE Served(b)'
    <3>1. b \in notifierRegisterList /\ b.reg.netPeer # p
      BY <1>2, <2>1 DEF PeerConnectionClosed, DoUnregisterNotifier, Matches
    <3>2. ClientOf(b.reg) \notin {p} \X AnyId
      BY <3>1 DEF ClientOf
    <3>3. QED
      BY <1>2, <3>1, <3>2 DEF PeerConnectionClosed, Promise, Served, TypeOK
  <2>2. QED
    BY <1>2, <2>1 DEF PeerConnectionClosed, DoUnregisterNotifier, Promise
<1>3. ASSUME NEW c \in Clients, RegisterNotifier(c) PROVE Promise'
  <2>1. /\ alive' /\ UNCHANGED peer
        /\ notifierRegisterNext' = <<>>
        /\ \/ UNCHANGED <<notifierRegisterList, gone, made>>
           \/ /\ CanRegister(c)
              /\ gone' = gone \ {c}
              /\ \E q \in Askable \cap Strings :
                   notifierRegisterList' = notifierRegisterList
                     \cup {[reg |-> Fresh(c, q), notString |-> q]}
    BY <1>3, ReliableRegistration
  <2>2. CASE UNCHANGED <<notifierRegisterList, gone, made>>
    BY <2>1, <2>2 DEF Promise, Served
  <2>3. ASSUME NEW q \in Askable \cap Strings, CanRegister(c), gone' = gone \ {c},
               notifierRegisterList' = notifierRegisterList
                 \cup {[reg |-> Fresh(c, q), notString |-> q]}
        PROVE  Promise'
    <3> DEFINE bound == [reg |-> Fresh(c, q), notString |-> q]
    <3>1. c[1] \in Peers /\ peer[c[1]] = "open"
      BY <2>3, NotifierAssumption DEF CanRegister, CanTalk, Reliable
    <3>2. ClientOf(bound.reg) = c /\ bound.reg.netPeer = c[1]
          /\ bound.notString = q /\ bound.reg.notifier = q
      BY DEF ClientOf, Fresh, Clients
    <3>3. ASSUME NEW b, b = bound PROVE Served(b)'
      <4>1. ClientOf(b.reg) = c /\ b.reg.netPeer = c[1] /\ b.notString = b.reg.notifier
        BY <3>2, <3>3
      <4>2. QED
        BY <2>1, <2>3, <3>1, <4>1 DEF Served, ClientOf
    <3>4. \A b \in notifierRegisterList : Served(b)'
      BY <2>1, <2>3 DEF Promise, Served
    <3>5. QED
      <4>1. ASSUME NEW b \in notifierRegisterList' PROVE Served(b)'
        BY <2>3, <3>3, <3>4, <4>1
      <4>2. QED
        BY <2>1, <4>1 DEF Promise
  <2>4. QED
    BY <2>1, <2>2, <2>3
<1>4. ASSUME NEW c \in Clients, UnregisterNotifier(c) PROVE Promise'
  <2>1. ASSUME NEW b \in notifierRegisterList' PROVE Served(b)'
    <3>1. b \in notifierRegisterList /\ ~Matches(b.reg, c[1], c[2])
      BY <1>4, <2>1 DEF UnregisterNotifier, DoUnregisterNotifier
    <3>2. ClientOf(b.reg) # c
      BY <3>1 DEF ClientOf, Matches
    <3>3. QED
      BY <1>4, <3>1, <3>2 DEF UnregisterNotifier, Promise, Served
  <2>2. QED
    BY <1>4, <2>1 DEF UnregisterNotifier, DoUnregisterNotifier, Promise
<1>5. ASSUME NEW p \in Peers, NEW id \in Ids, LostClient(p, id) PROVE Promise'
  <2>1. ASSUME NEW b \in notifierRegisterList' PROVE Served(b)'
    <3>1. b \in notifierRegisterList /\ ~Matches(b.reg, p, id)
      BY <1>5, <2>1 DEF LostClient, DoUnregisterNotifier
    <3>2. ClientOf(b.reg) # <<p, id>>
      BY <3>1 DEF ClientOf, Matches
    <3>3. QED
      BY <1>5, <3>1, <3>2 DEF LostClient, Promise, Served
  <2>2. QED
    BY <1>5, <2>1 DEF LostClient, DoUnregisterNotifier, Promise
<1>6. ASSUME NEW s \in Strings, Query(s) PROVE Promise'
  BY <1>6, ReliableQuery DEF Promise, Served
<1>7. ASSUME NEW s \in Strings, ValueChanged(s) PROVE Promise'
  BY <1>7, ReliableReport DEF Promise, Served
<1>8. CASE UNCHANGED vars
  BY <1>8 DEF vars, Promise, Served
<1>9. QED
  BY <1>1, <1>2, <1>3, <1>4, <1>5, <1>6, <1>7, <1>8 DEF Next

\* Under Reliable nothing waits between two requests, at any time.
LEMMA PromiseAlways ==
  ASSUME Reliable
  PROVE  Spec => []Promise
<1>1. Init => Promise
  BY DEF Init, Promise
<1>2. TypeOK /\ OneSignal /\ Ordered /\ Promise /\ [Next]_vars => Promise'
  BY PromiseStep
<1>3. QED
  BY <1>1, <1>2, TypeCorrect, OneSignalAlways, OrderedAlways, PTL DEF Spec

\* With reliable queries a client that is gone has no bound registration.
THEOREM SilentAfterGoneIfReliable ==
  ASSUME Reliable
  PROVE  Spec => []SilentAfterGone
<1>1. Promise => SilentAfterGone
  BY DEF Promise, Served, SilentAfterGone
<1>2. QED
  BY <1>1, PromiseAlways, PTL

\* With reliable queries no notification takes the server down.
THEOREM StaysAliveIfReliable ==
  ASSUME Reliable
  PROVE  Spec => []StaysAlive
<1>1. Promise => StaysAlive
  BY DEF Promise, StaysAlive
<1>2. QED
  BY <1>1, PromiseAlways, PTL

-----------------------------------------------------------------------------
(***************************************************************************)
(* Refinement                                                              *)
(***************************************************************************)

\* The subscriptions in force, in the terms of this module.
Subs == {b.reg : b \in notifierRegisterList}

\* What the substitution makes of the actions of Subscriptions.
LEMMA AbstractActions ==
  /\ \A x : Abstract!Subscribe(x) <=>
       /\ \A y \in Subs : y.no # x.no
       /\ Subs' = Subs \cup {x}
       /\ sent' = Nothing
  /\ \A p, id : Abstract!Give(p, id) <=>
       /\ Subs' = {x \in Subs : ~ /\ x.netPeer = p
                                  /\ id = NoId \/ x.clientID \in {id, NoId}}
       /\ sent' = Nothing
  /\ \A s : Abstract!Report(s) <=>
       /\ sent' = [n \in {x.no : x \in {y \in Subs : y.notifier = s}} |-> 1]
       /\ UNCHANGED Subs
  /\ Abstract!Other <=> sent' = Nothing /\ UNCHANGED Subs
BY DEF Abstract!Subscribe, Abstract!Give, Abstract!Report, Abstract!Other,
       Abstract!Nothing, Nothing, Subs

\* Ending the registrations of a client is giving up its subscriptions.
LEMMA UnregisterGives ==
  ASSUME NEW p, NEW id, DoUnregisterNotifier(p, id), sent' = Nothing
  PROVE  Abstract!Give(p, id)
<1>1. notifierRegisterList' = {b \in notifierRegisterList : ~Matches(b.reg, p, id)}
  BY DEF DoUnregisterNotifier
<1>2. \A x : Matches(x, p, id) <=>
               x.netPeer = p /\ (id = NoId \/ x.clientID \in {id, NoId})
  BY DEF Matches
<1>3. Subs' = {x \in Subs : ~ /\ x.netPeer = p
                              /\ id = NoId \/ x.clientID \in {id, NoId}}
  BY <1>1, <1>2 DEF Subs
<1>4. QED
  BY <1>3, AbstractActions

\* A registration that is served is a new subscription.
LEMMA RegisterSubscribes ==
  ASSUME Reliable, TypeOK, Ordered, NEW c \in Clients, CanRegister(c),
         NEW q \in Askable \cap Strings, sent' = Nothing,
         notifierRegisterList' = notifierRegisterList
           \cup {[reg |-> Fresh(c, q), notString |-> q]}
  PROVE  \E x \in Abstract!Subscription : Abstract!Subscribe(x)
<1>1. PICK x : x = Fresh(c, q)
  OBVIOUS
<1>2. x \in Registration
  BY <1>1, AppendedLast
<1>3. x.netPeer \in Peers
  BY <1>1, NotifierAssumption DEF CanRegister, Reliable, Fresh
<1>4. x.notifier \in Strings
  BY <1>1 DEF Fresh
<1>5. x \in Abstract!Subscription
  BY <1>2, <1>3, <1>4 DEF Abstract!Subscription, Registration, AnyId
<1>6. \A y \in Subs : y.no # x.no
  <2>1. made \in Nat /\ x.no = made + 1
    BY <1>1, NotifierAssumption DEF TypeOK, Fresh
  <2>2. QED
    BY <2>1 DEF Ordered, Subs
<1>7. Subs' = Subs \cup {x}
  <2>1. notifierRegisterList' =
          notifierRegisterList \cup {[reg |-> x, notString |-> q]}
    BY <1>1
  <2>2. \A y : y \in Subs' <=> y \in Subs \/ y = x
    <3>1. [reg |-> x, notString |-> q].reg = x
      OBVIOUS
    <3>2. \A y : y \in Subs' <=> \E b \in notifierRegisterList' : y = b.reg
      BY DEF Subs
    <3>3. \A y : y \in Subs <=> \E b \in notifierRegisterList : y = b.reg
      BY DEF Subs
    <3>4. QED
      BY <2>1, <3>1, <3>2, <3>3
  <2>3. QED
    BY <2>2
<1>8. Abstract!Subscribe(x)
  BY <1>6, <1>7, AbstractActions
<1>9. QED
  BY <1>5, <1>8

\* A change of a value is reported as promised.
LEMMA ChangeReports ==
  ASSUME Reliable, TypeOK, OneSignal, Promise, NEW s \in Strings, ValueChanged(s)
  PROVE  Abstract!Report(s)
<1>1. /\ sent' = [n \in {b.reg.no : b \in BoundTo(s)} |-> 1]
      /\ UNCHANGED notifierRegisterList
  BY ReliableReport
<1>2. {b.reg.no : b \in BoundTo(s)} = {x.no : x \in {y \in Subs : y.notifier = s}}
  <2>1. \A b \in notifierRegisterList : b.notString = b.reg.notifier
    BY DEF Promise, Served
  <2>2. QED
    BY <2>1 DEF BoundTo, Subs
<1>3. UNCHANGED Subs
  BY <1>1 DEF Subs
<1>4. QED
  BY <1>1, <1>2, <1>3, AbstractActions

\* A step after which nothing is subscribed or written that was not before.
LEMMA NothingIsOther ==
  ASSUME UNCHANGED notifierRegisterList, sent' = Nothing
  PROVE  Abstract!Next
<1>1. UNCHANGED Subs
  BY DEF Subs
<1>2. QED
  BY <1>1, AbstractActions DEF Abstract!Next

\* Under Reliable every step is a step of Subscriptions, or stutters.
LEMMA RefinementStep ==
  ASSUME Reliable, TypeOK, OneSignal, Ordered, Promise, [Next]_vars
  PROVE  [Abstract!Next]_(Abstract!vars)
<1>1. ASSUME NEW p \in Peers, EstablishNewConnection(p) PROVE Abstract!Next
  BY <1>1, NothingIsOther DEF EstablishNewConnection
<1>2. ASSUME NEW p \in Peers, PeerConnectionClosed(p) PROVE Abstract!Next
  BY <1>2, UnregisterGives DEF PeerConnectionClosed, Abstract!Next
<1>3. ASSUME NEW c \in Clients, RegisterNotifier(c) PROVE Abstract!Next
  <2>1. /\ sent' = Nothing
        /\ \/ UNCHANGED <<notifierRegisterList, gone, made>>
           \/ /\ CanRegister(c)
              /\ gone' = gone \ {c}
              /\ \E q \in Askable \cap Strings :
                   notifierRegisterList' = notifierRegisterList
                     \cup {[reg |-> Fresh(c, q), notString |-> q]}
    BY <1>3, ReliableRegistration
  <2>2. CASE UNCHANGED notifierRegisterList
    BY <2>1, <2>2, NothingIsOther
  <2>3. ASSUME NEW q \in Askable \cap Strings, CanRegister(c),
               notifierRegisterList' = notifierRegisterList
                 \cup {[reg |-> Fresh(c, q), notString |-> q]}
        PROVE  Abstract!Next
    BY <2>1, <2>3, RegisterSubscribes DEF Abstract!Next
  <2>4. QED
    BY <2>1, <2>2, <2>3
<1>4. ASSUME NEW c \in Clients, UnregisterNotifier(c) PROVE Abstract!Next
  <2>1. DoUnregisterNotifier(c[1], c[2]) /\ sent' = Nothing
    BY <1>4 DEF UnregisterNotifier
  <2>2. CASE c \in Peers \X AnyId
    <3>1. c[1] \in Peers /\ c[2] \in Ids \cup {NoId}
      BY <2>2 DEF AnyId
    <3>2. QED
      BY <2>1, <3>1, UnregisterGives DEF Abstract!Next
  <2>3. CASE c = <<ScpiSocket, NoId>>
    <3>1. \A b \in notifierRegisterList : ~Matches(b.reg, c[1], c[2])
      BY <2>3, NotifierAssumption DEF Promise, Served, Matches
    <3>2. UNCHANGED notifierRegisterList
      BY <2>1, <3>1 DEF DoUnregisterNotifier
    <3>3. QED
      BY <2>1, <3>2, NothingIsOther
  <2>4. QED
    BY <2>2, <2>3 DEF Clients
<1>5. ASSUME NEW p \in Peers, NEW id \in Ids, LostClient(p, id) PROVE Abstract!Next
  BY <1>5, UnregisterGives DEF LostClient, Abstract!Next
<1>6. ASSUME NEW s \in Strings, Query(s) PROVE Abstract!Next
  BY <1>6, ReliableQuery, NothingIsOther
<1>7. ASSUME NEW s \in Strings, ValueChanged(s) PROVE Abstract!Next
  BY <1>7, ChangeReports DEF Abstract!Next
<1>8. CASE UNCHANGED vars
  BY <1>8 DEF vars, Abstract!vars
<1>9. QED
  BY <1>1, <1>2, <1>3, <1>4, <1>5, <1>6, <1>7, <1>8 DEF Next

\* With reliable queries the server implements Subscriptions: initial states
\* map to initial states, every step to a step or a stutter.
THEOREM ImplementsSubscriptionsIfReliable ==
  ASSUME Reliable
  PROVE  Spec => ImplementsSubscriptions
<1>1. Init => Abstract!Init
  BY DEF Init, Abstract!Init, Abstract!Nothing, Nothing
<1>2. TypeOK /\ OneSignal /\ Ordered /\ Promise /\ [Next]_vars =>
        [Abstract!Next]_(Abstract!vars)
  BY RefinementStep
<1>3. QED
  BY <1>1, <1>2, TypeCorrect, OneSignalAlways, OrderedAlways, PromiseAlways, PTL
  DEF Spec, ImplementsSubscriptions, Abstract!Spec

=============================================================================
