---------------------------- MODULE Notifier ----------------------------
(***************************************************************************)
(* Registration and delivery of notifications in cPCBServer.               *)
(*                                                                         *)
(* SERVER:REGISTER <query>;<number>; makes the server run the query.  The  *)
(* command object that answers it emits strNotifier with the notification  *)
(* string behind the value, and the server binds that string to the OLDEST *)
(* registration still waiting.  A change of the string then sends          *)
(* "Notify:<number>" to every registration bound to it.  The server is one *)
(* Qt event loop: each action below is one slot or one message, and runs   *)
(* to its end before the next.                                             *)
(***************************************************************************)
EXTENDS Naturals, Sequences

CONSTANTS
  Peers,            \* XiQNetPeer objects: a reconnecting client gets a new one
  ScpiSocket,       \* requests of the raw SCPI socket carry peer 0
  Ids,              \* client ids multiplexed over one peer
  NoId,             \* the empty client id of the old style communication
  Strings,          \* notification strings
  Mute,             \* queries that answer without emitting strNotifier
  Flaky,            \* strings whose query may answer errexec before it emits
  Askable,          \* what the clients register for
  Registrants,      \* who registers
  MaxRegistrations  \* bound on the registrations of a behaviour

ASSUME NotifierAssumption ==
  /\ ScpiSocket \notin Peers
  /\ NoId \notin Ids
  /\ Mute \notin Strings
  /\ Flaky \subseteq Strings
  /\ Askable \subseteq Strings \cup {Mute}
  /\ Registrants \subseteq Peers \cup {ScpiSocket}
  /\ MaxRegistrations \in Nat

VARIABLES
  peer,                  \* life of each connection
  notifierRegisterNext,  \* registrations waiting for a strNotifier signal
  notifierRegisterList,  \* registrations bound to a string
  linked,                \* valueChanged -> asyncHandler connections per string
  made,                  \* how many registrations were ever accepted
  alive,                 \* the process has not crashed
  reply,                 \* type of the reply to the last request
  sent,                  \* notifications written in the last step, per number
  gone                   \* history: clients that ended what they had registered

vars == <<peer, notifierRegisterNext, notifierRegisterList, linked, made,
          alive, reply, sent, gone>>

AnyId == Ids \cup {NoId}

\* The SCPI socket has no client ids.
Clients == (Peers \X AnyId) \cup {<<ScpiSocket, NoId>>}

\* A cNotificationData before it is bound.  "no" stands for its identity, and
\* the client's number tells what the client asked for: its own query.
Registration == [no: 1..MaxRegistrations, netPeer: Peers \cup {ScpiSocket},
                 clientID: AnyId, notifier: Askable]

Bound == [reg: Registration, notString: Strings]

Nothing == [n \in {} |-> 0]

ClientOf(reg) == <<reg.netPeer, reg.clientID>>

CanTalk(p) == p \in {ScpiSocket} \cup {q \in Peers : peer[q] = "open"}

Init ==
  /\ peer = [p \in Peers |-> "new"]
  /\ notifierRegisterNext = <<>>
  /\ notifierRegisterList = {}
  /\ linked = [s \in Strings |-> 0]
  /\ made = 0
  /\ alive = TRUE
  /\ reply = "none"
  /\ sent = Nothing
  /\ gone = {}

(***************************************************************************)
(* Helpers that the handlers share                                         *)
(***************************************************************************)

\* Mutant: the old connections stay.
StillConnected(s) == linked

\* disconnect(notifier, 0, 0, 0)
Disconnected(s) == [linked EXCEPT ![s] = 0]

\* ... and then connect(notifier, valueChanged, asyncHandler)
Relinked(s) == [Disconnected(s) EXCEPT ![s] = @ + 1]

\* Mutant: count() > 1 instead of count() > 0.
EstablishIfTwoWait(waiting, s) ==
  IF Len(waiting) < 2
  THEN /\ notifierRegisterNext' = waiting
       /\ UNCHANGED <<notifierRegisterList, linked>>
  ELSE /\ notifierRegisterNext' = Tail(waiting)
       /\ notifierRegisterList' =
            notifierRegisterList \cup {[reg |-> Head(waiting), notString |-> s]}
       /\ linked' = Relinked(s)

\* A strNotifier signal for s arrives while "waiting" is what waits.
EstablishNewNotifier(waiting, s) ==
  IF waiting = <<>>
  THEN /\ notifierRegisterNext' = waiting
       /\ UNCHANGED <<notifierRegisterList, linked>>
  ELSE /\ notifierRegisterNext' = Tail(waiting)
       /\ notifierRegisterList' =
            notifierRegisterList \cup {[reg |-> Head(waiting), notString |-> s]}
       /\ linked' = Relinked(s)

\* Mutant: a closed connection, which has no id, matches old style clients only.
MatchesExactly(reg, p, id) == reg.netPeer = p /\ reg.clientID = id

\* Whose registrations (p, id) ends.
Matches(reg, p, id) ==
  /\ reg.netPeer = p
  /\ id = NoId \/ reg.clientID = NoId \/ reg.clientID = id

\* Only bound registrations are looked at, waiting ones are not.
DoUnregisterNotifier(p, id) ==
  /\ notifierRegisterList' =
       {b \in notifierRegisterList : ~Matches(b.reg, p, id)}
  /\ UNCHANGED <<notifierRegisterNext, linked>>

\* Mutant: takeFirst() instead of pop_back().
PopFront(waiting) == Tail(waiting)

\* The list a refused query leaves: the registration appended for it goes again.
PopBack(waiting) == SubSeq(waiting, 1, Len(waiting) - 1)

-----------------------------------------------------------------------------
(***************************************************************************)
(* Connections                                                             *)
(***************************************************************************)

EstablishNewConnection(p) ==
  /\ alive
  /\ peer[p] = "new"
  /\ peer' = [peer EXCEPT ![p] = "open"]
  /\ reply' = "none" /\ sent' = Nothing
  /\ UNCHANGED <<notifierRegisterNext, notifierRegisterList, linked, made,
                 alive, gone>>

\* The peer's object is gone after the slot.
PeerConnectionClosed(p) ==
  /\ alive
  /\ peer[p] = "open"
  /\ peer' = [peer EXCEPT ![p] = "closed"]
  /\ DoUnregisterNotifier(p, NoId)
  /\ gone' = gone \cup ({p} \X AnyId)
  /\ reply' = "none" /\ sent' = Nothing
  /\ UNCHANGED <<made, alive>>

(***************************************************************************)
(* SERVER:REGISTER                                                         *)
(***************************************************************************)

\* Mutant: prepended.
Prepended(c, q) ==
  <<[no |-> made + 1, netPeer |-> c[1], clientID |-> c[2], notifier |-> q]>>
    \o notifierRegisterNext

\* The request is complete and names an existing command: it is appended.
Appended(c, q) ==
  Append(notifierRegisterNext,
         [no |-> made + 1, netPeer |-> c[1], clientID |-> c[2], notifier |-> q])

CanRegister(c) ==
  /\ alive
  /\ c[1] \in Registrants
  /\ CanTalk(c[1])
  /\ made < MaxRegistrations

\* The query emits strNotifier before it returns.
RegisterEmitting(c, q) ==
  /\ CanRegister(c)
  /\ q \in Strings
  /\ EstablishNewNotifier(Appended(c, q), q)
  /\ made' = made + 1
  /\ gone' = gone \ {c}
  /\ reply' = "ack" /\ sent' = Nothing
  /\ UNCHANGED <<peer, alive>>

\* The query is answered, but no string comes: the registration keeps waiting.
RegisterSilent(c, q) ==
  /\ CanRegister(c)
  /\ q = Mute \/ q \in Flaky
  /\ notifierRegisterNext' = Appended(c, q)
  /\ made' = made + 1
  /\ gone' = gone \ {c}
  /\ reply' = "ack" /\ sent' = Nothing
  /\ UNCHANGED <<peer, notifierRegisterList, linked, alive>>

\* The command object refuses the query.
RegisterRefused(c, q) ==
  /\ CanRegister(c)
  /\ notifierRegisterNext' = PopBack(Appended(c, q))
  /\ reply' = "nak" /\ sent' = Nothing
  /\ UNCHANGED <<peer, notifierRegisterList, linked, made, alive, gone>>

\* No command object for the query.
RegisterUnknown(c) ==
  /\ alive /\ CanTalk(c[1])
  /\ reply' = "nak" /\ sent' = Nothing
  /\ UNCHANGED <<peer, notifierRegisterNext, notifierRegisterList, linked,
                 made, alive, gone>>

\* Not two parameters: the output stays empty, and sendAnswer types a text
\* without a known answer word as ACK.
RegisterMalformed(c) ==
  /\ alive /\ CanTalk(c[1])
  /\ reply' = "ack" /\ sent' = Nothing
  /\ UNCHANGED <<peer, notifierRegisterNext, notifierRegisterList, linked,
                 made, alive, gone>>

RegisterNotifier(c) ==
  \/ \E q \in Askable : \/ RegisterEmitting(c, q)
                        \/ RegisterSilent(c, q)
                        \/ RegisterRefused(c, q)
  \/ RegisterUnknown(c)
  \/ RegisterMalformed(c)

(***************************************************************************)
(* SERVER:UNREGISTER, the netcommand message for a lost client, and plain  *)
(* queries                                                                 *)
(***************************************************************************)

UnregisterNotifier(c) ==
  /\ alive /\ CanTalk(c[1])
  /\ DoUnregisterNotifier(c[1], c[2])
  /\ gone' = gone \cup {c}
  /\ reply' = "ack" /\ sent' = Nothing
  /\ UNCHANGED <<peer, made, alive>>

\* A message with a client id and a netcommand, to which nothing is replied.
LostClient(p, id) ==
  /\ alive /\ peer[p] = "open"
  /\ DoUnregisterNotifier(p, id)
  /\ gone' = gone \cup {<<p, id>>}
  /\ reply' = "none" /\ sent' = Nothing
  /\ UNCHANGED <<peer, made, alive>>

\* Any client queries the value behind s: this emits strNotifier as well.
Query(s) ==
  /\ alive
  /\ EstablishNewNotifier(notifierRegisterNext, s)
  /\ reply' = "ack" /\ sent' = Nothing
  /\ UNCHANGED <<peer, made, alive, gone>>

(***************************************************************************)
(* A string changes: asyncHandler runs once per connection                 *)
(***************************************************************************)

\* Mutant: every registration is taken for one of the changed string.
BoundToAny(s) == notifierRegisterList

BoundTo(s) == {b \in notifierRegisterList : b.notString = s}

\* Writing to peer 0 is a null dereference, writing to a deleted peer is
\* undefined: it crashes or goes nowhere.
NullPeer(b) == b.reg.netPeer = ScpiSocket
DeadPeer(b) == ~NullPeer(b) /\ peer[b.reg.netPeer] = "closed"

Notify(targets, s) == [n \in {b.reg.no : b \in targets} |-> linked[s]]

ValueChanged(s) ==
  LET safe == {b \in BoundTo(s) : ~NullPeer(b) /\ ~DeadPeer(b)}
      null == \E b \in BoundTo(s) : NullPeer(b)
      dead == \E b \in BoundTo(s) : DeadPeer(b)
  IN  /\ alive
      /\ \/ ~ (linked[s] > 0 /\ null)
            /\ alive' = TRUE
            /\ sent' = Notify(safe, s)
         \/ linked[s] > 0 /\ (null \/ dead)
            /\ alive' = FALSE
            /\ \E part \in SUBSET safe : sent' = Notify(part, s)
      /\ reply' = "none"
      /\ UNCHANGED <<peer, notifierRegisterNext, notifierRegisterList, linked,
                     made, gone>>

-----------------------------------------------------------------------------
Next ==
  \/ \E p \in Peers : EstablishNewConnection(p) \/ PeerConnectionClosed(p)
  \/ \E c \in Clients : RegisterNotifier(c) \/ UnregisterNotifier(c)
  \/ \E p \in Peers, id \in Ids : LostClient(p, id)
  \/ \E s \in Strings : Query(s) \/ ValueChanged(s)

Spec == Init /\ [][Next]_vars

-----------------------------------------------------------------------------
(***************************************************************************)
(* Properties                                                              *)
(***************************************************************************)

\* All registrations that wait or are bound.
Registered == {notifierRegisterNext[i] : i \in 1..Len(notifierRegisterNext)}
                \cup {b.reg : b \in notifierRegisterList}

\* Every variable has its type.
TypeOK ==
  /\ peer \in [Peers -> {"new", "open", "closed"}]
  /\ notifierRegisterNext \in Seq(Registration)
  /\ notifierRegisterList \subseteq Bound
  /\ linked \in [Strings -> Nat]
  /\ made \in 0..MaxRegistrations
  /\ alive \in BOOLEAN
  /\ reply \in {"none", "ack", "nak"}
  /\ DOMAIN sent \subseteq 1..MaxRegistrations
  /\ gone \subseteq Clients

\* However often registrations, queries, unregistrations and closed peers
\* rebind a string, one change of it is written at most once per registration:
\* "we disconnect first because we only want 1 signal" (establishNewNotifier).
NotifiedOnce == \A n \in DOMAIN sent : sent[n] = 1

\* Behind it: a string that a registration is bound to has exactly one
\* connection to asyncHandler, so no bound registration is deaf either.
OneSignal == \A b \in notifierRegisterList : linked[b.notString] = 1

\* Signals serve registrations in the order they came in: whatever waits is
\* younger than whatever is bound, and the queue itself is in that order.
OldestFirst ==
  /\ \A i \in 1..Len(notifierRegisterNext) :
       /\ notifierRegisterNext[i].no <= made
       /\ \A b \in notifierRegisterList : b.reg.no < notifierRegisterNext[i].no
  /\ \A i, j \in 1..Len(notifierRegisterNext) :
       i < j => notifierRegisterNext[i].no < notifierRegisterNext[j].no

\* A registration that waits or is bound disappears only when a client ended it:
\* no request of one client, refused ones included, drops another client's.  And
\* a request that is answered with nak leaves none behind.
NoneLost ==
  [][/\ \A r \in Registered :
          r \in Registered' \/ \E c \in gone' : Matches(r, c[1], c[2])
     /\ reply' = "nak" => Registered' \subseteq Registered]_vars

\* A client that registers while nothing waits, with a query that emits, is
\* bound at once and to the string it asked for.
OwnStringWhenNoneWaits ==
  [][\A c \in Clients, q \in Strings :
       notifierRegisterNext = <<>> /\ RegisterEmitting(c, q) =>
         \E b \in notifierRegisterList' \ notifierRegisterList :
           /\ ClientOf(b.reg) = c
           /\ b.notString = q /\ b.reg.notifier = q]_vars

\* doUnregisterNotifier: "we have to remove all notifiers for this client and
\* or clientId".  A client that unregistered, was reported lost or closed its
\* connection has no bound registration until it registers again.
SilentAfterGone ==
  \A b \in notifierRegisterList : ClientOf(b.reg) \notin gone

\* No change of a value takes the server down.
StaysAlive == alive

(***************************************************************************)
(* With clients that register over the network, and only for values whose  *)
(* query reliably emits, the service keeps what Subscriptions promises.    *)
(***************************************************************************)
Abstract == INSTANCE Subscriptions WITH
  Numbers <- 1..MaxRegistrations,
  subs    <- {b.reg : b \in notifierRegisterList},
  out     <- sent

\* Every step of the server is a step of the promise.
ImplementsSubscriptions == Abstract!Spec
=============================================================================
