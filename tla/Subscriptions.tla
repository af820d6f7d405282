------------------------- MODULE Subscriptions -------------------------
(***************************************************************************)
(* What the notification service of a PCB server promises its clients: a   *)
(* subscription that was accepted stays until its client gives it up or    *)
(* goes away, and a new value of a notification string is reported exactly *)
(* once for each subscription to that string, and for no other.            *)
(***************************************************************************)
EXTENDS Naturals

CONSTANTS
  Peers,     \* network connections
  Ids,       \* client ids that share one connection
  NoId,      \* the empty client id
  Strings,   \* the values a client can subscribe to
  Numbers    \* what tells subscriptions apart

VARIABLES
  subs,      \* the subscriptions in force
  out        \* notifications of the last step: how often for which number

vars == <<subs, out>>

Subscription ==
  [no: Numbers, netPeer: Peers, clientID: Ids \cup {NoId}, notifier: Strings]

Nothing == [n \in {} |-> 0]

Init == subs = {} /\ out = Nothing

\* A client subscribes to a string under a number nobody else uses.
Subscribe(x) ==
  /\ \A y \in subs : y.no # x.no
  /\ subs' = subs \cup {x}
  /\ out' = Nothing

\* A client ends its subscriptions; one without an id ends all of its peer.
Give(p, id) ==
  /\ subs' = {x \in subs : ~ /\ x.netPeer = p
                             /\ id = NoId \/ x.clientID \in {id, NoId}}
  /\ out' = Nothing

\* A string gets a new value.
Report(s) ==
  /\ out' = [n \in {x.no : x \in {y \in subs : y.notifier = s}} |-> 1]
  /\ UNCHANGED subs

\* A request that concerns no subscription.
Other == out' = Nothing /\ UNCHANGED subs

Next ==
  \/ \E x \in Subscription : Subscribe(x)
  \/ \E p \in Peers, id \in Ids \cup {NoId} : Give(p, id)
  \/ \E s \in Strings : Report(s)
  \/ Other

Spec == Init /\ [][Next]_vars

=============================================================================
