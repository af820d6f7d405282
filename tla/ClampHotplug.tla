-------------------------- MODULE ClampHotplug --------------------------
(***************************************************************************)
(* Hot-plug of clamps: the connectors and the micro controller's latched   *)
(* interrupt, the signal handler with its pipe, MTIntHandler with its I2C  *)
(* transactions, cClampInterface with the clamp objects, and the ranges a  *)
(* clamp adds to its measuring channel and, for a clamp with a voltage     *)
(* part, to the channel four below.                                        *)
(*                                                                         *)
(* The server is one Qt event loop.  Its handlers do not interleave with   *)
(* each other, but people plug and unplug, and signals arrive, between any *)
(* two I2C transactions of a handler: each transaction is a step.          *)
(***************************************************************************)
EXTENDS Naturals, FiniteSets

CONSTANTS
  Channels,   \* control channels with a clamp connector
  Clamps,     \* physical clamps
  Types,      \* defined clamp types
  DualType,   \* EMOB200DC, the type with a secondary channel
  Undefined,  \* clamp type of an unreadable or empty flash
  NoClamp,    \* no clamp object for a channel
  None,       \* nothing plugged
  Other,      \* something plugged that has no clamp flash
  PipeSize,   \* bytes the pipe holds
  MaxMoves,   \* bound on plugging and unplugging
  MaxFaults,  \* bound on failing I2C transactions
  Prompt      \* the controller signals also while its latch is already set

ASSUME ClampAssumption ==
  /\ Channels \subseteq Nat
  /\ DualType \in Types
  /\ Undefined \notin Types
  /\ None \notin Clamps /\ Other \notin Clamps
  /\ PipeSize \in Nat \ {0}
  /\ MaxMoves \in Nat /\ MaxFaults \in Nat
  /\ Prompt \in BOOLEAN

VARIABLES
  \* the hardware
  hw,         \* what is plugged into each connector
  flash,      \* the type in the flash of each clamp
  critical,   \* latched clamp bit of the critical status register
  enabled,    \* the controller's interrupt mask has the clamp bit
  sigio,      \* SIGIO is pending
  pipe,       \* bytes in the pipe
  \* the handlers
  pc,         \* next step of the code that runs
  serving,    \* the server is started: doSetupServer is past its poll
  todo,       \* channels that actualizeClampStatus still has to look at
  dropped,    \* history: an update was given up since the last good one
  \* the server's data
  m_nClampStatus,              \* channels known to hold a clamp
  m_clampHash,                 \* the clamp objects
  m_clampSecondarySet,         \* secondary channels, named by their primary
  m_notifierClampChannelList,  \* what SYSTEM:CLAMP:CHANNEL:CATALOG reports
  ranges,     \* clamp ranges in the list of each channel and the one below
  catalog,    \* the range catalog notifier of these channels
  \* bounds
  moves, faults

hwVars     == <<hw, flash, critical, enabled, sigio, moves>>
pathVars   == <<pipe, pc, serving, todo, dropped>>
clampVars  == <<m_nClampStatus, m_clampHash, m_clampSecondarySet,
                m_notifierClampChannelList>>
rangeVars  == <<ranges, catalog>>
vars == <<hwVars, pathVars, clampVars, rangeVars, faults>>

TypeOrUndefined == Types \cup {Undefined}

\* The two range lists a clamp can extend.
Places == {"own", "below"}

\* A cClamp.  "dev" is the clamp it was made for, secondName its
\* m_sChannelNameSecondary; the ranges it owns follow from its type.
Object == [dev: Clamps, type: TypeOrUndefined, secondName: {"", "below"}]

ASSUME NoClampAssumption == NoClamp \notin Object

NoRanges == [c \in Channels |-> [p \in Places |-> {}]]

Init ==
  /\ hw \in [Channels -> {None, Other} \cup Clamps]
  /\ \A c, d \in Channels : hw[c] \in Clamps /\ hw[c] = hw[d] => c = d
  /\ flash \in [Clamps -> TypeOrUndefined]
  /\ critical \in BOOLEAN
  /\ enabled = FALSE /\ sigio = FALSE /\ pipe = 0
  /\ pc = "read" /\ serving = FALSE /\ todo = {} /\ dropped = FALSE
  /\ m_nClampStatus = {}
  /\ m_clampHash = [c \in Channels |-> NoClamp]
  /\ m_clampSecondarySet = {}
  /\ m_notifierClampChannelList = [keys |-> {}, secondary |-> {}]
  /\ ranges = NoRanges /\ catalog = NoRanges
  /\ moves = 0 /\ faults = 0

\* An I2C transaction fails.
Fault == faults < MaxFaults /\ faults' = faults + 1
NoFault == UNCHANGED faults

-----------------------------------------------------------------------------
(***************************************************************************)
(* Hardware.  A change at a connector latches the clamp bit.  With the     *)
(* interrupt enabled the change of the latch is signalled; whether another *)
(* change is signalled while the bit is still latched is the controller's. *)
(***************************************************************************)
Latch ==
  /\ critical' = TRUE
  /\ sigio' \in IF ~enabled THEN {sigio}
                ELSE IF critical /\ ~Prompt THEN {sigio, TRUE}
                ELSE {TRUE}

Change(c, thing) ==
  /\ moves < MaxMoves
  /\ moves' = moves + 1
  /\ hw' = [hw EXCEPT ![c] = thing]
  /\ Latch
  /\ UNCHANGED <<flash, enabled, pathVars, clampVars, rangeVars, faults>>

Plug(c, thing) ==
  /\ hw[c] = None
  /\ \A d \in Channels : thing \in Clamps => hw[d] # thing
  /\ Change(c, thing)

Unplug(c) == hw[c] # None /\ Change(c, None)

\* The FPGA message device raises SIGIO as well.
OtherInterrupt ==
  /\ serving /\ ~sigio
  /\ sigio' = TRUE
  /\ UNCHANGED <<hw, flash, critical, enabled, moves, pathVars, clampVars,
                 rangeVars, faults>>

\* The signal handler writes one byte into the pipe, which does not block.
SigHandler ==
  /\ sigio
  /\ sigio' = FALSE
  /\ pipe' = IF pipe < PipeSize THEN pipe + 1 ELSE pipe
  /\ UNCHANGED <<hw, flash, critical, enabled, moves, pc, serving, todo,
                 dropped, clampVars, rangeVars, faults>>

-----------------------------------------------------------------------------
(***************************************************************************)
(* MTIntHandler, and the poll in doSetupServer                             *)
(***************************************************************************)

\* Mutant: the latched bit is not reset.
MTIntHandlerKeepsLatch ==
  /\ pc = "idle" /\ pipe > 0
  /\ pipe' = pipe - 1
  /\ \/ NoFault /\ pc' = IF critical THEN "read" ELSE "idle"
     \/ Fault /\ pc' = "idle"
  /\ UNCHANGED <<hwVars, serving, todo, dropped, clampVars, rangeVars>>

\* Reads one byte, then the critical status.
MTIntHandler ==
  /\ pc = "idle" /\ pipe > 0
  /\ pipe' = pipe - 1
  /\ \/ NoFault /\ pc' = IF critical THEN "reset" ELSE "idle"
     \/ Fault /\ pc' = "idle"
  /\ UNCHANGED <<hwVars, serving, todo, dropped, clampVars, rangeVars>>

\* The answer is ignored.
ResetCriticalStatus ==
  /\ pc = "reset"
  /\ pc' = "read"
  /\ \/ NoFault /\ critical' = FALSE
     \/ Fault /\ UNCHANGED critical
  /\ UNCHANGED <<hw, flash, enabled, sigio, moves, pipe, serving, todo,
                 dropped, clampVars, rangeVars>>

\* The code that called updateI2cDevicesConnected goes on.
AfterUpdate == IF serving THEN "idle" ELSE "enable"

ConnectedMask == {c \in Channels : hw[c] # None}

\* Mutant: or instead of exclusive-or.
ChangedOr(mask) == mask \cup m_nClampStatus

\* The mask read, exclusive-or the known clamps.
Changed(mask) == (mask \ m_nClampStatus) \cup (m_nClampStatus \ mask)

UpdateI2cDevicesConnected ==
  /\ pc = "read"
  /\ \/ NoFault
        /\ todo' = Changed(ConnectedMask)
        /\ pc' = "update"
        /\ dropped' = FALSE
     \/ Fault
        /\ pc' = AfterUpdate
        /\ dropped' = TRUE
        /\ UNCHANGED todo
  /\ UNCHANGED <<hwVars, pipe, serving, clampVars, rangeVars>>

\* doSetupServer after the poll: the server starts, then the interrupt is
\* enabled.  Whether an already latched bit is signalled now is open.
EnableClampInterrupt ==
  /\ pc = "enable"
  /\ pc' = "idle"
  /\ serving' = TRUE
  /\ \/ /\ NoFault
        /\ enabled' = TRUE
        /\ sigio' \in IF ~critical THEN {sigio}
                      ELSE IF Prompt THEN {TRUE} ELSE {sigio, TRUE}
     \/ Fault /\ UNCHANGED <<enabled, sigio>>
  /\ UNCHANGED <<hw, flash, critical, moves, pipe, todo, dropped, clampVars,
                 rangeVars>>

-----------------------------------------------------------------------------
(***************************************************************************)
(* Clamp objects and the ranges they lend                                  *)
(***************************************************************************)

\* The ranges initClamp makes for a type, per list they go to.
RangesOf(type, place) ==
  IF type = Undefined \/ (place = "below" /\ type # DualType) THEN {} ELSE {type}

\* The secondary name is set, never cleared.
InitClamp(object, type) ==
  [object EXCEPT !.type = type,
                 !.secondName = IF type = DualType THEN "below" ELSE @]

\* The constructor, with the type read from the flash.
NewClamp(dev, type) ==
  InitClamp([dev |-> dev, type |-> Undefined, secondName |-> ""], type)

\* addSense and removeAllRanges leave the list below alone without a name.
Reaches(object, place) == place \in {"own", object.secondName}

AddSense(list, object) ==
  [p \in Places |-> list[p] \cup
     IF Reaches(object, p) THEN RangesOf(object.type, p) ELSE {}]

\* Mutant: the list of the secondary channel is forgotten.
RemoveOwnRanges(list, object) ==
  [list EXCEPT !["own"] = @ \ RangesOf(object.type, "own")]

RemoveAllRanges(list, object) ==
  [p \in Places |-> list[p] \
     IF Reaches(object, p) THEN RangesOf(object.type, p) ELSE {}]

\* Both end with a fresh range catalog.
SetRanges(c, list) ==
  /\ ranges' = [ranges EXCEPT ![c] = list]
  /\ catalog' = [catalog EXCEPT ![c] = list]

Keys(hash) == {c \in Channels : hash[c] # NoClamp}

GenerateAndNotifyClampChannelList ==
  m_notifierClampChannelList' =
    [keys |-> Keys(m_clampHash'), secondary |-> m_clampSecondarySet']

(***************************************************************************)
(* actualizeClampStatus: the changed channels in ascending order           *)
(***************************************************************************)
Least(c) == c \in todo /\ \A d \in todo : c <= d

Visit(c) ==
  /\ pc = "update"
  /\ Least(c)
  /\ todo' = todo \ {c}

\* The ping is answered: a clamp object is made.  Its constructor reads the
\* type from the flash, and takes an unreadable one for undefined.
AddClamp(c) ==
  /\ Visit(c)
  /\ c \notin m_nClampStatus
  /\ hw[c] \in Clamps
  /\ \E type \in {flash[hw[c]], Undefined} :
       LET object == NewClamp(hw[c], type)
       IN  /\ IF type = flash[hw[c]] THEN NoFault ELSE Fault
           /\ m_clampHash' = [m_clampHash EXCEPT ![c] = object]
           /\ m_clampSecondarySet' = IF object.secondName # ""
                                     THEN m_clampSecondarySet \cup {c}
                                     ELSE m_clampSecondarySet
           /\ SetRanges(c, AddSense(ranges[c], object))
  /\ m_nClampStatus' = m_nClampStatus \cup {c}
  /\ GenerateAndNotifyClampChannelList
  /\ UNCHANGED <<hwVars, pipe, pc, serving, dropped>>

\* Mutant: the bit is set before the ping.
PingFailsTooLate(c) ==
  /\ Visit(c)
  /\ c \notin m_nClampStatus
  /\ m_nClampStatus' = m_nClampStatus \cup {c}
  /\ IF hw[c] \in Clamps
     THEN Fault /\ dropped' = TRUE
     ELSE NoFault /\ UNCHANGED dropped
  /\ UNCHANGED <<hwVars, pipe, pc, serving, m_clampHash, m_clampSecondarySet,
                 m_notifierClampChannelList, rangeVars>>

\* No answer to the ping: not a clamp, or no longer there, or a fault.
PingFails(c) ==
  /\ Visit(c)
  /\ c \notin m_nClampStatus
  /\ IF hw[c] \in Clamps
     THEN Fault /\ dropped' = TRUE
     ELSE NoFault /\ UNCHANGED dropped
  /\ UNCHANGED <<hwVars, pipe, pc, serving, clampVars, rangeVars>>

\* The clamp is taken out of the hash and deleted.
RemoveClamp(c) ==
  /\ Visit(c)
  /\ c \in m_nClampStatus
  /\ m_clampHash[c] # NoClamp
  /\ m_nClampStatus' = m_nClampStatus \ {c}
  /\ m_clampHash' = [m_clampHash EXCEPT ![c] = NoClamp]
  /\ m_clampSecondarySet' = IF m_clampHash[c].secondName # ""
                            THEN m_clampSecondarySet \ {c}
                            ELSE m_clampSecondarySet
  /\ GenerateAndNotifyClampChannelList
  /\ SetRanges(c, RemoveAllRanges(ranges[c], m_clampHash[c]))
  /\ UNCHANGED <<hwVars, pipe, pc, serving, dropped, faults>>

\* Mutant: the latch is reset after the update instead of before it.
UpdateDoneResets ==
  /\ pc = "update" /\ todo = {}
  /\ pc' = AfterUpdate
  /\ critical' = FALSE
  /\ UNCHANGED <<hw, flash, enabled, sigio, moves, pipe, serving, todo,
                 dropped, clampVars, rangeVars, faults>>

UpdateDone ==
  /\ pc = "update" /\ todo = {}
  /\ pc' = AfterUpdate
  /\ UNCHANGED <<hwVars, pipe, serving, todo, dropped, clampVars, rangeVars, faults>>

-----------------------------------------------------------------------------
(***************************************************************************)
(* Commands to a clamp.  They reach the object of the channel, and through *)
(* the multiplexer whatever clamp is plugged there now.                    *)
(***************************************************************************)
Addressed(c) == pc = "idle" /\ m_clampHash[c] # NoClamp

\* exportAdjFlash works and leaves the type in the flash ...
Written(c, type) ==
  /\ hw[c] \in Clamps
  /\ flash' = [flash EXCEPT ![hw[c]] = type]
  /\ NoFault

\* ... or fails: no clamp there, or an interrupted write that spoils the flash.
NotWritten(c) ==
  \/ hw[c] \notin Clamps /\ UNCHANGED flash /\ NoFault
  \/ hw[c] \in Clamps /\ Fault /\ flash' \in {flash, [flash EXCEPT ![hw[c]] = Undefined]}

\* SYSTEM:CLAMP:<channel>:TYPE.  The ranges come back only when the flash was
\* written.
HandleScpiWriteType(c, type) ==
  /\ Addressed(c)
  /\ LET old == m_clampHash[c]
         new == InitClamp(old, type)
         bare == RemoveAllRanges(ranges[c], old)
     IN  /\ m_clampHash' = [m_clampHash EXCEPT ![c] = new]
         /\ \/ Written(c, type) /\ SetRanges(c, AddSense(bare, new))
            \/ NotWritten(c) /\ SetRanges(c, bare)
  /\ UNCHANGED <<hw, critical, enabled, sigio, moves, pathVars, m_nClampStatus,
                 m_clampSecondarySet, m_notifierClampChannelList>>

HandleScpiWriteFlash(c) ==
  /\ Addressed(c)
  /\ Written(c, m_clampHash[c].type) \/ NotWritten(c)
  /\ UNCHANGED <<hw, critical, enabled, sigio, moves, pathVars, clampVars, rangeVars>>

HandleScpiResetFlash(c) ==
  /\ Addressed(c)
  /\ Written(c, Undefined) \/ NotWritten(c)
  /\ UNCHANGED <<hw, critical, enabled, sigio, moves, pathVars, clampVars, rangeVars>>

\* SYSTEM:CLAMP:WRITE with the EEPROM enabled: one clamp after the other in an
\* order of the hash's, up to the first that fails.
WriteAllClamps ==
  /\ pc = "idle"
  /\ \E written \in SUBSET Keys(m_clampHash) :
       LET sound  == {c \in written : hw[c] \in Clamps}
           after  == [k \in Clamps |->
                       LET at == {c \in sound : hw[c] = k}
                       IN IF at = {} THEN flash[k]
                          ELSE m_clampHash[CHOOSE c \in at : TRUE].type]
       IN  /\ sound = written
           /\ \/ written = Keys(m_clampHash) /\ flash' = after /\ NoFault
              \/ \E c \in Keys(m_clampHash) \ written :
                   \/ hw[c] \notin Clamps /\ flash' = after /\ NoFault
                   \/ /\ hw[c] \in Clamps /\ Fault
                      /\ flash' \in {after, [after EXCEPT ![hw[c]] = Undefined]}
  /\ UNCHANGED <<hw, critical, enabled, sigio, moves, pathVars, clampVars, rangeVars>>

-----------------------------------------------------------------------------
Hardware ==
  \/ \E c \in Channels, thing \in Clamps \cup {Other} : Plug(c, thing)
  \/ \E c \in Channels : Unplug(c)
  \/ OtherInterrupt

Handler ==
  \/ MTIntHandler
  \/ ResetCriticalStatus
  \/ UpdateI2cDevicesConnected
  \/ EnableClampInterrupt
  \/ \E c \in Channels : AddClamp(c) \/ PingFails(c) \/ RemoveClamp(c)
  \/ UpdateDone

Commands ==
  \/ \E c \in Channels :
       \/ \E type \in Types : HandleScpiWriteType(c, type)
       \/ HandleScpiWriteFlash(c)
       \/ HandleScpiResetFlash(c)
  \/ WriteAllClamps

Next == Hardware \/ SigHandler \/ Handler \/ Commands

Spec == Init /\ [][Next]_vars

\* Signals are delivered, and the event loop runs the handler to its end.
Fairness == WF_vars(SigHandler) /\ WF_vars(Handler)

FairSpec == Spec /\ Fairness

-----------------------------------------------------------------------------
(***************************************************************************)
(* Properties                                                              *)
(***************************************************************************)

\* Every variable has its type; the handler never takes more bytes out of the
\* pipe than the signal handler has put in.
TypeOK ==
  /\ hw \in [Channels -> {None, Other} \cup Clamps]
  /\ flash \in [Clamps -> TypeOrUndefined]
  /\ critical \in BOOLEAN /\ enabled \in BOOLEAN /\ sigio \in BOOLEAN
  /\ pipe \in 0..PipeSize
  /\ pc \in {"read", "update", "enable", "idle", "reset"}
  /\ serving \in BOOLEAN /\ dropped \in BOOLEAN
  /\ todo \subseteq Channels
  /\ m_nClampStatus \subseteq Channels
  /\ m_clampHash \in [Channels -> Object \cup {NoClamp}]
  /\ m_clampSecondarySet \subseteq Channels
  /\ m_notifierClampChannelList \in
       [keys: SUBSET Channels, secondary: SUBSET Channels]
  /\ ranges \in [Channels -> [Places -> SUBSET Types]]
  /\ catalog \in [Channels -> [Places -> SUBSET Types]]
  /\ moves \in 0..MaxMoves /\ faults \in 0..MaxFaults

\* The status word and the hash agree at every step of every update, whatever
\* fails: a bit without an object could never be cleared again ("Clamp to
\* remove not found"), an object without its bit would be made twice.
HashMatchesStatus == m_nClampStatus = Keys(m_clampHash)

\* A range list, and the catalog clients are notified of, hold no range of a
\* clamp that is gone or of a type it no longer has, in neither channel: the
\* range objects are deleted with the clamp or at the change of its type.
NoDanglingRange ==
  \A c \in Channels, p \in Places :
    /\ catalog[c][p] = ranges[c][p]
    /\ IF m_clampHash[c] = NoClamp
       THEN ranges[c][p] = {}
       ELSE ranges[c][p] \subseteq RangesOf(m_clampHash[c].type, p)

\* The clamp catalog lists the channels of the present clamps, and a secondary
\* channel only as long as a clamp that is or was a voltage clamp is present,
\* whatever TYPE commands changed in between.
ListedAreLive ==
  /\ m_notifierClampChannelList.keys = Keys(m_clampHash)
  /\ \A c \in m_notifierClampChannelList.secondary :
       m_clampHash[c] # NoClamp /\ m_clampHash[c].secondName # ""

\* What the server knows of connector c fits what is plugged there.
Fits(c) ==
  /\ hw[c] \in Clamps => c \in m_nClampStatus
  /\ c \in m_nClampStatus => hw[c] # None

\* MTIntHandler: "we must reset clamp status before handling the interrupt".
\* Then no change is missed, at whatever point of the handler it happens: once
\* the handler is through, either the server knows all clamps or the change is
\* still latched, or a failed transaction made it give up.
NoMissedPlug ==
  pc \in {"idle", "enable"} /\ ~critical /\ ~dropped => \A c \in Channels : Fits(c)

\* The clamp of an occupied connector is deleted only if a change that brings
\* the handler back is still latched: no clamp is removed for good by a mask
\* that was out of date when it was used.
RemovedIsGone ==
  [][\A c \in Channels :
       m_clampHash[c] # NoClamp /\ m_clampHash'[c] = NoClamp =>
         hw[c] = None \/ critical]_vars

\* When no transaction fails and the controller signals promptly, a latched
\* change is always on its way to the handler: no wake-up is lost, though the
\* pipe drops bytes and one byte may stand for several signals.
NoLostWakeup ==
  enabled /\ critical => sigio \/ pipe > 0 \/ pc = "reset"

\* The same, to its end: after the last plugging the server gets to know the
\* clamps and nothing changes that any more.
EventuallyKnown == <>[](\A c \in Channels : Fits(c))
=============================================================================
