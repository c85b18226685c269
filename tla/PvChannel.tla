------------------------------ MODULE PvChannel ------------------------------
(***************************************************************************)
(* The Channel Access handles of one PVItem: the channel and subscription  *)
(* that the VIs create (setupPvIndexAndRegistry, subscribeBasePVs), the    *)
(* poll thread recreates every two seconds, the connection callback and    *)
(* disconnectPVs or unreserved take away.  Each reads and writes the item  *)
(* with ioMutex held, and calls Channel Access without it.                 *)
(*                                                                         *)
(* Channel Access itself is the environment: a channel connects while its  *)
(* server is up and tells connectionChanged; it notices late that a server *)
(* is gone, perhaps when the server is back; callbacks come from one       *)
(* thread, and ca_clear_channel waits for the one that runs.               *)
(***************************************************************************)
EXTENDS Integers, FiniteSets

CONSTANTS VIs,            \* threads that call getValue
          Disconnectors,  \* those of them that call disconnectPVs or end too
          Poll,           \* the poll thread
          Chans, Events,  \* bound: the handles Channel Access may give out
          MaxOutages,     \* bound: how often the server goes down
          None

ASSUME PvChannelAssumption ==
  /\ Disconnectors \subseteq VIs /\ Poll \notin VIs
  /\ None \notin VIs \cup {Poll} \cup Chans \cup Events
  /\ MaxOutages \in Nat

Threads == VIs \cup {Poll}

VARIABLES channelId, eventId, connected,  \* the PVItem
          chan,      \* per channel: "unused", "down", "up", "lost" or "closed"
          sub,       \* per subscription: None, its channel, or "cleared"
          server, outages,
          cbEvent,   \* the subscription a CONN_DOWN callback is to clear
          pc,        \* per thread
          arg,       \* the channel a thread passes to ca_create_subscription
          takenCh, takenEv,  \* the handles disconnectPVs took from the item
          gone       \* disconnectPVs has returned, and no VI asked for the PV since

item == <<channelId, eventId, connected>>
ca == <<chan, sub>>
network == <<server, outages>>
taken == <<takenCh, takenEv>>
vars == <<item, ca, network, cbEvent, pc, arg, taken, gone>>

Init ==
  /\ channelId = None /\ eventId = None /\ connected = FALSE
  /\ chan = [c \in Chans |-> "unused"]
  /\ sub = [e \in Events |-> None]
  /\ server \in BOOLEAN /\ outages = 0
  /\ cbEvent = None
  /\ pc = [t \in Threads |-> "idle"]
  /\ arg = [t \in Threads |-> None]
  /\ takenCh = [t \in VIs |-> None] /\ takenEv = [t \in VIs |-> None]
  /\ gone = FALSE

Goto(t, step) == pc' = [pc EXCEPT ![t] = step]

\* What ca_state says: a channel that has lost its server still passes for up.
IsUp(c) == c # None /\ chan[c] \in {"up", "lost"}
Open(c) == chan[c] \in {"down", "up", "lost"}
Live(e) == sub[e] \in Chans /\ Open(sub[e])

-----------------------------------------------------------------------------
(* Channel Access                                                          *)

Server ==
  /\ server' = ~server
  /\ outages' = IF server THEN outages + 1 ELSE outages
  /\ outages' <= MaxOutages
  /\ chan' = [c \in Chans |-> IF chan[c] = "up" THEN "lost" ELSE chan[c]]
  /\ UNCHANGED <<item, sub, cbEvent, pc, arg, taken, gone>>

\* connectionChanged, CONN_UP: whichever channel of the item it is.
ConnUp(c) ==
  /\ server /\ chan[c] = "down" /\ cbEvent = None
  /\ chan' = [chan EXCEPT ![c] = "up"]
  /\ connected' = TRUE
  /\ UNCHANGED <<channelId, eventId, sub, network, cbEvent, pc, arg, taken, gone>>

\* Mutant: the subscription of a lost channel stays with the item.
ConnDownKeeps(c) ==
  /\ chan[c] = "lost" /\ cbEvent = None
  /\ chan' = [chan EXCEPT ![c] = "down"]
  /\ connected' = FALSE
  /\ cbEvent' = eventId
  /\ UNCHANGED <<channelId, eventId, sub, network, pc, arg, taken, gone>>

ConnDown(c) ==
  /\ chan[c] = "lost" /\ cbEvent = None
  /\ chan' = [chan EXCEPT ![c] = "down"]
  /\ connected' = FALSE
  /\ cbEvent' = eventId /\ eventId' = None
  /\ UNCHANGED <<channelId, sub, network, pc, arg, taken, gone>>

\* After ioMutex is left.
ConnDownClear ==
  /\ cbEvent # None
  /\ sub' = [sub EXCEPT ![cbEvent] = "cleared"]
  /\ cbEvent' = None
  /\ UNCHANGED <<item, chan, network, pc, arg, taken, gone>>

-----------------------------------------------------------------------------
(* connectPv                                                               *)

Unused == {c \in Chans : chan[c] = "unused"}
Creating(t) == pc[t] \in {"setup", "connect", "create"}
RegistryFree(t) == \A u \in VIs \ {t} : ~Creating(u)

\* A call that initialises: setup drops a channel that is not connected, with
\* the registry locked, and subscribeBasePVs goes on to connectPv.
GetValue(t) ==
  /\ pc[t] = "idle" /\ RegistryFree(t)
  /\ Goto(t, "setup")
  /\ gone' = FALSE
  /\ UNCHANGED <<item, ca, network, cbEvent, arg, taken>>

Drop == /\ channelId' = None /\ eventId' = None /\ connected' = FALSE

Setup(t) ==
  /\ pc[t] = "setup"
  /\ IF channelId # None /\ ~IsUp(channelId) /\ Unused # {} THEN Drop ELSE UNCHANGED item
  /\ Goto(t, "connect")
  /\ UNCHANGED <<ca, network, cbEvent, arg, taken, gone>>

Then(t) == IF t = Poll THEN "idle" ELSE "subscribe"

ConnectCheck(t) ==
  /\ pc[t] = "connect"
  /\ IF channelId = None THEN Goto(t, "create") /\ UNCHANGED item
     ELSE IF IsUp(channelId) \/ Unused = {} THEN Goto(t, Then(t)) /\ UNCHANGED item
     ELSE Goto(t, "create") /\ Drop
  /\ UNCHANGED <<ca, network, cbEvent, arg, taken, gone>>

Create(t) ==
  /\ pc[t] = "create"
  /\ IF Unused = {} THEN UNCHANGED <<chan, channelId>>  \* the bound
     ELSE LET c == CHOOSE x \in Unused : TRUE
          IN chan' = [chan EXCEPT ![c] = "down"] /\ channelId' = c
  /\ Goto(t, Then(t))
  /\ UNCHANGED <<eventId, connected, sub, network, cbEvent, arg, taken, gone>>

-----------------------------------------------------------------------------
(* subscribePv                                                             *)

\* Mutant: the poll thread does not repair the flag.
PollScanBlind ==
  /\ pc[Poll] = "idle"
  /\ \/ ~IsUp(channelId) /\ Goto(Poll, "connect")
     \/ IsUp(channelId) /\ connected /\ eventId = None /\ Goto(Poll, "check")
  /\ UNCHANGED <<item, ca, network, cbEvent, arg, taken, gone>>

\* The sweep of the poll thread: a flag that Channel Access contradicts is
\* repaired; a channel that is not connected is recreated, a connected one
\* subscribed, at most every two seconds.
PollScan ==
  /\ pc[Poll] = "idle"
  /\ \/ ~IsUp(channelId) /\ Goto(Poll, "connect") /\ UNCHANGED connected
     \/ IsUp(channelId) /\ ~connected /\ connected' = TRUE
        /\ Goto(Poll, IF eventId = None THEN "check" ELSE "idle")
     \/ IsUp(channelId) /\ connected /\ eventId = None /\ Goto(Poll, "check") /\ UNCHANGED connected
  /\ UNCHANGED <<channelId, eventId, ca, network, cbEvent, arg, taken, gone>>

\* A VI subscribes when the channel has connected, or times out.
AwaitChannel(t) ==
  /\ pc[t] = "subscribe"
  /\ \/ connected /\ eventId = None /\ Goto(t, "check")
     \/ Goto(t, "idle")
  /\ UNCHANGED <<item, ca, network, cbEvent, arg, taken, gone>>

SubscribeCheck(t) ==
  /\ pc[t] = "check"
  /\ Goto(t, IF eventId = None /\ IsUp(channelId) THEN "argument" ELSE "idle")
  /\ UNCHANGED <<item, ca, network, cbEvent, arg, taken, gone>>

\* ioMutex has been left: channelId is read again for the call.
SubscribeArgument(t) ==
  /\ pc[t] = "argument"
  /\ arg' = [arg EXCEPT ![t] = channelId]
  /\ Goto(t, "call")
  /\ UNCHANGED <<item, ca, network, cbEvent, taken, gone>>

Free == {e \in Events : sub[e] = None}

SubscribeCall(t) ==
  /\ pc[t] = "call"
  /\ IF arg[t] # None /\ Open(arg[t]) /\ Free # {}  \* the bound: no memory
     THEN \E e \in Free : sub' = [sub EXCEPT ![e] = arg[t]] /\ eventId' = e
     ELSE eventId' = None /\ UNCHANGED sub
  /\ arg' = [arg EXCEPT ![t] = None]
  /\ Goto(t, "idle")
  /\ UNCHANGED <<channelId, connected, chan, network, cbEvent, taken, gone>>

-----------------------------------------------------------------------------
(* disconnectPVs, and the reset in unreserved                              *)

\* Mutant: the item keeps the channel until it is cleared.
TakeCopy(t) ==
  /\ t \in Disconnectors /\ pc[t] = "idle" /\ Unused # {}  \* the bound
  /\ takenCh' = [takenCh EXCEPT ![t] = channelId]
  /\ takenEv' = [takenEv EXCEPT ![t] = eventId]
  /\ eventId' = None /\ connected' = FALSE
  /\ Goto(t, "clear subscription")
  /\ UNCHANGED <<channelId, ca, network, cbEvent, arg, gone>>

Take(t) ==
  /\ t \in Disconnectors /\ pc[t] = "idle" /\ Unused # {}  \* the bound
  /\ takenCh' = [takenCh EXCEPT ![t] = channelId]
  /\ takenEv' = [takenEv EXCEPT ![t] = eventId]
  /\ Drop
  /\ Goto(t, "clear subscription")
  /\ UNCHANGED <<ca, network, cbEvent, arg, gone>>

ClearSubscription(t) ==
  /\ pc[t] = "clear subscription"
  /\ sub' = IF takenEv[t] = None THEN sub ELSE [sub EXCEPT ![takenEv[t]] = "cleared"]
  /\ takenEv' = [takenEv EXCEPT ![t] = None]
  /\ Goto(t, "clear channel")
  /\ UNCHANGED <<item, chan, network, cbEvent, arg, takenCh, gone>>

ClearChannel(t) ==
  /\ pc[t] = "clear channel" /\ cbEvent = None
  /\ chan' = IF takenCh[t] = None THEN chan ELSE [chan EXCEPT ![takenCh[t]] = "closed"]
  /\ takenCh' = [takenCh EXCEPT ![t] = None]
  /\ gone' = \A u \in VIs \ {t} : pc[u] = "idle"
  /\ Goto(t, "idle")
  /\ UNCHANGED <<item, sub, network, cbEvent, arg, takenEv>>

-----------------------------------------------------------------------------
Step(t) == ConnectCheck(t) \/ Create(t) \/ SubscribeCheck(t) \/ SubscribeArgument(t) \/ SubscribeCall(t)

VIStep(t) == Setup(t) \/ AwaitChannel(t) \/ ClearSubscription(t) \/ ClearChannel(t)

Callback == (\E c \in Chans : ConnUp(c) \/ ConnDown(c)) \/ ConnDownClear

Next == \/ Server \/ Callback \/ PollScan
        \/ \E t \in Threads : Step(t)
        \/ \E t \in VIs : GetValue(t) \/ VIStep(t) \/ Take(t)

Spec == Init /\ [][Next]_vars

\* Threads go on, the poll thread sweeps, Channel Access calls back.
FairSpec == /\ Spec
            /\ \A t \in Threads : WF_vars(Step(t))
            /\ \A t \in VIs : WF_vars(VIStep(t)) /\ SF_vars(ClearChannel(t))
            /\ SF_vars(PollScan)
            /\ \A c \in Chans : WF_vars(ConnUp(c)) /\ WF_vars(ConnDown(c))
            /\ WF_vars(ConnDownClear)

-----------------------------------------------------------------------------
\* Type invariant.
TypeOK ==
  /\ channelId \in Chans \cup {None} /\ eventId \in Events \cup {None}
  /\ connected \in BOOLEAN
  /\ chan \in [Chans -> {"unused", "down", "up", "lost", "closed"}]
  /\ sub \in [Events -> Chans \cup {None, "cleared"}]
  /\ server \in BOOLEAN /\ outages \in 0 .. MaxOutages
  /\ cbEvent \in Events \cup {None}
  /\ pc \in [Threads -> {"idle", "setup", "connect", "create", "subscribe", "check", "argument",
                         "call", "clear subscription", "clear channel"}]
  /\ arg \in [Threads -> Chans \cup {None}]
  /\ takenCh \in [VIs -> Chans \cup {None}] /\ takenEv \in [VIs -> Events \cup {None}]
  /\ gone \in BOOLEAN

\* A channel is cleared once, and never while the item still names it: the
\* item's channel and those that threads have taken are open and distinct.
ChannelClearedOnce ==
  /\ channelId # None => Open(channelId)
  /\ \A t \in VIs : takenCh[t] # None =>
       /\ Open(takenCh[t]) /\ takenCh[t] # channelId
       /\ \A u \in VIs \ {t} : takenCh[u] # takenCh[t]

\* Once the server stays up the flag isConnected says so in the end, although
\* a channel that the item no longer names can be the last one to tell
\* connectionChanged, and tells that it is down.
FlagSettles == <>[](server => connected)

Monitored == \E e \in Events : Live(e) /\ chan[sub[e]] = "up"

\* eventId names a subscription of a channel that is closed: subscribePv left
\* ioMutex between its tests and ca_create_subscription, and a disconnectPVs came.
StaleSubscription ==
  eventId # None /\ sub[eventId] \in Chans /\ chan[sub[eventId]] = "closed"

\* changelog.txt:641 "Fixes lost values of reconnected channels": once the
\* server stays up, the PV is subscribed on a connected channel, unless a stale
\* subscription keeps it from that (or the bound on handles is reached).
Resubscribed == <>[](server => Monitored \/ StaleSubscription \/ Free = {})

-----------------------------------------------------------------------------
(* Expectations that the code does not meet: see the README, Deviations.   *)

\* calab.cpp:3198 connectPv: "Channel exists but is not connected - clear it
\* and recreate": no open channel is left that nothing names.
NoChannelLeft ==
  \A c \in Chans : Open(c) => c = channelId \/ \E t \in VIs : takenCh[t] = c

\* calab.h:517 subscribePv creates "a" subscription: never two that nobody
\* is about to clear.
OneSubscription ==
  Cardinality({e \in Events : Live(e) /\ e # cbEvent /\ \A t \in VIs : takenEv[t] # e}) <= 1

\* changelog.txt:462 "Now you can disconnect several or all EPICS variables
\* from network without closing all CaLab-VIs".
StaysDisconnected == gone => channelId = None
=============================================================================
