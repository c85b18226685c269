--------------------------- MODULE PvChannelProofs ---------------------------
(***************************************************************************)
(* Theorems about PvChannel: the handles of the channels are cleared once, *)
(* whatever VIs, poll thread, callbacks and server do.                     *)
(***************************************************************************)
EXTENDS PvChannel, TLAPS

HandleType ==
  /\ channelId \in Chans \cup {None}
  /\ chan \in [Chans -> {"unused", "down", "up", "lost", "closed"}]
  /\ takenCh \in [VIs -> Chans \cup {None}]

HandleInv == HandleType /\ ChannelClearedOnce

\* Channel Access, and the reads of the others, change no handle: an open channel
\* stays open.
LEMMA SameHandles ==
  ASSUME HandleInv, UNCHANGED takenCh, channelId' \in {channelId, None},
         chan' \in [Chans -> {"unused", "down", "up", "lost", "closed"}],
         \A c \in Chans : Open(c) => Open(c)'
  PROVE  HandleInv'
BY PvChannelAssumption DEF HandleInv, HandleType, ChannelClearedOnce

\* connectPv makes an unused channel the item's: no thread has taken it.
LEMMA CreateKeeps ==
  ASSUME HandleInv, NEW t \in Threads, Create(t)
  PROVE  HandleInv'
<1>1. CASE Unused = {}
  <2>1. UNCHANGED <<chan, channelId, takenCh>>
    BY <1>1 DEF Create, taken
  <2> QED
    BY <2>1, SameHandles DEF HandleInv, HandleType, Open
<1>2. CASE Unused # {}
  <2>1. PICK c \in Unused : /\ chan' = [chan EXCEPT ![c] = "down"] /\ channelId' = c
                            /\ takenCh' = takenCh
    BY <1>2 DEF Create, taken
  <2>2. c \in Chans /\ ~Open(c)
    BY DEF Unused, Open
  <2>3. chan'[c] = "down" /\ \A d \in Chans \ {c} : chan'[d] = chan[d]
    BY <2>1, <2>2 DEF HandleInv, HandleType
  <2>4. HandleType'
    BY <2>1, <2>2 DEF HandleInv, HandleType
  <2>5. Open(c)' /\ \A d \in Chans : Open(d) => Open(d)' /\ d # c
    BY <2>2, <2>3 DEF Open
  <2> QED
    BY <2>1, <2>2, <2>4, <2>5 DEF HandleInv, HandleType, ChannelClearedOnce
<1> QED
  BY <1>1, <1>2

\* disconnectPVs hands the item's channel over to one thread.
LEMMA TakeKeeps ==
  ASSUME HandleInv, NEW t \in VIs, Take(t)
  PROVE  HandleInv'
<1>1. /\ takenCh' = [takenCh EXCEPT ![t] = channelId] /\ channelId' = None /\ chan' = chan
  BY DEF Take, Drop, ca
<1>2. takenCh'[t] = channelId /\ \A u \in VIs \ {t} : takenCh'[u] = takenCh[u]
  BY <1>1 DEF HandleInv, HandleType
<1>3. HandleType'
  BY <1>1 DEF HandleInv, HandleType
<1>4. \A c \in Chans : Open(c)' <=> Open(c)
  BY <1>1 DEF Open
<1> QED
  BY <1>1, <1>2, <1>3, <1>4, PvChannelAssumption DEF HandleInv, HandleType, ChannelClearedOnce

\* What is cleared is named by the item and by the other threads no more.
LEMMA ClearKeeps ==
  ASSUME HandleInv, NEW t \in VIs, ClearChannel(t)
  PROVE  HandleInv'
<1>1. /\ takenCh' = [takenCh EXCEPT ![t] = None] /\ channelId' = channelId
      /\ chan' = IF takenCh[t] = None THEN chan ELSE [chan EXCEPT ![takenCh[t]] = "closed"]
  BY DEF ClearChannel, item
<1>2. takenCh'[t] = None /\ \A u \in VIs \ {t} : takenCh'[u] = takenCh[u]
  BY <1>1 DEF HandleInv, HandleType
<1>3. HandleType'
  BY <1>1 DEF HandleInv, HandleType
<1>4. \A c \in Chans : c # takenCh[t] /\ Open(c) => Open(c)'
  BY <1>1 DEF Open, HandleInv, HandleType
<1> QED
  BY <1>1, <1>2, <1>3, <1>4 DEF HandleInv, HandleType, ChannelClearedOnce

\* The handles are right in every reachable state.
THEOREM HandlesRight == Spec => []HandleInv
<1>1. Init => HandleInv
  BY DEF Init, HandleInv, HandleType, ChannelClearedOnce
<1>2. HandleInv /\ [Next]_vars => HandleInv'
  <2> SUFFICES ASSUME HandleInv, [Next]_vars PROVE HandleInv'
    OBVIOUS
  <2> USE DEF HandleInv, HandleType, Open, item, ca, taken
  <2>1. CASE Server
    <3>1. /\ chan' = [c \in Chans |-> IF chan[c] = "up" THEN "lost" ELSE chan[c]]
          /\ UNCHANGED <<channelId, takenCh>>
      BY <2>1 DEF Server
    <3> QED
      BY <3>1, SameHandles
  <2>2. ASSUME NEW c \in Chans, ConnUp(c) \/ ConnDown(c) PROVE HandleInv'
    <3>1. /\ chan[c] \in {"down", "lost"} /\ UNCHANGED <<channelId, takenCh>>
          /\ chan' = [chan EXCEPT ![c] = "up"] \/ chan' = [chan EXCEPT ![c] = "down"]
      BY <2>2 DEF ConnUp, ConnDown
    <3> QED
      BY <3>1, SameHandles
  <2>3. CASE ConnDownClear \/ PollScan \/ UNCHANGED vars
    <3>1. UNCHANGED <<channelId, chan, takenCh>>
      BY <2>3 DEF ConnDownClear, PollScan, vars
    <3> QED
      BY <3>1, SameHandles
  <2>4. ASSUME NEW t \in Threads, Step(t), ~Create(t) PROVE HandleInv'
    <3>1. UNCHANGED <<chan, takenCh>> /\ channelId' \in {channelId, None}
      BY <2>4 DEF Step, ConnectCheck, SubscribeCheck, SubscribeArgument, SubscribeCall, Drop
    <3> QED
      BY <3>1, SameHandles
  <2>5. ASSUME NEW t \in VIs, GetValue(t) \/ Setup(t) \/ AwaitChannel(t) \/ ClearSubscription(t)
        PROVE  HandleInv'
    <3>1. UNCHANGED <<chan, takenCh>> /\ channelId' \in {channelId, None}
      BY <2>5 DEF GetValue, Setup, AwaitChannel, ClearSubscription, Drop
    <3> QED
      BY <3>1, SameHandles
  <2> QED
    BY <2>1, <2>2, <2>3, <2>4, <2>5, CreateKeeps, TakeKeeps, ClearKeeps
    DEF Next, Callback, Step, VIStep
<1> QED
  BY <1>1, <1>2, PTL DEF Spec

\* A channel is cleared once, and never while the PVItem or another thread names it,
\* for any number of VIs, handles and outages.
THEOREM ClearedOnce == Spec => []ChannelClearedOnce
<1>1. HandleInv => ChannelClearedOnce
  BY DEF HandleInv
<1> QED
  BY <1>1, HandlesRight, PTL
=============================================================================
