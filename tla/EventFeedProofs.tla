--------------------------- MODULE EventFeedProofs ---------------------------
(***************************************************************************)
(* The handlers on the bus are those of the subscriptions of connections   *)
(* that are not closed, and what a subscriber and the AlertStore have seen *)
(* is what was published, for any clients, channels and alerts.            *)
(***************************************************************************)
EXTENDS EventFeed, TLAPS

HandlerTypes ==
    /\ sock \in [Clients -> Connected \union {"new", "refused", "closed"}]
    /\ clients \subseteq Clients
    /\ subs \in [Clients -> SUBSET Channels] /\ unsubs \in [Clients -> SUBSET Channels]
    /\ handlers \in [Clients -> [Channels -> {0, 1}]]

(* A channel has a handler only while its subscription can be undone, both *)
(* ways as long as the heartbeat has not given the client up.              *)
Undoable ==
    /\ unsubs = subs
    /\ \A c \in Clients, ch \in Channels :
          /\ handlers[c][ch] = 1 => ch \in subs[c]
          /\ c \in clients /\ ch \in subs[c] => handlers[c][ch] = 1

Connections ==
    \A c \in Clients :
        /\ c \in clients => sock[c] \in Connected
        /\ sock[c] \in {"new", "refused"} => subs[c] = {} /\ unsubs[c] = {}
        /\ sock[c] = "closed" => \A ch \in Channels : handlers[c][ch] = 0

HInv == HandlerTypes /\ Undoable /\ Connections

(* Taking off what is registered leaves nothing of those channels.         *)
LEMMA UnsubscribedType ==
    ASSUME HandlerTypes, NEW c \in Clients, NEW chs
    PROVE  /\ unsubscribed(c, chs) \in [Channels -> {0, 1}]
           /\ \A ch \in Channels :
                unsubscribed(c, chs)[ch] = IF ch \in chs \cap unsubs[c] THEN 0 ELSE handlers[c][ch]
<1>1. \A ch \in Channels : handlers[c][ch] \in {0, 1}
  BY DEF HandlerTypes
<1> QED
  BY <1>1 DEF unsubscribed, off

(* Every step keeps the handlers owned.                                    *)
LEMMA HInvStep == HInv /\ [Next]_vars => HInv'
<1> SUFFICES ASSUME HInv, [Next]_vars PROVE HInv'
  OBVIOUS
<1>1. ASSUME NEW c \in Clients, Connect(c) PROVE HInv'
  <2>1. UNCHANGED <<subs, unsubs, handlers>> /\ clients' \subseteq clients \union {c}
    BY <1>1 DEF Connect, states
  <2>2. subs[c] = {} /\ unsubs[c] = {}
    BY <1>1 DEF Connect, HInv, Connections
  <2>3. HandlerTypes'
    BY <1>1, <2>1 DEF Connect, HInv, HandlerTypes, Connected
  <2>4. Undoable'
    BY <2>1, <2>2 DEF HInv, Undoable
  <2>5. Connections'
    BY <1>1, <2>1, <2>2 DEF Connect, HInv, HandlerTypes, Connections, Connected
  <2> QED
    BY <2>3, <2>4, <2>5 DEF HInv
<1>2. ASSUME NEW c \in Clients, NEW chs \in SUBSET Channels, Subscribe(c, chs) PROVE HInv'
  <2>0. /\ c \in Clients /\ UNCHANGED <<sock, clients>> /\ sock[c] \in Connected
        /\ subs' = [subs EXCEPT ![c] = @ \union chs]
        /\ unsubs' = [unsubs EXCEPT ![c] = @ \union (chs \ subs[c])]
        /\ handlers' = [handlers EXCEPT ![c] = [ch \in Channels |->
                            IF ch \in chs \ subs[c] THEN @[ch] + 1 ELSE @[ch]]]
    <3>1. subs[c] \union (chs \ subs[c]) = subs[c] \union chs
      OBVIOUS
    <3> QED
      BY <1>2, <3>1 DEF Subscribe, fresh
  <2>1. \A ch \in Channels : handlers'[c][ch] =
            IF ch \in chs \ subs[c] THEN 1 ELSE handlers[c][ch]
    <3>1. \A ch \in Channels : handlers[c][ch] \in {0, 1} /\ (ch \notin subs[c] => handlers[c][ch] = 0)
      BY DEF HInv, HandlerTypes, Undoable
    <3> QED
      BY <2>0, <3>1 DEF HInv, HandlerTypes
  <2>2. HandlerTypes'
    <3>1. subs' \in [Clients -> SUBSET Channels] /\ unsubs' \in [Clients -> SUBSET Channels]
      BY <2>0 DEF HInv, HandlerTypes
    <3>2. handlers' \in [Clients -> [Channels -> {0, 1}]]
      <4>1. [ch \in Channels |-> IF ch \in chs \ subs[c] THEN handlers[c][ch] + 1
                                 ELSE handlers[c][ch]] \in [Channels -> {0, 1}]
        BY DEF HInv, HandlerTypes, Undoable
      <4> QED
        BY <2>0, <4>1 DEF HInv, HandlerTypes
    <3> QED
      BY <2>0, <3>1, <3>2 DEF HInv, HandlerTypes
  <2>3. Undoable'
    <3>1. unsubs' = subs'
      <4>1. subs[c] \union (chs \ subs[c]) = subs[c] \union chs
        OBVIOUS
      <4> QED
        BY <2>0, <4>1 DEF HInv, Undoable
    <3>2. \A d \in Clients, ch \in Channels :
            /\ handlers'[d][ch] = 1 => ch \in subs'[d]
            /\ d \in clients' /\ ch \in subs'[d] => handlers'[d][ch] = 1
      BY <2>0, <2>1 DEF HInv, HandlerTypes, Undoable
    <3> QED
      BY <3>1, <3>2 DEF Undoable
  <2>4. Connections'
    BY <2>0 DEF HInv, HandlerTypes, Connections, Connected
  <2> QED
    BY <2>2, <2>3, <2>4 DEF HInv
<1>3. ASSUME NEW c \in Clients, NEW chs \in SUBSET Channels, Unsubscribe(c, chs) PROVE HInv'
  <2>0. HandlerTypes BY DEF HInv
  <2>1. HandlerTypes'
    BY <1>3, <2>0, UnsubscribedType DEF Unsubscribe, HandlerTypes
  <2>2. Undoable'
    BY <1>3, <2>0, UnsubscribedType DEF Unsubscribe, HInv, HandlerTypes, Undoable
  <2>3. Connections'
    BY <1>3, <2>0, UnsubscribedType DEF Unsubscribe, HInv, HandlerTypes, Connections, Connected
  <2> QED
    BY <2>1, <2>2, <2>3 DEF HInv
<1>4. ASSUME NEW c \in Clients, Close(c) PROVE HInv'
  <2>0. HandlerTypes BY DEF HInv
  <2>1. HandlerTypes'
    BY <1>4, <2>0, UnsubscribedType DEF Close, leftover, HandlerTypes
  <2>2. Undoable'
    BY <1>4, <2>0, UnsubscribedType DEF Close, leftover, HInv, HandlerTypes, Undoable
  <2>3. Connections'
    <3>1. \A ch \in Channels : handlers'[c][ch] = 0
      BY <1>4, <2>0, UnsubscribedType DEF Close, leftover, HInv, HandlerTypes, Undoable
    <3> QED
      BY <1>4, <3>1 DEF Close, HInv, HandlerTypes, Connections, Connected
  <2> QED
    BY <2>1, <2>2, <2>3 DEF HInv
<1>5. CASE Heartbeat
  <2>0. HandlerTypes BY DEF HInv
  <2>1. \A c \in Clients : handlers'[c] =
            IF c \in silent THEN unsubscribed(c, unsubs[c]) ELSE handlers[c]
    BY <1>5 DEF Heartbeat
  <2>2. \A c \in silent : c \in Clients /\ \A ch \in Channels : handlers'[c][ch] = 0
    BY <2>0, <2>1, UnsubscribedType DEF silent, HInv, HandlerTypes, Undoable
  <2>3. HandlerTypes'
    BY <1>5, <2>0, UnsubscribedType DEF Heartbeat, sockAfterBeat, HandlerTypes, Connected
  <2>4. Undoable'
    <3>1. \A c \in Clients : c \notin silent => handlers'[c] = handlers[c]
      BY <2>1
    <3>2. UNCHANGED <<subs, unsubs>> /\ clients' = clients \ silent
      BY <1>5 DEF Heartbeat
    <3> QED
      BY <2>2, <3>1, <3>2 DEF HInv, Undoable
  <2>5. Connections'
    <3>1. \A c \in Clients : sock'[c] = IF c \in silent THEN "closing" ELSE sock[c]
      BY <1>5 DEF Heartbeat, sockAfterBeat
    <3> QED
      BY <1>5, <2>0, <2>1, <3>1 DEF Heartbeat, HInv, Connections, Connected
  <2> QED
    BY <2>3, <2>4, <2>5 DEF HInv
<1>6. ASSUME NEW c \in Clients, Pong(c) \/ FallSilent(c) PROVE HInv'
  BY <1>6 DEF Pong, FallSilent, HInv, HandlerTypes, Undoable, Connections, states
<1>7. ASSUME NEW c \in Clients, Leave(c) PROVE HInv'
  BY <1>7 DEF Leave, HInv, HandlerTypes, Undoable, Connections, Connected, states
<1>8. CASE Route \/ Shutdown \/ Exit \/ UNCHANGED vars
  BY <1>8 DEF Route, Shutdown, Exit, vars, HInv, HandlerTypes, Undoable, Connections, states
<1> QED
  BY <1>1, <1>2, <1>3, <1>4, <1>5, <1>6, <1>7, <1>8 DEF Next

(* No handler outlives its connection (server.ts:180-187, 201-213).        *)
THEOREM HandlersAreOwned == Spec => []HandlersOwned
<1>1. Init => HInv
  BY DEF Init, HInv, HandlerTypes, Undoable, Connections, Connected
<1>2. HInv => HandlersOwned
  <2> SUFFICES ASSUME HInv, NEW c \in Clients, NEW ch \in Channels
               PROVE  /\ handlers[c][ch] <= 1
                      /\ handlers[c][ch] > 0 => ch \in unsubs[c] /\ sock[c] \in Connected
                      /\ c \in clients => (handlers[c][ch] > 0 <=> ch \in subs[c])
    BY DEF HandlersOwned
  <2>1. handlers[c][ch] \in {0, 1}
    BY DEF HInv, HandlerTypes
  <2> QED
    BY <2>1 DEF HInv, HandlerTypes, Undoable, Connections, Connected
<1> QED
  BY <1>1, <1>2, HInvStep, PTL DEF Spec

-----------------------------------------------------------------------------
(* The AlertStore has the last alerts, as many as it holds.                *)
StoreShape ==
    /\ nextId \in Nat \ {0} /\ buffer \in Seq(Nat)
    /\ Len(buffer) = IF nextId - 1 < MaxSize THEN nextId - 1 ELSE MaxSize
    /\ \A j \in 1..Len(buffer) : buffer[j] = nextId - 1 - Len(buffer) + j

Receipts == got \in [Clients -> Seq(Nat)] /\ since \in [Clients -> Nat \ {0}]

(* What a client that is subscribed has received since.                    *)
ReceivedAll(c) ==
    /\ since[c] <= nextId
    /\ Len(got[c]) = nextId - since[c]
    /\ \A i \in 1..Len(got[c]) : got[c][i] = since[c] + i - 1

Listening(c) == c \in clients /\ sock[c] = "open" /\ Alerts \in subs[c]

AInv ==
    /\ HInv /\ StoreShape /\ Receipts
    /\ \A c \in Clients : Listening(c) => ReceivedAll(c)

(* push() drops the oldest alert once the store is full (alertStore.ts).   *)
LEMMA PushKeepsTheLast ==
    ASSUME StoreShape, buffer' = pushed, nextId' = nextId + 1
    PROVE  StoreShape'
<1> DEFINE n == Len(buffer)
           longer == Append(buffer, nextId)
<1>1. n \in Nat /\ nextId \in Nat \ {0} /\ MaxSize \in Nat \ {0}
  BY FeedAssumption DEF StoreShape
<1>2. /\ longer \in Seq(Nat) /\ Len(longer) = n + 1
      /\ \A j \in 1..n + 1 : longer[j] = nextId - n - 1 + j
  BY <1>1 DEF StoreShape
<1>3. CASE n < MaxSize
  <2>1. n = nextId - 1
    BY <1>1, <1>3 DEF StoreShape
  <2>2. buffer' = longer
    BY <1>3 DEF pushed
  <2>3. nextId' = nextId + 1 /\ nextId' \in Nat \ {0} /\ buffer' \in Seq(Nat) /\ Len(buffer') = n + 1
    BY <1>1, <1>2, <2>2
  <2> HIDE DEF n, longer
  <2>4. Len(buffer') = IF nextId' - 1 < MaxSize THEN nextId' - 1 ELSE MaxSize
    BY <1>1, <1>3, <2>1, <2>3
  <2>5. \A j \in 1..Len(buffer') : buffer'[j] = nextId' - 1 - Len(buffer') + j
    BY <1>1, <1>2, <2>2, <2>3
  <2> QED
    BY <2>3, <2>4, <2>5 DEF StoreShape
<1>4. CASE ~(n < MaxSize)
  <2>1. n = MaxSize /\ nextId - 1 >= MaxSize
    BY <1>1, <1>4 DEF StoreShape
  <2>2. buffer' = Tail(longer)
    BY <1>4 DEF pushed
  <2>3. /\ buffer' \in Seq(Nat) /\ Len(buffer') = n
        /\ \A j \in 1..n : buffer'[j] = longer[j + 1]
    BY <1>1, <1>2, <2>2
  <2> HIDE DEF n, longer
  <2>4. Len(buffer') = IF nextId' - 1 < MaxSize THEN nextId' - 1 ELSE MaxSize
    BY <1>1, <2>1, <2>3
  <2>5. \A j \in 1..Len(buffer') : buffer'[j] = nextId' - 1 - Len(buffer') + j
    BY <1>1, <1>2, <2>3
  <2>6. nextId' \in Nat \ {0}
    BY <1>1
  <2> QED
    BY <2>3, <2>4, <2>5, <2>6 DEF StoreShape
<1> QED
  BY <1>3, <1>4

(* One handler of an open socket sends an alert once.                      *)
LEMMA RouteDelivers == AInv /\ Route => AInv'
<1> SUFFICES ASSUME AInv, Route PROVE AInv'
  OBVIOUS
<1>1. HInv'
  BY HInvStep DEF AInv, Next
<1>2. UNCHANGED <<sock, clients, subs, since>> /\ buffer' = pushed /\ nextId' = nextId + 1
  BY DEF Route
<1>3. StoreShape' /\ nextId \in Nat
  BY <1>2, PushKeepsTheLast DEF AInv, StoreShape
<1>4. \A c \in Clients : got'[c] = got[c] \o sentTo(c) /\ sentTo(c) \in Seq(Nat)
  <2>1. \A c \in Clients : handlers[c][Alerts] \in {0, 1}
    BY FeedAssumption DEF AInv, HInv, HandlerTypes
  <2> QED
    BY <1>3, <2>1 DEF Route, sentTo
<1>5. Receipts'
  <2>1. \A c \in Clients : got[c] \in Seq(Nat)
    BY DEF AInv, Receipts
  <2>2. ASSUME NEW c \in Clients PROVE got'[c] \in Seq(Nat)
    <3> DEFINE sent == sentTo(c)
               had == got[c]
    <3>1. sent \in Seq(Nat) /\ had \in Seq(Nat) /\ got'[c] = had \o sent
      BY <1>4, <2>1
    <3> HIDE DEF sent, had
    <3> QED
      BY <3>1
  <2>3. got' = [c \in Clients |-> got'[c]]
    BY DEF Route
  <2> QED
    BY <1>2, <2>2, <2>3 DEF AInv, Receipts
<1>6. ASSUME NEW c \in Clients, Listening(c)' PROVE ReceivedAll(c)'
  <2>1. Listening(c) /\ ReceivedAll(c)
    BY <1>2, <1>6 DEF Listening, AInv
  <2>2. handlers[c][Alerts] = 1
    BY <2>1, FeedAssumption DEF Listening, AInv, HInv, Undoable
  <2>3. sentTo(c) = << nextId >>
    BY <2>1, <2>2 DEF sentTo, Listening
  <2>4. got'[c] = got[c] \o << nextId >>
    BY <1>4, <2>3
  <2>5. got[c] \in Seq(Nat) /\ since[c] \in Nat \ {0}
    BY DEF AInv, Receipts
  <2>6. Len(got'[c]) = Len(got[c]) + 1 /\ \A i \in 1..Len(got'[c]) :
            got'[c][i] = IF i = Len(got'[c]) THEN nextId ELSE got[c][i]
    BY <1>3, <2>4, <2>5
  <2>7. since[c] <= nextId /\ Len(got[c]) = nextId - since[c] /\ Len(got[c]) \in Nat
    BY <2>1, <2>5 DEF ReceivedAll
  <2>8. \A i \in 1..Len(got'[c]) : got'[c][i] = since[c] + i - 1
    BY <1>3, <2>1, <2>5, <2>6, <2>7 DEF ReceivedAll
  <2>9. since'[c] <= nextId' /\ Len(got'[c]) = nextId' - since'[c]
    BY <1>2, <1>3, <2>5, <2>6, <2>7
  <2> QED
    BY <1>2, <2>8, <2>9 DEF ReceivedAll
<1> QED
  BY <1>1, <1>3, <1>5, <1>6 DEF AInv

(* A client begins to listen with nothing received, from the next alert;   *)
(* all other steps send nothing, and let nobody else listen.               *)
LEMMA AInvStep == AInv /\ [Next]_vars => AInv'
<1> SUFFICES ASSUME AInv, [Next]_vars PROVE AInv'
  OBVIOUS
<1>1. HInv'
  BY HInvStep DEF AInv
<1>2. ASSUME UNCHANGED <<buffer, nextId, got, since>>,
             \A c \in Clients : Listening(c)' => Listening(c)
      PROVE  AInv'
  BY <1>1, <1>2 DEF AInv, StoreShape, Receipts, ReceivedAll
<1>3. ASSUME NEW c \in Clients, Connect(c) PROVE AInv'
  <2>1. \A d \in Clients : d # c => (Listening(d)' => Listening(d))
    BY <1>3 DEF Connect, states, Listening, AInv, HInv, HandlerTypes
  <2>2. subs[c] = {} /\ subs' = subs
    BY <1>3 DEF Connect, states, AInv, HInv, Connections
  <2>3. ~Listening(c)'
    BY <2>2 DEF Listening
  <2> QED
    BY <1>2, <1>3, <2>1, <2>3 DEF Connect, states, store
<1>4. ASSUME NEW c \in Clients, NEW chs \in SUBSET Channels, Subscribe(c, chs) PROVE AInv'
  <2>1. UNCHANGED <<sock, clients, buffer, nextId>> /\ subs' = [subs EXCEPT ![c] = @ \union fresh(c, chs)]
    BY <1>4 DEF Subscribe, store
  <2>2. \A d \in Clients : d # c => subs'[d] = subs[d]
    BY <2>1 DEF AInv, HInv, HandlerTypes
  <2>3. subs'[c] = subs[c] \union (chs \ subs[c])
    BY <2>1 DEF AInv, HInv, HandlerTypes, fresh
  <2>4. CASE Alerts \in chs \ subs[c]
    <3>1. got' = [got EXCEPT ![c] = << >>] /\ since' = [since EXCEPT ![c] = nextId]
      BY <1>4, <2>4 DEF Subscribe
    <3>2. Receipts' /\ StoreShape' /\ nextId \in Nat
      <4>1. nextId \in Nat \ {0} /\ << >> \in Seq(Nat)
        BY DEF AInv, StoreShape
      <4>2. Receipts'
        BY <3>1, <4>1 DEF AInv, Receipts
      <4>3. StoreShape'
        BY <2>1 DEF AInv, StoreShape
      <4> QED
        BY <4>1, <4>2, <4>3
    <3>3. ASSUME NEW d \in Clients, d # c, Listening(d)' PROVE ReceivedAll(d)'
      <4>1. got'[d] = got[d] /\ since'[d] = since[d] /\ Listening(d)
        BY <2>1, <2>2, <3>1, <3>3 DEF AInv, Receipts, Listening
      <4>2. ReceivedAll(d)
        BY <4>1 DEF AInv
      <4> QED
        BY <2>1, <4>1, <4>2 DEF ReceivedAll
    <3>4. ReceivedAll(c)'
      <4>1. got'[c] = << >> /\ since'[c] = nextId
        BY <3>1 DEF AInv, Receipts
      <4> QED
        BY <2>1, <3>2, <4>1 DEF ReceivedAll
    <3> QED
      BY <1>1, <3>2, <3>3, <3>4 DEF AInv
  <2>5. CASE Alerts \notin chs \ subs[c]
    <3>1. UNCHANGED <<got, since>>
      BY <1>4, <2>5 DEF Subscribe
    <3> QED
      BY <1>2, <2>1, <2>2, <2>3, <2>5, <3>1 DEF Listening
  <2> QED
    BY <2>4, <2>5
<1>5. ASSUME NEW c \in Clients, NEW chs \in SUBSET Channels, Unsubscribe(c, chs) PROVE AInv'
  BY <1>2, <1>5 DEF Unsubscribe, store, Listening, AInv, HInv, HandlerTypes
<1>6. ASSUME NEW c \in Clients, Close(c) \/ Leave(c) PROVE AInv'
  BY <1>2, <1>6 DEF Close, Leave, states, store, Listening, AInv, HInv, HandlerTypes
<1>7. CASE Heartbeat
  BY <1>2, <1>7 DEF Heartbeat, sockAfterBeat, store, Listening
<1>8. ASSUME NEW c \in Clients, Pong(c) \/ FallSilent(c) PROVE AInv'
  BY <1>2, <1>8 DEF Pong, FallSilent, states, store, Listening
<1>9. CASE Shutdown \/ Exit \/ UNCHANGED vars
  BY <1>2, <1>9 DEF Shutdown, Exit, vars, states, store, Listening
<1>10. CASE Route
  BY <1>10, RouteDelivers
<1> QED
  BY <1>3, <1>4, <1>5, <1>6, <1>7, <1>8, <1>9, <1>10 DEF Next

(* A subscribed client has received every alert since it subscribed, once  *)
(* and in order, and the AlertStore has the last of them (alertStore.ts,   *)
(* server.ts:100-140): for any number of clients, channels and alerts.     *)
THEOREM AlertsArriveOnce == Spec => []EachAlertOnce
<1>1. Init => AInv
  <2> SUFFICES ASSUME Init PROVE AInv
    OBVIOUS
  <2>1. HInv
    BY DEF Init, HInv, HandlerTypes, Undoable, Connections, Connected
  <2>2. StoreShape
    BY FeedAssumption DEF Init, StoreShape
  <2>3. Receipts /\ \A c \in Clients : ~Listening(c)
    BY DEF Init, Receipts, Listening
  <2> QED
    BY <2>1, <2>2, <2>3 DEF AInv
<1>2. AInv => EachAlertOnce
  <2> SUFFICES ASSUME AInv, NEW c \in clients, sock[c] = "open", Alerts \in subs[c]
               PROVE  /\ got[c] = [i \in 1..(nextId - since[c]) |-> since[c] + i - 1]
                      /\ \A i \in 0..MaxSize-1 : i < Len(got[c]) =>
                             i < Len(buffer) /\ buffer[Len(buffer) - i] = got[c][Len(got[c]) - i]
    BY DEF EachAlertOnce
  <2>1. c \in Clients /\ ReceivedAll(c) /\ got[c] \in Seq(Nat) /\ since[c] \in Nat \ {0}
    BY DEF AInv, HInv, HandlerTypes, Listening, Receipts
  <2>2. got[c] = [i \in 1..(nextId - since[c]) |-> since[c] + i - 1]
    <3>1. got[c] = [i \in 1..Len(got[c]) |-> got[c][i]]
      BY <2>1
    <3> QED
      BY <2>1, <3>1 DEF ReceivedAll
  <2>3. ASSUME NEW i \in 0..MaxSize-1, i < Len(got[c])
        PROVE  i < Len(buffer) /\ buffer[Len(buffer) - i] = got[c][Len(got[c]) - i]
    <3> DEFINE b == Len(buffer)
               g == Len(got[c])
               s == since[c]
    <3>1. /\ b \in Nat /\ nextId \in Nat \ {0} /\ MaxSize \in Nat \ {0}
          /\ b = IF nextId - 1 < MaxSize THEN nextId - 1 ELSE MaxSize
          /\ \A j \in 1..b : buffer[j] = nextId - 1 - b + j
      BY FeedAssumption DEF AInv, StoreShape
    <3>2. /\ g \in Nat /\ s \in Nat \ {0} /\ s <= nextId /\ g = nextId - s
          /\ \A j \in 1..g : got[c][j] = s + j - 1
      BY <2>1 DEF ReceivedAll
    <3>3. i \in Nat /\ i < g /\ i < MaxSize
      BY <2>3, <3>1
    <3> HIDE DEF b, g, s
    <3>4. i < b /\ b - i \in 1..b /\ g - i \in 1..g
      BY <3>1, <3>2, <3>3
    <3>5. buffer[b - i] = nextId - 1 - b + (b - i) /\ got[c][g - i] = s + (g - i) - 1
      BY <3>1, <3>2, <3>4
    <3>6. buffer[b - i] = got[c][g - i]
      BY <3>1, <3>2, <3>3, <3>5
    <3> QED
      BY <3>4, <3>6 DEF b, g
  <2> QED
    BY <2>2, <2>3
<1> QED
  BY <1>1, <1>2, AInvStep, PTL DEF Spec
===============================================================================
