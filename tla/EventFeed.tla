------------------------------ MODULE EventFeed ------------------------------
(***************************************************************************)
(* Alerts on their way to the dashboards: NotificationRouter.route() puts  *)
(* each into the AlertStore and on the EventBus, and the WebSocket server  *)
(* sends it to the clients that have subscribed.  Sockets close, are ended *)
(* by the heartbeat, and still deliver messages they had received before;  *)
(* the shutdown waits until all of them are closed.                        *)
(*                                                                         *)
(* The delivery to the console, Telegram and Discord changes no state here *)
(* and is left out.                                                        *)
(***************************************************************************)
EXTENDS Integers, Sequences

CONSTANTS
    Clients,    \* one connection each
    Channels,   \* channels of the bus
    Alerts,     \* the one of them that alerts go to
    MaxSize,    \* of the AlertStore
    MaxAlerts   \* bound: alerts in a behaviour

ASSUME FeedAssumption ==
    /\ Alerts \in Channels
    /\ MaxSize \in Nat \ {0} /\ MaxAlerts \in Nat

VARIABLES
    sock,       \* [Clients -> state of the connection]
    clients,    \* the `clients' map, without the states below
    alive,      \* clients with state.alive
    subs,       \* state.subscriptions
    unsubs,     \* the channels in state.unsubscribers
    handlers,   \* [Clients -> [Channels -> handlers registered on the bus]]
    pinged,     \* clients that have a ping to answer
    mute,       \* clients that answer no longer
    buffer,     \* the AlertStore's
    nextId,
    got,        \* [Clients -> alerts received since the last subscription]
    since,      \* [Clients -> the first alert of that subscription]
    stopping, exited

states == <<subs, unsubs, handlers, got, since>>
peers == <<pinged, mute>>
store == <<buffer, nextId>>
process == <<stopping, exited>>
vars == <<sock, clients, alive, states, peers, store, process>>

Connected == {"open", "closing"}

(* EventEmitter.off() of a handler that is not registered does nothing.    *)
off(n) == IF n > 0 THEN n - 1 ELSE 0

unsubscribed(c, chs) == [ch \in Channels |->
    IF ch \in chs \cap unsubs[c] THEN off(handlers[c][ch]) ELSE handlers[c][ch]]

-----------------------------------------------------------------------------
(* A client that is not authorised is closed before any handler is set.    *)
Connect(c) ==
    /\ sock[c] = "new" /\ ~stopping
    /\ \/ /\ sock' = [sock EXCEPT ![c] = "open"]
          /\ clients' = clients \union {c} /\ alive' = alive \union {c}
       \/ sock' = [sock EXCEPT ![c] = "refused"] /\ UNCHANGED <<clients, alive>>
    /\ UNCHANGED <<states, peers, store, process>>

fresh_All(c, chs) == chs                                    \* mutant
fresh(c, chs) == chs \ subs[c]

Subscribe(c, chs) ==
    /\ sock[c] \in Connected /\ ~exited
    /\ subs' = [subs EXCEPT ![c] = @ \union fresh(c, chs)]
    /\ unsubs' = [unsubs EXCEPT ![c] = @ \union fresh(c, chs)]
    /\ handlers' = [handlers EXCEPT ![c] = [ch \in Channels |->
                       IF ch \in fresh(c, chs) THEN @[ch] + 1 ELSE @[ch]]]
    /\ IF Alerts \in chs \ subs[c]
       THEN got' = [got EXCEPT ![c] = << >>] /\ since' = [since EXCEPT ![c] = nextId]
       ELSE UNCHANGED <<got, since>>
    /\ UNCHANGED <<sock, clients, alive, peers, store, process>>

Unsubscribe(c, chs) ==
    /\ sock[c] \in Connected /\ ~exited
    /\ handlers' = [handlers EXCEPT ![c] = unsubscribed(c, chs)]
    /\ unsubs' = [unsubs EXCEPT ![c] = @ \ chs]
    /\ subs' = [subs EXCEPT ![c] = @ \ chs]
    /\ UNCHANGED <<sock, clients, alive, got, since, peers, store, process>>

leftover_None(c) == {}                                      \* mutant
leftover(c) == unsubs[c]

(* The close event of the socket.                                          *)
Close(c) ==
    /\ sock[c] \in {"closing", "refused"} /\ ~exited
    /\ sock' = [sock EXCEPT ![c] = "closed"]
    /\ handlers' = [handlers EXCEPT ![c] = unsubscribed(c, leftover(c))]
    /\ clients' = clients \ {c}
    /\ UNCHANGED <<alive, subs, unsubs, got, since, peers, store, process>>

-----------------------------------------------------------------------------
silent == clients \ alive

aliveAfterBeat_Kept == alive                                \* mutant
aliveAfterBeat == alive \ clients

sockAfterBeat_NotTerminated == sock                         \* mutant
sockAfterBeat == [c \in Clients |-> IF c \in silent THEN "closing" ELSE sock[c]]

(* The interval goes on during a shutdown: the WebSocket server is never   *)
(* closed itself.                                                          *)
Heartbeat ==
    /\ ~exited
    /\ handlers' = [c \in Clients |->
                      IF c \in silent THEN unsubscribed(c, unsubs[c]) ELSE handlers[c]]
    /\ sock' = sockAfterBeat
    /\ clients' = clients \ silent
    /\ alive' = aliveAfterBeat
    /\ pinged' = pinged \union {c \in clients \ silent : sock[c] = "open"}
    /\ UNCHANGED <<subs, unsubs, got, since, mute, store, process>>

Pong(c) ==
    /\ c \in pinged \ mute /\ sock[c] = "open" /\ ~exited
    /\ alive' = alive \union {c}
    /\ pinged' = pinged \ {c}
    /\ UNCHANGED <<sock, clients, states, mute, store, process>>

(* What may become of the client: it falls silent, or closes its side.     *)
FallSilent(c) ==
    /\ sock[c] = "open" /\ c \notin mute
    /\ mute' = mute \union {c}
    /\ UNCHANGED <<sock, clients, alive, states, pinged, store, process>>

Leave(c) ==
    /\ sock[c] = "open" /\ c \notin mute
    /\ sock' = [sock EXCEPT ![c] = "closing"]
    /\ UNCHANGED <<clients, alive, states, peers, store, process>>

-----------------------------------------------------------------------------
pushed == IF Len(buffer) < MaxSize THEN Append(buffer, nextId) ELSE Tail(Append(buffer, nextId))

(* sendJson() sends to open sockets only, once for every handler.          *)
sentTo(c) == IF sock[c] = "open" THEN [i \in 1..handlers[c][Alerts] |-> nextId] ELSE << >>

Route ==
    /\ nextId <= MaxAlerts /\ ~exited
    /\ buffer' = pushed
    /\ nextId' = nextId + 1
    /\ got' = [c \in Clients |-> got[c] \o sentTo(c)]
    /\ UNCHANGED <<sock, clients, alive, subs, unsubs, handlers, since, peers, process>>

Shutdown ==
    /\ ~stopping
    /\ stopping' = TRUE
    /\ UNCHANGED <<sock, clients, alive, states, peers, store, exited>>

(* server.close() calls back when no connection is left.                   *)
Exit ==
    /\ stopping /\ ~exited
    /\ \A c \in Clients : sock[c] \in {"new", "closed"}
    /\ exited' = TRUE
    /\ UNCHANGED <<sock, clients, alive, states, peers, store, stopping>>

Init ==
    /\ sock = [c \in Clients |-> "new"]
    /\ clients = {} /\ alive = {} /\ pinged = {} /\ mute = {}
    /\ subs = [c \in Clients |-> {}] /\ unsubs = subs
    /\ handlers = [c \in Clients |-> [ch \in Channels |-> 0]]
    /\ buffer = << >> /\ nextId = 1
    /\ got = [c \in Clients |-> << >>] /\ since = [c \in Clients |-> 1]
    /\ stopping = FALSE /\ exited = FALSE

Next ==
    \/ \E c \in Clients : Connect(c) \/ Close(c) \/ Pong(c) \/ FallSilent(c) \/ Leave(c)
    \/ \E c \in Clients, chs \in SUBSET Channels : Subscribe(c, chs) \/ Unsubscribe(c, chs)
    \/ Heartbeat \/ Route \/ Shutdown \/ Exit

(* The interval fires, a socket that is closing closes, and the callback   *)
(* of server.close() is called.  Clients owe nothing.                      *)
Spec == /\ Init /\ [][Next]_vars
        /\ WF_vars(Heartbeat) /\ WF_vars(Exit)
        /\ \A c \in Clients : WF_vars(Close(c))

-----------------------------------------------------------------------------
(* Nothing of a closed connection stays on the bus, whoever closed it and  *)
(* whatever messages came in between; and what is on the bus can be taken  *)
(* off it (server.ts:180, 205).                                            *)
HandlersOwned ==
    \A c \in Clients, ch \in Channels :
        /\ handlers[c][ch] <= 1
        /\ handlers[c][ch] > 0 => ch \in unsubs[c] /\ sock[c] \in Connected
        /\ c \in clients => (handlers[c][ch] > 0 <=> ch \in subs[c])

(* A subscribed client has received every alert since, once and in order,  *)
(* and the last of them are what the AlertStore has as its history.        *)
EachAlertOnce ==
    \A c \in clients : sock[c] = "open" /\ Alerts \in subs[c] =>
        /\ got[c] = [i \in 1..(nextId - since[c]) |-> since[c] + i - 1]
        /\ \A i \in 0..MaxSize-1 : i < Len(got[c]) =>
               i < Len(buffer) /\ buffer[Len(buffer) - i] = got[c][Len(got[c]) - i]

(* A client that answers no longer is given up (server.ts:201-213).        *)
SilentGivenUp == \A c \in Clients : c \in mute /\ c \in clients ~> c \notin clients

(* "Graceful shutdown" (docs/operations/runbooks.md:13): the process ends  *)
(* once no client that is still connected answers.                         *)
ShutdownEnds ==
    stopping /\ (\A c \in Clients : sock[c] = "open" => c \in mute) ~> exited
=============================================================================
