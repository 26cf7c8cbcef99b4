--------------------------- MODULE SpdzConnection ---------------------------
(***************************************************************************)
(* The connection half of the web socket client: connectSetup.js (the      *)
(* event streams of each socket), socketApi.js (combining them into one    *)
(* status, and the guards on it) and promisify.js (the promises a caller   *)
(* waits on).                                                              *)
(*                                                                         *)
(* One session is modelled: connectToSPDZProxy has been called at most     *)
(* once.  There are two kinds of link to each proxy: the web socket from   *)
(* the browser to the proxy, and the TCP connection from the proxy to its  *)
(* SPDZ engine.  The client never sees either; it sees the events that     *)
(* report them, some time later, and keeps the latest report per proxy.    *)
(***************************************************************************)
EXTENDS Naturals, Sequences

CONSTANTS
  Proxies,          \* the proxyList of connectToSPDZProxy
  Calls,            \* the promises the application may ask for
  MaxTroubles,      \* bound: failures and losses the environment may cause
  WebSocketDrops    \* whether an established web socket may be lost

ASSUME ProxiesAssumption == Proxies # {}
ASSUME DropsAssumption == WebSocketDrops \in BOOLEAN
ASSUME TroublesAssumption == MaxTroubles \in Nat

\* EVENT_TYPE, the members that a connection stream carries
PROXY_CONNECT == "Proxy connect"
SPDZ_CONNECT == "SPDZ connect"
EventType == {PROXY_CONNECT, SPDZ_CONNECT}

Event == [eventType : EventType, status : BOOLEAN]
Request == {"connectToSpdz", "disconnectFromSpdz"}
Kind == {"none", "proxies", "connect", "disconnect"}
Promise == {"unused", "pending", "resolved", "rejected"}

VARIABLES
  opened,     \* connectionStream is defined: connectToSPDZProxy has run
  link,       \* link[t]: the proxies whose link of type t is really up
  requests,   \* requests[p]: socket.emit calls travelling to proxy p
  buffered,   \* buffered[p]: socket.emit calls held until p reconnects
  events,     \* events[p]: connection events of p not yet handled
  heard,      \* heard[t]: proxies with at least one event of type t so far
  up,         \* up[t]: proxies whose latest event of type t had status true
  connected,  \* connected[t]: connectedToProxies and connectedToSpdz
  kind,       \* kind[c]: which promise call c asked for
  promise,    \* promise[c]: its state
  answered,   \* history: proxies that reported connected since call c
  troubles    \* number of failures so far, for the bound

client == <<opened, heard, up, connected, kind, promise, answered>>
vars == <<opened, link, requests, buffered, events, heard, up, connected,
          kind, promise, answered, troubles>>

TypeOK ==
  /\ opened \in BOOLEAN
  /\ link \in [EventType -> SUBSET Proxies]
  /\ requests \in [Proxies -> Seq(Request)]
  /\ buffered \in [Proxies -> Seq(Request)]
  /\ events \in [Proxies -> Seq(Event)]
  /\ heard \in [EventType -> SUBSET Proxies]
  /\ up \in [EventType -> SUBSET Proxies]
  /\ connected \in [EventType -> BOOLEAN]
  /\ kind \in [Calls -> Kind]
  /\ promise \in [Calls -> Promise]
  /\ answered \in [Calls -> SUBSET Proxies]
  /\ troubles \in Nat

Init ==
  /\ opened = FALSE
  /\ link = [t \in EventType |-> {}]
  /\ requests = [p \in Proxies |-> <<>>]
  /\ buffered = [p \in Proxies |-> <<>>]
  /\ events = [p \in Proxies |-> <<>>]
  /\ heard = [t \in EventType |-> {}]
  /\ up = [t \in EventType |-> {}]
  /\ connected = [t \in EventType |-> FALSE]
  /\ kind = [c \in Calls |-> "none"]
  /\ promise = [c \in Calls |-> "unused"]
  /\ answered = [c \in Calls |-> {}]
  /\ troubles = 0

-----------------------------------------------------------------------------
(* Calls of the application.                                               *)

Start(c, k, state) ==
  /\ promise[c] = "unused"
  /\ kind' = [kind EXCEPT ![c] = k]
  /\ promise' = [promise EXCEPT ![c] = state]

\* The queue an emit to p joins.  A socket that knows it is disconnected
\* holds the packet for the reconnect; one that does not know writes it to a
\* dead transport.
emit(p, r) ==
  IF p \notin up[PROXY_CONNECT]
    THEN <<requests[p], Append(buffered[p], r)>>
  ELSE IF p \notin link[PROXY_CONNECT]
    THEN <<requests[p], buffered[p]>>
  ELSE <<Append(requests[p], r), buffered[p]>>

\* Variant for the properties to detect: a socket with a request on its way
\* is skipped
PushToIdle(r) ==
  LET to(p) == IF requests[p] = <<>> THEN emit(p, r)
               ELSE <<requests[p], buffered[p]>> IN
  /\ requests' = [p \in Proxies |-> to(p)[1]]
  /\ buffered' = [p \in Proxies |-> to(p)[2]]

\* webSocketBus.push reaches the emit of every socket
Push(r) ==
  /\ requests' = [p \in Proxies |-> emit(p, r)[1]]
  /\ buffered' = [p \in Proxies |-> emit(p, r)[2]]

\* connectToSpdzProxyPromise: opens the sockets and waits on the stream
CallProxies(c) ==
  /\ ~opened
  /\ opened' = TRUE
  /\ Start(c, "proxies", "pending")
  /\ UNCHANGED <<link, requests, buffered, events, heard, up, connected,
                 answered, troubles>>

\* The flag each request to the engines is guarded by
requestGuard(k) ==
  opened /\ IF k = "connect" THEN connected[PROXY_CONNECT]
                             ELSE connected[SPDZ_CONNECT]

\* Variant: the caller's word for the request is emitted
requestOfCaller(k) == k

requestOf(k) ==
  IF k = "connect" THEN "connectToSpdz" ELSE "disconnectFromSpdz"

\* A promise to the engines is subscribed, then the request goes to every
\* socket or is refused at once
CallParty(c, k) ==
  /\ IF requestGuard(k)
       THEN Start(c, k, "pending") /\ Push(requestOf(k))
       ELSE Start(c, k, "rejected") /\ UNCHANGED <<requests, buffered>>
  /\ UNCHANGED <<opened, link, events, heard, up, connected, answered,
                 troubles>>

\* connectToSpdzPartyPromise
CallConnect(c) == CallParty(c, "connect")

\* disconnectFromSpdzPartyPromise
CallDisconnect(c) == CallParty(c, "disconnect")

\* Variant: no timer on a disconnect
TimeoutConnects(c) ==
  /\ promise[c] = "pending"
  /\ kind[c] # "disconnect"
  /\ promise' = [promise EXCEPT ![c] = "rejected"]
  /\ UNCHANGED <<opened, link, requests, buffered, events, heard, up,
                 connected, kind, answered, troubles>>

\* streamWithTimeout: the timer's event rejects a promise still waiting
Timeout(c) ==
  /\ promise[c] = "pending"
  /\ promise' = [promise EXCEPT ![c] = "rejected"]
  /\ UNCHANGED <<opened, link, requests, buffered, events, heard, up,
                 connected, kind, answered, troubles>>

-----------------------------------------------------------------------------
(* The client handles one event of one socket.                             *)

\* Variant: some latest event has status true
combinedStatusSome(ups) == ups # {}

\* flattenResponseMessage: the status of the array of latest events
combinedStatus(ups) == ups = Proxies

\* The combined events each kind of promise resolves on
Resolves(k, t, status) ==
  \/ k = "proxies" /\ t = PROXY_CONNECT /\ status
  \/ k = "connect" /\ t = SPDZ_CONNECT /\ status
  \/ k = "disconnect" /\ t = SPDZ_CONNECT /\ ~status

\* Variant: an event with status false is not remembered
latestSticky(t, p, status) == IF status THEN up[t] \union {p} ELSE up[t]

\* combineAsArray keeps the latest event of each proxy
latest(t, p, status) == IF status THEN up[t] \union {p} ELSE up[t] \ {p}

\* The combined stream emits once every proxy has reported: the flag is set,
\* then every waiting promise looks at the event
Combined(t) ==
  IF heard'[t] = Proxies
    THEN LET status == combinedStatus(up'[t]) IN
         /\ connected' = [connected EXCEPT ![t] = status]
         /\ promise' = [c \in Calls |->
              IF promise[c] = "pending" /\ Resolves(kind[c], t, status)
                THEN "resolved" ELSE promise[c]]
    ELSE UNCHANGED <<connected, promise>>

Deliver(p) ==
  /\ events[p] # <<>>
  /\ LET e == Head(events[p])
         t == e.eventType
         reconnects == t = PROXY_CONNECT /\ e.status IN
     /\ events' = [events EXCEPT ![p] = Tail(@)]
     /\ heard' = [heard EXCEPT ![t] = @ \union {p}]
     /\ up' = [up EXCEPT ![t] = latest(t, p, e.status)]
     /\ Combined(t)
     /\ answered' = [c \in Calls |->
          IF promise[c] = "pending" /\ t = SPDZ_CONNECT /\ e.status
            THEN answered[c] \union {p} ELSE answered[c]]
     /\ IF reconnects /\ p \in link[PROXY_CONNECT]
          THEN /\ requests' = [requests EXCEPT ![p] = @ \o buffered[p]]
               /\ buffered' = [buffered EXCEPT ![p] = <<>>]
        ELSE IF reconnects
          THEN /\ buffered' = [buffered EXCEPT ![p] = <<>>]
               /\ UNCHANGED requests
        ELSE UNCHANGED <<requests, buffered>>
  /\ UNCHANGED <<opened, link, kind, troubles>>

-----------------------------------------------------------------------------
(* The environment: socket.io, the proxies and the engines.                *)

Report(p, t, status) ==
  events' = [events EXCEPT ![p] =
              Append(@, [eventType |-> t, status |-> status])]

Trouble == troubles < MaxTroubles /\ troubles' = troubles + 1

\* True when socket.io has nothing of p's web socket left to report, so that
\* a (re)connection may be attempted
Attempting(p) ==
  /\ opened
  /\ p \notin link[PROXY_CONNECT]
  /\ \A i \in 1..Len(events[p]) : events[p][i].eventType # PROXY_CONNECT

\* 'connect': the first connection or an automatic reconnection
WebConnect(p) ==
  /\ Attempting(p)
  /\ link' = [link EXCEPT ![PROXY_CONNECT] = @ \union {p}]
  /\ Report(p, PROXY_CONNECT, TRUE)
  /\ UNCHANGED <<client, requests, buffered, troubles>>

\* 'connect_error' and 'connect_timeout'
WebConnectFails(p) ==
  /\ Attempting(p)
  /\ Trouble
  /\ Report(p, PROXY_CONNECT, FALSE)
  /\ UNCHANGED <<client, link, requests, buffered>>

\* 'disconnect': requests in flight are lost, and so are some of the
\* proxy's last messages
WebDrop(p) ==
  /\ WebSocketDrops
  /\ p \in link[PROXY_CONNECT]
  /\ Trouble
  /\ link' = [link EXCEPT ![PROXY_CONNECT] = @ \ {p}]
  /\ requests' = [requests EXCEPT ![p] = <<>>]
  /\ \E n \in 0..Len(events[p]) :
       /\ \A i \in (n + 1)..Len(events[p]) :
            events[p][i].eventType = SPDZ_CONNECT
       /\ events' = [events EXCEPT ![p] =
            Append(SubSeq(@, 1, n),
                   [eventType |-> PROXY_CONNECT, status |-> FALSE])]
  /\ UNCHANGED <<client, buffered>>

Handle(p, r) ==
  /\ p \in link[PROXY_CONNECT]
  /\ requests[p] # <<>>
  /\ Head(requests[p]) = r
  /\ requests' = [requests EXCEPT ![p] = Tail(@)]
  /\ UNCHANGED <<client, buffered>>

\* 'connectToSpdz_result' with status 0
EngineAccepts(p) ==
  /\ Handle(p, "connectToSpdz")
  /\ link' = [link EXCEPT ![SPDZ_CONNECT] = @ \union {p}]
  /\ Report(p, SPDZ_CONNECT, TRUE)
  /\ UNCHANGED troubles

\* 'connectToSpdz_result' with another status: no connection to the engine
EngineRefuses(p) ==
  /\ Handle(p, "connectToSpdz")
  /\ Trouble
  /\ link' = [link EXCEPT ![SPDZ_CONNECT] = @ \ {p}]
  /\ Report(p, SPDZ_CONNECT, FALSE)

\* 'disconnectFromSpdz_result', whose payload the client ignores
EngineLeaves(p) ==
  /\ Handle(p, "disconnectFromSpdz")
  /\ link' = [link EXCEPT ![SPDZ_CONNECT] = @ \ {p}]
  /\ Report(p, SPDZ_CONNECT, FALSE)
  /\ UNCHANGED troubles

\* 'spdz_socketDisconnected': the engine ends; the proxy can only say so to
\* a web socket that is up
EngineCloses(p) ==
  /\ p \in link[SPDZ_CONNECT]
  /\ Trouble
  /\ link' = [link EXCEPT ![SPDZ_CONNECT] = @ \ {p}]
  /\ IF p \in link[PROXY_CONNECT]
       THEN Report(p, SPDZ_CONNECT, FALSE) ELSE UNCHANGED events
  /\ UNCHANGED <<client, requests, buffered>>

-----------------------------------------------------------------------------
ApplicationStep(c) ==
  \/ CallProxies(c)
  \/ CallConnect(c)
  \/ CallDisconnect(c)
  \/ Timeout(c)

EnvironmentStep(p) ==
  \/ WebConnect(p)
  \/ WebConnectFails(p)
  \/ WebDrop(p)
  \/ EngineAccepts(p)
  \/ EngineRefuses(p)
  \/ EngineLeaves(p)
  \/ EngineCloses(p)

Next ==
  \/ \E c \in Calls : ApplicationStep(c)
  \/ \E p \in Proxies : Deliver(p) \/ EnvironmentStep(p)

\* The event loop runs every queued handler and every timer; nothing is
\* assumed of the network, the proxies or the application.
Fairness ==
  /\ \A p \in Proxies : WF_vars(Deliver(p))
  /\ \A c \in Calls : WF_vars(Timeout(c))

Spec == Init /\ [][Next]_vars
FairSpec == Spec /\ Fairness

-----------------------------------------------------------------------------
(* Properties.                                                             *)

Queued(p, t) ==
  {i \in 1..Len(events[p]) : events[p][i].eventType = t}

Quiet(t) == \A p \in Proxies : Queued(p, t) = {}

\* Once every web socket event has been handled, connectedToProxies
\* (socketApi.js 107-114) is true exactly when every web socket is up, no
\* matter in which order connects, errors and losses of the sockets came.
ProxyStatusTruthful ==
  Quiet(PROXY_CONNECT) =>
    (connected[PROXY_CONNECT] <=> link[PROXY_CONNECT] = Proxies)

\* The same of connectedToSpdz and the engines, which is what makes the
\* guards of connectToSpdz, disconnectFromSpdz and the sends mean something.
\* It needs the web sockets to stay up.
SpdzStatusTruthful ==
  Quiet(SPDZ_CONNECT) =>
    (connected[SPDZ_CONNECT] <=> link[SPDZ_CONNECT] = Proxies)

\* As long as nothing fails, the engines are treated alike: when all requests
\* have been handled the client is connected to all of them or to none,
\* however its connect and disconnect calls overlapped.
AllOrNone ==
  troubles = 0 /\ (\A p \in Proxies : requests[p] = <<>>)
    => link[SPDZ_CONNECT] \in {{}, Proxies}

\* A connect promise never resolves on nothing (promisify.js 134): at that
\* moment each proxy is connected to its engine, or the news that it is not
\* any more is queued. And if no other call ever connected, each proxy has
\* reported a connection since this one; a retry may resolve on reports the
\* calls before it have asked for (promisify.js 104 says it waits "for all
\* SPDZ engines").
ConnectTruthful ==
  [][\A c \in Calls :
       /\ kind[c] = "connect"
       /\ promise[c] = "pending"
       /\ promise'[c] = "resolved"
       => /\ \A p \in Proxies :
               \/ p \in link'[SPDZ_CONNECT]
               \/ \E i \in 1..Len(events'[p]) :
                    events'[p][i] =
                      [eventType |-> SPDZ_CONNECT, status |-> FALSE]
          /\ (\A d \in Calls \ {c} : kind[d] # "connect")
               => answered'[c] = Proxies]_vars

\* An engine that ends while its web socket is up is noticed: connectedToSpdz
\* falls, unless the engine is connected again first.
EngineLossNoticed ==
  \A p \in Proxies :
    (connected[SPDZ_CONNECT] /\ p \notin link[SPDZ_CONNECT])
      ~> (~connected[SPDZ_CONNECT] \/ p \in link[SPDZ_CONNECT])

\* No connection promise waits for ever, whatever the proxies do
\* (streamWithTimeout).
PromisesSettle ==
  \A c \in Calls : (promise[c] = "pending") ~> (promise[c] # "pending")
=============================================================================
