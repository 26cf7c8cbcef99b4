--------------------------- MODULE ProxySessions ---------------------------
(***************************************************************************)
(* connectToSPDZProxy called more than once, as by an application that     *)
(* tries again after a timeout.  SpdzConnection has one session in detail; *)
(* here it is what several share: each call makes a socket per proxy that  *)
(* stays on webSocketBus for good and keeps reconnecting, the streams of   *)
(* every session write the same two flags, and a promise listens to the    *)
(* connectionStream of the latest session.  disconnectFromSpdz is left to  *)
(* SpdzConnection.                                                         *)
(***************************************************************************)
EXTENDS Naturals, Sequences, FiniteSets

CONSTANTS
  Proxies,
  MaxSessions,   \* bound: calls of connectToSPDZProxy
  Calls,         \* calls of connectToSpdzPartyPromise
  MaxTroubles    \* bound: failures and losses

ASSUME SessionsAssumption ==
  MaxSessions \in Nat \ {0} /\ MaxTroubles \in Nat /\ Proxies # {}

PROXY_CONNECT == "Proxy connect"
SPDZ_CONNECT == "SPDZ connect"
EventType == {PROXY_CONNECT, SPDZ_CONNECT}
Event == [eventType : EventType, status : BOOLEAN]
Promise == {"unused", "pending", "resolved", "rejected"}

Sessions == 1..MaxSessions
Sockets == Sessions \X Proxies
of(k) == {k} \X Proxies

VARIABLES
  opened,     \* sessions so far; connectionStream is that of the latest
  link,       \* link[t]: sockets whose link of type t is really up
  requests,   \* requests[s]: connectToSpdz messages travelling on socket s
  buffered,   \* buffered[s]: those held until s is connected
  events,     \* events[s]: connection events of s not yet handled
  heard,      \* heard[t]: sockets with at least one event of type t
  up,         \* up[t]: sockets whose latest event of type t was positive
  connected,  \* connectedToProxies and connectedToSpdz
  setup,      \* setup[k]: the promise of session k
  call,       \* call[c]: the promise of a connect call
  stream,     \* stream[c]: the session whose stream it listens to, or 0
  troubles

vars == <<opened, link, requests, buffered, events, heard, up, connected,
          setup, call, stream, troubles>>

TypeOK ==
  /\ opened \in 0..MaxSessions
  /\ link \in [EventType -> SUBSET Sockets]
  /\ requests \in [Sockets -> Nat]
  /\ buffered \in [Sockets -> Nat]
  /\ events \in [Sockets -> Seq(Event)]
  /\ heard \in [EventType -> SUBSET Sockets]
  /\ up \in [EventType -> SUBSET Sockets]
  /\ \A t \in EventType : up[t] \subseteq heard[t]
  /\ connected \in [EventType -> BOOLEAN]
  /\ setup \in [Sessions -> Promise]
  /\ call \in [Calls -> Promise]
  /\ stream \in [Calls -> 0..MaxSessions]
  /\ troubles \in 0..MaxTroubles

none == [t \in EventType |-> {}]

Init ==
  /\ opened = 0
  /\ link = none /\ heard = none /\ up = none
  /\ requests = [s \in Sockets |-> 0]
  /\ buffered = [s \in Sockets |-> 0]
  /\ events = [s \in Sockets |-> <<>>]
  /\ connected = [t \in EventType |-> FALSE]
  /\ setup = [k \in Sessions |-> "unused"]
  /\ call = [c \in Calls |-> "unused"]
  /\ stream = [c \in Calls |-> 0]
  /\ troubles = 0

-----------------------------------------------------------------------------
(* Calls of the application.                                               *)

\* connectToSpdzProxyPromise: nothing is closed of the sessions before
CallProxies ==
  /\ opened < MaxSessions
  /\ opened' = opened + 1
  /\ setup' = [setup EXCEPT ![opened + 1] = "pending"]
  /\ UNCHANGED <<link, requests, buffered, events, heard, up, connected,
                 call, stream, troubles>>

Existing == {s \in Sockets : s[1] <= opened}

\* Variant: a socket that is not connected is left out
PushToConnected ==
  /\ requests' = [s \in Sockets |->
       requests[s] + IF s \in up[PROXY_CONNECT] \cap link[PROXY_CONNECT]
                       THEN 1 ELSE 0]
  /\ UNCHANGED buffered

\* webSocketBus.push reaches every socket of every session.  One that knows
\* it is not connected keeps the message; one whose loss is not handled yet
\* writes it to a dead transport.
Push ==
  LET ready == up[PROXY_CONNECT] IN
  /\ requests' = [s \in Sockets |->
       requests[s] + IF s \in ready \cap link[PROXY_CONNECT] THEN 1 ELSE 0]
  /\ buffered' = [s \in Sockets |->
       buffered[s] + IF s \in Existing \ ready THEN 1 ELSE 0]

\* Variant: the session that is opened next
currentNext == opened + 1

\* connectionStream, a variable that each connectToSpdzProxyPromise sets
current == opened

\* connectToSpdzPartyPromise: the guard is the flag, whoever set it
CallConnect(c) ==
  /\ call[c] = "unused"
  /\ stream' = [stream EXCEPT ![c] = current]
  /\ IF connected[PROXY_CONNECT]
       THEN call' = [call EXCEPT ![c] = "pending"] /\ Push
       ELSE /\ call' = [call EXCEPT ![c] = "rejected"]
            /\ UNCHANGED <<requests, buffered>>
  /\ UNCHANGED <<opened, link, events, heard, up, connected, setup, troubles>>

\* streamWithTimeout
SetupTimeout(k) ==
  /\ setup[k] = "pending"
  /\ setup' = [setup EXCEPT ![k] = "rejected"]
  /\ UNCHANGED <<opened, link, requests, buffered, events, heard, up,
                 connected, call, stream, troubles>>

CallTimeout(c) ==
  /\ call[c] = "pending"
  /\ call' = [call EXCEPT ![c] = "rejected"]
  /\ UNCHANGED <<opened, link, requests, buffered, events, heard, up,
                 connected, setup, stream, troubles>>

-----------------------------------------------------------------------------
(* The client handles one event of one socket.                             *)

\* Variant: once lowered, a flag is not raised
flagAfterAnd(t, status) == connected[t] /\ status

\* The side effect of each session's connectionStream
flagAfter(t, status) == status

\* Variant: the promises listen to one stream of all sessions
hearsAny(k, listening) == TRUE

\* A promise listens to the stream of the session it was made in
hears(k, listening) == listening = k

\* The combined stream of session k, once each of its sockets has reported:
\* first the flag, then the promises that listen to it
Combined(k, t) ==
  LET status == of(k) \subseteq up'[t] IN
  IF ~(of(k) \subseteq heard'[t]) THEN UNCHANGED <<connected, setup, call>>
  ELSE
  /\ connected' = [connected EXCEPT ![t] = flagAfter(t, status)]
  /\ setup' = [j \in Sessions |->
       IF setup[j] = "pending" /\ hears(k, j) /\ t = PROXY_CONNECT /\ status
         THEN "resolved" ELSE setup[j]]
  /\ call' = [c \in Calls |->
       IF call[c] = "pending" /\ hears(k, stream[c]) /\ t = SPDZ_CONNECT
          /\ status
         THEN "resolved" ELSE call[c]]

Deliver(s) ==
  /\ events[s] # <<>>
  /\ LET e == Head(events[s])
         t == e.eventType IN
     /\ events' = [events EXCEPT ![s] = Tail(@)]
     /\ heard' = [heard EXCEPT ![t] = @ \union {s}]
     /\ up' = [up EXCEPT ![t] = IF e.status THEN @ \union {s} ELSE @ \ {s}]
     /\ Combined(s[1], t)
     /\ IF t = PROXY_CONNECT /\ e.status
          THEN /\ buffered' = [buffered EXCEPT ![s] = 0]
               /\ requests' = [requests EXCEPT ![s] =
                    IF s \in link[PROXY_CONNECT] THEN @ + buffered[s] ELSE @]
          ELSE UNCHANGED <<requests, buffered>>
  /\ UNCHANGED <<opened, link, stream, troubles>>

-----------------------------------------------------------------------------
(* The environment: socket.io, the proxies and the engines.                *)

Report(s, t, status) ==
  events' = [events EXCEPT ![s] =
               Append(@, [eventType |-> t, status |-> status])]

Trouble == troubles < MaxTroubles /\ troubles' = troubles + 1

Queued(s, t) == {i \in 1..Len(events[s]) : events[s][i].eventType = t}

Attempting(s) ==
  /\ s \in Existing \ link[PROXY_CONNECT]
  /\ Queued(s, PROXY_CONNECT) = {}

WebConnect(s) ==
  /\ Attempting(s)
  /\ link' = [link EXCEPT ![PROXY_CONNECT] = @ \union {s}]
  /\ Report(s, PROXY_CONNECT, TRUE)
  /\ UNCHANGED <<opened, requests, buffered, heard, up, connected, setup,
                 call, stream, troubles>>

WebConnectFails(s) ==
  /\ Attempting(s) /\ Trouble
  /\ Report(s, PROXY_CONNECT, FALSE)
  /\ UNCHANGED <<opened, link, requests, buffered, heard, up, connected,
                 setup, call, stream>>

\* The loss of a web socket takes along what is on it, requests and, of the
\* events not handled yet, those of the engine
WebDrop(s) ==
  /\ s \in link[PROXY_CONNECT] /\ Trouble
  /\ link' = [link EXCEPT ![PROXY_CONNECT] = @ \ {s}]
  /\ requests' = [requests EXCEPT ![s] = 0]
  /\ \E n \in 0..Len(events[s]) :
       /\ \A i \in Queued(s, PROXY_CONNECT) : i <= n
       /\ events' = [events EXCEPT ![s] =
            Append(SubSeq(@, 1, n),
                   [eventType |-> PROXY_CONNECT, status |-> FALSE])]
  /\ UNCHANGED <<opened, buffered, heard, up, connected, setup, call, stream>>

\* The engine accepts a connection of this socket's proxy, or refuses it
HandleConnect(s) ==
  /\ s \in link[PROXY_CONNECT] /\ requests[s] > 0
  /\ requests' = [requests EXCEPT ![s] = @ - 1]
  /\ \/ /\ link' = [link EXCEPT ![SPDZ_CONNECT] = @ \union {s}]
        /\ Report(s, SPDZ_CONNECT, TRUE)
        /\ UNCHANGED troubles
     \/ /\ Trouble
        /\ link' = [link EXCEPT ![SPDZ_CONNECT] = @ \ {s}]
        /\ Report(s, SPDZ_CONNECT, FALSE)
  /\ UNCHANGED <<opened, buffered, heard, up, connected, setup, call, stream>>

-----------------------------------------------------------------------------
Next ==
  \/ CallProxies
  \/ \E c \in Calls : CallConnect(c) \/ CallTimeout(c)
  \/ \E k \in Sessions : SetupTimeout(k)
  \/ \E s \in Sockets : \/ Deliver(s) \/ WebConnect(s) \/ WebConnectFails(s)
                        \/ WebDrop(s) \/ HandleConnect(s)

\* The event loop runs every queued handler
Fairness == \A s \in Sockets : WF_vars(Deliver(s))

Spec == Init /\ [][Next]_vars
FairSpec == Spec /\ Fairness

-----------------------------------------------------------------------------
(* Properties.                                                             *)

Heard(k, t) == of(k) \subseteq heard[t]
Up(k, t) == of(k) \subseteq up[t]

\* Whichever session wrote a flag last (socketApi.js 107-114), it is never
\* up without some session whose sockets all reported so last, and never
\* down, once a session has reported, unless one of them is not fully up.
FlagBacked ==
  \A t \in EventType :
    /\ connected[t] => \E k \in Sessions : Up(k, t)
    /\ ~connected[t] /\ (\E k \in Sessions : Heard(k, t))
         => \E k \in Sessions : Heard(k, t) /\ ~Up(k, t)

\* While nothing fails, every engine has as many connections of this client
\* as every other once all requests are handled (socketApi.js 169-175), in
\* spite of the sockets that earlier sessions left on the bus: an MPC program
\* that accepts clients counts on it.
ConnectionsMatch ==
  LET connections(p) ==
        {k \in Sessions : <<k, p>> \in link[SPDZ_CONNECT]} IN
  /\ troubles = 0
  /\ \A s \in Sockets : requests[s] = 0 /\ buffered[s] = 0
  => \A p, q \in Proxies :
       Cardinality(connections(p)) = Cardinality(connections(q))

\* A promise resolves on its own session only (promisify.js 73-97, 125-149):
\* the sockets it hands out are up, or their loss is still to be handled, and
\* the connections to the engines are those of the session it was made in.
ResolvesOnOwn ==
  [][/\ \A k \in Sessions : setup[k] = "pending" /\ setup'[k] = "resolved" =>
          \A s \in of(k) : s \in link'[PROXY_CONNECT] \/
            \E i \in 1..Len(events'[s]) :
              events'[s][i] = [eventType |-> PROXY_CONNECT, status |-> FALSE]
     /\ \A c \in Calls : call[c] = "pending" /\ call'[c] = "resolved" =>
          of(stream[c]) \subseteq up'[SPDZ_CONNECT]]_vars

\* When all web sockets, the abandoned ones too, are up for good, then
\* connectedToProxies becomes and stays true, so that connectToSpdz is not
\* refused for ever because of a session that was given up.
FlagRecovers ==
  <>[](opened > 0 /\ Existing = link[PROXY_CONNECT])
    => <>[]connected[PROXY_CONNECT]
=============================================================================
