---------------------------- MODULE SocketClient ----------------------------
(***************************************************************************)
(* The web socket client as one: the connections of SpdzConnection and the *)
(* secret inputs of SendInputs meet on the same sockets and through the    *)
(* same two flags.  A client may leave its engines and connect again, or   *)
(* an engine may end, while shares and inputs wait in queues that nothing  *)
(* empties, so that what was meant for one session of the engines may meet *)
(* the next.                                                               *)
(*                                                                         *)
(* A session of the engines is named by its number: every connectToSpdz    *)
(* goes to all sockets, in one order.  Share messages come through events, *)
(* and sendData requests go through requests and buffered, in line with    *)
(* the connection's own.  Promises of sends and damaged messages are left  *)
(* to SendInputs; sockets that drop, to SpdzConnection.                    *)
(***************************************************************************)
EXTENDS Naturals, Sequences, FiniteSets

CONSTANTS
  Proxies,
  Calls,
  MaxTroubles,
  WebSocketDrops,
  MaxSends,       \* bound: inputs the application sends
  MaxRounds       \* bound: rounds of triples in a session

ASSUME ProxiesAssumption == Proxies # {}
ASSUME TroublesAssumption == MaxTroubles \in Nat
ASSUME NoDropsAssumption == WebSocketDrops = FALSE
ASSUME SendsAssumption == MaxSends \in Nat /\ MaxRounds \in Nat

SPDZ_MESSAGE == "spdz_message"
Sends == 1..MaxSends
Rounds == Nat \X (1..MaxRounds)     \* a session and a round of it

VARIABLES
  opened, link, requests, buffered, events, heard, up, connected, kind,
  promise, answered, troubles,      \* those of SpdzConnection
  sends,       \* how many inputs the application has sent
  inputs,      \* inputs waiting for shares
  shareLists,  \* joined share lists waiting for an input, by round
  shareZip,    \* shareZip[p]: rounds of p's share messages that wait
  wire,        \* wire[p]: what the sendData requests to p carry, in order
  session,     \* session[p]: connectToSpdz requests p has handled
  produced,    \* produced[p]: rounds engine p has sent in this session
  taken,       \* taken[p]: the masked inputs engine p has taken in
  clean        \* history: nothing was left over whenever a session began,
               \* and no input has been dropped

connection == <<opened, link, requests, buffered, events, heard, up,
                connected, kind, promise, answered, troubles>>
pairing == <<sends, inputs, shareLists, shareZip, wire>>
engines == <<session, produced, taken>>
vars == <<connection, pairing, engines, clean>>

Client == INSTANCE SpdzConnection

Message == [eventType : {SPDZ_MESSAGE}, round : Rounds]
Event == Client!Event \union Message
Request == Client!Request \union {"sendData"}
Masked == [send : Sends, mask : Rounds]
\* nth counts the inputs of the session
Taken == [send : Sends, mask : Rounds, session : Nat, nth : Nat]

\* The other variables of the connection have the types of SpdzConnection
TypeOK ==
  /\ requests \in [Proxies -> Seq(Request)]
  /\ buffered \in [Proxies -> Seq(Request)]
  /\ events \in [Proxies -> Seq(Event)]
  /\ sends \in 0..MaxSends
  /\ inputs \in Seq(Sends)
  /\ shareLists \in Seq(Rounds)
  /\ shareZip \in [Proxies -> Seq(Rounds)]
  /\ wire \in [Proxies -> Seq(Masked)]
  /\ session \in [Proxies -> Nat]
  /\ produced \in [Proxies -> 0..MaxRounds]
  /\ taken \in [Proxies -> Seq(Taken)]
  /\ clean \in BOOLEAN

Init ==
  /\ Client!Init
  /\ sends = 0
  /\ inputs = <<>>
  /\ shareLists = <<>>
  /\ shareZip = [p \in Proxies |-> <<>>]
  /\ wire = [p \in Proxies |-> <<>>]
  /\ session = [p \in Proxies |-> 0]
  /\ produced = [p \in Proxies |-> 0]
  /\ taken = [p \in Proxies |-> <<>>]
  /\ clean = TRUE

-----------------------------------------------------------------------------
(* Connection calls, as they are.                                          *)

Messages(p) ==
  {i \in 1..Len(events[p]) : events[p][i].eventType = SPDZ_MESSAGE}

\* Something of an earlier session is still to come or waits in the client
LeftOver ==
  \/ inputs # <<>> \/ shareLists # <<>>
  \/ \E p \in Proxies :
       \/ shareZip[p] # <<>> \/ Messages(p) # {}
       \/ p \in link[Client!SPDZ_CONNECT]
       \/ \E i \in 1..Len(requests[p]) : requests[p][i] = "connectToSpdz"

CallConnect(c) ==
  /\ Client!CallConnect(c)
  /\ clean' = (clean /\ (Client!requestGuard("connect") => ~LeftOver))
  /\ UNCHANGED <<pairing, engines>>

CallOther(c) ==
  /\ Client!CallProxies(c) \/ Client!CallDisconnect(c) \/ Client!Timeout(c)
  /\ UNCHANGED <<pairing, engines, clean>>

DeliverConnection(p) ==
  /\ events[p] # <<>> /\ Head(events[p]).eventType \in Client!EventType
  /\ Client!Deliver(p)
  /\ UNCHANGED <<pairing, engines, clean>>

-----------------------------------------------------------------------------
(* Inputs and shares meet.                                                 *)

\* Variant for the properties to detect: the share is not added
EmitUnmasked(send, mask) ==
  /\ Client!Push("sendData")
  /\ wire' = [p \in Proxies |->
       Append(wire[p], [send |-> send, mask |-> <<0, 0>>])]

\* Variant: a socket with a request on its way is left out
EmitToIdle(send, mask) ==
  LET idle == {p \in Proxies : requests[p] = <<>>} IN
  /\ requests' = [p \in Proxies |->
       IF p \in idle THEN <<"sendData">> ELSE requests[p]]
  /\ wire' = [p \in Proxies |->
       IF p \in idle THEN <<[send |-> send, mask |-> mask]>> ELSE wire[p]]
  /\ UNCHANGED buffered

\* A sendData event on webSocketBus, whoever is connected by now
Emit(send, mask) ==
  /\ Client!Push("sendData")
  /\ wire' = [p \in Proxies |->
       Append(wire[p], [send |-> send, mask |-> mask])]

\* The input is not as long as the share list, which is an error of the
\* stream, or an element of it is no number of the field, which throws
\* (fromUserInput): input and share list are used up and nothing goes out
Drop ==
  /\ clean' = FALSE
  /\ UNCHANGED <<wire, requests, buffered>>

\* setupSendInputShareStream: an input meets a share list.  Which inputs are
\* dropped is left open until they get here, which they do once.
Meet(send, mask) ==
  \/ Emit(send, mask) /\ UNCHANGED clean
  \/ Drop

\* Variant: a share list that is used stays
listsLeftAll == shareLists

\* The share lists that wait once an input has taken one
listsLeft == Tail(shareLists)

\* sendInputsWithShares passes its guard; then it waits or takes a share list
SendSecret ==
  /\ sends < MaxSends
  /\ connected[Client!PROXY_CONNECT] /\ connected[Client!SPDZ_CONNECT]
  /\ sends' = sends + 1
  /\ \/ /\ shareLists = <<>>
        /\ inputs' = Append(inputs, sends')
        /\ UNCHANGED <<shareLists, wire, requests, buffered, clean>>
     \/ /\ shareLists # <<>>
        /\ Meet(sends', Head(shareLists))
        /\ shareLists' = listsLeft
        /\ UNCHANGED inputs
  /\ UNCHANGED <<opened, link, events, heard, up, connected, kind, promise,
                 answered, troubles, shareZip, engines>>

\* Variant: the input that is paired stays in its queue
ShareListKeepsInput(mask) ==
  IF inputs = <<>>
    THEN /\ shareLists' = Append(shareLists, mask)
         /\ UNCHANGED <<inputs, wire, requests, buffered, clean>>
    ELSE /\ Meet(Head(inputs), mask)
         /\ UNCHANGED <<inputs, shareLists>>

\* A joined share list meets the first input waiting, or waits
ShareList(mask) ==
  IF inputs = <<>>
    THEN /\ shareLists' = Append(shareLists, mask)
         /\ UNCHANGED <<inputs, wire, requests, buffered, clean>>
    ELSE /\ Meet(Head(inputs), mask)
         /\ inputs' = Tail(inputs)
         /\ UNCHANGED shareLists

\* Variant: a handler of shares takes whatever the socket has received
afterMessageNone(p) == <<>>

\* What the socket has received after this message
afterMessage(p) == Tail(events[p])

\* 'spdz_message' with shares: joined with the other proxies' and, if they
\* are shares of the same triples, extracted; if not, an error
DeliverShare(p) ==
  /\ events[p] # <<>> /\ Head(events[p]).eventType = SPDZ_MESSAGE
  /\ events' = [events EXCEPT ![p] = afterMessage(p)]
  /\ LET zip == [shareZip EXCEPT ![p] = Append(@, Head(events[p]).round)]
         mask == Head(zip[p]) IN
     \/ /\ \E q \in Proxies : zip[q] = <<>>
        /\ shareZip' = zip
        /\ UNCHANGED <<inputs, shareLists, wire, requests, buffered, clean>>
     \/ /\ \A q \in Proxies : zip[q] # <<>>
        /\ shareZip' = [q \in Proxies |-> Tail(zip[q])]
        /\ IF \A q \in Proxies : Head(zip[q]) = mask
             THEN ShareList(mask)
             ELSE UNCHANGED <<inputs, shareLists, wire, requests, buffered,
                              clean>>
  /\ UNCHANGED <<opened, link, heard, up, connected, kind, promise, answered,
                 troubles, sends, engines>>

-----------------------------------------------------------------------------
(* The environment.                                                        *)

\* A connectToSpdz request is handled and begins a session at this engine
HandleConnect(p) ==
  /\ Client!EngineAccepts(p) \/ Client!EngineRefuses(p)
  /\ session' = [session EXCEPT ![p] = @ + 1]
  /\ produced' = [produced EXCEPT ![p] = 0]
  /\ UNCHANGED <<pairing, taken, clean>>

LinkChanges(p) ==
  /\ \/ Client!WebConnect(p) \/ Client!WebConnectFails(p)
     \/ Client!EngineLeaves(p) \/ Client!EngineCloses(p)
  /\ UNCHANGED <<pairing, engines, clean>>

\* The MPC program sends this client the next round of shares
EngineShares(p) ==
  /\ p \in link[Client!SPDZ_CONNECT] /\ produced[p] < MaxRounds
  /\ produced' = [produced EXCEPT ![p] = @ + 1]
  /\ events' = [events EXCEPT ![p] = Append(@,
       [eventType |-> SPDZ_MESSAGE,
        round |-> <<session[p], produced[p] + 1>>])]
  /\ UNCHANGED <<opened, link, requests, buffered, heard, up, connected, kind,
                 promise, answered, troubles, pairing, session, taken, clean>>

\* The inputs engine p has taken in its present session
TakenNow(p) ==
  {i \in 1..Len(taken[p]) : taken[p][i].session = session[p]}

\* A sendData request: the engine takes the input in, or there is no
\* connection to it and the proxy answers with an error
HandleSend(p) ==
  /\ Client!Handle(p, "sendData")
  /\ wire' = [wire EXCEPT ![p] = Tail(@)]
  /\ taken' = IF p \notin link[Client!SPDZ_CONNECT] THEN taken
              ELSE [taken EXCEPT ![p] = Append(@,
                     [send |-> Head(wire[p]).send, mask |-> Head(wire[p]).mask,
                      session |-> session[p],
                      nth |-> Cardinality(TakenNow(p)) + 1])]
  /\ UNCHANGED <<link, events, troubles, sends, inputs, shareLists, shareZip,
                 session, produced, clean>>

-----------------------------------------------------------------------------
Next ==
  \/ \E c \in Calls : CallConnect(c) \/ CallOther(c)
  \/ SendSecret
  \/ \E p \in Proxies :
       \/ DeliverConnection(p) \/ DeliverShare(p)
       \/ HandleConnect(p) \/ LinkChanges(p)
       \/ EngineShares(p) \/ HandleSend(p)

Spec == Init /\ [][Next]_vars

-----------------------------------------------------------------------------
(* Properties.                                                             *)

\* The elements of q that are in S, in their order
Within(q, S) ==
  LET kept[n \in 0..Len(q)] ==
        IF n = 0 THEN <<>>
        ELSE IF q[n] \in S THEN Append(kept[n - 1], q[n])
        ELSE kept[n - 1]
  IN kept[Len(q)]

\* Inputs and shares on the same sockets leave the connection as it is: the
\* client, its own messages aside, implements SpdzConnection, so that what is
\* true of the flags and engines there is true here.
OwnEvents == [p \in Proxies |-> Within(events[p], Client!Event)]
OwnRequests == [p \in Proxies |-> Within(requests[p], Client!Request)]
OwnBuffered == [p \in Proxies |-> Within(buffered[p], Client!Request)]
Connection == INSTANCE SpdzConnection WITH
  events <- OwnEvents, requests <- OwnRequests, buffered <- OwnBuffered
ConnectionKept == Connection!Spec

\* While nothing fails, the engines take in the same inputs, in the same
\* sessions and with the same masks, once all requests are handled: sends,
\* connects and disconnects may overlap as they like, because a send that
\* one engine finds itself disconnected for, all do (connectSetup.js 154-165).
EnginesTakeSame ==
  troubles = 0 /\ (\A p \in Proxies : requests[p] = <<>>)
    => \A p, q \in Proxies : taken[p] = taken[q]

\* No two inputs that any engine takes in carry the same round, nor does one
\* carry two, across sessions that end at some engines and begin anew, with
\* shares and inputs left over from one to the next (transform.js 213-245).
MasksOnce ==
  \A p, q \in Proxies : \A i \in 1..Len(taken[p]), j \in 1..Len(taken[q]) :
    (taken[p][i].send = taken[q][j].send)
      <=> (taken[p][i].mask = taken[q][j].mask)

\* The mask of an input is the one the engine takes off it, the round of the
\* same place in the same session, if every connectToSpdz so far was called
\* with nothing left over of a session before and no input has been dropped:
\* nothing in the client checks the first, and its queues survive a
\* disconnect (socketApi.js 17-24, 116-134); an input that is dropped takes
\* its mask with it, so that those after it go out under masks too late.
MasksOfSession ==
  clean => \A p \in Proxies : \A i \in 1..Len(taken[p]) :
    taken[p][i].mask = <<taken[p][i].session, taken[p][i].nth>>
=============================================================================
