------------------------ MODULE SpdzConnectionProofs ------------------------
(***************************************************************************)
(* Proofs about SpdzConnection, for any set of proxies and calls.          *)
(*                                                                         *)
(* Why the status flags are right: the last event queued for a proxy       *)
(* reports its link as it is, and when none is queued the latest one       *)
(* handled does (Tracking); the flag is the conjunction of the latest      *)
(* events (FlagsFollow).  Together, with nothing queued, they relate the   *)
(* flag to the links.                                                      *)
(*                                                                         *)
(* Why engines are left alike: while nothing has failed, what each engine  *)
(* will be once its requests are handled is the same for all               *)
(* (OutcomesAgree); none of the requests is held back or lost              *)
(* (SocketsFirst, Steady).                                                 *)
(*                                                                         *)
(* Why a connect promise does not resolve on nothing: before the first     *)
(* connect no engine can be reported as connected (Unasked); after the     *)
(* only one, the proxies reported as connected have answered it (Answers); *)
(* and an engine reported as connected is, or its end is queued            *)
(* (UpOrQueued).                                                           *)
(***************************************************************************)
EXTENDS SpdzConnection, SequenceTheorems, WellFoundedInduction, TLAPS

\* The type of event whose reports cannot be lost
Reliable(t) == t = PROXY_CONNECT \/ (t = SPDZ_CONNECT /\ ~WebSocketDrops)

\* The last report about p of type t, handled or not, is the truth
Tracks(t, p) ==
  /\ Queued(p, t) = {} => (p \in up[t] <=> p \in link[t])
  /\ \A i \in Queued(p, t) :
       (\A j \in Queued(p, t) : j <= i)
         => (events[p][i].status <=> p \in link[t])

Tracking == \A t \in EventType : Reliable(t) => \A p \in Proxies : Tracks(t, p)

\* A flag is true exactly when the latest event of every proxy is
FlagsFollow ==
  \A t \in EventType :
    /\ up[t] \subseteq heard[t]
    /\ connected[t] <=> up[t] = Proxies

\* No web socket has been lost so far
Steady == ~WebSocketDrops \/ troubles = 0

\* While web sockets stay up, p's engine is only ever used once p's web socket
\* is known to be up, and nothing more is then reported of the web socket
SocketFirst(p) ==
  /\ \A i, j \in Queued(p, PROXY_CONNECT) : i = j
  /\ p \in up[PROXY_CONNECT] => Queued(p, PROXY_CONNECT) = {}
  /\ \/ requests[p] # <<>>
     \/ Queued(p, SPDZ_CONNECT) # {}
     \/ p \in link[SPDZ_CONNECT]
     \/ p \in up[SPDZ_CONNECT]
     => p \in up[PROXY_CONNECT]
  /\ buffered[p] = <<>>

SocketsFirst == Steady => \A p \in Proxies : SocketFirst(p)

\* How p's engine will be once p's requests are handled, if none fails
Outcome(p) ==
  IF requests[p] = <<>> THEN p \in link[SPDZ_CONNECT]
  ELSE requests[p][Len(requests[p])] = "connectToSpdz"

OutcomesAgree ==
  troubles = 0
    => \A p, q \in Proxies : Outcome(p) <=> Outcome(q)

IInv == TypeOK /\ Tracking /\ FlagsFollow /\ SocketsFirst /\ OutcomesAgree

-----------------------------------------------------------------------------
\* The types of events are two, and distinct
LEMMA EventTypes ==
  /\ PROXY_CONNECT \in EventType /\ SPDZ_CONNECT \in EventType
  /\ PROXY_CONNECT # SPDZ_CONNECT
BY DEF EventType, PROXY_CONNECT, SPDZ_CONNECT

\* What a socket's emit leaves in the two queues has their type
LEMMA EmitType ==
  ASSUME TypeOK, NEW p \in Proxies, NEW r \in Request
  PROVE  /\ emit(p, r)[1] \in Seq(Request)
         /\ emit(p, r)[2] \in Seq(Request)
BY DEF TypeOK, emit

\* Every state of a behaviour has the right type
LEMMA InitType == Init => TypeOK
<1> SUFFICES ASSUME Init PROVE TypeOK
  OBVIOUS
<1>1. opened \in BOOLEAN /\ troubles \in Nat
  BY DEF Init
<1>2. requests \in [Proxies -> Seq(Request)]
  BY DEF Init
<1>3. buffered \in [Proxies -> Seq(Request)]
  BY DEF Init
<1>4. events \in [Proxies -> Seq(Event)]
  BY DEF Init
<1>5. /\ link \in [EventType -> SUBSET Proxies]
      /\ heard \in [EventType -> SUBSET Proxies]
      /\ up \in [EventType -> SUBSET Proxies]
      /\ connected \in [EventType -> BOOLEAN]
  BY DEF Init
<1>6. kind \in [Calls -> Kind] /\ promise \in [Calls -> Promise]
  BY DEF Init, Kind, Promise
<1>7. answered \in [Calls -> SUBSET Proxies]
  BY DEF Init
<1> QED
  BY <1>1, <1>2, <1>3, <1>4, <1>5, <1>6, <1>7 DEF TypeOK

\* Every step keeps the types
LEMMA NextType == TypeOK /\ [Next]_vars => TypeOK'
<1> SUFFICES ASSUME TypeOK, [Next]_vars PROVE TypeOK'
  OBVIOUS
<1> USE EventTypes
<1>1. ASSUME NEW c \in Calls, CallProxies(c) PROVE TypeOK'
  BY <1>1 DEF CallProxies, Start, TypeOK, Kind, Promise
<1>2. ASSUME NEW c \in Calls, NEW k \in {"connect", "disconnect"},
             CallParty(c, k)
      PROVE  TypeOK'
  <2>1. requestOf(k) \in Request
    BY DEF requestOf, Request
  <2>2. /\ requests' \in [Proxies -> Seq(Request)]
        /\ buffered' \in [Proxies -> Seq(Request)]
    BY <1>2, <2>1, EmitType DEF CallParty, Push, TypeOK
  <2>3. kind' \in [Calls -> Kind] /\ promise' \in [Calls -> Promise]
    BY <1>2 DEF CallParty, Start, TypeOK, Kind, Promise
  <2> QED
    BY <1>2, <2>2, <2>3 DEF CallParty, TypeOK
<1>3. ASSUME NEW c \in Calls, Timeout(c) PROVE TypeOK'
  BY <1>3 DEF Timeout, TypeOK, Promise
<1>4. ASSUME NEW p \in Proxies, Deliver(p) PROVE TypeOK'
  <2> DEFINE e == Head(events[p])
  <2>1. e \in Event /\ Tail(events[p]) \in Seq(Event)
    BY <1>4, HeadTailProperties DEF Deliver, TypeOK
  <2>a. e.eventType \in EventType /\ e.status \in BOOLEAN
    BY <2>1 DEF Event
  <2>2. /\ events' \in [Proxies -> Seq(Event)]
        /\ heard' \in [EventType -> SUBSET Proxies]
        /\ up' \in [EventType -> SUBSET Proxies]
    BY <1>4, <2>1, <2>a DEF Deliver, TypeOK, latest
  <2>3. /\ connected' \in [EventType -> BOOLEAN]
        /\ promise' \in [Calls -> Promise]
    BY <1>4, <2>a DEF Deliver, TypeOK, Combined, combinedStatus, Promise
  <2>4. /\ requests' \in [Proxies -> Seq(Request)]
        /\ buffered' \in [Proxies -> Seq(Request)]
    <3>1. requests[p] \o buffered[p] \in Seq(Request)
          /\ <<>> \in Seq(Request)
      BY ConcatProperties DEF TypeOK
    <3> QED
      BY <1>4, <3>1 DEF Deliver, TypeOK
  <2>5. answered' \in [Calls -> SUBSET Proxies]
    BY <1>4 DEF Deliver, TypeOK
  <2> QED
    BY <1>4, <2>2, <2>3, <2>4, <2>5 DEF Deliver, TypeOK
<1>5. ASSUME NEW p \in Proxies, EnvironmentStep(p) PROVE TypeOK'
  <2>1. ASSUME NEW t \in EventType, NEW status \in BOOLEAN,
               Report(p, t, status)
        PROVE  events' \in [Proxies -> Seq(Event)]
    <3>1. Append(events[p], [eventType |-> t, status |-> status]) \in Seq(Event)
      BY AppendProperties DEF TypeOK, Event
    <3> QED
      BY <2>1, <3>1 DEF Report, TypeOK
  <2>2. ASSUME Trouble PROVE troubles' \in Nat
    BY <2>2 DEF Trouble, TypeOK
  <2>3. ASSUME NEW r \in Request, Handle(p, r)
        PROVE  requests' \in [Proxies -> Seq(Request)]
    BY <2>3, HeadTailProperties DEF Handle, TypeOK
  <2>4. CASE WebConnect(p)
    BY <2>4, <2>1 DEF WebConnect, client, TypeOK
  <2>5. CASE WebConnectFails(p)
    BY <2>5, <2>1, <2>2 DEF WebConnectFails, client, TypeOK
  <2>6. CASE WebDrop(p)
    <3>1. PICK n \in 0..Len(events[p]) :
            events' = [events EXCEPT ![p] =
              Append(SubSeq(@, 1, n),
                     [eventType |-> PROXY_CONNECT, status |-> FALSE])]
      BY <2>6 DEF WebDrop
    <3>2. SubSeq(events[p], 1, n) \in Seq(Event)
      BY SubSeqProperties DEF TypeOK
    <3>3. events' \in [Proxies -> Seq(Event)]
      BY <3>1, <3>2, AppendProperties DEF TypeOK, Event
    <3>4. requests' \in [Proxies -> Seq(Request)]
      BY <2>6 DEF WebDrop, TypeOK
    <3> QED
      BY <2>6, <2>2, <3>3, <3>4 DEF WebDrop, client, TypeOK
  <2>7. CASE EngineAccepts(p)
    BY <2>7, <2>1, <2>3 DEF EngineAccepts, Handle, Request, client, TypeOK
  <2>8. CASE EngineRefuses(p)
    BY <2>8, <2>1, <2>2, <2>3
    DEF EngineRefuses, Handle, Request, client, TypeOK
  <2>9. CASE EngineLeaves(p)
    BY <2>9, <2>1, <2>3 DEF EngineLeaves, Handle, Request, client, TypeOK
  <2>10. CASE EngineCloses(p)
    BY <2>10, <2>1, <2>2 DEF EngineCloses, client, TypeOK
  <2> QED
    BY <1>5, <2>4, <2>5, <2>6, <2>7, <2>8, <2>9, <2>10 DEF EnvironmentStep
<1>6. CASE UNCHANGED vars
  BY <1>6 DEF vars, TypeOK
<1> QED
  BY <1>1, <1>2, <1>3, <1>4, <1>5, <1>6
  DEF Next, ApplicationStep, CallConnect, CallDisconnect

\* TypeOK is an invariant of the specification
THEOREM TypeCorrect == Spec => []TypeOK
BY InitType, NextType, PTL DEF Spec

-----------------------------------------------------------------------------
(* Tracking: the last report is the truth.                                 *)

\* A report appended for p becomes the last one of its type; it disturbs
\* nothing about the other proxies and the other type
LEMMA ReportTracks ==
  ASSUME TypeOK, NEW p \in Proxies, NEW q \in Proxies,
         NEW t \in EventType, NEW u \in EventType, NEW status \in BOOLEAN,
         Report(p, u, status), up' = up, Tracks(t, q),
         q = p /\ t = u => (q \in link'[t] <=> status),
         ~(q = p /\ t = u) => (q \in link'[t] <=> q \in link[t])
  PROVE  Tracks(t, q)'
<1> DEFINE n == Len(events[q])
<1>0. /\ events[q] \in Seq(Event) /\ n \in Nat
      /\ events \in [Proxies -> Seq(Event)]
  BY DEF TypeOK
<1>1. CASE q # p
  <2>1. events'[q] = events[q]
    BY <1>0, <1>1 DEF Report
  <2> QED
    BY <1>1, <2>1 DEF Tracks, Queued
<1>2. CASE q = p
  <2> DEFINE new == [eventType |-> u, status |-> status]
  <2>0. new \in Event /\ new.eventType = u /\ new.status = status
    BY DEF Event
  <2>1. events'[q] = Append(events[q], new)
    BY <1>0, <1>2 DEF Report
  <2> HIDE DEF new
  <2>2. /\ Len(events'[q]) = n + 1
        /\ \A i \in 1..n : events'[q][i] = events[q][i]
        /\ events'[q][n + 1] = new
    BY <1>0, <2>0, <2>1, AppendProperties
  <2>3. CASE t = u
    <3>1. n + 1 \in Queued(q, t)' /\ \A j \in Queued(q, t)' : j <= n + 1
      BY <1>0, <2>0, <2>2, <2>3 DEF Queued
    <3>2. ASSUME NEW i \in Queued(q, t)', \A j \in Queued(q, t)' : j <= i
          PROVE  (events'[q][i].status <=> q \in link'[t])
      <4>1. i = n + 1
        BY <3>1, <3>2, <1>0, <2>2 DEF Queued
      <4> QED
        BY <4>1, <2>0, <2>2, <1>2, <2>3
    <3> QED
      BY <3>1, <3>2 DEF Tracks
  <2>4. CASE t # u
    <3>1. Queued(q, t)' = Queued(q, t)
      BY <1>0, <2>0, <2>2, <2>4 DEF Queued
    <3>2. \A i \in Queued(q, t) : events'[q][i] = events[q][i]
      BY <1>0, <2>2 DEF Queued
    <3> QED
      BY <3>1, <3>2, <2>4 DEF Tracks
  <2> QED
    BY <2>3, <2>4
<1> QED
  BY <1>1, <1>2

\* Handling the first event of p moves the rest up and remembers its status
LEMMA DeliverTracks ==
  ASSUME TypeOK, NEW p \in Proxies, NEW q \in Proxies, NEW t \in EventType,
         Deliver(p), Tracks(t, q)
  PROVE  Tracks(t, q)'
<1> DEFINE es == events[p]
           e == Head(events[p])
<1>0. /\ es \in Seq(Event) /\ es # <<>> /\ link' = link
      /\ events' = [events EXCEPT ![p] = Tail(es)]
      /\ up' = [up EXCEPT ![e.eventType] = latest(e.eventType, p, e.status)]
      /\ events \in [Proxies -> Seq(Event)]
      /\ up \in [EventType -> SUBSET Proxies]
  BY DEF Deliver, TypeOK
<1>1. CASE q # p
  <2>1. events'[q] = events[q] /\ (q \in up'[t] <=> q \in up[t])
    BY <1>0, <1>1 DEF latest
  <2> QED
    BY <2>1, <1>0 DEF Tracks, Queued
<1>2. CASE q = p
  <2>1. /\ events'[p] = Tail(es) /\ Len(es) \in Nat \ {0}
        /\ Len(Tail(es)) = Len(es) - 1
        /\ \A i \in 1..Len(Tail(es)) : Tail(es)[i] = es[i + 1]
        /\ e = es[1] /\ e \in Event
    BY <1>0, HeadTailProperties
  <2>2. e.eventType \in EventType /\ e.status \in BOOLEAN
    BY <2>1 DEF Event
  <2>3. \A i \in Queued(p, t)' : i + 1 \in Queued(p, t)
                                 /\ events'[p][i] = es[i + 1]
    BY <2>1 DEF Queued
  <2>4. \A i \in Queued(p, t) : i = 1 \/ i - 1 \in Queued(p, t)'
    BY <2>1 DEF Queued
  <2>5. Queued(p, t) \subseteq Nat /\ Queued(p, t)' \subseteq Nat
    BY DEF Queued
  <2>6. ASSUME NEW i \in Queued(p, t)', \A j \in Queued(p, t)' : j <= i
        PROVE  (events'[p][i].status <=> p \in link'[t])
    <3>1. \A j \in Queued(p, t) : j <= i + 1
      BY <2>4, <2>5, <2>6
    <3> QED
      BY <3>1, <2>3, <1>0, <1>2 DEF Tracks
  <2>7. ASSUME Queued(p, t)' = {}
        PROVE  (p \in up'[t] <=> p \in link'[t])
    <3>1. CASE e.eventType = t
      <4>1. 1 \in Queued(p, t) /\ \A j \in Queued(p, t) : j <= 1
        <5>1. 1 \in Queued(p, t)
          BY <3>1, <2>1 DEF Queued
        <5>2. \A j \in Queued(p, t) : j = 1
          BY <2>4, <2>7
        <5> QED
          BY <5>1, <5>2
      <4>2. (e.status <=> p \in link[t])
        BY <4>1, <2>1, <1>2 DEF Tracks
      <4>3. (p \in up'[t] <=> e.status)
        BY <3>1, <1>0, <2>2 DEF latest
      <4> QED
        BY <4>2, <4>3, <1>0
    <3>2. CASE e.eventType # t
      <4>1. Queued(p, t) = {}
        <5>1. 1 \notin Queued(p, t)
          BY <3>2, <2>1 DEF Queued
        <5> QED
          BY <5>1, <2>4, <2>7
      <4>2. up'[t] = up[t]
        BY <3>2, <1>0
      <4> QED
        BY <4>1, <4>2, <1>0, <1>2 DEF Tracks
    <3> QED
      BY <3>1, <3>2
  <2> QED
    BY <1>2, <2>6, <2>7 DEF Tracks
<1> QED
  BY <1>1, <1>2

\* Losing p's web socket ends its queue with a report of the loss
LEMMA DropTracks ==
  ASSUME TypeOK, NEW p \in Proxies, NEW q \in Proxies, WebDrop(p),
         Tracks(PROXY_CONNECT, q)
  PROVE  Tracks(PROXY_CONNECT, q)'
<1> DEFINE t == PROXY_CONNECT
           es == events[p]
           lost == [eventType |-> PROXY_CONNECT, status |-> FALSE]
<1>0. /\ es \in Seq(Event) /\ t \in EventType /\ up' = up
      /\ link \in [EventType -> SUBSET Proxies]
      /\ link' = [link EXCEPT ![t] = @ \ {p}]
      /\ events \in [Proxies -> Seq(Event)]
  BY EventTypes DEF WebDrop, client, TypeOK
<1>1. PICK n \in 0..Len(es) :
        events' = [events EXCEPT ![p] = Append(SubSeq(es, 1, n), lost)]
  BY DEF WebDrop
<1>2. CASE q # p
  <2>1. events'[q] = events[q] /\ (q \in link'[t] <=> q \in link[t])
    BY <1>0, <1>1, <1>2
  <2> QED
    BY <2>1, <1>0 DEF Tracks, Queued
<1>3. CASE q = p
  <2> DEFINE kept == SubSeq(es, 1, n)
  <2>1. kept \in Seq(Event) /\ Len(kept) \in Nat
    BY <1>0, SubSeqProperties
  <2>2. events'[p] = Append(kept, lost)
    BY <1>0, <1>1
  <2>3. lost \in Event /\ lost.eventType = t /\ lost.status = FALSE
    BY EventTypes DEF Event
  <2> HIDE DEF lost, kept
  <2>4. /\ Len(events'[p]) = Len(kept) + 1
        /\ events'[p][Len(kept) + 1] = lost
    BY <2>1, <2>2, <2>3, AppendProperties
  <2>5. Len(kept) + 1 \in Queued(p, t)'
    BY <2>1, <2>3, <2>4 DEF Queued
  <2>6. ASSUME NEW i \in Queued(p, t)', \A j \in Queued(p, t)' : j <= i
        PROVE  (events'[p][i].status <=> p \in link'[t])
    <3>1. i = Len(kept) + 1
      BY <2>1, <2>4, <2>5, <2>6 DEF Queued
    <3>2. p \notin link'[t]
      BY <1>0
    <3> QED
      BY <3>1, <3>2, <2>3, <2>4
  <2> QED
    BY <1>3, <2>5, <2>6 DEF Tracks
<1> QED
  BY <1>2, <1>3

\* Tracking is kept by every step
LEMMA NextTracking ==
  TypeOK /\ Tracking /\ SocketsFirst /\ [Next]_vars => Tracking'
<1> SUFFICES ASSUME TypeOK, Tracking, SocketsFirst, [Next]_vars,
                    NEW t \in EventType, Reliable(t), NEW q \in Proxies,
                    Tracks(t, q)
             PROVE  Tracks(t, q)'
  BY DEF Tracking, Reliable
<1>1. ASSUME UNCHANGED <<events, up, link>> PROVE Tracks(t, q)'
  BY <1>1 DEF Tracks, Queued
<1>2. ASSUME NEW c \in Calls, ApplicationStep(c) PROVE Tracks(t, q)'
  BY <1>1, <1>2 DEF ApplicationStep, CallProxies, CallConnect, CallDisconnect,
      CallParty, Timeout
<1>3. ASSUME NEW p \in Proxies, Deliver(p) PROVE Tracks(t, q)'
  BY <1>3, DeliverTracks
<1>4. ASSUME NEW p \in Proxies, EnvironmentStep(p) PROVE Tracks(t, q)'
  <2>0. /\ PROXY_CONNECT \in EventType /\ SPDZ_CONNECT \in EventType
        /\ link \in [EventType -> SUBSET Proxies]
        /\ TRUE \in BOOLEAN /\ FALSE \in BOOLEAN
    BY EventTypes DEF TypeOK
  <2>1. CASE WebConnect(p)
    <3>1. Report(p, PROXY_CONNECT, TRUE) /\ up' = up
          /\ link' = [link EXCEPT ![PROXY_CONNECT] = @ \union {p}]
      BY <2>1 DEF WebConnect, client
    <3>2. q = p /\ t = PROXY_CONNECT => q \in link'[t]
      BY <3>1, <2>0
    <3>3. ~(q = p /\ t = PROXY_CONNECT) => (q \in link'[t] <=> q \in link[t])
      BY <3>1, <2>0
    <3> QED
      BY <3>1, <3>2, <3>3, <2>0, ReportTracks
  <2>2. CASE WebConnectFails(p)
    <3>1. Report(p, PROXY_CONNECT, FALSE) /\ up' = up /\ link' = link
          /\ p \notin link[PROXY_CONNECT]
      BY <2>2 DEF WebConnectFails, Attempting, client
    <3> QED
      BY <3>1, <2>0, ReportTracks
  <2>3. CASE WebDrop(p)
    <3>1. t = PROXY_CONNECT
      BY <2>3 DEF WebDrop, Reliable
    <3> QED
      BY <3>1, <2>3, DropTracks
  <2>4. CASE EngineAccepts(p)
    <3>1. Report(p, SPDZ_CONNECT, TRUE) /\ up' = up
          /\ link' = [link EXCEPT ![SPDZ_CONNECT] = @ \union {p}]
      BY <2>4 DEF EngineAccepts, Handle, client
    <3>2. q = p /\ t = SPDZ_CONNECT => q \in link'[t]
      BY <3>1, <2>0
    <3>3. ~(q = p /\ t = SPDZ_CONNECT) => (q \in link'[t] <=> q \in link[t])
      BY <3>1, <2>0
    <3> QED
      BY <3>1, <3>2, <3>3, <2>0, ReportTracks
  <2>5. ASSUME Report(p, SPDZ_CONNECT, FALSE), up' = up,
               link' = [link EXCEPT ![SPDZ_CONNECT] = @ \ {p}]
        PROVE  Tracks(t, q)'
    <3>1. q = p /\ t = SPDZ_CONNECT => q \notin link'[t]
      BY <2>5, <2>0
    <3>2. ~(q = p /\ t = SPDZ_CONNECT) => (q \in link'[t] <=> q \in link[t])
      BY <2>5, <2>0
    <3> QED
      BY <2>5, <3>1, <3>2, <2>0, ReportTracks
  <2>6. CASE EngineRefuses(p)
    BY <2>5, <2>6 DEF EngineRefuses, Handle, client
  <2>7. CASE EngineLeaves(p)
    BY <2>5, <2>7 DEF EngineLeaves, Handle, client
  <2>8. CASE EngineCloses(p)
    <3>1. CASE p \in link[PROXY_CONNECT]
      BY <2>5, <2>8, <3>1 DEF EngineCloses, client
    <3>2. CASE p \notin link[PROXY_CONNECT] /\ t = PROXY_CONNECT
      <4>1. link'[t] = link[t] /\ events' = events /\ up' = up
        BY <2>0, <2>8, <3>2, EventTypes DEF EngineCloses, client
      <4> QED
        BY <4>1 DEF Tracks, Queued
    <3>3. CASE p \notin link[PROXY_CONNECT] /\ t = SPDZ_CONNECT
      <4>1. ~WebSocketDrops
        BY <3>3, EventTypes DEF Reliable
      <4>2. p \in up[PROXY_CONNECT] /\ Queued(p, PROXY_CONNECT) = {}
        BY <4>1, <2>8 DEF Steady, SocketsFirst, SocketFirst, EngineCloses
      <4>3. p \in link[PROXY_CONNECT]
        BY <4>2, <2>0 DEF Tracking, Tracks, Reliable
      <4> QED
        BY <4>3, <3>3
    <3> QED
      BY <3>1, <3>2, <3>3 DEF EventType
  <2> QED
    BY <1>4, <2>1, <2>2, <2>3, <2>4, <2>6, <2>7, <2>8 DEF EnvironmentStep
<1>5. CASE UNCHANGED vars
  BY <1>1, <1>5 DEF vars
<1> QED
  BY <1>2, <1>3, <1>4, <1>5 DEF Next

-----------------------------------------------------------------------------
(* FlagsFollow: a flag is the conjunction of the latest events.            *)

\* Every step keeps the flags the conjunction of the latest events
LEMMA NextFlags == TypeOK /\ FlagsFollow /\ [Next]_vars => FlagsFollow'
<1> SUFFICES ASSUME TypeOK, FlagsFollow, [Next]_vars PROVE FlagsFollow'
  OBVIOUS
<1>1. ASSUME UNCHANGED <<heard, up, connected>> PROVE FlagsFollow'
  BY <1>1 DEF FlagsFollow
<1>2. ASSUME NEW p \in Proxies, Deliver(p) PROVE FlagsFollow'
  <2> DEFINE e == Head(events[p])
             u == e.eventType
  <2>1. u \in EventType /\ e.status \in BOOLEAN
    <3>1. e \in Event
      BY <1>2, HeadTailProperties DEF Deliver, TypeOK
    <3> QED
      BY <3>1 DEF Event
  <2>2. /\ heard' = [heard EXCEPT ![u] = @ \union {p}]
        /\ up' = [up EXCEPT ![u] = latest(u, p, e.status)]
        /\ Combined(u)
    BY <1>2 DEF Deliver
  <2> HIDE DEF e, u
  <2>3. /\ heard \in [EventType -> SUBSET Proxies]
        /\ up \in [EventType -> SUBSET Proxies]
        /\ connected \in [EventType -> BOOLEAN]
    BY DEF TypeOK
  <2>4. \A t \in EventType :
          up'[t] \subseteq heard'[t] /\ heard'[t] \subseteq Proxies
    BY <2>1, <2>2, <2>3 DEF FlagsFollow, latest
  <2>5. ASSUME NEW t \in EventType PROVE (connected'[t] <=> up'[t] = Proxies)
    <3>1. CASE t # u
      BY <2>2, <2>3, <3>1 DEF Combined, FlagsFollow
    <3>2. CASE t = u /\ heard'[t] = Proxies
      BY <2>1, <2>2, <2>3, <3>2 DEF Combined, combinedStatus
    <3>3. CASE t = u /\ heard'[t] # Proxies
      <4>1. connected' = connected
        BY <2>2, <3>3 DEF Combined
      <4>2. heard[t] # Proxies
        BY <2>1, <2>2, <2>3, <2>4, <3>3
      <4>3. up[t] # Proxies /\ up'[t] # Proxies
        BY <4>2, <2>3, <2>4, <3>3 DEF FlagsFollow
      <4> QED
        BY <4>1, <4>3 DEF FlagsFollow
    <3> QED
      BY <3>1, <3>2, <3>3
  <2> QED
    BY <2>4, <2>5 DEF FlagsFollow
<1>3. ASSUME NEW c \in Calls, ApplicationStep(c) PROVE FlagsFollow'
  BY <1>1, <1>3 DEF ApplicationStep, CallProxies, CallConnect, CallDisconnect,
      CallParty, Timeout
<1>4. ASSUME NEW p \in Proxies, EnvironmentStep(p) PROVE FlagsFollow'
  BY <1>1, <1>4
  DEF EnvironmentStep, WebConnect, WebConnectFails, WebDrop, EngineAccepts,
      EngineRefuses, EngineLeaves, EngineCloses, Handle, client
<1>5. CASE UNCHANGED vars
  BY <1>1, <1>5 DEF vars
<1> QED
  BY <1>2, <1>3, <1>4, <1>5 DEF Next

-----------------------------------------------------------------------------
(* SocketsFirst: engines come after web sockets.                           *)

\* What a report of type u about p adds to the queues
LEMMA ReportQueued ==
  ASSUME TypeOK, NEW p \in Proxies, NEW q \in Proxies,
         NEW t \in EventType, NEW u \in EventType, NEW status \in BOOLEAN,
         Report(p, u, status)
  PROVE  Queued(q, t)' = IF q = p /\ t = u
                           THEN Queued(q, t) \union {Len(events[q]) + 1}
                           ELSE Queued(q, t)
<1> DEFINE new == [eventType |-> u, status |-> status]
<1>0. events \in [Proxies -> Seq(Event)] /\ Len(events[q]) \in Nat
  BY DEF TypeOK
<1>a. new \in Event /\ new.eventType = u
  BY DEF Event
<1>1. /\ events \in [Proxies -> Seq(Event)] /\ Len(events[q]) \in Nat
      /\ new \in Event /\ new.eventType = u
      /\ events' = [events EXCEPT ![p] = Append(@, new)]
  BY <1>0, <1>a DEF Report
<1> HIDE DEF new
<1>2. CASE q # p
  BY <1>1, <1>2 DEF Queued
<1>3. CASE q = p
  <2>1. /\ Len(events'[q]) = Len(events[q]) + 1
        /\ \A i \in 1..Len(events[q]) : events'[q][i] = events[q][i]
        /\ events'[q][Len(events[q]) + 1] = new
    BY <1>1, <1>3, AppendProperties
  <2> QED
    BY <1>1, <1>3, <2>1 DEF Queued
<1> QED
  BY <1>2, <1>3

\* What handling p's first event does to the queues
LEMMA DeliverQueued ==
  ASSUME TypeOK, NEW p \in Proxies, Deliver(p), NEW t \in EventType
  PROVE  /\ Head(events[p]) = events[p][1]
         /\ Head(events[p]) \in Event
         /\ 1 \in Queued(p, Head(events[p]).eventType)
         /\ \A i \in Queued(p, t)' : i + 1 \in Queued(p, t) /\ i \in Nat \ {0}
         /\ \A q \in Proxies \ {p} : Queued(q, t)' = Queued(q, t)
<1>1. /\ events[p] \in Seq(Event) /\ events[p] # <<>>
      /\ events' = [events EXCEPT ![p] = Tail(events[p])]
      /\ events \in [Proxies -> Seq(Event)]
  BY DEF Deliver, TypeOK
<1>2. /\ events'[p] = Tail(events[p]) /\ Len(events[p]) \in Nat \ {0}
      /\ Len(Tail(events[p])) = Len(events[p]) - 1
      /\ \A i \in 1..Len(Tail(events[p])) :
           Tail(events[p])[i] = events[p][i + 1]
      /\ Head(events[p]) = events[p][1] /\ Head(events[p]) \in Event
  BY <1>1, HeadTailProperties
<1>3. 1 \in Queued(p, Head(events[p]).eventType)
  BY <1>2 DEF Queued
<1>4. \A i \in Queued(p, t)' : i + 1 \in Queued(p, t) /\ i \in Nat \ {0}
  BY <1>2 DEF Queued
<1>5. \A q \in Proxies \ {p} : Queued(q, t)' = Queued(q, t)
  BY <1>1 DEF Queued
<1> QED
  BY <1>2, <1>3, <1>4, <1>5

\* A request that is not refused finds every web socket up, and known to be
LEMMA RequestsReachAll ==
  ASSUME TypeOK, Tracking, FlagsFollow, Steady, SocketsFirst,
         NEW k \in {"connect", "disconnect"}, requestGuard(k),
         NEW q \in Proxies
  PROVE  q \in up[PROXY_CONNECT] /\ q \in link[PROXY_CONNECT]
<1>1. /\ PROXY_CONNECT \in EventType /\ SPDZ_CONNECT \in EventType
      /\ SocketFirst(q) /\ Tracks(PROXY_CONNECT, q)
  BY EventTypes DEF SocketsFirst, Tracking, Reliable
<1>2. q \in up[PROXY_CONNECT]
  <2>1. CASE k = "connect"
    BY <2>1, <1>1 DEF requestGuard, FlagsFollow
  <2>2. CASE k = "disconnect"
    <3>1. q \in up[SPDZ_CONNECT]
      BY <2>2, <1>1 DEF requestGuard, FlagsFollow
    <3> QED
      BY <3>1, <1>1 DEF SocketFirst
  <2> QED
    BY <2>1, <2>2
<1> QED
  BY <1>1, <1>2 DEF SocketFirst, Tracks

\* What has been lost stays lost
LEMMA SteadySoFar ==
  TypeOK /\ [Next]_vars => troubles' >= troubles /\ (Steady' => Steady)
<1> SUFFICES ASSUME TypeOK, [Next]_vars PROVE troubles' >= troubles
  BY DEF Steady, TypeOK
<1>1. troubles \in Nat
  BY DEF TypeOK
<1>2. CASE troubles' = troubles
  BY <1>1, <1>2
<1>3. CASE troubles' = troubles + 1
  BY <1>1, <1>3
<1> QED
  BY <1>2, <1>3
  DEF Next, ApplicationStep, CallProxies, CallConnect, CallDisconnect,
      CallParty, Timeout, Deliver, EnvironmentStep, WebConnect,
      WebConnectFails, WebDrop, EngineAccepts, EngineRefuses, EngineLeaves,
      EngineCloses, Trouble, vars

\* Without losses every step keeps engines behind web sockets known to be up
LEMMA NextSocketsFirst ==
  TypeOK /\ Tracking /\ FlagsFollow /\ SocketsFirst /\ [Next]_vars
    => SocketsFirst'
<1> SUFFICES ASSUME TypeOK, Tracking, FlagsFollow, [Next]_vars,
                    Steady, Steady', \A q \in Proxies : SocketFirst(q),
                    NEW q \in Proxies
             PROVE  SocketFirst(q)'
  BY SteadySoFar DEF SocketsFirst
<1>0. /\ PROXY_CONNECT \in EventType /\ SPDZ_CONNECT \in EventType
      /\ PROXY_CONNECT # SPDZ_CONNECT
      /\ link \in [EventType -> SUBSET Proxies]
      /\ up \in [EventType -> SUBSET Proxies]
      /\ requests \in [Proxies -> Seq(Request)]
      /\ buffered \in [Proxies -> Seq(Request)]
      /\ TRUE \in BOOLEAN /\ FALSE \in BOOLEAN
      /\ troubles \in Nat
  BY EventTypes DEF TypeOK
<1>1. SocketFirst(q) /\ Tracks(PROXY_CONNECT, q)
  BY <1>0 DEF Tracking, Reliable
<1>2. ASSUME UNCHANGED <<events, up, link, requests, buffered>>
      PROVE  SocketFirst(q)'
  BY <1>1, <1>2 DEF SocketFirst, Queued
<1>3. ASSUME NEW c \in Calls, NEW k \in {"connect", "disconnect"},
             CallParty(c, k)
      PROVE  SocketFirst(q)'
  <2>1. CASE ~requestGuard(k)
    BY <1>2, <1>3, <2>1 DEF CallParty
  <2>2. CASE requestGuard(k)
    <3>1. q \in up[PROXY_CONNECT]
      BY <2>2, RequestsReachAll DEF SocketsFirst
    <3>2. buffered'[q] = buffered[q]
      BY <1>3, <2>2, <3>1 DEF CallParty, Push, emit
    <3>3. UNCHANGED <<events, up, link>>
      BY <1>3 DEF CallParty
    <3> QED
      BY <3>1, <3>2, <3>3, <1>1 DEF SocketFirst, Queued
  <2> QED
    BY <2>1, <2>2
<1>4. ASSUME NEW p \in Proxies, Deliver(p) PROVE SocketFirst(q)'
  <2> DEFINE e == Head(events[p])
             u == e.eventType
  <2>1. /\ u \in EventType /\ e.status \in BOOLEAN
        /\ 1 \in Queued(p, u) /\ e = events[p][1]
    <3>1. e \in Event /\ 1 \in Queued(p, u) /\ e = events[p][1]
      BY <1>4, <1>0, DeliverQueued
    <3> QED
      BY <3>1 DEF Event
  <2>2. /\ up' = [up EXCEPT ![u] = latest(u, p, e.status)]
        /\ link' = link
        /\ requests'[q] = requests[q] /\ buffered'[q] = <<>>
    <3>1. buffered[q] = <<>> /\ buffered[p] = <<>>
      BY DEF SocketFirst
    <3>2. requests[p] \o <<>> = requests[p]
      BY <1>0, ConcatEmptySeq
    <3>3. requests'[q] = requests[q]
      BY <1>4, <1>0, <3>1, <3>2 DEF Deliver
    <3>4. buffered'[q] = <<>>
      BY <1>4, <1>0, <3>1 DEF Deliver
    <3> QED
      BY <1>4, <3>3, <3>4 DEF Deliver
  <2>3. CASE q # p
    <3>1. /\ Queued(q, PROXY_CONNECT)' = Queued(q, PROXY_CONNECT)
          /\ Queued(q, SPDZ_CONNECT)' = Queued(q, SPDZ_CONNECT)
      BY <1>4, <1>0, <2>3, DeliverQueued
    <3>2. \A t \in EventType : q \in up'[t] <=> q \in up[t]
      BY <2>1, <2>2, <2>3, <1>0 DEF latest
    <3> QED
      BY <3>1, <3>2, <2>2, <1>0, <1>1 DEF SocketFirst
  <2>4. CASE q = p /\ u = PROXY_CONNECT
    <3>1. q \notin up[PROXY_CONNECT]
      BY <2>1, <2>4, <1>1 DEF SocketFirst
    <3>2. /\ requests[q] = <<>> /\ Queued(q, SPDZ_CONNECT) = {}
          /\ q \notin link[SPDZ_CONNECT] /\ q \notin up[SPDZ_CONNECT]
      BY <3>1, <1>1 DEF SocketFirst
    <3>3. Queued(q, PROXY_CONNECT)' = {}
      <4>1. \A i \in Queued(q, PROXY_CONNECT)' :
              i + 1 \in Queued(q, PROXY_CONNECT) /\ i \in Nat \ {0}
        BY <1>4, <1>0, <2>4, DeliverQueued
      <4>2. \A i \in Queued(q, PROXY_CONNECT)' : i + 1 = 1
        BY <4>1, <2>1, <2>4, <1>1 DEF SocketFirst
      <4> QED
        BY <4>1, <4>2
    <3>4. Queued(q, SPDZ_CONNECT)' = {}
      BY <1>4, <1>0, <2>4, <3>2, DeliverQueued
    <3>5. q \notin up'[SPDZ_CONNECT]
      BY <2>2, <2>4, <3>2, <1>0
    <3> QED
      BY <3>2, <3>3, <3>4, <3>5, <2>2 DEF SocketFirst
  <2>5. CASE q = p /\ u = SPDZ_CONNECT
    <3>1. q \in up[PROXY_CONNECT] /\ Queued(q, PROXY_CONNECT) = {}
      BY <2>1, <2>5, <1>1 DEF SocketFirst
    <3>2. Queued(q, PROXY_CONNECT)' = {}
      BY <1>4, <1>0, <2>5, <3>1, DeliverQueued
    <3>3. q \in up'[PROXY_CONNECT]
      BY <3>1, <2>2, <2>5, <1>0
    <3> QED
      BY <3>2, <3>3, <2>2 DEF SocketFirst
  <2> QED
    BY <2>1, <2>3, <2>4, <2>5 DEF EventType
<1>5. ASSUME NEW p \in Proxies, EnvironmentStep(p) PROVE SocketFirst(q)'
  <2>1. ASSUME NEW status \in BOOLEAN, Report(p, PROXY_CONNECT, status),
               Attempting(p), up' = up,
               link'[SPDZ_CONNECT] = link[SPDZ_CONNECT],
               UNCHANGED <<requests, buffered>>
        PROVE  SocketFirst(q)'
    <3>1. Queued(q, SPDZ_CONNECT)' = Queued(q, SPDZ_CONNECT)
      BY <2>1, <1>0, ReportQueued
    <3>2. CASE q # p
      <4>1. Queued(q, PROXY_CONNECT)' = Queued(q, PROXY_CONNECT)
        BY <2>1, <1>0, <3>2, ReportQueued
      <4> QED
        BY <4>1, <3>1, <2>1, <1>1 DEF SocketFirst
    <3>3. CASE q = p
      <4>1. Queued(q, PROXY_CONNECT) = {} /\ q \notin link[PROXY_CONNECT]
        BY <2>1, <3>3 DEF Attempting, Queued
      <4>2. q \notin up[PROXY_CONNECT]
        BY <4>1, <1>1 DEF Tracks
      <4>3. Queued(q, PROXY_CONNECT)' = {Len(events[q]) + 1}
        BY <2>1, <1>0, <3>3, <4>1, ReportQueued
      <4> QED
        BY <4>2, <4>3, <3>1, <2>1, <1>1 DEF SocketFirst
    <3> QED
      BY <3>2, <3>3
  <2>2. CASE WebConnect(p)
    BY <2>1, <2>2, <1>0 DEF WebConnect, client
  <2>3. CASE WebConnectFails(p)
    BY <2>1, <2>3, <1>0 DEF WebConnectFails, client
  <2>4. ASSUME NEW status \in BOOLEAN, Report(p, SPDZ_CONNECT, status),
               p \in up[PROXY_CONNECT], up' = up, buffered' = buffered,
               \A r \in Proxies \ {p} :
                 /\ requests'[r] = requests[r]
                 /\ r \in link'[SPDZ_CONNECT] <=> r \in link[SPDZ_CONNECT]
        PROVE  SocketFirst(q)'
    <3>1. Queued(q, PROXY_CONNECT)' = Queued(q, PROXY_CONNECT)
      BY <2>4, <1>0, ReportQueued
    <3>2. CASE q # p
      <4>1. Queued(q, SPDZ_CONNECT)' = Queued(q, SPDZ_CONNECT)
        BY <2>4, <1>0, <3>2, ReportQueued
      <4> QED
        BY <4>1, <3>1, <3>2, <2>4, <1>1 DEF SocketFirst
    <3>3. CASE q = p
      BY <3>1, <3>3, <2>4, <1>1 DEF SocketFirst
    <3> QED
      BY <3>2, <3>3
  <2>5. ASSUME NEW r \in Request, Handle(p, r)
        PROVE  /\ p \in up[PROXY_CONNECT] /\ up' = up /\ buffered' = buffered
               /\ \A x \in Proxies \ {p} : requests'[x] = requests[x]
    BY <2>5, <1>0 DEF Handle, client, SocketFirst
  <2>6. CASE EngineAccepts(p)
    <3>1. \A r \in Proxies \ {p} :
            r \in link'[SPDZ_CONNECT] <=> r \in link[SPDZ_CONNECT]
      BY <2>6, <1>0 DEF EngineAccepts
    <3> QED
      BY <2>4, <2>5, <2>6, <3>1, <1>0 DEF EngineAccepts, Request
  <2>7. CASE EngineRefuses(p)
    <3>1. \A r \in Proxies \ {p} :
            r \in link'[SPDZ_CONNECT] <=> r \in link[SPDZ_CONNECT]
      BY <2>7, <1>0 DEF EngineRefuses
    <3> QED
      BY <2>4, <2>5, <2>7, <3>1, <1>0 DEF EngineRefuses, Request
  <2>8. CASE EngineLeaves(p)
    <3>1. \A r \in Proxies \ {p} :
            r \in link'[SPDZ_CONNECT] <=> r \in link[SPDZ_CONNECT]
      BY <2>8, <1>0 DEF EngineLeaves
    <3> QED
      BY <2>4, <2>5, <2>8, <3>1, <1>0 DEF EngineLeaves, Request
  <2>9. CASE EngineCloses(p)
    <3>1. \A r \in Proxies \ {p} :
            r \in link'[SPDZ_CONNECT] <=> r \in link[SPDZ_CONNECT]
      BY <2>9, <1>0 DEF EngineCloses
    <3>2. p \in up[PROXY_CONNECT] /\ Queued(p, PROXY_CONNECT) = {}
      BY <2>9 DEF EngineCloses, SocketFirst
    <3>3. p \in link[PROXY_CONNECT]
      BY <3>2, <1>0 DEF Tracking, Tracks, Reliable
    <3> QED
      BY <2>4, <2>9, <3>1, <3>2, <3>3, <1>0 DEF EngineCloses, client
  <2>10. ~WebDrop(p)
    BY <1>0 DEF WebDrop, Trouble, Steady
  <2> QED
    BY <1>5, <2>2, <2>3, <2>6, <2>7, <2>8, <2>9, <2>10 DEF EnvironmentStep
<1>6. ASSUME NEW c \in Calls, CallProxies(c) \/ Timeout(c)
      PROVE  SocketFirst(q)'
  BY <1>2, <1>6 DEF CallProxies, Timeout
<1>7. CASE UNCHANGED vars
  BY <1>2, <1>7 DEF vars
<1> QED
  BY <1>3, <1>4, <1>5, <1>6, <1>7
  DEF Next, ApplicationStep, CallConnect, CallDisconnect

-----------------------------------------------------------------------------
(* OutcomesAgree: without failures the engines are treated alike.          *)

\* Without failures every step leads all engines to the same outcome: a request
\* goes to every socket, and handling one changes no outcome
LEMMA NextOutcomes ==
  TypeOK /\ Tracking /\ FlagsFollow /\ SocketsFirst /\ OutcomesAgree
    /\ [Next]_vars => OutcomesAgree'
<1> SUFFICES ASSUME TypeOK, Tracking, FlagsFollow, SocketsFirst, OutcomesAgree,
                    [Next]_vars, troubles' = 0
             PROVE  \A p, q \in Proxies : (Outcome(p) <=> Outcome(q))'
  BY DEF OutcomesAgree
<1>a. troubles = 0 /\ Steady
  BY SteadySoFar DEF TypeOK, Steady
<1>0. /\ PROXY_CONNECT \in EventType /\ SPDZ_CONNECT \in EventType
      /\ PROXY_CONNECT # SPDZ_CONNECT /\ troubles \in Nat
      /\ link \in [EventType -> SUBSET Proxies]
      /\ requests \in [Proxies -> Seq(Request)]
      /\ buffered \in [Proxies -> Seq(Request)]
      /\ \A q \in Proxies : SocketFirst(q)
  BY <1>a, EventTypes DEF TypeOK, SocketsFirst
<1>1. ASSUME troubles = 0, \A q \in Proxies : Outcome(q)' <=> Outcome(q)
      PROVE  \A p, q \in Proxies : (Outcome(p) <=> Outcome(q))'
  BY <1>1 DEF OutcomesAgree
<1>2. ASSUME troubles' = troubles, requests' = requests,
             link'[SPDZ_CONNECT] = link[SPDZ_CONNECT]
      PROVE  \A p, q \in Proxies : (Outcome(p) <=> Outcome(q))'
  BY <1>1, <1>2 DEF Outcome
<1>3. ~Trouble
  BY <1>0 DEF Trouble
<1>4. ASSUME NEW c \in Calls, NEW k \in {"connect", "disconnect"},
             CallParty(c, k)
      PROVE  \A p, q \in Proxies : (Outcome(p) <=> Outcome(q))'
  <2>1. CASE ~requestGuard(k)
    BY <1>2, <1>4, <2>1 DEF CallParty
  <2>2. CASE requestGuard(k)
    <3>1. requestOf(k) \in Request
      BY DEF requestOf, Request
    <3>2. ASSUME NEW q \in Proxies
          PROVE  Outcome(q)' <=> requestOf(k) = "connectToSpdz"
      <4>1. q \in up[PROXY_CONNECT] /\ q \in link[PROXY_CONNECT]
        BY <1>a, <2>2, RequestsReachAll
      <4>2. requests'[q] = Append(requests[q], requestOf(k))
        BY <1>4, <2>2, <4>1 DEF CallParty, Push, emit
      <4>3. /\ requests'[q] # <<>>
            /\ requests'[q][Len(requests'[q])] = requestOf(k)
        <5>1. requests[q] \in Seq(Request)
          BY <1>0
        <5> QED
          BY <4>2, <3>1, <5>1, AppendProperties
      <4> QED
        BY <4>3 DEF Outcome
    <3> QED
      BY <3>2
  <2> QED
    BY <2>1, <2>2
<1>5. ASSUME NEW p \in Proxies, Deliver(p)
      PROVE  \A x, y \in Proxies : (Outcome(x) <=> Outcome(y))'
  <2>1. buffered[p] = <<>> /\ requests[p] \o <<>> = requests[p]
    BY <1>0, ConcatEmptySeq DEF SocketFirst
  <2>2. requests' = requests
    BY <1>5, <1>0, <2>1 DEF Deliver
  <2> QED
    BY <1>2, <1>5, <2>2 DEF Deliver
<1>6. ASSUME NEW p \in Proxies, EnvironmentStep(p)
      PROVE  \A x, y \in Proxies : (Outcome(x) <=> Outcome(y))'
  <2>1. CASE WebConnect(p)
    BY <1>0, <1>2, <2>1 DEF WebConnect
  <2>2. ASSUME NEW r \in Request, Handle(p, r), troubles' = troubles,
               p \in link'[SPDZ_CONNECT] <=> r = "connectToSpdz",
               \A x \in Proxies \ {p} :
                 x \in link'[SPDZ_CONNECT] <=> x \in link[SPDZ_CONNECT]
        PROVE  \A x, y \in Proxies : (Outcome(x) <=> Outcome(y))'
    <3>1. /\ requests[p] \in Seq(Request) /\ requests[p] # <<>>
          /\ r = Head(requests[p])
          /\ requests' = [requests EXCEPT ![p] = Tail(requests[p])]
      BY <2>2, <1>0 DEF Handle
    <3>2. /\ requests'[p] = Tail(requests[p])
          /\ Len(requests[p]) \in Nat \ {0}
          /\ requests[p][1] = r
          /\ Tail(requests[p]) \in Seq(Request)
          /\ Len(Tail(requests[p])) = Len(requests[p]) - 1
          /\ \A i \in 1..Len(Tail(requests[p])) :
               Tail(requests[p])[i] = requests[p][i + 1]
      BY <3>1, <1>0, HeadTailProperties
    <3>3. Outcome(p)' <=> Outcome(p)
      <4>0. requests'[p] = <<>> <=> Len(requests[p]) = 1
        <5> DEFINE rest == Tail(requests[p])
        <5>0. rest \in Seq(Request) /\ requests'[p] = rest
              /\ Len(rest) = Len(requests[p]) - 1
          BY <3>2
        <5> HIDE DEF rest
        <5>1. CASE rest = <<>>
          BY <5>0, <5>1, <3>2, EmptySeq
        <5>2. CASE rest # <<>>
          <6>1. Len(rest) \in Nat \ {0}
            BY <5>0, <5>2, EmptySeq
          <6> QED
            BY <6>1, <5>0, <5>2, <3>2
        <5> QED
          BY <5>1, <5>2
      <4>1. CASE Len(requests[p]) = 1
        <5>1. requests'[p] = <<>>
          BY <4>0, <4>1
        <5> QED
          BY <5>1, <4>1, <3>1, <3>2, <2>2 DEF Outcome
      <4>2. CASE Len(requests[p]) # 1
        <5>1. requests'[p] # <<>> /\ Len(requests'[p]) = Len(requests[p]) - 1
          BY <4>0, <4>2, <3>2
        <5>2. requests'[p][Len(requests'[p])] = requests[p][Len(requests[p])]
          BY <4>2, <5>1, <3>2
        <5> QED
          BY <5>1, <5>2, <3>1 DEF Outcome
      <4> QED
        BY <4>1, <4>2
    <3>4. ASSUME NEW x \in Proxies \ {p} PROVE Outcome(x)' <=> Outcome(x)
      BY <3>1, <1>0, <2>2 DEF Outcome
    <3> QED
      BY <1>1, <3>3, <3>4, <2>2
  <2>3. CASE EngineAccepts(p)
    BY <1>0, <2>2, <2>3 DEF EngineAccepts, Request
  <2>4. CASE EngineLeaves(p)
    BY <1>0, <2>2, <2>4 DEF EngineLeaves, Request
  <2> QED
    BY <1>3, <1>6, <2>1, <2>3, <2>4
    DEF EnvironmentStep, WebConnectFails, WebDrop, EngineRefuses, EngineCloses
<1>7. ASSUME NEW c \in Calls, CallProxies(c) \/ Timeout(c)
      PROVE  \A p, q \in Proxies : (Outcome(p) <=> Outcome(q))'
  BY <1>2, <1>7 DEF CallProxies, Timeout
<1>8. CASE UNCHANGED vars
  BY <1>2, <1>8 DEF vars
<1> QED
  BY <1>4, <1>5, <1>6, <1>7, <1>8
  DEF Next, ApplicationStep, CallConnect, CallDisconnect

-----------------------------------------------------------------------------
(* The theorems.                                                           *)

\* The inductive invariant holds at the start
LEMMA InitInv == Init => IInv
<1> SUFFICES ASSUME Init PROVE IInv
  OBVIOUS
<1>1. TypeOK
  BY InitType
<1>2. \A t \in EventType, p \in Proxies : Queued(p, t) = {}
  <2>1. Len(<<>>) = 0
    BY EmptySeq
  <2>2. 1..0 = {}
    OBVIOUS
  <2> QED
    BY <2>1, <2>2 DEF Init, Queued
<1>3. Tracking
  BY <1>2 DEF Init, Tracking, Tracks
<1>4. FlagsFollow
  BY ProxiesAssumption DEF Init, FlagsFollow
<1>5. SocketsFirst
  BY <1>2, EventTypes DEF Init, SocketsFirst, SocketFirst
<1>6. OutcomesAgree
  BY EventTypes DEF Init, OutcomesAgree, Outcome
<1> QED
  BY <1>1, <1>3, <1>4, <1>5, <1>6 DEF IInv

\* The inductive invariant is kept by every step
LEMMA NextInv == IInv /\ [Next]_vars => IInv'
BY NextType, NextTracking, NextFlags, NextSocketsFirst, NextOutcomes DEF IInv

\* The inductive invariant holds in every state
LEMMA Inductive == Spec => []IInv
BY InitInv, NextInv, PTL DEF Spec

\* With nothing queued for type t, the flag tells the truth about the links
LEMMA QuietTruth ==
  ASSUME IInv, NEW t \in EventType, Reliable(t), Quiet(t)
  PROVE  connected[t] <=> link[t] = Proxies
<1>1. up[t] = link[t]
  <2>1. \A p \in Proxies : p \in up[t] <=> p \in link[t]
    BY DEF IInv, Tracking, Tracks, Quiet
  <2>2. up[t] \subseteq Proxies /\ link[t] \subseteq Proxies
    BY DEF IInv, TypeOK
  <2> QED
    BY <2>1, <2>2
<1> QED
  BY <1>1 DEF IInv, FlagsFollow

\* connectedToProxies is right whenever no web socket event is queued, even
\* when web sockets come and go
THEOREM ProxyStatus == Spec => []ProxyStatusTruthful
<1>1. IInv => ProxyStatusTruthful
  BY QuietTruth, EventTypes DEF ProxyStatusTruthful, Reliable
<1> QED
  BY <1>1, Inductive, PTL

\* connectedToSpdz is right whenever no engine event is queued, as long as
\* the web sockets stay up
THEOREM SpdzStatus ==
  ASSUME ~WebSocketDrops
  PROVE  Spec => []SpdzStatusTruthful
<1>1. IInv => SpdzStatusTruthful
  BY QuietTruth, EventTypes DEF SpdzStatusTruthful, Reliable
<1> QED
  BY <1>1, Inductive, PTL

\* As long as nothing fails, the engines end up all connected or all
\* disconnected
THEOREM EnginesAgree == Spec => []AllOrNone
<1>1. IInv => AllOrNone
  <2> SUFFICES ASSUME IInv, troubles = 0, \A p \in Proxies : requests[p] = <<>>
               PROVE  link[SPDZ_CONNECT] \in {{}, Proxies}
    BY DEF AllOrNone
  <2>1. \A p, q \in Proxies :
          p \in link[SPDZ_CONNECT] <=> q \in link[SPDZ_CONNECT]
    BY DEF IInv, OutcomesAgree, Outcome
  <2>2. link[SPDZ_CONNECT] \subseteq Proxies
    BY EventTypes DEF IInv, TypeOK
  <2> QED
    BY <2>1, <2>2
<1> QED
  BY <1>1, Inductive, PTL

-----------------------------------------------------------------------------
(* A connect promise never resolves on nothing.                            *)

\* A nonempty set of positions has a last one
LEMMA LastPosition ==
  ASSUME NEW n \in Nat, NEW I \in SUBSET (1..n), I # {}
  PROVE  \E i \in I : \A j \in I : j <= i
<1> DEFINE D == {d \in Nat : n - d \in I}
<1>1. D # {} /\ D \subseteq Nat
  <2>1. PICK i \in I : TRUE
    OBVIOUS
  <2>2. n - i \in Nat /\ n - (n - i) = i
    BY <2>1
  <2> QED
    BY <2>1, <2>2
<1>2. \E d \in D : \A e \in D : ~(<<e, d>> \in OpToRel(<, Nat))
  BY <1>1, NatLessThanWellFounded, WFMin
<1>3. \E d \in D : \A e \in D : ~(e < d)
  BY <1>1, <1>2, Zenon DEF OpToRel
<1>4. PICK d \in D : \A e \in D : ~(e < d)
  BY <1>3
<1>5. ASSUME NEW j \in I PROVE j <= n - d
  <2>1. n - j \in Nat /\ n - (n - j) = j
    OBVIOUS
  <2>2. n - j \in D
    BY <2>1
  <2> QED
    BY <1>4, <2>1, <2>2
<1> QED
  BY <1>4, <1>5

\* The report that p's engine is connected, or is not
Reported(status) == [eventType |-> SPDZ_CONNECT, status |-> status]

\* What the latest events say is so, or the news that it is not is queued
UpOrQueued ==
  \A p \in Proxies : p \in up[SPDZ_CONNECT] =>
    \/ p \in link[SPDZ_CONNECT]
    \/ \E i \in 1..Len(events[p]) : events[p][i] = Reported(FALSE)

LEMMA Tracked == IInv /\ ~WebSocketDrops => UpOrQueued
<1> SUFFICES ASSUME TypeOK, Tracking, ~WebSocketDrops,
                    NEW p \in Proxies, p \in up[SPDZ_CONNECT]
             PROVE  \/ p \in link[SPDZ_CONNECT]
                    \/ \E i \in 1..Len(events[p]) :
                         events[p][i] = Reported(FALSE)
  BY DEF IInv, UpOrQueued
<1>1. SPDZ_CONNECT \in EventType /\ Tracks(SPDZ_CONNECT, p)
  BY EventTypes DEF Tracking, Reliable
<1>2. CASE Queued(p, SPDZ_CONNECT) = {}
  BY <1>1, <1>2 DEF Tracks
<1>3. CASE Queued(p, SPDZ_CONNECT) # {}
  <2>1. /\ Len(events[p]) \in Nat /\ events[p] \in Seq(Event)
        /\ Queued(p, SPDZ_CONNECT) \subseteq 1..Len(events[p])
    BY DEF TypeOK, Queued
  <2>2. PICK i \in Queued(p, SPDZ_CONNECT) :
          \A j \in Queued(p, SPDZ_CONNECT) : j <= i
    BY <1>3, <2>1, LastPosition
  <2>3. /\ i \in 1..Len(events[p]) /\ events[p][i].eventType = SPDZ_CONNECT
        /\ (events[p][i].status <=> p \in link[SPDZ_CONNECT])
    BY <2>2, <1>1 DEF Tracks, Queued
  <2>4. CASE p \notin link[SPDZ_CONNECT]
    <3>1. events[p][i] \in Event
      BY <2>1, <2>3
    <3>2. events[p][i] = Reported(FALSE)
      BY <3>1, <2>3, <2>4 DEF Event, Reported
    <3> QED
      BY <3>2, <2>3
  <2> QED
    BY <2>4
<1> QED
  BY <1>2, <1>3

\* No element of s is x
Avoids(s, x) == \A i \in 1..Len(s) : s[i] # x

\* How sequences that avoid x grow and shrink
LEMMA AvoidsNone == \A x : Avoids(<<>>, x)
<1>1. Len(<<>>) = 0
  BY EmptySeq
<1> QED
  BY <1>1 DEF Avoids

LEMMA AvoidsConcat ==
  ASSUME NEW S, NEW x, NEW s \in Seq(S), NEW t \in Seq(S),
         Avoids(s, x), Avoids(t, x)
  PROVE  Avoids(s \o t, x)
<1>1. /\ s \o t \in Seq(S) /\ Len(s \o t) = Len(s) + Len(t)
      /\ Len(s) \in Nat /\ Len(t) \in Nat
      /\ \A i \in 1..(Len(s) + Len(t)) :
           (s \o t)[i] = IF i <= Len(s) THEN s[i] ELSE t[i - Len(s)]
  BY ConcatProperties
<1> QED
  BY <1>1 DEF Avoids

LEMMA AvoidsSteps ==
  ASSUME NEW S, NEW x, NEW s \in Seq(S), Avoids(s, x)
  PROVE  /\ \A y \in S : y # x => Avoids(Append(s, y), x)
         /\ s # <<>> => Avoids(Tail(s), x) /\ Head(s) # x
         /\ \A n \in 0..Len(s) :
              SubSeq(s, 1, n) \in Seq(S) /\ Avoids(SubSeq(s, 1, n), x)
<1>1. ASSUME NEW y \in S, y # x PROVE Avoids(Append(s, y), x)
  BY <1>1, AppendProperties DEF Avoids
<1>2. ASSUME s # <<>> PROVE Avoids(Tail(s), x) /\ Head(s) # x
  BY <1>2, HeadTailProperties DEF Avoids
<1>3. ASSUME NEW n \in 0..Len(s)
      PROVE  SubSeq(s, 1, n) \in Seq(S) /\ Avoids(SubSeq(s, 1, n), x)
  <2>1. /\ Len(SubSeq(s, 1, n)) = n /\ Len(s) \in Nat
        /\ \A i \in 1..n : SubSeq(s, 1, n)[i] = s[i]
    OBVIOUS
  <2>2. SubSeq(s, 1, n) \in Seq(S)
    OBVIOUS
  <2> QED
    BY <2>1, <2>2 DEF Avoids
<1> QED
  BY <1>1, <1>2, <1>3

\* Nobody has asked p for its engine, so nothing says that it is connected
UnaskedAt(p) ==
  /\ Avoids(requests[p], "connectToSpdz")
  /\ Avoids(buffered[p], "connectToSpdz")
  /\ Avoids(events[p], Reported(TRUE))
  /\ p \notin up[SPDZ_CONNECT]

NoConnect == \A c \in Calls : kind[c] # "connect"
OnlyConnect(c) == \A d \in Calls \ {c} : kind[d] # "connect"

Unasked ==
  /\ \A c \in Calls : promise[c] = "unused" => kind[c] = "none"
  /\ NoConnect => \A p \in Proxies : UnaskedAt(p)

\* The connections known of are those reported since the only connect
Answers ==
  \A c \in Calls :
    kind[c] = "connect" /\ promise[c] = "pending" /\ OnlyConnect(c)
      => up[SPDZ_CONNECT] \subseteq answered[c]

\* A report other than that of a connected engine keeps p unasked
LEMMA ReportUnasked ==
  ASSUME TypeOK, NEW p \in Proxies, NEW q \in Proxies,
         NEW t \in EventType, NEW status \in BOOLEAN, Report(p, t, status),
         t = PROXY_CONNECT \/ ~status, Avoids(events[q], Reported(TRUE))
  PROVE  Avoids(events[q], Reported(TRUE))'
<1> DEFINE e == [eventType |-> t, status |-> status]
<1>1. /\ e \in Event /\ e # Reported(TRUE)
      /\ events[q] \in Seq(Event) /\ events \in [Proxies -> Seq(Event)]
  BY EventTypes DEF TypeOK, Event, Reported
<1>2. events'[q] = IF q = p THEN Append(events[q], e) ELSE events[q]
  BY <1>1 DEF Report
<1> HIDE DEF e
<1>3. Avoids(Append(events[q], e), Reported(TRUE))
  BY <1>1, AvoidsSteps
<1> QED
  BY <1>2, <1>3 DEF Avoids, Reported

\* Every step keeps what nobody asked for away
LEMMA NextUnasked == TypeOK /\ Unasked /\ [Next]_vars => Unasked'
<1> SUFFICES ASSUME TypeOK, Unasked, [Next]_vars PROVE Unasked'
  OBVIOUS
<1>0. /\ PROXY_CONNECT \in EventType /\ SPDZ_CONNECT \in EventType
      /\ PROXY_CONNECT # SPDZ_CONNECT
      /\ requests \in [Proxies -> Seq(Request)]
      /\ buffered \in [Proxies -> Seq(Request)]
      /\ events \in [Proxies -> Seq(Event)]
      /\ up \in [EventType -> SUBSET Proxies]
      /\ kind \in [Calls -> Kind] /\ promise \in [Calls -> Promise]
      /\ "disconnectFromSpdz" \in Request
      /\ "disconnectFromSpdz" # "connectToSpdz"
  BY EventTypes DEF TypeOK, Request
<1>1. ASSUME NEW c \in Calls, NEW k \in Kind,
             NEW state \in Promise \ {"unused"}, Start(c, k, state)
      PROVE  /\ \A d \in Calls : promise'[d] = "unused" => kind'[d] = "none"
             /\ NoConnect' => NoConnect /\ k # "connect"
  <2>1. kind[c] = "none" /\ kind' = [kind EXCEPT ![c] = k]
        /\ promise' = [promise EXCEPT ![c] = state]
    BY <1>1 DEF Start, Unasked
  <2> QED
    BY <1>0, <2>1 DEF Unasked, NoConnect
<1>2. ASSUME kind' = kind,
             \A d \in Calls : promise'[d] = "unused" => promise[d] = "unused",
             ASSUME NoConnect, NEW q \in Proxies, UnaskedAt(q)
             PROVE  UnaskedAt(q)'
      PROVE  Unasked'
  BY <1>2 DEF Unasked, NoConnect
<1>3. ASSUME UNCHANGED <<requests, buffered, events, up>>
      PROVE  \A q \in Proxies : UnaskedAt(q) => UnaskedAt(q)'
  BY <1>3 DEF UnaskedAt, Avoids, Reported
<1>4. ASSUME NEW c \in Calls, CallProxies(c) PROVE Unasked'
  BY <1>1, <1>3, <1>4 DEF CallProxies, Unasked, Kind, Promise
<1>5. ASSUME NEW c \in Calls, NEW k \in {"connect", "disconnect"},
             CallParty(c, k)
      PROVE  Unasked'
  <2>1. \E state \in Promise \ {"unused"} : Start(c, k, state)
    BY <1>5 DEF CallParty, Promise
  <2>2. /\ \A d \in Calls : promise'[d] = "unused" => kind'[d] = "none"
        /\ NoConnect' => NoConnect /\ k # "connect"
    BY <1>1, <2>1 DEF Kind
  <2>3. ASSUME NoConnect, k = "disconnect", NEW q \in Proxies
        PROVE  UnaskedAt(q)'
    <3>1. UnaskedAt(q)
      BY <2>3 DEF Unasked
    <3>2. UNCHANGED <<events, up>>
      BY <1>5 DEF CallParty
    <3>3. CASE ~requestGuard(k)
      BY <1>3, <1>5, <3>1, <3>2, <3>3 DEF CallParty
    <3>4. CASE requestGuard(k)
      <4>1. /\ requests'[q] \in {requests[q],
                                 Append(requests[q], "disconnectFromSpdz")}
            /\ buffered'[q] \in {buffered[q],
                                 Append(buffered[q], "disconnectFromSpdz")}
        BY <1>5, <2>3, <3>4 DEF CallParty, Push, emit, requestOf
      <4>2. /\ Avoids(Append(requests[q], "disconnectFromSpdz"),
                      "connectToSpdz")
            /\ Avoids(Append(buffered[q], "disconnectFromSpdz"),
                      "connectToSpdz")
        BY <1>0, <3>1, AvoidsSteps DEF UnaskedAt
      <4>3. /\ Avoids(requests'[q], "connectToSpdz")
            /\ Avoids(buffered'[q], "connectToSpdz")
        BY <4>1, <4>2, <3>1 DEF UnaskedAt
      <4> QED
        BY <3>1, <3>2, <4>3 DEF UnaskedAt, Avoids, Reported
    <3> QED
      BY <3>3, <3>4
  <2> QED
    BY <2>2, <2>3 DEF Unasked
<1>6. ASSUME NEW c \in Calls, Timeout(c) PROVE Unasked'
  BY <1>0, <1>2, <1>3, <1>6 DEF Timeout
<1>7. ASSUME NEW p \in Proxies, Deliver(p) PROVE Unasked'
  <2> DEFINE e == Head(events[p])
  <2>1. /\ events[p] \in Seq(Event) /\ events[p] # <<>> /\ kind' = kind
        /\ events' = [events EXCEPT ![p] = Tail(@)]
        /\ up' = [up EXCEPT ![e.eventType] =
             latest(e.eventType, p, e.status)]
        /\ requests' = requests
             \/ requests' = [requests EXCEPT ![p] = @ \o buffered[p]]
        /\ buffered' = buffered \/ buffered' = [buffered EXCEPT ![p] = <<>>]
    BY <1>7, <1>0 DEF Deliver
  <2>2. e \in Event /\ e.eventType \in EventType /\ e.status \in BOOLEAN
    <3>1. e \in Event
      BY <2>1, HeadTailProperties
    <3> QED
      BY <3>1 DEF Event
  <2>3. \A d \in Calls : promise'[d] = "unused" => promise[d] = "unused"
    BY <1>7 DEF Deliver, Combined
  <2>4. ASSUME NEW q \in Proxies, UnaskedAt(q) PROVE UnaskedAt(q)'
    <3>1. Avoids(requests'[q], "connectToSpdz")
      <4>1. Avoids(requests[q] \o buffered[q], "connectToSpdz")
        BY <1>0, <2>4, AvoidsConcat DEF UnaskedAt
      <4> QED
        BY <4>1, <1>0, <2>1, <2>4 DEF UnaskedAt
    <3>2. Avoids(buffered'[q], "connectToSpdz")
      <4>1. Avoids(<<>>, "connectToSpdz")
        BY AvoidsNone
      <4> QED
        BY <4>1, <1>0, <2>1, <2>4 DEF UnaskedAt
    <3>3. /\ Avoids(events'[q], Reported(TRUE))
          /\ q = p => e # Reported(TRUE)
      <4>1. events[q] # <<>> => /\ Avoids(Tail(events[q]), Reported(TRUE))
                                /\ Head(events[q]) # Reported(TRUE)
        BY <1>0, <2>4, AvoidsSteps DEF UnaskedAt
      <4> QED
        BY <4>1, <1>0, <2>1, <2>4 DEF UnaskedAt
    <3>4. q \notin up'[SPDZ_CONNECT]
      <4>1. q \notin up[SPDZ_CONNECT]
        BY <2>4 DEF UnaskedAt
      <4>2. CASE q # p \/ e.eventType # SPDZ_CONNECT
        BY <4>1, <4>2, <1>0, <2>1, <2>2 DEF latest
      <4>3. CASE q = p /\ e.eventType = SPDZ_CONNECT
        <5>1. e.status = FALSE
          BY <3>3, <4>3, <2>2 DEF Event, Reported
        <5> QED
          BY <4>3, <5>1, <1>0, <2>1, <2>2 DEF latest
      <4> QED
        BY <4>2, <4>3
    <3> QED
      BY <3>1, <3>2, <3>3, <3>4 DEF UnaskedAt, Avoids, Reported
  <2> QED
    BY <1>2, <2>1, <2>3, <2>4
<1>8. ASSUME NEW p \in Proxies, EnvironmentStep(p) PROVE Unasked'
  <2>0. kind' = kind /\ promise' = promise /\ up' = up
    BY <1>8 DEF EnvironmentStep, WebConnect, WebConnectFails, WebDrop,
                EngineAccepts, EngineRefuses, EngineLeaves, EngineCloses,
                Handle, client
  <2>1. ASSUME NEW q \in Proxies, UnaskedAt(q) PROVE UnaskedAt(q)'
    <3>1. ASSUME NEW t \in EventType, NEW status \in BOOLEAN,
                 Report(p, t, status), t = PROXY_CONNECT \/ ~status,
                 requests'[q] \in {requests[q], Tail(requests[q])},
                 requests'[q] = requests[q] \/ requests[q] # <<>>,
                 buffered' = buffered
          PROVE  UnaskedAt(q)'
      <4>1. Avoids(requests'[q], "connectToSpdz")
        <5>1. /\ requests[q] \in Seq(Request)
              /\ Avoids(requests[q], "connectToSpdz")
          BY <1>0, <2>1 DEF UnaskedAt
        <5>2. requests[q] # <<>> => Avoids(Tail(requests[q]), "connectToSpdz")
          BY <5>1, AvoidsSteps
        <5> QED
          BY <3>1, <5>1, <5>2
      <4>2. Avoids(events[q], Reported(TRUE))'
        BY <2>1, <3>1, ReportUnasked DEF UnaskedAt
      <4> QED
        BY <4>1, <4>2, <2>0, <2>1, <3>1 DEF UnaskedAt, Avoids
    <3>2. ASSUME NEW r, Handle(p, r)
          PROVE  /\ buffered' = buffered
                 /\ requests'[q] \in {requests[q], Tail(requests[q])}
                 /\ requests'[q] = requests[q] \/ requests[q] # <<>>
                 /\ q = p => r # "connectToSpdz"
      <4>1. q = p => Head(requests[q]) # "connectToSpdz"
        BY <1>0, <2>1, <3>2, AvoidsSteps DEF UnaskedAt, Handle
      <4> QED
        BY <4>1, <1>0, <3>2 DEF Handle
    <3>3. CASE WebConnect(p) \/ WebConnectFails(p)
      BY <1>0, <3>1, <3>3 DEF WebConnect, WebConnectFails
    <3>4. CASE WebDrop(p)
      <4> DEFINE lost == [eventType |-> PROXY_CONNECT, status |-> FALSE]
      <4>1. PICK n \in 0..Len(events[p]) :
              events' = [events EXCEPT ![p] = Append(SubSeq(@, 1, n), lost)]
        BY <3>4 DEF WebDrop
      <4>2. lost \in Event /\ lost # Reported(TRUE)
        BY <1>0 DEF Event, Reported
      <4> HIDE DEF lost
      <4>3. q = p => Avoids(Append(SubSeq(events[q], 1, n), lost),
                            Reported(TRUE))
        <5> SUFFICES ASSUME q = p
                     PROVE  Avoids(Append(SubSeq(events[q], 1, n), lost),
                                   Reported(TRUE))
          OBVIOUS
        <5>1. /\ SubSeq(events[q], 1, n) \in Seq(Event)
              /\ Avoids(SubSeq(events[q], 1, n), Reported(TRUE))
          BY <1>0, <2>1, AvoidsSteps DEF UnaskedAt
        <5> QED
          BY <4>2, <5>1, AvoidsSteps
      <4>4. Avoids(events'[q], Reported(TRUE))
        BY <1>0, <2>1, <4>1, <4>3 DEF UnaskedAt
      <4>5. requests'[q] = requests[q] \/ requests'[q] = <<>>
        BY <1>0, <3>4 DEF WebDrop
      <4>6. Avoids(requests'[q], "connectToSpdz")
        BY <2>1, <4>5, AvoidsNone DEF UnaskedAt
      <4>7. buffered' = buffered
        BY <3>4 DEF WebDrop
      <4> QED
        BY <4>4, <4>6, <4>7, <2>0, <2>1 DEF UnaskedAt, Avoids, Reported
    <3>5. CASE EngineAccepts(p)
      <4>1. q # p
        BY <3>2, <3>5 DEF EngineAccepts
      <4>2. events'[q] = events[q]
        BY <1>0, <3>5, <4>1 DEF EngineAccepts, Report
      <4>3. requests'[q] = requests[q] /\ buffered' = buffered
        BY <1>0, <3>5, <4>1 DEF EngineAccepts, Handle
      <4> QED
        BY <4>2, <4>3, <2>0, <2>1 DEF UnaskedAt, Avoids, Reported
    <3>6. CASE EngineRefuses(p)
      BY <1>0, <3>1, <3>2, <3>6 DEF EngineRefuses
    <3>7. CASE EngineLeaves(p)
      BY <1>0, <3>1, <3>2, <3>7 DEF EngineLeaves
    <3>8. CASE EngineCloses(p)
      BY <1>0, <1>3, <2>0, <2>1, <3>1, <3>8 DEF EngineCloses
    <3> QED
      BY <1>8, <3>3, <3>4, <3>5, <3>6, <3>7, <3>8 DEF EnvironmentStep
  <2> QED
    BY <1>2, <2>0, <2>1
<1>9. CASE UNCHANGED vars
  BY <1>2, <1>3, <1>9 DEF vars
<1> QED
  BY <1>4, <1>5, <1>6, <1>7, <1>8, <1>9
  DEF Next, ApplicationStep, CallConnect, CallDisconnect

\* The connections known of are reported while the only connect waits
LEMMA NextAnswers ==
  TypeOK /\ Unasked /\ Answers /\ [Next]_vars => Answers'
<1> SUFFICES ASSUME TypeOK, Unasked, Answers, [Next]_vars,
                    NEW c \in Calls, kind'[c] = "connect",
                    promise'[c] = "pending", OnlyConnect(c)'
             PROVE  up'[SPDZ_CONNECT] \subseteq answered'[c]
  BY DEF Answers
<1>0. /\ SPDZ_CONNECT \in EventType
      /\ up \in [EventType -> SUBSET Proxies]
      /\ kind \in [Calls -> Kind] /\ promise \in [Calls -> Promise]
      /\ answered \in [Calls -> SUBSET Proxies]
  BY EventTypes DEF TypeOK
<1>1. ASSUME UNCHANGED <<up, answered>>, kind[c] = "connect",
             promise[c] = "pending", OnlyConnect(c)
      PROVE  up'[SPDZ_CONNECT] \subseteq answered'[c]
  BY <1>1 DEF Answers
<1>2. ASSUME NEW d \in Calls, NEW k, NEW state, Start(d, k, state),
             UNCHANGED <<up, answered>>
      PROVE  up'[SPDZ_CONNECT] \subseteq answered'[c]
  <2>1. /\ kind[d] = "none" /\ kind' = [kind EXCEPT ![d] = k]
        /\ promise' = [promise EXCEPT ![d] = state]
    BY <1>2 DEF Start, Unasked
  <2>2. OnlyConnect(c)
    BY <1>0, <2>1 DEF OnlyConnect
  <2>3. CASE d # c
    BY <1>0, <1>1, <1>2, <2>1, <2>2, <2>3
  <2>4. CASE d = c
    <3>1. NoConnect
      BY <2>1, <2>2, <2>4 DEF NoConnect, OnlyConnect
    <3>2. \A q \in Proxies : q \notin up[SPDZ_CONNECT]
      BY <3>1 DEF Unasked, UnaskedAt
    <3> QED
      BY <1>0, <1>2, <3>2
  <2> QED
    BY <2>3, <2>4
<1>3. ASSUME NEW p \in Proxies, Deliver(p)
      PROVE  up'[SPDZ_CONNECT] \subseteq answered'[c]
  <2> DEFINE e == Head(events[p])
  <2>1. /\ kind' = kind
        /\ up' = [up EXCEPT ![e.eventType] =
             latest(e.eventType, p, e.status)]
        /\ answered' = [x \in Calls |->
             IF promise[x] = "pending" /\ e.eventType = SPDZ_CONNECT /\ e.status
               THEN answered[x] \union {p} ELSE answered[x]]
    BY <1>3 DEF Deliver
  <2>2. promise[c] = "pending"
    BY <1>0, <1>3 DEF Deliver, Combined
  <2>3. up[SPDZ_CONNECT] \subseteq answered[c]
    BY <2>1, <2>2 DEF Answers, OnlyConnect
  <2> HIDE DEF e
  <2>4. CASE e.eventType # SPDZ_CONNECT
    BY <1>0, <2>1, <2>3, <2>4
  <2>5. CASE e.eventType = SPDZ_CONNECT
    BY <1>0, <2>1, <2>2, <2>3, <2>5 DEF latest
  <2> QED
    BY <2>4, <2>5
<1>4. ASSUME NEW d \in Calls, ApplicationStep(d)
      PROVE  up'[SPDZ_CONNECT] \subseteq answered'[c]
  <2>1. CASE Timeout(d)
    BY <1>0, <1>1, <2>1 DEF Timeout, OnlyConnect
  <2>2. CASE CallProxies(d)
    BY <1>2, <2>2 DEF CallProxies
  <2>3. CASE CallConnect(d) \/ CallDisconnect(d)
    <3>1. \E k \in Kind, state \in Promise : Start(d, k, state)
      BY <2>3 DEF CallConnect, CallDisconnect, CallParty, Kind, Promise
    <3>2. UNCHANGED <<up, answered>>
      BY <2>3 DEF CallConnect, CallDisconnect, CallParty
    <3> QED
      BY <1>2, <3>1, <3>2
  <2> QED
    BY <1>4, <2>1, <2>2, <2>3 DEF ApplicationStep
<1>5. ASSUME NEW p \in Proxies, EnvironmentStep(p)
      PROVE  up'[SPDZ_CONNECT] \subseteq answered'[c]
  <2>1. UNCHANGED client
    BY <1>5 DEF EnvironmentStep, WebConnect, WebConnectFails, WebDrop,
                EngineAccepts, EngineRefuses, EngineLeaves, EngineCloses,
                Handle
  <2> QED
    BY <1>1, <2>1 DEF client, OnlyConnect
<1>6. CASE UNCHANGED vars
  BY <1>1, <1>6 DEF vars, OnlyConnect
<1> QED
  BY <1>3, <1>4, <1>5, <1>6 DEF Next

\* Both hold at the start
LEMMA InitAsked == Init => Unasked /\ Answers
<1> SUFFICES ASSUME Init PROVE Unasked /\ Answers
  OBVIOUS
<1>1. ASSUME NEW p \in Proxies PROVE UnaskedAt(p)
  <2>1. /\ requests[p] = <<>> /\ buffered[p] = <<>> /\ events[p] = <<>>
        /\ p \notin up[SPDZ_CONNECT]
    BY EventTypes DEF Init
  <2> QED
    BY <2>1, AvoidsNone DEF UnaskedAt
<1> QED
  BY <1>1 DEF Init, Unasked, Answers

\* A promise that resolves does so in a handler, whose combined status is the
\* one it waits for
LEMMA ResolvesOnAll ==
  ASSUME TypeOK, FlagsFollow, [Next]_vars, NEW c \in Calls,
         kind[c] = "connect", promise[c] = "pending", promise'[c] = "resolved"
  PROVE  /\ kind' = kind
         /\ up'[SPDZ_CONNECT] = Proxies
         /\ \E p \in Proxies :
              /\ Deliver(p)
              /\ Head(events[p]).eventType = SPDZ_CONNECT
<1>0. promise \in [Calls -> Promise] /\ kind \in [Calls -> Kind]
  BY DEF TypeOK
<1>1. ~ UNCHANGED promise
  BY DEF Promise
<1>2. ASSUME NEW d \in Calls, ApplicationStep(d) PROVE FALSE
  BY <1>0, <1>2 DEF ApplicationStep, CallProxies, CallConnect, CallDisconnect,
                    CallParty, Timeout, Start
<1>3. PICK p \in Proxies : Deliver(p)
  BY <1>1, <1>2
  DEF Next, EnvironmentStep, WebConnect, WebConnectFails, WebDrop,
      EngineAccepts, EngineRefuses, EngineLeaves, EngineCloses, Handle,
      client, vars
<1> DEFINE t == Head(events[p]).eventType
<1>4. kind' = kind /\ Combined(t)
  BY <1>3 DEF Deliver
<1>5. Resolves(kind[c], t, combinedStatus(up'[t]))
  BY <1>0, <1>1, <1>4 DEF Combined
<1>6. t = SPDZ_CONNECT /\ up'[t] = Proxies
  BY <1>5 DEF Resolves, combinedStatus
<1> QED
  BY <1>3, <1>4, <1>6

\* As long as the web sockets stay up, a connect promise resolves only when
\* each engine is connected, or the news of its loss is queued; and if it is
\* the only one that asked, each has reported a connection since
THEOREM ConnectsAreTruthful ==
  ASSUME ~WebSocketDrops
  PROVE  Spec => ConnectTruthful
<1> DEFINE Inv == IInv /\ Unasked /\ Answers
           Truthful == \A c \in Calls :
             /\ kind[c] = "connect"
             /\ promise[c] = "pending"
             /\ promise'[c] = "resolved"
             => /\ \A p \in Proxies :
                     \/ p \in link'[SPDZ_CONNECT]
                     \/ \E i \in 1..Len(events'[p]) :
                          events'[p][i] =
                            [eventType |-> SPDZ_CONNECT, status |-> FALSE]
                /\ (\A d \in Calls \ {c} : kind[d] # "connect")
                     => answered'[c] = Proxies
<1>1. Init => Inv
  BY InitInv, InitAsked
<1>2. Inv /\ [Next]_vars => Inv'
  BY NextInv, NextUnasked, NextAnswers DEF IInv
<1>3. IInv => UpOrQueued
  BY Tracked
<1>4. Inv /\ UpOrQueued' /\ [Next]_vars => Truthful
  <2> SUFFICES ASSUME Inv, UpOrQueued', [Next]_vars, NEW c \in Calls,
                      kind[c] = "connect", promise[c] = "pending",
                      promise'[c] = "resolved"
               PROVE  /\ \A p \in Proxies :
                           \/ p \in link'[SPDZ_CONNECT]
                           \/ \E i \in 1..Len(events'[p]) :
                                events'[p][i] = Reported(FALSE)
                      /\ OnlyConnect(c) => answered'[c] = Proxies
    BY DEF Reported, OnlyConnect
  <2>1. up'[SPDZ_CONNECT] = Proxies
    BY ResolvesOnAll DEF IInv
  <2>2. \A p \in Proxies :
          \/ p \in link'[SPDZ_CONNECT]
          \/ \E i \in 1..Len(events'[p]) : events'[p][i] = Reported(FALSE)
    BY <2>1 DEF UpOrQueued, Reported
  <2>3. ASSUME OnlyConnect(c) PROVE answered'[c] = Proxies
    <3>1. PICK p \in Proxies :
            Deliver(p) /\ Head(events[p]).eventType = SPDZ_CONNECT
      BY ResolvesOnAll DEF IInv
    <3> DEFINE e == Head(events[p])
    <3>2. up[SPDZ_CONNECT] \subseteq answered[c]
      BY <2>3 DEF Answers
    <3>3. /\ up \in [EventType -> SUBSET Proxies] /\ SPDZ_CONNECT \in EventType
          /\ answered \in [Calls -> SUBSET Proxies]
      BY EventTypes DEF IInv, TypeOK
    <3>4. /\ up'[SPDZ_CONNECT] = latest(SPDZ_CONNECT, p, e.status)
          /\ answered'[c] = IF e.status THEN answered[c] \union {p}
                            ELSE answered[c]
      BY <3>1, <3>3 DEF Deliver
    <3> HIDE DEF e
    <3>5. up'[SPDZ_CONNECT] \subseteq answered'[c]
      BY <3>2, <3>3, <3>4 DEF latest
    <3>6. answered'[c] \subseteq Proxies
      BY <3>3, <3>4
    <3> QED
      BY <2>1, <3>5, <3>6
  <2> QED
    BY <2>2, <2>3
<1> QED
  BY <1>1, <1>2, <1>3, <1>4, PTL DEF Spec, ConnectTruthful

=============================================================================
