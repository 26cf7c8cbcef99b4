------------------------ MODULE ProxySessionsProofs ------------------------
(***************************************************************************)
(* Proofs about ProxySessions, for any number of proxies, sessions and     *)
(* calls: the types, and that a flag is always backed by some session; that *)
(* promises resolve on their own session; and that the engines have the    *)
(* same connections.                                                       *)
(*                                                                         *)
(* For the last two: a socket whose latest report, or a report still       *)
(* queued, was of a connection that is gone has its loss queued behind     *)
(* (Truthful).  A request is carried out, travels or is held at the        *)
(* sockets of a session alike (Even), because none is lost as long as      *)
(* nothing fails (Lossless), and no socket has any before its session.     *)
(***************************************************************************)
EXTENDS ProxySessions, SequenceTheorems, TLAPS

LEMMA EventTypes ==
  /\ PROXY_CONNECT \in EventType /\ SPDZ_CONNECT \in EventType
  /\ PROXY_CONNECT # SPDZ_CONNECT
BY DEF EventType, PROXY_CONNECT, SPDZ_CONNECT

LEMMA InitType == Init => TypeOK
<1> SUFFICES ASSUME Init PROVE TypeOK
  OBVIOUS
<1>1. opened \in 0..MaxSessions /\ troubles \in 0..MaxTroubles
  BY SessionsAssumption DEF Init
<1>2. /\ link \in [EventType -> SUBSET Sockets]
      /\ heard \in [EventType -> SUBSET Sockets]
      /\ up \in [EventType -> SUBSET Sockets]
      /\ \A t \in EventType : up[t] \subseteq heard[t]
      /\ connected \in [EventType -> BOOLEAN]
  BY DEF Init, none
<1>3. /\ requests \in [Sockets -> Nat] /\ buffered \in [Sockets -> Nat]
      /\ events \in [Sockets -> Seq(Event)]
  BY DEF Init
<1>4. setup \in [Sessions -> Promise] /\ call \in [Calls -> Promise]
  BY DEF Init, Promise
<1>5. stream \in [Calls -> 0..MaxSessions]
  BY SessionsAssumption DEF Init
<1> QED
  BY <1>1, <1>2, <1>3, <1>4, <1>5 DEF TypeOK

LEMMA ReportType ==
  ASSUME TypeOK, NEW s \in Sockets, NEW t \in EventType,
         NEW status \in BOOLEAN, Report(s, t, status)
  PROVE  events' \in [Sockets -> Seq(Event)]
<1>1. Append(events[s], [eventType |-> t, status |-> status]) \in Seq(Event)
  BY AppendProperties DEF TypeOK, Event
<1> QED
  BY <1>1 DEF Report, TypeOK

LEMMA TroubleType == TypeOK /\ Trouble => troubles' \in 0..MaxTroubles
BY SessionsAssumption DEF TypeOK, Trouble

\* What handling an event of s does to the parts of the state it touches
LEMMA DeliverType ==
  ASSUME TypeOK, NEW s \in Sockets, Deliver(s)
  PROVE  TypeOK'
<1> DEFINE e == Head(events[s])
<1>1. /\ events[s] \in Seq(Event) /\ events[s] # <<>>
      /\ events' = [events EXCEPT ![s] = Tail(@)]
  BY DEF Deliver, TypeOK
<1>2. e \in Event /\ Tail(events[s]) \in Seq(Event)
  BY <1>1, HeadTailProperties
<1>3. e.eventType \in EventType /\ e.status \in BOOLEAN
  BY <1>2 DEF Event
<1>4. events' \in [Sockets -> Seq(Event)]
  BY <1>1, <1>2 DEF TypeOK
<1>5. /\ heard' = [heard EXCEPT ![e.eventType] = @ \union {s}]
      /\ up' = [up EXCEPT ![e.eventType] =
                  IF e.status THEN @ \union {s} ELSE @ \ {s}]
      /\ Combined(s[1], e.eventType)
      /\ UNCHANGED <<opened, link, stream, troubles>>
  BY DEF Deliver
<1>6. /\ heard' \in [EventType -> SUBSET Sockets]
      /\ up' \in [EventType -> SUBSET Sockets]
      /\ \A t \in EventType : up'[t] \subseteq heard'[t]
  BY <1>3, <1>5 DEF TypeOK
<1>7. /\ connected' \in [EventType -> BOOLEAN]
      /\ setup' \in [Sessions -> Promise]
      /\ call' \in [Calls -> Promise]
  <2> DEFINE status == of(s[1]) \subseteq up'[e.eventType]
  <2>1. CASE UNCHANGED <<connected, setup, call>>
    BY <2>1 DEF TypeOK
  <2>2. CASE ~UNCHANGED <<connected, setup, call>>
    <3>1. connected' = [connected EXCEPT ![e.eventType] = status]
      BY <1>5, <2>2 DEF Combined, flagAfter
    <3>2. status \in BOOLEAN
      OBVIOUS
    <3>3. connected' \in [EventType -> BOOLEAN]
      BY <3>1, <3>2 DEF TypeOK
    <3>4. setup' \in [Sessions -> Promise]
      <4>1. setup' = [j \in Sessions |->
              IF /\ setup[j] = "pending" /\ hears(s[1], j)
                 /\ e.eventType = PROXY_CONNECT /\ status
                THEN "resolved" ELSE setup[j]]
        BY <1>5, <2>2 DEF Combined
      <4>2. \A j \in Sessions : setup'[j] \in {"resolved", setup[j]}
        BY <4>1
      <4> QED
        BY <4>1, <4>2 DEF TypeOK, Promise
    <3>5. call' \in [Calls -> Promise]
      <4>1. call' = [c \in Calls |->
              IF /\ call[c] = "pending" /\ hears(s[1], stream[c])
                 /\ e.eventType = SPDZ_CONNECT /\ status
                THEN "resolved" ELSE call[c]]
        BY <1>5, <2>2 DEF Combined
      <4>2. \A c \in Calls : call'[c] \in {"resolved", call[c]}
        BY <4>1
      <4> QED
        BY <4>1, <4>2 DEF TypeOK, Promise
    <3> QED
      BY <3>3, <3>4, <3>5
  <2> QED
    BY <2>1, <2>2
<1>8. requests' \in [Sockets -> Nat] /\ buffered' \in [Sockets -> Nat]
  <2>1. CASE UNCHANGED <<requests, buffered>>
    BY <2>1 DEF TypeOK
  <2>2. CASE ~UNCHANGED <<requests, buffered>>
    <3>1. /\ buffered' = [buffered EXCEPT ![s] = 0]
          /\ requests' = [requests EXCEPT ![s] =
               IF s \in link[PROXY_CONNECT] THEN @ + buffered[s] ELSE @]
      BY <2>2 DEF Deliver
    <3>2. requests[s] \in Nat /\ buffered[s] \in Nat
      BY DEF TypeOK
    <3>3. requests[s] + buffered[s] \in Nat
      BY <3>2
    <3>4. requests' \in [Sockets -> Nat]
      BY <3>1, <3>2, <3>3 DEF TypeOK
    <3>5. buffered' \in [Sockets -> Nat]
      BY <3>1 DEF TypeOK
    <3> QED
      BY <3>4, <3>5
  <2> QED
    BY <2>1, <2>2
<1> QED
  BY <1>4, <1>5, <1>6, <1>7, <1>8 DEF TypeOK

LEMMA NextType == TypeOK /\ [Next]_vars => TypeOK'
<1> SUFFICES ASSUME TypeOK, [Next]_vars PROVE TypeOK'
  OBVIOUS
<1> USE EventTypes
<1>1. CASE CallProxies
  <2>1. opened' \in 0..MaxSessions
    BY <1>1, SessionsAssumption DEF CallProxies, TypeOK
  <2>2. setup' \in [Sessions -> Promise]
    BY <1>1 DEF CallProxies, TypeOK, Promise
  <2> QED
    BY <1>1, <2>1, <2>2 DEF CallProxies, TypeOK
<1>2. ASSUME NEW c \in Calls, CallConnect(c) PROVE TypeOK'
  <2>1. stream' \in [Calls -> 0..MaxSessions]
    BY <1>2 DEF CallConnect, current, TypeOK
  <2>2. call' \in [Calls -> Promise]
    BY <1>2 DEF CallConnect, TypeOK, Promise
  <2>3. requests' \in [Sockets -> Nat] /\ buffered' \in [Sockets -> Nat]
    <3>1. CASE UNCHANGED <<requests, buffered>>
      BY <3>1 DEF TypeOK
    <3>2. CASE Push
      <4> DEFINE more(x) == IF x \in up[PROXY_CONNECT] \cap link[PROXY_CONNECT]
                              THEN 1 ELSE 0
                 kept(x) == IF x \in Existing \ up[PROXY_CONNECT]
                              THEN 1 ELSE 0
      <4>1. /\ requests' = [x \in Sockets |-> requests[x] + more(x)]
            /\ buffered' = [x \in Sockets |-> buffered[x] + kept(x)]
        BY <3>2 DEF Push
      <4>2. \A x \in Sockets : more(x) \in Nat /\ kept(x) \in Nat
        OBVIOUS
      <4>3. \A x \in Sockets : requests[x] \in Nat /\ buffered[x] \in Nat
        BY DEF TypeOK
      <4> HIDE DEF more, kept
      <4>4. \A x \in Sockets : /\ requests[x] + more(x) \in Nat
                               /\ buffered[x] + kept(x) \in Nat
        BY <4>2, <4>3
      <4> QED
        BY <4>1, <4>4
    <3> QED
      BY <1>2, <3>1, <3>2 DEF CallConnect
  <2> QED
    BY <1>2, <2>1, <2>2, <2>3 DEF CallConnect, TypeOK
<1>3. ASSUME NEW c \in Calls, CallTimeout(c) PROVE TypeOK'
  BY <1>3 DEF CallTimeout, TypeOK, Promise
<1>4. ASSUME NEW k \in Sessions, SetupTimeout(k) PROVE TypeOK'
  BY <1>4 DEF SetupTimeout, TypeOK, Promise
<1>5. ASSUME NEW s \in Sockets, WebConnect(s) PROVE TypeOK'
  BY <1>5, ReportType DEF WebConnect, TypeOK
<1>6. ASSUME NEW s \in Sockets, WebConnectFails(s) PROVE TypeOK'
  BY <1>6, ReportType, TroubleType DEF WebConnectFails, TypeOK
<1>7. ASSUME NEW s \in Sockets, WebDrop(s) PROVE TypeOK'
  <2> DEFINE lost == [eventType |-> PROXY_CONNECT, status |-> FALSE]
  <2>1. PICK n \in 0..Len(events[s]) :
          events' = [events EXCEPT ![s] = Append(SubSeq(@, 1, n), lost)]
    BY <1>7 DEF WebDrop
  <2>2. events[s] \in Seq(Event) /\ lost \in Event
    BY DEF TypeOK, Event
  <2>3. SubSeq(events[s], 1, n) \in Seq(Event)
    BY <2>2, SubSeqProperties
  <2>4. Append(SubSeq(events[s], 1, n), lost) \in Seq(Event)
    BY <2>2, <2>3, AppendProperties
  <2>5. events' \in [Sockets -> Seq(Event)]
    BY <2>1, <2>4 DEF TypeOK
  <2>6. link' \in [EventType -> SUBSET Sockets]
    <3>1. link[PROXY_CONNECT] \ {s} \in SUBSET Sockets
      BY DEF TypeOK
    <3> QED
      BY <1>7, <3>1 DEF WebDrop, TypeOK
  <2>7. requests' \in [Sockets -> Nat]
    BY <1>7 DEF WebDrop, TypeOK
  <2>8. troubles' \in 0..MaxTroubles
    BY <1>7, TroubleType DEF WebDrop
  <2>9. UNCHANGED <<opened, buffered, heard, up, connected, setup, call,
                    stream>>
    BY <1>7 DEF WebDrop
  <2> QED
    BY <2>5, <2>6, <2>7, <2>8, <2>9 DEF TypeOK
<1>8. ASSUME NEW s \in Sockets, HandleConnect(s) PROVE TypeOK'
  <2>1. requests' \in [Sockets -> Nat]
    BY <1>8 DEF HandleConnect, TypeOK
  <2>2. events' \in [Sockets -> Seq(Event)]
    BY <1>8, ReportType DEF HandleConnect
  <2>3. link' \in [EventType -> SUBSET Sockets]
    <3>1. /\ link[SPDZ_CONNECT] \union {s} \in SUBSET Sockets
          /\ link[SPDZ_CONNECT] \ {s} \in SUBSET Sockets
      BY DEF TypeOK
    <3> QED
      BY <1>8, <3>1 DEF HandleConnect, TypeOK
  <2>4. troubles' \in 0..MaxTroubles
    BY <1>8, TroubleType DEF HandleConnect, TypeOK
  <2>5. UNCHANGED <<opened, buffered, heard, up, connected, setup, call,
                    stream>>
    BY <1>8 DEF HandleConnect
  <2> QED
    BY <2>1, <2>2, <2>3, <2>4, <2>5 DEF TypeOK
<1>9. CASE UNCHANGED vars
  BY <1>9 DEF vars, TypeOK
<1> QED
  BY <1>1, <1>2, <1>3, <1>4, <1>5, <1>6, <1>7, <1>8, <1>9, DeliverType
  DEF Next

\* The variables of ProxySessions keep their types
THEOREM TypeCorrect == Spec => []TypeOK
BY InitType, NextType, PTL DEF Spec

-----------------------------------------------------------------------------
\* The session whose socket has news sets the flag to what it then says, if
\* it has heard of all its sockets; if not, the session that backs the flag
\* is another one.
LEMMA DeliverBacked ==
  ASSUME TypeOK, FlagBacked, NEW s \in Sockets, Deliver(s)
  PROVE  FlagBacked'
<1> DEFINE e == Head(events[s])
           k == s[1]
<1>1. e \in Event /\ e.eventType \in EventType /\ k \in Sessions
  <2>1. events[s] \in Seq(Event) /\ events[s] # <<>>
    BY DEF Deliver, TypeOK
  <2>2. e \in Event
    BY <2>1, HeadTailProperties
  <2> QED
    BY <2>2 DEF Event, Sockets
<1>2. /\ heard' = [heard EXCEPT ![e.eventType] = @ \union {s}]
      /\ up' = [up EXCEPT ![e.eventType] =
                  IF e.status THEN @ \union {s} ELSE @ \ {s}]
      /\ Combined(k, e.eventType)
  BY DEF Deliver
<1> SUFFICES ASSUME NEW t \in EventType
             PROVE  /\ connected'[t] => \E j \in Sessions : Up(j, t)'
                    /\ ~connected'[t] /\ (\E j \in Sessions : Heard(j, t)')
                         => \E j \in Sessions : Heard(j, t)' /\ ~Up(j, t)'
  BY DEF FlagBacked
<1>3. /\ connected[t] => \E j \in Sessions : Up(j, t)
      /\ ~connected[t] /\ (\E j \in Sessions : Heard(j, t))
           => \E j \in Sessions : Heard(j, t) /\ ~Up(j, t)
  BY DEF FlagBacked
<1>4. /\ heard \in [EventType -> SUBSET Sockets]
      /\ up \in [EventType -> SUBSET Sockets]
      /\ up[t] \subseteq heard[t]
      /\ connected \in [EventType -> BOOLEAN]
  BY DEF TypeOK
<1>5. CASE t # e.eventType
  <2>1. heard'[t] = heard[t] /\ up'[t] = up[t] /\ connected'[t] = connected[t]
    BY <1>1, <1>2, <1>4, <1>5 DEF Combined
  <2> QED
    BY <1>3, <2>1 DEF Heard, Up
<1>6. CASE t = e.eventType
  <2>1. /\ heard'[t] = heard[t] \union {s}
        /\ up'[t] = IF e.status THEN up[t] \union {s} ELSE up[t] \ {s}
    BY <1>1, <1>2, <1>4, <1>6
  <2>2. \A j \in Sessions \ {k} : s \notin of(j)
    BY DEF of
  <2>3. \A j \in Sessions \ {k} :
          (Heard(j, t)' <=> Heard(j, t)) /\ (Up(j, t)' <=> Up(j, t))
    BY <2>1, <2>2 DEF Heard, Up
  <2>4. CASE Heard(k, t)'
    <3>1. connected' = [connected EXCEPT ![t] = of(k) \subseteq up'[t]]
      BY <1>2, <1>6, <2>4 DEF Combined, Heard, flagAfter
    <3>2. connected'[t] <=> Up(k, t)'
      BY <3>1, <1>4 DEF Up
    <3> QED
      BY <3>2, <2>4, <1>1
  <2>5. CASE ~Heard(k, t)'
    <3>1. connected' = connected
      BY <1>2, <1>6, <2>5 DEF Combined, Heard
    <3>2. ~Heard(k, t) /\ ~Up(k, t)
      BY <2>1, <2>5, <1>4 DEF Heard, Up
    <3> QED
      BY <3>1, <3>2, <2>3, <2>5, <1>3
  <2> QED
    BY <2>4, <2>5
<1> QED
  BY <1>5, <1>6

LEMMA InitBacked == Init => FlagBacked
<1> SUFFICES ASSUME Init, NEW t \in EventType, NEW k \in Sessions, Heard(k, t)
             PROVE  FALSE
  BY DEF Init, FlagBacked
<1>1. PICK p \in Proxies : TRUE
  BY SessionsAssumption
<1>2. <<k, p>> \in of(k)
  BY <1>1 DEF of
<1> QED
  BY <1>2 DEF Init, none, Heard

LEMMA NextBacked == TypeOK /\ FlagBacked /\ [Next]_vars => FlagBacked'
<1> SUFFICES ASSUME TypeOK, FlagBacked, [Next]_vars PROVE FlagBacked'
  OBVIOUS
<1>1. ASSUME UNCHANGED <<heard, up, connected>> PROVE FlagBacked'
  BY <1>1 DEF FlagBacked, Heard, Up
<1>2. ASSUME NEW s \in Sockets,
             WebConnect(s) \/ WebConnectFails(s) \/ WebDrop(s)
               \/ HandleConnect(s)
      PROVE  UNCHANGED <<heard, up, connected>>
  BY <1>2 DEF WebConnect, WebConnectFails, WebDrop, HandleConnect
<1>3. ASSUME NEW c \in Calls, CallConnect(c) \/ CallTimeout(c)
      PROVE  UNCHANGED <<heard, up, connected>>
  BY <1>3 DEF CallConnect, CallTimeout
<1>4. ASSUME CallProxies \/ (\E k \in Sessions : SetupTimeout(k))
      PROVE  UNCHANGED <<heard, up, connected>>
  BY <1>4 DEF CallProxies, SetupTimeout
<1>5. CASE UNCHANGED vars
  BY <1>5, <1>1 DEF vars
<1> QED
  BY <1>1, <1>2, <1>3, <1>4, <1>5, DeliverBacked DEF Next

\* A flag is up only if the sockets of some session all said so last, and
\* down only if those of some session did not (socketApi.js 107-114), however
\* many sessions were opened one over the other.
THEOREM FlagsAreBacked == Spec => []FlagBacked
BY InitType, NextType, InitBacked, NextBacked, PTL DEF Spec

-----------------------------------------------------------------------------
(* What a socket is told of its connection.                                *)

gained == [eventType |-> PROXY_CONNECT, status |-> TRUE]
lost == [eventType |-> PROXY_CONNECT, status |-> FALSE]

LossQueued(s) == \E i \in 1..Len(events[s]) : events[s][i] = lost

\* The loss of a connection that was reported is reported later
Truthful(s) ==
  /\ s \in up[PROXY_CONNECT] \ link[PROXY_CONNECT] => LossQueued(s)
  /\ s \notin link[PROXY_CONNECT] =>
       \A i \in 1..Len(events[s]) : events[s][i] = gained =>
         \E j \in 1..Len(events[s]) : j > i /\ events[s][j] = lost

AllTruthful == \A s \in Sockets : Truthful(s)

LEMMA EventShape ==
  /\ gained \in Event /\ lost \in Event /\ gained # lost
  /\ \A e \in Event : e.eventType = PROXY_CONNECT => e \in {gained, lost}
  /\ \A b \in BOOLEAN : LET e == [eventType |-> SPDZ_CONNECT, status |-> b] IN
       e \in Event /\ e \notin {gained, lost}
BY EventTypes DEF gained, lost, Event

\* An event added to a queue leaves what it told before as it was
LEMMA AppendTruthful ==
  ASSUME TypeOK, NEW s \in Sockets, NEW q \in Seq(Event), NEW e \in Event,
         events'[s] = Append(q, e), up'[PROXY_CONNECT] = up[PROXY_CONNECT],
         \/ e = lost
         \/ s \in link'[PROXY_CONNECT]
  PROVE  Truthful(s)'
<1>1. /\ Len(q) \in Nat /\ Len(events'[s]) = Len(q) + 1
      /\ events'[s][Len(q) + 1] = e
      /\ \A i \in 1..Len(q) : events'[s][i] = q[i]
  BY AppendProperties
<1>2. CASE e = lost
  <2>1. LossQueued(s)'
    BY <1>1, <1>2 DEF LossQueued
  <2>2. ASSUME NEW i \in 1..Len(events'[s]), events'[s][i] = gained
        PROVE  \E j \in 1..Len(events'[s]) : j > i /\ events'[s][j] = lost
    BY <1>1, <1>2, <2>2, EventShape
  <2> QED
    BY <2>1, <2>2 DEF Truthful
<1>3. CASE s \in link'[PROXY_CONNECT]
  BY <1>3 DEF Truthful
<1> QED
  BY <1>2, <1>3

\* Handling the head of its queue, a socket is believed connected only after
\* a report whose loss, if it was lost, comes behind
LEMMA DeliverTruthful ==
  ASSUME TypeOK, AllTruthful, NEW s \in Sockets, Deliver(s)
  PROVE  AllTruthful'
<1> DEFINE e == Head(events[s])
<1>1. /\ events[s] \in Seq(Event) /\ events[s] # <<>>
      /\ events' = [events EXCEPT ![s] = Tail(@)]
      /\ up' = [up EXCEPT ![e.eventType] =
                  IF e.status THEN @ \union {s} ELSE @ \ {s}]
      /\ link' = link
  BY DEF Deliver, TypeOK
<1>2. /\ e \in Event /\ e = events[s][1] /\ Len(events[s]) \in Nat \ {0}
      /\ Len(Tail(events[s])) = Len(events[s]) - 1
      /\ \A i \in 1..(Len(events[s]) - 1) :
           Tail(events[s])[i] = events[s][i + 1]
  BY <1>1, HeadTailProperties
<1>3. e.eventType \in EventType /\ up \in [EventType -> SUBSET Sockets]
  BY <1>2 DEF Event, TypeOK
<1> SUFFICES ASSUME NEW t \in Sockets PROVE Truthful(t)'
  BY DEF AllTruthful
<1>4. Truthful(t)
  BY DEF AllTruthful
<1>5. CASE t # s
  <2>1. /\ events'[t] = events[t]
        /\ t \in up'[PROXY_CONNECT] <=> t \in up[PROXY_CONNECT]
    BY <1>1, <1>3, <1>5, EventTypes DEF TypeOK
  <2> QED
    BY <1>1, <1>4, <2>1 DEF Truthful, LossQueued
<1>6. CASE t = s
  <2>1. events'[s] = Tail(events[s])
    BY <1>1 DEF TypeOK
  <2>2. \A i \in 2..Len(events[s]) :
          i - 1 \in 1..Len(events'[s]) /\ events'[s][i - 1] = events[s][i]
    BY <1>2, <2>1
  <2>3. ASSUME s \notin link'[PROXY_CONNECT],
               NEW i \in 1..Len(events'[s]), events'[s][i] = gained
        PROVE  \E j \in 1..Len(events'[s]) : j > i /\ events'[s][j] = lost
    <3>1. i + 1 \in 1..Len(events[s]) /\ events[s][i + 1] = gained
      BY <1>2, <2>1, <2>3
    <3>2. PICK j \in 1..Len(events[s]) : j > i + 1 /\ events[s][j] = lost
      BY <1>1, <1>4, <1>6, <2>3, <3>1 DEF Truthful
    <3> QED
      BY SMTT(30), <2>2, <3>2
  <2>4. ASSUME s \in up'[PROXY_CONNECT], s \notin link'[PROXY_CONNECT]
        PROVE  LossQueued(s)'
    <3>1. e # lost
      BY <1>1, <1>3, <2>4, EventTypes DEF lost
    <3>2. e = gained \/ s \in up[PROXY_CONNECT]
      <4>1. CASE e.eventType = PROXY_CONNECT
        BY <1>2, <3>1, <4>1, EventShape
      <4>2. CASE e.eventType # PROXY_CONNECT
        BY <1>1, <1>3, <2>4, <4>2, EventTypes
      <4> QED
        BY <4>1, <4>2
    <3>3. PICK j \in 1..Len(events[s]) : events[s][j] = lost
      BY <1>1, <1>2, <1>4, <1>6, <2>4, <3>2 DEF Truthful, LossQueued
    <3>4. j \in 2..Len(events[s])
      BY <1>2, <3>1, <3>3
    <3> QED
      BY <2>2, <3>3, <3>4 DEF LossQueued
  <2> QED
    BY <1>6, <2>3, <2>4 DEF Truthful
<1> QED
  BY <1>5, <1>6

LEMMA InitTruthful == Init => AllTruthful
BY EventTypes DEF Init, none, AllTruthful, Truthful

LEMMA NextTruthful == TypeOK /\ AllTruthful /\ [Next]_vars => AllTruthful'
<1> SUFFICES ASSUME TypeOK, AllTruthful, [Next]_vars PROVE AllTruthful'
  OBVIOUS
<1>1. ASSUME UNCHANGED <<link, events, up>> PROVE AllTruthful'
  BY <1>1 DEF AllTruthful, Truthful, LossQueued
<1>2. ASSUME NEW s \in Sockets, NEW q \in Seq(Event), NEW e \in Event,
             events' = [events EXCEPT ![s] = Append(q, e)], up' = up,
             e = lost \/ s \in link'[PROXY_CONNECT],
             link'[PROXY_CONNECT] \ {s} = link[PROXY_CONNECT] \ {s}
      PROVE  AllTruthful'
  <2> SUFFICES ASSUME NEW t \in Sockets PROVE Truthful(t)'
    BY DEF AllTruthful
  <2>1. CASE t = s
    <3>1. events'[s] = Append(q, e)
      BY <1>2 DEF TypeOK
    <3> QED
      BY <1>2, <2>1, <3>1, AppendTruthful
  <2>2. CASE t # s
    <3>1. /\ events'[t] = events[t] /\ Truthful(t)
          /\ t \in link'[PROXY_CONNECT] <=> t \in link[PROXY_CONNECT]
      BY <1>2, <2>2 DEF TypeOK, AllTruthful
    <3> QED
      BY <1>2, <3>1 DEF Truthful, LossQueued
  <2> QED
    BY <2>1, <2>2
<1>3. ASSUME NEW s \in Sockets, WebConnect(s) PROVE AllTruthful'
  <2>1. /\ events' = [events EXCEPT ![s] = Append(events[s], gained)]
        /\ up' = up /\ events[s] \in Seq(Event)
        /\ link'[PROXY_CONNECT] = link[PROXY_CONNECT] \union {s}
    BY <1>3, EventTypes DEF WebConnect, Report, gained, TypeOK
  <2> QED
    BY <2>1, <1>2, EventShape
<1>4. ASSUME NEW s \in Sockets, WebConnectFails(s) PROVE AllTruthful'
  <2>1. /\ events' = [events EXCEPT ![s] = Append(events[s], lost)]
        /\ up' = up /\ events[s] \in Seq(Event) /\ link' = link
    BY <1>4 DEF WebConnectFails, Report, lost, TypeOK
  <2> QED
    BY <2>1, <1>2, EventShape
<1>5. ASSUME NEW s \in Sockets, WebDrop(s) PROVE AllTruthful'
  <2>1. PICK n \in 0..Len(events[s]) :
          events' = [events EXCEPT ![s] = Append(SubSeq(@, 1, n), lost)]
    BY <1>5 DEF WebDrop, lost
  <2>2. events[s] \in Seq(Event)
    BY DEF TypeOK
  <2>3. SubSeq(events[s], 1, n) \in Seq(Event)
    BY <2>2, SubSeqProperties
  <2>4. /\ events' =
             [events EXCEPT ![s] = Append(SubSeq(events[s], 1, n), lost)]
        /\ up' = up /\ link'[PROXY_CONNECT] = link[PROXY_CONNECT] \ {s}
    BY <1>5, <2>1, EventTypes DEF WebDrop, TypeOK
  <2> QED
    BY <2>3, <2>4, <1>2, EventShape
<1>6. ASSUME NEW s \in Sockets, HandleConnect(s) PROVE AllTruthful'
  <2>1. PICK b \in BOOLEAN : Report(s, SPDZ_CONNECT, b)
    BY <1>6 DEF HandleConnect
  <2> DEFINE e == [eventType |-> SPDZ_CONNECT, status |-> b]
  <2>2. /\ events' = [events EXCEPT ![s] = Append(events[s], e)]
        /\ up' = up /\ events[s] \in Seq(Event) /\ e \in Event
        /\ link'[PROXY_CONNECT] = link[PROXY_CONNECT]
        /\ s \in link[PROXY_CONNECT]
    BY <1>6, <2>1, EventTypes, EventShape DEF HandleConnect, Report, TypeOK
  <2> HIDE DEF e
  <2> QED
    BY <2>2, <1>2
<1>7. ASSUME NEW c \in Calls, CallConnect(c) \/ CallTimeout(c)
      PROVE  AllTruthful'
  BY <1>1, <1>7 DEF CallConnect, CallTimeout
<1>8. ASSUME CallProxies \/ (\E k \in Sessions : SetupTimeout(k))
      PROVE  AllTruthful'
  BY <1>1, <1>8 DEF CallProxies, SetupTimeout
<1>9. CASE UNCHANGED vars
  BY <1>1, <1>9 DEF vars
<1> QED
  BY <1>3, <1>4, <1>5, <1>6, <1>7, <1>8, <1>9, DeliverTruthful DEF Next

\* What a step may resolve
LEMMA StepResolves ==
  ASSUME TypeOK, AllTruthful', TypeOK', [Next]_vars
  PROVE  /\ \A k \in Sessions :
              setup[k] = "pending" /\ setup'[k] = "resolved" =>
              \A s \in of(k) : s \in link'[PROXY_CONNECT] \/
                \E i \in 1..Len(events'[s]) :
                  events'[s][i] =
                    [eventType |-> PROXY_CONNECT, status |-> FALSE]
         /\ \A c \in Calls : call[c] = "pending" /\ call'[c] = "resolved" =>
              of(stream[c]) \subseteq up'[SPDZ_CONNECT]
<1>1. ASSUME NEW s \in Sockets, Deliver(s), NEW k \in Sessions,
             setup[k] = "pending", setup'[k] = "resolved", NEW x \in of(k)
      PROVE  x \in link'[PROXY_CONNECT] \/ LossQueued(x)'
  <2>1. of(k) \subseteq up'[PROXY_CONNECT] /\ x \in Sockets
    BY <1>1 DEF Deliver, Combined, hears, of, Sockets
  <2> QED
    BY <2>1, <1>1 DEF AllTruthful, Truthful
<1>2. ASSUME NEW s \in Sockets, Deliver(s), NEW c \in Calls,
             call[c] = "pending", call'[c] = "resolved"
      PROVE  of(stream[c]) \subseteq up'[SPDZ_CONNECT]
  BY <1>2 DEF Deliver, Combined, hears
<1>3. ASSUME ~(\E s \in Sockets : Deliver(s))
      PROVE  /\ \A k \in Sessions :
                  setup'[k] = "resolved" => setup[k] = "resolved"
             /\ \A c \in Calls : call'[c] = "resolved" => call[c] = "resolved"
  <2>1. CASE CallProxies
    BY <2>1 DEF CallProxies, TypeOK
  <2>2. ASSUME NEW c \in Calls, CallConnect(c) \/ CallTimeout(c)
        PROVE  /\ setup' = setup
               /\ \A d \in Calls : call'[d] = "resolved" => call[d] = "resolved"
    BY <2>2 DEF CallConnect, CallTimeout, TypeOK
  <2>3. ASSUME NEW k \in Sessions, SetupTimeout(k)
        PROVE  /\ call' = call
               /\ \A j \in Sessions :
                    setup'[j] = "resolved" => setup[j] = "resolved"
    BY <2>3 DEF SetupTimeout, TypeOK
  <2>4. ASSUME NEW s \in Sockets,
               WebConnect(s) \/ WebConnectFails(s) \/ WebDrop(s)
                 \/ HandleConnect(s)
        PROVE  UNCHANGED <<setup, call>>
    BY <2>4 DEF WebConnect, WebConnectFails, WebDrop, HandleConnect
  <2> QED
    BY <1>3, <2>1, <2>2, <2>3, <2>4 DEF Next, vars
<1> QED
  BY <1>1, <1>2, <1>3 DEF LossQueued, lost

\* A promise resolves only on the sockets of its own session: each is up, or
\* its loss is about to be handled, and the connections to the engines are
\* those of that session (promisify.js 73-97 and 125-149).
THEOREM ResolvesOnItsOwn == Spec => ResolvesOnOwn
<1>1. Spec => [](TypeOK /\ AllTruthful)
  BY InitType, NextType, InitTruthful, NextTruthful, PTL DEF Spec
<1>2. /\ TypeOK /\ AllTruthful /\ (TypeOK /\ AllTruthful)' /\ [Next]_vars
      => [/\ \A k \in Sessions :
                setup[k] = "pending" /\ setup'[k] = "resolved" =>
               \A s \in of(k) : s \in link'[PROXY_CONNECT] \/
                 \E i \in 1..Len(events'[s]) :
                   events'[s][i] =
                     [eventType |-> PROXY_CONNECT, status |-> FALSE]
          /\ \A c \in Calls : call[c] = "pending" /\ call'[c] = "resolved" =>
               of(stream[c]) \subseteq up'[SPDZ_CONNECT]]_vars
  BY StepResolves
<1> QED
  BY <1>1, <1>2, PTL DEF Spec, ResolvesOnOwn

-----------------------------------------------------------------------------
(* The connections of the engines.                                         *)

\* As long as nothing failed, no loss is queued
Lossless == troubles = 0 => \A s \in Sockets : ~LossQueued(s)

\* A socket has nothing before its session is opened
Unopened ==
  \A s \in Sockets \ Existing :
    /\ requests[s] = 0 /\ buffered[s] = 0 /\ events[s] = <<>>
    /\ s \notin link[PROXY_CONNECT] /\ s \notin link[SPDZ_CONNECT]
    /\ s \notin up[PROXY_CONNECT]

\* A connection to the engine of s is there or asked for
Owed(s) == requests[s] > 0 \/ buffered[s] > 0 \/ s \in link[SPDZ_CONNECT]

Even ==
  troubles = 0 => \A k \in Sessions, p, q \in Proxies :
    Owed(<<k, p>>) <=> Owed(<<k, q>>)

EngineInv == AllTruthful /\ Lossless /\ Unopened /\ Even

LEMMA InitEngines == Init => EngineInv
<1> SUFFICES ASSUME Init PROVE EngineInv
  OBVIOUS
<1>1. AllTruthful
  BY InitTruthful
<1>2. Lossless /\ Unopened
  BY EventTypes DEF Init, none, Lossless, LossQueued, Unopened
<1>3. \A s \in Sockets : ~Owed(s)
  BY EventTypes DEF Init, none, Owed
<1>4. Even
  BY <1>3 DEF Even, Sockets
<1> QED
  BY <1>1, <1>2, <1>4 DEF EngineInv

\* Without failures no loss is reported
LEMMA NextLossless == TypeOK /\ Lossless /\ [Next]_vars => Lossless'
<1> SUFFICES ASSUME TypeOK, Lossless, [Next]_vars, troubles' = 0
             PROVE  \A s \in Sockets : ~LossQueued(s)'
  BY DEF Lossless
<1>1. ASSUME UNCHANGED <<events, troubles>>
      PROVE  \A s \in Sockets : ~LossQueued(s)'
  BY <1>1 DEF Lossless, LossQueued
<1>2. ASSUME NEW s \in Sockets, NEW e \in Event, e # lost, troubles = 0,
             events' = [events EXCEPT ![s] = Append(events[s], e)],
             NEW t \in Sockets
      PROVE  ~LossQueued(t)'
  <2>1. /\ events[s] \in Seq(Event) /\ events'[s] = Append(events[s], e)
        /\ t # s => events'[t] = events[t]
        /\ ~LossQueued(t)
    BY <1>2 DEF TypeOK, Lossless
  <2>2. /\ Len(events'[s]) = Len(events[s]) + 1 /\ Len(events[s]) \in Nat
        /\ events'[s][Len(events[s]) + 1] = e
        /\ \A i \in 1..Len(events[s]) : events'[s][i] = events[s][i]
    BY <2>1, AppendProperties
  <2> QED
    BY <1>2, <2>1, <2>2 DEF LossQueued
<1>3. ASSUME NEW s \in Sockets, Deliver(s), NEW t \in Sockets
      PROVE  ~LossQueued(t)'
  <2>1. /\ events[s] \in Seq(Event) /\ events[s] # <<>>
        /\ events'[s] = Tail(events[s])
        /\ t # s => events'[t] = events[t]
        /\ ~LossQueued(t)
    BY <1>3 DEF Deliver, TypeOK, Lossless
  <2>2. /\ Len(events[s]) \in Nat \ {0}
        /\ Len(events'[s]) = Len(events[s]) - 1
        /\ \A i \in 1..(Len(events[s]) - 1) : events'[s][i] = events[s][i + 1]
    BY <2>1, HeadTailProperties
  <2>3. CASE t = s
    <3> SUFFICES ASSUME NEW i \in 1..Len(events'[s]), events'[s][i] = lost
                 PROVE  FALSE
      BY <2>3 DEF LossQueued
    <3>1. i + 1 \in 1..Len(events[s]) /\ events[s][i + 1] = lost
      BY <2>2
    <3> QED
      BY <2>1, <2>3, <3>1 DEF LossQueued
  <2>4. CASE t # s
    BY <2>1, <2>4 DEF LossQueued
  <2> QED
    BY <2>3, <2>4
<1>4. ASSUME NEW s \in Sockets, WebConnect(s), NEW t \in Sockets
      PROVE  ~LossQueued(t)'
  <2>1. events' = [events EXCEPT ![s] = Append(events[s], gained)]
        /\ troubles = 0
    BY <1>4 DEF WebConnect, Report, gained
  <2> QED
    BY <2>1, <1>2, EventShape
<1>5. ASSUME NEW s \in Sockets, HandleConnect(s), NEW t \in Sockets
      PROVE  ~LossQueued(t)'
  <2> DEFINE e == [eventType |-> SPDZ_CONNECT, status |-> TRUE]
  <2>1. events' = [events EXCEPT ![s] = Append(events[s], e)] /\ troubles = 0
    BY <1>5 DEF HandleConnect, Report, Trouble, TypeOK
  <2>2. e \in Event /\ e # lost
    BY EventShape
  <2> HIDE DEF e
  <2> QED
    BY <2>1, <2>2, <1>2
<1>6. ~(\E s \in Sockets : WebConnectFails(s) \/ WebDrop(s))
  <2>1. troubles \in Nat
    BY SessionsAssumption DEF TypeOK
  <2>2. ~Trouble
    BY <2>1 DEF Trouble
  <2> QED
    BY <2>2 DEF WebConnectFails, WebDrop
<1>7. ASSUME NEW c \in Calls, CallConnect(c) \/ CallTimeout(c)
      PROVE  UNCHANGED <<events, troubles>>
  BY <1>7 DEF CallConnect, CallTimeout
<1>8. ASSUME CallProxies \/ (\E k \in Sessions : SetupTimeout(k))
      PROVE  UNCHANGED <<events, troubles>>
  BY <1>8 DEF CallProxies, SetupTimeout
<1>9. CASE UNCHANGED vars
  BY <1>1, <1>9 DEF vars
<1> QED
  BY <1>1, <1>3, <1>4, <1>5, <1>6, <1>7, <1>8, <1>9 DEF Next

\* Nothing happens on a socket before its session
LEMMA NextUnopened == TypeOK /\ Unopened /\ [Next]_vars => Unopened'
<1> SUFFICES ASSUME TypeOK, Unopened, [Next]_vars,
                    NEW s \in Sockets, s \notin Existing'
             PROVE  /\ requests'[s] = 0 /\ buffered'[s] = 0
                    /\ events'[s] = <<>>
                    /\ s \notin link'[PROXY_CONNECT]
                    /\ s \notin link'[SPDZ_CONNECT]
                    /\ s \notin up'[PROXY_CONNECT]
  BY DEF Unopened
<1> USE EventTypes
<1>1. opened \in Nat /\ s[1] \in Nat
  BY SessionsAssumption DEF TypeOK, Sockets, Sessions
<1>0. opened' \in {opened, opened + 1}
  BY DEF Next, CallProxies, CallConnect, CallTimeout, SetupTimeout, Deliver,
         WebConnect, WebConnectFails, WebDrop, HandleConnect, vars
<1>2. s \notin Existing
  <2>1. ~(s[1] <= opened')
    BY DEF Existing
  <2>2. ~(s[1] <= opened)
    BY <1>0, <1>1, <2>1
  <2> QED
    BY <2>2 DEF Existing
<1>3. /\ requests[s] = 0 /\ buffered[s] = 0 /\ events[s] = <<>>
      /\ s \notin link[PROXY_CONNECT] /\ s \notin link[SPDZ_CONNECT]
      /\ s \notin up[PROXY_CONNECT]
  BY <1>2 DEF Unopened
<1>4. ASSUME NEW c \in Calls, CallConnect(c)
      PROVE  /\ requests'[s] = 0 /\ buffered'[s] = 0
             /\ UNCHANGED <<events, link, up>>
  BY <1>2, <1>3, <1>4 DEF CallConnect, Push
<1>5. ASSUME NEW t \in Sockets, Deliver(t)
      PROVE  /\ requests'[s] = 0 /\ buffered'[s] = 0 /\ events'[s] = <<>>
             /\ UNCHANGED link /\ s \notin up'[PROXY_CONNECT]
  <2>1. t # s
    BY <1>3, <1>5 DEF Deliver
  <2>2. events'[s] = events[s] /\ requests'[s] = requests[s]
        /\ buffered'[s] = buffered[s] /\ link' = link
    BY <1>5, <2>1 DEF Deliver, TypeOK
  <2>a. events[t] \in Seq(Event) /\ events[t] # <<>>
    BY <1>5 DEF Deliver, TypeOK
  <2>b. Head(events[t]) \in Event
    BY <2>a, HeadTailProperties
  <2>3. Head(events[t]).eventType \in EventType
    BY <2>b DEF Event
  <2>4. s \notin up'[PROXY_CONNECT]
    BY <1>3, <1>5, <2>1, <2>3 DEF Deliver, TypeOK
  <2> QED
    BY <1>3, <2>2, <2>4
<1>6. ASSUME NEW t \in Sockets,
             WebConnect(t) \/ WebConnectFails(t) \/ WebDrop(t)
               \/ HandleConnect(t)
      PROVE  t # s
  BY <1>2, <1>3, <1>6 DEF WebConnect, WebConnectFails, WebDrop, HandleConnect,
                          Attempting
<1>7. ASSUME NEW t \in Sockets, t # s,
             WebConnect(t) \/ WebConnectFails(t) \/ WebDrop(t)
      PROVE  /\ requests'[s] = requests[s] /\ buffered'[s] = buffered[s]
             /\ events'[s] = events[s] /\ up' = up
             /\ link'[SPDZ_CONNECT] = link[SPDZ_CONNECT]
             /\ s \in link'[PROXY_CONNECT] => s \in link[PROXY_CONNECT]
  BY <1>7 DEF WebConnect, WebConnectFails, WebDrop, Report, TypeOK
<1>8. ASSUME NEW t \in Sockets, t # s, HandleConnect(t)
      PROVE  /\ requests'[s] = requests[s] /\ buffered'[s] = buffered[s]
             /\ events'[s] = events[s] /\ up' = up
             /\ link'[PROXY_CONNECT] = link[PROXY_CONNECT]
             /\ s \in link'[SPDZ_CONNECT] => s \in link[SPDZ_CONNECT]
  BY <1>8 DEF HandleConnect, Report, TypeOK
<1>9. ASSUME \/ CallProxies \/ UNCHANGED vars
             \/ \E c \in Calls : CallTimeout(c)
             \/ \E k \in Sessions : SetupTimeout(k)
      PROVE  UNCHANGED <<requests, buffered, events, link, up>>
  BY <1>9 DEF CallProxies, CallTimeout, SetupTimeout, vars
<1> QED
  BY <1>3, <1>4, <1>5, <1>6, <1>7, <1>8, <1>9 DEF Next

\* A connect call reaches every socket that is there, and what is owed stays
\* owed until the engine has the connection
LEMMA NextEven == TypeOK /\ EngineInv /\ [Next]_vars => Even'
<1> SUFFICES ASSUME TypeOK, EngineInv, [Next]_vars, troubles' = 0
             PROVE  \A k \in Sessions, p, q \in Proxies :
                      Owed(<<k, p>>)' <=> Owed(<<k, q>>)'
  BY DEF Even
<1> USE EventTypes
<1>1. troubles \in Nat
  BY SessionsAssumption DEF TypeOK
<1>12. ~Trouble
  BY <1>1 DEF Trouble
<1>2. ASSUME troubles = 0, \A s \in Sockets : Owed(s)' <=> Owed(s)
      PROVE  \A k \in Sessions, p, q \in Proxies :
               Owed(<<k, p>>)' <=> Owed(<<k, q>>)'
  BY <1>2 DEF EngineInv, Even, Sockets
<1>3. ASSUME troubles = 0, UNCHANGED <<requests, buffered, link>>
      PROVE  \A s \in Sockets : Owed(s)' <=> Owed(s)
  BY <1>3 DEF Owed
<1>4. ASSUME troubles = 0
      PROVE  /\ up[PROXY_CONNECT] \subseteq link[PROXY_CONNECT]
             /\ \A s \in Sockets : \A i \in 1..Len(events[s]) :
                  events[s][i] = gained => s \in link[PROXY_CONNECT]
  <2>1. \A s \in Sockets : Truthful(s) /\ ~LossQueued(s)
    BY <1>4 DEF EngineInv, AllTruthful, Lossless
  <2>2. up[PROXY_CONNECT] \subseteq Sockets
    BY DEF TypeOK
  <2> QED
    BY <2>1, <2>2 DEF Truthful, LossQueued
<1>5. ASSUME NEW c \in Calls, CallConnect(c), NEW k \in Sessions,
             NEW p \in Proxies, NEW q \in Proxies
      PROVE  Owed(<<k, p>>)' <=> Owed(<<k, q>>)'
  <2>1. troubles = 0 /\ UNCHANGED <<opened, link>>
    BY <1>5 DEF CallConnect
  <2>2. CASE UNCHANGED <<requests, buffered>>
    BY <2>1, <2>2, <1>2, <1>3
  <2>3. CASE Push
    <3>1. ASSUME NEW s \in Sockets, s \in Existing PROVE Owed(s)'
      <4>1. CASE s \in up[PROXY_CONNECT]
        <5>1. requests'[s] = requests[s] + 1
          BY <1>4, <2>1, <2>3, <4>1 DEF Push
        <5> QED
          BY <5>1 DEF Owed, TypeOK
      <4>2. CASE s \notin up[PROXY_CONNECT]
        <5>1. buffered'[s] = buffered[s] + 1
          BY <2>3, <3>1, <4>2 DEF Push
        <5> QED
          BY <5>1 DEF Owed, TypeOK
      <4> QED
        BY <4>1, <4>2
    <3>2. ASSUME NEW s \in Sockets, s \notin Existing PROVE ~Owed(s)'
      BY <2>1, <2>3, <3>2 DEF Push, EngineInv, Unopened, Owed
    <3>3. /\ <<k, p>> \in Sockets /\ <<k, q>> \in Sockets
          /\ <<k, p>> \in Existing <=> <<k, q>> \in Existing
      BY DEF Sockets, Existing
    <3> QED
      BY <3>1, <3>2, <3>3
  <2> QED
    BY <1>5, <2>2, <2>3 DEF CallConnect
<1>6. ASSUME NEW t \in Sockets, Deliver(t), NEW s \in Sockets
      PROVE  Owed(s)' <=> Owed(s)
  <2>1. troubles = 0 /\ link' = link
    BY <1>6 DEF Deliver
  <2>2. CASE UNCHANGED <<requests, buffered>>
    BY <2>1, <2>2, <1>3
  <2>3. CASE ~UNCHANGED <<requests, buffered>>
    <3> DEFINE e == Head(events[t])
    <3>1. /\ e.eventType = PROXY_CONNECT /\ e.status
          /\ buffered' = [buffered EXCEPT ![t] = 0]
          /\ requests' = [requests EXCEPT ![t] =
               IF t \in link[PROXY_CONNECT] THEN @ + buffered[t] ELSE @]
      BY <1>6, <2>3 DEF Deliver
    <3>2. events[t] \in Seq(Event) /\ events[t] # <<>>
      BY <1>6 DEF Deliver, TypeOK
    <3>3. e \in Event /\ e = events[t][1] /\ 1 \in 1..Len(events[t])
      BY <3>2, HeadTailProperties
    <3>4. e = gained
      BY <3>1, <3>3, EventShape DEF lost
    <3>5. t \in link[PROXY_CONNECT]
      BY <3>3, <3>4, <2>1, <1>4
    <3>6. requests[t] \in Nat /\ buffered[t] \in Nat
      BY DEF TypeOK
    <3>7. CASE s = t
      <4>1. requests'[t] = requests[t] + buffered[t] /\ buffered'[t] = 0
        BY <3>1, <3>5 DEF TypeOK
      <4> QED
        BY <2>1, <3>6, <3>7, <4>1 DEF Owed
    <3>8. CASE s # t
      BY <2>1, <3>1, <3>8 DEF Owed, TypeOK
    <3> QED
      BY <3>7, <3>8
  <2> QED
    BY <2>2, <2>3
<1>7. ASSUME NEW t \in Sockets, WebConnect(t), NEW s \in Sockets
      PROVE  Owed(s)' <=> Owed(s)
  BY <1>7 DEF WebConnect, Owed, TypeOK
<1>8. ASSUME NEW t \in Sockets, HandleConnect(t), NEW s \in Sockets
      PROVE  Owed(s)' <=> Owed(s)
  <2>1. /\ requests' = [requests EXCEPT ![t] = @ - 1] /\ requests[t] > 0
        /\ buffered' = buffered
        /\ link' = [link EXCEPT ![SPDZ_CONNECT] = @ \union {t}]
    BY <1>12, <1>8 DEF HandleConnect
  <2>2. link'[SPDZ_CONNECT] = link[SPDZ_CONNECT] \union {t}
    BY <2>1 DEF TypeOK
  <2>3. s # t => requests'[s] = requests[s]
    BY <2>1 DEF TypeOK
  <2> QED
    BY <2>1, <2>2, <2>3 DEF Owed
<1>9. ~(\E s \in Sockets : WebConnectFails(s) \/ WebDrop(s))
  BY <1>12 DEF WebConnectFails, WebDrop
<1>10. ASSUME \/ CallProxies \/ UNCHANGED vars
              \/ \E c \in Calls : CallTimeout(c)
              \/ \E k \in Sessions : SetupTimeout(k)
       PROVE  troubles = 0 /\ UNCHANGED <<requests, buffered, link>>
  BY <1>10 DEF CallProxies, CallTimeout, SetupTimeout, vars
<1>11. ASSUME \E t \in Sockets : Deliver(t) \/ WebConnect(t) \/ HandleConnect(t)
       PROVE  troubles = 0
  BY <1>12, <1>11 DEF Deliver, WebConnect, HandleConnect
<1> QED
  BY <1>2, <1>3, <1>5, <1>6, <1>7, <1>8, <1>9, <1>10, <1>11 DEF Next

LEMMA EvenConnections == EngineInv => ConnectionsMatch
<1> SUFFICES ASSUME EngineInv, troubles = 0,
                    \A s \in Sockets : requests[s] = 0 /\ buffered[s] = 0,
                    NEW p \in Proxies, NEW q \in Proxies
             PROVE  {k \in Sessions : <<k, p>> \in link[SPDZ_CONNECT]}
                      = {k \in Sessions : <<k, q>> \in link[SPDZ_CONNECT]}
  BY DEF ConnectionsMatch
<1>1. \A k \in Sessions : Owed(<<k, p>>) <=> Owed(<<k, q>>)
  BY DEF EngineInv, Even
<1>2. \A k \in Sessions : <<k, p>> \in Sockets /\ <<k, q>> \in Sockets
  BY DEF Sockets
<1> QED
  BY <1>1, <1>2 DEF Owed

\* While nothing fails, all engines have as many connections of this client
\* once the requests are handled (socketApi.js 169-175), although the sockets
\* of abandoned sessions hear every request.
THEOREM ConnectionsAreMatched == Spec => []ConnectionsMatch
<1>1. TypeOK /\ EngineInv /\ [Next]_vars => EngineInv'
  BY NextTruthful, NextLossless, NextUnopened, NextEven DEF EngineInv
<1> QED
  BY <1>1, InitType, NextType, InitEngines, EvenConnections, PTL DEF Spec
=============================================================================
