-------------------------- MODULE BootstrapProofs --------------------------
(***************************************************************************)
(* Proofs about Bootstrap, for any number of setups and runs.              *)
(*                                                                         *)
(* Why the shared socket is alive: the last event queued of a socket       *)
(* reports it as it is, and a connect that is not true any more is         *)
(* followed by the report of the loss (Reported).  So the handler that     *)
(* shares a dead socket leaves a loss to be handled (Alive), and a client  *)
(* with one socket shares it once nothing is queued (Followed).            *)
(*                                                                         *)
(* Why a run gets its own answer: a run has its handler on one socket, and *)
(* only its own requests are there (Placed).  As long as no two runs wait  *)
(* on a socket, at most one request or one result is on it, and it is that *)
(* of the run that waits (Single).                                         *)
(***************************************************************************)
EXTENDS Bootstrap, SequenceTheorems, TLAPS

Reported(s) ==
  /\ \A i \in LinkEventsOf(s) :
       (\A j \in LinkEventsOf(s) : j <= i)
         => (events[s][i] = "connect" <=> s \in link)
  /\ \A i \in LinkEventsOf(s) :
       events[s][i] = "connect" /\ s \notin link
         => \E j \in LinkEventsOf(s) : j > i /\ events[s][j] = "disconnect"

Alive(s) ==
  clientSocket = s /\ s \notin link
    => \E i \in LinkEventsOf(s) : events[s][i] = "disconnect"

Followed(s) ==
  LinkEventsOf(s) = {} /\ created = {s} => (clientSocket = s <=> s \in link)

\* Only a socket that was made has events, or is shared
Made ==
  /\ clientSocket \in created \union {NoSocket}
  /\ \A s \in Setups \ created : events[s] = <<>>
  /\ \A s \in created : setup[s] # "unused"

SocketInv ==
  \A s \in Setups : Reported(s) /\ Alive(s) /\ Followed(s)

IInv == TypeOK /\ Made /\ SocketInv

-----------------------------------------------------------------------------
(* Types, and what was made.                                               *)

\* No step of a socket leaves something of the wrong type in its queue
LEMMA ReportType ==
  ASSUME TypeOK, NEW s \in Setups, NEW e \in Event, Report(s, e)
  PROVE  events' \in [Setups -> Seq(Event)]
<1>1. Append(events[s], e) \in Seq(Event)
  BY AppendProperties DEF TypeOK
<1> QED
  BY <1>1 DEF Report, TypeOK

LEMMA TailType ==
  ASSUME TypeOK, NEW s \in Setups, events[s] # <<>>,
         events' = [events EXCEPT ![s] = Tail(@)]
  PROVE  /\ events' \in [Setups -> Seq(Event)]
         /\ Head(events[s]) \in Event
<1>1. events[s] \in Seq(Event)
  BY DEF TypeOK
<1>2. Tail(events[s]) \in Seq(Event) /\ Head(events[s]) \in Event
  BY <1>1, HeadTailProperties
<1> QED
  BY <1>2 DEF TypeOK

LEMMA InitInv == Init => IInv
<1> SUFFICES ASSUME Init PROVE IInv
  OBVIOUS
<1>1. TypeOK
  BY DEF Init, TypeOK, Promise, Outcome
<1>2. Made
  BY DEF Init, Made
<1>3. SocketInv
  <2> SUFFICES ASSUME NEW s \in Setups
               PROVE  Reported(s) /\ Alive(s) /\ Followed(s)
    BY DEF SocketInv
  <2>1. LinkEventsOf(s) = {}
    BY DEF Init, LinkEventsOf
  <2> QED
    BY <2>1, NoSocketAssumption DEF Init, Reported, Alive, Followed
<1> QED
  BY <1>1, <1>2, <1>3 DEF IInv

\* Every step keeps the types and what is said of the sockets made
LEMMA NextType == TypeOK /\ Made /\ [Next]_vars => TypeOK' /\ Made'
<1> SUFFICES ASSUME TypeOK, Made, [Next]_vars PROVE TypeOK' /\ Made'
  OBVIOUS
<1>1. ASSUME NEW s \in Setups, SetupAgain(s) PROVE TypeOK' /\ Made'
  BY <1>1 DEF SetupAgain, TypeOK, Made, Promise
<1>2. ASSUME NEW s \in Setups, SetupNew(s) PROVE TypeOK' /\ Made'
  BY <1>2 DEF SetupNew, TypeOK, Made, Promise
<1>3. ASSUME NEW s \in Setups, OnLinkEvent(s) PROVE TypeOK' /\ Made'
  <2> DEFINE e == Head(events[s])
  <2>1. s \in created /\ e \in LinkEvent
    BY <1>3 DEF OnLinkEvent, Made
  <2>2. events' \in [Setups -> Seq(Event)]
    BY <1>3, TailType DEF OnLinkEvent
  <2>3. clientSocket' \in {s, NoSocket} /\ settledBy(e) \in Promise
        /\ settledBy(e) # "unused"
    BY <1>3, <2>1 DEF OnLinkEvent, socketAfter, settledBy, LinkEvent, Promise
  <2>4. /\ setup' \in [Setups -> Promise]
        /\ \A t \in Setups : setup[t] # "unused" => setup'[t] # "unused"
    BY <1>3, <2>3 DEF OnLinkEvent, TypeOK
  <2>5. \A t \in Setups \ {s} : events'[t] = events[t]
    BY <1>3 DEF OnLinkEvent, TypeOK
  <2>6. TypeOK'
    BY <1>3, <2>1, <2>2, <2>3, <2>4 DEF OnLinkEvent, TypeOK
  <2>7. Made'
    BY <1>3, <2>1, <2>3, <2>4, <2>5 DEF OnLinkEvent, Made, TypeOK
  <2> QED
    BY <2>6, <2>7
<1>4. ASSUME NEW s \in Setups, OnStartResult(s) PROVE TypeOK' /\ Made'
  <2>1. s \in created
    BY <1>4 DEF OnStartResult, Made
  <2>2. events' \in [Setups -> Seq(Event)]
    BY <1>4, TailType DEF OnStartResult
  <2>3. run' \in [Runs -> Promise]
    BY <1>4 DEF OnStartResult, TypeOK, Promise
  <2>4. \A t \in Setups \ {s} : events'[t] = events[t]
    BY <1>4 DEF OnStartResult, TypeOK
  <2> QED
    BY <1>4, <2>1, <2>2, <2>3, <2>4 DEF OnStartResult, TypeOK, Made
<1>5. ASSUME NEW s \in Setups, NEW e \in Event, s \in created, Report(s, e),
             UNCHANGED <<clientSocket, created, setup>>
      PROVE  events' \in [Setups -> Seq(Event)] /\ Made'
  BY <1>5, ReportType DEF Report, Made, TypeOK
<1>6. ASSUME NEW s \in Setups, Connect(s) PROVE TypeOK' /\ Made'
  <2>1. "connect" \in Event /\ s \in created
    BY <1>6 DEF Event, LinkEvent, Connect, Attempting
  <2>2. events' \in [Setups -> Seq(Event)] /\ Made'
    BY <1>6, <2>1, <1>5 DEF Connect
  <2> QED
    BY <1>6, <2>1, <2>2 DEF Connect, TypeOK
<1>7. ASSUME NEW s \in Setups, ConnectFails(s) PROVE TypeOK' /\ Made'
  <2>1. "connect_error" \in Event /\ s \in created
    BY <1>7 DEF Event, LinkEvent, ConnectFails, Attempting
  <2>2. events' \in [Setups -> Seq(Event)] /\ Made'
    BY <1>7, <2>1, <1>5 DEF ConnectFails
  <2> QED
    BY <1>7, <2>2 DEF ConnectFails, Trouble, TypeOK
<1>8. ASSUME NEW s \in Setups, Drop(s) PROVE TypeOK' /\ Made'
  <2>1. s \in created /\ troubles' \in Nat
    BY <1>8 DEF Drop, Trouble, TypeOK
  <2>2. PICK n \in 0..Len(events[s]) :
          events' = [events EXCEPT ![s] = Append(SubSeq(@, 1, n), "disconnect")]
    BY <1>8 DEF Drop
  <2>3. events[s] \in Seq(Event) /\ "disconnect" \in Event
    BY DEF TypeOK, Event, LinkEvent
  <2>4. SubSeq(events[s], 1, n) \in Seq(Event)
    BY <2>3, SubSeqProperties
  <2>5. Append(SubSeq(events[s], 1, n), "disconnect") \in Seq(Event)
    BY <2>3, <2>4, AppendProperties
  <2>6. /\ events' \in [Setups -> Seq(Event)]
        /\ \A t \in Setups \ {s} : events'[t] = events[t]
    BY <2>2, <2>5 DEF TypeOK
  <2>7. requests' \in [Setups -> Seq(Runs)]
    BY <1>8 DEF Drop, TypeOK
  <2> QED
    BY <1>8, <2>1, <2>6, <2>7 DEF Drop, TypeOK, Made
<1>9. ASSUME NEW s \in Setups, HandleStart(s) PROVE TypeOK' /\ Made'
  <2>1. s \in created /\ requests[s] \in Seq(Runs) /\ requests[s] # <<>>
    BY <1>9 DEF HandleStart, TypeOK
  <2>2. Head(requests[s]) \in Runs /\ Tail(requests[s]) \in Seq(Runs)
    BY <2>1, HeadTailProperties
  <2>3. PICK o \in {"started", "refused"} :
          /\ outcome' = [outcome EXCEPT ![Head(requests[s])] = o]
          /\ Report(s, o)
    BY <1>9 DEF HandleStart
  <2>4. events' \in [Setups -> Seq(Event)] /\ Made'
    BY <1>9, <2>1, <2>3, <1>5 DEF HandleStart, Event
  <2>5. requests' \in [Setups -> Seq(Runs)] /\ outcome' \in [Runs -> Outcome]
    BY <1>9, <2>2, <2>3 DEF HandleStart, TypeOK, Outcome
  <2> QED
    BY <1>9, <2>4, <2>5 DEF HandleStart, TypeOK
<1>10. ASSUME NEW r \in Runs, RunRefused(r) PROVE TypeOK' /\ Made'
  BY <1>10 DEF RunRefused, TypeOK, Made, Promise
<1>11. ASSUME NEW r \in Runs, RunSpdzProgram(r) PROVE TypeOK' /\ Made'
  <2>1. clientSocket \in created /\ clientSocket \in Setups
    BY <1>11 DEF RunSpdzProgram, Made, TypeOK
  <2>2. Append(requests[clientSocket], r) \in Seq(Runs)
    BY <2>1, AppendProperties DEF TypeOK
  <2>3. requests' \in [Setups -> Seq(Runs)]
    BY <1>11, <2>1, <2>2 DEF RunSpdzProgram, TypeOK
  <2>4. /\ run' \in [Runs -> Promise]
        /\ handlers' \in [Setups -> SUBSET Runs]
        /\ shared' \in SUBSET created'
    BY <1>11, <2>1 DEF RunSpdzProgram, TypeOK, Promise
  <2> QED
    BY <1>11, <2>3, <2>4 DEF RunSpdzProgram, TypeOK, Made
<1>12. CASE UNCHANGED vars
  BY <1>12 DEF vars, TypeOK, Made
<1> QED
  BY <1>1, <1>2, <1>3, <1>4, <1>6, <1>7, <1>8, <1>9, <1>10, <1>11, <1>12
  DEF Next

\* The variables of Bootstrap keep their types (bootstrap_api/index.js 7-133)
THEOREM TypeCorrect == Spec => []TypeOK
<1>1. Init => TypeOK /\ Made
  BY InitInv DEF IInv
<1> QED
  BY <1>1, NextType, PTL DEF Spec

-----------------------------------------------------------------------------
(* The shared socket.                                                      *)

\* A report of socket s that says what is so of it, made when none is queued
\* or of its loss, is the last and true
LEMMA AppendReported ==
  ASSUME TypeOK, NEW s \in Setups, NEW q \in Seq(Event), NEW e \in LinkEvent,
         events'[s] = Append(q, e),
         e = "connect" <=> s \in link',
         e = "disconnect" \/ \A i \in 1..Len(q) : q[i] \notin LinkEvent
  PROVE  Reported(s)' /\ Len(q) + 1 \in LinkEventsOf(s)'
         /\ events'[s][Len(q) + 1] = e
<1> DEFINE n == Len(q)
<1>1. e \in Event
  BY DEF Event
<1>2. /\ n \in Nat /\ Len(events'[s]) = n + 1
      /\ \A i \in 1..n : events'[s][i] = q[i]
      /\ events'[s][n + 1] = e
  BY <1>1, AppendProperties
<1>3. n + 1 \in LinkEventsOf(s)' /\ \A i \in LinkEventsOf(s)' : i <= n + 1
  BY <1>2 DEF LinkEventsOf
<1>4. ASSUME NEW i \in LinkEventsOf(s)', \A j \in LinkEventsOf(s)' : j <= i
      PROVE  (events'[s][i] = "connect" <=> s \in link')
  <2>1. i = n + 1
    BY <1>2, <1>3, <1>4 DEF LinkEventsOf
  <2> QED
    BY <2>1, <1>2
<1>5. ASSUME NEW i \in LinkEventsOf(s)', events'[s][i] = "connect",
             s \notin link'
      PROVE  \E j \in LinkEventsOf(s)' : j > i /\ events'[s][j] = "disconnect"
  <2>1. i # n + 1
    BY <1>2, <1>5
  <2>2. i \in 1..n /\ q[i] \in LinkEvent
    BY <2>1, <1>2, <1>5 DEF LinkEventsOf
  <2> QED
    BY <2>2, <1>2, <1>3
<1> QED
  BY <1>2, <1>3, <1>4, <1>5 DEF Reported

\* An event that is not about the connection changes nothing that is said of it
LEMMA ResultReported ==
  ASSUME TypeOK, NEW s \in Setups, NEW o \in Event \ LinkEvent,
         events'[s] = Append(events[s], o), link' = link,
         clientSocket' = clientSocket, created' = created,
         Reported(s), Alive(s), Followed(s)
  PROVE  Reported(s)' /\ Alive(s)' /\ Followed(s)'
<1> DEFINE n == Len(events[s])
<1>1. /\ events[s] \in Seq(Event) /\ n \in Nat
      /\ Len(events'[s]) = n + 1 /\ events'[s][n + 1] = o
      /\ \A i \in 1..n : events'[s][i] = events[s][i]
  BY AppendProperties DEF TypeOK
<1>2. LinkEventsOf(s)' = LinkEventsOf(s)
  BY <1>1 DEF LinkEventsOf
<1>3. \A i \in LinkEventsOf(s) : events'[s][i] = events[s][i]
  BY <1>1 DEF LinkEventsOf
<1> QED
  BY <1>2, <1>3 DEF Reported, Alive, Followed

\* Handling an event leaves the rest of the queue as it is
LEMMA TailReported ==
  ASSUME TypeOK, NEW s \in Setups, events[s] # <<>>,
         events'[s] = Tail(events[s]), link' = link, Reported(s)
  PROVE  /\ Reported(s)'
         /\ \A i \in LinkEventsOf(s)' :
              i + 1 \in LinkEventsOf(s) /\ events'[s][i] = events[s][i + 1]
         /\ \A i \in LinkEventsOf(s) :
              i = 1 \/ (i - 1 \in LinkEventsOf(s)'
                        /\ events'[s][i - 1] = events[s][i])
<1> DEFINE es == events[s]
<1>1. /\ es \in Seq(Event) /\ Len(es) \in Nat \ {0}
      /\ Len(events'[s]) = Len(es) - 1
      /\ \A i \in 1..Len(events'[s]) : events'[s][i] = es[i + 1]
  BY HeadTailProperties DEF TypeOK
<1>2. \A i \in LinkEventsOf(s)' :
        i + 1 \in LinkEventsOf(s) /\ events'[s][i] = es[i + 1]
  BY <1>1 DEF LinkEventsOf
<1>3. \A i \in LinkEventsOf(s) :
        i = 1 \/ (i - 1 \in LinkEventsOf(s)' /\ events'[s][i - 1] = es[i])
  BY <1>1 DEF LinkEventsOf
<1>4. LinkEventsOf(s) \subseteq Nat /\ LinkEventsOf(s)' \subseteq Nat \ {0}
  BY DEF LinkEventsOf
<1>5. ASSUME NEW i \in LinkEventsOf(s)', \A j \in LinkEventsOf(s)' : j <= i
      PROVE  (events'[s][i] = "connect" <=> s \in link')
  <2>1. \A j \in LinkEventsOf(s) : j <= i + 1
    BY <1>3, <1>4, <1>5
  <2> QED
    BY <2>1, <1>2 DEF Reported
<1>6. ASSUME NEW i \in LinkEventsOf(s)', events'[s][i] = "connect",
             s \notin link'
      PROVE  \E j \in LinkEventsOf(s)' : j > i /\ events'[s][j] = "disconnect"
  <2>1. PICK j \in LinkEventsOf(s) : j > i + 1 /\ es[j] = "disconnect"
    BY <1>2, <1>6 DEF Reported
  <2>a. i \in Nat \ {0} /\ j \in Nat
    BY <1>4, <1>6
  <2>b. j # 1 /\ j - 1 > i
    BY <2>1, <2>a
  <2>2. j - 1 \in LinkEventsOf(s)' /\ events'[s][j - 1] = es[j]
    BY <2>b, <1>3
  <2> QED
    BY <2>1, <2>2, <2>b
<1> QED
  BY <1>2, <1>3, <1>5, <1>6 DEF Reported

\* Handling a result changes nothing of the connection
LEMMA OnStartResultInv ==
  ASSUME IInv, NEW s \in Setups, OnStartResult(s)
  PROVE  SocketInv'
<1> SUFFICES ASSUME NEW t \in Setups
             PROVE  Reported(t)' /\ Alive(t)' /\ Followed(t)'
  BY DEF SocketInv
<1>1. /\ TypeOK /\ Reported(t) /\ Alive(t) /\ Followed(t)
      /\ UNCHANGED <<clientSocket, created, link>>
  BY DEF IInv, SocketInv, OnStartResult
<1>2. CASE t # s
  <2>1. events'[t] = events[t]
    BY <1>1, <1>2 DEF OnStartResult, TypeOK
  <2> QED
    BY <1>1, <2>1 DEF Reported, Alive, Followed, LinkEventsOf
<1>3. CASE t = s
  <2>1. /\ events[s] # <<>> /\ Head(events[s]) \notin LinkEvent
        /\ events'[s] = Tail(events[s])
    BY <1>1 DEF OnStartResult, TypeOK
  <2>2. /\ Reported(s)'
        /\ \A i \in LinkEventsOf(s)' : i + 1 \in LinkEventsOf(s)
        /\ \A i \in LinkEventsOf(s) :
             i = 1 \/ (i - 1 \in LinkEventsOf(s)'
                       /\ events'[s][i - 1] = events[s][i])
    BY <1>1, <1>3, <2>1, TailReported
  <2>3. 1 \notin LinkEventsOf(s)
    BY <2>1, HeadTailProperties DEF LinkEventsOf
  <2>4. Alive(s)'
    BY <1>1, <1>3, <2>2, <2>3 DEF Alive
  <2>5. Followed(s)'
    BY <1>1, <1>3, <2>2, <2>3 DEF Followed
  <2> QED
    BY <1>3, <2>2, <2>4, <2>5
<1> QED
  BY <1>2, <1>3

\* Handling an event of the connection of s: the socket is shared only after
\* a connect, whose loss, if it was lost, comes behind
LEMMA OnLinkEventInv ==
  ASSUME IInv, NEW s \in Setups, OnLinkEvent(s)
  PROVE  SocketInv'
<1> SUFFICES ASSUME NEW t \in Setups
             PROVE  Reported(t)' /\ Alive(t)' /\ Followed(t)'
  BY DEF SocketInv
<1> DEFINE e == Head(events[s])
<1>1. /\ TypeOK /\ Made /\ Reported(t) /\ Alive(t) /\ Followed(t)
      /\ UNCHANGED <<created, link>>
      /\ clientSocket' = IF e = "connect" THEN s ELSE NoSocket
      /\ events[s] # <<>> /\ s \in created
  BY DEF IInv, SocketInv, OnLinkEvent, socketAfter, Made
<1>2. CASE t # s
  <2>1. events'[t] = events[t]
    BY <1>1, <1>2 DEF OnLinkEvent, TypeOK
  <2>2. clientSocket' # t /\ created # {t}
    BY <1>1, <1>2, NoSocketAssumption
  <2> QED
    BY <1>1, <2>1, <2>2 DEF Reported, Alive, Followed, LinkEventsOf
<1>3. CASE t = s
  <2>1. /\ events[s] # <<>> /\ e \in LinkEvent
        /\ events'[s] = Tail(events[s])
    BY <1>1 DEF OnLinkEvent, TypeOK
  <2>2. /\ Reported(s)'
        /\ \A i \in LinkEventsOf(s)' :
             i + 1 \in LinkEventsOf(s) /\ events'[s][i] = events[s][i + 1]
        /\ \A i \in LinkEventsOf(s) :
             i = 1 \/ (i - 1 \in LinkEventsOf(s)'
                       /\ events'[s][i - 1] = events[s][i])
    BY <1>1, <1>3, <2>1, TailReported
  <2>3. 1 \in LinkEventsOf(s) /\ events[s][1] = e
    BY <2>1, <1>1, HeadTailProperties DEF LinkEventsOf, TypeOK
  <2>4. Alive(s)'
    <3> SUFFICES ASSUME e = "connect", s \notin link
                 PROVE  \E i \in LinkEventsOf(s)' : events'[s][i] = "disconnect"
      BY <1>1, NoSocketAssumption DEF Alive
    <3>1. PICK j \in LinkEventsOf(s) : j > 1 /\ events[s][j] = "disconnect"
      BY <1>1, <1>3, <2>3 DEF Reported
    <3> QED
      BY <3>1, <2>2
  <2>5. Followed(s)'
    <3> SUFFICES ASSUME LinkEventsOf(s)' = {}
                 PROVE  (clientSocket' = s <=> s \in link)
      BY <1>1 DEF Followed
    <3>1. \A i \in LinkEventsOf(s) : i <= 1
      BY <2>2
    <3>2. (e = "connect" <=> s \in link)
      BY <3>1, <2>3, <1>1, <1>3 DEF Reported
    <3> QED
      BY <3>2, <1>1, NoSocketAssumption
  <2> QED
    BY <1>3, <2>2, <2>4, <2>5
<1> QED
  BY <1>2, <1>3

\* What the environment does to the connection of s is the last in its queue
LEMMA ConnectionInv ==
  ASSUME IInv, NEW s \in Setups,
         Connect(s) \/ ConnectFails(s) \/ Drop(s)
  PROVE  SocketInv'
<1> SUFFICES ASSUME NEW t \in Setups
             PROVE  Reported(t)' /\ Alive(t)' /\ Followed(t)'
  BY DEF SocketInv
<1>1. /\ TypeOK /\ Reported(t) /\ Alive(t) /\ Followed(t)
      /\ UNCHANGED <<created, clientSocket>>
      /\ events[s] \in Seq(Event)
  BY DEF IInv, SocketInv, Connect, ConnectFails, Drop, TypeOK
<1>2. PICK q \in Seq(Event), e \in LinkEvent :
        /\ events' = [events EXCEPT ![s] = Append(q, e)]
        /\ e = "connect" <=> s \in link'
        /\ e = "disconnect" \/ \A i \in 1..Len(q) : q[i] \notin LinkEvent
        /\ \A u \in Setups \ {s} : u \in link' <=> u \in link
        /\ s \notin link'
             => e = "disconnect" \/ (s \notin link /\ LinkEventsOf(s) = {})
  <2>1. CASE Connect(s)
    <3>1. /\ events' = [events EXCEPT ![s] = Append(events[s], "connect")]
          /\ s \in link' /\ \A u \in Setups \ {s} : u \in link' <=> u \in link
          /\ \A i \in 1..Len(events[s]) : events[s][i] \notin LinkEvent
          /\ "connect" \in LinkEvent
      BY <2>1 DEF Connect, Report, Attempting, LinkEventsOf, LinkEvent
    <3> QED
      BY <3>1, <1>1
  <2>2. CASE ConnectFails(s)
    <3>1. /\ events' = [events EXCEPT ![s] = Append(events[s], "connect_error")]
          /\ s \notin link /\ link' = link /\ LinkEventsOf(s) = {}
          /\ \A i \in 1..Len(events[s]) : events[s][i] \notin LinkEvent
          /\ "connect_error" \in LinkEvent
      BY <2>2 DEF ConnectFails, Report, Attempting, LinkEventsOf, LinkEvent
    <3> QED
      BY <3>1, <1>1
  <2>3. CASE Drop(s)
    <3>1. PICK n \in 0..Len(events[s]) :
            events' = [events EXCEPT ![s] =
                         Append(SubSeq(@, 1, n), "disconnect")]
      BY <2>3 DEF Drop
    <3>2. SubSeq(events[s], 1, n) \in Seq(Event)
      BY <1>1, <3>1, SubSeqProperties
    <3>3. /\ s \notin link'
          /\ \A u \in Setups \ {s} : u \in link' <=> u \in link
          /\ "disconnect" \in LinkEvent
      BY <2>3 DEF Drop, LinkEvent
    <3>4. events' = [events EXCEPT ![s] =
                       Append(SubSeq(events[s], 1, n), "disconnect")]
      BY <3>1
    <3> QED
      BY <3>2, <3>3, <3>4
  <2> QED
    BY <2>1, <2>2, <2>3
<1>3. CASE t # s
  <2>1. events'[t] = events[t] /\ (t \in link' <=> t \in link)
    BY <1>1, <1>2, <1>3 DEF TypeOK
  <2> QED
    BY <1>1, <2>1 DEF Reported, Alive, Followed, LinkEventsOf
<1>4. CASE t = s
  <2>1. events'[s] = Append(q, e)
    BY <1>1, <1>2 DEF TypeOK
  <2>2. /\ Reported(s)' /\ Len(q) + 1 \in LinkEventsOf(s)'
        /\ events'[s][Len(q) + 1] = e
    BY <1>1, <1>2, <2>1, AppendReported
  <2>3. Followed(s)'
    BY <2>2 DEF Followed
  <2>4. Alive(s)'
    <3> SUFFICES ASSUME clientSocket = s, s \notin link'
                 PROVE  e = "disconnect"
      BY <2>2, <1>1 DEF Alive
    <3> QED
      BY <1>1, <1>2, <1>4 DEF Alive
  <2> QED
    BY <1>4, <2>2, <2>3, <2>4
<1> QED
  BY <1>3, <1>4

\* Every step keeps what is said of the sockets
LEMMA NextSocket == IInv /\ [Next]_vars => SocketInv'
<1> SUFFICES ASSUME IInv, [Next]_vars PROVE SocketInv'
  OBVIOUS
<1>1. ASSUME UNCHANGED <<clientSocket, created, link, events>>
      PROVE  SocketInv'
  BY <1>1 DEF IInv, SocketInv, Reported, Alive, Followed, LinkEventsOf
<1>2. ASSUME NEW s \in Setups, SetupNew(s) PROVE SocketInv'
  <2>1. /\ UNCHANGED <<clientSocket, link, events>>
        /\ created' = created \union {s} /\ s \notin created
        /\ clientSocket = NoSocket /\ link \subseteq created
    BY <1>2 DEF SetupNew, IInv, Made, TypeOK
  <2> SUFFICES ASSUME NEW t \in Setups
               PROVE  Reported(t)' /\ Alive(t)' /\ Followed(t)'
    BY DEF SocketInv
  <2>2. Reported(t)' /\ Alive(t)'
    BY <2>1 DEF IInv, SocketInv, Reported, Alive, LinkEventsOf
  <2>3. Followed(t)'
    BY <2>1, NoSocketAssumption DEF Followed
  <2> QED
    BY <2>2, <2>3
<1>3. ASSUME NEW s \in Setups, HandleStart(s) PROVE SocketInv'
  <2> SUFFICES ASSUME NEW t \in Setups
               PROVE  Reported(t)' /\ Alive(t)' /\ Followed(t)'
    BY DEF SocketInv
  <2>1. PICK o \in {"started", "refused"} : Report(s, o)
    BY <1>3 DEF HandleStart
  <2>2. /\ TypeOK /\ Reported(t) /\ Alive(t) /\ Followed(t)
        /\ UNCHANGED <<clientSocket, created, link>>
        /\ o \in Event \ LinkEvent
    BY <1>3 DEF HandleStart, IInv, SocketInv, Event, LinkEvent
  <2>3. CASE t = s
    <3>1. events'[s] = Append(events[s], o)
      BY <2>1, <2>2 DEF Report, TypeOK
    <3> QED
      BY <2>2, <2>3, <3>1, ResultReported
  <2>4. CASE t # s
    <3>1. events'[t] = events[t]
      BY <2>1, <2>2, <2>4 DEF Report, TypeOK
    <3> QED
      BY <2>2, <3>1 DEF Reported, Alive, Followed, LinkEventsOf
  <2> QED
    BY <2>3, <2>4
<1>4. ASSUME NEW s \in Setups, SetupAgain(s) PROVE SocketInv'
  BY <1>1, <1>4 DEF SetupAgain
<1>5. ASSUME NEW r \in Runs, RunRefused(r) \/ RunSpdzProgram(r)
      PROVE  SocketInv'
  BY <1>1, <1>5 DEF RunRefused, RunSpdzProgram
<1>6. CASE UNCHANGED vars
  BY <1>1, <1>6 DEF vars
<1> QED
  BY <1>2, <1>3, <1>4, <1>5, <1>6, OnStartResultInv, OnLinkEventInv,
     ConnectionInv DEF Next

LEMMA InvIsTruthful == IInv => SocketTruthful
<1> SUFFICES ASSUME IInv PROVE SocketTruthful
  OBVIOUS
<1>1. ASSUME NEW s \in Setups \ link, clientSocket = s
      PROVE  \E i \in LinkEventsOf(s) : events[s][i] = "disconnect"
  BY <1>1 DEF IInv, SocketInv, Alive
<1>2. ASSUME NEW s \in created, Quiet, created = {s}
      PROVE  (clientSocket = s <=> s \in link)
  BY <1>2 DEF IInv, SocketInv, Followed, Quiet, TypeOK
<1> QED
  BY <1>1, <1>2 DEF SocketTruthful

\* The shared socket is never a dead one whose loss has been handled, and a
\* lone socket is shared exactly while it is up (bootstrap_api/index.js
\* 57-84), however setups race and sockets fail and come back.
THEOREM SocketIsTruthful == Spec => []SocketTruthful
<1>1. IInv /\ [Next]_vars => IInv'
  BY NextType, NextSocket DEF IInv
<1> QED
  BY <1>1, InitInv, InvIsTruthful, PTL DEF Spec

-----------------------------------------------------------------------------
(* The answers to runs.                                                    *)

ResultsOf(s) == {i \in 1..Len(events[s]) : events[s][i] \notin LinkEvent}

\* A run that began has its handler on one socket, where its request is
Placed ==
  /\ \A r \in Runs : run[r] = "unused" => \A s \in Setups : r \notin handlers[s]
  /\ \A s, t \in Setups : s # t => handlers[s] \cap handlers[t] = {}
  /\ \A s \in Setups : \A i \in 1..Len(requests[s]) :
       requests[s][i] \in handlers[s]

\* On a socket that runs do not share
Single(s) ==
  /\ \A q, r \in waiting(s) : q = r
  /\ \A i \in 1..Len(requests[s]) :
       i = 1 /\ requests[s][i] \in waiting(s) /\ ResultsOf(s) = {}
  /\ \A i \in ResultsOf(s) :
       /\ \E w \in waiting(s) : outcome[w] = events[s][i]
       /\ \A j \in ResultsOf(s) : i = j
  /\ \A r \in handlers[s] : /\ run[r] = "resolved" => outcome[r] = "started"
                            /\ run[r] = "rejected" => outcome[r] = "refused"

AnswerInv == Placed /\ \A s \in Setups \ shared : Single(s)

LEMMA InitAnswers == Init => AnswerInv
BY DEF Init, AnswerInv, Placed, Single, ResultsOf, waiting

\* A step that only moves link events leaves answers as they are
LEMMA LinkAnswers ==
  ASSUME TypeOK, AnswerInv, NEW s \in Setups,
         UNCHANGED <<run, handlers, outcome, shared>>,
         \A t \in Setups \ {s} :
           events'[t] = events[t] /\ requests'[t] = requests[t],
         requests'[s] \in {requests[s], <<>>},
         NEW d \in {0, 1},
         \A i \in ResultsOf(s)' :
           i + d \in ResultsOf(s) /\ events'[s][i] = events[s][i + d]
  PROVE  AnswerInv'
<1>1. Placed'
  <2>1. \A t \in Setups : requests'[t] = requests[t] \/ requests'[t] = <<>>
    OBVIOUS
  <2>2. ASSUME NEW t \in Setups, NEW i \in 1..Len(requests'[t])
        PROVE  requests'[t][i] \in handlers[t]
    <3>1. CASE requests'[t] = requests[t]
      BY <3>1 DEF AnswerInv, Placed
    <3>2. CASE requests'[t] = <<>>
      BY <3>2
    <3> QED
      BY <2>1, <3>1, <3>2
  <2> QED
    BY <2>2 DEF AnswerInv, Placed
<1>2. ASSUME NEW t \in Setups \ shared PROVE Single(t)'
  <2>1. Single(t) /\ waiting(t)' = waiting(t)
    BY DEF AnswerInv, waiting
  <2>2. CASE t # s
    BY <2>1, <2>2 DEF Single, ResultsOf
  <2>3. CASE t = s
    <3>1. \A i \in ResultsOf(s)' : i \in Nat
      BY DEF ResultsOf
    <3>2. \A i \in 1..Len(requests'[s]) :
            i = 1 /\ requests'[s][i] \in waiting(s)' /\ ResultsOf(s)' = {}
      <4>1. CASE requests'[s] = <<>>
        BY <4>1
      <4>2. CASE requests'[s] = requests[s]
        BY <2>1, <2>3, <4>2 DEF Single
      <4> QED
        BY <4>1, <4>2
    <3>3. ASSUME NEW i \in ResultsOf(s)', NEW j \in ResultsOf(s)'
          PROVE  /\ \E w \in waiting(s)' : outcome'[w] = events'[s][i]
                 /\ i = j
      <4>1. i + d \in ResultsOf(s) /\ events'[s][i] = events[s][i + d]
            /\ j + d \in ResultsOf(s)
        BY <3>3
      <4>2. i + d = j + d
        BY <4>1, <2>1, <2>3 DEF Single
      <4> QED
        BY <4>1, <4>2, <3>1, <2>1, <2>3 DEF Single
    <3> QED
      BY <2>1, <2>3, <3>2, <3>3 DEF Single
  <2> QED
    BY <2>2, <2>3
<1> QED
  BY <1>1, <1>2 DEF AnswerInv

\* Appending a link event adds no result
LEMMA AppendAnswers ==
  ASSUME TypeOK, NEW s \in Setups, NEW q \in Seq(Event), NEW e \in LinkEvent,
         events'[s] = Append(q, e),
         \A i \in 1..Len(q) : i \in 1..Len(events[s]) /\ q[i] = events[s][i]
  PROVE  \A i \in ResultsOf(s)' :
           i + 0 \in ResultsOf(s) /\ events'[s][i] = events[s][i + 0]
<1>1. /\ Len(q) \in Nat /\ Len(events'[s]) = Len(q) + 1
      /\ events'[s][Len(q) + 1] = e
      /\ \A i \in 1..Len(q) : events'[s][i] = q[i]
  BY AppendProperties DEF Event
<1>2. ASSUME NEW i \in ResultsOf(s)' PROVE i \in 1..Len(q)
  BY <1>1, <1>2 DEF ResultsOf
<1> QED
  BY <1>1, <1>2 DEF ResultsOf

\* A run begins: it is the only one to wait, or the socket is shared
LEMMA RunAnswers ==
  ASSUME TypeOK, Made, AnswerInv, NEW r \in Runs, RunSpdzProgram(r)
  PROVE  AnswerInv'
<1>0. PICK s \in Setups : s = clientSocket
  BY DEF RunSpdzProgram, Made, TypeOK
<1>1. /\ run[r] = "unused"
      /\ run' = [run EXCEPT ![r] = "pending"]
      /\ handlers' = [handlers EXCEPT ![s] = @ \union {r}]
      /\ requests' = IF s \in link
                       THEN [requests EXCEPT ![s] = Append(@, r)] ELSE requests
      /\ shared' = IF waiting(s) = {} THEN shared ELSE shared \union {s}
      /\ UNCHANGED <<events, outcome>>
  BY <1>0 DEF RunSpdzProgram
<1>2. \A t \in Setups : r \notin handlers[t]
  BY <1>1 DEF AnswerInv, Placed
<1>3. /\ handlers'[s] = handlers[s] \union {r}
      /\ \A t \in Setups \ {s} :
           handlers'[t] = handlers[t] /\ requests'[t] = requests[t]
      /\ run'[r] = "pending" /\ \A q \in Runs \ {r} : run'[q] = run[q]
  BY <1>1 DEF TypeOK
<1>4. /\ requests[s] \in Seq(Runs)
      /\ requests'[s] \in {requests[s], Append(requests[s], r)}
  BY <1>1 DEF TypeOK
<1>5. \A i \in 1..Len(requests'[s]) :
        \/ i \in 1..Len(requests[s]) /\ requests'[s][i] = requests[s][i]
        \/ i = Len(requests[s]) + 1 /\ requests'[s][i] = r
  <2>1. /\ Len(requests[s]) \in Nat
        /\ Len(Append(requests[s], r)) = Len(requests[s]) + 1
        /\ Append(requests[s], r)[Len(requests[s]) + 1] = r
        /\ \A i \in 1..Len(requests[s]) :
             Append(requests[s], r)[i] = requests[s][i]
    BY <1>4, AppendProperties
  <2>2. CASE requests'[s] = requests[s]
    BY <2>2
  <2>3. CASE requests'[s] = Append(requests[s], r)
    BY <2>1, <2>3
  <2> QED
    BY <1>4, <2>2, <2>3
<1>6. Placed'
  <2>1. \A q \in Runs : run'[q] = "unused" =>
          q # r /\ run[q] = "unused"
    BY <1>3
  <2>2. \A i \in 1..Len(requests'[s]) : requests'[s][i] \in handlers'[s]
    BY <1>3, <1>5, <1>1 DEF AnswerInv, Placed
  <2> QED
    BY <1>1, <1>2, <1>3, <2>1, <2>2 DEF AnswerInv, Placed
<1>7. ASSUME NEW t \in Setups \ shared' PROVE Single(t)'
  <2>1. t \in Setups \ shared /\ Single(t)
    BY <1>1, <1>7 DEF AnswerInv
  <2>2. CASE t # s
    <3>1. waiting(t)' = waiting(t)
      BY <1>2, <1>3, <2>2 DEF waiting, TypeOK
    <3>2. \A q \in handlers[t] : run'[q] = run[q]
      BY <1>2, <1>3 DEF TypeOK
    <3> QED
      BY <1>1, <1>3, <2>1, <2>2, <3>1, <3>2 DEF Single, ResultsOf
  <2>3. CASE t = s
    <3>1. waiting(s) = {}
      BY <1>1, <1>7, <2>3
    <3>2. waiting(s)' = {r}
      <4>1. \A q \in handlers[s] : q \in Runs \ {r} /\ run[q] # "pending"
        BY <1>1, <1>2, <3>1 DEF waiting, TypeOK
      <4>2. \A q \in handlers[s] : run'[q] # "pending"
        BY <1>3, <4>1
      <4> QED
        BY <1>3, <4>2 DEF waiting
    <3>3. ResultsOf(s)' = {}
      <4>1. ResultsOf(s) = {}
        BY <2>1, <2>3, <3>1 DEF Single
      <4> QED
        BY <1>1, <4>1 DEF ResultsOf
    <3>4. ~(\E i \in 1..Len(requests[s]) : TRUE)
      BY <2>1, <2>3, <3>1 DEF Single
    <3>5. Len(requests[s]) = 0
      <4>1. Len(requests[s]) \in Nat
        BY <1>4, LenProperties
      <4> QED
        BY <3>4, <4>1
    <3>6. \A q \in handlers'[s] : q = r \/ q \in handlers[s]
      BY <1>3
    <3>7. \A i \in 1..Len(requests'[s]) : i = 1 /\ requests'[s][i] = r
      <4>1. \A i \in 1..Len(requests'[s]) : i \notin 1..Len(requests[s])
        BY <3>5
      <4> QED
        BY <1>5, <3>5, <4>1
    <3>8. ASSUME NEW q \in handlers'[s]
          PROVE  /\ run'[q] = "resolved" => outcome'[q] = "started"
                 /\ run'[q] = "rejected" => outcome'[q] = "refused"
      <4>1. CASE q = r
        BY <1>3, <4>1
      <4>2. CASE q # r
        <5>1. q \in handlers[s] /\ run'[q] = run[q]
          BY <1>1, <1>3, <3>6, <4>2 DEF TypeOK
        <5> QED
          BY <1>1, <2>1, <2>3, <5>1 DEF Single
      <4> QED
        BY <4>1, <4>2
    <3> QED
      BY <2>3, <3>2, <3>3, <3>7, <3>8 DEF Single
  <2> QED
    BY <2>2, <2>3
<1> QED
  BY <1>6, <1>7 DEF AnswerInv

\* The proxy answers the one request on a socket
LEMMA HandleAnswers ==
  ASSUME TypeOK, AnswerInv, NEW s \in Setups, HandleStart(s)
  PROVE  AnswerInv'
<1> DEFINE r == Head(requests[s])
<1>1. PICK o \in {"started", "refused"} :
        /\ outcome' = [outcome EXCEPT ![r] = o]
        /\ events' = [events EXCEPT ![s] = Append(@, o)]
  BY DEF HandleStart, Report
<1>2. /\ requests' = [requests EXCEPT ![s] = Tail(@)]
      /\ requests[s] # <<>> /\ requests[s] \in Seq(Runs)
      /\ events[s] \in Seq(Event) /\ o \in Event /\ o \notin LinkEvent
      /\ UNCHANGED <<run, handlers, shared>>
  BY DEF HandleStart, TypeOK, Event, LinkEvent
<1>3. /\ r = requests[s][1] /\ r \in Runs /\ Len(requests[s]) \in Nat \ {0}
      /\ Len(Tail(requests[s])) = Len(requests[s]) - 1
      /\ \A i \in 1..(Len(requests[s]) - 1) :
           Tail(requests[s])[i] = requests[s][i + 1]
  BY <1>2, HeadTailProperties
<1>4. /\ requests'[s] = Tail(requests[s]) /\ events'[s] = Append(events[s], o)
      /\ \A t \in Setups \ {s} :
           requests'[t] = requests[t] /\ events'[t] = events[t]
      /\ outcome'[r] = o /\ \A q \in Runs \ {r} : outcome'[q] = outcome[q]
  BY <1>1, <1>2, <1>3 DEF TypeOK
<1>5. r \in handlers[s]
  BY <1>3 DEF AnswerInv, Placed
<1>6. Placed'
  <2>1. \A i \in 1..Len(requests'[s]) : requests'[s][i] \in handlers[s]
    BY <1>3, <1>4 DEF AnswerInv, Placed
  <2> QED
    BY <1>2, <1>4, <2>1 DEF AnswerInv, Placed
<1>7. ASSUME NEW t \in Setups \ shared PROVE Single(t)'
  <2>1. Single(t) /\ waiting(t)' = waiting(t) /\ waiting(t) \subseteq Runs
        /\ handlers[t] \subseteq Runs
    BY <1>2 DEF AnswerInv, waiting, TypeOK
  <2>2. CASE t # s
    <3>1. r \notin handlers[t]
      BY <1>5, <2>2 DEF AnswerInv, Placed
    <3>2. /\ requests'[t] = requests[t] /\ events'[t] = events[t]
          /\ ResultsOf(t)' = ResultsOf(t)
      BY <1>4, <2>2 DEF ResultsOf
    <3>3. \A q \in handlers[t] : run'[q] = run[q] /\ outcome'[q] = outcome[q]
      BY <1>2, <1>4, <2>1, <3>1
    <3>4. \A q \in waiting(t) : outcome'[q] = outcome[q]
      BY <3>3 DEF waiting
    <3>5. \A i \in ResultsOf(t)' :
            /\ \E w \in waiting(t)' : outcome'[w] = events'[t][i]
            /\ \A j \in ResultsOf(t)' : i = j
      BY <2>1, <3>2, <3>4 DEF Single
    <3>6. \A i \in 1..Len(requests'[t]) :
            i = 1 /\ requests'[t][i] \in waiting(t)' /\ ResultsOf(t)' = {}
      BY <2>1, <3>2 DEF Single
    <3>7. \A p, q \in waiting(t)' : p = q
      BY <2>1 DEF Single
    <3>8. \A q \in handlers'[t] :
            /\ run'[q] = "resolved" => outcome'[q] = "started"
            /\ run'[q] = "rejected" => outcome'[q] = "refused"
      BY <1>2, <2>1, <3>3 DEF Single
    <3> QED
      BY <3>5, <3>6, <3>7, <3>8 DEF Single
  <2>3. CASE t = s
    <3>1. /\ Len(requests[s]) = 1 /\ r \in waiting(s) /\ ResultsOf(s) = {}
      <4>1. /\ 1 \in 1..Len(requests[s])
            /\ Len(requests[s]) \in 1..Len(requests[s])
        BY <1>3
      <4>2. \A i \in 1..Len(requests[s]) :
              i = 1 /\ requests[s][i] \in waiting(s) /\ ResultsOf(s) = {}
        BY <2>1, <2>3 DEF Single
      <4> QED
        BY <1>3, <4>1, <4>2
    <3>2. Len(requests'[s]) = 0
      BY <1>3, <1>4, <3>1
    <3>3. /\ Len(events[s]) \in Nat /\ Len(events'[s]) = Len(events[s]) + 1
          /\ events'[s][Len(events[s]) + 1] = o
          /\ \A i \in 1..Len(events[s]) : events'[s][i] = events[s][i]
      BY <1>2, <1>4, AppendProperties
    <3>4. \A i \in ResultsOf(s)' : i = Len(events[s]) + 1
      BY <3>1, <3>3 DEF ResultsOf
    <3>5. ASSUME NEW q \in handlers'[s]
          PROVE  /\ run'[q] = "resolved" => outcome'[q] = "started"
                 /\ run'[q] = "rejected" => outcome'[q] = "refused"
      <4>1. q \in handlers[s] /\ q \in Runs /\ run'[q] = run[q]
        BY <1>2, <2>1, <2>3
      <4>2. CASE q = r
        BY <3>1, <4>1, <4>2 DEF waiting
      <4>3. CASE q # r
        BY <1>4, <2>1, <2>3, <4>1, <4>3 DEF Single
      <4> QED
        BY <4>2, <4>3
    <3>6. \A i \in ResultsOf(s)' :
            /\ \E w \in waiting(s)' : outcome'[w] = events'[s][i]
            /\ \A j \in ResultsOf(s)' : i = j
      BY <1>4, <2>1, <2>3, <3>1, <3>3, <3>4
    <3>7. \A p, q \in waiting(s)' : p = q
      BY <2>1, <2>3 DEF Single
    <3>8. 1..Len(requests'[s]) = {}
      BY <3>2
    <3>9. Single(s)'
      BY <3>5, <3>6, <3>7, <3>8 DEF Single
    <3> QED
      BY <2>3, <3>9
  <2> QED
    BY <2>2, <2>3
<1> QED
  BY <1>2, <1>6, <1>7 DEF AnswerInv

\* A result settles the run that waits, and nothing else is on the socket
LEMMA ResultAnswers ==
  ASSUME TypeOK, AnswerInv, NEW s \in Setups, OnStartResult(s)
  PROVE  AnswerInv'
<1> DEFINE e == Head(events[s])
<1>1. /\ events[s] # <<>> /\ events[s] \in Seq(Event) /\ e \notin LinkEvent
      /\ events' = [events EXCEPT ![s] = Tail(@)]
      /\ run' = [r \in Runs |->
           IF r \notin waiting(s) THEN run[r]
           ELSE IF e = "started" THEN "resolved" ELSE "rejected"]
      /\ UNCHANGED <<requests, handlers, outcome, shared>>
  BY DEF OnStartResult, TypeOK, hearers
<1>2. /\ e = events[s][1] /\ Len(events[s]) \in Nat \ {0} /\ e \in Event
      /\ Len(Tail(events[s])) = Len(events[s]) - 1
      /\ \A i \in 1..(Len(events[s]) - 1) :
           Tail(events[s])[i] = events[s][i + 1]
  BY <1>1, HeadTailProperties
<1>3. 1 \in ResultsOf(s) /\ e \in {"started", "refused"}
  BY <1>1, <1>2 DEF ResultsOf, Event
<1>4. /\ events'[s] = Tail(events[s])
      /\ \A t \in Setups \ {s} : events'[t] = events[t]
  BY <1>1 DEF TypeOK
<1>5. \A t \in Setups \ {s} : \A r \in handlers[t] : run'[r] = run[r]
  BY <1>1 DEF AnswerInv, Placed, waiting, TypeOK
<1>6. Placed'
  <2>1. \A r \in Runs : run'[r] = "unused" => run[r] = "unused"
    BY <1>1
  <2> QED
    BY <1>1, <2>1 DEF AnswerInv, Placed
<1>7. ASSUME NEW t \in Setups \ shared PROVE Single(t)'
  <2>1. Single(t)
    BY DEF AnswerInv
  <2>2. CASE t # s
    <3>1. waiting(t)' = waiting(t)
      BY <1>1, <1>5, <2>2 DEF waiting
    <3> QED
      BY SMTT(30), <1>1, <1>4, <1>5, <2>1, <2>2, <3>1 DEF Single, ResultsOf
  <2>3. CASE t = s
    <3>1. /\ \A w \in waiting(s) : outcome[w] = e
          /\ \A i \in ResultsOf(s) : i = 1
      BY <1>2, <1>3, <2>1, <2>3 DEF Single
    <3>2. ~(\E i \in 1..Len(requests[s]) : TRUE)
      BY <1>3, <2>1, <2>3 DEF Single
    <3>3. ResultsOf(s)' = {}
      BY <1>2, <1>4, <3>1 DEF ResultsOf
    <3>4. waiting(s)' = {}
      BY <1>1 DEF waiting, TypeOK
    <3>5. ASSUME NEW r \in handlers'[s]
          PROVE  /\ run'[r] = "resolved" => outcome'[r] = "started"
                 /\ run'[r] = "rejected" => outcome'[r] = "refused"
      <4>1. r \in Runs /\ r \in handlers[s]
        BY <1>1, <3>5 DEF TypeOK
      <4>2. CASE r \in waiting(s)
        BY <1>1, <1>3, <3>1, <4>1, <4>2
      <4>3. CASE r \notin waiting(s)
        BY <1>1, <2>1, <2>3, <4>1, <4>3 DEF Single
      <4> QED
        BY <4>2, <4>3
    <3> QED
      BY <1>1, <2>3, <3>2, <3>3, <3>4, <3>5 DEF Single
  <2> QED
    BY <2>2, <2>3
<1> QED
  BY <1>1, <1>6, <1>7 DEF AnswerInv

LEMMA NextAnswers == TypeOK /\ Made /\ AnswerInv /\ [Next]_vars => AnswerInv'
<1> SUFFICES ASSUME TypeOK, Made, AnswerInv, [Next]_vars PROVE AnswerInv'
  OBVIOUS
<1>1. ASSUME UNCHANGED <<run, handlers, outcome, shared, events, requests>>
      PROVE  AnswerInv'
  BY <1>1 DEF AnswerInv, Placed, Single, ResultsOf, waiting
<1>2. ASSUME NEW s \in Setups, OnLinkEvent(s) PROVE AnswerInv'
  <2>1. /\ events[s] # <<>> /\ events[s] \in Seq(Event)
        /\ events' = [events EXCEPT ![s] = Tail(@)]
        /\ UNCHANGED <<run, handlers, outcome, shared, requests>>
    BY <1>2 DEF OnLinkEvent, TypeOK
  <2>2. /\ Len(events[s]) \in Nat \ {0}
        /\ Len(Tail(events[s])) = Len(events[s]) - 1
        /\ \A i \in 1..(Len(events[s]) - 1) :
             Tail(events[s])[i] = events[s][i + 1]
    BY <2>1, HeadTailProperties
  <2>3. /\ events'[s] = Tail(events[s])
        /\ \A t \in Setups \ {s} : events'[t] = events[t]
    BY <2>1 DEF TypeOK
  <2>4. \A i \in ResultsOf(s)' :
          i + 1 \in ResultsOf(s) /\ events'[s][i] = events[s][i + 1]
    BY <2>2, <2>3 DEF ResultsOf
  <2> QED
    BY <2>1, <2>3, <2>4, LinkAnswers
<1>3. ASSUME NEW s \in Setups, Connect(s) \/ ConnectFails(s) \/ Drop(s)
      PROVE  AnswerInv'
  <2>1. PICK q \in Seq(Event), e \in LinkEvent :
          /\ events' = [events EXCEPT ![s] = Append(q, e)]
          /\ \A i \in 1..Len(q) :
               i \in 1..Len(events[s]) /\ q[i] = events[s][i]
    <3>1. events[s] \in Seq(Event)
      BY DEF TypeOK
    <3>2. CASE Connect(s) \/ ConnectFails(s)
      BY <3>1, <3>2 DEF Connect, ConnectFails, Report, LinkEvent
    <3>3. CASE Drop(s)
      <4>1. PICK n \in 0..Len(events[s]) :
              events' = [events EXCEPT ![s] =
                           Append(SubSeq(@, 1, n), "disconnect")]
        BY <3>3 DEF Drop
      <4>2. /\ SubSeq(events[s], 1, n) \in Seq(Event)
            /\ Len(SubSeq(events[s], 1, n)) = n
            /\ \A i \in 1..n : SubSeq(events[s], 1, n)[i] = events[s][i]
        BY <3>1, SubSeqProperties, LenProperties
      <4>3. events' = [events EXCEPT ![s] =
                         Append(SubSeq(events[s], 1, n), "disconnect")]
        BY <4>1
      <4>4. Len(events[s]) \in Nat /\ "disconnect" \in LinkEvent
        BY <3>1, LenProperties DEF LinkEvent
      <4>5. \A i \in 1..n : i \in 1..Len(events[s])
        BY <4>4
      <4> QED
        BY <4>2, <4>3, <4>4, <4>5
    <3> QED
      BY <1>3, <3>2, <3>3
  <2>2. /\ events'[s] = Append(q, e)
        /\ \A t \in Setups \ {s} : events'[t] = events[t]
    BY <2>1 DEF TypeOK
  <2>3. /\ UNCHANGED <<run, handlers, outcome, shared>>
        /\ requests'[s] \in {requests[s], <<>>}
        /\ \A t \in Setups \ {s} : requests'[t] = requests[t]
    BY <1>3 DEF Connect, ConnectFails, Drop, TypeOK
  <2>4. \A i \in ResultsOf(s)' :
          i + 0 \in ResultsOf(s) /\ events'[s][i] = events[s][i + 0]
    BY <2>1, <2>2, AppendAnswers
  <2> QED
    BY <2>2, <2>3, <2>4, LinkAnswers
<1>4. ASSUME NEW r \in Runs, RunRefused(r) PROVE AnswerInv'
  <2>1. \A s \in Setups : r \notin handlers[s]
    BY <1>4 DEF RunRefused, AnswerInv, Placed
  <2>2. /\ \A q \in Runs \ {r} : run'[q] = run[q] /\ run'[r] = "rejected"
        /\ UNCHANGED <<handlers, outcome, shared, events, requests>>
    BY <1>4 DEF RunRefused, TypeOK
  <2>3. \A s \in Setups : \A q \in handlers[s] : run'[q] = run[q]
    BY <2>1, <2>2 DEF TypeOK
  <2>4. \A s \in Setups : waiting(s)' = waiting(s)
    BY <2>2, <2>3 DEF waiting
  <2> QED
    BY <2>1, <2>2, <2>3, <2>4 DEF AnswerInv, Placed, Single, ResultsOf
<1>5. ASSUME NEW s \in Setups, SetupAgain(s) \/ SetupNew(s)
      PROVE  AnswerInv'
  BY <1>1, <1>5 DEF SetupAgain, SetupNew
<1>6. CASE UNCHANGED vars
  BY <1>1, <1>6 DEF vars
<1> QED
  BY <1>2, <1>3, <1>4, <1>5, <1>6, RunAnswers, HandleAnswers, ResultAnswers
  DEF Next

\* A run resolves only if its own program started and rejects only if it was
\* refused (bootstrap_api/index.js 104-133), however sockets are lost,
\* replaced and come back, as long as no two runs wait on one socket.
THEOREM AnswersAreOwn == Spec => []OwnAnswer
<1>1. Init => TypeOK /\ Made
  BY InitInv DEF IInv
<1>2. AnswerInv => OwnAnswer
  BY DEF AnswerInv, Single, OwnAnswer
<1> QED
  BY <1>1, <1>2, InitAnswers, NextType, NextAnswers, PTL DEF Spec
=============================================================================
