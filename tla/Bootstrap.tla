----------------------------- MODULE Bootstrap -----------------------------
(***************************************************************************)
(* bootstrap_api/index.js: one module-wide clientSocket, set and cleared   *)
(* by the events of every socket that bootstrapConnectSetup has made, and  *)
(* runSpdzProgram, which asks the proxy behind it to start a program.      *)
(*                                                                         *)
(* A setup that finds clientSocket undefined makes a socket, even while an *)
(* earlier setup waits for its own or after one was rejected; socket.io    *)
(* keeps trying to (re)connect each of them.  A socket is named by the     *)
(* setup that made it.                                                     *)
(***************************************************************************)
EXTENDS Naturals, Sequences, FiniteSets

CONSTANTS
  Setups,       \* the calls of bootstrapConnectSetup
  Runs,         \* the calls of runSpdzProgram
  NoSocket,     \* clientSocket is undefined
  MaxTroubles   \* bound: failed connections and losses

ASSUME NoSocketAssumption == NoSocket \notin Setups
ASSUME TroublesAssumption == MaxTroubles \in Nat

Promise == {"unused", "pending", "resolved", "rejected"}
Outcome == {"none", "started", "refused"}
LinkEvent == {"connect", "connect_error", "disconnect"}
Event == LinkEvent \union {"started", "refused"}

VARIABLES
  clientSocket,  \* the shared socket, or NoSocket
  created,       \* setups that made a socket
  link,          \* sockets really connected
  events,        \* events[s]: socket events not yet handled
  requests,      \* requests[s]: startSpdz messages travelling to the proxy
  setup,         \* setup[s]: the promise of setup s
  run,           \* run[r]: the promise of run r
  handlers,      \* handlers[s]: runs with a startSpdz_result handler on s
  outcome,       \* history: what the proxy did about run r
  shared,        \* history: sockets on which a run began while one waited
  troubles       \* number of failures so far, for the bound

vars == <<clientSocket, created, link, events, requests, setup, run,
          handlers, outcome, shared, troubles>>

TypeOK ==
  /\ clientSocket \in Setups \union {NoSocket}
  /\ created \in SUBSET Setups
  /\ link \in SUBSET created
  /\ events \in [Setups -> Seq(Event)]
  /\ requests \in [Setups -> Seq(Runs)]
  /\ setup \in [Setups -> Promise]
  /\ run \in [Runs -> Promise]
  /\ handlers \in [Setups -> SUBSET Runs]
  /\ outcome \in [Runs -> Outcome]
  /\ shared \in SUBSET created
  /\ troubles \in Nat

Init ==
  /\ clientSocket = NoSocket
  /\ created = {} /\ link = {} /\ shared = {}
  /\ events = [s \in Setups |-> <<>>]
  /\ requests = [s \in Setups |-> <<>>]
  /\ setup = [s \in Setups |-> "unused"]
  /\ run = [r \in Runs |-> "unused"]
  /\ handlers = [s \in Setups |-> {}]
  /\ outcome = [r \in Runs |-> "none"]
  /\ troubles = 0

-----------------------------------------------------------------------------
(* Calls of the application.                                               *)

\* bootstrapConnectSetup with a socket there: nothing to do
SetupAgain(s) ==
  /\ setup[s] = "unused"
  /\ clientSocket # NoSocket
  /\ setup' = [setup EXCEPT ![s] = "resolved"]
  /\ UNCHANGED <<clientSocket, created, link, events, requests, run,
                 handlers, outcome, shared, troubles>>

\* bootstrapConnectSetup without one: a new socket, that starts to connect
SetupNew(s) ==
  /\ setup[s] = "unused"
  /\ clientSocket = NoSocket
  /\ setup' = [setup EXCEPT ![s] = "pending"]
  /\ created' = created \union {s}
  /\ UNCHANGED <<clientSocket, link, events, requests, run, handlers,
                 outcome, shared, troubles>>

RunRefused(r) ==
  /\ run[r] = "unused"
  /\ clientSocket = NoSocket
  /\ run' = [run EXCEPT ![r] = "rejected"]
  /\ UNCHANGED <<clientSocket, created, link, events, requests, setup,
                 handlers, outcome, shared, troubles>>

waiting(s) == {r \in handlers[s] : run[r] = "pending"}

\* runSpdzProgram: the message goes out on the shared socket, which takes one
\* more handler for good.  On a socket whose loss is not handled yet, the
\* message goes to a dead transport.
RunSpdzProgram(r) ==
  LET s == clientSocket IN
  /\ run[r] = "unused"
  /\ s # NoSocket
  /\ run' = [run EXCEPT ![r] = "pending"]
  /\ handlers' = [handlers EXCEPT ![s] = @ \union {r}]
  /\ requests' = IF s \in link
                   THEN [requests EXCEPT ![s] = Append(@, r)] ELSE requests
  /\ shared' = IF waiting(s) = {} THEN shared ELSE shared \union {s}
  /\ UNCHANGED <<clientSocket, created, link, events, setup, outcome,
                 troubles>>

-----------------------------------------------------------------------------
(* The client handles one event of one socket.                             *)

\* Variant: a lost connection is only logged
socketAfterLossKept(s, e) ==
  IF e = "connect" THEN s
  ELSE IF e = "disconnect" THEN clientSocket ELSE NoSocket

\* The handlers of connect, connect_error, connect_timeout and disconnect:
\* the last three clear the shared socket, whichever it is
socketAfter(s, e) == IF e = "connect" THEN s ELSE NoSocket

\* Variant: the promise takes the name of the event
settledByName(e) == e

\* What each of them does to a setup promise that waits
settledBy(e) ==
  CASE e = "connect" -> "resolved"
    [] e = "connect_error" -> "rejected"
    [] e = "disconnect" -> "pending"

OnLinkEvent(s) ==
  /\ events[s] # <<>> /\ Head(events[s]) \in LinkEvent
  /\ LET e == Head(events[s]) IN
     /\ events' = [events EXCEPT ![s] = Tail(@)]
     /\ clientSocket' = socketAfter(s, e)
     /\ setup' = IF setup[s] = "pending"
                   THEN [setup EXCEPT ![s] = settledBy(e)] ELSE setup
  /\ UNCHANGED <<created, link, requests, run, handlers, outcome, shared,
                 troubles>>

\* Variant: handlers are kept for the module, not for the socket
hearersOfAny(s) == UNION {waiting(t) : t \in created}

\* The runs whose promise a result on s settles: all that wait there
hearers(s) == waiting(s)

\* 'startSpdz_result': every handler on the socket runs; the promises that
\* are settled already ignore it
OnStartResult(s) ==
  /\ events[s] # <<>> /\ Head(events[s]) \notin LinkEvent
  /\ events' = [events EXCEPT ![s] = Tail(@)]
  /\ run' = [r \in Runs |->
       IF r \notin hearers(s) THEN run[r]
       ELSE IF Head(events[s]) = "started" THEN "resolved" ELSE "rejected"]
  /\ UNCHANGED <<clientSocket, created, link, requests, setup, handlers,
                 outcome, shared, troubles>>

-----------------------------------------------------------------------------
(* The environment: socket.io and the proxy.                               *)

LinkEventsOf(s) == {i \in 1..Len(events[s]) : events[s][i] \in LinkEvent}

Attempting(s) == s \in created \ link /\ LinkEventsOf(s) = {}

Report(s, e) == events' = [events EXCEPT ![s] = Append(@, e)]

Trouble == troubles < MaxTroubles /\ troubles' = troubles + 1

Connect(s) ==
  /\ Attempting(s)
  /\ link' = link \union {s}
  /\ Report(s, "connect")
  /\ UNCHANGED <<clientSocket, created, requests, setup, run, handlers,
                 outcome, shared, troubles>>

\* connect_error or connect_timeout, whose handlers do the same
ConnectFails(s) ==
  /\ Attempting(s)
  /\ Trouble
  /\ Report(s, "connect_error")
  /\ UNCHANGED <<clientSocket, created, link, requests, setup, run, handlers,
                 outcome, shared>>

\* The connection is lost with the messages on it, in both directions
Drop(s) ==
  /\ s \in link
  /\ Trouble
  /\ link' = link \ {s}
  /\ requests' = [requests EXCEPT ![s] = <<>>]
  /\ \E n \in 0..Len(events[s]) :
       /\ \A i \in LinkEventsOf(s) : i <= n
       /\ events' = [events EXCEPT ![s] =
                       Append(SubSeq(@, 1, n), "disconnect")]
  /\ UNCHANGED <<clientSocket, created, setup, run, handlers, outcome, shared>>

\* The proxy starts the program or cannot, and answers
HandleStart(s) ==
  /\ s \in link /\ requests[s] # <<>>
  /\ \E o \in {"started", "refused"} :
       /\ outcome' = [outcome EXCEPT ![Head(requests[s])] = o]
       /\ Report(s, o)
  /\ requests' = [requests EXCEPT ![s] = Tail(@)]
  /\ UNCHANGED <<clientSocket, created, link, setup, run, handlers, shared,
                 troubles>>

-----------------------------------------------------------------------------
Next ==
  \/ \E s \in Setups : \/ SetupAgain(s) \/ SetupNew(s)
                       \/ OnLinkEvent(s) \/ OnStartResult(s)
                       \/ Connect(s) \/ ConnectFails(s) \/ Drop(s)
                       \/ HandleStart(s)
  \/ \E r \in Runs : RunRefused(r) \/ RunSpdzProgram(r)

\* The event loop runs every queued handler
Fairness == \A s \in Setups : WF_vars(OnLinkEvent(s) \/ OnStartResult(s))

Spec == Init /\ [][Next]_vars
FairSpec == Spec /\ Fairness

-----------------------------------------------------------------------------
(* Properties.                                                             *)

Quiet == \A s \in Setups : LinkEventsOf(s) = {}

\* The shared socket (index.js 7, 61-84) is connected or its loss is about to
\* be handled, whichever of the sockets wrote it last; and when only one
\* setup has made a socket, clientSocket is defined exactly while it is up.
SocketTruthful ==
  /\ \A s \in Setups \ link :
       clientSocket = s =>
         \E i \in LinkEventsOf(s) : events[s][i] = "disconnect"
  /\ \A s \in created :
       Quiet /\ created = {s} => (clientSocket = s <=> s \in link)

\* A program run is reported started only if the proxy started it, and failed
\* only if the proxy refused it (index.js 120-131), through losses and
\* changes of socket, as long as no two runs wait on one socket: then one
\* result settles both.
OwnAnswer ==
  \A s \in Setups \ shared : \A r \in handlers[s] :
    /\ run[r] = "resolved" => outcome[r] = "started"
    /\ run[r] = "rejected" => outcome[r] = "refused"

\* A dead shared socket does not stay: its loss clears it unless it comes
\* back first (81-84), so that runs are not sent into the void for ever.
LossNoticed ==
  \A s \in Setups : (clientSocket = s /\ s \notin link)
                      ~> (clientSocket # s \/ s \in link)
=============================================================================
