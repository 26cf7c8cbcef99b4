---------------------------- MODULE RestSession ----------------------------
(***************************************************************************)
(* The REST client: the ids of the client's connections (ClientIds.js),    *)
(* the calls that fan out one HTTP request to every proxy                  *)
(* (SpdzApiAggregate.js), the requests themselves (SpdzApi.js), and the    *)
(* calls made of several of them (SpdzApiHelper.js).                       *)
(*                                                                         *)
(* Requests and replies are messages that overtake each other.  A call     *)
(* reads the ids when it sends and writes them when it hears, so that what *)
(* it wrote may by then belong to another call.  All calls name the same   *)
(* proxies and leave it to the proxy to make the id of a connection.       *)
(***************************************************************************)
EXTENDS Naturals, FiniteSets

CONSTANTS
  Proxies,       \* spdzProxyUrlList, spdzProxyList
  Calls,         \* the calls the application may make
  MaxFaults      \* bound: requests that fail and connections that close

ASSUME ProxiesAssumption == Proxies # {}
ASSUME FaultsAssumption == MaxFaults \in Nat

NoId == 0     \* clientIds has no entry; a proxy numbers its connections from 1

Kind == {"none", "connect", "check", "disconnect", "send", "retrieve"}
Promise == {"unused", "pending", "resolved", "rejected"}
ProxyStatusCodes == {"Disconnected", "Connected", "Failure"}
Report == {"none", "waiting", "done", "failed"} \union ProxyStatusCodes
Op == {"connect", "check", "disconnect", "consume", "send"}
Request == [call : Calls, proxy : Proxies, op : Op, id : Nat]
\* The id is that of the connection made, the round that of the data consumed
Reply == [call : Calls, proxy : Proxies, op : Op, ok : BOOLEAN,
          id : Nat, round : Nat]
\* A message of the MPC program to the client: a round of shares, or a result
Data == [id : Nat, round : Nat]
NoData == [id |-> NoId, round |-> 0]

VARIABLES
  clientIds,     \* clientIds[p]: the entry for p, or NoId
  kind,          \* kind[c]: what call c does
  promise,       \* promise[c]: the promise it returned
  report,        \* report[c][p]: what c knows of its latest request to p
  data,          \* data[c][p]: what c consumed from p
  requests,      \* HTTP requests on their way
  replies,       \* HTTP replies on their way
  issued,        \* issued[p]: how many connections p has made
  live,          \* live[p]: those that are open
  consumed,      \* consumed[p]: pairs of a connection and a round handed out
  got,           \* got[p]: history of the masked inputs engine p was sent
  current,       \* history: the last connect call, {} after a disconnect call
  overlapped,    \* history: calls that change the ids have overlapped
  moved,         \* history: sends during which a connectToSPDZ was called
  faults         \* number of faults so far, for the bound

vars == <<clientIds, kind, promise, report, data, requests, replies, issued,
          live, consumed, got, current, overlapped, moved, faults>>
proxies == <<issued, live, consumed, got, faults>>

TypeOK ==
  /\ clientIds \in [Proxies -> Nat]
  /\ kind \in [Calls -> Kind]
  /\ promise \in [Calls -> Promise]
  /\ report \in [Calls -> [Proxies -> Report]]
  /\ data \in [Calls -> [Proxies -> Data]]
  /\ requests \subseteq Request
  /\ replies \subseteq Reply
  /\ issued \in [Proxies -> Nat]
  /\ live \in [Proxies -> SUBSET Nat]
  /\ \A p \in Proxies : live[p] \subseteq 1..issued[p]
  /\ consumed \in [Proxies -> SUBSET Data]
  /\ got \in [Proxies -> SUBSET [call : Calls, id : Nat, mask : Data]]
  /\ current \subseteq Calls
  /\ overlapped \in BOOLEAN
  /\ moved \subseteq Calls
  /\ faults \in Nat

Init ==
  /\ clientIds = [p \in Proxies |-> NoId]
  /\ kind = [c \in Calls |-> "none"]
  /\ promise = [c \in Calls |-> "unused"]
  /\ report = [c \in Calls |-> [p \in Proxies |-> "none"]]
  /\ data = [c \in Calls |-> [p \in Proxies |-> NoData]]
  /\ requests = {}
  /\ replies = {}
  /\ issued = [p \in Proxies |-> 0]
  /\ live = [p \in Proxies |-> {}]
  /\ consumed = [p \in Proxies |-> {}]
  /\ got = [p \in Proxies |-> {}]
  /\ current = {}
  /\ overlapped = FALSE
  /\ moved = {}
  /\ faults = 0

-----------------------------------------------------------------------------
(* Calls of the application.                                               *)

\* The proxies for which clientIdExists
Known == {p \in Proxies : clientIds[p] # NoId}

Ask(c, op, targets) ==
  {[call |-> c, proxy |-> p, op |-> op,
    id |-> IF op = "connect" THEN NoId ELSE clientIds[p]] : p \in targets}

\* Call c of kind k asks the targets; of the others it reports at once
Start(c, k, op, targets, otherwise) ==
  /\ promise[c] = "unused"
  /\ kind' = [kind EXCEPT ![c] = k]
  /\ requests' = requests \union Ask(c, op, targets)
  /\ report' = [report EXCEPT ![c] = [p \in Proxies |->
       IF p \in targets THEN "waiting" ELSE otherwise]]
  /\ UNCHANGED <<data, replies, proxies>>

\* History: a call that changes the ids starts while another one is pending
Overlap ==
  overlapped' = (overlapped \/ \E d \in Calls :
    promise[d] = "pending" /\ kind[d] \in {"connect", "disconnect"})

\* History: a connectToSPDZ starts while sends are pending
Moves ==
  moved' = moved \union
    {d \in Calls : promise[d] = "pending" /\ kind[d] = "send"}

\* Variant for the properties to detect: no resetClientIds
connectToSPDZKeepsIds(c) ==
  /\ Start(c, "connect", "connect", Proxies, "none")
  /\ promise' = [promise EXCEPT ![c] = "pending"]
  /\ current' = {c}
  /\ Overlap
  /\ Moves
  /\ UNCHANGED clientIds

connectToSPDZ(c) ==
  /\ Start(c, "connect", "connect", Proxies, "none")
  /\ promise' = [promise EXCEPT ![c] = "pending"]
  /\ clientIds' = [p \in Proxies |-> NoId]
  /\ current' = {c}
  /\ Overlap
  /\ Moves

\* Promise.all of no requests resolves at once
PendingIfAny(c, targets) ==
  promise' = [promise EXCEPT ![c] =
    IF targets = {} THEN "resolved" ELSE "pending"]

\* Variant: a proxy without an id gets no status of its own
checkProxiesUnknown(c) ==
  /\ Start(c, "check", "check", Known, "unknown")
  /\ PendingIfAny(c, Known)
  /\ UNCHANGED <<clientIds, current, overlapped, moved>>

checkProxies(c) ==
  /\ Start(c, "check", "check", Known, "Failure")
  /\ PendingIfAny(c, Known)
  /\ UNCHANGED <<clientIds, current, overlapped, moved>>

disconnectFromSPDZ(c) ==
  /\ Start(c, "disconnect", "disconnect", Known, "Disconnected")
  /\ PendingIfAny(c, Known)
  /\ current' = {}
  /\ Overlap
  /\ UNCHANGED <<clientIds, moved>>

\* consumeDataFromProxies: without an id for one proxy the call rejects, but
\* the requests to the others have gone
consumeDataFromProxies(c, k) ==
  /\ Start(c, k, "consume", Known, "failed")
  /\ promise' = [promise EXCEPT ![c] =
       IF Known = Proxies THEN "pending" ELSE "rejected"]
  /\ UNCHANGED <<clientIds, current, overlapped, moved>>

sendInputsWithShares(c) == consumeDataFromProxies(c, "send")
retrieveRegIntsAsHexString(c) == consumeDataFromProxies(c, "retrieve")

-----------------------------------------------------------------------------
(* Replies reach the client.                                               *)

Take(m, op) ==
  /\ m.op = op
  /\ replies' = replies \ {m}
  /\ UNCHANGED <<kind, current, overlapped, moved, proxies>>

\* Variant: a call resolves with its first report
LearnsFirst(m, r) ==
  /\ report' = [report EXCEPT ![m.call][m.proxy] = r]
  /\ promise' = [promise EXCEPT ![m.call] =
       IF @ = "pending" THEN "resolved" ELSE @]

\* Variant: the report of m itself is still looked for
LearnsLate(m, r) ==
  /\ report' = [report EXCEPT ![m.call][m.proxy] = r]
  /\ promise' = [promise EXCEPT ![m.call] =
       IF @ = "pending"
          /\ \A q \in Proxies : report[m.call][q] # "waiting"
       THEN "resolved" ELSE @]

\* m's call learns r of m's proxy, and resolves when it waits for no other
Learns(m, r) ==
  /\ report' = [report EXCEPT ![m.call][m.proxy] = r]
  /\ promise' = [promise EXCEPT ![m.call] =
       IF @ = "pending"
          /\ \A q \in Proxies \ {m.proxy} : report[m.call][q] # "waiting"
       THEN "resolved" ELSE @]

\* Promise.all: the first failure rejects m's call
Fails(m) ==
  /\ report' = [report EXCEPT ![m.call][m.proxy] = "failed"]
  /\ promise' = [promise EXCEPT ![m.call] =
       IF @ = "pending" THEN "rejected" ELSE @]

OnConnect(m) ==
  /\ Take(m, "connect")
  /\ IF m.ok
       THEN /\ clientIds' = [clientIds EXCEPT ![m.proxy] = m.id]
            /\ Learns(m, "Connected")
       ELSE Learns(m, "Failure") /\ UNCHANGED clientIds
  /\ UNCHANGED <<requests, data>>

OnCheck(m) ==
  /\ Take(m, "check")
  /\ Learns(m, IF m.ok THEN "Connected" ELSE "Disconnected")
  /\ UNCHANGED <<clientIds, requests, data>>

\* A failure is reported, and forgets the id, like a success
OnDisconnect(m) ==
  /\ Take(m, "disconnect")
  /\ clientIds' = [clientIds EXCEPT ![m.proxy] = NoId]
  /\ Learns(m, "Disconnected")
  /\ UNCHANGED <<requests, data>>

\* Variant: the triples are not checked
validUnchecked(items) == \A p \in Proxies : items[p] # NoData

\* binaryToShare accepts what the proxies sent only if it is of one round
valid(items) == \A p, q \in Proxies : items[p] = items[q]

\* sendInputsToProxies, with the ids of this moment
sendInputsToProxies(c, items) ==
  /\ data' = [data EXCEPT ![c] = items]
  /\ requests' = requests \union Ask(c, "send", Known)
  /\ report' = [report EXCEPT ![c] = [p \in Proxies |->
       IF p \in Known THEN "waiting" ELSE "failed"]]
  /\ promise' = [promise EXCEPT ![c] =
       IF Known = Proxies THEN "pending" ELSE "rejected"]

\* The last of the data a call waits for is checked and used.  The inputs may
\* still be too many, or not numbers, and the results not the same.
OnConsume(m) ==
  /\ Take(m, "consume")
  /\ LET c == m.call
         items == [data[c] EXCEPT ![m.proxy] =
                    [id |-> m.id, round |-> m.round]]
         last == \A q \in Proxies \ {m.proxy} : report[c][q] = "done" IN
     \/ /\ ~m.ok
        /\ Fails(m)
        /\ UNCHANGED <<data, requests>>
     \/ /\ m.ok
        /\ ~last
        /\ report' = [report EXCEPT ![c][m.proxy] = "done"]
        /\ data' = [data EXCEPT ![c] = items]
        /\ UNCHANGED <<requests, promise>>
     \/ /\ m.ok
        /\ last
        /\ kind[c] = "send" /\ valid(items)
        /\ sendInputsToProxies(c, items)
     \/ /\ m.ok
        /\ last
        /\ kind[c] = "retrieve"
        /\ Learns(m, "done")
        /\ data' = [data EXCEPT ![c] = items]
        /\ UNCHANGED requests
     \/ /\ m.ok
        /\ last
        /\ Fails(m)
        /\ data' = [data EXCEPT ![c] = items]
        /\ UNCHANGED requests
  /\ UNCHANGED clientIds

OnSend(m) ==
  /\ Take(m, "send")
  /\ IF m.ok THEN Learns(m, "done") ELSE Fails(m)
  /\ UNCHANGED <<clientIds, requests, data>>

-----------------------------------------------------------------------------
(* The proxies.  A request may be refused or its reply lost, which look    *)
(* the same to the client; only the second has an effect.                  *)

Fault == faults < MaxFaults /\ faults' = faults + 1

\* Request r is done, with or without a fault, and answered
Answer(r, ok, id, round) ==
  /\ requests' = requests \ {r}
  /\ replies' = replies \union {[call |-> r.call, proxy |-> r.proxy,
       op |-> r.op, ok |-> ok, id |-> id, round |-> round]}
  /\ UNCHANGED <<clientIds, kind, promise, report, data, current, overlapped,
                 moved>>

\* An effect takes place, and the reply says so or is lost
Answers(r, id, round) ==
  \/ Answer(r, TRUE, id, round) /\ UNCHANGED faults
  \/ Answer(r, FALSE, id, round) /\ Fault

Refuses(r) ==
  /\ Answer(r, FALSE, r.id, 0)
  /\ IF r.op # "connect" /\ r.id \notin live[r.proxy]
       THEN UNCHANGED faults ELSE Fault
  /\ UNCHANGED <<issued, live, consumed, got>>

HandleConnect(r) ==
  /\ r.op = "connect"
  /\ LET id == issued[r.proxy] + 1 IN
     /\ issued' = [issued EXCEPT ![r.proxy] = id]
     /\ live' = [live EXCEPT ![r.proxy] = @ \union {id}]
     /\ Answers(r, id, 0)
  /\ UNCHANGED <<consumed, got>>

Serves(r, op) == r.op = op /\ r.id \in live[r.proxy]

HandleCheck(r) ==
  /\ Serves(r, "check")
  /\ Answers(r, r.id, 0)
  /\ UNCHANGED <<issued, live, consumed, got>>

HandleDisconnect(r) ==
  /\ Serves(r, "disconnect")
  /\ live' = [live EXCEPT ![r.proxy] = @ \ {r.id}]
  /\ Answers(r, r.id, 0)
  /\ UNCHANGED <<issued, consumed, got>>

Rounds(p, id) == {d.round : d \in {x \in consumed[p] : x.id = id}}

NextRound(p, id) ==
  CHOOSE n \in 1..(Cardinality(Rounds(p, id)) + 1) : n \notin Rounds(p, id)

\* The next round waiting on this connection, which the proxy then forgets;
\* or none has come yet (NO_CONTENT)
HandleConsume(r) ==
  /\ Serves(r, "consume")
  /\ LET round == NextRound(r.proxy, r.id) IN
     \/ /\ consumed' = [consumed EXCEPT ![r.proxy] =
              @ \union {[id |-> r.id, round |-> round]}]
        /\ Answers(r, r.id, round)
     \/ /\ Answer(r, FALSE, r.id, 0)
        /\ UNCHANGED <<consumed, faults>>
  /\ UNCHANGED <<issued, live, got>>

HandleSend(r) ==
  /\ Serves(r, "send")
  /\ got' = [got EXCEPT ![r.proxy] = @ \union
       {[call |-> r.call, id |-> r.id, mask |-> data[r.call][r.proxy]]}]
  /\ Answers(r, r.id, 0)
  /\ UNCHANGED <<issued, live, consumed>>

\* An engine ends, or drops a client
EngineCloses(p) ==
  /\ Fault
  /\ \E id \in live[p] : live' = [live EXCEPT ![p] = @ \ {id}]
  /\ UNCHANGED <<clientIds, kind, promise, report, data, requests, replies,
                 issued, consumed, got, current, overlapped, moved>>

-----------------------------------------------------------------------------
Call(c) ==
  \/ connectToSPDZ(c)
  \/ checkProxies(c)
  \/ disconnectFromSPDZ(c)
  \/ sendInputsWithShares(c)
  \/ retrieveRegIntsAsHexString(c)

Handle(r) ==
  \/ Refuses(r)
  \/ HandleConnect(r)
  \/ HandleCheck(r)
  \/ HandleDisconnect(r)
  \/ HandleConsume(r)
  \/ HandleSend(r)

Hear(m) ==
  \/ OnConnect(m)
  \/ OnCheck(m)
  \/ OnDisconnect(m)
  \/ OnConsume(m)
  \/ OnSend(m)

Next ==
  \/ \E c \in Calls : Call(c)
  \/ \E r \in requests : Handle(r)
  \/ \E m \in replies : Hear(m)
  \/ \E p \in Proxies : EngineCloses(p)

\* The event loop runs the continuation of every reply, and a request to a
\* proxy is answered or fails
Fairness ==
  /\ WF_vars(\E m \in replies : Hear(m))
  /\ WF_vars(\E r \in requests : Handle(r))

Spec == Init /\ [][Next]_vars
FairSpec == Spec /\ Fairness

-----------------------------------------------------------------------------
(* Properties.                                                             *)

\* An input that reaches the engines carries the same round of shares at all
\* of them, and no two inputs carry the same: however calls overlap, replies
\* overtake each other and requests fail (SpdzApiHelper.js 158-172).
MasksUsedOnce ==
  \A p, q \in Proxies : \A x \in got[p], y \in got[q] :
    (x.call = y.call) <=> (x.mask = y.mask)

\* An input goes to the connection its mask came from, although the ids are
\* read twice, before the wait for the shares and after it (SpdzApiAggregate
\* .js 236 and 280).  It takes that calls that change the ids do not overlap
\* each other and that none reconnects during the send.
InputsFollowMasks ==
  ~overlapped => \A p \in Proxies : \A x \in got[p] :
    x.call \in moved \/ x.id = x.mask.id

\* When a send resolves, every engine has the masked input (Promise.all in
\* sendInputsToProxies, after a wait for all shares).
ResolvedSendReached ==
  \A c \in Calls : kind[c] = "send" /\ promise[c] = "resolved" =>
    \A p \in Proxies : \E x \in got[p] : x.call = c

\* As long as calls that change the ids do not overlap, the id kept for a
\* proxy is that of the connection the last connectToSPDZ reported, and there
\* is none where it reported a failure or is still waiting.
IdsCurrent ==
  ~overlapped => \A c \in current, p \in Proxies :
    /\ (clientIds[p] # NoId) <=> (report[c][p] = "Connected")
    /\ clientIds[p] \in {NoId, issued[p]}

\* SpdzApiAggregate.js 192: the NoContentError "can be used to detect not
\* ready yet and retry": while nothing has failed but data that was not ready
\* and no call is pending, the proxies have handed out equally many rounds of
\* the connection in use, so that the next send finds matching ones.
RetryReady ==
  LET next(p) == Cardinality(Rounds(p, clientIds[p])) IN
  /\ faults = 0 /\ ~overlapped
  /\ requests = {} /\ replies = {}
  /\ Known = Proxies
  => \A p, q \in Proxies : next(p) = next(q)

\* Every call settles, those of two steps too, although replies of the first
\* step may come after the second began or never had to (SpdzApiHelper.js
\* 158-172, Promise.all in SpdzApiAggregate.js).
CallsSettle ==
  \A c \in Calls : (promise[c] = "pending") ~> (promise[c] # "pending")
=============================================================================
