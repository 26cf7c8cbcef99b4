------------------------- MODULE RestSessionProofs -------------------------
(***************************************************************************)
(* Proofs about RestSession, for any proxies, calls and number of faults:  *)
(* the types, that masks are used once, what a send that resolves has      *)
(* done, which ids the client keeps, and where inputs go.                  *)
(*                                                                         *)
(* Why: a round that a proxy hands out is held by one call only, first in  *)
(* the reply and then in its data (Owned).  A call has at most one message *)
(* with a proxy under way, so that once it sends, it consumes no more      *)
(* (Exchange, Phase), and its data are the masks of what it sends (Masks). *)
(***************************************************************************)
EXTENDS RestSession, FiniteSetTheorems, TLAPS

Msgs == requests \union replies

\* One message at a time between a call and a proxy; a call not made has none
Exchange ==
  /\ \A m \in Msgs : report[m.call][m.proxy] = "waiting"
  /\ \A m, n \in Msgs : m.call = n.call /\ m.proxy = n.proxy => m = n
  /\ \A c \in Calls : promise[c] = "unused" =>
       /\ \A p \in Proxies : report[c][p] = "none"
       /\ \A p \in Proxies : \A x \in got[p] : x.call # c

Sending(c) ==
  \/ \E m \in Msgs : m.op = "send" /\ m.call = c
  \/ \E p \in Proxies : \E x \in got[p] : x.call = c

\* A call that sends has one round from all proxies, and consumes no more
Phase ==
  \A c \in Calls : Sending(c) =>
    /\ \A p, q \in Proxies : data[c][p] = data[c][q]
    /\ \A p \in Proxies : data[c][p] # NoData
    /\ \A m \in Msgs : m.call = c => m.op = "send"

Item(m) == [id |-> m.id, round |-> m.round]

\* What call c has consumed from p and not lost
Held(c, p) ==
  ({data[c][p]} \ {NoData}) \union
  {Item(m) : m \in {x \in replies :
     x.call = c /\ x.proxy = p /\ x.op = "consume" /\ x.ok}}

Owned ==
  /\ \A p \in Proxies : NoData \notin consumed[p]
  /\ \A c \in Calls, p \in Proxies : Held(c, p) \subseteq consumed[p]
  /\ \A c, d \in Calls, p \in Proxies :
       c # d => Held(c, p) \cap Held(d, p) = {}

Masks == \A p \in Proxies : \A x \in got[p] : x.mask = data[x.call][p]

Counted == \A p \in Proxies : IsFiniteSet(consumed[p])

IInv == Exchange /\ Phase /\ Owned /\ Masks

-----------------------------------------------------------------------------
(* Types.                                                                  *)

LEMMA ReportTypes ==
  /\ {"none", "waiting", "done", "failed", "Disconnected", "Connected",
      "Failure"} \subseteq Report
  /\ NoId \in Nat /\ NoData \in Data
BY DEF Report, ProxyStatusCodes, NoId, NoData, Data

\* Among one more numbers than a set has elements, one is not in it
LEMMA Unused ==
  ASSUME NEW S, IsFiniteSet(S)
  PROVE  \E n \in 1..(Cardinality(S) + 1) : n \notin S
<1>1. Cardinality(S) \in Nat
  BY FS_CardinalityType
<1>2. PICK k \in Nat : k = Cardinality(S)
  BY <1>1
<1>3. PICK T : T = 1..(k + 1)
  OBVIOUS
<1>4. Cardinality(T) = k + 1
  BY <1>3, FS_Interval
<1>5. ~(Cardinality(T) <= Cardinality(S))
  BY <1>2, <1>4
<1>6. ~(T \subseteq S)
  BY <1>5, FS_Subset
<1> QED
  BY <1>2, <1>3, <1>6

\* The next round of a connection, which a proxy chooses, is there
LEMMA NextRoundIsNew ==
  ASSUME TypeOK, Counted, NEW p \in Proxies, NEW id
  PROVE  NextRound(p, id) \in Nat \ {0} /\ NextRound(p, id) \notin Rounds(p, id)
<1>1. IsFiniteSet(Rounds(p, id))
  <2>1. PICK T : T = {x \in consumed[p] : x.id = id}
    OBVIOUS
  <2>2. IsFiniteSet(T)
    BY <2>1, FS_Subset DEF Counted
  <2> DEFINE f == [d \in T |-> d.round]
  <2>3. f \in Surjection(T, Rounds(p, id))
    BY <2>1 DEF Surjection, Rounds
  <2> QED
    BY <2>2, <2>3, FS_Surjection DEF ExistsSurjection
<1>2. Cardinality(Rounds(p, id)) \in Nat
  BY <1>1, FS_CardinalityType
<1>3. /\ NextRound(p, id) \in 1..(Cardinality(Rounds(p, id)) + 1)
      /\ NextRound(p, id) \notin Rounds(p, id)
  BY <1>1, Unused DEF NextRound
<1> QED
  BY <1>2, <1>3

LEMMA InitType == Init => TypeOK /\ Counted
<1> SUFFICES ASSUME Init PROVE TypeOK /\ Counted
  OBVIOUS
<1>1. Counted
  BY FS_EmptySet DEF Init, Counted
<1>2. /\ clientIds \in [Proxies -> Nat] /\ issued \in [Proxies -> Nat]
      /\ data \in [Calls -> [Proxies -> Data]]
      /\ report \in [Calls -> [Proxies -> Report]]
  BY ReportTypes DEF Init
<1>3. /\ live \in [Proxies -> SUBSET Nat]
      /\ \A p \in Proxies : live[p] \subseteq 1..issued[p]
      /\ consumed \in [Proxies -> SUBSET Data]
      /\ got \in [Proxies -> SUBSET [call : Calls, id : Nat, mask : Data]]
  BY DEF Init
<1>4. /\ kind \in [Calls -> Kind] /\ promise \in [Calls -> Promise]
      /\ requests \subseteq Request /\ replies \subseteq Reply
      /\ current \subseteq Calls /\ overlapped \in BOOLEAN
      /\ moved \subseteq Calls /\ faults \in Nat
  BY DEF Init, Kind, Promise
<1> QED
  BY <1>1, <1>2, <1>3, <1>4 DEF TypeOK

LEMMA AskType ==
  ASSUME TypeOK, NEW c \in Calls, NEW op \in Op, NEW targets \in SUBSET Proxies
  PROVE  Ask(c, op, targets) \subseteq Request
<1>1. \A p \in targets : /\ (IF op = "connect" THEN NoId ELSE clientIds[p])
                              \in Nat
                         /\ p \in Proxies
  BY ReportTypes DEF TypeOK
<1> QED
  BY <1>1 DEF Ask, Request

LEMMA StartType ==
  ASSUME TypeOK, NEW c \in Calls, NEW k \in Kind, NEW op \in Op,
         NEW targets \in SUBSET Proxies, NEW otherwise \in Report,
         Start(c, k, op, targets, otherwise)
  PROVE  /\ kind' \in [Calls -> Kind]
         /\ requests' \subseteq Request
         /\ report' \in [Calls -> [Proxies -> Report]]
<1>1. kind' \in [Calls -> Kind]
  BY DEF Start, TypeOK
<1>2. requests' \subseteq Request
  BY AskType DEF Start, TypeOK
<1>3. [p \in Proxies |-> IF p \in targets THEN "waiting" ELSE otherwise]
        \in [Proxies -> Report]
  BY ReportTypes
<1>4. report' \in [Calls -> [Proxies -> Report]]
  BY <1>3 DEF Start, TypeOK
<1> QED
  BY <1>1, <1>2, <1>4

\* What every call of the application is, up to the ids and the history
Starts(c) ==
  /\ promise[c] = "unused"
  /\ \E s \in {"pending", "resolved", "rejected"} :
       promise' = [promise EXCEPT ![c] = s]
  /\ \E k \in Kind : kind' = [kind EXCEPT ![c] = k]
  /\ \E op \in Op \ {"send"}, targets \in SUBSET Proxies :
       \E otherwise \in Report :
       /\ requests' = requests \union Ask(c, op, targets)
       /\ report' = [report EXCEPT ![c] = [p \in Proxies |->
            IF p \in targets THEN "waiting" ELSE otherwise]]
  /\ UNCHANGED <<data, replies, proxies>>

LEMMA StartStarts ==
  ASSUME NEW c \in Calls, NEW k \in Kind, NEW op \in Op \ {"send"},
         NEW targets \in SUBSET Proxies, NEW otherwise \in Report,
         NEW s \in {"pending", "resolved", "rejected"},
         Start(c, k, op, targets, otherwise),
         promise' = [promise EXCEPT ![c] = s]
  PROVE  Starts(c)
<1>1. \E x \in Kind : kind' = [kind EXCEPT ![c] = x]
  BY DEF Start
<1>2. /\ requests' = requests \union Ask(c, op, targets)
      /\ report' = [report EXCEPT ![c] = [p \in Proxies |->
           IF p \in targets THEN "waiting" ELSE otherwise]]
      /\ promise[c] = "unused" /\ UNCHANGED <<data, replies, proxies>>
  BY DEF Start
<1> QED
  BY <1>1, <1>2 DEF Starts

LEMMA CallStarts ==
  ASSUME NEW c \in Calls, Call(c)
  PROVE  Starts(c)
<1> USE ReportTypes
<1>1. Known \in SUBSET Proxies
  BY DEF Known
<1>2. CASE connectToSPDZ(c)
  BY <1>2, StartStarts DEF connectToSPDZ, Kind, Op
<1>3. CASE checkProxies(c)
  <2>1. PICK s \in {"pending", "resolved", "rejected"} :
          promise' = [promise EXCEPT ![c] = s]
    BY <1>3 DEF checkProxies, PendingIfAny
  <2>2. Start(c, "check", "check", Known, "Failure")
    BY <1>3 DEF checkProxies
  <2> QED
    BY <1>1, <2>1, <2>2, StartStarts DEF Kind, Op
<1>4. CASE disconnectFromSPDZ(c)
  <2>1. PICK s \in {"pending", "resolved", "rejected"} :
          promise' = [promise EXCEPT ![c] = s]
    BY <1>4 DEF disconnectFromSPDZ, PendingIfAny
  <2>2. Start(c, "disconnect", "disconnect", Known, "Disconnected")
    BY <1>4 DEF disconnectFromSPDZ
  <2> QED
    BY <1>1, <2>1, <2>2, StartStarts DEF Kind, Op
<1>5. ASSUME NEW k \in {"send", "retrieve"}, consumeDataFromProxies(c, k)
      PROVE  Starts(c)
  <2>1. PICK s \in {"pending", "resolved", "rejected"} :
          promise' = [promise EXCEPT ![c] = s]
    BY <1>5 DEF consumeDataFromProxies
  <2>2. Start(c, k, "consume", Known, "failed") /\ k \in Kind
    BY <1>5 DEF consumeDataFromProxies, Kind
  <2> QED
    BY <1>1, <2>1, <2>2, StartStarts DEF Op
<1> QED
  BY <1>2, <1>3, <1>4, <1>5
  DEF Call, sendInputsWithShares, retrieveRegIntsAsHexString

LEMMA CallType ==
  ASSUME TypeOK, Counted, NEW c \in Calls, Call(c)
  PROVE  TypeOK' /\ Counted'
<1> USE ReportTypes
<1>1. Starts(c)
  BY CallStarts
<1>2. /\ requests' \subseteq Request
      /\ report' \in [Calls -> [Proxies -> Report]]
  <2>1. PICK op \in Op, targets \in SUBSET Proxies, otherwise \in Report :
          /\ requests' = requests \union Ask(c, op, targets)
          /\ report' = [report EXCEPT ![c] = [p \in Proxies |->
               IF p \in targets THEN "waiting" ELSE otherwise]]
    BY <1>1 DEF Starts
  <2>2. requests' \subseteq Request
    BY <2>1, AskType DEF TypeOK
  <2>3. [p \in Proxies |-> IF p \in targets THEN "waiting" ELSE otherwise]
          \in [Proxies -> Report]
    OBVIOUS
  <2> QED
    BY <2>1, <2>2, <2>3 DEF TypeOK
<1>3. promise' \in [Calls -> Promise] /\ kind' \in [Calls -> Kind]
  BY <1>1 DEF Starts, TypeOK, Promise
<1>4. UNCHANGED <<data, replies, issued, live, consumed, got, faults>>
  BY <1>1 DEF Starts, proxies
<1>5. /\ clientIds' \in [Proxies -> Nat]
      /\ current' \subseteq Calls
      /\ overlapped' \in BOOLEAN
      /\ moved' \subseteq Calls
  <2>1. CASE connectToSPDZ(c)
    BY <2>1 DEF connectToSPDZ, Overlap, Moves, TypeOK
  <2>2. CASE disconnectFromSPDZ(c)
    BY <2>2 DEF disconnectFromSPDZ, Overlap, TypeOK
  <2>3. CASE ~connectToSPDZ(c) /\ ~disconnectFromSPDZ(c)
    BY <2>3 DEF Call, checkProxies, sendInputsWithShares,
      retrieveRegIntsAsHexString, consumeDataFromProxies, TypeOK
  <2> QED
    BY <2>1, <2>2, <2>3
<1> QED
  BY <1>2, <1>3, <1>4, <1>5 DEF TypeOK, Counted

LEMMA LearnType ==
  ASSUME TypeOK, NEW m \in replies, NEW r \in Report, Learns(m, r) \/ Fails(m)
  PROVE  /\ report' \in [Calls -> [Proxies -> Report]]
         /\ promise' \in [Calls -> Promise]
<1>1. m.call \in Calls /\ m.proxy \in Proxies
  BY DEF TypeOK, Reply
<1>2. PICK x \in Report :
        report' = [report EXCEPT ![m.call][m.proxy] = x]
  BY ReportTypes DEF Learns, Fails
<1>3. report' \in [Calls -> [Proxies -> Report]]
  BY <1>1, <1>2 DEF TypeOK
<1>4. PICK s \in Promise : promise' = [promise EXCEPT ![m.call] = s]
  BY <1>1 DEF Learns, Fails, Promise, TypeOK
<1> QED
  BY <1>1, <1>3, <1>4 DEF TypeOK

LEMMA HearType ==
  ASSUME TypeOK, Counted, NEW m \in replies, Hear(m)
  PROVE  TypeOK' /\ Counted'
<1> USE ReportTypes
<1>1. /\ m.call \in Calls /\ m.proxy \in Proxies /\ m.op \in Op
      /\ m.ok \in BOOLEAN /\ m.id \in Nat /\ m.round \in Nat
  BY DEF TypeOK, Reply
<1>2. /\ replies' \subseteq Reply
      /\ UNCHANGED <<kind, current, overlapped, moved, issued, live, consumed,
                     got, faults>>
  BY DEF Hear, OnConnect, OnCheck, OnDisconnect, OnConsume, OnSend, Take,
    proxies, TypeOK
<1>3. ASSUME NEW r \in Report, Learns(m, r) \/ Fails(m)
      PROVE  /\ report' \in [Calls -> [Proxies -> Report]]
             /\ promise' \in [Calls -> Promise]
  BY <1>3, LearnType
<1>4. CASE OnConnect(m)
  BY <1>1, <1>2, <1>3, <1>4 DEF OnConnect, TypeOK, Counted
<1>5. CASE OnCheck(m)
  BY <1>1, <1>2, <1>3, <1>5 DEF OnCheck, TypeOK, Counted
<1>6. CASE OnDisconnect(m)
  BY <1>1, <1>2, <1>3, <1>6 DEF OnDisconnect, TypeOK, Counted
<1>7. CASE OnSend(m)
  BY <1>1, <1>2, <1>3, <1>7 DEF OnSend, TypeOK, Counted
<1>8. CASE OnConsume(m)
  <2> DEFINE c == m.call
             items == [data[c] EXCEPT ![m.proxy] = Item(m)]
  <2>1. items \in [Proxies -> Data]
    BY <1>1 DEF TypeOK, Item, Data
  <2>2. data' \in [Calls -> [Proxies -> Data]]
    BY <1>1, <1>8, <2>1 DEF OnConsume, sendInputsToProxies, TypeOK, Item
  <2>3. requests' \subseteq Request
    BY <1>1, <1>8, AskType DEF OnConsume, sendInputsToProxies, TypeOK, Known,
      Op
  <2>4. /\ report' \in [Calls -> [Proxies -> Report]]
        /\ promise' \in [Calls -> Promise]
    <3>1. CASE sendInputsToProxies(c, items)
      <4>1. [p \in Proxies |-> IF p \in Known THEN "waiting" ELSE "failed"]
              \in [Proxies -> Report]
        OBVIOUS
      <4>2. report' \in [Calls -> [Proxies -> Report]]
        BY <1>1, <3>1, <4>1 DEF sendInputsToProxies, TypeOK
      <4> QED
        BY <1>1, <3>1, <4>2 DEF sendInputsToProxies, TypeOK, Promise
    <3>2. CASE Fails(m) \/ Learns(m, "done")
      BY <1>3, <3>2
    <3>3. CASE /\ report' = [report EXCEPT ![c][m.proxy] = "done"]
               /\ UNCHANGED promise
      BY <1>1, <3>3 DEF TypeOK
    <3> QED
      BY <1>8, <3>1, <3>2, <3>3 DEF OnConsume, Item
  <2> QED
    BY <1>2, <1>8, <2>2, <2>3, <2>4 DEF OnConsume, TypeOK, Counted
<1> QED
  BY <1>4, <1>5, <1>6, <1>7, <1>8 DEF Hear

LEMMA AnswerType ==
  ASSUME TypeOK, NEW r \in requests, NEW ok \in BOOLEAN, NEW id \in Nat,
         NEW round \in Nat, Answer(r, ok, id, round)
  PROVE  /\ requests' \subseteq Request /\ replies' \subseteq Reply
         /\ UNCHANGED <<clientIds, kind, promise, report, data, current,
                        overlapped, moved>>
BY DEF Answer, TypeOK, Request, Reply

LEMMA FaultType == TypeOK /\ (Fault \/ UNCHANGED faults) => faults' \in Nat
BY DEF TypeOK, Fault

\* What a proxy does about a request: an effect on its state and an answer
LEMMA HandleType ==
  ASSUME TypeOK, Counted, NEW r \in requests, Handle(r)
  PROVE  TypeOK' /\ Counted'
<1>1. r.call \in Calls /\ r.proxy \in Proxies /\ r.op \in Op /\ r.id \in Nat
  BY DEF TypeOK, Request
<1>2. ASSUME NEW id \in Nat, NEW round \in Nat,
             \/ \E ok \in BOOLEAN : Answer(r, ok, id, round) /\
                                    (Fault \/ UNCHANGED faults)
             \/ Answers(r, id, round)
      PROVE  /\ requests' \subseteq Request /\ replies' \subseteq Reply
             /\ UNCHANGED <<clientIds, kind, promise, report, data, current,
                            overlapped, moved>>
             /\ faults' \in Nat
  <2>1. PICK ok \in BOOLEAN : /\ Answer(r, ok, id, round)
                              /\ Fault \/ UNCHANGED faults
    BY <1>2 DEF Answers
  <2> QED
    BY <2>1, AnswerType, FaultType
<1>3. CASE Refuses(r)
  BY <1>1, <1>2, <1>3 DEF Refuses, TypeOK, Counted
<1>4. CASE HandleConnect(r)
  <2> DEFINE p == r.proxy
             id == issued[p] + 1
  <2>1. id \in Nat /\ issued[p] \in Nat
    BY <1>1 DEF TypeOK
  <2>2. /\ issued' = [issued EXCEPT ![p] = id]
        /\ live' = [live EXCEPT ![p] = @ \union {id}]
        /\ Answers(r, id, 0)
        /\ UNCHANGED <<consumed, got>>
    BY <1>4 DEF HandleConnect
  <2>3. issued' \in [Proxies -> Nat] /\ live' \in [Proxies -> SUBSET Nat]
    BY <2>1, <2>2 DEF TypeOK
  <2>4. \A q \in Proxies : live'[q] \subseteq 1..issued'[q]
    BY <1>1, <2>1, <2>2 DEF TypeOK
  <2> QED
    BY <1>2, <2>1, <2>2, <2>3, <2>4 DEF TypeOK, Counted
<1>5. CASE HandleCheck(r)
  BY <1>1, <1>2, <1>5 DEF HandleCheck, TypeOK, Counted
<1>6. CASE HandleDisconnect(r)
  BY <1>1, <1>2, <1>6 DEF HandleDisconnect, TypeOK, Counted
<1>7. CASE HandleConsume(r)
  <2> DEFINE p == r.proxy
             round == NextRound(p, r.id)
  <2>2. round \in Nat
    BY <1>1, NextRoundIsNew
  <2>3. UNCHANGED <<issued, live, got>>
    BY <1>7 DEF HandleConsume
  <2>4. CASE /\ consumed' = [consumed EXCEPT ![p] =
                  @ \union {[id |-> r.id, round |-> round]}]
             /\ Answers(r, r.id, round)
    <3>1. [id |-> r.id, round |-> round] \in Data
      BY <1>1, <2>2 DEF Data
    <3>2. consumed' \in [Proxies -> SUBSET Data]
      BY <2>4, <3>1 DEF TypeOK
    <3>3. Counted'
      <4>1. IsFiniteSet(consumed[p] \union {[id |-> r.id, round |-> round]})
        BY <1>1, FS_AddElement DEF Counted
      <4>2. \A q \in Proxies : consumed'[q] \in {consumed[q],
              consumed[p] \union {[id |-> r.id, round |-> round]}}
        BY <2>4 DEF TypeOK
      <4> QED
        BY <4>1, <4>2 DEF Counted
    <3> QED
      BY <1>1, <1>2, <2>2, <2>3, <2>4, <3>2, <3>3 DEF TypeOK
  <2>5. CASE Answer(r, FALSE, r.id, 0) /\ UNCHANGED <<consumed, faults>>
    BY <1>1, <1>2, <2>3, <2>5 DEF TypeOK, Counted
  <2> QED
    BY <1>7, <2>4, <2>5 DEF HandleConsume
<1>8. CASE HandleSend(r)
  <2>1. [call |-> r.call, id |-> r.id, mask |-> data[r.call][r.proxy]]
          \in [call : Calls, id : Nat, mask : Data]
    BY <1>1 DEF TypeOK
  <2>2. got' \in [Proxies -> SUBSET [call : Calls, id : Nat, mask : Data]]
    BY <1>1, <1>8, <2>1 DEF HandleSend, TypeOK
  <2> QED
    BY <1>1, <1>2, <1>8, <2>2 DEF HandleSend, TypeOK, Counted
<1> QED
  BY <1>3, <1>4, <1>5, <1>6, <1>7, <1>8 DEF Handle

LEMMA NextType == TypeOK /\ Counted /\ [Next]_vars => TypeOK' /\ Counted'
<1> SUFFICES ASSUME TypeOK, Counted, [Next]_vars PROVE TypeOK' /\ Counted'
  OBVIOUS
<1>1. ASSUME NEW p \in Proxies, EngineCloses(p) PROVE TypeOK' /\ Counted'
  <2>1. PICK id \in live[p] : live' = [live EXCEPT ![p] = @ \ {id}]
    BY <1>1 DEF EngineCloses
  <2>2. live' \in [Proxies -> SUBSET Nat]
    BY <2>1 DEF TypeOK
  <2>3. \A q \in Proxies : live'[q] \subseteq 1..issued[q]
    BY <2>1 DEF TypeOK
  <2>4. faults' \in Nat
    BY <1>1, FaultType DEF EngineCloses
  <2> QED
    BY <1>1, <2>2, <2>3, <2>4 DEF EngineCloses, TypeOK, Counted
<1>2. CASE UNCHANGED vars
  BY <1>2 DEF vars, TypeOK, Counted
<1> QED
  BY <1>1, <1>2, CallType, HandleType, HearType DEF Next

\* The variables of RestSession keep their types (SpdzApiAggregate.js,
\* SpdzApiHelper.js, ClientIds.js)
THEOREM TypeCorrect == Spec => []TypeOK
BY InitType, NextType, PTL DEF Spec

-----------------------------------------------------------------------------
(* Masks are used once.                                                    *)

LEMMA MsgTypes ==
  ASSUME TypeOK, NEW m \in Msgs
  PROVE  m.call \in Calls /\ m.proxy \in Proxies /\ m.op \in Op
BY DEF TypeOK, Msgs, Request, Reply

LEMMA InitIInv == Init => IInv
<1> SUFFICES ASSUME Init PROVE IInv
  OBVIOUS
<1>1. Msgs = {} /\ \A p \in Proxies : got[p] = {} /\ consumed[p] = {}
  BY DEF Init, Msgs
<1>2. Exchange
  BY <1>1 DEF Init, Exchange
<1>3. Phase /\ Masks
  BY <1>1 DEF Phase, Sending, Masks
<1>4. \A c \in Calls, p \in Proxies : Held(c, p) = {}
  BY DEF Init, Held
<1> QED
  BY <1>1, <1>2, <1>3, <1>4 DEF IInv, Owned

\* When nobody holds more than before, rounds stay with their owners
LEMMA HeldLess ==
  ASSUME Owned, UNCHANGED consumed,
         \A c \in Calls, p \in Proxies : Held(c, p)' \subseteq Held(c, p)
  PROVE  Owned'
BY DEF Owned

\* A call begins: it had no messages, so it has those it asks with
LEMMA CallIInv ==
  ASSUME TypeOK, IInv, NEW c \in Calls, Call(c)
  PROVE  IInv'
<1>1. PICK op \in Op \ {"send"}, targets \in SUBSET Proxies,
           otherwise \in Report :
        /\ requests' = requests \union Ask(c, op, targets)
        /\ report' = [report EXCEPT ![c] = [p \in Proxies |->
             IF p \in targets THEN "waiting" ELSE otherwise]]
  BY CallStarts DEF Starts
<1>2. /\ promise[c] = "unused" /\ promise'[c] # "unused"
      /\ \A d \in Calls \ {c} : promise'[d] = promise[d]
      /\ UNCHANGED <<data, replies, consumed, got>>
  BY ZenonT(40), CallStarts DEF Starts, proxies, TypeOK
<1>3. /\ \A p \in Proxies : report[c][p] = "none"
      /\ \A p \in Proxies : \A x \in got[p] : x.call # c
  BY <1>2 DEF IInv, Exchange
<1>4. \A m \in Msgs : m.call # c
  BY <1>3, MsgTypes DEF IInv, Exchange
<1>5. \A m \in Ask(c, op, targets) :
        m.call = c /\ m.op # "send" /\ m.proxy \in targets
  BY DEF Ask
<1>6. Msgs' = Msgs \union Ask(c, op, targets)
  BY <1>1, <1>2 DEF Msgs
<1>7. Exchange'
  <2>1. \A m \in Msgs' : report'[m.call][m.proxy] = "waiting"
    BY <1>1, <1>4, <1>5, <1>6, MsgTypes DEF IInv, Exchange, TypeOK
  <2>2. \A m, n \in Ask(c, op, targets) : m.proxy = n.proxy => m = n
    BY DEF Ask
  <2>3. \A m, n \in Msgs' : m.call = n.call /\ m.proxy = n.proxy => m = n
    BY <1>4, <1>5, <1>6, <2>2 DEF IInv, Exchange
  <2>4. \A d \in Calls : promise'[d] = "unused" =>
          /\ \A p \in Proxies : report'[d][p] = "none"
          /\ \A p \in Proxies : \A x \in got'[p] : x.call # d
    BY <1>1, <1>2 DEF IInv, Exchange, TypeOK
  <2> QED
    BY <2>1, <2>3, <2>4 DEF Exchange
<1>8. Phase'
  <2>1. \A d \in Calls : Sending(d)' => Sending(d) /\ d # c
    BY <1>2, <1>3, <1>4, <1>5, <1>6 DEF Sending
  <2> QED
    BY <1>2, <1>5, <1>6, <2>1 DEF IInv, Phase
<1>9. Owned'
  BY <1>2, HeldLess DEF IInv, Held
<1>10. Masks'
  BY <1>2 DEF IInv, Masks
<1> QED
  BY <1>7, <1>8, <1>9, <1>10 DEF IInv

\* A request becomes a reply: the exchange goes on
LEMMA AnswerKeeps ==
  ASSUME TypeOK, IInv, NEW r \in requests, NEW m,
         m.call = r.call, m.proxy = r.proxy, m.op = r.op,
         requests' = requests \ {r}, replies' = replies \union {m},
         UNCHANGED <<promise, report, data>>,
         \A p \in Proxies : \A x \in got'[p] :
           x \in got[p] \/ (r.op = "send" /\ x.call = r.call)
  PROVE  Exchange' /\ Phase'
<1>1. r \in Msgs /\ Msgs' = (Msgs \ {r}) \union {m}
  <2>1. r \in Msgs
    BY DEF Msgs
  <2>2. r \notin replies
    <3>1. \A x \in Reply : DOMAIN x =
            {"call", "proxy", "op", "ok", "id", "round"}
      BY DEF Reply
    <3>2. \A x \in Request : DOMAIN x = {"call", "proxy", "op", "id"}
      BY DEF Request
    <3>3. r \in Request /\ replies \subseteq Reply
      BY DEF TypeOK
    <3>4. "ok" \notin DOMAIN r
      BY <3>2, <3>3
    <3> QED
      BY <3>1, <3>3, <3>4
  <2> QED
    BY <2>1, <2>2 DEF Msgs
<1>2. Exchange'
  <2>1. \A x \in Msgs' : report'[x.call][x.proxy] = "waiting"
    BY <1>1 DEF IInv, Exchange
  <2>2. \A x, y \in Msgs' : x.call = y.call /\ x.proxy = y.proxy => x = y
    BY <1>1 DEF IInv, Exchange
  <2>3. promise[r.call] # "unused"
    BY <1>1, MsgTypes DEF IInv, Exchange
  <2>4. \A d \in Calls : promise'[d] = "unused" =>
          /\ \A p \in Proxies : report'[d][p] = "none"
          /\ \A p \in Proxies : \A x \in got'[p] : x.call # d
    BY <2>3 DEF IInv, Exchange
  <2> QED
    BY <2>1, <2>2, <2>4 DEF Exchange
<1>3. Phase'
  <2>1. \A d \in Calls : Sending(d)' => Sending(d)
    BY <1>1 DEF Sending
  <2> QED
    BY <1>1, <2>1 DEF IInv, Phase
<1> QED
  BY <1>2, <1>3

LEMMA AnswerIInv ==
  ASSUME TypeOK, IInv, NEW r \in requests, NEW ok, NEW id, NEW round,
         Answer(r, ok, id, round), UNCHANGED <<consumed, got>>,
         r.op # "consume" \/ ok = FALSE
  PROVE  IInv'
<1> DEFINE m == [call |-> r.call, proxy |-> r.proxy, op |-> r.op, ok |-> ok,
                 id |-> id, round |-> round]
<1>1. /\ requests' = requests \ {r} /\ replies' = replies \union {m}
      /\ UNCHANGED <<promise, report, data>>
  BY DEF Answer
<1>2. /\ m.call = r.call /\ m.proxy = r.proxy /\ m.op = r.op
      /\ ~(m.op = "consume" /\ m.ok)
  OBVIOUS
<1>3. Exchange' /\ Phase'
  <2> HIDE DEF m
  <2> QED
    BY <1>1, <1>2, AnswerKeeps
<1>4. \A c \in Calls, p \in Proxies : Held(c, p)' = Held(c, p)
  <2> HIDE DEF m
  <2>1. \A c, p : {x \in replies' : x.call = c /\ x.proxy = p /\
                      x.op = "consume" /\ x.ok}
                = {x \in replies : x.call = c /\ x.proxy = p /\
                      x.op = "consume" /\ x.ok}
    BY <1>1, <1>2
  <2> QED
    BY <1>1, <2>1 DEF Held
<1>5. Owned'
  BY <1>4, HeldLess DEF IInv
<1>6. Masks'
  BY <1>1 DEF IInv, Masks
<1> QED
  BY <1>3, <1>5, <1>6 DEF IInv

\* The round handed out is new, so that nobody but r's call holds it
LEMMA ConsumeIInv ==
  ASSUME TypeOK, Counted, IInv, NEW r \in requests, HandleConsume(r)
  PROVE  IInv'
<1> DEFINE p == r.proxy
           round == NextRound(p, r.id)
           new == [id |-> r.id, round |-> round]
<1>1. r.call \in Calls /\ p \in Proxies /\ r.id \in Nat
  BY DEF TypeOK, Request
<1>3. new # NoData /\ new \notin consumed[p]
  BY <1>1, NextRoundIsNew DEF Rounds, NoData
<1>4. UNCHANGED got /\ r.op = "consume"
  BY DEF HandleConsume, Serves
<1>5. CASE Answer(r, FALSE, r.id, 0) /\ UNCHANGED consumed
  BY <1>4, <1>5, AnswerIInv
<1>6. CASE /\ consumed' = [consumed EXCEPT ![p] = @ \union {new}]
           /\ Answers(r, r.id, round)
  <2>1. PICK ok \in BOOLEAN : Answer(r, ok, r.id, round)
    BY <1>6 DEF Answers
  <2> DEFINE m == [call |-> r.call, proxy |-> p, op |-> r.op, ok |-> ok,
                   id |-> r.id, round |-> round]
  <2>2. /\ requests' = requests \ {r} /\ replies' = replies \union {m}
        /\ UNCHANGED <<promise, report, data>>
    BY <2>1 DEF Answer
  <2>3. /\ m.call = r.call /\ m.proxy = p /\ m.op = r.op
        /\ Item(m) = new
    BY DEF Item
  <2> HIDE DEF m, new
  <2>4. Exchange' /\ Phase'
    BY <1>4, <2>2, <2>3, AnswerKeeps
  <2>5. \A c \in Calls, q \in Proxies : Held(c, q)' \subseteq Held(c, q) \union
          (IF c = r.call /\ q = p THEN {new} ELSE {})
    BY <2>2, <2>3 DEF Held
  <2>6. /\ consumed'[p] = consumed[p] \union {new}
        /\ \A q \in Proxies \ {p} : consumed'[q] = consumed[q]
    BY <1>1, <1>6 DEF TypeOK
  <2>7. Owned'
    <3>1. \A q \in Proxies : NoData \notin consumed'[q]
      BY <1>3, <2>6 DEF IInv, Owned
    <3>2. \A c \in Calls, q \in Proxies : Held(c, q)' \subseteq consumed'[q]
      BY <2>5, <2>6 DEF IInv, Owned
    <3>3. \A c \in Calls : new \notin Held(c, p)
      BY <1>1, <1>3 DEF IInv, Owned
    <3>4. ASSUME NEW c \in Calls, NEW d \in Calls, NEW q \in Proxies, c # d
          PROVE  Held(c, q)' \cap Held(d, q)' = {}
      <4>1. Held(c, q) \cap Held(d, q) = {}
        BY <3>4 DEF IInv, Owned
      <4> QED
        BY <3>3, <3>4, <4>1, <2>5
    <3> QED
      BY <3>1, <3>2, <3>4 DEF Owned
  <2>8. Masks'
    BY <1>4, <2>2 DEF IInv, Masks
  <2> QED
    BY <2>4, <2>7, <2>8 DEF IInv
<1> QED
  BY <1>5, <1>6 DEF HandleConsume

LEMMA HandleIInv ==
  ASSUME TypeOK, Counted, IInv, NEW r \in requests, Handle(r)
  PROVE  IInv'
<1>1. CASE Refuses(r)
  BY <1>1, AnswerIInv DEF Refuses
<1>2. CASE HandleConnect(r)
  BY <1>2, AnswerIInv DEF HandleConnect, Answers
<1>3. CASE HandleCheck(r)
  BY <1>3, AnswerIInv DEF HandleCheck, Serves, Answers
<1>4. CASE HandleDisconnect(r)
  BY <1>4, AnswerIInv DEF HandleDisconnect, Serves, Answers
<1>5. CASE HandleConsume(r)
  BY <1>5, ConsumeIInv
<1>6. CASE HandleSend(r)
  <2> DEFINE x == [call |-> r.call, id |-> r.id,
                   mask |-> data[r.call][r.proxy]]
  <2>1. PICK ok \in BOOLEAN : Answer(r, ok, r.id, 0)
    BY <1>6 DEF HandleSend, Answers
  <2>2. /\ r.op = "send" /\ UNCHANGED consumed
        /\ got' = [got EXCEPT ![r.proxy] = @ \union {x}]
        /\ x.call = r.call /\ x.mask = data[r.call][r.proxy]
    BY <1>6 DEF HandleSend, Serves
  <2> DEFINE m == [call |-> r.call, proxy |-> r.proxy, op |-> r.op,
                   ok |-> ok, id |-> r.id, round |-> 0]
  <2>3. /\ requests' = requests \ {r} /\ replies' = replies \union {m}
        /\ UNCHANGED <<promise, report, data>>
    BY <2>1 DEF Answer
  <2>4. m.call = r.call /\ m.proxy = r.proxy /\ m.op = r.op
    OBVIOUS
  <2> HIDE DEF m, x
  <2>5. \A p \in Proxies : \A y \in got'[p] :
          y \in got[p] \/ (y = x /\ p = r.proxy)
    BY <2>2 DEF TypeOK
  <2>6. Exchange' /\ Phase'
    BY <2>2, <2>3, <2>4, <2>5, AnswerKeeps
  <2>7. \A c \in Calls, p \in Proxies : Held(c, p)' \subseteq Held(c, p)
    BY <2>2, <2>3, <2>4 DEF Held
  <2>8. Owned'
    BY <2>2, <2>7, HeldLess DEF IInv
  <2>9. Masks'
    BY <2>2, <2>3, <2>5 DEF IInv, Masks
  <2> QED
    BY <2>6, <2>8, <2>9 DEF IInv
<1> QED
  BY <1>1, <1>2, <1>3, <1>4, <1>5, <1>6 DEF Handle

\* What m's call has with m: from the reply it comes to the data
Took(m) ==
  /\ m.op = "consume" /\ m.ok
  /\ data' = [data EXCEPT ![m.call] =
               [data[m.call] EXCEPT ![m.proxy] = Item(m)]]

LEMMA TookHeld ==
  ASSUME TypeOK, IInv, NEW m \in replies, UNCHANGED <<consumed, got>>,
         replies' = replies \ {m}, UNCHANGED data \/ Took(m)
  PROVE  Owned' /\ Masks'
<1>1. m \in Msgs /\ m.call \in Calls /\ m.proxy \in Proxies
  BY MsgTypes DEF Msgs
<1>2. \A c \in Calls, p \in Proxies : data'[c][p] = data[c][p] \/
        (Took(m) /\ c = m.call /\ p = m.proxy /\ data'[c][p] = Item(m))
  BY <1>1 DEF Took, TypeOK
<1>3. Took(m) => Item(m) \in Held(m.call, m.proxy)
  BY DEF Took, Held
<1>4. \A c \in Calls, p \in Proxies : Held(c, p)' \subseteq Held(c, p)
  <2> SUFFICES ASSUME NEW c \in Calls, NEW p \in Proxies, NEW d \in Held(c, p)'
               PROVE  d \in Held(c, p)
    OBVIOUS
  <2>1. CASE d = data'[c][p] /\ d # NoData
    <3>1. CASE data'[c][p] = data[c][p]
      BY <2>1, <3>1 DEF Held
    <3> QED
      BY <1>2, <1>3, <2>1, <3>1
  <2>2. CASE \E x \in replies' : /\ x.call = c /\ x.proxy = p
                                /\ x.op = "consume" /\ x.ok /\ d = Item(x)
    BY <2>2 DEF Held
  <2> QED
    BY <2>1, <2>2 DEF Held
<1>5. Owned'
  BY <1>4, HeldLess DEF IInv
<1>6. Took(m) => ~Sending(m.call)
  BY <1>1 DEF IInv, Phase, Took
<1>7. Masks'
  <2> SUFFICES ASSUME NEW p \in Proxies, NEW x \in got[p]
               PROVE  x.mask = data'[x.call][p]
    BY DEF Masks
  <2>1. x.call \in Calls /\ Sending(x.call) /\ x.mask = data[x.call][p]
    BY DEF TypeOK, Sending, IInv, Masks
  <2> QED
    BY <1>2, <1>6, <2>1
<1> QED
  BY <1>5, <1>7

\* A reply is heard, and the call asks for nothing more
LEMMA HearKeeps ==
  ASSUME TypeOK, IInv, NEW m \in replies, UNCHANGED <<requests, consumed, got>>,
         replies' = replies \ {m}, UNCHANGED data \/ Took(m),
         NEW x, report' = [report EXCEPT ![m.call][m.proxy] = x],
         \A d \in Calls : promise'[d] = "unused" => promise[d] = "unused"
  PROVE  IInv'
<1>1. m \in Msgs /\ m.call \in Calls /\ m.proxy \in Proxies
  BY MsgTypes DEF Msgs
<1>2. Msgs' = Msgs \ {m}
  <2>1. m \notin requests
    <3>1. \A y \in Reply : DOMAIN y =
            {"call", "proxy", "op", "ok", "id", "round"}
      BY DEF Reply
    <3>2. \A y \in Request : DOMAIN y = {"call", "proxy", "op", "id"}
      BY DEF Request
    <3>3. m \in Reply /\ requests \subseteq Request
      BY DEF TypeOK
    <3>4. "ok" \in DOMAIN m
      BY <3>1, <3>3
    <3> QED
      BY <3>2, <3>3, <3>4
  <2> QED
    BY <2>1 DEF Msgs
<1>3. promise[m.call] # "unused"
  BY <1>1 DEF IInv, Exchange
<1>4. \A c \in Calls, p \in Proxies :
        c # m.call \/ p # m.proxy => report'[c][p] = report[c][p]
  BY <1>1 DEF TypeOK
<1>5. Exchange'
  <2>1. \A y \in Msgs' : y.call # m.call \/ y.proxy # m.proxy
    BY <1>1, <1>2 DEF IInv, Exchange
  <2>2. \A y \in Msgs' : report'[y.call][y.proxy] = "waiting"
    BY <1>2, <1>4, <2>1, MsgTypes DEF IInv, Exchange
  <2>3. \A y, z \in Msgs' : y.call = z.call /\ y.proxy = z.proxy => y = z
    BY <1>2 DEF IInv, Exchange
  <2>4. \A d \in Calls : promise'[d] = "unused" =>
          /\ \A p \in Proxies : report'[d][p] = "none"
          /\ \A p \in Proxies : \A y \in got'[p] : y.call # d
    BY <1>3, <1>4 DEF IInv, Exchange
  <2> QED
    BY <2>2, <2>3, <2>4 DEF Exchange
<1>6. Phase'
  <2>1. \A d \in Calls : Sending(d)' => Sending(d)
    BY <1>2 DEF Sending
  <2>2. Took(m) => ~Sending(m.call)
    BY <1>1 DEF IInv, Phase, Took
  <2>3. \A d \in Calls : Sending(d)' => data'[d] = data[d]
    BY <1>1, <2>1, <2>2 DEF Took, TypeOK
  <2> QED
    BY <1>2, <2>1, <2>3 DEF IInv, Phase
<1>7. Owned' /\ Masks'
  BY TookHeld
<1> QED
  BY <1>5, <1>6, <1>7 DEF IInv

\* The data are there and of one round: nothing of the call is under way, and
\* what it sends carries them
LEMMA SendIInv ==
  ASSUME TypeOK, IInv, NEW m \in replies, m.op = "consume", m.ok,
         \A q \in Proxies \ {m.proxy} : report[m.call][q] = "done",
         NEW items, items = [data[m.call] EXCEPT ![m.proxy] = Item(m)],
         valid(items), sendInputsToProxies(m.call, items),
         replies' = replies \ {m}, UNCHANGED <<consumed, got>>
  PROVE  IInv'
<1> DEFINE c == m.call
<1>1. m \in Msgs /\ c \in Calls /\ m.proxy \in Proxies
  BY MsgTypes DEF Msgs
<1>2. \A y \in Msgs : y.call = c => y = m
  <2> SUFFICES ASSUME NEW y \in Msgs, y.call = c PROVE y = m
    OBVIOUS
  <2>1. report[c][y.proxy] = "waiting" /\ y.proxy \in Proxies
    BY MsgTypes DEF IInv, Exchange
  <2>2. y.proxy = m.proxy
    BY <2>1
  <2> QED
    BY <1>1, <2>2 DEF IInv, Exchange
<1>3. /\ requests' = requests \union Ask(c, "send", Known)
      /\ report' = [report EXCEPT ![c] = [p \in Proxies |->
           IF p \in Known THEN "waiting" ELSE "failed"]]
      /\ promise'[c] # "unused"
      /\ \A d \in Calls \ {c} : promise'[d] = promise[d]
      /\ data' = [data EXCEPT ![c] = items]
  BY <1>1 DEF sendInputsToProxies, TypeOK
<1>4. \A y \in Ask(c, "send", Known) :
        y.call = c /\ y.op = "send" /\ y.proxy \in Known
  BY DEF Ask
<1>5. \A y \in Msgs' : y \in Ask(c, "send", Known) \/
                       (y \in Msgs /\ y.call # c)
  <2>1. m \notin requests
    <3>1. \A y \in Reply : DOMAIN y =
            {"call", "proxy", "op", "ok", "id", "round"}
      BY DEF Reply
    <3>2. \A y \in Request : DOMAIN y = {"call", "proxy", "op", "id"}
      BY DEF Request
    <3>3. m \in Reply /\ requests \subseteq Request
      BY DEF TypeOK
    <3>4. "ok" \in DOMAIN m
      BY <3>1, <3>3
    <3> QED
      BY <3>2, <3>3, <3>4
  <2> QED
    BY <1>2, <1>3, <2>1 DEF Msgs
<1>6. /\ \A p, q \in Proxies : data'[c][p] = data'[c][q]
      /\ \A p \in Proxies : data'[c][p] # NoData
      /\ \A d \in Calls \ {c} : data'[d] = data[d]
  <2>1. data'[c] = items /\ \A d \in Calls \ {c} : data'[d] = data[d]
    BY <1>1, <1>3 DEF TypeOK
  <2>2. items[m.proxy] = Item(m)
    BY <1>1 DEF TypeOK
  <2>3. Item(m) \in consumed[m.proxy]
    BY <1>1 DEF IInv, Owned, Held
  <2>4. Item(m) # NoData
    BY <1>1, <2>3 DEF IInv, Owned
  <2>5. \A p, q \in Proxies : items[p] = items[q]
    BY DEF valid
  <2> QED
    BY <1>1, <2>1, <2>2, <2>4, <2>5
<1>7. Exchange'
  <2>1. \A y \in Msgs' : report'[y.call][y.proxy] = "waiting"
    <3>1. /\ \A p \in Known : report'[c][p] = "waiting"
          /\ \A d \in Calls \ {c} : report'[d] = report[d]
      BY <1>1, <1>3 DEF TypeOK, Known
    <3>2. \A y \in Msgs : y.call # c => report'[y.call][y.proxy] = "waiting"
      BY <3>1, MsgTypes DEF IInv, Exchange
    <3> QED
      BY <1>4, <1>5, <3>1, <3>2
  <2>2. \A y, z \in Ask(c, "send", Known) : y.proxy = z.proxy => y = z
    BY DEF Ask
  <2>3. \A y, z \in Msgs' : y.call = z.call /\ y.proxy = z.proxy => y = z
    BY <1>4, <1>5, <2>2 DEF IInv, Exchange
  <2>4. \A d \in Calls : promise'[d] = "unused" =>
          /\ \A p \in Proxies : report'[d][p] = "none"
          /\ \A p \in Proxies : \A y \in got'[p] : y.call # d
    BY <1>1, <1>3 DEF IInv, Exchange, TypeOK
  <2> QED
    BY <2>1, <2>3, <2>4 DEF Exchange
<1>8. Phase'
  <2>1. \A d \in Calls \ {c} : Sending(d)' => Sending(d)
    BY <1>4, <1>5 DEF Sending
  <2>2. \A y \in Msgs' : y.call = c => y.op = "send"
    BY <1>4, <1>5
  <2>3. \A d \in Calls \ {c} : \A y \in Msgs' : y.call = d => y \in Msgs
    BY <1>4, <1>5
  <2> QED
    BY <1>6, <2>1, <2>2, <2>3 DEF IInv, Phase
<1>9. Owned' /\ Masks'
  BY <1>3, TookHeld DEF Took
<1> QED
  BY <1>7, <1>8, <1>9 DEF IInv

LEMMA HearIInv ==
  ASSUME TypeOK, IInv, NEW m \in replies, Hear(m)
  PROVE  IInv'
<1>1. m.call \in Calls /\ m.proxy \in Proxies
  BY DEF TypeOK, Reply
<1>2. replies' = replies \ {m} /\ UNCHANGED <<consumed, got>>
  BY DEF Hear, OnConnect, OnCheck, OnDisconnect, OnConsume, OnSend, Take,
    proxies
<1>3. ASSUME NEW r, Learns(m, r) \/ Fails(m)
      PROVE  /\ \E x : report' = [report EXCEPT ![m.call][m.proxy] = x]
             /\ \A d \in Calls : promise'[d] = "unused" => promise[d] = "unused"
  BY <1>1, <1>3 DEF Learns, Fails, TypeOK
<1>4. ASSUME NEW r, Learns(m, r) \/ Fails(m), UNCHANGED requests,
             UNCHANGED data \/ Took(m)
      PROVE  IInv'
  BY <1>2, <1>3, <1>4, HearKeeps
<1>5. CASE OnConnect(m)
  BY <1>4, <1>5 DEF OnConnect
<1>6. CASE OnCheck(m)
  BY <1>4, <1>6 DEF OnCheck
<1>7. CASE OnDisconnect(m)
  BY <1>4, <1>7 DEF OnDisconnect
<1>8. CASE OnSend(m)
  BY <1>4, <1>8 DEF OnSend
<1>9. CASE OnConsume(m)
  <2> DEFINE items == [data[m.call] EXCEPT ![m.proxy] = Item(m)]
             last == \A q \in Proxies \ {m.proxy} : report[m.call][q] = "done"
  <2>1. m.op = "consume"
    BY <1>9 DEF OnConsume, Take
  <2>2. CASE Fails(m) /\ UNCHANGED <<data, requests>>
    BY <1>4, <2>2
  <2>3. CASE /\ m.ok /\ UNCHANGED <<requests, promise>>
             /\ report' = [report EXCEPT ![m.call][m.proxy] = "done"]
             /\ data' = [data EXCEPT ![m.call] = items]
    BY <1>2, <2>1, <2>3, HearKeeps DEF Took
  <2>4. CASE m.ok /\ last /\ valid(items) /\ sendInputsToProxies(m.call, items)
    BY <1>2, <2>1, <2>4, SendIInv
  <2>5. CASE /\ m.ok
             /\ Learns(m, "done") \/ Fails(m)
             /\ data' = [data EXCEPT ![m.call] = items] /\ UNCHANGED requests
    BY <1>4, <2>1, <2>5 DEF Took
  <2>6. items = [data[m.call] EXCEPT ![m.proxy] =
                   [id |-> m.id, round |-> m.round]]
    BY DEF Item
  <2> HIDE DEF items
  <2> QED
    BY <1>9, <2>2, <2>3, <2>4, <2>5, <2>6 DEF OnConsume
<1> QED
  BY <1>5, <1>6, <1>7, <1>8, <1>9 DEF Hear

LEMMA NextIInv == TypeOK /\ Counted /\ IInv /\ [Next]_vars => IInv'
<1> SUFFICES ASSUME TypeOK, Counted, IInv, [Next]_vars PROVE IInv'
  OBVIOUS
<1>1. ASSUME UNCHANGED <<promise, report, data, requests, replies, consumed,
                         got>>
      PROVE  IInv'
  <2>1. Msgs' = Msgs /\ \A c : Sending(c)' = Sending(c)
    BY <1>1 DEF Msgs, Sending
  <2>2. \A c, p : Held(c, p)' = Held(c, p)
    BY <1>1 DEF Held
  <2>3. Exchange' /\ Phase'
    BY <1>1, <2>1 DEF IInv, Exchange, Phase
  <2>4. Owned' /\ Masks'
    BY <1>1, <2>2 DEF IInv, Owned, Masks
  <2> QED
    BY <2>3, <2>4 DEF IInv
<1>2. ASSUME NEW p \in Proxies, EngineCloses(p) PROVE IInv'
  BY <1>1, <1>2 DEF EngineCloses
<1>3. CASE UNCHANGED vars
  BY <1>1, <1>3 DEF vars
<1> QED
  BY <1>2, <1>3, CallIInv, HandleIInv, HearIInv DEF Next

LEMMA IInvImplies == TypeOK /\ IInv => MasksUsedOnce
<1> SUFFICES ASSUME TypeOK, IInv, NEW p \in Proxies, NEW q \in Proxies,
                    NEW x \in got[p], NEW y \in got[q]
             PROVE  (x.call = y.call) <=> (x.mask = y.mask)
  BY DEF MasksUsedOnce
<1>1. /\ x.call \in Calls /\ Sending(x.call) /\ x.mask = data[x.call][p]
      /\ y.call \in Calls /\ Sending(y.call) /\ y.mask = data[y.call][q]
  BY DEF TypeOK, Sending, IInv, Masks
<1>2. CASE x.call = y.call
  BY <1>1, <1>2 DEF IInv, Phase
<1>3. CASE x.call # y.call
  <2>1. data[x.call][p] # NoData /\ data[y.call][p] # NoData
    BY <1>1 DEF IInv, Phase
  <2>2. /\ data[x.call][p] \in Held(x.call, p)
        /\ data[y.call][p] \in Held(y.call, p)
    BY <2>1 DEF Held
  <2>3. data[x.call][p] # data[y.call][p]
    BY <1>1, <1>3, <2>2 DEF IInv, Owned
  <2>4. data[y.call][p] = data[y.call][q]
    BY <1>1 DEF IInv, Phase
  <2> QED
    BY <1>1, <1>3, <2>3, <2>4
<1> QED
  BY <1>2, <1>3

\* An input goes out under the same round of shares to all engines, and no
\* two inputs under the same (SpdzApiHelper.js 158-172): however calls
\* overlap, replies overtake each other and requests fail.
THEOREM UsedOnce == Spec => []MasksUsedOnce
<1>1. Spec => [](TypeOK /\ Counted /\ IInv)
  BY InitType, InitIInv, NextType, NextIInv, PTL DEF Spec
<1> QED
  BY <1>1, IInvImplies, PTL

-----------------------------------------------------------------------------
(* What a send that resolves has done, which ids the client keeps, and     *)
(* where inputs go.                                                        *)
(*                                                                         *)
(* Why: a call has messages of its kind only (Asked).  While a send waits  *)
(* for its replies, each proxy has the input already or is still to answer *)
(* (Awaited).  As long as calls that change the ids do not overlap, the    *)
(* one that is pending is the latest, and only its replies write ids (Ids),*)
(* so that a send which began with all ids meets no others (Following).    *)

Asked ==
  \A m \in Msgs :
    /\ m.op \in {"connect", "check", "disconnect"} => kind[m.call] = m.op
    /\ m.op = "consume" => kind[m.call] \in {"send", "retrieve"}
    /\ m.op = "send" => kind[m.call] = "send"

Reached(c, p) == \E x \in got[p] : x.call = c

Delivered ==
  \A m \in replies : m.op = "send" /\ m.ok => Reached(m.call, m.proxy)

\* A send whose promise is pending in its second step has failed nowhere
Awaited ==
  \A m \in Msgs : m.op = "send" /\ promise[m.call] = "pending" =>
    \A p \in Proxies :
      \/ report[m.call][p] = "waiting"
      \/ report[m.call][p] = "done" /\ Reached(m.call, p)

SendInv == Delivered /\ Awaited /\ ResolvedSendReached

-----------------------------------------------------------------------------
(* What the three kinds of step do, as far as the invariants see it.       *)

\* The requests a call of each kind begins with
FirstOp(k) == IF k \in {"send", "retrieve"} THEN "consume" ELSE k

LEMMA CallBegins ==
  ASSUME TypeOK, IInv, NEW c \in Calls, Call(c)
  PROVE  /\ promise[c] = "unused"
         /\ \A m \in Msgs : m.call # c
         /\ \A p \in Proxies : \A x \in got[p] : x.call # c
         /\ \A d \in Calls \ {c} : /\ kind'[d] = kind[d]
                                   /\ promise'[d] = promise[d]
                                   /\ report'[d] = report[d]
         /\ promise'[c] # "unused"
         /\ UNCHANGED <<data, replies, issued, got>>
         /\ requests \subseteq requests'
         /\ \A m \in Msgs' : m.call # c => m \in Msgs
         /\ \A m \in Msgs' : m.call = c =>
              /\ m \in requests' /\ m.op = FirstOp(kind'[c])
              /\ m.op = "consume" => m.id = clientIds[m.proxy]
              /\ report'[c][m.proxy] = "waiting"
         /\ kind'[c] \in {"connect", "check", "disconnect", "send", "retrieve"}
<1>1. /\ promise[c] = "unused" /\ promise'[c] # "unused"
      /\ \A d \in Calls \ {c} : promise'[d] = promise[d]
      /\ UNCHANGED <<data, replies, issued, got>>
  BY CallStarts DEF Starts, proxies, TypeOK
<1>2. /\ \A p \in Proxies : report[c][p] = "none"
      /\ \A p \in Proxies : \A x \in got[p] : x.call # c
  BY <1>1 DEF IInv, Exchange
<1>3. \A m \in Msgs : m.call # c
  BY <1>2, MsgTypes DEF IInv, Exchange
<1>4. Known \subseteq Proxies
  BY DEF Known
<1>5. PICK k \in {"connect", "check", "disconnect", "send", "retrieve"},
           targets \in SUBSET Proxies, otherwise \in Report :
        Start(c, k, FirstOp(k), targets, otherwise)
  <2>1. CASE connectToSPDZ(c)
    BY <2>1, ReportTypes DEF connectToSPDZ, FirstOp
  <2>2. CASE checkProxies(c)
    BY <1>4, <2>2, ReportTypes DEF checkProxies, FirstOp
  <2>3. CASE disconnectFromSPDZ(c)
    BY <1>4, <2>3, ReportTypes DEF disconnectFromSPDZ, FirstOp
  <2>4. CASE sendInputsWithShares(c) \/ retrieveRegIntsAsHexString(c)
    BY <1>4, <2>4, ReportTypes DEF sendInputsWithShares,
      retrieveRegIntsAsHexString, consumeDataFromProxies, FirstOp
  <2> QED
    BY <2>1, <2>2, <2>3, <2>4 DEF Call
<1>6. /\ kind' = [kind EXCEPT ![c] = k]
      /\ requests' = requests \union Ask(c, FirstOp(k), targets)
      /\ report' = [report EXCEPT ![c] = [p \in Proxies |->
           IF p \in targets THEN "waiting" ELSE otherwise]]
  BY <1>5 DEF Start
<1>7. kind'[c] = k /\ \A d \in Calls \ {c} : kind'[d] = kind[d]
  BY <1>6 DEF TypeOK
<1>8. /\ \A p \in targets : report'[c][p] = "waiting"
      /\ \A d \in Calls \ {c} : report'[d] = report[d]
  BY <1>6 DEF TypeOK
<1>9. \A m \in Ask(c, FirstOp(k), targets) :
        /\ m.call = c /\ m.proxy \in targets /\ m.op = FirstOp(k)
        /\ m.op = "consume" => m.id = clientIds[m.proxy]
  BY DEF Ask
<1>10. Msgs' = Msgs \union Ask(c, FirstOp(k), targets)
  BY <1>1, <1>6 DEF Msgs
<1> QED
  BY <1>1, <1>2, <1>3, <1>6, <1>7, <1>8, <1>9, <1>10

\* A request becomes a reply of the same call, proxy and kind
LEMMA HandleAnswers ==
  ASSUME TypeOK, NEW r \in requests, Handle(r)
  PROVE  \E m :
    /\ m.call = r.call /\ m.proxy = r.proxy /\ m.op = r.op
    /\ r.op # "connect" => m.id = r.id
    /\ r.op = "connect" /\ m.ok => m.id = issued'[r.proxy] /\ m.id # NoId
    /\ r.op = "send" /\ m.ok => Reached(r.call, r.proxy)'
    /\ requests' = requests \ {r} /\ replies' = replies \union {m}
    /\ UNCHANGED <<clientIds, kind, promise, report, data, current,
                   overlapped, moved>>
    /\ \A p \in Proxies : issued'[p] = issued[p] \/
                          (p = r.proxy /\ r.op = "connect")
    /\ \A p \in Proxies : got[p] \subseteq got'[p]
    /\ \A p \in Proxies : \A x \in got'[p] : x \in got[p] \/
         /\ r.op = "send" /\ p = r.proxy /\ x.call = r.call
         /\ x.id = r.id /\ x.mask = data[r.call][p]
<1>1. r.call \in Calls /\ r.proxy \in Proxies /\ r.op \in Op /\ r.id \in Nat
  BY DEF TypeOK, Request
<1> DEFINE reply(ok, id, n) ==
      [call |-> r.call, proxy |-> r.proxy, op |-> r.op, ok |-> ok, id |-> id,
       round |-> n]
<1>2. ASSUME NEW ok, NEW id, NEW n, Answer(r, ok, id, n)
      PROVE  /\ requests' = requests \ {r}
             /\ replies' = replies \union {reply(ok, id, n)}
             /\ UNCHANGED <<clientIds, kind, promise, report, data, current,
                            overlapped, moved>>
  BY <1>2 DEF Answer
<1>3. ASSUME NEW ok, NEW n, Answer(r, ok, r.id, n), UNCHANGED <<issued, got>>,
             r.op = "connect" \/ r.op = "send" => ok = FALSE
      PROVE  \E m :
        /\ m.call = r.call /\ m.proxy = r.proxy /\ m.op = r.op
        /\ r.op # "connect" => m.id = r.id
        /\ r.op = "connect" /\ m.ok => m.id = issued'[r.proxy] /\ m.id # NoId
        /\ r.op = "send" /\ m.ok => Reached(r.call, r.proxy)'
        /\ requests' = requests \ {r} /\ replies' = replies \union {m}
  <2> WITNESS reply(ok, r.id, n)
  <2> QED
    BY <1>2, <1>3
<1>4. CASE UNCHANGED <<issued, got>> /\ \E ok, n :
             /\ Answer(r, ok, r.id, n)
             /\ r.op = "connect" \/ r.op = "send" => ok = FALSE
  BY <1>2, <1>3, <1>4
<1>5. CASE HandleConnect(r)
  <2>1. PICK ok \in BOOLEAN : Answer(r, ok, issued[r.proxy] + 1, 0)
    BY <1>5 DEF HandleConnect, Answers
  <2>2. /\ issued' = [issued EXCEPT ![r.proxy] = issued[r.proxy] + 1]
        /\ r.op = "connect" /\ UNCHANGED got /\ issued[r.proxy] \in Nat
    BY <1>1, <1>5 DEF HandleConnect, TypeOK
  <2>3. /\ issued'[r.proxy] = issued[r.proxy] + 1
        /\ issued'[r.proxy] # NoId
        /\ \A p \in Proxies : issued'[p] = issued[p] \/ p = r.proxy
    BY <1>1, <2>2 DEF TypeOK, NoId
  <2> WITNESS reply(ok, issued[r.proxy] + 1, 0)
  <2> QED
    BY <1>2, <2>1, <2>2, <2>3
<1>6. CASE HandleSend(r)
  <2> DEFINE x == [call |-> r.call, id |-> r.id,
                   mask |-> data[r.call][r.proxy]]
  <2>1. PICK ok \in BOOLEAN : Answer(r, ok, r.id, 0)
    BY <1>6 DEF HandleSend, Answers
  <2>2. /\ r.op = "send" /\ UNCHANGED issued
        /\ got' = [got EXCEPT ![r.proxy] = @ \union {x}]
    BY <1>6 DEF HandleSend, Serves
  <2>3. /\ \A p \in Proxies : got[p] \subseteq got'[p]
        /\ \A p \in Proxies : \A y \in got'[p] :
             y \in got[p] \/ (p = r.proxy /\ y = x)
        /\ x \in got'[r.proxy]
    BY <1>1, <2>2 DEF TypeOK
  <2>4. Reached(r.call, r.proxy)'
    BY <2>3 DEF Reached
  <2> WITNESS reply(ok, r.id, 0)
  <2> QED
    BY <1>2, <2>1, <2>2, <2>3, <2>4
<1>7. CASE Refuses(r)
  BY <1>4, <1>7 DEF Refuses
<1>8. CASE HandleCheck(r)
  BY <1>4, <1>8 DEF HandleCheck, Serves, Answers
<1>9. CASE HandleDisconnect(r)
  BY <1>4, <1>9 DEF HandleDisconnect, Serves, Answers
<1>10. CASE HandleConsume(r)
  BY <1>4, <1>10 DEF HandleConsume, Serves, Answers
<1> QED
  BY <1>5, <1>6, <1>7, <1>8, <1>9, <1>10 DEF Handle

\* A reply is neither a request nor, once heard, any message
LEMMA HeardGone ==
  ASSUME TypeOK, IInv, NEW m \in replies, replies' = replies \ {m}
  PROVE  /\ m \in Msgs /\ m.call \in Calls /\ m.proxy \in Proxies
         /\ report[m.call][m.proxy] = "waiting"
         /\ \A y \in requests \union replies' :
              y \in Msgs /\ (y.call # m.call \/ y.proxy # m.proxy)
<1>1. m \in Msgs /\ m.call \in Calls /\ m.proxy \in Proxies
  BY MsgTypes DEF Msgs
<1>2. m \notin requests
  <2>1. \A y \in Reply : DOMAIN y =
          {"call", "proxy", "op", "ok", "id", "round"}
    BY DEF Reply
  <2>2. \A y \in Request : DOMAIN y = {"call", "proxy", "op", "id"}
    BY DEF Request
  <2>3. m \in Reply /\ requests \subseteq Request
    BY DEF TypeOK
  <2>4. "ok" \in DOMAIN m
    BY <2>1, <2>3
  <2> QED
    BY <2>2, <2>3, <2>4
<1> QED
  BY <1>1, <1>2 DEF IInv, Exchange, Msgs

\* What the client does with a reply
LEMMA HearCases ==
  ASSUME TypeOK, NEW m \in replies, Hear(m)
  PROVE  /\ replies' = replies \ {m}
         /\ UNCHANGED <<kind, current, overlapped, moved, issued, got>>
         /\ \/ /\ m.op \in {"connect", "check", "disconnect"}
               /\ \E r \in ProxyStatusCodes : Learns(m, r)
               /\ UNCHANGED <<requests, data>>
            \/ /\ m.op = "send"
               /\ IF m.ok THEN Learns(m, "done") ELSE Fails(m)
               /\ UNCHANGED <<clientIds, requests, data>>
            \/ /\ m.op = "consume"
               /\ \/ Fails(m)
                  \/ UNCHANGED promise
                  \/ kind[m.call] = "retrieve" /\ Learns(m, "done")
               /\ \E x : report' = [report EXCEPT ![m.call][m.proxy] = x]
               /\ UNCHANGED data \/ Took(m)
               /\ UNCHANGED <<clientIds, requests>>
            \/ /\ m.op = "consume" /\ m.ok /\ kind[m.call] = "send"
               /\ UNCHANGED clientIds
               /\ sendInputsToProxies(m.call,
                    [data[m.call] EXCEPT ![m.proxy] = Item(m)])
               /\ \A q \in Proxies \ {m.proxy} : report[m.call][q] = "done"
<1>1. /\ replies' = replies \ {m}
      /\ UNCHANGED <<kind, current, overlapped, moved, issued, got>>
  BY DEF Hear, OnConnect, OnCheck, OnDisconnect, OnConsume, OnSend, Take,
    proxies
<1>2. CASE OnConnect(m)
  BY <1>1, <1>2 DEF OnConnect, Take, ProxyStatusCodes
<1>3. CASE OnCheck(m)
  BY <1>1, <1>3 DEF OnCheck, Take, ProxyStatusCodes
<1>4. CASE OnDisconnect(m)
  BY <1>1, <1>4 DEF OnDisconnect, Take, ProxyStatusCodes
<1>5. CASE OnSend(m)
  BY <1>1, <1>5 DEF OnSend, Take
<1>6. CASE OnConsume(m)
  <2> DEFINE items == [data[m.call] EXCEPT ![m.proxy] = Item(m)]
             last == \A q \in Proxies \ {m.proxy} : report[m.call][q] = "done"
  <2>1. m.op = "consume" /\ UNCHANGED clientIds
    BY <1>6 DEF OnConsume, Take
  <2>2. CASE Fails(m) /\ UNCHANGED <<data, requests>>
    BY <1>1, <2>1, <2>2 DEF Fails
  <2>3. CASE /\ m.ok /\ UNCHANGED <<requests, promise>>
             /\ report' = [report EXCEPT ![m.call][m.proxy] = "done"]
             /\ data' = [data EXCEPT ![m.call] = items]
    <3>1. Took(m)
      BY <2>1, <2>3 DEF Took
    <3>2. \E x : report' = [report EXCEPT ![m.call][m.proxy] = x]
      BY <2>3
    <3> QED
      BY <1>1, <2>1, <2>3, <3>1, <3>2
  <2>4. CASE /\ m.ok /\ last /\ kind[m.call] = "send"
             /\ sendInputsToProxies(m.call, items)
    BY <1>1, <2>1, <2>4
  <2>5. CASE /\ m.ok /\ UNCHANGED requests
             /\ (kind[m.call] = "retrieve" /\ Learns(m, "done")) \/ Fails(m)
             /\ data' = [data EXCEPT ![m.call] = items]
    <3>1. Took(m)
      BY <2>1, <2>5 DEF Took
    <3>2. \E x : report' = [report EXCEPT ![m.call][m.proxy] = x]
      BY <2>5 DEF Learns, Fails
    <3> QED
      BY <1>1, <2>1, <2>5, <3>1, <3>2
  <2>6. items = [data[m.call] EXCEPT ![m.proxy] =
                   [id |-> m.id, round |-> m.round]]
    BY DEF Item
  <2> HIDE DEF items
  <2> QED
    BY <1>6, <2>2, <2>3, <2>4, <2>5, <2>6 DEF OnConsume
<1> QED
  BY <1>2, <1>3, <1>4, <1>5, <1>6 DEF Hear

\* A send begins with a promise that waits or, with an id missing, rejects
LEMMA SendBegins ==
  ASSUME TypeOK, NEW c \in Calls, Call(c), kind'[c] = "send"
  PROVE  promise'[c] # "resolved"
<1>1. CASE connectToSPDZ(c) \/ checkProxies(c) \/ disconnectFromSPDZ(c)
           \/ retrieveRegIntsAsHexString(c)
  BY <1>1 DEF connectToSPDZ, checkProxies, disconnectFromSPDZ, Start,
    retrieveRegIntsAsHexString, consumeDataFromProxies, TypeOK
<1>2. CASE sendInputsWithShares(c)
  BY <1>2 DEF sendInputsWithShares, consumeDataFromProxies, TypeOK
<1> QED
  BY <1>1, <1>2 DEF Call

-----------------------------------------------------------------------------
(* What a send that resolves has done.                                     *)

LEMMA InitSendInv == Init => Asked /\ SendInv
<1> SUFFICES ASSUME Init PROVE Asked /\ SendInv
  OBVIOUS
<1>1. Msgs = {} /\ replies = {} /\ \A c \in Calls : kind[c] = "none"
  BY DEF Init, Msgs
<1> QED
  BY <1>1 DEF Asked, SendInv, Delivered, Awaited, ResolvedSendReached

LEMMA CallSendInv ==
  ASSUME TypeOK, IInv, Asked, SendInv, NEW c \in Calls, Call(c)
  PROVE  Asked' /\ SendInv'
<1>1. /\ \A d \in Calls \ {c} : /\ kind'[d] = kind[d]
                                /\ promise'[d] = promise[d]
                                /\ report'[d] = report[d]
      /\ UNCHANGED <<data, replies, issued, got>>
      /\ \A m \in Msgs' : m.call # c => m \in Msgs
      /\ \A m \in Msgs' : m.call = c =>
           m.op = FirstOp(kind'[c]) /\ m \in requests'
      /\ \A m \in Msgs : m.call # c
      /\ kind'[c] \in {"connect", "check", "disconnect", "send", "retrieve"}
  BY CallBegins
<1>2. \A d, p : Reached(d, p)' = Reached(d, p)
  BY <1>1 DEF Reached
<1>3. Asked'
  <2> SUFFICES ASSUME NEW m \in Msgs'
               PROVE  /\ m.op \in {"connect", "check", "disconnect"} =>
                           kind'[m.call] = m.op
                      /\ m.op = "consume" =>
                           kind'[m.call] \in {"send", "retrieve"}
                      /\ m.op = "send" => kind'[m.call] = "send"
    BY DEF Asked
  <2>1. CASE m.call = c
    BY <1>1, <2>1 DEF FirstOp
  <2>2. CASE m.call # c
    <3>1. m \in Msgs /\ m.call \in Calls
      BY <1>1, <2>2, MsgTypes
    <3> QED
      BY <1>1, <2>2, <3>1 DEF Asked
  <2> QED
    BY <2>1, <2>2
<1>4. Delivered'
  BY <1>1, <1>2 DEF SendInv, Delivered
<1>5. Awaited'
  <2> SUFFICES ASSUME NEW m \in Msgs', m.op = "send",
                      promise'[m.call] = "pending", NEW p \in Proxies
               PROVE  \/ report'[m.call][p] = "waiting"
                      \/ report'[m.call][p] = "done" /\ Reached(m.call, p)
    BY <1>2 DEF Awaited
  <2>1. m.call # c
    BY <1>1 DEF FirstOp
  <2>2. m \in Msgs /\ m.call \in Calls
    BY <1>1, <2>1, MsgTypes
  <2> QED
    BY <1>1, <2>1, <2>2 DEF SendInv, Awaited
<1>6. ResolvedSendReached'
  <2> SUFFICES ASSUME NEW d \in Calls, kind'[d] = "send",
                      promise'[d] = "resolved", NEW p \in Proxies
               PROVE  \E x \in got'[p] : x.call = d
    BY DEF ResolvedSendReached
  <2>1. d # c
    BY SendBegins
  <2> QED
    BY <1>1, <2>1 DEF SendInv, ResolvedSendReached
<1> QED
  BY <1>3, <1>4, <1>5, <1>6 DEF SendInv

LEMMA HandleSendInv ==
  ASSUME TypeOK, IInv, Asked, SendInv, NEW r \in requests, Handle(r)
  PROVE  Asked' /\ SendInv'
<1>1. PICK m :
    /\ m.call = r.call /\ m.proxy = r.proxy /\ m.op = r.op
    /\ r.op = "send" /\ m.ok => Reached(r.call, r.proxy)'
    /\ requests' = requests \ {r} /\ replies' = replies \union {m}
    /\ UNCHANGED <<kind, promise, report>>
    /\ \A p \in Proxies : got[p] \subseteq got'[p]
  BY HandleAnswers
<1>2. r \in Msgs /\ r.call \in Calls /\ r.proxy \in Proxies
  BY MsgTypes DEF Msgs
<1>3. \A n \in Msgs' : \E o \in Msgs :
        o.call = n.call /\ o.proxy = n.proxy /\ o.op = n.op
  BY <1>1, <1>2 DEF Msgs
<1>4. \A d : \A p \in Proxies : Reached(d, p) => Reached(d, p)'
  BY <1>1 DEF Reached
<1>5. Asked'
  BY <1>1, <1>3 DEF Asked
<1>6. Delivered'
  <2> SUFFICES ASSUME NEW n \in replies', n.op = "send", n.ok
               PROVE  Reached(n.call, n.proxy)'
    BY DEF Delivered
  <2>1. CASE n \in replies
    <3>1. n \in Msgs /\ Reached(n.call, n.proxy)
      BY <2>1 DEF SendInv, Delivered, Msgs
    <3> QED
      BY <1>4, <3>1, MsgTypes
  <2> QED
    BY <1>1, <2>1
<1>7. Awaited'
  <2> SUFFICES ASSUME NEW n \in Msgs', n.op = "send",
                      promise'[n.call] = "pending", NEW p \in Proxies
               PROVE  \/ report'[n.call][p] = "waiting"
                      \/ report'[n.call][p] = "done" /\ Reached(n.call, p)'
    BY DEF Awaited
  <2>1. PICK o \in Msgs : o.call = n.call /\ o.op = n.op
    BY <1>3
  <2> QED
    BY <1>1, <1>4, <2>1 DEF SendInv, Awaited
<1>8. ResolvedSendReached'
  BY <1>1 DEF SendInv, ResolvedSendReached
<1> QED
  BY <1>5, <1>6, <1>7, <1>8 DEF SendInv

LEMMA HearSendInv ==
  ASSUME TypeOK, IInv, Asked, SendInv, NEW m \in replies, Hear(m)
  PROVE  Asked' /\ SendInv'
<1> DEFINE c == m.call
<1>1. /\ replies' = replies \ {m} /\ UNCHANGED <<kind, got>>
  BY HearCases
<1>2. /\ m \in Msgs /\ c \in Calls /\ m.proxy \in Proxies
      /\ report[c][m.proxy] = "waiting"
      /\ \A y \in requests \union replies' :
           y \in Msgs /\ (y.call # c \/ y.proxy # m.proxy)
  BY <1>1, HeardGone
<1>3. \A d, p : Reached(d, p)' = Reached(d, p)
  BY <1>1 DEF Reached
<1>4. Delivered'
  BY <1>1, <1>3 DEF SendInv, Delivered
<1> DEFINE First == /\ requests' = requests
                    /\ \E x : report' = [report EXCEPT ![c][m.proxy] = x]
                    /\ promise'[c] = "pending" => promise[c] = "pending"
           Second == /\ m.op = "consume" /\ kind[c] = "send"
                     /\ sendInputsToProxies(c,
                          [data[c] EXCEPT ![m.proxy] = Item(m)])
<1>5. First \/ Second
  <2>1. CASE requests' = requests /\ \E x : Learns(m, x)
    BY <1>2, <2>1 DEF Learns, TypeOK
  <2>2. CASE requests' = requests /\ Fails(m)
    BY <1>2, <2>2 DEF Fails, TypeOK
  <2>3. CASE requests' = requests /\ UNCHANGED promise /\ \E x :
               report' = [report EXCEPT ![c][m.proxy] = x]
    BY <2>3
  <2> QED
    BY <2>1, <2>2, <2>3, HearCases
<1>6. \A d \in Calls \ {c} : report'[d] = report[d] /\ promise'[d] = promise[d]
  <2>1. \/ \E x : report' = [report EXCEPT ![c][m.proxy] = x]
        \/ \E x : report' = [report EXCEPT ![c] = x]
    BY HearCases DEF Learns, Fails, sendInputsToProxies
  <2>2. UNCHANGED promise \/ \E x : promise' = [promise EXCEPT ![c] = x]
    BY HearCases DEF Learns, Fails, sendInputsToProxies
  <2> QED
    BY <1>2, <2>1, <2>2 DEF TypeOK
<1>7. \A y \in Msgs' : y \in requests \union replies' \/
        (Second /\ y.call = c /\ y.op = "send")
  BY <1>1, <1>5 DEF Msgs, Ask, sendInputsToProxies
<1>8. Asked'
  BY <1>1, <1>2, <1>5, <1>7 DEF Asked
<1>9. Awaited'
  <2> SUFFICES ASSUME NEW n \in Msgs', n.op = "send",
                      promise'[n.call] = "pending", NEW p \in Proxies
               PROVE  \/ report'[n.call][p] = "waiting"
                      \/ report'[n.call][p] = "done" /\ Reached(n.call, p)
    BY <1>3 DEF Awaited
  <2>1. CASE n.call # c
    <3>1. n \in Msgs /\ n.call \in Calls
      BY <1>2, <1>7, <2>1, MsgTypes
    <3> QED
      BY <1>6, <2>1, <3>1 DEF SendInv, Awaited
  <2>2. CASE n.call = c /\ Second
    <3>1. promise'[c] = IF Known = Proxies THEN "pending" ELSE "rejected"
      BY <1>2, <1>5, <2>2 DEF sendInputsToProxies, TypeOK
    <3>2. report'[c] = [q \in Proxies |->
             IF q \in Known THEN "waiting" ELSE "failed"]
      BY <1>2, <1>5, <2>2 DEF sendInputsToProxies, TypeOK
    <3> QED
      BY <2>2, <3>1, <3>2
  <2>3. CASE n.call = c /\ First /\ ~Second
    <3>1. n \in Msgs /\ Sending(c)
      BY <1>2, <1>7, <2>3 DEF Sending
    <3>2. m.op = "send"
      BY <1>2, <3>1 DEF IInv, Phase
    <3>3. m.ok /\ Learns(m, "done")
      BY <1>2, <2>3, <3>2, HearCases DEF Fails, TypeOK
    <3>4. promise[c] = "pending"
      BY <1>6, <2>3
    <3>5. Reached(c, m.proxy)
      BY <3>2, <3>3 DEF SendInv, Delivered
    <3>6. /\ report'[c][m.proxy] = "done"
          /\ \A q \in Proxies \ {m.proxy} : report'[c][q] = report[c][q]
      BY <1>2, <3>3 DEF Learns, TypeOK
    <3> QED
      BY <2>3, <3>1, <3>4, <3>5, <3>6 DEF SendInv, Awaited
  <2> QED
    BY <1>5, <2>1, <2>2, <2>3
<1>10. ResolvedSendReached'
  <2> SUFFICES ASSUME NEW d \in Calls, kind[d] = "send",
                      promise'[d] = "resolved", NEW p \in Proxies
               PROVE  Reached(d, p)
    BY <1>1 DEF ResolvedSendReached, Reached
  <2>1. CASE promise[d] = "resolved"
    BY <2>1 DEF SendInv, ResolvedSendReached, Reached
  <2>2. CASE promise[d] # "resolved"
    <3>1. d = c
      BY <1>6, <2>2
    <3>2. m.op = "send" /\ IF m.ok THEN Learns(m, "done") ELSE Fails(m)
      <4>1. /\ promise'[c] = "resolved" /\ promise[c] # "resolved"
            /\ kind[c] = "send"
        BY <2>2, <3>1
      <4>2. ~Fails(m) /\ ~UNCHANGED promise
        BY <1>2, <4>1 DEF Fails, TypeOK
      <4>3. ~Second
        BY <1>2, <4>1 DEF sendInputsToProxies, TypeOK
      <4>4. m.op \notin {"connect", "check", "disconnect"}
        BY <1>2, <4>1 DEF Asked
      <4> QED
        BY <4>1, <4>2, <4>3, <4>4, HearCases
    <3>4. m.ok /\ Learns(m, "done")
      BY <1>2, <2>2, <3>1, <3>2 DEF Fails, TypeOK
    <3>3. /\ promise[c] = "pending"
          /\ \A q \in Proxies \ {m.proxy} : report[c][q] # "waiting"
      BY <1>2, <2>2, <3>1, <3>4 DEF Learns, TypeOK
    <3> QED
      BY <1>2, <3>1, <3>2, <3>3, <3>4 DEF SendInv, Awaited, Delivered
  <2> QED
    BY <2>1, <2>2
<1> QED
  BY <1>4, <1>8, <1>9, <1>10 DEF SendInv

LEMMA NextSendInv ==
  TypeOK /\ IInv /\ Asked /\ SendInv /\ [Next]_vars => Asked' /\ SendInv'
<1> SUFFICES ASSUME TypeOK, IInv, Asked, SendInv, [Next]_vars
             PROVE  Asked' /\ SendInv'
  OBVIOUS
<1>1. ASSUME UNCHANGED <<kind, promise, report, requests, replies, got>>
      PROVE  Asked' /\ SendInv'
  BY <1>1 DEF Asked, SendInv, Delivered, Awaited, ResolvedSendReached, Msgs,
    Reached
<1>2. ASSUME NEW p \in Proxies, EngineCloses(p) PROVE Asked' /\ SendInv'
  BY <1>1, <1>2 DEF EngineCloses
<1>3. CASE UNCHANGED vars
  BY <1>1, <1>3 DEF vars
<1> QED
  BY <1>2, <1>3, CallSendInv, HandleSendInv, HearSendInv DEF Next

\* A send that resolves has reached every engine (Promise.all in
\* SpdzApiHelper.js 158-172): however calls overlap, replies are lost or late
\* and connections close.
THEOREM SendReached == Spec => []ResolvedSendReached
<1>1. Spec => [](TypeOK /\ Counted /\ IInv /\ Asked /\ SendInv)
  BY InitType, InitIInv, InitSendInv, NextType, NextIInv, NextSendInv, PTL
  DEF Spec
<1>2. SendInv => ResolvedSendReached
  BY DEF SendInv
<1> QED
  BY <1>1, <1>2, PTL

-----------------------------------------------------------------------------
(* Which ids the client keeps.                                             *)

Changes == {c \in Calls : kind[c] \in {"connect", "disconnect"}}

\* A call that changes the ids waits for all its replies
Lasting == \A m \in Msgs : m.call \in Changes => promise[m.call] = "pending"

\* At most one such call is pending, and it is the latest
OneChange ==
  /\ \A c \in current :
       kind[c] = "connect" /\ current = {c} /\ promise[c] # "unused"
  /\ \A c \in Changes : promise[c] = "pending" =>
       /\ current = {d \in {c} : kind[d] = "connect"}
       /\ \A d \in Changes : promise[d] = "pending" => d = c

IssuedLast ==
  \A m \in replies : m.op = "connect" /\ m.ok =>
    m.id = issued[m.proxy] /\ m.id # NoId

Ids == ~overlapped => OneChange /\ IssuedLast /\ IdsCurrent

\* What a call means for the ids
LEMMA CallChanges ==
  ASSUME TypeOK, NEW c \in Calls, Call(c)
  PROVE  \/ /\ kind'[c] = "connect" /\ promise'[c] = "pending"
            /\ current' = {c} /\ clientIds' = [p \in Proxies |-> NoId]
            /\ \A p \in Proxies : report'[c][p] = "waiting"
            /\ Overlap /\ Moves
         \/ /\ kind'[c] = "disconnect"
            /\ \A p \in Proxies : report'[c][p] = "waiting" =>
                 promise'[c] = "pending"
            /\ current' = {} /\ Overlap /\ UNCHANGED <<clientIds, moved>>
         \/ /\ kind'[c] \notin {"connect", "disconnect"}
            /\ kind'[c] = "send" /\ promise'[c] = "pending" =>
                 Known = Proxies
            /\ kind'[c] = "send" /\ promise'[c] # "pending" =>
                 \E p \in Proxies : report'[c][p] = "failed"
            /\ UNCHANGED <<clientIds, current, overlapped, moved>>
<1>1. CASE connectToSPDZ(c)
  BY <1>1 DEF connectToSPDZ, Start, TypeOK
<1>2. CASE disconnectFromSPDZ(c)
  <2>1. kind'[c] = "disconnect"
    BY <1>2 DEF disconnectFromSPDZ, Start, TypeOK
  <2>2. \A p \in Proxies : report'[c][p] = "waiting" => p \in Known
    BY <1>2 DEF disconnectFromSPDZ, Start, TypeOK
  <2>3. Known # {} => promise'[c] = "pending"
    BY <1>2 DEF disconnectFromSPDZ, PendingIfAny, TypeOK
  <2> QED
    BY <1>2, <2>1, <2>2, <2>3 DEF disconnectFromSPDZ
<1>3. CASE checkProxies(c)
  BY <1>3 DEF checkProxies, Start, TypeOK
<1>4. ASSUME NEW k \in {"send", "retrieve"}, consumeDataFromProxies(c, k)
      PROVE  /\ kind'[c] = k
             /\ promise'[c] = "pending" => Known = Proxies
             /\ promise'[c] # "pending" =>
                  \E p \in Proxies : report'[c][p] = "failed"
             /\ UNCHANGED <<clientIds, current, overlapped, moved>>
  <2>1. /\ kind'[c] = k
        /\ promise'[c] = IF Known = Proxies THEN "pending" ELSE "rejected"
        /\ \A p \in Proxies \ Known : report'[c][p] = "failed"
        /\ UNCHANGED <<clientIds, current, overlapped, moved>>
    BY <1>4 DEF consumeDataFromProxies, Start, TypeOK
  <2>2. Known \subseteq Proxies
    BY DEF Known
  <2> QED
    BY <2>1, <2>2
<1>5. CASE sendInputsWithShares(c) \/ retrieveRegIntsAsHexString(c)
  BY <1>4, <1>5 DEF sendInputsWithShares, retrieveRegIntsAsHexString
<1> QED
  BY <1>1, <1>2, <1>3, <1>5 DEF Call

LEMMA InitIds == Init => Lasting /\ Ids
<1> SUFFICES ASSUME Init PROVE Lasting /\ Ids
  OBVIOUS
<1>1. Msgs = {} /\ replies = {} /\ current = {} /\ Changes = {}
  BY DEF Init, Msgs, Changes
<1> QED
  BY <1>1 DEF Lasting, Ids, OneChange, IssuedLast, IdsCurrent

LEMMA CallIds ==
  ASSUME TypeOK, IInv, Asked, Lasting, Ids, NEW c \in Calls, Call(c)
  PROVE  Lasting' /\ Ids'
<1>1. /\ promise[c] = "unused"
      /\ \A d \in Calls \ {c} : /\ kind'[d] = kind[d]
                                /\ promise'[d] = promise[d]
                                /\ report'[d] = report[d]
      /\ promise'[c] # "unused"
      /\ UNCHANGED <<replies, issued>>
      /\ \A m \in Msgs' : m.call # c => m \in Msgs
      /\ \A m \in Msgs' : m.call = c =>
           m \in requests' /\ report'[c][m.proxy] = "waiting"
      /\ \A m \in Msgs : m.call # c
  BY CallBegins
<1>2. \A d \in Calls \ {c} : d \in Changes' <=> d \in Changes
  BY <1>1 DEF Changes
<1>3. Lasting'
  <2> SUFFICES ASSUME NEW m \in Msgs', m.call \in Changes'
               PROVE  promise'[m.call] = "pending"
    BY DEF Lasting
  <2>1. CASE m.call # c
    <3>1. m \in Msgs /\ m.call \in Calls
      BY <1>1, <2>1, MsgTypes
    <3> QED
      BY <1>1, <1>2, <2>1, <3>1 DEF Lasting
  <2>2. CASE m.call = c
    <3>1. report'[c][m.proxy] = "waiting" /\ m.proxy \in Proxies
      <4>1. CASE m \in Msgs
        BY <1>1, <2>2, <4>1
      <4>2. m \in requests'
        BY <1>1, <2>2
      <4>3. CASE m \notin Msgs
        <5>1. PICK op \in Op \ {"send"}, targets \in SUBSET Proxies :
                \E otherwise \in Report :
                /\ requests' = requests \union Ask(c, op, targets)
                /\ report' = [report EXCEPT ![c] = [p \in Proxies |->
                     IF p \in targets THEN "waiting" ELSE otherwise]]
          BY CallStarts DEF Starts
        <5>2. m \in Ask(c, op, targets)
          BY <4>2, <4>3, <5>1 DEF Msgs
        <5>3. m.proxy \in Proxies
          BY <5>1, <5>2 DEF Ask
        <5> QED
          BY <1>1, <2>2, <5>3
      <4> QED
        BY <4>1, <4>3
    <3> QED
      BY <2>2, <3>1, CallChanges DEF Changes
  <2> QED
    BY <2>1, <2>2
<1>4. ASSUME ~overlapped' PROVE ~overlapped
  BY <1>4, CallChanges DEF Overlap
<1>5. ASSUME ~overlapped, \A d \in Changes : promise[d] # "pending",
             current' \in {{}, {c}}, c \in Changes',
             current' = {d \in {c} : kind'[d] = "connect"}
      PROVE  OneChange'
  BY <1>1, <1>2, <1>5 DEF OneChange, Changes
<1>6. ASSUME Overlap, ~overlapped'
      PROVE  \A d \in Changes : promise[d] # "pending"
  BY <1>6 DEF Overlap, Changes
<1>7. ASSUME ~overlapped' PROVE IssuedLast'
  BY <1>1, <1>4, <1>7 DEF Ids, IssuedLast
<1>8. CASE /\ kind'[c] = "connect"
           /\ current' = {c} /\ clientIds' = [p \in Proxies |-> NoId]
           /\ \A p \in Proxies : report'[c][p] = "waiting"
           /\ Overlap
  <2>1. ASSUME ~overlapped' PROVE OneChange'
    <3>1. c \in Changes'
      BY <1>8 DEF Changes
    <3> QED
      BY <1>4, <1>5, <1>6, <1>8, <2>1, <3>1
  <2>2. IdsCurrent'
    BY <1>8 DEF IdsCurrent
  <2> QED
    BY <1>3, <1>7, <2>1, <2>2 DEF Ids
<1>9. CASE /\ kind'[c] = "disconnect"
           /\ current' = {} /\ Overlap
  <2>1. ASSUME ~overlapped' PROVE OneChange'
    <3>1. c \in Changes' /\ current' = {d \in {c} : kind'[d] = "connect"}
      BY <1>9 DEF Changes
    <3> QED
      BY <1>4, <1>5, <1>6, <1>9, <2>1, <3>1
  <2>2. IdsCurrent'
    BY <1>9 DEF IdsCurrent
  <2> QED
    BY <1>3, <1>7, <2>1, <2>2 DEF Ids
<1>10. CASE /\ kind'[c] \notin {"connect", "disconnect"}
            /\ UNCHANGED <<clientIds, current, overlapped>>
  <2>1. c \notin Changes'
    BY <1>10 DEF Changes
  <2>2. ASSUME ~overlapped
        PROVE  c \notin current /\ OneChange /\ current \subseteq Calls
    BY <1>1, <2>2 DEF Ids, OneChange, TypeOK
  <2>3. ASSUME ~overlapped PROVE OneChange'
    <3>1. \A d \in current' :
            kind'[d] = "connect" /\ current' = {d} /\ promise'[d] # "unused"
      BY <1>1, <1>10, <2>2, <2>3 DEF OneChange
    <3>2. ASSUME NEW d \in Changes', promise'[d] = "pending"
          PROVE  current' = {e \in {d} : kind'[e] = "connect"}
      <4>1. d \in Changes /\ d # c /\ d \in Calls
        BY <1>2, <2>1, <3>2 DEF Changes
      <4>2. current = {e \in {d} : kind[e] = "connect"}
        BY <1>1, <2>2, <2>3, <3>2, <4>1 DEF OneChange
      <4> QED
        BY <1>1, <1>10, <4>1, <4>2
    <3>3. \A d, e \in Changes' :
            promise'[d] = "pending" /\ promise'[e] = "pending" => e = d
      <4>1. \A d \in Changes' : d \in Changes /\ d # c /\ d \in Calls
        BY <1>2, <2>1 DEF Changes
      <4> QED
        BY <1>1, <2>2, <2>3, <4>1 DEF OneChange
    <3> QED
      BY <3>1, <3>2, <3>3 DEF OneChange
  <2>4. ASSUME ~overlapped PROVE IdsCurrent'
    BY <1>1, <1>10, <2>2, <2>4 DEF Ids, IdsCurrent
  <2> QED
    BY <1>3, <1>7, <1>10, <2>3, <2>4 DEF Ids
<1> QED
  BY <1>8, <1>9, <1>10, CallChanges

LEMMA HandleIds ==
  ASSUME TypeOK, IInv, Asked, Lasting, Ids, NEW r \in requests, Handle(r)
  PROVE  Lasting' /\ Ids'
<1>1. PICK m :
    /\ m.call = r.call /\ m.proxy = r.proxy /\ m.op = r.op
    /\ r.op = "connect" /\ m.ok => m.id = issued'[r.proxy] /\ m.id # NoId
    /\ requests' = requests \ {r} /\ replies' = replies \union {m}
    /\ UNCHANGED <<clientIds, kind, promise, report, current, overlapped>>
    /\ \A p \in Proxies : issued'[p] = issued[p] \/
                          (p = r.proxy /\ r.op = "connect")
  BY HandleAnswers
<1>2. r \in Msgs /\ r.call \in Calls /\ r.proxy \in Proxies
  BY MsgTypes DEF Msgs
<1>3. \A n \in Msgs' : \E o \in Msgs :
        o.call = n.call /\ o.proxy = n.proxy /\ o.op = n.op
  BY <1>1, <1>2 DEF Msgs
<1>4. Lasting'
  BY <1>1, <1>3 DEF Lasting, Changes
<1> SUFFICES ASSUME ~overlapped PROVE OneChange' /\ IssuedLast' /\ IdsCurrent'
  BY <1>1, <1>4 DEF Ids
<1>5. OneChange /\ IssuedLast /\ IdsCurrent
  BY DEF Ids
<1>6. OneChange'
  BY <1>1, <1>5 DEF OneChange, Changes
<1>7. r.op = "connect" => /\ r.call \in Changes /\ promise[r.call] = "pending"
                          /\ current = {r.call}
                          /\ report[r.call][r.proxy] = "waiting"
  BY <1>2, <1>5 DEF Asked, Lasting, OneChange, Changes, IInv, Exchange
<1>8. IssuedLast'
  <2> SUFFICES ASSUME NEW n \in replies, n.op = "connect", n.ok
               PROVE  n.id = issued'[n.proxy] /\ n.id # NoId
    BY <1>1 DEF IssuedLast
  <2>1. /\ n \in Msgs /\ n.proxy \in Proxies /\ n.call \in Calls
        /\ n.id = issued[n.proxy] /\ n.id # NoId
    BY <1>5, MsgTypes DEF IssuedLast, Msgs
  <2>2. CASE n.proxy = r.proxy /\ r.op = "connect"
    <3>1. n.call \in Changes /\ promise[n.call] = "pending"
      BY <2>1 DEF Asked, Lasting, Changes
    <3>2. n.call = r.call
      BY <1>5, <1>7, <2>2, <3>1 DEF OneChange
    <3>3. n = r
      BY <1>2, <2>1, <2>2, <3>2 DEF IInv, Exchange
    <3>4. DOMAIN n = {"call", "proxy", "op", "ok", "id", "round"}
      BY DEF TypeOK, Reply
    <3>5. DOMAIN r = {"call", "proxy", "op", "id"}
      BY DEF TypeOK, Request
    <3>6. "ok" \in DOMAIN n
      BY <3>4
    <3> QED
      BY <3>3, <3>5, <3>6
  <2> QED
    BY <1>1, <2>1, <2>2
<1>9. IdsCurrent'
  <2> SUFFICES ASSUME NEW c \in current, NEW p \in Proxies
               PROVE  /\ (clientIds[p] # NoId) <=> (report[c][p] = "Connected")
                      /\ clientIds[p] \in {NoId, issued'[p]}
    BY <1>1 DEF IdsCurrent
  <2>1. /\ (clientIds[p] # NoId) <=> (report[c][p] = "Connected")
        /\ clientIds[p] \in {NoId, issued[p]}
    BY <1>5 DEF IdsCurrent
  <2> QED
    BY <1>1, <1>7, <2>1
<1> QED
  BY <1>6, <1>8, <1>9

\* What the replies of a call do to its reports, and to promises
LEMMA HearReports ==
  ASSUME TypeOK, IInv, Asked, NEW m \in replies, Hear(m)
  PROVE  /\ \A d \in Calls \ {m.call} :
              promise'[d] = promise[d] /\ report'[d] = report[d]
         /\ \A y \in Msgs' :
              \/ /\ y \in Msgs
                 /\ y \in requests \/ y \in replies'
                 /\ y.call # m.call \/ y.proxy # m.proxy
              \/ /\ y \in Ask(m.call, "send", Known) /\ y.op = "send"
                 /\ y.call = m.call /\ m.op = "consume"
                 /\ kind[m.call] = "send"
         /\ m.op \in {"connect", "check", "disconnect"} =>
              \/ /\ promise'[m.call] = "pending"
                 /\ promise[m.call] = "pending"
              \/ /\ promise'[m.call] # "pending"
                 /\ promise[m.call] # "pending" \/
                      \A y \in Msgs' : y.call # m.call
         /\ promise'[m.call] # "unused"
<1> DEFINE c == m.call
<1>1. /\ replies' = replies \ {m}
      /\ UNCHANGED kind
  BY HearCases
<1>2. /\ m \in Msgs /\ c \in Calls /\ m.proxy \in Proxies
      /\ \A y \in requests \union replies' :
           y \in Msgs /\ (y.call # c \/ y.proxy # m.proxy)
  BY <1>1, HeardGone
<1>3. \A d \in Calls \ {c} : promise'[d] = promise[d] /\ report'[d] = report[d]
  <2>1. \/ \E x : report' = [report EXCEPT ![c][m.proxy] = x]
        \/ \E x : report' = [report EXCEPT ![c] = x]
    BY HearCases DEF Learns, Fails, sendInputsToProxies
  <2>2. UNCHANGED promise \/ \E x : promise' = [promise EXCEPT ![c] = x]
    BY HearCases DEF Learns, Fails, sendInputsToProxies
  <2> QED
    BY <1>2, <2>1, <2>2 DEF TypeOK
<1>4. \A y \in Msgs' :
        \/ y \in requests \union replies'
        \/ /\ y \in Ask(c, "send", Known) /\ y.op = "send" /\ y.call = c
           /\ m.op = "consume" /\ kind[c] = "send"
  <2>1. \A y \in Ask(c, "send", Known) : y.op = "send" /\ y.call = c
    BY DEF Ask
  <2>2. CASE requests' = requests
    BY <2>2 DEF Msgs
  <2>3. CASE /\ m.op = "consume" /\ kind[c] = "send"
             /\ requests' = requests \union Ask(c, "send", Known)
    BY <2>1, <2>3 DEF Msgs
  <2> QED
    BY <2>2, <2>3, HearCases DEF sendInputsToProxies
<1>5. ASSUME m.op \in {"connect", "check", "disconnect"}
      PROVE  \/ promise'[c] = "pending" /\ promise[c] = "pending"
             \/ /\ promise'[c] # "pending"
                /\ promise[c] # "pending" \/ \A y \in Msgs' : y.call # c
  <2>1. PICK x : Learns(m, x)
    BY <1>5, HearCases
  <2>2. promise'[c] = IF promise[c] = "pending"
               /\ \A q \in Proxies \ {m.proxy} : report[c][q] # "waiting"
               THEN "resolved" ELSE promise[c]
    BY <1>2, <2>1 DEF Learns, TypeOK
  <2>3. \A y \in Msgs' : y.call = c => /\ report[c][y.proxy] = "waiting"
                                       /\ y.proxy \in Proxies \ {m.proxy}
    BY <1>2, <1>4, <1>5, MsgTypes DEF IInv, Exchange
  <2> QED
    BY <2>2, <2>3
<1>6. promise'[c] # "unused"
  <2>1. promise[c] # "unused"
    BY <1>2 DEF IInv, Exchange
  <2>2. \/ UNCHANGED promise
        \/ \E x \in {promise[c], "pending", "resolved", "rejected"} :
             promise' = [promise EXCEPT ![c] = x]
    BY HearCases DEF Learns, Fails, sendInputsToProxies
  <2> QED
    BY <1>2, <2>1, <2>2 DEF TypeOK
<1> QED
  BY <1>2, <1>3, <1>4, <1>5, <1>6

LEMMA HearIds ==
  ASSUME TypeOK, IInv, Asked, Lasting, Ids, NEW m \in replies, Hear(m)
  PROVE  Lasting' /\ Ids'
<1> DEFINE c == m.call
<1>1. /\ replies' = replies \ {m}
      /\ UNCHANGED <<kind, current, overlapped, issued>>
  BY HearCases
<1>2. /\ m \in Msgs /\ c \in Calls /\ m.proxy \in Proxies
      /\ report[c][m.proxy] = "waiting"
  BY <1>1, HeardGone
<1>3. /\ c \in Changes => m.op \in {"connect", "disconnect"}
      /\ m.op \in {"connect", "disconnect"} =>
           /\ c \in Changes /\ kind[c] = m.op
           /\ promise[c] = "pending"
  BY <1>2 DEF Asked, Changes, Lasting, Op, TypeOK, Reply
<1>4. Lasting'
  <2> SUFFICES ASSUME NEW y \in Msgs', y.call \in Changes
               PROVE  promise'[y.call] = "pending"
    BY <1>1 DEF Lasting, Changes
  <2>1. y \in Msgs
    <3>1. ~(y.call = c /\ kind[c] = "send")
      BY DEF Changes
    <3> QED
      BY <3>1, HearReports
  <2>2. promise[y.call] = "pending"
    BY <2>1 DEF Lasting
  <2>3. CASE y.call = c
    BY <1>3, <2>2, <2>3, HearReports
  <2> QED
    BY <2>1, <2>2, <2>3, HearReports, MsgTypes
<1> SUFFICES ASSUME ~overlapped PROVE OneChange' /\ IssuedLast' /\ IdsCurrent'
  BY <1>1, <1>4 DEF Ids
<1>5. OneChange /\ IssuedLast /\ IdsCurrent
  BY DEF Ids
<1>6. OneChange'
  <2>1. \A d \in Changes : promise'[d] = "pending" => promise[d] = "pending"
    <3>1. \A d \in Changes : d \in Calls
      BY DEF Changes
    <3> QED
      BY <1>3, <3>1, HearReports
  <2>2. \A d \in Calls : promise[d] # "unused" => promise'[d] # "unused"
    BY HearReports
  <2> QED
    BY <1>1, <1>5, <2>1, <2>2 DEF OneChange, Changes, TypeOK
<1>7. IssuedLast'
  BY <1>1, <1>5 DEF IssuedLast
<1>8. CASE OnConnect(m)
  <2>1. current = {c}
    BY <1>3, <1>5, <1>8 DEF OneChange, OnConnect, Take
  <2>2. /\ clientIds[m.proxy] = NoId
        /\ \A p \in Proxies :
             /\ (clientIds[p] # NoId) <=> (report[c][p] = "Connected")
             /\ clientIds[p] \in {NoId, issued[p]}
    BY <1>2, <1>5, <2>1 DEF IdsCurrent
  <2>3. CASE m.ok
    <3>1. /\ clientIds' = [clientIds EXCEPT ![m.proxy] = m.id]
          /\ report' = [report EXCEPT ![c][m.proxy] = "Connected"]
          /\ m.op = "connect"
      BY <1>8, <2>3 DEF OnConnect, Take, Learns
    <3>2. m.id = issued[m.proxy] /\ m.id # NoId
      BY <1>5, <2>3, <3>1 DEF IssuedLast
    <3> QED
      BY <1>1, <1>2, <1>6, <1>7, <2>1, <2>2, <3>1, <3>2
      DEF IdsCurrent, TypeOK
  <2>4. CASE ~m.ok
    <3>1. /\ UNCHANGED clientIds
          /\ report' = [report EXCEPT ![c][m.proxy] = "Failure"]
      BY <1>8, <2>4 DEF OnConnect, Learns
    <3> QED
      BY <1>1, <1>2, <1>6, <1>7, <2>1, <2>2, <3>1 DEF IdsCurrent, TypeOK
  <2> QED
    BY <2>3, <2>4
<1>9. CASE OnDisconnect(m)
  <2>1. current = {}
    BY <1>3, <1>5, <1>9 DEF OneChange, OnDisconnect, Take
  <2> QED
    BY <1>1, <1>6, <1>7, <2>1 DEF IdsCurrent
<1>10. CASE UNCHANGED clientIds /\ m.op # "connect"
  <2>1. c \notin current
    <3>1. c \in current => kind[c] = "connect"
      BY <1>5 DEF OneChange
    <3>2. kind[c] = "connect" => c \in Changes
      BY <1>2 DEF Changes
    <3> QED
      BY <1>3, <1>10, <3>1, <3>2
  <2>2. \A d \in current : report'[d] = report[d]
    BY <2>1, HearReports DEF TypeOK
  <2> QED
    BY <1>1, <1>5, <1>6, <1>7, <1>10, <2>2 DEF IdsCurrent
<1> QED
  BY <1>8, <1>9, <1>10 DEF Hear, OnCheck, OnConsume, OnSend, Take

LEMMA NextIds ==
  TypeOK /\ IInv /\ Asked /\ Lasting /\ Ids /\ [Next]_vars => Lasting' /\ Ids'
<1> SUFFICES ASSUME TypeOK, IInv, Asked, Lasting, Ids, [Next]_vars
             PROVE  Lasting' /\ Ids'
  OBVIOUS
<1>1. ASSUME UNCHANGED <<clientIds, kind, promise, report, requests, replies,
                         issued, current, overlapped>>
      PROVE  Lasting' /\ Ids'
  BY <1>1 DEF Lasting, Ids, OneChange, IssuedLast, IdsCurrent, Changes, Msgs
<1>2. ASSUME NEW p \in Proxies, EngineCloses(p) PROVE Lasting' /\ Ids'
  BY <1>1, <1>2 DEF EngineCloses
<1>3. CASE UNCHANGED vars
  BY <1>1, <1>3 DEF vars
<1> QED
  BY <1>2, <1>3, CallIds, HandleIds, HearIds DEF Next

\* As long as calls that change the ids do not overlap, the client keeps the
\* ids of the connections the latest connectToSPDZ made (SpdzApiAggregate.js
\* 43-80), whatever else goes on and fails.
THEOREM IdsAreCurrent == Spec => []IdsCurrent
<1>1. Spec => [](TypeOK /\ Counted /\ IInv /\ Asked /\ SendInv /\ Lasting
                 /\ Ids)
  BY InitType, InitIInv, InitSendInv, InitIds, NextType, NextIInv, NextSendInv,
    NextIds, PTL DEF Spec
<1>2. Ids => IdsCurrent
  BY DEF Ids, IdsCurrent
<1> QED
  BY <1>1, <1>2, PTL

-----------------------------------------------------------------------------
(* Where inputs go.                                                        *)

\* A call not made has no data, and a send that rejected waits for shares in
\* vain
Fresh ==
  \A c \in Calls : promise[c] = "unused" =>
    \A p \in Proxies : data[c][p] = NoData

Failed ==
  \A m \in Msgs :
    m.op = "consume" /\ kind[m.call] = "send" /\ promise[m.call] # "pending" =>
      \E p \in Proxies : report[m.call][p] = "failed"

Steady(c) == kind[c] = "send" /\ promise[c] = "pending" /\ c \notin moved

\* The ids are still those c began with, or gone
Attached(c) ==
  /\ \A m \in Msgs : m.op # "connect"
  /\ \A m \in Msgs : m.call = c /\ m.op = "consume" =>
       clientIds[m.proxy] \in {NoId, m.id}
  /\ \A p \in Proxies : data[c][p] # NoData =>
       clientIds[p] \in {NoId, data[c][p].id}

Addressed ==
  \A r \in requests : r.op = "send" =>
    r.call \in moved \/ r.id = data[r.call][r.proxy].id

Following ==
  ~overlapped => /\ \A c \in Calls : Steady(c) => Attached(c)
                 /\ Addressed
                 /\ InputsFollowMasks

SendFollows == Fresh /\ Failed /\ Following

LEMMA InitFollows == Init => SendFollows
<1> SUFFICES ASSUME Init PROVE SendFollows
  OBVIOUS
<1>1. Msgs = {} /\ \A c \in Calls : kind[c] = "none"
  BY DEF Init, Msgs
<1> QED
  BY <1>1 DEF Init, SendFollows, Fresh, Failed, Following, Steady, Addressed,
    InputsFollowMasks

LEMMA CallFollows ==
  ASSUME TypeOK, IInv, Asked, Lasting, Ids, SendFollows,
         NEW c \in Calls, Call(c)
  PROVE  SendFollows'
<1>1. /\ promise[c] = "unused" /\ promise'[c] # "unused"
      /\ \A d \in Calls \ {c} : /\ kind'[d] = kind[d]
                                /\ promise'[d] = promise[d]
                                /\ report'[d] = report[d]
      /\ UNCHANGED <<data, got>>
      /\ \A m \in Msgs' : m.call # c => m \in Msgs
      /\ \A m \in Msgs' : m.call = c =>
           /\ m.op = FirstOp(kind'[c])
           /\ m.op = "consume" => m.id = clientIds[m.proxy]
  BY CallBegins
<1>2. \A m \in Msgs' : m.call # c => m \in Msgs /\ m.call \in Calls \ {c}
  BY <1>1, MsgTypes
<1>3. Fresh'
  BY <1>1 DEF SendFollows, Fresh
<1>4. Failed'
  <2> SUFFICES ASSUME NEW m \in Msgs', m.op = "consume",
                      kind'[m.call] = "send", promise'[m.call] # "pending"
               PROVE  \E p \in Proxies : report'[m.call][p] = "failed"
    BY DEF Failed
  <2>1. CASE m.call # c
    BY <1>1, <1>2, <2>1 DEF SendFollows, Failed
  <2>2. CASE m.call = c
    BY <2>2, CallChanges
  <2> QED
    BY <2>1, <2>2
<1>5. Following'
  <2> SUFFICES ASSUME ~overlapped'
               PROVE  /\ \A d \in Calls : Steady(d)' => Attached(d)'
                      /\ Addressed' /\ InputsFollowMasks'
    BY DEF Following
  <2>1. ~overlapped /\ moved \subseteq moved'
    BY CallChanges DEF Overlap, Moves
  <2>2. /\ \A d \in Calls : Steady(d) => Attached(d)
        /\ Addressed /\ InputsFollowMasks
    BY <2>1 DEF SendFollows, Following
  <2>3. ASSUME NEW d \in Calls \ {c}, Steady(d)' PROVE Attached(d)'
    <3>1. Steady(d) /\ kind[d] = "send" /\ promise[d] = "pending"
      BY <1>1, <2>1, <2>3 DEF Steady
    <3>2. kind'[c] # "connect" /\ UNCHANGED clientIds
      BY <2>3, <3>1, CallChanges DEF Moves, Steady
    <3>3. \A m \in Msgs' : m.op # "connect"
      BY <1>1, <1>2, <2>2, <3>1, <3>2 DEF Attached, FirstOp
    <3>4. \A m \in Msgs' : m.call = d => m \in Msgs
      BY <1>1
    <3> QED
      BY <1>1, <2>2, <3>1, <3>2, <3>3, <3>4 DEF Attached
  <2>4. ASSUME Steady(c)' PROVE Attached(c)'
    <3>1. kind'[c] = "send" /\ Known = Proxies /\ UNCHANGED clientIds
      BY <2>4, CallChanges DEF Steady
    <3>2. \A p \in Proxies : data'[c][p] = NoData
      BY <1>1 DEF SendFollows, Fresh
    <3>3. ASSUME NEW m \in Msgs', m.op = "connect" PROVE FALSE
      <4>1. m \in Msgs /\ m.call \in Calls /\ m.proxy \in Proxies
        BY <1>1, <1>2, <3>1, <3>3, MsgTypes DEF FirstOp
      <4>2. kind[m.call] = "connect" /\ promise[m.call] = "pending"
        BY <3>3, <4>1 DEF Asked, Lasting, Changes
      <4>3. m.call \in current
        BY <2>1, <4>1, <4>2 DEF Ids, OneChange, Changes
      <4>4. report[m.call][m.proxy] = "waiting"
        BY <4>1 DEF IInv, Exchange
      <4>5. clientIds[m.proxy] = NoId
        BY <2>1, <4>1, <4>3, <4>4 DEF Ids, IdsCurrent
      <4> QED
        BY <3>1, <4>1, <4>5 DEF Known
    <3> QED
      BY <1>1, <3>1, <3>2, <3>3 DEF Attached
  <2>5. Addressed'
    <3>1. PICK op \in Op \ {"send"}, targets \in SUBSET Proxies :
            \E otherwise \in Report :
            /\ requests' = requests \union Ask(c, op, targets)
            /\ report' = [report EXCEPT ![c] = [p \in Proxies |->
                 IF p \in targets THEN "waiting" ELSE otherwise]]
      BY CallStarts DEF Starts
    <3>2. \A r \in Ask(c, op, targets) : r.op # "send"
      BY DEF Ask
    <3> QED
      BY <1>1, <2>1, <2>2, <3>1, <3>2 DEF Addressed
  <2>6. InputsFollowMasks'
    BY <1>1, <2>1, <2>2 DEF InputsFollowMasks
  <2> QED
    BY <2>3, <2>4, <2>5, <2>6
<1> QED
  BY <1>3, <1>4, <1>5 DEF SendFollows

LEMMA HandleFollows ==
  ASSUME TypeOK, IInv, SendFollows, NEW r \in requests, Handle(r)
  PROVE  SendFollows'
<1>1. PICK m :
    /\ m.call = r.call /\ m.proxy = r.proxy /\ m.op = r.op
    /\ r.op # "connect" => m.id = r.id
    /\ requests' = requests \ {r} /\ replies' = replies \union {m}
    /\ UNCHANGED <<clientIds, kind, promise, report, data, overlapped, moved>>
    /\ \A p \in Proxies : \A x \in got'[p] : x \in got[p] \/
         /\ r.op = "send" /\ p = r.proxy /\ x.call = r.call
         /\ x.id = r.id /\ x.mask = data[r.call][p]
  BY HandleAnswers
<1>2. \A n \in Msgs' : \E o \in Msgs :
        /\ o.call = n.call /\ o.proxy = n.proxy /\ o.op = n.op
        /\ n.op # "connect" => o.id = n.id
  BY <1>1 DEF Msgs
<1>3. Fresh' /\ Failed'
  BY <1>1, <1>2 DEF SendFollows, Fresh, Failed
<1>4. Following'
  <2> SUFFICES ASSUME ~overlapped
               PROVE  /\ \A d \in Calls : Steady(d)' => Attached(d)'
                      /\ Addressed' /\ InputsFollowMasks'
    BY <1>1 DEF Following
  <2>1. /\ \A d \in Calls : Steady(d) => Attached(d)
        /\ Addressed /\ InputsFollowMasks
    BY DEF SendFollows, Following
  <2>2. ASSUME NEW d \in Calls, Steady(d)' PROVE Attached(d)'
    <3>1. Attached(d)
      BY <1>1, <2>1, <2>2 DEF Steady
    <3>2. \A n \in Msgs' : n.op # "connect"
      BY <1>2, <3>1 DEF Attached
    <3>3. \A n \in Msgs' : n.call = d /\ n.op = "consume" =>
            clientIds[n.proxy] \in {NoId, n.id}
      BY <1>2, <3>1 DEF Attached
    <3> QED
      BY <1>1, <3>1, <3>2, <3>3 DEF Attached
  <2>3. Addressed'
    BY <1>1, <2>1 DEF Addressed
  <2>4. InputsFollowMasks'
    BY <1>1, <2>1 DEF Addressed, InputsFollowMasks
  <2> QED
    BY <2>2, <2>3, <2>4
<1> QED
  BY <1>3, <1>4 DEF SendFollows

LEMMA HearFollows ==
  ASSUME TypeOK, IInv, Asked, SendFollows, NEW m \in replies, Hear(m)
  PROVE  SendFollows'
<1> DEFINE c == m.call
           items == [data[c] EXCEPT ![m.proxy] = Item(m)]
<1>1. /\ replies' = replies \ {m}
      /\ UNCHANGED <<kind, overlapped, moved, got>>
  BY HearCases
<1>2. /\ m \in Msgs /\ c \in Calls /\ m.proxy \in Proxies
      /\ report[c][m.proxy] = "waiting"
  BY <1>1, HeardGone
<1>3. UNCHANGED data \/ (m.op = "consume" /\ data' = [data EXCEPT ![c] = items])
  BY HearCases DEF Took, sendInputsToProxies
<1>4. \A d \in Calls, p \in Proxies : data'[d][p] = data[d][p] \/
        (d = c /\ p = m.proxy /\ m.op = "consume" /\ data'[d][p] = Item(m))
  BY <1>2, <1>3 DEF TypeOK
<1> DEFINE Second == /\ m.op = "consume" /\ kind[c] = "send"
                     /\ UNCHANGED clientIds
                     /\ sendInputsToProxies(c, items)
                     /\ \A q \in Proxies \ {m.proxy} : report[c][q] = "done"
           First == /\ UNCHANGED requests
                    /\ promise'[c] = "pending" => promise[c] = "pending"
<1>5. First \/ Second
  <2>1. CASE requests' = requests /\ \E x : Learns(m, x)
    BY <1>2, <2>1 DEF Learns, TypeOK
  <2>2. CASE requests' = requests /\ Fails(m)
    BY <1>2, <2>2 DEF Fails, TypeOK
  <2> QED
    BY <2>1, <2>2, HearCases
<1>6. Second => promise[c] = "pending"
  <2> SUFFICES ASSUME Second, promise[c] # "pending" PROVE FALSE
    OBVIOUS
  <2>1. PICK p \in Proxies : report[c][p] = "failed"
    BY <1>2 DEF SendFollows, Failed
  <2> QED
    BY <1>2, <2>1
<1>7. \A d \in Calls : Steady(d)' => Steady(d)
  BY <1>1, <1>5, <1>6, HearReports DEF Steady
<1>8. \A y \in Msgs' :
        \/ y \in Msgs /\ (y.call # c \/ y.proxy # m.proxy)
        \/ y \in Ask(c, "send", Known) /\ y.op = "send" /\ y.call = c
  BY HearReports
<1>9. Fresh'
  <2> SUFFICES ASSUME NEW d \in Calls, promise'[d] = "unused",
                      NEW p \in Proxies
               PROVE  data'[d][p] = NoData
    BY DEF Fresh
  <2>1. d # c /\ promise[d] = "unused"
    BY HearReports
  <2> QED
    BY <1>4, <2>1 DEF SendFollows, Fresh
<1>10. Failed'
  <2> SUFFICES ASSUME NEW y \in Msgs', y.op = "consume",
                      kind[y.call] = "send", promise'[y.call] # "pending"
               PROVE  \E p \in Proxies : report'[y.call][p] = "failed"
    BY <1>1 DEF Failed
  <2>1. y \in Msgs /\ (y.call # c \/ y.proxy # m.proxy)
    BY <1>8
  <2>2. y.call \in Calls /\ y.proxy \in Proxies
    BY <2>1, MsgTypes
  <2>3. CASE y.call # c
    BY <2>1, <2>2, <2>3, HearReports DEF SendFollows, Failed
  <2>4. CASE y.call = c
    <3>1. m.op = "consume"
      <4>1. m.op # "send"
        BY <1>2, <2>1, <2>4 DEF IInv, Phase, Sending
      <4> QED
        BY <1>2, <2>4, <4>1 DEF Asked, Op, TypeOK, Reply
    <3>2. report[c][y.proxy] = "waiting" /\ y.proxy # m.proxy
      BY <2>1, <2>4 DEF IInv, Exchange
    <3>3. CASE Fails(m)
      BY <1>2, <2>4, <3>3 DEF Fails, TypeOK
    <3>4. CASE UNCHANGED promise /\ \E x :
                 report' = [report EXCEPT ![c][m.proxy] = x]
      <4>1. PICK p \in Proxies : report[c][p] = "failed"
        BY <2>1, <2>4, <3>4 DEF SendFollows, Failed
      <4>2. p # m.proxy
        BY <1>2, <4>1
      <4>3. report'[c][p] = "failed"
        BY <1>2, <3>4, <4>1, <4>2 DEF TypeOK
      <4> QED
        BY <2>4, <4>3
    <3> QED
      BY <2>2, <2>4, <3>1, <3>2, <3>3, <3>4, HearCases
  <2> QED
    BY <2>3, <2>4
<1>11. Following'
  <2> SUFFICES ASSUME ~overlapped
               PROVE  /\ \A d \in Calls : Steady(d)' => Attached(d)'
                      /\ Addressed' /\ InputsFollowMasks'
    BY <1>1 DEF Following
  <2>1. /\ \A d \in Calls : Steady(d) => Attached(d)
        /\ Addressed /\ InputsFollowMasks
    BY DEF SendFollows, Following
  <2>2. ASSUME NEW d \in Calls, Steady(d) PROVE Attached(d)'
    <3>1. Attached(d)
      BY <2>1, <2>2
    <3>2. \A p \in Proxies : clientIds'[p] \in {NoId, clientIds[p]}
      <4>1. m.op # "connect"
        BY <1>2, <3>1 DEF Attached
      <4> QED
        BY <4>1, <1>2 DEF Hear, OnConnect, OnCheck, OnDisconnect, OnConsume,
          OnSend, Take, TypeOK
    <3>3. \A y \in Msgs' : y.op # "connect"
      BY <1>8, <3>1 DEF Attached
    <3>4. \A y \in Msgs' : y.call = d /\ y.op = "consume" =>
            clientIds'[y.proxy] \in {NoId, y.id}
      BY <1>8, <3>1, <3>2, MsgTypes DEF Attached
    <3>5. \A p \in Proxies : data'[d][p] # NoData =>
            clientIds'[p] \in {NoId, data'[d][p].id}
      <4> SUFFICES ASSUME NEW p \in Proxies, data'[d][p] # NoData
                   PROVE  clientIds[p] \in {NoId, data'[d][p].id}
        BY <3>2
      <4>1. CASE data'[d][p] = data[d][p]
        BY <3>1, <4>1 DEF Attached
      <4>2. CASE /\ d = c /\ p = m.proxy /\ m.op = "consume"
                 /\ data'[d][p] = Item(m)
        BY <1>2, <3>1, <4>2 DEF Attached, Item
      <4> QED
        BY <1>4, <4>1, <4>2
    <3> QED
      BY <3>3, <3>4, <3>5 DEF Attached
  <2>3. Addressed'
    <3> SUFFICES ASSUME NEW r \in requests', r.op = "send",
                        r.call \notin moved
                 PROVE  r.id = data'[r.call][r.proxy].id
      BY <1>1 DEF Addressed
    <3>1. CASE r \in requests
      <4>1. r \in Msgs /\ r.call \in Calls /\ r.proxy \in Proxies
        BY <3>1, MsgTypes DEF Msgs
      <4>2. ~(r.call = c /\ m.op = "consume")
        BY <1>2, <4>1 DEF IInv, Phase, Sending
      <4>3. data'[r.call][r.proxy] = data[r.call][r.proxy]
        BY <1>4, <4>1, <4>2
      <4> QED
        BY <2>1, <3>1, <4>3 DEF Addressed
    <3>2. CASE r \notin requests
      <4>1. Second /\ r \in Ask(c, "send", Known)
        BY <1>5, <3>2 DEF sendInputsToProxies
      <4>2. /\ r.call = c /\ r.proxy \in Known /\ r.proxy \in Proxies
            /\ r.id = clientIds[r.proxy] /\ r.id # NoId
        BY <4>1 DEF Ask, Known
      <4>3. Attached(c)'
        BY <1>2, <1>6, <2>2, <3>2, <4>1, <4>2 DEF Steady
      <4>4. data'[c][r.proxy] # NoData
        <5>1. IInv'
          BY HearIInv
        <5>2. r \in Msgs'
          BY DEF Msgs
        <5> QED
          BY <1>2, <4>2, <5>1, <5>2 DEF IInv, Phase, Sending
      <4> QED
        BY <4>1, <4>2, <4>3, <4>4 DEF Attached
    <3> QED
      BY <3>1, <3>2
  <2>4. InputsFollowMasks'
    BY <1>1, <2>1 DEF InputsFollowMasks
  <2> QED
    BY <1>7, <2>2, <2>3, <2>4
<1> QED
  BY <1>9, <1>10, <1>11 DEF SendFollows

LEMMA NextFollows ==
  /\ TypeOK /\ IInv /\ Asked /\ Lasting /\ Ids /\ SendFollows
  /\ [Next]_vars
  => SendFollows'
<1> SUFFICES ASSUME TypeOK, IInv, Asked, Lasting, Ids, SendFollows, [Next]_vars
             PROVE  SendFollows'
  OBVIOUS
<1>1. ASSUME UNCHANGED <<clientIds, kind, promise, report, data, requests,
                         replies, got, overlapped, moved>>
      PROVE  SendFollows'
  <2>1. Fresh' /\ Failed'
    BY <1>1 DEF SendFollows, Fresh, Failed, Msgs
  <2>2. Following'
    BY <1>1 DEF SendFollows, Following, Steady, Attached, Addressed,
      InputsFollowMasks, Msgs
  <2> QED
    BY <2>1, <2>2 DEF SendFollows
<1>2. ASSUME NEW p \in Proxies, EngineCloses(p) PROVE SendFollows'
  BY <1>1, <1>2 DEF EngineCloses
<1>3. CASE UNCHANGED vars
  BY <1>1, <1>3 DEF vars
<1> QED
  BY <1>2, <1>3, CallFollows, HandleFollows, HearFollows DEF Next

\* An input goes to the connection its mask came from, unless the client
\* reconnects during the send, although the ids are read twice
\* (SpdzApiAggregate.js 236 and 280), as long as calls that change them do
\* not overlap.
THEOREM FollowMasks == Spec => []InputsFollowMasks
<1>1. Spec => [](/\ TypeOK /\ Counted /\ IInv /\ Asked /\ SendInv /\ Lasting
                 /\ Ids /\ SendFollows)
  BY InitType, InitIInv, InitSendInv, InitIds, InitFollows, NextType, NextIInv,
    NextSendInv, NextIds, NextFollows, PTL DEF Spec
<1>2. SendFollows => InputsFollowMasks
  BY DEF SendFollows, Following, InputsFollowMasks
<1> QED
  BY <1>1, <1>2, PTL
=============================================================================
