-------------------------- MODULE SendInputsProofs --------------------------
(***************************************************************************)
(* Proofs about SendInputs, for any set of proxies and any bounds.         *)
(*                                                                         *)
(* Why sending implements MaskedInputs: share messages queue up for each   *)
(* proxy on the wire, in the zip, as joined share lists and as masks used, *)
(* and only ever move up that line or leave it (RoundsInLine); so do       *)
(* inputs on their side (SendsInLine).  What goes out is therefore later   *)
(* than all before it.  What an engine has got is a prefix of what went    *)
(* out, and the rest is on its wire in order (Deliveries).                 *)
(*                                                                         *)
(* Why masks stay aligned: with rounds and inputs of one size and nothing  *)
(* lost, no round leaves the line but at its front, so that none is        *)
(* missing in it (Whole) and the engines count what the client counts      *)
(* (Counts).                                                               *)
(*                                                                         *)
(* Why none is stranded: a response that is not the last to join leaves a  *)
(* copy in its proxy's queue of the zip, where it stays until all promises *)
(* settle (Lively).  One queue is empty, so at that proxy the message of a *)
(* pending send or its response is still to come.                          *)
(***************************************************************************)
EXTENDS SendInputs, SequenceTheorems, TLAPS

\* Numbers waiting in line.  A line is four queues, one behind the other: what
\* has left (a), and what waits in three stages (b, c, d).  Read from a to d it
\* ascends, and nothing in it exceeds the last number given out.
Ascends(s) == \A i, j \in 1..Len(s) : i < j => s[i] < s[j]
Before(s, t) == \A i \in 1..Len(s), j \in 1..Len(t) : s[i] < t[j]
UpTo(s, n) == \A i \in 1..Len(s) : s[i] <= n

Line(a, b, c, d, n) ==
  /\ Ascends(a) /\ Ascends(b) /\ Ascends(c) /\ Ascends(d)
  /\ Before(a, b) /\ Before(a, c) /\ Before(a, d)
  /\ Before(b, c) /\ Before(b, d) /\ Before(c, d)
  /\ UpTo(a, n) /\ UpTo(b, n) /\ UpTo(c, n) /\ UpTo(d, n)

\* The numbers that a function, and two fields, give for a sequence
Numbers(s, f) == [i \in 1..Len(s) |-> f[s[i]]]
rounds(s) == [i \in 1..Len(s) |-> s[i].round]
sends(s) == [i \in 1..Len(s) |-> s[i].send]

\* For each proxy, rounds stay in line from the engine to the masked inputs
RoundsInLine ==
  \A p \in Proxies :
    Line(rounds(sent), shareLists, rounds(shareZip[p]), rounds(shares[p]),
         produced[p])

\* So do inputs, from the call to the masked inputs
SendsInLine == Line(sends(sent), sends(inputs), <<>>, <<>>, calls)

\* An engine has got g, a prefix of the masked inputs s; the rest, and clear
\* inputs besides, are on the wire w in order
Delivery(g, w, s) ==
  /\ Len(g) <= Len(s)
  /\ \A i \in 1..Len(g) : g[i] = s[i]
  /\ \A i \in 1..Len(w) : w[i].round # 0 =>
       \E k \in (Len(g) + 1)..Len(s) : w[i] = s[k]
  /\ \A k \in (Len(g) + 1)..Len(s) : \E i \in 1..Len(w) : w[i] = s[k]
  /\ \A i, j \in 1..Len(w) :
       i < j /\ w[i].round # 0 /\ w[j].round # 0 => w[i].send < w[j].send

Deliveries == \A p \in Proxies : Delivery(got[p], wire[p], sent)

IInv == TypeOK /\ ZipsDrained /\ RoundsInLine /\ SendsInLine /\ Deliveries

-----------------------------------------------------------------------------
(* Types.                                                                  *)

\* A promise that settles stays a promise
LEMMA SettledType ==
  ASSUME NEW state \in [Sends -> Promise], NEW waiting \in SUBSET Sends,
         NEW outcome \in {"resolved", "rejected"}
  PROVE  settled(state, waiting, outcome) \in [Sends -> Promise]
BY DEF settled, Promise

\* An error keeps the types of the promises
LEMMA FailType ==
  ASSUME TypeOK, Fail
  PROVE  /\ promise' \in [Sends -> Promise]
         /\ listening' \in SUBSET Sends
BY SettledType DEF TypeOK, Fail

\* What goes out has the type of a sendData message
LEMMA EmitType ==
  ASSUME TypeOK, NEW msg \in DataMsg, Emit(msg)
  PROVE  wire' \in [Proxies -> Seq(DataMsg)]
BY AppendProperties DEF TypeOK, Emit

\* Pairing an input with a round keeps the types of all it changes
LEMMA PairType ==
  ASSUME TypeOK, NEW input \in Input, NEW round \in Rounds,
         NEW state \in [Sends -> Promise], NEW waiting \in SUBSET Sends,
         NEW afterThrow \in [Sends -> Promise],
         Pair(input, round, state, waiting, afterThrow)
  PROVE  /\ wire' \in [Proxies -> Seq(DataMsg)]
         /\ sent' \in Seq(Masked)
         /\ thrown' \in SUBSET Sends
         /\ promise' \in [Sends -> Promise]
         /\ listening' \in SUBSET Sends
<1> DEFINE masked == [send |-> input.send, round |-> round]
<1>0. /\ wire \in [Proxies -> Seq(DataMsg)] /\ sent \in Seq(Masked)
      /\ thrown \in SUBSET Sends
  BY DEF TypeOK
<1>1. masked \in Masked /\ masked \in DataMsg /\ input.send \in Sends
  BY DEF Masked, DataMsg, Input
<1>2. CASE /\ Emit(masked) /\ sent' = Append(sent, masked)
           /\ promise' = state /\ listening' = waiting /\ thrown' = thrown
  <2>1. sent' \in Seq(Masked)
    BY <1>0, <1>1, <1>2, AppendProperties
  <2> QED
    BY <1>0, <1>1, <1>2, <2>1, EmitType
<1>3. CASE /\ thrown' = thrown \union {input.send}
           /\ promise' = afterThrow /\ listening' = waiting
           /\ UNCHANGED <<wire, sent>>
  BY <1>0, <1>1, <1>3
<1>4. CASE /\ promise' = settled(state, waiting, "rejected")
           /\ listening' = {}
           /\ UNCHANGED <<wire, sent, thrown>>
  <2>1. promise' \in [Sends -> Promise]
    BY <1>4, SettledType
  <2> QED
    BY <1>0, <1>4, <2>1
<1> QED
  BY <1>2, <1>3, <1>4 DEF Pair

\* Joining keeps the types of the queues, and what it takes has theirs
LEMMA JoinType ==
  ASSUME NEW S, NEW zip \in [Proxies -> Seq(S)], NEW p \in Proxies,
         NEW msg \in S, Joins(zip, p)
  PROVE  /\ taken(zip, p, msg) \in [Proxies -> Seq(S)]
         /\ heads(zip, p, msg) \in [Proxies -> S]
<1> DEFINE line(q) == IF q = p THEN Append(zip[q], msg) ELSE zip[q]
<1>1. ASSUME NEW q \in Proxies PROVE line(q) \in Seq(S) /\ line(q) # <<>>
  <2>1. Append(zip[p], msg) \in Seq(S) /\ Append(zip[p], msg) # <<>>
    BY AppendProperties
  <2> QED
    BY <2>1 DEF Joins
<1>2. ASSUME NEW q \in Proxies
      PROVE  Tail(line(q)) \in Seq(S) /\ Head(line(q)) \in S
  BY <1>1, HeadTailProperties
<1> QED
  BY <1>2 DEF taken, heads

\* Copies of a response are a sequence of responses
LEMMA CopiesType ==
  ASSUME NEW a \in Ack, NEW n \in Nat
  PROVE  copies(a, n) \in Seq(Ack)
BY DEF copies

\* A joined share list keeps the types of all it changes
LEMMA ShareListType ==
  ASSUME TypeOK, NEW round \in Rounds, ShareList(round)
  PROVE  /\ shareLists' \in Seq(Rounds)
         /\ inputs' \in Seq(Input)
         /\ wire' \in [Proxies -> Seq(DataMsg)]
         /\ sent' \in Seq(Masked)
         /\ thrown' \in SUBSET Sends
         /\ promise' \in [Sends -> Promise]
         /\ listening' \in SUBSET Sends
<1>1. CASE inputs = <<>>
  <2>1. /\ shareLists' = Append(shareLists, round)
        /\ UNCHANGED <<inputs, promise, listening, wire, sent, thrown>>
    BY <1>1 DEF ShareList
  <2>2. shareLists' \in Seq(Rounds)
    BY <2>1, AppendProperties DEF TypeOK
  <2> QED
    BY <2>1, <2>2 DEF TypeOK
<1>2. CASE inputs # <<>>
  <2>1. Head(inputs) \in Input /\ Tail(inputs) \in Seq(Input)
    BY <1>2, HeadTailProperties DEF TypeOK
  <2> QED
    BY <1>2, <2>1, PairType DEF TypeOK, ShareList
<1> QED
  BY <1>1, <1>2

\* Every state of a behaviour has the right type
LEMMA InitType == Init => TypeOK
<1> SUFFICES ASSUME Init PROVE TypeOK
  OBVIOUS
<1>1. calls \in 0..MaxSends
  BY BoundsAssumption DEF Init
<1>2. produced \in [Proxies -> 0..MaxRounds]
  BY BoundsAssumption DEF Init
<1>3. promise \in [Sends -> Promise]
  BY DEF Init, Promise
<1>4. /\ inputs \in Seq(Input) /\ shareLists \in Seq(Rounds)
      /\ sent \in Seq(Masked)
  BY DEF Init
<1>5. /\ shareZip \in [Proxies -> Seq(ShareMsg)]
      /\ ackZip \in [Proxies -> Seq(Ack)]
      /\ shares \in [Proxies -> Seq(ShareMsg)]
      /\ wire \in [Proxies -> Seq(DataMsg)]
      /\ acks \in [Proxies -> Seq(Ack)]
      /\ got \in [Proxies -> Seq(Masked)]
  BY DEF Init
<1> QED
  BY <1>1, <1>2, <1>3, <1>4, <1>5 DEF Init, TypeOK

\* Every step keeps the types
LEMMA NextType == TypeOK /\ [Next]_vars => TypeOK'
<1> SUFFICES ASSUME TypeOK, [Next]_vars PROVE TypeOK'
  OBVIOUS
<1>1. ASSUME NEW s \in Sends, Call(s)
      PROVE  calls' \in 0..MaxSends /\ handlers' \in Nat
  BY <1>1, BoundsAssumption DEF Call, handlersAfter, Sends, TypeOK
<1>2. ASSUME NEW s \in Sends, SendRefused(s) PROVE TypeOK'
  <2>1. promise' \in [Sends -> Promise] /\ listening' \in SUBSET Sends
    BY <1>2 DEF SendRefused, TypeOK, Promise
  <2> QED
    BY <1>1, <1>2, <2>1 DEF SendRefused, engines, TypeOK
<1>3. ASSUME NEW s \in Sends, SendClear(s) PROVE TypeOK'
  <2>1. promise' \in [Sends -> Promise] /\ listening' \in SUBSET Sends
    BY <1>3 DEF SendClear, TypeOK, Promise
  <2>2. [send |-> s, round |-> 0] \in DataMsg
    BY DEF DataMsg
  <2>3. wire' \in [Proxies -> Seq(DataMsg)]
    BY <1>3, <2>2, EmitType DEF SendClear
  <2>4. calls' \in 0..MaxSends /\ handlers' \in Nat
    BY <1>1, <1>3 DEF SendClear
  <2> QED
    BY <1>3, <2>1, <2>3, <2>4 DEF SendClear, TypeOK
<1>4. ASSUME NEW s \in Sends, NEW size \in Sizes, SendSecret(s, size)
      PROVE  TypeOK'
  <2> DEFINE input == [send |-> s, size |-> size]
             state == [promise EXCEPT ![s] = "pending"]
             waiting == listening \union {s}
             afterThrow == [state EXCEPT ![s] = "rejected"]
  <2>1. /\ input \in Input
        /\ state \in [Sends -> Promise]
        /\ waiting \in SUBSET Sends
        /\ afterThrow \in [Sends -> Promise]
    BY DEF Input, TypeOK, Promise
  <2>2. /\ inputs' \in Seq(Input) /\ shareLists' \in Seq(Rounds)
        /\ wire' \in [Proxies -> Seq(DataMsg)] /\ sent' \in Seq(Masked)
        /\ promise' \in [Sends -> Promise] /\ listening' \in SUBSET Sends
        /\ thrown' \in SUBSET Sends
    <3>1. CASE shareLists = <<>>
      <4>1. /\ inputs' = Append(inputs, input)
            /\ promise' = state /\ listening' = waiting
            /\ UNCHANGED <<wire, sent, thrown, shareLists>>
        BY <1>4, <3>1 DEF SendSecret
      <4>2. inputs' \in Seq(Input)
        BY <2>1, <4>1, AppendProperties DEF TypeOK
      <4> QED
        BY <2>1, <4>1, <4>2 DEF TypeOK
    <3>2. CASE shareLists # <<>>
      <4>1. /\ Pair(input, Head(shareLists), state, waiting, afterThrow)
            /\ shareLists' = Tail(shareLists)
            /\ inputs' = inputs
        BY <1>4, <3>2 DEF SendSecret
      <4>2. Head(shareLists) \in Rounds /\ Tail(shareLists) \in Seq(Rounds)
        BY <3>2, HeadTailProperties DEF TypeOK
      <4>3. inputs \in Seq(Input)
        BY DEF TypeOK
      <4> HIDE DEF input, state, waiting, afterThrow
      <4> QED
        BY <2>1, <4>1, <4>2, <4>3, PairType
    <3> QED
      BY <3>1, <3>2
  <2>3. calls' \in 0..MaxSends /\ handlers' \in Nat
    BY <1>1, <1>4 DEF SendSecret
  <2> QED
    BY <1>4, <2>2, <2>3 DEF SendSecret, TypeOK
<1>5. ASSUME NEW p \in Proxies, DeliverShare(p) PROVE TypeOK'
  <2> DEFINE msg == Head(shares[p])
  <2>1. msg \in ShareMsg /\ Tail(shares[p]) \in Seq(ShareMsg)
    BY <1>5, HeadTailProperties DEF DeliverShare, TypeOK
  <2>2. shares' \in [Proxies -> Seq(ShareMsg)]
    BY <1>5, <2>1 DEF DeliverShare, TypeOK
  <2>3. /\ shareZip' \in [Proxies -> Seq(ShareMsg)]
        /\ inputs' \in Seq(Input) /\ shareLists' \in Seq(Rounds)
        /\ wire' \in [Proxies -> Seq(DataMsg)] /\ sent' \in Seq(Masked)
        /\ promise' \in [Sends -> Promise] /\ listening' \in SUBSET Sends
        /\ thrown' \in SUBSET Sends
    <3>0. /\ shareZip \in [Proxies -> Seq(ShareMsg)]
          /\ inputs \in Seq(Input) /\ shareLists \in Seq(Rounds)
          /\ wire \in [Proxies -> Seq(DataMsg)] /\ sent \in Seq(Masked)
          /\ promise \in [Sends -> Promise] /\ listening \in SUBSET Sends
          /\ thrown \in SUBSET Sends
      BY DEF TypeOK
    <3>1. CASE msg.state = "corrupt"
      BY <1>5, <3>0, <3>1, FailType DEF DeliverShare
    <3>2. CASE msg.state # "corrupt" /\ ~Joins(shareZip, p)
      <4>1. shareZip' = [shareZip EXCEPT ![p] = Append(@, msg)]
            /\ UNCHANGED <<inputs, shareLists, wire, sent, thrown, promise,
                           listening>>
        BY <1>5, <3>2 DEF DeliverShare
      <4>2. Append(shareZip[p], msg) \in Seq(ShareMsg)
        BY <2>1, <3>0, AppendProperties
      <4> QED
        BY <3>0, <4>1, <4>2
    <3>3. CASE msg.state # "corrupt" /\ Joins(shareZip, p)
      <4> DEFINE msgs == heads(shareZip, p, msg)
      <4>1. /\ shareZip' = taken(shareZip, p, msg)
            /\ IF valid(msgs)
                 THEN ShareList(msgs[p].round)
                 ELSE /\ Fail
                      /\ UNCHANGED <<inputs, shareLists, wire, sent, thrown>>
        BY <1>5, <3>3 DEF DeliverShare
      <4>2. /\ shareZip' \in [Proxies -> Seq(ShareMsg)]
            /\ msgs \in [Proxies -> ShareMsg]
        BY <2>1, <3>0, <3>3, <4>1, JoinType
      <4>3. msgs[p].round \in Rounds
        BY <4>2 DEF ShareMsg
      <4> HIDE DEF msgs
      <4> QED
        BY <3>0, <4>1, <4>2, <4>3, ShareListType, FailType
    <3> QED
      BY <3>1, <3>2, <3>3
  <2> QED
    BY <1>5, <2>2, <2>3 DEF DeliverShare, TypeOK
<1>6. ASSUME NEW p \in Proxies, DeliverAck(p) PROVE TypeOK'
  <2> DEFINE a == Head(acks[p])
  <2>1. a \in Ack /\ Tail(acks[p]) \in Seq(Ack)
    BY <1>6, HeadTailProperties DEF DeliverAck, TypeOK
  <2>2. acks' \in [Proxies -> Seq(Ack)]
    BY <1>6, <2>1 DEF DeliverAck, TypeOK
  <2>3. /\ ackZip' \in [Proxies -> Seq(Ack)]
        /\ promise' \in [Sends -> Promise] /\ listening' \in SUBSET Sends
    <3>0. /\ ackZip \in [Proxies -> Seq(Ack)] /\ handlers \in Nat
          /\ promise \in [Sends -> Promise] /\ listening \in SUBSET Sends
      BY DEF TypeOK
    <3>1. CASE listening = {}
      BY <1>6, <3>0, <3>1 DEF DeliverAck
    <3>2. CASE listening # {} /\ ~Joins(ackZip, p)
      <4>1. /\ ackZip' = [ackZip EXCEPT ![p] = @ \o copies(a, handlers)]
            /\ UNCHANGED <<promise, listening>>
        BY <1>6, <3>2 DEF DeliverAck
      <4>2. ackZip[p] \o copies(a, handlers) \in Seq(Ack)
        BY <2>1, <3>0, CopiesType, ConcatProperties
      <4> QED
        BY <3>0, <4>1, <4>2
    <3>3. CASE listening # {} /\ Joins(ackZip, p)
      <4>1. PICK outcome \in {"resolved", "rejected"} :
              promise' = settled(promise, listening, outcome)
        BY <1>6, <3>3 DEF DeliverAck
      <4>2. ackZip' = taken(ackZip, p, a) /\ listening' = {}
        BY <1>6, <3>3 DEF DeliverAck
      <4>3. ackZip' \in [Proxies -> Seq(Ack)]
        BY <2>1, <3>0, <3>3, <4>2, JoinType
      <4> QED
        BY <3>0, <4>1, <4>2, <4>3, SettledType
    <3> QED
      BY <3>1, <3>2, <3>3
  <2> QED
    BY <1>6, <2>2, <2>3 DEF DeliverAck, TypeOK
<1>7. ASSUME NEW p \in Proxies, EngineShares(p) PROVE TypeOK'
  <2> DEFINE round == produced[p] + 1
  <2>1. round \in Rounds /\ produced' \in [Proxies -> 0..MaxRounds]
    BY SMTT(30), <1>7, BoundsAssumption DEF EngineShares, TypeOK, Rounds
  <2>2. ASSUME NEW state \in {"good", "invalid", "corrupt"}
        PROVE  Append(shares[p], [round |-> round, state |-> state])
                 \in Seq(ShareMsg)
    <3>1. PICK m \in ShareMsg : m = [round |-> round, state |-> state]
      BY <2>1 DEF ShareMsg
    <3>2. shares[p] \in Seq(ShareMsg)
      BY DEF TypeOK
    <3>3. Append(shares[p], m) \in Seq(ShareMsg)
      BY <3>2, AppendProperties
    <3> QED
      BY <3>1, <3>3
  <2>3. shares' \in [Proxies -> Seq(ShareMsg)]
    BY <1>7, <2>2 DEF EngineShares, TypeOK
  <2>4. faults' \in Nat
    <3>1. faults' = faults \/ faults' = faults + 1
      BY <1>7, Zenon DEF EngineShares, FaultHappens
    <3> QED
      BY <3>1 DEF TypeOK
  <2> QED
    BY <1>7, <2>1, <2>3, <2>4 DEF EngineShares, client, TypeOK
<1>8. ASSUME NEW p \in Proxies, HandleSend(p) PROVE TypeOK'
  <2> DEFINE msg == Head(wire[p])
  <2>1. msg \in DataMsg /\ Tail(wire[p]) \in Seq(DataMsg)
    BY <1>8, HeadTailProperties DEF HandleSend, TypeOK
  <2>2. wire' \in [Proxies -> Seq(DataMsg)]
    BY <1>8, <2>1 DEF HandleSend, TypeOK
  <2>3. got' \in [Proxies -> Seq(Masked)]
    <3>1. CASE msg.round = 0
      BY <1>8, <3>1 DEF HandleSend, TypeOK
    <3>2. CASE msg.round # 0
      <4>1. msg \in Masked
        BY <2>1, <3>2 DEF DataMsg, Masked
      <4>2. Append(got[p], msg) \in Seq(Masked)
        BY <4>1, AppendProperties DEF TypeOK
      <4> QED
        BY <1>8, <3>2, <4>2 DEF HandleSend, TypeOK
    <3> QED
      BY <3>1, <3>2
  <2>4. msg.send \in Sends
    BY <2>1 DEF DataMsg
  <2>5. ASSUME NEW status \in BOOLEAN
        PROVE  Append(acks[p], [send |-> msg.send, status |-> status])
                 \in Seq(Ack)
    BY <2>4, AppendProperties DEF Ack, TypeOK
  <2>6. acks' \in [Proxies -> Seq(Ack)]
    BY <1>8, <2>5 DEF HandleSend, TypeOK
  <2>7. accepted' \in [Proxies -> SUBSET Sends] /\ faults' \in Nat
    <3>1. faults' = faults \/ faults' = faults + 1
      BY <1>8, Zenon DEF HandleSend, FaultHappens
    <3>2. \/ accepted' = accepted
          \/ accepted' = [accepted EXCEPT ![p] = @ \union {msg.send}]
      BY <1>8, Zenon DEF HandleSend
    <3>3. accepted \in [Proxies -> SUBSET Sends] /\ faults \in Nat
      BY DEF TypeOK
    <3>4. accepted' \in [Proxies -> SUBSET Sends]
      BY <2>4, <3>2, <3>3
    <3> QED
      BY <3>1, <3>3, <3>4
  <2> QED
    BY <1>8, <2>2, <2>3, <2>6, <2>7 DEF HandleSend, client, TypeOK
<1>9. CASE StatusChanges
  BY <1>9 DEF StatusChanges, engines, TypeOK
<1>10. CASE UNCHANGED vars
  BY <1>10 DEF vars, TypeOK
<1> QED
  BY <1>2, <1>3, <1>4, <1>5, <1>6, <1>7, <1>8, <1>9, <1>10
  DEF Next, ApplicationStep, ProxyStep

\* The variables keep their types; above all a secret input only goes out with
\* a mask, the round that Masked demands (setupSendInputShareStream)
THEOREM TypeCorrect == Spec => []TypeOK
BY InitType, NextType, PTL DEF Spec

-----------------------------------------------------------------------------
(* Taking a number out of a line, or moving it to the queue ahead, keeps   *)
(* the order.                                                              *)

\* What removing the head of a queue, or appending to it, does to the order
LEMMA TailOrder ==
  ASSUME NEW s \in Seq(Nat), s # <<>>, NEW t \in Seq(Nat), NEW n \in Nat
  PROVE  /\ Ascends(s) => Ascends(Tail(s))
         /\ Before(s, t) => Before(Tail(s), t)
         /\ Before(t, s) => Before(t, Tail(s))
         /\ UpTo(s, n) => UpTo(Tail(s), n)
<1>1. /\ Tail(s) \in Seq(Nat) /\ Len(Tail(s)) = Len(s) - 1
      /\ \A i \in 1..Len(Tail(s)) : Tail(s)[i] = s[i + 1]
  BY HeadTailProperties
<1> QED
  BY <1>1 DEF Ascends, Before, UpTo

\* A number added at the end must lie beyond what is before it and before what
\* is behind it
LEMMA AppendOrder ==
  ASSUME NEW s \in Seq(Nat), NEW t \in Seq(Nat), NEW x \in Nat, NEW n \in Nat
  PROVE  /\ Ascends(s) /\ (\A i \in 1..Len(s) : s[i] < x)
              => Ascends(Append(s, x))
         /\ Before(s, t) /\ (\A j \in 1..Len(t) : x < t[j])
              => Before(Append(s, x), t)
         /\ Before(t, s) /\ (\A i \in 1..Len(t) : t[i] < x)
              => Before(t, Append(s, x))
         /\ UpTo(s, n) /\ x <= n => UpTo(Append(s, x), n)
<1>1. /\ Append(s, x) \in Seq(Nat) /\ Len(Append(s, x)) = Len(s) + 1
      /\ \A i \in 1..Len(s) : Append(s, x)[i] = s[i]
      /\ Append(s, x)[Len(s) + 1] = x
  BY AppendProperties
<1> QED
  BY SMTT(30), <1>1 DEF Ascends, Before, UpTo

\* The head of a queue stands between what is before and what is behind it
LEMMA HeadOrder ==
  ASSUME NEW s \in Seq(Nat), s # <<>>, NEW t \in Seq(Nat), NEW n \in Nat
  PROVE  /\ Head(s) \in Nat
         /\ Ascends(s) => \A i \in 1..Len(Tail(s)) : Head(s) < Tail(s)[i]
         /\ Before(t, s) => \A i \in 1..Len(t) : t[i] < Head(s)
         /\ Before(s, t) => \A i \in 1..Len(t) : Head(s) < t[i]
         /\ UpTo(s, n) => Head(s) <= n
<1>1. /\ Len(Tail(s)) = Len(s) - 1 /\ Len(s) \in Nat \ {0}
      /\ \A i \in 1..Len(Tail(s)) : Tail(s)[i] = s[i + 1]
      /\ Head(s) = s[1] /\ Head(s) \in Nat
  BY HeadTailProperties, EmptySeq, LenProperties
<1> QED
  BY <1>1 DEF Ascends, Before, UpTo

\* A new number goes to the end of the line
LEMMA LineEnter ==
  ASSUME NEW a \in Seq(Nat), NEW b \in Seq(Nat), NEW c \in Seq(Nat),
         NEW d \in Seq(Nat), NEW n \in Nat, Line(a, b, c, d, n)
  PROVE  /\ Line(a, b, c, Append(d, n + 1), n + 1)
         /\ Line(a, b, c, d, n + 1)
         /\ d = <<>> /\ c = <<>> => Line(a, Append(b, n + 1), c, d, n + 1)
<1>1. ASSUME NEW s \in Seq(Nat), UpTo(s, n)
      PROVE  UpTo(s, n + 1) /\ \A i \in 1..Len(s) : s[i] < n + 1
  BY SMTT(30), <1>1, ElementOfSeq DEF UpTo
<1>2. UpTo(a, n) /\ UpTo(b, n) /\ UpTo(c, n) /\ UpTo(d, n)
  BY DEF Line
<1>3. Line(a, b, c, d, n + 1)
  BY <1>1, <1>2 DEF Line
<1>4. Line(a, b, c, Append(d, n + 1), n + 1)
  <2>1. n + 1 \in Nat /\ n + 1 <= n + 1
    OBVIOUS
  <2> QED
    BY <1>1, <1>2, <1>3, <2>1, AppendOrder DEF Line
<1>5. ASSUME d = <<>>, c = <<>>
      PROVE  Line(a, Append(b, n + 1), c, d, n + 1)
  <2>1. n + 1 \in Nat /\ n + 1 <= n + 1
    OBVIOUS
  <2>2. /\ \A j \in 1..Len(c) : n + 1 < c[j]
        /\ \A j \in 1..Len(d) : n + 1 < d[j]
    BY <1>5, EmptySeq
  <2> QED
    BY <1>1, <1>2, <1>3, <2>1, <2>2, AppendOrder DEF Line
<1> QED
  BY <1>3, <1>4, <1>5

\* The head of a queue leaves the line
LEMMA LineLeave ==
  ASSUME NEW a \in Seq(Nat), NEW b \in Seq(Nat), NEW c \in Seq(Nat),
         NEW d \in Seq(Nat), NEW n \in Nat, Line(a, b, c, d, n)
  PROVE  /\ b # <<>> => Line(a, Tail(b), c, d, n)
         /\ c # <<>> => Line(a, b, Tail(c), d, n)
         /\ d # <<>> => Line(a, b, c, Tail(d), n)
BY TailOrder DEF Line

\* The head of a queue moves to the end of the queue ahead
LEMMA LineMove ==
  ASSUME NEW a \in Seq(Nat), NEW b \in Seq(Nat), NEW c \in Seq(Nat),
         NEW d \in Seq(Nat), NEW n \in Nat, Line(a, b, c, d, n)
  PROVE  /\ b # <<>> => Line(Append(a, Head(b)), Tail(b), c, d, n)
         /\ c # <<>> => Line(a, Append(b, Head(c)), Tail(c), d, n)
         /\ d # <<>> => Line(a, b, Append(c, Head(d)), Tail(d), n)
<1>1. ASSUME b # <<>> PROVE Line(Append(a, Head(b)), Tail(b), c, d, n)
  <2>1. Tail(b) \in Seq(Nat) /\ Line(a, Tail(b), c, d, n)
    BY <1>1, LineLeave, HeadTailProperties
  <2> QED
    BY <1>1, <2>1, HeadOrder, AppendOrder DEF Line
<1>2. ASSUME c # <<>> PROVE Line(a, Append(b, Head(c)), Tail(c), d, n)
  <2>1. Tail(c) \in Seq(Nat) /\ Line(a, b, Tail(c), d, n)
    BY <1>2, LineLeave, HeadTailProperties
  <2> QED
    BY <1>2, <2>1, HeadOrder, AppendOrder DEF Line
<1>3. ASSUME d # <<>> PROVE Line(a, b, Append(c, Head(d)), Tail(d), n)
  <2>1. Tail(d) \in Seq(Nat) /\ Line(a, b, c, Tail(d), n)
    BY <1>3, LineLeave, HeadTailProperties
  <2> QED
    BY <1>3, <2>1, HeadOrder, AppendOrder DEF Line
<1> QED
  BY <1>1, <1>2, <1>3

\* The numbers of a sequence follow its heads and tails
LEMMA NumbersOf ==
  ASSUME NEW S, NEW f \in [S -> Nat], NEW s \in Seq(S)
  PROVE  /\ Numbers(s, f) \in Seq(Nat)
         /\ Len(Numbers(s, f)) = Len(s)
         /\ Numbers(s, f) = <<>> <=> s = <<>>
         /\ \A x \in S : Numbers(Append(s, x), f) = Append(Numbers(s, f), f[x])
         /\ s # <<>> => /\ Numbers(Tail(s), f) = Tail(Numbers(s, f))
                        /\ Head(Numbers(s, f)) = f[Head(s)]
<1>1. \A i \in 1..Len(s) : s[i] \in S
  BY ElementOfSeq
<1>2. Numbers(s, f) \in Seq(Nat) /\ Len(Numbers(s, f)) = Len(s)
  BY <1>1, IsASeq, LenProperties DEF Numbers
<1>3. Numbers(s, f) = <<>> <=> s = <<>>
  BY <1>2, EmptySeq
<1>4. ASSUME NEW x \in S
      PROVE  Numbers(Append(s, x), f) = Append(Numbers(s, f), f[x])
  <2>1. /\ Append(s, x) \in Seq(S)
        /\ Len(Append(s, x)) = Len(s) + 1
        /\ \A i \in 1..Len(s) : Append(s, x)[i] = s[i]
        /\ Append(s, x)[Len(s) + 1] = x
    BY AppendProperties
  <2>2. /\ Append(Numbers(s, f), f[x]) \in Seq(Nat)
        /\ Len(Append(Numbers(s, f), f[x])) = Len(s) + 1
        /\ \A i \in 1..Len(s) : Append(Numbers(s, f), f[x])[i] = f[s[i]]
        /\ Append(Numbers(s, f), f[x])[Len(s) + 1] = f[x]
    BY <1>2, AppendProperties DEF Numbers
  <2>3. \A i \in 1..Len(Append(s, x)) : f[Append(s, x)[i]] \in Nat
    BY <2>1, ElementOfSeq
  <2>4. /\ Numbers(Append(s, x), f) \in Seq(Nat)
        /\ Len(Numbers(Append(s, x), f)) = Len(s) + 1
    BY <2>1, <2>3, IsASeq, LenProperties DEF Numbers
  <2>5. \A i \in 1..(Len(s) + 1) :
          Numbers(Append(s, x), f)[i] = Append(Numbers(s, f), f[x])[i]
    BY <2>1, <2>2 DEF Numbers
  <2> QED
    BY <2>2, <2>4, <2>5, SeqEqual
<1>5. ASSUME s # <<>>
      PROVE  /\ Numbers(Tail(s), f) = Tail(Numbers(s, f))
             /\ Head(Numbers(s, f)) = f[Head(s)]
  <2>1. /\ Tail(s) \in Seq(S) /\ Len(Tail(s)) = Len(s) - 1
        /\ \A i \in 1..Len(Tail(s)) : Tail(s)[i] = s[i + 1]
        /\ Head(s) = s[1] /\ Len(s) \in Nat \ {0}
    BY <1>5, HeadTailProperties, LenProperties, EmptySeq
  <2>2. /\ Tail(Numbers(s, f)) \in Seq(Nat)
        /\ Len(Tail(Numbers(s, f))) = Len(s) - 1
        /\ \A i \in 1..(Len(s) - 1) :
             Tail(Numbers(s, f))[i] = Numbers(s, f)[i + 1]
        /\ Head(Numbers(s, f)) = Numbers(s, f)[1]
    BY <1>2, <1>3, <1>5, HeadTailProperties
  <2>3. \A i \in 1..Len(Tail(s)) : f[Tail(s)[i]] \in Nat
    BY <2>1, ElementOfSeq
  <2>4. /\ Numbers(Tail(s), f) \in Seq(Nat)
        /\ Len(Numbers(Tail(s), f)) = Len(s) - 1
    BY <2>1, <2>3, IsASeq, LenProperties DEF Numbers
  <2>5. \A i \in 1..(Len(s) - 1) :
          Numbers(Tail(s), f)[i] = Tail(Numbers(s, f))[i]
    BY <2>1, <2>2 DEF Numbers
  <2>6. Numbers(Tail(s), f) = Tail(Numbers(s, f))
    BY <2>2, <2>4, <2>5, SeqEqual
  <2> QED
    BY <2>1, <2>2, <2>6 DEF Numbers
<1> QED
  BY <1>2, <1>3, <1>4, <1>5

\* The same of the sequences that SendInputs keeps
LEMMA RoundsOfShares ==
  ASSUME NEW s \in Seq(ShareMsg)
  PROVE  /\ rounds(s) \in Seq(Nat)
         /\ rounds(s) = <<>> <=> s = <<>>
         /\ \A x \in ShareMsg :
              rounds(Append(s, x)) = Append(rounds(s), x.round)
         /\ s # <<>> => /\ rounds(Tail(s)) = Tail(rounds(s))
                        /\ Head(rounds(s)) = Head(s).round
<1> DEFINE f == [x \in ShareMsg |-> x.round]
<1>1. f \in [ShareMsg -> Nat]
  BY DEF ShareMsg, Rounds
<1>2. ASSUME NEW t \in Seq(ShareMsg) PROVE rounds(t) = Numbers(t, f)
  BY ElementOfSeq DEF rounds, Numbers
<1>3. \A x \in ShareMsg : f[x] = x.round /\ Append(s, x) \in Seq(ShareMsg)
  BY AppendProperties
<1>4. s # <<>> => Tail(s) \in Seq(ShareMsg) /\ Head(s) \in ShareMsg
  BY HeadTailProperties
<1> HIDE DEF f
<1>5. /\ Numbers(s, f) \in Seq(Nat)
      /\ Numbers(s, f) = <<>> <=> s = <<>>
      /\ \A x \in ShareMsg :
           Numbers(Append(s, x), f) = Append(Numbers(s, f), f[x])
      /\ s # <<>> => /\ Numbers(Tail(s), f) = Tail(Numbers(s, f))
                     /\ Head(Numbers(s, f)) = f[Head(s)]
  BY <1>1, NumbersOf
<1> QED
  BY <1>2, <1>3, <1>4, <1>5

\* The sends of the inputs that wait
LEMMA SendsOfInputs ==
  ASSUME NEW s \in Seq(Input)
  PROVE  /\ sends(s) \in Seq(Nat)
         /\ sends(s) = <<>> <=> s = <<>>
         /\ \A x \in Input :
              sends(Append(s, x)) = Append(sends(s), x.send)
         /\ s # <<>> => /\ sends(Tail(s)) = Tail(sends(s))
                        /\ Head(sends(s)) = Head(s).send
<1> DEFINE f == [x \in Input |-> x.send]
<1>1. f \in [Input -> Nat]
  BY DEF Input, Sends
<1>2. ASSUME NEW t \in Seq(Input) PROVE sends(t) = Numbers(t, f)
  BY ElementOfSeq DEF sends, Numbers
<1>3. \A x \in Input : f[x] = x.send /\ Append(s, x) \in Seq(Input)
  BY AppendProperties
<1>4. s # <<>> => Tail(s) \in Seq(Input) /\ Head(s) \in Input
  BY HeadTailProperties
<1> HIDE DEF f
<1>5. /\ Numbers(s, f) \in Seq(Nat)
      /\ Numbers(s, f) = <<>> <=> s = <<>>
      /\ \A x \in Input :
           Numbers(Append(s, x), f) = Append(Numbers(s, f), f[x])
      /\ s # <<>> => /\ Numbers(Tail(s), f) = Tail(Numbers(s, f))
                     /\ Head(Numbers(s, f)) = f[Head(s)]
  BY <1>1, NumbersOf
<1> QED
  BY <1>2, <1>3, <1>4, <1>5

\* The rounds of the masked inputs
LEMMA RoundsOfSent ==
  ASSUME NEW s \in Seq(Masked)
  PROVE  /\ rounds(s) \in Seq(Nat)
         /\ \A x \in Masked :
              rounds(Append(s, x)) = Append(rounds(s), x.round)
<1> DEFINE f == [x \in Masked |-> x.round]
<1>1. f \in [Masked -> Nat]
  BY DEF Masked, Rounds
<1>2. ASSUME NEW t \in Seq(Masked) PROVE rounds(t) = Numbers(t, f)
  BY ElementOfSeq DEF rounds, Numbers
<1>3. \A x \in Masked : f[x] = x.round /\ Append(s, x) \in Seq(Masked)
  BY AppendProperties
<1> HIDE DEF f
<1>4. /\ Numbers(s, f) \in Seq(Nat)
      /\ \A x \in Masked :
           Numbers(Append(s, x), f) = Append(Numbers(s, f), f[x])
  BY <1>1, NumbersOf
<1> QED
  BY <1>2, <1>3, <1>4

\* The sends of the masked inputs
LEMMA SendsOfSent ==
  ASSUME NEW s \in Seq(Masked)
  PROVE  /\ sends(s) \in Seq(Nat)
         /\ \A x \in Masked :
              sends(Append(s, x)) = Append(sends(s), x.send)
<1> DEFINE f == [x \in Masked |-> x.send]
<1>1. f \in [Masked -> Nat]
  BY DEF Masked, Sends
<1>2. ASSUME NEW t \in Seq(Masked) PROVE sends(t) = Numbers(t, f)
  BY ElementOfSeq DEF sends, Numbers
<1>3. \A x \in Masked : f[x] = x.send /\ Append(s, x) \in Seq(Masked)
  BY AppendProperties
<1> HIDE DEF f
<1>4. /\ Numbers(s, f) \in Seq(Nat)
      /\ \A x \in Masked :
           Numbers(Append(s, x), f) = Append(Numbers(s, f), f[x])
  BY <1>1, NumbersOf
<1> QED
  BY <1>2, <1>3, <1>4

-----------------------------------------------------------------------------
(* The zips.                                                               *)

\* A zip with an empty queue is joined by a message of that queue, which it
\* leaves empty
LEMMA JoinTakes ==
  ASSUME NEW S, NEW zip \in [Proxies -> Seq(S)], NEW p \in Proxies,
         NEW msg \in S, Joins(zip, p), \E q \in Proxies : zip[q] = <<>>
  PROVE  zip[p] = <<>> /\ taken(zip, p, msg)[p] = <<>>
<1>1. zip[p] = <<>>
  BY DEF Joins
<1>2. Tail(Append(zip[p], msg)) = <<>>
  BY <1>1
<1> QED
  BY <1>1, <1>2 DEF taken

\* A message that does not join leaves a queue of another proxy empty
LEMMA NoJoin ==
  ASSUME NEW zip, NEW p \in Proxies, ~Joins(zip, p)
  PROVE  \E q \in Proxies \ {p} : zip[q] = <<>>
BY DEF Joins

\* Every step leaves the zips without a complete set: what is added joins at
\* once when it can
LEMMA ZipsStep == TypeOK /\ ZipsDrained /\ [Next]_vars => ZipsDrained'
<1> SUFFICES ASSUME TypeOK, ZipsDrained, [Next]_vars PROVE ZipsDrained'
  OBVIOUS
<1>1. ASSUME NEW s \in Sends, SendRefused(s) PROVE ZipsDrained'
  BY <1>1 DEF SendRefused, ZipsDrained
<1>2. ASSUME NEW s \in Sends, SendClear(s) PROVE ZipsDrained'
  BY <1>2 DEF SendClear, ZipsDrained
<1>3. ASSUME NEW s \in Sends, NEW size \in Sizes, SendSecret(s, size)
      PROVE  ZipsDrained'
  <2>1. UNCHANGED <<shareZip, ackZip>>
    BY <1>3 DEF SendSecret
  <2>2. \/ shareLists = <<>> /\ shareLists' = shareLists
        \/ shareLists # <<>> /\ inputs' = inputs
    BY <1>3 DEF SendSecret
  <2> QED
    BY <2>1, <2>2 DEF ZipsDrained
<1>4. ASSUME NEW p \in Proxies, DeliverShare(p) PROVE ZipsDrained'
  <2> DEFINE msg == Head(shares[p])
  <2>1. msg \in ShareMsg /\ shareZip \in [Proxies -> Seq(ShareMsg)]
    BY <1>4, HeadTailProperties DEF DeliverShare, TypeOK
  <2>2. ackZip' = ackZip
    BY <1>4 DEF DeliverShare
  <2>3. \E q \in Proxies : shareZip'[q] = <<>>
    <3>1. CASE msg.state = "corrupt"
      BY <1>4, <3>1 DEF DeliverShare, ZipsDrained
    <3>2. CASE msg.state # "corrupt" /\ ~Joins(shareZip, p)
      <4>1. shareZip' = [shareZip EXCEPT ![p] = Append(@, msg)]
        BY <1>4, <3>2 DEF DeliverShare
      <4> QED
        BY <2>1, <3>2, <4>1, NoJoin
    <3>3. CASE msg.state # "corrupt" /\ Joins(shareZip, p)
      <4>1. shareZip' = taken(shareZip, p, msg)
        BY <1>4, <3>3 DEF DeliverShare
      <4> QED
        BY <2>1, <3>3, <4>1, JoinTakes DEF ZipsDrained
    <3> QED
      BY <3>1, <3>2, <3>3
  <2>4. inputs' = <<>> \/ shareLists' = <<>>
    <3>1. ASSUME NEW round, ShareList(round)
          PROVE  inputs' = <<>> \/ shareLists' = <<>>
      BY <3>1 DEF ShareList, ZipsDrained
    <3>2. \/ UNCHANGED <<inputs, shareLists>>
          \/ \E round : ShareList(round)
      BY <1>4 DEF DeliverShare
    <3> QED
      BY <3>1, <3>2 DEF ZipsDrained
  <2> QED
    BY <2>2, <2>3, <2>4 DEF ZipsDrained
<1>5. ASSUME NEW p \in Proxies, DeliverAck(p) PROVE ZipsDrained'
  <2> DEFINE a == Head(acks[p])
  <2>1. a \in Ack /\ ackZip \in [Proxies -> Seq(Ack)]
    BY <1>5, HeadTailProperties DEF DeliverAck, TypeOK
  <2>2. UNCHANGED <<inputs, shareLists, shareZip>>
    BY <1>5 DEF DeliverAck
  <2>3. \E q \in Proxies : ackZip'[q] = <<>>
    <3>1. CASE listening = {}
      BY <1>5, <3>1 DEF DeliverAck, ZipsDrained
    <3>2. CASE listening # {} /\ ~Joins(ackZip, p)
      <4>1. ackZip' = [ackZip EXCEPT ![p] = @ \o copies(a, handlers)]
        BY <1>5, <3>2 DEF DeliverAck
      <4> QED
        BY <2>1, <3>2, <4>1, NoJoin
    <3>3. CASE listening # {} /\ Joins(ackZip, p)
      <4>1. ackZip' = taken(ackZip, p, a)
        BY <1>5, <3>3 DEF DeliverAck
      <4> QED
        BY <2>1, <3>3, <4>1, JoinTakes DEF ZipsDrained
    <3> QED
      BY <3>1, <3>2, <3>3
  <2> QED
    BY <2>2, <2>3 DEF ZipsDrained
<1>6. ASSUME NEW p \in Proxies, EngineShares(p) PROVE ZipsDrained'
  BY <1>6 DEF EngineShares, client, ZipsDrained
<1>7. ASSUME NEW p \in Proxies, HandleSend(p) PROVE ZipsDrained'
  BY <1>7 DEF HandleSend, client, ZipsDrained
<1>8. CASE StatusChanges
  BY <1>8 DEF StatusChanges, ZipsDrained
<1>9. CASE UNCHANGED vars
  BY <1>9 DEF vars, ZipsDrained
<1> QED
  BY <1>1, <1>2, <1>3, <1>4, <1>5, <1>6, <1>7, <1>8, <1>9
  DEF Next, ApplicationStep, ProxyStep

\* The zips start empty
LEMMA ZipsInit == Init => ZipsDrained
<1> SUFFICES ASSUME Init PROVE ZipsDrained
  OBVIOUS
<1>1. PICK p \in Proxies : TRUE
  BY ProxiesAssumption
<1>2. shareZip[p] = <<>> /\ ackZip[p] = <<>> /\ inputs = <<>>
  BY DEF Init
<1> QED
  BY <1>2 DEF ZipsDrained

\* No zip ever holds a complete set, whatever is sent, lost or damaged: an
\* input never waits beside a share list it could have, nor a response beside
\* all the others (userInputBus.zip, zipAsArray)
THEOREM Drained == Spec => []ZipsDrained
<1>1. Init => TypeOK /\ ZipsDrained
  BY InitType, ZipsInit
<1>2. TypeOK /\ ZipsDrained /\ [Next]_vars => (TypeOK /\ ZipsDrained)'
  BY NextType, ZipsStep
<1> QED
  BY <1>1, <1>2, PTL DEF Spec

-----------------------------------------------------------------------------
(* Masked inputs on their way to an engine.                                *)

\* A masked input has a round, and its send is a number
LEMMA MaskedElement ==
  ASSUME NEW s \in Seq(Masked), NEW k \in 1..Len(s)
  PROVE  s[k].round # 0 /\ s[k].send \in Nat /\ s[k] \in Masked
<1>1. s[k] \in Masked
  BY ElementOfSeq
<1> QED
  BY <1>1 DEF Masked, Rounds, Sends

\* A masked input later than all others goes to the end of the wire
LEMMA DeliveryGrows ==
  ASSUME NEW g \in Seq(Masked), NEW w \in Seq(DataMsg), NEW s \in Seq(Masked),
         NEW m \in Masked, \A i \in 1..Len(s) : s[i].send < m.send,
         Delivery(g, w, s)
  PROVE  Delivery(g, Append(w, m), Append(s, m))
<1>1. m \in DataMsg /\ m.round # 0 /\ m.send \in Nat
  BY DEF Masked, DataMsg, Rounds, Sends
<1>2. /\ Len(Append(w, m)) = Len(w) + 1 /\ Len(w) \in Nat
      /\ \A i \in 1..Len(w) : Append(w, m)[i] = w[i]
      /\ Append(w, m)[Len(w) + 1] = m
  BY <1>1, AppendProperties, LenProperties
<1>3. /\ Len(Append(s, m)) = Len(s) + 1 /\ Len(s) \in Nat /\ Len(g) \in Nat
      /\ \A i \in 1..Len(s) : Append(s, m)[i] = s[i]
      /\ Append(s, m)[Len(s) + 1] = m
  BY AppendProperties, LenProperties
<1>4. Len(g) <= Len(s) /\ \A i \in 1..Len(g) : g[i] = s[i]
  BY DEF Delivery
<1>5. ASSUME NEW i \in 1..(Len(w) + 1), Append(w, m)[i].round # 0
      PROVE  \E k \in (Len(g) + 1)..(Len(s) + 1) :
               Append(w, m)[i] = Append(s, m)[k]
  <2>1. CASE i = Len(w) + 1
    BY <1>2, <1>3, <1>4, <2>1
  <2>2. CASE i \in 1..Len(w)
    <3>1. PICK k \in (Len(g) + 1)..Len(s) : w[i] = s[k]
      BY <1>2, <1>5, <2>2 DEF Delivery
    <3> QED
      BY SMTT(30), <1>2, <1>3, <2>2, <3>1
  <2>3. i = Len(w) + 1 \/ i \in 1..Len(w)
    BY <1>2
  <2> QED
    BY <2>1, <2>2, <2>3
<1>6. ASSUME NEW k \in (Len(g) + 1)..(Len(s) + 1)
      PROVE  \E i \in 1..(Len(w) + 1) : Append(w, m)[i] = Append(s, m)[k]
  <2>1. CASE k = Len(s) + 1
    BY <1>2, <1>3, <2>1
  <2>2. CASE k \in (Len(g) + 1)..Len(s)
    <3>1. PICK i \in 1..Len(w) : w[i] = s[k]
      BY <2>2 DEF Delivery
    <3> QED
      BY <1>2, <1>3, <2>2, <3>1
  <2> QED
    BY SMTT(30), <1>3, <2>1, <2>2
<1>7. ASSUME NEW i \in 1..(Len(w) + 1), NEW j \in 1..(Len(w) + 1), i < j,
             Append(w, m)[i].round # 0, Append(w, m)[j].round # 0
      PROVE  Append(w, m)[i].send < Append(w, m)[j].send
  <2>1. i \in 1..Len(w) /\ w[i].round # 0
    BY <1>2, <1>7
  <2>2. CASE j = Len(w) + 1
    <3>1. PICK k \in (Len(g) + 1)..Len(s) : w[i] = s[k]
      BY <2>1 DEF Delivery
    <3> QED
      BY <1>2, <1>3, <2>1, <2>2, <3>1
  <2>3. CASE j \in 1..Len(w)
    BY <1>2, <1>7, <2>1, <2>3 DEF Delivery
  <2> QED
    BY <1>2, <2>2, <2>3
<1>8. /\ Len(g) <= Len(Append(s, m))
      /\ \A i \in 1..Len(g) : g[i] = Append(s, m)[i]
  BY <1>3, <1>4
<1> QED
  BY ZenonT(40), <1>2, <1>3, <1>5, <1>6, <1>7, <1>8 DEF Delivery

\* A clear input on the wire changes nothing for the masked ones
LEMMA DeliveryClear ==
  ASSUME NEW g \in Seq(Masked), NEW w \in Seq(DataMsg), NEW s \in Seq(Masked),
         NEW m \in DataMsg, m.round = 0, Delivery(g, w, s)
  PROVE  Delivery(g, Append(w, m), s)
<1>1. /\ Len(Append(w, m)) = Len(w) + 1 /\ Len(w) \in Nat
      /\ \A i \in 1..Len(w) : Append(w, m)[i] = w[i]
      /\ Append(w, m)[Len(w) + 1] = m
  BY AppendProperties, LenProperties
<1>2. ASSUME NEW i \in 1..(Len(w) + 1), Append(w, m)[i].round # 0
      PROVE  i \in 1..Len(w) /\ Append(w, m)[i] = w[i]
  BY <1>1, <1>2
<1>3. \A i \in 1..Len(w) : i \in 1..(Len(w) + 1)
  BY <1>1
<1>4. \A i \in 1..(Len(w) + 1) : Append(w, m)[i].round # 0 =>
        \E k \in (Len(g) + 1)..Len(s) : Append(w, m)[i] = s[k]
  BY <1>2 DEF Delivery
<1>5. \A k \in (Len(g) + 1)..Len(s) :
        \E i \in 1..(Len(w) + 1) : Append(w, m)[i] = s[k]
  BY <1>1, <1>3 DEF Delivery
<1>6. ASSUME NEW i \in 1..(Len(w) + 1), NEW j \in 1..(Len(w) + 1), i < j,
             Append(w, m)[i].round # 0, Append(w, m)[j].round # 0
      PROVE  Append(w, m)[i].send < Append(w, m)[j].send
  <2>1. /\ i \in 1..Len(w) /\ Append(w, m)[i] = w[i]
        /\ j \in 1..Len(w) /\ Append(w, m)[j] = w[j]
    BY <1>2, <1>6
  <2> QED
    BY <1>6, <2>1 DEF Delivery
<1>7. Len(g) <= Len(s) /\ \A i \in 1..Len(g) : g[i] = s[i]
  BY DEF Delivery
<1> QED
  BY ZenonT(40), <1>1, <1>4, <1>5, <1>6, <1>7 DEF Delivery

\* A clear input leaves the wire
LEMMA DeliverySkips ==
  ASSUME NEW g \in Seq(Masked), NEW w \in Seq(DataMsg), NEW s \in Seq(Masked),
         w # <<>>, Head(w).round = 0, Delivery(g, w, s)
  PROVE  Delivery(g, Tail(w), s)
<1>1. /\ Len(Tail(w)) = Len(w) - 1 /\ Len(w) \in Nat \ {0}
      /\ \A i \in 1..Len(Tail(w)) : Tail(w)[i] = w[i + 1]
      /\ Head(w) = w[1]
  BY HeadTailProperties, LenProperties, EmptySeq
<1>2. ASSUME NEW k \in 1..Len(s) PROVE s[k].round # 0
  BY MaskedElement
<1>3. Len(g) \in Nat /\ Len(s) \in Nat
  BY LenProperties
<1>4. ASSUME NEW k \in (Len(g) + 1)..Len(s)
      PROVE  \E i \in 1..(Len(w) - 1) : Tail(w)[i] = s[k]
  <2>1. PICK i \in 1..Len(w) : w[i] = s[k]
    BY DEF Delivery
  <2>2. i # 1
    BY <1>1, <1>2, <1>3, <2>1
  <2>3. i - 1 \in 1..(Len(w) - 1) /\ Tail(w)[i - 1] = w[i]
    BY <1>1, <2>2
  <2> QED
    BY <2>1, <2>3
<1>5. \A i \in 1..(Len(w) - 1) : i + 1 \in 1..Len(w) /\ Tail(w)[i] = w[i + 1]
  BY <1>1
<1>6. \A i \in 1..(Len(w) - 1) : Tail(w)[i].round # 0 =>
        \E k \in (Len(g) + 1)..Len(s) : Tail(w)[i] = s[k]
  BY <1>5 DEF Delivery
<1>7. \A i, j \in 1..(Len(w) - 1) :
        i < j /\ Tail(w)[i].round # 0 /\ Tail(w)[j].round # 0
          => Tail(w)[i].send < Tail(w)[j].send
  BY <1>1, <1>5 DEF Delivery
<1> QED
  BY <1>1, <1>4, <1>6, <1>7 DEF Delivery

\* A masked input at the head of the wire is the next one the engine lacks
LEMMA DeliveryTakes ==
  ASSUME NEW g \in Seq(Masked), NEW w \in Seq(DataMsg), NEW s \in Seq(Masked),
         w # <<>>, Head(w).round # 0, Ascends(sends(s)), Delivery(g, w, s)
  PROVE  /\ Len(g) < Len(s)
         /\ Head(w) = s[Len(g) + 1]
         /\ Delivery(Append(g, Head(w)), Tail(w), s)
<1>1. /\ Len(Tail(w)) = Len(w) - 1 /\ Len(w) \in Nat \ {0}
      /\ \A i \in 1..Len(Tail(w)) : Tail(w)[i] = w[i + 1]
      /\ Head(w) = w[1]
  BY HeadTailProperties, LenProperties, EmptySeq
<1>2. Len(g) \in Nat /\ Len(s) \in Nat
  BY LenProperties
<1>3. ASSUME NEW k \in 1..Len(s)
      PROVE  s[k].round # 0 /\ s[k].send \in Nat /\ s[k] \in Masked
  BY MaskedElement
<1>4. \A j, k \in 1..Len(s) : j < k => s[j].send < s[k].send
  <2>1. Len(sends(s)) = Len(s) /\ \A i \in 1..Len(s) : sends(s)[i] = s[i].send
    BY <1>2, <1>3, SendsOfSent, LenProperties DEF sends
  <2> QED
    BY <2>1 DEF Ascends
<1>5. PICK k \in (Len(g) + 1)..Len(s) : w[1] = s[k]
  BY <1>1 DEF Delivery
<1>6. ASSUME NEW i \in 1..Len(w), NEW j \in (Len(g) + 1)..Len(s), w[i] = s[j],
             j <= k
      PROVE  i = 1
  <2>1. SUFFICES ASSUME i # 1 PROVE FALSE
    OBVIOUS
  <2>2. w[1].send < w[i].send
    <3>1. 1 \in 1..Len(w) /\ 1 < i /\ j \in 1..Len(s)
      BY <1>1, <1>2, <2>1
    <3>2. w[1].round # 0 /\ w[i].round # 0
      BY <1>1, <1>3, <1>6, <3>1
    <3> QED
      BY <3>1, <3>2 DEF Delivery
  <2>3. w[i].send <= w[1].send
    <3>1. j \in 1..Len(s) /\ k \in 1..Len(s)
      BY <1>2
    <3>2. s[j].send <= s[k].send /\ s[j].send \in Nat
      BY <1>2, <1>3, <1>4, <1>6, <3>1
    <3> QED
      BY <1>5, <1>6, <3>2
  <2> QED
    BY <1>2, <1>3, <1>5, <1>6, <2>2, <2>3
<1>7. k = Len(g) + 1
  <2>1. SUFFICES ASSUME k # Len(g) + 1 PROVE FALSE
    OBVIOUS
  <2>2. Len(g) + 1 \in (Len(g) + 1)..Len(s) /\ Len(g) + 1 < k
    BY <1>2, <1>5, <2>1
  <2>3. PICK i \in 1..Len(w) : w[i] = s[Len(g) + 1]
    BY <2>2 DEF Delivery
  <2>4. i = 1
    BY <1>6, <2>2, <2>3
  <2>5. s[Len(g) + 1].send < s[k].send
    BY <1>2, <1>4, <2>2
  <2> QED
    BY <1>2, <1>3, <1>5, <2>2, <2>3, <2>4, <2>5
<1>8. Head(w) \in Masked /\ Head(w) = s[Len(g) + 1] /\ Len(g) < Len(s)
  BY <1>1, <1>2, <1>3, <1>5, <1>7
<1>9. /\ Len(Append(g, Head(w))) = Len(g) + 1
      /\ \A i \in 1..Len(g) : Append(g, Head(w))[i] = g[i]
      /\ Append(g, Head(w))[Len(g) + 1] = Head(w)
  BY <1>8, AppendProperties
<1>10. /\ Len(g) + 1 <= Len(s)
       /\ \A i \in 1..(Len(g) + 1) : Append(g, Head(w))[i] = s[i]
  BY <1>2, <1>8, <1>9 DEF Delivery
<1>11. \A i \in 1..(Len(w) - 1) : i + 1 \in 1..Len(w) /\ Tail(w)[i] = w[i + 1]
  BY <1>1
<1>12. ASSUME NEW i \in 1..(Len(w) - 1), Tail(w)[i].round # 0
       PROVE  \E j \in (Len(g) + 2)..Len(s) : Tail(w)[i] = s[j]
  <2>1. PICK j \in (Len(g) + 1)..Len(s) : w[i + 1] = s[j]
    BY <1>11, <1>12 DEF Delivery
  <2>2. j # Len(g) + 1
    BY <1>2, <1>6, <1>7, <1>11, <2>1
  <2> QED
    BY <1>2, <1>11, <2>1, <2>2
<1>13. ASSUME NEW j \in (Len(g) + 2)..Len(s)
       PROVE  \E i \in 1..(Len(w) - 1) : Tail(w)[i] = s[j]
  <2>1. PICK i \in 1..Len(w) : w[i] = s[j]
    BY <1>2 DEF Delivery
  <2>2. i # 1
    <3>1. s[k].send < s[j].send
      BY <1>2, <1>4, <1>7
    <3> QED
      BY <1>2, <1>3, <1>5, <2>1, <3>1
  <2>3. i - 1 \in 1..(Len(w) - 1) /\ Tail(w)[i - 1] = w[i]
    BY <1>1, <2>2
  <2> QED
    BY <2>1, <2>3
<1>14. \A i, j \in 1..(Len(w) - 1) :
         i < j /\ Tail(w)[i].round # 0 /\ Tail(w)[j].round # 0
           => Tail(w)[i].send < Tail(w)[j].send
  BY <1>1, <1>11 DEF Delivery
<1>15. Delivery(Append(g, Head(w)), Tail(w), s)
  <2>1. (Len(g) + 1) + 1 = Len(g) + 2
    BY <1>2
  <2> QED
    BY <1>1, <1>9, <1>10, <1>12, <1>13, <1>14, <2>1 DEF Delivery
<1> QED
  BY <1>8, <1>15

-----------------------------------------------------------------------------
(* Rounds and inputs stay in line.                                         *)

\* A masked input leaves the client for every socket
GoesOut(m) == Emit(m) /\ sent' = Append(sent, m) /\ UNCHANGED got

\* Pairing sends the input with its round, or nothing
LEMMA PairOut ==
  ASSUME NEW input \in Input, NEW round \in Rounds, NEW state, NEW waiting,
         NEW afterThrow, Pair(input, round, state, waiting, afterThrow)
  PROVE  \/ UNCHANGED <<wire, sent>>
         \/ \E m \in Masked :
              /\ m.send = input.send /\ m.round = round
              /\ Emit(m) /\ sent' = Append(sent, m)
<1> DEFINE masked == [send |-> input.send, round |-> round]
<1>1. masked \in Masked /\ masked.send = input.send /\ masked.round = round
  BY DEF Masked, Input
<1>2. \/ UNCHANGED <<wire, sent>>
      \/ Emit(masked) /\ sent' = Append(sent, masked)
  BY Zenon DEF Pair
<1> QED
  BY <1>1, <1>2

\* A round at the head of the line that is paired leaves the line in order
LEMMA PairRounds ==
  ASSUME TypeOK, NEW input \in Input, NEW round \in Rounds,
         NEW state, NEW waiting, NEW afterThrow,
         Pair(input, round, state, waiting, afterThrow),
         NEW b \in Seq(Nat), b # <<>>, Head(b) = round,
         NEW c \in Seq(Nat), NEW d \in Seq(Nat), NEW n \in Nat,
         Line(rounds(sent), b, c, d, n)
  PROVE  Line(rounds(sent'), Tail(b), c, d, n)
<1>1. sent \in Seq(Masked)
  BY DEF TypeOK
<1>2. rounds(sent) \in Seq(Nat)
  BY <1>1, RoundsOfSent
<1>3. CASE UNCHANGED <<wire, sent>>
  BY <1>2, <1>3, LineLeave
<1>4. CASE \E m \in Masked : /\ m.send = input.send /\ m.round = round
                            /\ Emit(m) /\ sent' = Append(sent, m)
  <2>1. rounds(sent') = Append(rounds(sent), Head(b))
    BY <1>1, <1>4, RoundsOfSent
  <2> QED
    BY <1>2, <2>1, LineMove
<1> QED
  BY <1>3, <1>4, PairOut

\* So does an input
LEMMA PairSends ==
  ASSUME TypeOK, NEW input \in Input, NEW round \in Rounds,
         NEW state, NEW waiting, NEW afterThrow,
         Pair(input, round, state, waiting, afterThrow),
         NEW b \in Seq(Nat), b # <<>>, Head(b) = input.send, NEW n \in Nat,
         Line(sends(sent), b, <<>>, <<>>, n)
  PROVE  Line(sends(sent'), Tail(b), <<>>, <<>>, n)
<1>1. sent \in Seq(Masked) /\ <<>> \in Seq(Nat)
  BY DEF TypeOK
<1>2. sends(sent) \in Seq(Nat)
  BY <1>1, SendsOfSent
<1>3. CASE UNCHANGED <<wire, sent>>
  <2>1. sends(sent') = sends(sent)
    BY <1>3
  <2> QED
    BY <1>1, <1>2, <2>1, LineLeave
<1>4. CASE \E m \in Masked : /\ m.send = input.send /\ m.round = round
                            /\ Emit(m) /\ sent' = Append(sent, m)
  <2>1. sends(sent') = Append(sends(sent), Head(b))
    BY <1>1, <1>4, SendsOfSent
  <2> QED
    BY <1>1, <1>2, <2>1, LineMove
<1> QED
  BY <1>3, <1>4, PairOut

\* A joined share list takes the place behind those that wait, and goes out
\* only when none waits
LEMMA ShareListRounds ==
  ASSUME TypeOK, ZipsDrained, NEW round \in Rounds, ShareList(round),
         NEW c \in Seq(Nat), NEW d \in Seq(Nat), NEW n \in Nat,
         Line(rounds(sent), Append(shareLists, round), c, d, n)
  PROVE  Line(rounds(sent'), shareLists', c, d, n)
<1>1. CASE inputs = <<>>
  BY <1>1 DEF ShareList
<1>2. CASE inputs # <<>>
  <2>1. shareLists = <<>> /\ shareLists' = <<>>
    BY <1>2 DEF ShareList, ZipsDrained
  <2>2. /\ Pair(Head(inputs), round, promise, listening, promise)
        /\ Head(inputs) \in Input
    BY <1>2, HeadTailProperties DEF ShareList, TypeOK
  <2> DEFINE b == Append(shareLists, round)
  <2>3. b \in Seq(Nat) /\ b # <<>> /\ Head(b) = round /\ Tail(b) = <<>>
    BY <2>1 DEF Rounds
  <2> HIDE DEF b
  <2>4. Line(rounds(sent), b, c, d, n)
    BY DEF b
  <2>5. Line(rounds(sent'), Tail(b), c, d, n)
    BY <2>2, <2>3, <2>4, PairRounds
  <2> QED
    BY <2>1, <2>3, <2>5
<1> QED
  BY <1>1, <1>2

\* A joined share list takes the first input out of the line
LEMMA ShareListSends ==
  ASSUME TypeOK, NEW round \in Rounds, ShareList(round), NEW n \in Nat,
         Line(sends(sent), sends(inputs), <<>>, <<>>, n)
  PROVE  Line(sends(sent'), sends(inputs'), <<>>, <<>>, n)
<1>1. CASE inputs = <<>>
  <2>1. sends(sent') = sends(sent) /\ sends(inputs') = sends(inputs)
    BY <1>1 DEF ShareList
  <2> QED
    BY <2>1
<1>2. CASE inputs # <<>>
  <2>1. /\ Pair(Head(inputs), round, promise, listening, promise)
        /\ inputs' = Tail(inputs)
        /\ Head(inputs) \in Input /\ inputs \in Seq(Input)
    BY <1>2, HeadTailProperties DEF ShareList, TypeOK
  <2>2. /\ sends(inputs) \in Seq(Nat) /\ sends(inputs) # <<>>
        /\ Head(sends(inputs)) = Head(inputs).send
        /\ sends(inputs') = Tail(sends(inputs))
    BY <1>2, <2>1, SendsOfInputs
  <2> QED
    BY <2>1, <2>2, PairSends
<1> QED
  BY <1>1, <1>2

\* What stands in line is numbers
LEMMA RoundsTypes ==
  ASSUME TypeOK, NEW q \in Proxies
  PROVE  /\ rounds(sent) \in Seq(Nat) /\ shareLists \in Seq(Nat)
         /\ rounds(shareZip[q]) \in Seq(Nat) /\ rounds(shares[q]) \in Seq(Nat)
         /\ produced[q] \in Nat
<1>1. /\ sent \in Seq(Masked) /\ shareLists \in Seq(Rounds)
      /\ shareZip[q] \in Seq(ShareMsg) /\ shares[q] \in Seq(ShareMsg)
      /\ produced[q] \in 0..MaxRounds
  BY DEF TypeOK
<1>2. shareLists \in Seq(Nat)
  <2>1. Rounds \subseteq Nat
    BY DEF Rounds
  <2> QED
    BY <1>1, <2>1, SeqMonotonic
<1>3. produced[q] \in Nat
  BY <1>1, BoundsAssumption
<1> QED
  BY <1>1, <1>2, <1>3, RoundsOfSent, RoundsOfShares

\* A share message that does not join its like moves to the zip, or is gone
LEMMA ShareWaits ==
  ASSUME TypeOK, RoundsInLine, NEW p \in Proxies, shares[p] # <<>>,
         shares' = [shares EXCEPT ![p] = Tail(@)],
         UNCHANGED <<sent, shareLists, produced>>,
         \/ shareZip' = shareZip
         \/ shareZip' = [shareZip EXCEPT ![p] = Append(@, Head(shares[p]))]
  PROVE  RoundsInLine'
<1> SUFFICES ASSUME NEW q \in Proxies
             PROVE  Line(rounds(sent), shareLists, rounds(shareZip'[q]),
                         rounds(shares'[q]), produced[q])
  BY DEF RoundsInLine
<1>1. Line(rounds(sent), shareLists, rounds(shareZip[q]), rounds(shares[q]),
           produced[q])
  BY DEF RoundsInLine
<1>2. /\ shares \in [Proxies -> Seq(ShareMsg)]
      /\ shareZip \in [Proxies -> Seq(ShareMsg)]
  BY DEF TypeOK
<1>3. CASE q # p
  <2>1. shareZip'[q] = shareZip[q] /\ shares'[q] = shares[q]
    BY <1>2, <1>3
  <2> QED
    BY <1>1, <2>1
<1>4. CASE q = p
  <2>1. /\ rounds(Tail(shares[p])) = Tail(rounds(shares[p]))
        /\ Head(rounds(shares[p])) = Head(shares[p]).round
        /\ rounds(shares[p]) # <<>>
        /\ Head(shares[p]) \in ShareMsg
    BY SMTT(30), <1>2, RoundsOfShares, HeadTailProperties
  <2>2. rounds(Append(shareZip[p], Head(shares[p])))
          = Append(rounds(shareZip[p]), Head(rounds(shares[p])))
    BY SMTT(30), <1>2, <2>1, RoundsOfShares
  <2>3. shares'[p] = Tail(shares[p])
    BY <1>2
  <2>4. \/ shareZip'[p] = shareZip[p]
        \/ shareZip'[p] = Append(shareZip[p], Head(shares[p]))
    BY <1>2
  <2>5. /\ Line(rounds(sent), shareLists, rounds(shareZip[p]),
                 Tail(rounds(shares[p])), produced[p])
        /\ Line(rounds(sent), shareLists,
                 Append(rounds(shareZip[p]), Head(rounds(shares[p]))),
                 Tail(rounds(shares[p])), produced[p])
    BY <1>1, <1>4, <2>1, RoundsTypes, LineLeave, LineMove
  <2> QED
    BY <1>4, <2>1, <2>2, <2>3, <2>4, <2>5
<1> QED
  BY <1>3, <1>4

\* A joined share message is at the head of each proxy's line of waiting ones;
\* the heads move on together, as one round, or are all dropped
LEMMA ShareJoins ==
  ASSUME TypeOK, ZipsDrained, RoundsInLine, NEW p \in Proxies, shares[p] # <<>>,
         shares' = [shares EXCEPT ![p] = Tail(@)],
         UNCHANGED produced, Joins(shareZip, p),
         shareZip' = taken(shareZip, p, Head(shares[p])),
         LET msgs == heads(shareZip, p, Head(shares[p])) IN
           IF valid(msgs)
             THEN ShareList(msgs[p].round)
             ELSE Fail /\ UNCHANGED <<inputs, shareLists, wire, sent, thrown>>
  PROVE  RoundsInLine'
<1> SUFFICES ASSUME NEW q \in Proxies
             PROVE  Line(rounds(sent'), shareLists', rounds(shareZip'[q]),
                         rounds(shares'[q]), produced[q])
  BY DEF RoundsInLine
<1> DEFINE msg == Head(shares[p])
           msgs == heads(shareZip, p, msg)
           z == IF q = p THEN Append(shareZip[q], msg) ELSE shareZip[q]
<1>1. /\ shares \in [Proxies -> Seq(ShareMsg)]
      /\ shareZip \in [Proxies -> Seq(ShareMsg)]
      /\ msg \in ShareMsg
  BY HeadTailProperties DEF TypeOK
<1>2. shares'[q] = (IF q = p THEN Tail(shares[p]) ELSE shares[q])
  BY <1>1
<1>3. z \in Seq(ShareMsg) /\ z # <<>>
  <2>1. CASE q = p
    BY <1>1, <2>1, AppendProperties
  <2>2. CASE q # p
    BY <1>1, <2>2 DEF Joins
  <2> QED
    BY <2>1, <2>2
<1>4. shareZip'[q] = Tail(z) /\ msgs[q] = Head(z)
  BY DEF taken, heads
<1>5. Line(rounds(sent), shareLists, rounds(z), rounds(shares'[q]), produced[q])
  <2>1. Line(rounds(sent), shareLists, rounds(shareZip[q]), rounds(shares[q]),
             produced[q])
    BY DEF RoundsInLine
  <2>2. CASE q # p
    BY <1>2, <2>1, <2>2
  <2>3. CASE q = p
    <3>1. shares'[q] = Tail(shares[q]) /\ z = Append(shareZip[q], msg)
      BY <1>2, <2>3
    <3>2. /\ shares[q] \in Seq(ShareMsg) /\ shares[q] # <<>>
          /\ shareZip[q] \in Seq(ShareMsg) /\ msg = Head(shares[q])
      BY <1>1, <2>3
    <3> HIDE DEF z, msg
    <3>3. /\ rounds(shares'[q]) = Tail(rounds(shares[q]))
          /\ rounds(shares[q]) # <<>>
          /\ Head(rounds(shares[q])) = msg.round
      BY <3>1, <3>2, RoundsOfShares
    <3>4. rounds(z) = Append(rounds(shareZip[q]), Head(rounds(shares[q])))
      BY ZenonT(40), <1>1, <3>1, <3>2, <3>3, RoundsOfShares
    <3>5. Line(rounds(sent), shareLists,
               Append(rounds(shareZip[q]), Head(rounds(shares[q]))),
               Tail(rounds(shares[q])), produced[q])
      BY <2>1, <3>3, RoundsTypes, LineMove
    <3> QED
      BY <3>3, <3>4, <3>5
  <2> QED
    BY <2>2, <2>3
<1>6. /\ rounds(z) \in Seq(Nat) /\ rounds(z) # <<>>
      /\ rounds(shareZip'[q]) = Tail(rounds(z))
      /\ Head(rounds(z)) = msgs[q].round
      /\ msgs[q] \in ShareMsg
  BY <1>3, <1>4, RoundsOfShares, HeadTailProperties
<1>7. rounds(shares'[q]) \in Seq(Nat)
  BY <1>1, <1>2, RoundsOfShares, HeadTailProperties
<1>8. Tail(rounds(z)) \in Seq(Nat)
  BY <1>6, HeadTailProperties
<1> HIDE DEF z, msgs, msg
<1>9. CASE valid(msgs)
  <2>1. ShareList(msgs[p].round) /\ msgs[p].round = msgs[q].round
    BY <1>9 DEF valid, msgs, msg
  <2>2. msgs[q].round \in Rounds
    BY <1>6 DEF ShareMsg
  <2>3. Line(rounds(sent), Append(shareLists, msgs[q].round), Tail(rounds(z)),
             rounds(shares'[q]), produced[q])
    BY <1>5, <1>6, <1>7, RoundsTypes, LineMove
  <2>4. ShareList(msgs[q].round)
    BY <2>1
  <2>5. Line(rounds(sent'), shareLists', Tail(rounds(z)), rounds(shares'[q]),
             produced[q])
    BY <1>7, <1>8, <2>2, <2>3, <2>4, RoundsTypes, ShareListRounds
  <2> QED
    BY <1>6, <2>5
<1>10. CASE ~valid(msgs)
  <2>1. UNCHANGED <<sent, shareLists>>
    BY <1>10 DEF msgs, msg
  <2>2. Line(rounds(sent), shareLists, Tail(rounds(z)), rounds(shares'[q]),
             produced[q])
    BY <1>5, <1>6, <1>7, RoundsTypes, LineLeave
  <2>3. rounds(sent') = rounds(sent)
    BY <2>1
  <2> QED
    BY <1>6, <2>1, <2>2, <2>3
<1> QED
  BY <1>9, <1>10

\* Every step keeps the rounds in line: an engine adds one, a share message
\* moves up or leaves
LEMMA RoundsStep ==
  TypeOK /\ ZipsDrained /\ RoundsInLine /\ [Next]_vars => RoundsInLine'
<1> SUFFICES ASSUME TypeOK, ZipsDrained, RoundsInLine, [Next]_vars
             PROVE  RoundsInLine'
  OBVIOUS
<1>1. ASSUME UNCHANGED <<sent, shareLists, shareZip, shares, produced>>
      PROVE  RoundsInLine'
  BY <1>1 DEF RoundsInLine, rounds
<1>2. ASSUME NEW s \in Sends, SendRefused(s) PROVE RoundsInLine'
  BY <1>1, <1>2 DEF SendRefused, engines
<1>3. ASSUME NEW s \in Sends, SendClear(s) PROVE RoundsInLine'
  BY <1>1, <1>3 DEF SendClear
<1>4. ASSUME NEW s \in Sends, NEW size \in Sizes, SendSecret(s, size)
      PROVE  RoundsInLine'
  <2>1. UNCHANGED <<shareZip, shares, produced>>
    BY <1>4 DEF SendSecret
  <2>2. CASE shareLists = <<>>
    <3>1. UNCHANGED <<sent, shareLists>>
      BY <1>4, <2>2 DEF SendSecret
    <3> QED
      BY <1>1, <2>1, <3>1
  <2>3. CASE shareLists # <<>>
    <3> DEFINE input == [send |-> s, size |-> size]
               state == [promise EXCEPT ![s] = "pending"]
               waiting == listening \union {s}
               afterThrow == [state EXCEPT ![s] = "rejected"]
    <3>1. /\ Pair(input, Head(shareLists), state, waiting, afterThrow)
          /\ shareLists' = Tail(shareLists)
      BY <1>4, <2>3 DEF SendSecret
    <3>2. input \in Input
      BY DEF Input
    <3>3. Head(shareLists) \in Rounds
      BY <2>3, HeadTailProperties DEF TypeOK
    <3> HIDE DEF input, state, waiting, afterThrow
    <3>4. ASSUME NEW q \in Proxies
          PROVE  Line(rounds(sent'), shareLists', rounds(shareZip[q]),
                      rounds(shares[q]), produced[q])
      <4>1. Line(rounds(sent), shareLists, rounds(shareZip[q]),
                 rounds(shares[q]), produced[q])
        BY DEF RoundsInLine
      <4>2. Line(rounds(sent'), Tail(shareLists), rounds(shareZip[q]),
                 rounds(shares[q]), produced[q])
        BY <2>3, <3>1, <3>2, <3>3, <4>1, RoundsTypes, PairRounds
      <4> QED
        BY <3>1, <4>2
    <3> QED
      BY <2>1, <3>4 DEF RoundsInLine
  <2> QED
    BY <2>2, <2>3
<1>5. ASSUME NEW p \in Proxies, DeliverShare(p) PROVE RoundsInLine'
  <2> DEFINE msg == Head(shares[p])
  <2>1. /\ shares[p] # <<>>
        /\ shares' = [shares EXCEPT ![p] = Tail(@)]
        /\ produced' = produced
    BY <1>5 DEF DeliverShare
  <2>2. CASE msg.state = "corrupt"
    <3>1. UNCHANGED <<shareZip, sent, shareLists>>
      BY <1>5, <2>2 DEF DeliverShare
    <3> QED
      BY <2>1, <3>1, ShareWaits
  <2>3. CASE msg.state # "corrupt" /\ ~Joins(shareZip, p)
    <3>1. /\ shareZip' = [shareZip EXCEPT ![p] = Append(@, msg)]
          /\ UNCHANGED <<sent, shareLists>>
      BY <1>5, <2>3 DEF DeliverShare
    <3> QED
      BY <2>1, <3>1, ShareWaits
  <2>4. CASE msg.state # "corrupt" /\ Joins(shareZip, p)
    <3>1. /\ shareZip' = taken(shareZip, p, msg)
          /\ LET msgs == heads(shareZip, p, msg) IN
               IF valid(msgs)
                 THEN ShareList(msgs[p].round)
                 ELSE /\ Fail
                      /\ UNCHANGED <<inputs, shareLists, wire, sent, thrown>>
      BY <1>5, <2>4 DEF DeliverShare
    <3> QED
      BY <2>1, <2>4, <3>1, ShareJoins
  <2> QED
    BY <2>2, <2>3, <2>4
<1>6. ASSUME NEW p \in Proxies, EngineShares(p) PROVE RoundsInLine'
  <2> SUFFICES ASSUME NEW q \in Proxies
               PROVE  Line(rounds(sent), shareLists, rounds(shareZip[q]),
                           rounds(shares'[q]), produced'[q])
    BY <1>6 DEF EngineShares, client, RoundsInLine
  <2> DEFINE round == produced[p] + 1
  <2>1. /\ shares \in [Proxies -> Seq(ShareMsg)]
        /\ produced \in [Proxies -> 0..MaxRounds]
    BY DEF TypeOK
  <2>2. Line(rounds(sent), shareLists, rounds(shareZip[q]), rounds(shares[q]),
             produced[q])
    BY DEF RoundsInLine
  <2>3. produced' = [produced EXCEPT ![p] = round] /\ round \in Rounds
    BY <1>6, <2>1, BoundsAssumption DEF EngineShares, Rounds
  <2>4. \/ shares' = shares
        \/ \E state \in {"good", "invalid", "corrupt"} :
             shares' = [shares EXCEPT ![p] =
               Append(@, [round |-> round, state |-> state])]
    BY <1>6 DEF EngineShares
  <2>5. CASE q # p
    <3>1. shares'[q] = shares[q] /\ produced'[q] = produced[q]
      BY <2>1, <2>3, <2>4, <2>5
    <3> QED
      BY <2>2, <3>1
  <2>6. CASE q = p
    <3>1. produced'[q] = produced[q] + 1
      BY <2>1, <2>3, <2>6
    <3>2. /\ Line(rounds(sent), shareLists, rounds(shareZip[q]),
                  rounds(shares[q]), produced[q] + 1)
          /\ Line(rounds(sent), shareLists, rounds(shareZip[q]),
                  Append(rounds(shares[q]), produced[q] + 1), produced[q] + 1)
      BY <2>2, RoundsTypes, LineEnter
    <3>3. CASE shares' = shares
      BY <3>1, <3>2, <3>3
    <3>4. CASE \E state \in {"good", "invalid", "corrupt"} :
                 shares' = [shares EXCEPT ![p] =
                   Append(@, [round |-> round, state |-> state])]
      <4>1. PICK state \in {"good", "invalid", "corrupt"} :
              shares' = [shares EXCEPT ![p] =
                Append(@, [round |-> round, state |-> state])]
        BY <3>4
      <4> DEFINE m == [round |-> round, state |-> state]
      <4>2. m \in ShareMsg /\ m.round = produced[q] + 1
        BY <2>3, <2>6 DEF ShareMsg
      <4>3. shares'[q] = Append(shares[q], m) /\ shares[q] \in Seq(ShareMsg)
        BY <2>1, <2>6, <4>1
      <4> HIDE DEF m
      <4>4. rounds(shares'[q]) = Append(rounds(shares[q]), produced[q] + 1)
        BY <4>2, <4>3, RoundsOfShares
      <4> QED
        BY <3>1, <3>2, <4>4
    <3> QED
      BY <2>4, <3>3, <3>4
  <2> QED
    BY <2>5, <2>6
<1>7. ASSUME NEW p \in Proxies, DeliverAck(p) PROVE RoundsInLine'
  <2>1. UNCHANGED <<sent, shareLists, shareZip, shares, produced>>
    BY <1>7 DEF DeliverAck
  <2> QED
    BY <1>1, <2>1
<1>8. ASSUME NEW p \in Proxies, HandleSend(p) PROVE RoundsInLine'
  <2>1. UNCHANGED <<sent, shareLists, shareZip, shares, produced>>
    BY <1>8 DEF HandleSend, client
  <2> QED
    BY <1>1, <2>1
<1>9. CASE StatusChanges
  BY <1>1, <1>9 DEF StatusChanges, engines
<1>10. CASE UNCHANGED vars
  BY <1>1, <1>10 DEF vars
<1> QED
  BY <1>2, <1>3, <1>4, <1>5, <1>6, <1>7, <1>8, <1>9, <1>10
  DEF Next, ApplicationStep, ProxyStep

\* Every step keeps the inputs in line: a call adds one, pairing takes one
LEMMA SendsStep ==
  TypeOK /\ ZipsDrained /\ SendsInLine /\ [Next]_vars => SendsInLine'
<1> SUFFICES ASSUME TypeOK, ZipsDrained, SendsInLine, [Next]_vars
             PROVE  SendsInLine'
  OBVIOUS
<1>0. /\ sends(sent) \in Seq(Nat) /\ sends(inputs) \in Seq(Nat)
      /\ <<>> \in Seq(Nat) /\ calls \in Nat
      /\ sent \in Seq(Masked) /\ inputs \in Seq(Input)
  <2>1. /\ sent \in Seq(Masked) /\ inputs \in Seq(Input)
        /\ calls \in 0..MaxSends
    BY DEF TypeOK
  <2> QED
    BY <2>1, BoundsAssumption, SendsOfSent, SendsOfInputs
<1>1. /\ Line(sends(sent), sends(inputs), <<>>, <<>>, calls)
      /\ Line(sends(sent), sends(inputs), <<>>, <<>>, calls + 1)
      /\ Line(sends(sent), Append(sends(inputs), calls + 1), <<>>, <<>>,
              calls + 1)
  BY <1>0, LineEnter DEF SendsInLine
<1>2. ASSUME UNCHANGED <<sent, inputs, calls>> PROVE SendsInLine'
  BY <1>2 DEF SendsInLine, sends
<1>3. ASSUME UNCHANGED <<sent, inputs>>, calls' = calls + 1 PROVE SendsInLine'
  BY <1>1, <1>3 DEF SendsInLine, sends
<1>4. ASSUME NEW s \in Sends, SendRefused(s) PROVE SendsInLine'
  BY <1>3, <1>4 DEF SendRefused, Call, engines
<1>5. ASSUME NEW s \in Sends, SendClear(s) PROVE SendsInLine'
  BY <1>3, <1>5 DEF SendClear, Call
<1>6. ASSUME NEW s \in Sends, NEW size \in Sizes, SendSecret(s, size)
      PROVE  SendsInLine'
  <2> DEFINE input == [send |-> s, size |-> size]
             state == [promise EXCEPT ![s] = "pending"]
             waiting == listening \union {s}
             afterThrow == [state EXCEPT ![s] = "rejected"]
  <2>1. input \in Input /\ input.send = calls + 1 /\ calls' = calls + 1
    BY <1>6 DEF SendSecret, Call, Input
  <2>2. CASE shareLists = <<>>
    <3>1. sent' = sent /\ inputs' = Append(inputs, input)
      BY <1>6, <2>2 DEF SendSecret
    <3> HIDE DEF input
    <3>2. sends(inputs') = Append(sends(inputs), calls + 1)
      BY <1>0, <2>1, <3>1, SendsOfInputs
    <3>3. sends(sent') = sends(sent)
      BY <3>1
    <3> QED
      BY <1>1, <2>1, <3>2, <3>3 DEF SendsInLine
  <2>3. CASE shareLists # <<>>
    <3>1. /\ Pair(input, Head(shareLists), state, waiting, afterThrow)
          /\ inputs' = inputs /\ inputs = <<>>
      BY <1>6, <2>3 DEF SendSecret, ZipsDrained
    <3>2. Head(shareLists) \in Rounds
      BY <2>3, HeadTailProperties DEF TypeOK
    <3> DEFINE b == Append(sends(inputs), calls + 1)
    <3> HIDE DEF input, state, waiting, afterThrow
    <3>3. sends(inputs) = <<>> /\ sends(inputs') = <<>>
      BY <1>0, <3>1, SendsOfInputs
    <3>4. /\ b \in Seq(Nat) /\ b # <<>>
          /\ Head(b) = input.send /\ Tail(b) = <<>>
      BY <1>0, <2>1, <3>3
    <3>5. Line(sends(sent), b, <<>>, <<>>, calls + 1) /\ calls + 1 \in Nat
      BY <1>0, <1>1
    <3> HIDE DEF b
    <3>6. Line(sends(sent'), Tail(b), <<>>, <<>>, calls + 1)
      BY <2>1, <3>1, <3>2, <3>4, <3>5, PairSends
    <3> QED
      BY <2>1, <3>3, <3>4, <3>6 DEF SendsInLine
  <2> QED
    BY <2>2, <2>3
<1>7. ASSUME NEW p \in Proxies, DeliverShare(p) PROVE SendsInLine'
  <2>1. calls' = calls
    BY <1>7 DEF DeliverShare
  <2>2. \/ UNCHANGED <<sent, inputs>>
        \/ /\ Head(shares[p]).state # "corrupt" /\ Joins(shareZip, p)
           /\ ShareList(heads(shareZip, p, Head(shares[p]))[p].round)
    BY <1>7 DEF DeliverShare
  <2>3. ASSUME Joins(shareZip, p)
        PROVE  heads(shareZip, p, Head(shares[p]))[p].round \in Rounds
    <3>1. /\ Head(shares[p]) \in ShareMsg
          /\ shareZip \in [Proxies -> Seq(ShareMsg)]
      BY <1>7, HeadTailProperties DEF DeliverShare, TypeOK
    <3>2. heads(shareZip, p, Head(shares[p])) \in [Proxies -> ShareMsg]
      BY <2>3, <3>1, JoinType
    <3> QED
      BY <3>2 DEF ShareMsg
  <2>4. CASE UNCHANGED <<sent, inputs>>
    BY <1>2, <2>1, <2>4
  <2>5. ASSUME NEW round \in Rounds, ShareList(round) PROVE SendsInLine'
    BY <1>0, <1>1, <2>1, <2>5, ShareListSends DEF SendsInLine
  <2> QED
    BY <2>2, <2>3, <2>4, <2>5
<1>8. ASSUME NEW p \in Proxies, DeliverAck(p) PROVE SendsInLine'
  BY <1>2, <1>8 DEF DeliverAck
<1>9. ASSUME NEW p \in Proxies, EngineShares(p) PROVE SendsInLine'
  BY <1>2, <1>9 DEF EngineShares, client
<1>10. ASSUME NEW p \in Proxies, HandleSend(p) PROVE SendsInLine'
  BY <1>2, <1>10 DEF HandleSend, client
<1>11. CASE StatusChanges
  BY <1>2, <1>11 DEF StatusChanges
<1>12. CASE UNCHANGED vars
  BY <1>2, <1>12 DEF vars
<1> QED
  BY <1>4, <1>5, <1>6, <1>7, <1>8, <1>9, <1>10, <1>11, <1>12
  DEF Next, ApplicationStep, ProxyStep

-----------------------------------------------------------------------------
(* What a step does outside the client.                                    *)

\* Nothing, or a masked or a clear input goes out, or an engine handles one
LEMMA OutsideStep ==
  ASSUME TypeOK, [Next]_vars
  PROVE  \/ UNCHANGED <<sent, wire, got>>
         \/ \E m \in Masked : GoesOut(m)
         \/ \E s \in Sends :
              Emit([send |-> s, round |-> 0]) /\ UNCHANGED <<sent, got>>
         \/ \E p \in Proxies : HandleSend(p)
<1>1. ASSUME NEW s \in Sends, SendRefused(s) PROVE UNCHANGED <<sent, wire, got>>
  BY <1>1 DEF SendRefused, engines
<1>2. ASSUME NEW s \in Sends, SendClear(s)
      PROVE  Emit([send |-> s, round |-> 0]) /\ UNCHANGED <<sent, got>>
  BY <1>2 DEF SendClear
<1>3. ASSUME NEW s \in Sends, NEW size \in Sizes, SendSecret(s, size)
      PROVE  UNCHANGED <<sent, wire, got>> \/ \E m \in Masked : GoesOut(m)
  <2> DEFINE input == [send |-> s, size |-> size]
             state == [promise EXCEPT ![s] = "pending"]
             waiting == listening \union {s}
             afterThrow == [state EXCEPT ![s] = "rejected"]
  <2>1. got' = got
    BY <1>3 DEF SendSecret
  <2>2. CASE shareLists = <<>>
    BY <1>3, <2>1, <2>2 DEF SendSecret
  <2>3. CASE shareLists # <<>>
    <3>1. /\ Pair(input, Head(shareLists), state, waiting, afterThrow)
          /\ input \in Input
      BY <1>3, <2>3 DEF SendSecret, Input
    <3>2. Head(shareLists) \in Rounds
      BY <2>3, HeadTailProperties DEF TypeOK
    <3> HIDE DEF input, state, waiting, afterThrow
    <3> QED
      BY <2>1, <3>1, <3>2, PairOut DEF GoesOut
  <2> QED
    BY <2>2, <2>3
<1>4. ASSUME NEW p \in Proxies, DeliverShare(p)
      PROVE  UNCHANGED <<sent, wire, got>> \/ \E m \in Masked : GoesOut(m)
  <2>1. got' = got
    BY <1>4 DEF DeliverShare
  <2>2. \/ UNCHANGED <<sent, wire>>
        \/ /\ Joins(shareZip, p)
           /\ ShareList(heads(shareZip, p, Head(shares[p]))[p].round)
    BY <1>4 DEF DeliverShare
  <2>3. ASSUME Joins(shareZip, p)
        PROVE  heads(shareZip, p, Head(shares[p]))[p].round \in Rounds
    <3>1. /\ Head(shares[p]) \in ShareMsg
          /\ shareZip \in [Proxies -> Seq(ShareMsg)]
      BY <1>4, HeadTailProperties DEF DeliverShare, TypeOK
    <3>2. heads(shareZip, p, Head(shares[p])) \in [Proxies -> ShareMsg]
      BY <2>3, <3>1, JoinType
    <3> QED
      BY <3>2 DEF ShareMsg
  <2>4. ASSUME NEW round \in Rounds, ShareList(round)
        PROVE  UNCHANGED <<sent, wire>> \/ \E m \in Masked :
                 Emit(m) /\ sent' = Append(sent, m)
    <3>1. CASE inputs = <<>>
      BY <2>4, <3>1 DEF ShareList
    <3>2. CASE inputs # <<>>
      <4>1. /\ Pair(Head(inputs), round, promise, listening, promise)
            /\ Head(inputs) \in Input
        BY <2>4, <3>2, HeadTailProperties DEF ShareList, TypeOK
      <4> QED
        BY <4>1, PairOut
    <3> QED
      BY <3>1, <3>2
  <2> QED
    BY <2>1, <2>2, <2>3, <2>4 DEF GoesOut
<1>5. ASSUME NEW p \in Proxies, DeliverAck(p)
      PROVE  UNCHANGED <<sent, wire, got>>
  BY <1>5 DEF DeliverAck
<1>6. ASSUME NEW p \in Proxies, EngineShares(p)
      PROVE  UNCHANGED <<sent, wire, got>>
  BY <1>6 DEF EngineShares, client
<1>7. ASSUME StatusChanges PROVE UNCHANGED <<sent, wire, got>>
  BY <1>7 DEF StatusChanges, engines
<1>8. ASSUME UNCHANGED vars PROVE UNCHANGED <<sent, wire, got>>
  BY <1>8 DEF vars
<1> QED
  BY <1>1, <1>2, <1>3, <1>4, <1>5, <1>6, <1>7, <1>8
  DEF Next, ApplicationStep, ProxyStep

\* What goes out is later, in input and in round, than all that went before
LEMMA OutLast ==
  ASSUME TypeOK, NEW m \in Masked, GoesOut(m), RoundsInLine', SendsInLine'
  PROVE  \A i \in 1..Len(sent) :
           sent[i].send < m.send /\ sent[i].round < m.round
<1>1. sent \in Seq(Masked)
  BY DEF TypeOK
<1>2. /\ sends(sent') = Append(sends(sent), m.send)
      /\ rounds(sent') = Append(rounds(sent), m.round)
  BY <1>1, SendsOfSent, RoundsOfSent DEF GoesOut
<1>3. Ascends(sends(sent')) /\ Ascends(rounds(sent'))
  <2>1. PICK p \in Proxies : TRUE
    BY ProxiesAssumption
  <2> QED
    BY <2>1 DEF RoundsInLine, SendsInLine, Line
<1>4. ASSUME NEW s \in Seq(Nat), NEW x \in Nat, Ascends(Append(s, x)),
             NEW i \in 1..Len(s)
      PROVE  s[i] < x
  <2>1. /\ Len(Append(s, x)) = Len(s) + 1 /\ Len(s) \in Nat
        /\ Append(s, x)[i] = s[i] /\ Append(s, x)[Len(s) + 1] = x
    BY AppendProperties, LenProperties
  <2> QED
    BY <1>4, <2>1 DEF Ascends
<1>5. /\ sends(sent) \in Seq(Nat) /\ rounds(sent) \in Seq(Nat)
      /\ m.send \in Nat /\ m.round \in Nat
  <2>1. m.send \in Nat /\ m.round \in Nat
    BY DEF Masked, Sends, Rounds
  <2> QED
    BY <1>1, <2>1, SendsOfSent, RoundsOfSent
<1>6. /\ Len(sends(sent)) = Len(sent) /\ Len(rounds(sent)) = Len(sent)
      /\ \A i \in 1..Len(sent) : /\ sends(sent)[i] = sent[i].send
                               /\ rounds(sent)[i] = sent[i].round
  BY <1>1, <1>5, LenProperties DEF sends, rounds
<1>7. ASSUME NEW i \in 1..Len(sent)
      PROVE  sends(sent)[i] < m.send /\ rounds(sent)[i] < m.round
  BY <1>2, <1>3, <1>4, <1>5, <1>6
<1> QED
  BY <1>6, <1>7

\* An engine that handles a masked input gets the next one it lacks
LEMMA HandlesNext ==
  ASSUME TypeOK, SendsInLine, Deliveries, NEW p \in Proxies, HandleSend(p)
  PROVE  /\ Delivery(got'[p], wire'[p], sent)
         /\ \A q \in Proxies \ {p} : got'[q] = got[q] /\ wire'[q] = wire[q]
         /\ \/ got' = got
            \/ /\ Len(got[p]) < Len(sent)
               /\ got' = [got EXCEPT ![p] = Append(@, sent[Len(@) + 1])]
<1> DEFINE msg == Head(wire[p])
<1>1. /\ got \in [Proxies -> Seq(Masked)] /\ wire \in [Proxies -> Seq(DataMsg)]
      /\ sent \in Seq(Masked)
  BY DEF TypeOK
<1>2. /\ wire[p] # <<>> /\ wire' = [wire EXCEPT ![p] = Tail(@)]
      /\ got' = IF msg.round = 0 THEN got
                ELSE [got EXCEPT ![p] = Append(@, msg)]
  BY DEF HandleSend
<1>3. Ascends(sends(sent)) /\ Delivery(got[p], wire[p], sent)
  BY DEF SendsInLine, Line, Deliveries
<1>4. wire'[p] = Tail(wire[p]) /\ \A q \in Proxies \ {p} : wire'[q] = wire[q]
  BY <1>1, <1>2
<1>5. CASE msg.round = 0
  <2>1. Delivery(got[p], Tail(wire[p]), sent)
    BY <1>1, <1>2, <1>3, <1>5, DeliverySkips
  <2> QED
    BY <1>2, <1>4, <1>5, <2>1
<1>6. CASE msg.round # 0
  <2>1. got' = [got EXCEPT ![p] = Append(@, msg)]
    BY <1>2, <1>6
  <2>2. /\ Len(got[p]) < Len(sent) /\ msg = sent[Len(got[p]) + 1]
        /\ Delivery(Append(got[p], msg), Tail(wire[p]), sent)
    BY <1>1, <1>2, <1>3, <1>6, DeliveryTakes
  <2>3. /\ got'[p] = Append(got[p], msg)
        /\ \A q \in Proxies \ {p} : got'[q] = got[q]
    BY <1>1, <2>1
  <2> QED
    BY <1>4, <2>1, <2>2, <2>3
<1> QED
  BY <1>5, <1>6

\* Every step keeps the wires: what goes out is later than what is on them, and
\* an engine takes the head
LEMMA DeliveriesStep ==
  ASSUME TypeOK, SendsInLine, Deliveries, [Next]_vars,
         RoundsInLine', SendsInLine'
  PROVE  Deliveries'
<1> SUFFICES ASSUME NEW q \in Proxies
             PROVE  Delivery(got'[q], wire'[q], sent')
  BY DEF Deliveries
<1>1. /\ got \in [Proxies -> Seq(Masked)] /\ wire \in [Proxies -> Seq(DataMsg)]
      /\ sent \in Seq(Masked) /\ Delivery(got[q], wire[q], sent)
  BY DEF TypeOK, Deliveries
<1>2. CASE UNCHANGED <<sent, wire, got>>
  BY <1>1, <1>2
<1>3. ASSUME NEW m \in Masked, GoesOut(m)
      PROVE  Delivery(got'[q], wire'[q], sent')
  <2>1. /\ got' = got /\ sent' = Append(sent, m)
        /\ wire'[q] = Append(wire[q], m)
    BY <1>3 DEF GoesOut, Emit
  <2>2. \A i \in 1..Len(sent) : sent[i].send < m.send
    BY <1>3, OutLast
  <2>3. Delivery(got[q], Append(wire[q], m), Append(sent, m))
    BY <1>1, <2>2, DeliveryGrows
  <2> QED
    BY <2>1, <2>3
<1>4. ASSUME NEW s \in Sends, Emit([send |-> s, round |-> 0]),
             UNCHANGED <<sent, got>>
      PROVE  Delivery(got'[q], wire'[q], sent')
  <2> DEFINE m == [send |-> s, round |-> 0]
  <2>1. m \in DataMsg /\ m.round = 0 /\ wire'[q] = Append(wire[q], m)
    BY <1>4 DEF DataMsg, Emit
  <2> HIDE DEF m
  <2>2. Delivery(got[q], Append(wire[q], m), sent)
    BY <1>1, <2>1, DeliveryClear
  <2> QED
    BY <1>4, <2>1, <2>2
<1>5. ASSUME NEW p \in Proxies, HandleSend(p)
      PROVE  Delivery(got'[q], wire'[q], sent')
  <2>1. sent' = sent
    BY <1>5 DEF HandleSend, client
  <2> QED
    BY <1>1, <1>5, <2>1, HandlesNext
<1> QED
  BY <1>2, <1>3, <1>4, <1>5, OutsideStep

-----------------------------------------------------------------------------
(* The refinement.                                                         *)

\* The inductive invariant holds at the start
LEMMA IInvInit == Init => IInv
<1> SUFFICES ASSUME Init PROVE IInv
  OBVIOUS
<1>1. TypeOK /\ ZipsDrained
  BY InitType, ZipsInit
<1>2. /\ rounds(<<>>) = <<>> /\ sends(<<>>) = <<>> /\ Len(<<>>) = 0
  BY DEF rounds, sends
<1>3. Line(<<>>, <<>>, <<>>, <<>>, 0)
  BY DEF Line, Ascends, Before, UpTo
<1>4. RoundsInLine
  BY <1>2, <1>3 DEF Init, RoundsInLine
<1>5. SendsInLine
  BY <1>2, <1>3 DEF Init, SendsInLine
<1>6. Deliveries
  <2>1. Delivery(<<>>, <<>>, <<>>)
    BY <1>2 DEF Delivery
  <2> QED
    BY <2>1 DEF Init, Deliveries
<1> QED
  BY <1>1, <1>4, <1>5, <1>6 DEF IInv

\* The inductive invariant is kept by every step
LEMMA IInvStep == IInv /\ [Next]_vars => IInv'
<1> SUFFICES ASSUME IInv, [Next]_vars PROVE IInv'
  OBVIOUS
<1>1. TypeOK' /\ ZipsDrained' /\ RoundsInLine' /\ SendsInLine'
  BY NextType, ZipsStep, RoundsStep, SendsStep DEF IInv
<1>2. Deliveries'
  BY <1>1, DeliveriesStep DEF IInv
<1> QED
  BY <1>1, <1>2 DEF IInv

\* Whatever is damaged, invalid, lost or refused, and however calls overlap,
\* inputs leave the client only masked, each input and each mask at most once
\* and in order, and every engine gets them alike: sending implements
\* MaskedInputs (setupSendInputShareStream and the zips before it)
THEOREM Refinement == Spec => SendsMasked
<1>1. Init => Ideal!Init
  BY DEF Init, Ideal!Init
<1>2. IInv /\ IInv' /\ [Next]_vars => [Ideal!Next]_Ideal!vars
  <2> SUFFICES ASSUME IInv, IInv', [Next]_vars
               PROVE  [Ideal!Next]_Ideal!vars
    OBVIOUS
  <2>0. /\ TypeOK /\ SendsInLine /\ Deliveries
        /\ RoundsInLine' /\ SendsInLine'
    BY DEF IInv
  <2>1. CASE UNCHANGED <<sent, wire, got>>
    BY <2>1 DEF Ideal!vars
  <2>2. ASSUME NEW m \in Masked, GoesOut(m) PROVE Ideal!Next
    <3>1. m.send \in Sends /\ m.round \in Rounds
          /\ m = [send |-> m.send, round |-> m.round]
      BY DEF Masked
    <3>2. Ideal!Send(m.send, m.round)
      BY <2>0, <2>2, <3>1, OutLast DEF GoesOut, Ideal!Send
    <3> QED
      BY <3>1, <3>2 DEF Ideal!Next
  <2>3. CASE UNCHANGED <<sent, got>>
    BY <2>3 DEF Ideal!vars
  <2>4. ASSUME NEW p \in Proxies, HandleSend(p) PROVE [Ideal!Next]_Ideal!vars
    <3>1. sent' = sent
      BY <2>4 DEF HandleSend, client
    <3>2. \/ got' = got
          \/ /\ Len(got[p]) < Len(sent)
             /\ got' = [got EXCEPT ![p] = Append(@, sent[Len(@) + 1])]
      BY <2>0, <2>4, HandlesNext
    <3> QED
      BY <3>1, <3>2 DEF Ideal!Next, Ideal!Receive, Ideal!vars
  <2> QED
    BY <2>0, <2>1, <2>2, <2>3, <2>4, OutsideStep
<1> QED
  BY <1>1, <1>2, IInvInit, IInvStep, PTL DEF Spec, SendsMasked, Ideal!Spec

-----------------------------------------------------------------------------
(* Without damage, and with equal sizes, nothing leaves the line.          *)

\* The elements of s are the numbers that follow n
Counts(s, n) == \A i \in 1..Len(s) : s[i] = n + i

\* A line that no number has left holds all numbers up to n
Whole(a, b, c, d, n) ==
  /\ Counts(a, 0)
  /\ Counts(b, Len(a))
  /\ Counts(c, Len(a) + Len(b))
  /\ Counts(d, Len(a) + Len(b) + Len(c))
  /\ n = Len(a) + Len(b) + Len(c) + Len(d)

\* No fault can have damaged or lost a share message, and no input has thrown
Undamaged == Faults \subseteq {"refused"} \/ faults = 0
Sound == Undamaged /\ thrown = {}

Good(s) == \A i \in 1..Len(s) : s[i].state = "good"

Aligned ==
  Sound => \A p \in Proxies :
    /\ Whole(rounds(sent), shareLists, rounds(shareZip[p]), rounds(shares[p]),
             produced[p])
    /\ Good(shareZip[p]) /\ Good(shares[p])

\* A count goes on at its end and is taken up at its head
LEMMA CountsSteps ==
  ASSUME NEW s \in Seq(Nat), NEW n \in Nat, Counts(s, n)
  PROVE  /\ Counts(Append(s, n + Len(s) + 1), n)
         /\ s # <<>> => /\ Head(s) = n + 1
                        /\ Counts(Tail(s), n + 1)
                        /\ Len(Tail(s)) = Len(s) - 1
                        /\ Len(s) \in Nat \ {0}
<1>1. Counts(Append(s, n + Len(s) + 1), n)
  <2> DEFINE x == n + Len(s) + 1
  <2>1. Len(s) \in Nat /\ x \in Nat
    BY LenProperties
  <2>2. /\ Len(Append(s, x)) = Len(s) + 1
        /\ \A i \in 1..Len(s) : Append(s, x)[i] = s[i]
        /\ Append(s, x)[Len(s) + 1] = x
    BY <2>1, AppendProperties
  <2>3. ASSUME NEW i \in 1..(Len(s) + 1) PROVE Append(s, x)[i] = n + i
    <3>1. CASE i = Len(s) + 1
      BY <2>1, <2>2, <3>1
    <3>2. CASE i # Len(s) + 1
      <4>1. i \in 1..Len(s)
        BY <2>1, <3>2
      <4> QED
        BY <2>2, <4>1 DEF Counts
    <3> QED
      BY <3>1, <3>2
  <2> QED
    BY <2>2, <2>3 DEF Counts
<1>2. ASSUME s # <<>>
      PROVE  /\ Head(s) = n + 1 /\ Counts(Tail(s), n + 1)
             /\ Len(Tail(s)) = Len(s) - 1 /\ Len(s) \in Nat \ {0}
  <2>1. /\ Len(s) \in Nat \ {0} /\ Len(Tail(s)) = Len(s) - 1
        /\ \A i \in 1..Len(Tail(s)) : Tail(s)[i] = s[i + 1]
        /\ Head(s) = s[1]
    BY <1>2, HeadTailProperties, LenProperties, EmptySeq
  <2>2. Head(s) = n + 1
    BY <2>1 DEF Counts
  <2>3. ASSUME NEW i \in 1..Len(Tail(s)) PROVE Tail(s)[i] = (n + 1) + i
    <3>1. i + 1 \in 1..Len(s)
      BY <2>1
    <3> QED
      BY <2>1, <3>1 DEF Counts
  <2> QED
    BY <2>1, <2>2, <2>3 DEF Counts
<1> QED
  BY <1>1, <1>2

\* A whole line stays so when the next number enters it and when the head of a
\* queue moves up; the number that moves is known
LEMMA WholeSteps ==
  ASSUME NEW a \in Seq(Nat), NEW b \in Seq(Nat), NEW c \in Seq(Nat),
         NEW d \in Seq(Nat), NEW n \in Nat, Whole(a, b, c, d, n)
  PROVE  /\ Whole(a, b, c, Append(d, n + 1), n + 1)
         /\ b # <<>> => Whole(Append(a, Head(b)), Tail(b), c, d, n)
         /\ c # <<>> => /\ Whole(a, Append(b, Head(c)), Tail(c), d, n)
                        /\ Head(c) = Len(a) + Len(b) + 1
         /\ d # <<>> => Whole(a, b, Append(c, Head(d)), Tail(d), n)
<1>0. Len(a) \in Nat /\ Len(b) \in Nat /\ Len(c) \in Nat /\ Len(d) \in Nat
  BY LenProperties
<1>a. ASSUME NEW s \in Seq(Nat), NEW x \in Nat
      PROVE  Len(Append(s, x)) = Len(s) + 1
  BY AppendProperties
<1>1. Whole(a, b, c, Append(d, n + 1), n + 1)
  <2> DEFINE m == Len(a) + Len(b) + Len(c)
  <2>1. m \in Nat /\ n + 1 = m + Len(d) + 1
    BY <1>0 DEF Whole
  <2>2. Counts(Append(d, m + Len(d) + 1), m)
    BY <2>1, CountsSteps DEF Whole
  <2>3. Len(Append(d, n + 1)) = Len(d) + 1
    BY <1>a
  <2> QED
    BY <1>0, <2>1, <2>2, <2>3 DEF Whole
<1>2. ASSUME b # <<>> PROVE Whole(Append(a, Head(b)), Tail(b), c, d, n)
  <2>1. /\ Head(b) = Len(a) + 1 /\ Counts(Tail(b), Len(a) + 1)
        /\ Len(Tail(b)) = Len(b) - 1
    BY <1>0, <1>2, CountsSteps DEF Whole
  <2>2. Counts(Append(a, 0 + Len(a) + 1), 0)
    BY <1>0, CountsSteps DEF Whole
  <2>3. 0 + Len(a) + 1 = Len(a) + 1 /\ Len(a) + 1 \in Nat
    BY <1>0
  <2>4. Len(Append(a, Head(b))) = Len(a) + 1
    BY <1>a, <2>1, <2>3
  <2>5. (Len(a) + 1) + (Len(b) - 1) = Len(a) + Len(b)
    BY <1>0
  <2> QED
    BY <2>1, <2>2, <2>3, <2>4, <2>5 DEF Whole
<1>3. ASSUME c # <<>>
      PROVE  /\ Whole(a, Append(b, Head(c)), Tail(c), d, n)
             /\ Head(c) = Len(a) + Len(b) + 1
  <2> DEFINE m == Len(a) + Len(b)
  <2>0. m \in Nat
    BY <1>0
  <2>1. /\ Head(c) = m + 1 /\ Counts(Tail(c), m + 1)
        /\ Len(Tail(c)) = Len(c) - 1
    BY <2>0, <1>3, CountsSteps DEF Whole
  <2>2. Counts(Append(b, Len(a) + Len(b) + 1), Len(a))
    BY <1>0, CountsSteps DEF Whole
  <2>3. Len(Append(b, Head(c))) = Len(b) + 1
    BY <1>a, <2>0, <2>1
  <2>4. /\ Len(a) + (Len(b) + 1) = m + 1
        /\ (m + 1) + (Len(c) - 1) = Len(a) + Len(b) + Len(c)
    BY <1>0
  <2> QED
    BY <2>1, <2>2, <2>3, <2>4 DEF Whole
<1>4. ASSUME d # <<>> PROVE Whole(a, b, Append(c, Head(d)), Tail(d), n)
  <2> DEFINE m == Len(a) + Len(b)
             k == m + Len(c)
  <2>0. m \in Nat /\ k \in Nat /\ k = Len(a) + Len(b) + Len(c)
    BY <1>0
  <2>1. /\ Head(d) = k + 1 /\ Counts(Tail(d), k + 1)
        /\ Len(Tail(d)) = Len(d) - 1
    BY <2>0, <1>4, CountsSteps DEF Whole
  <2>2. Counts(Append(c, m + Len(c) + 1), m)
    BY <2>0, CountsSteps DEF Whole
  <2>3. Len(Append(c, Head(d))) = Len(c) + 1
    BY <1>a, <2>0, <2>1
  <2>4. /\ Len(a) + Len(b) + (Len(c) + 1) = k + 1
        /\ (k + 1) + (Len(d) - 1) = k + Len(d)
    BY <1>0
  <2> QED
    BY <2>0, <2>1, <2>2, <2>3, <2>4 DEF Whole
<1> QED
  BY <1>1, <1>2, <1>3, <1>4

\* Sound messages stay sound
LEMMA GoodSteps ==
  ASSUME NEW s \in Seq(ShareMsg), Good(s)
  PROVE  /\ \A m \in ShareMsg : m.state = "good" => Good(Append(s, m))
         /\ s # <<>> => Good(Tail(s)) /\ Head(s).state = "good"
<1>1. ASSUME NEW m \in ShareMsg, m.state = "good" PROVE Good(Append(s, m))
  BY <1>1, AppendProperties DEF Good
<1>2. ASSUME s # <<>> PROVE Good(Tail(s)) /\ Head(s).state = "good"
  BY <1>2, HeadTailProperties DEF Good
<1> QED
  BY <1>1, <1>2

\* With sizes equal, pairing puts the input out unless it throws
LEMMA PairFits ==
  ASSUME MaxSize = 1, TypeOK, NEW input \in Input, NEW round \in Rounds,
         NEW state, NEW waiting, NEW afterThrow,
         Pair(input, round, state, waiting, afterThrow), thrown' = {}
  PROVE  /\ promise' = state /\ listening' = waiting
         /\ \E m \in Masked :
              /\ m.send = input.send /\ m.round = round
              /\ Emit(m) /\ sent' = Append(sent, m)
<1> DEFINE masked == [send |-> input.send, round |-> round]
<1>1. masked \in Masked /\ masked.send = input.send /\ masked.round = round
  BY DEF Masked, Input
<1>2. input.size = roundSize[round]
  <2>1. input.size \in Sizes /\ roundSize[round] \in Sizes
    BY DEF TypeOK, Input
  <2> QED
    BY <2>1 DEF Sizes
<1> QED
  BY <1>1, <1>2 DEF Pair

\* A joined share list goes to the end of those waiting, or is the only one
\* and moves on as a mask
LEMMA ShareListWhole ==
  ASSUME MaxSize = 1, TypeOK, ZipsDrained, NEW round \in Rounds,
         ShareList(round), thrown' = {},
         NEW c \in Seq(Nat), NEW d \in Seq(Nat), NEW n \in Nat,
         Whole(rounds(sent), Append(shareLists, round), c, d, n)
  PROVE  Whole(rounds(sent'), shareLists', c, d, n)
<1>1. /\ sent \in Seq(Masked) /\ inputs \in Seq(Input)
      /\ shareLists \in Seq(Nat) /\ rounds(sent) \in Seq(Nat)
      /\ round \in Nat
  <2>1. /\ sent \in Seq(Masked) /\ inputs \in Seq(Input)
        /\ shareLists \in Seq(Rounds) /\ Rounds \subseteq Nat
    BY DEF TypeOK, Rounds
  <2>2. rounds(sent) \in Seq(Nat)
    BY <2>1, RoundsOfSent
  <2>3. shareLists \in Seq(Nat)
    BY <2>1, SeqMonotonic
  <2> QED
    BY <2>1, <2>2, <2>3
<1>2. CASE inputs = <<>>
  BY <1>2 DEF ShareList
<1>3. CASE inputs # <<>>
  <2>1. shareLists = <<>> /\ shareLists' = shareLists
    BY <1>3 DEF ShareList, ZipsDrained
  <2>2. /\ Append(shareLists, round) \in Seq(Nat)
        /\ Append(shareLists, round) # <<>>
        /\ Head(Append(shareLists, round)) = round
        /\ Tail(Append(shareLists, round)) = <<>>
    BY <1>1, <2>1
  <2>3. Whole(Append(rounds(sent), round), <<>>, c, d, n)
    <3> DEFINE b == Append(shareLists, round)
    <3>1. /\ b \in Seq(Nat) /\ b # <<>> /\ Head(b) = round /\ Tail(b) = <<>>
          /\ Whole(rounds(sent), b, c, d, n)
      BY <2>2
    <3> HIDE DEF b
    <3>2. Whole(Append(rounds(sent), Head(b)), Tail(b), c, d, n)
      BY <1>1, <3>1, WholeSteps
    <3> QED
      BY <3>1, <3>2
  <2>4. Head(inputs) \in Input
    BY <1>1, <1>3, HeadTailProperties
  <2>5. \E m \in Masked : m.round = round /\ sent' = Append(sent, m)
    BY <1>3, <2>4, PairFits DEF ShareList
  <2>6. rounds(sent') = Append(rounds(sent), round)
    BY <1>1, <2>5, RoundsOfSent
  <2> QED
    BY <2>1, <2>3, <2>6
<1> QED
  BY <1>2, <1>3

\* A sound share message waits in the zip
LEMMA WaitsWhole ==
  ASSUME TypeOK, Aligned, Sound, NEW p \in Proxies, shares[p] # <<>>,
         shares' = [shares EXCEPT ![p] = Tail(@)],
         UNCHANGED <<sent, shareLists, produced>>,
         shareZip' = [shareZip EXCEPT ![p] = Append(@, Head(shares[p]))]
  PROVE  Aligned'
<1> SUFFICES ASSUME NEW q \in Proxies
             PROVE  /\ Whole(rounds(sent), shareLists, rounds(shareZip'[q]),
                             rounds(shares'[q]), produced[q])
                    /\ Good(shareZip'[q]) /\ Good(shares'[q])
  BY DEF Aligned, Good
<1>1. /\ Whole(rounds(sent), shareLists, rounds(shareZip[q]),
               rounds(shares[q]), produced[q])
      /\ Good(shareZip[q]) /\ Good(shares[q])
      /\ shares \in [Proxies -> Seq(ShareMsg)]
      /\ shareZip \in [Proxies -> Seq(ShareMsg)]
  BY DEF Aligned, TypeOK
<1>2. CASE q # p
  <2>1. shareZip'[q] = shareZip[q] /\ shares'[q] = shares[q]
    BY <1>1, <1>2
  <2> QED
    BY <1>1, <2>1
<1>3. CASE q = p
  <2> DEFINE msg == Head(shares[q])
  <2>1. /\ shares'[q] = Tail(shares[q])
        /\ shareZip'[q] = Append(shareZip[q], msg)
        /\ shares[q] \in Seq(ShareMsg) /\ shares[q] # <<>>
        /\ shareZip[q] \in Seq(ShareMsg)
    BY <1>1, <1>3
  <2>2. /\ msg \in ShareMsg /\ msg.state = "good"
        /\ Good(Tail(shares[q])) /\ Good(Append(shareZip[q], msg))
    <3>1. msg \in ShareMsg /\ msg.state = "good" /\ Good(Tail(shares[q]))
      BY <1>1, <2>1, HeadTailProperties, GoodSteps
    <3> QED
      BY <1>1, <2>1, <3>1, GoodSteps
  <2>3. /\ rounds(shares[q]) # <<>>
        /\ rounds(Tail(shares[q])) = Tail(rounds(shares[q]))
        /\ Head(rounds(shares[q])) = msg.round
        /\ rounds(Append(shareZip[q], msg))
             = Append(rounds(shareZip[q]), msg.round)
    BY <2>1, <2>2, RoundsOfShares
  <2> HIDE DEF msg
  <2>4. Whole(rounds(sent), shareLists,
              Append(rounds(shareZip[q]), Head(rounds(shares[q]))),
              Tail(rounds(shares[q])), produced[q])
    BY <1>1, <2>3, RoundsTypes, WholeSteps
  <2> QED
    BY <2>1, <2>2, <2>3, <2>4
<1> QED
  BY <1>2, <1>3

\* Sound share messages that join are those of one round, the next
LEMMA JoinsWhole ==
  ASSUME MaxSize = 1, TypeOK, ZipsDrained, Aligned, Sound, thrown' = {},
         NEW p \in Proxies, shares[p] # <<>>,
         shares' = [shares EXCEPT ![p] = Tail(@)],
         UNCHANGED produced, Joins(shareZip, p),
         shareZip' = taken(shareZip, p, Head(shares[p])),
         LET msgs == heads(shareZip, p, Head(shares[p])) IN
           IF valid(msgs)
             THEN ShareList(msgs[p].round)
             ELSE Fail /\ UNCHANGED <<inputs, shareLists, wire, sent, thrown>>
  PROVE  /\ Aligned'
         /\ \E round \in Rounds : ShareList(round)
<1> DEFINE msg == Head(shares[p])
           msgs == heads(shareZip, p, msg)
           z(q) == IF q = p THEN Append(shareZip[q], msg) ELSE shareZip[q]
           next == Len(rounds(sent)) + Len(shareLists) + 1
<1>1. /\ shares \in [Proxies -> Seq(ShareMsg)]
      /\ shareZip \in [Proxies -> Seq(ShareMsg)]
      /\ msg \in ShareMsg /\ msg.state = "good"
      /\ \A q \in Proxies :
           /\ Good(shareZip[q]) /\ Good(shares[q])
           /\ Whole(rounds(sent), shareLists, rounds(shareZip[q]),
                    rounds(shares[q]), produced[q])
  <2>1. /\ shares \in [Proxies -> Seq(ShareMsg)]
        /\ shareZip \in [Proxies -> Seq(ShareMsg)]
        /\ \A q \in Proxies :
             /\ Good(shareZip[q]) /\ Good(shares[q])
             /\ Whole(rounds(sent), shareLists, rounds(shareZip[q]),
                      rounds(shares[q]), produced[q])
    BY DEF TypeOK, Aligned
  <2>2. msg \in ShareMsg /\ msg.state = "good"
    BY <2>1, HeadTailProperties, GoodSteps
  <2> QED
    BY <2>1, <2>2
<1>2. ASSUME NEW q \in Proxies
      PROVE  /\ z(q) \in Seq(ShareMsg) /\ z(q) # <<>> /\ Good(z(q))
             /\ Whole(rounds(sent), shareLists, rounds(z(q)),
                      rounds(shares'[q]), produced[q])
  <2>1. CASE q # p
    <3>1. z(q) = shareZip[q] /\ shares'[q] = shares[q] /\ shareZip[q] # <<>>
      BY <1>1, <2>1 DEF Joins
    <3> QED
      BY <1>1, <3>1
  <2>2. CASE q = p
    <3>1. /\ z(q) = Append(shareZip[q], msg) /\ shares'[q] = Tail(shares[q])
          /\ shares[q] \in Seq(ShareMsg) /\ shares[q] # <<>>
          /\ shareZip[q] \in Seq(ShareMsg) /\ msg = Head(shares[q])
      BY <1>1, <2>2
    <3> HIDE DEF z, msg
    <3>2. /\ rounds(shares[q]) # <<>>
          /\ rounds(Tail(shares[q])) = Tail(rounds(shares[q]))
          /\ Head(rounds(shares[q])) = msg.round
          /\ rounds(z(q)) = Append(rounds(shareZip[q]), msg.round)
      <4>1. /\ rounds(shares[q]) # <<>>
            /\ rounds(Tail(shares[q])) = Tail(rounds(shares[q]))
            /\ Head(rounds(shares[q])) = msg.round
        BY <3>1, RoundsOfShares
      <4>2. rounds(Append(shareZip[q], msg))
              = Append(rounds(shareZip[q]), msg.round)
        BY <1>1, <3>1, RoundsOfShares
      <4> QED
        BY <3>1, <4>1, <4>2
    <3>3. z(q) \in Seq(ShareMsg) /\ z(q) # <<>> /\ Good(z(q))
      <4>1. PICK o \in Seq(ShareMsg), m \in ShareMsg :
              o = shareZip[q] /\ m = msg /\ Good(o) /\ m.state = "good"
        BY <1>1, <3>1
      <4>2. /\ Append(o, m) \in Seq(ShareMsg) /\ Append(o, m) # <<>>
            /\ Good(Append(o, m))
        BY <4>1, GoodSteps, AppendProperties
      <4> QED
        BY <3>1, <4>1, <4>2
    <3>4. Whole(rounds(sent), shareLists,
                Append(rounds(shareZip[q]), Head(rounds(shares[q]))),
                Tail(rounds(shares[q])), produced[q])
      BY <1>1, <3>2, RoundsTypes, WholeSteps
    <3> QED
      BY <3>1, <3>2, <3>3, <3>4
  <2> QED
    BY <2>1, <2>2
<1>3. ASSUME NEW q \in Proxies
      PROVE  shareZip'[q] = Tail(z(q)) /\ msgs[q] = Head(z(q))
  BY DEF taken, heads
<1>4. ASSUME NEW q \in Proxies
      PROVE  rounds(shareZip[q]) \in Seq(Nat) /\ rounds(shares'[q]) \in Seq(Nat)
  <2>1. shares'[q] \in Seq(ShareMsg)
    BY <1>1, HeadTailProperties
  <2> QED
    BY <1>1, <2>1, RoundsOfShares
<1> HIDE DEF z, msgs, msg
<1>5. ASSUME NEW q \in Proxies
      PROVE  /\ msgs[q] \in ShareMsg /\ msgs[q].state = "good"
             /\ msgs[q].round = next
             /\ Good(shareZip'[q])
             /\ rounds(shareZip'[q]) \in Seq(Nat)
             /\ Whole(rounds(sent), Append(shareLists, next),
                      rounds(shareZip'[q]), rounds(shares'[q]), produced[q])
  <2>1. /\ msgs[q] \in ShareMsg /\ msgs[q].state = "good"
        /\ Good(shareZip'[q]) /\ shareZip'[q] \in Seq(ShareMsg)
    <3>1. PICK y \in Seq(ShareMsg) : y = z(q) /\ y # <<>> /\ Good(y)
      BY <1>2
    <3>2. /\ Head(y) \in ShareMsg /\ Head(y).state = "good"
          /\ Good(Tail(y)) /\ Tail(y) \in Seq(ShareMsg)
      BY <3>1, GoodSteps, HeadTailProperties
    <3> QED
      BY <1>3, <3>1, <3>2
  <2>2. /\ rounds(z(q)) \in Seq(Nat) /\ rounds(z(q)) # <<>>
        /\ rounds(shareZip'[q]) = Tail(rounds(z(q)))
        /\ Head(rounds(z(q))) = msgs[q].round
    BY ZenonT(40), <1>2, <1>3, RoundsOfShares
  <2>3. /\ Head(rounds(z(q))) = next
        /\ Whole(rounds(sent), Append(shareLists, Head(rounds(z(q)))),
                 Tail(rounds(z(q))), rounds(shares'[q]), produced[q])
    BY <1>2, <1>4, <2>2, RoundsTypes, WholeSteps
  <2>4. rounds(shareZip'[q]) \in Seq(Nat)
    BY <2>1, RoundsOfShares
  <2> QED
    BY <2>1, <2>2, <2>3, <2>4
<1>6. valid(msgs)
  BY <1>5 DEF valid
<1>7. ShareList(next) /\ next \in Rounds
  <2>1. ShareList(msgs[p].round)
    BY <1>6 DEF msgs, msg
  <2> QED
    BY <1>5, <2>1 DEF ShareMsg
<1> HIDE DEF next
<1>8. ASSUME NEW q \in Proxies
      PROVE  Whole(rounds(sent'), shareLists', rounds(shareZip'[q]),
                   rounds(shares'[q]), produced[q])
  BY <1>4, <1>5, <1>7, RoundsTypes, ShareListWhole
<1>9. ASSUME NEW q \in Proxies PROVE Good(shares'[q])
  BY <1>1, GoodSteps
<1>10. ASSUME NEW q \in Proxies
       PROVE  /\ Whole(rounds(sent), shareLists, rounds(shareZip[q]),
                       rounds(shares[q]), produced[q])'
              /\ Good(shareZip[q])' /\ Good(shares[q])'
  BY <1>5, <1>8, <1>9 DEF Good
<1> QED
  BY <1>7, <1>10 DEF Aligned

\* Faults only add up
LEMMA SoundSoFar ==
  TypeOK /\ [Next]_vars =>
    /\ faults' >= faults
    /\ Sound' => Sound
    /\ faults' = 0 => faults = 0
    /\ faults' # faults => faults' = faults + 1
<1> SUFFICES ASSUME TypeOK, [Next]_vars
             PROVE  /\ faults' = faults \/ faults' = faults + 1
                    /\ thrown \subseteq thrown'
  BY DEF Sound, Undamaged, TypeOK
<1>1. thrown \subseteq thrown'
  <2>1. ASSUME NEW round, ShareList(round) PROVE thrown \subseteq thrown'
    BY <2>1 DEF ShareList, Pair
  <2>2. ASSUME NEW p \in Proxies, DeliverShare(p) PROVE thrown \subseteq thrown'
    BY <2>1, <2>2 DEF DeliverShare
  <2>3. ASSUME NEW s \in Sends, NEW size \in Sizes, SendSecret(s, size)
        PROVE  thrown \subseteq thrown'
    BY <2>3 DEF SendSecret, Pair
  <2> QED
    BY <2>2, <2>3 DEF Next, ApplicationStep, ProxyStep, SendRefused, SendClear,
        DeliverAck, EngineShares, HandleSend, StatusChanges, client, engines,
        vars
<1>2. faults' = faults \/ faults' = faults + 1
  BY DEF Next, ApplicationStep, ProxyStep, SendRefused, SendClear, SendSecret,
      DeliverShare, DeliverAck, EngineShares, HandleSend, StatusChanges,
      FaultHappens, engines, vars
<1> QED
  BY <1>1, <1>2

\* Without damage every round stays in line: those made up to now are used as
\* masks, or wait, and none is missing
LEMMA AlignedStep ==
  ASSUME MaxSize = 1
  PROVE  TypeOK /\ ZipsDrained /\ Aligned /\ [Next]_vars => Aligned'
<1> SUFFICES ASSUME TypeOK, ZipsDrained, Aligned, [Next]_vars, Sound, Sound'
             PROVE  Aligned'
  BY SoundSoFar DEF Aligned
<1>1. ASSUME UNCHANGED <<sent, shareLists, shareZip, shares, produced>>
      PROVE  Aligned'
  BY <1>1 DEF Aligned, rounds, Good
<1>2. ASSUME NEW s \in Sends, NEW size \in Sizes, SendSecret(s, size)
      PROVE  Aligned'
  <2>1. UNCHANGED <<shareZip, shares, produced>>
    BY <1>2 DEF SendSecret
  <2>2. CASE shareLists = <<>>
    <3>1. UNCHANGED <<sent, shareLists>>
      BY <1>2, <2>2 DEF SendSecret
    <3> QED
      BY <1>1, <2>1, <3>1
  <2>3. CASE shareLists # <<>>
    <3> DEFINE input == [send |-> s, size |-> size]
               state == [promise EXCEPT ![s] = "pending"]
               waiting == listening \union {s}
               afterThrow == [state EXCEPT ![s] = "rejected"]
    <3>1. /\ Pair(input, Head(shareLists), state, waiting, afterThrow)
          /\ shareLists' = Tail(shareLists)
      BY <1>2, <2>3 DEF SendSecret
    <3>2. input \in Input /\ Head(shareLists) \in Rounds
      BY <2>3, HeadTailProperties DEF TypeOK, Input
    <3> HIDE DEF input, state, waiting, afterThrow
    <3>3. \E m \in Masked :
            m.round = Head(shareLists) /\ sent' = Append(sent, m)
      BY <3>1, <3>2, PairFits DEF Sound
    <3>4. rounds(sent') = Append(rounds(sent), Head(shareLists))
      BY <3>3, RoundsOfSent DEF TypeOK
    <3>5. ASSUME NEW q \in Proxies
          PROVE  Whole(rounds(sent'), shareLists', rounds(shareZip[q]),
                       rounds(shares[q]), produced[q])
      <4>1. Whole(rounds(sent), shareLists, rounds(shareZip[q]),
                  rounds(shares[q]), produced[q])
        BY DEF Aligned
      <4>2. Whole(Append(rounds(sent), Head(shareLists)), Tail(shareLists),
                  rounds(shareZip[q]), rounds(shares[q]), produced[q])
        BY <2>3, <4>1, RoundsTypes, WholeSteps
      <4> QED
        BY <3>1, <3>4, <4>2
    <3> QED
      BY <2>1, <3>5 DEF Aligned, Good
  <2> QED
    BY <2>2, <2>3
<1>3. ASSUME NEW p \in Proxies, DeliverShare(p) PROVE Aligned'
  <2> DEFINE msg == Head(shares[p])
  <2>1. /\ shares[p] # <<>>
        /\ shares' = [shares EXCEPT ![p] = Tail(@)]
        /\ produced' = produced
    BY <1>3 DEF DeliverShare
  <2>2. msg.state # "corrupt"
    <3>1. shares[p] \in Seq(ShareMsg) /\ Good(shares[p])
      BY DEF TypeOK, Aligned
    <3> QED
      BY <2>1, <3>1, GoodSteps
  <2>3. CASE ~Joins(shareZip, p)
    <3>1. /\ shareZip' = [shareZip EXCEPT ![p] = Append(@, msg)]
          /\ UNCHANGED <<sent, shareLists>>
      BY <1>3, <2>2, <2>3 DEF DeliverShare
    <3> QED
      BY <2>1, <3>1, WaitsWhole
  <2>4. CASE Joins(shareZip, p)
    <3>1. /\ shareZip' = taken(shareZip, p, msg)
          /\ LET msgs == heads(shareZip, p, msg) IN
               IF valid(msgs)
                 THEN ShareList(msgs[p].round)
                 ELSE /\ Fail
                      /\ UNCHANGED <<inputs, shareLists, wire, sent, thrown>>
      BY <1>3, <2>2, <2>4 DEF DeliverShare
    <3> QED
      BY <2>1, <2>4, <3>1, JoinsWhole DEF Sound
  <2> QED
    BY <2>3, <2>4
<1>4. ASSUME NEW p \in Proxies, EngineShares(p) PROVE Aligned'
  <2> DEFINE m == [round |-> produced[p] + 1, state |-> "good"]
  <2>1. /\ shares \in [Proxies -> Seq(ShareMsg)]
        /\ produced \in [Proxies -> 0..MaxRounds]
        /\ faults \in Nat
    BY DEF TypeOK
  <2>2. /\ shares' = [shares EXCEPT ![p] = Append(@, m)]
        /\ produced' = [produced EXCEPT ![p] = @ + 1]
        /\ UNCHANGED <<sent, shareLists, shareZip>>
    BY <1>4, <2>1 DEF EngineShares, FaultHappens, Sound, Undamaged, client
  <2>3. m \in ShareMsg /\ m.state = "good" /\ m.round = produced[p] + 1
    <3>1. produced[p] + 1 \in Rounds
      BY <1>4, <2>1, BoundsAssumption DEF EngineShares, Rounds
    <3> QED
      BY <3>1 DEF ShareMsg
  <2> HIDE DEF m
  <2>4. ASSUME NEW q \in Proxies
        PROVE  /\ Whole(rounds(sent), shareLists, rounds(shareZip[q]),
                        rounds(shares'[q]), produced'[q])
               /\ Good(shares'[q])
    <3>1. /\ Whole(rounds(sent), shareLists, rounds(shareZip[q]),
                   rounds(shares[q]), produced[q])
          /\ Good(shares[q])
      BY DEF Aligned
    <3>2. CASE q # p
      <4>1. shares'[q] = shares[q] /\ produced'[q] = produced[q]
        BY <2>1, <2>2, <3>2
      <4> QED
        BY <3>1, <4>1
    <3>3. CASE q = p
      <4>1. /\ shares'[q] = Append(shares[q], m) /\ shares[q] \in Seq(ShareMsg)
            /\ produced'[q] = produced[q] + 1 /\ m.round = produced[q] + 1
        BY <2>1, <2>2, <2>3, <3>3
      <4>2. rounds(shares'[q]) = Append(rounds(shares[q]), produced[q] + 1)
        BY <2>3, <4>1, RoundsOfShares
      <4>3. Whole(rounds(sent), shareLists, rounds(shareZip[q]),
                  Append(rounds(shares[q]), produced[q] + 1), produced[q] + 1)
        BY <3>1, RoundsTypes, WholeSteps
      <4>4. Good(shares'[q])
        BY <2>3, <3>1, <4>1, GoodSteps
      <4> QED
        BY <4>1, <4>2, <4>3, <4>4
    <3> QED
      BY <3>2, <3>3
  <2> QED
    BY <2>2, <2>4 DEF Aligned, Good
<1>5. ASSUME NEW s \in Sends, SendRefused(s) \/ SendClear(s) PROVE Aligned'
  BY <1>1, <1>5 DEF SendRefused, SendClear, engines
<1>6. ASSUME NEW p \in Proxies, DeliverAck(p) \/ HandleSend(p)
      PROVE  Aligned'
  <2>1. UNCHANGED <<sent, shareLists, shareZip, shares, produced>>
    BY <1>6 DEF DeliverAck, HandleSend, client
  <2> QED
    BY <1>1, <2>1
<1>7. CASE StatusChanges
  BY <1>1, <1>7 DEF StatusChanges, engines
<1>8. CASE UNCHANGED vars
  BY <1>1, <1>8 DEF vars
<1> QED
  BY <1>2, <1>3, <1>4, <1>5, <1>6, <1>7, <1>8
  DEF Next, ApplicationStep, ProxyStep

LEMMA AlignedInit == Init => Aligned
<1> SUFFICES ASSUME Init PROVE Aligned
  OBVIOUS
<1>1. rounds(<<>>) = <<>> /\ Len(<<>>) = 0
  BY DEF rounds
<1>2. Whole(<<>>, <<>>, <<>>, <<>>, 0) /\ Good(<<>>)
  BY <1>1 DEF Whole, Counts, Good
<1> QED
  BY <1>1, <1>2 DEF Init, Aligned

\* With equal sizes, and no share message damaged or lost, the k-th input to
\* leave the client is masked with the k-th round, whatever else overlaps or
\* is refused, until an input throws (setupSendInputShareStream)
THEOREM MasksStayAligned ==
  ASSUME MaxSize = 1
  PROVE  Spec => [](Undamaged => MasksAligned)
<1> DEFINE Inv == TypeOK /\ ZipsDrained /\ Aligned
<1>1. Init => Inv
  BY InitType, ZipsInit, AlignedInit
<1>2. Inv /\ [Next]_vars => Inv'
  BY NextType, ZipsStep, AlignedStep
<1>3. Inv => (Undamaged => MasksAligned)
  <2> SUFFICES ASSUME Inv, Sound, NEW k \in 1..Len(sent)
               PROVE  sent[k].round = k
    BY DEF MasksAligned, Sound
  <2>1. Counts(rounds(sent), 0)
    BY ProxiesAssumption DEF Aligned, Whole
  <2>2. Len(sent) \in Nat /\ Len(rounds(sent)) = Len(sent)
        /\ rounds(sent)[k] = sent[k].round
    BY DEF TypeOK, rounds
  <2> QED
    BY <2>1, <2>2 DEF Counts
<1> QED
  BY <1>1, <1>2, <1>3, PTL DEF Spec

-----------------------------------------------------------------------------
(* No send is stranded.                                                    *)

\* At each proxy something keeps send x alive, or its input waits or threw
Held(x) ==
  \/ x \in thrown
  \/ Waits(x)
  \/ \A p \in Proxies : Goes(x, p) \/ Comes(x, p) \/ ackZip[p] # <<>>

\* A pending send is subscribed, so that the next error or joined response
\* settles it, and each response on its way puts a copy in the zip
Lively ==
  /\ listening # {} => handlers # 0
  /\ \A x \in Sends : promise[x] = "pending" => x \in listening /\ Held(x)

\* What keeps a send alive stays if no message or response leaves
LEMMA HeldStays ==
  ASSUME NEW x, Held(x), UNCHANGED <<acks, ackZip>>,
         thrown \subseteq thrown', Waits(x) => Waits(x)',
         \A p \in Proxies : Goes(x, p) => Goes(x, p)'
  PROVE  Held(x)'
BY DEF Held, Comes

\* What goes to all sockets is under way to each, behind what is already
LEMMA EmitGoes ==
  ASSUME TypeOK, NEW msg \in DataMsg, Emit(msg), NEW p \in Proxies
  PROVE  Goes(msg.send, p)' /\ \A x : Goes(x, p) => Goes(x, p)'
<1>1. wire[p] \in Seq(DataMsg) /\ wire'[p] = Append(wire[p], msg)
  BY DEF TypeOK, Emit
<1>2. /\ Len(wire'[p]) = Len(wire[p]) + 1 /\ Len(wire[p]) \in Nat
      /\ \A k \in 1..Len(wire[p]) : wire'[p][k] = wire[p][k]
      /\ wire'[p][Len(wire[p]) + 1] = msg
  BY <1>1, AppendProperties, LenProperties
<1> QED
  BY <1>2 DEF Goes

\* An input that comes to wait does, and those before it still do
LEMMA AppendWaits ==
  ASSUME TypeOK, NEW input \in Input, inputs' = Append(inputs, input)
  PROVE  Waits(input.send)' /\ \A x : Waits(x) => Waits(x)'
<1>1. inputs \in Seq(Input)
  BY DEF TypeOK
<1>2. /\ Len(inputs') = Len(inputs) + 1 /\ Len(inputs) \in Nat
      /\ \A k \in 1..Len(inputs) : inputs'[k] = inputs[k]
      /\ inputs'[Len(inputs) + 1] = input
  BY <1>1, AppendProperties, LenProperties
<1> QED
  BY <1>2 DEF Waits

\* All but the first input go on waiting when that leaves
LEMMA TailWaits ==
  ASSUME TypeOK, inputs # <<>>, inputs' = Tail(inputs), NEW x, Waits(x)
  PROVE  Waits(x)' \/ x = Head(inputs).send
<1>1. /\ Len(inputs) \in Nat \ {0} /\ Head(inputs) = inputs[1]
      /\ Len(inputs') = Len(inputs) - 1
      /\ \A k \in 1..Len(inputs') : inputs'[k] = inputs[k + 1]
  BY HeadTailProperties, LenProperties, EmptySeq DEF TypeOK
<1>2. PICK k \in 1..Len(inputs) : inputs[k].send = x
  BY DEF Waits
<1>3. CASE k = 1
  BY <1>1, <1>2, <1>3
<1>4. CASE k # 1
  <2>1. k - 1 \in 1..Len(inputs') /\ inputs'[k - 1] = inputs[k]
    BY <1>1, <1>4
  <2> QED
    BY <1>2, <2>1 DEF Waits
<1> QED
  BY <1>3, <1>4

\* A message that a proxy handles becomes the response to it
LEMMA HandleHolds ==
  ASSUME TypeOK, NEW p \in Proxies, HandleSend(p), NEW x, Held(x)
  PROVE  Held(x)'
<1>1. /\ wire \in [Proxies -> Seq(DataMsg)] /\ acks \in [Proxies -> Seq(Ack)]
      /\ wire[p] # <<>> /\ wire' = [wire EXCEPT ![p] = Tail(@)]
      /\ UNCHANGED <<inputs, thrown, ackZip>>
  BY DEF TypeOK, HandleSend, client
<1>a. Head(wire[p]) \in DataMsg
  BY <1>1, HeadTailProperties
<1>b. PICK msg \in DataMsg : msg = Head(wire[p])
  BY <1>a
<1>2. PICK status \in BOOLEAN :
        acks' = [acks EXCEPT ![p] =
          Append(@, [send |-> msg.send, status |-> status])]
  BY <1>b DEF HandleSend
<1> DEFINE a == [send |-> msg.send, status |-> status]
<1>3. a \in Ack /\ a.send = msg.send
  BY DEF Ack, DataMsg
<1>4. acks'[p] = Append(acks[p], a) /\ acks[p] \in Seq(Ack)
  BY <1>1, <1>2
<1> HIDE DEF a
<1>5. /\ Len(acks'[p]) = Len(acks[p]) + 1 /\ Len(acks[p]) \in Nat
      /\ \A k \in 1..Len(acks[p]) : acks'[p][k] = acks[p][k]
      /\ acks'[p][Len(acks[p]) + 1] = a
  BY <1>3, <1>4, AppendProperties, LenProperties
<1>6. Comes(msg.send, p)' /\ (Comes(x, p) => Comes(x, p)')
  BY <1>3, <1>5 DEF Comes
<1>7. ASSUME Goes(x, p) PROVE Goes(x, p)' \/ x = msg.send
  <2>1. /\ Len(wire[p]) \in Nat \ {0} /\ msg = wire[p][1]
        /\ wire'[p] = Tail(wire[p])
        /\ Len(Tail(wire[p])) = Len(wire[p]) - 1
        /\ \A k \in 1..Len(Tail(wire[p])) : Tail(wire[p])[k] = wire[p][k + 1]
    BY <1>1, <1>b, HeadTailProperties, LenProperties, EmptySeq
  <2>2. PICK k \in 1..Len(wire[p]) : wire[p][k].send = x
    BY <1>7 DEF Goes
  <2>3. CASE k = 1
    BY <2>1, <2>2, <2>3
  <2>4. CASE k # 1
    <3>1. k - 1 \in 1..Len(wire'[p]) /\ wire'[p][k - 1] = wire[p][k]
      BY <2>1, <2>4
    <3> QED
      BY <2>2, <3>1 DEF Goes
  <2> QED
    BY <2>3, <2>4
<1>8. ASSUME NEW q \in Proxies, q # p
      PROVE  (Goes(x, q) <=> Goes(x, q)') /\ (Comes(x, q) <=> Comes(x, q)')
  <2>1. wire'[q] = wire[q] /\ acks'[q] = acks[q]
    BY <1>1, <1>2, <1>8
  <2> QED
    BY <2>1 DEF Goes, Comes
<1>9. Waits(x) <=> Waits(x)'
  BY <1>1 DEF Waits
<1>10. ASSUME NEW q \in Proxies,
              Goes(x, q) \/ Comes(x, q) \/ ackZip[q] # <<>>
       PROVE  (Goes(x, q) \/ Comes(x, q) \/ ackZip[q] # <<>>)'
  <2>1. CASE q = p
    BY <1>1, <1>6, <1>7, <1>10, <2>1
  <2>2. CASE q # p
    BY <1>1, <1>8, <1>10, <2>2
  <2> QED
    BY <2>1, <2>2
<1> QED
  BY <1>1, <1>9, <1>10 DEF Held

\* Once the subscribed have settled, no subscribed promise is pending
LEMMA SettledAll ==
  ASSUME NEW state \in [Sends -> Promise], NEW waiting,
         \A x \in Sends : state[x] = "pending" => x \in waiting,
         NEW outcome \in {"resolved", "rejected"}
  PROVE  \A x \in Sends : settled(state, waiting, outcome)[x] # "pending"
BY DEF settled

\* With nobody pending, and nobody subscribed, all is well
LEMMA NobodyPending ==
  ASSUME \A x \in Sends : promise'[x] # "pending", listening' = {}
  PROVE  Lively'
BY DEF Lively

\* An input that meets a share list is under way at every proxy, or threw, or
\* has settled every promise; no other send loses what keeps it alive
LEMMA PairHolds ==
  ASSUME TypeOK, NEW input \in Input, NEW round \in Rounds,
         NEW state \in [Sends -> Promise], NEW waiting, NEW afterThrow,
         Pair(input, round, state, waiting, afterThrow),
         \A x \in Sends : state[x] = "pending" => x \in waiting,
         UNCHANGED <<acks, ackZip>>
  PROVE  \/ /\ \A x \in Sends : promise'[x] # "pending"
            /\ listening' = {}
         \/ /\ promise' = state \/ promise' = afterThrow
            /\ listening' = waiting
            /\ Held(input.send)'
            /\ thrown \subseteq thrown'
            /\ \A x : \A p \in Proxies : Goes(x, p) => Goes(x, p)'
<1> DEFINE masked == [send |-> input.send, round |-> round]
<1>1. masked \in DataMsg /\ masked.send = input.send
  BY DEF DataMsg, Input
<1>2. CASE /\ Emit(masked) /\ promise' = state /\ listening' = waiting
           /\ thrown' = thrown
  <2>1. \A p \in Proxies : /\ Goes(input.send, p)'
                           /\ \A x : Goes(x, p) => Goes(x, p)'
    BY <1>1, <1>2, EmitGoes
  <2> QED
    BY <1>2, <2>1 DEF Held
<1>3. CASE /\ thrown' = thrown \union {input.send}
           /\ promise' = afterThrow /\ listening' = waiting /\ wire' = wire
  BY <1>3 DEF Held, Goes
<1>4. CASE promise' = settled(state, waiting, "rejected") /\ listening' = {}
  BY <1>4, SettledAll
<1> QED
  BY <1>2, <1>3, <1>4 DEF Pair

\* Every step keeps pending sends alive
LEMMA LivelyStep == TypeOK /\ Lively /\ [Next]_vars => Lively'
<1> SUFFICES ASSUME TypeOK, Lively, [Next]_vars PROVE Lively'
  OBVIOUS
<1>0. /\ promise \in [Sends -> Promise] /\ handlers \in Nat
      /\ listening \in SUBSET Sends
      /\ \A x \in Sends : promise[x] = "pending" => x \in listening /\ Held(x)
  BY DEF TypeOK, Lively
<1>1. ASSUME UNCHANGED <<promise, listening, handlers>>,
             \A x : Held(x) => Held(x)'
      PROVE  Lively'
  BY <1>0, <1>1 DEF Lively
<1>2. ASSUME UNCHANGED <<inputs, thrown, wire, acks, ackZip>>, NEW x, Held(x)
      PROVE  Held(x)'
  BY <1>2 DEF Held, Waits, Goes, Comes
<1>3. ASSUME NEW s \in Sends, Call(s) PROVE handlers' # 0
  BY <1>0, <1>3 DEF Call, handlersAfter, Lively
<1>4. ASSUME NEW s \in Sends, SendRefused(s) PROVE Lively'
  <2>1. /\ promise' = [promise EXCEPT ![s] = "rejected"]
        /\ listening' = listening \union {s}
        /\ UNCHANGED <<inputs, thrown, wire, acks, ackZip>>
        /\ Call(s)
    BY <1>4 DEF SendRefused, engines
  <2> QED
    BY <1>0, <1>2, <1>3, <2>1 DEF Lively
<1>5. ASSUME NEW s \in Sends, SendClear(s) PROVE Lively'
  <2> DEFINE msg == [send |-> s, round |-> 0]
  <2>1. /\ promise' = [promise EXCEPT ![s] = "pending"]
        /\ listening' = listening \union {s}
        /\ Emit(msg) /\ Call(s)
        /\ UNCHANGED <<inputs, thrown, acks, ackZip>>
    BY <1>5 DEF SendClear
  <2>2. msg \in DataMsg /\ msg.send = s
    BY DEF DataMsg
  <2> HIDE DEF msg
  <2>3. ASSUME NEW p \in Proxies
        PROVE  Goes(s, p)' /\ \A x : Goes(x, p) => Goes(x, p)'
    BY <2>1, <2>2, <2>3, EmitGoes
  <2>4. Held(s)'
    BY <2>3 DEF Held
  <2>5. ASSUME NEW x, Held(x) PROVE Held(x)'
    <3>1. Waits(x) => Waits(x)'
      BY <2>1 DEF Waits
    <3> QED
      BY <2>1, <2>3, <2>5, <3>1, HeldStays
  <2> QED
    BY <1>0, <1>3, <2>1, <2>4, <2>5 DEF Lively
<1>6. ASSUME NEW s \in Sends, NEW size \in Sizes, SendSecret(s, size)
      PROVE  Lively'
  <2> DEFINE input == [send |-> s, size |-> size]
             state == [promise EXCEPT ![s] = "pending"]
             waiting == listening \union {s}
             afterThrow == [state EXCEPT ![s] = "rejected"]
  <2>1. /\ Call(s) /\ UNCHANGED <<acks, ackZip>>
        /\ input \in Input /\ input.send = s
    BY <1>6 DEF SendSecret, Input
  <2>2. /\ state \in [Sends -> Promise]
        /\ \A x \in Sends : x # s => /\ state[x] = promise[x]
                                     /\ afterThrow[x] = promise[x]
        /\ waiting = listening \union {s}
        /\ \A x \in Sends : state[x] = "pending" => x \in waiting
    BY <1>0 DEF Promise
  <2>3. CASE shareLists = <<>>
    <3>1. /\ inputs' = Append(inputs, input) /\ promise' = state
          /\ listening' = waiting /\ UNCHANGED <<wire, thrown>>
      BY <1>6, <2>3 DEF SendSecret
    <3> HIDE DEF input, state, waiting
    <3>2. Waits(s)' /\ \A x : Waits(x) => Waits(x)'
      BY <2>1, <3>1, AppendWaits
    <3>3. Held(s)'
      BY <3>2 DEF Held
    <3>4. ASSUME NEW x, Held(x) PROVE Held(x)'
      <4>1. \A p \in Proxies : Goes(x, p) => Goes(x, p)'
        BY <3>1 DEF Goes
      <4> QED
        BY <2>1, <3>1, <3>2, <3>4, <4>1, HeldStays
    <3> QED
      BY <1>0, <1>3, <2>1, <2>2, <3>1, <3>3, <3>4 DEF Lively
  <2>4. CASE shareLists # <<>>
    <3>1. /\ Pair(input, Head(shareLists), state, waiting, afterThrow)
          /\ inputs' = inputs
      BY <1>6, <2>4 DEF SendSecret
    <3>2. Head(shareLists) \in Rounds
      BY <2>4, HeadTailProperties DEF TypeOK
    <3> HIDE DEF input, state, waiting, afterThrow
    <3>3. \/ (\A x \in Sends : promise'[x] # "pending") /\ listening' = {}
          \/ /\ promise' = state \/ promise' = afterThrow
             /\ listening' = waiting /\ Held(s)' /\ thrown \subseteq thrown'
             /\ \A x : \A p \in Proxies : Goes(x, p) => Goes(x, p)'
      BY <2>1, <2>2, <3>1, <3>2, PairHolds
    <3>4. ASSUME thrown \subseteq thrown', NEW x, Held(x),
                 \A p \in Proxies : Goes(x, p) => Goes(x, p)'
          PROVE  Held(x)'
      <4>1. Waits(x) => Waits(x)'
        BY <3>1 DEF Waits
      <4> QED
        BY <2>1, <3>4, <4>1, HeldStays
    <3>5. CASE /\ promise' = state \/ promise' = afterThrow
               /\ listening' = waiting /\ Held(s)' /\ thrown \subseteq thrown'
               /\ \A x : \A p \in Proxies : Goes(x, p) => Goes(x, p)'
      <4>1. ASSUME NEW x \in Sends, promise'[x] = "pending"
            PROVE  x \in listening' /\ Held(x)'
        <5>1. CASE x = s
          BY <2>2, <3>5, <5>1
        <5>2. CASE x # s
          <6>1. promise[x] = "pending"
            BY <2>2, <3>5, <4>1, <5>2
          <6>2. Held(x) /\ x \in listening
            BY <1>0, <6>1
          <6> QED
            BY <2>2, <3>4, <3>5, <6>2
        <5> QED
          BY <5>1, <5>2
      <4> QED
        BY <1>3, <2>1, <4>1 DEF Lively
    <3> QED
      BY <3>3, <3>5, NobodyPending
  <2> QED
    BY <2>3, <2>4
<1>7. ASSUME Fail PROVE Lively'
  BY <1>0, <1>7, SettledAll, NobodyPending DEF Fail
<1>8. ASSUME NEW round \in Rounds, ShareList(round),
             UNCHANGED <<handlers, acks, ackZip>>
      PROVE  Lively'
  <2>1. CASE inputs = <<>>
    <3>1. UNCHANGED <<inputs, promise, listening, wire, thrown>>
      BY <1>8, <2>1 DEF ShareList
    <3> QED
      BY <1>1, <1>2, <1>8, <3>1
  <2>2. CASE inputs # <<>>
    <3>0. Head(inputs) \in Input
      BY <2>2, HeadTailProperties DEF TypeOK
    <3>2. PICK input \in Input : input = Head(inputs)
      BY <3>0
    <3>1. /\ Pair(input, round, promise, listening, promise)
          /\ inputs' = Tail(inputs)
      BY <1>8, <2>2, <3>2 DEF ShareList
    <3>3. \A x : Waits(x) => Waits(x)' \/ x = input.send
      BY <2>2, <3>1, <3>2, TailWaits
    <3>4. \/ (\A x \in Sends : promise'[x] # "pending") /\ listening' = {}
          \/ /\ promise' = promise /\ listening' = listening
             /\ Held(input.send)' /\ thrown \subseteq thrown'
             /\ \A x : \A p \in Proxies : Goes(x, p) => Goes(x, p)'
      BY <1>0, <1>8, <3>1, <3>2, PairHolds
    <3>5. ASSUME Held(input.send)', thrown \subseteq thrown', NEW x, Held(x),
                 \A p \in Proxies : Goes(x, p) => Goes(x, p)'
          PROVE  Held(x)'
      <4>1. CASE x = input.send
        BY <3>5, <4>1
      <4>2. CASE x # input.send
        <5>1. Waits(x) => Waits(x)'
          BY <3>3, <4>2
        <5> QED
          BY <1>8, <3>5, <5>1, HeldStays
      <4> QED
        BY <4>1, <4>2
    <3> QED
      BY <1>1, <1>8, <3>4, <3>5, NobodyPending
  <2> QED
    BY <2>1, <2>2
<1>9. ASSUME NEW p \in Proxies, DeliverShare(p) PROVE Lively'
  <2> DEFINE msg == Head(shares[p])
  <2>1. UNCHANGED <<handlers, acks, ackZip>>
    BY <1>9 DEF DeliverShare
  <2>2. \/ Fail
        \/ UNCHANGED <<inputs, wire, thrown, promise, listening>>
        \/ Joins(shareZip, p) /\ ShareList(heads(shareZip, p, msg)[p].round)
    BY <1>9 DEF DeliverShare
  <2>3. ASSUME Joins(shareZip, p)
        PROVE  heads(shareZip, p, msg)[p].round \in Rounds
    <3>1. msg \in ShareMsg /\ shareZip \in [Proxies -> Seq(ShareMsg)]
      BY <1>9, HeadTailProperties DEF DeliverShare, TypeOK
    <3>2. heads(shareZip, p, msg) \in [Proxies -> ShareMsg]
      BY <2>3, <3>1, JoinType
    <3> QED
      BY <3>2 DEF ShareMsg
  <2>4. CASE UNCHANGED <<inputs, wire, thrown, promise, listening>>
    BY <1>1, <1>2, <2>1, <2>4
  <2> QED
    BY <1>7, <1>8, <2>1, <2>2, <2>3, <2>4
<1>10. ASSUME NEW p \in Proxies, HandleSend(p) PROVE Lively'
  <2>1. UNCHANGED <<promise, listening, handlers>>
    BY <1>10 DEF HandleSend, client
  <2>2. \A x : Held(x) => Held(x)'
    BY <1>10, HandleHolds
  <2> QED
    BY <1>1, <2>1, <2>2
<1>11. ASSUME NEW p \in Proxies, DeliverAck(p) PROVE Lively'
  <2> DEFINE a == Head(acks[p])
  <2>1. /\ acks[p] # <<>> /\ acks' = [acks EXCEPT ![p] = Tail(@)]
        /\ UNCHANGED <<handlers, inputs, thrown, wire>>
    BY <1>11 DEF DeliverAck
  <2>2. CASE listening = {}
    <3>1. UNCHANGED <<promise, listening>>
      BY <1>11, <2>2 DEF DeliverAck
    <3> QED
      BY <1>0, <2>2, <3>1, NobodyPending
  <2>3. CASE listening # {} /\ ~Joins(ackZip, p)
    <3>1. /\ ackZip' = [ackZip EXCEPT ![p] = @ \o copies(a, handlers)]
          /\ UNCHANGED <<promise, listening>>
      BY <1>11, <2>3 DEF DeliverAck
    <3>2. ackZip'[p] # <<>>
      <4>1. a \in Ack /\ ackZip[p] \in Seq(Ack)
            /\ ackZip \in [Proxies -> Seq(Ack)]
        BY <2>1, HeadTailProperties DEF TypeOK
      <4>2. copies(a, handlers) \in Seq(Ack) /\ Len(copies(a, handlers)) # 0
        BY <1>0, <2>3, <4>1, CopiesType DEF copies, Lively
      <4>3. ackZip'[p] = ackZip[p] \o copies(a, handlers)
        BY <3>1, <4>1
      <4> HIDE DEF a
      <4>4. Len(ackZip[p] \o copies(a, handlers)) # 0
        BY <4>1, <4>2, ConcatProperties, LenProperties
      <4> QED
        BY <4>3, <4>4
    <3>3. ASSUME NEW q \in Proxies, q # p
          PROVE  acks'[q] = acks[q] /\ ackZip'[q] = ackZip[q]
      BY <2>1, <3>1, <3>3 DEF TypeOK
    <3>4. ASSUME NEW x, Held(x) PROVE Held(x)'
      <4>1. ASSUME NEW q \in Proxies,
                   Goes(x, q) \/ Comes(x, q) \/ ackZip[q] # <<>>
            PROVE  (Goes(x, q) \/ Comes(x, q) \/ ackZip[q] # <<>>)'
        <5>1. CASE q = p
          BY <3>2, <5>1
        <5>2. CASE q # p
          BY <2>1, <3>3, <4>1, <5>2 DEF Goes, Comes
        <5> QED
          BY <5>1, <5>2
      <4>2. Waits(x) <=> Waits(x)'
        BY <2>1 DEF Waits
      <4> QED
        BY <2>1, <3>4, <4>1, <4>2 DEF Held
    <3> QED
      BY <1>1, <2>1, <3>1, <3>4
  <2>4. CASE listening # {} /\ Joins(ackZip, p)
    <3>1. PICK outcome \in {"resolved", "rejected"} :
            promise' = settled(promise, listening, outcome)
      BY <1>11, <2>4 DEF DeliverAck
    <3>2. listening' = {}
      BY <1>11, <2>4 DEF DeliverAck
    <3> QED
      BY <1>0, <3>1, <3>2, SettledAll, NobodyPending
  <2> QED
    BY <2>2, <2>3, <2>4
<1>12. ASSUME NEW p \in Proxies, EngineShares(p) PROVE Lively'
  BY <1>1, <1>2, <1>12 DEF EngineShares, client
<1>13. CASE StatusChanges
  BY <1>1, <1>2, <1>13 DEF StatusChanges, engines
<1>14. CASE UNCHANGED vars
  BY <1>1, <1>2, <1>14 DEF vars
<1> QED
  BY <1>4, <1>5, <1>6, <1>9, <1>10, <1>11, <1>12, <1>13, <1>14
  DEF Next, ApplicationStep, ProxyStep

\* While a send's promise is pending, and its input has not thrown, its input
\* waits for shares or some proxy still has its message to handle or a response
\* to it to deliver, whatever is lost, damaged or refused, whatever the sizes
\* and however sends overlap (sendInputsPromise and the streams behind it)
THEOREM NoneIsStranded == Spec => []NoneStranded
<1> DEFINE Inv == TypeOK /\ ZipsDrained /\ Lively
<1>1. Init => Inv
  <2>1. Init => Lively
    BY DEF Init, Lively
  <2> QED
    BY <2>1, InitType, ZipsInit
<1>2. Inv /\ [Next]_vars => Inv'
  BY NextType, ZipsStep, LivelyStep
<1>3. Inv => NoneStranded
  <2> SUFFICES ASSUME Inv, NEW s \in Sends, promise[s] = "pending"
               PROVE  \/ s \in thrown \/ Waits(s)
                      \/ \E p \in Proxies : Goes(s, p) \/ Comes(s, p)
    BY DEF NoneStranded
  <2>1. Held(s)
    BY DEF Lively
  <2>2. PICK p \in Proxies : ackZip[p] = <<>>
    BY DEF ZipsDrained
  <2> QED
    BY <2>1, <2>2 DEF Held
<1> QED
  BY <1>1, <1>2, <1>3, PTL DEF Spec
=============================================================================
