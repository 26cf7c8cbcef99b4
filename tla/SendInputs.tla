----------------------------- MODULE SendInputs -----------------------------
(***************************************************************************)
(* The sending half of the web socket client: sendSecretInputsPromise and  *)
(* sendClearInputsPromise (promisify.js), the streams that join each       *)
(* proxy's shares and responses (socketApi.js, connectSetup.js) and the    *)
(* pairing of inputs with shares (transform.js).                           *)
(*                                                                         *)
(* Three zips do the work, each a set of queues that gives up its heads    *)
(* when none of them is empty: shareZip joins the proxies' share messages, *)
(* (inputs, shareLists) pairs an input with a joined share list, and       *)
(* ackZip joins the proxies' responses.  The first two always listen; the  *)
(* third only while a send promise is subscribed.                          *)
(***************************************************************************)
EXTENDS Naturals, Sequences

CONSTANTS
  Proxies,       \* the proxies of the session
  MaxSends,      \* bound: sends the application makes
  MaxRounds,     \* bound: rounds of triples the engines make
  MaxSize,       \* bound: numbers in an input, shares in a round
  Faults,        \* what may go wrong with a message, see Fault
  MaxFaults,     \* bound: how often it does
  Sequential     \* whether the application awaits each send before the next

Fault == {"corrupt", "invalid", "lost", "refused"}

ASSUME ProxiesAssumption == Proxies # {}
ASSUME BoundsAssumption ==
  /\ MaxSends \in Nat /\ MaxRounds \in Nat
  /\ MaxSize \in Nat /\ MaxFaults \in Nat
ASSUME FaultsAssumption == Faults \subseteq Fault /\ Sequential \in BOOLEAN

Sends == 1..MaxSends
Rounds == 1..MaxRounds
Sizes == 1..MaxSize

Promise == {"unused", "pending", "resolved", "rejected"}
Input == [send : Sends, size : Sizes]
\* A parsed TRIPLE_SHARES message of a round, or one parsing rejects
ShareMsg == [round : Rounds, state : {"good", "invalid", "corrupt"}]
\* A sendData message; a clear one has no mask, which is round 0
DataMsg == [send : Sends, round : Rounds \union {0}]
Masked == [send : Sends, round : Rounds]
Ack == [send : Sends, status : BOOLEAN]

VARIABLES
  ready,        \* connectedToProxies && connectedToSpdz
  calls,        \* how many sends were called; they are numbered in order
  promise,      \* promise[s]: the promise of send s
  listening,    \* the sends subscribed to clientResponsesStream
  handlers,     \* 'sendData_result' handlers on each socket
  inputs,       \* inputs waiting for shares (userInputBus side of the zip)
  shareLists,   \* joined share lists waiting for an input, by round
  shareZip,     \* shareZip[p]: p's share messages waiting for the others'
  ackZip,       \* ackZip[p]: p's responses waiting for the others'
  roundSize,    \* how many shares each round has
  produced,     \* produced[p]: rounds engine p has sent shares of
  shares,       \* shares[p]: share messages travelling from p
  wire,         \* wire[p]: sendData messages travelling to p
  acks,         \* acks[p]: sendData_result messages travelling from p
  sent,         \* history: the masked inputs that left the client
  thrown,       \* history: the sends whose masking threw
  got,          \* history: got[p]: the masked inputs engine p handled
  accepted,     \* history: accepted[p]: the sends p answered with status 0
  faults        \* number of faults so far, for the bound

client == <<ready, calls, promise, listening, handlers, inputs, shareLists,
            shareZip, ackZip, sent, thrown>>
engines == <<roundSize, produced, shares, wire, acks, got, accepted, faults>>
vars == <<ready, calls, promise, listening, handlers, inputs, shareLists,
          shareZip, ackZip, sent, thrown, roundSize, produced, shares, wire,
          acks, got, accepted, faults>>

TypeOK ==
  /\ ready \in BOOLEAN
  /\ calls \in 0..MaxSends
  /\ promise \in [Sends -> Promise]
  /\ listening \in SUBSET Sends
  /\ handlers \in Nat
  /\ inputs \in Seq(Input)
  /\ shareLists \in Seq(Rounds)
  /\ shareZip \in [Proxies -> Seq(ShareMsg)]
  /\ ackZip \in [Proxies -> Seq(Ack)]
  /\ roundSize \in [Rounds -> Sizes]
  /\ produced \in [Proxies -> 0..MaxRounds]
  /\ shares \in [Proxies -> Seq(ShareMsg)]
  /\ wire \in [Proxies -> Seq(DataMsg)]
  /\ acks \in [Proxies -> Seq(Ack)]
  /\ sent \in Seq(Masked)
  /\ thrown \in SUBSET Sends
  /\ got \in [Proxies -> Seq(Masked)]
  /\ accepted \in [Proxies -> SUBSET Sends]
  /\ faults \in Nat

Init ==
  /\ ready = FALSE
  /\ calls = 0
  /\ promise = [s \in Sends |-> "unused"]
  /\ listening = {}
  /\ handlers = 0
  /\ inputs = <<>>
  /\ shareLists = <<>>
  /\ shareZip = [p \in Proxies |-> <<>>]
  /\ ackZip = [p \in Proxies |-> <<>>]
  /\ roundSize \in [Rounds -> Sizes]
  /\ produced = [p \in Proxies |-> 0]
  /\ shares = [p \in Proxies |-> <<>>]
  /\ wire = [p \in Proxies |-> <<>>]
  /\ acks = [p \in Proxies |-> <<>>]
  /\ sent = <<>>
  /\ thrown = {}
  /\ got = [p \in Proxies |-> <<>>]
  /\ accepted = [p \in Proxies |-> {}]
  /\ faults = 0

-----------------------------------------------------------------------------
(* Helpers of the handlers.                                                *)

\* What an event on clientResponsesStream makes of the promises: each that is
\* subscribed settles; it also unsubscribes, which the caller states
settled(state, waiting, outcome) ==
  [s \in Sends |->
    IF s \in waiting /\ state[s] = "pending" THEN outcome ELSE state[s]]

\* Subscribing when nobody is subscribed runs otherResponseStream's binder
\* again, which adds a handler to each socket; unsubscribing removes none
handlersAfter == IF listening = {} THEN handlers + 1 ELSE handlers

\* webSocketBus.push of a sendData event: every socket emits it
Emit(msg) == wire' = [p \in Proxies |-> Append(wire[p], msg)]

\* Variants for the properties to detect: the share is not added; an input of
\* the wrong size is dropped without an error
PairUnmasked(input, round, state, waiting, afterThrow) ==
  /\ Emit([send |-> input.send, round |-> 0])
  /\ sent' = Append(sent, [send |-> input.send, round |-> 0])
  /\ promise' = state
  /\ listening' = waiting
  /\ UNCHANGED thrown

PairSilent(input, round, state, waiting, afterThrow) ==
  /\ IF input.size = roundSize[round]
       THEN LET masked == [send |-> input.send, round |-> round] IN
            Emit(masked) /\ sent' = Append(sent, masked)
       ELSE UNCHANGED <<wire, sent>>
  /\ promise' = state
  /\ listening' = waiting
  /\ UNCHANGED thrown

\* setupSendInputShareStream: an input meets a share list.  With as many
\* numbers as shares it goes out masked; otherwise the stream carries an
\* error, which rejects whoever waits.  Or an element of it is no number of
\* the field, and fromUserInput throws to whoever pushed the input or the
\* shares: both are used up and nothing goes out.  Which inputs have such an
\* element is left open until they get here, which they do once.
Pair(input, round, state, waiting, afterThrow) ==
  \/ LET masked == [send |-> input.send, round |-> round] IN
     /\ input.size = roundSize[round]
     /\ Emit(masked)
     /\ sent' = Append(sent, masked)
     /\ promise' = state
     /\ listening' = waiting
     /\ UNCHANGED thrown
  \/ /\ input.size = roundSize[round]
     /\ thrown' = thrown \union {input.send}
     /\ promise' = afterThrow
     /\ listening' = waiting
     /\ UNCHANGED <<wire, sent>>
  \/ /\ input.size # roundSize[round]
     /\ promise' = settled(state, waiting, "rejected")
     /\ listening' = {}
     /\ UNCHANGED <<wire, sent, thrown>>

-----------------------------------------------------------------------------
(* Sends of the application.                                               *)

\* sendInputsPromise subscribes before it sends
Call(s) ==
  /\ s = calls + 1
  /\ Sequential => \A x \in Sends : promise[x] # "pending"
  /\ calls' = s
  /\ handlers' = handlersAfter

\* Not connected, or the list is not all numbers (convertUserInput): the send
\* function throws and the promise rejects, but stays subscribed
SendRefused(s) ==
  /\ Call(s)
  /\ promise' = [promise EXCEPT ![s] = "rejected"]
  /\ listening' = listening \union {s}
  /\ UNCHANGED <<ready, inputs, shareLists, shareZip, ackZip, sent, thrown,
                 engines>>

\* sendClearInputs: straight to the sockets
SendClear(s) ==
  /\ Call(s)
  /\ ready
  /\ promise' = [promise EXCEPT ![s] = "pending"]
  /\ listening' = listening \union {s}
  /\ Emit([send |-> s, round |-> 0])
  /\ UNCHANGED <<ready, inputs, shareLists, shareZip, ackZip, sent, thrown,
                 roundSize, produced, shares, acks, got, accepted, faults>>

\* sendInputsWithShares: the input waits for shares, or takes those waiting;
\* if that throws, the promise rejects and stays subscribed
SendSecret(s, size) ==
  /\ Call(s)
  /\ ready
  /\ LET input == [send |-> s, size |-> size]
         state == [promise EXCEPT ![s] = "pending"]
         waiting == listening \union {s} IN
     IF shareLists = <<>>
       THEN /\ inputs' = Append(inputs, input)
            /\ promise' = state
            /\ listening' = waiting
            /\ UNCHANGED <<wire, sent, thrown, shareLists>>
       ELSE /\ Pair(input, Head(shareLists), state, waiting,
                    [state EXCEPT ![s] = "rejected"])
            /\ shareLists' = Tail(shareLists)
            /\ UNCHANGED inputs
  /\ UNCHANGED <<ready, shareZip, ackZip, roundSize, produced, shares, acks,
                 got, accepted, faults>>

-----------------------------------------------------------------------------
(* The client handles one message of one socket.                           *)

\* An error on its way through sendValueStream
Fail ==
  /\ promise' = settled(promise, listening, "rejected")
  /\ listening' = {}

\* Variant: p's own queue must not be empty either
JoinsOwn(zip, p) == \A q \in Proxies : zip[q] # <<>>

\* zipAsArray: p's message is joined with the heads of the others' queues
Joins(zip, p) == \A q \in Proxies \ {p} : zip[q] # <<>>

\* The queues once the head of each, p's with msg appended, is taken
taken(zip, p, msg) ==
  [q \in Proxies |-> Tail(IF q = p THEN Append(zip[q], msg) ELSE zip[q])]

\* What is taken
heads(zip, p, msg) ==
  [q \in Proxies |-> Head(IF q = p THEN Append(zip[q], msg) ELSE zip[q])]

\* binaryToShare accepts the joined messages only if they are shares of the
\* same triples
valid(msgs) ==
  \A p, q \in Proxies :
    msgs[p].round = msgs[q].round /\ msgs[p].state = "good"

\* Variants: a share list always waits; one that finds no input is dropped;
\* the input that is paired stays in its queue
ShareListWaits(round) ==
  /\ shareLists' = Append(shareLists, round)
  /\ UNCHANGED <<inputs, promise, listening, wire, sent, thrown>>

ShareListDropped(round) ==
  IF inputs = <<>>
    THEN UNCHANGED <<shareLists, inputs, promise, listening, wire, sent,
                     thrown>>
    ELSE /\ Pair(Head(inputs), round, promise, listening, promise)
         /\ inputs' = Tail(inputs)
         /\ UNCHANGED shareLists

ShareListKeepsInput(round) ==
  IF inputs = <<>>
    THEN /\ shareLists' = Append(shareLists, round)
         /\ UNCHANGED <<inputs, promise, listening, wire, sent, thrown>>
    ELSE /\ Pair(Head(inputs), round, promise, listening, promise)
         /\ UNCHANGED <<inputs, shareLists>>

\* A joined share list meets the first input waiting, or waits.  If that
\* throws, it throws to the socket: the promise of the input stays as it is.
ShareList(round) ==
  IF inputs = <<>>
    THEN /\ shareLists' = Append(shareLists, round)
         /\ UNCHANGED <<inputs, promise, listening, wire, sent, thrown>>
    ELSE /\ Pair(Head(inputs), round, promise, listening, promise)
         /\ inputs' = Tail(inputs)
         /\ UNCHANGED shareLists

\* 'spdz_message': a message that does not parse is an error of its own and
\* takes no place in the zip
DeliverShare(p) ==
  /\ shares[p] # <<>>
  /\ LET msg == Head(shares[p]) IN
     /\ shares' = [shares EXCEPT ![p] = Tail(@)]
     /\ \/ /\ msg.state = "corrupt"
           /\ Fail
           /\ UNCHANGED <<shareZip, inputs, shareLists, wire, sent, thrown>>
        \/ /\ msg.state # "corrupt"
           /\ ~Joins(shareZip, p)
           /\ shareZip' = [shareZip EXCEPT ![p] = Append(@, msg)]
           /\ UNCHANGED <<inputs, shareLists, wire, sent, thrown, promise,
                           listening>>
        \/ /\ msg.state # "corrupt"
           /\ Joins(shareZip, p)
           /\ shareZip' = taken(shareZip, p, msg)
           /\ LET msgs == heads(shareZip, p, msg) IN
              IF valid(msgs)
                THEN ShareList(msgs[p].round)
                ELSE /\ Fail
                     /\ UNCHANGED <<inputs, shareLists, wire, sent, thrown>>
  /\ UNCHANGED <<ready, calls, handlers, ackZip, roundSize, produced, acks,
                 got, accepted, faults>>

copies(a, n) == [i \in 1..n |-> a]

\* 'sendData_result': lost on a client that waits for nothing; otherwise each
\* handler on the socket puts a copy in the zip, up to the one that joins the
\* others' and settles every promise
DeliverAck(p) ==
  /\ acks[p] # <<>>
  /\ LET a == Head(acks[p]) IN
     /\ acks' = [acks EXCEPT ![p] = Tail(@)]
     /\ \/ /\ listening = {}
           /\ UNCHANGED <<ackZip, promise, listening>>
        \/ /\ listening # {}
           /\ ~Joins(ackZip, p)
           /\ ackZip' = [ackZip EXCEPT ![p] = @ \o copies(a, handlers)]
           /\ UNCHANGED <<promise, listening>>
        \/ /\ listening # {}
           /\ Joins(ackZip, p)
           /\ ackZip' = taken(ackZip, p, a)
           /\ LET ok == \A q \in Proxies : heads(ackZip, p, a)[q].status IN
              promise' = settled(promise, listening,
                                 IF ok THEN "resolved" ELSE "rejected")
           /\ listening' = {}
  /\ UNCHANGED <<ready, calls, handlers, inputs, shareLists, shareZip, sent,
                 thrown, roundSize, produced, shares, wire, got, accepted,
                 faults>>

-----------------------------------------------------------------------------
(* The environment: the connection state (module SpdzConnection) and the   *)
(* engines behind the proxies.                                             *)

StatusChanges ==
  /\ ready' = ~ready
  /\ UNCHANGED <<calls, promise, listening, handlers, inputs, shareLists,
                 shareZip, ackZip, sent, thrown, engines>>

FaultHappens(f) == f \in Faults /\ faults < MaxFaults /\ faults' = faults + 1

\* Engine p sends the next round's share message; a fault may damage or lose it
EngineShares(p) ==
  /\ produced[p] < MaxRounds
  /\ LET round == produced[p] + 1
                Puts(state) == shares' = [shares EXCEPT ![p] =
           Append(@, [round |-> round, state |-> state])] IN
     /\ produced' = [produced EXCEPT ![p] = round]
     /\ \/ Puts("good") /\ UNCHANGED faults
        \/ FaultHappens("corrupt") /\ Puts("corrupt")
        \/ FaultHappens("invalid") /\ Puts("invalid")
        \/ FaultHappens("lost") /\ UNCHANGED shares
  /\ UNCHANGED <<client, roundSize, wire, acks, got, accepted>>

\* The proxy handles a sendData message and answers
HandleSend(p) ==
  /\ wire[p] # <<>>
  /\ LET msg == Head(wire[p])
         Answers(status) == acks' = [acks EXCEPT ![p] =
           Append(@, [send |-> msg.send, status |-> status])] IN
     /\ wire' = [wire EXCEPT ![p] = Tail(@)]
     /\ got' = IF msg.round = 0 THEN got
               ELSE [got EXCEPT ![p] = Append(@, msg)]
     /\ \/ /\ Answers(TRUE)
           /\ accepted' = [accepted EXCEPT ![p] = @ \union {msg.send}]
           /\ UNCHANGED faults
        \/ /\ FaultHappens("refused")
           /\ Answers(FALSE)
           /\ UNCHANGED accepted
  /\ UNCHANGED <<client, roundSize, produced, shares>>

-----------------------------------------------------------------------------
ApplicationStep(s) ==
  \/ SendRefused(s)
  \/ SendClear(s)
  \/ \E size \in Sizes : SendSecret(s, size)

ProxyStep(p) ==
  \/ DeliverShare(p)
  \/ DeliverAck(p)
  \/ EngineShares(p)
  \/ HandleSend(p)

Next ==
  \/ \E s \in Sends : ApplicationStep(s)
  \/ \E p \in Proxies : ProxyStep(p)
  \/ StatusChanges

Spec == Init /\ [][Next]_vars

\* The event loop handles every message; the MPC program goes on making
\* triples and its proxy goes on answering.
FairSpec ==
  /\ Spec
  /\ \A p \in Proxies :
       /\ WF_vars(DeliverShare(p))
       /\ WF_vars(DeliverAck(p))
       /\ WF_vars(EngineShares(p))
       /\ WF_vars(HandleSend(p))

-----------------------------------------------------------------------------
(* Properties.                                                             *)

\* No zip holds a complete set: whatever could be joined has been, so nothing
\* waits that need not (zipAsArray, userInputBus.zip).
ZipsDrained ==
  /\ inputs = <<>> \/ shareLists = <<>>
  /\ \E p \in Proxies : shareZip[p] = <<>>
  /\ \E p \in Proxies : ackZip[p] = <<>>

\* What leaves the client and what the engines get implements MaskedInputs:
\* no input and no mask is used twice or out of order, and every engine gets
\* the same (transform.js 213-245 and the zips before it), with corrupt,
\* invalid and lost share messages, refusals and any number of calls at once.
Ideal == INSTANCE MaskedInputs
           WITH Inputs <- Sends, Masks <- Rounds, received <- got
SendsMasked == Ideal!Spec

\* With every message sound and every input as long as the round it meets,
\* the k-th secret input is masked with the k-th round, which is the mask the
\* MPC program takes off it.  That lasts until an input throws: it uses up its
\* round, and those after it go out under a round too late.
MasksAligned ==
  thrown = {} => \A k \in 1..Len(sent) : sent[k].round = k

Waits(s) == \E k \in 1..Len(inputs) : inputs[k].send = s
Goes(s, p) == \E k \in 1..Len(wire[p]) : wire[p][k].send = s
Comes(s, p) == \E k \in 1..Len(acks[p]) : acks[p][k].send = s

\* No send is stranded: while its promise is pending, its input waits for
\* shares, or at some proxy its message or the response to it is under way,
\* whatever is lost or damaged and however sends overlap, so that an input
\* the client drops has its promise settled and no response it needs is used
\* up on another.  An input that threw when its shares came is the exception:
\* only an outcome that is another's may settle its promise.
NoneStranded ==
  \A s \in Sends : promise[s] = "pending" =>
    s \in thrown \/ Waits(s) \/ \E p \in Proxies : Goes(s, p) \/ Comes(s, p)

\* socketApi.js 35-39: the client "will wait for matched responses from all
\* SPDZ engines", and status true means "send worked": when a send resolves,
\* every engine has accepted it.
ResolvedMeansAccepted ==
  \A s \in Sends :
    promise[s] = "resolved" => \A p \in Proxies : s \in accepted[p]

Sent(s) == \E k \in 1..Len(sent) : sent[k].send = s

\* Every input that waits for shares goes out or throws, as long as share
\* messages are sound and sizes agree: no later traffic can strand it.
InputsGoOut == \A s \in Sends : Waits(s) ~> (Sent(s) \/ s \in thrown)

\* Every send promise settles although there is no timer on it, unless its
\* input threw: no response it needs is lost to a promise that settled
\* before it or to an input that threw.
SendsSettle ==
  \A s \in Sends :
    (promise[s] = "pending") ~> (promise[s] # "pending" \/ s \in thrown)
=============================================================================
