# Verification of the SPDZ client library

The library (`src/src`) lets a browser application talk to a fixed set of
*SPDZ proxies*, each in front of one *SPDZ engine* of a multi-party
computation. There are two clients for that, one over web sockets
(`socket_api`) and one over HTTP (`rest_api`), a client that asks a proxy to
start an MPC program (`bootstrap_api`), and the conversions they need
(`math`, `type_mapping`, `utility`, `crypto`).

This directory holds TLA+ models of it, TLC configurations that check them and
proofs for TLAPS. `PROJECT.json` lists the parts, the runs, the lines each
definition translates, the hazards of the code and the disagreements found.

## 1. Inventory

| Component | Source | State it keeps | Operations |
| --- | --- | --- | --- |
| Connection status and promises | `socket_api/{connectSetup,socketApi,promisify,transform}.js` | `connectedToProxies`, `connectedToSpdz`, `connectionStream`, the latest event per proxy inside `combineAsArray`, one timer and subscription per promise | `connectToSpdzProxyPromise`, `connectToSpdzPartyPromise`, `disconnectFromSpdzPartyPromise`, the handlers of `connect`, `connect_error`, `connect_timeout`, `disconnect`, `connectToSpdz_result`, `disconnectFromSpdz_result`, `spdz_socketDisconnected` |
| Sending of inputs | the same files, `type_mapping/binaryToShare.js` | the queues of three zips, the subscriptions of the promises, the handlers on each socket | `sendSecretInputsPromise`, `sendClearInputsPromise`, the handlers of `spdz_message` (type shares) and `sendData_result` |
| Repeated sessions | `socketApi.js`, `connectSetup.js`, `promisify.js` | the module-wide `webSocketBus` and `userInputBus`, to which each `connectToSPDZProxy` adds sockets | a second `connectToSpdzProxyPromise` |
| The web socket client as a whole | the four files of `socket_api` | the flags, buses and queues the parts above share, over several sessions of the engines | all of the above together |
| Result stream | `connectSetup.js`, `socketApi.js`, `transform.js`, `type_mapping/binaryToArray.js` | the zip of results | `spdz_message` of the result types, `convertOutput` |
| REST client | `rest_api/*.js` | `clientIds`, the id of the client at each proxy | `connectToSPDZ`, `checkProxies`, `disconnectFromSPDZ`, `consumeDataFromProxies`, `retrieveShares`, `sendInputsWithShares`, `retrieveRegIntsAsHexString` |
| Bootstrap client | `bootstrap_api/index.js` | `clientSocket` | `bootstrapConnectSetup`, `runSpdzProgram` |
| Finite field integers | `math/Gfp.js`, `math/numericConversions.js` | none | mapping to and from the field, fixed point numbers, sums, products |
| Binary conversion | `type_mapping/*.js`, `utility/binary.js` | none | shares and results out of byte arrays |
| List comparison, argument checks | `utility/listComparison.js`, `utility/verifyRequiredKeys.js` | none | `listComparison`, `verifyRequiredKeys` |
| Encryption | `crypto/index.js` | a memo of the key pair | key agreement, `decrypt` |
| Logging, polyfills, entry points | `utility/logging.js`, `polyfills.js`, `index.js` | none | none |
| Demonstration | `demo/millionaires_client.js` | an example application | |

How they interact. An application calls a promise of `promisify.js`. That
subscribes to a stream, then calls a function of `socketApi.js`, which checks
the two flags and pushes an event on a bus; every socket emits it. Each
socket's events become five streams (`connectSetup.js`); `socketApi.js` combines
the streams of all sockets, by *latest value of each* for connection events and
by *zip* (the k-th of each) for shares, results and responses, and what comes
out sets the flags and settles promises. A second path runs inside
`transform.js`: an input waits in a zip with the combined shares, and goes to
the sockets as the sum of the two. The REST client shares only the conversions
with this.

What is hard in it. Everything happens in callbacks of one event loop, so one
handler never interrupts another, but the events of different sockets, the
calls of the application and the timers come in any order; web sockets drop and
come back with requests lost, buffered or late; engines end without notice; a
proxy fails where others do not; a promise listens to a stream shared with all
other promises and takes the first event that fits; messages are matched by
position and never by a name, so that one lost or doubled message shifts all
later ones; and the streams are lazy, so that who listens decides what happens
to a message. `PROJECT.json` lists these as hazards, each at its line.

What makes each component correct:

* *Connection*: once events are handled, the flags say what is so; a promise
  settles, and resolves only when all proxies did what was asked; engines are
  treated alike.
* *Sending*: an input goes out at most once, in order, under a mask of one
  round that is used for nothing else, and reaches all engines; the mask is the
  one the MPC program takes off, as long as sizes agree, shares are sound and no
  input throws; no promise waits for what can no longer come, unless its own
  input threw. That a promise says truly whether its input was accepted is what
  the documentation says and not what the code does (section 8).
* *Repeated sessions*: the shared flags always tell of some session as it is;
  a promise resolves on its own session; every engine has as many connections
  as every other, and flags recover when the web sockets do.
* *The client as a whole*: what is true of the connection stays true when
  inputs and shares use the same sockets; all engines take in the same inputs,
  in the same sessions, each under a mask of its own, and it is the mask the
  session's engines take off if nothing is left over from a session before and
  no input has been dropped.
* *Result stream*: a result the application sees is one that every engine sent.
* *REST client*: the ids kept are those of the latest connections; an input goes
  to all engines under one round of shares of the connection it goes to; a send
  that resolves has reached all engines; every call settles.
* *Bootstrap*: the shared socket is alive or about to be cleared, and each start
  request gets its own answer.
* *Conversions*: what an application passes within the documented bounds comes
  back as it was, through every check and conversion of the library.
* *Encryption*: client and engines use the keys of one pair.

## 2. Plan

| Order | Module | Contents | State |
| --- | --- | --- | --- |
| 1 | `SpdzConnection` | connection events, flags and promises | done |
| 2 | `SpdzConnectionProofs` | status flags, engines alike, truthful connects | done |
| 3 | `MaskedInputs` | what sending secret inputs promises, abstractly | done |
| 4 | `SendInputs` | the sends, which implement `MaskedInputs` | done |
| 5 | `SendInputsProofs` | types, drained zips, that `SendInputs` implements `MaskedInputs`, aligned masks, that no send is stranded | done |
| 6 | `RestSession` | client ids, and the steps of a REST send | done |
| 7 | `RestSessionProofs` | types, one use of each mask; resolved sends, current ids, inputs that follow their masks | done |
| 8 | `Bootstrap`, `BootstrapProofs` | the shared bootstrap socket, that it is truthful, and that answers are own | done |
| 9 | `ProxySessions`, `ProxySessionsProofs` | repeated `connectToSPDZProxy` on shared buses; flags that are backed, promises on their own session, matched connections | done |
| 10 | `Conversions`, `ConversionsProofs` | field, fixed point, list checks, buffers: pure functions, and lemmas about them | done |
| 11 | `KeyAgreement`, `EchoSession`, `EchoSessionProofs` | keys and real data from an input to its result; the keys agree, types, results that were sent, lists that come back exactly | done |
| 12 | `SocketClient` | the connection and the sends on the same sockets, over several sessions of the engines | done |
| 13 | `SocketClientProofs` | that `SocketClient` implements `SpdzConnection`, and its four invariants | done |

`SocketClient` extends nothing but uses `SpdzConnection` twice: its actions are
conjoined with that module's, and under a mapping that forgets shares and
inputs it implements that module. `EchoSession` extends `Conversions` and
`KeyAgreement`. `SendInputs` implements `MaskedInputs`.

Every safety property and every refinement that the passing runs check is
stated by a theorem; liveness and the violations stay with TLC (section 6).

## 3. The modules and the code

### `SpdzConnection`

One session: `connectToSPDZProxy` has been called at most once. Two links exist
per proxy, the web socket and the proxy's own connection to its engine; `link`
says which are really up, and the client only ever learns of it by `events`.

| Model | Code |
| --- | --- |
| `opened` | `connectionStream` is defined |
| `connected` | `connectedToProxies`, `connectedToSpdz` |
| `heard`, `up` | the array `combineAsArray` keeps of each proxy's latest event, per event type: that there is one, that its status is true |
| `kind`, `promise` | one promise per call of `promisify.js` |
| `requests`, `buffered` | `socket.emit` calls on their way, and those socket.io keeps until the socket is back |
| `CallProxies`, `CallConnect`, `CallDisconnect` | the three promises, including the guard of `connectToSpdz` or `disconnectFromSpdz` and the push on `webSocketBus` |
| `Deliver` | one socket event all the way: its stream, the combination, the side effect that sets the flag, then every promise that waits |
| `Timeout` | the `later` stream of `streamWithTimeout` |
| `WebConnect`, `WebConnectFails`, `WebDrop` | `connect`; `connect_error` and `connect_timeout`; `disconnect` |
| `EngineAccepts`, `EngineRefuses`, `EngineLeaves`, `EngineCloses` | the causes of `connectToSpdz_result`, `disconnectFromSpdz_result` and `spdz_socketDisconnected` |

`Deliver` is one action because the event loop runs the handler and everything
it pushes through the streams without interruption.

### `MaskedInputs` and `SendInputs`

`MaskedInputs` is what sending secret inputs promises: `Send` puts an input
out with a mask later than all used before, `Receive` gives an engine the next
one it lacks. `SendInputs` is the code. A round stands for the joined shares of
one set of triples; an input masked by round r is the record `[send, round |-> r]`.

| Model | Code |
| --- | --- |
| `shareZip`, `DeliverShare`, `Joins`, `taken`, `heads` | `zipAsArray` of the proxies' share streams and what follows it |
| `valid` | the triple check of `binaryToShare` |
| `inputs`, `shareLists`, `ShareList`, `Pair` | `userInputBus.zip(combined shares)` in `setupSendInputShareStream`; `Pair` is the length check, the sum, and the push, the error or the exception of `fromUserInput` |
| `ackZip`, `DeliverAck` | `zipAsArray` of `sendData_result`, on each proxy `handlers` copies of a response |
| `listening` | the sends subscribed to `clientResponsesStream` |
| `handlers` | how often `fromBinder` has added a `sendData_result` handler |
| `SendRefused`, `SendClear`, `SendSecret` | `sendSecretInputsPromise`, `sendClearInputsPromise` |
| `EngineShares`, `HandleSend` | the MPC program and its proxy |
| `sent`, `thrown`, `got`, `accepted` | history only: they decide nothing. `thrown` has the sends whose masking threw |

An element that is no integer of the field (`[1.5]`, see section 8) makes
`Gfp.fromUserInput` throw when its input meets a share list (`transform.js`
229-231). Both are used up and nothing goes out. If shares had waited, the push of
the input throws and rejects its promise; if the input had waited, the exception
leaves by the socket's handler and its promise stays pending. Which inputs have
such an element tells nothing apart before they get there, so `Pair` leaves it
open, for any input. `EchoSession` has the numbers.

### `RestSession`

| Model | Code |
| --- | --- |
| `clientIds` | the map of `ClientIds.js`, by proxy; `NoId` for no entry |
| `kind`, `promise`, `report`, `data` | a call of `SpdzApiAggregate.js` or `SpdzApiHelper.js`, its promise, what each proxy has answered, and the data consumed |
| `connectToSPDZ`, `checkProxies`, `disconnectFromSPDZ`, `consumeDataFromProxies` | the call up to its first wait: guards, `resetClientIds`, one request per proxy |
| `OnConnect` ... `OnSend` | the continuations of each request, which write `clientIds` at the time of the reply |
| `sendInputsToProxies` | the second half of `sendInputsWithShares`, with the ids of that moment |
| `Refuses`, `HandleConnect` ... `HandleSend`, `EngineCloses` | the proxies |
| `NextRound` | the oldest data of a connection the proxy has not handed out yet |
| `got`, `current`, `overlapped`, `moved` | history only: what reached the engines, the connect whose ids are kept, whether calls that change the ids overlapped, and the sends during which the client reconnected |

Requests and replies are sets: HTTP keeps no order between them.

### `Bootstrap`

A socket is named by the setup that made it, since several may exist.

| Model | Code |
| --- | --- |
| `clientSocket` | the module's variable of that name |
| `created`, `link`, `events` | the sockets `io` has made, which of them are up, their events to come |
| `SetupAgain`, `SetupNew` | `bootstrapConnectSetup` with and without a socket |
| `OnLinkEvent` | the handlers of `connect`, `connect_error`, `connect_timeout` and `disconnect`, which set or clear `clientSocket` whichever socket they are on |
| `RunRefused`, `RunSpdzProgram`, `handlers` | `runSpdzProgram`, and the `startSpdz_result` handlers it adds and never removes |
| `OnStartResult` | that event: it settles every run that waits on the socket |
| `outcome`, `shared` | history only |

### `ProxySessions`

A socket is a session and a proxy.

| Model | Code |
| --- | --- |
| `opened`, `current` | calls of `connectToSPDZProxy`; `connectionStream` is that of the latest |
| `Push` | `webSocketBus.push`, heard by the sockets of all sessions |
| `connected`, `Combined` | the two flags, and each session's combined stream, whose side effect writes them |
| `setup`, `call`, `stream` | the two connect promises and the stream each listens to |
| `SetupTimeout`, `CallTimeout` | `streamWithTimeout` |

### `Conversions`, `KeyAgreement` and `EchoSession`

`Conversions` has operators only, named as the functions of `Gfp.js`,
`numericConversions.js`, `listComparison.js`, `binaryToArray.js`,
`binaryToShare.js` and `transform.js`. Values are in units of half of the last
fixed point digit, so that rounding is visible; a `Gfp` is the number it wraps,
in Montgomery form. `listComparison` is written as the reduce it is.

`KeyAgreement` is `crypto/index.js`: `dhKeyPair` is the memo, `encryptionKey[p]`
what `createEncryptionKey` gave for proxy p, `publicKey` what the application
hands to `connectToSpdz`.

| `EchoSession` | Code |
| --- | --- |
| `SetKeyPair`, `DeriveKey`, `Open`, `TakePublicKey`, `Connect` | the application calls `setDHKeyPair`, `createEncryptionKey`, `connectToSPDZProxy`, `createClientPublicKey` and `connectToSpdz` |
| `SendSecret`, `Zip` | `sendInputsWithShares`: `convertUserInput`, then the zip of inputs and shares and `maskInputs` |
| `SendClear` | `sendClearInputs` with int32 |
| `Deliver` | `spdz_message`: `parseSpdzMessage`, the two filters, `OnShares` and `OnResult` |
| `outputZip`, `outputs` | `zipAsArray` of the result streams and `convertOutput` |
| `EngineShares`, `EngineReveals`, `EngineDiffers`, `Lose` | an MPC program that echoes what it is sent, and its faults |

### `SocketClient`

| Model | Code |
| --- | --- |
| `opened` ... `troubles` | the variables of `SpdzConnection`; `requests` and `buffered` also hold `sendData`, `events` also holds `spdz_message` |
| `Within` | a queue of all messages, cut down to those of the connection |
| `inputs`, `shareLists`, `shareZip`, `DeliverShare`, `ShareList`, `SendSecret`, `Meet`, `Emit`, `Drop` | the queues of `setupSendInputShareStream` and of the share zip, as in `SendInputs`: an input that meets a share list goes out or is dropped, for its size or because it throws |
| `session`, `produced`, `taken` | at each engine: its sessions so far, the rounds it has shared in this one, and the inputs it has taken in |
| `wire` | what the `sendData` requests in `requests` and `buffered` carry |
| `clean` | history only: nothing was left over when a session began, and no input has been dropped |

## 4. The runs

All runs use two proxies: what goes wrong between proxies goes wrong
between two, because the combinations are symmetric conjunctions over all
proxies, and a third only repeats the part of the second. What takes more than
that to show is in the proofs, which hold for any number.

| Run | What it shows | Bounds, and why they are enough |
| --- | --- | --- |
| `connection` | types; `ProxyStatusTruthful`: with no web socket event queued, `connectedToProxies` is what is so; `AllOrNone`: overlapping connects and disconnects leave the engines alike if nothing fails | 4 calls: one opens the sockets, three overlap, which is what one connect, one disconnect and one repeated call need. 2 troubles: a loss and a failed reconnection, or a loss on each socket |
| `connection_live` | `SpdzStatusTruthful`; `ConnectTruthful`: no connect promise resolves on nothing; `EngineLossNoticed`; `PromisesSettle` | 3 calls, 2 troubles, no web socket drops: with drops the first does not hold, see section 8. No symmetry, because liveness is checked |
| `sending` | types; `ZipsDrained`; `NoneStranded`: what a pending send waits for is still to come; `SendsMasked`: `SendInputs` implements `MaskedInputs` | 2 sends and 2 rounds, 2 sizes so that an input may not fit its round, one fault of any of the four kinds at any message |
| `sending_live` | `MasksAligned` until an input throws; `InputsGoOut`: a waiting input goes out or throws; `SendsSettle` for sends whose input does not throw | 2 sends that may overlap and throw, 3 rounds so that shares wait for inputs as well as inputs for shares, all sizes equal, no faults: these hold only then |
| `early_resolve` | violation, see section 8 | 3 sends, each awaited before the next: it takes a second subscription for a second handler, and a third send to meet the copy |
| `rest` | types; `MasksUsedOnce`; `InputsFollowMasks`; `ResolvedSendReached`; `IdsCurrent` | 3 calls: connect and two more that overlap it or each other; 2 faults, so that a reply may be lost and a connection closed |
| `rest_live` | `CallsSettle` | 2 calls that may overlap, 2 faults; a call waits for no other, so more calls add none that hangs. No symmetry |
| `rest_retry` | violation | 2 calls, no faults: a connect and a send |
| `sessions` | types; `FlagBacked`; `ConnectionsMatch`; `ResolvesOnOwn`; `FlagRecovers` | 2 sessions, one abandoned and one in use; one connect call that may fall anywhere among them; 2 troubles, so that both sessions may lose a socket |
| `bootstrap` | types; `SocketTruthful`; `OwnAnswer`; `LossNoticed` | 3 setups, so that two sockets race and a third call finds one or none; 2 runs, on one socket or on two; 2 troubles |
| `echo` | types; `KeysAgree`; `EchoExact`; `ResultsSaid` | field of 23 with radix 32; safe integers to 9, so that the field's and JavaScript's bounds differ; fixed point of 3 bits, 1 of them decimal; int32 of 32 values. Lists of 1 to 3 values at and around every one of these bounds, with strings, halves of the last digit and a zero at the end; 2 sends, one fault, 2 key pairs and a saved one |
| `client` | types; `EnginesTakeSame`; `MasksOnce`; `MasksOfSession`; `ConnectionKept`: `SocketClient` implements `SpdzConnection` | 3 calls: open, connect, then a disconnect or a second connect, which after an engine has ended begins a second session; 2 troubles, so that both engines may end; 2 sends and a round per session, so that an input or a share list is left over for the second |

`CHECK_DEADLOCK FALSE` stands where the application may stop calling and the
environment stay quiet. `SendInputs` never stops, because the connection state
may always change. Symmetry is used where no liveness property is checked.

Every property of a passing run is shown to depend on the code by a variant of
one definition that breaks it (`PROJECT.json`, "mutants"); the variants stand
before the definition they change, marked as such.

## 5. Fairness

Safety runs use `Spec` without fairness. The liveness runs use `FairSpec`:

* `SpdzConnection`: weak fairness of `Deliver(p)` and `Timeout(c)`, and of nothing
  else. The event loop of the browser runs every queued handler and every timer
  that is due. Nothing is assumed of the network, the proxies, the engines or
  the application.
* `SendInputs`: weak fairness of `DeliverShare`, `DeliverAck` (the event loop
  again), and of `EngineShares` and `HandleSend`: the MPC program goes on making
  triples up to `MaxRounds` and the proxies go on answering. A send has no timer,
  so nothing could be said of it otherwise. Calls of the application and changes
  of the connection state are not fair.
* `Bootstrap` and `ProxySessions`: weak fairness of each socket's handlers, the
  event loop and nothing else. `FlagRecovers` says what follows *if* the web
  sockets stay up; that they do is not assumed.
* `RestSession`: weak fairness of handling some reply (the event loop) and of
  handling some request: each HTTP request is answered or fails in the end,
  which `fetch` reports either way. Which of them comes next is open.

## 6. What is proved

For every set of proxies and calls and every bound, from the named assumptions of
the modules (`ProxiesAssumption`, `BoundsAssumption` and the like: there is a
proxy, the bounds are numbers).

`SpdzConnectionProofs`:

* `TypeCorrect`, `ProxyStatus`, `SpdzStatus`. The status properties are not
  inductive, since they say nothing while an event is queued. `Tracking` adds: the
  last queued report of a link is the truth, and with none queued the last handled
  one is. `FlagsFollow` adds: a flag is the conjunction of the latest reports.
  `SpdzStatus` assumes `~WebSocketDrops` and needs `SocketsFirst`: no request to an
  engine is around unless its web socket is known to be up, so none is held back
  or lost.
* `EnginesAgree`, for web sockets that may drop, too. It rests on
  `OutcomesAgree`: while nothing has failed, what each engine will be once its
  requests are handled is the same for all. A drop is a failure, so that until
  the first one `SocketsFirst` holds without the assumption (`Steady`).
* `ConnectsAreTruthful`, which assumes `~WebSocketDrops`. Before the first connect
  no engine can be reported as connected (`Unasked`); after the only one, the
  proxies reported as connected are among those that have answered it (`Answers`).
  That a reported connection is there or its end is queued follows from `Tracking`.

`SendInputsProofs`:

* `TypeCorrect`, and `Drained`: no zip ever holds a complete set. This needs no
  more than itself and the types.
* `Refinement`: `Spec => SendsMasked`, that is, `SendInputs` implements
  `MaskedInputs` with any faults. The invariant: share messages are in line, from
  `shares[p]` through `shareZip[p]` and `shareLists` to the masks in `sent`, and
  their rounds ascend along it (`RoundsInLine`, for each proxy); inputs likewise
  (`SendsInLine`); what an engine has got is a prefix of `sent` and its wire holds
  the rest in order, between clear inputs (`Deliveries`). Every handler moves the
  head of one queue to the end of the one ahead or drops it, and three lemmas
  (`LineEnter`, `LineLeave`, `LineMove`) say that this keeps the order.
  `ZipsDrained` is needed too: an input meets a share list only when no other waits
  before it. A step then either puts out a pair later than all before (`OutLast`),
  or gives an engine the next pair (`HandlesNext`), or changes neither.
* `MasksStayAligned`, which assumes `MaxSize = 1`: each round fits each input, as it
  does when the application always sends lists of one length. It asks that no
  fault has damaged or lost a share list (`Undamaged`: the faults that may happen
  are refusals only, or none has happened), and `MasksAligned` itself that no input
  has thrown. Until then no number is missing in the line of rounds (`Whole`), so
  that the mask an input meets is the next one of the engines. Without any of the
  three the statement is false, see section 8.
* `NoneIsStranded`: with any faults and sizes. A pending send is subscribed
  (`Lively`), so that any outcome settles it, and its input has thrown, waits for
  shares, or at each proxy its message or response is under way or the zip of
  responses is not empty (`Held`): a response that is handled leaves a copy in
  that zip, since whoever subscribed has added a handler, or completes it and
  settles every promise. By `ZipsDrained` some proxy's queue in the zip is empty,
  and there the message or the response is still under way.

`RestSessionProofs`:

* `TypeCorrect`. `UsedOnce`: the invariant follows a mask from the proxy that
  hands it out to the engine. Between a call and a proxy there is one message at
  a time (`Exchange`); what a call holds, in a report or a reply still to come,
  is consumed at the proxy and held by no other call (`Owned`); a call that
  sends has the same round from all proxies and consumes no more (`Phase`); and
  what an engine has got is under the data of its call (`Masks`).
* `SendReached`: a message's operation is one its call makes (`Asked`), a proxy
  says yes to a send only once its engine has the input (`Delivered`), and while
  the promise of a send in its second step is pending, each proxy is either
  waited for or done and reached (`Awaited`).
* `IdsAreCurrent`: a call that changes ids is pending as long as a message of it
  is around (`Lasting`); without overlap at most one is, and it is the latest
  (`OneChange`); a reply to a connect carries the id issued last (`IssuedLast`).
* `FollowMasks`: a pending send during which nothing reconnects finds at each
  proxy the id it asked with, or none (`Attached`), so the input goes to the
  connection of its mask (`Addressed`). Replies to a send already rejected begin
  no second step (`Failed`), and a call not made has no data (`Fresh`).

`BootstrapProofs`:

* `TypeCorrect`, `SocketIsTruthful`. The invariant: the last queued event of a
  socket tells whether it is up (`Reported`), the shared socket is up or its
  loss is queued (`Alive`), and a lone socket with no event queued is shared
  exactly if it is up (`Followed`).
* `AnswersAreOwn`: a run has its handler on one socket, and only its own requests
  are there (`Placed`). As long as no two runs wait on a socket, at most one
  request or one result is on it, and it is that of the run that waits (`Single`).

`ProxySessionsProofs`:

* `TypeCorrect`, `FlagsAreBacked`. `FlagBacked` is inductive with the types:
  every event of a socket rewrites the flag from the combination it changes.
* `ResolvesOnItsOwn`: if a report of a connection is queued or was the latest, and
  the connection is gone, then its loss is queued behind (`Truthful`).
* `ConnectionsAreMatched`: all sockets of a session have carried out, carry or hold
  back as many requests as one another (`Even`), since none is lost as long as
  nothing fails (`Lossless`) and no socket has any before its session begins.

`ConversionsProofs` has lemmas only, about the operators of `Conversions`, for
every odd prime, every radix it does not divide, and every width: division with
remainder by any positive number, that each number of the field but zero has an
inverse (so that the choice in `R_INVERSE` is of something), the types of all
conversions, and that what `convertOutput` and the sum of shares give is made of
what all proxies agree on (`ExtractedSame`, `OutputSame`). The round trip: Montgomery
form and back is a safe integer again (`MontgomeryBack`, `SafeInteger`); a mask that
is added is taken off, though both wrap around the prime (`MaskRemoved`,
`MaskedBack`); the shares of any number of proxies add up (`SharesAddUp`,
`SharesJoined`); rounding to fixed point is within half a digit, and comes back
(`Rounding`, `ShiftedBack`); the reduce of `listComparison`, which looks at one pair at
a time and lets a failed one through as `NaN`, accepts a list of numbers or of
integers and tells which it is (`AllCompare`, `IntegersCompare`). Where a recursive
function needs induction, it is that of a set of numbers which is shown to be
`Nat` (`Induction`, from the well-foundedness of `<`).

`EchoSessionProofs`:

* `KeysAgreement`: each key in use was made from the memo (`FromMemo`), which
  changes under use only by `setDHKeyPair`.
* `TypesOfSession`, with `DataAssumption`: the lists the application may send and
  the faults are lists and numbers.
* `ResultsAreSaid`: what is in a zip or on a wire was said by its engine
  (`SaidInv`); results reach the application only if those of all proxies are the
  same.
* `EchoIsExact`, for any number of proxies, any lists and every order of sends,
  shares, results and arrivals. At most one result and one list of masks are on
  their way at a time. `Flow` follows each proxy's copy of them: on the wire, in
  the zip, or gone because it did not parse, which takes a key that differs; a
  zip that is complete is emptied at once. `Counts` relates the sent lists, the
  results said and the outputs; `Queues` says what waits in `userInputBus`. `Content`
  has the data: what the engines hold is the last list under the masks of the
  round, each result reads as the list it answers, and no list within bounds is
  refused but a single number with decimals. None of the four is inductive
  alone: the content of an output needs the results of all proxies to be one
  result, which is `Flow`, and its place in the order, which is `Counts`. That
  nothing is missing in the end also needs `FromMemo`: all proxies' keys agree or
  none does.

`SocketClientProofs`:

`NoDropsAssumption` applies throughout: web sockets stay up (section 9).

* `TypeCorrect` and `Refinement`: `SocketClient` implements `SpdzConnection`. The
  mapping takes out of each queue the messages of the connection (`Within`), and
  lemmas say what that makes of a longer and a shorter queue. Each action is then
  one of `SpdzConnection` or a stutter. The invariant of `SpdzConnectionProofs` is used
  under the same mapping (`Own`), so that it need not be proved again.
* `MasksAreFresh`: the rounds of an engine ascend, by session and number, along its
  events and the share zip (`Sorted`), and so each joined share list is later
  than all before it.
* `EnginesAgree`: there is one history of requests, of which each engine has
  carried out a beginning and has the rest in its queue (`History`); what it has
  carried out determines what it has taken in.
* `MasksFit`: while all sessions began with nothing left over and no input has been
  dropped (`clean`), what waits in the client and travels to an engine are the next
  rounds of the engines' session, none missing, and inputs wait for rounds or
  rounds for inputs (`InSession`). An input that is dropped takes a round with it,
  after which the rounds in the client are no longer those the engine counts.

Only model-checked:

* the liveness properties `EngineLossNoticed`, `PromisesSettle`, `InputsGoOut`,
  `SendsSettle`, `CallsSettle`, `LossNoticed` and `FlagRecovers`: liveness under
  fairness is out of reach of TLAPS;
* the violations, of course.

## 7. What is taken from outside the sources

* **Bacon.js 0.7** (`package.json`). `combineAsArray` emits the latest values once
  each stream has had one; `zipAsArray` and `zip` keep a queue per stream; an error
  passes through a zip without taking a place; a stream made by `fromBinder`
  runs its binder when its first subscriber comes and again when one comes after
  the last has left; subscribers are called in order, within the event.
* **socket.io client.** Messages of one socket keep their order; an emit on a
  socket known to be disconnected is kept and sent on the reconnect; messages on
  their way are lost with the connection; reconnection is automatic and reported
  as `connect`.
* **The proxy** (another repository). It handles the requests of one web socket
  in order and answers each; a failed connect leaves no connection to the engine,
  a disconnect always does; over REST it gives each connection an id of its own.
* **The MPC program.** It sends each client the shares of the same triples, in the
  same order, and takes the masks off in that order. In `SendInputs` one message
  holds the shares of one round.

* **Arithmetic.** `EchoSession` computes in a small field with the constants of
  `Gfp.js` and `numericConversions.js` as parameters, of which the code only
  requires what the assumptions of `Conversions` state. `RangeAssumption` is met by
  the code's constants: a safe integer has 53 bits and the prime has 128, and
  fixed point numbers have 40 bits unless `initFixedPointParams` is given others;
  with more than 52 they might not be safe integers. `ErrorAssumption` and
  `NoneAssumption` keep the values that stand for an error and for nothing apart
  from data.

What each module assumes of its surroundings:

* `EchoSession`: the application subscribes to the results at once, sends one
  list at a time and awaits its result. The engines echo what they take in, and
  derive their session keys from the public key they are given at the connect.
* `SocketClient`: a session of the engines is the number of its `connectToSpdz`
  request; a proxy answers `sendData` with an error when it has no connection
  to its engine; web sockets do not drop.
* `ProxySessions`: no disconnects and no inputs.

`SendInputs` assumes an open session: web sockets that drop are reduced to a
change of `ready` and lost share messages, and `sendData` messages are not lost.

## 8. Disagreements found

| Run | What the code does |
| --- | --- |
| `rest_retry` | A REST send that finds no data at one proxy has already taken the data of the other; the retry the docs suggest never finds matching shares. |
| `early_resolve` | With two proxies the third of three sends, each awaited, resolves on a stale copy of an earlier response. |

`PROJECT.json` quotes, for each, the line of the repository that says otherwise.

Some behaviours of the code limit what could be stated. They have no run of their
own, and show in the conditions of the properties:

* An engine that ends while its web socket is down leaves `connectedToSpdz` true;
  so `SpdzStatusTruthful` is stated for web sockets that stay up.
* A connect that is tried again may resolve on a late answer to the first try
  (`ConnectTruthful` says what remains true).
* `disconnectFromSpdzPartyPromise` resolves when the first proxy has
  disconnected (`promisify.js` 293; compare the comment at 266).
* The error of one input rejects every send that waits; the input of another
  may still go out later. So no property says that a rejected send is not sent.
* An input with an element that is no number of the field (a single number with
  decimals, which passes the checks) throws when it meets its shares
  (`transform.js` 230). It uses up its round, so that later inputs go out under
  masks the engines do not take off them: `MasksAligned` ends there, and
  `MasksOfSession` is stated for sessions in which no input is dropped. If it had
  waited for its shares its promise does not settle of its own: it stays pending,
  or settles with the response to another send, and may then resolve although
  it was never sent. `spdzErrorStream` does not report it (compare `promisify.js`
  208). `InputsGoOut`, `SendsSettle` and `NoneStranded` name the exception.
* An input that waited and turns out not to fit its shares rejects promises, by
  way of the response stream (`socketApi.js` 139), where the documentation says
  that `spdzErrorStream` reports it (`promisify.js` 208). `SendInputs` has it as
  in the code.
* A single number with decimals passes both checks of `convertUserInput`,
  because a list of one is never compared, and is then refused as no integer.
  `EchoExact` names the exception.
* The result of an empty list never compares, since a length of zero counts as
  a failed comparison (`binaryToArray.js` 43). `InBounds` leaves empty lists out.
* A result lost at one proxy shifts the results of the others. Each result the
  application gets was sent by all engines (`ResultsSaid`), but it may not be the
  one of its turn.
* Inputs and shares that wait when a session of the engines ends go into the
  next one; `MasksOfSession` is stated for sessions that begin with nothing left
  over.
* Two program runs that wait on one bootstrap socket are both settled by the
  first result; `OwnAnswer` leaves them out.

## 9. What is not modelled

* Over repeated `connectToSpdzProxyPromise` calls: disconnects and inputs. One
  session has them in `SpdzConnection`, `SendInputs` and `SocketClient`.
* Web sockets that drop while inputs and shares are around, in `SocketClient`: the
  connection has them alone, `SendInputs` has lost shares alone.
* Layout: byte order, base64, `regIntToHexString`, the string forms of a `Gfp`
  and `roundFixed`. `verifyRequiredKeys` checks the shape of arguments.
* Cryptography: a message opens exactly with the key it was closed with.
* The log, the entry points, the polyfills and the demonstration keep no state of
  the protocol.
* Time: a timer may fire at any moment after its start. Promises only ever wait
  for one, so durations tell nothing apart.
