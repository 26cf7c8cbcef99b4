---------------------------- MODULE EchoSession ----------------------------
(***************************************************************************)
(* Data through the whole web socket client: session keys (KeyAgreement),  *)
(* the conversions on the way out and back (Conversions), and the result   *)
(* stream of connectSetup.js and socketApi.js, whose messages are zipped   *)
(* over the proxies.  The MPC program is one that reveals its inputs and   *)
(* sends them back, so that what the application gets can be compared with *)
(* what it passed.  SendInputs has the interleavings of many sends; here   *)
(* the application sends one list at a time and the data are real.         *)
(***************************************************************************)
EXTENDS Conversions, KeyAgreement

CONSTANTS
  Lists,       \* the lists the application may pass
  Masks,       \* the masks, in Montgomery form, the engines may share
  MaxSends,    \* bound: lists sent
  MaxFaults,   \* bound: messages lost or damaged, results engines differ on
  None

ASSUME DataAssumption ==
  /\ Lists \subseteq Seq(JSValue)
  /\ Masks \subseteq 0..(GFP_PRIME - 1)
  /\ MaxSends \in Nat /\ MaxFaults \in Nat

ASSUME NoneAssumption ==
  None \notin Seq(Int) /\ None \notin [list : Lists, values : Seq(JSValue)]

Program == {"int", "fix", "regint"}
ResultType == [int |-> "CLEAR_MODP_INT", fix |-> "CLEAR_MODP_FIX",
               regint |-> "INT_32"]

VARIABLES
  program,     \* what the MPC program reveals; how many numbers at a time
  count,
  encrypted,   \* whether this session uses encryption
  opened,      \* connectToSPDZProxy has run, with the session keys of then
  connected,   \* connectToSpdz has, with the public key
  channel,     \* channel[p]: spdz_message events on their way from proxy p
  shareZip,    \* shareZip[p]: share buffers that wait for the other proxies'
  outputZip,   \* outputZip[p]: results that wait
  inputs,      \* userInputBus's queue in its zip: the list and its values
  shares,      \* the other queue: share lists
  received,    \* the numbers all engines have received, or None
  round,       \* the masks the engines expect, or None
  outputs,     \* what spdzResultStream carried: results and errors
  sent,        \* history: lists that reached the engines, in order
  refused,     \* history: lists whose send threw
  said,        \* history: the results each engine has sent
  faults       \* number of faults so far, for the bound

setup == <<keyVars, program, count, encrypted, opened, connected>>
streamVars == <<program, count, encrypted, opened, connected, channel,
                shareZip, outputZip, inputs, shares, received, round,
                outputs, sent, refused, said, faults>>
vars == <<keyVars, streamVars>>

Words(s) == \A i \in 1..Len(s) : s[i] \in Int

TypeOK ==
  /\ KeysTypeOK
  /\ program \in Program /\ count \in Nat /\ encrypted \in BOOLEAN
  /\ opened \in BOOLEAN /\ connected \in BOOLEAN
  /\ \A p \in Proxies :
       /\ \A i \in 1..Len(channel[p]) : Words(channel[p][i].words)
       /\ \A i \in 1..Len(outputZip[p]) :
            outputZip[p][i].type # "TRIPLE_SHARES"
       /\ \A i \in 1..Len(shareZip[p]) : Words(shareZip[p][i].words)
  /\ inputs = None \/ inputs.list \in Lists
  /\ \A i \in 1..Len(shares) : Words(shares[i])
  /\ received = None \/ Words(received)
  /\ \A i \in 1..Len(outputs) : outputs[i] = Error \/ Words(outputs[i])
  /\ refused \subseteq Lists
  /\ faults \in 0..MaxFaults

Init ==
  /\ KeysInit
  /\ program \in Program /\ encrypted \in BOOLEAN
  /\ count \in {Len(l) : l \in Lists}
  /\ opened = FALSE /\ connected = FALSE
  /\ channel = [p \in Proxies |-> <<>>]
  /\ shareZip = [p \in Proxies |-> <<>>]
  /\ outputZip = [p \in Proxies |-> <<>>]
  /\ inputs = None /\ shares = <<>> /\ received = None /\ round = None
  /\ outputs = <<>> /\ sent = <<>> /\ refused = {}
  /\ said = [p \in Proxies |-> <<>>]
  /\ faults = 0

-----------------------------------------------------------------------------
(* The application sets up a session.                                      *)

SetKeyPair == encrypted /\ setDHKeyPair /\ UNCHANGED streamVars

DeriveKey(p) ==
  /\ encrypted /\ ~opened /\ encryptionKey[p] = NoKey
  /\ createEncryptionKey(p)
  /\ UNCHANGED streamVars

\* An application that uses encryption has derived a key for every proxy
Open ==
  /\ ~opened
  /\ encrypted => \A p \in Proxies : encryptionKey[p] # NoKey
  /\ opened' = TRUE
  /\ UNCHANGED <<keyVars, program, count, encrypted, connected, channel,
                 shareZip, outputZip, inputs, shares, received, round,
                 outputs, sent, refused, said, faults>>

TakePublicKey ==
  /\ encrypted /\ publicKey = NoKey
  /\ createClientPublicKey
  /\ UNCHANGED streamVars

\* The engines are given the public key and derive the session keys
Connect ==
  /\ opened /\ ~connected
  /\ encrypted => publicKey # NoKey
  /\ connected' = TRUE
  /\ UNCHANGED <<keyVars, program, count, encrypted, opened, channel,
                 shareZip, outputZip, inputs, shares, received, round,
                 outputs, sent, refused, said, faults>>

-----------------------------------------------------------------------------
(* Input: userInputBus.zip(extracted shares).                              *)

\* What the two queues lead to: an input that meets a share list is masked
\* and goes out; an element that is no integer throws
Zip(inp, shs) ==
  LET masked == maskInputs(inp.values, shs[1]) IN
  IF inp = None \/ shs = <<>>
    THEN /\ inputs' = inp /\ shares' = shs
         /\ UNCHANGED <<received, sent, refused>>
    ELSE /\ inputs' = None /\ shares' = Tail(shs)
         /\ IF masked = Error
              THEN /\ refused' = refused \union {inp.list}
                   /\ UNCHANGED <<received, sent>>
              ELSE /\ received' = masked
                   /\ sent' = Append(sent, inp.list)
                   /\ UNCHANGED refused

MaySend(l) ==
  /\ connected
  /\ inputs = None /\ received = None
  /\ Len(sent) + Cardinality(refused) < MaxSends
  /\ Len(outputs) + faults >= Len(sent)    \* the last results are awaited
  /\ Len(l) = count

\* sendInputsWithShares
SendSecret(l) ==
  /\ program # "regint" /\ MaySend(l)
  /\ LET values == convertUserInput(l) IN
     IF values = Error
       THEN refused' = refused \union {l}
            /\ UNCHANGED <<inputs, shares, received, sent>>
       ELSE Zip([list |-> l, values |-> values], shares)
  /\ UNCHANGED <<setup, channel, shareZip, outputZip, round, outputs, said,
                 faults>>

\* sendClearInputs with int32: the proxies keep the low bits of each number
SendClear(l) ==
  /\ program = "regint" /\ MaySend(l)
  /\ LET values == convertUserInput(l) IN
     IF values = Error
       THEN refused' = refused \union {l} /\ UNCHANGED <<received, sent>>
       ELSE /\ received' = [i \in 1..Len(l) |->
                              (values[i].val \div Unit) % INT_32_SIZE]
            /\ sent' = Append(sent, l)
            /\ UNCHANGED refused
  /\ UNCHANGED <<setup, channel, shareZip, outputZip, inputs, shares, round,
                 outputs, said, faults>>

-----------------------------------------------------------------------------
(* The engines and their proxies.                                          *)

message(type, width, words) ==
  [type |-> type, width |-> width, words |-> words, key |-> publicKey]

\* The shares of all proxies add up to triples <<m, m, m * m>>
shareWords(p, ms) ==
  [i \in 1..(3 * Len(ms)) |->
     LET m == ms[(i + 2) \div 3]
         whole == IF i % 3 = 0 THEN multiply(m, m) ELSE m IN
     IF p = 1 THEN (whole + i * (NProxies - 1)) % GFP_PRIME
     ELSE (-i) % GFP_PRIME]

\* The program waits for an input: it sends a triple for each number
EngineShares ==
  /\ connected /\ program # "regint"
  /\ round = None /\ received = None
  /\ \E ms \in [1..count -> Masks] :
       /\ round' = ms
       /\ channel' = [p \in Proxies |-> Append(channel[p],
            message("TRIPLE_SHARES", INTEGER_LENGTH_BYTES,
                    shareWords(p, ms)))]
  /\ UNCHANGED <<setup, shareZip,
                 outputZip, inputs, shares, received, outputs, sent, refused,
                 said, faults>>

revealed ==
  IF program = "regint" THEN message("INT_32", 4, received)
  ELSE message(ResultType[program], INTEGER_LENGTH_BYTES,
         [i \in 1..Len(received) |-> (received[i] - round[i]) % GFP_PRIME])

\* What an engine may say instead: another number, a type of no result, or
\* the same number as another type of result
differing ==
  LET changed == [revealed EXCEPT !.words[1] = (@ + 1) % GFP_PRIME]
      other == IF program = "int" THEN "CLEAR_MODP_FIX" ELSE "CLEAR_MODP_INT"
  IN {changed, [revealed EXCEPT !.type = "NOTYPE"],
      IF program = "regint" THEN changed ELSE [revealed EXCEPT !.type = other]}

Say(results) ==
  /\ channel' = [p \in Proxies |-> Append(channel[p], results[p])]
  /\ said' = [p \in Proxies |-> Append(said[p], results[p])]
  /\ received' = None /\ round' = None
  /\ UNCHANGED <<setup, shareZip,
                 outputZip, inputs, shares, outputs, sent, refused>>

EngineReveals ==
  /\ received # None /\ (program # "regint" => round # None)
  /\ Say([p \in Proxies |-> revealed])
  /\ UNCHANGED faults

Fault == faults < MaxFaults /\ faults' = faults + 1

EngineDiffers(p) ==
  /\ received # None /\ (program # "regint" => round # None)
  /\ Fault
  /\ \E m \in differing : Say([q \in Proxies |-> IF q = p THEN m ELSE revealed])

-----------------------------------------------------------------------------
(* Messages arrive: parseSpdzMessage, the two streams and their zips.      *)

\* A message decrypts under the key its engine used, if any
parses(p, m) == m.key = encryptionKey[p]

\* Variant: every message is taken for a result
isSharesNever(m) == FALSE

\* The filters of sharesStream and outputsStream
isShares(m) == m.type = "TRIPLE_SHARES"

\* zipAsArray: once every queue has an entry, the first of each come out
taken(zip) ==
  IF \A p \in Proxies : zip[p] # <<>>
    THEN [p \in Proxies |-> Tail(zip[p])] ELSE zip
joined(zip) ==
  IF \A p \in Proxies : zip[p] # <<>>
    THEN <<[p \in Proxies |-> Head(zip[p])]>> ELSE <<>>

OnShares(p, m) ==
  LET zip == [shareZip EXCEPT ![p] = Append(@, m)]
      list == IF joined(zip) = <<>> THEN Error
              ELSE binaryToShare(joined(zip)[1]) IN
  /\ shareZip' = taken(zip)
  /\ Zip(inputs, IF list = Error THEN shares ELSE Append(shares, list))
  /\ UNCHANGED <<outputZip, outputs>>

OnResult(p, m) ==
  LET zip == [outputZip EXCEPT ![p] = Append(@, m)] IN
  /\ outputZip' = taken(zip)
  /\ outputs' = IF joined(zip) = <<>> THEN outputs
                ELSE Append(outputs, convertOutput(joined(zip)[1]))
  /\ UNCHANGED <<shareZip, inputs, shares, received, sent, refused>>

\* A message that does not parse is an error on both streams, which no zip
\* waits for
Deliver(p) ==
  /\ channel[p] # <<>>
  /\ channel' = [channel EXCEPT ![p] = Tail(@)]
  /\ LET m == Head(channel[p]) IN
     IF ~parses(p, m)
       THEN UNCHANGED <<shareZip, outputZip, outputs, inputs, shares,
                        received, sent, refused>>
     ELSE IF isShares(m) THEN OnShares(p, m)
     ELSE OnResult(p, m)
  /\ UNCHANGED <<setup, round, said,
                 faults>>

\* A message is lost, or arrives as something that does not parse
Lose(p) ==
  /\ channel[p] # <<>> /\ Fault
  /\ channel' = [channel EXCEPT ![p] = Tail(@)]
  /\ UNCHANGED <<setup, shareZip,
                 outputZip, inputs, shares, received, round, outputs, sent,
                 refused, said>>

-----------------------------------------------------------------------------
Next ==
  \/ SetKeyPair \/ TakePublicKey \/ Open \/ Connect
  \/ EngineShares \/ EngineReveals
  \/ \E l \in Lists : SendSecret(l) \/ SendClear(l)
  \/ \E p \in Proxies :
       DeriveKey(p) \/ EngineDiffers(p) \/ Deliver(p) \/ Lose(p)

Spec == Init /\ [][Next]_vars

-----------------------------------------------------------------------------
(* Properties.                                                             *)

WholeNumbers(l) == \A i \in 1..Len(l) : isInteger(l[i])
Numbers(l) == \A i \in 1..Len(l) : l[i].type = "number"
within(l, bound) ==
  \A i \in 1..Len(l) : l[i].val > -bound * Unit /\ l[i].val < bound * Unit

\* What the documentation lets an application pass: integers, or numbers
\* within the fixed point bits of which some have decimals.  No list is empty:
\* results without a number do not compare (binaryToArray.js 43).
InBounds(l) == l # <<>> /\
  CASE program = "int" -> WholeNumbers(l) /\ within(l, MAX_SAFE_INTEGER + 1)
    [] program = "fix" ->
         /\ Numbers(l) /\ ~WholeNumbers(l)
         /\ within(l, 2 ^ (fix_whole_bitlength - fix_decimal_bitlength))
    [] program = "regint" -> WholeNumbers(l) /\ within(l, INT_32_SIZE \div 2)

\* The result is the list: to half of the last digit if it is fixed point,
\* and as unsigned integers if it is int32
Exact(out, l) ==
  /\ out # Error /\ Len(out) = Len(l)
  /\ \A i \in 1..Len(l) :
       CASE program = "int" -> out[i] * Unit = l[i].val
         [] program = "fix" -> out[i] - l[i].val \in {-1, 0, 1}
         [] program = "regint" ->
              out[i] = (l[i].val \div Unit) % INT_32_SIZE

Idle == \A p \in Proxies : channel[p] = <<>>

\* Without faults the application gets back exactly what it passed, in
\* order, through list checks, fixed point, field mapping, Montgomery form,
\* triples, masks, encryption, zips and back (transform.js 95-155, Gfp.js,
\* binaryToShare.js): every list within the documented bounds is accepted,
\* a single number with decimals left out.
EchoExact ==
  faults = 0 =>
    /\ \A l \in refused : InBounds(l) => program = "fix" /\ Len(l) = 1
    /\ \A i \in 1..Len(outputs) :
         InBounds(sent[i]) => Exact(outputs[i], sent[i])
    /\ Idle /\ received = None /\ ~rekeyed => Len(outputs) = Len(sent)

\* transform.js 87: "each engine is expected to return the same result".
\* Whatever is lost, shifted or different, a result that reaches the
\* application is one that every engine has sent, read as the last proxy's
\* type says.
ResultsSaid ==
  \A i \in 1..Len(outputs) : outputs[i] # Error =>
    \E n \in 1..Len(said[NProxies]) :
      LET m == said[NProxies][n] IN
      /\ outputs[i] = convertOutput(<<m>>)
      /\ \A p \in Proxies : \E k \in 1..Len(said[p]) :
           said[p][k].words = m.words
=============================================================================
