------------------------- MODULE EchoSessionProofs -------------------------
(***************************************************************************)
(* Proofs about EchoSession, for any number of proxies, key pairs, values  *)
(* and faults, every odd prime and every width: client and engines use the *)
(* same keys; values keep their types; a result was sent by every engine;  *)
(* and without faults the application gets back what it sent.              *)
(*                                                                         *)
(* The types rest on ConversionsProofs: a sum of shares, an inverse and a  *)
(* converted value are in their ranges.  For results: what is in a zip or  *)
(* on a wire was said by its engine (SaidInv), a result leaves the zip     *)
(* when each proxy has one, and is given to the application only if all    *)
(* are the same.                                                           *)
(*                                                                         *)
(* Without faults (EchoInv), at most one result and one list of masks are  *)
(* on their way, and Flow says where each proxy's copy of them is: on the  *)
(* wire, in the zip, or gone because it did not parse.  Counts relates the *)
(* histories of sends, results and outputs.  Content says what the data    *)
(* are: what the engines hold is the last list under the round's masks,    *)
(* and every result said reads as the list it answers, which is where the  *)
(* round trip through field, Montgomery form, masks and back is used.      *)
(***************************************************************************)
EXTENDS EchoSession, ConversionsProofs, TLAPS

\* Every key handed out so far belongs to the pair in the memo, as long as
\* setDHKeyPair has not replaced a pair after its use.
FromMemo ==
  ~rekeyed =>
    /\ publicKey \in {NoKey, dhKeyPair}
    /\ \A p \in Proxies : encryptionKey[p] \in {NoKey, dhKeyPair}

KeysInv == KeysTypeOK /\ FromMemo

\* The pair that the next call uses is a pair, and the one in the memo if
\* there is one.
LEMMA NextPair ==
  ASSUME KeysTypeOK, MemoClientPair
  PROVE  /\ dhKeyPair' \in Pairs
         /\ dhKeyPair # NoKey => dhKeyPair' = dhKeyPair
         /\ dhKeyPair' = clientPair
         /\ made' \in 0..MaxPairs
<1>1. dhKeyPair' = clientPair /\ clientPair \in Pairs
  BY DEF MemoClientPair
<1>2. dhKeyPair # NoKey => clientPair = dhKeyPair
  BY DEF clientPair
<1>3. CASE clientPair = made + 1
  <2>1. made + 1 \in 1..MaxPairs \/ made + 1 = SavedPair
    BY <1>1, <1>3 DEF Pairs
  <2>2. made + 1 # SavedPair
    BY KeyAssumption DEF KeysTypeOK
  <2> QED
    BY <1>1, <1>2, <1>3, <2>1, <2>2, KeyAssumption
       DEF MemoClientPair, KeysTypeOK
<1>4. CASE clientPair # made + 1
  BY <1>1, <1>2, <1>4 DEF MemoClientPair, KeysTypeOK
<1> QED
  BY <1>3, <1>4

LEMMA NoKeyIsNoPair == NoKey \notin Pairs
BY KeyAssumption DEF Pairs

LEMMA KeysInvInit == Init => KeysInv
<1> SUFFICES ASSUME KeysInit PROVE KeysInv
  BY DEF Init
<1>1. KeysTypeOK
  <2>1. 0 \in 0..MaxPairs
    BY KeyAssumption
  <2> QED
    BY <2>1 DEF KeysInit, KeysTypeOK
<1>2. FromMemo
  BY DEF KeysInit, FromMemo
<1> QED
  BY <1>1, <1>2 DEF KeysInv

\* Deriving a session key keeps the invariant: the first one makes the pair
\* that all others are derived from.
LEMMA KeysInvDerive ==
  ASSUME KeysInv, NEW p \in Proxies, createEncryptionKey(p)
  PROVE  KeysInv'
<1>1. MemoClientPair /\ KeysTypeOK
  BY DEF createEncryptionKey, KeysInv
<1>2. /\ dhKeyPair' \in Pairs
      /\ dhKeyPair # NoKey => dhKeyPair' = dhKeyPair
      /\ dhKeyPair' = clientPair
      /\ made' \in 0..MaxPairs
  BY <1>1, NextPair
<1>3. /\ encryptionKey' = [encryptionKey EXCEPT ![p] = dhKeyPair']
      /\ publicKey' = publicKey /\ rekeyed' = rekeyed
  BY <1>2 DEF createEncryptionKey
<1>4. KeysTypeOK'
  BY <1>1, <1>2, <1>3 DEF KeysTypeOK
<1>5. FromMemo'
  BY <1>1, <1>2, <1>3 DEF FromMemo, KeysInv, KeysTypeOK
<1> QED
  BY <1>4, <1>5 DEF KeysInv

LEMMA KeysInvTake ==
  ASSUME KeysInv, createClientPublicKey
  PROVE  KeysInv'
<1>1. MemoClientPair /\ KeysTypeOK
  BY DEF createClientPublicKey, KeysInv
<1>2. /\ dhKeyPair' \in Pairs
      /\ dhKeyPair # NoKey => dhKeyPair' = dhKeyPair
      /\ dhKeyPair' = clientPair
      /\ made' \in 0..MaxPairs
  BY <1>1, NextPair
<1>3. /\ publicKey' = dhKeyPair'
      /\ encryptionKey' = encryptionKey /\ rekeyed' = rekeyed
  BY <1>2 DEF createClientPublicKey
<1>4. KeysTypeOK'
  BY <1>1, <1>2, <1>3 DEF KeysTypeOK
<1>5. FromMemo'
  BY <1>1, <1>2, <1>3 DEF FromMemo, KeysInv, KeysTypeOK
<1> QED
  BY <1>4, <1>5 DEF KeysInv

\* A pair the application sets goes unnoticed only if no key is out.
LEMMA KeysInvSet ==
  ASSUME KeysInv, setDHKeyPair
  PROVE  KeysInv'
<1>1. KeysTypeOK'
  BY DEF KeysInv, KeysTypeOK, setDHKeyPair, Pairs
<1>2. FromMemo'
  <2> SUFFICES ASSUME ~rekeyed'
               PROVE  /\ publicKey' \in {NoKey, dhKeyPair'}
                      /\ \A p \in Proxies :
                           encryptionKey'[p] \in {NoKey, dhKeyPair'}
    BY DEF FromMemo
  <2>1. ~rekeyed /\ (~used \/ dhKeyPair = SavedPair)
    BY DEF setDHKeyPair
  <2>2. CASE ~used
    BY <2>2 DEF used, setDHKeyPair
  <2>3. CASE dhKeyPair = SavedPair
    BY <2>1, <2>3 DEF setDHKeyPair, KeysInv, FromMemo
  <2> QED
    BY <2>1, <2>2, <2>3
<1> QED
  BY <1>1, <1>2 DEF KeysInv

LEMMA KeysInvKept ==
  ASSUME KeysInv, UNCHANGED keyVars
  PROVE  KeysInv'
BY DEF KeysInv, KeysTypeOK, FromMemo, keyVars

LEMMA KeysInvNext == KeysInv /\ [Next]_vars => KeysInv'
<1> SUFFICES ASSUME KeysInv, [Next]_vars PROVE KeysInv'
  OBVIOUS
<1>1. CASE SetKeyPair
  BY <1>1, KeysInvSet DEF SetKeyPair
<1>2. CASE TakePublicKey
  BY <1>2, KeysInvTake DEF TakePublicKey
<1>3. CASE \E p \in Proxies : DeriveKey(p)
  BY <1>3, KeysInvDerive DEF DeriveKey
<1>4. CASE UNCHANGED keyVars
  BY <1>4, KeysInvKept
<1>5. ASSUME Open \/ Connect PROVE UNCHANGED keyVars
  BY <1>5 DEF Open, Connect, keyVars
<1>6. ASSUME EngineShares \/ EngineReveals PROVE UNCHANGED keyVars
  BY <1>6 DEF EngineShares, EngineReveals, Say, setup, keyVars
<1>7. ASSUME NEW l \in Lists, SendSecret(l) \/ SendClear(l)
      PROVE  UNCHANGED keyVars
  BY <1>7 DEF SendSecret, SendClear, setup, keyVars
<1>8. ASSUME NEW p \in Proxies, EngineDiffers(p) \/ Deliver(p) \/ Lose(p)
      PROVE  UNCHANGED keyVars
  BY <1>8 DEF EngineDiffers, Say, Deliver, Lose, setup, keyVars
<1>9. CASE UNCHANGED vars
  BY <1>9, <1>4 DEF vars
<1> QED
  BY <1>1, <1>2, <1>3, <1>4, <1>5, <1>6, <1>7, <1>8, <1>9 DEF Next

\* The keys of client and engines agree in every encrypted session, in
\* whatever order the application derives them, hands out the public key and
\* sets a pair (crypto/index.js 8, 81-138), unless it replaces a used pair.
THEOREM KeysAgreement == Spec => []KeysAgree
<1>1. KeysInv => KeysAgree
  BY NoKeyIsNoPair DEF KeysInv, FromMemo, KeysAgree
<1> QED
  BY <1>1, KeysInvInit, KeysInvNext, PTL DEF Spec

-----------------------------------------------------------------------------
(* Types, and that results are what the engines have said.                 *)

Types == {"TRIPLE_SHARES", "CLEAR_MODP_INT", "CLEAR_MODP_FIX", "INT_32",
          "NOTYPE"}

Message == [type : Types, width : Int, words : Seq(Int),
            key : Pairs \union {NoKey}]

LEMMA MessageType ==
  ASSUME NEW t \in Types, NEW w \in Int, NEW words \in Seq(Int),
         publicKey \in Pairs \union {NoKey}
  PROVE  message(t, w, words) \in Message
BY DEF message, Message

Input(inp) ==
  \/ inp = None
  \/ /\ inp.list \in Lists
     /\ inp.values \in Seq(JSValue) /\ Len(inp.values) = count

Masked(rec) == rec = None \/ (rec \in Seq(Int) /\ Len(rec) = count)

TypeInv ==
  /\ KeysTypeOK
  /\ program \in Program /\ count \in Nat /\ encrypted \in BOOLEAN
  /\ opened \in BOOLEAN /\ connected \in BOOLEAN
  /\ channel \in [Proxies -> Seq(Message)]
  /\ shareZip \in [Proxies -> Seq(Message)]
  /\ outputZip \in [Proxies -> Seq(Message)]
  /\ said \in [Proxies -> Seq(Message)]
  /\ Input(inputs)
  /\ shares \in Seq(Seq(Int))
  /\ Masked(received)
  /\ round = None \/ round \in [1..count -> Masks]
  /\ outputs \in Seq(Seq(Int) \union {Error})
  /\ sent \in Seq(Lists)
  /\ refused \subseteq Lists
  /\ faults \in 0..MaxFaults

\* What is no share list is something its engine has said
Said(p, m) == \E k \in 1..Len(said[p]) : said[p][k] = m

SaidInv ==
  /\ \A p \in Proxies : \A i \in 1..Len(channel[p]) :
       isShares(channel[p][i]) \/ Said(p, channel[p][i])
  /\ \A p \in Proxies : \A i \in 1..Len(outputZip[p]) :
       Said(p, outputZip[p][i]) /\ ~isShares(outputZip[p][i])
  /\ ResultsSaid

IInv == TypeInv /\ SaidInv

LEMMA InvTypes == IInv => TypeOK
<1> SUFFICES ASSUME IInv PROVE TypeOK
  OBVIOUS
<1>1. TypeInv /\ SaidInv
  BY DEF IInv
<1>2. ASSUME NEW p \in Proxies
      PROVE  /\ \A i \in 1..Len(channel[p]) : Words(channel[p][i].words)
             /\ \A i \in 1..Len(shareZip[p]) : Words(shareZip[p][i].words)
             /\ \A i \in 1..Len(outputZip[p]) :
                  outputZip[p][i].type # "TRIPLE_SHARES"
  <2>1. channel[p] \in Seq(Message) /\ shareZip[p] \in Seq(Message)
    BY <1>1 DEF TypeInv
  <2>2. /\ \A i \in 1..Len(channel[p]) : channel[p][i] \in Message
        /\ \A i \in 1..Len(shareZip[p]) : shareZip[p][i] \in Message
    BY <2>1
  <2>3. \A m \in Message : Words(m.words)
    BY DEF Message, Words
  <2> QED
    BY <1>1, <2>2, <2>3 DEF SaidInv, isShares
<1>3. \A i \in 1..Len(shares) : Words(shares[i])
  BY <1>1 DEF TypeInv, Words
<1>4. \A i \in 1..Len(outputs) : outputs[i] = Error \/ Words(outputs[i])
  BY <1>1 DEF TypeInv, Words
<1>5. received = None \/ Words(received)
  BY <1>1 DEF TypeInv, Masked, Words
<1> QED
  BY <1>1, <1>2, <1>3, <1>4, <1>5 DEF TypeInv, Input, TypeOK

LEMMA InvInit == Init => IInv
<1> SUFFICES ASSUME Init PROVE IInv
  OBVIOUS
<1>1. KeysTypeOK
  BY KeysInvInit DEF KeysInv
<1>2. count \in Nat
  <2>1. PICK l \in Lists : count = Len(l)
    BY DEF Init
  <2>2. l \in Seq(JSValue)
    BY DataAssumption
  <2> QED
    BY <2>1, <2>2
<1>3. 0 \in 0..MaxFaults
  BY DataAssumption
<1>4. TypeInv
  <2>1. \A f : f = [p \in Proxies |-> <<>>] => f \in [Proxies -> Seq(Message)]
    OBVIOUS
  <2>2. /\ channel \in [Proxies -> Seq(Message)]
        /\ shareZip \in [Proxies -> Seq(Message)]
        /\ outputZip \in [Proxies -> Seq(Message)]
        /\ said \in [Proxies -> Seq(Message)]
    BY <2>1 DEF Init
  <2>3. /\ shares \in Seq(Seq(Int)) /\ sent \in Seq(Lists)
        /\ outputs \in Seq(Seq(Int) \union {Error})
    BY DEF Init
  <2>4. Input(inputs) /\ Masked(received)
    BY DEF Init, Input, Masked
  <2> QED
    BY <1>1, <1>2, <1>3, <2>2, <2>3, <2>4 DEF Init, TypeInv
<1>5. SaidInv
  BY DEF Init, SaidInv, ResultsSaid
<1> QED
  BY <1>4, <1>5 DEF IInv

\* Steps that touch keys and phases only
LEMMA SetupInv ==
  ASSUME IInv, KeysTypeOK',
         opened' \in BOOLEAN, connected' \in BOOLEAN,
         UNCHANGED <<program, count, encrypted, channel, shareZip, outputZip,
                     inputs, shares, received, round, outputs, sent, refused,
                     said, faults>>
  PROVE  IInv'
<1>1. TypeInv'
  BY DEF IInv, TypeInv, Input, Masked, Message
<1>2. SaidInv'
  BY DEF IInv, SaidInv, ResultsSaid, Said
<1> QED
  BY <1>1, <1>2 DEF IInv

\* Inputs that meet share lists
LEMMA ZipInv ==
  ASSUME TypeInv, count' = count,
         NEW inp, Input(inp), NEW shs \in Seq(Seq(Int)), Zip(inp, shs)
  PROVE  /\ Input(inputs)' /\ shares' \in Seq(Seq(Int)) /\ Masked(received)'
         /\ sent' \in Seq(Lists) /\ refused' \subseteq Lists
<1> DEFINE masked == maskInputs(inp.values, shs[1])
<1>1. CASE inp = None \/ shs = <<>>
  BY <1>1 DEF Zip, TypeInv, Input, Masked
<1>2. CASE ~(inp = None \/ shs = <<>>)
  <2>1. /\ inp.list \in Lists /\ inp.values \in Seq(JSValue)
        /\ Len(inp.values) = count
    BY <1>2 DEF Input
  <2>2. shs[1] \in Seq(Int) /\ Tail(shs) \in Seq(Seq(Int))
    BY <1>2
  <2>3. inputs' = None /\ shares' = Tail(shs)
    BY <1>2 DEF Zip
  <2>4. masked = Error \/ (masked \in Seq(Int) /\ Len(masked) = count)
    BY <2>1, <2>2, MaskType
  <2>5. \/ /\ refused' = refused \union {inp.list}
           /\ UNCHANGED <<received, sent>>
        \/ /\ received' = masked /\ masked # Error
           /\ sent' = Append(sent, inp.list) /\ UNCHANGED refused
    BY <1>2 DEF Zip
  <2> HIDE DEF masked
  <2>6. /\ sent \in Seq(Lists) /\ refused \subseteq Lists
        /\ Masked(received)
    BY DEF TypeInv
  <2>7. Masked(received)'
    BY <2>4, <2>5, <2>6 DEF Masked
  <2>8. refused' \subseteq Lists
    BY <2>1, <2>5, <2>6
  <2>9. sent' \in Seq(Lists)
    <3>1. inp.list \in Lists
      BY <2>1
    <3>2. sent' = sent \/ sent' = Append(sent, inp.list)
      BY <2>5
    <3> QED
      BY <2>6, <3>1, <3>2, AppendProperties
  <2> QED
    BY <2>2, <2>3, <2>7, <2>8, <2>9 DEF Input
<1> QED
  BY <1>1, <1>2

\* What was said stays said
Kept ==
  \A p \in Proxies : \A k \in 1..Len(said[p]) :
    k \in 1..Len(said'[p]) /\ said'[p][k] = said[p][k]

LEMMA SaidKept ==
  ASSUME Kept
  PROVE  /\ \A p \in Proxies : \A m : Said(p, m) => Said(p, m)'
         /\ ResultsSaid /\ outputs' = outputs => ResultsSaid'
<1>1. \A p \in Proxies : \A m : Said(p, m) => Said(p, m)'
  BY DEF Kept, Said
<1>2. ASSUME ResultsSaid, outputs' = outputs PROVE ResultsSaid'
  <2> SUFFICES ASSUME NEW i \in 1..Len(outputs), outputs[i] # Error
               PROVE  \E n \in 1..Len(said'[NProxies]) :
                 LET m == said'[NProxies][n] IN
                 /\ outputs[i] = convertOutput(<<m>>)
                 /\ \A p \in Proxies : \E k \in 1..Len(said'[p]) :
                      said'[p][k].words = m.words
    BY <1>2 DEF ResultsSaid
  <2>1. PICK n \in 1..Len(said[NProxies]) :
          /\ outputs[i] = convertOutput(<<said[NProxies][n]>>)
          /\ \A p \in Proxies : \E k \in 1..Len(said[p]) :
               said[p][k].words = said[NProxies][n].words
    BY <1>2 DEF ResultsSaid
  <2>2. n \in 1..Len(said'[NProxies]) /\ said'[NProxies][n] = said[NProxies][n]
    BY KeyAssumption DEF Kept, Proxies
  <2>3. \A p \in Proxies : \E k \in 1..Len(said'[p]) :
          said'[p][k].words = said[NProxies][n].words
    BY <2>1 DEF Kept
  <2> QED
    BY <2>1, <2>2, <2>3
<1> QED
  BY <1>1, <1>2

LEMMA SendInv ==
  ASSUME IInv, NEW l \in Lists, SendSecret(l) \/ SendClear(l)
  PROVE  IInv'
<1>1. /\ TypeInv /\ SaidInv /\ l \in Seq(JSValue) /\ Len(l) = count
      /\ UNCHANGED <<keyVars, program, count, encrypted, opened, connected,
                     channel, shareZip, outputZip, round, outputs, said,
                     faults>>
  BY DataAssumption DEF IInv, SendSecret, SendClear, MaySend, setup
<1> DEFINE values == convertUserInput(l)
<1>2. values = Error \/ (values \in Seq(JSValue) /\ Len(values) = count)
  BY <1>1, ConvertInputType
<1>3. /\ Input(inputs)' /\ shares' \in Seq(Seq(Int)) /\ Masked(received)'
      /\ sent' \in Seq(Lists) /\ refused' \subseteq Lists
  <2>1. CASE SendSecret(l) /\ values # Error
    <3>1. Zip([list |-> l, values |-> values], shares)
      BY <2>1 DEF SendSecret
    <3>2. Input([list |-> l, values |-> values])
      BY <1>2, <2>1 DEF Input
    <3>3. shares \in Seq(Seq(Int)) /\ count' = count
      BY <1>1 DEF TypeInv
    <3> HIDE DEF values
    <3> QED
      BY <1>1, <3>1, <3>2, <3>3, ZipInv
  <2>2. CASE values = Error
    BY <1>1, <2>2 DEF SendSecret, SendClear, TypeInv, Input, Masked
  <2>3. CASE SendClear(l) /\ values # Error
    <3> DEFINE low == [i \in 1..Len(l) |->
                         (values[i].val \div Unit) % INT_32_SIZE]
    <3>1. received' = low /\ sent' = Append(sent, l)
          /\ UNCHANGED <<refused, inputs, shares>>
      BY <2>3 DEF SendClear
    <3>2. ASSUME NEW i \in 1..Len(l) PROVE low[i] \in Int
      <4>1. values[i] \in JSValue
        BY <1>1, <1>2, <2>3
      <4>2. values[i].val \in Int
        BY <4>1 DEF JSValue
      <4>3. values[i].val \div Unit \in Int
        BY <4>2, UnitPositive, IntegersDivide
      <4>4. (values[i].val \div Unit) % INT_32_SIZE \in Int
        BY <4>3, WidthAssumption, Division
      <4> QED
        BY <4>4
    <3>3. low \in Seq(Int) /\ Len(low) = count
      BY <1>1, <3>2
    <3>4. Masked(received)'
      BY <1>1, <3>1, <3>3 DEF Masked
    <3>5. sent' \in Seq(Lists)
      BY <1>1, <3>1, AppendProperties DEF TypeInv
    <3> QED
      BY <1>1, <3>1, <3>4, <3>5 DEF TypeInv, Input
  <2> QED
    BY <2>1, <2>2, <2>3
<1>4. KeysTypeOK'
  BY <1>1 DEF TypeInv, KeysTypeOK, keyVars
<1>5. TypeInv'
  BY <1>1, <1>3, <1>4 DEF TypeInv
<1>6. SaidInv'
  <2>1. Kept
    BY <1>1 DEF Kept
  <2> QED
    BY <1>1, <2>1, SaidKept DEF SaidInv
<1> QED
  BY <1>5, <1>6 DEF IInv

LEMMA ShareWordsType ==
  ASSUME TypeInv, NEW p \in Proxies, NEW ms \in [1..count -> Masks]
  PROVE  shareWords(p, ms) \in Seq(Int)
<1>1. count \in Nat /\ Len(ms) = count /\ 3 * count \in Nat
  BY DEF TypeInv
<1> DEFINE w(i) == LET m == ms[(i + 2) \div 3]
                       whole == IF i % 3 = 0 THEN multiply(m, m) ELSE m IN
                   IF p = 1 THEN (whole + i * (NProxies - 1)) % GFP_PRIME
                   ELSE (-i) % GFP_PRIME
<1>2. ASSUME NEW i \in 1..(3 * count) PROVE w(i) \in Int
  <2>1. PICK j \in Int, m \in 0..2 : j = (i + 2) \div 3 /\ i + 2 = j * 3 + m
    BY DivisionPicks
  <2>2. j \in 1..count
    BY <1>1, <2>1
  <2>3. ms[j] \in Int /\ multiply(ms[j], ms[j]) \in Int
    <3>1. ms[j] \in 0..(GFP_PRIME - 1)
      BY <2>2, DataAssumption
    <3>2. ms[j] \in Int
      BY <3>1
    <3>3. multiply(ms[j], ms[j]) \in 0..(GFP_PRIME - 1)
      BY <3>2, MontgomeryType
    <3> QED
      BY <3>2, <3>3
  <2>4. \A x \in Int : x % GFP_PRIME \in Int
    BY PrimeAssumption
  <2> DEFINE whole == IF i % 3 = 0 THEN multiply(ms[j], ms[j]) ELSE ms[j]
  <2>5. whole \in Int
    BY <2>3
  <2>6. w(i) \in {(whole + i * (NProxies - 1)) % GFP_PRIME,
                  (-i) % GFP_PRIME}
    BY <2>1
  <2>7. whole + i * (NProxies - 1) \in Int /\ -i \in Int
    <3>1. i * (NProxies - 1) \in Int
      BY KeyAssumption
    <3> QED
      BY <2>5, <3>1
  <2> HIDE DEF whole, w
  <2> QED
    BY SMTT(30), <2>4, <2>6, <2>7
<1>3. shareWords(p, ms) = [i \in 1..(3 * count) |-> w(i)]
  BY <1>1 DEF shareWords
<1> HIDE DEF w
<1>4. [i \in 1..(3 * count) |-> w(i)] \in Seq(Int)
  BY <1>1, <1>2
<1> QED
  BY <1>3, <1>4

LEMMA EngineSharesInv ==
  ASSUME IInv, EngineShares
  PROVE  IInv'
<1>1. PICK ms \in [1..count -> Masks] :
        /\ round' = ms
        /\ channel' = [p \in Proxies |-> Append(channel[p],
             message("TRIPLE_SHARES", INTEGER_LENGTH_BYTES,
                     shareWords(p, ms)))]
  BY DEF EngineShares
<1>2. /\ TypeInv /\ SaidInv
      /\ UNCHANGED <<keyVars, program, count, encrypted, opened, connected,
                     shareZip, outputZip, inputs, shares, received, outputs,
                     sent, refused, said, faults>>
  BY DEF EngineShares, setup, IInv
<1> DEFINE m == [p \in Proxies |->
                  message("TRIPLE_SHARES", INTEGER_LENGTH_BYTES,
                          shareWords(p, ms))]
<1>3. ASSUME NEW p \in Proxies PROVE m[p] \in Message /\ isShares(m[p])
  <2>1. shareWords(p, ms) \in Seq(Int)
    BY <1>2, ShareWordsType
  <2>2. publicKey \in Pairs \union {NoKey}
    BY <1>2 DEF TypeInv, KeysTypeOK
  <2>3. m[p] = message("TRIPLE_SHARES", INTEGER_LENGTH_BYTES,
                       shareWords(p, ms))
    OBVIOUS
  <2> HIDE DEF m
  <2>4. "TRIPLE_SHARES" \in Types
    BY DEF Types
  <2>5. m[p] \in Message
    BY <2>1, <2>2, <2>3, <2>4, MessageType DEF INTEGER_LENGTH_BYTES
  <2>6. m[p].type = "TRIPLE_SHARES"
    BY <2>3 DEF message
  <2> QED
    BY <2>5, <2>6 DEF isShares
<1>4. \A p \in Proxies : channel'[p] = Append(channel[p], m[p])
  BY <1>1
<1> HIDE DEF m
<1>5. channel' \in [Proxies -> Seq(Message)]
  <2>1. ASSUME NEW p \in Proxies PROVE channel'[p] \in Seq(Message)
    <3>1. channel[p] \in Seq(Message) /\ m[p] \in Message
      BY <1>2, <1>3 DEF TypeInv
    <3> QED
      BY SMTT(30), <1>4, <3>1, AppendProperties
  <2> QED
    BY <1>1, <2>1
<1>6. KeysTypeOK'
  BY <1>2 DEF TypeInv, KeysTypeOK, keyVars
<1>7. TypeInv'
  BY <1>1, <1>2, <1>5, <1>6 DEF TypeInv, Input, Masked
<1>8. ASSUME NEW p \in Proxies, NEW i \in 1..Len(channel'[p])
      PROVE  isShares(channel'[p][i]) \/ Said(p, channel'[p][i])
  <2>1. channel[p] \in Seq(Message)
    BY <1>2 DEF TypeInv
  <2>2. \/ i \in 1..Len(channel[p]) /\ channel'[p][i] = channel[p][i]
        \/ channel'[p][i] = m[p]
    BY <1>3, <1>4, <2>1, AppendProperties
  <2> QED
    BY <1>2, <1>3, <2>2 DEF SaidInv
<1>9. SaidInv'
  <2>1. /\ ResultsSaid
        /\ \A p \in Proxies : \A i \in 1..Len(outputZip[p]) :
             Said(p, outputZip[p][i]) /\ ~isShares(outputZip[p][i])
    BY <1>2 DEF SaidInv
  <2>2. ResultsSaid'
    BY <1>2, <2>1 DEF ResultsSaid
  <2>3. (\A p \in Proxies : \A i \in 1..Len(outputZip[p]) :
             Said(p, outputZip[p][i]) /\ ~isShares(outputZip[p][i]))'
    BY <1>2, <2>1 DEF Said, isShares
  <2>4. (\A p \in Proxies : \A i \in 1..Len(channel[p]) :
             isShares(channel[p][i]) \/ Said(p, channel[p][i]))'
    BY <1>2, <1>8 DEF Said, isShares
  <2> QED
    BY <2>2, <2>3, <2>4 DEF SaidInv
<1> QED
  BY <1>7, <1>9 DEF IInv

\* The engines reveal a result, each its own
LEMMA SayInv ==
  ASSUME IInv, NEW results \in [Proxies -> Message], Say(results),
         faults' \in 0..MaxFaults
  PROVE  IInv'
<1>1. /\ TypeInv /\ SaidInv /\ received' = None /\ round' = None
      /\ UNCHANGED <<keyVars, program, count, encrypted, opened, connected,
                     shareZip, outputZip, inputs, shares, outputs, sent,
                     refused>>
      /\ channel' = [p \in Proxies |-> Append(channel[p], results[p])]
      /\ said' = [p \in Proxies |-> Append(said[p], results[p])]
  BY DEF IInv, Say, setup
<1>2. ASSUME NEW p \in Proxies
      PROVE  /\ channel'[p] = Append(channel[p], results[p])
             /\ said'[p] = Append(said[p], results[p])
             /\ channel'[p] \in Seq(Message) /\ said'[p] \in Seq(Message)
             /\ \A k \in 1..Len(said[p]) :
                  k \in 1..Len(said'[p]) /\ said'[p][k] = said[p][k]
             /\ Said(p, results[p])'
             /\ \A i \in 1..Len(channel'[p]) :
                  \/ i \in 1..Len(channel[p]) /\ channel'[p][i] = channel[p][i]
                  \/ channel'[p][i] = results[p]
  <2>1. /\ channel'[p] = Append(channel[p], results[p])
        /\ said'[p] = Append(said[p], results[p])
    BY <1>1
  <2>2. /\ channel[p] \in Seq(Message) /\ said[p] \in Seq(Message)
        /\ results[p] \in Message
    BY <1>1 DEF TypeInv
  <2>3. /\ channel'[p] \in Seq(Message) /\ said'[p] \in Seq(Message)
    BY <2>1, <2>2, AppendProperties
  <2>4. /\ Len(said[p]) \in Nat /\ Len(said'[p]) = Len(said[p]) + 1
        /\ said'[p][Len(said[p]) + 1] = results[p]
        /\ \A k \in 1..Len(said[p]) : said'[p][k] = said[p][k]
    BY <2>1, <2>2, AppendProperties
  <2>5. /\ Len(channel[p]) \in Nat /\ Len(channel'[p]) = Len(channel[p]) + 1
        /\ channel'[p][Len(channel[p]) + 1] = results[p]
        /\ \A k \in 1..Len(channel[p]) : channel'[p][k] = channel[p][k]
    BY <2>1, <2>2, AppendProperties
  <2>6. Said(p, results[p])'
    BY <2>4 DEF Said
  <2> QED
    BY <2>1, <2>3, <2>4, <2>5, <2>6
<1>3. Kept
  BY <1>2 DEF Kept
<1>4. KeysTypeOK'
  BY <1>1 DEF TypeInv, KeysTypeOK, keyVars
<1>5. /\ channel' \in [Proxies -> Seq(Message)]
      /\ said' \in [Proxies -> Seq(Message)]
  BY <1>1, <1>2
<1>6. TypeInv'
  BY <1>1, <1>4, <1>5 DEF TypeInv, Input, Masked
<1>7. ASSUME NEW p \in Proxies, NEW i \in 1..Len(channel'[p])
      PROVE  (isShares(channel[p][i]) \/ Said(p, channel[p][i]))'
  <2>1. CASE i \in 1..Len(channel[p]) /\ channel'[p][i] = channel[p][i]
    <3>1. isShares(channel[p][i]) \/ Said(p, channel[p][i])
      BY <1>1, <2>1 DEF SaidInv
    <3>2. isShares(channel[p][i]) \/ Said(p, channel[p][i])'
      BY ZenonT(40), <1>2, <3>1 DEF Said
    <3> QED
      BY <2>1, <3>2 DEF isShares, Said
  <2>2. CASE channel'[p][i] = results[p]
    BY <1>2, <2>2 DEF Said
  <2> QED
    BY <1>2, <2>1, <2>2
<1>8. ResultsSaid'
  BY <1>1, <1>3, SaidKept DEF SaidInv
<1>9. ASSUME NEW p \in Proxies, NEW i \in 1..Len(outputZip'[p])
      PROVE  Said(p, outputZip[p][i])' /\ ~isShares(outputZip[p][i])'
  <2>1. Said(p, outputZip[p][i]) /\ ~isShares(outputZip[p][i])
    BY <1>1, <1>9 DEF SaidInv
  <2> QED
    BY <1>1, <1>2, <2>1 DEF Said, isShares
<1>10. SaidInv'
  BY <1>7, <1>8, <1>9 DEF SaidInv
<1> QED
  BY <1>6, <1>10 DEF IInv

LEMMA RevealedType ==
  ASSUME TypeInv, received # None, program # "regint" => round # None
  PROVE  revealed \in Message
<1>1. /\ received \in Seq(Int) /\ Len(received) = count
      /\ publicKey \in Pairs \union {NoKey}
  BY DEF TypeInv, Masked, KeysTypeOK
<1>2. CASE program = "regint"
  BY <1>1, <1>2, MessageType DEF revealed, Types
<1>3. CASE program # "regint"
  <2> DEFINE words == [i \in 1..Len(received) |->
                         (received[i] - round[i]) % GFP_PRIME]
  <2>1. ASSUME NEW i \in 1..Len(received) PROVE words[i] \in Int
    <3>1. received[i] \in Int
      BY <1>1
    <3>2. round[i] \in 0..(GFP_PRIME - 1)
      BY <1>1, <1>3, DataAssumption DEF TypeInv
    <3>3. (received[i] - round[i]) % GFP_PRIME \in Int
      BY <3>1, <3>2, PrimeAssumption
    <3> QED
      BY <3>3
  <2>2. words \in Seq(Int)
    BY <1>1, <2>1
  <2>3. ResultType[program] \in Types
    BY <1>3 DEF TypeInv, Program, ResultType, Types
  <2>4. revealed = message(ResultType[program], INTEGER_LENGTH_BYTES, words)
    BY <1>3 DEF revealed
  <2> HIDE DEF words
  <2> QED
    BY <1>1, <2>2, <2>3, <2>4, MessageType DEF INTEGER_LENGTH_BYTES
<1> QED
  BY <1>2, <1>3

LEMMA DifferingType ==
  ASSUME revealed \in Message
  PROVE  differing \subseteq Message
<1> DEFINE w == revealed.words
           changed == [revealed EXCEPT !.words[1] = (@ + 1) % GFP_PRIME]
<1>1. w \in Seq(Int)
  BY DEF Message
<1>2. [w EXCEPT ![1] = (@ + 1) % GFP_PRIME] \in Seq(Int)
  <2>1. \A x \in Int : (x + 1) % GFP_PRIME \in Int
    BY PrimeAssumption
  <2>2. ASSUME NEW i \in 1..Len(w)
        PROVE  [w EXCEPT ![1] = (@ + 1) % GFP_PRIME][i] \in Int
    BY <1>1, <2>1
  <2>3. DOMAIN w = 1..Len(w)
    BY <1>1
  <2>4. [w EXCEPT ![1] = (@ + 1) % GFP_PRIME] \in [1..Len(w) -> Int]
    BY <2>2, <2>3
  <2> HIDE DEF w
  <2> QED
    BY <1>1, <2>4
<1>3. changed \in Message
  BY <1>2 DEF Message
<1>4. \A t \in Types : [revealed EXCEPT !.type = t] \in Message
  BY DEF Message
<1> HIDE DEF changed
<1> QED
  BY <1>3, <1>4 DEF differing, Types, changed

LEMMA EngineInv ==
  ASSUME IInv, EngineReveals \/ \E p \in Proxies : EngineDiffers(p)
  PROVE  IInv'
<1>1. /\ received # None /\ (program # "regint" => round # None)
      /\ TypeInv /\ faults \in 0..MaxFaults
  BY DEF IInv, TypeInv, EngineReveals, EngineDiffers
<1>2. revealed \in Message
  BY <1>1, RevealedType
<1>3. CASE EngineReveals
  <2> DEFINE results == [p \in Proxies |-> revealed]
  <2>1. results \in [Proxies -> Message] /\ Say(results)
        /\ faults' \in 0..MaxFaults
    BY <1>1, <1>2, <1>3 DEF EngineReveals
  <2> HIDE DEF results
  <2> QED
    BY <2>1, SayInv
<1>4. ASSUME NEW p \in Proxies, EngineDiffers(p) PROVE IInv'
  <2>1. PICK m \in differing :
          Say([q \in Proxies |-> IF q = p THEN m ELSE revealed])
    BY <1>4 DEF EngineDiffers
  <2>2. m \in Message
    BY <1>2, DifferingType
  <2> DEFINE results == [q \in Proxies |-> IF q = p THEN m ELSE revealed]
  <2>3. results \in [Proxies -> Message] /\ Say(results)
    BY <1>2, <2>1, <2>2
  <2>4. faults' \in 0..MaxFaults
    BY <1>1, <1>4, DataAssumption DEF EngineDiffers, Fault
  <2> HIDE DEF results
  <2> QED
    BY <2>3, <2>4, SayInv
<1> QED
  BY <1>3, <1>4

-----------------------------------------------------------------------------
(* Messages arrive.                                                        *)

Queued(z, p, m) == [z EXCEPT ![p] = Append(@, m)]

\* x is in the queue of q, or what is queued now
Among(z, p, m, q, x) ==
  (\E k \in 1..Len(z[q]) : x = z[q][k]) \/ (q = p /\ x = m)

\* What a zip leaves, and what it joins
Leaves(rest, z, p, m) ==
  /\ rest \in [Proxies -> Seq(Message)]
  /\ \A q \in Proxies : \A i \in 1..Len(rest[q]) :
       Among(z, p, m, q, rest[q][i])

Joins(b, z, p, m) ==
  /\ DOMAIN b = Proxies /\ Len(b) = NProxies
  /\ \A q \in Proxies : b[q] \in Message /\ Among(z, p, m, q, b[q])

\* A zip takes the heads, and its queues stay what they were made of
LEMMA ZipTakes ==
  ASSUME NEW z \in [Proxies -> Seq(Message)], NEW p \in Proxies,
         NEW m \in Message, NEW zip, zip = Queued(z, p, m)
  PROVE  /\ Leaves(taken(zip), z, p, m)
         /\ joined(zip) # <<>> => Joins(joined(zip)[1], z, p, m)
<1>0. zip = [z EXCEPT ![p] = Append(@, m)]
  BY DEF Queued
<1>1. zip \in [Proxies -> Seq(Message)]
  <2>1. Append(z[p], m) \in Seq(Message)
    BY AppendProperties
  <2> QED
    BY <1>0, <2>1
<1>2. ASSUME NEW q \in Proxies, NEW i \in 1..Len(zip[q])
      PROVE  Among(z, p, m, q, zip[q][i])
  <2>1. CASE q # p
    BY <1>0, <1>2, <2>1 DEF Among
  <2>2. CASE q = p
    <3>1. zip[q] = Append(z[q], m) /\ z[q] \in Seq(Message)
      BY <1>0, <2>2
    <3>2. /\ Len(z[q]) \in Nat /\ Len(zip[q]) = Len(z[q]) + 1
          /\ zip[q][Len(z[q]) + 1] = m
          /\ \A k \in 1..Len(z[q]) : zip[q][k] = z[q][k]
      BY <3>1, AppendProperties
    <3> QED
      BY <1>2, <2>2, <3>2 DEF Among
  <2> QED
    BY <2>1, <2>2
<1>3. CASE ~\A q \in Proxies : zip[q] # <<>>
  BY <1>1, <1>2, <1>3 DEF taken, joined, Leaves
<1>4. CASE \A q \in Proxies : zip[q] # <<>>
  <2> DEFINE heads == [q \in Proxies |-> Head(zip[q])]
             tails == [q \in Proxies |-> Tail(zip[q])]
  <2>1. taken(zip) = tails /\ joined(zip) = <<heads>>
    BY <1>4 DEF taken, joined
  <2>2. ASSUME NEW q \in Proxies
        PROVE  /\ heads[q] = zip[q][1] /\ 1 \in 1..Len(zip[q])
               /\ heads[q] \in Message /\ tails[q] \in Seq(Message)
               /\ \A i \in 1..Len(tails[q]) :
                    i + 1 \in 1..Len(zip[q]) /\ tails[q][i] = zip[q][i + 1]
    <3>1. zip[q] \in Seq(Message) /\ zip[q] # <<>>
      BY <1>1, <1>4
    <3>2. /\ Head(zip[q]) = zip[q][1] /\ Len(zip[q]) \in Nat \ {0}
          /\ Head(zip[q]) \in Message /\ Tail(zip[q]) \in Seq(Message)
          /\ Len(Tail(zip[q])) = Len(zip[q]) - 1
          /\ \A i \in 1..(Len(zip[q]) - 1) : Tail(zip[q])[i] = zip[q][i + 1]
      BY <3>1, HeadTailProperties
    <3> QED
      BY <3>2
  <2>3. tails \in [Proxies -> Seq(Message)]
    BY <2>2
  <2>4. ASSUME NEW q \in Proxies, NEW i \in 1..Len(tails[q])
        PROVE  Among(z, p, m, q, tails[q][i])
    <3>1. i + 1 \in 1..Len(zip[q]) /\ tails[q][i] = zip[q][i + 1]
      BY <2>2
    <3> HIDE DEF tails
    <3> QED
      BY <1>2, <3>1
  <2>5. <<heads>>[1] = heads /\ DOMAIN heads = Proxies /\ Len(heads) = NProxies
    BY KeyAssumption DEF Proxies
  <2>6. ASSUME NEW q \in Proxies
        PROVE  heads[q] \in Message /\ Among(z, p, m, q, heads[q])
    <3>1. /\ heads[q] = zip[q][1] /\ 1 \in 1..Len(zip[q])
          /\ heads[q] \in Message
      BY <2>2
    <3>2. Among(z, p, m, q, zip[q][1])
      BY <1>2, <3>1
    <3> HIDE DEF heads
    <3> QED
      BY <3>1, <3>2
  <2>7. joined(zip)[1] = heads
    BY <2>1, <2>5
  <2> HIDE DEF heads, tails
  <2>8. Joins(heads, z, p, m)
    BY <2>5, <2>6 DEF Joins
  <2>9. Leaves(tails, z, p, m)
    BY <2>3, <2>4 DEF Leaves
  <2> QED
    BY <2>1, <2>7, <2>8, <2>9
<1> QED
  BY <1>3, <1>4

\* The head of a channel leaves it
LEMMA ChannelTail ==
  ASSUME IInv, NEW p \in Proxies, channel[p] # <<>>,
         channel' = [channel EXCEPT ![p] = Tail(@)], said' = said
  PROVE  /\ channel' \in [Proxies -> Seq(Message)]
         /\ Head(channel[p]) \in Message
         /\ isShares(Head(channel[p])) \/ Said(p, Head(channel[p]))
         /\ \A q \in Proxies : \A i \in 1..Len(channel'[q]) :
              (isShares(channel[q][i]) \/ Said(q, channel[q][i]))'
<1>1. TypeInv /\ SaidInv /\ channel[p] \in Seq(Message)
  BY DEF IInv, TypeInv
<1>2. /\ Head(channel[p]) = channel[p][1] /\ Len(channel[p]) \in Nat \ {0}
      /\ Head(channel[p]) \in Message /\ Tail(channel[p]) \in Seq(Message)
      /\ Len(Tail(channel[p])) = Len(channel[p]) - 1
      /\ \A i \in 1..(Len(channel[p]) - 1) :
           Tail(channel[p])[i] = channel[p][i + 1]
  BY <1>1, HeadTailProperties
<1>3. /\ channel'[p] = Tail(channel[p])
      /\ \A q \in Proxies \ {p} : channel'[q] = channel[q]
      /\ channel' \in [Proxies -> Seq(Message)]
  BY <1>1, <1>2 DEF TypeInv
<1>4. 1 \in 1..Len(channel[p])
  BY <1>2
<1>5. isShares(Head(channel[p])) \/ Said(p, Head(channel[p]))
  BY <1>1, <1>2, <1>4 DEF SaidInv
<1>6. ASSUME NEW q \in Proxies, NEW i \in 1..Len(channel'[q])
      PROVE  (isShares(channel[q][i]) \/ Said(q, channel[q][i]))'
  <2>1. \E k \in 1..Len(channel[q]) : channel'[q][i] = channel[q][k]
    <3>1. CASE q # p
      BY <1>3, <3>1
    <3>2. CASE q = p
      <4>1. i \in 1..(Len(channel[p]) - 1) /\ i + 1 \in 1..Len(channel[p])
        BY <1>2, <1>3, <3>2
      <4> QED
        BY <1>2, <1>3, <3>2, <4>1
    <3> QED
      BY <3>1, <3>2
  <2>2. PICK k \in 1..Len(channel[q]) : channel'[q][i] = channel[q][k]
    BY <2>1
  <2>3. isShares(channel[q][k]) \/ Said(q, channel[q][k])
    BY <1>1 DEF SaidInv
  <2> QED
    BY <2>2, <2>3 DEF isShares, Said
<1> QED
  BY <1>2, <1>3, <1>5, <1>6

SaidBy(out) ==
  \E n \in 1..Len(said[NProxies]) :
    LET m == said[NProxies][n] IN
    /\ out = convertOutput(<<m>>)
    /\ \A p \in Proxies : \E k \in 1..Len(said[p]) :
         said[p][k].words = m.words

\* The next result: one of the joined messages says it, the others agree
LEMMA OutputSaid ==
  ASSUME ResultsSaid, outputs \in Seq(Seq(Int) \union {Error}), said' = said,
         NEW b, DOMAIN b = Proxies, Len(b) = NProxies,
         \A q \in Proxies : b[q] \in Message /\ Said(q, b[q]),
         outputs' = Append(outputs, convertOutput(b))
  PROVE  ResultsSaid' /\ outputs' \in Seq(Seq(Int) \union {Error})
<1> DEFINE out == convertOutput(b)
<1>1. NProxies \in Nat \ {0} /\ Proxies = 1..NProxies /\ NProxies \in Proxies
  BY KeyAssumption DEF Proxies
<1>2. \A q \in 1..NProxies : b[q].words \in Seq(Int)
  BY <1>1 DEF Message
<1>3. out # Error =>
        /\ out \in Seq(Int)
        /\ convertOutput(<<b[NProxies]>>) = out
        /\ \A q \in Proxies : b[q].words = b[NProxies].words
  BY <1>1, <1>2, OutputSame
<1> HIDE DEF out
<1>4. outputs' = Append(outputs, out)
  BY DEF out
<1>5. /\ outputs' \in Seq(Seq(Int) \union {Error})
      /\ Len(outputs) \in Nat /\ Len(outputs') = Len(outputs) + 1
      /\ outputs'[Len(outputs) + 1] = out
      /\ \A i \in 1..Len(outputs) : outputs'[i] = outputs[i]
  <2>1. out \in Seq(Int) \union {Error}
    BY <1>3
  <2> QED
    BY <1>4, <2>1, AppendProperties
<1>6. ASSUME NEW i \in 1..Len(outputs'), outputs'[i] # Error
      PROVE  SaidBy(outputs'[i])
  <2>1. CASE i \in 1..Len(outputs)
    <3>1. \A j \in 1..Len(outputs) : outputs[j] # Error => SaidBy(outputs[j])
      BY DEF ResultsSaid, SaidBy
    <3> QED
      BY <1>5, <1>6, <2>1, <3>1
  <2>2. CASE i = Len(outputs) + 1
    <3>1. out # Error /\ outputs'[i] = out
      BY <1>5, <1>6, <2>2
    <3>2. PICK n \in 1..Len(said[NProxies]) : said[NProxies][n] = b[NProxies]
      BY <1>1 DEF Said
    <3>3. \A p \in Proxies : \E k \in 1..Len(said[p]) : said[p][k] = b[p]
      BY DEF Said
    <3>4. \A p \in Proxies : \E k \in 1..Len(said[p]) :
            said[p][k].words = said[NProxies][n].words
      BY <1>3, <3>1, <3>2, <3>3
    <3> QED
      BY <1>3, <3>1, <3>2, <3>4 DEF SaidBy
  <2>3. i \in 1..Len(outputs) \/ i = Len(outputs) + 1
    BY <1>5
  <2> QED
    BY <2>1, <2>2, <2>3
<1>7. ResultsSaid'
  <2>1. ASSUME NEW i \in 1..Len(outputs'), outputs'[i] # Error
        PROVE  SaidBy(outputs[i])'
    <3>1. SaidBy(outputs'[i])
      BY <1>6, <2>1
    <3> QED
      BY ZenonT(40), <3>1 DEF SaidBy
  <2> QED
    BY <2>1 DEF ResultsSaid, SaidBy
<1> QED
  BY <1>5, <1>7

LEMMA OnSharesInv ==
  ASSUME IInv, count' = count, NEW p \in Proxies, NEW m \in Message,
         OnShares(p, m)
  PROVE  /\ shareZip' \in [Proxies -> Seq(Message)]
         /\ Input(inputs)' /\ shares' \in Seq(Seq(Int)) /\ Masked(received)'
         /\ sent' \in Seq(Lists) /\ refused' \subseteq Lists
         /\ UNCHANGED <<outputZip, outputs>>
<1> DEFINE zip == [shareZip EXCEPT ![p] = Append(@, m)]
           list == IF joined(zip) = <<>> THEN Error
                   ELSE binaryToShare(joined(zip)[1])
           next == IF list = Error THEN shares ELSE Append(shares, list)
<1>1. /\ shareZip \in [Proxies -> Seq(Message)] /\ TypeInv
      /\ shares \in Seq(Seq(Int)) /\ Input(inputs)
  BY DEF IInv, TypeInv
<1>2. /\ shareZip' = taken(zip) /\ Zip(inputs, next)
      /\ UNCHANGED <<outputZip, outputs>>
  BY DEF OnShares
<1>3. PICK z : z = zip
  OBVIOUS
<1>4. /\ Leaves(taken(z), shareZip, p, m)
      /\ joined(z) # <<>> => Joins(joined(z)[1], shareZip, p, m)
  <2>1. z = Queued(shareZip, p, m)
    BY <1>3 DEF Queued
  <2> HIDE DEF zip
  <2> QED
    BY <1>1, <2>1, ZipTakes
<1>5. list = Error \/ list \in Seq(Int)
  <2>1. CASE joined(z) = <<>>
    BY <1>3, <2>1
  <2>2. CASE joined(z) # <<>>
    <3>1. PICK b : b = joined(z)[1]
      OBVIOUS
    <3>2. /\ NProxies \in Nat \ {0} /\ DOMAIN b = 1..NProxies
          /\ Len(b) = NProxies
          /\ \A q \in 1..NProxies : b[q].words \in Seq(Int)
      BY <1>4, <2>2, <3>1, KeyAssumption DEF Joins, Proxies, Message
    <3>3. binaryToShare(b) = Error \/ binaryToShare(b) \in Seq(Int)
      BY <3>2, ShareType
    <3>4. list = binaryToShare(b)
      BY <1>3, <2>2, <3>1
    <3> HIDE DEF list
    <3> QED
      BY <3>3, <3>4
  <2> QED
    BY <2>1, <2>2
<1>6. next \in Seq(Seq(Int))
  <2> HIDE DEF list
  <2> QED
    BY <1>1, <1>5, AppendProperties
<1>7. shareZip' \in [Proxies -> Seq(Message)]
  BY <1>2, <1>3, <1>4 DEF Leaves
<1> HIDE DEF next, list, zip
<1> QED
  BY <1>1, <1>2, <1>6, <1>7, ZipInv

LEMMA OnResultInv ==
  ASSUME IInv, NEW p \in Proxies, NEW m \in Message, ~isShares(m), Said(p, m),
         said' = said, OnResult(p, m)
  PROVE  /\ outputZip' \in [Proxies -> Seq(Message)]
         /\ \A q \in Proxies : \A i \in 1..Len(outputZip'[q]) :
              (Said(q, outputZip[q][i]) /\ ~isShares(outputZip[q][i]))'
         /\ ResultsSaid' /\ outputs' \in Seq(Seq(Int) \union {Error})
         /\ UNCHANGED <<shareZip, inputs, shares, received, sent, refused>>
<1>1. /\ outputZip \in [Proxies -> Seq(Message)] /\ SaidInv
      /\ outputs \in Seq(Seq(Int) \union {Error})
  BY DEF IInv, TypeInv
<1>2. PICK z : z = Queued(outputZip, p, m)
  OBVIOUS
<1>3. /\ outputZip' = taken(z)
      /\ outputs' = IF joined(z) = <<>> THEN outputs
                    ELSE Append(outputs, convertOutput(joined(z)[1]))
      /\ UNCHANGED <<shareZip, inputs, shares, received, sent, refused>>
  BY <1>2 DEF OnResult, Queued
<1>4. /\ Leaves(taken(z), outputZip, p, m)
      /\ joined(z) # <<>> => Joins(joined(z)[1], outputZip, p, m)
  BY <1>1, <1>2, ZipTakes
<1>5. \A q \in Proxies : \A k \in 1..Len(outputZip[q]) :
        Said(q, outputZip[q][k]) /\ ~isShares(outputZip[q][k])
  BY <1>1 DEF SaidInv
<1>6. ASSUME NEW q \in Proxies, NEW i \in 1..Len(outputZip'[q])
      PROVE  (Said(q, outputZip[q][i]) /\ ~isShares(outputZip[q][i]))'
  <2>1. PICK x : x = taken(z)[q][i]
    OBVIOUS
  <2>2. Said(q, x) /\ ~isShares(x)
    BY <1>3, <1>4, <1>5, <1>6, <2>1 DEF Leaves, Among
  <2> QED
    BY <1>3, <2>1, <2>2 DEF Said, isShares
<1>7. ResultsSaid' /\ outputs' \in Seq(Seq(Int) \union {Error})
  <2>1. CASE joined(z) = <<>>
    <3>1. outputs' = outputs
      BY <1>3, <2>1
    <3>2. Kept
      BY DEF Kept
    <3> QED
      BY <1>1, <3>1, <3>2, SaidKept DEF SaidInv
  <2>2. CASE joined(z) # <<>>
    <3>1. PICK b : b = joined(z)[1]
      OBVIOUS
    <3>2. /\ DOMAIN b = Proxies /\ Len(b) = NProxies
          /\ \A q \in Proxies : b[q] \in Message /\ Said(q, b[q])
      BY <1>4, <1>5, <2>2, <3>1 DEF Joins, Among
    <3>3. outputs' = Append(outputs, convertOutput(b))
      BY <1>3, <2>2, <3>1
    <3> QED
      BY <1>1, <3>2, <3>3, OutputSaid DEF SaidInv
  <2> QED
    BY <2>1, <2>2
<1> QED
  BY <1>3, <1>4, <1>6, <1>7 DEF Leaves

LEMMA ArriveInv ==
  ASSUME IInv, NEW p \in Proxies, Deliver(p) \/ Lose(p)
  PROVE  IInv'
<1> DEFINE m == Head(channel[p])
<1>1. /\ channel[p] # <<>> /\ channel' = [channel EXCEPT ![p] = Tail(@)]
      /\ UNCHANGED <<keyVars, program, count, encrypted, opened, connected,
                     round, said>>
  BY DEF Deliver, Lose, setup
<1>2. TypeInv /\ SaidInv
  BY DEF IInv
<1>3. /\ channel' \in [Proxies -> Seq(Message)] /\ m \in Message
      /\ isShares(m) \/ Said(p, m)
      /\ \A q \in Proxies : \A i \in 1..Len(channel'[q]) :
           (isShares(channel[q][i]) \/ Said(q, channel[q][i]))'
  BY <1>1, ChannelTail
<1>4. faults' \in 0..MaxFaults
  <2>1. faults \in 0..MaxFaults
    BY <1>2 DEF TypeInv
  <2> QED
    BY <2>1, DataAssumption DEF Deliver, Lose, Fault
<1>5. KeysTypeOK'
  BY <1>1, <1>2 DEF TypeInv, KeysTypeOK, keyVars
<1>6. ResultsSaid /\ outputs' = outputs => ResultsSaid'
  <2>1. Kept
    BY <1>1 DEF Kept
  <2> QED
    BY <2>1, SaidKept
<1>7. \A q \in Proxies : \A i \in 1..Len(outputZip[q]) :
        Said(q, outputZip[q][i]) /\ ~isShares(outputZip[q][i])
  BY <1>2 DEF SaidInv
<1>8. outputZip' = outputZip =>
        \A q \in Proxies : \A i \in 1..Len(outputZip'[q]) :
          (Said(q, outputZip[q][i]) /\ ~isShares(outputZip[q][i]))'
  BY <1>1, <1>7 DEF Said, isShares
<1> HIDE DEF m
<1>9. CASE UNCHANGED <<shareZip, outputZip, outputs, inputs, shares,
                       received, sent, refused>>
  <2>1. TypeInv'
    BY <1>1, <1>2, <1>3, <1>4, <1>5, <1>9 DEF TypeInv, Input, Masked
  <2>2. SaidInv'
    BY <1>2, <1>3, <1>6, <1>8, <1>9 DEF SaidInv
  <2> QED
    BY <2>1, <2>2 DEF IInv
<1>10. CASE OnShares(p, m)
  <2>1. /\ shareZip' \in [Proxies -> Seq(Message)]
        /\ Input(inputs)' /\ shares' \in Seq(Seq(Int)) /\ Masked(received)'
        /\ sent' \in Seq(Lists) /\ refused' \subseteq Lists
        /\ UNCHANGED <<outputZip, outputs>>
    BY <1>1, <1>3, <1>10, OnSharesInv
  <2>2. TypeInv'
    BY <1>1, <1>2, <1>3, <1>4, <1>5, <2>1 DEF TypeInv
  <2>3. SaidInv'
    BY <1>2, <1>3, <1>6, <1>8, <2>1 DEF SaidInv
  <2> QED
    BY <2>2, <2>3 DEF IInv
<1>11. CASE ~isShares(m) /\ OnResult(p, m)
  <2>1. /\ outputZip' \in [Proxies -> Seq(Message)]
        /\ \A q \in Proxies : \A i \in 1..Len(outputZip'[q]) :
             (Said(q, outputZip[q][i]) /\ ~isShares(outputZip[q][i]))'
        /\ ResultsSaid' /\ outputs' \in Seq(Seq(Int) \union {Error})
        /\ UNCHANGED <<shareZip, inputs, shares, received, sent, refused>>
    BY <1>1, <1>3, <1>11, OnResultInv
  <2>2. TypeInv'
    BY <1>1, <1>2, <1>3, <1>4, <1>5, <2>1 DEF TypeInv, Input, Masked
  <2>3. SaidInv'
    BY <1>3, <2>1 DEF SaidInv
  <2> QED
    BY <2>2, <2>3 DEF IInv
<1> QED
  BY <1>9, <1>10, <1>11 DEF Deliver, Lose, m

LEMMA InvNext == KeysInv /\ IInv /\ [Next]_vars => IInv'
<1> SUFFICES ASSUME KeysInv, IInv, [Next]_vars PROVE IInv'
  OBVIOUS
<1>1. TypeInv /\ KeysTypeOK'
  BY KeysInvNext DEF IInv, KeysInv
<1>2. CASE \/ SetKeyPair \/ TakePublicKey \/ Open \/ Connect
           \/ \E p \in Proxies : DeriveKey(p)
           \/ UNCHANGED vars
  <2>1. /\ opened' \in BOOLEAN /\ connected' \in BOOLEAN
        /\ UNCHANGED <<program, count, encrypted, channel, shareZip,
                       outputZip, inputs, shares, received, round, outputs,
                       sent, refused, said, faults>>
    BY <1>1, <1>2 DEF SetKeyPair, TakePublicKey, Open, Connect, DeriveKey,
                      vars, streamVars, TypeInv
  <2> QED
    BY <1>1, <2>1, SetupInv
<1> QED
  BY <1>2, SendInv, EngineSharesInv, EngineInv, ArriveInv DEF Next

\* Numbers stay numbers and messages of their kind, whatever is passed, lost
\* or damaged, for every odd prime and every width (Gfp.js, transform.js).
THEOREM TypesOfSession == Spec => []TypeOK
BY InvTypes, InvInit, InvNext, KeysInvInit, KeysInvNext, PTL DEF Spec

\* A result that the application gets is one that every engine has sent and
\* none has contradicted in its zip (transform.js 87-155, socketApi.js
\* 200-260), whatever is lost, shifted or different.
THEOREM ResultsAreSaid == Spec => []ResultsSaid
<1>1. IInv => ResultsSaid
  BY DEF IInv, SaidInv
<1> QED
  BY <1>1, InvInit, InvNext, KeysInvInit, KeysInvNext, PTL DEF Spec

-----------------------------------------------------------------------------
(* Without faults, what comes back is what was sent.                       *)

Good(p) == encryptionKey[p] = publicKey

SessionInv ==
  /\ connected => opened
  /\ encrypted \/ (publicKey = NoKey /\ \A p \in Proxies :
                                          encryptionKey[p] = NoKey)
  /\ encrypted /\ opened => \A p \in Proxies : encryptionKey[p] # NoKey
  /\ encrypted /\ connected => publicKey # NoKey
  /\ ~connected => /\ inputs = None /\ received = None /\ round = None
                   /\ sent = <<>> /\ outputs = <<>>
                   /\ \A p \in Proxies : said[p] = <<>> /\ channel[p] = <<>>

\* A result that was said and has not reached the application
Due == received = None /\ Len(outputs) # Len(said[1])
result == said[1][Len(said[1])]
sharesFor(p) == message("TRIPLE_SHARES", INTEGER_LENGTH_BYTES,
                        shareWords(p, round))

\* Where the result, or the share message, of one proxy is
Place == {"none", "wire", "zip", "gone"}
onWire(p, r, s) ==
  CASE r = "wire" /\ s = "wire" -> <<result, sharesFor(p)>>
    [] r = "wire" /\ s # "wire" -> <<result>>
    [] r # "wire" /\ s = "wire" -> <<sharesFor(p)>>
    [] OTHER -> <<>>

At(p, r, s) ==
  /\ channel[p] = onWire(p, r, s)
  /\ outputZip[p] = IF r = "zip" THEN <<result>> ELSE <<>>
  /\ shareZip[p] = IF s = "zip" THEN <<sharesFor(p)>> ELSE <<>>
  /\ "zip" \in {r, s} => Good(p)
  /\ "gone" \in {r, s} => ~Good(p)

Flow(waiting) ==
  /\ waiting => round # None /\ received = None /\ shares = <<>>
  /\ \A p \in Proxies : \E r, s \in Place :
       (r # "none" <=> Due) /\ (s # "none" <=> waiting) /\ At(p, r, s)
  /\ Due => \E p \in Proxies : outputZip[p] = <<>>
  /\ waiting => \E p \in Proxies : shareZip[p] = <<>>

Counts ==
  /\ \A p \in Proxies : said[p] = said[1]
  /\ IF received = None
       THEN /\ Len(sent) = Len(said[1])
            /\ Len(outputs) \in {Len(said[1]), Len(said[1]) - 1}
       ELSE Len(sent) = Len(said[1]) + 1 /\ Len(outputs) = Len(said[1])
  /\ Due => result.key = publicKey /\ ~isShares(result)

Queues ==
  /\ shares # <<>> => /\ shares = <<round>> /\ round # None
                      /\ received = None /\ inputs = None
  /\ inputs # None => /\ inputs.values = convertUserInput(inputs.list)
                      /\ Len(inputs.list) = count
                      /\ received = None /\ ~Due
  /\ program = "regint" => round = None /\ inputs = None

\* What the engines have received is the last list
MaskedFrom(l) ==
  IF program = "regint"
    THEN received = [i \in 1..Len(l) |->
                       (convertUserInput(l)[i].val \div Unit) % INT_32_SIZE]
    ELSE /\ round # None
         /\ received = maskInputs(convertUserInput(l), round)

Accepted(l) == convertUserInput(l) # Error /\ Len(l) = count

replies(i) == [p \in Proxies |-> said[1][i]]

Content ==
  /\ \A i \in 1..Len(sent) : Accepted(sent[i])
  /\ received # None => MaskedFrom(sent[Len(sent)])
  /\ \A i \in 1..Len(said[1]) : InBounds(sent[i]) =>
       Exact(convertOutput(replies(i)), sent[i])
  /\ \A i \in 1..Len(outputs) :
       InBounds(sent[i]) => Exact(outputs[i], sent[i])
  /\ \A l \in refused : InBounds(l) => program = "fix" /\ Len(l) = 1

EchoInv ==
  faults = 0 =>
    /\ \E waiting \in BOOLEAN : Flow(waiting)
    /\ Counts /\ Queues /\ Content

-----------------------------------------------------------------------------
(* Lists within the documented bounds.                                     *)

\* Multiples keep their order
LEMMA MultiplesOrder ==
  ASSUME NEW a \in Int, NEW c \in Int, NEW u \in Nat \ {0}
  PROVE  a * u < c * u => a < c
<1> SUFFICES ASSUME ~(a < c) PROVE ~(a * u < c * u)
  OBVIOUS
<1>1. a - c >= 0
  OBVIOUS
<1>2. (a - c) * u >= 0
  BY <1>1
<1>3. a * u - c * u = (a - c) * u
  OBVIOUS
<1>4. a * u \in Int /\ c * u \in Int
  OBVIOUS
<1> QED
  BY <1>2, <1>3, <1>4

\* The integers that a list within the documented bounds stands for
AsIntegers(l, K) ==
  /\ convertUserInput(l) # Error /\ Stands(convertUserInput(l), K)
  /\ Len(K) = Len(l)
  /\ \A i \in 1..Len(l) :
       IF program = "int" THEN K[i] * Unit = l[i].val
       ELSE 2 * K[i] - l[i].val \in {0, 1}

LEMMA WholeInBounds ==
  ASSUME NEW l \in Lists, InBounds(l), program = "int"
  PROVE  \E K : AsIntegers(l, K)
<1> DEFINE K == [i \in 1..Len(l) |-> l[i].val \div Unit]
<1>1. l \in Seq(JSValue) /\ Len(l) \in Nat
  BY DataAssumption
<1>2. WholeNumbers(l) /\ within(l, MAX_SAFE_INTEGER + 1)
  BY DEF InBounds
<1>3. convertUserInput(l) = l
  BY <1>1, <1>2, IntegersAccepted DEF WholeNumbers
<1>4. l # Error
  BY <1>1, ErrorAssumption
<1>5. ASSUME NEW i \in 1..Len(l)
      PROVE  /\ K[i] \in Int /\ l[i].val = K[i] * Unit
             /\ -MAX_SAFE_INTEGER <= K[i] /\ K[i] <= MAX_SAFE_INTEGER
  <2>1. l[i].val \in Int
    <3>1. l[i] \in JSValue
      BY <1>1
    <3> QED
      BY <3>1 DEF JSValue
  <2>2. PICK k \in Int, m \in 0..(Unit - 1) :
          k = l[i].val \div Unit /\ m = l[i].val % Unit
          /\ l[i].val = k * Unit + m
    BY <2>1, UnitPositive, DivisionPicks
  <2>3. m = 0
    BY <1>2, <2>2 DEF WholeNumbers, isInteger
  <2>4. l[i].val = k * Unit /\ K[i] = k
    <3>1. K[i] = k
      BY <2>2
    <3>2. PICK z \in Int : z = k * Unit
      BY UnitPositive
    <3>3. l[i].val = z + 0
      BY <2>2, <2>3, <3>2
    <3> QED
      BY <3>1, <3>2, <3>3
  <2>5. /\ l[i].val > -(MAX_SAFE_INTEGER + 1) * Unit
        /\ l[i].val < (MAX_SAFE_INTEGER + 1) * Unit
    BY <1>2 DEF within
  <2>6. PICK a \in Int, c \in Int :
          a = -(MAX_SAFE_INTEGER + 1) /\ c = MAX_SAFE_INTEGER + 1
    BY WidthAssumption
  <2>7. k < c
    <3>1. k * Unit < c * Unit
      BY <2>4, <2>5, <2>6
    <3> QED
      BY <3>1, UnitPositive, MultiplesOrder
  <2>8. a < k
    <3>1. a * Unit < k * Unit
      BY <2>4, <2>5, <2>6, UnitPositive
    <3> QED
      BY <3>1, UnitPositive, MultiplesOrder
  <2> QED
    BY <2>4, <2>6, <2>7, <2>8, WidthAssumption
<1>6. K \in Seq(Int) /\ Len(K) = Len(l)
  BY <1>1, <1>5
<1>7. AsIntegers(l, K)
  <2> HIDE DEF K
  <2> QED
    BY <1>1, <1>3, <1>4, <1>5, <1>6 DEF AsIntegers, Stands
<1> QED
  BY <1>7

LEMMA DecimalsInBounds ==
  ASSUME NEW l \in Lists, InBounds(l), program = "fix", Len(l) # 1
  PROVE  \E K : AsIntegers(l, K)
<1> DEFINE K == [i \in 1..Len(l) |-> (l[i].val + 1) \div 2]
           v == [i \in 1..Len(l) |-> number(((l[i].val + 1) \div 2) * Unit)]
<1>1. l \in Seq(JSValue) /\ Len(l) > 1 /\ Len(l) \in Nat
  <2>1. l \in Seq(JSValue) /\ l # <<>>
    BY DataAssumption DEF InBounds
  <2>2. Len(l) \in Nat \ {0}
    BY <2>1, EmptySeq
  <2>3. PICK n \in Nat \ {0} : n = Len(l)
    BY <2>2
  <2>4. n > 1
    BY <2>3
  <2> QED
    BY <2>1, <2>3, <2>4
<1>2. PICK whole : whole = 2 ^ (fix_whole_bitlength - fix_decimal_bitlength)
  OBVIOUS
<1>3. Numbers(l) /\ ~WholeNumbers(l) /\ within(l, whole)
  BY <1>2 DEF InBounds
<1>4. PICK j \in 1..Len(l) : ~isInteger(l[j])
  BY <1>3 DEF WholeNumbers
<1>5. /\ \A i \in 1..Len(l) : l[i].type = "number"
      /\ \A i \in 1..Len(l) :
           l[i].val > -whole * Unit /\ l[i].val < whole * Unit
  BY <1>3 DEF Numbers, within
<1>6. /\ convertUserInput(l) = v
      /\ \A i \in 1..Len(l) :
           LET k == (l[i].val + 1) \div 2 IN
           /\ k \in Int /\ -MAX_SAFE_INTEGER <= k /\ k <= MAX_SAFE_INTEGER
           /\ 2 * k - l[i].val \in {0, 1}
  BY <1>1, <1>2, <1>4, <1>5, DecimalsAccepted
<1>7. K \in Seq(Int) /\ Len(K) = Len(l)
  BY <1>1, <1>6
<1>8. ASSUME NEW i \in 1..Len(l)
      PROVE  v[i] \in JSValue /\ v[i].val = K[i] * Unit
  <2>1. PICK k \in Int : k = (l[i].val + 1) \div 2
    BY <1>6
  <2>2. k * Unit \in Int
    BY UnitPositive
  <2> QED
    BY <2>1, <2>2 DEF number, JSValue
<1>9. v \in Seq(JSValue) /\ Len(v) = Len(l)
  BY <1>1, <1>8
<1>10. v # Error
  <2> HIDE DEF v
  <2> QED
    BY <1>9, ErrorAssumption
<1>11. \A i \in 1..Len(l) :
         /\ -MAX_SAFE_INTEGER <= K[i] /\ K[i] <= MAX_SAFE_INTEGER
         /\ 2 * K[i] - l[i].val \in {0, 1}
  BY <1>6
<1>12. AsIntegers(l, K)
  <2> HIDE DEF K, v
  <2> QED
    BY <1>6, <1>7, <1>8, <1>9, <1>10, <1>11 DEF AsIntegers, Stands
<1> QED
  BY <1>12

\* A single number with decimals passes the list check, but is no integer
LEMMA SingleDecimal ==
  ASSUME NEW l \in Lists, InBounds(l), program = "fix", Len(l) = 1, NEW sh
  PROVE  /\ convertUserInput(l) # Error
         /\ maskInputs(convertUserInput(l), sh) = Error
<1>1. l \in Seq(JSValue)
  BY DataAssumption
<1>2. convertUserInput(l) = l
  BY DEF convertUserInput, listComparison
<1>3. ~isInteger(l[1]) /\ l[1].type = "number"
  BY DEF InBounds, WholeNumbers, Numbers
<1>4. fromUserInput(l[1]) = Error
  BY <1>3 DEF isInteger, fromUserInput
<1> DEFINE f == [i \in 1..Len(l) |-> fromUserInput(l[i])]
<1>5. f[1] = Error /\ Len(f) = 1
  BY <1>4
<1>6. orError(f) = Error
  <2> HIDE DEF f
  <2> QED
    BY <1>5 DEF orError
<1>7. maskInputs(l, sh) = Error
  BY <1>6 DEF maskInputs
<1>8. l # Error
  BY <1>1, ErrorAssumption
<1> QED
  BY <1>2, <1>7, <1>8

\* Nothing within the bounds is refused, a single number with decimals left out
LEMMA InBoundsAccepted ==
  ASSUME NEW l \in Lists, InBounds(l), program \in Program
  PROVE  /\ convertUserInput(l) # Error
         /\ \A sh \in Seq(Int) :
              /\ Len(sh) = Len(l) /\ program # "regint"
              /\ maskInputs(convertUserInput(l), sh) = Error
              => program = "fix" /\ Len(l) = 1
<1>1. CASE program = "regint"
  <2>1. l \in Seq(JSValue) /\ WholeNumbers(l)
    BY <1>1, DataAssumption DEF InBounds
  <2>2. convertUserInput(l) = l
    BY <2>1, IntegersAccepted DEF WholeNumbers
  <2>3. l # Error
    BY <2>1, ErrorAssumption
  <2> QED
    BY <1>1, <2>2, <2>3
<1>2. CASE program = "fix" /\ Len(l) = 1
  BY <1>2, SingleDecimal
<1>3. CASE program # "regint" /\ ~(program = "fix" /\ Len(l) = 1)
  <2>1. PICK K : AsIntegers(l, K)
    BY <1>3, WholeInBounds, DecimalsInBounds DEF Program
  <2>2. convertUserInput(l) # Error /\ Stands(convertUserInput(l), K)
        /\ Len(convertUserInput(l)) = Len(l)
    BY <2>1 DEF AsIntegers, Stands
  <2>3. ASSUME NEW sh \in Seq(Int), Len(sh) = Len(l)
        PROVE  maskInputs(convertUserInput(l), sh) # Error
    BY <2>2, <2>3, MaskedBack
  <2> QED
    BY <2>2, <2>3
<1> QED
  BY <1>1, <1>2, <1>3

LEMMA RevealedWords ==
  ASSUME TypeInv, received # None, program # "regint", round # None,
         NEW l \in Lists, MaskedFrom(l), NEW K, AsIntegers(l, K),
         Len(l) = count
  PROVE  /\ revealed.type = ResultType[program]
         /\ revealed.width = INTEGER_LENGTH_BYTES
         /\ revealed.words = [i \in 1..Len(l) |-> gfpUnmapped(K[i])]
         /\ revealed.words \in Seq(0..(GFP_PRIME - 1))
         /\ \A i \in 1..Len(l) : toJSInteger(gfpUnmapped(K[i])) = K[i]
<1>1. /\ received \in Seq(Int) /\ Len(received) = count
      /\ round \in [1..count -> Masks] /\ count \in Nat
  BY DEF TypeInv, Masked
<1>2. round \in Seq(Int) /\ Len(round) = Len(l)
  <2>1. ASSUME NEW i \in 1..count PROVE round[i] \in Int
    <3>1. round[i] \in Masks
      BY <1>1
    <3>2. round[i] \in 0..(GFP_PRIME - 1)
      BY <3>1, DataAssumption
    <3> QED
      BY <3>2
  <2> QED
    BY <1>1, <2>1
<1>3. PICK v : v = convertUserInput(l)
  OBVIOUS
<1>4. Stands(v, K) /\ Len(K) = Len(l) /\ Len(v) = Len(l)
  BY <1>3 DEF AsIntegers, Stands
<1>5. received = maskInputs(v, round)
  BY <1>3 DEF MaskedFrom
<1>6. \A i \in 1..Len(l) :
        /\ gfpUnmapped(K[i]) \in 0..(GFP_PRIME - 1)
        /\ toJSInteger(gfpUnmapped(K[i])) = K[i]
        /\ (received[i] - round[i]) % GFP_PRIME = gfpUnmapped(K[i])
  BY <1>2, <1>4, <1>5, MaskedBack
<1> DEFINE w == [i \in 1..Len(received) |->
                  (received[i] - round[i]) % GFP_PRIME]
           g == [i \in 1..Len(l) |-> gfpUnmapped(K[i])]
<1>7. w = g
  BY <1>1, <1>6
<1>8. g \in Seq(0..(GFP_PRIME - 1))
  <2>1. Len(l) \in Nat
    BY <1>1
  <2>2. PICK n \in Nat : n = Len(l)
    BY <2>1
  <2>3. PICK T : T = 0..(GFP_PRIME - 1)
    OBVIOUS
  <2>4. \A i \in 1..n : g[i] \in T
    BY <1>6, <2>2, <2>3
  <2>5. g \in [1..n -> T]
    BY <2>2, <2>4
  <2>6. g \in Seq(T)
    <3> HIDE DEF g
    <3> QED
      BY <2>5, SeqDef
  <2> HIDE DEF g
  <2> QED
    BY <2>3, <2>6
<1>9. revealed = message(ResultType[program], INTEGER_LENGTH_BYTES, w)
  BY DEF revealed
<1> HIDE DEF w
<1>10. /\ revealed.type = ResultType[program] /\ revealed.words = w
       /\ revealed.width = INTEGER_LENGTH_BYTES
  BY <1>9 DEF message
<1> QED
  BY <1>6, <1>7, <1>8, <1>10

\* A list within the documented bounds comes back as it was
LEMMA EchoedBack ==
  ASSUME TypeInv, received # None, program # "regint" => round # None,
         NEW l \in Lists, InBounds(l), Len(l) = count, MaskedFrom(l),
         NEW b, DOMAIN b = Proxies, Len(b) = NProxies,
         \A p \in Proxies : b[p] = revealed
  PROVE  Exact(convertOutput(b), l)
<1>1. /\ NProxies \in Nat \ {0} /\ DOMAIN b = 1..NProxies
      /\ \A p \in 1..NProxies : b[p] = revealed
  BY KeyAssumption DEF Proxies
<1>2. l # <<>> /\ l \in Seq(JSValue) /\ Len(l) \in Nat \ {0}
  <2>1. l # <<>> /\ l \in Seq(JSValue)
    BY DataAssumption DEF InBounds
  <2> QED
    BY <2>1, EmptySeq
<1>3. received \in Seq(Int) /\ Len(received) = count /\ program \in Program
  BY DEF TypeInv, Masked
<1>4. CASE program = "regint"
  <2>1. l \in Seq(JSValue) /\ WholeNumbers(l)
    BY <1>4, DataAssumption DEF InBounds
  <2>2. convertUserInput(l) = l
    BY <2>1, IntegersAccepted DEF WholeNumbers
  <2>3. received = [i \in 1..Len(l) |-> (l[i].val \div Unit) % INT_32_SIZE]
    BY <1>4, <2>2 DEF MaskedFrom
  <2>4. revealed = message("INT_32", 4, received)
    BY <1>4 DEF revealed
  <2>5. /\ revealed.words = received /\ revealed.type = "INT_32"
        /\ revealed.width = 4
    BY <2>4 DEF message
  <2>6. received # <<>>
    BY <1>2, <1>3
  <2>7. PICK m : m = revealed
    OBVIOUS
  <2>8. convertOutput(b) = m.words
    BY <1>1, <1>3, <2>5, <2>6, <2>7, SameIntegers
  <2>9. convertOutput(b) = received /\ received # Error
    BY <1>3, <2>5, <2>7, <2>8, ErrorAssumption
  <2>10. Len(received) = Len(l)
    BY <1>3
  <2>11. \A i \in 1..Len(l) :
           received[i] = (l[i].val \div Unit) % INT_32_SIZE
    BY <2>3
  <2> QED
    BY <1>4, <2>9, <2>10, <2>11 DEF Exact
<1>5. CASE program = "fix" /\ Len(l) = 1
  <2>1. maskInputs(convertUserInput(l), round) = Error
    BY <1>5, SingleDecimal
  <2>2. received = Error
    BY <1>5, <2>1 DEF MaskedFrom
  <2> QED
    BY <1>3, <2>2, ErrorAssumption
<1>6. CASE program # "regint" /\ ~(program = "fix" /\ Len(l) = 1)
  <2>1. PICK K : AsIntegers(l, K)
    BY <1>3, <1>6, WholeInBounds, DecimalsInBounds DEF Program
  <2>2. PICK m, w : m = revealed /\ w = m.words
    OBVIOUS
  <2>3. /\ m.type = ResultType[program]
        /\ m.width = INTEGER_LENGTH_BYTES
        /\ w = [i \in 1..Len(l) |-> gfpUnmapped(K[i])]
        /\ w \in Seq(0..(GFP_PRIME - 1))
        /\ \A i \in 1..Len(l) : toJSInteger(gfpUnmapped(K[i])) = K[i]
    BY <1>6, <2>1, <2>2, RevealedWords
  <2>4. w # <<>> /\ Len(w) = Len(l)
    BY <1>2, <2>3
  <2>5. /\ m.type = "CLEAR_MODP_INT" =>
             convertOutput(b)
               = orError([i \in 1..Len(w) |-> toJSInteger(w[i])])
        /\ m.type = "CLEAR_MODP_FIX" =>
             convertOutput(b)
               = orError([i \in 1..Len(w) |-> toJSFixedPoint(w[i])])
    <3>1. m.words \in Seq(0..(GFP_PRIME - 1)) /\ m.words # <<>>
      BY <2>2, <2>3, <2>4
    <3>2. \A p \in 1..NProxies : b[p] = m
      BY <1>1, <2>2
    <3>3. /\ m.type = "CLEAR_MODP_INT" /\ m.width = INTEGER_LENGTH_BYTES =>
              convertOutput(b)
                = orError([i \in 1..Len(m.words) |-> toJSInteger(m.words[i])])
          /\ m.type = "CLEAR_MODP_FIX" /\ m.width = INTEGER_LENGTH_BYTES =>
              convertOutput(b)
                = orError([i \in 1..Len(m.words)
                             |-> toJSFixedPoint(m.words[i])])
      BY <1>1, <3>1, <3>2, SameOutput
    <3> QED
      BY <2>2, <2>3, <3>3
  <2>6. /\ K \in Seq(Int) /\ Len(K) = Len(l)
        /\ \A i \in 1..Len(l) :
             IF program = "int" THEN K[i] * Unit = l[i].val
             ELSE 2 * K[i] - l[i].val \in {0, 1}
    BY <2>1 DEF AsIntegers, Stands
  <2>7. \A i \in 1..Len(l) : toJSInteger(w[i]) = K[i] /\ K[i] \in Int
    BY <2>3, <2>6
  <2>8. CASE program = "int"
    <3> DEFINE ints == [i \in 1..Len(w) |-> toJSInteger(w[i])]
    <3>1. ints = [i \in 1..Len(l) |-> K[i]]
      BY <2>4, <2>7
    <3>2. ints = K
      BY <2>6, <3>1
    <3>3. orError(K) = K /\ K # Error
      BY <2>6, ErrorAssumption, NoErrorInList
    <3>4. convertOutput(b) = orError(ints)
      BY <2>3, <2>5, <2>8 DEF ResultType
    <3> HIDE DEF ints
    <3>5. convertOutput(b) = K
      BY <3>2, <3>3, <3>4
    <3> QED
      BY <2>6, <2>8, <3>3, <3>5 DEF Exact
  <2>9. CASE program = "fix"
    <3> DEFINE fixed == [i \in 1..Len(w) |-> toJSFixedPoint(w[i])]
               twice == [i \in 1..Len(l) |-> 2 * K[i]]
    <3>1. ASSUME NEW i \in 1..Len(l) PROVE toJSFixedPoint(w[i]) = 2 * K[i]
      <4>1. toJSInteger(w[i]) = K[i] /\ K[i] \in Int /\ K[i] # Error
        BY <2>7, ErrorAssumption
      <4>2. shiftedIntegerToJSFixed(K[i]) = 2 * K[i]
        BY <4>1, ShiftedBack
      <4> QED
        BY <4>1, <4>2 DEF toJSFixedPoint
    <3>2. fixed = twice
      BY <2>4, <3>1
    <3>3. twice \in Seq(Int) /\ Len(twice) = Len(l)
      <4>1. \A i \in 1..Len(l) : 2 * K[i] \in Int
        BY <2>7
      <4> QED
        BY <1>2, <4>1
    <3>4. \A i \in 1..Len(l) : twice[i] = 2 * K[i]
      OBVIOUS
    <3>5. convertOutput(b) = orError(fixed)
      BY <2>3, <2>5, <2>9 DEF ResultType
    <3> HIDE DEF fixed, twice
    <3>6. orError(twice) = twice /\ twice # Error
      BY <3>3, ErrorAssumption, NoErrorInList
    <3>7. convertOutput(b) = twice
      BY <3>2, <3>5, <3>6
    <3>8. \A i \in 1..Len(l) : twice[i] - l[i].val \in {-1, 0, 1}
      BY <2>6, <2>9, <3>4
    <3> QED
      BY <2>9, <3>3, <3>6, <3>7, <3>8 DEF Exact
  <2> QED
    BY <1>3, <1>6, <2>8, <2>9 DEF Program
<1> QED
  BY <1>4, <1>5, <1>6

-----------------------------------------------------------------------------
(* The session, and what its keys allow.                                   *)

LEMMA SessionInit == Init => SessionInv
BY DEF Init, KeysInit, SessionInv

\* What setting up a session leaves alone
SetupStep ==
  \/ SetKeyPair \/ TakePublicKey \/ Open \/ Connect
  \/ \E p \in Proxies : DeriveKey(p)
  \/ UNCHANGED vars

LEMMA SetupFrame ==
  ASSUME SetupStep
  PROVE  UNCHANGED <<program, count, encrypted, channel, shareZip, outputZip,
                     inputs, shares, received, round, outputs, sent, refused,
                     said, faults>>
BY DEF SetupStep, SetKeyPair, TakePublicKey, Open, Connect, DeriveKey, vars,
       streamVars

\* Once connected, nothing changes the keys
LEMMA KeysFixed ==
  ASSUME SessionInv, connected, SetupStep
  PROVE  UNCHANGED <<publicKey, encryptionKey, connected, opened>>
<1>1. CASE SetKeyPair
  BY <1>1 DEF SetKeyPair, setDHKeyPair, streamVars
<1>2. CASE TakePublicKey
  BY <1>2 DEF TakePublicKey, SessionInv
<1>3. CASE Open \/ Connect
  BY <1>3 DEF Open, Connect, SessionInv
<1>4. CASE \E p \in Proxies : DeriveKey(p)
  BY <1>4 DEF DeriveKey, SessionInv
<1>5. CASE UNCHANGED vars
  BY <1>5 DEF vars, keyVars, streamVars
<1> QED
  BY <1>1, <1>2, <1>3, <1>4, <1>5 DEF SetupStep

LEMMA SessionSetup ==
  ASSUME TypeInv, SessionInv, SetupStep
  PROVE  SessionInv'
<1>0. /\ UNCHANGED <<encrypted, channel, inputs, received, round, sent,
                     outputs, said>>
      /\ KeysTypeOK
  BY SetupFrame DEF TypeInv
<1>1. CASE SetKeyPair
  BY <1>0, <1>1 DEF SetKeyPair, setDHKeyPair, streamVars, SessionInv
<1>2. CASE TakePublicKey
  <2>1. /\ UNCHANGED <<encryptionKey, opened, connected>> /\ encrypted
        /\ publicKey' \in Pairs
    BY <1>2 DEF TakePublicKey, createClientPublicKey, MemoClientPair,
                streamVars
  <2> QED
    BY <1>0, <2>1, NoKeyIsNoPair DEF SessionInv
<1>3. CASE Open
  BY <1>0, <1>3 DEF Open, keyVars, SessionInv
<1>4. CASE Connect
  BY <1>0, <1>4 DEF Connect, keyVars, SessionInv
<1>5. CASE \E p \in Proxies : DeriveKey(p)
  <2>1. /\ encrypted /\ ~opened /\ UNCHANGED <<opened, connected, publicKey>>
    BY <1>5 DEF DeriveKey, createEncryptionKey, streamVars
  <2> QED
    BY <1>0, <2>1 DEF SessionInv
<1>6. CASE UNCHANGED vars
  BY <1>6 DEF vars, keyVars, streamVars, SessionInv
<1> QED
  BY <1>1, <1>2, <1>3, <1>4, <1>5, <1>6 DEF SetupStep

\* Everything else happens in a session
LEMMA SessionRun ==
  ASSUME SessionInv, [Next]_vars, ~SetupStep
  PROVE  /\ connected
         /\ UNCHANGED <<keyVars, program, count, encrypted, opened, connected>>
<1>1. CASE EngineShares
  BY <1>1 DEF EngineShares, setup
<1>2. CASE EngineReveals \/ \E p \in Proxies : EngineDiffers(p)
  BY <1>2 DEF EngineReveals, EngineDiffers, Say, setup, SessionInv
<1>3. CASE \E l \in Lists : SendSecret(l) \/ SendClear(l)
  BY <1>3 DEF SendSecret, SendClear, MaySend, setup
<1>4. CASE \E p \in Proxies : Deliver(p) \/ Lose(p)
  BY <1>4 DEF Deliver, Lose, setup, SessionInv
<1> QED
  BY <1>1, <1>2, <1>3, <1>4 DEF Next, SetupStep

LEMMA SessionNext == TypeInv /\ SessionInv /\ [Next]_vars => SessionInv'
<1> SUFFICES ASSUME TypeInv, SessionInv, [Next]_vars PROVE SessionInv'
  OBVIOUS
<1>1. CASE SetupStep
  BY <1>1, SessionSetup
<1>2. CASE ~SetupStep
  <2>1. /\ connected
        /\ UNCHANGED <<keyVars, encrypted, opened, connected>>
    BY <1>2, SessionRun
  <2> QED
    BY <2>1 DEF SessionInv, keyVars
<1> QED
  BY <1>1, <1>2

-----------------------------------------------------------------------------
(* The messages of one proxy.                                              *)

LEMMA AtKept ==
  ASSUME NEW p \in Proxies, NEW r \in Place, NEW s \in Place, At(p, r, s),
         channel'[p] = channel[p], outputZip'[p] = outputZip[p],
         shareZip'[p] = shareZip[p],
         encryptionKey' = encryptionKey, publicKey' = publicKey,
         r # "none" => result' = result,
         s # "none" => sharesFor(p)' = sharesFor(p)
  PROVE  At(p, r, s)'
<1>1. CASE r = "none" /\ s = "none"
  BY <1>1 DEF At, onWire, Good
<1>2. CASE r # "none" /\ s = "none"
  BY <1>2 DEF At, onWire, Good
<1>3. CASE r = "none" /\ s # "none"
  BY <1>3 DEF At, onWire, Good
<1>4. CASE r # "none" /\ s # "none"
  BY <1>4 DEF At, onWire, Good
<1> QED
  BY <1>1, <1>2, <1>3, <1>4

\* A message that arrives is the result, if it is on the wire, or the share
\* message
LEMMA AtHead ==
  ASSUME NEW p \in Proxies, NEW r \in Place, NEW s \in Place, At(p, r, s),
         channel[p] # <<>>
  PROVE  /\ r = "wire" \/ s = "wire"
         /\ r = "wire" => /\ Head(channel[p]) = result
                          /\ Tail(channel[p]) = IF s = "wire"
                               THEN <<sharesFor(p)>> ELSE <<>>
         /\ r # "wire" => /\ Head(channel[p]) = sharesFor(p)
                          /\ Tail(channel[p]) = <<>>
BY DEF At, onWire

\* The masks of the round are what the share messages of all proxies give
LEMMA RoundJoined ==
  ASSUME TypeInv, round # None,
         NEW b, DOMAIN b = Proxies, Len(b) = NProxies,
         \A p \in Proxies : b[p] = sharesFor(p)
  PROVE  binaryToShare(b) \in {Error, round}
<1>1. /\ NProxies \in Nat \ {0} /\ Proxies = 1..NProxies
      /\ round \in [1..count -> Masks] /\ count \in Nat
      /\ Masks \subseteq 0..(GFP_PRIME - 1)
  BY KeyAssumption, DataAssumption DEF Proxies, TypeInv
<1>2. round \in Seq(0..(GFP_PRIME - 1)) /\ Len(round) = count
  <2>1. PICK T : T = 0..(GFP_PRIME - 1)
    OBVIOUS
  <2>2. round \in [1..count -> T]
    BY <1>1, <2>1
  <2>3. round \in Seq(T) /\ Len(round) = count
    BY <1>1, <2>2
  <2> QED
    BY <2>1, <2>3
<1>3. \A p \in 1..NProxies : b[p].words = shareWords(p, round)
  BY <1>1 DEF sharesFor, message
<1>4. ASSUME NEW p \in 1..NProxies
      PROVE  Len(shareWords(p, round)) = 3 * count
  BY <1>1, <1>2 DEF shareWords
<1>5. ASSUME NEW i \in 1..count
      PROVE  LET k == 3 * (i - 1) + 1
                 s == [p \in 1..NProxies |-> b[p].words[k]]
             IN SharesOf(s, NProxies, round[i], k)
  <2> DEFINE s == [p \in 1..NProxies |-> b[p].words[3 * (i - 1) + 1]]
  <2>1. PICK k \in Int : k = 3 * (i - 1) + 1
    OBVIOUS
  <2>2. k \in 1..(3 * count) /\ (k + 2) \div 3 = i /\ k % 3 # 0
    <3>1. k + 2 = i * 3 + 0 /\ k = (i - 1) * 3 + 1
      BY <2>1
    <3>2. (k + 2) \div 3 = i
      <4>1. PICK j \in Int : j = k + 2
        OBVIOUS
      <4> QED
        BY <3>1, <4>1, DivisionUnique
    <3>3. k % 3 = 1
      <4>1. PICK h \in Int : h = i - 1
        OBVIOUS
      <4> QED
        BY <3>1, <4>1, DivisionUnique
    <3> QED
      BY <1>1, <2>1, <3>2, <3>3
  <2>3. ASSUME NEW p \in 1..NProxies
        PROVE  /\ s[p] = IF p = 1
                           THEN (round[i] + k * (NProxies - 1)) % GFP_PRIME
                           ELSE (-k) % GFP_PRIME
               /\ s[p] \in Int
    <3>1. s[p] = shareWords(p, round)[k]
      BY <1>3, <2>1
    <3>2. k \in 1..(3 * Len(round))
      BY <1>2, <2>2
    <3>3. shareWords(p, round)[k]
            = IF p = 1 THEN (round[i] + k * (NProxies - 1)) % GFP_PRIME
              ELSE (-k) % GFP_PRIME
      BY <2>2, <3>2 DEF shareWords
    <3>4. round[i] \in Int
      <4>1. round[i] \in Masks
        BY <1>1
      <4>2. round[i] \in 0..(GFP_PRIME - 1)
        BY <1>1, <4>1
      <4> QED
        BY <4>2
    <3>5. round[i] + k * (NProxies - 1) \in Int /\ -k \in Int
      BY <1>1, <3>4
    <3>6. /\ (round[i] + k * (NProxies - 1)) % GFP_PRIME \in Int
          /\ (-k) % GFP_PRIME \in Int
      BY <3>5, PrimePositive
    <3> HIDE DEF s
    <3> QED
      BY <3>1, <3>3, <3>6
  <2>4. s \in Seq(Int) /\ Len(s) = NProxies
    <3>1. \A p \in 1..NProxies : b[p].words[3 * (i - 1) + 1] \in Int
      BY <2>3
    <3> QED
      BY <1>1, <3>1
  <2>5. SharesOf(s, NProxies, round[i], k)
    <3> HIDE DEF s
    <3> QED
      BY <2>3, <2>4 DEF SharesOf
  <2> QED
    BY <2>1, <2>5
<1>6. Len(b[1].words) = 3 * Len(round)
  BY <1>1, <1>2, <1>3, <1>4
<1>7. DOMAIN b = 1..NProxies
  BY <1>1
<1>8. \A i \in 1..Len(round) :
        SharesOf([p \in 1..NProxies |-> b[p].words[3 * (i - 1) + 1]],
                 NProxies, round[i], 3 * (i - 1) + 1)
  BY <1>2, <1>5
<1> QED
  BY <1>1, <1>2, <1>6, <1>7, <1>8, SharesJoined

-----------------------------------------------------------------------------
(* The steps of a session without faults.                                  *)

FlowInv == \E waiting \in BOOLEAN : Flow(waiting)
Parts == FlowInv /\ Counts /\ Queues /\ Content

LEMMA EchoInvInit == Init => EchoInv
<1> SUFFICES ASSUME Init PROVE Parts
  BY DEF EchoInv, Parts, FlowInv
<1>1. /\ 1 \in Proxies /\ said[1] = <<>>
  BY KeyAssumption DEF Init, Proxies
<1>2. ~Due
  BY <1>1 DEF Init, Due
<1>3. Flow(FALSE)
  <2>1. \A p \in Proxies : At(p, "none", "none")
    BY DEF Init, At, onWire
  <2>2. "none" \in Place
    BY DEF Place
  <2> QED
    BY <1>2, <2>1, <2>2 DEF Flow
<1>4. Counts
  BY <1>1, <1>2 DEF Init, Counts
<1>5. Queues /\ Content
  BY <1>1 DEF Init, Queues, Content
<1> QED
  BY <1>3, <1>4, <1>5 DEF Parts, FlowInv

\* What the lists and results say depends on the program alone
LEMMA ContentKept ==
  ASSUME Content,
         UNCHANGED <<program, count, outputs, sent, refused, said>>,
         received' # None => MaskedFrom(sent[Len(sent)])'
  PROVE  Content'
<1>1. (\A i \in 1..Len(sent) : Accepted(sent[i]))'
  BY DEF Content, Accepted
<1>2. (\A i \in 1..Len(said[1]) : InBounds(sent[i]) =>
         Exact(convertOutput(replies(i)), sent[i]))'
  <2>1. \A i \in 1..Len(said[1]) : InBounds(sent[i]) =>
          Exact(convertOutput(replies(i)), sent[i])
    BY DEF Content
  <2>2. \A i : replies(i)' = replies(i)
    BY DEF replies
  <2> QED
    BY <2>1, <2>2 DEF InBounds, Exact
<1>3. (\A i \in 1..Len(outputs) :
         InBounds(sent[i]) => Exact(outputs[i], sent[i]))'
  <2>1. \A i \in 1..Len(outputs) :
          InBounds(sent[i]) => Exact(outputs[i], sent[i])
    BY DEF Content
  <2> QED
    BY <2>1 DEF InBounds, Exact
<1>4. (\A l \in refused : InBounds(l) => program = "fix" /\ Len(l) = 1)'
  <2>1. \A l \in refused : InBounds(l) => program = "fix" /\ Len(l) = 1
    BY DEF Content
  <2> QED
    BY <2>1 DEF InBounds
<1> QED
  BY <1>1, <1>2, <1>3, <1>4 DEF Content

\* Steps that leave all data alone
LEMMA DataKept ==
  ASSUME UNCHANGED <<program, count, received, round, inputs, shares, outputs,
                     sent, refused, said>>
  PROVE  /\ Due' = Due /\ result' = result
         /\ Counts /\ (Due => UNCHANGED publicKey) => Counts'
         /\ Queues => Queues'
         /\ Content => Content'
<1>1. Due' = Due /\ result' = result
  BY DEF Due, result
<1>2. Counts /\ (Due => UNCHANGED publicKey) => Counts'
  BY <1>1 DEF Counts, isShares
<1>3. Queues => Queues'
  BY <1>1 DEF Queues
<1>4. Content => Content'
  <2> SUFFICES ASSUME Content PROVE Content'
    OBVIOUS
  <2>1. received' # None => MaskedFrom(sent[Len(sent)])'
    BY DEF Content, MaskedFrom
  <2> QED
    BY <2>1, ContentKept
<1> QED
  BY <1>1, <1>2, <1>3, <1>4

LEMMA SetupEcho ==
  ASSUME SessionInv, Parts, SetupStep
  PROVE  Parts'
<1>1. UNCHANGED <<program, count, encrypted, channel, shareZip, outputZip,
                  inputs, shares, received, round, outputs, sent, refused,
                  said, faults>>
  BY SetupFrame
<1>2. PICK waiting \in BOOLEAN : Flow(waiting)
  BY DEF Parts, FlowInv
<1>3. /\ Due' = Due /\ result' = result /\ 1 \in Proxies
      /\ Counts /\ Queues /\ Content
  BY <1>1, DataKept, KeyAssumption DEF Parts, Proxies
<1>4. CASE connected
  <2>1. UNCHANGED <<publicKey, encryptionKey>>
    BY <1>4, KeysFixed
  <2>2. \A p \in Proxies : sharesFor(p)' = sharesFor(p)
    BY <1>1, <2>1 DEF sharesFor, message, shareWords
  <2>3. ASSUME NEW p \in Proxies, NEW r \in Place, NEW s \in Place, At(p, r, s)
        PROVE  At(p, r, s)'
    BY <1>1, <1>3, <2>1, <2>2, <2>3, AtKept
  <2>4. Flow(waiting)'
    BY <1>1, <1>2, <1>3, <2>3 DEF Flow
  <2>5. Counts' /\ Queues' /\ Content'
    BY <1>1, <1>3, <2>1, DataKept
  <2> QED
    BY <2>4, <2>5 DEF Parts, FlowInv
<1>5. CASE ~connected
  <2>1. ~Due /\ ~waiting
    BY <1>2, <1>3, <1>5 DEF SessionInv, Due, Flow
  <2>2. \A p \in Proxies : At(p, "none", "none")
    BY <1>2, <2>1 DEF Flow
  <2>3. \A p \in Proxies : At(p, "none", "none")'
    BY <1>1, <2>2 DEF At, onWire
  <2>4. "none" \in Place
    BY DEF Place
  <2>5. Flow(FALSE)'
    BY <1>3, <2>1, <2>3, <2>4 DEF Flow
  <2>6. Counts' /\ Queues' /\ Content'
    BY <1>1, <1>3, <2>1, DataKept
  <2> QED
    BY <2>5, <2>6 DEF Parts, FlowInv
<1> QED
  BY <1>4, <1>5

\* The engines share the masks of a round
LEMMA SharesEcho ==
  ASSUME TypeInv, Parts, EngineShares
  PROVE  Parts'
<1>1. PICK ms \in [1..count -> Masks] :
        /\ round' = ms
        /\ channel' = [p \in Proxies |-> Append(channel[p],
             message("TRIPLE_SHARES", INTEGER_LENGTH_BYTES,
                     shareWords(p, ms)))]
  BY DEF EngineShares
<1>2. /\ round = None /\ received = None /\ program # "regint"
      /\ UNCHANGED <<keyVars, program, count, encrypted, opened, connected,
                     shareZip, outputZip, inputs, shares, received, outputs,
                     sent, refused, said, faults>>
  BY DEF EngineShares, setup
<1>3. PICK waiting \in BOOLEAN : Flow(waiting)
  BY DEF Parts, FlowInv
<1>4. /\ ~waiting /\ shares = <<>> /\ Due' = Due /\ result' = result
      /\ encryptionKey' = encryptionKey /\ publicKey' = publicKey
      /\ Counts /\ Queues /\ Content
  BY <1>2, <1>3 DEF Flow, Parts, Queues, Due, result, keyVars
<1>5. round' # None
  <2>1. ms \in Seq(Int)
    <3>1. count \in Nat
      BY DEF TypeInv
    <3>2. ASSUME NEW i \in 1..count PROVE ms[i] \in Int
      <4>1. ms[i] \in Masks
        OBVIOUS
      <4>2. ms[i] \in 0..(GFP_PRIME - 1)
        BY <4>1, DataAssumption
      <4> QED
        BY <4>2
    <3> QED
      BY <3>1, <3>2
  <2> QED
    BY <1>1, <2>1, NoneAssumption
<1>6. \A p \in Proxies : channel'[p] = Append(channel[p], sharesFor(p)')
  <2>1. \A p \in Proxies : sharesFor(p)'
          = message("TRIPLE_SHARES", INTEGER_LENGTH_BYTES, shareWords(p, ms))
    BY <1>1, <1>4 DEF sharesFor, message, shareWords
  <2> QED
    BY <1>1, <2>1
<1>7. ASSUME NEW p \in Proxies, NEW r \in Place, At(p, r, "none")
      PROVE  At(p, r, "wire")' /\ shareZip'[p] = <<>>
  <2>1. channel'[p] = onWire(p, r, "wire")'
    <3>1. CASE r = "wire"
      <4>1. channel[p] = <<result>>
        BY <1>7, <3>1 DEF At, onWire
      <4>2. channel'[p] = <<result, sharesFor(p)'>>
        BY <1>6, <4>1
      <4> QED
        BY <1>4, <3>1, <4>2 DEF onWire
    <3>2. CASE r # "wire"
      <4>1. channel[p] = <<>>
        BY <1>7, <3>2 DEF At, onWire
      <4>2. channel'[p] = <<sharesFor(p)'>>
        BY <1>6, <4>1
      <4> QED
        BY <1>4, <3>2, <4>2 DEF onWire
    <3> QED
      BY <3>1, <3>2
  <2> QED
    BY <1>2, <1>4, <1>7, <2>1 DEF At, Good
<1>8. Flow(TRUE)'
  <2>1. ASSUME NEW p \in Proxies
        PROVE  /\ \E r, s \in Place :
                    (r # "none" <=> Due') /\ (s # "none" <=> TRUE)
                    /\ At(p, r, s)'
               /\ shareZip'[p] = <<>>
    <3>1. PICK r \in Place, s \in Place :
            (r # "none" <=> Due) /\ (s # "none" <=> waiting) /\ At(p, r, s)
      BY <1>3 DEF Flow
    <3>2. s = "none" /\ At(p, r, "wire")' /\ shareZip'[p] = <<>>
      BY <1>4, <1>7, <3>1
    <3>3. "wire" \in Place
      BY DEF Place
    <3> QED
      BY <1>4, <3>1, <3>2, <3>3
  <2>2. 1 \in Proxies
    BY KeyAssumption DEF Proxies
  <2>3. Due' => \E p \in Proxies : outputZip'[p] = <<>>
    BY <1>2, <1>3, <1>4 DEF Flow
  <2> QED
    BY <1>2, <1>4, <1>5, <2>1, <2>2, <2>3 DEF Flow
<1>9. Counts'
  BY <1>2, <1>4 DEF Counts, isShares
<1>10. Queues'
  BY <1>2, <1>4 DEF Queues
<1>11. Content'
  BY <1>2, <1>4, ContentKept
<1> QED
  BY <1>8, <1>9, <1>10, <1>11 DEF Parts, FlowInv

\* The engines reveal the last list
LEMMA RevealsEcho ==
  ASSUME TypeInv, Parts, EngineReveals
  PROVE  Parts'
<1>1. /\ received # None /\ (program # "regint" => round # None)
      /\ received' = None /\ round' = None
      /\ UNCHANGED <<keyVars, program, count, encrypted, opened, connected,
                     shareZip, outputZip, inputs, shares, outputs, sent,
                     refused, faults>>
      /\ \A p \in Proxies : /\ channel'[p] = Append(channel[p], revealed)
                            /\ said'[p] = Append(said[p], revealed)
  BY DEF EngineReveals, Say, setup
<1>2. PICK waiting \in BOOLEAN : Flow(waiting)
  BY DEF Parts, FlowInv
<1>3. /\ ~waiting /\ ~Due /\ shares = <<>> /\ inputs = None
      /\ Counts /\ Queues /\ Content
  BY <1>1, <1>2 DEF Flow, Parts, Queues, Due
<1>4. 1 \in Proxies /\ said[1] \in Seq(Message) /\ revealed \in Message
  BY SMTT(30), <1>1, RevealedType, KeyAssumption DEF TypeInv, Proxies
<1>5. PICK n \in Nat : n = Len(said[1])
  BY <1>4
<1>6. /\ said'[1] = Append(said[1], revealed) /\ Len(said'[1]) = n + 1
      /\ said'[1][n + 1] = revealed
      /\ \A i \in 1..n : said'[1][i] = said[1][i]
  BY <1>1, <1>4, <1>5, AppendProperties
<1>7. /\ Due' /\ result' = revealed
      /\ Len(sent) = n + 1 /\ Len(outputs) = n
  BY <1>1, <1>3, <1>5, <1>6 DEF Counts, Due, result
<1>8. \A p \in Proxies : At(p, "none", "none")
  BY <1>2, <1>3 DEF Flow
<1>9. ASSUME NEW p \in Proxies
      PROVE  At(p, "wire", "none")' /\ outputZip'[p] = <<>>
  <2>1. channel[p] = <<>> /\ outputZip[p] = <<>> /\ shareZip[p] = <<>>
    BY <1>8 DEF At, onWire
  <2>2. channel'[p] = <<revealed>>
    BY <1>1, <2>1
  <2> QED
    BY <1>1, <1>7, <2>1, <2>2 DEF At, onWire
<1>10. Flow(FALSE)'
  <2>1. "wire" \in Place /\ "none" \in Place
    BY DEF Place
  <2> QED
    BY <1>4, <1>7, <1>9, <2>1 DEF Flow
<1>11. Counts'
  <2>1. \A p \in Proxies : said'[p] = said'[1]
    BY <1>1, <1>3, <1>4 DEF Counts
  <2>2. revealed.key = publicKey /\ ~isShares(revealed)
    BY DEF revealed, message, isShares, TypeInv, Program, ResultType
  <2>3. result'.key = publicKey' /\ ~isShares(result)'
    BY <1>1, <1>7, <2>2 DEF keyVars, isShares
  <2> QED
    BY <1>1, <1>6, <1>7, <2>1, <2>3 DEF Counts
<1>12. Queues'
  BY <1>1, <1>3 DEF Queues
<1>13. Content'
  <2>1. (\A i \in 1..Len(sent) : Accepted(sent[i]))'
    BY <1>1, <1>3 DEF Content, Accepted
  <2>2. (\A i \in 1..Len(outputs) :
           InBounds(sent[i]) => Exact(outputs[i], sent[i]))'
    <3>1. \A i \in 1..Len(outputs) :
            InBounds(sent[i]) => Exact(outputs[i], sent[i])
      BY <1>3 DEF Content
    <3> QED
      BY <1>1, <3>1 DEF InBounds, Exact
  <2>3. (\A l \in refused : InBounds(l) => program = "fix" /\ Len(l) = 1)'
    <3>1. \A l \in refused : InBounds(l) => program = "fix" /\ Len(l) = 1
      BY <1>3 DEF Content
    <3> QED
      BY <1>1, <3>1 DEF InBounds
  <2>4. \A i \in 1..Len(said[1]) : InBounds(sent[i]) =>
          Exact(convertOutput(replies(i)), sent[i])
    BY <1>3 DEF Content
  <2>5. InBounds(sent[n + 1]) =>
          Exact(convertOutput([p \in Proxies |-> revealed]), sent[n + 1])
    <3> SUFFICES ASSUME InBounds(sent[n + 1])
                 PROVE  Exact(convertOutput([p \in Proxies |-> revealed]),
                              sent[n + 1])
      OBVIOUS
    <3>1. PICK l \in Lists : l = sent[n + 1]
      BY <1>7 DEF TypeInv
    <3>2. Len(l) = count /\ MaskedFrom(l)
      BY <1>1, <1>3, <1>7, <3>1 DEF Content, Accepted
    <3>3. PICK b : b = [p \in Proxies |-> revealed]
      OBVIOUS
    <3>4. DOMAIN b = Proxies /\ Len(b) = NProxies
          /\ \A p \in Proxies : b[p] = revealed
      BY <3>3, KeyAssumption DEF Proxies
    <3>5. Exact(convertOutput(b), l)
      BY <1>1, <3>1, <3>2, <3>4, EchoedBack
    <3> QED
      BY <3>1, <3>3, <3>5
  <2>6. ASSUME NEW i \in 1..Len(said'[1]), InBounds(sent[i])
        PROVE  Exact(convertOutput(replies(i)'), sent[i])
    <3>1. CASE i \in 1..n
      <4>1. replies(i)' = replies(i)
        BY <1>6, <3>1 DEF replies
      <4> QED
        BY <1>5, <2>4, <2>6, <3>1, <4>1
    <3>2. CASE i = n + 1
      <4>1. replies(i)' = [p \in Proxies |-> revealed]
        BY <1>6, <3>2 DEF replies
      <4> QED
        BY <2>5, <2>6, <3>2, <4>1
    <3> QED
      BY <1>6, <3>1, <3>2
  <2>7. (\A i \in 1..Len(said[1]) : InBounds(sent[i]) =>
           Exact(convertOutput(replies(i)), sent[i]))'
    BY <1>1, <2>6 DEF InBounds, Exact
  <2> QED
    BY <1>1, <2>1, <2>2, <2>3, <2>7 DEF Content
<1> QED
  BY <1>10, <1>11, <1>12, <1>13 DEF Parts, FlowInv

\* A list that is refused is out of bounds, or a single number with decimals
LEMMA RefusedContent ==
  ASSUME TypeInv, Content, NEW l \in Lists,
         InBounds(l) => program = "fix" /\ Len(l) = 1,
         refused' = refused \union {l},
         UNCHANGED <<program, count, received, round, outputs, sent, said>>
  PROVE  Content'
<1>1. (\A k \in refused : InBounds(k) => program = "fix" /\ Len(k) = 1)'
  <2>1. \A k \in refused' : InBounds(k) => program = "fix" /\ Len(k) = 1
    BY DEF Content
  <2> QED
    BY <2>1 DEF InBounds
<1>2. (\A i \in 1..Len(sent) : Accepted(sent[i]))'
  BY DEF Content, Accepted
<1>3. (\A i \in 1..Len(said[1]) : InBounds(sent[i]) =>
         Exact(convertOutput(replies(i)), sent[i]))'
  <2>1. \A i \in 1..Len(said[1]) : InBounds(sent[i]) =>
          Exact(convertOutput(replies(i)), sent[i])
    BY DEF Content
  <2>2. \A i : replies(i)' = replies(i)
    BY DEF replies
  <2> QED
    BY ZenonT(40), <2>1, <2>2 DEF InBounds, Exact
<1>4. (\A i \in 1..Len(outputs) :
         InBounds(sent[i]) => Exact(outputs[i], sent[i]))'
  <2>1. \A i \in 1..Len(outputs) :
          InBounds(sent[i]) => Exact(outputs[i], sent[i])
    BY DEF Content
  <2> QED
    BY ZenonT(40), <2>1 DEF InBounds, Exact
<1>5. received' # None => MaskedFrom(sent[Len(sent)])'
  BY DEF Content, MaskedFrom
<1> QED
  BY <1>1, <1>2, <1>3, <1>4, <1>5 DEF Content

\* A list that goes out is the last one sent
LEMMA SentContent ==
  ASSUME TypeInv, Content, Counts, received = None, NEW l \in Lists,
         Accepted(l), sent' = Append(sent, l), MaskedFrom(l)',
         UNCHANGED <<program, count, outputs, refused, said>>
  PROVE  Content'
<1>1. /\ sent \in Seq(Lists) /\ Len(sent) \in Nat /\ Len(sent) = Len(said[1])
      /\ Len(outputs) \in {Len(sent), Len(sent) - 1}
  BY DEF TypeInv, Counts
<1>2. /\ Len(sent') = Len(sent) + 1 /\ sent'[Len(sent) + 1] = l
      /\ \A i \in 1..Len(sent) : sent'[i] = sent[i]
  BY <1>1, AppendProperties
<1>3. (\A i \in 1..Len(sent) : Accepted(sent[i]))'
  <2>1. \A i \in 1..Len(sent') : Accepted(sent'[i])
    <3>1. \A i \in 1..Len(sent) : Accepted(sent[i])
      BY DEF Content
    <3> QED
      BY <1>1, <1>2, <3>1
  <2> QED
    BY <2>1 DEF Accepted
<1>4. (\A i \in 1..Len(said[1]) : InBounds(sent[i]) =>
         Exact(convertOutput(replies(i)), sent[i]))'
  <2>1. \A i \in 1..Len(said[1]) : InBounds(sent'[i]) =>
          Exact(convertOutput(replies(i)), sent'[i])
    BY <1>1, <1>2 DEF Content
  <2>2. \A i : replies(i)' = replies(i)
    BY DEF replies
  <2> QED
    BY ZenonT(40), <2>1, <2>2 DEF InBounds, Exact
<1>5. (\A i \in 1..Len(outputs) :
         InBounds(sent[i]) => Exact(outputs[i], sent[i]))'
  <2>1. \A i \in 1..Len(outputs) :
          InBounds(sent'[i]) => Exact(outputs[i], sent'[i])
    BY <1>1, <1>2 DEF Content
  <2> QED
    BY ZenonT(40), <2>1 DEF InBounds, Exact
<1>6. (\A k \in refused : InBounds(k) => program = "fix" /\ Len(k) = 1)'
  <2>1. \A k \in refused : InBounds(k) => program = "fix" /\ Len(k) = 1
    BY DEF Content
  <2> QED
    BY <2>1 DEF InBounds
<1>7. MaskedFrom(sent[Len(sent)])'
  <2>1. sent'[Len(sent')] = l
    BY <1>1, <1>2
  <2> QED
    BY <2>1 DEF MaskedFrom
<1> QED
  BY <1>3, <1>4, <1>5, <1>6, <1>7 DEF Content

LEMMA RoundType ==
  ASSUME TypeInv, round # None
  PROVE  round \in Seq(Int) /\ Len(round) = count
<1>1. count \in Nat /\ round \in [1..count -> Masks]
  BY DEF TypeInv
<1>2. ASSUME NEW i \in 1..count PROVE round[i] \in Int
  <2>1. round[i] \in Masks
    BY <1>1
  <2>2. round[i] \in 0..(GFP_PRIME - 1)
    BY <2>1, DataAssumption
  <2> QED
    BY <2>2
<1> QED
  BY <1>1, <1>2

\* An input, or none, meets the masks of the round, or none
Meets(inp, shs) ==
  /\ inp # None => /\ inp.list \in Lists /\ Len(inp.list) = count
                   /\ inp.values = convertUserInput(inp.list)
                   /\ inp.values \in Seq(JSValue)
                   /\ ~Due /\ program # "regint"
  /\ shs # <<>> => shs = <<round>> /\ round # None

LEMMA ZipEcho ==
  ASSUME TypeInv, Counts, Queues, Content, received = None,
         UNCHANGED <<program, count, publicKey, round, outputs, said>>,
         NEW inp, NEW shs, Meets(inp, shs), Zip(inp, shs)
  PROVE  /\ Counts' /\ Queues' /\ Content' /\ Due' = Due /\ result' = result
         /\ \/ inputs' = inp /\ shares' = shs /\ received' = None
            \/ inputs' = None /\ shares' = <<>> /\ inp # None /\ shs # <<>>
<1> DEFINE masked == maskInputs(inp.values, shs[1])
<1>0. /\ outputs \in Seq(Seq(Int) \union {Error}) /\ sent \in Seq(Lists)
      /\ 1 \in Proxies /\ said[1] \in Seq(Message)
      /\ round # None => round \in Seq(Int) /\ Len(round) = count
  BY RoundType, KeyAssumption DEF TypeInv, Proxies
<1>1. CASE inp = None \/ shs = <<>>
  <2>1. /\ inputs' = inp /\ shares' = shs
        /\ UNCHANGED <<received, sent, refused>>
    BY <1>1 DEF Zip
  <2>2. Due' = Due /\ result' = result
    BY <2>1 DEF Due, result
  <2>3. Counts'
    BY <2>1, <2>2 DEF Counts, isShares
  <2>4. Queues'
    BY <1>1, <2>1, <2>2 DEF Queues, Meets
  <2>5. Content'
    BY <2>1, ContentKept
  <2> QED
    BY <2>1, <2>2, <2>3, <2>4, <2>5
<1>2. CASE ~(inp = None \/ shs = <<>>)
  <2>1. /\ inp.list \in Lists /\ Len(inp.list) = count
        /\ inp.values = convertUserInput(inp.list)
        /\ inp.values \in Seq(JSValue)
        /\ ~Due /\ program # "regint"
        /\ shs = <<round>> /\ round # None
    BY <1>2 DEF Meets
  <2>2. PICK l \in Lists : l = inp.list
    BY <2>1
  <2>3. /\ Accepted(l) /\ inp.values = convertUserInput(l)
        /\ shs[1] = round /\ Tail(shs) = <<>>
        /\ Len(outputs) = Len(said[1]) /\ Len(sent) = Len(said[1])
    BY <2>1, <2>2, ErrorAssumption DEF Accepted, Due, Counts
  <2>4. inputs' = None /\ shares' = <<>>
    BY <1>2, <2>3 DEF Zip
  <2>5. CASE masked = Error
    <3>1. refused' = refused \union {l} /\ UNCHANGED <<received, sent>>
      BY <1>2, <2>2, <2>5 DEF Zip
    <3>2. InBounds(l) => program = "fix" /\ Len(l) = 1
      BY <1>0, <2>1, <2>2, <2>3, <2>5, InBoundsAccepted DEF TypeInv
    <3>3. Content'
      BY <3>1, <3>2, RefusedContent
    <3>4. Due' = Due /\ result' = result
      BY <3>1 DEF Due, result
    <3>5. Counts'
      BY <3>1, <3>4 DEF Counts, isShares
    <3>6. Queues'
      BY <2>1, <2>4 DEF Queues
    <3> QED
      BY <1>2, <2>4, <3>3, <3>4, <3>5, <3>6
  <2>6. CASE masked # Error
    <3>1. /\ received' = masked /\ sent' = Append(sent, l)
          /\ UNCHANGED refused
      BY <1>2, <2>2, <2>6 DEF Zip
    <3>2. masked \in Seq(Int)
      BY <1>0, <2>1, <2>3, <2>6, MaskType
    <3>3. received' # None
      BY <3>1, <3>2, NoneAssumption
    <3>4. MaskedFrom(l)'
      BY <2>1, <2>3, <3>1 DEF MaskedFrom
    <3>5. Content'
      BY <2>3, <3>1, <3>4, SentContent
    <3>6. Due' = Due /\ result' = result
      BY <2>1, <3>3 DEF Due, result
    <3>7. Len(sent') = Len(said[1]) + 1
      BY SMTT(30), <1>0, <2>3, <3>1, AppendProperties
    <3>8. Counts'
      BY <2>1, <2>3, <3>3, <3>6, <3>7 DEF Counts
    <3>9. Queues'
      BY <2>1, <2>4 DEF Queues
    <3> QED
      BY <1>2, <2>4, <3>5, <3>6, <3>8, <3>9
  <2> QED
    BY <2>5, <2>6
<1> QED
  BY <1>1, <1>2

LEMMA FlowKept ==
  ASSUME NEW waiting \in BOOLEAN, Flow(waiting),
         UNCHANGED <<channel, shareZip, outputZip, encryptionKey, publicKey,
                     round>>,
         Due' = Due, result' = result,
         waiting => received' = None /\ shares' = <<>>
  PROVE  Flow(waiting)'
<1>1. \A p \in Proxies : sharesFor(p)' = sharesFor(p)
  BY DEF sharesFor, message, shareWords
<1>2. ASSUME NEW p \in Proxies, NEW r \in Place, NEW s \in Place, At(p, r, s)
      PROVE  At(p, r, s)'
  BY <1>1, <1>2, AtKept
<1>3. \A p \in Proxies : \E r, s \in Place :
        (r # "none" <=> Due') /\ (s # "none" <=> waiting) /\ At(p, r, s)'
  BY <1>2 DEF Flow
<1> QED
  BY <1>3 DEF Flow

\* A send waits for the last result
LEMMA SendWaits ==
  ASSUME TypeInv, Parts, faults = 0, NEW l \in Lists, MaySend(l)
  PROVE  /\ ~Due /\ inputs = None /\ received = None /\ Len(l) = count
         /\ Len(outputs) = Len(said[1]) /\ Len(sent) = Len(said[1])
<1>1. /\ inputs = None /\ received = None /\ Len(l) = count
      /\ Len(outputs) + faults >= Len(sent)
  BY DEF MaySend
<1>2. /\ Len(outputs) \in Nat /\ Len(said[1]) \in Nat
      /\ Len(sent) = Len(said[1])
      /\ Len(outputs) \in {Len(said[1]), Len(said[1]) - 1}
  <2>1. 1 \in Proxies
    BY KeyAssumption DEF Proxies
  <2>2. Len(outputs) \in Nat /\ Len(said[1]) \in Nat
    BY <2>1 DEF TypeInv
  <2> QED
    BY <1>1, <2>2 DEF Parts, Counts
<1> QED
  BY <1>1, <1>2 DEF Due

LEMMA SendSecretEcho ==
  ASSUME TypeInv, Parts, faults = 0, NEW l \in Lists, SendSecret(l)
  PROVE  Parts'
<1>1. /\ program # "regint" /\ MaySend(l)
      /\ UNCHANGED <<keyVars, program, count, channel, shareZip, outputZip,
                     round, outputs, said>>
  BY DEF SendSecret, setup
<1>2. /\ ~Due /\ inputs = None /\ received = None /\ Len(l) = count
      /\ program \in Program /\ encryptionKey' = encryptionKey
      /\ publicKey' = publicKey
      /\ Counts /\ Queues /\ Content
  BY <1>1, SendWaits DEF keyVars, TypeInv, Parts
<1>3. PICK waiting \in BOOLEAN : Flow(waiting)
  BY DEF Parts, FlowInv
<1>4. CASE convertUserInput(l) = Error
  <2>1. /\ refused' = refused \union {l}
        /\ UNCHANGED <<inputs, shares, received, sent>>
    BY <1>4 DEF SendSecret
  <2>2. Due' = Due /\ result' = result
    BY <1>1, <2>1 DEF Due, result
  <2>3. InBounds(l) => program = "fix" /\ Len(l) = 1
    BY <1>2, <1>4, InBoundsAccepted
  <2>4. Content'
    BY <1>1, <1>2, <2>1, <2>3, RefusedContent
  <2>5. Counts'
    BY <1>1, <1>2, <2>1, <2>2 DEF Counts, isShares
  <2>6. Queues'
    BY <1>1, <1>2, <2>1, <2>2 DEF Queues
  <2>7. Flow(waiting)'
    <3>1. waiting => received' = None /\ shares' = <<>>
      BY <1>3, <2>1 DEF Flow
    <3> QED
      BY <1>1, <1>2, <1>3, <2>2, <3>1, FlowKept
  <2> QED
    BY <2>4, <2>5, <2>6, <2>7 DEF Parts, FlowInv
<1>5. CASE convertUserInput(l) # Error
  <2>1. PICK inp : inp = [list |-> l, values |-> convertUserInput(l)]
    OBVIOUS
  <2>2. inp.list = l /\ inp.values = convertUserInput(l)
    BY <2>1
  <2>3. Zip(inp, shares)
    BY <1>5, <2>1 DEF SendSecret
  <2>4. convertUserInput(l) \in Seq(JSValue)
    <3>1. l \in Seq(JSValue)
      BY DataAssumption
    <3> QED
      BY <1>5, <3>1, ConvertInputType
  <2>5. Meets(inp, shares)
    BY <1>1, <1>2, <2>2, <2>4 DEF Meets, Queues
  <2>6. /\ Counts' /\ Queues' /\ Content' /\ Due' = Due /\ result' = result
        /\ \/ inputs' = inp /\ shares' = shares /\ received' = None
           \/ inputs' = None /\ shares' = <<>> /\ inp # None /\ shares # <<>>
    BY <1>1, <1>2, <2>3, <2>5, ZipEcho
  <2>7. waiting => received' = None /\ shares' = <<>>
    BY <1>3, <2>6 DEF Flow
  <2>8. Flow(waiting)'
    BY <1>1, <1>2, <1>3, <2>6, <2>7, FlowKept
  <2> QED
    BY <2>6, <2>8 DEF Parts, FlowInv
<1> QED
  BY <1>4, <1>5

LEMMA SendClearEcho ==
  ASSUME TypeInv, Parts, faults = 0, NEW l \in Lists, SendClear(l)
  PROVE  Parts'
<1>1. /\ program = "regint" /\ MaySend(l)
      /\ UNCHANGED <<keyVars, program, count, channel, shareZip, outputZip,
                     inputs, shares, round, outputs, said>>
  BY DEF SendClear, setup
<1>2. /\ ~Due /\ inputs = None /\ received = None /\ Len(l) = count
      /\ Len(outputs) = Len(said[1]) /\ Len(sent) = Len(said[1])
      /\ program \in Program /\ encryptionKey' = encryptionKey
      /\ publicKey' = publicKey /\ round = None
      /\ Counts /\ Queues /\ Content
  BY <1>1, SendWaits DEF keyVars, TypeInv, Parts, Queues
<1>3. PICK waiting \in BOOLEAN : Flow(waiting)
  BY DEF Parts, FlowInv
<1>4. ~waiting /\ shares = <<>>
  BY <1>2, <1>3 DEF Flow, Queues
<1>5. CASE convertUserInput(l) = Error
  <2>1. refused' = refused \union {l} /\ UNCHANGED <<received, sent>>
    BY <1>5 DEF SendClear
  <2>2. Due' = Due /\ result' = result
    BY <1>1, <2>1 DEF Due, result
  <2>3. InBounds(l) => program = "fix" /\ Len(l) = 1
    BY <1>2, <1>5, InBoundsAccepted
  <2>4. Content'
    BY <1>1, <1>2, <2>1, <2>3, RefusedContent
  <2>5. Counts'
    BY <1>1, <1>2, <2>1, <2>2 DEF Counts, isShares
  <2>6. Queues'
    BY <1>1, <1>2, <1>4 DEF Queues
  <2>7. Flow(waiting)'
    BY <1>1, <1>2, <1>3, <1>4, <2>2, FlowKept
  <2> QED
    BY <2>4, <2>5, <2>6, <2>7 DEF Parts, FlowInv
<1>6. CASE convertUserInput(l) # Error
  <2>1. /\ received' = [i \in 1..Len(l) |->
             (convertUserInput(l)[i].val \div Unit) % INT_32_SIZE]
        /\ sent' = Append(sent, l) /\ UNCHANGED refused
    BY <1>6 DEF SendClear
  <2>2. received' # None
    <3>1. received' \in Seq(Int)
      <4>1. count \in Nat /\ l \in Seq(JSValue)
        BY DataAssumption DEF TypeInv
      <4>2. /\ convertUserInput(l) \in Seq(JSValue)
            /\ Len(convertUserInput(l)) = Len(l)
        BY <1>6, <4>1, ConvertInputType
      <4>3. ASSUME NEW i \in 1..Len(l)
            PROVE (convertUserInput(l)[i].val \div Unit) % INT_32_SIZE \in Int
        <5>1. PICK v \in JSValue : v = convertUserInput(l)[i]
          BY <4>2
        <5>2. v.val \in Int
          BY DEF JSValue
        <5>3. v.val \div Unit \in Int
          BY <5>2, UnitPositive, IntegersDivide
        <5> QED
          BY <5>1, <5>3, WidthAssumption
      <4> QED
        BY <1>2, <2>1, <4>1, <4>3
    <3> QED
      BY <3>1, NoneAssumption
  <2>3. MaskedFrom(l)'
    BY <1>1, <2>1 DEF MaskedFrom
  <2>4. Accepted(l)
    BY <1>2, <1>6 DEF Accepted
  <2>5. Content'
    BY <1>1, <1>2, <2>1, <2>3, <2>4, SentContent
  <2>6. Due' = Due /\ result' = result
    BY <1>1, <1>2, <2>2 DEF Due, result
  <2>7. Counts'
    <3>1. Len(sent') = Len(said[1]) + 1
      <4>1. sent \in Seq(Lists)
        BY DEF TypeInv
      <4> QED
        BY <1>2, <2>1, <4>1, AppendProperties
    <3> QED
      BY <1>1, <1>2, <2>2, <2>6, <3>1 DEF Counts
  <2>8. Queues'
    BY <1>1, <1>2, <1>4 DEF Queues
  <2>9. Flow(waiting)'
    BY <1>1, <1>2, <1>3, <1>4, <2>6, FlowKept
  <2> QED
    BY <2>5, <2>7, <2>8, <2>9 DEF Parts, FlowInv
<1> QED
  BY <1>5, <1>6

\* A message of one proxy arrives: the others stay where they are
LEMMA FlowMoves ==
  ASSUME NEW waiting \in BOOLEAN, Flow(waiting), NEW p \in Proxies,
         \A q \in Proxies : q # p => /\ channel'[q] = channel[q]
                                     /\ outputZip'[q] = outputZip[q]
                                     /\ shareZip'[q] = shareZip[q],
         UNCHANGED <<encryptionKey, publicKey, round>>,
         Due' = Due, result' = result,
         waiting => received' = None /\ shares' = <<>>,
         NEW r1 \in Place, NEW s1 \in Place, At(p, r1, s1)',
         r1 # "none" <=> Due, s1 # "none" <=> waiting,
         Due => \E q \in Proxies : outputZip'[q] = <<>>,
         waiting => \E q \in Proxies : shareZip'[q] = <<>>
  PROVE  Flow(waiting)'
<1>1. \A q \in Proxies : sharesFor(q)' = sharesFor(q)
  BY DEF sharesFor, message, shareWords
<1>2. ASSUME NEW q \in Proxies, q # p
      PROVE  \E r, s \in Place :
               (r # "none" <=> Due') /\ (s # "none" <=> waiting) /\ At(q, r, s)'
  <2>1. PICK r \in Place, s \in Place :
          (r # "none" <=> Due) /\ (s # "none" <=> waiting) /\ At(q, r, s)
    BY DEF Flow
  <2>2. At(q, r, s)'
    BY <1>1, <1>2, <2>1, AtKept
  <2> QED
    BY <2>1, <2>2
<1>3. \A q \in Proxies : \E r, s \in Place :
        (r # "none" <=> Due') /\ (s # "none" <=> waiting) /\ At(q, r, s)'
  BY <1>2
<1> QED
  BY <1>3 DEF Flow

\* One that does not parse is gone
LEMMA GoneEcho ==
  ASSUME TypeInv, Parts, NEW waiting \in BOOLEAN, Flow(waiting),
         NEW p \in Proxies, NEW r \in Place, NEW s \in Place,
         r # "none" <=> Due, s # "none" <=> waiting, At(p, r, s),
         channel[p] # <<>>, ~Good(p),
         channel' = [channel EXCEPT ![p] = Tail(@)],
         UNCHANGED <<keyVars, program, count, shareZip, outputZip, inputs,
                     shares, received, round, outputs, sent, refused, said>>
  PROVE  Parts'
<1>1. /\ Due' = Due /\ result' = result
      /\ UNCHANGED <<publicKey, encryptionKey>>
      /\ Counts' /\ Queues' /\ Content'
  BY DataKept DEF Parts, keyVars
<1>2. /\ \A q \in Proxies : q # p => channel'[q] = channel[q]
      /\ channel'[p] = Tail(channel[p])
      /\ sharesFor(p)' = sharesFor(p)
  BY <1>1 DEF TypeInv, sharesFor, message, shareWords
<1>3. \E r1, s1 \in Place : /\ r1 # "none" <=> Due
                            /\ s1 # "none" <=> waiting
                            /\ At(p, r1, s1)'
  <2>1. "gone" \in Place
    BY DEF Place
  <2>2. CASE r = "wire"
    <3>1. channel'[p] = IF s = "wire" THEN <<sharesFor(p)>> ELSE <<>>
      BY <1>2, <2>2, AtHead
    <3>2. At(p, "gone", s)'
      BY <1>1, <1>2, <2>2, <3>1 DEF At, onWire, Good
    <3> QED
      BY <2>1, <2>2, <3>2
  <2>3. CASE r # "wire"
    <3>1. s = "wire" /\ channel'[p] = <<>>
      BY <1>2, <2>3, AtHead
    <3>2. At(p, r, "gone")'
      BY <1>1, <1>2, <2>3, <3>1 DEF At, onWire, Good
    <3> QED
      BY <2>1, <3>1, <3>2
  <2> QED
    BY <2>2, <2>3
<1>4. Flow(waiting)'
  <2>1. PICK r1 \in Place, s1 \in Place : /\ r1 # "none" <=> Due
                                          /\ s1 # "none" <=> waiting
                                          /\ At(p, r1, s1)'
    BY <1>3
  <2>2. /\ waiting => received' = None /\ shares' = <<>>
        /\ Due => \E q \in Proxies : outputZip'[q] = <<>>
        /\ waiting => \E q \in Proxies : shareZip'[q] = <<>>
    BY DEF Flow
  <2> QED
    BY <1>1, <1>2, <2>1, <2>2, FlowMoves
<1> QED
  BY <1>1, <1>4 DEF Parts, FlowInv

\* The result of one proxy arrives
LEMMA ResultEcho ==
  ASSUME TypeInv, Parts, NEW waiting \in BOOLEAN, Flow(waiting),
         NEW p \in Proxies, NEW s \in Place,
         Due, s # "none" <=> waiting, At(p, "wire", s), Good(p),
         channel' = [channel EXCEPT ![p] = Tail(@)],
         OnResult(p, result),
         UNCHANGED <<keyVars, program, count, round, said>>
  PROVE  Parts'
<1> DEFINE zip == [outputZip EXCEPT ![p] = Append(@, result)]
<1>1. /\ outputZip' = taken(zip)
      /\ outputs' = IF joined(zip) = <<>> THEN outputs
                    ELSE Append(outputs, convertOutput(joined(zip)[1]))
      /\ UNCHANGED <<shareZip, inputs, shares, received, sent, refused>>
  BY DEF OnResult
<1>2. /\ UNCHANGED <<publicKey, encryptionKey>> /\ Counts /\ Queues /\ Content
      /\ received = None /\ "none" \in Place /\ "zip" \in Place
  BY DEF keyVars, Parts, Due, Place
<1>3. /\ \A q \in Proxies : q # p => channel'[q] = channel[q]
      /\ channel'[p] = IF s = "wire" THEN <<sharesFor(p)>> ELSE <<>>
      /\ \A q \in Proxies : sharesFor(q)' = sharesFor(q)
  <2>1. channel'[p] = Tail(channel[p]) /\ channel[p] # <<>>
    BY DEF TypeInv, At, onWire
  <2>2. channel'[p] = IF s = "wire" THEN <<sharesFor(p)>> ELSE <<>>
    <3>1. "wire" \in Place
      BY DEF Place
    <3> QED
      BY <2>1, <3>1, AtHead
  <2> QED
    BY <1>2, <2>2 DEF TypeInv, sharesFor, message, shareWords
<1>4. /\ zip[p] = <<result>> /\ DOMAIN zip = Proxies
      /\ \A q \in Proxies : q # p => zip[q] = outputZip[q]
  BY DEF TypeInv, At
<1>5. CASE \E q \in Proxies : zip[q] = <<>>
  <2>1. outputZip' = zip /\ outputs' = outputs
    BY <1>1, <1>5 DEF taken, joined
  <2> HIDE DEF zip
  <2>2. /\ Due' = Due /\ result' = result /\ Counts' /\ Queues' /\ Content'
    BY <1>1, <1>2, <2>1, DataKept
  <2>3. At(p, "zip", s)'
    BY <1>1, <1>2, <1>3, <1>4, <2>1, <2>2 DEF At, onWire, Good
  <2>4. /\ waiting => received' = None /\ shares' = <<>>
        /\ waiting => \E q \in Proxies : shareZip'[q] = <<>>
    BY <1>1 DEF Flow
  <2>5. Flow(waiting)'
    BY <1>1, <1>2, <1>3, <1>4, <1>5, <2>1, <2>2, <2>3, <2>4, FlowMoves
  <2> QED
    BY <2>2, <2>5 DEF Parts, FlowInv
<1>6. CASE \A q \in Proxies : zip[q] # <<>>
  <2>0. 1 \in Proxies /\ said[1] \in Seq(Message)
        /\ outputs \in Seq(Seq(Int) \union {Error})
    BY KeyAssumption DEF TypeInv, Proxies
  <2>1. \A q \in Proxies : zip[q] = <<result>>
    <3>1. \A q \in Proxies : outputZip[q] \in {<<>>, <<result>>}
      BY DEF Flow, At
    <3> QED
      BY <1>4, <1>6, <3>1
  <2>2. /\ outputZip' = [q \in Proxies |-> <<>>]
        /\ joined(zip) = <<[q \in Proxies |-> result]>>
    <3> HIDE DEF zip
    <3>1. /\ taken(zip) = [q \in Proxies |-> Tail(zip[q])]
          /\ joined(zip) = <<[q \in Proxies |-> Head(zip[q])]>>
      BY <1>6 DEF taken, joined
    <3>2. Tail(<<result>>) = <<>> /\ Head(<<result>>) = result
      OBVIOUS
    <3>3. /\ [q \in Proxies |-> Tail(zip[q])] = [q \in Proxies |-> <<>>]
          /\ [q \in Proxies |-> Head(zip[q])] = [q \in Proxies |-> result]
      BY <2>1, <3>2
    <3> QED
      BY <1>1, <3>1, <3>3
  <2> HIDE DEF zip
  <2>3. PICK n \in Nat : n = Len(said[1])
    BY <2>0
  <2>4. replies(n) = [q \in Proxies |-> result]
    BY <2>3 DEF replies, result
  <2>5. outputs' = Append(outputs, convertOutput(replies(n)))
    BY <1>1, <2>2, <2>4
  <2>6. Len(outputs) = n - 1 /\ Len(sent) = n /\ n >= 1
    BY <1>2, <2>0, <2>3 DEF Due, Counts
  <2>7. /\ Len(outputs') = n /\ outputs'[n] = convertOutput(replies(n))
        /\ \A i \in 1..(n - 1) : outputs'[i] = outputs[i]
    <3>1. PICK x : x = convertOutput(replies(n))
      OBVIOUS
    <3>2. outputs' = Append(outputs, x)
      BY <2>5, <3>1
    <3>3. outputs \in Seq(Seq(Int) \union {Error} \union {x})
      BY <2>0
    <3> QED
      BY <2>6, <3>1, <3>2, <3>3, AppendProperties
  <2>8. ~Due' /\ received' = None
    BY <1>1, <1>2, <2>3, <2>7 DEF Due
  <2>9. Counts'
    BY <1>1, <1>2, <2>3, <2>6, <2>7, <2>8 DEF Counts
  <2>10. Queues'
    BY <1>1, <1>2, <2>8 DEF Queues
  <2>11. Content'
    <3>1. (\A i \in 1..Len(sent) : Accepted(sent[i]))'
      BY <1>1, <1>2 DEF Content, Accepted
    <3>2. \A i \in 1..n : InBounds(sent[i]) =>
            Exact(convertOutput(replies(i)), sent[i])
      BY <1>2, <2>3 DEF Content
    <3>3. \A i \in 1..(n - 1) :
            InBounds(sent[i]) => Exact(outputs[i], sent[i])
      BY <1>2, <2>6 DEF Content
    <3>4. ASSUME NEW i \in 1..n, InBounds(sent[i])
          PROVE  Exact(outputs'[i], sent[i])
      <4>1. CASE i = n
        BY <2>7, <3>2, <3>4, <4>1
      <4>2. CASE i \in 1..(n - 1)
        BY <2>7, <3>3, <3>4, <4>2
      <4> QED
        BY <3>4, <4>1, <4>2
    <3>5. (\A i \in 1..Len(outputs) :
             InBounds(sent[i]) => Exact(outputs[i], sent[i]))'
      BY ZenonT(40), <1>1, <2>7, <3>4 DEF InBounds, Exact
    <3>6. (\A i \in 1..Len(said[1]) : InBounds(sent[i]) =>
             Exact(convertOutput(replies(i)), sent[i]))'
      <4>1. \A i : replies(i)' = replies(i)
        BY DEF replies
      <4> QED
        BY ZenonT(40), <1>1, <2>3, <3>2, <4>1 DEF InBounds, Exact
    <3>7. (\A l \in refused : InBounds(l) => program = "fix" /\ Len(l) = 1)'
      <4>1. \A l \in refused : InBounds(l) => program = "fix" /\ Len(l) = 1
        BY <1>2 DEF Content
      <4> QED
        BY <1>1, <4>1 DEF InBounds
    <3> QED
      BY <2>8, <3>1, <3>5, <3>6, <3>7 DEF Content
  <2>12. Flow(waiting)'
    <3>1. ASSUME NEW q \in Proxies
          PROVE  \E r1, s1 \in Place : /\ r1 = "none"
                                       /\ s1 # "none" <=> waiting
                                       /\ At(q, r1, s1)'
      <4>1. CASE q = p
        <5>1. At(p, "none", s)'
          BY <1>1, <1>2, <1>3, <2>2 DEF At, onWire, Good
        <5> QED
          BY <1>2, <4>1, <5>1
      <4>2. CASE q # p
        <5>1. PICK r1 \in Place, s1 \in Place :
                (s1 # "none" <=> waiting) /\ At(q, r1, s1)
          BY DEF Flow
        <5>2. r1 = "zip"
          BY <1>4, <2>1, <4>2, <5>1 DEF At
        <5>3. At(q, "none", s1)'
          BY <1>1, <1>2, <1>3, <2>2, <4>2, <5>1, <5>2 DEF At, onWire, Good
        <5> QED
          BY <1>2, <5>1, <5>3
      <4> QED
        BY <4>1, <4>2
    <3>2. /\ waiting => round' # None /\ received' = None /\ shares' = <<>>
          /\ waiting => \E q \in Proxies : shareZip'[q] = <<>>
      BY <1>1 DEF Flow
    <3> QED
      BY <2>8, <3>1, <3>2 DEF Flow
  <2> QED
    BY <2>9, <2>10, <2>11, <2>12 DEF Parts, FlowInv
<1> QED
  BY <1>5, <1>6

\* The share message of one proxy arrives
LEMMA ShareEcho ==
  ASSUME TypeInv, Parts, NEW waiting \in BOOLEAN, Flow(waiting),
         NEW p \in Proxies, NEW r \in Place, r # "wire",
         r # "none" <=> Due, waiting, At(p, r, "wire"), Good(p),
         channel' = [channel EXCEPT ![p] = Tail(@)],
         OnShares(p, sharesFor(p)),
         UNCHANGED <<keyVars, program, count, round, said>>
  PROVE  Parts'
<1> DEFINE zip == [shareZip EXCEPT ![p] = Append(@, sharesFor(p))]
           list == IF joined(zip) = <<>> THEN Error
                   ELSE binaryToShare(joined(zip)[1])
           shs == IF list = Error THEN shares ELSE Append(shares, list)
<1>1. /\ shareZip' = taken(zip)
      /\ Zip(inputs, shs)
      /\ UNCHANGED <<outputZip, outputs>>
  BY DEF OnShares
<1>2. /\ UNCHANGED <<publicKey, encryptionKey>> /\ Counts /\ Queues /\ Content
      /\ received = None /\ shares = <<>> /\ round # None
      /\ "none" \in Place /\ "zip" \in Place
  BY DEF keyVars, Parts, Flow, Place
<1>3. /\ \A q \in Proxies : q # p => channel'[q] = channel[q]
      /\ channel'[p] = <<>>
      /\ \A q \in Proxies : sharesFor(q)' = sharesFor(q)
  <2>1. channel'[p] = Tail(channel[p]) /\ channel[p] = <<sharesFor(p)>>
    BY DEF TypeInv, At, onWire
  <2>2. Tail(<<sharesFor(p)>>) = <<>>
    OBVIOUS
  <2> QED
    BY <1>2, <2>1, <2>2 DEF TypeInv, sharesFor, message, shareWords
<1>4. /\ zip[p] = <<sharesFor(p)>> /\ DOMAIN zip = Proxies
      /\ \A q \in Proxies : q # p => zip[q] = shareZip[q]
  BY DEF TypeInv, At
<1>5. ASSUME NEW l, l = <<>> \/ l = <<round>>
      PROVE  Meets(inputs, l)
  <2>1. inputs # None => /\ inputs.list \in Lists /\ Len(inputs.list) = count
                         /\ inputs.values = convertUserInput(inputs.list)
                         /\ inputs.values \in Seq(JSValue)
                         /\ ~Due /\ program # "regint"
    BY <1>2 DEF TypeInv, Input, Queues
  <2> QED
    BY <1>2, <1>5, <2>1 DEF Meets
<1>6. CASE \E q \in Proxies : zip[q] = <<>>
  <2>1. shareZip' = zip /\ shs = shares
    BY <1>1, <1>6 DEF taken, joined
  <2> HIDE DEF zip, list, shs
  <2>2. /\ Counts' /\ Queues' /\ Content' /\ Due' = Due /\ result' = result
        /\ received' = None /\ shares' = <<>>
    BY <1>1, <1>2, <1>5, <2>1, ZipEcho
  <2>3. At(p, r, "zip")'
    BY <1>1, <1>2, <1>3, <1>4, <2>1, <2>2 DEF At, onWire, Good
  <2>4. Due => \E q \in Proxies : outputZip'[q] = <<>>
    BY <1>1 DEF Flow
  <2>5. Flow(waiting)'
    BY <1>1, <1>2, <1>3, <1>4, <1>6, <2>1, <2>2, <2>3, <2>4, FlowMoves
  <2> QED
    BY <2>2, <2>5 DEF Parts, FlowInv
<1>7. CASE \A q \in Proxies : zip[q] # <<>>
  <2>1. \A q \in Proxies : zip[q] = <<sharesFor(q)>>
    <3>1. \A q \in Proxies : shareZip[q] \in {<<>>, <<sharesFor(q)>>}
      BY DEF Flow, At
    <3> QED
      BY <1>4, <1>7, <3>1
  <2>2. PICK b : b = [q \in Proxies |-> Head(zip[q])]
    OBVIOUS
  <2>3. /\ DOMAIN b = Proxies /\ Len(b) = NProxies
        /\ \A q \in Proxies : b[q] = sharesFor(q)
    <3>1. \A q \in Proxies : Head(<<sharesFor(q)>>) = sharesFor(q)
      OBVIOUS
    <3>2. NProxies \in Nat \ {0} /\ Proxies = 1..NProxies
      BY KeyAssumption DEF Proxies
    <3> HIDE DEF zip
    <3> QED
      BY <2>1, <2>2, <3>1, <3>2
  <2>4. /\ joined(zip) = <<b>>
        /\ shareZip' = [q \in Proxies |-> Tail(zip[q])]
    <3> HIDE DEF zip
    <3> QED
      BY <1>1, <1>7, <2>2 DEF taken, joined
  <2>5. shareZip' = [q \in Proxies |-> <<>>]
    <3>1. \A q \in Proxies : Tail(<<sharesFor(q)>>) = <<>>
      OBVIOUS
    <3> HIDE DEF zip
    <3> QED
      BY <2>1, <2>4, <3>1
  <2>6. shs \in {<<>>, <<round>>}
    <3>1. binaryToShare(b) \in {Error, round}
      BY <1>2, <2>3, RoundJoined
    <3>2. list = binaryToShare(b)
      BY <2>4
    <3> HIDE DEF list, zip
    <3> QED
      BY <1>2, <3>1, <3>2
  <2> HIDE DEF zip, list, shs
  <2>7. /\ Counts' /\ Queues' /\ Content' /\ Due' = Due /\ result' = result
    BY <1>1, <1>2, <1>5, <2>6, ZipEcho
  <2>8. Flow(FALSE)'
    <3>1. ASSUME NEW q \in Proxies
          PROVE  \E r1, s1 \in Place : /\ r1 # "none" <=> Due'
                                       /\ s1 = "none"
                                       /\ At(q, r1, s1)'
      <4>1. CASE q = p
        <5>1. At(p, r, "none")'
          BY <1>1, <1>2, <1>3, <2>5, <2>7 DEF At, onWire, Good
        <5> QED
          BY <1>2, <2>7, <4>1, <5>1
      <4>2. CASE q # p
        <5>1. PICK r1 \in Place, s1 \in Place :
                (r1 # "none" <=> Due) /\ At(q, r1, s1)
          BY DEF Flow
        <5>2. s1 = "zip"
          BY <1>4, <2>1, <4>2, <5>1 DEF At
        <5>3. At(q, r1, "none")'
          BY <1>1, <1>2, <1>3, <2>5, <2>7, <4>2, <5>1, <5>2
             DEF At, onWire, Good
        <5> QED
          BY <1>2, <2>7, <5>1, <5>3
      <4> QED
        BY <4>1, <4>2
    <3>2. Due => \E q \in Proxies : outputZip'[q] = <<>>
      BY <1>1 DEF Flow
    <3> QED
      BY <2>7, <3>1, <3>2 DEF Flow
  <2> QED
    BY <2>7, <2>8 DEF Parts, FlowInv
<1> QED
  BY <1>6, <1>7

LEMMA DeliverEcho ==
  ASSUME TypeInv, Parts, NEW p \in Proxies, Deliver(p)
  PROVE  Parts'
<1>1. /\ channel[p] # <<>>
      /\ channel' = [channel EXCEPT ![p] = Tail(@)]
      /\ UNCHANGED <<keyVars, program, count, round, said>>
  BY DEF Deliver, setup
<1>2. PICK waiting \in BOOLEAN : Flow(waiting)
  BY DEF Parts, FlowInv
<1>3. PICK r \in Place, s \in Place :
        (r # "none" <=> Due) /\ (s # "none" <=> waiting) /\ At(p, r, s)
  BY <1>2 DEF Flow
<1>4. r = "wire" \/ s = "wire"
  BY <1>1, <1>3, AtHead
<1>5. CASE r = "wire"
  <2>1. /\ Head(channel[p]) = result /\ Due
        /\ result.key = publicKey /\ ~isShares(result)
    BY <1>1, <1>3, <1>5, AtHead DEF Parts, Counts
  <2>2. parses(p, result) <=> Good(p)
    BY <2>1 DEF parses, Good
  <2>3. CASE Good(p)
    <3>1. OnResult(p, result)
      BY <2>1, <2>2, <2>3 DEF Deliver
    <3> QED
      BY <1>1, <1>2, <1>3, <1>5, <2>1, <2>3, <3>1, ResultEcho
  <2>4. CASE ~Good(p)
    <3>1. UNCHANGED <<shareZip, outputZip, outputs, inputs, shares, received,
                      sent, refused>>
      BY <2>1, <2>2, <2>4 DEF Deliver
    <3> QED
      BY <1>1, <1>2, <1>3, <2>4, <3>1, GoneEcho
  <2> QED
    BY <2>3, <2>4
<1>6. CASE r # "wire"
  <2>1. /\ Head(channel[p]) = sharesFor(p) /\ s = "wire" /\ waiting
        /\ sharesFor(p).key = publicKey /\ isShares(sharesFor(p))
    BY <1>1, <1>3, <1>4, <1>6, AtHead DEF sharesFor, message, isShares, Place
  <2>2. parses(p, sharesFor(p)) <=> Good(p)
    BY <2>1 DEF parses, Good
  <2>3. CASE Good(p)
    <3>1. OnShares(p, sharesFor(p))
      BY <2>1, <2>2, <2>3 DEF Deliver
    <3> QED
      BY <1>1, <1>2, <1>3, <1>6, <2>1, <2>3, <3>1, ShareEcho
  <2>4. CASE ~Good(p)
    <3>1. UNCHANGED <<shareZip, outputZip, outputs, inputs, shares, received,
                      sent, refused>>
      BY <2>1, <2>2, <2>4 DEF Deliver
    <3> QED
      BY <1>1, <1>2, <1>3, <2>4, <3>1, GoneEcho
  <2> QED
    BY <2>3, <2>4
<1> QED
  BY <1>5, <1>6

\* Every step that is no fault keeps the invariant
LEMMA EchoInvNext ==
  TypeInv /\ SessionInv /\ EchoInv /\ [Next]_vars => EchoInv'
<1> SUFFICES ASSUME TypeInv, SessionInv, EchoInv, [Next]_vars, faults' = 0
             PROVE  Parts'
  BY DEF EchoInv, Parts, FlowInv
<1>0. ASSUME NEW p \in Proxies, EngineDiffers(p) \/ Lose(p)
      PROVE  FALSE
  <2>1. faults \in Nat /\ faults' = faults + 1
    BY <1>0 DEF TypeInv, EngineDiffers, Lose, Fault
  <2> QED
    BY <2>1
<1>1. CASE SetupStep
  <2>1. Parts
    BY <1>1, SetupFrame DEF EchoInv, Parts, FlowInv
  <2> QED
    BY <1>1, <2>1, SetupEcho
<1>2. CASE EngineShares
  <2>1. Parts
    BY <1>2 DEF EngineShares, EchoInv, Parts, FlowInv
  <2> QED
    BY <1>2, <2>1, SharesEcho
<1>3. CASE EngineReveals
  <2>1. Parts
    BY <1>3 DEF EngineReveals, EchoInv, Parts, FlowInv
  <2> QED
    BY <1>3, <2>1, RevealsEcho
<1>4. ASSUME NEW l \in Lists, SendSecret(l) PROVE Parts'
  <2>1. Parts /\ faults = 0
    BY <1>4 DEF SendSecret, EchoInv, Parts, FlowInv
  <2> QED
    BY <1>4, <2>1, SendSecretEcho
<1>5. ASSUME NEW l \in Lists, SendClear(l) PROVE Parts'
  <2>1. Parts /\ faults = 0
    BY <1>5 DEF SendClear, EchoInv, Parts, FlowInv
  <2> QED
    BY <1>5, <2>1, SendClearEcho
<1>6. ASSUME NEW p \in Proxies, Deliver(p) PROVE Parts'
  <2>1. Parts
    BY <1>6 DEF Deliver, EchoInv, Parts, FlowInv
  <2> QED
    BY <1>6, <2>1, DeliverEcho
<1> QED
  BY <1>0, <1>1, <1>2, <1>3, <1>4, <1>5, <1>6 DEF Next, SetupStep

\* A result that was said and is not on the wire is at the application, if
\* client and engines have the same keys
LEMMA EchoArrives ==
  ASSUME TypeInv, KeysInv, SessionInv, Parts, Idle, received = None, ~rekeyed
  PROVE  Len(outputs) = Len(sent)
<1>1. PICK waiting \in BOOLEAN : Flow(waiting)
  BY DEF Parts, FlowInv
<1>2. CASE Due
  <2>1. connected /\ opened
    <3>1. 1 \in Proxies
      BY KeyAssumption DEF Proxies
    <3> QED
      BY <1>2, <3>1 DEF SessionInv, Due
  <2>2. \A p \in Proxies : Good(p)
    <3>1. CASE encrypted
      BY <2>1, <3>1 DEF SessionInv, KeysInv, FromMemo, Good
    <3>2. CASE ~encrypted
      BY <3>2 DEF SessionInv, Good
    <3> QED
      BY <3>1, <3>2
  <2>3. PICK p \in Proxies : outputZip[p] = <<>>
    BY <1>1, <1>2 DEF Flow
  <2>4. PICK r \in Place, s \in Place :
          (r # "none" <=> Due) /\ At(p, r, s)
    BY <1>1 DEF Flow
  <2>5. r = "gone"
    BY <1>2, <2>3, <2>4 DEF At, onWire, Idle, Place
  <2> QED
    BY <2>2, <2>4, <2>5 DEF At
<1>3. CASE ~Due
  BY <1>3 DEF Parts, Counts, Due
<1> QED
  BY <1>2, <1>3

LEMMA EchoInvExact ==
  TypeInv /\ KeysInv /\ SessionInv /\ EchoInv => EchoExact
<1> SUFFICES ASSUME TypeInv, KeysInv, SessionInv, EchoInv, faults = 0
             PROVE  /\ \A l \in refused :
                         InBounds(l) => program = "fix" /\ Len(l) = 1
                    /\ \A i \in 1..Len(outputs) :
                         InBounds(sent[i]) => Exact(outputs[i], sent[i])
                    /\ Idle /\ received = None /\ ~rekeyed =>
                         Len(outputs) = Len(sent)
  BY DEF EchoExact
<1>1. Parts
  BY DEF EchoInv, Parts, FlowInv
<1> QED
  BY <1>1, EchoArrives DEF Parts, Content

\* Without faults the application gets back exactly what it passed, in order
\* (transform.js 95-155, Gfp.js 46-177, binaryToShare.js 68-100): whatever the
\* interleaving of shares, sends, results and arrivals, each list within the
\* documented bounds is accepted, a single number with decimals left out, and
\* comes back as it was; no result is missing once nothing is on its way,
\* unless the key pair was replaced after its use.
THEOREM EchoIsExact == Spec => []EchoExact
<1>1. Init => KeysInv /\ IInv /\ SessionInv /\ EchoInv
  BY KeysInvInit, InvInit, SessionInit, EchoInvInit
<1>2. KeysInv /\ IInv /\ SessionInv /\ EchoInv /\ [Next]_vars
        => KeysInv' /\ IInv' /\ SessionInv' /\ EchoInv'
  BY KeysInvNext, InvNext, SessionNext, EchoInvNext DEF IInv
<1>3. KeysInv /\ IInv /\ SessionInv /\ EchoInv => EchoExact
  BY EchoInvExact DEF IInv
<1> QED
  BY <1>1, <1>2, <1>3, PTL DEF Spec
=============================================================================
