---------------------------- MODULE KeyAgreement ----------------------------
(***************************************************************************)
(* crypto/index.js: the memo of the client's key pair, the session keys    *)
(* derived from it for each proxy, and the public key that an application  *)
(* passes on to the engines with connectToSpdz.  A key pair is a number.    *)
(* A session key is a hash of the client's pair and of the server's public *)
(* key, so that those of one proxy are the same exactly if the pair is.    *)
(***************************************************************************)
EXTENDS Naturals, FiniteSets

CONSTANTS
  NProxies,
  NoKey,       \* dhKeyPair, or an encryptionKey, is undefined
  SavedPair,   \* a pair the application kept, for setDHKeyPair
  MaxPairs     \* bound: pairs the library makes

ASSUME KeyAssumption ==
  /\ NProxies \in Nat \ {0} /\ MaxPairs \in Nat \ {0}
  /\ {NoKey, SavedPair} \cap (0..(MaxPairs + 1)) = {} /\ NoKey # SavedPair

Proxies == 1..NProxies
Pairs == (1..MaxPairs) \union {SavedPair}

VARIABLES
  dhKeyPair,      \* the memo
  made,           \* pairs made so far
  encryptionKey,  \* encryptionKey[p]: the client's session key for proxy p
  publicKey,      \* the public key the application has for the engines
  rekeyed         \* history: setDHKeyPair replaced a pair already used

keyVars == <<dhKeyPair, made, encryptionKey, publicKey, rekeyed>>

KeysTypeOK ==
  /\ dhKeyPair \in Pairs \union {NoKey}
  /\ made \in 0..MaxPairs
  /\ encryptionKey \in [Proxies -> Pairs \union {NoKey}]
  /\ publicKey \in Pairs \union {NoKey}
  /\ rekeyed \in BOOLEAN

KeysInit ==
  /\ dhKeyPair = NoKey /\ made = 0 /\ publicKey = NoKey /\ rekeyed = FALSE
  /\ encryptionKey = [p \in Proxies |-> NoKey]

used == publicKey # NoKey \/ \E p \in Proxies : encryptionKey[p] # NoKey

\* Variant: a pair is made at every call
clientPairFresh == made + 1

\* createClientPublicKey: a pair is made when there is none
clientPair == IF dhKeyPair = NoKey THEN made + 1 ELSE dhKeyPair

MemoClientPair ==
  /\ dhKeyPair' = clientPair
  /\ clientPair \in Pairs
  /\ made' = IF clientPair = made + 1 THEN made + 1 ELSE made

setDHKeyPair ==
  /\ dhKeyPair' = SavedPair
  /\ rekeyed' = (rekeyed \/ (used /\ dhKeyPair # SavedPair))
  /\ UNCHANGED <<made, encryptionKey, publicKey>>

createEncryptionKey(p) ==
  /\ MemoClientPair
  /\ encryptionKey' = [encryptionKey EXCEPT ![p] = clientPair]
  /\ UNCHANGED <<publicKey, rekeyed>>

createClientPublicKey ==
  /\ MemoClientPair
  /\ publicKey' = clientPair
  /\ UNCHANGED <<encryptionKey, rekeyed>>

\* crypto/index.js 70: the key pair is memoized "to prevent a new key pair
\* being generated once sent to the server".  In whatever order session keys
\* are derived and the public key is taken, client and engines end up with
\* the same keys, unless setDHKeyPair replaces the pair after it was used.
KeysAgree ==
  ~rekeyed /\ publicKey # NoKey =>
    \A p \in Proxies : encryptionKey[p] \in {NoKey, publicKey}
=============================================================================
