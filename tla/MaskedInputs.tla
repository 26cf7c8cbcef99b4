---------------------------- MODULE MaskedInputs ----------------------------
(***************************************************************************)
(* What sending secret inputs promises.  An input leaves the client only   *)
(* added to a mask: the share list of one round of triples.  Every input   *)
(* goes out at most once and in the order it was given, every mask is used *)
(* at most once and in the order the engines made it, and every engine     *)
(* gets the same masked inputs in the same order.                          *)
(***************************************************************************)
EXTENDS Naturals, Sequences

CONSTANTS
  Proxies,
  Inputs,     \* numbers of the inputs, in the order they are given
  Masks       \* numbers of the rounds of triples, in the order they are made

VARIABLES
  sent,       \* the pairs [send, round] that left the client
  received    \* received[p]: those that engine p has got

vars == <<sent, received>>

Init ==
  /\ sent = <<>>
  /\ received = [p \in Proxies |-> <<>>]

\* An input and a mask later than all those used so far go out together
Send(s, r) ==
  /\ \A i \in 1..Len(sent) : sent[i].send < s /\ sent[i].round < r
  /\ sent' = Append(sent, [send |-> s, round |-> r])
  /\ UNCHANGED received

\* An engine gets the next pair it lacks
Receive(p) ==
  /\ Len(received[p]) < Len(sent)
  /\ received' = [received EXCEPT ![p] = Append(@, sent[Len(@) + 1])]
  /\ UNCHANGED sent

Next ==
  \/ \E s \in Inputs, r \in Masks : Send(s, r)
  \/ \E p \in Proxies : Receive(p)

Spec == Init /\ [][Next]_vars
=============================================================================
