--------------------------- MODULE MCEchoSession ---------------------------
(***************************************************************************)
(* TLC's instance of EchoSession: the field of 23, so that integers reach  *)
(* from -12 to 10, with 9 as the safe integers' limit; fixed point numbers *)
(* of one binary digit after the point and three in all; int32 of five     *)
(* bits.  Values are in quarters (Unit is 4).                              *)
(***************************************************************************)
EXTENDS EchoSession

ints == {-13, -12, -9, 0, 7, 9, 10, 11}
decimals == {-15, -3, 1, 15, 17}
values == {number(4 * i) : i \in ints} \union {number(d) : d \in decimals}

Singles == {<<v>> : v \in values}
Pairs2 == {<<v, number(2)>> : v \in values} \union
          {<<number(28), number(4 * i)>> : i \in {-9, 0, 10}}
Threes == {<<number(4), string(28), number(8)>>,
           <<number(4), number(8), string(28)>>,
           <<number(0), number(4), number(-8)>>,
           <<number(0), number(4), number(-6)>>}

AllLists == Singles \union Pairs2 \union Threes
EchoMasks == {5, 22}
=============================================================================
