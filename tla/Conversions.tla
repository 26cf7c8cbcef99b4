---------------------------- MODULE Conversions ----------------------------
(***************************************************************************)
(* The conversions between what an application passes and what the engines *)
(* see: math/Gfp.js, math/numericConversions.js, the list checks of        *)
(* utility/listComparison.js and convertUserInput, the byte arrays of      *)
(* type_mapping, and convertOutput.  Operators only.                       *)
(*                                                                         *)
(* A JavaScript value is a record of its type and its value in multiples   *)
(* of 1/Unit, half of the last fixed point digit, so that rounding shows.  *)
(* A Gfp is the number it wraps, in Montgomery form.  A buffer is a        *)
(* sequence of numbers and the bytes each of them takes.  What throws, or  *)
(* becomes a Bacon.Error, is Error.                                        *)
(***************************************************************************)
EXTENDS Integers, Sequences

CONSTANTS
  GFP_PRIME,              \* an odd prime
  R,                      \* the Montgomery radix
  fix_decimal_bitlength,
  fix_whole_bitlength,
  MAX_SAFE_INTEGER,
  INT_32_SIZE,            \* how many numbers an int32 tells apart
  Error

ASSUME PrimeAssumption ==
  /\ GFP_PRIME \in Nat /\ GFP_PRIME > 2
  /\ R \in Nat /\ R % GFP_PRIME # 0
  /\ \A d \in 2..(GFP_PRIME - 1) : GFP_PRIME % d # 0

ASSUME WidthAssumption ==
  /\ fix_decimal_bitlength \in Nat
  /\ fix_whole_bitlength \in Nat
  /\ fix_decimal_bitlength <= fix_whole_bitlength
  /\ MAX_SAFE_INTEGER \in Nat
  /\ INT_32_SIZE \in Nat \ {0}

\* A JavaScript value, in multiples of 1/Unit if it is a number
JSValue == [type : {"number", "string", "NaN"}, val : Int]

\* The safe integers and the fixed point numbers fit into the field
ASSUME RangeAssumption ==
  /\ MAX_SAFE_INTEGER < GFP_PRIME \div 2
  /\ 2 ^ fix_whole_bitlength <= MAX_SAFE_INTEGER

ASSUME ErrorAssumption ==
  /\ Error \notin Int /\ Error \notin Seq(Int)
  /\ Error \notin JSValue /\ Error \notin Seq(JSValue)

\* A map over a list throws if it does so for an element
orError(mapped) ==
  IF \E i \in 1..Len(mapped) : mapped[i] = Error THEN Error ELSE mapped

-----------------------------------------------------------------------------
(* math/Gfp.js                                                             *)

GFP_NEGATIVE_BOUNDARY == GFP_PRIME \div 2
MIN_NEGATIVE == GFP_NEGATIVE_BOUNDARY - GFP_PRIME
R_INVERSE == CHOOSE x \in 1..(GFP_PRIME - 1) : (x * R) % GFP_PRIME = 1

toMontgomery(v) == (v * R) % GFP_PRIME
fromMontgomery(v) == (v * R_INVERSE) % GFP_PRIME

fromGfpMapping(v) ==
  IF v >= GFP_NEGATIVE_BOUNDARY THEN v - GFP_PRIME ELSE v

\* new Gfp(v, true): a number that is in the field already; the prime passes
gfpMapped(v) == IF v < 0 \/ v > GFP_PRIME THEN Error ELSE v

\* new Gfp(v, false): an integer of the user
gfpUnmapped(v) ==
  IF v < MIN_NEGATIVE \/ v >= GFP_NEGATIVE_BOUNDARY THEN Error
  ELSE toMontgomery(IF v < 0 THEN v + GFP_PRIME ELSE v)

add(a, b) == gfpMapped((a + b) % GFP_PRIME)
multiply(a, b) == gfpMapped((a * b * R_INVERSE) % GFP_PRIME)

toJSInteger(g) ==
  LET v == fromGfpMapping(fromMontgomery(g)) IN
  IF v >= -MAX_SAFE_INTEGER /\ v <= MAX_SAFE_INTEGER THEN v ELSE Error

-----------------------------------------------------------------------------
(* JavaScript values and math/numericConversions.js                        *)

Unit == 2 ^ (fix_decimal_bitlength + 1)

number(v) == [type |-> "number", val |-> v]
string(v) == [type |-> "string", val |-> v]   \* a string of digits
NaN == [type |-> "NaN", val |-> 0]

isNumber(v) == v.type \in {"number", "NaN"}   \* typeof v === 'number'
isInteger(v) == v.type = "number" /\ v.val % Unit = 0

trunc(a, b) == IF a >= 0 THEN a \div b ELSE -((-a) \div b)

\* Only the integer part is compared with its bits, and only from above
jsNumberToShiftedInteger(v) ==
  LET whole == 2 ^ (fix_whole_bitlength - fix_decimal_bitlength) IN
  IF trunc(v.val, Unit) > whole - 1 THEN Error
  ELSE number(((v.val + 1) \div 2) * Unit)    \* Math.round: halves go up

\* In multiples of 1/Unit: the significand and the decimals that JS's
\* remainder leaves, with the sign of the dividend
shiftedIntegerToJSFixed(v) ==
  LET maxDecimal == 2 ^ fix_decimal_bitlength
      significand == trunc(v, maxDecimal) IN
  significand * Unit + (v - significand * maxDecimal) * (Unit \div maxDecimal)

toJSFixedPoint(g) ==
  LET v == toJSInteger(g) IN
  IF v = Error THEN Error ELSE shiftedIntegerToJSFixed(v)

\* BigInt of the value's string
fromUserInput(v) ==
  IF v.val % Unit # 0 THEN Error ELSE gfpUnmapped(v.val \div Unit)

-----------------------------------------------------------------------------
(* utility/listComparison.js and convertUserInput                          *)

\* The comparisons that convertUserInput asks for
compare(a, b, wanted) ==
  CASE wanted = "numbers" -> isNumber(a) /\ isNumber(b)
    [] wanted = "integers" -> isInteger(a) /\ isInteger(b)

\* Variant: the last element, not true, is what a comparison passes on
listComparisonFalsy(list, wanted) ==
  \/ Len(list) <= 1
  \/ /\ \A i \in 2..Len(list) : compare(list[i - 1], list[i], wanted)
     /\ list[Len(list)].val # 0

\* The reduce passes each element on if it compares with what came before,
\* and NaN otherwise; what counts in the end is the last comparison
listComparison(list, wanted) ==
  LET last == Len(list)
      passed[i \in 1..last] ==
        IF i = 1 \/ compare(passed[i - 1], list[i], wanted)
          THEN list[i] ELSE NaN IN
  last <= 1 \/ compare(passed[last - 1], list[last], wanted)

convertUserInput(list) ==
  IF ~listComparison(list, "numbers") THEN Error
  ELSE IF listComparison(list, "integers") THEN list
  ELSE orError([i \in 1..Len(list) |-> jsNumberToShiftedInteger(list[i])])

-----------------------------------------------------------------------------
(* type_mapping and convertOutput.  A buffer is [width, words].            *)

INTEGER_LENGTH_BYTES == 16

\* Variant: the arrays of the proxies are not compared
allSameUnchecked(arrays) == TRUE

\* A failed comparison passes NaN on, which has no length, so it sticks
allSame(arrays) ==
  \A i \in 2..Len(arrays) :
    Len(arrays[1]) > 0 /\ arrays[i] = arrays[1]

\* Buffers here hold fewer than four numbers, so that narrow ones fail the
\* length check of wide ones, and wide ones read as narrow differ in length
checkBuffer(buffers, width) ==
  \A p \in 1..Len(buffers) : buffers[p].width = width

\* What is read of the numbers of a buffer, by their width
extracted(words, width) ==
  IF width = INTEGER_LENGTH_BYTES
    THEN orError([i \in 1..Len(words) |-> gfpMapped(words[i])])
    ELSE words

binaryToArray(buffers, width) ==
  LET arrays == [p \in 1..Len(buffers) |->
                   extracted(buffers[p].words, width)] IN
  IF \/ buffers = <<>>
     \/ ~checkBuffer(buffers, width)
     \/ \E p \in 1..Len(buffers) : arrays[p] = Error
     \/ ~allSame(arrays)
    THEN Error ELSE arrays[1]

binaryToGfpArray(buffers) == binaryToArray(buffers, INTEGER_LENGTH_BYTES)
binaryToIntArray(buffers) == binaryToArray(buffers, 4)

sumOf(s) ==
  LET first[n \in 0..Len(s)] == IF n = 0 THEN 0 ELSE add(first[n - 1], s[n])
  IN first[Len(s)]

checkRelation(t) == multiply(t[1], t[2]) = t[3]

checkBufferLength(buffers) ==
  \A p \in 1..Len(buffers) :
    LET words == buffers[p].words IN
    /\ words # <<>> /\ Len(words) % 3 = 0
    /\ buffers[p].width = INTEGER_LENGTH_BYTES
    /\ Len(words) = Len(buffers[1].words)

\* The sum of the i-th triples of all proxies
combined(buffers, i) ==
  [j \in 1..3 |->
     sumOf([p \in 1..Len(buffers) |-> buffers[p].words[3 * (i - 1) + j]])]

\* The triples of all proxies are added up and checked, and the first
\* component of each is the mask of one input
binaryToShare(buffers) ==
  LET triples == 1..(Len(buffers[1].words) \div 3) IN
  IF ~checkBufferLength(buffers) THEN Error
  ELSE IF \E p \in 1..Len(buffers) :
            extracted(buffers[p].words, INTEGER_LENGTH_BYTES) = Error THEN Error
  ELSE IF \E i \in triples : ~checkRelation(combined(buffers, i)) THEN Error
  ELSE [i \in triples |-> combined(buffers, i)[1]]

\* The type of the last proxy's message decides how all are read; results
\* are in multiples of 1/Unit if it is fixed point, integers otherwise
convertOutput(msgs) ==
  LET type == msgs[Len(msgs)].type
      gfps == binaryToGfpArray(msgs) IN
  CASE type = "CLEAR_MODP_INT" ->
         IF gfps = Error THEN Error
         ELSE orError([i \in 1..Len(gfps) |-> toJSInteger(gfps[i])])
    [] type = "CLEAR_MODP_FIX" ->
         IF gfps = Error THEN Error
         ELSE orError([i \in 1..Len(gfps) |-> toJSFixedPoint(gfps[i])])
    [] type = "INT_32" -> binaryToIntArray(msgs)
    [] OTHER -> Error

\* setupSendInputShareStream: each input under its mask
maskInputs(values, shares) ==
  IF Len(values) # Len(shares) THEN Error
  ELSE LET gfps == orError([i \in 1..Len(values) |->
                              fromUserInput(values[i])]) IN
       IF gfps = Error THEN Error
       ELSE [i \in 1..Len(values) |-> add(shares[i], gfps[i])]
=============================================================================
