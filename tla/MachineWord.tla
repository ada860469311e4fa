----------------------------- MODULE MachineWord -----------------------------
(***************************************************************************)
(* The machine-word primitives of the C back end, on which the arithmetic  *)
(* of <integer> and <machine-word> is built: one call of each, with words  *)
(* of LONG_BIT bits, as the two builds of the file compute it.  What the   *)
(* results should be is what the reference of the machine-words module     *)
(* says (documentation/source/library-reference/common-dylan).  A build    *)
(* for 64-bit words on another processor than x86_64, where LONG_BIT is 32 *)
(* and not the size of the word, is not modelled.                          *)
(***************************************************************************)
EXTENDS Integers, Sequences, FiniteSetsExt

CONSTANTS LONG_BIT,      \* bits of a word
          HalfModulus,   \* 2^WORD_BIT: what half a word can hold
          Operands,      \* the first words tried
          Edges          \* the other words tried, and those of a double word

ASSUME WordAssumption ==
  /\ LONG_BIT \in Nat /\ HalfModulus \in Nat
  /\ HalfModulus > 1 /\ HalfModulus % 2 = 0 /\ HalfModulus * HalfModulus = 2 ^ LONG_BIT

Modulus == HalfModulus * HalfModulus
MaxWord == Modulus \div 2 - 1
MinWord == -(Modulus \div 2)
Words == MinWord .. MaxWord

DMINT(n) == ((n - MinWord) % Modulus) + MinWord    \* a word, read with its sign
DUMINT(n) == n % Modulus                           \* a word, read without
LOHALF(x) == x % HalfModulus
HIHALF(x) == DUMINT(x) \div HalfModulus

AssumptionOnOperands == Operands \subseteq Words /\ Edges \subseteq Words
ASSUME OperandAssumption == AssumptionOnOperands

VARIABLES build,  \* "x86_64", which has no longer type than the word, or "longlong"
          word,   \* the primitive called and its arguments
          answer, \* "none" yet, "values" or a "trap"
          out     \* the values it returned

wordVars == <<build, word, answer, out>>

Return(values) == answer' = "values" /\ out' = values
Divide(traps, values) ==
  \/ traps /\ answer' = "trap" /\ UNCHANGED out
  \/ ~traps /\ Return(values)

------------------------------------------------------------------------------
(* Division.  The hardware truncates and traps.                             *)

Abs(n) == IF n < 0 THEN -n ELSE n
Quotient(x, y) == IF (x < 0) # (y < 0) THEN -(Abs(x) \div Abs(y)) ELSE Abs(x) \div Abs(y)

ldiv(x, y) == [quot |-> Quotient(x, y), rem |-> x - y * Quotient(x, y)]
Traps(x, y) == y = 0 \/ (x = MinWord /\ y = -1)

(* labs of the least word is the least word.                                *)
labs(x) == IF x = MinWord THEN x ELSE Abs(x)

Down(z, y) == [quot |-> DMINT(z.quot - 1), rem |-> DMINT(z.rem + y)]
Up(z, y) == [quot |-> DMINT(z.quot + 1), rem |-> DMINT(z.rem - y)]

Floor(z, y) == IF z.rem # 0 /\ (IF y < 0 THEN z.rem > 0 ELSE z.rem < 0) THEN Down(z, y) ELSE z
Ceiling(z, y) == IF z.rem # 0 /\ (IF y < 0 THEN z.rem < 0 ELSE z.rem > 0) THEN Up(z, y) ELSE z

(* Mutant: every remainder of half the divisor is rounded up.               *)
Round_half_up(z, y) ==
  LET threshold == Quotient(labs(y), 2)
  IN  IF z.rem >= threshold THEN IF y < 0 THEN Down(z, y) ELSE Up(z, y)
      ELSE IF z.rem <= -threshold THEN IF y < 0 THEN Up(z, y) ELSE Down(z, y)
      ELSE z

Round(z, y) ==
  LET threshold == Quotient(labs(y), 2)
      odd == z.quot % 2 = 1
  IN  IF z.rem > threshold \/ (z.rem = threshold /\ odd)
        THEN IF y < 0 THEN Down(z, y) ELSE Up(z, y)
      ELSE IF z.rem < -threshold \/ (z.rem = -threshold /\ odd)
        THEN IF y < 0 THEN Up(z, y) ELSE Down(z, y)
      ELSE z

Adjusted(z, y) ==
  CASE word.op = "floorS" -> Floor(z, y)
    [] word.op = "ceilingS" -> Ceiling(z, y)
    [] word.op = "roundS" -> Round(z, y)
    [] word.op \in {"truncateS", "divide"} -> z

(* A double word, and how each build divides it.                            *)
DoubleWord(xl, xh) == xh * Modulus + DUMINT(xl)
Dividend(xl, xh) ==
  IF build = "x86_64" THEN DMINT(LOHALF(xh) * HalfModulus + LOHALF(xl)) ELSE DoubleWord(xl, xh)

divide_double(xl, xh, y) ==
  LET z == ldiv(Dividend(xl, xh), y)
      negate == build = "x86_64" /\ xh < 0 /\ xl > 0
  IN  IF negate THEN [quot |-> DMINT(-z.quot), rem |-> DMINT(-z.rem)]
      ELSE [quot |-> DMINT(z.quot), rem |-> DMINT(z.rem)]

DoubleTraps(xl, xh, y) == y = 0 \/ (y = -1 /\ Dividend(xl, xh) \in {MinWord, MinWord * Modulus})

(* The high word the division of one word passes on is its sign.            *)
unsigned_divide_double(xl, xh, y) ==
  LET dividend == IF build = "x86_64" THEN LOHALF(xh) * HalfModulus + LOHALF(xl)
                  ELSE DUMINT(xh) * Modulus + DUMINT(xl)
  IN  [quot |-> DUMINT(dividend \div DUMINT(y)), rem |-> dividend % DUMINT(y)]

(* The _quotient and _remainder forms return one value of the two.          *)
Form(z) == CASE word.form = "quotient" -> <<z.quot>>
               [] word.form = "remainder" -> <<z.rem>>
               [] word.form \in {"both", "byref"} -> <<z.quot, z.rem>>

Divisions == {"divide", "truncateS", "floorS", "ceilingS", "roundS"}

DivideSingle ==
  Divide(Traps(word.x, word.y), Form(Adjusted(ldiv(word.x, word.y), word.y)))
DivideDouble ==
  Divide(DoubleTraps(word.x, word.high, word.y),
         Form(Adjusted(divide_double(word.x, word.high, word.y), word.y)))
DivideUnsigned ==
  LET high == IF word.op = "unsigned_double_divide" THEN word.high ELSE IF word.x < 0 THEN -1 ELSE 0
  IN  Divide(word.y = 0, Form(unsigned_divide_double(word.x, high, word.y)))

(* One value of the division of one unsigned word: the operators / and %.   *)
DivideUnsignedWord ==
  LET ux == DUMINT(word.x)  uy == DUMINT(word.y)
  IN  Divide(uy = 0, Form([quot |-> ux \div uy, rem |-> ux % uy]))

PrimitiveDivision ==
  word.op \in Divisions /\ word.size = "single" /\ word.form # "byref" /\ DivideSingle
PrimitiveDoubleDivision ==
  word.op \in Divisions /\ word.size = "double" /\ word.form # "byref" /\ DivideDouble
PrimitiveUnsignedDivision ==
  \/ word.op = "unsigned_divide" /\ word.form = "both" /\ DivideUnsigned
  \/ word.op = "unsigned_double_divide" /\ word.form # "byref" /\ DivideUnsigned
PrimitiveUnsignedDivisionMacros ==
  word.op = "unsigned_divide" /\ word.form \in {"quotient", "remainder"} /\ DivideUnsignedWord
PrimitiveDivisionByref ==
  /\ word.form = "byref"
  /\ \/ word.op \notin Divisions /\ DivideUnsigned
     \/ word.op \in Divisions /\ word.size = "single" /\ DivideSingle
     \/ word.op \in Divisions /\ word.size = "double" /\ DivideDouble

------------------------------------------------------------------------------
(* Arithmetic with a report of overflow, carry or borrow.  Overflow of a    *)
(* signed operation is undefined: it wraps, and a test made of its result   *)
(* may be compiled away.  Each operator gives the set of possible results.  *)

SignsDiffer(x, y) == (x < 0) # (y < 0)       \* (x ^ y) < 0

(* Mutant: the sign of the result is compared only.                         *)
AddWithOverflow_sign(x, y) == {<<DMINT(x + y), SignsDiffer(DMINT(x + y), x)>>}

AddWithOverflow(x, y) ==
  LET r == DMINT(DUMINT(x) + DUMINT(y)) IN {<<r, ~SignsDiffer(x, y) /\ SignsDiffer(r, x)>>}
SubtractWithOverflow(x, y) ==
  LET r == DMINT(DUMINT(x) - DUMINT(y)) IN {<<r, SignsDiffer(x, y) /\ SignsDiffer(r, x)>>}

NegativeWithOverflow(x) == IF x = MinWord THEN {<<x, TRUE>>, <<x, FALSE>>} ELSE {<<-x, FALSE>>}
AbsWithOverflow(x) == IF x = MinWord THEN {<<x, TRUE>>, <<x, FALSE>>} ELSE {<<Abs(x), FALSE>>}
ShiftLeftWithOverflow(x, n) == {<<DMINT(x * 2 ^ n), FALSE>>}

UnsignedAddWithCarry(x, y) ==
  LET ux == DUMINT(x)  uy == DUMINT(y)
      bbc == IF ux % 2 = 1 /\ uy % 2 = 1 THEN 1 ELSE 0
  IN  {<<DUMINT(ux + uy), IF DMINT(ux \div 2 + uy \div 2 + bbc) < 0 THEN 1 ELSE 0>>}
UnsignedSubtractWithBorrow(x, y) ==
  {<<DUMINT(DUMINT(x) - DUMINT(y)), IF DUMINT(y) > DUMINT(x) THEN 1 ELSE 0>>}

(* The product of two words as a low and a high word.  Without a longer     *)
(* type it is put together from halves, and what the sum of the middle      *)
(* products carries is lost.                                                *)
multiply_double(x, y) ==
  LET xl == LOHALF(x)  xh == HIHALF(x)  yl == LOHALF(y)  yh == HIHALF(y)
      zlh == DUMINT(xl * yh)  zhl == DUMINT(xh * yl)
      z == DUMINT(x) * DUMINT(y)
  IN  IF build = "x86_64"
        THEN <<DUMINT(xl * yl + DUMINT((LOHALF(zlh) + LOHALF(zhl)) * HalfModulus)),
               DUMINT(xh * yh + HIHALF(zlh) + HIHALF(zhl))>>
        ELSE <<z % Modulus, z \div Modulus>>

MultiplyWithOverflow(x, y) ==
  LET z == multiply_double(x, y)  high == DMINT(z[2])
  IN  {<<z[1], z[2], IF SignsDiffer(x, y) THEN high >= 0 ELSE high < 0>>}
MultiplyLowWithOverflow(x, y) ==
  LET r == DMINT(x * y)
      seen == (IF SignsDiffer(x, y) THEN r >= 0 ELSE r < 0) \/ labs(r) < labs(x) \/ labs(r) < labs(y)
  IN  {<<r, seen>>} \cup (IF x * y \in Words THEN {} ELSE {<<r, FALSE>>})

(* The shifts.  One by LONG_BIT is undefined: nothing is left, or the count *)
(* is taken modulo the size of the word.                                    *)
Shl(u, n) == IF n = LONG_BIT THEN {0, u} ELSE {DUMINT(u * 2 ^ n)}
Shr(u, n) == IF n = LONG_BIT THEN {0, u} ELSE {u \div 2 ^ n}
Bit(u, i) == (u \div 2 ^ i) % 2 = 1
Or(u, v) == MapThenSumSet(LAMBDA i : IF Bit(u, i) \/ Bit(v, i) THEN 2 ^ i ELSE 0, 0 .. LONG_BIT - 1)

UnsignedRotateLeft(x, n) ==
  {<<Or(low, high)>> : low \in Shr(DUMINT(x), LONG_BIT - n), high \in Shl(DUMINT(x), n)}
UnsignedRotateRight(x, n) ==
  {<<Or(low, high)>> : high \in Shl(DUMINT(x), LONG_BIT - n), low \in Shr(DUMINT(x), n)}
UnsignedDoubleShiftLeft(xl, xh, n) ==
  {<<DUMINT(DUMINT(xl) * 2 ^ n), Or(low, high)>> :
     low \in Shr(DUMINT(xl), LONG_BIT - n), high \in Shl(DUMINT(xh), n)}
UnsignedDoubleShiftRight(xl, xh, n) ==
  {<<Or(low, high), DUMINT(xh) \div 2 ^ n>> :
     low \in Shr(DUMINT(xl), n), high \in Shl(DUMINT(xh), LONG_BIT - n)}

(* The table look-ups of a compiler without the built-in counts: the first  *)
(* nibble that is not zero, and a table for that.                           *)
Nibble(u, i) == (u \div 16 ^ i) % 16
LowTable == <<4, 0, 1, 0, 2, 0, 1, 0, 3, 0, 1, 0, 2, 0, 1, 0>>
HighTable == <<4, 3, 2, 2, 1, 1, 1, 1, 0, 0, 0, 0, 0, 0, 0, 0>>
Nibbles(u) == {i \in 0 .. LONG_BIT \div 4 - 1 : Nibble(u, i) # 0}

CountLowZeros(x) ==
  LET u == DUMINT(x)  i == Min(Nibbles(u))
  IN  {<<IF x = 0 THEN LONG_BIT ELSE 4 * i + LowTable[Nibble(u, i) + 1]>>}
CountHighZeros(x) ==
  LET u == DUMINT(x)  i == Max(Nibbles(u))
  IN  {<<IF x = 0 THEN LONG_BIT ELSE 4 * (LONG_BIT \div 4 - 1 - i) + HighTable[Nibble(u, i) + 1]>>}

(* A word as an <abstract-integer>: a tagged integer if the bits the tag    *)
(* shifts out do not matter, a <double-integer> otherwise; and back.        *)
Tagged(x) == [tag |-> "integer", raw |-> DMINT(DUMINT(x) * 4 + 1)]
DoubleInteger(low, high) == [tag |-> "double", low |-> low, high |-> high]
HighBits(x, n) == DUMINT(x) \div 2 ^ (LONG_BIT - n)

WrapAbstractInteger(x) ==
  IF HighBits(x, 3) \in {0, 7} THEN Tagged(x) ELSE DoubleInteger(DUMINT(x), IF x < 0 THEN -1 ELSE 0)
WrapUnsignedAbstractInteger(x) ==
  IF HighBits(x, 2) = 0 THEN Tagged(x) ELSE DoubleInteger(DUMINT(x), 0)
UnwrapAbstractInteger(v) == IF v.tag = "integer" THEN v.raw \div 4 ELSE DMINT(v.low)

Computed ==
  LET x == word.x  y == word.y
  IN  CASE word.op = "add_with_overflow" -> AddWithOverflow(x, y)
        [] word.op = "subtract_with_overflow" -> SubtractWithOverflow(x, y)
        [] word.op = "multiply_with_overflow" -> MultiplyWithOverflow(x, y)
        [] word.op = "multiply_low_with_overflow" -> MultiplyLowWithOverflow(x, y)
        [] word.op = "unsigned_multiply" -> {multiply_double(x, y)}
        [] word.op = "negative_with_overflow" -> NegativeWithOverflow(x)
        [] word.op = "abs_with_overflow" -> AbsWithOverflow(x)
        [] word.op = "unsigned_add_with_carry" -> UnsignedAddWithCarry(x, y)
        [] word.op = "unsigned_subtract_with_borrow" -> UnsignedSubtractWithBorrow(x, y)
        [] word.op = "count_low_zeros" -> CountLowZeros(x)
        [] word.op = "count_high_zeros" -> CountHighZeros(x)
        [] word.op = "wrap_abstract_integer" -> {<<WrapAbstractInteger(x)>>}
        [] word.op = "wrap_unsigned_abstract_integer" -> {<<WrapUnsignedAbstractInteger(x)>>}
        [] word.op = "unwrap_abstract_integer" -> {<<UnwrapAbstractInteger(WrapAbstractInteger(x))>>}

Shifted ==
  CASE word.op = "shift_left_with_overflow" -> ShiftLeftWithOverflow(word.x, word.y)
    [] word.op = "unsigned_rotate_left" -> UnsignedRotateLeft(word.x, word.y)
    [] word.op = "unsigned_rotate_right" -> UnsignedRotateRight(word.x, word.y)
    [] word.op = "unsigned_double_shift_left" -> UnsignedDoubleShiftLeft(word.x, word.high, word.y)
    [] word.op = "unsigned_double_shift_right" -> UnsignedDoubleShiftRight(word.x, word.high, word.y)

Unary == {"negative_with_overflow", "abs_with_overflow", "count_low_zeros", "count_high_zeros",
          "wrap_abstract_integer", "wrap_unsigned_abstract_integer", "unwrap_abstract_integer"}
Binary == {"add_with_overflow", "subtract_with_overflow", "multiply_with_overflow",
           "multiply_low_with_overflow", "unsigned_multiply", "unsigned_add_with_carry",
           "unsigned_subtract_with_borrow"}
Shifts == {"shift_left_with_overflow", "unsigned_rotate_left", "unsigned_rotate_right",
           "unsigned_double_shift_left", "unsigned_double_shift_right"}
DoubleShifts == {"unsigned_double_shift_left", "unsigned_double_shift_right"}

PrimitiveArithmetic == word.op \in Unary \cup Binary /\ word.form = "both" /\ \E r \in Computed : Return(r)
PrimitiveShift == word.op \in Shifts /\ word.form = "both" /\ \E r \in Shifted : Return(r)
PrimitiveArithmeticByref ==
  /\ word.form = "reference"
  /\ \E r \in IF word.op \in Shifts THEN Shifted ELSE Computed :
       Return(IF word.op = "shift_left_with_overflow" THEN <<r[1], 0, r[2]>> ELSE r)

------------------------------------------------------------------------------
Call(op, size, form, x, high, y) ==
  [op |-> op, size |-> size, form |-> form, x |-> x, high |-> high, y |-> y]

Forms == {"quotient", "remainder", "both", "byref"}
References == (Binary \cup Shifts \cup {"negative_with_overflow", "abs_with_overflow"})
              \ {"unsigned_rotate_left", "unsigned_rotate_right"}

InitWords ==
  /\ build \in {"x86_64", "longlong"}
  /\ answer = "none" /\ out = <<>>
  /\ \/ \E op \in Divisions \cup {"unsigned_divide"}, form \in Forms, x \in Operands, y \in Edges :
          word = Call(op, "single", form, x, 0, y)
     \/ \E op \in Divisions \cup {"unsigned_double_divide"}, form \in Forms, x, high, y \in Edges :
          word = Call(op, "double", form, x, high, y)
     \/ \E op \in Unary, x \in Operands : word = Call(op, "single", "both", x, 0, 0)
     \/ \E op \in Binary, x \in Operands, y \in Edges : word = Call(op, "single", "both", x, 0, y)
     \/ \E op \in Shifts, x, high \in Edges, n \in 0 .. LONG_BIT - 1 :
          /\ op \notin DoubleShifts => high = 0
          /\ word = Call(op, "single", "both", x, high, n)
     \/ \E op \in References, x, high, y \in Edges :
          /\ op \notin DoubleShifts => high = 0
          /\ op \in Shifts => y \in 0 .. LONG_BIT - 1
          /\ word = Call(op, "single", "reference", x, high, y)

NextWords ==
  /\ answer = "none" /\ UNCHANGED <<build, word>>
  /\ \/ PrimitiveDivision \/ PrimitiveDoubleDivision \/ PrimitiveUnsignedDivision
     \/ PrimitiveUnsignedDivisionMacros \/ PrimitiveDivisionByref
     \/ PrimitiveArithmetic \/ PrimitiveShift \/ PrimitiveArithmeticByref

SpecWords == InitWords /\ [][NextWords]_wordVars

------------------------------------------------------------------------------
(* What the reference promises.  q and r are a quotient and a remainder of  *)
(* x by y, rounded as the operation says.                                   *)
Sign(y) == IF y < 0 THEN -1 ELSE 1
Rounded(op, q, r, x, y) ==
  /\ x = q * y + r
  /\ op \in {"truncateS", "divide"} => Abs(r) < Abs(y) /\ (r = 0 \/ (r < 0) = (x < 0))
  /\ op = "floorS" => 0 <= r * Sign(y) /\ r * Sign(y) < Abs(y)
  /\ op = "ceilingS" => -Abs(y) < r * Sign(y) /\ r * Sign(y) <= 0
  /\ op = "roundS" => 2 * Abs(r) <= Abs(y) /\ (2 * Abs(r) = Abs(y) => q % 2 = 0)

(* round/ goes wrong: half an odd divisor is rounded down, so a remainder   *)
(* just below half of it is taken for half of it, and the least word has no *)
(* absolute value.                                                          *)
RoundsWrong(z, y) ==
  \/ y = MinWord /\ 2 * Abs(z.rem) <= -MinWord /\ ~(2 * z.rem = -MinWord /\ z.quot % 2 = 1)
  \/ (y % 2 = 1 /\ z.quot % 2 = 1 /\ 2 * Abs(z.rem) = Abs(y) - 1)

(* A remainder alone does not tell which quotient it belongs to.            *)
RoundedUnless(wrong, op, q, r, x, y) ==
  IF wrong THEN word.form # "remainder" => ~Rounded(op, q, r, x, y) ELSE Rounded(op, q, r, x, y)

(* floor/, ceiling/, truncate/ and divide return the quotient rounded as    *)
(* they say and the remainder that belongs to it, for every pair of words   *)
(* for which there is one, and they trap for the others; round/ does for    *)
(* exactly the divisors and remainders that RoundsWrong does not name.      *)
QuotientsAreExact ==
  LET x == word.x  y == word.y
      q == IF word.form = "remainder" THEN Quotient(x - out[1], y) ELSE out[1]
      r == IF word.form = "quotient" THEN x - q * y ELSE out[Len(out)]
  IN  word.op \in Divisions /\ word.size = "single" =>
        /\ answer = "trap" => Traps(x, y)
        /\ answer = "values" =>
             /\ ~Traps(x, y)
             /\ RoundedUnless(word.op = "roundS" /\ RoundsWrong(ldiv(x, y), y), word.op, q, r, x, y)

(* Which double and unsigned dividends the builds read whole: x86_64 puts   *)
(* the low halves of the two words together.                                *)
ReadWhole(xl, xh) == IF build = "x86_64" THEN xh = 0 /\ xl \in 0 .. HalfModulus - 1 ELSE TRUE

DoubleQuotientsAreExact ==
  LET y == word.y  x == DoubleWord(word.x, word.high)
      q == IF word.form = "remainder" THEN Quotient(x - out[1], y) ELSE out[1]
      r == IF word.form = "quotient" THEN x - q * y ELSE out[Len(out)]
      fits == Quotient(x, y) \in MinWord + 1 .. MaxWord - 1
  IN  word.size = "double" /\ ReadWhole(word.x, word.high) /\ y # 0 /\ fits =>
        /\ word.op \in Divisions =>
             RoundedUnless(word.op = "roundS" /\ RoundsWrong(ldiv(x, y), y), word.op, q, r, x, y)
        /\ word.op = "unsigned_double_divide" /\ word.high >= 0 /\ y > 0 => Rounded("divide", q, r, x, y)

UnsignedQuotientsAreExact ==
  LET ux == DUMINT(word.x)  uy == DUMINT(word.y)
      whole == word.form \in {"quotient", "remainder"} \/ (word.x >= 0 /\ ReadWhole(word.x, 0))
  IN  word.op = "unsigned_divide" /\ whole /\ uy # 0 => out = Form([quot |-> ux \div uy, rem |-> ux % uy])

(* What is lost of a product: the carry of the middle products into the     *)
(* high word, where there is no longer type.                                *)
LosesCarry(x, y) ==
  /\ build = "x86_64"
  /\ HIHALF(LOHALF(x) * LOHALF(y)) + LOHALF(LOHALF(x) * HIHALF(y)) + LOHALF(HIHALF(x) * LOHALF(y)) >= HalfModulus

(* Where overflow is reported of a product that fits a word.  The high word *)
(* is that of the unsigned product, so that a negative operand gives it the *)
(* wrong sign (but for one product whose lost carry sets it right); and the *)
(* low product is taken to be too small when it is 0, and when it is the    *)
(* least word, which has no absolute value.                                 *)
HighFalseAlarm(x, y) == (x < 0 \/ y < 0) /\ ~(LosesCarry(x, y) /\ x + y = MinWord)
LowFalseAlarm(x, y) == x * y = MinWord \/ (x * y = 0 /\ (x # 0 \/ y # 0))

RotatedLeft(u, n) == ((u * 2 ^ n) % Modulus) + (u * 2 ^ n) \div Modulus
Denotes(v) == IF v.tag = "integer" THEN v.raw \div 4 ELSE v.high * Modulus + v.low

(* The other results: a sum or difference comes with an overflow flag, a    *)
(* carry or a borrow that makes it exact; rotations, double shifts by a     *)
(* positive count, counts of zeros and the conversion to <abstract-integer> *)
(* and back lose no bit.  Products and double quotients are exact where the *)
(* code does not drop part of an operand or a carry, and the conversion of  *)
(* an unsigned word where the tagged integer does not become negative.  The *)
(* overflow flag of a product that fits a word is false but for the false   *)
(* alarms above, where machine-words.rst:401-411 has it false; the three-   *)
(* value product of words that are not negative never reports overflow,     *)
(* even where there is one; and the negative and the absolute value of the  *)
(* least word are the least word, with the flag of machine-words.rst:489-501*)
(* or, as the overflow is undefined in C, without.                          *)
WordsAreExact ==
  LET x == word.x  y == word.y  ux == DUMINT(x)  uy == DUMINT(y)  op == word.op
      double == DUMINT(word.high) * Modulus + ux
  IN  answer = "values" =>
        /\ DoubleQuotientsAreExact /\ UnsignedQuotientsAreExact
        /\ op = "add_with_overflow" => out = <<DMINT(x + y), x + y \notin Words>>
        /\ op = "subtract_with_overflow" => out = <<DMINT(x - y), x - y \notin Words>>
        /\ op = "negative_with_overflow" => IF x = MinWord THEN out[1] = x ELSE out = <<-x, FALSE>>
        /\ op = "abs_with_overflow" => IF x = MinWord THEN out[1] = x ELSE out = <<Abs(x), FALSE>>
        /\ op = "unsigned_add_with_carry" => out[1] \in 0 .. Modulus - 1 /\ out[1] + out[2] * Modulus = ux + uy
        /\ op = "unsigned_subtract_with_borrow" => out[1] \in 0 .. Modulus - 1 /\ out[1] - out[2] * Modulus = ux - uy
        /\ op = "unsigned_multiply" => (out[1] + out[2] * Modulus = ux * uy <=> ~LosesCarry(x, y))
        /\ op = "multiply_with_overflow" =>
             /\ out[1] + out[2] * Modulus = ux * uy <=> ~LosesCarry(x, y)
             /\ x * y \in Words => out[1] = DUMINT(x * y) /\ out[3] = HighFalseAlarm(x, y)
             /\ x >= 0 /\ y >= 0 => ~out[3]
        /\ op = "multiply_low_with_overflow" =>
             /\ out[1] = DMINT(x * y)
             /\ x * y \in Words => out[2] = LowFalseAlarm(x, y)
        /\ op = "shift_left_with_overflow" => out[1] = DMINT(x * 2 ^ y)
        /\ op = "unsigned_rotate_left" => out[1] = RotatedLeft(ux, y)
        /\ op = "unsigned_rotate_right" => ux = RotatedLeft(out[1], y)
        /\ op = "unsigned_double_shift_left" /\ y > 0 => out[1] + out[2] * Modulus = (double * 2 ^ y) % (Modulus * Modulus)
        /\ op = "unsigned_double_shift_right" /\ y > 0 => out[1] + out[2] * Modulus = double \div 2 ^ y
        /\ op = "count_low_zeros" /\ x # 0 => Bit(ux, out[1]) /\ \A i \in 0 .. out[1] - 1 : ~Bit(ux, i)
        /\ op = "count_high_zeros" /\ x # 0 =>
             LET p == LONG_BIT - 1 - out[1] IN Bit(ux, p) /\ \A i \in p + 1 .. LONG_BIT - 1 : ~Bit(ux, i)
        /\ op = "wrap_abstract_integer" => Denotes(out[1]) = x
        /\ op = "wrap_unsigned_abstract_integer" =>
             (Denotes(out[1]) = ux <=> ~(ux \in Modulus \div 8 .. Modulus \div 4 - 1))
        /\ op = "unwrap_abstract_integer" => out[1] = x
==============================================================================
