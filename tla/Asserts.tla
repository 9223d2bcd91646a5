------------------------------- MODULE Asserts -------------------------------
(***************************************************************************)
(* The assert macros of polytest.h and the functions behind them           *)
(* (harness/c/polytest_assert.c): conversions, comparisons and the numbers *)
(* a failure shows.  One evaluation of one call per behaviour.             *)
(*                                                                         *)
(* A byte has two hexadecimal digits, which may have less than 4 bits, and *)
(* the integer types keep their sizes of 1, 2, 4 and 8 bytes.  Texts are   *)
(* sequences of digits with a sign; their fixed words and the user's       *)
(* message are left out.                                                   *)
(***************************************************************************)
EXTENDS Integers, Sequences, SequencesExt

CONSTANTS NibbleBits,  \* 4: the bits of a hexadecimal digit
          Values,      \* integers user code passes, before any conversion
          Deltas,      \* tolerances of the integer asserts
          Floats,      \* finite floating-point arguments and tolerances
          Infinity,    \* stands for the infinity, above all differences of Floats
          NaN,
          Memory,      \* address -> the bytes there; a string ends at its last one
          Lengths      \* lengths of the memory, string and array asserts

(* An integer type of that many bytes has 2^Bits(size) values.             *)
Bits(size) == 2 * size * NibbleBits
PowerOf2[n \in 0 .. Bits(8)] == IF n = 0 THEN 1 ELSE 2 * PowerOf2[n - 1]
HexBase == PowerOf2[NibbleBits]
Modulus(size) == PowerOf2[Bits(size)]
Half(size) == Modulus(size) \div 2

Unsigned(size, x) == x % Modulus(size)
Signed(size, x) ==
    LET u == Unsigned(size, x)
    IN  IF u < Half(size) THEN u ELSE u - Modulus(size)

IntRange(size) == -Half(size) .. Half(size) - 1

ASSUME AssertsAssumption ==
    /\ NibbleBits \in Nat \ {0}
    /\ Values \subseteq IntRange(8) \cup 0 .. Modulus(8) - 1
    /\ Deltas \subseteq IntRange(8)
    /\ Infinity \in Nat /\ NaN \in Nat /\ Infinity < NaN
    /\ \A f, g \in Floats : f \in Int /\ -Infinity < f /\ f < Infinity /\ f - g < Infinity
    /\ \A p \in DOMAIN Memory : p \in Nat \ {0} /\ Memory[p] \in Seq(IntRange(4))
    /\ Lengths \subseteq 0 .. Modulus(8) - 1

-----------------------------------------------------------------------------
(* Numbers in messages.                                                    *)

Bit(u, k) == (u \div PowerOf2[k]) % 2

(* pt_as_u64_div10: long division, from the highest bit.                   *)
Div10(u) ==
    LET part[bit \in 0 .. Bits(8)] ==
            IF bit = Bits(8) THEN [q |-> 0, r |-> 0]
            ELSE LET prev == part[bit + 1]
                     r == 2 * prev.r + Bit(u, bit)
                 IN  IF r >= 10 THEN [q |-> prev.q + PowerOf2[bit], r |-> r - 10]
                     ELSE [q |-> prev.q, r |-> r]
    IN  part[0]

(* pt_as_append_u64: the digits come last first.                           *)
Decimal(u) ==
    LET digits[v \in 0 .. u] ==
            IF v = 0 THEN <<>> ELSE Append(digits[Div10(v).q], Div10(v).r)
    IN  IF u = 0 THEN <<0>> ELSE digits[u]

(* Mistake: the sign is taken off by negating, which overflows.            *)
TextI64_Negates(v) ==
    [sign |-> IF v < 0 THEN -1 ELSE 1,
     digits |-> Decimal(IF v < 0 THEN Signed(8, -v) % Half(8) ELSE v)]

(* pt_as_append_i64: -(v + 1) cannot overflow.                             *)
TextI64(v) ==
    [sign |-> IF v < 0 THEN -1 ELSE 1,
     digits |-> Decimal(IF v < 0 THEN Unsigned(8, Signed(8, -(v + 1)) + 1) ELSE v)]

TextU64(u) == [sign |-> 1, digits |-> Decimal(u)]

(* pt_as_append_hex: 1 to 16 digits.                                       *)
TextHex(u, nibbles) ==
    LET n == IF nibbles < 1 THEN 1 ELSE IF nibbles > 16 THEN 16 ELSE nibbles
    IN  [sign |-> 1,
         digits |-> [k \in 1 .. n |-> (u \div PowerOf2[(n - k) * NibbleBits]) % HexBase]]

(* An assert that fails calls pot_fail_at with the values it shows.        *)
Check(passed, shown) == [passed |-> passed, shown |-> IF passed THEN <<>> ELSE shown]

-----------------------------------------------------------------------------
(* The macros pass `!!(cond)`, so that no bit is lost in the int.          *)
Truth(x) == IF x # 0 THEN 1 ELSE 0

AssertTrue(x) == Check(Signed(4, Truth(x)) # 0, <<>>)
AssertFalse(x) == Check(Signed(4, Truth(x)) = 0, <<>>)
AssertNull(p) == Check(p = 0, <<>>)
AssertNotNull(p) == Check(p # 0, <<>>)

(* POT_ASSERT_EQUAL_<type><8 * size>; EQUAL_INT and EQUAL_UINT, of size 0  *)
(* here, do not narrow their arguments to an int.                          *)
EqualMacros == [type : {"INT", "UINT", "HEX"}, size : {1, 2, 4, 8}]
                  \cup [type : {"INT", "UINT"}, size : {0}]

(* Mistake: the macros of a size pass their arguments on as they are.      *)
Narrow_Not(macro, x) == IF macro.type = "INT" THEN Signed(8, x) ELSE Unsigned(8, x)

Narrow(macro, x) ==
    LET size == IF macro.size = 0 THEN 8 ELSE macro.size
    IN  IF macro.type = "INT" THEN Signed(size, x) ELSE Unsigned(size, x)

(* pot_assert_int, pot_assert_uint.                                        *)
AssertEqual(macro, expected, actual) ==
    LET e == Narrow(macro, expected)
        a == Narrow(macro, actual)
        Text(x) == CASE macro.type = "INT"  -> TextI64(x)
                     [] macro.type = "UINT" -> TextU64(x)
                     [] macro.type = "HEX"  -> TextHex(x, 2 * macro.size)
    IN  Check(e = a, <<Text(e), Text(a)>>)

AssertNotEqual(expected, actual) ==
    Check(Signed(8, expected) # Signed(8, actual), <<TextI64(Signed(8, expected))>>)

AssertGreater(threshold, actual) ==
    Check(Signed(8, actual) > Signed(8, threshold),
          <<TextI64(Signed(8, actual)), TextI64(Signed(8, threshold))>>)

AssertLess(threshold, actual) ==
    Check(Signed(8, actual) < Signed(8, threshold),
          <<TextI64(Signed(8, actual)), TextI64(Signed(8, threshold))>>)

Distance(a, e) == IF a > e THEN a - e ELSE e - a

(* pot_assert_int_within: a distance beyond INT64_MAX is an overflow, of   *)
(* which a build may make anything.                                        *)
AssertIntWithin(delta, expected, actual) ==
    LET e == Signed(8, expected)
        a == Signed(8, actual)
    IN  {Check(passed, <<TextI64(a), TextI64(delta), TextI64(e)>>) :
            passed \in IF Distance(a, e) \in IntRange(8) THEN {Distance(a, e) <= delta}
                                                         ELSE BOOLEAN}

-----------------------------------------------------------------------------
(* IEEE arithmetic on Floats, the infinities and NaN; rounding left out.   *)
Infinities == {Infinity, -Infinity}
AllFloats == Floats \cup Infinities \cup {NaN}

Minus(x, y) ==
    IF NaN \in {x, y} \/ (x = y /\ x \in Infinities) THEN NaN
    ELSE IF x \in Infinities THEN x
    ELSE IF y \in Infinities THEN -y
    ELSE x - y

Greater(x, y) == x # NaN /\ y # NaN /\ x > y
AtMost(x, y)  == x # NaN /\ y # NaN /\ x <= y

(* Mistake: the test is turned round, and NaN passes it.                   *)
AssertFloatWithin_Negated(delta, expected, actual) ==
    LET diff == IF Greater(actual, expected) THEN Minus(actual, expected)
                                             ELSE Minus(expected, actual)
    IN  Check(~Greater(diff, delta), <<>>)

(* pot_assert_float_within, pot_assert_double_within; EQUAL_FLOAT and      *)
(* EQUAL_DOUBLE pass a small delta.                                        *)
AssertFloatWithin(delta, expected, actual) ==
    LET diff == IF Greater(actual, expected) THEN Minus(actual, expected)
                                             ELSE Minus(expected, actual)
    IN  Check(AtMost(diff, delta), <<>>)

-----------------------------------------------------------------------------
(* Strings, memory and arrays: a pointer is an address, 0 is NULL.         *)
Pointers == {0} \cup DOMAIN Memory

UpTo(p, len) == SubSeq(Memory[p], 1, IF len < Len(Memory[p]) THEN len ELSE Len(Memory[p]))

AssertString(e, a) ==
    Check(e = a \/ (e # 0 /\ a # 0 /\ Memory[e] = Memory[a]), <<>>)

AssertStringLen(e, a, len) ==
    Check(e = a \/ (e # 0 /\ a # 0 /\ UpTo(e, len) = UpTo(a, len)), <<>>)

AssertMemory(e, a, len) ==
    Check(len = 0 \/ e = a \/ (e # 0 /\ a # 0 /\ UpTo(e, len) = UpTo(a, len)), <<>>)

Differ(e, a, len) == {i \in 1 .. len : Memory[e][i] # Memory[a][i]}

(* Mistake: the loop ends one element early.                               *)
AssertArray_Short(hex, e, a, len) ==
    IF e = 0 \/ a = 0 THEN Check(FALSE, <<>>)
    ELSE LET at == Differ(e, a, len - 1)
             i == CHOOSE i \in at : \A j \in at : i <= j
         IN  Check(at = {}, <<TextU64(i - 1), TextI64(Memory[e][i]), TextI64(Memory[a][i])>>)

(* pot_assert_int_array and pot_assert_uint8_array: NULL fails, whatever   *)
(* the length; else the first difference is shown.                         *)
AssertArray(hex, e, a, len) ==
    IF e = 0 \/ a = 0 THEN Check(FALSE, <<>>)
    ELSE LET at == Differ(e, a, len)
             i == CHOOSE i \in at : \A j \in at : i <= j
             Text(x) == IF hex THEN TextHex(x, 2) ELSE TextI64(x)
         IN  Check(at = {}, <<TextU64(i - 1), Text(Memory[e][i]), Text(Memory[a][i])>>)

-----------------------------------------------------------------------------
(* Bits: the macros convert to uint32_t.                                   *)
Masked(mask, x) ==
    LET from[k \in 0 .. Bits(4)] ==
            IF k = Bits(4) THEN 0
            ELSE 2 * from[k + 1] + Bit(Unsigned(4, mask), k) * Bit(Unsigned(4, x), k)
    IN  from[0]

AssertBits(mask, expected, actual) ==
    Check(Masked(mask, expected) = Masked(mask, actual),
          <<TextHex(Masked(mask, expected), 8), TextHex(Masked(mask, actual), 8)>>)

(* Mistake: any bit of the mask will do.                                   *)
AssertBitsHigh_Any(mask, actual) == Check(Masked(mask, actual) # 0 \/ Unsigned(4, mask) = 0, <<>>)

AssertBitsHigh(mask, actual) == Check(Masked(mask, actual) = Unsigned(4, mask), <<>>)
AssertBitsLow(mask, actual) == Check(Masked(mask, actual) = 0, <<>>)

-----------------------------------------------------------------------------
(* The calls user code makes.  Memory and arrays have at least the length  *)
(* they are compared for.                                                  *)
Readable == {x \in Pointers \X Pointers \X Lengths :
                \A p \in {x[1], x[2]} \ {0} : x[3] <= Len(Memory[p])}
Bytes == {x \in Readable :
            \A p \in {x[1], x[2]} \ {0} : \A b \in ToSet(Memory[p]) : Unsigned(1, b) = b}

Calls ==
    [fn : {"EQUAL"}, macro : EqualMacros, args : Values \X Values]
    \cup [fn : {"TRUE", "FALSE"}, args : Values \X {0}]
    \cup [fn : {"NULL", "NOT_NULL"}, args : Pointers \X {0}]
    \cup [fn : {"NOT_EQUAL", "GREATER", "LESS", "BITS_HIGH", "BITS_LOW"}, args : Values \X Values]
    \cup [fn : {"INT_WITHIN"}, args : Deltas \X Values \X Values]
    \cup [fn : {"FLOAT_WITHIN"}, args : AllFloats \X AllFloats \X AllFloats]
    \cup [fn : {"STRING"}, args : Pointers \X Pointers]
    \cup [fn : {"STRING_LEN"}, args : Pointers \X Pointers \X Lengths]
    \cup [fn : {"MEMORY", "INT_ARRAY"}, args : Readable]
    \cup [fn : {"UINT8_ARRAY"}, args : Bytes]
    \cup [fn : {"BITS"}, args : Values \X Values \X Values]

Results(c) ==
    LET x == c.args
    IN  CASE c.fn = "EQUAL"        -> {AssertEqual(c.macro, x[1], x[2])}
          [] c.fn = "TRUE"         -> {AssertTrue(x[1])}
          [] c.fn = "FALSE"        -> {AssertFalse(x[1])}
          [] c.fn = "NULL"         -> {AssertNull(x[1])}
          [] c.fn = "NOT_NULL"     -> {AssertNotNull(x[1])}
          [] c.fn = "NOT_EQUAL"    -> {AssertNotEqual(x[1], x[2])}
          [] c.fn = "GREATER"      -> {AssertGreater(x[1], x[2])}
          [] c.fn = "LESS"         -> {AssertLess(x[1], x[2])}
          [] c.fn = "INT_WITHIN"   -> AssertIntWithin(x[1], x[2], x[3])
          [] c.fn = "FLOAT_WITHIN" -> {AssertFloatWithin(x[1], x[2], x[3])}
          [] c.fn = "STRING"       -> {AssertString(x[1], x[2])}
          [] c.fn = "STRING_LEN"   -> {AssertStringLen(x[1], x[2], x[3])}
          [] c.fn = "MEMORY"       -> {AssertMemory(x[1], x[2], x[3])}
          [] c.fn = "INT_ARRAY"    -> {AssertArray(FALSE, x[1], x[2], x[3])}
          [] c.fn = "UINT8_ARRAY"  -> {AssertArray(TRUE, x[1], x[2], x[3])}
          [] c.fn = "BITS"         -> {AssertBits(x[1], x[2], x[3])}
          [] c.fn = "BITS_HIGH"    -> {AssertBitsHigh(x[1], x[2])}
          [] c.fn = "BITS_LOW"     -> {AssertBitsLow(x[1], x[2])}

VARIABLES call, result
vars == <<call, result>>

Pending == [passed |-> TRUE, shown |-> <<TextU64(0)>>]
Evaluated == result # Pending

Init == call \in Calls /\ result = Pending
Evaluate == result = Pending /\ result' \in Results(call) /\ UNCHANGED call
Spec == Init /\ [][Evaluate]_vars

-----------------------------------------------------------------------------
(* An equality assert passes exactly if its arguments are the same number  *)
(* modulo the range of its type, signed or not; every bit of a condition   *)
(* counts; orders are those of the numbers where int64_t has them.         *)
EqualityIsExact ==
    LET x == call.args
        Same(size) == (x[1] - x[2]) % Modulus(size) = 0
        Fits == x[1] \in IntRange(8) /\ x[2] \in IntRange(8)
    IN  Evaluated =>
            /\ call.fn = "EQUAL" => (result.passed
                  <=> Same(IF call.macro.size = 0 THEN 8 ELSE call.macro.size))
            /\ call.fn = "NOT_EQUAL" => (result.passed <=> ~Same(8))
            /\ call.fn \in {"TRUE", "NOT_NULL"} => (result.passed <=> x[1] # 0)
            /\ call.fn \in {"FALSE", "NULL"} => (result.passed <=> x[1] = 0)
            /\ call.fn = "GREATER" /\ Fits => (result.passed <=> x[2] > x[1])
            /\ call.fn = "LESS" /\ Fits => (result.passed <=> x[2] < x[1])

(* The number that digits denote.                                          *)
Number(base, digits) ==
    LET value[k \in 0 .. Len(digits)] ==
            IF k = 0 THEN 0 ELSE base * value[k - 1] + digits[k]
    IN  value[Len(digits)]

(* What a failure shows is what was compared: each text reads back as the  *)
(* argument converted to the type, for the least integer too, and no       *)
(* message says that a value was expected and found at the same time.      *)
TextsDenoteValues ==
    LET hex == call.fn \in {"BITS", "UINT8_ARRAY"}
                  \/ (call.fn = "EQUAL" /\ call.macro.type = "HEX")
        Base(k) == IF hex /\ ~(call.fn = "UINT8_ARRAY" /\ k = 1) THEN HexBase ELSE 10
        Value(k) == result.shown[k].sign * Number(Base(k), result.shown[k].digits)
        x == call.args
    IN  Evaluated /\ ~result.passed =>
            /\ call.fn = "EQUAL" =>
                  /\ Value(1) # Value(2)
                  /\ \A k \in {1, 2} : Value(k) = Narrow(call.macro, x[k])
            /\ call.fn \in {"NOT_EQUAL", "GREATER", "LESS"} =>
                  \E k \in {1, 2} : Value(1) = Signed(8, x[k])
            /\ call.fn = "INT_WITHIN" =>
                  <<Value(1), Value(2), Value(3)>> = <<Signed(8, x[3]), x[1], Signed(8, x[2])>>
            /\ call.fn = "BITS" => Value(1) # Value(2)
            /\ call.fn \in {"INT_ARRAY", "UINT8_ARRAY"} /\ result.shown # <<>> =>
                  LET at == Value(1) + 1
                  IN  /\ Value(2) = Memory[x[1]][at] /\ Value(3) = Memory[x[2]][at]
                      /\ Value(2) # Value(3)
                      /\ \A i \in 1 .. at - 1 : Memory[x[1]][i] = Memory[x[2]][i]

(* A value within delta is one whose distance is at most delta: for every  *)
(* pair of integers whose distance int64_t can hold, and for floats with   *)
(* infinities; NaN is within nothing, nor is an infinity of itself.        *)
WithinIsDistance ==
    LET x == call.args
        e == Signed(8, x[2])
        a == Signed(8, x[3])
    IN  Evaluated =>
            /\ call.fn = "INT_WITHIN" /\ (a - e) \in IntRange(8) /\ (e - a) \in IntRange(8) =>
                  (result.passed <=> e - x[1] <= a /\ a <= e + x[1])
            /\ call.fn = "FLOAT_WITHIN" =>
                  (result.passed <=>
                      /\ NaN \notin ToSet(x)
                      /\ ~(x[2] = x[3] /\ x[2] \in Infinities)
                      /\ \/ x[1] = Infinity
                         \/ /\ \A k \in {2, 3} : x[k] \in Floats
                            /\ x[2] - x[1] <= x[3] /\ x[3] <= x[2] + x[1])

(* Two buffers are equal if their bytes are, wherever they lie; NULL is    *)
(* equal to NULL only, and for arrays not even to that.                    *)
BuffersCompareContents ==
    LET x == call.args
        Nul == Modulus(4)
        Byte(p, i) == IF i <= Len(Memory[p]) THEN Memory[p][i] ELSE Nul
        Agree(n) == /\ x[1] # 0 /\ x[2] # 0
                    /\ \A i \in 1 .. n :
                          \/ Byte(x[1], i) = Byte(x[2], i)
                          \/ \E j \in 1 .. i - 1 : Byte(x[1], j) = Nul /\ Byte(x[2], j) = Nul
        Longest == Len(Memory[x[1]]) + Len(Memory[x[2]]) + 1
    IN  Evaluated =>
            /\ call.fn = "STRING" =>
                  (result.passed <=> x[1] = x[2] \/ (0 \notin {x[1], x[2]} /\ Agree(Longest)))
            /\ call.fn = "STRING_LEN" => (result.passed <=> x[1] = x[2] \/ Agree(x[3]))
            /\ call.fn = "MEMORY" => (result.passed <=> x[3] = 0 \/ x[1] = x[2] \/ Agree(x[3]))
            /\ call.fn \in {"INT_ARRAY", "UINT8_ARRAY"} => (result.passed <=> Agree(x[3]))

(* The three bit asserts agree with each other, on the low 32 bits: high   *)
(* is BITS with all bits of the mask expected, low is BITS with none.      *)
BitMasksAgree ==
    LET x == call.args
    IN  Evaluated =>
            /\ call.fn = "BITS" =>
                  (result.passed <=> \A k \in 0 .. Bits(4) - 1 :
                      Bit(x[1], k) = 1 => Bit(x[2], k) = Bit(x[3], k))
            /\ call.fn = "BITS_HIGH" => (result.passed <=> AssertBits(x[1], x[1], x[2]).passed)
            /\ call.fn = "BITS_LOW" => (result.passed <=> AssertBits(x[1], 0, x[2]).passed)

=============================================================================
