------------------------------- MODULE Uint256 -------------------------------
(***************************************************************************)
(* The 256 bit integers: four words, and the algorithms over the words     *)
(* that add, multiply, divide, shift, and convert them.  The width of a    *)
(* word and the number of its bytes are parameters (64 and 8 in the code), *)
(* so that every pair of numbers of narrow words can be tried.  A number   *)
(* of n words is a function with the domain 0 .. n - 1, the least          *)
(* significant word first.                                                 *)
(***************************************************************************)
EXTENDS Integers, Sequences, FiniteSets

CONSTANTS WordBits, WordBytes

NumWords == 4
NumBits == NumWords * WordBits
NumBytes == NumWords * WordBytes
ByteBits == WordBits \div WordBytes
Base == 2 ^ WordBits
Sign(word) == word >= Base \div 2

ToNumber(word) == [i \in 0 .. NumWords - 1 |-> IF i = 0 THEN word ELSE 0]
Zero == ToNumber(0)
LastOf(x) == Cardinality(DOMAIN x) - 1
Bool(b) == IF b THEN 1 ELSE 0

-----------------------------------------------------------------------------
(***************************************************************************)
(* Addition, subtraction, comparison                                       *)
(***************************************************************************)
addc_constexpr(lhs, rhs, carry_in) ==
    LET sum == (lhs + rhs) % Base
        sum_carry == (sum + carry_in) % Base
    IN  [value |-> sum_carry, carry |-> Bool(sum < lhs \/ sum_carry < sum)]

addc_intrinsic(lhs, rhs, carry_in) ==
    [value |-> (lhs + rhs + carry_in) % Base, carry |-> (lhs + rhs + carry_in) \div Base]

subb_constexpr(lhs, rhs, borrow_in) ==
    LET sub == (lhs - rhs) % Base
    IN  [value |-> (sub - borrow_in) % Base, carry |-> Bool(rhs > lhs \/ borrow_in > sub)]

subb_intrinsic(lhs, rhs, borrow_in) ==
    [value |-> (lhs - rhs - borrow_in) % Base, carry |-> Bool(lhs - rhs - borrow_in < 0)]

\* From the least significant word to the most significant one.
Ripple(op(_, _, _), x, y) ==
    LET r[i \in DOMAIN x] == op(x[i], y[i], IF i = 0 THEN 0 ELSE r[i - 1].carry)
    IN  [value |-> [i \in DOMAIN x |-> r[i].value], carry |-> r[LastOf(x)].carry]

addc(x, y) == Ripple(addc_intrinsic, x, y)
subb(x, y) == Ripple(subb_intrinsic, x, y)
Add(x, y) == addc(x, y).value
Sub(x, y) == subb(x, y).value
Neg(x) == Sub(Zero, x)
Less(x, y) == subb(x, y).carry = 1
Truth(x) == \E i \in DOMAIN x : x[i] # 0

slt(x, y) ==
    LET x_neg == Sign(x[NumWords - 1])
        y_neg == Sign(y[NumWords - 1])
    IN  (x_neg = y_neg /\ Less(x, y)) \/ (x_neg /\ ~y_neg)

-----------------------------------------------------------------------------
(***************************************************************************)
(* Shifts                                                                  *)
(***************************************************************************)
shl(word, shift) == (word * 2 ^ shift) % Base
shr(word, shift) == word \div 2 ^ shift
shld(high, low, shift) == shl(high, shift) + shr(shr(low, 1), WordBits - 1 - shift)
shrd(high, low, shift) == shr(low, shift) + shl(shl(high, 1), WordBits - 1 - shift)

ShiftLeftBy(x, shift) ==
    LET words == shift \div WordBits
        bits == shift % WordBits
    IN  IF shift >= NumBits THEN Zero
        ELSE [i \in DOMAIN x |->
                 CASE i < words -> 0
                   [] i = words -> shl(x[0], bits)
                   [] i > words -> shld(x[i - words], x[i - words - 1], bits)]

ShiftLeft(x, shift) ==
    IF \E i \in 1 .. NumWords - 1 : shift[i] # 0 THEN Zero ELSE ShiftLeftBy(x, shift[0])

\* Mutant: an arithmetic shift within the upper word is not filled.
ShiftRightUnfilled(x, shift, fill) ==
    LET words == shift[0] \div WordBits
        bits == shift[0] % WordBits
        last == NumWords - 1
    IN  IF (\E i \in 1 .. last : shift[i] # 0) \/ shift[0] >= NumBits
        THEN [i \in DOMAIN x |-> fill]
        ELSE [i \in DOMAIN x |->
                 CASE i + words < last -> shrd(x[i + words + 1], x[i + words], bits)
                   [] i + words = last -> shr(x[last], bits)
                   [] i + words > last -> fill]

\* shift_right, with the fill of a logical (0) or an arithmetic shift
ShiftRight(x, shift, fill) ==
    LET words == shift[0] \div WordBits
        bits == shift[0] % WordBits
        last == NumWords - 1
    IN  IF (\E i \in 1 .. last : shift[i] # 0) \/ shift[0] >= NumBits
        THEN [i \in DOMAIN x |-> fill]
        ELSE [i \in DOMAIN x |->
                 CASE i + words < last -> shrd(x[i + words + 1], x[i + words], bits)
                   [] i + words = last -> shrd(fill, x[last], bits)
                   [] i + words > last -> fill]

sar(shift, x) == ShiftRight(x, shift, IF Sign(x[NumWords - 1]) THEN Base - 1 ELSE 0)

-----------------------------------------------------------------------------
(***************************************************************************)
(* Multiplication: x of M words times y of N words, the lowest R words     *)
(***************************************************************************)
mulx(x, y) == [hi |-> (x * y) \div Base, lo |-> (x * y) % Base]
\* adc_2 and adc_3: the words of a sum of two numbers of two or three words
SumWord(sum, i) == (sum \div Base ^ i) % Base

mul_line(R, x, y) ==
    LET M == LastOf(x) + 1
        p == mulx(y, x[0])
        \* mul_line_recur: [result, carry] after word i
        line[i \in 0 .. M - 1] ==
            IF i = 0 THEN [result |-> [k \in 0 .. R - 1 |-> IF k = 0 THEN p.lo ELSE 0], carry |-> p.hi]
            ELSE LET a == line[i - 1]
                     sum == x[i] * y + a.carry
                 IN  IF i >= R THEN a
                     ELSE [result |-> [a.result EXCEPT ![i] = SumWord(sum, 0)], carry |-> SumWord(sum, 1)]
        all == line[M - 1]
    IN  IF M < R THEN [all.result EXCEPT ![M] = all.carry] ELSE all.result

\* Mutant: the carry into the high half is lost.
AddToHalf(hi, lo, r, c_hi, c_lo) ==
    LET sum == r + c_lo + (lo + c_hi) * Base
    IN  [r |-> SumWord(sum, 0), c_lo |-> SumWord(sum, 1), c_hi |-> hi]

\* adc_3 in mul_add_line_recur
AddToLine(hi, lo, r, c_hi, c_lo) ==
    LET sum == r + c_lo + (lo + c_hi) * Base + hi * Base * Base
    IN  [r |-> SumWord(sum, 0), c_lo |-> SumWord(sum, 1), c_hi |-> SumWord(sum, 2)]

\* result[i ..] += y_i * x: the carry is two words wide, and a step behind.
mul_add_line(i, R, x, y_i, result) ==
    LET M == LastOf(x) + 1
        p == mulx(x[0], y_i)
        \* mul_add_line_recur: [result, c_hi, c_lo] before word j
        line[j \in 0 .. M - 1] ==
            IF j = 0 THEN [result |-> result, c_hi |-> IF i + 1 < R THEN p.hi ELSE 0, c_lo |-> p.lo]
            ELSE LET a == line[j - 1]
                     at == i + j - 1
                     q == mulx(x[j], y_i)
                     sum == AddToLine(q.hi, q.lo, a.result[at], a.c_hi, a.c_lo)
                 IN  IF at >= R THEN a
                     ELSE [result |-> [a.result EXCEPT ![at] = sum.r],
                           c_hi |-> IF at + 2 < R THEN sum.c_hi ELSE a.c_hi,
                           c_lo |-> IF at + 1 < R THEN sum.c_lo ELSE a.c_lo]
        all == line[M - 1]
        end == all.c_lo + all.c_hi * Base + all.result[i + M - 1]
    IN  IF i + M < R
        THEN [all.result EXCEPT ![i + M] = SumWord(end, 1), ![i + M - 1] = SumWord(end, 0)]
        ELSE IF i + M = R THEN [all.result EXCEPT ![i + M - 1] = (@ + all.c_lo) % Base]
        ELSE all.result

truncating_mul_runtime(R, x, y) ==
    LET lines[i \in DOMAIN y] ==
            IF i = 0 THEN mul_line(R, x, y[0]) ELSE mul_add_line(i, R, x, y[i], lines[i - 1])
    IN  lines[LastOf(y)]

\* What is computed at compile time: one carry for a line.
truncating_mul_constexpr(R, x, y) ==
    LET M == LastOf(x) + 1
        Word(a, i, j) ==
            LET p == mulx(x[i], y[j])
                s0 == addc_constexpr(p.lo, a.result[i + j], 0)
                s1 == addc_constexpr(s0.value, a.carry, 0)
                s2 == addc_constexpr(p.hi, s0.carry, s1.carry)
            IN  [result |-> [a.result EXCEPT ![i + j] = s1.value], carry |-> s2.value]
        Line(result, j) ==
            LET words[i \in 0 .. M] ==
                    IF i = 0 THEN [result |-> result, carry |-> 0]
                    ELSE LET a == words[i - 1] IN IF i - 1 + j < R THEN Word(a, i - 1, j) ELSE a
                all == words[M]
            IN  IF j + M < R THEN [all.result EXCEPT ![j + M] = all.carry] ELSE all.result
        lines[j \in 0 .. LastOf(y) + 1] ==
            IF j = 0 THEN [i \in 0 .. R - 1 |-> 0] ELSE Line(lines[j - 1], j - 1)
    IN  lines[LastOf(y) + 1]

Mul(x, y) == truncating_mul_runtime(NumWords, x, y)

-----------------------------------------------------------------------------
(***************************************************************************)
(* Division                                                                *)
(***************************************************************************)
count_significant_words(x) ==
    LET significant == {i \in DOMAIN x : x[i] # 0}
    IN  IF significant = {} THEN 0
        ELSE 1 + CHOOSE i \in significant : \A j \in significant : j <= i

CountlZero(word) == WordBits - Len(SelectSeq([i \in 1 .. WordBits |-> i], LAMBDA i : word >= 2 ^ (i - 1)))

\* div: the quotient of two words by one, which is greater than the upper one
div(u_hi, u_lo, v) == [quot |-> (u_hi * Base + u_lo) \div v, rem |-> (u_hi * Base + u_lo) % v]

\* m words by one
long_div(m, u, v) ==
    LET r[i \in 0 .. m - 1] == div(IF i = m - 1 THEN 0 ELSE r[i + 1].rem, u[i], v)
    IN  [quot |-> [i \in DOMAIN u |-> IF i < m THEN r[i].quot ELSE 0], rem |-> ToNumber(r[0].rem)]

\* q_hat, with at most one of the two adjustments of Knuth's algorithm
Estimate(i, u, n, v) ==
    LET d == div(u[i + n], u[i + n - 1], v[n - 1])
    IN  IF u[i + n] = v[n - 1] THEN Base - 1
        ELSE IF d.quot > 0 /\ d.quot * v[n - 2] > d.rem * Base + u[i + n - 2] THEN d.quot - 1
        ELSE d.quot

\* u[i .. i + n] -= q_hat * v, and whether that was too much
SubtractProduct(i, u, n, v, q_hat) ==
    LET words[j \in 0 .. n] ==
            IF j = 0 THEN [u |-> u, k |-> 0]
            ELSE LET a == words[j - 1]
                     prod == q_hat * v[j - 1]
                     t == a.u[i + j - 1] - a.k - (prod % Base)
                 IN  [u |-> [a.u EXCEPT ![i + j - 1] = t % Base], k |-> (prod \div Base) - (t \div Base)]
        all == words[n]
        t == u[i + n] - all.k
    IN  [u |-> [all.u EXCEPT ![i + n] = t % Base], negative |-> t < 0]

\* Mutant: a remainder that has become negative stays so.
NoAddBack(i, u, n, v) == u

\* u[i .. i + n] += v
AddBack(i, u, n, v) ==
    LET words[j \in 0 .. n] ==
            IF j = 0 THEN [u |-> u, k |-> 0]
            ELSE LET a == words[j - 1]
                     t == a.u[i + j - 1] + v[j - 1] + a.k
                 IN  [u |-> [a.u EXCEPT ![i + j - 1] = t % Base], k |-> t \div Base]
        all == words[n]
    IN  [all.u EXCEPT ![i + n] = (@ + all.k) % Base]

\* The words of the quotient from the most significant one: [u, quot] after word i
knuth_div(m, u_norm, n, v, none) ==
    LET rounds[i \in 0 .. m - n + 1] ==
            IF i = m - n + 1 THEN [u |-> u_norm, quot |-> none]
            ELSE LET a == rounds[i + 1]
                     q_hat == Estimate(i, a.u, n, v)
                     s == SubtractProduct(i, a.u, n, v, q_hat)
                 IN  IF q_hat = 0 THEN a
                     ELSE IF s.negative
                     THEN [u |-> AddBack(i, s.u, n, v), quot |-> [a.quot EXCEPT ![i] = q_hat - 1]]
                     ELSE [u |-> s.u, quot |-> [a.quot EXCEPT ![i] = q_hat]]
    IN  rounds[0]

\* u of M words by v, which is not zero and has no more words than u
udivrem(u, v) ==
    LET M == LastOf(u) + 1
        N == LastOf(v) + 1
        m == count_significant_words(u)
        n == count_significant_words(v)
        none == [i \in DOMAIN u |-> 0]
        shift == CountlZero(v[n - 1])
        norm(x, i) == IF i = 0 THEN shl(x[0], shift) ELSE shld(x[i], x[i - 1], shift)
        u_norm == [i \in 0 .. M |-> IF i = M THEN shr(shr(u[M - 1], 1), WordBits - 1 - shift)
                                    ELSE norm(u, i)]
        d == knuth_div(m, u_norm, n, [i \in DOMAIN v |-> norm(v, i)], none)
    IN  IF m < n THEN [quot |-> none, rem |-> [i \in DOMAIN v |-> u[i]]]
        ELSE IF n = 1 THEN long_div(m, u, v[0])
        ELSE [quot |-> d.quot,
              rem |-> [i \in DOMAIN v |-> IF i = N - 1 THEN shr(d.u[i], shift)
                                          ELSE shrd(d.u[i + 1], d.u[i], shift)]]

\* Mutant: the sum of the fast path is taken as it is when it overflows.
AddmodFast(x, y, mod) ==
    LET norm(a) == IF Less(a, mod) THEN a ELSE Sub(a, mod)
        sum == addc(norm(x), norm(y))
    IN  IF Less(sum.value, mod) THEN sum.value ELSE Sub(sum.value, mod)

\* The fast path of addmod: x and y are less than twice the modulus.
SumReduced(x, y, mod) ==
    LET norm(a) == IF Less(a, mod) THEN a ELSE Sub(a, mod)
        sum == addc(norm(x), norm(y))
    IN  IF sum.carry = 1 \/ ~Less(sum.value, mod) THEN Sub(sum.value, mod) ELSE sum.value

addmod(x, y, mod) ==
    LET last == NumWords - 1
        sum == addc(x, y)
        wide == [i \in 0 .. NumWords |-> IF i = NumWords THEN sum.carry ELSE sum.value[i]]
    IN  IF mod[last] # 0 /\ x[last] <= mod[last] /\ y[last] <= mod[last]
        THEN SumReduced(x, y, mod)
        ELSE udivrem(wide, mod).rem

mulmod(u, v, mod) == udivrem(truncating_mul_runtime(2 * NumWords, u, v), mod).rem

sdivrem(x, y) ==
    LET x_neg == Sign(x[NumWords - 1])
        y_neg == Sign(y[NumWords - 1])
        r == udivrem(IF x_neg THEN Neg(x) ELSE x, IF y_neg THEN Neg(y) ELSE y)
    IN  [quot |-> IF x_neg # y_neg THEN Neg(r.quot) ELSE r.quot,
         rem |-> IF x_neg THEN Neg(r.rem) ELSE r.rem]

\* The significant bits of the exponent, the least significant one first: [result, base]
exp(base, exponent) ==
    LET sig_words == count_significant_words(exponent)
        sig_bits == sig_words * WordBits - CountlZero(exponent[sig_words - 1])
        Odd(b) == shr(exponent[b \div WordBits], b % WordBits) % 2 = 1
        power[b \in 0 .. sig_bits] ==
            IF b = 0 THEN [result |-> ToNumber(1), base |-> base]
            ELSE LET a == power[b - 1]
                 IN  [result |-> IF Odd(b - 1) THEN Mul(a.result, a.base) ELSE a.result,
                      base |-> Mul(a.base, a.base)]
    IN  IF base = ToNumber(2) THEN ShiftLeft(ToNumber(1), exponent)
        ELSE IF sig_words = 0 THEN ToNumber(1)
        ELSE power[sig_bits].result

-----------------------------------------------------------------------------
(***************************************************************************)
(* Bits, bytes and text                                                    *)
(***************************************************************************)
ByteOf(word, k) == shr(word, k * ByteBits) % 2 ^ ByteBits
\* A word of bytes, the most significant one first
WordOf(Byte(_)) ==
    LET w[k \in 0 .. WordBytes] == IF k = 0 THEN 0 ELSE w[k - 1] * 2 ^ ByteBits + Byte(k - 1)
    IN  w[WordBytes]

byteswap(x) == [i \in DOMAIN x |-> WordOf(LAMBDA k : ByteOf(x[NumWords - 1 - i], k))]

\* load_le_unsafe: bytes is a sequence
load_le(bytes) ==
    [i \in 0 .. NumWords - 1 |-> WordOf(LAMBDA k : bytes[(i + 1) * WordBytes - k])]

load_be(bytes) == byteswap(load_le(bytes))
store_le(x) == [b \in 1 .. NumBytes |-> ByteOf(x[(b - 1) \div WordBytes], (b - 1) % WordBytes)]
store_be(x) == store_le(byteswap(x))

\* Mutant: the bytes that are missing are taken to be the leading ones.
BytesToTheRight(n, remaining, src) ==
    IF n = 0 THEN Zero
    ELSE load_be([b \in 1 .. NumBytes |->
                     LET k == b - (NumBytes - remaining)
                     IN  IF k >= 1 /\ k <= remaining THEN src[k] ELSE 0])

\* n bytes, of which remaining are there
from_bytes(n, remaining, src) ==
    IF n = 0 THEN Zero
    ELSE load_be([b \in 1 .. NumBytes |->
                     LET k == b - (NumBytes - n)
                     IN  IF k >= 1 /\ k <= remaining THEN src[k] ELSE 0])

signextend(index, x) ==
    IF ~Less(index, ToNumber(NumBytes - 1)) THEN x
    ELSE LET w == index[0] \div WordBytes
             bit == (index[0] % WordBytes) * ByteBits
             byte == ByteOf(x[w], index[0] % WordBytes)
             signed == IF byte >= 2 ^ (ByteBits - 1) THEN byte - 2 ^ ByteBits ELSE byte
         IN  [j \in DOMAIN x |->
                 CASE j < w -> x[j]
                   [] j = w -> (x[j] % 2 ^ bit) + ((signed * 2 ^ bit) % Base)
                   [] j > w -> IF signed < 0 THEN Base - 1 ELSE 0]

\* byte: counted from the most significant one
byte_at(index, x) ==
    IF ~Less(index, ToNumber(NumBytes)) THEN Zero
    ELSE LET k == NumBytes - 1 - index[0]
         IN  ToNumber(ByteOf(x[k \div WordBytes], k % WordBytes))

CountrZero(word) ==
    Len(SelectSeq([i \in 1 .. WordBits |-> i], LAMBDA i : word % 2 ^ i = 0))

\* Up to the first word that is not zero
countr_zero(x) ==
    LET total[i \in 0 .. NumWords] ==
            IF i = NumWords THEN 0
            ELSE IF CountrZero(x[i]) < WordBits THEN CountrZero(x[i])
            ELSE WordBits + total[i + 1]
    IN  total[0]

countl_zero(x) ==
    LET cnt[i \in -1 .. NumWords - 1] ==
            IF i = -1 THEN 0
            ELSE IF CountlZero(x[i]) < WordBits THEN CountlZero(x[i])
            ELSE WordBits + cnt[i - 1]
    IN  cnt[NumWords - 1]

bit_width(x) == NumBits - countl_zero(x)

count_significant_bytes(x) ==
    LET words == count_significant_words(x)
    IN  IF words = 0 THEN 0
        ELSE (WordBits - CountlZero(x[words - 1]) + ByteBits - 1) \div ByteBits
             + (words - 1) * WordBytes

\* The digits from the least significant one, until there is no quotient; then reversed
to_string(x, base) ==
    LET d[k \in 0 .. NumBits] ==
            IF k = 0 THEN [num |-> x, digits |-> <<>>, more |-> TRUE]
            ELSE LET a == d[k - 1]
                     r == udivrem(a.num, ToNumber(base))
                 IN  IF ~a.more THEN a
                     ELSE [num |-> r.quot, digits |-> <<r.rem[0]>> \o a.digits, more |-> Truth(r.quot)]
    IN  d[NumBits].digits

OutOfRange == [out_of_range |-> TRUE]

MaxNumber == [i \in 0 .. NumWords - 1 |-> Base - 1]
MAX_MULTIPLIABLE_BY_10 == udivrem(MaxNumber, ToNumber(10)).quot

\* Mutant: whether the digit still fits is not seen.
DecimalWraps(result, digit) ==
    IF Less(MAX_MULTIPLIABLE_BY_10, result) THEN OutOfRange
    ELSE Add(Mul(result, ToNumber(10)), ToNumber(digit))

\* from_string: one more decimal digit
FromDecimal(result, digit) ==
    LET next == Add(Mul(result, ToNumber(10)), ToNumber(digit))
    IN  IF Less(MAX_MULTIPLIABLE_BY_10, result) \/ Less(next, ToNumber(digit)) THEN OutOfRange
        ELSE next

from_string(digits) ==
    LET result[k \in 0 .. Len(digits)] ==
            IF k = 0 THEN Zero
            ELSE LET r == result[k - 1] IN IF r = OutOfRange THEN r ELSE FromDecimal(r, digits[k])
    IN  result[Len(digits)]

\* after 0x: the digits count, leading zeros too
from_hex_string(digits) ==
    LET result[k \in 0 .. Len(digits)] ==
            IF k = 0 THEN Zero
            ELSE LET r == ShiftLeftBy(result[k - 1], 4) IN [r EXCEPT ![0] = @ + digits[k]]
    IN  IF Len(digits) > NumBits \div 4 THEN OutOfRange ELSE result[Len(digits)]
=============================================================================
