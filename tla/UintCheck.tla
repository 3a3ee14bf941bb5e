------------------------------ MODULE UintCheck ------------------------------
(***************************************************************************)
(* The algorithms of Uint256 against the arithmetic of the integers.  What *)
(* adds, multiplies and divides is tried with words of two bits, for every *)
(* first operand, and every divisor; other operands have words next to     *)
(* where words overflow.  What takes a number as a count of bits, of bytes *)
(* or as text needs words that can hold such counts: those have six bits   *)
(* and two bytes, and are tried with the numbers of WideNumbers.           *)
(***************************************************************************)
EXTENDS Integers, Sequences

CONSTANTS Moduli,       \* the factors and summands of the modular operations
          WideNumbers, WideCounts

VARIABLE operands       \* the width of the words and then a number
uintVars == operands

N == INSTANCE Uint256 WITH WordBits <- 2, WordBytes <- 2
W == INSTANCE Uint256 WITH WordBits <- 6, WordBytes <- 2

Narrow == [0 .. 3 -> 0 .. 3]
Edges == [0 .. 3 -> {0, 1, 3}]      \* numbers of words next to where they overflow

UintInit == operands \in {<<2>>, <<6>>}

\* The first operand; the properties go through the others.
PickOperand ==
    /\ Len(operands) = 1
    /\ \E x \in IF operands = <<2>> THEN Narrow ELSE WideNumbers : operands' = Append(operands, x)

UintNext == PickOperand

-----------------------------------------------------------------------------
ValueOf(x, base) == x[0] + base * (x[1] + base * (x[2] + base * x[3]))
V(x) == ValueOf(x, 4)
V8(x) == V(x) + 256 * V([i \in 0 .. 3 |-> x[i + 4]])
Signed(v) == IF v >= 128 THEN v - 256 ELSE v
\* The quotient of integers rounded to zero
Quotient(a, b) ==
    LET abs(n) == IF n < 0 THEN -n ELSE n
        q == abs(a) \div abs(b)
    IN  IF (a < 0) # (b < 0) THEN -q ELSE q

Has(width) == Len(operands) = 2 /\ operands[1] = width

\* Sums, differences, products and comparisons are those of the integers modulo 2^256, and
\* what the compiler computes from its own versions of them is the same.
UintArithmetic ==
    Has(2) =>
        \A x \in {operands[2]}, y \in Edges :
            /\ V(N!Add(x, y)) = (V(x) + V(y)) % 256
            /\ N!addc(x, y).carry = (V(x) + V(y)) \div 256
            /\ V(N!Sub(x, y)) = (V(x) - V(y)) % 256
            /\ N!Less(x, y) <=> V(x) < V(y)
            /\ N!slt(x, y) <=> Signed(V(x)) < Signed(V(y))
            /\ V(N!Mul(x, y)) = (V(x) * V(y)) % 256
            /\ V8(N!truncating_mul_runtime(8, x, y)) = V(x) * V(y)
            /\ \A R \in {4, 8} : N!truncating_mul_constexpr(R, x, y) = N!truncating_mul_runtime(R, x, y)
            /\ N!Ripple(N!addc_constexpr, x, y) = N!addc(x, y)
            /\ N!Ripple(N!subb_constexpr, x, y) = N!subb(x, y)

\* Quotients and remainders are those of the integers, rounded to zero when they are signed.
UintDivision ==
    Has(2) =>
        \A x \in {operands[2]}, y \in Narrow \ {N!Zero} :
        \A u \in {N!udivrem(x, y)}, s \in {N!sdivrem(x, y)}, q \in {Quotient(Signed(V(x)), Signed(V(y)))} :
            /\ V(u.quot) = V(x) \div V(y) /\ V(u.rem) = V(x) % V(y)
            /\ V(s.quot) = q % 256
            /\ V(s.rem) = (Signed(V(x)) - q * Signed(V(y))) % 256

\* addmod and mulmod do not lose what overflows 256 bits, for every modulus.
UintModular ==
    Has(2) /\ operands[2] \in Moduli =>
        \A x \in {operands[2]}, y \in Moduli, mod \in Edges \ {N!Zero} :
            /\ V(N!addmod(x, y, mod)) = (V(x) + V(y)) % V(mod)
            /\ V(N!mulmod(x, y, mod)) = (V(x) * V(y)) % V(mod)

-----------------------------------------------------------------------------
Bits == 24
Wide(x) == ValueOf(x, 64)
WSigned(v) == IF v >= 2 ^ 23 THEN v - 2 ^ 24 ELSE v
Least(a, b) == IF a < b THEN a ELSE b
LastBits(v, n) == v % 2 ^ Least(n, Bits)

\* Shifts by any number, the ones that do not fit a word too, arithmetic shifts and the
\* extension of a sign divide, multiply and keep the sign as integers would; powers of any
\* base and exponent follow from one another.
UintShifts ==
    Has(6) =>
        \A x \in {operands[2]}, y \in WideCounts :
        LET n == Least(Wide(y), Bits)
            bits == Least((Wide(y) + 1) * 3, Bits)
            extended == LastBits(Wide(x), bits)
            next == W!Add(y, W!ToNumber(1))
        IN  /\ Wide(W!ShiftLeft(x, y)) = LastBits(Wide(x), Bits - n) * 2 ^ n
            /\ Wide(W!ShiftRight(x, y, 0)) = Wide(x) \div 2 ^ n
            /\ Wide(W!sar(y, x)) = (WSigned(Wide(x)) \div 2 ^ n) % 2 ^ Bits
            /\ Wide(W!signextend(y, x)) = IF extended >= 2 ^ (bits - 1)
                                          THEN extended + 2 ^ Bits - 2 ^ bits ELSE extended
            /\ Wide(W!byte_at(y, x)) = IF Wide(y) >= 8 THEN 0 ELSE (Wide(x) \div 8 ^ (7 - Wide(y))) % 8
            /\ next # W!Zero => W!exp(x, next) = W!Mul(W!exp(x, y), x)
            /\ next = W!ToNumber(1) => W!exp(x, y) = W!ToNumber(1)

\* A number is what its bytes in either order make of it, and its counts of bits and bytes are
\* what they say.
UintBytes ==
    Has(6) =>
        LET x == operands[2]
            v == Wide(x)
            be == W!store_be(x)
            sig == W!count_significant_bytes(x)
            width == W!bit_width(x)
            zeros == W!countr_zero(x)
        IN  /\ W!load_be(be) = x /\ W!load_le(W!store_le(x)) = x
            /\ \A k \in 1 .. 8 : be[k] = (v \div 8 ^ (8 - k)) % 8
            /\ sig \in 0 .. 8 /\ v < 8 ^ sig /\ (sig > 0 => v >= 8 ^ (sig - 1))
            /\ \A n \in 0 .. sig :
                  Wide(W!from_bytes(sig, n, SubSeq(be, 9 - sig, 8))) = v - (v % 8 ^ (sig - n))
            /\ v < 2 ^ width /\ (v > 0 => v >= 2 ^ (width - 1))
            /\ v > 0 => v % 2 ^ zeros = 0 /\ v % 2 ^ (zeros + 1) # 0

\* What is printed is read again as the same number, and digits are refused if, and only if,
\* they say more than 256 bits.
UintText ==
    Has(6) =>
        \A x \in {operands[2]} : \A decimal \in {W!to_string(x, 10)}, hex \in {W!to_string(x, 16)} :
            /\ W!from_hex_string(hex) = x
            /\ \A d \in 0 .. 9 : \A read \in {W!from_string(Append(decimal, d))} :
                  IF Wide(x) * 10 + d >= 2 ^ Bits THEN read = W!OutOfRange
                  ELSE read # W!OutOfRange /\ Wide(read) = Wide(x) * 10 + d

\* What the operators compute is what the integers modulo 2^256 have.
UintComputes == UintArithmetic /\ UintDivision /\ UintModular

\* Bits, bytes and texts stand for the number, and counts and texts out of range are told.
UintConverts == UintShifts /\ UintBytes /\ UintText

\* The 256 bit numbers behave as numbers: in every operation and every conversion.
UintAgrees == UintComputes /\ UintConverts
=============================================================================
