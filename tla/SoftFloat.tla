----------------------------- MODULE SoftFloat ------------------------------
(***************************************************************************)
(* Binary floating point as the F and D instructions see it (exec_rv32fd   *)
(* in cpu.rs): bit patterns of a word for a single and of two words for a  *)
(* double, the boxing of singles in double registers (read_f32, write_f32, *)
(* read_f64, write_f64), and the operations of Rust's f32 and f64, which   *)
(* round to nearest even.  A format is [exp, man]: the bits of its         *)
(* exponent and of its mantissa; one sign bit comes first.                 *)
(*                                                                         *)
(* A finite number is a whole multiple of the least positive one of its    *)
(* format; `Units` is that multiple.                                       *)
(***************************************************************************)
EXTENDS Words

CONSTANTS
  Single,   \* [exp |-> 8, man |-> 23] in the code
  Double    \* [exp |-> 11, man |-> 52] in the code

\* The exponents differ, and the upper word of a double holds its sign, its
\* exponent and the first bit of its mantissa, so that a boxed single is a
\* quiet NaN.
ASSUME FormatAssumption ==
  /\ {Single.exp, Single.man, Double.exp, Double.man} \subseteq Nat \ {0}
  /\ 1 + Single.exp + Single.man = Width
  /\ 1 + Double.exp + Double.man = 2 * Width
  /\ Single.exp < Double.exp /\ Double.exp + 2 <= Width

SignBit(f) == 2 ^ (f.exp + f.man)
InfMag(f)  == (2 ^ f.exp - 1) * 2 ^ f.man

\* The canonical NaN: quiet, with an empty payload.
NaN(f) == InfMag(f) + 2 ^ (f.man - 1)

is_negative(f, p) == p >= SignBit(f)
magnitude(f, p)   == p % SignBit(f)
is_nan(f, p)      == magnitude(f, p) > InfMag(f)
is_infinite(f, p) == magnitude(f, p) = InfMag(f)
is_zero(f, p)     == magnitude(f, p) = 0
is_quiet(f, p)    == bit(p, f.man - 1) = 1

negate(f, p) == (p + SignBit(f)) % (2 * SignBit(f))

\* The sign bit and the magnitude put together.
WithSign(f, neg, mag) == IF neg THEN SignBit(f) + mag ELSE mag

-----------------------------------------------------------------------------
(* Values.                                                                 *)

\* Significand and power of two.
Exponent(f, p) == magnitude(f, p) \div 2 ^ f.man
Sig(f, p)      == (magnitude(f, p) % 2 ^ f.man)
                  + (IF Exponent(f, p) = 0 THEN 0 ELSE 2 ^ f.man)
Power(f, p)    == greatest(Exponent(f, p) - 1, 0)

Units(f, p) == Sig(f, p) * 2 ^ Power(f, p)

Value(f, p) == IF is_negative(f, p) THEN -Units(f, p) ELSE Units(f, p)

\* The number one, in units.
OnePower(f) == 2 ^ (f.exp - 1) - 2 + f.man
One(f)      == 2 ^ OnePower(f)

\* The comparison of numbers is that of these integers; zeros are equal.
Rank(f, p) == IF is_negative(f, p) THEN -magnitude(f, p) ELSE magnitude(f, p)

\* The magnitude nearest to n / d units, ties to even; past the largest it is
\* infinite.  s halvings bring the quotient to the size of a mantissa, and
\* magnitudes are in the order of their values.
NearestMag(f, n, d) ==
  LET s == CHOOSE s \in 0 .. 30 :
             /\ n \div 2 ^ s < d * 2 ^ (f.man + 1)
             /\ s = 0 \/ n \div 2 ^ (s - 1) >= d * 2 ^ (f.man + 1)
      q == n \div (d * 2 ^ s)
      r == n % (d * 2 ^ s)
      up == 2 * r > d * 2 ^ s \/ (2 * r = d * 2 ^ s /\ q % 2 = 1)
  IN  least(s * 2 ^ f.man + q + boolean(up), InfMag(f))

Nearest(f, neg, n, d) == WithSign(f, neg, NearestMag(f, n, d))

\* The number nearest to 2^k * n / d units.
Scaled(f, neg, n, d, k) ==
  Nearest(f, neg, n * 2 ^ greatest(k, 0), d * 2 ^ greatest(-k, 0))

-----------------------------------------------------------------------------
(* The operations of f32 and f64.                                          *)

add(f, a, b) ==
  LET v == Value(f, a) + Value(f, b)
  IN  CASE is_nan(f, a) \/ is_nan(f, b) -> NaN(f)
        [] is_infinite(f, a) /\ is_infinite(f, b) /\ a # b -> NaN(f)
        [] is_infinite(f, a) -> a
        [] is_infinite(f, b) -> b
        [] v = 0 -> WithSign(f, is_negative(f, a) /\ is_negative(f, b), 0)
        [] OTHER -> Nearest(f, v < 0, Abs(v), 1)

sub(f, a, b) == IF is_nan(f, b) THEN NaN(f) ELSE add(f, a, negate(f, b))

mul(f, a, b) ==
  LET neg == is_negative(f, a) # is_negative(f, b)
      inf == is_infinite(f, a) \/ is_infinite(f, b)
  IN  CASE is_nan(f, a) \/ is_nan(f, b) -> NaN(f)
        [] inf /\ (is_zero(f, a) \/ is_zero(f, b)) -> NaN(f)
        [] inf -> WithSign(f, neg, InfMag(f))
        [] OTHER -> Scaled(f, neg, Sig(f, a) * Sig(f, b), 1,
                           Power(f, a) + Power(f, b) - OnePower(f))

div(f, a, b) ==
  LET neg == is_negative(f, a) # is_negative(f, b)
  IN  CASE is_nan(f, a) \/ is_nan(f, b) -> NaN(f)
        [] is_infinite(f, a) /\ is_infinite(f, b) -> NaN(f)
        [] is_zero(f, a) /\ is_zero(f, b) -> NaN(f)
        [] is_infinite(f, a) \/ is_zero(f, b) -> WithSign(f, neg, InfMag(f))
        [] is_infinite(f, b) -> WithSign(f, neg, 0)
        [] OTHER -> Scaled(f, neg, Sig(f, a), Sig(f, b),
                           Power(f, a) - Power(f, b) + OnePower(f))

\* No number lies half way between two others and has its root there.
sqrt(f, a) ==
  LET x == Units(f, a) * One(f)
  IN  CASE is_nan(f, a) -> NaN(f)
        [] is_zero(f, a) -> a
        [] is_negative(f, a) -> NaN(f)
        [] is_infinite(f, a) -> a
        [] OTHER -> CHOOSE p \in 1 .. InfMag(f) - 1 :
                      /\ (Units(f, p - 1) + Units(f, p)) ^ 2 <= 4 * x
                      /\ 4 * x < (Units(f, p) + Units(f, p + 1)) ^ 2

\* f32::min and f32::max leave the sign of the result open when both
\* operands are zeros; the results they may have.
min_results(f, a, b) ==
  {p \in {a, b} : Rank(f, p) = least(Rank(f, a), Rank(f, b))}
max_results(f, a, b) ==
  {p \in {a, b} : Rank(f, p) = greatest(Rank(f, a), Rank(f, b))}

lt(f, a, b) == ~is_nan(f, a) /\ ~is_nan(f, b) /\ Rank(f, a) < Rank(f, b)
le(f, a, b) == ~is_nan(f, a) /\ ~is_nan(f, b) /\ Rank(f, a) <= Rank(f, b)
eq(f, a, b) == ~is_nan(f, a) /\ ~is_nan(f, b) /\ Rank(f, a) = Rank(f, b)

\* `as i32` and `as u32` of a float: to zero, saturating, NaN is zero.
to_int(f, p, lo, hi) ==
  LET whole == Units(f, p) \div One(f)
  IN  CASE is_nan(f, p) -> 0
        [] is_infinite(f, p) -> IF is_negative(f, p) THEN lo ELSE hi
        [] is_negative(f, p) -> greatest(-whole, lo)
        [] OTHER -> least(whole, hi)

\* `as f32` and `as f64` of an integer, and of the other format.
from_int(f, n) == Nearest(f, n < 0, Abs(n) * One(f), 1)

convert(from, to, p) ==
  CASE is_nan(from, p) -> NaN(to)
    [] is_infinite(from, p) -> WithSign(to, is_negative(from, p), InfMag(to))
    [] OTHER -> Nearest(to, is_negative(from, p),
                        Units(from, p) * One(to), One(from))

\* FCLASS sets one of ten bits, more than a word may have here; this is the
\* number of that bit.
class(f, p) ==
  LET neg == is_negative(f, p)
  IN  CASE is_infinite(f, p) -> IF neg THEN 0 ELSE 7
        [] is_nan(f, p)      -> IF is_quiet(f, p) THEN 9 ELSE 8
        [] is_zero(f, p)     -> IF neg THEN 3 ELSE 4
        [] magnitude(f, p) \in 1 .. 2 ^ f.man - 1 -> IF neg THEN 2 ELSE 5
        [] OTHER             -> IF neg THEN 1 ELSE 6

-----------------------------------------------------------------------------
(* A register holds two words.                                             *)

DoubleWord == 0 .. M * M - 1

low(d)        == d % M
high_word(d)  == d \div M
join(lo, hi)  == hi * M + lo

\* 0xFFFFFFFF00000000 | p
boxed(p) == join(p, M - 1)

\* Mutant: the upper word is not looked at.
ReadLow(d) == low(d)

read_f32(d) == IF high_word(d) = M - 1 THEN low(d) ELSE NaN(Single)

\* Mutant: a NaN goes into the register as it came.
WriteBoxed(p) == boxed(p)

write_f32(p) == IF is_nan(Single, p) THEN boxed(NaN(Single)) ELSE boxed(p)

write_f64(p) == IF is_nan(Double, p) THEN NaN(Double) ELSE p
=============================================================================
