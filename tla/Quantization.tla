---------------------------- MODULE Quantization ----------------------------
(***************************************************************************)
(* quantize_symmetric, dequantize and QLinear of python/kansai/quantize.py *)
(* on integers.  scale = greatest / Levels is kept as the greatest         *)
(* magnitude, so that v / scale is the fraction v * Levels / greatest; 0   *)
(* stands for the scale 1.0 that a tensor of zeros gets.                   *)
(***************************************************************************)
EXTENDS Integers, FiniteSetsExt

CONSTANT Levels         \* 127, the largest int8

ASSUME LevelsAssumption == Levels \in Nat \ {0}

Magnitude(x) == IF x < 0 THEN -x ELSE x

(* Mutation of Rounded: digits are cut off.                                *)
CutOff(a, b) == IF a < 0 THEN -((-a) \div b) ELSE a \div b

(* Python's round() of a / b: to the nearest, a tie to the even one.       *)
Rounded(a, b) ==
  LET low == a \div b
      twice == 2 * (a % b)
  IN  IF twice > b \/ (twice = b /\ low % 2 = 1) THEN low + 1 ELSE low

Clamped(q) == IF q > Levels THEN Levels ELSE IF q < -Levels THEN -Levels ELSE q

QuantizeSymmetric(flat) ==
  LET greatest == Max({Magnitude(flat[k]) : k \in DOMAIN flat} \cup {0})
  IN  [greatest |-> greatest,
       q |-> [k \in DOMAIN flat |->
                IF greatest = 0 THEN Clamped(flat[k]) ELSE Clamped(Rounded(flat[k] * Levels, greatest))]]

(* dequantize gives q * greatest / Levels: the distance to the original,   *)
(* times 2 * Levels, against the scale, in the same measure.               *)
IsClose(flat, quantized) ==
  \A k \in DOMAIN flat :
    IF quantized.greatest = 0 THEN quantized.q[k] = flat[k]
    ELSE 2 * Magnitude(quantized.q[k] * quantized.greatest - flat[k] * Levels) <= quantized.greatest
=============================================================================
