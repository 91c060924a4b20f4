------------------------------ MODULE Rounding ------------------------------
(* The rounding of the engines, on quotients of integers. *)
EXTENDS Integers

\* To the nearest integer, a tie to the even one: round() of floats.
HalfEven(n, d) ==
    LET q == n \div d
        r == 2 * (n % d)
    IN  IF r > d \/ (r = d /\ q % 2 = 1) THEN q + 1 ELSE q

\* To the nearest integer, a tie away from zero: ROUND_HALF_UP of decimals.
HalfUp(n, d) ==
    IF n >= 0 THEN (2 * n + d) \div (2 * d) ELSE -((d - 2 * n) \div (2 * d))

Between(low, n, high) == IF n < low THEN low ELSE IF n > high THEN high ELSE n
=============================================================================
