-------------------------------- MODULE CInt --------------------------------
(***************************************************************************)
(* The integer arithmetic of C that the drone's control code relies on.    *)
(***************************************************************************)
EXTENDS Integers

\* a / b of C for b > 0: the quotient is truncated towards zero, where \div
\* rounds towards minus infinity.
CDiv(a, b) == IF a >= 0 THEN a \div b ELSE -((-a) \div b)

\* The nearest value to x between lo and hi.
Clamp(lo, x, hi) == IF x < lo THEN lo ELSE IF x > hi THEN hi ELSE x

\* An age one tick later.  Ages are times elapsed since a stored timestamp
\* (k_uptime_get() - stamp); from cap on the code cannot tell them apart.
Older(age, cap) == IF age < cap THEN age + 1 ELSE cap
=============================================================================
