------------------------------- MODULE Duration ------------------------------
(***************************************************************************)
(* The machine integers of the emulator: Go's int and time.Duration, which *)
(* both are signed and have the same width.                                *)
(***************************************************************************)
EXTENDS Integers

CONSTANT Half  \* half of the range, 2^63 in the code

ASSUME HalfAssumption == Half \in Nat \ {0}

\* The integers that fit.
Fit(x) == -Half <= x /\ x < Half

\* What is left of x after arithmetic that overflows.
Wrap(x) == ((x + Half) % (2 * Half)) - Half

\* AsDuration of a protobuf duration, whose range is larger.
Saturate(x) == IF x < -Half THEN -Half ELSE IF x >= Half THEN Half - 1 ELSE x
=============================================================================
