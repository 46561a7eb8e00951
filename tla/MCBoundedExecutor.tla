------------------------- MODULE MCBoundedExecutor -------------------------
(* Instances of BoundedExecutor for TLC. *)
EXTENDS BoundedExecutor

CONSTANTS c1, c2, c3, f1, f2

TwoCalls == {c1, c2}
ThreeCalls == {c1, c2, c3}
OneFinalizer == {f1}
TwoFinalizers == {f1, f2}
============================================================================
