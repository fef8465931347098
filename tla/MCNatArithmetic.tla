-------------------------- MODULE MCNatArithmetic --------------------------
(***************************************************************************)
(* Four-bit values with three-bit exponents: every value can be shifted by *)
(* less than the width, by the width or more, and by an amount that does   *)
(* not narrow, as with 64 and 32.                                          *)
(***************************************************************************)
EXTENDS NatArithmetic
=============================================================================
