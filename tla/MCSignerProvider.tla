-------------------------- MODULE MCSignerProvider --------------------------
(* Instances of SignerProvider for TLC: created empty or with two keys.     *)
EXTENDS SignerProvider, TLC

CONSTANTS g1, g2, k1, k2

TwoGoroutines == {g1, g2}
TwoSigners == {k1, k2}
NoneOrTwo == {<<>>, <<k1, k2>>}
=============================================================================
