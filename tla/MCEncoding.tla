----------------------------- MODULE MCEncoding -----------------------------
(* Instances of Encoding for TLC: binary digits, bytes of four values and    *)
(* half words of two bytes, with numbers of up to three bytes.              *)
EXTENDS Encoding

SmallNumbers == 0 .. 40
FewNumbers == {0, 1, 3, 4, 15, 16, 40}
=============================================================================
