------------------------------ MODULE BridgeMC ------------------------------
(* Instances of Bridge for TLC. *)
EXTENDS Bridge, TLC
CONSTANTS d1, d2, k1, w1, w2, fw1, fw2

Holding(v) == [EmptyDoc EXCEPT ![k1] = v]

TwoReports == {Holding(w1), Holding(w2)}
=============================================================================
