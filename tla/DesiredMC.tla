------------------------------ MODULE DesiredMC -----------------------------
(* Instances of Desired for TLC. *)
EXTENDS Desired, TLC
CONSTANTS a1, a2, d1, d2, k1, k2, v1, v2

Just(k, v) == [EmptyDoc EXCEPT ![k] = v]

(* Every admin works on every device; nobody on any. *)
Everyone == Admin \X DeviceId
NoOne == {}

TwoKeys == {Just(k1, v1), Just(k2, v1)}
KeyAndNull == {Just(k1, Null), Just(k2, v1)}
TwoValues == {Just(k1, v1), Just(k1, v2)}
OneKey == {Just(k1, v1)}
Nothing == {EmptyDoc}
=============================================================================
