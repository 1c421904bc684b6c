---------------------------- MODULE ShadowLoopMC ----------------------------
(* Instances of ShadowLoop for TLC. *)
EXTENDS ShadowLoop, TLC
CONSTANTS a1, d1, k1, k2, v1, v2

Just(k, v) == [EmptyDoc EXCEPT ![k] = v]

Everyone == Admin \X DeviceId
TwoValues == {Just(k1, v1), Just(k1, v2)}
OwnAccord == {Just(k1, Null)}
=============================================================================
