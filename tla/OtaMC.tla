------------------------------- MODULE OtaMC -------------------------------
(* Instances of Ota for TLC. *)
EXTENDS Ota, TLC
CONSTANTS d1, d2, g1

\* hawkBit does not know the process's credentials.
Credentials == {401}
=============================================================================
