--------------------------- MODULE MCRotationSystem ---------------------------
(* Small instances of RotationSystem.                                       *)
EXTENDS RotationSystem

CONSTANTS k1, k2, k3, k4, k5, t, v1, v2

FourAddresses == {k1, k2, k3, k4}
FiveAddresses == {k1, k2, k3, k4, k5}
MCTimes == {t}
OneVerifier == {v1}
TwoVerifiers == {v1, v2}
BothFormats == {1, 2}
CurrentFormat == {2}
OneIdentity == {k1}
FirstKeys == [keys |-> k1, next_keys |-> k2]
OwnSnapshots == [v \in Verifiers |-> {v}]
AnySnapshot == [v \in Verifiers |-> Verifiers]
NoFixedChains == {}
=============================================================================
