------------------------ MODULE MCReplicatedService ------------------------
(***************************************************************************)
(* ReplicatedService for TLC.                                              *)
(***************************************************************************)
EXTENDS ReplicatedService

CONSTANTS k1, o1, o2

OneKey == {k1}
TwoObservers == {o1, o2}
BothModes == {"singleton", "keyed"}
=============================================================================
