---------------------------- MODULE MCPublicApi ----------------------------
(* Instances of PublicApi for TLC.                                         *)
EXTENDS PublicApi

NoFaults == {}
AllFaults == FaultKinds

=============================================================================
