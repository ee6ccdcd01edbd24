------------------------- MODULE MCReleaseScanner -------------------------
(* Instances of ReleaseScanner for TLC. *)
EXTENDS ReleaseScanner, TLC

NoFaults == {}
LostReply == {"commitLost"}
AllButStaleTag == FaultKinds \ {"staleTag"}

Symmetry == Permutations(Emails) \cup Permutations(Repos)

=============================================================================
