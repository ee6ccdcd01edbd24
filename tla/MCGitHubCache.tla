--------------------------- MODULE MCGitHubCache ---------------------------
(* Instance of GitHubCache for TLC: the scanner and one Subscribe. *)
EXTENDS GitHubCache

CONSTANTS scan, sub

MCClients == {scan, sub}

=============================================================================
