----------------------- MODULE MCSubscriptionService -----------------------
(* Instances of SubscriptionService for TLC.  GitHub, the insert and SMTP   *)
(* may always fail; the sets below add failures to these.                   *)
EXTENDS SubscriptionService, TLC

MailLostOnly == {"mailLost"}
DisconnectOnly == {"disconnect"}
AllFaults == FaultKinds

(* Emails, repositories and handlers are interchangeable.                  *)
Symmetry == Permutations(Emails) \cup Permutations(Repos) \cup Permutations(Handlers)

=============================================================================
