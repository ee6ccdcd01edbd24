----------------------- MODULE SubscriptionLifecycle -----------------------
(***************************************************************************)
(* What the subscription API promises about one (email, repository) pair,  *)
(* whatever requests, failures and restarts happen: double opt-in.  A pair *)
(* is reserved while its confirmation mail is not out, invited once it is, *)
(* active when the mail's link has been followed.  Nothing becomes active  *)
(* without having been invited, and only a pair that was invited can be    *)
(* cancelled.                                                              *)
(***************************************************************************)
CONSTANT Pairs

VARIABLE phase

Phases == {"none", "reserved", "invited", "active"}

Init == phase = [p \in Pairs |-> "none"]

Move(p, from, to) ==
    /\ phase[p] \in from
    /\ phase' = [phase EXCEPT ![p] = to]

Reserve(p) == Move(p, {"none"}, "reserved")
Release(p) == Move(p, {"reserved"}, "none")
Invite(p) == Move(p, {"reserved"}, "invited")
Activate(p) == Move(p, {"invited"}, "active")
Cancel(p) == Move(p, {"invited", "active"}, "none")

Next ==
    \E p \in Pairs :
        Reserve(p) \/ Release(p) \/ Invite(p) \/ Activate(p) \/ Cancel(p)

Spec == Init /\ [][Next]_phase

=============================================================================
