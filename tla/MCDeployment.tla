---------------------------- MODULE MCDeployment ----------------------------
(* Deployment for TLC: deployment.cfg gives the constants their values.    *)
EXTENDS Deployment

=============================================================================
