---------------------------- MODULE MCDeployment ----------------------------
(* Deployment on two televisions, one or two plans and releases.           *)
EXTENDS Deployment
=============================================================================
