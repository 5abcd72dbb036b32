-------------------------- MODULE MCTvCertificate --------------------------
(* TvCertificate on few enrolments and renewals.                           *)
EXTENDS TvCertificate
=============================================================================
