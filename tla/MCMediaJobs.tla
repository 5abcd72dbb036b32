---------------------------- MODULE MCMediaJobs ----------------------------
(* MediaJobs on one content, three uploads and two workers.                 *)
EXTENDS MediaJobs
=============================================================================
