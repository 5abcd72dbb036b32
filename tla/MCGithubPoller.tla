--------------------------- MODULE MCGithubPoller ---------------------------
(* GithubPoller on two or three releases.                                  *)
EXTENDS GithubPoller
=============================================================================
