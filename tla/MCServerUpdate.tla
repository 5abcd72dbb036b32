--------------------------- MODULE MCServerUpdate ---------------------------
(* ServerUpdate on one or two releases and a few requests.                 *)
EXTENDS ServerUpdate
=============================================================================
