--------------------------- MODULE MCPrivateSpace ---------------------------
(* PrivateSpace on few applications, codes and events.                     *)
EXTENDS PrivateSpace
=============================================================================
