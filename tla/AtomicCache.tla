---------------------------- MODULE AtomicCache ----------------------------
(***************************************************************************)
(* What the television's store of revisions promises, with no files: one   *)
(* readable revision that an installation replaces in a single step, and   *)
(* the one it replaced to fall back on.                                    *)
(***************************************************************************)
EXTENDS Naturals

CONSTANT MaxRevision   \* bound: revisions the server publishes

VARIABLES
  current,    \* the revision a restart shows, 0 for the embedded one
  spare,      \* the one shown in its place if it is found damaged, or 0
  damage      \* how many revisions the storage has damaged

cache == <<current, spare, damage>>

Init == current = 0 /\ spare = 0 /\ damage = 0

(* A newer revision takes over; the old one is kept beside it.             *)
Install(r) ==
  /\ r > current
  /\ current' = r /\ spare' = current
  /\ UNCHANGED damage

(* The fallback may be given up ahead of an installation.                  *)
Release == spare' = 0 /\ UNCHANGED <<current, damage>>

(* Once the storage has damaged a revision, nothing is promised here.      *)
Damaged == damage' > 0

Next == (\E r \in 1..MaxRevision : Install(r)) \/ Release \/ Damaged

Spec == Init /\ [][Next]_cache
=============================================================================
