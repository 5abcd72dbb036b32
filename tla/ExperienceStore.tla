-------------------------- MODULE ExperienceStore --------------------------
(***************************************************************************)
(* How a television keeps the revisions it downloads and decides what to   *)
(* show: the files of FileExperienceStore (ExperienceStore.kt), the single *)
(* thread of MainActivity that verifies, synchronises and activates them,  *)
(* and what the process finds when it starts again.                        *)
(*                                                                         *)
(* A directory is whole when its manifest, documents and assets match      *)
(* their hashes; it holds a receipt when a full verification succeeded.    *)
(* Every durable write is a step, and the process may die between any two. *)
(* An exchange with the server is one step: SceneSync takes it apart.      *)
(***************************************************************************)
EXTENDS Naturals

CONSTANTS
  MaxRevision,   \* bound: revisions the server publishes
  MaxFaults,     \* bound: deaths of the process, failed exchanges and writes
  MaxDamage      \* bound: directories the storage damages

ASSUME StoreAssumption ==
  MaxRevision \in Nat \ {0} /\ MaxFaults \in Nat /\ MaxDamage \in Nat

VARIABLES
  server,      \* the revision the server publishes
  dirs,        \* revisions/<r>
  staging,     \* revisions/<r>.staging
  receipts,    \* the directories that hold a verification receipt
  active,      \* the pointer files, 0 when absent
  previous,
  pc,          \* the executor of MainActivity
  shown,       \* the revision on display, 0 for the embedded experience
  asked,       \* the one on display when the exchange was requested
  target,      \* the revision being stored, 0 for none
  faults,      \* how many faults have happened
  damage       \* how many directories were damaged

pointers == <<active, previous>>
files == <<dirs, staging, receipts, pointers>>
app == <<pc, shown, asked, target>>
vars == <<server, files, app, faults, damage>>

Revisions == 1..MaxRevision
Condition == {"absent", "partial", "whole"}

TypeOK ==
  /\ server \in Revisions
  /\ dirs \in [Revisions -> Condition] /\ staging \in [Revisions -> {"absent", "partial"}]
  /\ receipts \subseteq Revisions
  /\ {active, previous, shown, asked, target} \subseteq 0..MaxRevision
  /\ pc \in {"off", "load", "fallback", "idle", "sync", "stage", "write", "move",
             "previous", "active", "prune"}
  /\ faults \in 0..MaxFaults /\ damage \in 0..MaxDamage

Init ==
  /\ server = 1
  /\ dirs = [r \in Revisions |-> "absent"] /\ staging = dirs
  /\ receipts = {} /\ active = 0 /\ previous = 0
  /\ pc = "off" /\ shown = 0 /\ asked = 0 /\ target = 0
  /\ faults = 0 /\ damage = 0

Valid(r) == r # 0 /\ dirs[r] = "whole"
Fault == faults < MaxFaults /\ faults' = faults + 1
Goto(step) == pc' = step

----------------------------------------------------------------------------
(* The world.                                                              *)

Publish ==
  /\ server < MaxRevision
  /\ server' = server + 1
  /\ UNCHANGED <<files, app, faults, damage>>

(* A file of a stored revision is lost or altered.                         *)
DamageDir(r) ==
  /\ dirs[r] = "whole" /\ damage < MaxDamage
  /\ dirs' = [dirs EXCEPT ![r] = "partial"]
  /\ damage' = damage + 1
  /\ UNCHANGED <<server, staging, receipts, pointers, app, faults>>

(* The process dies, or the power is cut.                                  *)
Die ==
  /\ pc # "off" /\ Fault
  /\ Goto("off") /\ shown' = 0 /\ asked' = 0 /\ target' = 0
  /\ UNCHANGED <<server, files, damage>>

----------------------------------------------------------------------------
(* Starting and loading.                                                   *)

(* onCreate renders what loadPreviouslyVerifiedActive trusts by its        *)
(* receipt and queues the full verification; onResume queues an exchange   *)
(* for the revision then on display.                                       *)
Boot ==
  /\ pc = "off"
  /\ shown' = IF active \in receipts THEN active ELSE 0
  /\ asked' = shown'
  /\ Goto("load")
  /\ UNCHANGED <<server, files, target, faults, damage>>

(* The snapshot reaches the screen; at the start the exchange follows, and *)
(* after an activation the executor is free.                               *)
Show(r) ==
  /\ shown' = r /\ target' = 0
  /\ Goto(IF target = 0 THEN "sync" ELSE "idle")

(* loadActive verifies the active revision...                              *)
Load ==
  /\ pc = "load"
  /\ IF Valid(active)
     THEN receipts' = receipts \cup {active} /\ Show(active)
     ELSE receipts' = receipts \ {active} /\ Goto("fallback") /\ UNCHANGED <<shown, target>>
  /\ UNCHANGED <<server, dirs, staging, pointers, asked, faults, damage>>

(* ... else the previous one, which becomes active, else the embedded one. *)
Fallback ==
  /\ pc = "fallback"
  /\ IF Valid(previous)
     THEN receipts' = receipts \cup {previous} /\ active' = previous /\ Show(previous)
     ELSE receipts' = receipts \ {previous} /\ Show(0) /\ UNCHANGED active
  /\ UNCHANGED <<server, dirs, staging, previous, asked, faults, damage>>

----------------------------------------------------------------------------
(* Synchronising.                                                          *)

(* The periodic task captures the revision on display.                     *)
Poll ==
  /\ pc = "idle"
  /\ asked' = shown /\ Goto("sync")
  /\ UNCHANGED <<server, files, shown, target, faults, damage>>

UpToDate ==
  /\ pc = "sync" /\ asked = server
  /\ Goto("idle")
  /\ UNCHANGED <<server, files, shown, asked, target, faults, damage>>

(* fetchAfter: a package for a newer revision, everything downloaded.      *)
Fetch ==
  /\ pc = "sync" /\ server > asked
  /\ target' = server /\ Goto("stage")
  /\ UNCHANGED <<server, files, shown, asked, faults, damage>>

Abandon == Goto("idle") /\ target' = 0 /\ UNCHANGED <<shown, asked>>

(* Mutant: a revision already there is never used again.                   *)
StageAfresh ==
  /\ pc = "stage"
  /\ IF dirs[target] = "absent"
     THEN /\ staging' = [staging EXCEPT ![target] = "partial"]
          /\ Goto("write") /\ UNCHANGED <<shown, asked, target>>
     ELSE Abandon /\ UNCHANGED staging
  /\ UNCHANGED <<server, dirs, receipts, pointers, faults, damage>>

(* stageVerifiedRevision: a revision already there is verified and used    *)
(* as it is, or refused; else its staging directory is started afresh.     *)
Stage ==
  /\ pc = "stage"
  /\ IF dirs[target] = "absent"
     THEN /\ staging' = [staging EXCEPT ![target] = "partial"]
          /\ Goto("write") /\ UNCHANGED <<receipts, shown, asked, target>>
     ELSE /\ staging' = [staging EXCEPT ![target] = "absent"]
          /\ IF Valid(target)
             THEN /\ receipts' = receipts \cup {target}
                  /\ Goto("previous") /\ UNCHANGED <<shown, asked, target>>
             ELSE Abandon /\ UNCHANGED receipts
  /\ UNCHANGED <<server, dirs, pointers, faults, damage>>

(* Everything is written and verified there, the receipt last: nothing     *)
(* looks at a staging directory, so that only its presence matters.        *)
Write ==
  /\ pc = "write"
  /\ Goto("move")
  /\ UNCHANGED <<server, files, shown, asked, target, faults, damage>>

(* Mutant: the receipt is left to the next verification.                   *)
MoveWithoutReceipt ==
  /\ pc = "move"
  /\ dirs' = [dirs EXCEPT ![target] = "whole"]
  /\ staging' = [staging EXCEPT ![target] = "absent"]
  /\ Goto("previous")
  /\ UNCHANGED <<server, receipts, pointers, shown, asked, target, faults, damage>>

(* The atomic rename of the staging directory.                             *)
Move ==
  /\ pc = "move"
  /\ dirs' = [dirs EXCEPT ![target] = "whole"]
  /\ staging' = [staging EXCEPT ![target] = "absent"]
  /\ receipts' = receipts \cup {target}
  /\ Goto("previous")
  /\ UNCHANGED <<server, pointers, shown, asked, target, faults, damage>>

(* Mutant: the pointers are written in the other order.                    *)
WritePreviousLast ==
  /\ pc = "previous"
  /\ active' = target
  /\ Goto("active")
  /\ UNCHANGED <<server, dirs, staging, receipts, previous, shown, asked, target,
                 faults, damage>>

(* activate: first the pointer `previous`...                               *)
WritePrevious ==
  /\ pc = "previous"
  /\ previous' = IF active \notin {0, target} THEN active ELSE previous
  /\ Goto("active")
  /\ UNCHANGED <<server, dirs, staging, receipts, active, shown, asked, target,
                 faults, damage>>

(* ... then the pointer `active`.                                          *)
WriteActive ==
  /\ pc = "active"
  /\ active' = target /\ Goto("prune")
  /\ UNCHANGED <<server, dirs, staging, receipts, previous, shown, asked, target,
                 faults, damage>>

(* Mutant: only the active revision is kept.                               *)
GarbageButActive == Revisions \ {active}

(* The directories no pointer names.                                       *)
Garbage == Revisions \ {active, previous}

(* pruneRevisions ignores a deletion that fails or stops half way; then    *)
(* the repository loads what is active.                                    *)
Prune ==
  /\ pc = "prune"
  /\ \E left \in SUBSET {r \in Garbage : dirs[r] # "absent"}, torn \in SUBSET Garbage :
       /\ torn \subseteq left
       /\ dirs' = [r \in Revisions |-> CASE r \notin Garbage -> dirs[r]
                                         [] r \in torn -> "partial"
                                         [] r \in left \ torn -> dirs[r]
                                         [] OTHER -> "absent"]
       /\ receipts' = receipts \ (Garbage \ left)
  /\ staging' = [r \in Revisions |-> "absent"]
  /\ Goto("load")
  /\ UNCHANGED <<server, pointers, shown, asked, target, faults, damage>>

(* A failed exchange or download, or an exception while storing: the       *)
(* staging directory is deleted, the rest stays as it is.                  *)
Fail ==
  /\ pc \in {"sync", "write", "move", "previous", "active"} /\ Fault
  /\ staging' = IF target = 0 THEN staging ELSE [staging EXCEPT ![target] = "absent"]
  /\ Abandon
  /\ UNCHANGED <<server, dirs, receipts, pointers, damage>>

Run == Boot \/ Load \/ Fallback \/ Poll \/ UpToDate \/ Fetch \/ Stage \/ Write
         \/ Move \/ WritePrevious \/ WriteActive \/ Prune

Next == Publish \/ (\E r \in Revisions : DamageDir(r)) \/ Die \/ Fail \/ Run

Spec == Init /\ [][Next]_vars

(* The process is started again and its task is rescheduled every minute.  *)
FairSpec == Spec /\ WF_vars(Run)

----------------------------------------------------------------------------
(* Correctness.                                                            *)

(* What loadActive would find on disk now, and after one more damage.      *)
Loadable == IF Valid(active) THEN active ELSE IF Valid(previous) THEN previous ELSE 0
Spare == IF Valid(active) /\ Valid(previous) /\ previous # active THEN previous ELSE 0

(* Seen through what a restart would show, the store is an atomic cache:   *)
(* a revision takes over in one step, at the step that completes it, and   *)
(* neither a death nor a clean-up takes one away.                          *)
Cache == INSTANCE AtomicCache WITH current <- Loadable, spare <- Spare
Implements == Cache!Spec

(* docs/ARCHITECTURE.md: the television renders at once the last revision  *)
(* it validated.  Then the receipt it trusts names what a full             *)
(* verification would choose, whenever the previous process died.          *)
BootShowsLoadable ==
  [][pc = "off" /\ pc' = "load" /\ damage = 0 => shown' = Loadable]_vars

(* The clean-up spares what a pointer names and what is on display, even   *)
(* when damage made the two differ.                                        *)
InUseIsKept == TypeOK /\ \A r \in {active, previous, shown} \ {0} : dirs[r] # "absent"

(* The television ends up showing the server's last revision, as long as   *)
(* its storage is sound.                                                   *)
Converges == <>[](shown = server \/ damage > 0)
=============================================================================
