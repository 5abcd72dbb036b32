------------------------ MODULE ExperienceStoreProofs ------------------------
(***************************************************************************)
(* The store of a television implements AtomicCache, keeps what is in use, *)
(* and shows at once what a full verification would choose, for any number *)
(* of revisions, faults and damages.                                       *)
(*                                                                         *)
(* Kept holds whatever is damaged: what a pointer names and what is on     *)
(* display have a directory.  Sound holds while nothing was damaged: both  *)
(* pointers name verified directories, the spare is the one the active     *)
(* revision replaced, and what is being stored is newer than either.       *)
(***************************************************************************)
EXTENDS ExperienceStore, TLAPS

(* TypeOK, with one conjunct for each variable.                            *)
Typed ==
  /\ server \in Revisions
  /\ dirs \in [Revisions -> Condition]
  /\ staging \in [Revisions -> {"absent", "partial"}]
  /\ \A r \in receipts : r \in Revisions
  /\ active \in 0..MaxRevision /\ previous \in 0..MaxRevision
  /\ shown \in 0..MaxRevision /\ asked \in 0..MaxRevision /\ target \in 0..MaxRevision
  /\ pc \in {"off", "load", "fallback", "idle", "sync", "stage", "write", "move",
             "previous", "active", "prune"}
  /\ faults \in 0..MaxFaults /\ damage \in 0..MaxDamage

Storing == {"stage", "write", "move", "previous", "active"}
Stored == {"previous", "active"}

Kept ==
  /\ \A r \in {active, previous, shown} \ {0} : dirs[r] # "absent"
  /\ pc \in Storing \cup {"prune"} => target # 0
  /\ pc \in Stored => dirs[target] # "absent"
  /\ shown \in {0, active, previous}
  /\ pc \in {"idle", "sync"} \cup Storing => shown \in {0, active}
  /\ pc = "active" => shown \in {0, previous, target}

(* The pointers: whole, verified, an active one before a previous one.     *)
Pointers ==
  /\ \A r \in {active, previous} \ {0} : dirs[r] = "whole" /\ r \in receipts
  /\ active = 0 => previous = 0

(* The executor: what is on display and was asked with is what is active,  *)
(* what it stores is newer, whole before the pointers are written.         *)
Executor ==
  /\ pc = "off" => target = 0
  /\ pc \in {"idle", "sync"} \cup Storing => shown = active
  /\ pc \in {"sync"} \cup Storing => asked = active
  /\ pc \in {"load", "fallback"} /\ target = 0 => asked = active
  /\ pc = "fallback" => active = 0 /\ target = 0
  /\ pc \in Storing => target > active
  /\ pc \in Stored => dirs[target] = "whole" /\ target \in receipts
  /\ pc = "active" => previous = active
  /\ pc = "prune" => target = active
  /\ pc = "load" /\ target # 0 => target = active

Sound == damage = 0 => Pointers /\ Executor

IInv == Typed /\ Kept /\ Sound

LEMMA TypedIsTypeOK == Typed => TypeOK
BY DEF Typed, TypeOK

LEMMA InitKeeps == Init => IInv
BY StoreAssumption DEF Init, IInv, Typed, Kept, Sound, Pointers, Executor, Storing, Stored,
   Revisions, Condition

----------------------------------------------------------------------------
(* Types, one action at a time.                                            *)

LEMMA TypeKept == Typed /\ Kept /\ [Next]_vars => Typed'
<1> SUFFICES ASSUME Typed, Kept, [Next]_vars PROVE Typed' OBVIOUS
<1> USE StoreAssumption DEF Typed, Revisions, Condition, files, app, pointers, Goto
<1>1. CASE Publish BY <1>1 DEF Publish
<1>2. ASSUME NEW r \in Revisions, DamageDir(r) PROVE Typed' BY <1>2 DEF DamageDir
<1>3. CASE Die BY <1>3 DEF Die, Fault
<1>4. CASE Fail
  BY <1>4 DEF Fail, Fault, Abandon
<1>5. CASE Boot BY <1>5 DEF Boot
<1>6. CASE Load BY <1>6 DEF Load, Show, Valid
<1>7. CASE Fallback BY <1>7 DEF Fallback, Show, Valid
<1>8. CASE Poll \/ UpToDate \/ Fetch BY <1>8 DEF Poll, UpToDate, Fetch
<1>9. CASE Stage BY <1>9 DEF Stage, Abandon, Valid, Kept, Storing
<1>10. CASE Write \/ Move
  <2>1. target \in Revisions
    BY <1>10 DEF Write, Move, Kept, Storing
  <2> QED BY <1>10, <2>1 DEF Write, Move
<1>11. CASE WritePrevious BY <1>11 DEF WritePrevious
<1>12. CASE WriteActive BY <1>12 DEF WriteActive
<1>13. CASE Prune BY <1>13 DEF Prune, Garbage
<1>14. CASE UNCHANGED vars BY <1>14 DEF vars
<1> QED
  BY <1>1, <1>2, <1>3, <1>4, <1>5, <1>6, <1>7, <1>8, <1>9, <1>10, <1>11, <1>12, <1>13, <1>14
  DEF Next, Run

----------------------------------------------------------------------------
(* What is in use has a directory.                                         *)

LEMMA KeptKept == Typed /\ Kept /\ [Next]_vars => Kept'
<1> SUFFICES ASSUME Typed, Kept, [Next]_vars PROVE Kept' OBVIOUS
<1> USE DEF Typed, Kept, Storing, Stored, files, app, pointers, Goto
<1>1. CASE Publish BY <1>1 DEF Publish
<1>2. ASSUME NEW r \in Revisions, DamageDir(r) PROVE Kept'
  BY <1>2 DEF DamageDir, Revisions, Condition
<1>3. CASE Die BY <1>3 DEF Die
<1>4. CASE Fail BY <1>4 DEF Fail, Abandon
<1>5. CASE Boot BY <1>5 DEF Boot
<1>6. CASE Load BY <1>6 DEF Load, Show, Valid
<1>7. CASE Fallback BY <1>7 DEF Fallback, Show, Valid
<1>8. CASE Poll \/ UpToDate BY <1>8 DEF Poll, UpToDate
<1>9. CASE Fetch BY <1>9 DEF Fetch, Revisions
<1>10. CASE Stage BY <1>10 DEF Stage, Abandon, Valid
<1>11. CASE Write BY <1>11 DEF Write
<1>12. CASE Move
  <2>1. dirs'[target] = "whole" /\ \A r \in Revisions \ {target} : dirs'[r] = dirs[r]
    BY <1>12 DEF Move, Revisions
  <2> QED BY <1>12, <2>1 DEF Move, Revisions
<1>13. CASE WritePrevious BY <1>13 DEF WritePrevious
<1>14. CASE WriteActive BY <1>14 DEF WriteActive
<1>15. CASE Prune
  <2>1. \A r \in {active, previous} \ {0} : dirs'[r] = dirs[r]
    BY <1>15 DEF Prune, Garbage, Revisions
  <2> QED BY <1>15, <2>1 DEF Prune
<1>16. CASE UNCHANGED vars BY <1>16 DEF vars
<1> QED
  BY <1>1, <1>2, <1>3, <1>4, <1>5, <1>6, <1>7, <1>8, <1>9, <1>10, <1>11, <1>12, <1>13,
     <1>14, <1>15, <1>16 DEF Next, Run

----------------------------------------------------------------------------
(* Short of damage, the pointers and the executor.                         *)

LEMMA DamageGrows == Typed /\ [Next]_vars => damage' >= damage
<1> SUFFICES ASSUME Typed, [Next]_vars PROVE damage' >= damage OBVIOUS
<1> USE DEF Typed
<1>1. CASE Run
  BY <1>1 DEF Run, Boot, Load, Fallback, Poll, UpToDate, Fetch, Stage, Write, Move,
              WritePrevious, WriteActive, Prune
<1>2. CASE ~ Run
  BY <1>2 DEF Next, Publish, DamageDir, Die, Fail, vars
<1> QED BY <1>1, <1>2

LEMMA SoundKept == IInv /\ [Next]_vars => Sound'
<1> SUFFICES ASSUME Typed, Kept, [Next]_vars, damage = 0, damage' = 0, Pointers, Executor
             PROVE  Pointers' /\ Executor'
  BY DamageGrows DEF IInv, Sound, Typed
<1> USE DEF Typed, Pointers, Executor, Storing, Stored, files, app, pointers, Goto
<1>1. CASE Publish BY <1>1 DEF Publish
<1>2. ASSUME NEW r \in Revisions, DamageDir(r) PROVE FALSE
  BY <1>2 DEF DamageDir
<1>3. CASE Die BY <1>3 DEF Die
<1>4. CASE Fail BY <1>4 DEF Fail, Abandon
<1>5. CASE Boot BY <1>5 DEF Boot
<1>6. CASE Load BY <1>6 DEF Load, Show, Valid
<1>7. CASE Fallback BY <1>7 DEF Fallback, Show, Valid
<1>8. CASE Poll \/ UpToDate BY <1>8 DEF Poll, UpToDate
<1>9. CASE Fetch BY <1>9 DEF Fetch, Revisions
<1>10. CASE Stage BY <1>10 DEF Stage, Abandon, Valid, Kept
<1>11. CASE Write BY <1>11 DEF Write
<1>12. CASE Move
  <2>1. target \in Revisions
    BY <1>12 DEF Move, Kept, Revisions
  <2>2. dirs'[target] = "whole" /\ \A r \in Revisions \ {target} : dirs'[r] = dirs[r]
    BY <1>12, <2>1 DEF Move
  <2> QED BY <1>12, <2>1, <2>2 DEF Move, Revisions
<1>13. CASE WritePrevious BY <1>13 DEF WritePrevious
<1>14. CASE WriteActive BY <1>14 DEF WriteActive
<1>15. CASE Prune
  <2>1. \A r \in {active, previous} \ {0} : dirs'[r] = dirs[r] /\ r \in receipts'
    BY <1>15 DEF Prune, Garbage, Revisions
  <2> QED BY <1>15, <2>1 DEF Prune, Kept
<1>16. CASE UNCHANGED vars BY <1>16 DEF vars
<1> QED
  BY <1>1, <1>2, <1>3, <1>4, <1>5, <1>6, <1>7, <1>8, <1>9, <1>10, <1>11, <1>12, <1>13,
     <1>14, <1>15, <1>16 DEF Next, Run

LEMMA NextKeeps == IInv /\ [Next]_vars => IInv'
BY TypeKept, KeptKept, SoundKept DEF IInv

----------------------------------------------------------------------------
(* The theorems.                                                           *)

(* The clean-up spares what a pointer names and what is on display,        *)
(* whatever the storage damaged and wherever the process died.             *)
THEOREM NothingInUseIsLost == Spec => []InUseIsKept
<1>1. IInv => InUseIsKept
  BY TypedIsTypeOK DEF IInv, Kept, InUseIsKept
<1>2. IInv /\ [Next]_vars => IInv'
  BY NextKeeps
<1> QED BY InitKeeps, <1>1, <1>2, PTL DEF Spec

(* What a television shows at once, by its receipt, is what it would       *)
(* choose after verifying everything.                                      *)
THEOREM BootIsRight == Spec => BootShowsLoadable
<1>1. IInv /\ [Next]_vars
        => [pc = "off" /\ pc' = "load" /\ damage = 0 => shown' = Loadable]_vars
  <2> SUFFICES ASSUME IInv, Next, pc = "off", pc' = "load", damage = 0
               PROVE  shown' = Loadable
    BY DEF vars
  <2>1. Boot
    BY DEF Next, Run, Publish, DamageDir, Die, Fail, Load, Fallback, Poll, UpToDate, Fetch,
           Stage, Write, Move, WritePrevious, WriteActive, Prune, Goto, app
  <2>2. shown' = active
    BY <2>1 DEF Boot, IInv, Typed, Sound, Pointers, Revisions
  <2>3. Loadable = active
    BY DEF Loadable, Valid, IInv, Sound, Pointers
  <2> QED BY <2>2, <2>3
<1>2. IInv /\ [Next]_vars => IInv'
  BY NextKeeps
<1> QED BY InitKeeps, <1>1, <1>2, PTL DEF Spec, BootShowsLoadable

(* Short of damage, what a restart would load and fall back on is read off *)
(* the pointers, and only an activation changes those.                     *)
LEMMA CacheStep == IInv /\ IInv' /\ [Next]_vars => [Cache!Next]_(Cache!cache)
<1> SUFFICES ASSUME IInv, IInv', [Next]_vars PROVE [Cache!Next]_(Cache!cache) OBVIOUS
<1>1. CASE damage' > 0
  BY <1>1 DEF Cache!Next, Cache!Damaged
<1>2. CASE damage' = 0
  <2>1. damage = 0 /\ UNCHANGED damage
    BY <1>2, DamageGrows DEF IInv, Typed
  <2>2. Pointers /\ Executor /\ Pointers'
    BY <1>2, <2>1 DEF IInv, Sound
  <2>3. /\ Loadable = active /\ Spare = IF previous # active THEN previous ELSE 0
        /\ Loadable' = active' /\ Spare' = IF previous' # active' THEN previous' ELSE 0
    BY <2>2 DEF Pointers, Loadable, Spare, Valid
  <2>4. CASE WritePrevious
    BY <2>1, <2>2, <2>3, <2>4
       DEF WritePrevious, Executor, Storing, IInv, Typed, Cache!Next, Cache!Release, Cache!cache
  <2>5. CASE WriteActive
    <3>1. active' = target /\ previous' = previous /\ target \in 1..MaxRevision
      BY <2>5 DEF WriteActive, IInv, Typed, Kept, Storing
    <3>2. target > active /\ previous = active
      BY <2>2, <2>5 DEF WriteActive, Executor, Storing
    <3>3. Cache!Install(target)
      BY <2>1, <2>3, <3>1, <3>2 DEF Cache!Install, IInv, Typed
    <3> QED BY <3>1, <3>3 DEF Cache!Next
  <2>6. CASE ~ WritePrevious /\ ~ WriteActive
    <3>1. active' = active /\ previous' = previous
      <4>1. CASE Fallback
        BY <2>2, <4>1 DEF Fallback, Executor, Pointers, Valid
      <4>2. CASE ~ Fallback
        BY <2>6, <4>2 DEF Next, Run, Publish, DamageDir, Die, Fail, Boot, Load, Poll, UpToDate,
                          Fetch, Stage, Write, Move, Prune, vars, files, pointers
      <4> QED BY <4>1, <4>2
    <3> QED BY <2>1, <2>3, <3>1 DEF Cache!cache
  <2> QED BY <2>4, <2>5, <2>6
<1>3. damage' \in Nat
  BY DEF IInv, Typed
<1> QED BY <1>1, <1>2, <1>3

(* The files, the executor and the restarts of a television implement one  *)
(* revision that an installation replaces in a single step.                *)
THEOREM StoreIsAtomicCache == Spec => Implements
<1>1. Init => Cache!Init
  BY DEF Init, Cache!Init, Loadable, Spare, Valid
<1>2. IInv /\ [Next]_vars => IInv'
  BY NextKeeps
<1>3. IInv /\ IInv' /\ [Next]_vars => [Cache!Next]_(Cache!cache)
  BY CacheStep
<1> QED BY InitKeeps, <1>1, <1>2, <1>3, PTL DEF Spec, Implements, Cache!Spec
=============================================================================
