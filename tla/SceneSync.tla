----------------------------- MODULE SceneSync -----------------------------
(***************************************************************************)
(* The television of SceneSchedule.  It polls GET /tv/sync with the        *)
(* revision it shows, and fetches everything when the server's is another. *)
(*                                                                         *)
(* The handler runs three groups of queries outside any transaction, with  *)
(* a call to the weather gateway between the first two: each is a step     *)
(* here, and the call may itself bump the revision.  How the package it    *)
(* downloads is stored, verified and activated is the subject of           *)
(* ExperienceStore.                                                        *)
(***************************************************************************)
EXTENDS SceneSchedule

VARIABLES
  sync,        \* the television's GET /tv/sync under way
  tv           \* what the television shows, and its revision

vars == <<now, scenes, assigned, schedules, locked, messages, revision, sync, tv>>

Content == [scene : Scenes, revision : 0..MaxDraft, messages : SUBSET Notices]
ASSUME SceneSyncAssumption == None \notin Content
Bundled == [revision |-> 0, content |-> None]
Quiet == [pc |-> "idle", current |-> 0, scene |-> None, draft |-> 0,
          revision |-> 0, content |-> None]

TypeOK ==
  /\ ServerTypeOK
  /\ sync.pc \in {"idle", "asked", "scene", "weather", "revision", "replied", "same"}
  /\ tv.revision \in Nat /\ tv.content \in Content \cup {None}
  /\ tv.revision = 0 <=> tv.content = None

Init == ServerInit /\ sync = Quiet /\ tv = Bundled

----------------------------------------------------------------------------
(* GET /tv/sync.                                                           *)

(* The television polls with the revision it shows.                        *)
Ask ==
  /\ sync.pc = "idle"
  /\ sync' = [Quiet EXCEPT !.pc = "asked", !.current = tv.revision]
  /\ UNCHANGED <<server, tv>>

(* sceneForScreen, before the call to the weather gateway.                 *)
ReadScene ==
  /\ sync.pc = "asked"
  /\ sync' = [sync EXCEPT !.pc = "scene", !.scene = SceneForScreen,
                          !.draft = scenes[SceneForScreen].published]
  /\ UNCHANGED <<server, tv>>

(* A reading of the weather that differs from the one before is news to    *)
(* every television.  Bounded like the publications.                       *)
ReadingChanges ==
  /\ revision < MaxRevision
  /\ Bump
  /\ UNCHANGED <<now, scenes, assigned, schedules, locked, messages>>

(* refreshWeatherForScene, before the revision is read; a reading that is  *)
(* recent, the same or not to be had changes nothing.                      *)
RefreshWeather ==
  /\ sync.pc = "scene"
  /\ sync' = [sync EXCEPT !.pc = "weather"]
  /\ ReadingChanges \/ UNCHANGED server
  /\ UNCHANGED tv

(* The same for another television, or for one that gave up meanwhile.     *)
RefreshElsewhere == ReadingChanges /\ UNCHANGED <<sync, tv>>

(* Mutants: a revision not reached yet is announced; one behind will do.   *)
ReadNextRevision ==
  /\ sync.pc = "weather"
  /\ sync' = [sync EXCEPT !.pc = IF sync.current = revision THEN "same" ELSE "revision",
                          !.revision = revision + 1]
  /\ UNCHANGED <<server, tv>>
ReadRevisionLoosely ==
  /\ sync.pc = "weather"
  /\ sync' = [sync EXCEPT !.pc = IF sync.current + 1 >= revision THEN "same" ELSE "revision",
                          !.revision = revision]
  /\ UNCHANGED <<server, tv>>

(* The revision, after it; equal revisions end the exchange.               *)
ReadRevision ==
  /\ sync.pc = "weather"
  /\ sync' = [sync EXCEPT !.pc = IF sync.current = revision THEN "same" ELSE "revision",
                          !.revision = revision]
  /\ UNCHANGED <<server, tv>>

(* The other documents; the scene is the one prepared before.              *)
ReadDocuments ==
  /\ sync.pc = "revision"
  /\ sync' = [sync EXCEPT !.pc = "replied",
       !.content = [scene |-> sync.scene, revision |-> sync.draft,
                    messages |-> MessagesInForce]]
  /\ UNCHANGED <<server, tv>>

(* fetchAfter accepts a newer revision only, then stores and shows it.     *)
Apply ==
  /\ sync.pc = "replied"
  /\ tv' = IF sync.revision > sync.current
           THEN [revision |-> sync.revision, content |-> sync.content] ELSE tv
  /\ sync' = Quiet
  /\ UNCHANGED server

UpToDate ==
  /\ sync.pc = "same"
  /\ sync' = Quiet
  /\ UNCHANGED <<server, tv>>

(* A timeout, an HTTP error, a failed download or a wrong hash.            *)
Fail ==
  /\ sync.pc # "idle"
  /\ sync' = Quiet
  /\ UNCHANGED <<server, tv>>

Exchange == Ask \/ ReadScene \/ RefreshWeather \/ ReadRevision \/ ReadDocuments
              \/ Apply \/ UpToDate

Next == Exchange \/ Fail \/ RefreshElsewhere \/ (ServerNext /\ UNCHANGED <<sync, tv>>)

Spec == Init /\ [][Next]_vars

(* The television polls every minute, and a poll that is repeated for ever *)
(* gets through in the end; the worker as in SceneSchedule.                *)
Fairness ==
  /\ WF_vars(Transition /\ UNCHANGED <<sync, tv>>)
  /\ WF_vars(Cancel /\ UNCHANGED <<sync, tv>>)
  /\ WF_vars(Ask) /\ WF_vars(UpToDate) /\ SF_vars(ReadScene)
  /\ SF_vars(RefreshWeather)
  /\ SF_vars(ReadRevision) /\ SF_vars(ReadDocuments) /\ SF_vars(Apply)
FairSpec == Spec /\ Fairness

----------------------------------------------------------------------------
(* Correctness.                                                            *)

(* A television never announces a revision the server has not reached, so  *)
(* that a bump is always news to it.                                       *)
NeverAhead == TypeOK /\ tv.revision <= revision /\ sync.current <= tv.revision

(* Once changes stop, the television reaches the server's revision.        *)
CatchesUp == <>[](tv.revision = revision)

(* docs/API.md: upToDate is answered when nothing changed.  Here: nothing  *)
(* of the scene the television shows.                                      *)
UpToDateScene ==
  sync.pc = "same" /\ sync.revision = revision =>
    tv.content.scene = SceneForScreen
      /\ tv.content.revision = scenes[SceneForScreen].published
=============================================================================
