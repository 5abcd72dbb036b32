--------------------------- MODULE SceneSchedule ---------------------------
(***************************************************************************)
(* What the server holds a screen should show.  The administration         *)
(* publishes, assigns and schedules scenes and posts messages              *)
(* (services/api/src/studio-routes.mjs), the worker opens and closes the   *)
(* scheduled windows (scene-scheduler.mjs), each transaction bumping the   *)
(* one counter `sync_state.revision` when it changes a screen.             *)
(*                                                                         *)
(* Documents are reduced to a scene, its revision and the messages in      *)
(* force; media are always ready; one clock serves the API, the worker and *)
(* PostgreSQL, which share a host.  The targets modelled are those that    *)
(* reach one television: itself, its group, the instance.                  *)
(***************************************************************************)
EXTENDS Integers, FiniteSets

CONSTANTS
  Scenes, Home,     \* the scenes, and the one seeded with the instance
  Targets,          \* the targets in use, a subset of DOMAIN Rank
  Slots,            \* the rows of scene_schedules
  Notices,          \* the rows of messages
  None,             \* no row, or no upper bound of a window
  MaxDraft,         \* bound: revisions of one scene
  MaxRevision,      \* bound: publications and assignments stop at this revision
  MaxTime           \* bound: the clock

Rank == [tv |-> 1, group |-> 2, instance |-> 3]

ASSUME SceneScheduleAssumption ==
  /\ Home \in Scenes /\ "instance" \in Targets /\ Targets \subseteq DOMAIN Rank
  /\ None \notin Scenes \cup Slots \cup Int
  /\ MaxDraft \in Nat \ {0} /\ MaxRevision \in Nat /\ MaxTime \in Nat

VARIABLES
  now,         \* the clock
  scenes,      \* scenes: current_revision and published_revision, 0 for NULL
  assigned,    \* scene_assignments: at most one row per target
  schedules,   \* scene_schedules
  locked,      \* the schedule whose row a cancellation holds FOR UPDATE
  messages,    \* messages: their windows
  revision     \* sync_state.revision

server == <<now, scenes, assigned, schedules, locked, messages, revision>>

Times == 0..MaxTime
Window == [starts : Times, ends : Times \cup {None}]
Statuses == {"scheduled", "active", "completed", "cancelled"}

ServerTypeOK ==
  /\ now \in Times
  /\ scenes \in [Scenes -> [current : 0..MaxDraft, published : 0..MaxDraft]]
  /\ \A s \in Scenes : scenes[s].published <= scenes[s].current
  /\ assigned \in [Targets -> Scenes \cup {None}]
  /\ \A s \in Slots : \/ schedules[s] = None
                      \/ /\ schedules[s].status \in Statuses
                         /\ schedules[s].scene \in Scenes
                         /\ schedules[s].target \in Targets
                         /\ schedules[s].window \in Window
  /\ locked \in Slots \cup {None}
  /\ \A n \in Notices : messages[n] \in Window \cup {None}
  /\ revision \in Nat \ {0}

----------------------------------------------------------------------------
(* A window is half open; one without an end never closes.                 *)
Started(w) == w.starts <= now
Ended(w) == w.ends # None /\ w.ends <= now
InForce(w) == Started(w) /\ ~ Ended(w)
Overlap(v, w) == /\ w.ends = None \/ v.starts < w.ends
                 /\ v.ends = None \/ w.starts < v.ends

Row(s, status) == schedules[s] # None /\ schedules[s].status = status
Live(s) == Row(s, "scheduled") \/ Row(s, "active")

(* sceneForScreen: an active schedule before an assignment, then the       *)
(* television before its group before the instance, then the latest.       *)
Candidates ==
  {[source |-> 1, rank |-> Rank[schedules[s].target], scene |-> schedules[s].scene,
    since |-> schedules[s].window.starts] :
     s \in {s \in Slots : Row(s, "active") /\ InForce(schedules[s].window)}}
  \cup {[source |-> 2, rank |-> Rank[t], scene |-> assigned[t], since |-> 0] :
          t \in {t \in Targets : assigned[t] # None}}

Precedes(c, d) ==
  \/ c.source < d.source
  \/ c.source = d.source /\ c.rank < d.rank
  \/ c.source = d.source /\ c.rank = d.rank /\ c.since >= d.since

SceneForScreen == (CHOOSE c \in Candidates : \A d \in Candidates : Precedes(c, d)).scene

MessagesInForce == {n \in Notices : messages[n] # None /\ InForce(messages[n])}

(* What the screen should show now.                                        *)
Effective == [scene |-> SceneForScreen, revision |-> scenes[SceneForScreen].published,
              messages |-> MessagesInForce]

ServerInit ==
  /\ now = 0
  /\ scenes = [s \in Scenes |-> IF s = Home THEN [current |-> 1, published |-> 1]
                                ELSE [current |-> 0, published |-> 0]]
  /\ assigned = [t \in Targets |-> IF t = "instance" THEN Home ELSE None]
  /\ schedules = [s \in Slots |-> None]
  /\ locked = None
  /\ messages = [n \in Notices |-> None]
  /\ revision = 1

(* bumpSyncRevision, in the transaction that changes a screen.             *)
Bump == revision' = revision + 1

----------------------------------------------------------------------------
(* The Studio.                                                             *)

(* POST /scenes and POST /scenes/:id/revisions; the second refuses a draft *)
(* written over another base than the current one.                         *)
SaveDraft(s, base) ==
  /\ scenes[s].current = base /\ base < MaxDraft
  /\ scenes' = [scenes EXCEPT ![s].current = base + 1]
  /\ UNCHANGED <<now, assigned, schedules, locked, messages, revision>>

(* POST /scenes/:id/publish moves the pointer to any existing revision.    *)
Publish(s, r) ==
  /\ r \in 1..scenes[s].current /\ revision < MaxRevision
  /\ Bump
  /\ scenes' = [scenes EXCEPT ![s].published = r]
  /\ UNCHANGED <<now, assigned, schedules, locked, messages>>

(* PUT /scene-assignments replaces the one row of its target.              *)
Assign(s, t) ==
  /\ scenes[s].published # 0 /\ revision < MaxRevision
  /\ Bump
  /\ assigned' = [assigned EXCEPT ![t] = s]
  /\ UNCHANGED <<now, scenes, schedules, locked, messages>>

(* Mutant: windows not open yet are left out of the search for overlaps.   *)
ScheduleBesideWaiting(k, s, t, w, seen) ==
  /\ schedules[k] = None
  /\ w.starts >= seen - 1
  /\ w.ends # None => w.ends > w.starts /\ w.ends > seen
  /\ scenes[s].published # 0
  /\ \A j \in Slots : Row(j, "active") /\ schedules[j].target = t =>
       ~ Overlap(schedules[j].window, w)
  /\ LET status == IF w.starts <= seen THEN "active" ELSE "scheduled" IN
       /\ schedules' = [schedules EXCEPT ![k] =
            [status |-> status, scene |-> s, target |-> t, window |-> w]]
       /\ IF status = "active" THEN Bump ELSE UNCHANGED revision
  /\ UNCHANGED <<now, scenes, assigned, locked, messages>>

(* POST /scene-schedules: the clock is read before the transaction that    *)
(* takes the write lock, and decides the initial status.                   *)
Schedule(k, s, t, w, seen) ==
  /\ schedules[k] = None
  /\ w.starts >= seen - 1
  /\ w.ends # None => w.ends > w.starts /\ w.ends > seen
  /\ scenes[s].published # 0
  /\ \A j \in Slots : Live(j) /\ schedules[j].target = t =>
       ~ Overlap(schedules[j].window, w)
  /\ LET status == IF w.starts <= seen THEN "active" ELSE "scheduled" IN
       /\ schedules' = [schedules EXCEPT ![k] =
            [status |-> status, scene |-> s, target |-> t, window |-> w]]
       /\ IF status = "active" THEN Bump ELSE UNCHANGED revision
  /\ UNCHANGED <<now, scenes, assigned, locked, messages>>

(* POST /scene-schedules/:id/cancel locks the row first...                 *)
LockForCancel(k) ==
  /\ locked = None /\ schedules[k] # None
  /\ locked' = k
  /\ UNCHANGED <<now, scenes, assigned, schedules, messages, revision>>

(* Mutant: cancelling what is on display tells nobody.                     *)
CancelQuietly ==
  /\ locked # None
  /\ locked' = None
  /\ schedules' = IF Live(locked) THEN [schedules EXCEPT ![locked].status = "cancelled"]
                  ELSE schedules
  /\ UNCHANGED <<now, scenes, assigned, messages, revision>>

(* ... and cancels what is scheduled or active, else rolls back.           *)
Cancel ==
  /\ locked # None
  /\ locked' = None
  /\ IF Live(locked)
     THEN /\ schedules' = [schedules EXCEPT ![locked].status = "cancelled"]
          /\ IF Row(locked, "active") THEN Bump ELSE UNCHANGED revision
     ELSE UNCHANGED <<schedules, revision>>
  /\ UNCHANGED <<now, scenes, assigned, messages>>

(* POST /messages.                                                         *)
PostMessage(n, w) ==
  /\ messages[n] = None
  /\ w.ends # None => w.ends > w.starts
  /\ Bump
  /\ messages' = [messages EXCEPT ![n] = w]
  /\ UNCHANGED <<now, scenes, assigned, schedules, locked>>

----------------------------------------------------------------------------
(* The worker.                                                             *)

(* Mutant: only rows not open yet.                                         *)
DueToOpen ==
  {k \in Slots \ {locked} : Row(k, "scheduled") /\ Started(schedules[k].window)}

(* The rows a pass may change: FOR UPDATE SKIP LOCKED leaves out the one a *)
(* cancellation holds.                                                     *)
Due == {k \in Slots \ {locked} :
          \/ Row(k, "scheduled") /\ Started(schedules[k].window)
          \/ Live(k) /\ Ended(schedules[k].window)}

NextStatus(k) == IF Ended(schedules[k].window) THEN "completed" ELSE "active"

(* processSceneScheduleTransitions: a window missed entirely is closed     *)
(* without a bump.                                                         *)
Transition ==
  /\ Due # {}
  /\ schedules' = [k \in Slots |-> IF k \in Due
                     THEN [schedules[k] EXCEPT !.status = NextStatus(k)]
                     ELSE schedules[k]]
  /\ IF \E k \in Due : NextStatus(k) = "active" \/ Row(k, "active")
     THEN Bump ELSE UNCHANGED revision
  /\ UNCHANGED <<now, scenes, assigned, locked, messages>>

Tick == now < MaxTime /\ now' = now + 1
          /\ UNCHANGED <<scenes, assigned, schedules, locked, messages, revision>>

Studio ==
  \/ \E s \in Scenes, r \in 0..MaxDraft : SaveDraft(s, r) \/ Publish(s, r)
  \/ \E s \in Scenes, t \in Targets : Assign(s, t)
  \/ \E k \in Slots, s \in Scenes, t \in Targets, w \in Window, d \in {0, 1} :
       now - d >= 0 /\ Schedule(k, s, t, w, now - d)
  \/ \E k \in Slots : LockForCancel(k)
  \/ Cancel
  \/ \E n \in Notices, w \in Window : PostMessage(n, w)

ServerNext == Studio \/ Transition \/ Tick

ServerSpec == ServerInit /\ [][ServerNext]_server

(* The worker loops for ever, and a transaction that holds a row ends.     *)
ServerFairness == WF_server(Transition) /\ WF_server(Cancel)
FairServerSpec == ServerSpec /\ ServerFairness

----------------------------------------------------------------------------
(* Correctness.                                                            *)

(* Two windows still to be honoured for one target never overlap, whatever *)
(* the order of creations, cancellations and transitions.                  *)
NoOverlap ==
  /\ ServerTypeOK
  /\ \A j, k \in Slots :
       j # k /\ Live(j) /\ Live(k) /\ schedules[j].target = schedules[k].target
         => ~ Overlap(schedules[j].window, schedules[k].window)

(* Only the clock may change what a screen should show without a bump of   *)
(* the revision in the same transaction.                                   *)
ChangeBumps == [][Effective' # Effective => revision' = revision + 1 \/ now' # now]_server

(* A window that opened is closed, and never opens again, whatever a       *)
(* cancellation holds while the worker passes.                             *)
WindowsClose ==
  \A k \in Slots : (Live(k) /\ Ended(schedules[k].window)) ~> [](~ Live(k))
=============================================================================
