--------------------------- MODULE SceneSyncProofs ---------------------------
(***************************************************************************)
(* The schedule and the television that follows it, for any scenes,        *)
(* targets, rows and bounds.                                               *)
(*                                                                         *)
(* Of the server: windows never overlap, and only the clock changes a      *)
(* screen without a bump.  The first is inductive with the types.  The     *)
(* second compares what is chosen before and after a step: a step that     *)
(* does not bump leaves the set of candidates as it is, and the choice     *)
(* falls on a scene (SceneChosen), whose published revision the step       *)
(* leaves alone too.                                                       *)
(*                                                                         *)
(* Of the television: it never announces a revision the server has not     *)
(* reached.  The invariant adds to the bound on what it shows the same     *)
(* bound on the answer it has not read yet: the server's counter only      *)
(* grows (RevisionGrows), so an answer of any age stays below it.          *)
(***************************************************************************)
EXTENDS SceneSync, WellFoundedInduction, TLAPS

(* A row of scene_schedules.                                               *)
ScheduleRows == [status : Statuses, scene : Scenes, target : Targets, window : Window]

(* ServerTypeOK, with rows that are functions, and an instance that always *)
(* has a scene.                                                            *)
Typed ==
  /\ now \in Times
  /\ scenes \in [Scenes -> [current : 0..MaxDraft, published : 0..MaxDraft]]
  /\ \A s \in Scenes : scenes[s].published <= scenes[s].current
  /\ assigned \in [Targets -> Scenes \cup {None}] /\ assigned["instance"] # None
  /\ schedules \in [Slots -> ScheduleRows \cup {None}]
  /\ locked \in Slots \cup {None}
  /\ messages \in [Notices -> Window \cup {None}]
  /\ revision \in Nat \ {0}

(* Live windows of one target do not overlap.                              *)
Apart ==
  \A j, k \in Slots :
    j # k /\ Live(j) /\ Live(k) /\ schedules[j].target = schedules[k].target
      => ~ Overlap(schedules[j].window, schedules[k].window)

IInv == Typed /\ Apart

(* The invariant implies the one the run checks.                           *)
LEMMA IInvImplies == IInv => NoOverlap
<1> SUFFICES ASSUME IInv PROVE NoOverlap OBVIOUS
<1>1. \A s \in Slots : \/ schedules[s] = None
                       \/ /\ schedules[s].status \in Statuses
                          /\ schedules[s].scene \in Scenes
                          /\ schedules[s].target \in Targets
                          /\ schedules[s].window \in Window
  BY DEF IInv, Typed, ScheduleRows
<1>2. ServerTypeOK
  BY <1>1 DEF IInv, Typed, ServerTypeOK
<1> QED BY <1>2 DEF IInv, NoOverlap, Apart

(* It holds of the seeded instance.                                        *)
LEMMA InitKeeps == ServerInit => IInv
<1> SUFFICES ASSUME ServerInit PROVE IInv OBVIOUS
<1>1. now \in Times /\ locked \in Slots \cup {None} /\ revision \in Nat \ {0}
  BY SceneScheduleAssumption DEF ServerInit, Times
<1>2. schedules \in [Slots -> ScheduleRows \cup {None}] /\ messages \in [Notices -> Window \cup {None}]
  BY DEF ServerInit
<1>3. assigned \in [Targets -> Scenes \cup {None}] /\ assigned["instance"] # None
  BY SceneScheduleAssumption DEF ServerInit
<1>4. /\ scenes \in [Scenes -> [current : 0..MaxDraft, published : 0..MaxDraft]]
      /\ \A s \in Scenes : scenes[s].published <= scenes[s].current
  BY SceneScheduleAssumption DEF ServerInit
<1>5. Apart
  BY DEF ServerInit, Apart, Live, Row
<1> QED BY <1>1, <1>2, <1>3, <1>4, <1>5 DEF IInv, Typed

(* Nothing of the schedules changes: windows stay apart.                   *)
LEMMA SameSchedules == IInv /\ Typed' /\ UNCHANGED schedules => IInv'
BY DEF IInv, Apart, Live, Row

(* A step that changes statuses without reviving a row keeps them apart.   *)
LEMMA NoneRevived ==
  ASSUME IInv, Typed',
         \A k \in Slots : /\ Live(k)' => Live(k)
                          /\ Live(k) => /\ schedules'[k].target = schedules[k].target
                                        /\ schedules'[k].window = schedules[k].window
  PROVE  IInv'
<1> SUFFICES ASSUME NEW j \in Slots, NEW k \in Slots, j # k, Live(j)', Live(k)',
                    schedules'[j].target = schedules'[k].target
             PROVE  ~ Overlap(schedules'[j].window, schedules'[k].window)
  BY DEF IInv, Apart, Overlap
<1>1. Live(j) /\ Live(k) OBVIOUS
<1> QED BY <1>1 DEF IInv, Apart

----------------------------------------------------------------------------
(* One lemma for each action.                                              *)

(* A draft leaves the schedules as they are.                               *)
LEMMA StepDraft ==
  ASSUME IInv, NEW s \in Scenes, NEW r \in 0..MaxDraft, SaveDraft(s, r)
  PROVE  IInv'
<1>1. /\ scenes' \in [Scenes -> [current : 0..MaxDraft, published : 0..MaxDraft]]
      /\ \A x \in Scenes : scenes'[x].published <= scenes'[x].current
  BY SceneScheduleAssumption DEF IInv, Typed, SaveDraft
<1>2. Typed'
  BY <1>1 DEF IInv, Typed, SaveDraft, Times, Window, ScheduleRows
<1> QED BY <1>2, SameSchedules DEF SaveDraft

(* So does a publication.                                                  *)
LEMMA StepPublish ==
  ASSUME IInv, NEW s \in Scenes, NEW r \in 0..MaxDraft, Publish(s, r)
  PROVE  IInv'
<1>1. /\ scenes' \in [Scenes -> [current : 0..MaxDraft, published : 0..MaxDraft]]
      /\ \A x \in Scenes : scenes'[x].published <= scenes'[x].current
  BY SceneScheduleAssumption DEF IInv, Typed, Publish
<1>2. Typed'
  BY <1>1 DEF IInv, Typed, Publish, Bump, Times, Window, ScheduleRows
<1> QED BY <1>2, SameSchedules DEF Publish

(* So does an assignment.                                                  *)
LEMMA StepAssign ==
  ASSUME IInv, NEW s \in Scenes, NEW t \in Targets, Assign(s, t)
  PROVE  IInv'
<1>1. assigned' \in [Targets -> Scenes \cup {None}] /\ assigned'["instance"] # None
  BY SceneScheduleAssumption DEF IInv, Typed, Assign
<1>2. Typed'
  BY <1>1 DEF IInv, Typed, Assign, Bump, Times, Window, ScheduleRows
<1> QED BY <1>2, SameSchedules DEF Assign

(* The new window keeps away from those of its target still to be honoured.*)
LEMMA StepSchedule ==
  ASSUME IInv, NEW k \in Slots, NEW s \in Scenes, NEW t \in Targets, NEW w \in Window,
         NEW seen, Schedule(k, s, t, w, seen)
  PROVE  IInv'
<1> DEFINE status == IF w.starts <= seen THEN "active" ELSE "scheduled"
           row == [status |-> status, scene |-> s, target |-> t, window |-> w]
<1>1. schedules' = [schedules EXCEPT ![k] = row]
  BY DEF Schedule
<1>2. row \in ScheduleRows
  BY DEF ScheduleRows, Statuses
<1>3. revision' \in Nat \ {0}
  BY DEF IInv, Typed, Schedule, Bump
<1>4. schedules' \in [Slots -> ScheduleRows \cup {None}]
  <2> HIDE DEF row
  <2> QED BY <1>1, <1>2 DEF IInv, Typed
<1>5. Typed'
  BY <1>3, <1>4 DEF IInv, Typed, Schedule, Times, Window, ScheduleRows
<1>6. schedules'[k].target = t /\ schedules'[k].window = w
  BY <1>1 DEF IInv, Typed
<1>7. \A j \in Slots \ {k} : schedules'[j] = schedules[j]
  BY <1>1 DEF IInv, Typed
<1>8. \A j \in Slots \ {k} : Live(j)' => Live(j)
  BY <1>7 DEF Live, Row
<1>9. \A j \in Slots \ {k} : Live(j)' /\ schedules'[j].target = t =>
        /\ ~ Overlap(schedules'[j].window, w)
        /\ ~ Overlap(w, schedules'[j].window)
  BY <1>7, <1>8 DEF Schedule, Overlap
<1>10. Apart'
  <2> SUFFICES ASSUME NEW i \in Slots, NEW j \in Slots, i # j, Live(i)', Live(j)',
                      schedules'[i].target = schedules'[j].target
               PROVE  ~ Overlap(schedules'[i].window, schedules'[j].window)
    BY DEF Apart, Overlap
  <2>1. CASE i = k
    BY <2>1, <1>6, <1>9
  <2>2. CASE j = k
    BY <2>2, <1>6, <1>9
  <2>3. CASE i # k /\ j # k
    BY <2>3, <1>7, <1>8 DEF IInv, Apart
  <2> QED BY <2>1, <2>2, <2>3
<1> QED BY <1>5, <1>10 DEF IInv

(* A cancellation locks its row.                                           *)
LEMMA StepLock == ASSUME IInv, NEW k \in Slots, LockForCancel(k) PROVE IInv'
<1>1. Typed'
  BY DEF IInv, Typed, LockForCancel, Times, Window, ScheduleRows
<1> QED BY <1>1, SameSchedules DEF LockForCancel

(* A cancellation takes a window away.                                     *)
LEMMA StepCancel == ASSUME IInv, Cancel PROVE IInv'
<1>1. locked \in Slots
  BY DEF IInv, Typed, Cancel
<1>2. CASE Live(locked)
  <2>1. schedules' = [schedules EXCEPT ![locked].status = "cancelled"]
    BY <1>2 DEF Cancel
  <2>2. schedules[locked] \in ScheduleRows
    BY <1>1, <1>2 DEF IInv, Typed, Live, Row
  <2>3. [schedules[locked] EXCEPT !.status = "cancelled"] \in ScheduleRows
    BY <2>2 DEF ScheduleRows, Statuses
  <2>4. schedules' \in [Slots -> ScheduleRows \cup {None}]
    BY <2>1, <2>3 DEF IInv, Typed
  <2>5. revision' \in Nat \ {0}
    BY DEF IInv, Typed, Cancel, Bump
  <2>6. Typed'
    BY <2>4, <2>5 DEF IInv, Typed, Cancel, Times, Window, ScheduleRows
  <2>7. /\ schedules'[locked].status = "cancelled"
        /\ schedules'[locked].target = schedules[locked].target
        /\ schedules'[locked].window = schedules[locked].window
    BY <1>1, <2>1, <2>2 DEF IInv, Typed, ScheduleRows
  <2>8. \A k \in Slots \ {locked} : schedules'[k] = schedules[k]
    BY <2>1 DEF IInv, Typed
  <2> QED BY <2>6, <2>7, <2>8, NoneRevived DEF Live, Row
<1>3. CASE ~ Live(locked)
  <2>1. Typed'
    BY <1>3 DEF IInv, Typed, Cancel, Times, Window, ScheduleRows
  <2> QED BY <1>3, <2>1, SameSchedules DEF Cancel
<1> QED BY <1>2, <1>3

(* A message leaves the schedules as they are.                             *)
LEMMA StepMessage ==
  ASSUME IInv, NEW n \in Notices, NEW w \in Window, PostMessage(n, w)
  PROVE  IInv'
<1>1. messages' \in [Notices -> Window \cup {None}]
  BY DEF IInv, Typed, PostMessage
<1>2. revision' \in Nat \ {0}
  BY DEF IInv, Typed, PostMessage, Bump
<1>3. Typed'
  BY <1>1, <1>2 DEF IInv, Typed, PostMessage, Times, Window, ScheduleRows
<1> QED BY <1>3, SameSchedules DEF PostMessage

(* A pass of the worker opens and closes windows, and revives none.        *)
LEMMA StepTransition == ASSUME IInv, Transition PROVE IInv'
<1>1. \A k \in Due : schedules[k] \in ScheduleRows /\ Live(k)
  BY DEF IInv, Typed, Due, Live, Row
<1>2. \A k \in Due : [schedules[k] EXCEPT !.status = NextStatus(k)] \in ScheduleRows
  BY <1>1 DEF ScheduleRows, Statuses, NextStatus
<1>3. \A k \in Slots : schedules'[k] = IF k \in Due
                         THEN [schedules[k] EXCEPT !.status = NextStatus(k)]
                         ELSE schedules[k]
  BY DEF Transition
<1>4. schedules' \in [Slots -> ScheduleRows \cup {None}]
  BY <1>2 DEF IInv, Typed, Transition
<1>5. revision' \in Nat \ {0}
  BY DEF IInv, Typed, Transition, Bump
<1>6. Typed'
  BY <1>4, <1>5 DEF IInv, Typed, Transition, Times, Window, ScheduleRows
<1>7. \A k \in Due : /\ schedules'[k].target = schedules[k].target
                     /\ schedules'[k].window = schedules[k].window
  <2> SUFFICES ASSUME NEW k \in Due
               PROVE  /\ schedules'[k].target = schedules[k].target
                      /\ schedules'[k].window = schedules[k].window
    OBVIOUS
  <2>1. schedules'[k] = [schedules[k] EXCEPT !.status = NextStatus(k)]
    BY <1>3 DEF Due
  <2> QED BY <2>1, <1>1 DEF ScheduleRows
<1>8. \A k \in Slots \ Due : schedules'[k] = schedules[k]
  BY <1>3
<1> QED BY <1>1, <1>6, <1>7, <1>8, NoneRevived DEF Live, Row

(* The clock moves.                                                        *)
LEMMA StepTick == IInv /\ Tick => IInv'
<1> SUFFICES ASSUME IInv, Tick PROVE IInv' OBVIOUS
<1>1. Typed'
  BY SceneScheduleAssumption DEF IInv, Typed, Tick, Times, Window, ScheduleRows
<1> QED BY <1>1, SameSchedules DEF Tick

(* Every step of the server preserves the invariant.                       *)
LEMMA NextKeeps == IInv /\ [ServerNext]_server => IInv'
<1> SUFFICES ASSUME IInv, [ServerNext]_server PROVE IInv' OBVIOUS
<1>1. CASE Studio
  BY <1>1, StepDraft, StepPublish, StepAssign, StepSchedule, StepLock, StepCancel, StepMessage
     DEF Studio
<1>2. CASE Transition BY <1>2, StepTransition
<1>3. CASE Tick BY <1>3, StepTick
<1>4. CASE UNCHANGED server
  <2>1. Typed'
    BY <1>4 DEF IInv, Typed, server, Times, Window, ScheduleRows
  <2> QED BY <1>4, <2>1, SameSchedules DEF server
<1> QED BY <1>1, <1>2, <1>3, <1>4 DEF ServerNext

(* Windows for one target never overlap: what POST /scene-schedules reads  *)
(* under the write lock is enough, whatever the worker and the             *)
(* cancellations do between.                                               *)
THEOREM WindowsApart == ServerSpec => []NoOverlap
<1>1. IInv /\ [ServerNext]_server => IInv'
  BY NextKeeps
<1> QED BY InitKeeps, <1>1, IInvImplies, PTL DEF ServerSpec

----------------------------------------------------------------------------
(* What sceneForScreen chooses.                                            *)

(* A set of numbers that is not empty has a least one.                     *)
LEMMA LeastExists ==
  ASSUME NEW S, S \subseteq Nat, S # {}
  PROVE  \E x \in S : \A y \in S : x <= y
<1>1. PICK x \in S : \A y \in S : ~ (<<y, x>> \in OpToRel(<, Nat))
  BY NatLessThanWellFounded, WFMin
<1>2. \A y \in S : ~ (y < x)
  BY <1>1 DEF OpToRel
<1> QED BY <1>2

(* The candidates to be shown, never empty, are of this type.              *)
LEMMA CandidatesTyped ==
  ASSUME Typed
  PROVE  /\ Candidates # {}
         /\ \A c \in Candidates : /\ c.source \in {1, 2} /\ c.rank \in {1, 2, 3}
                                  /\ c.since \in 0..MaxTime /\ c.scene \in Scenes
<1>1. \A t \in Targets : Rank[t] \in {1, 2, 3}
  BY SceneScheduleAssumption DEF Rank
<1>2. ASSUME NEW s \in Slots, Row(s, "active")
      PROVE  /\ schedules[s].target \in Targets /\ schedules[s].scene \in Scenes
             /\ schedules[s].window.starts \in 0..MaxTime
  BY <1>2 DEF Row, Typed, ScheduleRows, Window, Times
<1>3. [source |-> 2, rank |-> Rank["instance"], scene |-> assigned["instance"], since |-> 0]
        \in Candidates
  BY SceneScheduleAssumption DEF Candidates, Typed
<1>4. ASSUME NEW c \in Candidates
      PROVE  /\ c.source \in {1, 2} /\ c.rank \in {1, 2, 3}
             /\ c.since \in 0..MaxTime /\ c.scene \in Scenes
  <2>1. CASE \E s \in Slots : /\ Row(s, "active")
                              /\ c = [source |-> 1, rank |-> Rank[schedules[s].target],
                                      scene |-> schedules[s].scene,
                                      since |-> schedules[s].window.starts]
    BY <2>1, <1>1, <1>2
  <2>2. CASE \E t \in Targets : /\ assigned[t] # None
                                /\ c = [source |-> 2, rank |-> Rank[t],
                                        scene |-> assigned[t], since |-> 0]
    <3>1. \A t \in Targets : assigned[t] # None => assigned[t] \in Scenes
      BY DEF Typed
    <3> QED BY <2>2, <3>1, <1>1, SceneScheduleAssumption
  <2> QED BY <2>1, <2>2 DEF Candidates
<1> QED BY <1>3, <1>4

(* One candidate precedes all: the least source, then the least rank, then *)
(* the latest start.                                                       *)
LEMMA SceneChosen ==
  ASSUME Typed
  PROVE  SceneForScreen \in Scenes /\ \E c \in Candidates : SceneForScreen = c.scene
<1> USE CandidatesTyped
<1>1. PICK c1 \in Candidates : \A d \in Candidates : c1.source <= d.source
  <2>1. PICK x \in {c.source : c \in Candidates} : \A y \in {c.source : c \in Candidates} : x <= y
    BY LeastExists
  <2> QED BY <2>1
<1> DEFINE Front == {c \in Candidates : c.source = c1.source}
<1>2. PICK c2 \in Front : \A d \in Front : c2.rank <= d.rank
  <2>1. PICK x \in {c.rank : c \in Front} : \A y \in {c.rank : c \in Front} : x <= y
    BY LeastExists
  <2> QED BY <2>1
<1> DEFINE Nearest == {c \in Front : c.rank = c2.rank}
<1>3. PICK c3 \in Nearest : \A d \in Nearest : c3.since >= d.since
  <2>1. PICK x \in {MaxTime - c.since : c \in Nearest} :
               \A y \in {MaxTime - c.since : c \in Nearest} : x <= y
    <3>1. {MaxTime - c.since : c \in Nearest} \subseteq Nat
      BY SceneScheduleAssumption
    <3> QED BY <3>1, LeastExists
  <2>2. PICK c3 \in Nearest : x = MaxTime - c3.since
    BY <2>1
  <2>3. \A d \in Nearest : MaxTime - c3.since <= MaxTime - d.since
    BY <2>1, <2>2
  <2> QED BY <2>2, <2>3, SceneScheduleAssumption
<1>4. \A d \in Candidates : Precedes(c3, d)
  <2> SUFFICES ASSUME NEW d \in Candidates PROVE Precedes(c3, d) OBVIOUS
  <2>1. CASE c1.source < d.source
    BY <2>1 DEF Precedes
  <2>2. CASE d \in Front /\ c2.rank < d.rank
    BY <2>2 DEF Precedes
  <2>3. CASE d \in Nearest
    BY <2>3, <1>3 DEF Precedes
  <2> QED BY <1>1, <1>2, <2>1, <2>2, <2>3
<1>5. \E c \in Candidates : \A d \in Candidates : Precedes(c, d)
  BY <1>4
<1> QED BY <1>5 DEF SceneForScreen

(* A step that leaves alone the clock, the assignments, the messages, what *)
(* is published and the rows that are active changes no screen.            *)
LEMMA Undisturbed ==
  ASSUME Typed, UNCHANGED <<now, assigned, messages>>,
         \A s \in Scenes : scenes'[s].published = scenes[s].published,
         \A k \in Slots : /\ Row(k, "active")' <=> Row(k, "active")
                          /\ Row(k, "active") => schedules'[k] = schedules[k]
  PROVE  Effective' = Effective
<1>1. {k \in Slots : Row(k, "active")' /\ InForce(schedules[k].window)'}
        = {k \in Slots : Row(k, "active") /\ InForce(schedules[k].window)}
  BY DEF InForce, Started, Ended
<1> DEFINE A == {k \in Slots : Row(k, "active") /\ InForce(schedules[k].window)}
<1>2. Candidates' =
        {[source |-> 1, rank |-> Rank[schedules'[s].target], scene |-> schedules'[s].scene,
          since |-> schedules'[s].window.starts] : s \in A}
        \cup {[source |-> 2, rank |-> Rank[t], scene |-> assigned[t], since |-> 0] :
                t \in {t \in Targets : assigned[t] # None}}
  BY <1>1 DEF Candidates, Rank
<1>3. \A k \in A : schedules'[k] = schedules[k]
  OBVIOUS
<1>4. {[source |-> 1, rank |-> Rank[schedules'[s].target], scene |-> schedules'[s].scene,
        since |-> schedules'[s].window.starts] : s \in A}
      = {[source |-> 1, rank |-> Rank[schedules[s].target], scene |-> schedules[s].scene,
          since |-> schedules[s].window.starts] : s \in A}
  BY <1>3
<1>5. Candidates' = Candidates
  BY <1>2, <1>4 DEF Candidates
<1>6. SceneForScreen' = SceneForScreen
  BY <1>5 DEF SceneForScreen
<1>7. MessagesInForce' = MessagesInForce
  BY DEF MessagesInForce, InForce, Started, Ended
<1> QED BY <1>6, <1>7, SceneChosen DEF Effective

(* A window created without a bump is not open, and shows nothing.         *)
LEMMA QuietSchedule ==
  ASSUME IInv, NEW k \in Slots, NEW s \in Scenes, NEW t \in Targets, NEW w \in Window,
         NEW seen, Schedule(k, s, t, w, seen), revision' # revision + 1
  PROVE  Effective' = Effective
<1>1. ~ (w.starts <= seen)
  BY DEF Schedule, Bump
<1>2. schedules' = [schedules EXCEPT ![k] =
                      [status |-> "scheduled", scene |-> s, target |-> t, window |-> w]]
  BY <1>1 DEF Schedule
<1>3. schedules[k] = None /\ schedules'[k].status = "scheduled"
  BY <1>2 DEF IInv, Typed, Schedule
<1>4. \A j \in Slots \ {k} : schedules'[j] = schedules[j]
  BY <1>2 DEF IInv, Typed
<1> QED BY <1>3, <1>4, Undisturbed DEF IInv, Schedule, Row

(* One cancelled without a bump was not open.                              *)
LEMMA QuietCancel ==
  ASSUME IInv, Cancel, revision' # revision + 1
  PROVE  Effective' = Effective
<1>1. locked \in Slots
  BY DEF IInv, Typed, Cancel
<1>2. CASE Live(locked)
  <2>1. ~ Row(locked, "active")
    BY <1>2 DEF Cancel, Bump
  <2>2. schedules' = [schedules EXCEPT ![locked].status = "cancelled"]
    BY <1>2 DEF Cancel
  <2>3. schedules[locked] \in ScheduleRows
    BY <1>1, <1>2 DEF IInv, Typed, Live, Row
  <2>4. schedules'[locked].status = "cancelled"
    BY <1>1, <2>2, <2>3 DEF IInv, Typed, ScheduleRows
  <2>5. \A k \in Slots \ {locked} : schedules'[k] = schedules[k]
    BY <2>2 DEF IInv, Typed
  <2> QED BY <2>1, <2>4, <2>5, Undisturbed DEF IInv, Cancel, Row
<1>3. CASE ~ Live(locked)
  BY <1>3, Undisturbed DEF IInv, Cancel, Row
<1> QED BY <1>2, <1>3

(* One closed without a bump was not open.                                 *)
LEMMA QuietTransition ==
  ASSUME IInv, Transition, revision' # revision + 1
  PROVE  Effective' = Effective
<1>1. \A k \in Due : NextStatus(k) # "active" /\ ~ Row(k, "active")
  BY DEF Transition, Bump
<1>2. \A k \in Due : schedules[k] \in ScheduleRows
  BY DEF IInv, Typed, Due, Live, Row
<1>3. \A k \in Due : schedules'[k] = [schedules[k] EXCEPT !.status = NextStatus(k)]
  BY DEF Transition, Due
<1>4. \A k \in Due : schedules'[k].status = NextStatus(k)
  BY <1>2, <1>3 DEF ScheduleRows
<1>5. \A k \in Slots \ Due : schedules'[k] = schedules[k]
  BY DEF Transition
<1>6. \A k \in Slots : /\ Row(k, "active")' <=> Row(k, "active")
                       /\ Row(k, "active") => schedules'[k] = schedules[k]
  BY <1>1, <1>4, <1>5 DEF Row
<1> QED BY <1>6, Undisturbed DEF IInv, Transition

(* A draft is not published.                                               *)
LEMMA QuietDraft ==
  ASSUME IInv, NEW s \in Scenes, NEW r \in 0..MaxDraft, SaveDraft(s, r)
  PROVE  Effective' = Effective
<1>1. \A x \in Scenes : scenes'[x].published = scenes[x].published
  BY DEF IInv, Typed, SaveDraft
<1> QED BY <1>1, Undisturbed DEF IInv, SaveDraft, Row

(* A step without a bump changes what is to be shown with the clock only.  *)
LEMMA QuietStep ==
  IInv /\ [ServerNext]_server
    => (Effective' # Effective => revision' = revision + 1 \/ now' # now)
<1> SUFFICES ASSUME IInv, [ServerNext]_server, revision' # revision + 1, now' = now
             PROVE  Effective' = Effective
  OBVIOUS
<1>1. ASSUME NEW s \in Scenes, NEW r \in 0..MaxDraft, SaveDraft(s, r) \/ Publish(s, r)
      PROVE  Effective' = Effective
  BY <1>1, QuietDraft DEF Publish, Bump
<1>2. ASSUME NEW s \in Scenes, NEW t \in Targets, Assign(s, t) PROVE Effective' = Effective
  BY <1>2 DEF Assign, Bump
<1>3. ASSUME NEW k \in Slots, LockForCancel(k) PROVE Effective' = Effective
  BY <1>3, Undisturbed DEF IInv, LockForCancel, Row
<1>4. ASSUME NEW n \in Notices, NEW w \in Window, PostMessage(n, w)
      PROVE  Effective' = Effective
  BY <1>4 DEF PostMessage, Bump
<1>5. CASE Studio
  BY <1>5, <1>1, <1>2, <1>3, <1>4, QuietSchedule, QuietCancel DEF Studio
<1>6. CASE Transition
  BY <1>6, QuietTransition
<1>7. CASE Tick
  BY <1>7 DEF Tick, IInv, Typed, Times
<1>8. CASE UNCHANGED server
  BY <1>8, Undisturbed DEF IInv, server, Row
<1> QED BY <1>5, <1>6, <1>7, <1>8 DEF ServerNext

(* Only the clock changes what a screen should show without a bump of the  *)
(* revision in the same transaction: the routes and the worker tell the    *)
(* televisions of everything they do.                                      *)
THEOREM ChangesBump == ServerSpec => ChangeBumps
<1>1. IInv /\ [ServerNext]_server => IInv'
  BY NextKeeps
<1>2. IInv /\ [ServerNext]_server
        => [Effective' # Effective => revision' = revision + 1 \/ now' # now]_server
  BY QuietStep
<1> QED BY InitKeeps, <1>1, <1>2, PTL DEF ServerSpec, ChangeBumps

(* A window that was cancelled or has ended keeps the row it has: the      *)
(* safety that WindowsClose rests on.                                      *)
ClosedForGood ==
  [][\A k \in Slots : schedules[k] # None /\ ~ Live(k) => schedules'[k] = schedules[k]]_server

(* Neither a route nor a pass of the worker writes such a row.             *)
LEMMA ClosedStep ==
  ASSUME IInv, [ServerNext]_server, NEW k \in Slots, schedules[k] # None, ~ Live(k)
  PROVE  schedules'[k] = schedules[k]
<1>t. schedules \in [Slots -> ScheduleRows \cup {None}]
  BY DEF IInv, Typed
<1>1. ASSUME NEW j \in Slots, NEW s \in Scenes, NEW t \in Targets, NEW w \in Window,
             NEW seen, Schedule(j, s, t, w, seen)
      PROVE  schedules'[k] = schedules[k]
  BY <1>t, <1>1 DEF Schedule
<1>2. CASE Cancel
  BY <1>t, <1>2 DEF Cancel
<1>3. CASE Transition
  <2>1. k \notin Due
    BY DEF Due, Live
  <2> QED BY <1>3, <2>1 DEF Transition
<1>4. CASE UNCHANGED schedules
  BY <1>4
<1> QED BY <1>1, <1>2, <1>3, <1>4
        DEF ServerNext, Studio, SaveDraft, Publish, Assign, LockForCancel, PostMessage, Tick, server

(* No interleaving of creations, cancellations and passes of the worker    *)
(* reopens or moves a window that was cancelled or has ended.              *)
THEOREM NeverReopened == ServerSpec => ClosedForGood
<1>1. IInv /\ [ServerNext]_server => IInv'
  BY NextKeeps
<1>2. IInv /\ [ServerNext]_server =>
        [\A k \in Slots : schedules[k] # None /\ ~ Live(k) => schedules'[k] = schedules[k]]_server
  BY ClosedStep
<1> QED BY InitKeeps, <1>1, <1>2, PTL DEF ServerSpec, ClosedForGood

(***************************************************************************)
(* The television.                                                         *)
(***************************************************************************)

(* Where an exchange may be, and what it has read there.                   *)
Places == {"idle", "asked", "scene", "weather", "revision", "replied", "same"}

(* The types of the television.                                            *)
SyncTyped ==
  /\ sync \in [pc : Places, current : Nat, scene : Scenes \cup {None}, draft : 0..MaxDraft,
               revision : Nat, content : Content \cup {None}]
  /\ tv \in [revision : Nat, content : Content \cup {None}]
  /\ tv.revision = 0 <=> tv.content = None

(* What each place of the handler has read.                                *)
SyncPlace ==
  /\ sync.pc \in {"scene", "weather", "revision", "replied"} => sync.scene \in Scenes
  /\ sync.pc = "replied" => sync.content \in Content

(* What it shows and what it was answered is behind the server.            *)
Behind == /\ tv.revision <= revision /\ sync.revision <= revision
          /\ sync.current <= tv.revision

(* The inductive invariant of the television.                              *)
SyncInv == IInv /\ SyncTyped /\ SyncPlace /\ Behind

(* It implies the invariant the run checks.                                *)
LEMMA SyncInvImplies == SyncInv => NeverAhead
<1> SUFFICES ASSUME SyncInv PROVE NeverAhead OBVIOUS
<1>1. ServerTypeOK
  BY IInvImplies DEF SyncInv, NoOverlap
<1>2. /\ sync.pc \in Places /\ tv.revision \in Nat /\ tv.content \in Content \cup {None}
      /\ tv.revision = 0 <=> tv.content = None
  BY DEF SyncInv, SyncTyped
<1> QED BY <1>1, <1>2 DEF SyncInv, Behind, NeverAhead, TypeOK, Places

(* It holds of a television that shows the bundled scene.                  *)
LEMMA SyncInit == Init => SyncInv
<1> SUFFICES ASSUME Init PROVE SyncInv OBVIOUS
<1>1. IInv /\ revision = 1
  BY InitKeeps DEF Init, ServerInit
<1>2. 0 \in 0..MaxDraft
  BY SceneScheduleAssumption
<1>3. SyncTyped
  BY <1>2 DEF Init, SyncTyped, Quiet, Bundled, Places
<1>4. SyncPlace /\ Behind
  BY <1>1 DEF Init, SyncPlace, Behind, Quiet, Bundled
<1> QED BY <1>1, <1>3, <1>4 DEF SyncInv

(* No route and no transition takes the revision back.                     *)
LEMMA RevisionGrows ==
  ASSUME IInv, ServerNext
  PROVE  revision' \in Nat /\ revision' >= revision
<1>1. revision \in Nat
  BY DEF IInv, Typed
<1>2. revision' = revision \/ revision' = revision + 1
  <2>1. CASE Transition \/ Tick
    BY <2>1 DEF Transition, Tick, Bump
  <2>2. CASE Studio
    BY <2>2 DEF Studio, SaveDraft, Publish, Assign, Schedule, LockForCancel, Cancel,
                PostMessage, Bump
  <2> QED BY <2>1, <2>2 DEF ServerNext
<1> QED BY <1>1, <1>2

(* The television's exchange leaves the server as it is.                   *)
LEMMA SameServer == IInv /\ UNCHANGED server => IInv'
BY NextKeeps

(* An exchange that ends leaves nothing of its answer.                     *)
LEMMA SyncEnds ==
  ASSUME SyncInv, UNCHANGED <<server, tv>>, sync' = Quiet
  PROVE  SyncInv'
<1>1. IInv'
  BY SameServer DEF SyncInv
<1>2. 0 \in 0..MaxDraft
  BY SceneScheduleAssumption
<1>3. SyncTyped'
  BY <1>2 DEF SyncInv, SyncTyped, Quiet, Places, Content
<1>4. SyncPlace' /\ Behind'
  BY DEF SyncInv, SyncTyped, SyncPlace, Behind, Quiet, server, IInv, Typed
<1> QED BY <1>1, <1>3, <1>4 DEF SyncInv

(* The request carries the revision shown.                                 *)
LEMMA StepAsk == SyncInv /\ Ask => SyncInv'
<1> SUFFICES ASSUME SyncInv, Ask PROVE SyncInv' OBVIOUS
<1>1. IInv'
  BY SameServer DEF SyncInv, Ask
<1>2. 0 \in 0..MaxDraft
  BY SceneScheduleAssumption
<1>3. SyncTyped'
  BY <1>2 DEF SyncInv, SyncTyped, Ask, Quiet, Places, Content
<1>4. SyncPlace' /\ Behind'
  BY DEF SyncInv, SyncTyped, SyncPlace, Behind, Ask, Quiet, server, IInv, Typed
<1> QED BY <1>1, <1>3, <1>4 DEF SyncInv

(* The handler reads the scene.                                            *)
LEMMA StepReadScene == SyncInv /\ ReadScene => SyncInv'
<1> SUFFICES ASSUME SyncInv, ReadScene PROVE SyncInv' OBVIOUS
<1>1. IInv'
  BY SameServer DEF SyncInv, ReadScene
<1>2. SceneForScreen \in Scenes
  BY SceneChosen DEF SyncInv, IInv
<1>3. scenes[SceneForScreen].published \in 0..MaxDraft
  BY <1>2 DEF SyncInv, IInv, Typed
<1>4. SyncTyped'
  BY <1>2, <1>3 DEF SyncInv, SyncTyped, ReadScene, Places, Content
<1>5. SyncPlace' /\ Behind'
  BY <1>2 DEF SyncInv, SyncTyped, SyncPlace, Behind, ReadScene, server
<1> QED BY <1>1, <1>4, <1>5 DEF SyncInv

(* A reading of the weather bumps the revision, or changes nothing.        *)
LEMMA ReadingKeeps == IInv /\ (ReadingChanges \/ UNCHANGED server) => IInv' /\ revision' >= revision
<1> SUFFICES ASSUME IInv, ReadingChanges \/ UNCHANGED server PROVE IInv' /\ revision' >= revision
  OBVIOUS
<1>1. revision \in Nat
  BY DEF IInv, Typed
<1>2. CASE ReadingChanges
  <2>1. revision' \in Nat \ {0} /\ revision' >= revision
    BY <1>1, <1>2 DEF ReadingChanges, Bump
  <2>2. UNCHANGED <<now, scenes, assigned, schedules, locked, messages>>
    BY <1>2 DEF ReadingChanges
  <2>3. IInv'
    BY <2>1, <2>2 DEF IInv, Typed, Apart, Live, Row, ScheduleRows, Overlap, Times, Window
  <2> QED BY <2>1, <2>3
<1>3. CASE UNCHANGED server
  BY <1>1, <1>3, SameServer DEF server
<1> QED BY <1>2, <1>3

(* The answer under way knows nothing of the new revision yet.             *)
LEMMA StepRefreshWeather == SyncInv /\ RefreshWeather => SyncInv'
<1> SUFFICES ASSUME SyncInv, RefreshWeather PROVE SyncInv' OBVIOUS
<1>1. IInv' /\ revision' >= revision
  BY ReadingKeeps DEF SyncInv, RefreshWeather
<1>2. revision \in Nat /\ revision' \in Nat
  BY <1>1 DEF SyncInv, IInv, Typed
<1>3. SyncTyped'
  BY DEF SyncInv, SyncTyped, RefreshWeather, Places, Content
<1>4. SyncPlace' /\ Behind'
  BY <1>1, <1>2 DEF SyncInv, SyncTyped, SyncPlace, Behind, RefreshWeather
<1> QED BY <1>1, <1>3, <1>4 DEF SyncInv

(* It reads the revision the server has reached.                           *)
LEMMA StepReadRevision == SyncInv /\ ReadRevision => SyncInv'
<1> SUFFICES ASSUME SyncInv, ReadRevision PROVE SyncInv' OBVIOUS
<1>1. IInv'
  BY SameServer DEF SyncInv, ReadRevision
<1>2. revision \in Nat
  BY DEF SyncInv, IInv, Typed
<1>3. SyncTyped'
  BY <1>2 DEF SyncInv, SyncTyped, ReadRevision, Places, Content
<1>4. SyncPlace' /\ Behind'
  BY <1>2 DEF SyncInv, SyncTyped, SyncPlace, Behind, ReadRevision, server
<1> QED BY <1>1, <1>3, <1>4 DEF SyncInv

(* It reads the other documents.                                           *)
LEMMA StepReadDocuments == SyncInv /\ ReadDocuments => SyncInv'
<1> SUFFICES ASSUME SyncInv, ReadDocuments PROVE SyncInv' OBVIOUS
<1>1. IInv'
  BY SameServer DEF SyncInv, ReadDocuments
<1>2. [scene |-> sync.scene, revision |-> sync.draft, messages |-> MessagesInForce] \in Content
  BY DEF SyncInv, SyncTyped, SyncPlace, ReadDocuments, Content, MessagesInForce
<1>3. SyncTyped'
  BY <1>2 DEF SyncInv, SyncTyped, ReadDocuments, Places, Content
<1>4. SyncPlace' /\ Behind'
  BY <1>2 DEF SyncInv, SyncTyped, SyncPlace, Behind, ReadDocuments, server, Content
<1> QED BY <1>1, <1>3, <1>4 DEF SyncInv

(* What the television shows next is what it was answered.                 *)
LEMMA StepApply == SyncInv /\ Apply => SyncInv'
<1> SUFFICES ASSUME SyncInv, Apply PROVE SyncInv' OBVIOUS
<1>1. CASE sync.revision > sync.current
  <2>1. IInv'
    BY SameServer DEF SyncInv, Apply
  <2>2. 0 \in 0..MaxDraft
    BY SceneScheduleAssumption
  <2>3. tv' = [revision |-> sync.revision, content |-> sync.content] /\ sync' = Quiet
    BY <1>1 DEF Apply
  <2>4. /\ sync.content \in Content /\ sync.content # None
        /\ sync.revision \in Nat /\ sync.revision # 0
    BY <1>1, SceneSyncAssumption DEF Apply, SyncInv, SyncPlace, SyncTyped
  <2>5. SyncTyped'
    <3>1. Quiet \in [pc : Places, current : Nat, scene : Scenes \cup {None},
                     draft : 0..MaxDraft, revision : Nat, content : Content \cup {None}]
      BY <2>2 DEF Quiet, Places
    <3>2. [revision |-> sync.revision, content |-> sync.content]
            \in [revision : Nat, content : Content \cup {None}]
      BY <2>4
    <3>3. tv'.revision # 0 /\ tv'.content # None
      BY <2>3, <2>4
    <3> QED BY <2>3, <3>1, <3>2, <3>3 DEF SyncTyped
  <2>6. SyncPlace' /\ Behind'
    BY <2>3, <2>4 DEF SyncInv, SyncPlace, Behind, Quiet, Apply, server, IInv, Typed
  <2> QED BY <2>1, <2>5, <2>6 DEF SyncInv
<1>2. CASE ~ (sync.revision > sync.current)
  BY <1>2, SyncEnds DEF Apply
<1> QED BY <1>1, <1>2

(* The revision of the server only grows.                                  *)
LEMMA StepServer == SyncInv /\ ServerNext /\ UNCHANGED <<sync, tv>> => SyncInv'
<1> SUFFICES ASSUME SyncInv, ServerNext, UNCHANGED <<sync, tv>> PROVE SyncInv' OBVIOUS
<1>1. IInv'
  BY NextKeeps DEF SyncInv
<1>2. revision' >= revision /\ revision' \in Nat /\ revision \in Nat
  BY RevisionGrows DEF SyncInv, IInv, Typed
<1>3. SyncTyped' /\ SyncPlace'
  BY DEF SyncInv, SyncTyped, SyncPlace, Content
<1>4. Behind'
  BY <1>2 DEF SyncInv, SyncTyped, Behind
<1> QED BY <1>1, <1>3, <1>4 DEF SyncInv

(* A reading made for another television is a bump like another.           *)
LEMMA StepRefreshElsewhere == SyncInv /\ RefreshElsewhere => SyncInv'
<1> SUFFICES ASSUME SyncInv, RefreshElsewhere PROVE SyncInv' OBVIOUS
<1>1. IInv' /\ revision' >= revision
  BY ReadingKeeps DEF SyncInv, RefreshElsewhere
<1>2. revision \in Nat /\ revision' \in Nat
  BY <1>1 DEF SyncInv, IInv, Typed
<1>3. UNCHANGED <<sync, tv>>
  BY DEF RefreshElsewhere
<1>4. SyncTyped' /\ SyncPlace'
  BY <1>3 DEF SyncInv, SyncTyped, SyncPlace, Content
<1>5. Behind'
  BY <1>1, <1>2, <1>3 DEF SyncInv, SyncTyped, Behind
<1> QED BY <1>1, <1>4, <1>5 DEF SyncInv

(* Every step preserves the invariant of the television.                   *)
LEMMA SyncNext == SyncInv /\ [Next]_vars => SyncInv'
<1> SUFFICES ASSUME SyncInv, [Next]_vars PROVE SyncInv' OBVIOUS
<1>1. CASE Exchange
  BY <1>1, StepAsk, StepReadScene, StepRefreshWeather, StepReadRevision, StepReadDocuments,
     StepApply, SyncEnds
     DEF Exchange, UpToDate
<1>2. CASE Fail
  BY <1>2, SyncEnds DEF Fail
<1>3. CASE ServerNext /\ UNCHANGED <<sync, tv>>
  BY <1>3, StepServer
<1>4. CASE UNCHANGED vars
  <2>1. IInv'
    BY <1>4, SameServer DEF SyncInv, vars, server
  <2>2. SyncTyped' /\ SyncPlace' /\ Behind'
    BY <1>4 DEF vars, SyncInv, SyncTyped, SyncPlace, Behind, Content
  <2> QED BY <2>1, <2>2 DEF SyncInv
<1>5. CASE RefreshElsewhere
  BY <1>5, StepRefreshElsewhere
<1> QED BY <1>1, <1>2, <1>3, <1>4, <1>5 DEF Next

(* The revision the television sends with GET /tv/sync is one the server   *)
(* has reached, so that the next bump is always news to it.                *)
THEOREM Behindhand == Spec => []NeverAhead
<1>1. SyncInv /\ [Next]_vars => SyncInv'
  BY SyncNext
<1> QED BY SyncInit, <1>1, SyncInvImplies, PTL DEF Spec

----------------------------------------------------------------------------
(* What is shown was published.                                            *)

(* A scene that is assigned or scheduled has a published revision.         *)
Served ==
  /\ \A t \in Targets : assigned[t] # None => scenes[assigned[t]].published # 0
  /\ \A k \in Slots : schedules[k] # None => scenes[schedules[k].scene].published # 0

(* What the television was answered, and what it shows.                    *)
ShownIsPublished == tv.content # None => tv.content.revision # 0
Answered ==
  /\ sync.pc \in {"scene", "weather", "revision", "replied"} => sync.draft # 0
  /\ sync.pc = "replied" => sync.content.revision # 0

PublishedInv == SyncInv /\ Served /\ Answered /\ ShownIsPublished

(* The scene chosen has a published revision.                              *)
LEMMA ChosenIsPublished ==
  ASSUME Typed, Served
  PROVE  scenes[SceneForScreen].published # 0
<1>1. ASSUME NEW c \in Candidates PROVE scenes[c.scene].published # 0
  BY DEF Candidates, Served, Row
<1>2. \E c \in Candidates : SceneForScreen = c.scene
  BY SceneChosen
<1> QED BY <1>1, <1>2

(* No scene goes back to unpublished, and one that is not published is     *)
(* neither assigned nor scheduled.                                         *)
LEMMA ServedKept ==
  ASSUME IInv, Served, [ServerNext \/ ReadingChanges]_server
  PROVE  Served'
<1>t. /\ scenes \in [Scenes -> [current : 0..MaxDraft, published : 0..MaxDraft]]
      /\ assigned \in [Targets -> Scenes \cup {None}]
      /\ schedules \in [Slots -> ScheduleRows \cup {None}]
  BY DEF IInv, Typed
<1>1. ASSUME NEW s \in Scenes, NEW r \in 0..MaxDraft, SaveDraft(s, r) \/ Publish(s, r)
      PROVE  Served'
  <2>1. /\ \A x \in Scenes : scenes[x].published # 0 => scenes'[x].published # 0
        /\ UNCHANGED <<assigned, schedules>>
    BY <1>t, <1>1 DEF SaveDraft, Publish
  <2> QED BY <1>t, <2>1 DEF Served, ScheduleRows
<1>2. ASSUME NEW s \in Scenes, NEW t \in Targets, Assign(s, t) PROVE Served'
  BY <1>t, <1>2 DEF Assign, Served
<1>3. ASSUME NEW k \in Slots, NEW s \in Scenes, NEW t \in Targets, NEW w \in Window,
             NEW seen, Schedule(k, s, t, w, seen)
      PROVE  Served'
  <2>1. /\ schedules'[k].scene = s /\ scenes[s].published # 0
        /\ \A j \in Slots \ {k} : schedules'[j] = schedules[j]
        /\ UNCHANGED <<scenes, assigned>>
    BY <1>t, <1>3 DEF Schedule
  <2> QED BY <2>1 DEF Served
(* A row that is written again keeps its scene.                            *)
<1>4. ASSUME UNCHANGED <<scenes, assigned>>,
             \A k \in Slots : schedules'[k] # None =>
               schedules[k] # None /\ schedules'[k].scene = schedules[k].scene
      PROVE  Served'
  <2>1. ASSUME NEW t \in Targets, assigned'[t] # None
        PROVE  scenes'[assigned'[t]].published # 0
    BY <1>4, <2>1 DEF Served
  <2>2. ASSUME NEW k \in Slots, schedules'[k] # None
        PROVE  scenes'[schedules'[k].scene].published # 0
    <3>1. schedules[k] # None /\ schedules'[k].scene = schedules[k].scene
      BY <1>4, <2>2
    <3>2. scenes' = scenes
      BY <1>4
    <3> QED BY <3>1, <3>2 DEF Served
  <2> QED BY <2>1, <2>2 DEF Served
<1>5. CASE Cancel
  <2>1. \A k \in Slots : Live(k) => [schedules[k] EXCEPT !.status = "cancelled"].scene
                                      = schedules[k].scene
    BY <1>t DEF Live, Row, ScheduleRows
  <2>2. locked \in Slots
    BY <1>5 DEF Cancel, IInv, Typed
  <2> QED BY <1>t, <1>4, <1>5, <2>1, <2>2 DEF Cancel, Live, Row
<1>6. CASE Transition
  <2>1. \A k \in Due : /\ schedules[k] # None
                       /\ [schedules[k] EXCEPT !.status = NextStatus(k)].scene = schedules[k].scene
    BY <1>t DEF Due, Live, Row, ScheduleRows
  <2>2. \A k \in Slots : schedules'[k] = IF k \in Due
                           THEN [schedules[k] EXCEPT !.status = NextStatus(k)] ELSE schedules[k]
    BY <1>6 DEF Transition
  <2>3. UNCHANGED <<scenes, assigned>>
    BY <1>6 DEF Transition
  <2> HIDE DEF Due
  <2> QED BY <1>4, <2>1, <2>2, <2>3
<1>7. CASE UNCHANGED <<scenes, assigned, schedules>>
  BY <1>7 DEF Served
<1> QED BY <1>1, <1>2, <1>3, <1>5, <1>6, <1>7
        DEF ServerNext, Studio, LockForCancel, PostMessage, Tick, ReadingChanges, server

(* Every step preserves that what is shown was published.                  *)
LEMMA PublishedStep ==
  ASSUME PublishedInv, [Next]_vars
  PROVE  PublishedInv'
<1>t. /\ SyncInv /\ IInv /\ Typed /\ Served /\ Answered /\ ShownIsPublished
      /\ sync \in [pc : Places, current : Nat, scene : Scenes \cup {None}, draft : 0..MaxDraft,
                   revision : Nat, content : Content \cup {None}]
      /\ tv \in [revision : Nat, content : Content \cup {None}]
  BY DEF PublishedInv, SyncInv, SyncTyped, IInv
<1>1. SyncInv'
  BY <1>t, SyncNext
<1>2. Served'
  <2>1. [ServerNext \/ ReadingChanges]_server
    BY DEF Next, Exchange, Ask, ReadScene, RefreshWeather, RefreshElsewhere, ReadRevision, ReadDocuments, Apply, UpToDate, Fail,
           vars, server
  <2> QED BY <1>t, <2>1, ServedKept
<1>3. Answered' /\ ShownIsPublished'
  <2>1. CASE UNCHANGED <<sync, tv>>
    BY <1>t, <2>1 DEF Answered, ShownIsPublished
  <2>2. CASE UNCHANGED tv /\ sync'.pc \in {"idle", "asked", "same"}
    BY <1>t, <2>2 DEF Answered, ShownIsPublished
  <2>3. CASE Ask \/ UpToDate \/ Fail
    <3>1. sync'.pc \in {"idle", "asked"} /\ UNCHANGED tv
      <4>1. [Quiet EXCEPT !.pc = "asked", !.current = tv.revision].pc = "asked"
            /\ Quiet.pc = "idle"
        BY DEF Quiet
      <4> QED BY <2>3, <4>1 DEF Ask, UpToDate, Fail
    <3> QED BY <2>2, <3>1
  <2>4. CASE ReadScene
    <3>1. sync'.pc = "scene" /\ sync'.draft = scenes[SceneForScreen].published /\ tv' = tv
      BY <1>t, <2>4 DEF ReadScene
    <3> QED BY <1>t, <3>1, ChosenIsPublished DEF Answered, ShownIsPublished
  <2>5. CASE ReadRevision
    <3>1. sync'.pc \in {"same", "revision"} /\ sync'.draft = sync.draft /\ tv' = tv
          /\ sync.pc = "weather"
      BY <1>t, <2>5 DEF ReadRevision
    <3> QED BY <1>t, <3>1 DEF Answered, ShownIsPublished
  <2>6. CASE ReadDocuments
    <3>1. sync'.content.revision = sync.draft /\ sync'.draft = sync.draft /\ tv' = tv
          /\ sync.pc = "revision"
      BY <1>t, <2>6 DEF ReadDocuments
    <3> QED BY <1>t, <3>1 DEF Answered, ShownIsPublished
  <2>7. CASE Apply
    <3>1. sync.pc = "replied" /\ sync'.pc = "idle" /\ tv'.content \in {tv.content, sync.content}
      BY <1>t, <2>7 DEF Apply, Quiet
    <3> QED BY <1>t, <3>1 DEF Answered, ShownIsPublished
  <2>8. CASE RefreshWeather
    <3>1. sync.pc = "scene" /\ sync'.pc = "weather" /\ sync'.draft = sync.draft /\ tv' = tv
      BY <1>t, <2>8 DEF RefreshWeather
    <3> QED BY <1>t, <3>1 DEF Answered, ShownIsPublished
  <2>9. CASE RefreshElsewhere
    BY <2>1, <2>9 DEF RefreshElsewhere
  <2> QED BY <2>1, <2>3, <2>4, <2>5, <2>6, <2>7, <2>8, <2>9 DEF Next, Exchange, vars
<1> QED BY <1>1, <1>2, <1>3 DEF PublishedInv

(* A television never shows a scene that was not published: one that is    *)
(* assigned or scheduled is published at that moment and stays so, whatever*)
(* transitions, cancellations and polls cross in between.                  *)
THEOREM OnlyPublishedIsShown == Spec => []ShownIsPublished
<1>1. Init => PublishedInv
  BY SyncInit, SceneScheduleAssumption
     DEF PublishedInv, Init, ServerInit, Served, Answered, ShownIsPublished, Quiet, Bundled
<1>2. PublishedInv /\ [Next]_vars => PublishedInv'
  BY PublishedStep
<1>3. PublishedInv => ShownIsPublished
  BY DEF PublishedInv
<1> QED BY <1>1, <1>2, <1>3, PTL DEF Spec
=============================================================================
