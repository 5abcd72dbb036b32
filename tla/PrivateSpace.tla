---------------------------- MODULE PrivateSpace ----------------------------
(***************************************************************************)
(* The television of PrivateAccess: the overlay that asks for the code     *)
(* (PrivateSpaceOverlayController.kt), and the device policy that hides    *)
(* the applications outside a session                                      *)
(* (PrivateApplicationAccessController.kt).                                *)
(*                                                                         *)
(* The main thread never waits for the network: each of its callbacks is   *)
(* one step.  The overlay's worker does its jobs in their order, and the   *)
(* presence service reconciles on a thread of its own; POLICY_LOCK lets    *)
(* one thread at a time hide or reveal, then persist what it manages.  A   *)
(* worker outlives its overlay for the job it was doing.  A poll is one    *)
(* step here, the subject of SceneSync; the television's own pause after   *)
(* wrong codes, which only refuses more, is left out.                      *)
(***************************************************************************)
EXTENDS PrivateAccess

CONSTANTS
  Refusable,        \* the applications whose hiding Android may refuse
  MaxEvents,        \* bound: what the viewers and the system do, and reports
  MaxChanges        \* bound: changes made in the Studio

VARIABLES
  alive,       \* the process runs
  ui,          \* the overlay, on the main thread
  snapshot,    \* what the last synchronisation delivered, on disk
  queue,       \* the jobs of its worker, the first one under way
  orphan,      \* the job of a worker whose overlay was released
  posts,       \* the worker's messages to the main thread
  rounds,      \* the presence service has to reconcile
  holder,      \* who holds POLICY_LOCK, and what is to be persisted
  kept,        \* the preferences of the policy
  session,     \* PrivateApplicationSessionState
  hidden,      \* the applications Android hides
  installed,   \* the applications present
  refused,     \* history: the applications whose last change was refused
  lost,        \* history: hidden by a process that died before it kept
               \* that, or taken back too early (TakenBack)
  left         \* the events and changes still allowed

device == <<alive, ui, snapshot, queue, orphan, posts, rounds, holder, kept, session,
            hidden, installed, refused, lost>>
vars == <<server, device, left>>

Documents == [enabled : BOOLEAN, generation : Generations, applications : SUBSET Applications]
Configurations == [epoch : Nat, document : Documents]
(* `asked` is history: the epoch in which a code was last typed.           *)
Overlays == [shown : BOOLEAN, epoch : Nat, unlocked : BOOLEAN, validating : BOOLEAN,
             asked : Nat]
NoOverlay == [shown |-> FALSE, epoch |-> 1, unlocked |-> FALSE, validating |-> FALSE,
              asked |-> 0]
Jobs == [kind : {"ask", "open", "close"}, pc : {"new", "asked", "verified", "applied"},
         config : Configurations, code : Codes, request : Requests \cup {None},
         applications : SUBSET Applications]
Posts == [message : {"answered", "opened"}, config : Configurations,
          answer : Answers \cup {None}]
Kept == [desired : SUBSET Applications, managed : SUBSET Applications,
         pending : SUBSET Applications]
Holders == [by : {"main", "presence", "worker", "orphan"}, opens : BOOLEAN, kept : Kept]

ASSUME PrivateSpaceAssumption ==
  /\ Refusable \subseteq Applications /\ MaxEvents \in Nat /\ MaxChanges \in Nat
  /\ None \notin Jobs /\ None \notin Holders

TypeOK ==
  /\ ServerTypeOK
  /\ alive \in BOOLEAN /\ rounds \in BOOLEAN /\ session \in BOOLEAN
  /\ ui \in Overlays /\ snapshot \in Documents
  /\ queue \in Seq(Jobs) /\ posts \in Seq(Posts)
  /\ orphan \in {None} \cup {j \in Jobs : j.kind # "ask"}
  /\ holder \in {None} \cup Holders /\ kept \in Kept
  /\ UNION {hidden, installed, refused, lost} \subseteq Applications
  /\ ~ alive => ~ ui.shown /\ queue = <<>> /\ orphan = None /\ holder = None /\ ~ session

----------------------------------------------------------------------------
(* The configuration of an unlock: any lock or change makes another epoch. *)

Ready(d) == d.enabled /\ d.generation # 0 /\ d.applications # {}
Config == [epoch |-> ui.epoch, document |-> snapshot]

(* Mutant: what was unlocked is compared, and not when.                    *)
SameDocument(config) == Ready(config.document) /\ ui.shown /\ config.document = snapshot

(* privateUnlockResultCanBeApplied.                                        *)
CanBeApplied(config) == Ready(config.document) /\ ui.shown /\ config = Config

(* enforcementApplicationIds.                                              *)
Enforced(d) == IF d.enabled /\ d.generation # 0 THEN d.applications ELSE {}

Job(kind) == [kind |-> kind, pc |-> "new", config |-> Config, code |-> None,
              request |-> None, applications |-> {}]
Closing(d) == [Job("close") EXCEPT !.applications = Enforced(d)]

----------------------------------------------------------------------------
(* The device policy.                                                      *)

(* Mutant: a release that was refused is not tried again.                  *)
ToReleaseOnce(manage) == kept.managed \ manage

(* privateApplicationReconciliation.                                       *)
ToRelease(manage) == (kept.managed \cup kept.pending) \ manage

(* Hide or reveal: the former allowlist is released first, and while a     *)
(* release is refused nothing new is managed.                              *)
Policy(by, desired, hide, opens) ==
  \E refusals \in SUBSET Refusable :
    LET manage == desired \cap installed
        release == ToRelease(manage)
        pending == release \cap refusals
        managed == IF pending = {} THEN manage ELSE manage \cap kept.managed
        shown == (IF hide THEN release ELSE release \cup managed) \ refusals
    IN /\ hidden' = (hidden \ shown) \cup (IF hide THEN managed \ refusals ELSE {})
       /\ refused' = (refused \ (release \cup managed))
                       \cup ((release \cup managed) \cap refusals)
       /\ holder' = [by |-> by, opens |-> opens,
                     kept |-> [desired |-> desired, managed |-> managed, pending |-> pending]]

Unheld == alive /\ holder = None

(* The main thread is not waiting for the policy.                          *)
MainFree == alive /\ (holder # None => holder.by # "main")

----------------------------------------------------------------------------
(* The jobs of a worker, its overlay's or an orphan.                       *)

Doing(thread) == IF thread = "worker" THEN queue # <<>> ELSE orphan # None
JobOf(thread) == IF thread = "worker" THEN Head(queue) ELSE orphan
Becomes(thread, job) ==
  IF thread = "worker" THEN queue' = [queue EXCEPT ![1] = job] /\ UNCHANGED orphan
  ELSE orphan' = job /\ UNCHANGED queue
Done(thread) == IF thread = "worker" THEN queue' = Tail(queue) /\ UNCHANGED orphan
                ELSE orphan' = None /\ UNCHANGED queue

Tell(message, job, answer) ==
  posts' = Append(posts, [message |-> message, config |-> job.config, answer |-> answer])

(* HttpPrivateAccessClient.unlock: the request is sent...                  *)
Ask ==
  /\ alive /\ queue # <<>> /\ Head(queue).kind = "ask" /\ Head(queue).pc = "new"
  /\ \E r \in Requests :
       /\ Send(r, Head(queue).code, Head(queue).config.document.generation)
       /\ Becomes("worker", [Head(queue) EXCEPT !.pc = "asked", !.request = r])
  /\ UNCHANGED <<alive, ui, snapshot, posts, rounds, holder, kept, session, hidden, installed,
                 refused, lost, left>>

(* ... and answered, or given up.                                          *)
Answered ==
  /\ alive /\ queue # <<>> /\ Head(queue).kind = "ask"
  /\ \/ /\ Head(queue).pc = "asked" /\ unlocks[Head(queue).request].pc = "answered"
        /\ Tell("answered", Head(queue), unlocks[Head(queue).request].answer)
     \/ Tell("answered", Head(queue), "unavailable")
  /\ Leave({Head(queue).request})
  /\ Done("worker")
  /\ UNCHANGED <<alive, ui, snapshot, rounds, holder, kept, session, hidden, installed, refused,
                 lost, left>>

(* Mutant: nothing is verified after the applications are revealed.        *)
VerifyBefore(thread) ==
  /\ alive /\ Doing(thread) /\ JobOf(thread).kind = "open"
  /\ JobOf(thread).pc \in {"new", "applied"}
  /\ LET job == JobOf(thread) IN
     IF job.pc = "applied" \/ (thread = "worker" /\ CanBeApplied(job.config))
     THEN IF job.pc = "new" THEN Becomes(thread, [job EXCEPT !.pc = "verified"])
                                   /\ UNCHANGED posts
          ELSE Done(thread) /\ Tell("opened", job, None)
     ELSE Becomes(thread, Closing(snapshot)) /\ UNCHANGED posts
  /\ UNCHANGED <<server, alive, ui, snapshot, rounds, holder, kept, session, hidden,
                 installed, lost, refused, left>>

(* An opening is verified before the applications are revealed, and after; *)
(* when it is not of this configuration any more, it becomes a closing.    *)
Verify(thread) ==
  /\ alive /\ Doing(thread) /\ JobOf(thread).kind = "open"
  /\ JobOf(thread).pc \in {"new", "applied"}
  /\ LET job == JobOf(thread) IN
     IF thread = "worker" /\ CanBeApplied(job.config)
     THEN IF job.pc = "new" THEN Becomes(thread, [job EXCEPT !.pc = "verified"])
                                   /\ UNCHANGED posts
          ELSE Done(thread) /\ Tell("opened", job, None)
     ELSE /\ Becomes(thread, IF thread = "worker" THEN Closing(snapshot)
                             ELSE [job EXCEPT !.kind = "close", !.pc = "new"])
          /\ UNCHANGED posts
  /\ UNCHANGED <<server, alive, ui, snapshot, rounds, holder, kept, session, hidden,
                 installed, lost, refused, left>>

(* setLocked, up to the persistence: a closing ends the session first.     *)
Apply(thread) ==
  /\ Unheld /\ Doing(thread)
  /\ LET job == JobOf(thread) IN
     \/ /\ job.kind = "close"
        /\ session' = FALSE
        /\ Policy(thread, job.applications, TRUE, FALSE)
     \/ /\ job.kind = "open" /\ job.pc = "verified"
        /\ UNCHANGED session
        /\ Policy(thread, job.config.document.applications, FALSE, TRUE)
  /\ UNCHANGED <<server, alive, ui, snapshot, queue, orphan, posts, rounds, kept, installed,
                 lost, left>>

(* What was to be released and is allowed again, while the release of      *)
(* another is refused: it is neither managed nor to be released.           *)
TakenBack == IF holder.kept.pending = {} THEN {} ELSE kept.pending \cap holder.kept.desired

(* persistManagedApplicationState; only then an opening starts a session.  *)
Keep ==
  /\ holder # None
  /\ kept' = holder.kept /\ holder' = None
  /\ session' = (session \/ holder.opens)
  /\ lost' = (lost \cup TakenBack) \ (kept'.managed \cup kept'.pending)
  /\ IF holder.by \notin {"worker", "orphan"} THEN UNCHANGED <<queue, orphan>>
     ELSE LET job == JobOf(holder.by) IN
          IF job.kind = "close" THEN Done(holder.by)
          ELSE Becomes(holder.by, [job EXCEPT !.pc = "applied"])
  /\ UNCHANGED <<server, alive, ui, snapshot, posts, rounds, hidden, installed, refused,
                 left>>

(* lockPreviouslyManaged, by the presence service.                         *)
Reconcile ==
  /\ Unheld /\ rounds
  /\ rounds' = FALSE
  /\ Policy("presence", kept.desired, ~ session, FALSE)
  /\ UNCHANGED <<server, alive, ui, snapshot, queue, orphan, posts, kept, session,
                 installed, lost, left>>

----------------------------------------------------------------------------
(* The main thread.                                                        *)

Event == left.events > 0 /\ left' = [left EXCEPT !.events = @ - 1]
Change == left.changes > 0 /\ left' = [left EXCEPT !.changes = @ - 1]

(* What is under way is out of date, and a closing queued.                 *)
LockSession ==
  /\ session' = FALSE
  /\ ui' = [ui EXCEPT !.epoch = @ + 1, !.unlocked = FALSE, !.validating = FALSE]

(* update: another configuration locks.                                    *)
Sync ==
  /\ MainFree /\ ui.shown /\ snapshot # Document
  /\ snapshot' = Document
  /\ LockSession /\ queue' = Append(queue, Closing(Document))
  /\ UNCHANGED <<server, alive, orphan, posts, rounds, holder, kept, hidden, installed,
                 lost, refused, left>>

(* lockForHome, the source menu, the exit.                                 *)
Lock ==
  /\ Event /\ MainFree /\ ui.shown
  /\ LockSession /\ queue' = Append(queue, Closing(snapshot))
  /\ UNCHANGED <<server, alive, snapshot, orphan, posts, rounds, holder, kept, hidden,
                 installed, lost, refused>>

(* ACTION_SCREEN_OFF reaches the activity and the presence service.        *)
ScreenOff ==
  /\ Event /\ MainFree
  /\ rounds' = TRUE
  /\ IF ui.shown THEN LockSession /\ queue' = Append(queue, Closing(snapshot))
     ELSE session' = FALSE /\ UNCHANGED <<ui, queue>>
  /\ UNCHANGED <<server, alive, snapshot, orphan, posts, holder, kept, hidden, installed,
                 lost, refused>>

(* submit: a code of six digits was typed.                                 *)
Submit(code) ==
  /\ Event /\ MainFree /\ ui.shown
  /\ Ready(snapshot) /\ ~ ui.validating /\ ~ ui.unlocked
  /\ ui' = [ui EXCEPT !.validating = TRUE, !.asked = ui.epoch]
  /\ queue' = Append(queue, [Job("ask") EXCEPT !.code = code])
  /\ UNCHANGED <<server, alive, snapshot, orphan, posts, rounds, holder, kept, session,
                 hidden, installed, lost, refused>>

(* A message of the worker; what is out of date closes.                    *)
Receive ==
  /\ MainFree /\ posts # <<>>
  /\ posts' = Tail(posts)
  /\ LET post == Head(posts)
         current == CanBeApplied(post.config)
         opened == post.message = "opened"
     IN /\ ui' = [ui EXCEPT !.validating = opened /\ @,
                            !.unlocked = IF current THEN opened \/ @ ELSE FALSE]
        /\ queue' = IF ~ current THEN Append(queue, Closing(snapshot))
                    ELSE IF post.answer = "granted" THEN Append(queue, Job("open"))
                    ELSE queue
  /\ UNCHANGED <<server, alive, snapshot, orphan, rounds, holder, kept, session, hidden,
                 installed, lost, refused, left>>

(* The activity is created; its first update locks.                        *)
Create ==
  /\ MainFree /\ ~ ui.shown
  /\ ui' = [NoOverlay EXCEPT !.shown = TRUE]
  /\ session' = FALSE
  /\ queue' = <<Closing(snapshot)>>
  /\ UNCHANGED <<server, alive, snapshot, orphan, posts, rounds, holder, kept, hidden,
                 installed, lost, refused, left>>

(* release: the main thread closes by itself, waiting for POLICY_LOCK; the *)
(* worker ends with the job it is doing.                                   *)
Release ==
  /\ Event /\ MainFree /\ ui.shown /\ Unheld /\ orphan = None
  /\ ui' = NoOverlay /\ session' = FALSE
  /\ posts' = <<>> /\ queue' = <<>>
  /\ orphan' = IF queue = <<>> \/ Head(queue).kind = "ask" THEN None
               ELSE IF Head(queue).kind = "close" THEN Head(queue)
               ELSE [Head(queue) EXCEPT !.applications = Enforced(snapshot)]
  /\ Leave(Requests)
  /\ Policy("main", Enforced(snapshot), TRUE, FALSE)
  /\ UNCHANGED <<alive, snapshot, rounds, kept, installed, lost>>

----------------------------------------------------------------------------
(* The process.                                                            *)

Dies ==
  /\ alive' = FALSE /\ ui' = NoOverlay /\ session' = FALSE
  /\ queue' = <<>> /\ orphan' = None /\ posts' = <<>>
  /\ rounds' = FALSE /\ holder' = None
  /\ Leave(Requests)
  /\ lost' = hidden' \ (kept.managed \cup kept.pending)

Kill ==
  /\ Event /\ alive
  /\ UNCHANGED <<snapshot, kept, hidden, installed, refused>>
  /\ Dies

(* The preferences cannot be written, or a worker is interrupted while it  *)
(* writes: it hides what it manages, and throws.                           *)
KeepFails ==
  /\ Event /\ holder # None /\ holder.by \in {"worker", "orphan"}
  /\ \E refusals \in SUBSET Refusable :
       /\ hidden' = hidden \cup (holder.kept.managed \ refusals)
       /\ refused' = (refused \ holder.kept.managed) \cup (holder.kept.managed \cap refusals)
  /\ Dies
  /\ UNCHANGED <<snapshot, kept, installed>>

(* RoomFrameApplication.onCreate: every process starts locked.             *)
Start ==
  /\ ~ alive /\ alive' = TRUE
  /\ Policy("main", kept.desired, TRUE, FALSE)
  /\ UNCHANGED <<server, ui, snapshot, queue, orphan, posts, rounds, kept, session,
                 installed, lost, left>>

(* PACKAGE_ADDED wakes the presence service.                               *)
Install(a) ==
  /\ Event /\ a \notin installed
  /\ installed' = installed \cup {a}
  /\ rounds' = alive
  /\ UNCHANGED <<server, alive, ui, snapshot, queue, orphan, posts, holder, kept, session,
                 hidden, refused, lost>>

----------------------------------------------------------------------------
(* A television that was set up, in an instance that has a code or none.   *)
Init ==
  /\ ServerInit
  /\ alive = TRUE /\ ui = [NoOverlay EXCEPT !.shown = TRUE]
  /\ snapshot = Document
  /\ queue = <<>> /\ orphan = None /\ posts = <<>>
  /\ rounds = FALSE /\ holder = None /\ session = FALSE
  /\ hidden = {} /\ refused = {} /\ lost = {}
  /\ installed \in SUBSET Applications
  /\ kept = [desired |-> {}, managed |-> {}, pending |-> {}]
  /\ left = [events |-> MaxEvents, changes |-> MaxChanges]

Serve == (Database /\ UNCHANGED <<device, left>>) \/ (Studio /\ Change /\ UNCHANGED device)

Inventory == alive /\ Event /\ Report(snapshot.applications) /\ UNCHANGED device

Typed == {None} \cup {<<t, policies[t].generation>> : t \in {t \in Targets : policies[t] # None}}

Main == Sync \/ Receive \/ Start
People == Lock \/ ScreenOff \/ Create \/ Release \/ Kill
            \/ (\E code \in Typed : Submit(code)) \/ \E a \in Applications : Install(a)
Threads == Ask \/ Answered \/ Keep \/ Reconcile
             \/ \E thread \in {"worker", "orphan"} : Verify(thread) \/ Apply(thread)

Next == Serve \/ Inventory \/ Main \/ People \/ Threads \/ KeepFails

Spec == Init /\ [][Next]_vars

(* The threads and the main loop run, a request times out, and Android     *)
(* restarts the process that is its home.                                  *)
Fairness == WF_vars(Threads) /\ WF_vars(Main)
FairSpec == Spec /\ Fairness

----------------------------------------------------------------------------
(* Correctness.                                                            *)

(* What the device policy should hide and does not, refusals apart.        *)
Exposed == (kept.managed \cap installed) \ (hidden \cup refused)

(* A code typed since the last lock was right.                             *)
Granted ==
  /\ Ready(snapshot) /\ ui.shown /\ ui.asked = ui.epoch
  /\ \/ ui.unlocked
     \/ \E j \in 1..Len(queue) : queue[j].kind = "open" /\ CanBeApplied(queue[j].config)
     \/ \E p \in 1..Len(posts) : posts[p].message = "opened" /\ CanBeApplied(posts[p].config)

(* An application is seen outside a session only while a thread is about   *)
(* to hide it.                                                             *)
NoOpenDoor ==
  alive /\ Exposed # {} =>
    \/ Granted \/ rounds \/ holder # None \/ orphan # None
    \/ \E j \in 1..Len(queue) : queue[j].kind \in {"open", "close"}

(* However often a release is refused, an application that is hidden is    *)
(* one the preferences still know, unless a process died before it kept    *)
(* them, or it was taken back while another release was refused.           *)
Known(k) == k.managed \cup k.pending
Tracked ==
  /\ TypeOK
  /\ hidden \subseteq Known(kept) \cup lost \cup (IF holder = None THEN {} ELSE Known(holder.kept))

(* Once the session is over, by whatever end, the applications are hidden. *)
DoorCloses == (Exposed # {} /\ ~ Granted) ~> (Exposed = {} \/ Granted)
=============================================================================
