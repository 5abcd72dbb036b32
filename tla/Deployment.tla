----------------------------- MODULE Deployment -----------------------------
(***************************************************************************)
(* The distribution of an APK to televisions by waves: the administrator   *)
(* creates, advances and retries deployments (studio-routes.mjs), each     *)
(* television asks for its next update, downloads it, hands it to the      *)
(* Android PackageInstaller and reports (HttpAppUpdateCoordinator.kt).     *)
(*                                                                         *)
(* An exchange is one step: it fails before the server, or its answer is   *)
(* lost, or it succeeds.  A release is the versionCode of its APK.  Left   *)
(* out: the number of a wave and the `progress` document, shown and never  *)
(* read back; the status `deferred`, which no client reports; enrolment.   *)
(***************************************************************************)
EXTENDS Naturals

CONSTANTS
  Screens,       \* the televisions, all active
  Owners,        \* those where RoomFrame is Device Owner and may install
  Plans,         \* the rows of deployments
  Releases,      \* versionCodes of the verified releases, positive numbers
  MaxFaults      \* bound: lost exchanges, failed downloads, deaths

ASSUME DeploymentAssumption ==
  /\ Owners \subseteq Screens /\ 0 \notin Plans
  /\ Releases \subseteq Nat \ {0} /\ MaxFaults \in Nat

VARIABLES
  plan,       \* deployments: status and release
  target,     \* deployment_targets: the status of each television in each plan
  before,     \* offered_at: the pairs of plans, the first offered earlier
  tv,         \* each television: its coordinator, files and preferences
  faults      \* how many faults have happened

vars == <<plan, target, before, tv, faults>>

NoPlan == 0
Absent == [status |-> "absent", release |-> 0]
Offered == {"offered", "downloading", "downloaded", "installing"}

(* What a report may change a status to.                                   *)
Transitions ==
  [offered     |-> {"downloaded", "failed"},
   downloading |-> {"downloaded", "failed"},
   downloaded  |-> {"installing", "failed"},
   installing  |-> {"installed", "failed"},
   queued |-> {}, installed |-> {}, failed |-> {}, none |-> {}]

TypeOK ==
  /\ plan \in [Plans -> [status : {"absent", "running", "completed"},
                         release : Releases \cup {0}]]
  /\ target \in [Plans -> [Screens -> DOMAIN Transitions]]
  /\ \A t \in Screens :
       /\ before[t] \subseteq Plans \X Plans
       /\ tv[t].pc \in {"idle", "asked", "failing", "apk", "verified", "ready",
                        "granted", "pending"}
       /\ tv[t].plan \in Plans \cup {NoPlan} /\ tv[t].pending \in Plans \cup {NoPlan}
       /\ {tv[t].version, tv[t].apk, tv[t].session} \subseteq Releases \cup {0}
       /\ tv[t].state \in DOMAIN Transitions
       /\ tv[t].result \in {"none", "downloaded", "installing", "installed", "failed"}
       /\ tv[t].pending # NoPlan => plan[tv[t].pending].status # "absent"
  /\ faults \in 0..MaxFaults

Init ==
  /\ plan = [p \in Plans |-> Absent]
  /\ target = [p \in Plans |-> [t \in Screens |-> "none"]]
  /\ before = [t \in Screens |-> {}]
  /\ tv = [t \in Screens |->
       [pc |-> "idle", plan |-> NoPlan, state |-> "none", version |-> 0, apk |-> 0,
        session |-> 0, pending |-> NoPlan, result |-> "none"]]
  /\ faults = 0

Fault == faults < MaxFaults /\ faults' = faults + 1
Release(p) == plan[p].release
In(p, statuses) == {t \in Screens : target[p][t] \in statuses}

(* Televisions receive status "offered", behind what they were offered.    *)
Last(t, p) == {e \in before[t] : e[1] # p} \cup ((Plans \ {p}) \X {p})

Offer(p, chosen, others) ==
  /\ target' = [target EXCEPT ![p] = [t \in Screens |->
       IF t \in chosen THEN "offered" ELSE IF t \in others THEN "queued" ELSE @[t]]]
  /\ before' = [t \in Screens |-> IF t \in chosen THEN Last(t, p) ELSE before[t]]

----------------------------------------------------------------------------
(* The administrator.                                                      *)

(* POST /releases/:id/deployments: a first wave is offered at once.        *)
Create(p, r, members, first) ==
  /\ plan[p] = Absent
  /\ first # {} /\ first \subseteq members
  /\ plan' = [plan EXCEPT ![p] = [status |-> "running", release |-> r]]
  /\ Offer(p, first, members \ first)
  /\ UNCHANGED <<tv, faults>>

(* Mutant: an installation under way does not hold the wave.               *)
BlockersButInstalling(p) == In(p, {"offered", "downloading", "downloaded", "failed"})

(* Statuses that hold a wave.                                              *)
Blockers(p) == In(p, Offered \cup {"failed"})

(* POST /deployments/:id/advance: once every television of the wave has    *)
(* installed, a next wave is offered...                                    *)
Advance(p, next) ==
  /\ plan[p].status = "running" /\ Blockers(p) = {}
  /\ next # {} /\ next \subseteq In(p, {"queued"})
  /\ Offer(p, next, {})
  /\ UNCHANGED <<plan, tv, faults>>

(* ... or, when none is left, the deployment is completed.                 *)
Complete(p) ==
  /\ plan[p].status = "running" /\ Blockers(p) = {}
  /\ In(p, {"queued"}) = {}
  /\ plan' = [plan EXCEPT ![p].status = "completed"]
  /\ UNCHANGED <<target, before, tv, faults>>

(* Mutant: an installation under way is offered again too.                 *)
RetryEverything(p) ==
  /\ plan[p].status = "running" /\ In(p, {"failed", "installing"}) # {}
  /\ Offer(p, In(p, {"failed", "installing"}), {})
  /\ UNCHANGED <<plan, tv, faults>>

(* POST /deployments/:id/retry: what failed is offered again.              *)
Retry(p) ==
  /\ plan[p].status = "running" /\ In(p, {"failed"}) # {}
  /\ Offer(p, In(p, {"failed"}), {})
  /\ UNCHANGED <<plan, tv, faults>>

----------------------------------------------------------------------------
(* A television's exchanges.                                               *)

Accepts(p, t, next) == next \in Transitions[target[p][t]]
Rest(t) == [tv EXCEPT ![t].pc = "idle", ![t].plan = NoPlan, ![t].state = "none"]

(* POST /tv/updates/:id/status.  An answer other than a success ends the   *)
(* pass, as does its loss.                                                 *)
Report(t, p, next, after) ==
  LET Served == [target EXCEPT ![p][t] = IF Accepts(p, t, next) THEN next ELSE @] IN
  /\ \/ /\ target' = Served
        /\ tv' = IF Accepts(p, t, next) THEN after ELSE Rest(t)
        /\ UNCHANGED faults
     \/ Fault /\ target' \in {target, Served} /\ tv' = Rest(t)
  /\ UNCHANGED <<plan, before>>

(* clearPending, once the outcome is known to the server.                  *)
Cleared(t) == [Rest(t) EXCEPT ![t].pending = NoPlan, ![t].result = "none", ![t].apk = 0]

(* Mutant: an installation handed over counts as done.                     *)
OutcomeOptimistic(t) ==
  CASE tv[t].pending = NoPlan \/ tv[t].result = "none" -> "none"
    [] tv[t].pending # NoPlan /\ tv[t].result \in {"installing", "installed"} -> "installed"
    [] tv[t].pending # NoPlan /\ tv[t].result = "failed" -> "failed"
    [] OTHER -> "none"

(* What flushInstallerResult has to report first.                          *)
Outcome(t) ==
  CASE tv[t].pending = NoPlan \/ tv[t].result = "none" -> "none"
    [] tv[t].pending # NoPlan /\ tv[t].result # "none"
         /\ (tv[t].version >= Release(tv[t].pending) \/ tv[t].result = "installed") -> "installed"
    [] tv[t].pending # NoPlan /\ tv[t].version < Release(tv[t].pending)
         /\ tv[t].result = "failed" -> "failed"
    [] OTHER -> "none"

Flush(t) ==
  /\ tv[t].pc = "idle" /\ Outcome(t) # "none"
  /\ Report(t, tv[t].pending, Outcome(t), Cleared(t))

(* Mutant: what failed stays in the list.                                  *)
WaitsWithFailed(p, t) ==
  plan[p].status = "running" /\ target[p][t] \in Offered \cup {"failed"}

(* GET /tv/update: of the plans whose offer awaits the television, the one *)
(* offered first.                                                          *)
Waits(p, t) == plan[p].status = "running" /\ target[p][t] \in Offered

Ask(t) ==
  /\ tv[t].pc = "idle" /\ Outcome(t) = "none"
  /\ \E p \in Plans :
       /\ Waits(p, t) /\ ~ \E q \in Plans : Waits(q, t) /\ <<q, p>> \in before[t]
       /\ tv' = [tv EXCEPT ![t].pc = "asked", ![t].plan = p, ![t].state = target[p][t]]
  /\ UNCHANGED <<plan, target, before, faults>>

(* The version offered is not newer than the one that runs.                *)
ReportKnown(t) ==
  LET p == tv[t].plan IN
  /\ tv[t].pc = "asked" /\ Release(p) <= tv[t].version
  /\ IF tv[t].state = "installing" /\ Release(p) = tv[t].version
     THEN Report(t, p, "installed", Cleared(t))
     ELSE Report(t, p, "failed", Rest(t))

(* An installation under way is left alone.                                *)
Wait(t) ==
  /\ tv[t].pc = "asked" /\ Release(tv[t].plan) > tv[t].version
  /\ tv[t].state = "installing"
  /\ tv' = Rest(t)
  /\ UNCHANGED <<plan, target, before, faults>>

(* GET /tv/updates/:id/apk, unless the file is there already.              *)
Fetched(p, t) ==
  [target EXCEPT ![p][t] = IF @ = "offered" THEN "downloading" ELSE @]

Download(t) ==
  LET p == tv[t].plan IN
  /\ tv[t].pc = "asked" /\ Release(p) > tv[t].version /\ tv[t].state # "installing"
  /\ \/ /\ tv[t].apk = Release(p)
        /\ tv' = [tv EXCEPT ![t].pc = "verified"]
        /\ UNCHANGED <<target, faults>>
     \/ /\ tv[t].apk # Release(p)
        /\ \/ /\ tv' = [tv EXCEPT ![t].pc = "verified", ![t].apk = Release(p)]
              /\ target' = Fetched(p, t) /\ UNCHANGED faults
           \/ /\ tv' = [Rest(t) EXCEPT ![t].apk = 0]
              /\ target' \in {target, Fetched(p, t)} /\ Fault
           \/ /\ tv' = [tv EXCEPT ![t].pc = "failing", ![t].apk = 0]
              /\ target' = Fetched(p, t) /\ Fault
  /\ UNCHANGED <<plan, before>>

(* The file downloaded is not the APK announced.                           *)
ReportUnverified(t) ==
  /\ tv[t].pc = "failing"
  /\ Report(t, tv[t].plan, "failed", Rest(t))

Ready(t) == [tv EXCEPT ![t].pc = "ready"]

ReportDownloaded(t) ==
  /\ tv[t].pc = "verified"
  /\ IF tv[t].state = "downloaded"
     THEN tv' = Ready(t) /\ UNCHANGED <<plan, target, before, faults>>
     ELSE Report(t, tv[t].plan, "downloaded", Ready(t))

(* Not Device Owner, or somebody is using the television.                  *)
Postpone(t) ==
  /\ tv[t].pc = "ready"
  /\ tv' = [Rest(t) EXCEPT ![t].result = "downloaded"]
  /\ UNCHANGED <<plan, target, before, faults>>

ReportInstalling(t) ==
  /\ tv[t].pc = "ready" /\ t \in Owners
  /\ Report(t, tv[t].plan, "installing", [tv EXCEPT ![t].pc = "granted"])

(* The pending installation is recorded...                                 *)
WritePending(t) ==
  /\ tv[t].pc = "granted"
  /\ tv' = [tv EXCEPT ![t].pc = "pending", ![t].pending = tv[t].plan,
                      ![t].result = "installing"]
  /\ UNCHANGED <<plan, target, before, faults>>

(* ... and handed to the PackageInstaller, which may refuse it.            *)
Commit(t) ==
  /\ tv[t].pc = "pending"
  /\ tv' = [Rest(t) EXCEPT ![t].session = tv[t].apk]
  /\ UNCHANGED <<plan, target, before, faults>>

Refused(t) ==
  /\ tv[t].pc = "pending"
  /\ Report(t, tv[t].plan, "failed", Cleared(t))

(* The PackageInstaller replaces the application and restarts it, or       *)
(* fails; AppUpdateResultReceiver records which.                           *)
Install(t) ==
  /\ tv[t].session # 0
  /\ tv' = [Rest(t) EXCEPT ![t].version = tv[t].session, ![t].session = 0,
                           ![t].result = "installed"]
  /\ UNCHANGED <<plan, target, before, faults>>

InstallFails(t) ==
  /\ tv[t].session # 0 /\ Fault
  /\ tv' = [tv EXCEPT ![t].session = 0, ![t].result = "failed"]
  /\ UNCHANGED <<plan, target, before>>

(* The process dies; files, preferences and the installation survive.      *)
Die(t) ==
  /\ tv[t].pc # "idle" /\ Fault
  /\ tv' = Rest(t)
  /\ UNCHANGED <<plan, target, before>>

Pass(t) ==
  \/ Flush(t) \/ Ask(t) \/ ReportKnown(t) \/ Wait(t) \/ Download(t)
  \/ ReportUnverified(t) \/ ReportDownloaded(t) \/ Postpone(t) \/ ReportInstalling(t)
  \/ WritePending(t) \/ Commit(t)

Administer(p) ==
  Complete(p) \/ Retry(p) \/ \E next \in SUBSET Screens : Advance(p, next)

Next ==
  \/ \E p \in Plans, r \in Releases, members \in SUBSET Screens, first \in SUBSET Screens :
       Create(p, r, members, first)
  \/ \E p \in Plans : Administer(p)
  \/ \E t \in Screens : Pass(t) \/ Refused(t) \/ Install(t) \/ InstallFails(t) \/ Die(t)

Spec == Init /\ [][Next]_vars

(* A television polls for ever, is left unattended now and then, and the   *)
(* PackageInstaller answers.                                               *)
FairSpec ==
  /\ Spec
  /\ \A t \in Screens : /\ WF_vars(Pass(t)) /\ WF_vars(Install(t))
                        /\ SF_vars(ReportInstalling(t))

----------------------------------------------------------------------------
(* Correctness.                                                            *)

(* A completed deployment left no television behind: no report of the last *)
(* wave slips in between the look at its statuses and the completion.      *)
CompletedIsSettled ==
  /\ TypeOK
  /\ \A p \in Plans : plan[p].status = "completed" =>
       \A t \in Screens : target[p][t] \in {"installed", "none"}

(* docs/API.md: a status installed whose version is not that of the        *)
(* release is refused.  Then a television said to have installed a release *)
(* runs it or a newer one, whatever was lost or left over on its side.     *)
InstalledIsTrue ==
  \A p \in Plans, t \in Screens :
    target[p][t] = "installed" => tv[t].version >= Release(p)

(* Android installs nothing the server does not know to be installing, so  *)
(* that a wave held by an installation is held for as long as it runs.     *)
InstallsAreGranted ==
  \A t \in Screens : tv[t].session # 0 =>
    \E p \in Plans : target[p][t] = "installing" /\ Release(p) = tv[t].session

(* Short of a fault, an offer to a television that may install is settled. *)
OffersSettle ==
  \A p \in Plans, t \in Owners :
    target[p][t] \in Offered ~> target[p][t] \notin Offered \/ faults > 0
=============================================================================
