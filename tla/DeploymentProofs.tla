--------------------------- MODULE DeploymentProofs ---------------------------
(***************************************************************************)
(* A television said to have installed a release runs it, Android installs *)
(* nothing the server does not know of, and a completed deployment left no *)
(* television behind, for any televisions, plans, releases and faults.     *)
(*                                                                         *)
(* What a television holds is true of the plan it works on as long as that *)
(* plan stays the first of those that wait for it (Held): nothing else is  *)
(* offered to it before, and only its own reports change the status of     *)
(* what it was offered.  RowInv says so for each television, place by      *)
(* place; a step of one television leaves the others alone (OneMoves), and *)
(* an offer never touches a plan that waits (OfferMoves).                  *)
(***************************************************************************)
EXTENDS Deployment, TLAPS

Statuses == {"offered", "downloading", "downloaded", "installing", "queued", "installed",
             "failed", "none"}
Places == {"idle", "asked", "failing", "apk", "verified", "ready", "granted", "pending"}
Results == {"none", "downloaded", "installing", "installed", "failed"}
Versions == Releases \cup {0}
PlanRows == [status : {"absent", "running", "completed"}, release : Versions]
TvRows == [pc : Places, plan : Plans \cup {NoPlan}, state : Statuses, version : Versions,
           apk : Versions, session : Versions, pending : Plans \cup {NoPlan},
           result : Results]

Typed ==
  /\ plan \in [Plans -> PlanRows]
  /\ target \in [Plans -> [Screens -> Statuses]]
  /\ before \in [Screens -> SUBSET (Plans \X Plans)]
  /\ tv \in [Screens -> TvRows]
  /\ faults \in 0..MaxFaults

(* A plan not created yet concerns nobody, one completed waits for nobody. *)
Settled ==
  \A p \in Plans, t \in Screens :
    /\ plan[p].status = "absent" => target[p][t] = "none"
    /\ plan[p].status = "completed" => target[p][t] \in {"installed", "none"}

(* Plans offered to one television were offered one before the other.      *)
Ordered ==
  \A t \in Screens, p, q \in Plans :
    p # q /\ target[p][t] \notin {"none", "queued"} /\ target[q][t] \notin {"none", "queued"}
      => <<p, q>> \in before[t] \/ <<q, p>> \in before[t]

(* The plan t works on is the first that waits for it.                     *)
Held(t, p) ==
  /\ p \in Plans /\ Waits(p, t)
  /\ \A q \in Plans \ {p} : Waits(q, t) => <<p, q>> \in before[t]

(* What was handed to the PackageInstaller.                                *)
Handed(t) ==
  LET p == tv[t].pending IN
  /\ Held(t, p) /\ target[p][t] = "installing"
  /\ Release(p) = tv[t].session /\ tv[t].session > tv[t].version
  /\ tv[t].result = "installing" /\ tv[t].pc \in {"idle", "asked"}
  /\ tv[t].pc = "asked" => tv[t].plan = p

RowInv(t) ==
  LET p == tv[t].plan IN
  /\ \A q \in Plans : target[q][t] = "installed" => tv[t].version >= Release(q)
  /\ tv[t].pc # "idle" => Held(t, p)
  /\ tv[t].pc = "asked" => tv[t].state = target[p][t]
  /\ tv[t].pc \in {"verified", "ready", "granted", "pending"} =>
       tv[t].apk = Release(p) /\ tv[t].apk > tv[t].version
  /\ tv[t].pc \in {"granted", "pending"} => target[p][t] = "installing"
  /\ tv[t].pc = "pending" => tv[t].pending = p /\ tv[t].result = "installing"
  /\ tv[t].session # 0 => Handed(t)
  /\ tv[t].pending # NoPlan =>
       /\ plan[tv[t].pending].status # "absent"
       /\ tv[t].result = "installed" => tv[t].version >= Release(tv[t].pending)

IInv == Typed /\ Settled /\ Ordered /\ \A t \in Screens : RowInv(t)

LEMMA TypedIsTypeOK == IInv => TypeOK
<1> SUFFICES ASSUME IInv PROVE TypeOK OBVIOUS
<1>1. DOMAIN Transitions = Statuses
  BY DEF Transitions, Statuses
<1>2. target \in [Plans -> [Screens -> DOMAIN Transitions]]
  BY <1>1 DEF IInv, Typed
<1>3. ASSUME NEW t \in Screens
      PROVE  /\ before[t] \subseteq Plans \X Plans
             /\ tv[t].pc \in Places /\ tv[t].state \in DOMAIN Transitions
             /\ tv[t].plan \in Plans \cup {NoPlan} /\ tv[t].pending \in Plans \cup {NoPlan}
             /\ {tv[t].version, tv[t].apk, tv[t].session} \subseteq Versions
             /\ tv[t].result \in Results
             /\ tv[t].pending # NoPlan => plan[tv[t].pending].status # "absent"
  BY <1>1 DEF IInv, Typed, TvRows, RowInv
<1> QED BY <1>2, <1>3 DEF IInv, Typed, TypeOK, PlanRows, Places, Results, Versions

LEMMA Numbers ==
  ASSUME Typed
  PROVE  /\ \A t \in Screens :
              tv[t].version \in Nat /\ tv[t].apk \in Nat /\ tv[t].session \in Nat
         /\ \A p \in Plans : Release(p) \in Nat
<1>1. Versions \subseteq Nat
  BY DeploymentAssumption DEF Versions
<1>2. \A t \in Screens :
        tv[t].version \in Versions /\ tv[t].apk \in Versions /\ tv[t].session \in Versions
  BY DEF Typed, TvRows
<1>3. \A p \in Plans : Release(p) \in Versions
  BY DEF Typed, PlanRows, Release
<1> QED BY <1>1, <1>2, <1>3

LEMMA InitKeeps == Init => IInv
<1> SUFFICES ASSUME Init PROVE IInv OBVIOUS
<1>1. Typed
  BY DeploymentAssumption
     DEF Init, Typed, PlanRows, TvRows, Absent, NoPlan, Statuses, Places, Results, Versions
<1>2. Settled /\ Ordered
  BY DEF Init, Settled, Ordered, Absent
<1>3. \A t \in Screens : RowInv(t)
  BY DEF Init, RowInv, NoPlan
<1> QED BY <1>1, <1>2, <1>3 DEF IInv

----------------------------------------------------------------------------
(* A step of one television.                                               *)

(* A status changes only in what was offered, and never back.              *)
Moves(p, t) ==
  \/ target'[p][t] = target[p][t]
  \/ /\ plan[p].status # "absent"
     /\ target[p][t] \in Offered /\ target'[p][t] \notin {"none", "queued"}

LEMMA HeldStays ==
  ASSUME Typed, NEW t \in Screens, NEW p, Held(t, p), UNCHANGED plan, before'[t] = before[t],
         \A q \in Plans : Moves(q, t), target'[p][t] \in Offered
  PROVE  Held(t, p)'
BY DEF Held, Waits, Moves, Offered

LEMMA OneMoves ==
  ASSUME IInv, NEW t \in Screens, Typed', UNCHANGED <<plan, before>>,
         \A u \in Screens \ {t} : tv'[u] = tv[u] /\ \A p \in Plans : target'[p][u] = target[p][u],
         \A p \in Plans : Moves(p, t),
         RowInv(t)'
  PROVE  IInv'
<1>1. \A p \in Plans, u \in Screens : Moves(p, u)
  BY DEF Moves
<1>2. Settled'
  BY <1>1 DEF IInv, Settled, Moves, Offered
<1>3. Ordered'
  <2> SUFFICES ASSUME NEW u \in Screens, NEW p \in Plans, NEW q \in Plans, p # q,
                      target'[p][u] \notin {"none", "queued"},
                      target'[q][u] \notin {"none", "queued"}
               PROVE  <<p, q>> \in before[u] \/ <<q, p>> \in before[u]
    BY DEF Ordered
  <2>1. target[p][u] \notin {"none", "queued"} /\ target[q][u] \notin {"none", "queued"}
    BY <1>1 DEF Moves, Offered
  <2> QED BY <2>1 DEF IInv, Ordered
<1>4. ASSUME NEW u \in Screens \ {t} PROVE RowInv(u)'
  <2>1. RowInv(u)
    BY DEF IInv
  <2>2. \A p : Held(u, p) => Held(u, p)'
    BY DEF Held, Waits
  <2>3. \A p \in Plans : Release(p)' = Release(p)
    BY DEF Release
  <2>4. tv[u].session # 0 => Handed(u)'
    BY <2>1, <2>2, <2>3 DEF RowInv, Handed, Held
  <2> QED BY <2>1, <2>2, <2>3, <2>4 DEF RowInv, Held, IInv, Typed, TvRows
<1> QED BY <1>2, <1>3, <1>4 DEF IInv

(* What pass after pass returns to, and what an accepted outcome leaves.   *)
LEMMA RestRow ==
  ASSUME Typed, NEW t \in Screens
  PROVE  /\ Rest(t) \in [Screens -> TvRows]
         /\ \A u \in Screens \ {t} : Rest(t)[u] = tv[u]
         /\ Rest(t)[t].pc = "idle" /\ Rest(t)[t].plan = NoPlan
         /\ Rest(t)[t].version = tv[t].version /\ Rest(t)[t].apk = tv[t].apk
         /\ Rest(t)[t].session = tv[t].session /\ Rest(t)[t].pending = tv[t].pending
         /\ Rest(t)[t].result = tv[t].result
BY DEF Typed, TvRows, Rest, Places, Statuses

LEMMA ClearedRow ==
  ASSUME Typed, NEW t \in Screens
  PROVE  /\ Cleared(t) \in [Screens -> TvRows]
         /\ \A u \in Screens \ {t} : Cleared(t)[u] = tv[u]
         /\ Cleared(t)[t].pc = "idle" /\ Cleared(t)[t].plan = NoPlan
         /\ Cleared(t)[t].version = tv[t].version /\ Cleared(t)[t].session = tv[t].session
         /\ Cleared(t)[t].pending = NoPlan /\ Cleared(t)[t].result = "none"
<1>1. Cleared(t) =
        [tv EXCEPT ![t] = [@ EXCEPT !.pc = "idle", !.plan = NoPlan, !.state = "none",
                                    !.pending = NoPlan, !.result = "none", !.apk = 0]]
  BY DEF Cleared, Rest, Typed, TvRows
<1>2. [tv[t] EXCEPT !.pc = "idle", !.plan = NoPlan, !.state = "none",
                    !.pending = NoPlan, !.result = "none", !.apk = 0] \in TvRows
  BY DEF Typed, TvRows, Places, Statuses, Results, Versions
<1> QED BY <1>1, <1>2 DEF Typed, TvRows

(* Statuses follow Transitions, which leave only what was offered.         *)
LEMMA OnlyOffered ==
  ASSUME NEW s \in Statuses, NEW next \in Transitions[s]
  PROVE  s \in Offered /\ next \in {"downloaded", "installing", "installed", "failed"}
BY DEF Transitions, Statuses, Offered

(* A report changes one status, if the server accepts it, and the pass     *)
(* goes on only then.                                                      *)
LEMMA ReportMoves ==
  ASSUME IInv, NEW t \in Screens, NEW p \in Plans, NEW next, NEW after, Report(t, p, next, after)
  PROVE  /\ UNCHANGED <<plan, before>>
         /\ target' \in [Plans -> [Screens -> Statuses]] /\ faults' \in 0..MaxFaults
         /\ \A q \in Plans, u \in Screens : q # p \/ u # t => target'[q][u] = target[q][u]
         /\ \A q \in Plans : Moves(q, t)
         /\ \/ target'[p][t] = target[p][t] /\ tv' = Rest(t)
            \/ target'[p][t] = next /\ tv' \in {after, Rest(t)}
         /\ target'[p][t] = target[p][t] \/ target'[p][t] = next
<1> DEFINE status == IF Accepts(p, t, next) THEN next ELSE target[p][t]
           Served == [target EXCEPT ![p][t] = status]
<1>1. target[p][t] \in Statuses
  BY DEF IInv, Typed
<1>2. Accepts(p, t, next) =>
        /\ target[p][t] \in Offered
        /\ next \in Statuses /\ next \notin {"none", "queued"}
  BY <1>1, OnlyOffered DEF Accepts, Statuses
<1>3. status \in Statuses
  BY <1>1, <1>2
<1>4. target' \in {target, Served}
  BY DEF Report
<1>5. /\ Served \in [Plans -> [Screens -> Statuses]]
      /\ \A q \in Plans, u \in Screens : q # p \/ u # t => Served[q][u] = target[q][u]
      /\ Served[p][t] = status
  <2> HIDE DEF status
  <2> QED BY <1>3 DEF IInv, Typed
<1>6. /\ target' \in [Plans -> [Screens -> Statuses]]
      /\ \A q \in Plans, u \in Screens : q # p \/ u # t => target'[q][u] = target[q][u]
      /\ target'[p][t] \in {target[p][t], status}
  <2> HIDE DEF Served, status
  <2> QED BY <1>4, <1>5 DEF IInv, Typed
<1>7. UNCHANGED <<plan, before>> /\ faults' \in 0..MaxFaults
  BY DeploymentAssumption DEF Report, Fault, IInv, Typed
<1>8. \A q \in Plans : Moves(q, t)
  <2> SUFFICES ASSUME NEW q \in Plans, target'[q][t] # target[q][t] PROVE Moves(q, t)
    BY DEF Moves
  <2>1. q = p /\ target'[p][t] = next /\ Accepts(p, t, next)
    BY <1>6
  <2>2. plan[p].status # "absent"
    BY <2>1, <1>2 DEF IInv, Settled, Offered
  <2> QED BY <2>1, <2>2, <1>2 DEF Moves
<1>9. \/ target'[p][t] = target[p][t] /\ tv' = Rest(t)
      \/ target'[p][t] = next /\ tv' \in {after, Rest(t)}
  <2>1. CASE Accepts(p, t, next)
    <3>1. target'[p][t] \in {target[p][t], next}
      BY <1>6, <2>1
    <3>2. tv' = Rest(t) \/ (tv' = after /\ target' = Served)
      BY <2>1 DEF Report
    <3>3. tv' = after /\ target' = Served => target'[p][t] = next
      <4> SUFFICES ASSUME target' = Served PROVE target'[p][t] = next OBVIOUS
      <4>1. target'[p][t] = status
        <5> HIDE DEF Served, status
        <5> QED BY <1>5
      <4> QED BY <4>1, <2>1
    <3> QED BY <3>1, <3>2, <3>3
  <2>2. CASE ~ Accepts(p, t, next)
    <3>1. tv' = Rest(t)
      BY <2>2 DEF Report
    <3>2. target'[p][t] = target[p][t]
      BY <1>6, <2>2
    <3> QED BY <3>1, <3>2
  <2> QED BY <2>1, <2>2
<1> QED BY <1>6, <1>7, <1>8, <1>9

(* Nothing is installed while a television reports: what remains is that   *)
(* "installed" is true, and what it does after an accepted report.         *)
LEMMA ReportKeeps ==
  ASSUME IInv, NEW t \in Screens, NEW p \in Plans, NEW next, NEW after, Report(t, p, next, after),
         tv[t].session = 0, next = "installed" => tv[t].version >= Release(p),
         tv' = after /\ after # Rest(t) =>
           /\ tv' \in [Screens -> TvRows] /\ \A u \in Screens \ {t} : tv'[u] = tv[u]
           /\ target'[p][t] = next
                /\ (\A q \in Plans \ {p} : target'[q][t] = target[q][t])
                /\ UNCHANGED <<plan, before>>
                => RowInv(t)'
  PROVE  IInv'
<1> USE ReportMoves
<1>1. \A q \in Plans \ {p} : target'[q][t] = target[q][t]
  OBVIOUS
<1>2. ASSUME tv' = Rest(t)
      PROVE  tv' \in [Screens -> TvRows] /\ RowInv(t)' /\ \A u \in Screens \ {t} : tv'[u] = tv[u]
  <2>1. /\ tv' \in [Screens -> TvRows] /\ \A u \in Screens \ {t} : tv'[u] = tv[u]
        /\ tv'[t].pc = "idle" /\ tv'[t].version = tv[t].version
        /\ tv'[t].session = tv[t].session /\ tv'[t].pending = tv[t].pending
        /\ tv'[t].result = tv[t].result
    BY <1>2, RestRow DEF IInv
  <2>2. \A q \in Plans : target'[q][t] = "installed" => tv[t].version >= Release(q)
    BY <1>1 DEF IInv, RowInv
  <2>3. UNCHANGED plan
    OBVIOUS
  <2>4. RowInv(t)
    BY DEF IInv
  <2>5. RowInv(t)'
    BY <2>1, <2>2, <2>3, <2>4 DEF RowInv, Release
  <2> QED BY <2>1, <2>5
<1>3. CASE tv' = Rest(t)
  <2>1. Typed'
    BY <1>2, <1>3 DEF IInv, Typed, PlanRows, TvRows
  <2> QED BY <1>2, <1>3, <2>1, OneMoves
<1>4. CASE tv' = after /\ tv' # Rest(t)
  <2>1. target'[p][t] = next
    BY <1>4
  <2>2. RowInv(t)'
    BY <1>1, <1>4, <2>1
  <2>3. Typed'
    BY <1>4 DEF IInv, Typed, PlanRows, TvRows
  <2> QED BY <1>4, <2>2, <2>3, OneMoves
<1> QED BY <1>3, <1>4

LEMMA ReportClears ==
  ASSUME IInv, NEW t \in Screens, NEW p \in Plans, NEW next, Report(t, p, next, Cleared(t)),
         tv[t].session = 0, next = "installed" => tv[t].version >= Release(p)
  PROVE  IInv'
<1>1. ASSUME tv' = Cleared(t)
      PROVE  /\ tv' \in [Screens -> TvRows] /\ \A u \in Screens \ {t} : tv'[u] = tv[u]
             /\ tv'[t].pc = "idle" /\ tv'[t].version = tv[t].version
             /\ tv'[t].session = 0 /\ tv'[t].pending = NoPlan
  BY <1>1, ClearedRow DEF IInv
<1>2. ASSUME tv' = Cleared(t), target'[p][t] = next, UNCHANGED <<plan, before>>,
             \A q \in Plans \ {p} : target'[q][t] = target[q][t]
      PROVE  RowInv(t)'
  <2>1. \A q \in Plans : target'[q][t] = "installed" => tv[t].version >= Release(q)
    BY <1>2 DEF IInv, RowInv
  <2> QED BY <1>1, <1>2, <2>1 DEF RowInv, Release
<1> QED BY <1>1, <1>2, ReportKeeps

(* After the report of a download or of the grant the pass goes on.        *)
LEMMA ReportGoesOn ==
  ASSUME IInv, NEW t \in Screens, NEW next \in Offered, NEW place \in {"ready", "granted"},
         Report(t, tv[t].plan, next, [tv EXCEPT ![t].pc = place]),
         tv[t].pc \in {"verified", "ready"}, tv[t].session = 0,
         place = "granted" => next = "installing"
  PROVE  IInv'
<1> DEFINE p == tv[t].plan
           after == [tv EXCEPT ![t].pc = place]
<1>1. p \in Plans /\ Held(t, p) /\ RowInv(t)
  BY DEF IInv, RowInv, Held
<1>2. ASSUME tv' = after
      PROVE  /\ tv' \in [Screens -> TvRows] /\ \A u \in Screens \ {t} : tv'[u] = tv[u]
             /\ tv'[t].pc = place
             /\ tv'[t].plan = tv[t].plan /\ tv'[t].version = tv[t].version
             /\ tv'[t].apk = tv[t].apk /\ tv'[t].session = 0
             /\ tv'[t].pending = tv[t].pending /\ tv'[t].result = tv[t].result
  BY <1>2 DEF IInv, Typed, TvRows, Places
<1>3. ASSUME tv' = after, target'[p][t] = next, UNCHANGED <<plan, before>>,
             \A q \in Plans \ {p} : target'[q][t] = target[q][t]
      PROVE  RowInv(t)'
  <2>1. \A q \in Plans : Moves(q, t)
    BY <1>1, ReportMoves
  <2>2. Held(t, p)'
    BY <1>1, <1>3, <2>1, HeldStays DEF IInv
  <2>3. \A q \in Plans : target'[q][t] = "installed" => tv[t].version >= Release(q)
    BY <1>1, <1>3 DEF RowInv, Offered
  <2>4. next = "installing" \/ place = "ready"
    OBVIOUS
  <2> QED BY <1>1, <1>2, <1>3, <2>2, <2>3, <2>4 DEF RowInv, Release
<1>4. next # "installed"
  BY DEF Offered
<1> QED BY <1>1, <1>2, <1>3, <1>4, ReportKeeps

(* While an installation is in the hands of Android, nothing is reported.  *)
LEMMA NothingInstalled ==
  ASSUME IInv, NEW t \in Screens,
         \/ tv[t].pc \notin {"idle", "asked"}
         \/ tv[t].pc = "idle" /\ Outcome(t) # "none"
         \/ tv[t].pc = "asked" /\ Release(tv[t].plan) <= tv[t].version
         \/ tv[t].pc = "asked" /\ tv[t].state # "installing"
  PROVE  tv[t].session = 0
<1> SUFFICES ASSUME tv[t].session # 0 PROVE FALSE OBVIOUS
<1>1. RowInv(t) /\ Handed(t)
  BY DEF IInv, RowInv
<1>2. tv[t].version \in Nat /\ tv[t].session \in Nat
  BY Numbers DEF IInv
<1>3. ~ (tv[t].version >= Release(tv[t].pending)) /\ tv[t].result = "installing"
  BY <1>1, <1>2 DEF Handed
<1>4. Outcome(t) = "none"
  BY <1>3 DEF Outcome
<1>5. tv[t].pc \in {"idle", "asked"} /\ (tv[t].pc = "asked" => tv[t].plan = tv[t].pending)
  BY <1>1 DEF Handed
<1>6. tv[t].pc = "asked" => tv[t].state = "installing"
  BY <1>1, <1>5 DEF RowInv, Handed
<1>7. Release(tv[t].pending) > tv[t].version
  BY <1>1 DEF Handed
<1> QED BY <1>2, <1>4, <1>5, <1>6, <1>7, <1>3

LEMMA StepFlush == ASSUME IInv, NEW t \in Screens, Flush(t) PROVE IInv'
<1>1. tv[t].session = 0
  BY NothingInstalled DEF Flush
<1>2. tv[t].pending \in Plans
  BY DEF Flush, Outcome, IInv, Typed, TvRows
<1>3. Outcome(t) = "installed" => tv[t].version >= Release(tv[t].pending)
  BY <1>2, DeploymentAssumption DEF Outcome, IInv, RowInv, NoPlan
<1> QED BY <1>1, <1>2, <1>3, ReportClears DEF Flush

LEMMA StepReportKnown == ASSUME IInv, NEW t \in Screens, ReportKnown(t) PROVE IInv'
<1>1. tv[t].session = 0
  BY NothingInstalled DEF ReportKnown
<1>2. tv[t].plan \in Plans
  BY DEF ReportKnown, IInv, RowInv, Held
<1>3. tv[t].version \in Nat /\ Release(tv[t].plan) \in Nat
  BY <1>2, Numbers DEF IInv
<1>4. CASE tv[t].state = "installing" /\ Release(tv[t].plan) = tv[t].version
  BY <1>1, <1>2, <1>3, <1>4, ReportClears DEF ReportKnown
<1>5. CASE ~ (tv[t].state = "installing" /\ Release(tv[t].plan) = tv[t].version)
  <2>1. Report(t, tv[t].plan, "failed", Rest(t))
    BY <1>5 DEF ReportKnown
  <2> QED BY <1>1, <1>2, <2>1, ReportKeeps
<1> QED BY <1>4, <1>5

LEMMA StepReportFailure ==
  ASSUME IInv, NEW t \in Screens, ReportUnverified(t) \/ Refused(t)
  PROVE  IInv'
<1>1. tv[t].session = 0
  BY NothingInstalled DEF ReportUnverified, Refused
<1>2. tv[t].plan \in Plans
  BY DEF ReportUnverified, Refused, IInv, RowInv, Held
<1>3. CASE ReportUnverified(t)
  <2>1. Report(t, tv[t].plan, "failed", Rest(t))
    BY <1>3 DEF ReportUnverified
  <2> QED BY <1>1, <1>2, <2>1, ReportKeeps
<1>4. CASE Refused(t)
  <2>1. Report(t, tv[t].plan, "failed", Cleared(t))
    BY <1>4 DEF Refused
  <2> QED BY <1>1, <1>2, <2>1, ReportClears
<1> QED BY <1>3, <1>4

LEMMA StepReportInstalling == ASSUME IInv, NEW t \in Screens, ReportInstalling(t) PROVE IInv'
<1>1. tv[t].session = 0
  BY NothingInstalled DEF ReportInstalling
<1> QED BY <1>1, ReportGoesOn DEF ReportInstalling, Offered

----------------------------------------------------------------------------
(* The other steps of a television.                                        *)

LEMMA TvMoves ==
  ASSUME IInv, NEW t \in Screens, UNCHANGED <<plan, target, before>>, faults' \in 0..MaxFaults,
         tv' \in [Screens -> TvRows], \A u \in Screens \ {t} : tv'[u] = tv[u], RowInv(t)'
  PROVE  IInv'
<1>1. Typed'
  BY DEF IInv, Typed, PlanRows, TvRows
<1>2. \A p \in Plans : Moves(p, t)
  BY DEF Moves
<1> QED BY <1>1, <1>2, OneMoves

(* A pass that ends without a word leaves the television as it was.        *)
LEMMA Rests ==
  ASSUME IInv, NEW t \in Screens, UNCHANGED <<plan, target, before>>, faults' \in 0..MaxFaults,
         tv' = Rest(t)
  PROVE  IInv'
<1>1. /\ tv' \in [Screens -> TvRows] /\ \A u \in Screens \ {t} : tv'[u] = tv[u]
      /\ tv'[t].pc = "idle" /\ tv'[t].version = tv[t].version
      /\ tv'[t].session = tv[t].session /\ tv'[t].pending = tv[t].pending
      /\ tv'[t].result = tv[t].result
  BY RestRow DEF IInv
<1>2. RowInv(t)
  BY DEF IInv
<1>3. tv'[t].session # 0 => Handed(t)'
  BY <1>1, <1>2 DEF RowInv, Handed, Held, Waits, Release
<1>4. RowInv(t)'
  BY <1>1, <1>2, <1>3 DEF RowInv, Release
<1> QED BY <1>1, <1>4, TvMoves

LEMMA StepAsk == ASSUME IInv, NEW t \in Screens, Ask(t) PROVE IInv'
<1>1. PICK p \in Plans :
        /\ Waits(p, t) /\ ~ \E q \in Plans : Waits(q, t) /\ <<q, p>> \in before[t]
        /\ tv' = [tv EXCEPT ![t].pc = "asked", ![t].plan = p, ![t].state = target[p][t]]
  BY DEF Ask
<1>2. Held(t, p)
  BY <1>1 DEF IInv, Ordered, Held, Waits, Offered
<1>3. target[p][t] \in Statuses
  BY DEF IInv, Typed
<1>4. /\ tv' \in [Screens -> TvRows] /\ \A u \in Screens \ {t} : tv'[u] = tv[u]
      /\ tv'[t].pc = "asked" /\ tv'[t].plan = p /\ tv'[t].state = target[p][t]
      /\ tv'[t].version = tv[t].version /\ tv'[t].session = tv[t].session
      /\ tv'[t].pending = tv[t].pending /\ tv'[t].result = tv[t].result
  BY <1>1, <1>3 DEF IInv, Typed, TvRows, Places
<1>5. UNCHANGED <<plan, target, before, faults>> /\ RowInv(t)
  BY DEF Ask, IInv
<1>6. tv[t].session # 0 => tv[t].pending = p
  <2> SUFFICES ASSUME tv[t].session # 0, tv[t].pending # p PROVE FALSE OBVIOUS
  <2>1. Held(t, tv[t].pending)
    BY <1>5 DEF RowInv, Handed
  <2>2. <<tv[t].pending, p>> \in before[t] /\ Waits(tv[t].pending, t) /\ tv[t].pending \in Plans
    BY <1>1, <2>1 DEF Held
  <2> QED BY <1>1, <2>2
<1>7. tv'[t].session # 0 => Handed(t)'
  BY <1>4, <1>5, <1>6 DEF RowInv, Handed, Held, Waits, Release
<1>8. Held(t, p)'
  BY <1>2, <1>5 DEF Held, Waits
<1>9. RowInv(t)'
  BY <1>4, <1>5, <1>7, <1>8 DEF RowInv, Release
<1> QED BY <1>4, <1>5, <1>9, TvMoves DEF IInv, Typed

(* The file of the release asked for is there.                             *)
LEMMA StepDownload == ASSUME IInv, NEW t \in Screens, Download(t) PROVE IInv'
<1>0. PICK p \in Plans : p = tv[t].plan
  BY DEF Download, IInv, RowInv, Held
<1> DEFINE status == IF target[p][t] = "offered" THEN "downloading" ELSE target[p][t]
<1>1. /\ p \in Plans /\ Held(t, p) /\ RowInv(t) /\ tv[t].state # "installing"
      /\ UNCHANGED <<plan, before>>
  BY <1>0 DEF Download, IInv, RowInv
<1>2. tv[t].session = 0
  BY NothingInstalled DEF Download
<1>3. Release(p) > tv[t].version /\ Release(p) \in Versions
  BY <1>0 DEF Download, IInv, Typed, PlanRows, Release
<1>4. /\ Fetched(p, t) \in [Plans -> [Screens -> Statuses]]
      /\ \A q \in Plans, u \in Screens : q # p \/ u # t => Fetched(p, t)[q][u] = target[q][u]
      /\ Fetched(p, t)[p][t] = status
  <2>1. Fetched(p, t) = [target EXCEPT ![p][t] = status]
    BY <1>1 DEF Fetched, IInv, Typed
  <2>2. status \in Statuses
    BY <1>1 DEF IInv, Typed, Statuses
  <2> HIDE DEF status
  <2> QED BY <1>1, <2>1, <2>2 DEF IInv, Typed
<1>5. target' \in {target, Fetched(p, t)} /\ faults' \in 0..MaxFaults
  BY <1>0, DeploymentAssumption DEF Download, Fault, IInv, Typed
<1>6. /\ target' \in [Plans -> [Screens -> Statuses]]
      /\ \A q \in Plans, u \in Screens : q # p \/ u # t => target'[q][u] = target[q][u]
      /\ target'[p][t] \in {target[p][t], status}
  <2> HIDE DEF status
  <2> QED BY <1>4, <1>5 DEF IInv, Typed
<1>7. target[p][t] \in Offered /\ target'[p][t] \in Offered
  BY <1>1, <1>6 DEF Held, Waits, Offered
<1>8. \A q \in Plans : Moves(q, t)
  BY <1>1, <1>6, <1>7 DEF Moves, Offered, Held, Waits
<1>9. Held(t, p)'
  BY <1>1, <1>7, <1>8, HeldStays DEF IInv
<1>10. \A q \in Plans : target'[q][t] = "installed" => tv[t].version >= Release(q)
  BY <1>1, <1>6, <1>7 DEF RowInv, Offered
<1>11. /\ tv' \in [Screens -> TvRows] /\ \A u \in Screens \ {t} : tv'[u] = tv[u]
       /\ tv'[t].pc \in {"idle", "failing", "verified"}
       /\ tv'[t].pc # "idle" => tv'[t].plan = p
       /\ tv'[t].pc = "verified" => tv'[t].apk = Release(p)
       /\ tv'[t].version = tv[t].version /\ tv'[t].session = tv[t].session
       /\ tv'[t].pending = tv[t].pending /\ tv'[t].result = tv[t].result
  <2>1. \/ tv' = [tv EXCEPT ![t].pc = "verified"] /\ tv[t].apk = Release(p)
        \/ tv' = [tv EXCEPT ![t].pc = "verified", ![t].apk = Release(p)]
        \/ tv' = [Rest(t) EXCEPT ![t].apk = 0]
        \/ tv' = [tv EXCEPT ![t].pc = "failing", ![t].apk = 0]
    BY <1>0 DEF Download
  <2>2. CASE tv' = [Rest(t) EXCEPT ![t].apk = 0]
    BY <2>2, RestRow DEF IInv, TvRows, Versions
  <2>3. CASE tv' = [tv EXCEPT ![t].pc = "verified"] /\ tv[t].apk = Release(p)
    BY <1>0, <2>3 DEF IInv, Typed, TvRows, Places
  <2>4. CASE tv' = [tv EXCEPT ![t].pc = "verified", ![t].apk = Release(p)]
    BY <1>0, <1>3, <2>4 DEF IInv, Typed, TvRows, Places
  <2>5. CASE tv' = [tv EXCEPT ![t].pc = "failing", ![t].apk = 0]
    BY <1>0, <2>5 DEF IInv, Typed, TvRows, Places, Versions
  <2> QED BY <2>1, <2>2, <2>3, <2>4, <2>5
<1>12. RowInv(t)'
  BY <1>0, <1>1, <1>2, <1>3, <1>9, <1>10, <1>11 DEF RowInv, Release
<1>13. Typed'
  BY <1>1, <1>5, <1>6, <1>11 DEF IInv, Typed, PlanRows, TvRows
<1> QED BY <1>1, <1>6, <1>8, <1>11, <1>12, <1>13, OneMoves

LEMMA StepReportDownloaded == ASSUME IInv, NEW t \in Screens, ReportDownloaded(t) PROVE IInv'
<1>1. tv[t].session = 0
  BY NothingInstalled DEF ReportDownloaded
<1>2. CASE tv[t].state = "downloaded"
  <2>1. /\ tv' = [tv EXCEPT ![t].pc = "ready"] /\ UNCHANGED <<plan, target, before, faults>>
        /\ RowInv(t) /\ tv[t].pc = "verified"
    BY <1>2 DEF ReportDownloaded, Ready, IInv
  <2>2. /\ tv' \in [Screens -> TvRows] /\ \A u \in Screens \ {t} : tv'[u] = tv[u]
        /\ tv'[t].pc = "ready" /\ tv'[t].plan = tv[t].plan
        /\ tv'[t].version = tv[t].version /\ tv'[t].apk = tv[t].apk
        /\ tv'[t].session = tv[t].session /\ tv'[t].pending = tv[t].pending
        /\ tv'[t].result = tv[t].result
    BY <2>1 DEF IInv, Typed, TvRows, Places
  <2>3. RowInv(t)'
    BY <1>1, <2>1, <2>2 DEF RowInv, Held, Waits, Release
  <2> QED BY <2>1, <2>2, <2>3, TvMoves DEF IInv, Typed
<1>3. CASE tv[t].state # "downloaded"
  BY <1>1, <1>3, ReportGoesOn DEF ReportDownloaded, Ready, Offered
<1> QED BY <1>2, <1>3

LEMMA StepPostpone == ASSUME IInv, NEW t \in Screens, Postpone(t) PROVE IInv'
<1>1. tv[t].session = 0
  BY NothingInstalled DEF Postpone
<1>2. /\ tv' \in [Screens -> TvRows] /\ \A u \in Screens \ {t} : tv'[u] = tv[u]
      /\ tv'[t].pc = "idle" /\ tv'[t].version = tv[t].version
      /\ tv'[t].session = tv[t].session /\ tv'[t].pending = tv[t].pending
      /\ tv'[t].result = "downloaded"
  BY RestRow DEF Postpone, IInv, TvRows, Results
<1>3. UNCHANGED <<plan, target, before, faults>> /\ RowInv(t)
  BY DEF Postpone, IInv
<1>4. RowInv(t)'
  BY <1>1, <1>2, <1>3 DEF RowInv, Release
<1> QED BY <1>2, <1>3, <1>4, TvMoves DEF IInv, Typed

LEMMA StepWritePending == ASSUME IInv, NEW t \in Screens, WritePending(t) PROVE IInv'
<1>1. tv[t].session = 0
  BY NothingInstalled DEF WritePending
<1>2. UNCHANGED <<plan, target, before, faults>> /\ RowInv(t) /\ tv[t].pc = "granted"
  BY DEF WritePending, IInv
<1>3. /\ tv' \in [Screens -> TvRows] /\ \A u \in Screens \ {t} : tv'[u] = tv[u]
      /\ tv'[t].pc = "pending" /\ tv'[t].plan = tv[t].plan
      /\ tv'[t].version = tv[t].version /\ tv'[t].apk = tv[t].apk
      /\ tv'[t].session = tv[t].session /\ tv'[t].pending = tv[t].plan
      /\ tv'[t].result = "installing"
  BY DEF WritePending, IInv, Typed, TvRows, Places, Results
<1>4. RowInv(t)'
  BY <1>1, <1>2, <1>3 DEF RowInv, Held, Waits, Release
<1> QED BY <1>2, <1>3, <1>4, TvMoves DEF IInv, Typed

LEMMA StepCommit == ASSUME IInv, NEW t \in Screens, Commit(t) PROVE IInv'
<1>1. UNCHANGED <<plan, target, before, faults>> /\ RowInv(t) /\ tv[t].pc = "pending"
  BY DEF Commit, IInv
<1>2. tv[t].apk \in Versions
  BY DEF IInv, Typed, TvRows
<1>3. /\ tv' \in [Screens -> TvRows] /\ \A u \in Screens \ {t} : tv'[u] = tv[u]
      /\ tv'[t].pc = "idle" /\ tv'[t].version = tv[t].version
      /\ tv'[t].session = tv[t].apk /\ tv'[t].pending = tv[t].pending
      /\ tv'[t].result = tv[t].result
  BY <1>2, RestRow DEF Commit, IInv, TvRows
<1>4. Handed(t)'
  BY <1>1, <1>3 DEF RowInv, Handed, Held, Waits, Release
<1>5. RowInv(t)'
  BY <1>1, <1>3, <1>4 DEF RowInv, Release
<1> QED BY <1>1, <1>3, <1>5, TvMoves DEF IInv, Typed

LEMMA StepInstall == ASSUME IInv, NEW t \in Screens, Install(t) PROVE IInv'
<1>1. UNCHANGED <<plan, target, before, faults>> /\ RowInv(t) /\ Handed(t)
  BY DEF Install, IInv, RowInv
<1>2. tv[t].session \in Versions /\ 0 \in Versions
  BY DEF IInv, Typed, TvRows, Versions
<1>3. /\ tv' \in [Screens -> TvRows] /\ \A u \in Screens \ {t} : tv'[u] = tv[u]
      /\ tv'[t].pc = "idle" /\ tv'[t].version = tv[t].session
      /\ tv'[t].session = 0 /\ tv'[t].pending = tv[t].pending
      /\ tv'[t].result = "installed"
  BY <1>2, RestRow DEF Install, IInv, TvRows, Results
<1>4. /\ \A q \in Plans : tv[t].version >= Release(q) => tv[t].session >= Release(q)
      /\ tv[t].session >= Release(tv[t].pending)
  BY <1>1, Numbers DEF Handed, IInv
<1>5. RowInv(t)'
  BY <1>1, <1>3, <1>4 DEF RowInv, Release
<1> QED BY <1>1, <1>3, <1>5, TvMoves DEF IInv, Typed

LEMMA StepInstallFails == ASSUME IInv, NEW t \in Screens, InstallFails(t) PROVE IInv'
<1>1. /\ UNCHANGED <<plan, target, before>> /\ RowInv(t) /\ Handed(t)
      /\ faults' \in 0..MaxFaults
  BY DeploymentAssumption DEF InstallFails, Fault, IInv, Typed, RowInv
<1>2. /\ tv' \in [Screens -> TvRows] /\ \A u \in Screens \ {t} : tv'[u] = tv[u]
      /\ tv'[t].pc = tv[t].pc /\ tv'[t].plan = tv[t].plan /\ tv'[t].state = tv[t].state
      /\ tv'[t].version = tv[t].version /\ tv'[t].apk = tv[t].apk
      /\ tv'[t].session = 0 /\ tv'[t].pending = tv[t].pending
      /\ tv'[t].result = "failed"
  BY DEF InstallFails, IInv, Typed, TvRows, Results, Versions
<1>3. tv[t].pc \in {"idle", "asked"}
  BY <1>1 DEF Handed
<1>4. RowInv(t)'
  BY <1>1, <1>2, <1>3 DEF RowInv, Held, Waits, Release
<1> QED BY <1>1, <1>2, <1>4, TvMoves

LEMMA StepRest == ASSUME IInv, NEW t \in Screens, Wait(t) \/ Die(t) PROVE IInv'
<1>1. UNCHANGED <<plan, target, before>> /\ faults' \in 0..MaxFaults /\ tv' = Rest(t)
  BY DeploymentAssumption DEF Wait, Die, Fault, IInv, Typed
<1> QED BY <1>1, Rests

----------------------------------------------------------------------------
(* The administrator.                                                      *)

(* An offer goes behind what a television was offered, and only to those   *)
(* whose status is none, queued or failed.                                 *)
LEMMA OfferMoves ==
  ASSUME IInv, NEW p \in Plans, NEW chosen \in SUBSET Screens, NEW others \in SUBSET Screens,
         Offer(p, chosen, others), UNCHANGED <<tv, faults>>,
         \A t \in chosen \cup others : target[p][t] \in {"none", "queued", "failed"},
         plan[p].status # "completed", plan' \in [Plans -> PlanRows],
         plan'[p].status = "running", \A q \in Plans \ {p} : plan'[q] = plan[q],
         plan[p].status = "running" => plan'[p] = plan[p]
  PROVE  IInv'
<1> DEFINE status(t) == IF t \in chosen THEN "offered"
                        ELSE IF t \in others THEN "queued" ELSE target[p][t]
<1>1. target' = [target EXCEPT ![p] = [t \in Screens |-> status(t)]]
  BY DEF Offer
<1>2. \A t \in Screens : status(t) \in Statuses
  BY DEF IInv, Typed, Statuses
<1>3. /\ target' \in [Plans -> [Screens -> Statuses]]
      /\ \A q \in Plans \ {p}, t \in Screens : target'[q][t] = target[q][t]
      /\ \A t \in Screens : target'[p][t] = status(t)
  <2> HIDE DEF status
  <2> QED BY <1>1, <1>2 DEF IInv, Typed
<1>4. \A t \in Screens : before'[t] = IF t \in chosen THEN Last(t, p) ELSE before[t]
  BY DEF Offer
<1>5. \A t \in Screens : /\ Last(t, p) \in SUBSET (Plans \X Plans)
                         /\ \A q \in Plans \ {p} : <<q, p>> \in Last(t, p)
                         /\ \A q \in Plans \ {p}, r \in Plans :
                              <<q, r>> \in before[t] => <<q, r>> \in Last(t, p)
  BY DEF Last, IInv, Typed
<1>6. before' \in [Screens -> SUBSET (Plans \X Plans)]
  BY <1>5 DEF Offer, IInv, Typed
<1>7. Typed'
  BY <1>3, <1>6 DEF IInv, Typed, TvRows
<1>8. Settled'
  BY <1>3 DEF IInv, Settled
<1>9. Ordered'
  <2> SUFFICES ASSUME NEW t \in Screens, NEW q \in Plans, NEW r \in Plans, q # r,
                      target'[q][t] \notin {"none", "queued"},
                      target'[r][t] \notin {"none", "queued"}
               PROVE  <<q, r>> \in before'[t] \/ <<r, q>> \in before'[t]
    BY DEF Ordered
  <2>1. CASE t \in chosen /\ (q = p \/ r = p)
    BY <2>1, <1>4, <1>5
  <2>2. CASE t \in chosen /\ q # p /\ r # p
    BY <2>2, <1>3, <1>4, <1>5 DEF IInv, Ordered
  <2>3. CASE t \notin chosen
    BY <2>3, <1>3, <1>4 DEF IInv, Ordered
  <2> QED BY <2>1, <2>2, <2>3
<1>10. ASSUME NEW t \in Screens PROVE RowInv(t)'
  <2>1. RowInv(t) /\ tv'[t] = tv[t] /\ Settled
    BY DEF IInv
  <2>2. \A q : Held(t, q) => Held(t, q)' /\ target'[q][t] = target[q][t] /\ plan'[q] = plan[q]
    <3> SUFFICES ASSUME NEW q, Held(t, q)
                 PROVE  Held(t, q)' /\ target'[q][t] = target[q][t] /\ plan'[q] = plan[q]
      OBVIOUS
    <3>1. q \in Plans /\ target[q][t] \in Offered /\ plan[q].status = "running"
      BY DEF Held, Waits
    <3>2. CASE q = p
      <4>1. t \notin chosen \cup others
        BY <3>1, <3>2 DEF Offered
      <4>2. target'[p][t] = target[p][t] /\ before'[t] = before[t] /\ plan'[p] = plan[p]
        BY <4>1, <3>1, <3>2, <1>3, <1>4
      <4> QED BY <3>1, <3>2, <4>2, <1>3 DEF Held, Waits
    <3>3. CASE q # p
      <4>1. target'[q][t] = target[q][t] /\ plan'[q] = plan[q]
        BY <3>1, <3>3, <1>3
      <4>2. ASSUME NEW r \in Plans \ {q}, Waits(r, t)' PROVE <<q, r>> \in before'[t]
        <5>1. CASE t \in chosen /\ r = p
          BY <3>1, <3>3, <5>1, <1>4, <1>5
        <5>2. CASE t \in chosen /\ r # p
          BY <3>1, <3>3, <4>2, <5>2, <1>3, <1>4, <1>5 DEF Held, Waits
        <5>3. CASE t \notin chosen
          <6>1. before'[t] = before[t]
            BY <5>3, <1>4
          <6>2. Waits(r, t)
            <7>1. CASE r # p
              BY <4>2, <7>1, <1>3 DEF Waits
            <7>2. CASE r = p
              <8>1. target'[p][t] = target[p][t] /\ target[p][t] \in Offered
                BY <4>2, <5>3, <7>2, <1>3 DEF Waits, Offered
              <8>2. plan[p].status = "running"
                BY <8>1 DEF IInv, Settled, Offered, Typed, PlanRows
              <8> QED BY <7>2, <8>1, <8>2 DEF Waits
            <7> QED BY <7>1, <7>2
          <6> QED BY <6>1, <6>2 DEF Held
        <5> QED BY <5>1, <5>2, <5>3
      <4> QED BY <3>1, <4>1, <4>2 DEF Held, Waits
    <3> QED BY <3>2, <3>3
  <2>3. ASSUME NEW q \in Plans, target'[q][t] = "installed" PROVE tv[t].version >= Release(q)'
    <3>1. target[q][t] = "installed"
      BY <2>3, <1>3
    <3>2. plan'[q] = plan[q]
      BY <3>1, <2>1 DEF Settled, IInv, Typed, PlanRows
    <3> QED BY <3>1, <3>2, <2>1 DEF RowInv, Release
  <2>4. ASSUME NEW q \in Plans, plan[q].status # "absent"
        PROVE  Release(q)' = Release(q) /\ plan'[q].status # "absent"
    BY <2>4 DEF Release, IInv, Typed, PlanRows
  <2>5. tv[t].session # 0 => Handed(t)'
    BY <2>1, <2>2 DEF RowInv, Handed, Held, Release
  <2>6. tv[t].pending # NoPlan => tv[t].pending \in Plans
    BY DEF IInv, Typed, TvRows
  <2> QED BY <2>1, <2>2, <2>3, <2>4, <2>5, <2>6 DEF RowInv, Held, Release
<1> QED BY <1>7, <1>8, <1>9, <1>10 DEF IInv

LEMMA StepCreate ==
  ASSUME IInv, NEW p \in Plans, NEW r \in Releases, NEW members \in SUBSET Screens,
         NEW first \in SUBSET Screens, Create(p, r, members, first)
  PROVE  IInv'
<1>1. /\ plan[p].status = "absent" /\ Offer(p, first, members \ first)
      /\ UNCHANGED <<tv, faults>>
  BY DEF Create, Absent
<1>2. \A t \in Screens : target[p][t] = "none"
  BY <1>1 DEF IInv, Settled
<1>3. /\ plan' \in [Plans -> PlanRows] /\ plan'[p].status = "running"
      /\ \A q \in Plans \ {p} : plan'[q] = plan[q]
  BY DEF Create, IInv, Typed, PlanRows, Versions
<1> QED BY <1>1, <1>2, <1>3, OfferMoves

LEMMA StepOfferAgain ==
  ASSUME IInv, NEW p \in Plans, Retry(p) \/ \E next \in SUBSET Screens : Advance(p, next)
  PROVE  IInv'
<1>1. PICK chosen \in SUBSET Screens :
        /\ Offer(p, chosen, {}) /\ \A t \in chosen : target[p][t] \in {"queued", "failed"}
  BY DEF Retry, Advance, In
<1>2. plan[p].status = "running" /\ UNCHANGED <<plan, tv, faults>>
  BY DEF Retry, Advance
<1>3. plan' \in [Plans -> PlanRows]
  BY <1>2 DEF IInv, Typed
<1> QED BY <1>1, <1>2, <1>3, OfferMoves

(* A deployment is completed when nobody waits for it any more.            *)
LEMMA StepComplete == ASSUME IInv, NEW p \in Plans, Complete(p) PROVE IInv'
<1>1. \A t \in Screens : target[p][t] \in {"installed", "none"}
  BY DEF Complete, Blockers, In, Offered, IInv, Typed, Statuses
<1>2. /\ plan' \in [Plans -> PlanRows] /\ plan'[p].status = "completed"
      /\ plan'[p].release = plan[p].release
      /\ \A q \in Plans \ {p} : plan'[q] = plan[q]
      /\ plan[p].status = "running" /\ UNCHANGED <<target, before, tv, faults>>
  BY DEF Complete, IInv, Typed, PlanRows
<1>3. \A q \in Plans : Release(q)' = Release(q) /\ (plan'[q].status = "absent" <=> plan[q].status = "absent")
  BY <1>2 DEF Release
<1>4. Typed'
  BY <1>2 DEF IInv, Typed, TvRows
<1>5. Settled' /\ Ordered'
  BY <1>1, <1>2 DEF IInv, Settled, Ordered
<1>6. ASSUME NEW t \in Screens PROVE RowInv(t)'
  <2>1. \A q \in Plans : Waits(q, t)' <=> Waits(q, t)
    BY <1>1, <1>2 DEF Waits, Offered
  <2>2. \A q : Held(t, q) => Held(t, q)'
    BY <1>2, <2>1 DEF Held
  <2>3. RowInv(t) /\ (tv[t].pending # NoPlan => tv[t].pending \in Plans)
    BY DEF IInv, Typed, TvRows
  <2>4. tv[t].session # 0 => Handed(t)'
    BY <1>2, <1>3, <2>2, <2>3 DEF RowInv, Handed, Held
  <2> QED BY <1>2, <1>3, <2>2, <2>3, <2>4 DEF RowInv, Held
<1> QED BY <1>4, <1>5, <1>6 DEF IInv

LEMMA NextKeeps == IInv /\ [Next]_vars => IInv'
<1> SUFFICES ASSUME IInv, [Next]_vars PROVE IInv' OBVIOUS
<1>1. ASSUME NEW p \in Plans, NEW r \in Releases, NEW members \in SUBSET Screens,
             NEW first \in SUBSET Screens, Create(p, r, members, first)
      PROVE  IInv'
  BY <1>1, StepCreate
<1>2. ASSUME NEW p \in Plans, Administer(p) PROVE IInv'
  BY <1>2, StepComplete, StepOfferAgain DEF Administer
<1>3. ASSUME NEW t \in Screens, Pass(t) PROVE IInv'
  BY <1>3, StepFlush, StepAsk, StepReportKnown, StepRest, StepDownload, StepReportFailure,
     StepReportDownloaded, StepPostpone, StepReportInstalling, StepWritePending, StepCommit
     DEF Pass
<1>4. ASSUME NEW t \in Screens, Refused(t) \/ Install(t) \/ InstallFails(t) \/ Die(t)
      PROVE  IInv'
  BY <1>4, StepReportFailure, StepInstall, StepInstallFails, StepRest
<1>5. CASE UNCHANGED vars
  <2>1. Typed' /\ Settled' /\ Ordered'
    BY <1>5 DEF vars, IInv, Typed, Settled, Ordered, TvRows, PlanRows
  <2>2. \A t \in Screens : RowInv(t)'
    BY <1>5 DEF vars, IInv, RowInv, Handed, Held, Waits, Release
  <2> QED BY <2>1, <2>2 DEF IInv
<1> QED BY <1>1, <1>2, <1>3, <1>4, <1>5 DEF Next

----------------------------------------------------------------------------
(* The theorems.                                                           *)

(* A completed deployment left no television behind, although its          *)
(* completion reads the statuses that reports change.                      *)
THEOREM NobodyLeftBehind == Spec => []CompletedIsSettled
<1>1. IInv => CompletedIsSettled
  BY TypedIsTypeOK DEF IInv, Settled, CompletedIsSettled
<1>2. IInv /\ [Next]_vars => IInv'
  BY NextKeeps
<1> QED BY InitKeeps, <1>1, <1>2, PTL DEF Spec

(* A television said to have installed a release runs it or a newer one,   *)
(* although POST /tv/updates/:id/status believes what it is told.          *)
THEOREM InstalledHolds == Spec => []InstalledIsTrue
<1>1. IInv => InstalledIsTrue
  BY DEF IInv, RowInv, InstalledIsTrue
<1>2. IInv /\ [Next]_vars => IInv'
  BY NextKeeps
<1> QED BY InitKeeps, <1>1, <1>2, PTL DEF Spec

(* Whatever Android is installing, the server knows to be installing.      *)
THEOREM Granted == Spec => []InstallsAreGranted
<1>1. IInv => InstallsAreGranted
  BY DEF IInv, RowInv, Handed, Held, InstallsAreGranted
<1>2. IInv /\ [Next]_vars => IInv'
  BY NextKeeps
<1> QED BY InitKeeps, <1>1, <1>2, PTL DEF Spec
=============================================================================
