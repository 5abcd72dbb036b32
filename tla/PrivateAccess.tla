---------------------------- MODULE PrivateAccess ----------------------------
(***************************************************************************)
(* The private space of a television, as the server keeps it: the code of  *)
(* six digits and its policy, the applications it opens, the wrong codes   *)
(* counted for the screen, and the inventory the television reports        *)
(* (studio-routes.mjs).                                                    *)
(*                                                                         *)
(* A code is named by the policy and the generation it was drawn for; the  *)
(* two transactions of a television are split where they wait, and hold    *)
(* its row of screens meanwhile.  The lockout of sixty seconds ends by a   *)
(* step of its own.  PrivateSpace is the television.                       *)
(***************************************************************************)
EXTENDS Integers, Sequences

CONSTANTS
  Targets,          \* the targets in use, a subset of DOMAIN Rank
  Applications,     \* the applications an administrator may allow
  Requests,         \* the requests to unlock the server may hold at once
  None,
  MaxAttempts,      \* 5: wrong codes before a lockout
  MaxGeneration     \* bound: codes drawn for one policy

Rank == [tv |-> 1, group |-> 2, instance |-> 3]

Generations == 0..MaxGeneration
Policies == [enabled : BOOLEAN, generation : Generations]
AttemptRows == [target : Targets, generation : Generations, failed : 1..MaxAttempts,
                lock : {"none", "running", "over"}]
Attempts == AttemptRows \cup {None}

ASSUME PrivateAccessAssumption ==
  /\ Targets # {} /\ Targets \subseteq DOMAIN Rank
  /\ None \notin Targets \cup Policies \cup AttemptRows
  /\ \A s \in SUBSET Applications : None # s
  /\ MaxAttempts \in Nat \ {0} /\ MaxGeneration \in Nat \ {0}

VARIABLES
  policies,    \* private_access_policies: generation 0 has no code
  sources,     \* source_settings: applications; a row that is disabled has none
  attempts,    \* the screen's row of private_access_attempts
  unlocks,     \* the requests to unlock under way
  statuses,    \* the screen's rows of tv_application_status
  report,      \* the report of applications under way
  wrong,       \* history: wrong codes checked against the code in force
               \* since it is in force, was right, or a lockout ended
  crossed      \* history: the last report crossed a change of the sources

server == <<policies, sources, attempts, unlocks, statuses, report, wrong, crossed>>

Codes == (Targets \X Generations) \cup {None}
Answers == {"granted", "invalid", "locked", "stale", "unavailable"}
UnlockRows == [pc : {"idle", "sent", "checking", "answered"}, code : Codes,
               generation : Generations, awaited : BOOLEAN, target : Targets \cup {None},
               seen : Attempts, answer : Answers \cup {None}]
NoUnlock == [pc |-> "idle", code |-> None, generation |-> 0, awaited |-> FALSE,
             target |-> None, seen |-> None, answer |-> None]
NoReport == [pc |-> "idle", allowed |-> {}, items |-> {}]

(* The rows an unlock reads and writes.                                    *)
RowsTypeOK ==
  /\ policies \in [Targets -> Policies \cup {None}]
  /\ attempts \in Attempts
  /\ unlocks \in [Requests -> UnlockRows]
  /\ wrong \in Nat

ServerTypeOK ==
  /\ RowsTypeOK
  /\ sources \in [Targets -> {None} \cup SUBSET Applications]
  /\ statuses \subseteq Applications
  /\ report \in [pc : {"idle", "open"}, allowed : SUBSET Applications,
                 items : SUBSET Applications]
  /\ crossed \in BOOLEAN

----------------------------------------------------------------------------
(* What is in force: the television before its group before the instance.  *)

Closest(rows) == CHOOSE t \in {t \in Targets : rows[t] # None} :
                   \A u \in {u \in Targets : rows[u] # None} : Rank[t] <= Rank[u]
Some(rows) == \E t \in Targets : rows[t] # None

(* effectivePrivateAccessPolicy.                                           *)
InForce == IF Some(policies) THEN policies[Closest(policies)]
           ELSE [enabled |-> FALSE, generation |-> 0]
Usable == InForce.enabled /\ InForce.generation # 0

(* effectivePrivateApplicationIds.                                         *)
AllowedBy(rows) == IF Some(rows) THEN rows[Closest(rows)] ELSE {}
Allowed == AllowedBy(sources)

(* The instance may have been set up before.                               *)
ServerInit ==
  /\ policies \in [Targets -> {None, [enabled |-> TRUE, generation |-> 1]}]
  /\ sources \in [Targets -> {None, Applications}]
  /\ attempts = None
  /\ unlocks = [r \in Requests |-> NoUnlock]
  /\ statuses \in {{}, Allowed} /\ report = NoReport
  /\ wrong = 0 /\ crossed = FALSE

(* What a synchronisation delivers of it.                                  *)
Document == [enabled |-> InForce.enabled, generation |-> InForce.generation,
             applications |-> Allowed]

----------------------------------------------------------------------------
(* The Studio.                                                             *)

(* The transaction of an unlock holds its policy FOR SHARE, and the row of *)
(* attempts it read.                                                       *)
Held(t) == \E r \in Requests :
             /\ unlocks[r].pc = "checking"
             /\ \/ unlocks[r].target = t
                \/ unlocks[r].seen # None /\ unlocks[r].seen.target = t

(* POST /private-access/pin: a new code starts afresh.                     *)
RotatePin(t) ==
  /\ ~ Held(t)
  /\ IF policies[t] = None
     THEN policies' = [policies EXCEPT ![t] = [enabled |-> FALSE, generation |-> 1]]
     ELSE /\ policies[t].generation < MaxGeneration
          /\ policies' = [policies EXCEPT ![t].generation = @ + 1]
  /\ attempts' = IF attempts # None /\ attempts.target = t THEN None ELSE attempts
  /\ wrong' = IF Closest(policies') = t THEN 0 ELSE wrong
  /\ UNCHANGED <<sources, unlocks, statuses, report, crossed>>

(* PUT /private-access: nothing is enabled without a code.                 *)
SetEnabled(t, enabled) ==
  /\ ~ Held(t)
  /\ enabled => policies[t] # None /\ policies[t].generation # 0
  /\ policies' = [policies EXCEPT ![t] =
       IF @ = None THEN [enabled |-> FALSE, generation |-> 0] ELSE [@ EXCEPT !.enabled = enabled]]
  /\ wrong' = IF Closest(policies') = t /\ policies[t] = None THEN 0 ELSE wrong
  /\ UNCHANGED <<sources, attempts, unlocks, statuses, report, crossed>>

(* purgeNonAllowlistedApplicationStatuses.                                 *)
Purged(rows) == statuses \cap AllowedBy(rows)

(* PUT /settings/sources for the private applications: the row is replaced *)
(* and the inventory purged, as far as it is committed.                    *)
SetSources(t, applications) ==
  /\ sources' = [sources EXCEPT ![t] = applications]
  /\ statuses' = Purged(sources')
  /\ crossed' = FALSE
  /\ UNCHANGED <<policies, attempts, unlocks, report, wrong>>

----------------------------------------------------------------------------
(* POST /tv/private-access/unlock.                                         *)

(* The television sends a code, for the generation it synchronised...      *)
Send(r, code, generation) ==
  /\ unlocks[r].pc = "idle"
  /\ unlocks' = [unlocks EXCEPT ![r] = [NoUnlock EXCEPT !.pc = "sent", !.awaited = TRUE,
                                          !.code = code, !.generation = generation]]
  /\ UNCHANGED <<policies, sources, attempts, statuses, report, wrong, crossed>>

(* ... and takes the answers of some requests, or gives them up.           *)
Leave(taken) ==
  /\ unlocks' = [r \in Requests |->
       IF r \notin taken THEN unlocks[r]
       ELSE IF unlocks[r].pc = "answered" THEN NoUnlock
       ELSE [unlocks[r] EXCEPT !.awaited = FALSE]]
  /\ UNCHANGED <<policies, sources, attempts, statuses, report, wrong, crossed>>

(* The answer to a request its television gave up is for nobody.           *)
Answer(r, answer) ==
  unlocks' = [unlocks EXCEPT ![r] =
    IF @.awaited THEN [NoUnlock EXCEPT !.pc = "answered", !.awaited = TRUE, !.answer = answer]
    ELSE NoUnlock]

OfThisCode(row) ==
  row # None /\ row.target = Closest(policies) /\ row.generation = InForce.generation

(* SELECT ... FROM screens ... FOR UPDATE: one transaction at a time.      *)
ScreenFree == report.pc = "idle" /\ \A r \in Requests : unlocks[r].pc # "checking"

(* What comes before scrypt, which is run within the transaction.          *)
Check(r) ==
  LET current == unlocks[r].generation = InForce.generation
      locked == OfThisCode(attempts) /\ attempts.lock = "running"
  IN \/ ~ Usable /\ Answer(r, "unavailable")
     \/ Usable /\ ~ current /\ Answer(r, "stale")
     \/ Usable /\ current /\ locked /\ Answer(r, "locked")
     \/ /\ Usable /\ current /\ ~ locked
        /\ unlocks' = [unlocks EXCEPT ![r].pc = "checking", ![r].target = Closest(policies),
                                      ![r].seen = attempts]

(* Mutant: the television's row is not held.                               *)
UnlockBeside(r) ==
  /\ unlocks[r].pc = "sent"
  /\ Check(r)
  /\ UNCHANGED <<policies, sources, attempts, statuses, report, wrong, crossed>>

Unlock(r) ==
  /\ unlocks[r].pc = "sent" /\ ScreenFree
  /\ Check(r)
  /\ UNCHANGED <<policies, sources, attempts, statuses, report, wrong, crossed>>

(* The code is right: what was counted is forgotten.                       *)
Grant(r) ==
  /\ attempts' = None /\ wrong' = 0
  /\ Answer(r, "granted")

(* It is wrong: a lockout that is over starts a new count.                 *)
Refuse(r) ==
  LET u == unlocks[r]
      generation == policies[u.target].generation
      before == IF /\ u.seen # None /\ u.seen.target = u.target
                   /\ u.seen.generation = generation /\ u.seen.lock = "none"
                THEN u.seen.failed ELSE 0
      failed == IF before + 1 > MaxAttempts THEN MaxAttempts ELSE before + 1
      locks == failed >= MaxAttempts
  IN /\ attempts' = [target |-> u.target, generation |-> generation, failed |-> failed,
                     lock |-> IF locks THEN "running" ELSE "none"]
     /\ wrong' = IF u.target = Closest(policies) THEN wrong + 1 ELSE wrong
     /\ Answer(r, IF locks THEN "locked" ELSE "invalid")

(* scrypt has answered; the policy cannot have changed meanwhile.          *)
Decide(r) ==
  /\ unlocks[r].pc = "checking"
  /\ LET t == unlocks[r].target IN
     IF unlocks[r].code = <<t, policies[t].generation>> THEN Grant(r) ELSE Refuse(r)
  /\ UNCHANGED <<policies, sources, statuses, report, crossed>>

(* The API or its connection dies: the transaction is rolled back.         *)
Abort(r) ==
  /\ unlocks[r].pc = "checking"
  /\ Answer(r, "unavailable")
  /\ UNCHANGED <<policies, sources, attempts, statuses, report, wrong, crossed>>

LockoutEnds ==
  /\ attempts # None /\ attempts.lock = "running"
  /\ attempts' = [attempts EXCEPT !.lock = "over"]
  /\ wrong' = 0
  /\ UNCHANGED <<policies, sources, unlocks, statuses, report, crossed>>

----------------------------------------------------------------------------
(* PUT /tv/applications/status.                                            *)

(* The television's row is locked and the allowlist read...                *)
Report(items) ==
  /\ ScreenFree /\ items \subseteq Allowed
  /\ report' = [pc |-> "open", allowed |-> Allowed, items |-> items]
  /\ UNCHANGED <<policies, sources, attempts, unlocks, statuses, wrong, crossed>>

(* Mutant: the purge of the change is thought to be enough.                *)
ReportedOver ==
  /\ report.pc = "open"
  /\ statuses' = statuses \cup report.items
  /\ report' = NoReport
  /\ crossed' = (report.allowed # Allowed)
  /\ UNCHANGED <<policies, sources, attempts, unlocks, wrong>>

(* ... then what is not allowed is deleted, and the items written.         *)
Reported ==
  /\ report.pc = "open"
  /\ statuses' = (statuses \cap report.allowed) \cup report.items
  /\ report' = NoReport
  /\ crossed' = (report.allowed # Allowed)
  /\ UNCHANGED <<policies, sources, attempts, unlocks, wrong>>

ReportLost ==
  /\ report.pc = "open"
  /\ report' = NoReport
  /\ UNCHANGED <<policies, sources, attempts, unlocks, statuses, wrong, crossed>>

Studio ==
  \E t \in Targets :
    \/ RotatePin(t)
    \/ \E enabled \in BOOLEAN : SetEnabled(t, enabled)
    \/ \E applications \in SUBSET Applications : SetSources(t, applications)

Database ==
  \/ LockoutEnds \/ Reported \/ ReportLost
  \/ \E r \in Requests : Unlock(r) \/ Decide(r) \/ Abort(r)

Television ==
  \/ \E r \in Requests, code \in Codes, generation \in Generations : Send(r, code, generation)
  \/ \E taken \in SUBSET Requests : Leave(taken)
  \/ \E items \in SUBSET Applications : Report(items)

ServerNext == Studio \/ Database \/ Television
ServerSpec == ServerInit /\ [][ServerNext]_server

----------------------------------------------------------------------------
(* Correctness.                                                            *)

(* However its requests cross, a television has at most MaxAttempts wrong  *)
(* codes checked between two lockouts.                                     *)
LockoutHolds == wrong <= MaxAttempts

(* Only a report that crosses a change of the allowlist leaves an          *)
(* application outside it in the inventory.                                *)
InventoryAllowed == ~ crossed => statuses \subseteq Allowed
=============================================================================
