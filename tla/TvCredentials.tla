--------------------------- MODULE TvCredentials ---------------------------
(***************************************************************************)
(* The bearer key of one television: its row in the table `screens`        *)
(* (services/api/src/studio-routes.mjs), the store that keeps it on the    *)
(* device (DeviceCredentialStore.kt), the two-phase rotation that replaces *)
(* it every 30 days (TvCredentialRotationClient.kt), and the enrolment,    *)
(* revocation and re-enrolment that start and end its life.                *)
(*                                                                         *)
(* Every HTTP exchange is two steps, a request and the transaction that    *)
(* serves it, and a client may stop waiting at any moment: the request it  *)
(* leaves behind is served later, or never.  A key is an unguessable token *)
(* and stands for its SHA-256 as well.  Client certificates, rate limits   *)
(* and the simulator rows of `screens` are left out.                       *)
(***************************************************************************)
EXTENDS Naturals

CONSTANTS
  Keys,        \* the tokens randomToken(32) and generateKey() can return
  NoKey,       \* no token: SQL NULL, an absent preference, a tombstone
  Workers,     \* the MainActivity instances whose sync executor is alive
  MaxFaults    \* bound: timeouts, process deaths, data wipes and expiries

ASSUME CredentialAssumption ==
  /\ NoKey \notin Keys
  /\ "enroller" \notin Workers /\ "gone" \notin Workers
  /\ MaxFaults \in Nat

VARIABLES
  screen,      \* the row of `screens`
  ticket,      \* the enrolment key last shown to the operator
  tv,          \* the preferences file of DeviceCredentialStore
  pc, cred,    \* each sync worker: its place in rotateIfDue, what it loaded
  answer,      \* the HTTP response it has not read yet
  enrolling,   \* the executor of EnrollmentActivity
  requests,    \* HTTP requests sent and not served yet
  used,        \* history: the keys already drawn
  lineage,     \* history: the device keys of the current enrolment
  retired,     \* history: the keys the server stopped accepting
  faults       \* how many faults have happened

vars == <<screen, ticket, tv, pc, cred, answer, enrolling, requests,
          used, lineage, retired, faults>>
workers == <<pc, cred, answer>>
history == <<used, lineage, retired>>

MaybeKey == Keys \cup {NoKey}
Stored == [key : MaybeKey, gen : Nat, pending : MaybeKey]
Nothing == [key |-> NoKey, gen |-> 0, pending |-> NoKey]
NoAnswer == [status |-> "none", gen |-> 0]
Idle == [pc |-> "idle", key |-> NoKey, gen |-> 0]

Requests == [kind : {"enroll", "rotate", "confirm"}, auth : Keys,
             next : MaybeKey, gen : Nat, from : Workers \cup {"enroller", "gone"}]

Rows == [state : {"pending", "active", "revoked", "deleted"},
         key : MaybeKey, gen : Nat, pending : MaybeKey, fresh : BOOLEAN]
Answers == [status : {"none", "ok", "unauthorized", "conflict", "refused"}, gen : Nat]
Enrolling == [pc : {"idle", "waiting", "granted"}, key : MaybeKey, gen : Nat]

TypeOK ==
  /\ screen \in Rows
  /\ ticket \in MaybeKey
  /\ tv \in Stored
  /\ pc \in [Workers -> {"idle", "due", "rotating", "confirming", "promoting"}]
  /\ cred \in [Workers -> Stored]
  /\ answer \in [Workers -> Answers]
  /\ enrolling \in Enrolling
  /\ requests \subseteq Requests
  /\ used \subseteq Keys /\ lineage \subseteq Keys /\ retired \subseteq Keys
  /\ faults \in Nat

----------------------------------------------------------------------------
(* The row a fresh enrolment ticket creates.                               *)
Init ==
  \E k \in Keys :
    /\ screen = [state |-> "pending", key |-> k, gen |-> 1,
                 pending |-> NoKey, fresh |-> TRUE]
    /\ ticket = k
    /\ tv = Nothing
    /\ pc = [w \in Workers |-> "idle"]
    /\ cred = [w \in Workers |-> Nothing]
    /\ answer = [w \in Workers |-> NoAnswer]
    /\ enrolling = Idle
    /\ requests = {}
    /\ used = {k} /\ lineage = {} /\ retired = {}
    /\ faults = 0

(* A token never drawn before.                                             *)
Draw(k) == k \in Keys \ used /\ used' = used \cup {k}

(* A fault uses up one unit of the bound.                                  *)
Fault == faults < MaxFaults /\ faults' = faults + 1

Retire == retired' = (retired \cup {screen.key}) \ {NoKey}

(* The requests of clients that stopped waiting for them.                  *)
Orphaned(clients) ==
  {[r EXCEPT !.from = IF r.from \in clients THEN "gone" ELSE r.from] : r \in requests}

Send(kind, auth, next, gen, from) ==
  [kind |-> kind, auth |-> auth, next |-> next, gen |-> gen, from |-> from]

----------------------------------------------------------------------------
(* Administration.                                                         *)

(* POST /tvs/:id/revoke: the key becomes a tombstone nobody knows.         *)
Revoke ==
  /\ screen.state \in {"pending", "active"}
  /\ screen' = [state |-> "revoked", key |-> NoKey, gen |-> screen.gen + 1,
                pending |-> NoKey, fresh |-> FALSE]
  /\ Retire
  /\ lineage' = {}
  /\ UNCHANGED <<ticket, tv, workers, enrolling, requests, used, faults>>

(* Mutant: the last ticket is issued again.                                *)
ReenrollSameTicket(k) ==
  /\ screen.state # "deleted" /\ k = ticket
  /\ screen' = [state |-> "pending", key |-> k, gen |-> screen.gen + 1,
                pending |-> NoKey, fresh |-> TRUE]
  /\ Retire
  /\ lineage' = {}
  /\ UNCHANGED <<ticket, tv, workers, enrolling, requests, used, faults>>

(* POST /tvs/:id/reenrollment, from any state of an existing row.          *)
Reenroll(k) ==
  /\ screen.state # "deleted"
  /\ Draw(k)
  /\ screen' = [state |-> "pending", key |-> k, gen |-> screen.gen + 1,
                pending |-> NoKey, fresh |-> TRUE]
  /\ ticket' = k
  /\ Retire
  /\ lineage' = {}
  /\ UNCHANGED <<tv, workers, enrolling, requests, faults>>

(* DELETE /tvs/:id, only once revoked.                                     *)
Delete ==
  /\ screen.state = "revoked"
  /\ screen' = [screen EXCEPT !.state = "deleted"]
  /\ UNCHANGED <<ticket, tv, workers, enrolling, requests, history, faults>>

(* 30 minutes pass on a ticket, 24 hours on a rotation left pending.       *)
Expire ==
  /\ screen.fresh
  /\ Fault
  /\ screen' = [screen EXCEPT !.fresh = FALSE]
  /\ UNCHANGED <<ticket, tv, workers, enrolling, requests, history>>

----------------------------------------------------------------------------
(* The API: one transaction per request.                                   *)

Respond(r, status, gen) ==
  answer' = IF r.from \in Workers
            THEN [answer EXCEPT ![r.from] = [status |-> status, gen |-> gen]]
            ELSE answer

(* POST /tv/enroll: the ticket buys a device key, delivered once.          *)
ServeEnroll(r) ==
  /\ r \in requests /\ r.kind = "enroll"
  /\ requests' = requests \ {r}
  /\ \/ /\ screen.state = "pending" /\ screen.key = r.auth /\ screen.fresh
        /\ \E k \in Keys :
             /\ Draw(k)
             /\ screen' = [screen EXCEPT !.state = "active", !.key = k,
                                         !.pending = NoKey, !.fresh = FALSE]
             /\ lineage' = {k}
             /\ enrolling' = IF r.from = "enroller"
                             THEN [pc |-> "granted", key |-> k, gen |-> screen.gen]
                             ELSE enrolling
        /\ Retire
     \/ /\ ~ (screen.state = "pending" /\ screen.key = r.auth /\ screen.fresh)
        /\ enrolling' = IF r.from = "enroller" THEN Idle ELSE enrolling
        /\ UNCHANGED <<screen, history>>
  /\ UNCHANGED <<ticket, tv, workers, faults>>

(* activeTvFromRequest: an active row and its current key.                 *)
Authenticates(r) == screen.state = "active" /\ screen.key = r.auth

(* What POST /tv/credentials/rotate answers.                               *)
RotateStatus(r) ==
  CASE ~ Authenticates(r)   -> "unauthorized"
    [] Authenticates(r) /\ r.gen # screen.gen -> "conflict"
    [] Authenticates(r) /\ r.gen = screen.gen /\ r.next = screen.key -> "refused"
    [] OTHER -> "ok"

(* POST /tv/credentials/rotate: records the next key beside the active     *)
(* one, in place of any key left pending there.                            *)
ServeRotate(r) ==
  /\ r \in requests /\ r.kind = "rotate"
  /\ requests' = requests \ {r}
  /\ screen' = IF RotateStatus(r) = "ok"
               THEN [screen EXCEPT !.pending = r.next, !.fresh = TRUE]
               ELSE screen
  /\ Respond(r, RotateStatus(r), screen.gen + 1)
  /\ UNCHANGED <<ticket, tv, pc, cred, enrolling, history, faults>>

(* The confirmation names a pending key the server still honours.          *)
PendingConfirmed(r) ==
  /\ screen.pending = r.auth /\ screen.fresh
  /\ r.gen = screen.gen + 1

(* POST /tv/credentials/confirm: promotes the pending key, or recognises   *)
(* a promotion already made.                                               *)
ServeConfirm(r) ==
  /\ r \in requests /\ r.kind = "confirm"
  /\ requests' = requests \ {r}
  /\ \/ /\ Authenticates(r) /\ r.gen = screen.gen
        /\ Respond(r, "ok", screen.gen)
        /\ UNCHANGED <<screen, history>>
     \/ /\ screen.state = "active"
        /\ ~ (Authenticates(r) /\ r.gen = screen.gen)
        /\ PendingConfirmed(r)
        /\ screen' = [screen EXCEPT !.key = screen.pending, !.gen = screen.gen + 1,
                                    !.pending = NoKey, !.fresh = FALSE]
        /\ Retire
        /\ lineage' = lineage \cup {screen.pending}
        /\ Respond(r, "ok", screen.gen + 1)
        /\ UNCHANGED used
     \/ /\ ~ (Authenticates(r) /\ r.gen = screen.gen)
        /\ ~ (screen.state = "active" /\ PendingConfirmed(r))
        /\ Respond(r, "unauthorized", 0)
        /\ UNCHANGED <<screen, history>>
  /\ UNCHANGED <<ticket, tv, pc, cred, enrolling, faults>>

Serve == \E r \in requests : ServeEnroll(r) \/ ServeRotate(r) \/ ServeConfirm(r)

----------------------------------------------------------------------------
(* The television.                                                         *)

(* EnrollmentActivity opens only without credentials; the operator types   *)
(* the code on display.                                                    *)
RequestEnrollment ==
  /\ tv.key = NoKey /\ enrolling.pc = "idle" /\ ticket # NoKey
  /\ enrolling' = [enrolling EXCEPT !.pc = "waiting"]
  /\ requests' = requests \cup {Send("enroll", ticket, NoKey, 0, "enroller")}
  /\ UNCHANGED <<screen, ticket, tv, workers, history, faults>>

(* DeviceCredentialStore.save of the key the server granted.               *)
SaveEnrollment ==
  /\ enrolling.pc = "granted"
  /\ tv' = [key |-> enrolling.key, gen |-> enrolling.gen, pending |-> NoKey]
  /\ enrolling' = Idle
  /\ UNCHANGED <<screen, ticket, workers, requests, history, faults>>

(* The exchange of EnrollmentActivity times out.                           *)
AbandonEnrollment ==
  /\ enrolling.pc # "idle"
  /\ Fault
  /\ enrolling' = Idle
  /\ requests' = Orphaned({"enroller"})
  /\ UNCHANGED <<screen, ticket, tv, workers, history>>

(* rotateIfDue sends the request it prepared.                              *)
AskRotate(w, c) ==
  /\ pc' = [pc EXCEPT ![w] = "rotating"]
  /\ cred' = [cred EXCEPT ![w] = c]
  /\ requests' = requests \cup {Send("rotate", c.key, c.pending, c.gen, w)}

(* rotateIfDue finds no rotation under way and one due: 30 days passed.    *)
BecomeDue(w) ==
  /\ pc[w] = "idle" /\ tv.key # NoKey /\ tv.pending = NoKey
  /\ pc' = [pc EXCEPT ![w] = "due"]
  /\ cred' = [cred EXCEPT ![w] = tv]
  /\ UNCHANGED <<screen, ticket, tv, answer, enrolling, requests, history, faults>>

(* rotateIfDue finds a pending key and resumes its rotation at once.       *)
Resume(w) ==
  /\ pc[w] = "idle" /\ tv.key # NoKey /\ tv.pending # NoKey
  /\ AskRotate(w, tv)
  /\ UNCHANGED <<screen, ticket, tv, answer, enrolling, history, faults>>

(* preparePending: the new key is on disk before the network sees it.  It  *)
(* reads the store again and replaces whatever pending key is there.       *)
Prepare(w, k) ==
  /\ pc[w] = "due" /\ tv.key # NoKey
  /\ Draw(k)
  /\ tv' = [tv EXCEPT !.pending = k]
  /\ AskRotate(w, tv')
  /\ UNCHANGED <<screen, ticket, answer, enrolling, lineage, retired, faults>>

(* A 2xx response that names the generation the pass works for.            *)
Accepted(w) == answer[w].status = "ok" /\ answer[w].gen = cred[w].gen + 1

(* Mutant: a 401 or a 409 is not survived.                                 *)
AskConfirmIfAccepted(w) ==
  /\ pc[w] = "rotating" /\ Accepted(w)
  /\ pc' = [pc EXCEPT ![w] = "confirming"]
  /\ answer' = [answer EXCEPT ![w] = NoAnswer]
  /\ requests' = requests \cup
       {Send("confirm", cred[w].pending, NoKey, cred[w].gen + 1, w)}
  /\ UNCHANGED <<screen, ticket, tv, cred, enrolling, history, faults>>

(* The response to rotate: 401 and 409 are survived, the confirmation      *)
(* tells whether the server had already promoted the key.                  *)
AskConfirm(w) ==
  /\ pc[w] = "rotating"
  /\ Accepted(w) \/ answer[w].status \in {"unauthorized", "conflict"}
  /\ pc' = [pc EXCEPT ![w] = "confirming"]
  /\ answer' = [answer EXCEPT ![w] = NoAnswer]
  /\ requests' = requests \cup
       {Send("confirm", cred[w].pending, NoKey, cred[w].gen + 1, w)}
  /\ UNCHANGED <<screen, ticket, tv, cred, enrolling, history, faults>>

(* Mutant: any answer to the confirmation is taken for a success.          *)
ConfirmedByAnyAnswer(w) ==
  /\ pc[w] = "confirming" /\ answer[w].status # "none"
  /\ pc' = [pc EXCEPT ![w] = "promoting"]
  /\ answer' = [answer EXCEPT ![w] = NoAnswer]
  /\ UNCHANGED <<screen, ticket, tv, cred, enrolling, requests, history, faults>>

(* The confirmation succeeded for the generation asked.                    *)
Confirmed(w) ==
  /\ pc[w] = "confirming" /\ Accepted(w)
  /\ pc' = [pc EXCEPT ![w] = "promoting"]
  /\ answer' = [answer EXCEPT ![w] = NoAnswer]
  /\ UNCHANGED <<screen, ticket, tv, cred, enrolling, requests, history, faults>>

(* Mutants: the promotion forgets the generation, or the pending key.      *)
PromoteWith(w, gen, pending) ==
  /\ pc[w] = "promoting"
  /\ pc' = [pc EXCEPT ![w] = "idle"]
  /\ cred' = [cred EXCEPT ![w] = Nothing]
  /\ tv' = IF tv.key # NoKey /\ tv.pending # NoKey
           THEN [key |-> tv.pending, gen |-> gen, pending |-> pending]
           ELSE tv
  /\ UNCHANGED <<screen, ticket, answer, enrolling, requests, history, faults>>
PromoteSameGeneration(w) == PromoteWith(w, tv.gen, NoKey)
PromoteKeepsPending(w) == PromoteWith(w, tv.gen + 1, tv.pending)

(* promotePending: reads the store again and promotes the pending key it   *)
(* finds there; with none it throws and the pass ends.                     *)
Promote(w) ==
  /\ pc[w] = "promoting"
  /\ pc' = [pc EXCEPT ![w] = "idle"]
  /\ cred' = [cred EXCEPT ![w] = Nothing]
  /\ tv' = IF tv.key # NoKey /\ tv.pending # NoKey
           THEN [key |-> tv.pending, gen |-> tv.gen + 1, pending |-> NoKey]
           ELSE tv
  /\ UNCHANGED <<screen, ticket, answer, enrolling, requests, history, faults>>

(* Any other response ends the pass; the pending key stays on disk.        *)
EndPass(w) ==
  /\ \/ pc[w] = "rotating" /\ answer[w].status \in {"ok", "refused"}
     \/ pc[w] = "confirming" /\ answer[w].status # "none"
  /\ ~ Accepted(w)
  /\ pc' = [pc EXCEPT ![w] = "idle"]
  /\ cred' = [cred EXCEPT ![w] = Nothing]
  /\ answer' = [answer EXCEPT ![w] = NoAnswer]
  /\ UNCHANGED <<screen, ticket, tv, enrolling, requests, history, faults>>

(* A timeout, a broken connection or an error status: the request may      *)
(* still reach the server.                                                 *)
GiveUp(w) ==
  /\ pc[w] \in {"rotating", "confirming"}
  /\ Fault
  /\ pc' = [pc EXCEPT ![w] = "idle"]
  /\ cred' = [cred EXCEPT ![w] = Nothing]
  /\ answer' = [answer EXCEPT ![w] = NoAnswer]
  /\ requests' = Orphaned({w})
  /\ UNCHANGED <<screen, ticket, tv, enrolling, history>>

(* The process dies, or the power is cut; what commit() wrote stays,       *)
(* unless the application data is cleared (kept = Nothing).                *)
Die(kept) ==
  /\ Fault
  /\ tv' = kept
  /\ pc' = [w \in Workers |-> "idle"]
  /\ cred' = [w \in Workers |-> Nothing]
  /\ answer' = [w \in Workers |-> NoAnswer]
  /\ enrolling' = Idle
  /\ requests' = Orphaned(Workers \cup {"enroller"})
  /\ UNCHANGED <<screen, ticket, history>>

Step(w) == Resume(w) \/ (\E k \in Keys : Prepare(w, k)) \/ AskConfirm(w)
             \/ Confirmed(w) \/ Promote(w) \/ EndPass(w)

Next ==
  \/ Revoke \/ (\E k \in Keys : Reenroll(k)) \/ Delete \/ Expire
  \/ Serve
  \/ RequestEnrollment \/ SaveEnrollment \/ AbandonEnrollment
  \/ \E w \in Workers : BecomeDue(w) \/ Step(w) \/ GiveUp(w)
  \/ Die(tv) \/ Die(Nothing)

Spec == Init /\ [][Next]_vars

(* The API answers what reaches it; a living Activity synchronises again   *)
(* every few minutes and calls rotateIfDue at the end of each pass.        *)
(* Nothing is assumed of the administrator, of the operator, nor of the    *)
(* moment a rotation becomes due.                                          *)
Fairness ==
  /\ WF_vars(Serve)
  /\ \A w \in Workers : WF_vars(Step(w))

FairSpec == Spec /\ Fairness

----------------------------------------------------------------------------
(* Correctness.                                                            *)

(* One Activity at a time runs rotateIfDue.                                *)
OneWorker == \A v, w \in Workers : v = w

(* The television holds a key of the enrolment in force.                   *)
Linked == tv.key \in lineage

(* However requests are lost, delayed or served twice, and wherever the    *)
(* process dies, a television that was enrolled and not revoked since      *)
(* still holds the key the server accepts: as its active key, or as the    *)
(* pending one the next pass confirms; and it will announce the generation *)
(* the server expects with it, or every later rotation would be a 409.     *)
NoLockout ==
  Linked => \/ screen.key = tv.key /\ screen.gen = tv.gen
            \/ screen.key = tv.pending /\ screen.gen = tv.gen + 1

(* A key the server stopped accepting (revoked, replaced, or an enrolment  *)
(* ticket already spent) is never accepted again, nor prepared to be, even *)
(* by a request sent when it was still good.                               *)
RetiredKeysStayOut == screen.key \notin retired /\ screen.pending \notin retired

(* The television makes a key its active one only after the server did.    *)
PromotionFollowsServer ==
  [][tv'.key \notin {tv.key, NoKey} => tv'.key \in retired \cup {screen.key}]_vars

(* A rotation under way ends, unless the enrolment does first.             *)
RotationEnds ==
  (Linked /\ tv.pending # NoKey) ~> (~ Linked \/ tv.pending = NoKey)

----------------------------------------------------------------------------
(* The inductive invariant behind the properties above, for one worker.    *)

Honoured == retired \cup {screen.key}

(* Every key in the state was drawn: a new one collides with none.         *)
KeysDrawn ==
  LET Drawn == used \cup {NoKey} IN
  /\ {screen.key, screen.pending, ticket, tv.key, tv.pending, enrolling.key} \subseteq Drawn
  /\ \A w \in Workers : {cred[w].key, cred[w].pending} \subseteq Drawn
  /\ \A r \in requests : r.auth \in used /\ r.next \in Drawn
  /\ lineage \subseteq used /\ retired \subseteq used

(* The row: active exactly with a lineage; a pending key is a new one.     *)
RowInv ==
  /\ screen.state = "active" => screen.key \in lineage
  /\ screen.state # "active" => lineage = {} /\ screen.pending = NoKey
  /\ screen.key \notin retired
  /\ screen.pending # NoKey => screen.pending \notin Honoured

(* The store: a pending key only beside an active one, itself honoured;    *)
(* the server takes it over only from the active one's enrolment.          *)
StoreInv ==
  /\ tv.key = NoKey => tv.pending = NoKey
  /\ tv.key # NoKey => tv.key \in Honoured /\ tv.pending # tv.key
  /\ tv.key # NoKey /\ tv.key = screen.key => tv.pending \notin retired
  /\ tv.pending # NoKey /\ tv.pending \in lineage \cup {screen.pending} => Linked

(* Where the two meet: before the confirmation is served, or after it.     *)
LinkInv ==
  Linked => \/ /\ screen.key = tv.key /\ screen.gen = tv.gen
               /\ screen.pending \in {NoKey, tv.pending}
            \/ /\ screen.key = tv.pending /\ screen.gen = tv.gen + 1
               /\ screen.pending = NoKey

(* A rotation in flight speaks for a key that was honoured, and for the    *)
(* television's own pending key exactly if it speaks for its active one.   *)
RotateInv ==
  \A r \in requests : r.kind = "rotate" =>
    /\ r.auth \in Honoured /\ r.next # NoKey
    /\ r.auth = screen.key => r.next \notin retired
    /\ r.next = tv.pending => r.auth = tv.key
    /\ Linked => /\ r.auth # tv.pending
                 /\ r.auth = tv.key => r.next = tv.pending

(* A worker under way holds what is on disk.                               *)
WorkerInv ==
  \A w \in Workers :
    /\ pc[w] # "idle" => tv.key # NoKey
    /\ pc[w] = "due" => tv.pending = NoKey
    /\ pc[w] \in {"rotating", "confirming", "promoting"} =>
         cred[w] = tv /\ tv.pending # NoKey
    /\ pc[w] \in {"idle", "due", "promoting"} => answer[w].status = "none"
    /\ \/ pc[w] = "promoting"
       \/ pc[w] = "confirming" /\ answer[w].status = "ok"
       => tv.pending \in Honoured

(* It waits for one request, made of what is on disk.                      *)
InFlightInv ==
  \A w \in Workers, r \in requests : r.from = w =>
    /\ answer[w].status = "none"
    /\ \/ pc[w] = "rotating" /\ r = Send("rotate", tv.key, tv.pending, tv.gen, w)
       \/ pc[w] = "confirming" /\ r = Send("confirm", tv.pending, NoKey, tv.gen + 1, w)

(* An enrolment under way finds the store empty; the key it was granted    *)
(* is untouched as long as its lineage lasts.                              *)
EnrollInv ==
  /\ enrolling.pc # "idle" => tv.key = NoKey
  /\ \A r \in requests : r.from = "enroller" => enrolling.pc = "waiting"
  /\ \A r, q \in requests : r.from = "enroller" /\ q.from = "enroller" => r = q
  /\ enrolling.pc = "granted" =>
       /\ enrolling.key # NoKey /\ enrolling.key \in Honoured
       /\ enrolling.key \in lineage =>
            /\ screen.key = enrolling.key /\ screen.gen = enrolling.gen
            /\ screen.pending = NoKey
            /\ \A r \in requests : r.kind = "rotate" => r.auth # enrolling.key

IInv == /\ TypeOK /\ KeysDrawn /\ RowInv /\ StoreInv
        /\ LinkInv /\ RotateInv /\ WorkerInv /\ InFlightInv /\ EnrollInv
=============================================================================
