------------------------ MODULE TvCredentialsProofs ------------------------
(***************************************************************************)
(* Type correctness of TvCredentials and, for a television whose sync      *)
(* passes never overlap, its inductive invariant and what follows from it. *)
(***************************************************************************)
EXTENDS TvCredentials, TLAPS

(* A worker that waits for an answer has a pending key to confirm.         *)
Prepared ==
  \A w \in Workers : pc[w] \in {"rotating", "confirming"} => cred[w].pending \in Keys

(* A request of a client that stopped waiting differs in its sender only.  *)
LEMMA OrphanedRequest ==
  ASSUME NEW clients, requests \subseteq Requests, NEW r \in Orphaned(clients)
  PROVE  /\ r \in Requests
         /\ \E q \in requests :
              /\ r.kind = q.kind /\ r.auth = q.auth /\ r.next = q.next /\ r.gen = q.gen
              /\ IF q.from \in clients THEN r.from = "gone" ELSE r = q
  BY DEF Orphaned, Requests

(* A request built by Send has the type of its arguments.                  *)
LEMMA SendType ==
  ASSUME NEW kind \in {"enroll", "rotate", "confirm"}, NEW auth \in Keys,
         NEW next \in MaybeKey, NEW gen \in Nat,
         NEW from \in Workers \cup {"enroller", "gone"}
  PROVE  Send(kind, auth, next, gen, from) \in Requests
  BY DEF Send, Requests

(* What the API answers has the type of an answer.                         *)
LEMMA RespondType ==
  ASSUME answer \in [Workers -> Answers], NEW r,
         NEW status \in {"none", "ok", "unauthorized", "conflict", "refused"},
         NEW gen \in Nat, Respond(r, status, gen)
  PROVE  answer' \in [Workers -> Answers]
  BY DEF Respond, Answers

(* The initial states have their type.                                     *)
LEMMA TypeInit == Init => TypeOK
  BY CredentialAssumption
     DEF Init, TypeOK, MaybeKey, Stored, Nothing, NoAnswer, Idle, Requests, Rows,
         Answers, Enrolling

(* So does the state after the API served a request...                     *)
LEMMA TypeServe ==
  ASSUME TypeOK, NEW r \in requests,
         ServeEnroll(r) \/ ServeRotate(r) \/ ServeConfirm(r)
  PROVE  TypeOK'
<1>r. /\ r \in Requests
      /\ r.next \in MaybeKey
  BY DEF TypeOK, Requests
<1>s. screen.gen \in Nat /\ screen.gen + 1 \in Nat
  BY DEF TypeOK, Rows
<1>1. CASE ServeEnroll(r)
  <2>1. screen' \in Rows
    BY <1>1 DEF ServeEnroll, TypeOK, Rows, MaybeKey, history
  <2>2. enrolling' \in Enrolling
    <3>1. Idle \in Enrolling
      BY DEF Idle, Enrolling, MaybeKey
    <3>2. \A k \in Keys : [pc |-> "granted", key |-> k, gen |-> screen.gen] \in Enrolling
      BY <1>s DEF Enrolling, MaybeKey
    <3> QED
      BY <1>1, <3>1, <3>2 DEF ServeEnroll, TypeOK
  <2>3. used' \subseteq Keys /\ lineage' \subseteq Keys /\ retired' \subseteq Keys
    BY <1>1 DEF ServeEnroll, Draw, Retire, TypeOK, Rows, MaybeKey, history
  <2> QED
    BY <1>1, <2>1, <2>2, <2>3 DEF TypeOK, ServeEnroll, workers
<1>2. CASE ServeRotate(r)
  <2>1. screen' \in Rows
    BY <1>2, <1>r DEF ServeRotate, TypeOK, Rows
  <2>2. RotateStatus(r) \in {"none", "ok", "unauthorized", "conflict", "refused"}
    BY DEF RotateStatus
  <2>3. answer' \in [Workers -> Answers]
    BY <1>2, <1>s, <2>2, RespondType DEF ServeRotate, TypeOK
  <2> QED
    BY <1>2, <2>1, <2>3 DEF TypeOK, ServeRotate, history
<1>3. CASE ServeConfirm(r)
  <2>1. screen' \in Rows
    BY <1>3, <1>s DEF ServeConfirm, TypeOK, Rows, MaybeKey, history
  <2>2. answer' \in [Workers -> Answers]
    BY <1>3, <1>s, RespondType DEF ServeConfirm, TypeOK
  <2>3. used' \subseteq Keys /\ lineage' \subseteq Keys /\ retired' \subseteq Keys
    <3>1. PendingConfirmed(r) => screen.pending \in Keys
      BY <1>r DEF PendingConfirmed, Requests
    <3> QED
      BY <1>3, <3>1 DEF ServeConfirm, Retire, TypeOK, Rows, MaybeKey, history
  <2> QED
    BY <1>3, <2>1, <2>2, <2>3 DEF TypeOK, ServeConfirm
<1> QED
  BY <1>1, <1>2, <1>3

(* ... after a step of a sync worker...                                    *)
LEMMA TypeWorker ==
  ASSUME TypeOK, Prepared, NEW w \in Workers, BecomeDue(w) \/ Step(w) \/ GiveUp(w)
  PROVE  TypeOK'
<1> USE DEF TypeOK, MaybeKey, Stored
<1>1. CASE BecomeDue(w)
  BY <1>1 DEF BecomeDue, history
<1>2. CASE Resume(w)
  BY <1>2, SendType DEF Resume, AskRotate, history
<1>3. ASSUME NEW k \in Keys, Prepare(w, k) PROVE TypeOK'
  <2>1. tv' \in Stored
    BY <1>3 DEF Prepare
  <2>2. Send("rotate", tv'.key, tv'.pending, tv'.gen, w) \in Requests
    BY <1>3, SendType DEF Prepare
  <2> QED
    BY <1>3, <2>1, <2>2 DEF Prepare, AskRotate, Draw
<1>4. CASE AskConfirm(w)
  <2>1. Send("confirm", cred[w].pending, NoKey, cred[w].gen + 1, w) \in Requests
    <3>1. cred[w].gen + 1 \in Nat /\ cred[w].pending \in Keys
      BY <1>4 DEF AskConfirm, Prepared
    <3> QED
      BY <3>1, SendType
  <2> QED
    BY <1>4, <2>1 DEF AskConfirm, NoAnswer, Answers, history
<1>5. CASE Confirmed(w)
  BY <1>5 DEF Confirmed, NoAnswer, Answers, history
<1>6. CASE Promote(w)
  BY <1>6 DEF Promote, Nothing, history
<1>7. CASE EndPass(w)
  BY <1>7 DEF EndPass, Nothing, NoAnswer, Answers, history
<1>8. CASE GiveUp(w)
  BY <1>8, OrphanedRequest DEF GiveUp, Nothing, NoAnswer, Answers, Fault, history
<1> QED
  BY <1>1, <1>2, <1>3, <1>4, <1>5, <1>6, <1>7, <1>8 DEF Step

(* ... and after any step.                                                 *)
LEMMA TypeStep == TypeOK /\ Prepared /\ [Next]_vars => TypeOK'
<1> SUFFICES ASSUME TypeOK, Prepared, [Next]_vars PROVE TypeOK'
  OBVIOUS
<1> USE DEF TypeOK
<1>1. CASE Revoke
  BY <1>1 DEF Revoke, Retire, workers, Rows, MaybeKey
<1>2. ASSUME NEW k \in Keys, Reenroll(k) PROVE TypeOK'
  BY <1>2 DEF Reenroll, Draw, Retire, workers, Rows, MaybeKey
<1>3. CASE Delete
  BY <1>3 DEF Delete, workers, history, Rows
<1>4. CASE Expire
  <2>1. screen' \in Rows
    BY <1>4 DEF Expire, Rows
  <2> QED
    BY <1>4, <2>1 DEF Expire, Fault, workers, history
<1>5. CASE RequestEnrollment
  <2>1. Send("enroll", ticket, NoKey, 0, "enroller") \in Requests
    BY <1>5, SendType DEF RequestEnrollment, MaybeKey
  <2>2. enrolling' \in Enrolling
    BY <1>5 DEF RequestEnrollment, Enrolling
  <2> QED
    BY <1>5, <2>1, <2>2 DEF RequestEnrollment, workers, history
<1>6. CASE SaveEnrollment
  BY <1>6 DEF SaveEnrollment, Idle, workers, history, Enrolling, Stored, MaybeKey
<1>7. CASE AbandonEnrollment
  BY <1>7, OrphanedRequest
     DEF AbandonEnrollment, Fault, Idle, workers, history, Enrolling, MaybeKey
<1>8. ASSUME NEW kept \in Stored, Die(kept) PROVE TypeOK'
  BY <1>8, OrphanedRequest
     DEF Die, Fault, Idle, Nothing, NoAnswer, history, Stored, Answers, Enrolling,
         MaybeKey
<1>9. CASE UNCHANGED vars
  BY <1>9 DEF vars, workers, history
<1>10. Nothing \in Stored
  BY DEF Nothing, Stored, MaybeKey
<1> QED
  BY <1>1, <1>2, <1>3, <1>4, <1>5, <1>6, <1>7, <1>8, <1>9, <1>10, TypeServe, TypeWorker
     DEF Next, Serve

(* A worker sends nothing before its pending key is on disk.               *)
LEMMA PreparedStep == TypeOK /\ Prepared /\ [Next]_vars => Prepared'
<1> SUFFICES ASSUME TypeOK, Prepared, [Next]_vars, NEW w \in Workers,
                    pc'[w] \in {"rotating", "confirming"}
             PROVE  cred'[w].pending \in Keys
  BY DEF Prepared
<1> USE DEF TypeOK, Prepared
<1>1. ASSUME NEW v \in Workers, BecomeDue(v) \/ Step(v) \/ GiveUp(v)
      PROVE  cred'[w].pending \in Keys
  BY <1>1
     DEF BecomeDue, Step, GiveUp, Resume, Prepare, AskRotate, AskConfirm, Confirmed,
         Promote, EndPass, Draw, Stored, MaybeKey
<1>2. ASSUME NEW kept, Die(kept) PROVE cred'[w].pending \in Keys
  BY <1>2 DEF Die
<1>3. CASE UNCHANGED <<pc, cred>>
  BY <1>3
<1> QED
  BY <1>1, <1>2, <1>3
     DEF Next, Serve, ServeEnroll, ServeRotate, ServeConfirm, Revoke, Reenroll, Delete,
         Expire, RequestEnrollment, SaveEnrollment, AbandonEnrollment, workers, vars

(* Every reachable state has its type, whatever the number of workers.     *)
THEOREM TypeCorrect == Spec => []TypeOK
<1>1. Init => TypeOK /\ Prepared
  BY TypeInit DEF Init, Prepared
<1> QED
  BY <1>1, TypeStep, PreparedStep, PTL DEF Spec

(* What TypeStep needs is part of the inductive invariant.                 *)
LEMMA IInvPrepared == IInv => TypeOK /\ Prepared
  BY CredentialAssumption DEF IInv, Prepared, WorkerInv, TypeOK, Stored, MaybeKey

(* Revocation: the lineage ends with the key.                              *)
LEMMA StepRevoke ==
  ASSUME OneWorker, IInv, Revoke
  PROVE  IInv'
<1>t. TypeOK'
  BY TypeStep, IInvPrepared DEF IInv, Next, Serve, Step
<1>1. KeysDrawn'
  BY <1>t, CredentialAssumption DEF KeysDrawn, IInv, workers, Revoke, Retire
<1>2. RowInv'
  BY <1>t, CredentialAssumption DEF RowInv, IInv, Honoured, workers, Revoke, Retire
<1>3. StoreInv'
  BY <1>t, CredentialAssumption
     DEF StoreInv, IInv, Honoured, Linked, workers, Revoke, Retire
<1>4. LinkInv'
  BY <1>t, CredentialAssumption DEF LinkInv, IInv, Linked, workers, Revoke, Retire
<1>5. RotateInv'
  BY <1>t, CredentialAssumption
     DEF RotateInv, IInv, TypeOK, Rows, MaybeKey, Stored, Answers, Enrolling, Requests,
         Honoured, Linked, workers, Revoke, Retire
<1>6. WorkerInv'
  BY <1>t, CredentialAssumption DEF WorkerInv, IInv, Honoured, workers, Revoke, Retire
<1>7. InFlightInv'
  BY <1>t, CredentialAssumption DEF InFlightInv, IInv, workers, Revoke, Retire
<1>8. EnrollInv'
  BY <1>t, CredentialAssumption DEF EnrollInv, IInv, Honoured, workers, Revoke, Retire
<1> QED
  BY <1>t, <1>1, <1>2, <1>3, <1>4, <1>5, <1>6, <1>7, <1>8, CredentialAssumption
     DEF IInv, TypeOK, Rows, MaybeKey, Stored, Answers, Enrolling, Requests, workers,
         Revoke, Retire

(* Re-enrolment: the ticket is a key never drawn before.                   *)
LEMMA StepReenroll ==
  ASSUME OneWorker, IInv, NEW k \in Keys, Reenroll(k)
  PROVE  IInv'
<1>t. TypeOK'
  BY TypeStep, IInvPrepared DEF IInv, Next, Serve, Step
<1>1. KeysDrawn'
  BY <1>t, CredentialAssumption DEF KeysDrawn, IInv, workers, Reenroll, Retire, Draw
<1>2. RowInv'
  BY <1>t, CredentialAssumption
     DEF KeysDrawn, RowInv, IInv, TypeOK, Rows, MaybeKey, Stored, Answers, Enrolling,
         Requests, Honoured, workers, Reenroll, Retire, Draw
<1>3. StoreInv'
  BY <1>t, CredentialAssumption
     DEF KeysDrawn, RowInv, StoreInv, IInv, TypeOK, Rows, MaybeKey, Stored, Answers,
         Enrolling, Requests, Honoured, Linked, workers, Reenroll, Retire, Draw
<1>4. LinkInv'
  BY <1>t, CredentialAssumption DEF LinkInv, IInv, Linked, workers, Reenroll, Retire,
         Draw
<1>5. RotateInv'
  BY <1>t, CredentialAssumption
     DEF KeysDrawn, RowInv, RotateInv, IInv, TypeOK, Rows, MaybeKey, Stored, Answers,
         Enrolling, Requests, Honoured, Linked, workers, Reenroll, Retire, Draw
<1>6. WorkerInv'
  BY <1>t, CredentialAssumption
     DEF WorkerInv, IInv, Honoured, workers, Reenroll, Retire, Draw
<1>7. InFlightInv'
  BY <1>t, CredentialAssumption DEF InFlightInv, IInv, workers, Reenroll, Retire, Draw
<1>8. EnrollInv'
  BY <1>t, CredentialAssumption
     DEF EnrollInv, IInv, Honoured, workers, Reenroll, Retire, Draw
<1> QED
  BY <1>t, <1>1, <1>2, <1>3, <1>4, <1>5, <1>6, <1>7, <1>8, CredentialAssumption
     DEF IInv, TypeOK, Rows, MaybeKey, Stored, Answers, Enrolling, Requests, workers,
         Reenroll, Retire, Draw

(* Deletion of a revoked television.                                       *)
LEMMA StepDelete ==
  ASSUME OneWorker, IInv, Delete
  PROVE  IInv'
<1>t. TypeOK'
  BY TypeStep, IInvPrepared DEF IInv, Next, Serve, Step
<1>1. KeysDrawn'
  BY <1>t, CredentialAssumption DEF KeysDrawn, IInv, history, workers, Delete
<1>2. RowInv'
  BY <1>t, CredentialAssumption DEF RowInv, IInv, Honoured, history, workers, Delete
<1>3. StoreInv'
  BY <1>t, CredentialAssumption
     DEF StoreInv, IInv, Honoured, Linked, history, workers, Delete
<1>4. LinkInv'
  BY <1>t, CredentialAssumption DEF LinkInv, IInv, Linked, history, workers, Delete
<1>5. RotateInv'
  BY <1>t, CredentialAssumption
     DEF RotateInv, IInv, Honoured, Linked, history, workers, Delete
<1>6. WorkerInv'
  BY <1>t, CredentialAssumption DEF WorkerInv, IInv, Honoured, history, workers, Delete
<1>7. InFlightInv'
  BY <1>t, CredentialAssumption DEF InFlightInv, IInv, history, workers, Delete
<1>8. EnrollInv'
  BY <1>t, CredentialAssumption DEF EnrollInv, IInv, Honoured, history, workers, Delete
<1> QED
  BY <1>t, <1>1, <1>2, <1>3, <1>4, <1>5, <1>6, <1>7, <1>8, CredentialAssumption
     DEF IInv, TypeOK, Rows, MaybeKey, Stored, Answers, Enrolling, Requests, history,
         workers, Delete

(* Expiry of a ticket or of a pending rotation.                            *)
LEMMA StepExpire ==
  ASSUME OneWorker, IInv, Expire
  PROVE  IInv'
<1>t. TypeOK'
  BY TypeStep, IInvPrepared DEF IInv, Next, Serve, Step
<1>1. KeysDrawn'
  BY <1>t, CredentialAssumption DEF KeysDrawn, IInv, history, workers, Expire, Fault
<1>2. RowInv'
  BY <1>t, CredentialAssumption
     DEF RowInv, IInv, Honoured, history, workers, Expire, Fault
<1>3. StoreInv'
  BY <1>t, CredentialAssumption
     DEF StoreInv, IInv, Honoured, Linked, history, workers, Expire, Fault
<1>4. LinkInv'
  BY <1>t, CredentialAssumption DEF LinkInv, IInv, Linked, history, workers, Expire,
         Fault
<1>5. RotateInv'
  BY <1>t, CredentialAssumption
     DEF RotateInv, IInv, Honoured, Linked, history, workers, Expire, Fault
<1>6. WorkerInv'
  BY <1>t, CredentialAssumption
     DEF WorkerInv, IInv, Honoured, history, workers, Expire, Fault
<1>7. InFlightInv'
  BY <1>t, CredentialAssumption DEF InFlightInv, IInv, history, workers, Expire, Fault
<1>8. EnrollInv'
  BY <1>t, CredentialAssumption
     DEF EnrollInv, IInv, Honoured, history, workers, Expire, Fault
<1> QED
  BY <1>t, <1>1, <1>2, <1>3, <1>4, <1>5, <1>6, <1>7, <1>8, CredentialAssumption
     DEF IInv, TypeOK, Rows, MaybeKey, Stored, Answers, Enrolling, Requests, history,
         workers, Expire, Fault

(* Enrolment served: a new lineage, which no older request speaks for.     *)
LEMMA StepServeEnroll ==
  ASSUME OneWorker, IInv, NEW r \in requests, ServeEnroll(r)
  PROVE  IInv'
<1>t. TypeOK'
  BY TypeStep, IInvPrepared DEF IInv, Next, Serve, Step
<1>r. /\ r \in Requests /\ r.auth \in used
      /\ requests' = requests \ {r}
      /\ UNCHANGED <<ticket, tv, pc, cred, answer>>
  BY  DEF ServeEnroll, IInv, TypeOK, KeysDrawn, workers
<1>1. CASE screen.state = "pending" /\ screen.key = r.auth /\ screen.fresh
  <2> PICK k \in Keys :
        /\ k \notin used /\ used' = used \cup {k}
        /\ screen' = [screen EXCEPT !.state = "active", !.key = k,
                                    !.pending = NoKey, !.fresh = FALSE]
        /\ lineage' = {k}
        /\ enrolling' = IF r.from = "enroller"
                        THEN [pc |-> "granted", key |-> k, gen |-> screen.gen]
                        ELSE enrolling
    BY <1>1 DEF ServeEnroll, Draw
  <2>r. retired' = (retired \cup {screen.key}) \ {NoKey}
    BY <1>1 DEF ServeEnroll, Retire
  <2>1. KeysDrawn'
    BY <1>1, <1>r, <1>t, <2>r, CredentialAssumption DEF IInv, KeysDrawn
  <2>2. RowInv'
    BY <1>1, <1>r, <1>t, <2>r, CredentialAssumption
       DEF IInv, TypeOK, Rows, MaybeKey, Stored, Answers, Enrolling, Requests, Honoured,
           KeysDrawn, RowInv
  <2>3. StoreInv'
    BY <1>1, <1>r, <1>t, <2>r, CredentialAssumption
       DEF IInv, TypeOK, Rows, MaybeKey, Stored, Answers, Enrolling, Requests, Honoured,
           Linked, KeysDrawn, RowInv, StoreInv
  <2>4. LinkInv'
    BY <1>1, <1>r, <1>t, <2>r, CredentialAssumption
       DEF IInv, TypeOK, Rows, MaybeKey, Stored, Answers, Enrolling, Requests, Honoured,
           Linked, KeysDrawn, RowInv, LinkInv
  <2>5. RotateInv'
    BY <1>1, <1>r, <1>t, <2>r, CredentialAssumption
       DEF IInv, TypeOK, Rows, MaybeKey, Stored, Answers, Enrolling, Requests, Honoured,
           Linked, KeysDrawn, RowInv, RotateInv
  <2>6. WorkerInv'
    BY <1>1, <1>r, <1>t, <2>r, CredentialAssumption DEF IInv, Honoured, WorkerInv
  <2>8. InFlightInv'
    BY <1>1, <1>r, <1>t, <2>r, CredentialAssumption DEF IInv, InFlightInv
  <2>7. EnrollInv'
    BY <1>1, <1>r, <1>t, <2>r, CredentialAssumption
       DEF IInv, TypeOK, Rows, MaybeKey, Stored, Answers, Enrolling, Requests, Honoured,
           KeysDrawn, RowInv, EnrollInv
  <2> QED
    BY <1>t, <2>1, <2>2, <2>3, <2>4, <2>5, <2>6, <2>7, <2>8 DEF IInv
<1>2. CASE ~ (screen.state = "pending" /\ screen.key = r.auth /\ screen.fresh)
  <2>r. /\ enrolling' = IF r.from = "enroller" THEN Idle ELSE enrolling
        /\ UNCHANGED <<screen, used, lineage, retired>>
    BY <1>2 DEF ServeEnroll, history
  <2>1. KeysDrawn'
    BY <1>r, <1>t, <2>r, CredentialAssumption DEF IInv, Idle, KeysDrawn
  <2>2. RowInv'
    BY <1>r, <1>t, <2>r, CredentialAssumption DEF IInv, Honoured, Idle, RowInv
  <2>3. StoreInv'
    BY <1>r, <1>t, <2>r, CredentialAssumption DEF IInv, Honoured, Linked, Idle, StoreInv
  <2>4. LinkInv'
    BY <1>r, <1>t, <2>r, CredentialAssumption DEF IInv, Linked, Idle, LinkInv
  <2>5. RotateInv'
    BY <1>r, <1>t, <2>r, CredentialAssumption DEF IInv, Honoured, Linked, Idle,
           RotateInv
  <2>6. WorkerInv'
    BY <1>r, <1>t, <2>r, CredentialAssumption DEF IInv, Honoured, Idle, WorkerInv
  <2>8. InFlightInv'
    BY <1>r, <1>t, <2>r, CredentialAssumption DEF IInv, Idle, InFlightInv
  <2>7. EnrollInv'
    BY <1>r, <1>t, <2>r, CredentialAssumption DEF IInv, Honoured, Idle, EnrollInv
  <2> QED
    BY <1>t, <2>1, <2>2, <2>3, <2>4, <2>5, <2>6, <2>7, <2>8 DEF IInv
<1> QED
  BY <1>1, <1>2

(* Rotation served: the key recorded is the one the television prepared.   *)
LEMMA StepServeRotate ==
  ASSUME OneWorker, IInv, NEW r \in requests, ServeRotate(r)
  PROVE  IInv'
<1>t. TypeOK'
  BY TypeStep, IInvPrepared DEF IInv, Next, Serve, Step
<1>1. KeysDrawn'
  BY <1>t, CredentialAssumption
     DEF KeysDrawn, IInv, history, ServeRotate, RotateStatus, Authenticates, Respond
<1>2. RowInv'
  BY <1>t, CredentialAssumption
     DEF KeysDrawn, RowInv, StoreInv, LinkInv, RotateInv, WorkerInv, InFlightInv,
         EnrollInv, IInv, TypeOK, Rows, MaybeKey, Stored, Answers, Enrolling, Requests,
         Honoured, Linked, history, ServeRotate, RotateStatus, Authenticates, Respond
<1>3. StoreInv'
  BY <1>t, CredentialAssumption
     DEF KeysDrawn, RowInv, StoreInv, LinkInv, RotateInv, WorkerInv, InFlightInv,
         EnrollInv, IInv, TypeOK, Rows, MaybeKey, Stored, Answers, Enrolling, Requests,
         Honoured, Linked, history, ServeRotate, RotateStatus, Authenticates, Respond
<1>4. LinkInv'
  BY <1>t, CredentialAssumption
     DEF KeysDrawn, RowInv, StoreInv, LinkInv, RotateInv, WorkerInv, InFlightInv,
         EnrollInv, IInv, TypeOK, Rows, MaybeKey, Stored, Answers, Enrolling, Requests,
         Honoured, Linked, history, ServeRotate, RotateStatus, Authenticates, Respond
<1>5. RotateInv'
  BY <1>t, CredentialAssumption
     DEF RotateInv, IInv, Honoured, Linked, history, ServeRotate, RotateStatus,
         Authenticates, Respond
<1>w. ASSUME NEW w \in Workers, answer'[w] # answer[w]
      PROVE  r.from = w /\ pc[w] = "rotating"
  BY <1>w, CredentialAssumption
     DEF InFlightInv, Send, IInv, TypeOK, Rows, MaybeKey, Stored, Answers, Enrolling,
         Requests, history, ServeRotate, RotateStatus, Authenticates, Respond
<1>6. WorkerInv'
  BY <1>w, CredentialAssumption
     DEF WorkerInv, IInv, TypeOK, Rows, MaybeKey, Stored, Answers, Enrolling, Requests,
         Honoured, history, ServeRotate, RotateStatus, Authenticates, Respond
<1>7. InFlightInv'
  BY <1>t, CredentialAssumption
     DEF InFlightInv, IInv, history, ServeRotate, RotateStatus, Authenticates, Respond
<1>8. EnrollInv'
  BY <1>t, CredentialAssumption
     DEF EnrollInv, IInv, Honoured, history, ServeRotate, RotateStatus, Authenticates,
         Respond
<1> QED
  BY <1>t, <1>1, <1>2, <1>3, <1>4, <1>5, <1>6, <1>7, <1>8, CredentialAssumption
     DEF IInv, TypeOK, Rows, MaybeKey, Stored, Answers, Enrolling, Requests, history,
         ServeRotate, RotateStatus, Authenticates, Respond

(* Confirmation served: the key promoted is the pending one on disk.       *)
LEMMA StepServeConfirm ==
  ASSUME OneWorker, IInv, NEW r \in requests, ServeConfirm(r)
  PROVE  IInv'
<1>t. TypeOK'
  BY TypeStep, IInvPrepared DEF IInv, Next, Serve, Step
<1>r. /\ r \in Requests /\ r.kind = "confirm" /\ r.auth \in used
      /\ requests' = requests \ {r}
      /\ UNCHANGED <<ticket, tv, pc, cred, enrolling>>
  BY  DEF ServeConfirm, IInv, TypeOK, KeysDrawn
<1>1. CASE /\ screen.state = "active"
           /\ ~ (Authenticates(r) /\ r.gen = screen.gen)
           /\ PendingConfirmed(r)
  <2>r. /\ screen.state = "active" /\ screen.pending = r.auth
        /\ r.gen = screen.gen + 1
        /\ screen' = [screen EXCEPT !.key = screen.pending, !.gen = screen.gen + 1,
                                    !.pending = NoKey, !.fresh = FALSE]
        /\ retired' = (retired \cup {screen.key}) \ {NoKey}
        /\ lineage' = lineage \cup {screen.pending}
        /\ answer' = IF r.from \in Workers
                     THEN [answer EXCEPT ![r.from] = [status |-> "ok", gen |-> screen.gen + 1]]
                     ELSE answer
        /\ used' = used
    BY <1>1 DEF ServeConfirm, PendingConfirmed, Retire, Respond
  <2>1. KeysDrawn'
    BY <1>1, <1>r, <1>t, <2>r, CredentialAssumption DEF IInv, KeysDrawn
  <2>2. RowInv'
    BY <1>1, <1>r, <1>t, <2>r, CredentialAssumption DEF IInv, Honoured, RowInv
  <2>3. StoreInv'
    BY <1>1, <1>r, <1>t, <2>r, CredentialAssumption
       DEF IInv, TypeOK, Rows, MaybeKey, Stored, Answers, Enrolling, Requests, Honoured,
           Linked, KeysDrawn, RowInv, StoreInv
  <2>4. LinkInv'
    BY <1>1, <1>r, <1>t, <2>r, CredentialAssumption
       DEF IInv, TypeOK, Rows, MaybeKey, Stored, Answers, Enrolling, Requests, Honoured,
           Linked, KeysDrawn, RowInv, StoreInv, LinkInv, InFlightInv
  <2>5. RotateInv'
    BY <1>1, <1>r, <1>t, <2>r, CredentialAssumption
       DEF IInv, TypeOK, Rows, MaybeKey, Stored, Answers, Enrolling, Requests, Honoured,
           Linked, KeysDrawn, RowInv, StoreInv, LinkInv, RotateInv, InFlightInv
  <2>w. ASSUME NEW w \in Workers, answer'[w] # answer[w]
        PROVE  r.from = w /\ pc[w] = "confirming" /\ r.auth = tv.pending
    BY <2>w, <2>r, <1>r DEF InFlightInv, Send, IInv, TypeOK
  <2>h. tv.pending # NoKey /\ tv.pending \in Honoured => tv'.pending \in Honoured'
    BY <1>r, <2>r DEF Honoured
  <2>6. WorkerInv'
    BY <1>r, <1>t, <2>r, <2>w, <2>h DEF WorkerInv, Honoured, IInv
  <2>8. InFlightInv'
    BY <1>1, <1>r, <1>t, <2>r, CredentialAssumption DEF IInv, InFlightInv
  <2>7. EnrollInv'
    BY <1>1, <1>r, <1>t, <2>r, CredentialAssumption
       DEF IInv, TypeOK, Rows, MaybeKey, Stored, Answers, Enrolling, Requests, Honoured,
           KeysDrawn, RowInv, EnrollInv
  <2> QED
    BY <1>t, <2>1, <2>2, <2>3, <2>4, <2>5, <2>6, <2>7, <2>8 DEF IInv
<1>2. CASE ~ /\ screen.state = "active"
             /\ ~ (Authenticates(r) /\ r.gen = screen.gen)
             /\ PendingConfirmed(r)
  <2>r. UNCHANGED <<screen, used, lineage, retired>>
    BY <1>2 DEF ServeConfirm, history
  <2>s. ASSUME NEW w \in Workers, answer'[w] # answer[w]
        PROVE  r.from = w /\ (answer'[w].status = "ok" => r.auth = screen.key)
    BY <1>2, <2>s DEF ServeConfirm, Respond, Authenticates, IInv, TypeOK
  <2>1. KeysDrawn'
    BY <1>r, <1>t, <2>r, <2>s, CredentialAssumption DEF IInv, KeysDrawn
  <2>2. RowInv'
    BY <1>r, <1>t, <2>r, <2>s, CredentialAssumption DEF IInv, Honoured, RowInv
  <2>3. StoreInv'
    BY <1>r, <1>t, <2>r, <2>s, CredentialAssumption DEF IInv, Honoured, Linked, StoreInv
  <2>4. LinkInv'
    BY <1>r, <1>t, <2>r, <2>s, CredentialAssumption DEF IInv, Linked, LinkInv
  <2>5. RotateInv'
    BY <1>r, <1>t, <2>r, <2>s, CredentialAssumption DEF IInv, Honoured, Linked,
           RotateInv
  <2>w. ASSUME NEW w \in Workers, answer'[w] # answer[w]
        PROVE  pc[w] = "confirming" /\ r.auth = tv.pending
    BY <2>s, <2>w, <1>r DEF InFlightInv, Send, IInv
  <2>6. WorkerInv'
    BY <1>r, <2>r, <2>s, <2>w DEF WorkerInv, Honoured, IInv
  <2>8. InFlightInv'
    BY <1>r, <1>t, <2>r, <2>s, CredentialAssumption DEF IInv, InFlightInv
  <2>7. EnrollInv'
    BY <1>r, <1>t, <2>r, <2>s, CredentialAssumption DEF IInv, Honoured, EnrollInv
  <2> QED
    BY <1>t, <2>1, <2>2, <2>3, <2>4, <2>5, <2>6, <2>7, <2>8 DEF IInv
<1> QED
  BY <1>1, <1>2

(* Enrolment requested, by a television without credentials.               *)
LEMMA StepRequestEnrollment ==
  ASSUME OneWorker, IInv, RequestEnrollment
  PROVE  IInv'
<1>t. TypeOK'
  BY TypeStep, IInvPrepared DEF IInv, Next, Serve, Step
<1>1. KeysDrawn'
  BY <1>t, CredentialAssumption
     DEF KeysDrawn, IInv, history, workers, RequestEnrollment, Send
<1>2. RowInv'
  BY <1>t, CredentialAssumption
     DEF RowInv, IInv, Honoured, history, workers, RequestEnrollment, Send
<1>3. StoreInv'
  BY <1>t, CredentialAssumption
     DEF StoreInv, IInv, Honoured, Linked, history, workers, RequestEnrollment, Send
<1>4. LinkInv'
  BY <1>t, CredentialAssumption
     DEF LinkInv, IInv, Linked, history, workers, RequestEnrollment, Send
<1>5. RotateInv'
  BY <1>t, CredentialAssumption
     DEF RotateInv, IInv, Honoured, Linked, history, workers, RequestEnrollment, Send
<1>6. WorkerInv'
  BY <1>t, CredentialAssumption
     DEF WorkerInv, IInv, Honoured, history, workers, RequestEnrollment, Send
<1>7. InFlightInv'
  BY <1>t, CredentialAssumption
     DEF InFlightInv, IInv, history, workers, RequestEnrollment, Send
<1>8. EnrollInv'
  BY <1>t, CredentialAssumption
     DEF EnrollInv, IInv, Honoured, history, workers, RequestEnrollment, Send
<1> QED
  BY <1>t, <1>1, <1>2, <1>3, <1>4, <1>5, <1>6, <1>7, <1>8, CredentialAssumption
     DEF IInv, TypeOK, Rows, MaybeKey, Stored, Answers, Enrolling, Requests, history,
         workers, RequestEnrollment, Send

(* The granted key saved.                                                  *)
LEMMA StepSaveEnrollment ==
  ASSUME OneWorker, IInv, SaveEnrollment
  PROVE  IInv'
<1>t. TypeOK'
  BY TypeStep, IInvPrepared DEF IInv, Next, Serve, Step
<1>1. KeysDrawn'
  BY <1>t, CredentialAssumption
     DEF KeysDrawn, IInv, history, workers, SaveEnrollment, Idle
<1>2. RowInv'
  BY <1>t, CredentialAssumption
     DEF RowInv, IInv, Honoured, history, workers, SaveEnrollment, Idle
<1>3. StoreInv'
  BY <1>t, CredentialAssumption
     DEF KeysDrawn, RowInv, StoreInv, LinkInv, RotateInv, WorkerInv, InFlightInv,
         EnrollInv, IInv, TypeOK, Rows, MaybeKey, Stored, Answers, Enrolling, Requests,
         Honoured, Linked, history, workers, SaveEnrollment, Idle
<1>4. LinkInv'
  BY <1>t, CredentialAssumption
     DEF KeysDrawn, RowInv, StoreInv, LinkInv, RotateInv, WorkerInv, InFlightInv,
         EnrollInv, IInv, TypeOK, Rows, MaybeKey, Stored, Answers, Enrolling, Requests,
         Honoured, Linked, history, workers, SaveEnrollment, Idle
<1>5. RotateInv'
  BY <1>t, CredentialAssumption
     DEF KeysDrawn, RowInv, StoreInv, LinkInv, RotateInv, WorkerInv, InFlightInv,
         EnrollInv, IInv, TypeOK, Rows, MaybeKey, Stored, Answers, Enrolling, Requests,
         Honoured, Linked, history, workers, SaveEnrollment, Idle
<1>6. WorkerInv'
  BY <1>t, CredentialAssumption
     DEF KeysDrawn, RowInv, StoreInv, LinkInv, RotateInv, WorkerInv, InFlightInv,
         EnrollInv, IInv, TypeOK, Rows, MaybeKey, Stored, Answers, Enrolling, Requests,
         Honoured, Linked, history, workers, SaveEnrollment, Idle
<1>7. InFlightInv'
  BY <1>t, CredentialAssumption
     DEF KeysDrawn, RowInv, StoreInv, LinkInv, RotateInv, WorkerInv, InFlightInv,
         EnrollInv, IInv, TypeOK, Rows, MaybeKey, Stored, Answers, Enrolling, Requests,
         Honoured, Linked, history, workers, SaveEnrollment, Idle
<1>8. EnrollInv'
  BY <1>t, CredentialAssumption
     DEF EnrollInv, IInv, Honoured, history, workers, SaveEnrollment, Idle
<1> QED
  BY <1>t, <1>1, <1>2, <1>3, <1>4, <1>5, <1>6, <1>7, <1>8, CredentialAssumption
     DEF IInv, TypeOK, Rows, MaybeKey, Stored, Answers, Enrolling, Requests, history,
         workers, SaveEnrollment, Idle

(* Enrolment given up; its request stays.                                  *)
LEMMA StepAbandonEnrollment ==
  ASSUME OneWorker, IInv, AbandonEnrollment
  PROVE  IInv'
<1>t. TypeOK'
  BY TypeStep, IInvPrepared DEF IInv, Next, Serve, Step
<1>1. KeysDrawn'
  BY OrphanedRequest, <1>t, CredentialAssumption
     DEF KeysDrawn, IInv, TypeOK, Rows, MaybeKey, Stored, Answers, Enrolling, Requests,
         history, workers, AbandonEnrollment, Idle, Fault
<1>2. RowInv'
  BY OrphanedRequest, <1>t, CredentialAssumption
     DEF RowInv, IInv, Honoured, history, workers, AbandonEnrollment, Idle, Fault
<1>3. StoreInv'
  BY OrphanedRequest, <1>t, CredentialAssumption
     DEF StoreInv, IInv, Honoured, Linked, history, workers, AbandonEnrollment, Idle,
         Fault
<1>4. LinkInv'
  BY OrphanedRequest, <1>t, CredentialAssumption
     DEF LinkInv, IInv, Linked, history, workers, AbandonEnrollment, Idle, Fault
<1>5. RotateInv'
  BY OrphanedRequest, <1>t, CredentialAssumption
     DEF RotateInv, IInv, TypeOK, Rows, MaybeKey, Stored, Answers, Enrolling, Requests,
         Honoured, Linked, history, workers, AbandonEnrollment, Idle, Fault
<1>6. WorkerInv'
  BY OrphanedRequest, <1>t, CredentialAssumption
     DEF WorkerInv, IInv, Honoured, history, workers, AbandonEnrollment, Idle, Fault
<1>7. InFlightInv'
  BY OrphanedRequest, <1>t, CredentialAssumption
     DEF InFlightInv, IInv, TypeOK, Rows, MaybeKey, Stored, Answers, Enrolling,
         Requests, history, workers, AbandonEnrollment, Idle, Fault
<1>8. EnrollInv'
  BY OrphanedRequest, <1>t, CredentialAssumption
     DEF EnrollInv, IInv, TypeOK, Rows, MaybeKey, Stored, Answers, Enrolling, Requests,
         Honoured, history, workers, AbandonEnrollment, Idle, Fault
<1> QED
  BY <1>t, <1>1, <1>2, <1>3, <1>4, <1>5, <1>6, <1>7, <1>8, CredentialAssumption
     DEF IInv, TypeOK, Rows, MaybeKey, Stored, Answers, Enrolling, Requests, history,
         workers, AbandonEnrollment, Idle, Fault

(* A rotation comes due.                                                   *)
LEMMA StepBecomeDue ==
  ASSUME OneWorker, IInv, NEW w \in Workers, BecomeDue(w)
  PROVE  IInv'
<1>t. TypeOK'
  BY TypeStep, IInvPrepared DEF IInv, Next, Serve, Step
<1>1. KeysDrawn'
  BY <1>t, CredentialAssumption DEF KeysDrawn, IInv, history, BecomeDue
<1>2. RowInv'
  BY <1>t, CredentialAssumption DEF RowInv, IInv, Honoured, history, BecomeDue
<1>3. StoreInv'
  BY <1>t, CredentialAssumption DEF StoreInv, IInv, Honoured, Linked, history, BecomeDue
<1>4. LinkInv'
  BY <1>t, CredentialAssumption DEF LinkInv, IInv, Linked, history, BecomeDue
<1>5. RotateInv'
  BY <1>t, CredentialAssumption DEF RotateInv, IInv, Honoured, Linked, history,
         BecomeDue
<1>6. WorkerInv'
  BY <1>t, CredentialAssumption DEF WorkerInv, IInv, Honoured, history, BecomeDue
<1>7. InFlightInv'
  BY <1>t, CredentialAssumption DEF InFlightInv, IInv, history, BecomeDue
<1>8. EnrollInv'
  BY <1>t, CredentialAssumption DEF EnrollInv, IInv, Honoured, history, BecomeDue
<1> QED
  BY <1>t, <1>1, <1>2, <1>3, <1>4, <1>5, <1>6, <1>7, <1>8, CredentialAssumption
     DEF IInv, TypeOK, Rows, MaybeKey, Stored, Answers, Enrolling, Requests, history,
         BecomeDue

(* A rotation resumed after a crash or a timeout.                          *)
LEMMA StepResume ==
  ASSUME OneWorker, IInv, NEW w \in Workers, Resume(w)
  PROVE  IInv'
<1>t. TypeOK'
  BY TypeStep, IInvPrepared DEF IInv, Next, Serve, Step
<1>1. KeysDrawn'
  BY <1>t, CredentialAssumption DEF KeysDrawn, IInv, history, Resume, AskRotate, Send
<1>2. RowInv'
  BY <1>t, CredentialAssumption
     DEF RowInv, IInv, Honoured, history, Resume, AskRotate, Send
<1>3. StoreInv'
  BY <1>t, CredentialAssumption
     DEF StoreInv, IInv, Honoured, Linked, history, Resume, AskRotate, Send
<1>4. LinkInv'
  BY <1>t, CredentialAssumption
     DEF LinkInv, IInv, Linked, history, Resume, AskRotate, Send
<1>5. RotateInv'
  BY <1>t, CredentialAssumption
     DEF KeysDrawn, RowInv, StoreInv, LinkInv, RotateInv, InFlightInv, IInv, TypeOK,
         Rows, MaybeKey, Stored, Answers, Enrolling, Requests, Honoured, Linked,
         history, Resume, AskRotate, Send
<1>6. WorkerInv'
  BY <1>t, CredentialAssumption
     DEF WorkerInv, IInv, TypeOK, Rows, MaybeKey, Stored, Answers, Enrolling, Requests,
         Honoured, history, Resume, AskRotate, Send
<1>7. InFlightInv'
  BY <1>t, CredentialAssumption
     DEF KeysDrawn, RowInv, StoreInv, LinkInv, RotateInv, WorkerInv, InFlightInv,
         EnrollInv, IInv, TypeOK, Rows, MaybeKey, Stored, Answers, Enrolling, Requests,
         Honoured, Linked, history, Resume, AskRotate, Send
<1>8. EnrollInv'
  BY <1>t, CredentialAssumption
     DEF EnrollInv, IInv, Honoured, history, Resume, AskRotate, Send
<1> QED
  BY <1>t, <1>1, <1>2, <1>3, <1>4, <1>5, <1>6, <1>7, <1>8, CredentialAssumption
     DEF IInv, TypeOK, Rows, MaybeKey, Stored, Answers, Enrolling, Requests, history,
         Resume, AskRotate, Send

(* A new key prepared, on disk before it is sent.                          *)
LEMMA StepPrepare ==
  ASSUME OneWorker, IInv, NEW w \in Workers, NEW k \in Keys, Prepare(w, k)
  PROVE  IInv'
<1>t. TypeOK'
  BY TypeStep, IInvPrepared DEF IInv, Next, Serve, Step
<1>1. KeysDrawn'
  BY <1>t, CredentialAssumption DEF KeysDrawn, IInv, Prepare, AskRotate, Send, Draw
<1>2. RowInv'
  BY <1>t, CredentialAssumption DEF RowInv, IInv, Honoured, Prepare, AskRotate, Send,
         Draw
<1>3. StoreInv'
  BY <1>t, CredentialAssumption
     DEF KeysDrawn, RowInv, StoreInv, IInv, TypeOK, Rows, MaybeKey, Stored, Answers,
         Enrolling, Requests, Honoured, Linked, Prepare, AskRotate, Send, Draw
<1>4. LinkInv'
  BY <1>t, CredentialAssumption
     DEF KeysDrawn, RowInv, StoreInv, LinkInv, RotateInv, WorkerInv, InFlightInv,
         EnrollInv, IInv, TypeOK, Rows, MaybeKey, Stored, Answers, Enrolling, Requests,
         Honoured, Linked, Prepare, AskRotate, Send, Draw
<1>5. RotateInv'
  BY <1>t, CredentialAssumption
     DEF KeysDrawn, RowInv, StoreInv, LinkInv, RotateInv, WorkerInv, InFlightInv,
         EnrollInv, IInv, TypeOK, Rows, MaybeKey, Stored, Answers, Enrolling, Requests,
         Honoured, Linked, Prepare, AskRotate, Send, Draw
<1>w. /\ \A v \in Workers : v = w
      /\ tv'.pending = k /\ tv'.key = tv.key /\ tv.key # NoKey /\ k # NoKey
      /\ pc[w] = "due" /\ pc'[w] = "rotating" /\ answer'[w].status = "none"
      /\ cred'[w] = tv'
  BY CredentialAssumption
     DEF OneWorker, WorkerInv, IInv, TypeOK, Rows, MaybeKey, Stored, Answers, Enrolling,
         Requests, Honoured, Prepare, AskRotate, Send, Draw
<1>6. WorkerInv'
  BY <1>w, CredentialAssumption
     DEF WorkerInv, IInv, TypeOK, Rows, MaybeKey, Stored, Answers, Enrolling, Requests,
         Honoured, Prepare, AskRotate, Send, Draw
<1>7. InFlightInv'
  BY <1>t, CredentialAssumption
     DEF KeysDrawn, RowInv, StoreInv, LinkInv, RotateInv, WorkerInv, InFlightInv,
         EnrollInv, IInv, TypeOK, Rows, MaybeKey, Stored, Answers, Enrolling, Requests,
         Honoured, Linked, Prepare, AskRotate, Send, Draw
<1>8. EnrollInv'
  BY <1>t, CredentialAssumption
     DEF EnrollInv, IInv, Honoured, Prepare, AskRotate, Send, Draw
<1> QED
  BY <1>t, <1>1, <1>2, <1>3, <1>4, <1>5, <1>6, <1>7, <1>8, CredentialAssumption
     DEF IInv, TypeOK, Rows, MaybeKey, Stored, Answers, Enrolling, Requests, Prepare,
         AskRotate, Send, Draw

(* The confirmation asked for.                                             *)
LEMMA StepAskConfirm ==
  ASSUME OneWorker, IInv, NEW w \in Workers, AskConfirm(w)
  PROVE  IInv'
<1>t. TypeOK'
  BY TypeStep, IInvPrepared DEF IInv, Next, Serve, Step
<1>1. KeysDrawn'
  BY <1>t, CredentialAssumption
     DEF KeysDrawn, IInv, TypeOK, Rows, MaybeKey, Stored, Answers, Enrolling, Requests,
         history, AskConfirm, Accepted, Send, NoAnswer
<1>2. RowInv'
  BY <1>t, CredentialAssumption
     DEF RowInv, IInv, Honoured, history, AskConfirm, Accepted, Send, NoAnswer
<1>3. StoreInv'
  BY <1>t, CredentialAssumption
     DEF StoreInv, IInv, Honoured, Linked, history, AskConfirm, Accepted, Send, NoAnswer
<1>4. LinkInv'
  BY <1>t, CredentialAssumption
     DEF LinkInv, IInv, Linked, history, AskConfirm, Accepted, Send, NoAnswer
<1>5. RotateInv'
  BY <1>t, CredentialAssumption
     DEF RotateInv, IInv, Honoured, Linked, history, AskConfirm, Accepted, Send,
         NoAnswer
<1>6. WorkerInv'
  BY <1>t, CredentialAssumption
     DEF WorkerInv, IInv, TypeOK, Rows, MaybeKey, Stored, Answers, Enrolling, Requests,
         Honoured, history, AskConfirm, Accepted, Send, NoAnswer
<1>7. InFlightInv'
  BY <1>t, CredentialAssumption
     DEF KeysDrawn, RowInv, StoreInv, LinkInv, RotateInv, WorkerInv, InFlightInv,
         EnrollInv, IInv, TypeOK, Rows, MaybeKey, Stored, Answers, Enrolling, Requests,
         Honoured, Linked, history, AskConfirm, Accepted, Send, NoAnswer
<1>8. EnrollInv'
  BY <1>t, CredentialAssumption
     DEF EnrollInv, IInv, Honoured, history, AskConfirm, Accepted, Send, NoAnswer
<1> QED
  BY <1>t, <1>1, <1>2, <1>3, <1>4, <1>5, <1>6, <1>7, <1>8, CredentialAssumption
     DEF IInv, TypeOK, Rows, MaybeKey, Stored, Answers, Enrolling, Requests, history,
         AskConfirm, Accepted, Send, NoAnswer

(* The confirmation received: the pending key is honoured.                 *)
LEMMA StepConfirmed ==
  ASSUME OneWorker, IInv, NEW w \in Workers, Confirmed(w)
  PROVE  IInv'
<1>t. TypeOK'
  BY TypeStep, IInvPrepared DEF IInv, Next, Serve, Step
<1>1. KeysDrawn'
  BY <1>t, CredentialAssumption
     DEF KeysDrawn, IInv, history, Confirmed, Accepted, NoAnswer
<1>2. RowInv'
  BY <1>t, CredentialAssumption
     DEF RowInv, IInv, Honoured, history, Confirmed, Accepted, NoAnswer
<1>3. StoreInv'
  BY <1>t, CredentialAssumption
     DEF StoreInv, IInv, Honoured, Linked, history, Confirmed, Accepted, NoAnswer
<1>4. LinkInv'
  BY <1>t, CredentialAssumption
     DEF LinkInv, IInv, Linked, history, Confirmed, Accepted, NoAnswer
<1>5. RotateInv'
  BY <1>t, CredentialAssumption
     DEF RotateInv, IInv, Honoured, Linked, history, Confirmed, Accepted, NoAnswer
<1>6. WorkerInv'
  BY <1>t, CredentialAssumption
     DEF WorkerInv, IInv, TypeOK, Rows, MaybeKey, Stored, Answers, Enrolling, Requests,
         Honoured, history, Confirmed, Accepted, NoAnswer
<1>7. InFlightInv'
  BY <1>t, CredentialAssumption
     DEF InFlightInv, IInv, history, Confirmed, Accepted, NoAnswer
<1>8. EnrollInv'
  BY <1>t, CredentialAssumption
     DEF EnrollInv, IInv, Honoured, history, Confirmed, Accepted, NoAnswer
<1> QED
  BY <1>t, <1>1, <1>2, <1>3, <1>4, <1>5, <1>6, <1>7, <1>8, CredentialAssumption
     DEF IInv, TypeOK, Rows, MaybeKey, Stored, Answers, Enrolling, Requests, history,
         Confirmed, Accepted, NoAnswer

(* The promotion on disk follows the one on the server.                    *)
LEMMA StepPromote ==
  ASSUME OneWorker, IInv, NEW w \in Workers, Promote(w)
  PROVE  IInv'
<1>t. TypeOK'
  BY TypeStep, IInvPrepared DEF IInv, Next, Serve, Step
<1>1. KeysDrawn'
  BY <1>t, CredentialAssumption DEF KeysDrawn, IInv, history, Promote, Nothing
<1>2. RowInv'
  BY <1>t, CredentialAssumption DEF RowInv, IInv, Honoured, history, Promote, Nothing
<1>3. StoreInv'
  BY <1>t, CredentialAssumption
     DEF KeysDrawn, RowInv, StoreInv, LinkInv, RotateInv, WorkerInv, InFlightInv,
         EnrollInv, IInv, TypeOK, Rows, MaybeKey, Stored, Answers, Enrolling, Requests,
         Honoured, Linked, history, Promote, Nothing
<1>4. LinkInv'
  BY <1>t, CredentialAssumption
     DEF KeysDrawn, RowInv, StoreInv, LinkInv, RotateInv, WorkerInv, InFlightInv,
         EnrollInv, IInv, TypeOK, Rows, MaybeKey, Stored, Answers, Enrolling, Requests,
         Honoured, Linked, history, Promote, Nothing
<1>5. RotateInv'
  BY <1>t, CredentialAssumption
     DEF KeysDrawn, RowInv, StoreInv, LinkInv, RotateInv, InFlightInv, IInv, TypeOK,
         Rows, MaybeKey, Stored, Answers, Enrolling, Requests, Honoured, Linked,
         history, Promote, Nothing
<1>w. /\ \A v \in Workers : v = w
      /\ pc[w] = "promoting" /\ pc'[w] = "idle" /\ answer'[w].status = "none"
      /\ \A r \in requests : r.from # w
  BY CredentialAssumption
     DEF OneWorker, WorkerInv, InFlightInv, IInv, TypeOK, Rows, MaybeKey, Stored,
         Answers, Enrolling, Requests, Honoured, history, Promote, Nothing
<1>6. WorkerInv'
  BY <1>w, CredentialAssumption
     DEF WorkerInv, IInv, TypeOK, Rows, MaybeKey, Stored, Answers, Enrolling, Requests,
         Honoured, history, Promote, Nothing
<1>7. InFlightInv'
  BY <1>w, CredentialAssumption
     DEF InFlightInv, IInv, TypeOK, Rows, MaybeKey, Stored, Answers, Enrolling,
         Requests, history, Promote, Nothing
<1>8. EnrollInv'
  BY <1>t, CredentialAssumption DEF EnrollInv, IInv, Honoured, history, Promote, Nothing
<1> QED
  BY <1>t, <1>1, <1>2, <1>3, <1>4, <1>5, <1>6, <1>7, <1>8, CredentialAssumption
     DEF IInv, TypeOK, Rows, MaybeKey, Stored, Answers, Enrolling, Requests, history,
         Promote, Nothing

(* A pass ended by any other answer.                                       *)
LEMMA StepEndPass ==
  ASSUME OneWorker, IInv, NEW w \in Workers, EndPass(w)
  PROVE  IInv'
<1>t. TypeOK'
  BY TypeStep, IInvPrepared DEF IInv, Next, Serve, Step
<1>1. KeysDrawn'
  BY <1>t, CredentialAssumption
     DEF KeysDrawn, IInv, history, EndPass, Accepted, Nothing, NoAnswer
<1>2. RowInv'
  BY <1>t, CredentialAssumption
     DEF RowInv, IInv, Honoured, history, EndPass, Accepted, Nothing, NoAnswer
<1>3. StoreInv'
  BY <1>t, CredentialAssumption
     DEF StoreInv, IInv, Honoured, Linked, history, EndPass, Accepted, Nothing, NoAnswer
<1>4. LinkInv'
  BY <1>t, CredentialAssumption
     DEF LinkInv, IInv, Linked, history, EndPass, Accepted, Nothing, NoAnswer
<1>5. RotateInv'
  BY <1>t, CredentialAssumption
     DEF RotateInv, IInv, Honoured, Linked, history, EndPass, Accepted, Nothing,
         NoAnswer
<1>6. WorkerInv'
  BY <1>t, CredentialAssumption
     DEF WorkerInv, IInv, TypeOK, Rows, MaybeKey, Stored, Answers, Enrolling, Requests,
         Honoured, history, EndPass, Accepted, Nothing, NoAnswer
<1>7. InFlightInv'
  BY <1>t, CredentialAssumption
     DEF InFlightInv, IInv, history, EndPass, Accepted, Nothing, NoAnswer
<1>8. EnrollInv'
  BY <1>t, CredentialAssumption
     DEF EnrollInv, IInv, Honoured, history, EndPass, Accepted, Nothing, NoAnswer
<1> QED
  BY <1>t, <1>1, <1>2, <1>3, <1>4, <1>5, <1>6, <1>7, <1>8, CredentialAssumption
     DEF IInv, TypeOK, Rows, MaybeKey, Stored, Answers, Enrolling, Requests, history,
         EndPass, Accepted, Nothing, NoAnswer

(* A pass ended by a timeout; its request stays.                           *)
LEMMA StepGiveUp ==
  ASSUME OneWorker, IInv, NEW w \in Workers, GiveUp(w)
  PROVE  IInv'
<1>t. TypeOK'
  BY TypeStep, IInvPrepared DEF IInv, Next, Serve, Step
<1>1. KeysDrawn'
  BY OrphanedRequest, <1>t, CredentialAssumption
     DEF KeysDrawn, IInv, TypeOK, Rows, MaybeKey, Stored, Answers, Enrolling, Requests,
         history, GiveUp, Fault, Nothing, NoAnswer
<1>2. RowInv'
  BY OrphanedRequest, <1>t, CredentialAssumption
     DEF RowInv, IInv, Honoured, history, GiveUp, Fault, Nothing, NoAnswer
<1>3. StoreInv'
  BY OrphanedRequest, <1>t, CredentialAssumption
     DEF StoreInv, IInv, Honoured, Linked, history, GiveUp, Fault, Nothing, NoAnswer
<1>4. LinkInv'
  BY OrphanedRequest, <1>t, CredentialAssumption
     DEF LinkInv, IInv, Linked, history, GiveUp, Fault, Nothing, NoAnswer
<1>5. RotateInv'
  BY OrphanedRequest, <1>t, CredentialAssumption
     DEF RotateInv, IInv, TypeOK, Rows, MaybeKey, Stored, Answers, Enrolling, Requests,
         Honoured, Linked, history, GiveUp, Fault, Nothing, NoAnswer
<1>6. WorkerInv'
  BY OrphanedRequest, <1>t, CredentialAssumption
     DEF WorkerInv, IInv, TypeOK, Rows, MaybeKey, Stored, Answers, Enrolling, Requests,
         Honoured, history, GiveUp, Fault, Nothing, NoAnswer
<1>7. InFlightInv'
  BY OrphanedRequest, <1>t, CredentialAssumption
     DEF InFlightInv, IInv, TypeOK, Rows, MaybeKey, Stored, Answers, Enrolling,
         Requests, history, GiveUp, Fault, Nothing, NoAnswer
<1>8. EnrollInv'
  BY OrphanedRequest, <1>t, CredentialAssumption
     DEF EnrollInv, IInv, TypeOK, Rows, MaybeKey, Stored, Answers, Enrolling, Requests,
         Honoured, history, GiveUp, Fault, Nothing, NoAnswer
<1> QED
  BY <1>t, <1>1, <1>2, <1>3, <1>4, <1>5, <1>6, <1>7, <1>8, CredentialAssumption
     DEF IInv, TypeOK, Rows, MaybeKey, Stored, Answers, Enrolling, Requests, history,
         GiveUp, Fault, Nothing, NoAnswer

(* The process dies, with or without its data; the requests stay.          *)
LEMMA StepDie ==
  ASSUME OneWorker, IInv, NEW kept \in {tv, Nothing}, Die(kept)
  PROVE  IInv'
<1>t. TypeOK'
  BY TypeStep, IInvPrepared DEF IInv, Next, Serve, Step
<1>1. KeysDrawn'
  BY OrphanedRequest, <1>t, CredentialAssumption
     DEF KeysDrawn, IInv, TypeOK, Rows, MaybeKey, Stored, Answers, Enrolling, Requests,
         history, Die, Fault, Nothing, NoAnswer, Idle
<1>2. RowInv'
  BY OrphanedRequest, <1>t, CredentialAssumption
     DEF RowInv, IInv, Honoured, history, Die, Fault, Nothing, NoAnswer, Idle
<1>3. StoreInv'
  BY OrphanedRequest, <1>t, CredentialAssumption
     DEF StoreInv, IInv, Honoured, Linked, history, Die, Fault, Nothing, NoAnswer, Idle
<1>4. LinkInv'
  BY OrphanedRequest, <1>t, CredentialAssumption
     DEF LinkInv, IInv, TypeOK, Rows, MaybeKey, Stored, Answers, Enrolling, Requests,
         Linked, history, Die, Fault, Nothing, NoAnswer, Idle
<1>5. RotateInv'
  BY OrphanedRequest, <1>t, CredentialAssumption
     DEF RotateInv, IInv, TypeOK, Rows, MaybeKey, Stored, Answers, Enrolling, Requests,
         Honoured, Linked, history, Die, Fault, Nothing, NoAnswer, Idle
<1>6. WorkerInv'
  BY OrphanedRequest, <1>t, CredentialAssumption
     DEF WorkerInv, IInv, Honoured, history, Die, Fault, Nothing, NoAnswer, Idle
<1>o. \A r \in requests' : r.from \notin Workers \cup {"enroller"}
  BY OrphanedRequest, "gone" # "enroller", CredentialAssumption
     DEF IInv, TypeOK, Rows, MaybeKey, Stored, Answers, Enrolling, Requests, history,
         Die, Fault, Nothing, NoAnswer, Idle
<1>7. InFlightInv'
  <2> SUFFICES ASSUME NEW w \in Workers, NEW r \in requests', r.from = w PROVE FALSE
    BY CredentialAssumption
       DEF InFlightInv, IInv, TypeOK, Rows, MaybeKey, Stored, Answers, Enrolling,
           Requests, history, Die, Fault, Nothing, NoAnswer, Idle
  <2> QED
    BY <1>o, CredentialAssumption
       DEF IInv, TypeOK, Rows, MaybeKey, Stored, Answers, Enrolling, Requests, history,
           Die, Fault, Nothing, NoAnswer, Idle
<1>8. EnrollInv'
  BY <1>o, CredentialAssumption
     DEF EnrollInv, IInv, TypeOK, Rows, MaybeKey, Stored, Answers, Enrolling, Requests,
         Honoured, history, Die, Fault, Nothing, NoAnswer, Idle
<1> QED
  BY <1>t, <1>1, <1>2, <1>3, <1>4, <1>5, <1>6, <1>7, <1>8, CredentialAssumption
     DEF IInv, TypeOK, Rows, MaybeKey, Stored, Answers, Enrolling, Requests, history,
         Die, Fault, Nothing, NoAnswer, Idle

(* The inductive invariant holds of a fresh ticket...                      *)
LEMMA IInvInit == Init => IInv
<1> SUFFICES ASSUME Init PROVE IInv
  OBVIOUS
<1>1. TypeOK
  BY TypeInit
<1> QED
  BY <1>1, CredentialAssumption
     DEF Init, Nothing, NoAnswer, Idle, Linked, Honoured, IInv, KeysDrawn, RowInv,
         StoreInv, LinkInv, RotateInv, WorkerInv, InFlightInv, EnrollInv

(* ... and every step keeps it.                                            *)
LEMMA IInvStep == OneWorker /\ IInv /\ [Next]_vars => IInv'
<1> SUFFICES ASSUME OneWorker, IInv, [Next]_vars PROVE IInv'
  OBVIOUS
<1>1. CASE Serve
  BY <1>1, StepServeEnroll, StepServeRotate, StepServeConfirm DEF Serve
<1>2. ASSUME NEW w \in Workers, BecomeDue(w) \/ Step(w) \/ GiveUp(w) PROVE IInv'
  BY <1>2, StepBecomeDue, StepResume, StepPrepare, StepAskConfirm, StepConfirmed,
     StepPromote, StepEndPass, StepGiveUp
     DEF Step
<1>3. CASE UNCHANGED vars
  BY <1>3
     DEF vars, workers, history, Linked, Honoured, IInv, TypeOK, KeysDrawn, RowInv,
         StoreInv, LinkInv, RotateInv, WorkerInv, InFlightInv, EnrollInv
<1> QED
  BY <1>1, <1>2, <1>3, StepRevoke, StepReenroll, StepDelete, StepExpire,
     StepRequestEnrollment, StepSaveEnrollment, StepAbandonEnrollment, StepDie
     DEF Next

(* With one worker, the invariant IInv holds in every reachable state,     *)
(* however requests are lost or delayed and wherever the process dies.     *)
THEOREM InductiveInvariant == OneWorker => (Spec => []IInv)
<1> SUFFICES ASSUME OneWorker PROVE Spec => []IInv
  OBVIOUS
<1>1. IInv /\ [Next]_vars => IInv'
  BY IInvStep
<1> QED
  BY <1>1, IInvInit, PTL DEF Spec

(* With one worker, an enrolled television that was not revoked since      *)
(* holds the key that POST /tv/credentials/* accept, with its generation.  *)
THEOREM NoLockoutHolds == OneWorker => (Spec => []NoLockout)
<1> SUFFICES ASSUME OneWorker PROVE Spec => []NoLockout
  OBVIOUS
<1>1. IInv => NoLockout
  BY DEF IInv, LinkInv, NoLockout
<1> QED
  BY <1>1, InductiveInvariant, PTL

(* With one worker, no key the server stopped accepting is honoured again. *)
THEOREM RetiredKeysStayOutHolds == OneWorker => (Spec => []RetiredKeysStayOut)
<1> SUFFICES ASSUME OneWorker PROVE Spec => []RetiredKeysStayOut
  OBVIOUS
<1>1. IInv => RetiredKeysStayOut
  BY CredentialAssumption DEF IInv, TypeOK, RowInv, Honoured, RetiredKeysStayOut
<1> QED
  BY <1>1, InductiveInvariant, PTL

(* With one worker, promotePending never runs ahead of the promotion that  *)
(* POST /tv/credentials/confirm commits.                                   *)
THEOREM PromotionFollowsServerHolds == OneWorker => (Spec => PromotionFollowsServer)
<1> SUFFICES ASSUME OneWorker PROVE Spec => PromotionFollowsServer
  OBVIOUS
<1> DEFINE Follows ==
             tv'.key \notin {tv.key, NoKey} => tv'.key \in retired \cup {screen.key}
<1>1. ASSUME IInv, Next PROVE Follows
  <2>1. CASE SaveEnrollment
    BY <1>1, <2>1 DEF SaveEnrollment, IInv, EnrollInv, Honoured
  <2>2. ASSUME NEW w \in Workers, BecomeDue(w) \/ Step(w) \/ GiveUp(w) PROVE Follows
    BY <1>1, <2>2
       DEF BecomeDue, Step, GiveUp, Resume, Prepare, AskConfirm, Confirmed, Promote,
           EndPass, IInv, TypeOK, Stored, WorkerInv, Honoured
  <2>3. CASE Die(tv) \/ Die(Nothing)
    BY <2>3 DEF Die, Nothing
  <2>4. CASE tv' = tv
    BY <2>4
  <2> QED
    BY <1>1, <2>1, <2>2, <2>3, <2>4
       DEF Next, Serve, ServeEnroll, ServeRotate, ServeConfirm, Revoke, Reenroll,
           Delete, Expire, RequestEnrollment, AbandonEnrollment
<1>2. IInv /\ [Next]_vars => [Follows]_vars
  BY <1>1
<1> QED
  BY <1>2, InductiveInvariant, PTL DEF Spec, PromotionFollowsServer

=============================================================================
