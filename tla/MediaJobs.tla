----------------------------- MODULE MediaJobs -----------------------------
(***************************************************************************)
(* The media pipeline: the upload of a file by the API (media.mjs), the    *)
(* tables `assets` and `media_jobs`, and the worker that turns an original *)
(* into its variants (media-worker.mjs, worker.mjs).                       *)
(*                                                                         *)
(* An asset is a content, known by its hash.  The unique index on open     *)
(* jobs leaves at most one queued or processing row per asset, and closed  *)
(* rows are never read again: job[a] is the last row of a.  What ffmpeg    *)
(* and sharp produce is whole or not; sizes, types and storage limits are  *)
(* reasons to refuse an upload or to fail a processing.  The oldest due    *)
(* job is claimed first; here any due one may be.                          *)
(***************************************************************************)
EXTENDS Naturals, FiniteSets

CONSTANTS
  Assets,            \* contents
  Uploads,           \* POST /media under way at once
  Workers,           \* worker processes, which share one advisory lock
  None,
  MAX_JOB_ATTEMPTS,  \* the constant of media-worker.mjs
  MaxStops           \* bound: deaths and stops of workers, and lost answers

ASSUME MediaJobsAssumption ==
  /\ None \notin Assets /\ None \notin Workers
  /\ MAX_JOB_ATTEMPTS \in Nat \ {0} /\ MaxStops \in Nat

VARIABLES
  originals,   \* the originals in place under media/originals
  status,      \* assets.processing_status, "none" without a row
  job,         \* the last row of media_jobs
  objects,     \* the directory of variants, media/objects/<id>
  upload,      \* the uploads under way
  worker,      \* the worker processes
  lease,       \* the holder of the advisory lock roomframe-media-worker
  dropped,     \* history: assets whose upload died before it inserted a job
  unseen,      \* history: assets whose completion was committed, but not answered
  stops        \* how many stops and lost answers have happened

store == <<originals, status, job, objects>>
vars == <<originals, status, job, objects, upload, worker, lease, dropped, unseen, stops>>

Idle == [pc |-> "idle", asset |-> None]
NoWork == [pc |-> "idle", asset |-> None, attempts |-> 0]
Down == [NoWork EXCEPT !.pc = "down"]
NoJob == [status |-> "none", attempts |-> 0, due |-> FALSE]
Busy == {"claimed", "writing", "written", "failing", "cleared"}

TypeOK ==
  /\ originals \subseteq Assets
  /\ status \in [Assets -> {"none", "queued", "processing", "ready", "failed"}]
  /\ job \in [Assets -> [status : {"none", "queued", "processing", "ready", "failed"},
                         attempts : 0..MAX_JOB_ATTEMPTS, due : BOOLEAN]]
  /\ objects \in [Assets -> {"none", "partial", "whole"}]
  /\ upload \in [Uploads -> [pc : {"idle", "received", "placed", "inserted"},
                             asset : Assets \cup {None}]]
  /\ worker \in [Workers -> [pc : {"down", "starting", "idle"} \cup Busy,
                             asset : Assets \cup {None},
                             attempts : 0..MAX_JOB_ATTEMPTS]]
  /\ lease \in Workers \cup {None}
  /\ dropped \subseteq Assets /\ unseen \subseteq Assets
  /\ stops \in 0..MaxStops

Open(a) == job[a].status \in {"queued", "processing"}

(* A scene may be published with this asset; its variants are delivered.   *)
Publishable(a) == status[a] = "ready"
Served(a) == status[a] = "ready" /\ objects[a] = "whole"

Works(w, a) == worker[w].pc \in Busy /\ worker[w].asset = a

Init ==
  /\ originals = {} /\ dropped = {} /\ unseen = {} /\ stops = 0
  /\ status = [a \in Assets |-> "none"]
  /\ job = [a \in Assets |-> NoJob]
  /\ objects = [a \in Assets |-> "none"]
  /\ upload = [p \in Uploads |-> Idle]
  /\ worker = [w \in Workers |-> Down]
  /\ lease = None

----------------------------------------------------------------------------
(* The upload.                                                             *)

UploadAt(p, from, to) ==
  /\ upload[p].pc = from
  /\ upload' = [upload EXCEPT ![p] = IF to = "idle" THEN Idle ELSE [@ EXCEPT !.pc = to]]

(* The stream is hashed and its type detected in a temporary file; one     *)
(* that is refused leaves nothing.                                         *)
Receive(p, a) ==
  /\ upload[p] = Idle
  /\ upload' = [upload EXCEPT ![p] = [pc |-> "received", asset |-> a]]
  /\ UNCHANGED <<store, worker, lease, dropped, unseen, stops>>

(* The original is kept if it is there, else staged and renamed.           *)
Place(p) ==
  /\ UploadAt(p, "received", "placed")
  /\ originals' = originals \cup {upload[p].asset}
  /\ UNCHANGED <<status, job, objects, worker, lease, dropped, unseen, stops>>

(* INSERT INTO assets ... ON CONFLICT (sha256) returns the row as it is.   *)
InsertAsset(p) ==
  LET a == upload[p].asset
      returned == IF status[a] = "none" THEN "queued" ELSE status[a] IN
  /\ UploadAt(p, "placed", IF returned = "queued" THEN "inserted" ELSE "idle")
  /\ status' = [status EXCEPT ![a] = returned]
  /\ UNCHANGED <<originals, job, objects, worker, lease, dropped, unseen, stops>>

(* INSERT INTO media_jobs ... ON CONFLICT DO NOTHING: for the status that  *)
(* was returned, whatever it has become.                                   *)
InsertJob(p) ==
  LET a == upload[p].asset IN
  /\ UploadAt(p, "inserted", "idle")
  /\ job' = IF Open(a) THEN job
            ELSE [job EXCEPT ![a] = [status |-> "queued", attempts |-> 0, due |-> TRUE]]
  /\ dropped' = dropped \ {a}
  /\ UNCHANGED <<originals, status, objects, worker, lease, unseen, stops>>

(* The request fails, or the API dies, between two steps.                  *)
Abandon(p) ==
  /\ upload[p].pc # "idle"
  /\ upload' = [upload EXCEPT ![p] = Idle]
  /\ dropped' = IF upload[p].pc = "inserted" THEN dropped \cup {upload[p].asset} ELSE dropped
  /\ UNCHANGED <<store, worker, lease, unseen, stops>>

----------------------------------------------------------------------------
(* The worker.                                                             *)

WorkerAt(w, from, to) ==
  /\ worker[w].pc = from
  /\ worker' = [worker EXCEPT ![w] = IF to = "idle" THEN NoWork ELSE [@ EXCEPT !.pc = to]]

(* Mutant: the answer of pg_try_advisory_lock is not looked at.            *)
StartBeside(w) ==
  /\ worker[w].pc = "down"
  /\ lease' = w
  /\ worker' = [worker EXCEPT ![w].pc = "starting"]
  /\ UNCHANGED <<store, upload, dropped, unseen, stops>>

(* A process that does not get the lock exits.                             *)
Start(w) ==
  /\ worker[w].pc = "down" /\ lease = None
  /\ lease' = w
  /\ worker' = [worker EXCEPT ![w].pc = "starting"]
  /\ UNCHANGED <<store, upload, dropped, unseen, stops>>

Exhausted(a) == job[a].attempts >= MAX_JOB_ATTEMPTS

(* Mutant: exhausted jobs are left as they are.                            *)
RecoverFresh(w) ==
  LET abandoned == {a \in Assets : job[a].status = "processing" /\ ~ Exhausted(a)} IN
  /\ WorkerAt(w, "starting", "idle")
  /\ job' = [a \in Assets |-> IF a \in abandoned
               THEN [job[a] EXCEPT !.status = "queued", !.due = TRUE] ELSE job[a]]
  /\ status' = [a \in Assets |-> IF a \in abandoned THEN "queued" ELSE status[a]]
  /\ UNCHANGED <<originals, objects, upload, lease, dropped, unseen, stops>>

(* recoverAbandonedMediaJobs, before the loop.                             *)
Recover(w) ==
  LET abandoned == {a \in Assets : job[a].status = "processing"}
      After(a) == IF Exhausted(a) THEN "failed" ELSE "queued" IN
  /\ WorkerAt(w, "starting", "idle")
  /\ job' = [a \in Assets |-> IF a \in abandoned
               THEN [job[a] EXCEPT !.status = After(a), !.due = @ \/ ~ Exhausted(a)]
               ELSE job[a]]
  /\ status' = [a \in Assets |-> IF a \in abandoned THEN After(a) ELSE status[a]]
  /\ UNCHANGED <<originals, objects, upload, lease, dropped, unseen, stops>>

(* Mutant: the asset keeps the status it had.                              *)
ClaimJobOnly(w, a) ==
  /\ worker[w].pc = "idle"
  /\ job[a].status = "queued" /\ job[a].due
  /\ worker' = [worker EXCEPT ![w] =
       [pc |-> "claimed", asset |-> a, attempts |-> job[a].attempts + 1]]
  /\ job' = [job EXCEPT ![a].status = "processing", ![a].attempts = @ + 1]
  /\ UNCHANGED <<originals, status, objects, upload, lease, dropped, unseen, stops>>

(* claimJob.                                                               *)
Claim(w, a) ==
  /\ worker[w].pc = "idle"
  /\ job[a].status = "queued" /\ job[a].due
  /\ worker' = [worker EXCEPT ![w] =
       [pc |-> "claimed", asset |-> a, attempts |-> job[a].attempts + 1]]
  /\ job' = [job EXCEPT ![a].status = "processing", ![a].attempts = @ + 1]
  /\ status' = [status EXCEPT ![a] = "processing"]
  /\ UNCHANGED <<originals, objects, upload, lease, dropped, unseen, stops>>

(* processImage and processVideo remove the directory, make it again...    *)
Clear(w) ==
  /\ WorkerAt(w, "claimed", "writing")
  /\ objects' = [objects EXCEPT ![worker[w].asset] = "partial"]
  /\ UNCHANGED <<originals, status, job, upload, lease, dropped, unseen, stops>>

(* ... and write the variants.                                             *)
Produce(w) ==
  /\ WorkerAt(w, "writing", "written")
  /\ objects' = [objects EXCEPT ![worker[w].asset] = "whole"]
  /\ UNCHANGED <<originals, status, job, upload, lease, dropped, unseen, stops>>

Complete(a) ==
  /\ status' = [status EXCEPT ![a] = "ready"]
  /\ job' = [job EXCEPT ![a].status = "ready"]

(* The transaction that publishes the variants.                            *)
Finish(w) ==
  /\ WorkerAt(w, "written", "idle")
  /\ Complete(worker[w].asset)
  /\ unseen' = unseen \ {worker[w].asset}
  /\ UNCHANGED <<originals, objects, upload, lease, dropped, stops>>

(* It is committed, but the connection is lost before the answer: the      *)
(* worker takes it for a failure.                                          *)
FinishUnseen(w) ==
  /\ stops < MaxStops /\ stops' = stops + 1
  /\ WorkerAt(w, "written", "failing")
  /\ Complete(worker[w].asset)
  /\ unseen' = unseen \cup {worker[w].asset}
  /\ UNCHANGED <<originals, objects, upload, lease, dropped>>

(* An unreadable file, a timeout, no space left, a refused transaction.    *)
FailProcess(w) ==
  /\ \E from \in {"claimed", "writing", "written"} : WorkerAt(w, from, "failing")
  /\ UNCHANGED <<store, upload, lease, dropped, unseen, stops>>

(* The catch block removes the directory, and ignores a failure to.        *)
RemoveObjects(w) ==
  /\ WorkerAt(w, "failing", "cleared")
  /\ \/ objects' = [objects EXCEPT ![worker[w].asset] = "none"]
     \/ UNCHANGED objects
  /\ UNCHANGED <<originals, status, job, upload, lease, dropped, unseen, stops>>

(* It then queues the job again, after a delay, or gives up.  Once its row *)
(* was closed unseen, an upload may have opened another...                 *)
Replaced(w) == job[worker[w].asset].status = "queued"
Retries(w) == worker[w].attempts < MAX_JOB_ATTEMPTS

RecordFailure(w) ==
  LET a == worker[w].asset
      after == IF Retries(w) THEN "queued" ELSE "failed" IN
  /\ WorkerAt(w, "cleared", "idle")
  /\ Retries(w) => ~ Replaced(w)
  /\ status' = [status EXCEPT ![a] = after]
  /\ job' = IF Replaced(w) THEN job
            ELSE [job EXCEPT ![a].status = after, ![a].due = after = "failed"]
  /\ unseen' = unseen \ {a}
  /\ UNCHANGED <<originals, objects, upload, lease, dropped, stops>>

Exit(w) ==
  /\ worker' = [worker EXCEPT ![w] = Down]
  /\ lease' = IF lease = w THEN None ELSE lease

(* ... beside which the unique index refuses it: the process exits.        *)
RecordRefused(w) ==
  /\ worker[w].pc = "cleared" /\ Replaced(w) /\ Retries(w)
  /\ Exit(w)
  /\ UNCHANGED <<store, upload, dropped, unseen, stops>>

(* The delay of a job that failed is over.                                 *)
BecomeDue(a) ==
  /\ job[a].status = "queued" /\ ~ job[a].due
  /\ job' = [job EXCEPT ![a].due = TRUE]
  /\ UNCHANGED <<originals, status, objects, upload, worker, lease, dropped, unseen, stops>>

(* A process stops or dies; PostgreSQL releases the lock of its session.   *)
Die(w) ==
  /\ worker[w].pc # "down"
  /\ stops < MaxStops /\ stops' = stops + 1
  /\ Exit(w)
  /\ UNCHANGED <<store, upload, dropped, unseen>>

Upload(p) ==
  \/ \E a \in Assets : Receive(p, a)
  \/ Place(p) \/ InsertAsset(p) \/ InsertJob(p) \/ Abandon(p)

Work(w) ==
  \/ Recover(w) \/ Clear(w) \/ Produce(w) \/ Finish(w) \/ FinishUnseen(w)
  \/ FailProcess(w) \/ RemoveObjects(w) \/ RecordFailure(w) \/ RecordRefused(w)

Next ==
  \/ \E p \in Uploads : Upload(p)
  \/ \E w \in Workers : Start(w) \/ Work(w) \/ Die(w)
  \/ \E w \in Workers, a \in Assets : Claim(w, a)
  \/ \E a \in Assets : BecomeDue(a)

Spec == Init /\ [][Next]_vars

(* The container restarts the worker, every external command has a         *)
(* timeout, and the oldest due job is taken first.  Nothing is asked of    *)
(* the uploads.                                                            *)
Fairness ==
  /\ WF_vars(\E w \in Workers : Start(w))
  /\ \A w \in Workers : WF_vars(Work(w))
  /\ \A a \in Assets : /\ WF_vars(BecomeDue(a))
                       /\ SF_vars(\E w \in Workers : Claim(w, a))

FairSpec == Spec /\ Fairness

----------------------------------------------------------------------------
(* Correctness.                                                            *)

(* The two tables agree: an asset is being processed when its job is, and  *)
(* one that waits has a job that waits, is about to get one, or lost its   *)
(* upload between the two inserts.                                         *)
TablesAgree ==
  \A a \in Assets :
    /\ status[a] = "processing" <=> job[a].status = "processing"
    /\ status[a] = "queued" =>
         \/ job[a].status = "queued"
         \/ \E p \in Uploads : upload[p] = [pc |-> "inserted", asset |-> a]
         \/ a \in dropped

(* An asset a scene may be published with has its files to deliver,        *)
(* whatever was uploaded again, failed, died or was taken over meanwhile;  *)
(* unless the answer to the transaction that announced it was lost.        *)
ReadyHasFiles == \A a \in Assets : Publishable(a) /\ a \notin unseen => Served(a)

(* A job that exists is finished or given up, however often its worker     *)
(* dies.                                                                   *)
JobsSettle == \A a \in Assets : Open(a) ~> ~ Open(a)

(* What the steps preserve.  Only the holder of the lock works; the job it *)
(* works on is its own, unless its row was closed unseen and a new upload  *)
(* opened another; a job left in processing waits for the next start.      *)
LeaseHeld == \A w \in Workers : worker[w].pc # "down" => lease = w

OwnJob(w) ==
  LET a == worker[w].asset IN
  /\ a \in Assets
  /\ \/ job[a].status = "processing"
     \/ /\ worker[w].pc \in {"failing", "cleared"} /\ a \in unseen
        /\ job[a].status \in {"ready", "queued"}
  /\ job[a].status # "queued" => worker[w].attempts = job[a].attempts
  /\ worker[w].pc = "written" => objects[a] = "whole"
HandsFull == \A w \in Workers : worker[w].pc \in Busy => OwnJob(w)

Held ==
  \A a \in Assets, w \in Workers :
    job[a].status = "processing" /\ worker[w].pc \notin {"down", "starting"} => Works(w, a)

QueuedMayStart ==
  \A a \in Assets : job[a].status = "queued" => job[a].attempts < MAX_JOB_ATTEMPTS

UploadsAgree == \A p \in Uploads : upload[p].pc # "idle" => upload[p].asset \in Assets

IInv ==
  /\ TypeOK /\ TablesAgree /\ ReadyHasFiles
  /\ LeaseHeld /\ HandsFull /\ Held /\ QueuedMayStart /\ UploadsAgree
=============================================================================
