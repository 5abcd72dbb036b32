-------------------------- MODULE BackgroundProofs --------------------------
(***************************************************************************)
(* The two processes that work in the background: the media worker         *)
(* (MediaJobs), for every set of contents, uploads and workers, and the    *)
(* poller of releases (GithubPoller), for any lists, faults and crashes.   *)
(*                                                                         *)
(* The invariant of MediaJobs is inductive. The lock makes the worker that *)
(* is up the only one (LeaseHeld); hence the directory it clears is the    *)
(* one of an asset in processing (HandsFull and TablesAgree), never of a   *)
(* ready one. One lemma per action, one step per conjunct.                 *)
(*                                                                         *)
(* Of the poller, what is called imported is followed through the three    *)
(* places that hold it (Stored), and a manual check through the lists the  *)
(* poller looked at since (Asked).                                         *)
(***************************************************************************)
EXTENDS MediaJobs, GithubPoller, TLAPS

(* The invariant holds before anything was uploaded.                       *)
LEMMA InitKeeps == Init => IInv
  BY MediaJobsAssumption DEF Init, IInv, TypeOK, TablesAgree, ReadyHasFiles, Publishable, Served,
    LeaseHeld, HandsFull, Held, QueuedMayStart, UploadsAgree, Idle, NoWork, Down,
    NoJob, Busy

(* Receive: a file is received. *)
LEMMA ReceiveKeeps ==
  ASSUME IInv, NEW p \in Uploads, NEW a \in Assets, Receive(p, a)
  PROVE  IInv'
<1>1. TypeOK'
  BY MediaJobsAssumption DEF IInv, Receive, Idle, store, TypeOK
<1>2. TablesAgree'
  BY MediaJobsAssumption DEF IInv, Receive, Idle, store, TypeOK, TablesAgree
<1>3. ReadyHasFiles'
  BY MediaJobsAssumption DEF IInv, Receive, Idle, store, TypeOK,
    ReadyHasFiles, Publishable, Served
<1>4. LeaseHeld'
  BY MediaJobsAssumption DEF IInv, Receive, Idle, store, TypeOK, LeaseHeld
<1>5. HandsFull'
  BY MediaJobsAssumption DEF IInv, Receive, Idle, store, TypeOK, HandsFull,
    OwnJob, Busy
<1>6. Held'
  BY MediaJobsAssumption DEF IInv, Receive, Idle, store, TypeOK, Held,
    Works, Busy
<1>7. QueuedMayStart'
  BY MediaJobsAssumption DEF IInv, Receive, Idle, store, TypeOK,
    QueuedMayStart
<1>8. UploadsAgree'
  BY MediaJobsAssumption DEF IInv, Receive, Idle, store, TypeOK,
    UploadsAgree
<1> QED BY <1>1, <1>2, <1>3, <1>4, <1>5, <1>6, <1>7, <1>8 DEF IInv

(* Place: its original is put in place. *)
LEMMA PlaceKeeps ==
  ASSUME IInv, NEW p \in Uploads, Place(p)
  PROVE  IInv'
<1>1. TypeOK'
  BY MediaJobsAssumption DEF IInv, Place, UploadAt, Idle, TypeOK,
    UploadsAgree
<1>2. TablesAgree'
  BY MediaJobsAssumption DEF IInv, Place, UploadAt, Idle, TypeOK,
    TablesAgree
<1>3. ReadyHasFiles'
  BY MediaJobsAssumption DEF IInv, Place, UploadAt, Idle, TypeOK,
    ReadyHasFiles, Publishable, Served
<1>4. LeaseHeld'
  BY MediaJobsAssumption DEF IInv, Place, UploadAt, Idle, TypeOK, LeaseHeld
<1>5. HandsFull'
  BY MediaJobsAssumption DEF IInv, Place, UploadAt, Idle, TypeOK,
    HandsFull, OwnJob, Busy
<1>6. Held'
  BY MediaJobsAssumption DEF IInv, Place, UploadAt, Idle, TypeOK, Held,
    Works, Busy
<1>7. QueuedMayStart'
  BY MediaJobsAssumption DEF IInv, Place, UploadAt, Idle, TypeOK,
    QueuedMayStart
<1>8. UploadsAgree'
  BY MediaJobsAssumption DEF IInv, Place, UploadAt, Idle, TypeOK,
    UploadsAgree
<1> QED BY <1>1, <1>2, <1>3, <1>4, <1>5, <1>6, <1>7, <1>8 DEF IInv

(* InsertAsset: its row is inserted or read. *)
LEMMA InsertAssetKeeps ==
  ASSUME IInv, NEW p \in Uploads, InsertAsset(p)
  PROVE  IInv'
<1>1. TypeOK'
  BY MediaJobsAssumption DEF IInv, InsertAsset, UploadAt, Idle, TypeOK,
    UploadsAgree
<1>2. TablesAgree'
  BY MediaJobsAssumption DEF IInv, InsertAsset, UploadAt, Idle, TypeOK,
    TablesAgree
<1>3. ReadyHasFiles'
  BY MediaJobsAssumption DEF IInv, InsertAsset, UploadAt, Idle, TypeOK,
    ReadyHasFiles, Publishable, Served
<1>4. LeaseHeld'
  BY MediaJobsAssumption DEF IInv, InsertAsset, UploadAt, Idle, TypeOK,
    LeaseHeld
<1>5. HandsFull'
  BY MediaJobsAssumption DEF IInv, InsertAsset, UploadAt, Idle, TypeOK,
    HandsFull, OwnJob, Busy
<1>6. Held'
  BY MediaJobsAssumption DEF IInv, InsertAsset, UploadAt, Idle, TypeOK,
    Held, Works, Busy
<1>7. QueuedMayStart'
  BY MediaJobsAssumption DEF IInv, InsertAsset, UploadAt, Idle, TypeOK,
    QueuedMayStart
<1>8. UploadsAgree'
  BY MediaJobsAssumption DEF IInv, InsertAsset, UploadAt, Idle, TypeOK,
    UploadsAgree
<1> QED BY <1>1, <1>2, <1>3, <1>4, <1>5, <1>6, <1>7, <1>8 DEF IInv

(* InsertJob: its job is inserted. *)
LEMMA InsertJobKeeps ==
  ASSUME IInv, NEW p \in Uploads, InsertJob(p)
  PROVE  IInv'
<1>1. TypeOK'
  BY MediaJobsAssumption DEF IInv, InsertJob, UploadAt, Idle, Open, TypeOK,
    UploadsAgree
<1>2. TablesAgree'
  BY MediaJobsAssumption DEF IInv, InsertJob, UploadAt, Idle, Open, TypeOK,
    TablesAgree
<1>3. ReadyHasFiles'
  BY MediaJobsAssumption DEF IInv, InsertJob, UploadAt, Idle, Open, TypeOK,
    ReadyHasFiles, Publishable, Served
<1>4. LeaseHeld'
  BY MediaJobsAssumption DEF IInv, InsertJob, UploadAt, Idle, Open, TypeOK,
    LeaseHeld
<1>5. HandsFull'
  BY MediaJobsAssumption DEF IInv, InsertJob, UploadAt, Idle, Open, TypeOK,
    HandsFull, OwnJob, Busy
<1>6. Held'
  BY MediaJobsAssumption DEF IInv, InsertJob, UploadAt, Idle, Open, TypeOK,
    Held, Works, Busy
<1>7. QueuedMayStart'
  BY MediaJobsAssumption DEF IInv, InsertJob, UploadAt, Idle, Open, TypeOK,
    QueuedMayStart
<1>8. UploadsAgree'
  BY MediaJobsAssumption DEF IInv, InsertJob, UploadAt, Idle, Open, TypeOK,
    UploadsAgree
<1> QED BY <1>1, <1>2, <1>3, <1>4, <1>5, <1>6, <1>7, <1>8 DEF IInv

(* Abandon: the upload dies. *)
LEMMA AbandonKeeps ==
  ASSUME IInv, NEW p \in Uploads, Abandon(p)
  PROVE  IInv'
<1>1. TypeOK'
  BY MediaJobsAssumption DEF IInv, Abandon, Idle, store, TypeOK,
    UploadsAgree
<1>2. TablesAgree'
  BY MediaJobsAssumption DEF IInv, Abandon, Idle, store, TypeOK, TablesAgree
<1>3. ReadyHasFiles'
  BY MediaJobsAssumption DEF IInv, Abandon, Idle, store, TypeOK,
    ReadyHasFiles, Publishable, Served
<1>4. LeaseHeld'
  BY MediaJobsAssumption DEF IInv, Abandon, Idle, store, TypeOK, LeaseHeld
<1>5. HandsFull'
  BY MediaJobsAssumption DEF IInv, Abandon, Idle, store, TypeOK, HandsFull,
    OwnJob, Busy
<1>6. Held'
  BY MediaJobsAssumption DEF IInv, Abandon, Idle, store, TypeOK, Held,
    Works, Busy
<1>7. QueuedMayStart'
  BY MediaJobsAssumption DEF IInv, Abandon, Idle, store, TypeOK,
    QueuedMayStart
<1>8. UploadsAgree'
  BY MediaJobsAssumption DEF IInv, Abandon, Idle, store, TypeOK,
    UploadsAgree
<1> QED BY <1>1, <1>2, <1>3, <1>4, <1>5, <1>6, <1>7, <1>8 DEF IInv

(* Start: a worker gets the lock. *)
LEMMA StartKeeps ==
  ASSUME IInv, NEW w \in Workers, Start(w)
  PROVE  IInv'
<1>1. TypeOK'
  BY MediaJobsAssumption DEF IInv, Start, store, TypeOK
<1>2. TablesAgree'
  BY MediaJobsAssumption DEF IInv, Start, store, TypeOK, TablesAgree
<1>3. ReadyHasFiles'
  BY MediaJobsAssumption DEF IInv, Start, store, TypeOK, ReadyHasFiles,
    Publishable, Served
<1>4. LeaseHeld'
  BY MediaJobsAssumption DEF IInv, Start, store, TypeOK, LeaseHeld
<1>5. HandsFull'
  BY MediaJobsAssumption DEF IInv, Start, store, TypeOK, HandsFull, OwnJob,
    Busy
<1>6. Held'
  BY MediaJobsAssumption DEF IInv, Start, store, TypeOK, Held, Works, Busy
<1>7. QueuedMayStart'
  BY MediaJobsAssumption DEF IInv, Start, store, TypeOK, QueuedMayStart
<1>8. UploadsAgree'
  BY MediaJobsAssumption DEF IInv, Start, store, TypeOK, UploadsAgree
<1> QED BY <1>1, <1>2, <1>3, <1>4, <1>5, <1>6, <1>7, <1>8 DEF IInv

(* Recover: it takes the abandoned jobs back. *)
LEMMA RecoverKeeps ==
  ASSUME IInv, NEW w \in Workers, Recover(w)
  PROVE  IInv'
<1> DEFINE After(b) == IF Exhausted(b) THEN "failed" ELSE "queued"
<1> DEFINE Abandoned == {b \in Assets : job[b].status = "processing"}
<1>a. /\ worker' = [worker EXCEPT ![w] = NoWork]
      /\ status' = [b \in Assets |-> IF b \in Abandoned THEN After(b) ELSE status[b]]
      /\ DOMAIN job' = Assets
  BY DEF Recover, WorkerAt
<1>b. ASSUME NEW b \in Assets
      PROVE  /\ b \in Abandoned => /\ job'[b].status = After(b)
                                   /\ job'[b].attempts = job[b].attempts
             /\ b \notin Abandoned => job'[b] = job[b]
             /\ job'[b] \in [status : {"none", "queued", "processing", "ready", "failed"},
                              attempts : 0..MAX_JOB_ATTEMPTS, due : BOOLEAN]
  BY DEF IInv, Recover, TypeOK
<1>c. job' = [b \in Assets |-> job'[b]]
  BY DEF Recover
<1>1. TypeOK'
  <2>1. job' \in [Assets -> [status : {"none", "queued", "processing", "ready", "failed"},
                            attempts : 0..MAX_JOB_ATTEMPTS, due : BOOLEAN]]
    BY <1>b, <1>c
  <2>2. /\ status' \in [Assets -> {"none", "queued", "processing", "ready", "failed"}]
        /\ worker' \in [Workers -> [pc : {"down", "starting", "idle"} \cup Busy,
                                  asset : Assets \cup {None},
                                  attempts : 0..MAX_JOB_ATTEMPTS]]
    BY <1>a, MediaJobsAssumption DEF IInv, TypeOK, NoWork
  <2> QED BY <2>1, <2>2 DEF IInv, Recover, TypeOK
<1>2. TablesAgree'
  BY MediaJobsAssumption DEF IInv, Recover, WorkerAt, NoWork, Exhausted,
    TypeOK, TablesAgree
<1>3. ReadyHasFiles'
  BY MediaJobsAssumption DEF IInv, Recover, WorkerAt, NoWork, Exhausted,
    TypeOK, ReadyHasFiles, Publishable, Served
<1>4. LeaseHeld'
  BY MediaJobsAssumption DEF IInv, Recover, WorkerAt, NoWork, Exhausted,
    TypeOK, LeaseHeld
<1>5. HandsFull'
  BY MediaJobsAssumption DEF IInv, Recover, WorkerAt, NoWork, Exhausted,
    TypeOK, HandsFull, OwnJob, Busy, LeaseHeld
<1>6. Held'
  BY <1>b DEF Held
<1>7. QueuedMayStart'
  BY <1>b, MediaJobsAssumption DEF IInv, TypeOK, QueuedMayStart, Exhausted
<1>8. UploadsAgree'
  BY MediaJobsAssumption DEF IInv, Recover, WorkerAt, NoWork, Exhausted,
    TypeOK, UploadsAgree
<1> QED BY <1>1, <1>2, <1>3, <1>4, <1>5, <1>6, <1>7, <1>8 DEF IInv

(* Claim: it claims a job. *)
LEMMA ClaimKeeps ==
  ASSUME IInv, NEW w \in Workers, NEW a \in Assets, Claim(w, a)
  PROVE  IInv'
<1>1. TypeOK'
  BY MediaJobsAssumption DEF IInv, Claim, TypeOK
<1>2. TablesAgree'
  BY MediaJobsAssumption DEF IInv, Claim, TypeOK, TablesAgree
<1>3. ReadyHasFiles'
  BY MediaJobsAssumption DEF IInv, Claim, TypeOK, ReadyHasFiles,
    Publishable, Served
<1>4. LeaseHeld'
  BY MediaJobsAssumption DEF IInv, Claim, TypeOK, LeaseHeld
<1>5. HandsFull'
  BY MediaJobsAssumption DEF IInv, Claim, TypeOK, HandsFull, OwnJob, Busy,
    LeaseHeld
<1>6. Held'
  BY MediaJobsAssumption DEF IInv, Claim, TypeOK, Held, Works, Busy,
    LeaseHeld
<1>7. QueuedMayStart'
  BY MediaJobsAssumption DEF IInv, Claim, TypeOK, QueuedMayStart
<1>8. UploadsAgree'
  BY MediaJobsAssumption DEF IInv, Claim, TypeOK, UploadsAgree
<1> QED BY <1>1, <1>2, <1>3, <1>4, <1>5, <1>6, <1>7, <1>8 DEF IInv

(* Clear: it clears the directory. *)
LEMMA ClearKeeps ==
  ASSUME IInv, NEW w \in Workers, Clear(w)
  PROVE  IInv'
<1>1. TypeOK'
  BY MediaJobsAssumption DEF IInv, Clear, WorkerAt, TypeOK, HandsFull,
    OwnJob, Busy
<1>2. TablesAgree'
  BY MediaJobsAssumption DEF IInv, Clear, WorkerAt, TypeOK, TablesAgree
<1>3. ReadyHasFiles'
  BY MediaJobsAssumption DEF IInv, Clear, WorkerAt, TypeOK, ReadyHasFiles,
    Publishable, Served, HandsFull, OwnJob, Busy, TablesAgree
<1>4. LeaseHeld'
  BY MediaJobsAssumption DEF IInv, Clear, WorkerAt, TypeOK, LeaseHeld
<1>5. HandsFull'
  BY MediaJobsAssumption DEF IInv, Clear, WorkerAt, TypeOK, HandsFull,
    OwnJob, Busy, LeaseHeld
<1>6. Held'
  BY MediaJobsAssumption DEF IInv, Clear, WorkerAt, TypeOK, Held, Works,
    Busy, LeaseHeld
<1>7. QueuedMayStart'
  BY MediaJobsAssumption DEF IInv, Clear, WorkerAt, TypeOK, QueuedMayStart
<1>8. UploadsAgree'
  BY MediaJobsAssumption DEF IInv, Clear, WorkerAt, TypeOK, UploadsAgree
<1> QED BY <1>1, <1>2, <1>3, <1>4, <1>5, <1>6, <1>7, <1>8 DEF IInv

(* Produce: it writes the variants. *)
LEMMA ProduceKeeps ==
  ASSUME IInv, NEW w \in Workers, Produce(w)
  PROVE  IInv'
<1>1. TypeOK'
  BY MediaJobsAssumption DEF IInv, Produce, WorkerAt, TypeOK, HandsFull,
    OwnJob, Busy
<1>2. TablesAgree'
  BY MediaJobsAssumption DEF IInv, Produce, WorkerAt, TypeOK, TablesAgree
<1>3. ReadyHasFiles'
  BY MediaJobsAssumption DEF IInv, Produce, WorkerAt, TypeOK,
    ReadyHasFiles, Publishable, Served
<1>4. LeaseHeld'
  BY MediaJobsAssumption DEF IInv, Produce, WorkerAt, TypeOK, LeaseHeld
<1>5. HandsFull'
  BY MediaJobsAssumption DEF IInv, Produce, WorkerAt, TypeOK, HandsFull,
    OwnJob, Busy, LeaseHeld
<1>6. Held'
  BY MediaJobsAssumption DEF IInv, Produce, WorkerAt, TypeOK, Held, Works,
    Busy, LeaseHeld
<1>7. QueuedMayStart'
  BY MediaJobsAssumption DEF IInv, Produce, WorkerAt, TypeOK, QueuedMayStart
<1>8. UploadsAgree'
  BY MediaJobsAssumption DEF IInv, Produce, WorkerAt, TypeOK, UploadsAgree
<1> QED BY <1>1, <1>2, <1>3, <1>4, <1>5, <1>6, <1>7, <1>8 DEF IInv

(* Finish: it publishes them. *)
LEMMA FinishKeeps ==
  ASSUME IInv, NEW w \in Workers, Finish(w)
  PROVE  IInv'
<1>1. TypeOK'
  BY MediaJobsAssumption DEF IInv, Finish, WorkerAt, NoWork, Complete,
    TypeOK, HandsFull, OwnJob, Busy
<1>2. TablesAgree'
  BY MediaJobsAssumption DEF IInv, Finish, WorkerAt, NoWork, Complete,
    TypeOK, TablesAgree
<1>3. ReadyHasFiles'
  BY MediaJobsAssumption DEF IInv, Finish, WorkerAt, NoWork, Complete,
    TypeOK, ReadyHasFiles, Publishable, Served, HandsFull, OwnJob, Busy,
    TablesAgree
<1>4. LeaseHeld'
  BY MediaJobsAssumption DEF IInv, Finish, WorkerAt, NoWork, Complete,
    TypeOK, LeaseHeld
<1>5. HandsFull'
  BY MediaJobsAssumption DEF IInv, Finish, WorkerAt, NoWork, Complete,
    TypeOK, HandsFull, OwnJob, Busy, LeaseHeld
<1>6. Held'
  BY MediaJobsAssumption DEF IInv, Finish, WorkerAt, NoWork, Complete,
    TypeOK, Held, Works, Busy, LeaseHeld
<1>7. QueuedMayStart'
  BY MediaJobsAssumption DEF IInv, Finish, WorkerAt, NoWork, Complete,
    TypeOK, QueuedMayStart
<1>8. UploadsAgree'
  BY MediaJobsAssumption DEF IInv, Finish, WorkerAt, NoWork, Complete,
    TypeOK, UploadsAgree
<1> QED BY <1>1, <1>2, <1>3, <1>4, <1>5, <1>6, <1>7, <1>8 DEF IInv

(* FinishUnseen: it publishes them unseen. *)
LEMMA FinishUnseenKeeps ==
  ASSUME IInv, NEW w \in Workers, FinishUnseen(w)
  PROVE  IInv'
<1>1. TypeOK'
  BY MediaJobsAssumption DEF IInv, FinishUnseen, WorkerAt, Complete,
    TypeOK, HandsFull, OwnJob, Busy
<1>2. TablesAgree'
  BY MediaJobsAssumption DEF IInv, FinishUnseen, WorkerAt, Complete,
    TypeOK, TablesAgree
<1>3. ReadyHasFiles'
  BY MediaJobsAssumption DEF IInv, FinishUnseen, WorkerAt, Complete,
    TypeOK, ReadyHasFiles, Publishable, Served
<1>4. LeaseHeld'
  BY MediaJobsAssumption DEF IInv, FinishUnseen, WorkerAt, Complete,
    TypeOK, LeaseHeld
<1>5. HandsFull'
  BY MediaJobsAssumption DEF IInv, FinishUnseen, WorkerAt, Complete,
    TypeOK, HandsFull, OwnJob, Busy, LeaseHeld
<1>6. Held'
  BY MediaJobsAssumption DEF IInv, FinishUnseen, WorkerAt, Complete,
    TypeOK, Held, Works, Busy, LeaseHeld
<1>7. QueuedMayStart'
  BY MediaJobsAssumption DEF IInv, FinishUnseen, WorkerAt, Complete,
    TypeOK, QueuedMayStart
<1>8. UploadsAgree'
  BY MediaJobsAssumption DEF IInv, FinishUnseen, WorkerAt, Complete,
    TypeOK, UploadsAgree
<1> QED BY <1>1, <1>2, <1>3, <1>4, <1>5, <1>6, <1>7, <1>8 DEF IInv

(* FailProcess: the processing fails. *)
LEMMA FailProcessKeeps ==
  ASSUME IInv, NEW w \in Workers, FailProcess(w)
  PROVE  IInv'
<1>1. TypeOK'
  BY MediaJobsAssumption DEF IInv, FailProcess, WorkerAt, store, TypeOK,
    HandsFull, OwnJob, Busy
<1>2. TablesAgree'
  BY MediaJobsAssumption DEF IInv, FailProcess, WorkerAt, store, TypeOK,
    TablesAgree
<1>3. ReadyHasFiles'
  BY MediaJobsAssumption DEF IInv, FailProcess, WorkerAt, store, TypeOK,
    ReadyHasFiles, Publishable, Served
<1>4. LeaseHeld'
  BY MediaJobsAssumption DEF IInv, FailProcess, WorkerAt, store, TypeOK,
    LeaseHeld
<1>5. HandsFull'
  BY MediaJobsAssumption DEF IInv, FailProcess, WorkerAt, store, TypeOK,
    HandsFull, OwnJob, Busy, LeaseHeld
<1>6. Held'
  BY MediaJobsAssumption DEF IInv, FailProcess, WorkerAt, store, TypeOK,
    Held, Works, Busy, LeaseHeld
<1>7. QueuedMayStart'
  BY MediaJobsAssumption DEF IInv, FailProcess, WorkerAt, store, TypeOK,
    QueuedMayStart
<1>8. UploadsAgree'
  BY MediaJobsAssumption DEF IInv, FailProcess, WorkerAt, store, TypeOK,
    UploadsAgree
<1> QED BY <1>1, <1>2, <1>3, <1>4, <1>5, <1>6, <1>7, <1>8 DEF IInv

(* RemoveObjects: the directory is removed. *)
LEMMA RemoveObjectsKeeps ==
  ASSUME IInv, NEW w \in Workers, RemoveObjects(w)
  PROVE  IInv'
<1>1. TypeOK'
  <2> DEFINE a == worker[w].asset
  <2>1. a \in Assets
    BY DEF IInv, HandsFull, OwnJob, Busy, RemoveObjects, WorkerAt
  <2>2. CASE objects' = [objects EXCEPT ![a] = "none"]
    BY <2>1, <2>2 DEF IInv, RemoveObjects, WorkerAt, TypeOK, Busy
  <2>3. CASE UNCHANGED objects
    BY <2>1, <2>3 DEF IInv, RemoveObjects, WorkerAt, TypeOK, Busy
  <2> QED BY <2>2, <2>3 DEF RemoveObjects
<1>2. TablesAgree'
  BY MediaJobsAssumption DEF IInv, RemoveObjects, WorkerAt, TypeOK,
    TablesAgree
<1>2b. worker[w].asset \in unseen \/ status[worker[w].asset] = "processing"
  BY DEF IInv, RemoveObjects, WorkerAt, TypeOK, HandsFull, OwnJob, Busy, TablesAgree
<1>3. ReadyHasFiles'
  <2>1. CASE objects' = [objects EXCEPT ![worker[w].asset] = "none"]
    BY <1>2b, <2>1 DEF IInv, RemoveObjects, TypeOK, ReadyHasFiles, Publishable,
      Served
  <2>2. CASE UNCHANGED objects
    BY <2>2 DEF IInv, RemoveObjects, ReadyHasFiles, Publishable, Served
  <2> QED BY <2>1, <2>2 DEF RemoveObjects
<1>4. LeaseHeld'
  BY MediaJobsAssumption DEF IInv, RemoveObjects, WorkerAt, TypeOK,
    LeaseHeld
<1>5. HandsFull'
  BY MediaJobsAssumption DEF IInv, RemoveObjects, WorkerAt, TypeOK,
    HandsFull, OwnJob, Busy, LeaseHeld
<1>6. Held'
  BY MediaJobsAssumption DEF IInv, RemoveObjects, WorkerAt, TypeOK, Held,
    Works, Busy, LeaseHeld
<1>7. QueuedMayStart'
  BY MediaJobsAssumption DEF IInv, RemoveObjects, WorkerAt, TypeOK,
    QueuedMayStart
<1>8. UploadsAgree'
  BY MediaJobsAssumption DEF IInv, RemoveObjects, WorkerAt, TypeOK,
    UploadsAgree
<1> QED BY <1>1, <1>2, <1>3, <1>4, <1>5, <1>6, <1>7, <1>8 DEF IInv

(* RecordFailure: the failure is recorded. *)
LEMMA RecordFailureKeeps ==
  ASSUME IInv, NEW w \in Workers, RecordFailure(w)
  PROVE  IInv'
<1>1. TypeOK'
  BY MediaJobsAssumption DEF IInv, RecordFailure, WorkerAt, NoWork,
    Replaced, Retries, TypeOK, HandsFull, OwnJob, Busy
<1>2. TablesAgree'
  BY MediaJobsAssumption DEF IInv, RecordFailure, WorkerAt, NoWork,
    Replaced, Retries, TypeOK, TablesAgree
<1>3. ReadyHasFiles'
  BY MediaJobsAssumption DEF IInv, RecordFailure, WorkerAt, NoWork,
    Replaced, Retries, TypeOK, ReadyHasFiles, Publishable, Served
<1>4. LeaseHeld'
  BY MediaJobsAssumption DEF IInv, RecordFailure, WorkerAt, NoWork,
    Replaced, Retries, TypeOK, LeaseHeld
<1>5. HandsFull'
  BY MediaJobsAssumption DEF IInv, RecordFailure, WorkerAt, NoWork,
    Replaced, Retries, TypeOK, HandsFull, OwnJob, Busy, LeaseHeld
<1>6. Held'
  BY MediaJobsAssumption DEF IInv, RecordFailure, WorkerAt, NoWork,
    Replaced, Retries, TypeOK, Held, Works, Busy, LeaseHeld
<1>7. QueuedMayStart'
  BY MediaJobsAssumption DEF IInv, RecordFailure, WorkerAt, NoWork,
    Replaced, Retries, TypeOK, QueuedMayStart, HandsFull, OwnJob, Busy
<1>8. UploadsAgree'
  BY MediaJobsAssumption DEF IInv, RecordFailure, WorkerAt, NoWork,
    Replaced, Retries, TypeOK, UploadsAgree
<1> QED BY <1>1, <1>2, <1>3, <1>4, <1>5, <1>6, <1>7, <1>8 DEF IInv

(* RecordRefused: the index refuses the record. *)
LEMMA RecordRefusedKeeps ==
  ASSUME IInv, NEW w \in Workers, RecordRefused(w)
  PROVE  IInv'
<1>1. TypeOK'
  BY MediaJobsAssumption DEF IInv, RecordRefused, Exit, Down, NoWork,
    store, TypeOK
<1>2. TablesAgree'
  BY MediaJobsAssumption DEF IInv, RecordRefused, Exit, Down, NoWork,
    store, TypeOK, TablesAgree
<1>3. ReadyHasFiles'
  BY MediaJobsAssumption DEF IInv, RecordRefused, Exit, Down, NoWork,
    store, TypeOK, ReadyHasFiles, Publishable, Served
<1>4. LeaseHeld'
  BY MediaJobsAssumption DEF IInv, RecordRefused, Exit, Down, NoWork,
    store, TypeOK, LeaseHeld
<1>5. HandsFull'
  BY MediaJobsAssumption DEF IInv, RecordRefused, Exit, Down, NoWork,
    store, TypeOK, HandsFull, OwnJob, Busy, LeaseHeld
<1>6. Held'
  BY MediaJobsAssumption DEF IInv, RecordRefused, Exit, Down, NoWork,
    store, TypeOK, Held, Works, Busy, LeaseHeld
<1>7. QueuedMayStart'
  BY MediaJobsAssumption DEF IInv, RecordRefused, Exit, Down, NoWork,
    store, TypeOK, QueuedMayStart
<1>8. UploadsAgree'
  BY MediaJobsAssumption DEF IInv, RecordRefused, Exit, Down, NoWork,
    store, TypeOK, UploadsAgree
<1> QED BY <1>1, <1>2, <1>3, <1>4, <1>5, <1>6, <1>7, <1>8 DEF IInv

(* BecomeDue: a delay is over. *)
LEMMA BecomeDueKeeps ==
  ASSUME IInv, NEW a \in Assets, BecomeDue(a)
  PROVE  IInv'
<1>1. TypeOK'
  BY MediaJobsAssumption DEF IInv, BecomeDue, TypeOK
<1>2. TablesAgree'
  BY MediaJobsAssumption DEF IInv, BecomeDue, TypeOK, TablesAgree
<1>3. ReadyHasFiles'
  BY MediaJobsAssumption DEF IInv, BecomeDue, TypeOK, ReadyHasFiles,
    Publishable, Served
<1>4. LeaseHeld'
  BY MediaJobsAssumption DEF IInv, BecomeDue, TypeOK, LeaseHeld
<1>5. HandsFull'
  BY MediaJobsAssumption DEF IInv, BecomeDue, TypeOK, HandsFull, OwnJob,
    Busy
<1>6. Held'
  BY MediaJobsAssumption DEF IInv, BecomeDue, TypeOK, Held, Works, Busy
<1>7. QueuedMayStart'
  BY MediaJobsAssumption DEF IInv, BecomeDue, TypeOK, QueuedMayStart
<1>8. UploadsAgree'
  BY MediaJobsAssumption DEF IInv, BecomeDue, TypeOK, UploadsAgree
<1> QED BY <1>1, <1>2, <1>3, <1>4, <1>5, <1>6, <1>7, <1>8 DEF IInv

(* Die: a process dies. *)
LEMMA DieKeeps ==
  ASSUME IInv, NEW w \in Workers, Die(w)
  PROVE  IInv'
<1>1. TypeOK'
  BY MediaJobsAssumption DEF IInv, Die, Exit, Down, NoWork, store, TypeOK
<1>2. TablesAgree'
  BY MediaJobsAssumption DEF IInv, Die, Exit, Down, NoWork, store, TypeOK,
    TablesAgree
<1>3. ReadyHasFiles'
  BY MediaJobsAssumption DEF IInv, Die, Exit, Down, NoWork, store, TypeOK,
    ReadyHasFiles, Publishable, Served
<1>4. LeaseHeld'
  BY MediaJobsAssumption DEF IInv, Die, Exit, Down, NoWork, store, TypeOK,
    LeaseHeld
<1>5. HandsFull'
  BY MediaJobsAssumption DEF IInv, Die, Exit, Down, NoWork, store, TypeOK,
    HandsFull, OwnJob, Busy
<1>6. Held'
  BY MediaJobsAssumption DEF IInv, Die, Exit, Down, NoWork, store, TypeOK,
    Held, Works, Busy
<1>7. QueuedMayStart'
  BY MediaJobsAssumption DEF IInv, Die, Exit, Down, NoWork, store, TypeOK,
    QueuedMayStart
<1>8. UploadsAgree'
  BY MediaJobsAssumption DEF IInv, Die, Exit, Down, NoWork, store, TypeOK,
    UploadsAgree
<1> QED BY <1>1, <1>2, <1>3, <1>4, <1>5, <1>6, <1>7, <1>8 DEF IInv
(* Every step keeps the invariant: one case per action.                    *)
LEMMA StepKeeps ==
  ASSUME IInv, [Next]_vars
  PROVE  IInv'
<1>1. CASE \E p \in Uploads : Upload(p)
  <2>1. PICK p \in Uploads : Upload(p) BY <1>1
  <2> QED BY <2>1, ReceiveKeeps, PlaceKeeps, InsertAssetKeeps, InsertJobKeeps,
            AbandonKeeps DEF Upload
<1>2. CASE \E w \in Workers : Start(w) \/ Work(w) \/ Die(w)
  <2>1. PICK w \in Workers : Start(w) \/ Work(w) \/ Die(w) BY <1>2
  <2>2. CASE Work(w)
    BY <2>2, RecoverKeeps, ClearKeeps, ProduceKeeps, FinishKeeps, FinishUnseenKeeps,
       FailProcessKeeps, RemoveObjectsKeeps, RecordFailureKeeps, RecordRefusedKeeps
       DEF Work
  <2> QED BY <2>1, <2>2, StartKeeps, DieKeeps
<1>3. CASE \E w \in Workers, a \in Assets : Claim(w, a)
  BY <1>3, ClaimKeeps
<1>4. CASE \E a \in Assets : BecomeDue(a)
  BY <1>4, BecomeDueKeeps
<1>5. CASE UNCHANGED vars
  BY <1>5 DEF vars, store, IInv, TypeOK, TablesAgree, ReadyHasFiles, Publishable, Served, LeaseHeld,
    HandsFull, OwnJob, Held, Works, QueuedMayStart, UploadsAgree
<1> QED BY <1>1, <1>2, <1>3, <1>4, <1>5 DEF Next

(* The invariant of the pipeline holds for any contents, uploads and       *)
(* workers (media-worker.mjs, media.mjs, worker.mjs).                      *)
THEOREM Invariant == Spec => []IInv
<1>1. Init => IInv BY InitKeeps
<1>2. IInv /\ [Next]_vars => IInv' BY StepKeeps
<1> QED BY <1>1, <1>2, PTL DEF Spec

(* A ready asset has all its files: no upload, failure, death or takeover  *)
(* of a worker leaves one that the televisions would ask for in vain.      *)
THEOREM ReadyIsServed == Spec => []ReadyHasFiles
<1>1. IInv => ReadyHasFiles BY DEF IInv
<1> QED BY <1>1, Invariant, PTL

(* The status of an asset and the one of its job agree at all times.       *)
THEOREM TablesAlwaysAgree == Spec => []TablesAgree
<1>1. IInv => TablesAgree BY DEF IInv
<1> QED BY <1>1, Invariant, PTL

----------------------------------------------------------------------------
(* The poller of releases.                                                 *)

(* What is called imported is stored, in the row, in what the poller read  *)
(* of it and in what it is about to write.                                 *)
Stored ==
  /\ {row.imported, poller.imported, poller.previous.imported}
       \subseteq history \cup {NoRelease}
  /\ row.result = "imported" => row.asset \in history
  /\ poller.pc = "record" /\ poller.result = "imported" => poller.candidate \in history

(* The poller has seen the list of GitHub; the poll is an error.           *)
Looked == poller.pc \in {"download", "import", "record", "answer"}
Failed == poller.pc \in {"record", "answer"} /\ poller.result = "error"

(* A check is asked of a list that exists; a poll that took it has looked  *)
(* at this list or a later one, or failed.                                 *)
Asked ==
  /\ manual.asked <= listing.etag
  /\ poller.check /\ manual.status = "running" /\ Looked =>
       manual.asked <= poller.etag \/ Failed

PollInv == PollerTypeOK /\ Stored /\ Asked

(* A poller that has just started.                                         *)
LEMMA StartedTyped ==
  /\ NoRow \in Rows /\ Started \in Pollers
  /\ Started.pc = "start"
  /\ Started.imported = NoRelease
  /\ Started.previous.imported = NoRelease
  /\ Started.result = "none"
<1>1. 0 \in 0..MaxListing /\ NoRelease \in MaybeRelease
      /\ "none" \in Results
      /\ "start" \in PollSteps
  BY PollerAssumption DEF MaybeRelease, Results, PollSteps
<1>2. NoRow \in Rows /\ NoRow.imported = NoRelease
  BY <1>1 DEF NoRow, Rows
<1> QED BY <1>1, <1>2 DEF Started, Pollers

(* The initial states satisfy the invariant.                               *)
LEMMA PollInit == ASSUME PollerInit PROVE PollInv
<1>1. NoRow \in Rows /\ Started \in Pollers
  BY StartedTyped
<1>2. PollerTypeOK
  <2>1. listing \in [etag : 1..MaxListing, candidate : MaybeRelease]
    BY PollerAssumption DEF PollerInit, MaybeRelease
  <2>2. 0 \in 0..MaxListing /\ 0 \in 0..MaxFaults
        /\ NoRelease \in MaybeRelease
    BY PollerAssumption DEF MaybeRelease
  <2> QED BY <1>1, <2>1, <2>2 DEF PollerInit, PollerTypeOK
<1>3. Stored
  BY StartedTyped DEF PollerInit, Stored, NoRow
<1>4. Asked
  BY StartedTyped DEF PollerInit, Asked, Looked, Failed
<1> QED BY <1>2, <1>3, <1>4 DEF PollInv

(* A poll that has its result.                                             *)
LEMMA DoneDoes ==
  ASSUME PollerTypeOK, NEW result \in Results, NEW etag \in 0..MaxListing,
         NEW candidate \in MaybeRelease, NEW imported \in MaybeRelease,
         Done(result, etag, candidate, imported)
  PROVE  /\ poller' \in Pollers /\ poller'.pc = "record"
         /\ poller'.check = poller.check
         /\ poller'.previous = poller.previous /\ poller'.result = result
         /\ poller'.etag = etag /\ poller'.candidate = candidate
         /\ poller'.imported = imported
BY DEF PollerTypeOK, Pollers, Done, PollSteps

(* Every step preserves the invariant.                                     *)
LEMMA PollKept == ASSUME PollInv, [PollerNext]_pollerVars PROVE PollInv'
<1>t. /\ PollerTypeOK /\ Stored /\ Asked
      /\ listing.etag \in 0..MaxListing /\ listing.candidate \in MaybeRelease
      /\ poller \in Pollers /\ row \in Rows
      /\ manual.asked \in 0..MaxListing
  BY PollerAssumption DEF PollInv, PollerTypeOK
<1>p. /\ poller.previous \in Rows
      /\ poller.previous.imported \in MaybeRelease
      /\ poller.previous.etag \in 0..MaxListing /\ poller.etag \in 0..MaxListing
      /\ poller.candidate \in MaybeRelease
      /\ poller.imported \in MaybeRelease
  BY <1>t DEF Pollers, Rows
<1>n. NoRelease \in MaybeRelease /\ NoRelease = 0
      /\ 0 \notin Releases
  BY PollerAssumption DEF MaybeRelease, NoRelease
<1>1. ASSUME NEW r \in MaybeRelease, Relist(r) PROVE PollInv'
  <2>1. listing.etag + 1 \in 1..MaxListing
        /\ listing' = [etag |-> listing.etag + 1, candidate |-> r]
    BY PollerAssumption, <1>1, <1>t DEF Relist, PollerTypeOK
  <2> QED BY PollerAssumption, <1>1, <1>t, <2>1
             DEF Relist, PollInv, PollerTypeOK, Stored, Asked, Looked, Failed
<1>2. ASSUME NEW r \in Releases, ImportByHand(r) PROVE PollInv'
  BY <1>2, <1>t
     DEF ImportByHand, Importable, PollInv, PollerTypeOK, Stored, Asked, Looked,
         Failed
<1>3. ASSUME NEW r \in Releases, Upgrade(r) PROVE PollInv'
  BY <1>3, <1>t
     DEF Upgrade, PollInv, PollerTypeOK, Stored, Asked, Looked, Failed,
         MaybeRelease
<1>4. CASE RequestCheck
  BY <1>4, <1>t DEF RequestCheck, PollInv, PollerTypeOK, Stored, Asked, Looked, Failed
<1>5. CASE ClaimCheck
  <2>1. /\ poller' \in Pollers /\ poller'.pc = "discover" /\ poller'.previous = row
        /\ poller'.imported = NoRelease
    <3> DEFINE taken == manual.status \in {"pending", "running"}
    <3>1. /\ poller' = [Started EXCEPT !.pc = "discover", !.check = taken, !.previous = row]
          /\ taken \in BOOLEAN
      BY <1>5 DEF ClaimCheck
    <3> HIDE DEF taken
    <3> QED BY <1>t, <3>1, StartedTyped DEF Pollers, PollSteps
  <2>2. /\ manual'.asked = manual.asked
        /\ manual' \in [status : {"none", "pending", "running", "completed", "failed"},
                        asked : 0..MaxListing]
    BY <1>5, <1>t DEF ClaimCheck, PollerTypeOK
  <2> QED BY <1>5, <1>t, <2>1, <2>2
             DEF ClaimCheck, PollInv, PollerTypeOK, Stored, Asked, Looked, Failed
(* A poll that ends with a result.                                         *)
<1>6. ASSUME NEW result \in Results, NEW etag \in 0..MaxListing,
             NEW candidate \in MaybeRelease, NEW imported \in MaybeRelease,
             Done(result, etag, candidate, imported),
             imported = NoRelease \/ imported \in history',
             result = "imported" => candidate \in history',
             etag >= manual.asked \/ result = "error"
                \/ ~ (poller.check /\ manual.status = "running"),
             history \subseteq history', history' \subseteq Genuine,
             faults' \in 0..MaxFaults, UNCHANGED <<listing, running, row, manual, woken>>
      PROVE  PollInv'
  <2>1. /\ poller' \in Pollers /\ poller'.pc = "record"
        /\ poller'.check = poller.check
        /\ poller'.previous = poller.previous /\ poller'.result = result
        /\ poller'.etag = etag /\ poller'.candidate = candidate
        /\ poller'.imported = imported
    BY <1>6, <1>t, DoneDoes
  <2>2. PollerTypeOK'
    BY <1>6, <1>t, <2>1 DEF PollerTypeOK
  <2>3. Stored'
    BY <1>6, <1>t, <2>1 DEF Stored
  <2>4. Asked'
    BY <1>6, <1>t, <2>1 DEF Asked, Failed
  <2> QED BY <2>2, <2>3, <2>4 DEF PollInv
<1>7. CASE Discover
  <2>1. /\ history' = history /\ faults' \in 0..MaxFaults
        /\ UNCHANGED <<listing, running, row, manual, woken>>
        /\ listing.etag >= manual.asked
    BY PollerAssumption, <1>7, <1>t DEF Discover, PollerTypeOK, Asked
  <2>2. {"not-modified", "no-candidate", "already-imported"}
          \subseteq Results \ {"imported"}
    BY DEF Results
  <2>3. CASE \E result \in {"not-modified", "no-candidate"} :
               Done(result, listing.etag, NoRelease, NoRelease)
    BY <1>6, <1>t, <1>n, <2>1, <2>2, <2>3 DEF PollerTypeOK
  <2>4. CASE Done("already-imported", listing.etag, listing.candidate,
                         poller.previous.imported)
    BY <1>6, <1>t, <1>p, <2>1, <2>2, <2>4 DEF PollerTypeOK, Stored
  <2>5. CASE poller' = [poller EXCEPT !.pc = "download", !.etag = listing.etag,
                                      !.candidate = listing.candidate]
    <3>1. /\ poller' \in Pollers /\ poller'.imported = poller.imported
          /\ poller'.previous = poller.previous /\ poller'.result = poller.result
          /\ poller'.etag = listing.etag
      BY <1>t, <2>5 DEF Pollers, PollSteps
    <3>2. poller'.pc = "download" /\ poller'.check = poller.check
      BY <1>t, <2>5 DEF Pollers
    <3> QED BY <1>t, <2>1, <3>1, <3>2 DEF PollInv, PollerTypeOK, Stored, Asked, Failed
  <2> QED BY <1>7, <2>3, <2>4, <2>5 DEF Discover
<1>8. CASE DiscoverFails
  <2>1. Done("error", poller.previous.etag, NoRelease, NoRelease)
        /\ "error" \in Results
    BY <1>8 DEF DiscoverFails, Results
  <2>2. /\ history' = history /\ faults' \in 0..MaxFaults
        /\ UNCHANGED <<listing, running, row, manual, woken>>
    BY PollerAssumption, <1>8, <1>t DEF DiscoverFails, Fault, PollerTypeOK
  <2> QED BY <1>6, <1>t, <1>p, <1>n, <2>1, <2>2 DEF PollerTypeOK
<1>9. CASE Download
  <2>1. poller' = [poller EXCEPT !.pc = "import"] /\ poller.pc = "download"
    BY <1>9 DEF Download
  <2>2. poller' \in Pollers /\ poller'.pc = "import"
    BY <1>t, <2>1 DEF Pollers, PollSteps
  <2> QED BY <1>9, <1>t, <2>1, <2>2
             DEF Download, PollInv, PollerTypeOK, Stored, Asked, Looked, Failed,
                 Pollers
<1>10. CASE TransferFails
  <2>1. Done("error", poller.etag, poller.candidate, NoRelease)
        /\ "error" \in Results
    BY <1>10 DEF TransferFails, Results
  <2>2. /\ history' = history /\ faults' \in 0..MaxFaults
        /\ UNCHANGED <<listing, running, row, manual, woken>>
    BY PollerAssumption, <1>10, <1>t DEF TransferFails, Fault, PollerTypeOK
  <2> QED BY <1>6, <1>t, <1>p, <1>n, <2>1, <2>2 DEF PollerTypeOK
<1>11. CASE Import
  <2> DEFINE r == poller.candidate
  <2>1. /\ faults' \in 0..MaxFaults
        /\ UNCHANGED <<listing, running, row, manual, woken>>
        /\ {"already-imported", "imported", "rejected"} \subseteq Results
        /\ poller.pc = "import"
    BY <1>11, <1>t DEF Import, PollerTypeOK, Results
  <2>2. poller.check /\ manual.status = "running" => poller.etag >= manual.asked
    BY PollerAssumption, <1>t, <2>1, <1>p DEF Asked, Looked, Failed
  <2>3. CASE Importable(r)
    <3>1. history' = history \cup {r} /\ r \in Genuine
      BY <1>11, <2>3 DEF Import, Importable
    <3>2. Done(IF r \in history THEN "already-imported" ELSE "imported", poller.etag, r, r)
      BY <1>11, <2>3 DEF Import
    <3>3. r \in history' /\ history \subseteq history' /\ history' \subseteq Genuine
      BY <1>t, <3>1 DEF PollerTypeOK
    <3>4. PICK result \in {"already-imported", "imported"} : Done(result, poller.etag, r, r)
      BY <3>2
    <3> QED BY <1>6, <1>p, <2>1, <2>2, <3>3, <3>4
  <2>4. CASE ~ Importable(r)
    <3>1. Done("rejected", poller.etag, r, NoRelease) /\ history' = history
      BY <1>11, <2>4 DEF Import
    <3>2. history' \subseteq Genuine
      BY <1>t, <3>1 DEF PollerTypeOK
    <3> QED BY <1>6, <1>p, <1>n, <2>1, <2>2, <3>1, <3>2
  <2> QED BY <2>3, <2>4
<1>12. CASE Record
  <2>1. /\ poller' \in Pollers /\ poller'.pc = "answer" /\ poller.pc = "record"
        /\ poller'.imported = poller.imported /\ poller'.previous = poller.previous
        /\ poller'.check = poller.check /\ poller'.etag = poller.etag
        /\ poller'.result = poller.result
    BY <1>12, <1>t DEF Record, Pollers, PollSteps
  <2>2. row' = [etag |-> Coalesce(poller.etag, row.etag),
                asset |-> Coalesce(poller.candidate, row.asset),
                imported |-> Coalesce(poller.imported, row.imported),
                result |-> poller.result]
    BY <1>12 DEF Record
  <2>3. row' \in Rows
    BY <1>t, <1>p, <2>2 DEF Rows, Coalesce, Pollers
  <2>4. row'.imported \in history \cup {NoRelease}
    BY <1>t, <2>2 DEF Stored, Coalesce
  <2>5. row'.result = "imported" => row'.asset \in history
    BY PollerAssumption, <1>t, <1>n, <2>1, <2>2 DEF Stored, PollerTypeOK, Coalesce
  <2> QED BY <1>12, <1>t, <2>1, <2>3, <2>4, <2>5
             DEF Record, PollInv, PollerTypeOK, Stored, Asked, Looked, Failed
(* The poller ends its turn, or begins anew; nothing is looked up yet.     *)
<1>13. ASSUME poller' \in Pollers, poller'.pc \in {"start", "asleep"},
              {poller'.imported, poller'.previous.imported}
                \subseteq history \cup {NoRelease},
              manual'.asked = manual.asked,
              manual' \in [status : {"none", "pending", "running", "completed", "failed"},
                           asked : 0..MaxListing],
              woken' \in BOOLEAN, faults' \in 0..MaxFaults,
              UNCHANGED <<listing, history, running, row>>
       PROVE  PollInv'
  BY <1>13, <1>t DEF PollInv, PollerTypeOK, Stored, Asked, Looked, Failed
<1>14. CASE Answer
  <2>1. /\ poller' \in Pollers /\ poller'.pc \in {"start", "asleep"}
        /\ poller'.imported = poller.imported /\ poller'.previous = poller.previous
    BY <1>14, <1>t DEF Answer, Pollers, PollSteps
  <2>2. /\ manual'.asked = manual.asked
        /\ manual' \in [status : {"none", "pending", "running", "completed", "failed"},
                        asked : 0..MaxListing]
    BY <1>14, <1>t DEF Answer, PollerTypeOK
  <2> QED BY <1>13, <1>14, <1>t, <2>1, <2>2 DEF Answer, PollerTypeOK, Stored
<1>15. CASE WakeUp \/ TimerRings \/ Crash
  <2>2. /\ poller' = Started /\ woken' \in BOOLEAN
        /\ faults' \in 0..MaxFaults
        /\ UNCHANGED <<listing, history, running, row, manual>>
    <3>1. CASE WakeUp \/ TimerRings
      BY <1>t, <3>1 DEF WakeUp, TimerRings, PollerTypeOK
    <3>2. CASE Crash
      <4>1. faults' \in 0..MaxFaults
        BY PollerAssumption, <1>t, <3>2 DEF Crash, Fault, PollerTypeOK
      <4> QED BY <3>2, <4>1 DEF Crash
    <3> QED BY <1>15, <3>1, <3>2
  <2> QED BY <1>13, <1>t, <1>n, <2>2, StartedTyped DEF PollerTypeOK
<1>16. CASE QueryFails
  <2>1. /\ faults' \in 0..MaxFaults
        /\ UNCHANGED <<listing, history, running, row, manual, woken>>
        /\ poller.pc \in {"record", "answer"}
    BY PollerAssumption, <1>16, <1>t DEF QueryFails, Fault, PollerTypeOK
  <2>2. CASE poller' = [poller EXCEPT !.result = "error", !.imported = NoRelease]
    <3>1. /\ poller' \in Pollers /\ poller'.imported = NoRelease
          /\ poller'.result = "error"
          /\ poller'.previous = poller.previous /\ poller'.pc = poller.pc
      BY <1>t, <1>n, <2>2 DEF Pollers, Results
    <3>2. Asked'
      BY <1>t, <2>1, <3>1 DEF Asked, Failed
    <3> QED BY <1>t, <2>1, <3>1, <3>2 DEF PollInv, PollerTypeOK, Stored
  <2>3. CASE \E pc \in {"answer", "start", "asleep"} : poller' = [poller EXCEPT !.pc = pc]
    <3>1. PICK pc \in {"answer", "start", "asleep"} : poller' = [poller EXCEPT !.pc = pc]
      BY <2>3
    <3>2. /\ poller' \in Pollers /\ poller'.pc # "record"
          /\ poller'.imported = poller.imported
          /\ poller'.previous = poller.previous /\ poller'.check = poller.check
          /\ poller'.etag = poller.etag /\ poller'.result = poller.result
      BY <1>t, <3>1 DEF Pollers, PollSteps
    <3>3. poller'.pc \in {"answer", "start", "asleep"}
      BY <1>t, <3>1 DEF Pollers
    <3>4. Asked'
      BY <1>t, <2>1, <3>2, <3>3 DEF Asked, Looked, Failed
    <3> QED BY <1>t, <2>1, <3>2, <3>4 DEF PollInv, PollerTypeOK, Stored
  <2> QED BY <1>16, <2>2, <2>3 DEF QueryFails
<1>17. CASE UNCHANGED pollerVars
  BY <1>17, <1>t DEF pollerVars, PollInv, PollerTypeOK, Stored, Asked, Looked, Failed
<1> QED BY <1>1, <1>2, <1>3, <1>4, <1>5, <1>7, <1>8, <1>9, <1>10, <1>11, <1>12, <1>14, <1>15,
           <1>16, <1>17
           DEF PollerNext, Poll

(* Type correctness, imports that are stored, and checks that are asked of *)
(* a list the poll that took them has seen.                                *)
THEOREM PollInvariant == PollerSpec => []PollInv
<1>1. PollerInit => PollInv
  BY PollInit
<1>2. PollInv /\ [PollerNext]_pollerVars => PollInv'
  BY PollKept
<1> QED BY <1>1, <1>2, PTL DEF PollerSpec

(* What the row calls imported is in the history, whatever crashes and     *)
(* failed queries separate an import from its record.                      *)
THEOREM ImportsAreStored == PollerSpec => []ImportedIsStored
<1>1. PollInv => ImportedIsStored
  BY DEF PollInv, Stored, ImportedIsStored
<1> QED BY <1>1, PollInvariant, PTL

(* A manual check answered as completed has seen a list no older than the  *)
(* one it was asked at, even when the poller was in the middle of a poll.  *)
THEOREM ChecksAreFresh == PollerSpec => AnswersAreFresh
<1>1. PollInv /\ [PollerNext]_pollerVars =>
        [manual.status # "completed" /\ manual'.status = "completed" =>
           poller.etag >= manual.asked]_pollerVars
  <2> SUFFICES ASSUME PollInv, PollerNext,
                      manual.status # "completed", manual'.status = "completed"
               PROVE  poller.etag >= manual.asked
    OBVIOUS
  <2>t. PollerTypeOK /\ Asked
    BY DEF PollInv
  <2>1. Answer
    BY <2>t
       DEF PollerNext, Poll, Relist, ImportByHand, Upgrade,
           RequestCheck, ClaimCheck, Discover, Done, Download,
           Import, Record, WakeUp, TimerRings, DiscoverFails,
           TransferFails, QueryFails, Crash, PollerTypeOK
  <2>2. /\ poller.pc = "answer" /\ poller.check /\ manual.status = "running"
        /\ poller.result # "error"
    BY <2>t, <2>1 DEF Answer, PollerTypeOK
  <2>3. poller.etag \in Nat /\ manual.asked \in Nat
    BY PollerAssumption, <2>t DEF PollerTypeOK, Pollers
  <2> QED BY <2>t, <2>2, <2>3 DEF Asked, Looked, Failed
<1> QED BY <1>1, PollInvariant, PTL DEF PollerSpec, AnswersAreFresh
=============================================================================
