# RoomFrame TV: formal models

TLA+ specifications of the parts of RoomFrame where several actors, failures and
restarts meet: the server (`services/api`), its worker and poller processes, the host's
root services, and the Android television (`apps/tv-android`). TLC checks them on small
instances; TLAPS proves all the safety properties of those checks for every instance.

## The system

RoomFrame runs on one host: an API over PostgreSQL behind Caddy, a worker, a poller,
and root services started by the host. Televisions poll the API over HTTPS with a bearer
key (and a client certificate where mutual TLS is on). There is no push: everything
between server and television is a poll that may fail on either side.

| Part | State | Operations | Interacts with | What is hard |
|---|---|---|---|---|
| TV credentials (`studio-routes.mjs`, `TvCredentialRotationClient.kt`, `DeviceCredentialStore.kt`, `EnrollmentActivity.kt`) | key hash, pending hash, generation and enrolment state in `screens`; key, pending key and generation on the device | enrol, re-enrol, revoke, delete, two-phase rotation | every TV route authenticates with it | lost or late exchanges, death between write and exchange, an old request served under a new enrolment |
| Scenes, assignments, schedules, messages (`studio-routes.mjs`, `scene-scheduler.mjs`) | rows and the one counter `sync_state.revision` | draft, publish, assign, schedule, cancel, worker transitions, post | the television compares the counter | a change that does not bump; a window that is skipped, overlaps or reopens |
| TV synchronisation (`GET /tv/sync`, `HttpExperienceSyncClient.kt`) | the revision and content shown | poll, build the answer in three groups of queries around a call to the weather gateway, apply | reads the above, feeds the store | queries that see different moments |
| TV revision store (`ExperienceStore.kt`, `MainActivity.kt`) | revision directories, receipts, two pointers | boot, load, stage, write, move, activate, prune | synchronisation writes it, the screen reads it | death between two durable writes, damaged directories |
| GitHub poller and import (`update-poller.mjs`, `github-update-*.mjs`, `release-importer.mjs`) | `update_poll_state`, `release_history` | discover, download, import, record, manual check | GitHub, the Studio, NOTIFY | errors recorded half way, crashes, a check asked during a poll |
| Deployments (`studio-routes.mjs`, `HttpAppUpdateCoordinator.kt`, `AndroidPackageInstallerAdapter.kt`) | plan and target rows; APK, pending entry, installer session and last result on the device | create, advance, complete, retry; ask, download, report, install | releases of the importer | reports lost or refused, stale results, waves advanced during reports |
| Server update (`server-update-*`, `roomframe-apply-update.sh`) | requests, the host's application directory | request, take, apply, roll back | root services | power cut between renames, a rollback that fails itself |
| Accounts and sessions (`bootstrap-auth-routes.mjs`, `user-routes.mjs`, `account-security-routes.mjs`, `auth.mjs`, `totp.mjs`) | users, sessions, invitations, passkeys, challenges, the last code used | configure, invite, activate, sign in, step up, change role or credentials, deactivate, recover | every administration route asks for a session | what is read before the transaction that uses it; two owners at work on each other |
| Media (`media.mjs`, `media-worker.mjs`) | `assets`, `media_jobs`, files, an advisory lock | upload, claim, write variants, publish, fail, recover | scenes refer to assets | a worker that dies at any place, a file uploaded again meanwhile |
| Client certificates (`studio-routes.mjs`, `roomframe-tv-certificate-broker.sh`, `TvCertificateProvisioningClient.kt`) | request and certificates of a screen; the identity in the keystore | request, sign, deliver, install, activate, renew, revoke | enrolment, the reverse proxy | a signature that crosses a new enrolment; a certificate required before it is usable |
| Private space (`studio-routes.mjs`, `PrivateSpaceOverlayController.kt`, `PrivateApplicationAccessController.kt`) | policy, code, allowlist, wrong codes, inventory; the overlay, hidden applications, preferences | set, regenerate, allow, unlock, report; ask, open, lock, reconcile | synchronisation brings the policy, the presence service reconciles | concurrent codes; threads that open what another closed; refusals of Android |
| Weather, restore, settings and groups, archive verification, front ends, scripts | | | | see `PROJECT.json` and "Not modelled" |

## Modules

| Module | Models | Uses |
|---|---|---|
| `TvCredentials` | TV credentials, both sides | |
| `TvCredentialsProofs` | its theorems | `TvCredentials`, `TLAPS` |
| `SceneSchedule` | what the server holds a screen should show | |
| `SceneSync` | the television that polls it | extends `SceneSchedule` |
| `SceneSyncProofs` | the theorems of both | `SceneSync`, `WellFoundedInduction`, `TLAPS` |
| `ExperienceStore` | the files and the executor of one television | implements `AtomicCache` |
| `AtomicCache` | the promise: one revision, replaced in one step, and a spare | |
| `ExperienceStoreProofs` | its theorems, the refinement among them | `ExperienceStore`, `TLAPS` |
| `GithubPoller` | loop, poll, row, manual check, import | |
| `Deployment` | plans over several televisions | |
| `DeploymentProofs` | its theorems | `Deployment`, `TLAPS` |
| `ServerUpdate` | a release applied to the host, and its rollback | |
| `ServerUpdateProofs` | its theorems | `ServerUpdate`, `SequenceTheorems`, `TLAPS` |
| `Accounts` | accounts, sessions, invitations, passkeys, recovery | |
| `MediaJobs` | uploads, the queue, the worker and its lock | |
| `BackgroundProofs` | the theorems of `MediaJobs` and `GithubPoller` | both, `TLAPS` |
| `TvCertificate` | the client certificate: API, broker, proxy, television | |
| `AccessProofs` | the theorems of `Accounts` and `TvCertificate` | both, `SequenceTheorems`, `TLAPS` |
| `PrivateAccess` | the private space on the server | |
| `PrivateSpace` | the overlay and the device policy of a television | extends `PrivateAccess` |
| `PrivateSpaceProofs` | the theorems of both | `PrivateSpace`, `SequenceTheorems`, `TLAPS` |
| `MC*` | the instance TLC runs, and what removes symmetric states | |

**TvCredentials.** `screen` is the row of `screens`, `tv` the preferences of
`DeviceCredentialStore`, `pc`/`cred`/`answer` the position in `rotateIfDue`, what it
loaded and the answer it has not read. A request is put in `requests` and served by a
later step (`ServeEnroll`, `ServeRotate`, `ServeConfirm`: one transaction each); a client
that gives up leaves it there, so a request can be served after a timeout, a restart, a
revocation or a new enrolment, or never. `Die` is the end of the process or of its data.
`used`, `lineage` and `retired` are history variables.

**SceneSchedule, SceneSync.** One action per route of the administration and one
(`Transition`) for a pass of the worker; a cancellation is two steps, because it holds its
row (`FOR UPDATE`) while the worker skips it. Two facts of the code decide what is checked:
the worker and the routes bump one counter, and what a screen shows also depends on the
clock. `SceneSync` splits the handler of `GET /tv/sync` at the points where it awaits,
the weather gateway among them, whose new reading bumps the counter in the middle of the answer
(`RefreshWeather`) or of that of another television (`RefreshElsewhere`).

**ExperienceStore.** Every rename or write of `FileExperienceStore` is a step; `Die` may
come between any two; `Damage` makes a directory partial. `AtomicCache` is its abstract
specification, seen through what a restart would load (`Loadable`) and fall back on
(`Spare`): a refinement mapping, checked as the property `Implements` and proved.

**GithubPoller.** `poller.pc` is the place in the loop and in one poll; the queries between
which the process can die are separate steps. `listing` is GitHub (an ETag and the candidate
it names), `row` the polling row, `manual` the check columns, `woken` the flag of NOTIFY.

**Deployment.** `plan`, `target` and `before` are the server; `before[t]` orders the plans
by the `offered_at` of their rows for `t` (the pairs whose first was offered earlier), and a
new offer puts its plan last. `tv[t]` is one coordinator with its preferences, its file and
the session the PackageInstaller holds. Each exchange is one step that succeeds, fails, or
loses its answer.

**ServerUpdate.** `host` is the machine (install directory, runtime.conf, running
containers, state file, what stagings were left behind); `job[a]` is one command, run by the
root broker or by an operator, with its place in the script (`pc`), its own staging and the
version it read before it took the lock. Each command that changes the host is a step that
succeeds, fails with or without its effect, or is cut by a kill. `requests` and `deployed` are
the rows. `Reinstall` is an operator running install.sh again.

**Accounts.** Each route is what it reads before its transaction (a step that leaves the
request in a worker) and the transaction (another step, which checks again only what the
code checks again). The two parts of the credentials, replaced together everywhere, are a
generation. A session, a passkey and a challenge bear the generation that was verified for
them, a session also the role, and whether that changed before the row was inserted
(`crossed`). The clock is left out: sessions, challenges and invitations expire at any
moment, a code may be of any period.

A transaction is one step where it begins by locking or updating the row of its account. Three do
not fit in one. The sign-in and the registration by passkey lock their challenge and their
passkey only (`PasskeyVerify`, `PasskeyRegistrationVerify`), and insert later
(`PasskeyComplete`, `PasskeyRegistrationComplete`). The insertion refers to the account and
waits for whoever holds its row `FOR UPDATE` (deactivation, new invitation), who in turn waits for
the challenges it deletes: PostgreSQL ends one of the two, hence the guards `Held` and `Calm`.
The local recovery updates the account outside its key, which such an insertion does not wait for:
it is three steps (`RecoveryComplete` with the sessions it finds, `RecoveryDeletePasskeys` with the
passkeys, `RecoveryCommit`), and what commits in between is not what it ends. There is one such
transaction at a time, and one that is rolled back, which changes nothing, is left out.

**MediaJobs.** `status` and `job` are the rows of an asset and of its last job, `objects`
its files, `lease` the advisory lock, `worker[w]` the place of a process in its loop.
An upload is cut between the row of the asset and the row of its job (`dropped` when the API
dies there); the transaction that publishes may lose its answer (`unseen`); a worker may stop
or die between any two steps, and the one that takes the lock next recovers its job.

**TvCertificate.** `screen`, `request` and the broker's place are the server; `tv` the
television with what its keystore holds and what the current connection showed (`Presented`).
Certificates are numbered as they are signed; `made` and `age` are what is known of each. The
constant `Sticky` says whether the firmware keeps showing an identity it showed before.
The broker and a revocation lock two rows in opposite orders; PostgreSQL aborts one of them,
so that one of the two orders is what happens.

**PrivateAccess, PrivateSpace.** The server's two transactions of a television, the
verification of a code and the report of its applications, are split where they wait for a
row. On the television the callbacks of the main thread are steps, `queue` is the overlay's
worker, `orphan` the job of an overlay that is gone, `rounds` a reconciliation that is due,
`holder` the thread inside `POLICY_LOCK`, `kept` the preferences, `hidden` what Android
hides. `wrong`, `crossed`, `refused`, `lost` (an application left hidden by a death, or taken back too
early) and `ui.asked` are history variables. A poll is
one step (its own interleavings are the subject of `SceneSync`), the release of the managed
applications waits for the lock and works in one step, and a failure to persist is
modelled for worker threads, where it ends the process.

In every module the comment above an action names the route or the function it is.

## Runs

| Run | Expect | Shows |
|---|---|---|
| `credentials` | pass | whatever is lost, late, replayed or killed: the television keeps the key and generation the server accepts (`NoLockout`), no retired key returns (`RetiredKeysStayOut`), it never promotes ahead of the server (`PromotionFollowsServer`), the inductive invariant `IInv`, and a started rotation ends (`RotationEnds`) |
| `scene_schedule` | pass | windows do not overlap (`NoOverlap`), changes bump (`ChangeBumps`), windows that ended are closed for good (`WindowsClose`) |
| `scene_sync` | pass | the television never announces a revision the server has not reached (`NeverAhead`) and catches up (`CatchesUp`) |
| `sync_stale_scene` | violation | an old scene is recorded under the new revision (`UpToDateScene`) |
| `store` | pass | the store implements `AtomicCache` across deaths (`Implements`); `InUseIsKept`, `BootShowsLoadable`; it `Converges` where nothing is damaged |
| `github_poller` | pass | what is reported as imported is stored (`ImportedIsStored`), an answer to a check is about a look at GitHub that began after it (`AnswersAreFresh`), checks are answered (`CheckAnswered`) |
| `deployment` | pass | `CompletedIsSettled`, `InstalledIsTrue`, `InstallsAreGranted`; an offer to a television that may install is settled (`OffersSettle`) |
| `server_update` | pass | `CompletedIsInstalled`, `RolledBackIsPrevious` and the inductive invariant `IInv` across failures and kills; `RequestsSettle` |
| `accounts` | pass | an active owner remains (`OwnerRemains`), one-time codes and recovery tokens serve once (`CodesOnce`), access does not outlive the credentials and the role that were verified for it, unless it crossed their change (`ChangeEndsAccess`), an account is activated by its last invitation only (`ActivationFollowsInvitation`) |
| `media` | pass | the tables agree (`IInv`), a publishable asset has its files (`ReadyHasFiles`), jobs are finished or given up (`JobsSettle`) |
| `certificate` | pass | a certificate serves its own enrolment (`OfThisEnrolment`), is never required of a television that cannot show it (`NoDeadEnd`), and comes (`CertificateComes`) |
| `private_space` | pass | wrong codes are counted whatever crosses (`LockoutHolds`), the inventory follows the allowlist (`InventoryAllowed`), what is hidden is known (`Tracked`), and no application stays open after the session (`NoOpenDoor`, `DoorCloses`) |

Each property of a passing run has a mutant in `PROJECT.json`: an operator, next to the
one it replaces, with a plausible bug that makes the property fail.

### Bounds, and why they suffice

* `TvCredentials`: six keys cover an enrolment, two rotations and a re-enrolment with
  requests of the first enrolment still in flight; three faults allow a lost answer in each
  phase and a death. Tokens are interchangeable, so the constraint `DrawnInOrder` keeps one
  behaviour of each class; it is a constraint, not a symmetry set, because every behaviour has
  a representative, step for step, which keeps liveness sound. The theorems need no bound.
* `SceneSchedule`: two windows on two targets in three instants make windows overlap, touch,
  nest and be cancelled in the middle of a pass. Rows are filled in order (`FilledInOrder`).
* `SceneSync`: two drafts, one schedule, one message and two instants, with publications and
  readings of the weather up to the third revision: each query of one answer can fall on either
  side of each change, and the answer can itself cause one.
* `ExperienceStore`: four revisions give active, previous, the one being stored and one to
  prune; three faults and two damages allow a death in each of two installations.
* `GithubPoller`: three lists, two genuine releases and a forged one, two faults.
* `Deployment`: two plans of two releases over two televisions, one of which may not install
  by itself, and one fault anywhere. The inductive invariant of its proofs was also checked
  with two faults.
* `ServerUpdate`: two requests over two releases above the installed one, and two faults: one
  that starts a rollback and one that stops it, or two kills. One signal in the swap.
* `Accounts`: two accounts, two sessions and two requests in flight are what one
  request crossing another needs, two codes of a secret (one after the other, or the same one
  twice) as well. Credentials set four times in all and two invitations an account allow a
  configuration, an activation, a recovery and a new activation. Sign-ins and passkeys that cross
  a recovery occur: without the exception, `ChangeEndsAccess` fails in this instance. Accounts, sessions
  and workers are interchangeable, and no property of this run is a liveness property: a symmetry
  set.
* `MediaJobs`: three uploads of one content (the first, a repeated one, and one that finds a
  job just closed), two workers, three stops: one for each attempt of a job. Contents do
  not interact but through the lock.
* `TvCertificate`: two enrolments, so that the first can be signed for during the second;
  three certificates that grow old, three attempts. `Sticky = TRUE` is the harder case and the
  one of the run; `FALSE` was checked with the same bounds.
* `PrivateSpace`: one target, one application, two requests at once, two attempts in place of
  five; three events of viewers, of the system or of the applications it reports (as many as
  it takes to open, leave and return) and one change in the Studio. Reports and changes have bounds
  of their own, so that a report crosses a change of the allowlist and another report follows. That `PrivateSpace` implements the server it extends
  (`ServerSpec`) was checked with two events and is proved (`OneOfTheServer`).

`CHECK_DEADLOCK FALSE` appears only where time, revisions, keys or faults run out, or where
nothing is left to do (a revoked screen).

### Fairness

Weak fairness on steps of a process that runs: the API answers; the executor of the
activity is rescheduled every minute and finishes its pass; the poller loops; the media
worker is restarted by its container and does not stop in the middle, save for a bounded
number of deaths; the certificate broker passes every ten seconds; the threads and the main
loop of the television run, a request ends by its timeout, and Android restarts the process
that is its home. Strong fairness only where a retried exchange must get through in the end
(the steps of a poll, of a certificate's delivery, the claim of a job that other jobs
delay), and in `Deployment`, where the television must now and then be unattended when a pass
asks. In `TvCertificate` no connection lasts for ever (`Reconnect`). Nothing is assumed of
administrators, operators, viewers or the order of failures. One assumption stands in the property
that needs it: `Timer`, the six-hour timer of the poller rings. `RequestsSettle` likewise
assumes in its premise that the containers come up again and again, which after a kill needs
the operator, and that other maintenance stops holding the lock. Faults are bounded, so a
liveness property says what happens once they stop.

## Proofs

| Module | Theorem | States, for every value of the constants |
|---|---|---|
| `TvCredentialsProofs` | `TypeCorrect`, `InductiveInvariant`, `NoLockoutHolds`, `RetiredKeysStayOutHolds`, `PromotionFollowsServerHolds` | types, for any number of workers; the rest with `OneWorker` |
| `SceneSyncProofs` | `WindowsApart`, `ChangesBump`, `NeverReopened` | of the server: `NoOverlap`, `ChangeBumps`, and that a window that ended or was cancelled keeps its row |
| | `Behindhand`, `OnlyPublishedIsShown` | with the television: `NeverAhead`, and that what it shows was published |
| `ExperienceStoreProofs` | `StoreIsAtomicCache`, `NothingInUseIsLost`, `BootIsRight` | `Implements`, `InUseIsKept`, `BootShowsLoadable` |
| `DeploymentProofs` | `NobodyLeftBehind`, `InstalledHolds`, `Granted` | `CompletedIsSettled`, `InstalledIsTrue`, `InstallsAreGranted` |
| `ServerUpdateProofs` | `TypeCorrect`, `Inductive`, `CompletedInstalled`, `InstallationKept`, `RolledBack` | types, `IInv`, `CompletedIsInstalled`, `CodeKept`, `RolledBackIsPrevious` |
| `BackgroundProofs` | `Invariant`, `ReadyIsServed`, `TablesAlwaysAgree` | of `MediaJobs`: `IInv`, `ReadyHasFiles`, `TablesAgree` |
| | `PollInvariant`, `ImportsAreStored`, `ChecksAreFresh` | of `GithubPoller`: its inductive invariant, `ImportedIsStored`, `AnswersAreFresh` |
| `AccessProofs` | `AccountsInvariant`, `Ownership`, `SingleUse`, `AccessRevoked`, `LastInvitation` | of `Accounts`: its inductive invariant, `OwnerRemains`, `CodesOnce`, `ChangeEndsAccess`, `ActivationFollowsInvitation` |
| | `CertificateInvariant`, `SignedForThisEnrolment`, `NeverLockedOut` | of `TvCertificate`: its inductive invariant, `OfThisEnrolment`, `NoDeadEnd` |
| `PrivateSpaceProofs` | `AccessInvariant`, `Lockout`, `InventoryFollows` | of the server: the invariant of the counting, `LockoutHolds`, `InventoryAllowed` |
| | `OneOfTheServer`, `LockoutOfTelevision`, `SpaceInvariant`, `NothingForgotten`, `NoDoorStaysOpen` | with the television: `ServerSpec`, hence `LockoutHolds`; its inductive invariant, `Tracked`, `NoOpenDoor` |

`BackgroundProofs` and `AccessProofs` each extend two components that share no variable: the two
processes that work in the background, and the two ways in. Nothing is composed there: each theorem
is about the specification of one of them (`Spec` and `PollerSpec`, `Spec` and `CertSpec`).

Hardly any of these properties is inductive as it stands. The arguments:

**TvCredentials.** `NoLockout` (key and generation) fails after one step from states where
a rotation in flight carries a key that is not the pending one on disk, or where the row
holds a pending key of another enrolment. `IInv` adds what rules these out: every key in
the state was drawn (`KeysDrawn`); the shape of the row and of the store (`RowInv`,
`StoreInv`); the two ways they agree (`LinkInv`); a rotation in flight speaks for the pending
key exactly when it speaks for the active one (`RotateInv`); a worker holds what is on disk
and waits for one request made of it (`WorkerInv`, `InFlightInv`); an enrolment finds an
empty store and its grant stays intact (`EnrollInv`). One lemma per action (`Step...`)
shows that it keeps every conjunct; the theorem joins them with `PTL`. `OneWorker` (at most
one executor rotates) is needed: with two the invariant fails, and nothing in the code
enforces it (`onDestroy` interrupts the executor but an HTTP exchange outlives it).

**SceneSchedule.** The types and `Apart`, the windows being apart, are inductive together:
a step either revives no row (`NoneRevived`) or checked the new window under the lock.
`ChangeBumps` compares what is chosen before and after a step: a step that does not bump
leaves the set of candidates as it is, and the choice falls on a scene (`SceneChosen`, by the
least element of a set of ranks), whose published draft the step leaves alone too. That windows
never reopen (`ClosedStep`) is a matter of each writer testing the row again (`Live`): the cancellation
after it has waited for its lock, the worker in the query that selects its rows.

**SceneSync.** Besides what the television shows, the invariant bounds the answer it has not
read: the server's counter only grows (`RevisionGrows`), so an answer of any age stays below it.
`OnlyPublishedIsShown` is about three moments: a scene is published when it is assigned or scheduled
and never unpublished (`Served`), hence when it is chosen (`ChosenIsPublished`), and the answer carries
that revision to the television (`Answered`).

**ExperienceStore.** `Kept` holds whatever is damaged: what a pointer names and what is on
display have a directory. `Sound` holds while nothing is: both pointers name verified
directories, the spare is the one the active revision replaced, and what is being stored is
newer than either. Under the mapping every step stutters but the write of the previous
pointer, which is the abstract `Release`, and of the active one, which is `Install`. From the
first damage on `AtomicCache` promises nothing (`Damaged`).

**Deployment.** What a television holds is true of the plan it works on as long as that plan
stays the first of those that wait for it (`Held`): nothing is offered before it, and only the
television's reports change what it was offered. `RowInv` says so place by place; a step of
one television leaves the others alone (`OneMoves`), and an offer never touches a plan that
waits (`OfferMoves`). `before` is a relation and not a sequence so that this is a statement about
pairs, without induction.

**ServerUpdate.** That a rollback leaves the host as before rests on what every earlier
command of the script did and on nobody else having touched the host since. `IInv` says it
place by place: a command in the script holds the lock, and has its previous code aside exactly
between the two moves (`HoldInv`); the code, then the settings, then the containers are those of
the release, or of before, from the place on that makes them so (`PlaceInv`); the broker settles
the request it claimed, with success only when the release was recorded (`RowInv`); while the state
file says completed, no command is past `Announce` (`FileInv`). The lemmas, one per action, rest on
three: `Others` (while one command holds the lock nothing is claimed of the other),
`FailStep` (a failure anywhere before the rollback) and `Joined` (what remains to be shown of a
step under the lock). `RolledBack` also needs that no action but `UndoState` writes
"rolled-back" (`UntoldNext`).

**MediaJobs.** The lock makes the worker that is up the only one (`LeaseHeld`); hence the
directory it clears is that of an asset in processing (`HandsFull`, `TablesAgree`), never of one
that may be published.

**PrivateAccess.** One transaction at a time checks a code (`Alone`: it holds the row of the
television); what it read of the attempts before the slow hash is still true after it
(`StillTrue`); and the row counts every wrong code in force (`Counted`). These follow from two
facts of the locks, that nobody else checks for the screen while one does (`ScreenFree`) and that
its policy row is held. The inventory needs only that a report writes what was in the allowlist it
read (`Inventory`). `PrivateSpace` adds only stuttering steps of the server to it.

`PrivateSpace` itself is proved on `IInv` and three facts of the television: what was begun for
the present epoch was begun with a code of that epoch, so that a late answer opens nothing
(`Epochs`); the thread inside `POLICY_LOCK` holds preferences that know every application it hides,
or says which it was refused (`Holding`); a session, and an application that may be seen, always
has something that will end it: an overlay, a job, the orphan or a round (`Watched`). `Tracked` and
`NoOpenDoor` are inductive only with the three together, because a release that hides reads under
the lock what another thread wrote before it.

**Accounts.** `OwnerRemains` needs that nothing exists before the configuration (`Unconfigured`),
which makes the first owner the only one, and that the transaction that removes an owner counts
the others under its lock (`Owned`). `CodesOnce` is, for the codes, that the latest one used by an
active account is not beyond the counter of its row (`InOrder`), whatever a sign-in read before, and
for the recovery that the row is consumed with its first completion (`OneRecovery`).
`ActivationFollowsInvitation` rests on only the last invitation of an account being open
(`LastOpen`), since each new one revokes those before it. `ChangeEndsAccess` follows requests from
what they verify to what they insert (`Standing`): a sign-in in flight bears the credentials and the
role in force or knows that they changed, and the challenge of a registration in flight cannot be
overtaken, because whoever replaces the credentials deletes it and waits for it. A recovery between
two of its statements must still end all that will not have crossed it (`RecoveryStands`): every session
of the account, then every passkey, is among those it found or is marked.

**GithubPoller.** What is called imported is stored in three places at once: the row, what the poller
read of it, and what it is about to write (`Stored`). A check is asked of a list that exists, and
the poll that took it has looked at that list or at a later one, or fails (`Asked`).

**TvCertificate.** Requests and certificates are numbered, and counting them shows that no bound is met
where the code has none (`Counted`, `Aged`). The certificate issued is the last one signed and the
row of an active screen names it, as pending or as active (`Last`); what the broker signs is for the
enrolment of the request as long as its claim of it stands (`Signing`); the television handles no
certificate but that one (`Exchange`). `NoDeadEnd` is kept by the
one step that replaces what the screen is known by, because what the television installed is then the
certificate being promoted.

The proofs assume the `ASSUME` of each module and nothing else: rows and bounds are what
their comments say, `None` is none of the values it stands beside, the constants named
as bounds are numbers, and for `SceneSchedule` the instance is a target.

Every safety property of a passing run is stated by a theorem. Model-checked only: the liveness
properties (`RotationEnds`, `WindowsClose`, `CatchesUp`, `Converges`, `CheckAnswered`,
`OffersSettle`, `RequestsSettle`, `JobsSettle`, `CertificateComes`, `DoorCloses`), for which TLAPS
has neither fairness nor ENABLED, and the violation `UpToDateScene`. No module proved about declares a
RECURSIVE operator, and nothing that needs induction over data is claimed.

## What the models found

**Old scene, new revision** (`sync_stale_scene`): `GET /tv/sync` reads the scene, calls the
weather gateway, then reads the revision. A publication in between is recorded by the
television under the revision it belongs to without being shown, and later polls are answered
`upToDate`.

Seen while modelling, and the reason for what a property leaves out:

* *Credentials.* `promotePending` promotes whatever is pending on disk, so with two living
  executors the pass of an old activity promotes the key of the new one, which the server
  did not confirm. The run and the theorems are for one executor.
* *GitHub.* The ETag of a list is recorded with the error of the transfer, GitHub answers 304
  from then on, and the release is imported only when the list changes: no property promises
  the import. After a failed transfer of a second release the row pairs its asset with the
  import of the first (`COALESCE`), and the next poll reports it `already-imported`.
* *Store.* A damaged directory of the published revision is refused at every synchronisation
  and never replaced (`Converges` speaks of sound storage); an activation overwrites `previous`
  with a damaged `active` before it writes the new one, so a death in between leaves only
  the bundled revision.
* *Deployments.* "version-not-newer" is a failure, a failure holds the wave, and retry offers the
  same release again: a plan that reaches a television already up to date never ends. An
  answer lost after the report `installed` or `failed` leaves a pending entry that is refused
  for ever and blocks later updates of that television; one lost after `installing` leaves a
  target that neither installs nor can be retried. Hence `OffersSettle` speaks of behaviours
  without a fault.
* *Television.* No step bumps the revision when the window of a message opens or closes, so a
  television that is answered `upToDate` goes on showing it, or misses it, until the next bump.
* *Accounts.* The password and the code of a sign-in are verified before its transaction, whose update
  matches the account and the counter only (`bootstrap-auth-routes.mjs:334-358`). If a local
  recovery commits in between, and the code is of a later period than the one the recovery recorded, or if an
  owner changes the role, the session is inserted after the revocation and stays usable. A sign-in
  by passkey, or the registration of one, that commits between the statements of a recovery
  (`bootstrap-auth-routes.mjs:509`, `512`, `516`) likewise leaves a session or a passkey behind.
  `docs/SECURITY.md:119-120` says of a change of role that it "révoque immédiatement toutes les
  sessions du compte concerné", `docs/SECURITY.md:165` of the recovery that it "révoque toutes les
  sessions du compte" and `docs/INSTALLATION.md:470` that it "révoque les sessions et passkeys
  existantes". What is left behind is the exception (`crossed`) in `ChangeEndsAccess`. A deactivation
  or a new invitation has no such case for passkeys, because it locks the row of the account first;
  the session of a password sign-in that crosses it is of no use until the account is active again,
  and is ended by that activation unless it crosses it too.
* *Weather.* `refreshWeatherForScene` writes the reading and bumps the revision in separate
  statements, a preview in the Studio refreshes without a bump, and a reading that grows stale
  bumps nothing: televisions stay up to date with an old weather.
* *Server update.* A kill between `compose down` and the start of the new containers leaves nothing
  that starts them again, the broker then reaches no database and the request stays running
  (docs/UPDATES.md calls it "un échec contrôlé au passage suivant"; hence the premise of
  `RequestsSettle`); a signal whose trap runs between the `mv` of the code and `CODE_SWAPPED=1`
  deletes the staging with the only copy of the code (hence the exception in `CodeKept`); the
  current version is read before the lock is taken, so a slow command may install an older
  release over a newer one; `deployed_at` is committed before the audit row, so a failure
  between the two rolls the code back and leaves the release deployed (why
  `CompletedIsInstalled` says nothing of a release that is deployed without a completed request).
* *Media.* An asset whose processing failed is never processed again, even when the same file is
  uploaded again. An upload that read its asset before the job ended opens a second one, which
  processes a ready asset again; its status goes back to `processing` first, so that no scene is
  published with it meanwhile. The API can die between the rows of the asset and of its job: the asset stays
  queued without a job (`dropped`). If the answer to the publishing transaction is lost, the
  worker takes the failure path and removes the files of an asset that is ready (`unseen`):
  the exception in `ReadyHasFiles`.
* *Certificates.* A request that failed ten times is never taken again and the television, which
  is answered `failed`, asks for no other: `CertificateComes` counts it as an end. Its
  key pair is never cleared, even by a new enrolment, which the model uses: proofs of possession hold.
* *Private space.* A report of applications that crosses a change of the allowlist leaves rows
  outside it, which every reader filters (`crossed`); a report whose answer is an error is not
  repeated until something changes. A policy of the television and one of the instance with the
  same generation make equal documents, so that a session opened under one stays open under the
  other. A process that dies between hiding an application and persisting that it did leaves it
  hidden and unknown to the preferences (`lost`): the first exception in `Tracked`. The second was
  found by the proof, whose invariant was not inductive without it, and contradicts a comment.
  `PrivateApplicationPolicy.kt:91-95` says why a new list waits for the release of the old one:
  "Cette barrière empêche les retraits en échec de s'accumuler puis d'être oubliés au fil de
  plusieurs rotations." An application whose release is pending and that is allowed again while
  the release of another is refused is neither managed (the new selection was refused) nor pending
  (it is desired): taken off the list again, it stays hidden and is forgotten (`TakenBack`).

## Abstractions

Documents, names and payloads are model values; a key stands for its hash; a release for its
version, its asset and its hash. Rate limits, audit rows and validation of inputs are left
out, as are the pause a television imposes on itself after wrong codes, focus and drawing.
`apply()` of Android preferences is taken as durable when it returns. PostgreSQL
transactions are atomic steps when they lock what they read; where a handler reads outside a
transaction or awaits between queries, each group of queries is a step. The `progress`
document, `wave_number`, the status `deferred` and `home_version` of deployments are shown and
never read back. All televisions of a plan stay active: a revoked one would hold its wave.
Signatures and hashes hold. An enrolment without a key of its own, which older
televisions make, and the deletion of a television are outside `TvCertificate`.

## Not modelled

Listed with the reason in `PROJECT.json`. In short: cryptography and archive verification
(functions of bytes), rendering and front ends (no shared state), sequential host scripts,
single-row settings (each bumps the revision in its transaction, as the actions of
`SceneSchedule` do), the content and the expiry of the weather cache (its bump is in `SceneSync`).

## Plan

In order: (1) `Restore`: the swap of database, files and settings and its rollback; (2) its
composition with `SceneSync`, since a restored counter goes back; (3) the readings of the weather
themselves, beside the bump `SceneSync` has. Each would take the place of the run it makes the least
needed.

Theorems to add: the invariants of these, and for the liveness properties the safety half that each
rests on, as `NeverReopened` is that of `WindowsClose`: that a started rotation is never abandoned, that
the attempts of a job and of a request only grow.
