---------------------------- MODULE GithubPoller ----------------------------
(***************************************************************************)
(* The import of signed releases from GitHub: the loop of the poller       *)
(* process (update-poller.mjs), one poll (github-update-poller.mjs), the   *)
(* importer it shares with the Studio (release-importer.mjs), the manual   *)
(* check an administrator may ask for (POST /releases/github-checks,       *)
(* github-update-check.mjs), and the row of `update_poll_state` where poll *)
(* and check meet.                                                         *)
(*                                                                         *)
(* A release is its version number and stands for its only .rfupdate asset *)
(* as well: identity, bundle and hash change together.  The poller is the  *)
(* only holder of its advisory lock.  The 30 s between two checks and the  *)
(* quarantine directory are left out.                                      *)
(***************************************************************************)
EXTENDS Naturals

CONSTANTS
  Releases,     \* versions GitHub may list, positive numbers
  Genuine,      \* those whose signature and provenance verify
  MaxListing,   \* bound: changes of the list on GitHub
  MaxFaults     \* bound: failed requests, failed queries and crashes

ASSUME PollerAssumption ==
  /\ Releases \subseteq Nat \ {0} /\ Genuine \subseteq Releases
  /\ MaxListing \in Nat \ {0} /\ MaxFaults \in Nat

NoRelease == 0

VARIABLES
  listing,     \* GitHub: the ETag of its list and the candidate it names
  history,     \* release_history: the versions verified and stored
  running,     \* the version the server runs
  row,         \* update_poll_state, less the columns of the manual check
  manual,      \* manual_status, and the listing when the check was asked
  poller,      \* the poller process
  woken,       \* a notification came since the turn of the loop began
  faults       \* how many faults have happened

pollerVars == <<listing, history, running, row, manual, poller, woken, faults>>

MaybeRelease == Releases \cup {NoRelease}
Results == {"none", "not-modified", "no-candidate", "already-imported", "imported",
            "rejected", "error"}
PollSteps == {"start", "discover", "download", "import", "record", "answer", "asleep"}

Rows == [etag : 0..MaxListing, asset : MaybeRelease, imported : MaybeRelease,
         result : Results]
Pollers == [pc : PollSteps, check : BOOLEAN, previous : Rows, etag : 0..MaxListing,
            candidate : MaybeRelease, result : Results, imported : MaybeRelease]

PollerTypeOK ==
  /\ listing \in [etag : 1..MaxListing, candidate : MaybeRelease]
  /\ history \subseteq Genuine
  /\ running \in MaybeRelease
  /\ row \in Rows
  /\ manual \in [status : {"none", "pending", "running", "completed", "failed"},
                 asked : 0..MaxListing]
  /\ poller \in Pollers
  /\ woken \in BOOLEAN /\ faults \in 0..MaxFaults

NoRow == [etag |-> 0, asset |-> NoRelease, imported |-> NoRelease, result |-> "none"]
Started == [pc |-> "start", check |-> FALSE, previous |-> NoRow, etag |-> 0,
            candidate |-> NoRelease, result |-> "none", imported |-> NoRelease]

PollerInit ==
  /\ listing = [etag |-> 1, candidate |-> NoRelease]
  /\ history = {} /\ running = NoRelease
  /\ row = NoRow
  /\ manual = [status |-> "none", asked |-> 0]
  /\ poller = Started /\ woken = FALSE
  /\ faults = 0

Fault == faults < MaxFaults /\ faults' = faults + 1

----------------------------------------------------------------------------
(* The world around the poller.                                            *)

(* A release is published, replaced or withdrawn on GitHub.                *)
Relist(r) ==
  /\ listing.etag < MaxListing
  /\ listing' = [etag |-> listing.etag + 1, candidate |-> r]
  /\ UNCHANGED <<history, running, row, manual, poller, woken, faults>>

(* importReleaseBundle: the history after it, and whether it was there.    *)
Importable(r) == r \in Genuine /\ (r > running \/ r \in history)

(* POST /releases/import, with the same importer.                          *)
ImportByHand(r) ==
  /\ Importable(r) /\ r \notin history
  /\ history' = history \cup {r}
  /\ UNCHANGED <<listing, running, row, manual, poller, woken, faults>>

(* The server is updated to an imported release.                           *)
Upgrade(r) ==
  /\ r \in history /\ r > running
  /\ running' = r
  /\ UNCHANGED <<listing, history, row, manual, poller, woken, faults>>

(* POST /releases/github-checks: at most one check pending or running; the *)
(* notification wakes the poller, if it lives.                             *)
RequestCheck ==
  /\ manual.status \notin {"pending", "running"}
  /\ manual' = [status |-> "pending", asked |-> listing.etag]
  /\ woken' = TRUE
  /\ UNCHANGED <<listing, history, running, row, poller, faults>>

----------------------------------------------------------------------------
(* One turn of the poller's loop.                                          *)

(* Mutant: a check left running is not taken up again.                     *)
ClaimPendingOnly ==
  /\ poller.pc = "start"
  /\ LET taken == manual.status = "pending" IN
       /\ manual' = IF taken THEN [manual EXCEPT !.status = "running"] ELSE manual
       /\ poller' = [Started EXCEPT !.pc = "discover", !.check = taken, !.previous = row]
  /\ woken' = FALSE
  /\ UNCHANGED <<listing, history, running, row, faults>>

(* claimGithubUpdateCheck also takes a check left running by a crash; then *)
(* pollGithubUpdates reads its row.                                        *)
ClaimCheck ==
  /\ poller.pc = "start"
  /\ LET taken == manual.status \in {"pending", "running"} IN
       /\ manual' = IF taken THEN [manual EXCEPT !.status = "running"] ELSE manual
       /\ poller' = [Started EXCEPT !.pc = "discover", !.check = taken, !.previous = row]
  /\ woken' = FALSE
  /\ UNCHANGED <<listing, history, running, row, faults>>

Done(result, etag, candidate, imported) ==
  poller' = [poller EXCEPT !.pc = "record", !.result = result, !.etag = etag,
                           !.candidate = candidate, !.imported = imported]

(* discoverGithubUpdate sends the recorded ETag; a candidate seen before,  *)
(* beside an import recorded before, needs no download.                    *)
Discover ==
  /\ poller.pc = "discover"
  /\ LET known == /\ poller.previous.imported # NoRelease
                  /\ poller.previous.asset = listing.candidate IN
     CASE listing.etag = poller.previous.etag ->
            Done("not-modified", listing.etag, NoRelease, NoRelease)
       [] listing.etag # poller.previous.etag /\ listing.candidate = NoRelease ->
            Done("no-candidate", listing.etag, NoRelease, NoRelease)
       [] listing.etag # poller.previous.etag /\ listing.candidate # NoRelease /\ known ->
            Done("already-imported", listing.etag, listing.candidate,
                 poller.previous.imported)
       [] OTHER ->
            poller' = [poller EXCEPT !.pc = "download", !.etag = listing.etag,
                                     !.candidate = listing.candidate]
  /\ UNCHANGED <<listing, history, running, row, manual, woken, faults>>

(* The request to GitHub fails: the previous ETag is kept.                 *)
DiscoverFails ==
  /\ poller.pc = "discover" /\ Fault
  /\ Done("error", poller.previous.etag, NoRelease, NoRelease)
  /\ UNCHANGED <<listing, history, running, row, manual, woken>>

Download ==
  /\ poller.pc = "download"
  /\ poller' = [poller EXCEPT !.pc = "import"]
  /\ UNCHANGED <<listing, history, running, row, manual, woken, faults>>

(* The download or the import fails for a reason that will pass; the new   *)
(* ETag and the candidate are recorded with the error.                     *)
TransferFails ==
  /\ poller.pc \in {"download", "import"} /\ Fault
  /\ Done("error", poller.etag, poller.candidate, NoRelease)
  /\ UNCHANGED <<listing, history, running, row, manual, woken>>

(* importReleaseBundle on the candidate.                                   *)
Import ==
  /\ poller.pc = "import"
  /\ LET r == poller.candidate IN
     IF Importable(r)
     THEN /\ history' = history \cup {r}
          /\ Done(IF r \in history THEN "already-imported" ELSE "imported",
                  poller.etag, r, r)
     ELSE /\ Done("rejected", poller.etag, r, NoRelease)
          /\ UNCHANGED history
  /\ UNCHANGED <<listing, running, row, manual, woken, faults>>

(* SQL COALESCE: a NULL keeps the column.                                  *)
Coalesce(new, old) == IF new # 0 THEN new ELSE old

(* Mutant: an error leaves the result of the last poll in place.           *)
RecordKeepsResult ==
  /\ poller.pc = "record"
  /\ row' = [etag |-> Coalesce(poller.etag, row.etag),
             asset |-> Coalesce(poller.candidate, row.asset),
             imported |-> Coalesce(poller.imported, row.imported),
             result |-> IF poller.result = "error" THEN row.result ELSE poller.result]
  /\ poller' = [poller EXCEPT !.pc = "answer"]
  /\ UNCHANGED <<listing, history, running, manual, woken, faults>>

(* recordPollState, also from the catch block of pollGithubUpdates.        *)
Record ==
  /\ poller.pc = "record"
  /\ row' = [etag |-> Coalesce(poller.etag, row.etag),
             asset |-> Coalesce(poller.candidate, row.asset),
             imported |-> Coalesce(poller.imported, row.imported),
             result |-> poller.result]
  /\ poller' = [poller EXCEPT !.pc = "answer"]
  /\ UNCHANGED <<listing, history, running, manual, woken, faults>>

(* Mutant: a check asked during the poll is answered by it.                *)
AnswerPending ==
  /\ poller.pc = "answer"
  /\ manual' = IF manual.status \in {"pending", "running"}
               THEN [manual EXCEPT !.status = "completed"] ELSE manual
  /\ poller' = [poller EXCEPT !.pc = IF woken THEN "start" ELSE "asleep"]
  /\ UNCHANGED <<listing, history, running, row, woken, faults>>

(* completeGithubUpdateCheck.                                              *)
Answer ==
  /\ poller.pc = "answer"
  /\ manual' = IF poller.check /\ manual.status = "running"
               THEN [manual EXCEPT !.status =
                       IF poller.result \in {"rejected", "error"} THEN "failed"
                       ELSE "completed"]
               ELSE manual
  /\ poller' = [poller EXCEPT !.pc = IF woken THEN "start" ELSE "asleep"]
  /\ UNCHANGED <<listing, history, running, row, woken, faults>>

(* A query fails: the poll, or its answer, is recorded as an error, and a  *)
(* second failure in a row leaves the row, or the check, as it was.        *)
QueryFails ==
  /\ \/ poller.pc = "record"
     \/ poller.pc = "answer" /\ poller.check
  /\ Fault
  /\ poller' = IF poller.result \notin {"rejected", "error"}
               THEN [poller EXCEPT !.result = "error", !.imported = NoRelease]
               ELSE [poller EXCEPT !.pc = CASE poller.pc = "record" -> "answer"
                                            [] woken -> "start"
                                            [] OTHER -> "asleep"]
  /\ UNCHANGED <<listing, history, running, row, manual, woken>>

(* A notification interrupts the sleep.                                    *)
WakeUp ==
  /\ poller.pc = "asleep" /\ woken
  /\ poller' = Started
  /\ UNCHANGED <<listing, history, running, row, manual, woken, faults>>

(* updatePollMinutes have passed.                                          *)
TimerRings ==
  /\ poller.pc = "asleep"
  /\ poller' = Started
  /\ UNCHANGED <<listing, history, running, row, manual, woken, faults>>

(* The process is killed and restarted; notifications are lost meanwhile.  *)
Crash ==
  /\ Fault
  /\ poller' = Started /\ woken' = FALSE
  /\ UNCHANGED <<listing, history, running, row, manual>>

Poll == ClaimCheck \/ Discover \/ Download \/ Import \/ Record \/ Answer \/ WakeUp

PollerNext ==
  \/ \E r \in MaybeRelease : Relist(r)
  \/ \E r \in Releases : ImportByHand(r) \/ Upgrade(r)
  \/ RequestCheck
  \/ Poll \/ TimerRings
  \/ DiscoverFails \/ TransferFails \/ QueryFails \/ Crash

PollerSpec == PollerInit /\ [][PollerNext]_pollerVars

(* The process runs.  The timer, whose period is six hours, is trusted     *)
(* only where a property says so.                                          *)
PollerFairSpec == PollerSpec /\ WF_pollerVars(Poll)
Timer == WF_pollerVars(TimerRings)

----------------------------------------------------------------------------
(* Correctness.                                                            *)

(* What the row calls imported is in the history, the candidate of a poll  *)
(* that reports an import too, even when a crash or a failed query         *)
(* separates the import from its record.                                   *)
ImportedIsStored ==
  /\ PollerTypeOK
  /\ row.imported # NoRelease => row.imported \in history
  /\ row.result = "imported" => row.asset \in history

(* A check answered as completed looked at GitHub after it was asked, even *)
(* when the poller was already in the middle of a poll.                    *)
AnswersAreFresh ==
  [][manual.status # "completed" /\ manual'.status = "completed" =>
       poller.etag >= manual.asked]_pollerVars

(* A check asked for is taken without waiting for the timer, even if its   *)
(* notification is lost; taken, it is answered, if need be by the next     *)
(* turn of the timer.                                                      *)
CheckAnswered ==
  /\ manual.status = "pending" ~> manual.status # "pending"
  /\ Timer => (manual.status = "running" ~> manual.status # "running")
=============================================================================
