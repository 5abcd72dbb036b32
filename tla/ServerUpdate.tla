---------------------------- MODULE ServerUpdate ----------------------------
(***************************************************************************)
(* The application of a server release on the host: requests in the base   *)
(* (studio-routes.mjs, queue_automatic_server_update.sql), the root broker *)
(* that takes them every minute (roomframe-update-broker.sh), the command  *)
(* that swaps the code and rolls it back (roomframe-apply-update.sh),      *)
(* which an operator may also run, and the installer both end with         *)
(* (install.sh).                                                           *)
(*                                                                         *)
(* A version is a number.  Every command that changes the host is a step;  *)
(* it succeeds, or fails with or without its effect, and the process may   *)
(* be killed between two.  Releases are imported and verified already.     *)
(***************************************************************************)
EXTENDS Naturals, Sequences

CONSTANTS
  Installed,     \* the version of the host at first
  Releases,      \* the versions imported
  MaxRequests,   \* bound: rows of server_update_requests
  MaxFaults,     \* bound: failed commands and kills
  MaxSignals     \* bound: signals handled right after the mv of the code

ASSUME UpdateAssumption ==
  /\ Releases \cup {Installed} \subseteq Nat \ {0}
  /\ MaxRequests \in Nat /\ MaxFaults \in Nat /\ MaxSignals \in Nat

VARIABLES
  requests,      \* server_update_requests
  deployed,      \* the releases whose deployed_at is set
  host,          \* install directory, leftovers, runtime.conf, containers,
                 \* state file
  lock,          \* who holds the maintenance lock
  job,           \* the broker, and the command an operator runs
  faults, signals

vars == <<requests, deployed, host, lock, job, faults, signals>>

None == 0
Versions == Releases \cup {Installed, None}
Agents == {"broker", "operator"}
Free == "free"
Forward == {"lock", "verify", "stage", "announce", "down", "swap", "place",
            "install", "start", "record", "finish"}
Back == {"rdown", "rmove", "rplace", "rinstall", "rstart", "rstate"}
Statuses == {"pending", "running", "completed", "failed", "rolled-back"}

Phases == {"off", "queue", "claim", "settle"} \cup Forward \cup Back

Rows == [release : Releases, status : Statuses]
Hosts == [code : Versions, left : SUBSET (Versions \ {None}),
          runtime : Versions \ {None}, stack : Versions,
          file : [release : Versions,
                  status : {"none", "applying", "completed", "failed", "rolled-back"}]]
Jobs == [pc : Phases, row : 0..MaxRequests, release : Versions, current : Versions,
         before : Versions, aside : Versions, candidate : Versions,
         swapped : BOOLEAN, exit : {0, 1, 75}]

TypeOK ==
  /\ requests \in Seq(Rows) /\ Len(requests) <= MaxRequests
  /\ deployed \subseteq Releases
  /\ host \in Hosts
  /\ lock \in Agents \cup {Free, "other"}
  /\ job \in [Agents -> Jobs]
  /\ faults \in 0..MaxFaults /\ signals \in 0..MaxSignals

(* aside and candidate: previous-code and candidate in the staging of the  *)
(* command; current: the version it read in runtime.conf; before: what the *)
(* swap moved, for the properties.                                         *)
Off == [pc |-> "off", row |-> 0, release |-> None, current |-> None,
        before |-> None, aside |-> None, candidate |-> None, swapped |-> FALSE, exit |-> 0]

(* code: the install directory; stack: the version the containers run;     *)
(* left: the codes in the stagings of commands that ended badly.           *)
Init ==
  /\ requests = <<>> /\ deployed = {}
  /\ host = [code |-> Installed, left |-> {}, runtime |-> Installed, stack |-> Installed,
             file |-> [release |-> None, status |-> "none"]]
  /\ lock = Free /\ job = [a \in Agents |-> Off]
  /\ faults = 0 /\ signals = 0

Up == host.stack # None /\ host.code # None
Fault == faults < MaxFaults /\ faults' = faults + 1 /\ UNCHANGED signals
Sound == UNCHANGED <<faults, signals>>
Table == <<requests, deployed>>
Active == \E i \in DOMAIN requests : requests[i].status \in {"pending", "running"}

----------------------------------------------------------------------------
(* Requests: at most one is pending or running.                            *)

Queue(r) ==
  /\ ~ Active /\ r \notin deployed /\ Len(requests) < MaxRequests
  /\ requests' = Append(requests, [release |-> r, status |-> "pending"])

(* POST /releases/:id/server-update-requests.                              *)
Request(r) == Up /\ Queue(r) /\ UNCHANGED <<deployed, host, lock, job, faults, signals>>

(* Another maintenance (backup, restore, installation) takes the lock.     *)
Other ==
  /\ lock \in {Free, "other"}
  /\ lock' = IF lock = Free THEN "other" ELSE Free
  /\ UNCHANGED <<requests, deployed, host, job, faults, signals>>

----------------------------------------------------------------------------
(* The broker.  Its queries go through the containers.                     *)

Goto(a, pc) == [job EXCEPT ![a].pc = pc]

(* Mutant: requests still running are left to another pass.                *)
WakeBlindly ==
  /\ job["broker"].pc = "off" /\ Up
  /\ job' = Goto("broker", "queue")
  /\ UNCHANGED <<requests, deployed, host, lock>> /\ Sound

(* A request still running belongs to a broker that was interrupted.       *)
Wake ==
  /\ job["broker"].pc = "off" /\ Up
  /\ requests' = [i \in DOMAIN requests |->
       IF requests[i].status = "running" THEN [requests[i] EXCEPT !.status = "failed"]
       ELSE requests[i]]
  /\ job' = Goto("broker", "queue")
  /\ UNCHANGED <<deployed, host, lock>> /\ Sound

(* In its window, the automatic policy queues a release never requested.   *)
AutoQueue ==
  /\ job["broker"].pc = "queue"
  /\ \/ Up /\ job' = Goto("broker", "claim")
        /\ \/ UNCHANGED requests
           \/ \E r \in Releases :
                Queue(r) /\ \A i \in DOMAIN requests : requests[i].release # r
     \/ ~ Up /\ job' = Goto("broker", "off") /\ UNCHANGED requests
  /\ UNCHANGED <<deployed, host, lock>> /\ Sound

(* The command sources runtime.conf before it takes the lock.              *)
Starting(release, row) ==
  [Off EXCEPT !.pc = "lock", !.release = release, !.row = row, !.current = host.runtime]

Claim ==
  /\ job["broker"].pc = "claim"
  /\ LET pending == {i \in DOMAIN requests : requests[i].status = "pending"} IN
     IF Up /\ pending # {}
     THEN \E i \in pending :
            /\ requests' = [requests EXCEPT ![i].status = "running"]
            /\ job' = [job EXCEPT !["broker"] = Starting(requests[i].release, i)]
     ELSE job' = Goto("broker", "off") /\ UNCHANGED requests
  /\ UNCHANGED <<deployed, host, lock>> /\ Sound

(* What the broker concludes from the exit status and the state file.      *)
Conclusion ==
  CASE job["broker"].exit = 0 -> "completed"
    [] job["broker"].exit = 75 -> "pending"
    [] job["broker"].exit = 1 /\ host.file = [release |-> job["broker"].release,
                                              status |-> "rolled-back"] -> "rolled-back"
    [] OTHER -> "failed"

Settle ==
  LET row == job["broker"].row
      Settled == [requests EXCEPT ![row].status = IF @ = "running" THEN Conclusion ELSE @]
  IN
  /\ job["broker"].pc = "settle"
  /\ job' = [job EXCEPT !["broker"] = Off]
  /\ \/ Up /\ requests' = Settled /\ Sound
     \/ ~ Up /\ UNCHANGED requests /\ Sound
     \/ Up /\ requests' \in {requests, Settled} /\ Fault
  /\ UNCHANGED <<deployed, host, lock>>

----------------------------------------------------------------------------
(* roomframe-apply-update.                                                 *)

(* An operator applies a release by hand.                                  *)
Operate(r) ==
  /\ job["operator"].pc = "off" /\ Up
  /\ job' = [job EXCEPT !["operator"] = Starting(r, 0)]
  /\ UNCHANGED <<requests, deployed, host, lock>> /\ Sound

(* The command ends; the broker goes on.                                   *)
Exit(a, status) ==
  /\ lock' = IF lock = a THEN Free ELSE lock
  /\ job' = [job EXCEPT ![a] =
       IF a = "operator" THEN Off
       ELSE [Off EXCEPT !.pc = "settle", !.exit = status,
                        !.row = job[a].row, !.release = job[a].release]]

(* What its staging holds is left on the disk.                             *)
Left(h, a) == [h EXCEPT !.left = @ \cup ({job[a].aside, job[a].candidate} \ {None})]

Wrote(h, a, status) == [h EXCEPT !.file = [release |-> job[a].release, status |-> status]]

(* fail: back to the previous code once it was swapped, else the staging   *)
(* is deleted.                                                             *)
Fail(a, h) ==
  IF job[a].swapped
  THEN host' = h /\ job' = Goto(a, "rdown") /\ UNCHANGED lock
  ELSE host' = Wrote(h, a, "failed") /\ Exit(a, 1)

(* A command turns host and job into h and j, or fails leaving one of      *)
(* failed.                                                                 *)
Command(a, here, next, h, j, failed) ==
  /\ job[a].pc = here
  /\ \/ /\ host' = h /\ job' = [job EXCEPT ![a] = [j EXCEPT !.pc = next]]
        /\ UNCHANGED lock /\ Sound
     \/ (\E g \in failed : Fail(a, g)) /\ Fault
  /\ UNCHANGED Table

(* Mutant: flock is not asked whether it got the lock.                     *)
AcquireAnyway(a) ==
  /\ job[a].pc = "lock"
  /\ lock' = a /\ job' = Goto(a, "verify")
  /\ UNCHANGED <<requests, deployed, host>> /\ Sound

Acquire(a) ==
  /\ job[a].pc = "lock" /\ lock = Free
  /\ lock' = a /\ job' = Goto(a, "verify")
  /\ UNCHANGED <<requests, deployed, host>> /\ Sound

Busy(a) ==
  /\ job[a].pc = "lock" /\ lock # Free
  /\ Exit(a, 75)
  /\ UNCHANGED <<requests, deployed, host>> /\ Sound

(* The database is read, and only a version above the current one passes.  *)
Verify(a) ==
  /\ job[a].pc = "verify"
  /\ IF Up /\ job[a].release > job[a].current
     THEN job' = Goto(a, "stage") /\ UNCHANGED <<host, lock>>
     ELSE Fail(a, host)
  /\ UNCHANGED <<requests, deployed>> /\ Sound

(* Extraction, images, backup and its verification.                        *)
Stage(a) ==
  Command(a, "stage", "announce", host, [job[a] EXCEPT !.candidate = job[a].release], {host})

Announce(a) ==
  Command(a, "announce", "down", Wrote(host, a, "applying"), job[a],
          {host, Wrote(host, a, "applying")})

Down(a) ==
  LET down == [host EXCEPT !.stack = None] IN
  Command(a, "down", "swap", down, job[a], {host, down})

(* mv of the code, then CODE_SWAPPED=1; the trap of a signal runs between. *)
Swap(a) ==
  LET moved == [host EXCEPT !.code = None] IN
  /\ job[a].pc = "swap"
  /\ \/ /\ host' = moved /\ UNCHANGED lock /\ Sound
        /\ job' = [job EXCEPT ![a].pc = "place", ![a].aside = host.code,
                              ![a].before = host.code, ![a].swapped = TRUE]
     \/ Fail(a, host) /\ Fault
     \/ /\ signals < MaxSignals /\ signals' = signals + 1
        /\ Fail(a, moved) /\ UNCHANGED faults
  /\ UNCHANGED Table

Place(a) ==
  Command(a, "place", "install", [host EXCEPT !.code = job[a].candidate],
          [job[a] EXCEPT !.candidate = None], {host})

(* install.sh writes runtime.conf...                                       *)
Install(a) ==
  LET written == [host EXCEPT !.runtime = host.code] IN
  Command(a, "install", "start", written, job[a], {host, written})

(* ... and starts the containers, migrates and checks their health.        *)
Start(a) ==
  Command(a, "start", "record", [host EXCEPT !.stack = host.code], job[a],
          {[host EXCEPT !.stack = None], [host EXCEPT !.stack = host.code]})

(* The archive of the old code, then two statements in one psql, each of   *)
(* which commits.                                                          *)
Record(a) ==
  LET recorded == deployed \cup {job[a].release} IN
  /\ job[a].pc = "record"
  /\ \/ deployed' = recorded /\ job' = Goto(a, "finish") /\ UNCHANGED <<host, lock>> /\ Sound
     \/ deployed' \in {deployed, recorded} /\ Fail(a, host) /\ Fault
  /\ UNCHANGED requests

(* CODE_SWAPPED=0, the state file and the clean-up.                        *)
Finish(a) ==
  /\ job[a].pc = "finish"
  /\ \/ host' = Wrote(host, a, "completed") /\ Exit(a, 0) /\ Sound
     \/ host' = Wrote(host, a, "failed") /\ Exit(a, 1) /\ Fault
  /\ UNCHANGED Table

----------------------------------------------------------------------------
(* rollback_code.                                                          *)

(* A command of the rollback; when it fails the staging is left as it is.  *)
Undo(a, here, next, h, j, failed) ==
  /\ job[a].pc = here
  /\ \/ /\ host' = h /\ job' = [job EXCEPT ![a] = [j EXCEPT !.pc = next]]
        /\ UNCHANGED lock /\ Sound
     \/ /\ \E g \in failed : host' = Left(Wrote(g, a, "failed"), a)
        /\ Exit(a, 1) /\ Fault
  /\ UNCHANGED Table

(* The containers of the new code are stopped if they can be.              *)
UndoDown(a) ==
  /\ job[a].pc = "rdown"
  /\ \/ host' = [host EXCEPT !.stack = None] /\ Sound
     \/ UNCHANGED host /\ Fault
  /\ job' = Goto(a, "rmove")
  /\ UNCHANGED <<requests, deployed, lock>>

(* The failed code goes to failed-code, beside previous-code.              *)
UndoMove(a) ==
  Undo(a, "rmove", "rplace", [host EXCEPT !.code = None],
       [job[a] EXCEPT !.candidate = IF host.code = None THEN @ ELSE host.code], {host})

UndoPlace(a) ==
  Undo(a, "rplace", "rinstall", [host EXCEPT !.code = job[a].aside],
       [job[a] EXCEPT !.aside = None], {host})

(* Mutant: the old code is started on the settings of the new one.         *)
UndoInstallless(a) == Undo(a, "rinstall", "rstart", host, job[a], {host})

UndoInstall(a) ==
  LET written == [host EXCEPT !.runtime = host.code] IN
  Undo(a, "rinstall", "rstart", written, job[a], {host, written})

UndoStart(a) ==
  Undo(a, "rstart", "rstate", [host EXCEPT !.stack = host.code], job[a],
       {[host EXCEPT !.stack = None], [host EXCEPT !.stack = host.code]})

(* Mutant: a rollback that went well ends with 0.                          *)
UndoStateQuietly(a) ==
  /\ job[a].pc = "rstate"
  /\ host' = Wrote(host, a, "rolled-back") /\ Exit(a, 0)
  /\ UNCHANGED <<requests, deployed>> /\ Sound

UndoState(a) ==
  /\ job[a].pc = "rstate"
  /\ \/ host' = Wrote(host, a, "rolled-back") /\ Sound
     \/ UNCHANGED host /\ Fault
  /\ Exit(a, 1)
  /\ UNCHANGED Table

----------------------------------------------------------------------------
(* A process is killed, the broker together with the command it runs.      *)
Kill(a) ==
  /\ job[a].pc # "off" /\ Fault
  /\ host' = Left(host, a)
  /\ job' = [job EXCEPT ![a] = Off]
  /\ lock' = IF lock = a THEN Free ELSE lock
  /\ UNCHANGED <<requests, deployed>>

(* An operator runs install.sh again on the code in place.                 *)
Reinstall ==
  /\ lock = Free /\ host.code # None
  /\ host' = [host EXCEPT !.runtime = host.code, !.stack = host.code]
  /\ UNCHANGED <<requests, deployed, lock, job>> /\ Sound

Apply(a) ==
  \/ Verify(a) \/ Stage(a) \/ Announce(a) \/ Down(a) \/ Swap(a) \/ Place(a)
  \/ Install(a) \/ Start(a) \/ Record(a) \/ Finish(a)
  \/ UndoDown(a) \/ UndoMove(a) \/ UndoPlace(a) \/ UndoInstall(a) \/ UndoStart(a)
  \/ UndoState(a)

Next ==
  \/ \E r \in Releases : Request(r) \/ Operate(r)
  \/ Other \/ Reinstall \/ Wake \/ AutoQueue \/ Claim \/ Settle
  \/ \E a \in Agents : Acquire(a) \/ Busy(a) \/ Apply(a) \/ Kill(a)

Spec == Init /\ [][Next]_vars

(* systemd runs the broker every minute, and the commands it runs end.     *)
FairSpec ==
  /\ Spec
  /\ WF_vars(Wake) /\ WF_vars(AutoQueue) /\ WF_vars(Claim) /\ WF_vars(Settle)
  /\ \A a \in Agents : WF_vars(Apply(a)) /\ WF_vars(Acquire(a) \/ Busy(a))

----------------------------------------------------------------------------
(* Correctness.                                                            *)

(* A request is completed only after its release was recorded, and the     *)
(* state file says completed only with the release in place, its settings  *)
(* and its containers included.                                            *)
CompletedIsInstalled ==
  /\ \A i \in DOMAIN requests : requests[i].status = "completed" =>
       requests[i].release \in deployed
  /\ host.file.status = "completed" =>
       {host.code, host.runtime, host.stack} = {host.file.release}

(* docs/INSTALLATION.md: a failure after the swap installs the previous    *)
(* code again.  Then an update said to be rolled back left the host as it  *)
(* was before, settings and containers included.                           *)
RolledBackIsPrevious ==
  [][host.file.status # "rolled-back" /\ host'.file.status = "rolled-back" =>
       \E a \in Agents : {host'.code, host'.runtime, host'.stack} = {job[a].before}]_vars

(* Wherever the update stops, an installation is on the disk, in place or  *)
(* in a staging; the one exception is a signal right after the mv.         *)
CodeKept ==
  \/ host.code # None \/ host.left # {} \/ signals > 0
  \/ \E a \in Agents : job[a].aside # None

InState(i, statuses) == i \in DOMAIN requests /\ requests[i].status \in statuses

(* A request is settled, as long as the containers come up again and no    *)
(* other maintenance is always in the way: neither a kill nor a busy lock  *)
(* leaves it pending or running for good.                                  *)
RequestsSettle ==
  []<>Up /\ <>[](lock \in {Free, "broker"}) =>
    \A i \in 1..MaxRequests :
      InState(i, {"pending", "running"}) ~> InState(i, {"completed", "failed", "rolled-back"})

----------------------------------------------------------------------------
(* The inductive invariant of ServerUpdateProofs.                          *)

(* The places in the script: under the lock; before the swap; with the     *)
(* previous code aside; with the new code in place; with the old one back. *)
Holding == (Forward \ {"lock"}) \cup Back
Checked == {"stage", "announce", "down", "swap"}
Swapped == {"place", "install", "start", "record", "rdown", "rmove", "rplace"}
Placed == {"install", "start", "record", "finish"}
Restored == {"rinstall", "rstart", "rstate"}
Announced == {"down", "swap", "finish"} \cup Swapped \cup Restored

(* A command in the script holds the lock, and its previous code is aside  *)
(* exactly between the two moves.                                          *)
HoldInv(a) ==
  /\ job[a].pc \in Holding => lock = a
  /\ job[a].pc \in {"lock"} \cup Holding =>
       job[a].release \in Releases /\ job[a].release # None
  /\ job[a].pc \in Swapped =>
       job[a].swapped /\ job[a].aside # None /\ job[a].aside = job[a].before
  /\ job[a].swapped => job[a].pc \in Swapped \cup {"finish"} \cup Restored
  /\ job[a].aside # None => job[a].pc \in Swapped \cup {"finish"}

(* What it knows of the host, by its place.                                *)
PlaceInv(a) ==
  /\ job[a].pc \in Checked \cup Placed \cup Restored => host.code # None
  /\ job[a].pc \in {"announce", "down", "swap", "place"} =>
       job[a].candidate = job[a].release
  /\ job[a].pc \in Placed => host.code = job[a].release
  /\ job[a].pc \in Restored => host.code = job[a].before
  /\ job[a].pc \in {"start", "record", "finish", "rstart", "rstate"} =>
       host.runtime = host.code
  /\ job[a].pc \in {"record", "finish", "rstate"} => host.stack = host.code
  /\ job[a].pc = "finish" => job[a].release \in deployed

(* The broker settles the request it claimed, and by its own release.      *)
RowInv ==
  LET b == job["broker"] IN
  /\ b.pc \in {"lock", "settle"} \cup Holding =>
       b.row \in DOMAIN requests /\ requests[b.row].release = b.release
  /\ b.pc = "settle" /\ b.exit = 0 => b.release \in deployed

(* No command changes the host while the state file says completed.        *)
FileInv ==
  host.file.status = "completed" => \A a \in Agents : job[a].pc \notin Announced

(* Failures, kills, reinstallations and the other command never take a     *)
(* command out of what it relies on at its place, back and forth.          *)
IInv ==
  /\ TypeOK /\ CodeKept /\ CompletedIsInstalled
  /\ RowInv /\ FileInv
  /\ \A a \in Agents : HoldInv(a) /\ PlaceInv(a)
=============================================================================
