------------------------- MODULE ServerUpdateProofs -------------------------
(***************************************************************************)
(* Proofs about ServerUpdate, for any releases and any number of requests, *)
(* failed commands, kills and signals.                                     *)
(***************************************************************************)
EXTENDS ServerUpdate, SequenceTheorems, TLAPS

(* The state file is right.                                                *)
Truthful ==
  host.file.status = "completed" =>
    {host.code, host.runtime, host.stack} = {host.file.release}

----------------------------------------------------------------------------
(* Type correctness.                                                       *)

(* A sequence changed in place is one of the same length.                  *)
LEMMA ChangedSeq ==
  ASSUME NEW S, NEW s \in Seq(S), NEW f,
         f = [i \in DOMAIN s |-> f[i]], \A i \in DOMAIN s : f[i] \in S
  PROVE  f \in Seq(S) /\ Len(f) = Len(s) /\ DOMAIN f = DOMAIN s
<1> DEFINE n == Len(s)
<1>1. n \in Nat /\ DOMAIN s = 1..n
  BY LenProperties
<1>2. f \in [1..n -> S]
  BY <1>1
<1>3. f \in Seq(S)
  BY <1>1, <1>2
<1>4. Len(f) \in Nat /\ DOMAIN f = 1..Len(f) /\ DOMAIN f = 1..n
  BY <1>1, <1>2, <1>3, LenProperties
<1> QED
  BY <1>1, <1>3, <1>4

(* A job sent to another place.                                            *)
LEMMA GotoType ==
  ASSUME TypeOK, NEW a \in Agents, NEW p \in Phases
  PROVE  /\ Goto(a, p) \in [Agents -> Jobs]
         /\ Goto(a, p)[a] = [job[a] EXCEPT !.pc = p]
         /\ \A b \in Agents \ {a} : Goto(a, p)[b] = job[b]
  BY DEF TypeOK, Goto, Jobs

(* The end of a command; the broker keeps the request it settles.           *)
LEMMA ExitType ==
  ASSUME TypeOK, NEW a \in Agents, NEW status \in {0, 1, 75}, Exit(a, status)
  PROVE  /\ job' \in [Agents -> Jobs] /\ lock' \in Agents \cup {Free, "other"}
         /\ \A b \in Agents \ {a} : job'[b] = job[b]
         /\ job'[a].pc \in {"off", "settle"}
         /\ job'[a].swapped = FALSE /\ job'[a].aside = None
         /\ job'[a].pc = "settle" =>
              /\ a = "broker" /\ job'[a].exit = status
              /\ job'[a].row = job[a].row /\ job'[a].release = job[a].release
<1>1. Off \in Jobs
  BY UpdateAssumption DEF Off, Jobs, Phases, Versions
<1> QED
  BY <1>1, UpdateAssumption DEF Exit, TypeOK, Off, Jobs, Phases, Agents

(* The state file is written, and nothing else.                             *)
LEMMA WroteType ==
  ASSUME TypeOK, NEW a \in Agents, NEW h \in Hosts,
         NEW status \in {"applying", "completed", "failed", "rolled-back"}
  PROVE  /\ Wrote(h, a, status) \in Hosts
         /\ Wrote(h, a, status).file = [release |-> job[a].release, status |-> status]
         /\ Wrote(h, a, status).code = h.code /\ Wrote(h, a, status).left = h.left
         /\ Wrote(h, a, status).runtime = h.runtime /\ Wrote(h, a, status).stack = h.stack
  BY DEF TypeOK, Wrote, Hosts, Jobs

(* What is left of a command holds the previous code if it was aside.       *)
LEMMA LeftType ==
  ASSUME TypeOK, NEW a \in Agents, NEW h \in Hosts
  PROVE  /\ Left(h, a) \in Hosts
         /\ Left(h, a).code = h.code /\ Left(h, a).file = h.file
         /\ Left(h, a).runtime = h.runtime /\ Left(h, a).stack = h.stack
         /\ h.left \subseteq Left(h, a).left
         /\ job[a].aside # None => Left(h, a).left # {}
<1> DEFINE aside == {job[a].aside, job[a].candidate} \ {None}
<1>1. aside \subseteq Versions \ {None} /\ (job[a].aside # None => aside # {})
  BY DEF TypeOK, Jobs
<1>2. h.left \cup aside \subseteq Versions \ {None}
  BY <1>1 DEF Hosts
<1>3. Left(h, a) = [h EXCEPT !.left = h.left \cup aside]
  BY DEF Left
<1> HIDE DEF aside
<1>4. Left(h, a) \in Hosts /\ Left(h, a).left = h.left \cup aside
  BY <1>2, <1>3 DEF Hosts
<1>5. /\ Left(h, a).code = h.code /\ Left(h, a).file = h.file
      /\ Left(h, a).runtime = h.runtime /\ Left(h, a).stack = h.stack
  BY <1>3 DEF Hosts
<1> QED
  BY <1>1, <1>4, <1>5

(* fail: the rollback begins, or the command ends.                         *)
LEMMA FailType ==
  ASSUME TypeOK, NEW a \in Agents, NEW h \in Hosts, Fail(a, h)
  PROVE  /\ host' \in Hosts /\ job' \in [Agents -> Jobs]
         /\ lock' \in Agents \cup {Free, "other"}
         /\ host'.code = h.code /\ host'.left = h.left
         /\ host'.runtime = h.runtime /\ host'.stack = h.stack
         /\ \A b \in Agents \ {a} : job'[b] = job[b]
         /\ job[a].swapped =>
              host'.file = h.file /\ lock' = lock /\ job'[a] = [job[a] EXCEPT !.pc = "rdown"]
         /\ ~ job[a].swapped =>
              /\ host'.file.status = "failed" /\ job'[a].pc \in {"off", "settle"}
              /\ job'[a].swapped = FALSE /\ job'[a].aside = None
              /\ job'[a].pc = "settle" =>
                   /\ a = "broker" /\ job'[a].exit = 1
                   /\ job'[a].row = job[a].row /\ job'[a].release = job[a].release
<1>1. CASE job[a].swapped
  <2>1. "rdown" \in Phases
    BY DEF Phases, Back
  <2>2. host' = h /\ job' = Goto(a, "rdown") /\ lock' = lock
    BY <1>1 DEF Fail
  <2> QED
    BY <1>1, <2>1, <2>2, GotoType DEF TypeOK
<1>2. CASE ~ job[a].swapped
  <2>1. host' = Wrote(h, a, "failed") /\ Exit(a, 1)
    BY <1>2 DEF Fail
  <2> QED
    <3>1. /\ host' \in Hosts
          /\ host'.code = h.code /\ host'.left = h.left
          /\ host'.runtime = h.runtime /\ host'.stack = h.stack
          /\ host'.file = [release |-> job[a].release, status |-> "failed"]
      BY <2>1, WroteType
    <3>2. 1 \in {0, 1, 75}
      OBVIOUS
    <3>3. /\ job' \in [Agents -> Jobs] /\ lock' \in Agents \cup {Free, "other"}
          /\ \A b \in Agents \ {a} : job'[b] = job[b]
          /\ job'[a].pc \in {"off", "settle"}
          /\ job'[a].swapped = FALSE /\ job'[a].aside = None
          /\ job'[a].pc = "settle" =>
               /\ a = "broker" /\ job'[a].exit = 1
               /\ job'[a].row = job[a].row /\ job'[a].release = job[a].release
      BY <2>1, <3>2, ExitType
    <3>4. host'.file.status = "failed"
      BY <3>1
    <3> QED
      BY <1>2, <3>1, <3>3, <3>4
<1> QED
  BY <1>1, <1>2

(* A failure itself moves no code.                                          *)
LEMMA FailKeeps ==
  ASSUME TypeOK, NEW a \in Agents
  PROVE  \A h \in Hosts : Fail(a, h) => host'.code = h.code /\ host'.left = h.left
<1>1. ASSUME NEW h \in Hosts, Fail(a, h)
      PROVE  host'.code = h.code /\ host'.left = h.left
  <2>1. Wrote(h, a, "failed").code = h.code /\ Wrote(h, a, "failed").left = h.left
    BY WroteType
  <2>2. host' = h \/ host' = Wrote(h, a, "failed")
    BY <1>1 DEF Fail
  <2> QED
    BY <2>1, <2>2
<1> QED
  BY <1>1

(* A command of the script, and one of its rollback.                       *)
LEMMA CommandType ==
  ASSUME TypeOK, NEW a \in Agents, NEW here, NEW next \in Phases, NEW h \in Hosts,
         NEW j \in Jobs, NEW failed \in SUBSET Hosts,
         Command(a, here, next, h, j, failed)
  PROVE  /\ TypeOK' /\ requests' = requests /\ deployed' = deployed /\ signals' = signals
         /\ job[a].pc = here
         /\ \A b \in Agents \ {a} : job'[b] = job[b]
         /\ \/ host' = h /\ job'[a] = [j EXCEPT !.pc = next] /\ lock' = lock
            \/ \E g \in failed : Fail(a, g)
<1>1. /\ requests' = requests /\ deployed' = deployed /\ signals' = signals
      /\ job[a].pc = here /\ faults' \in 0..MaxFaults
  BY UpdateAssumption DEF Command, Table, Sound, Fault, TypeOK
<1>2. CASE host' = h /\ job' = [job EXCEPT ![a] = [j EXCEPT !.pc = next]] /\ lock' = lock
  <2>1. [j EXCEPT !.pc = next] \in Jobs
    BY DEF Jobs
  <2> QED
    BY <1>1, <1>2, <2>1 DEF TypeOK
<1>3. ASSUME NEW g \in failed, Fail(a, g)
      PROVE  TypeOK' /\ \A b \in Agents \ {a} : job'[b] = job[b]
  <2>1. g \in Hosts
    OBVIOUS
  <2>2. /\ host' \in Hosts /\ job' \in [Agents -> Jobs]
        /\ lock' \in Agents \cup {Free, "other"}
        /\ \A b \in Agents \ {a} : job'[b] = job[b]
    BY <1>3, <2>1, FailType
  <2> QED
    BY <1>1, <2>2 DEF TypeOK
<1> QED
  BY <1>1, <1>2, <1>3 DEF Command

(* A command of the rollback.                                               *)
LEMMA UndoType ==
  ASSUME TypeOK, NEW a \in Agents, NEW here, NEW next \in Phases, NEW h \in Hosts,
         NEW j \in Jobs, NEW failed \in SUBSET Hosts,
         Undo(a, here, next, h, j, failed)
  PROVE  /\ TypeOK' /\ requests' = requests /\ deployed' = deployed /\ signals' = signals
         /\ job[a].pc = here
         /\ \A b \in Agents \ {a} : job'[b] = job[b]
         /\ \/ host' = h /\ job'[a] = [j EXCEPT !.pc = next] /\ lock' = lock
            \/ /\ Exit(a, 1) /\ host'.file.status = "failed"
               /\ \E g \in failed :
                    host'.code = g.code /\ (job[a].aside # None => host'.left # {})
<1>1. /\ requests' = requests /\ deployed' = deployed /\ signals' = signals
      /\ job[a].pc = here /\ faults' \in 0..MaxFaults
  BY UpdateAssumption DEF Undo, Table, Sound, Fault, TypeOK
<1>2. CASE host' = h /\ job' = [job EXCEPT ![a] = [j EXCEPT !.pc = next]] /\ lock' = lock
  <2>1. [j EXCEPT !.pc = next] \in Jobs
    BY DEF Jobs
  <2> QED
    BY <1>1, <1>2, <2>1 DEF TypeOK
<1>3. ASSUME NEW g \in failed, host' = Left(Wrote(g, a, "failed"), a), Exit(a, 1)
      PROVE  /\ TypeOK' /\ \A b \in Agents \ {a} : job'[b] = job[b]
             /\ host'.file.status = "failed" /\ host'.code = g.code
             /\ job[a].aside # None => host'.left # {}
  <2>1. g \in Hosts
    OBVIOUS
  <2>2. /\ Wrote(g, a, "failed") \in Hosts /\ Wrote(g, a, "failed").code = g.code
        /\ Wrote(g, a, "failed").file = [release |-> job[a].release, status |-> "failed"]
    BY <2>1, WroteType
  <2>3. /\ host' \in Hosts /\ host'.code = g.code
        /\ host'.file = [release |-> job[a].release, status |-> "failed"]
        /\ job[a].aside # None => host'.left # {}
    BY <1>3, <2>2, LeftType
  <2>4. /\ job' \in [Agents -> Jobs] /\ lock' \in Agents \cup {Free, "other"}
        /\ \A b \in Agents \ {a} : job'[b] = job[b]
    BY <1>3, ExitType
  <2>5. host'.file.status = "failed"
    BY <2>3
  <2> QED
    BY <1>1, <2>3, <2>4, <2>5 DEF TypeOK
<1> QED
  BY <1>1, <1>2, <1>3 DEF Undo

----------------------------------------------------------------------------
(* The inductive invariant.                                                *)

(* While a command holds the lock, nothing is known of the other one.      *)
LEMMA Others ==
  ASSUME IInv, NEW a \in Agents, NEW b \in Agents \ {a}, lock = a, job'[b] = job[b]
  PROVE  HoldInv(b)' /\ PlaceInv(b)' /\ job'[b].pc \notin Announced
<1>1. job[b].pc \notin Holding /\ ~ job[b].swapped
  BY DEF IInv, HoldInv, Holding, Forward, Back, Swapped, Restored
<1> QED
  BY <1>1 DEF IInv, HoldInv, PlaceInv, Holding, Forward, Back, Swapped, Restored, Placed,
     Checked, Announced

(* What is left to show of a step of the command that holds the lock.      *)
LEMMA Joined ==
  ASSUME IInv, NEW a \in Agents, lock = a, TypeOK',
         \A b \in Agents \ {a} : job'[b] = job[b],
         requests' = requests, deployed \subseteq deployed',
         HoldInv(a)', PlaceInv(a)', CodeKept',
         host'.file.status = "completed" =>
           /\ job'[a].pc \notin Announced
           /\ {host'.code, host'.runtime, host'.stack} = {host'.file.release},
         \/ job'[a].pc = "off"
         \/ /\ job'[a].row = job[a].row /\ job'[a].release = job[a].release
            /\ job[a].pc \in Holding
            /\ job'[a].pc = "settle" /\ job'[a].exit = 0 => job'[a].release \in deployed'
  PROVE  IInv'
<1>1. \A b \in Agents \ {a} : HoldInv(b)' /\ PlaceInv(b)' /\ job'[b].pc \notin Announced
  BY Others
<1>2. FileInv'
  BY <1>1 DEF FileInv
<1>3. CompletedIsInstalled'
  BY DEF CompletedIsInstalled, IInv
<1>4. RowInv'
  <2>1. CASE a = "broker"
    BY <2>1 DEF RowInv, IInv, Holding, Forward, Back
  <2>2. CASE a # "broker"
    <3>1. job'["broker"] = job["broker"]
      BY <2>2 DEF Agents
    <3> QED
      BY <3>1 DEF RowInv, IInv
  <2> QED
    BY <2>1, <2>2
<1> QED
  BY <1>1, <1>2, <1>3, <1>4 DEF IInv

(* What a command does when it succeeds.                                   *)
Advanced(a, next, h, j) ==
  /\ TypeOK' /\ requests' = requests /\ deployed' = deployed
  /\ host' = h /\ job'[a] = [j EXCEPT !.pc = next] /\ lock' = lock /\ lock = a
  /\ \A b \in Agents \ {a} : job'[b] = job[b]

(* Such a step keeps the invariant if what it touches does.                 *)
LEMMA AdvancedStep ==
  ASSUME IInv, NEW a \in Agents, NEW next \in Phases \ {"settle"}, NEW h, NEW j \in Jobs,
         Advanced(a, next, h, j), job[a].pc \in Holding,
         j.row = job[a].row, j.release = job[a].release,
         HoldInv(a)', PlaceInv(a)', CodeKept',
         h.file.status = "completed" =>
           next \notin Announced /\ {h.code, h.runtime, h.stack} = {h.file.release}
  PROVE  IInv'
<1>1. /\ job'[a].pc = next /\ job'[a].row = job[a].row /\ job'[a].release = job[a].release
  BY DEF Advanced, Jobs
<1> QED
  BY <1>1, Joined DEF Advanced

(* A command fails: its rollback begins, or nothing was swapped yet.       *)
LEMMA FailStep ==
  ASSUME IInv, NEW a \in Agents, NEW h \in Hosts, Fail(a, h), TypeOK',
         job[a].pc \in Holding \ ({"finish"} \cup Restored),
         requests' = requests, deployed \subseteq deployed',
         job[a].swapped => h.file = host.file,
         job[a].swapped \/ CodeKept'
  PROVE  IInv'
<1>1. lock = a
  BY DEF IInv, HoldInv
<1>t. TypeOK
  BY DEF IInv
<1>2. \A b \in Agents \ {a} : job'[b] = job[b]
  BY <1>t, FailType
<1>3. CASE job[a].swapped
  <2>0. host'.file = h.file /\ lock' = lock /\ job'[a] = [job[a] EXCEPT !.pc = "rdown"]
    BY <1>t, <1>3, FailType
  <2>1. job[a].pc \in Swapped
    BY <1>3 DEF IInv, HoldInv
  <2>2. /\ job[a] \in Jobs /\ job'[a] = [job[a] EXCEPT !.pc = "rdown"]
        /\ host'.file = host.file /\ lock' = a
    BY <1>1, <1>3, <2>0 DEF IInv, TypeOK
  <2>3. HoldInv(a)' /\ PlaceInv(a)'
    BY <2>1, <2>2, <1>3 DEF IInv, HoldInv, PlaceInv, Jobs, Holding, Forward, Back, Swapped,
       Checked, Placed, Restored
  <2>4. CodeKept'
    BY <2>1, <2>2 DEF IInv, HoldInv, CodeKept, Jobs
  <2>5. host'.file.status # "completed"
    BY <2>1, <2>2 DEF IInv, FileInv, Announced
  <2>6. job'[a].row = job[a].row /\ job'[a].release = job[a].release /\ job'[a].pc = "rdown"
    BY <2>2 DEF Jobs
  <2> QED
    BY <1>1, <1>2, <2>3, <2>4, <2>5, <2>6, Joined
<1>4. CASE ~ job[a].swapped
  <2>0. /\ host'.file.status = "failed" /\ job'[a].pc \in {"off", "settle"}
        /\ job'[a].swapped = FALSE /\ job'[a].aside = None
        /\ job'[a].pc = "settle" =>
             /\ a = "broker" /\ job'[a].exit = 1
             /\ job'[a].row = job[a].row /\ job'[a].release = job[a].release
    BY <1>t, <1>4, FailType
  <2>1. HoldInv(a)' /\ PlaceInv(a)'
    BY <1>2, <2>0 DEF HoldInv, PlaceInv, Holding, Forward, Back, Swapped, Checked, Placed, Restored
  <2> QED
    BY <1>1, <1>2, <1>4, <2>0, <2>1, Joined
<1> QED
  BY <1>3, <1>4

(* A command that fails keeps the invariant; it remains to look at the one *)
(* that succeeds.                                                          *)
LEMMA CommandStep ==
  ASSUME IInv, NEW a \in Agents, NEW here \in Checked \cup Swapped, NEW next \in Phases,
         NEW h \in Hosts, NEW j \in Jobs, NEW failed \in SUBSET Hosts,
         Command(a, here, next, h, j, failed),
         \A g \in failed : g.code = host.code /\ (job[a].swapped => g.file = host.file)
  PROVE  IInv' \/ Advanced(a, next, h, j)
<1>0. TypeOK
  BY DEF IInv
<1>1. /\ TypeOK' /\ requests' = requests /\ deployed' = deployed /\ signals' = signals
      /\ job[a].pc = here
      /\ \A b \in Agents \ {a} : job'[b] = job[b]
      /\ \/ host' = h /\ job'[a] = [j EXCEPT !.pc = next] /\ lock' = lock
         \/ \E g \in failed : Fail(a, g)
  BY <1>0, CommandType
<1>2. here \in Holding \ ({"finish"} \cup Restored)
  BY DEF Checked, Swapped, Holding, Forward, Back, Restored
<1>3. lock = a
  BY <1>1, <1>2 DEF IInv, HoldInv
<1>4. ASSUME NEW g \in failed, Fail(a, g)
      PROVE  IInv'
  <2>1. g \in Hosts /\ g.code = host.code /\ (job[a].swapped => g.file = host.file)
    OBVIOUS
  <2>2. job[a].swapped \/ CodeKept'
    <3>1. host'.code = g.code
      BY <1>0, <1>4, <2>1, FailKeeps, Zenon
    <3>2. CASE ~ job[a].swapped
      <4>1. here \in Checked
        BY <1>1, <3>2 DEF IInv, HoldInv
      <4> QED
        BY <1>1, <2>1, <3>1, <4>1 DEF IInv, PlaceInv, CodeKept
    <3> QED
      BY <3>2
  <2> QED
    BY <1>1, <1>2, <1>4, <2>1, <2>2, FailStep
<1> QED
  BY <1>1, <1>3, <1>4 DEF Advanced

(* So does a command of the rollback that fails.                           *)
LEMMA UndoStep ==
  ASSUME IInv, NEW a \in Agents, NEW here \in Swapped \cup Restored, NEW next \in Phases,
         NEW h \in Hosts, NEW j \in Jobs, NEW failed \in SUBSET Hosts,
         Undo(a, here, next, h, j, failed),
         \A g \in failed : g.code = host.code
  PROVE  IInv' \/ Advanced(a, next, h, j)
<1>0. TypeOK
  BY DEF IInv
<1>1. /\ TypeOK' /\ requests' = requests /\ deployed' = deployed /\ signals' = signals
      /\ job[a].pc = here
      /\ \A b \in Agents \ {a} : job'[b] = job[b]
      /\ \/ host' = h /\ job'[a] = [j EXCEPT !.pc = next] /\ lock' = lock
         \/ /\ Exit(a, 1) /\ host'.file.status = "failed"
            /\ \E g \in failed :
                 host'.code = g.code /\ (job[a].aside # None => host'.left # {})
  BY <1>0, UndoType
<1>2. here \in Holding
  BY DEF Swapped, Holding, Forward, Back, Restored
<1>3. lock = a
  BY <1>1, <1>2 DEF IInv, HoldInv
<1>4. ASSUME Exit(a, 1), host'.file.status = "failed",
             NEW g \in failed, host'.code = g.code, job[a].aside # None => host'.left # {}
      PROVE  IInv'
  <2>1. CodeKept'
    BY <1>1, <1>4 DEF IInv, HoldInv, PlaceInv, CodeKept
  <2>2. 1 \in {0, 1, 75}
    OBVIOUS
  <2>3. /\ job'[a].pc \in {"off", "settle"} /\ job'[a].swapped = FALSE /\ job'[a].aside = None
        /\ job'[a].pc = "settle" =>
             /\ a = "broker" /\ job'[a].exit = 1
             /\ job'[a].row = job[a].row /\ job'[a].release = job[a].release
    BY <1>0, <1>4, <2>2, ExitType
  <2>4. HoldInv(a)' /\ PlaceInv(a)'
    BY <2>3 DEF HoldInv, PlaceInv, Holding, Forward, Back, Swapped, Checked, Placed, Restored
  <2> QED
    BY <1>1, <1>2, <1>3, <1>4, <2>1, <2>3, <2>4, Joined
<1> QED
  BY <1>1, <1>3, <1>4 DEF Advanced

(* The version read before the lock was acquired leaves the code in place.  *)
LEMMA VerifyStep ==
  ASSUME IInv, NEW a \in Agents, Verify(a)
  PROVE  IInv'
<1>1. /\ TypeOK /\ job[a] \in Jobs /\ job[a].pc = "verify" /\ ~ job[a].swapped /\ lock = a
      /\ host \in Hosts
  BY DEF IInv, TypeOK, HoldInv, Verify, Holding, Forward, Swapped, Restored, Back
<1>2. CASE Up /\ job' = Goto(a, "stage") /\ host' = host /\ lock' = lock
  <2>1. "stage" \in Phases
    BY DEF Phases, Forward
  <2>2. /\ job' \in [Agents -> Jobs] /\ job'[a] = [job[a] EXCEPT !.pc = "stage"]
        /\ \A b \in Agents \ {a} : job'[b] = job[b]
    BY <1>1, <1>2, <2>1, GotoType
  <2>3. TypeOK'
    BY <1>2, <2>2 DEF IInv, TypeOK, Verify, Sound
  <2>4. job'[a].pc = "stage" /\ job'[a].row = job[a].row
      /\ job'[a].release = job[a].release /\ job'[a].swapped = job[a].swapped
      /\ job'[a].aside = job[a].aside
    BY <1>1, <2>2 DEF Jobs
  <2>5. HoldInv(a)' /\ PlaceInv(a)'
    BY <1>1, <1>2, <2>4 DEF IInv, HoldInv, PlaceInv, Up, Holding, Forward, Back, Swapped,
       Checked, Placed, Restored
  <2>6. CodeKept'
    BY <1>2 DEF Up, CodeKept
  <2>7. job'[a].pc \notin Announced /\ deployed' = deployed /\ requests' = requests
    BY <2>4 DEF Announced, Swapped, Restored, Verify
  <2> QED
    BY <1>1, <1>2, <2>2, <2>3, <2>4, <2>5, <2>6, <2>7, Joined
       DEF IInv, CompletedIsInstalled, Holding, Forward
<1>3. CASE Fail(a, host)
  <2>1. /\ host' \in Hosts /\ job' \in [Agents -> Jobs]
        /\ lock' \in Agents \cup {Free, "other"}
    BY <1>1, <1>3, FailType
  <2>2. TypeOK' /\ requests' = requests /\ deployed' = deployed /\ signals' = signals
    BY <1>1, <2>1 DEF TypeOK, Verify, Sound
  <2>3. \A b \in Agents : job[b].aside = None
    BY <1>1 DEF IInv, HoldInv, Holding, Forward, Back, Swapped
  <2>4. CodeKept'
    <3>1. host'.code = host.code /\ host'.left = host.left
      BY <1>1, <1>3, FailType
    <3> QED
      BY <2>2, <2>3, <3>1 DEF IInv, CodeKept
  <2>5. job[a].pc \in Holding \ ({"finish"} \cup Restored)
    BY <1>1 DEF Holding, Forward, Restored
  <2> QED
    BY <1>1, <1>3, <2>2, <2>4, <2>5, FailStep
<1> QED
  BY <1>2, <1>3 DEF Verify

(* The candidate is the release.                                            *)
LEMMA StageStep ==
  ASSUME IInv, NEW a \in Agents, Stage(a)
  PROVE  IInv'
<1> DEFINE h == host
           j == [job[a] EXCEPT !.candidate = job[a].release]
           failed == {host}
<1>1. /\ TypeOK /\ job[a] \in Jobs /\ host \in Hosts
      /\ HoldInv(a) /\ PlaceInv(a) /\ job[a].pc = "stage"
  BY DEF IInv, TypeOK, Stage, Command
<1>2. /\ h \in Hosts /\ j \in Jobs /\ failed \in SUBSET Hosts
      /\ \A g \in failed : g.code = host.code /\ (job[a].swapped => g.file = host.file)
  BY <1>1 DEF Jobs
<1>3. "announce" \in Phases \ {"settle"} /\ "stage" \in Checked /\ "stage" \in Holding
  BY DEF Phases, Forward, Back, Checked, Holding
<1>4. /\ j.row = job[a].row /\ j.release = job[a].release
      /\ h.file.status = "completed" =>
           "announce" \notin Announced /\ {h.code, h.runtime, h.stack} = {h.file.release}
  BY <1>1 DEF Hosts, Jobs, IInv, CompletedIsInstalled, Announced, Swapped, Restored
<1>5. IInv' \/ Advanced(a, "announce", h, j)
  <2> HIDE DEF h, j, failed
  <2>1. Command(a, "stage", "announce", h, j, failed)
    BY DEF Stage, h, j, failed
  <2> QED
    BY <1>2, <1>3, <2>1, CommandStep
<1>6. ASSUME Advanced(a, "announce", h, j)
      PROVE  HoldInv(a)' /\ PlaceInv(a)' /\ CodeKept'
  BY <1>1, <1>2, <1>6 DEF Advanced, HoldInv, PlaceInv, CodeKept, Hosts, Jobs, Holding,
     Forward, Back, Swapped, Checked, Placed, Restored
<1> HIDE DEF h, j, failed
<1> QED
  BY <1>1, <1>2, <1>3, <1>4, <1>5, <1>6, AdvancedStep

(* From here on the state file does not say completed.                      *)
LEMMA AnnounceStep ==
  ASSUME IInv, NEW a \in Agents, Announce(a)
  PROVE  IInv'
<1> DEFINE h == Wrote(host, a, "applying")
           j == job[a]
           failed == {host, Wrote(host, a, "applying")}
<1>1. /\ TypeOK /\ job[a] \in Jobs /\ host \in Hosts
      /\ HoldInv(a) /\ PlaceInv(a) /\ job[a].pc = "announce"
  BY DEF IInv, TypeOK, Announce, Command
<1>2. /\ h \in Hosts /\ j \in Jobs /\ failed \in SUBSET Hosts
      /\ \A g \in failed : g.code = host.code /\ (job[a].swapped => g.file = host.file)
  <2>1. Wrote(host, a, "applying") \in Hosts /\ Wrote(host, a, "applying").code = host.code
    BY <1>1, WroteType
  <2>2. ~ job[a].swapped
    BY <1>1 DEF HoldInv, Swapped, Restored
  <2> QED
    BY <1>1, <2>1, <2>2
<1>3. "down" \in Phases \ {"settle"} /\ "announce" \in Checked /\ "announce" \in Holding
  BY DEF Phases, Forward, Back, Checked, Holding
<1>4. /\ j.row = job[a].row /\ j.release = job[a].release
      /\ h.file.status = "completed" =>
           "down" \notin Announced /\ {h.code, h.runtime, h.stack} = {h.file.release}
  BY <1>1 DEF Hosts, Jobs, Wrote
<1>5. IInv' \/ Advanced(a, "down", h, j)
  <2> HIDE DEF h, j, failed
  <2>1. Command(a, "announce", "down", h, j, failed)
    BY DEF Announce, h, j, failed
  <2> QED
    BY <1>2, <1>3, <2>1, CommandStep
<1>6. ASSUME Advanced(a, "down", h, j)
      PROVE  HoldInv(a)' /\ PlaceInv(a)' /\ CodeKept'
  BY <1>1, <1>2, <1>6 DEF Advanced, HoldInv, PlaceInv, CodeKept, Wrote, Hosts, Jobs, Holding,
     Forward, Back, Swapped, Checked, Placed, Restored
<1> HIDE DEF h, j, failed
<1> QED
  BY <1>1, <1>2, <1>3, <1>4, <1>5, <1>6, AdvancedStep

(* The code stays in place.                                                 *)
LEMMA DownStep ==
  ASSUME IInv, NEW a \in Agents, Down(a)
  PROVE  IInv'
<1> DEFINE h == [host EXCEPT !.stack = None]
           j == job[a]
           failed == {host, [host EXCEPT !.stack = None]}
<1>1. /\ TypeOK /\ job[a] \in Jobs /\ host \in Hosts
      /\ HoldInv(a) /\ PlaceInv(a) /\ job[a].pc = "down"
  BY DEF IInv, TypeOK, Down, Command
<1>2. /\ h \in Hosts /\ j \in Jobs /\ failed \in SUBSET Hosts
      /\ \A g \in failed : g.code = host.code /\ (job[a].swapped => g.file = host.file)
  BY <1>1 DEF Hosts, Versions
<1>3. "swap" \in Phases \ {"settle"} /\ "down" \in Checked /\ "down" \in Holding
  BY DEF Phases, Forward, Back, Checked, Holding
<1>4. /\ j.row = job[a].row /\ j.release = job[a].release
      /\ h.file.status = "completed" =>
           "swap" \notin Announced /\ {h.code, h.runtime, h.stack} = {h.file.release}
  BY <1>1 DEF Hosts, Jobs, IInv, FileInv, Announced, Swapped, Restored
<1>5. IInv' \/ Advanced(a, "swap", h, j)
  <2> HIDE DEF h, j, failed
  <2>1. Command(a, "down", "swap", h, j, failed)
    BY DEF Down, h, j, failed
  <2> QED
    BY <1>2, <1>3, <2>1, CommandStep
<1>6. ASSUME Advanced(a, "swap", h, j)
      PROVE  HoldInv(a)' /\ PlaceInv(a)' /\ CodeKept'
  BY <1>1, <1>2, <1>6 DEF Advanced, HoldInv, PlaceInv, CodeKept, Hosts, Jobs, Holding,
     Forward, Back, Swapped, Checked, Placed, Restored
<1> HIDE DEF h, j, failed
<1> QED
  BY <1>1, <1>2, <1>3, <1>4, <1>5, <1>6, AdvancedStep

(* The code is that of the release.                                         *)
LEMMA PlaceStep ==
  ASSUME IInv, NEW a \in Agents, Place(a)
  PROVE  IInv'
<1> DEFINE h == [host EXCEPT !.code = job[a].candidate]
           j == [job[a] EXCEPT !.candidate = None]
           failed == {host}
<1>1. /\ TypeOK /\ job[a] \in Jobs /\ host \in Hosts
      /\ HoldInv(a) /\ PlaceInv(a) /\ job[a].pc = "place"
  BY DEF IInv, TypeOK, Place, Command
<1>2. /\ h \in Hosts /\ j \in Jobs /\ failed \in SUBSET Hosts
      /\ \A g \in failed : g.code = host.code /\ (job[a].swapped => g.file = host.file)
  BY <1>1 DEF Hosts, Jobs, Versions
<1>3. "install" \in Phases \ {"settle"} /\ "place" \in Swapped /\ "place" \in Holding
  BY DEF Phases, Forward, Back, Swapped, Holding
<1>4. /\ j.row = job[a].row /\ j.release = job[a].release
      /\ h.file.status = "completed" =>
           "install" \notin Announced /\ {h.code, h.runtime, h.stack} = {h.file.release}
  BY <1>1 DEF Hosts, Jobs, IInv, FileInv, Announced, Swapped, Restored
<1>5. IInv' \/ Advanced(a, "install", h, j)
  <2> HIDE DEF h, j, failed
  <2>1. Command(a, "place", "install", h, j, failed)
    BY DEF Place, h, j, failed
  <2> QED
    BY <1>2, <1>3, <2>1, CommandStep
<1>6. ASSUME Advanced(a, "install", h, j)
      PROVE  HoldInv(a)' /\ PlaceInv(a)' /\ CodeKept'
  BY <1>1, <1>2, <1>6 DEF Advanced, HoldInv, PlaceInv, CodeKept, Hosts, Jobs, Holding,
     Forward, Back, Swapped, Checked, Placed, Restored
<1> HIDE DEF h, j, failed
<1> QED
  BY <1>1, <1>2, <1>3, <1>4, <1>5, <1>6, AdvancedStep

(* So are the settings...                                                   *)
LEMMA InstallStep ==
  ASSUME IInv, NEW a \in Agents, Install(a)
  PROVE  IInv'
<1> DEFINE h == [host EXCEPT !.runtime = host.code]
           j == job[a]
           failed == {host, [host EXCEPT !.runtime = host.code]}
<1>1. /\ TypeOK /\ job[a] \in Jobs /\ host \in Hosts
      /\ HoldInv(a) /\ PlaceInv(a) /\ job[a].pc = "install"
  BY DEF IInv, TypeOK, Install, Command
<1>2. /\ h \in Hosts /\ j \in Jobs /\ failed \in SUBSET Hosts
      /\ \A g \in failed : g.code = host.code /\ (job[a].swapped => g.file = host.file)
  BY <1>1 DEF Hosts, PlaceInv, Placed
<1>3. "start" \in Phases \ {"settle"} /\ "install" \in Swapped /\ "install" \in Holding
  BY DEF Phases, Forward, Back, Swapped, Holding
<1>4. /\ j.row = job[a].row /\ j.release = job[a].release
      /\ h.file.status = "completed" =>
           "start" \notin Announced /\ {h.code, h.runtime, h.stack} = {h.file.release}
  BY <1>1 DEF Hosts, Jobs, IInv, FileInv, Announced, Swapped, Restored
<1>5. IInv' \/ Advanced(a, "start", h, j)
  <2> HIDE DEF h, j, failed
  <2>1. Command(a, "install", "start", h, j, failed)
    BY DEF Install, h, j, failed
  <2> QED
    BY <1>2, <1>3, <2>1, CommandStep
<1>6. ASSUME Advanced(a, "start", h, j)
      PROVE  HoldInv(a)' /\ PlaceInv(a)' /\ CodeKept'
  BY <1>1, <1>2, <1>6 DEF Advanced, HoldInv, PlaceInv, CodeKept, Hosts, Jobs, Holding,
     Forward, Back, Swapped, Checked, Placed, Restored
<1> HIDE DEF h, j, failed
<1> QED
  BY <1>1, <1>2, <1>3, <1>4, <1>5, <1>6, AdvancedStep

(* ... and the containers.                                                  *)
LEMMA StartStep ==
  ASSUME IInv, NEW a \in Agents, Start(a)
  PROVE  IInv'
<1> DEFINE h == [host EXCEPT !.stack = host.code]
           j == job[a]
           failed == {[host EXCEPT !.stack = None], [host EXCEPT !.stack = host.code]}
<1>1. /\ TypeOK /\ job[a] \in Jobs /\ host \in Hosts
      /\ HoldInv(a) /\ PlaceInv(a) /\ job[a].pc = "start"
  BY DEF IInv, TypeOK, Start, Command
<1>2. /\ h \in Hosts /\ j \in Jobs /\ failed \in SUBSET Hosts
      /\ \A g \in failed : g.code = host.code /\ (job[a].swapped => g.file = host.file)
  BY <1>1 DEF Hosts, Versions
<1>3. "record" \in Phases \ {"settle"} /\ "start" \in Swapped /\ "start" \in Holding
  BY DEF Phases, Forward, Back, Swapped, Holding
<1>4. /\ j.row = job[a].row /\ j.release = job[a].release
      /\ h.file.status = "completed" =>
           "record" \notin Announced /\ {h.code, h.runtime, h.stack} = {h.file.release}
  BY <1>1 DEF Hosts, Jobs, IInv, FileInv, Announced, Swapped, Restored
<1>5. IInv' \/ Advanced(a, "record", h, j)
  <2> HIDE DEF h, j, failed
  <2>1. Command(a, "start", "record", h, j, failed)
    BY DEF Start, h, j, failed
  <2> QED
    BY <1>2, <1>3, <2>1, CommandStep
<1>6. ASSUME Advanced(a, "record", h, j)
      PROVE  HoldInv(a)' /\ PlaceInv(a)' /\ CodeKept'
  BY <1>1, <1>2, <1>6 DEF Advanced, HoldInv, PlaceInv, CodeKept, Hosts, Jobs, Holding,
     Forward, Back, Swapped, Checked, Placed, Restored
<1> HIDE DEF h, j, failed
<1> QED
  BY <1>1, <1>2, <1>3, <1>4, <1>5, <1>6, AdvancedStep

(* The previous code is still aside when the failed one is moved away.      *)
LEMMA UndoMoveStep ==
  ASSUME IInv, NEW a \in Agents, UndoMove(a)
  PROVE  IInv'
<1> DEFINE h == [host EXCEPT !.code = None]
           j == [job[a] EXCEPT !.candidate = IF host.code = None THEN @ ELSE host.code]
           failed == {host}
<1>1. /\ TypeOK /\ job[a] \in Jobs /\ host \in Hosts
      /\ HoldInv(a) /\ PlaceInv(a) /\ job[a].pc = "rmove"
  BY DEF IInv, TypeOK, UndoMove, Undo
<1>2. /\ h \in Hosts /\ j \in Jobs /\ failed \in SUBSET Hosts
      /\ \A g \in failed : g.code = host.code
  BY <1>1 DEF Hosts, Jobs, Versions
<1>3. "rplace" \in Phases \ {"settle"} /\ "rmove" \in Swapped /\ "rmove" \in Holding
  BY DEF Phases, Forward, Back, Swapped, Holding
<1>4. /\ j.row = job[a].row /\ j.release = job[a].release
      /\ h.file.status = "completed" =>
           "rplace" \notin Announced /\ {h.code, h.runtime, h.stack} = {h.file.release}
  BY <1>1 DEF Hosts, Jobs, IInv, FileInv, Announced, Swapped, Restored
<1>5. IInv' \/ Advanced(a, "rplace", h, j)
  <2> HIDE DEF h, j, failed
  <2>1. Undo(a, "rmove", "rplace", h, j, failed)
    BY DEF UndoMove, h, j, failed
  <2> QED
    BY <1>2, <1>3, <2>1, UndoStep
<1>6. ASSUME Advanced(a, "rplace", h, j)
      PROVE  HoldInv(a)' /\ PlaceInv(a)' /\ CodeKept'
  <2>1. HoldInv(a)' /\ PlaceInv(a)'
    BY <1>1, <1>2, <1>6 DEF Advanced, HoldInv, PlaceInv, Hosts, Jobs, Holding, Forward, Back,
       Swapped, Checked, Placed, Restored
  <2>2. job[a].aside # None /\ job'[a].aside = job[a].aside
    BY <1>1, <1>2, <1>6 DEF Advanced, HoldInv, Jobs, Swapped
  <2>3. CodeKept'
    BY <2>2 DEF CodeKept
  <2> QED
    BY <2>1, <2>3
<1> HIDE DEF h, j, failed
<1> QED
  BY <1>1, <1>2, <1>3, <1>4, <1>5, <1>6, AdvancedStep

(* The code is that of before...                                            *)
LEMMA UndoPlaceStep ==
  ASSUME IInv, NEW a \in Agents, UndoPlace(a)
  PROVE  IInv'
<1> DEFINE h == [host EXCEPT !.code = job[a].aside]
           j == [job[a] EXCEPT !.aside = None]
           failed == {host}
<1>1. /\ TypeOK /\ job[a] \in Jobs /\ host \in Hosts
      /\ HoldInv(a) /\ PlaceInv(a) /\ job[a].pc = "rplace"
  BY DEF IInv, TypeOK, UndoPlace, Undo
<1>2. /\ h \in Hosts /\ j \in Jobs /\ failed \in SUBSET Hosts
      /\ \A g \in failed : g.code = host.code
  BY <1>1 DEF Hosts, Jobs, Versions
<1>3. "rinstall" \in Phases \ {"settle"} /\ "rplace" \in Swapped /\ "rplace" \in Holding
  BY DEF Phases, Forward, Back, Swapped, Holding
<1>4. /\ j.row = job[a].row /\ j.release = job[a].release
      /\ h.file.status = "completed" =>
           "rinstall" \notin Announced /\ {h.code, h.runtime, h.stack} = {h.file.release}
  BY <1>1 DEF Hosts, Jobs, IInv, FileInv, Announced, Swapped, Restored
<1>5. IInv' \/ Advanced(a, "rinstall", h, j)
  <2> HIDE DEF h, j, failed
  <2>1. Undo(a, "rplace", "rinstall", h, j, failed)
    BY DEF UndoPlace, h, j, failed
  <2> QED
    BY <1>2, <1>3, <2>1, UndoStep
<1>6. ASSUME Advanced(a, "rinstall", h, j)
      PROVE  HoldInv(a)' /\ PlaceInv(a)' /\ CodeKept'
  BY <1>1, <1>2, <1>6 DEF Advanced, HoldInv, PlaceInv, CodeKept, Hosts, Jobs, Holding,
     Forward, Back, Swapped, Checked, Placed, Restored
<1> HIDE DEF h, j, failed
<1> QED
  BY <1>1, <1>2, <1>3, <1>4, <1>5, <1>6, AdvancedStep

(* ... so are the settings...                                               *)
LEMMA UndoInstallStep ==
  ASSUME IInv, NEW a \in Agents, UndoInstall(a)
  PROVE  IInv'
<1> DEFINE h == [host EXCEPT !.runtime = host.code]
           j == job[a]
           failed == {host, [host EXCEPT !.runtime = host.code]}
<1>1. /\ TypeOK /\ job[a] \in Jobs /\ host \in Hosts
      /\ HoldInv(a) /\ PlaceInv(a) /\ job[a].pc = "rinstall"
  BY DEF IInv, TypeOK, UndoInstall, Undo
<1>2. /\ h \in Hosts /\ j \in Jobs /\ failed \in SUBSET Hosts
      /\ \A g \in failed : g.code = host.code
  BY <1>1 DEF Hosts, PlaceInv, Restored
<1>3. "rstart" \in Phases \ {"settle"} /\ "rinstall" \in Restored /\ "rinstall" \in Holding
  BY DEF Phases, Forward, Back, Restored, Holding
<1>4. /\ j.row = job[a].row /\ j.release = job[a].release
      /\ h.file.status = "completed" =>
           "rstart" \notin Announced /\ {h.code, h.runtime, h.stack} = {h.file.release}
  BY <1>1 DEF Hosts, Jobs, IInv, FileInv, Announced, Swapped, Restored
<1>5. IInv' \/ Advanced(a, "rstart", h, j)
  <2> HIDE DEF h, j, failed
  <2>1. Undo(a, "rinstall", "rstart", h, j, failed)
    BY DEF UndoInstall, h, j, failed
  <2> QED
    BY <1>2, <1>3, <2>1, UndoStep
<1>6. ASSUME Advanced(a, "rstart", h, j)
      PROVE  HoldInv(a)' /\ PlaceInv(a)' /\ CodeKept'
  BY <1>1, <1>2, <1>6 DEF Advanced, HoldInv, PlaceInv, CodeKept, Hosts, Jobs, Holding,
     Forward, Back, Swapped, Checked, Placed, Restored
<1> HIDE DEF h, j, failed
<1> QED
  BY <1>1, <1>2, <1>3, <1>4, <1>5, <1>6, AdvancedStep

(* ... and the containers.                                                  *)
LEMMA UndoStartStep ==
  ASSUME IInv, NEW a \in Agents, UndoStart(a)
  PROVE  IInv'
<1> DEFINE h == [host EXCEPT !.stack = host.code]
           j == job[a]
           failed == {[host EXCEPT !.stack = None], [host EXCEPT !.stack = host.code]}
<1>1. /\ TypeOK /\ job[a] \in Jobs /\ host \in Hosts
      /\ HoldInv(a) /\ PlaceInv(a) /\ job[a].pc = "rstart"
  BY DEF IInv, TypeOK, UndoStart, Undo
<1>2. /\ h \in Hosts /\ j \in Jobs /\ failed \in SUBSET Hosts
      /\ \A g \in failed : g.code = host.code
  BY <1>1 DEF Hosts, Versions
<1>3. "rstate" \in Phases \ {"settle"} /\ "rstart" \in Restored /\ "rstart" \in Holding
  BY DEF Phases, Forward, Back, Restored, Holding
<1>4. /\ j.row = job[a].row /\ j.release = job[a].release
      /\ h.file.status = "completed" =>
           "rstate" \notin Announced /\ {h.code, h.runtime, h.stack} = {h.file.release}
  BY <1>1 DEF Hosts, Jobs, IInv, FileInv, Announced, Swapped, Restored
<1>5. IInv' \/ Advanced(a, "rstate", h, j)
  <2> HIDE DEF h, j, failed
  <2>1. Undo(a, "rstart", "rstate", h, j, failed)
    BY DEF UndoStart, h, j, failed
  <2> QED
    BY <1>2, <1>3, <2>1, UndoStep
<1>6. ASSUME Advanced(a, "rstate", h, j)
      PROVE  HoldInv(a)' /\ PlaceInv(a)' /\ CodeKept'
  BY <1>1, <1>2, <1>6 DEF Advanced, HoldInv, PlaceInv, CodeKept, Hosts, Jobs, Holding,
     Forward, Back, Swapped, Checked, Placed, Restored
<1> HIDE DEF h, j, failed
<1> QED
  BY <1>1, <1>2, <1>3, <1>4, <1>5, <1>6, AdvancedStep

(* The code is aside, or a signal came first.                               *)
LEMMA SwapStep ==
  ASSUME IInv, NEW a \in Agents, Swap(a)
  PROVE  IInv'
<1> DEFINE moved == [host EXCEPT !.code = None]
           j == [job[a] EXCEPT !.pc = "place", !.aside = host.code,
                               !.before = host.code, !.swapped = TRUE]
<1>1. /\ TypeOK /\ job[a] \in Jobs /\ host \in Hosts
      /\ HoldInv(a) /\ PlaceInv(a) /\ job[a].pc = "swap"
      /\ requests' = requests /\ deployed' = deployed
  BY DEF IInv, TypeOK, Swap, Table
<1>2. job[a].swapped = FALSE /\ lock = a /\ host.code # None
  BY <1>1 DEF HoldInv, PlaceInv, Jobs, Swapped, Restored, Holding, Forward, Checked
<1>3. moved \in Hosts /\ j \in Jobs
  <2>1. moved \in Hosts
    BY <1>1 DEF Hosts, Versions
  <2>2. host.code \in Versions /\ "place" \in Phases
    BY <1>1 DEF Hosts, Phases, Forward
  <2>3. j \in Jobs
    BY <1>1, <2>2 DEF Jobs
  <2> QED
    BY <2>1, <2>3
<1>4. job[a].pc \in Holding \ ({"finish"} \cup Restored)
  BY <1>1 DEF Holding, Forward, Restored
<1>5. signals' \in 0..MaxSignals /\ faults' \in 0..MaxFaults /\ signals' >= signals
  BY <1>1, UpdateAssumption DEF Swap, Sound, Fault, TypeOK
<1>6. CASE host' = moved /\ lock' = lock /\ job' = [job EXCEPT ![a] = j]
  <2>1. /\ TypeOK' /\ job'[a] = j /\ \A b \in Agents \ {a} : job'[b] = job[b]
    BY <1>1, <1>3, <1>5, <1>6 DEF TypeOK
  <2>2. /\ j.pc = "place" /\ j.row = job[a].row /\ j.release = job[a].release
        /\ j.swapped = TRUE /\ j.aside = host.code /\ j.before = host.code
        /\ j.candidate = job[a].candidate
    BY <1>1 DEF Jobs
  <2>3. host'.file = host.file
    BY <1>1, <1>6 DEF Hosts
  <2> HIDE DEF j
  <2>4. HoldInv(a)' /\ PlaceInv(a)' /\ CodeKept'
    BY <1>1, <1>2, <1>6, <2>1, <2>2 DEF HoldInv, PlaceInv, CodeKept, Holding, Forward, Back, Swapped,
       Checked, Placed, Restored
  <2>5. host'.file.status # "completed"
    BY <1>1, <2>3 DEF IInv, FileInv, Announced
  <2>6. job'[a].row = job[a].row /\ job'[a].release = job[a].release /\ job'[a].pc = "place"
    BY <2>1, <2>2
  <2> QED
    BY <1>1, <1>2, <1>4, <2>1, <2>4, <2>5, <2>6, Joined
<1>7. ASSUME NEW h \in Hosts, Fail(a, h), h.code # None \/ signals' > 0
      PROVE  IInv'
  <2>1. /\ host' \in Hosts /\ job' \in [Agents -> Jobs]
        /\ lock' \in Agents \cup {Free, "other"}
    BY <1>1, <1>7, FailType
  <2>2. TypeOK'
    BY <1>1, <1>5, <2>1 DEF TypeOK
  <2>3. host'.code = h.code
    BY <1>1, <1>7, FailKeeps
  <2>4. CodeKept'
    BY <1>7, <2>3 DEF CodeKept
  <2> QED
    BY <1>1, <1>2, <1>4, <1>7, <2>2, <2>4, FailStep
<1>8. CASE Fail(a, host)
  BY <1>1, <1>2, <1>7, <1>8
<1>9. CASE Fail(a, moved) /\ signals' = signals + 1
  BY <1>1, <1>3, <1>7, <1>9 DEF TypeOK
<1> QED
  BY <1>6, <1>8, <1>9 DEF Swap

(* A release may be recorded though its update fails after.                 *)
LEMMA RecordStep ==
  ASSUME IInv, NEW a \in Agents, Record(a)
  PROVE  IInv'
<1>1. /\ TypeOK /\ job[a] \in Jobs /\ host \in Hosts
      /\ HoldInv(a) /\ PlaceInv(a) /\ job[a].pc = "record" /\ requests' = requests
  BY DEF IInv, TypeOK, Record
<1>2. job[a].swapped = TRUE /\ lock = a /\ job[a].release \in Releases
  BY <1>1 DEF HoldInv, Jobs, Swapped, Holding, Forward
<1>3. /\ deployed \subseteq deployed' /\ deployed' \subseteq Releases
      /\ faults' \in 0..MaxFaults /\ signals' \in 0..MaxSignals
  BY <1>1, <1>2, UpdateAssumption DEF TypeOK, Record, Sound, Fault
<1>4. job[a].pc \in Holding \ ({"finish"} \cup Restored)
  BY <1>1 DEF Holding, Forward, Restored
<1>5. CASE /\ deployed' = deployed \cup {job[a].release}
           /\ job' = Goto(a, "finish") /\ host' = host /\ lock' = lock
  <2>1. "finish" \in Phases
    BY DEF Phases, Forward
  <2>2. /\ job' \in [Agents -> Jobs] /\ job'[a] = [job[a] EXCEPT !.pc = "finish"]
        /\ \A b \in Agents \ {a} : job'[b] = job[b]
    BY <1>1, <1>5, <2>1, GotoType
  <2>3. TypeOK'
    BY <1>1, <1>3, <1>5, <2>2 DEF TypeOK
  <2>4. /\ job'[a].pc = "finish" /\ job'[a].row = job[a].row
        /\ job'[a].release = job[a].release /\ job'[a].swapped = job[a].swapped
        /\ job'[a].aside = job[a].aside
    BY <1>1, <2>2 DEF Jobs
  <2>5. HoldInv(a)' /\ PlaceInv(a)' /\ CodeKept'
    BY <1>1, <1>5, <2>4 DEF HoldInv, PlaceInv, CodeKept, Holding, Forward, Back, Swapped,
       Checked, Placed, Restored
  <2>6. host'.file.status # "completed"
    BY <1>1, <1>5 DEF IInv, FileInv, Announced, Swapped
  <2> QED
    BY <1>1, <1>2, <1>3, <1>4, <2>2, <2>3, <2>4, <2>5, <2>6, Joined
<1>6. CASE Fail(a, host)
  <2>1. /\ host' \in Hosts /\ job' \in [Agents -> Jobs]
        /\ lock' \in Agents \cup {Free, "other"}
    BY <1>1, <1>6, FailType
  <2>2. TypeOK'
    BY <1>1, <1>3, <2>1 DEF TypeOK
  <2> QED
    BY <1>1, <1>2, <1>3, <1>4, <1>6, <2>2, FailStep
<1> QED
  BY <1>5, <1>6 DEF Record

(* A command ends, with success only after its release was recorded.       *)
LEMMA ExitStep ==
  ASSUME IInv, NEW a \in Agents,
         (Exit(a, 0) /\ job[a].release \in deployed) \/ Exit(a, 1),
         host' \in Hosts, CodeKept', Truthful', requests' = requests, deployed' = deployed,
         faults' \in 0..MaxFaults, signals' \in 0..MaxSignals, job[a].pc \in Holding
  PROVE  IInv'
<1>1. TypeOK /\ lock = a /\ 0 \in {0, 1, 75} /\ 1 \in {0, 1, 75}
  BY DEF IInv, HoldInv
<1>2. /\ job' \in [Agents -> Jobs] /\ lock' \in Agents \cup {Free, "other"}
      /\ \A b \in Agents \ {a} : job'[b] = job[b]
      /\ job'[a].pc \in {"off", "settle"} /\ job'[a].swapped = FALSE /\ job'[a].aside = None
      /\ job'[a].pc = "settle" =>
           /\ a = "broker" /\ (job'[a].exit = 1 \/ job[a].release \in deployed)
           /\ job'[a].row = job[a].row /\ job'[a].release = job[a].release
  BY <1>1, ExitType
<1>3. TypeOK'
  BY <1>1, <1>2 DEF TypeOK
<1>4. HoldInv(a)' /\ PlaceInv(a)' /\ job'[a].pc \notin Announced
  BY <1>2 DEF HoldInv, PlaceInv, Announced, Holding, Forward, Back, Swapped,
       Checked, Placed, Restored
<1> QED
  BY <1>1, <1>2, <1>3, <1>4, Joined DEF Truthful

(* The state file says completed with everything in place.                  *)
LEMMA FinishStep ==
  ASSUME IInv, NEW a \in Agents, Finish(a)
  PROVE  IInv'
<1>1. /\ TypeOK /\ host \in Hosts /\ PlaceInv(a) /\ job[a].pc = "finish"
      /\ requests' = requests /\ deployed' = deployed
      /\ faults' \in 0..MaxFaults /\ signals' \in 0..MaxSignals
  BY UpdateAssumption DEF IInv, TypeOK, Finish, Table, Sound, Fault
<1>2. /\ host.code = job[a].release /\ host.runtime = job[a].release
      /\ host.stack = job[a].release /\ host.code # None /\ job[a].release \in deployed
      /\ job[a].pc \in Holding
  BY <1>1 DEF PlaceInv, Placed, Holding, Forward
<1>3. CASE host' = Wrote(host, a, "completed") /\ Exit(a, 0)
  <2>1. /\ Wrote(host, a, "completed") \in Hosts
        /\ Wrote(host, a, "completed").file = [release |-> job[a].release, status |-> "completed"]
        /\ Wrote(host, a, "completed").code = host.code
        /\ Wrote(host, a, "completed").runtime = host.runtime
        /\ Wrote(host, a, "completed").stack = host.stack
    BY <1>1, WroteType
  <2>2. /\ host'.code = job[a].release /\ host'.runtime = job[a].release
        /\ host'.stack = job[a].release /\ host'.file.release = job[a].release
    BY <1>2, <1>3, <2>1
  <2>3. CodeKept' /\ Truthful' /\ host' \in Hosts
    BY <1>2, <1>3, <2>1, <2>2 DEF CodeKept, Truthful
  <2> QED
    BY <1>1, <1>2, <1>3, <2>3, ExitStep
<1>4. CASE host' = Wrote(host, a, "failed") /\ Exit(a, 1)
  <2>1. /\ Wrote(host, a, "failed") \in Hosts
        /\ Wrote(host, a, "failed").file = [release |-> job[a].release, status |-> "failed"]
        /\ Wrote(host, a, "failed").code = host.code
    BY <1>1, WroteType
  <2>2. host'.file.status = "failed" /\ host'.code = host.code
    BY <1>4, <2>1
  <2>3. CodeKept' /\ Truthful' /\ host' \in Hosts
    BY <1>2, <1>4, <2>1, <2>2 DEF CodeKept, Truthful
  <2> QED
    BY <1>1, <1>2, <1>4, <2>3, ExitStep
<1> QED
  BY <1>3, <1>4 DEF Finish

(* The previous code is still aside.                                        *)
LEMMA UndoDownStep ==
  ASSUME IInv, NEW a \in Agents, UndoDown(a)
  PROVE  IInv'
<1>1. /\ TypeOK /\ job[a] \in Jobs /\ host \in Hosts
      /\ HoldInv(a) /\ PlaceInv(a) /\ job[a].pc = "rdown"
      /\ requests' = requests /\ deployed' = deployed /\ lock' = lock
      /\ faults' \in 0..MaxFaults /\ signals' \in 0..MaxSignals
  BY UpdateAssumption DEF IInv, TypeOK, UndoDown, Sound, Fault
<1>2. host' \in Hosts /\ host'.file = host.file
  BY <1>1 DEF UndoDown, Hosts, Versions
<1>3. "rmove" \in Phases
  BY DEF Phases, Back
<1>4. /\ job' \in [Agents -> Jobs] /\ job'[a] = [job[a] EXCEPT !.pc = "rmove"]
      /\ \A b \in Agents \ {a} : job'[b] = job[b]
  BY <1>1, <1>3, GotoType DEF UndoDown
<1>5. TypeOK'
  BY <1>1, <1>2, <1>4 DEF TypeOK
<1>6. /\ job'[a].pc = "rmove" /\ job'[a].row = job[a].row /\ job'[a].release = job[a].release
      /\ job'[a].swapped = job[a].swapped /\ job'[a].aside = job[a].aside
      /\ job'[a].before = job[a].before
  BY <1>1, <1>4 DEF Jobs
<1>7. HoldInv(a)' /\ PlaceInv(a)' /\ CodeKept'
  BY <1>1, <1>6 DEF HoldInv, PlaceInv, CodeKept, Holding, Forward, Back, Swapped,
       Checked, Placed, Restored
<1>8. host'.file.status # "completed" /\ lock = a /\ job[a].pc \in Holding
  BY <1>1, <1>2 DEF IInv, FileInv, HoldInv, Announced, Swapped, Holding, Back
<1> QED
  BY <1>1, <1>4, <1>5, <1>6, <1>7, <1>8, Joined

(* The end of a rollback never says completed.                              *)
LEMMA UndoStateStep ==
  ASSUME IInv, NEW a \in Agents, UndoState(a)
  PROVE  IInv'
<1>1. /\ TypeOK /\ host \in Hosts /\ PlaceInv(a) /\ job[a].pc = "rstate"
      /\ requests' = requests /\ deployed' = deployed /\ Exit(a, 1)
      /\ faults' \in 0..MaxFaults /\ signals' \in 0..MaxSignals
  BY UpdateAssumption DEF IInv, TypeOK, UndoState, Table, Sound, Fault
<1>2. host.code # None /\ job[a].pc \in Holding /\ host.file.status # "completed"
  BY <1>1 DEF IInv, PlaceInv, FileInv, Announced, Restored, Holding, Back
<1>3. /\ Wrote(host, a, "rolled-back") \in Hosts
      /\ Wrote(host, a, "rolled-back").file = [release |-> job[a].release, status |-> "rolled-back"]
      /\ Wrote(host, a, "rolled-back").code = host.code
  BY <1>1, WroteType
<1>4. host' \in Hosts /\ host'.code = host.code /\ host'.file.status # "completed"
  BY <1>1, <1>2, <1>3 DEF UndoState
<1>5. CodeKept' /\ Truthful'
  BY <1>2, <1>4 DEF CodeKept, Truthful
<1> QED
  BY <1>1, <1>2, <1>4, <1>5, ExitStep

----------------------------------------------------------------------------
(* The steps outside the script.                                           *)

(* A step that leaves the host alone and no job in the middle of a script. *)
LEMMA QuietStep ==
  ASSUME IInv, TypeOK', RowInv', host' = host, deployed' = deployed, signals' = signals,
         \A i \in DOMAIN requests' :
           requests'[i].status = "completed" => requests'[i].release \in deployed,
         \A a \in Agents :
           \/ job'[a] = job[a] /\ (job[a].pc \in Holding => lock' = lock)
           \/ /\ job[a].pc \notin Holding
              /\ job'[a].pc \in Phases \ (Announced \cup Checked)
              /\ job'[a].pc \in Holding => lock' = a
              /\ job'[a].pc \in {"lock", "verify"} =>
                   job'[a].release \in Releases /\ job'[a].release # None
              /\ ~ job'[a].swapped /\ job'[a].aside = None
  PROVE  IInv'
<1>1. ASSUME NEW a \in Agents
      PROVE  /\ HoldInv(a)' /\ PlaceInv(a)'
             /\ job[a].aside # None => job'[a].aside # None
             /\ job[a].pc \notin Announced => job'[a].pc \notin Announced
  <2>1. HoldInv(a) /\ PlaceInv(a)
    BY DEF IInv
  <2>2. CASE job'[a] = job[a] /\ (job[a].pc \in Holding => lock' = lock)
    BY <2>1, <2>2 DEF HoldInv, PlaceInv
  <2>3. CASE ~ (job'[a] = job[a] /\ (job[a].pc \in Holding => lock' = lock))
    BY <2>1, <2>3 DEF HoldInv, PlaceInv, Phases, Holding, Forward, Back, Swapped, Checked,
       Placed, Restored, Announced
  <2> QED
    BY <2>2, <2>3
<1>2. CodeKept'
  BY <1>1 DEF IInv, CodeKept
<1>3. CompletedIsInstalled' /\ FileInv'
  BY <1>1 DEF IInv, CompletedIsInstalled, FileInv
<1> QED
  BY <1>1, <1>2, <1>3 DEF IInv

(* A new request leaves the others where they are.                         *)
LEMMA QueueType ==
  ASSUME TypeOK, NEW r \in Releases, Queue(r)
  PROVE  /\ requests' \in Seq(Rows) /\ Len(requests') <= MaxRequests
         /\ DOMAIN requests \subseteq DOMAIN requests'
         /\ \A i \in DOMAIN requests : requests'[i] = requests[i]
         /\ \A i \in DOMAIN requests' \ DOMAIN requests : requests'[i].status = "pending"
<1> DEFINE row == [release |-> r, status |-> "pending"]
<1>1. requests \in Seq(Rows) /\ row \in Rows /\ requests' = Append(requests, row)
  BY DEF TypeOK, Queue, Rows, Statuses
<1> HIDE DEF row
<1>2. /\ requests' \in Seq(Rows) /\ Len(requests') = Len(requests) + 1
      /\ requests'[Len(requests) + 1] = row
      /\ \A i \in 1..Len(requests) : requests'[i] = requests[i]
  BY <1>1, AppendProperties
<1>3. /\ Len(requests) \in Nat /\ DOMAIN requests = 1..Len(requests)
      /\ DOMAIN requests' = 1..(Len(requests) + 1)
  BY <1>1, <1>2, LenProperties
<1>4. Len(requests') <= MaxRequests
  BY <1>2, <1>3, UpdateAssumption DEF Queue, TypeOK
<1>5. row.status = "pending"
  BY DEF row
<1> QED
  BY <1>2, <1>3, <1>4, <1>5

(* A request of a user is pending, so it says nothing yet.                  *)
LEMMA RequestStep ==
  ASSUME IInv, NEW r \in Releases, Request(r)
  PROVE  IInv'
<1>1. TypeOK /\ Queue(r) /\ UNCHANGED <<deployed, host, lock, job, faults, signals>>
  BY DEF IInv, Request
<1>2. TypeOK'
  BY <1>1, QueueType DEF TypeOK
<1>3. RowInv'
  BY <1>1, QueueType DEF IInv, RowInv
<1>4. \A i \in DOMAIN requests' :
        requests'[i].status = "completed" => requests'[i].release \in deployed
  BY <1>1, QueueType DEF IInv, CompletedIsInstalled
<1> QED
  BY <1>1, <1>2, <1>3, <1>4, QuietStep

(* Another maintenance takes the lock when it is free.                      *)
LEMMA OtherStep ==
  ASSUME IInv, Other
  PROVE  IInv'
<1>1. TypeOK'
  BY DEF IInv, TypeOK, Other
<1>2. RowInv'
  BY DEF IInv, RowInv, Other
<1>3. \A a \in Agents : job'[a] = job[a] /\ job[a].pc \notin Holding
  BY DEF IInv, HoldInv, Other, Agents, Free
<1>4. \A i \in DOMAIN requests' :
        requests'[i].status = "completed" => requests'[i].release \in deployed
  BY DEF IInv, CompletedIsInstalled, Other
<1> QED
  BY <1>1, <1>2, <1>3, <1>4, QuietStep DEF Other

(* A version above the one of the host is not None.                        *)
LEMMA StartingType ==
  ASSUME TypeOK, NEW r \in Releases, NEW row \in 0..MaxRequests
  PROVE  /\ Starting(r, row) \in Jobs
         /\ Starting(r, row).pc = "lock" /\ Starting(r, row).release = r
         /\ Starting(r, row).row = row /\ r # None
         /\ Starting(r, row).swapped = FALSE /\ Starting(r, row).aside = None
<1>1. host.runtime \in Versions /\ r \in Versions /\ None \in Versions /\ r # None
  BY UpdateAssumption DEF TypeOK, Hosts, Versions, None
<1>2. "lock" \in Phases
  BY DEF Phases, Forward
<1> QED
  BY <1>1, <1>2 DEF Starting, Off, Jobs

(* An operator starts a command, without a request.                         *)
LEMMA OperateStep ==
  ASSUME IInv, NEW r \in Releases, Operate(r)
  PROVE  IInv'
<1>1. /\ TypeOK /\ job["operator"].pc = "off"
      /\ job' = [job EXCEPT !["operator"] = Starting(r, 0)]
      /\ UNCHANGED <<requests, deployed, host, lock, faults, signals>>
  BY DEF IInv, Operate, Sound
<1>2. 0 \in 0..MaxRequests
  BY UpdateAssumption
<1>3. /\ Starting(r, 0) \in Jobs /\ Starting(r, 0).pc = "lock"
      /\ Starting(r, 0).release = r /\ r # None
      /\ Starting(r, 0).swapped = FALSE /\ Starting(r, 0).aside = None
  BY <1>1, <1>2, StartingType
<1>4. job' \in [Agents -> Jobs] /\ job'["operator"] = Starting(r, 0)
  BY <1>1, <1>3 DEF TypeOK, Agents
<1>5. job'["broker"] = job["broker"]
  BY <1>1 DEF TypeOK, Agents
<1>6. TypeOK'
  BY <1>1, <1>4 DEF TypeOK
<1>7. RowInv'
  BY <1>1, <1>5 DEF IInv, RowInv
<1>8. \A i \in DOMAIN requests' :
        requests'[i].status = "completed" => requests'[i].release \in deployed
  BY <1>1 DEF IInv, CompletedIsInstalled
<1>9. "off" \notin Holding /\ "lock" \in Phases \ (Announced \cup Checked \cup Holding)
  BY DEF Holding, Phases, Forward, Back, Announced, Checked, Swapped, Restored
<1>10. \A a \in Agents :
           \/ job'[a] = job[a] /\ (job[a].pc \in Holding => lock' = lock)
           \/ /\ job[a].pc \notin Holding
              /\ job'[a].pc \in Phases \ (Announced \cup Checked)
              /\ job'[a].pc \in Holding => lock' = a
              /\ job'[a].pc \in {"lock", "verify"} =>
                   job'[a].release \in Releases /\ job'[a].release # None
              /\ ~ job'[a].swapped /\ job'[a].aside = None
  BY <1>1, <1>3, <1>4, <1>5, <1>9 DEF Agents
<1> QED
  BY <1>1, <1>6, <1>7, <1>8, <1>10, QuietStep

(* The lock was free, so no other command is under way.                     *)
LEMMA AcquireStep ==
  ASSUME IInv, NEW a \in Agents, Acquire(a)
  PROVE  IInv'
<1>1. /\ TypeOK /\ HoldInv(a) /\ job[a].pc = "lock" /\ lock = Free /\ lock' = a
      /\ job' = Goto(a, "verify")
      /\ UNCHANGED <<requests, deployed, host, faults, signals>>
  BY DEF IInv, Acquire, Sound
<1>2. "verify" \in Phases /\ "verify" \notin Announced \cup Checked /\ "lock" \notin Holding
  BY DEF Phases, Forward, Back, Announced, Checked, Swapped, Restored, Holding
<1>3. /\ job' \in [Agents -> Jobs] /\ job'[a] = [job[a] EXCEPT !.pc = "verify"]
      /\ \A b \in Agents \ {a} : job'[b] = job[b]
  BY <1>1, <1>2, GotoType
<1>4. /\ job'[a].pc = "verify" /\ job'[a].release = job[a].release /\ job'[a].row = job[a].row
      /\ job'[a].swapped = job[a].swapped /\ job'[a].aside = job[a].aside
  BY <1>1, <1>3 DEF TypeOK, Jobs
<1>5. TypeOK'
  BY <1>1, <1>3 DEF TypeOK
<1>6. RowInv'
  BY <1>1, <1>3, <1>4 DEF IInv, RowInv, Agents
<1>7. \A i \in DOMAIN requests' :
        requests'[i].status = "completed" => requests'[i].release \in deployed
  BY <1>1 DEF IInv, CompletedIsInstalled
<1>8. \A b \in Agents : job[b].pc \notin Holding
  BY <1>1 DEF IInv, HoldInv, Agents, Free
<1>9. ~ job'[a].swapped /\ job'[a].aside = None /\ job'[a].release \in Releases
      /\ job'[a].release # None
  BY <1>1, <1>4 DEF HoldInv, Swapped, Restored
<1> QED
  BY <1>1, <1>2, <1>3, <1>4, <1>5, <1>6, <1>7, <1>8, <1>9, QuietStep

(* A busy lock ends the command with a status that is not success.          *)
LEMMA BusyStep ==
  ASSUME IInv, NEW a \in Agents, Busy(a)
  PROVE  IInv'
<1>1. /\ TypeOK /\ HoldInv(a) /\ job[a].pc = "lock" /\ lock # Free /\ Exit(a, 75)
      /\ UNCHANGED <<requests, deployed, host, faults, signals>> /\ 75 \in {0, 1, 75}
  BY DEF IInv, Busy, Sound
<1>2. /\ job' \in [Agents -> Jobs] /\ lock' \in Agents \cup {Free, "other"}
      /\ \A b \in Agents \ {a} : job'[b] = job[b]
      /\ job'[a].pc \in {"off", "settle"}
      /\ job'[a].swapped = FALSE /\ job'[a].aside = None
      /\ job'[a].pc = "settle" =>
           /\ a = "broker" /\ job'[a].exit = 75
           /\ job'[a].row = job[a].row /\ job'[a].release = job[a].release
  BY <1>1, ExitType
<1>3. TypeOK'
  BY <1>1, <1>2 DEF TypeOK
<1>4. RowInv'
  BY <1>1, <1>2 DEF IInv, RowInv, Agents, Holding, Forward, Back
<1>5. \A i \in DOMAIN requests' :
        requests'[i].status = "completed" => requests'[i].release \in deployed
  BY <1>1 DEF IInv, CompletedIsInstalled
<1>6. \A b \in Agents \ {a} : job[b].pc \in Holding => lock' = lock
  BY <1>1 DEF IInv, HoldInv, Exit
<1>7. /\ job'[a].pc \in Phases \ (Announced \cup Checked \cup Holding)
      /\ job'[a].pc \notin {"lock", "verify"} /\ job[a].pc \notin Holding
  BY <1>1, <1>2 DEF Phases, Forward, Back, Announced, Checked, Swapped, Restored, Holding
<1> QED
  BY <1>1, <1>2, <1>3, <1>4, <1>5, <1>6, <1>7, QuietStep

(* The broker goes on, from nothing to nothing; it holds no lock.          *)
LEMMA BrokerStep ==
  ASSUME IInv, NEW j \in Jobs, job' = [job EXCEPT !["broker"] = j],
         job["broker"].pc \notin Holding,
         j.pc \in {"off", "queue", "claim", "lock"},
         j.pc = "lock" => /\ j.release \in Releases /\ j.release # None
                          /\ j.row \in DOMAIN requests' /\ requests'[j.row].release = j.release,
         j.swapped = FALSE, j.aside = None,
         UNCHANGED <<deployed, host, lock, signals>>, faults' \in 0..MaxFaults,
         requests' \in Seq(Rows), Len(requests') <= MaxRequests,
         \A i \in DOMAIN requests' :
           requests'[i].status = "completed" => requests'[i].release \in deployed
  PROVE  IInv'
<1>1. /\ job' \in [Agents -> Jobs] /\ job'["broker"] = j
      /\ \A b \in Agents \ {"broker"} : job'[b] = job[b]
  BY DEF IInv, TypeOK, Agents
<1>2. TypeOK'
  BY <1>1 DEF IInv, TypeOK
<1>3. j.pc \in Phases \ (Announced \cup Checked \cup Holding) /\ j.pc \notin {"settle", "verify"}
  BY DEF Phases, Forward, Back, Announced, Checked, Swapped, Restored, Holding
<1>4. RowInv'
  BY <1>1, <1>3 DEF RowInv
<1> QED
  BY <1>1, <1>2, <1>3, <1>4, QuietStep

(* Requests that are changed in place.                                     *)
LEMMA RowsType ==
  ASSUME TypeOK, requests' = [i \in DOMAIN requests |-> requests'[i]],
         \A i \in DOMAIN requests : requests'[i] \in Rows
  PROVE  /\ requests' \in Seq(Rows) /\ Len(requests') <= MaxRequests
         /\ DOMAIN requests' = DOMAIN requests
<1>1. requests \in Seq(Rows) /\ Len(requests) <= MaxRequests
  BY DEF TypeOK
<1> QED
  BY <1>1, ChangedSeq

(* Each request is a row of the table.                                      *)
LEMMA RowType ==
  ASSUME TypeOK, NEW i \in DOMAIN requests
  PROVE  requests[i] \in Rows /\ i \in 0..MaxRequests
<1>1. requests \in Seq(Rows) /\ Len(requests) <= MaxRequests
  BY DEF TypeOK
<1>2. Len(requests) \in Nat /\ requests \in [1..Len(requests) -> Rows]
      /\ DOMAIN requests = 1..Len(requests)
  BY <1>1, LenProperties
<1> QED
  BY <1>1, <1>2, UpdateAssumption

(* A pass of the broker completes no request.                               *)
LEMMA WakeStep ==
  ASSUME IInv, Wake
  PROVE  IInv'
<1> DEFINE j == [job["broker"] EXCEPT !.pc = "queue"]
<1>1. /\ TypeOK /\ HoldInv("broker") /\ job["broker"] \in Jobs /\ job["broker"].pc = "off"
      /\ job' = [job EXCEPT !["broker"] = j]
      /\ UNCHANGED <<deployed, host, lock, faults, signals>>
  BY DEF IInv, TypeOK, Wake, Goto, Sound, Agents
<1>2. /\ j \in Jobs /\ j.pc = "queue" /\ j.swapped = FALSE /\ j.aside = None
      /\ job["broker"].pc \notin Holding
  BY <1>1 DEF HoldInv, Jobs, Phases, Swapped, Restored, Holding, Forward, Back
<1>3. \A i \in DOMAIN requests : requests'[i] \in Rows
  BY <1>1, RowType DEF Wake, Rows, Statuses
<1>4. /\ requests' \in Seq(Rows) /\ Len(requests') <= MaxRequests
      /\ DOMAIN requests' = DOMAIN requests
  BY <1>1, <1>3, RowsType DEF Wake
<1>5. \A i \in DOMAIN requests' :
        requests'[i].status = "completed" => requests'[i].release \in deployed
  BY <1>1, <1>4, RowType DEF Wake, IInv, CompletedIsInstalled, Rows
<1>6. faults' \in 0..MaxFaults /\ UNCHANGED <<deployed, host, lock, signals>>
  BY <1>1 DEF TypeOK
<1> HIDE DEF j
<1> QED
  BY <1>1, <1>2, <1>4, <1>5, <1>6, BrokerStep

(* Neither does the automatic policy.                                       *)
LEMMA AutoQueueStep ==
  ASSUME IInv, AutoQueue
  PROVE  IInv'
<1>1. /\ TypeOK /\ HoldInv("broker") /\ job["broker"] \in Jobs /\ job["broker"].pc = "queue"
      /\ UNCHANGED <<deployed, host, lock, signals>> /\ faults' \in 0..MaxFaults
  BY DEF IInv, TypeOK, AutoQueue, Goto, Sound, Agents
<1>2. PICK p \in {"off", "claim"} : job' = Goto("broker", p)
  BY DEF AutoQueue
<1> DEFINE j == [job["broker"] EXCEPT !.pc = p]
<1>3. /\ j \in Jobs /\ j.pc = p /\ j.swapped = FALSE /\ j.aside = None
      /\ job' = [job EXCEPT !["broker"] = j] /\ job["broker"].pc \notin Holding
  BY <1>1, <1>2 DEF Goto, HoldInv, Jobs, Phases, Swapped, Restored, Holding, Forward, Back
<1>4. /\ requests' \in Seq(Rows) /\ Len(requests') <= MaxRequests
      /\ \A i \in DOMAIN requests' :
           requests'[i].status = "completed" => requests'[i].release \in deployed
  <2>1. CASE requests' = requests
    BY <1>1, <2>1 DEF IInv, TypeOK, CompletedIsInstalled
  <2>2. ASSUME NEW r \in Releases, Queue(r)
        PROVE  /\ requests' \in Seq(Rows) /\ Len(requests') <= MaxRequests
               /\ \A i \in DOMAIN requests' :
                    requests'[i].status = "completed" => requests'[i].release \in deployed
    BY <1>1, <2>2, QueueType DEF IInv, CompletedIsInstalled
  <2> QED
    BY <2>1, <2>2 DEF AutoQueue
<1> HIDE DEF j
<1> QED
  BY <1>1, <1>2, <1>3, <1>4, BrokerStep

(* The request claimed is the one the command is run for.                   *)
LEMMA ClaimStep ==
  ASSUME IInv, Claim
  PROVE  IInv'
<1>1. /\ TypeOK /\ HoldInv("broker") /\ job["broker"] \in Jobs /\ job["broker"].pc = "claim"
      /\ UNCHANGED <<deployed, host, lock, signals>> /\ faults' \in 0..MaxFaults
  BY DEF IInv, TypeOK, Claim, Goto, Sound, Agents
<1>2. job["broker"].pc \notin Holding
  BY <1>1 DEF Holding, Forward, Back
<1>3. CASE job' = Goto("broker", "off") /\ requests' = requests
  <2> DEFINE j == [job["broker"] EXCEPT !.pc = "off"]
  <2>1. /\ j \in Jobs /\ j.pc = "off" /\ j.swapped = FALSE /\ j.aside = None
        /\ job' = [job EXCEPT !["broker"] = j]
    BY <1>1, <1>3 DEF Goto, HoldInv, Jobs, Phases, Swapped, Restored
  <2>2. /\ requests' \in Seq(Rows) /\ Len(requests') <= MaxRequests
        /\ \A i \in DOMAIN requests' :
             requests'[i].status = "completed" => requests'[i].release \in deployed
    BY <1>3 DEF IInv, TypeOK, CompletedIsInstalled
  <2> HIDE DEF j
  <2> QED
    BY <1>1, <1>2, <2>1, <2>2, BrokerStep
<1>4. ASSUME NEW i \in DOMAIN requests, requests' = [requests EXCEPT ![i].status = "running"],
             job' = [job EXCEPT !["broker"] = Starting(requests[i].release, i)]
      PROVE  IInv'
  <2> DEFINE j == Starting(requests[i].release, i)
  <2>1. requests[i] \in Rows /\ i \in 0..MaxRequests /\ requests[i].release \in Releases
    BY <1>1, RowType DEF Rows
  <2>2. j \in Jobs
    BY <1>1, <2>1, StartingType, Zenon
  <2>8. /\ j.pc = "lock" /\ j.swapped = FALSE /\ j.aside = None
        /\ j.release = requests[i].release /\ j.row = i
    BY DEF Starting, Off
  <2>9. j.release # None
    BY <2>1, <2>8, UpdateAssumption DEF None
  <2>3. \A k \in DOMAIN requests :
          requests'[k] \in Rows /\ requests'[k].release = requests[k].release
    BY <1>1, <1>4, RowType DEF Rows, Statuses
  <2>4. /\ requests' \in Seq(Rows) /\ Len(requests') <= MaxRequests
        /\ DOMAIN requests' = DOMAIN requests
    BY <1>1, <1>4, <2>3, RowsType
  <2>5. \A k \in DOMAIN requests' :
          requests'[k].status = "completed" => requests'[k].release \in deployed
    BY <1>1, <1>4, <2>4, RowType DEF IInv, CompletedIsInstalled, Rows
  <2>6. j.row \in DOMAIN requests' /\ requests'[j.row].release = j.release
        /\ j.release \in Releases
    BY <2>1, <2>8, <2>3, <2>4
  <2>7. job' = [job EXCEPT !["broker"] = j]
    BY <1>4
  <2> HIDE DEF j
  <2> QED
    BY <1>1, <1>2, <2>2, <2>8, <2>9, <2>4, <2>5, <2>6, <2>7, BrokerStep
<1> QED
  BY <1>3, <1>4 DEF Claim

(* Completed means status 0, so the release was recorded.                   *)
LEMMA SettleStep ==
  ASSUME IInv, Settle
  PROVE  IInv'
<1> DEFINE row == job["broker"].row
           Settled == [requests EXCEPT ![row].status = IF @ = "running" THEN Conclusion ELSE @]
<1>1. /\ TypeOK /\ RowInv /\ job["broker"].pc = "settle"
      /\ job' = [job EXCEPT !["broker"] = Off] /\ requests' \in {requests, Settled}
      /\ UNCHANGED <<deployed, host, lock, signals>> /\ faults' \in 0..MaxFaults
  BY UpdateAssumption DEF IInv, TypeOK, Settle, Sound, Fault
<1>2. Off \in Jobs /\ Off.pc = "off" /\ Off.swapped = FALSE /\ Off.aside = None
  BY UpdateAssumption DEF Off, Jobs, Phases, Versions
<1>3. job["broker"].pc \notin Holding
  BY <1>1 DEF Holding, Forward, Back
<1>4. /\ requests' \in Seq(Rows) /\ Len(requests') <= MaxRequests
      /\ \A i \in DOMAIN requests' :
           requests'[i].status = "completed" => requests'[i].release \in deployed
  <2>1. CASE requests' = requests
    BY <1>1, <2>1 DEF IInv, TypeOK, CompletedIsInstalled
  <2>2. CASE requests' = Settled
    <3>1. /\ row \in DOMAIN requests
          /\ job["broker"].exit = 0 => requests[row].release \in deployed
      BY <1>1 DEF RowInv
    <3>2. /\ Conclusion \in Statuses
          /\ Conclusion = "completed" => job["broker"].exit = 0
      BY DEF Conclusion, Statuses
    <3>3. \A i \in DOMAIN requests : requests'[i] \in Rows
      BY <1>1, <2>2, <3>2, RowType DEF Rows
    <3>4. /\ requests' \in Seq(Rows) /\ Len(requests') <= MaxRequests
          /\ DOMAIN requests' = DOMAIN requests
      BY <1>1, <2>2, <3>3, RowsType
    <3>5. \A i \in DOMAIN requests' :
            requests'[i].status = "completed" => requests'[i].release \in deployed
      BY <1>1, <2>2, <3>1, <3>2, <3>4, RowType DEF IInv, CompletedIsInstalled, Rows
    <3> QED
      BY <3>4, <3>5
  <2> QED
    BY <1>1, <2>1, <2>2
<1> QED
  BY <1>1, <1>2, <1>3, <1>4, BrokerStep

(* A killed command leaves its staging behind.                             *)
LEMMA KillStep ==
  ASSUME IInv, NEW a \in Agents, Kill(a)
  PROVE  IInv'
<1>1. /\ TypeOK /\ host \in Hosts /\ job[a].pc # "off" /\ host' = Left(host, a)
      /\ job' = [job EXCEPT ![a] = Off] /\ lock' = (IF lock = a THEN Free ELSE lock)
      /\ UNCHANGED <<requests, deployed, signals>> /\ faults' \in 0..MaxFaults
  BY UpdateAssumption DEF IInv, TypeOK, Kill, Fault
<1>2. Off \in Jobs /\ Off.pc = "off" /\ Off.swapped = FALSE /\ Off.aside = None
  BY UpdateAssumption DEF Off, Jobs, Phases, Versions
<1>3. /\ host' \in Hosts /\ host'.code = host.code /\ host'.file = host.file
      /\ host'.runtime = host.runtime /\ host'.stack = host.stack
      /\ host.left \subseteq host'.left /\ (job[a].aside # None => host'.left # {})
  BY <1>1, LeftType
<1>4. /\ job' \in [Agents -> Jobs] /\ job'[a] = Off
      /\ \A b \in Agents \ {a} : job'[b] = job[b]
  BY <1>1, <1>2 DEF TypeOK
<1>5. TypeOK'
  BY <1>1, <1>3, <1>4 DEF TypeOK, Free
<1>6. CodeKept'
  BY <1>1, <1>3, <1>4 DEF IInv, CodeKept
<1>7. HoldInv(a)' /\ PlaceInv(a)' /\ job'[a].pc \notin Announced
  BY <1>2, <1>4 DEF HoldInv, PlaceInv, Announced, Holding, Forward, Back, Swapped, Checked,
     Placed, Restored
<1>8. ASSUME NEW b \in Agents \ {a}
      PROVE  /\ HoldInv(b)' /\ PlaceInv(b)'
             /\ job[b].pc \notin Announced => job'[b].pc \notin Announced
  BY <1>1, <1>3, <1>4 DEF IInv, HoldInv, PlaceInv
<1>9. CompletedIsInstalled' /\ FileInv'
  BY <1>1, <1>3, <1>7, <1>8 DEF IInv, CompletedIsInstalled, FileInv
<1>10. RowInv'
  BY <1>1, <1>2, <1>4 DEF IInv, RowInv, Agents, Holding, Forward, Back
<1> QED
  BY <1>5, <1>6, <1>7, <1>8, <1>9, <1>10 DEF IInv

(* install.sh by hand finds the lock free, so no command is under way.     *)
LEMMA ReinstallStep ==
  ASSUME IInv, Reinstall
  PROVE  IInv'
<1>1. /\ TypeOK /\ host \in Hosts /\ host.code # None /\ lock = Free
      /\ host' = [host EXCEPT !.runtime = host.code, !.stack = host.code]
      /\ UNCHANGED <<requests, deployed, lock, job, faults, signals>>
  BY DEF IInv, TypeOK, Reinstall, Sound
<1>2. /\ host' \in Hosts /\ host'.code = host.code /\ host'.file = host.file
      /\ host'.runtime = host.code /\ host'.stack = host.code
  BY <1>1 DEF Hosts
<1>3. TypeOK' /\ CodeKept'
  BY <1>1, <1>2 DEF TypeOK, CodeKept
<1>4. ASSUME NEW a \in Agents
      PROVE  HoldInv(a)' /\ PlaceInv(a)'
  <2>1. job[a].pc \notin Holding
    BY <1>1 DEF IInv, HoldInv, Agents, Free
  <2>2. HoldInv(a) /\ UNCHANGED <<job, lock>>
    BY <1>1 DEF IInv
  <2> QED
    BY <2>1, <2>2 DEF HoldInv, PlaceInv, Holding, Forward, Back, Checked, Swapped, Placed,
       Restored
<1>5. CompletedIsInstalled' /\ FileInv' /\ RowInv'
  BY <1>1, <1>2 DEF IInv, CompletedIsInstalled, FileInv, RowInv
<1> QED
  BY <1>3, <1>4, <1>5 DEF IInv

----------------------------------------------------------------------------
(* The theorems.                                                           *)

(* The host as installed.                                                   *)
LEMMA InitStep ==
  ASSUME Init
  PROVE  IInv
<1>1. /\ Off \in Jobs /\ Off.pc = "off" /\ Off.swapped = FALSE /\ Off.aside = None
  BY UpdateAssumption DEF Off, Jobs, Phases, Versions
<1>2. job = [a \in Agents |-> Off] /\ \A a \in Agents : job[a] = Off
  BY DEF Init
<1>3. requests \in Seq(Rows) /\ Len(requests) = 0 /\ DOMAIN requests = {}
  BY EmptySeq, LenProperties DEF Init
<1>4. Installed \in Versions \ {None}
  BY UpdateAssumption DEF Versions, None
<1>5. /\ host \in Hosts /\ host.code = Installed /\ host.file.status = "none"
  BY <1>4 DEF Init, Hosts, Versions
<1>6. deployed = {} /\ lock = Free /\ faults = 0 /\ signals = 0
  BY DEF Init
<1>7. TypeOK
  BY <1>1, <1>2, <1>3, <1>5, <1>6, UpdateAssumption DEF TypeOK
<1>8. CodeKept /\ CompletedIsInstalled /\ FileInv
  BY <1>3, <1>4, <1>5 DEF CodeKept, CompletedIsInstalled, FileInv
<1>9. RowInv
  BY <1>1, <1>2 DEF RowInv, Agents, Holding, Forward, Back
<1>10. \A a \in Agents : HoldInv(a) /\ PlaceInv(a)
  BY <1>1, <1>2 DEF HoldInv, PlaceInv, Holding, Forward, Back, Swapped, Checked, Placed,
     Restored
<1> QED
  BY <1>7, <1>8, <1>9, <1>10 DEF IInv

(* Each action keeps the invariant.                                        *)
LEMMA NextStep ==
  ASSUME IInv, [Next]_vars
  PROVE  IInv'
<1>1. ASSUME NEW r \in Releases, Request(r) \/ Operate(r)
      PROVE  IInv'
  BY <1>1, RequestStep, OperateStep
<1>2. CASE Other \/ Reinstall \/ Wake \/ AutoQueue \/ Claim \/ Settle
  BY <1>2, OtherStep, ReinstallStep, WakeStep, AutoQueueStep, ClaimStep, SettleStep
<1>3. ASSUME NEW a \in Agents, Acquire(a) \/ Busy(a) \/ Kill(a)
      PROVE  IInv'
  BY <1>3, AcquireStep, BusyStep, KillStep
<1>4. ASSUME NEW a \in Agents, Apply(a)
      PROVE  IInv'
  BY <1>4, VerifyStep, StageStep, AnnounceStep, DownStep, SwapStep, PlaceStep, InstallStep,
     StartStep, RecordStep, FinishStep, UndoDownStep, UndoMoveStep, UndoPlaceStep,
     UndoInstallStep, UndoStartStep, UndoStateStep DEF Apply
<1>5. CASE UNCHANGED vars
  BY <1>5 DEF vars, IInv, TypeOK, CodeKept, CompletedIsInstalled, RowInv, FileInv, HoldInv,
     PlaceInv
<1> QED
  BY <1>1, <1>2, <1>3, <1>4, <1>5 DEF Next

(* IInv is an invariant of the server update.                              *)
THEOREM Inductive == Spec => []IInv
<1>1. Init => IInv
  BY InitStep
<1>2. IInv /\ [Next]_vars => IInv'
  BY NextStep
<1> QED
  BY <1>1, <1>2, PTL DEF Spec

(* The variables keep their types, the table of requests included.         *)
THEOREM TypeCorrect == Spec => []TypeOK
<1>1. IInv => TypeOK
  BY DEF IInv
<1> QED
  BY <1>1, Inductive, PTL

(* A completed request has its release recorded, and a state file that     *)
(* says completed has its release in the install directory, in runtime.conf*)
(* and in the containers, whatever failed or was killed before.            *)
THEOREM CompletedInstalled == Spec => []CompletedIsInstalled
<1>1. IInv => CompletedIsInstalled
  BY DEF IInv
<1> QED
  BY <1>1, Inductive, PTL

(* Wherever an update stops, an installation is left on the disk, unless a *)
(* signal came between the mv of the code and CODE_SWAPPED=1.              *)
THEOREM InstallationKept == Spec => []CodeKept
<1>1. IInv => CodeKept
  BY DEF IInv
<1> QED
  BY <1>1, Inductive, PTL

----------------------------------------------------------------------------
(* Only the end of a rollback says that the update was rolled back.        *)

Untold == {h \in Hosts : h.file.status # "rolled-back"}

(* What the commands make of such a host is one again.                     *)
LEMMA UntoldParts ==
  ASSUME TypeOK, host \in Untold, NEW a \in Agents
  PROVE  /\ Wrote(host, a, "applying") \in Untold /\ Wrote(host, a, "completed") \in Untold
         /\ [host EXCEPT !.stack = None] \in Untold
         /\ [host EXCEPT !.stack = host.code] \in Untold
         /\ [host EXCEPT !.code = None] \in Untold
         /\ [host EXCEPT !.code = job[a].candidate] \in Untold
         /\ [host EXCEPT !.code = job[a].aside] \in Untold
         /\ host.code # None => [host EXCEPT !.runtime = host.code] \in Untold
<1>1. job[a] \in Jobs /\ host \in Hosts /\ None \in Versions
  BY DEF TypeOK, Untold, Versions
<1>2. /\ Wrote(host, a, "applying") \in Untold /\ Wrote(host, a, "completed") \in Untold
  <2>1. /\ Wrote(host, a, "applying") \in Hosts
        /\ Wrote(host, a, "applying").file = [release |-> job[a].release, status |-> "applying"]
        /\ Wrote(host, a, "completed") \in Hosts
        /\ Wrote(host, a, "completed").file = [release |-> job[a].release, status |-> "completed"]
    BY <1>1, WroteType
  <2> QED
    BY <2>1 DEF Untold
<1>3. \A v \in Versions : [host EXCEPT !.stack = v] \in Untold
  BY <1>1 DEF Untold, Hosts
<1>4. \A v \in Versions : [host EXCEPT !.code = v] \in Untold
  BY <1>1 DEF Untold, Hosts
<1>5. host.code # None => [host EXCEPT !.runtime = host.code] \in Untold
  BY <1>1 DEF Untold, Hosts
<1>6. host.code \in Versions /\ job[a].candidate \in Versions /\ job[a].aside \in Versions
  BY <1>1 DEF Hosts, Jobs
<1> QED
  BY <1>1, <1>2, <1>3, <1>4, <1>5, <1>6

(* Neither do a failure and a kill.                                         *)
LEMMA UntoldFail ==
  ASSUME TypeOK, NEW a \in Agents, NEW h \in Untold
  PROVE  /\ Wrote(h, a, "failed") \in Untold /\ Left(Wrote(h, a, "failed"), a) \in Untold
         /\ Left(h, a) \in Untold
         /\ Fail(a, h) => host' \in Untold
<1>1. /\ Wrote(h, a, "failed") \in Hosts
      /\ Wrote(h, a, "failed").file = [release |-> job[a].release, status |-> "failed"]
  BY WroteType DEF Untold
<1>2. Wrote(h, a, "failed") \in Untold
  BY <1>1 DEF Untold
<1>3. Left(Wrote(h, a, "failed"), a) \in Untold /\ Left(h, a) \in Untold
  BY <1>2, LeftType DEF Untold
<1> QED
  BY <1>2, <1>3 DEF Fail

(* Of the actions of the script only UndoState writes it.                  *)
LEMMA UntoldApply ==
  ASSUME IInv, host \in Untold, NEW a \in Agents, Apply(a), ~ UndoState(a)
  PROVE  host' \in Untold
<1>1. TypeOK /\ PlaceInv(a) /\ host \in Hosts
  BY DEF IInv, Untold
<1>2. CASE Stage(a)
  BY <1>1, <1>2, UntoldFail DEF Command, Stage
<1>3. CASE Announce(a)
  BY <1>1, <1>3, UntoldParts, UntoldFail DEF Command, Announce
<1>4. CASE Down(a)
  BY <1>1, <1>4, UntoldParts, UntoldFail DEF Command, Down
<1>5. CASE Place(a)
  BY <1>1, <1>5, UntoldParts, UntoldFail DEF Command, Place
<1>6. CASE Start(a)
  BY <1>1, <1>6, UntoldParts, UntoldFail DEF Command, Start
<1>7. CASE Install(a) \/ UndoInstall(a)
  <2>1. job[a].pc \in {"install", "rinstall"}
    BY <1>7 DEF Install, UndoInstall, Command, Undo
  <2>2. [host EXCEPT !.runtime = host.code] \in Untold
    BY <1>1, <2>1, UntoldParts DEF PlaceInv, Placed, Restored
  <2>3. CASE Install(a)
    BY <1>1, <2>2, <2>3, UntoldFail DEF Command, Install
  <2>4. CASE UndoInstall(a)
    BY <1>1, <2>2, <2>4, UntoldFail DEF Undo, UndoInstall
  <2> QED
    BY <1>7, <2>3, <2>4
<1>8. CASE UndoMove(a)
  BY <1>1, <1>8, UntoldParts, UntoldFail DEF Undo, UndoMove
<1>9. CASE UndoPlace(a)
  BY <1>1, <1>9, UntoldParts, UntoldFail DEF Undo, UndoPlace
<1>10. CASE UndoStart(a)
  <2>1. /\ [host EXCEPT !.stack = None] \in Untold
        /\ [host EXCEPT !.stack = host.code] \in Untold
    BY <1>1, UntoldParts
  <2>2. \/ host' = [host EXCEPT !.stack = host.code]
        \/ \E g \in Untold : host' = Left(Wrote(g, a, "failed"), a)
    BY <1>10, <2>1 DEF UndoStart, Undo
  <2> QED
    BY <1>1, <2>1, <2>2, UntoldFail
<1>11. CASE Verify(a) \/ Swap(a) \/ Record(a)
  BY <1>1, <1>11, UntoldParts, UntoldFail DEF Verify, Swap, Record
<1>12. CASE Finish(a) \/ UndoDown(a)
  BY <1>1, <1>12, UntoldParts, UntoldFail DEF Finish, UndoDown
<1> QED
  BY <1>2, <1>3, <1>4, <1>5, <1>6, <1>7, <1>8, <1>9, <1>10, <1>11, <1>12 DEF Apply

(* No other action writes it.                                               *)
LEMMA UntoldNext ==
  ASSUME IInv, host \in Untold, [Next]_vars, \A a \in Agents : ~ UndoState(a)
  PROVE  host' \in Untold
<1>1. TypeOK /\ host \in Hosts
  BY DEF IInv, Untold
<1>2. CASE \E a \in Agents : Apply(a)
  BY <1>2, UntoldApply
<1>3. CASE \E a \in Agents : Kill(a)
  BY <1>1, <1>3, UntoldFail DEF Kill
<1>4. CASE Reinstall
  BY <1>1, <1>4 DEF Reinstall, Untold, Hosts
<1>5. CASE host' = host
  BY <1>5
<1>6. ASSUME \/ \E r \in Releases : Request(r) \/ Operate(r)
             \/ Other \/ Wake \/ AutoQueue \/ Claim \/ Settle
             \/ \E a \in Agents : Acquire(a) \/ Busy(a)
             \/ UNCHANGED vars
      PROVE  host' = host
  BY <1>6 DEF Request, Operate, Other, Wake, AutoQueue, Claim, Settle, Acquire, Busy, vars
<1> QED
  BY <1>2, <1>3, <1>4, <1>5, <1>6 DEF Next

(* Whatever fails and whoever is killed, an update that is said to be      *)
(* rolled back left the code, the settings and the containers of before.   *)
THEOREM RolledBack == Spec => RolledBackIsPrevious
<1> DEFINE Told == host.file.status # "rolled-back" /\ host'.file.status = "rolled-back" =>
             \E a \in Agents : {host'.code, host'.runtime, host'.stack} = {job[a].before}
<1>1. ASSUME IInv, [Next]_vars
      PROVE  Told
  <2>1. SUFFICES ASSUME host.file.status # "rolled-back", host'.file.status = "rolled-back"
                 PROVE  \E a \in Agents :
                          {host'.code, host'.runtime, host'.stack} = {job[a].before}
    OBVIOUS
  <2>2. host \in Untold /\ host' \notin Untold /\ host \in Hosts
    BY <1>1, <2>1 DEF IInv, TypeOK, Untold
  <2>3. PICK a \in Agents : UndoState(a)
    BY <1>1, <2>2, UntoldNext
  <2>4. PlaceInv(a) /\ job[a].pc = "rstate" /\ TypeOK
    BY <1>1, <2>3 DEF IInv, UndoState
  <2>5. /\ Wrote(host, a, "rolled-back").code = host.code
        /\ Wrote(host, a, "rolled-back").runtime = host.runtime
        /\ Wrote(host, a, "rolled-back").stack = host.stack
    BY <2>2, <2>4, WroteType
  <2>6. /\ host'.code = host.code /\ host'.runtime = host.runtime /\ host'.stack = host.stack
    BY <2>3, <2>5 DEF UndoState
  <2>7. host'.code = job[a].before /\ host'.runtime = job[a].before
        /\ host'.stack = job[a].before
    BY <2>4, <2>6 DEF PlaceInv, Restored
  <2> QED
    BY <2>7
<1>2. IInv /\ [Next]_vars => [Told]_vars
  BY <1>1
<1> QED
  BY <1>2, Inductive, PTL DEF Spec, RolledBackIsPrevious

=============================================================================
