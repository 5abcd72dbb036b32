------------------------- MODULE PrivateSpaceProofs -------------------------
(***************************************************************************)
(* The private space, for any applications, targets, requests and bounds.  *)
(*                                                                         *)
(* Of the server (PrivateAccess): wrong codes are never checked more often *)
(* than MaxAttempts between two lockouts.                                  *)
(* The count that matters is the row of attempts when it is of the code in *)
(* force.  What a transaction read of it before scrypt is still true after *)
(* it, because one transaction at a time holds the television's row and    *)
(* its policy; and a transaction whose policy is not in force any more     *)
(* counts for nobody.                                                      *)
(*                                                                         *)
(* Of the television (PrivateSpace): what it hid it remembers, and         *)
(* applications that are seen without a code have something to hide them.  *)
(* Both follow from an invariant about the threads that work for the       *)
(* overlay: a job, a message or an answer of an earlier showing is         *)
(* recognised by its epoch (Epochs), and whoever holds POLICY_LOCK has     *)
(* done on the device what it is about to write down (Holding).            *)
(***************************************************************************)
EXTENDS PrivateSpace, SequenceTheorems, TLAPS

(* One transaction at a time checks a code.                                *)
Alone == \A r, s \in Requests :
           unlocks[r].pc = "checking" /\ unlocks[s].pc = "checking" => r = s

(* What it read of the attempts holds, but for the end of a lockout that   *)
(* is not of its code.                                                     *)
StillTrueOf(u) ==
  /\ u.target \in Targets /\ policies[u.target] # None
  /\ \/ attempts = u.seen
     \/ u.seen # None /\ u.seen.lock = "running" /\ attempts = [u.seen EXCEPT !.lock = "over"]
  /\ u.seen # None /\ u.seen.target = u.target
       /\ u.seen.generation = policies[u.target].generation => u.seen.lock # "running"
  /\ u.target # Closest(policies) => wrong = 0

(* This is so of every transaction that checks a code.                     *)
StillTrue == \A r \in Requests : unlocks[r].pc = "checking" => StillTrueOf(unlocks[r])

(* The row counts at least the codes that were wrong.                      *)
Counted ==
  /\ attempts # None /\ attempts.lock = "none" => attempts.failed < MaxAttempts
  /\ wrong # 0 =>
       /\ Some(policies) /\ attempts # None /\ attempts.target = Closest(policies)
       /\ attempts.generation = policies[Closest(policies)].generation
       /\ wrong <= attempts.failed /\ attempts.lock # "over"

IInv == RowsTypeOK /\ Alone /\ StillTrue /\ Counted

----------------------------------------------------------------------------
(* What is closest.                                                        *)

(* The targets that have a row.                                            *)
Given(rows) == {t \in Targets : rows[t] # None}

(* The closest row is one of those given, and the one of the lowest rank.  *)
LEMMA ClosestIsLowest ==
  ASSUME NEW rows, Some(rows)
  PROVE  /\ Closest(rows) \in Given(rows)
         /\ \A u \in Given(rows) : Rank[Closest(rows)] <= Rank[u]
<1>1. \E t \in Given(rows) : \A u \in Given(rows) : Rank[t] <= Rank[u]
  <2>1. CASE "tv" \in Given(rows)
    BY <2>1, PrivateAccessAssumption DEF Given, Rank
  <2>2. CASE "tv" \notin Given(rows) /\ "group" \in Given(rows)
    BY <2>2, PrivateAccessAssumption DEF Given, Rank
  <2>3. CASE "tv" \notin Given(rows) /\ "group" \notin Given(rows)
    BY <2>3, PrivateAccessAssumption DEF Given, Rank, Some
  <2> QED BY <2>1, <2>2, <2>3
<1> QED BY <1>1 DEF Closest, Given

(* Only a row that is new can become the closest one.                      *)
LEMMA ClosestStays ==
  ASSUME NEW rows, NEW after, NEW t \in Targets, Some(rows),
         Given(after) = Given(rows) \cup {t}
  PROVE  Closest(after) = t \/ Closest(after) = Closest(rows)
<1>1. Some(after)
  BY DEF Some, Given
<1>2. /\ Closest(rows) \in Given(rows) /\ Closest(after) \in Given(after)
      /\ \A u \in Given(rows) : Rank[Closest(rows)] <= Rank[u]
      /\ \A u \in Given(after) : Rank[Closest(after)] <= Rank[u]
  BY <1>1, ClosestIsLowest
<1>3. \A u, v \in Targets : Rank[u] <= Rank[v] /\ Rank[v] <= Rank[u] => u = v
  BY PrivateAccessAssumption DEF Rank
<1>4. CASE Closest(after) # t
  <2>1. Closest(after) \in Given(rows) /\ Closest(rows) \in Given(after)
    BY <1>2, <1>4
  <2> QED BY <1>2, <1>3, <2>1 DEF Given
<1> QED BY <1>4

(* The same rows have the same closest one.                                *)
LEMMA ClosestOfSame ==
  ASSUME NEW rows, NEW after, Given(after) = Given(rows)
  PROVE  Closest(after) = Closest(rows)
BY DEF Closest, Given

----------------------------------------------------------------------------
(* The record of a request that asks for nothing.                          *)
LEMMA NoUnlockTyped == NoUnlock \in UnlockRows
<1>1. 0 \in Generations
  BY PrivateAccessAssumption DEF Generations
<1>2. None \in Codes /\ None \in Attempts
  BY DEF Codes, Attempts
<1> QED BY <1>1, <1>2 DEF NoUnlock, UnlockRows

(* The invariant holds before a code was typed.                            *)
LEMMA InitKeeps == ServerInit => IInv
<1> SUFFICES ASSUME ServerInit PROVE IInv OBVIOUS
<1>1. RowsTypeOK
  <2>1. policies \in [Targets -> Policies \cup {None}]
    <3>1. [enabled |-> TRUE, generation |-> 1] \in Policies
      BY PrivateAccessAssumption DEF Policies, Generations
    <3> QED BY <3>1 DEF ServerInit
  <2> QED BY <2>1, NoUnlockTyped DEF ServerInit, RowsTypeOK, Attempts
<1>2. Alone /\ StillTrue
  BY DEF ServerInit, NoUnlock, Alone, StillTrue
<1>3. Counted
  BY DEF ServerInit, Counted
<1> QED BY <1>1, <1>2, <1>3 DEF IInv

(* A step that leaves the policies, the attempts and what transactions     *)
(* read alone.                                                             *)
LEMMA NobodyNewKeeps ==
  ASSUME IInv, RowsTypeOK', UNCHANGED <<policies, attempts, wrong>>,
         \A r \in Requests : unlocks'[r].pc = "checking" =>
           /\ unlocks[r].pc = "checking" /\ unlocks'[r].target = unlocks[r].target
           /\ unlocks'[r].seen = unlocks[r].seen
  PROVE  IInv'
<1>1. Alone'
  BY DEF IInv, Alone
<1>2. StillTrue'
  BY DEF IInv, StillTrue, StillTrueOf
<1>3. Counted'
  BY DEF IInv, Counted
<1> QED BY <1>1, <1>2, <1>3 DEF IInv

(* A step that adds the row of t, or changes it while nobody reads it.     *)
LEMMA PolicyKeeps ==
  ASSUME IInv, NEW t \in Targets, ~ Held(t), UNCHANGED unlocks, RowsTypeOK',
         policies'[t] # None, \A u \in Targets \ {t} : policies'[u] = policies[u],
         attempts' = attempts \/ attempts' = None,
         attempts' # attempts => attempts # None /\ attempts.target = t,
         wrong' \in {0, wrong},
         Closest(policies') = t /\ Closest(policies) # t => wrong' = 0,
         Closest(policies') = t /\ attempts' # attempts => wrong' = 0,
         policies[t] = None /\ Closest(policies') = t => wrong' = 0,
         policies[t] # None /\ Closest(policies') = t /\ wrong' # 0
           => policies'[t].generation = policies[t].generation
  PROVE  IInv'
<1>1. Alone'
  BY DEF IInv, Alone
<1>2. Given(policies') = Given(policies) \cup {t}
  BY DEF Given
<1>3. Some(policies) => Closest(policies') = t \/ Closest(policies') = Closest(policies)
  BY <1>2, ClosestStays
<1>4. StillTrue'
  <2> SUFFICES ASSUME NEW r \in Requests, unlocks[r].pc = "checking"
               PROVE  StillTrueOf(unlocks[r])'
    BY DEF StillTrue
  <2> DEFINE u == unlocks[r]
  <2>1. StillTrueOf(u)
    BY DEF IInv, StillTrue
  <2>2. u.target # t /\ (u.seen # None => u.seen.target # t)
    BY DEF Held
  <2>3. attempts' = attempts
    <3>1. u.seen # None => u.seen \in AttemptRows
      BY DEF IInv, RowsTypeOK, UnlockRows, Attempts
    <3> QED BY <2>1, <2>2, <3>1 DEF StillTrueOf, AttemptRows
  <2>4. policies'[u.target] = policies[u.target] /\ Some(policies)
    BY <2>1, <2>2 DEF StillTrueOf, Some
  <2>5. u.target # Closest(policies') => wrong' = 0
    BY <1>3, <2>1, <2>4 DEF StillTrueOf
  <2> QED BY <2>1, <2>3, <2>4, <2>5 DEF StillTrueOf
<1>5. Counted'
  <2>1. attempts' # None /\ attempts'.lock = "none" => attempts'.failed < MaxAttempts
    BY DEF IInv, Counted
  <2>2. ASSUME wrong' # 0
        PROVE  /\ Some(policies') /\ attempts' # None
               /\ attempts'.target = Closest(policies')
               /\ attempts'.generation = policies'[Closest(policies')].generation
               /\ wrong' <= attempts'.failed /\ attempts'.lock # "over"
    <3>1. /\ Some(policies) /\ wrong' = wrong /\ attempts # None
          /\ attempts.target = Closest(policies)
          /\ attempts.generation = policies[Closest(policies)].generation
          /\ wrong <= attempts.failed /\ attempts.lock # "over"
      BY <2>2 DEF IInv, Counted
    <3>2. Closest(policies') = Closest(policies)
      BY <1>3, <2>2, <3>1
    <3>3. attempts' = attempts
      BY <2>2, <3>1, <3>2
    <3>4. Closest(policies) \in Targets
      BY <3>1, ClosestIsLowest DEF Given
    <3>5. policies'[Closest(policies)].generation = policies[Closest(policies)].generation
      <4>1. CASE Closest(policies) = t
        BY <2>2, <3>2, <4>1
      <4>2. CASE Closest(policies) # t
        BY <3>4, <4>2
      <4> QED BY <4>1, <4>2
    <3>6. Some(policies')
      BY DEF Some
    <3> QED BY <3>1, <3>2, <3>3, <3>5, <3>6
  <2> QED BY <2>1, <2>2 DEF Counted
<1> QED BY <1>1, <1>4, <1>5 DEF IInv

(* A new code is never checked against the attempts at an older one.       *)
LEMMA RotatePinKeeps ==
  ASSUME IInv, NEW t \in Targets, RotatePin(t)
  PROVE  IInv'
<1>1. policies' \in [Targets -> Policies \cup {None}] /\ policies'[t] \in Policies
  <2>1. CASE policies[t] = None
    <3>1. [enabled |-> FALSE, generation |-> 1] \in Policies
      BY PrivateAccessAssumption DEF Policies, Generations
    <3> QED BY <2>1, <3>1 DEF IInv, RowsTypeOK, RotatePin
  <2>2. CASE policies[t] # None
    <3>1. policies[t] \in Policies
      BY <2>2 DEF IInv, RowsTypeOK
    <3>2. [policies[t] EXCEPT !.generation = @ + 1] \in Policies
      BY <2>2, <3>1, PrivateAccessAssumption DEF RotatePin, Policies, Generations
    <3> QED BY <2>2, <3>2 DEF IInv, RowsTypeOK, RotatePin
  <2> QED BY <2>1, <2>2
<1>2. RowsTypeOK'
  BY <1>1 DEF IInv, RowsTypeOK, RotatePin, Attempts
<1>3. policies'[t] # None
  BY <1>1, PrivateAccessAssumption
<1>4. \A u \in Targets \ {t} : policies'[u] = policies[u]
  BY DEF IInv, RowsTypeOK, RotatePin
<1>5. /\ attempts' = attempts \/ attempts' = None
      /\ attempts' # attempts => attempts # None /\ attempts.target = t
      /\ wrong' \in {0, wrong} /\ (Closest(policies') = t => wrong' = 0)
      /\ ~ Held(t) /\ UNCHANGED unlocks
  BY DEF RotatePin
<1> QED BY <1>2, <1>3, <1>4, <1>5, PolicyKeeps

(* Enabling a code, or closing the space, keeps what was counted.          *)
LEMMA SetEnabledKeeps ==
  ASSUME IInv, NEW t \in Targets, NEW enabled \in BOOLEAN, SetEnabled(t, enabled)
  PROVE  IInv'
<1>1. /\ policies' \in [Targets -> Policies \cup {None}] /\ policies'[t] \in Policies
      /\ policies[t] # None => policies'[t].generation = policies[t].generation
  <2>1. CASE policies[t] = None
    BY <2>1, PrivateAccessAssumption DEF IInv, RowsTypeOK, SetEnabled, Policies, Generations
  <2>2. CASE policies[t] # None
    <3>1. policies[t] \in Policies
      BY <2>2 DEF IInv, RowsTypeOK
    <3>2. /\ [policies[t] EXCEPT !.enabled = enabled] \in Policies
          /\ [policies[t] EXCEPT !.enabled = enabled].generation = policies[t].generation
      BY <3>1 DEF Policies
    <3> QED BY <2>2, <3>2 DEF IInv, RowsTypeOK, SetEnabled
  <2> QED BY <2>1, <2>2
<1>2. RowsTypeOK'
  BY <1>1 DEF IInv, RowsTypeOK, SetEnabled
<1>3. policies'[t] # None
  BY <1>1, PrivateAccessAssumption
<1>4. \A u \in Targets \ {t} : policies'[u] = policies[u]
  BY DEF IInv, RowsTypeOK, SetEnabled
<1>5. /\ attempts' = attempts /\ wrong' \in {0, wrong} /\ ~ Held(t) /\ UNCHANGED unlocks
      /\ policies[t] = None /\ Closest(policies') = t => wrong' = 0
  BY DEF SetEnabled
<1>6. policies[t] # None => Closest(policies') = Closest(policies)
  BY <1>3, <1>4, ClosestOfSame DEF Given
<1> QED BY <1>1, <1>2, <1>3, <1>4, <1>5, <1>6, PolicyKeeps

(* A television that sends a code checks nothing yet...                    *)
LEMMA SendKeeps ==
  ASSUME IInv, NEW r \in Requests, NEW code \in Codes, NEW generation \in Generations,
         Send(r, code, generation)
  PROVE  IInv'
<1>1. RowsTypeOK'
  <2>1. [NoUnlock EXCEPT !.pc = "sent", !.awaited = TRUE, !.code = code,
                         !.generation = generation] \in UnlockRows
    BY NoUnlockTyped DEF UnlockRows
  <2> QED BY <2>1 DEF IInv, RowsTypeOK, Send
<1>2. \A s \in Requests : unlocks'[s].pc = "checking" =>
        /\ unlocks[s].pc = "checking" /\ unlocks'[s].target = unlocks[s].target
        /\ unlocks'[s].seen = unlocks[s].seen
  BY DEF IInv, RowsTypeOK, UnlockRows, Send, NoUnlock
<1> QED BY <1>1, <1>2, NobodyNewKeeps DEF Send

(* ... and one that gives up stops nothing.                                *)
LEMMA LeaveKeeps ==
  ASSUME IInv, NEW taken \in SUBSET Requests, Leave(taken)
  PROVE  IInv'
<1>1. RowsTypeOK'
  <2>1. \A r \in Requests : [unlocks[r] EXCEPT !.awaited = FALSE] \in UnlockRows
    BY DEF IInv, RowsTypeOK, UnlockRows
  <2> QED BY <2>1, NoUnlockTyped DEF IInv, RowsTypeOK, Leave
<1>2. \A s \in Requests : unlocks'[s].pc = "checking" =>
        /\ unlocks[s].pc = "checking" /\ unlocks'[s].target = unlocks[s].target
        /\ unlocks'[s].seen = unlocks[s].seen
  BY DEF IInv, RowsTypeOK, UnlockRows, Leave, NoUnlock
<1> QED BY <1>1, <1>2, NobodyNewKeeps DEF Leave

(* Answering ends what a request was doing.                                *)
LEMMA AnswerEnds ==
  ASSUME RowsTypeOK, NEW r \in Requests, NEW answer \in Answers, Answer(r, answer)
  PROVE  /\ unlocks' \in [Requests -> UnlockRows]
         /\ unlocks'[r].pc # "checking"
         /\ \A s \in Requests \ {r} : unlocks'[s] = unlocks[s]
<1> DEFINE row == IF unlocks[r].awaited
                  THEN [NoUnlock EXCEPT !.pc = "answered", !.awaited = TRUE, !.answer = answer]
                  ELSE NoUnlock
<1>1. row \in UnlockRows /\ row.pc # "checking"
  BY NoUnlockTyped DEF UnlockRows, NoUnlock
<1>2. unlocks' = [unlocks EXCEPT ![r] = row]
  BY DEF Answer
<1> HIDE DEF row
<1> QED BY <1>1, <1>2 DEF RowsTypeOK

(* A transaction starts alone, with what it reads.                         *)
LEMMA UnlockKeeps ==
  ASSUME IInv, NEW r \in Requests, Unlock(r)
  PROVE  IInv'
<1>1. CASE \E answer \in Answers : Answer(r, answer)
  <2>1. PICK answer \in Answers : Answer(r, answer)
    BY <1>1
  <2>2. RowsTypeOK'
    BY <2>1, AnswerEnds DEF IInv, RowsTypeOK, Unlock
  <2>3. \A s \in Requests : unlocks'[s].pc = "checking" =>
          unlocks[s].pc = "checking" /\ unlocks'[s] = unlocks[s]
    BY <2>1, AnswerEnds DEF IInv
  <2> QED BY <2>2, <2>3, NobodyNewKeeps DEF Unlock
<1>2. CASE /\ Usable /\ ~ (OfThisCode(attempts) /\ attempts.lock = "running")
           /\ unlocks' = [unlocks EXCEPT ![r].pc = "checking", ![r].target = Closest(policies),
                                         ![r].seen = attempts]
  <2>1. Some(policies)
    BY <1>2 DEF Usable, InForce
  <2>2. Closest(policies) \in Targets /\ policies[Closest(policies)] # None
    BY <2>1, ClosestIsLowest DEF Given
  <2>3. RowsTypeOK'
    <3> DEFINE row == [unlocks[r] EXCEPT !.pc = "checking", !.target = Closest(policies),
                                         !.seen = attempts]
    <3>1. row \in UnlockRows
      BY <2>2 DEF IInv, RowsTypeOK, UnlockRows
    <3>2. unlocks' = [unlocks EXCEPT ![r] = row]
      BY <1>2 DEF IInv, RowsTypeOK, UnlockRows
    <3> HIDE DEF row
    <3> QED BY <3>1, <3>2 DEF IInv, RowsTypeOK, Unlock
  <2>4. /\ unlocks'[r].target = Closest(policies) /\ unlocks'[r].seen = attempts
        /\ \A s \in Requests \ {r} : unlocks'[s] = unlocks[s] /\ unlocks'[s].pc # "checking"
    BY <1>2 DEF IInv, RowsTypeOK, UnlockRows, Unlock, ScreenFree
  <2>5. Alone'
    BY <2>4 DEF Alone
  <2>6. StillTrue'
    <3> SUFFICES ASSUME NEW s \in Requests, unlocks'[s].pc = "checking"
                 PROVE  StillTrueOf(unlocks[s])'
      BY DEF StillTrue
    <3>1. s = r
      BY <2>4
    <3> QED BY <1>2, <2>1, <2>2, <2>4, <3>1
        DEF StillTrueOf, Unlock, OfThisCode, InForce
  <2>7. Counted'
    BY DEF IInv, Counted, Unlock
  <2> QED BY <2>3, <2>5, <2>6, <2>7 DEF IInv
<1> QED BY <1>1, <1>2 DEF Unlock, Check, Answers

(* The only transaction ends.                                              *)
LEMMA DecidedIsAlone ==
  ASSUME IInv, NEW r \in Requests, unlocks[r].pc = "checking",
         NEW answer \in Answers, Answer(r, answer)
  PROVE  \A s \in Requests : unlocks'[s].pc # "checking"
BY AnswerEnds DEF IInv, Alone

(* A right code clears the count; a wrong one is counted, in what is still *)
(* true of the row.                                                        *)
LEMMA DecideKeeps ==
  ASSUME IInv, NEW r \in Requests, Decide(r)
  PROVE  IInv'
<1> DEFINE u == unlocks[r]
<1>1. unlocks[r].pc = "checking" /\ StillTrueOf(u) /\ u.target \in Targets
  BY DEF Decide, IInv, StillTrue, StillTrueOf
<1>2. policies[u.target] \in Policies
  BY <1>1 DEF IInv, RowsTypeOK, StillTrueOf
<1>3. CASE Grant(r)
  <2>1. Answer(r, "granted") /\ "granted" \in Answers
    BY <1>3 DEF Grant, Answers
  <2>2. \A s \in Requests : unlocks'[s].pc # "checking"
    BY <1>1, <2>1, DecidedIsAlone
  <2>3. RowsTypeOK'
    BY <1>3, <2>1, AnswerEnds DEF IInv, RowsTypeOK, Grant, Decide, Attempts
  <2>4. Alone' /\ StillTrue'
    BY <2>2 DEF Alone, StillTrue
  <2>5. Counted'
    BY <1>3 DEF Grant, Counted
  <2> QED BY <2>3, <2>4, <2>5 DEF IInv
<1>4. CASE Refuse(r)
  <2> DEFINE generation == policies[u.target].generation
             mine == /\ u.seen # None /\ u.seen.target = u.target
                     /\ u.seen.generation = generation /\ u.seen.lock = "none"
             before == IF mine THEN u.seen.failed ELSE 0
             failed == IF before + 1 > MaxAttempts THEN MaxAttempts ELSE before + 1
             row == [target |-> u.target, generation |-> generation, failed |-> failed,
                     lock |-> IF failed >= MaxAttempts THEN "running" ELSE "none"]
  <2>1. /\ attempts' = row
        /\ wrong' = IF u.target = Closest(policies) THEN wrong + 1 ELSE wrong
        /\ \E answer \in Answers : Answer(r, answer)
    BY <1>4 DEF Refuse, Answers
  <2>2. u.seen # None => u.seen \in AttemptRows
    BY DEF IInv, RowsTypeOK, UnlockRows, Attempts
  <2>3. before \in 0..MaxAttempts /\ failed \in 1..MaxAttempts /\ generation \in Generations
    BY <1>2, <2>2, PrivateAccessAssumption DEF AttemptRows, Policies
  <2>4. row \in AttemptRows
    BY <1>1, <2>3 DEF AttemptRows
  <2>5. PICK answer \in Answers : Answer(r, answer)
    BY <2>1
  <2>6. \A s \in Requests : unlocks'[s].pc # "checking"
    BY <1>1, <2>5, DecidedIsAlone
  <2>7. RowsTypeOK'
    <3>1. attempts' \in Attempts
      BY <2>1, <2>4 DEF Attempts
    <3>2. wrong' \in Nat
      BY <2>1 DEF IInv, RowsTypeOK
    <3> QED BY <2>5, <3>1, <3>2, AnswerEnds DEF IInv, RowsTypeOK, Decide
  <2>8. Alone' /\ StillTrue'
    BY <2>6 DEF Alone, StillTrue
  <2>9. Counted'
    <3>1. attempts' # None /\ attempts'.lock = "none" => attempts'.failed < MaxAttempts
      BY <2>1, <2>3, PrivateAccessAssumption
    <3>2. ASSUME wrong' # 0
          PROVE  u.target = Closest(policies) /\ wrong' = wrong + 1
      BY <1>1, <2>1, <3>2 DEF StillTrueOf
    <3>3. ASSUME wrong # 0, u.target = Closest(policies)
          PROVE  mine /\ wrong <= u.seen.failed /\ u.seen.failed < MaxAttempts
      <4>1. /\ attempts # None /\ attempts.target = u.target
            /\ attempts.generation = generation
            /\ wrong <= attempts.failed /\ attempts.lock # "over"
        BY <3>3 DEF IInv, Counted
      <4>2. attempts = u.seen
        BY <1>1, <2>2, <4>1 DEF StillTrueOf, AttemptRows
      <4>3. u.seen.lock = "none"
        BY <1>1, <2>2, <4>1, <4>2 DEF StillTrueOf, AttemptRows
      <4> QED BY <4>1, <4>2, <4>3 DEF IInv, Counted
    <3>4. ASSUME wrong' # 0
          PROVE  wrong' <= failed
      <4>1. CASE wrong = 0
        BY <2>3, <3>2, <3>4, <4>1
      <4>2. CASE wrong # 0
        <5>1. before = u.seen.failed /\ wrong <= before /\ before < MaxAttempts
          BY <3>2, <3>3, <3>4, <4>2
        <5>2. wrong \in Nat
          BY DEF IInv, RowsTypeOK
        <5> QED BY <2>3, <3>2, <3>4, <5>1, <5>2, PrivateAccessAssumption
      <4> QED BY <4>1, <4>2
    <3>5. row # None
      BY <2>4, PrivateAccessAssumption
    <3>6. policies' = policies /\ Some(policies)
      BY <1>1 DEF Decide, StillTrueOf, Some
    <3> QED BY <2>1, <3>1, <3>2, <3>4, <3>5, <3>6 DEF Counted
  <2> QED BY <2>7, <2>8, <2>9 DEF IInv
<1> QED BY <1>3, <1>4 DEF Decide

(* A transaction that is rolled back counted nothing.                      *)
LEMMA AbortKeeps ==
  ASSUME IInv, NEW r \in Requests, Abort(r)
  PROVE  IInv'
<1>1. Answer(r, "unavailable") /\ "unavailable" \in Answers
  BY DEF Abort, Answers
<1>2. RowsTypeOK'
  BY <1>1, AnswerEnds DEF IInv, RowsTypeOK, Abort
<1>3. \A s \in Requests : unlocks'[s].pc = "checking" =>
        unlocks[s].pc = "checking" /\ unlocks'[s] = unlocks[s]
  BY <1>1, AnswerEnds DEF IInv
<1> QED BY <1>2, <1>3, NobodyNewKeeps DEF Abort

(* The end of a lockout starts a new count.                                *)
LEMMA LockoutEndsKeeps ==
  ASSUME IInv, LockoutEnds
  PROVE  IInv'
<1>1. attempts \in AttemptRows /\ attempts.lock = "running"
  BY DEF IInv, RowsTypeOK, LockoutEnds, Attempts
<1>2. attempts' \in AttemptRows /\ attempts'.lock = "over"
  BY <1>1 DEF LockoutEnds, AttemptRows
<1>3. RowsTypeOK'
  BY <1>2 DEF IInv, RowsTypeOK, LockoutEnds, Attempts
<1>4. Alone'
  BY DEF IInv, Alone, LockoutEnds
<1>5. StillTrue'
  <2> SUFFICES ASSUME NEW r \in Requests, unlocks[r].pc = "checking"
               PROVE  StillTrueOf(unlocks[r])'
    BY DEF StillTrue, LockoutEnds
  <2>1. StillTrueOf(unlocks[r])
    BY DEF IInv, StillTrue
  <2>2. unlocks[r].seen # None => unlocks[r].seen \in AttemptRows
    BY DEF IInv, RowsTypeOK, UnlockRows, Attempts
  <2>3. attempts = unlocks[r].seen
    BY <1>1, <2>1, <2>2 DEF StillTrueOf, AttemptRows
  <2> QED BY <1>1, <2>1, <2>3, PrivateAccessAssumption DEF StillTrueOf, LockoutEnds
<1>6. Counted'
  BY <1>2 DEF LockoutEnds, Counted
<1> QED BY <1>3, <1>4, <1>5, <1>6 DEF IInv

----------------------------------------------------------------------------
(* Every step of the server preserves the invariant.                       *)
LEMMA NextKeeps == IInv /\ [ServerNext]_server => IInv'
<1> SUFFICES ASSUME IInv, [ServerNext]_server PROVE IInv' OBVIOUS
<1>1. ASSUME NEW t \in Targets, RotatePin(t) PROVE IInv'
  BY <1>1, RotatePinKeeps
<1>2. ASSUME NEW t \in Targets, NEW enabled \in BOOLEAN, SetEnabled(t, enabled) PROVE IInv'
  BY <1>2, SetEnabledKeeps
<1>3. ASSUME NEW r \in Requests, Unlock(r) \/ Decide(r) \/ Abort(r) PROVE IInv'
  BY <1>3, UnlockKeeps, DecideKeeps, AbortKeeps
<1>4. ASSUME LockoutEnds PROVE IInv'
  BY <1>4, LockoutEndsKeeps
<1>5. ASSUME NEW r \in Requests, NEW code \in Codes, NEW generation \in Generations,
             Send(r, code, generation)
      PROVE  IInv'
  BY <1>5, SendKeeps
<1>6. ASSUME NEW taken \in SUBSET Requests, Leave(taken) PROVE IInv'
  BY <1>6, LeaveKeeps
<1>7. ASSUME UNCHANGED <<policies, attempts, unlocks, wrong>> PROVE IInv'
  <2>1. RowsTypeOK'
    BY <1>7 DEF IInv, RowsTypeOK
  <2> QED BY <1>7, <2>1, NobodyNewKeeps
<1>8. CASE \/ UNCHANGED server \/ Reported \/ ReportLost
           \/ \E items \in SUBSET Applications : Report(items)
           \/ \E t \in Targets, applications \in SUBSET Applications :
                SetSources(t, applications)
  BY <1>7, <1>8 DEF server, Reported, ReportLost, Report, SetSources
<1> QED BY <1>1, <1>2, <1>3, <1>4, <1>5, <1>6, <1>8
    DEF ServerNext, Studio, Database, Television

(* One transaction at a time, what it read still true, every wrong code    *)
(* counted: POST /tv/private-access/unlock.                                *)
THEOREM AccessInvariant == ServerSpec => []IInv
<1>1. ServerInit => IInv
  BY InitKeeps
<1>2. IInv /\ [ServerNext]_server => IInv'
  BY NextKeeps
<1> QED BY <1>1, <1>2, PTL DEF ServerSpec

(* Whatever requests cross, a code in force is never tried wrongly more    *)
(* than MaxAttempts times before a lockout.                                *)
THEOREM Lockout == ServerSpec => []LockoutHolds
<1>1. IInv => LockoutHolds
  BY PrivateAccessAssumption
     DEF IInv, RowsTypeOK, Counted, LockoutHolds, Attempts, AttemptRows
<1>2. ServerSpec => []IInv
  BY AccessInvariant
<1> QED BY <1>1, <1>2, PTL

----------------------------------------------------------------------------
(* The inventory: what a report is about to write was in the allowlist it  *)
(* read; so only one that crosses a change leaves an application outside.  *)
InAllowlist ==
  /\ report.pc = "open" => report.items \subseteq report.allowed
  /\ ~ crossed => statuses \subseteq Allowed

(* No step of the server leaves an inventory outside the allowlist.        *)
LEMMA InAllowlistStep == InAllowlist /\ [ServerNext]_server => InAllowlist'
<1> SUFFICES ASSUME InAllowlist, [ServerNext]_server PROVE InAllowlist' OBVIOUS
<1>1. ASSUME UNCHANGED <<sources, statuses, report, crossed>> PROVE InAllowlist'
  BY <1>1 DEF InAllowlist, Allowed
<1>2. ASSUME NEW t \in Targets, NEW applications, SetSources(t, applications) PROVE InAllowlist'
  <2>1. statuses' = statuses \cap Allowed' /\ report' = report
    BY <1>2 DEF SetSources, Purged, Allowed
  <2> QED BY <2>1 DEF InAllowlist
<1>3. ASSUME NEW items, Report(items) PROVE InAllowlist'
  <2>1. Allowed' = Allowed /\ UNCHANGED <<statuses, crossed>>
    BY <1>3 DEF Report, Allowed
  <2>2. report'.items \subseteq report'.allowed
    BY <1>3 DEF Report
  <2> QED BY <2>1, <2>2 DEF InAllowlist
<1>4. ASSUME Reported PROVE InAllowlist'
  <2>1. Allowed' = Allowed /\ report'.pc = "idle"
    BY <1>4 DEF Reported, Allowed, NoReport
  <2>2. report.items \subseteq report.allowed
    BY <1>4 DEF Reported, InAllowlist
  <2>3. ~ crossed' => report.allowed = Allowed
    BY <1>4 DEF Reported
  <2> QED BY <1>4, <2>1, <2>2, <2>3 DEF Reported, InAllowlist
<1>5. ASSUME ReportLost PROVE InAllowlist'
  BY <1>5 DEF ReportLost, InAllowlist, NoReport, Allowed
<1>6. CASE \/ \E t \in Targets :
                RotatePin(t) \/ \E enabled \in BOOLEAN : SetEnabled(t, enabled)
           \/ LockoutEnds
           \/ \E r \in Requests : Unlock(r) \/ Decide(r) \/ Abort(r)
           \/ \E r \in Requests, code \in Codes, generation \in Generations :
                Send(r, code, generation)
           \/ \E taken \in SUBSET Requests : Leave(taken)
           \/ UNCHANGED server
  BY <1>1, <1>6 DEF RotatePin, SetEnabled, LockoutEnds, Unlock, Decide, Abort, Send, Leave, server
<1> QED BY <1>2, <1>3, <1>4, <1>5, <1>6 DEF ServerNext, Studio, Database, Television

(* Only a report that crosses a change of the allowlist leaves in the      *)
(* inventory what the allowlist does not hold.                             *)
THEOREM InventoryFollows == ServerSpec => []InventoryAllowed
<1>1. ServerInit => InAllowlist
  BY DEF ServerInit, InAllowlist, NoReport
<1>2. InAllowlist => InventoryAllowed
  BY DEF InAllowlist, InventoryAllowed
<1> QED BY <1>1, <1>2, InAllowlistStep, PTL DEF ServerSpec

----------------------------------------------------------------------------
(* Queues.                                                                 *)

(* What is in a queue.                                                     *)
In(q) == {q[i] : i \in 1..Len(q)}

(* A queue that is appended to.                                            *)
LEMMA InAppend ==
  ASSUME NEW S, NEW q \in Seq(S), NEW x \in S
  PROVE  /\ Append(q, x) \in Seq(S) /\ Append(q, x) # <<>>
         /\ In(Append(q, x)) = In(q) \cup {x}
         /\ q # <<>> => Head(Append(q, x)) = Head(q)
<1>1. /\ Append(q, x) \in Seq(S) /\ Append(q, x) # <<>> /\ Len(Append(q, x)) = Len(q) + 1
      /\ \A i \in 1..Len(q) : Append(q, x)[i] = q[i]
      /\ Append(q, x)[Len(q) + 1] = x
  BY AppendProperties
<1>2. Len(q) \in Nat /\ 1..(Len(q) + 1) = 1..Len(q) \cup {Len(q) + 1}
  BY LenProperties
<1>3. In(Append(q, x)) = In(q) \cup {x}
  BY <1>1, <1>2 DEF In
<1>4. q # <<>> => 1 \in 1..Len(q)
  BY EmptySeq, <1>2
<1> QED BY <1>1, <1>3, <1>4

(* Whatever it is.                                                         *)
LEMMA InAppendAny ==
  ASSUME NEW S, NEW q \in Seq(S), NEW x
  PROVE  In(Append(q, x)) = In(q) \cup {x}
<1>1. q \in Seq(S \cup {x}) /\ x \in S \cup {x}
  BY SeqMonotonic
<1> QED BY <1>1, InAppend

(* A queue whose head is taken.                                            *)
LEMMA InTail ==
  ASSUME NEW S, NEW q \in Seq(S), q # <<>>
  PROVE  /\ Head(q) \in S /\ Tail(q) \in Seq(S)
         /\ In(q) = {Head(q)} \cup In(Tail(q))
<1>1. /\ Head(q) \in S /\ Tail(q) \in Seq(S) /\ Len(Tail(q)) = Len(q) - 1
      /\ \A i \in 1..Len(Tail(q)) : Tail(q)[i] = q[i + 1]
  BY HeadTailProperties
<1>2. Len(q) \in Nat \ {0}
  BY EmptySeq, LenProperties
<1>3. Head(q) = q[1]
  OBVIOUS
<1>4. ASSUME NEW i \in 1..Len(q) PROVE q[i] \in {Head(q)} \cup In(Tail(q))
  <2>1. CASE i = 1
    BY <1>3, <2>1
  <2>2. CASE i # 1
    <3>1. i - 1 \in 1..Len(Tail(q)) /\ Tail(q)[i - 1] = q[i]
      BY <1>1, <1>2, <2>2
    <3> QED BY <3>1 DEF In
  <2> QED BY <2>1, <2>2
<1>5. ASSUME NEW i \in 1..Len(Tail(q)) PROVE Tail(q)[i] \in In(q)
  BY <1>1, <1>2 DEF In
<1>6. Head(q) \in In(q)
  BY <1>2, <1>3 DEF In
<1> QED BY <1>1, <1>4, <1>5, <1>6 DEF In

(* A queue whose head is replaced.                                         *)
LEMMA InReplace ==
  ASSUME NEW S, NEW q \in Seq(S), q # <<>>, NEW x \in S
  PROVE  /\ [q EXCEPT ![1] = x] \in Seq(S) /\ [q EXCEPT ![1] = x] # <<>>
         /\ Head([q EXCEPT ![1] = x]) = x
         /\ In([q EXCEPT ![1] = x]) = {x} \cup In(Tail(q))
<1> DEFINE r == [q EXCEPT ![1] = x]
<1>1. Len(q) \in Nat \ {0}
  BY EmptySeq, LenProperties
<1>2. r \in Seq(S) /\ Len(r) = Len(q) /\ \A i \in 1..Len(q) : r[i] = IF i = 1 THEN x ELSE q[i]
  BY <1>1, ExceptSeq
<1>3. r # <<>> /\ Head(r) = x
  BY <1>1, <1>2, EmptySeq
<1>4. Tail(r) \in Seq(S) /\ Tail(q) \in Seq(S)
  BY <1>2, <1>3, HeadTailProperties
<1>5. Tail(r) = Tail(q)
  <2>1. /\ Len(Tail(r)) = Len(r) - 1 /\ \A i \in 1..Len(Tail(r)) : Tail(r)[i] = r[i + 1]
        /\ Len(Tail(q)) = Len(q) - 1 /\ \A i \in 1..Len(Tail(q)) : Tail(q)[i] = q[i + 1]
    BY <1>2, <1>3, HeadTailProperties
  <2>2. \A i \in 1..Len(Tail(q)) : i + 1 \in 1..Len(q) /\ i + 1 # 1
    BY <1>1, <2>1
  <2>3. Len(Tail(r)) = Len(Tail(q)) /\ \A i \in 1..Len(Tail(q)) : Tail(r)[i] = Tail(q)[i]
    BY <1>2, <2>1, <2>2
  <2> QED BY <1>4, <2>3, SeqEqual
<1> QED BY <1>2, <1>3, <1>5, InTail

(* A queue of one job.                                                     *)
LEMMA InOne ==
  ASSUME NEW S, NEW x \in S
  PROVE  /\ <<x>> \in Seq(S) /\ <<x>> # <<>> /\ Head(<<x>>) = x
         /\ In(<<x>>) = {x} /\ In(<<>>) = {}
BY DEF In

----------------------------------------------------------------------------
(* The device policy.                                                      *)

(* What is hidden stays known: to the preferences, or to what is about to  *)
(* be persisted in their place.                                            *)
LEMMA PolicyDoes ==
  ASSUME TypeOK, hidden \subseteq Known(kept) \cup lost, UNCHANGED <<kept, lost>>,
         NEW by \in {"main", "presence", "worker", "orphan"},
         NEW desired \in SUBSET Applications, NEW hide \in BOOLEAN, NEW opens \in BOOLEAN,
         Policy(by, desired, hide, opens)
  PROVE  /\ holder' \in Holders /\ holder'.by = by /\ holder'.opens = opens
         /\ hidden' \subseteq Applications /\ refused' \subseteq Applications
         /\ hidden' \subseteq Known(kept) \cup lost \cup Known(holder'.kept)
         /\ hidden' \subseteq Known(holder'.kept) \cup lost \cup TakenBack'
         /\ hide => holder'.kept.managed \subseteq hidden' \cup refused'
<1>1. PICK refusals \in SUBSET Refusable :
        LET manage == desired \cap installed
            release == ToRelease(manage)
            pending == release \cap refusals
            managed == IF pending = {} THEN manage ELSE manage \cap kept.managed
            shown == (IF hide THEN release ELSE release \cup managed) \ refusals
        IN /\ hidden' = (hidden \ shown) \cup (IF hide THEN managed \ refusals ELSE {})
           /\ refused' = (refused \ (release \cup managed))
                           \cup ((release \cup managed) \cap refusals)
           /\ holder' = [by |-> by, opens |-> opens,
                         kept |-> [desired |-> desired, managed |-> managed,
                                   pending |-> pending]]
  BY DEF Policy
<1> DEFINE manage == desired \cap installed
           release == ToRelease(manage)
           pending == release \cap refusals
           managed == IF pending = {} THEN manage ELSE manage \cap kept.managed
           shown == (IF hide THEN release ELSE release \cup managed) \ refusals
<1>2. /\ hidden' = (hidden \ shown) \cup (IF hide THEN managed \ refusals ELSE {})
      /\ refused' = (refused \ (release \cup managed)) \cup ((release \cup managed) \cap refusals)
      /\ holder' = [by |-> by, opens |-> opens,
                    kept |-> [desired |-> desired, managed |-> managed, pending |-> pending]]
  BY <1>1
<1>3. release = (kept.managed \cup kept.pending) \ manage
  BY DEF ToRelease
<1>4. /\ kept.managed \subseteq Applications /\ kept.pending \subseteq Applications
      /\ hidden \subseteq Applications /\ refused \subseteq Applications
      /\ installed \subseteq Applications
  BY DEF TypeOK, Kept
<1> HIDE DEF release, shown, pending, managed
<1>5. managed \subseteq manage /\ pending \subseteq release /\ release \subseteq Applications
  BY <1>3, <1>4 DEF managed, pending
<1>6. holder'.kept \in Kept
  BY <1>2, <1>4, <1>5 DEF Kept
<1>7. holder' \in Holders /\ holder'.by = by /\ holder'.opens = opens
      /\ holder'.kept.desired = desired /\ holder'.kept.managed = managed
      /\ holder'.kept.pending = pending
  BY <1>2, <1>6 DEF Holders
<1>8. hidden' \subseteq Applications /\ refused' \subseteq Applications
  BY <1>2, <1>4, <1>5
<1>9. hidden' \subseteq Known(kept) \cup lost \cup Known(holder'.kept)
  BY <1>2, <1>7 DEF Known
<1>10. ASSUME NEW a \in hidden', a \notin lost, a \notin managed, a \notin pending
       PROVE  pending # {} /\ a \in kept.pending /\ a \in desired
  <2>1. a \in hidden /\ a \notin shown
    BY <1>2, <1>10
  <2>2. a \in kept.managed \cup kept.pending
    BY <2>1, <1>10 DEF Known
  <2>3. a \in manage
    BY <2>1, <2>2, <1>3, <1>10 DEF shown, pending
  <2>4. pending # {} /\ a \notin kept.managed
    BY <2>3, <1>10 DEF managed
  <2> QED BY <2>2, <2>3, <2>4
<1>11. hidden' \subseteq Known(holder'.kept) \cup lost \cup TakenBack'
  BY <1>7, <1>10 DEF Known, TakenBack
<1>12. hide => holder'.kept.managed \subseteq hidden' \cup refused'
  BY <1>2, <1>7
<1> QED BY <1>7, <1>8, <1>9, <1>11, <1>12

----------------------------------------------------------------------------
(* The television is one of the server's.                                  *)

(* Whatever the television does, the server sees a step of its own.        *)
LEMMA ServerStep ==
  ASSUME TypeOK, [Next]_vars
  PROVE  [ServerNext]_server
<1>1. ASSUME NEW taken, Leave(taken) PROVE ServerNext
  <2>1. Leave(taken \cap Requests)
    BY <1>1 DEF Leave
  <2> QED BY <2>1 DEF ServerNext, Television
<1>2. ASSUME UNCHANGED server PROVE [ServerNext]_server
  BY <1>2
<1>3. ASSUME Serve PROVE ServerNext
  BY <1>3 DEF Serve, ServerNext
<1>4. ASSUME Inventory PROVE ServerNext
  <2>1. snapshot.applications \in SUBSET Applications
    BY DEF TypeOK, Documents
  <2> QED BY <1>4, <2>1 DEF Inventory, ServerNext, Television
<1>5. ASSUME Ask PROVE ServerNext
  <2>1. Head(queue) \in Jobs
    BY <1>5, InTail DEF Ask, TypeOK
  <2>2. /\ Head(queue).code \in Codes
        /\ Head(queue).config.document.generation \in Generations
    BY <2>1 DEF Jobs, Configurations, Documents
  <2> QED BY <1>5, <2>2 DEF Ask, ServerNext, Television
<1>6. ASSUME Answered PROVE ServerNext
  BY <1>1, <1>6 DEF Answered
<1>7. ASSUME Release \/ Kill \/ KeepFails PROVE ServerNext
  BY <1>1, <1>7 DEF Release, Kill, KeepFails, Dies
<1>8. ASSUME \/ Keep \/ Reconcile \/ Main \/ Lock \/ ScreenOff \/ Create
             \/ \E code \in Typed : Submit(code)
             \/ \E a \in Applications : Install(a)
             \/ \E thread \in {"worker", "orphan"} : Verify(thread) \/ Apply(thread)
      PROVE  UNCHANGED server
  BY <1>8 DEF Keep, Reconcile, Main, Sync, Receive, Start, Lock, ScreenOff, Create, Submit,
              Install, Verify, Apply
<1>9. CASE UNCHANGED vars
  BY <1>9 DEF vars
<1> QED BY <1>2, <1>3, <1>4, <1>5, <1>6, <1>7, <1>8, <1>9 DEF Next, People, Threads

(* What a synchronisation delivers is a document.                          *)
LEMMA DocumentTyped ==
  ASSUME ServerTypeOK
  PROVE  Document \in Documents
<1>1. InForce \in Policies
  <2>1. CASE Some(policies)
    <3>1. Closest(policies) \in Given(policies)
      BY <2>1, ClosestIsLowest
    <3> QED BY <2>1, <3>1 DEF InForce, Given, ServerTypeOK, RowsTypeOK
  <2>2. CASE ~ Some(policies)
    BY <2>2, PrivateAccessAssumption DEF InForce, Policies, Generations
  <2> QED BY <2>1, <2>2
<1>2. Allowed \in SUBSET Applications
  <2>1. CASE Some(sources)
    <3>1. Closest(sources) \in Given(sources)
      BY <2>1, ClosestIsLowest
    <3> QED BY <2>1, <3>1 DEF Allowed, AllowedBy, Given, ServerTypeOK
  <2>2. CASE ~ Some(sources)
    BY <2>2 DEF Allowed, AllowedBy
  <2> QED BY <2>1, <2>2
<1> QED BY <1>1, <1>2 DEF Document, Documents, Policies

(* A code that is typed is one a server can have drawn.                    *)
LEMMA TypedAreCodes ==
  ASSUME ServerTypeOK
  PROVE  Typed \subseteq Codes
<1> SUFFICES ASSUME NEW t \in Targets, policies[t] # None
             PROVE  <<t, policies[t].generation>> \in Codes
  BY DEF Typed, Codes
<1>1. policies[t] \in Policies
  BY DEF ServerTypeOK, RowsTypeOK
<1> QED BY <1>1 DEF Policies, Codes

(* The jobs of the overlay are jobs.                                       *)
LEMMA JobTyped ==
  ASSUME TypeOK
  PROVE  /\ Config \in Configurations
         /\ \A kind \in {"ask", "open", "close"} : Job(kind) \in Jobs /\ Job(kind).kind = kind
                                                    /\ Job(kind).config = Config
         /\ \A d \in Documents : Closing(d) \in Jobs /\ Closing(d).kind = "close"
         /\ \A kind \in {"ask", "open", "close"}, code \in Codes :
              LET job == [Job(kind) EXCEPT !.code = code]
              IN job \in Jobs /\ job.kind = kind /\ job.config = Config
<1>1. Config \in Configurations
  BY DEF TypeOK, Config, Configurations, Overlays
<1>2. None \in Codes /\ None \in Requests \cup {None} /\ {} \in SUBSET Applications
  BY DEF Codes
<1>3. ASSUME NEW kind \in {"ask", "open", "close"}
      PROVE  Job(kind) \in Jobs /\ Job(kind).kind = kind /\ Job(kind).config = Config
  BY <1>1, <1>2 DEF Job, Jobs
<1>4. ASSUME NEW d \in Documents PROVE Closing(d) \in Jobs /\ Closing(d).kind = "close"
  <2>1. Enforced(d) \in SUBSET Applications
    BY DEF Enforced, Documents
  <2> QED BY <1>1, <1>2, <2>1 DEF Closing, Job, Jobs
<1>5. ASSUME NEW kind \in {"ask", "open", "close"}, NEW code \in Codes
      PROVE  LET job == [Job(kind) EXCEPT !.code = code]
             IN job \in Jobs /\ job.kind = kind /\ job.config = Config
  BY <1>1, <1>2 DEF Job, Jobs
<1> QED BY <1>1, <1>3, <1>4, <1>5

----------------------------------------------------------------------------
(* The inductive invariant of the television.                              *)

(* What was begun for the present epoch began with a code of that epoch.   *)
Fresh(config) == config.epoch <= ui.epoch /\ (config.epoch = ui.epoch => ui.asked = ui.epoch)
Epochs ==
  /\ ui.asked <= ui.epoch
  /\ \A job \in In(queue) : /\ job.kind # "close" => Fresh(job.config)
                            /\ job.pc = "asked" => job.request \in Requests
  /\ \A post \in In(posts) : Fresh(post.config)
  /\ ui.unlocked => ui.shown /\ Ready(snapshot) /\ ui.asked = ui.epoch
  /\ ~ ui.shown => queue = <<>> /\ posts = <<>>

(* The applications may be seen, or a job is about to hide them.           *)
Minded == Granted \/ orphan # None \/ \E job \in In(queue) : job.kind # "ask"

(* What the holder of POLICY_LOCK did for its job, and will persist.       *)
For(job) == IF holder.opens THEN job.kind = "open" /\ job.pc = "verified"
            ELSE job.kind = "close"
Hid == holder.kept.managed \subseteq hidden \cup refused
Holding == holder # None =>
  /\ holder.by = "worker" => queue # <<>> /\ For(Head(queue))
  /\ holder.by = "orphan" => orphan # None /\ For(orphan)
  /\ holder.opens => holder.by \in {"worker", "orphan"}
  /\ ~ holder.opens /\ holder.by # "presence" => ~ session /\ Hid
  /\ holder.by = "presence" => Minded \/ rounds \/ Hid
  /\ hidden \subseteq Known(holder.kept) \cup lost \cup TakenBack

(* A session, or an application that is seen, has something to end it.     *)
Watched ==
  /\ session => Minded
  /\ alive /\ Exposed # {} => Minded \/ rounds \/ holder # None

DInv == Tracked /\ Epochs /\ Holding /\ Watched

----------------------------------------------------------------------------
(* The types of the television.                                            *)

(* A job of a thread is a job.                                             *)
LEMMA JobOfTyped ==
  ASSUME TypeOK, NEW thread \in {"worker", "orphan"}, Doing(thread)
  PROVE  /\ JobOf(thread) \in Jobs
         /\ thread = "worker" => queue # <<>> /\ JobOf(thread) = Head(queue)
         /\ thread = "orphan" => orphan # None /\ JobOf(thread) = orphan
BY InTail DEF TypeOK, Doing, JobOf

(* A job in the place of another.                                          *)
LEMMA BecomesTyped ==
  ASSUME TypeOK, NEW thread \in {"worker", "orphan"}, Doing(thread),
         NEW job \in Jobs, thread = "orphan" => job.kind # "ask", Becomes(thread, job)
  PROVE  queue' \in Seq(Jobs) /\ orphan' \in {None} \cup {j \in Jobs : j.kind # "ask"}
BY JobOfTyped, InReplace DEF TypeOK, Becomes

(* A job that is done.                                                     *)
LEMMA DoneTyped ==
  ASSUME TypeOK, NEW thread \in {"worker", "orphan"}, Doing(thread), Done(thread)
  PROVE  queue' \in Seq(Jobs) /\ orphan' \in {None} \cup {j \in Jobs : j.kind # "ask"}
BY JobOfTyped, InTail DEF TypeOK, Done

(* A message to the main thread.                                           *)
LEMMA TellTyped ==
  ASSUME TypeOK, NEW message \in {"answered", "opened"}, NEW job \in Jobs,
         NEW answer \in Answers \cup {None}, Tell(message, job, answer)
  PROVE  posts' \in Seq(Posts)
<1>1. [message |-> message, config |-> job.config, answer |-> answer] \in Posts
  BY DEF Jobs, Posts
<1> QED BY <1>1, InAppend DEF Tell, TypeOK

(* A lock, or a change, begins an epoch.                                   *)
LEMMA LockSessionDoes ==
  ASSUME TypeOK, LockSession
  PROVE  /\ session' = FALSE /\ ui' \in Overlays
         /\ ui'.epoch = ui.epoch + 1 /\ ui'.asked = ui.asked
         /\ ui'.unlocked = FALSE /\ ui'.shown = ui.shown
<1>1. /\ ui \in Overlays /\ ui.epoch + 1 \in Nat
      /\ ui' = [ui EXCEPT !.epoch = ui.epoch + 1, !.unlocked = FALSE, !.validating = FALSE]
  BY DEF TypeOK, LockSession, Overlays
<1> QED BY <1>1 DEF LockSession, Overlays

(* Each action keeps the types of the television's state.                  *)
LEMMA TypeKept ==
  ASSUME DInv, ServerTypeOK', [Next]_vars
  PROVE  TypeOK'
<1>t. TypeOK
  BY DEF DInv, Tracked
<1>h. holder = None => hidden \subseteq Known(kept) \cup lost
  BY DEF DInv, Tracked
<1>1. CASE UNCHANGED device
  BY <1>1, <1>t DEF device, TypeOK
<1>2. CASE Ask
  <2>1. PICK r \in Requests :
          Becomes("worker", [Head(queue) EXCEPT !.pc = "asked", !.request = r])
    BY <1>2 DEF Ask
  <2>2. Doing("worker") /\ Head(queue) \in Jobs
    BY <1>2, <1>t, InTail DEF Ask, Doing, TypeOK
  <2>3. [Head(queue) EXCEPT !.pc = "asked", !.request = r] \in Jobs
    BY <2>2 DEF Jobs
  <2>4. queue' \in Seq(Jobs) /\ orphan' \in {None} \cup {j \in Jobs : j.kind # "ask"}
    BY <1>t, <2>1, <2>2, <2>3, BecomesTyped
  <2> QED BY <1>2, <1>t, <2>4 DEF Ask, TypeOK
<1>3. CASE Answered
  <2>1. Doing("worker") /\ Head(queue) \in Jobs /\ Head(queue) \in In(queue)
    BY <1>3, <1>t, InTail DEF Answered, Doing, TypeOK
  <2>2. queue' \in Seq(Jobs) /\ orphan' \in {None} \cup {j \in Jobs : j.kind # "ask"}
    BY <1>3, <1>t, <2>1, DoneTyped DEF Answered
  <2>3. PICK reply \in Answers \cup {None} : Tell("answered", Head(queue), reply)
    <3>1. CASE Head(queue).pc = "asked"
      <4>1. unlocks[Head(queue).request] \in UnlockRows
        BY <1>t, <2>1, <3>1 DEF DInv, Epochs, TypeOK, ServerTypeOK, RowsTypeOK
      <4>2. unlocks[Head(queue).request].answer \in Answers \cup {None}
        BY <4>1 DEF UnlockRows
      <4> QED BY <1>3, <4>2 DEF Answered, Answers
    <3>2. CASE Head(queue).pc # "asked"
      BY <1>3, <3>2 DEF Answered, Answers
    <3> QED BY <3>1, <3>2
  <2>4. posts' \in Seq(Posts)
    BY <1>t, <2>1, <2>3, TellTyped
  <2> QED BY <1>3, <1>t, <2>2, <2>4 DEF Answered, TypeOK
<1>4. ASSUME NEW thread \in {"worker", "orphan"}, Verify(thread)
      PROVE  TypeOK'
  <2> DEFINE job == JobOf(thread)
  <2>1. Doing(thread) /\ job \in Jobs /\ snapshot \in Documents
    BY <1>4, <1>t, JobOfTyped DEF Verify, TypeOK
  <2>2. CASE Done(thread) /\ Tell("opened", job, None)
    <3>1. queue' \in Seq(Jobs) /\ orphan' \in {None} \cup {j \in Jobs : j.kind # "ask"}
      BY <1>t, <2>1, <2>2, DoneTyped
    <3>2. posts' \in Seq(Posts)
      BY <1>t, <2>1, <2>2, TellTyped
    <3> QED BY <1>4, <1>t, <3>1, <3>2 DEF Verify, TypeOK
  <2>3. ASSUME NEW next \in Jobs, next.kind # "ask", Becomes(thread, next), UNCHANGED posts
        PROVE  TypeOK'
    <3>1. queue' \in Seq(Jobs) /\ orphan' \in {None} \cup {j \in Jobs : j.kind # "ask"}
      BY <1>t, <2>1, <2>3, BecomesTyped
    <3> QED BY <1>4, <1>t, <2>3, <3>1 DEF Verify, TypeOK
  <2>4. /\ [job EXCEPT !.pc = "verified"] \in Jobs
        /\ [job EXCEPT !.pc = "verified"].kind = job.kind
        /\ [job EXCEPT !.kind = "close", !.pc = "new"] \in Jobs
        /\ [job EXCEPT !.kind = "close", !.pc = "new"].kind = "close"
        /\ Closing(snapshot) \in Jobs /\ Closing(snapshot).kind = "close"
    BY <1>t, <2>1, JobTyped DEF Jobs
  <2> QED BY <1>4, <2>2, <2>3, <2>4 DEF Verify
<1>5. ASSUME NEW thread \in {"worker", "orphan"}, Apply(thread)
      PROVE  TypeOK'
  <2> DEFINE job == JobOf(thread)
  <2>1. Doing(thread) /\ job \in Jobs /\ holder = None /\ alive
    BY <1>5, <1>t, JobOfTyped DEF Apply, Unheld
  <2>2. /\ job.applications \in SUBSET Applications
        /\ job.config.document.applications \in SUBSET Applications
    BY <2>1 DEF Jobs, Configurations, Documents
  <2>3. /\ holder' \in Holders /\ session' \in BOOLEAN
        /\ hidden' \subseteq Applications /\ refused' \subseteq Applications
    BY <1>5, <1>t, <1>h, <2>1, <2>2, PolicyDoes DEF Apply, TypeOK
  <2> QED BY <1>5, <1>t, <2>1, <2>3 DEF Apply, TypeOK
<1>6. CASE Keep
  <2>1. holder \in Holders /\ alive
    BY <1>6, <1>t DEF Keep, TypeOK
  <2>2. kept' \in Kept /\ session' \in BOOLEAN /\ lost' \subseteq Applications
    BY <1>6, <1>t, <2>1 DEF Keep, TypeOK, Holders, Kept, TakenBack
  <2>3. queue' \in Seq(Jobs) /\ orphan' \in {None} \cup {j \in Jobs : j.kind # "ask"}
    <3>1. CASE holder.by \notin {"worker", "orphan"}
      BY <1>6, <1>t, <3>1 DEF Keep, TypeOK
    <3>2. CASE holder.by \in {"worker", "orphan"}
      <4> DEFINE job == JobOf(holder.by)
      <4>1. Doing(holder.by) /\ For(job)
        BY <1>6, <3>2 DEF Keep, DInv, Holding, Doing, JobOf
      <4>2. job \in Jobs
        BY <1>t, <3>2, <4>1, JobOfTyped
      <4>3. CASE Done(holder.by)
        BY <1>t, <3>2, <4>1, <4>3, DoneTyped
      <4>4. CASE Becomes(holder.by, [job EXCEPT !.pc = "applied"]) /\ job.kind # "close"
        <5>1. [job EXCEPT !.pc = "applied"] \in Jobs
          BY <4>2 DEF Jobs
        <5>2. [job EXCEPT !.pc = "applied"].kind # "ask"
          BY <4>1, <4>2, <4>4 DEF For, Jobs
        <5> QED BY <1>t, <3>2, <4>1, <4>4, <5>1, <5>2, BecomesTyped
      <4> QED BY <1>6, <3>2, <4>3, <4>4 DEF Keep
    <3> QED BY <3>1, <3>2
  <2> QED BY <1>6, <1>t, <2>1, <2>2, <2>3 DEF Keep, TypeOK
<1>7. CASE Reconcile
  <2>1. /\ holder' \in Holders
        /\ hidden' \subseteq Applications /\ refused' \subseteq Applications
    BY <1>7, <1>t, <1>h, PolicyDoes DEF Reconcile, Unheld, TypeOK, Kept
  <2> QED BY <1>7, <1>t, <2>1 DEF Reconcile, Unheld, TypeOK
<1>8. CASE Sync
  <2>1. Document \in Documents
    BY <1>t, DocumentTyped DEF TypeOK
  <2>2. queue' \in Seq(Jobs)
    BY <1>8, <1>t, <2>1, JobTyped, InAppend DEF Sync, TypeOK
  <2>3. ui' \in Overlays /\ session' = FALSE
    BY <1>8, <1>t, LockSessionDoes DEF Sync, TypeOK
  <2> QED BY <1>8, <1>t, <2>1, <2>2, <2>3 DEF Sync, MainFree, TypeOK
<1>9. CASE Lock
  <2>1. queue' \in Seq(Jobs)
    BY <1>9, <1>t, JobTyped, InAppend DEF Lock, TypeOK
  <2>2. ui' \in Overlays /\ session' = FALSE
    BY <1>9, <1>t, LockSessionDoes DEF Lock, TypeOK
  <2> QED BY <1>9, <1>t, <2>1, <2>2 DEF Lock, MainFree, TypeOK
<1>10. CASE ScreenOff
  <2>1. queue' \in Seq(Jobs)
    BY <1>10, <1>t, JobTyped, InAppend DEF ScreenOff, TypeOK
  <2>2. ui' \in Overlays /\ session' = FALSE
    BY <1>10, <1>t, LockSessionDoes DEF ScreenOff, TypeOK
  <2> QED BY <1>10, <1>t, <2>1, <2>2 DEF ScreenOff, MainFree, TypeOK
<1>11. ASSUME NEW code \in Typed, Submit(code) PROVE TypeOK'
  <2>1. code \in Codes
    BY <1>t, TypedAreCodes DEF TypeOK
  <2>2. queue' \in Seq(Jobs)
    BY <1>11, <1>t, <2>1, JobTyped, InAppend DEF Submit, TypeOK
  <2>3. ui' \in Overlays
    BY <1>11, <1>t DEF Submit, TypeOK, Overlays
  <2> QED BY <1>11, <1>t, <2>2, <2>3 DEF Submit, MainFree, TypeOK
<1>12. CASE Receive
  <2>1. posts' \in Seq(Posts)
    BY <1>12, <1>t, InTail DEF Receive, TypeOK
  <2>2. ui' \in Overlays
    BY <1>12, <1>t DEF Receive, TypeOK, Overlays
  <2>3. Closing(snapshot) \in Jobs /\ Job("open") \in Jobs
    BY <1>t, JobTyped DEF TypeOK
  <2>4. queue' \in {queue, Append(queue, Closing(snapshot)), Append(queue, Job("open"))}
    BY <1>12 DEF Receive
  <2>5. queue' \in Seq(Jobs)
    BY <1>t, <2>3, <2>4, InAppend DEF TypeOK
  <2> QED BY <1>12, <1>t, <2>1, <2>2, <2>5 DEF Receive, MainFree, TypeOK
<1>13. CASE Create
  <2>1. Closing(snapshot) \in Jobs
    BY <1>t, JobTyped DEF TypeOK
  <2>2. ui' \in Overlays /\ session' = FALSE
    BY <1>13 DEF Create, NoOverlay, Overlays
  <2>3. queue' \in Seq(Jobs)
    BY <1>13, <2>1, InOne DEF Create
  <2> QED BY <1>13, <1>t, <2>2, <2>3 DEF Create, MainFree, TypeOK
<1>14. CASE Release
  <2>1. Enforced(snapshot) \in SUBSET Applications
    BY <1>t DEF TypeOK, Enforced, Documents
  <2>2. /\ holder' \in Holders /\ hidden' \subseteq Applications /\ refused' \subseteq Applications
    BY <1>14, <1>t, <1>h, <2>1, PolicyDoes DEF Release, Unheld
  <2>3. orphan' \in {None} \cup {j \in Jobs : j.kind # "ask"}
    <3>1. CASE queue = <<>> \/ Head(queue).kind = "ask"
      BY <1>14, <3>1 DEF Release
    <3>2. CASE ~ (queue = <<>> \/ Head(queue).kind = "ask")
      <4>1. Head(queue) \in Jobs
        BY <1>t, <3>2, InTail DEF TypeOK
      <4>2. /\ [Head(queue) EXCEPT !.applications = Enforced(snapshot)] \in Jobs
            /\ [Head(queue) EXCEPT !.applications = Enforced(snapshot)].kind = Head(queue).kind
        BY <2>1, <4>1 DEF Jobs
      <4> QED BY <1>14, <3>2, <4>1, <4>2 DEF Release
    <3> QED BY <3>1, <3>2
  <2>4. ui' \in Overlays /\ session' = FALSE /\ posts' \in Seq(Posts) /\ queue' \in Seq(Jobs)
    BY <1>14, EmptySeq DEF Release, NoOverlay, Overlays
  <2> QED BY <1>14, <1>t, <2>2, <2>3, <2>4 DEF Release, Unheld, TypeOK
<1>15. ASSUME Dies, hidden' \subseteq Applications, refused' \subseteq Applications,
              UNCHANGED <<snapshot, kept, installed>>
       PROVE  TypeOK'
  <2>1. ui' \in Overlays /\ queue' \in Seq(Jobs) /\ posts' \in Seq(Posts)
    BY <1>15, EmptySeq DEF Dies, NoOverlay, Overlays
  <2>2. ~ ui'.shown
    BY <1>15 DEF Dies, NoOverlay
  <2> QED BY <1>15, <1>t, <2>1, <2>2 DEF Dies, TypeOK
<1>16. CASE Kill
  BY <1>15, <1>16, <1>t DEF Kill, TypeOK
<1>17. CASE KeepFails
  <2>1. holder.kept.managed \subseteq Applications
    BY <1>17, <1>t DEF KeepFails, TypeOK, Holders, Kept
  <2> QED BY <1>15, <1>17, <1>t, <2>1 DEF KeepFails, TypeOK
<1>18. CASE Start
  <2>1. /\ holder' \in Holders /\ hidden' \subseteq Applications /\ refused' \subseteq Applications
    BY <1>18, <1>t, <1>h, PolicyDoes DEF Start, TypeOK, Kept
  <2> QED BY <1>18, <1>t, <2>1 DEF Start, TypeOK
<1>19. ASSUME NEW a \in Applications, Install(a) PROVE TypeOK'
  BY <1>19, <1>t DEF Install, TypeOK
<1>20. CASE Serve \/ Inventory \/ UNCHANGED vars
  BY <1>1, <1>20 DEF Serve, Inventory, vars
<1> QED BY <1>2, <1>3, <1>4, <1>5, <1>6, <1>7, <1>8, <1>9, <1>10, <1>11, <1>12, <1>13, <1>14,
           <1>16, <1>17, <1>18, <1>19, <1>20 DEF Next, Main, People, Threads

----------------------------------------------------------------------------
(* The epochs.                                                             *)

(* What is in the queue of the worker when its head is done, or replaced.  *)
LEMMA WorkerDoes ==
  ASSUME TypeOK, queue # <<>>
  PROVE  /\ Head(queue) \in Jobs /\ Head(queue) \in In(queue)
         /\ In(queue) = {Head(queue)} \cup In(Tail(queue))
         /\ Done("worker") => queue' = Tail(queue) /\ orphan' = orphan
         /\ \A job \in Jobs : Becomes("worker", job) =>
              /\ queue' # <<>> /\ Head(queue') = job /\ orphan' = orphan
              /\ In(queue') = {job} \cup In(Tail(queue))
<1>1. queue \in Seq(Jobs)
  BY DEF TypeOK
<1>2. Head(queue) \in Jobs /\ In(queue) = {Head(queue)} \cup In(Tail(queue))
  BY <1>1, InTail
<1>3. ASSUME NEW job \in Jobs, Becomes("worker", job)
      PROVE  /\ queue' # <<>> /\ Head(queue') = job /\ orphan' = orphan
             /\ In(queue') = {job} \cup In(Tail(queue))
  BY <1>1, <1>3, InReplace DEF Becomes
<1> QED BY <1>2, <1>3 DEF Done

(* Jobs that are no newer than the overlay's epoch, or of it and asked.    *)
Sound(job) == /\ job.kind # "close" => Fresh(job.config)
              /\ job.pc = "asked" => job.request \in Requests

(* While the epoch goes on, what joins the queue and the messages is of a  *)
(* code typed in it.                                                       *)
LEMMA SameEpoch ==
  ASSUME DInv, ui'.epoch = ui.epoch, ui'.asked \in {ui.asked, ui.epoch},
         ui'.unlocked => ui'.shown /\ Ready(snapshot') /\ ui'.asked = ui.epoch,
         ~ ui'.shown => queue' = <<>> /\ posts' = <<>>,
         \A job \in In(queue') : job \in In(queue) \/ Sound(job)',
         \A post \in In(posts') : post \in In(posts) \/ Fresh(post.config)'
  PROVE  Epochs'
<1>1. ui.epoch \in Nat /\ ui.asked \in Nat
  BY DEF DInv, Tracked, TypeOK, Overlays
<1>2. \A config : Fresh(config) => Fresh(config)'
  BY <1>1 DEF Fresh
<1>3. ui'.asked <= ui'.epoch
  BY <1>1 DEF DInv, Epochs
<1>4. \A job \in In(queue') : Sound(job)'
  BY <1>2 DEF DInv, Epochs, Sound
<1>5. \A post \in In(posts') : Fresh(post.config)'
  BY <1>2 DEF DInv, Epochs
<1> QED BY <1>3, <1>4, <1>5 DEF Epochs, Sound

(* A new epoch: what was begun is of an earlier one.                       *)
LEMMA NewEpoch ==
  ASSUME DInv, LockSession, ui.shown, UNCHANGED posts,
         NEW d \in Documents, queue' = Append(queue, Closing(d))
  PROVE  /\ Epochs'
         /\ queue' # <<>> /\ Closing(d) \in In(queue') /\ Closing(d).kind = "close"
         /\ queue # <<>> => Head(queue') = Head(queue)
<1>1. TypeOK
  BY DEF DInv, Tracked
<1>2. /\ ui'.epoch = ui.epoch + 1 /\ ui'.asked = ui.asked
      /\ ui'.unlocked = FALSE /\ ui'.shown = ui.shown
      /\ ui.epoch \in Nat /\ ui.asked \in Nat
  BY <1>1, LockSessionDoes DEF TypeOK, Overlays
<1>3. /\ queue' # <<>> /\ In(queue') = In(queue) \cup {Closing(d)}
      /\ queue # <<>> => Head(queue') = Head(queue)
      /\ Closing(d).kind = "close" /\ Closing(d).pc = "new"
  <2>1. queue \in Seq(Jobs) /\ Closing(d) \in Jobs /\ Closing(d).kind = "close"
    BY <1>1, JobTyped DEF TypeOK
  <2> QED BY <2>1, InAppend DEF Closing, Job
<1>4. ASSUME NEW config, config \in Configurations, Fresh(config) PROVE Fresh(config)'
  BY <1>2, <1>4 DEF Fresh, Configurations
<1>5. \A job \in In(queue) : job \in Jobs
  BY <1>1, ElementOfSeq DEF TypeOK, In
<1>6. \A post \in In(posts) : post \in Posts
  BY <1>1, ElementOfSeq DEF TypeOK, In
<1>7. \A job \in In(queue') : Sound(job)'
  BY <1>3, <1>4, <1>5 DEF DInv, Epochs, Sound, Jobs
<1>8. \A post \in In(posts') : Fresh(post.config)'
  BY <1>4, <1>6 DEF DInv, Epochs, Posts
<1>9. ui'.asked <= ui'.epoch
  BY <1>2 DEF DInv, Epochs
<1> QED BY <1>2, <1>3, <1>7, <1>8, <1>9 DEF Epochs, Sound

(* Each action keeps the epochs.                                           *)
LEMMA EpochsKept ==
  ASSUME DInv, [Next]_vars
  PROVE  Epochs'
<1>t. TypeOK /\ queue \in Seq(Jobs) /\ posts \in Seq(Posts)
  BY DEF DInv, Tracked, TypeOK
<1>e. Epochs
  BY DEF DInv
<1>1. ASSUME UNCHANGED <<ui, snapshot>>, posts' = posts,
             ~ ui.shown => queue' = <<>>,
             \A job \in In(queue') : job \in In(queue) \/ Sound(job)
      PROVE  Epochs'
  BY <1>1, <1>e, SameEpoch DEF Epochs, Sound, Fresh, Ready
<1>2. CASE Ask
  <2>1. PICK r \in Requests :
          Becomes("worker", [Head(queue) EXCEPT !.pc = "asked", !.request = r])
    BY <1>2 DEF Ask
  <2> DEFINE job == [Head(queue) EXCEPT !.pc = "asked", !.request = r]
  <2>2. Head(queue) \in Jobs /\ Head(queue) \in In(queue) /\ job \in Jobs
    BY <1>2, <1>t, WorkerDoes DEF Ask, Jobs
  <2>3. job.kind = Head(queue).kind /\ job.config = Head(queue).config /\ job.request = r
    BY <2>2 DEF Jobs
  <2>4. In(queue') \subseteq {job} \cup In(queue)
    BY <1>2, <1>t, <2>1, <2>2, WorkerDoes DEF Ask
  <2>5. Sound(job)
    BY <1>e, <2>2, <2>3 DEF Epochs, Sound
  <2>6. ui.shown
    BY <1>2, <1>e DEF Ask, Epochs
  <2> QED BY <1>1, <1>2, <2>4, <2>5, <2>6 DEF Ask
<1>3. CASE Answered
  <2>1. queue # <<>> /\ Done("worker") /\ UNCHANGED <<ui, snapshot>>
    BY <1>3 DEF Answered
  <2>2. /\ In(queue') \subseteq In(queue) /\ Head(queue) \in In(queue)
        /\ Head(queue) \in Jobs /\ Head(queue).kind = "ask" /\ ui.shown
    BY <1>3, <1>t, <1>e, <2>1, WorkerDoes DEF Answered, Epochs
  <2>3. PICK answer : posts' = Append(posts, [message |-> "answered",
                                 config |-> Head(queue).config, answer |-> answer])
    BY <1>3 DEF Answered, Tell
  <2>4. In(posts') = In(posts) \cup {[message |-> "answered", config |-> Head(queue).config,
                                        answer |-> answer]}
    BY <1>t, <2>3, InAppendAny
  <2>5. Fresh(Head(queue).config)
    BY <1>e, <2>2 DEF Epochs
  <2> QED BY <1>e, <2>1, <2>2, <2>4, <2>5, SameEpoch DEF Epochs, Fresh
<1>4. ASSUME NEW thread \in {"worker", "orphan"}, Verify(thread)
      PROVE  Epochs'
  <2> DEFINE job == JobOf(thread)
  <2>1. Doing(thread) /\ job.kind = "open" /\ UNCHANGED <<ui, snapshot>>
    BY <1>4 DEF Verify
  <2>2. CASE thread = "orphan"
    BY <1>1, <1>4, <1>e, <2>2 DEF Verify, Becomes, Epochs
  <2>3. CASE thread = "worker"
    <3>1. /\ queue # <<>> /\ job = Head(queue) /\ job \in Jobs /\ job \in In(queue) /\ ui.shown
          /\ In(queue) = {job} \cup In(Tail(queue))
      BY <1>t, <1>e, <2>1, <2>3, WorkerDoes DEF Doing, JobOf, Epochs
    <3>2. Fresh(job.config) /\ Sound(job)
      BY <1>e, <2>1, <3>1 DEF Epochs, Sound
    <3>3. CASE Done("worker") /\ Tell("opened", job, None)
      <4>1. In(posts') = In(posts) \cup {[message |-> "opened", config |-> job.config,
                                            answer |-> None]}
        BY <1>t, <3>3, InAppendAny DEF Tell
      <4>2. In(queue') \subseteq In(queue)
        BY <1>t, <3>1, <3>3, WorkerDoes
      <4> QED BY <1>e, <2>1, <3>1, <3>2, <4>1, <4>2, SameEpoch DEF Epochs, Fresh
    <3>4. ASSUME NEW next \in Jobs, Sound(next), Becomes("worker", next), UNCHANGED posts
          PROVE  Epochs'
      BY <1>t, <1>1, <2>1, <3>1, <3>4, WorkerDoes
    <3>5. [job EXCEPT !.pc = "verified"] \in Jobs /\ Sound([job EXCEPT !.pc = "verified"])
      BY <3>1, <3>2 DEF Jobs, Sound, Fresh
    <3>6. Closing(snapshot) \in Jobs /\ Sound(Closing(snapshot))
      BY <1>t, JobTyped DEF TypeOK, Sound, Closing, Job
    <3> QED BY <1>4, <2>3, <3>3, <3>4, <3>5, <3>6 DEF Verify
  <2> QED BY <2>2, <2>3
<1>5. CASE Keep
  <2>1. UNCHANGED <<ui, snapshot, posts>>
    BY <1>5 DEF Keep
  <2>2. CASE holder.by # "worker"
    BY <1>1, <1>5, <1>e, <2>1, <2>2 DEF Keep, Done, Becomes, Epochs
  <2>3. CASE holder.by = "worker"
    <3>1. queue # <<>> /\ JobOf("worker") = Head(queue) /\ ui.shown
      BY <1>5, <1>e, <2>3 DEF Keep, DInv, Holding, JobOf, Epochs
    <3>2. /\ Head(queue) \in Jobs /\ Head(queue) \in In(queue)
          /\ In(queue) = {Head(queue)} \cup In(Tail(queue))
      BY <1>t, <3>1, WorkerDoes
    <3>3. CASE Done("worker")
      BY <1>1, <1>t, <2>1, <3>1, <3>2, <3>3, WorkerDoes
    <3>4. CASE Becomes("worker", [Head(queue) EXCEPT !.pc = "applied"])
      <4> DEFINE next == [Head(queue) EXCEPT !.pc = "applied"]
      <4>1. next \in Jobs /\ next.pc = "applied" /\ next.config = Head(queue).config
            /\ next.kind = Head(queue).kind
        BY <3>2 DEF Jobs
      <4>2. Sound(next)
        BY <1>e, <3>2, <4>1 DEF Epochs, Sound
      <4> QED BY <1>1, <1>t, <2>1, <3>1, <3>2, <3>4, <4>1, <4>2, WorkerDoes
    <3> QED BY <1>5, <2>3, <3>1, <3>3, <3>4 DEF Keep
  <2> QED BY <2>2, <2>3
<1>6. CASE Sync
  <2>1. Document \in Documents
    BY <1>t, DocumentTyped DEF TypeOK
  <2> QED BY <1>6, <2>1, NewEpoch DEF Sync
<1>7. CASE Lock
  BY <1>7, <1>t, NewEpoch DEF Lock, TypeOK
<1>8. CASE ScreenOff
  <2>1. CASE ui.shown
    BY <1>8, <1>t, <2>1, NewEpoch DEF ScreenOff, TypeOK
  <2>2. CASE ~ ui.shown
    BY <1>1, <1>8, <1>e, <2>2 DEF ScreenOff, Epochs
  <2> QED BY <2>1, <2>2
<1>9. ASSUME NEW code \in Typed, Submit(code) PROVE Epochs'
  <2> DEFINE job == [Job("ask") EXCEPT !.code = code]
  <2>1. /\ ui'.epoch = ui.epoch /\ ui'.asked = ui.epoch /\ ~ ui'.unlocked /\ ui'.shown
        /\ UNCHANGED <<snapshot, posts>>
    BY <1>9, <1>t DEF Submit, TypeOK, Overlays
  <2>2. job.config = Config /\ job.pc = "new"
    BY DEF Job
  <2>3. In(queue') = In(queue) \cup {job}
    BY <1>9, <1>t, InAppendAny DEF Submit
  <2>4. ui.epoch \in Nat
    BY <1>t DEF TypeOK, Overlays
  <2>5. ASSUME NEW j, j = job PROVE Sound(j)'
    BY <2>1, <2>2, <2>4, <2>5 DEF Sound, Fresh, Config
  <2> QED BY <2>1, <2>3, <2>5, SameEpoch
<1>10. CASE Receive
  <2> DEFINE post == Head(posts)
             current == CanBeApplied(post.config)
  <2>1. /\ post \in In(posts) /\ In(posts') \subseteq In(posts) /\ posts # <<>>
        /\ ui.shown /\ UNCHANGED snapshot
    BY <1>10, <1>t, <1>e, InTail DEF Receive, Epochs
  <2>2. /\ ui'.epoch = ui.epoch /\ ui'.asked = ui.asked /\ ui'.shown = ui.shown
        /\ ui'.unlocked => current
    BY <1>10, <1>t DEF Receive, TypeOK, Overlays
  <2>3. current => Ready(snapshot) /\ ui.asked = ui.epoch
    BY <1>e, <2>1 DEF Epochs, Fresh, CanBeApplied, Config
  <2>4. ASSUME NEW job \in In(queue') PROVE job \in In(queue) \/ Sound(job)'
    <3>1. CASE queue' = queue
      BY <2>4, <3>1
    <3>2. CASE queue' = Append(queue, Closing(snapshot))
      <4>1. In(queue') = In(queue) \cup {Closing(snapshot)}
        BY <1>t, <3>2, InAppendAny
      <4> QED BY <2>4, <4>1 DEF Sound, Closing, Job
    <3>3. CASE queue' = Append(queue, Job("open")) /\ current
      <4>1. In(queue') = In(queue) \cup {Job("open")}
        BY <1>t, <3>3, InAppendAny
      <4>2. Job("open").config = Config /\ Job("open").pc = "new"
        BY DEF Job
      <4>3. ui.epoch \in Nat
        BY <1>t DEF TypeOK, Overlays
      <4>4. ASSUME NEW j, j = Job("open") PROVE Sound(j)'
        BY <2>2, <2>3, <3>3, <4>2, <4>3, <4>4 DEF Sound, Fresh, Config
      <4> QED BY <2>4, <4>1, <4>4
    <3> QED BY <1>10, <3>1, <3>2, <3>3 DEF Receive
  <2> QED BY <2>1, <2>2, <2>3, <2>4, SameEpoch
<1>11. CASE Create
  <2>1. In(queue') = {Closing(snapshot)} /\ Closing(snapshot).kind = "close"
        /\ Closing(snapshot).pc = "new"
    BY <1>11, InOne DEF Create, Closing, Job
  <2>2. posts' = <<>> /\ ui' = [NoOverlay EXCEPT !.shown = TRUE]
    BY <1>11, <1>e DEF Create, Epochs
  <2>3. In(posts') = {}
    BY <2>2 DEF In
  <2>4. ui'.epoch = 1 /\ ui'.asked = 0 /\ ~ ui'.unlocked /\ ui'.shown
    BY <2>2 DEF NoOverlay
  <2> QED BY <2>1, <2>3, <2>4 DEF Epochs
<1>12. CASE Release \/ Kill \/ KeepFails
  <2>1. queue' = <<>> /\ posts' = <<>> /\ ui' = NoOverlay
    BY <1>12 DEF Release, Kill, KeepFails, Dies
  <2>2. In(posts') = {} /\ In(queue') = {}
    BY <2>1 DEF In
  <2>3. ui'.epoch = 1 /\ ui'.asked = 0 /\ ~ ui'.unlocked
    BY <2>1 DEF NoOverlay
  <2> QED BY <2>1, <2>2, <2>3 DEF Epochs
<1>13. CASE \/ Serve \/ Inventory \/ UNCHANGED vars \/ Reconcile \/ Start
            \/ (\E thread \in {"worker", "orphan"} : Apply(thread))
            \/ \E a \in Applications : Install(a)
  <2>1. UNCHANGED <<ui, snapshot, posts, queue>>
    BY <1>13 DEF Serve, Inventory, vars, device, Reconcile, Start, Apply, Install
  <2> QED BY <1>1, <1>e, <2>1 DEF Epochs
<1> QED BY <1>2, <1>3, <1>4, <1>5, <1>6, <1>7, <1>8, <1>9, <1>10, <1>11, <1>12, <1>13
    DEF Next, Main, People, Threads

----------------------------------------------------------------------------
(* What ends a session, or hides what is seen.                             *)

(* A code typed since the last lock was right, on what is in the queues.   *)
Justified ==
  /\ Ready(snapshot) /\ ui.shown /\ ui.asked = ui.epoch
  /\ \/ ui.unlocked
     \/ \E job \in In(queue) : job.kind = "open" /\ CanBeApplied(job.config)
     \/ \E post \in In(posts) : post.message = "opened" /\ CanBeApplied(post.config)

(* What is granted, in the terms of the queues, before a step and after    *)
(* it.                                                                     *)
LEMMA GrantedIn == (Granted <=> Justified) /\ (Granted <=> Justified)'
<1>1. Granted <=> Justified
  BY DEF Granted, In, Justified
<1>2. (Granted <=> Justified)'
  BY DEF Granted, In, Justified
<1> QED BY <1>1, <1>2

(* As long as the jobs that are not questions, and what was opened, stay.  *)
LEMMA MindedStays ==
  ASSUME UNCHANGED snapshot, ui'.shown = ui.shown, ui'.epoch = ui.epoch,
         ui'.asked \in {ui.asked, ui.epoch}, ui.unlocked => ui'.unlocked,
         orphan # None => orphan' # None,
         \A job \in In(queue) : job.kind # "ask" => job \in In(queue'),
         \A post \in In(posts) : post.message = "opened" => post \in In(posts')
  PROVE  Minded => Minded'
<1>1. \A config : CanBeApplied(config)' <=> CanBeApplied(config)
  BY DEF CanBeApplied, Config
<1>2. Ready(snapshot') <=> Ready(snapshot)
  OBVIOUS
<1>3. Granted => Granted'
  BY <1>1, <1>2, GrantedIn DEF Justified
<1> QED BY <1>3 DEF Minded

(* What the overlay could apply began with a code of this epoch.           *)
LEMMA AppliedIsGranted ==
  ASSUME DInv, NEW config, CanBeApplied(config), Fresh(config)
  PROVE  Ready(snapshot) /\ ui.shown /\ ui.asked = ui.epoch
BY DEF CanBeApplied, Config, Fresh

(* A step that leaves the policy and its persistence alone.                *)
LEMMA QuietKeeps ==
  ASSUME DInv, UNCHANGED <<holder, kept, hidden, refused, lost, alive>>,
         session' => session, Minded => Minded', rounds /\ alive => rounds' \/ Minded',
         installed' # installed /\ alive => rounds',
         holder # None /\ holder.by = "worker" =>
           (queue # <<>> => queue' # <<>> /\ Head(queue') = Head(queue)),
         holder # None /\ holder.by = "orphan" => orphan' = orphan
  PROVE  Holding' /\ Watched'
<1>1. Holding'
  BY DEF DInv, Tracked, TypeOK, Holding, Hid, For, TakenBack
<1>2. Watched'
  <2>1. CASE installed' = installed
    BY <2>1 DEF DInv, Watched, Exposed
  <2>2. CASE installed' # installed
    BY <2>2 DEF DInv, Watched
  <2> QED BY <2>1, <2>2
<1> QED BY <1>1, <1>2

(* Each action of the overlay and its threads leaves something to end it.  *)
LEMMA QuietKept ==
  ASSUME DInv,
         \/ Serve \/ Inventory \/ UNCHANGED vars \/ Ask \/ Answered \/ Sync \/ Receive
         \/ Lock \/ ScreenOff \/ Create
         \/ (\E code \in Typed : Submit(code)) \/ (\E a \in Applications : Install(a))
         \/ \E thread \in {"worker", "orphan"} : Verify(thread)
  PROVE  Holding' /\ Watched'
<1>t. TypeOK /\ queue \in Seq(Jobs) /\ posts \in Seq(Posts)
  BY DEF DInv, Tracked, TypeOK
<1>e. Epochs /\ Holding
  BY DEF DInv
<1>h. holder # None /\ holder.by = "worker" /\ queue # <<>> => Head(queue).kind # "ask"
  BY <1>e DEF Holding, For
<1>1. CASE Serve \/ Inventory \/ UNCHANGED vars \/ \E a \in Applications : Install(a)
  <2>1. UNCHANGED <<ui, snapshot, queue, orphan, posts>>
    BY <1>1 DEF Serve, Inventory, vars, device, Install
  <2>2. Minded => Minded'
    BY <2>1, MindedStays
  <2> QED BY <1>1, <2>1, <2>2, QuietKeeps DEF Serve, Inventory, vars, device, Install
<1>2. CASE Ask
  <2>1. PICK r \in Requests :
          Becomes("worker", [Head(queue) EXCEPT !.pc = "asked", !.request = r])
    BY <1>2 DEF Ask
  <2>2. /\ Head(queue) \in Jobs
        /\ [Head(queue) EXCEPT !.pc = "asked", !.request = r] \in Jobs
    BY <1>2, <1>t, WorkerDoes DEF Ask, Jobs
  <2>3. /\ queue' # <<>> /\ orphan' = orphan
        /\ \A job \in In(queue) : job.kind # "ask" => job \in In(queue')
    BY <1>2, <1>t, <2>1, <2>2, WorkerDoes DEF Ask
  <2>4. UNCHANGED <<ui, snapshot, posts>>
    BY <1>2 DEF Ask
  <2>5. Minded => Minded'
    BY <2>3, <2>4, MindedStays
  <2> QED BY <1>2, <1>h, <2>3, <2>5, QuietKeeps DEF Ask
<1>3. CASE Answered
  <2>1. PICK answer : Tell("answered", Head(queue), answer)
    BY <1>3 DEF Answered
  <2>2. /\ orphan' = orphan /\ \A job \in In(queue) : job.kind # "ask" => job \in In(queue')
        /\ UNCHANGED <<ui, snapshot>>
    BY <1>3, <1>t, WorkerDoes DEF Answered
  <2>3. In(posts) \subseteq In(posts')
    BY <1>t, <2>1, InAppendAny DEF Tell
  <2>4. Minded => Minded'
    BY <2>2, <2>3, MindedStays
  <2> QED BY <1>3, <1>h, <2>2, <2>4, QuietKeeps DEF Answered
<1>4. ASSUME NEW thread \in {"worker", "orphan"}, Verify(thread)
      PROVE  Holding' /\ Watched'
  <2> DEFINE job == JobOf(thread)
  <2>1. /\ Doing(thread) /\ job.kind = "open" /\ job.pc \in {"new", "applied"}
        /\ UNCHANGED <<ui, snapshot>> /\ job \in Jobs
    BY <1>4, <1>t, JobOfTyped DEF Verify
  <2>2. holder # None => holder.by # thread
    BY <1>e, <2>1 DEF Holding, For, JobOf
  <2>3. CASE thread = "orphan"
    <3>1. orphan' = [job EXCEPT !.kind = "close", !.pc = "new"] /\ queue' = queue
      BY <1>4, <2>3 DEF Verify, Becomes
    <3>2. orphan' \in Jobs
      BY <2>1, <3>1 DEF Jobs
    <3>3. Minded'
      BY <3>2, PrivateSpaceAssumption DEF Minded
    <3> QED BY <1>4, <2>2, <2>3, <3>1, <3>3, QuietKeeps DEF Verify
  <2>4. CASE thread = "worker"
    <3>1. /\ queue # <<>> /\ job = Head(queue) /\ Head(queue) \in In(queue)
          /\ Fresh(job.config)
      BY <1>t, <1>e, <2>1, <2>4, WorkerDoes DEF Doing, JobOf, Epochs
    <3>2. CASE Done("worker") /\ Tell("opened", job, None) /\ CanBeApplied(job.config)
      <4>1. [message |-> "opened", config |-> job.config, answer |-> None] \in In(posts')
        BY <1>t, <3>2, InAppendAny DEF Tell
      <4>2. ASSUME NEW post \in In(posts'), post.message = "opened", CanBeApplied(post.config),
                   Fresh(post.config)
            PROVE  Minded'
        <5>1. CanBeApplied(post.config)'
          BY <2>1, <4>2 DEF CanBeApplied, Config
        <5>2. Ready(snapshot') /\ ui'.shown /\ ui'.asked = ui'.epoch
          BY <2>1, <4>2, AppliedIsGranted
        <5> QED BY <4>2, <5>1, <5>2, GrantedIn DEF Minded, Justified
      <4>3. Minded'
        BY <3>1, <3>2, <4>1, <4>2
      <4> QED BY <1>4, <1>t, <2>2, <2>4, <3>1, <3>2, <4>3, WorkerDoes, QuietKeeps DEF Verify
    <3>3. ASSUME NEW next \in Jobs, next.kind # "ask", Becomes("worker", next)
          PROVE  Holding' /\ Watched'
      <4>1. next \in In(queue') /\ orphan' = orphan
        BY <1>t, <3>1, <3>3, WorkerDoes
      <4>2. Minded'
        BY <3>3, <4>1 DEF Minded
      <4> QED BY <1>4, <2>2, <2>4, <4>1, <4>2, QuietKeeps DEF Verify
    <3>4. /\ [job EXCEPT !.pc = "verified"] \in Jobs
          /\ [job EXCEPT !.pc = "verified"].kind = "open"
          /\ Closing(snapshot) \in Jobs /\ Closing(snapshot).kind = "close"
      BY <1>t, <2>1, JobTyped DEF Jobs, TypeOK
    <3> QED BY <1>4, <2>4, <3>2, <3>3, <3>4 DEF Verify
  <2> QED BY <2>3, <2>4
<1>5. ASSUME LockSession, ui.shown, UNCHANGED posts,
             NEW d \in Documents, queue' = Append(queue, Closing(d)),
             UNCHANGED <<holder, kept, hidden, refused, lost, alive, installed, orphan>>,
             rounds => rounds'
      PROVE  Holding' /\ Watched'
  <2>1. /\ Closing(d) \in In(queue') /\ Closing(d).kind = "close" /\ queue' # <<>>
        /\ queue # <<>> => Head(queue') = Head(queue)
    BY <1>5, NewEpoch
  <2>2. Minded'
    BY <2>1 DEF Minded
  <2> QED BY <1>5, <2>1, <2>2, QuietKeeps DEF LockSession
<1>6. CASE Sync
  <2>1. Document \in Documents
    BY <1>t, DocumentTyped DEF TypeOK
  <2> QED BY <1>5, <1>6, <2>1 DEF Sync
<1>7. CASE Lock
  BY <1>5, <1>7, <1>t DEF Lock, TypeOK
<1>8. CASE ScreenOff
  <2>1. CASE ui.shown
    BY <1>5, <1>8, <1>t, <2>1 DEF ScreenOff, TypeOK
  <2>2. CASE ~ ui.shown
    <3>1. UNCHANGED <<ui, snapshot, queue, orphan, posts>> /\ session' = FALSE /\ rounds'
      BY <1>8, <2>2 DEF ScreenOff
    <3>2. Minded => Minded'
      BY <3>1, MindedStays
    <3> QED BY <1>8, <3>1, <3>2, QuietKeeps DEF ScreenOff
  <2> QED BY <2>1, <2>2
<1>9. ASSUME NEW code \in Typed, Submit(code) PROVE Holding' /\ Watched'
  <2>1. /\ ui'.epoch = ui.epoch /\ ui'.asked = ui.epoch /\ ui'.unlocked = ui.unlocked
        /\ ui'.shown = ui.shown /\ UNCHANGED <<snapshot, posts, orphan>>
    BY <1>9, <1>t DEF Submit, TypeOK, Overlays
  <2>2. In(queue) \subseteq In(queue')
    BY <1>9, <1>t, InAppendAny DEF Submit
  <2>3. queue' # <<>> /\ (queue # <<>> => Head(queue') = Head(queue))
    <3>1. [Job("ask") EXCEPT !.code = code] \in Jobs
      BY <1>t, TypedAreCodes, JobTyped DEF TypeOK
    <3> QED BY <1>9, <1>t, <3>1, InAppend DEF Submit
  <2>4. Minded => Minded'
    BY <2>1, <2>2, MindedStays
  <2> QED BY <1>9, <2>1, <2>3, <2>4, QuietKeeps DEF Submit
<1>10. CASE Receive
  <2> DEFINE post == Head(posts)
             current == CanBeApplied(post.config)
             opened == post.message = "opened"
  <2>1. /\ post \in In(posts) /\ posts # <<>> /\ In(posts) = {post} \cup In(posts')
        /\ ui.shown /\ UNCHANGED <<snapshot, orphan>> /\ Fresh(post.config)
    BY <1>10, <1>t, <1>e, InTail DEF Receive, Epochs
  <2>2. /\ ui'.epoch = ui.epoch /\ ui'.asked = ui.asked /\ ui'.shown = ui.shown
        /\ ui'.unlocked = IF current THEN opened \/ ui.unlocked ELSE FALSE
    BY <1>10, <1>t DEF Receive, TypeOK, Overlays
  <2>3. /\ Closing(snapshot) \in Jobs /\ Closing(snapshot).kind = "close"
        /\ Job("open") \in Jobs /\ Job("open").kind = "open"
    BY <1>t, JobTyped DEF TypeOK
  <2>4. queue' \in {queue, Append(queue, Closing(snapshot)), Append(queue, Job("open"))}
    BY <1>10 DEF Receive
  <2>5. queue # <<>> => queue' # <<>> /\ Head(queue') = Head(queue)
    BY <1>t, <2>3, <2>4, InAppend
  <2>6. Minded => Minded'
    <3>1. CASE queue' # queue
      <4>1. \A job : queue' = Append(queue, job) => job \in In(queue')
        BY <1>t, InAppendAny
      <4>2. \E job \in In(queue') : job.kind # "ask"
        BY <2>3, <2>4, <3>1, <4>1
      <4> QED BY <4>2 DEF Minded
    <3>2. CASE queue' = queue /\ current /\ opened
      <4>1. ui'.unlocked /\ Ready(snapshot') /\ ui'.shown /\ ui'.asked = ui'.epoch
        BY <2>1, <2>2, <3>2, AppliedIsGranted
      <4> QED BY <4>1, GrantedIn DEF Minded, Justified
    <3>3. CASE queue' = queue /\ current /\ ~ opened
      BY <2>1, <2>2, <3>3, MindedStays
    <3>4. CASE queue' = queue /\ ~ current
      <4>1. queue' = Append(queue, Closing(snapshot))
        BY <1>10, <3>4 DEF Receive
      <4>2. Closing(snapshot) \in In(queue')
        BY <1>t, <4>1, InAppendAny
      <4> QED BY <2>3, <4>2 DEF Minded
    <3> QED BY <3>1, <3>2, <3>3, <3>4
  <2> QED BY <1>10, <2>1, <2>5, <2>6, QuietKeeps DEF Receive
<1>11. CASE Create
  <2>1. queue' = <<Closing(snapshot)>> /\ Closing(snapshot).kind = "close" /\ queue = <<>>
    BY <1>11, <1>e DEF Create, Closing, Job, Epochs
  <2>2. Minded'
    BY <2>1, InOne DEF Minded
  <2> QED BY <1>11, <2>1, <2>2, QuietKeeps DEF Create
<1> QED BY <1>1, <1>2, <1>3, <1>4, <1>6, <1>7, <1>8, <1>9, <1>10, <1>11

----------------------------------------------------------------------------
(* Each action of the device policy, of the process and of the lock.       *)
LEMMA PolicyKept ==
  ASSUME DInv, TypeOK',
         \/ Reconcile \/ Start \/ Release
         \/ \E thread \in {"worker", "orphan"} : Apply(thread)
  PROVE  Tracked' /\ Holding' /\ Watched'
<1>t. TypeOK /\ holder = None /\ hidden \subseteq Known(kept) \cup lost
  BY DEF DInv, Tracked, TypeOK, Reconcile, Start, Release, Apply, Unheld
<1>1. ASSUME NEW by \in {"main", "presence", "worker", "orphan"},
             NEW desired \in SUBSET Applications, NEW hide \in BOOLEAN, NEW opens \in BOOLEAN,
             Policy(by, desired, hide, opens), UNCHANGED <<kept, lost>>,
             by = "worker" => queue' # <<>> /\ For(Head(queue))',
             by = "orphan" => orphan' # None /\ For(orphan)',
             opens => by \in {"worker", "orphan"}, by # "presence" => hide \/ opens,
             ~ opens /\ by # "presence" => session' = FALSE,
             by = "presence" => hide \/ Minded', session' => Minded'
      PROVE  Tracked' /\ Holding' /\ Watched'
  <2>1. /\ holder' \in Holders /\ holder'.by = by /\ holder'.opens = opens
        /\ hidden' \subseteq Known(kept) \cup lost \cup Known(holder'.kept)
        /\ hidden' \subseteq Known(holder'.kept) \cup lost \cup TakenBack'
        /\ hide => holder'.kept.managed \subseteq hidden' \cup refused'
    BY <1>1, <1>t, PolicyDoes
  <2>2. holder' # None
    BY <2>1, PrivateSpaceAssumption
  <2>3. Tracked'
    BY <1>1, <2>1, <2>2 DEF Tracked
  <2>4. Holding'
    BY <1>1, <2>1, <2>2 DEF Holding, Hid
  <2>5. Watched'
    BY <1>1, <2>2 DEF Watched
  <2> QED BY <2>3, <2>4, <2>5
<1>2. CASE Reconcile
  <2>1. Policy("presence", kept.desired, ~ session, FALSE) /\ UNCHANGED <<kept, lost, session>>
    BY <1>2 DEF Reconcile
  <2>2. UNCHANGED <<ui, snapshot, queue, orphan, posts>>
    BY <1>2 DEF Reconcile
  <2>3. Minded => Minded'
    BY <2>2, MindedStays
  <2>4. session => Minded
    BY DEF DInv, Watched
  <2>5. kept.desired \in SUBSET Applications /\ session \in BOOLEAN
    BY <1>t DEF TypeOK, Kept
  <2> QED BY <1>1, <2>1, <2>3, <2>4, <2>5
<1>3. CASE Start
  <2>1. Policy("main", kept.desired, TRUE, FALSE) /\ UNCHANGED <<kept, lost, session>>
    BY <1>3 DEF Start
  <2>2. kept.desired \in SUBSET Applications /\ session = FALSE
    BY <1>3, <1>t DEF Start, TypeOK, Kept
  <2> QED BY <1>1, <2>1, <2>2
<1>4. CASE Release
  <2>1. /\ Policy("main", Enforced(snapshot), TRUE, FALSE) /\ UNCHANGED <<kept, lost>>
        /\ session' = FALSE
    BY <1>4 DEF Release
  <2>2. Enforced(snapshot) \in SUBSET Applications
    BY <1>t DEF TypeOK, Enforced, Documents
  <2> QED BY <1>1, <2>1, <2>2
<1>5. ASSUME NEW thread \in {"worker", "orphan"}, Apply(thread)
      PROVE  Tracked' /\ Holding' /\ Watched'
  <2> DEFINE job == JobOf(thread)
  <2>1. /\ Doing(thread) /\ job \in Jobs /\ UNCHANGED <<kept, lost, ui, snapshot, queue, orphan, posts>>
        /\ thread = "worker" => queue # <<>> /\ job = Head(queue)
        /\ thread = "orphan" => orphan # None /\ job = orphan
    BY <1>5, <1>t, JobOfTyped DEF Apply
  <2>2. /\ job.applications \in SUBSET Applications
        /\ job.config.document.applications \in SUBSET Applications
    BY <2>1 DEF Jobs, Configurations, Documents
  <2>3. CASE job.kind = "close" /\ session' = FALSE /\ Policy(thread, job.applications, TRUE, FALSE)
    <3>1. holder'.opens = FALSE
      BY <1>t, <2>1, <2>2, <2>3, PolicyDoes
    <3>2. /\ thread = "worker" => queue' # <<>> /\ For(Head(queue))'
          /\ thread = "orphan" => orphan' # None /\ For(orphan)'
      BY <2>1, <2>3, <3>1 DEF For
    <3> QED BY <1>1, <2>1, <2>2, <2>3, <3>2
  <2>4. CASE /\ job.kind = "open" /\ job.pc = "verified" /\ session' = session
             /\ Policy(thread, job.config.document.applications, FALSE, TRUE)
    <3>1. holder'.opens = TRUE
      BY <1>t, <2>1, <2>2, <2>4, PolicyDoes
    <3>2. /\ thread = "worker" => queue' # <<>> /\ For(Head(queue))'
          /\ thread = "orphan" => orphan' # None /\ For(orphan)'
      BY <2>1, <2>4, <3>1 DEF For
    <3>3. session' => Minded'
      BY <2>1, <2>4, MindedStays DEF DInv, Watched
    <3> QED BY <1>1, <2>1, <2>2, <2>4, <3>2, <3>3
  <2> QED BY <1>5, <2>3, <2>4 DEF Apply
<1> QED BY <1>2, <1>3, <1>4, <1>5

(* What is persisted was hidden, or the opening goes on.                   *)
LEMMA KeepKept ==
  ASSUME DInv, TypeOK', Keep
  PROVE  Tracked' /\ Holding' /\ Watched'
<1>t. TypeOK /\ holder \in Holders /\ Holding
  BY DEF DInv, Tracked, TypeOK, Keep
<1>1. holder # None /\ holder' = None /\ kept' = holder.kept /\ session' = (session \/ holder.opens)
      /\ UNCHANGED <<ui, snapshot, posts, rounds, hidden, refused>>
  BY DEF Keep
<1>2. Tracked'
  BY <1>t, <1>1 DEF Tracked, Keep, Holding, Known
<1>3. Hid => Exposed' = {}
  BY <1>1 DEF Hid, Exposed
<1>4. CASE holder.by \in {"worker", "orphan"} /\ holder.opens
  <2> DEFINE job == JobOf(holder.by)
             next == [job EXCEPT !.pc = "applied"]
  <2>1. Doing(holder.by) /\ job.kind = "open"
    BY <1>t, <1>1, <1>4 DEF Holding, For, Doing, JobOf
  <2>2. next \in Jobs /\ next.kind = "open" /\ Becomes(holder.by, next)
    BY <1>t, <1>4, <2>1, JobOfTyped DEF Jobs, Keep
  <2>3. Minded'
    <3>1. CASE holder.by = "worker"
      <4>1. next \in In(queue')
        BY <1>t, <2>1, <2>2, <3>1, WorkerDoes DEF Doing
      <4> QED BY <2>2, <4>1 DEF Minded
    <3>2. CASE holder.by = "orphan"
      <4>1. orphan' # None
        BY <2>2, <3>2, PrivateSpaceAssumption DEF Becomes
      <4> QED BY <4>1 DEF Minded
    <3> QED BY <1>4, <3>1, <3>2
  <2> QED BY <1>1, <1>2, <2>3 DEF Holding, Watched
<1>5. CASE ~ holder.opens /\ holder.by # "presence"
  <2>1. ~ session' /\ Exposed' = {}
    BY <1>t, <1>1, <1>3, <1>5 DEF Holding
  <2> QED BY <1>1, <1>2, <2>1 DEF Holding, Watched
<1>6. CASE ~ holder.opens /\ holder.by = "presence"
  <2>1. UNCHANGED <<queue, orphan>>
    BY <1>6 DEF Keep
  <2>2. Minded => Minded'
    BY <1>1, <2>1, MindedStays
  <2>3. session' => Minded'
    BY <1>1, <1>6, <2>2 DEF DInv, Watched
  <2>4. Exposed' # {} => Minded' \/ rounds'
    BY <1>t, <1>1, <1>3, <1>6, <2>2 DEF Holding
  <2> QED BY <1>1, <1>2, <2>3, <2>4 DEF Holding, Watched
<1> QED BY <1>t, <1>1, <1>4, <1>5, <1>6 DEF Holding

(* A process that dies takes the session with it.                          *)
LEMMA DiesKept ==
  ASSUME TypeOK', Dies, UNCHANGED kept
  PROVE  Tracked' /\ Holding' /\ Watched'
BY DEF Dies, Tracked, Holding, Watched, Known

----------------------------------------------------------------------------
(* The television in the instance.                                         *)

(* The server's side and the television's together.                        *)
SpaceInv == IInv /\ InAllowlist /\ DInv

(* It holds on a television that was set up.                               *)
LEMMA SpaceInit == Init => SpaceInv
<1> SUFFICES ASSUME Init PROVE SpaceInv OBVIOUS
<1>1. ServerInit /\ IInv
  BY InitKeeps DEF Init
<1>2. InAllowlist
  BY <1>1 DEF ServerInit, InAllowlist, NoReport
<1>3. ServerTypeOK
  <2>1. sources \in [Targets -> {None} \cup SUBSET Applications]
    BY <1>1 DEF ServerInit
  <2>2. Allowed \in SUBSET Applications
    <3>1. CASE Some(sources)
      <4>1. Closest(sources) \in Given(sources)
        BY <3>1, ClosestIsLowest
      <4> QED BY <2>1, <3>1, <4>1 DEF Allowed, AllowedBy, Given
    <3>2. CASE ~ Some(sources)
      BY <3>2 DEF Allowed, AllowedBy
    <3> QED BY <3>1, <3>2
  <2> QED BY <1>1, <2>1, <2>2 DEF ServerInit, ServerTypeOK, IInv, NoReport
<1>4. TypeOK
  <2>1. snapshot \in Documents
    BY <1>3, DocumentTyped DEF Init
  <2>2. ui \in Overlays
    BY DEF Init, NoOverlay, Overlays
  <2>3. queue \in Seq(Jobs) /\ posts \in Seq(Posts)
    BY EmptySeq DEF Init
  <2>4. kept \in Kept
    BY DEF Init, Kept
  <2> QED BY <1>3, <2>1, <2>2, <2>3, <2>4 DEF Init, TypeOK
<1>5. Tracked
  BY <1>4 DEF Init, Tracked
<1>6. Epochs
  <2>1. In(queue) = {} /\ In(posts) = {}
    BY DEF Init, In
  <2>2. ui.epoch = 1 /\ ui.asked = 0 /\ ~ ui.unlocked /\ ui.shown
    BY DEF Init, NoOverlay
  <2> QED BY <2>1, <2>2 DEF Epochs
<1>7. Holding /\ Watched
  BY DEF Init, Holding, Watched, Exposed
<1> QED BY <1>1, <1>2, <1>5, <1>6, <1>7 DEF SpaceInv, DInv

(* The server's actions keep its types.                                    *)
LEMMA ServerTypeKept ==
  ASSUME ServerTypeOK, RowsTypeOK', [ServerNext]_server
  PROVE  ServerTypeOK'
<1>1. ASSUME UNCHANGED <<sources, statuses, report, crossed>> PROVE ServerTypeOK'
  BY <1>1 DEF ServerTypeOK
<1>2. ASSUME NEW t \in Targets, NEW applications \in SUBSET Applications,
             SetSources(t, applications)
      PROVE  ServerTypeOK'
  BY <1>2 DEF SetSources, Purged, ServerTypeOK
<1>3. ASSUME NEW items \in SUBSET Applications, Report(items) PROVE ServerTypeOK'
  <2>1. Allowed \in SUBSET Applications
    BY DocumentTyped DEF Document, Documents
  <2> QED BY <1>3, <2>1 DEF Report, ServerTypeOK
<1>4. CASE Reported \/ ReportLost
  <2>1. report.items \subseteq Applications /\ statuses \subseteq Applications
    BY DEF ServerTypeOK
  <2>2. statuses' \subseteq Applications /\ crossed' \in BOOLEAN /\ report' = NoReport
    BY <1>4, <2>1 DEF Reported, ReportLost, ServerTypeOK
  <2>3. sources' = sources
    BY <1>4 DEF Reported, ReportLost
  <2> QED BY <2>2, <2>3 DEF NoReport, ServerTypeOK
<1>5. CASE \/ \E t \in Targets :
                RotatePin(t) \/ \E enabled \in BOOLEAN : SetEnabled(t, enabled)
           \/ LockoutEnds
           \/ \E r \in Requests : Unlock(r) \/ Decide(r) \/ Abort(r)
           \/ \E r \in Requests, code \in Codes, generation \in Generations :
                Send(r, code, generation)
           \/ \E taken \in SUBSET Requests : Leave(taken)
           \/ UNCHANGED server
  BY <1>1, <1>5 DEF RotatePin, SetEnabled, LockoutEnds, Unlock, Decide, Abort, Send, Leave, server
<1> QED BY <1>2, <1>3, <1>4, <1>5 DEF ServerNext, Studio, Database, Television

(* Every step preserves the invariant of the server and the television.    *)
LEMMA SpaceStep == SpaceInv /\ [Next]_vars => SpaceInv'
<1> SUFFICES ASSUME SpaceInv, [Next]_vars PROVE SpaceInv' OBVIOUS
<1>1. DInv /\ TypeOK /\ ServerTypeOK /\ [ServerNext]_server
  BY ServerStep DEF SpaceInv, DInv, Tracked, TypeOK
<1>2. IInv' /\ InAllowlist'
  BY <1>1, NextKeeps, InAllowlistStep DEF SpaceInv
<1>3. TypeOK'
  BY <1>1, <1>2, ServerTypeKept, TypeKept DEF IInv
<1>4. Epochs'
  BY <1>1, EpochsKept
<1>5. Tracked' /\ Holding' /\ Watched'
  <2>1. ASSUME Holding' /\ Watched', UNCHANGED <<holder, kept, hidden, lost>> PROVE Tracked'
    BY <1>1, <1>3, <2>1 DEF DInv, Tracked
  <2>2. CASE Reconcile \/ Start \/ Release \/ \E thread \in {"worker", "orphan"} : Apply(thread)
    BY <1>1, <1>3, <2>2, PolicyKept
  <2>3. CASE Keep
    BY <1>1, <1>3, <2>3, KeepKept
  <2>4. CASE Kill \/ KeepFails
    BY <1>3, <2>4, DiesKept DEF Kill, KeepFails
  <2>5. CASE \/ Serve \/ Inventory \/ UNCHANGED vars \/ Ask \/ Answered \/ Sync \/ Receive
             \/ Lock \/ ScreenOff \/ Create
             \/ (\E code \in Typed : Submit(code)) \/ (\E a \in Applications : Install(a))
             \/ \E thread \in {"worker", "orphan"} : Verify(thread)
    <3>1. Holding' /\ Watched'
      BY <1>1, <2>5, QuietKept
    <3>2. UNCHANGED <<holder, kept, hidden, lost>>
      BY <2>5 DEF Serve, Inventory, vars, device, Ask, Answered, Sync, Receive, Lock, ScreenOff,
                  Create, Submit, Install, Verify
    <3> QED BY <2>1, <3>1, <3>2
  <2> QED BY <2>2, <2>3, <2>4, <2>5 DEF Next, Main, People, Threads
<1> QED BY <1>2, <1>4, <1>5 DEF SpaceInv, DInv

(* The lock of the policy, the jobs of the worker, the epochs of the       *)
(* overlay and the rows of the server:                                     *)
(* PrivateApplicationAccessController.kt, PrivateSpaceOverlayController.kt.*)
THEOREM SpaceInvariant == Spec => []SpaceInv
BY SpaceInit, SpaceStep, PTL DEF Spec

(* The television does to the server only what the server allows for, so   *)
(* that what is proved of the server's requests holds of its television's. *)
THEOREM OneOfTheServer == Spec => ServerSpec
<1>1. Init => ServerInit
  BY DEF Init
<1>2. SpaceInv /\ [Next]_vars => [ServerNext]_server
  BY ServerStep DEF SpaceInv, DInv, Tracked
<1> QED BY <1>1, <1>2, SpaceInvariant, PTL DEF Spec, ServerSpec

(* Wrong codes are never checked more often than MaxAttempts between two   *)
(* lockouts, by the television or beside it.                               *)
THEOREM LockoutOfTelevision == Spec => []LockoutHolds
BY OneOfTheServer, Lockout, PTL

(* An application that is hidden is one the preferences know, whatever     *)
(* Android refuses, but for a death before they are written and a release  *)
(* that is taken back: setLocked and lockPreviouslyManaged.                *)
THEOREM NothingForgotten == Spec => []Tracked
<1>1. SpaceInv => Tracked
  BY DEF SpaceInv, DInv
<1> QED BY <1>1, SpaceInvariant, PTL

(* Outside a session an application is seen only while a job, a thread or  *)
(* a round that hides it is due, whatever the main thread, the worker, an  *)
(* orphan and the presence service do in whatever order.                   *)
THEOREM NoDoorStaysOpen == Spec => []NoOpenDoor
<1>1. SpaceInv => NoOpenDoor
  <2> SUFFICES ASSUME SpaceInv, alive, Exposed # {}
               PROVE  \/ Granted \/ rounds \/ holder # None \/ orphan # None
                      \/ \E j \in 1..Len(queue) : queue[j].kind \in {"open", "close"}
    BY DEF NoOpenDoor
  <2>1. Minded \/ rounds \/ holder # None
    BY DEF SpaceInv, DInv, Watched
  <2>2. \A j \in 1..Len(queue) : queue[j].kind \in {"ask", "open", "close"}
    <3>1. queue \in Seq(Jobs)
      BY DEF SpaceInv, DInv, Tracked, TypeOK
    <3>2. \A j \in 1..Len(queue) : queue[j] \in Jobs
      BY <3>1, ElementOfSeq
    <3> QED BY <3>2 DEF Jobs
  <2> QED BY <2>1, <2>2 DEF Minded, In
<1> QED BY <1>1, SpaceInvariant, PTL
=============================================================================
