---------------------------- MODULE AccessProofs ----------------------------
(***************************************************************************)
(* Who is let in: the accounts of the administrators (Accounts), for any   *)
(* accounts, sessions, requests in flight and bounds, and the client       *)
(* certificates of the televisions (TvCertificate), for any enrolments and *)
(* renewals.                                                               *)
(*                                                                         *)
(* Of the accounts: an active owner remains, codes serve once and in       *)
(* order, access does not outlive what was verified for it unless it       *)
(* crossed the change, and only the last invitation activates.  The        *)
(* invariant adds to these properties what the steps rely on: a server     *)
(* that is not configured has no account in use and no request in flight   *)
(* (Unconfigured); the counter of an active account is not behind the last *)
(* code of its secret (InOrder), although a sign-in that read an older row *)
(* writes it without looking at the state of the account; what a request   *)
(* in flight verified is in force or marked as changed, and the passkeys   *)
(* and sessions it may still become with it (Standing); a recovery between *)
(* its statements will end all that did not cross it (RecoveryStands);     *)
(* only the last invitation can be open (LastOpen), whatever was closed,   *)
(* expired or used in between.                                             *)
(*                                                                         *)
(* Of the certificates: the last one signed is the one issued, which the   *)
(* row of an active screen names (Last); what the broker signs is for the  *)
(* enrolment it read as long as it can still publish it (Signing).         *)
(***************************************************************************)
EXTENDS Accounts, TvCertificate, SequenceTheorems, TLAPS

Reads == [kind : {"login", "request"} \union Purposes, user : Users,
          session : Sessions \union {None}, counter : Counters \union {None},
          role : Roles, generation : Generations, crossed : BOOLEAN]

(* What a request in flight has read; a sign-in has read a code.           *)
WorkOK ==
  /\ work \in [Workers -> Reads \union {None}]
  /\ \A w \in Workers : work[w] # None /\ work[w].kind = "login" => work[w].counter # None

(* Before its first configuration the server holds nothing.                *)
Unconfigured ==
  ~configured =>
    /\ \A u \in Users : /\ users[u].state = "none" /\ passkeys[u] = {}
                        /\ challenges[u] = NoChallenges
                        /\ spent[u] = Unspent /\ invitations[u] = <<>>
    /\ \A s \in Sessions : sessions[s] = None
    /\ \A w \in Workers : work[w] = None
    /\ recovery = NoRecovery

(* A configured server has an active owner.                                *)
Owned == configured => \E u \in Users : Active(u) /\ users[u].role = "owner"

(* No code came twice, and none is beyond the counter of an active         *)
(* account.                                                                *)
InOrder ==
  \A u \in Users :
    /\ ~spent[u].again
    /\ Active(u) /\ spent[u].latest # None =>
         users[u].counter # None /\ spent[u].latest <= users[u].counter

(* A token of the host completes a recovery when it is consumed, and once. *)
OneRecovery ==
  /\ recovery.row # "consumed" => recovery.completions = 0
  /\ recovery.completions <= 1

(* A session is that of an account that exists; unless it crossed a change *)
(* it was opened under the credentials and the role in force.              *)
SessionStands(s) == sessions[s] # None =>
  LET u == sessions[s].user IN
  /\ users[u].state # "none"
  /\ ~sessions[s].crossed =>
       sessions[s].generation = users[u].generation /\ sessions[s].role = users[u].role

(* What a sign-in verified is in force or is known to have changed; the    *)
(* challenge of a registration cannot be overtaken.                        *)
RequestStands(w) == work[w] # None =>
  LET u == work[w].user IN
  /\ users[u].state # "none"
  /\ work[w].kind \in {"login", "authentication"} /\ ~work[w].crossed =>
       work[w].generation = users[u].generation /\ work[w].role = users[u].role
  /\ work[w].kind = "registration" => work[w].generation = users[u].generation

PasskeysStand(u) == \A k \in passkeys[u] : ~k.crossed => k.generation = users[u].generation

ChallengeStands(u, p) ==
  challenges[u][p] # None => challenges[u][p].generation = users[u].generation

Standing ==
  /\ \A s \in Sessions : SessionStands(s)
  /\ \A w \in Workers : RequestStands(w)
  /\ \A u \in Users : PasskeysStand(u) /\ \A p \in Purposes : ChallengeStands(u, p)

(* A recovery under way still has its account and its token, and will end  *)
(* all that did not cross it.                                              *)
RecoveryStands == recovering # None =>
  LET u == recovering.user IN
  /\ configured /\ Active(u) /\ users[u].generation < MaxGeneration
  /\ recovery.row = "open"
  /\ \A s \in Sessions : sessions[s] # None /\ sessions[s].user = u /\ ~sessions[s].crossed =>
       s \in recovering.sessions
  /\ recovering.pc = "passkeys" =>
       \A k \in passkeys[u] : ~k.crossed => k \in recovering.passkeys

(* Only the last invitation of an account can be open.                     *)
LastOpen ==
  \A u \in Users : \A i \in DOMAIN invitations[u] :
    invitations[u][i].status = "open" => i = Len(invitations[u])

IInv == /\ TypeOK /\ WorkOK /\ Unconfigured /\ Owned /\ InOrder /\ OneRecovery
        /\ Standing /\ RecoveryStands /\ LastOpen

(***************************************************************************)
(* Invitations, and the rows of the tables.                                *)
(***************************************************************************)

USE DEF UserRow, SpentRow, SessionRow, Token, ChallengeRow

(* Closing leaves every token in its place, and none open.                 *)
LEMMA ClosedTokens ==
  ASSUME NEW tokens \in Seq(Token)
  PROVE  /\ Closed(tokens) \in Seq(Token)
         /\ Len(Closed(tokens)) = Len(tokens)
         /\ \A i \in DOMAIN tokens : Closed(tokens)[i].status # "open"
<1>1. \A i \in 1..Len(tokens) : tokens[i] \in Token
  BY ElementOfSeq
<1>2. Closed(tokens) \in [1..Len(tokens) -> Token]
  BY <1>1 DEF Closed
<1>3. Len(tokens) \in Nat
  BY LenProperties
<1> QED BY <1>1, <1>2, <1>3, SeqDef, LenProperties DEF Closed

(* An invitation issued closes those before it.                            *)
LEMMA IssuedTokens ==
  ASSUME NEW tokens \in Seq(Token)
  PROVE  /\ Issue(tokens) \in Seq(Token)
         /\ Len(Issue(tokens)) = Len(tokens) + 1
         /\ \A i \in 1..Len(tokens) : Issue(tokens)[i].status # "open"
<1>1. [status |-> "open", challenged |-> FALSE] \in Token
  OBVIOUS
<1> QED BY <1>1, ClosedTokens, AppendProperties DEF Issue

(* The invitation just issued is the only one that can be open.            *)
LEMMA IssuedOpen ==
  ASSUME NEW tokens \in Seq(Token)
  PROVE  \A i \in DOMAIN Issue(tokens) :
           Issue(tokens)[i].status = "open" => i = Len(Issue(tokens))
<1>1. DOMAIN Issue(tokens) = 1..(Len(tokens) + 1) /\ Len(tokens) \in Nat
  BY IssuedTokens, LenProperties
<1> QED BY <1>1, IssuedTokens

(* A token changed in place.                                               *)
LEMMA TokenReplaced ==
  ASSUME NEW tokens \in Seq(Token), NEW i \in DOMAIN tokens, NEW t \in Token
  PROVE  /\ [tokens EXCEPT ![i] = t] \in Seq(Token)
         /\ Len([tokens EXCEPT ![i] = t]) = Len(tokens)
<1> QED BY ExceptSeq, LenProperties

(* The accounts of an empty database.                                      *)
LEMMA InitKeeps == Init => IInv
<1> SUFFICES ASSUME Init PROVE IInv OBVIOUS
<1>1. TypeOK
  <2>1. 0 \in Generations
    BY AccountsAssumption DEF Generations
  <2>2. <<>> \in Seq(Token)
    OBVIOUS
  <2> QED BY <2>1, <2>2 DEF Init, TypeOK, Unspent, NoChallenges, NoRecovery, Roles
<1>2. WorkOK /\ Unconfigured /\ Owned /\ InOrder /\ OneRecovery /\ LastOpen
  BY DEF Init, WorkOK, Unconfigured, Owned, InOrder, OneRecovery, LastOpen,
         Unspent, NoChallenges, NoRecovery, Active
<1>3. Standing /\ RecoveryStands
  BY DEF Init, Standing, SessionStands, RequestStands, PasskeysStand, ChallengeStands,
         RecoveryStands, NoChallenges
<1> QED BY <1>1, <1>2, <1>3 DEF IInv

(***************************************************************************)
(* What a step leaves of the access that stands.                           *)
(***************************************************************************)

(* The credentials and roles of the accounts that exist stay.              *)
SameAccounts == \A v \in Users :
  /\ users'[v].generation = users[v].generation
  /\ users[v].state # "none" => users'[v].state # "none" /\ users'[v].role = users[v].role

(* Access only ends, but for what stands as it comes.                      *)
LEMMA StandingKept ==
  ASSUME TypeOK, WorkOK, Standing, SameAccounts,
         \A s \in Sessions : \/ sessions'[s] = None \/ sessions'[s] = sessions[s]
                             \/ SessionStands(s)',
         \A w \in Workers : \/ work'[w] = None \/ work'[w] = work[w] \/ RequestStands(w)',
         \A v \in Users : passkeys'[v] \subseteq passkeys[v] \/ PasskeysStand(v)',
         \A v \in Users, p \in Purposes : \/ challenges'[v][p] = None
                                          \/ challenges'[v][p] = challenges[v][p]
                                          \/ ChallengeStands(v, p)'
  PROVE  Standing'
<1>1. \A s \in Sessions : SessionStands(s)'
  <2> SUFFICES ASSUME NEW s \in Sessions, sessions[s] # None, sessions'[s] = sessions[s]
               PROVE  SessionStands(s)'
    BY DEF SessionStands
  <2>1. sessions[s].user \in Users
    BY DEF TypeOK
  <2> QED BY <2>1 DEF Standing, SessionStands, SameAccounts
<1>2. \A w \in Workers : RequestStands(w)'
  <2> SUFFICES ASSUME NEW w \in Workers, work[w] # None, work'[w] = work[w]
               PROVE  RequestStands(w)'
    BY DEF RequestStands
  <2>1. work[w].user \in Users
    BY DEF WorkOK, Reads
  <2> QED BY <2>1 DEF Standing, RequestStands, SameAccounts
<1>3. \A v \in Users : PasskeysStand(v)'
  BY DEF Standing, PasskeysStand, SameAccounts
<1>4. \A v \in Users, p \in Purposes : ChallengeStands(v, p)'
  BY DEF Standing, ChallengeStands, SameAccounts
<1> QED BY <1>1, <1>2, <1>3, <1>4 DEF Standing

(* What a recovery will not end has crossed it.                            *)
LEMMA RecoveryKept ==
  ASSUME TypeOK, RecoveryStands, UNCHANGED recovering,
         recovering # None => UNCHANGED <<configured, recovery>>,
         \A v \in Users : Recovering(v) =>
           Active(v)' /\ users'[v].generation = users[v].generation,
         \A s \in Sessions : \/ sessions'[s] = None \/ sessions'[s] = sessions[s]
                             \/ sessions'[s].crossed \/ ~Recovering(sessions'[s].user),
         \A v \in Users : Recovering(v) =>
           \A k \in passkeys'[v] : k \in passkeys[v] \/ k.crossed
  PROVE  RecoveryStands'
<1> SUFFICES ASSUME recovering # None PROVE RecoveryStands'
  BY DEF RecoveryStands
<1> DEFINE u == recovering.user
<1>1. u \in Users /\ Recovering(u)
  BY DEF TypeOK, RecoveryRun, Recovering
<1>2. \A s \in Sessions : sessions'[s] # None /\ sessions'[s].user = u /\ ~sessions'[s].crossed =>
        s \in recovering.sessions
  BY <1>1 DEF RecoveryStands
<1>3. recovering.pc = "passkeys" =>
        \A k \in passkeys'[u] : ~k.crossed => k \in recovering.passkeys
  BY <1>1 DEF RecoveryStands
<1> QED BY <1>1, <1>2, <1>3 DEF RecoveryStands

(* A step that opens nothing.                                              *)
LEMMA AccessKept ==
  ASSUME IInv, SameAccounts, UNCHANGED recovering,
         recovering # None => UNCHANGED <<configured, recovery>>,
         \A v \in Users : Recovering(v) => Active(v)',
         \A s \in Sessions : sessions'[s] = None \/ sessions'[s] = sessions[s],
         \A w \in Workers : work'[w] = None \/ work'[w] = work[w],
         \A v \in Users : passkeys'[v] \subseteq passkeys[v],
         \A v \in Users, p \in Purposes : \/ challenges'[v][p] = None
                                          \/ challenges'[v][p] = challenges[v][p]
  PROVE  Standing' /\ RecoveryStands'
<1>1. Standing'
  BY StandingKept DEF IInv
<1>2. RecoveryStands'
  BY RecoveryKept DEF IInv, SameAccounts
<1> QED BY <1>1, <1>2

(* The account of a recovery is active.                                    *)
LEMMA RecoveringActive == ASSUME IInv, NEW v \in Users, Recovering(v) PROVE Active(v)
BY DEF IInv, RecoveryStands, Recovering

(* Before its first configuration the server recovers nothing.             *)
LEMMA NotRecovering == ASSUME IInv, ~configured PROVE recovering = None
BY DEF IInv, RecoveryStands

(***************************************************************************)
(* The parts of transactions.                                              *)
(***************************************************************************)

SpentTyped == spent \in [Users -> SpentRow]

(* What is known of the codes of a secret keeps its type...                *)
LEMMA AfterTyped ==
  ASSUME NEW r \in SpentRow, NEW c \in Counters
  PROVE  After(r, c) \in SpentRow
BY DEF After

(* A code beyond the last one comes for the first time.                    *)
LEMMA AfterInOrder ==
  ASSUME NEW r \in SpentRow, NEW c \in Counters, ~r.again,
         r.latest # None => r.latest < c
  PROVE  After(r, c) = [latest |-> c, again |-> FALSE]
<1>1. r.latest # None => c > r.latest
  BY DEF Counters
<1> QED BY <1>1, Zenon DEF After

(* ... when one of them is spent.                                          *)
LEMMA SpendTyped ==
  ASSUME TypeOK, NEW u \in Users, NEW c \in Counters, Spend(u, c)
  PROVE  SpentTyped'
BY AfterTyped DEF SpentTyped, TypeOK, Spend

(* One account takes a code beyond its counter, no account becomes active. *)
LEMMA SpendInOrder ==
  ASSUME TypeOK, InOrder, NEW u \in Users, NEW c \in Counters, Beyond(u, c), Spend(u, c),
         users'[u].counter = c,
         \A v \in Users : Active(v)' => Active(v),
         \A v \in Users \ {u} : Active(v)' => users'[v].counter = users[v].counter
  PROVE  InOrder'
<1>1. c # None
  BY AccountsAssumption DEF Counters
<1> QED BY <1>1 DEF TypeOK, InOrder, Spend, After, Active, Beyond, Counters

(* A session opened on what a request verified is a row...                 *)
LEMMA OpenedTyped ==
  ASSUME NEW w \in Workers, work[w] \in Reads
  PROVE  Opened(w) \in SessionRow
BY DEF Reads, Opened

(* ... and stands if that is in force.                                     *)
LEMMA OpenedStands ==
  ASSUME IInv, NEW w \in Workers, NEW s \in Sessions, work[w] # None,
         work[w].kind \in {"login", "authentication"}, work[w] \in Reads,
         sessions'[s] = Opened(w), SameAccounts
  PROVE  SessionStands(s)'
<1>1. RequestStands(w) /\ work[w].user \in Users
  BY DEF IInv, Standing, Reads
<1>2. /\ Opened(w).user = work[w].user /\ Opened(w).generation = work[w].generation
      /\ Opened(w).role = work[w].role /\ (work[w].crossed => Opened(w).crossed)
  BY DEF Opened
<1> QED BY <1>1, <1>2 DEF RequestStands, SessionStands, SameAccounts

(* Ending sessions leaves the others as they are.                          *)
LEMMA WithoutTyped ==
  ASSUME TypeOK, NEW over
  PROVE  /\ Without(over) \in [Sessions -> SessionRow \union {None}]
         /\ \A s \in Sessions : /\ Without(over)[s] = None \/ Without(over)[s] = sessions[s]
                                /\ s \in over => Without(over)[s] = None
BY DEF TypeOK, Without

(* What only ends sessions and requests in flight.                         *)
LEMMA SessionsEnd ==
  ASSUME IInv, NEW over, sessions' = Without(over), WorkOK',
         \A w \in Workers : work'[w] = None \/ work'[w] = work[w],
         UNCHANGED <<configured, users, spent, invitations, passkeys, challenges, secrets,
                     recovery, recovering>>
  PROVE  IInv'
<1>1. TypeOK'
  BY WithoutTyped DEF IInv, TypeOK
<1>2. Unconfigured' /\ Owned' /\ InOrder' /\ OneRecovery' /\ LastOpen'
  BY WithoutTyped
     DEF IInv, Unconfigured, Owned, InOrder, OneRecovery, LastOpen, Active
<1>3. \A s \in Sessions : sessions'[s] = None \/ sessions'[s] = sessions[s]
  BY WithoutTyped DEF IInv
<1>4. \A v \in Users : Recovering(v) => Active(v)'
  BY RecoveringActive DEF Active
<1>5. Standing' /\ RecoveryStands'
  BY <1>3, <1>4, AccessKept DEF SameAccounts
<1> QED BY <1>1, <1>2, <1>5 DEF IInv

(* A request in flight ends.                                               *)
LEMMA RequestEnds ==
  ASSUME IInv, NEW w \in Workers, Answered(w)
  PROVE  /\ WorkOK' /\ (~configured => \A v \in Workers : work'[v] = None)
         /\ \A v \in Workers : work'[v] = None \/ work'[v] = work[v]
BY DEF IInv, WorkOK, Unconfigured, Answered

(* One column of one account is written.                                   *)
LEMMA CounterSet ==
  ASSUME NEW f \in [Users -> UserRow], NEW v \in Users, NEW c \in Counters \union {None},
         NEW g, g = [f EXCEPT ![v].counter = c]
  PROVE  /\ g \in [Users -> UserRow]
         /\ g[v].counter = c /\ g[v].state = f[v].state /\ g[v].role = f[v].role
         /\ g[v].generation = f[v].generation
         /\ \A x \in Users \ {v} : g[x] = f[x]
OBVIOUS

(* The same for the state of an account...                                 *)
LEMMA StateSet ==
  ASSUME NEW f \in [Users -> UserRow], NEW v \in Users,
         NEW x \in {"none", "inactive", "active"}, NEW g, g = [f EXCEPT ![v].state = x]
  PROVE  /\ g \in [Users -> UserRow]
         /\ g[v].state = x /\ g[v].counter = f[v].counter /\ g[v].role = f[v].role
         /\ g[v].generation = f[v].generation
         /\ \A y \in Users \ {v} : g[y] = f[y]
OBVIOUS

(* ... and its role.                                                       *)
LEMMA RoleSet ==
  ASSUME NEW f \in [Users -> UserRow], NEW v \in Users, NEW r \in Roles,
         NEW g, g = [f EXCEPT ![v].role = r]
  PROVE  /\ g \in [Users -> UserRow]
         /\ g[v].role = r /\ g[v].state = f[v].state /\ g[v].counter = f[v].counter
         /\ g[v].generation = f[v].generation
         /\ \A x \in Users \ {v} : g[x] = f[x]
OBVIOUS

(* A request in flight is that of an account, and its server configured.   *)
LEMMA InFlight ==
  ASSUME IInv, NEW w \in Workers, work[w] # None
  PROVE  configured /\ work[w] \in Reads
BY DEF IInv, WorkOK, Unconfigured

(***************************************************************************)
(* First configuration.                                                    *)
(***************************************************************************)

(* The challenge of the first configuration.                               *)
LEMMA StepBootstrapTotp == ASSUME IInv, NEW u \in Users, BootstrapTotp(u) PROVE IInv'
<1>1. TypeOK'
  BY DEF IInv, TypeOK, BootstrapTotp, Challenge
<1>2. Standing' /\ RecoveryStands'
  BY NotRecovering, AccessKept DEF BootstrapTotp, SameAccounts, Recovering
<1> QED
  BY <1>1, <1>2 DEF IInv, BootstrapTotp, WorkOK, Unconfigured, Owned, InOrder, OneRecovery,
                    LastOpen, Active

(* The first owner.                                                        *)
LEMMA StepBootstrapComplete ==
  ASSUME IInv, NEW u \in Users, NEW c \in Counters, NEW s \in Sessions,
         BootstrapComplete(u, c, s)
  PROVE  IInv'
<1>1. 1 \in Generations /\ c # None
  BY AccountsAssumption DEF Generations, Counters
<1>2. TypeOK'
  <2>1. users' \in [Users -> UserRow]
    BY <1>1 DEF IInv, TypeOK, BootstrapComplete, Roles
  <2>2. spent' \in [Users -> SpentRow]
    BY DEF IInv, TypeOK, BootstrapComplete
  <2>3. OpenedAnew(u) \in SessionRow
    BY <2>1 DEF OpenedAnew
  <2> QED BY <2>1, <2>2, <2>3 DEF IInv, TypeOK, BootstrapComplete
<1>3. WorkOK' /\ Unconfigured' /\ OneRecovery' /\ LastOpen'
  BY DEF IInv, WorkOK, Unconfigured, OneRecovery, LastOpen, BootstrapComplete
<1>4. Owned' /\ InOrder'
  BY <1>1 DEF IInv, TypeOK, Unconfigured, Owned, InOrder, BootstrapComplete, Active, Unspent,
              Counters
<1>5. Standing'
  BY DEF IInv, TypeOK, Unconfigured, Standing, SessionStands, RequestStands, PasskeysStand,
         ChallengeStands, BootstrapComplete, OpenedAnew, NoChallenges
<1>6. RecoveryStands'
  BY NotRecovering DEF BootstrapComplete, RecoveryStands
<1> QED BY <1>2, <1>3, <1>4, <1>5, <1>6 DEF IInv

(***************************************************************************)
(* Sign-in.                                                                *)
(***************************************************************************)

(* A sign-in by password and code reads the account...                     *)
LEMMA StepLoginRead ==
  ASSUME IInv, NEW w \in Workers, NEW u \in Users, NEW c \in Counters, LoginRead(w, u, c)
  PROVE  IInv'
<1>1. c # None
  BY AccountsAssumption DEF Counters
<1>2. WorkOK'
  <2>1. users[u].role \in Roles /\ users[u].generation \in Generations
    BY DEF IInv, TypeOK
  <2> QED BY <1>1, <2>1 DEF IInv, WorkOK, Reads, LoginRead
<1>3. TypeOK' /\ Unconfigured'
  BY DEF IInv, TypeOK, Unconfigured, LoginRead, Active
<1>4. Standing'
  <2>1. RequestStands(w)'
    BY DEF IInv, WorkOK, LoginRead, RequestStands, Active
  <2>2. \A v \in Workers : v # w => work'[v] = work[v]
    BY DEF IInv, WorkOK, LoginRead
  <2> QED BY <2>1, <2>2, StandingKept DEF IInv, LoginRead, SameAccounts
<1>5. RecoveryStands'
  BY DEF IInv, LoginRead, RecoveryStands, Active
<1> QED
  BY <1>2, <1>3, <1>4, <1>5 DEF IInv, LoginRead, Owned, InOrder, OneRecovery, LastOpen, Active

(* ... and writes its counter: the row it read may be an older one.        *)
LEMMA StepLoginWrite ==
  ASSUME IInv, NEW w \in Workers, NEW s \in Sessions, LoginWrite(w, s)
  PROVE  IInv'
<1> DEFINE u == work[w].user
           c == work[w].counter
<1>1. /\ u \in Users /\ c \in Counters /\ c # None /\ configured /\ work[w] \in Reads
      /\ ~Recovering(u)
  BY InFlight DEF IInv, WorkOK, Reads, LoginWrite
<1>2. /\ Spend(u, c) /\ Beyond(u, c) /\ users' = [users EXCEPT ![u].counter = c]
      /\ sessions' = [sessions EXCEPT ![s] = Opened(w)] /\ Answered(w)
  BY DEF LoginWrite, Answered
<1>3. TypeOK'
  <2>1. users' \in [Users -> UserRow]
    BY <1>1, <1>2 DEF IInv, TypeOK
  <2>2. Opened(w) \in SessionRow
    BY <1>1, OpenedTyped
  <2> QED BY <1>1, <1>2, <2>1, <2>2, SpendTyped DEF SpentTyped, IInv, TypeOK, LoginWrite
<1>4. WorkOK' /\ Unconfigured'
  BY <1>1, <1>2, RequestEnds DEF LoginWrite, Unconfigured
<1>5. Owned'
  BY <1>1 DEF IInv, TypeOK, Owned, LoginWrite, Active
<1>6. InOrder'
  <2>1. /\ users'[u].counter = c
        /\ \A v \in Users : Active(v)' => Active(v)
        /\ \A v \in Users \ {u} : Active(v)' => users'[v].counter = users[v].counter
    BY <1>1, <1>2 DEF IInv, TypeOK, Active
  <2> QED BY <1>1, <1>2, <2>1, SpendInOrder DEF IInv
<1>7. Standing' /\ RecoveryStands'
  <2>1. SameAccounts /\ \A v \in Users : Active(v) => Active(v)'
    BY <1>1, <1>2 DEF IInv, TypeOK, SameAccounts, Active
  <2>2. work[w].kind = "login"
    BY DEF LoginWrite
  <2>3. SessionStands(s)'
    <3>1. sessions'[s] = Opened(w)
      BY <1>2 DEF IInv, TypeOK
    <3>2. work[w] # None
      BY DEF LoginWrite
    <3> QED BY <1>1, <2>1, <2>2, <3>1, <3>2, OpenedStands
  <2>4. \A t \in Sessions : t # s => sessions'[t] = sessions[t]
    BY <1>2 DEF IInv, TypeOK
  <2>5. Standing'
    BY <1>2, <2>1, <2>3, <2>4, RequestEnds, StandingKept DEF IInv, LoginWrite
  <2>6. sessions'[s].user = u
    BY <1>2 DEF IInv, TypeOK, Opened
  <2>7. RecoveryStands'
    BY <1>1, <2>1, <2>4, <2>6, RecoveringActive, RecoveryKept DEF IInv, LoginWrite, SameAccounts
  <2> QED BY <2>5, <2>7
<1>8. OneRecovery' /\ LastOpen'
  BY DEF IInv, OneRecovery, LastOpen, LoginWrite
<1> QED BY <1>3, <1>4, <1>5, <1>6, <1>7, <1>8 DEF IInv

(* A challenge for a passkey.                                              *)
LEMMA StepPasskeyOptions == ASSUME IInv, NEW u \in Users, PasskeyOptions(u) PROVE IInv'
<1>1. TypeOK'
  BY DEF IInv, TypeOK, PasskeyOptions, Purposes
<1>2. Standing'
  <2>1. \A v \in Users, p \in Purposes :
          challenges'[v][p] = challenges[v][p] \/ ChallengeStands(v, p)'
    BY DEF IInv, TypeOK, PasskeyOptions, Purposes, ChallengeStands
  <2> QED BY <2>1, StandingKept DEF IInv, PasskeyOptions, SameAccounts
<1>3. Unconfigured' /\ RecoveryStands'
  BY DEF IInv, Unconfigured, RecoveryStands, PasskeyOptions, Active
<1> QED
  BY <1>1, <1>2, <1>3 DEF IInv, PasskeyOptions, WorkOK, Owned, InOrder, OneRecovery, LastOpen,
                          Active

(* A sign-in with a passkey verifies it...                                 *)
LEMMA StepPasskeyVerify ==
  ASSUME IInv, NEW w \in Workers, NEW u \in Users, NEW k \in Passkeys, PasskeyVerify(w, u, k)
  PROVE  IInv'
<1>1. WorkOK'
  <2>1. users[u].role \in Roles
    BY DEF IInv, TypeOK
  <2> QED BY <2>1 DEF IInv, WorkOK, Reads, Passkeys, Purposes, PasskeyVerify
<1>2. TypeOK' /\ Unconfigured'
  BY DEF IInv, TypeOK, Unconfigured, PasskeyVerify, Active
<1>3. Standing'
  <2>1. ~k.crossed => k.generation = users[u].generation
    BY DEF IInv, Standing, PasskeysStand, PasskeyVerify
  <2>2. RequestStands(w)'
    BY <2>1 DEF IInv, WorkOK, PasskeyVerify, RequestStands, Active
  <2>3. \A v \in Workers : v # w => work'[v] = work[v]
    BY DEF IInv, WorkOK, PasskeyVerify
  <2> QED BY <2>2, <2>3, StandingKept DEF IInv, PasskeyVerify, SameAccounts
<1>4. RecoveryStands'
  BY DEF IInv, PasskeyVerify, RecoveryStands, Active
<1> QED
  BY <1>1, <1>2, <1>3, <1>4
     DEF IInv, PasskeyVerify, Owned, InOrder, OneRecovery, LastOpen, Active

(* ... and opens a session, which a recovery under way does not end.       *)
LEMMA StepPasskeyComplete ==
  ASSUME IInv, NEW w \in Workers, NEW s \in Sessions, PasskeyComplete(w, s)
  PROVE  IInv'
<1> DEFINE u == work[w].user
<1>1. u \in Users /\ configured /\ work[w] \in Reads /\ work[w].kind = "authentication"
  BY InFlight DEF Reads, PasskeyComplete
<1>2. /\ sessions' = [sessions EXCEPT ![s] = Opened(w)] /\ Answered(w)
      /\ challenges' = [challenges EXCEPT ![u]["authentication"] = None]
  BY DEF PasskeyComplete, Answered
<1>3. TypeOK'
  <2>1. Opened(w) \in SessionRow
    BY <1>1, OpenedTyped
  <2> QED BY <1>1, <1>2, <2>1 DEF IInv, TypeOK, PasskeyComplete, Purposes
<1>4. WorkOK' /\ Unconfigured'
  BY <1>1, <1>2, RequestEnds DEF PasskeyComplete, Unconfigured
<1>5. SameAccounts /\ \A v \in Users : Active(v) => Active(v)'
  BY DEF PasskeyComplete, SameAccounts, Active
<1>6. SessionStands(s)' /\ sessions'[s] = Opened(w)
  <2>1. sessions'[s] = Opened(w)
    BY <1>2 DEF IInv, TypeOK
  <2>2. work[w] # None
    BY DEF PasskeyComplete
  <2> QED BY <1>1, <1>5, <2>1, <2>2, OpenedStands
<1>7. \A t \in Sessions : t # s => sessions'[t] = sessions[t]
  BY <1>2 DEF IInv, TypeOK
<1>8. Standing'
  <2>1. \A v \in Users, p \in Purposes :
          challenges'[v][p] = None \/ challenges'[v][p] = challenges[v][p]
    BY <1>1, <1>2 DEF IInv, TypeOK, Purposes
  <2> QED BY <1>2, <1>5, <1>6, <1>7, <2>1, RequestEnds, StandingKept DEF IInv, PasskeyComplete
<1>9. RecoveryStands'
  <2>1. sessions'[s].crossed \/ ~Recovering(sessions'[s].user)
    <3>1. Opened(w).user = u /\ (Recovering(u) => Opened(w).crossed)
      BY DEF Opened
    <3>2. CASE Recovering(u)
      BY <1>6, <3>1, <3>2
    <3>3. CASE ~Recovering(u)
      <4> HIDE DEF u
      <4> QED BY <1>6, <3>1, <3>3 DEF Recovering
    <3> QED BY <3>2, <3>3
  <2> QED
    BY <1>5, <1>7, <2>1, RecoveringActive, RecoveryKept DEF IInv, PasskeyComplete, SameAccounts
<1> QED
  BY <1>3, <1>4, <1>8, <1>9
     DEF IInv, PasskeyComplete, Owned, InOrder, OneRecovery, LastOpen, Active

(***************************************************************************)
(* Activation.                                                             *)
(***************************************************************************)

(* The holder of an invitation asks for a secret.                          *)
LEMMA StepActivationTotp ==
  ASSUME IInv, NEW u \in Users, NEW i \in 1..MaxInvitations, ActivationTotp(u, i)
  PROVE  IInv'
<1> DEFINE t == [invitations[u][i] EXCEPT !.challenged = TRUE]
<1>1. invitations[u] \in Seq(Token) /\ i \in DOMAIN invitations[u]
  BY DEF IInv, TypeOK, ActivationTotp, Redeemable
<1>2. t \in Token /\ t.status = invitations[u][i].status
  <2>1. invitations[u][i] \in Token
    BY <1>1, ElementOfSeq, LenProperties
  <2> QED BY <2>1
<1>3. /\ invitations' = [invitations EXCEPT ![u] = [invitations[u] EXCEPT ![i] = t]]
      /\ [invitations[u] EXCEPT ![i] = t] \in Seq(Token)
      /\ Len([invitations[u] EXCEPT ![i] = t]) = Len(invitations[u])
  BY <1>1, <1>2, TokenReplaced DEF ActivationTotp
<1>4. TypeOK'
  BY <1>3 DEF IInv, TypeOK, ActivationTotp
<1>5. LastOpen'
  BY <1>1, <1>2, <1>3 DEF IInv, TypeOK, LastOpen
<1>6. Standing' /\ RecoveryStands'
  BY RecoveringActive, AccessKept DEF ActivationTotp, SameAccounts, Active
<1> QED
  BY <1>4, <1>5, <1>6 DEF IInv, ActivationTotp, WorkOK, Unconfigured, Owned, InOrder,
                          OneRecovery, Active

(* An invitation expires.                                                  *)
LEMMA StepExpireInvitation ==
  ASSUME IInv, NEW u \in Users, NEW i \in 1..MaxInvitations, ExpireInvitation(u, i)
  PROVE  IInv'
<1> DEFINE t == [invitations[u][i] EXCEPT !.status = "over"]
<1>1. invitations[u] \in Seq(Token) /\ i \in DOMAIN invitations[u]
  BY DEF IInv, TypeOK, ExpireInvitation
<1>2. t \in Token /\ t.status = "over"
  <2>1. invitations[u][i] \in Token
    BY <1>1, ElementOfSeq, LenProperties
  <2> QED BY <2>1
<1>3. /\ invitations' = [invitations EXCEPT ![u] = [invitations[u] EXCEPT ![i] = t]]
      /\ [invitations[u] EXCEPT ![i] = t] \in Seq(Token)
      /\ Len([invitations[u] EXCEPT ![i] = t]) = Len(invitations[u])
  BY <1>1, <1>2, TokenReplaced DEF ExpireInvitation
<1>4. TypeOK'
  BY <1>3 DEF IInv, TypeOK, ExpireInvitation
<1>5. LastOpen'
  BY <1>1, <1>2, <1>3 DEF IInv, TypeOK, LastOpen
<1>6. Standing' /\ RecoveryStands'
  BY RecoveringActive, AccessKept DEF ExpireInvitation, SameAccounts, Active
<1> QED
  BY <1>4, <1>5, <1>6 DEF IInv, ExpireInvitation, WorkOK, Unconfigured, Owned, InOrder,
                          OneRecovery, Active

(* The code that sets credentials is the first of their secret.            *)
LEMMA Recredentialed ==
  ASSUME IInv, NEW u \in Users, NEW c \in Counters, users[u].generation < MaxGeneration,
         Recredential(u, c)
  PROVE  /\ users' \in [Users -> UserRow]
         /\ SpentTyped'
         /\ InOrder'
         /\ users'[u].state = "active" /\ users'[u].role = users[u].role
         /\ users'[u].generation = users[u].generation + 1
         /\ \A v \in Users \ {u} : users'[v] = users[v]
<1>1. users[u].generation + 1 \in Generations /\ c # None /\ c \in Nat
  BY AccountsAssumption DEF IInv, TypeOK, Generations, Counters
<1>2. /\ users' \in [Users -> UserRow]
      /\ users'[u].state = "active" /\ users'[u].role = users[u].role
      /\ users'[u].generation = users[u].generation + 1
      /\ \A v \in Users \ {u} : users'[v] = users[v]
  <2>1. users' = [users EXCEPT ![u] = [users[u] EXCEPT
                    !.state = "active", !.counter = c, !.generation = users[u].generation + 1]]
    BY DEF IInv, TypeOK, Recredential
  <2>2. users[u] \in [state : {"none", "inactive", "active"}, role : Roles,
                      generation : Generations, counter : Counters \union {None}]
    BY DEF IInv, TypeOK
  <2> QED BY <1>1, <2>1, <2>2 DEF IInv, TypeOK
<1>3. SpentTyped'
  BY DEF IInv, TypeOK, Recredential, SpentTyped, Unspent
<1>4. InOrder'
  BY <1>1 DEF IInv, TypeOK, InOrder, Recredential, Active, Unspent
<1> QED BY <1>2, <1>3, <1>4

(* The sign-ins that verified an account know that it changed.             *)
LEMMA CrossedKept ==
  ASSUME WorkOK, NEW u \in Users, NEW x, x = Crossed(u)
  PROVE  /\ x \in [Workers -> Reads \union {None}]
         /\ \A w \in Workers : x[w] # None =>
              /\ work[w] # None /\ x[w].user = work[w].user /\ x[w].kind = work[w].kind
              /\ x[w].counter = work[w].counter
              /\ x[w].generation = work[w].generation /\ x[w].role = work[w].role
              /\ work[w].user = u /\ work[w].kind \in {"login", "authentication"} => x[w].crossed
              /\ work[w].user # u => x[w] = work[w]
<1> SUFFICES ASSUME NEW w \in Workers
             PROVE  /\ x[w] \in Reads \union {None}
                    /\ x[w] # None =>
                        /\ work[w] # None /\ x[w].user = work[w].user /\ x[w].kind = work[w].kind
                        /\ x[w].counter = work[w].counter
                        /\ x[w].generation = work[w].generation /\ x[w].role = work[w].role
                        /\ work[w].user = u /\ work[w].kind \in {"login", "authentication"} =>
                             x[w].crossed
                        /\ work[w].user # u => x[w] = work[w]
  BY DEF Crossed
<1>1. work[w] \in Reads \union {None}
  BY DEF WorkOK
<1>2. CASE work[w] # None /\ work[w].user = u /\ work[w].kind \in {"login", "authentication"}
  <2>1. work[w] \in Reads /\ x[w] = [work[w] EXCEPT !.crossed = TRUE]
    BY <1>1, <1>2 DEF Crossed
  <2> QED BY <1>2, <2>1 DEF Reads
<1>3. CASE ~(work[w] # None /\ work[w].user = u /\ work[w].kind \in {"login", "authentication"})
  BY <1>1, <1>3 DEF Crossed
<1> QED BY <1>2, <1>3

(* No request holds a passkey or a challenge of u: with its new            *)
(* credentials, what is under way for it is a request or a sign-in that    *)
(* knows.                                                                  *)
LEMMA ChangeCrosses ==
  ASSUME IInv, NEW u \in Users, Calm(u), work' = Crossed(u), users'[u].state # "none",
         \A v \in Users \ {u} : users'[v] = users[v]
  PROVE  \A w \in Workers : RequestStands(w)'
<1> SUFFICES ASSUME NEW w \in Workers, work'[w] # None PROVE RequestStands(w)'
  BY DEF RequestStands
<1>1. /\ work[w] # None /\ work'[w].user = work[w].user /\ work'[w].kind = work[w].kind
      /\ work[w].user = u /\ work[w].kind \in {"login", "authentication"} => work'[w].crossed
      /\ work[w].user # u => work'[w] = work[w]
  BY CrossedKept DEF IInv
<1>2. RequestStands(w) /\ work[w].user \in Users
  BY <1>1 DEF IInv, Standing, WorkOK, Reads
<1>3. CASE work[w].user = u
  <2>1. work[w].kind # "registration"
    BY <1>1, <1>3 DEF Calm, Held, Purposes
  <2> QED BY <1>1, <1>3, <2>1 DEF RequestStands
<1>4. CASE work[w].user # u
  BY <1>1, <1>2, <1>4 DEF RequestStands
<1> QED BY <1>3, <1>4

(* Whoever stays active and keeps its role leaves an owner.                *)
LEMMA OwnerKept ==
  ASSUME Owned, configured,
         \A v \in Users : Active(v) => Active(v)' /\ users'[v].role = users[v].role
  PROVE  Owned'
BY DEF Owned

(* After an activation none of the invitations is open.                    *)
LEMMA Redeemed ==
  ASSUME IInv, NEW u \in Users, NEW i \in DOMAIN invitations[u],
         NEW r, r = Closed([invitations[u] EXCEPT ![i].status = "used"])
  PROVE  /\ r \in Seq(Token)
         /\ Len(r) = Len(invitations[u])
         /\ \A j \in DOMAIN r : r[j].status # "open"
         /\ r[i].status = "used"
<1> DEFINE t == [invitations[u][i] EXCEPT !.status = "used"]
           q == [invitations[u] EXCEPT ![i] = t]
<1>1. invitations[u] \in Seq(Token)
  BY DEF IInv, TypeOK
<1>2. t \in Token /\ t.status = "used"
  <2>1. invitations[u][i] \in Token
    BY <1>1, ElementOfSeq, LenProperties
  <2> QED BY <2>1
<1>3. /\ q \in Seq(Token) /\ Len(q) = Len(invitations[u]) /\ q[i] = t
      /\ DOMAIN q = DOMAIN invitations[u]
  BY <1>1, <1>2, TokenReplaced
<1>4. r = Closed(q)
  OBVIOUS
<1>5. /\ Closed(q) \in Seq(Token) /\ Len(Closed(q)) = Len(q)
      /\ \A j \in DOMAIN q : Closed(q)[j].status # "open"
  BY <1>3, ClosedTokens
<1>6. DOMAIN Closed(q) = DOMAIN q /\ Closed(q)[i] = t
  BY <1>2, <1>3 DEF Closed
<1> HIDE DEF t, q
<1> QED BY <1>2, <1>3, <1>4, <1>5, <1>6

(* The account is activated with new credentials, its other invitations    *)
(* closed.                                                                 *)
LEMMA StepActivationComplete ==
  ASSUME IInv, NEW u \in Users, NEW i \in 1..MaxInvitations, NEW c \in Counters,
         NEW s \in Sessions, ActivationComplete(u, i, c, s)
  PROVE  IInv'
<1>1. /\ Recredential(u, c) /\ users[u].generation < MaxGeneration
      /\ i \in DOMAIN invitations[u] /\ ~Active(u) /\ Calm(u) /\ work' = Crossed(u)
  BY DEF ActivationComplete, Redeemable, Renewable
<1>2. configured
  BY <1>1 DEF IInv, Unconfigured
<1>3. /\ users' \in [Users -> UserRow] /\ SpentTyped' /\ InOrder'
      /\ users'[u].state = "active" /\ users'[u].role = users[u].role
      /\ users'[u].generation = users[u].generation + 1
      /\ \A v \in Users \ {u} : users'[v] = users[v]
  BY <1>1, Recredentialed
<1>4. OpenedAnew(u) \in SessionRow
  BY <1>3 DEF OpenedAnew
<1>5. TypeOK'
  <2>1. sessions' \in [Sessions -> SessionRow \union {None}]
    BY <1>4, WithoutTyped DEF IInv, ActivationComplete
  <2>2. invitations' \in [Users -> Seq(Token)]
    BY <1>1, Redeemed DEF IInv, TypeOK, ActivationComplete
  <2>3. passkeys' \in [Users -> SUBSET Passkeys]
    BY DEF IInv, TypeOK, ActivationComplete
  <2>4. challenges' \in [Users -> [Purposes -> ChallengeRow \union {None}]]
    BY DEF IInv, TypeOK, ActivationComplete, NoChallenges
  <2> QED
    BY <1>3, <2>1, <2>2, <2>3, <2>4 DEF IInv, TypeOK, ActivationComplete, SpentTyped
<1>6. WorkOK'
  BY <1>1, CrossedKept DEF IInv, WorkOK
<1>7. Unconfigured' /\ OneRecovery'
  BY <1>2 DEF IInv, Unconfigured, OneRecovery, ActivationComplete
<1>8. Owned'
  BY <1>2, <1>3, OwnerKept DEF IInv, ActivationComplete, TypeOK, Active
<1>9. Standing'
  <2>1. \A w \in Workers : RequestStands(w)'
    BY <1>1, <1>3, ChangeCrosses
  <2>2. \A t \in Sessions : SessionStands(t)'
    <3> SUFFICES ASSUME NEW t \in Sessions, sessions'[t] # None PROVE SessionStands(t)'
      BY DEF SessionStands
    <3>1. CASE t = s
      <4>1. sessions'[t] = OpenedAnew(u)
        BY <3>1, WithoutTyped DEF IInv, ActivationComplete
      <4> QED BY <1>3, <4>1 DEF SessionStands, OpenedAnew
    <3>2. CASE t # s
      <4>1. sessions'[t] = sessions[t] /\ sessions[t].user \in Users \ {u}
        BY <3>2, WithoutTyped DEF IInv, TypeOK, ActivationComplete, SessionsOf
      <4> QED BY <1>3, <4>1 DEF IInv, Standing, SessionStands
    <3> QED BY <3>1, <3>2
  <2>3. \A v \in Users : PasskeysStand(v)' /\ \A p \in Purposes : ChallengeStands(v, p)'
    <3>1. passkeys'[u] = {} /\ challenges'[u] = NoChallenges
      BY DEF IInv, TypeOK, ActivationComplete
    <3>2. \A v \in Users \ {u} : passkeys'[v] = passkeys[v] /\ challenges'[v] = challenges[v]
      BY DEF IInv, TypeOK, ActivationComplete
    <3> QED
      BY <1>3, <3>1, <3>2 DEF IInv, Standing, PasskeysStand, ChallengeStands, NoChallenges
  <2> QED BY <2>1, <2>2, <2>3 DEF Standing
<1>10. RecoveryStands'
  <2>1. ~Recovering(u)
    BY <1>1, RecoveringActive
  <2>2. \A v \in Users : Recovering(v) =>
          /\ Active(v)' /\ users'[v].generation = users[v].generation
          /\ passkeys'[v] = passkeys[v]
    BY <1>3, <2>1, RecoveringActive DEF IInv, TypeOK, ActivationComplete, Active
  <2>3. \A t \in Sessions : \/ sessions'[t] = None \/ sessions'[t] = sessions[t]
                             \/ ~Recovering(sessions'[t].user)
    <3> SUFFICES ASSUME NEW t \in Sessions
                 PROVE  \/ sessions'[t] = None \/ sessions'[t] = sessions[t]
                        \/ ~Recovering(sessions'[t].user)
      OBVIOUS
    <3>1. CASE t = s
      <4>1. sessions'[t] = OpenedAnew(u)
        BY <3>1, WithoutTyped DEF IInv, ActivationComplete
      <4>2. sessions'[t].user = u
        BY <4>1 DEF OpenedAnew
      <4> QED BY <2>1, <4>2
    <3>2. CASE t # s
      BY <3>2, WithoutTyped DEF IInv, ActivationComplete
    <3> QED BY <3>1, <3>2
  <2> QED BY <2>2, <2>3, RecoveryKept DEF IInv, ActivationComplete, Recovering
<1>11. LastOpen'
  <2>1. /\ invitations'[u] = Closed([invitations[u] EXCEPT ![i].status = "used"])
        /\ \A v \in Users \ {u} : invitations'[v] = invitations[v]
    BY DEF IInv, TypeOK, ActivationComplete
  <2>2. \A j \in DOMAIN invitations'[u] : invitations'[u][j].status # "open"
    BY <1>1, <2>1, Redeemed
  <2> QED BY <2>1, <2>2 DEF IInv, LastOpen
<1> QED BY <1>3, <1>5, <1>6, <1>7, <1>8, <1>9, <1>10, <1>11 DEF IInv

(***************************************************************************)
(* Requests of a signed-in account.                                        *)
(***************************************************************************)

(* A request reads the session and the account it is made for.             *)
LEMMA StepAuthorise ==
  ASSUME IInv, NEW w \in Workers, NEW s \in Sessions, Authorise(w, s)
  PROVE  IInv'
<1> DEFINE u == sessions[s].user
<1>1. u \in Users /\ users[u].role \in Roles /\ 0 \in Generations /\ Active(u)
  BY AccountsAssumption DEF IInv, TypeOK, Authorise, Usable, Generations
<1>2. /\ work' = [work EXCEPT ![w] = [kind |-> "request", user |-> u, session |-> s,
           counter |-> None, role |-> users[u].role, generation |-> 0, crossed |-> FALSE]]
      /\ UNCHANGED <<configured, users, spent, sessions, invitations, passkeys,
                     challenges, secrets, recovery, recovering>>
  BY DEF Authorise
<1>3. WorkOK'
  BY <1>1, <1>2 DEF IInv, WorkOK, Reads
<1>4. Unconfigured'
  BY DEF IInv, Unconfigured, Authorise, Usable
<1>5. Standing' /\ RecoveryStands'
  <2>1. RequestStands(w)'
    BY <1>1, <1>2 DEF IInv, WorkOK, RequestStands, Active
  <2>2. \A v \in Workers : v # w => work'[v] = work[v]
    BY <1>2 DEF IInv, WorkOK
  <2>3. Standing'
    BY <1>2, <2>1, <2>2, StandingKept DEF IInv, SameAccounts
  <2>4. RecoveryStands'
    BY <1>2 DEF IInv, RecoveryStands, Active
  <2> QED BY <2>3, <2>4
<1> QED
  BY <1>2, <1>3, <1>4, <1>5 DEF IInv, TypeOK, Owned, InOrder, OneRecovery, LastOpen, Active

(* A request that is refused.                                              *)
LEMMA StepRefused == ASSUME IInv, NEW w \in Workers, Refused(w) PROVE IInv'
<1>1. WorkOK' /\ Unconfigured'
  BY RequestEnds DEF Refused, IInv, Unconfigured
<1>2. Standing' /\ RecoveryStands'
  BY RecoveringActive, RequestEnds, AccessKept DEF Refused, SameAccounts, Active
<1> QED
  BY <1>1, <1>2 DEF IInv, Refused, TypeOK, Owned, InOrder, OneRecovery, LastOpen, Active

(* Requests that end sessions.                                             *)
LEMMA StepSessions ==
  ASSUME IInv, NEW w \in Workers,
         Logout(w) \/ RevokeOtherSessions(w) \/ \E s \in Sessions : RevokeSession(w, s)
  PROVE  IInv'
<1>1. WorkOK' /\ \A v \in Workers : work'[v] = None \/ work'[v] = work[v]
  BY RequestEnds DEF Logout, RevokeOtherSessions, RevokeSession
<1>2. PICK over : sessions' = Without(over)
  BY DEF Logout, RevokeOtherSessions, RevokeSession
<1> QED BY <1>1, <1>2, SessionsEnd DEF Logout, RevokeOtherSessions, RevokeSession

(* A session expires.                                                      *)
LEMMA StepExpireSession == ASSUME IInv, NEW s \in Sessions, ExpireSession(s) PROVE IInv'
BY SessionsEnd DEF ExpireSession, IInv, WorkOK

(* A step-up: the account of the request is active, its counter moves.     *)
LEMMA SteppedUp ==
  ASSUME IInv, NEW w \in Workers, NEW c \in Counters, Requested(w), StepUp(work[w].user, c)
  PROVE  /\ configured /\ work[w] \in Reads
         /\ work[w].user \in Users /\ Active(work[w].user) /\ Beyond(work[w].user, c)
         /\ ~Recovering(work[w].user)
         /\ c # None /\ c \in Nat
<1>1. c # None /\ c \in Nat
  BY AccountsAssumption DEF Counters
<1>2. configured /\ work[w] \in Reads
  BY InFlight DEF Requested
<1> QED BY <1>1, <1>2 DEF StepUp, Reads

(* The conjuncts that a step which moves a counter and little else leaves. *)
LEMMA CounterMoves ==
  ASSUME IInv, NEW u \in Users, NEW c \in Counters, Beyond(u, c), Spend(u, c), Active(u),
         users' = [users EXCEPT ![u].counter = c], configured, UNCHANGED configured
  PROVE  /\ users' \in [Users -> UserRow]
         /\ SpentTyped'
         /\ Owned' /\ InOrder' /\ Unconfigured'
         /\ SameAccounts
         /\ \A v \in Users : Active(v)' <=> Active(v)
<1>1. users' \in [Users -> UserRow]
  BY DEF IInv, TypeOK
<1>2. /\ \A v \in Users : /\ Active(v)' <=> Active(v)
                          /\ users'[v].role = users[v].role
      /\ SameAccounts
      /\ users'[u].counter = c
      /\ \A v \in Users \ {u} : Active(v)' => users'[v].counter = users[v].counter
  BY DEF IInv, TypeOK, Active, SameAccounts
<1>3. InOrder'
  BY <1>2, SpendInOrder DEF IInv
<1>4. Owned' /\ Unconfigured'
  BY <1>2, OwnerKept DEF IInv, Unconfigured
<1> QED BY <1>1, <1>2, <1>3, <1>4, SpendTyped DEF IInv

(* A step-up before a passkey is registered.                               *)
LEMMA StepPasskeyRegistrationOptions ==
  ASSUME IInv, NEW w \in Workers, NEW c \in Counters, PasskeyRegistrationOptions(w, c)
  PROVE  IInv'
<1> DEFINE u == work[w].user
<1>1. /\ configured /\ work[w] \in Reads /\ u \in Users /\ Active(u) /\ Beyond(u, c)
      /\ Answered(w) /\ Spend(u, c) /\ users' = [users EXCEPT ![u].counter = c]
  BY SteppedUp DEF PasskeyRegistrationOptions
<1> HIDE DEF u
<1>2. challenges' = [challenges EXCEPT ![u]["registration"] =
         [session |-> work[w].session, generation |-> users[u].generation]]
  BY DEF PasskeyRegistrationOptions, u
<1>3. /\ SameAccounts /\ \A v \in Users : Active(v)' <=> Active(v)
      /\ users' \in [Users -> UserRow] /\ SpentTyped'
      /\ Owned' /\ InOrder' /\ Unconfigured'
  BY <1>1, CounterMoves DEF PasskeyRegistrationOptions
<1>4. TypeOK'
  <2>1. challenges' \in [Users -> [Purposes -> ChallengeRow \union {None}]]
    BY <1>1, <1>2 DEF IInv, TypeOK, Reads, Purposes
  <2> QED
    BY <1>3, <2>1 DEF IInv, TypeOK, SpentTyped, PasskeyRegistrationOptions
<1>5. Standing'
  <2>1. \A v \in Users, p \in Purposes :
          challenges'[v][p] = challenges[v][p] \/ ChallengeStands(v, p)'
    BY <1>1, <1>2, <1>3 DEF IInv, TypeOK, Purposes, ChallengeStands, SameAccounts
  <2> QED
    BY <1>1, <1>3, <2>1, RequestEnds, StandingKept DEF IInv, PasskeyRegistrationOptions
<1>6. RecoveryStands'
  BY <1>3, RecoveringActive, RecoveryKept DEF IInv, PasskeyRegistrationOptions, SameAccounts
<1>7. OneRecovery' /\ LastOpen' /\ WorkOK'
  BY <1>1, RequestEnds DEF IInv, OneRecovery, LastOpen, PasskeyRegistrationOptions
<1> QED BY <1>3, <1>4, <1>5, <1>6, <1>7 DEF IInv

(* A step-up, and a passkey is revoked.                                    *)
LEMMA StepRevokePasskey ==
  ASSUME IInv, NEW w \in Workers, NEW c \in Counters, NEW k \in Passkeys,
         RevokePasskey(w, k, c)
  PROVE  IInv'
<1> DEFINE u == work[w].user
<1>1. /\ configured /\ work[w] \in Reads /\ u \in Users /\ Active(u) /\ Beyond(u, c)
      /\ Answered(w) /\ Spend(u, c) /\ users' = [users EXCEPT ![u].counter = c]
  BY SteppedUp DEF RevokePasskey
<1> HIDE DEF u
<1>2. passkeys' = [passkeys EXCEPT ![u] = passkeys[u] \ {k}]
  BY <1>1 DEF RevokePasskey, u, IInv, TypeOK
<1>3. /\ SameAccounts /\ \A v \in Users : Active(v)' <=> Active(v)
      /\ users' \in [Users -> UserRow] /\ SpentTyped'
      /\ Owned' /\ InOrder' /\ Unconfigured'
  BY <1>1, CounterMoves DEF RevokePasskey
<1>4. TypeOK'
  BY <1>1, <1>2, <1>3 DEF IInv, TypeOK, SpentTyped, RevokePasskey
<1>5. Standing' /\ RecoveryStands'
  <2>1. \A v \in Users : passkeys'[v] \subseteq passkeys[v]
    BY <1>1, <1>2 DEF IInv, TypeOK
  <2> QED BY <1>1, <1>3, <2>1, RecoveringActive, RequestEnds, AccessKept DEF RevokePasskey
<1>6. OneRecovery' /\ LastOpen' /\ WorkOK'
  BY <1>1, RequestEnds DEF IInv, OneRecovery, LastOpen, RevokePasskey
<1> QED BY <1>3, <1>4, <1>5, <1>6 DEF IInv

(* The challenge of a passkey to register is locked...                     *)
LEMMA StepPasskeyRegistrationVerify ==
  ASSUME IInv, NEW w \in Workers, PasskeyRegistrationVerify(w)
  PROVE  IInv'
<1> DEFINE u == work[w].user
           g == challenges[u]["registration"].generation
<1>1. /\ configured /\ work[w] \in Reads /\ u \in Users /\ work[w] # None
      /\ challenges[u]["registration"] # None
  BY InFlight DEF PasskeyRegistrationVerify, Requested, Reads
<1>2. /\ work' = [work EXCEPT ![w] = [work[w] EXCEPT !.kind = "registration", !.generation = g]]
      /\ UNCHANGED <<configured, users, spent, sessions, invitations, passkeys,
                     challenges, secrets, recovery, recovering>>
  BY DEF PasskeyRegistrationVerify, IInv, WorkOK
<1>3. g \in Generations /\ g = users[u].generation /\ users[u].state # "none"
  BY <1>1 DEF IInv, TypeOK, Standing, ChallengeStands, RequestStands, Purposes
<1> HIDE DEF g
<1>4. /\ work'[w] \in Reads /\ work'[w].user = u /\ work'[w].kind = "registration"
      /\ work'[w].generation = g
      /\ \A v \in Workers : v # w => work'[v] = work[v]
      /\ work' \in [Workers -> Reads \union {None}]
  <2>1. [work[w] EXCEPT !.kind = "registration", !.generation = g] \in Reads
    BY <1>1, <1>3 DEF Reads, Purposes
  <2> QED BY <1>1, <1>2, <2>1 DEF IInv, WorkOK, Reads
<1>5. WorkOK'
  BY <1>4 DEF IInv, WorkOK
<1>6. Standing'
  <2>1. RequestStands(w)'
    BY <1>2, <1>3, <1>4 DEF RequestStands
  <2> QED BY <1>2, <1>4, <2>1, StandingKept DEF IInv, SameAccounts
<1>7. RecoveryStands' /\ Unconfigured'
  BY <1>1, <1>2 DEF IInv, RecoveryStands, Unconfigured, Active
<1> QED
  BY <1>2, <1>5, <1>6, <1>7 DEF IInv, TypeOK, Owned, InOrder, OneRecovery, LastOpen, Active

(* ... and the passkey is registered, which a recovery under way may not   *)
(* end.                                                                    *)
LEMMA StepPasskeyRegistrationComplete ==
  ASSUME IInv, NEW w \in Workers, PasskeyRegistrationComplete(w)
  PROVE  IInv'
<1>1. work[w] \in Reads
  BY InFlight DEF PasskeyRegistrationComplete
<1>2. PICK u \in Users : u = work[w].user
  BY <1>1 DEF Reads
<1>3. PICK g \in Generations : g = work[w].generation
  BY <1>1 DEF Reads
<1>4. PICK k : k = [generation |-> g, crossed |-> Recovering(u)]
  OBVIOUS
<1>5. configured /\ work[w] \in Reads /\ work[w] # None /\ Answered(w)
  BY InFlight DEF PasskeyRegistrationComplete
<1>6. g = users[u].generation
  BY <1>5, <1>2, <1>3 DEF IInv, Standing, RequestStands, PasskeyRegistrationComplete
<1>7. /\ passkeys' = [passkeys EXCEPT ![u] = passkeys[u] \union {k}]
      /\ challenges' = [challenges EXCEPT ![u]["registration"] = None]
      /\ UNCHANGED <<configured, users, spent, sessions, invitations, secrets, recovery,
                     recovering>>
  BY <1>2, <1>3, <1>4 DEF PasskeyRegistrationComplete, IInv, TypeOK
<1>8. k \in Passkeys /\ k.generation = g /\ (Recovering(u) => k.crossed)
  <2>1. Recovering(u) \in BOOLEAN
    BY DEF Recovering
  <2>2. k.generation = g /\ (Recovering(u) => k.crossed)
    BY <1>4
  <2>3. k \in Passkeys
    BY <1>4, <2>1 DEF Passkeys
  <2> QED BY <2>2, <2>3
<1>9. TypeOK'
  BY <1>5, <1>7, <1>8 DEF IInv, TypeOK, Purposes
<1>10. WorkOK' /\ Unconfigured'
  BY <1>5, <1>7, RequestEnds DEF Unconfigured
<1>11. /\ passkeys'[u] = passkeys[u] \union {k}
      /\ \A v \in Users \ {u} : passkeys'[v] = passkeys[v]
  BY <1>5, <1>7 DEF IInv, TypeOK
<1>12. Standing'
  <2>1. PasskeysStand(u)'
    <3>1. \A x \in passkeys[u] : ~x.crossed => x.generation = users[u].generation
      BY <1>5 DEF IInv, Standing, PasskeysStand
    <3>2. users' = users
      BY <1>7
    <3> QED BY <1>6, <1>8, <1>11, <3>1, <3>2 DEF PasskeysStand
  <2>2. \A v \in Users, p \in Purposes :
          challenges'[v][p] = None \/ challenges'[v][p] = challenges[v][p]
    BY <1>5, <1>7 DEF IInv, TypeOK, Purposes
  <2>3. \A v \in Users : passkeys'[v] \subseteq passkeys[v] \/ PasskeysStand(v)'
    BY <1>11, <2>1
  <2>4. SameAccounts /\ \A v \in Workers : work'[v] = None \/ work'[v] = work[v]
    BY <1>5, <1>7, RequestEnds DEF SameAccounts
  <2> QED BY <1>7, <2>2, <2>3, <2>4, StandingKept DEF IInv
<1>13. RecoveryStands'
  <2>1. \A v \in Users : Recovering(v) => Active(v)' /\ users'[v].generation = users[v].generation
    BY <1>7, RecoveringActive DEF Active
  <2>2. \A v \in Users : Recovering(v) =>
          \A x \in passkeys'[v] : x \in passkeys[v] \/ x.crossed
    BY <1>8, <1>11
  <2> QED BY <1>7, <2>1, <2>2, RecoveryKept DEF IInv
<1> QED
  BY <1>7, <1>9, <1>10, <1>12, <1>13 DEF IInv, Owned, InOrder, OneRecovery, LastOpen, Active

(* What an invitation changes: one counter, and an account that is not     *)
(* active.                                                                 *)
LEMMA Invited ==
  ASSUME IInv, NEW w \in Workers, NEW u \in Users, NEW c \in Counters, NEW r \in Roles,
         Invite(w, u, c, r)
  PROVE  LET a == work[w].user IN
         /\ configured /\ a \in Users /\ Active(a) /\ Beyond(a, c) /\ u # a /\ ~Active(u)
         /\ ~Recovering(a) /\ Answered(w) /\ Spend(a, c)
         /\ users' \in [Users -> UserRow]
         /\ \A v \in Users : Active(v)' <=> Active(v)
         /\ \A v \in Users \ {u} : users'[v].role = users[v].role
         /\ SameAccounts
         /\ users'[a].counter = c
         /\ \A v \in Users \ {a} : users'[v].counter = users[v].counter
<1> DEFINE a == work[w].user
           f == [users EXCEPT ![a].counter = c]
           g == [f EXCEPT ![u].state = "inactive"]
<1>1. /\ configured /\ a \in Users /\ Active(a) /\ Beyond(a, c) /\ u # a /\ ~Active(u)
      /\ ~Recovering(a) /\ Answered(w) /\ Spend(a, c)
  BY SteppedUp DEF Invite, OwnerRequest, Reads, Active
<1>2. users \in [Users -> UserRow] /\ users' = [g EXCEPT ![u].role = r]
  BY DEF IInv, TypeOK, Invite
<1> HIDE DEF a
<1>3. /\ f \in [Users -> UserRow]
      /\ f[a].counter = c /\ f[a].state = users[a].state /\ f[a].role = users[a].role
      /\ f[a].generation = users[a].generation
      /\ \A x \in Users \ {a} : f[x] = users[x]
  BY <1>1, <1>2, CounterSet
<1> HIDE DEF f
<1>4. /\ g \in [Users -> UserRow]
      /\ g[u].state = "inactive" /\ g[u].counter = f[u].counter
      /\ g[u].generation = f[u].generation
      /\ \A x \in Users \ {u} : g[x] = f[x]
  BY <1>3, StateSet
<1> HIDE DEF g
<1>5. /\ users' \in [Users -> UserRow]
      /\ users'[u].state = "inactive" /\ users'[u].counter = g[u].counter
      /\ users'[u].generation = g[u].generation
      /\ \A x \in Users \ {u} : users'[x] = g[x]
  BY <1>2, <1>4, RoleSet
<1>6. \A v \in Users : Active(v)' <=> Active(v)
  BY <1>1, <1>3, <1>4, <1>5 DEF Active
<1>7. /\ \A v \in Users \ {u} : users'[v].role = users[v].role
      /\ SameAccounts
      /\ users'[a].counter = c
      /\ \A v \in Users \ {a} : users'[v].counter = users[v].counter
  <2>1. users[u].state = "none"
    BY DEF Invite
  <2> QED BY <1>1, <1>3, <1>4, <1>5, <2>1 DEF SameAccounts
<1> QED BY <1>1, <1>5, <1>6, <1>7 DEF a

(* An owner invites.                                                       *)
LEMMA StepInvite ==
  ASSUME IInv, NEW w \in Workers, NEW u \in Users, NEW c \in Counters, NEW r \in Roles,
         Invite(w, u, c, r)
  PROVE  IInv'
<1> DEFINE a == work[w].user
<1>1. /\ configured /\ a \in Users /\ Active(a) /\ Beyond(a, c) /\ u # a /\ ~Active(u)
      /\ Answered(w) /\ Spend(a, c)
  BY Invited
<1>2. /\ users' \in [Users -> UserRow]
      /\ \A v \in Users : Active(v)' <=> Active(v)
      /\ \A v \in Users \ {u} : users'[v].role = users[v].role
      /\ SameAccounts
      /\ users'[a].counter = c
      /\ \A v \in Users \ {a} : users'[v].counter = users[v].counter
  BY Invited
<1> HIDE DEF a
<1>3. /\ invitations[u] \in Seq(Token)
      /\ invitations' = [invitations EXCEPT ![u] = Issue(invitations[u])]
  BY DEF IInv, TypeOK, Invite
<1>4. TypeOK'
  <2>1. invitations' \in [Users -> Seq(Token)]
    BY <1>3, IssuedTokens DEF IInv, TypeOK
  <2>2. SpentTyped'
    BY <1>1, SpendTyped DEF IInv
  <2> QED BY <1>2, <2>1, <2>2 DEF IInv, TypeOK, SpentTyped, Invite
<1>5. InOrder'
  BY <1>1, <1>2, SpendInOrder DEF IInv
<1>6. Owned' /\ Unconfigured' /\ OneRecovery' /\ WorkOK'
  BY <1>1, <1>2, OwnerKept, RequestEnds DEF IInv, Unconfigured, OneRecovery, Invite
<1>7. Standing' /\ RecoveryStands'
  BY <1>1, <1>2, RecoveringActive, RequestEnds, AccessKept DEF Invite
<1>8. LastOpen'
  BY <1>3, IssuedOpen DEF IInv, TypeOK, LastOpen
<1> QED BY <1>4, <1>5, <1>6, <1>7, <1>8 DEF IInv

(* An owner changes a role, and leaves an owner; the sign-ins that read    *)
(* the old one know it.                                                    *)
LEMMA StepChangeRole ==
  ASSUME IInv, NEW w \in Workers, NEW u \in Users, NEW c \in Counters, NEW r \in Roles,
         ChangeRole(w, u, c, r)
  PROVE  IInv'
<1> DEFINE a == work[w].user
<1>1. /\ configured /\ a \in Users /\ Active(a) /\ Beyond(a, c)
      /\ Spend(a, c) /\ u # a /\ OwnerCanBeRemoved(u) /\ ~Recovering(u)
      /\ users' = [users EXCEPT ![a].counter = c, ![u].role = r]
      /\ users[u].state # "none"
  BY SteppedUp DEF ChangeRole, OwnerRequest, Reads
<1> HIDE DEF a
<1>2. /\ users' \in [Users -> UserRow]
      /\ \A v \in Users : /\ users'[v].state = users[v].state
                          /\ users'[v].generation = users[v].generation
      /\ \A v \in Users \ {u} : users'[v].role = users[v].role
      /\ users'[a].counter = c
      /\ \A v \in Users \ {a} : users'[v].counter = users[v].counter
  <2>1. users \in [Users -> UserRow]
    BY DEF IInv, TypeOK
  <2>2. PICK f : f = [users EXCEPT ![a].counter = c]
    OBVIOUS
  <2>3. /\ f \in [Users -> UserRow]
        /\ f[a].counter = c /\ f[a].state = users[a].state /\ f[a].role = users[a].role
        /\ f[a].generation = users[a].generation
        /\ \A v \in Users \ {a} : f[v] = users[v]
    BY <1>1, <2>1, <2>2, CounterSet
  <2>4. users' = [f EXCEPT ![u].role = r]
    BY <1>1, <2>2
  <2>5. /\ users' \in [Users -> UserRow]
        /\ users'[u].state = f[u].state /\ users'[u].counter = f[u].counter
        /\ users'[u].generation = f[u].generation
        /\ \A v \in Users \ {u} : users'[v] = f[v]
    BY <2>3, <2>4, RoleSet
  <2> QED BY <1>1, <2>3, <2>5
<1>3. \A v \in Users : Active(v)' <=> Active(v)
  BY <1>2 DEF Active
<1>4. TypeOK'
  BY <1>1, <1>2, SpendTyped, WithoutTyped DEF IInv, TypeOK, SpentTyped, ChangeRole
<1>5. InOrder'
  BY <1>1, <1>2, <1>3, SpendInOrder DEF IInv
<1>6. Owned'
  BY <1>1, <1>2, <1>3 DEF IInv, Owned, OwnerCanBeRemoved
<1>7. work' = [Crossed(u) EXCEPT ![w] = None]
  BY DEF ChangeRole
<1>8. WorkOK'
  BY <1>7, CrossedKept DEF IInv, WorkOK
<1>9. Standing'
  <2>1. \A s \in Sessions : SessionStands(s)'
    <3> SUFFICES ASSUME NEW s \in Sessions, sessions'[s] # None PROVE SessionStands(s)'
      BY DEF SessionStands
    <3>1. sessions'[s] = sessions[s] /\ sessions[s].user \in Users \ {u}
      BY WithoutTyped DEF IInv, TypeOK, ChangeRole, SessionsOf
    <3> QED BY <1>2, <3>1 DEF IInv, Standing, SessionStands
  <2>2. \A v \in Workers : RequestStands(v)'
    <3> SUFFICES ASSUME NEW v \in Workers, work'[v] # None PROVE RequestStands(v)'
      BY DEF RequestStands
    <3> DEFINE x == Crossed(u)[v]
    <3>1. work'[v] = x
      BY <1>7, CrossedKept DEF IInv
    <3>2. /\ work[v] # None /\ x.user = work[v].user /\ x.kind = work[v].kind
          /\ x.generation = work[v].generation
          /\ work[v].user = u /\ work[v].kind \in {"login", "authentication"} => x.crossed
          /\ work[v].user # u => x = work[v]
      BY <3>1, CrossedKept DEF IInv
    <3>3. RequestStands(v) /\ work[v].user \in Users
      BY <3>2 DEF IInv, Standing, WorkOK, Reads
    <3> HIDE DEF x
    <3>4. CASE work[v].user = u
      BY <1>2, <3>1, <3>2, <3>3, <3>4 DEF RequestStands
    <3>5. CASE work[v].user # u
      BY <1>2, <3>1, <3>2, <3>3, <3>5 DEF RequestStands
    <3> QED BY <3>4, <3>5
  <2>3. \A v \in Users : PasskeysStand(v)' /\ \A p \in Purposes : ChallengeStands(v, p)'
    BY <1>2 DEF IInv, Standing, PasskeysStand, ChallengeStands, ChangeRole
  <2> QED BY <2>1, <2>2, <2>3 DEF Standing
<1>10. RecoveryStands'
  <2>1. \A s \in Sessions : sessions'[s] = None \/ sessions'[s] = sessions[s]
    BY WithoutTyped DEF IInv, ChangeRole
  <2> QED BY <1>2, <1>3, <2>1, RecoveringActive, RecoveryKept DEF IInv, ChangeRole
<1>11. Unconfigured' /\ OneRecovery' /\ LastOpen'
  BY <1>1 DEF IInv, Unconfigured, OneRecovery, LastOpen, ChangeRole
<1> QED BY <1>4, <1>5, <1>6, <1>8, <1>9, <1>10, <1>11 DEF IInv

(* Who is deactivated loses its place, not that of an owner who remains.   *)
LEMMA Deactivated ==
  ASSUME IInv, NEW u \in Users, NEW a \in Users, NEW c \in Counters, u # a,
         Active(a), Beyond(a, c), OwnerCanBeRemoved(u), Deactivate(u, a, c), configured
  PROVE  /\ users' \in [Users -> UserRow]
         /\ SpentTyped' /\ InOrder' /\ Owned'
         /\ \A v \in Users : Active(v)' <=> v # u /\ Active(v)
         /\ users[u].state # "none" => SameAccounts
<1>1. c # None /\ c \in Nat
  BY AccountsAssumption DEF Counters
<1>2. /\ users' \in [Users -> UserRow]
      /\ \A v \in Users : Active(v)' <=> v # u /\ Active(v)
      /\ \A v \in Users : users'[v].generation = users[v].generation
                          /\ users'[v].role = users[v].role
      /\ users'[a].counter = c
      /\ \A v \in Users \ {a, u} : users'[v].counter = users[v].counter
      /\ users'[u].state = "inactive"
      /\ \A v \in Users \ {u} : users'[v].state = users[v].state
  <2> DEFINE f == [users EXCEPT ![a].counter = c]
             g == [f EXCEPT ![u].state = "inactive"]
  <2>1. users \in [Users -> UserRow] /\ users' = [g EXCEPT ![u].counter = None]
    BY DEF IInv, TypeOK, Deactivate
  <2>2. /\ f \in [Users -> UserRow]
        /\ f[a].counter = c /\ f[a].state = users[a].state /\ f[a].role = users[a].role
        /\ f[a].generation = users[a].generation
        /\ \A x \in Users \ {a} : f[x] = users[x]
    BY <2>1, CounterSet
  <2> HIDE DEF f
  <2>3. /\ g \in [Users -> UserRow]
        /\ g[u].state = "inactive" /\ g[u].role = f[u].role
        /\ g[u].generation = f[u].generation
        /\ \A x \in Users \ {u} : g[x] = f[x]
    BY <2>2, StateSet
  <2> HIDE DEF g
  <2>4. /\ users' \in [Users -> UserRow]
        /\ users'[u].state = "inactive" /\ users'[u].role = g[u].role
        /\ users'[u].generation = g[u].generation
        /\ \A x \in Users \ {u} : users'[x] = g[x]
    BY <2>1, <2>3, CounterSet
  <2>5. \A v \in Users : Active(v)' <=> v # u /\ Active(v)
    BY <2>2, <2>3, <2>4 DEF Active
  <2> QED BY <2>2, <2>3, <2>4, <2>5
<1>3. SpentTyped'
  BY AfterTyped DEF IInv, TypeOK, SpentTyped, Deactivate, Unspent
<1>4. InOrder'
  <2>1. spent'[u] = Unspent /\ spent'[a] = After(spent[a], c)
        /\ \A v \in Users \ {a, u} : spent'[v] = spent[v]
    BY DEF IInv, TypeOK, Deactivate
  <2>2. /\ ~spent[a].again
        /\ spent[a].latest # None => spent[a].latest \in Nat /\ spent[a].latest < c
    BY <1>1 DEF IInv, TypeOK, InOrder, Beyond, Counters
  <2>3. ~spent'[a].again /\ spent'[a].latest = c
    BY <2>1, <2>2, AfterInOrder DEF IInv, TypeOK
  <2> QED BY <1>1, <1>2, <2>1, <2>3 DEF IInv, InOrder, Unspent
<1>5. Owned'
  BY <1>2 DEF IInv, Owned, OwnerCanBeRemoved
<1>6. users[u].state # "none" => SameAccounts
  BY <1>2 DEF SameAccounts
<1> QED BY <1>2, <1>3, <1>4, <1>5, <1>6

(* revokeUserAccess: what it revokes is gone, nothing is opened.           *)
LEMMA AccessEnds ==
  ASSUME IInv, NEW u \in Users, NEW over, NEW lost, RevokeUserAccess(u, over, lost)
  PROVE  /\ sessions' \in [Sessions -> SessionRow \union {None}]
         /\ passkeys' \in [Users -> SUBSET Passkeys]
         /\ challenges' \in [Users -> [Purposes -> ChallengeRow \union {None}]]
         /\ \A s \in Sessions : /\ sessions'[s] = None \/ sessions'[s] = sessions[s]
                                /\ s \in over => sessions'[s] = None
         /\ passkeys'[u] = passkeys[u] \ lost /\ challenges'[u] = NoChallenges
         /\ \A v \in Users \ {u} : passkeys'[v] = passkeys[v] /\ challenges'[v] = challenges[v]
<1>1. /\ sessions' \in [Sessions -> SessionRow \union {None}]
      /\ \A s \in Sessions : /\ sessions'[s] = None \/ sessions'[s] = sessions[s]
                             /\ s \in over => sessions'[s] = None
  BY WithoutTyped DEF IInv, RevokeUserAccess
<1>2. /\ passkeys' \in [Users -> SUBSET Passkeys]
      /\ challenges' \in [Users -> [Purposes -> ChallengeRow \union {None}]]
      /\ passkeys'[u] = passkeys[u] \ lost /\ challenges'[u] = NoChallenges
      /\ \A v \in Users \ {u} : passkeys'[v] = passkeys[v] /\ challenges'[v] = challenges[v]
  BY DEF IInv, TypeOK, RevokeUserAccess, NoChallenges
<1> QED BY <1>1, <1>2

(* The account that an owner disables or invites again has no access left. *)
LEMMA AccessTaken ==
  ASSUME IInv, NEW u \in Users, NEW w \in Workers, Answered(w), ~Recovering(u),
         RevokeUserAccess(u, SessionsOf(u), passkeys[u]), SameAccounts,
         \A v \in Users \ {u} : Active(v) => Active(v)',
         UNCHANGED <<configured, recovery, recovering>>
  PROVE  Standing' /\ RecoveryStands'
<1>1. /\ \A s \in Sessions : sessions'[s] = None \/ sessions'[s] = sessions[s]
      /\ \A v \in Users : passkeys'[v] \subseteq passkeys[v]
      /\ \A v \in Users, p \in Purposes :
           challenges'[v][p] = None \/ challenges'[v][p] = challenges[v][p]
  BY AccessEnds DEF NoChallenges
<1>2. \A v \in Users : Recovering(v) => Active(v)'
  BY RecoveringActive
<1> QED BY <1>1, <1>2, RequestEnds, AccessKept

(* An owner disables an account.                                           *)
LEMMA StepDisable ==
  ASSUME IInv, NEW w \in Workers, NEW u \in Users, NEW c \in Counters, Disable(w, u, c)
  PROVE  IInv'
<1> DEFINE a == work[w].user
<1>1. /\ configured /\ a \in Users /\ Active(a) /\ Beyond(a, c)
      /\ u # a /\ OwnerCanBeRemoved(u) /\ Deactivate(u, a, c) /\ ~Recovering(u)
      /\ RevokeUserAccess(u, SessionsOf(u), passkeys[u]) /\ Answered(w)
      /\ users[u].state # "none"
  BY SteppedUp DEF Disable, OwnerRequest, Reads, Active
<1> HIDE DEF a
<1>2. /\ invitations[u] \in Seq(Token)
      /\ invitations' = [invitations EXCEPT ![u] = Closed(invitations[u])]
  BY DEF IInv, TypeOK, Disable
<1>3. /\ users' \in [Users -> UserRow]
      /\ SpentTyped' /\ InOrder' /\ Owned' /\ SameAccounts
      /\ \A v \in Users \ {u} : Active(v) => Active(v)'
  BY <1>1, Deactivated
<1>4. TypeOK'
  <2>1. invitations' \in [Users -> Seq(Token)]
    BY <1>2, ClosedTokens DEF IInv, TypeOK
  <2>2. /\ sessions' \in [Sessions -> SessionRow \union {None}]
        /\ passkeys' \in [Users -> SUBSET Passkeys]
        /\ challenges' \in [Users -> [Purposes -> ChallengeRow \union {None}]]
    BY <1>1, AccessEnds
  <2> QED BY <1>3, <2>1, <2>2 DEF IInv, TypeOK, SpentTyped, Disable
<1>5. LastOpen'
  BY <1>2, ClosedTokens DEF IInv, TypeOK, LastOpen, Closed
<1>6. Unconfigured' /\ OneRecovery' /\ WorkOK'
  BY <1>1, RequestEnds DEF IInv, Unconfigured, OneRecovery, Disable
<1>7. Standing' /\ RecoveryStands'
  BY <1>1, <1>3, AccessTaken DEF Disable
<1> QED BY <1>4, <1>5, <1>6, <1>3, <1>7 DEF IInv

(* An owner invites an account again.                                      *)
LEMMA StepReissue ==
  ASSUME IInv, NEW w \in Workers, NEW u \in Users, NEW c \in Counters, Reissue(w, u, c)
  PROVE  IInv'
<1> DEFINE a == work[w].user
<1>1. /\ configured /\ a \in Users /\ Active(a) /\ Beyond(a, c)
      /\ u # a /\ OwnerCanBeRemoved(u) /\ Deactivate(u, a, c) /\ ~Recovering(u)
      /\ RevokeUserAccess(u, SessionsOf(u), passkeys[u]) /\ Answered(w)
      /\ users[u].state # "none"
  BY SteppedUp DEF Reissue, OwnerRequest, Reads, Active
<1> HIDE DEF a
<1>2. /\ invitations[u] \in Seq(Token)
      /\ invitations' = [invitations EXCEPT ![u] = Issue(invitations[u])]
  BY DEF IInv, TypeOK, Reissue
<1>3. /\ users' \in [Users -> UserRow]
      /\ SpentTyped' /\ InOrder' /\ Owned' /\ SameAccounts
      /\ \A v \in Users \ {u} : Active(v) => Active(v)'
  BY <1>1, Deactivated
<1>4. TypeOK'
  <2>1. invitations' \in [Users -> Seq(Token)]
    BY <1>2, IssuedTokens DEF IInv, TypeOK
  <2>2. /\ sessions' \in [Sessions -> SessionRow \union {None}]
        /\ passkeys' \in [Users -> SUBSET Passkeys]
        /\ challenges' \in [Users -> [Purposes -> ChallengeRow \union {None}]]
    BY <1>1, AccessEnds
  <2> QED BY <1>3, <2>1, <2>2 DEF IInv, TypeOK, SpentTyped, Reissue
<1>5. LastOpen'
  BY <1>2, IssuedOpen DEF IInv, TypeOK, LastOpen
<1>6. Unconfigured' /\ OneRecovery' /\ WorkOK'
  BY <1>1, RequestEnds DEF IInv, Unconfigured, OneRecovery, Reissue
<1>7. Standing' /\ RecoveryStands'
  BY <1>1, <1>3, AccessTaken DEF Reissue
<1> QED BY <1>4, <1>5, <1>6, <1>3, <1>7 DEF IInv

(***************************************************************************)
(* Recovery and time.                                                      *)
(***************************************************************************)

(* The host asks for a recovery...                                         *)
LEMMA StepRequestRecovery == ASSUME IInv, RequestRecovery PROVE IInv'
<1>1. TypeOK' /\ OneRecovery' /\ Unconfigured'
  BY DEF IInv, TypeOK, OneRecovery, Unconfigured, RequestRecovery, NoRecovery
<1>2. Standing' /\ RecoveryStands'
  BY AccessKept DEF RequestRecovery, SameAccounts, Recovering
<1> QED
  BY <1>1, <1>2 DEF IInv, RequestRecovery, WorkOK, Owned, InOrder, LastOpen, Active

(* ... whose token expires...                                              *)
LEMMA StepExpireRecovery == ASSUME IInv, ExpireRecovery PROVE IInv'
<1>1. TypeOK' /\ OneRecovery' /\ Unconfigured'
  BY DEF IInv, TypeOK, OneRecovery, Unconfigured, ExpireRecovery, NoRecovery
<1>2. Standing' /\ RecoveryStands'
  BY AccessKept DEF ExpireRecovery, SameAccounts, Recovering
<1> QED
  BY <1>1, <1>2 DEF IInv, ExpireRecovery, WorkOK, Owned, InOrder, LastOpen, Active

(* ... or is shown to get a secret...                                      *)
LEMMA StepRecoveryTotp == ASSUME IInv, NEW u \in Users, RecoveryTotp(u) PROVE IInv'
<1>1. TypeOK'
  <2>1. recovery' = [file |-> recovery.file, row |-> "open", completions |-> recovery.completions]
    BY DEF IInv, TypeOK, RecoveryTotp
  <2>2. secrets' \subseteq [purpose : {"bootstrap", "recovery"}, user : Users]
    BY DEF IInv, TypeOK, RecoveryTotp, Challenge
  <2> QED BY <2>1, <2>2 DEF IInv, TypeOK, RecoveryTotp
<1>2. configured
  BY DEF IInv, Unconfigured, RecoveryTotp, NoRecovery
<1>3. OneRecovery' /\ Unconfigured'
  BY <1>2 DEF IInv, TypeOK, OneRecovery, Unconfigured, RecoveryTotp
<1>4. Standing' /\ RecoveryStands'
  BY AccessKept DEF RecoveryTotp, SameAccounts, Recovering
<1> QED
  BY <1>1, <1>3, <1>4 DEF IInv, RecoveryTotp, WorkOK, Owned, InOrder, LastOpen, Active

(* ... which begins to set new credentials for its account, and remembers  *)
(* the sessions to end...                                                  *)
LEMMA StepRecoveryComplete ==
  ASSUME IInv, NEW u \in Users, RecoveryComplete(u)
  PROVE  IInv'
<1>1. /\ recovering' = [user |-> u, sessions |-> SessionsOf(u), passkeys |-> {},
                       pc |-> "sessions"]
      /\ Active(u) /\ users[u].generation < MaxGeneration /\ recovery.row = "open"
      /\ UNCHANGED <<configured, users, spent, sessions, invitations, passkeys,
                     challenges, secrets, recovery, work>>
  BY DEF RecoveryComplete, Renewable, Recoverable
<1>2. configured
  BY <1>1 DEF IInv, Unconfigured, Active
<1>3. TypeOK'
  BY <1>1 DEF IInv, TypeOK, RecoveryRun, SessionsOf
<1>4. Standing'
  BY <1>1, StandingKept DEF IInv, SameAccounts
<1>5. RecoveryStands'
  BY <1>1, <1>2 DEF RecoveryStands, SessionsOf, Active
<1> QED
  BY <1>1, <1>3, <1>4, <1>5
     DEF IInv, WorkOK, Unconfigured, Owned, InOrder, OneRecovery, LastOpen, Active

(* ... and the passkeys...                                                 *)
LEMMA StepRecoveryDeletePasskeys == ASSUME IInv, RecoveryDeletePasskeys PROVE IInv'
<1>1. recovering # None /\ recovering \in RecoveryRun
  BY DEF IInv, TypeOK, RecoveryDeletePasskeys
<1>2. /\ recovering' = [recovering EXCEPT !.passkeys = passkeys[recovering.user],
                                         !.pc = "passkeys"]
      /\ UNCHANGED <<configured, users, spent, sessions, invitations, passkeys,
                     challenges, secrets, recovery, work>>
  BY DEF RecoveryDeletePasskeys
<1>3. /\ recovering' \in RecoveryRun /\ recovering'.user = recovering.user
      /\ recovering'.sessions = recovering.sessions
      /\ recovering'.passkeys = passkeys[recovering.user]
  <2>1. passkeys[recovering.user] \subseteq Passkeys
    BY <1>1 DEF IInv, TypeOK, RecoveryRun
  <2> QED BY <1>1, <1>2, <2>1 DEF RecoveryRun
<1>4. TypeOK'
  BY <1>2, <1>3 DEF IInv, TypeOK
<1>5. Standing'
  BY <1>2, StandingKept DEF IInv, SameAccounts
<1>6. RecoveryStands'
  BY <1>1, <1>2, <1>3 DEF IInv, RecoveryStands, Active
<1> QED
  BY <1>2, <1>4, <1>5, <1>6
     DEF IInv, WorkOK, Unconfigured, Owned, InOrder, OneRecovery, LastOpen, Active

(* ... and ends them with the old credentials; what it had not seen        *)
(* crossed it.                                                             *)
LEMMA StepRecoveryCommit == ASSUME IInv, NEW c \in Counters, RecoveryCommit(c) PROVE IInv'
<1>1. PICK u \in Users : u = recovering.user
  BY DEF IInv, TypeOK, RecoveryCommit, RecoveryRun
<1>2. /\ configured /\ Active(u) /\ users[u].generation < MaxGeneration
      /\ recovery.row = "open"
      /\ \A s \in Sessions : sessions[s] # None /\ sessions[s].user = u /\ ~sessions[s].crossed =>
           s \in recovering.sessions
      /\ \A k \in passkeys[u] : ~k.crossed => k \in recovering.passkeys
  BY <1>1 DEF IInv, RecoveryStands, RecoveryCommit
<1>3. /\ Calm(u) /\ Recredential(u, c) /\ recovering' = None /\ work' = Crossed(u)
      /\ RevokeUserAccess(u, recovering.sessions, recovering.passkeys)
      /\ recovery' = [recovery EXCEPT !.row = "consumed", !.completions = @ + 1]
      /\ secrets' = {} /\ UNCHANGED <<configured, invitations>>
  BY <1>1 DEF RecoveryCommit
<1>4. /\ users' \in [Users -> UserRow] /\ SpentTyped' /\ InOrder'
      /\ users'[u].state = "active" /\ users'[u].role = users[u].role
      /\ users'[u].generation = users[u].generation + 1
      /\ \A v \in Users \ {u} : users'[v] = users[v]
  BY <1>2, <1>3, Recredentialed
<1>5. /\ sessions' \in [Sessions -> SessionRow \union {None}]
      /\ passkeys' \in [Users -> SUBSET Passkeys]
      /\ challenges' \in [Users -> [Purposes -> ChallengeRow \union {None}]]
      /\ \A s \in Sessions : /\ sessions'[s] = None \/ sessions'[s] = sessions[s]
                             /\ s \in recovering.sessions => sessions'[s] = None
      /\ passkeys'[u] = passkeys[u] \ recovering.passkeys /\ challenges'[u] = NoChallenges
      /\ \A v \in Users \ {u} : passkeys'[v] = passkeys[v] /\ challenges'[v] = challenges[v]
  BY <1>3, AccessEnds
<1>6. TypeOK' /\ OneRecovery'
  <2>1. recovery' = [file |-> recovery.file, row |-> "consumed",
                     completions |-> recovery.completions + 1]
    BY <1>3 DEF IInv, TypeOK
  <2>2. recovery' \in [file : {"none", "valid"}, row : {"none", "open", "consumed"},
                       completions : Nat]
    BY <2>1 DEF IInv, TypeOK
  <2>3. OneRecovery'
    BY <1>2, <2>1 DEF IInv, TypeOK, OneRecovery
  <2> QED BY <1>3, <1>4, <1>5, <2>2, <2>3 DEF IInv, TypeOK, SpentTyped
<1>7. WorkOK'
  BY <1>3, CrossedKept DEF IInv, WorkOK
<1>8. Owned' /\ Unconfigured' /\ LastOpen'
  <2>1. \A v \in Users : Active(v) => Active(v)' /\ users'[v].role = users[v].role
    BY <1>4 DEF Active
  <2> QED BY <1>2, <1>3, <2>1, OwnerKept DEF IInv, Unconfigured, LastOpen
<1>9. Standing'
  <2>1. \A w \in Workers : RequestStands(w)'
    BY <1>3, <1>4, ChangeCrosses
  <2>2. \A s \in Sessions : SessionStands(s)'
    <3> SUFFICES ASSUME NEW s \in Sessions, sessions'[s] # None PROVE SessionStands(s)'
      BY DEF SessionStands
    <3>1. sessions'[s] = sessions[s] /\ sessions[s].user \in Users /\ SessionStands(s)
      BY <1>5 DEF IInv, TypeOK, Standing
    <3>2. CASE sessions[s].user = u
      <4>1. sessions[s].crossed
        BY <1>2, <1>5, <3>1, <3>2
      <4> QED BY <1>4, <3>1, <3>2, <4>1 DEF SessionStands
    <3>3. CASE sessions[s].user # u
      BY <1>4, <3>1, <3>3 DEF SessionStands
    <3> QED BY <3>2, <3>3
  <2>3. ASSUME NEW v \in Users
        PROVE  PasskeysStand(v)' /\ \A p \in Purposes : ChallengeStands(v, p)'
    <3>1. CASE v = u
      <4>1. \A k \in passkeys'[u] : k.crossed
        BY <1>2, <1>5
      <4>2. \A p \in Purposes : challenges'[u][p] = None
        BY <1>5 DEF NoChallenges
      <4> QED BY <3>1, <4>1, <4>2 DEF PasskeysStand, ChallengeStands
    <3>2. CASE v # u
      <4>1. /\ users'[v] = users[v] /\ passkeys'[v] = passkeys[v]
            /\ challenges'[v] = challenges[v]
        BY <1>4, <1>5, <3>2
      <4> QED BY <4>1 DEF IInv, Standing, PasskeysStand, ChallengeStands
    <3> QED BY <3>1, <3>2
  <2> QED BY <2>1, <2>2, <2>3 DEF Standing
<1>10. RecoveryStands'
  BY <1>3 DEF RecoveryStands
<1> QED BY <1>4, <1>6, <1>7, <1>8, <1>9, <1>10 DEF IInv

(* A challenge expires.                                                    *)
LEMMA StepExpireChallenge ==
  ASSUME IInv, NEW u \in Users, NEW p \in Purposes, ExpireChallenge(u, p)
  PROVE  IInv'
<1>1. TypeOK' /\ Unconfigured'
  BY DEF IInv, TypeOK, Unconfigured, ExpireChallenge, NoChallenges
<1>2. \A v \in Users, q \in Purposes :
        challenges'[v][q] = None \/ challenges'[v][q] = challenges[v][q]
  BY DEF IInv, TypeOK, ExpireChallenge
<1>3. Standing' /\ RecoveryStands'
  BY <1>2, RecoveringActive, AccessKept DEF ExpireChallenge, SameAccounts, Active
<1> QED
  BY <1>1, <1>3 DEF IInv, ExpireChallenge, WorkOK, Owned, InOrder, OneRecovery, LastOpen, Active

(***************************************************************************)
(* Every step.                                                             *)
(***************************************************************************)

(* Every step preserves the invariant.                                     *)
LEMMA NextKeeps == IInv /\ [Next]_vars => IInv'
<1> SUFFICES ASSUME IInv, [Next]_vars PROVE IInv' OBVIOUS
<1>1. CASE SignIn
  BY <1>1, StepPasskeyOptions, StepPasskeyVerify, StepPasskeyComplete, StepLoginRead,
     StepLoginWrite DEF SignIn
<1>2. CASE Enrolment
  BY <1>2, StepBootstrapTotp, StepBootstrapComplete, StepActivationTotp, StepExpireInvitation,
     StepActivationComplete DEF Enrolment
<1>3. CASE Recovery
  BY <1>3, StepRequestRecovery, StepExpireRecovery, StepRecoveryTotp, StepRecoveryComplete,
     StepRecoveryDeletePasskeys, StepRecoveryCommit DEF Recovery
<1>4. CASE Time
  BY <1>4, StepExpireSession, StepExpireChallenge DEF Time
<1>5. ASSUME NEW w \in Workers, Request(w) PROVE IInv'
  <2>1. CASE Refused(w)
    BY <2>1, StepRefused
  <2>2. CASE Logout(w) \/ RevokeOtherSessions(w) \/ \E s \in Sessions : RevokeSession(w, s)
    BY <2>2, StepSessions
  <2>3. CASE PasskeyRegistrationVerify(w) \/ PasskeyRegistrationComplete(w)
    BY <2>3, StepPasskeyRegistrationVerify, StepPasskeyRegistrationComplete
  <2>4. CASE \E s \in Sessions : Authorise(w, s)
    BY <2>4, StepAuthorise
  <2>5. CASE \E c \in Counters : PasskeyRegistrationOptions(w, c)
    BY <2>5, StepPasskeyRegistrationOptions
  <2>6. CASE \E c \in Counters, k \in Passkeys : RevokePasskey(w, k, c)
    BY <2>6, StepRevokePasskey
  <2>7. CASE \E u \in Users, c \in Counters : Disable(w, u, c) \/ Reissue(w, u, c)
    BY <2>7, StepDisable, StepReissue
  <2>8. CASE \E u \in Users, c \in Counters, r \in Roles :
               Invite(w, u, c, r) \/ ChangeRole(w, u, c, r)
    BY <2>8, StepInvite, StepChangeRole
  <2> QED BY <1>5, <2>1, <2>2, <2>3, <2>4, <2>5, <2>6, <2>7, <2>8 DEF Request
<1>6. CASE UNCHANGED vars
  <2>1. Standing' /\ RecoveryStands'
    BY <1>6, RecoveringActive, AccessKept DEF vars, SameAccounts, Active
  <2> QED
    BY <1>6, <2>1 DEF vars, IInv, TypeOK, WorkOK, Unconfigured, Owned, InOrder, OneRecovery,
                      LastOpen, Active
<1> QED BY <1>1, <1>2, <1>3, <1>4, <1>5, <1>6 DEF Next

(* The inductive invariant: types, an active owner, codes in order, access *)
(* and requests in flight that stand on what was verified for them unless  *)
(* they crossed its change, and a recovery under way that will end what    *)
(* did not.                                                                *)
THEOREM AccountsInvariant == Spec => []IInv
<1>1. IInv /\ [Next]_vars => IInv'
  BY NextKeeps
<1> QED BY InitKeeps, <1>1, PTL DEF Spec

(***************************************************************************)
(* Whatever owners do to each other at once, a configured server has an    *)
(* active owner, for any accounts, sessions, requests and bounds.          *)
(***************************************************************************)
THEOREM Ownership == Spec => []OwnerRemains
<1>1. IInv => OwnerRemains
  BY DEF IInv, OwnerRemains, Owned
<1> QED BY <1>1, AccountsInvariant, PTL

(* Codes are accepted in order, and a token of the host recovers once.     *)
THEOREM SingleUse == Spec => []CodesOnce
<1>1. IInv => CodesOnce
  BY DEF IInv, CodesOnce, InOrder, OneRecovery
<1> QED BY <1>1, AccountsInvariant, PTL

(* A usable session, a passkey and a challenge belong to the credentials   *)
(* that were verified for them and are in force, the session to the role,  *)
(* however sign-ins, registrations of passkeys, activations, role changes  *)
(* and the statements of a recovery interleave; all but what crossed the   *)
(* change that should have ended it.                                       *)
THEOREM AccessRevoked == Spec => []ChangeEndsAccess
<1>1. IInv => ChangeEndsAccess
  BY DEF IInv, Standing, SessionStands, PasskeysStand, ChallengeStands, ChangeEndsAccess, Usable
<1> QED BY <1>1, AccountsInvariant, PTL

(* Nothing but an activation makes active an account that exists.          *)
LEMMA OnlyActivation ==
  ASSUME IInv, [Next]_vars, NEW u \in Users, ~Active(u), Active(u)', users[u].state # "none"
  PROVE  \E i \in 1..MaxInvitations, c \in Counters, s \in Sessions :
           ActivationComplete(u, i, c, s)
<1>1. users \in [Users -> UserRow]
  BY DEF IInv, TypeOK
<1>2. ~ UNCHANGED users
  BY DEF Active
<1>3. CASE SignIn
  <2>1. ASSUME NEW w \in Workers, NEW s \in Sessions, LoginWrite(w, s) PROVE FALSE
    <3>1. users' = [users EXCEPT ![work[w].user].counter = work[w].counter]
      BY <2>1 DEF LoginWrite
    <3> QED BY <1>1, <3>1 DEF Active
  <2> QED BY <1>2, <1>3, <2>1 DEF SignIn, PasskeyOptions, PasskeyVerify,
                               PasskeyComplete, LoginRead
<1>4. CASE Enrolment
  <2>1. ASSUME NEW v \in Users, NEW c \in Counters, NEW s \in Sessions,
               BootstrapComplete(v, c, s)
        PROVE  FALSE
    BY <2>1 DEF IInv, Unconfigured, BootstrapComplete
  <2>2. ASSUME NEW v \in Users, NEW i \in 1..MaxInvitations, NEW c \in Counters,
               NEW s \in Sessions, ActivationComplete(v, i, c, s)
        PROVE  v = u
    <3>1. users' = [users EXCEPT ![v].state = "active", ![v].counter = c,
                                 ![v].generation = @ + 1]
      BY <2>2 DEF ActivationComplete, Recredential
    <3> QED BY <1>1, <3>1 DEF Active
  <2> QED
    BY <1>2, <1>4, <2>1, <2>2 DEF Enrolment, BootstrapTotp, ActivationTotp, ExpireInvitation
<1>5. CASE Recovery
  <2>1. ASSUME NEW c \in Counters, RecoveryCommit(c) PROVE FALSE
    <3>1. PICK v \in Users : v = recovering.user
      BY <2>1 DEF IInv, TypeOK, RecoveryCommit, RecoveryRun
    <3>2. users' = [users EXCEPT ![v].state = "active", ![v].counter = c,
                                 ![v].generation = @ + 1] /\ Active(v)
      BY <2>1, <3>1 DEF RecoveryCommit, Recredential, IInv, RecoveryStands
    <3> QED BY <1>1, <3>2 DEF Active
  <2> QED
    BY <1>2, <1>5, <2>1 DEF Recovery, RequestRecovery, ExpireRecovery, RecoveryTotp,
                            RecoveryComplete, RecoveryDeletePasskeys
<1>6. CASE Time
  BY <1>2, <1>6 DEF Time, ExpireSession, ExpireChallenge
<1>7. ASSUME NEW w \in Workers, Request(w) PROVE FALSE
  <2>1. CASE \E c \in Counters :
               PasskeyRegistrationOptions(w, c) \/ \E k \in Passkeys : RevokePasskey(w, k, c)
    <3>1. PICK c \in Counters : users' = [users EXCEPT ![work[w].user].counter = c]
      BY <2>1 DEF PasskeyRegistrationOptions, RevokePasskey
    <3> QED BY <1>1, <3>1 DEF Active
  <2>2. ASSUME NEW v \in Users, NEW c \in Counters, Disable(w, v, c) \/ Reissue(w, v, c)
        PROVE  FALSE
    <3> DEFINE a == work[w].user
    <3>1. /\ configured /\ a \in Users /\ Active(a) /\ Beyond(a, c)
          /\ v # a /\ OwnerCanBeRemoved(v) /\ Deactivate(v, a, c)
      BY <2>2, SteppedUp DEF Disable, Reissue, OwnerRequest, Reads
    <3> HIDE DEF a
    <3> QED BY <3>1, Deactivated
  <2>3. ASSUME NEW v \in Users, NEW c \in Counters, NEW r \in Roles, Invite(w, v, c, r)
        PROVE  FALSE
    BY <2>3, Invited
  <2>4. ASSUME NEW v \in Users, NEW c \in Counters, NEW r \in Roles, ChangeRole(w, v, c, r)
        PROVE  FALSE
    <3> DEFINE a == work[w].user
    <3>1. a \in Users /\ v # a /\ users' = [users EXCEPT ![a].counter = c, ![v].role = r]
      BY <2>4, SteppedUp DEF ChangeRole, OwnerRequest, Reads
    <3> HIDE DEF a
    <3> QED BY <1>1, <3>1 DEF Active
  <2> QED
    BY <1>2, <1>7, <2>1, <2>2, <2>3, <2>4
       DEF Request, Refused, Logout, RevokeOtherSessions, PasskeyRegistrationVerify,
           PasskeyRegistrationComplete, Authorise, RevokeSession
<1>8. CASE UNCHANGED vars
  BY <1>2, <1>8 DEF vars
<1> QED BY <1>3, <1>4, <1>5, <1>6, <1>7, <1>8 DEF Next

(* An account is activated through its last invitation and no other.       *)
THEOREM LastInvitation == Spec => ActivationFollowsInvitation
<1> DEFINE Act == \A u \in Users : ~Active(u) /\ Active(u)' /\ users[u].state # "none" =>
       LET n == Len(invitations[u]) IN
       /\ n > 0 /\ invitations[u][n].status = "open"
       /\ invitations'[u][n].status = "used"
       /\ \A i \in 1..(n - 1) : invitations'[u][i].status # "open"
<1>1. IInv /\ [Next]_vars => Act
  <2> SUFFICES ASSUME IInv, [Next]_vars, NEW u \in Users, ~Active(u), Active(u)',
                      users[u].state # "none"
               PROVE  LET n == Len(invitations[u]) IN
                      /\ n > 0 /\ invitations[u][n].status = "open"
                      /\ invitations'[u][n].status = "used"
                      /\ \A i \in 1..(n - 1) : invitations'[u][i].status # "open"
    OBVIOUS
  <2> DEFINE n == Len(invitations[u])
  <2>1. PICK i \in 1..MaxInvitations, c \in Counters, s \in Sessions :
               ActivationComplete(u, i, c, s)
    BY OnlyActivation
  <2>2. i \in DOMAIN invitations[u] /\ invitations[u][i].status = "open"
    BY <2>1 DEF ActivationComplete, Redeemable
  <2>3. i = n
    BY <2>2 DEF IInv, LastOpen
  <2>4. invitations'[u] = Closed([invitations[u] EXCEPT ![i].status = "used"])
    BY <2>1 DEF ActivationComplete, IInv, TypeOK
  <2>5. /\ invitations'[u] \in Seq(Token) /\ Len(invitations'[u]) = n
        /\ \A j \in DOMAIN invitations'[u] : invitations'[u][j].status # "open"
        /\ invitations'[u][i].status = "used"
    BY <2>2, <2>4, Redeemed
  <2>6. n \in Nat /\ DOMAIN invitations[u] = 1..n /\ DOMAIN invitations'[u] = 1..n
    BY <2>5, LenProperties DEF IInv, TypeOK
  <2> HIDE DEF n
  <2>7. /\ n > 0 /\ invitations[u][n].status = "open"
        /\ invitations'[u][n].status = "used"
        /\ \A j \in 1..(n - 1) : invitations'[u][j].status # "open"
    BY <2>2, <2>3, <2>5, <2>6
  <2> QED BY <2>7 DEF n
<1>2. IInv /\ [Next]_vars => [Act]_vars
  BY <1>1
<1> HIDE DEF Act
<1>3. Spec => [][Act]_vars
  BY <1>2, AccountsInvariant, PTL DEF Spec
<1> QED BY <1>3 DEF Act, ActivationFollowsInvitation

----------------------------------------------------------------------------
(* The client certificate of a television.                                 *)

(* The enrolments so far, the one under way not counted.                   *)
Enrolled == IF screen.state = "pending" THEN screen.enrolment - 1 ELSE screen.enrolment

(* A request is made by an enrolment or by the renewal of a certificate    *)
(* that grew old, so that requests outnumber neither; the certificates are *)
(* signed for different requests.                                          *)
Counted ==
  /\ request.id <= Enrolled + issued /\ request.id <= Enrolled + MaxAged
  /\ request.status = "issued" => request.id < Enrolled + issued
  /\ issued <= request.id
  /\ request.status # "issued" /\ request.id # 0 => issued < request.id
  /\ request.id = 0 => request.status = "revoked"

Aged == \A c \in Certificates : age[c] # "fresh" => c <= MaxAged

(* The certificates of the screen and its request: what is issued is the   *)
(* last one signed, and an active screen has it.                           *)
Last ==
  /\ screen.active <= issued /\ screen.pending <= issued
  /\ screen.state = "pending" => screen.active = 0 /\ screen.pending = 0
  /\ request.status = "issued" => request.certificate = issued /\ issued # 0
  /\ request.status = "issued" /\ screen.state = "active" =>
       screen.pending = issued \/ (screen.pending = 0 /\ screen.active = issued)
  /\ screen.pending # 0 => request.status = "issued"

(* What the broker signs is for the enrolment of the request it still      *)
(* holds.                                                                  *)
Signing == broker # NoBroker =>
  /\ broker.id # 0 /\ broker.id <= request.id
  /\ Claimed => broker.enrolment = screen.enrolment

(* The television handles the certificate that was issued last.            *)
Exchange ==
  /\ tv.pc # "idle" => request.status = "issued" /\ tv.certificate = request.certificate
  /\ tv.pc \in {"installed", "activated"} => tv.installed = tv.certificate

CertInv == /\ OfThisEnrolment /\ NoDeadEnd
           /\ Counted /\ Aged /\ Last /\ Signing /\ Exchange

Screens == [state : {"pending", "active", "revoked"}, enrolment : 1..MaxEnrolments,
            active : MaybeCertificate, pending : MaybeCertificate,
            required : BOOLEAN, revoked : BOOLEAN]
RequestRows == [id : Requests, status : Statuses, attempts : 0..MaxAttempts,
                certificate : MaybeCertificate]
Televisions == [enrolment : 0..MaxEnrolments, installed : MaybeCertificate,
                shown : MaybeCertificate, pc : {"idle", "fetched", "installed", "activated"},
                certificate : MaybeCertificate, activate : BOOLEAN]

(* The bounds are numbers.                                                *)
LEMMA Numbers ==
  /\ MaxEnrolments \in Nat \ {0} /\ MaxAged \in Nat /\ MaxAttempts \in Nat \ {0}
  /\ Certificates = 1..(MaxEnrolments + MaxAged)
  /\ MaybeCertificate = 0..(MaxEnrolments + MaxAged)
  /\ Requests = 0..(MaxEnrolments + MaxAged)
BY TvCertificateAssumption DEF Certificates, MaybeCertificate, Requests

(* The initial states satisfy the invariant.                               *)
LEMMA CertInitKeeps == ASSUME CertInit PROVE CertInv
<1>1. CertTypeOK
  BY Numbers DEF CertInit, CertTypeOK, NoBroker, Statuses
<1>2. screen.active = 0 /\ screen.pending = 0 /\ screen.state = "pending"
      /\ screen.enrolment = 1
      /\ request.id = 0 /\ request.status = "revoked" /\ issued = 0 /\ tv.pc = "idle"
  BY DEF CertInit
<1> QED BY <1>1, <1>2, Numbers
           DEF CertInit, CertInv, OfThisEnrolment, Counted, Aged, Enrolled, Last, Signing,
               Exchange, NoDeadEnd, Authenticated

(* A step that revokes the screen, or makes it a new one.                  *)
LEMMA Stopped ==
  ASSUME CertInv, UNCHANGED <<broker, tv, issued, age, made>>,
         screen' \in Screens, screen'.state # "active", screen'.pending = 0,
         screen'.active \in {0, screen.active},
         screen'.state = "pending" => screen'.active = 0,
         \/ screen'.enrolment = screen.enrolment /\ screen'.state = "revoked"
         \/ screen'.enrolment = screen.enrolment + 1,
         request' \in RequestRows, request'.id = request.id,
         request'.certificate = request.certificate,
         request'.status = IF OpenRequest THEN "revoked" ELSE request.status
  PROVE  CertInv'
<1>t. /\ CertTypeOK /\ Counted /\ Last /\ Signing /\ Exchange
      /\ screen \in Screens /\ request \in RequestRows
  BY DEF CertInv, OfThisEnrolment, CertTypeOK, Screens, RequestRows
<1>n. /\ screen.enrolment \in Nat \ {0} /\ screen'.enrolment \in Nat \ {0}
      /\ request.id \in Nat /\ issued \in Nat /\ screen.active \in Nat
  <2>1. screen.enrolment \in 1..MaxEnrolments /\ screen'.enrolment \in 1..MaxEnrolments
        /\ screen.active \in MaybeCertificate
    BY <1>t DEF Screens
  <2>2. request.id \in Requests /\ issued \in MaybeCertificate
    BY <1>t DEF RequestRows, CertTypeOK
  <2> QED BY <2>1, <2>2, Numbers
<1>1. OfThisEnrolment'
  BY <1>t DEF OfThisEnrolment, CertTypeOK, Screens, RequestRows
<1>2. Counted'
  <2>1. Enrolled' >= Enrolled /\ Enrolled' \in Nat /\ Enrolled \in Nat
    BY <1>n DEF Enrolled
  <2> QED BY <1>t, <1>n, <2>1, Numbers DEF Counted, OpenRequest
<1>3. Last'
  BY <1>t, <1>n DEF Last, OpenRequest
<1>4. Signing'
  <2>1. ASSUME broker # NoBroker, Claimed' PROVE FALSE
    BY <2>1 DEF Claimed, OpenRequest
  <2> QED BY <1>t, <2>1 DEF Signing
<1>5. Exchange'
  BY <1>t DEF Exchange, OpenRequest
<1>6. Aged' /\ NoDeadEnd'
  BY DEF CertInv, Aged, NoDeadEnd, Authenticated
<1> QED BY <1>1, <1>2, <1>3, <1>4, <1>5, <1>6 DEF CertInv

(* Every step preserves the invariant.                                     *)
LEMMA CertKept == ASSUME CertInv, [CertNext]_certVars PROVE CertInv'
<1>t. /\ CertTypeOK /\ Counted /\ Aged /\ Last /\ Signing /\ Exchange /\ NoDeadEnd
      /\ \A c \in {screen.active, screen.pending} \ {0} :
           screen.state = "active" => made[c] = screen.enrolment
      /\ screen \in Screens /\ request \in RequestRows /\ tv \in Televisions
  BY DEF CertInv, OfThisEnrolment, CertTypeOK, Screens, RequestRows, Televisions
<1>n. /\ screen.enrolment \in 1..MaxEnrolments /\ request.id \in Nat /\ issued \in Nat
      /\ screen.active \in Nat /\ screen.pending \in Nat /\ Enrolled \in Nat
      /\ Enrolled <= MaxEnrolments /\ 0 \in MaybeCertificate
  BY <1>t, Numbers DEF Screens, RequestRows, CertTypeOK, Enrolled
(* A request that is revoked if it was open.                               *)
<1>r. ASSUME RevokeRequest
      PROVE  /\ request' \in RequestRows /\ request'.id = request.id
             /\ request'.certificate = request.certificate
             /\ request'.status = IF OpenRequest THEN "revoked" ELSE request.status
  BY <1>r, <1>t DEF RevokeRequest, RequestRows, Statuses, OpenRequest
<1>1. CASE Enrol
  <2>1. /\ screen' = [screen EXCEPT !.state = "active"] /\ screen.state = "pending"
        /\ tv.pc = "idle" /\ UNCHANGED <<broker, issued, age, made>>
    BY <1>1 DEF Enrol
  <2>2. /\ screen' \in Screens /\ screen'.state = "active"
        /\ screen'.enrolment = screen.enrolment
        /\ screen'.active = 0 /\ screen'.pending = 0
    BY <1>t, <2>1 DEF Screens, Last
  <2>3. request.id + 1 <= MaxEnrolments + MaxAged
    BY <1>t, <1>n, <2>1, Numbers DEF Counted, Enrolled
  <2>4. /\ request' \in RequestRows /\ request'.id = request.id + 1
        /\ request'.status = "pending"
    BY <1>1, <1>n, <2>3, Numbers DEF Enrol, NewRequest, RequestRows, Statuses
  <2>5. tv' \in Televisions /\ tv'.pc = "idle"
    BY <1>1, <1>t, <1>n, <2>1, Numbers DEF Enrol, Televisions
  <2>6. OfThisEnrolment'
    BY <1>t, <2>1, <2>2, <2>4, <2>5
       DEF OfThisEnrolment, CertTypeOK, Screens, RequestRows, Televisions
  <2>7. Counted'
    <3>1. Enrolled' = Enrolled + 1
      BY <1>n, <2>1, <2>2 DEF Enrolled
    <3> QED BY <1>t, <1>n, <2>1, <2>4, <3>1, Numbers DEF Counted
  <2>8. Last'
    BY <1>n, <2>1, <2>2, <2>4 DEF Last
  <2>9. Signing'
    BY <1>t, <1>n, <2>1, <2>4
       DEF Signing, Claimed, NoBroker, CertTypeOK, Requests
  <2> QED BY <1>t, <2>1, <2>2, <2>5, <2>6, <2>7, <2>8, <2>9
             DEF CertInv, Aged, Exchange, NoDeadEnd
<1>2. CASE Revoke
  <2>1. /\ screen' = [screen EXCEPT !.state = "revoked", !.revoked = TRUE,
                                    !.pending = 0, !.required = FALSE]
        /\ UNCHANGED <<broker, tv, issued, age, made>> /\ RevokeRequest
    BY <1>2 DEF Revoke
  <2>2. /\ screen' \in Screens /\ screen'.state = "revoked"
        /\ screen'.enrolment = screen.enrolment
        /\ screen'.active = screen.active /\ screen'.pending = 0
    BY <1>t, <1>n, <2>1 DEF Screens
  <2> QED BY <1>r, <2>1, <2>2, Stopped
<1>3. CASE Reenroll
  <2>1. /\ screen' = [state |-> "pending", enrolment |-> screen.enrolment + 1, active |-> 0,
                      pending |-> 0, required |-> FALSE, revoked |-> TRUE]
        /\ UNCHANGED <<broker, tv, issued, age, made>> /\ RevokeRequest
        /\ screen.enrolment < MaxEnrolments
    BY <1>3 DEF Reenroll
  <2>2. screen' \in Screens
    BY <1>n, <2>1, Numbers DEF Screens
  <2> QED BY <1>r, <2>1, <2>2, Stopped
(* The request goes on, and is not issued yet.                             *)
<1>4. ASSUME request.status \in {"pending", "issuing"}, request' \in RequestRows,
             request'.id = request.id, request'.status \in {"pending", "issuing", "failed"},
             broker' \in [id : Requests, enrolment : 0..MaxEnrolments],
             Signing', UNCHANGED <<screen, tv, issued, age, made>>
      PROVE  CertInv'
  <2>1. OfThisEnrolment'
    BY <1>4, <1>t DEF OfThisEnrolment, CertTypeOK, RequestRows
  <2>2. Counted' /\ Aged'
    BY <1>4, <1>t, <1>n, Numbers DEF Counted, Aged, Enrolled
  <2>3. Last'
    BY <1>4, <1>t DEF Last
  <2>4. Exchange' /\ NoDeadEnd'
    BY <1>4, <1>t DEF Exchange, NoDeadEnd, Authenticated
  <2> QED BY <1>4, <2>1, <2>2, <2>3, <2>4 DEF CertInv
<1>5. CASE Sweep
  <2>1. /\ request' \in RequestRows /\ request'.id = request.id
        /\ request'.status = "pending"
        /\ request.status = "issuing"
    BY <1>5, <1>t DEF Sweep, RequestRows, Statuses
  <2>2. Signing' /\ broker' = broker
    BY <1>5 DEF Sweep, Signing
  <2> QED BY <1>4, <1>5, <1>t, <2>1, <2>2 DEF Sweep, CertTypeOK
<1>6. CASE Claim
  <2>1. /\ request' \in RequestRows /\ request'.id = request.id
        /\ request'.status = "issuing"
        /\ request.status = "pending"
    <3>1. request.attempts + 1 \in 0..MaxAttempts
      BY <1>6, <1>t, Numbers DEF Claim, RequestRows
    <3> QED BY <1>6, <1>t, <3>1 DEF Claim, RequestRows, Statuses
  <2>2. broker' = [id |-> request.id, enrolment |-> screen.enrolment] /\ request.id # 0
    BY <1>6, <1>t, <2>1 DEF Claim, Counted
  <2>3. Signing' /\ broker' \in [id : Requests, enrolment : 0..MaxEnrolments]
    BY <1>6, <1>t, <1>n, <2>1, <2>2 DEF Claim, Signing, RequestRows
  <2> QED BY <1>4, <1>6, <2>1, <2>3 DEF Claim
<1>7. CASE SignFails
  <2>1. NoBroker \in [id : Requests, enrolment : 0..MaxEnrolments]
        /\ broker' = NoBroker
        /\ Signing'
    BY <1>7, Numbers DEF SignFails, NoBroker, Signing
  <2>2. CASE Claimed
    <3>1. /\ request' \in RequestRows /\ request'.id = request.id
          /\ request'.status \in {"failed", "pending"} /\ request.status = "issuing"
      BY <1>7, <1>t, <2>2 DEF SignFails, Claimed, RequestRows, Statuses
    <3> QED BY <1>4, <1>7, <2>1, <3>1 DEF SignFails
  <2>3. CASE ~ Claimed
    <3>1. UNCHANGED <<screen, request, tv, issued, age, made>>
      BY <1>7, <2>3 DEF SignFails
    <3> QED BY <1>t, <2>1, <3>1
               DEF CertInv, OfThisEnrolment, CertTypeOK, Counted, Aged, Enrolled, Last,
                   Exchange, NoDeadEnd, Authenticated
  <2> QED BY <2>2, <2>3
<1>8. CASE Publish
  <2>1. /\ NoBroker \in [id : Requests, enrolment : 0..MaxEnrolments]
        /\ broker' = NoBroker
        /\ Signing' /\ broker # NoBroker /\ UNCHANGED <<tv, age>>
    BY <1>8, Numbers DEF Publish, NoBroker, Signing
  <2>2. CASE ~ (Claimed /\ screen.state = "active")
    <3>1. UNCHANGED <<screen, request, issued, made>>
      BY <1>8, <2>2 DEF Publish
    <3> QED BY <1>t, <2>1, <3>1
               DEF CertInv, OfThisEnrolment, CertTypeOK, Counted, Aged, Enrolled, Last,
                   Exchange, NoDeadEnd, Authenticated
  <2>3. CASE Claimed /\ screen.state = "active"
    <3>1. /\ issued' = issued + 1
          /\ made' = [made EXCEPT ![issued + 1] = broker.enrolment]
          /\ request' = [request EXCEPT !.status = "issued", !.certificate = issued + 1]
          /\ screen' = [screen EXCEPT !.pending = issued + 1, !.required = FALSE,
                                      !.revoked = FALSE]
      BY <1>8, <2>3 DEF Publish, Sign
    <3>2. /\ request.status = "issuing" /\ broker.enrolment = screen.enrolment
          /\ tv.pc = "idle" /\ screen.pending = 0
      BY <1>t, <2>1, <2>3 DEF Claimed, Signing, Exchange, Last
    <3>3. issued + 1 \in Certificates /\ issued + 1 <= request.id
      <4>1. issued < request.id
        BY <1>t, <3>2 DEF Counted
      <4>2. request.id <= MaxEnrolments + MaxAged
        BY <1>t, Numbers DEF RequestRows
      <4> QED BY <1>n, <4>1, <4>2, Numbers
    <3>4. /\ request' \in RequestRows /\ request'.id = request.id
          /\ request'.status = "issued" /\ request'.certificate = issued + 1
      BY <1>t, <3>1, <3>3 DEF RequestRows, Statuses, MaybeCertificate
    <3>5. /\ screen' \in Screens /\ screen'.state = "active"
          /\ screen'.active = screen.active
          /\ screen'.enrolment = screen.enrolment /\ screen'.pending = issued + 1
      BY <1>t, <2>3, <3>1, <3>3 DEF Screens, MaybeCertificate
    <3>6. /\ made' \in [Certificates -> 0..MaxEnrolments]
          /\ made'[issued + 1] = screen.enrolment
          /\ \A c \in Certificates : c # issued + 1 => made'[c] = made[c]
      BY <1>t, <1>n, <3>1, <3>2, <3>3 DEF CertTypeOK
    <3>7. OfThisEnrolment'
      <4>1. CertTypeOK'
        BY <1>t, <2>1, <3>1, <3>3, <3>4, <3>5, <3>6
           DEF CertTypeOK, Screens, RequestRows, Televisions, MaybeCertificate
      <4>2. /\ screen.active # issued + 1
            /\ screen.active # 0 => screen.active \in Certificates
        BY <1>t, <1>n DEF Last, Screens, MaybeCertificate
      <4>3. screen.active # 0 => made[screen.active] = screen.enrolment
        BY <1>t, <2>3
      <4> QED BY <3>5, <3>6, <4>1, <4>2, <4>3 DEF OfThisEnrolment
    <3>8. Counted' /\ Aged'
      <4>1. Enrolled' = Enrolled
        BY <2>3, <3>5 DEF Enrolled
      <4>2. request.id <= Enrolled + issued /\ request.id <= Enrolled + MaxAged
        BY <1>t DEF Counted
      <4>3. request'.id < Enrolled + issued' /\ issued' <= request'.id /\ request'.id # 0
        BY <1>n, <3>1, <3>3, <3>4, <4>2
      <4> QED BY <1>t, <1>n, <2>1, <3>1, <3>4, <4>1, <4>2, <4>3, Numbers DEF Counted, Aged
    <3>9. Last'
      BY <1>t, <1>n, <3>1, <3>4, <3>5 DEF Last
    <3>10. Exchange' /\ NoDeadEnd'
      BY <1>t, <2>1, <2>3, <3>2, <3>5 DEF Exchange, NoDeadEnd, Authenticated
    <3> QED BY <2>1, <3>7, <3>8, <3>9, <3>10 DEF CertInv
  <2> QED BY <2>2, <2>3
<1>9. CASE BrokerDies
  <2>1. NoBroker \in [id : Requests, enrolment : 0..MaxEnrolments]
        /\ broker' = NoBroker
        /\ Signing' /\ UNCHANGED <<screen, request, tv, issued, age, made>>
    BY <1>9, Numbers DEF BrokerDies, NoBroker, Signing
  <2> QED BY <1>t, <2>1
             DEF CertInv, OfThisEnrolment, CertTypeOK, Counted, Aged, Enrolled, Last,
                 Exchange, NoDeadEnd, Authenticated
(* Only the television moves.                                              *)
<1>10. ASSUME tv' \in Televisions, tv'.enrolment = tv.enrolment, Exchange',
              \/ tv'.installed = tv.installed
              \/ tv'.installed = request.certificate /\ request.status = "issued",
              UNCHANGED <<screen, request, broker, issued, age, made>>
       PROVE  CertInv'
  <2>1. OfThisEnrolment'
    BY <1>10, <1>t DEF OfThisEnrolment, CertTypeOK, Televisions
  <2>2. Counted' /\ Aged' /\ Last' /\ Signing'
    BY <1>10, <1>t DEF Counted, Aged, Enrolled, Last, Signing, Claimed
  <2>3. NoDeadEnd'
    BY <1>10, <1>t DEF NoDeadEnd, Authenticated, Last
  <2> QED BY <1>10, <2>1, <2>2, <2>3 DEF CertInv
<1>11. CASE Fetch
  <2>1. /\ tv' \in Televisions /\ tv'.enrolment = tv.enrolment
        /\ tv'.installed = tv.installed
        /\ tv'.pc = "fetched" /\ tv'.certificate = request.certificate
    BY <1>11, <1>t DEF Fetch, Televisions, RequestRows
  <2> QED BY <1>10, <1>11, <2>1 DEF Fetch, Exchange
<1>12. CASE Install
  <2>1. PICK c \in {tv.shown, tv.certificate} :
          tv' = [tv EXCEPT !.installed = tv.certificate, !.shown = c,
                           !.pc = IF tv.activate \/ tv.installed # tv.certificate
                                  THEN "installed" ELSE "activated"]
    BY <1>12 DEF Install
  <2>2. /\ tv' \in Televisions /\ tv'.enrolment = tv.enrolment
        /\ tv'.installed = tv.certificate /\ tv'.pc # "idle"
        /\ tv'.certificate = tv.certificate
    BY <1>t, <2>1 DEF Televisions
  <2> QED BY <1>10, <1>12, <1>t, <2>2 DEF Install, Exchange
<1>13. CASE Settle \/ TvStops \/ Reconnect
  <2>1. /\ tv' \in Televisions /\ tv'.enrolment = tv.enrolment
        /\ tv'.installed = tv.installed
        /\ \/ tv'.pc = "idle"
           \/ tv'.pc = tv.pc /\ tv'.certificate = tv.certificate
    <3>1. CASE tv' = Rest(tv)
      <4>1. tv' \in Televisions /\ tv'.enrolment = tv.enrolment
            /\ tv'.installed = tv.installed /\ tv'.pc = "idle"
        BY <1>t, <1>n, <3>1 DEF Rest, Televisions
      <4> QED BY <4>1
    <3>2. CASE tv' = [tv EXCEPT !.shown = tv.installed]
      BY <1>t, <3>2 DEF Televisions
    <3> QED BY <1>13, <3>1, <3>2 DEF Settle, TvStops, Reconnect
  <2> QED BY <1>10, <1>13, <1>t, <2>1 DEF Settle, TvStops, Reconnect, Exchange
<1>14. CASE Activate
  <2>1. /\ tv.pc = "installed" /\ tv' = [tv EXCEPT !.pc = "activated"]
        /\ screen.state = "active"
        /\ UNCHANGED <<request, broker, issued, age, made>>
    BY <1>14 DEF Activate, Authenticated
  <2>2. /\ tv' \in Televisions /\ tv'.enrolment = tv.enrolment
        /\ tv'.installed = tv.installed
        /\ tv'.pc = "activated" /\ tv'.certificate = tv.certificate
        /\ tv.installed = tv.certificate
        /\ tv.certificate = request.certificate
        /\ request.status = "issued" /\ request.certificate = issued /\ issued # 0
    BY <1>t, <2>1 DEF Televisions, Exchange, Last
  <2>3. CASE screen' = screen
    BY <1>10, <1>t, <2>1, <2>2, <2>3 DEF Exchange
  <2>4. CASE screen' = Promote /\ screen.pending # 0
    <3>1. screen.pending = issued
      BY <1>t, <2>1, <2>2, <2>4 DEF Last
    <3>2. /\ screen' \in Screens /\ screen'.state = "active"
          /\ screen'.active = screen.pending
          /\ screen'.enrolment = screen.enrolment /\ screen'.pending = 0
      BY <1>t, <1>n, <2>1, <2>4 DEF Promote, Screens
    <3>3. OfThisEnrolment'
      BY <1>t, <2>1, <2>2, <2>4, <3>2
         DEF OfThisEnrolment, CertTypeOK, Screens, RequestRows, Televisions
    <3>4. Counted' /\ Aged' /\ Last'
      BY <1>t, <1>n, <2>1, <2>2, <3>1, <3>2 DEF Counted, Aged, Enrolled, Last
    <3>5. Signing' /\ Exchange' /\ NoDeadEnd'
      BY <1>t, <2>1, <2>2, <3>1, <3>2 DEF Signing, Claimed, Exchange, NoDeadEnd
    <3> QED BY <3>3, <3>4, <3>5 DEF CertInv
  <2> QED BY <1>14, <2>3, <2>4 DEF Activate, MatchesPending
<1>15. CASE Renew
  <2>1. /\ tv.pc = "activated" /\ screen.state = "active" /\ screen.active # 0
        /\ age[screen.active] = "due" /\ screen.pending = 0
        /\ tv' = Rest(tv)
        /\ UNCHANGED <<screen, broker, issued, age, made>>
    BY <1>15 DEF Renew, Authenticated
  <2>2. request.status = "issued" /\ screen.active = issued /\ issued # 0
    BY <1>t, <2>1 DEF Exchange, Last
  <2>3. issued <= MaxAged
    <3>1. issued \in Certificates
      BY <1>t, <2>2 DEF CertTypeOK, MaybeCertificate
    <3> QED BY <1>t, <2>1, <2>2, <3>1 DEF Aged
  <2>4. request.id + 1 <= Enrolled + issued /\ request.id + 1 <= Enrolled + MaxAged
    BY <1>t, <1>n, <2>2, <2>3, Numbers DEF Counted
  <2>5. /\ request' \in RequestRows /\ request'.id = request.id + 1
        /\ request'.status = "pending"
    <3>1. request' = [id |-> request.id + 1, status |-> "pending", attempts |-> 0,
                      certificate |-> 0]
      BY <1>15, <2>2 DEF Renew, NewRequest, OpenRequest
    <3>2. request.id + 1 \in Requests
      BY <1>n, <2>4, Numbers
    <3> QED BY <1>n, <3>1, <3>2, Numbers DEF RequestRows, Statuses
  <2>6. /\ tv' \in Televisions /\ tv'.enrolment = tv.enrolment
        /\ tv'.installed = tv.installed
        /\ tv'.pc = "idle"
    BY <1>t, <1>n, <2>1 DEF Rest, Televisions
  <2>7. OfThisEnrolment'
    BY <1>t, <2>1, <2>5, <2>6
       DEF OfThisEnrolment, CertTypeOK, Screens, RequestRows, Televisions
  <2>8. Counted'
    <3>1. Enrolled' = Enrolled
      BY <2>1 DEF Enrolled
    <3> QED BY <1>t, <1>n, <2>1, <2>4, <2>5, <3>1, Numbers DEF Counted
  <2>9. Last' /\ Aged'
    BY <1>t, <2>1, <2>5 DEF Last, Aged
  <2>10. Signing'
    BY <1>t, <1>n, <2>1, <2>5
       DEF Signing, Claimed, NoBroker, CertTypeOK, Requests
  <2> QED BY <1>t, <2>1, <2>6, <2>7, <2>8, <2>9, <2>10
             DEF CertInv, Exchange, NoDeadEnd, Authenticated
<1>16. ASSUME NEW c \in Certificates, Age(c) PROVE CertInv'
  <2>1. /\ c <= MaxAged /\ UNCHANGED <<screen, request, broker, tv, issued, made>>
        /\ age' = [age EXCEPT ![c] = IF @ = "fresh" THEN "due" ELSE "expired"]
    BY <1>16 DEF Age
  <2>2. Aged' /\ age' \in [Certificates -> {"fresh", "due", "expired"}]
    BY <1>t, <2>1 DEF Aged, CertTypeOK
  <2> QED BY <1>t, <2>1, <2>2
             DEF CertInv, OfThisEnrolment, CertTypeOK, Counted, Enrolled, Last, Signing,
                 Claimed, Exchange, NoDeadEnd, Authenticated
<1>17. CASE Require
  <2>1. /\ screen' = [screen EXCEPT !.required = TRUE]
        /\ UNCHANGED <<request, broker, tv, issued, age, made>>
    BY <1>17 DEF Require
  <2>2. /\ screen' \in Screens /\ screen'.state = screen.state
        /\ screen'.active = screen.active
        /\ screen'.enrolment = screen.enrolment /\ screen'.pending = screen.pending
    BY <1>t, <2>1 DEF Screens
  <2>3. OfThisEnrolment'
    BY <1>t, <2>1, <2>2 DEF OfThisEnrolment, CertTypeOK, Screens, RequestRows, Televisions
  <2> QED BY <1>t, <2>1, <2>2, <2>3
             DEF CertInv, Counted, Aged, Enrolled, Last, Signing, Claimed, Exchange,
                 NoDeadEnd, Authenticated
<1>18. CASE UNCHANGED certVars
  BY <1>t, <1>18
     DEF certVars, CertInv, OfThisEnrolment, CertTypeOK, Counted, Aged, Enrolled, Last,
         Signing, Claimed, Exchange, NoDeadEnd, Authenticated
<1> QED BY <1>1, <1>2, <1>3, <1>5, <1>6, <1>7, <1>8, <1>9, <1>11, <1>12, <1>13, <1>14, <1>15,
           <1>16, <1>17, <1>18
           DEF CertNext, Administration, Broker, Television, Ageing

(* Type correctness, the invariants of the run, and what they rest on.     *)
THEOREM CertificateInvariant == CertSpec => []CertInv
<1>1. CertInit => CertInv
  BY CertInitKeeps
<1>2. CertInv /\ [CertNext]_certVars => CertInv'
  BY CertKept
<1> QED BY <1>1, <1>2, PTL DEF CertSpec

(* A certificate serves the enrolment it was signed for, whatever is       *)
(* revoked or enrolled again while a broker signs.                         *)
THEOREM SignedForThisEnrolment == CertSpec => []OfThisEnrolment
<1>1. CertInv => OfThisEnrolment
  BY DEF CertInv
<1> QED BY <1>1, CertificateInvariant, PTL

(* The server never requires a certificate the television does not have,   *)
(* or is not about to be let in with.                                      *)
THEOREM NeverLockedOut == CertSpec => []NoDeadEnd
<1>1. CertInv => NoDeadEnd
  BY DEF CertInv
<1> QED BY <1>1, CertificateInvariant, PTL
=============================================================================
