------------------------------ MODULE Accounts ------------------------------
(***************************************************************************)
(* The accounts of the studio: the first owner, invitations and their      *)
(* activation, sign-in by password and one-time code or by passkey, the    *)
(* sessions, the operations of an owner on another account and the local   *)
(* recovery (bootstrap-auth-routes.mjs, user-routes.mjs,                   *)
(* account-security-routes.mjs, auth.mjs, totp.mjs, worker.mjs).           *)
(*                                                                         *)
(* What a route reads before its transaction is a step of its own.  Its    *)
(* transaction is one step where it begins by locking the row of the       *)
(* account (FOR UPDATE, or the update of the row): no other such           *)
(* transaction and no insertion that refers to the account comes between.  *)
(* The sign-in and the registration by passkey lock their challenge and    *)
(* their passkey alone, and are two steps.  The local recovery updates the *)
(* account outside its key, which lets those two insert: it is three       *)
(* steps, and what it changes is seen at the last.                         *)
(*                                                                         *)
(* The credentials of an account (password and one-time-code secret,       *)
(* always replaced together) are a generation number.  What is opened      *)
(* bears the generation and the role that were verified for it, and        *)
(* whether they changed (crossed) between that and its insertion.          *)
(***************************************************************************)
EXTENDS Naturals, Sequences, FiniteSetsExt

CONSTANTS
  Users,            \* the accounts
  Sessions,         \* the identifiers of sessions
  Workers,          \* requests served at the same time
  None,             \* SQL NULL
  MaxCounter,       \* bound: the last period of 30 seconds a code stands for
  MaxGeneration,    \* bound: times credentials are set, over all accounts
  MaxInvitations    \* bound: invitations issued to an account

ASSUME AccountsAssumption ==
  /\ None \notin Users \union Sessions \union Nat
  /\ MaxCounter \in Nat /\ MaxGeneration \in Nat \ {0} /\ MaxInvitations \in Nat

VARIABLES
  configured,    \* the row of roomframe_instance exists
  users,         \* the row of each account
  spent,         \* history: the latest code of the secret, and whether one came again
  sessions,      \* the rows of the sessions neither revoked nor expired
  invitations,   \* the invitations of each account, oldest first
  passkeys,      \* the passkeys of each account, alike ones once
  challenges,    \* the unused passkey challenge of each account and purpose
  secrets,       \* unused rows of bootstrap_challenges
  recovery,      \* the request file of the host and its row of authority
  recovering,    \* the transaction of a recovery that is under way
  work           \* what each served request has read or locked so far

vars == <<configured, users, spent, sessions, invitations, passkeys,
          challenges, secrets, recovery, recovering, work>>

Roles == {"owner", "other"}
Counters == 0..MaxCounter
Generations == 0..MaxGeneration
Purposes == {"registration", "authentication"}
Passkeys == [generation : Generations, crossed : BOOLEAN]

\* The counter lies after the last one the account accepted.
Beyond(u, c) == users[u].counter # None => users[u].counter < c

Active(u) == users[u].state = "active"
Usable(s) == sessions[s] # None /\ Active(sessions[s].user)

(***************************************************************************)
(* Parts of transactions.                                                  *)
(***************************************************************************)

Referred(s) ==
  \/ \E w \in Workers : work[w] # None /\ work[w].session = s
  \/ \E u \in Users : LET c == challenges[u]["registration"] IN c # None /\ c.session = s

Recovering(u) == recovering # None /\ recovering.user = u

\* A request for u holds its challenge of purpose p.
Held(u, p) == \E w \in Workers : work[w] # None /\ work[w].kind = p /\ work[w].user = u

\* A transaction that holds the row of u and takes away its passkeys and
\* challenges waits for one that holds them, which waits for the row to insert:
\* PostgreSQL ends one of the two.
Calm(u) == \A p \in Purposes : ~Held(u, p)

\* An identifier no row and no request stands for.
Fresh(s) ==
  /\ sessions[s] = None
  /\ ~Referred(s)
  /\ recovering # None => s \notin recovering.sessions

\* Opened on what the request of w verified.
Opened(w) == [user |-> work[w].user, generation |-> work[w].generation,
              role |-> work[w].role, crossed |-> work[w].crossed \/ Recovering(work[w].user)]

\* Opened by the transaction that sets the credentials.
OpenedAnew(u) == [user |-> u, generation |-> users'[u].generation,
                  role |-> users'[u].role, crossed |-> FALSE]

\* The credentials or the role of u change under the sign-ins that verified them.
Crossed(u) == [w \in Workers |->
  IF work[w] # None /\ work[w].user = u /\ work[w].kind \in {"login", "authentication"}
  THEN [work[w] EXCEPT !.crossed = TRUE] ELSE work[w]]

SessionsOf(u) == {s \in Sessions : sessions[s] # None /\ sessions[s].user = u}
Without(over) == [s \in Sessions |-> IF s \in over THEN None ELSE sessions[s]]

Unspent == [latest |-> None, again |-> FALSE]
NoChallenges == [p \in Purposes |-> None]

Closed(tokens) == [i \in DOMAIN tokens |->
  IF tokens[i].status = "open" THEN [tokens[i] EXCEPT !.status = "over"] ELSE tokens[i]]

(* Mutant: a new invitation leaves the earlier ones open.                  *)
IssueBeside(tokens) == Append(tokens, [status |-> "open", challenged |-> FALSE])

Issue(tokens) == Append(Closed(tokens), [status |-> "open", challenged |-> FALSE])

\* Bounds: what is issued can still lead to new credentials; the sum over the
\* accounts bounds each of them.
Renewable(u) ==
  /\ users[u].generation < MaxGeneration
  /\ MapThenSumSet(LAMBDA v : users[v].generation, Users) < MaxGeneration
Invitable(u) == Len(invitations[u]) < MaxInvitations /\ Renewable(u)

\* The credentials of u are replaced; c is the first code accepted under them.
Recredential(u, c) ==
  /\ users' = [users EXCEPT ![u].state = "active", ![u].counter = c,
                            ![u].generation = @ + 1]
  /\ spent' = [spent EXCEPT ![u] = [Unspent EXCEPT !.latest = c]]

\* The code c is accepted after those of s.
After(s, c) ==
  LET later == s.latest # None => c > s.latest IN
  [latest |-> IF later THEN c ELSE s.latest, again |-> s.again \/ ~later]

Spend(u, c) == spent' = [spent EXCEPT ![u] = IF Active(u) THEN After(@, c) ELSE @]

StepUp(u, c) ==
  /\ Active(u)
  /\ Beyond(u, c)
  /\ ~Recovering(u)

(* Mutant: passkey challenges survive the change that ends the passkeys.   *)
RevokeSessionsAndPasskeys(u, over, lost) ==
  /\ sessions' = Without(over)
  /\ passkeys' = [passkeys EXCEPT ![u] = @ \ lost]
  /\ UNCHANGED challenges

RevokeUserAccess(u, over, lost) ==
  /\ sessions' = Without(over)
  /\ passkeys' = [passkeys EXCEPT ![u] = @ \ lost]
  /\ challenges' = [challenges EXCEPT ![u] = NoChallenges]

(* Mutant: the caller was an owner and is another account, so the owners    *)
(* are not counted.                                                        *)
CallerIsLeft(u) == \E v \in Users \ {u} : Active(v)

\* An owner other than u would be left if u no longer were one.
OwnerCanBeRemoved(u) ==
  users[u].role = "owner" /\ Active(u) =>
    \E v \in Users \ {u} : Active(v) /\ users[v].role = "owner"

(***************************************************************************)
(* First configuration.                                                    *)
(***************************************************************************)

Challenge(p, u) == [purpose |-> p, user |-> u]

BootstrapTotp(u) ==
  /\ ~configured
  /\ secrets' = secrets \union {Challenge("bootstrap", u)}
  /\ UNCHANGED <<configured, users, spent, sessions, invitations, passkeys,
                 challenges, recovery, recovering, work>>

\* A second completion meets the unique rows of the first and is rolled back,
\* so the other challenges lead nowhere.
BootstrapComplete(u, c, s) ==
  /\ Challenge("bootstrap", u) \in secrets
  /\ ~configured
  /\ Fresh(s)
  /\ configured' = TRUE
  /\ users' = [users EXCEPT ![u] =
       [state |-> "active", role |-> "owner", generation |-> 1, counter |-> c]]
  /\ spent' = [spent EXCEPT ![u].latest = c]
  /\ secrets' = {}
  /\ sessions' = [sessions EXCEPT ![s] = OpenedAnew(u)]
  /\ UNCHANGED <<invitations, passkeys, challenges, recovery, recovering, work>>

(***************************************************************************)
(* Sign-in.  The account and the code are checked before the transaction   *)
(* that moves the counter and inserts the session.                         *)
(***************************************************************************)

LoginRead(w, u, c) ==
  /\ work[w] = None
  /\ Active(u)
  /\ Beyond(u, c)
  /\ work' = [work EXCEPT ![w] = [kind |-> "login", user |-> u, session |-> None,
       counter |-> c, role |-> users[u].role, generation |-> users[u].generation,
       crossed |-> FALSE]]
  /\ UNCHANGED <<configured, users, spent, sessions, invitations, passkeys,
                 challenges, secrets, recovery, recovering>>

(* Mutant: the update does not compare the counter again.                  *)
LoginWriteUnchecked(w, s) ==
  LET u == work[w].user  c == work[w].counter IN
  /\ work[w] # None /\ work[w].kind = "login"
  /\ ~Recovering(u)
  /\ Fresh(s)
  /\ users' = [users EXCEPT ![u].counter = c]
  /\ Spend(u, c)
  /\ sessions' = [sessions EXCEPT ![s] = Opened(w)]
  /\ work' = [work EXCEPT ![w] = None]
  /\ UNCHANGED <<configured, invitations, passkeys, challenges, secrets, recovery,
                 recovering>>

\* The update matches on the account and on the counter alone.
LoginWrite(w, s) ==
  LET u == work[w].user  c == work[w].counter IN
  /\ work[w] # None /\ work[w].kind = "login"
  /\ Beyond(u, c)
  /\ ~Recovering(u)
  /\ Fresh(s)
  /\ users' = [users EXCEPT ![u].counter = c]
  /\ Spend(u, c)
  /\ sessions' = [sessions EXCEPT ![s] = Opened(w)]
  /\ work' = [work EXCEPT ![w] = None]
  /\ UNCHANGED <<configured, invitations, passkeys, challenges, secrets, recovery,
                 recovering>>

\* Password, then a challenge that replaces the unused one of this purpose.
PasskeyOptions(u) ==
  /\ Active(u)
  /\ ~Recovering(u)
  /\ ~Held(u, "authentication")
  /\ passkeys[u] # {}
  /\ challenges' = [challenges EXCEPT ![u]["authentication"] =
                      [session |-> None, generation |-> users[u].generation]]
  /\ UNCHANGED <<configured, users, spent, sessions, invitations, passkeys,
                 secrets, recovery, recovering, work>>

\* The challenge and the passkey k are locked; a recovery may have deleted k.
PasskeyVerify(w, u, k) ==
  /\ work[w] = None
  /\ challenges[u]["authentication"] # None
  /\ ~Held(u, "authentication")
  /\ Active(u)
  /\ k \in passkeys[u]
  /\ Recovering(u) => k \notin recovering.passkeys
  /\ work' = [work EXCEPT ![w] = [kind |-> "authentication", user |-> u,
       session |-> None, counter |-> None, role |-> users[u].role,
       generation |-> k.generation, crossed |-> k.crossed]]
  /\ UNCHANGED <<configured, users, spent, sessions, invitations, passkeys,
                 challenges, secrets, recovery, recovering>>

PasskeyComplete(w, s) ==
  /\ work[w] # None /\ work[w].kind = "authentication"
  /\ Fresh(s)
  /\ challenges' = [challenges EXCEPT ![work[w].user]["authentication"] = None]
  /\ sessions' = [sessions EXCEPT ![s] = Opened(w)]
  /\ work' = [work EXCEPT ![w] = None]
  /\ UNCHANGED <<configured, users, spent, invitations, passkeys, secrets, recovery,
                 recovering>>

(***************************************************************************)
(* Activation of an invited account.                                       *)
(***************************************************************************)

Redeemable(u, i) ==
  /\ i \in DOMAIN invitations[u]
  /\ invitations[u][i].status = "open"
  /\ ~Active(u)

ActivationTotp(u, i) ==
  /\ Redeemable(u, i)
  /\ invitations' = [invitations EXCEPT ![u][i].challenged = TRUE]
  /\ UNCHANGED <<configured, users, spent, sessions, passkeys, challenges,
                 secrets, recovery, recovering, work>>

ActivationComplete(u, i, c, s) ==
  /\ Redeemable(u, i)
  /\ invitations[u][i].challenged
  /\ Calm(u)
  /\ Fresh(s)
  /\ Renewable(u)
  /\ Recredential(u, c)
  /\ invitations' = [invitations EXCEPT ![u] =
                       Closed([@ EXCEPT ![i].status = "used"])]
  /\ passkeys' = [passkeys EXCEPT ![u] = {}]
  /\ challenges' = [challenges EXCEPT ![u] = NoChallenges]
  /\ sessions' = [Without(SessionsOf(u)) EXCEPT ![s] = OpenedAnew(u)]
  /\ work' = Crossed(u)
  /\ UNCHANGED <<configured, secrets, recovery, recovering>>

(***************************************************************************)
(* Requests of a signed-in account: the session and the permission are     *)
(* read first, the transaction of the route comes later.                   *)
(***************************************************************************)

Authorise(w, s) ==
  /\ work[w] = None
  /\ Usable(s)
  /\ LET u == sessions[s].user IN
     work' = [work EXCEPT ![w] = [kind |-> "request", user |-> u, session |-> s,
       counter |-> None, role |-> users[u].role, generation |-> 0, crossed |-> FALSE]]
  /\ UNCHANGED <<configured, users, spent, sessions, invitations, passkeys,
                 challenges, secrets, recovery, recovering>>

Requested(w) == work[w] # None /\ work[w].kind = "request"
Answered(w) == work' = [work EXCEPT ![w] = None]

\* A request that is refused or rolled back, or whose client goes away,
\* changes nothing.
Refused(w) ==
  /\ work[w] # None
  /\ Answered(w)
  /\ UNCHANGED <<configured, users, spent, sessions, invitations, passkeys,
                 challenges, secrets, recovery, recovering>>

\* What the routes of an owner on another account begin with.
OwnerRequest(w, u, c) ==
  /\ Requested(w)
  /\ work[w].role = "owner"
  /\ StepUp(work[w].user, c)
  /\ u # work[w].user
  /\ ~Recovering(u)

Invite(w, u, c, r) ==
  /\ OwnerRequest(w, u, c)
  /\ users[u].state = "none"
  /\ Invitable(u)
  /\ users' = [users EXCEPT ![work[w].user].counter = c,
                            ![u].state = "inactive", ![u].role = r]
  /\ invitations' = [invitations EXCEPT ![u] = Issue(@)]
  /\ Spend(work[w].user, c)
  /\ Answered(w)
  /\ UNCHANGED <<configured, sessions, passkeys, challenges, secrets, recovery,
                 recovering>>

ChangeRole(w, u, c, r) ==
  /\ OwnerRequest(w, u, c)
  /\ users[u].state # "none"
  /\ OwnerCanBeRemoved(u)
  /\ users[u].role # r
  /\ users' = [users EXCEPT ![work[w].user].counter = c, ![u].role = r]
  /\ sessions' = Without(SessionsOf(u))
  /\ Spend(work[w].user, c)
  /\ work' = [Crossed(u) EXCEPT ![w] = None]
  /\ UNCHANGED <<configured, invitations, passkeys, challenges, secrets, recovery,
                 recovering>>

\* u loses its place and the memory of its last code, at the hands of actor.
Deactivate(u, actor, c) ==
  /\ users' = [users EXCEPT ![actor].counter = c,
                            ![u].state = "inactive", ![u].counter = None]
  /\ spent' = [spent EXCEPT ![actor] = After(@, c), ![u] = Unspent]

Disable(w, u, c) ==
  /\ OwnerRequest(w, u, c)
  /\ OwnerCanBeRemoved(u)
  /\ Active(u)
  /\ Calm(u)
  /\ Deactivate(u, work[w].user, c)
  /\ RevokeUserAccess(u, SessionsOf(u), passkeys[u])
  /\ invitations' = [invitations EXCEPT ![u] = Closed(@)]
  /\ Answered(w)
  /\ UNCHANGED <<configured, secrets, recovery, recovering>>

Reissue(w, u, c) ==
  /\ OwnerRequest(w, u, c)
  /\ users[u].state # "none"
  /\ OwnerCanBeRemoved(u)
  /\ Invitable(u)
  /\ Calm(u)
  /\ Deactivate(u, work[w].user, c)
  /\ RevokeUserAccess(u, SessionsOf(u), passkeys[u])
  /\ invitations' = [invitations EXCEPT ![u] = Issue(@)]
  /\ Answered(w)
  /\ UNCHANGED <<configured, secrets, recovery, recovering>>

\* The challenge is bound to the session that asked for it.
PasskeyRegistrationOptions(w, c) ==
  LET u == work[w].user IN
  /\ Requested(w)
  /\ StepUp(u, c)
  /\ ~Held(u, "registration")
  /\ users' = [users EXCEPT ![u].counter = c]
  /\ challenges' = [challenges EXCEPT ![u]["registration"] =
       [session |-> work[w].session, generation |-> users[u].generation]]
  /\ Spend(u, c)
  /\ Answered(w)
  /\ UNCHANGED <<configured, sessions, invitations, passkeys, secrets, recovery,
                 recovering>>

PasskeyRegistrationVerify(w) ==
  LET u == work[w].user  asked == challenges[u]["registration"] IN
  /\ Requested(w)
  /\ asked # None
  /\ asked.session = work[w].session
  /\ ~Held(u, "registration")
  /\ work' = [work EXCEPT ![w].kind = "registration", ![w].generation = asked.generation]
  /\ UNCHANGED <<configured, users, spent, sessions, invitations, passkeys,
                 challenges, secrets, recovery, recovering>>

PasskeyRegistrationComplete(w) ==
  LET u == work[w].user IN
  /\ work[w] # None /\ work[w].kind = "registration"
  /\ passkeys' = [passkeys EXCEPT ![u] =
       @ \union {[generation |-> work[w].generation, crossed |-> Recovering(u)]}]
  /\ challenges' = [challenges EXCEPT ![u]["registration"] = None]
  /\ Answered(w)
  /\ UNCHANGED <<configured, users, spent, sessions, invitations, secrets, recovery,
                 recovering>>

RevokePasskey(w, k, c) ==
  LET u == work[w].user IN
  /\ Requested(w)
  /\ StepUp(u, c)
  /\ ~Held(u, "authentication")
  /\ k \in passkeys[u]
  /\ users' = [users EXCEPT ![u].counter = c]
  /\ passkeys' = [passkeys EXCEPT ![u] = @ \ {k}]
  /\ Spend(u, c)
  /\ Answered(w)
  /\ UNCHANGED <<configured, sessions, invitations, challenges, secrets, recovery,
                 recovering>>

RevokeOtherSessions(w) ==
  /\ Requested(w)
  /\ sessions' = Without(SessionsOf(work[w].user) \ {work[w].session})
  /\ Answered(w)
  /\ UNCHANGED <<configured, users, spent, invitations, passkeys, challenges,
                 secrets, recovery, recovering>>

Logout(w) ==
  /\ Requested(w)
  /\ sessions' = Without({work[w].session})
  /\ Answered(w)
  /\ UNCHANGED <<configured, users, spent, invitations, passkeys, challenges,
                 secrets, recovery, recovering>>

RevokeSession(w, s) ==
  /\ Requested(w)
  /\ s \in SessionsOf(work[w].user)
  /\ sessions' = Without({s})
  /\ Answered(w)
  /\ UNCHANGED <<configured, users, spent, invitations, passkeys, challenges,
                 secrets, recovery, recovering>>

(***************************************************************************)
(* Local recovery.  The host writes a request file with a token; the       *)
(* table recovery_authorities remembers that its token was used.  One      *)
(* transaction of a recovery at a time; one that is rolled back changes    *)
(* nothing and is left out.                                                *)
(***************************************************************************)

NoRecovery == [file |-> "none", row |-> "none", completions |-> 0]

Recoverable == recovery.file = "valid" /\ recovery.row = "open"

\* A request may replace one that still holds (--replace): its token is another,
\* which no row of recovery_authorities and no challenge knows.
RequestRecovery ==
  /\ configured
  /\ recovering = None
  /\ recovery' = [NoRecovery EXCEPT !.file = "valid"]
  /\ secrets' = {}
  /\ UNCHANGED <<configured, users, spent, sessions, invitations, passkeys,
                 challenges, recovering, work>>

RecoveryTotp(u) ==
  /\ recovering = None
  /\ recovery.file = "valid"
  /\ recovery.row # "consumed"
  /\ Renewable(u)
  /\ recovery' = [recovery EXCEPT !.row = "open"]
  /\ secrets' = secrets \union {Challenge("recovery", u)}
  /\ UNCHANGED <<configured, users, spent, sessions, invitations, passkeys,
                 challenges, recovering, work>>

\* The row of the account is updated, then its sessions: those there are now.
RecoveryComplete(u) ==
  /\ Recoverable
  /\ recovering = None
  /\ Challenge("recovery", u) \in secrets
  /\ Active(u)
  /\ Renewable(u)
  /\ recovering' = [user |-> u, sessions |-> SessionsOf(u),
                     passkeys |-> {}, pc |-> "sessions"]
  /\ UNCHANGED <<configured, users, spent, sessions, invitations, passkeys,
                 challenges, secrets, recovery, work>>

\* The passkeys there are now, once no sign-in holds one.
RecoveryDeletePasskeys ==
  /\ recovering # None /\ recovering.pc = "sessions"
  /\ ~Held(recovering.user, "authentication")
  /\ recovering' = [recovering EXCEPT !.passkeys = passkeys[recovering.user],
                                      !.pc = "passkeys"]
  /\ UNCHANGED <<configured, users, spent, sessions, invitations, passkeys,
                 challenges, secrets, recovery, work>>

\* The challenges, once no request holds one, and the token; c is the code that
\* was verified before the first statement.
RecoveryCommit(c) ==
  LET u == recovering.user IN
  /\ recovering # None /\ recovering.pc = "passkeys"
  /\ Calm(u)
  /\ Recredential(u, c)
  /\ RevokeUserAccess(u, recovering.sessions, recovering.passkeys)
  /\ secrets' = {}
  /\ recovery' = [recovery EXCEPT !.row = "consumed", !.completions = @ + 1]
  /\ recovering' = None
  /\ work' = Crossed(u)
  /\ UNCHANGED <<configured, invitations>>

(***************************************************************************)
(* Time.  The clock itself is left out: a code of any period may be the    *)
(* one of the moment, which only adds behaviours.                          *)
(***************************************************************************)

ExpireSession(s) ==
  /\ sessions[s] # None
  /\ sessions' = Without({s})
  /\ UNCHANGED <<configured, users, spent, invitations, passkeys, challenges,
                 secrets, recovery, recovering, work>>

ExpireInvitation(u, i) ==
  /\ i \in DOMAIN invitations[u] /\ invitations[u][i].status = "open"
  /\ invitations' = [invitations EXCEPT ![u][i].status = "over"]
  /\ UNCHANGED <<configured, users, spent, sessions, passkeys, challenges,
                 secrets, recovery, recovering, work>>

ExpireChallenge(u, p) ==
  /\ challenges[u][p] # None
  /\ ~Held(u, p)
  /\ challenges' = [challenges EXCEPT ![u][p] = None]
  /\ UNCHANGED <<configured, users, spent, sessions, invitations, passkeys,
                 secrets, recovery, recovering, work>>

\* Nothing fits the token any more; maintenance deletes the rows of expired
\* authorities and challenges seven days later.
ExpireRecovery ==
  /\ recovering = None
  /\ recovery.file = "valid"
  /\ recovery' = NoRecovery
  /\ secrets' = {}
  /\ UNCHANGED <<configured, users, spent, sessions, invitations, passkeys,
                 challenges, recovering, work>>

Init ==
  /\ configured = FALSE
  /\ users = [u \in Users |-> [state |-> "none", role |-> "other",
                               generation |-> 0, counter |-> None]]
  /\ spent = [u \in Users |-> Unspent]
  /\ sessions = [s \in Sessions |-> None]
  /\ invitations = [u \in Users |-> <<>>]
  /\ passkeys = [u \in Users |-> {}]
  /\ challenges = [u \in Users |-> NoChallenges]
  /\ secrets = {}
  /\ recovery = NoRecovery
  /\ recovering = None
  /\ work = [w \in Workers |-> None]

SignIn ==
  \/ \E u \in Users : PasskeyOptions(u)
  \/ \E w \in Workers, u \in Users, k \in Passkeys : PasskeyVerify(w, u, k)
  \/ \E w \in Workers, s \in Sessions : PasskeyComplete(w, s)
  \/ \E w \in Workers, u \in Users, c \in Counters : LoginRead(w, u, c)
  \/ \E w \in Workers, s \in Sessions : LoginWrite(w, s)

Request(w) ==
  \/ Refused(w)
  \/ Logout(w)
  \/ RevokeOtherSessions(w)
  \/ PasskeyRegistrationVerify(w) \/ PasskeyRegistrationComplete(w)
  \/ \E s \in Sessions : Authorise(w, s) \/ RevokeSession(w, s)
  \/ \E c \in Counters : PasskeyRegistrationOptions(w, c)
  \/ \E c \in Counters, k \in Passkeys : RevokePasskey(w, k, c)
  \/ \E u \in Users, c \in Counters : Disable(w, u, c) \/ Reissue(w, u, c)
  \/ \E u \in Users, c \in Counters, r \in Roles :
       Invite(w, u, c, r) \/ ChangeRole(w, u, c, r)

Enrolment ==
  \/ \E u \in Users : BootstrapTotp(u)
  \/ \E u \in Users, c \in Counters, s \in Sessions : BootstrapComplete(u, c, s)
  \/ \E u \in Users, i \in 1..MaxInvitations :
       \/ ActivationTotp(u, i)
       \/ ExpireInvitation(u, i)
       \/ \E c \in Counters, s \in Sessions : ActivationComplete(u, i, c, s)

Recovery ==
  \/ RequestRecovery \/ ExpireRecovery
  \/ \E u \in Users : RecoveryTotp(u) \/ RecoveryComplete(u)
  \/ RecoveryDeletePasskeys
  \/ \E c \in Counters : RecoveryCommit(c)

Time ==
  \/ \E s \in Sessions : ExpireSession(s)
  \/ \E u \in Users, p \in Purposes : ExpireChallenge(u, p)

Next ==
  \/ SignIn \/ Enrolment \/ Recovery \/ Time
  \/ \E w \in Workers : Request(w)

Spec == Init /\ [][Next]_vars

(***************************************************************************)
(* Properties.                                                             *)
(***************************************************************************)

UserRow == [state : {"none", "inactive", "active"}, role : Roles,
            generation : Generations, counter : Counters \union {None}]
SpentRow == [latest : Counters \union {None}, again : BOOLEAN]
SessionRow == [user : Users, generation : Generations, role : Roles, crossed : BOOLEAN]
Token == [status : {"open", "used", "over"}, challenged : BOOLEAN]
ChallengeRow == [session : Sessions \union {None}, generation : Generations]
RecoveryRun == [user : Users, sessions : SUBSET Sessions, passkeys : SUBSET Passkeys,
                pc : {"sessions", "passkeys"}]

TypeOK ==
  /\ configured \in BOOLEAN
  /\ users \in [Users -> UserRow]
  /\ spent \in [Users -> SpentRow]
  /\ sessions \in [Sessions -> SessionRow \union {None}]
  /\ invitations \in [Users -> Seq(Token)]
  /\ passkeys \in [Users -> SUBSET Passkeys]
  /\ challenges \in [Users -> [Purposes -> ChallengeRow \union {None}]]
  /\ secrets \subseteq [purpose : {"bootstrap", "recovery"}, user : Users]
  /\ recovery \in [file : {"none", "valid"},
                   row : {"none", "open", "consumed"}, completions : Nat]
  /\ recovering \in RecoveryRun \union {None}

(***************************************************************************)
(* A configured server always has an active owner, although the routes     *)
(* that take owners away check the right of their caller before the        *)
(* transaction, and two owners may act on each other at once.              *)
(***************************************************************************)
OwnerRemains ==
  /\ TypeOK
  /\ configured => \E u \in Users : Active(u) /\ users[u].role = "owner"

(***************************************************************************)
(* While an account is active the codes of its secret are accepted in      *)
(* order, hence none twice, by sign-ins and step-ups alike, whatever the   *)
(* requests in flight have read; and a token of the host recovers one      *)
(* account once, however many challenges were asked for with it.           *)
(***************************************************************************)
CodesOnce ==
  /\ \A u \in Users : Active(u) => ~spent[u].again
  /\ recovery.completions <= 1

(***************************************************************************)
(* Access does not outlive what was verified for it: a usable session, a   *)
(* passkey, and a challenge that may still become one, belong to the       *)
(* current credentials of the account, and the session to its role.        *)
(* Excepted is what crossed the change that should have ended it: the      *)
(* session of a sign-in that had verified the account and inserted it      *)
(* after the change, the session or the passkey of a transaction that      *)
(* committed between two statements of a recovery, and a session such a    *)
(* passkey opens.                                                          *)
(***************************************************************************)
ChangeEndsAccess ==
  /\ \A s \in Sessions : Usable(s) /\ ~sessions[s].crossed =>
       LET u == sessions[s].user IN
       sessions[s].generation = users[u].generation /\ sessions[s].role = users[u].role
  /\ \A u \in Users : Active(u) =>
       /\ \A k \in passkeys[u] : ~k.crossed => k.generation = users[u].generation
       /\ \A p \in Purposes : challenges[u][p] # None =>
            challenges[u][p].generation = users[u].generation

(***************************************************************************)
(* An account becomes active through the configuration of the server or    *)
(* through the last invitation issued to it, which no later event          *)
(* withdrew; no other invitation can be redeemed afterwards.               *)
(***************************************************************************)
ActivationFollowsInvitation ==
  [][\A u \in Users : ~Active(u) /\ Active(u)' /\ users[u].state # "none" =>
       LET n == Len(invitations[u]) IN
       /\ n > 0 /\ invitations[u][n].status = "open"
       /\ invitations'[u][n].status = "used"
       /\ \A i \in 1..(n - 1) : invitations'[u][i].status # "open"]_vars
=============================================================================
