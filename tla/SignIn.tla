------------------------------- MODULE SignIn -------------------------------
(***************************************************************************)
(* How a user gets a session: passwords with their lockout, a second       *)
(* factor, invitations, password resets, single sign-on and the            *)
(* administration of users (identity.service.ts, oidc.service.ts,          *)
(* saml.service.ts, scim.service.ts).                                      *)
(*                                                                         *)
(* A handler reads a row, checks it and goes on with one database call     *)
(* after the other, outside a transaction; requests served at the same     *)
(* time interleave between the calls, and a request may stop there.  A     *)
(* request holds the call it makes next and what it read.                  *)
(*                                                                         *)
(* A definition Name_Slip is Name with a plausible slip, which a property  *)
(* below must catch; nothing refers to it.                                 *)
(*                                                                         *)
(* Abstractions: passwords of a user are numbered as they are chosen (0 is *)
(* none); time passes by actions that let what expires expire; the count   *)
(* of failures stops at MaxFailed, beyond which every count locks.         *)
(***************************************************************************)
EXTENDS Naturals, FiniteSets

CONSTANTS
  Users,      \* accounts of one tenant
  Requests,   \* slots for requests served at the same time
  Invites,    \* invitation tokens
  Resets,     \* password reset tokens
  Logins,     \* states of single sign-ons under way
  None,       \* SQL NULL
  MaxFailed,  \* MAX_FAILED_LOGINS
  Passwords,  \* bound: passwords a user chooses
  Kept        \* bound: sessions, and challenges, at the same time

ASSUME NumbersAssumption ==
  MaxFailed \in Nat \ {0} /\ Passwords \in Nat /\ Kept \in Nat
ASSUME RequestsAssumption == IsFiniteSet(Requests)
ASSUME TokensAssumption ==
  /\ Invites \intersect Logins = {}
  /\ None \notin Users \union Invites \union Resets \union Logins

(* The call a request makes next.                                          *)
Ops == {"countFailure", "activate", "open",
        "writeInvited", "closeInvites", "createInvite",
        "acceptPassword", "closeInvite",
        "closeResets", "createReset", "resetPassword", "closeReset",
        "endSessions", "consume", "match", "enable", "disable"}

ASSUME NoneAssumption == None \notin Ops

Idle == [op |-> None, user |-> None, item |-> None, count |-> 0, via |-> None]

NewUser == [status |-> "absent", password |-> 0, failures |-> 0,
            until |-> FALSE, secret |-> FALSE, mfa |-> FALSE]

VARIABLES
  user,        \* the User rows; until says that lockedUntil is in the future
  sessions,    \* the sessions: whose, by what, from which password on
  challenges,  \* signed challenges for a second factor, held by the client
  invite,      \* the UserInvite rows
  reset,       \* the PasswordResetToken rows
  login,       \* the OidcAuthState and SamlAuthState rows
  req,         \* the requests in flight
  chosen,      \* history: how many passwords a user chose
  tries,       \* history: wrong passwords counted since the last unlock
  floor,       \* history: the password of the last reset that was answered
  opened,      \* history: sessions opened by an invitation or a login state
  proven,      \* history: the user entered a code of the present secret
  overlapped   \* history: two requests were served at the same time

history == <<chosen, tries, floor, opened, proven>>
tokens == <<invite, reset, login>>
vars == <<user, sessions, challenges, tokens, req, history, overlapped>>

Init ==
  /\ user = [u \in Users |-> NewUser]
  /\ sessions = {} /\ challenges = {}
  /\ invite = [i \in Invites |-> [user |-> None, state |-> "absent"]]
  /\ reset = [t \in Resets |-> [user |-> None, state |-> "absent"]]
  /\ login = [s \in Logins |-> "absent"]
  /\ req = [r \in Requests |-> Idle]
  /\ chosen = [u \in Users |-> 0]
  /\ tries = [u \in Users |-> 0]
  /\ floor = [u \in Users |-> 0]
  /\ opened = [k \in Invites \union Logins |-> 0]
  /\ proven = [u \in Users |-> FALSE]
  /\ overlapped = FALSE

-----------------------------------------------------------------------------
(* Steps of requests *)

Serve(r, job) ==
  /\ req[r] = Idle
  /\ req' = [req EXCEPT ![r] = job]

Pending(r, op) == req[r].op = op
Then(r, op) == req' = [req EXCEPT ![r].op = op]
Finish(r) == req' = [req EXCEPT ![r] = Idle]

(* Writes a User row.  A row without failures starts a new count.          *)
Write(u, row) ==
  /\ user' = [user EXCEPT ![u] = row]
  /\ tries' = [tries EXCEPT ![u] = IF row.failures = 0 THEN 0 ELSE @]

(* The row of a user who signs in, accepts an invitation or resets.        *)
Unlocked(row) ==
  [row EXCEPT !.status = "active", !.failures = 0, !.until = FALSE]

(* Writes a row with a new password.                                       *)
WritePassword(u, row) ==
  /\ chosen[u] < Passwords
  /\ Write(u, [row EXCEPT !.password = chosen[u] + 1])
  /\ chosen' = [chosen EXCEPT ![u] = @ + 1]

-----------------------------------------------------------------------------
(* login, verifyMfa and issueSession *)

CanLogIn(row) ==
  /\ row.status \notin {"absent", "invited"}
  /\ row.password # 0 /\ ~row.until

WrongPassword(r, u) ==
  /\ CanLogIn(user[u])
  /\ Serve(r, [Idle EXCEPT !.op = "countFailure", !.user = u,
                 !.count = IF user[u].failures < MaxFailed
                           THEN user[u].failures + 1 ELSE MaxFailed])
  /\ UNCHANGED <<user, sessions, challenges, tokens, history>>

CountFailure_OneMore(r) ==
  LET u == req[r].user
      locks == req[r].count > MaxFailed
  IN  /\ Pending(r, "countFailure")
      /\ user' = [user EXCEPT ![u].failures = req[r].count,
                              ![u].until = locks,
                              ![u].status = IF locks THEN "locked" ELSE @]
      /\ tries' = [tries EXCEPT ![u] = @ + 1]
      /\ Finish(r)
      /\ UNCHANGED <<sessions, challenges, tokens,
                     chosen, floor, opened, proven>>

CountFailure(r) ==
  LET u == req[r].user
      locks == req[r].count = MaxFailed
  IN  /\ Pending(r, "countFailure")
      /\ user' = [user EXCEPT ![u].failures = req[r].count,
                              ![u].until = locks,
                              ![u].status = IF locks THEN "locked" ELSE @]
      /\ tries' = [tries EXCEPT ![u] = @ + 1]
      /\ Finish(r)
      /\ UNCHANGED <<sessions, challenges, tokens,
                     chosen, floor, opened, proven>>

(* The right password, with the right code where one is asked for.         *)
RightPassword(r, u) ==
  /\ CanLogIn(user[u])
  /\ Serve(r, [Idle EXCEPT !.op = "activate", !.user = u,
                 !.count = user[u].password, !.via = "password"])
  /\ UNCHANGED <<user, sessions, challenges, tokens, history>>

(* The right password without a code: a signed challenge, not stored.      *)
Challenge(r, u) ==
  /\ req[r] = Idle
  /\ CanLogIn(user[u]) /\ user[u].mfa /\ user[u].secret
  /\ Cardinality(challenges) < Kept
  /\ challenges' = challenges \union
                     {[user |-> u, password |-> user[u].password]}
  /\ UNCHANGED <<user, sessions, tokens, req, history>>

VerifyMfa(r, c) ==
  /\ user[c.user].mfa /\ user[c.user].secret
  /\ Serve(r, [Idle EXCEPT !.op = "activate", !.user = c.user,
                 !.count = c.password, !.via = "code"])
  /\ UNCHANGED <<user, sessions, challenges, tokens, history>>

(* issueSession and createSessionForEmail: the row, then the session.      *)
Activate(r) ==
  /\ Pending(r, "activate")
  /\ Write(req[r].user, Unlocked(user[req[r].user]))
  /\ Then(r, "open")
  /\ UNCHANGED <<sessions, challenges, tokens, chosen, floor, opened, proven>>

OpenSession(r) ==
  LET q == req[r]
  IN  /\ Pending(r, "open") /\ Cardinality(sessions) < Kept
      /\ sessions' = sessions \union
           {[user |-> q.user, via |-> q.via, password |-> q.count]}
      /\ opened' = IF q.item = None THEN opened
                   ELSE [opened EXCEPT ![q.item] = @ + 1]
      /\ Finish(r)
      /\ UNCHANGED <<user, challenges, tokens, chosen, tries, floor, proven>>

-----------------------------------------------------------------------------
(* startMfaSetup, confirmMfaSetup and disableMfa, for who has a session    *)

SignedIn(u) == \E s \in sessions : s.user = u

StartMfaSetup(r, u) ==
  /\ req[r] = Idle /\ SignedIn(u)
  /\ user' = [user EXCEPT ![u].secret = TRUE, ![u].mfa = FALSE]
  /\ proven' = [proven EXCEPT ![u] = FALSE]
  /\ UNCHANGED <<sessions, challenges, tokens, req,
                 chosen, tries, floor, opened>>

(* The right code of the secret that was read.                             *)
ConfirmMfaSetup(r, u) ==
  /\ SignedIn(u) /\ user[u].secret
  /\ Serve(r, [Idle EXCEPT !.op = "enable", !.user = u])
  /\ proven' = [proven EXCEPT ![u] = TRUE]
  /\ UNCHANGED <<user, sessions, challenges, tokens,
                 chosen, tries, floor, opened>>

EnableMfa(r) ==
  /\ Pending(r, "enable")
  /\ user' = [user EXCEPT ![req[r].user].mfa = TRUE]
  /\ Finish(r)
  /\ UNCHANGED <<sessions, challenges, tokens, history>>

StartDisableMfa(r, u) ==
  /\ SignedIn(u) /\ user[u].mfa /\ user[u].secret
  /\ Serve(r, [Idle EXCEPT !.op = "disable", !.user = u])
  /\ UNCHANGED <<user, sessions, challenges, tokens, history>>

DisableMfa(r) ==
  /\ Pending(r, "disable")
  /\ user' = [user EXCEPT ![req[r].user].mfa = FALSE,
                          ![req[r].user].secret = FALSE]
  /\ Finish(r)
  /\ UNCHANGED <<sessions, challenges, tokens, history>>

-----------------------------------------------------------------------------
(* inviteUser and acceptInvite *)

(* count tells whether the row was found.                                  *)
StartInvite(r, u) ==
  /\ user[u].status \in {"absent", "invited"}
  /\ Serve(r, [Idle EXCEPT !.op = "writeInvited", !.user = u,
                 !.count = IF user[u].status = "absent" THEN 0 ELSE 1])
  /\ UNCHANGED <<user, sessions, challenges, tokens, history>>

(* A row that was not found is created, which fails when there is one.     *)
WriteInvited(r) ==
  LET u == req[r].user
  IN  /\ Pending(r, "writeInvited")
      /\ IF req[r].count = 0 /\ user[u].status # "absent"
         THEN Finish(r) /\ UNCHANGED <<user, tries>>
         ELSE /\ Write(u, [user[u] EXCEPT !.status = "invited",
                                          !.password = 0])
              /\ Then(r, "closeInvites")
      /\ UNCHANGED <<sessions, challenges, tokens,
                     chosen, floor, opened, proven>>

Close(rows, u) ==
  [k \in DOMAIN rows |-> IF rows[k].user = u
                         THEN [rows[k] EXCEPT !.state = "closed"]
                         ELSE rows[k]]

CloseInvites(r) ==
  /\ Pending(r, "closeInvites")
  /\ invite' = Close(invite, req[r].user)
  /\ Then(r, "createInvite")
  /\ UNCHANGED <<user, sessions, challenges, reset, login, history>>

CreateInvite(r) ==
  /\ Pending(r, "createInvite")
  /\ \E i \in Invites :
       /\ invite[i].state = "absent"
       /\ invite' = [invite EXCEPT ![i] = [user |-> req[r].user,
                                           state |-> "open"]]
  /\ Finish(r)
  /\ UNCHANGED <<user, sessions, challenges, reset, login, history>>

StartAccept(r, i) ==
  /\ invite[i].state = "open"
  /\ Serve(r, [Idle EXCEPT !.op = "acceptPassword", !.via = "invite",
                 !.user = invite[i].user, !.item = i])
  /\ UNCHANGED <<user, sessions, challenges, tokens, history>>

AcceptPassword_LeftOpen(r) ==
  LET u == req[r].user
  IN  /\ Pending(r, "acceptPassword")
      /\ WritePassword(u, Unlocked(user[u]))
      /\ req' = [req EXCEPT ![r].op = "activate", ![r].count = chosen[u] + 1]
      /\ UNCHANGED <<sessions, challenges, tokens, floor, opened, proven>>

AcceptPassword(r) ==
  LET u == req[r].user
  IN  /\ Pending(r, "acceptPassword")
      /\ WritePassword(u, Unlocked(user[u]))
      /\ req' = [req EXCEPT ![r].op = "closeInvite",
                            ![r].count = chosen[u] + 1]
      /\ UNCHANGED <<sessions, challenges, tokens, floor, opened, proven>>

CloseInvite(r) ==
  /\ Pending(r, "closeInvite")
  /\ invite' = [invite EXCEPT ![req[r].item].state = "closed"]
  /\ Then(r, "activate")
  /\ UNCHANGED <<user, sessions, challenges, reset, login, history>>

-----------------------------------------------------------------------------
(* requestPasswordReset and confirmPasswordReset *)

StartReset(r, u) ==
  /\ user[u].status \notin {"absent", "invited"} /\ user[u].password # 0
  /\ Serve(r, [Idle EXCEPT !.op = "closeResets", !.user = u])
  /\ UNCHANGED <<user, sessions, challenges, tokens, history>>

CloseResets(r) ==
  /\ Pending(r, "closeResets")
  /\ reset' = Close(reset, req[r].user)
  /\ Then(r, "createReset")
  /\ UNCHANGED <<user, sessions, challenges, invite, login, history>>

CreateReset(r) ==
  /\ Pending(r, "createReset")
  /\ \E t \in Resets :
       /\ reset[t].state = "absent"
       /\ reset' = [reset EXCEPT ![t] = [user |-> req[r].user,
                                         state |-> "open"]]
  /\ Finish(r)
  /\ UNCHANGED <<user, sessions, challenges, invite, login, history>>

StartConfirm(r, t) ==
  /\ reset[t].state = "open"
  /\ Serve(r, [Idle EXCEPT !.op = "resetPassword", !.user = reset[t].user,
                 !.item = t])
  /\ UNCHANGED <<user, sessions, challenges, tokens, history>>

ResetPassword(r) ==
  LET u == req[r].user
  IN  /\ Pending(r, "resetPassword")
      /\ WritePassword(u, Unlocked(user[u]))
      /\ req' = [req EXCEPT ![r].op = "closeReset",
                            ![r].count = chosen[u] + 1]
      /\ UNCHANGED <<sessions, challenges, tokens, floor, opened, proven>>

CloseReset(r) ==
  /\ Pending(r, "closeReset")
  /\ reset' = [reset EXCEPT ![req[r].item].state = "closed"]
  /\ Then(r, "endSessions")
  /\ UNCHANGED <<user, sessions, challenges, invite, login, history>>

EndSessions_Kept(r) ==
  /\ Pending(r, "endSessions")
  /\ floor' = [floor EXCEPT ![req[r].user] = req[r].count]
  /\ Finish(r)
  /\ UNCHANGED <<user, sessions, challenges, tokens,
                 chosen, tries, opened, proven>>

EndSessions(r) ==
  LET u == req[r].user
  IN  /\ Pending(r, "endSessions")
      /\ sessions' = {s \in sessions : s.user # u}
      /\ floor' = [floor EXCEPT ![u] = req[r].count]
      /\ Finish(r)
      /\ UNCHANGED <<user, challenges, tokens, chosen, tries, opened, proven>>

-----------------------------------------------------------------------------
(* Single sign-on: start and callback of OIDC, start and acs of SAML,      *)
(* which repeat them call for call, and createSessionForEmail              *)

StartLogin(r, s) ==
  /\ req[r] = Idle /\ login[s] = "absent"
  /\ login' = [login EXCEPT ![s] = "open"]
  /\ UNCHANGED <<user, sessions, challenges, invite, reset, req, history>>

StartCallback(r, s) ==
  /\ login[s] = "open"
  /\ Serve(r, [Idle EXCEPT !.op = "consume", !.item = s])
  /\ UNCHANGED <<user, sessions, challenges, tokens, history>>

SamlStart(r, s) == StartLogin(r, s)
Acs(r, s) == StartCallback(r, s)

Consume_IfThere(r) ==
  /\ Pending(r, "consume")
  /\ login' = [login EXCEPT ![req[r].item] = "gone"]
  /\ Then(r, "match")
  /\ UNCHANGED <<user, sessions, challenges, invite, reset, history>>

(* Deleting a row that is gone throws.                                     *)
Consume(r) ==
  /\ Pending(r, "consume")
  /\ login' = [login EXCEPT ![req[r].item] = "gone"]
  /\ IF login[req[r].item] = "gone" THEN Finish(r) ELSE Then(r, "match")
  /\ UNCHANGED <<user, sessions, challenges, invite, reset, history>>

CanSignOn(row) == row.status = "active" /\ ~row.until

(* Whoever the provider says it is; or the provider, or the account, says  *)
(* no.                                                                     *)
Match(r) ==
  /\ Pending(r, "match")
  /\ \/ Finish(r)
     \/ \E u \in Users :
          /\ CanSignOn(user[u])
          /\ req' = [req EXCEPT ![r].op = "activate", ![r].user = u,
                                ![r].via = "sso", ![r].count = chosen[u]]
  /\ UNCHANGED <<user, sessions, challenges, tokens, history>>

-----------------------------------------------------------------------------
(* Administration: register and createUser, updateUser; create, patch and  *)
(* deactivate of SCIM.  Each makes one write whatever it read.             *)

CreateUser(r, u) ==
  /\ req[r] = Idle /\ user[u].status = "absent"
  /\ WritePassword(u, [NewUser EXCEPT !.status = "active"])
  /\ UNCHANGED <<sessions, challenges, tokens, req, floor, opened, proven>>

UpdateStatus(r, u, status) ==
  /\ req[r] = Idle /\ user[u].status # "absent"
  /\ Write(u, [user[u] EXCEPT !.status = status])
  /\ UNCHANGED <<sessions, challenges, tokens, req,
                 chosen, floor, opened, proven>>

UpdatePassword(r, u, status) ==
  /\ req[r] = Idle /\ user[u].status # "absent"
  /\ WritePassword(u, [Unlocked(user[u]) EXCEPT !.status = status])
  /\ UNCHANGED <<sessions, challenges, tokens, req, floor, opened, proven>>

Provision(r, u, status) ==
  /\ req[r] = Idle /\ user[u].status = "absent"
  /\ Write(u, [NewUser EXCEPT !.status = status])
  /\ UNCHANGED <<sessions, challenges, tokens, req,
                 chosen, floor, opened, proven>>

Reactivate(r, u) ==
  /\ req[r] = Idle /\ user[u].status # "absent"
  /\ Write(u, Unlocked(user[u]))
  /\ UNCHANGED <<sessions, challenges, tokens, req,
                 chosen, floor, opened, proven>>

Deactivate(r, u) == UpdateStatus(r, u, "locked")

-----------------------------------------------------------------------------
(* Time passes, and a request may stop between two calls.                  *)

LockElapses(u) ==
  /\ user[u].until
  /\ user' = [user EXCEPT ![u].until = FALSE]
  /\ tries' = [tries EXCEPT ![u] = 0]
  /\ UNCHANGED <<sessions, challenges, tokens, req,
                 chosen, floor, opened, proven>>

(* An expired token is as good as a used one; an expired login state is    *)
(* found no more but still there.                                          *)
Expire ==
  /\ \/ /\ \E s \in sessions : sessions' = sessions \ {s}
        /\ UNCHANGED <<challenges, tokens>>
     \/ /\ \E c \in challenges : challenges' = challenges \ {c}
        /\ UNCHANGED <<sessions, tokens>>
     \/ /\ \E i \in Invites :
             /\ invite[i].state = "open"
             /\ invite' = [invite EXCEPT ![i].state = "closed"]
        /\ UNCHANGED <<sessions, challenges, reset, login>>
     \/ /\ \E t \in Resets :
             /\ reset[t].state = "open"
             /\ reset' = [reset EXCEPT ![t].state = "closed"]
        /\ UNCHANGED <<sessions, challenges, invite, login>>
     \/ /\ \E s \in Logins :
             /\ login[s] = "open"
             /\ login' = [login EXCEPT ![s] = "expired"]
        /\ UNCHANGED <<sessions, challenges, invite, reset>>
  /\ UNCHANGED <<user, req, history>>

Stop(r) ==
  /\ req[r] # Idle
  /\ Finish(r)
  /\ UNCHANGED <<user, sessions, challenges, tokens, history>>

-----------------------------------------------------------------------------
Statuses == {"absent", "invited", "active", "locked"}

Start(r) ==
  \/ \E u \in Users :
       \/ WrongPassword(r, u)  \/ RightPassword(r, u)  \/ Challenge(r, u)
       \/ StartMfaSetup(r, u)  \/ ConfirmMfaSetup(r, u)
       \/ StartDisableMfa(r, u)  \/ StartInvite(r, u)  \/ StartReset(r, u)
       \/ CreateUser(r, u)  \/ Reactivate(r, u)  \/ Deactivate(r, u)
       \/ \E s \in Statuses \ {"absent"} :
            UpdateStatus(r, u, s) \/ UpdatePassword(r, u, s)
       \/ \E s \in {"active", "locked"} : Provision(r, u, s)
  \/ \E c \in challenges : VerifyMfa(r, c)
  \/ \E i \in Invites : StartAccept(r, i)
  \/ \E t \in Resets : StartConfirm(r, t)
  \/ \E s \in Logins :
       StartLogin(r, s) \/ StartCallback(r, s) \/ SamlStart(r, s) \/ Acs(r, s)

Step(r) ==
  \/ CountFailure(r)  \/ Activate(r)  \/ OpenSession(r)
  \/ EnableMfa(r)  \/ DisableMfa(r)
  \/ WriteInvited(r)  \/ CloseInvites(r)  \/ CreateInvite(r)
  \/ AcceptPassword(r)  \/ CloseInvite(r)
  \/ CloseResets(r)  \/ CreateReset(r)
  \/ ResetPassword(r)  \/ CloseReset(r)  \/ EndSessions(r)
  \/ Consume(r)  \/ Match(r)

(* A request that starts while another is served overlaps it.              *)
Alone(r) == \A s \in Requests \ {r} : req[s] = Idle

Next ==
  \/ \E r \in Requests : Start(r) /\ overlapped' = (overlapped \/ ~Alone(r))
  \/ /\ \/ \E r \in Requests : Step(r) \/ Stop(r)
        \/ \E u \in Users : LockElapses(u)
        \/ Expire
     /\ UNCHANGED overlapped

Spec == Init /\ [][Next]_vars

-----------------------------------------------------------------------------
(* Properties *)

User == [status : Statuses, password : 0..Passwords, failures : 0..MaxFailed,
         until : BOOLEAN, secret : BOOLEAN, mfa : BOOLEAN]
Ways == {"password", "code", "invite", "sso"}
Request == [op : Ops \union {None}, user : Users \union {None},
            item : Invites \union Resets \union Logins \union {None},
            count : Nat, via : Ways \union {None}]
Token == [user : Users \union {None}, state : {"absent", "open", "closed"}]

(* The types of the variables.                                             *)
TypeOK ==
  /\ user \in [Users -> User]
  /\ sessions \subseteq [user : Users, via : Ways, password : Nat]
  /\ challenges \subseteq [user : Users, password : Nat]
  /\ invite \in [Invites -> Token]
  /\ reset \in [Resets -> Token]
  /\ login \in [Logins -> {"absent", "open", "expired", "gone"}]
  /\ req \in [Requests -> Request]
  /\ chosen \in [Users -> 0..Passwords]
  /\ tries \in [Users -> Nat]
  /\ floor \in [Users -> Nat]
  /\ opened \in [Invites \union Logins -> Nat]
  /\ proven \in [Users -> BOOLEAN]
  /\ overlapped \in BOOLEAN

(* The state of a single sign-on opens one session, however many callbacks *)
(* bring it back at the same time and wherever one of them stops.          *)
LoginOpensOnce == \A s \in Logins : opened[s] <= 1

(* An invitation opens more than one session only when requests that       *)
(* accept it overlap, one each.                                            *)
InvitePerOverlap ==
  \A i \in Invites : opened[i] <= Cardinality(Requests)

(* How many wrong passwords are looked at before an account stays locked,  *)
(* when two requests overlap: a count written late takes back those made   *)
(* meanwhile, and the lock with them, once from every value of the count.  *)
LockedInTime ==
  \A u \in Users : tries[u] <= (MaxFailed * (MaxFailed + 3)) \div 2

OneOpen(rows) ==
  \A u \in Users :
    Cardinality({k \in DOMAIN rows : rows[k] = [user |-> u, state |-> "open"]})
      <= 1

(* As long as requests do not overlap, wherever one of them stops: the     *)
(* account is locked by the last failure it allows; an invitation opens    *)
(* one session; a user has one open invitation and one open reset; a reset *)
(* that was answered leaves no session from before it, except one that     *)
(* the client completes with a code for an older challenge; and a second   *)
(* factor is asked for only once its user has entered a code of it.        *)
SignsInOrderly ==
  ~overlapped =>
    /\ \A u \in Users : tries[u] <= MaxFailed
    /\ \A i \in Invites : opened[i] <= 1
    /\ OneOpen(invite) /\ OneOpen(reset)
    /\ \A s \in sessions : s.password >= floor[s.user] \/ s.via = "code"
    /\ \A u \in Users : user[u].mfa => proven[u]
=============================================================================
